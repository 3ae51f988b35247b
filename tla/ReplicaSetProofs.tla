--------------------------- MODULE ReplicaSetProofs ---------------------------
(* Proofs about ReplicaSet, for every finite set of members.                *)
EXTENDS ReplicaSetInv, FiniteSetTheorems, TLAPS

\* What a frame of each kind carries (the ServerMessage and ClientMessage
\* variants of a session).
LEMMA FrameTypes ==
  /\ \A d \in Down : d.type \in {"hello", "heartbeat", "batch"} => d.epoch \in Nat
  /\ \A d \in Down : d.type = "batch" => d.tx_id \in Nat /\ d.entry \in Entry
  /\ \A u \in Up : u # NoMsg => u.epoch \in Nat /\ u.durable \in Nat
  /\ NoMsg \in Down /\ NoMsg \in Up /\ NoConn \in Conn
BY DEF Down, Up, NoMsg, NoConn, Conn

\* A connection that exists, or carries a frame, has a peer.
LEMMA ConnTypes ==
  \A c \in Conn : c.st # "none" \/ c.down # NoMsg =>
    /\ c.st \in {"hello", "open", "closed"} /\ c.to \in Member /\ c.sent \in Nat
    /\ c.down \in Down /\ c.up \in Up
BY DEF Conn, NoConn

\* The updates of a connection's fields.
LEMMA ConnUpdate ==
  ASSUME NEW c \in Conn, c.st # "none" \/ c.down # NoMsg, NEW d \in Down, NEW u \in Up, NEW n \in Nat
  PROVE  /\ [c EXCEPT !.down = d] \in Conn
         /\ [c EXCEPT !.up = u] \in Conn
         /\ [c EXCEPT !.sent = n, !.down = d] \in Conn
         /\ [c EXCEPT !.st = "open", !.down = d] \in Conn
         /\ [c EXCEPT !.st = "closed", !.up = u] \in Conn
<1>1. c \in [st : {"hello", "open", "closed"}, to : Member, sent : Nat, down : Down, up : Up]
  BY DEF Conn, NoConn
<1>2. [c EXCEPT !.down = d] \in Conn
  BY <1>1 DEF Conn
<1>3. [c EXCEPT !.up = u] \in Conn
  BY <1>1 DEF Conn
<1>4. [c EXCEPT !.sent = n, !.down = d] \in Conn
  BY <1>1 DEF Conn
<1>5. [c EXCEPT !.st = "open", !.down = d] \in Conn
  BY <1>1 DEF Conn
<1>6. [c EXCEPT !.st = "closed", !.up = u] \in Conn
  BY <1>1 DEF Conn
<1> QED BY <1>2, <1>3, <1>4, <1>5, <1>6

\* An answer being given holds what it read.
LEMMA AnswerTypes ==
  \A a \in {NoAnswer} \cup Answer : a # NoAnswer => a \in Answer
OBVIOUS

\* Max2 is the larger of two numbers (fetch_max on the epochs).
LEMMA Max2Nat == \A a, b \in Nat : Max2(a, b) \in Nat /\ Max2(a, b) >= a /\ Max2(a, b) >= b
BY DEF Max2

\* The boot state has the types.
LEMMA TypeInit == Init => TypeOK
BY MembersAssumption, FrameTypes
   DEF Init, TypeOK, DiskTypes, StandingTypes, ElectionTypes, SessionTypes, WriteTypes,
       BoundTypes, HistoryTypes, NoBallot, Ballot, NoCall, ConfigRole, Entry

\* Every handler and step keeps the types.
LEMMA TypeStep == TypeOK /\ [Next]_vars => TypeOK'
<1> SUFFICES ASSUME TypeOK, [Next]_vars PROVE TypeOK'
  OBVIOUS
<1> USE DEF disk, standing, election, sessions, writes, bounds, history
<1>0. /\ DiskTypes /\ StandingTypes /\ ElectionTypes /\ SessionTypes /\ WriteTypes
      /\ BoundTypes /\ HistoryTypes
  BY DEF TypeOK
<1> USE <1>0
<1>1. ASSUME NEW m \in Member, Admit(m) PROVE TypeOK'
  <2>1. WriteTypes'
    BY <1>1 DEF Admit, WriteTypes
  <2>2. DiskTypes' /\ StandingTypes' /\ ElectionTypes' /\ SessionTypes' /\ BoundTypes' /\ HistoryTypes'
    BY <1>1 DEF Admit, DiskTypes, StandingTypes, ElectionTypes, SessionTypes, BoundTypes, HistoryTypes
  <2> QED BY <2>1, <2>2 DEF TypeOK
<1>2. ASSUME NEW m \in Member, Commit(m) PROVE TypeOK'
  <2>1. Append(log[m], [epoch |-> logEpoch[m], tx |-> txs + 1]) \in Seq(Entry)
    BY DEF DiskTypes, StandingTypes, WriteTypes, Entry
  <2>2. log' \in [Member -> Seq(Entry)] /\ \A n \in Member : Len(log'[n]) >= Len(log[n])
    BY <1>2, <2>1 DEF Commit, DiskTypes
  <2>3. m = Boot => Len(log'[Boot]) = Len(log[Boot]) + 1
    BY <1>2, <2>1 DEF Commit, DiskTypes
  <2>4. DiskTypes'
    BY <1>2, <2>2 DEF Commit, DiskTypes
  <2>5. WriteTypes'
    BY <1>2, <2>2, <2>3 DEF Commit, WriteTypes
  <2>6. StandingTypes' /\ ElectionTypes' /\ SessionTypes' /\ BoundTypes' /\ HistoryTypes'
    BY <1>2 DEF Commit, StandingTypes, ElectionTypes, SessionTypes, BoundTypes, HistoryTypes
  <2> QED BY <2>4, <2>5, <2>6 DEF TypeOK
<1>3. ASSUME BarrierEnter PROVE TypeOK'
  <2>1. WriteTypes'
    BY <1>3 DEF BarrierEnter, WriteTypes, NoCall
  <2>2. DiskTypes' /\ StandingTypes' /\ ElectionTypes' /\ SessionTypes' /\ BoundTypes' /\ HistoryTypes'
    BY <1>3 DEF BarrierEnter, DiskTypes, StandingTypes, ElectionTypes, SessionTypes, BoundTypes, HistoryTypes
  <2> QED BY <2>1, <2>2 DEF TypeOK
<1>4. ASSUME BarrierPass PROVE TypeOK'
  <2>1. log[Boot][call.tx_id] \in Entry
    BY <1>4, MembersAssumption DEF BarrierPass, DiskTypes, WriteTypes
  <2>2. acked' \subseteq Nat \X Nat
    BY <1>4, <2>1 DEF BarrierPass, HistoryTypes, WriteTypes, Entry
  <2>3. WriteTypes'
    BY <1>4 DEF BarrierPass, WriteTypes, NoCall
  <2>4. HistoryTypes'
    BY <1>4, <2>2 DEF BarrierPass, HistoryTypes
  <2>5. DiskTypes' /\ StandingTypes' /\ ElectionTypes' /\ SessionTypes' /\ BoundTypes'
    BY <1>4 DEF BarrierPass, DiskTypes, StandingTypes, ElectionTypes, SessionTypes, BoundTypes
  <2> QED BY <2>3, <2>4, <2>5 DEF TypeOK
<1>5. ASSUME BarrierGiveUp PROVE TypeOK'
  <2>1. WriteTypes'
    BY <1>5 DEF BarrierGiveUp, WriteTypes, NoCall
  <2>2. DiskTypes' /\ StandingTypes' /\ ElectionTypes' /\ SessionTypes' /\ BoundTypes' /\ HistoryTypes'
    BY <1>5 DEF BarrierGiveUp, DiskTypes, StandingTypes, ElectionTypes, SessionTypes, BoundTypes, HistoryTypes
  <2> QED BY <2>1, <2>2 DEF TypeOK
<1>6. ASSUME NEW f \in Member, NEW t \in Member, Dial(f, t) PROVE TypeOK'
  <2>1. [NoConn EXCEPT !.st = "hello", !.to = t, !.sent = Len(log[f])] \in Conn
    <3>1. Len(log[f]) \in Nat
      BY DEF DiskTypes
    <3> QED BY <3>1, FrameTypes DEF NoConn, Conn
  <2>2. SessionTypes'
    BY <1>6, <2>1 DEF Dial, SessionTypes
  <2>3. BoundTypes'
    BY <1>6 DEF Dial, BoundTypes
  <2>4. DiskTypes' /\ StandingTypes' /\ ElectionTypes' /\ WriteTypes' /\ HistoryTypes'
    BY <1>6 DEF Dial, DiskTypes, StandingTypes, ElectionTypes, WriteTypes, HistoryTypes
  <2> QED BY <2>2, <2>3, <2>4 DEF TypeOK
<1>7. ASSUME NEW t \in Member, NEW f \in Member, EndStream(t, f) PROVE TypeOK'
  <2>1. SessionTypes'
    BY <1>7 DEF EndStream, SessionTypes
  <2>2. DiskTypes' /\ StandingTypes' /\ ElectionTypes' /\ WriteTypes' /\ BoundTypes' /\ HistoryTypes'
    BY <1>7 DEF EndStream, DiskTypes, StandingTypes, ElectionTypes, WriteTypes, BoundTypes, HistoryTypes
  <2> QED BY <2>1, <2>2 DEF TypeOK
<1>8. ASSUME NEW f \in Member, Refuse(f) PROVE TypeOK'
  <2>1. conn[f].st # "none" /\ conn[f] \in Conn
    BY <1>8 DEF Refuse, SessionTypes
  <2>2. conn[f].to \in Member /\ conn[f].sent \in Nat /\ conn[f].down \in Down /\ conn[f].up \in Up
    BY <2>1, ConnTypes
  <2>3. Max2(svcEpoch[conn[f].to], epoch[f]) \in Nat
    BY <2>2, Max2Nat DEF DiskTypes, StandingTypes
  <2>4. \/ svcEpoch' = svcEpoch /\ fenced' = fenced
        \/ /\ svcEpoch' = [svcEpoch EXCEPT ![conn[f].to] = Max2(@, epoch[f])]
           /\ fenced' = [fenced EXCEPT ![conn[f].to] = TRUE]
    BY <1>8 DEF Refuse, Fence
  <2>5. svcEpoch' \in [Member -> Nat] /\ fenced' \in [Member -> BOOLEAN]
    BY <2>2, <2>3, <2>4 DEF StandingTypes
  <2>6. StandingTypes'
    BY <1>8, <2>5 DEF Refuse, StandingTypes
  <2>7. SessionTypes'
    BY <1>8, FrameTypes DEF Refuse, SessionTypes, Close
  <2>8. DiskTypes' /\ ElectionTypes' /\ WriteTypes' /\ BoundTypes' /\ HistoryTypes'
    BY <1>8 DEF Refuse, DiskTypes, ElectionTypes, WriteTypes, BoundTypes, HistoryTypes
  <2> QED BY <2>6, <2>7, <2>8 DEF TypeOK
<1>9. ASSUME NEW f \in Member, Accept(f) PROVE TypeOK'
  <2>1. conn[f].st # "none" /\ conn[f] \in Conn
    BY <1>9 DEF Accept, SessionTypes
  <2>2. conn[f].to \in Member /\ conn[f].sent \in Nat /\ conn[f].down \in Down /\ conn[f].up \in Up
    BY <2>1, ConnTypes
  <2>3. [type |-> "hello", epoch |-> svcEpoch[conn[f].to]] \in Down
    BY <2>2 DEF Down, StandingTypes
  <2>4. conn' \in [Member -> Conn]
    <3>1. [conn[f] EXCEPT !.st = "open",
                          !.down = [type |-> "hello", epoch |-> svcEpoch[conn[f].to]]] \in Conn
      BY <2>1, <2>3, ConnUpdate, FrameTypes
    <3> QED BY <1>9, <3>1 DEF Accept, SessionTypes
  <2>5. SessionTypes'
    BY <1>9, <2>1, <2>2, <2>4 DEF Accept, SessionTypes, DiskTypes
  <2>6. DiskTypes' /\ StandingTypes' /\ ElectionTypes' /\ WriteTypes' /\ BoundTypes' /\ HistoryTypes'
    BY <1>9 DEF Accept, DiskTypes, StandingTypes, ElectionTypes, WriteTypes, BoundTypes, HistoryTypes
  <2> QED BY <2>5, <2>6 DEF TypeOK
<1>10. ASSUME NEW f \in Member, SendBatch(f) PROVE TypeOK'
  <2>1. conn[f].st # "none" /\ conn[f] \in Conn
    BY <1>10 DEF SendBatch, SessionTypes
  <2>2. conn[f].to \in Member /\ conn[f].sent \in Nat /\ conn[f].down \in Down /\ conn[f].up \in Up
    BY <2>1, ConnTypes
  <2>3. log[conn[f].to][conn[f].sent + 1] \in Entry
    BY <1>10, <2>2 DEF SendBatch, DiskTypes
  <2>4. conn[f].sent + 1 \in Nat /\ [type |-> "batch", epoch |-> svcEpoch[conn[f].to], tx_id |-> conn[f].sent + 1,
         entry |-> log[conn[f].to][conn[f].sent + 1]] \in Down
    BY <2>2, <2>3 DEF Down, StandingTypes
  <2>5. SessionTypes'
    BY <1>10, <2>1, <2>2, <2>4, ConnUpdate DEF SendBatch, SessionTypes
  <2>6. DiskTypes' /\ StandingTypes' /\ ElectionTypes' /\ WriteTypes' /\ BoundTypes' /\ HistoryTypes'
    BY <1>10 DEF SendBatch, DiskTypes, StandingTypes, ElectionTypes, WriteTypes, BoundTypes, HistoryTypes
  <2> QED BY <2>5, <2>6 DEF TypeOK
<1>11. ASSUME NEW f \in Member, SendHeartbeat(f) PROVE TypeOK'
  <2>1. conn[f].st # "none" /\ conn[f] \in Conn
    BY <1>11 DEF SendHeartbeat, SessionTypes
  <2>2. conn[f].to \in Member /\ conn[f].sent \in Nat /\ conn[f].down \in Down /\ conn[f].up \in Up
    BY <2>1, ConnTypes
  <2>3. [type |-> "heartbeat", epoch |-> svcEpoch[conn[f].to]] \in Down
    BY <2>2 DEF Down, StandingTypes
  <2>4. SessionTypes'
    BY <1>11, <2>1, <2>2, <2>3, ConnUpdate DEF SendHeartbeat, SessionTypes
  <2>5. DiskTypes' /\ StandingTypes' /\ ElectionTypes' /\ WriteTypes' /\ BoundTypes' /\ HistoryTypes'
    BY <1>11 DEF SendHeartbeat, DiskTypes, StandingTypes, ElectionTypes, WriteTypes, BoundTypes, HistoryTypes
  <2> QED BY <2>4, <2>5 DEF TypeOK
<1>12. ASSUME NEW f \in Member, ReceiveEpoch(f) PROVE TypeOK'
  <2>1. conn[f].down # NoMsg /\ conn[f] \in Conn
    BY <1>12 DEF ReceiveEpoch, SessionTypes, NoMsg
  <2>2. conn[f].to \in Member /\ conn[f].sent \in Nat /\ conn[f].down \in Down /\ conn[f].up \in Up
    BY <2>1, ConnTypes
  <2>3. conn[f].down.epoch \in Nat
    BY <1>12, <2>2, FrameTypes DEF ReceiveEpoch
  <2>4. DiskTypes'
    BY <1>12, <2>3, Max2Nat DEF ReceiveEpoch, DiskTypes
  <2>5. SessionTypes'
    BY <1>12, <2>1, FrameTypes, ConnUpdate DEF ReceiveEpoch, SessionTypes, Received
  <2>6. StandingTypes' /\ ElectionTypes' /\ WriteTypes' /\ BoundTypes' /\ HistoryTypes'
    BY <1>12 DEF ReceiveEpoch, StandingTypes, ElectionTypes, WriteTypes, BoundTypes, HistoryTypes
  <2> QED BY <2>4, <2>5, <2>6 DEF TypeOK
<1>13. ASSUME NEW f \in Member, ReceiveBatch(f) PROVE TypeOK'
  <2>1. conn[f].down # NoMsg /\ conn[f] \in Conn
    BY <1>13 DEF ReceiveBatch, SessionTypes, NoMsg
  <2>2. conn[f].to \in Member /\ conn[f].sent \in Nat /\ conn[f].down \in Down /\ conn[f].up \in Up
    BY <2>1, ConnTypes
  <2>3. conn[f].down.epoch \in Nat /\ conn[f].down.tx_id \in Nat /\ conn[f].down.entry \in Entry
    BY <1>13, <2>2, FrameTypes DEF ReceiveBatch
  <2>4. conn[f].down.entry.epoch \in Nat /\ conn[f].down.entry.tx \in Nat
    BY <2>3 DEF Entry
  <2>5. logEpoch' \in [Member -> Nat] /\ epoch' \in [Member -> Nat]
    BY <1>13, <2>4 DEF ReceiveBatch, DiskTypes, StandingTypes
  <2>6. Append(log[f], [epoch |-> logEpoch'[f], tx |-> conn[f].down.entry.tx]) \in Seq(Entry)
    BY <2>4, <2>5 DEF DiskTypes, Entry
  <2>7. log' \in [Member -> Seq(Entry)] /\ \A n \in Member : Len(log'[n]) >= Len(log[n])
    <3>1. \/ log' = [log EXCEPT ![f] = Append(@, [epoch |-> logEpoch'[f], tx |-> conn[f].down.entry.tx])]
          \/ log' = log
      BY <1>13 DEF ReceiveBatch
    <3>2. CASE log' = log
      BY <3>2 DEF DiskTypes
    <3>3. CASE log' = [log EXCEPT ![f] = Append(@, [epoch |-> logEpoch'[f], tx |-> conn[f].down.entry.tx])]
      <4>1. Len(Append(log[f], [epoch |-> logEpoch'[f], tx |-> conn[f].down.entry.tx])) = Len(log[f]) + 1
        BY <2>4, <2>5 DEF DiskTypes, Entry
      <4> QED BY <3>3, <2>6, <4>1 DEF DiskTypes
    <3> QED BY <3>1, <3>2, <3>3
  <2>8. conn' = [conn EXCEPT ![f] = [@ EXCEPT !.down = NoMsg]] \/ conn' = [conn EXCEPT ![f] = NoConn]
    BY <1>13 DEF ReceiveBatch, Received, Leave, Close
  <2>9. conn' \in [Member -> Conn]
    BY <2>1, <2>8, FrameTypes, ConnUpdate DEF SessionTypes
  <2>10. DiskTypes'
    BY <1>13, <2>5, <2>7 DEF ReceiveBatch, DiskTypes
  <2>11. StandingTypes'
    BY <1>13, <2>5 DEF ReceiveBatch, StandingTypes
  <2>12. SessionTypes'
    BY <1>13, <2>2, <2>8, <2>9 DEF ReceiveBatch, SessionTypes, Leave, Close
  <2>13. WriteTypes'
    BY <1>13, <2>7, MembersAssumption DEF ReceiveBatch, WriteTypes, DiskTypes
  <2>14. ElectionTypes' /\ BoundTypes' /\ HistoryTypes'
    BY <1>13 DEF ReceiveBatch, ElectionTypes, BoundTypes, HistoryTypes
  <2> QED BY <2>10, <2>11, <2>12, <2>13, <2>14 DEF TypeOK
<1>14. ASSUME NEW f \in Member, SendAck(f) PROVE TypeOK'
  <2>1. conn[f].st # "none" /\ conn[f] \in Conn
    BY <1>14 DEF SendAck, SessionTypes
  <2>2. conn[f].to \in Member /\ conn[f].sent \in Nat /\ conn[f].down \in Down /\ conn[f].up \in Up
    BY <2>1, ConnTypes
  <2>3. [type |-> "ack", epoch |-> epoch[f], durable |-> Len(log[f])] \in Up
    BY DEF Up, DiskTypes
  <2>4. SessionTypes'
    BY <1>14, <2>1, <2>2, <2>3, ConnUpdate DEF SendAck, SessionTypes
  <2>5. DiskTypes' /\ StandingTypes' /\ ElectionTypes' /\ WriteTypes' /\ BoundTypes' /\ HistoryTypes'
    BY <1>14 DEF SendAck, DiskTypes, StandingTypes, ElectionTypes, WriteTypes, BoundTypes, HistoryTypes
  <2> QED BY <2>4, <2>5 DEF TypeOK
<1>15. ASSUME NEW f \in Member, ReceiveAck(f) PROVE TypeOK'
  <2>1. conn[f].st # "none" /\ conn[f] \in Conn
    BY <1>15 DEF ReceiveAck, SessionTypes
  <2>2. conn[f].to \in Member /\ conn[f].sent \in Nat /\ conn[f].down \in Down /\ conn[f].up \in Up
    BY <2>1, ConnTypes
  <2>3. conn[f].up.epoch \in Nat /\ conn[f].up.durable \in Nat
    BY <1>15, <2>2, FrameTypes DEF ReceiveAck
  <2>4. Max2(svcEpoch[conn[f].to], conn[f].up.epoch) \in Nat
    BY <2>2, <2>3, Max2Nat DEF StandingTypes
  <2>5. Max2(durable[<<conn[f].to, f>>], conn[f].up.durable) \in Nat
    BY <2>2, <2>3, Max2Nat DEF SessionTypes
  <2>6. conn' \in [Member -> Conn]
    BY <1>15, <2>1, FrameTypes, ConnUpdate DEF ReceiveAck, SessionTypes
  <2>7. StandingTypes'
    BY <1>15, <2>2, <2>4 DEF ReceiveAck, StandingTypes, Fence
  <2>8. SessionTypes'
    BY <1>15, <2>2, <2>5, <2>6 DEF ReceiveAck, SessionTypes
  <2>9. DiskTypes' /\ ElectionTypes' /\ WriteTypes' /\ BoundTypes' /\ HistoryTypes'
    BY <1>15 DEF ReceiveAck, DiskTypes, ElectionTypes, WriteTypes, BoundTypes, HistoryTypes
  <2> QED BY <2>7, <2>8, <2>9 DEF TypeOK
<1>16. ASSUME NEW f \in Member, Disconnect(f) PROVE TypeOK'
  <2>1. conn[f].st # "none" /\ conn[f] \in Conn
    BY <1>16 DEF Disconnect, SessionTypes
  <2>2. conn[f].to \in Member /\ conn[f].sent \in Nat /\ conn[f].down \in Down /\ conn[f].up \in Up
    BY <2>1, ConnTypes
  <2>3. SessionTypes'
    BY <1>16, <2>2, FrameTypes DEF Disconnect, SessionTypes, Leave, Close
  <2>4. DiskTypes' /\ StandingTypes' /\ ElectionTypes' /\ WriteTypes' /\ BoundTypes' /\ HistoryTypes'
    BY <1>16 DEF Disconnect, DiskTypes, StandingTypes, ElectionTypes, WriteTypes, BoundTypes, HistoryTypes
  <2> QED BY <2>3, <2>4 DEF TypeOK
<1>17. ASSUME NEW m \in Member, Propose(m) PROVE TypeOK'
  <2>1. Max2(epoch[m], ballot[m].epoch) + 1 \in Nat
    <3>1. epoch[m] \in Nat /\ ballot[m].epoch \in Nat
      BY DEF DiskTypes, ElectionTypes, Ballot
    <3>2. Max2(epoch[m], ballot[m].epoch) \in Nat
      BY <3>1, Max2Nat
    <3> QED BY <3>2
  <2>2. conn[m].st = "open" => conn[m].to \in Member
    BY ConnTypes DEF SessionTypes
  <2>3. ElectionTypes'
    BY <1>17, <2>1 DEF Propose, ElectionTypes
  <2>4. SessionTypes'
    BY <1>17, <2>2, FrameTypes DEF Propose, SessionTypes, Leave, Close
  <2>5. DiskTypes' /\ StandingTypes' /\ WriteTypes' /\ BoundTypes' /\ HistoryTypes'
    BY <1>17 DEF Propose, DiskTypes, StandingTypes, WriteTypes, BoundTypes, HistoryTypes
  <2> QED BY <2>3, <2>4, <2>5 DEF TypeOK
<1>18. ASSUME NEW m \in Member, PersistSelfBallot(m) PROVE TypeOK'
  <2>1. SelfBallot(m) \in Ballot
    BY DEF SelfBallot, Ballot, ElectionTypes
  <2>2. DiskTypes'
    BY <1>18, <2>1 DEF PersistSelfBallot, DiskTypes
  <2>3. ElectionTypes'
    BY <1>18 DEF PersistSelfBallot, ElectionTypes
  <2>4. HistoryTypes'
    BY <1>18 DEF PersistSelfBallot, HistoryTypes, Clobber
  <2>5. StandingTypes' /\ SessionTypes' /\ WriteTypes' /\ BoundTypes'
    BY <1>18 DEF PersistSelfBallot, StandingTypes, SessionTypes, WriteTypes, BoundTypes
  <2> QED BY <2>2, <2>3, <2>4, <2>5 DEF TypeOK
<1>19. ASSUME NEW m \in Member, RequestVotes(m) PROVE TypeOK'
  <2>1. SelfBallot(m) \in Ballot
    BY DEF SelfBallot, Ballot, ElectionTypes
  <2>2. LogHead(m) \in Position
    BY DEF LogHead, Position, DiskTypes, StandingTypes
  <2>3. reqs' \subseteq Req
    BY <1>19, <2>2 DEF RequestVotes, Req, ElectionTypes
  <2>4. ElectionTypes'
    BY <1>19, <2>1, <2>3 DEF RequestVotes, ElectionTypes
  <2>5. HistoryTypes'
    BY <1>19 DEF RequestVotes, HistoryTypes, Clobber, ElectionTypes
  <2>6. DiskTypes' /\ StandingTypes' /\ SessionTypes' /\ WriteTypes' /\ BoundTypes'
    BY <1>19 DEF RequestVotes, DiskTypes, StandingTypes, SessionTypes, WriteTypes, BoundTypes
  <2> QED BY <2>4, <2>5, <2>6 DEF TypeOK
<1>20. ASSUME NEW m \in Member, NEW r \in reqs, AnswerRead(m, r) PROVE TypeOK'
  <2>1. LogHead(m) \in Position
    BY DEF LogHead, Position, DiskTypes, StandingTypes
  <2>2. \A hears \in HearsPrimary(m) : hears \in BOOLEAN
    BY DEF HearsPrimary, StandingTypes
  <2>3. answering' \in [Member -> {NoAnswer} \cup Answer]
    BY <1>20, <2>1, <2>2 DEF AnswerRead, Answer, ElectionTypes, DiskTypes
  <2>4. ElectionTypes'
    BY <1>20, <2>3 DEF AnswerRead, ElectionTypes
  <2>5. DiskTypes' /\ StandingTypes' /\ SessionTypes' /\ WriteTypes' /\ BoundTypes' /\ HistoryTypes'
    BY <1>20 DEF AnswerRead, DiskTypes, StandingTypes, SessionTypes, WriteTypes, BoundTypes, HistoryTypes
  <2> QED BY <2>4, <2>5 DEF TypeOK
<1>21. ASSUME NEW m \in Member, Grant(m) PROVE TypeOK'
  <2>1. answering[m] \in Answer
    BY <1>21, AnswerTypes DEF Grant, ElectionTypes
  <2>2. /\ answering[m].req.from \in Member /\ answering[m].req.to \in Member
        /\ answering[m].req.epoch \in Nat /\ answering[m].acting \in Nat
    BY <2>1 DEF Answer, Req
  <2>3. [epoch |-> answering[m].req.epoch, voted_for |-> answering[m].req.from] \in Ballot
    BY <2>2 DEF Ballot
  <2>4. resps' \subseteq Resp
    <3>1. [from |-> answering[m].req.to, to |-> answering[m].req.from,
           epoch |-> answering[m].acting, granted |-> TRUE] \in Resp
      BY <2>2, <2>3 DEF Resp
    <3> QED BY <1>21, <3>1 DEF Grant, Respond, ElectionTypes
  <2>5. DiskTypes'
    BY <1>21, <2>3 DEF Grant, DiskTypes
  <2>6. ElectionTypes'
    BY <1>21, <2>3, <2>4 DEF Grant, ElectionTypes
  <2>7. HistoryTypes'
    BY <1>21, <2>2, <2>3 DEF Grant, HistoryTypes, Clobber
  <2>8. StandingTypes' /\ SessionTypes' /\ WriteTypes' /\ BoundTypes'
    BY <1>21 DEF Grant, StandingTypes, SessionTypes, WriteTypes, BoundTypes
  <2> QED BY <2>5, <2>6, <2>7, <2>8 DEF TypeOK
<1>22. ASSUME NEW m \in Member, Deny(m) PROVE TypeOK'
  <2>1. answering[m] \in Answer
    BY <1>22, AnswerTypes DEF Deny, ElectionTypes
  <2>2. /\ answering[m].req.from \in Member /\ answering[m].req.to \in Member
        /\ answering[m].req.epoch \in Nat /\ answering[m].acting \in Nat
    BY <2>1 DEF Answer, Req
  <2>3. Max2(answering[m].acting, ballot[m].epoch) \in Nat
    BY <2>2, Max2Nat DEF ElectionTypes, Ballot
  <2>4. resps' \subseteq Resp
    <3>1. [from |-> answering[m].req.to, to |-> answering[m].req.from,
           epoch |-> Max2(answering[m].acting, ballot[m].epoch), granted |-> FALSE] \in Resp
      BY <2>2, <2>3 DEF Resp
    <3> QED BY <1>22, <3>1 DEF Deny, Respond, ElectionTypes
  <2>5. ElectionTypes'
    BY <1>22, <2>4 DEF Deny, ElectionTypes
  <2>6. DiskTypes' /\ StandingTypes' /\ SessionTypes' /\ WriteTypes' /\ BoundTypes' /\ HistoryTypes'
    BY <1>22 DEF Deny, DiskTypes, StandingTypes, SessionTypes, WriteTypes, BoundTypes, HistoryTypes
  <2> QED BY <2>5, <2>6 DEF TypeOK
<1>23. ASSUME NEW m \in Member, StandDown(m) PROVE TypeOK'
  <2>1. \A r \in resps : r.epoch \in Nat
    BY DEF ElectionTypes, Resp
  <2>2. DiskTypes'
    BY <1>23, <2>1 DEF StandDown, DiskTypes, NewerSeen, Got
  <2>3. ElectionTypes'
    BY <1>23 DEF StandDown, ElectionTypes, EndRound
  <2>4. StandingTypes' /\ SessionTypes' /\ WriteTypes' /\ BoundTypes' /\ HistoryTypes'
    BY <1>23 DEF StandDown, StandingTypes, SessionTypes, WriteTypes, BoundTypes, HistoryTypes
  <2> QED BY <2>2, <2>3, <2>4 DEF TypeOK
<1>24. ASSUME NEW m \in Member, LoseRound(m) PROVE TypeOK'
  <2>1. ElectionTypes'
    BY <1>24 DEF LoseRound, ElectionTypes, EndRound
  <2>2. DiskTypes' /\ StandingTypes' /\ SessionTypes' /\ WriteTypes' /\ BoundTypes' /\ HistoryTypes'
    BY <1>24 DEF LoseRound, DiskTypes, StandingTypes, SessionTypes, WriteTypes, BoundTypes, HistoryTypes
  <2> QED BY <2>1, <2>2 DEF TypeOK
<1>25. ASSUME NEW m \in Member, WinRound(m) PROVE TypeOK'
  <2>1. DiskTypes'
    BY <1>25 DEF WinRound, DiskTypes, ElectionTypes
  <2>2. ElectionTypes'
    BY <1>25 DEF WinRound, ElectionTypes, EndRound
  <2>3. StandingTypes' /\ SessionTypes' /\ WriteTypes' /\ BoundTypes' /\ HistoryTypes'
    BY <1>25 DEF WinRound, StandingTypes, SessionTypes, WriteTypes, BoundTypes, HistoryTypes
  <2> QED BY <2>1, <2>2, <2>3 DEF TypeOK
<1>26. ASSUME NEW m \in Member, Promote(m) PROVE TypeOK'
  <2>1. StandingTypes'
    BY <1>26, Max2Nat DEF Promote, StandingTypes, ElectionTypes
  <2>2. ElectionTypes'
    BY <1>26 DEF Promote, ElectionTypes
  <2>3. HistoryTypes'
    BY <1>26 DEF Promote, HistoryTypes, ElectionTypes
  <2>4. DiskTypes' /\ SessionTypes' /\ WriteTypes' /\ BoundTypes'
    BY <1>26 DEF Promote, DiskTypes, SessionTypes, WriteTypes, BoundTypes
  <2> QED BY <2>1, <2>2, <2>3, <2>4 DEF TypeOK
<1>27. ASSUME NEW m \in Member, Demote(m) PROVE TypeOK'
  <2>1. DiskTypes'
    BY <1>27 DEF Demote, DiskTypes, StandingTypes
  <2>2. StandingTypes'
    BY <1>27 DEF Demote, StandingTypes
  <2>3. ElectionTypes' /\ SessionTypes' /\ WriteTypes' /\ BoundTypes' /\ HistoryTypes'
    BY <1>27 DEF Demote, ElectionTypes, SessionTypes, WriteTypes, BoundTypes, HistoryTypes
  <2> QED BY <2>1, <2>2, <2>3 DEF TypeOK
<1>28. ASSUME NEW m \in Member, Crash(m) PROVE TypeOK'
  <2>1. conn' \in [Member -> Conn]
    <3>0. \A f \in Member : conn[f].to = m => conn[f].st # "none"
      BY MembersAssumption DEF SessionTypes, Conn, NoConn
    <3>1. \A f \in Member : conn[f].to = m => [conn[f] EXCEPT !.st = "closed", !.up = NoMsg] \in Conn
      BY <3>0, FrameTypes, ConnUpdate DEF SessionTypes
    <3> QED BY <1>28, <3>1, FrameTypes DEF Crash, SessionTypes
  <2>2. conn[m].st = "open" => conn[m].to \in Member
    BY ConnTypes DEF SessionTypes
  <2>3. crashes' = crashes + 1 /\ dials' = dials
    BY <1>28 DEF Crash
  <2>4. StandingTypes'
    BY <1>28 DEF Crash, StandingTypes
  <2>5. ElectionTypes'
    BY <1>28 DEF Crash, ElectionTypes
  <2>6. SessionTypes'
    BY <1>28, <2>1, <2>2 DEF Crash, SessionTypes
  <2>7. WriteTypes'
    BY <1>28 DEF Crash, WriteTypes, NoCall
  <2>8. BoundTypes'
    BY <2>3 DEF BoundTypes
  <2>9. DiskTypes' /\ HistoryTypes'
    BY <1>28 DEF Crash, DiskTypes, HistoryTypes
  <2> QED BY <2>4, <2>5, <2>6, <2>7, <2>8, <2>9 DEF TypeOK
<1>29. ASSUME NEW m \in Member, Restart(m) PROVE TypeOK'
  <2>1. StandingTypes'
    BY <1>29 DEF Restart, StandingTypes, ConfigRole, DiskTypes
  <2>2. ElectionTypes'
    BY <1>29 DEF Restart, ElectionTypes, DiskTypes
  <2>3. DiskTypes' /\ SessionTypes' /\ WriteTypes' /\ BoundTypes' /\ HistoryTypes'
    BY <1>29 DEF Restart, DiskTypes, SessionTypes, WriteTypes, BoundTypes, HistoryTypes
  <2> QED BY <2>1, <2>2, <2>3 DEF TypeOK
<1>30. CASE UNCHANGED vars
  BY <1>30 DEF vars, TypeOK, DiskTypes, StandingTypes, ElectionTypes, SessionTypes, WriteTypes, BoundTypes, HistoryTypes
<1> QED BY <1>1, <1>2, <1>3, <1>4, <1>5, <1>6, <1>7, <1>8, <1>9, <1>10, <1>11, <1>12, <1>13, <1>14, <1>15, <1>16, <1>17, <1>18, <1>19, <1>20, <1>21, <1>22, <1>23, <1>24, <1>25, <1>26, <1>27, <1>28, <1>29, <1>30
        DEF Next, Writing, Streaming, Electing, Failing

-----------------------------------------------------------------------------
(* The election. *)

\* What the election's invariant reads, besides the connections.
evars == <<vote, ballot, role, pc, round, answering, reqs, resps, votes, won, clobbered>>

\* Two majorities of the members share one (majority, REP-030).
LEMMA MajoritiesMeet ==
  ASSUME NEW A \in SUBSET Member, NEW B \in SUBSET Member,
         Cardinality(A) >= Majority, Cardinality(B) >= Majority
  PROVE  \E v \in Member : v \in A /\ v \in B
<1>1. IsFiniteSet(A) /\ IsFiniteSet(B) /\ IsFiniteSet(A \cup B)
  BY MembersAssumption, FS_Subset, FS_Union
<1>2. /\ Cardinality(A) \in Nat /\ Cardinality(B) \in Nat /\ Cardinality(Member) \in Nat
      /\ Cardinality(A \cup B) \in Nat /\ Cardinality(A \cap B) \in Nat
  BY <1>1, MembersAssumption, FS_CardinalityType, FS_Intersection
<1>3. Cardinality(A \cup B) = Cardinality(A) + Cardinality(B) - Cardinality(A \cap B)
  BY <1>1, FS_Union
<1>4. Cardinality(A \cup B) <= Cardinality(Member)
  BY MembersAssumption, FS_Subset
<1>5. 2 * Majority > Cardinality(Member)
  BY <1>2 DEF Majority
<1>6. Majority \in Nat
  BY <1>2 DEF Majority
<1>7. Cardinality(A \cap B) # 0
  BY <1>2, <1>3, <1>4, <1>5, <1>6
<1>8. A \cap B # {}
  BY <1>7, FS_EmptySet
<1> QED BY <1>8

\* A vote more never takes a majority away.
LEMMA VotersGrow ==
  ASSUME votes \subseteq votes', NEW e, NEW c, Cardinality(Voters(e, c)) >= Majority
  PROVE  Cardinality(Voters(e, c)') >= Majority
<1>1. Voters(e, c) \subseteq Voters(e, c)' /\ Voters(e, c)' \subseteq Member
  BY DEF Voters
<1>2. IsFiniteSet(Voters(e, c)')
  BY <1>1, MembersAssumption, FS_Subset
<1>3. Cardinality(Voters(e, c)) <= Cardinality(Voters(e, c)')
  BY <1>1, <1>2, FS_Subset
<1>4. IsFiniteSet(Voters(e, c))
  BY <1>1, <1>2, FS_Subset
<1>5. /\ Cardinality(Voters(e, c)) \in Nat /\ Cardinality(Voters(e, c)') \in Nat
      /\ Cardinality(Member) \in Nat
  BY <1>2, <1>4, MembersAssumption, FS_CardinalityType
<1>6. Majority \in Nat
  BY <1>5 DEF Majority
<1> QED BY <1>3, <1>5, <1>6

\* A ballot replaced by one of a later epoch still binds the voter.
LEMMA BindsUp ==
  ASSUME NEW w, w[1] \in Nat, NEW b \in Ballot, NEW c \in Ballot, Binds(b, w),
         b.epoch < c.epoch \/ b = c
  PROVE  Binds(c, w)
BY DEF Binds, Ballot

\* A candidate whose tally is a majority has a majority of votes in its round.
LEMMA TallyBacked ==
  ASSUME TypeOK, ElectionInv, NEW c \in Member, pc[c] = "asking", Tally(c) >= Majority
  PROVE  Cardinality(Voters(round[c], c)) >= Majority
<1>1. Granters(c) \subseteq Voters(round[c], c) /\ c \notin Granters(c) /\ c \in Voters(round[c], c)
  BY DEF Granters, Got, Voters, ElectionInv, Messages, Backed
<1>2. IsFiniteSet(Granters(c)) /\ IsFiniteSet(Voters(round[c], c))
  BY MembersAssumption, FS_Subset DEF Granters, Voters
<1>3. Cardinality(Granters(c) \cup {c}) = Cardinality(Granters(c)) + 1
  BY <1>1, <1>2, FS_AddElement
<1>4. Cardinality(Granters(c) \cup {c}) <= Cardinality(Voters(round[c], c))
  BY <1>1, <1>2, FS_Subset
<1>5. /\ Cardinality(Granters(c)) \in Nat /\ Cardinality(Voters(round[c], c)) \in Nat
      /\ Cardinality(Member) \in Nat
  BY <1>2, MembersAssumption, FS_CardinalityType
<1>6. Majority \in Nat
  BY <1>5 DEF Majority
<1> QED BY <1>3, <1>4, <1>5, <1>6 DEF Tally

\* Steps that leave the election alone.
LEMMA ElectionFrame == ElectionInv /\ UNCHANGED evars /\ Places' => ElectionInv'
<1> SUFFICES ASSUME ElectionInv, UNCHANGED evars, Places' PROVE ElectionInv'
  OBVIOUS
<1>1. Messages' /\ SelfBallots'
  BY DEF ElectionInv, Messages, SelfBallots, SelfBallot, evars
<1>2. VotesRemembered' /\ VotesUnique'
  BY DEF ElectionInv, VotesRemembered, Binds, VotesUnique, evars
<1>3. Backed'
  BY DEF ElectionInv, Backed, Voters, evars
<1> QED BY <1>1, <1>2, <1>3 DEF ElectionInv

\* A session's frames come and go while its follower neither stands nor leads.
LEMMA SessionPlaces ==
  ASSUME TypeOK, Places, UNCHANGED <<role, pc, answering>>, NEW f \in Member,
         role[f] = "replica", pc[f] = "idle",
         \A g \in Member \ {f} : conn'[g] = conn[g]
  PROVE  Places'
BY DEF Places

\* The boot state satisfies the election's invariant.
LEMMA ElectionInit == Init => ElectionInv
BY DEF Init, ElectionInv, Places, Messages, SelfBallots, VotesRemembered, Binds, VotesUnique, Backed

\* Every handler and step keeps the election's invariant.
LEMMA ElectionStep == TypeOK /\ ElectionInv /\ [Next]_vars => ElectionInv'
<1> SUFFICES ASSUME TypeOK, ElectionInv, [Next]_vars PROVE ElectionInv'
  OBVIOUS
<1> USE DEF disk, standing, election, sessions, writes, bounds, history
<1>0. /\ Places /\ Messages /\ SelfBallots /\ VotesRemembered /\ VotesUnique /\ Backed
      /\ DiskTypes /\ StandingTypes /\ ElectionTypes /\ SessionTypes /\ HistoryTypes
  BY DEF ElectionInv, TypeOK
<1> USE <1>0
<1>1. ASSUME NEW m \in Member, Admit(m) PROVE ElectionInv'
  BY <1>1, ElectionFrame DEF Admit, Places, evars
<1>2. ASSUME NEW m \in Member, Commit(m) PROVE ElectionInv'
  BY <1>2, ElectionFrame DEF Commit, Places, evars
<1>3. ASSUME BarrierEnter PROVE ElectionInv'
  BY <1>3, ElectionFrame DEF BarrierEnter, Places, evars
<1>4. ASSUME BarrierPass PROVE ElectionInv'
  BY <1>4, ElectionFrame DEF BarrierPass, Places, evars
<1>5. ASSUME BarrierGiveUp PROVE ElectionInv'
  BY <1>5, ElectionFrame DEF BarrierGiveUp, Places, evars
<1>6. ASSUME NEW f \in Member, NEW t \in Member, EndStream(t, f) PROVE ElectionInv'
  BY <1>6, ElectionFrame DEF EndStream, Places, evars
<1>7. ASSUME NEW f \in Member, Refuse(f) PROVE ElectionInv'
  <2>1. conn[f] # NoConn
    BY <1>7 DEF Refuse, NoConn, NoMsg
  <2>2. role[f] = "replica" /\ pc[f] = "idle"
    BY <2>1 DEF Places
  <2>3. UNCHANGED evars
    BY <1>7 DEF Refuse, evars
  <2>4. \A g \in Member \ {f} : conn'[g] = conn[g]
    BY <1>7 DEF Refuse, Close, SessionTypes
  <2> QED BY <2>2, <2>3, <2>4, SessionPlaces, ElectionFrame DEF evars
<1>8. ASSUME NEW f \in Member, Accept(f) PROVE ElectionInv'
  <2>1. conn[f] # NoConn
    BY <1>8 DEF Accept, NoConn, NoMsg
  <2>2. role[f] = "replica" /\ pc[f] = "idle"
    BY <2>1 DEF Places
  <2>3. UNCHANGED evars
    BY <1>8 DEF Accept, evars
  <2>4. \A g \in Member \ {f} : conn'[g] = conn[g]
    BY <1>8 DEF Accept, SessionTypes
  <2> QED BY <2>2, <2>3, <2>4, SessionPlaces, ElectionFrame DEF evars
<1>9. ASSUME NEW f \in Member, SendBatch(f) PROVE ElectionInv'
  <2>1. conn[f] # NoConn
    BY <1>9 DEF SendBatch, NoConn, NoMsg
  <2>2. role[f] = "replica" /\ pc[f] = "idle"
    BY <2>1 DEF Places
  <2>3. UNCHANGED evars
    BY <1>9 DEF SendBatch, evars
  <2>4. \A g \in Member \ {f} : conn'[g] = conn[g]
    BY <1>9 DEF SendBatch, SessionTypes
  <2> QED BY <2>2, <2>3, <2>4, SessionPlaces, ElectionFrame DEF evars
<1>10. ASSUME NEW f \in Member, SendHeartbeat(f) PROVE ElectionInv'
  <2>1. conn[f] # NoConn
    BY <1>10 DEF SendHeartbeat, NoConn, NoMsg
  <2>2. role[f] = "replica" /\ pc[f] = "idle"
    BY <2>1 DEF Places
  <2>3. UNCHANGED evars
    BY <1>10 DEF SendHeartbeat, evars
  <2>4. \A g \in Member \ {f} : conn'[g] = conn[g]
    BY <1>10 DEF SendHeartbeat, SessionTypes
  <2> QED BY <2>2, <2>3, <2>4, SessionPlaces, ElectionFrame DEF evars
<1>11. ASSUME NEW f \in Member, ReceiveEpoch(f) PROVE ElectionInv'
  <2>1. conn[f] # NoConn
    BY <1>11 DEF ReceiveEpoch, NoConn, NoMsg
  <2>2. role[f] = "replica" /\ pc[f] = "idle"
    BY <2>1 DEF Places
  <2>3. UNCHANGED evars
    BY <1>11 DEF ReceiveEpoch, evars
  <2>4. \A g \in Member \ {f} : conn'[g] = conn[g]
    BY <1>11 DEF ReceiveEpoch, Received, SessionTypes
  <2> QED BY <2>2, <2>3, <2>4, SessionPlaces, ElectionFrame DEF evars
<1>12. ASSUME NEW f \in Member, ReceiveBatch(f) PROVE ElectionInv'
  <2>1. conn[f] # NoConn
    BY <1>12 DEF ReceiveBatch, NoConn, NoMsg
  <2>2. role[f] = "replica" /\ pc[f] = "idle"
    BY <2>1 DEF Places
  <2>3. UNCHANGED evars
    BY <1>12 DEF ReceiveBatch, evars
  <2>4. \A g \in Member \ {f} : conn'[g] = conn[g]
    BY <1>12 DEF ReceiveBatch, Received, Leave, Close, SessionTypes
  <2> QED BY <2>2, <2>3, <2>4, SessionPlaces, ElectionFrame DEF evars
<1>13. ASSUME NEW f \in Member, SendAck(f) PROVE ElectionInv'
  <2>1. conn[f] # NoConn
    BY <1>13 DEF SendAck, NoConn, NoMsg
  <2>2. role[f] = "replica" /\ pc[f] = "idle"
    BY <2>1 DEF Places
  <2>3. UNCHANGED evars
    BY <1>13 DEF SendAck, evars
  <2>4. \A g \in Member \ {f} : conn'[g] = conn[g]
    BY <1>13 DEF SendAck, SessionTypes
  <2> QED BY <2>2, <2>3, <2>4, SessionPlaces, ElectionFrame DEF evars
<1>14. ASSUME NEW f \in Member, ReceiveAck(f) PROVE ElectionInv'
  <2>1. conn[f] # NoConn
    BY <1>14 DEF ReceiveAck, NoConn, NoMsg
  <2>2. role[f] = "replica" /\ pc[f] = "idle"
    BY <2>1 DEF Places
  <2>3. UNCHANGED evars
    BY <1>14 DEF ReceiveAck, evars
  <2>4. \A g \in Member \ {f} : conn'[g] = conn[g]
    BY <1>14 DEF ReceiveAck, SessionTypes
  <2> QED BY <2>2, <2>3, <2>4, SessionPlaces, ElectionFrame DEF evars
<1>15. ASSUME NEW f \in Member, Disconnect(f) PROVE ElectionInv'
  <2>1. conn[f] # NoConn
    BY <1>15 DEF Disconnect, NoConn, NoMsg
  <2>2. role[f] = "replica" /\ pc[f] = "idle"
    BY <2>1 DEF Places
  <2>3. UNCHANGED evars
    BY <1>15 DEF Disconnect, evars
  <2>4. \A g \in Member \ {f} : conn'[g] = conn[g]
    BY <1>15 DEF Disconnect, Leave, Close, SessionTypes
  <2> QED BY <2>2, <2>3, <2>4, SessionPlaces, ElectionFrame DEF evars
<1>16. ASSUME NEW f \in Member, NEW t \in Member, Dial(f, t) PROVE ElectionInv'
  <2>1. role[f] = "replica" /\ pc[f] = "idle" /\ UNCHANGED evars
    BY <1>16 DEF Dial, evars
  <2>2. \A g \in Member \ {f} : conn'[g] = conn[g]
    BY <1>16 DEF Dial, SessionTypes
  <2> QED BY <2>1, <2>2, SessionPlaces, ElectionFrame DEF evars
<1>17. ASSUME NEW m \in Member, Propose(m) PROVE ElectionInv'
  <2>1. Places'
    BY <1>17 DEF Propose, Leave, Close, Places, SessionTypes, ElectionTypes
  <2>2. Messages' /\ SelfBallots'
    BY <1>17 DEF Propose, Messages, SelfBallots, SelfBallot, ElectionTypes, Resp
  <2>3. VotesRemembered' /\ VotesUnique'
    BY <1>17 DEF Propose, VotesRemembered, Binds, VotesUnique
  <2>4. Backed'
    BY <1>17 DEF Propose, Backed, Voters, ElectionTypes
  <2> QED BY <2>1, <2>2, <2>3, <2>4 DEF ElectionInv
<1>18. ASSUME NEW m \in Member, PersistSelfBallot(m) PROVE ElectionInv'
  <2>1. Places'
    BY <1>18 DEF PersistSelfBallot, Places, ElectionTypes
  <2>2. Messages'
    BY <1>18 DEF PersistSelfBallot, Messages, ElectionTypes, Resp
  <2>3. clobbered \subseteq clobbered'
    BY <1>18 DEF PersistSelfBallot, Clobber
  <2>4. SelfBallots'
    BY <1>18, <2>3 DEF PersistSelfBallot, SelfBallots, SelfBallot, ElectionTypes, DiskTypes
  <2>5. m \in clobbered' \/ vote[m].epoch < round[m] \/ vote[m] = SelfBallot(m)
    BY <1>18 DEF PersistSelfBallot, Clobber, SelfBallot, DiskTypes, ElectionTypes, Ballot
  <2>6. VotesRemembered'
    <3> SUFFICES ASSUME NEW w \in votes, w[2] \notin clobbered'
                 PROVE  Binds(vote'[w[2]], w) /\ (role[w[2]] # "down" => Binds(ballot[w[2]], w))
      BY <1>18 DEF PersistSelfBallot, VotesRemembered, Binds
    <3>1. w[1] \in Nat /\ w[2] \in Member /\ w[2] \notin clobbered
      BY <2>3 DEF HistoryTypes
    <3>2. Binds(vote[w[2]], w) /\ (role[w[2]] # "down" => Binds(ballot[w[2]], w))
      BY <3>1 DEF VotesRemembered
    <3>3. vote'[m] = SelfBallot(m) /\ \A v \in Member \ {m} : vote'[v] = vote[v]
      BY <1>18 DEF PersistSelfBallot, DiskTypes
    <3>4. SelfBallot(m) \in Ballot /\ vote[m] \in Ballot /\ SelfBallot(m).epoch = round[m]
      BY DEF SelfBallot, Ballot, ElectionTypes, DiskTypes
    <3>5. CASE w[2] = m
      BY <3>1, <3>2, <3>3, <3>4, <3>5, <2>5, BindsUp
    <3> QED BY <3>1, <3>2, <3>3, <3>5
  <2>7. VotesUnique'
    BY <1>18, <2>3 DEF PersistSelfBallot, VotesUnique
  <2>8. Backed'
    BY <1>18 DEF PersistSelfBallot, Backed, Voters, ElectionTypes
  <2> QED BY <2>1, <2>2, <2>4, <2>6, <2>7, <2>8 DEF ElectionInv
<1>19. ASSUME NEW m \in Member, RequestVotes(m) PROVE ElectionInv'
  <2>1. Places'
    BY <1>19 DEF RequestVotes, Places, ElectionTypes
  <2>2. votes' = votes \cup {<<round[m], m, m>>} /\ votes \subseteq votes'
    BY <1>19 DEF RequestVotes
  <2>3. Messages'
    <3>1. \A r \in reqs' : r.from # r.to
      BY <1>19 DEF RequestVotes, Messages
    <3>2. \A r \in resps' : pc'[r.to] = "asking" /\ r.from # r.to
      BY <1>19 DEF RequestVotes, Messages, ElectionTypes, Resp
    <3>3. \A r \in resps' : r.granted => <<round'[r.to], r.from, r.to>> \in votes'
      BY <1>19, <2>2 DEF RequestVotes, Messages
    <3> QED BY <3>1, <3>2, <3>3 DEF Messages
  <2>4. clobbered \subseteq clobbered'
    BY <1>19 DEF RequestVotes, Clobber
  <2>5. SelfBallots'
    BY <1>19, <2>4 DEF RequestVotes, SelfBallots, SelfBallot, ElectionTypes
  <2>6. m \in clobbered' \/ ballot[m].epoch < round[m] \/ ballot[m] = SelfBallot(m)
    BY <1>19 DEF RequestVotes, Clobber, SelfBallot, ElectionTypes, Ballot
  <2>7. role[m] # "down"
    BY <1>19 DEF RequestVotes, Places
  <2>8. m \in clobbered' \/ vote[m].epoch > round[m] \/ vote[m] = SelfBallot(m)
    BY <1>19, <2>4 DEF RequestVotes, SelfBallots
  <2>9. ballot' = [ballot EXCEPT ![m] = SelfBallot(m)] /\ vote' = vote /\ role' = role
    BY <1>19 DEF RequestVotes
  <2>10. VotesRemembered'
    <3> SUFFICES ASSUME NEW w \in votes', w[2] \notin clobbered'
                 PROVE  Binds(vote[w[2]], w) /\ (role[w[2]] # "down" => Binds(ballot'[w[2]], w))
      BY <2>9 DEF VotesRemembered, Binds
    <3>1. ballot'[m] = SelfBallot(m) /\ \A v \in Member \ {m} : ballot'[v] = ballot[v]
      BY <2>9 DEF ElectionTypes
    <3>2. SelfBallot(m) \in Ballot /\ ballot[m] \in Ballot /\ vote[m] \in Ballot
          /\ SelfBallot(m).epoch = round[m] /\ SelfBallot(m).voted_for = m
      BY DEF SelfBallot, Ballot, ElectionTypes, DiskTypes
    <3>3. CASE w = <<round[m], m, m>>
      BY <3>1, <3>2, <3>3, <2>8 DEF Binds
    <3>4. CASE w \in votes
      <4>1. w[1] \in Nat /\ w[2] \in Member /\ w[2] \notin clobbered
        BY <3>4, <2>4 DEF HistoryTypes
      <4>2. Binds(vote[w[2]], w) /\ (role[w[2]] # "down" => Binds(ballot[w[2]], w))
        BY <3>4, <4>1 DEF VotesRemembered
      <4>3. CASE w[2] = m
        BY <3>1, <3>2, <4>1, <4>2, <4>3, <2>6, <2>7, BindsUp
      <4> QED BY <3>1, <4>1, <4>2, <4>3
    <3> QED BY <3>3, <3>4, <2>2
  <2>11. VotesUnique'
    BY <2>2, <2>4, <2>6, <2>7 DEF VotesRemembered, Binds, VotesUnique, SelfBallot, ElectionTypes,
       HistoryTypes, Ballot
  <2>12. Backed'
    <3>1. \A c \in Member : pc'[c] = "asking" => <<round'[c], c, c>> \in votes'
      BY <1>19, <2>2 DEF RequestVotes, Backed, ElectionTypes
    <3>2. \A c \in Member : pc'[c] = "promoting" => Cardinality(Voters(round[c], c)') >= Majority
      BY <1>19, <2>2, VotersGrow DEF RequestVotes, Backed, ElectionTypes
    <3>3. \A x \in won : Cardinality(Voters(x[1], x[2])') >= Majority
      BY <2>2, VotersGrow DEF Backed
    <3> QED BY <1>19, <3>1, <3>2, <3>3 DEF RequestVotes, Backed, Voters
  <2> QED BY <2>1, <2>3, <2>5, <2>10, <2>11, <2>12 DEF ElectionInv
<1>20. ASSUME NEW m \in Member, NEW r \in reqs, AnswerRead(m, r) PROVE ElectionInv'
  <2>1. Places'
    BY <1>20 DEF AnswerRead, Places, Messages, ElectionTypes
  <2>2. Messages' /\ SelfBallots'
    BY <1>20 DEF AnswerRead, Messages, SelfBallots, SelfBallot
  <2>3. VotesRemembered' /\ VotesUnique' /\ Backed'
    BY <1>20 DEF AnswerRead, VotesRemembered, Binds, VotesUnique, Backed, Voters
  <2> QED BY <2>1, <2>2, <2>3 DEF ElectionInv
<1>21. ASSUME NEW m \in Member, Grant(m) PROVE ElectionInv'
  <2> DEFINE a == answering[m]
             b == [epoch |-> a.req.epoch, voted_for |-> a.req.from]
  <2>1. a \in Answer
    BY <1>21, AnswerTypes DEF Grant, ElectionTypes
  <2>2. a.req.from \in Member /\ a.req.epoch \in Nat /\ a.req.to = m /\ a.req.from # m
    BY <1>21, <2>1 DEF Grant, Answer, Req, Places
  <2>3. role[m] # "down"
    BY <1>21 DEF Grant, Places
  <2>4. Places'
    BY <1>21 DEF Grant, Places, ElectionTypes
  <2>5. /\ votes' = votes \cup {<<a.req.epoch, m, a.req.from>>} /\ votes \subseteq votes'
        /\ ballot' = [ballot EXCEPT ![m] = b] /\ vote' = [vote EXCEPT ![m] = b]
        /\ UNCHANGED <<role, pc, round, reqs, won>>
    BY <1>21 DEF Grant
  <2>6. clobbered \subseteq clobbered' /\ (m \in clobbered' \/ vote[m].epoch < b.epoch \/ vote[m] = b)
    BY <1>21, <2>2 DEF Grant, Clobber, DiskTypes, Ballot
  <2>7. ballot[m].epoch < b.epoch \/ (ballot[m].epoch = b.epoch /\ ballot[m].voted_for = b.voted_for)
    BY <1>21 DEF Grant, DecideVote
  <2>8. \A r \in resps' : r \in resps \/
          /\ pc[a.req.from] = "asking" /\ round[a.req.from] = a.req.epoch
          /\ r.from = m /\ r.to = a.req.from
    BY <1>21, <2>2 DEF Grant, Respond
  <2>9. Messages'
    <3>1. ASSUME NEW r \in resps'
          PROVE  /\ pc[r.to] = "asking" /\ r.from # r.to
                 /\ r.granted => <<round[r.to], r.from, r.to>> \in votes'
      <4>1. CASE r \in resps
        BY <4>1, <2>5 DEF Messages
      <4>2. CASE r \notin resps
        BY <4>2, <2>2, <2>5, <2>8
      <4> QED BY <4>1, <4>2
    <3> QED BY <3>1, <2>5 DEF Messages
  <2>10. SelfBallots'
    BY <2>2, <2>5, <2>6 DEF SelfBallots, SelfBallot, DiskTypes, ElectionTypes, Ballot
  <2>11. VotesRemembered'
    <3> SUFFICES ASSUME NEW w \in votes', w[2] \notin clobbered'
                 PROVE  Binds(vote'[w[2]], w) /\ (role[w[2]] # "down" => Binds(ballot'[w[2]], w))
      BY <2>5 DEF VotesRemembered, Binds
    <3>1. /\ ballot'[m] = b /\ \A v \in Member \ {m} : ballot'[v] = ballot[v]
          /\ vote'[m] = b /\ \A v \in Member \ {m} : vote'[v] = vote[v]
      BY <2>5 DEF ElectionTypes, DiskTypes
    <3>2. b \in Ballot /\ ballot[m] \in Ballot /\ vote[m] \in Ballot
      BY <2>2 DEF Ballot, ElectionTypes, DiskTypes
    <3>3. CASE w = <<a.req.epoch, m, a.req.from>>
      BY <3>1, <3>3 DEF Binds
    <3>4. CASE w \in votes
      <4>1. w[1] \in Nat /\ w[2] \in Member /\ w[2] \notin clobbered
        BY <3>4, <2>6 DEF HistoryTypes
      <4>2. Binds(vote[w[2]], w) /\ (role[w[2]] # "down" => Binds(ballot[w[2]], w))
        BY <3>4, <4>1 DEF VotesRemembered
      <4>3. ballot[m].epoch < b.epoch \/ ballot[m] = b
        BY <2>7, <3>2 DEF Ballot
      <4>4. CASE w[2] = m
        BY <3>1, <3>2, <4>1, <4>2, <4>3, <4>4, <2>3, <2>6, BindsUp
      <4> QED BY <3>1, <4>1, <4>2, <4>4
    <3> QED BY <3>3, <3>4, <2>5
  <2>12. VotesUnique'
    BY <2>2, <2>3, <2>5, <2>6, <2>7 DEF VotesRemembered, Binds, VotesUnique, ElectionTypes, HistoryTypes, Ballot
  <2>13. Backed'
    <3>1. \A c \in Member : pc'[c] = "asking" => <<round'[c], c, c>> \in votes'
      BY <2>5 DEF Backed
    <3>2. \A c \in Member : pc'[c] = "promoting" => Cardinality(Voters(round[c], c)') >= Majority
      BY <2>5, VotersGrow DEF Backed
    <3>3. \A x \in won : Cardinality(Voters(x[1], x[2])') >= Majority
      BY <2>5, VotersGrow DEF Backed
    <3> QED BY <2>5, <3>1, <3>2, <3>3 DEF Backed, Voters
  <2> QED BY <2>4, <2>9, <2>10, <2>11, <2>12, <2>13 DEF ElectionInv
<1>22. ASSUME NEW m \in Member, Deny(m) PROVE ElectionInv'
  <2>1. Places'
    BY <1>22 DEF Deny, Places, ElectionTypes
  <2>2. answering[m].req.from # m /\ answering[m].req.to = m
    BY <1>22 DEF Deny, Places
  <2>3. \A r \in resps' : r \in resps \/
          /\ pc[answering[m].req.from] = "asking"
          /\ r.from = m /\ r.to = answering[m].req.from /\ ~r.granted
    BY <1>22, <2>2 DEF Deny, Respond
  <2>4. Messages' /\ SelfBallots'
    BY <1>22, <2>2, <2>3 DEF Deny, Messages, SelfBallots, SelfBallot
  <2>5. VotesRemembered' /\ VotesUnique' /\ Backed'
    BY <1>22 DEF Deny, VotesRemembered, Binds, VotesUnique, Backed, Voters
  <2> QED BY <2>1, <2>4, <2>5 DEF ElectionInv
<1>23. ASSUME NEW m \in Member, StandDown(m) PROVE ElectionInv'
  <2>1. Places'
    BY <1>23 DEF StandDown, Places, ElectionTypes
  <2>2. Messages' /\ SelfBallots'
    BY <1>23 DEF StandDown, EndRound, Got, Messages, SelfBallots, SelfBallot, ElectionTypes, Resp
  <2>3. VotesRemembered' /\ VotesUnique'
    BY <1>23 DEF StandDown, VotesRemembered, Binds, VotesUnique
  <2>4. Backed'
    BY <1>23 DEF StandDown, Backed, Voters, ElectionTypes
  <2> QED BY <2>1, <2>2, <2>3, <2>4 DEF ElectionInv
<1>24. ASSUME NEW m \in Member, LoseRound(m) PROVE ElectionInv'
  <2>1. Places'
    BY <1>24 DEF LoseRound, Places, ElectionTypes
  <2>2. Messages' /\ SelfBallots'
    BY <1>24 DEF LoseRound, EndRound, Got, Messages, SelfBallots, SelfBallot, ElectionTypes, Resp
  <2>3. VotesRemembered' /\ VotesUnique'
    BY <1>24 DEF LoseRound, VotesRemembered, Binds, VotesUnique
  <2>4. Backed'
    BY <1>24 DEF LoseRound, Backed, Voters, ElectionTypes
  <2> QED BY <2>1, <2>2, <2>3, <2>4 DEF ElectionInv
<1>25. ASSUME NEW m \in Member, WinRound(m) PROVE ElectionInv'
  <2>1. Places'
    BY <1>25 DEF WinRound, Places, ElectionTypes
  <2>2. Messages' /\ SelfBallots'
    BY <1>25 DEF WinRound, EndRound, Got, Messages, SelfBallots, SelfBallot, ElectionTypes, Resp
  <2>3. VotesRemembered' /\ VotesUnique'
    BY <1>25 DEF WinRound, VotesRemembered, Binds, VotesUnique
  <2>4. Cardinality(Voters(round[m], m)) >= Majority
    BY <1>25, TallyBacked DEF WinRound
  <2>5. Backed'
    BY <1>25, <2>4 DEF WinRound, Backed, Voters, ElectionTypes
  <2> QED BY <2>1, <2>2, <2>3, <2>5 DEF ElectionInv
<1>26. ASSUME NEW m \in Member, Promote(m) PROVE ElectionInv'
  <2>1. Places'
    BY <1>26 DEF Promote, Places, StandingTypes, ElectionTypes
  <2>2. Messages' /\ SelfBallots'
    BY <1>26 DEF Promote, Messages, SelfBallots, SelfBallot, ElectionTypes, Resp
  <2>3. VotesRemembered' /\ VotesUnique'
    BY <1>26 DEF Promote, VotesRemembered, Binds, VotesUnique, Places, StandingTypes, HistoryTypes
  <2>4. Backed'
    BY <1>26 DEF Promote, Backed, Voters, ElectionTypes
  <2> QED BY <2>1, <2>2, <2>3, <2>4 DEF ElectionInv
<1>27. ASSUME NEW m \in Member, Demote(m) PROVE ElectionInv'
  <2>1. Places'
    BY <1>27 DEF Demote, Places, StandingTypes
  <2>2. Messages' /\ SelfBallots'
    BY <1>27 DEF Demote, Messages, SelfBallots, SelfBallot
  <2>3. VotesRemembered' /\ VotesUnique'
    BY <1>27 DEF Demote, VotesRemembered, Binds, VotesUnique, StandingTypes, HistoryTypes
  <2>4. Backed'
    BY <1>27 DEF Demote, Backed, Voters
  <2> QED BY <2>1, <2>2, <2>3, <2>4 DEF ElectionInv
<1>28. ASSUME NEW m \in Member, Crash(m) PROVE ElectionInv'
  <2>1. /\ role' = [role EXCEPT ![m] = "down"] /\ pc' = [pc EXCEPT ![m] = "idle"]
        /\ round' = [round EXCEPT ![m] = 0]
        /\ answering' = [answering EXCEPT ![m] = NoAnswer]
        /\ resps' = {r \in resps : r.to # m}
        /\ UNCHANGED <<vote, ballot, reqs, votes, won, clobbered>>
    BY <1>28 DEF Crash
  <2>2. conn'[m] = NoConn /\ \A f \in Member : conn[f] = NoConn => conn'[f] = NoConn
    <3>1. conn' = [f \in Member |->
            IF f = m THEN NoConn
            ELSE IF conn[f].to = m THEN [conn[f] EXCEPT !.st = "closed", !.up = NoMsg]
            ELSE conn[f]]
      BY <1>28 DEF Crash
    <3>2. NoConn.to # m
      BY MembersAssumption DEF NoConn
    <3>3. ASSUME NEW f \in Member, conn[f] = NoConn PROVE conn'[f] = NoConn
      BY <3>1, <3>2, <3>3, Zenon
    <3> QED BY <3>1, <3>3, Zenon
  <2>3. Places'
    BY <2>1, <2>2 DEF Places, StandingTypes, ElectionTypes
  <2>4. Messages' /\ SelfBallots'
    BY <2>1 DEF Messages, SelfBallots, SelfBallot, ElectionTypes, Resp
  <2>5. VotesRemembered' /\ VotesUnique'
    BY <2>1 DEF VotesRemembered, Binds, VotesUnique, StandingTypes, HistoryTypes
  <2>6. Backed'
    BY <2>1 DEF Backed, Voters, ElectionTypes
  <2> QED BY <2>3, <2>4, <2>5, <2>6 DEF ElectionInv
<1>29. ASSUME NEW m \in Member, Restart(m) PROVE ElectionInv'
  <2>1. Places'
    BY <1>29 DEF Restart, ConfigRole, Places, StandingTypes
  <2>2. Messages' /\ SelfBallots'
    BY <1>29 DEF Restart, Messages, SelfBallots, SelfBallot
  <2>3. VotesRemembered' /\ VotesUnique'
    BY <1>29 DEF Restart, VotesRemembered, Binds, VotesUnique, StandingTypes, ElectionTypes, HistoryTypes
  <2>4. Backed'
    BY <1>29 DEF Restart, Backed, Voters
  <2> QED BY <2>1, <2>2, <2>3, <2>4 DEF ElectionInv
<1>30. CASE UNCHANGED vars
  BY <1>30, ElectionFrame DEF vars, evars, Places
<1> QED BY <1>1, <1>2, <1>3, <1>4, <1>5, <1>6, <1>7, <1>8, <1>9, <1>10, <1>11, <1>12, <1>13, <1>14, <1>15, <1>16, <1>17, <1>18, <1>19, <1>20, <1>21, <1>22, <1>23, <1>24, <1>25, <1>26, <1>27, <1>28, <1>29, <1>30
        DEF Next, Writing, Streaming, Electing, Failing

\* In every reachable state the votes, the ballots and the winners agree.
LEMMA ElectionAlways == Spec => [](TypeOK /\ ElectionInv)
<1>1. Init => TypeOK /\ ElectionInv
  BY TypeInit, ElectionInit
<1>2. (TypeOK /\ ElectionInv) /\ [Next]_vars => (TypeOK /\ ElectionInv)'
  BY TypeStep, ElectionStep
<1> QED BY <1>1, <1>2, PTL DEF Spec

\* Type correctness of every member, message and session: in particular the
\* call at the visibility barrier always names an entry of the primary's log.
THEOREM ReplicaTypes == Spec => []TypeOK
BY ElectionAlways, PTL

\* No two members win one epoch (run_candidacy, decide_vote, persist_ballot),
\* for any number of members, crashes and lost messages, while no ballot was
\* written over a newer one.
THEOREM OneWinner == Spec => []OneWinnerPerEpoch
<1>1. TypeOK /\ ElectionInv => OneWinnerPerEpoch
  <2> SUFFICES ASSUME TypeOK, ElectionInv, clobbered = {},
                      NEW w \in won, NEW x \in won, w[1] = x[1]
               PROVE  w[2] = x[2]
    BY DEF OneWinnerPerEpoch
  <2>1. Voters(w[1], w[2]) \in SUBSET Member /\ Voters(x[1], x[2]) \in SUBSET Member
    BY DEF Voters
  <2>2. PICK v \in Member : v \in Voters(w[1], w[2]) /\ v \in Voters(x[1], x[2])
    BY <2>1, MajoritiesMeet DEF ElectionInv, Backed
  <2>3. <<w[1], v, w[2]>> \in votes /\ <<w[1], v, x[2]>> \in votes
    BY <2>2 DEF Voters
  <2> QED BY <2>3 DEF ElectionInv, VotesUnique
<1> QED BY <1>1, ElectionAlways, PTL

\* A vote that was given binds the voter for good, on disk and in memory, over
\* every crash and restart (persist_ballot, load_ballot).
THEOREM VotesStayRemembered == Spec => []VotesRemembered
<1>1. TypeOK /\ ElectionInv => VotesRemembered
  BY DEF ElectionInv
<1> QED BY <1>1, ElectionAlways, PTL

-----------------------------------------------------------------------------
(* The epochs of the marker and the log. *)

\* A step that does not touch member n's marker, log and part: its service
\* epoch may rise (fence).
Untouched(n) ==
  /\ log'[n] = log[n] /\ epoch'[n] = epoch[n] /\ role'[n] = role[n]
  /\ logEpoch'[n] = logEpoch[n] /\ svcEpoch'[n] >= svcEpoch[n]
  /\ pc'[n] = pc[n] /\ round'[n] = round[n]
  /\ n \in admitted' => n \in admitted \/ role[n] # "down"

\* Such a step keeps that member's epochs in order.
LEMMA EpochsKept ==
  ASSUME TypeOK, TypeOK', Epochs, NEW n \in Member, Untouched(n)
  PROVE  EntryEpochs(n)' /\ PartEpochs(n)'
<1>1. EntryEpochs(n)'
  BY DEF Untouched, Epochs, EntryEpochs
<1>2. svcEpoch[n] \in Nat /\ svcEpoch'[n] \in Nat /\ logEpoch[n] \in Nat
  BY DEF TypeOK, StandingTypes
<1>3. PartEpochs(n)'
  BY <1>2 DEF Untouched, Epochs, PartEpochs
<1> QED BY <1>1, <1>3

\* One member takes a step.
LEMMA EpochsOne ==
  ASSUME TypeOK, TypeOK', Epochs, NEW m \in Member, EntryEpochs(m)', PartEpochs(m)',
         \A n \in Member \ {m} : Untouched(n)
  PROVE  Epochs'
<1>1. ASSUME NEW n \in Member PROVE EntryEpochs(n)' /\ PartEpochs(n)'
  BY EpochsKept
<1> QED BY <1>1 DEF Epochs

\* Nobody's epochs are touched.
LEMMA EpochsNone ==
  ASSUME TypeOK, TypeOK', Epochs, UNCHANGED <<epoch, log, standing, pc, round, admitted>>
  PROVE  Epochs'
<1>1. ASSUME NEW n \in Member PROVE Untouched(n)
  BY DEF Untouched, TypeOK, StandingTypes, standing
<1>2. ASSUME NEW n \in Member PROVE EntryEpochs(n)' /\ PartEpochs(n)'
  BY <1>1, EpochsKept
<1> QED BY <1>2 DEF Epochs

\* A fence only raises a service epoch.
LEMMA FenceUntouched ==
  ASSUME TypeOK, TypeOK', NEW t \in Member, NEW e \in Nat,
         Fence(t, e) \/ UNCHANGED <<svcEpoch, fenced>>,
         UNCHANGED <<epoch, log, role, logEpoch, pc, round, admitted>>
  PROVE  \A n \in Member : Untouched(n)
<1>1. ASSUME NEW n \in Member PROVE svcEpoch'[n] >= svcEpoch[n]
  <2>1. \A k \in Member : svcEpoch[k] \in Nat
    BY DEF TypeOK, StandingTypes
  <2>2. CASE Fence(t, e)
    <3>1. svcEpoch' = [svcEpoch EXCEPT ![t] = Max2(@, e)] /\ svcEpoch \in [Member -> Nat]
      BY <2>2 DEF Fence, TypeOK, StandingTypes
    <3>2. Max2(svcEpoch[t], e) >= svcEpoch[t]
      BY <2>1, Max2Nat
    <3> QED BY <2>1, <3>1, <3>2
  <2>3. CASE UNCHANGED <<svcEpoch, fenced>>
    BY <2>1, <2>3
  <2> QED BY <2>2, <2>3
<1> QED BY <1>1 DEF Untouched

\* The epoch of an entry is a number.
LEMMA EntryNat == \A s \in Seq(Entry) : \A i \in 1..Len(s) : s[i].epoch \in Nat
<1> TAKE s \in Seq(Entry)
<1> TAKE i \in 1..Len(s)
<1>1. s[i] \in Entry
  OBVIOUS
<1> QED BY <1>1 DEF Entry

\* One entry appended under the log's epoch keeps the entries in order.
LEMMA EntryAppended ==
  ASSUME TypeOK, TypeOK', NEW m \in Member, EntryEpochs(m), role[m] # "down", NEW x \in Entry,
         log'[m] = Append(log[m], x), x.epoch = logEpoch'[m], logEpoch[m] <= logEpoch'[m],
         logEpoch'[m] <= epoch'[m]
  PROVE  EntryEpochs(m)'
<1>1. log[m] \in Seq(Entry) /\ Len(log[m]) \in Nat /\ logEpoch[m] \in Nat /\ logEpoch'[m] \in Nat
      /\ epoch'[m] \in Nat /\ log'[m] \in Seq(Entry)
  BY DEF TypeOK, DiskTypes, StandingTypes
<1>2. /\ Len(log'[m]) = Len(log[m]) + 1 /\ log'[m][Len(log[m]) + 1] = x
      /\ \A i \in 1..Len(log[m]) : log'[m][i] = log[m][i]
  BY <1>1
<1>3. \A i \in 1..Len(log'[m]) : log'[m][i].epoch \in Nat
  BY <1>1, EntryNat
<1>4. \A i \in 1..Len(log'[m]) : log'[m][i].epoch <= logEpoch'[m]
  <2> TAKE i \in 1..Len(log'[m])
  <2>1. CASE i = Len(log[m]) + 1
    BY <2>1, <1>1, <1>2
  <2>2. CASE i \in 1..Len(log[m])
    BY <2>2, <1>1, <1>2, <1>3 DEF EntryEpochs
  <2> QED BY <2>1, <2>2, <1>1, <1>2
<1>5. \A i \in 1..Len(log'[m]) : \A j \in 1..i : log'[m][j].epoch <= log'[m][i].epoch
  <2> TAKE i \in 1..Len(log'[m])
  <2> TAKE j \in 1..i
  <2>0. j \in 1..Len(log'[m])
    BY <1>1, <1>2
  <2>1. CASE i = Len(log[m]) + 1
    BY <2>0, <2>1, <1>2, <1>4
  <2>2. CASE i \in 1..Len(log[m])
    <3>1. j \in 1..Len(log[m])
      BY <2>2, <1>1
    <3> QED BY <2>2, <3>1, <1>2 DEF EntryEpochs
  <2> QED BY <2>1, <2>2, <1>1, <1>2
<1>6. \A i \in 1..Len(log'[m]) : log'[m][i].epoch <= epoch'[m]
  BY <1>1, <1>3, <1>4
<1> QED BY <1>4, <1>5, <1>6 DEF EntryEpochs

\* The boot state has empty logs under the marker's epoch.
LEMMA EpochsInit == Init => Epochs
BY DEF Init, Epochs, EntryEpochs, PartEpochs

\* Every handler and step keeps the epochs in order.
LEMMA EpochsStep == TypeOK /\ TypeOK' /\ Places /\ Epochs /\ [Next]_vars => Epochs'
<1> SUFFICES ASSUME TypeOK, TypeOK', Places, Epochs, [Next]_vars PROVE Epochs'
  OBVIOUS
<1> USE DEF disk, standing, election, sessions, writes, bounds, history
<1>0. /\ DiskTypes /\ StandingTypes /\ ElectionTypes /\ SessionTypes /\ WriteTypes
      /\ DiskTypes' /\ StandingTypes' /\ ElectionTypes'
  BY DEF TypeOK
<1> USE <1>0
<1>1. ASSUME BarrierEnter PROVE Epochs'
  BY <1>1, EpochsNone DEF BarrierEnter
<1>2. ASSUME BarrierPass PROVE Epochs'
  BY <1>2, EpochsNone DEF BarrierPass
<1>3. ASSUME BarrierGiveUp PROVE Epochs'
  BY <1>3, EpochsNone DEF BarrierGiveUp
<1>4. ASSUME NEW f \in Member, NEW t \in Member, Dial(f, t) PROVE Epochs'
  BY <1>4, EpochsNone DEF Dial
<1>5. ASSUME NEW f \in Member, NEW t \in Member, EndStream(t, f) PROVE Epochs'
  BY <1>5, EpochsNone DEF EndStream
<1>6. ASSUME NEW f \in Member, Accept(f) PROVE Epochs'
  BY <1>6, EpochsNone DEF Accept
<1>7. ASSUME NEW f \in Member, SendBatch(f) PROVE Epochs'
  BY <1>7, EpochsNone DEF SendBatch
<1>8. ASSUME NEW f \in Member, SendHeartbeat(f) PROVE Epochs'
  BY <1>8, EpochsNone DEF SendHeartbeat
<1>9. ASSUME NEW f \in Member, SendAck(f) PROVE Epochs'
  BY <1>9, EpochsNone DEF SendAck
<1>10. ASSUME NEW f \in Member, Disconnect(f) PROVE Epochs'
  BY <1>10, EpochsNone DEF Disconnect
<1>11. ASSUME NEW m \in Member, Grant(m) PROVE Epochs'
  BY <1>11, EpochsNone DEF Grant
<1>12. ASSUME NEW m \in Member, Deny(m) PROVE Epochs'
  BY <1>12, EpochsNone DEF Deny
<1>13. ASSUME NEW m \in Member, NEW r \in reqs, AnswerRead(m, r) PROVE Epochs'
  BY <1>13, EpochsNone DEF AnswerRead
<1>14. ASSUME NEW f \in Member, Refuse(f) PROVE Epochs'
  <2>1. conn[f].to \in Member /\ epoch[f] \in Nat
    BY <1>14, ConnTypes DEF Refuse, SessionTypes, DiskTypes
  <2>2. Fence(conn[f].to, epoch[f]) \/ UNCHANGED <<svcEpoch, fenced>>
    BY <1>14 DEF Refuse
  <2>3. \A n \in Member : Untouched(n)
    BY <1>14, <2>1, <2>2, FenceUntouched DEF Refuse
  <2> QED BY <2>3, EpochsKept DEF Epochs
<1>15. ASSUME NEW f \in Member, ReceiveAck(f) PROVE Epochs'
  <2>1. conn[f].to \in Member /\ conn[f].up.epoch \in Nat
    BY <1>15, ConnTypes, FrameTypes DEF ReceiveAck, SessionTypes
  <2>2. Fence(conn[f].to, conn[f].up.epoch) \/ UNCHANGED <<svcEpoch, fenced>>
    BY <1>15 DEF ReceiveAck
  <2>3. \A n \in Member : Untouched(n)
    BY <1>15, <2>1, <2>2, FenceUntouched DEF ReceiveAck
  <2> QED BY <2>3, EpochsKept DEF Epochs
<1>16. ASSUME NEW m \in Member, Admit(m) PROVE Epochs'
  <2>1. \A n \in Member \ {m} : Untouched(n)
    BY <1>16 DEF Admit, Untouched, DiskTypes, StandingTypes, ElectionTypes
  <2>2. EntryEpochs(m) /\ PartEpochs(m)
    BY DEF Epochs
  <2>8. EntryEpochs(m)'
    BY <1>16, <2>2 DEF Admit, EntryEpochs
  <2>9. PartEpochs(m)'
    BY <1>16, <2>2 DEF Admit, PartEpochs
  <2> QED BY <2>1, <2>8, <2>9, EpochsOne
<1>17. ASSUME NEW m \in Member, Commit(m) PROVE Epochs'
  <2>1. \A n \in Member \ {m} : Untouched(n)
    BY <1>17 DEF Commit, Untouched, DiskTypes, StandingTypes, ElectionTypes
  <2>2. EntryEpochs(m) /\ PartEpochs(m)
    BY DEF Epochs
  <2>3. role[m] # "down" /\ logEpoch[m] <= epoch[m]
    BY <1>17, <2>2 DEF Commit, PartEpochs
  <2>4. log'[m] = Append(log[m], [epoch |-> logEpoch[m], tx |-> txs + 1])
    BY <1>17 DEF Commit, DiskTypes
  <2>5. [epoch |-> logEpoch[m], tx |-> txs + 1] \in Entry
    BY DEF Entry, StandingTypes, WriteTypes
  <2>6. logEpoch'[m] = logEpoch[m] /\ epoch'[m] = epoch[m] /\ logEpoch[m] \in Nat
    BY <1>17 DEF Commit, StandingTypes
  <2>8. EntryEpochs(m)'
    BY <2>2, <2>3, <2>4, <2>5, <2>6, EntryAppended
  <2>9. PartEpochs(m)'
    BY <1>17, <2>2 DEF Commit, PartEpochs
  <2> QED BY <2>1, <2>8, <2>9, EpochsOne
<1>18. ASSUME NEW f \in Member, ReceiveEpoch(f) PROVE Epochs'
  <2>1. \A n \in Member \ {f} : Untouched(n)
    BY <1>18 DEF ReceiveEpoch, Untouched, DiskTypes, StandingTypes, ElectionTypes
  <2>2. EntryEpochs(f) /\ PartEpochs(f)
    BY DEF Epochs
  <2>3. conn[f] # NoConn
    BY <1>18 DEF ReceiveEpoch, NoConn, NoMsg
  <2>4. role[f] = "replica" /\ pc[f] = "idle"
    BY <2>3 DEF Places
  <2>5. conn[f].down.epoch \in Nat
    BY <1>18, ConnTypes, FrameTypes DEF ReceiveEpoch, SessionTypes, NoMsg
  <2>6. epoch'[f] >= epoch[f] /\ epoch'[f] \in Nat /\ epoch[f] \in Nat /\ logEpoch[f] \in Nat
    BY <1>18, <2>5, Max2Nat DEF ReceiveEpoch, DiskTypes, StandingTypes
  <2>7. \A i \in 1..Len(log[f]) : log[f][i].epoch \in Nat
    BY EntryNat DEF DiskTypes
  <2>8. EntryEpochs(f)'
    BY <1>18, <2>2, <2>6, <2>7 DEF ReceiveEpoch, EntryEpochs
  <2>9. PartEpochs(f)'
    BY <1>18, <2>2, <2>4, <2>6 DEF ReceiveEpoch, PartEpochs
  <2> QED BY <2>1, <2>8, <2>9, EpochsOne
<1>19. ASSUME NEW f \in Member, ReceiveBatch(f) PROVE Epochs'
  <2>1. \A n \in Member \ {f} : Untouched(n)
    BY <1>19 DEF ReceiveBatch, Untouched, DiskTypes, StandingTypes, ElectionTypes
  <2>2. EntryEpochs(f) /\ PartEpochs(f)
    BY DEF Epochs
  <2>3. conn[f] # NoConn
    BY <1>19 DEF ReceiveBatch, NoConn, NoMsg
  <2>4. role[f] = "replica" /\ pc[f] = "idle"
    BY <2>3 DEF Places
  <2>5. /\ conn[f].down.epoch \in Nat /\ conn[f].down.tx_id \in Nat
        /\ conn[f].down.entry.epoch \in Nat /\ conn[f].down.entry.tx \in Nat
    BY <1>19, ConnTypes, FrameTypes DEF ReceiveBatch, SessionTypes, NoMsg, Entry
  <2>6. /\ logEpoch'[f] \in Nat /\ logEpoch[f] \in Nat /\ epoch'[f] \in Nat /\ epoch[f] \in Nat
        /\ logEpoch[f] <= logEpoch'[f] /\ logEpoch'[f] <= epoch'[f]
    <3>1. logEpoch[f] <= epoch[f] /\ logEpoch[f] \in Nat /\ epoch[f] \in Nat
      BY <2>2, <2>4 DEF PartEpochs, DiskTypes, StandingTypes
    <3>2. \/ logEpoch'[f] = logEpoch[f] /\ epoch'[f] = epoch[f]
          \/ /\ logEpoch'[f] = conn[f].down.entry.epoch /\ epoch'[f] = conn[f].down.entry.epoch
             /\ conn[f].down.entry.epoch > logEpoch[f]
      BY <1>19 DEF ReceiveBatch, DiskTypes, StandingTypes
    <3> QED BY <3>1, <3>2, <2>5
  <2>7. role'[f] = "replica" /\ pc'[f] = "idle" /\ UNCHANGED <<role, pc, round, svcEpoch, admitted>>
    BY <1>19, <2>4 DEF ReceiveBatch
  <2>8. EntryEpochs(f)'
    <3>1. CASE log' = log
      <4>1. \A i \in 1..Len(log[f]) : log[f][i].epoch \in Nat
        BY EntryNat DEF DiskTypes
      <4> QED BY <3>1, <4>1, <2>2, <2>4, <2>6 DEF EntryEpochs
    <3>2. CASE log' # log
      <4>1. log'[f] = Append(log[f], [epoch |-> logEpoch'[f], tx |-> conn[f].down.entry.tx])
        BY <1>19, <3>2 DEF ReceiveBatch, DiskTypes
      <4>2. [epoch |-> logEpoch'[f], tx |-> conn[f].down.entry.tx] \in Entry
        BY <2>5, <2>6 DEF Entry
      <4> QED BY <4>1, <4>2, <2>2, <2>4, <2>6, EntryAppended
    <3> QED BY <3>1, <3>2
  <2>9. PartEpochs(f)'
    BY <2>2, <2>4, <2>6, <2>7 DEF PartEpochs
  <2> QED BY <2>1, <2>8, <2>9, EpochsOne
<1>20. ASSUME NEW m \in Member, Propose(m) PROVE Epochs'
  <2>1. \A n \in Member \ {m} : Untouched(n)
    BY <1>20 DEF Propose, Untouched, DiskTypes, StandingTypes, ElectionTypes
  <2>2. EntryEpochs(m) /\ PartEpochs(m)
    BY DEF Epochs
  <2>3. round'[m] = Max2(epoch[m], ballot[m].epoch) + 1 /\ pc'[m] = "proposed"
    BY <1>20 DEF Propose, ElectionTypes
  <2>4. epoch[m] < round'[m]
    <3>1. epoch[m] \in Nat /\ ballot[m].epoch \in Nat
      BY DEF DiskTypes, ElectionTypes, Ballot
    <3>2. Max2(epoch[m], ballot[m].epoch) \in Nat /\ Max2(epoch[m], ballot[m].epoch) >= epoch[m]
      BY <3>1, Max2Nat
    <3> QED BY <2>3, <3>1, <3>2
  <2>8. EntryEpochs(m)'
    BY <1>20, <2>2 DEF Propose, EntryEpochs
  <2>9. PartEpochs(m)'
    BY <1>20, <2>2, <2>3, <2>4 DEF Propose, PartEpochs
  <2> QED BY <2>1, <2>8, <2>9, EpochsOne
<1>21. ASSUME NEW m \in Member, PersistSelfBallot(m) PROVE Epochs'
  <2>1. \A n \in Member \ {m} : Untouched(n)
    BY <1>21 DEF PersistSelfBallot, Untouched, DiskTypes, StandingTypes, ElectionTypes
  <2>2. EntryEpochs(m) /\ PartEpochs(m)
    BY DEF Epochs
  <2>3. pc[m] = "proposed" /\ pc'[m] = "persisted"
    BY <1>21 DEF PersistSelfBallot, ElectionTypes
  <2>8. EntryEpochs(m)'
    BY <1>21, <2>2 DEF PersistSelfBallot, EntryEpochs
  <2>9. PartEpochs(m)'
    BY <1>21, <2>2, <2>3 DEF PersistSelfBallot, PartEpochs
  <2> QED BY <2>1, <2>8, <2>9, EpochsOne
<1>22. ASSUME NEW m \in Member, RequestVotes(m) PROVE Epochs'
  <2>1. \A n \in Member \ {m} : Untouched(n)
    BY <1>22 DEF RequestVotes, Untouched, DiskTypes, StandingTypes, ElectionTypes
  <2>2. EntryEpochs(m) /\ PartEpochs(m)
    BY DEF Epochs
  <2>3. pc[m] = "persisted" /\ pc'[m] = "asking"
    BY <1>22 DEF RequestVotes, ElectionTypes
  <2>8. EntryEpochs(m)'
    BY <1>22, <2>2 DEF RequestVotes, EntryEpochs
  <2>9. PartEpochs(m)'
    BY <1>22, <2>2, <2>3 DEF RequestVotes, PartEpochs
  <2> QED BY <2>1, <2>8, <2>9, EpochsOne
<1>23. ASSUME NEW m \in Member, StandDown(m) PROVE Epochs'
  <2>1. \A n \in Member \ {m} : Untouched(n)
    BY <1>23 DEF StandDown, Untouched, DiskTypes, StandingTypes, ElectionTypes
  <2>2. EntryEpochs(m) /\ PartEpochs(m)
    BY DEF Epochs
  <2>3. epoch[m] < round[m] /\ role[m] = "replica"
    BY <1>23, <2>2 DEF StandDown, PartEpochs, Places
  <2>4. epoch'[m] > round[m] /\ pc'[m] = "idle"
    BY <1>23 DEF StandDown, NewerSeen, Got, ElectionTypes, DiskTypes
  <2>5. epoch[m] \in Nat /\ epoch'[m] \in Nat /\ round[m] \in Nat /\ logEpoch[m] \in Nat
    BY DEF DiskTypes, ElectionTypes, StandingTypes
  <2>6. \A i \in 1..Len(log[m]) : log[m][i].epoch \in Nat
    BY EntryNat DEF DiskTypes
  <2>8. EntryEpochs(m)'
    <3>1. epoch[m] <= epoch'[m] /\ log' = log /\ logEpoch' = logEpoch /\ role' = role
      BY <1>23, <2>3, <2>4, <2>5 DEF StandDown
    <3> QED BY <2>2, <2>5, <2>6, <3>1 DEF EntryEpochs
  <2>9. PartEpochs(m)'
    BY <1>23, <2>2, <2>3, <2>4, <2>5 DEF StandDown, PartEpochs
  <2> QED BY <2>1, <2>8, <2>9, EpochsOne
<1>24. ASSUME NEW m \in Member, LoseRound(m) PROVE Epochs'
  <2>1. \A n \in Member \ {m} : Untouched(n)
    BY <1>24 DEF LoseRound, Untouched, DiskTypes, StandingTypes, ElectionTypes
  <2>2. EntryEpochs(m) /\ PartEpochs(m)
    BY DEF Epochs
  <2>8. EntryEpochs(m)'
    BY <1>24, <2>2 DEF LoseRound, EntryEpochs
  <2>9. PartEpochs(m)'
    BY <1>24, <2>2 DEF LoseRound, PartEpochs, ElectionTypes
  <2> QED BY <2>1, <2>8, <2>9, EpochsOne
<1>25. ASSUME NEW m \in Member, WinRound(m) PROVE Epochs'
  <2>1. \A n \in Member \ {m} : Untouched(n)
    BY <1>25 DEF WinRound, Untouched, DiskTypes, StandingTypes, ElectionTypes
  <2>2. EntryEpochs(m) /\ PartEpochs(m)
    BY DEF Epochs
  <2>3. epoch[m] < round[m] /\ role[m] = "replica"
    BY <1>25, <2>2 DEF WinRound, PartEpochs, Places
  <2>4. epoch'[m] = round[m] /\ pc'[m] = "promoting"
    BY <1>25 DEF WinRound, ElectionTypes, DiskTypes
  <2>5. epoch[m] \in Nat /\ round[m] \in Nat /\ logEpoch[m] \in Nat
    BY DEF DiskTypes, ElectionTypes, StandingTypes
  <2>6. \A i \in 1..Len(log[m]) : log[m][i].epoch \in Nat
    BY EntryNat DEF DiskTypes
  <2>8. EntryEpochs(m)'
    BY <1>25, <2>2, <2>3, <2>4, <2>5, <2>6 DEF WinRound, EntryEpochs
  <2>9. PartEpochs(m)'
    BY <1>25, <2>2, <2>3, <2>4, <2>5 DEF WinRound, PartEpochs
  <2> QED BY <2>1, <2>8, <2>9, EpochsOne
<1>26. ASSUME NEW m \in Member, Promote(m) PROVE Epochs'
  <2>1. \A n \in Member \ {m} : Untouched(n)
    BY <1>26 DEF Promote, Untouched, DiskTypes, StandingTypes, ElectionTypes
  <2>2. EntryEpochs(m) /\ PartEpochs(m)
    BY DEF Epochs
  <2>0. round[m] \in Nat /\ svcEpoch[m] \in Nat /\ logEpoch[m] \in Nat
    BY DEF ElectionTypes, StandingTypes
  <2>3. epoch[m] = round[m] /\ role[m] = "replica" /\ logEpoch[m] <= round[m]
    BY <1>26, <2>0, <2>2 DEF Promote, PartEpochs, Places
  <2>4. /\ logEpoch'[m] = round[m] /\ pc'[m] = "idle" /\ role'[m] = "primary"
        /\ svcEpoch'[m] = Max2(svcEpoch[m], round[m])
    BY <1>26 DEF Promote, ElectionTypes, StandingTypes
  <2>5. svcEpoch'[m] >= round[m]
    BY <2>0, <2>4, Max2Nat
  <2>6. \A i \in 1..Len(log[m]) : log[m][i].epoch \in Nat
    BY EntryNat DEF DiskTypes
  <2>8. EntryEpochs(m)'
    BY <1>26, <2>0, <2>2, <2>3, <2>4, <2>6 DEF Promote, EntryEpochs
  <2>9. PartEpochs(m)'
    BY <1>26, <2>0, <2>3, <2>4, <2>5 DEF Promote, PartEpochs
  <2> QED BY <2>1, <2>8, <2>9, EpochsOne
<1>27. ASSUME NEW m \in Member, Demote(m) PROVE Epochs'
  <2>1. \A n \in Member \ {m} : Untouched(n)
    BY <1>27 DEF Demote, Untouched, DiskTypes, StandingTypes, ElectionTypes
  <2>2. EntryEpochs(m) /\ PartEpochs(m)
    BY DEF Epochs
  <2>0. svcEpoch[m] \in Nat /\ logEpoch[m] \in Nat
    BY DEF StandingTypes
  <2>3. role[m] = "primary" /\ pc[m] = "idle" /\ logEpoch[m] <= svcEpoch[m]
    BY <1>27, <2>2 DEF Demote, PartEpochs, Places
  <2>4. epoch'[m] = svcEpoch[m] /\ role'[m] = "replica" /\ pc'[m] = "idle"
    BY <1>27, <2>3 DEF Demote, DiskTypes, StandingTypes
  <2>6. \A i \in 1..Len(log[m]) : log[m][i].epoch \in Nat
    BY EntryNat DEF DiskTypes
  <2>8. EntryEpochs(m)'
    BY <1>27, <2>0, <2>2, <2>3, <2>4, <2>6 DEF Demote, EntryEpochs
  <2>9. PartEpochs(m)'
    BY <1>27, <2>0, <2>3, <2>4 DEF Demote, PartEpochs
  <2> QED BY <2>1, <2>8, <2>9, EpochsOne
<1>28. ASSUME NEW m \in Member, Crash(m) PROVE Epochs'
  <2>0. /\ role' = [role EXCEPT ![m] = "down"] /\ pc' = [pc EXCEPT ![m] = "idle"]
        /\ round' = [round EXCEPT ![m] = 0] /\ admitted' = admitted \ {m}
        /\ UNCHANGED <<epoch, log, svcEpoch, logEpoch>>
    BY <1>28 DEF Crash
  <2>1. \A n \in Member \ {m} : Untouched(n)
    BY <2>0 DEF Untouched, StandingTypes, ElectionTypes
  <2>2. EntryEpochs(m)
    BY DEF Epochs
  <2>3. role'[m] = "down" /\ pc'[m] = "idle" /\ m \notin admitted'
    BY <2>0 DEF StandingTypes, ElectionTypes
  <2>8. EntryEpochs(m)'
    BY <2>0, <2>2, <2>3 DEF EntryEpochs
  <2>9. PartEpochs(m)'
    BY <2>3 DEF PartEpochs
  <2> QED BY <2>1, <2>8, <2>9, EpochsOne
<1>29. ASSUME NEW m \in Member, Restart(m) PROVE Epochs'
  <2>1. \A n \in Member \ {m} : Untouched(n)
    BY <1>29 DEF Restart, Untouched, DiskTypes, StandingTypes, ElectionTypes
  <2>2. EntryEpochs(m) /\ PartEpochs(m)
    BY DEF Epochs
  <2>3. role[m] = "down" /\ pc[m] = "idle" /\ m \notin admitted
    BY <1>29, <2>2 DEF Restart, Places, PartEpochs
  <2>4. logEpoch'[m] = epoch[m] /\ svcEpoch'[m] = epoch[m] /\ epoch[m] \in Nat
    BY <1>29 DEF Restart, StandingTypes, DiskTypes
  <2>8. EntryEpochs(m)'
    BY <1>29, <2>2, <2>4 DEF Restart, EntryEpochs
  <2>9. PartEpochs(m)'
    BY <1>29, <2>3, <2>4 DEF Restart, PartEpochs
  <2> QED BY <2>1, <2>8, <2>9, EpochsOne
<1>30. CASE UNCHANGED vars
  BY <1>30, EpochsNone DEF vars
<1> QED BY <1>1, <1>2, <1>3, <1>4, <1>5, <1>6, <1>7, <1>8, <1>9, <1>10, <1>11, <1>12, <1>13, <1>14, <1>15, <1>16, <1>17, <1>18, <1>19, <1>20, <1>21, <1>22, <1>23, <1>24, <1>25, <1>26, <1>27, <1>28, <1>29, <1>30
        DEF Next, Writing, Streaming, Electing, Failing

\* The marker covers the log in every reachable state: a restart can always
\* open the log under the epoch it read (load_epoch, CommitLog::open), and no
\* step of a candidate, a follower or a demoted primary takes it below.
THEOREM MarkerStaysAbove == Spec => []MarkerCoversLog
<1>1. Init => Epochs
  BY EpochsInit
<1>2. (TypeOK /\ ElectionInv) /\ (TypeOK /\ ElectionInv)' /\ Epochs /\ [Next]_vars => Epochs'
  BY EpochsStep DEF ElectionInv
<1>3. Epochs => MarkerCoversLog
  BY DEF Epochs, EntryEpochs, PartEpochs, MarkerCoversLog
<1> QED BY <1>1, <1>2, <1>3, ElectionAlways, PTL DEF Spec

-----------------------------------------------------------------------------
(* The quorum, until a failover. *)

\* What the quorum's invariant reads.
qvars == <<role, admitted, conn, listed, durable, log, acked, won>>

\* The fields of a connection that a frame leaves alone.
LEMMA ConnFields ==
  ASSUME NEW c \in Conn, c.st # "none" \/ c.down # NoMsg, NEW d, NEW u, NEW n
  PROVE  /\ [c EXCEPT !.down = d].st = c.st /\ [c EXCEPT !.down = d].to = c.to
         /\ [c EXCEPT !.down = d].sent = c.sent
         /\ [c EXCEPT !.down = d].down = d /\ [c EXCEPT !.down = d].up = c.up
         /\ [c EXCEPT !.up = u].st = c.st /\ [c EXCEPT !.up = u].to = c.to
         /\ [c EXCEPT !.up = u].down = c.down /\ [c EXCEPT !.up = u].up = u
         /\ [c EXCEPT !.sent = n, !.down = d].st = c.st
         /\ [c EXCEPT !.sent = n, !.down = d].to = c.to
         /\ [c EXCEPT !.sent = n, !.down = d].down = d
         /\ [c EXCEPT !.sent = n, !.down = d].up = c.up
         /\ [c EXCEPT !.st = "open", !.down = d].st = "open"
         /\ [c EXCEPT !.st = "open", !.down = d].to = c.to
         /\ [c EXCEPT !.st = "open", !.down = d].down = d
         /\ [c EXCEPT !.st = "open", !.down = d].up = c.up
         /\ [c EXCEPT !.st = "closed", !.up = u].st = "closed"
         /\ [c EXCEPT !.st = "closed", !.up = u].to = c.to
         /\ [c EXCEPT !.st = "closed", !.up = u].down = c.down
         /\ [c EXCEPT !.st = "closed", !.up = u].up = u
<1>1. c \in [st : {"hello", "open", "closed"}, to : Member, sent : Nat, down : Down, up : Up]
  BY DEF Conn, NoConn
<1> QED BY <1>1

\* No connection is a harmless one.
LEMMA NoConnFromBoot == \A f \in Member : FromBoot(f, NoConn) /\ NoConn.st = "none"
BY DEF FromBoot, NoConn, NoMsg

\* Steps that leave logs, sessions and acknowledgements alone.
LEMMA QuorumFrame == QuorumInv /\ UNCHANGED qvars => QuorumInv'
<1> SUFFICES ASSUME QuorumInv, UNCHANGED qvars PROVE QuorumInv'
  OBVIOUS
<1>1. Dialled' /\ won' = won
  BY DEF QuorumInv, Dialled, qvars
<1>2. ASSUME won = {} PROVE BootLeads' /\ Frames' /\ Watermarks' /\ Copies' /\ OnQuorum'
  <2>1. BootLeads' /\ Watermarks' /\ Copies'
    BY <1>2 DEF QuorumInv, BootLeads, Watermarks, Copies, qvars
  <2>2. Frames'
    BY <1>2 DEF QuorumInv, Frames, FromBoot, qvars
  <2>3. OnQuorum'
    BY <1>2 DEF QuorumInv, OnQuorum, Holds, qvars
  <2> QED BY <2>1, <2>2, <2>3
<1> QED BY <1>1, <1>2 DEF QuorumInv

\* Member m's log only grows at its end.
Grows(m) ==
  /\ Len(log[m]) <= Len(log'[m])
  /\ \A i \in 1..Len(log[m]) : log'[m][i] = log[m][i]

\* What a majority holds, it holds while logs grow (apply_replica_record and
\* the engine only append).
LEMMA QuorumGrows ==
  ASSUME TypeOK, TypeOK', OnQuorum, \A m \in Member : Grows(m), acked' = acked
  PROVE  OnQuorum'
<1> SUFFICES ASSUME NEW a \in acked
             PROVE  /\ a[1] \in 1..Len(log'[Boot])
                    /\ Cardinality({m \in Member : Holds(m, a)}') >= Majority
  BY DEF OnQuorum
<1> DEFINE H == {m \in Member : Holds(m, a)}
           G == {m \in Member : Holds(m, a)}'
<1>1. \A m \in Member : Len(log[m]) \in Nat /\ Len(log'[m]) \in Nat
  BY DEF TypeOK, DiskTypes
<1>0. a[1] \in 1..Len(log[Boot]) /\ Cardinality(H) >= Majority
  BY Zenon DEF OnQuorum
<1>2. a[1] \in 1..Len(log[Boot]) /\ a[1] \in Nat
  BY <1>0, <1>1, MembersAssumption
<1>3. a[1] \in 1..Len(log'[Boot])
  BY <1>1, <1>2, MembersAssumption DEF Grows
<1>4. ASSUME NEW m \in Member, Holds(m, a) PROVE Holds(m, a)'
  <2>1. a[1] \in 1..Len(log[m])
    BY <1>1, <1>2, <1>4 DEF Holds
  <2> QED BY <2>1, <1>1, <1>4 DEF Holds, Grows
<1>5. H \subseteq G /\ G \subseteq Member
  BY <1>4
<1>6. IsFiniteSet(G) /\ IsFiniteSet(H) /\ Cardinality(H) <= Cardinality(G)
  BY <1>5, MembersAssumption, FS_Subset
<1>7. Cardinality(G) \in Nat /\ Cardinality(H) \in Nat /\ Cardinality(Member) \in Nat
  BY <1>6, MembersAssumption, FS_CardinalityType
<1>8. Majority \in Nat /\ Cardinality(H) >= Majority
  BY <1>0, <1>7 DEF Majority
<1>9. Cardinality(G) >= Majority
  BY <1>6, <1>7, <1>8
<1> QED BY <1>3, <1>9

\* A step of one session: what has to be shown of its connection.
LEMMA SessionStep ==
  ASSUME TypeOK, TypeOK', QuorumInv, NEW f \in Member, UNCHANGED <<log, acked, won>>,
         \A g \in Member \ {f} : conn'[g] = conn[g],
         conn'[f].st # "none" => conn'[f].to # f,
         conn'[f].st = "hello" => conn'[f].sent <= Len(log[f]),
         won = {} => FromBoot(f, conn'[f]) /\ BootLeads' /\ Watermarks'
  PROVE  QuorumInv'
<1>1. Dialled'
  BY DEF QuorumInv, Dialled
<1>2. ASSUME won = {} PROVE Frames' /\ Copies' /\ OnQuorum'
  <2>1. ASSUME NEW g \in Member PROVE FromBoot(g, conn'[g])
    BY <1>2 DEF QuorumInv, Frames
  <2>2. Frames'
    BY <2>1 DEF Frames, FromBoot
  <2>3. Copies'
    BY <1>2 DEF QuorumInv, Copies
  <2>4. OnQuorum'
    BY <1>2 DEF QuorumInv, OnQuorum, Holds
  <2> QED BY <2>2, <2>3, <2>4
<1> QED BY <1>1, <1>2 DEF QuorumInv

\* A frame comes or goes and nothing else happens.
LEMMA FrameStep ==
  ASSUME TypeOK, TypeOK', QuorumInv, NEW f \in Member,
         UNCHANGED <<log, acked, won, role, admitted, listed, durable>>,
         \A g \in Member \ {f} : conn'[g] = conn[g],
         conn'[f].st # "none" => conn'[f].to # f,
         conn'[f].st = "hello" => conn'[f].sent <= Len(log[f]),
         won = {} => FromBoot(f, conn'[f])
  PROVE  QuorumInv'
<1>1. won = {} => BootLeads' /\ Watermarks'
  BY DEF QuorumInv, BootLeads, Watermarks
<1> QED BY <1>1, SessionStep

\* Before a failover, only Boot can be the primary a session is with.
LEMMA PrimaryIsBoot ==
  ASSUME QuorumInv, won = {}, NEW m \in Member, role[m] = "primary" \/ m \in admitted
  PROVE  m = Boot
BY DEF QuorumInv, BootLeads

\* The boot state: nothing in flight, nothing acknowledged.
LEMMA QuorumInit == Init => QuorumInv
<1> SUFFICES ASSUME Init PROVE QuorumInv
  OBVIOUS
<1>1. Dialled
  BY DEF Init, Dialled, NoConn
<1>2. BootLeads
  BY DEF Init, BootLeads, ConfigRole
<1>3. Frames
  BY NoConnFromBoot DEF Init, Frames
<1>4. Watermarks /\ Copies
  BY MembersAssumption DEF Init, Watermarks, Copies
<1>5. OnQuorum
  BY DEF Init, OnQuorum
<1> QED BY <1>1, <1>2, <1>3, <1>4, <1>5 DEF QuorumInv

\* Every handler and step keeps the quorum's invariant.
LEMMA QuorumStep == TypeOK /\ TypeOK' /\ QuorumInv /\ [Next]_vars => QuorumInv'
<1> SUFFICES ASSUME TypeOK, TypeOK', QuorumInv, [Next]_vars PROVE QuorumInv'
  OBVIOUS
<1> USE DEF disk, standing, election, sessions, writes, bounds, history
<1>0. /\ conn \in [Member -> Conn] /\ \A f \in Member : conn[f] \in Conn
      /\ \A f \in Member : Len(log[f]) \in Nat /\ log[f] \in Seq(Entry)
      /\ Dialled /\ (won = {} => BootLeads /\ Frames /\ Watermarks /\ Copies /\ OnQuorum)
  BY DEF TypeOK, SessionTypes, DiskTypes, QuorumInv
<1>1. ASSUME BarrierEnter PROVE QuorumInv'
  BY <1>1, QuorumFrame DEF BarrierEnter, qvars
<1>2. ASSUME BarrierGiveUp PROVE QuorumInv'
  BY <1>2, QuorumFrame DEF BarrierGiveUp, qvars
<1>3. ASSUME NEW m \in Member, PersistSelfBallot(m) PROVE QuorumInv'
  BY <1>3, QuorumFrame DEF PersistSelfBallot, qvars
<1>4. ASSUME NEW m \in Member, RequestVotes(m) PROVE QuorumInv'
  BY <1>4, QuorumFrame DEF RequestVotes, qvars
<1>5. ASSUME NEW m \in Member, Grant(m) PROVE QuorumInv'
  BY <1>5, QuorumFrame DEF Grant, qvars
<1>6. ASSUME NEW m \in Member, Deny(m) PROVE QuorumInv'
  BY <1>6, QuorumFrame DEF Deny, qvars
<1>7. ASSUME NEW m \in Member, StandDown(m) PROVE QuorumInv'
  BY <1>7, QuorumFrame DEF StandDown, qvars
<1>8. ASSUME NEW m \in Member, LoseRound(m) PROVE QuorumInv'
  BY <1>8, QuorumFrame DEF LoseRound, qvars
<1>9. ASSUME NEW m \in Member, WinRound(m) PROVE QuorumInv'
  BY <1>9, QuorumFrame DEF WinRound, qvars
<1>10. ASSUME NEW m \in Member, NEW r \in reqs, AnswerRead(m, r) PROVE QuorumInv'
  BY <1>10, QuorumFrame DEF AnswerRead, qvars
<1>11. ASSUME NEW m \in Member, Promote(m) PROVE QuorumInv'
  BY <1>11, <1>0 DEF Promote, QuorumInv, Dialled
<1>12. ASSUME NEW m \in Member, Admit(m) PROVE QuorumInv'
  <2>1. UNCHANGED <<conn, listed, durable, log, acked, won>>
    BY <1>12 DEF Admit
  <2>2. won = {} => BootLeads'
    BY <1>12, <1>0, PrimaryIsBoot DEF Admit, BootLeads
  <2>3. won = {} => Watermarks' /\ FromBoot(m, conn'[m])
    BY <1>0, <2>1 DEF Watermarks, Frames
  <2> QED BY <2>1, <2>2, <2>3, <1>0, SessionStep DEF Dialled
<1>13. ASSUME NEW m \in Member, Demote(m) PROVE QuorumInv'
  <2>1. UNCHANGED <<conn, listed, durable, log, acked, won>>
    BY <1>13 DEF Demote
  <2>2. won = {} => BootLeads'
    BY <1>13, <1>0 DEF Demote, BootLeads, TypeOK, StandingTypes
  <2>3. won = {} => Watermarks' /\ FromBoot(m, conn'[m])
    BY <1>0, <2>1 DEF Watermarks, Frames
  <2> QED BY <2>1, <2>2, <2>3, <1>0, SessionStep DEF Dialled
<1>14. ASSUME NEW m \in Member, Restart(m) PROVE QuorumInv'
  <2>1. UNCHANGED <<conn, listed, durable, log, acked, won>>
    BY <1>14 DEF Restart
  <2>2. won = {} => BootLeads'
    BY <1>14, <1>0 DEF Restart, ConfigRole, BootLeads, TypeOK, StandingTypes
  <2>3. won = {} => Watermarks' /\ FromBoot(m, conn'[m])
    BY <1>0, <2>1 DEF Watermarks, Frames
  <2> QED BY <2>1, <2>2, <2>3, <1>0, SessionStep DEF Dialled
<1>15. ASSUME NEW f \in Member, NEW t \in Member, EndStream(t, f) PROVE QuorumInv'
  <2>1. UNCHANGED <<role, admitted, conn, log, acked, won>>
    BY <1>15 DEF EndStream
  <2>2. won = {} => BootLeads'
    BY <1>0, <2>1 DEF BootLeads
  <2>3. won = {} => Watermarks'
    <3>1. listed' \subseteq listed /\ \A p \in Member \X Member : durable'[p] = durable[p] \/ durable'[p] = 0
      BY <1>15 DEF EndStream, TypeOK, SessionTypes
    <3> QED BY <1>0, <2>1, <3>1, MembersAssumption DEF Watermarks
  <2>4. won = {} => FromBoot(f, conn'[f])
    BY <1>0, <2>1 DEF Frames
  <2> QED BY <2>1, <2>2, <2>3, <2>4, <1>0, SessionStep DEF Dialled
<1>16. ASSUME NEW f \in Member, Refuse(f) PROVE QuorumInv'
  <2>1. UNCHANGED <<log, acked, won, role, admitted, listed, durable>>
    BY <1>16 DEF Refuse
  <2>7. \A g \in Member \ {f} : conn'[g] = conn[g]
    BY <1>16, <1>0 DEF Refuse, Close
  <2>2. conn'[f] = NoConn
    BY <1>16, <1>0 DEF Refuse, Close
  <2>8. conn'[f].st # "none" => conn'[f].to # f
    BY <2>2, NoConnFromBoot
  <2>10. conn'[f].st = "hello" => conn'[f].sent <= Len(log[f])
    BY <2>2, NoConnFromBoot
  <2>9. won = {} => FromBoot(f, conn'[f])
    BY <2>2, NoConnFromBoot
  <2> QED BY <2>1, <2>7, <2>8, <2>10, <2>9, FrameStep
<1>17. ASSUME NEW f \in Member, Disconnect(f) PROVE QuorumInv'
  <2>1. UNCHANGED <<log, acked, won, role, admitted, listed, durable>>
    BY <1>17 DEF Disconnect
  <2>7. \A g \in Member \ {f} : conn'[g] = conn[g]
    BY <1>17, <1>0 DEF Disconnect, Leave, Close
  <2>2. conn'[f] = NoConn
    BY <1>17, <1>0 DEF Disconnect, Leave, Close
  <2>8. conn'[f].st # "none" => conn'[f].to # f
    BY <2>2, NoConnFromBoot
  <2>10. conn'[f].st = "hello" => conn'[f].sent <= Len(log[f])
    BY <2>2, NoConnFromBoot
  <2>9. won = {} => FromBoot(f, conn'[f])
    BY <2>2, NoConnFromBoot
  <2> QED BY <2>1, <2>7, <2>8, <2>10, <2>9, FrameStep
<1>18. ASSUME NEW f \in Member, Propose(f) PROVE QuorumInv'
  <2>1. UNCHANGED <<log, acked, won, role, admitted, listed, durable>>
    BY <1>18 DEF Propose
  <2>7. \A g \in Member \ {f} : conn'[g] = conn[g]
    BY <1>18, <1>0 DEF Propose, Leave, Close
  <2>2. conn'[f] = NoConn
    BY <1>18, <1>0 DEF Propose, Leave, Close
  <2>8. conn'[f].st # "none" => conn'[f].to # f
    BY <2>2, NoConnFromBoot
  <2>10. conn'[f].st = "hello" => conn'[f].sent <= Len(log[f])
    BY <2>2, NoConnFromBoot
  <2>9. won = {} => FromBoot(f, conn'[f])
    BY <2>2, NoConnFromBoot
  <2> QED BY <2>1, <2>7, <2>8, <2>10, <2>9, FrameStep
<1>19. ASSUME NEW f \in Member, NEW t \in Member, Dial(f, t) PROVE QuorumInv'
  <2>1. UNCHANGED <<log, acked, won, role, admitted, listed, durable>>
    BY <1>19 DEF Dial
  <2>7. \A g \in Member \ {f} : conn'[g] = conn[g]
    BY <1>19, <1>0 DEF Dial
  <2>2. conn'[f] = [NoConn EXCEPT !.st = "hello", !.to = t, !.sent = Len(log[f])] /\ f # t
    BY <1>19, <1>0 DEF Dial
  <2>3. /\ conn'[f].to = t /\ conn'[f].st = "hello" /\ conn'[f].sent = Len(log[f])
        /\ conn'[f].down = NoMsg /\ conn'[f].up = NoMsg
    BY <2>2 DEF NoConn
  <2>8. conn'[f].st # "none" => conn'[f].to # f
    BY <2>2, <2>3
  <2>10. conn'[f].st = "hello" => conn'[f].sent <= Len(log[f])
    BY <2>3, <1>0
  <2>9. won = {} => FromBoot(f, conn'[f])
    BY <2>3 DEF FromBoot, NoMsg
  <2> QED BY <2>1, <2>7, <2>8, <2>10, <2>9, FrameStep
<1>20. ASSUME NEW f \in Member, SendBatch(f) PROVE QuorumInv'
  <2>1. UNCHANGED <<log, acked, won, role, admitted, listed, durable>>
    BY <1>20 DEF SendBatch
  <2>7. \A g \in Member \ {f} : conn'[g] = conn[g]
    BY <1>20, <1>0 DEF SendBatch
  <2>2. conn[f].st = "open"
    BY <1>20 DEF SendBatch, NoMsg
  <2>3. conn'[f] = [conn[f] EXCEPT !.sent = conn[f].sent + 1,
          !.down = [type |-> "batch", epoch |-> svcEpoch[conn[f].to], tx_id |-> conn[f].sent + 1,
                    entry |-> log[conn[f].to][conn[f].sent + 1]]]
    BY <1>20, <1>0 DEF SendBatch
  <2>4. /\ conn'[f].st = "open" /\ conn'[f].to = conn[f].to /\ conn'[f].up = conn[f].up
        /\ conn'[f].down.tx_id = conn[f].sent + 1
        /\ conn'[f].down.entry = log[conn[f].to][conn[f].sent + 1]
    BY <2>2, <2>3, <1>0, ConnFields
  <2>8. conn'[f].st # "none" => conn'[f].to # f
    BY <2>2, <2>4, <1>0, ConnTypes DEF Dialled
  <2>10. conn'[f].st = "hello" => conn'[f].sent <= Len(log[f])
    BY <2>2, <2>4, <1>0 DEF Dialled
  <2>9. won = {} => FromBoot(f, conn'[f])
    <3>1. conn[f].sent + 1 \in 1..Len(log[conn[f].to])
      BY <1>20, <1>0, <2>2, ConnTypes DEF SendBatch
    <3> QED BY <1>0, <2>2, <2>4, <3>1 DEF Frames, FromBoot
  <2> QED BY <2>1, <2>7, <2>8, <2>10, <2>9, FrameStep
<1>21. ASSUME NEW f \in Member, SendHeartbeat(f) PROVE QuorumInv'
  <2>1. UNCHANGED <<log, acked, won, role, admitted, listed, durable>>
    BY <1>21 DEF SendHeartbeat
  <2>7. \A g \in Member \ {f} : conn'[g] = conn[g]
    BY <1>21, <1>0 DEF SendHeartbeat
  <2>2. conn[f].st = "open"
    BY <1>21 DEF SendHeartbeat, NoMsg
  <2>3. conn'[f] = [conn[f] EXCEPT !.down = [type |-> "heartbeat", epoch |-> svcEpoch[conn[f].to]]]
    BY <1>21, <1>0 DEF SendHeartbeat
  <2>4. /\ conn'[f].st = "open" /\ conn'[f].to = conn[f].to /\ conn'[f].up = conn[f].up
        /\ conn'[f].down.type = "heartbeat"
    BY <2>2, <2>3, <1>0, ConnFields
  <2>8. conn'[f].st # "none" => conn'[f].to # f
    BY <2>2, <2>4, <1>0, ConnTypes DEF Dialled
  <2>10. conn'[f].st = "hello" => conn'[f].sent <= Len(log[f])
    BY <2>2, <2>4, <1>0 DEF Dialled
  <2>9. won = {} => FromBoot(f, conn'[f])
    BY <1>0, <2>2, <2>4 DEF Frames, FromBoot
  <2> QED BY <2>1, <2>7, <2>8, <2>10, <2>9, FrameStep
<1>22. ASSUME NEW f \in Member, ReceiveEpoch(f) PROVE QuorumInv'
  <2>1. UNCHANGED <<log, acked, won, role, admitted, listed, durable>>
    BY <1>22 DEF ReceiveEpoch
  <2>7. \A g \in Member \ {f} : conn'[g] = conn[g]
    BY <1>22, <1>0 DEF ReceiveEpoch, Received
  <2>2. conn[f].down # NoMsg
    BY <1>22 DEF ReceiveEpoch, NoMsg
  <2>3. conn'[f] = [conn[f] EXCEPT !.down = NoMsg]
    BY <1>22, <1>0 DEF ReceiveEpoch, Received
  <2>4. /\ conn'[f].st = conn[f].st /\ conn'[f].to = conn[f].to /\ conn'[f].up = conn[f].up
        /\ conn'[f].down = NoMsg /\ conn'[f].sent = conn[f].sent
    BY <2>2, <2>3, <1>0, ConnFields
  <2>8. conn'[f].st # "none" => conn'[f].to # f
    BY <2>2, <2>4, <1>0, ConnTypes DEF Dialled
  <2>10. conn'[f].st = "hello" => conn'[f].sent <= Len(log[f])
    BY <2>2, <2>4, <1>0 DEF Dialled
  <2>9. won = {} => FromBoot(f, conn'[f])
    BY <1>0, <2>4 DEF Frames, FromBoot, NoMsg
  <2> QED BY <2>1, <2>7, <2>8, <2>10, <2>9, FrameStep
<1>23. ASSUME NEW f \in Member, SendAck(f) PROVE QuorumInv'
  <2>1. UNCHANGED <<log, acked, won, role, admitted, listed, durable>>
    BY <1>23 DEF SendAck
  <2>7. \A g \in Member \ {f} : conn'[g] = conn[g]
    BY <1>23, <1>0 DEF SendAck
  <2>2. conn[f].st = "open"
    BY <1>23 DEF SendAck, NoMsg
  <2>3. conn'[f] = [conn[f] EXCEPT !.up = [type |-> "ack", epoch |-> epoch[f], durable |-> Len(log[f])]]
    BY <1>23, <1>0 DEF SendAck
  <2>4. /\ conn'[f].st = conn[f].st /\ conn'[f].to = conn[f].to /\ conn'[f].down = conn[f].down
        /\ conn'[f].up.durable = Len(log[f])
    BY <2>2, <2>3, <1>0, ConnFields
  <2>8. conn'[f].st # "none" => conn'[f].to # f
    BY <2>2, <2>4, <1>0, ConnTypes DEF Dialled
  <2>10. conn'[f].st = "hello" => conn'[f].sent <= Len(log[f])
    BY <2>2, <2>4, <1>0 DEF Dialled
  <2>9. won = {} => FromBoot(f, conn'[f])
    BY <1>0, <2>4 DEF Frames, FromBoot
  <2> QED BY <2>1, <2>7, <2>8, <2>10, <2>9, FrameStep
<1>24. ASSUME NEW f \in Member, Accept(f) PROVE QuorumInv'
  <2>1. UNCHANGED <<log, acked, won, role, admitted>>
    BY <1>24 DEF Accept
  <2>7. \A g \in Member \ {f} : conn'[g] = conn[g]
    BY <1>24, <1>0 DEF Accept
  <2>2. conn[f].st = "hello" /\ role[conn[f].to] = "primary"
    BY <1>24 DEF Accept, NoMsg
  <2>3. conn'[f] = [conn[f] EXCEPT !.st = "open",
          !.down = [type |-> "hello", epoch |-> svcEpoch[conn[f].to]]]
    BY <1>24, <1>0 DEF Accept
  <2>4. /\ conn'[f].st = "open" /\ conn'[f].to = conn[f].to /\ conn'[f].up = conn[f].up
        /\ conn'[f].down.type = "hello"
    BY <2>2, <2>3, <1>0, ConnFields
  <2>8. conn'[f].st # "none" => conn'[f].to # f
    BY <2>2, <2>4, <1>0, ConnTypes DEF Dialled
  <2>10. conn'[f].st = "hello" => conn'[f].sent <= Len(log[f])
    BY <2>2, <2>4, <1>0 DEF Dialled
  <2>9. won = {} => FromBoot(f, conn'[f])
    BY <1>0, <2>2, <2>4, <2>8, ConnTypes, PrimaryIsBoot DEF Frames, FromBoot
  <2>5. won = {} => Watermarks'
    <3> SUFFICES ASSUME won = {} PROVE Watermarks'
      OBVIOUS
    <3>1. conn[f].to = Boot /\ f # Boot /\ conn[f].sent <= Len(log[f])
      BY <1>0, <2>2, ConnTypes, PrimaryIsBoot DEF Dialled
    <3>2. /\ durable' = [durable EXCEPT ![<<Boot, f>>] = conn[f].sent]
          /\ listed' = listed \cup {<<Boot, f>>}
      BY <1>24, <3>1 DEF Accept
    <3>3. ASSUME NEW g \in Member PROVE durable'[<<Boot, g>>] <= Len(log[g])
      <4>1. CASE g = f
        BY <4>1, <3>1, <3>2, MembersAssumption DEF TypeOK, SessionTypes
      <4>2. CASE g # f
        BY <4>2, <3>2, <1>0, MembersAssumption DEF TypeOK, SessionTypes, Watermarks
      <4> QED BY <4>1, <4>2
    <3>4. ASSUME NEW g \in Member, <<Boot, g>> \in listed' PROVE g # Boot
      BY <1>0, <3>1, <3>2, <3>4 DEF Watermarks
    <3> QED BY <2>1, <3>3, <3>4 DEF Watermarks
  <2>6. won = {} => BootLeads'
    BY <1>0, <2>1 DEF BootLeads
  <2> QED BY <2>1, <2>5, <2>6, <2>7, <2>8, <2>10, <2>9, SessionStep
<1>25. ASSUME NEW f \in Member, ReceiveAck(f) PROVE QuorumInv'
  <2>1. UNCHANGED <<log, acked, won, role, admitted>>
    BY <1>25 DEF ReceiveAck
  <2>7. \A g \in Member \ {f} : conn'[g] = conn[g]
    BY <1>25, <1>0 DEF ReceiveAck
  <2>2. conn[f].st = "open" /\ conn[f].up # NoMsg
    BY <1>25 DEF ReceiveAck, NoMsg
  <2>3. conn'[f] = [conn[f] EXCEPT !.up = NoMsg]
    BY <1>25, <1>0 DEF ReceiveAck
  <2>4. /\ conn'[f].st = "open" /\ conn'[f].to = conn[f].to /\ conn'[f].down = conn[f].down
        /\ conn'[f].up = NoMsg
    BY <2>2, <2>3, <1>0, ConnFields
  <2>8. conn'[f].st # "none" => conn'[f].to # f
    BY <2>2, <2>4, <1>0, ConnTypes DEF Dialled
  <2>10. conn'[f].st = "hello" => conn'[f].sent <= Len(log[f])
    BY <2>2, <2>4, <1>0 DEF Dialled
  <2>9. won = {} => FromBoot(f, conn'[f])
    BY <1>0, <2>2, <2>4 DEF Frames, FromBoot
  <2>5. won = {} => Watermarks'
    <3> SUFFICES ASSUME won = {} PROVE Watermarks'
      OBVIOUS
    <3>1. conn[f].to = Boot /\ conn[f].up.durable <= Len(log[f]) /\ conn[f].up.durable \in Nat
      BY <1>0, <2>2, ConnTypes, FrameTypes DEF Frames, FromBoot
    <3>2. durable' \in {durable, [durable EXCEPT ![<<Boot, f>>] = Max2(@, conn[f].up.durable)]}
      BY <1>25, <3>1 DEF ReceiveAck
    <3>3. durable[<<Boot, f>>] \in Nat /\ durable[<<Boot, f>>] <= Len(log[f])
      BY <1>0, MembersAssumption DEF TypeOK, SessionTypes, Watermarks
    <3>4. Max2(durable[<<Boot, f>>], conn[f].up.durable) <= Len(log[f])
      BY <3>1, <3>3 DEF Max2
    <3>5. ASSUME NEW g \in Member PROVE durable'[<<Boot, g>>] <= Len(log[g])
      <4>1. CASE g = f
        BY <4>1, <3>2, <3>3, <3>4, MembersAssumption DEF TypeOK, SessionTypes
      <4>2. CASE g # f
        BY <4>2, <3>2, <1>0, MembersAssumption DEF TypeOK, SessionTypes, Watermarks
      <4> QED BY <4>1, <4>2
    <3>6. listed' = listed
      BY <1>25 DEF ReceiveAck
    <3> QED BY <1>0, <2>1, <3>5, <3>6 DEF Watermarks
  <2>6. won = {} => BootLeads'
    BY <1>0, <2>1 DEF BootLeads
  <2> QED BY <2>1, <2>5, <2>6, <2>7, <2>8, <2>10, <2>9, SessionStep
<1>26. ASSUME NEW m \in Member, Crash(m) PROVE QuorumInv'
  <2>1. /\ role' = [role EXCEPT ![m] = "down"] /\ admitted' = admitted \ {m}
        /\ UNCHANGED <<log, acked, won>>
    BY <1>26 DEF Crash
  <2>2. /\ listed' = {p \in listed : p[1] # m}
        /\ durable' = [p \in Member \X Member |-> IF p[1] = m THEN 0 ELSE durable[p]]
    BY <1>26 DEF Crash
  <2>3. conn' = [f \in Member |->
          IF f = m THEN NoConn
          ELSE IF conn[f].to = m THEN [conn[f] EXCEPT !.st = "closed", !.up = NoMsg]
          ELSE conn[f]]
    BY <1>26 DEF Crash
  <2>4. ASSUME NEW f \in Member
        PROVE  \/ conn'[f] = NoConn \/ conn'[f] = conn[f]
               \/ /\ conn'[f].st = "closed" /\ conn'[f].to = conn[f].to
                  /\ conn'[f].down = conn[f].down /\ conn'[f].up = NoMsg /\ conn[f].st # "none"
    <3>1. CASE f = m
      BY <2>3, <3>1, Zenon
    <3>2. CASE f # m /\ conn[f].to # m
      BY <2>3, <3>2, Zenon
    <3>3. CASE f # m /\ conn[f].to = m
      <4>1. conn'[f] = [conn[f] EXCEPT !.st = "closed", !.up = NoMsg]
        BY <2>3, <3>3, Zenon
      <4>2. conn[f].st # "none"
        BY <3>3, <1>0, MembersAssumption DEF Conn, NoConn
      <4> QED BY <4>1, <4>2, <1>0, ConnFields
    <3> QED BY <3>1, <3>2, <3>3
  <2>5. Dialled'
    BY <2>1, <2>4, <1>0, NoConnFromBoot DEF Dialled
  <2>6. ASSUME won = {} PROVE BootLeads' /\ Frames' /\ Watermarks' /\ Copies' /\ OnQuorum'
    <3>1. BootLeads'
      BY <2>1, <2>6, <1>0 DEF BootLeads, TypeOK, StandingTypes
    <3>2. ASSUME NEW f \in Member PROVE FromBoot(f, conn'[f])
      BY <2>4, <2>6, <1>0, NoConnFromBoot DEF Frames, FromBoot
    <3>3. Frames'
      BY <2>1, <3>2 DEF Frames, FromBoot
    <3>4. listed' \subseteq listed /\ \A p \in Member \X Member : durable'[p] = durable[p] \/ durable'[p] = 0
      BY <2>2
    <3>5. Watermarks'
      BY <2>1, <2>6, <3>4, <1>0, MembersAssumption DEF Watermarks
    <3>6. Copies'
      BY <2>1, <2>6, <1>0 DEF Copies
    <3>7. OnQuorum'
      BY <2>1, <2>6, <1>0 DEF OnQuorum, Holds
    <3> QED BY <3>1, <3>3, <3>5, <3>6, <3>7
  <2> QED BY <2>1, <2>5, <2>6 DEF QuorumInv
<1>27. ASSUME NEW m \in Member, Commit(m) PROVE QuorumInv'
  <2>1. /\ admitted' \subseteq admitted /\ UNCHANGED <<role, conn, listed, durable, acked, won>>
        /\ log' = [log EXCEPT ![m] = Append(@, [epoch |-> logEpoch[m], tx |-> txs + 1])]
    BY <1>27 DEF Commit
  <2>2. [epoch |-> logEpoch[m], tx |-> txs + 1] \in Entry
    BY DEF Entry, TypeOK, StandingTypes, WriteTypes
  <2>3. ASSUME NEW n \in Member
        PROVE  Grows(n) /\ (n # m => log'[n] = log[n]) /\ Len(log'[n]) \in Nat
    <3>1. log'[n] = IF n = m THEN Append(log[n], [epoch |-> logEpoch[m], tx |-> txs + 1]) ELSE log[n]
      BY <2>1 DEF TypeOK, DiskTypes
    <3> QED BY <3>1, <2>2, <1>0 DEF Grows
  <2>4. Dialled'
    <3> SUFFICES ASSUME NEW f \in Member
                 PROVE  /\ conn[f].st # "none" => conn[f].to # f
                        /\ conn[f].st = "hello" => conn[f].sent <= Len(log'[f])
      BY <2>1 DEF Dialled
    <3>1. conn[f].st = "hello" => conn[f].sent \in Nat /\ conn[f].sent <= Len(log[f])
      BY <1>0, ConnTypes DEF Dialled
    <3>2. Len(log[f]) <= Len(log'[f]) /\ Len(log'[f]) \in Nat /\ Len(log[f]) \in Nat
      BY <2>3, <1>0 DEF Grows
    <3> QED BY <3>1, <3>2, <1>0 DEF Dialled
  <2>5. ASSUME won = {} PROVE BootLeads' /\ Frames' /\ Watermarks' /\ Copies' /\ OnQuorum'
    <3>0. m = Boot
      BY <1>27, <2>5, PrimaryIsBoot DEF Commit
    <3>1. BootLeads'
      BY <2>1, <2>5, <1>0 DEF BootLeads
    <3>2. ASSUME NEW f \in Member PROVE FromBoot(f, conn[f])'
      <4>1. FromBoot(f, conn[f])
        BY <2>5, <1>0 DEF Frames
      <4>2. conn'[f] = conn[f] /\ Grows(f) /\ Grows(Boot)
        BY <2>1, <2>3, MembersAssumption
      <4>3. conn[f].up \in Up
        BY <1>0, FrameTypes DEF Conn, NoConn
      <4>4. conn[f].up # NoMsg => conn[f].up.durable <= Len(log[f]) /\ conn[f].up.durable \in Nat
        BY <4>1, <4>3, FrameTypes DEF FromBoot
      <4>5. /\ Len(log[f]) <= Len(log'[f]) /\ Len(log[f]) \in Nat /\ Len(log'[f]) \in Nat
            /\ Len(log[Boot]) <= Len(log'[Boot]) /\ Len(log[Boot]) \in Nat /\ Len(log'[Boot]) \in Nat
        BY <4>2, <2>3, <1>0, MembersAssumption DEF Grows
      <4>6. conn[f].up # NoMsg => conn[f].up.durable <= Len(log'[f])
        BY <4>4, <4>5
      <4>7. ASSUME conn[f].down.type = "batch"
            PROVE  /\ f # Boot /\ conn[f].down.tx_id \in 1..Len(log'[Boot])
                   /\ conn[f].down.entry = log'[Boot][conn[f].down.tx_id]
        <5>1. /\ f # Boot /\ conn[f].down.tx_id \in 1..Len(log[Boot])
              /\ conn[f].down.entry = log[Boot][conn[f].down.tx_id]
          BY <4>1, <4>7 DEF FromBoot
        <5>2. log'[Boot][conn[f].down.tx_id] = log[Boot][conn[f].down.tx_id]
          BY <5>1, <4>2 DEF Grows
        <5> QED BY <5>1, <5>2, <4>5
      <4> QED BY <4>1, <4>2, <4>6, <4>7 DEF FromBoot
    <3>3. Frames'
      BY <3>2 DEF Frames
    <3>4. Watermarks'
      BY <2>1, <2>3, <2>5, <1>0, MembersAssumption DEF Watermarks, Grows, TypeOK, SessionTypes
    <3>5. Copies'
      <4> SUFFICES ASSUME NEW f \in Member
                   PROVE  /\ Len(log'[f]) <= Len(log'[Boot])
                          /\ \A i \in 1..Len(log'[f]) : log'[f][i].tx = log'[Boot][i].tx
        BY DEF Copies
      <4>1. CASE f = Boot
        BY <4>1, <2>3
      <4>2. CASE f # Boot
        BY <4>2, <3>0, <2>3, <2>5, <1>0, MembersAssumption DEF Copies, Grows
      <4> QED BY <4>1, <4>2
    <3>6. OnQuorum'
      BY <2>1, <2>3, <2>5, <1>0, QuorumGrows
    <3> QED BY <3>1, <3>3, <3>4, <3>5, <3>6
  <2> QED BY <2>1, <2>4, <2>5 DEF QuorumInv
<1>28. ASSUME NEW f \in Member, ReceiveBatch(f) PROVE QuorumInv'
  <2> DEFINE msg == conn[f].down
             x == [epoch |-> logEpoch'[f], tx |-> msg.entry.tx]
  <2>1. UNCHANGED <<role, admitted, listed, durable, acked, won>>
    BY <1>28 DEF ReceiveBatch
  <2>2. msg # NoMsg /\ msg.type = "batch"
    BY <1>28 DEF ReceiveBatch, NoMsg
  <2>3. msg.tx_id \in Nat /\ msg.entry \in Entry /\ msg.entry.tx \in Nat
    BY <2>2, <1>0, ConnTypes, FrameTypes DEF Entry
  <2>4. \/ log' = log /\ conn' = [conn EXCEPT ![f] = NoConn]
        \/ /\ log' = [log EXCEPT ![f] = Append(@, x)] /\ msg.tx_id = Len(log[f]) + 1
           /\ conn' = [conn EXCEPT ![f] = [@ EXCEPT !.down = NoMsg]]
    BY <1>28 DEF ReceiveBatch, Leave, Close, Received
  <2>5. CASE log' = log /\ conn' = [conn EXCEPT ![f] = NoConn]
    <3>1. conn'[f] = NoConn /\ \A g \in Member \ {f} : conn'[g] = conn[g]
      BY <2>5, <1>0
    <3> QED BY <2>1, <2>5, <3>1, FrameStep, NoConnFromBoot
  <2>6. CASE /\ log' = [log EXCEPT ![f] = Append(@, x)] /\ msg.tx_id = Len(log[f]) + 1
             /\ conn' = [conn EXCEPT ![f] = [@ EXCEPT !.down = NoMsg]]
    <3>1. x \in Entry
      BY <2>3 DEF Entry, TypeOK, StandingTypes
    <3>2. /\ \A g \in Member \ {f} : conn'[g] = conn[g]
          /\ conn'[f].st = conn[f].st /\ conn'[f].to = conn[f].to /\ conn'[f].up = conn[f].up
          /\ conn'[f].down = NoMsg /\ conn'[f].sent = conn[f].sent
      <4>1. conn'[f] = [conn[f] EXCEPT !.down = NoMsg]
        BY <2>6, <1>0
      <4> QED BY <4>1, <2>2, <2>6, <1>0, ConnFields
    <3>3. ASSUME NEW n \in Member
          PROVE  Grows(n) /\ (n # f => log'[n] = log[n]) /\ Len(log'[n]) \in Nat
      <4>1. log'[n] = IF n = f THEN Append(log[n], x) ELSE log[n]
        BY <2>6 DEF TypeOK, DiskTypes
      <4> QED BY <4>1, <3>1, <1>0 DEF Grows
    <3>4. Len(log'[f]) = Len(log[f]) + 1 /\ log'[f][Len(log[f]) + 1] = x
      <4>1. log'[f] = Append(log[f], x)
        BY <2>6 DEF TypeOK, DiskTypes
      <4> QED BY <4>1, <3>1, <1>0
    <3>5. Dialled'
      <4> SUFFICES ASSUME NEW g \in Member
                   PROVE  /\ conn[g].st # "none" => conn[g].to # g
                          /\ conn[g].st = "hello" => conn[g].sent <= Len(log'[g])
        BY <3>2 DEF Dialled
      <4>1. conn[g].st = "hello" => conn[g].sent \in Nat /\ conn[g].sent <= Len(log[g])
        BY <1>0, ConnTypes DEF Dialled
      <4>2. Len(log[g]) <= Len(log'[g]) /\ Len(log'[g]) \in Nat /\ Len(log[g]) \in Nat
        BY <3>3, <1>0 DEF Grows
      <4> QED BY <4>1, <4>2, <1>0 DEF Dialled
    <3>6. ASSUME won = {} PROVE BootLeads' /\ Frames' /\ Watermarks' /\ Copies' /\ OnQuorum'
      <4>1. f # Boot /\ msg.tx_id \in 1..Len(log[Boot]) /\ msg.entry = log[Boot][msg.tx_id]
        BY <2>2, <3>6, <1>0 DEF Frames, FromBoot
      <4>2. log'[Boot] = log[Boot]
        BY <4>1, <3>3, MembersAssumption
      <4>3. BootLeads'
        BY <2>1, <3>6, <1>0 DEF BootLeads
      <4>4. ASSUME NEW g \in Member PROVE FromBoot(g, conn[g])'
        <5>1. FromBoot(g, conn[g]) /\ conn[g] \in Conn
          BY <3>6, <1>0 DEF Frames
        <5>2. /\ conn'[g].st = conn[g].st /\ conn'[g].to = conn[g].to /\ conn'[g].up = conn[g].up
              /\ conn'[g].down = conn[g].down \/ conn'[g].down = NoMsg
          BY <3>2
        <5>3. conn[g].up \in Up
          BY <5>1, FrameTypes DEF Conn, NoConn
        <5>4. conn[g].up # NoMsg => conn[g].up.durable <= Len(log[g]) /\ conn[g].up.durable \in Nat
          BY <5>1, <5>3, FrameTypes DEF FromBoot
        <5>5. Len(log[g]) <= Len(log'[g]) /\ Len(log[g]) \in Nat /\ Len(log'[g]) \in Nat
          BY <3>3, <1>0 DEF Grows
        <5>6. conn'[g].up # NoMsg => conn'[g].up.durable <= Len(log'[g])
          BY <5>2, <5>4, <5>5
        <5> QED BY <5>1, <5>2, <5>6, <4>2 DEF FromBoot, NoMsg
      <4>5. Frames'
        BY <4>4 DEF Frames
      <4>6. Watermarks'
        BY <2>1, <3>3, <3>6, <1>0, MembersAssumption DEF Watermarks, Grows, TypeOK, SessionTypes
      <4>7. Copies'
        <5> SUFFICES ASSUME NEW g \in Member
                     PROVE  /\ Len(log'[g]) <= Len(log[Boot])
                            /\ \A i \in 1..Len(log'[g]) : log'[g][i].tx = log[Boot][i].tx
          BY <4>2 DEF Copies
        <5>1. CASE g # f
          BY <5>1, <3>3, <3>6, <1>0 DEF Copies
        <5>2. CASE g = f
          <6>1. Len(log[f]) + 1 <= Len(log[Boot]) /\ x.tx = log[Boot][Len(log[f]) + 1].tx
            BY <4>1, <2>6, <1>0, MembersAssumption
          <6>2. \A i \in 1..Len(log[f]) : log'[f][i].tx = log[Boot][i].tx
            BY <3>3, <3>6, <1>0 DEF Copies, Grows
          <6> QED BY <5>2, <6>1, <6>2, <3>4, <1>0
        <5> QED BY <5>1, <5>2
      <4>8. OnQuorum'
        BY <2>1, <3>3, <3>6, <1>0, QuorumGrows
      <4> QED BY <4>3, <4>5, <4>6, <4>7, <4>8
    <3> QED BY <2>1, <3>5, <3>6 DEF QuorumInv
  <2> QED BY <2>4, <2>5, <2>6
<1>29. ASSUME BarrierPass PROVE QuorumInv'
  <2> DEFINE i == call.tx_id
             a == <<i, log[Boot][i].tx>>
             H == {m \in Member : Holds(m, a)}
  <2>1. /\ UNCHANGED <<role, admitted, conn, listed, durable, log, won>> /\ acked' = acked \cup {a}
        /\ Cardinality(Holders(Boot, i)) >= Majority - 1
    BY <1>29 DEF BarrierPass
  <2>2. i \in 1..Len(log[Boot]) /\ i \in Nat
    BY <1>29, <1>0, MembersAssumption DEF BarrierPass, TypeOK, WriteTypes
  <2>3. Dialled'
    BY <2>1, <1>0 DEF Dialled
  <2>4. ASSUME won = {} PROVE BootLeads' /\ Frames' /\ Watermarks' /\ Copies' /\ OnQuorum'
    <3>1. BootLeads' /\ Watermarks' /\ Copies'
      BY <2>1, <2>4, <1>0 DEF BootLeads, Watermarks, Copies
    <3>2. Frames'
      BY <2>1, <2>4, <1>0 DEF Frames, FromBoot
    <3>3. ASSUME NEW f \in Holders(Boot, i) PROVE f \in H /\ f # Boot
      <4>1. f \in Member /\ <<Boot, f>> \in listed /\ durable[<<Boot, f>>] >= i
        BY DEF Holders
      <4>2. f # Boot /\ durable[<<Boot, f>>] <= Len(log[f]) /\ durable[<<Boot, f>>] \in Nat
        BY <4>1, <2>4, <1>0, MembersAssumption DEF Watermarks, TypeOK, SessionTypes
      <4>3. i \in 1..Len(log[f])
        BY <4>1, <4>2, <2>2, <1>0
      <4>4. log[f][i].tx = log[Boot][i].tx
        BY <4>1, <4>3, <2>4, <1>0 DEF Copies
      <4> QED BY <4>1, <4>2, <4>3, <4>4, <1>0 DEF Holds
    <3>4. Boot \in H
      BY <2>2, <1>0, MembersAssumption DEF Holds
    <3>5. /\ Holders(Boot, i) \cup {Boot} \subseteq H /\ H \subseteq Member
          /\ Holders(Boot, i) \subseteq Member /\ Boot \notin Holders(Boot, i)
      BY <3>3, <3>4 DEF Holders
    <3>6. IsFiniteSet(Holders(Boot, i)) /\ IsFiniteSet(H)
      BY <3>5, MembersAssumption, FS_Subset
    <3>7. Cardinality(Holders(Boot, i) \cup {Boot}) = Cardinality(Holders(Boot, i)) + 1
      BY <3>5, <3>6, FS_AddElement
    <3>8. Cardinality(Holders(Boot, i) \cup {Boot}) <= Cardinality(H)
      BY <3>5, <3>6, FS_Subset
    <3>9. Cardinality(Holders(Boot, i)) \in Nat /\ Cardinality(H) \in Nat /\ Majority \in Nat
      BY <3>6, MembersAssumption, FS_CardinalityType DEF Majority
    <3>10. Cardinality(H) >= Majority
      BY <2>1, <3>7, <3>8, <3>9
    <3>11. OnQuorum'
      <4> SUFFICES ASSUME NEW b \in acked \cup {a}
                   PROVE  /\ b[1] \in 1..Len(log[Boot])
                          /\ Cardinality({m \in Member : Holds(m, b)}) >= Majority
        BY <2>1 DEF OnQuorum, Holds
      <4>1. CASE b \in acked
        BY <4>1, <2>4, <1>0 DEF OnQuorum
      <4>2. CASE b = a
        BY <4>2, <2>2, <3>10
      <4> QED BY <4>1, <4>2
    <3> QED BY <3>1, <3>2, <3>11
  <2> QED BY <2>1, <2>3, <2>4 DEF QuorumInv
<1>30. CASE UNCHANGED vars
  BY <1>30, QuorumFrame DEF vars, qvars
<1> QED BY <1>1, <1>2, <1>3, <1>4, <1>5, <1>6, <1>7, <1>8, <1>9, <1>10, <1>11, <1>12, <1>13, <1>14, <1>15, <1>16, <1>17, <1>18, <1>19, <1>20, <1>21, <1>22, <1>23, <1>24, <1>25, <1>26, <1>27, <1>28, <1>29, <1>30
        DEF Next, Writing, Streaming, Electing, Failing

\* Until a failover a transaction the semi-sync barrier acknowledged stays on a
\* majority of the disks, for any number of members, sessions and crashes
\* (visibility_barrier, ReplicationPrimary::ack, accept).
THEOREM QuorumStaysHeld == Spec => []QuorumHeld
<1>1. Init => QuorumInv
  BY QuorumInit
<1>2. TypeOK /\ TypeOK' /\ QuorumInv /\ [Next]_vars => QuorumInv'
  BY QuorumStep
<1>3. QuorumInv => QuorumHeld
  BY DEF QuorumInv, OnQuorum, QuorumHeld
<1> QED BY <1>1, <1>2, <1>3, ReplicaTypes, PTL DEF Spec
=============================================================================
