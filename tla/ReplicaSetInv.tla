---------------------------- MODULE ReplicaSetInv ----------------------------
(* The inductive invariants behind OneWinnerPerEpoch, MarkerCoversLog and   *)
(* QuorumHeld.                                                              *)
EXTENDS ReplicaSet

\* Where the parts of a member can be: only a replica stands for election, and
\* without a session; a primary has none; only a live member answers.
Places ==
  \A m \in Member :
    /\ pc[m] # "idle" => role[m] = "replica"
    /\ pc[m] # "idle" \/ role[m] # "replica" => conn[m] = NoConn
    /\ answering[m] # NoAnswer => role[m] # "down" /\ answering[m].req.to = m
                                  /\ answering[m].req.from # m

\* No request is addressed to its sender; a response waits only for a candidate
\* that is asking, and a granted one is a vote in its round.
Messages ==
  /\ \A r \in reqs : r.from # r.to
  /\ \A r \in resps :
       /\ pc[r.to] = "asking" /\ r.from # r.to
       /\ r.granted => <<round[r.to], r.from, r.to>> \in votes

\* A candidate between its two writes of a self-ballot has it on disk.
SelfBallots ==
  \A c \in Member :
    pc[c] = "persisted" /\ c \notin clobbered =>
      vote[c].epoch > round[c] \/ vote[c] = SelfBallot(c)

\* One vote per voter and epoch.
VotesUnique ==
  \A w, x \in votes :
    w[1] = x[1] /\ w[2] = x[2] /\ w[2] \notin clobbered => w[3] = x[3]

Voters(e, c) == {v \in Member : <<e, v, c>> \in votes}

\* A candidate has voted for itself; a winner has a majority.
Backed ==
  /\ \A c \in Member : pc[c] = "asking" => <<round[c], c, c>> \in votes
  /\ \A c \in Member : pc[c] = "promoting" => Cardinality(Voters(round[c], c)) >= Majority
  /\ \A w \in won : Cardinality(Voters(w[1], w[2])) >= Majority

ElectionInv ==
  Places /\ Messages /\ SelfBallots /\ VotesRemembered /\ VotesUnique /\ Backed

\* A member's entries: in order of epoch, below the marker and, while the
\* process lives, the open log's epoch.
EntryEpochs(m) ==
  \A i \in 1..Len(log[m]) :
    /\ log[m][i].epoch <= epoch[m]
    /\ role[m] # "down" => log[m][i].epoch <= logEpoch[m]
    /\ \A j \in 1..i : log[m][j].epoch <= log[m][i].epoch

\* The marker, the open log's epoch and the service's, in every part a member
\* plays: a candidate proposes an epoch above its marker.
PartEpochs(m) ==
  /\ role[m] # "down" => logEpoch[m] <= epoch[m]
  /\ role[m] = "primary" => logEpoch[m] <= svcEpoch[m]
  /\ pc[m] \in {"proposed", "persisted", "asking"} => epoch[m] < round[m]
  /\ pc[m] = "promoting" => epoch[m] = round[m]
  /\ m \in admitted => role[m] # "down"

Epochs == \A m \in Member : EntryEpochs(m) /\ PartEpochs(m)

MarkerInv == Places /\ Epochs

\* What a connection of follower f may hold while Boot alone has led: an open
\* session is with Boot, a batch is Boot's entry at that place (a lost primary's
\* last frame too), an ack never promises more than f's log.
FromBoot(f, c) ==
  /\ c.st = "open" => c.to = Boot /\ f # Boot
  /\ c.down.type = "batch" =>
       /\ f # Boot /\ c.down.tx_id \in 1..Len(log[Boot])
       /\ c.down.entry = log[Boot][c.down.tx_id]
  /\ c.up # NoMsg => c.up.durable <= Len(log[f])

\* Nobody but Boot leads or commits.
BootLeads == \A m \in Member \ {Boot} : role[m] # "primary" /\ m \notin admitted

Frames == \A f \in Member : FromBoot(f, conn[f])

\* A session's watermark is not above the follower's log.
Watermarks ==
  \A f \in Member :
    durable[<<Boot, f>>] <= Len(log[f]) /\ (<<Boot, f>> \in listed => f # Boot)

\* Every log is a prefix of Boot's.
Copies ==
  \A f \in Member :
    /\ Len(log[f]) <= Len(log[Boot])
    /\ \A i \in 1..Len(log[f]) : log[f][i].tx = log[Boot][i].tx

OnQuorum ==
  \A a \in acked : /\ a[1] \in 1..Len(log[Boot])
                   /\ Cardinality({m \in Member : Holds(m, a)}) >= Majority

\* Nobody dials itself, and a hello does not promise more than the log.
Dialled ==
  \A f \in Member :
    /\ conn[f].st # "none" => conn[f].to # f
    /\ conn[f].st = "hello" => conn[f].sent <= Len(log[f])

QuorumInv ==
  /\ Dialled
  /\ won = {} => BootLeads /\ Frames /\ Watermarks /\ Copies /\ OnQuorum
=============================================================================
