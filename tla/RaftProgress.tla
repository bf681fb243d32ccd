---------------------------- MODULE RaftProgress ----------------------------
(***************************************************************************)
(* What keeps a Raft group moving while nobody crashes: the replicator     *)
(* goroutine a node has per peer, the heartbeats, and the monitor of the   *)
(* service that adds an empty entry when the log has none of the term.     *)
(*                                                                         *)
(* A replicator waits on a condition variable whose lock only it takes, so *)
(* a Signal between its check and its Wait is lost.                        *)
(***************************************************************************)
EXTENDS Raft

CONSTANTS EmptyEntry,  \* the command of the monitor
          MaxCommands  \* bound: clients propose nothing beyond this index

ASSUME EmptyEntryAssumption == EmptyEntry \in Value

VARIABLES
  replicator, \* what node i's replicator for peer j is about to do
  call        \* the request it has sent and waits for, or Nil

progressVars == <<vars, replicator, call>>

ProgressInit ==
  /\ Init
  /\ replicator = [i \in Server |-> [j \in Server |-> "check"]]
  /\ call = [i \in Server |-> [j \in Server |-> Nil]]

-----------------------------------------------------------------------------
(* The replicator of node i for peer j *)

goTo(i, j, step) == replicator' = [replicator EXCEPT ![i][j] = step]

needReplicating(i, j) ==
  state[i] = "Leader" /\ matchIndex[i][j] < lastIndex(logs[i])

Check(i, j) ==
  /\ replicator[i][j] = "check"
  /\ goTo(i, j, IF needReplicating(i, j) THEN "replicate" ELSE "wait")
  /\ UNCHANGED <<vars, call>>

Wait(i, j) ==
  /\ replicator[i][j] = "wait"
  /\ goTo(i, j, "asleep")
  /\ UNCHANGED <<vars, call>>

\* replicateOneRound up to the call.
Replicate(i, j) ==
  /\ replicator[i][j] = "replicate"
  /\ ReplicateOneRound(i, j)
  /\ goTo(i, j, "call")
  /\ call' = [call EXCEPT ![i][j] = replicationRequest(i, j)]

\* The node has lost its leadership since the check.
ReplicateNothing(i, j) ==
  /\ replicator[i][j] = "replicate" /\ state[i] # "Leader"
  /\ goTo(i, j, "check")
  /\ UNCHANGED <<vars, call>>

isResponseTo(r, m) ==
  /\ ~isVoteMsg(r) /\ r.from = m.to /\ r.to = m.from
  /\ \/ /\ r.type = "AppendEntriesResponse" /\ m.type = "AppendEntries"
        /\ <<r.reqTerm, r.prevLogIndex, r.nEntries>>
             = <<m.term, m.prevLogIndex, Len(m.entries)>>
     \/ /\ r.type = "InstallSnapshotResponse" /\ m.type = "InstallSnapshot"
        /\ <<r.reqTerm, r.lastIncludedIndex>> = <<m.term, m.lastIncludedIndex>>

\* The response has been handled, or the call has failed.
EndCall(i, j) ==
  /\ replicator[i][j] = "call"
  /\ call[i][j] \notin messages
  /\ \A r \in messages : ~isResponseTo(r, call[i][j])
  /\ goTo(i, j, "check")
  /\ call' = [call EXCEPT ![i][j] = Nil]
  /\ UNCHANGED vars

Replicator(i, j) ==
  \/ Check(i, j) \/ Wait(i, j) \/ Replicate(i, j) \/ ReplicateNothing(i, j)
  \/ EndCall(i, j)

-----------------------------------------------------------------------------
(* The service and the heartbeats *)

\* Start, with the Signal of BroadcastHeartbeat(false) to each replicator.
StartAndSignal(i, v) ==
  /\ Start(i, v)
  /\ replicator' = [replicator EXCEPT ![i] = [j \in Server |->
                      IF @[j] = "asleep" THEN "check" ELSE @[j]]]
  /\ UNCHANGED call

ClientStart(i, v) ==
  /\ lastIndex(logs[i]) < MaxCommands
  /\ StartAndSignal(i, v)

\* Mutant: any entry will do.
HasLogInCurrentTerm_AnyTerm(i) == logs[i].entries # <<>>

HasLogInCurrentTerm(i) == termAt(logs[i], lastIndex(logs[i])) = currentTerm[i]

\* checkEntryInCurrentTermAction
AddEmptyEntry(i) == ~HasLogInCurrentTerm(i) /\ StartAndSignal(i, EmptyEntry)

\* Mutant: a heartbeat carries no entries.
Heartbeat_Empty(i, j) ==
  /\ i # j /\ state[i] = "Leader"
  /\ Cardinality(replicationMsgs) < MaxInFlight
  /\ messages' = messages \cup
       {LET m == replicationRequest(i, j) IN
        IF m.type = "AppendEntries" THEN [m EXCEPT !.entries = <<>>] ELSE m}
  /\ UNCHANGED <<state, hardVars, commitIndex, leaderVars, grantedVotes,
                 persister, applyCh, history, replicator, call>>

\* BroadcastHeartbeat(true)
Heartbeat(i, j) == ReplicateOneRound(i, j) /\ UNCHANGED <<replicator, call>>

-----------------------------------------------------------------------------

OtherStep ==
  /\ \/ \E i \in Server : ElectionTimeout(i)
     \/ \E i \in Server, k \in SnapshotAt : Snapshot(i, k)
     \/ \E i \in Server : \E p \in applyCh[i] : CondInstallSnapshot(i, p)
     \/ \E m \in messages : Receive(m) \/ Drop(m)
  /\ UNCHANGED <<replicator, call>>

ProgressNext ==
  \/ \E i, j \in Server : i # j /\ Replicator(i, j)
  \/ \E i, j \in Server : Heartbeat(i, j)
  \/ \E i \in Server : AddEmptyEntry(i) \/ \E v \in Value \ {EmptyEntry} : ClientStart(i, v)
  \/ OtherStep

requestTypes  == {"AppendEntries", "InstallSnapshot"}
responseTypes == {"AppendEntriesResponse", "InstallSnapshotResponse"}

ReceiveOne(types, i, j) ==
  /\ \E m \in messages : m.type \in types /\ m.from = i /\ m.to = j /\ Receive(m)
  /\ UNCHANGED <<replicator, call>>

\* Goroutines run on and monitors and heartbeats come back.  Messages may be lost,
\* but of those that a node keeps sending to a peer some are received.  Nobody
\* has to start an election or a command, to snapshot, or to answer for a vote.
Fairness ==
  /\ \A i \in Server : WF_progressVars(AddEmptyEntry(i))
  /\ \A i, j \in Server : i # j =>
       /\ WF_progressVars(Heartbeat(i, j))
       /\ WF_progressVars(Replicator(i, j))
       /\ SF_progressVars(ReceiveOne(requestTypes, i, j))
       /\ SF_progressVars(ReceiveOne(responseTypes, i, j))

ProgressSpec == ProgressInit /\ [][ProgressNext]_progressVars /\ Fairness

-----------------------------------------------------------------------------
(* Properties *)

\* The follower has compacted the entry from which the leader would go on, and
\* the leader has not: the answer, Term 0, tells the leader nothing.
isStalled(i, j) ==
  logs[i].index < nextIndex[i][j] /\ nextIndex[i][j] <= logs[j].index

\* Once no new command comes, every peer of a leader has all of its log, unless
\* it is stalled: a wakeup that is lost, a response that is late or a request
\* that is lost only delays it (replicator, raft_replication.go:191-198).
PeersCatchUp ==
  <>[](\A i, j \in Server : i # j /\ needReplicating(i, j) => isStalled(i, j))

\* Once no new command comes, all of a leader's log is committed and its peers
\* know it, the entries of older terms that it may not count included
\* (raft_replication.go:156, server.go:613-617).
EntriesCommit ==
  <>[](\A i, j \in Server :
         state[i] = "Leader" /\ (\A k \in Server \ {i} : ~isStalled(i, k))
           => commitIndex[j] = lastIndex(logs[i]))

\* The peer is replicated to until it has caught up: "calls replicateOneRound
\* until the peer has caught up, then waits" (raft_replication.go:191-192).
NobodyStalls ==
  <>[](\A i, j \in Server : i # j => ~needReplicating(i, j))
=============================================================================
