-------------------------------- MODULE Raft --------------------------------
(***************************************************************************)
(* The consensus library of package raft: elections, log replication,      *)
(* log compaction, the persister, and crash and restart.                   *)
(*                                                                         *)
(* Every handler, and every section of a goroutine that runs under rf.mu,  *)
(* is one action.  A remote call is three steps (the request is made, the  *)
(* handler runs, the caller handles the response) and may be lost at any   *)
(* of them: net/rpc delivers a request at most once, does not retry it,    *)
(* and orders neither requests nor responses of different goroutines.      *)
(*                                                                         *)
(* The slice rf.logs is the record logs[i]: its first, dummy, entry is the *)
(* pair (index, term), the rest is the sequence entries, so the entry with *)
(* Index k is entries[k - index].  The Index field itself is not kept.     *)
(*                                                                         *)
(* The election and heartbeat timers are untimed: a timeout may happen at  *)
(* any moment.  A leader's own election timeout is one of these: ticker    *)
(* may have taken the tick and be waiting for rf.mu while the last vote is *)
(* counted.                                                                *)
(***************************************************************************)
EXTENDS Integers, Sequences, FiniteSets, FiniteSetsExt

CONSTANTS Server,      \* rf.peers: the nodes of one Raft group
          Value,       \* the commands the service hands to Start
          Nil,         \* votedFor = -1
          SnapshotAt,  \* the log indexes at which the service snapshots
          MayCrash,    \* bound: the nodes that may crash and restart
          MaxElections,\* bound: elections started, over all nodes and terms
          MaxIndex,    \* bound: no command is accepted beyond this index
          MaxInFlight  \* bound: replication requests and responses on the wire

ASSUME ServerAssumption == IsFiniteSet(Server) /\ Nil \notin Server
ASSUME BoundAssumption ==
  /\ MaxElections \in Nat /\ MaxIndex \in Nat /\ MaxInFlight \in Nat
  /\ SnapshotAt \subseteq Nat /\ MayCrash \subseteq Server

VARIABLES
  state,         \* rf.state
  currentTerm,   \* rf.currentTerm
  votedFor,      \* rf.votedFor
  logs,          \* rf.logs
  commitIndex,   \* rf.commitIndex
  nextIndex,     \* rf.nextIndex
  matchIndex,    \* rf.matchIndex
  grantedVotes,  \* the closure variable of the running StartElection
  persister,     \* rf.persister: raftstate and snapshot
  applyCh,       \* snapshot messages that InstallSnapshot's goroutines still hold
  messages,      \* the requests and responses on the wire
  votes,         \* history: every vote ever granted, <<term, voter, candidate>>
  committed,     \* history: the entries a leader has ever found committed
  ledger,        \* history: by term, the whole log of who leads or led it
  acks           \* history: <<term, node, k, last>>, the node has stored the log
                 \*          of the term's leader up to k, and the last entry of
                 \*          its own log was then of term last

hardVars   == <<currentTerm, votedFor, logs>>
leaderVars == <<nextIndex, matchIndex>>
ledgerVars == <<ledger, acks>>
history    == <<votes, committed, ledgerVars>>
vars == <<state, hardVars, commitIndex, leaderVars, grantedVotes, persister,
          applyCh, messages, history>>

-----------------------------------------------------------------------------
(* Logs *)

Entry == [term : Nat, command : Value]
Logs  == [index : Nat, term : Nat, entries : Seq(Entry)]

\* getLastLog().Index; getFirstLog().Index is l.index
lastIndex(l) == l.index + Len(l.entries)

\* rf.logs[k - firstIndex].Term, for k in l.index .. lastIndex(l)
termAt(l, k) == IF k = l.index THEN l.term ELSE l.entries[k - l.index].term

entryAt(l, k) == l.entries[k - l.index]

\* The log without the entries up to and including index k.
dropThrough(l, k) == SubSeq(l.entries, k - l.index + 1, Len(l.entries))

\* The log l with the entries it has cut, which are the first ones committed.
wholeLog(l) ==
  [k \in 1..lastIndex(l) |-> IF k <= l.index THEN committed[k] ELSE entryAt(l, k)]

withEntries(l, entries) ==
  [index |-> l.index, term |-> l.term, entries |-> entries]

\* Mutant: the terms of the last entries are not compared.
isLogUpToDate_ByIndex(l, term, index) == index >= lastIndex(l)

\* A candidate's last entry is at least as recent as the voter's.
isLogUpToDate(l, term, index) ==
  LET lastTerm == termAt(l, lastIndex(l)) IN
  \/ term > lastTerm
  \/ term = lastTerm /\ index >= lastIndex(l)

\* Mutant: an entry at the index is enough.
matchLog_AnyTerm(l, term, index) == index <= lastIndex(l)

matchLog(l, term, index) == index <= lastIndex(l) /\ termAt(l, index) = term

\* The first entry of a request that the log lacks or contradicts.
isNewEntry(l, prev, entries, n) ==
  prev + n > lastIndex(l) \/ termAt(l, prev + n) # entries[n].term

newEntries(l, prev, entries) ==
  {n \in 1..Len(entries) : isNewEntry(l, prev, entries, n)}

\* Mutant: the request always replaces what follows prevLogIndex.
appendEntries_Truncating(l, prev, entries) ==
  withEntries(l, SubSeq(l.entries, 1, prev - l.index) \o entries)

\* The loop over request.Entries: from the first new entry on, the request
\* replaces the log; when no entry is new the log keeps its tail.
appendEntries(l, prev, entries) ==
  LET new == newEntries(l, prev, entries)
      first == Min(new)
  IN  IF new = {} THEN l
      ELSE withEntries(l, SubSeq(l.entries, 1, prev + first - 1 - l.index)
                            \o SubSeq(entries, first, Len(entries)))

\* The follower's answer to a mismatch at prev: k is the index before the run of
\* entries with the conflicting term, possibly one below the first index.
isConflictIndex(l, prev, k) ==
  /\ k >= l.index => termAt(l, k) # termAt(l, prev)
  /\ \A n \in (k + 1)..(prev - 1) : termAt(l, n) = termAt(l, prev)

\* The leader's use of that answer: just after its own last entry of the
\* conflicting term at or below prev, or else the index the follower gave.
backedUpNextIndex(l, prev, term, index) ==
  LET same == {k \in l.index..prev : term # -1 /\ termAt(l, k) = term}
  IN  IF same = {} THEN index
      ELSE 1 + Max(same)

isMajority(S) == 2 * Cardinality(S) > Cardinality(Server)

\* k = srt[n-(n/2+1)]: the highest index that a majority of match reaches.
isMajorityMatch(match, k) ==
  /\ isMajority({j \in Server : match[j] >= k})
  /\ ~isMajority({j \in Server : match[j] > k})

-----------------------------------------------------------------------------
(* Messages.  A response repeats what the caller's closure still knows of  *)
(* its request: the term of the request and the indexes it carried.        *)

VoteRequest ==
  [type : {"RequestVote"}, from : Server, to : Server, term : Nat,
   lastLogIndex : Nat, lastLogTerm : Nat]
VoteResponse ==
  [type : {"RequestVoteResponse"}, from : Server, to : Server, reqTerm : Nat,
   term : Nat, voteGranted : BOOLEAN]
AppendRequest ==
  [type : {"AppendEntries"}, from : Server, to : Server, term : Nat,
   prevLogIndex : Nat, prevLogTerm : Nat, leaderCommit : Nat,
   entries : Seq(Entry)]
AppendResponse ==
  [type : {"AppendEntriesResponse"}, from : Server, to : Server, reqTerm : Nat,
   prevLogIndex : Nat, nEntries : Nat, term : Nat, success : BOOLEAN,
   conflictTerm : Nat \cup {-1}, conflictIndex : Int]
SnapshotRequest ==
  [type : {"InstallSnapshot"}, from : Server, to : Server, term : Nat,
   lastIncludedIndex : Nat, lastIncludedTerm : Nat, data : Nat]
SnapshotResponse ==
  [type : {"InstallSnapshotResponse"}, from : Server, to : Server,
   reqTerm : Nat, lastIncludedIndex : Nat, term : Nat]

Message == VoteRequest \cup VoteResponse \cup AppendRequest
             \cup AppendResponse \cup SnapshotRequest \cup SnapshotResponse

\* The service's state is named by the index of the last entry it contains.
SnapshotMsg == [index : Nat, term : Nat, data : Nat]

HardState == [currentTerm : Nat, votedFor : Server \cup {Nil}, logs : Logs,
              snapshot : Nat]

isVoteMsg(m) == m.type \in {"RequestVote", "RequestVoteResponse"}

\* The caller still leads the term in which it sent the request.
isCurrentLeader(m) ==
  state[m.to] = "Leader" /\ currentTerm[m.to] = m.reqTerm

\* The replication traffic, without the responses no caller waits for.
replicationMsgs ==
  {m \in messages :
     \/ m.type \in {"AppendEntries", "InstallSnapshot"}
     \/ ~isVoteMsg(m) /\ isCurrentLeader(m)}

Reply(request, response) == messages' = (messages \ {request}) \cup {response}

-----------------------------------------------------------------------------
(* Persistence and changes of role *)

\* Mutant: votedFor is left out of the encoded state.
persist_WithoutVote(i) ==
  persister' = [persister EXCEPT ![i] =
                  [currentTerm |-> currentTerm'[i],
                   votedFor |-> persister[i].votedFor,
                   logs |-> logs'[i], snapshot |-> persister[i].snapshot]]

\* SaveRaftState(encodeState()), with the values the action has just assigned.
persist(i) ==
  persister' = [persister EXCEPT ![i] =
                  [currentTerm |-> currentTerm'[i], votedFor |-> votedFor'[i],
                   logs |-> logs'[i], snapshot |-> persister[i].snapshot]]

\* Mutant: only the state is saved, as by SaveRaftState.
persistWithSnapshot_StateOnly(i, data) == persist(i)

\* SaveStateAndSnapshot(encodeState(), snapshot)
persistWithSnapshot(i, data) ==
  persister' = [persister EXCEPT ![i] =
                  [currentTerm |-> currentTerm'[i], votedFor |-> votedFor'[i],
                   logs |-> logs'[i], snapshot |-> data]]

\* currentTerm, votedFor = term, -1 when the term is new.
adoptTerm(i, term) ==
  /\ currentTerm' = [currentTerm EXCEPT ![i] = term]
  /\ votedFor' = [votedFor EXCEPT
                    ![i] = IF term > currentTerm[i] THEN Nil ELSE @]

\* A response with a newer term: ChangeState(StateFollower), and persist().
stepDown(i, term) ==
  /\ state' = [state EXCEPT ![i] = "Follower"]
  /\ adoptTerm(i, term)
  /\ UNCHANGED logs
  /\ persist(i)

\* The history of the leader's log: l, from now on.
recordLog(term, l) ==
  ledger' = [t \in DOMAIN ledger \cup {term} |->
               IF t = term THEN wholeLog(l) ELSE ledger[t]]

\* ChangeState(StateLeader)
becomeLeader(i) ==
  /\ state' = [state EXCEPT ![i] = "Leader"]
  /\ nextIndex' = [nextIndex EXCEPT ![i] =
                     [j \in Server |-> lastIndex(logs[i]) + 1]]
  /\ matchIndex' = [matchIndex EXCEPT ![i] = [j \in Server |-> 0]]
  /\ recordLog(currentTerm[i], logs[i])

Init ==
  /\ state = [i \in Server |-> "Follower"]
  /\ currentTerm = [i \in Server |-> 0]
  /\ votedFor = [i \in Server |-> Nil]
  /\ logs = [i \in Server |-> [index |-> 0, term |-> 0, entries |-> <<>>]]
  /\ commitIndex = [i \in Server |-> 0]
  /\ matchIndex = [i \in Server |-> [j \in Server |-> 0]]
  /\ grantedVotes = [i \in Server |-> 0]
  /\ nextIndex = [i \in Server |-> [j \in Server |-> 1]]
  /\ persister = [i \in Server |->
       [currentTerm |-> 0, votedFor |-> Nil,
        logs |-> [index |-> 0, term |-> 0, entries |-> <<>>], snapshot |-> 0]]
  /\ applyCh = [i \in Server |-> {}]
  /\ messages = {}
  /\ votes = {}
  /\ committed = <<>>
  /\ ledger = [t \in {} |-> <<>>]
  /\ acks = {}

-----------------------------------------------------------------------------
(* Elections *)

\* ticker and StartElection: the term is raised, the node votes for itself
\* and one goroutine per peer asks for a vote.
ElectionTimeout(i) ==
  /\ Cardinality({v \in votes : v[2] = v[3]}) < MaxElections
  /\ state' = [state EXCEPT ![i] = "Candidate"]
  /\ currentTerm' = [currentTerm EXCEPT ![i] = @ + 1]
  /\ votedFor' = [votedFor EXCEPT ![i] = i]
  /\ UNCHANGED logs
  /\ persist(i)
  /\ grantedVotes' = [grantedVotes EXCEPT ![i] = 1]
  /\ votes' = votes \cup {<<currentTerm[i] + 1, i, i>>}
  /\ messages' = messages \cup
       [type : {"RequestVote"}, from : {i}, to : Server \ {i},
        term : {currentTerm[i] + 1}, lastLogIndex : {lastIndex(logs[i])},
        lastLogTerm : {termAt(logs[i], lastIndex(logs[i]))}]
  /\ UNCHANGED <<commitIndex, leaderVars, applyCh, committed, ledgerVars>>

voteResponse(m, term, granted) ==
  [type |-> "RequestVoteResponse", from |-> m.to, to |-> m.from,
   reqTerm |-> m.term, term |-> term, voteGranted |-> granted]

\* Mutant: votedFor is not consulted.
mustRefuse_IgnoringVote(m) == m.term < currentTerm[m.to]

\* The request is stale, or this term's vote is taken.
mustRefuse(m) ==
  \/ m.term < currentTerm[m.to]
  \/ m.term = currentTerm[m.to] /\ votedFor[m.to] \notin {Nil, m.from}

RefuseVote(m) ==
  /\ mustRefuse(m)
  /\ UNCHANGED <<state, hardVars, votes>>
  /\ Reply(m, voteResponse(m, currentTerm[m.to], FALSE))

\* The term is adopted, but the candidate's log is behind.
DenyVote(m) ==
  /\ ~mustRefuse(m)
  /\ ~isLogUpToDate(logs[m.to], m.lastLogTerm, m.lastLogIndex)
  /\ adoptTerm(m.to, m.term)
  /\ state' = [state EXCEPT ![m.to] =
                  IF m.term > currentTerm[m.to] THEN "Follower" ELSE @]
  /\ UNCHANGED <<logs, votes>>
  /\ Reply(m, voteResponse(m, m.term, FALSE))

GrantVote(m) ==
  /\ ~mustRefuse(m)
  /\ isLogUpToDate(logs[m.to], m.lastLogTerm, m.lastLogIndex)
  /\ currentTerm' = [currentTerm EXCEPT ![m.to] = m.term]
  /\ votedFor' = [votedFor EXCEPT ![m.to] = m.from]
  /\ state' = [state EXCEPT ![m.to] =
                  IF m.term > currentTerm[m.to] THEN "Follower" ELSE @]
  /\ votes' = votes \cup {<<m.term, m.to, m.from>>}
  /\ UNCHANGED logs
  /\ Reply(m, voteResponse(m, m.term, TRUE))

RequestVote(m) ==
  /\ m.type = "RequestVote"
  /\ RefuseVote(m) \/ DenyVote(m) \/ GrantVote(m)
  /\ persist(m.to)
  /\ UNCHANGED <<commitIndex, leaderVars, grantedVotes, applyCh, committed,
                 ledgerVars>>

\* Mutant: votes of the node's earlier elections count too.
isCurrentElection_AnyTerm(m) == state[m.to] = "Candidate"

\* The response belongs to the election that is still running.
isCurrentElection(m) ==
  currentTerm[m.to] = m.reqTerm /\ state[m.to] = "Candidate"

CountVote(m) ==
  /\ isCurrentElection(m) /\ m.voteGranted
  /\ grantedVotes' = [grantedVotes EXCEPT ![m.to] = @ + 1]
  /\ IF 2 * (grantedVotes[m.to] + 1) > Cardinality(Server)
     THEN becomeLeader(m.to)
     ELSE UNCHANGED <<state, leaderVars, ledger>>
  /\ UNCHANGED <<hardVars, persister>>

LoseElection(m) ==
  /\ isCurrentElection(m) /\ ~m.voteGranted /\ m.term > currentTerm[m.to]
  /\ stepDown(m.to, m.term)
  /\ UNCHANGED <<leaderVars, grantedVotes, ledger>>

IgnoreVoteResponse(m) ==
  /\ ~isCurrentElection(m) \/ (~m.voteGranted /\ m.term <= currentTerm[m.to])
  /\ UNCHANGED <<state, hardVars, leaderVars, grantedVotes, persister, ledger>>

HandleVoteResponse(m) ==
  /\ m.type = "RequestVoteResponse"
  /\ CountVote(m) \/ LoseElection(m) \/ IgnoreVoteResponse(m)
  /\ messages' = messages \ {m}
  /\ UNCHANGED <<commitIndex, applyCh, votes, committed, acks>>

-----------------------------------------------------------------------------
(* Replication *)

appendRequest(i, j, prev) ==
  [type |-> "AppendEntries", from |-> i, to |-> j, term |-> currentTerm[i],
   prevLogIndex |-> prev, prevLogTerm |-> termAt(logs[i], prev),
   leaderCommit |-> commitIndex[i], entries |-> dropThrough(logs[i], prev)]

\* Mutant: the snapshot is labelled with the term of its sender.
snapshotRequest_CurrentTerm(i, j) ==
  [type |-> "InstallSnapshot", from |-> i, to |-> j, term |-> currentTerm[i],
   lastIncludedIndex |-> logs[i].index, lastIncludedTerm |-> currentTerm[i],
   data |-> persister[i].snapshot]

snapshotRequest(i, j) ==
  [type |-> "InstallSnapshot", from |-> i, to |-> j, term |-> currentTerm[i],
   lastIncludedIndex |-> logs[i].index, lastIncludedTerm |-> logs[i].term,
   data |-> persister[i].snapshot]

\* All entries the peer is thought to lack, or the snapshot when some are gone.
replicationRequest(i, j) ==
  LET prev == nextIndex[i][j] - 1 IN
  IF prev < logs[i].index THEN snapshotRequest(i, j)
                          ELSE appendRequest(i, j, prev)

\* Run by a replicator that has found work and by every heartbeat.
ReplicateOneRound(i, j) ==
  /\ i # j /\ state[i] = "Leader"
  /\ Cardinality(replicationMsgs) < MaxInFlight
  /\ messages' = messages \cup {replicationRequest(i, j)}
  /\ UNCHANGED <<state, hardVars, commitIndex, leaderVars, grantedVotes,
                 persister, applyCh, history>>

\* Mutant: the number of entries is off by one.
appendResponse_OffByOne(m, term, success, cTerm, cIndex) ==
  [type |-> "AppendEntriesResponse", from |-> m.to, to |-> m.from,
   reqTerm |-> m.term, prevLogIndex |-> m.prevLogIndex,
   nEntries |-> Len(m.entries) - 1, term |-> term, success |-> success,
   conflictTerm |-> cTerm, conflictIndex |-> cIndex]

appendResponse(m, term, success, cTerm, cIndex) ==
  [type |-> "AppendEntriesResponse", from |-> m.to, to |-> m.from,
   reqTerm |-> m.term, prevLogIndex |-> m.prevLogIndex,
   nEntries |-> Len(m.entries), term |-> term, success |-> success,
   conflictTerm |-> cTerm, conflictIndex |-> cIndex]

\* Any request of the current or of a newer term makes its receiver a follower.
followLeader(m) ==
  /\ m.term >= currentTerm[m.to]
  /\ adoptTerm(m.to, m.term)
  /\ state' = [state EXCEPT ![m.to] = "Follower"]

RejectStaleAppend(m) ==
  /\ m.term < currentTerm[m.to]
  /\ UNCHANGED <<state, hardVars, commitIndex, acks>>
  /\ Reply(m, appendResponse(m, currentTerm[m.to], FALSE, 0, 0))

\* The entry at prevLogIndex is compacted: Term 0 is all the leader learns.
RejectCompactedAppend(m) ==
  /\ followLeader(m)
  /\ m.prevLogIndex < logs[m.to].index
  /\ UNCHANGED <<logs, commitIndex, acks>>
  /\ Reply(m, appendResponse(m, 0, FALSE, 0, 0))

RejectConflictingAppend(m) ==
  LET l == logs[m.to] IN
  /\ followLeader(m)
  /\ m.prevLogIndex >= l.index
  /\ ~matchLog(l, m.prevLogTerm, m.prevLogIndex)
  /\ UNCHANGED <<logs, commitIndex, acks>>
  /\ \/ /\ m.prevLogIndex > lastIndex(l)
        /\ Reply(m, appendResponse(m, m.term, FALSE, -1, lastIndex(l) + 1))
     \/ /\ m.prevLogIndex <= lastIndex(l)
        /\ \E k \in (l.index - 1)..(m.prevLogIndex - 1) :
             /\ isConflictIndex(l, m.prevLogIndex, k)
             /\ Reply(m, appendResponse(m, m.term, FALSE,
                                        termAt(l, m.prevLogIndex), k))

AcceptAppend(m) ==
  LET l == logs[m.to]
      new == appendEntries(l, m.prevLogIndex, m.entries)
  IN
  /\ followLeader(m)
  /\ m.prevLogIndex >= l.index
  /\ matchLog(l, m.prevLogTerm, m.prevLogIndex)
  /\ logs' = [logs EXCEPT ![m.to] = new]
  /\ commitIndex' = [commitIndex EXCEPT ![m.to] =
                       Max({@, Min({m.leaderCommit, lastIndex(new)})})]
  /\ Reply(m, appendResponse(m, m.term, TRUE, 0, 0))
  /\ acks' = acks \cup {<<m.term, m.to, m.prevLogIndex + Len(m.entries),
                          termAt(new, lastIndex(new))>>}

AppendEntries(m) ==
  /\ m.type = "AppendEntries"
  /\ \/ RejectStaleAppend(m)
     \/ RejectCompactedAppend(m)
     \/ RejectConflictingAppend(m)
     \/ AcceptAppend(m)
  /\ persist(m.to)
  /\ UNCHANGED <<leaderVars, grantedVotes, applyCh, votes, committed, ledger>>

\* The entries up to k, of which the first Len(committed) are known.
recordCommit(l, k) ==
  committed' = IF k <= Len(committed) THEN committed
               ELSE committed \o SubSeq(l.entries, Len(committed) - l.index + 1,
                                        k - l.index)

\* Mutant: entries of earlier terms are committed by counting replicas.
isCommittable_AnyTerm(i, k) == k > commitIndex[i]

\* A leader commits by counting replicas only an entry of its own term.
isCommittable(i, k) ==
  k > commitIndex[i] /\ matchLog(logs[i], currentTerm[i], k)

advanceCommitIndexForLeader(i) ==
  \E k \in {matchIndex'[i][j] : j \in Server} :
    /\ isMajorityMatch(matchIndex'[i], k)
    /\ IF isCommittable(i, k)
       THEN /\ commitIndex' = [commitIndex EXCEPT ![i] = k]
            /\ recordCommit(logs[i], k)
       ELSE UNCHANGED <<commitIndex, committed>>

\* Mutant: nextIndex is one too far.
setProgress_OffByOne(i, j, match) ==
  /\ matchIndex' = [matchIndex EXCEPT ![i][j] = match]
  /\ nextIndex' = [nextIndex EXCEPT ![i][j] = match + 2]

setProgress(i, j, match) ==
  /\ matchIndex' = [matchIndex EXCEPT ![i][j] = match]
  /\ nextIndex' = [nextIndex EXCEPT ![i][j] = match + 1]

\* Mutant: the peer is credited with the leader's log as it is now.
acknowledged_WholeLog(m) == lastIndex(logs[m.to])

\* What the request, not the leader's present log, brought the peer to.
acknowledged(m) == m.prevLogIndex + m.nEntries

AdvancePeer(m) ==
  /\ isCurrentLeader(m) /\ m.success
  /\ setProgress(m.to, m.from, acknowledged(m))
  /\ advanceCommitIndexForLeader(m.to)
  /\ UNCHANGED <<state, hardVars, persister>>

BackUpPeer(m) ==
  /\ isCurrentLeader(m) /\ ~m.success /\ m.term = currentTerm[m.to]
  /\ nextIndex' = [nextIndex EXCEPT ![m.to][m.from] =
       backedUpNextIndex(logs[m.to], m.prevLogIndex, m.conflictTerm,
                         m.conflictIndex)]
  /\ UNCHANGED <<state, hardVars, persister, commitIndex, matchIndex, committed>>

Depose(m) ==
  /\ isCurrentLeader(m) /\ ~m.success /\ m.term > currentTerm[m.to]
  /\ stepDown(m.to, m.term)
  /\ UNCHANGED <<leaderVars, commitIndex, committed>>

IgnoreAppendResponse(m) ==
  /\ ~isCurrentLeader(m) \/ (~m.success /\ m.term < currentTerm[m.to])
  /\ UNCHANGED <<state, hardVars, persister, leaderVars, commitIndex, committed>>

HandleAppendEntriesResponse(m) ==
  /\ m.type = "AppendEntriesResponse"
  /\ AdvancePeer(m) \/ BackUpPeer(m) \/ Depose(m) \/ IgnoreAppendResponse(m)
  /\ messages' = messages \ {m}
  /\ UNCHANGED <<grantedVotes, applyCh, votes, ledgerVars>>

\* Start: the service proposes a command.
Start(i, v) ==
  LET index == lastIndex(logs[i]) + 1 IN
  /\ state[i] = "Leader" /\ index <= MaxIndex
  /\ logs' = [logs EXCEPT ![i] = withEntries(@, Append(@.entries,
                [term |-> currentTerm[i], command |-> v]))]
  /\ setProgress(i, i, index)
  /\ UNCHANGED <<currentTerm, votedFor>>
  /\ persist(i)
  /\ recordLog(currentTerm[i], logs'[i])
  /\ acks' = acks \cup {<<currentTerm[i], i, index, currentTerm[i]>>}
  /\ UNCHANGED <<state, commitIndex, grantedVotes, applyCh, messages, votes,
                 committed>>

-----------------------------------------------------------------------------
(* Log compaction *)

\* The service has applied the log up to index and snapshots its state.  The
\* last guard only keeps the slice in range: IndexesInRange makes it redundant.
Snapshot(i, index) ==
  /\ logs[i].index < index /\ index <= commitIndex[i]
  /\ index <= lastIndex(logs[i])
  /\ logs' = [logs EXCEPT ![i] =
       [index |-> index, term |-> termAt(@, index),
        entries |-> dropThrough(@, index)]]
  /\ UNCHANGED <<currentTerm, votedFor>>
  /\ persistWithSnapshot(i, index)
  /\ UNCHANGED <<state, commitIndex, leaderVars, grantedVotes, applyCh,
                 messages, history>>

snapshotResponse(m) ==
  [type |-> "InstallSnapshotResponse", from |-> m.to, to |-> m.from,
   reqTerm |-> m.term, lastIncludedIndex |-> m.lastIncludedIndex,
   term |-> currentTerm[m.to]]

RejectStaleSnapshot(m) ==
  /\ m.term < currentTerm[m.to]
  /\ UNCHANGED <<state, hardVars, persister, applyCh>>

\* The snapshot is only handed to the service, by a goroutine of its own.
AcceptSnapshot(m) ==
  /\ followLeader(m)
  /\ UNCHANGED logs
  /\ persist(m.to)
  /\ applyCh' = [applyCh EXCEPT ![m.to] =
       IF m.lastIncludedIndex <= commitIndex[m.to] THEN @
       ELSE @ \cup {[index |-> m.lastIncludedIndex,
                     term |-> m.lastIncludedTerm, data |-> m.data]}]

InstallSnapshot(m) ==
  /\ m.type = "InstallSnapshot"
  /\ RejectStaleSnapshot(m) \/ AcceptSnapshot(m)
  /\ Reply(m, snapshotResponse(m))
  /\ UNCHANGED <<commitIndex, leaderVars, grantedVotes, history>>

\* Mutant: the snapshot is compared with the last one, not with commitIndex.
isOutdated_BySnapshot(i, p) == p.index <= logs[i].index

isOutdated(i, p) == p.index <= commitIndex[i]

\* The service has taken p from applyCh and asks to switch to it.
CondInstallSnapshot(i, p) ==
  /\ applyCh' = [applyCh EXCEPT ![i] = @ \ {p}]
  /\ IF isOutdated(i, p)
     THEN UNCHANGED <<logs, commitIndex, persister, currentTerm, votedFor>>
     ELSE /\ logs' = [logs EXCEPT ![i] =
               [index |-> p.index, term |-> p.term,
                entries |-> IF p.index > lastIndex(@) THEN <<>>
                            ELSE dropThrough(@, p.index)]]
          /\ commitIndex' = [commitIndex EXCEPT ![i] = p.index]
          /\ UNCHANGED <<currentTerm, votedFor>>
          /\ persistWithSnapshot(i, p.data)
  /\ UNCHANGED <<state, leaderVars, grantedVotes, messages, history>>

DeposeBySnapshot(m) ==
  /\ isCurrentLeader(m) /\ m.term > currentTerm[m.to]
  /\ stepDown(m.to, m.term)
  /\ UNCHANGED leaderVars

\* The peer counts as having the snapshot as soon as it has answered.
AdvancePeerToSnapshot(m) ==
  /\ isCurrentLeader(m) /\ m.term <= currentTerm[m.to]
  /\ setProgress(m.to, m.from, m.lastIncludedIndex)
  /\ UNCHANGED <<state, hardVars, persister>>

IgnoreSnapshotResponse(m) ==
  /\ ~isCurrentLeader(m)
  /\ UNCHANGED <<state, hardVars, persister, leaderVars>>

HandleInstallSnapshotResponse(m) ==
  /\ m.type = "InstallSnapshotResponse"
  /\ \/ DeposeBySnapshot(m)
     \/ AdvancePeerToSnapshot(m)
     \/ IgnoreSnapshotResponse(m)
  /\ messages' = messages \ {m}
  /\ UNCHANGED <<commitIndex, grantedVotes, applyCh, history>>

-----------------------------------------------------------------------------
(* Crashes and message loss *)

\* Make: readPersist takes the hard state from the persister p, all else is new.
Make(i, p) ==
  /\ logs' = [logs EXCEPT ![i] = p.logs]
  /\ commitIndex' = [commitIndex EXCEPT ![i] = p.logs.index]
  /\ matchIndex' = [matchIndex EXCEPT ![i] = [j \in Server |-> 0]]
  /\ nextIndex' = [nextIndex EXCEPT ![i] =
                     [j \in Server |-> lastIndex(p.logs) + 1]]
  /\ currentTerm' = [currentTerm EXCEPT ![i] = p.currentTerm]
  /\ votedFor' = [votedFor EXCEPT ![i] = p.votedFor]
  /\ grantedVotes' = [grantedVotes EXCEPT ![i] = 0]
  /\ applyCh' = [applyCh EXCEPT ![i] = {}]
  /\ state' = [state EXCEPT ![i] = "Follower"]

\* Kill, then Make with the same persister.
Restart(i) == Make(i, persister[i]) /\ UNCHANGED <<persister, messages, history>>

\* A lost message.  A vote message that is lost need not be dropped: it is one
\* that is never received.
Drop(m) ==
  /\ ~isVoteMsg(m)
  /\ messages' = messages \ {m}
  /\ UNCHANGED <<state, hardVars, commitIndex, leaderVars, grantedVotes,
                 persister, applyCh, history>>

Receive(m) ==
  \/ RequestVote(m)
  \/ HandleVoteResponse(m)
  \/ AppendEntries(m)
  \/ HandleAppendEntriesResponse(m)
  \/ InstallSnapshot(m)
  \/ HandleInstallSnapshotResponse(m)

Next ==
  \/ \E i \in Server : ElectionTimeout(i)
  \/ \E i \in MayCrash : Restart(i)
  \/ \E i, j \in Server : ReplicateOneRound(i, j)
  \/ \E i \in Server, v \in Value : Start(i, v)
  \/ \E i \in Server, index \in SnapshotAt : Snapshot(i, index)
  \/ \E i \in Server : \E p \in applyCh[i] : CondInstallSnapshot(i, p)
  \/ \E m \in messages : Receive(m) \/ Drop(m)

Spec == Init /\ [][Next]_vars

-----------------------------------------------------------------------------
(* Properties *)

\* Every variable has its type; the messages are ones the handlers expect.
TypeOK ==
  /\ state \in [Server -> {"Follower", "Candidate", "Leader"}]
  /\ currentTerm \in [Server -> Nat]
  /\ votedFor \in [Server -> Server \cup {Nil}]
  /\ logs \in [Server -> Logs]
  /\ commitIndex \in [Server -> Nat]
  /\ nextIndex \in [Server -> [Server -> Int]]
  /\ matchIndex \in [Server -> [Server -> Nat]]
  /\ grantedVotes \in [Server -> Nat]
  /\ persister \in [Server -> HardState]
  /\ applyCh \in [Server -> SUBSET SnapshotMsg]
  /\ messages \subseteq Message
  /\ votes \subseteq Nat \X Server \X Server
  /\ committed \in Seq(Entry)
  /\ DOMAIN ledger \subseteq Nat
  /\ \A t \in DOMAIN ledger : ledger[t] \in Seq(Entry)
  /\ acks \subseteq Nat \X Server \X Nat \X Nat

voters(term, candidate) == {j \in Server : <<term, j, candidate>> \in votes}

\* No two nodes can both collect the votes of a majority in one term, and
\* whoever leads a term did: RequestVote's checks, votedFor and its persistence
\* (raft_vote.go:15-29) and the count in StartElection (raft_election.go:29-37).
ElectionSafety ==
  /\ \A i \in Server : state[i] = "Leader" => isMajority(voters(currentTerm[i], i))
  /\ \A v, w \in votes :
       v[1] = w[1] /\ isMajority(voters(v[1], v[3])) /\ isMajority(voters(w[1], w[3]))
         => v[3] = w[3]

committedPrefix(l, k) == \A n \in (l.index + 1)..k : entryAt(l, n) = committed[n]

\* What any node may apply is what some leader found committed: no two nodes
\* ever hand different commands to their services for one index, across leader
\* changes, snapshots and restarts (advanceCommitIndexForLeader / ForFollower).
StateMachineSafety ==
  \A i \in Server :
    /\ commitIndex[i] <= Len(committed)
    /\ committedPrefix(logs[i], commitIndex[i])
    /\ logs[i].index > 0 => logs[i].term = committed[logs[i].index].term

\* Who is elected after a commit holds every committed entry: isLogUpToDate
\* against the majority that stored it, with the current-term commit rule.
LeaderCompleteness ==
  \A i \in Server :
    /\ state[i] = "Leader" /\ committed # <<>>
    /\ currentTerm[i] >= committed[Len(committed)].term
    => /\ lastIndex(logs[i]) >= Len(committed)
       /\ committedPrefix(logs[i], Len(committed))

\* Two logs that agree on the term at an index agree on everything before it:
\* the check of matchLog and the truncation in AppendEntries.
LogMatching ==
  \A i, j \in Server :
    LET first == Max({logs[i].index, logs[j].index})
        last  == Min({lastIndex(logs[i]), lastIndex(logs[j])})
    IN \A k \in (first + 1)..last :
         termAt(logs[i], k) = termAt(logs[j], k) =>
           \A n \in (first + 1)..k : entryAt(logs[i], n) = entryAt(logs[j], n)

\* Every index with which the handlers and the applier slice rf.logs is inside
\* it, or they would panic: commitIndex (raft.go:132), the leader's nextIndex
\* (raft_replication.go:71-77) and the prevLogIndex of an answer (:101).
IndexesInRange ==
  \A i \in Server :
    /\ logs[i].index <= commitIndex[i] /\ commitIndex[i] <= lastIndex(logs[i])
    /\ state[i] = "Leader" => \A j \in Server \ {i} :
         nextIndex[i][j] - 1 <= lastIndex(logs[i])
    /\ \A m \in messages :
         m.type = "AppendEntriesResponse" /\ m.to = i /\ isCurrentLeader(m)
           => m.prevLogIndex <= lastIndex(logs[i])

\* A crash at any moment loses nothing a node has promised, and the snapshot on
\* disk is the one the persisted log starts from.
Durable ==
  \A i \in Server :
    persister[i] = [currentTerm |-> currentTerm[i], votedFor |-> votedFor[i],
                    logs |-> logs[i], snapshot |-> logs[i].index]

\* A leader counts a replica, beyond its snapshot, only if the peer (unless it
\* has moved to a newer term) still stores the leader's entries up to there:
\* matchIndex is set from answers that arrive late and out of order.
MatchIndexSound ==
  \A i, j \in Server :
    LET k == matchIndex[i][j] IN
    /\ state[i] = "Leader" /\ k > logs[i].index
    /\ currentTerm[j] <= currentTerm[i]
    => /\ k <= lastIndex(logs[i]) /\ k <= lastIndex(logs[j])
       /\ \A n \in (logs[i].index + 1)..k :
            n > logs[j].index => entryAt(logs[i], n) = entryAt(logs[j], n)

\* A node's term never goes back, and within a term its vote is never changed:
\* what persist and readPersist preserve over a restart.
VoteOnce ==
  [][\A i \in Server :
       /\ currentTerm'[i] >= currentTerm[i]
       /\ currentTerm'[i] = currentTerm[i] /\ votedFor[i] # Nil
            => votedFor'[i] = votedFor[i]]_vars

\* What a node knows to be committed only shrinks by a restart, down to the
\* snapshot: no truncation and no installed snapshot takes an entry back.
CommittedStays ==
  [][\A i \in Server :
       \/ commitIndex'[i] >= commitIndex[i]
       \/ commitIndex'[i] = persister[i].snapshot /\ state'[i] = "Follower"]_vars

\* The log as the service sees it: what some leader has found committed, and of
\* it what each node knows, from its first entry up to its commitIndex.
knownEntries(i) == SubSeq(logs[i].entries, 1, commitIndex[i] - logs[i].index)

Replicated == INSTANCE ReplicatedLog WITH
  Node   <- Server,
  chosen <- committed,
  base   <- [i \in Server |-> logs[i].index],
  known  <- [i \in Server |-> knownEntries(i)]

\* The nodes together are one log that only grows, of which each knows a first
\* part: whoever is elected, whatever is truncated (AppendEntries), compacted
\* (Snapshot), installed (CondInstallSnapshot), or lost in a crash (Make).
ImplementsReplicatedLog == Replicated!Spec
=============================================================================
