----------------------------- MODULE RaftProofs -----------------------------
(***************************************************************************)
(* Elections are safe, for every number of servers and every bound: proofs *)
(* of ElectionSafety and VoteOnce of module Raft.                          *)
(*                                                                         *)
(* ElectionSafety is not inductive.  A candidate only knows how many       *)
(* responses it has counted, so the invariant ties that counter to the     *)
(* votes: each counted response stands for a voter of its own, because for *)
(* one election at most one message between candidate and voter is on the  *)
(* wire, and once its answer is counted there is none (Call is not retried *)
(* and net/rpc duplicates nothing).  And a node votes once per term because *)
(* every vote it ever cast is of an older term or is in votedFor, which a  *)
(* restart reads back.                                                     *)
(***************************************************************************)
EXTENDS Raft, TLAPS, FiniteSetTheorems

-----------------------------------------------------------------------------
(* The inductive invariant *)

\* The part of TypeOK that the elections depend on.
ElectionTypes ==
  /\ state \in [Server -> {"Follower", "Candidate", "Leader"}]
  /\ currentTerm \in [Server -> Nat]
  /\ votedFor \in [Server -> Server \cup {Nil}]
  /\ grantedVotes \in [Server -> Nat]
  /\ votes \subseteq Nat \X Server \X Server

MessageTypes ==
  \A m \in messages :
    /\ m.from \in Server /\ m.to \in Server /\ m.from # m.to
    /\ m.type \in {"RequestVote", "AppendEntries", "InstallSnapshot"}
         => m.term \in Nat
    /\ m.type \in {"RequestVoteResponse", "AppendEntriesResponse",
                   "InstallSnapshotResponse"}
         => m.term \in Nat /\ m.reqTerm \in Nat

\* What a restart reads back is what the node had.
HardStateSaved ==
  /\ logs = [i \in Server |-> logs[i]]
  /\ persister = [i \in Server |->
       [currentTerm |-> currentTerm[i], votedFor |-> votedFor[i],
        logs |-> logs[i], snapshot |-> persister[i].snapshot]]

\* Every vote is of an older term of its voter, or is the one in votedFor.
VotesRemembered ==
  \A v \in votes :
    /\ v[1] <= currentTerm[v[2]]
    /\ v[1] = currentTerm[v[2]] => v[3] = votedFor[v[2]]

OneVoteEach ==
  \A v, w \in votes : v[1] = w[1] /\ v[2] = w[2] => v[3] = w[3]

\* The candidate, the voter and the term a vote message is about.
exchange(m) == IF m.type = "RequestVote" THEN <<m.from, m.to, m.term>>
                                         ELSE <<m.to, m.from, m.reqTerm>>

OneMessageEach ==
  \A m, n \in messages :
    isVoteMsg(m) /\ isVoteMsg(n) /\ exchange(m) = exchange(n) => m = n

MessagesOfThePast ==
  \A m \in messages :
    isVoteMsg(m) => exchange(m)[3] <= currentTerm[exchange(m)[1]]

GrantsAreVotes ==
  \A m \in messages :
    m.type = "RequestVoteResponse" /\ m.voteGranted
      => <<m.reqTerm, m.from, m.to>> \in votes

\* The voters of i whose exchange with i is over.
counted(i) ==
  {j \in voters(currentTerm[i], i) :
     \A m \in messages : isVoteMsg(m) => exchange(m) # <<i, j, currentTerm[i]>>}

CountIsSound ==
  \A i \in Server :
    state[i] = "Candidate" => grantedVotes[i] <= Cardinality(counted(i))

LeadersAreElected ==
  \A i \in Server : state[i] = "Leader" => isMajority(voters(currentTerm[i], i))

ElectionInv ==
  /\ ElectionTypes
  /\ MessageTypes
  /\ HardStateSaved
  /\ VotesRemembered
  /\ OneVoteEach
  /\ OneMessageEach
  /\ MessagesOfThePast
  /\ GrantsAreVotes
  /\ CountIsSound
  /\ LeadersAreElected

-----------------------------------------------------------------------------
(* Majorities and counted votes *)

\* Two majorities of one group have a member in common.
LEMMA MajoritiesMeet ==
  ASSUME NEW S \in SUBSET Server, NEW T \in SUBSET Server,
         isMajority(S), isMajority(T)
  PROVE  S \cap T # {}
<1>1. /\ Cardinality(S) \in Nat
      /\ Cardinality(T) \in Nat
      /\ Cardinality(Server) \in Nat
  BY FS_Subset, FS_CardinalityType, ServerAssumption
<1>2. Cardinality(S) + Cardinality(T) > Cardinality(Server)
  BY <1>1 DEF isMajority
<1> QED
  BY <1>2, FS_MajoritiesIntersect, ServerAssumption

\* A set of servers that includes a majority is one.
LEMMA MajorityGrows ==
  ASSUME NEW S \in SUBSET Server, NEW T \in SUBSET Server,
         S \subseteq T, isMajority(S)
  PROVE  isMajority(T)
<1>1. IsFiniteSet(T) /\ IsFiniteSet(S)
  BY FS_Subset, ServerAssumption
<1>2. Cardinality(S) <= Cardinality(T)
  BY <1>1, FS_Subset
<1>3. /\ Cardinality(S) \in Nat
      /\ Cardinality(T) \in Nat
      /\ Cardinality(Server) \in Nat
  BY <1>1, FS_CardinalityType, ServerAssumption
<1> QED
  BY <1>2, <1>3 DEF isMajority

\* What a step does to a server that wins nothing by it: its term does not go
\* back, its vote stays while the term does, and if it is not made a follower
\* its candidacy or leadership is the one it had.
Demotes(i) ==
  /\ currentTerm'[i] >= currentTerm[i]
  /\ currentTerm'[i] = currentTerm[i] => votedFor'[i] = votedFor[i]
  /\ \/ state'[i] = "Follower"
     \/ /\ state'[i] = state[i] /\ currentTerm'[i] = currentTerm[i]
        /\ grantedVotes'[i] = grantedVotes[i]

\* The same of a voter, whose vote may be new.
Stays(i) ==
  /\ currentTerm'[i] >= currentTerm[i]
  /\ \/ state'[i] = "Follower"
     \/ /\ state'[i] = state[i] /\ currentTerm'[i] = currentTerm[i]
        /\ grantedVotes'[i] = grantedVotes[i]

\* Every exchange of votes on the wire was on the wire before.
NoNewExchange ==
  \A n \in messages' : isVoteMsg(n) =>
    \E m \in messages : isVoteMsg(m) /\ exchange(m) = exchange(n)

\* Counted voters and leaders' majorities survive a step in which votes are
\* only added and no exchange of votes begins.
LEMMA CountsSurvive ==
  ASSUME ElectionInv, ElectionTypes', MessageTypes', votes \subseteq votes',
         \A i \in Server : Stays(i), NoNewExchange
  PROVE  MessagesOfThePast' /\ CountIsSound' /\ LeadersAreElected'
<1> USE DEF ElectionInv
<1>1. MessagesOfThePast'
  <2> SUFFICES ASSUME NEW n \in messages', isVoteMsg(n)
               PROVE  exchange(n)[3] <= currentTerm'[exchange(n)[1]]
    BY DEF MessagesOfThePast, isVoteMsg, exchange
  <2>1. PICK m \in messages : isVoteMsg(m) /\ exchange(m) = exchange(n)
    BY DEF NoNewExchange
  <2>2. /\ exchange(m)[1] \in Server
        /\ exchange(m)[3] \in Nat
    BY <2>1 DEF MessageTypes, exchange, isVoteMsg
  <2>3. exchange(m)[3] <= currentTerm[exchange(m)[1]]
    BY <2>1 DEF MessagesOfThePast
  <2> QED
    BY <2>1, <2>2, <2>3 DEF Stays, ElectionTypes
<1>2. CountIsSound'
  <2> SUFFICES ASSUME NEW i \in Server, state'[i] = "Candidate"
               PROVE  grantedVotes'[i] <= Cardinality(counted(i)')
    BY DEF CountIsSound
  <2>1. /\ state[i] = "Candidate"
        /\ currentTerm'[i] = currentTerm[i]
        /\ grantedVotes'[i] = grantedVotes[i]
    BY DEF Stays
  <2>2. counted(i) \subseteq counted(i)'
    BY <2>1 DEF counted, voters, NoNewExchange
  <2>3. counted(i)' \subseteq Server /\ counted(i) \subseteq Server
    BY DEF counted, voters
  <2>4. IsFiniteSet(counted(i)') /\ IsFiniteSet(counted(i))
    BY <2>3, FS_Subset, ServerAssumption
  <2>5. Cardinality(counted(i)) <= Cardinality(counted(i)')
    BY <2>2, <2>4, FS_Subset
  <2>6. grantedVotes[i] <= Cardinality(counted(i))
    BY <2>1 DEF CountIsSound
  <2> QED
    BY <2>1, <2>4, <2>5, <2>6, FS_CardinalityType DEF ElectionTypes
<1>3. LeadersAreElected'
  <2> SUFFICES ASSUME NEW i \in Server, state'[i] = "Leader"
               PROVE  isMajority(voters(currentTerm[i], i)')
    BY DEF LeadersAreElected, isMajority
  <2>1. state[i] = "Leader" /\ currentTerm'[i] = currentTerm[i]
    BY DEF Stays
  <2>2. voters(currentTerm[i], i) \subseteq voters(currentTerm[i], i)'
    BY <2>1 DEF voters
  <2>3. isMajority(voters(currentTerm[i], i))
    BY <2>1 DEF LeadersAreElected
  <2> QED
    BY <2>2, <2>3, MajorityGrows DEF voters
<1> QED
  BY <1>1, <1>2, <1>3

-----------------------------------------------------------------------------
(* Steps that are not part of an election *)

\* The step casts no vote, sends no vote message, and demotes at most.
Quiet ==
  /\ ElectionTypes' /\ MessageTypes' /\ HardStateSaved'
  /\ votes' = votes
  /\ \A m \in messages' : isVoteMsg(m) => m \in messages
  /\ \A i \in Server : Demotes(i)

\* Votes already cast stay remembered, as no term goes back and no vote changes.
LEMMA VotesSurvive ==
  ASSUME ElectionInv, ElectionTypes', votes' = votes,
         \A i \in Server : Demotes(i)
  PROVE  VotesRemembered' /\ OneVoteEach'
<1> USE DEF ElectionInv
<1>1. VotesRemembered'
  <2> SUFFICES ASSUME NEW v \in votes
               PROVE  /\ v[1] <= currentTerm'[v[2]]
                      /\ v[1] = currentTerm'[v[2]] => v[3] = votedFor'[v[2]]
    BY DEF VotesRemembered
  <2>1. v[1] \in Nat /\ v[2] \in Server
    BY DEF ElectionTypes
  <2>2. /\ v[1] <= currentTerm[v[2]]
        /\ v[1] = currentTerm[v[2]] => v[3] = votedFor[v[2]]
    BY DEF VotesRemembered
  <2> QED
    BY <2>1, <2>2 DEF Demotes, ElectionTypes
<1>2. OneVoteEach'
  BY DEF OneVoteEach
<1> QED
  BY <1>1, <1>2

LEMMA QuietKeepsInv ==
  ASSUME ElectionInv, Quiet
  PROVE  ElectionInv'
<1>1. VotesRemembered' /\ OneVoteEach'
  BY VotesSurvive DEF Quiet
<1>2. OneMessageEach'
  BY DEF OneMessageEach, Quiet, ElectionInv
<1>3. GrantsAreVotes'
  BY DEF GrantsAreVotes, Quiet, ElectionInv, isVoteMsg
<1>4. MessagesOfThePast' /\ CountIsSound' /\ LeadersAreElected'
  BY CountsSurvive DEF Quiet, NoNewExchange, Stays, Demotes
<1> QED
  BY <1>1, <1>2, <1>3, <1>4 DEF ElectionInv, Quiet

\* Apart from server i, the hard state is as it was.
OnlyChanges(i) ==
  /\ currentTerm' \in [Server -> Nat]
  /\ votedFor' \in [Server -> Server \cup {Nil}]
  /\ logs' = [k \in Server |-> logs'[k]]
  /\ \A k \in Server \ {i} : /\ currentTerm'[k] = currentTerm[k]
                             /\ votedFor'[k] = votedFor[k]
                             /\ logs'[k] = logs[k]

\* SaveRaftState and SaveStateAndSnapshot save what the handler has assigned.
LEMMA PersistSaves ==
  ASSUME NEW i \in Server, HardStateSaved, OnlyChanges(i),
         persist(i) \/ \E data : persistWithSnapshot(i, data)
  PROVE  HardStateSaved'
<1>1. CASE persist(i)
  BY <1>1 DEF persist, HardStateSaved, OnlyChanges
<1>2. ASSUME NEW data, persistWithSnapshot(i, data)
      PROVE  HardStateSaved'
  BY <1>2, SMTT(30) DEF persistWithSnapshot, HardStateSaved, OnlyChanges
<1> QED
  BY <1>1, <1>2

\* adoptTerm and stepDown, for a term that is not older, demote only server i.
LEMMA AdoptTermDemotes ==
  ASSUME ElectionInv, NEW i \in Server, NEW term \in Nat,
         term >= currentTerm[i], adoptTerm(i, term),
         state' = [state EXCEPT ![i] = "Follower"],
         logs' = [k \in Server |-> logs'[k]],
         \A k \in Server \ {i} : logs'[k] = logs[k],
         grantedVotes' = grantedVotes
  PROVE  /\ OnlyChanges(i)
         /\ state' \in [Server -> {"Follower", "Candidate", "Leader"}]
         /\ \A k \in Server : Demotes(k)
<1> USE DEF ElectionInv, ElectionTypes, adoptTerm
<1>1. OnlyChanges(i)
  BY DEF OnlyChanges
<1>2. state' \in [Server -> {"Follower", "Candidate", "Leader"}]
  OBVIOUS
<1>3. ASSUME NEW k \in Server PROVE Demotes(k)
  BY DEF Demotes
<1> QED
  BY <1>1, <1>2, <1>3

\* The answer to a replication request is well formed and no vote message.
LEMMA ReplyIsQuiet ==
  ASSUME MessageTypes, NEW m \in messages, NEW r, Reply(m, r),
         r.type \in {"AppendEntriesResponse", "InstallSnapshotResponse"},
         r.from = m.to, r.to = m.from, r.term \in Nat, r.reqTerm \in Nat
  PROVE  MessageTypes' /\ \A n \in messages' : isVoteMsg(n) => n \in messages
BY DEF MessageTypes, Reply, isVoteMsg

\* A step that leaves term, vote, role and count of every server alone.
LEMMA NothingDemotes ==
  ASSUME ElectionTypes, UNCHANGED <<state, currentTerm, votedFor, grantedVotes>>
  PROVE  \A i \in Server : Demotes(i)
BY DEF Demotes, ElectionTypes

LEMMA ReplicateIsQuiet ==
  ASSUME ElectionInv, NEW i \in Server, NEW j \in Server, ReplicateOneRound(i, j)
  PROVE  Quiet
<1> USE DEF ElectionInv
<1> DEFINE prev == nextIndex[i][j] - 1
           r == IF prev < logs[i].index THEN snapshotRequest(i, j)
                                        ELSE appendRequest(i, j, prev)
<1>1. /\ UNCHANGED <<state, hardVars, grantedVotes, persister, votes>>
      /\ i # j /\ messages' = messages \cup {r}
  BY DEF ReplicateOneRound, replicationRequest, history
<1>2. /\ r.type \in {"AppendEntries", "InstallSnapshot"}
      /\ r.from = i /\ r.to = j /\ r.term = currentTerm[i]
  BY DEF appendRequest, snapshotRequest
<1> HIDE DEF r
<1>3. MessageTypes' /\ \A m \in messages' : isVoteMsg(m) => m \in messages
  BY <1>1, <1>2 DEF MessageTypes, ElectionTypes, isVoteMsg
<1>4. ElectionTypes' /\ HardStateSaved' /\ \A k \in Server : Demotes(k)
  BY <1>1, NothingDemotes DEF ElectionTypes, HardStateSaved, hardVars
<1> QED
  BY <1>1, <1>3, <1>4 DEF Quiet

LEMMA AppendEntriesIsQuiet ==
  ASSUME ElectionInv, NEW m \in messages, AppendEntries(m)
  PROVE  Quiet
<1> USE DEF ElectionInv
<1>1. /\ m.type = "AppendEntries" /\ m.to \in Server
      /\ m.from \in Server /\ m.term \in Nat
  BY DEF AppendEntries, MessageTypes
<1>2. persist(m.to) /\ UNCHANGED <<grantedVotes, votes>>
  BY DEF AppendEntries, history
<1>3. \E term, success, cTerm, cIndex :
        /\ Reply(m, appendResponse(m, term, success, cTerm, cIndex))
        /\ term \in Nat
  BY <1>1 DEF AppendEntries, RejectStaleAppend, RejectCompactedAppend,
              RejectConflictingAppend, AcceptAppend, ElectionTypes
<1>4. MessageTypes' /\ \A n \in messages' : isVoteMsg(n) => n \in messages
  BY <1>1, <1>3, ReplyIsQuiet DEF appendResponse
<1>5. /\ logs' = [k \in Server |-> logs'[k]]
      /\ \A k \in Server \ {m.to} : logs'[k] = logs[k]
  BY <1>1 DEF AppendEntries, RejectStaleAppend, RejectCompactedAppend, hardVars,
              RejectConflictingAppend, AcceptAppend, HardStateSaved
<1>6. /\ OnlyChanges(m.to)
      /\ state' \in [Server -> {"Follower", "Candidate", "Leader"}]
      /\ \A k \in Server : Demotes(k)
  <2>1. CASE RejectStaleAppend(m)
    BY <1>1, <1>2, <1>5, <2>1, NothingDemotes
       DEF RejectStaleAppend, OnlyChanges, hardVars, ElectionTypes
  <2>2. CASE ~RejectStaleAppend(m)
    <3>1. followLeader(m)
      BY <2>2 DEF AppendEntries, RejectCompactedAppend, RejectConflictingAppend,
                  AcceptAppend
    <3> QED
      BY <1>1, <1>2, <1>5, <3>1, AdoptTermDemotes DEF followLeader
  <2> QED
    BY <2>1, <2>2
<1>7. HardStateSaved'
  BY <1>1, <1>2, <1>6, PersistSaves
<1>8. ElectionTypes'
  BY <1>2, <1>6 DEF ElectionTypes, OnlyChanges
<1> QED
  BY <1>2, <1>4, <1>6, <1>7, <1>8 DEF Quiet

\* A response with a newer term turns its receiver into a follower.
LEMMA StepDownIsQuiet ==
  ASSUME ElectionInv, NEW m \in messages, stepDown(m.to, m.term),
         m.term \in Nat, m.term > currentTerm[m.to],
         messages' = messages \ {m}, UNCHANGED <<grantedVotes, votes>>
  PROVE  Quiet
<1> USE DEF ElectionInv
<1>1. m.to \in Server /\ m.term >= currentTerm[m.to]
  BY DEF MessageTypes, ElectionTypes
<1>2. /\ adoptTerm(m.to, m.term) /\ persist(m.to) /\ logs' = logs
      /\ state' = [state EXCEPT ![m.to] = "Follower"]
  BY DEF stepDown
<1>3. logs' = [k \in Server |-> logs'[k]]
  BY <1>2 DEF HardStateSaved
<1>4. /\ OnlyChanges(m.to)
      /\ state' \in [Server -> {"Follower", "Candidate", "Leader"}]
      /\ \A k \in Server : Demotes(k)
  BY <1>1, <1>2, <1>3, AdoptTermDemotes
<1>5. HardStateSaved'
  BY <1>1, <1>2, <1>4, PersistSaves
<1>6. ElectionTypes'
  BY <1>4 DEF ElectionTypes, OnlyChanges
<1>7. MessageTypes' /\ \A n \in messages' : isVoteMsg(n) => n \in messages
  BY DEF MessageTypes
<1> QED
  BY <1>4, <1>5, <1>6, <1>7 DEF Quiet

\* A response that changes neither the hard state nor a role.
LEMMA ResponseIsQuiet ==
  ASSUME ElectionInv, NEW m \in messages, messages' = messages \ {m},
         UNCHANGED <<state, hardVars, persister, grantedVotes, votes>>
  PROVE  Quiet
<1>1. MessageTypes' /\ \A n \in messages' : isVoteMsg(n) => n \in messages
  BY DEF MessageTypes, ElectionInv
<1>2. ElectionTypes' /\ HardStateSaved' /\ \A k \in Server : Demotes(k)
  BY NothingDemotes DEF ElectionTypes, HardStateSaved, hardVars, ElectionInv
<1> QED
  BY <1>1, <1>2 DEF Quiet

LEMMA HandleResponseIsQuiet ==
  ASSUME ElectionInv, NEW m \in messages,
         \/ HandleAppendEntriesResponse(m)
         \/ HandleInstallSnapshotResponse(m)
  PROVE  Quiet
<1>1. messages' = messages \ {m} /\ votes' = votes
  BY DEF HandleAppendEntriesResponse, HandleInstallSnapshotResponse, history
<1>2. CASE UNCHANGED <<state, hardVars, persister>> /\ UNCHANGED grantedVotes
  BY <1>1, <1>2, ResponseIsQuiet
<1>3. CASE stepDown(m.to, m.term) /\ m.term > currentTerm[m.to]
           /\ UNCHANGED grantedVotes
  <2>1. m.term \in Nat
    BY DEF HandleAppendEntriesResponse, HandleInstallSnapshotResponse,
           MessageTypes, ElectionInv
  <2> QED
    BY <1>1, <1>3, <2>1, StepDownIsQuiet
<1> QED
  BY <1>2, <1>3
     DEF HandleAppendEntriesResponse, AdvancePeer, BackUpPeer, Depose,
         IgnoreAppendResponse, HandleInstallSnapshotResponse, DeposeBySnapshot,
         AdvancePeerToSnapshot, IgnoreSnapshotResponse

\* A step that only rewrites the log of one server, and saves it.
LEMMA RewriteIsQuiet ==
  ASSUME ElectionInv, NEW i \in Server, NEW l, logs' = [logs EXCEPT ![i] = l],
         persist(i) \/ \E data : persistWithSnapshot(i, data),
         UNCHANGED <<state, currentTerm, votedFor, grantedVotes, messages, votes>>
  PROVE  Quiet
<1> USE DEF ElectionInv
<1>1. OnlyChanges(i)
  BY DEF OnlyChanges, HardStateSaved, ElectionTypes
<1>2. HardStateSaved'
  BY <1>1, PersistSaves
<1>3. ElectionTypes' /\ MessageTypes' /\ \A k \in Server : Demotes(k)
  BY NothingDemotes DEF ElectionTypes, MessageTypes
<1> QED
  BY <1>2, <1>3 DEF Quiet

LEMMA StartIsQuiet ==
  ASSUME ElectionInv, NEW i \in Server, NEW v, Start(i, v)
  PROVE  Quiet
<1>1. \E l : logs' = [logs EXCEPT ![i] = l]
  BY DEF Start
<1> QED
  BY <1>1, RewriteIsQuiet DEF Start, history

LEMMA SnapshotIsQuiet ==
  ASSUME ElectionInv, NEW i \in Server, NEW index, Snapshot(i, index)
  PROVE  Quiet
<1>1. \E l : logs' = [logs EXCEPT ![i] = l]
  BY DEF Snapshot
<1> QED
  BY <1>1, RewriteIsQuiet DEF Snapshot, history

LEMMA InstallSnapshotIsQuiet ==
  ASSUME ElectionInv, NEW m \in messages, InstallSnapshot(m)
  PROVE  Quiet
<1> USE DEF ElectionInv
<1>1. /\ m.type = "InstallSnapshot" /\ m.to \in Server
      /\ m.from \in Server /\ m.term \in Nat
  BY DEF InstallSnapshot, MessageTypes
<1>2. Reply(m, snapshotResponse(m)) /\ UNCHANGED <<grantedVotes, votes>>
  BY DEF InstallSnapshot, history
<1>3. MessageTypes' /\ \A n \in messages' : isVoteMsg(n) => n \in messages
  BY <1>1, <1>2, ReplyIsQuiet DEF snapshotResponse, ElectionTypes
<1>4. CASE RejectStaleSnapshot(m)
  <2>1. ElectionTypes' /\ HardStateSaved' /\ \A k \in Server : Demotes(k)
    BY <1>2, <1>4, NothingDemotes
       DEF RejectStaleSnapshot, ElectionTypes, HardStateSaved, hardVars
  <2> QED
    BY <1>2, <1>3, <2>1 DEF Quiet
<1>5. CASE AcceptSnapshot(m)
  <2>1. logs' = [k \in Server |-> logs'[k]]
    BY <1>5 DEF AcceptSnapshot, HardStateSaved
  <2>2. /\ OnlyChanges(m.to)
        /\ state' \in [Server -> {"Follower", "Candidate", "Leader"}]
        /\ \A k \in Server : Demotes(k)
    BY <1>1, <1>2, <1>5, <2>1, AdoptTermDemotes DEF AcceptSnapshot, followLeader
  <2>3. HardStateSaved'
    BY <1>1, <1>5, <2>2, PersistSaves DEF AcceptSnapshot
  <2>4. ElectionTypes'
    BY <1>2, <2>2 DEF ElectionTypes, OnlyChanges
  <2> QED
    BY <1>2, <1>3, <2>2, <2>3, <2>4 DEF Quiet
<1> QED
  BY <1>4, <1>5 DEF InstallSnapshot

LEMMA CondInstallSnapshotIsQuiet ==
  ASSUME ElectionInv, NEW i \in Server, NEW p, CondInstallSnapshot(i, p)
  PROVE  Quiet
<1> USE DEF ElectionInv
<1>1. /\ UNCHANGED <<state, currentTerm, votedFor, grantedVotes, messages, votes>>
      /\ \/ UNCHANGED <<logs, persister>>
         \/ /\ \E l : logs' = [logs EXCEPT ![i] = l]
            /\ persistWithSnapshot(i, p.data)
  BY DEF CondInstallSnapshot, history
<1>2. CASE UNCHANGED <<logs, persister>>
  BY <1>1, <1>2, NothingDemotes
     DEF Quiet, ElectionTypes, MessageTypes, HardStateSaved
<1>3. CASE /\ \E l : logs' = [logs EXCEPT ![i] = l]
           /\ persistWithSnapshot(i, p.data)
  BY <1>1, <1>3, RewriteIsQuiet
<1> QED
  BY <1>1, <1>2, <1>3

\* A restarted server has the term and the vote it had.
LEMMA RestartIsQuiet ==
  ASSUME ElectionInv, NEW i \in Server, Restart(i)
  PROVE  Quiet
<1> USE DEF ElectionInv
<1>1. /\ persister[i].currentTerm = currentTerm[i]
      /\ persister[i].votedFor = votedFor[i]
      /\ persister[i].logs = logs[i]
  BY DEF HardStateSaved
<1>2. UNCHANGED <<currentTerm, votedFor, logs, persister, messages, votes>>
  BY <1>1 DEF Restart, Make, HardStateSaved, ElectionTypes, history
<1>3. /\ state' = [state EXCEPT ![i] = "Follower"]
      /\ grantedVotes' = [grantedVotes EXCEPT ![i] = 0]
  BY DEF Restart, Make
<1>4. ElectionTypes' /\ HardStateSaved' /\ MessageTypes'
  BY <1>2, <1>3 DEF ElectionTypes, HardStateSaved, MessageTypes
<1>5. \A k \in Server : Demotes(k)
  BY <1>2, <1>3 DEF Demotes, ElectionTypes
<1> QED
  BY <1>2, <1>4, <1>5 DEF Quiet

LEMMA DropIsQuiet ==
  ASSUME ElectionInv, NEW m \in messages, Drop(m)
  PROVE  Quiet
BY ResponseIsQuiet DEF Drop, history

-----------------------------------------------------------------------------
(* Elections *)

LEMMA InitHolds ==
  ASSUME Init
  PROVE  ElectionInv
BY ServerAssumption
   DEF Init, ElectionInv, ElectionTypes, MessageTypes, HardStateSaved,
       VotesRemembered, OneVoteEach, OneMessageEach, MessagesOfThePast,
       GrantsAreVotes, CountIsSound, LeadersAreElected

\* A new election is of a term in which i has neither voted nor sent a message.
LEMMA ElectionTimeoutKeepsInv ==
  ASSUME ElectionInv, NEW i \in Server, ElectionTimeout(i)
  PROVE  ElectionInv'
<1> USE DEF ElectionInv
<1> DEFINE T == currentTerm[i] + 1
           isNew(m) == /\ m.type = "RequestVote" /\ m.from = i
                       /\ m.to \in Server \ {i} /\ m.term = T
<1>1. /\ state' = [state EXCEPT ![i] = "Candidate"]
      /\ currentTerm' = [currentTerm EXCEPT ![i] = T]
      /\ votedFor' = [votedFor EXCEPT ![i] = i]
      /\ grantedVotes' = [grantedVotes EXCEPT ![i] = 1]
      /\ votes' = votes \cup {<<T, i, i>>}
      /\ logs' = logs /\ persist(i)
  BY DEF ElectionTimeout
<1>2. \A m \in messages' : m \in messages \/ isNew(m)
  BY DEF ElectionTimeout
<1>3. \A m, n \in messages' \ messages : m.to = n.to => m = n
  BY DEF ElectionTimeout
<1>4. T \in Nat /\ T > currentTerm[i]
  BY DEF ElectionTypes
<1>5. ElectionTypes'
  BY <1>1, <1>4 DEF ElectionTypes
<1>6. MessageTypes'
  BY <1>2, <1>4 DEF MessageTypes
<1>7. HardStateSaved'
  <2>1. OnlyChanges(i)
    BY <1>1, <1>5 DEF OnlyChanges, ElectionTypes, HardStateSaved
  <2> QED
    BY <1>1, <2>1, PersistSaves
<1>8. VotesRemembered'
  BY <1>1, <1>4 DEF VotesRemembered, ElectionTypes
<1>9. OneVoteEach'
  BY <1>1, <1>4 DEF OneVoteEach, VotesRemembered, ElectionTypes
<1> HIDE DEF T
\* The exchanges that i takes part in as a candidate are older than T.
<1>10. ASSUME NEW m \in messages, isVoteMsg(m), exchange(m)[1] = i
       PROVE  exchange(m)[3] # T
  BY <1>4, <1>10 DEF MessagesOfThePast, MessageTypes, exchange, isVoteMsg,
                     ElectionTypes
<1>11. OneMessageEach'
  <2> SUFFICES ASSUME NEW m \in messages', NEW n \in messages',
                      isVoteMsg(m), isVoteMsg(n), exchange(m) = exchange(n)
               PROVE  m = n
    BY DEF OneMessageEach, isVoteMsg, exchange
  <2>1. CASE m \in messages /\ n \in messages
    BY <2>1 DEF OneMessageEach
  <2>2. CASE isNew(m) /\ isNew(n)
    <3>1. m.to = n.to
      BY <2>2 DEF exchange
    <3>2. ~(m \in messages) /\ ~(n \in messages)
      BY <1>10, <2>2 DEF exchange, isVoteMsg
    <3> QED
      BY <1>3, <2>2, <3>1, <3>2
  <2>3. ASSUME NEW a, NEW b, a \in messages, isVoteMsg(a), isNew(b),
               exchange(a) = exchange(b)
        PROVE  FALSE
    BY <1>10, <2>3 DEF exchange
  <2> QED
    BY <1>2, <2>1, <2>2, <2>3
<1>12. MessagesOfThePast'
  <2> SUFFICES ASSUME NEW m \in messages', isVoteMsg(m)
               PROVE  exchange(m)[3] <= currentTerm'[exchange(m)[1]]
    BY DEF MessagesOfThePast, isVoteMsg, exchange
  <2>1. CASE m \in messages
    <3>1. /\ exchange(m)[1] \in Server /\ exchange(m)[3] \in Nat
          /\ exchange(m)[3] <= currentTerm[exchange(m)[1]]
      BY <2>1 DEF MessagesOfThePast, MessageTypes, exchange, isVoteMsg
    <3> QED
      BY <1>1, <1>4, <3>1 DEF ElectionTypes
  <2>2. CASE isNew(m)
    BY <1>1, <1>4, <2>2 DEF exchange, ElectionTypes
  <2> QED
    BY <1>2, <2>1, <2>2
<1>13. GrantsAreVotes'
  BY <1>1, <1>2 DEF GrantsAreVotes
<1>14. CountIsSound'
  <2> SUFFICES ASSUME NEW k \in Server, state'[k] = "Candidate"
               PROVE  grantedVotes'[k] <= Cardinality(counted(k)')
    BY DEF CountIsSound
  <2>1. counted(k)' \subseteq Server /\ counted(k) \subseteq Server
    BY DEF counted, voters
  <2>2. IsFiniteSet(counted(k)') /\ IsFiniteSet(counted(k))
    BY <2>1, FS_Subset, ServerAssumption
  <2>3. /\ Cardinality(counted(k)') \in Nat
        /\ Cardinality(counted(k)) \in Nat
    BY <2>2, FS_CardinalityType
  <2>4. CASE k = i
    <3>1. \A m \in messages' : isVoteMsg(m) => exchange(m) # <<i, i, T>>
      BY <1>6 DEF MessageTypes, exchange, isVoteMsg
    <3>2. {i} \subseteq counted(k)'
      BY <1>1, <2>4, <3>1 DEF counted, voters, ElectionTypes
    <3>3. Cardinality({i}) <= Cardinality(counted(k)') /\ Cardinality({i}) = 1
      BY <2>2, <3>2, FS_Subset, FS_Singleton
    <3> QED
      BY <1>1, <2>3, <2>4, <3>3 DEF ElectionTypes
  <2>5. CASE k # i
    <3>1. /\ state[k] = "Candidate" /\ currentTerm'[k] = currentTerm[k]
          /\ grantedVotes'[k] = grantedVotes[k]
      BY <1>1, <2>5 DEF ElectionTypes
    <3>2. \A m \in messages' :
            isVoteMsg(m) /\ exchange(m)[1] = k => m \in messages
      BY <1>2, <2>5 DEF exchange
    <3>3. counted(k) \subseteq counted(k)'
      BY <1>1, <3>1, <3>2 DEF counted, voters
    <3>4. Cardinality(counted(k)) <= Cardinality(counted(k)')
      BY <2>2, <3>3, FS_Subset
    <3> QED
      BY <2>3, <3>1, <3>4 DEF CountIsSound, ElectionTypes
  <2> QED
    BY <2>4, <2>5
<1>15. LeadersAreElected'
  <2> SUFFICES ASSUME NEW k \in Server, state'[k] = "Leader"
               PROVE  isMajority(voters(currentTerm[k], k)')
    BY DEF LeadersAreElected, isMajority
  <2>1. state[k] = "Leader" /\ currentTerm'[k] = currentTerm[k]
    BY <1>1 DEF ElectionTypes
  <2>2. voters(currentTerm[k], k) \subseteq voters(currentTerm[k], k)'
    BY <1>1, <2>1 DEF voters
  <2> QED
    BY <2>1, <2>2, MajorityGrows DEF LeadersAreElected, voters
<1> QED
  BY <1>5, <1>6, <1>7, <1>8, <1>9, <1>11, <1>12, <1>13, <1>14, <1>15

\* RequestVote answers within the exchange of the request, on behalf of a voter
\* whose term does not go back.
LEMMA VoteReply ==
  ASSUME ElectionInv, NEW m \in messages, m.type = "RequestVote",
         NEW term \in Nat, NEW granted,
         Reply(m, voteResponse(m, term, granted))
  PROVE  MessageTypes' /\ NoNewExchange /\ OneMessageEach'
<1> DEFINE r == voteResponse(m, term, granted)
<1> USE DEF ElectionInv
<1>1. /\ m.from \in Server /\ m.to \in Server /\ m.from # m.to /\ m.term \in Nat
      /\ isVoteMsg(m)
  BY DEF MessageTypes, isVoteMsg
<1>2. /\ r.type = "RequestVoteResponse" /\ r.from = m.to /\ r.to = m.from
      /\ r.reqTerm = m.term /\ r.term = term
  BY DEF voteResponse
<1>3. messages' = (messages \ {m}) \cup {r}
  BY DEF Reply
<1> HIDE DEF r
<1>4. exchange(r) = exchange(m)
  BY <1>2 DEF exchange
<1>5. MessageTypes'
  BY <1>1, <1>2, <1>3 DEF MessageTypes
<1>6. NoNewExchange
  BY <1>1, <1>3, <1>4 DEF NoNewExchange
<1>7. OneMessageEach'
  <2> SUFFICES ASSUME NEW a \in messages', NEW b \in messages',
                      isVoteMsg(a), isVoteMsg(b), exchange(a) = exchange(b)
               PROVE  a = b
    BY DEF OneMessageEach, isVoteMsg, exchange
  <2> QED
    BY <1>1, <1>3, <1>4 DEF OneMessageEach
<1> QED
  BY <1>5, <1>6, <1>7

LEMMA RefusalKeepsInv ==
  ASSUME ElectionInv, NEW m \in messages, m.type = "RequestVote",
         RefuseVote(m) \/ DenyVote(m),
         persist(m.to), UNCHANGED <<grantedVotes, committed>>
  PROVE  ElectionInv' /\ \A i \in Server : Demotes(i)
<1> USE DEF ElectionInv
<1>1. m.to \in Server /\ m.from \in Server /\ m.term \in Nat
  BY DEF MessageTypes
<1>2. /\ logs' = logs /\ votes' = votes
      /\ \E term \in Nat : Reply(m, voteResponse(m, term, FALSE))
  BY <1>1 DEF RefuseVote, DenyVote, hardVars, ElectionTypes
<1>3. /\ ElectionTypes'
      /\ \A k \in Server \ {m.to} :
           currentTerm'[k] = currentTerm[k] /\ votedFor'[k] = votedFor[k]
      /\ \A k \in Server : Demotes(k)
  <2>1. CASE RefuseVote(m)
    BY <1>2, <2>1, NothingDemotes DEF RefuseVote, hardVars, ElectionTypes
  <2>2. CASE DenyVote(m)
    BY <1>1, <1>2, <2>2
       DEF DenyVote, mustRefuse, adoptTerm, ElectionTypes, Demotes
  <2> QED
    BY <2>1, <2>2
<1>4. HardStateSaved'
  <2>1. OnlyChanges(m.to)
    BY <1>2, <1>3 DEF OnlyChanges, ElectionTypes, HardStateSaved
  <2> QED
    BY <1>1, <2>1, PersistSaves
<1>5. MessageTypes' /\ NoNewExchange /\ OneMessageEach'
  BY <1>2, VoteReply
<1>6. VotesRemembered' /\ OneVoteEach'
  BY <1>2, <1>3, VotesSurvive
<1>7. MessagesOfThePast' /\ CountIsSound' /\ LeadersAreElected'
  BY <1>2, <1>3, <1>5, CountsSurvive DEF Stays, Demotes
<1>8. GrantsAreVotes'
  BY <1>2 DEF GrantsAreVotes, Reply, voteResponse
<1> QED
  BY <1>3, <1>4, <1>5, <1>6, <1>7, <1>8

\* A granted vote is of a term in which the voter has not voted for another.
LEMMA GrantKeepsInv ==
  ASSUME ElectionInv, NEW m \in messages, m.type = "RequestVote",
         GrantVote(m), persist(m.to), UNCHANGED grantedVotes
  PROVE  ElectionInv'
<1> USE DEF ElectionInv
<1>1. m.to \in Server /\ m.from \in Server /\ m.term \in Nat
  BY DEF MessageTypes
<1>2. /\ logs' = logs
      /\ votes' = votes \cup {<<m.term, m.to, m.from>>}
      /\ currentTerm' = [currentTerm EXCEPT ![m.to] = m.term]
      /\ votedFor' = [votedFor EXCEPT ![m.to] = m.from]
      /\ Reply(m, voteResponse(m, m.term, TRUE))
  BY DEF GrantVote
<1>3. /\ m.term >= currentTerm[m.to]
      /\ m.term = currentTerm[m.to] => votedFor[m.to] \in {Nil, m.from}
  BY <1>1 DEF GrantVote, mustRefuse, ElectionTypes
<1>4. ElectionTypes' /\ \A k \in Server : Stays(k)
  BY <1>1, <1>2, <1>3 DEF GrantVote, ElectionTypes, Stays
<1>5. HardStateSaved'
  <2>1. OnlyChanges(m.to)
    BY <1>2, <1>4 DEF OnlyChanges, ElectionTypes, HardStateSaved
  <2> QED
    BY <1>1, <2>1, PersistSaves
<1>6. MessageTypes' /\ NoNewExchange /\ OneMessageEach'
  BY <1>1, <1>2, VoteReply
<1>7. \A v \in votes : v[2] = m.to =>
        v[1] <= m.term /\ (v[1] = m.term => v[3] = m.from)
  BY <1>1, <1>3, ServerAssumption DEF VotesRemembered, ElectionTypes
<1>8. VotesRemembered'
  BY <1>1, <1>2, <1>7 DEF VotesRemembered, ElectionTypes
<1>9. OneVoteEach'
  BY <1>1, <1>2, <1>7 DEF OneVoteEach, ElectionTypes
<1>10. MessagesOfThePast' /\ CountIsSound' /\ LeadersAreElected'
  BY <1>2, <1>4, <1>6, CountsSurvive
<1>11. GrantsAreVotes'
  BY <1>2 DEF GrantsAreVotes, Reply, voteResponse
<1> QED
  BY <1>4, <1>5, <1>6, <1>8, <1>9, <1>10, <1>11

\* A counted response stands for a voter that was not counted before.
LEMMA CountVoteKeepsInv ==
  ASSUME ElectionInv, NEW m \in messages, m.type = "RequestVoteResponse",
         CountVote(m), messages' = messages \ {m}, votes' = votes
  PROVE  ElectionInv'
<1> USE DEF ElectionInv
<1> DEFINE i == m.to
           all == counted(i) \cup {m.from}
<1>1. /\ i \in Server /\ m.from \in Server /\ isVoteMsg(m)
      /\ exchange(m) = <<i, m.from, m.reqTerm>>
  BY DEF MessageTypes, isVoteMsg, exchange
<1>2. /\ state[i] = "Candidate" /\ currentTerm[i] = m.reqTerm /\ m.voteGranted
      /\ grantedVotes' = [grantedVotes EXCEPT ![i] = @ + 1]
      /\ UNCHANGED <<currentTerm, votedFor, logs, persister>>
      /\ IF 2 * (grantedVotes[i] + 1) > Cardinality(Server)
         THEN state' = [state EXCEPT ![i] = "Leader"]
         ELSE state' = state
  BY DEF CountVote, isCurrentElection, becomeLeader, hardVars
<1>3. ElectionTypes' /\ HardStateSaved' /\ MessageTypes'
  <2>1. ElectionTypes'
    BY <1>1, <1>2 DEF ElectionTypes
  <2>2. HardStateSaved'
    BY <1>2 DEF HardStateSaved
  <2>3. MessageTypes'
    BY DEF MessageTypes
  <2> QED
    BY <2>1, <2>2, <2>3
<1>4. VotesRemembered' /\ OneVoteEach' /\ MessagesOfThePast'
      /\ OneMessageEach' /\ GrantsAreVotes'
  BY <1>2 DEF VotesRemembered, OneVoteEach, MessagesOfThePast, OneMessageEach,
              GrantsAreVotes
<1>5. m.from \in voters(currentTerm[i], i) /\ m.from \notin counted(i)
  BY <1>1, <1>2 DEF GrantsAreVotes, voters, counted
<1>6. all \subseteq counted(i)'
  BY <1>1, <1>2, <1>5 DEF counted, voters, OneMessageEach
<1>7. all \subseteq voters(currentTerm[i], i)
  BY <1>5 DEF counted
<1>8. /\ IsFiniteSet(counted(i)) /\ Cardinality(counted(i)) \in Nat
      /\ IsFiniteSet(counted(i)') /\ Cardinality(counted(i)') \in Nat
      /\ IsFiniteSet(voters(currentTerm[i], i))
      /\ Cardinality(voters(currentTerm[i], i)) \in Nat
      /\ Cardinality(Server) \in Nat
  <2>1. /\ counted(i) \subseteq Server /\ counted(i)' \subseteq Server
        /\ voters(currentTerm[i], i) \subseteq Server
    BY DEF counted, voters
  <2> QED
    BY <2>1, FS_Subset, FS_CardinalityType, ServerAssumption
<1>9. grantedVotes[i] + 1 <= Cardinality(all) /\ Cardinality(all) \in Nat
  <2>1. Cardinality(all) = Cardinality(counted(i)) + 1
    BY <1>5, <1>8, FS_AddElement
  <2>2. grantedVotes[i] <= Cardinality(counted(i))
    BY <1>1, <1>2 DEF CountIsSound
  <2> QED
    BY <1>1, <1>8, <2>1, <2>2 DEF ElectionTypes
<1>10. CountIsSound'
  <2> SUFFICES ASSUME NEW k \in Server, state'[k] = "Candidate"
               PROVE  grantedVotes'[k] <= Cardinality(counted(k)')
    BY DEF CountIsSound
  <2>1. CASE k = i
    <3>1. Cardinality(all) <= Cardinality(counted(i)')
      BY <1>6, <1>8, FS_Subset
    <3> QED
      BY <1>1, <1>2, <1>8, <1>9, <2>1, <3>1 DEF ElectionTypes
  <2>2. CASE k # i
    <3>1. state[k] = "Candidate" /\ grantedVotes'[k] = grantedVotes[k]
      BY <1>1, <1>2, <2>2 DEF ElectionTypes
    <3>2. counted(k)' = counted(k)
      BY <1>1, <1>2, <2>2 DEF counted, voters
    <3> QED
      BY <3>1, <3>2 DEF CountIsSound
  <2> QED
    BY <2>1, <2>2
<1>11. LeadersAreElected'
  <2> SUFFICES ASSUME NEW k \in Server, state'[k] = "Leader"
               PROVE  isMajority(voters(currentTerm[k], k))
    BY <1>2 DEF LeadersAreElected, voters, isMajority
  <2>1. CASE state[k] = "Leader"
    BY <2>1 DEF LeadersAreElected
  <2>2. CASE state[k] # "Leader"
    <3>1. k = i /\ 2 * (grantedVotes[i] + 1) > Cardinality(Server)
      BY <1>1, <1>2, <2>2 DEF ElectionTypes
    <3>2. Cardinality(all) <= Cardinality(voters(currentTerm[i], i))
      BY <1>7, <1>8, FS_Subset
    <3> QED
      BY <1>1, <1>8, <1>9, <3>1, <3>2 DEF isMajority, ElectionTypes
  <2> QED
    BY <2>1, <2>2
<1> QED
  BY <1>3, <1>4, <1>10, <1>11

\* The step that VoteOnce allows.
VoteStep ==
  \A i \in Server :
    /\ currentTerm'[i] >= currentTerm[i]
    /\ currentTerm'[i] = currentTerm[i] /\ votedFor[i] # Nil
         => votedFor'[i] = votedFor[i]

LEMMA RequestVoteKeepsInv ==
  ASSUME ElectionInv, NEW m \in messages, RequestVote(m)
  PROVE  ElectionInv' /\ VoteStep
<1>1. /\ m.type = "RequestVote" /\ persist(m.to)
      /\ UNCHANGED <<grantedVotes, committed>>
  BY DEF RequestVote
<1>2. CASE RefuseVote(m) \/ DenyVote(m)
  BY <1>1, <1>2, RefusalKeepsInv DEF VoteStep, Demotes
<1>3. CASE GrantVote(m)
  <2>1. ElectionInv'
    BY <1>1, <1>3, GrantKeepsInv
  <2>2. m.to \in Server /\ m.from \in Server /\ m.term \in Nat
    BY <1>1 DEF ElectionInv, MessageTypes
  <2>3. VoteStep
    BY <1>3, <2>2
       DEF VoteStep, GrantVote, mustRefuse, ElectionInv, ElectionTypes
  <2> QED
    BY <2>1, <2>3
<1> QED
  BY <1>2, <1>3 DEF RequestVote

LEMMA HandleVoteResponseKeepsInv ==
  ASSUME ElectionInv, NEW m \in messages, HandleVoteResponse(m)
  PROVE  ElectionInv' /\ VoteStep
<1>1. /\ m.type = "RequestVoteResponse" /\ messages' = messages \ {m}
      /\ votes' = votes /\ m.term \in Nat
  BY DEF HandleVoteResponse, history, ElectionInv, MessageTypes
<1>2. CASE CountVote(m)
  <2>1. ElectionInv'
    BY <1>1, <1>2, CountVoteKeepsInv
  <2>2. VoteStep
    BY <1>2 DEF VoteStep, CountVote, hardVars, ElectionInv, ElectionTypes
  <2> QED
    BY <2>1, <2>2
<1>3. CASE LoseElection(m)
  <2>1. Quiet
    BY <1>1, <1>3, StepDownIsQuiet DEF LoseElection
  <2> QED
    BY <2>1, QuietKeepsInv DEF Quiet, VoteStep, Demotes
<1>4. CASE IgnoreVoteResponse(m)
  <2>1. Quiet
    BY <1>1, <1>4, ResponseIsQuiet DEF IgnoreVoteResponse
  <2> QED
    BY <2>1, QuietKeepsInv DEF Quiet, VoteStep, Demotes
<1> QED
  BY <1>2, <1>3, <1>4 DEF HandleVoteResponse

LEMMA NextKeepsInv ==
  ASSUME ElectionInv, Next
  PROVE  ElectionInv' /\ VoteStep
<1>1. ASSUME NEW i \in Server, ElectionTimeout(i)
      PROVE  ElectionInv' /\ VoteStep
  <2>1. VoteStep
    BY <1>1 DEF ElectionTimeout, VoteStep, ElectionInv, ElectionTypes
  <2> QED
    BY <1>1, <2>1, ElectionTimeoutKeepsInv
<1>2. ASSUME NEW m \in messages, RequestVote(m)
      PROVE  ElectionInv' /\ VoteStep
  BY <1>2, RequestVoteKeepsInv
<1>3. ASSUME NEW m \in messages, HandleVoteResponse(m)
      PROVE  ElectionInv' /\ VoteStep
  BY <1>3, HandleVoteResponseKeepsInv
<1>4. ASSUME Quiet
      PROVE  ElectionInv' /\ VoteStep
  BY <1>4, QuietKeepsInv DEF Quiet, VoteStep, Demotes
<1>5. ASSUME NEW i \in MayCrash, Restart(i)
      PROVE  Quiet
  BY <1>5, RestartIsQuiet, BoundAssumption
<1>6. ASSUME NEW i \in Server, NEW j \in Server, ReplicateOneRound(i, j)
      PROVE  Quiet
  BY <1>6, ReplicateIsQuiet
<1>7. ASSUME NEW i \in Server, NEW v \in Value, Start(i, v)
      PROVE  Quiet
  BY <1>7, StartIsQuiet
<1>8. ASSUME NEW i \in Server, NEW index \in SnapshotAt, Snapshot(i, index)
      PROVE  Quiet
  BY <1>8, SnapshotIsQuiet
<1>9. ASSUME NEW i \in Server, NEW p \in applyCh[i], CondInstallSnapshot(i, p)
      PROVE  Quiet
  BY <1>9, CondInstallSnapshotIsQuiet
<1>10. ASSUME NEW m \in messages,
              \/ AppendEntries(m)
              \/ HandleAppendEntriesResponse(m)
              \/ InstallSnapshot(m)
              \/ HandleInstallSnapshotResponse(m)
              \/ Drop(m)
       PROVE  Quiet
  BY <1>10, AppendEntriesIsQuiet, HandleResponseIsQuiet,
     InstallSnapshotIsQuiet, DropIsQuiet
<1> QED
  BY <1>1, <1>2, <1>3, <1>4, <1>5, <1>6, <1>7, <1>8, <1>9, <1>10
     DEF Next, Receive

-----------------------------------------------------------------------------
(* The theorems *)

\* The election protocol keeps its bookkeeping right, whatever replication,
\* snapshots, crashes and message loss do in between.
THEOREM ElectionInvariant == Spec => []ElectionInv
<1>1. ElectionInv /\ UNCHANGED vars => ElectionInv'
  <2> SUFFICES ASSUME ElectionInv, UNCHANGED vars PROVE ElectionInv'
    OBVIOUS
  <2>1. /\ UNCHANGED <<state, currentTerm, votedFor, logs, grantedVotes>>
        /\ UNCHANGED <<persister, messages, votes>>
    BY DEF vars, hardVars, history
  <2>2. ElectionTypes' /\ MessageTypes' /\ HardStateSaved'
    BY <2>1 DEF ElectionInv, ElectionTypes, MessageTypes, HardStateSaved
  <2>3. /\ VotesRemembered' /\ OneVoteEach' /\ OneMessageEach'
        /\ MessagesOfThePast' /\ GrantsAreVotes'
    BY <2>1 DEF ElectionInv, VotesRemembered, OneVoteEach, OneMessageEach,
                MessagesOfThePast, GrantsAreVotes
  <2>4. CountIsSound' /\ LeadersAreElected'
    BY <2>1 DEF ElectionInv, CountIsSound, counted, LeadersAreElected, voters,
                isMajority
  <2> QED
    BY <2>2, <2>3, <2>4 DEF ElectionInv
<1> QED
  BY <1>1, InitHolds, NextKeepsInv, PTL DEF Spec

\* At most one node can win a term, and a node leads only a term it has won:
\* RequestVote, StartElection, persist and readPersist together.
THEOREM ElectionIsSafe == Spec => []ElectionSafety
<1>1. ElectionInv => ElectionSafety
  <2> SUFFICES ASSUME ElectionInv PROVE ElectionSafety
    OBVIOUS
  <2>1. ASSUME NEW v \in votes, NEW w \in votes, v[1] = w[1],
               isMajority(voters(v[1], v[3])), isMajority(voters(w[1], w[3]))
        PROVE  v[3] = w[3]
    <3>1. PICK j \in voters(v[1], v[3]) : j \in voters(w[1], w[3])
      BY <2>1, MajoritiesMeet DEF voters
    <3>2. <<v[1], j, v[3]>> \in votes /\ <<v[1], j, w[3]>> \in votes
      BY <2>1, <3>1 DEF voters
    <3> QED
      BY <3>2 DEF ElectionInv, OneVoteEach
  <2>2. \A i \in Server :
          state[i] = "Leader" => isMajority(voters(currentTerm[i], i))
    BY DEF ElectionInv, LeadersAreElected
  <2> QED
    BY <2>1, <2>2 DEF ElectionSafety
<1> QED
  BY <1>1, ElectionInvariant, PTL

\* Terms never go back and a vote is never changed within a term, by any
\* handler or by a restart from the persister.
THEOREM VotesAreCastOnce == Spec => VoteOnce
<1>1. ElectionInv /\ [Next]_vars => [VoteStep]_vars
  BY NextKeepsInv
<1>2. VoteOnce <=> [][VoteStep]_vars
  BY PTL DEF VoteOnce, VoteStep
<1> QED
  BY <1>1, <1>2, ElectionInvariant, PTL DEF Spec
=============================================================================
