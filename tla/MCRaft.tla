------------------------------- MODULE MCRaft -------------------------------
(* Instances of Raft for TLC. *)
EXTENDS Raft, TLC

CONSTANTS n1, n2, n3, v1

Symmetry == Permutations(Server)

\* A message that can only be refused and discarded: whoever waits for the answer
\* has left the term of the request, or would not act on it.
isMoot(m) ==
  CASE m.type = "RequestVote" ->
         /\ mustRefuse(m)
         /\ \/ currentTerm[m.from] # m.term \/ state[m.from] # "Candidate"
            \/ currentTerm[m.to] = m.term
    [] m.type = "RequestVoteResponse" ->
         ~isCurrentElection(m) \/ (~m.voteGranted /\ m.term <= m.reqTerm)
    [] m.type \in {"AppendEntries", "InstallSnapshot"} ->
         /\ m.term < currentTerm[m.to]
         /\ currentTerm[m.from] # m.term \/ state[m.from] # "Leader"
    [] OTHER -> ~isCurrentLeader(m)

\* Always TRUE.  TLC stores a set that a view only filters unevaluated; comparing
\* it is enough.
areEvaluated == messages = messages /\ votes = votes /\ applyCh = applyCh

\* What can still matter of a state.  Left out: the progress a node that does not
\* lead remembers, which becomeLeader overwrites before it is read; the vote
\* count of a node that is not a candidate, which the next election resets; the
\* moot messages and snapshots; the histories ledger and acks, which nothing reads;
\* and of the history of votes all but the number of elections.  That number and
\* the number of messages in flight are what the bounds read.
Relevant ==
  <<state, currentTerm, votedFor, logs, commitIndex, committed, persister,
    Cardinality({v \in votes : v[2] = v[3]}),
    [i \in Server |-> IF state[i] = "Leader"
                      THEN <<nextIndex[i], matchIndex[i]>> ELSE <<>>],
    [i \in Server |-> IF state[i] = "Candidate" THEN grantedVotes[i] ELSE 0],
    [i \in Server |-> {p \in applyCh[i] : p.index > commitIndex[i]}],
    {m \in messages : ~isMoot(m)}, Cardinality(replicationMsgs), areEvaluated>>

\* The same with the votes of the terms some node may still vote in or lead: what
\* ElectionSafety says of an older term can no longer change.
RelevantAndVotes ==
  <<Relevant, {v \in votes : \E i \in Server : currentTerm[i] <= v[1]}>>
=============================================================================
