-------------------------- MODULE MCRaftProgress --------------------------
(* Instances of RaftProgress for TLC. *)
EXTENDS RaftProgress

CONSTANTS n1, n2, v1

\* The instance starts after the first term: n1 has led it, the nodes in S have
\* got its first entry, and both nodes have crashed and restarted.
leftBy(S) ==
  [i \in Server |-> [index |-> 0, term |-> 0, entries |->
                     IF i \in S THEN <<[term |-> 1, command |-> v1]>> ELSE <<>>]]

AfterFirstTerm ==
  /\ logs \in {leftBy({n1}), leftBy({n1, n2})}
  /\ state = [i \in Server |-> "Follower"]
  /\ currentTerm = [i \in Server |-> 1]
  /\ votedFor = [i \in Server |-> n1]
  /\ commitIndex = [i \in Server |-> 0]
  /\ nextIndex = [i \in Server |-> [j \in Server |-> lastIndex(logs[i]) + 1]]
  /\ matchIndex = [i \in Server |-> [j \in Server |-> 0]]
  /\ grantedVotes = [i \in Server |-> 0]
  /\ persister = [i \in Server |-> [currentTerm |-> 1, votedFor |-> n1,
                                    logs |-> logs[i], snapshot |-> 0]]
  /\ applyCh = [i \in Server |-> {}]
  /\ messages = {} /\ committed = <<>>
  /\ votes = {<<1, n1, n1>>, <<1, n2, n1>>}
  /\ ledger = [t \in {1} |-> logs[n1].entries]
  /\ acks = {<<1, i, Len(logs[i].entries), Len(logs[i].entries)>> : i \in Server}
  /\ replicator = [i \in Server |-> [j \in Server |-> "check"]]
  /\ call = [i \in Server |-> [j \in Server |-> Nil]]

MCSpec == AfterFirstTerm /\ [][ProgressNext]_progressVars /\ Fairness
=============================================================================
