---------------------------- MODULE RaftDeployed ----------------------------
(***************************************************************************)
(* Raft as main.go runs it: every process start passes Make a new, empty   *)
(* raft.Persister, which lives in memory, so a process that crashes and is *)
(* started again begins with an empty hard state.                          *)
(*                                                                         *)
(* The crash also closes the process's connections.  The restarted process *)
(* dials its peers anew; a peer keeps the closed client it has cached, and *)
(* every later call on it fails (raft_rpc.go sets peers[].Rpc once).          *)
(***************************************************************************)
EXTENDS Raft

VARIABLE broken   \* <<i, j>>: the client for j that i has cached is closed

deployedVars == <<vars, broken>>

DeployedInit == Init /\ broken = {}

\* raft.MakePersister(): nothing was ever saved.
newPersister ==
  [snapshot |-> 0, currentTerm |-> 0, votedFor |-> Nil,
   logs |-> [index |-> 0, term |-> 0, entries |-> <<>>]]

\* The process of i dies and is started again by main.go.
ProcessRestart(i) ==
  /\ Make(i, newPersister)
  /\ persister' = [persister EXCEPT ![i] = newPersister]
  /\ broken' = {c \in broken : c[1] # i} \cup (Server \ {i}) \X {i}
  /\ messages' = {m \in messages : i \notin {m.from, m.to}}
  /\ UNCHANGED history

isRequest(m) == m.type \in {"RequestVote", "AppendEntries", "InstallSnapshot"}

\* A request is delivered only on a connection that is open.
RaftStep ==
  /\ Next
  /\ \A m \in messages \ messages' :
       isRequest(m) => <<m.from, m.to>> \notin broken
  /\ UNCHANGED broken

DeployedNext == RaftStep \/ \E i \in Server : ProcessRestart(i)

DeployedSpec == DeployedInit /\ [][DeployedNext]_deployedVars

-----------------------------------------------------------------------------
\* No two nodes lead the same term, across restarts of the processes: what the
\* persisted votedFor is for (raft_persist.go:10-14, docs/Q&A.md:13-19).
OneLeaderPerTerm ==
  \A i, j \in Server :
    state[i] = "Leader" /\ state[j] = "Leader" /\ currentTerm[i] = currentTerm[j]
      => i = j
=============================================================================
