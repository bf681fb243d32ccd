--------------------------- MODULE RaftTypeProofs ---------------------------
(***************************************************************************)
(* Type correctness and durability, for every number of servers, every     *)
(* set of commands and every bound: proofs of TypeOK and Durable of module *)
(* Raft.                                                                   *)
(*                                                                         *)
(* TypeOK is not inductive.  A handler that slices a log outside of its    *)
(* range yields no sequence at all, so the types hold only with the facts  *)
(* that keep the indexes of handlers and messages inside the logs:         *)
(*   - what a leader takes from a response lies within its present log:    *)
(*     only the leader of a term sends replication messages of that term,  *)
(*     and its log does not shrink while it leads (ProgressInRange);       *)
(*   - no snapshot, request or commitIndex is beyond what some leader has  *)
(*     found committed, and no log starts beyond its commitIndex           *)
(*     (CommitKnown).                                                      *)
(* Durable needs that a snapshot on the wire is labelled with the index it *)
(* contains.                                                               *)
(***************************************************************************)
EXTENDS Raft, TLAPS, FiniteSetTheorems, SequenceTheorems, WellFoundedInduction

-----------------------------------------------------------------------------
(* The inductive invariant *)

isRequest(m) == m.type \in {"AppendEntries", "InstallSnapshot"}

\* The leader that a replication message comes from or returns to, and its term.
sender(m) == IF isRequest(m) THEN m.from ELSE m.to
epoch(m)  == IF isRequest(m) THEN m.term ELSE m.reqTerm

\* The last index of the leader's log that the message speaks of.
reach(m) ==
  IF m.type = "AppendEntries" THEN m.prevLogIndex + Len(m.entries)
  ELSE IF m.type = "AppendEntriesResponse" THEN m.prevLogIndex + m.nEntries
  ELSE m.lastIncludedIndex

\* Only who leads a term, or led it, has sent replication messages of that term.
SentByLeaders ==
  \A m \in messages : ~isVoteMsg(m) =>
    /\ epoch(m) <= currentTerm[sender(m)]
    /\ epoch(m) = currentTerm[sender(m)] => state[sender(m)] # "Candidate"

\* A leader's log reaches as far as its messages of this term, and their answers.
MessagesInRange ==
  \A m \in messages :
    /\ ~isVoteMsg(m) /\ state[sender(m)] = "Leader"
    /\ epoch(m) = currentTerm[sender(m)]
    => reach(m) <= lastIndex(logs[sender(m)])

NextInRange ==
  \A i \in Server : state[i] = "Leader" =>
    \A j \in Server \ {i} : nextIndex[i][j] - 1 <= lastIndex(logs[i])

\* A refusal moves nextIndex back, never beyond what was refused.
RefusalsBackUp ==
  \A m \in messages :
    m.type = "AppendEntriesResponse" /\ ~m.success
      => m.conflictIndex <= m.prevLogIndex

\* What is known to be committed was found committed.
CommitKnown ==
  /\ \A i \in Server :
       /\ logs[i].index <= commitIndex[i] /\ commitIndex[i] <= Len(committed)
       /\ \A p \in applyCh[i] : p.index <= Len(committed)
  /\ \A m \in messages :
       /\ m.type = "AppendEntries" => m.leaderCommit <= Len(committed)
       /\ m.type = "InstallSnapshot" => m.lastIncludedIndex <= Len(committed)

\* A snapshot contains what its label says.
SnapshotsLabelled ==
  /\ \A i \in Server : \A p \in applyCh[i] : p.data = p.index
  /\ \A m \in messages :
       m.type = "InstallSnapshot" => m.data = m.lastIncludedIndex

\* TypeOK, but for the history of the leaders' logs.
NodeTypes ==
  /\ state \in [Server -> {"Follower", "Candidate", "Leader"}]
  /\ currentTerm \in [Server -> Nat]
  /\ votedFor \in [Server -> Server \cup {Nil}]
  /\ logs \in [Server -> Logs]
  /\ commitIndex \in [Server -> Nat]
  /\ nextIndex \in [Server -> [Server -> Int]]
  /\ matchIndex \in [Server -> [Server -> Nat]]
  /\ grantedVotes \in [Server -> Nat]
  /\ persister \in [Server -> HardState]
  /\ applyCh \in [Server -> SUBSET SnapshotMsg]
  /\ messages \subseteq Message
  /\ votes \subseteq Nat \X Server \X Server
  /\ committed \in Seq(Entry)

LedgerTypes ==
  /\ DOMAIN ledger \subseteq Nat
  /\ \A t \in DOMAIN ledger : ledger[t] \in Seq(Entry)
  /\ acks \subseteq Nat \X Server \X Nat \X Nat

TypeInv ==
  /\ NodeTypes
  /\ Durable
  /\ SentByLeaders
  /\ MessagesInRange
  /\ NextInRange
  /\ RefusalsBackUp
  /\ CommitKnown
  /\ SnapshotsLabelled

-----------------------------------------------------------------------------
(* Least and greatest elements *)

LEMMA MinOfNats ==
  ASSUME NEW S \in SUBSET Nat, S # {}
  PROVE  Min(S) \in S /\ \A x \in S : Min(S) <= x
<1>1. \E x \in S : \A y \in S : ~(<<y, x>> \in OpToRel(<, Nat))
  BY WFMin, NatLessThanWellFounded
<1>2. \A x, y \in Nat : y < x => <<y, x>> \in OpToRel(<, Nat)
  BY DEF OpToRel
<1>3. \E x \in S : \A y \in S : ~(y < x)
  BY <1>1, <1>2, Zenon
<1>4. \E x \in S : \A y \in S : x <= y
  BY <1>3
<1> QED
  BY <1>4 DEF Min

LEMMA MaxOfNats ==
  ASSUME NEW n \in Nat, NEW S \in SUBSET 0..n, S # {}
  PROVE  Max(S) \in S /\ \A x \in S : x <= Max(S)
<1> DEFINE D == {n - x : x \in S}
<1>1. D \in SUBSET Nat /\ D # {}
  OBVIOUS
<1>2. Min(D) \in D /\ \A d \in D : Min(D) <= d
  BY <1>1, MinOfNats
<1>3. PICK x \in S : Min(D) = n - x
  BY <1>2
<1>4. \A y \in S : x >= y
  BY <1>2, <1>3
<1> QED
  BY <1>4 DEF Max

LEMMA MinOfTwo ==
  ASSUME NEW a \in Nat, NEW b \in Nat
  PROVE  Min({a, b}) \in {a, b} /\ Min({a, b}) <= a /\ Min({a, b}) <= b
BY MinOfNats

LEMMA MaxOfTwo ==
  ASSUME NEW a \in Nat, NEW b \in Nat
  PROVE  Max({a, b}) \in {a, b} /\ Max({a, b}) >= a /\ Max({a, b}) >= b
<1>1. {a, b} \in SUBSET 0..(a + b)
  OBVIOUS
<1> QED
  BY <1>1, MaxOfNats

-----------------------------------------------------------------------------
(* Logs *)

LEMMA LogTypes ==
  ASSUME NEW l \in Logs
  PROVE  /\ l.index \in Nat /\ l.term \in Nat /\ l.entries \in Seq(Entry)
         /\ lastIndex(l) \in Nat /\ l.index <= lastIndex(l)
         /\ lastIndex(l) = l.index + Len(l.entries)
BY DEF Logs, lastIndex

LEMMA TermTypes ==
  ASSUME NEW l \in Logs, NEW k \in l.index..lastIndex(l)
  PROVE  termAt(l, k) \in Nat
<1>1. l.entries \in Seq(Entry) /\ l.index \in Nat /\ l.term \in Nat
  BY LogTypes
<1>2. CASE k = l.index
  BY <1>1, <1>2 DEF termAt
<1>3. CASE k # l.index
  <2>1. k - l.index \in 1..Len(l.entries)
    BY <1>1, <1>3 DEF lastIndex
  <2>2. l.entries[k - l.index] \in Entry
    BY <1>1, <2>1
  <2> QED
    BY <1>3, <2>2 DEF termAt, Entry
<1> QED
  BY <1>2, <1>3

\* A slice within the range of a sequence.
LEMMA SubSeqTypes ==
  ASSUME NEW S, NEW s \in Seq(S), NEW m \in Nat \ {0}, NEW n \in Int, n <= Len(s)
  PROVE  /\ SubSeq(s, m, n) \in Seq(S)
         /\ Len(SubSeq(s, m, n)) = IF m <= n + 1 THEN n - m + 1 ELSE 0
OBVIOUS

\* What is left of a log behind an index of it.
LEMMA DropTypes ==
  ASSUME NEW l \in Logs, NEW k \in l.index..lastIndex(l)
  PROVE  /\ dropThrough(l, k) \in Seq(Entry)
         /\ Len(dropThrough(l, k)) = lastIndex(l) - k
<1>1. /\ l.index \in Nat /\ l.entries \in Seq(Entry)
      /\ lastIndex(l) = l.index + Len(l.entries)
  BY LogTypes
<1> DEFINE first == k - l.index + 1
           last == Len(l.entries)
<1>2. first \in Nat \ {0} /\ last \in Int /\ first <= last + 1
      /\ last - first + 1 = lastIndex(l) - k
  BY <1>1
<1> HIDE DEF first, last
<1>3. /\ SubSeq(l.entries, first, last) \in Seq(Entry)
      /\ Len(SubSeq(l.entries, first, last)) = last - first + 1
  BY <1>1, <1>2, SubSeqTypes DEF last
<1> QED
  BY <1>2, <1>3 DEF dropThrough, first, last

\* The log after the loop of AppendEntries: it starts where it did, and it reaches
\* as far as the request.
LEMMA AppendTypes ==
  ASSUME NEW l \in Logs, NEW entries \in Seq(Entry),
         NEW prev \in l.index..lastIndex(l)
  PROVE  /\ appendEntries(l, prev, entries) \in Logs
         /\ appendEntries(l, prev, entries).index = l.index
<1> DEFINE new == newEntries(l, prev, entries)
           first == Min(new)
           kept == SubSeq(l.entries, 1, prev + first - 1 - l.index)
           sent == SubSeq(entries, first, Len(entries))
<1>1. CASE new = {}
  BY <1>1 DEF appendEntries
<1>2. CASE new # {}
  <2>1. new \in SUBSET Nat /\ \A n \in new : n \in 1..Len(entries)
    BY DEF newEntries
  <2>2. first \in 1..Len(entries) /\ \A n \in new : first <= n
    BY <1>2, <2>1, MinOfNats
  <2>3. l.index \in Nat /\ l.entries \in Seq(Entry)
        /\ lastIndex(l) = l.index + Len(l.entries) /\ prev \in Nat
    BY LogTypes
  <2>4. prev + first - 1 <= lastIndex(l)
    <3>1. CASE first = 1
      BY <2>3, <3>1
    <3>2. CASE first # 1
      <4>1. first - 1 \in 1..Len(entries) /\ first - 1 \notin new
        BY <2>1, <2>2, <3>2
      <4>2. ~isNewEntry(l, prev, entries, first - 1)
        BY <4>1 DEF newEntries
      <4> HIDE DEF first
      <4> QED
        BY <2>2, <2>3, <4>2 DEF isNewEntry
    <3> QED
      BY <3>1, <3>2
  <2> HIDE DEF new, first
  <2>5. kept \in Seq(Entry)
    BY <2>2, <2>3, <2>4, SubSeqTypes
  <2>6. sent \in Seq(Entry)
    BY <2>2, SubSeqTypes
  <2>7. kept \o sent \in Seq(Entry)
    BY <2>5, <2>6
  <2>8. appendEntries(l, prev, entries) = withEntries(l, kept \o sent)
    BY <1>2 DEF appendEntries, new, first
  <2> HIDE DEF kept, sent
  <2> QED
    BY <2>7, <2>8, LogTypes DEF withEntries, Logs
<1> QED
  BY <1>1, <1>2

-----------------------------------------------------------------------------
(* Messages *)

LEMMA MessageKinds ==
  ASSUME NodeTypes, NEW m \in messages
  PROVE  /\ m \in Message
         /\ m.from \in Server /\ m.to \in Server
         /\ m.type = "RequestVote" => m \in VoteRequest
         /\ m.type = "RequestVoteResponse" => m \in VoteResponse
         /\ m.type = "AppendEntries" => m \in AppendRequest
         /\ m.type = "AppendEntriesResponse" => m \in AppendResponse
         /\ m.type = "InstallSnapshot" => m \in SnapshotRequest
         /\ m.type = "InstallSnapshotResponse" => m \in SnapshotResponse
<1>1. m \in Message
  BY DEF NodeTypes
<1> QED
  BY <1>1 DEF Message, VoteRequest, VoteResponse, AppendRequest, AppendResponse,
              SnapshotRequest, SnapshotResponse

LEMMA TrafficTypes ==
  ASSUME NodeTypes, NEW m \in messages, ~isVoteMsg(m)
  PROVE  sender(m) \in Server /\ epoch(m) \in Nat /\ reach(m) \in Nat
<1>1. m \in AppendRequest \cup AppendResponse \cup SnapshotRequest \cup SnapshotResponse
  BY MessageKinds DEF isVoteMsg, Message, VoteRequest, VoteResponse
<1>2. CASE m \in AppendRequest
  BY <1>2 DEF AppendRequest, sender, epoch, reach, isRequest
<1>3. CASE m \in AppendResponse
  BY <1>3 DEF AppendResponse, sender, epoch, reach, isRequest
<1>4. CASE m \in SnapshotRequest
  BY <1>4 DEF SnapshotRequest, sender, epoch, reach, isRequest
<1>5. CASE m \in SnapshotResponse
  BY <1>5 DEF SnapshotResponse, sender, epoch, reach, isRequest
<1> QED
  BY <1>1, <1>2, <1>3, <1>4, <1>5

\* How a step may change a server's role: a candidacy needs a new term, and a
\* leader was a candidate or has kept its log.
KeepsRole(i) ==
  /\ currentTerm'[i] >= currentTerm[i]
  /\ state'[i] = "Candidate" /\ currentTerm'[i] = currentTerm[i]
       => state[i] = "Candidate"
  /\ state'[i] = "Leader" =>
       /\ currentTerm'[i] = currentTerm[i]
       /\ \/ state[i] = "Candidate"
          \/ state[i] = "Leader" /\ lastIndex(logs'[i]) >= lastIndex(logs[i])

\* Every replication message on the wire stands for one that was there before.
TrafficKept ==
  \A n \in messages' : ~isVoteMsg(n) =>
    \E m \in messages :
      /\ ~isVoteMsg(m)
      /\ sender(n) = sender(m) /\ epoch(n) = epoch(m) /\ reach(n) = reach(m)

LEMMA TrafficSurvives ==
  ASSUME TypeInv, currentTerm' \in [Server -> Nat], logs' \in [Server -> Logs],
         \A i \in Server : KeepsRole(i), TrafficKept
  PROVE  SentByLeaders' /\ MessagesInRange'
<1> SUFFICES ASSUME NEW n \in messages', ~isVoteMsg(n)
             PROVE  /\ epoch(n) <= currentTerm'[sender(n)]
                    /\ epoch(n) = currentTerm'[sender(n)]
                         => state'[sender(n)] # "Candidate"
                    /\ /\ state'[sender(n)] = "Leader"
                       /\ epoch(n) = currentTerm'[sender(n)]
                       => reach(n) <= lastIndex(logs'[sender(n)])
  BY DEF SentByLeaders, MessagesInRange
<1>1. PICK m \in messages :
        /\ ~isVoteMsg(m)
        /\ sender(n) = sender(m) /\ epoch(n) = epoch(m) /\ reach(n) = reach(m)
  BY DEF TrafficKept
<1>2. sender(m) \in Server /\ epoch(m) \in Nat /\ reach(m) \in Nat
  BY <1>1, TrafficTypes DEF TypeInv
<1>3. /\ epoch(m) <= currentTerm[sender(m)]
      /\ epoch(m) = currentTerm[sender(m)] => state[sender(m)] # "Candidate"
      /\ state[sender(m)] = "Leader" /\ epoch(m) = currentTerm[sender(m)]
           => reach(m) <= lastIndex(logs[sender(m)])
  BY <1>1 DEF TypeInv, SentByLeaders, MessagesInRange
<1>4. /\ currentTerm[sender(m)] \in Nat /\ currentTerm'[sender(m)] \in Nat
      /\ lastIndex(logs[sender(m)]) \in Nat
      /\ lastIndex(logs'[sender(m)]) \in Nat
  BY <1>2, LogTypes DEF TypeInv, NodeTypes
<1>5. KeepsRole(sender(m))
  BY <1>2
<1> QED
  BY <1>1, <1>2, <1>3, <1>4, <1>5 DEF KeepsRole

\* A server whose role, term and log are as they were.
LEMMA SameRole ==
  ASSUME NodeTypes, NEW i \in Server, state'[i] = state[i],
         currentTerm'[i] = currentTerm[i], logs'[i] = logs[i]
  PROVE  KeepsRole(i)
BY LogTypes DEF KeepsRole, NodeTypes

\* The invariants of nextIndex hold on if no leader's nextIndex or log changes.
LEMMA SameNext ==
  ASSUME NextInRange, logs' = logs, nextIndex' = nextIndex,
         \A i \in Server : state'[i] = "Leader" => state[i] = "Leader"
  PROVE  NextInRange'
BY DEF NextInRange

\* What was known to be committed still is, when commitIndex, the logs and the
\* snapshots handed out are the same and no request is new.
NoNewRequest ==
  \A n \in messages' : isRequest(n) => n \in messages

LEMMA SameCommit ==
  ASSUME CommitKnown, SnapshotsLabelled, NoNewRequest,
         UNCHANGED <<logs, commitIndex, applyCh, committed>>
  PROVE  CommitKnown' /\ SnapshotsLabelled'
BY DEF CommitKnown, SnapshotsLabelled, NoNewRequest, isRequest

-----------------------------------------------------------------------------
(* The persister *)

\* The hard state has its types, and only server i's may have changed.
HardTypes(i) ==
  /\ currentTerm' \in [Server -> Nat]
  /\ votedFor' \in [Server -> Server \cup {Nil}]
  /\ logs' \in [Server -> Logs]
  /\ \A k \in Server \ {i} : /\ currentTerm'[k] = currentTerm[k]
                             /\ votedFor'[k] = votedFor[k]
                             /\ logs'[k] = logs[k]

LEMMA PersistTypes ==
  ASSUME NodeTypes, Durable, NEW i \in Server, HardTypes(i),
         \/ persist(i) /\ logs'[i].index = logs[i].index
         \/ persistWithSnapshot(i, logs'[i].index)
  PROVE  persister' \in [Server -> HardState] /\ Durable'
<1>1. logs[i].index \in Nat /\ logs'[i].index \in Nat
  BY LogTypes DEF NodeTypes, HardTypes
<1>2. persister[i].snapshot = logs[i].index
  <2>1. persister[i] = [currentTerm |-> currentTerm[i], votedFor |-> votedFor[i],
                        logs |-> logs[i], snapshot |-> logs[i].index]
    BY DEF Durable
  <2> QED
    BY <2>1
<1>3. persister' = [persister EXCEPT ![i] =
        [currentTerm |-> currentTerm'[i], votedFor |-> votedFor'[i],
         logs |-> logs'[i], snapshot |-> logs'[i].index]]
  BY <1>2 DEF persist, persistWithSnapshot
<1>4. persister' \in [Server -> HardState]
  BY <1>1, <1>3 DEF NodeTypes, HardTypes, HardState
<1>5. Durable'
  BY <1>3 DEF Durable, HardTypes, NodeTypes
<1> QED
  BY <1>4, <1>5

-----------------------------------------------------------------------------
(* Elections *)

LEMMA InitTypes ==
  ASSUME Init
  PROVE  TypeInv
BY DEF Init, TypeInv, NodeTypes, Durable, SentByLeaders, MessagesInRange,
         NextInRange, RefusalsBackUp, CommitKnown, SnapshotsLabelled, HardState,
         Logs

LEMMA ElectionTimeoutTypes ==
  ASSUME TypeInv, NEW i \in Server, ElectionTimeout(i)
  PROVE  TypeInv'
<1> USE DEF TypeInv
<1> DEFINE last == lastIndex(logs[i])
<1>1. last \in Nat /\ termAt(logs[i], last) \in Nat
  <2>1. logs[i] \in Logs
    BY DEF NodeTypes
  <2>2. last \in Nat /\ last \in logs[i].index..lastIndex(logs[i])
    BY <2>1, LogTypes
  <2> QED
    BY <2>1, <2>2, TermTypes
<1>2. /\ UNCHANGED <<logs, commitIndex, nextIndex, matchIndex, applyCh, committed>>
      /\ persist(i)
  BY DEF ElectionTimeout, leaderVars
<1>3. \A n \in messages' : n \in messages \/ n \in VoteRequest
  BY <1>1, SMTT(30) DEF ElectionTimeout, VoteRequest, NodeTypes
<1>4. /\ state' \in [Server -> {"Follower", "Candidate", "Leader"}]
      /\ grantedVotes' \in [Server -> Nat]
      /\ votes' \subseteq Nat \X Server \X Server
      /\ HardTypes(i)
      /\ \A k \in Server : state'[k] = "Leader" => state[k] = "Leader"
  BY <1>2 DEF ElectionTimeout, NodeTypes, HardTypes
<1>5. persister' \in [Server -> HardState] /\ Durable'
  BY <1>2, <1>4, PersistTypes
<1>6. NodeTypes'
  BY <1>2, <1>3, <1>4, <1>5 DEF NodeTypes, Message, HardTypes
<1>7. \A k \in Server : KeepsRole(k)
  <2>1. KeepsRole(i)
    BY DEF ElectionTimeout, NodeTypes, KeepsRole
  <2>2. ASSUME NEW k \in Server, k # i PROVE KeepsRole(k)
    BY <2>2, <1>2, SameRole DEF ElectionTimeout, NodeTypes
  <2> QED
    BY <2>1, <2>2
<1>8. TrafficKept /\ NoNewRequest
  BY <1>3 DEF TrafficKept, NoNewRequest, isVoteMsg, isRequest, VoteRequest
<1>9. SentByLeaders' /\ MessagesInRange'
  BY <1>4, <1>7, <1>8, TrafficSurvives DEF HardTypes
<1>10. NextInRange' /\ CommitKnown' /\ SnapshotsLabelled'
  BY <1>2, <1>4, <1>8, SameNext, SameCommit
<1>11. RefusalsBackUp'
  BY <1>3 DEF RefusalsBackUp, VoteRequest
<1> QED
  BY <1>5, <1>6, <1>9, <1>10, <1>11

\* The part of NodeTypes that a vote changes.
VoterTypes ==
  /\ state \in [Server -> {"Follower", "Candidate", "Leader"}]
  /\ currentTerm \in [Server -> Nat]
  /\ votedFor \in [Server -> Server \cup {Nil}]
  /\ votes \subseteq Nat \X Server \X Server

LEMMA FewerMessages ==
  ASSUME RefusalsBackUp, messages' \subseteq messages
  PROVE  TrafficKept /\ NoNewRequest /\ RefusalsBackUp'
BY DEF TrafficKept, NoNewRequest, RefusalsBackUp

\* The voter's answer keeps its log, and with it what the log has to satisfy.
LEMMA RequestVoteTypes ==
  ASSUME TypeInv, NEW m \in messages, RequestVote(m)
  PROVE  TypeInv'
<1> USE DEF TypeInv
<1>1. /\ m \in VoteRequest /\ m.to \in Server
      /\ m.from \in Server /\ m.term \in Nat
  BY MessageKinds DEF RequestVote, VoteRequest
<1>2. /\ UNCHANGED <<logs, commitIndex, nextIndex, matchIndex, grantedVotes,
                     applyCh, committed>>
      /\ persist(m.to)
  BY DEF RequestVote, RefuseVote, DenyVote, GrantVote, hardVars, leaderVars
<1>3. \E term \in Nat, granted \in BOOLEAN :
        messages' = (messages \ {m}) \cup {voteResponse(m, term, granted)}
  BY <1>1 DEF RequestVote, RefuseVote, DenyVote, GrantVote, Reply, NodeTypes
<1>4. \A n \in messages' : n \in messages \/ n \in VoteResponse
  BY <1>1, <1>3 DEF voteResponse, VoteResponse
<1>5. /\ VoterTypes'
      /\ \A k \in Server \ {m.to} :
           currentTerm'[k] = currentTerm[k] /\ votedFor'[k] = votedFor[k]
      /\ \A k \in Server :
           /\ currentTerm'[k] >= currentTerm[k]
           /\ \/ state'[k] = "Follower"
              \/ state'[k] = state[k] /\ currentTerm'[k] = currentTerm[k]
  <2>1. VoterTypes
    BY DEF VoterTypes, NodeTypes
  <2>2. CASE RefuseVote(m)
    BY <2>1, <2>2 DEF RefuseVote, hardVars, VoterTypes
  <2>3. CASE DenyVote(m)
    BY <1>1, <2>1, <2>3 DEF DenyVote, adoptTerm, mustRefuse, VoterTypes
  <2>4. CASE GrantVote(m)
    BY <1>1, <2>1, <2>4 DEF GrantVote, mustRefuse, VoterTypes
  <2> QED
    BY <2>2, <2>3, <2>4 DEF RequestVote
<1>6. HardTypes(m.to)
  BY <1>2, <1>5 DEF HardTypes, VoterTypes, NodeTypes
<1>7. persister' \in [Server -> HardState] /\ Durable'
  BY <1>1, <1>2, <1>6, PersistTypes
<1>8. NodeTypes'
  BY <1>2, <1>4, <1>5, <1>6, <1>7 DEF NodeTypes, Message, HardTypes, VoterTypes
<1>9. \A k \in Server : KeepsRole(k)
  BY <1>2, <1>5, <1>6, LogTypes DEF KeepsRole, HardTypes
<1>10. TrafficKept /\ NoNewRequest
  BY <1>4 DEF TrafficKept, NoNewRequest, isVoteMsg, isRequest, VoteResponse
<1>11. SentByLeaders' /\ MessagesInRange'
  BY <1>6, <1>9, <1>10, TrafficSurvives DEF HardTypes
<1>12. NextInRange' /\ CommitKnown' /\ SnapshotsLabelled'
  BY <1>2, <1>5, <1>10, SameNext, SameCommit
<1>13. RefusalsBackUp'
  BY <1>4 DEF RefusalsBackUp, VoteResponse
<1> QED
  BY <1>7, <1>8, <1>11, <1>12, <1>13

\* A message that is lost, or an answer that changes nothing.
LEMMA IgnoredTypes ==
  ASSUME TypeInv, NEW m \in messages, messages' = messages \ {m},
         UNCHANGED <<state, hardVars, commitIndex, leaderVars, grantedVotes,
                     persister, applyCh, votes, committed>>
  PROVE  TypeInv'
<1> USE DEF TypeInv, hardVars, leaderVars
<1>1. NodeTypes' /\ Durable'
  BY DEF NodeTypes, Durable
<1>2. TrafficKept /\ NoNewRequest /\ RefusalsBackUp'
  BY FewerMessages
<1>3. \A k \in Server : KeepsRole(k)
  BY SameRole
<1>4. SentByLeaders' /\ MessagesInRange'
  BY <1>2, <1>3, TrafficSurvives DEF NodeTypes
<1>5. NextInRange' /\ CommitKnown' /\ SnapshotsLabelled'
  BY <1>2, SameNext, SameCommit
<1> QED
  BY <1>1, <1>2, <1>4, <1>5

\* Only i changes, to a follower of a term not below its own.
Follows(i) ==
  /\ state' \in [Server -> {"Follower", "Candidate", "Leader"}]
  /\ currentTerm' \in [Server -> Nat]
  /\ votedFor' \in [Server -> Server \cup {Nil}]
  /\ \A k \in Server \ {i} :
       currentTerm'[k] = currentTerm[k] /\ votedFor'[k] = votedFor[k]
  /\ \A k \in Server : currentTerm'[k] >= currentTerm[k]
  /\ state'[i] = "Follower"
  /\ \A k \in Server \ {i} : state'[k] = state[k]

\* A server that adopts a term and becomes a follower.
LEMMA FollowTypes ==
  ASSUME NodeTypes, NEW i \in Server, NEW term \in Nat, term >= currentTerm[i],
         adoptTerm(i, term), state' = [state EXCEPT ![i] = "Follower"]
  PROVE  Follows(i)
<1>1. VoterTypes
  BY DEF VoterTypes, NodeTypes
<1>2. /\ state' \in [Server -> {"Follower", "Candidate", "Leader"}]
      /\ currentTerm' \in [Server -> Nat]
      /\ votedFor' \in [Server -> Server \cup {Nil}]
  BY <1>1 DEF VoterTypes, adoptTerm
<1>3. ASSUME NEW k \in Server
      PROVE  /\ currentTerm'[k] >= currentTerm[k]
             /\ k # i => /\ currentTerm'[k] = currentTerm[k]
                         /\ votedFor'[k] = votedFor[k] /\ state'[k] = state[k]
             /\ state'[i] = "Follower"
  BY <1>1 DEF VoterTypes, adoptTerm
<1> QED
  BY <1>2, <1>3 DEF Follows

\* An answer with a newer term.
LEMMA StepDownTypes ==
  ASSUME TypeInv, NEW m \in messages, messages' = messages \ {m},
         stepDown(m.to, m.term), m.term \in Nat, m.term > currentTerm[m.to],
         UNCHANGED <<commitIndex, leaderVars, grantedVotes, applyCh, votes,
                     committed>>
  PROVE  TypeInv'
<1> USE DEF TypeInv, leaderVars
<1>1. m.to \in Server
  BY MessageKinds
<1>2. /\ state' \in [Server -> {"Follower", "Candidate", "Leader"}]
      /\ HardTypes(m.to) /\ logs' = logs /\ persist(m.to)
      /\ \A k \in Server : \/ state'[k] = "Follower"
                           \/ /\ state'[k] = state[k]
                              /\ currentTerm'[k] = currentTerm[k]
      /\ \A k \in Server : currentTerm'[k] >= currentTerm[k]
  <2>1. /\ adoptTerm(m.to, m.term) /\ persist(m.to) /\ logs' = logs
        /\ state' = [state EXCEPT ![m.to] = "Follower"]
    BY DEF stepDown
  <2>2. m.term >= currentTerm[m.to]
    BY <1>1 DEF NodeTypes
  <2>3. logs' \in [Server -> Logs]
    BY <2>1 DEF NodeTypes
  <2>4. Follows(m.to)
    <3>1. NodeTypes
      OBVIOUS
    <3> HIDE DEF TypeInv
    <3> QED
      BY <1>1, <2>1, <2>2, <3>1, FollowTypes
  <2> QED
    BY <2>1, <2>3, <2>4 DEF HardTypes, Follows
<1>3. persister' \in [Server -> HardState] /\ Durable'
  BY <1>1, <1>2, PersistTypes
<1>4. NodeTypes'
  BY <1>2, <1>3 DEF NodeTypes, HardTypes
<1>5. TrafficKept /\ NoNewRequest /\ RefusalsBackUp'
  BY FewerMessages
<1>6. \A k \in Server : KeepsRole(k)
  BY <1>2, LogTypes, SMTT(30) DEF KeepsRole, NodeTypes
<1>7. SentByLeaders' /\ MessagesInRange'
  BY <1>2, <1>5, <1>6, TrafficSurvives DEF HardTypes
<1>8. NextInRange' /\ CommitKnown' /\ SnapshotsLabelled'
  BY <1>2, <1>5, SameNext, SameCommit
<1> QED
  BY <1>3, <1>4, <1>5, <1>7, <1>8

\* A new leader's nextIndex is just beyond its log.
LEMMA CountVoteTypes ==
  ASSUME TypeInv, NEW m \in messages, messages' = messages \ {m}, CountVote(m),
         UNCHANGED <<commitIndex, applyCh, votes, committed>>
  PROVE  TypeInv'
<1> USE DEF TypeInv, hardVars
<1> DEFINE i == m.to
<1>1. i \in Server /\ lastIndex(logs[i]) \in Nat
  BY MessageKinds, LogTypes DEF NodeTypes
<1>2. /\ state[i] = "Candidate"
      /\ UNCHANGED <<currentTerm, votedFor, logs, persister>>
      /\ grantedVotes' = [grantedVotes EXCEPT ![i] = @ + 1]
      /\ becomeLeader(i) \/ UNCHANGED <<state, nextIndex, matchIndex>>
  BY DEF CountVote, isCurrentElection, leaderVars
<1>3. /\ state' \in [Server -> {"Follower", "Candidate", "Leader"}]
      /\ nextIndex' \in [Server -> [Server -> Int]]
      /\ matchIndex' \in [Server -> [Server -> Nat]]
      /\ grantedVotes' \in [Server -> Nat]
      /\ \A k \in Server : KeepsRole(k)
      /\ NextInRange'
  <2>1. grantedVotes' \in [Server -> Nat]
    BY <1>1, <1>2 DEF NodeTypes
  <2>2. CASE UNCHANGED <<state, nextIndex, matchIndex>>
    BY <1>2, <2>1, <2>2, SameRole, SameNext DEF NodeTypes
  <2>3. CASE becomeLeader(i)
    <3>1. /\ state' = [state EXCEPT ![i] = "Leader"]
          /\ nextIndex' = [nextIndex EXCEPT ![i] =
                             [j \in Server |-> lastIndex(logs[i]) + 1]]
          /\ matchIndex' = [matchIndex EXCEPT ![i] = [j \in Server |-> 0]]
      BY <2>3 DEF becomeLeader
    <3>2. state' \in [Server -> {"Follower", "Candidate", "Leader"}]
      BY <3>1 DEF NodeTypes
    <3>3. nextIndex' \in [Server -> [Server -> Int]]
      BY <1>1, <3>1 DEF NodeTypes
    <3>4. matchIndex' \in [Server -> [Server -> Nat]]
      BY <3>1 DEF NodeTypes
    <3>5. KeepsRole(i)
      BY <1>1, <1>2, <3>1 DEF KeepsRole, NodeTypes
    <3>6. ASSUME NEW k \in Server, k # i PROVE KeepsRole(k)
      BY <1>2, <3>1, <3>6, SameRole DEF NodeTypes
    <3>7. ASSUME NEW k \in Server, state'[k] = "Leader", NEW j \in Server \ {k}
          PROVE  nextIndex'[k][j] - 1 <= lastIndex(logs'[k])
      <4>1. CASE k = i
        BY <1>1, <1>2, <3>1, <4>1 DEF NodeTypes
      <4>2. CASE k # i
        BY <1>2, <3>1, <3>7, <4>2 DEF NodeTypes, NextInRange
      <4> QED
        BY <4>1, <4>2
    <3> QED
      BY <2>1, <3>2, <3>3, <3>4, <3>5, <3>6, <3>7 DEF NextInRange
  <2> QED
    BY <1>2, <2>2, <2>3
<1>4. NodeTypes' /\ Durable'
  BY <1>2, <1>3 DEF NodeTypes, Durable
<1>5. TrafficKept /\ NoNewRequest /\ RefusalsBackUp'
  BY FewerMessages
<1>6. SentByLeaders' /\ MessagesInRange'
  BY <1>2, <1>3, <1>5, TrafficSurvives DEF NodeTypes
<1>7. CommitKnown' /\ SnapshotsLabelled'
  BY <1>2, <1>5, SameCommit
<1> QED
  BY <1>3, <1>4, <1>5, <1>6, <1>7

LEMMA HandleVoteResponseTypes ==
  ASSUME TypeInv, NEW m \in messages, HandleVoteResponse(m)
  PROVE  TypeInv'
<1>1. m \in VoteResponse
  BY MessageKinds DEF HandleVoteResponse, TypeInv
<1> QED
  BY <1>1, CountVoteTypes, StepDownTypes, IgnoredTypes
     DEF HandleVoteResponse, LoseElection, IgnoreVoteResponse, VoteResponse

-----------------------------------------------------------------------------
(* The log of one server *)

\* What a leader has sent, and its nextIndex, stay in range if its log grows.
LEMMA LongerLog ==
  ASSUME TypeInv, NEW i \in Server, logs' \in [Server -> Logs],
         \A k \in Server \ {i} : logs'[k] = logs[k],
         lastIndex(logs'[i]) >= lastIndex(logs[i]),
         \A k \in Server : \A j \in Server \ {k} : nextIndex'[k][j] = nextIndex[k][j],
         UNCHANGED <<state, currentTerm, messages>>
  PROVE  SentByLeaders' /\ MessagesInRange' /\ NextInRange'
<1> USE DEF TypeInv
<1>1. ASSUME NEW k \in Server
      PROVE  /\ lastIndex(logs'[k]) >= lastIndex(logs[k])
             /\ lastIndex(logs'[k]) \in Nat /\ lastIndex(logs[k]) \in Nat
  <2>1. lastIndex(logs'[k]) \in Nat /\ lastIndex(logs[k]) \in Nat
    BY LogTypes DEF NodeTypes
  <2>2. k # i => lastIndex(logs'[k]) = lastIndex(logs[k])
    OBVIOUS
  <2> QED
    BY <2>1, <2>2
<1>2. \A k \in Server : KeepsRole(k)
  BY <1>1 DEF KeepsRole, NodeTypes
<1>3. SentByLeaders' /\ MessagesInRange'
  BY <1>2, TrafficSurvives DEF TrafficKept, NodeTypes
<1>4. ASSUME NEW k \in Server, state'[k] = "Leader", NEW j \in Server \ {k}
      PROVE  nextIndex'[k][j] - 1 <= lastIndex(logs'[k])
  <2>1. nextIndex'[k][j] = nextIndex[k][j] /\ nextIndex[k][j] \in Int
    BY DEF NodeTypes
  <2>2. nextIndex[k][j] - 1 <= lastIndex(logs[k])
    BY <1>4 DEF NextInRange
  <2> QED
    BY <1>1, <2>1, <2>2
<1> QED
  BY <1>3, <1>4 DEF NextInRange

\* Start appends behind everything the leader has sent.
LEMMA StartTypes ==
  ASSUME TypeInv, NEW i \in Server, NEW v \in Value, Start(i, v)
  PROVE  TypeInv'
<1> USE DEF TypeInv
<1> DEFINE l == logs[i]
           e == [term |-> currentTerm[i], command |-> v]
           new == withEntries(l, Append(l.entries, e))
           index == lastIndex(l) + 1
<1>1. /\ UNCHANGED <<state, currentTerm, votedFor, commitIndex, grantedVotes,
                     applyCh, messages, votes, committed>>
      /\ logs' = [logs EXCEPT ![i] = new] /\ persist(i)
      /\ matchIndex' = [matchIndex EXCEPT ![i][i] = index]
      /\ nextIndex' = [nextIndex EXCEPT ![i][i] = index + 1]
  BY DEF Start, setProgress, history
<1>2. l \in Logs /\ e \in Entry
  BY DEF NodeTypes, Entry
<1>3. new \in Logs /\ new.index = l.index /\ lastIndex(new) = index
      /\ index \in Nat
  <2>1. /\ l.index \in Nat /\ l.term \in Nat /\ l.entries \in Seq(Entry)
        /\ lastIndex(l) = l.index + Len(l.entries)
    BY <1>2, LogTypes
  <2>2. Append(l.entries, e) \in Seq(Entry)
        /\ Len(Append(l.entries, e)) = Len(l.entries) + 1
    BY <1>2, <2>1
  <2> HIDE DEF l, e
  <2> QED
    BY <2>1, <2>2 DEF withEntries, Logs, lastIndex
<1> HIDE DEF new, index
<1>4. /\ logs' \in [Server -> Logs]
      /\ nextIndex' \in [Server -> [Server -> Int]]
      /\ matchIndex' \in [Server -> [Server -> Nat]]
  BY <1>1, <1>3 DEF NodeTypes
<1>5. HardTypes(i) /\ logs'[i].index = l.index
  BY <1>1, <1>3, <1>4 DEF HardTypes, NodeTypes
<1>6. persister' \in [Server -> HardState] /\ Durable'
  BY <1>1, <1>5, PersistTypes
<1>7. NodeTypes'
  BY <1>1, <1>4, <1>6 DEF NodeTypes
<1>8. lastIndex(logs'[i]) = lastIndex(logs[i]) + 1
  BY <1>1, <1>3 DEF NodeTypes, index
<1>9. SentByLeaders' /\ MessagesInRange' /\ NextInRange'
  <2>1. \A k \in Server : \A j \in Server \ {k} : nextIndex'[k][j] = nextIndex[k][j]
    BY <1>1 DEF NodeTypes
  <2>2. lastIndex(logs'[i]) >= lastIndex(logs[i])
    BY <1>2, <1>8, LogTypes
  <2> QED
    BY <1>1, <1>4, <1>5, <2>1, <2>2, LongerLog DEF HardTypes
<1>10. CommitKnown' /\ SnapshotsLabelled' /\ RefusalsBackUp'
  <2>1. \A k \in Server : logs'[k].index = logs[k].index
    BY <1>1, <1>5 DEF NodeTypes
  <2> QED
    BY <1>1, <2>1 DEF CommitKnown, SnapshotsLabelled, RefusalsBackUp
<1> QED
  BY <1>6, <1>7, <1>9, <1>10

\* A snapshot starts the log at the index whose entry it cuts.
LEMMA SnapshotTypes ==
  ASSUME TypeInv, NEW i \in Server, NEW index \in Nat, Snapshot(i, index)
  PROVE  TypeInv'
<1> USE DEF TypeInv
<1> DEFINE l == logs[i]
           new == [index |-> index, term |-> termAt(l, index),
                   entries |-> dropThrough(l, index)]
<1>1. /\ UNCHANGED <<state, currentTerm, votedFor, commitIndex, nextIndex,
                     matchIndex, grantedVotes, applyCh, messages, votes, committed>>
      /\ logs' = [logs EXCEPT ![i] = new] /\ persistWithSnapshot(i, index)
      /\ l.index < index /\ index <= commitIndex[i] /\ index <= lastIndex(l)
  BY DEF Snapshot, leaderVars, history
<1>2. l \in Logs
  BY DEF NodeTypes
<1>3. new \in Logs /\ new.index = index /\ lastIndex(new) = lastIndex(l)
  <2>1. /\ l.index \in Nat /\ l.entries \in Seq(Entry)
        /\ lastIndex(l) = l.index + Len(l.entries)
    BY <1>2, LogTypes
  <2>2. termAt(l, index) \in Nat
    BY <1>1, <1>2, <2>1, TermTypes
  <2>3. /\ dropThrough(l, index) \in Seq(Entry)
        /\ Len(dropThrough(l, index)) = lastIndex(l) - index
    BY <1>1, <1>2, <2>1, DropTypes
  <2>4. new \in Logs
    BY <2>2, <2>3 DEF Logs
  <2>5. lastIndex(new) = index + Len(dropThrough(l, index))
    BY DEF lastIndex
  <2>6. lastIndex(new) = lastIndex(l)
    BY <1>1, <2>1, <2>3, <2>5
  <2> QED
    BY <2>4, <2>6
<1> HIDE DEF new
<1>4. logs' \in [Server -> Logs]
  BY <1>1, <1>3 DEF NodeTypes
<1>5. HardTypes(i) /\ logs'[i] = new
  BY <1>1, <1>4 DEF HardTypes, NodeTypes
<1>6. persister' \in [Server -> HardState] /\ Durable'
  BY <1>1, <1>3, <1>5, PersistTypes
<1>7. NodeTypes'
  BY <1>1, <1>4, <1>6 DEF NodeTypes
<1>8. SentByLeaders' /\ MessagesInRange' /\ NextInRange'
  <2>1. lastIndex(logs'[i]) >= lastIndex(logs[i])
    BY <1>2, <1>3, <1>5, LogTypes
  <2> QED
    BY <1>1, <1>4, <1>5, <2>1, LongerLog DEF HardTypes
<1>9. CommitKnown' /\ SnapshotsLabelled' /\ RefusalsBackUp'
  BY <1>1, <1>3, <1>5
     DEF CommitKnown, SnapshotsLabelled, RefusalsBackUp, HardTypes
<1> QED
  BY <1>6, <1>7, <1>8, <1>9

\* The installed snapshot is beyond commitIndex, so what it keeps is in the log.
LEMMA CondInstallSnapshotTypes ==
  ASSUME TypeInv, NEW i \in Server, NEW p \in applyCh[i], CondInstallSnapshot(i, p)
  PROVE  TypeInv'
<1> USE DEF TypeInv
<1> DEFINE l == logs[i]
           kept == IF p.index > lastIndex(l) THEN <<>> ELSE dropThrough(l, p.index)
           new == [index |-> p.index, term |-> p.term, entries |-> kept]
<1>1. /\ UNCHANGED <<state, currentTerm, votedFor, nextIndex, matchIndex,
                     grantedVotes, messages, votes, committed>>
      /\ applyCh' = [applyCh EXCEPT ![i] = @ \ {p}]
  BY DEF CondInstallSnapshot, leaderVars, history
<1>2. /\ l \in Logs /\ commitIndex[i] \in Nat
      /\ p.index \in Nat /\ p.term \in Nat /\ p.data = p.index
      /\ l.index <= commitIndex[i] /\ p.index <= Len(committed)
  BY DEF NodeTypes, SnapshotMsg, CommitKnown, SnapshotsLabelled
<1>3. applyCh' \in [Server -> SUBSET SnapshotMsg]
      /\ \A k \in Server : applyCh'[k] \subseteq applyCh[k]
  BY <1>1 DEF NodeTypes
<1>4. RefusalsBackUp' /\ SnapshotsLabelled'
  BY <1>1, <1>3 DEF RefusalsBackUp, SnapshotsLabelled
<1>5. CASE isOutdated(i, p)
  <2>1. UNCHANGED <<logs, commitIndex, persister>>
    BY <1>5 DEF CondInstallSnapshot
  <2>2. NodeTypes' /\ Durable'
    BY <1>1, <1>3, <2>1 DEF NodeTypes, Durable
  <2>3. SentByLeaders' /\ MessagesInRange' /\ NextInRange'
    BY <1>1, <2>1 DEF SentByLeaders, MessagesInRange, NextInRange
  <2>4. CommitKnown'
    BY <1>1, <1>3, <2>1 DEF CommitKnown
  <2> QED
    BY <1>4, <2>2, <2>3, <2>4
<1>6. CASE ~isOutdated(i, p)
  <2>1. /\ logs' = [logs EXCEPT ![i] = new]
        /\ commitIndex' = [commitIndex EXCEPT ![i] = p.index]
        /\ persistWithSnapshot(i, p.data) /\ p.index > commitIndex[i]
    BY <1>2, <1>6 DEF CondInstallSnapshot, isOutdated
  <2>2. new \in Logs /\ new.index = p.index /\ lastIndex(new) >= lastIndex(l)
    <3>1. /\ l.index \in Nat /\ l.entries \in Seq(Entry)
          /\ lastIndex(l) = l.index + Len(l.entries)
      BY <1>2, LogTypes
    <3>2. kept \in Seq(Entry) /\ p.index + Len(kept) >= lastIndex(l)
      <4>1. CASE p.index > lastIndex(l)
        BY <1>2, <3>1, <4>1
      <4>2. CASE ~(p.index > lastIndex(l))
        <5>1. p.index \in l.index..lastIndex(l)
          BY <1>2, <2>1, <3>1, <4>2
        <5>2. /\ kept = dropThrough(l, p.index) /\ kept \in Seq(Entry)
              /\ Len(kept) = lastIndex(l) - p.index
          BY <1>2, <4>2, <5>1, DropTypes
        <5> QED
          BY <1>2, <3>1, <5>2
      <4> QED
        BY <4>1, <4>2
    <3> HIDE DEF l, kept
    <3> QED
      BY <1>2, <3>1, <3>2 DEF Logs, lastIndex
  <2> HIDE DEF new
  <2>3. /\ logs' \in [Server -> Logs]
        /\ commitIndex' \in [Server -> Nat]
    BY <1>2, <2>1, <2>2 DEF NodeTypes
  <2>4. HardTypes(i) /\ logs'[i] = new
    BY <1>1, <2>1, <2>3 DEF HardTypes, NodeTypes
  <2>5. persister' \in [Server -> HardState] /\ Durable'
    BY <1>2, <2>1, <2>2, <2>4, PersistTypes
  <2>6. NodeTypes'
    BY <1>1, <1>3, <2>3, <2>5 DEF NodeTypes
  <2>7. SentByLeaders' /\ MessagesInRange' /\ NextInRange'
    BY <1>1, <2>2, <2>3, <2>4, LongerLog DEF HardTypes
  <2>8. CommitKnown'
    <3>1. ASSUME NEW k \in Server
          PROVE  logs'[k].index <= commitIndex'[k] /\ commitIndex'[k] <= Len(committed)
      BY <1>2, <2>1, <2>2, <2>4 DEF CommitKnown, NodeTypes, HardTypes
    <3> QED
      BY <1>1, <1>3, <3>1 DEF CommitKnown
  <2> QED
    BY <1>4, <2>5, <2>6, <2>7, <2>8
<1> QED
  BY <1>5, <1>6

\* A restarted server resumes at its snapshot.
LEMMA RestartTypes ==
  ASSUME TypeInv, NEW i \in Server, Restart(i)
  PROVE  TypeInv'
<1> USE DEF TypeInv
<1>1. /\ persister[i].currentTerm = currentTerm[i]
      /\ persister[i].votedFor = votedFor[i]
      /\ persister[i].logs = logs[i]
  <2>1. persister[i] = [currentTerm |-> currentTerm[i], votedFor |-> votedFor[i],
                        logs |-> logs[i], snapshot |-> logs[i].index]
    BY DEF Durable
  <2> QED
    BY <2>1
<1>2. UNCHANGED <<currentTerm, votedFor, logs, persister, messages, votes, committed>>
  BY <1>1 DEF Restart, Make, NodeTypes, history
<1>3. /\ logs[i] \in Logs /\ logs[i].index \in Nat /\ lastIndex(logs[i]) \in Nat
  BY LogTypes DEF NodeTypes
<1>4. /\ state' = [state EXCEPT ![i] = "Follower"]
      /\ commitIndex' = [commitIndex EXCEPT ![i] = logs[i].index]
      /\ nextIndex' = [nextIndex EXCEPT ![i] =
                         [j \in Server |-> lastIndex(logs[i]) + 1]]
      /\ matchIndex' = [matchIndex EXCEPT ![i] = [j \in Server |-> 0]]
      /\ grantedVotes' = [grantedVotes EXCEPT ![i] = 0]
      /\ applyCh' = [applyCh EXCEPT ![i] = {}]
  BY <1>1 DEF Restart, Make
<1>5. /\ nextIndex' \in [Server -> [Server -> Int]]
      /\ matchIndex' \in [Server -> [Server -> Nat]]
  BY <1>3, <1>4 DEF NodeTypes
<1>6. /\ state' \in [Server -> {"Follower", "Candidate", "Leader"}]
      /\ commitIndex' \in [Server -> Nat] /\ grantedVotes' \in [Server -> Nat]
      /\ applyCh' \in [Server -> SUBSET SnapshotMsg]
  BY <1>3, <1>4 DEF NodeTypes
<1>7. NodeTypes' /\ Durable'
  BY <1>2, <1>5, <1>6 DEF NodeTypes, Durable
<1>8. \A k \in Server : KeepsRole(k)
  BY <1>2, <1>4, LogTypes, SMTT(30) DEF KeepsRole, NodeTypes
<1>9. SentByLeaders' /\ MessagesInRange'
  BY <1>2, <1>8, TrafficSurvives DEF TrafficKept, NodeTypes
<1>10. NextInRange'
  BY <1>2, <1>4 DEF NextInRange, NodeTypes
<1>11. CommitKnown' /\ SnapshotsLabelled' /\ RefusalsBackUp'
  BY <1>2, <1>3, <1>4, SMTT(30)
     DEF CommitKnown, SnapshotsLabelled, RefusalsBackUp, NodeTypes
<1> QED
  BY <1>7, <1>9, <1>10, <1>11

-----------------------------------------------------------------------------
(* Replication *)

\* What a leader sends is a slice of its log, or the snapshot it starts from.
LEMMA ReplicateTypes ==
  ASSUME TypeInv, NEW i \in Server, NEW j \in Server, ReplicateOneRound(i, j)
  PROVE  TypeInv'
<1> USE DEF TypeInv
<1> DEFINE l == logs[i]
           prev == nextIndex[i][j] - 1
           r == IF prev < l.index THEN snapshotRequest(i, j)
                                  ELSE appendRequest(i, j, prev)
<1>1. /\ UNCHANGED <<state, currentTerm, votedFor, logs, commitIndex, nextIndex,
                     matchIndex, grantedVotes, persister, applyCh, votes, committed>>
      /\ i # j /\ state[i] = "Leader" /\ messages' = messages \cup {r}
  BY DEF ReplicateOneRound, replicationRequest, hardVars, leaderVars, history
<1>2. /\ l \in Logs /\ l.index \in Nat /\ l.term \in Nat
      /\ lastIndex(l) \in Nat /\ l.index <= lastIndex(l)
      /\ prev \in Int /\ prev <= lastIndex(l)
      /\ currentTerm[i] \in Nat /\ commitIndex[i] \in Nat
      /\ l.index <= commitIndex[i] /\ commitIndex[i] <= Len(committed)
  BY <1>1, LogTypes DEF NodeTypes, NextInRange, CommitKnown
<1>3. /\ r \in AppendRequest \cup SnapshotRequest
      /\ ~isVoteMsg(r) /\ r.type # "AppendEntriesResponse"
      /\ sender(r) = i /\ epoch(r) = currentTerm[i] /\ reach(r) <= lastIndex(l)
      /\ r.type = "AppendEntries" => r.leaderCommit = commitIndex[i]
      /\ r.type = "InstallSnapshot" =>
           r.lastIncludedIndex = l.index /\ r.data = l.index
  <2>1. CASE prev < l.index
    <3>1. persister[i].snapshot = l.index
      <4>1. persister[i] = [currentTerm |-> currentTerm[i],
                            votedFor |-> votedFor[i], logs |-> l,
                            snapshot |-> l.index]
        BY DEF Durable
      <4> QED
        BY <4>1
    <3>2. r = [type |-> "InstallSnapshot", from |-> i, to |-> j,
               term |-> currentTerm[i], lastIncludedIndex |-> l.index,
               lastIncludedTerm |-> l.term, data |-> l.index]
      BY <2>1, <3>1 DEF snapshotRequest
    <3> HIDE DEF l, r
    <3>3. r \in SnapshotRequest
      BY <1>2, <3>2 DEF SnapshotRequest
    <3> QED
      BY <1>2, <3>2, <3>3 DEF isVoteMsg, isRequest, sender, epoch, reach
  <2>2. CASE ~(prev < l.index)
    <3>1. prev \in l.index..lastIndex(l) /\ prev \in Nat
      BY <1>2, <2>2
    <3>2. /\ termAt(l, prev) \in Nat
          /\ dropThrough(l, prev) \in Seq(Entry)
          /\ Len(dropThrough(l, prev)) = lastIndex(l) - prev
      BY <1>2, <3>1, TermTypes, DropTypes
    <3>3. r = [type |-> "AppendEntries", from |-> i, to |-> j,
               term |-> currentTerm[i], prevLogIndex |-> prev,
               prevLogTerm |-> termAt(l, prev), leaderCommit |-> commitIndex[i],
               entries |-> dropThrough(l, prev)]
      BY <2>2 DEF appendRequest
    <3> HIDE DEF l, r, prev
    <3>4. r \in AppendRequest
      BY <1>2, <3>1, <3>2, <3>3 DEF AppendRequest
    <3>5. reach(r) = lastIndex(l)
      BY <1>2, <3>1, <3>2, <3>3 DEF reach
    <3> QED
      BY <1>2, <3>3, <3>4, <3>5 DEF isVoteMsg, isRequest, sender, epoch
  <2> QED
    BY <2>1, <2>2
<1> HIDE DEF r
<1>4. NodeTypes' /\ Durable'
  BY <1>1, <1>3 DEF NodeTypes, Durable, Message
<1>5. SentByLeaders'
  BY <1>1, <1>2, <1>3 DEF SentByLeaders
<1>6. MessagesInRange'
  BY <1>1, <1>2, <1>3 DEF MessagesInRange
<1>7. NextInRange' /\ RefusalsBackUp'
  BY <1>1, <1>3 DEF NextInRange, RefusalsBackUp
<1>8. CommitKnown' /\ SnapshotsLabelled'
  BY <1>1, <1>2, <1>3 DEF CommitKnown, SnapshotsLabelled
<1> QED
  BY <1>4, <1>5, <1>6, <1>7, <1>8

\* The answer speaks of the entries of its request.
LEMMA AppendReply ==
  ASSUME TypeInv, NEW m \in messages, m.type = "AppendEntries",
         NEW term \in Nat, NEW success \in BOOLEAN,
         NEW cTerm \in Nat \cup {-1}, NEW cIndex \in Int,
         success \/ cIndex <= m.prevLogIndex,
         Reply(m, appendResponse(m, term, success, cTerm, cIndex))
  PROVE  /\ messages' \subseteq Message
         /\ TrafficKept /\ NoNewRequest /\ RefusalsBackUp'
<1> USE DEF TypeInv
<1> DEFINE r == appendResponse(m, term, success, cTerm, cIndex)
<1>1. m \in AppendRequest
  BY MessageKinds
<1>2. /\ m.prevLogIndex \in Nat /\ Len(m.entries) \in Nat
      /\ m.from \in Server /\ m.to \in Server /\ m.term \in Nat
  BY <1>1 DEF AppendRequest
<1>3. r = [type |-> "AppendEntriesResponse", from |-> m.to, to |-> m.from,
           reqTerm |-> m.term, prevLogIndex |-> m.prevLogIndex,
           nEntries |-> Len(m.entries), term |-> term, success |-> success,
           conflictTerm |-> cTerm, conflictIndex |-> cIndex]
  BY DEF appendResponse
<1>4. messages' = (messages \ {m}) \cup {r}
  BY DEF Reply
<1> HIDE DEF r
<1>5. r \in AppendResponse
  BY <1>2, <1>3 DEF AppendResponse
<1>6. messages' \subseteq Message
  BY <1>4, <1>5 DEF NodeTypes, Message
<1>7. /\ ~isVoteMsg(m) /\ sender(r) = sender(m)
      /\ epoch(r) = epoch(m) /\ reach(r) = reach(m)
  BY <1>3 DEF isVoteMsg, isRequest, sender, epoch, reach
<1>8. TrafficKept
  BY <1>4, <1>7 DEF TrafficKept
<1>9. NoNewRequest /\ RefusalsBackUp'
  BY <1>3, <1>4 DEF NoNewRequest, RefusalsBackUp, isRequest
<1> QED
  BY <1>6, <1>8, <1>9

\* Both outcomes of a mismatch blame an index before the one refused.
LEMMA ConflictReply ==
  ASSUME TypeInv, NEW m \in messages, m.type = "AppendEntries",
         RejectConflictingAppend(m)
  PROVE  \E term \in Nat, cTerm \in Nat \cup {-1}, cIndex \in Int :
           /\ cIndex <= m.prevLogIndex
           /\ Reply(m, appendResponse(m, term, FALSE, cTerm, cIndex))
<1> USE DEF TypeInv
<1> DEFINE l == logs[m.to]
<1>1. m.prevLogIndex \in Nat /\ m.term \in Nat /\ m.to \in Server
  BY MessageKinds DEF AppendRequest
<1>2. l \in Logs /\ l.index \in Nat /\ lastIndex(l) \in Nat /\ m.prevLogIndex >= l.index
  BY <1>1, LogTypes DEF NodeTypes, RejectConflictingAppend
<1>3. CASE /\ m.prevLogIndex > lastIndex(l)
           /\ Reply(m, appendResponse(m, m.term, FALSE, -1, lastIndex(l) + 1))
  <2>1. lastIndex(l) + 1 \in Int /\ lastIndex(l) + 1 <= m.prevLogIndex
    BY <1>1, <1>2, <1>3
  <2>2. -1 \in Nat \cup {-1}
    OBVIOUS
  <2> QED
    BY <1>1, <1>3, <2>1, <2>2, Zenon
<1>4. CASE /\ m.prevLogIndex <= lastIndex(l)
           /\ \E k \in (l.index - 1)..(m.prevLogIndex - 1) :
                Reply(m, appendResponse(m, m.term, FALSE,
                                        termAt(l, m.prevLogIndex), k))
  <2>1. termAt(l, m.prevLogIndex) \in Nat \cup {-1}
    BY <1>1, <1>2, <1>4, TermTypes
  <2>2. \A k \in (l.index - 1)..(m.prevLogIndex - 1) :
          k \in Int /\ k <= m.prevLogIndex
    BY <1>1, <1>2
  <2> QED
    BY <1>1, <1>4, <2>1, <2>2, Zenon
<1> QED
  BY <1>3, <1>4 DEF RejectConflictingAppend

\* The follower's log stays a log that starts where it did, and its commitIndex
\* follows the leader's.
LEMMA AcceptTypes ==
  ASSUME TypeInv, NEW m \in messages, m.type = "AppendEntries", AcceptAppend(m)
  PROVE  /\ \E l \in Logs : /\ logs' = [logs EXCEPT ![m.to] = l]
                            /\ l.index = logs[m.to].index
         /\ \E k \in Nat : /\ commitIndex' = [commitIndex EXCEPT ![m.to] = k]
                           /\ commitIndex[m.to] <= k /\ k <= Len(committed)
<1> USE DEF TypeInv
<1> DEFINE l == logs[m.to]
           new == appendEntries(l, m.prevLogIndex, m.entries)
           least == Min({m.leaderCommit, lastIndex(new)})
           most == Max({commitIndex[m.to], least})
<1>1. /\ m.prevLogIndex \in Nat /\ m.to \in Server
      /\ m.entries \in Seq(Entry) /\ m.leaderCommit \in Nat
  BY MessageKinds DEF AppendRequest
<1>2. /\ l \in Logs /\ l.index \in Nat /\ lastIndex(l) \in Nat
      /\ commitIndex[m.to] \in Nat
  BY <1>1, LogTypes DEF NodeTypes
<1>3. m.prevLogIndex \in l.index..lastIndex(l)
  BY <1>1, <1>2 DEF AcceptAppend, matchLog
<1>4. new \in Logs /\ new.index = l.index /\ lastIndex(new) \in Nat
  BY <1>1, <1>2, <1>3, AppendTypes, LogTypes
<1>5. logs' = [logs EXCEPT ![m.to] = new]
      /\ commitIndex' = [commitIndex EXCEPT ![m.to] = most]
  BY DEF AcceptAppend
<1> HIDE DEF new
<1>6. least \in Nat /\ least <= m.leaderCommit
  BY <1>1, <1>4, MinOfTwo
<1> HIDE DEF least
<1>7. most \in Nat /\ most \in {commitIndex[m.to], least} /\ most >= commitIndex[m.to]
  BY <1>2, <1>6, MaxOfTwo
<1>8. m.leaderCommit <= Len(committed) /\ commitIndex[m.to] <= Len(committed)
      /\ Len(committed) \in Nat
  BY <1>1 DEF CommitKnown, NodeTypes
<1> HIDE DEF most
<1>9. most <= Len(committed)
  BY <1>1, <1>6, <1>7, <1>8
<1> QED
  BY <1>4, <1>5, <1>7, <1>9

LEMMA AppendEntriesTypes ==
  ASSUME TypeInv, NEW m \in messages, AppendEntries(m)
  PROVE  TypeInv'
<1> USE DEF TypeInv
<1> DEFINE i == m.to
<1>1. /\ m.type = "AppendEntries" /\ persist(i)
      /\ UNCHANGED <<nextIndex, matchIndex, grantedVotes, applyCh, votes, committed>>
  BY DEF AppendEntries, leaderVars, history
<1>2. /\ m.term \in Nat /\ i \in Server /\ m.prevLogIndex \in Nat
      /\ logs[i] \in Logs
  BY <1>1, MessageKinds DEF AppendRequest, NodeTypes
<1>3. /\ messages' \subseteq Message
      /\ TrafficKept /\ NoNewRequest /\ RefusalsBackUp'
  <2>1. /\ currentTerm[i] \in Nat /\ 0 \in Nat /\ 0 \in Nat \cup {-1}
        /\ 0 \in Int /\ 0 <= m.prevLogIndex /\ TRUE \in BOOLEAN /\ FALSE \in BOOLEAN
    BY <1>2 DEF NodeTypes
  <2>2. CASE RejectStaleAppend(m)
    BY <1>1, <2>1, <2>2, AppendReply, Zenon DEF RejectStaleAppend
  <2>3. CASE RejectCompactedAppend(m)
    BY <1>1, <2>1, <2>3, AppendReply, Zenon DEF RejectCompactedAppend
  <2>4. CASE RejectConflictingAppend(m)
    BY <1>1, <2>1, <2>4, ConflictReply, AppendReply, Zenon
  <2>5. CASE AcceptAppend(m)
    BY <1>1, <1>2, <2>1, <2>5, AppendReply, Zenon DEF AcceptAppend
  <2> QED
    BY <2>2, <2>3, <2>4, <2>5 DEF AppendEntries
<1>4. /\ state' \in [Server -> {"Follower", "Candidate", "Leader"}]
      /\ currentTerm' \in [Server -> Nat]
      /\ votedFor' \in [Server -> Server \cup {Nil}]
      /\ \A k \in Server \ {i} : /\ currentTerm'[k] = currentTerm[k]
                                 /\ votedFor'[k] = votedFor[k]
                                 /\ state'[k] = state[k]
      /\ \A k \in Server : currentTerm'[k] >= currentTerm[k]
      /\ \/ state'[i] = "Follower"
         \/ UNCHANGED <<state, currentTerm, logs>>
  <2>1. CASE RejectStaleAppend(m)
    BY <2>1 DEF RejectStaleAppend, hardVars, NodeTypes
  <2>2. CASE followLeader(m)
    <3>1. /\ m.term >= currentTerm[i] /\ adoptTerm(i, m.term)
          /\ state' = [state EXCEPT ![i] = "Follower"]
      BY <2>2 DEF followLeader
    <3>2. NodeTypes
      OBVIOUS
    <3>3. Follows(i)
      <4> HIDE DEF TypeInv
      <4> QED
        BY <1>2, <3>1, <3>2, FollowTypes
    <3> QED
      BY <3>3 DEF Follows
  <2> QED
    BY <2>1, <2>2 DEF AppendEntries, RejectCompactedAppend,
                      RejectConflictingAppend, AcceptAppend
<1>5. /\ \E l \in Logs : /\ logs' = [logs EXCEPT ![i] = l]
                         /\ l.index = logs[i].index
      /\ \E k \in Nat : /\ commitIndex' = [commitIndex EXCEPT ![i] = k]
                        /\ commitIndex[i] <= k /\ k <= Len(committed)
  <2>1. CASE UNCHANGED <<logs, commitIndex>>
    BY <1>2, <2>1 DEF NodeTypes, CommitKnown
  <2>2. CASE AcceptAppend(m)
    BY <1>1, <2>2, AcceptTypes
  <2> QED
    BY <2>1, <2>2 DEF AppendEntries, RejectStaleAppend, RejectCompactedAppend,
                      RejectConflictingAppend, hardVars
<1>6. /\ logs' \in [Server -> Logs] /\ commitIndex' \in [Server -> Nat]
      /\ \A k \in Server \ {i} : logs'[k] = logs[k]
      /\ \A k \in Server : logs'[k].index = logs[k].index
  BY <1>2, <1>5, SMTT(30) DEF NodeTypes
<1>7. \A k \in Server : /\ commitIndex'[k] >= commitIndex[k]
                        /\ commitIndex'[k] <= Len(committed)
  <2>1. commitIndex \in [Server -> Nat]
        /\ \A k \in Server : commitIndex[k] <= Len(committed)
    BY DEF NodeTypes, CommitKnown
  <2>2. PICK c \in Nat : /\ commitIndex' = [commitIndex EXCEPT ![i] = c]
                         /\ commitIndex[i] <= c /\ c <= Len(committed)
    BY <1>5
  <2>3. ASSUME NEW k \in Server
        PROVE  commitIndex'[k] >= commitIndex[k] /\ commitIndex'[k] <= Len(committed)
    <3>1. CASE k = i
      BY <2>1, <2>2, <3>1
    <3>2. CASE k # i
      BY <2>1, <2>2, <3>2
    <3> QED
      BY <3>1, <3>2
  <2> QED
    BY <2>3
<1>8. HardTypes(i)
  BY <1>4, <1>6 DEF HardTypes
<1>9. persister' \in [Server -> HardState] /\ Durable'
  BY <1>1, <1>2, <1>6, <1>8, PersistTypes
<1>10. NodeTypes'
  BY <1>1, <1>3, <1>4, <1>6, <1>9 DEF NodeTypes
<1>11. \A k \in Server : KeepsRole(k)
  <2>1. KeepsRole(i)
    BY <1>2, <1>4, LogTypes, SMTT(30) DEF KeepsRole, NodeTypes
  <2>2. ASSUME NEW k \in Server, k # i PROVE KeepsRole(k)
    BY <1>4, <1>6, <2>2, SameRole
  <2> QED
    BY <2>1, <2>2
<1>12. SentByLeaders' /\ MessagesInRange'
  BY <1>3, <1>4, <1>6, <1>11, TrafficSurvives
<1>13. NextInRange'
  BY <1>1, <1>4, <1>6 DEF NextInRange
<1>14. CommitKnown' /\ SnapshotsLabelled'
  <2>1. ASSUME NEW k \in Server
        PROVE  logs'[k].index <= commitIndex'[k] /\ commitIndex'[k] <= Len(committed)
    <3>1. /\ logs[k].index <= commitIndex[k] /\ logs[k].index \in Nat
          /\ commitIndex[k] \in Nat /\ commitIndex'[k] \in Nat
      BY <1>6, LogTypes DEF CommitKnown, NodeTypes
    <3> QED
      BY <1>6, <1>7, <3>1
  <2> QED
    BY <1>1, <1>3, <2>1
       DEF CommitKnown, SnapshotsLabelled, NoNewRequest, isRequest
<1> QED
  BY <1>3, <1>9, <1>10, <1>12, <1>13, <1>14

\* The entries a leader finds committed extend those that were found before.
LEMMA RecordCommitTypes ==
  ASSUME NEW l \in Logs, NEW k \in Nat, l.index <= k, k <= lastIndex(l),
         committed \in Seq(Entry), l.index <= Len(committed), recordCommit(l, k)
  PROVE  /\ committed' \in Seq(Entry)
         /\ Len(committed') >= Len(committed) /\ Len(committed') >= k
<1>1. CASE k <= Len(committed)
  BY <1>1 DEF recordCommit
<1>2. CASE ~(k <= Len(committed))
  <2> DEFINE first == Len(committed) - l.index + 1
             last == k - l.index
             tail == SubSeq(l.entries, first, last)
  <2>1. /\ l.index \in Nat /\ l.entries \in Seq(Entry) /\ Len(committed) \in Nat
        /\ lastIndex(l) = l.index + Len(l.entries)
    BY LogTypes
  <2>2. /\ first \in Nat \ {0} /\ last \in Int /\ last <= Len(l.entries)
        /\ first <= last + 1 /\ last - first + 1 = k - Len(committed)
    BY <1>2, <2>1
  <2>3. committed' = committed \o tail
    BY <1>2 DEF recordCommit
  <2> HIDE DEF first, last
  <2>4. tail \in Seq(Entry) /\ Len(tail) = last - first + 1
    BY <2>1, <2>2, SubSeqTypes
  <2> HIDE DEF tail
  <2>5. /\ committed' \in Seq(Entry)
        /\ Len(committed') = Len(committed) + Len(tail)
    BY <2>3, <2>4, ConcatProperties
  <2> QED
    BY <1>2, <2>1, <2>2, <2>4, <2>5
<1> QED
  BY <1>1, <1>2

\* nextIndex after a refusal is not beyond the index refused.
LEMMA BackUpTypes ==
  ASSUME NEW l \in Logs, NEW prev \in Nat, NEW term, NEW index \in Int,
         index <= prev
  PROVE  /\ backedUpNextIndex(l, prev, term, index) \in Int
         /\ backedUpNextIndex(l, prev, term, index) - 1 <= prev
<1> DEFINE same == {k \in l.index..prev : term # -1 /\ termAt(l, k) = term}
<1>1. CASE same = {}
  BY <1>1 DEF backedUpNextIndex
<1>2. CASE same # {}
  <2>1. same \in SUBSET 0..prev
    BY LogTypes
  <2>2. backedUpNextIndex(l, prev, term, index) = 1 + Max(same)
    BY <1>2 DEF backedUpNextIndex
  <2> HIDE DEF same
  <2>3. Max(same) \in 0..prev
    BY <1>2, <2>1, MaxOfNats
  <2> QED
    BY <2>2, <2>3
<1> QED
  BY <1>1, <1>2

\* Answers are read against a log that is at least as long as it was.
LEMMA CurrentAnswer ==
  ASSUME TypeInv, NEW m \in messages, m.type = "AppendEntriesResponse",
         isCurrentLeader(m)
  PROVE  /\ m.from \in Server /\ m.to \in Server
         /\ m.prevLogIndex \in Nat /\ m.nEntries \in Nat
         /\ m.conflictIndex \in Int
         /\ acknowledged(m) \in Nat
         /\ acknowledged(m) <= lastIndex(logs[m.to])
         /\ m.prevLogIndex <= lastIndex(logs[m.to])
         /\ lastIndex(logs[m.to]) \in Nat
<1> USE DEF TypeInv
<1>1. /\ m.from \in Server /\ m.to \in Server
      /\ m.prevLogIndex \in Nat /\ m.nEntries \in Nat /\ m.conflictIndex \in Int
  BY MessageKinds DEF AppendResponse
<1>2. /\ ~isVoteMsg(m) /\ sender(m) = m.to /\ epoch(m) = m.reqTerm
      /\ reach(m) = acknowledged(m)
  BY DEF isVoteMsg, isRequest, sender, epoch, reach, acknowledged
<1>3. acknowledged(m) <= lastIndex(logs[m.to])
  BY <1>2 DEF MessagesInRange, isCurrentLeader
<1>4. lastIndex(logs[m.to]) \in Nat
  BY <1>1, LogTypes DEF NodeTypes
<1> QED
  BY <1>1, <1>3, <1>4 DEF acknowledged

\* A leader that moves the nextIndex of one peer within its log, and that may
\* find more entries committed.
LEMMA ProgressTypes ==
  ASSUME TypeInv, NEW m \in messages, messages' = messages \ {m},
         UNCHANGED <<state, hardVars, persister, grantedVotes, applyCh, votes>>,
         NEW i \in Server, NEW j \in Server, NEW n \in Int,
         nextIndex' = [nextIndex EXCEPT ![i][j] = n],
         n - 1 <= lastIndex(logs[i]),
         matchIndex' \in [Server -> [Server -> Nat]],
         commitIndex' \in [Server -> Nat],
         committed' \in Seq(Entry), Len(committed') >= Len(committed),
         \A k \in Server : /\ commitIndex'[k] >= commitIndex[k]
                           /\ commitIndex'[k] <= Len(committed')
  PROVE  TypeInv'
<1> USE DEF TypeInv, hardVars
<1>1. nextIndex' \in [Server -> [Server -> Int]]
  BY DEF NodeTypes
<1>2. NodeTypes' /\ Durable'
  BY <1>1 DEF NodeTypes, Durable
<1>3. TrafficKept /\ NoNewRequest /\ RefusalsBackUp'
  BY FewerMessages
<1>4. \A k \in Server : KeepsRole(k)
  BY SameRole
<1>5. SentByLeaders' /\ MessagesInRange'
  BY <1>3, <1>4, TrafficSurvives DEF NodeTypes
<1>6. NextInRange'
  <2> SUFFICES ASSUME NEW k \in Server, state'[k] = "Leader",
                      NEW h \in Server \ {k}
               PROVE  nextIndex'[k][h] - 1 <= lastIndex(logs'[k])
    BY DEF NextInRange
  <2>1. nextIndex[k][h] - 1 <= lastIndex(logs[k])
    BY DEF NextInRange
  <2>2. CASE k = i /\ h = j
    BY <2>2 DEF NodeTypes
  <2>3. CASE ~(k = i /\ h = j)
    <3>1. nextIndex'[k][h] = nextIndex[k][h]
      BY <2>3 DEF NodeTypes
    <3> QED
      BY <2>1, <3>1
  <2> QED
    BY <2>2, <2>3
<1>7. CommitKnown' /\ SnapshotsLabelled'
  <2>1. Len(committed) \in Nat /\ Len(committed') \in Nat
    <3>1. committed \in Seq(Entry)
      BY DEF NodeTypes
    <3> QED
      BY <3>1, LenProperties
  <2>2. ASSUME NEW k \in Server
        PROVE  /\ logs'[k].index <= commitIndex'[k]
               /\ commitIndex'[k] <= Len(committed')
               /\ \A p \in applyCh'[k] : p.index <= Len(committed')
    <3>1. /\ logs[k].index <= commitIndex[k] /\ logs[k].index \in Nat
          /\ commitIndex[k] \in Nat /\ commitIndex'[k] \in Nat
      BY LogTypes DEF CommitKnown, NodeTypes
    <3>2. ASSUME NEW p \in applyCh[k]
          PROVE  p.index \in Nat /\ p.index <= Len(committed)
      <4>1. p \in SnapshotMsg
        BY DEF NodeTypes
      <4> QED
        BY <4>1 DEF CommitKnown, SnapshotMsg
    <3>3. logs'[k].index <= commitIndex'[k]
      BY <3>1, SMTT(30)
    <3>4. \A p \in applyCh'[k] : p.index <= Len(committed')
      BY <2>1, <3>2, SMTT(30)
    <3> QED
      BY <3>3, <3>4
  <2>3. ASSUME NEW h \in messages
        PROVE  /\ h.type = "AppendEntries" => h.leaderCommit <= Len(committed')
               /\ h.type = "InstallSnapshot" => h.lastIncludedIndex <= Len(committed')
    <3>1. CASE h.type = "AppendEntries"
      <4>1. h.leaderCommit \in Nat
        BY <3>1, MessageKinds DEF AppendRequest
      <4> QED
        BY <2>1, <3>1, <4>1 DEF CommitKnown
    <3>2. CASE h.type = "InstallSnapshot"
      <4>1. h.lastIncludedIndex \in Nat
        BY <3>2, MessageKinds DEF SnapshotRequest
      <4> QED
        BY <2>1, <3>2, <4>1 DEF CommitKnown
    <3> QED
      BY <3>1, <3>2
  <2> QED
    BY <2>2, <2>3 DEF CommitKnown, SnapshotsLabelled
<1> QED
  BY <1>2, <1>3, <1>5, <1>6, <1>7

LEMMA AdvancePeerTypes ==
  ASSUME TypeInv, NEW m \in messages, m.type = "AppendEntriesResponse",
         messages' = messages \ {m}, AdvancePeer(m),
         UNCHANGED <<grantedVotes, applyCh, votes>>
  PROVE  TypeInv'
<1> USE DEF TypeInv
<1> DEFINE i == m.to
           ack == acknowledged(m)
<1>1. /\ isCurrentLeader(m) /\ UNCHANGED <<state, hardVars, persister>>
      /\ matchIndex' = [matchIndex EXCEPT ![i][m.from] = ack]
      /\ nextIndex' = [nextIndex EXCEPT ![i][m.from] = ack + 1]
      /\ advanceCommitIndexForLeader(i)
  BY DEF AdvancePeer, setProgress
<1>2. /\ m.from \in Server /\ i \in Server
      /\ ack \in Nat /\ ack <= lastIndex(logs[i]) /\ lastIndex(logs[i]) \in Nat
  BY <1>1, CurrentAnswer
<1> HIDE DEF ack
<1>3. /\ matchIndex' \in [Server -> [Server -> Nat]]
      /\ ack + 1 \in Int /\ (ack + 1) - 1 <= lastIndex(logs[i])
  <2>1. matchIndex' \in [Server -> [Server -> Nat]]
    BY <1>1, <1>2 DEF NodeTypes
  <2> QED
    BY <1>2, <2>1
<1> DEFINE Grows == /\ commitIndex' \in [Server -> Nat]
                    /\ committed' \in Seq(Entry)
                    /\ Len(committed') >= Len(committed)
                    /\ \A k \in Server : /\ commitIndex'[k] >= commitIndex[k]
                                         /\ commitIndex'[k] <= Len(committed')
<1>4. /\ committed \in Seq(Entry) /\ Len(committed) \in Nat
      /\ commitIndex \in [Server -> Nat] /\ logs[i] \in Logs
      /\ \A k \in Server : commitIndex[k] <= Len(committed)
      /\ logs[i].index <= commitIndex[i] /\ logs[i].index \in Nat
  <2>1. /\ committed \in Seq(Entry) /\ commitIndex \in [Server -> Nat]
        /\ logs[i] \in Logs
    BY <1>2 DEF NodeTypes
  <2> QED
    BY <1>2, <2>1, LogTypes, LenProperties DEF CommitKnown
<1>5. CASE UNCHANGED <<commitIndex, committed>>
  <2>1. Grows
    BY <1>4, <1>5
  <2> QED
    BY <1>1, <1>2, <1>3, <2>1, ProgressTypes
<1>6. ASSUME NEW k \in {matchIndex'[i][j] : j \in Server},
             isCommittable(i, k), recordCommit(logs[i], k),
             commitIndex' = [commitIndex EXCEPT ![i] = k]
      PROVE  TypeInv'
  <2>1. k \in Nat /\ k > commitIndex[i] /\ k <= lastIndex(logs[i])
    BY <1>2, <1>3, <1>6 DEF isCommittable, matchLog
  <2>2. /\ committed' \in Seq(Entry)
        /\ Len(committed') >= Len(committed) /\ Len(committed') >= k
    <3>1. logs[i].index <= k /\ logs[i].index <= Len(committed)
      BY <1>2, <1>4, <2>1
    <3> QED
      BY <1>4, <1>6, <2>1, <3>1, RecordCommitTypes
  <2>3. Len(committed') \in Nat
    BY <2>2, LenProperties
  <2>4. ASSUME NEW h \in Server
        PROVE  commitIndex'[h] >= commitIndex[h] /\ commitIndex'[h] <= Len(committed')
    <3>1. CASE h = i
      BY <1>2, <1>4, <1>6, <2>1, <2>2, <3>1
    <3>2. CASE h # i
      <4>1. commitIndex'[h] = commitIndex[h] /\ commitIndex[h] \in Nat
        BY <1>4, <1>6, <3>2
      <4> QED
        BY <1>4, <2>2, <2>3, <4>1
    <3> QED
      BY <3>1, <3>2
  <2>5. commitIndex' \in [Server -> Nat]
    BY <1>4, <1>6, <2>1
  <2>6. Grows
    BY <2>2, <2>4, <2>5
  <2> HIDE DEF Grows
  <2> QED
    BY <1>1, <1>2, <1>3, <2>6, ProgressTypes DEF Grows
<1> QED
  BY <1>1, <1>5, <1>6 DEF advanceCommitIndexForLeader

LEMMA BackUpPeerTypes ==
  ASSUME TypeInv, NEW m \in messages, m.type = "AppendEntriesResponse",
         messages' = messages \ {m}, BackUpPeer(m),
         UNCHANGED <<grantedVotes, applyCh, votes>>
  PROVE  TypeInv'
<1> USE DEF TypeInv
<1> DEFINE i == m.to
           n == backedUpNextIndex(logs[i], m.prevLogIndex, m.conflictTerm,
                                  m.conflictIndex)
<1>1. /\ isCurrentLeader(m) /\ ~m.success
      /\ UNCHANGED <<state, hardVars, persister, commitIndex, matchIndex, committed>>
      /\ nextIndex' = [nextIndex EXCEPT ![i][m.from] = n]
  BY DEF BackUpPeer
<1>2. /\ m.from \in Server /\ i \in Server
      /\ m.prevLogIndex \in Nat /\ m.conflictIndex \in Int
      /\ m.prevLogIndex <= lastIndex(logs[i]) /\ lastIndex(logs[i]) \in Nat
  BY <1>1, CurrentAnswer
<1>3. logs[i] \in Logs /\ m.conflictIndex <= m.prevLogIndex
  BY <1>1, <1>2 DEF NodeTypes, RefusalsBackUp
<1>4. n \in Int /\ n - 1 <= m.prevLogIndex
  BY <1>2, <1>3, BackUpTypes
<1> HIDE DEF n
<1>5. n - 1 <= lastIndex(logs[i])
  BY <1>2, <1>4
<1>6. /\ matchIndex' \in [Server -> [Server -> Nat]]
      /\ commitIndex' \in [Server -> Nat]
      /\ committed' \in Seq(Entry) /\ Len(committed') >= Len(committed)
      /\ \A k \in Server : /\ commitIndex'[k] >= commitIndex[k]
                           /\ commitIndex'[k] <= Len(committed')
  BY <1>1 DEF NodeTypes, CommitKnown
<1> QED
  BY <1>1, <1>2, <1>4, <1>5, <1>6, ProgressTypes

LEMMA HandleAppendEntriesResponseTypes ==
  ASSUME TypeInv, NEW m \in messages, HandleAppendEntriesResponse(m)
  PROVE  TypeInv'
<1>1. m \in AppendResponse
  BY MessageKinds DEF HandleAppendEntriesResponse, TypeInv
<1> QED
  BY <1>1, AdvancePeerTypes, BackUpPeerTypes, StepDownTypes, IgnoredTypes
     DEF HandleAppendEntriesResponse, Depose, IgnoreAppendResponse,
         AppendResponse, history

-----------------------------------------------------------------------------
(* Snapshots on the wire *)

\* The receiver of a snapshot keeps its log; the service gets what was committed.
LEMMA InstallSnapshotTypes ==
  ASSUME TypeInv, NEW m \in messages, InstallSnapshot(m)
  PROVE  TypeInv'
<1> USE DEF TypeInv
<1> DEFINE i == m.to
           r == snapshotResponse(m)
           p == [index |-> m.lastIncludedIndex, term |-> m.lastIncludedTerm,
                 data |-> m.data]
<1>1. /\ m \in SnapshotRequest /\ m.type = "InstallSnapshot"
      /\ i \in Server /\ m.from \in Server /\ m.term \in Nat
      /\ currentTerm[i] \in Nat
  BY MessageKinds DEF InstallSnapshot, SnapshotRequest, NodeTypes
<1>2. /\ UNCHANGED <<logs, commitIndex, nextIndex, matchIndex, grantedVotes,
                     votes, committed>>
      /\ messages' = (messages \ {m}) \cup {r}
  BY DEF InstallSnapshot, RejectStaleSnapshot, AcceptSnapshot, Reply, hardVars,
         leaderVars, history
<1>3. r \in SnapshotResponse
  BY <1>1 DEF SnapshotRequest, SnapshotResponse, snapshotResponse
<1>4. /\ ~isVoteMsg(m) /\ sender(r) = sender(m) /\ epoch(r) = epoch(m)
      /\ reach(r) = reach(m) /\ r.type = "InstallSnapshotResponse"
  BY <1>1 DEF snapshotResponse, isVoteMsg, isRequest, sender, epoch, reach
<1> HIDE DEF r
<1>5. messages' \subseteq Message
  BY <1>2, <1>3 DEF NodeTypes, Message
<1>6. TrafficKept /\ NoNewRequest /\ RefusalsBackUp'
  BY <1>2, <1>4 DEF TrafficKept, NoNewRequest, RefusalsBackUp, isRequest
<1>7. /\ p \in SnapshotMsg /\ p.data = p.index /\ p.index <= Len(committed)
  BY <1>1 DEF SnapshotRequest, SnapshotMsg, SnapshotsLabelled, CommitKnown
<1> HIDE DEF p
<1>8. /\ applyCh \in [Server -> SUBSET SnapshotMsg]
      /\ \/ applyCh' = applyCh
         \/ applyCh' = [applyCh EXCEPT ![i] =
              IF m.lastIncludedIndex <= commitIndex[i] THEN @ ELSE @ \cup {p}]
  BY DEF InstallSnapshot, RejectStaleSnapshot, AcceptSnapshot, NodeTypes, p
<1>9. /\ applyCh' \in [Server -> SUBSET SnapshotMsg]
      /\ \A k \in Server : applyCh'[k] \subseteq applyCh[k] \cup {p}
  BY <1>1, <1>7, <1>8
<1>10. /\ state' \in [Server -> {"Follower", "Candidate", "Leader"}]
       /\ HardTypes(i)
       /\ persister' \in [Server -> HardState] /\ Durable'
       /\ \A k \in Server : /\ currentTerm'[k] >= currentTerm[k]
                            /\ \/ state'[k] = "Follower"
                               \/ /\ state'[k] = state[k]
                                  /\ currentTerm'[k] = currentTerm[k]
  <2>1. CASE RejectStaleSnapshot(m)
    BY <2>1 DEF RejectStaleSnapshot, hardVars, NodeTypes, HardTypes, Durable
  <2>2. CASE AcceptSnapshot(m)
    <3>0. /\ m.term >= currentTerm[i] /\ adoptTerm(i, m.term) /\ persist(i)
          /\ state' = [state EXCEPT ![i] = "Follower"]
      BY <2>2 DEF AcceptSnapshot, followLeader
    <3>3. Follows(i)
      <4>1. NodeTypes
        OBVIOUS
      <4> HIDE DEF TypeInv
      <4> QED
        BY <1>1, <3>0, <4>1, FollowTypes
    <3>4. logs' = logs /\ logs' \in [Server -> Logs]
      BY <1>2 DEF NodeTypes
    <3>1. HardTypes(i)
      BY <3>3, <3>4 DEF HardTypes, Follows
    <3>2. persister' \in [Server -> HardState] /\ Durable'
      BY <1>1, <3>0, <3>1, <3>4, PersistTypes
    <3> QED
      BY <3>1, <3>2, <3>3 DEF Follows
  <2> QED
    BY <2>1, <2>2 DEF InstallSnapshot
<1>11. NodeTypes'
  BY <1>2, <1>5, <1>9, <1>10 DEF NodeTypes, HardTypes
<1>12. \A k \in Server : KeepsRole(k)
  BY <1>2, <1>10, LogTypes DEF KeepsRole, NodeTypes
<1>13. SentByLeaders' /\ MessagesInRange'
  BY <1>6, <1>10, <1>12, TrafficSurvives DEF HardTypes
<1>14. NextInRange'
  BY <1>2, <1>10, SameNext
<1>15. CommitKnown' /\ SnapshotsLabelled'
  BY <1>2, <1>6, <1>7, <1>9
     DEF CommitKnown, SnapshotsLabelled, NoNewRequest, isRequest
<1> QED
  BY <1>6, <1>10, <1>11, <1>13, <1>14, <1>15

LEMMA HandleInstallSnapshotResponseTypes ==
  ASSUME TypeInv, NEW m \in messages, HandleInstallSnapshotResponse(m)
  PROVE  TypeInv'
<1> USE DEF TypeInv
<1>1. /\ m \in SnapshotResponse /\ m.type = "InstallSnapshotResponse"
      /\ m.from \in Server /\ m.to \in Server
      /\ m.term \in Nat /\ m.lastIncludedIndex \in Nat
      /\ messages' = messages \ {m}
      /\ UNCHANGED <<commitIndex, grantedVotes, applyCh, votes, committed>>
  BY MessageKinds DEF HandleInstallSnapshotResponse, SnapshotResponse, history
<1>2. CASE DeposeBySnapshot(m)
  BY <1>1, <1>2, StepDownTypes DEF DeposeBySnapshot, history
<1>3. CASE IgnoreSnapshotResponse(m)
  BY <1>1, <1>3, IgnoredTypes DEF IgnoreSnapshotResponse, history
<1>4. CASE AdvancePeerToSnapshot(m)
  <2> DEFINE i == m.to
             k == m.lastIncludedIndex
  <2>1. /\ matchIndex' = [matchIndex EXCEPT ![i][m.from] = k]
        /\ nextIndex' = [nextIndex EXCEPT ![i][m.from] = k + 1]
        /\ UNCHANGED <<state, hardVars, persister>> /\ isCurrentLeader(m)
    BY <1>4 DEF AdvancePeerToSnapshot, setProgress
  <2>2. k <= lastIndex(logs[i])
    BY <1>1, <2>1 DEF MessagesInRange, isCurrentLeader, isVoteMsg, isRequest,
                      sender, epoch, reach
  <2>3. /\ matchIndex' \in [Server -> [Server -> Nat]]
        /\ k + 1 \in Int /\ (k + 1) - 1 <= lastIndex(logs[i])
    <3>1. matchIndex' \in [Server -> [Server -> Nat]]
      BY <1>1, <2>1 DEF NodeTypes
    <3> QED
      BY <1>1, <2>2, <3>1
  <2>4. /\ commitIndex' \in [Server -> Nat]
        /\ committed' \in Seq(Entry) /\ Len(committed') >= Len(committed)
        /\ \A h \in Server : /\ commitIndex'[h] >= commitIndex[h]
                             /\ commitIndex'[h] <= Len(committed')
    BY <1>1, SMTT(30) DEF NodeTypes, CommitKnown
  <2> QED
    BY <1>1, <2>1, <2>3, <2>4, ProgressTypes
<1> QED
  BY <1>2, <1>3, <1>4 DEF HandleInstallSnapshotResponse

-----------------------------------------------------------------------------
(* The theorems *)

LEMMA NextKeepsTypes ==
  ASSUME TypeInv, Next
  PROVE  TypeInv'
<1>1. ASSUME NEW i \in Server, NEW index \in SnapshotAt, Snapshot(i, index)
      PROVE  TypeInv'
  BY <1>1, SnapshotTypes, BoundAssumption
<1>2. ASSUME NEW i \in MayCrash, Restart(i)
      PROVE  TypeInv'
  BY <1>2, RestartTypes, BoundAssumption
<1>3. ASSUME NEW m \in messages, Drop(m)
      PROVE  TypeInv'
  BY <1>3, IgnoredTypes DEF Drop, history
<1>4. ASSUME NEW m \in messages, Receive(m)
      PROVE  TypeInv'
  BY <1>4, RequestVoteTypes, HandleVoteResponseTypes, AppendEntriesTypes,
     HandleAppendEntriesResponseTypes, InstallSnapshotTypes,
     HandleInstallSnapshotResponseTypes DEF Receive
<1> QED
  BY <1>1, <1>2, <1>3, <1>4, ElectionTimeoutTypes, ReplicateTypes, StartTypes,
     CondInstallSnapshotTypes DEF Next

\* The types, what every message in flight may say, and the progress of the
\* peers a leader knows of hold together: an inductive invariant.
THEOREM TypeInvariant == Spec => []TypeInv
<1>1. TypeInv /\ UNCHANGED vars => TypeInv'
  BY DEF vars, hardVars, leaderVars, history, TypeInv, NodeTypes, Durable,
         SentByLeaders, MessagesInRange, NextInRange, RefusalsBackUp,
         CommitKnown, SnapshotsLabelled
<1> QED
  BY <1>1, InitTypes, NextKeepsTypes, PTL DEF Spec

-----------------------------------------------------------------------------
(* The history of the leaders' logs *)

LEMMA WholeLogTypes ==
  ASSUME NEW l \in Logs, committed \in Seq(Entry), l.index <= Len(committed)
  PROVE  wholeLog(l) \in Seq(Entry) /\ Len(wholeLog(l)) = lastIndex(l)
<1>1. /\ l.index \in Nat /\ l.entries \in Seq(Entry)
      /\ lastIndex(l) = l.index + Len(l.entries) /\ lastIndex(l) \in Nat
  BY LogTypes
<1>2. ASSUME NEW k \in 1..lastIndex(l)
      PROVE  (IF k <= l.index THEN committed[k] ELSE entryAt(l, k)) \in Entry
  BY <1>1 DEF entryAt
<1> QED
  BY <1>1, <1>2 DEF wholeLog

\* A step of the leader i, whose log is now l, or of no leader.
LEMMA LedgerStep ==
  ASSUME TypeInv, LedgerTypes, NEW term \in Nat, NEW l \in Logs,
         l.index <= Len(committed),
         recordLog(term, l) \/ UNCHANGED ledger,
         \/ UNCHANGED acks
         \/ \E j \in Server, t, k, last \in Nat :
              acks' = acks \cup {<<t, j, k, last>>}
  PROVE  LedgerTypes'
<1>1. wholeLog(l) \in Seq(Entry)
  BY WholeLogTypes DEF TypeInv, NodeTypes
<1>2. acks' \subseteq Nat \X Server \X Nat \X Nat
  BY DEF LedgerTypes
<1>3. CASE UNCHANGED ledger
  BY <1>2, <1>3 DEF LedgerTypes
<1>4. CASE recordLog(term, l)
  BY <1>1, <1>2, <1>4 DEF LedgerTypes, recordLog
<1> QED
  BY <1>3, <1>4

LEMMA NextKeepsLedgers ==
  ASSUME TypeInv, LedgerTypes, Next
  PROVE  LedgerTypes'
<1>1. \A i \in Server : /\ currentTerm[i] \in Nat /\ logs[i] \in Logs
                         /\ logs[i].index <= Len(committed)
  <2>1. ASSUME NEW i \in Server PROVE logs[i].index <= Len(committed)
    <3>1. /\ logs[i].index \in Nat /\ commitIndex[i] \in Nat
          /\ Len(committed) \in Nat
      BY LogTypes DEF TypeInv, NodeTypes
    <3> QED
      BY <3>1 DEF TypeInv, CommitKnown
  <2> QED
    BY <2>1 DEF TypeInv, NodeTypes
<1>2. CASE UNCHANGED ledgerVars
  BY <1>2 DEF ledgerVars, LedgerTypes
<1>3. ASSUME NEW i \in Server, NEW v \in Value, Start(i, v) PROVE LedgerTypes'
  <2>1. recordLog(currentTerm[i], logs'[i])
        /\ acks' = acks \cup {<<currentTerm[i], i, lastIndex(logs[i]) + 1,
                                currentTerm[i]>>}
    BY <1>3 DEF Start
  <2>2. logs'[i] \in Logs /\ logs'[i].index <= Len(committed)
    <3>1. /\ TypeInv' /\ committed' = committed /\ Len(committed) \in Nat
          /\ logs'[i] \in Logs /\ logs'[i].index \in Nat
      <4>1. TypeInv' /\ committed' = committed
        BY <1>3, StartTypes DEF Start
      <4>2. logs'[i] \in Logs /\ Len(committed) \in Nat
        BY <4>1 DEF TypeInv, NodeTypes
      <4> QED
        BY <4>1, <4>2, LogTypes
    <3>2. logs'[i] \in Logs /\ commitIndex'[i] \in Nat
      BY <3>1 DEF TypeInv, NodeTypes
    <3>3. logs'[i].index <= commitIndex'[i] /\ commitIndex'[i] <= Len(committed)
      BY <3>1 DEF TypeInv, CommitKnown
    <3> QED
      BY <3>1, <3>2, <3>3, LogTypes
  <2>3. lastIndex(logs[i]) + 1 \in Nat
    BY <1>1, LogTypes
  <2> QED
    BY <1>1, <2>1, <2>2, <2>3, LedgerStep
<1>4. ASSUME NEW m \in messages, AppendEntries(m) PROVE LedgerTypes'
  <2>1. /\ m \in AppendRequest /\ m.to \in Server
        /\ UNCHANGED ledger
        /\ \/ UNCHANGED acks
           \/ /\ AcceptAppend(m)
              /\ acks' = acks \cup
                   {<<m.term, m.to, m.prevLogIndex + Len(m.entries),
                      termAt(logs'[m.to], lastIndex(logs'[m.to]))>>}
    BY <1>4, MessageKinds DEF AppendEntries, RejectStaleAppend,
       RejectCompactedAppend, RejectConflictingAppend, AcceptAppend, TypeInv,
       NodeTypes
  <2>2. m.term \in Nat /\ m.prevLogIndex + Len(m.entries) \in Nat
    BY <2>1 DEF AppendRequest
  <2>3. termAt(logs'[m.to], lastIndex(logs'[m.to])) \in Nat
    <3>1. TypeInv'
      BY <1>4, AppendEntriesTypes
    <3>2. logs'[m.to] \in Logs
      BY <2>1, <3>1 DEF TypeInv, NodeTypes
    <3> QED
      BY <3>2, LogTypes, TermTypes
  <2> QED
    BY <1>1, <2>1, <2>2, <2>3, LedgerStep
<1>5. ASSUME NEW m \in messages, HandleVoteResponse(m) PROVE LedgerTypes'
  <2>1. /\ m.to \in Server /\ UNCHANGED acks
        /\ recordLog(currentTerm[m.to], logs[m.to]) \/ UNCHANGED ledger
    BY <1>5, MessageKinds DEF HandleVoteResponse, CountVote, becomeLeader,
       LoseElection, IgnoreVoteResponse, TypeInv
  <2> QED
    BY <1>1, <2>1, LedgerStep
<1>6. ASSUME NEW i \in Server,
             ElectionTimeout(i) \/ (\E j \in Server : ReplicateOneRound(i, j))
               \/ Restart(i) \/ (\E k \in SnapshotAt : Snapshot(i, k))
               \/ (\E p \in applyCh[i] : CondInstallSnapshot(i, p))
      PROVE  UNCHANGED ledgerVars
  BY <1>6 DEF ElectionTimeout, ReplicateOneRound, Restart, Snapshot,
     CondInstallSnapshot, history
<1>7. ASSUME NEW m \in messages,
             Drop(m) \/ RequestVote(m) \/ HandleAppendEntriesResponse(m)
               \/ InstallSnapshot(m) \/ HandleInstallSnapshotResponse(m)
      PROVE  UNCHANGED ledgerVars
  BY <1>7 DEF Drop, RequestVote, HandleAppendEntriesResponse, InstallSnapshot,
     HandleInstallSnapshotResponse, history
<1> QED
  BY <1>2, <1>3, <1>4, <1>5, <1>6, <1>7, BoundAssumption DEF Next, Receive

\* Every variable and every message keeps its type: no handler slices a log
\* outside of its range.
THEOREM TypesAreCorrect == Spec => []TypeOK
<1>1. Init => LedgerTypes
  BY DEF Init, LedgerTypes
<1>2. TypeInv /\ LedgerTypes /\ [Next]_vars => LedgerTypes'
  BY NextKeepsLedgers DEF vars, history, ledgerVars, LedgerTypes
<1>3. TypeInv /\ LedgerTypes => TypeOK
  BY DEF TypeInv, NodeTypes, LedgerTypes, TypeOK
<1> QED
  BY <1>1, <1>2, <1>3, TypeInvariant, PTL DEF Spec

\* At every moment the persister holds the node's term, vote and log, and the
\* snapshot this log starts from.
THEOREM HardStateIsDurable == Spec => []Durable
BY TypeInvariant, PTL DEF TypeInv
=============================================================================
