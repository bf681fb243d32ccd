-------------------------- MODULE RaftSafetyProofs --------------------------
(***************************************************************************)
(* The logs of Raft are safe, for every number of servers, every set of    *)
(* commands and every bound: proofs of LogMatching, LeaderCompleteness,    *)
(* StateMachineSafety, IndexesInRange, MatchIndexSound and CommittedStays  *)
(* of module Raft, and that it implements module ReplicatedLog.            *)
(*                                                                         *)
(* Everything is compared with the ledgers: ledger[t] is the whole log of  *)
(* the leader of term t.  An entry of a leader's own term is chosen when a *)
(* majority has stored the ledger up to it, and blocked when a majority    *)
(* that has not has left the term: it will never be chosen then, and       *)
(* neither can be undone.  The later leaders have every entry that is not  *)
(* blocked (LedgersSafe), because whoever votes for one has stored it, or  *)
(* never will.  What anybody knows to be committed was chosen in a term no *)
(* later than its own (isSettled), so any leader it listens to has it.     *)
(*                                                                         *)
(* A log is not always the beginning of a ledger.  CondInstallSnapshot     *)
(* keeps what is behind the snapshot, be it of another branch than the     *)
(* snapshot's last entry.  Such a tail is blocked from its first entry on. *)
(***************************************************************************)
EXTENDS RaftProofs, RaftTypeProofs

-----------------------------------------------------------------------------
(* Ledgers *)

\* The entry k of ledger t is of term t: t's leader has added it itself.
isOwn(t, k) ==
  t \in DOMAIN ledger /\ k \in 1..Len(ledger[t]) /\ ledger[t][k].term = t

\* The ledgers of t and u agree up to k.
sameLedger(t, u, k) ==
  /\ k <= Len(ledger[t]) /\ k <= Len(ledger[u])
  /\ \A n \in 1..k : ledger[t][n] = ledger[u][n]

hasStored(j, t, k) == \E a \in acks : a[1] = t /\ a[2] = j /\ a[3] >= k

\* ... with no older entry behind it, so j votes for who has as much.
hasSecured(j, t, k) ==
  \E a \in acks : a[1] = t /\ a[2] = j /\ a[3] >= k /\ a[4] >= t

isChosen(t, k) == isOwn(t, k) /\ isMajority({j \in Server : hasSecured(j, t, k)})

isBlocked(t, k) ==
  \E Q \in SUBSET Server :
    isMajority(Q) /\ \A j \in Q : currentTerm[j] > t /\ ~hasSecured(j, t, k)

\* An entry is the last of its term's ledger up to there.
LedgersMatch ==
  \A u \in DOMAIN ledger : \A n \in 1..Len(ledger[u]) :
    LET t == ledger[u][n].term IN
    t <= u /\ isOwn(t, n) /\ sameLedger(t, u, n)

LedgersSafe ==
  \A u \in DOMAIN ledger : \A t \in DOMAIN ledger : \A k \in 1..Len(ledger[t]) :
    t < u /\ isOwn(t, k) => sameLedger(t, u, k) \/ isBlocked(t, k)

\* A ledger is of a leader, who was elected.
LedgersElected ==
  \A u \in DOMAIN ledger : \E c \in Server :
    /\ isMajority(voters(u, c)) /\ u <= currentTerm[c]
    /\ u = currentTerm[c] => state[c] # "Candidate"

AcksInRange ==
  \A a \in acks :
    /\ a[1] \in DOMAIN ledger /\ a[1] <= currentTerm[a[2]]
    /\ a[3] <= Len(ledger[a[1]])

\* What is stored without being secured, a snapshot has brought.
AcksSecured ==
  \A a \in acks : \A k \in 1..a[3] :
    isOwn(a[1], k) => hasSecured(a[2], a[1], k) \/ isChosen(a[1], k)

VotesAsked == \A v \in votes : v[1] <= currentTerm[v[3]]

-----------------------------------------------------------------------------
(* What is committed *)

committedIs(t, k) ==
  /\ k <= Len(committed) /\ k <= Len(ledger[t])
  /\ \A n \in 1..k : committed[n] = ledger[t][n]

committedTerm(k) == IF k = 0 THEN 0 ELSE committed[k].term

\* A leader of a term up to term has found the first k entries committed.
isSettled(k, term) ==
  \/ k = 0
  \/ \E t \in DOMAIN ledger :
       /\ t <= term /\ committedIs(t, k)
       /\ \E c \in k..Len(ledger[t]) : isChosen(t, c)

CommittedChosen ==
  LET k == Len(committed) IN
  k # 0 => isChosen(committed[k].term, k) /\ committedIs(committed[k].term, k)

-----------------------------------------------------------------------------
(* Nodes *)

wholeEntry(l, k) == IF k <= l.index THEN committed[k] ELSE entryAt(l, k)

lastTerm(l) == termAt(l, lastIndex(l))

\* Log l has the ledger of t up to k.
hasPrefix(l, t, k) ==
  /\ k <= lastIndex(l) /\ k <= Len(ledger[t])
  /\ \A n \in 1..k : wholeEntry(l, n) = ledger[t][n]

\* ... and is voted for accordingly.
holds(l, t, k) == hasPrefix(l, t, k) /\ lastTerm(l) >= t

\* A log of a node in that term: its snapshot is settled, and each entry behind
\* it is in the ledger of the entry's term, with all before it up to the snapshot.
isNodeLog(l, term) ==
  /\ l \in Logs
  /\ isSettled(l.index, term)
  /\ l.term = committedTerm(l.index)
  /\ \A n \in (l.index + 1)..lastIndex(l) :
       LET t == termAt(l, n) IN
       /\ t <= term /\ isOwn(t, n)
       /\ \A q \in (l.index + 1)..n : entryAt(l, q) = ledger[t][q]

EntriesOwned == \A i \in Server : isNodeLog(logs[i], currentTerm[i])

knowsCommitted(i) ==
  /\ isSettled(commitIndex[i], currentTerm[i])
  /\ commitIndex[i] <= lastIndex(logs[i])
  /\ committedPrefix(logs[i], commitIndex[i])

PrefixSettled == \A i \in Server : knowsCommitted(i)

hasLedger(i) ==
  /\ currentTerm[i] \in DOMAIN ledger
  /\ lastIndex(logs[i]) = Len(ledger[currentTerm[i]])
  /\ hasPrefix(logs[i], currentTerm[i], lastIndex(logs[i]))

LeadersHaveLedgers == \A i \in Server : state[i] = "Leader" => hasLedger(i)

\* What a node has stored in its term it still has.
StoredNow ==
  \A a \in acks : a[1] = currentTerm[a[2]] => hasPrefix(logs[a[2]], a[1], a[3])

SecuredHeld ==
  \A j \in Server : \A t \in DOMAIN ledger : \A k \in 1..Len(ledger[t]) :
    isOwn(t, k) /\ hasSecured(j, t, k)
      => holds(logs[j], t, k) \/ isBlocked(t, k)

\* A candidate has what its voters had secured when they voted.
CandidatesHold ==
  \A i \in Server : state[i] = "Candidate" =>
    \A j \in voters(currentTerm[i], i) :
      \A t \in DOMAIN ledger : \A k \in 1..Len(ledger[t]) :
        t < currentTerm[i] /\ isOwn(t, k) /\ hasSecured(j, t, k)
          => holds(logs[i], t, k) \/ isBlocked(t, k)

isTrueSnapshot(p, term) ==
  isSettled(p.index, term) /\ p.term = committedTerm(p.index)

SnapshotsSettled ==
  \A i \in Server : \A p \in applyCh[i] : isTrueSnapshot(p, currentTerm[i])

knowsProgress(i, j) ==
  \/ matchIndex[i][j] <= logs[i].index
  \/ hasStored(j, currentTerm[i], matchIndex[i][j])

ProgressKnown ==
  \A i \in Server : state[i] = "Leader" => \A j \in Server : knowsProgress(i, j)

-----------------------------------------------------------------------------
(* Messages *)

\* A log that ends at index last with term is as recent as entry k of term t.
reaches(term, last, t, k) == term > t \/ (term = t /\ last >= k)

\* The end of the candidate's log; it has what is not more recent.
isTrueVoteRequest(m) ==
  /\ \/ m.lastLogTerm = 0 /\ m.lastLogIndex = 0
     \/ isOwn(m.lastLogTerm, m.lastLogIndex)
  /\ \A t \in DOMAIN ledger : \A k \in 1..Len(ledger[t]) :
       isOwn(t, k) /\ reaches(m.lastLogTerm, m.lastLogIndex, t, k)
         => holds(logs[m.from], t, k) \/ isBlocked(t, k)

VoteRequestsTrue ==
  \A m \in messages :
    /\ m.type = "RequestVote"
    /\ state[m.from] = "Candidate" /\ currentTerm[m.from] = m.term
    => isTrueVoteRequest(m)

ledgerTerm(t, k) == IF k = 0 THEN 0 ELSE ledger[t][k].term

\* A request carries a piece of its leader's ledger.
isTrueAppend(m) ==
  /\ m.term \in DOMAIN ledger /\ reach(m) <= Len(ledger[m.term])
  /\ m.prevLogTerm = ledgerTerm(m.term, m.prevLogIndex)
  /\ \A n \in 1..Len(m.entries) :
       m.entries[n] = ledger[m.term][m.prevLogIndex + n]
  /\ m.leaderCommit <= reach(m) /\ isSettled(m.leaderCommit, m.term)

\* A leader's log starts no earlier than the snapshots it has sent.
isCut(m) ==
  state[sender(m)] = "Leader" /\ epoch(m) = currentTerm[sender(m)]
    => m.lastIncludedIndex <= logs[sender(m)].index

isTrue(m) ==
  /\ m.type = "AppendEntries" => isTrueAppend(m)
  /\ m.type = "AppendEntriesResponse" /\ m.success
       => hasStored(m.from, m.reqTerm, reach(m))
  /\ m.type = "InstallSnapshot" =>
       /\ isSettled(m.lastIncludedIndex, m.term)
       /\ m.lastIncludedTerm = committedTerm(m.lastIncludedIndex)
  /\ m.type \in {"InstallSnapshot", "InstallSnapshotResponse"} => isCut(m)

TrafficTrue == \A m \in messages : isTrue(m)

SafetyInv ==
  /\ LedgersMatch /\ LedgersSafe /\ LedgersElected
  /\ AcksInRange /\ AcksSecured /\ VotesAsked /\ CommittedChosen
  /\ EntriesOwned /\ PrefixSettled /\ LeadersHaveLedgers
  /\ StoredNow /\ SecuredHeld /\ CandidatesHold
  /\ SnapshotsSettled /\ ProgressKnown
  /\ VoteRequestsTrue /\ TrafficTrue

RaftInv == ElectionInv /\ TypeInv /\ LedgerTypes /\ SafetyInv

-----------------------------------------------------------------------------
(* Chosen and blocked entries *)

LEMMA LedgerEntries ==
  ASSUME LedgerTypes, NEW t \in DOMAIN ledger
  PROVE  /\ t \in Nat /\ Len(ledger[t]) \in Nat
         /\ \A k \in 1..Len(ledger[t]) : ledger[t][k].term \in Nat
<1>1. t \in Nat /\ ledger[t] \in Seq(Entry)
  BY DEF LedgerTypes
<1>2. \A k \in 1..Len(ledger[t]) : ledger[t][k] \in Entry
  BY <1>1
<1> QED
  BY <1>1, <1>2 DEF Entry

\* No majority avoids an entry that another majority has secured.
LEMMA ChosenNotBlocked ==
  ASSUME NEW t, NEW k, isChosen(t, k)
  PROVE  ~isBlocked(t, k)
<1> SUFFICES ASSUME NEW Q \in SUBSET Server, isMajority(Q),
                    \A j \in Q : ~hasSecured(j, t, k)
             PROVE  FALSE
  BY DEF isBlocked
<1> DEFINE S == {j \in Server : hasSecured(j, t, k)}
<1>1. S \in SUBSET Server /\ isMajority(S)
  BY DEF isChosen
<1>2. S \cap Q # {}
  BY <1>1, MajoritiesMeet
<1> QED
  BY <1>2

\* Who has secured an entry has secured those before it.
LEMMA ChosenBefore ==
  ASSUME LedgerTypes, NEW t, NEW k, NEW c \in Nat, isChosen(t, c), isOwn(t, k),
         k <= c
  PROVE  isChosen(t, k)
<1> DEFINE S(n) == {j \in Server : hasSecured(j, t, n)}
<1>1. k \in Nat
  BY DEF isOwn
<1>2. \A j \in Server : hasSecured(j, t, c) => hasSecured(j, t, k)
  <2> SUFFICES ASSUME NEW a \in acks, a[3] >= c
               PROVE  a[3] >= k
    BY DEF hasSecured
  <2> QED
    BY <1>1 DEF LedgerTypes
<1>3. S(c) \subseteq S(k) /\ S(k) \in SUBSET Server /\ S(c) \in SUBSET Server
  BY <1>2
<1>4. isMajority(S(c))
  BY DEF isChosen
<1>5. isMajority(S(k))
  BY <1>3, <1>4, MajorityGrows
<1> QED
  BY <1>5 DEF isChosen

\* The terms of a ledger never decrease.
LEMMA TermsSorted ==
  ASSUME LedgerTypes, LedgersMatch, NEW t \in DOMAIN ledger,
         NEW k \in 1..Len(ledger[t]), NEW n \in 1..k
  PROVE  ledger[t][n].term <= ledger[t][k].term
<1> DEFINE s == ledger[t][k].term
<1>1. isOwn(s, k) /\ sameLedger(s, t, k)
  BY DEF LedgersMatch
<1>2. s \in DOMAIN ledger /\ n \in 1..Len(ledger[s]) /\ ledger[s][n] = ledger[t][n]
  BY <1>1, LedgerEntries DEF isOwn, sameLedger
<1> QED
  BY <1>2 DEF LedgersMatch

\* An entry that is not blocked is in every later ledger.
LEMMA LaterLedgers ==
  ASSUME LedgerTypes, LedgersSafe, NEW t, NEW k, NEW u \in DOMAIN ledger,
         isOwn(t, k), ~isBlocked(t, k), t <= u
  PROVE  sameLedger(t, u, k)
<1>1. t \in DOMAIN ledger /\ k \in 1..Len(ledger[t]) /\ t \in Nat /\ u \in Nat
  BY LedgerEntries DEF isOwn
<1>2. CASE t = u
  BY <1>1, <1>2, LedgerEntries DEF sameLedger
<1>3. CASE t < u
  BY <1>1, <1>3 DEF LedgersSafe
<1> QED
  BY <1>1, <1>2, <1>3

\* Whoever leads a later term has what is settled.
LEMMA SettledInLater ==
  ASSUME LedgerTypes, LedgersSafe, NEW k \in Nat, NEW term \in Nat,
         isSettled(k, term), NEW u \in DOMAIN ledger, term <= u
  PROVE  k <= Len(ledger[u]) /\ \A n \in 1..k : committed[n] = ledger[u][n]
<1>1. CASE k = 0
  BY <1>1, LedgerEntries
<1>2. CASE k # 0
  <2>1. PICK t \in DOMAIN ledger : /\ t <= term /\ committedIs(t, k)
                                   /\ \E c \in k..Len(ledger[t]) : isChosen(t, c)
    BY <1>2 DEF isSettled
  <2>2. PICK c \in k..Len(ledger[t]) : isChosen(t, c)
    BY <2>1
  <2>3. isOwn(t, c) /\ ~isBlocked(t, c) /\ t <= u
    BY <2>1, <2>2, ChosenNotBlocked, LedgerEntries DEF isChosen
  <2>4. sameLedger(t, u, c)
    BY <2>3, LaterLedgers
  <2>5. k <= c /\ c <= Len(ledger[u]) /\ c \in Nat /\ Len(ledger[u]) \in Nat
    BY <2>2, <2>4, LedgerEntries DEF sameLedger
  <2>6. ASSUME NEW n \in 1..k PROVE committed[n] = ledger[u][n]
    <3>1. n \in 1..c
      BY <2>5
    <3> QED
      BY <2>1, <2>4, <3>1 DEF sameLedger, committedIs
  <2> QED
    BY <2>5, <2>6
<1> QED
  BY <1>1, <1>2

LEMMA SettledBefore ==
  ASSUME LedgerTypes, committed \in Seq(Entry),
         NEW k \in Nat, NEW n \in 0..k, NEW term \in Nat,
         NEW later \in Nat, term <= later, isSettled(k, term)
  PROVE  isSettled(n, later) /\ k <= Len(committed)
<1>1. CASE k = 0
  BY <1>1 DEF isSettled
<1>2. CASE k # 0
  <2>1. PICK t \in DOMAIN ledger : /\ t <= term /\ committedIs(t, k)
                                   /\ \E c \in k..Len(ledger[t]) : isChosen(t, c)
    BY <1>2 DEF isSettled
  <2>2. PICK c \in k..Len(ledger[t]) : isChosen(t, c)
    BY <2>1
  <2>3. t \in Nat /\ Len(ledger[t]) \in Nat
    BY LedgerEntries
  <2>4. c \in n..Len(ledger[t]) /\ committedIs(t, n) /\ t <= later
    BY <2>1, <2>2, <2>3 DEF committedIs
  <2> QED
    BY <2>1, <2>2, <2>4 DEF isSettled, committedIs
<1> QED
  BY <1>1, <1>2

\* The term of the last settled entry is that of a leader who had it.
LEMMA SettledTerm ==
  ASSUME LedgerTypes, LedgersMatch, NEW k \in Nat \ {0}, NEW term \in Nat,
         isSettled(k, term)
  PROVE  LET t == committed[k].term IN
         /\ t \in Nat /\ t <= term /\ isOwn(t, k) /\ committedIs(t, k)
<1> DEFINE t == committed[k].term
<1>1. PICK u \in DOMAIN ledger : u <= term /\ committedIs(u, k)
  BY DEF isSettled
<1>2. k \in 1..Len(ledger[u]) /\ t = ledger[u][k].term /\ u \in Nat /\ t \in Nat
  BY <1>1, LedgerEntries DEF committedIs
<1>3. t <= u /\ isOwn(t, k) /\ sameLedger(t, u, k)
  BY <1>2 DEF LedgersMatch
<1>4. committedIs(t, k)
  BY <1>1, <1>3 DEF committedIs, sameLedger
<1> QED
  BY <1>1, <1>2, <1>3, <1>4

\* What is committed does not contradict an entry that is not blocked.
LEMMA CommittedAgrees ==
  ASSUME LedgerTypes, LedgersSafe, NEW k \in Nat, NEW term \in Nat,
         isSettled(k, term), NEW t, NEW n, isOwn(t, n), ~isBlocked(t, n)
  PROVE  \A q \in 1..n : q <= k => committed[q] = ledger[t][q]
<1>1. CASE k = 0
  BY <1>1 DEF isOwn
<1>2. CASE k # 0
  <2>1. PICK u \in DOMAIN ledger : /\ committedIs(u, k)
                                   /\ \E c \in k..Len(ledger[u]) : isChosen(u, c)
    BY <1>2 DEF isSettled
  <2>2. PICK c \in k..Len(ledger[u]) : isChosen(u, c)
    BY <2>1
  <2>3. isOwn(u, c) /\ ~isBlocked(u, c)
    BY <2>2, ChosenNotBlocked DEF isChosen
  <2>4. t \in DOMAIN ledger /\ t \in Nat /\ u \in Nat /\ n \in Nat
    BY LedgerEntries DEF isOwn
  <2>5. t <= u => sameLedger(t, u, n)
    BY LaterLedgers
  <2>6. u <= t => sameLedger(u, t, c)
    BY <2>3, <2>4, LaterLedgers
  <2>7. ASSUME NEW q \in 1..n, q <= k PROVE committed[q] = ledger[t][q]
    <3>1. committed[q] = ledger[u][q]
      BY <2>1, <2>4, <2>7 DEF committedIs
    <3>2. CASE t <= u
      BY <2>5, <3>1, <3>2 DEF sameLedger
    <3>3. CASE u <= t
      <4>1. q \in 1..c
        BY <2>2, <2>4, <2>7
      <4> QED
        BY <2>6, <3>1, <3>3, <4>1 DEF sameLedger
    <3> QED
      BY <2>4, <3>2, <3>3
  <2> QED
    BY <2>7
<1> QED
  BY <1>1, <1>2

-----------------------------------------------------------------------------
(* The log of a node *)

LEMMA NodeLogs ==
  ASSUME TypeInv, EntriesOwned, PrefixSettled, NEW i \in Server
  PROVE  /\ isNodeLog(logs[i], currentTerm[i]) /\ logs[i] \in Logs
         /\ logs[i].index \in Nat /\ commitIndex[i] \in Nat
         /\ logs[i].index <= commitIndex[i]
         /\ commitIndex[i] <= lastIndex(logs[i])
         /\ lastIndex(logs[i]) \in Nat
         /\ currentTerm[i] \in Nat
         /\ commitIndex[i] <= Len(committed) /\ logs[i].index <= Len(committed)
         /\ Len(committed) \in Nat
<1>1. /\ logs[i] \in Logs /\ commitIndex[i] \in Nat /\ currentTerm[i] \in Nat
      /\ committed \in Seq(Entry)
  BY DEF TypeInv, NodeTypes
<1>2. logs[i].index \in Nat /\ lastIndex(logs[i]) \in Nat
  BY <1>1, LogTypes
<1>3. logs[i].index <= commitIndex[i] /\ commitIndex[i] <= Len(committed)
  BY DEF TypeInv, CommitKnown
<1> QED
  BY <1>1, <1>2, <1>3 DEF EntriesOwned, PrefixSettled, knowsCommitted

\* Its last entry is in the ledger of that entry's term, with all that follow
\* the snapshot.
LEMMA LastEntry ==
  ASSUME LedgerTypes, LedgersMatch, NEW term \in Nat, NEW l, isNodeLog(l, term)
  PROVE  /\ lastTerm(l) \in Nat /\ lastTerm(l) <= term
         /\ lastIndex(l) = 0 => lastTerm(l) = 0
         /\ lastIndex(l) # 0 => isOwn(lastTerm(l), lastIndex(l))
         /\ \A q \in (l.index + 1)..lastIndex(l) :
              entryAt(l, q) = ledger[lastTerm(l)][q]
<1> DEFINE n == lastIndex(l)
<1>1. l \in Logs /\ l.index \in Nat /\ n \in Nat /\ l.index <= n
  BY LogTypes DEF isNodeLog
<1>2. lastTerm(l) \in Nat
  BY <1>1, TermTypes DEF lastTerm
<1>3. CASE n = l.index
  <2>1. lastTerm(l) = committedTerm(n) /\ isSettled(n, term)
    BY <1>3 DEF lastTerm, termAt, isNodeLog
  <2>2. n # 0 => lastTerm(l) <= term /\ isOwn(lastTerm(l), n)
    BY <1>1, <2>1, SettledTerm DEF committedTerm
  <2> QED
    BY <1>1, <1>2, <1>3, <2>1, <2>2 DEF committedTerm
<1>4. CASE n # l.index
  BY <1>1, <1>2, <1>4 DEF isNodeLog, lastTerm
<1> QED
  BY <1>3, <1>4

\* A log whose snapshot is settled in the term of its entry k, or before, is the
\* beginning of that term's ledger.
LEMMA PrefixOfLedger ==
  ASSUME LedgerTypes, LedgersSafe, NEW l \in Logs, NEW term \in Nat,
         isSettled(l.index, term), NEW t \in DOMAIN ledger, term <= t,
         NEW k \in Nat, k <= lastIndex(l), k <= Len(ledger[t]),
         \A q \in (l.index + 1)..k : entryAt(l, q) = ledger[t][q]
  PROVE  hasPrefix(l, t, k)
<1>1. l.index \in Nat /\ lastIndex(l) \in Nat
  BY LogTypes
<1>2. \A n \in 1..l.index : committed[n] = ledger[t][n]
  BY <1>1, SettledInLater
<1>3. ASSUME NEW n \in 1..k PROVE wholeEntry(l, n) = ledger[t][n]
  BY <1>1, <1>2 DEF wholeEntry
<1> QED
  BY <1>3 DEF hasPrefix

\* Two logs of one term at an index: the beginning of the leader's ledger.
LEMMA MatchAt ==
  ASSUME LedgerTypes, LedgersMatch, LedgersSafe, NEW term \in Nat, NEW l,
         isNodeLog(l, term), NEW t \in DOMAIN ledger, term <= t,
         NEW k \in l.index..lastIndex(l), k <= Len(ledger[t]),
         k # l.index => termAt(l, k) = ledger[t][k].term
  PROVE  hasPrefix(l, t, k)
<1>1. l \in Logs /\ l.index \in Nat /\ lastIndex(l) \in Nat /\ k \in Nat
  BY LogTypes DEF isNodeLog
<1>2. ASSUME NEW q \in (l.index + 1)..k PROVE entryAt(l, q) = ledger[t][q]
  <2> DEFINE s == termAt(l, k)
  <2>1. isOwn(s, k) /\ entryAt(l, q) = ledger[s][q]
    BY <1>1 DEF isNodeLog
  <2>2. k \in 1..Len(ledger[t]) /\ s = ledger[t][k].term
    BY <1>1, LedgerEntries
  <2>3. sameLedger(s, t, k)
    BY <2>2 DEF LedgersMatch
  <2> QED
    BY <1>1, <2>1, <2>3 DEF sameLedger
<1> QED
  BY <1>1, <1>2, PrefixOfLedger DEF isNodeLog

\* A log that is as recent as an entry has it, or the entry is blocked: what
\* isLogUpToDate is for.
LEMMA RecentHolds ==
  ASSUME LedgerTypes, LedgersMatch, LedgersSafe, NEW term \in Nat, NEW l,
         isNodeLog(l, term), NEW t, NEW k, isOwn(t, k), ~isBlocked(t, k),
         reaches(lastTerm(l), lastIndex(l), t, k)
  PROVE  holds(l, t, k)
<1> DEFINE s == lastTerm(l)
           n == lastIndex(l)
<1>1. /\ l \in Logs /\ l.index \in Nat /\ n \in Nat /\ s \in Nat
      /\ t \in DOMAIN ledger /\ k \in 1..Len(ledger[t])
      /\ t \in Nat /\ k \in Nat /\ Len(ledger[t]) \in Nat
  <2>1. l \in Logs /\ l.index \in Nat /\ n \in Nat /\ s \in Nat
    BY LogTypes, LastEntry DEF isNodeLog
  <2>2. t \in DOMAIN ledger /\ k \in 1..Len(ledger[t])
    BY DEF isOwn
  <2> QED
    BY <2>1, <2>2, LedgerEntries
<1> HIDE DEF s, n
<1>2. s >= t /\ (s = t => n >= k)
  BY <1>1 DEF reaches, s, n
<1>3. n # 0
  BY <1>1, <1>2, LastEntry DEF s, n
<1>4. isOwn(s, n) /\ \A q \in (l.index + 1)..n : entryAt(l, q) = ledger[s][q]
  BY <1>3, LastEntry DEF s, n
<1>5. sameLedger(t, s, k)
  BY <1>1, <1>2, <1>4, LaterLedgers DEF isOwn
<1>6. k <= n
  <2> SUFFICES ASSUME k > n, s > t
               PROVE  FALSE
    BY <1>1, <1>2
  <2>1. /\ s \in DOMAIN ledger /\ k \in 1..Len(ledger[s]) /\ n \in 1..k
        /\ ledger[s][n].term = s /\ ledger[s][k].term = t
    BY <1>1, <1>3, <1>4, <1>5 DEF isOwn, sameLedger
  <2>2. s <= t
    BY <2>1, TermsSorted
  <2> QED
    BY <1>1, <2>2
<1>7. \A q \in 1..k : q <= l.index => committed[q] = ledger[t][q]
  BY <1>1, CommittedAgrees DEF isNodeLog
<1>8. ASSUME NEW q \in 1..k PROVE wholeEntry(l, q) = ledger[t][q]
  BY <1>1, <1>4, <1>5, <1>6, <1>7, SMTT(30) DEF wholeEntry, sameLedger
<1> QED
  BY <1>1, <1>2, <1>6, <1>8 DEF holds, hasPrefix, s, n

-----------------------------------------------------------------------------
(* Ledgers, acknowledgements and committed entries only grow *)

\* What every step does to them.  A node acknowledges in its own term.
Grows ==
  /\ TypeInv /\ LedgerTypes /\ TypeInv' /\ LedgerTypes'
  /\ \A j \in Server : currentTerm[j] <= currentTerm'[j]
  /\ \A t \in DOMAIN ledger :
       /\ t \in DOMAIN ledger' /\ Len(ledger[t]) <= Len(ledger'[t])
       /\ \A n \in 1..Len(ledger[t]) : ledger'[t][n] = ledger[t][n]
  /\ acks \subseteq acks'
  /\ \A a \in acks' \ acks : currentTerm[a[2]] <= a[1]
  /\ Len(committed) <= Len(committed')
  /\ \A n \in 1..Len(committed) : committed'[n] = committed[n]

LEMMA OwnGrows ==
  ASSUME Grows
  PROVE  /\ \A t, k : isOwn(t, k) => isOwn(t, k)'
         /\ \A t \in DOMAIN ledger : \A k \in 1..Len(ledger[t]) :
              isOwn(t, k)' => isOwn(t, k)
<1>1. ASSUME NEW t \in DOMAIN ledger, NEW k \in 1..Len(ledger[t])
      PROVE  /\ t \in DOMAIN ledger' /\ k \in 1..Len(ledger'[t])
             /\ ledger'[t][k] = ledger[t][k]
  <2>1. Len(ledger[t]) \in Nat
    BY LedgerEntries DEF Grows
  <2>2. t \in DOMAIN ledger' /\ Len(ledger[t]) <= Len(ledger'[t])
    BY DEF Grows
  <2>3. ledger'[t] \in Seq(Entry)
    BY <2>2 DEF Grows, LedgerTypes
  <2> QED
    BY <2>1, <2>2, <2>3 DEF Grows
<1> QED
  BY <1>1 DEF isOwn

LEMMA SameGrows ==
  ASSUME Grows, NEW t \in DOMAIN ledger, NEW u \in DOMAIN ledger, NEW k \in Int,
         sameLedger(t, u, k)
  PROVE  sameLedger(t, u, k)'
<1>1. ASSUME NEW s \in DOMAIN ledger
      PROVE  /\ Len(ledger[s]) \in Nat /\ Len(ledger'[s]) \in Nat
             /\ Len(ledger[s]) <= Len(ledger'[s])
             /\ \A n \in 1..Len(ledger[s]) : ledger'[s][n] = ledger[s][n]
  <2>1. s \in DOMAIN ledger'
    BY DEF Grows
  <2>2. ledger[s] \in Seq(Entry) /\ ledger'[s] \in Seq(Entry)
    BY <2>1 DEF Grows, LedgerTypes
  <2> QED
    BY <2>2 DEF Grows
<1>2. k <= Len(ledger[t]) /\ k <= Len(ledger[u])
  BY DEF sameLedger
<1>3. k <= Len(ledger'[t]) /\ k <= Len(ledger'[u])
  BY <1>1, <1>2
<1>4. ASSUME NEW n \in 1..k PROVE ledger'[t][n] = ledger'[u][n]
  <2>1. n \in 1..Len(ledger[t]) /\ n \in 1..Len(ledger[u])
    BY <1>1, <1>2
  <2>2. ledger[t][n] = ledger[u][n]
    BY DEF sameLedger
  <2> QED
    BY <1>1, <2>1, <2>2
<1> QED
  BY <1>3, <1>4 DEF sameLedger

LEMMA StoredGrows ==
  ASSUME Grows
  PROVE  /\ \A j, t, k : hasStored(j, t, k) => hasStored(j, t, k)'
         /\ \A j, t, k : hasSecured(j, t, k) => hasSecured(j, t, k)'
BY DEF Grows, hasStored, hasSecured

LEMMA ChosenGrows ==
  ASSUME Grows, NEW t, NEW k, isChosen(t, k)
  PROVE  isChosen(t, k)'
<1> DEFINE S == {j \in Server : hasSecured(j, t, k)}
           T == {j \in Server : hasSecured(j, t, k)'}
<1>1. S \subseteq T /\ S \in SUBSET Server /\ T \in SUBSET Server
  BY StoredGrows
<1>2. isMajority(S)
  BY DEF isChosen
<1>3. isMajority(T)
  BY <1>1, <1>2, MajorityGrows
<1>4. isOwn(t, k)'
  BY OwnGrows DEF isChosen
<1> QED
  BY <1>3, <1>4 DEF isChosen, isMajority

\* Who has left a term secures nothing of it any more.
LEMMA BlockedGrows ==
  ASSUME Grows, NEW t \in Nat, NEW k, isBlocked(t, k)
  PROVE  isBlocked(t, k)'
<1>1. PICK Q \in SUBSET Server :
        isMajority(Q) /\ \A j \in Q : currentTerm[j] > t /\ ~hasSecured(j, t, k)
  BY DEF isBlocked
<1>2. ASSUME NEW j \in Q PROVE currentTerm'[j] > t /\ ~hasSecured(j, t, k)'
  <2>1. currentTerm[j] \in Nat /\ currentTerm'[j] \in Nat
    BY DEF Grows, TypeInv, NodeTypes
  <2>2. currentTerm'[j] > t
    BY <1>1, <2>1 DEF Grows
  <2>3. ASSUME NEW a \in acks', a[1] = t, a[2] = j, a[3] >= k, a[4] >= t
        PROVE  FALSE
    <3>1. a \notin acks
      BY <1>1, <2>3 DEF hasSecured
    <3>2. currentTerm[j] <= t
      BY <2>3, <3>1 DEF Grows
    <3> QED
      BY <1>1, <2>1, <3>2
  <2> QED
    BY <2>2, <2>3 DEF hasSecured
<1> QED
  BY <1>1, <1>2 DEF isBlocked, isMajority

LEMMA CommittedGrows ==
  ASSUME Grows, NEW k \in Nat
  PROVE  /\ k <= Len(committed) =>
              k <= Len(committed') /\ committedTerm(k)' = committedTerm(k)
         /\ \A t \in DOMAIN ledger : committedIs(t, k) => committedIs(t, k)'
<1>1. /\ Len(committed) \in Nat /\ Len(committed') \in Nat
      /\ Len(committed) <= Len(committed')
      /\ \A n \in 1..Len(committed) : committed'[n] = committed[n]
  BY DEF Grows, TypeInv, NodeTypes
<1>2. k <= Len(committed) =>
         k <= Len(committed') /\ committedTerm(k)' = committedTerm(k)
  BY <1>1 DEF committedTerm
<1>3. ASSUME NEW t \in DOMAIN ledger, committedIs(t, k)
      PROVE  committedIs(t, k)'
  <2>1. t \in DOMAIN ledger'
    BY DEF Grows
  <2>2. ledger[t] \in Seq(Entry) /\ ledger'[t] \in Seq(Entry)
    BY <2>1 DEF Grows, LedgerTypes
  <2>3. /\ Len(ledger[t]) \in Nat /\ Len(ledger'[t]) \in Nat
        /\ Len(ledger[t]) <= Len(ledger'[t])
        /\ \A n \in 1..Len(ledger[t]) : ledger'[t][n] = ledger[t][n]
    BY <2>2 DEF Grows
  <2>4. /\ k <= Len(committed) /\ k <= Len(ledger[t])
        /\ \A n \in 1..k : committed[n] = ledger[t][n]
    BY <1>3 DEF committedIs
  <2>5. k <= Len(committed') /\ k <= Len(ledger'[t])
    BY <1>1, <2>3, <2>4
  <2>6. ASSUME NEW n \in 1..k PROVE committed'[n] = ledger'[t][n]
    BY <1>1, <2>3, <2>4
  <2> QED
    BY <2>5, <2>6 DEF committedIs
<1> QED
  BY <1>2, <1>3

LEMMA SettledGrows ==
  ASSUME Grows, NEW k \in Nat, NEW term \in Nat, NEW later \in Nat,
         isSettled(k, term), term <= later
  PROVE  isSettled(k, later)' /\ k <= Len(committed)
<1>1. CASE k = 0
  BY <1>1 DEF isSettled, Grows, TypeInv, NodeTypes
<1>2. CASE k # 0
  <2>1. PICK t \in DOMAIN ledger : /\ t <= term /\ committedIs(t, k)
                                   /\ \E c \in k..Len(ledger[t]) : isChosen(t, c)
    BY <1>2 DEF isSettled
  <2>2. PICK c \in k..Len(ledger[t]) : isChosen(t, c)
    BY <2>1
  <2>3. t \in Nat /\ t \in DOMAIN ledger' /\ t <= later
    BY <2>1, LedgerEntries DEF Grows
  <2>4. committedIs(t, k)' /\ isChosen(t, c)'
    BY <2>1, <2>2, CommittedGrows, ChosenGrows
  <2>5. c \in k..Len(ledger'[t])
    BY <2>2, <2>4 DEF isChosen, isOwn
  <2> QED
    BY <2>1, <2>3, <2>4, <2>5 DEF isSettled, committedIs
<1> QED
  BY <1>1, <1>2

LEMMA PrefixGrows ==
  ASSUME Grows, NEW l \in Logs, l.index <= Len(committed),
         NEW t \in DOMAIN ledger, NEW k \in Nat, hasPrefix(l, t, k)
  PROVE  hasPrefix(l, t, k)'
<1>1. l.index \in Nat /\ Len(committed) \in Nat
  BY LogTypes DEF Grows, TypeInv, NodeTypes
<1>2. t \in DOMAIN ledger'
  BY DEF Grows
<1>3. ledger[t] \in Seq(Entry) /\ ledger'[t] \in Seq(Entry)
  BY <1>2 DEF Grows, LedgerTypes
<1>4. /\ Len(ledger[t]) \in Nat /\ Len(ledger'[t]) \in Nat
      /\ Len(ledger[t]) <= Len(ledger'[t])
      /\ \A n \in 1..Len(ledger[t]) : ledger'[t][n] = ledger[t][n]
  BY <1>3 DEF Grows
<1>5. /\ k <= lastIndex(l) /\ k <= Len(ledger[t])
      /\ \A n \in 1..k : wholeEntry(l, n) = ledger[t][n]
  BY DEF hasPrefix
<1>6. ASSUME NEW n \in 1..k PROVE wholeEntry(l, n)' = ledger'[t][n]
  <2>1. wholeEntry(l, n)' = wholeEntry(l, n)
    BY <1>1 DEF wholeEntry, Grows
  <2> QED
    BY <1>4, <1>5, <2>1
<1> QED
  BY <1>4, <1>5, <1>6 DEF hasPrefix

-----------------------------------------------------------------------------
(* What survives a step *)

\* The new log of j has what the old one had, of what is not blocked.
KeepsLog(j) ==
  /\ logs[j].index <= logs'[j].index /\ logs'[j].index <= Len(committed)
  /\ \A t \in DOMAIN ledger : \A k \in 1..Len(ledger[t]) :
       isOwn(t, k) /\ holds(logs[j], t, k)
         => holds(logs'[j], t, k) \/ isBlocked(t, k)
  /\ \A k \in Nat :
       /\ currentTerm[j] \in DOMAIN ledger /\ currentTerm'[j] = currentTerm[j]
       /\ hasPrefix(logs[j], currentTerm[j], k)
       => hasPrefix(logs'[j], currentTerm[j], k)

\* What every step does.  Candidates begin in a new term.
Continues ==
  /\ Grows
  /\ \A j \in Server : KeepsLog(j)
  /\ votes \subseteq votes'
  /\ \A i \in Server :
       state'[i] = "Candidate" =>
         \/ state[i] = "Candidate" /\ currentTerm'[i] = currentTerm[i]
         \/ currentTerm'[i] > currentTerm[i]

LEMMA SameLogKept ==
  ASSUME TypeInv, EntriesOwned, PrefixSettled, NEW j \in Server,
         logs'[j] = logs[j]
  PROVE  KeepsLog(j)
BY NodeLogs DEF KeepsLog

LEMMA HeldSurvives ==
  ASSUME Grows, NEW j \in Server, KeepsLog(j), NEW t, NEW k, isOwn(t, k),
         holds(logs[j], t, k) \/ isBlocked(t, k)
  PROVE  (holds(logs[j], t, k) \/ isBlocked(t, k))'
<1>1. t \in DOMAIN ledger /\ k \in 1..Len(ledger[t]) /\ logs'[j] \in Logs
  BY DEF isOwn, Grows, TypeInv, NodeTypes
<1>2. t \in Nat /\ k \in Nat
  BY <1>1, LedgerEntries DEF Grows
<1>3. holds(logs'[j], t, k) \/ isBlocked(t, k)
  BY <1>1 DEF KeepsLog
<1>4. CASE isBlocked(t, k)
  BY <1>2, <1>4, BlockedGrows
<1>5. CASE holds(logs'[j], t, k)
  <2>1. hasPrefix(logs[j], t, k)'
    BY <1>1, <1>2, <1>5, PrefixGrows DEF holds, KeepsLog
  <2> QED
    BY <1>5, <2>1 DEF holds
<1> QED
  BY <1>3, <1>4, <1>5

\* A node secures nothing of the terms before its own.
LEMMA SecuredBack ==
  ASSUME Grows, AcksInRange, NEW j \in Server, NEW t \in Nat, NEW k \in Nat \ {0},
         hasSecured(j, t, k)', t < currentTerm[j]
  PROVE  hasSecured(j, t, k) /\ t \in DOMAIN ledger /\ k \in 1..Len(ledger[t])
<1>1. PICK a \in acks' : a[1] = t /\ a[2] = j /\ a[3] >= k /\ a[4] >= t
  BY DEF hasSecured
<1>2. currentTerm[j] \in Nat
  BY DEF Grows, TypeInv, NodeTypes
<1>3. a \in acks
  BY <1>1, <1>2 DEF Grows
<1>4. a[3] \in Nat /\ t \in DOMAIN ledger /\ a[3] <= Len(ledger[t])
  BY <1>1, <1>3 DEF Grows, LedgerTypes, AcksInRange
<1>5. Len(ledger[t]) \in Nat
  BY <1>4, LedgerEntries DEF Grows
<1> QED
  BY <1>1, <1>3, <1>4, <1>5 DEF hasSecured

\* A candidate begins in a new term, so who led one is none in it.
LEMMA ElectedSurvives ==
  ASSUME RaftInv, Continues, NEW u \in DOMAIN ledger
  PROVE  \E c \in Server :
           /\ isMajority(voters(u, c))' /\ u <= currentTerm'[c]
           /\ u = currentTerm'[c] => state'[c] # "Candidate"
<1> USE DEF RaftInv, SafetyInv
<1>1. PICK c \in Server :
        /\ isMajority(voters(u, c)) /\ u <= currentTerm[c]
        /\ u = currentTerm[c] => state[c] # "Candidate"
  BY DEF LedgersElected
<1>2. voters(u, c) \subseteq voters(u, c)'
  BY DEF voters, Continues
<1>3. isMajority(voters(u, c)')
  BY <1>1, <1>2, MajorityGrows DEF voters
<1>4. u \in Nat /\ currentTerm[c] \in Nat /\ currentTerm'[c] \in Nat
      /\ currentTerm[c] <= currentTerm'[c]
  BY LedgerEntries DEF Continues, Grows, TypeInv, NodeTypes
<1>5. u = currentTerm'[c] => state'[c] # "Candidate"
  BY <1>1, <1>4 DEF Continues
<1> QED
  BY <1>1, <1>3, <1>4, <1>5 DEF isMajority

LEMMA LedgersSurvive ==
  ASSUME RaftInv, Continues, ledger' = ledger
  PROVE  LedgersMatch' /\ LedgersSafe' /\ LedgersElected'
<1> USE DEF RaftInv, SafetyInv
<1>1. LedgersMatch'
  BY DEF LedgersMatch, isOwn, sameLedger
<1>2. LedgersSafe'
  <2> SUFFICES ASSUME NEW u \in DOMAIN ledger, NEW t \in DOMAIN ledger,
                      NEW k \in 1..Len(ledger[t]), t < u, isOwn(t, k)'
               PROVE  sameLedger(t, u, k)' \/ isBlocked(t, k)'
    BY DEF LedgersSafe
  <2>1. sameLedger(t, u, k) \/ isBlocked(t, k)
    BY DEF LedgersSafe, isOwn
  <2>2. t \in Nat
    BY LedgerEntries
  <2> QED
    BY <2>1, <2>2, SameGrows, BlockedGrows DEF Continues
<1>3. LedgersElected'
  BY ElectedSurvives DEF LedgersElected
<1> QED
  BY <1>1, <1>2, <1>3

\* Acknowledgements that were given.
LEMMA AcksSurvive ==
  ASSUME RaftInv, Continues, NEW a \in acks
  PROVE  /\ a[1] \in DOMAIN ledger' /\ a[1] <= currentTerm'[a[2]]
         /\ a[3] <= Len(ledger'[a[1]])
         /\ \A k \in 1..a[3] :
              isOwn(a[1], k)' => hasSecured(a[2], a[1], k)' \/ isChosen(a[1], k)'
         /\ a[1] = currentTerm'[a[2]] => hasPrefix(logs[a[2]], a[1], a[3])'
<1> USE DEF RaftInv, SafetyInv
<1> DEFINE t == a[1]
           j == a[2]
<1>1. /\ t \in Nat /\ j \in Server /\ a[3] \in Nat
      /\ t \in DOMAIN ledger /\ t <= currentTerm[j] /\ a[3] <= Len(ledger[t])
  BY DEF LedgerTypes, AcksInRange
<1>2. /\ currentTerm[j] \in Nat /\ currentTerm'[j] \in Nat
      /\ currentTerm[j] <= currentTerm'[j] /\ logs'[j] \in Logs
  BY <1>1 DEF Continues, Grows, TypeInv, NodeTypes
<1>3. t \in DOMAIN ledger' /\ Len(ledger[t]) <= Len(ledger'[t])
  BY <1>1 DEF Continues, Grows
<1>4. Len(ledger[t]) \in Nat /\ Len(ledger'[t]) \in Nat
  <2>1. ledger[t] \in Seq(Entry) /\ ledger'[t] \in Seq(Entry)
    BY <1>1, <1>3 DEF Continues, Grows, LedgerTypes
  <2> QED
    BY <2>1
<1> HIDE DEF t, j
<1>5. ASSUME NEW k \in 1..a[3], isOwn(t, k)'
      PROVE  hasSecured(j, t, k)' \/ isChosen(t, k)'
  <2>1. k \in 1..Len(ledger[t])
    BY <1>1, <1>4
  <2>2. isOwn(t, k)
    BY <1>1, <1>5, <2>1, OwnGrows DEF Continues
  <2>3. hasSecured(j, t, k) \/ isChosen(t, k)
    BY <2>2 DEF AcksSecured, t, j
  <2> QED
    BY <2>3, StoredGrows, ChosenGrows DEF Continues
<1>6. ASSUME t = currentTerm'[j] PROVE hasPrefix(logs[j], t, a[3])'
  <2>1. t = currentTerm[j]
    BY <1>1, <1>2, <1>6
  <2>2. hasPrefix(logs[j], t, a[3])
    BY <2>1 DEF StoredNow, t, j
  <2>3. hasPrefix(logs'[j], t, a[3]) /\ logs'[j].index <= Len(committed)
    BY <1>1, <1>6, <2>1, <2>2 DEF Continues, KeepsLog
  <2> QED
    BY <1>1, <1>2, <2>3, PrefixGrows DEF Continues
<1> QED
  BY <1>1, <1>2, <1>3, <1>4, <1>5, <1>6 DEF t, j

LEMMA SecuredSurvives ==
  ASSUME RaftInv, Continues, NEW j \in Server, NEW t, NEW k,
         hasSecured(j, t, k), isOwn(t, k)', k \in Nat
  PROVE  (holds(logs[j], t, k) \/ isBlocked(t, k))'
<1> USE DEF RaftInv, SafetyInv
<1>1. PICK a \in acks : a[1] = t /\ a[2] = j /\ a[3] >= k
  BY DEF hasSecured
<1>2. t \in DOMAIN ledger /\ a[3] <= Len(ledger[t]) /\ a[3] \in Nat
  BY <1>1 DEF AcksInRange, LedgerTypes
<1>3. k \in 1..Len(ledger[t])
  BY <1>1, <1>2, LedgerEntries DEF isOwn
<1>4. isOwn(t, k)
  BY <1>2, <1>3, OwnGrows DEF Continues
<1> QED
  BY <1>2, <1>3, <1>4, HeldSurvives DEF Continues, SecuredHeld

LEMMA SameAcks ==
  ASSUME RaftInv, Continues, UNCHANGED acks
  PROVE  AcksInRange' /\ AcksSecured' /\ StoredNow' /\ SecuredHeld'
<1>1. AcksInRange' /\ AcksSecured' /\ StoredNow'
  BY AcksSurvive DEF AcksInRange, AcksSecured, StoredNow
<1>2. SecuredHeld'
  <2> SUFFICES ASSUME NEW j \in Server, NEW t \in DOMAIN ledger',
                      NEW k \in 1..Len(ledger'[t]),
                      isOwn(t, k)', hasSecured(j, t, k)'
               PROVE  (holds(logs[j], t, k) \/ isBlocked(t, k))'
    BY DEF SecuredHeld
  <2>1. hasSecured(j, t, k)
    BY DEF hasSecured
  <2>2. k \in Nat
    OBVIOUS
  <2> QED
    BY <2>1, <2>2, SecuredSurvives
<1> QED
  BY <1>1, <1>2

LEMMA SameCommitted ==
  ASSUME RaftInv, Continues, UNCHANGED committed
  PROVE  CommittedChosen'
<1> SUFFICES ASSUME Len(committed) # 0
             PROVE  /\ isChosen(committed[Len(committed)].term, Len(committed))'
                    /\ committedIs(committed[Len(committed)].term, Len(committed))'
  BY DEF CommittedChosen
<1> DEFINE k == Len(committed)
           t == committed[k].term
<1>1. isChosen(t, k) /\ committedIs(t, k) /\ k \in Nat
  BY DEF RaftInv, SafetyInv, CommittedChosen, TypeInv, NodeTypes
<1>2. t \in DOMAIN ledger /\ t' = t /\ k' = k
  BY <1>1 DEF isChosen, isOwn
<1> HIDE DEF t, k
<1>3. isChosen(t, k)' /\ committedIs(t, k)'
  BY <1>1, <1>2, ChosenGrows, CommittedGrows DEF Continues
<1> QED
  BY <1>3 DEF t, k

\* A candidate that goes on has what its earlier voters had secured.
LEMMA CandidateSurvives ==
  ASSUME RaftInv, Continues, NEW i \in Server, state[i] = "Candidate",
         currentTerm'[i] = currentTerm[i], NEW j \in voters(currentTerm[i], i),
         NEW t \in DOMAIN ledger', NEW k \in 1..Len(ledger'[t]),
         t < currentTerm[i], isOwn(t, k)', hasSecured(j, t, k)'
  PROVE  (holds(logs[i], t, k) \/ isBlocked(t, k))'
<1> USE DEF RaftInv, SafetyInv
<1>1. /\ j \in Server /\ t \in Nat /\ k \in Nat \ {0}
      /\ currentTerm[i] \in Nat /\ currentTerm[j] \in Nat
  BY DEF voters, Continues, Grows, LedgerTypes, TypeInv, NodeTypes
<1>2. currentTerm[i] <= currentTerm[j]
  BY <1>1 DEF voters, ElectionInv, VotesRemembered
<1>3. hasSecured(j, t, k) /\ t \in DOMAIN ledger /\ k \in 1..Len(ledger[t])
  BY <1>1, <1>2, SecuredBack DEF Continues
<1>4. isOwn(t, k)
  BY <1>3, OwnGrows DEF Continues
<1>5. holds(logs[i], t, k) \/ isBlocked(t, k)
  BY <1>3, <1>4 DEF CandidatesHold
<1> QED
  BY <1>4, <1>5, HeldSurvives DEF Continues

\* The candidate of a vote message has no other candidacy in that term.
NoNewCandidates ==
  \A i \in Server : state'[i] = "Candidate" =>
    state[i] = "Candidate" /\ currentTerm'[i] = currentTerm[i]

LEMMA VoteStaysAsked ==
  ASSUME RaftInv, Continues, NEW v \in votes
  PROVE  v[1] <= currentTerm'[v[3]]
<1>1. v[1] \in Nat /\ v[3] \in Server /\ v[1] <= currentTerm[v[3]]
  BY DEF RaftInv, SafetyInv, VotesAsked, TypeInv, NodeTypes
<1>2. /\ currentTerm[v[3]] \in Nat /\ currentTerm'[v[3]] \in Nat
      /\ currentTerm[v[3]] <= currentTerm'[v[3]]
  BY <1>1 DEF Continues, Grows, TypeInv, NodeTypes
<1> QED
  BY <1>1, <1>2

LEMMA SameVotes ==
  ASSUME RaftInv, Continues, NoNewCandidates, votes' = votes
  PROVE  VotesAsked' /\ CandidatesHold'
<1>1. VotesAsked'
  BY VoteStaysAsked DEF VotesAsked
<1>2. CandidatesHold'
  <2> SUFFICES ASSUME NEW i \in Server, state'[i] = "Candidate",
                      NEW j \in voters(currentTerm[i], i)',
                      NEW t \in DOMAIN ledger', NEW k \in 1..Len(ledger'[t]),
                      t < currentTerm'[i], isOwn(t, k)', hasSecured(j, t, k)'
               PROVE  (holds(logs[i], t, k) \/ isBlocked(t, k))'
    BY DEF CandidatesHold
  <2>1. state[i] = "Candidate" /\ currentTerm'[i] = currentTerm[i]
    BY DEF NoNewCandidates
  <2>2. j \in voters(currentTerm[i], i)
    BY <2>1 DEF voters
  <2> QED
    BY <2>1, <2>2, CandidateSurvives
<1> QED
  BY <1>1, <1>2

\* Without new own entries, a vote request stays true.
LEMMA VoteRequestSurvives ==
  ASSUME RaftInv, Continues, NEW m \in messages, m.type = "RequestVote",
         isTrueVoteRequest(m), \A t, k : isOwn(t, k)' => isOwn(t, k)
  PROVE  isTrueVoteRequest(m)'
<1>1. m.from \in Server
  BY MessageKinds DEF RaftInv, TypeInv
<1>2. \/ m.lastLogTerm = 0 /\ m.lastLogIndex = 0
      \/ isOwn(m.lastLogTerm, m.lastLogIndex)'
  BY OwnGrows DEF isTrueVoteRequest, Continues
<1>3. ASSUME NEW t \in DOMAIN ledger', NEW k \in 1..Len(ledger'[t]),
             isOwn(t, k)', reaches(m.lastLogTerm, m.lastLogIndex, t, k)
      PROVE  (holds(logs[m.from], t, k) \/ isBlocked(t, k))'
  <2>1. isOwn(t, k)
    BY <1>3
  <2>2. holds(logs[m.from], t, k) \/ isBlocked(t, k)
    BY <1>3, <2>1 DEF isTrueVoteRequest, isOwn
  <2> QED
    BY <1>1, <2>1, <2>2, HeldSurvives DEF Continues
<1> QED
  BY <1>2, <1>3 DEF isTrueVoteRequest, reaches

LEMMA SameVoteRequests ==
  ASSUME RaftInv, Continues, NoNewCandidates,
         \A m \in messages' : m.type = "RequestVote" => m \in messages,
         \A t, k : isOwn(t, k)' => isOwn(t, k)
  PROVE  VoteRequestsTrue'
<1> SUFFICES ASSUME NEW m \in messages', m.type = "RequestVote",
                    state'[m.from] = "Candidate", currentTerm'[m.from] = m.term
             PROVE  isTrueVoteRequest(m)'
  BY DEF VoteRequestsTrue
<1>1. m \in messages /\ m.from \in Server
  BY MessageKinds DEF RaftInv, TypeInv
<1>2. state[m.from] = "Candidate" /\ currentTerm[m.from] = m.term
  BY <1>1 DEF NoNewCandidates
<1>3. isTrueVoteRequest(m)
  BY <1>1, <1>2 DEF RaftInv, SafetyInv, VoteRequestsTrue
<1> QED
  BY <1>1, <1>3, VoteRequestSurvives

LEMMA NodeLogGrows ==
  ASSUME Grows, NEW l, NEW term \in Nat, NEW later \in Nat, term <= later,
         isNodeLog(l, term)
  PROVE  isNodeLog(l, later)'
<1>1. l \in Logs /\ l.index \in Nat /\ lastIndex(l) \in Nat
  BY LogTypes DEF isNodeLog
<1>2. isSettled(l.index, later)' /\ l.index <= Len(committed)
  BY <1>1, SettledGrows DEF isNodeLog
<1>3. l.term = committedTerm(l.index)'
  BY <1>1, <1>2, CommittedGrows DEF isNodeLog
<1>4. ASSUME NEW n \in (l.index + 1)..lastIndex(l)
      PROVE  /\ termAt(l, n) <= later /\ isOwn(termAt(l, n), n)'
             /\ \A q \in (l.index + 1)..n :
                  entryAt(l, q) = ledger'[termAt(l, n)][q]
  <2> DEFINE t == termAt(l, n)
  <2>1. /\ t <= term /\ isOwn(t, n)
        /\ \A q \in (l.index + 1)..n : entryAt(l, q) = ledger[t][q]
    BY DEF isNodeLog
  <2>2. t \in DOMAIN ledger /\ t \in Nat /\ n \in 1..Len(ledger[t])
        /\ Len(ledger[t]) \in Nat
    BY <2>1, LedgerEntries DEF isOwn, Grows
  <2> HIDE DEF t
  <2>3. ASSUME NEW q \in (l.index + 1)..n PROVE entryAt(l, q) = ledger'[t][q]
    <3>1. q \in 1..Len(ledger[t])
      BY <1>1, <2>2
    <3> QED
      BY <2>1, <2>2, <3>1 DEF Grows
  <2>4. isOwn(t, n)' /\ t <= later
    BY <2>1, <2>2, OwnGrows
  <2> QED
    BY <2>3, <2>4 DEF t
<1> QED
  BY <1>1, <1>2, <1>3, <1>4 DEF isNodeLog

LEMMA PrefixSurvives ==
  ASSUME Grows, NEW l \in Logs, NEW k \in Nat, k <= Len(committed),
         committedPrefix(l, k)
  PROVE  committedPrefix(l, k)'
<1>1. l.index \in Nat /\ Len(committed) \in Nat
  BY LogTypes DEF Grows, TypeInv, NodeTypes
<1>2. ASSUME NEW n \in (l.index + 1)..k PROVE entryAt(l, n) = committed'[n]
  <2>1. n \in 1..Len(committed)
    BY <1>1
  <2> QED
    BY <2>1 DEF committedPrefix, Grows
<1> QED
  BY <1>2 DEF committedPrefix

\* A node that keeps its log and what it knows to be committed, or starts anew.
LEMMA SameNode ==
  ASSUME RaftInv, Grows, NEW i \in Server, logs'[i] = logs[i],
         commitIndex'[i] = commitIndex[i] \/ commitIndex'[i] = logs[i].index
  PROVE  isNodeLog(logs[i], currentTerm[i])' /\ knowsCommitted(i)'
<1>1. PICK l \in Logs : l = logs[i]
  BY DEF RaftInv, TypeInv, NodeTypes
<1>2. PICK k \in Nat : k = commitIndex'[i]
  BY DEF Grows, TypeInv, NodeTypes
<1>3. PICK term \in Nat : term = currentTerm'[i] /\ currentTerm[i] <= term
  BY DEF Grows, TypeInv, NodeTypes
<1>4. /\ isNodeLog(l, currentTerm[i])
      /\ l.index \in Nat /\ commitIndex[i] \in Nat
      /\ l.index <= commitIndex[i] /\ commitIndex[i] <= lastIndex(l)
      /\ lastIndex(l) \in Nat /\ currentTerm[i] \in Nat
      /\ commitIndex[i] <= Len(committed) /\ l.index <= Len(committed)
  BY <1>1, NodeLogs DEF RaftInv, SafetyInv
<1>5. isNodeLog(l, term)'
  BY <1>3, <1>4, NodeLogGrows
<1>6. isSettled(k, currentTerm[i]) /\ committedPrefix(l, k)
  <2>1. isSettled(commitIndex[i], currentTerm[i]) /\ committedPrefix(l, commitIndex[i])
    BY <1>1 DEF RaftInv, SafetyInv, PrefixSettled, knowsCommitted
  <2>2. CASE k = l.index
    BY <1>4, <2>2 DEF committedPrefix, isNodeLog
  <2> QED
    BY <1>1, <1>2, <2>1, <2>2
<1>7. k <= lastIndex(l) /\ k <= Len(committed)
  BY <1>1, <1>2, <1>4
<1>8. isSettled(k, term)' /\ committedPrefix(l, k)'
  BY <1>3, <1>4, <1>6, <1>7, SettledGrows, PrefixSurvives
<1>9. isNodeLog(logs[i], currentTerm[i])'
  BY <1>1, <1>3, <1>5
<1>10. knowsCommitted(i)'
  BY <1>1, <1>2, <1>3, <1>7, <1>8 DEF knowsCommitted
<1> QED
  BY <1>9, <1>10

LEMMA SameNodes ==
  ASSUME RaftInv, Grows, logs' = logs,
         \A i \in Server : \/ commitIndex'[i] = commitIndex[i]
                           \/ commitIndex'[i] = logs[i].index
  PROVE  EntriesOwned' /\ PrefixSettled'
BY SameNode DEF EntriesOwned, PrefixSettled

\* A leader whose log and ledger stay.
LEMMA SameLeader ==
  ASSUME RaftInv, Grows, NEW i \in Server, state[i] = "Leader",
         currentTerm'[i] = currentTerm[i], logs'[i] = logs[i],
         ledger'[currentTerm[i]] = ledger[currentTerm[i]]
  PROVE  hasLedger(i)'
<1>1. hasLedger(i)
  BY DEF RaftInv, SafetyInv, LeadersHaveLedgers
<1>2. currentTerm[i] \in DOMAIN ledger'
  BY <1>1 DEF hasLedger, Grows
<1>3. logs[i] \in Logs /\ logs[i].index <= Len(committed)
      /\ lastIndex(logs[i]) \in Nat
  BY NodeLogs DEF RaftInv, SafetyInv
<1>4. hasPrefix(logs[i], currentTerm[i], lastIndex(logs[i]))'
  BY <1>1, <1>3, PrefixGrows DEF hasLedger
<1> QED
  BY <1>1, <1>2, <1>4 DEF hasLedger

NoNewLeaders ==
  \A i \in Server : state'[i] = "Leader" =>
    state[i] = "Leader" /\ currentTerm'[i] = currentTerm[i]

LEMMA SameLeaders ==
  ASSUME RaftInv, Grows, NoNewLeaders, UNCHANGED <<logs, ledger>>
  PROVE  LeadersHaveLedgers'
BY SameLeader DEF LeadersHaveLedgers, NoNewLeaders

LEMMA SameProgress ==
  ASSUME RaftInv, Continues, NEW i \in Server, NEW j \in Server,
         currentTerm'[i] = currentTerm[i], state[i] = "Leader",
         matchIndex'[i][j] = matchIndex[i][j]
  PROVE  knowsProgress(i, j)'
<1>1. knowsProgress(i, j)
  BY DEF RaftInv, SafetyInv, ProgressKnown
<1>2. /\ matchIndex[i][j] \in Nat
      /\ logs[i].index <= logs'[i].index
      /\ logs[i].index \in Nat /\ logs'[i].index \in Nat
  <2>1. logs[i] \in Logs /\ logs'[i] \in Logs /\ matchIndex[i][j] \in Nat
    BY DEF Continues, Grows, TypeInv, NodeTypes
  <2> QED
    BY <2>1, LogTypes DEF Continues, KeepsLog
<1>3. CASE matchIndex[i][j] <= logs[i].index
  BY <1>2, <1>3 DEF knowsProgress
<1>4. CASE hasStored(j, currentTerm[i], matchIndex[i][j])
  <2>1. hasStored(j, currentTerm[i], matchIndex[i][j])'
    BY <1>4, StoredGrows DEF Continues, hasStored
  <2> QED
    BY <2>1 DEF knowsProgress
<1> QED
  BY <1>1, <1>3, <1>4 DEF knowsProgress

\* A message that was true is.  A new leader has sent no request of its term.
LEMMA MessageSurvives ==
  ASSUME RaftInv, Continues, NEW m \in messages,
         state'[sender(m)] = "Leader" /\ epoch(m) = currentTerm'[sender(m)]
           => state[sender(m)] = "Leader" /\ epoch(m) = currentTerm[sender(m)]
  PROVE  isTrue(m)'
<1> USE DEF RaftInv, SafetyInv
<1>1. isTrue(m) /\ Grows
  BY DEF TrafficTrue, Continues
<1>2. ASSUME m.type = "AppendEntries" PROVE isTrueAppend(m)'
  <2>1. /\ m \in AppendRequest /\ m.term \in Nat /\ m.prevLogIndex \in Nat
        /\ m.entries \in Seq(Entry) /\ Len(m.entries) \in Nat
        /\ m.leaderCommit \in Nat
        /\ reach(m) = m.prevLogIndex + Len(m.entries)
    <3>1. m \in AppendRequest
      BY <1>2, MessageKinds DEF TypeInv
    <3> QED
      BY <1>2, <3>1 DEF AppendRequest, reach
  <2>2. isTrueAppend(m)
    BY <1>1, <1>2 DEF isTrue
  <2>3. /\ m.term \in DOMAIN ledger /\ m.term \in DOMAIN ledger'
        /\ Len(ledger[m.term]) <= Len(ledger'[m.term])
        /\ \A n \in 1..Len(ledger[m.term]) : ledger'[m.term][n] = ledger[m.term][n]
    BY <1>1, <2>2 DEF isTrueAppend, Grows
  <2>4. Len(ledger[m.term]) \in Nat /\ Len(ledger'[m.term]) \in Nat
    <3>1. ledger[m.term] \in Seq(Entry) /\ ledger'[m.term] \in Seq(Entry)
      BY <1>1, <2>3 DEF Grows, LedgerTypes
    <3> QED
      BY <3>1
  <2>5. reach(m) <= Len(ledger[m.term])
    BY <2>2 DEF isTrueAppend
  <2>6. ledgerTerm(m.term, m.prevLogIndex)' = ledgerTerm(m.term, m.prevLogIndex)
    <3>1. m.prevLogIndex # 0 => m.prevLogIndex \in 1..Len(ledger[m.term])
      BY <2>1, <2>4, <2>5
    <3> QED
      BY <2>3, <3>1 DEF ledgerTerm
  <2>7. ASSUME NEW n \in 1..Len(m.entries)
        PROVE  m.entries[n] = ledger'[m.term][m.prevLogIndex + n]
    <3>1. m.prevLogIndex + n \in 1..Len(ledger[m.term])
      BY <2>1, <2>4, <2>5, SMTT(30)
    <3>2. m.entries[n] = ledger[m.term][m.prevLogIndex + n]
      BY <2>2 DEF isTrueAppend
    <3> QED
      BY <2>3, <3>1, <3>2
  <2>8. isSettled(m.leaderCommit, m.term)'
    BY <1>1, <2>1, <2>2, SettledGrows DEF isTrueAppend
  <2>9. reach(m) <= Len(ledger'[m.term])
    BY <2>1, <2>3, <2>4, <2>5
  <2> QED
    BY <2>2, <2>3, <2>6, <2>7, <2>8, <2>9 DEF isTrueAppend, reach
<1>3. ASSUME m.type = "InstallSnapshot"
      PROVE  /\ isSettled(m.lastIncludedIndex, m.term)'
             /\ m.lastIncludedTerm = committedTerm(m.lastIncludedIndex)'
  <2>1. m.lastIncludedIndex \in Nat /\ m.term \in Nat
    BY <1>3, MessageKinds DEF SnapshotRequest, TypeInv
  <2>2. /\ isSettled(m.lastIncludedIndex, m.term)
        /\ m.lastIncludedTerm = committedTerm(m.lastIncludedIndex)
    BY <1>1, <1>3 DEF isTrue
  <2> QED
    BY <1>1, <2>1, <2>2, SettledGrows, CommittedGrows
<1>4. ASSUME m.type \in {"InstallSnapshot", "InstallSnapshotResponse"}
      PROVE  isCut(m)'
  <2>1. m.lastIncludedIndex \in Nat /\ sender(m) \in Server
    BY <1>4, MessageKinds DEF SnapshotRequest, SnapshotResponse, TypeInv, sender
  <2>2. isCut(m)
    BY <1>1, <1>4 DEF isTrue
  <2>3. /\ logs[sender(m)].index <= logs'[sender(m)].index
        /\ logs[sender(m)].index \in Nat /\ logs'[sender(m)].index \in Nat
    <3>1. logs[sender(m)] \in Logs /\ logs'[sender(m)] \in Logs
      BY <2>1, <1>1 DEF Grows, TypeInv, NodeTypes
    <3> QED
      BY <2>1, <3>1, LogTypes DEF Continues, KeepsLog
  <2> QED
    BY <2>1, <2>2, <2>3 DEF isCut, sender, epoch, isRequest
<1>5. m.type = "AppendEntriesResponse" /\ m.success
        => hasStored(m.from, m.reqTerm, reach(m))'
  <2>1. m.type = "AppendEntriesResponse" /\ m.success
          => hasStored(m.from, m.reqTerm, reach(m))
    BY <1>1 DEF isTrue
  <2> QED
    BY <1>1, <2>1, StoredGrows DEF hasStored, reach
<1> QED
  BY <1>2, <1>3, <1>4, <1>5 DEF isTrue, reach, isTrueAppend

LEMMA SameTraffic ==
  ASSUME RaftInv, Continues, NoNewLeaders,
         \A m \in messages' : m \in messages \/ isTrue(m)'
  PROVE  TrafficTrue'
<1> SUFFICES ASSUME NEW m \in messages PROVE isTrue(m)'
  BY DEF TrafficTrue
<1>1. sender(m) \in Server
  BY MessageKinds DEF RaftInv, TypeInv, sender
<1> QED
  BY <1>1, MessageSurvives DEF NoNewLeaders

LEMMA SameSnapshots ==
  ASSUME RaftInv, Grows,
         \A i \in Server : \A p \in applyCh'[i] :
           p \in applyCh[i] \/ isTrueSnapshot(p, currentTerm[i])'
  PROVE  SnapshotsSettled'
<1> SUFFICES ASSUME NEW i \in Server, NEW p \in applyCh[i]
             PROVE  isTrueSnapshot(p, currentTerm[i])'
  BY DEF SnapshotsSettled
<1>1. PICK later \in Nat : later = currentTerm'[i] /\ currentTerm[i] <= later
  BY DEF Grows, TypeInv, NodeTypes
<1>2. /\ isTrueSnapshot(p, currentTerm[i])
      /\ p.index \in Nat /\ currentTerm[i] \in Nat
  BY DEF RaftInv, SafetyInv, SnapshotsSettled, TypeInv, NodeTypes, SnapshotMsg
<1>3. isSettled(p.index, later)' /\ p.index <= Len(committed)
  BY <1>1, <1>2, SettledGrows DEF isTrueSnapshot
<1>4. p.term = committedTerm(p.index)'
  BY <1>2, <1>3, CommittedGrows DEF isTrueSnapshot
<1> QED
  BY <1>1, <1>3, <1>4 DEF isTrueSnapshot

-----------------------------------------------------------------------------
(* Steps that change no log *)

\* What the proofs of the other modules give for a step.
Steps ==
  /\ RaftInv /\ ElectionInv' /\ TypeInv' /\ LedgerTypes'
  /\ \A i \in Server : currentTerm[i] <= currentTerm'[i]

LEMMA SameLedgersGrow ==
  ASSUME Steps, UNCHANGED <<ledgerVars, committed>>
  PROVE  Grows
<1>1. committed \in Seq(Entry) /\ Len(committed) \in Nat
  BY DEF Steps, RaftInv, TypeInv, NodeTypes
<1>2. \A t \in DOMAIN ledger : Len(ledger[t]) \in Nat
  BY LedgerEntries DEF Steps, RaftInv
<1> QED
  BY <1>1, <1>2 DEF Grows, Steps, RaftInv, ledgerVars

Calm ==
  /\ UNCHANGED <<logs, ledgerVars, committed, votes>>
  /\ \A i \in Server : \/ commitIndex'[i] = commitIndex[i]
                       \/ commitIndex'[i] = logs[i].index
  /\ NoNewCandidates /\ NoNewLeaders
  /\ \A m \in messages' : m.type = "RequestVote" => m \in messages

LEMMA CalmContinues ==
  ASSUME Steps, UNCHANGED <<logs, ledgerVars, committed>>, votes \subseteq votes',
         \A i \in Server : state'[i] = "Candidate" =>
           \/ state[i] = "Candidate" /\ currentTerm'[i] = currentTerm[i]
           \/ currentTerm'[i] > currentTerm[i]
  PROVE  Continues
<1>1. Grows
  BY SameLedgersGrow
<1>2. \A j \in Server : KeepsLog(j)
  BY SameLogKept DEF Steps, RaftInv, SafetyInv
<1> QED
  BY <1>1, <1>2 DEF Continues

LEMMA CalmKeepsSafety ==
  ASSUME Steps, Calm,
         \A i \in Server : state'[i] = "Leader" => \A j \in Server :
           matchIndex'[i][j] = matchIndex[i][j] \/ knowsProgress(i, j)',
         \A m \in messages' : m \in messages \/ isTrue(m)',
         \A i \in Server : \A p \in applyCh'[i] :
           p \in applyCh[i] \/ isTrueSnapshot(p, currentTerm[i])'
  PROVE  SafetyInv'
<1>1. Continues
  BY CalmContinues DEF Calm, NoNewCandidates
<1>2. Grows /\ RaftInv
  BY <1>1 DEF Continues, Steps
<1>3. /\ UNCHANGED <<ledger, acks, committed, votes, logs>>
      /\ NoNewCandidates /\ NoNewLeaders
  BY DEF Calm, ledgerVars
<1>4. LedgersMatch' /\ LedgersSafe' /\ LedgersElected'
  BY <1>1, <1>2, <1>3, LedgersSurvive
<1>5. AcksInRange' /\ AcksSecured' /\ StoredNow' /\ SecuredHeld'
  BY <1>1, <1>2, <1>3, SameAcks
<1>6. CommittedChosen' /\ VotesAsked' /\ CandidatesHold'
  BY <1>1, <1>2, <1>3, SameCommitted, SameVotes
<1>7. VoteRequestsTrue'
  <2>1. \A t, k : isOwn(t, k)' => isOwn(t, k)
    BY <1>3 DEF isOwn
  <2> QED
    BY <1>1, <1>2, <1>3, <2>1, SameVoteRequests DEF Calm
<1>8. EntriesOwned' /\ PrefixSettled' /\ LeadersHaveLedgers'
  BY <1>2, <1>3, SameNodes, SameLeaders DEF Calm
<1>9. ProgressKnown'
  BY <1>1, <1>2, <1>3, SameProgress DEF ProgressKnown, NoNewLeaders
<1>10. TrafficTrue' /\ SnapshotsSettled'
  BY <1>1, <1>2, <1>3, SameTraffic, SameSnapshots
<1> QED
  BY <1>4, <1>5, <1>6, <1>7, <1>8, <1>9, <1>10 DEF SafetyInv

LEMMA DemotedRoles ==
  ASSUME \A i \in Server : Demotes(i)
  PROVE  NoNewCandidates /\ NoNewLeaders
BY DEF Demotes, NoNewCandidates, NoNewLeaders

\* A step after which every message, snapshot and progress is what it was, for
\* those who still lead.
LEMMA QuietKeepsSafety ==
  ASSUME Steps, Quiet, UNCHANGED <<logs, ledgerVars, committed>>,
         \A i \in Server : \/ commitIndex'[i] = commitIndex[i]
                           \/ commitIndex'[i] = logs[i].index,
         \A i \in Server : state'[i] = "Leader" => matchIndex'[i] = matchIndex[i],
         \A m \in messages' : m \in messages \/ isTrue(m)',
         \A i \in Server : applyCh'[i] \subseteq applyCh[i]
  PROVE  SafetyInv'
<1>1. NoNewCandidates /\ NoNewLeaders
  BY DemotedRoles DEF Quiet
<1>2. Calm
  BY <1>1 DEF Calm, Quiet, isVoteMsg
<1> QED
  BY <1>2, CalmKeepsSafety

LEMMA DropIsSafe ==
  ASSUME Steps, NEW m \in messages, Drop(m)
  PROVE  SafetyInv'
<1>1. Quiet
  BY DropIsQuiet DEF Steps, RaftInv
<1>2. /\ UNCHANGED <<logs, ledgerVars, committed, commitIndex, matchIndex, applyCh>>
      /\ messages' \subseteq messages
  BY DEF Drop, hardVars, leaderVars, history
<1> QED
  BY <1>1, <1>2, QuietKeepsSafety

LEMMA RestartIsSafe ==
  ASSUME Steps, NEW i \in Server, Restart(i)
  PROVE  SafetyInv'
<1>1. Quiet
  BY RestartIsQuiet DEF Steps, RaftInv
<1>2. /\ state \in [Server -> {"Follower", "Candidate", "Leader"}]
      /\ logs \in [Server -> Logs] /\ commitIndex \in [Server -> Nat]
      /\ matchIndex \in [Server -> [Server -> Nat]]
      /\ applyCh \in [Server -> SUBSET SnapshotMsg]
      /\ persister[i].logs = logs[i]
  BY DEF Steps, RaftInv, TypeInv, NodeTypes, Durable
<1>3. UNCHANGED <<logs, ledgerVars, committed, messages>>
  BY <1>2 DEF Restart, Make, history
<1>4. ASSUME NEW k \in Server
      PROVE  /\ commitIndex'[k] = commitIndex[k] \/ commitIndex'[k] = logs[k].index
             /\ state'[k] = "Leader" => matchIndex'[k] = matchIndex[k]
             /\ applyCh'[k] \subseteq applyCh[k]
  BY <1>2 DEF Restart, Make
<1> QED
  BY <1>1, <1>3, <1>4, QuietKeepsSafety

\* Votes that are refused, or that come too late.
LEMMA RefusalIsSafe ==
  ASSUME Steps, NEW m \in messages, RequestVote(m), RefuseVote(m) \/ DenyVote(m)
  PROVE  SafetyInv'
<1>1. /\ m.type = "RequestVote" /\ persist(m.to)
      /\ UNCHANGED <<grantedVotes, committed, commitIndex, leaderVars, applyCh,
                     ledgerVars>>
  BY DEF RequestVote
<1>2. UNCHANGED <<logs, votes>>
  BY DEF RefuseVote, DenyVote, hardVars
<1>3. NoNewCandidates /\ NoNewLeaders
  BY <1>1, RefusalKeepsInv, DemotedRoles DEF Steps, RaftInv
<1>4. PICK r : /\ messages' = (messages \ {m}) \cup {r}
               /\ r.type = "RequestVoteResponse"
  <2>1. PICK term : messages' = (messages \ {m}) \cup {voteResponse(m, term, FALSE)}
    BY DEF RefuseVote, DenyVote, Reply
  <2>2. voteResponse(m, term, FALSE).type = "RequestVoteResponse"
    BY DEF voteResponse
  <2> QED
    BY <2>1, <2>2
<1>5. isTrue(r)'
  BY <1>4 DEF isTrue
<1>6. Calm
  BY <1>1, <1>2, <1>3, <1>4 DEF Calm
<1> QED
  BY <1>1, <1>4, <1>5, <1>6, CalmKeepsSafety DEF leaderVars

\* A response after which nobody leads who did not.
LEMMA VoteResponseIsSafe ==
  ASSUME Steps, NEW m \in messages, HandleVoteResponse(m), UNCHANGED ledger,
         UNCHANGED <<state, currentTerm>> \/ stepDown(m.to, m.term)
  PROVE  SafetyInv'
<1>1. /\ messages' = messages \ {m}
      /\ UNCHANGED <<commitIndex, applyCh, votes, committed, acks>>
  BY DEF HandleVoteResponse
<1>2. /\ m.to \in Server /\ m.type = "RequestVoteResponse"
      /\ state \in [Server -> {"Follower", "Candidate", "Leader"}]
      /\ currentTerm \in [Server -> Nat]
  BY MessageKinds DEF HandleVoteResponse, Steps, RaftInv, TypeInv, NodeTypes
<1>3. UNCHANGED logs
  BY DEF HandleVoteResponse, CountVote, LoseElection, IgnoreVoteResponse,
         hardVars, stepDown
<1>4. NoNewCandidates /\ NoNewLeaders
  BY <1>2 DEF NoNewCandidates, NoNewLeaders, stepDown, adoptTerm
<1>5. \A i \in Server : state'[i] = "Leader" => matchIndex'[i] = matchIndex[i]
  <2>1. CASE CountVote(m)
    <3>1. /\ state[m.to] = "Candidate"
          /\ becomeLeader(m.to) \/ UNCHANGED <<state, leaderVars>>
      BY <2>1 DEF CountVote, isCurrentElection
    <3>2. \A i \in Server \ {m.to} : matchIndex'[i] = matchIndex[i]
      <4>1. matchIndex \in [Server -> [Server -> Nat]]
        BY DEF Steps, RaftInv, TypeInv, NodeTypes
      <4> QED
        BY <3>1, <4>1 DEF becomeLeader, leaderVars
    <3> QED
      BY <1>4, <3>1, <3>2 DEF NoNewLeaders
  <2>2. CASE LoseElection(m) \/ IgnoreVoteResponse(m)
    BY <2>2 DEF LoseElection, IgnoreVoteResponse, leaderVars
  <2> QED
    BY <2>1, <2>2 DEF HandleVoteResponse
<1>6. Calm
  BY <1>1, <1>3, <1>4 DEF Calm, ledgerVars
<1> QED
  BY <1>1, <1>5, <1>6, CalmKeepsSafety

-----------------------------------------------------------------------------
(* Replication messages *)

LEMMA TailEntry ==
  ASSUME NEW s \in Seq(Entry), NEW a \in Nat \ {0}, NEW n \in Nat \ {0},
         a + n - 1 <= Len(s)
  PROVE  SubSeq(s, a, Len(s))[n] = s[a + n - 1]
<1>1. Len(s) \in Nat /\ n \in 1..(Len(s) - a + 1)
  OBVIOUS
<1> QED
  BY <1>1, SMTT(30)

LEMMA DropEntries ==
  ASSUME NEW l \in Logs, NEW k \in l.index..lastIndex(l)
  PROVE  /\ dropThrough(l, k) \in Seq(Entry)
         /\ Len(dropThrough(l, k)) = lastIndex(l) - k
         /\ \A n \in 1..(lastIndex(l) - k) : dropThrough(l, k)[n] = entryAt(l, k + n)
<1>1. PICK entries \in Seq(Entry), base \in Nat :
        /\ entries = l.entries /\ base = l.index /\ lastIndex(l) = base + Len(entries)
  BY LogTypes
<1>2. Len(entries) \in Nat /\ k \in base..(base + Len(entries))
  BY <1>1
<1>3. ASSUME NEW n \in 1..(lastIndex(l) - k)
      PROVE  dropThrough(l, k)[n] = entryAt(l, k + n)
  <2>1. n \in 1..(base + Len(entries) - k)
    BY <1>1
  <2>2. /\ k - base + 1 \in Nat \ {0} /\ n \in Nat \ {0}
        /\ k - base + 1 + n - 1 <= Len(entries)
        /\ k - base + 1 + n - 1 = k + n - base
    <3> HIDE <1>1
    <3> QED
      BY <1>2, <2>1
  <2>3. SubSeq(entries, k - base + 1, Len(entries))[n] = entries[k + n - base]
    <3>1. PICK first : first = k - base + 1
      OBVIOUS
    <3>2. SubSeq(entries, first, Len(entries))[n] = entries[first + n - 1]
      BY <2>2, <3>1, TailEntry
    <3> QED
      BY <2>2, <3>1, <3>2
  <2>4. dropThrough(l, k) = SubSeq(entries, k - base + 1, Len(entries))
    BY <1>1 DEF dropThrough
  <2>5. entryAt(l, k + n) = entries[k + n - base]
    <3>1. PICK q : q = k + n
      OBVIOUS
    <3>2. l.entries = entries /\ l.index = base
      BY <1>1
    <3>3. entryAt(l, q) = entries[q - base]
      BY <3>2, Zenon DEF entryAt
    <3> QED
      BY <3>1, <3>3
  <2> QED
    BY <2>3, <2>4, <2>5
<1> QED
  BY <1>3, DropTypes

\* What a leader's log says is what its ledger says.
LEMMA LeaderEntries ==
  ASSUME RaftInv, NEW i \in Server, state[i] = "Leader"
  PROVE  LET l == logs[i]
             t == currentTerm[i]
         IN  /\ t \in DOMAIN ledger /\ lastIndex(l) = Len(ledger[t])
             /\ \A n \in (l.index + 1)..lastIndex(l) : entryAt(l, n) = ledger[t][n]
             /\ \A n \in l.index..lastIndex(l) : termAt(l, n) = ledgerTerm(t, n)
<1> USE DEF RaftInv, SafetyInv
<1>1. PICK l : l = logs[i]
  OBVIOUS
<1>2. PICK t : t = currentTerm[i]
  OBVIOUS
<1>3. /\ t \in DOMAIN ledger /\ lastIndex(l) = Len(ledger[t])
      /\ hasPrefix(l, t, lastIndex(l))
  BY <1>1, <1>2 DEF LeadersHaveLedgers, hasLedger
<1>4. l \in Logs /\ l.index \in Nat /\ lastIndex(l) \in Nat /\ isNodeLog(l, t)
  BY <1>1, <1>2, NodeLogs
<1>5. \A n \in (l.index + 1)..lastIndex(l) : entryAt(l, n) = ledger[t][n]
  BY <1>3, <1>4 DEF hasPrefix, wholeEntry
<1>6. ASSUME NEW n \in l.index..lastIndex(l) PROVE termAt(l, n) = ledgerTerm(t, n)
  <2>1. CASE n = 0
    BY <1>4, <2>1 DEF termAt, ledgerTerm, isNodeLog, committedTerm
  <2>2. CASE n # 0 /\ n = l.index
    <3>1. termAt(l, n) = committed[n].term
      BY <1>4, <2>2 DEF termAt, isNodeLog, committedTerm
    <3>2. committed[n] = ledger[t][n]
      BY <1>3, <1>4, <2>2 DEF hasPrefix, wholeEntry
    <3> QED
      BY <2>2, <3>1, <3>2 DEF ledgerTerm
  <2>3. CASE n > l.index
    <3>1. termAt(l, n) = entryAt(l, n).term
      BY <1>4, <2>3 DEF termAt, entryAt
    <3> QED
      BY <1>4, <1>5, <2>3, <3>1 DEF ledgerTerm
  <2> QED
    BY <1>4, <2>1, <2>2, <2>3
<1> QED
  BY <1>1, <1>2, <1>3, <1>5, <1>6

LEMMA AppendIsTrue ==
  ASSUME RaftInv, NEW i \in Server, state[i] = "Leader", NEW j \in Server,
         NEW prev \in Nat, logs[i].index <= prev, prev <= lastIndex(logs[i])
  PROVE  /\ isTrueAppend(appendRequest(i, j, prev))
         /\ currentTerm[i] \in Nat /\ commitIndex[i] \in Nat
<1> USE DEF RaftInv, SafetyInv
<1> DEFINE m == appendRequest(i, j, prev)
           l == logs[i]
           t == currentTerm[i]
<1>1. /\ l \in Logs /\ l.index \in Nat /\ lastIndex(l) \in Nat /\ t \in Nat
      /\ commitIndex[i] \in Nat /\ commitIndex[i] <= lastIndex(l)
  BY NodeLogs
<1>2. /\ t \in DOMAIN ledger /\ lastIndex(l) = Len(ledger[t])
      /\ \A n \in (l.index + 1)..lastIndex(l) : entryAt(l, n) = ledger[t][n]
      /\ \A n \in l.index..lastIndex(l) : termAt(l, n) = ledgerTerm(t, n)
  BY LeaderEntries
<1>3. isSettled(commitIndex[i], t)
  BY DEF PrefixSettled, knowsCommitted
<1>4. /\ m.type = "AppendEntries" /\ m.term = t /\ m.prevLogIndex = prev
      /\ m.prevLogTerm = termAt(l, prev) /\ m.leaderCommit = commitIndex[i]
      /\ m.entries = dropThrough(l, prev)
  BY DEF appendRequest
<1> HIDE DEF m, l, t
<1>5. /\ Len(m.entries) = lastIndex(l) - prev
      /\ \A n \in 1..(lastIndex(l) - prev) : m.entries[n] = entryAt(l, prev + n)
  BY <1>1, <1>4, DropEntries DEF l
<1>6. reach(m) = lastIndex(l)
  BY <1>1, <1>4, <1>5 DEF reach
<1>7. m.prevLogTerm = ledgerTerm(t, prev)
  BY <1>1, <1>2, <1>4 DEF l
<1>8. ASSUME NEW n \in 1..Len(m.entries) PROVE m.entries[n] = ledger[t][prev + n]
  <2>1. n \in 1..(lastIndex(l) - prev) /\ prev + n \in (l.index + 1)..lastIndex(l)
    BY <1>1, <1>5 DEF l
  <2> QED
    BY <1>2, <1>5, <2>1 DEF l
<1> QED
  BY <1>1, <1>2, <1>3, <1>4, <1>6, <1>7, <1>8 DEF isTrueAppend, m, l, t

LEMMA ReplicateIsSafe ==
  ASSUME Steps, NEW i \in Server, NEW j \in Server, ReplicateOneRound(i, j)
  PROVE  SafetyInv'
<1> USE DEF Steps, RaftInv, SafetyInv
<1>1. Quiet
  BY ReplicateIsQuiet
<1>2. /\ i # j /\ state[i] = "Leader"
      /\ UNCHANGED <<state, currentTerm, logs, ledgerVars, committed, commitIndex,
                     matchIndex, applyCh>>
      /\ messages' = messages \cup {replicationRequest(i, j)}
  BY DEF ReplicateOneRound, hardVars, leaderVars, history
<1>3. Grows
  BY <1>2, SameLedgersGrow
<1>4. PICK r : r = replicationRequest(i, j)
  OBVIOUS
<1>5. /\ logs[i] \in Logs /\ logs[i].index \in Nat /\ lastIndex(logs[i]) \in Nat
      /\ currentTerm[i] \in Nat /\ logs[i].index <= Len(committed)
      /\ isNodeLog(logs[i], currentTerm[i]) /\ nextIndex[i][j] \in Int
  BY NodeLogs DEF TypeInv, NodeTypes
<1>6. isTrue(r)'
  <2>1. CASE nextIndex[i][j] - 1 < logs[i].index
    <3>1. /\ r.type = "InstallSnapshot" /\ r.from = i /\ r.term = currentTerm[i]
          /\ r.lastIncludedIndex = logs[i].index /\ r.lastIncludedTerm = logs[i].term
      BY <1>4, <2>1 DEF replicationRequest, snapshotRequest
    <3>2. /\ isSettled(r.lastIncludedIndex, r.term)
          /\ r.lastIncludedTerm = committedTerm(r.lastIncludedIndex)
      BY <1>5, <3>1 DEF isNodeLog
    <3>3. /\ isSettled(r.lastIncludedIndex, r.term)'
          /\ r.lastIncludedTerm = committedTerm(r.lastIncludedIndex)'
      BY <1>3, <1>5, <3>1, <3>2, SettledGrows, CommittedGrows
    <3>4. isCut(r)'
      BY <1>2, <1>5, <3>1 DEF isCut, sender, epoch, isRequest
    <3> QED
      BY <3>1, <3>3, <3>4 DEF isTrue
  <2>2. CASE ~(nextIndex[i][j] - 1 < logs[i].index)
    <3> DEFINE prev == nextIndex[i][j] - 1
    <3>1. prev \in Nat /\ logs[i].index <= prev /\ prev <= lastIndex(logs[i])
      BY <1>2, <1>5, <2>2 DEF TypeInv, NextInRange
    <3>2. r = appendRequest(i, j, prev)
      BY <1>4, <2>2 DEF replicationRequest
    <3>3. isTrueAppend(r) /\ commitIndex[i] \in Nat
      BY <1>2, <3>1, <3>2, AppendIsTrue
    <3>4. /\ r.type = "AppendEntries" /\ r.term = currentTerm[i]
          /\ r.leaderCommit = commitIndex[i]
      BY <3>2 DEF appendRequest
    <3> HIDE DEF prev
    <3>5. isSettled(r.leaderCommit, r.term)'
      BY <1>3, <1>5, <3>3, <3>4, SettledGrows DEF isTrueAppend
    <3>6. isTrueAppend(r)'
      BY <1>2, <3>3, <3>5 DEF isTrueAppend, ledgerVars, ledgerTerm, reach
    <3> QED
      BY <3>4, <3>6 DEF isTrue
  <2> QED
    BY <2>1, <2>2
<1>7. \A m \in messages' : m \in messages \/ isTrue(m)'
  BY <1>2, <1>4, <1>6
<1> HIDE DEF Steps, RaftInv, SafetyInv
<1> QED
  BY <1>1, <1>2, <1>7, QuietKeepsSafety

\* A request from the past, or one that the log does not match.
LEMMA RejectedAppendIsSafe ==
  ASSUME Steps, NEW m \in messages, AppendEntries(m), ~AcceptAppend(m)
  PROVE  SafetyInv'
<1>1. Quiet
  BY AppendEntriesIsQuiet DEF Steps, RaftInv
<1>2. UNCHANGED <<logs, ledgerVars, committed, commitIndex, matchIndex, applyCh>>
  BY DEF AppendEntries, RejectStaleAppend, RejectCompactedAppend,
     RejectConflictingAppend, hardVars, leaderVars, ledgerVars
<1>3. PICK term, cTerm, cIndex :
        Reply(m, appendResponse(m, term, FALSE, cTerm, cIndex))
  BY DEF AppendEntries, RejectStaleAppend, RejectCompactedAppend,
     RejectConflictingAppend
<1>4. PICK r : r = appendResponse(m, term, FALSE, cTerm, cIndex)
  OBVIOUS
<1>5. r.type = "AppendEntriesResponse" /\ r.success = FALSE
  BY <1>4 DEF appendResponse
<1>6. isTrue(r)'
  BY <1>5 DEF isTrue
<1>7. \A n \in messages' : n \in messages \/ isTrue(n)'
  BY <1>3, <1>4, <1>6 DEF Reply
<1> QED
  BY <1>1, <1>2, <1>7, QuietKeepsSafety

LEMMA InstallSnapshotIsSafe ==
  ASSUME Steps, NEW m \in messages, InstallSnapshot(m)
  PROVE  SafetyInv'
<1> USE DEF Steps, RaftInv, SafetyInv
<1>1. Quiet
  BY InstallSnapshotIsQuiet
<1>2. /\ UNCHANGED <<logs, ledgerVars, committed, commitIndex, matchIndex>>
      /\ UNCHANGED votes /\ m.type = "InstallSnapshot"
      /\ messages' = (messages \ {m}) \cup {snapshotResponse(m)}
  BY DEF InstallSnapshot, RejectStaleSnapshot, AcceptSnapshot, Reply, hardVars,
     leaderVars, history
<1>3. /\ m \in SnapshotRequest /\ m.to \in Server /\ m.from \in Server
      /\ m.term \in Nat /\ m.lastIncludedIndex \in Nat /\ m.from # m.to
      /\ currentTerm \in [Server -> Nat] /\ applyCh \in [Server -> SUBSET SnapshotMsg]
      /\ state \in [Server -> {"Follower", "Candidate", "Leader"}]
  <2>1. m \in SnapshotRequest
    BY <1>2, MessageKinds DEF TypeInv
  <2> QED
    BY <2>1 DEF SnapshotRequest, TypeInv, NodeTypes, ElectionInv, MessageTypes
<1>4. Grows
  BY <1>2, SameLedgersGrow
<1>5. NoNewCandidates /\ NoNewLeaders
  BY <1>1, DemotedRoles DEF Quiet
<1>6. isTrue(m)
  BY DEF TrafficTrue
<1>7. PICK r : r = snapshotResponse(m)
  OBVIOUS
<1>8. isTrue(r)'
  <2>1. /\ r.type = "InstallSnapshotResponse" /\ r.to = m.from
        /\ r.reqTerm = m.term /\ r.lastIncludedIndex = m.lastIncludedIndex
    BY <1>7 DEF snapshotResponse
  <2>2. isCut(m)
    BY <1>2, <1>6 DEF isTrue
  <2>3. isCut(r)'
    BY <1>2, <1>3, <1>5, <2>1, <2>2
       DEF isCut, sender, epoch, isRequest, NoNewLeaders
  <2> QED
    BY <2>1, <2>3 DEF isTrue
<1>9. PICK p : p = [index |-> m.lastIncludedIndex, term |-> m.lastIncludedTerm,
                    data |-> m.data]
  OBVIOUS
<1>10. ASSUME NEW i \in Server, NEW q \in applyCh'[i]
       PROVE  q \in applyCh[i] \/ isTrueSnapshot(q, currentTerm[i])'
  <2>1. q \in applyCh[i] \/ (AcceptSnapshot(m) /\ i = m.to /\ q = p)
    BY <1>3, <1>9 DEF InstallSnapshot, RejectStaleSnapshot, AcceptSnapshot
  <2>2. ASSUME AcceptSnapshot(m) PROVE isTrueSnapshot(p, currentTerm[m.to])'
    <3>1. currentTerm'[m.to] = m.term
      BY <1>3, <2>2 DEF AcceptSnapshot, followLeader, adoptTerm
    <3>2. /\ isSettled(m.lastIncludedIndex, m.term)
          /\ m.lastIncludedTerm = committedTerm(m.lastIncludedIndex)
      BY <1>2, <1>6 DEF isTrue
    <3>3. /\ isSettled(m.lastIncludedIndex, m.term)'
          /\ m.lastIncludedTerm = committedTerm(m.lastIncludedIndex)'
      BY <1>3, <1>4, <3>2, SettledGrows, CommittedGrows
    <3> QED
      BY <1>9, <3>1, <3>3 DEF isTrueSnapshot
  <2> QED
    BY <2>1, <2>2
<1>11. Calm
  BY <1>1, <1>2, <1>5 DEF Calm, Quiet, isVoteMsg
<1>12. \A n \in messages' : n \in messages \/ isTrue(n)'
  BY <1>2, <1>7, <1>8
<1> HIDE DEF Steps, RaftInv, SafetyInv
<1> QED
  BY <1>2, <1>10, <1>11, <1>12, CalmKeepsSafety

LEMMA SnapshotResponseIsSafe ==
  ASSUME Steps, NEW m \in messages, HandleInstallSnapshotResponse(m)
  PROVE  SafetyInv'
<1> USE DEF Steps, RaftInv, SafetyInv
<1>1. Quiet
  BY HandleResponseIsQuiet
<1>2. /\ UNCHANGED <<commitIndex, applyCh, votes, committed, ledgerVars>>
      /\ messages' = messages \ {m} /\ m.type = "InstallSnapshotResponse"
  BY DEF HandleInstallSnapshotResponse, history
<1>3. /\ m.to \in Server /\ m.from \in Server /\ m.lastIncludedIndex \in Nat
      /\ matchIndex \in [Server -> [Server -> Nat]]
  BY <1>2, MessageKinds DEF SnapshotResponse, TypeInv, NodeTypes
<1>4. UNCHANGED logs
  BY DEF HandleInstallSnapshotResponse, DeposeBySnapshot, AdvancePeerToSnapshot,
     IgnoreSnapshotResponse, stepDown, hardVars
<1>5. ASSUME NEW i \in Server, NEW j \in Server
      PROVE  matchIndex'[i][j] = matchIndex[i][j] \/ knowsProgress(i, j)'
  <2>1. CASE UNCHANGED leaderVars
    BY <2>1 DEF leaderVars
  <2>2. CASE AdvancePeerToSnapshot(m)
    <3>1. /\ matchIndex' = [matchIndex EXCEPT ![m.to][m.from] = m.lastIncludedIndex]
          /\ isCurrentLeader(m)
      BY <2>2 DEF AdvancePeerToSnapshot, setProgress
    <3>2. isCut(m)
      BY <1>2 DEF TrafficTrue, isTrue
    <3>3. m.lastIncludedIndex <= logs[m.to].index
      BY <1>2, <3>1, <3>2 DEF isCut, isCurrentLeader, sender, epoch, isRequest
    <3> QED
      BY <1>3, <1>4, <3>1, <3>3 DEF knowsProgress
  <2> QED
    BY <2>1, <2>2 DEF HandleInstallSnapshotResponse, DeposeBySnapshot,
       IgnoreSnapshotResponse
<1>6. Calm
  BY <1>1, <1>2, <1>4, DemotedRoles DEF Calm, Quiet
<1> HIDE DEF Steps, RaftInv, SafetyInv
<1> QED
  BY <1>2, <1>5, <1>6, CalmKeepsSafety

-----------------------------------------------------------------------------
(* Commitment *)

\* What the leader adds to the committed entries is from its log.
LEMMA CommitEntries ==
  ASSUME NEW l \in Logs, NEW k \in Nat, committed \in Seq(Entry),
         l.index <= Len(committed), Len(committed) < k, k <= lastIndex(l),
         recordCommit(l, k)
  PROVE  /\ Len(committed') = k
         /\ \A n \in 1..Len(committed) : committed'[n] = committed[n]
         /\ \A n \in (Len(committed) + 1)..k : committed'[n] = entryAt(l, n)
<1> DEFINE known == Len(committed)
           first == known - l.index + 1
           last == k - l.index
           tail == SubSeq(l.entries, first, last)
<1>1. /\ l.index \in Nat /\ l.entries \in Seq(Entry) /\ known \in Nat
      /\ lastIndex(l) = l.index + Len(l.entries)
  BY LogTypes
<1>2. /\ first \in Nat \ {0} /\ last \in Nat /\ last <= Len(l.entries)
      /\ first <= last /\ last - first + 1 = k - known
  BY <1>1, SMTT(30)
<1>3. committed' = committed \o tail
  <2>1. ~(k <= Len(committed))
    BY <1>1
  <2> QED
    BY <2>1, Zenon DEF recordCommit
<1>4. /\ tail \in Seq(Entry) /\ Len(tail) = k - known
      /\ \A n \in 1..(k - known) : tail[n] = l.entries[first + n - 1]
  <2> HIDE DEF first, last
  <2> QED
    BY <1>1, <1>2
<1> HIDE DEF tail
<1>5. /\ Len(committed') = k
      /\ \A n \in 1..known : committed'[n] = committed[n]
      /\ \A n \in (known + 1)..k : committed'[n] = tail[n - known]
  <2>1. Len(committed') = known + Len(tail)
    BY <1>3, <1>4
  <2>2. \A n \in 1..(known + Len(tail)) :
          committed'[n] = IF n <= known THEN committed[n] ELSE tail[n - known]
    BY <1>3, <1>4
  <2> QED
    BY <1>1, <1>4, <2>1, <2>2
<1>6. ASSUME NEW n \in (known + 1)..k PROVE committed'[n] = entryAt(l, n)
  <2>1. n - known \in 1..(k - known) /\ first + (n - known) - 1 = n - l.index
    BY <1>1
  <2> HIDE DEF first
  <2>2. tail[n - known] = l.entries[first + (n - known) - 1]
    BY <1>4, <2>1
  <2> QED
    BY <1>5, <2>1, <2>2 DEF entryAt
<1> QED
  BY <1>5, <1>6

\* What a leader finds stored by a majority, in its own term, is chosen.
LEMMA MajorityChooses ==
  ASSUME RaftInv, NEW i \in Server, state[i] = "Leader",
         NEW match \in [Server -> Nat],
         \A j \in Server : \/ match[j] <= logs[i].index
                           \/ hasStored(j, currentTerm[i], match[j]),
         NEW k \in Nat, k > commitIndex[i], matchLog(logs[i], currentTerm[i], k),
         isMajority({j \in Server : match[j] >= k})
  PROVE  isChosen(currentTerm[i], k)
<1> USE DEF RaftInv, SafetyInv
<1>1. PICK l : l = logs[i]
  OBVIOUS
<1>2. PICK t : t = currentTerm[i]
  OBVIOUS
<1>3. /\ l \in Logs /\ l.index \in Nat /\ lastIndex(l) \in Nat /\ t \in Nat
      /\ commitIndex[i] \in Nat /\ l.index <= commitIndex[i]
  BY <1>1, <1>2, NodeLogs
<1>4. k \in l.index..lastIndex(l) /\ k # 0 /\ k > l.index /\ termAt(l, k) = t
  BY <1>1, <1>2, <1>3 DEF matchLog
<1>5. /\ t \in DOMAIN ledger /\ lastIndex(l) = Len(ledger[t])
      /\ \A n \in l.index..lastIndex(l) : termAt(l, n) = ledgerTerm(t, n)
  BY <1>1, <1>2, LeaderEntries
<1>6. isOwn(t, k)
  <2>1. ledger[t][k].term = t
    BY <1>4, <1>5 DEF ledgerTerm
  <2> QED
    BY <1>3, <1>4, <1>5, <2>1 DEF isOwn
<1> SUFFICES ASSUME ~isChosen(t, k)
             PROVE  FALSE
  BY <1>2
<1> DEFINE S == {j \in Server : match[j] >= k}
           T == {j \in Server : hasSecured(j, t, k)}
<1>7. ASSUME NEW j \in S PROVE hasSecured(j, t, k)
  <2>1. hasStored(j, t, match[j])
    BY <1>1, <1>2, <1>3, <1>4, <1>7
  <2>2. PICK a \in acks : a[1] = t /\ a[2] = j /\ a[3] >= match[j]
    BY <2>1 DEF hasStored
  <2>3. k \in 1..a[3]
    BY <1>3, <1>4, <1>7, <2>2 DEF LedgerTypes
  <2> QED
    BY <1>6, <2>2, <2>3 DEF AcksSecured
<1>8. S \subseteq T /\ S \in SUBSET Server /\ T \in SUBSET Server
  BY <1>7
<1>9. isMajority(T)
  BY <1>8, MajorityGrows
<1> QED
  BY <1>6, <1>9 DEF isChosen

\* All that is committed is settled in the term of its last entry.
LEMMA CommittedSettled ==
  ASSUME RaftInv
  PROVE  /\ Len(committed) \in Nat
         /\ \E term \in Nat : isSettled(Len(committed), term)
<1> USE DEF RaftInv, SafetyInv
<1>1. Len(committed) \in Nat
  BY DEF TypeInv, NodeTypes
<1>2. CASE Len(committed) = 0
  BY <1>1, <1>2 DEF isSettled
<1>3. CASE Len(committed) # 0
  <2> DEFINE k == Len(committed)
             t == committed[k].term
  <2>1. isChosen(t, k) /\ committedIs(t, k)
    BY <1>3 DEF CommittedChosen
  <2>2. t \in DOMAIN ledger /\ t \in Nat /\ k \in k..Len(ledger[t])
    BY <1>1, <2>1, LedgerEntries DEF isChosen, isOwn
  <2> QED
    BY <1>1, <2>1, <2>2 DEF isSettled
<1> QED
  BY <1>1, <1>2, <1>3

\* The committed entries, of which there are now at least k, are those of the
\* leader that has found k of them chosen.
LEMMA RecordedIsLedger ==
  ASSUME RaftInv, NEW i \in Server, state[i] = "Leader", NEW k \in Nat,
         isChosen(currentTerm[i], k), k <= lastIndex(logs[i]),
         recordCommit(logs[i], k)
  PROVE  /\ k <= Len(committed') /\ k <= Len(ledger[currentTerm[i]])
         /\ \A n \in 1..k : committed'[n] = ledger[currentTerm[i]][n]
         /\ Len(committed) <= Len(committed')
         /\ \A n \in 1..Len(committed) : committed'[n] = committed[n]
         /\ k > Len(committed) => Len(committed') = k
         /\ k <= Len(committed) => committed' = committed
<1> USE DEF RaftInv, SafetyInv
<1>1. PICK l : l = logs[i]
  OBVIOUS
<1>2. PICK t : t = currentTerm[i]
  OBVIOUS
<1>3. /\ l \in Logs /\ l.index \in Nat /\ lastIndex(l) \in Nat /\ t \in Nat
      /\ l.index <= Len(committed) /\ Len(committed) \in Nat
      /\ committed \in Seq(Entry)
  BY <1>1, <1>2, NodeLogs DEF TypeInv, NodeTypes
<1>4. /\ t \in DOMAIN ledger /\ lastIndex(l) = Len(ledger[t])
      /\ \A n \in (l.index + 1)..lastIndex(l) : entryAt(l, n) = ledger[t][n]
  BY <1>1, <1>2, LeaderEntries
<1>5. isOwn(t, k) /\ ~isBlocked(t, k)
  BY <1>2, ChosenNotBlocked DEF isChosen
<1>6. PICK term \in Nat : isSettled(Len(committed), term)
  BY CommittedSettled
<1>7. \A n \in 1..k : n <= Len(committed) => committed[n] = ledger[t][n]
  BY <1>3, <1>5, <1>6, CommittedAgrees
<1>8. CASE k <= Len(committed)
  <2>1. committed' = committed
    BY <1>1, <1>8 DEF recordCommit
  <2> QED
    BY <1>1, <1>2, <1>3, <1>4, <1>7, <1>8, <2>1
<1>9. CASE k > Len(committed)
  <2>1. /\ Len(committed') = k
        /\ \A n \in 1..Len(committed) : committed'[n] = committed[n]
        /\ \A n \in (Len(committed) + 1)..k : committed'[n] = entryAt(l, n)
    BY <1>1, <1>3, <1>9, CommitEntries
  <2>2. ASSUME NEW n \in 1..k PROVE committed'[n] = ledger[t][n]
    <3>1. CASE n <= Len(committed)
      BY <1>3, <1>7, <2>1, <3>1
    <3>2. CASE n > Len(committed)
      BY <1>1, <1>3, <1>4, <2>1, <3>2
    <3> QED
      BY <1>3, <3>1, <3>2
  <2> QED
    BY <1>1, <1>2, <1>3, <1>4, <1>9, <2>1, <2>2
<1> QED
  BY <1>3, <1>8, <1>9

LEMMA CommitIsSafe ==
  ASSUME Steps, NEW i \in Server, state[i] = "Leader", NEW k \in Nat,
         isChosen(currentTerm[i], k), k <= lastIndex(logs[i]),
         recordCommit(logs[i], k), commitIndex' = [commitIndex EXCEPT ![i] = k],
         UNCHANGED <<state, currentTerm, logs, votes, ledgerVars, applyCh>>,
         messages' \subseteq messages,
         \A h, j \in Server :
           matchIndex'[h][j] = matchIndex[h][j] \/ knowsProgress(h, j)'
  PROVE  SafetyInv'
<1> USE DEF Steps, RaftInv
<1>1. PICK l : l = logs[i]
  OBVIOUS
<1>2. PICK t : t = currentTerm[i]
  OBVIOUS
<1>3. /\ l \in Logs /\ l.index \in Nat /\ lastIndex(l) \in Nat /\ t \in Nat
      /\ l.index <= Len(committed) /\ Len(committed) \in Nat
      /\ commitIndex \in [Server -> Nat] /\ isNodeLog(l, t)
  BY <1>1, <1>2, NodeLogs DEF SafetyInv, TypeInv, NodeTypes
<1>4. /\ t \in DOMAIN ledger /\ lastIndex(l) = Len(ledger[t])
      /\ \A n \in (l.index + 1)..lastIndex(l) : entryAt(l, n) = ledger[t][n]
  BY <1>1, <1>2, LeaderEntries
<1>5. /\ k <= Len(committed') /\ k <= Len(ledger[t])
      /\ \A n \in 1..k : committed'[n] = ledger[t][n]
      /\ Len(committed) <= Len(committed')
      /\ \A n \in 1..Len(committed) : committed'[n] = committed[n]
      /\ k > Len(committed) => Len(committed') = k
      /\ k <= Len(committed) => committed' = committed
  BY <1>1, <1>2, RecordedIsLedger
<1>6. UNCHANGED <<ledger, acks>>
  BY DEF ledgerVars
<1>7. Grows
  <2>1. \A u \in DOMAIN ledger : Len(ledger[u]) \in Nat
    BY LedgerEntries
  <2> QED
    BY <1>5, <1>6, <2>1 DEF Grows
<1>8. Continues /\ NoNewCandidates /\ NoNewLeaders
  <2>1. \A j \in Server : KeepsLog(j)
    BY SameLogKept DEF SafetyInv
  <2> QED
    BY <1>7, <2>1 DEF Continues, NoNewCandidates, NoNewLeaders
<1>9. isChosen(t, k)' /\ isOwn(t, k) /\ t \in DOMAIN ledger'
  BY <1>2, <1>4, <1>6, <1>7, ChosenGrows DEF isChosen
<1>10. committedIs(t, k)'
  BY <1>5, <1>6 DEF committedIs
<1>11. isSettled(k, t)'
  <2>1. k \in k..Len(ledger'[t])
    BY <1>3, <1>4, <1>5, <1>6
  <2> QED
    BY <1>3, <1>9, <1>10, <2>1 DEF isSettled, committedIs
<1>12. knowsCommitted(i)'
  <2>1. ASSUME NEW n \in (l.index + 1)..k PROVE entryAt(l, n) = committed'[n]
    BY <1>1, <1>3, <1>4, <1>5
  <2> QED
    BY <1>1, <1>2, <1>3, <1>11, <2>1 DEF knowsCommitted, committedPrefix
<1>13. isNodeLog(logs[i], currentTerm[i])'
  <2>1. isNodeLog(l, t)'
    BY <1>3, <1>7, NodeLogGrows
  <2> QED
    BY <1>1, <1>2, <2>1
<1>14. ASSUME NEW h \in Server \ {i}
       PROVE  isNodeLog(logs[h], currentTerm[h])' /\ knowsCommitted(h)'
  <2>1. logs'[h] = logs[h] /\ commitIndex'[h] = commitIndex[h]
    BY <1>3
  <2> QED
    BY <1>7, <2>1, SameNode
<1>15. EntriesOwned' /\ PrefixSettled'
  BY <1>12, <1>13, <1>14 DEF EntriesOwned, PrefixSettled
<1>16. CommittedChosen'
  <2>1. CASE k <= Len(committed)
    BY <1>5, <1>8, <2>1, SameCommitted
  <2>2. CASE k > Len(committed)
    <3>1. Len(committed') = k /\ committed'[k].term = t
      BY <1>3, <1>5, <1>9, <2>2 DEF isOwn
    <3> QED
      BY <1>9, <1>10, <3>1 DEF CommittedChosen
  <2> QED
    BY <1>3, <2>1, <2>2
<1>17. LedgersMatch' /\ LedgersSafe' /\ LedgersElected'
  BY <1>6, <1>8, LedgersSurvive
<1>18. AcksInRange' /\ AcksSecured' /\ StoredNow' /\ SecuredHeld'
  BY <1>6, <1>8, SameAcks
<1>19. VotesAsked' /\ CandidatesHold'
  BY <1>8, SameVotes
<1>20. VoteRequestsTrue'
  <2>1. \A u, n : isOwn(u, n)' => isOwn(u, n)
    BY <1>6 DEF isOwn
  <2> QED
    BY <1>8, <2>1, SameVoteRequests
<1>21. LeadersHaveLedgers'
  BY <1>6, <1>7, <1>8, SameLeaders
<1>22. ProgressKnown'
  BY <1>8, SameProgress DEF ProgressKnown, NoNewLeaders
<1>23. TrafficTrue' /\ SnapshotsSettled'
  BY <1>7, <1>8, SameTraffic, SameSnapshots
<1> QED
  BY <1>15, <1>16, <1>17, <1>18, <1>19, <1>20, <1>21, <1>22, <1>23
     DEF SafetyInv

\* matchIndex is set to what the peer has answered to have stored, if it is.
LEMMA AppendResponseIsSafe ==
  ASSUME Steps, NEW m \in messages, HandleAppendEntriesResponse(m)
  PROVE  SafetyInv'
<1> USE DEF Steps, RaftInv, SafetyInv
<1>1. Quiet
  BY HandleResponseIsQuiet
<1>2. /\ UNCHANGED <<applyCh, votes, ledgerVars>> /\ messages' = messages \ {m}
      /\ m.type = "AppendEntriesResponse"
      /\ AdvancePeer(m) \/ BackUpPeer(m) \/ Depose(m) \/ IgnoreAppendResponse(m)
  BY DEF HandleAppendEntriesResponse
<1>3. /\ m.to \in Server /\ m.from \in Server
      /\ matchIndex \in [Server -> [Server -> Nat]]
      /\ matchIndex' \in [Server -> [Server -> Nat]]
      /\ commitIndex \in [Server -> Nat]
  BY MessageKinds DEF TypeInv, NodeTypes
<1>4. UNCHANGED <<ledger, acks>>
  BY <1>2 DEF ledgerVars
<1>5. NoNewCandidates /\ NoNewLeaders
  BY <1>1, DemotedRoles DEF Quiet
<1>6. UNCHANGED logs
  BY <1>2 DEF AdvancePeer, BackUpPeer, Depose, IgnoreAppendResponse, stepDown,
     hardVars
<1>7. ASSUME NEW h \in Server, NEW j \in Server
      PROVE  \/ matchIndex'[h][j] = matchIndex[h][j]
             \/ /\ AdvancePeer(m) /\ h = m.to /\ UNCHANGED currentTerm
                /\ hasStored(j, currentTerm[h], matchIndex'[h][j])
  <2>1. CASE AdvancePeer(m)
    <3>1. /\ matchIndex' = [matchIndex EXCEPT ![m.to][m.from] = acknowledged(m)]
          /\ isCurrentLeader(m) /\ m.success /\ UNCHANGED currentTerm
      BY <2>1 DEF AdvancePeer, setProgress, hardVars
    <3>2. hasStored(m.from, m.reqTerm, reach(m))
      BY <1>2, <3>1 DEF TrafficTrue, isTrue
    <3>3. hasStored(m.from, currentTerm[m.to], acknowledged(m))
      BY <1>2, <3>1, <3>2 DEF isCurrentLeader, acknowledged, reach
    <3> QED
      BY <1>3, <2>1, <3>1, <3>3
  <2>2. CASE UNCHANGED matchIndex
    BY <2>2
  <2> QED
    BY <1>2, <2>1, <2>2 DEF BackUpPeer, Depose, IgnoreAppendResponse, leaderVars
<1>8. ASSUME NEW h \in Server, NEW j \in Server
      PROVE  matchIndex'[h][j] = matchIndex[h][j] \/ knowsProgress(h, j)'
  BY <1>4, <1>7 DEF knowsProgress, hasStored
<1>9. CASE UNCHANGED <<commitIndex, committed>>
  <2>1. Calm
    BY <1>1, <1>2, <1>5, <1>6, <1>9 DEF Calm, Quiet, isVoteMsg
  <2> HIDE DEF Steps, RaftInv, SafetyInv
  <2> QED
    BY <1>2, <1>8, <2>1, CalmKeepsSafety
<1>10. ASSUME AdvancePeer(m), NEW k, isMajorityMatch(matchIndex'[m.to], k),
              k \in {matchIndex'[m.to][j] : j \in Server},
              isCommittable(m.to, k), recordCommit(logs[m.to], k),
              commitIndex' = [commitIndex EXCEPT ![m.to] = k]
       PROVE  SafetyInv'
  <2>1. PICK i \in Server : i = m.to
    BY <1>3
  <2>2. PICK match \in [Server -> Nat] : match = matchIndex'[i]
    BY <1>3
  <2>3. /\ state[i] = "Leader" /\ UNCHANGED <<state, currentTerm>>
        /\ k \in Nat /\ k > commitIndex[i] /\ matchLog(logs[i], currentTerm[i], k)
        /\ isMajority({j \in Server : match[j] >= k})
    BY <1>10, <2>1, <2>2 DEF AdvancePeer, isCurrentLeader, hardVars,
       isCommittable, isMajorityMatch
  <2>4. ASSUME NEW j \in Server
        PROVE  match[j] <= logs[i].index \/ hasStored(j, currentTerm[i], match[j])
    BY <1>7, <2>1, <2>2, <2>3 DEF ProgressKnown, knowsProgress
  <2>5. k <= lastIndex(logs[i])
    BY <2>3 DEF matchLog
  <2> HIDE DEF SafetyInv, RaftInv, Steps
  <2>6. isChosen(currentTerm[i], k)
    BY <2>2, <2>3, <2>4, MajorityChooses DEF Steps
  <2> QED
    BY <1>2, <1>6, <1>8, <1>10, <2>1, <2>3, <2>5, <2>6, CommitIsSafe
<1>11. ASSUME AdvancePeer(m)
       PROVE  SafetyInv'
  BY <1>9, <1>10, <1>11 DEF AdvancePeer, advanceCommitIndexForLeader
<1>12. CASE ~AdvancePeer(m)
  BY <1>2, <1>9, <1>12 DEF BackUpPeer, Depose, IgnoreAppendResponse
<1> QED
  BY <1>11, <1>12

-----------------------------------------------------------------------------
(* Log compaction *)

\* The log new is l from a later snapshot on.
isCompacted(l, new, term) ==
  /\ new \in Logs /\ l.index <= new.index
  /\ isSettled(new.index, term) /\ new.term = committedTerm(new.index)
  /\ lastIndex(new) = IF new.index > lastIndex(l) THEN new.index ELSE lastIndex(l)
  /\ \A n \in (new.index + 1)..lastIndex(l) : entryAt(new, n) = entryAt(l, n)

\* The last entry of a compacted log is of no earlier term than one it has.
LEMMA CompactedLast ==
  ASSUME LedgerTypes, LedgersMatch, NEW term \in Nat, NEW l \in Logs, NEW new,
         isCompacted(l, new, term), NEW t, NEW k, isOwn(t, k), holds(l, t, k),
         \A q \in 1..k : q <= new.index => committed[q] = ledger[t][q]
  PROVE  lastTerm(new) >= t
<1>1. /\ l.index \in Nat /\ lastIndex(l) \in Nat /\ l.index <= lastIndex(l)
      /\ new.index \in Nat /\ new \in Logs /\ l.index <= new.index
      /\ t \in DOMAIN ledger /\ t \in Nat /\ k \in Nat \ {0} /\ k <= lastIndex(l)
      /\ ledger[t][k].term = t
  BY LogTypes, LedgerEntries DEF isCompacted, isOwn, holds, hasPrefix
<1>2. CASE new.index < lastIndex(l)
  <2>1. lastIndex(new) = lastIndex(l) /\ entryAt(new, lastIndex(l)) = entryAt(l, lastIndex(l))
    BY <1>1, <1>2 DEF isCompacted
  <2>2. lastTerm(new) = lastTerm(l)
    BY <1>1, <1>2, <2>1 DEF lastTerm, termAt, entryAt
  <2> QED
    BY <2>2 DEF holds
<1>3. CASE new.index >= lastIndex(l)
  <2>1. lastIndex(new) = new.index /\ new.index # 0 /\ k \in 1..new.index
    BY <1>1, <1>3 DEF isCompacted
  <2> DEFINE s == committed[new.index].term
  <2>2. lastTerm(new) = s
    BY <2>1 DEF lastTerm, termAt, isCompacted, committedTerm
  <2>3. s \in Nat /\ isOwn(s, new.index) /\ committedIs(s, new.index)
    BY <1>1, <2>1, SettledTerm DEF isCompacted
  <2>4. committed[k] = ledger[t][k] /\ committed[k] = ledger[s][k]
    BY <1>1, <2>1, <2>3 DEF committedIs
  <2>5. /\ s \in DOMAIN ledger /\ new.index \in 1..Len(ledger[s])
        /\ ledger[s][new.index].term = s
    BY <2>3 DEF isOwn
  <2> HIDE DEF s
  <2>6. ledger[s][k].term <= ledger[s][new.index].term
    BY <2>1, <2>5, TermsSorted
  <2> QED
    BY <1>1, <2>2, <2>4, <2>5, <2>6
<1> QED
  BY <1>1, <1>2, <1>3

LEMMA CompactedKeeps ==
  ASSUME RaftInv, NEW i \in Server, isCompacted(logs[i], logs'[i], currentTerm[i])
  PROVE  /\ KeepsLog(i) /\ isNodeLog(logs'[i], currentTerm[i])
         /\ state[i] = "Leader" => lastIndex(logs'[i]) = lastIndex(logs[i])
<1> USE DEF RaftInv, SafetyInv
<1>1. PICK l : l = logs[i]
  OBVIOUS
<1>2. PICK new : new = logs'[i]
  OBVIOUS
<1>3. PICK term \in Nat : term = currentTerm[i]
  BY DEF TypeInv, NodeTypes
<1>4. /\ l \in Logs /\ l.index \in Nat /\ lastIndex(l) \in Nat
      /\ isNodeLog(l, term) /\ committed \in Seq(Entry)
  BY <1>1, <1>3, NodeLogs DEF TypeInv, NodeTypes
<1>5. /\ isCompacted(l, new, term)
      /\ new \in Logs /\ l.index <= new.index /\ new.index \in Nat
      /\ isSettled(new.index, term) /\ new.term = committedTerm(new.index)
      /\ new.index > lastIndex(l) => lastIndex(new) = new.index
      /\ new.index <= lastIndex(l) => lastIndex(new) = lastIndex(l)
      /\ \A n \in (new.index + 1)..lastIndex(l) : entryAt(new, n) = entryAt(l, n)
  BY <1>1, <1>2, <1>3, <1>4, LogTypes DEF isCompacted
<1>6. new.index <= Len(committed)
  BY <1>4, <1>5, SettledBefore
<1>7. lastIndex(new) \in Nat /\ lastIndex(l) <= lastIndex(new)
  BY <1>4, <1>5
\* A prefix of l that does not contradict what is committed is one of new.
<1>8. ASSUME NEW t, NEW k \in Nat, hasPrefix(l, t, k),
             \A q \in 1..k : q <= new.index => committed[q] = ledger[t][q]
      PROVE  hasPrefix(new, t, k)
  <2>1. k <= lastIndex(l) /\ k <= Len(ledger[t])
    BY <1>8 DEF hasPrefix
  <2>2. ASSUME NEW n \in 1..k PROVE wholeEntry(new, n) = ledger[t][n]
    <3>1. CASE n <= new.index
      BY <1>8, <3>1 DEF wholeEntry
    <3>2. CASE n > new.index
      <4>1. entryAt(new, n) = entryAt(l, n) /\ n > l.index
        BY <1>4, <1>5, <2>1, <3>2
      <4>2. wholeEntry(l, n) = ledger[t][n]
        BY <1>8 DEF hasPrefix
      <4> QED
        BY <1>4, <1>5, <3>2, <4>1, <4>2 DEF wholeEntry
    <3> QED
      BY <1>5, <3>1, <3>2
  <2>3. k <= lastIndex(new)
    BY <1>4, <1>7, <2>1
  <2> QED
    BY <2>1, <2>2, <2>3 DEF hasPrefix
<1>9. ASSUME NEW t \in DOMAIN ledger, NEW k \in 1..Len(ledger[t]), isOwn(t, k),
             holds(l, t, k), ~isBlocked(t, k)
      PROVE  holds(new, t, k)
  <2>1. \A q \in 1..k : q <= new.index => committed[q] = ledger[t][q]
    BY <1>5, <1>9, CommittedAgrees
  <2>2. hasPrefix(new, t, k)
    BY <1>8, <1>9, <2>1 DEF holds
  <2>3. lastTerm(new) >= t
    BY <1>4, <1>5, <1>9, <2>1, CompactedLast
  <2> QED
    BY <2>2, <2>3 DEF holds
<1>10. ASSUME NEW k \in Nat, term \in DOMAIN ledger, hasPrefix(l, term, k)
       PROVE  hasPrefix(new, term, k)
  <2>1. \A n \in 1..new.index : committed[n] = ledger[term][n]
    BY <1>5, <1>10, SettledInLater
  <2> QED
    BY <1>5, <1>8, <1>10, <2>1
<1>11. KeepsLog(i)
  BY <1>1, <1>2, <1>3, <1>5, <1>6, <1>9, <1>10 DEF KeepsLog
<1>12. isNodeLog(new, term)
  <2>1. ASSUME NEW n \in (new.index + 1)..lastIndex(new)
        PROVE  /\ termAt(new, n) <= term /\ isOwn(termAt(new, n), n)
               /\ \A q \in (new.index + 1)..n :
                    entryAt(new, q) = ledger[termAt(new, n)][q]
    <3>1. n \in (l.index + 1)..lastIndex(l) /\ lastIndex(new) = lastIndex(l)
      BY <1>4, <1>5
    <3>2. termAt(new, n) = termAt(l, n)
      <4>1. entryAt(new, n) = entryAt(l, n)
        BY <1>4, <1>5, <3>1
      <4> QED
        BY <1>4, <1>5, <4>1 DEF termAt, entryAt
    <3> DEFINE t == termAt(l, n)
    <3>3. /\ t <= term /\ isOwn(t, n)
          /\ \A q \in (l.index + 1)..n : entryAt(l, q) = ledger[t][q]
      BY <1>4, <3>1 DEF isNodeLog
    <3> HIDE DEF t
    <3>4. ASSUME NEW q \in (new.index + 1)..n PROVE entryAt(new, q) = ledger[t][q]
      BY <1>4, <1>5, <3>1, <3>3
    <3> QED
      BY <3>2, <3>3, <3>4 DEF t
  <2> QED
    BY <1>5, <2>1 DEF isNodeLog
<1>13. ASSUME state[i] = "Leader" PROVE lastIndex(new) = lastIndex(l)
  <2>1. term \in DOMAIN ledger /\ lastIndex(l) = Len(ledger[term])
    BY <1>1, <1>3, <1>13, LeaderEntries
  <2>2. new.index <= Len(ledger[term])
    BY <1>5, <2>1, SettledInLater
  <2> QED
    BY <1>4, <1>5, <2>1, <2>2
<1> QED
  BY <1>1, <1>2, <1>3, <1>11, <1>12, <1>13

\* A step that compacts the log of one node.
LEMMA CompactionIsSafe ==
  ASSUME Steps, NEW i \in Server, isCompacted(logs[i], logs'[i], currentTerm[i]),
         \A h \in Server \ {i} : UNCHANGED <<logs[h], commitIndex[h]>>,
         UNCHANGED <<state, currentTerm, matchIndex, messages, committed, votes,
                     ledgerVars>>,
         \A h \in Server : applyCh'[h] \subseteq applyCh[h],
         isSettled(commitIndex'[i], currentTerm[i]),
         commitIndex'[i] <= lastIndex(logs'[i]),
         committedPrefix(logs'[i], commitIndex'[i])
  PROVE  SafetyInv'
<1> USE DEF Steps, RaftInv
<1>1. Grows /\ UNCHANGED <<ledger, acks>>
  BY SameLedgersGrow DEF ledgerVars
<1>2. /\ KeepsLog(i) /\ isNodeLog(logs'[i], currentTerm[i])
      /\ state[i] = "Leader" => lastIndex(logs'[i]) = lastIndex(logs[i])
  BY CompactedKeeps
<1>3. \A j \in Server : KeepsLog(j)
  BY <1>2, SameLogKept DEF SafetyInv
<1>4. Continues /\ NoNewCandidates /\ NoNewLeaders
  BY <1>1, <1>3 DEF Continues, NoNewCandidates, NoNewLeaders
<1>5. PICK term \in Nat : term = currentTerm[i]
  BY DEF TypeInv, NodeTypes
<1>6. PICK new \in Logs : new = logs'[i]
  BY DEF TypeInv, NodeTypes
<1>7. PICK k \in Nat : k = commitIndex'[i]
  BY DEF TypeInv, NodeTypes
<1>8. isNodeLog(logs[i], currentTerm[i])'
  <2>1. isNodeLog(new, term)'
    BY <1>1, <1>2, <1>5, <1>6, NodeLogGrows
  <2> QED
    BY <1>5, <1>6, <2>1
<1>9. knowsCommitted(i)'
  <2>1. isSettled(k, term)'
    BY <1>1, <1>5, <1>7, SettledGrows
  <2>2. committedPrefix(new, k)'
    BY <1>6, <1>7 DEF committedPrefix
  <2> QED
    BY <1>5, <1>6, <1>7, <2>1, <2>2 DEF knowsCommitted
<1>10. ASSUME NEW h \in Server \ {i}
       PROVE  isNodeLog(logs[h], currentTerm[h])' /\ knowsCommitted(h)'
  BY <1>1, SameNode
<1>11. EntriesOwned' /\ PrefixSettled'
  BY <1>8, <1>9, <1>10 DEF EntriesOwned, PrefixSettled
<1>12. ASSUME NEW h \in Server, state[h] = "Leader"
       PROVE  hasLedger(h)'
  <2>1. CASE h # i
    BY <1>1, <1>12, <2>1, SameLeader
  <2>2. CASE h = i
    <3>1. /\ term \in DOMAIN ledger /\ lastIndex(new) = Len(ledger[term])
          /\ hasPrefix(logs[i], term, lastIndex(logs[i]))
          /\ lastIndex(new) = lastIndex(logs[i])
      BY <1>2, <1>5, <1>6, <1>12, <2>2 DEF SafetyInv, LeadersHaveLedgers, hasLedger
    <3>2. lastIndex(new) \in Nat
      BY <1>6, LogTypes
    <3>3. hasPrefix(new, term, lastIndex(new)) /\ new.index <= Len(committed)
      BY <1>2, <1>5, <1>6, <3>1, <3>2 DEF KeepsLog
    <3>4. hasPrefix(new, term, lastIndex(new))'
      BY <1>1, <1>6, <3>1, <3>2, <3>3, PrefixGrows
    <3> QED
      BY <1>1, <1>5, <1>6, <2>2, <3>1, <3>4 DEF hasLedger
  <2> QED
    BY <2>1, <2>2
<1>13. LeadersHaveLedgers'
  BY <1>12 DEF LeadersHaveLedgers
<1>14. LedgersMatch' /\ LedgersSafe' /\ LedgersElected'
  BY <1>1, <1>4, LedgersSurvive
<1>15. AcksInRange' /\ AcksSecured' /\ StoredNow' /\ SecuredHeld'
  BY <1>1, <1>4, SameAcks
<1>16. CommittedChosen' /\ VotesAsked' /\ CandidatesHold'
  BY <1>4, SameCommitted, SameVotes
<1>17. VoteRequestsTrue'
  <2>1. \A u, n : isOwn(u, n)' => isOwn(u, n)
    BY <1>1 DEF isOwn
  <2> QED
    BY <1>4, <2>1, SameVoteRequests
<1>18. ProgressKnown'
  BY <1>4, SameProgress DEF ProgressKnown, NoNewLeaders
<1>19. TrafficTrue' /\ SnapshotsSettled'
  BY <1>1, <1>4, SameTraffic, SameSnapshots
<1> QED
  BY <1>11, <1>13, <1>14, <1>15, <1>16, <1>17, <1>18, <1>19 DEF SafetyInv

LEMMA SnapshotIsSafe ==
  ASSUME Steps, NEW i \in Server, NEW index \in Nat, Snapshot(i, index)
  PROVE  SafetyInv'
<1> USE DEF Steps, RaftInv
<1>1. PICK l \in Logs : l = logs[i]
  BY DEF TypeInv, NodeTypes
<1>2. PICK new : new = [index |-> index, term |-> termAt(l, index),
                        entries |-> dropThrough(l, index)]
  OBVIOUS
<1>3. /\ UNCHANGED <<state, currentTerm, commitIndex, matchIndex, applyCh,
                     messages, votes, committed, ledgerVars>>
      /\ l.index < index /\ index <= commitIndex[i] /\ index <= lastIndex(l)
      /\ logs' = [logs EXCEPT ![i] = new]
  BY <1>1, <1>2 DEF Snapshot, leaderVars, history
<1>4. logs'[i] = new /\ \A h \in Server \ {i} : logs'[h] = logs[h]
  BY <1>3 DEF TypeInv, NodeTypes
<1>5. /\ l.index \in Nat /\ lastIndex(l) \in Nat /\ currentTerm[i] \in Nat
      /\ commitIndex[i] \in Nat /\ commitIndex[i] <= lastIndex(l)
      /\ isSettled(commitIndex[i], currentTerm[i])
      /\ committedPrefix(l, commitIndex[i]) /\ committed \in Seq(Entry)
  BY <1>1, NodeLogs DEF SafetyInv, PrefixSettled, knowsCommitted, TypeInv, NodeTypes
<1>6. /\ dropThrough(l, index) \in Seq(Entry)
      /\ Len(dropThrough(l, index)) = lastIndex(l) - index
      /\ \A n \in 1..(lastIndex(l) - index) :
           dropThrough(l, index)[n] = entryAt(l, index + n)
  <2>1. index \in l.index..lastIndex(l)
    BY <1>3, <1>5
  <2> QED
    BY <2>1, DropEntries
<1>7. /\ new.index = index /\ new.entries = dropThrough(l, index)
      /\ new.term = termAt(l, index) /\ lastIndex(new) = lastIndex(l)
  <2>1. /\ new.index = index /\ new.entries = dropThrough(l, index)
        /\ new.term = termAt(l, index)
    BY <1>2
  <2>2. lastIndex(new) = index + Len(dropThrough(l, index))
    BY <2>1 DEF lastIndex
  <2> QED
    BY <1>5, <1>6, <2>1, <2>2
<1>8. new \in Logs
  BY <1>4 DEF TypeInv, NodeTypes
<1>9. \A n \in (index + 1)..lastIndex(l) : entryAt(new, n) = entryAt(l, n)
  <2> SUFFICES ASSUME NEW n \in (index + 1)..lastIndex(l)
               PROVE  dropThrough(l, index)[n - index] = entryAt(l, n)
    BY <1>7 DEF entryAt
  <2>1. n - index \in 1..(lastIndex(l) - index) /\ index + (n - index) = n
    BY <1>5
  <2> QED
    BY <1>6, <2>1
<1>10. isSettled(index, currentTerm[i])
  BY <1>3, <1>5, SettledBefore
<1>11. new.term = committedTerm(index)
  <2>1. entryAt(l, index) = committed[index]
    BY <1>3, <1>5 DEF committedPrefix
  <2> QED
    BY <1>3, <1>5, <1>7, <2>1 DEF termAt, entryAt, committedTerm
<1>12. isCompacted(l, new, currentTerm[i])
  BY <1>3, <1>5, <1>7, <1>8, <1>9, <1>10, <1>11 DEF isCompacted
<1>13. committedPrefix(new, commitIndex[i])
  BY <1>3, <1>5, <1>7, <1>9 DEF committedPrefix
<1> HIDE DEF Steps, RaftInv
<1> QED
  BY <1>1, <1>3, <1>4, <1>5, <1>7, <1>12, <1>13, CompactionIsSafe

LEMMA CondInstallSnapshotIsSafe ==
  ASSUME Steps, NEW i \in Server, NEW p \in applyCh[i], CondInstallSnapshot(i, p)
  PROVE  SafetyInv'
<1> USE DEF Steps, RaftInv
<1>1. PICK l \in Logs : l = logs[i]
  BY DEF TypeInv, NodeTypes
<1>2. /\ UNCHANGED <<state, currentTerm, votedFor, matchIndex, messages, votes,
                     committed, ledgerVars>>
      /\ \A h \in Server : applyCh'[h] \subseteq applyCh[h]
  <2>1. applyCh' = [applyCh EXCEPT ![i] = @ \ {p}]
    BY DEF CondInstallSnapshot
  <2> QED
    BY <2>1 DEF CondInstallSnapshot, leaderVars, history, TypeInv, NodeTypes
<1>3. CASE isOutdated(i, p)
  <2>1. UNCHANGED <<logs, commitIndex>>
    BY <1>3 DEF CondInstallSnapshot
  <2>2. Quiet
    BY CondInstallSnapshotIsQuiet
  <2> HIDE DEF Steps, RaftInv
  <2> QED
    BY <1>2, <2>1, <2>2, QuietKeepsSafety
<1>4. CASE ~isOutdated(i, p)
  <2>1. PICK kept : kept = IF p.index > lastIndex(l) THEN <<>>
                           ELSE dropThrough(l, p.index)
    OBVIOUS
  <2>2. PICK new : new = [index |-> p.index, term |-> p.term, entries |-> kept]
    OBVIOUS
  <2>3. /\ logs' = [logs EXCEPT ![i] = new]
        /\ commitIndex' = [commitIndex EXCEPT ![i] = p.index]
        /\ ~(p.index <= commitIndex[i])
    BY <1>1, <1>4, <2>1, <2>2 DEF CondInstallSnapshot, isOutdated
  <2>4. /\ logs'[i] = new /\ commitIndex'[i] = p.index
        /\ \A h \in Server \ {i} : UNCHANGED <<logs[h], commitIndex[h]>>
    BY <2>3 DEF TypeInv, NodeTypes
  <2>5. /\ l.index \in Nat /\ lastIndex(l) \in Nat /\ p.index \in Nat
        /\ commitIndex[i] \in Nat /\ l.index <= commitIndex[i]
        /\ l.index < p.index
        /\ isSettled(p.index, currentTerm[i]) /\ p.term = committedTerm(p.index)
    <3>1. /\ l.index \in Nat /\ lastIndex(l) \in Nat /\ p.index \in Nat
          /\ commitIndex[i] \in Nat /\ l.index <= commitIndex[i]
      <4>1. p \in SnapshotMsg
        BY DEF TypeInv, NodeTypes
      <4> QED
        BY <1>1, <4>1, NodeLogs DEF SafetyInv, SnapshotMsg
    <3>2. isTrueSnapshot(p, currentTerm[i])
      BY DEF SafetyInv, SnapshotsSettled
    <3> QED
      BY <2>3, <3>1, <3>2 DEF isTrueSnapshot
  <2>6. /\ new \in Logs /\ new.index = p.index /\ new.term = p.term
        /\ new.entries = kept /\ lastIndex(new) = p.index + Len(kept)
    BY <2>2, <2>4 DEF TypeInv, NodeTypes, lastIndex
  <2>7. /\ lastIndex(new) = IF p.index > lastIndex(l) THEN p.index ELSE lastIndex(l)
        /\ \A n \in (p.index + 1)..lastIndex(l) : entryAt(new, n) = entryAt(l, n)
    <3>1. CASE p.index > lastIndex(l)
      BY <2>1, <2>5, <2>6, <3>1
    <3>2. CASE ~(p.index > lastIndex(l))
      <4>1. /\ kept = dropThrough(l, p.index)
            /\ Len(kept) = lastIndex(l) - p.index
            /\ \A n \in 1..(lastIndex(l) - p.index) : kept[n] = entryAt(l, p.index + n)
        BY <2>1, <2>5, <3>2, DropEntries
      <4>2. ASSUME NEW n \in (p.index + 1)..lastIndex(l)
            PROVE  entryAt(new, n) = entryAt(l, n)
        <5>1. n - p.index \in 1..(lastIndex(l) - p.index)
              /\ p.index + (n - p.index) = n
          BY <2>5
        <5>2. entryAt(new, n) = kept[n - p.index]
          BY <2>6 DEF entryAt
        <5> QED
          BY <4>1, <5>1, <5>2
      <4>3. lastIndex(new) = lastIndex(l)
        BY <2>5, <2>6, <4>1
      <4> QED
        BY <3>2, <4>2, <4>3
    <3> QED
      BY <3>1, <3>2
  <2>8. isCompacted(l, new, currentTerm[i])
    BY <2>5, <2>6, <2>7 DEF isCompacted
  <2>9. p.index <= lastIndex(new) /\ committedPrefix(new, p.index)
    BY <2>5, <2>6, <2>7 DEF committedPrefix
  <2> HIDE DEF Steps, RaftInv
  <2> QED
    BY <1>1, <1>2, <2>4, <2>5, <2>8, <2>9, CompactionIsSafe
<1> QED
  BY <1>3, <1>4

-----------------------------------------------------------------------------
(* The follower's log *)

\* The entries are all in the log, and it stays.
isRepeated(l, prev, entries, new) ==
  /\ new = l /\ prev + Len(entries) <= lastIndex(l)
  /\ \A n \in 1..Len(entries) : termAt(l, prev + n) = entries[n].term

\* From the entry first on, they take the place of what the log has there.
isReplaced(l, prev, entries, new, first) ==
  /\ prev + first - 1 <= lastIndex(l)
  /\ \A n \in 1..(first - 1) : termAt(l, prev + n) = entries[n].term
  /\ prev + first > lastIndex(l) \/ termAt(l, prev + first) # entries[first].term
  /\ lastIndex(new) = prev + Len(entries)
  /\ \A q \in (l.index + 1)..(prev + first - 1) : entryAt(new, q) = entryAt(l, q)
  /\ \A n \in first..Len(entries) : entryAt(new, prev + n) = entries[n]

\* What appendEntries keeps of the log l and takes from the request's entries.
LEMMA AppendedEntries ==
  ASSUME NEW l \in Logs, NEW entries \in Seq(Entry),
         NEW prev \in l.index..lastIndex(l), NEW new,
         new = appendEntries(l, prev, entries)
  PROVE  /\ new.index = l.index /\ new.term = l.term
         /\ \/ isRepeated(l, prev, entries, new)
            \/ \E first \in 1..Len(entries) : isReplaced(l, prev, entries, new, first)
<1> DEFINE fresh == newEntries(l, prev, entries)
<1>1. /\ l.index \in Nat /\ l.entries \in Seq(Entry) /\ prev \in Nat
      /\ lastIndex(l) = l.index + Len(l.entries) /\ lastIndex(l) \in Nat
      /\ l.index <= prev /\ prev <= lastIndex(l) /\ Len(entries) \in Nat
  BY LogTypes
<1>2. CASE fresh = {}
  <2>1. new = l
    BY <1>2 DEF appendEntries
  <2>2. ASSUME NEW n \in 1..Len(entries)
        PROVE  prev + n <= lastIndex(l) /\ termAt(l, prev + n) = entries[n].term
    <3>1. ~isNewEntry(l, prev, entries, n)
      BY <1>2 DEF newEntries
    <3> QED
      BY <1>1, <3>1 DEF isNewEntry
  <2>3. prev + Len(entries) <= lastIndex(l)
    <3>1. CASE Len(entries) = 0
      BY <1>1, <3>1
    <3>2. CASE Len(entries) # 0
      BY <1>1, <2>2, <3>2
    <3> QED
      BY <3>1, <3>2
  <2> QED
    BY <2>1, <2>2, <2>3 DEF isRepeated
<1>3. CASE fresh # {}
  <2>1. fresh \in SUBSET Nat
    BY DEF newEntries
  <2>2. PICK first : first = Min(fresh)
    OBVIOUS
  <2>3. first \in fresh /\ \A n \in fresh : first <= n
    BY <1>3, <2>1, <2>2, MinOfNats
  <2>4. /\ first \in 1..Len(entries)
        /\ \/ prev + first > lastIndex(l)
           \/ termAt(l, prev + first) # entries[first].term
    BY <2>3 DEF newEntries, isNewEntry
  <2>5. ASSUME NEW n \in 1..(first - 1)
        PROVE  prev + n <= lastIndex(l) /\ termAt(l, prev + n) = entries[n].term
    <3>1. n \in 1..Len(entries) /\ ~(first <= n)
      BY <2>4
    <3>2. n \notin fresh
      BY <2>3, <3>1
    <3>3. ~isNewEntry(l, prev, entries, n)
      BY <3>1, <3>2 DEF newEntries
    <3> QED
      BY <1>1, <3>1, <3>3 DEF isNewEntry
  <2>6. prev + first - 1 <= lastIndex(l)
    <3>1. CASE first = 1
      BY <1>1, <3>1
    <3>2. CASE first # 1
      <4>1. first - 1 \in 1..(first - 1)
        BY <2>4, <3>2
      <4>2. prev + (first - 1) <= lastIndex(l)
        BY <2>5, <4>1
      <4> QED
        BY <1>1, <2>4, <4>2
    <3> QED
      BY <3>1, <3>2
  <2>7. PICK kept : kept = SubSeq(l.entries, 1, prev + first - 1 - l.index)
    OBVIOUS
  <2>8. PICK sent : sent = SubSeq(entries, first, Len(entries))
    OBVIOUS
  <2>9. new = withEntries(l, kept \o sent)
    <3>1. ~(newEntries(l, prev, entries) = {})
      BY <1>3
    <3> QED
      BY <2>2, <2>7, <2>8, <3>1, Zenon DEF appendEntries
  <2>10. new.index = l.index /\ new.term = l.term /\ new.entries = kept \o sent
    BY <2>9 DEF withEntries
  <2>11. PICK size \in Nat : size = prev + first - 1 - l.index
    BY <1>1, <2>4
  <2>12. size <= Len(l.entries)
    BY <1>1, <2>4, <2>6, <2>11
  <2>13. /\ kept \in Seq(Entry) /\ Len(kept) = size
         /\ \A n \in 1..size : kept[n] = l.entries[n]
    <3>1. kept = SubSeq(l.entries, 1, size)
      BY <2>7, <2>11
    <3> QED
      BY <1>1, <2>12, <3>1
  <2>14. /\ sent \in Seq(Entry) /\ Len(sent) = Len(entries) - first + 1
         /\ \A n \in 1..(Len(entries) - first + 1) : sent[n] = entries[first + n - 1]
    BY <2>4, <2>8
  <2>15. PICK all : all = kept \o sent
    OBVIOUS
  <2>16. /\ Len(all) = size + Len(entries) - first + 1
         /\ \A n \in 1..size : all[n] = l.entries[n]
         /\ \A n \in 1..(Len(entries) - first + 1) :
              all[size + n] = entries[first + n - 1]
    <3>1. /\ Len(all) = Len(kept) + Len(sent)
          /\ \A n \in 1..(Len(kept) + Len(sent)) :
               all[n] = IF n <= Len(kept) THEN kept[n] ELSE sent[n - Len(kept)]
      BY <2>13, <2>14, <2>15, ConcatProperties
    <3>2. ASSUME NEW n \in 1..(Len(entries) - first + 1)
          PROVE  all[size + n] = entries[first + n - 1]
      <4>1. /\ size + n \in 1..(Len(kept) + Len(sent)) /\ ~(size + n <= Len(kept))
            /\ size + n - Len(kept) = n
        BY <2>4, <2>13, <2>14
      <4> QED
        BY <2>14, <3>1, <4>1, SMTT(30)
    <3>3. ASSUME NEW n \in 1..size PROVE all[n] = l.entries[n]
      <4>1. n \in 1..(Len(kept) + Len(sent)) /\ n <= Len(kept)
        BY <2>4, <2>13, <2>14
      <4> QED
        BY <2>13, <3>1, <4>1
    <3> QED
      BY <2>4, <2>13, <2>14, <3>1, <3>2, <3>3
  <2>17. lastIndex(new) = prev + Len(entries)
    <3>1. lastIndex(new) = l.index + Len(all)
      BY <2>10, <2>15 DEF lastIndex
    <3>2. l.index + (size + Len(entries) - first + 1) = prev + Len(entries)
      <4>1. first \in Nat /\ Len(entries) \in Nat
        BY <1>1, <2>4
      <4> QED
        BY <1>1, <2>11, <4>1, SMTT(30)
    <3> QED
      BY <2>16, <3>1, <3>2, Zenon
  <2>18. ASSUME NEW q \in (l.index + 1)..(prev + first - 1)
         PROVE  entryAt(new, q) = entryAt(l, q)
    <3>1. q - l.index \in 1..size
      BY <1>1, <2>4, <2>11, SMTT(30)
    <3> QED
      BY <2>10, <2>15, <2>16, <3>1 DEF entryAt
  <2>19. ASSUME NEW n \in first..Len(entries)
         PROVE  entryAt(new, prev + n) = entries[n]
    <3>1. PICK q : q = prev + n
      OBVIOUS
    <3>2. /\ n - first + 1 \in 1..(Len(entries) - first + 1)
          /\ q - l.index = size + (n - first + 1)
          /\ first + (n - first + 1) - 1 = n
      BY <1>1, <2>4, <2>11, <3>1, SMTT(30)
    <3>3. all[size + (n - first + 1)] = entries[first + (n - first + 1) - 1]
      BY <2>16, <3>2
    <3>4. entryAt(new, q) = all[q - l.index]
      BY <2>10, <2>15 DEF entryAt
    <3> QED
      BY <3>1, <3>2, <3>3, <3>4
  <2> QED
    BY <2>4, <2>5, <2>6, <2>10, <2>17, <2>18, <2>19 DEF isReplaced
<1> QED
  BY <1>2, <1>3

\* The log new has the ledger of t up to k.  What it lacks of l contradicted that.
isExtended(l, new, t, k) ==
  /\ new.index = l.index /\ new.term = l.term /\ hasPrefix(new, t, k)
  /\ \/ new = l
     \/ /\ lastIndex(new) = k
        /\ \E d \in (l.index + 1)..k : d > lastIndex(l) \/ entryAt(l, d) # ledger[t][d]

LEMMA AcceptedLog ==
  ASSUME RaftInv, NEW m \in messages, m.type = "AppendEntries", NEW l, NEW new,
         l = logs[m.to], m.term >= currentTerm[m.to], m.prevLogIndex >= l.index,
         matchLog(l, m.prevLogTerm, m.prevLogIndex),
         new = appendEntries(l, m.prevLogIndex, m.entries)
  PROVE  isExtended(l, new, m.term, reach(m))
<1> USE DEF RaftInv, SafetyInv
<1>1. PICK t : t = m.term
  OBVIOUS
<1>2. PICK prev : prev = m.prevLogIndex
  OBVIOUS
<1>3. PICK entries : entries = m.entries
  OBVIOUS
<1>4. PICK term : term = currentTerm[m.to]
  OBVIOUS
<1>5. /\ prev \in Nat /\ entries \in Seq(Entry) /\ Len(entries) \in Nat
      /\ t \in Nat /\ reach(m) = prev + Len(entries) /\ m.to \in Server
  <2>1. m \in AppendRequest
    BY MessageKinds DEF TypeInv
  <2> QED
    BY <1>1, <1>2, <1>3, <2>1 DEF AppendRequest, reach
<1>6. isTrueAppend(m)
  BY DEF TrafficTrue, isTrue
<1>7. /\ t \in DOMAIN ledger /\ prev + Len(entries) <= Len(ledger[t])
      /\ \A n \in 1..Len(entries) : entries[n] = ledger[t][prev + n]
      /\ m.prevLogTerm = ledgerTerm(t, prev) /\ Len(ledger[t]) \in Nat
  BY <1>1, <1>2, <1>3, <1>5, <1>6, LedgerEntries DEF isTrueAppend
<1>8. /\ isNodeLog(l, term) /\ l \in Logs /\ l.index \in Nat
      /\ lastIndex(l) \in Nat /\ term \in Nat /\ term <= t
  BY <1>1, <1>4, <1>5, NodeLogs
<1>9. prev \in l.index..lastIndex(l) /\ termAt(l, prev) = ledgerTerm(t, prev)
  BY <1>2, <1>5, <1>7, <1>8 DEF matchLog
<1>10. new = appendEntries(l, prev, entries)
  BY <1>2, <1>3
\* Where the request matched, the log has the ledger already.
<1>11. ASSUME NEW n \in 0..Len(entries), prev + n <= lastIndex(l),
              \A q \in 1..n : termAt(l, prev + q) = entries[q].term
       PROVE  hasPrefix(l, t, prev + n)
  <2>1. PICK k \in l.index..lastIndex(l) : k = prev + n /\ k <= Len(ledger[t])
    BY <1>5, <1>7, <1>8, <1>9, <1>11
  <2>2. ASSUME k # l.index PROVE termAt(l, k) = ledger[t][k].term
    <3>1. CASE n = 0
      BY <1>5, <1>8, <1>9, <2>1, <2>2, <3>1 DEF ledgerTerm
    <3>2. CASE n # 0
      BY <1>7, <1>11, <2>1, <3>2
    <3> QED
      BY <3>1, <3>2
  <2>3. hasPrefix(l, t, k)
    BY <1>7, <1>8, <2>1, <2>2, MatchAt
  <2> QED
    BY <2>1, <2>3
<1>12. new.index = l.index /\ new.term = l.term
  BY <1>5, <1>8, <1>9, <1>10, AppendedEntries
<1>13. CASE isRepeated(l, prev, entries, new)
  <2>1. hasPrefix(l, t, prev + Len(entries))
    BY <1>5, <1>11, <1>13 DEF isRepeated
  <2> QED
    BY <1>1, <1>5, <1>12, <1>13, <2>1 DEF isExtended, isRepeated
<1>14. ASSUME NEW first \in 1..Len(entries),
              isReplaced(l, prev, entries, new, first)
       PROVE  isExtended(l, new, m.term, reach(m))
  <2>1. PICK k \in Nat : k = prev + Len(entries)
    BY <1>5
  <2>2. PICK d \in Nat : d = prev + first
    BY <1>5
  <2>3. /\ first \in Nat /\ first - 1 \in 0..Len(entries)
        /\ prev + (first - 1) = d - 1 /\ d - 1 <= lastIndex(l) /\ d <= k
        /\ d \in (l.index + 1)..k /\ d - 1 \in Nat
    <3>1. /\ first \in Nat /\ Len(entries) \in Nat /\ first <= Len(entries)
          /\ first >= 1 /\ prev \in Nat /\ l.index \in Nat /\ l.index <= prev
      BY <1>5, <1>8, <1>9
    <3>2. prev + first - 1 <= lastIndex(l)
      BY <1>14 DEF isReplaced
    <3> QED
      BY <2>1, <2>2, <3>1, <3>2
  <2>4. hasPrefix(l, t, d - 1)
    BY <1>11, <1>14, <2>3 DEF isReplaced
  <2>5. ASSUME NEW n \in 1..k PROVE wholeEntry(new, n) = ledger[t][n]
    <3>1. CASE n <= d - 1
      <4>1. wholeEntry(l, n) = ledger[t][n]
        BY <2>3, <2>4, <3>1 DEF hasPrefix
      <4>2. n > l.index => entryAt(new, n) = entryAt(l, n)
        BY <1>8, <1>14, <2>2, <2>3, <3>1 DEF isReplaced
      <4> QED
        BY <1>8, <1>12, <4>1, <4>2 DEF wholeEntry
    <3>2. CASE n > d - 1
      <4>1. n - prev \in first..Len(entries) /\ prev + (n - prev) = n
            /\ n - prev \in 1..Len(entries)
        BY <1>5, <2>1, <2>2, <3>2
      <4>2. entryAt(new, n) = entries[n - prev]
        BY <1>14, <4>1 DEF isReplaced
      <4>3. entries[n - prev] = ledger[t][n]
        BY <1>7, <4>1
      <4>4. ~(n <= new.index)
        BY <1>8, <1>12, <2>3, <3>2
      <4> QED
        BY <4>2, <4>3, <4>4 DEF wholeEntry
    <3> QED
      BY <2>3, <3>1, <3>2
  <2>6. hasPrefix(new, t, k)
    BY <1>7, <1>14, <2>1, <2>5 DEF hasPrefix, isReplaced
  <2>7. d > lastIndex(l) \/ entryAt(l, d) # ledger[t][d]
    <3>1. CASE d > lastIndex(l)
      BY <3>1
    <3>2. CASE termAt(l, d) # entries[first].term
      <4>1. entries[first] = ledger[t][d]
        BY <1>7, <2>2
      <4>2. termAt(l, d) = entryAt(l, d).term
        BY <1>8, <2>3 DEF termAt, entryAt
      <4> QED
        BY <3>2, <4>1, <4>2
    <3> QED
      BY <1>14, <2>2, <3>1, <3>2 DEF isReplaced
  <2> QED
    BY <1>1, <1>5, <1>12, <1>14, <2>1, <2>3, <2>6, <2>7
       DEF isExtended, isReplaced
<1> QED
  BY <1>5, <1>8, <1>9, <1>10, <1>13, <1>14, AppendedEntries

\* What the log and the ledger agree on is kept.
LEMMA ExtendedPrefix ==
  ASSUME NEW l \in Logs, NEW new \in Logs, NEW t, NEW k \in Nat,
         isExtended(l, new, t, k), NEW n \in Nat, hasPrefix(l, t, n)
  PROVE  hasPrefix(new, t, n) /\ (new = l \/ n < k)
<1>1. CASE new = l
  BY <1>1
<1>2. CASE new # l
  <2>1. l.index \in Nat /\ lastIndex(l) \in Nat
    BY LogTypes
  <2>2. PICK d \in (l.index + 1)..k : d > lastIndex(l) \/ entryAt(l, d) # ledger[t][d]
    BY <1>2 DEF isExtended
  <2>3. n < d
    <3>1. d \in Nat /\ l.index < d /\ d # 0
      BY <2>1
    <3> SUFFICES ASSUME d <= n
                 PROVE  FALSE
      BY <3>1
    <3>2. n <= lastIndex(l) /\ \A q \in 1..n : wholeEntry(l, q) = ledger[t][q]
      BY DEF hasPrefix
    <3>3. d \in 1..n /\ ~(d <= l.index) /\ ~(d > lastIndex(l))
      BY <2>1, <3>1, <3>2
    <3>4. entryAt(l, d) = ledger[t][d]
      BY <3>2, <3>3 DEF wholeEntry
    <3> QED
      BY <2>2, <3>3, <3>4
  <2>4. n < k /\ hasPrefix(new, t, k) /\ lastIndex(new) = k
    BY <1>2, <2>1, <2>3 DEF isExtended
  <2>5. n <= lastIndex(new) /\ n <= Len(ledger[t])
    BY <2>4 DEF hasPrefix
  <2>6. \A q \in 1..n : wholeEntry(new, q) = ledger[t][q]
    BY <2>4 DEF hasPrefix
  <2> QED
    BY <2>4, <2>5, <2>6 DEF hasPrefix
<1> QED
  BY <1>1, <1>2

\* A follower keeps what it holds of other terms that is not blocked.
LEMMA ExtendedHolds ==
  ASSUME LedgerTypes, LedgersMatch, LedgersSafe, NEW term \in Nat, NEW l,
         isNodeLog(l, term), NEW new \in Logs, NEW u \in DOMAIN ledger,
         term <= u, NEW c \in Nat, isExtended(l, new, u, c),
         NEW t, NEW k, isOwn(t, k), holds(l, t, k), ~isBlocked(t, k)
  PROVE  holds(new, t, k)
<1>1. /\ l \in Logs /\ l.index \in Nat /\ lastIndex(l) \in Nat
      /\ lastTerm(l) \in Nat /\ lastTerm(l) <= term
  BY LogTypes, LastEntry DEF isNodeLog
<1>2. /\ t \in DOMAIN ledger /\ k \in Nat \ {0} /\ k <= Len(ledger[t])
      /\ t \in Nat /\ u \in Nat /\ ledger[t][k].term = t
      /\ Len(ledger[u]) \in Nat /\ Len(ledger[t]) \in Nat
  BY LedgerEntries DEF isOwn
<1>3. t <= u
  BY <1>1, <1>2 DEF holds
<1>4. sameLedger(t, u, k)
  BY <1>2, <1>3, LaterLedgers
<1>5. hasPrefix(l, u, k)
  BY <1>2, <1>4 DEF holds, hasPrefix, sameLedger
<1>6. hasPrefix(new, u, k) /\ (new = l \/ k < c)
  BY <1>1, <1>2, <1>5, ExtendedPrefix
<1>7. hasPrefix(new, t, k)
  BY <1>2, <1>4, <1>6 DEF hasPrefix, sameLedger
<1>8. CASE new = l
  BY <1>8
<1>9. CASE new # l
  <2>1. k < c /\ lastIndex(new) = c /\ hasPrefix(new, u, c) /\ new.index < c
    BY <1>1, <1>6, <1>9 DEF isExtended
  <2>2. c \in 1..Len(ledger[u]) /\ k \in 1..c
    BY <1>2, <2>1 DEF hasPrefix
  <2>3. entryAt(new, c) = ledger[u][c]
    BY <1>1, <2>1, <2>2 DEF hasPrefix, wholeEntry, isExtended
  <2>4. lastTerm(new) = ledger[u][c].term
    BY <1>1, <2>1, <2>3 DEF lastTerm, termAt, entryAt, isExtended
  <2>5. ledger[u][k].term <= ledger[u][c].term
    BY <2>2, TermsSorted
  <2>6. ledger[u][k].term = t
    BY <1>2, <1>4, <2>2 DEF sameLedger
  <2>7. ledger[u][c].term \in Nat
    BY <2>2, LedgerEntries
  <2> QED
    BY <1>2, <1>7, <2>4, <2>5, <2>6, <2>7 DEF holds
<1> QED
  BY <1>8, <1>9

LEMMA ExtendedNodeLog ==
  ASSUME LedgerTypes, LedgersMatch, committed \in Seq(Entry), NEW term \in Nat,
         NEW l, isNodeLog(l, term), NEW new \in Logs, NEW u \in DOMAIN ledger,
         term <= u, NEW c \in Nat, isExtended(l, new, u, c)
  PROVE  isNodeLog(new, u)
<1>1. /\ l \in Logs /\ l.index \in Nat /\ lastIndex(l) \in Nat /\ u \in Nat
      /\ Len(ledger[u]) \in Nat
      /\ new.index = l.index /\ new.term = l.term
      /\ isSettled(l.index, term) /\ l.term = committedTerm(l.index)
  BY LogTypes, LedgerEntries DEF isNodeLog, isExtended
<1>2. isSettled(new.index, u)
  BY <1>1, SettledBefore
<1>3. CASE new = l
  <2>1. \A n \in (l.index + 1)..lastIndex(l) : termAt(l, n) <= u
    <3> SUFFICES ASSUME NEW n \in (l.index + 1)..lastIndex(l)
                 PROVE  termAt(l, n) <= u
      OBVIOUS
    <3>1. termAt(l, n) <= term /\ termAt(l, n) \in Nat
      BY <1>1, TermTypes DEF isNodeLog
    <3> QED
      BY <1>1, <3>1
  <2> QED
    BY <1>1, <1>2, <1>3, <2>1 DEF isNodeLog
<1>4. CASE new # l
  <2>1. lastIndex(new) = c /\ hasPrefix(new, u, c)
    BY <1>4 DEF isExtended
  <2>2. ASSUME NEW q \in (new.index + 1)..c
        PROVE  q \in 1..Len(ledger[u]) /\ entryAt(new, q) = ledger[u][q]
    BY <1>1, <2>1 DEF hasPrefix, wholeEntry
  <2>3. ASSUME NEW n \in (new.index + 1)..c
        PROVE  LET t == termAt(new, n) IN
               /\ t <= u /\ isOwn(t, n)
               /\ \A q \in (new.index + 1)..n : entryAt(new, q) = ledger[t][q]
    <3> DEFINE t == termAt(new, n)
    <3>1. t = ledger[u][n].term
      BY <1>1, <2>2 DEF termAt, entryAt
    <3>2. t <= u /\ isOwn(t, n) /\ sameLedger(t, u, n)
      BY <2>2, <3>1 DEF LedgersMatch
    <3> HIDE DEF t
    <3>3. ASSUME NEW q \in (new.index + 1)..n PROVE entryAt(new, q) = ledger[t][q]
      BY <1>1, <2>2, <3>2, SMTT(30) DEF sameLedger
    <3> QED
      BY <3>2, <3>3 DEF t
  <2> QED
    BY <1>1, <1>2, <2>1, <2>3 DEF isNodeLog
<1> QED
  BY <1>3, <1>4

\* What it knows to be committed up to k stays, and what the ledger has of it is.
LEMMA ExtendedCommitted ==
  ASSUME LedgerTypes, LedgersSafe, NEW l \in Logs, NEW new \in Logs,
         NEW u \in DOMAIN ledger, NEW c \in Nat, isExtended(l, new, u, c),
         NEW term \in Nat, term <= u, NEW k \in Nat, isSettled(k, term)
  PROVE  /\ l.index <= k /\ k <= lastIndex(l) /\ committedPrefix(l, k)
            /\ isSettled(l.index, term)
              => k <= lastIndex(new) /\ committedPrefix(new, k)
         /\ k <= c => k <= lastIndex(new) /\ committedPrefix(new, k)
<1>1. /\ l.index \in Nat /\ lastIndex(l) \in Nat /\ new.index = l.index
      /\ hasPrefix(new, u, c)
  BY LogTypes DEF isExtended
<1>2. k <= Len(ledger[u]) /\ \A n \in 1..k : committed[n] = ledger[u][n]
  BY SettledInLater
<1>3. ASSUME hasPrefix(new, u, k)
      PROVE  k <= lastIndex(new) /\ committedPrefix(new, k)
  <2>1. k <= lastIndex(new)
    BY <1>3 DEF hasPrefix
  <2>2. ASSUME NEW n \in (new.index + 1)..k PROVE entryAt(new, n) = committed[n]
    BY <1>1, <1>2, <1>3 DEF hasPrefix, wholeEntry
  <2> QED
    BY <2>1, <2>2 DEF committedPrefix
<1>4. ASSUME l.index <= k, k <= lastIndex(l), committedPrefix(l, k),
             isSettled(l.index, term)
      PROVE  hasPrefix(l, u, k)
  <2>1. \A q \in (l.index + 1)..k : entryAt(l, q) = ledger[u][q]
    BY <1>1, <1>2, <1>4 DEF committedPrefix
  <2> QED
    BY <1>2, <1>4, <2>1, PrefixOfLedger
<1>5. ASSUME k <= c PROVE hasPrefix(new, u, k)
  <2>1. k <= lastIndex(new)
    <3>1. c <= lastIndex(new) /\ lastIndex(new) \in Nat
      BY <1>1, LogTypes DEF hasPrefix
    <3> QED
      BY <1>5, <3>1
  <2>2. \A n \in 1..k : wholeEntry(new, n) = ledger[u][n]
    BY <1>1, <1>5 DEF hasPrefix
  <2> QED
    BY <1>2, <2>1, <2>2 DEF hasPrefix
<1> QED
  BY <1>3, <1>4, <1>5, ExtendedPrefix

\* What the answer of a follower says that it has stored, it secures, or it has
\* been chosen.
LEMMA ExtendedSecures ==
  ASSUME LedgerTypes, LedgersMatch, LedgersSafe, NEW term \in Nat,
         NEW l, isNodeLog(l, term), NEW new, NEW u \in DOMAIN ledger, term <= u,
         isNodeLog(new, u), NEW c \in Nat, isExtended(l, new, u, c),
         NEW k \in 1..c, isOwn(u, k), lastTerm(new) < u
  PROVE  isChosen(u, k)
<1>1. /\ l \in Logs /\ l.index \in Nat /\ new \in Logs /\ new.index = l.index
      /\ lastIndex(new) \in Nat /\ hasPrefix(new, u, c) /\ u \in Nat
      /\ k \in Nat /\ k # 0 /\ k <= c
  BY LogTypes, LedgerEntries DEF isNodeLog, isExtended
<1>2. /\ k <= lastIndex(new) /\ wholeEntry(new, k) = ledger[u][k]
      /\ ledger[u][k].term = u /\ k \in 1..Len(ledger[u])
  BY <1>1 DEF hasPrefix, isOwn
<1>3. CASE k > l.index
  <2>1. PICK s \in Nat : s = lastTerm(new)
    BY <1>1, LastEntry
  <2>2. isOwn(s, lastIndex(new)) /\ entryAt(new, k) = ledger[s][k]
    <3>1. lastIndex(new) # 0 /\ k \in (new.index + 1)..lastIndex(new)
      BY <1>1, <1>2, <1>3
    <3> QED
      BY <1>1, <2>1, <3>1, LastEntry
  <2>3. s \in DOMAIN ledger /\ k \in 1..Len(ledger[s]) /\ ledger[s][k].term = u
    <3>1. s \in DOMAIN ledger /\ k \in 1..Len(ledger[s])
      BY <1>1, <1>2, <2>2, LedgerEntries DEF isOwn
    <3> QED
      BY <1>1, <1>2, <1>3, <2>2, <3>1 DEF wholeEntry
  <2>4. u <= s
    BY <2>3 DEF LedgersMatch
  <2> QED
    BY <1>1, <2>1, <2>4
<1>4. CASE k <= l.index
  <2>1. isSettled(l.index, term)
    BY DEF isNodeLog
  <2>2. PICK s \in DOMAIN ledger : /\ s <= term /\ committedIs(s, l.index)
                                   /\ \E n \in l.index..Len(ledger[s]) : isChosen(s, n)
    BY <1>1, <1>4, <2>1 DEF isSettled
  <2>3. PICK n \in l.index..Len(ledger[s]) : isChosen(s, n)
    BY <2>2
  <2>4. committed[k] = ledger[u][k] /\ k \in 1..l.index
    BY <1>1, <1>4, <2>1, SettledInLater
  <2>5. ledger[s][k].term = u /\ k \in 1..Len(ledger[s]) /\ s \in Nat
    BY <1>1, <1>2, <1>4, <2>2, <2>4, LedgerEntries, SMTT(30) DEF committedIs
  <2>6. u <= s
    BY <2>5 DEF LedgersMatch
  <2>7. s = u
    BY <1>1, <2>2, <2>5, <2>6
  <2>8. n \in Nat /\ k <= n
    BY <1>1, <1>4, <2>3
  <2> QED
    BY <2>3, <2>7, <2>8, ChosenBefore
<1> QED
  BY <1>1, <1>3, <1>4

\* The follower accepts the request m, after which its log is new.
accepts(m, new) ==
  LET i == m.to
      t == m.term
  IN
  /\ i \in Server /\ t \in Nat /\ reach(m) \in Nat /\ m.leaderCommit \in Nat
  /\ isTrueAppend(m) /\ currentTerm[i] <= t
  /\ logs'[i] = new /\ new \in Logs /\ isExtended(logs[i], new, t, reach(m))
  /\ state'[i] = "Follower" /\ currentTerm'[i] = t
  /\ commitIndex'[i] = Max({commitIndex[i], Min({m.leaderCommit, lastIndex(new)})})
  /\ \A h \in Server \ {i} :
       UNCHANGED <<state[h], currentTerm[h], logs[h], commitIndex[h]>>
  /\ UNCHANGED <<matchIndex, applyCh, votes, committed, ledger>>
  /\ acks' = acks \cup {<<t, i, reach(m), lastTerm(new)>>}
  /\ \E r : /\ messages' = (messages \ {m}) \cup {r}
            /\ r.type = "AppendEntriesResponse" /\ r.from = i /\ r.reqTerm = t
            /\ reach(r) = reach(m)

LEMMA AcceptedStep ==
  ASSUME Steps, NEW m \in messages, AppendEntries(m), AcceptAppend(m)
  PROVE  accepts(m, logs'[m.to])
<1> USE DEF Steps, RaftInv
<1>1. PICK i : i = m.to
  OBVIOUS
<1>2. PICK new : new = appendEntries(logs[i], m.prevLogIndex, m.entries)
  OBVIOUS
<1>3. /\ m.type = "AppendEntries" /\ m.term >= currentTerm[i]
      /\ m.prevLogIndex >= logs[i].index
      /\ matchLog(logs[i], m.prevLogTerm, m.prevLogIndex)
      /\ logs' = [logs EXCEPT ![i] = new]
      /\ commitIndex' = [commitIndex EXCEPT ![i] =
                           Max({@, Min({m.leaderCommit, lastIndex(new)})})]
      /\ currentTerm' = [currentTerm EXCEPT ![i] = m.term]
      /\ state' = [state EXCEPT ![i] = "Follower"]
      /\ messages' = (messages \ {m}) \cup {appendResponse(m, m.term, TRUE, 0, 0)}
      /\ acks' = acks \cup {<<m.term, i, m.prevLogIndex + Len(m.entries),
                              termAt(new, lastIndex(new))>>}
      /\ UNCHANGED <<matchIndex, applyCh, votes, committed, ledger>>
  BY <1>1, <1>2 DEF AppendEntries, AcceptAppend, followLeader, adoptTerm, Reply,
     leaderVars
<1>4. /\ i \in Server /\ m.term \in Nat /\ m.leaderCommit \in Nat
      /\ reach(m) = m.prevLogIndex + Len(m.entries) /\ reach(m) \in Nat
  <2>1. m \in AppendRequest
    BY <1>3, MessageKinds DEF TypeInv
  <2> QED
    BY <1>1, <1>3, <2>1 DEF AppendRequest, reach
<1>5. isTrueAppend(m)
  BY <1>3 DEF SafetyInv, TrafficTrue, isTrue
<1>6. /\ logs'[i] = new /\ new \in Logs /\ currentTerm'[i] = m.term
      /\ state'[i] = "Follower"
      /\ commitIndex'[i] = Max({commitIndex[i], Min({m.leaderCommit, lastIndex(new)})})
      /\ \A h \in Server \ {i} :
           UNCHANGED <<state[h], currentTerm[h], logs[h], commitIndex[h]>>
  BY <1>3, <1>4 DEF TypeInv, NodeTypes
<1>7. isExtended(logs[i], new, m.term, reach(m))
  <2> HIDE DEF Steps, RaftInv
  <2> QED
    BY <1>1, <1>2, <1>3, AcceptedLog DEF Steps
<1>8. PICK r : r = appendResponse(m, m.term, TRUE, 0, 0)
  OBVIOUS
<1>9. /\ r.type = "AppendEntriesResponse" /\ r.from = i /\ r.reqTerm = m.term
      /\ reach(r) = m.prevLogIndex + Len(m.entries)
  BY <1>1, <1>8 DEF appendResponse, reach
<1>10. acks' = acks \cup {<<m.term, i, reach(m), lastTerm(new)>>}
  BY <1>3, <1>4 DEF lastTerm
<1>11. m.term >= currentTerm[i] /\ currentTerm[i] \in Nat
  BY <1>3, <1>4 DEF TypeInv, NodeTypes
<1>12. currentTerm[i] <= m.term
  BY <1>4, <1>11
<1>13. \E x : /\ messages' = (messages \ {m}) \cup {x}
             /\ x.type = "AppendEntriesResponse" /\ x.from = i /\ x.reqTerm = m.term
             /\ reach(x) = reach(m)
  BY <1>3, <1>4, <1>8, <1>9
<1> HIDE DEF Steps, RaftInv
<1> QED
  BY <1>1, <1>3, <1>4, <1>5, <1>6, <1>7, <1>10, <1>12, <1>13 DEF accepts

LEMMA AcceptContinues ==
  ASSUME Steps, NEW m \in messages, NEW new, accepts(m, new)
  PROVE  Continues /\ NoNewCandidates /\ NoNewLeaders
<1> USE DEF Steps, RaftInv
<1>1. PICK i \in Server : i = m.to
  BY DEF accepts
<1>2. PICK t \in Nat : t = m.term
  BY DEF accepts
<1>3. PICK c \in Nat : c = reach(m)
  BY DEF accepts
<1>4. PICK l : l = logs[i]
  OBVIOUS
<1>5. PICK term \in Nat : term = currentTerm[i]
  BY DEF TypeInv, NodeTypes
<1>6. /\ term <= t /\ logs'[i] = new /\ new \in Logs /\ isExtended(l, new, t, c)
      /\ state'[i] = "Follower" /\ currentTerm'[i] = t /\ isTrueAppend(m)
      /\ \A h \in Server \ {i} : UNCHANGED <<state[h], currentTerm[h], logs[h]>>
      /\ acks' = acks \cup {<<t, i, c, lastTerm(new)>>}
      /\ UNCHANGED <<ledger, committed, votes>>
  BY <1>1, <1>2, <1>3, <1>4, <1>5 DEF accepts
<1>7. /\ t \in DOMAIN ledger /\ isNodeLog(l, term) /\ l \in Logs
      /\ l.index <= Len(committed) /\ l.index \in Nat
  BY <1>2, <1>4, <1>5, <1>6, NodeLogs DEF SafetyInv, isTrueAppend
<1>8. Grows
  <2>1. committed \in Seq(Entry) /\ Len(committed) \in Nat
    BY DEF TypeInv, NodeTypes
  <2>2. \A u \in DOMAIN ledger : Len(ledger[u]) \in Nat
    BY LedgerEntries
  <2>3. \A a \in acks' \ acks : currentTerm[a[2]] <= a[1]
    <3>1. ASSUME NEW a \in acks' \ acks PROVE currentTerm[a[2]] <= a[1]
      <4>1. a = <<t, i, c, lastTerm(new)>>
        BY <1>6
      <4>2. a[1] = t /\ a[2] = i
        BY <4>1
      <4> QED
        BY <1>5, <1>6, <4>2
    <3> QED
      BY <3>1
  <2> QED
    BY <1>6, <2>1, <2>2, <2>3 DEF Grows
<1>9. KeepsLog(i)
  <2>1. ASSUME NEW u \in DOMAIN ledger, NEW k \in 1..Len(ledger[u]),
               isOwn(u, k), holds(l, u, k), ~isBlocked(u, k)
        PROVE  holds(new, u, k)
    BY <1>6, <1>7, <2>1, ExtendedHolds DEF SafetyInv
  <2>2. ASSUME NEW k \in Nat, hasPrefix(l, t, k)
        PROVE  hasPrefix(new, t, k)
    BY <1>6, <1>7, <2>2, ExtendedPrefix
  <2>3. new.index = l.index
    BY <1>6 DEF isExtended
  <2> QED
    BY <1>4, <1>5, <1>6, <1>7, <2>1, <2>2, <2>3 DEF KeepsLog
<1>10. \A j \in Server : KeepsLog(j)
  BY <1>6, <1>9, SameLogKept DEF SafetyInv
<1>11. NoNewCandidates /\ NoNewLeaders
  BY <1>6 DEF NoNewCandidates, NoNewLeaders
<1> QED
  BY <1>6, <1>8, <1>10, <1>11 DEF Continues, NoNewCandidates

\* What the follower acknowledges is true.
LEMMA AcceptAcks ==
  ASSUME Steps, NEW m \in messages, NEW new, accepts(m, new)
  PROVE  /\ AcksInRange' /\ AcksSecured' /\ StoredNow' /\ SecuredHeld'
         /\ isNodeLog(new, m.term)
<1> USE DEF Steps, RaftInv
<1>1. PICK i \in Server : i = m.to
  BY DEF accepts
<1>2. PICK t \in Nat : t = m.term
  BY DEF accepts
<1>3. PICK c \in Nat : c = reach(m)
  BY DEF accepts
<1>4. PICK l : l = logs[i]
  OBVIOUS
<1>5. PICK term \in Nat : term = currentTerm[i]
  BY DEF TypeInv, NodeTypes
<1>6. PICK last : last = lastTerm(new)
  OBVIOUS
<1>7. PICK a : a = <<t, i, c, last>>
  OBVIOUS
<1>8. a[1] = t /\ a[2] = i /\ a[3] = c /\ a[4] = last
  BY <1>7
<1>9. /\ term <= t /\ logs'[i] = new /\ new \in Logs /\ isExtended(l, new, t, c)
      /\ currentTerm'[i] = t /\ isTrueAppend(m)
      /\ acks' = acks \cup {a} /\ UNCHANGED <<ledger, committed>>
  BY <1>1, <1>2, <1>3, <1>4, <1>5, <1>6, <1>7 DEF accepts
<1>10. Continues /\ Grows
  BY AcceptContinues DEF Continues
<1>11. /\ t \in DOMAIN ledger /\ isNodeLog(l, term) /\ l \in Logs
       /\ l.index <= Len(committed) /\ committed \in Seq(Entry)
  BY <1>2, <1>4, <1>5, <1>9, NodeLogs DEF SafetyInv, isTrueAppend, TypeInv, NodeTypes
<1>12. isNodeLog(new, t)
  BY <1>9, <1>11, ExtendedNodeLog DEF SafetyInv
<1>13. hasPrefix(new, t, c) /\ new.index <= Len(committed)
  BY <1>9, <1>11 DEF isExtended
<1>14. last \in Nat /\ lastIndex(new) \in Nat
  BY <1>6, <1>9, <1>12, LastEntry, LogTypes DEF SafetyInv
<1>15. \A k : isOwn(t, k)' <=> isOwn(t, k)
  BY <1>9 DEF isOwn
<1>16. AcksInRange'
  <2>1. ASSUME NEW b \in acks'
        PROVE  /\ b[1] \in DOMAIN ledger' /\ b[1] <= currentTerm'[b[2]]
               /\ b[3] <= Len(ledger'[b[1]])
    <3>1. CASE b \in acks
      BY <1>10, <3>1, AcksSurvive
    <3>2. CASE b = a
      BY <1>8, <1>9, <1>11, <1>13, <3>2 DEF hasPrefix
    <3> QED
      BY <1>9, <3>1, <3>2
  <2> QED
    BY <2>1 DEF AcksInRange
<1>17. AcksSecured'
  <2>1. ASSUME NEW b \in acks', NEW k \in 1..b[3], isOwn(b[1], k)'
        PROVE  hasSecured(b[2], b[1], k)' \/ isChosen(b[1], k)'
    <3>1. CASE b \in acks
      BY <1>10, <2>1, <3>1, AcksSurvive
    <3>2. CASE b = a
      <4>1. k \in 1..c /\ isOwn(t, k)
        BY <1>8, <1>15, <2>1, <3>2
      <4>2. CASE last >= t
        <5>1. c >= k
          BY <4>1
        <5>2. hasSecured(i, t, k)'
          BY <1>8, <1>9, <4>2, <5>1 DEF hasSecured
        <5> QED
          BY <1>8, <3>2, <5>2
      <4>3. CASE ~(last >= t)
        <5>1. lastTerm(new) < t
          BY <1>6, <1>14, <4>3
        <5>2. isChosen(t, k)
          BY <1>9, <1>11, <1>12, <4>1, <5>1, ExtendedSecures DEF SafetyInv
        <5>3. isChosen(t, k)'
          BY <1>10, <5>2, ChosenGrows
        <5> QED
          BY <1>8, <3>2, <5>3
      <4> QED
        BY <4>2, <4>3
    <3> QED
      BY <1>9, <3>1, <3>2
  <2> QED
    BY <2>1 DEF AcksSecured
<1>18. StoredNow'
  <2>1. hasPrefix(new, t, c)'
    BY <1>9, <1>10, <1>11, <1>13, PrefixGrows
  <2>2. ASSUME NEW b \in acks', b[1] = currentTerm'[b[2]]
        PROVE  hasPrefix(logs[b[2]], b[1], b[3])'
    <3>1. CASE b \in acks
      BY <1>10, <2>2, <3>1, AcksSurvive
    <3>2. CASE b = a
      BY <1>8, <1>9, <2>1, <3>2
    <3> QED
      BY <1>9, <3>1, <3>2
  <2> QED
    BY <2>2 DEF StoredNow
<1>19. SecuredHeld'
  <2> SUFFICES ASSUME NEW j \in Server, NEW u \in DOMAIN ledger',
                      NEW k \in 1..Len(ledger'[u]),
                      isOwn(u, k)', hasSecured(j, u, k)'
               PROVE  (holds(logs[j], u, k) \/ isBlocked(u, k))'
    BY DEF SecuredHeld
  <2>1. k \in Nat /\ k # 0
    OBVIOUS
  <2>2. PICK b \in acks' : b[1] = u /\ b[2] = j /\ b[3] >= k /\ b[4] >= u
    BY DEF hasSecured
  <2>3. CASE b \in acks
    <3>1. hasSecured(j, u, k)
      BY <2>2, <2>3 DEF hasSecured
    <3> QED
      BY <1>10, <2>1, <3>1, SecuredSurvives
  <2>4. CASE b = a
    <3>1. u = t /\ j = i /\ c >= k /\ last >= t
      BY <1>8, <2>2, <2>4
    <3>2. k <= lastIndex(new) /\ k <= Len(ledger[t])
          /\ \A n \in 1..k : wholeEntry(new, n) = ledger[t][n]
      <4>1. /\ c <= lastIndex(new) /\ c <= Len(ledger[t])
            /\ \A n \in 1..c : wholeEntry(new, n) = ledger[t][n]
            /\ Len(ledger[t]) \in Nat
        BY <1>11, <1>13, LedgerEntries DEF hasPrefix
      <4> QED
        BY <1>14, <2>1, <3>1, <4>1
    <3>3. hasPrefix(new, t, k)
      BY <3>2 DEF hasPrefix
    <3>4. hasPrefix(new, t, k)'
      BY <1>9, <1>10, <1>11, <1>13, <2>1, <3>3, PrefixGrows
    <3>5. (lastTerm(new) >= t)'
      BY <1>6, <3>1
    <3> QED
      BY <1>9, <3>1, <3>4, <3>5 DEF holds
  <2> QED
    BY <1>9, <2>2, <2>3, <2>4
<1> QED
  BY <1>2, <1>12, <1>16, <1>17, <1>18, <1>19

LEMMA AcceptCommits ==
  ASSUME Steps, NEW m \in messages, NEW new, accepts(m, new)
  PROVE  knowsCommitted(m.to)'
<1> USE DEF Steps, RaftInv
<1>1. PICK i \in Server : i = m.to
  BY DEF accepts
<1>2. PICK t \in Nat : t = m.term
  BY DEF accepts
<1>3. PICK c \in Nat : c = reach(m)
  BY DEF accepts
<1>4. PICK l : l = logs[i]
  OBVIOUS
<1>5. PICK term \in Nat : term = currentTerm[i]
  BY DEF TypeInv, NodeTypes
<1>6. PICK c0 \in Nat : c0 = commitIndex[i]
  BY DEF TypeInv, NodeTypes
<1>7. PICK lc \in Nat : lc = m.leaderCommit
  BY DEF accepts
<1>8. PICK x : x = Min({lc, lastIndex(new)})
  OBVIOUS
<1>9. PICK k : k = Max({c0, x})
  OBVIOUS
<1>10. /\ term <= t /\ logs'[i] = new /\ new \in Logs /\ isExtended(l, new, t, c)
       /\ currentTerm'[i] = t /\ isTrueAppend(m) /\ commitIndex'[i] = k
  BY <1>1, <1>2, <1>3, <1>4, <1>5, <1>6, <1>7, <1>8, <1>9 DEF accepts
<1>11. Grows
  BY AcceptContinues DEF Continues
<1>12. /\ t \in DOMAIN ledger /\ isNodeLog(l, term) /\ l \in Logs
       /\ committed \in Seq(Entry) /\ lc <= c /\ isSettled(lc, t)
       /\ l.index <= c0 /\ c0 <= lastIndex(l) /\ committedPrefix(l, c0)
       /\ isSettled(c0, term) /\ isSettled(l.index, term)
  <2>1. t \in DOMAIN ledger /\ lc <= c /\ isSettled(lc, t)
    BY <1>2, <1>3, <1>7, <1>10 DEF isTrueAppend
  <2>2. /\ isNodeLog(l, term) /\ l \in Logs /\ committed \in Seq(Entry)
        /\ l.index <= c0 /\ c0 <= lastIndex(l)
    BY <1>4, <1>5, <1>6, NodeLogs DEF SafetyInv, TypeInv, NodeTypes
  <2>3. committedPrefix(l, c0) /\ isSettled(c0, term)
    BY <1>4, <1>5, <1>6 DEF SafetyInv, PrefixSettled, knowsCommitted
  <2>4. isSettled(l.index, term)
    BY <2>2 DEF isNodeLog
  <2> QED
    BY <2>1, <2>2, <2>3, <2>4
<1>13. lastIndex(new) \in Nat
  BY <1>10, LogTypes
<1>14. x \in Nat /\ x <= lc
  BY <1>8, <1>13, MinOfTwo
<1>15. k \in {c0, x}
  BY <1>9, <1>14, MaxOfTwo
<1>16. k \in Nat
  BY <1>14, <1>15
<1>17. /\ k <= lastIndex(new) /\ committedPrefix(new, k)
       /\ isSettled(k, t) /\ k <= Len(committed)
  <2>1. CASE k = c0
    <3>1. k <= lastIndex(new) /\ committedPrefix(new, k)
      BY <1>10, <1>12, <2>1, ExtendedCommitted DEF SafetyInv
    <3>2. c0 \in 0..c0
      OBVIOUS
    <3>3. isSettled(c0, t) /\ c0 <= Len(committed)
      BY <1>10, <1>12, <3>2, SettledBefore
    <3> QED
      BY <2>1, <3>1, <3>3
  <2>2. CASE k = x
    <3>1. x \in 0..lc /\ t <= t /\ x <= c /\ x \in 0..x
      BY <1>12, <1>14
    <3>2. isSettled(x, t)
      BY <1>12, <3>1, SettledBefore
    <3>3. x <= Len(committed)
      BY <1>12, <1>14, <3>1, <3>2, SettledBefore
    <3>4. x <= lastIndex(new) /\ committedPrefix(new, x)
      BY <1>10, <1>12, <1>14, <3>1, <3>2, ExtendedCommitted DEF SafetyInv
    <3> QED
      BY <2>2, <3>2, <3>3, <3>4
  <2> QED
    BY <1>15, <2>1, <2>2
<1>18. isSettled(k, t)' /\ committedPrefix(new, k)'
  <2>1. t <= t
    OBVIOUS
  <2> QED
    BY <1>10, <1>11, <1>16, <1>17, <2>1, SettledGrows, PrefixSurvives
<1> QED
  BY <1>1, <1>10, <1>17, <1>18 DEF knowsCommitted

LEMMA AppendEntriesIsSafe ==
  ASSUME Steps, NEW m \in messages, AppendEntries(m)
  PROVE  SafetyInv'
<1>1. CASE ~AcceptAppend(m)
  BY <1>1, RejectedAppendIsSafe
<1>2. CASE AcceptAppend(m)
  <2>1. PICK new : accepts(m, new)
    BY <1>2, AcceptedStep
  <2>2. PICK i \in Server : i = m.to
    BY <2>1 DEF accepts
  <2>3. PICK t \in Nat : t = m.term
    BY <2>1 DEF accepts
  <2>4. /\ logs'[i] = new /\ currentTerm'[i] = t /\ state'[i] = "Follower"
        /\ \A h \in Server \ {i} :
             UNCHANGED <<state[h], currentTerm[h], logs[h], commitIndex[h]>>
        /\ UNCHANGED <<matchIndex, applyCh, votes, committed, ledger>>
        /\ acks' = acks \cup {<<t, i, reach(m), lastTerm(new)>>}
        /\ reach(m) \in Nat
    BY <2>1, <2>2, <2>3 DEF accepts
  <2>5. Continues /\ Grows /\ NoNewCandidates /\ NoNewLeaders /\ RaftInv
    BY <2>1, AcceptContinues DEF Continues, Steps
  <2>6. /\ AcksInRange' /\ AcksSecured' /\ StoredNow' /\ SecuredHeld'
        /\ isNodeLog(new, t)
    BY <2>1, <2>3, AcceptAcks
  <2>7. isNodeLog(logs[i], currentTerm[i])' /\ knowsCommitted(i)'
    <3>1. isNodeLog(new, t)'
      <4>1. t <= t
        OBVIOUS
      <4> QED
        BY <2>5, <2>6, <4>1, NodeLogGrows
    <3> QED
      BY <2>1, <2>2, <2>4, <3>1, AcceptCommits
  <2>8. EntriesOwned' /\ PrefixSettled'
    <3>1. ASSUME NEW h \in Server \ {i}
          PROVE  isNodeLog(logs[h], currentTerm[h])' /\ knowsCommitted(h)'
      BY <2>4, <2>5, SameNode
    <3> QED
      BY <2>7, <3>1 DEF EntriesOwned, PrefixSettled
  <2>9. LeadersHaveLedgers'
    <3>1. ASSUME NEW h \in Server, state'[h] = "Leader"
          PROVE  hasLedger(h)'
      <4>1. /\ h # i /\ state[h] = "Leader" /\ currentTerm'[h] = currentTerm[h]
            /\ logs'[h] = logs[h] /\ ledger'[currentTerm[h]] = ledger[currentTerm[h]]
        BY <2>4, <3>1
      <4> QED
        BY <2>5, <4>1, SameLeader
    <3> QED
      BY <3>1 DEF LeadersHaveLedgers
  <2>10. LedgersMatch' /\ LedgersSafe' /\ LedgersElected'
    BY <2>4, <2>5, LedgersSurvive
  <2>11. CommittedChosen' /\ VotesAsked' /\ CandidatesHold'
    BY <2>4, <2>5, SameCommitted, SameVotes
  <2>12. PICK r : /\ messages' = (messages \ {m}) \cup {r}
                  /\ r.type = "AppendEntriesResponse" /\ r.from = i /\ r.reqTerm = t
                  /\ reach(r) = reach(m)
    BY <2>1, <2>2, <2>3 DEF accepts
  <2>13. VoteRequestsTrue'
    <3>1. \A u, n : isOwn(u, n)' => isOwn(u, n)
      BY <2>4 DEF isOwn
    <3>2. \A n \in messages' : n.type = "RequestVote" => n \in messages
      BY <2>12
    <3> QED
      BY <2>5, <3>1, <3>2, SameVoteRequests
  <2>14. isTrue(r)'
    <3>1. PICK a : a = <<t, i, reach(m), lastTerm(new)>>
      OBVIOUS
    <3>2. a \in acks' /\ a[1] = t /\ a[2] = i /\ a[3] = reach(m)
      BY <2>4, <3>1
    <3>3. a[3] >= reach(r)
      BY <2>4, <2>12, <3>2
    <3>4. hasStored(r.from, r.reqTerm, reach(r))'
      BY <2>12, <3>2, <3>3 DEF hasStored, reach
    <3> QED
      BY <2>12, <3>4 DEF isTrue
  <2>15. ProgressKnown'
    BY <2>4, <2>5, SameProgress DEF ProgressKnown, NoNewLeaders
  <2>16. TrafficTrue' /\ SnapshotsSettled'
    <3>1. \A n \in messages' : n \in messages \/ isTrue(n)'
      BY <2>12, <2>14
    <3> QED
      BY <2>4, <2>5, <3>1, SameTraffic, SameSnapshots
  <2> QED
    BY <2>6, <2>8, <2>9, <2>10, <2>11, <2>13, <2>15, <2>16 DEF SafetyInv
<1> QED
  BY <1>1, <1>2

-----------------------------------------------------------------------------
(* Votes *)

\* The voter's log is no more recent than the candidate's, so the candidate has
\* what the voter has secured.
LEMMA VoterIsBehind ==
  ASSUME RaftInv, NEW m \in messages, m.type = "RequestVote",
         state[m.from] = "Candidate", currentTerm[m.from] = m.term,
         isLogUpToDate(logs[m.to], m.lastLogTerm, m.lastLogIndex),
         NEW t, NEW k, isOwn(t, k), hasSecured(m.to, t, k)
  PROVE  holds(logs[m.from], t, k) \/ isBlocked(t, k)
<1> USE DEF RaftInv, SafetyInv
<1>1. PICK l : l = logs[m.to]
  OBVIOUS
<1>2. m.to \in Server /\ m.lastLogTerm \in Nat /\ m.lastLogIndex \in Nat
  BY MessageKinds DEF VoteRequest, TypeInv
<1>3. /\ isNodeLog(l, currentTerm[m.to]) /\ currentTerm[m.to] \in Nat
      /\ l \in Logs /\ lastIndex(l) \in Nat
  BY <1>1, <1>2, NodeLogs
<1>4. /\ t \in DOMAIN ledger /\ k \in 1..Len(ledger[t]) /\ t \in Nat /\ k \in Nat
  BY LedgerEntries DEF isOwn
<1>5. PICK last \in Nat : last = lastTerm(l)
  BY <1>3, LastEntry
<1>6. holds(l, t, k) \/ isBlocked(t, k)
  BY <1>1, <1>2, <1>4 DEF SecuredHeld
<1>7. CASE holds(l, t, k)
  <2>1. last >= t /\ k <= lastIndex(l)
    BY <1>5, <1>7 DEF holds, hasPrefix
  <2>2. \/ m.lastLogTerm > last
        \/ m.lastLogTerm = last /\ m.lastLogIndex >= lastIndex(l)
    BY <1>1, <1>5 DEF isLogUpToDate, lastTerm
  <2>3. reaches(m.lastLogTerm, m.lastLogIndex, t, k)
    BY <1>2, <1>3, <1>4, <2>1, <2>2 DEF reaches
  <2>4. isTrueVoteRequest(m)
    BY DEF VoteRequestsTrue
  <2> QED
    BY <1>4, <2>3, <2>4 DEF isTrueVoteRequest
<1> QED
  BY <1>6, <1>7

LEMMA GrantIsSafe ==
  ASSUME Steps, NEW m \in messages, RequestVote(m), GrantVote(m)
  PROVE  SafetyInv'
<1> USE DEF Steps, RaftInv
<1>1. PICK i : i = m.to
  OBVIOUS
<1>2. PICK c : c = m.from
  OBVIOUS
<1>3. PICK term : term = m.term
  OBVIOUS
<1>4. PICK r : /\ messages' = (messages \ {m}) \cup {r}
               /\ r.type = "RequestVoteResponse"
  <2>1. PICK n : messages' = (messages \ {m}) \cup {voteResponse(m, n, TRUE)}
    BY DEF GrantVote, Reply
  <2>2. voteResponse(m, n, TRUE).type = "RequestVoteResponse"
    BY DEF voteResponse
  <2> QED
    BY <2>1, <2>2
<1>5. /\ m.type = "RequestVote" /\ ~mustRefuse(m)
      /\ isLogUpToDate(logs[i], m.lastLogTerm, m.lastLogIndex)
      /\ votes' = votes \cup {<<term, i, c>>}
      /\ currentTerm' = [currentTerm EXCEPT ![i] = term]
      /\ state' = [state EXCEPT ![i] = IF term > currentTerm[i] THEN "Follower" ELSE @]
      /\ UNCHANGED <<logs, committed, commitIndex, matchIndex, applyCh, ledgerVars>>
  BY <1>1, <1>2, <1>3 DEF RequestVote, GrantVote, leaderVars
<1>6. /\ i \in Server /\ c \in Server /\ term \in Nat
      /\ currentTerm \in [Server -> Nat]
      /\ state \in [Server -> {"Follower", "Candidate", "Leader"}]
  <2>1. m \in VoteRequest
    BY <1>5, MessageKinds DEF TypeInv
  <2> QED
    BY <1>1, <1>2, <1>3, <2>1 DEF VoteRequest, TypeInv, NodeTypes
<1>7. NoNewCandidates /\ NoNewLeaders
  <2>1. ~(term < currentTerm[i])
    BY <1>1, <1>3, <1>5 DEF mustRefuse
  <2> QED
    BY <1>5, <1>6, <2>1 DEF NoNewCandidates, NoNewLeaders
<1>8. Continues /\ Grows /\ UNCHANGED <<ledger, acks>>
  <2>1. votes \subseteq votes'
    BY <1>5
  <2>2. Continues
    BY <1>5, <1>7, <2>1, CalmContinues DEF NoNewCandidates
  <2> QED
    BY <1>5, <2>2 DEF Continues, ledgerVars
<1>9. VotesAsked'
  <2>1. term <= currentTerm'[c]
    <3>1. isVoteMsg(m) /\ exchange(m)[3] = term /\ exchange(m)[1] = c
      BY <1>2, <1>3, <1>5 DEF isVoteMsg, exchange
    <3>2. term <= currentTerm[c]
      BY <3>1 DEF ElectionInv, MessagesOfThePast
    <3>3. currentTerm[c] <= currentTerm'[c] /\ currentTerm'[c] \in Nat
      BY <1>6 DEF TypeInv, NodeTypes
    <3> QED
      BY <1>6, <3>2, <3>3
  <2>2. ASSUME NEW v \in votes' PROVE v[1] <= currentTerm'[v[3]]
    <3>1. CASE v \in votes
      BY <1>8, <3>1, VoteStaysAsked
    <3>2. CASE v = <<term, i, c>>
      BY <2>1, <3>2
    <3> QED
      BY <1>5, <3>1, <3>2
  <2> QED
    BY <2>2 DEF VotesAsked
<1>10. CandidatesHold'
  <2> SUFFICES ASSUME NEW h \in Server, state'[h] = "Candidate",
                      NEW j \in voters(currentTerm[h], h)',
                      NEW t \in DOMAIN ledger', NEW k \in 1..Len(ledger'[t]),
                      t < currentTerm'[h], isOwn(t, k)', hasSecured(j, t, k)'
               PROVE  (holds(logs[h], t, k) \/ isBlocked(t, k))'
    BY DEF CandidatesHold
  <2>1. state[h] = "Candidate" /\ currentTerm'[h] = currentTerm[h]
    BY <1>7 DEF NoNewCandidates
  <2>2. CASE j \in voters(currentTerm[h], h)
    BY <1>8, <2>1, <2>2, CandidateSurvives
  <2>3. CASE j \notin voters(currentTerm[h], h)
    <3>1. j = i /\ h = c /\ currentTerm[h] = term
      <4>1. <<currentTerm[h], j, h>> \in votes' /\ <<currentTerm[h], j, h>> \notin votes
        BY <2>1, <2>3 DEF voters
      <4>2. <<currentTerm[h], j, h>> = <<term, i, c>>
        BY <1>5, <4>1
      <4> QED
        BY <4>2
    <3>2. isOwn(t, k) /\ hasSecured(i, t, k)
      BY <1>8, <3>1 DEF isOwn, hasSecured
    <3>3. holds(logs[c], t, k) \/ isBlocked(t, k)
      BY <1>1, <1>2, <1>3, <1>5, <2>1, <3>1, <3>2, VoterIsBehind
    <3> QED
      BY <1>8, <3>1, <3>2, <3>3, HeldSurvives DEF Continues
  <2> QED
    BY <2>2, <2>3
<1>11. LedgersMatch' /\ LedgersSafe' /\ LedgersElected'
  BY <1>8, LedgersSurvive
<1>12. AcksInRange' /\ AcksSecured' /\ StoredNow' /\ SecuredHeld'
  BY <1>8, SameAcks
<1>13. CommittedChosen'
  BY <1>5, <1>8, SameCommitted
<1>14. VoteRequestsTrue'
  <2>1. \A u, n : isOwn(u, n)' => isOwn(u, n)
    BY <1>8 DEF isOwn
  <2>2. \A n \in messages' : n.type = "RequestVote" => n \in messages
    BY <1>4
  <2> QED
    BY <1>7, <1>8, <2>1, <2>2, SameVoteRequests
<1>15. EntriesOwned' /\ PrefixSettled' /\ LeadersHaveLedgers'
  BY <1>5, <1>7, <1>8, SameNodes, SameLeaders
<1>16. ProgressKnown'
  BY <1>5, <1>7, <1>8, SameProgress DEF ProgressKnown, NoNewLeaders
<1>17. TrafficTrue' /\ SnapshotsSettled'
  <2>1. isTrue(r)'
    BY <1>4 DEF isTrue
  <2>2. \A n \in messages' : n \in messages \/ isTrue(n)'
    BY <1>4, <2>1
  <2> QED
    BY <1>5, <1>7, <1>8, <2>2, SameTraffic, SameSnapshots
<1> QED
  BY <1>9, <1>10, <1>11, <1>12, <1>13, <1>14, <1>15, <1>16, <1>17 DEF SafetyInv

LEMMA ElectionTimeoutIsSafe ==
  ASSUME Steps, NEW i \in Server, ElectionTimeout(i)
  PROVE  SafetyInv'
<1> USE DEF Steps, RaftInv
<1>1. PICK l : l = logs[i]
  OBVIOUS
<1>2. PICK term \in Nat : term = currentTerm[i]
  BY DEF TypeInv, NodeTypes
<1>3. PICK asked : asked = [type : {"RequestVote"}, from : {i}, to : Server \ {i},
                            term : {term + 1}, lastLogIndex : {lastIndex(l)},
                            lastLogTerm : {lastTerm(l)}]
  OBVIOUS
<1>4. /\ UNCHANGED <<logs, committed, commitIndex, matchIndex, applyCh, ledgerVars>>
      /\ state' = [state EXCEPT ![i] = "Candidate"]
      /\ currentTerm' = [currentTerm EXCEPT ![i] = term + 1]
      /\ votes' = votes \cup {<<term + 1, i, i>>}
      /\ messages' = messages \cup asked
  BY <1>1, <1>2, <1>3 DEF ElectionTimeout, leaderVars, lastTerm
<1>5. /\ state'[i] = "Candidate" /\ currentTerm'[i] = term + 1
      /\ \A h \in Server \ {i} : UNCHANGED <<state[h], currentTerm[h]>>
  BY <1>4 DEF TypeInv, NodeTypes
<1>6. Continues /\ Grows /\ UNCHANGED <<ledger, acks>>
  <2>1. votes \subseteq votes'
    BY <1>4
  <2>2. \A h \in Server : state'[h] = "Candidate" =>
          \/ state[h] = "Candidate" /\ currentTerm'[h] = currentTerm[h]
          \/ currentTerm'[h] > currentTerm[h]
    BY <1>2, <1>5
  <2>3. Continues
    BY <1>4, <2>1, <2>2, CalmContinues
  <2> QED
    BY <1>4, <2>3 DEF Continues, ledgerVars
<1>7. NoNewLeaders
  BY <1>5 DEF NoNewLeaders
<1>8. /\ isNodeLog(l, term) /\ l \in Logs /\ lastIndex(l) \in Nat
  BY <1>1, <1>2, NodeLogs DEF SafetyInv
<1>9. VotesAsked'
  <2>1. ASSUME NEW v \in votes' PROVE v[1] <= currentTerm'[v[3]]
    <3>1. CASE v \in votes
      BY <1>6, <3>1, VoteStaysAsked
    <3>2. CASE v = <<term + 1, i, i>>
      BY <1>2, <1>5, <3>2
    <3> QED
      BY <1>4, <3>1, <3>2
  <2> QED
    BY <2>1 DEF VotesAsked
<1>10. CandidatesHold'
  <2> SUFFICES ASSUME NEW h \in Server, state'[h] = "Candidate",
                      NEW j \in voters(currentTerm[h], h)',
                      NEW t \in DOMAIN ledger', NEW k \in 1..Len(ledger'[t]),
                      t < currentTerm'[h], isOwn(t, k)', hasSecured(j, t, k)'
               PROVE  (holds(logs[h], t, k) \/ isBlocked(t, k))'
    BY DEF CandidatesHold
  <2>1. <<currentTerm'[h], j, h>> \in votes'
    BY DEF voters
  <2>2. CASE h # i
    <3>1. state[h] = "Candidate" /\ currentTerm'[h] = currentTerm[h]
      BY <1>5, <2>2
    <3>2. j \in voters(currentTerm[h], h)
      <4>1. <<currentTerm'[h], j, h>> # <<term + 1, i, i>>
        BY <2>2
      <4> QED
        BY <1>4, <2>1, <3>1, <4>1 DEF voters
    <3> QED
      BY <1>6, <3>1, <3>2, CandidateSurvives
  <2>3. CASE h = i
    <3>1. j = i
      <4>1. ASSUME <<term + 1, j, i>> \in votes PROVE FALSE
        <5>1. PICK v \in votes : v = <<term + 1, j, i>>
          BY <4>1
        <5>2. v[1] = term + 1 /\ v[3] = i
          BY <5>1
        <5>3. v[1] <= currentTerm[v[3]]
          BY DEF SafetyInv, VotesAsked
        <5> QED
          BY <1>2, <5>2, <5>3
      <4>2. <<term + 1, j, i>> = <<term + 1, i, i>>
        BY <1>4, <1>5, <2>1, <2>3, <4>1
      <4> QED
        BY <4>2
    <3>2. isOwn(t, k) /\ hasSecured(i, t, k)
      BY <1>6, <3>1 DEF isOwn, hasSecured
    <3>3. holds(logs[i], t, k) \/ isBlocked(t, k)
      BY <3>2 DEF SafetyInv, SecuredHeld, isOwn
    <3> QED
      BY <1>6, <2>3, <3>2, <3>3, HeldSurvives DEF Continues
  <2> QED
    BY <2>2, <2>3
<1>11. VoteRequestsTrue'
  <2> SUFFICES ASSUME NEW m \in messages', m.type = "RequestVote",
                      state'[m.from] = "Candidate", currentTerm'[m.from] = m.term
               PROVE  isTrueVoteRequest(m)'
    BY DEF VoteRequestsTrue
  <2>1. \A t, k : isOwn(t, k)' <=> isOwn(t, k)
    BY <1>6 DEF isOwn
  <2>2. CASE m \in messages
    <3>1. m.from \in Server
      BY <2>2, MessageKinds DEF TypeInv
    <3>2. m.term <= currentTerm[m.from]
      <4>1. isVoteMsg(m) /\ exchange(m)[3] = m.term /\ exchange(m)[1] = m.from
        BY DEF isVoteMsg, exchange
      <4> QED
        BY <2>2, <4>1 DEF ElectionInv, MessagesOfThePast
    <3>3. m.from # i
      BY <1>2, <1>5, <3>2
    <3>4. state[m.from] = "Candidate" /\ currentTerm[m.from] = m.term
      BY <1>5, <3>1, <3>3
    <3>5. isTrueVoteRequest(m)
      BY <2>2, <3>4 DEF SafetyInv, VoteRequestsTrue
    <3> QED
      BY <1>6, <2>1, <2>2, <3>5, VoteRequestSurvives
  <2>3. CASE m \notin messages
    <3>1. m.from = i /\ m.lastLogIndex = lastIndex(l) /\ m.lastLogTerm = lastTerm(l)
      BY <1>3, <1>4, <2>3
    <3>2. /\ lastIndex(l) = 0 => lastTerm(l) = 0
          /\ lastIndex(l) # 0 => isOwn(lastTerm(l), lastIndex(l))
      BY <1>8, LastEntry DEF SafetyInv
    <3>3. ASSUME NEW t \in DOMAIN ledger', NEW k \in 1..Len(ledger'[t]),
                 isOwn(t, k)', reaches(lastTerm(l), lastIndex(l), t, k)
          PROVE  (holds(logs[i], t, k) \/ isBlocked(t, k))'
      <4>1. isOwn(t, k)
        BY <2>1, <3>3
      <4>2. holds(logs[i], t, k) \/ isBlocked(t, k)
        BY <1>1, <1>8, <3>3, <4>1, RecentHolds DEF SafetyInv
      <4> QED
        BY <1>6, <4>1, <4>2, HeldSurvives DEF Continues
    <3> QED
      BY <2>1, <3>1, <3>2, <3>3 DEF isTrueVoteRequest, reaches
  <2> QED
    BY <2>2, <2>3
<1>12. LedgersMatch' /\ LedgersSafe' /\ LedgersElected'
  BY <1>6, LedgersSurvive
<1>13. AcksInRange' /\ AcksSecured' /\ StoredNow' /\ SecuredHeld'
  BY <1>6, SameAcks
<1>14. CommittedChosen'
  BY <1>4, <1>6, SameCommitted
<1>15. EntriesOwned' /\ PrefixSettled' /\ LeadersHaveLedgers'
  BY <1>4, <1>6, <1>7, SameNodes, SameLeaders
<1>16. ProgressKnown'
  BY <1>4, <1>6, <1>7, SameProgress DEF ProgressKnown, NoNewLeaders
<1>17. TrafficTrue' /\ SnapshotsSettled'
  <2>1. ASSUME NEW m \in asked PROVE isTrue(m)'
    <3>1. m.type = "RequestVote"
      BY <1>3
    <3> QED
      BY <3>1 DEF isTrue
  <2>2. \A m \in messages' : m \in messages \/ isTrue(m)'
    BY <1>4, <2>1
  <2> QED
    BY <1>4, <1>6, <1>7, <2>2, SameTraffic, SameSnapshots
<1> QED
  BY <1>9, <1>10, <1>11, <1>12, <1>13, <1>14, <1>15, <1>16, <1>17 DEF SafetyInv

-----------------------------------------------------------------------------
(* A new leader *)

\* The log of node i as a ledger.
LEMMA WholeEntries ==
  ASSUME TypeInv, NEW l \in Logs, l.index <= Len(committed)
  PROVE  /\ wholeLog(l) \in Seq(Entry) /\ Len(wholeLog(l)) = lastIndex(l)
         /\ \A n \in 1..lastIndex(l) : wholeLog(l)[n] = wholeEntry(l, n)
<1>1. wholeLog(l) \in Seq(Entry) /\ Len(wholeLog(l)) = lastIndex(l)
  BY WholeLogTypes DEF TypeInv, NodeTypes
<1> QED
  BY <1>1 DEF wholeLog, wholeEntry

\* A candidate that a majority has voted for.
wins(i) ==
  /\ i \in Server /\ state[i] = "Candidate"
  /\ isMajority(voters(currentTerm[i], i))

\* Nobody else leads the term, or has led it.
LEMMA WinnersAreFirst ==
  ASSUME RaftInv, NEW i, wins(i)
  PROVE  currentTerm[i] \notin DOMAIN ledger
<1> USE DEF RaftInv, SafetyInv
<1> SUFFICES ASSUME currentTerm[i] \in DOMAIN ledger
             PROVE  FALSE
  OBVIOUS
<1>1. PICK term : term = currentTerm[i]
  OBVIOUS
<1>2. PICK c \in Server : isMajority(voters(term, c))
                          /\ (term = currentTerm[c] => state[c] # "Candidate")
  BY <1>1 DEF LedgersElected
<1>3. voters(term, c) \cap voters(term, i) # {}
  BY <1>1, <1>2, MajoritiesMeet DEF wins, voters
<1>4. PICK j : <<term, j, c>> \in votes /\ <<term, j, i>> \in votes
  BY <1>3 DEF voters
<1>5. c = i
  <2>1. PICK v \in votes : v = <<term, j, c>>
    BY <1>4
  <2>2. PICK w \in votes : w = <<term, j, i>>
    BY <1>4
  <2>3. v[1] = w[1] /\ v[2] = w[2] /\ v[3] = c /\ w[3] = i
    BY <2>1, <2>2
  <2> QED
    BY <2>3 DEF ElectionInv, OneVoteEach
<1> QED
  BY <1>1, <1>2, <1>5 DEF wins

\* Its log has what is chosen in an earlier term: one of its voters has secured it.
LEMMA WinnersHold ==
  ASSUME RaftInv, NEW i, wins(i), NEW t, NEW k, isOwn(t, k), t < currentTerm[i]
  PROVE  holds(logs[i], t, k) \/ isBlocked(t, k)
<1> USE DEF RaftInv, SafetyInv
<1>1. PICK Q : Q = voters(currentTerm[i], i)
  OBVIOUS
<1>2. Q \in SUBSET Server /\ isMajority(Q)
  BY <1>1 DEF wins, voters
<1>3. t \in DOMAIN ledger /\ k \in 1..Len(ledger[t]) /\ t \in Nat
  BY LedgerEntries DEF isOwn
<1>4. CASE \E j \in Q : hasSecured(j, t, k)
  BY <1>1, <1>3, <1>4 DEF wins, CandidatesHold
<1>5. CASE \A j \in Q : ~hasSecured(j, t, k)
  <2>1. ASSUME NEW j \in Q PROVE currentTerm[j] > t
    <3>1. PICK v \in votes : v = <<currentTerm[i], j, i>>
      BY <1>1 DEF voters
    <3>2. v[1] = currentTerm[i] /\ v[2] = j
      BY <3>1
    <3>3. currentTerm[i] <= currentTerm[j]
      BY <3>2 DEF ElectionInv, VotesRemembered
    <3>4. currentTerm[i] \in Nat /\ currentTerm[j] \in Nat
      BY <1>2 DEF wins, TypeInv, NodeTypes
    <3> QED
      BY <1>3, <3>3, <3>4
  <2> QED
    BY <1>2, <1>5, <2>1 DEF isBlocked
<1> QED
  BY <1>4, <1>5

\* Its whole log is the beginning of an earlier ledger: it has no tail behind its
\* snapshot that what is committed contradicts.
LEMMA WinnersPrefix ==
  ASSUME RaftInv, NEW i, wins(i), lastIndex(logs[i]) # 0
  PROVE  LET l == logs[i]
             s == lastTerm(l)
         IN  s \in DOMAIN ledger /\ s < currentTerm[i] /\ hasPrefix(l, s, lastIndex(l))
<1> USE DEF RaftInv, SafetyInv
<1>1. PICK l : l = logs[i]
  OBVIOUS
<1>2. PICK term \in Nat : term = currentTerm[i]
  BY DEF wins, TypeInv, NodeTypes
<1>3. /\ isNodeLog(l, term) /\ l \in Logs /\ l.index \in Nat
      /\ lastIndex(l) \in Nat /\ lastIndex(l) # 0 /\ term \notin DOMAIN ledger
      /\ l.index <= lastIndex(l)
  <2>1. i \in Server
    BY DEF wins
  <2>2. term \notin DOMAIN ledger
    BY <1>2, WinnersAreFirst
  <2>3. isNodeLog(l, term) /\ l \in Logs
    BY <1>1, <1>2, <2>1, NodeLogs
  <2> QED
    BY <1>1, <2>2, <2>3, LogTypes
<1>4. PICK s \in Nat : s = lastTerm(l)
  BY <1>3, LastEntry
<1>5. /\ s <= term /\ isOwn(s, lastIndex(l))
      /\ \A q \in (l.index + 1)..lastIndex(l) : entryAt(l, q) = ledger[s][q]
  BY <1>3, <1>4, LastEntry
<1>6. s \in DOMAIN ledger /\ s < term /\ lastIndex(l) <= Len(ledger[s])
  <2>1. s \in DOMAIN ledger /\ lastIndex(l) <= Len(ledger[s])
    BY <1>5 DEF isOwn
  <2>2. s # term
    BY <1>3, <2>1
  <2> QED
    BY <1>2, <1>5, <2>1, <2>2
<1>7. ASSUME NEW q \in 1..lastIndex(l), q <= l.index
      PROVE  committed[q] = ledger[s][q]
  <2>1. isSettled(l.index, term) /\ l.index # 0
    BY <1>3, <1>7 DEF isNodeLog
  <2>2. PICK u \in DOMAIN ledger : /\ u <= term /\ committedIs(u, l.index)
                                   /\ \E c \in l.index..Len(ledger[u]) : isChosen(u, c)
    BY <2>1 DEF isSettled
  <2>3. PICK c \in l.index..Len(ledger[u]) : isChosen(u, c)
    BY <2>2
  <2>4. u \in Nat /\ u < term /\ isOwn(u, c) /\ ~isBlocked(u, c)
    <3>1. u \in Nat /\ u # term
      BY <1>3, LedgerEntries
    <3> QED
      BY <1>2, <2>2, <2>3, <3>1, ChosenNotBlocked DEF isChosen
  <2>5. holds(l, u, c)
    BY <1>1, <1>2, <2>4, WinnersHold
  <2>6. u <= s
    BY <1>4, <2>4, <2>5 DEF holds
  <2>7. sameLedger(u, s, c)
    BY <1>6, <2>4, <2>6, LaterLedgers
  <2>8. q \in 1..c /\ q \in 1..l.index
    BY <1>3, <1>7, <2>3
  <2> QED
    BY <2>2, <2>7, <2>8 DEF sameLedger, committedIs
<1>8. ASSUME NEW q \in 1..lastIndex(l) PROVE wholeEntry(l, q) = ledger[s][q]
  BY <1>3, <1>5, <1>7 DEF wholeEntry
<1>9. hasPrefix(l, s, lastIndex(l))
  BY <1>3, <1>6, <1>8 DEF hasPrefix
<1> QED
  BY <1>1, <1>2, <1>4, <1>6, <1>9

\* The candidate i has counted the vote that makes it a leader.
won(i) ==
  /\ wins(i)
  /\ state' = [state EXCEPT ![i] = "Leader"]
  /\ matchIndex' = [matchIndex EXCEPT ![i] = [j \in Server |-> 0]]
  /\ recordLog(currentTerm[i], logs[i])
  /\ UNCHANGED <<currentTerm, logs, commitIndex, applyCh, votes, committed, acks>>
  /\ messages' \subseteq messages

LEMMA WonStep ==
  ASSUME Steps, NEW m \in messages, HandleVoteResponse(m), CountVote(m),
         becomeLeader(m.to)
  PROVE  won(m.to)
<1> USE DEF Steps, RaftInv
<1>1. PICK i \in Server : i = m.to
  BY MessageKinds DEF TypeInv
<1>2. /\ state[i] = "Candidate" /\ state' = [state EXCEPT ![i] = "Leader"]
      /\ matchIndex' = [matchIndex EXCEPT ![i] = [j \in Server |-> 0]]
      /\ recordLog(currentTerm[i], logs[i])
      /\ UNCHANGED <<currentTerm, logs, commitIndex, applyCh, votes, committed, acks>>
      /\ messages' = messages \ {m}
  BY <1>1 DEF HandleVoteResponse, CountVote, isCurrentElection, becomeLeader, hardVars
<1>3. state'[i] = "Leader"
  BY <1>2 DEF TypeInv, NodeTypes
<1>4. isMajority(voters(currentTerm[i], i))'
  BY <1>3 DEF ElectionInv, LeadersAreElected
<1>5. isMajority(voters(currentTerm[i], i))
  BY <1>2, <1>4 DEF isMajority, voters
<1> QED
  BY <1>1, <1>2, <1>5 DEF won, wins

LEMMA WonContinues ==
  ASSUME Steps, NEW i, won(i)
  PROVE  LET t == currentTerm[i]
             l == logs[i]
         IN  /\ Continues /\ NoNewCandidates
             /\ t \in Nat /\ t \notin DOMAIN ledger
             /\ DOMAIN ledger' = DOMAIN ledger \cup {t}
             /\ \A u \in DOMAIN ledger : ledger'[u] = ledger[u]
             /\ Len(ledger'[t]) = lastIndex(l)
             /\ \A n \in 1..lastIndex(l) : ledger'[t][n] = wholeEntry(l, n)
<1> USE DEF Steps, RaftInv
<1>1. PICK t : t = currentTerm[i]
  OBVIOUS
<1>2. PICK l : l = logs[i]
  OBVIOUS
<1>3. /\ i \in Server /\ state' = [state EXCEPT ![i] = "Leader"]
      /\ ledger' = [u \in DOMAIN ledger \cup {t} |->
                      IF u = t THEN wholeLog(l) ELSE ledger[u]]
      /\ UNCHANGED <<currentTerm, logs, votes, committed, acks>>
  BY <1>1, <1>2 DEF won, wins, recordLog
<1>4. t \in Nat /\ t \notin DOMAIN ledger
  BY <1>1, <1>3, WinnersAreFirst DEF won, TypeInv, NodeTypes
<1>5. l \in Logs /\ l.index <= Len(committed)
  BY <1>2, <1>3, NodeLogs DEF SafetyInv
<1>6. /\ DOMAIN ledger' = DOMAIN ledger \cup {t}
      /\ \A u \in DOMAIN ledger : ledger'[u] = ledger[u]
      /\ ledger'[t] = wholeLog(l)
  BY <1>3, <1>4
<1>7. /\ Len(ledger'[t]) = lastIndex(l)
      /\ \A n \in 1..lastIndex(l) : ledger'[t][n] = wholeEntry(l, n)
  BY <1>5, <1>6, WholeEntries
<1>8. Grows
  <2>1. \A u \in DOMAIN ledger : Len(ledger[u]) \in Nat
    BY LedgerEntries
  <2>2. committed \in Seq(Entry)
    BY DEF TypeInv, NodeTypes
  <2> QED
    BY <1>3, <1>6, <2>1, <2>2 DEF Grows
<1>9. \A j \in Server : KeepsLog(j)
  BY <1>3, SameLogKept DEF SafetyInv
<1>10. NoNewCandidates
  BY <1>3 DEF NoNewCandidates, TypeInv, NodeTypes
<1> QED
  BY <1>1, <1>2, <1>3, <1>4, <1>6, <1>7, <1>8, <1>9, <1>10
     DEF Continues, NoNewCandidates

\* The new ledger is the beginning of an earlier one.
LEMMA WonLedger ==
  ASSUME Steps, NEW i, won(i), NEW t, t = currentTerm[i],
         NEW n \in 1..Len(ledger'[t]), NEW v, v = ledger'[t][n].term
  PROVE  v \in Nat /\ v < t /\ isOwn(v, n) /\ sameLedger(v, t, n)'
<1> USE DEF Steps, RaftInv
<1>1. PICK l : l = logs[i]
  OBVIOUS
<1>2. PICK s : s = lastTerm(l)
  OBVIOUS
<1>3. /\ t \in Nat /\ t \notin DOMAIN ledger /\ t \in DOMAIN ledger'
      /\ \A u \in DOMAIN ledger : ledger'[u] = ledger[u]
      /\ Len(ledger'[t]) = lastIndex(l)
      /\ \A q \in 1..lastIndex(l) : ledger'[t][q] = wholeEntry(l, q)
  BY <1>1, WonContinues
<1>4. wins(i) /\ i \in Server /\ n \in 1..lastIndex(l) /\ lastIndex(l) \in Nat
      /\ lastIndex(l) # 0
  <2>1. wins(i) /\ i \in Server
    BY DEF won, wins
  <2>2. lastIndex(l) \in Nat
    BY <1>1, <2>1, NodeLogs DEF SafetyInv
  <2> QED
    BY <1>3, <2>1, <2>2
<1>5. s \in DOMAIN ledger /\ s < t /\ hasPrefix(l, s, lastIndex(l)) /\ s \in Nat
  BY <1>1, <1>2, <1>4, WinnersPrefix, LedgerEntries
<1>6. \A q \in 1..lastIndex(l) : ledger'[t][q] = ledger[s][q]
  BY <1>3, <1>5 DEF hasPrefix
<1>7. n \in 1..Len(ledger[s])
  BY <1>4, <1>5, LedgerEntries DEF hasPrefix
<1>8. v = ledger[s][n].term
  BY <1>4, <1>6
<1>9. v \in Nat /\ v <= s /\ isOwn(v, n) /\ sameLedger(v, s, n)
  BY <1>5, <1>7, <1>8, LedgerEntries DEF SafetyInv, LedgersMatch
<1>10. sameLedger(v, t, n)'
  <2>1. v \in DOMAIN ledger
    BY <1>9 DEF isOwn
  <2>2. ASSUME NEW q \in 1..n PROVE ledger'[v][q] = ledger'[t][q]
    <3>1. q \in 1..lastIndex(l)
      BY <1>4
    <3> QED
      BY <1>3, <1>6, <1>9, <2>1, <3>1 DEF sameLedger
  <2>3. n <= Len(ledger'[v]) /\ n <= Len(ledger'[t])
    BY <1>3, <1>4, <1>9, <2>1 DEF sameLedger
  <2> QED
    BY <2>2, <2>3 DEF sameLedger
<1> QED
  BY <1>3, <1>5, <1>9, <1>10

LEMMA WonLedgers ==
  ASSUME Steps, NEW i, won(i)
  PROVE  /\ LedgersMatch' /\ LedgersSafe' /\ LedgersElected'
         /\ \A t, k : isOwn(t, k)' => isOwn(t, k)
<1> USE DEF Steps, RaftInv
<1>1. PICK term : term = currentTerm[i]
  OBVIOUS
<1>2. PICK l : l = logs[i]
  OBVIOUS
<1>3. /\ Continues /\ Grows /\ term \in Nat /\ term \notin DOMAIN ledger
      /\ DOMAIN ledger' = DOMAIN ledger \cup {term}
      /\ \A u \in DOMAIN ledger : ledger'[u] = ledger[u]
      /\ Len(ledger'[term]) = lastIndex(l)
      /\ \A n \in 1..lastIndex(l) : ledger'[term][n] = wholeEntry(l, n)
  BY <1>1, <1>2, WonContinues DEF Continues
<1>4. ASSUME NEW n \in 1..Len(ledger'[term]), NEW v, v = ledger'[term][n].term
      PROVE  v \in Nat /\ v < term /\ isOwn(v, n) /\ sameLedger(v, term, n)'
  BY <1>1, <1>4, WonLedger
<1>5. ASSUME NEW t, NEW k, isOwn(t, k)' PROVE isOwn(t, k)
  <2>1. /\ t \in DOMAIN ledger' /\ k \in 1..Len(ledger'[t]) /\ ledger'[t][k].term = t
    BY <1>5 DEF isOwn
  <2>2. CASE t = term
    BY <1>3, <1>4, <2>1, <2>2
  <2>3. CASE t # term
    <3>1. t \in DOMAIN ledger /\ ledger'[t] = ledger[t]
      BY <1>3, <2>1, <2>3
    <3> QED
      BY <2>1, <3>1 DEF isOwn
  <2> QED
    BY <2>2, <2>3
<1>6. LedgersMatch'
  <2>1. ASSUME NEW u \in DOMAIN ledger', NEW n \in 1..Len(ledger'[u]),
               NEW t, t = ledger'[u][n].term
        PROVE  t <= u /\ isOwn(t, n)' /\ sameLedger(t, u, n)'
    <3>1. CASE u = term
      <4>1. t \in Nat /\ t < term /\ isOwn(t, n) /\ sameLedger(t, term, n)'
        BY <1>4, <2>1, <3>1
      <4>2. isOwn(t, n)' /\ t <= u
        BY <1>3, <3>1, <4>1, OwnGrows
      <4> QED
        BY <3>1, <4>1, <4>2 DEF sameLedger
    <3>2. CASE u # term
      <4>1. u \in DOMAIN ledger /\ n \in 1..Len(ledger[u]) /\ t = ledger[u][n].term
        BY <1>3, <2>1, <3>2
      <4>2. t <= u /\ isOwn(t, n) /\ sameLedger(t, u, n)
        BY <4>1 DEF SafetyInv, LedgersMatch
      <4>3. t \in DOMAIN ledger /\ n \in Int
        BY <4>2 DEF isOwn
      <4>4. isOwn(t, n)' /\ sameLedger(t, u, n)'
        BY <1>3, <4>1, <4>2, <4>3, OwnGrows, SameGrows
      <4> QED
        BY <4>2, <4>4
    <3> QED
      BY <3>1, <3>2
  <2> SUFFICES ASSUME NEW u \in DOMAIN ledger', NEW n \in 1..Len(ledger'[u])
               PROVE  (LET t == ledger[u][n].term IN
                       t <= u /\ isOwn(t, n) /\ sameLedger(t, u, n))'
    BY DEF LedgersMatch
  <2>2. PICK t : t = ledger'[u][n].term
    OBVIOUS
  <2>3. t <= u /\ isOwn(t, n)' /\ sameLedger(t, u, n)'
    BY <2>1, <2>2
  <2> QED
    BY <2>2, <2>3 DEF isOwn, sameLedger
<1>7. LedgersSafe'
  <2> SUFFICES ASSUME NEW u \in DOMAIN ledger', NEW t \in DOMAIN ledger',
                      NEW k \in 1..Len(ledger'[t]), t < u, isOwn(t, k)'
               PROVE  sameLedger(t, u, k)' \/ isBlocked(t, k)'
    BY DEF LedgersSafe
  <2>1. isOwn(t, k) /\ t \in DOMAIN ledger /\ t \in Nat /\ k \in 1..Len(ledger[t])
    <3>1. isOwn(t, k)
      BY <1>5
    <3> QED
      BY <3>1, LedgerEntries DEF isOwn
  <2>2. CASE u # term
    <3>1. u \in DOMAIN ledger
      BY <1>3, <2>2
    <3>2. sameLedger(t, u, k) \/ isBlocked(t, k)
      BY <2>1, <3>1 DEF SafetyInv, LedgersSafe
    <3>3. k \in Int
      BY <2>1
    <3> QED
      BY <1>3, <2>1, <3>1, <3>2, <3>3, SameGrows, BlockedGrows
  <2>3. CASE u = term
    <3>1. holds(l, t, k) \/ isBlocked(t, k)
      BY <1>1, <1>2, <2>1, <2>3, WinnersHold DEF won
    <3>2. ASSUME holds(l, t, k) PROVE sameLedger(t, term, k)'
      <4>1. /\ k <= lastIndex(l) /\ k <= Len(ledger[t])
            /\ \A n \in 1..k : wholeEntry(l, n) = ledger[t][n]
        BY <3>2 DEF holds, hasPrefix
      <4>2. lastIndex(l) \in Nat /\ k \in Nat
        BY <1>2, <2>1, NodeLogs DEF SafetyInv, won, wins
      <4>3. ASSUME NEW n \in 1..k PROVE ledger'[t][n] = ledger'[term][n]
        <5>1. n \in 1..lastIndex(l)
          BY <4>1, <4>2
        <5> QED
          BY <1>3, <2>1, <4>1, <5>1
      <4> QED
        BY <1>3, <2>1, <4>1, <4>3 DEF sameLedger
    <3> QED
      BY <1>3, <2>1, <2>3, <3>1, <3>2, BlockedGrows
  <2> QED
    BY <2>2, <2>3
<1>8. LedgersElected'
  <2>1. ASSUME NEW u \in DOMAIN ledger'
        PROVE  \E c \in Server :
                 /\ isMajority(voters(u, c))' /\ u <= currentTerm'[c]
                 /\ u = currentTerm'[c] => state'[c] # "Candidate"
    <3>1. CASE u \in DOMAIN ledger
      BY <1>3, <3>1, ElectedSurvives
    <3>2. CASE u = term
      <4>1. /\ i \in Server /\ isMajority(voters(term, i)) /\ currentTerm' = currentTerm
            /\ votes' = votes /\ state'[i] = "Leader"
        BY <1>1 DEF won, wins, TypeInv, NodeTypes
      <4>2. isMajority(voters(term, i))'
        BY <4>1 DEF voters, isMajority
      <4>3. term <= currentTerm'[i]
        BY <1>1, <1>3, <4>1
      <4> QED
        BY <3>2, <4>1, <4>2, <4>3
    <3> QED
      BY <1>3, <3>1, <3>2
  <2> QED
    BY <2>1 DEF LedgersElected
<1> QED
  BY <1>5, <1>6, <1>7, <1>8

LEMMA WonIsSafe ==
  ASSUME Steps, NEW i, won(i)
  PROVE  SafetyInv'
<1> USE DEF Steps, RaftInv
<1>1. PICK term : term = currentTerm[i]
  OBVIOUS
<1>2. PICK l : l = logs[i]
  OBVIOUS
<1>3. /\ i \in Server /\ state[i] = "Candidate" /\ state'[i] = "Leader"
      /\ \A h \in Server \ {i} : UNCHANGED <<state[h], matchIndex[h]>>
      /\ matchIndex'[i] = [j \in Server |-> 0]
      /\ UNCHANGED <<currentTerm, logs, commitIndex, applyCh, votes, committed, acks>>
      /\ messages' \subseteq messages
  BY DEF won, wins, TypeInv, NodeTypes
<1>4. /\ Continues /\ Grows /\ NoNewCandidates
      /\ term \in Nat /\ term \notin DOMAIN ledger
      /\ DOMAIN ledger' = DOMAIN ledger \cup {term}
      /\ \A u \in DOMAIN ledger : ledger'[u] = ledger[u]
      /\ Len(ledger'[term]) = lastIndex(l)
      /\ \A n \in 1..lastIndex(l) : ledger'[term][n] = wholeEntry(l, n)
  BY <1>1, <1>2, WonContinues DEF Continues
<1>5. /\ LedgersMatch' /\ LedgersSafe' /\ LedgersElected'
      /\ \A t, k : isOwn(t, k)' => isOwn(t, k)
  BY WonLedgers
<1>6. AcksInRange' /\ AcksSecured' /\ StoredNow' /\ SecuredHeld'
  BY <1>3, <1>4, SameAcks
<1>7. CommittedChosen' /\ VotesAsked' /\ CandidatesHold'
  BY <1>3, <1>4, SameCommitted, SameVotes
<1>8. VoteRequestsTrue'
  BY <1>3, <1>4, <1>5, SameVoteRequests
<1>9. EntriesOwned' /\ PrefixSettled'
  BY <1>3, <1>4, SameNodes
<1>10. LeadersHaveLedgers'
  <2>1. ASSUME NEW h \in Server, state'[h] = "Leader"
        PROVE  hasLedger(h)'
    <3>1. CASE h = i
      <4>1. l \in Logs /\ lastIndex(l) \in Nat
        BY <1>2, <1>3, NodeLogs DEF SafetyInv
      <4>2. ASSUME NEW n \in 1..lastIndex(l)
            PROVE  wholeEntry(l, n)' = ledger'[term][n]
        <5>1. wholeEntry(l, n)' = wholeEntry(l, n)
          BY <1>3 DEF wholeEntry
        <5> QED
          BY <1>4, <5>1
      <4>3. hasPrefix(l, term, lastIndex(l))'
        BY <1>4, <4>1, <4>2 DEF hasPrefix
      <4> QED
        BY <1>1, <1>2, <1>3, <1>4, <3>1, <4>3 DEF hasLedger
    <3>2. CASE h # i
      <4>1. state[h] = "Leader"
        BY <1>3, <2>1, <3>2
      <4>2. currentTerm[h] \in DOMAIN ledger
        BY <4>1 DEF SafetyInv, LeadersHaveLedgers, hasLedger
      <4> QED
        BY <1>3, <1>4, <4>1, <4>2, SameLeader
    <3> QED
      BY <3>1, <3>2
  <2> QED
    BY <2>1 DEF LeadersHaveLedgers
<1>11. ProgressKnown'
  <2>1. ASSUME NEW h \in Server, state'[h] = "Leader", NEW j \in Server
        PROVE  knowsProgress(h, j)'
    <3>1. CASE h = i
      <4>1. logs[i].index \in Nat
        BY <1>3, NodeLogs DEF SafetyInv
      <4> QED
        BY <1>3, <3>1, <4>1 DEF knowsProgress
    <3>2. CASE h # i
      BY <1>3, <1>4, <2>1, <3>2, SameProgress
    <3> QED
      BY <3>1, <3>2
  <2> QED
    BY <2>1 DEF ProgressKnown
<1>12. TrafficTrue'
  <2>1. ASSUME NEW m \in messages'
        PROVE  isTrue(m)'
    <3>1. CASE isVoteMsg(m)
      BY <3>1 DEF isVoteMsg, isTrue
    <3>2. CASE ~isVoteMsg(m)
      <4>1. m \in messages /\ sender(m) \in Server
        BY <1>3, <3>2, TrafficTypes DEF TypeInv
      <4>2. epoch(m) = currentTerm[sender(m)] => sender(m) # i
        BY <1>3, <3>2, <4>1 DEF TypeInv, SentByLeaders
      <4>3. state'[sender(m)] = "Leader" /\ epoch(m) = currentTerm'[sender(m)]
              => state[sender(m)] = "Leader" /\ epoch(m) = currentTerm[sender(m)]
        BY <1>3, <4>1, <4>2
      <4> QED
        BY <1>4, <4>1, <4>3, MessageSurvives
    <3> QED
      BY <3>1, <3>2
  <2> QED
    BY <2>1 DEF TrafficTrue
<1>13. SnapshotsSettled'
  BY <1>3, <1>4, SameSnapshots
<1> QED
  BY <1>5, <1>6, <1>7, <1>8, <1>9, <1>10, <1>11, <1>12, <1>13 DEF SafetyInv

LEMMA HandleVoteResponseIsSafe ==
  ASSUME Steps, NEW m \in messages, HandleVoteResponse(m)
  PROVE  SafetyInv'
<1>1. CASE CountVote(m) /\ becomeLeader(m.to)
  BY <1>1, WonStep, WonIsSafe
<1>2. CASE CountVote(m) /\ ~becomeLeader(m.to)
  <2>1. UNCHANGED <<state, currentTerm, ledger>>
    BY <1>2 DEF CountVote, hardVars
  <2> QED
    BY <2>1, VoteResponseIsSafe
<1>3. CASE LoseElection(m) \/ IgnoreVoteResponse(m)
  <2>1. /\ UNCHANGED ledger
        /\ UNCHANGED <<state, currentTerm>> \/ stepDown(m.to, m.term)
    BY <1>3 DEF LoseElection, IgnoreVoteResponse, hardVars
  <2> QED
    BY <2>1, VoteResponseIsSafe
<1> QED
  BY <1>1, <1>2, <1>3 DEF HandleVoteResponse

-----------------------------------------------------------------------------
(* Start: a leader adds an entry to its ledger *)

\* Leader i of term t makes l the log new, by entry k.
starts(i, l, new, t, k) ==
  /\ i \in Server /\ state[i] = "Leader" /\ t \in Nat /\ currentTerm[i] = t
  /\ l \in Logs /\ logs[i] = l /\ k \in Nat \ {0} /\ k = lastIndex(l) + 1
  /\ new \in Logs /\ logs' = [logs EXCEPT ![i] = new]
  /\ new.index = l.index /\ new.term = l.term /\ lastIndex(new) = k
  /\ \A n \in (l.index + 1)..lastIndex(l) : entryAt(new, n) = entryAt(l, n)
  /\ entryAt(new, k).term = t
  /\ ledger' = [u \in DOMAIN ledger \cup {t} |->
                  IF u = t THEN wholeLog(new) ELSE ledger[u]]
  /\ acks' = acks \cup {<<t, i, k, t>>}
  /\ \A h, j \in Server : h # i \/ j # i => matchIndex'[h][j] = matchIndex[h][j]
  /\ matchIndex'[i][i] = k
  /\ UNCHANGED <<state, currentTerm, commitIndex, applyCh, messages, votes, committed>>

LEMMA StartStep ==
  ASSUME Steps, NEW i \in Server, NEW v \in Value, Start(i, v)
  PROVE  \E l, new, t, k : starts(i, l, new, t, k)
<1> USE DEF Steps, RaftInv
<1>1. PICK l \in Logs : l = logs[i]
  BY DEF TypeInv, NodeTypes
<1>2. PICK t \in Nat : t = currentTerm[i]
  BY DEF TypeInv, NodeTypes
<1>3. PICK e : e = [term |-> t, command |-> v]
  OBVIOUS
<1>4. PICK new : new = withEntries(l, Append(l.entries, e))
  OBVIOUS
<1>5. PICK k : k = lastIndex(l) + 1
  OBVIOUS
<1>6. l.index \in Nat /\ l.entries \in Seq(Entry) /\ lastIndex(l) \in Nat
      /\ lastIndex(l) = l.index + Len(l.entries) /\ e \in Entry /\ e.term = t
      /\ l.term \in Nat
  BY <1>3, LogTypes DEF Entry
<1>7. /\ Append(l.entries, e) \in Seq(Entry)
      /\ Len(Append(l.entries, e)) = Len(l.entries) + 1
      /\ \A n \in 1..Len(l.entries) : Append(l.entries, e)[n] = l.entries[n]
      /\ Append(l.entries, e)[Len(l.entries) + 1] = e
  BY <1>6
<1>8. /\ new \in Logs /\ new.index = l.index /\ new.term = l.term
      /\ new.entries = Append(l.entries, e)
  BY <1>4, <1>6, <1>7 DEF withEntries, Logs
<1>9. lastIndex(new) = k /\ k \in Nat \ {0} /\ k - l.index = Len(l.entries) + 1
  BY <1>5, <1>6, <1>7, <1>8, SMTT(30) DEF lastIndex
<1>10. \A n \in (l.index + 1)..lastIndex(l) : entryAt(new, n) = entryAt(l, n)
  <2> SUFFICES ASSUME NEW n \in (l.index + 1)..lastIndex(l)
               PROVE  entryAt(new, n) = entryAt(l, n)
    OBVIOUS
  <2>1. n - l.index \in 1..Len(l.entries)
    BY <1>6
  <2> QED
    BY <1>7, <1>8, <2>1 DEF entryAt
<1>11. entryAt(new, k).term = t
  BY <1>6, <1>7, <1>8, <1>9 DEF entryAt
<1>12. logs' = [logs EXCEPT ![i] = new] /\ logs'[i] = new
  BY <1>1, <1>2, <1>3, <1>4 DEF Start, TypeInv, NodeTypes
<1>13. ledger' = [u \in DOMAIN ledger \cup {t} |->
                    IF u = t THEN wholeLog(new) ELSE ledger[u]]
  BY <1>2, <1>12 DEF Start, recordLog
<1>14. acks' = acks \cup {<<t, i, k, t>>}
  BY <1>1, <1>2, <1>5 DEF Start
<1>15. /\ \A h, j \in Server : h # i \/ j # i => matchIndex'[h][j] = matchIndex[h][j]
       /\ matchIndex'[i][i] = k
  <2>1. matchIndex' = [matchIndex EXCEPT ![i][i] = k]
    BY <1>1, <1>5 DEF Start, setProgress
  <2>2. matchIndex \in [Server -> [Server -> Nat]]
    BY DEF TypeInv, NodeTypes
  <2> QED
    BY <2>1, <2>2
<1>16. /\ state[i] = "Leader"
       /\ UNCHANGED <<state, currentTerm, commitIndex, applyCh, messages, votes,
                      committed>>
  BY DEF Start
<1>17. starts(i, l, new, t, k)
  BY <1>1, <1>2, <1>5, <1>8, <1>9, <1>10, <1>11, <1>12, <1>13, <1>14, <1>15, <1>16
     DEF starts
<1> QED
  BY <1>17

LEMMA StartContinues ==
  ASSUME Steps, NEW i, NEW l, NEW new, NEW t, NEW k, starts(i, l, new, t, k)
  PROVE  /\ Continues /\ NoNewCandidates /\ NoNewLeaders
         /\ t \in DOMAIN ledger /\ DOMAIN ledger' = DOMAIN ledger
         /\ \A u \in DOMAIN ledger : u # t => ledger'[u] = ledger[u]
         /\ Len(ledger[t]) = k - 1 /\ Len(ledger'[t]) = k
         /\ \A n \in 1..k : ledger'[t][n] = wholeEntry(new, n)
         /\ \A n \in 1..(k - 1) : ledger'[t][n] = ledger[t][n]
<1> USE DEF Steps, RaftInv
<1>1. /\ i \in Server /\ state[i] = "Leader" /\ currentTerm[i] = t /\ t \in Nat
      /\ l \in Logs /\ new \in Logs /\ new.index = l.index
      /\ k = lastIndex(l) + 1 /\ lastIndex(new) = k
      /\ UNCHANGED <<state, currentTerm, votes, committed>>
      /\ \A n \in (l.index + 1)..lastIndex(l) : entryAt(new, n) = entryAt(l, n)
  BY DEF starts
<1>2. /\ l.index \in Nat /\ lastIndex(l) \in Nat /\ l.index <= Len(committed)
      /\ isNodeLog(l, t) /\ logs[i] = l
  BY NodeLogs DEF SafetyInv, starts
<1>3. t \in DOMAIN ledger /\ hasPrefix(l, t, k - 1) /\ Len(ledger[t]) = k - 1
  BY <1>1, <1>2 DEF SafetyInv, LeadersHaveLedgers, hasLedger
<1>4. /\ DOMAIN ledger' = DOMAIN ledger
      /\ \A u \in DOMAIN ledger : u # t => ledger'[u] = ledger[u]
      /\ ledger'[t] = wholeLog(new)
  BY <1>3 DEF starts
<1>5. Len(ledger'[t]) = k /\ \A n \in 1..k : ledger'[t][n] = wholeEntry(new, n)
  BY <1>1, <1>2, <1>4, WholeEntries
<1>6. \A n \in 1..(k - 1) : wholeEntry(new, n) = wholeEntry(l, n)
  BY <1>1, <1>2 DEF wholeEntry
<1>7. \A n \in 1..(k - 1) : ledger'[t][n] = ledger[t][n]
  BY <1>1, <1>2, <1>3, <1>5, <1>6 DEF hasPrefix
<1>8. Grows
  <2>1. ASSUME NEW u \in DOMAIN ledger
        PROVE  /\ Len(ledger[u]) <= Len(ledger'[u])
               /\ \A n \in 1..Len(ledger[u]) : ledger'[u][n] = ledger[u][n]
    <3>1. CASE u = t
      BY <1>1, <1>2, <1>3, <1>5, <1>7, <3>1
    <3>2. CASE u # t
      <4>1. Len(ledger[u]) \in Nat
        BY LedgerEntries
      <4> QED
        BY <1>4, <3>2, <4>1
    <3> QED
      BY <3>1, <3>2
  <2>2. acks \subseteq acks' /\ \A a \in acks' \ acks : currentTerm[a[2]] <= a[1]
    <3>1. acks' = acks \cup {<<t, i, k, t>>}
      BY DEF starts
    <3> QED
      BY <1>1, <3>1
  <2>3. committed \in Seq(Entry)
    BY DEF TypeInv, NodeTypes
  <2> QED
    BY <1>1, <1>4, <2>1, <2>2, <2>3 DEF Grows
<1>9. ASSUME NEW j \in Server PROVE KeepsLog(j)
  <2>1. CASE j # i
    <3>1. logs'[j] = logs[j]
      BY <2>1 DEF starts, TypeInv, NodeTypes
    <3> QED
      BY <3>1, SameLogKept DEF SafetyInv
  <2>2. CASE j = i
    <3>1. logs[j] = l /\ logs'[j] = new /\ currentTerm[j] = t
      BY <1>1, <1>2, <2>2 DEF starts, TypeInv, NodeTypes
    <3>2. ASSUME NEW u \in DOMAIN ledger, NEW n \in Nat, hasPrefix(l, u, n)
          PROVE  hasPrefix(new, u, n)
      <4>1. n <= k - 1 /\ n <= k /\ \A q \in 1..n : q \in 1..(k - 1)
        BY <1>1, <1>2, <3>2 DEF hasPrefix
      <4> QED
        BY <1>1, <1>6, <3>2, <4>1 DEF hasPrefix
    <3>3. lastTerm(new) = t /\ lastTerm(l) <= t /\ lastTerm(l) \in Nat
      <4>1. k # new.index
        BY <1>1, <1>2, LogTypes
      <4>2. lastTerm(new) = entryAt(new, k).term
        BY <1>1, <4>1 DEF lastTerm, termAt, entryAt
      <4> QED
        BY <1>1, <1>2, <4>2, LastEntry DEF SafetyInv, starts
    <3>4. ASSUME NEW u \in DOMAIN ledger, NEW n \in 1..Len(ledger[u]), holds(l, u, n)
          PROVE  holds(new, u, n)
      <4>1. u \in Nat
        BY LedgerEntries
      <4> QED
        BY <1>1, <3>2, <3>3, <3>4, <4>1 DEF holds
    <3> QED
      BY <1>1, <1>2, <3>1, <3>2, <3>4 DEF KeepsLog
  <2> QED
    BY <2>1, <2>2
<1>10. Continues /\ NoNewCandidates /\ NoNewLeaders
  BY <1>1, <1>8, <1>9 DEF Continues, NoNewCandidates, NoNewLeaders
<1> QED
  BY <1>3, <1>4, <1>5, <1>7, <1>10

\* Who has voted in a later term stores nothing of this one.
LEMMA StartBlocks ==
  ASSUME Steps, NEW i, NEW l, NEW new, NEW t, NEW k, starts(i, l, new, t, k),
         NEW u \in DOMAIN ledger, u > t
  PROVE  isBlocked(t, k)'
<1> USE DEF Steps, RaftInv
<1>1. /\ i \in Server /\ t \in Nat /\ currentTerm[i] = t /\ k \in Nat
      /\ currentTerm' = currentTerm /\ acks' = acks \cup {<<t, i, k, t>>}
      /\ Len(ledger[t]) = k - 1 /\ u \in Nat
  <2>1. Len(ledger[t]) = k - 1
    BY StartContinues
  <2>2. u \in Nat
    BY LedgerEntries
  <2> QED
    BY <2>1, <2>2 DEF starts
<1>2. PICK c \in Server : isMajority(voters(u, c))
  BY DEF SafetyInv, LedgersElected
<1>3. ASSUME NEW j \in voters(u, c)
      PROVE  j \in Server /\ currentTerm'[j] > t /\ ~hasSecured(j, t, k)'
  <2>1. j \in Server /\ currentTerm[j] \in Nat /\ currentTerm[j] >= u
    <3>1. j \in Server /\ <<u, j, c>> \in votes
      BY DEF voters
    <3>2. currentTerm[j] \in Nat
      BY <3>1 DEF TypeInv, NodeTypes
    <3> QED
      BY <1>1, <3>1, <3>2 DEF ElectionInv, VotesRemembered
  <2>2. ASSUME NEW a \in acks', a[1] = t, a[2] = j, a[3] >= k
        PROVE  FALSE
    <3>1. CASE a \in acks
      <4>1. a[3] <= k - 1 /\ a[3] \in Nat
        BY <1>1, <2>2, <3>1 DEF SafetyInv, AcksInRange, LedgerTypes
      <4> QED
        BY <1>1, <2>2, <4>1
    <3>2. CASE a = <<t, i, k, t>>
      BY <1>1, <2>1, <2>2, <3>2
    <3> QED
      BY <1>1, <3>1, <3>2
  <2> QED
    BY <1>1, <2>1, <2>2 DEF hasSecured
<1>4. voters(u, c) \in SUBSET Server
  BY DEF voters
<1> QED
  BY <1>2, <1>3, <1>4 DEF isBlocked, isMajority

\* The new entry is the only new one.
LEMMA StartOwns ==
  ASSUME Steps, NEW i, NEW l, NEW new, NEW t, NEW k, starts(i, l, new, t, k)
  PROVE  /\ isOwn(t, k)'
         /\ \A u, n : isOwn(u, n)' => isOwn(u, n) \/ (u = t /\ n = k)
<1> USE DEF Steps, RaftInv
<1>1. /\ t \in DOMAIN ledger /\ DOMAIN ledger' = DOMAIN ledger
      /\ \A u \in DOMAIN ledger : u # t => ledger'[u] = ledger[u]
      /\ Len(ledger[t]) = k - 1 /\ Len(ledger'[t]) = k
      /\ \A n \in 1..k : ledger'[t][n] = wholeEntry(new, n)
      /\ \A n \in 1..(k - 1) : ledger'[t][n] = ledger[t][n]
  BY StartContinues
<1>2. k \in Nat \ {0} /\ new.index = l.index /\ k = lastIndex(l) + 1
      /\ l \in Logs /\ entryAt(new, k).term = t
  BY DEF starts
<1>3. isOwn(t, k)'
  <2>1. wholeEntry(new, k) = entryAt(new, k)
    BY <1>2, LogTypes DEF wholeEntry
  <2> QED
    BY <1>1, <1>2, <2>1 DEF isOwn
<1>4. ASSUME NEW u, NEW n, isOwn(u, n)', ~(u = t /\ n = k)
      PROVE  isOwn(u, n)
  <2>1. u \in DOMAIN ledger /\ n \in 1..Len(ledger'[u]) /\ ledger'[u][n].term = u
    BY <1>1, <1>4 DEF isOwn
  <2>2. CASE u # t
    BY <1>1, <2>1, <2>2 DEF isOwn
  <2>3. CASE u = t
    <3>1. n \in 1..(k - 1)
      BY <1>1, <1>2, <1>4, <2>1, <2>3
    <3> QED
      BY <1>1, <2>1, <2>3, <3>1 DEF isOwn
  <2> QED
    BY <2>2, <2>3
<1> QED
  BY <1>3, <1>4

\* A term has one leader: its votes, a majority, are for one candidate.
LEMMA OneLeader ==
  ASSUME ElectionInv, NEW i \in Server, NEW j \in Server,
         state[i] = "Leader", state[j] = "Leader", currentTerm[i] = currentTerm[j]
  PROVE  i = j
<1>1. PICK term : term = currentTerm[i]
  OBVIOUS
<1>2. isMajority(voters(term, i)) /\ isMajority(voters(term, j))
  BY <1>1 DEF ElectionInv, LeadersAreElected
<1>3. voters(term, i) \cap voters(term, j) # {}
  BY <1>2, MajoritiesMeet DEF voters
<1>4. PICK h : <<term, h, i>> \in votes /\ <<term, h, j>> \in votes
  BY <1>3 DEF voters
<1>5. PICK v \in votes : v = <<term, h, i>>
  BY <1>4
<1>6. PICK w \in votes : w = <<term, h, j>>
  BY <1>4
<1>7. v[1] = w[1] /\ v[2] = w[2] /\ v[3] = i /\ w[3] = j
  BY <1>5, <1>6
<1> QED
  BY <1>7 DEF ElectionInv, OneVoteEach

LEMMA StartLedgers ==
  ASSUME Steps, NEW i, NEW l, NEW new, NEW t, NEW k, starts(i, l, new, t, k)
  PROVE  LedgersMatch' /\ LedgersSafe' /\ LedgersElected'
<1> USE DEF Steps, RaftInv
<1>1. /\ Continues /\ Grows /\ t \in DOMAIN ledger /\ DOMAIN ledger' = DOMAIN ledger
      /\ \A u \in DOMAIN ledger : u # t => ledger'[u] = ledger[u]
      /\ Len(ledger[t]) = k - 1 /\ Len(ledger'[t]) = k
      /\ \A n \in 1..(k - 1) : ledger'[t][n] = ledger[t][n]
  BY StartContinues DEF Continues
<1>2. /\ isOwn(t, k)'
      /\ \A u, n : isOwn(u, n)' => isOwn(u, n) \/ (u = t /\ n = k)
  BY StartOwns
<1>3. t \in Nat /\ k \in Nat \ {0}
  BY DEF starts
<1>4. LedgersMatch'
  <2>1. ASSUME NEW u \in DOMAIN ledger', NEW n \in 1..Len(ledger'[u]),
               NEW s, s = ledger'[u][n].term
        PROVE  s <= u /\ isOwn(s, n)' /\ sameLedger(s, u, n)'
    <3>1. CASE u = t /\ n = k
      <4>1. s = t
        BY <1>2, <1>3, <2>1, <3>1 DEF isOwn
      <4>2. sameLedger(t, t, k)'
        BY <1>1, <1>2, <1>3 DEF sameLedger
      <4> QED
        BY <1>2, <1>3, <3>1, <4>1, <4>2 DEF sameLedger
    <3>2. CASE ~(u = t /\ n = k)
      <4>1. u \in DOMAIN ledger /\ n \in 1..Len(ledger[u]) /\ s = ledger[u][n].term
        <5>1. CASE u = t
          <6>1. n \in 1..(k - 1)
            BY <1>1, <1>2, <1>3, <2>1, <3>2, <5>1
          <6> QED
            BY <1>1, <2>1, <5>1, <6>1
        <5>2. CASE u # t
          BY <1>1, <2>1, <5>2
        <5> QED
          BY <5>1, <5>2
      <4>2. s <= u /\ isOwn(s, n) /\ sameLedger(s, u, n)
        BY <4>1 DEF SafetyInv, LedgersMatch
      <4>3. s \in DOMAIN ledger /\ n \in Int
        BY <4>2 DEF isOwn
      <4> QED
        BY <1>1, <4>1, <4>2, <4>3, OwnGrows, SameGrows
    <3> QED
      BY <3>1, <3>2
  <2> SUFFICES ASSUME NEW u \in DOMAIN ledger', NEW n \in 1..Len(ledger'[u])
               PROVE  (LET r == ledger[u][n].term IN
                       r <= u /\ isOwn(r, n) /\ sameLedger(r, u, n))'
    BY DEF LedgersMatch
  <2>2. PICK r : r = ledger'[u][n].term
    OBVIOUS
  <2>3. r <= u /\ isOwn(r, n)' /\ sameLedger(r, u, n)'
    BY <2>1, <2>2
  <2> QED
    BY <2>2, <2>3 DEF isOwn, sameLedger
<1>5. LedgersSafe'
  <2> SUFFICES ASSUME NEW u \in DOMAIN ledger', NEW s \in DOMAIN ledger',
                      NEW n \in 1..Len(ledger'[s]), s < u, isOwn(s, n)'
               PROVE  sameLedger(s, u, n)' \/ isBlocked(s, n)'
    BY DEF LedgersSafe
  <2>1. CASE isOwn(s, n)
    <3>1. u \in DOMAIN ledger /\ s \in DOMAIN ledger /\ n \in 1..Len(ledger[s])
      BY <1>1, <2>1 DEF isOwn
    <3>2. sameLedger(s, u, n) \/ isBlocked(s, n)
      BY <2>1, <3>1 DEF SafetyInv, LedgersSafe
    <3>3. s \in Nat /\ n \in Int
      BY <3>1, LedgerEntries
    <3> QED
      BY <1>1, <3>1, <3>2, <3>3, SameGrows, BlockedGrows
  <2>2. CASE s = t /\ n = k
    <3>1. u \in DOMAIN ledger /\ u \in Nat /\ u > t
      BY <1>1, <1>2, <1>3, <2>2, LedgerEntries
    <3>2. isBlocked(t, k)'
      BY <3>1, StartBlocks
    <3> QED
      BY <2>2, <3>2
  <2> QED
    BY <1>2, <1>3, <2>1, <2>2
<1>6. LedgersElected'
  BY <1>1, ElectedSurvives DEF LedgersElected
<1> QED
  BY <1>4, <1>5, <1>6

LEMMA StartAcks ==
  ASSUME Steps, NEW i, NEW l, NEW new, NEW t, NEW k, starts(i, l, new, t, k)
  PROVE  /\ AcksInRange' /\ AcksSecured' /\ StoredNow' /\ SecuredHeld'
         /\ hasStored(i, t, k)' /\ hasPrefix(new, t, k)'
<1> USE DEF Steps, RaftInv
<1>1. /\ Continues /\ t \in DOMAIN ledger' /\ Len(ledger'[t]) = k
      /\ \A n \in 1..k : ledger'[t][n] = wholeEntry(new, n)
  BY StartContinues
<1>2. PICK a : a = <<t, i, k, t>>
  OBVIOUS
<1>3. a[1] = t /\ a[2] = i /\ a[3] = k /\ a[4] = t
  BY <1>2
<1>4. /\ i \in Server /\ t \in Nat /\ k \in Nat \ {0} /\ lastIndex(new) = k
      /\ currentTerm'[i] = t /\ logs'[i] = new /\ committed' = committed
      /\ acks' = acks \cup {a} /\ new \in Logs /\ k # new.index
      /\ entryAt(new, k).term = t
  <2>1. l \in Logs /\ k = lastIndex(l) + 1 /\ new.index = l.index
    BY DEF starts
  <2>2. k # new.index
    BY <2>1, LogTypes
  <2>3. logs'[i] = new
    BY DEF starts, TypeInv, NodeTypes
  <2> QED
    BY <1>2, <2>2, <2>3 DEF starts
<1>5. ASSUME NEW n \in 1..k PROVE hasPrefix(new, t, n)' /\ hasSecured(i, t, n)'
  <2>1. \A q \in 1..n : q \in 1..k /\ wholeEntry(new, q)' = wholeEntry(new, q)
    BY <1>4 DEF wholeEntry
  <2>2. n <= k /\ k >= n /\ t >= t
    BY <1>4
  <2>3. hasPrefix(new, t, n)'
    BY <1>1, <1>4, <2>1, <2>2 DEF hasPrefix
  <2>4. hasSecured(i, t, n)'
    BY <1>3, <1>4, <2>2 DEF hasSecured
  <2> QED
    BY <2>3, <2>4
<1>6. hasPrefix(new, t, k)' /\ hasStored(i, t, k)'
  <2>1. k \in 1..k /\ k >= k
    BY <1>4
  <2>2. hasStored(i, t, k)'
    BY <1>3, <1>4, <2>1 DEF hasStored
  <2> QED
    BY <1>5, <2>1, <2>2
<1>7. AcksInRange'
  <2>1. ASSUME NEW b \in acks'
        PROVE  /\ b[1] \in DOMAIN ledger' /\ b[1] <= currentTerm'[b[2]]
               /\ b[3] <= Len(ledger'[b[1]])
    <3>1. CASE b \in acks
      BY <1>1, <3>1, AcksSurvive
    <3>2. CASE b = a
      BY <1>1, <1>3, <1>4, <3>2
    <3> QED
      BY <1>4, <3>1, <3>2
  <2> QED
    BY <2>1 DEF AcksInRange
<1>8. AcksSecured'
  <2>1. ASSUME NEW b \in acks', NEW n \in 1..b[3], isOwn(b[1], n)'
        PROVE  hasSecured(b[2], b[1], n)' \/ isChosen(b[1], n)'
    <3>1. CASE b \in acks
      BY <1>1, <2>1, <3>1, AcksSurvive
    <3>2. CASE b = a
      <4>1. hasSecured(i, t, n)'
        BY <1>3, <1>5, <3>2
      <4> QED
        BY <1>3, <3>2, <4>1
    <3> QED
      BY <1>4, <3>1, <3>2
  <2> QED
    BY <2>1 DEF AcksSecured
<1>9. StoredNow'
  <2>1. ASSUME NEW b \in acks', b[1] = currentTerm'[b[2]]
        PROVE  hasPrefix(logs[b[2]], b[1], b[3])'
    <3>1. CASE b \in acks
      BY <1>1, <2>1, <3>1, AcksSurvive
    <3>2. CASE b = a
      BY <1>3, <1>4, <1>6, <3>2
    <3> QED
      BY <1>4, <3>1, <3>2
  <2> QED
    BY <2>1 DEF StoredNow
<1>10. SecuredHeld'
  <2> SUFFICES ASSUME NEW j \in Server, NEW u \in DOMAIN ledger',
                      NEW n \in 1..Len(ledger'[u]),
                      isOwn(u, n)', hasSecured(j, u, n)'
               PROVE  (holds(logs[j], u, n) \/ isBlocked(u, n))'
    BY DEF SecuredHeld
  <2>1. PICK b \in acks' : b[1] = u /\ b[2] = j /\ b[3] >= n /\ b[4] >= u
    BY DEF hasSecured
  <2>2. CASE b \in acks
    <3>1. hasSecured(j, u, n) /\ n \in Nat
      BY <2>1, <2>2 DEF hasSecured
    <3> QED
      BY <1>1, <3>1, SecuredSurvives
  <2>3. CASE b = a
    <3>1. u = t /\ j = i /\ n \in 1..k
      BY <1>1, <1>3, <1>4, <2>1, <2>3
    <3>2. hasPrefix(new, t, n)'
      BY <1>5, <3>1
    <3>3. lastTerm(new) = t
      BY <1>4 DEF lastTerm, termAt, entryAt
    <3>4. (lastTerm(new) >= t)'
      BY <1>4, <3>3
    <3> QED
      BY <1>4, <3>1, <3>2, <3>4 DEF holds
  <2> QED
    BY <1>4, <2>1, <2>2, <2>3
<1> QED
  BY <1>6, <1>7, <1>8, <1>9, <1>10

LEMMA StartNode ==
  ASSUME Steps, NEW i, NEW l, NEW new, NEW t, NEW k, starts(i, l, new, t, k)
  PROVE  isNodeLog(logs[i], currentTerm[i])' /\ knowsCommitted(i)'
<1> USE DEF Steps, RaftInv
<1>1. /\ Grows /\ \A n \in 1..k : ledger'[t][n] = wholeEntry(new, n)
  BY StartContinues DEF Continues
<1>2. /\ i \in Server /\ t \in Nat /\ currentTerm[i] = t /\ currentTerm'[i] = t
      /\ k \in Nat \ {0} /\ k = lastIndex(l) + 1 /\ l \in Logs /\ logs[i] = l
      /\ new \in Logs /\ new.index = l.index /\ new.term = l.term
      /\ lastIndex(new) = k /\ entryAt(new, k).term = t
      /\ \A n \in (l.index + 1)..lastIndex(l) : entryAt(new, n) = entryAt(l, n)
      /\ UNCHANGED <<commitIndex, committed>>
  BY DEF starts
<1>3. logs'[i] = new
  BY DEF starts, TypeInv, NodeTypes
<1>4. PICK c : c = commitIndex[i]
  OBVIOUS
<1>5. /\ l.index \in Nat /\ lastIndex(l) \in Nat /\ l.index <= lastIndex(l)
      /\ isNodeLog(l, t) /\ c \in Nat /\ c <= lastIndex(l) /\ c <= Len(committed)
      /\ isSettled(c, t) /\ committedPrefix(l, c)
  BY <1>2, <1>4, NodeLogs DEF SafetyInv, PrefixSettled, knowsCommitted
<1>6. isNodeLog(l, t)'
  BY <1>1, <1>2, <1>5, NodeLogGrows
<1>7. isNodeLog(new, t)'
  <2>1. ASSUME NEW n \in (new.index + 1)..k
        PROVE  /\ termAt(new, n) <= t /\ isOwn(termAt(new, n), n)'
               /\ \A q \in (new.index + 1)..n :
                    entryAt(new, q) = ledger'[termAt(new, n)][q]
    <3>1. CASE n # k
      <4>1. n \in (l.index + 1)..lastIndex(l)
        BY <1>2, <1>5, <3>1
      <4>2. PICK s : s = termAt(l, n)
        OBVIOUS
      <4>3. termAt(new, n) = s
        BY <1>2, <1>5, <4>1, <4>2 DEF termAt, entryAt
      <4>4. /\ s <= t /\ isOwn(s, n)'
            /\ \A q \in (l.index + 1)..n : entryAt(l, q) = ledger'[s][q]
        BY <1>6, <4>1, <4>2 DEF isNodeLog
      <4>5. ASSUME NEW q \in (l.index + 1)..n PROVE entryAt(new, q) = ledger'[s][q]
        <5>1. q \in (l.index + 1)..lastIndex(l)
          BY <1>5, <4>1
        <5> QED
          BY <1>2, <4>4, <5>1
      <4> QED
        BY <1>2, <4>3, <4>4, <4>5 DEF isOwn
    <3>2. CASE n = k
      <4>1. termAt(new, k) = t
        BY <1>2, <1>5 DEF termAt, entryAt
      <4>2. isOwn(t, k)'
        BY StartOwns
      <4>3. ASSUME NEW q \in (l.index + 1)..k PROVE entryAt(new, q) = ledger'[t][q]
        BY <1>1, <1>2, <1>5 DEF wholeEntry
      <4> QED
        BY <1>2, <3>2, <4>1, <4>2, <4>3 DEF isOwn
    <3> QED
      BY <3>1, <3>2
  <2>2. isSettled(new.index, t)' /\ new.term = committedTerm(new.index)'
    BY <1>2, <1>6 DEF isNodeLog
  <2> QED
    BY <1>2, <2>1, <2>2 DEF isNodeLog, isOwn
<1>8. isSettled(c, t)' /\ committedPrefix(l, c)'
  <2>1. t <= t
    BY <1>2
  <2> QED
    BY <1>1, <1>2, <1>5, <2>1, SettledGrows, PrefixSurvives
<1>9. committedPrefix(new, c)'
  BY <1>2, <1>5, <1>8 DEF committedPrefix
<1>10. knowsCommitted(i)'
  <2>1. commitIndex'[i] = c /\ c <= lastIndex(new)
    BY <1>2, <1>4, <1>5
  <2> QED
    BY <1>2, <1>3, <1>8, <1>9, <2>1 DEF knowsCommitted
<1> QED
  BY <1>2, <1>3, <1>7, <1>10

LEMMA StartVoteRequests ==
  ASSUME Steps, NEW i, NEW l, NEW new, NEW t, NEW k, starts(i, l, new, t, k)
  PROVE  VoteRequestsTrue'
<1> USE DEF Steps, RaftInv
<1>1. /\ Continues /\ Grows /\ NoNewCandidates /\ Len(ledger[t]) = k - 1
  BY StartContinues DEF Continues
<1>2. t \in Nat /\ k \in Nat \ {0} /\ UNCHANGED <<state, currentTerm, messages>>
  BY DEF starts
<1>3. \A u, n : isOwn(u, n)' => isOwn(u, n) \/ (u = t /\ n = k)
  BY StartOwns
<1> SUFFICES ASSUME NEW m \in messages, m.type = "RequestVote",
                    state[m.from] = "Candidate", currentTerm[m.from] = m.term
             PROVE  isTrueVoteRequest(m)'
  BY <1>2 DEF VoteRequestsTrue
<1>4. isTrueVoteRequest(m) /\ m.from \in Server
  BY MessageKinds DEF SafetyInv, VoteRequestsTrue, TypeInv
<1>5. \/ m.lastLogTerm = 0 /\ m.lastLogIndex = 0
      \/ isOwn(m.lastLogTerm, m.lastLogIndex)'
  BY <1>1, <1>4, OwnGrows DEF isTrueVoteRequest
<1>6. ASSUME NEW u \in DOMAIN ledger', NEW n \in 1..Len(ledger'[u]),
             isOwn(u, n)', reaches(m.lastLogTerm, m.lastLogIndex, u, n)
      PROVE  (holds(logs[m.from], u, n) \/ isBlocked(u, n))'
  <2>1. CASE isOwn(u, n)
    <3>1. holds(logs[m.from], u, n) \/ isBlocked(u, n)
      BY <1>4, <1>6, <2>1 DEF isTrueVoteRequest, isOwn
    <3> QED
      BY <1>1, <1>4, <2>1, <3>1, HeldSurvives DEF Continues
  <2>2. CASE u = t /\ n = k
    <3>1. isOwn(m.lastLogTerm, m.lastLogIndex)
      BY <1>2, <1>4, <1>6, <2>2 DEF isTrueVoteRequest, reaches
    <3>2. m.lastLogTerm \in DOMAIN ledger /\ m.lastLogTerm > t
      BY <1>1, <1>2, <1>6, <2>2, <3>1 DEF isOwn, reaches
    <3>3. isBlocked(t, k)'
      BY <3>2, StartBlocks
    <3> QED
      BY <2>2, <3>3
  <2> QED
    BY <1>3, <1>6, <2>1, <2>2
<1> QED
  BY <1>5, <1>6 DEF isTrueVoteRequest, reaches

LEMMA StartIsSafe ==
  ASSUME Steps, NEW i \in Server, NEW v \in Value, Start(i, v)
  PROVE  SafetyInv'
<1>1. PICK l, new, t, k : starts(i, l, new, t, k)
  BY StartStep
<1>2. /\ Continues /\ Grows /\ NoNewCandidates /\ NoNewLeaders
      /\ t \in DOMAIN ledger /\ DOMAIN ledger' = DOMAIN ledger
      /\ \A u \in DOMAIN ledger : u # t => ledger'[u] = ledger[u]
      /\ Len(ledger'[t]) = k
  BY <1>1, StartContinues DEF Continues
<1>3. LedgersMatch' /\ LedgersSafe' /\ LedgersElected'
  BY <1>1, StartLedgers
<1>4. /\ AcksInRange' /\ AcksSecured' /\ StoredNow' /\ SecuredHeld'
      /\ hasStored(i, t, k)' /\ hasPrefix(new, t, k)'
  BY <1>1, StartAcks
<1>5. VoteRequestsTrue' /\ isNodeLog(logs[i], currentTerm[i])' /\ knowsCommitted(i)'
  BY <1>1, StartVoteRequests, StartNode
<1>6. /\ state[i] = "Leader" /\ currentTerm[i] = t /\ t \in Nat /\ k \in Nat
      /\ lastIndex(new) = k
      /\ \A h, j \in Server : h # i \/ j # i => matchIndex'[h][j] = matchIndex[h][j]
      /\ matchIndex'[i][i] = k
      /\ UNCHANGED <<state, currentTerm, commitIndex, applyCh, messages, votes,
                     committed>>
  BY <1>1 DEF starts
<1>7. logs'[i] = new /\ \A h \in Server \ {i} : logs'[h] = logs[h]
  BY <1>1 DEF starts, Steps, RaftInv, TypeInv, NodeTypes
<1> USE DEF Steps, RaftInv
<1>8. CommittedChosen' /\ VotesAsked' /\ CandidatesHold'
  BY <1>2, <1>6, SameCommitted, SameVotes
<1>9. EntriesOwned' /\ PrefixSettled'
  <2>1. ASSUME NEW h \in Server
        PROVE  isNodeLog(logs[h], currentTerm[h])' /\ knowsCommitted(h)'
    <3>1. CASE h = i
      BY <1>5, <3>1
    <3>2. CASE h # i
      BY <1>2, <1>6, <1>7, <3>2, SameNode
    <3> QED
      BY <3>1, <3>2
  <2> QED
    BY <2>1 DEF EntriesOwned, PrefixSettled
<1>10. LeadersHaveLedgers'
  <2>1. ASSUME NEW h \in Server, state[h] = "Leader"
        PROVE  hasLedger(h)'
    <3>1. CASE h = i
      BY <1>2, <1>4, <1>6, <1>7, <3>1 DEF hasLedger
    <3>2. CASE h # i
      <4>1. currentTerm[h] # t
        BY <1>6, <2>1, <3>2, OneLeader
      <4>2. currentTerm[h] \in DOMAIN ledger
        BY <2>1 DEF SafetyInv, LeadersHaveLedgers, hasLedger
      <4> QED
        BY <1>2, <1>6, <1>7, <2>1, <3>2, <4>1, <4>2, SameLeader
    <3> QED
      BY <3>1, <3>2
  <2> QED
    BY <1>6, <2>1 DEF LeadersHaveLedgers
<1>11. ProgressKnown'
  <2>1. ASSUME NEW h \in Server, state[h] = "Leader", NEW j \in Server
        PROVE  knowsProgress(h, j)'
    <3>1. CASE h = i /\ j = i
      BY <1>4, <1>6, <3>1 DEF knowsProgress
    <3>2. CASE h # i \/ j # i
      BY <1>2, <1>6, <2>1, <3>2, SameProgress
    <3> QED
      BY <3>1, <3>2
  <2> QED
    BY <1>6, <2>1 DEF ProgressKnown
<1>12. TrafficTrue' /\ SnapshotsSettled'
  BY <1>2, <1>6, SameTraffic, SameSnapshots
<1> QED
  BY <1>3, <1>4, <1>5, <1>8, <1>9, <1>10, <1>11, <1>12 DEF SafetyInv

-----------------------------------------------------------------------------
(* The invariant *)

LEMMA InitSafety ==
  ASSUME Init
  PROVE  SafetyInv
<1>1. /\ committed = <<>> /\ acks = {} /\ votes = {} /\ messages = {}
      /\ DOMAIN ledger = {} /\ Len(committed) = 0
  BY DEF Init
<1>2. ASSUME NEW i \in Server
      PROVE  /\ state[i] = "Follower" /\ applyCh[i] = {} /\ commitIndex[i] = 0
             /\ logs[i] \in Logs /\ logs[i].index = 0 /\ logs[i].term = 0
             /\ lastIndex(logs[i]) = 0
  BY DEF Init, Logs, lastIndex
<1>3. /\ LedgersMatch /\ LedgersSafe /\ LedgersElected
      /\ AcksInRange /\ AcksSecured /\ VotesAsked /\ CommittedChosen
      /\ StoredNow /\ VoteRequestsTrue /\ TrafficTrue
  BY <1>1 DEF LedgersMatch, LedgersSafe, LedgersElected, AcksInRange,
     AcksSecured, VotesAsked, CommittedChosen, StoredNow, VoteRequestsTrue,
     TrafficTrue
<1>4. /\ LeadersHaveLedgers /\ SecuredHeld /\ CandidatesHold
      /\ SnapshotsSettled /\ ProgressKnown
  BY <1>1, <1>2 DEF LeadersHaveLedgers, SecuredHeld, CandidatesHold,
     SnapshotsSettled, ProgressKnown
<1>5. ASSUME NEW i \in Server
      PROVE  isNodeLog(logs[i], currentTerm[i]) /\ knowsCommitted(i)
  <2>1. isSettled(0, currentTerm[i]) /\ committedTerm(0) = 0
    BY DEF isSettled, committedTerm
  <2>2. isNodeLog(logs[i], currentTerm[i])
    BY <1>2, <2>1 DEF isNodeLog
  <2>3. knowsCommitted(i)
    BY <1>2, <2>1 DEF knowsCommitted, committedPrefix
  <2> QED
    BY <2>2, <2>3
<1> QED
  BY <1>3, <1>4, <1>5 DEF SafetyInv, EntriesOwned, PrefixSettled

LEMMA StutterIsSafe ==
  ASSUME Steps, UNCHANGED vars
  PROVE  SafetyInv'
<1>1. /\ UNCHANGED <<logs, ledgerVars, committed, votes>>
      /\ UNCHANGED <<state, currentTerm, commitIndex, matchIndex, messages, applyCh>>
  BY DEF vars, hardVars, leaderVars, history
<1>2. Calm
  BY <1>1 DEF Calm, NoNewCandidates, NoNewLeaders
<1> QED
  BY <1>1, <1>2, CalmKeepsSafety

LEMMA ReceiveIsSafe ==
  ASSUME Steps, NEW m \in messages, Receive(m)
  PROVE  SafetyInv'
<1>1. CASE RequestVote(m)
  <2>1. GrantVote(m) \/ RefuseVote(m) \/ DenyVote(m)
    BY <1>1 DEF RequestVote
  <2> QED
    BY <1>1, <2>1, GrantIsSafe, RefusalIsSafe
<1> QED
  BY <1>1, HandleVoteResponseIsSafe, AppendEntriesIsSafe, AppendResponseIsSafe,
     InstallSnapshotIsSafe, SnapshotResponseIsSafe DEF Receive

LEMMA NextKeepsSafety ==
  ASSUME Steps, Next
  PROVE  SafetyInv'
<1>1. ASSUME NEW i \in MayCrash, Restart(i) PROVE SafetyInv'
  BY <1>1, RestartIsSafe, BoundAssumption
<1>2. ASSUME NEW i \in Server, NEW index \in SnapshotAt, Snapshot(i, index)
      PROVE  SafetyInv'
  BY <1>2, SnapshotIsSafe, BoundAssumption
<1>3. ASSUME NEW m \in messages, Receive(m) \/ Drop(m) PROVE SafetyInv'
  BY <1>3, ReceiveIsSafe, DropIsSafe
<1> QED
  BY <1>1, <1>2, <1>3, ElectionTimeoutIsSafe, ReplicateIsSafe, StartIsSafe,
     CondInstallSnapshotIsSafe DEF Next

\* What the leaders' ledgers, the acknowledgements, the nodes and the messages
\* in flight know of each other, in every reachable state.
THEOREM SafetyInvariant == Spec => []RaftInv
<1>1. Init => SafetyInv
  BY InitSafety
<1>2. /\ ElectionInv /\ TypeInv /\ LedgerTypes /\ SafetyInv
      /\ ElectionInv' /\ TypeInv' /\ LedgerTypes' /\ [Next]_vars
      => SafetyInv'
  <2> SUFFICES ASSUME ElectionInv, TypeInv, LedgerTypes, SafetyInv,
                      ElectionInv', TypeInv', LedgerTypes', [Next]_vars
               PROVE  SafetyInv'
    OBVIOUS
  <2>1. \A i \in Server : currentTerm[i] \in Nat
    BY DEF TypeInv, NodeTypes
  <2>2. CASE Next
    <3>1. VoteStep
      BY <2>2, NextKeepsInv
    <3>2. Steps
      BY <3>1 DEF Steps, RaftInv, VoteStep, TypeInv, NodeTypes
    <3> QED
      BY <2>2, <3>2, NextKeepsSafety
  <2>3. CASE UNCHANGED vars
    <3>1. Steps
      BY <2>1, <2>3 DEF Steps, RaftInv, vars, hardVars
    <3> QED
      BY <2>3, <3>1, StutterIsSafe
  <2> QED
    BY <2>2, <2>3
<1>3. TypeOK => LedgerTypes
  BY DEF TypeOK, LedgerTypes
<1>4. Spec => []LedgerTypes
  BY <1>3, TypesAreCorrect, PTL
<1>5. Spec => []SafetyInv
  BY <1>1, <1>2, <1>4, ElectionInvariant, TypeInvariant, PTL DEF Spec
<1> QED
  BY <1>4, <1>5, ElectionInvariant, TypeInvariant, PTL DEF RaftInv

-----------------------------------------------------------------------------
(* The theorems *)

\* Two logs that agree on the term at an index have both, up to there, what the
\* leader of that term had: the check of matchLog and the truncation in
\* AppendEntries, across snapshots that are installed in between.
THEOREM LogsMatch == Spec => []LogMatching
<1>1. ASSUME RaftInv PROVE LogMatching
  <2> SUFFICES ASSUME NEW i \in Server, NEW j \in Server,
                      NEW k \in (Max({logs[i].index, logs[j].index}) + 1)
                                  ..Min({lastIndex(logs[i]), lastIndex(logs[j])}),
                      termAt(logs[i], k) = termAt(logs[j], k),
                      NEW n \in (Max({logs[i].index, logs[j].index}) + 1)..k
               PROVE  entryAt(logs[i], n) = entryAt(logs[j], n)
    BY DEF LogMatching
  <2>1. PICK l : l = logs[i]
    OBVIOUS
  <2>2. PICK r : r = logs[j]
    OBVIOUS
  <2>3. /\ isNodeLog(l, currentTerm[i]) /\ isNodeLog(r, currentTerm[j])
        /\ l.index \in Nat /\ r.index \in Nat
        /\ lastIndex(l) \in Nat /\ lastIndex(r) \in Nat
    BY <2>1, <2>2, <1>1, NodeLogs DEF RaftInv, SafetyInv
  <2>4. PICK first : first = Max({l.index, r.index})
    OBVIOUS
  <2>5. PICK last : last = Min({lastIndex(l), lastIndex(r)})
    OBVIOUS
  <2>6. first \in Nat /\ first >= l.index /\ first >= r.index
    BY <2>3, <2>4, MaxOfTwo
  <2>7. last \in Nat /\ last <= lastIndex(l) /\ last <= lastIndex(r)
    BY <2>3, <2>5, MinOfTwo
  <2>8. k \in (first + 1)..last /\ n \in (first + 1)..k
    BY <2>1, <2>2, <2>4, <2>5
  <2>9. /\ k \in (l.index + 1)..lastIndex(l) /\ n \in (l.index + 1)..k
        /\ k \in (r.index + 1)..lastIndex(r) /\ n \in (r.index + 1)..k
    BY <2>3, <2>6, <2>7, <2>8
  <2>10. PICK t : t = termAt(l, k) /\ t = termAt(r, k)
    BY <2>1, <2>2
  <2>11. entryAt(l, n) = ledger[t][n] /\ entryAt(r, n) = ledger[t][n]
    BY <2>3, <2>9, <2>10 DEF isNodeLog
  <2> QED
    BY <2>1, <2>2, <2>11
<1> QED
  BY <1>1, SafetyInvariant, PTL

\* No two nodes ever hand different commands to their services for one index:
\* what a node may apply, and what its snapshot stands for, is what a leader
\* found committed.
THEOREM StateMachinesAreSafe == Spec => []StateMachineSafety
<1>1. ASSUME RaftInv PROVE StateMachineSafety
  <2> SUFFICES ASSUME NEW i \in Server
               PROVE  /\ commitIndex[i] <= Len(committed)
                      /\ committedPrefix(logs[i], commitIndex[i])
                      /\ logs[i].index > 0 =>
                           logs[i].term = committed[logs[i].index].term
    BY DEF StateMachineSafety
  <2>1. /\ commitIndex[i] <= Len(committed) /\ logs[i].index \in Nat
        /\ isNodeLog(logs[i], currentTerm[i])
    BY <1>1, NodeLogs DEF RaftInv, SafetyInv
  <2>2. committedPrefix(logs[i], commitIndex[i])
    BY <1>1 DEF RaftInv, SafetyInv, PrefixSettled, knowsCommitted
  <2> QED
    BY <2>1, <2>2 DEF isNodeLog, committedTerm
<1> QED
  BY <1>1, SafetyInvariant, PTL

\* Who leads after a commit has everything committed: what isLogUpToDate and
\* the commit rule of a leader's own term are for.
THEOREM LeadersAreComplete == Spec => []LeaderCompleteness
<1>1. ASSUME RaftInv PROVE LeaderCompleteness
  <2> SUFFICES ASSUME NEW i \in Server, state[i] = "Leader", committed # <<>>,
                      currentTerm[i] >= committed[Len(committed)].term
               PROVE  /\ lastIndex(logs[i]) >= Len(committed)
                      /\ committedPrefix(logs[i], Len(committed))
    BY DEF LeaderCompleteness
  <2> USE <1>1 DEF RaftInv
  <2>1. PICK k : k = Len(committed)
    OBVIOUS
  <2>2. PICK t : t = committed[k].term
    OBVIOUS
  <2>3. PICK u : u = currentTerm[i]
    OBVIOUS
  <2>4. PICK l : l = logs[i]
    OBVIOUS
  <2>5. k \in Nat /\ k # 0
    BY <2>1 DEF TypeInv, NodeTypes
  <2>6. isChosen(t, k) /\ committedIs(t, k)
    BY <2>1, <2>2, <2>5 DEF SafetyInv, CommittedChosen
  <2>7. /\ u \in DOMAIN ledger /\ lastIndex(l) = Len(ledger[u])
        /\ hasPrefix(l, u, lastIndex(l))
    BY <2>3, <2>4 DEF SafetyInv, LeadersHaveLedgers, hasLedger
  <2>8. sameLedger(t, u, k)
    BY <2>2, <2>1, <2>3, <2>6, <2>7, ChosenNotBlocked, LaterLedgers
       DEF SafetyInv, isChosen
  <2>9. l.index \in Nat /\ lastIndex(l) \in Nat /\ k <= lastIndex(l)
    BY <2>4, <2>7, <2>8, NodeLogs DEF SafetyInv, sameLedger
  <2>10. ASSUME NEW n \in (l.index + 1)..k PROVE entryAt(l, n) = committed[n]
    <3>1. n \in 1..k /\ n \in 1..lastIndex(l) /\ ~(n <= l.index)
      BY <2>5, <2>9
    <3>2. entryAt(l, n) = ledger[u][n]
      BY <2>7, <3>1 DEF hasPrefix, wholeEntry
    <3> QED
      BY <2>6, <2>8, <3>1, <3>2 DEF sameLedger, committedIs
  <2> QED
    BY <2>1, <2>4, <2>5, <2>9, <2>10 DEF committedPrefix
<1> QED
  BY <1>1, SafetyInvariant, PTL

\* No handler and no applier slices a log outside of its range.
THEOREM IndexesAreInRange == Spec => []IndexesInRange
<1>1. ASSUME RaftInv PROVE IndexesInRange
  <2>1. ASSUME NEW i \in Server
        PROVE  logs[i].index <= commitIndex[i] /\ commitIndex[i] <= lastIndex(logs[i])
    BY <1>1, NodeLogs DEF RaftInv, SafetyInv
  <2>2. NextInRange
    BY <1>1 DEF RaftInv, TypeInv
  <2>3. ASSUME NEW m \in messages, m.type = "AppendEntriesResponse", isCurrentLeader(m)
        PROVE  m.prevLogIndex <= lastIndex(logs[m.to])
    BY <1>1, <2>3, CurrentAnswer DEF RaftInv
  <2> QED
    BY <2>1, <2>2, <2>3 DEF IndexesInRange, NextInRange
<1> QED
  BY <1>1, SafetyInvariant, PTL

\* A replica that a leader counts is one, however late the answers come from
\* which matchIndex is set.
THEOREM MatchIndexIsSound == Spec => []MatchIndexSound
<1>1. ASSUME RaftInv PROVE MatchIndexSound
  <2> SUFFICES ASSUME NEW i \in Server, NEW j \in Server, NEW k, k = matchIndex[i][j],
                      state[i] = "Leader", k > logs[i].index,
                      currentTerm[j] <= currentTerm[i]
               PROVE  /\ k <= lastIndex(logs[i]) /\ k <= lastIndex(logs[j])
                      /\ \A n \in (logs[i].index + 1)..k :
                           n > logs[j].index =>
                             entryAt(logs[i], n) = entryAt(logs[j], n)
    BY DEF MatchIndexSound
  <2> USE <1>1 DEF RaftInv
  <2>1. PICK t : t = currentTerm[i]
    OBVIOUS
  <2>2. /\ logs[i].index \in Nat /\ lastIndex(logs[i]) \in Nat
        /\ logs[j].index \in Nat /\ lastIndex(logs[j]) \in Nat
        /\ t \in Nat /\ currentTerm[j] \in Nat /\ k \in Nat
    BY <2>1, NodeLogs DEF SafetyInv, TypeInv, NodeTypes
  <2>3. PICK a \in acks : a[1] = t /\ a[2] = j /\ a[3] >= k
    <3>1. knowsProgress(i, j)
      BY DEF SafetyInv, ProgressKnown
    <3> QED
      BY <2>1, <2>2, <3>1 DEF knowsProgress, hasStored
  <2>4. /\ a[3] \in Nat /\ a[1] = currentTerm[j] /\ a[3] <= Len(ledger[t])
        /\ Len(ledger[t]) \in Nat
    BY <2>1, <2>2, <2>3, LedgerEntries, SMTT(30)
       DEF SafetyInv, AcksInRange, LedgerTypes
  <2>5. hasPrefix(logs[j], t, a[3])
    BY <2>3, <2>4 DEF SafetyInv, StoredNow
  <2>6. /\ lastIndex(logs[i]) = Len(ledger[t])
        /\ hasPrefix(logs[i], t, lastIndex(logs[i]))
    BY <2>1 DEF SafetyInv, LeadersHaveLedgers, hasLedger
  <2>7. k <= lastIndex(logs[i]) /\ k <= lastIndex(logs[j])
    <3>1. a[3] <= lastIndex(logs[j])
      BY <2>5 DEF hasPrefix
    <3>2. a[3] <= lastIndex(logs[i])
      BY <2>4, <2>6
    <3> HIDE <1>1
    <3> QED
      BY <2>2, <2>3, <2>4, <3>1, <3>2
  <2>8. ASSUME NEW n \in (logs[i].index + 1)..k, n > logs[j].index
        PROVE  entryAt(logs[i], n) = entryAt(logs[j], n)
    <3>1. n \in 1..a[3] /\ n \in 1..lastIndex(logs[i])
      BY <2>2, <2>3, <2>4, <2>7, SMTT(30)
    <3>2. ~(n <= logs[i].index) /\ ~(n <= logs[j].index)
      BY <2>2, <2>8
    <3>3. entryAt(logs[i], n) = ledger[t][n]
      BY <2>6, <3>1, <3>2 DEF hasPrefix, wholeEntry
    <3>4. entryAt(logs[j], n) = ledger[t][n]
      BY <2>5, <3>1, <3>2 DEF hasPrefix, wholeEntry
    <3> QED
      BY <3>3, <3>4
  <2> QED
    BY <2>7, <2>8
<1> QED
  BY <1>1, SafetyInvariant, PTL

\* The step that CommittedStays allows.
CommitStep ==
  \A i \in Server :
    \/ commitIndex'[i] >= commitIndex[i]
    \/ commitIndex'[i] = persister[i].snapshot /\ state'[i] = "Follower"

LEMMA NextKeepsCommitted ==
  ASSUME TypeInv, Next
  PROVE  CommitStep
<1> USE DEF TypeInv, NodeTypes
<1>1. CASE UNCHANGED commitIndex
  BY <1>1 DEF CommitStep
<1>2. ASSUME NEW i \in MayCrash, Restart(i) PROVE CommitStep
  <2>1. i \in Server
    BY BoundAssumption
  <2>2. persister[i].logs.index = persister[i].snapshot
    BY <2>1 DEF Durable
  <2> QED
    BY <1>2, <2>1, <2>2, SMTT(30) DEF Restart, Make, CommitStep
<1>3. ASSUME NEW i \in Server, NEW p \in applyCh[i], CondInstallSnapshot(i, p)
      PROVE  CommitStep
  <2>1. CASE isOutdated(i, p)
    BY <1>1, <1>3, <2>1 DEF CondInstallSnapshot
  <2>2. CASE ~isOutdated(i, p)
    <3>1. commitIndex' = [commitIndex EXCEPT ![i] = p.index]
      BY <1>3, <2>2 DEF CondInstallSnapshot
    <3>2. p.index \in Nat /\ commitIndex \in [Server -> Nat]
      BY DEF SnapshotMsg
    <3>3. p.index >= commitIndex[i]
      BY <2>2, <3>2 DEF isOutdated
    <3> QED
      BY <3>1, <3>2, <3>3 DEF CommitStep
  <2> QED
    BY <2>1, <2>2
<1>4. ASSUME NEW m \in messages, AppendEntries(m) PROVE CommitStep
  <2>1. CASE AcceptAppend(m)
    <3>1. m \in AppendRequest /\ m.to \in Server /\ m.leaderCommit \in Nat
      BY <1>4, MessageKinds DEF AppendEntries, AppendRequest
    <3>2. PICK new : /\ new = logs'[m.to]
                     /\ commitIndex' = [commitIndex EXCEPT ![m.to] =
                          Max({@, Min({m.leaderCommit, lastIndex(new)})})]
      BY <2>1, <3>1 DEF AcceptAppend
    <3>3. new \in Logs
      BY <1>4, <3>1, <3>2, AppendEntriesTypes
    <3>4. PICK x : x = Min({m.leaderCommit, lastIndex(new)})
      OBVIOUS
    <3>5. x \in Nat
      BY <3>1, <3>3, <3>4, LogTypes, MinOfTwo
    <3>6. Max({commitIndex[m.to], x}) >= commitIndex[m.to]
      BY <3>1, <3>5, MaxOfTwo
    <3> QED
      BY <3>1, <3>2, <3>4, <3>6, SMTT(30) DEF CommitStep
  <2>2. CASE ~AcceptAppend(m)
    BY <1>1, <1>4, <2>2 DEF AppendEntries, RejectStaleAppend,
       RejectCompactedAppend, RejectConflictingAppend
  <2> QED
    BY <2>1, <2>2
<1>5. ASSUME NEW m \in messages, HandleAppendEntriesResponse(m) PROVE CommitStep
  <2>1. CASE AdvancePeer(m)
    <3>1. m.to \in Server /\ m.from \in Server
      BY <1>5, MessageKinds DEF HandleAppendEntriesResponse
    <3>2. PICK k \in {matchIndex'[m.to][j] : j \in Server} :
            \/ k > commitIndex[m.to]
               /\ commitIndex' = [commitIndex EXCEPT ![m.to] = k]
            \/ UNCHANGED commitIndex
      BY <2>1 DEF AdvancePeer, advanceCommitIndexForLeader, isCommittable
    <3>3. matchIndex' \in [Server -> [Server -> Nat]]
      BY <1>5, HandleAppendEntriesResponseTypes
    <3>4. commitIndex \in [Server -> Nat]
      OBVIOUS
    <3> HIDE DEF TypeInv, NodeTypes
    <3>5. k \in Nat
      <4>1. PICK j \in Server : k = matchIndex'[m.to][j]
        BY <3>2
      <4> QED
        BY <3>1, <3>3, <4>1
    <3>6. CASE UNCHANGED commitIndex
      BY <1>1, <3>6
    <3>7. CASE /\ k > commitIndex[m.to]
               /\ commitIndex' = [commitIndex EXCEPT ![m.to] = k]
      BY <3>1, <3>4, <3>5, <3>7 DEF CommitStep
    <3> QED
      BY <3>2, <3>6, <3>7
  <2>2. CASE ~AdvancePeer(m)
    BY <1>1, <1>5, <2>2 DEF HandleAppendEntriesResponse, BackUpPeer, Depose,
       IgnoreAppendResponse
  <2> QED
    BY <2>1, <2>2
<1>6. ASSUME NEW i \in Server,
             \/ ElectionTimeout(i) \/ (\E j \in Server : ReplicateOneRound(i, j))
             \/ (\E v \in Value : Start(i, v))
             \/ (\E k \in SnapshotAt : Snapshot(i, k))
      PROVE  UNCHANGED commitIndex
  BY <1>6 DEF ElectionTimeout, ReplicateOneRound, Start, Snapshot
<1>7. ASSUME NEW m \in messages,
             \/ Drop(m) \/ RequestVote(m) \/ HandleVoteResponse(m)
             \/ InstallSnapshot(m) \/ HandleInstallSnapshotResponse(m)
      PROVE  UNCHANGED commitIndex
  BY <1>7 DEF Drop, RequestVote, HandleVoteResponse, InstallSnapshot,
     HandleInstallSnapshotResponse
<1> QED
  BY <1>1, <1>2, <1>3, <1>4, <1>5, <1>6, <1>7 DEF Next, Receive

\* What is known to be committed is forgotten by a restart only, and no further
\* back than the snapshot: CondInstallSnapshot is guarded, and the commitIndex
\* of a follower is a maximum.
THEOREM CommittedIsKept == Spec => CommittedStays
<1>1. TypeInv /\ [Next]_vars => [CommitStep]_vars
  BY NextKeepsCommitted
<1>2. CommittedStays <=> [][CommitStep]_vars
  BY PTL DEF CommittedStays, CommitStep
<1> QED
  BY <1>1, <1>2, TypeInvariant, PTL DEF Spec

-----------------------------------------------------------------------------
(* The nodes together are one log that only grows.  The abstract log is what *)
(* a leader has ever found committed; what a node knows of it is a piece of  *)
(* its own log, and these are the same entries in every reachable state.     *)

\* A node's log, from its first entry up to its commitIndex, is a piece of the
\* committed entries.
PiecesCommitted ==
  /\ committed \in Seq(Entry)
  /\ \A i \in Server :
       /\ logs[i].index \in Nat /\ commitIndex[i] \in Nat
       /\ logs[i].index <= commitIndex[i] /\ commitIndex[i] <= Len(committed)
       /\ knownEntries(i) = SubSeq(committed, logs[i].index + 1, commitIndex[i])

LEMMA PieceLength ==
  ASSUME NEW s \in Seq(Entry), NEW b \in Nat, NEW k \in Nat, b <= k, k <= Len(s)
  PROVE  /\ SubSeq(s, b + 1, k) \in Seq(Entry)
         /\ Len(SubSeq(s, b + 1, k)) = k - b
         /\ \A n \in 1..(k - b) : SubSeq(s, b + 1, k)[n] = s[b + n]
<1>1. \A n \in (b + 1)..k : s[n] \in Entry
  BY ElementOfSeq, LenProperties
<1>2. /\ SubSeq(s, b + 1, k) \in Seq(Entry)
      /\ Len(SubSeq(s, b + 1, k)) = IF b + 1 <= k THEN k - (b + 1) + 1 ELSE 0
      /\ \A n \in 1..(k - (b + 1) + 1) : SubSeq(s, b + 1, k)[n] = s[b + 1 + n - 1]
  BY <1>1, SubSeqProperties
<1> QED
  BY <1>2

LEMMA SamePiece ==
  ASSUME NEW s \in Seq(Entry), NEW t \in Seq(Entry), NEW b \in Nat, NEW c \in Nat,
         NEW d \in Nat, b + d <= Len(s), c + d <= Len(t),
         \A n \in 1..d : s[b + n] = t[c + n]
  PROVE  SubSeq(s, b + 1, b + d) = SubSeq(t, c + 1, c + d)
<1>1. /\ SubSeq(s, b + 1, b + d) \in Seq(Entry)
      /\ Len(SubSeq(s, b + 1, b + d)) = d
      /\ \A n \in 1..d : SubSeq(s, b + 1, b + d)[n] = s[b + n]
  BY PieceLength
<1>2. /\ SubSeq(t, c + 1, c + d) \in Seq(Entry)
      /\ Len(SubSeq(t, c + 1, c + d)) = d
      /\ \A n \in 1..d : SubSeq(t, c + 1, c + d)[n] = t[c + n]
  BY PieceLength
<1> QED
  BY <1>1, <1>2, SeqEqual

\* What is a piece of the committed entries is still one when these grow.
LEMMA PieceOfLonger ==
  ASSUME NEW s \in Seq(Entry), NEW t \in Seq(Entry), Len(s) <= Len(t),
         s = SubSeq(t, 1, Len(s)), NEW b \in Nat, NEW k \in Nat, b <= k, k <= Len(s)
  PROVE  SubSeq(s, b + 1, k) = SubSeq(t, b + 1, k)
<1>1. Len(s) \in Nat /\ Len(t) \in Nat
  BY LenProperties
<1>2. \A n \in 1..Len(s) : SubSeq(t, 0 + 1, Len(s))[n] = t[0 + n]
  BY <1>1, PieceLength
<1>3. \A n \in 1..Len(s) : s[n] = t[n]
  BY <1>1, <1>2
<1> DEFINE d == k - b
<1>4. d \in Nat /\ b + d = k /\ b + d <= Len(s) /\ b + d <= Len(t)
  BY <1>1
<1>5. \A n \in 1..d : b + n \in 1..Len(s)
  BY <1>1
<1> HIDE DEF d
<1>6. SubSeq(s, b + 1, b + d) = SubSeq(t, b + 1, b + d)
  BY <1>3, <1>4, <1>5, SamePiece
<1> QED
  BY <1>4, <1>6

LEMMA InvariantPieces ==
  ASSUME RaftInv
  PROVE  PiecesCommitted
<1>1. committed \in Seq(Entry)
  BY DEF RaftInv, TypeInv, NodeTypes
<1>2. ASSUME NEW i \in Server
      PROVE  /\ logs[i].index \in Nat /\ commitIndex[i] \in Nat
             /\ logs[i].index <= commitIndex[i] /\ commitIndex[i] <= Len(committed)
             /\ knownEntries(i) = SubSeq(committed, logs[i].index + 1, commitIndex[i])
  <2> DEFINE b == logs[i].index
             k == commitIndex[i]
             e == logs[i].entries
  <2>1. /\ logs[i] \in Logs /\ b \in Nat /\ k \in Nat /\ b <= k
        /\ k <= lastIndex(logs[i]) /\ k <= Len(committed) /\ Len(committed) \in Nat
    BY NodeLogs DEF RaftInv, SafetyInv
  <2>2. e \in Seq(Entry) /\ Len(e) \in Nat /\ lastIndex(logs[i]) = b + Len(e)
    BY <2>1, LogTypes
  <2>3. committedPrefix(logs[i], k)
    BY DEF RaftInv, SafetyInv, PrefixSettled, knowsCommitted
  <2>4. \A n \in (b + 1)..k : e[n - b] = committed[n]
    BY <2>3 DEF committedPrefix, entryAt
  <2> DEFINE d == k - b
  <2>5. d \in Nat /\ 0 + d <= Len(e) /\ b + d <= Len(committed) /\ b + d = k
    BY <2>1, <2>2
  <2>6. ASSUME NEW n \in 1..d PROVE e[0 + n] = committed[b + n]
    <3>1. b + n \in (b + 1)..k /\ (b + n) - b = 0 + n
      BY <2>1
    <3> HIDE DEF b, k, e, d
    <3> QED
      BY <2>4, <3>1
  <2>7. knownEntries(i) = SubSeq(e, 1, d)
    BY DEF knownEntries
  <2> HIDE DEF b, k, e, d
  <2>8. SubSeq(e, 0 + 1, 0 + d) = SubSeq(committed, b + 1, b + d)
    BY <1>1, <2>1, <2>2, <2>5, <2>6, SamePiece
  <2>9. SubSeq(e, 1, d) = SubSeq(committed, b + 1, k)
    <3>1. 0 + 1 = 1 /\ 0 + d = d
      BY <2>5
    <3>2. SubSeq(e, 1, d) = SubSeq(committed, b + 1, b + d)
      BY <2>8, <3>1, Zenon
    <3> QED
      BY <2>5, <3>2, Zenon
  <2> QED
    BY <2>1, <2>7, <2>9, Zenon DEF b, k
<1> QED
  BY <1>1, <1>2 DEF PiecesCommitted

-----------------------------------------------------------------------------
(* The steps of the abstract log *)

\* The committed entries grow at their end, if at all.
LogGrows ==
  Len(committed) <= Len(committed') /\ committed = SubSeq(committed', 1, Len(committed))

\* Only what i knows of the committed entries changes.
OnlyKnows(i) ==
  /\ PiecesCommitted /\ PiecesCommitted'
  /\ \A j \in Server \ {i} :
       logs'[j].index = logs[j].index /\ commitIndex'[j] = commitIndex[j]

LEMMA SameIsGrown ==
  ASSUME committed \in Seq(Entry), UNCHANGED committed
  PROVE  LogGrows
<1>1. Len(committed) \in Nat
  BY LenProperties
<1>2. SubSeq(committed, 0 + 1, Len(committed)) = committed
  <2>1. /\ SubSeq(committed, 0 + 1, Len(committed)) \in Seq(Entry)
        /\ Len(SubSeq(committed, 0 + 1, Len(committed))) = Len(committed) - 0
        /\ \A n \in 1..(Len(committed) - 0) :
             SubSeq(committed, 0 + 1, Len(committed))[n] = committed[0 + n]
    BY <1>1, PieceLength
  <2>2. \A n \in 1..Len(committed) : 0 + n = n
    BY <1>1
  <2>3. Len(committed) - 0 = Len(committed)
    BY <1>1
  <2> QED
    BY <2>1, <2>2, <2>3, SeqEqual
<1> QED
  BY <1>1, <1>2 DEF LogGrows

LEMMA SamePieces ==
  ASSUME PiecesCommitted, PiecesCommitted', LogGrows, NEW j \in Server,
         logs'[j].index = logs[j].index, commitIndex'[j] = commitIndex[j]
  PROVE  knownEntries(j)' = knownEntries(j)
<1> DEFINE b == logs[j].index
           k == commitIndex[j]
<1>1. /\ committed \in Seq(Entry) /\ committed' \in Seq(Entry)
      /\ b \in Nat /\ k \in Nat /\ b <= k /\ k <= Len(committed)
      /\ knownEntries(j) = SubSeq(committed, b + 1, k)
      /\ knownEntries(j)' = SubSeq(committed', b + 1, k)
  BY DEF PiecesCommitted
<1> HIDE DEF b, k
<1>2. SubSeq(committed, b + 1, k) = SubSeq(committed', b + 1, k)
  BY <1>1, PieceOfLonger DEF LogGrows
<1> QED
  BY <1>1, <1>2

LEMMA NodeSees ==
  ASSUME NEW i \in Server, OnlyKnows(i), LogGrows
  PROVE  /\ [j \in Server |-> logs'[j].index] =
              [[j \in Server |-> logs[j].index] EXCEPT ![i] = logs'[i].index]
         /\ logs'[i].index = logs[i].index =>
              [j \in Server |-> logs'[j].index] = [j \in Server |-> logs[j].index]
         /\ Replicated!knows(i, logs'[i].index, commitIndex'[i])
<1>1. /\ [j \in Server |-> logs'[j].index] =
           [[j \in Server |-> logs[j].index] EXCEPT ![i] = logs'[i].index]
      /\ logs'[i].index = logs[i].index =>
           [j \in Server |-> logs'[j].index] = [j \in Server |-> logs[j].index]
  BY DEF OnlyKnows
<1>2. \A j \in Server \ {i} : knownEntries(j)' = knownEntries(j)
  BY SamePieces DEF OnlyKnows
<1>3. knownEntries(i)' = SubSeq(committed', logs'[i].index + 1, commitIndex'[i])
  BY DEF OnlyKnows, PiecesCommitted
<1>4. [j \in Server |-> knownEntries(j)'] =
        [[j \in Server |-> knownEntries(j)] EXCEPT
           ![i] = SubSeq(committed', logs'[i].index + 1, commitIndex'[i])]
  BY <1>2, <1>3
<1> QED
  BY <1>1, <1>4 DEF Replicated!knows

LEMMA LastKnown ==
  ASSUME PiecesCommitted, NEW i \in Server
  PROVE  /\ [j \in Server |-> logs[j].index][i] = logs[i].index
         /\ Replicated!last(i) = commitIndex[i]
<1> DEFINE b == logs[i].index
           k == commitIndex[i]
<1>1. /\ committed \in Seq(Entry)
      /\ b \in Nat /\ k \in Nat /\ b <= k /\ k <= Len(committed)
      /\ knownEntries(i) = SubSeq(committed, b + 1, k)
  BY DEF PiecesCommitted
<1> HIDE DEF b, k
<1>2. Len(knownEntries(i)) = k - b
  BY <1>1, PieceLength
<1>3. Replicated!last(i) = b + Len(knownEntries(i))
  BY DEF Replicated!last, b
<1>4. b + (k - b) = k
  BY <1>1
<1> QED
  BY <1>2, <1>3, <1>4 DEF b, k

LEMMA NothingSeen ==
  ASSUME PiecesCommitted, PiecesCommitted', UNCHANGED committed,
         \A j \in Server : logs'[j].index = logs[j].index
                           /\ commitIndex'[j] = commitIndex[j]
  PROVE  UNCHANGED Replicated!vars
<1>1. LogGrows
  BY SameIsGrown DEF PiecesCommitted
<1>2. \A j \in Server : knownEntries(j)' = knownEntries(j)
  BY <1>1, SamePieces
<1>3. [j \in Server |-> logs'[j].index] = [j \in Server |-> logs[j].index]
  OBVIOUS
<1>4. [j \in Server |-> knownEntries(j)'] = [j \in Server |-> knownEntries(j)]
  BY <1>2
<1> QED
  BY <1>3, <1>4 DEF Replicated!vars

\* A node learns more of what was chosen before, or nothing.
LEMMA NodeLearns ==
  ASSUME NEW i \in Server, OnlyKnows(i), UNCHANGED committed,
         logs'[i].index = logs[i].index, commitIndex'[i] >= commitIndex[i]
  PROVE  Replicated!Next
<1> DEFINE k == commitIndex'[i]
<1>1. /\ k \in Nat /\ commitIndex[i] \in Nat /\ k <= Len(committed)
      /\ Len(committed) \in Nat
  BY LenProperties DEF OnlyKnows, PiecesCommitted
<1>2. LogGrows
  BY SameIsGrown DEF OnlyKnows, PiecesCommitted
<1>3. /\ Replicated!knows(i, logs[i].index, k)
      /\ [j \in Server |-> logs'[j].index] = [j \in Server |-> logs[j].index]
  BY <1>2, NodeSees DEF Replicated!knows
<1>4. /\ [j \in Server |-> logs[j].index][i] = logs[i].index
      /\ Replicated!last(i) = commitIndex[i]
  BY LastKnown DEF OnlyKnows
<1>5. k \in Replicated!last(i)..Len(committed)
  BY <1>1, <1>4
<1> HIDE DEF k
<1>6. Replicated!Learn(i)
  BY <1>3, <1>4, <1>5 DEF Replicated!Learn, Replicated!knows
<1> QED
  BY <1>6 DEF Replicated!Next

LEMMA NodeCompacts ==
  ASSUME NEW i \in Server, OnlyKnows(i), UNCHANGED committed,
         logs[i].index < logs'[i].index, commitIndex'[i] = commitIndex[i]
  PROVE  Replicated!Next
<1> DEFINE k == logs'[i].index
<1>1. /\ k \in Nat /\ commitIndex[i] \in Nat /\ logs[i].index \in Nat
      /\ k <= commitIndex[i]
  BY DEF OnlyKnows, PiecesCommitted
<1>2. LogGrows
  BY SameIsGrown DEF OnlyKnows, PiecesCommitted
<1>3. /\ Replicated!knows(i, k, commitIndex[i])
      /\ [j \in Server |-> logs'[j].index] =
           [[j \in Server |-> logs[j].index] EXCEPT ![i] = k]
  BY <1>2, NodeSees DEF Replicated!knows
<1>4. /\ [j \in Server |-> logs[j].index][i] = logs[i].index
      /\ Replicated!last(i) = commitIndex[i]
  BY LastKnown DEF OnlyKnows
<1> HIDE DEF k
<1>5. k \in ([j \in Server |-> logs[j].index][i] + 1)..Replicated!last(i)
  BY <1>1, <1>4 DEF k
<1>6. Replicated!Compact(i)
  BY <1>3, <1>4, <1>5 DEF Replicated!Compact, Replicated!knows
<1> QED
  BY <1>6 DEF Replicated!Next

LEMMA NodeInstalls ==
  ASSUME NEW i \in Server, OnlyKnows(i), UNCHANGED committed,
         commitIndex[i] < commitIndex'[i], logs'[i].index = commitIndex'[i]
  PROVE  Replicated!Next
<1> DEFINE k == commitIndex'[i]
<1>1. /\ k \in Nat /\ commitIndex[i] \in Nat /\ k <= Len(committed)
      /\ Len(committed) \in Nat
  BY LenProperties DEF OnlyKnows, PiecesCommitted
<1>2. LogGrows
  BY SameIsGrown DEF OnlyKnows, PiecesCommitted
<1>3. /\ Replicated!knows(i, k, k)
      /\ [j \in Server |-> logs'[j].index] =
           [[j \in Server |-> logs[j].index] EXCEPT ![i] = k]
  BY <1>2, NodeSees
<1>4. Replicated!last(i) = commitIndex[i]
  BY LastKnown DEF OnlyKnows
<1>5. k \in (Replicated!last(i) + 1)..Len(committed)
  BY <1>1, <1>4
<1> HIDE DEF k
<1>6. Replicated!Install(i)
  BY <1>3, <1>5 DEF Replicated!Install, Replicated!knows
<1> QED
  BY <1>6 DEF Replicated!Next

LEMMA NodeRestarts ==
  ASSUME NEW i \in Server, OnlyKnows(i), UNCHANGED committed,
         logs'[i].index = logs[i].index, commitIndex'[i] = logs[i].index
  PROVE  Replicated!Next
<1>1. LogGrows
  BY SameIsGrown DEF OnlyKnows, PiecesCommitted
<1>2. /\ Replicated!knows(i, logs[i].index, logs[i].index)
      /\ [j \in Server |-> logs'[j].index] = [j \in Server |-> logs[j].index]
  BY <1>1, NodeSees DEF Replicated!knows
<1>3. [j \in Server |-> logs[j].index][i] = logs[i].index
  OBVIOUS
<1>4. Replicated!Restart(i)
  BY <1>2, <1>3 DEF Replicated!Restart, Replicated!knows
<1> QED
  BY <1>4 DEF Replicated!Next

LEMMA NodeChooses ==
  ASSUME NEW i \in Server, OnlyKnows(i), LogGrows,
         logs'[i].index = logs[i].index, commitIndex'[i] = Len(committed'),
         Len(committed) < Len(committed')
  PROVE  Replicated!Next
<1>1. /\ Replicated!knows(i, logs[i].index, Len(committed'))
      /\ [j \in Server |-> logs'[j].index] = [j \in Server |-> logs[j].index]
  BY NodeSees DEF Replicated!knows
<1>2. [j \in Server |-> logs[j].index][i] = logs[i].index
  OBVIOUS
<1>3. committed' \in Seq(Entry)
  BY DEF OnlyKnows, PiecesCommitted
<1>4. Replicated!Choose(i)
  BY <1>1, <1>2, <1>3 DEF Replicated!Choose, Replicated!knows, LogGrows
<1> QED
  BY <1>4 DEF Replicated!Next

-----------------------------------------------------------------------------
(* Every step of Raft is one of these, or changes nothing of what is known. *)

\* What both ends of a step satisfy.
StepOfRaft ==
  /\ PiecesCommitted /\ PiecesCommitted' /\ RaftInv /\ TypeInv'

LogStep == [Replicated!Next]_(Replicated!vars)

\* What a step leaves alone, it leaves alone in the abstract log.
LEMMA UnknownChanges ==
  ASSUME StepOfRaft, UNCHANGED <<commitIndex, committed>>,
         \A j \in Server : logs'[j].index = logs[j].index
  PROVE  LogStep
<1>1. UNCHANGED Replicated!vars
  BY NothingSeen DEF StepOfRaft
<1> QED
  BY <1>1 DEF LogStep

\* AppendEntries: the log may be truncated, but its start stays, and commitIndex
\* only rises.
LEMMA AppendLearns ==
  ASSUME StepOfRaft, NEW m \in messages, AppendEntries(m)
  PROVE  LogStep
<1>1. m \in AppendRequest /\ m.to \in Server /\ m.leaderCommit \in Nat
  BY MessageKinds DEF AppendEntries, AppendRequest, StepOfRaft, RaftInv, TypeInv, NodeTypes
<1>2. UNCHANGED committed
  BY DEF AppendEntries
<1>3. CASE AcceptAppend(m)
  <2>1. PICK new : /\ new = appendEntries(logs[m.to], m.prevLogIndex, m.entries)
                   /\ logs' = [logs EXCEPT ![m.to] = new]
                   /\ commitIndex' = [commitIndex EXCEPT ![m.to] =
                        Max({@, Min({m.leaderCommit, lastIndex(new)})})]
    BY <1>3 DEF AcceptAppend
  <2>2. /\ logs \in [Server -> Logs] /\ commitIndex \in [Server -> Nat]
        /\ logs' \in [Server -> Logs]
    BY DEF StepOfRaft, RaftInv, TypeInv, NodeTypes
  <2>3. new \in Logs /\ new.index = logs[m.to].index
    <3>1. logs[m.to] \in Logs /\ m.entries \in Seq(Entry)
      BY <1>1, <2>2 DEF AppendRequest
    <3>2. m.prevLogIndex \in logs[m.to].index..lastIndex(logs[m.to])
      BY <1>1, <1>3, <3>1, LogTypes DEF AcceptAppend, matchLog, AppendRequest
    <3> QED
      BY <2>1, <3>1, <3>2, AppendTypes
  <2>4. PICK x : x = Min({m.leaderCommit, lastIndex(new)})
    OBVIOUS
  <2>5. x \in Nat
    BY <1>1, <2>3, <2>4, LogTypes, MinOfTwo
  <2>6. Max({commitIndex[m.to], x}) >= commitIndex[m.to]
    BY <1>1, <2>2, <2>5, MaxOfTwo
  <2>7. /\ commitIndex'[m.to] >= commitIndex[m.to]
        /\ \A j \in Server \ {m.to} : commitIndex'[j] = commitIndex[j]
    BY <1>1, <2>1, <2>2, <2>4, <2>6, SMTT(30)
  <2>8. /\ logs'[m.to].index = logs[m.to].index
        /\ \A j \in Server \ {m.to} : logs'[j].index = logs[j].index
    BY <1>1, <2>1, <2>2, <2>3
  <2>9. OnlyKnows(m.to)
    BY <2>7, <2>8 DEF OnlyKnows, StepOfRaft
  <2>10. Replicated!Next
    BY <1>1, <1>2, <2>7, <2>8, <2>9, NodeLearns
  <2> QED
    BY <2>10 DEF LogStep
<1>4. CASE ~AcceptAppend(m)
  <2>1. UNCHANGED <<logs, commitIndex>>
    BY <1>4 DEF AppendEntries, RejectStaleAppend, RejectCompactedAppend,
       RejectConflictingAppend, hardVars
  <2> QED
    BY <1>2, <2>1, UnknownChanges
<1> QED
  BY <1>3, <1>4

\* A leader that counts a majority adds to the committed entries, or only catches
\* up with what a later leader has committed.
LEMMA AdvanceChooses ==
  ASSUME StepOfRaft, NEW m \in messages, HandleAppendEntriesResponse(m)
  PROVE  LogStep
<1>1. m.to \in Server /\ m.from \in Server
  BY MessageKinds DEF HandleAppendEntriesResponse, StepOfRaft, RaftInv, TypeInv,
     NodeTypes
<1>2. CASE AdvancePeer(m)
  <2>1. UNCHANGED logs
    BY <1>2 DEF AdvancePeer, hardVars
  <2>2. PICK k \in {matchIndex'[m.to][j] : j \in Server} :
          \/ /\ isCommittable(m.to, k) /\ recordCommit(logs[m.to], k)
             /\ commitIndex' = [commitIndex EXCEPT ![m.to] = k]
          \/ UNCHANGED <<commitIndex, committed>>
    BY <1>2 DEF AdvancePeer, advanceCommitIndexForLeader
  <2>3. CASE UNCHANGED <<commitIndex, committed>>
    BY <2>1, <2>3, UnknownChanges
  <2>4. CASE /\ isCommittable(m.to, k) /\ recordCommit(logs[m.to], k)
             /\ commitIndex' = [commitIndex EXCEPT ![m.to] = k]
    <3> DEFINE i == m.to
               l == logs[i]
    <3>1. /\ commitIndex \in [Server -> Nat] /\ l \in Logs
          /\ matchIndex' \in [Server -> [Server -> Nat]]
          /\ committed \in Seq(Entry) /\ committed' \in Seq(Entry)
          /\ l.index <= Len(committed) /\ Len(committed) \in Nat
          /\ Len(committed') \in Nat
      <4>1. /\ commitIndex \in [Server -> Nat] /\ l \in Logs
            /\ matchIndex' \in [Server -> [Server -> Nat]]
        BY <1>1 DEF StepOfRaft, RaftInv, TypeInv, NodeTypes
      <4>2. /\ committed \in Seq(Entry) /\ committed' \in Seq(Entry)
            /\ l.index \in Nat /\ commitIndex[i] \in Nat
            /\ l.index <= commitIndex[i] /\ commitIndex[i] <= Len(committed)
        BY <1>1 DEF StepOfRaft, PiecesCommitted
      <4>3. Len(committed) \in Nat /\ Len(committed') \in Nat
        BY <4>2, LenProperties
      <4>4. l.index <= Len(committed)
        BY <4>2, <4>3
      <4> QED
        BY <4>1, <4>2, <4>3, <4>4
    <3>2. k \in Nat
      <4>1. PICK j \in Server : k = matchIndex'[m.to][j]
        BY <2>2
      <4> QED
        BY <1>1, <3>1, <4>1
    <3>3. k > commitIndex[i] /\ k <= lastIndex(l)
      BY <2>4 DEF isCommittable, matchLog
    <3>4. commitIndex'[i] = k /\ \A j \in Server \ {i} : commitIndex'[j] = commitIndex[j]
      BY <1>1, <2>4, <3>1
    <3>5. OnlyKnows(i) /\ logs'[i].index = logs[i].index
      BY <2>1, <3>4 DEF OnlyKnows, StepOfRaft
    <3> HIDE DEF i, l
    <3>6. CASE k <= Len(committed)
      <4>1. UNCHANGED committed
        BY <2>4, <3>6, Zenon DEF recordCommit
      <4>2. commitIndex'[i] >= commitIndex[i] /\ i \in Server
        BY <1>1, <3>1, <3>2, <3>3, <3>4 DEF i
      <4>3. Replicated!Next
        BY <3>5, <4>1, <4>2, NodeLearns
      <4> QED
        BY <4>3 DEF LogStep
    <3>7. CASE Len(committed) < k
      <4>1. /\ Len(committed') = k
            /\ \A n \in 1..Len(committed) : committed'[n] = committed[n]
        BY <2>4, <3>1, <3>2, <3>3, <3>7, CommitEntries DEF i, l
      <4>2. committed = SubSeq(committed', 1, Len(committed))
        <5>1. /\ SubSeq(committed', 0 + 1, Len(committed)) \in Seq(Entry)
              /\ Len(SubSeq(committed', 0 + 1, Len(committed))) = Len(committed) - 0
              /\ \A n \in 1..(Len(committed) - 0) :
                   SubSeq(committed', 0 + 1, Len(committed))[n] = committed'[0 + n]
          BY <3>1, <3>7, <4>1, PieceLength
        <5>2. /\ \A n \in 1..Len(committed) : 0 + n = n
              /\ Len(committed) - 0 = Len(committed)
          BY <3>1
        <5>3. committed = SubSeq(committed', 0 + 1, Len(committed))
          BY <3>1, <4>1, <5>1, <5>2, SeqEqual
        <5> QED
          BY <5>3
      <4>3. LogGrows /\ Len(committed) < Len(committed')
            /\ commitIndex'[i] = Len(committed') /\ i \in Server
        BY <1>1, <3>1, <3>2, <3>4, <3>7, <4>1, <4>2 DEF LogGrows, i
      <4>4. Replicated!Next
        BY <3>5, <4>3, NodeChooses
      <4> QED
        BY <4>4 DEF LogStep
    <3> QED
      BY <3>1, <3>2, <3>6, <3>7
  <2> QED
    BY <2>2, <2>3, <2>4
<1>3. CASE ~AdvancePeer(m)
  <2>1. UNCHANGED <<logs, commitIndex, committed>>
    BY <1>3 DEF HandleAppendEntriesResponse, BackUpPeer, Depose, stepDown, adoptTerm,
       IgnoreAppendResponse, hardVars
  <2> QED
    BY <2>1, UnknownChanges
<1> QED
  BY <1>2, <1>3

LEMMA SnapshotCompacts ==
  ASSUME StepOfRaft, NEW i \in Server, NEW index \in SnapshotAt, Snapshot(i, index)
  PROVE  LogStep
<1>1. /\ logs[i].index < index /\ UNCHANGED <<commitIndex, committed>>
      /\ logs' = [logs EXCEPT ![i] =
           [index |-> index, term |-> termAt(@, index),
            entries |-> dropThrough(@, index)]]
  BY DEF Snapshot, history
<1>2. logs \in [Server -> Logs]
  BY DEF StepOfRaft, RaftInv, TypeInv, NodeTypes
<1>3. logs'[i].index = index /\ \A j \in Server \ {i} : logs'[j] = logs[j]
  BY <1>1, <1>2
<1>4. OnlyKnows(i) /\ logs[i].index < logs'[i].index /\ commitIndex'[i] = commitIndex[i]
  BY <1>1, <1>3 DEF OnlyKnows, StepOfRaft
<1>5. Replicated!Next
  BY <1>1, <1>4, NodeCompacts
<1> QED
  BY <1>5 DEF LogStep

LEMMA CondInstallInstalls ==
  ASSUME StepOfRaft, NEW i \in Server, NEW p \in applyCh[i], CondInstallSnapshot(i, p)
  PROVE  LogStep
<1>1. UNCHANGED committed
  BY DEF CondInstallSnapshot, history
<1>2. CASE isOutdated(i, p)
  <2>1. UNCHANGED <<logs, commitIndex>>
    BY <1>2 DEF CondInstallSnapshot
  <2> QED
    BY <1>1, <2>1, UnknownChanges
<1>3. CASE ~isOutdated(i, p)
  <2>1. /\ logs \in [Server -> Logs] /\ commitIndex \in [Server -> Nat]
        /\ p.index \in Nat
    BY DEF StepOfRaft, RaftInv, TypeInv, NodeTypes, SnapshotMsg
  <2>2. PICK rest :
          /\ logs' = [logs EXCEPT ![i] =
               [index |-> p.index, term |-> p.term, entries |-> rest]]
          /\ commitIndex' = [commitIndex EXCEPT ![i] = p.index]
    BY <1>3 DEF CondInstallSnapshot
  <2>3. /\ logs'[i].index = p.index /\ commitIndex'[i] = p.index
        /\ \A j \in Server \ {i} :
             logs'[j].index = logs[j].index /\ commitIndex'[j] = commitIndex[j]
    BY <2>1, <2>2
  <2>4. commitIndex[i] < p.index
    BY <1>3, <2>1 DEF isOutdated
  <2>5. OnlyKnows(i)
    BY <2>3 DEF OnlyKnows, StepOfRaft
  <2>6. Replicated!Next
    BY <1>1, <2>3, <2>4, <2>5, NodeInstalls
  <2> QED
    BY <2>6 DEF LogStep
<1> QED
  BY <1>2, <1>3

LEMMA RestartForgets ==
  ASSUME StepOfRaft, NEW i \in Server, Restart(i)
  PROVE  LogStep
<1>1. /\ UNCHANGED committed
      /\ logs' = [logs EXCEPT ![i] = persister[i].logs]
      /\ commitIndex' = [commitIndex EXCEPT ![i] = persister[i].logs.index]
  BY DEF Restart, Make, history
<1>2. logs \in [Server -> Logs] /\ commitIndex \in [Server -> Nat]
  BY DEF StepOfRaft, RaftInv, TypeInv, NodeTypes
<1>3. persister[i].logs = logs[i]
  <2>1. Durable
    BY DEF StepOfRaft, RaftInv, TypeInv
  <2>2. persister[i] = [currentTerm |-> currentTerm[i], votedFor |-> votedFor[i],
                        logs |-> logs[i], snapshot |-> logs[i].index]
    BY <2>1, Zenon DEF Durable
  <2> QED
    BY <2>2
<1>4. /\ logs'[i].index = logs[i].index /\ commitIndex'[i] = logs[i].index
      /\ \A j \in Server \ {i} :
           logs'[j].index = logs[j].index /\ commitIndex'[j] = commitIndex[j]
  BY <1>1, <1>2, <1>3
<1>5. OnlyKnows(i)
  BY <1>4 DEF OnlyKnows, StepOfRaft
<1>6. Replicated!Next
  BY <1>1, <1>4, <1>5, NodeRestarts
<1> QED
  BY <1>6 DEF LogStep

\* Start adds to the end of the leader's log, beyond what is known.
LEMMA StartIsUnknown ==
  ASSUME StepOfRaft, NEW i \in Server, NEW v \in Value, Start(i, v)
  PROVE  LogStep
<1>1. UNCHANGED <<commitIndex, committed>>
  BY DEF Start
<1>2. logs' = [logs EXCEPT ![i] = withEntries(@, Append(@.entries,
                [term |-> currentTerm[i], command |-> v]))]
  BY DEF Start
<1>3. logs \in [Server -> Logs]
  BY DEF StepOfRaft, RaftInv, TypeInv, NodeTypes
<1>4. \A j \in Server : logs'[j].index = logs[j].index
  BY <1>2, <1>3 DEF withEntries
<1> QED
  BY <1>1, <1>4, UnknownChanges

LEMMA NextReplicates ==
  ASSUME StepOfRaft, Next
  PROVE  LogStep
<1>1. ASSUME UNCHANGED <<logs, commitIndex, committed>> PROVE LogStep
  BY <1>1, UnknownChanges
<1>2. ASSUME NEW i \in Server, ElectionTimeout(i) \/ \E j \in Server : ReplicateOneRound(i, j)
      PROVE  LogStep
  BY <1>1, <1>2 DEF ElectionTimeout, ReplicateOneRound, hardVars, history
<1>3. ASSUME NEW m \in messages,
             Drop(m) \/ RequestVote(m) \/ HandleVoteResponse(m)
      PROVE  LogStep
  BY <1>1, <1>3 DEF Drop, RequestVote, RefuseVote, DenyVote, GrantVote, adoptTerm,
     HandleVoteResponse, CountVote, LoseElection, IgnoreVoteResponse, stepDown,
     hardVars, history
<1>4. ASSUME NEW m \in messages,
             InstallSnapshot(m) \/ HandleInstallSnapshotResponse(m)
      PROVE  LogStep
  BY <1>1, <1>4 DEF InstallSnapshot, RejectStaleSnapshot, AcceptSnapshot, followLeader,
     adoptTerm, HandleInstallSnapshotResponse, DeposeBySnapshot, AdvancePeerToSnapshot,
     IgnoreSnapshotResponse, stepDown, hardVars, history
<1>5. ASSUME NEW m \in messages, Receive(m) \/ Drop(m) PROVE LogStep
  BY <1>3, <1>4, <1>5, AppendLearns, AdvanceChooses DEF Receive
<1>6. MayCrash \subseteq Server
  BY BoundAssumption
<1> QED
  BY <1>2, <1>5, <1>6, RestartForgets, StartIsUnknown, SnapshotCompacts,
     CondInstallInstalls DEF Next

LEMMA InitReplicates ==
  ASSUME Init
  PROVE  Replicated!Init
<1>1. /\ committed = <<>>
      /\ \A i \in Server : /\ logs[i] = [index |-> 0, term |-> 0, entries |-> <<>>]
                           /\ commitIndex[i] = 0
  BY DEF Init
<1>2. \A i \in Server : logs[i].index = 0 /\ logs[i].entries = <<>>
  BY <1>1
<1>3. \A i \in Server : knownEntries(i) = <<>>
  BY <1>1, <1>2 DEF knownEntries
<1> QED
  BY <1>1, <1>2, <1>3 DEF Replicated!Init

\* The nodes of a group together are one log that only grows at its end, of which
\* each node knows a first part: through elections, truncations (AppendEntries),
\* compaction (Snapshot), installed snapshots (CondInstallSnapshot), lost messages
\* and restarts (Make).
THEOREM ReplicatedLogIsImplemented == Spec => ImplementsReplicatedLog
<1>1. Init => Replicated!Init
  BY InitReplicates
<1>2. RaftInv => PiecesCommitted
  BY InvariantPieces
<1>3. /\ PiecesCommitted /\ PiecesCommitted' /\ RaftInv /\ TypeInv' /\ [Next]_vars
      => [Replicated!Next]_(Replicated!vars)
  <2> SUFFICES ASSUME StepOfRaft, [Next]_vars PROVE LogStep
    BY DEF StepOfRaft, LogStep
  <2>1. CASE UNCHANGED vars
    BY <2>1, UnknownChanges DEF vars, hardVars, history
  <2> QED
    BY <2>1, NextReplicates
<1> QED
  BY <1>1, <1>2, <1>3, SafetyInvariant, TypeInvariant, PTL
     DEF Spec, ImplementsReplicatedLog, Replicated!Spec
=============================================================================
