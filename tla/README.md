# Raft-side: a verification project

TLA+ models of the sharded, replicated key/value store in `src/`, model-checked
with TLC and, for the parts named in section 5, proved with TLAPS. `PROJECT.json` lists
the runs, the source lines each definition stands for, the hazards of the code
and the properties that cover them.

Contents: 1 the system · 2 modules and how they correspond to the code · 3 runs
· 4 bounds, views, fairness · 5 proofs · 6 where code and docs disagree · 7 what
is only model-checked, and what is not modelled · 8 what is left to do

## 1. The system

The program is the MIT 6.824 design (Raft, a shard controller, a sharded KV
service) turned into processes that talk over `net/rpc`. `main.go` starts a
process as a shardkv server, a shardctrler server or a client.

| component | state it keeps | operations | hard parts |
|---|---|---|---|
| **raft**: elections (`raft_vote.go`, `raft_election.go`, `raft_state.go`) | `state`, `currentTerm`, `votedFor`, the closure's `grantedVotes` | election tick, `RequestVote`, counting of the answers | answers of an old term; a tick already taken when the election is won; crash after a vote |
| **raft**: replication (`raft_append_entries.go`, `raft_replication.go`, `raft_util.go`) | `logs`, `commitIndex`, `nextIndex`, `matchIndex` | `Start`, `replicateOneRound`, `AppendEntries`, the answers, the two commit rules | several rounds per peer in flight, late and reordered answers; slices whose indexes come from messages |
| **raft**: compaction (`raft_snapshot.go`) | dummy entry `logs[0]`, goroutines that hold a snapshot for `applyCh` | `Snapshot`, `InstallSnapshot`, `CondInstallSnapshot` | races with commitment, with the service and with other snapshots |
| **raft**: persistence (`raft_persist.go`, `persister.go`) | `raftstate`, `snapshot` | `persist`, `SaveStateAndSnapshot`, `readPersist` | a crash between any two steps |
| **raft**: applier (`raft.go`) | `lastApplied`, `applyCh`, condition variable | pushes committed entries to the service | unlocked push of a batch, against the snapshot goroutine |
| **raft**: calls (`raft_rpc.go`, `utils/rpc.go`) | `peers[].Rpc` | one call per request; a dial once | a connection that breaks is never dialled again |
| **shardctrler** (`server.go`, `configStateMachine.go`, `client.go`) | `Configs`, `lastOperations`, `notifyChans`; clerk: `clientId`, `commandId` | `Join`, `Leave`, `Move`, `Query`, the `Command` handler, the applier | retries and duplicates; loops over maps in Go's random order |
| **shardkv** (`server.go`, `shard.go`, `client.go`) | `stateMachines` (data and status of every shard), `lastConfig`, `currentConfig`, `lastOperations`, `notifyChans` | `Command`, applier for five kinds of entry, monitors for configuration, migration and garbage collection, `GetShardsData`, `DeleteShardsData` | several groups that change configuration at different times, with calls and log entries that are late or repeated |
| labrpc, labgob, utils, global, the command line, docker files | none that matters to the protocol | | left out |

How they interact: the applier of a service takes entries and snapshots from the
channel its Raft fills; `Command` and the monitors call `Start` and wait on a
channel named by the index it returned; the replicas of one shardkv group call
those of another directly (`GetShardsData`, `DeleteShardsData`) and then commit
what they got through their own Raft; shardkv replicas and clerks ask the
controller for configurations with its clerk.

What makes each part correct, and where it is stated:

* Raft: one winner per term, votes never changed or forgotten, committed entries
  never replaced or missing in a later leader, indexes inside the logs, the disk
  always as new as the promises a node has made.
* Applier: the state machine is the result of the committed commands, once each
  and in order, whatever batches and snapshots cross each other; nothing blocks
  for ever; no call returns another call's response.
* Controller: a retried command takes effect once; no shard is lost or doubled;
  a `Join` balances, a `Leave` moves what it must and nothing else; replicas
  agree.
* Key/value service: never two owners of a shard, no data lost on its way, every
  operation once, replicas agree, no configuration overtakes a migration, every
  migration ends.

## 2. Modules

```
ReplicatedLog                         (abstract)
 └─ Raft ───────── MCRaft             (raft_leaders, raft_snapshot)
     │                                implements ReplicatedLog
     ├─ RaftProgress ─ MCRaftProgress (raft_progress, raft_term0)
     ├─ RaftDeployed ─ MCRaftDeployed (raft_deployed)
     ├─ RaftProofs                    ElectionSafety, VoteOnce
     ├─ RaftTypeProofs                TypeOK, Durable
     └─ RaftSafetyProofs              StateMachineSafety, LeaderCompleteness,
                                      LogMatching, IndexesInRange,
                                      MatchIndexSound, CommittedStays,
                                      the refinement
StateMachine                          (abstract)
 └─ ApplyPath ──── MCApplyPath        (apply)         implements StateMachine
     └─ ApplyPathProofs               TypeOK, SliceInRange, SendNeverBlocks,
                                      OwnResponse, the refinement
ShardCtrler ────── MCShardCtrler      (ctrl, ctrl_agree, ctrl_leave, ctrl_clerks)
 └─ ShardCtrlerProofs                 EffectOnce, AnsweredTakesEffect, TypeOK,
                                      ShardsPartitioned, JoinBalances, LeaveMovesOrphans
ShardKV ────────── MCShardKV          (kv_clerk, kv_migrate)
 └─ ShardKVProofs                     TypeOK, ReplicasAgree, ConfigurationWaits
    └─ ShardKVOwnerProofs             OneOwner
       └─ ShardKVHistoryProofs        ShardHistory, ExactlyOnce
```

**Raft.** One action for each handler and for each section of a goroutine that
runs under `rf.mu`. A remote call is three steps: the request is made, the
handler runs, the closure that called handles the answer. `Drop` loses a message
at any of them; `net/rpc` neither retries nor duplicates a request, so nothing
is duplicated, and nothing is ordered, because every call has its own goroutine.
A response carries what the caller's closure still knows (the request's term and
indexes). `rf.logs` is a record of the dummy entry's index and term, and the
sequence of the rest; the snapshot is named by the last index it contains, the
`persister` by the values that `encodeState` writes. `Restart` is a crash and a
`Make` on the same persister. `ReplicateOneRound` stands for a heartbeat and for
a round of the replicator alike. Four history variables, which no guard reads
but the bounds': `votes`, all votes ever granted; `committed`, the entries some
leader has found committed; `ledger`, by term the whole log of that term's
leader, from its first entry to the last one it accepted; and `acks`, who has
ever stored the log of a term's leader up to where, and how its own log ended
then. The last two are what the proofs of section 5 argue with; the properties
do not mention them.

**ReplicatedLog** is what a consensus library promises the services on its nodes:
`chosen`, one log that only grows at its end, and of which each node knows a first
part, holding `base` of its entries as a snapshot only and `known` after these. A
step lets one node learn more, choose more for the group, replace what it knows by
a snapshot, go on from a snapshot that reaches beyond what it knew, or forget all
but its snapshot. Raft implements it with `committed` for `chosen`, the index of
the dummy entry for `base`, and for `known` the entries in the node's own log up to
its `commitIndex` (`Replicated` in Raft): that these are always the ones chosen is
what the refinement is about.

**RaftProgress** adds to Raft the goroutines that keep it moving. A replicator
goroutine is at one of the steps `check`, `wait`, `asleep`, `replicate`, `call`:
between `check` (`needReplicating`, under `rf.mu`) and `asleep` (`Wait`) a
`Signal` is lost, because `Signal` does not take the condition's lock. In `call`
it waits for its own request's answer or loss. `Heartbeat` is the ticker's
round, whose calls nobody waits for. `AddEmptyEntry` is shardkv's monitor
(`checkEntryInCurrentTermAction`). Crashes are left out, for what must happen
eventually does so only while nobody crashes.

**RaftDeployed** adds to Raft what `main.go` does: a process that starts anew
has an empty persister, and its peers keep the connections it closed.

**StateMachine** is the promise a replicated service makes of one replica: its
state is the result of a beginning of the group's commands; a crash takes it
back to the last snapshot saved, and nowhere else. A state is the sequence of
the commands applied to reach it.

**ApplyPath** is one server process from `rf.logs` to the answer of `Execute`:
Raft's applier (`CopyBatch`, `PushEntry` for each entry, `FinishBatch`), the
goroutines of `InstallSnapshot` that are blocked on the same unbuffered channel
(`pushers`), the service's applier (`applier` is what it is about to do with the
`message` in its hands; it holds `kv.mu` from `Apply` to the end of the
message), and `Execute` with its clean-up goroutine. A push and the receipt are
one step, as on an unbuffered channel. `channels` are objects with their own
contents, and `notifyChans` names one per index, so that an index that is used
again by a later leadership finds the old channel or a new one as in the code.
The rest of the group is what module Raft shows of it: `chosen` is the committed
log, who leads has all of it, a follower's log loses only entries that differ
from it. `Crash` keeps what the persister keeps. It is modelled from shardkv;
shardctrler's applier is the same without snapshots.

**ShardCtrler.** The Raft group is its log of committed commands (`Start` either
appends or not; the entry is applied by each replica at its own pace, which is
what StateMachineSafety of Raft provides). A clerk's call may time out, be
answered late or fail with an RPC error. The loop of `Join`
(`Rebalance`) and the two of `Leave` (`TakeGroup`, `AdoptOrphan`) run step by
step, with every outcome that the iteration order of a map allows; `work` is what
the loop that runs has in its local variables. A
duplicated gid in a `Leave` and gid 0 as a real group are among the inputs.

**ShardKV.** Again one log per group. Any replica may think it leads, with a
state machine that lags behind, so any may run the monitors and the handlers.
`tasks` holds what the goroutines of monitors and handlers are about to do: a
call to another group, a wait for an entry, or a `Start` that follows a
successful call. A task that fails is one that nobody goes on with. `Publish` is
the controller's next configuration. A shard holds one key; its value is the
sequence of the operations written to it, so that a lost, repeated or misplaced
one shows. The empty entry has no effect here and is in RaftProgress. When an
inserted or deleted shard is not in the status expected, the loop ends early;
which shards came before it is left open (`handled`), which is what the map
iteration of `applyInsertShards` does and more than the fixed order of
`applyDeleteShards` allows. `effects` is a history variable: the value a shard
would have if one server had applied all operations; `answered` is the
operations that were answered with OK.

How the modules fit together. What one module proves or checks is what the next
one assumes of it: Raft's refinement of ReplicatedLog (one log that only grows, of
which a node knows a first part) and LeaderCompleteness are the
`chosen` of ApplyPath; ApplyPath's refinement of StateMachine (one replica
applies the committed commands once each and in order) is the `log` and
`applied` of ShardCtrler and ShardKV; the sequence of configurations of
ShardCtrler is `Configs` and `Publish` of ShardKV. There is no module that
composes them in one state space, which TLC could not explore.

## 3. Runs

| run | instance | shows |
|---|---|---|
| `raft_leaders` | 3 nodes, 3 elections, 2 entries, no crash | ElectionSafety, StateMachineSafety, LeaderCompleteness: Figure 8 histories |
| `raft_snapshot` | 3 nodes, 2 elections, 2 entries, snapshots at 1, all may crash | TypeOK, StateMachineSafety, LogMatching, Durable, IndexesInRange, MatchIndexSound, CommittedStays, VoteOnce, ImplementsReplicatedLog (refinement) |
| `raft_progress` | 2 nodes after a first term, 1 more election, 2 calls in flight, snapshots at 2 | PeersCatchUp, EntriesCommit (liveness); MatchIndexSound and IndexesInRange with replication calls that overtake each other |
| `raft_term0` | the same | violation of NobodyStalls |
| `raft_deployed` | 3 nodes, 2 elections | violation of OneLeaderPerTerm |
| `apply` | 2 calls of Execute, 1 foreign command, 2 entries, terms to 4, snapshots at 1, 1 crash | TypeOK, SliceInRange, SendNeverBlocks, OwnResponse, ImplementsStateMachine (refinement), CommittedIsApplied and ExecuteReturns (liveness) |
| `ctrl` | 1 replica, 1 clerk, 4 shards, groups 0 to 2, 3 commands, 4 entries | the controller's seven properties, LoopsTerminate among them |
| `ctrl_agree` | 2 replicas, 1 command | violation of ReplicasAgree |
| `ctrl_leave` | 1 replica, 1 clerk, a Join of groups 1 and 2 and a Leave of 2 | violation of LeaveServesOrphans |
| `ctrl_clerks` | 1 replica, 2 clerks | violation of AnsweredTakesEffect |
| `kv_clerk` | 2 groups of 1, one shard there and back, 1 operation, 1 repeated entry | TypeOK, OneOwner, ShardHistory, ExactlyOnce, ConfigurationWaits |
| `kv_migrate` | groups of 2 and 1 that exchange two shards while a third stays | ReplicasAgree, MigrationCompletes (liveness) |

Every property of a passing run has a mutant in `PROJECT.json`: an operator of
the module, marked `Mutant:`, that changes a definition as a plausible bug
would, and under which TLC finds the property violated. A violation run has one
property, which restates what a comment or a document says of the code (section
6).

Deadlock is not checked: every instance stops when its bounds are used up. That
nothing blocks for good is what the liveness properties say instead:
CommittedIsApplied and ExecuteReturns fail if `rf.mu`, `kv.mu`, `applyCh` and
the notification channels could be waited for in a circle.

## 4. Bounds, views, fairness

**Raft.** `MaxElections` bounds elections over all nodes and terms, `MaxIndex`
the commands accepted, `MaxInFlight` the replication messages on the wire (vote
messages are not bounded), `SnapshotAt` the indexes at which the service
snapshots, `MayCrash` who may crash. None of them is in a handler: they limit
what the environment starts. Three elections with two entries are what it takes
to commit an entry of an old term wrongly; one snapshot at index 1 and two
entries leave an entry beyond it, so that a late snapshot can hit a log that has
moved on. Two messages in flight, in `raft_progress`, are what it takes for an
answer to overtake another. The mutants confirm that the cases occur.

**RaftProgress.** The instance starts where a first term has left it
(`AfterFirstTerm` in MCRaftProgress: node n1 has led, one or both nodes have its
entry, both have restarted), so that one election is enough for a leader with an
entry it may not count. These are states Raft reaches, with `MaxElections` 2 to
count that first election. Clients propose nothing beyond `MaxCommands` 2,
`MaxIndex` 4 leaves room for the monitor's entries.

**ApplyPath.** Two callers, two indexes and terms to 4 let the node lead twice
and give one index to both callers; one foreign command is what an entry can
lose to; one snapshot point below the last index lets a snapshot fall into a
batch that is being pushed; one crash is enough because a crash forgets
everything but the persister. Terms count only this node's leaderships.

**ShardCtrler.** `MaxCommands` per clerk, `MaxLog` entries, one more than the
commands so that a command can be in the log twice. **ShardKV.** `Configs` is
the fixed sequence of configurations, `MaxCommands` per clerk, `MaxRepeats` the
entries that repeat one already in the log of a group. The two sequences of
configurations are a shard that leaves and returns (stale calls meet newer data)
and an exchange (mutual waiting) beside a shard that stays. `kv_migrate` starts
when all replicas have applied the first configuration, which moves nothing
(`AfterFirst` in MCShardKV). In neither sequence does a shard go back to gid 0:
OneOwner, ShardHistory and ExactlyOnce do not hold when one does (section 6, 5).

**Views.** `raft_leaders`, `raft_snapshot` and `kv_clerk` use `VIEW`s that leave
out what can no longer influence anything: messages that can
only be refused and whose answer nobody awaits, a former leader's progress, a
non-candidate's count, the histories `ledger` and `acks`, in ShardKV also log entries that all replicas have
applied and tasks whose commands all replicas have outgrown. Each definition in
`MCRaft` and `MCShardKV` states what it drops; what the refinement of ReplicatedLog
maps (`logs`, `commitIndex`, `committed`) is kept. No liveness property is checked
under a view. `SYMMETRY` is over the nodes, in runs without liveness only.

**Fairness**, and what in the code justifies it:

* `raft_progress`: a replicator goroutine, a heartbeat and the monitor run on
  (weak fairness), as goroutines of a process that does not crash do. Messages
  may be lost, but of those a node keeps sending to a peer some arrive and some
  answers come back (strong fairness per direction and pair, as is usual for a
  network that may lose messages). Elections, commands and snapshots are not
  fair: nobody has to start one.
* `apply`: goroutines run on; who is blocked on `applyCh` or `kv.mu` gets it once
  it stays free; `Execute`'s timer runs out. `PushSnapshot` is not fair.
  Elections, commits and `Start` are not fair either.
* `ctrl`: the applier goroutine runs on, and a loop whose end is possible again
  and again ends, because Go chooses where to start iterating a map at random
  each time (strong fairness of `FinishJoin`). Without the second, Join could
  move a shard to and fro for ever while gid 0 ties with another group.
* `kv_migrate`: appliers run on; each group's monitors run again and again on
  whoever leads; and calls and `Start`s they repeat get through in the end (weak
  fairness per group and kind of step). This assumes that every group has a
  leader most of the time, which is a property of timing that the code cannot
  guarantee and that the Raft models, being untimed, do not claim. Clerks are
  not fair.

**Timing** enters in one place. In ApplyPath a node leads again (`Lead`) only
when no Execute still waits for an entry that the node has lost meanwhile
(`canLeadAgain`): what takes an entry from the log is an `AppendEntries`, which
resets the election timer, and the shortest election timeout
(`ElectionTimeout`, 10 s, `raft/util.go`) is longer than `Execute` waits
(`ExecuteTimeout`, 5 s, `shardkv/common.go`). OwnResponse rests on it: with an
election timeout of 150 ms, its mutant, an Execute returns the response to
another command at the same index.

## 5. Proofs

Eight modules, checked by TLAPS. They assume of the constants what the named
ASSUMEs of the modules say (the set of servers is finite and does not contain
`Nil`, callers are not commands of others, `Nil` is neither a request nor an
answer, bounds are natural numbers) and hold
for every number of servers, set of commands and value of the bounds. Two
theorems of ShardCtrlerProofs have a further hypothesis, `OneClerk`, those of
ShardKVOwnerProofs and ShardKVHistoryProofs another, `NeverBackToNobody`, to which
`OperationsTakeEffectOnce` adds `NoPuts`.

**RaftProofs** (`ElectionIsSafe`, `VotesAreCastOnce`). ElectionSafety is not
inductive: that a leader has a majority rests on a count, `grantedVotes`, which
is incremented by messages. The invariant `ElectionInv` adds that

* the disk has what the node has (`HardStateSaved`), so a restart changes
  nothing;
* each vote ever cast is the voter's present vote or of an older term
  (`VotesRemembered`), so no voter votes twice in a term (`OneVoteEach`);
* there is one message per exchange of candidate, voter and term
  (`OneMessageEach`), a granting response is a vote (`GrantsAreVotes`), and the
  count is at most the number of voters whose exchange is over (`CountIsSound`).

The last is what fails if an answer could be counted twice. Most actions do not
touch elections: one lemma, `QuietKeepsInv`, covers them, from three facts
(`Quiet`-lemmas) about each. Two majorities meet (`MajoritiesMeet`, by the
cardinality theorems), so a term has one winner.

**RaftTypeProofs** (`TypesAreCorrect`, `HardStateIsDurable`). TypeOK is not
inductive either: a slice with an index out of range is no sequence. `TypeInv`
adds that replication messages of a term come from who led it (`SentByLeaders`),
that they reach no further than the leader's log (`MessagesInRange`,
`NextInRange`, `RefusalsBackUp`), that nothing circulates as committed that was
not (`CommitKnown`), and that snapshots contain what their label says
(`SnapshotsLabelled`), which Durable needs for the installed ones. There is a
lemma per action; `LogTypes` to `AppendTypes` are about the operators on logs.

**RaftSafetyProofs** (`StateMachinesAreSafe`, `LeadersAreComplete`, `LogsMatch`,
`IndexesAreInRange`, `MatchIndexIsSound`, `CommittedIsKept`,
`ReplicatedLogIsImplemented`). What Raft is for:
no two nodes apply different commands at one index. None of these properties is
inductive, because a node knows little of the others: a committed entry is safe
for reasons that lie with a majority's logs and votes, at different times. The
invariant `SafetyInv` compares everybody with the ledgers instead of with each
other, and rests on the two invariants above (`RaftInv` is the three together).

* An entry of a leader's own term is *chosen* when a majority has secured it,
  that is, has stored the ledger up to it and nothing older behind it. It is
  *blocked* when a majority that has not secured it is in later terms already:
  then it never will be. Neither can be undone, and, two majorities meeting, no
  entry is both (`ChosenNotBlocked`).
* Each ledger has every entry of an earlier term that is not blocked
  (`LedgersSafe`). That is the core, and is shown when an election is won
  (`WonIsSafe`): the winner has whatever a voter of its had secured
  (`CandidatesHold`, because of the check of isLogUpToDate in the vote request,
  `VoteRequestsTrue`); for an entry none of its voters had secured, the voters
  are the majority that blocks it. In this form the claim is kept by every step
  without an induction over terms.
* `committed` is a chosen entry with all before it (`CommittedChosen`; the
  commit rule counts entries of the leader's own term only, Figure 8). Whatever
  a node, a message or a snapshot knows to be committed was chosen in a term no
  later than its own (`PrefixSettled`, `TrafficTrue`, `SnapshotsSettled`), so the
  leader a node listens to has it, and truncation cannot reach it.
* A leader's log is its ledger (`LeadersHaveLedgers`), a request carries a piece
  of it, an acknowledgement holds until the term changes (`StoredNow`) and what
  was secured is held until it is blocked (`SecuredHeld`). Each entry of a log
  came from the ledger of its own term (`EntriesOwned`), which is LogMatching.

The snapshots make this differ from the textbook. `CondInstallSnapshot` keeps
the entries behind the snapshot's end without comparing the term there
(`raft_snapshot.go:74-81`), and so may put a chosen snapshot before a tail of
another branch. Such a log is no beginning of any leader's log, and
`EntriesOwned` says "back to the snapshot" where the textbook says "back to the
beginning". It does no harm: the tail's entries are blocked, the next request
cuts them off, and until then the log ends in an older term and wins no vote of
who has the entry the snapshot ends with (therefore *secured*, with the last
term, and not only *stored*). An invariant by which every log is the
beginning of a ledger would be false, as TLC shows.

`IndexesAreInRange` follows from `PrefixSettled` and the ranges of TypeInv,
`CommittedIsKept` from the steps of `commitIndex` alone.

The refinement of ReplicatedLog rests on the same invariant. In a state that
satisfies it, what a node knows is a piece of the committed entries
(`PiecesCommitted`: NodeLogs and `knowsCommitted`), before a step and after it, so
that a step of the abstract log is determined by three numbers: where the node's log
starts, its `commitIndex`, and how many entries are committed. There is a lemma for
each abstract step (`NodeLearns` to `NodeChooses`) and one for each handler that
takes one (`AppendLearns`, `AdvanceChooses`, `SnapshotCompacts`,
`CondInstallInstalls`, `RestartForgets`); all others change none of the three
(`UnknownChanges`).

**ApplyPathProofs** (`TypesAreCorrect`, `SliceIsInRange`, `SendsNeverBlock`,
`StateMachineIsImplemented`, `ResponsesAreOwn`). Everything on its way to the state machine (log,
batch, message, snapshot) is compared with `chosen` entry by entry
(`LogIsChosen`, `BatchIsChosen`, `MessageIsChosen`, `MachineIsChosen`). The order
is the difficult part, since a batch that was copied before a snapshot was
installed goes on being pushed after it. Two numbers keep it: `pushed`, up to
where Raft's applier has pushed, is never beyond `expected`, up to where the
service will have applied once it is done with the message in its hands. So an
entry that arrives is either an old one, which the service skips by its index,
or exactly the next. After a restart `kv.lastApplied` is 0 and the skip does not
protect; then Raft's applier starts where the restored snapshot ends
(`afterRestart`). The room in the notification channels follows from
`ChannelsAreFresh`: the channel of an index not yet applied has had no response.
The refinement is by `NextRefines`: each action is an action of StateMachine or
a stutter of it; the mapping is the identity on `chosen`, `machine`, `snapshot`
and `crashes`.

OwnResponse has an invariant of its own, `OwnInv`, on top of that one, because a
channel is named by an index, and an index may be filled twice. While the node
leads, whoever waits for an index waits either for an entry that is still in the
log or for an index that an earlier term has filled (`WaitersKnown`), of which
no notification comes: `mustNotify` compares the entry's term with the present
one, and an entry chosen in a leader's term is its own (`OwnEntries`). That a
leadership begins so is where the order of the two timeouts is needed
(`canLeadAgain`, section 4); that it stays so needs that a snapshot from before
it that is installed late takes nothing from a leader's log (`SnapshotsKnown`).
`ContentsOwn` is what results for the channels, those included which a caller
has not asked for yet and those which another's clean-up has taken from the map.

**ShardCtrlerProofs**. First `OperationsAppliedOnce` and `AnswersAreTrue`. A replica
remembers one number per client and takes a command with a number not above it
for a duplicate. That this neither skips a new operation nor repeats an old one
needs: the numbers in the log never decrease, and each names one operation
(`NumbersInOrder`); the number remembered is the largest applied
(`LargestRemembered`); a `Join` or `Leave` whose loop runs is for the next entry
still (`LoopsForNext`). `OperationsCounted` carries the count of EffectOnce
along, `OneTakesEffect` says that every operation in the log has an entry that
is not skipped. NumbersInOrder is where one clerk is needed: the numbers of two
clerks that share client id 0 interleave, and both theorems are then false
(section 6, 4).

The four theorems about the loops (`ControllerTypesAreKept`, `NoShardIsLost`,
`JoinsBalance`, `LeavesMoveOrphans`) need no such hypothesis: their invariant,
`LoopsInv`, is about one replica and the entry it is working on. The lists of the
map and the orphans are a partition of the shards into lists without repetitions
(`isPartition`); so a shard that is moved leaves one list and is in no other, which
is what lemmas `Moved`, `GivenTo` and `Taken` show of the three kinds of turn, and a
list is as long as it has elements, which makes a difference in length the
difference in shards that JoinBalances speaks of. That the fullest group has a
shard to give (`Fullest`) is why `Head` is never taken of an empty list.
`isLoopFor` ties a Leave's loop to its request and to the last configuration: of
the groups in the map those leave that are still to be taken, and the shards of
the others have not moved. What the map starts from, `Group2Shards`, is sorted by
ranks: a shard's place in its list is the number of the group's shards not above it,
and lemma `Ranks` shows, by counting and without an induction, that the ranks of a
finite set are the numbers up to its size.

**ShardKVProofs** (`ReplicasConverge`, `NoConfigurationOvertakes`,
`TypesAreKept`). The loops of
`applyInsertShards` and `applyDeleteShards` end at the first shard that is not in
the status expected, and map iteration decides which came before it; replicas
agree only because that never happens halfway. All shards that a configuration
moves between the same two groups have the same status (`MoveTogether`), and
every insertion and deletion, in a log or on its way, is of exactly such a set
(`isMove`, which the monitors see to: `ShardIdsMove`). So a loop handles all or
none (`AllOrNone`), and what a replica does with an entry is a function of its
state (`after`). Each group then has a `History` of states, one per entry, and
each of its replicas is at its lastApplied-th. ConfigurationWaits follows from
the same history: a Configuration entry in the log, or about to be started, was
asked for by a replica at a point of the history where all shards were Serving
(`isReached`), and they stay so until the configuration changes, which is the
order History keeps. For TypeOK, `TypeInv` adds the types of what is in the logs
and in the tasks, since that is what replicas apply.

**ShardKVOwnerProofs** (`OneOwnerAtATime`) goes on from there. Nothing in the code
compares groups; that no two serve a shard follows from the order in which they
leave configurations. A replica that may serve a shard does so only after every
earlier owner has left the configuration in which it owned the shard
(`ServedInTurn`), and a group that has left one did so after all earlier owners
(`LeftInTurn`): it was serving the shard then, by ConfigurationWaits. What links
two groups is the data in flight: a GetShardsData is sent to the former owner
(`TasksFounded`), who answers only when it has left the configuration
(ErrNotReady), and so every InsertShards in a log is of shards that have been given
away (`LogFounded`); a shard that others pull is not its group's any more
(`GivenAway`). The replica of a group that has gone furthest stands for the
group, by History. The hypothesis is that a shard with an owner never goes back
to gid 0. It is needed, since whoever gets a shard from gid 0 begins with an empty
one without asking anybody, and the controller does not guarantee it: section
6, 5. The configurations of the runs satisfy it.

**ShardKVHistoryProofs** (`ShardsTakeTheirDataAlong`, `NothingTakesEffectTwice`,
`OperationsTakeEffectOnce`). ShardHistory compares what
one replica has of a shard with what all groups have done to it, so its
invariant, `HistoryInv`, follows the histories of all groups side by side
(`Histories`), each up to its last state that a replica has reached:

* the group that serves a shard has its value (`ValueServed`); while the data are
  on their way, the value is what the former owner had when it left
  (`ValueLeft`); and a shard that nobody has owned has none (`ValueOwned`);
* a shard that is being pulled keeps what its owner had when it left, until the
  next owner has it, and a shard that a group does not own or still waits for is
  empty there (`ShardsKept`), so that nothing of an earlier stay mixes with what
  is inserted; nobody goes beyond a configuration before what it had to give
  away has arrived (`LeftArrived`);
* an InsertShards, in a log or on its way, carries what the former owner left, or
  else the shard has arrived, so that it finds the configuration gone or the
  shard no longer Pulling; a DeleteShards, or a call for one, exists only when the
  shard has arrived (`CommandsSound`).

The owners take turns by `OwnerInv`; the hypothesis is the same.

ExactlyOnce is about the table of last operations, of which each replica has one
for all its shards, and which `applyInsertShards` merges with the one that came
with the data. `EffectInv` says two things of it. It names at least what the data
beside it contain (`DataCovered`, and `isTrue` of an InsertShards), so a retry is
applied nowhere where the operation is in the data; and since, by ShardHistory,
the first replica to apply an entry has the whole value of the shard it serves,
no value contains an operation twice (`EffectsOnce`). And it names nothing that has
not taken effect (`remembers`), so a retry that is skipped, or answered from the
table, was answered rightly. This must be so in every state of the histories
(`Remembered`), not just in the present ones: a replica that is behind takes over,
one entry after another, tables that others had long ago. That entries, and the
answers to calls, are of the operation that the clerk is busy with or of an older
one are the remaining parts (`CommandsTrue`, `CallsOwn`, `RepliesTrue`). A Put takes
the effects of other operations away, so that an answered Append shows for good
only on a shard without Puts (`keepsAll`); that nothing takes effect twice holds
with them too.

TLC has checked the inductive invariants of RaftSafetyProofs (by simulation, on
instances of three nodes with crashes, snapshots and three elections),
ApplyPathProofs and ShardCtrlerProofs, the parts of ShardKVProofs' that a state
shows, on the instances of the runs, and those of ShardKVHistoryProofs, the
histories being computed from the logs, on the instance of `kv_clerk`: completely
with `MaxRepeats` 0, and on about 390 000 states with 1. Liveness, and what recursive definitions and folds
compute, is out of the prover's reach and stays with TLC.

## 6. Where the code and its documents disagree

1. **Hard state does not survive a restart** (`raft_deployed`). `main.go:90,97`
   creates an in-memory `Persister` per process; `raft_persist.go:10`,
   `README.md:415-451` and `docs/Q&A.md:19` promise stable storage and one vote
   per term. Two nodes lead one term after a restart. With a persister that
   survives, ElectionSafety holds (`raft_leaders`; proved, crashes included).
2. **A peer may stop being replicated to** (`raft_term0`). A success response
   that comes late moves `nextIndex` back (`raft_replication.go:89-90`); if the
   follower has meanwhile compacted the entry there, it answers every request
   with Term 0 (`raft_append_entries.go:28-31`), which
   `handleAppendEntriesResponse` ignores. The replicator goes on for ever, until
   the leader compacts its own log or is replaced. PeersCatchUp says that this
   is the only way in which a peer stays behind.
3. **Controller replicas diverge** (`ctrl_agree`). `configStateMachine.go:131`
   says "make iteration deterministic"; ties are decided by map order.
4. **All controller clerks are client 0** (`ctrl_clerks`).
   `shardctrler/client.go:14-15,31`. `AnsweredTakesEffect` holds with one clerk
   (`ctrl`, proved) and fails with two.
5. **Leave gives shards to nobody** (`ctrl_leave`). `README.md:103`: the shards
   of a group that leaves are given to the groups that remain. But gid 0 takes
   part in the dealing (`configStateMachine.go:83`) as long as it owns a shard,
   and Join leaves it some. The consequence in shardkv is worse than a shard that
   nobody serves: gid 0 is taken for an owner without data
   (`shardkv/server.go:463`), so the group that gets the shard next begins with
   an empty one, while the former owner, until it learns of it, serves the old.
   With the configurations <<group 1, gid 0, group 2>> for the shard of
   `kv_clerk`, TLC finds OneOwner, ShardHistory and ExactlyOnce violated.

Met on the way, without a run:

* `README.md:99` says that Join goes on until groups differ by at most one and
  group 0, which stands for no group, has no shard; `configStateMachine.go:146`
  "always choose gid 0 if there is any". But GetGIDWithMaximumShards takes
  whoever has the most shards, gid 0 remains a target, and the loop may stop on
  a difference of one: gid 0 keeps its share like a group. JoinBalances and
  LoopsTerminate are what does hold of the loop.
* `main.go:107` joins a real group with gid 0; its shards are then taken for
  unassigned by shardkv (`shardkv/server.go:463`).
* `shardctrler/client.go:84` takes a failed call for success (`RPCError`).
* `raft_append_entries.go:46` may name an index below the log, which costs a
  needless `InstallSnapshot`.

## 7. Only model-checked; not modelled

Only model-checked: all of RaftProgress but what it shares with Raft; of
ApplyPath the liveness properties; of ShardCtrler LoopsTerminate; of ShardKV
MigrationCompletes.

Not modelled:

* timing, apart from the one comparison above; the length of timeouts;
* the dialling loop of `MakeEnd` and the race on `peers[].Rpc`. Broken
  connections are in RaftDeployed, as a guard;
* a Raft group of one node, whose votes are never counted
  (`raft_election.go:29`: there is no peer to answer);
* gid 0 as a real group in ShardKV: the instances use gids above 0, as
  `shardctrler/common.go:20` demands;
* `labrpc` (only its `ClientEnd` struct is used), `labgob`, logging, the command
  line: no protocol state.

## 8. What is left to do

A composition of the controller's divergence (section 6, 3) with ShardKV on a
small instance.
