------------------------------ MODULE ApplyPath ------------------------------
(***************************************************************************)
(* One server process from the Raft log to the answers: Raft's applier and *)
(* the goroutines of InstallSnapshot push messages into the unbuffered     *)
(* applyCh; the service's applier takes them one by one, applies them,     *)
(* notifies the Execute that waits for the entry and snapshots; Execute    *)
(* and its clean-up goroutine share the notification channels with it.     *)
(*                                                                         *)
(* Steps of one goroutine that run under rf.mu are one action: rf.mu is    *)
(* never held across anything that blocks.  kv.mu is held by the service's *)
(* applier over several steps, among them a send and calls into Raft.      *)
(*                                                                         *)
(* The rest of the group is what module Raft shows of it: `chosen` is the  *)
(* group's committed log; whoever leads has all of it; a follower's log    *)
(* loses entries only to entries that differ.                              *)
(***************************************************************************)
EXTENDS Integers, Sequences, FiniteSets

CONSTANTS Waiter,     \* the goroutines that call Execute, each once
          Foreign,    \* commands that other leaders have started
          SnapshotAt, \* the indexes at which needSnapshot says yes
          MaxIndex,   \* bound: entries of the log
          MaxTerm,    \* bound: terms
          MaxCrashes  \* bound: crashes of the process

ASSUME CommandAssumption == Waiter \cap Foreign = {}
ASSUME BoundAssumption ==
  /\ SnapshotAt \subseteq Nat
  /\ MaxIndex \in Nat /\ MaxTerm \in Nat /\ MaxCrashes \in Nat

VARIABLES
  chosen,      \* the entries the group has committed
  currentTerm, isLeader, logs, firstIndex, commitIndex, lastApplied, \* rf
  snapshot,    \* the persister's snapshot: the entries its state results from
  batch,       \* the entries Raft's applier has still to push
  upTo,        \* the commitIndex it read when it copied them, -1 when it waits
  pushers,     \* LastIncludedIndex of InstallSnapshot's blocked goroutines
  applier,     \* what the service's applier is about to do
  message,     \* the message it has taken from applyCh
  kvApplied,   \* kv.lastApplied
  machine,     \* kv.stateMachines: the entries its state results from
  notifyChans, \* kv.notifyChans: the number of the channel of an index, 0 if none
  channels,    \* the contents of all channels ever made
  waiter,      \* what each Execute is about to do
  index,       \* the index Start gave it
  channel,     \* the channel it waits on
  response,    \* what it returns
  crashes

raftVars    == <<currentTerm, isLeader, logs, firstIndex, commitIndex>>
pushVars    == <<batch, upTo>>
serviceVars == <<applier, message, kvApplied, machine>>
notifyVars  == <<notifyChans, channels>>
waiterVars  == <<waiter, index, channel, response>>
vars == <<chosen, raftVars, lastApplied, snapshot, pushVars, pushers, serviceVars,
          notifyVars, waiterVars, crashes>>

Command == Waiter \cup Foreign
Entry   == [term : Nat, command : Command]

Nothing == [term |-> -1]
Timeout == [term |-> -2]

firstOf(s, k) == SubSeq(s, 1, k)

\* The entries of l up to k are those the group has chosen, or may choose next.
agrees(l, k) == \A n \in 1..k : n <= Len(chosen) => l[n] = chosen[n]

\* raft/util.go and shardkv/common.go, in milliseconds.
ExecuteTimeout == 5000

\* Mutant: the order of magnitude that Raft is usually run with.
ElectionTimeout_Short == 150

ElectionTimeout == 10000

\* Only the terms of this node are told apart.  An entry the others commit has
\* this one; an earlier leader, in term 0, may have left an entry to be replaced.
othersTerm == 1

Init ==
  /\ chosen = <<>>
  /\ currentTerm = othersTerm /\ isLeader = FALSE
  /\ logs \in {<<>>} \cup {<<[term |-> 0, command |-> c]>> : c \in Foreign}
  /\ firstIndex = 0 /\ commitIndex = 0 /\ lastApplied = 0 /\ snapshot = <<>>
  /\ batch = <<>> /\ upTo = -1 /\ pushers = {}
  /\ applier = "receive" /\ message = Nothing /\ kvApplied = 0 /\ machine = <<>>
  /\ notifyChans = [k \in 1..MaxIndex |-> 0] /\ channels = <<>>
  /\ waiter = [w \in Waiter |-> "idle"]
  /\ index = [w \in Waiter |-> 0]
  /\ channel = [w \in Waiter |-> 0]
  /\ response = [w \in Waiter |-> Nothing]
  /\ crashes = 0

-----------------------------------------------------------------------------
(* The node's Raft and the rest of the group *)

keepsProcess ==
  UNCHANGED <<lastApplied, snapshot, pushVars, serviceVars, notifyVars, crashes>>

\* Whatever takes an entry from the log is an AppendEntries, which resets the
\* election timer: until it runs out whoever waits for that entry has given up.
canLeadAgain ==
  ExecuteTimeout < ElectionTimeout =>
    \A w \in Waiter : waiter[w] \in {"started", "waiting"} =>
      index[w] <= firstIndex \/ (index[w] <= Len(logs) /\ logs[index[w]].command = w)

Lead ==
  /\ ~isLeader /\ currentTerm < MaxTerm
  /\ Len(chosen) <= Len(logs) /\ agrees(logs, Len(logs))
  /\ canLeadAgain
  /\ isLeader' = TRUE /\ currentTerm' = currentTerm + 1
  /\ UNCHANGED <<chosen, logs, firstIndex, commitIndex, pushers, waiterVars>>
  /\ keepsProcess

StepDown ==
  /\ isLeader /\ currentTerm < MaxTerm
  /\ isLeader' = FALSE /\ currentTerm' = currentTerm + 1
  /\ UNCHANGED <<chosen, logs, firstIndex, commitIndex, pushers, waiterVars>>
  /\ keepsProcess

\* Another leader commits an entry of its own, or one of this node's that it has.
OthersCommit(e) ==
  /\ Len(chosen) < MaxIndex
  /\ \/ e.term = othersTerm /\ e.command \in Foreign
     \/ /\ Len(chosen) < Len(logs) /\ agrees(logs, Len(logs))
        /\ e = logs[Len(chosen) + 1]
  /\ chosen' = Append(chosen, e)
  /\ UNCHANGED <<raftVars, pushers, waiterVars>>
  /\ keepsProcess

\* advanceCommitIndexForLeader
LeaderCommit(k) ==
  /\ isLeader /\ commitIndex < k /\ k <= Len(logs)
  /\ logs[k].term = currentTerm /\ agrees(logs, k)
  /\ commitIndex' = k
  /\ chosen' = IF k > Len(chosen) THEN firstOf(logs, k) ELSE chosen
  /\ UNCHANGED <<currentTerm, isLeader, logs, firstIndex, pushers, waiterVars>>
  /\ keepsProcess

\* AppendEntries: what differs from the first k chosen entries is replaced, and
\* what is known of them to be committed may grow.
AppendEntries(k, c) ==
  /\ ~isLeader
  /\ k \in commitIndex..Len(chosen) /\ c \in commitIndex..k
  /\ logs' = IF k <= Len(logs) /\ agrees(logs, k) THEN logs ELSE firstOf(chosen, k)
  /\ commitIndex' = c
  /\ UNCHANGED <<chosen, currentTerm, isLeader, firstIndex, pushers, waiterVars>>
  /\ keepsProcess

\* InstallSnapshot leaves the snapshot to a goroutine of its own.
InstallSnapshot(k) ==
  /\ ~isLeader /\ commitIndex < k
  /\ pushers' = pushers \cup {k}
  /\ UNCHANGED <<chosen, raftVars, waiterVars>>
  /\ keepsProcess

-----------------------------------------------------------------------------
(* Raft's applier and the goroutines of InstallSnapshot *)

keepsRest ==
  UNCHANGED <<chosen, raftVars, snapshot, kvApplied, machine, notifyVars,
              waiterVars, crashes>>

\* applyCond.Wait() ends, and the committed entries are copied under rf.mu.
CopyBatch ==
  /\ upTo = -1 /\ lastApplied < commitIndex
  /\ batch' = SubSeq(logs, lastApplied + 1, commitIndex)
  /\ upTo' = commitIndex
  /\ UNCHANGED <<lastApplied, pushers, applier, message>>
  /\ keepsRest

\* The Index of the entry that is pushed next.
nextPushed == upTo - Len(batch) + 1

\* The service's applier takes m from applyCh.
take(kind, m) == applier = "receive" /\ applier' = kind /\ message' = m

PushEntry ==
  /\ batch # <<>>
  /\ take("command", [index |-> nextPushed, entry |-> Head(batch)])
  /\ batch' = Tail(batch)
  /\ UNCHANGED <<upTo, lastApplied, pushers>>
  /\ keepsRest

PushSnapshot(k) ==
  /\ take("snapshot", [index |-> k, snapshot |-> firstOf(chosen, k)])
  /\ pushers' = pushers \ {k}
  /\ UNCHANGED <<pushVars, lastApplied>>
  /\ keepsRest

\* Mutant: a snapshot installed meanwhile is not taken into account.
newLastApplied_Plain == upTo

newLastApplied == IF lastApplied > upTo THEN lastApplied ELSE upTo

FinishBatch ==
  /\ upTo # -1 /\ batch = <<>>
  /\ lastApplied' = newLastApplied
  /\ upTo' = -1
  /\ UNCHANGED <<batch, pushers, applier, message>>
  /\ keepsRest

-----------------------------------------------------------------------------
(* The service's applier.  Between taking a message and being ready for the *)
(* next it holds kv.mu.                                                     *)

keepsOthers == UNCHANGED <<chosen, currentTerm, isLeader, pushVars, pushers,
                           waiterVars, crashes>>

\* Mutant: the service trusts Raft to send every command once.
isOld_Never == FALSE

\* CommandIndex <= kv.lastApplied
isOld == message.index <= kvApplied

receiveNext == applier' = "receive" /\ message' = Nothing

Skip ==
  /\ applier = "command" /\ isOld
  /\ receiveNext
  /\ UNCHANGED <<logs, firstIndex, commitIndex, lastApplied, snapshot,
                 kvApplied, machine, notifyVars>>
  /\ keepsOthers

Apply ==
  /\ applier = "command" /\ ~isOld
  /\ kvApplied' = message.index
  /\ machine' = Append(machine, message.entry)
  /\ applier' = "notify"
  /\ UNCHANGED <<message, logs, firstIndex, commitIndex, lastApplied, snapshot,
                 notifyVars>>
  /\ keepsOthers

\* getNotifyChan(k) = c
getNotifyChan(k, c) ==
  IF notifyChans[k] # 0 THEN c = notifyChans[k] /\ UNCHANGED notifyVars
  ELSE /\ c = Len(channels) + 1
       /\ notifyChans' = [notifyChans EXCEPT ![k] = c]
       /\ channels' = Append(channels, <<>>)

\* Mutant: the channel has no buffer, the send needs somebody who receives.
hasRoom_Unbuffered(k) ==
  \E w \in Waiter : waiter[w] = "waiting" /\ channel[w] = notifyChans[k]

\* A send on the channel of index k, which has room for one response.
hasRoom(k) == notifyChans[k] # 0 => channels[notifyChans[k]] = <<>>

mustNotify == isLeader /\ message.entry.term = currentTerm

Notify ==
  /\ applier = "notify" /\ mustNotify
  /\ hasRoom(message.index)
  /\ IF notifyChans[message.index] # 0
     THEN /\ channels' = [channels EXCEPT ![notifyChans[message.index]] = <<message.entry>>]
          /\ UNCHANGED notifyChans
     ELSE /\ notifyChans' = [notifyChans EXCEPT ![message.index] = Len(channels) + 1]
          /\ channels' = Append(channels, <<message.entry>>)
  /\ applier' = "compact"
  /\ UNCHANGED <<message, logs, firstIndex, commitIndex, lastApplied, snapshot,
                 kvApplied, machine>>
  /\ keepsOthers

DoNotNotify ==
  /\ applier = "notify" /\ ~mustNotify
  /\ applier' = "compact"
  /\ UNCHANGED <<message, logs, firstIndex, commitIndex, lastApplied, snapshot,
                 kvApplied, machine, notifyVars>>
  /\ keepsOthers

\* takeSnapshot and Raft's Snapshot.
TakeSnapshot ==
  /\ applier = "compact" /\ message.index \in SnapshotAt
  /\ IF message.index > firstIndex
     THEN firstIndex' = message.index /\ snapshot' = machine
     ELSE UNCHANGED <<firstIndex, snapshot>>
  /\ receiveNext
  /\ UNCHANGED <<logs, commitIndex, lastApplied, kvApplied, machine, notifyVars>>
  /\ keepsOthers

NeedNoSnapshot ==
  /\ applier = "compact"
  /\ receiveNext
  /\ UNCHANGED <<logs, firstIndex, commitIndex, lastApplied, snapshot,
                 kvApplied, machine, notifyVars>>
  /\ keepsOthers

\* CondInstallSnapshot
RefuseSnapshot ==
  /\ applier = "snapshot" /\ message.index <= commitIndex
  /\ receiveNext
  /\ UNCHANGED <<logs, firstIndex, commitIndex, lastApplied, snapshot,
                 kvApplied, machine, notifyVars>>
  /\ keepsOthers

CondInstallSnapshot ==
  LET k == message.index IN
  /\ applier = "snapshot" /\ k > commitIndex
  /\ logs' = message.snapshot \o SubSeq(logs, k + 1, Len(logs))
  /\ firstIndex' = k /\ commitIndex' = k /\ lastApplied' = k
  /\ snapshot' = message.snapshot
  /\ applier' = "restore"
  /\ UNCHANGED <<message, kvApplied, machine, notifyVars>>
  /\ keepsOthers

RestoreSnapshot ==
  /\ applier = "restore"
  /\ machine' = message.snapshot
  /\ kvApplied' = message.index
  /\ receiveNext
  /\ UNCHANGED <<logs, firstIndex, commitIndex, lastApplied, snapshot, notifyVars>>
  /\ keepsOthers

Serve ==
  \/ Skip \/ Apply \/ Notify \/ DoNotNotify \/ TakeSnapshot \/ NeedNoSnapshot
  \/ RefuseSnapshot \/ CondInstallSnapshot \/ RestoreSnapshot

-----------------------------------------------------------------------------
(* Execute *)

keepsServer == UNCHANGED <<chosen, lastApplied, snapshot, pushVars, pushers,
                           serviceVars, crashes>>

goTo(w, step) == waiter' = [waiter EXCEPT ![w] = step]

\* kv.mu is free between two messages.
kvMuIsFree == applier \in {"receive", "command", "snapshot"}

\* Mutant: the index of the entry after the one that was appended.
startIndex_OffByOne == Len(logs) + 2

\* appendNewEntry
startIndex == Len(logs) + 1

Start(w) ==
  /\ waiter[w] = "idle" /\ isLeader /\ Len(logs) < MaxIndex
  /\ goTo(w, "started")
  /\ index' = [index EXCEPT ![w] = startIndex]
  /\ logs' = Append(logs, [term |-> currentTerm, command |-> w])
  /\ UNCHANGED <<channel, response, notifyVars, currentTerm, isLeader, firstIndex,
                 commitIndex>>
  /\ keepsServer

MakeChannel(w) ==
  /\ waiter[w] = "started" /\ kvMuIsFree
  /\ goTo(w, "waiting")
  /\ \E c \in 1..(Len(channels) + 1) :
       getNotifyChan(index[w], c) /\ channel' = [channel EXCEPT ![w] = c]
  /\ UNCHANGED <<index, response, raftVars>>
  /\ keepsServer

Receive(w) ==
  /\ waiter[w] = "waiting" /\ channels[channel[w]] # <<>>
  /\ goTo(w, "cleanup")
  /\ response' = [response EXCEPT ![w] = Head(channels[channel[w]])]
  /\ channels' = [channels EXCEPT ![channel[w]] = <<>>]
  /\ UNCHANGED <<index, channel, notifyChans, raftVars>>
  /\ keepsServer

GiveUp(w) ==
  /\ waiter[w] = "waiting"
  /\ goTo(w, "cleanup")
  /\ response' = [response EXCEPT ![w] = Timeout]
  /\ UNCHANGED <<index, channel, notifyVars, raftVars>>
  /\ keepsServer

\* removeOutdatedNotifyChan, by a goroutine that Execute leaves behind.
RemoveChannel(w) ==
  /\ waiter[w] = "cleanup" /\ kvMuIsFree
  /\ goTo(w, "done")
  /\ notifyChans' = [notifyChans EXCEPT ![index[w]] = 0]
  /\ index' = [index EXCEPT ![w] = 0]
  /\ channel' = [channel EXCEPT ![w] = 0]
  /\ response' = [response EXCEPT ![w] = Nothing]
  /\ UNCHANGED <<channels, raftVars>>
  /\ keepsServer

-----------------------------------------------------------------------------

\* The process dies.  StartServer: Make reads firstIndex from the persister,
\* restoreSnapshot the state; kv.lastApplied is 0.
Crash ==
  /\ crashes < MaxCrashes
  /\ crashes' = crashes + 1
  /\ isLeader' = FALSE
  /\ commitIndex' = firstIndex /\ lastApplied' = firstIndex
  /\ batch' = <<>> /\ upTo' = -1 /\ pushers' = {}
  /\ applier' = "receive" /\ message' = Nothing /\ kvApplied' = 0
  /\ machine' = snapshot
  /\ notifyChans' = [k \in 1..MaxIndex |-> 0] /\ channels' = <<>>
  /\ waiter' = [w \in Waiter |-> IF waiter[w] = "idle" THEN "idle" ELSE "done"]
  /\ index' = [w \in Waiter |-> 0] /\ channel' = [w \in Waiter |-> 0]
  /\ response' = [w \in Waiter |-> Nothing]
  /\ UNCHANGED <<chosen, currentTerm, logs, firstIndex, snapshot>>

Others ==
  \/ Lead \/ StepDown
  \/ \E t \in 0..MaxTerm, c \in Command : OthersCommit([term |-> t, command |-> c])
  \/ \E k, c \in 0..MaxIndex : AppendEntries(k, c)
  \/ \E k \in 1..Len(chosen) : InstallSnapshot(k)

Push == CopyBatch \/ PushEntry \/ FinishBatch \/ \E k \in pushers : PushSnapshot(k)

Execute(w) ==
  Start(w) \/ MakeChannel(w) \/ Receive(w) \/ GiveUp(w) \/ RemoveChannel(w)

Next ==
  \/ Others \/ \E k \in 1..MaxIndex : LeaderCommit(k)
  \/ Push \/ Serve
  \/ \E w \in Waiter : Execute(w)
  \/ Crash

Spec == Init /\ [][Next]_vars

\* Goroutines run on, whoever is blocked on applyCh or on kv.mu gets it once it
\* stays free, and Execute's timer runs out.
Fairness ==
  /\ WF_vars(CopyBatch) /\ WF_vars(PushEntry) /\ WF_vars(FinishBatch)
  /\ WF_vars(Serve)
  /\ \A w \in Waiter :
       WF_vars(MakeChannel(w)) /\ WF_vars(GiveUp(w)) /\ WF_vars(RemoveChannel(w))

FairSpec == Spec /\ Fairness

-----------------------------------------------------------------------------
(* Properties *)

\* What the service's applier has in its hands.
isMessage ==
  CASE applier = "receive" -> message = Nothing
    [] applier \in {"command", "notify", "compact"} ->
         message \in [index : 1..MaxIndex, entry : Entry]
    [] applier \in {"snapshot", "restore"} ->
         message \in [index : 1..MaxIndex, snapshot : Seq(Entry)]

\* Every variable has its type, and the channels named are channels made.
TypeOK ==
  /\ chosen \in Seq(Entry) /\ logs \in Seq(Entry)
  /\ currentTerm \in Nat /\ isLeader \in BOOLEAN
  /\ firstIndex \in Nat /\ commitIndex \in Nat /\ lastApplied \in Nat
  /\ snapshot \in Seq(Entry) /\ machine \in Seq(Entry)
  /\ batch \in Seq(Entry) /\ upTo \in Nat \cup {-1}
  /\ pushers \subseteq 1..MaxIndex
  /\ applier \in {"receive", "command", "notify", "compact", "snapshot", "restore"}
  /\ isMessage
  /\ kvApplied \in Nat
  /\ channels \in Seq(Seq(Entry))
  /\ notifyChans \in [1..MaxIndex -> 0..Len(channels)]
  /\ waiter \in [Waiter -> {"idle", "started", "waiting", "cleanup", "done"}]
  /\ index \in [Waiter -> 0..MaxIndex]
  /\ channel \in [Waiter -> Nat]
  /\ \A w \in Waiter :
       /\ waiter[w] = "waiting" => channel[w] \in 1..Len(channels)
       /\ response[w] \in {Nothing, Timeout} \/ response[w] \in Entry
  /\ crashes \in Nat

Service == INSTANCE StateMachine WITH Command <- Entry

\* The state machine is the result of the chosen commands, once each and in
\* order, whatever snapshots and batches cross each other on applyCh.
ImplementsStateMachine == Service!Spec

\* When the applier is about to copy entries they are in rf.logs: its slice
\* expression (raft.go:132) starts above the snapshot although a snapshot taken
\* while it pushed has shortened the log beyond rf.lastApplied.
SliceInRange ==
  /\ upTo = -1 => firstIndex <= lastApplied
  /\ commitIndex <= Len(logs)

\* The applier, which holds kv.mu, never has to wait for room in a notification
\* channel: Execute may have gone, and nobody can take the channel away without
\* kv.mu (server.go:166-170).
SendNeverBlocks ==
  applier = "notify" /\ mustNotify => hasRoom(message.index)

\* Execute returns the response to its own command although channels are found
\* by index and an index may be used again by a later leadership of the node.
OwnResponse == \A w \in Waiter : response[w] \in Entry => response[w].command = w

\* What Raft knows to be committed reaches the state machine: no batch, snapshot
\* or notification holds the two appliers up for ever (raft.go:122-148).
CommittedIsApplied == []<>(Len(machine) >= commitIndex)

\* Every Execute returns and its channel is removed: neither the applier nor
\* kv.mu is ever stuck (Execute and its goroutine, server.go:345-364).
ExecuteReturns == []<>(\A w \in Waiter : waiter[w] \in {"idle", "done"})
=============================================================================
