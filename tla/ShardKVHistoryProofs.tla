------------------------ MODULE ShardKVHistoryProofs ------------------------
(***************************************************************************)
(* Proofs about ShardKV, for any groups, replicas, clerks, configurations  *)
(* in which no shard goes back to gid 0: a shard that moves takes its data *)
(* along, and an operation takes effect once.                              *)
(*                                                                         *)
(* The groups' histories (ShardKVProofs) are followed side by side.  What  *)
(* a group has of a shard when it leaves the configuration in which it     *)
(* owned it is the value of the shard until the next owner has it; that    *)
(* value, or one which comes too late to be inserted, is all that an       *)
(* insertion can carry; and a deletion is only asked for when the data     *)
(* have arrived.                                                           *)
(*                                                                         *)
(* The table of last operations of a replica names what the data beside    *)
(* it contain, and nothing that has not had its effect: in every state of  *)
(* the histories, because the other replicas will still go through it,     *)
(* and in every insertion.                                                 *)
(***************************************************************************)
EXTENDS ShardKVOwnerProofs

\* The groups that have servers.
Active == {group[r] : r \in Replica}

\* H[g] is the history of group g, up to entry M[g], which one of its replicas has
\* applied: the state that comes last in it is the one the group has now.
Histories(H, M) ==
  \A g \in Active :
    /\ M[g] \in Nat /\ History(g, H[g], M[g])
    /\ \E r \in Replica : group[r] = g /\ lastApplied[r] = M[g]

now(H, M, g) == H[g][M[g]]

\* The owner of s in configuration n has its data, or had them.
hasArrived(H, M, n, s) ==
  LET g == owner(n, s) IN
  /\ n \in Nat /\ g \in Active
  /\ \/ now(H, M, g).current > n
     \/ now(H, M, g).current = n /\ now(H, M, g).shards[s].status # "Pulling"

\* The owner of s in configuration n left it when the value of s was v.
isLeft(H, M, n, s, v) ==
  LET g == owner(n, s) IN
  /\ g \in Active
  /\ \E k \in 1..M[g] : /\ H[g][k - 1].current = n /\ H[g][k].current = n + 1
                        /\ H[g][k].shards[s].kv = v

\* What is still to be inserted is what the former owner left, unless the shard
\* has arrived; what is to be deleted has arrived.
isSound(H, M, g, cmd) ==
  /\ cmd.op = "InsertShards" =>
       /\ cmd.configNum \in Nat \ {0}
       /\ \A s \in cmd.shardIds :
            /\ s \in Shard /\ owner(cmd.configNum, s) = g /\ owner(cmd.configNum - 1, s) # g
            /\ \/ isLeft(H, M, cmd.configNum - 1, s, cmd.shards[s])
               \/ hasArrived(H, M, cmd.configNum, s)
  /\ cmd.op = "DeleteShards" =>
       \A s \in cmd.shardIds : s \in Shard /\ hasArrived(H, M, cmd.configNum, s)

isSoundTask(H, M, t) ==
  /\ t.type = "Execute" => isSound(H, M, t.group, t.command)
  /\ t.type = "GetShardsData" =>
       /\ t.configNum \in Nat \ {0} /\ t.to # t.group
       /\ \A s \in t.shardIds : /\ s \in Shard /\ owner(t.configNum, s) = t.group
                                /\ owner(t.configNum - 1, s) = t.to
  /\ t.type \in {"DeleteShardsData", "AwaitDeletion"} =>
       \A s \in t.shardIds : s \in Shard /\ hasArrived(H, M, t.configNum, s)

CommandsSound(H, M) ==
  /\ \A g \in Active : \A k \in 1..Len(log[g]) : isSound(H, M, g, log[g][k])
  /\ \A t \in tasks : isSoundTask(H, M, t)

\* A shard that is given away keeps the value with which its owner left; nobody
\* has data of a shard it does not own, nor before they arrive; and the former
\* owner drops them only when they have arrived.
isKept(H, M, g, st, s) ==
  LET n == st.current
      shard == st.shards[s]
  IN
  /\ shard.status = "BePulling" =>
       n # 0 /\ owner(n - 1, s) = g /\ owner(n, s) # g /\ isLeft(H, M, n - 1, s, shard.kv)
  /\ shard.status # "BePulling" /\ owner(n, s) # g =>
       /\ shard.kv = <<>>
       /\ n # 0 /\ owner(n - 1, s) = g => hasArrived(H, M, n, s)
  /\ shard.status = "Pulling" =>
       shard.kv = <<>> /\ n # 0 /\ owner(n - 1, s) \notin {0, g}
  /\ shard.status # "Pulling" /\ owner(n, s) = g => hasArrived(H, M, n, s)

ShardsKept(H, M) ==
  \A g \in Active : \A k \in 0..M[g] : \A s \in Shard : isKept(H, M, g, H[g][k], s)

\* Whoever has left a configuration in which it had to give a shard away has done so.
LeftArrived(H, M) ==
  \A g \in Active, n \in Nat \ {0}, s \in Shard :
    now(H, M, g).current > n /\ owner(n - 1, s) = g /\ owner(n, s) # g =>
      hasArrived(H, M, n, s)

\* The value of a shard is with the group that serves it, or else what its last
\* owner left.
ValueServed(H, M) ==
  \A g \in Active, s \in Shard :
    LET st == now(H, M, g) IN
    owner(st.current, s) = g /\ st.shards[s].status \in {"Serving", "GCing"} =>
      st.shards[s].kv = effects[s]

ValueLeft(H, M) ==
  \A n \in Nat, s \in Shard : \A v :
    /\ n < Len(Configs)
    /\ isLeft(H, M, n, s, v) /\ owner(n + 1, s) # owner(n, s) /\ ~hasArrived(H, M, n + 1, s)
    => v = effects[s]

\* A shard has a value only when it had an owner, and all owners before are gone.
hadOwner(H, M, s) ==
  \E n \in Nat : /\ owner(n, s) \in Active /\ now(H, M, owner(n, s)).current >= n
                 /\ \A j \in 0..(n - 1) : owner(j, s) # 0 => passed(owner(j, s), j)

ValueOwned(H, M) == \A s \in Shard : effects[s] # <<>> => hadOwner(H, M, s)

Data(H, M) ==
  /\ DOMAIN effects = Shard
  /\ CommandsSound(H, M) /\ ShardsKept(H, M) /\ LeftArrived(H, M)
  /\ ValueServed(H, M) /\ ValueLeft(H, M) /\ ValueOwned(H, M)

HistoryInv == \E H, M : Histories(H, M) /\ Data(H, M)
-----------------------------------------------------------------------------

LEMMA ActiveGroups == \A r \in Replica : group[r] \in Active /\ group[r] \in Group
  BY GroupFacts DEF Active

LEMMA ActiveFacts == Active \subseteq Group /\ 0 \notin Active
  BY GroupFacts DEF Active

\* A replica is somewhere in the history of its group.
LEMMA InHistory ==
  ASSUME NEW H, NEW M, Histories(H, M), NEW r \in Replica
  PROVE  /\ group[r] \in Active /\ M[group[r]] \in Nat
         /\ lastApplied[r] \in 0..M[group[r]]
         /\ state(r) = H[group[r]][lastApplied[r]]
         /\ H[group[r]][lastApplied[r]].shards = stateMachines[r]
         /\ H[group[r]][lastApplied[r]].current = currentConfig[r]
         /\ isState(group[r], state(r))
  BY ActiveGroups DEF Histories, History, state

\* No replica has come further than its group.
LEMMA NowIsFurthest ==
  ASSUME NEW H, NEW M, Histories(H, M), NEW g \in Active, NEW k \in 0..M[g]
  PROVE  /\ H[g][k].current \in Nat /\ now(H, M, g).current \in Nat
         /\ H[g][k].current <= now(H, M, g).current
<1>1. M[g] \in Nat /\ M[g] \in 0..M[g] /\ k <= M[g] /\ History(g, H[g], M[g])
  BY DEF Histories
<1>. QED
  BY <1>1 DEF now, History, isState

LEMMA PassedFurthest ==
  ASSUME NEW H, NEW M, Histories(H, M), NEW g \in Active, NEW n \in Nat
  PROVE  passed(g, n) <=> now(H, M, g).current > n
<1>1. ASSUME passed(g, n) PROVE now(H, M, g).current > n
  <2>1. PICK r \in Replica : group[r] = g /\ currentConfig[r] > n
    BY <1>1 DEF passed
  <2>2. lastApplied[r] \in 0..M[g] /\ H[g][lastApplied[r]].current = currentConfig[r]
    BY <2>1, InHistory
  <2>3. currentConfig[r] \in Nat /\ now(H, M, g).current \in Nat
        /\ currentConfig[r] <= now(H, M, g).current
    BY <2>2, NowIsFurthest
  <2>. QED
    BY <2>1, <2>3, SMT
<1>2. ASSUME now(H, M, g).current > n PROVE passed(g, n)
  <2>1. PICK r \in Replica : group[r] = g /\ lastApplied[r] = M[g]
    BY DEF Histories
  <2>2. currentConfig[r] > n
    BY <1>2, <2>1, InHistory DEF now
  <2>. QED
    BY <2>1, <2>2 DEF passed
<1>. QED
  BY <1>1, <1>2

LEMMA ReplicaKept ==
  ASSUME NEW H, NEW M, Histories(H, M), ShardsKept(H, M),
         NEW r \in Replica, NEW s \in Shard
  PROVE  isKept(H, M, group[r], state(r), s)
  BY InHistory DEF ShardsKept

-----------------------------------------------------------------------------
(* Initially *)

LEMMA HistoryInit == Init => HistoryInv
<1>. SUFFICES ASSUME Init PROVE HistoryInv
  OBVIOUS
<1>1. Inv
  BY InitInv
<1>. DEFINE H == [g \in Active |-> CHOOSE h : History(g, h, 0)]
            M == [g \in Active |-> 0]
<1>2. \A g \in Group : log[g] = <<>> /\ Len(log[g]) = 0
  BY EmptySeq DEF Init
<1>3. ASSUME NEW g \in Active PROVE History(g, H[g], 0)
  <2>1. PICK h : \E m \in Nat : History(g, h, m)
    BY <1>1, ActiveFacts DEF Inv
  <2>2. PICK m \in Nat : History(g, h, m)
    BY <2>1
  <2>3. m <= 0
    BY <1>2, <2>2, ActiveFacts DEF History
  <2>4. m = 0
    BY <2>3, SMT
  <2>5. \E f : History(g, f, 0)
    BY <2>2, <2>4
  <2>. QED
    BY <2>5
<1>4. PICK J, N : J = H /\ N = M
  OBVIOUS
<1>5. Histories(J, N)
  <2>1. \A r \in Replica : lastApplied[r] = 0
    BY DEF Init
  <2>2. \A g \in Active : N[g] = 0 /\ History(g, J[g], 0)
    BY <1>3, <1>4
  <2>. QED
    BY <2>1, <2>2 DEF Histories, Active
<1>6. \A g \in Active : N[g] = 0
  BY <1>4
<1>. HIDE DEF H, M
<1>7. ASSUME NEW g \in Active
      PROVE  /\ J[g][0].current = 0 /\ now(J, N, g).current = 0
             /\ \A s \in Shard : J[g][0].shards[s] = NewShard
             /\ now(J, N, g) = J[g][0]
  <2>1. PICK r \in Replica : group[r] = g
    BY DEF Active
  <2>2. lastApplied[r] = 0 /\ currentConfig[r] = 0 /\ stateMachines[r] = [s \in Shard |-> NewShard]
    BY DEF Init
  <2>. QED
    BY <1>5, <1>6, <2>1, <2>2, InHistory DEF now
<1>8. CommandsSound(J, N)
  <2>1. tasks = {} /\ \A g \in Active : \A k : k \notin 1..Len(log[g])
    BY <1>2, ActiveFacts DEF Init
  <2>. QED
    BY <2>1 DEF CommandsSound
<1>9. ShardsKept(J, N)
  <2>1. \A g \in Active : \A k \in 0..N[g] : k = 0
    BY <1>6
  <2>2. ASSUME NEW g \in Active, NEW s \in Shard PROVE isKept(J, N, g, J[g][0], s)
    <3>1. /\ J[g][0].current = 0 /\ J[g][0].shards[s].status = "Serving"
          /\ J[g][0].shards[s].kv = <<>>
      BY <1>7 DEF NewShard
    <3>2. owner(0, s) = 0
      BY DEF owner, configAt
    <3>. QED
      BY <3>1, <3>2, ActiveFacts DEF isKept
  <2>. QED
    BY <2>1, <2>2 DEF ShardsKept
<1>10. LeftArrived(J, N)
  <2>1. \A g \in Active, n \in Nat \ {0} : ~(now(J, N, g).current > n)
    BY <1>7
  <2>. QED
    BY <2>1 DEF LeftArrived
<1>11. ValueServed(J, N)
  <2>1. \A g \in Active, s \in Shard : owner(now(J, N, g).current, s) # g
    BY <1>7, ActiveFacts DEF owner, configAt
  <2>. QED
    BY <2>1 DEF ValueServed
<1>12. ValueLeft(J, N)
  <2>1. \A g \in Active : \A k : k \notin 1..N[g]
    BY <1>6
  <2>2. \A n, s, v : ~isLeft(J, N, n, s, v)
    BY <2>1 DEF isLeft
  <2>. QED
    BY <2>2 DEF ValueLeft
<1>13. effects = [s \in Shard |-> <<>>]
  BY DEF Init
<1>14. ValueOwned(J, N)
  BY <1>13 DEF ValueOwned
<1>. QED
  BY <1>5, <1>8, <1>9, <1>10, <1>11, <1>12, <1>13, <1>14 DEF HistoryInv, Data

-----------------------------------------------------------------------------
(* The steps of clerks, monitors and handlers *)

LEMMA GrowHistories ==
  ASSUME Inv, grows, NEW H, NEW M, Histories(H, M)
  PROVE  Histories(H, M)'
<1>1. lastApplied' = lastApplied
  BY DEF grows, replicaVars
<1>2. \A g \in Active : History(g, H[g], M[g])'
  BY GrowsHistory, ActiveFacts DEF Histories
<1>. QED
  BY <1>1, <1>2 DEF Histories

LEMMA GrowsData ==
  ASSUME Inv, grows, effects' = effects,
         NEW H, NEW M, Histories(H, M), Data(H, M), CommandsSound(H, M)'
  PROVE  Histories(H, M)' /\ Data(H, M)'
<1>1. UNCHANGED <<lastApplied, currentConfig>>
  BY DEF grows, replicaVars
<1>2. Histories(H, M)'
  BY GrowHistories
<1>3. \A g, n : passed(g, n)' <=> passed(g, n)
  BY <1>1 DEF passed
<1>4. ValueOwned(H, M)'
  BY <1>3 DEF Data, ValueOwned, hadOwner
<1>5. ShardsKept(H, M)' /\ LeftArrived(H, M)' /\ ValueServed(H, M)' /\ ValueLeft(H, M)'
  BY DEF Data, ShardsKept, LeftArrived, ValueServed, ValueLeft
<1>. QED
  BY <1>2, <1>4, <1>5 DEF Data

\* A sound command is appended; a sound task is added; or there is neither.
LEMMA StartSound ==
  ASSUME Inv, NEW H, NEW M, CommandsSound(H, M),
         NEW g \in Group, NEW cmd, start(g, cmd), isSound(H, M, g, cmd)
  PROVE  \A f \in Active : \A k \in 1..Len(log'[f]) : isSound(H, M, f, log'[f][k])
<1>. SUFFICES ASSUME NEW f \in Active, NEW k \in 1..Len(log'[f])
              PROVE  isSound(H, M, f, log'[f][k])
  OBVIOUS
<1>1. \/ f = g /\ log'[f][k] = cmd
      \/ k \in 1..Len(log[f]) /\ log'[f][k] = log[f][k]
  BY StartEntries, ActiveFacts
<1>. QED
  BY <1>1 DEF CommandsSound

LEMMA TaskSound ==
  ASSUME NEW H, NEW M, CommandsSound(H, M), log' = log,
         NEW t, tasks' \subseteq tasks \cup {t}, isSoundTask(H, M, t)
  PROVE  CommandsSound(H, M)'
  BY DEF CommandsSound

LEMMA ClerksSound ==
  ASSUME Inv, NEW H, NEW M, CommandsSound(H, M), Clerks
  PROVE  CommandsSound(H, M)'
<1>1. tasks' = tasks
  BY DEF Clerks, Begin, AnswerDuplicate, Call, Return, WrongGroup, Timeout, Refresh, giveUp
<1>2. CASE \E c \in Clerk, r \in Replica : Call(c, r)
  <2>1. PICK c \in Clerk, r \in Replica : Call(c, r)
    BY <1>2
  <2>. DEFINE cmd == [op |-> "Operation", clerk |-> c, id |-> commandId[c],
                      request |-> request[c]]
  <2>2. start(group[r], cmd) /\ isSound(H, M, group[r], cmd)
    BY <2>1 DEF Call, isSound
  <2>. HIDE DEF cmd
  <2>. QED
    BY <1>1, <2>2, StartSound, GroupFacts DEF CommandsSound
<1>3. CASE ~\E c \in Clerk, r \in Replica : Call(c, r)
  <2>1. log' = log
    BY <1>3 DEF Clerks, Begin, AnswerDuplicate, Return, WrongGroup, Timeout, Refresh, giveUp
  <2>. QED
    BY <1>1, <2>1 DEF CommandsSound
<1>. QED
  BY <1>2, <1>3

LEMMA ExecuteSound ==
  ASSUME Inv, NEW H, NEW M, CommandsSound(H, M), NEW t \in tasks, Execute(t)
  PROVE  CommandsSound(H, M)'
<1>1. t.type = "Execute" /\ start(t.group, t.command) /\ tasks' = tasks \ {t}
  BY DEF Execute
<1>2. t.group \in Group /\ isSound(H, M, t.group, t.command)
  BY <1>1 DEF Inv, Commands, isTask, CommandsSound, isSoundTask
<1>. QED
  BY <1>1, <1>2, StartSound DEF CommandsSound

LEMMA MonitorSound ==
  ASSUME Inv, NEW H, NEW M, Histories(H, M), ShardsKept(H, M), CommandsSound(H, M),
         NEW r \in Replica,
         ConfigureAction(r) \/ \E g \in Group : MigrationAction(r, g) \/ GcAction(r, g)
  PROVE  CommandsSound(H, M)'
<1>1. log' = log
  BY DEF ConfigureAction, MigrationAction, GcAction, shardOperation, addTask
<1>2. CASE ConfigureAction(r)
  <2>. DEFINE t == execution(group[r], [op |-> "Configuration", num |-> currentConfig[r] + 1])
  <2>1. tasks' = tasks \cup {t}
    BY <1>2 DEF ConfigureAction, addTask
  <2>2. isSoundTask(H, M, t)
    BY DEF isSoundTask, isSound, execution
  <2>. HIDE DEF t
  <2>. QED
    BY <1>1, <2>1, <2>2, TaskSound
<1>3. CASE \E g \in Group : MigrationAction(r, g) \/ GcAction(r, g)
  <2>1. PICK g \in Group : MigrationAction(r, g) \/ GcAction(r, g)
    BY <1>3
  <2>2. PICK type, status :
          /\ shardOperation(r, type, status, g)
          /\ \/ type = "GetShardsData" /\ status = "Pulling"
             \/ type = "DeleteShardsData" /\ status = "GCing"
    BY <2>1 DEF MigrationAction, GcAction
  <2>. DEFINE n == currentConfig[r]
              S == shardIdsByStatus(r, status, g)
              t == [type |-> type, group |-> group[r], to |-> g,
                    configNum |-> n, shardIds |-> S]
  <2>3. S # {} /\ tasks' = tasks \cup {t}
    BY <2>2 DEF shardOperation, addTask
  <2>4. S = moving(n, g, group[r])
    BY <2>2, <2>3, ShardIdsMove
  <2>5. \A s \in S : /\ s \in Shard /\ state(r).shards[s].status = status
                     /\ owner(n, s) = group[r] /\ owner(n - 1, s) = g
    BY <2>4 DEF moving, shardIdsByStatus, state
  <2>6. /\ t.type = type /\ t.group = group[r] /\ t.to = g /\ t.configNum = n
        /\ t.shardIds = S /\ state(r).current = n /\ n \in Nat
    BY InHistory DEF isState, state
  <2>. HIDE DEF S, t, n
  <2>7. \A s \in S : isKept(H, M, group[r], state(r), s)
    BY <2>5, ReplicaKept
  <2>8. CASE type = "GetShardsData" /\ status = "Pulling"
    <3>1. n # 0 /\ g # group[r]
      BY <2>3, <2>5, <2>6, <2>7, <2>8 DEF isKept
    <3>. QED
      BY <1>1, <2>3, <2>5, <2>6, <2>8, <3>1, TaskSound DEF isSoundTask
  <2>9. CASE type = "DeleteShardsData" /\ status = "GCing"
    <3>1. \A s \in S : s \in Shard /\ hasArrived(H, M, n, s)
      BY <2>5, <2>6, <2>7, <2>9 DEF isKept
    <3>. QED
      BY <1>1, <2>3, <2>6, <2>9, <3>1, TaskSound DEF isSoundTask
  <2>. QED
    BY <2>2, <2>8, <2>9
<1>. QED
  BY <1>2, <1>3

\* What GetShardsData gives out is what the group left, or not needed any more.
LEMMA GivenSound ==
  ASSUME NEW H, NEW M, Histories(H, M), ShardsKept(H, M), LeftArrived(H, M),
         NEW r \in Replica, NEW n \in Nat \ {0}, isReady(r, n),
         NEW s \in Shard, owner(n - 1, s) = group[r], owner(n, s) # group[r]
  PROVE  isLeft(H, M, n - 1, s, stateMachines[r][s].kv) \/ hasArrived(H, M, n, s)
<1>1. /\ currentConfig[r] \in Nat /\ currentConfig[r] >= n /\ group[r] \in Active
      /\ state(r).current = currentConfig[r] /\ state(r).shards = stateMachines[r]
  BY InHistory DEF isState, isReady, state
<1>2. CASE currentConfig[r] = n
  BY <1>1, <1>2, ReplicaKept DEF isKept
<1>3. CASE currentConfig[r] # n
  <2>1. /\ now(H, M, group[r]).current \in Nat
        /\ currentConfig[r] <= now(H, M, group[r]).current
    BY InHistory, NowIsFurthest
  <2>2. now(H, M, group[r]).current > n
    BY <1>1, <1>3, <2>1, SMT
  <2>. QED
    BY <1>1, <2>2 DEF LeftArrived
<1>. QED
  BY <1>2, <1>3

LEMMA ServeSound ==
  ASSUME Inv, NEW H, NEW M, Histories(H, M), ShardsKept(H, M), LeftArrived(H, M),
         CommandsSound(H, M), NEW t \in tasks, NEW r \in Replica,
         GetShardsData(r, t) \/ ConfirmDeletion(r, t) \/ StartDeletion(r, t)
           \/ FinishDeletion(r, t)
  PROVE  CommandsSound(H, M)'
<1>0. isSoundTask(H, M, t)
  BY DEF CommandsSound
<1>1. CASE GetShardsData(r, t)
  <2>. DEFINE shards == [s \in t.shardIds |-> stateMachines[r][s].kv]
              cmd == [op |-> "InsertShards", configNum |-> t.configNum,
                      shardIds |-> t.shardIds, shards |-> shards,
                      lastOperations |-> lastOperations[r]]
              x == execution(t.group, cmd)
  <2>1. /\ t.type = "GetShardsData" /\ t.to = group[r] /\ isReady(r, t.configNum)
        /\ log' = log /\ tasks' = (tasks \ {t}) \cup {x}
    BY <1>1 DEF GetShardsData
  <2>2. /\ x.type = "Execute" /\ x.group = t.group /\ x.command = cmd
        /\ cmd.op = "InsertShards" /\ cmd.configNum = t.configNum
        /\ cmd.shardIds = t.shardIds
        /\ \A s \in t.shardIds : cmd.shards[s] = stateMachines[r][s].kv
    BY DEF execution
  <2>. HIDE DEF cmd, x
  <2>3. /\ t.configNum \in Nat \ {0} /\ group[r] # t.group
        /\ \A s \in t.shardIds : /\ s \in Shard /\ owner(t.configNum, s) = t.group
                                 /\ owner(t.configNum - 1, s) = group[r]
    BY <1>0, <2>1 DEF isSoundTask
  <2>4. \A s \in t.shardIds :
          \/ isLeft(H, M, t.configNum - 1, s, cmd.shards[s])
          \/ hasArrived(H, M, t.configNum, s)
    BY <2>1, <2>2, <2>3, GivenSound
  <2>5. isSound(H, M, t.group, cmd)
    BY <2>2, <2>3, <2>4 DEF isSound
  <2>6. isSoundTask(H, M, x)
    BY <2>2, <2>5 DEF isSoundTask
  <2>. QED
    BY <2>1, <2>6, TaskSound
<1>2. CASE ConfirmDeletion(r, t) \/ FinishDeletion(r, t)
  <2>. DEFINE x == execution(t.group, deletion(t))
  <2>1. /\ t.type \in {"DeleteShardsData", "AwaitDeletion"}
        /\ log' = log /\ tasks' = (tasks \ {t}) \cup {x}
    BY <1>2 DEF ConfirmDeletion, FinishDeletion, deleteLocally
  <2>2. isSoundTask(H, M, x)
    BY <1>0, <2>1 DEF isSoundTask, isSound, execution, deletion
  <2>. HIDE DEF x
  <2>. QED
    BY <2>1, <2>2, TaskSound
<1>3. CASE StartDeletion(r, t)
  <2>. DEFINE x == [type |-> "AwaitDeletion", group |-> t.group, to |-> t.to,
                    configNum |-> t.configNum, shardIds |-> t.shardIds,
                    entry |-> lastEntry(t.to)]
  <2>1. /\ t.type = "DeleteShardsData" /\ t.to \in Group
        /\ start(t.to, deletion(t)) /\ tasks' = (tasks \ {t}) \cup {x}
    BY <1>3, GroupFacts DEF StartDeletion
  <2>2. x.type = "AwaitDeletion" /\ x.configNum = t.configNum /\ x.shardIds = t.shardIds
    OBVIOUS
  <2>. HIDE DEF x
  <2>3. isSoundTask(H, M, x) /\ isSound(H, M, t.to, deletion(t))
    BY <1>0, <2>1, <2>2 DEF isSoundTask, isSound, deletion
  <2>4. \A f \in Active : \A k \in 1..Len(log'[f]) : isSound(H, M, f, log'[f][k])
    BY <2>1, <2>3, StartSound
  <2>. QED
    BY <2>1, <2>3, <2>4 DEF CommandsSound
<1>. QED
  BY <1>1, <1>2, <1>3

LEMMA GrowsHistoryInv ==
  ASSUME Inv, HistoryInv, [Next]_vars, ~\E r \in Replica : Apply(r)
  PROVE  HistoryInv'
<1>1. grows
  BY NextGrows
<1>2. effects' = effects
  BY DEF Next, vars, Publish, Clerks, Begin, AnswerDuplicate, Call, Return, WrongGroup,
     Timeout, Refresh, giveUp, ConfigureAction, MigrationAction, GcAction, shardOperation,
     addTask, Execute, Serve, GetShardsData, ConfirmDeletion, StartDeletion, FinishDeletion
<1>3. PICK H, M : Histories(H, M) /\ Data(H, M)
  BY DEF HistoryInv
<1>4. CommandsSound(H, M) /\ ShardsKept(H, M) /\ LeftArrived(H, M)
  BY <1>3 DEF Data
<1>5. CommandsSound(H, M)'
  <2>1. CASE Publish \/ UNCHANGED vars
    BY <1>4, <2>1 DEF Publish, vars, CommandsSound
  <2>2. CASE Clerks
    BY <1>4, <2>2, ClerksSound
  <2>3. CASE \/ \E r \in Replica : ConfigureAction(r)
             \/ \E r \in Replica, g \in Group : MigrationAction(r, g) \/ GcAction(r, g)
    BY <1>3, <1>4, <2>3, MonitorSound
  <2>4. CASE \E t \in tasks : Execute(t)
    BY <1>4, <2>4, ExecuteSound
  <2>5. CASE \E t \in tasks : Serve(t)
    BY <1>3, <1>4, <2>5, ServeSound DEF Serve
  <2>. QED
    BY <2>1, <2>2, <2>3, <2>4, <2>5 DEF Next
<1>. QED
  BY <1>1, <1>2, <1>3, <1>5, GrowsData DEF HistoryInv

-----------------------------------------------------------------------------
(* What the applier does to the shards and to the values *)

LEMMA ReplicaShards ==
  ASSUME Inv, NEW r \in Replica
  PROVE  /\ DOMAIN stateMachines = Replica /\ DOMAIN stateMachines[r] = Shard
         /\ DOMAIN currentConfig = Replica /\ currentConfig[r] \in Nat
         /\ \A s \in Shard : DOMAIN stateMachines[r][s] = {"kv", "status"}
<1>1. isState(group[r], state(r))
  BY GroupFacts DEF Inv, History
<1>. QED
  BY <1>1 DEF Inv, Types, isState, state


\* An operation is applied to one shard.
LEMMA OperationShards ==
  ASSUME Inv, NEW r \in Replica, ApplyOperation(r)
  PROVE  LET x == next(r).request.shard IN
         /\ canServe(r, x) /\ currentConfig' = currentConfig
         /\ \A s \in Shard :
              /\ stateMachines'[r][s].status = stateMachines[r][s].status
              /\ stateMachines'[r][s].kv = IF s = x THEN written(next(r), stateMachines[r][s].kv)
                                           ELSE stateMachines[r][s].kv
         /\ effects' = IF isFirst(r) THEN [effects EXCEPT ![x] = written(next(r), @)]
                       ELSE effects
<1>. DEFINE x == next(r).request.shard
<1>1. /\ canServe(r, x) /\ currentConfig' = currentConfig
      /\ stateMachines' = [stateMachines EXCEPT ![r][x].kv = written(next(r), @)]
      /\ effects' = IF isFirst(r) THEN [effects EXCEPT ![x] = written(next(r), @)]
                    ELSE effects
  BY DEF ApplyOperation
<1>2. ASSUME NEW s \in Shard
      PROVE  /\ stateMachines'[r][s].status = stateMachines[r][s].status
             /\ stateMachines'[r][s].kv = IF s = x THEN written(next(r), stateMachines[r][s].kv)
                                          ELSE stateMachines[r][s].kv
  BY <1>1, ReplicaShards
<1>. QED
  BY <1>1, <1>2

\* A configuration leaves the data alone.
LEMMA ConfigurationShards ==
  ASSUME Inv, NEW r \in Replica, ApplyConfiguration(r)
  PROVE  /\ effects' = effects
         /\ \A s \in Shard : stateMachines'[r][s].kv = stateMachines[r][s].kv
         /\ currentConfig'[r] = currentConfig[r] => stateMachines' = stateMachines
<1>1. CASE next(r).num = currentConfig[r] + 1
  <2>1. /\ effects' = effects
        /\ stateMachines' = [stateMachines EXCEPT ![r] = [s \in Shard |->
             [@[s] EXCEPT !.status =
                nextStatus(r, s, owner(currentConfig[r], s), owner(next(r).num, s))]]]
        /\ currentConfig' = [currentConfig EXCEPT ![r] = next(r).num]
    BY <1>1 DEF ApplyConfiguration
  <2>2. currentConfig'[r] # currentConfig[r]
    BY <1>1, <2>1, ReplicaShards
  <2>3. \A s \in Shard : stateMachines'[r][s].kv = stateMachines[r][s].kv
    BY <2>1, ReplicaShards
  <2>. QED
    BY <2>1, <2>2, <2>3
<1>2. CASE next(r).num # currentConfig[r] + 1
  BY <1>2 DEF ApplyConfiguration
<1>. QED
  BY <1>1, <1>2

\* An insertion gives data to shards that are waited for.
insertsShard(r, s) ==
  LET cmd == next(r) IN
  /\ cmd.op = "InsertShards" /\ cmd.configNum = currentConfig[r] /\ s \in cmd.shardIds
  /\ stateMachines[r][s].status = "Pulling"
  /\ stateMachines'[r][s] = inserted(stateMachines[r][s], cmd.shards[s])

LEMMA InsertionShards ==
  ASSUME Inv, NEW r \in Replica, ApplyInsertShards(r)
  PROVE  /\ UNCHANGED <<effects, currentConfig>>
         /\ \A s \in Shard : \/ stateMachines'[r][s] = stateMachines[r][s]
                             \/ insertsShard(r, s)
<1>. DEFINE cmd == next(r)
<1>1. UNCHANGED <<effects, currentConfig>> /\ cmd.op = "InsertShards"
  BY DEF ApplyInsertShards, applies
<1>2. CASE isCurrent(r, cmd.configNum)
  <2>1. PICK S \in handled(r, cmd.shardIds, {"Pulling"}) :
          stateMachines' = [stateMachines EXCEPT ![r] = [s \in Shard |->
            IF s \in S THEN inserted(@[s], cmd.shards[s]) ELSE @[s]]]
    BY <1>2 DEF ApplyInsertShards
  <2>2. \A s \in S : s \in cmd.shardIds /\ stateMachines[r][s].status = "Pulling"
    BY DEF handled
  <2>3. \A s \in Shard :
          stateMachines'[r][s] = IF s \in S THEN inserted(stateMachines[r][s], cmd.shards[s])
                                 ELSE stateMachines[r][s]
    BY <2>1, ReplicaShards
  <2>. QED
    BY <1>1, <1>2, <2>2, <2>3 DEF insertsShard, isCurrent
<1>3. CASE ~isCurrent(r, cmd.configNum)
  BY <1>1, <1>3 DEF ApplyInsertShards
<1>. QED
  BY <1>2, <1>3

\* A deletion drops shards that were given away, or ends their arrival.
deletesShard(r, s) ==
  LET cmd == next(r) IN
  /\ cmd.op = "DeleteShards" /\ cmd.configNum = currentConfig[r] /\ s \in cmd.shardIds
  /\ stateMachines[r][s].status \in {"GCing", "BePulling"}
  /\ stateMachines'[r][s] = deleted(stateMachines[r][s])

LEMMA DeletionShards ==
  ASSUME Inv, NEW r \in Replica, ApplyDeleteShards(r)
  PROVE  /\ UNCHANGED <<effects, currentConfig>>
         /\ \A s \in Shard : \/ stateMachines'[r][s] = stateMachines[r][s]
                             \/ deletesShard(r, s)
<1>. DEFINE cmd == next(r)
<1>1. UNCHANGED <<effects, currentConfig>> /\ cmd.op = "DeleteShards"
  BY DEF ApplyDeleteShards, applies
<1>2. CASE isCurrent(r, cmd.configNum)
  <2>1. PICK S \in handled(r, cmd.shardIds, {"GCing", "BePulling"}) :
          stateMachines' = [stateMachines EXCEPT ![r] = [s \in Shard |->
            IF s \in S THEN deleted(@[s]) ELSE @[s]]]
    BY <1>2 DEF ApplyDeleteShards
  <2>2. \A s \in S : /\ s \in cmd.shardIds
                     /\ stateMachines[r][s].status \in {"GCing", "BePulling"}
    BY DEF handled
  <2>3. \A s \in Shard :
          stateMachines'[r][s] = IF s \in S THEN deleted(stateMachines[r][s])
                                 ELSE stateMachines[r][s]
    BY <2>1, ReplicaShards
  <2>. QED
    BY <1>1, <1>2, <2>2, <2>3 DEF deletesShard, isCurrent
<1>3. CASE ~isCurrent(r, cmd.configNum)
  BY <1>1, <1>3 DEF ApplyDeleteShards
<1>. QED
  BY <1>2, <1>3

LEMMA ApplyPasses ==
  ASSUME Inv, OwnerInv, NEW r \in Replica, Apply(r), NEW g, NEW n \in Int, passed(g, n)
  PROVE  passed(g, n)'
<1>1. PICK t \in Replica : group[t] = g /\ currentConfig[t] > n
  BY DEF passed
<1>2. currentConfig[t] \in Nat
  BY ReplicaShards
<1>3. currentConfig'[t] = currentConfig[t] \/ currentConfig'[t] = currentConfig[t] + 1
  BY ApplyProgresses DEF goesForward
<1>4. currentConfig'[t] > n
  BY <1>1, <1>2, <1>3, SMT
<1>. QED
  BY <1>1, <1>4 DEF passed

-----------------------------------------------------------------------------
(* A replica that follows another changes no history *)

LEMMA FollowHistories ==
  ASSUME Inv, NEW r \in Replica, Apply(r),
         NEW H, NEW M, Histories(H, M), lastApplied[r] < M[group[r]]
  PROVE  Histories(H, M)' /\ effects' = effects
<1>0. applied(r) /\ Types
  BY ApplyIsApplied DEF Inv
<1>1. ASSUME NEW g \in Active PROVE History(g, H[g], M[g])'
  <2>1. M[g] \in Nat /\ g \in Group /\ History(g, H[g], M[g])
    BY ActiveFacts DEF Histories
  <2>. QED
    BY <1>0, <2>1, FollowHistory, OtherHistory
<1>2. ASSUME NEW g \in Active
      PROVE  \E t \in Replica : group[t] = g /\ lastApplied'[t] = M[g]
  <2>1. PICK t \in Replica : group[t] = g /\ lastApplied[t] = M[g]
    BY DEF Histories
  <2>2. lastApplied[r] \in Nat
    BY InHistory
  <2>3. t # r
    BY <2>1, <2>2
  <2>4. lastApplied'[t] = lastApplied[t]
    BY <1>0, <2>3 DEF applied, Types
  <2>. QED
    BY <2>1, <2>4
<1>3. effects' = effects
  <2>1. PICK t \in Replica : group[t] = group[r] /\ lastApplied[t] = M[group[r]]
    BY ActiveGroups DEF Histories
  <2>2. lastApplied[r] \in Nat /\ M[group[r]] \in Nat
    BY InHistory
  <2>3. ~(lastApplied[t] <= lastApplied[r])
    BY <2>1, <2>2, SMT
  <2>4. ~isFirst(r)
    BY <2>1, <2>3 DEF isFirst
  <2>. QED
    BY <2>4 DEF Apply, RefuseOperation, SkipDuplicate, ApplyOperation, ApplyConfiguration,
       ApplyInsertShards, ApplyDeleteShards
<1>. QED
  BY <1>1, <1>2, <1>3 DEF Histories

LEMMA FollowData ==
  ASSUME Inv, OwnerInv, NEW r \in Replica, Apply(r),
         NEW H, NEW M, Histories(H, M), Data(H, M), lastApplied[r] < M[group[r]]
  PROVE  Histories(H, M)' /\ Data(H, M)'
<1>1. applied(r) /\ Types
  BY ApplyIsApplied DEF Inv
<1>2. Histories(H, M)' /\ effects' = effects
  BY FollowHistories
<1>4. CommandsSound(H, M)'
  BY <1>1 DEF Data, CommandsSound, applied
<1>5. ValueOwned(H, M)'
  <2>1. \A n \in Nat : \A j \in 0..(n - 1) : j \in Int
    OBVIOUS
  <2>. QED
    BY <1>2, <2>1, ApplyPasses DEF Data, ValueOwned, hadOwner
<1>6. ShardsKept(H, M)' /\ LeftArrived(H, M)' /\ ValueServed(H, M)' /\ ValueLeft(H, M)'
  BY <1>2 DEF Data, ShardsKept, LeftArrived, ValueServed, ValueLeft
<1>. QED
  BY <1>2, <1>4, <1>5, <1>6 DEF Data

-----------------------------------------------------------------------------
(* A replica that is the first to apply an entry adds a state to its history *)

\* J and N are H and M with one more state for group g.
extends(H, M, J, N, g) ==
  /\ N[g] = M[g] + 1 /\ \A k \in 0..M[g] : J[g][k] = H[g][k]
  /\ \A a \in Active : a # g => J[a] = H[a] /\ N[a] = M[a]

LEMMA ExtendHistories ==
  ASSUME Inv, NEW r \in Replica, Apply(r),
         NEW H, NEW M, Histories(H, M), lastApplied[r] = M[group[r]]
  PROVE  \E J, N : /\ extends(H, M, J, N, group[r]) /\ Histories(J, N)'
                   /\ now(J, N, group[r]) = state(r)'
<1>. DEFINE g == group[r]
<1>1. /\ g \in Active /\ M[g] \in Nat /\ History(g, H[g], M[g])
      /\ Types /\ Commands /\ applied(r)
  BY InHistory, ApplyIsApplied DEF Histories, Inv
<1>2. PICK f : /\ History(g, f, M[g] + 1)' /\ f[M[g] + 1] = state(r)'
               /\ \A k \in 0..M[g] : f[k] = H[g][k]
  BY <1>1, ExtendHistory
<1>3. PICK J, N : /\ J = [a \in Active |-> IF a = g THEN f ELSE H[a]]
                  /\ N = [a \in Active |-> IF a = g THEN M[g] + 1 ELSE M[a]]
  OBVIOUS
<1>4. /\ J[g] = f /\ N[g] = M[g] + 1
      /\ \A a \in Active : a # g => J[a] = H[a] /\ N[a] = M[a]
  BY <1>1, <1>3
<1>5. extends(H, M, J, N, g)
  BY <1>2, <1>4 DEF extends
<1>6. now(J, N, g) = f[M[g] + 1]
  BY <1>4 DEF now
<1>7. now(J, N, g) = state(r)'
  BY <1>2, <1>6
<1>8. Histories(J, N)'
  <2>1. /\ N[g] \in Nat /\ History(g, J[g], N[g])' /\ lastApplied'[r] = N[g]
    BY <1>1, <1>2, <1>4 DEF applied, Types
  <2>2. ASSUME NEW a \in Active, a # g
        PROVE  /\ N[a] \in Nat /\ History(a, J[a], N[a])'
               /\ \E t \in Replica : group[t] = a /\ lastApplied'[t] = N[a]
    <3>1. /\ N[a] \in Nat /\ History(a, J[a], N[a])
          /\ \E t \in Replica : group[t] = a /\ lastApplied[t] = N[a]
      BY <1>4, <2>2 DEF Histories
    <3>2. History(a, J[a], N[a])'
      BY <1>1, <2>2, <3>1, OtherHistory, ActiveFacts
    <3>3. \A t \in Replica : group[t] = a => lastApplied'[t] = lastApplied[t]
      BY <1>1, <2>2 DEF applied, Types
    <3>. QED
      BY <3>1, <3>2, <3>3
  <2>. QED
    BY <2>1, <2>2 DEF Histories
<1>. QED
  BY <1>5, <1>7, <1>8

\* The configuration stays, and no shard has to be waited for again, or the next
\* one comes, when all shards are served.
advances(st, u) ==
  /\ st.current \in Nat
  /\ \/ /\ u.current = st.current
        /\ \A s \in Shard : st.shards[s].status # "Pulling" => u.shards[s].status # "Pulling"
     \/ u.current = st.current + 1 /\ serves(st.shards)

\* Replica r makes such a step, as the first of its group.
leads(H, M, J, N, r) ==
  /\ r \in Replica /\ Apply(r)
  /\ Histories(H, M) /\ Data(H, M) /\ extends(H, M, J, N, group[r])
  /\ lastApplied[r] = M[group[r]] /\ now(J, N, group[r]) = state(r)'

LEMMA LeadsAdvances ==
  ASSUME Inv, OwnerInv, NEW H, NEW M, NEW J, NEW N, NEW r, leads(H, M, J, N, r)
  PROVE  /\ r \in Replica /\ group[r] \in Active
         /\ advances(now(H, M, group[r]), now(J, N, group[r]))
         /\ now(H, M, group[r]).shards = stateMachines[r]
         /\ now(H, M, group[r]).current = currentConfig[r]
         /\ now(J, N, group[r]).shards = stateMachines'[r]
         /\ now(J, N, group[r]).current = currentConfig'[r]
         /\ \A a \in Active : a # group[r] => now(J, N, a) = now(H, M, a)
         /\ \A a \in Active : now(H, M, a).current \in Nat /\ now(J, N, a).current \in Nat
                              /\ now(H, M, a).current <= now(J, N, a).current
<1>1. r \in Replica /\ Apply(r) /\ group[r] \in Active
  BY ActiveGroups DEF leads
<1>2. goesForward(r) /\ currentConfig[r] \in Nat
  BY <1>1, ApplyProgresses, ReplicaShards
<1>3. /\ now(H, M, group[r]).shards = stateMachines[r]
      /\ now(H, M, group[r]).current = currentConfig[r]
      /\ now(J, N, group[r]).shards = stateMachines'[r]
      /\ now(J, N, group[r]).current = currentConfig'[r]
  <2>1. /\ now(J, N, group[r]).shards = stateMachines'[r]
        /\ now(J, N, group[r]).current = currentConfig'[r]
    BY DEF leads, state
  <2>2. Histories(H, M) /\ now(H, M, group[r]) = H[group[r]][lastApplied[r]]
    BY DEF leads, now
  <2>. QED
    BY <1>1, <2>1, <2>2, InHistory
<1>4. advances(now(H, M, group[r]), now(J, N, group[r]))
  <2>1. CASE currentConfig'[r] = currentConfig[r] /\ \A s \in Shard : statusMoves(r, s)
    BY <1>2, <1>3, <2>1 DEF advances, statusMoves
  <2>2. CASE currentConfig'[r] = currentConfig[r] + 1 /\ serves(stateMachines[r])
    BY <1>2, <1>3, <2>2 DEF advances
  <2>. QED
    BY <1>2, <2>1, <2>2 DEF goesForward
<1>5. \A a \in Active : a # group[r] => now(J, N, a) = now(H, M, a)
  BY DEF leads, extends, now
<1>6. ASSUME NEW a \in Active
      PROVE  now(H, M, a).current \in Nat /\ now(J, N, a).current \in Nat
             /\ now(H, M, a).current <= now(J, N, a).current
  <2>1. now(H, M, a).current \in Nat
    BY NowIsFurthest DEF leads, Histories
  <2>2. CASE a # group[r]
    BY <1>5, <2>1, <2>2
  <2>3. CASE a = group[r]
    <3>1. \/ now(J, N, a).current = now(H, M, a).current
          \/ now(J, N, a).current = now(H, M, a).current + 1
      BY <1>4, <2>3 DEF advances
    <3>. QED
      BY <2>1, <3>1, SMT
  <2>. QED
    BY <2>2, <2>3
<1>. QED
  BY <1>1, <1>3, <1>4, <1>5, <1>6

LEMMA ArrivedStays ==
  ASSUME Inv, OwnerInv, NEW H, NEW M, NEW J, NEW N, NEW r, leads(H, M, J, N, r),
         NEW n, NEW s \in Shard, hasArrived(H, M, n, s)
  PROVE  hasArrived(J, N, n, s)
<1>. DEFINE g == owner(n, s)
<1>1. /\ n \in Nat /\ g \in Active
      /\ \/ now(H, M, g).current > n
         \/ now(H, M, g).current = n /\ now(H, M, g).shards[s].status # "Pulling"
  BY DEF hasArrived
<1>2. /\ now(H, M, g).current \in Nat /\ now(J, N, g).current \in Nat
      /\ now(H, M, g).current <= now(J, N, g).current
  BY <1>1, LeadsAdvances
<1>3. CASE g # group[r]
  BY <1>1, <1>3, LeadsAdvances DEF hasArrived
<1>4. CASE g = group[r]
  <2>1. advances(now(H, M, g), now(J, N, g))
    BY <1>4, LeadsAdvances
  <2>. HIDE DEF g
  <2>2. \/ now(J, N, g).current > n
        \/ now(J, N, g).current = n /\ now(J, N, g).shards[s].status # "Pulling"
    <3>1. CASE now(H, M, g).current > n
      BY <1>1, <1>2, <3>1, SMT
    <3>2. CASE now(H, M, g).current = n /\ now(H, M, g).shards[s].status # "Pulling"
      <4>1. CASE now(J, N, g).current = now(H, M, g).current
        <5>1. now(J, N, g).current # now(H, M, g).current + 1
          BY <1>2, <4>1, SMT
        <5>. QED
          BY <2>1, <3>2, <4>1, <5>1 DEF advances
      <4>2. CASE now(J, N, g).current # now(H, M, g).current
        BY <1>1, <1>2, <3>2, <4>2, SMT
      <4>. QED
        BY <4>1, <4>2
    <3>. QED
      BY <1>1, <3>1, <3>2
  <2>. QED
    BY <1>1, <2>2 DEF hasArrived, g
<1>. QED
  BY <1>3, <1>4

LEMMA LeftStays ==
  ASSUME NEW H, NEW M, NEW J, NEW N, NEW r, leads(H, M, J, N, r),
         NEW n, NEW s, NEW v, isLeft(H, M, n, s, v)
  PROVE  isLeft(J, N, n, s, v)
<1>. DEFINE g == owner(n, s)
<1>1. g \in Active /\ M[g] \in Nat
  BY DEF isLeft, leads, Histories
<1>2. PICK k \in 1..M[g] : /\ H[g][k - 1].current = n /\ H[g][k].current = n + 1
                           /\ H[g][k].shards[s].kv = v
  BY DEF isLeft
<1>3. k \in 0..M[g] /\ k - 1 \in 0..M[g] /\ k \in 1..(M[g] + 1)
  BY <1>1, SMT
<1>4. k \in 1..N[g] /\ J[g][k] = H[g][k] /\ J[g][k - 1] = H[g][k - 1]
  BY <1>1, <1>3 DEF leads, extends
<1>. QED
  BY <1>1, <1>2, <1>4 DEF isLeft

\* What a group left it left before, unless it leaves with this step.
LEMMA LeftBefore ==
  ASSUME Inv, OwnerInv, NEW H, NEW M, NEW J, NEW N, NEW r, leads(H, M, J, N, r),
         NEW n \in Nat, NEW s, NEW v, isLeft(J, N, n, s, v)
  PROVE  \/ isLeft(H, M, n, s, v)
         \/ /\ owner(n, s) = group[r] /\ now(H, M, group[r]).current = n
            /\ now(J, N, group[r]).current = n + 1
            /\ now(J, N, group[r]).shards[s].kv = v
<1>. DEFINE g == owner(n, s)
<1>1. g \in Active /\ M[g] \in Nat
  BY DEF isLeft, leads, Histories
<1>2. PICK k \in 1..N[g] : /\ J[g][k - 1].current = n /\ J[g][k].current = n + 1
                           /\ J[g][k].shards[s].kv = v
  BY DEF isLeft
<1>3. CASE k \in 1..M[g]
  <2>1. k \in 0..M[g] /\ k - 1 \in 0..M[g]
    BY <1>1, <1>3, SMT
  <2>2. J[g][k] = H[g][k] /\ J[g][k - 1] = H[g][k - 1]
    BY <1>1, <2>1 DEF leads, extends
  <2>. QED
    BY <1>1, <1>2, <1>3, <2>2 DEF isLeft
<1>4. CASE k \notin 1..M[g]
  <2>1. g = group[r] /\ N[g] = M[g] + 1
    BY <1>1, <1>4 DEF leads, extends
  <2>2. k = M[g] + 1 /\ k - 1 = M[g] /\ M[g] \in 0..M[g]
    BY <1>1, <1>4, <2>1, SMT
  <2>3. J[g][k - 1] = H[g][M[g]]
    BY <2>1, <2>2 DEF leads, extends
  <2>. QED
    BY <1>2, <2>1, <2>2, <2>3 DEF now
<1>. QED
  BY <1>3, <1>4

LEMMA KeptStays ==
  ASSUME Inv, OwnerInv, NEW H, NEW M, NEW J, NEW N, NEW r, leads(H, M, J, N, r),
         NEW g, NEW st, NEW s \in Shard, isKept(H, M, g, st, s)
  PROVE  isKept(J, N, g, st, s)
<1>1. \A n : hasArrived(H, M, n, s) => hasArrived(J, N, n, s)
  BY ArrivedStays
<1>2. \A n, v : isLeft(H, M, n, s, v) => isLeft(J, N, n, s, v)
  BY LeftStays
<1>. QED
  BY <1>1, <1>2 DEF isKept

\* What has to be shown of such a step.
LEMMA LeadsData ==
  ASSUME Inv, OwnerInv, NEW H, NEW M, NEW J, NEW N, NEW r, leads(H, M, J, N, r),
         \A s \in Shard : isKept(J, N, group[r], now(J, N, group[r]), s),
         DOMAIN effects' = Shard,
         ValueServed(J, N)', ValueLeft(J, N)', ValueOwned(J, N)'
  PROVE  Data(J, N)'
<1>1. r \in Replica /\ group[r] \in Active /\ applied(r) /\ Data(H, M)
  BY ActiveGroups, ApplyIsApplied DEF leads
<1>2. /\ \A n : \A s \in Shard : hasArrived(H, M, n, s) => hasArrived(J, N, n, s)
      /\ \A n, s, v : isLeft(H, M, n, s, v) => isLeft(J, N, n, s, v)
  BY ArrivedStays, LeftStays
<1>3. CommandsSound(J, N)'
  <2>1. \A g, cmd : cmd.op # "DeleteShards" /\ isSound(H, M, g, cmd) => isSound(J, N, g, cmd)
    BY <1>2 DEF isSound
  <2>2. \A g, cmd : cmd.op = "DeleteShards" /\ isSound(H, M, g, cmd) => isSound(J, N, g, cmd)
    BY <1>2 DEF isSound
  <2>3. \A t : isSoundTask(H, M, t) => isSoundTask(J, N, t)
    BY <1>2, <2>1, <2>2 DEF isSoundTask
  <2>4. log' = log /\ tasks' = tasks
    BY <1>1 DEF applied
  <2>. QED
    BY <1>1, <2>1, <2>2, <2>3, <2>4 DEF Data, CommandsSound
<1>4. ShardsKept(J, N)'
  <2>1. ASSUME NEW g \in Active, NEW k \in 0..N[g], NEW s \in Shard
        PROVE  isKept(J, N, g, J[g][k], s)
    <3>1. M[g] \in Nat
      BY DEF leads, Histories
    <3>2. CASE k \in 0..M[g]
      <4>1. J[g][k] = H[g][k]
        BY <3>2 DEF leads, extends
      <4>2. isKept(H, M, g, H[g][k], s)
        BY <1>1, <3>2 DEF Data, ShardsKept
      <4>. QED
        BY <4>1, <4>2, KeptStays
    <3>3. CASE k \notin 0..M[g]
      <4>1. g = group[r] /\ N[g] = M[g] + 1
        BY <3>3 DEF leads, extends
      <4>2. k = N[g]
        BY <3>1, <3>3, <4>1, SMT
      <4>. QED
        BY <4>1, <4>2 DEF now
    <3>. QED
      BY <3>2, <3>3
  <2>. QED
    BY <2>1 DEF ShardsKept
<1>5. LeftArrived(J, N)'
  <2>. SUFFICES ASSUME NEW g \in Active, NEW n \in Nat \ {0}, NEW s \in Shard,
                       now(J, N, g).current > n, owner(n - 1, s) = g, owner(n, s) # g
                PROVE  hasArrived(J, N, n, s)
    BY DEF LeftArrived
  <2>1. CASE now(H, M, g).current > n
    BY <1>1, <1>2, <2>1 DEF Data, LeftArrived
  <2>2. CASE ~(now(H, M, g).current > n)
    <3>1. g = group[r] /\ now(J, N, g).current # now(H, M, g).current
      BY <2>2, LeadsAdvances
    <3>2. /\ now(J, N, g).current = now(H, M, g).current + 1
          /\ now(H, M, g).current \in Nat /\ serves(now(H, M, g).shards)
      BY <3>1, LeadsAdvances DEF advances
    <3>3. now(H, M, g).current = n
      BY <2>2, <3>2, SMT
    <3>4. isKept(H, M, g, now(H, M, g), s)
      <4>1. M[g] \in 0..M[g]
        BY DEF leads, Histories
      <4>. QED
        BY <1>1, <4>1 DEF Data, ShardsKept, now
    <3>5. hasArrived(H, M, n, s)
      BY <3>2, <3>3, <3>4 DEF isKept, serves
    <3>. QED
      BY <1>2, <3>5
  <2>. QED
    BY <2>1, <2>2
<1>. QED
  BY <1>3, <1>4, <1>5 DEF Data

-----------------------------------------------------------------------------
(* The values, when the first replica applies an entry *)

LEMMA KeptNow ==
  ASSUME NEW H, NEW M, NEW J, NEW N, NEW r, leads(H, M, J, N, r), NEW s \in Shard
  PROVE  isKept(H, M, group[r], now(H, M, group[r]), s)
<1>1. group[r] \in Active /\ M[group[r]] \in 0..M[group[r]]
  BY ActiveGroups DEF leads, Histories
<1>. QED
  BY <1>1 DEF leads, Data, ShardsKept, now

LEMMA UnchangedKept ==
  ASSUME Inv, OwnerInv, NEW H, NEW M, NEW J, NEW N, NEW r, leads(H, M, J, N, r),
         currentConfig'[r] = currentConfig[r],
         NEW s \in Shard, stateMachines'[r][s] = stateMachines[r][s]
  PROVE  isKept(J, N, group[r], now(J, N, group[r]), s)
<1>1. /\ now(J, N, group[r]).current = now(H, M, group[r]).current
      /\ now(J, N, group[r]).shards[s] = now(H, M, group[r]).shards[s]
  BY LeadsAdvances
<1>2. isKept(H, M, group[r], now(J, N, group[r]), s)
  BY <1>1, KeptNow DEF isKept
<1>. QED
  BY <1>2, KeptStays

LEMMA HadOwnerStays ==
  ASSUME Inv, OwnerInv, NEW H, NEW M, NEW J, NEW N, NEW r, leads(H, M, J, N, r),
         NEW s \in Shard, hadOwner(H, M, s)
  PROVE  hadOwner(J, N, s)'
<1>1. PICK n \in Nat :
        /\ owner(n, s) \in Active /\ now(H, M, owner(n, s)).current >= n
        /\ \A j \in 0..(n - 1) : owner(j, s) # 0 => passed(owner(j, s), j)
  BY DEF hadOwner
<1>2. now(J, N, owner(n, s)).current >= n
  <2>1. /\ now(H, M, owner(n, s)).current \in Nat /\ now(J, N, owner(n, s)).current \in Nat
        /\ now(H, M, owner(n, s)).current <= now(J, N, owner(n, s)).current
    BY <1>1, LeadsAdvances
  <2>. QED
    BY <1>1, <2>1, SMT
<1>3. \A j \in 0..(n - 1) : owner(j, s) # 0 => passed(owner(j, s), j)'
  <2>1. \A j \in 0..(n - 1) : j \in Int
    OBVIOUS
  <2>. QED
    BY <1>1, <2>1, ApplyPasses DEF leads
<1>. QED
  BY <1>1, <1>2, <1>3 DEF hadOwner

LEMMA ServedBefore ==
  ASSUME NEW H, NEW M, NEW J, NEW N, NEW r, leads(H, M, J, N, r), Inv,
         NEW s \in Shard, canServe(r, s)
  PROVE  stateMachines[r][s].kv = effects[s]
<1>1. /\ group[r] \in Active /\ now(H, M, group[r]).shards = stateMachines[r]
      /\ now(H, M, group[r]).current = currentConfig[r]
  BY InHistory DEF leads, now
<1>. QED
  BY <1>1 DEF leads, Data, ValueServed, canServe

\* A step that changes no value.
LEMMA SameValues ==
  ASSUME Inv, OwnerInv, NEW H, NEW M, NEW J, NEW N, NEW r, leads(H, M, J, N, r),
         effects' = effects,
         \A s \in Shard : isKept(J, N, group[r], now(J, N, group[r]), s),
         \A s \in Shard : canServe(r, s)' => stateMachines'[r][s].kv = effects[s],
         currentConfig'[r] = currentConfig[r] \/ serves(stateMachines[r]),
         \A s \in Shard : \/ currentConfig'[r] = currentConfig[r]
                          \/ stateMachines'[r][s].kv = stateMachines[r][s].kv
  PROVE  Data(J, N)'
<1>1. Data(H, M) /\ r \in Replica
  BY DEF leads
<1>2. ValueServed(J, N)'
  <2>. SUFFICES ASSUME NEW a \in Active, NEW s \in Shard,
                       owner(now(J, N, a).current, s) = a,
                       now(J, N, a).shards[s].status \in {"Serving", "GCing"}
                PROVE  now(J, N, a).shards[s].kv = effects[s]
    BY DEF ValueServed
  <2>1. CASE a = group[r]
    <3>1. /\ now(J, N, a).shards = stateMachines'[r]
          /\ now(J, N, a).current = currentConfig'[r]
      BY <2>1, LeadsAdvances
    <3>. QED
      BY <2>1, <3>1 DEF canServe
  <2>2. CASE a # group[r]
    <3>1. now(J, N, a) = now(H, M, a)
      BY <2>2, LeadsAdvances
    <3>. QED
      BY <1>1, <3>1 DEF Data, ValueServed
  <2>. QED
    BY <2>1, <2>2
<1>3. ValueLeft(J, N)'
  <2>. SUFFICES ASSUME NEW n \in Nat, NEW s \in Shard, NEW v, n < Len(Configs),
                       isLeft(J, N, n, s, v), owner(n + 1, s) # owner(n, s),
                       ~hasArrived(J, N, n + 1, s)
                PROVE  v = effects[s]
    BY DEF ValueLeft
  <2>1. ~hasArrived(H, M, n + 1, s)
    BY ArrivedStays
  <2>2. CASE isLeft(H, M, n, s, v)
    BY <1>1, <2>1, <2>2 DEF Data, ValueLeft
  <2>3. CASE ~isLeft(H, M, n, s, v)
    <3>1. /\ owner(n, s) = group[r] /\ currentConfig[r] = n /\ currentConfig'[r] = n + 1
          /\ stateMachines'[r][s].kv = v
      BY <2>3, LeftBefore, LeadsAdvances
    <3>2. currentConfig'[r] # currentConfig[r]
      BY <3>1, SMT
    <3>3. canServe(r, s) /\ stateMachines[r][s].kv = v
      BY <3>1, <3>2 DEF canServe, serves
    <3>. QED
      BY <3>3, ServedBefore
  <2>. QED
    BY <2>2, <2>3
<1>4. ValueOwned(J, N)'
  BY <1>1, HadOwnerStays DEF Data, ValueOwned
<1>5. DOMAIN effects' = Shard
  BY <1>1 DEF Data
<1>. QED
  BY <1>2, <1>3, <1>4, <1>5, LeadsData

\* While one group serves a shard no other does, and there are no data of it on
\* their way that could still arrive.
LEMMA ServesAlone ==
  ASSUME NeverBackToNobody, Inv, OwnerInv,
         NEW H, NEW M, NEW J, NEW N, NEW r, leads(H, M, J, N, r),
         NEW x \in Shard, canServe(r, x)
  PROVE  /\ \A a \in Active : a # group[r] =>
              ~(/\ owner(now(H, M, a).current, x) = a
                /\ now(H, M, a).shards[x].status \in {"Serving", "GCing"})
         /\ \A n \in Nat : \A v :
              n < Len(Configs) /\ isLeft(H, M, n, x, v) => hasArrived(H, M, n + 1, x)
<1>. DEFINE c == currentConfig[r]
            g == group[r]
<1>1. /\ r \in Replica /\ Histories(H, M) /\ g \in Active /\ g # 0
      /\ now(H, M, g).current = c /\ now(H, M, g).shards = stateMachines[r]
      /\ owner(c, x) = g /\ stateMachines[r][x].status \in {"Serving", "GCing"}
      /\ c \in Nat /\ c <= Len(Configs) /\ Len(Configs) \in Nat
  <2>1. r \in Replica /\ Histories(H, M) /\ g \in Active /\ g # 0
    BY ActiveGroups, ActiveFacts DEF leads
  <2>2. c \in Nat /\ c <= Len(Configs) /\ Len(Configs) \in Nat
    <3>1. /\ c \in Nat /\ c <= published /\ published \in Nat /\ published <= Len(Configs)
          /\ Len(Configs) \in Nat
      BY <2>1, ConfigAssumption, LenProperties DEF OwnerInv, ConfigsPublished
    <3>. QED
      BY <3>1, SMT
  <2>. QED
    BY <2>1, <2>2, LeadsAdvances DEF canServe
<1>2. ~passed(g, c)
  <2>1. ~(now(H, M, g).current > c)
    BY <1>1
  <2>. QED
    BY <1>1, <2>1, PassedFurthest
<1>3. \A n \in Nat : n < c /\ owner(n, x) \notin {0, g} => passed(owner(n, x), n)
  <2>1. \A n \in Nat : n < c => n \in 0..(c - 1)
    BY <1>1, SMT
  <2>. QED
    BY <1>1, <2>1 DEF OwnerInv, ServedInTurn
<1>4. ASSUME NEW a \in Active, a # g, owner(now(H, M, a).current, x) = a,
             now(H, M, a).shards[x].status \in {"Serving", "GCing"}
      PROVE  FALSE
  <2>1. PICK t \in Replica : group[t] = a /\ lastApplied[t] = M[a]
    BY <1>1 DEF Histories
  <2>. DEFINE d == currentConfig[t]
  <2>2. now(H, M, a).shards = stateMachines[t] /\ now(H, M, a).current = d
    BY <1>1, <2>1, InHistory DEF now
  <2>3. canServe(t, x) /\ owner(d, x) = a /\ a # 0 /\ d \in Nat
    BY <1>4, <2>1, <2>2, ActiveFacts, ReplicaShards DEF canServe
  <2>. HIDE DEF d, c, g
  <2>4. CASE c < d
    <3>1. c \in 0..(d - 1)
      BY <1>1, <2>3, <2>4, SMT
    <3>2. passed(g, c)
      BY <1>1, <1>4, <2>1, <2>3, <3>1 DEF OwnerInv, ServedInTurn, d
    <3>. QED
      BY <1>2, <3>2
  <2>5. CASE d < c
    <3>1. passed(a, d)
      BY <1>3, <1>4, <2>3, <2>5
    <3>2. now(H, M, a).current > d
      BY <1>1, <2>3, <3>1, PassedFurthest
    <3>. QED
      BY <2>2, <2>3, <3>2, SMT DEF d
  <2>6. c # d
    BY <1>1, <1>4, <2>3
  <2>. QED
    BY <1>1, <2>3, <2>4, <2>5, <2>6, SMT
<1>5. ASSUME NEW n \in Nat, NEW v, n < Len(Configs), isLeft(H, M, n, x, v)
      PROVE  hasArrived(H, M, n + 1, x)
  <2>. DEFINE a == owner(n, x)
              b == owner(n + 1, x)
  <2>1. a \in Active /\ passed(a, n)
    <3>1. a \in Active /\ M[a] \in Nat
      BY <1>1, <1>5 DEF isLeft, Histories
    <3>2. PICK k \in 1..M[a] : H[a][k].current = n + 1
      BY <1>5 DEF isLeft
    <3>3. k \in 0..M[a]
      BY <3>1, SMT
    <3>4. H[a][k].current <= now(H, M, a).current /\ now(H, M, a).current \in Nat
      BY <1>1, <3>1, <3>3, NowIsFurthest
    <3>5. now(H, M, a).current > n
      BY <3>2, <3>4, SMT
    <3>. QED
      BY <1>1, <3>1, <3>5, PassedFurthest
  <2>2. n < c
    <3>1. CASE n = c
      BY <1>1, <1>2, <2>1, <3>1
    <3>2. CASE n > c
      <4>1. c \in 0..(n - 1)
        BY <1>1, <3>2, SMT
      <4>. QED
        BY <1>1, <1>2, <2>1, <4>1 DEF OwnerInv, LeftInTurn
    <3>. QED
      BY <1>1, <3>1, <3>2, SMT
  <2>3. b # 0
    <3>1. n + 1 \in 0..Len(Configs) /\ n \in 0..(n + 1)
      BY <1>1, <1>5, SMT
    <3>2. a # 0
      BY <2>1, ActiveFacts
    <3>. QED
      BY <3>1, <3>2 DEF NeverBackToNobody
  <2>4. n + 1 \in Nat /\ (n + 1 = c \/ n + 1 < c)
    BY <1>1, <2>2, SMT
  <2>5. CASE b = g
    <3>1. now(H, M, b).current > n + 1 \/ now(H, M, b).current = n + 1
      BY <1>1, <2>4, <2>5
    <3>2. now(H, M, b).shards[x].status # "Pulling"
      BY <1>1, <2>5
    <3>. QED
      BY <1>1, <2>4, <2>5, <3>1, <3>2 DEF hasArrived
  <2>6. CASE b # g
    <3>1. n + 1 < c
      BY <1>1, <2>4, <2>6
    <3>2. passed(b, n + 1)
      BY <1>3, <2>3, <2>4, <2>6, <3>1
    <3>3. b \in Active
      BY <3>2, ActiveGroups DEF passed
    <3>4. now(H, M, b).current > n + 1
      BY <1>1, <2>4, <3>2, <3>3, PassedFurthest
    <3>. QED
      BY <2>4, <3>3, <3>4 DEF hasArrived
  <2>. QED
    BY <2>5, <2>6
<1>. QED
  BY <1>4, <1>5

-----------------------------------------------------------------------------
(* Its steps *)

LEMMA LeadSkips ==
  ASSUME Inv, OwnerInv, NEW H, NEW M, NEW J, NEW N, NEW r, leads(H, M, J, N, r),
         UNCHANGED <<stateMachines, currentConfig, effects>>
  PROVE  Data(J, N)'
<1>1. \A s \in Shard : isKept(J, N, group[r], now(J, N, group[r]), s)
  BY UnchangedKept
<1>2. \A s \in Shard : canServe(r, s)' => canServe(r, s)
  BY DEF canServe
<1>3. \A s \in Shard : canServe(r, s)' => stateMachines'[r][s].kv = effects[s]
  BY <1>2, ServedBefore
<1>. QED
  BY <1>1, <1>3, SameValues

LEMMA LeadOperation ==
  ASSUME NeverBackToNobody, Inv, OwnerInv,
         NEW H, NEW M, NEW J, NEW N, NEW r, leads(H, M, J, N, r), ApplyOperation(r)
  PROVE  Data(J, N)'
<1>. DEFINE x == next(r).request.shard
            g == group[r]
            c == currentConfig[r]
<1>1. /\ r \in Replica /\ g \in Active /\ Histories(H, M) /\ Data(H, M)
      /\ DOMAIN effects = Shard
  BY ActiveGroups DEF leads, Data
<1>2. isFirst(r)
  <2>1. ASSUME NEW t \in Replica, group[t] = g PROVE lastApplied[t] <= lastApplied[r]
    <3>1. lastApplied[t] \in 0..M[g] /\ lastApplied[r] = M[g] /\ M[g] \in Nat
      BY <1>1, <2>1, InHistory DEF leads
    <3>. QED
      BY <3>1, SMT
  <2>. QED
    BY <2>1 DEF isFirst
<1>3. /\ canServe(r, x) /\ currentConfig' = currentConfig
      /\ \A s \in Shard :
           /\ stateMachines'[r][s].status = stateMachines[r][s].status
           /\ stateMachines'[r][s].kv = IF s = x THEN written(next(r), stateMachines[r][s].kv)
                                        ELSE stateMachines[r][s].kv
      /\ effects' = [effects EXCEPT ![x] = written(next(r), @)]
  BY <1>1, <1>2, OperationShards
<1>4. /\ now(H, M, g).shards = stateMachines[r] /\ now(H, M, g).current = c
      /\ now(J, N, g).shards = stateMachines'[r] /\ now(J, N, g).current = c
      /\ \A a \in Active : a # g => now(J, N, a) = now(H, M, a)
  BY <1>3, LeadsAdvances
<1>5. DOMAIN effects' = Shard /\ \A s \in Shard : s # x => effects'[s] = effects[s]
  BY <1>1, <1>3
<1>6. x \in Shard => stateMachines'[r][x].kv = effects'[x]
  <2>1. x \in Shard => stateMachines[r][x].kv = effects[x]
    BY <1>3, ServedBefore
  <2>. QED
    BY <1>1, <1>3, <2>1
<1>7. ASSUME NEW s \in Shard PROVE isKept(J, N, g, now(J, N, g), s)
  <2>1. isKept(H, M, g, now(H, M, g), s)
    BY KeptNow
  <2>2. CASE s = x
    <3>1. owner(c, s) = g /\ stateMachines[r][s].status \in {"Serving", "GCing"}
      BY <1>3, <2>2 DEF canServe
    <3>2. isKept(H, M, g, now(J, N, g), s)
      BY <1>3, <1>4, <2>1, <3>1 DEF isKept
    <3>. QED
      BY <3>2, KeptStays
  <2>3. CASE s # x
    <3>1. isKept(H, M, g, now(J, N, g), s)
      BY <1>3, <1>4, <2>1, <2>3 DEF isKept
    <3>. QED
      BY <3>1, KeptStays
  <2>. QED
    BY <2>2, <2>3
<1>. HIDE DEF x, g, c
<1>8. ValueServed(J, N)'
  <2>. SUFFICES ASSUME NEW a \in Active, NEW s \in Shard,
                       owner(now(J, N, a).current, s) = a,
                       now(J, N, a).shards[s].status \in {"Serving", "GCing"}
                PROVE  now(J, N, a).shards[s].kv = effects'[s]
    BY DEF ValueServed
  <2>1. CASE a # g
    <3>1. s # x
      BY <1>3, <1>4, <2>1, ServesAlone DEF g
    <3>. QED
      BY <1>1, <1>4, <1>5, <2>1, <3>1 DEF Data, ValueServed
  <2>2. CASE a = g /\ s = x
    BY <1>4, <1>6, <2>2
  <2>3. CASE a = g /\ s # x
    <3>1. /\ now(H, M, g).shards[s].kv = effects[s]
      BY <1>1, <1>3, <1>4, <2>3 DEF Data, ValueServed
    <3>. QED
      BY <1>3, <1>4, <1>5, <2>3, <3>1
  <2>. QED
    BY <2>1, <2>2, <2>3
<1>9. ValueLeft(J, N)'
  <2>. SUFFICES ASSUME NEW n \in Nat, NEW s \in Shard, NEW v, n < Len(Configs),
                       isLeft(J, N, n, s, v), owner(n + 1, s) # owner(n, s),
                       ~hasArrived(J, N, n + 1, s)
                PROVE  v = effects'[s]
    BY DEF ValueLeft
  <2>1. ~hasArrived(H, M, n + 1, s)
    BY ArrivedStays
  <2>2. isLeft(H, M, n, s, v)
    <3>1. c = n => c # n + 1
      BY SMT
    <3>. QED
      BY <1>4, <3>1, LeftBefore DEF g
  <2>3. s # x
    BY <1>3, <2>1, <2>2, ServesAlone
  <2>. QED
    BY <1>1, <1>5, <2>1, <2>2, <2>3 DEF Data, ValueLeft
<1>10. ValueOwned(J, N)'
  <2>. SUFFICES ASSUME NEW s \in Shard, effects'[s] # <<>> PROVE hadOwner(J, N, s)'
    BY DEF ValueOwned
  <2>1. CASE s # x
    BY <1>1, <1>5, <2>1, HadOwnerStays DEF Data, ValueOwned
  <2>2. CASE s = x
    <3>1. c \in Nat /\ owner(c, s) = g /\ now(H, M, g).current = c
      BY <1>1, <1>3, <1>4, <2>2, ReplicaShards DEF canServe, c, g
    <3>2. ASSUME NEW j \in 0..(c - 1), owner(j, s) # 0 PROVE passed(owner(j, s), j)
      <4>1. CASE owner(j, s) = g
        <5>1. currentConfig[r] > j
          BY <3>1, SMT DEF c
        <5>. QED
          BY <1>1, <4>1, <5>1 DEF passed, g
      <4>2. CASE owner(j, s) # g
        BY <1>1, <1>3, <2>2, <3>2, <4>2 DEF OwnerInv, ServedInTurn, c, g
      <4>. QED
        BY <4>1, <4>2
    <3>3. c >= c
      BY <3>1, SMT
    <3>4. hadOwner(H, M, s)
      BY <1>1, <3>1, <3>2, <3>3 DEF hadOwner
    <3>. QED
      BY <3>4, HadOwnerStays
  <2>. QED
    BY <2>1, <2>2
<1>. QED
  BY <1>5, <1>7, <1>8, <1>9, <1>10, LeadsData DEF g

LEMMA LeadConfiguration ==
  ASSUME NeverBackToNobody, Inv, OwnerInv,
         NEW H, NEW M, NEW J, NEW N, NEW r, leads(H, M, J, N, r), ApplyConfiguration(r)
  PROVE  Data(J, N)'
<1>. DEFINE g == group[r]
            c == currentConfig[r]
<1>1. /\ r \in Replica /\ g \in Active /\ g # 0 /\ Histories(H, M) /\ Data(H, M) /\ Apply(r)
      /\ c \in Nat
  BY ActiveGroups, ActiveFacts, ReplicaShards DEF leads
<1>2. /\ effects' = effects
      /\ \A s \in Shard : stateMachines'[r][s].kv = stateMachines[r][s].kv
      /\ currentConfig'[r] = c => stateMachines' = stateMachines
  BY <1>1, ConfigurationShards
<1>3. /\ now(H, M, g).shards = stateMachines[r] /\ now(H, M, g).current = c
      /\ now(J, N, g).shards = stateMachines'[r] /\ now(J, N, g).current = currentConfig'[r]
  BY LeadsAdvances
<1>4. CASE currentConfig'[r] = c
  <2>1. \A s \in Shard : isKept(J, N, g, now(J, N, g), s)
    BY <1>2, <1>4, UnchangedKept
  <2>2. \A s \in Shard : canServe(r, s)' => canServe(r, s)
    BY <1>2, <1>4 DEF canServe
  <2>3. \A s \in Shard : canServe(r, s)' => stateMachines'[r][s].kv = effects[s]
    BY <1>2, <2>2, ServedBefore
  <2>. QED
    BY <1>2, <1>4, <2>1, <2>3, SameValues
<1>5. CASE currentConfig'[r] # c
  <2>1. /\ currentConfig'[r] = c + 1 /\ c + 1 <= published /\ serves(stateMachines[r])
        /\ \A s \in Shard : stateMachines'[r][s].status =
             nextStatus(r, s, owner(c, s), owner(c + 1, s))
    BY <1>1, <1>5, ApplyProgresses DEF goesForward
  <2>2. c + 1 \in 0..Len(Configs) /\ c \in 0..(c + 1) /\ c \in 0..Len(Configs)
    <3>1. /\ published \in Nat /\ published <= Len(Configs) /\ Len(Configs) \in Nat
      BY ConfigAssumption, LenProperties DEF OwnerInv, ConfigsPublished
    <3>. QED
      BY <1>1, <2>1, <3>1, SMT
  <2>3. \A s \in Shard : stateMachines[r][s].status = "Serving"
    BY <2>1 DEF serves
  <2>. HIDE DEF g, c
  <2>4. ASSUME NEW s \in Shard
        PROVE  /\ owner(c, s) # g => stateMachines[r][s].kv = <<>>
               /\ owner(c, s) = g => canServe(r, s) /\ owner(c + 1, s) # 0
    <3>1. isKept(H, M, g, now(H, M, g), s)
      BY KeptNow DEF g
    <3>2. owner(c, s) # g => stateMachines[r][s].kv = <<>>
      BY <1>3, <2>3, <3>1 DEF isKept
    <3>3. owner(c, s) = g => owner(c + 1, s) # 0
      BY <1>1, <2>2 DEF NeverBackToNobody
    <3>. QED
      BY <2>3, <3>2, <3>3 DEF canServe, c, g
  <2>5. ASSUME NEW s \in Shard PROVE isKept(J, N, g, now(J, N, g), s)
    <3>. DEFINE status == stateMachines'[r][s].status
                n == c + 1
    <3>1. /\ now(J, N, g).current = n /\ now(J, N, g).shards[s].status = status
          /\ now(J, N, g).shards[s].kv = stateMachines[r][s].kv
          /\ n # 0 /\ n - 1 = c /\ n \in Nat
      BY <1>1, <1>2, <1>3, <2>1
    <3>2. /\ status = "BePulling" => owner(c, s) = g /\ owner(n, s) # g
          /\ status = "Pulling" => owner(n, s) = g /\ owner(c, s) \notin {0, g}
          /\ owner(c, s) = g /\ owner(n, s) # g => status = "BePulling"
      BY <2>1, <2>3, <2>4 DEF nextStatus, g
    <3>3. owner(c, s) = g => isLeft(J, N, c, s, stateMachines[r][s].kv)
      <4>1. N[g] = M[g] + 1 /\ M[g] \in Nat
        BY <1>1 DEF leads, extends, Histories, g
      <4>2. N[g] \in 1..N[g] /\ N[g] - 1 = M[g] /\ M[g] \in 0..M[g]
        BY <4>1, SMT
      <4>3. J[g][N[g] - 1].current = c
        BY <1>3, <4>2 DEF leads, extends, now, g
      <4>4. J[g][N[g]].current = n /\ J[g][N[g]].shards[s].kv = stateMachines[r][s].kv
        BY <3>1 DEF now
      <4>. QED
        BY <1>1, <4>2, <4>3, <4>4 DEF isLeft
    <3>4. status # "Pulling" /\ owner(n, s) = g => hasArrived(J, N, n, s)
      BY <1>1, <3>1 DEF hasArrived
    <3>. HIDE DEF status, n
    <3>. QED
      BY <2>4, <3>1, <3>2, <3>3, <3>4 DEF isKept
  <2>6. ASSUME NEW s \in Shard, canServe(r, s)' PROVE stateMachines'[r][s].kv = effects[s]
    <3>1. owner(c + 1, s) = g /\ stateMachines'[r][s].status # "Pulling"
      BY <2>1, <2>6 DEF canServe, g
    <3>2. owner(c, s) \in {0, g}
      BY <2>1, <3>1 DEF nextStatus, g
    <3>3. CASE owner(c, s) = g
      BY <1>2, <2>4, <3>3, ServedBefore
    <3>4. CASE owner(c, s) = 0
      <4>1. stateMachines'[r][s].kv = <<>>
        BY <1>1, <1>2, <2>4, <3>4
      <4>2. ASSUME hadOwner(H, M, s) PROVE FALSE
        <5>1. PICK n \in Nat :
                /\ owner(n, s) \in Active /\ now(H, M, owner(n, s)).current >= n
                /\ \A j \in 0..(n - 1) : owner(j, s) # 0 => passed(owner(j, s), j)
          BY <4>2 DEF hadOwner
        <5>2. CASE n <= c
          <6>1. n \in 0..c
            BY <1>1, <5>2, SMT
          <6>2. owner(n, s) = 0
            BY <2>2, <3>4, <6>1 DEF NeverBackToNobody
          <6>. QED
            BY <5>1, <6>2, ActiveFacts
        <5>3. CASE n = c + 1
          BY <1>1, <1>3, <3>1, <5>1, <5>3
        <5>4. CASE n > c + 1
          <6>1. c + 1 \in 0..(n - 1)
            BY <1>1, <5>4, SMT
          <6>2. passed(g, c + 1)
            BY <1>1, <3>1, <5>1, <6>1
          <6>3. now(H, M, g).current > c + 1
            BY <1>1, <6>2, PassedFurthest
          <6>. QED
            BY <1>1, <1>3, <6>3, SMT
        <5>. QED
          BY <1>1, <5>2, <5>3, <5>4, SMT
      <4>3. effects[s] = <<>>
        BY <1>1, <4>2 DEF Data, ValueOwned
      <4>. QED
        BY <4>1, <4>3
    <3>. QED
      BY <3>2, <3>3, <3>4
  <2>. QED
    BY <1>2, <2>1, <2>5, <2>6, SameValues DEF g
<1>. QED
  BY <1>4, <1>5

\* The command that is applied is sound.
LEMMA NextSound ==
  ASSUME Inv, NEW H, NEW M, NEW J, NEW N, NEW r, leads(H, M, J, N, r)
  PROVE  isSound(H, M, group[r], next(r))
<1>1. /\ r \in Replica /\ group[r] \in Active /\ group[r] \in Group /\ applied(r)
      /\ lastApplied[r] \in Nat
  BY ActiveGroups, ApplyIsApplied, InHistory DEF leads
<1>2. Len(log[group[r]]) \in Nat
  BY <1>1, LenProperties DEF Inv, Types
<1>3. lastApplied[r] + 1 \in 1..Len(log[group[r]])
  BY <1>1, <1>2, SMT DEF applied
<1>. QED
  BY <1>1, <1>3 DEF leads, Data, CommandsSound, next

LEMMA LeadInsertion ==
  ASSUME Inv, OwnerInv, NEW H, NEW M, NEW J, NEW N, NEW r, leads(H, M, J, N, r),
         ApplyInsertShards(r)
  PROVE  Data(J, N)'
<1>. DEFINE g == group[r]
            c == currentConfig[r]
            cmd == next(r)
<1>1. /\ r \in Replica /\ g \in Active /\ Data(H, M) /\ c \in Nat
  BY ActiveGroups, ReplicaShards DEF leads
<1>2. /\ UNCHANGED <<effects, currentConfig>>
      /\ \A s \in Shard : stateMachines'[r][s] = stateMachines[r][s] \/ insertsShard(r, s)
  BY <1>1, InsertionShards
<1>3. /\ now(H, M, g).shards = stateMachines[r] /\ now(H, M, g).current = c
      /\ now(J, N, g).shards = stateMachines'[r] /\ now(J, N, g).current = c
  BY <1>2, LeadsAdvances
<1>4. isSound(H, M, g, cmd)
  BY NextSound
<1>. HIDE DEF g, c, cmd
<1>5. ASSUME NEW s \in Shard, insertsShard(r, s)
      PROVE  /\ owner(c, s) = g /\ stateMachines'[r][s].status = "GCing"
             /\ stateMachines'[r][s].kv = effects[s]
  <2>1. /\ cmd.op = "InsertShards" /\ cmd.configNum = c /\ s \in cmd.shardIds
        /\ stateMachines[r][s].status = "Pulling"
        /\ stateMachines'[r][s] = inserted(stateMachines[r][s], cmd.shards[s])
    BY <1>5 DEF insertsShard, cmd, c
  <2>2. /\ c \in Nat \ {0} /\ owner(c, s) = g /\ owner(c - 1, s) # g
        /\ isLeft(H, M, c - 1, s, cmd.shards[s]) \/ hasArrived(H, M, c, s)
    BY <1>4, <2>1 DEF isSound
  <2>3. ~hasArrived(H, M, c, s)
    BY <1>1, <1>3, <2>1, <2>2 DEF hasArrived
  <2>4. c - 1 \in Nat /\ c - 1 + 1 = c /\ c - 1 < Len(Configs)
    <3>1. /\ published \in Nat /\ published <= Len(Configs) /\ Len(Configs) \in Nat
          /\ c <= published
      BY <1>1, ConfigAssumption, LenProperties DEF OwnerInv, ConfigsPublished, c
    <3>. QED
      BY <2>2, <3>1, SMT
  <2>5. cmd.shards[s] = effects[s]
    BY <1>1, <2>2, <2>3, <2>4 DEF Data, ValueLeft
  <2>6. stateMachines[r][s].kv = <<>>
    <3>1. isKept(H, M, g, now(H, M, g), s)
      BY KeptNow DEF g
    <3>. QED
      BY <1>3, <2>1, <3>1 DEF isKept
  <2>. QED
    BY <2>1, <2>2, <2>5, <2>6 DEF inserted
<1>6. ASSUME NEW s \in Shard PROVE isKept(J, N, g, now(J, N, g), s)
  <2>1. CASE stateMachines'[r][s] = stateMachines[r][s]
    BY <1>2, <2>1, UnchangedKept DEF g
  <2>2. CASE insertsShard(r, s)
    <3>1. owner(c, s) = g /\ stateMachines'[r][s].status = "GCing"
      BY <1>5, <2>2
    <3>2. hasArrived(J, N, c, s)
      BY <1>1, <1>3, <3>1 DEF hasArrived
    <3>. QED
      BY <1>3, <3>1, <3>2 DEF isKept
  <2>. QED
    BY <1>2, <2>1, <2>2
<1>7. ASSUME NEW s \in Shard, canServe(r, s)' PROVE stateMachines'[r][s].kv = effects[s]
  <2>1. CASE stateMachines'[r][s] = stateMachines[r][s]
    <3>1. canServe(r, s)
      BY <1>2, <1>7, <2>1 DEF canServe
    <3>. QED
      BY <2>1, <3>1, ServedBefore
  <2>2. CASE insertsShard(r, s)
    BY <1>5, <2>2
  <2>. QED
    BY <1>2, <2>1, <2>2
<1>. QED
  BY <1>2, <1>6, <1>7, SameValues DEF g

LEMMA LeadDeletion ==
  ASSUME Inv, OwnerInv, NEW H, NEW M, NEW J, NEW N, NEW r, leads(H, M, J, N, r),
         ApplyDeleteShards(r)
  PROVE  Data(J, N)'
<1>. DEFINE g == group[r]
            c == currentConfig[r]
            cmd == next(r)
<1>1. /\ r \in Replica /\ g \in Active /\ Data(H, M)
      /\ UNCHANGED <<effects, currentConfig>>
      /\ \A s \in Shard : stateMachines'[r][s] = stateMachines[r][s] \/ deletesShard(r, s)
  BY ActiveGroups, DeletionShards DEF leads
<1>2. /\ now(H, M, g).shards = stateMachines[r] /\ now(H, M, g).current = c
      /\ now(J, N, g).shards = stateMachines'[r] /\ now(J, N, g).current = c
  BY <1>1, LeadsAdvances
<1>3. isSound(H, M, g, cmd)
  BY NextSound
<1>. HIDE DEF g, c, cmd
<1>4. ASSUME NEW s \in Shard, deletesShard(r, s)
      PROVE  /\ hasArrived(H, M, c, s)
             /\ \/ /\ stateMachines[r][s].status = "GCing"
                   /\ stateMachines'[r][s].status = "Serving"
                   /\ stateMachines'[r][s].kv = stateMachines[r][s].kv
                \/ /\ stateMachines[r][s].status = "BePulling"
                   /\ stateMachines'[r][s] = NewShard
  <2>1. /\ cmd.op = "DeleteShards" /\ cmd.configNum = c /\ s \in cmd.shardIds
        /\ stateMachines[r][s].status \in {"GCing", "BePulling"}
        /\ stateMachines'[r][s] = deleted(stateMachines[r][s])
    BY <1>4 DEF deletesShard, cmd, c
  <2>2. hasArrived(H, M, c, s)
    BY <1>3, <2>1 DEF isSound
  <2>3. DOMAIN stateMachines[r][s] = {"kv", "status"}
    BY <1>1, ReplicaShards
  <2>. QED
    BY <2>1, <2>2, <2>3 DEF deleted
<1>5. ASSUME NEW s \in Shard PROVE isKept(J, N, g, now(J, N, g), s)
  <2>1. CASE stateMachines'[r][s] = stateMachines[r][s]
    BY <1>1, <2>1, UnchangedKept DEF g
  <2>2. CASE deletesShard(r, s)
    <3>1. isKept(H, M, g, now(H, M, g), s) /\ hasArrived(H, M, c, s)
      BY <1>4, <2>2, KeptNow DEF g
    <3>2. hasArrived(J, N, c, s)
      BY <3>1, ArrivedStays
    <3>3. CASE stateMachines[r][s].status = "GCing"
      <4>1. owner(c, s) = g
        <5>1. isState(g, state(r))
          BY <1>1, InHistory DEF leads, g
        <5>. QED
          BY <3>3, <5>1 DEF isState, state, c
      <4>. QED
        BY <1>2, <1>4, <2>2, <3>2, <3>3, <4>1 DEF isKept
    <3>4. CASE stateMachines[r][s].status = "BePulling"
      <4>1. /\ stateMachines'[r][s] = NewShard
            /\ c # 0 /\ owner(c - 1, s) = g /\ owner(c, s) # g
        BY <1>2, <1>4, <2>2, <3>1, <3>4 DEF isKept
      <4>. QED
        BY <1>2, <3>2, <4>1 DEF isKept, NewShard
    <3>. QED
      BY <1>4, <2>2, <3>3, <3>4
  <2>. QED
    BY <1>1, <2>1, <2>2
<1>6. ASSUME NEW s \in Shard, canServe(r, s)' PROVE stateMachines'[r][s].kv = effects[s]
  <2>1. CASE canServe(r, s) /\ stateMachines'[r][s].kv = stateMachines[r][s].kv
    BY <2>1, ServedBefore
  <2>2. CASE stateMachines'[r][s] = stateMachines[r][s]
    BY <1>1, <1>6, <2>1, <2>2 DEF canServe
  <2>3. CASE deletesShard(r, s)
    <3>1. owner(c, s) = g
      BY <1>1, <1>6 DEF canServe, c, g
    <3>2. stateMachines[r][s].status # "BePulling"
      <4>1. isKept(H, M, g, now(H, M, g), s)
        BY KeptNow DEF g
      <4>. QED
        BY <1>2, <3>1, <4>1 DEF isKept
    <3>. QED
      BY <1>4, <2>1, <2>3, <3>1, <3>2 DEF canServe, c, g
  <2>. QED
    BY <1>1, <2>2, <2>3
<1>. QED
  BY <1>1, <1>5, <1>6, SameValues DEF g

LEMMA ApplyHistory ==
  ASSUME NeverBackToNobody, Inv, OwnerInv, HistoryInv, NEW r \in Replica, Apply(r)
  PROVE  HistoryInv'
<1>1. PICK H, M : Histories(H, M) /\ Data(H, M)
  BY DEF HistoryInv
<1>. DEFINE g == group[r]
<1>2. /\ g \in Active /\ M[g] \in Nat /\ History(g, H[g], M[g])
      /\ lastApplied[r] \in 0..M[g] /\ Types /\ Commands /\ applied(r)
  BY <1>1, InHistory, ApplyIsApplied DEF Histories, Inv
<1>3. CASE lastApplied[r] < M[g]
  BY <1>1, <1>3, FollowData DEF HistoryInv
<1>4. CASE lastApplied[r] = M[g]
  <2>1. PICK J, N : /\ extends(H, M, J, N, g) /\ Histories(J, N)'
                    /\ now(J, N, g) = state(r)'
    BY <1>1, <1>4, ExtendHistories
  <2>2. leads(H, M, J, N, r)
    BY <1>1, <1>4, <2>1 DEF leads
  <2>3. Data(J, N)'
    <3>1. CASE RefuseOperation(r) \/ SkipDuplicate(r)
      BY <2>2, <3>1, LeadSkips DEF RefuseOperation, SkipDuplicate
    <3>2. CASE ApplyOperation(r)
      BY <2>2, <3>2, LeadOperation
    <3>3. CASE ApplyConfiguration(r)
      BY <2>2, <3>3, LeadConfiguration
    <3>4. CASE ApplyInsertShards(r)
      BY <2>2, <3>4, LeadInsertion
    <3>5. CASE ApplyDeleteShards(r)
      BY <2>2, <3>5, LeadDeletion
    <3>. QED
      BY <3>1, <3>2, <3>3, <3>4, <3>5 DEF Apply
  <2>. QED
    BY <2>1, <2>3 DEF HistoryInv
<1>. QED
  BY <1>2, <1>3, <1>4, SMT

-----------------------------------------------------------------------------
(* The theorem *)

LEMMA HistoryFollows == HistoryInv => ShardHistory
<1>. SUFFICES ASSUME HistoryInv, NEW r \in Replica, isUpToDate(r),
                     NEW s \in Shard, canServe(r, s)
              PROVE  stateMachines[r][s].kv = effects[s]
  BY DEF ShardHistory
<1>1. PICK H, M : Histories(H, M) /\ Data(H, M)
  BY DEF HistoryInv
<1>. DEFINE g == group[r]
<1>2. /\ g \in Active /\ M[g] \in Nat /\ History(g, H[g], M[g])
      /\ lastApplied[r] \in 0..M[g]
      /\ H[g][lastApplied[r]].shards = stateMachines[r]
      /\ H[g][lastApplied[r]].current = currentConfig[r]
  BY <1>1, InHistory DEF Histories
<1>3. lastApplied[r] = M[g]
  <2>1. M[g] <= Len(log[g]) /\ lastApplied[r] = Len(log[g])
    BY <1>2 DEF History, isUpToDate
  <2>. QED
    BY <1>2, <2>1, SMT
<1>. QED
  BY <1>1, <1>2, <1>3 DEF Data, ValueServed, canServe, now

\* Whichever group serves a shard has the value that the operations of all groups
\* have given to it, whatever calls and entries are late, lost or repeated, and
\* whichever replicas lag: applyInsertShards takes what GetShardsData gave out
\* while the former owner had stopped serving, and only the first time, and the
\* former owner drops the data only when they have been inserted
\* (applyDeleteShards).  The condition is that the controller gives no shard back
\* to gid 0.
THEOREM ShardsTakeTheirDataAlong == ASSUME NeverBackToNobody PROVE Spec => []ShardHistory
<1>1. /\ Inv /\ OwnerInv /\ HistoryInv /\ [Next]_vars => Inv' /\ OwnerInv' /\ HistoryInv'
  BY NextInv, OwnerNext, ApplyHistory, GrowsHistoryInv
<1>. QED
  BY <1>1, InitInv, OwnerInit, HistoryInit, HistoryFollows, PTL DEF Spec

-----------------------------------------------------------------------------
(* Exactly once *)

\* No operation on shard s overwrites what others have written.
keepsAll(s) == \A q \in Request : q.shard = s => q.op # "Put"

NoPuts == \A s \in Shard : keepsAll(s)

\* Operation id of clerk c has had its effect on shard s, and it still shows.
hasEffect(c, id, s) == keepsAll(s) => \E k \in DOMAIN effects[s] : effects[s][k] = <<c, id>>

\* The operation that clerk c is busy with has had its effect.
isDone(c) ==
  /\ request[c] # Nil
  /\ request[c].op = "Append" => hasEffect(c, commandId[c], request[c].shard)

\* A table of last operations names no operation before it has had its effect.
remembers(ops) ==
  \A c \in Clerk : /\ ops[c] \in Int /\ ops[c] <= commandId[c]
                   /\ ops[c] = commandId[c] => isDone(c)

\* It names none older than those in the data.
covers(ops, kv) == \A k \in DOMAIN kv : kv[k][2] <= ops[kv[k][1]]

\* An operation is the one its clerk is busy with or an older one; and the data that
\* are to be inserted come with a table that covers them.
isTrue(cmd) ==
  /\ cmd.op = "Operation" =>
       /\ cmd.id <= commandId[cmd.clerk]
       /\ cmd.id = commandId[cmd.clerk] =>
            request[cmd.clerk] # Nil /\ cmd.request = request[cmd.clerk]
  /\ cmd.op = "InsertShards" =>
       /\ remembers(cmd.lastOperations)
       /\ \A s \in cmd.shardIds : covers(cmd.lastOperations, cmd.shards[s])

CommandsTrue ==
  /\ \A g \in Group : \A k \in 1..Len(log[g]) : isTrue(log[g][k])
  /\ \A t \in tasks : t.type = "Execute" => isTrue(t.command)

\* A clerk waits for the entry of the operation that it is busy with.
isOwnEntry(c, g, k) ==
  /\ isEntry(g, k)
  /\ log[g][k].op = "Operation" /\ log[g][k].clerk = c /\ log[g][k].id = commandId[c]

CallsOwn ==
  \A c \in Clerk : call[c] # <<>> => request[c] # Nil /\ isOwnEntry(c, call[c][1], call[c][2])

RepliesTrue == \A c \in Clerk : reply[c] = "OK" => isDone(c)

AnsweredTrue ==
  \A a \in answered : /\ a[3] \in Request
                      /\ a[3].op = "Append" => hasEffect(a[1], a[2], a[3].shard)

DataCovered ==
  \A r \in Replica, s \in Shard : covers(lastOperations[r], stateMachines[r][s].kv)

EffectsOnce == \A s \in Shard : IsInjective(effects[s])

\* The tables remember in every state of the histories, for each replica will still
\* go through the states that another has gone through.
Remembered(H, M) == \A g \in Active : \A k \in 0..M[g] : remembers(H[g][k].operations)

EffectInv ==
  /\ CommandsTrue /\ CallsOwn /\ RepliesTrue /\ AnsweredTrue /\ DataCovered /\ EffectsOnce
  /\ \E H, M : Histories(H, M) /\ Remembered(H, M)

-----------------------------------------------------------------------------

LEMMA Appended ==
  ASSUME NEW kv \in KV, NEW v
  PROVE  LET n == Len(kv) + 1 IN
         /\ DOMAIN Append(kv, v) = DOMAIN kv \cup {n} /\ n \notin DOMAIN kv
         /\ Append(kv, v)[n] = v /\ \A k \in DOMAIN kv : Append(kv, v)[k] = kv[k]
<1>1. PICK S : kv \in Seq(S) /\ v \in S
  <2>1. kv \in Seq((Clerk \X Nat) \cup {v})
    BY SeqMonotonic DEF KV
  <2>. QED
    BY <2>1
<1>2. /\ Append(kv, v) \in Seq(S) /\ Len(Append(kv, v)) = Len(kv) + 1
      /\ \A k \in 1..Len(kv) : Append(kv, v)[k] = kv[k]
      /\ Append(kv, v)[Len(kv) + 1] = v
  BY <1>1, AppendProperties
<1>3. /\ Len(kv) \in Nat /\ DOMAIN kv = 1..Len(kv)
      /\ DOMAIN Append(kv, v) = 1..(Len(kv) + 1)
  BY <1>1, <1>2, LenProperties
<1>4. 1..(Len(kv) + 1) = 1..Len(kv) \cup {Len(kv) + 1} /\ Len(kv) + 1 \notin 1..Len(kv)
  BY <1>3, SMT
<1>. QED
  BY <1>2, <1>3, <1>4

\* No step takes an operation from a clerk before it is answered, nor an effect back.
goesOn ==
  /\ \A c \in Clerk :
       \/ commandId'[c] = commandId[c] /\ (request[c] # Nil => request'[c] = request[c])
       \/ commandId'[c] = commandId[c] + 1
  /\ \A s \in Shard : \A c, id : hasEffect(c, id, s) => hasEffect(c, id, s)'

LEMMA DoneStays ==
  ASSUME TypeInv, goesOn, NEW c \in Clerk, isDone(c), commandId'[c] = commandId[c]
  PROVE  isDone(c)'
<1>1. commandId[c] \in Nat /\ request[c] \in Request
  BY DEF TypeInv, ClerkTypes, isDone
<1>2. commandId'[c] # commandId[c] + 1
  BY <1>1
<1>3. request'[c] = request[c]
  BY <1>2 DEF goesOn, isDone
<1>4. request[c].shard \in Shard
  BY <1>1, RequestAssumption
<1>. QED
  BY <1>3, <1>4 DEF goesOn, isDone

LEMMA RemembersStays ==
  ASSUME TypeInv, goesOn, NEW ops, remembers(ops)
  PROVE  remembers(ops)'
<1>1. ASSUME NEW c \in Clerk
      PROVE  ops[c] \in Int /\ ops[c] <= commandId'[c] /\ (ops[c] = commandId'[c] => isDone(c)')
  <2>1. commandId[c] \in Nat /\ ops[c] \in Int /\ ops[c] <= commandId[c]
    BY DEF TypeInv, ClerkTypes, remembers
  <2>2. CASE commandId'[c] = commandId[c]
    BY <2>1, <2>2, DoneStays DEF remembers
  <2>3. CASE commandId'[c] = commandId[c] + 1
    BY <2>1, <2>3, SMT
  <2>. QED
    BY <2>2, <2>3 DEF goesOn
<1>. QED
  BY <1>1 DEF remembers

LEMMA TrueStays ==
  ASSUME TypeInv, goesOn, NEW cmd, isTyped(cmd), isTrue(cmd)
  PROVE  isTrue(cmd)'
<1>1. CASE cmd.op = "Operation"
  <2>. DEFINE c == cmd.clerk
  <2>1. c \in Clerk /\ cmd.id \in Nat /\ commandId[c] \in Nat /\ cmd.id <= commandId[c]
    BY <1>1 DEF isTyped, isTrue, TypeInv, ClerkTypes
  <2>. HIDE DEF c
  <2>2. CASE commandId'[c] = commandId[c] /\ (request[c] # Nil => request'[c] = request[c])
    BY <1>1, <2>1, <2>2 DEF isTrue, c
  <2>3. CASE commandId'[c] = commandId[c] + 1
    <3>1. cmd.id <= commandId'[c] /\ cmd.id # commandId'[c]
      BY <2>1, <2>3, SMT
    <3>. QED
      BY <1>1, <3>1 DEF isTrue, c
  <2>. QED
    BY <2>1, <2>2, <2>3 DEF goesOn
<1>2. CASE cmd.op = "InsertShards"
  BY <1>2, RemembersStays DEF isTrue, covers
<1>. QED
  BY <1>1, <1>2 DEF isTrue

\* A table that names no older operations covers as much.
LEMMA CoversMore ==
  ASSUME NEW kv \in KV, NEW ops \in [Clerk -> Int], NEW more \in [Clerk -> Int],
         \A c \in Clerk : ops[c] <= more[c], covers(ops, kv)
  PROVE  covers(more, kv)
<1>1. ASSUME NEW k \in DOMAIN kv PROVE kv[k][2] <= more[kv[k][1]]
  <2>1. kv[k] \in Clerk \X Nat
    BY DEF KV
  <2>2. /\ kv[k][1] \in Clerk /\ kv[k][2] \in Nat /\ ops[kv[k][1]] \in Int
        /\ more[kv[k][1]] \in Int
    BY <2>1
  <2>3. kv[k][2] <= ops[kv[k][1]] /\ ops[kv[k][1]] <= more[kv[k][1]]
    BY <2>2 DEF covers
  <2>. QED
    BY <2>2, <2>3, SMT
<1>. QED
  BY <1>1 DEF covers

-----------------------------------------------------------------------------
(* The steps of clerks, monitors and handlers *)

LEMMA EffectInit == Init => EffectInv
<1>. SUFFICES ASSUME Init PROVE EffectInv
  OBVIOUS
<1>1. \A g \in Group : log[g] = <<>> /\ Len(log[g]) = 0
  BY EmptySeq DEF Init
<1>2. CommandsTrue
  BY <1>1 DEF Init, CommandsTrue
<1>3. CallsOwn /\ RepliesTrue /\ AnsweredTrue
  <2>1. \A c \in Clerk : call[c] = <<>> /\ reply[c] # "OK"
    BY NilAssumption DEF Init
  <2>. QED
    BY <2>1 DEF Init, CallsOwn, RepliesTrue, AnsweredTrue
<1>4. DOMAIN <<>> = {}
  BY EmptySeq
<1>5. DataCovered /\ EffectsOnce
  BY <1>4 DEF Init, DataCovered, EffectsOnce, covers, NewShard, IsInjective
<1>6. \E H, M : Histories(H, M) /\ Remembered(H, M)
  <2>1. PICK H, M : Histories(H, M)
    BY HistoryInit DEF HistoryInv
  <2>2. ASSUME NEW g \in Active, NEW k \in 0..M[g] PROVE remembers(H[g][k].operations)
    <3>1. PICK r \in Replica : group[r] = g /\ lastApplied[r] = M[g]
      BY <2>1 DEF Histories
    <3>2. k = lastApplied[r]
      <4>1. lastApplied[r] = 0
        BY DEF Init
      <4>. QED
        BY <3>1, <4>1
    <3>3. H[g][k].operations = lastOperations[r]
      <4>1. state(r) = H[g][k]
        BY <2>1, <3>1, <3>2, InHistory
      <4>. QED
        BY <4>1 DEF state
    <3>4. \A c \in Clerk : lastOperations[r][c] = -1 /\ commandId[c] = 0
      BY DEF Init
    <3>. QED
      BY <3>3, <3>4 DEF remembers
  <2>. QED
    BY <2>1, <2>2 DEF Remembered
<1>. QED
  BY <1>2, <1>3, <1>5, <1>6 DEF EffectInv

\* The commands of the logs and of the tasks.
LEMMA CommandsStay ==
  ASSUME Inv, TypeInv, CommandsTrue, goesOn,
         log' = log \/ \E g \in Group : \E cmd : start(g, cmd) /\ isTrue(cmd)',
         \A t \in tasks' : t \in tasks \/ (t.type = "Execute" => isTrue(t.command)')
  PROVE  CommandsTrue'
<1>1. \A g \in Group : \A k \in 1..Len(log[g]) : isTrue(log[g][k]) /\ isTyped(log[g][k])
  BY DEF CommandsTrue, TypeInv, LogTypes
<1>2. \A g \in Group : \A k \in 1..Len(log[g]) : \A x : x = log[g][k] => isTrue(x)'
  BY <1>1, TrueStays
<1>3. ASSUME NEW g \in Group, NEW k \in 1..Len(log'[g]) PROVE \E x : x = log'[g][k] /\ isTrue(x)'
  <2>1. CASE log' = log
    BY <1>2, <2>1
  <2>2. CASE \E f \in Group : \E cmd : start(f, cmd) /\ isTrue(cmd)'
    BY <1>2, <2>2, StartEntries
  <2>. QED
    BY <2>1, <2>2
<1>4. (\A g \in Group : \A k \in 1..Len(log[g]) : isTrue(log[g][k]))'
  BY <1>3 DEF isTrue, remembers
<1>5. \A t \in tasks' : t.type = "Execute" => isTrue(t.command)'
  BY TrueStays DEF CommandsTrue, TypeInv, TaskTypes
<1>. QED
  BY <1>4, <1>5 DEF CommandsTrue

\* What clerks wait for.
LEMMA WaitsStay ==
  ASSUME Inv, TypeInv, logGrows, goesOn, CallsOwn, NEW c \in Clerk, call[c] # <<>>,
         call'[c] = call[c], commandId'[c] = commandId[c]
  PROVE  (request[c] # Nil /\ isOwnEntry(c, call[c][1], call[c][2]))'
<1>. DEFINE g == call[c][1]
            k == call[c][2]
<1>1. request[c] # Nil /\ isOwnEntry(c, g, k) /\ isEntry(g, k)
  BY DEF CallsOwn, isOwnEntry
<1>2. PICK f, n : f = g /\ n = k
  OBVIOUS
<1>3. willBeEntry(f, n) /\ log'[f][n] = log[f][n]
  BY <1>1, <1>2, EntryStays DEF logGrows, isEntry
<1>4. commandId[c] \in Nat /\ request'[c] = request[c]
  BY <1>1 DEF TypeInv, ClerkTypes, goesOn
<1>. QED
  BY <1>1, <1>2, <1>3, <1>4 DEF isOwnEntry, isEntry, willBeEntry

LEMMA GrowsEffects ==
  ASSUME Inv, TypeInv, grows, goesOn, effects' = effects, EffectInv
  PROVE  /\ DataCovered' /\ EffectsOnce'
         /\ \E H, M : Histories(H, M)' /\ Remembered(H, M)'
<1>1. UNCHANGED <<stateMachines, lastOperations, lastApplied>>
  BY DEF grows, replicaVars
<1>2. DataCovered' /\ EffectsOnce'
  BY <1>1 DEF EffectInv, DataCovered, EffectsOnce, covers
<1>3. PICK H, M : Histories(H, M) /\ Remembered(H, M)
  BY DEF EffectInv
<1>4. Histories(H, M)'
  BY <1>3, GrowHistories
<1>5. Remembered(H, M)'
  BY <1>3, RemembersStays DEF Remembered
<1>. QED
  BY <1>2, <1>4, <1>5

\* A step of a monitor or a handler.
LEMMA GrowsEffectInv ==
  ASSUME Inv, TypeInv, grows, UNCHANGED <<clerkVars, effects, answered>>, EffectInv,
         log' = log \/ \E g \in Group : \E cmd : start(g, cmd) /\ isTrue(cmd)',
         \A t \in tasks' : t \in tasks \/ (t.type = "Execute" => isTrue(t.command)')
  PROVE  EffectInv'
<1>1. goesOn
  BY DEF goesOn, clerkVars, hasEffect
<1>2. CommandsTrue'
  BY <1>1, CommandsStay DEF EffectInv
<1>3. CallsOwn'
  BY <1>1, WaitsStay DEF EffectInv, CallsOwn, clerkVars, grows
<1>4. RepliesTrue' /\ AnsweredTrue'
  BY DEF EffectInv, RepliesTrue, AnsweredTrue, clerkVars, isDone, hasEffect
<1>. QED
  BY <1>1, <1>2, <1>3, <1>4, GrowsEffects DEF EffectInv

\* A table in which no operation is older than that of the clerk's own.
LEMMA KnownIsDone ==
  ASSUME TypeInv, NEW ops, remembers(ops), NEW c \in Clerk, commandId[c] <= ops[c]
  PROVE  isDone(c)
<1>1. ops[c] \in Int /\ ops[c] <= commandId[c] /\ commandId[c] \in Nat
  BY DEF remembers, TypeInv, ClerkTypes
<1>2. ops[c] = commandId[c]
  BY <1>1, SMT
<1>. QED
  BY <1>2 DEF remembers

LEMMA ReplicaRemembers ==
  ASSUME EffectInv, NEW r \in Replica PROVE remembers(lastOperations[r])
<1>1. PICK H, M : Histories(H, M) /\ Remembered(H, M)
  BY DEF EffectInv
<1>2. /\ group[r] \in Active /\ lastApplied[r] \in 0..M[group[r]]
      /\ H[group[r]][lastApplied[r]] = state(r)
  BY <1>1, InHistory
<1>3. state(r).operations = lastOperations[r]
  BY DEF state
<1>. QED
  BY <1>1, <1>2, <1>3 DEF Remembered

LEMMA ClerksGoOn ==
  ASSUME Inv, TypeInv, Clerks
  PROVE  goesOn /\ grows /\ tasks' = tasks /\ effects' = effects
<1>1. tasks' = tasks /\ effects' = effects
  BY DEF Clerks, Begin, AnswerDuplicate, Call, Return, WrongGroup, Timeout, Refresh, giveUp
<1>2. PICK c \in Clerk :
        \/ \E q \in Request : Begin(c, q)
        \/ \E r \in Replica : AnswerDuplicate(c, r) \/ Call(c, r)
        \/ Return(c) \/ WrongGroup(c) \/ Timeout(c) \/ Refresh(c)
  BY DEF Clerks
<1>3. /\ DOMAIN commandId = Clerk /\ DOMAIN request = Clerk
  BY DEF TypeInv, ClerkTypes
<1>4. ASSUME NEW d \in Clerk
      PROVE  \/ commandId'[d] = commandId[d] /\ (request[d] # Nil => request'[d] = request[d])
             \/ commandId'[d] = commandId[d] + 1
  <2>1. CASE \E q \in Request : Begin(c, q)
    BY <1>3, <2>1 DEF Begin
  <2>2. CASE finish(c)
    BY <1>3, <2>2 DEF finish
  <2>3. CASE UNCHANGED <<commandId, request>>
    BY <2>3
  <2>4. /\ (\E r \in Replica : AnswerDuplicate(c, r)) \/ Return(c) => finish(c)
        /\ (\E r \in Replica : Call(c, r)) \/ WrongGroup(c) \/ Timeout(c) \/ Refresh(c) =>
             UNCHANGED <<commandId, request>>
    BY DEF AnswerDuplicate, Return, Call, WrongGroup, Timeout, Refresh, giveUp
  <2>. QED
    BY <1>2, <2>1, <2>2, <2>3, <2>4
<1>. QED
  BY <1>1, <1>4, ClerksGrow DEF goesOn, hasEffect

\* The other clerks go on as they were.
LEMMA OthersStay ==
  ASSUME Inv, TypeInv, goesOn, logGrows, EffectInv, NEW c \in Clerk,
         DOMAIN call' = Clerk, DOMAIN reply' = Clerk,
         \A d \in Clerk : d # c => /\ call'[d] = call[d] /\ reply'[d] = reply[d]
                                   /\ commandId'[d] = commandId[d],
         call'[c] # <<>> => (request[c] # Nil /\ isOwnEntry(c, call[c][1], call[c][2]))',
         reply'[c] = "OK" => isDone(c)'
  PROVE  CallsOwn' /\ RepliesTrue'
<1>1. ASSUME NEW d \in Clerk, call'[d] # <<>>
      PROVE  (request[d] # Nil /\ isOwnEntry(d, call[d][1], call[d][2]))'
  <2>1. CASE d = c
    BY <1>1, <2>1
  <2>2. CASE d # c
    BY <1>1, <2>2, WaitsStay DEF EffectInv
  <2>. QED
    BY <2>1, <2>2
<1>2. ASSUME NEW d \in Clerk, reply'[d] = "OK" PROVE isDone(d)'
  <2>1. CASE d = c
    BY <1>2, <2>1
  <2>2. CASE d # c
    BY <1>2, <2>2, DoneStays DEF EffectInv, RepliesTrue
  <2>. QED
    BY <2>1, <2>2
<1>. QED
  BY <1>1, <1>2 DEF CallsOwn, RepliesTrue

LEMMA ClerksEffects ==
  ASSUME Inv, TypeInv, EffectInv, Clerks
  PROVE  EffectInv'
<1>1. goesOn /\ grows /\ logGrows /\ tasks' = tasks /\ effects' = effects
  BY ClerksGoOn DEF grows
<1>2. PICK c \in Clerk :
        \/ \E q \in Request : Begin(c, q)
        \/ \E r \in Replica : AnswerDuplicate(c, r) \/ Call(c, r)
        \/ Return(c) \/ WrongGroup(c) \/ Timeout(c) \/ Refresh(c)
  BY DEF Clerks
<1>3. /\ DOMAIN call = Clerk /\ DOMAIN reply = Clerk /\ DOMAIN request = Clerk
      /\ DOMAIN commandId = Clerk
  BY DEF TypeInv, ClerkTypes
<1>4. \A a \in answered : /\ a[3] \in Request
                          /\ a[3].op = "Append" => hasEffect(a[1], a[2], a[3].shard)'
  BY <1>1, RequestAssumption DEF EffectInv, AnsweredTrue, goesOn
<1>5. SUFFICES CommandsTrue' /\ CallsOwn' /\ RepliesTrue' /\ AnsweredTrue'
  BY <1>1, GrowsEffects DEF EffectInv
<1>6. CASE \E q \in Request : Begin(c, q)
  <2>1. PICK q \in Request : Begin(c, q)
    BY <1>6
  <2>2. request[c] = Nil /\ UNCHANGED <<log, call, reply, commandId, answered>>
    BY <2>1 DEF Begin
  <2>3. call[c] = <<>> /\ reply[c] # "OK"
    BY <2>2 DEF EffectInv, CallsOwn, RepliesTrue, isDone
  <2>4. CallsOwn' /\ RepliesTrue'
    BY <1>1, <1>3, <2>2, <2>3, OthersStay
  <2>. QED
    BY <1>1, <1>4, <2>2, <2>4, CommandsStay DEF EffectInv, AnsweredTrue
<1>7. ASSUME finish(c), isDone(c), log' = log
      PROVE  CommandsTrue' /\ CallsOwn' /\ RepliesTrue' /\ AnsweredTrue'
  <2>1. /\ answered' = answered \cup {<<c, commandId[c], request[c]>>}
        /\ call'[c] = <<>> /\ reply'[c] # "OK"
        /\ DOMAIN call' = Clerk /\ DOMAIN reply' = Clerk
        /\ \A d \in Clerk : d # c => /\ call'[d] = call[d] /\ reply'[d] = reply[d]
                                     /\ commandId'[d] = commandId[d]
    BY <1>3, <1>7, NilAssumption DEF finish
  <2>2. CallsOwn' /\ RepliesTrue'
    BY <1>1, <2>1, OthersStay
  <2>3. PICK a : a = <<c, commandId[c], request[c]>>
    OBVIOUS
  <2>4. /\ a[3] \in Request /\ a[3].shard \in Shard
        /\ a[3].op = "Append" => hasEffect(a[1], a[2], a[3].shard)
    <3>1. request[c] \in Request
      BY <1>7 DEF isDone, TypeInv, ClerkTypes
    <3>. QED
      BY <1>7, <2>3, <3>1, RequestAssumption DEF isDone
  <2>5. a[3].op = "Append" => hasEffect(a[1], a[2], a[3].shard)'
    BY <1>1, <2>4 DEF goesOn
  <2>6. AnsweredTrue'
    BY <1>4, <2>1, <2>3, <2>4, <2>5 DEF AnsweredTrue
  <2>. QED
    BY <1>1, <1>7, <2>2, <2>6, CommandsStay DEF EffectInv
<1>8. CASE \E r \in Replica : AnswerDuplicate(c, r)
  <2>1. PICK r \in Replica : AnswerDuplicate(c, r)
    BY <1>8
  <2>2. finish(c) /\ log' = log /\ commandId[c] <= lastOperations[r][c]
    BY <2>1 DEF AnswerDuplicate, isDuplicateRequest
  <2>3. isDone(c)
    BY <2>2, ReplicaRemembers, KnownIsDone
  <2>. QED
    BY <1>7, <2>2, <2>3
<1>9. CASE Return(c)
  BY <1>7, <1>9 DEF Return, EffectInv, RepliesTrue
<1>10. CASE \E r \in Replica : Call(c, r)
  <2>1. PICK r \in Replica : Call(c, r)
    BY <1>10
  <2>. DEFINE g == group[r]
  <2>0. PICK cmd : cmd = [op |-> "Operation", clerk |-> c, id |-> commandId[c],
                          request |-> request[c]]
    OBVIOUS
  <2>2. /\ start(g, cmd) /\ g \in Group /\ call' = [call EXCEPT ![c] = <<g, Len(log'[g])>>]
        /\ request[c] # Nil /\ UNCHANGED <<commandId, request, reply, answered>>
    BY <2>0, <2>1, GroupFacts DEF Call, isCalling, lastEntry
  <2>3. isTrue(cmd)'
    BY <2>0, <2>2 DEF isTrue, TypeInv, ClerkTypes
  <2>4. cmd.op = "Operation" /\ cmd.clerk = c /\ cmd.id = commandId[c]
    BY <2>0
  <2>5. CommandsTrue'
    BY <1>1, <2>2, <2>3, CommandsStay DEF EffectInv
  <2>6. (request[c] # Nil /\ isOwnEntry(c, call[c][1], call[c][2]))'
    <3>1. call'[c][1] = g /\ call'[c][2] = Len(log'[g])
      BY <1>3, <2>2
    <3>2. willBeEntry(g, Len(log'[g])) /\ log'[g][Len(log'[g])] = cmd
      BY <2>2, StartEntry
    <3>. QED
      BY <2>2, <2>4, <3>1, <3>2 DEF isOwnEntry, isEntry, willBeEntry
  <2>7. reply'[c] = "OK" => isDone(c)'
    BY <1>1, <2>2, DoneStays DEF EffectInv, RepliesTrue
  <2>8. CallsOwn' /\ RepliesTrue'
    BY <1>1, <1>3, <2>2, <2>6, <2>7, OthersStay
  <2>. QED
    BY <1>4, <2>2, <2>5, <2>8 DEF AnsweredTrue
<1>11. CASE WrongGroup(c) \/ Timeout(c) \/ Refresh(c)
  <2>1. /\ call' = [call EXCEPT ![c] = <<>>] /\ reply' = [reply EXCEPT ![c] = Nil]
        /\ UNCHANGED <<log, commandId, answered>>
    BY <1>11 DEF WrongGroup, Timeout, Refresh, giveUp
  <2>2. call'[c] = <<>> /\ reply'[c] # "OK"
    BY <1>3, <2>1, NilAssumption
  <2>3. CallsOwn' /\ RepliesTrue'
    BY <1>1, <1>3, <2>1, <2>2, OthersStay
  <2>. QED
    BY <1>1, <1>4, <2>1, <2>3, CommandsStay DEF EffectInv, AnsweredTrue
<1>. QED
  BY <1>2, <1>6, <1>8, <1>9, <1>10, <1>11

LEMMA ExecuteEffects ==
  ASSUME Inv, TypeInv, EffectInv, NEW t \in tasks, Execute(t) PROVE EffectInv'
<1>1. /\ t.type = "Execute" /\ start(t.group, t.command) /\ tasks' = tasks \ {t}
      /\ UNCHANGED <<clerkVars, effects, answered>>
  BY DEF Execute
<1>2. t.group \in Group /\ isTrue(t.command)
  BY <1>1 DEF Inv, Commands, isTask, EffectInv, CommandsTrue
<1>3. isTrue(t.command)'
  BY <1>1, <1>2 DEF isTrue, remembers, isDone, hasEffect, clerkVars
<1>. QED
  BY <1>1, <1>2, <1>3, ExecuteGrows, GrowsEffectInv

LEMMA MonitorEffects ==
  ASSUME Inv, TypeInv, EffectInv, NEW r \in Replica,
         ConfigureAction(r) \/ \E g \in Group : MigrationAction(r, g) \/ GcAction(r, g)
  PROVE  EffectInv'
<1>1. UNCHANGED <<log, clerkVars, effects, answered>>
  BY DEF ConfigureAction, MigrationAction, GcAction, shardOperation, addTask
<1>2. PICK x : /\ tasks' = tasks \cup {x}
               /\ x.type = "Execute" => isTrue(x.command)'
  <2>1. CASE ConfigureAction(r)
    <3>1. PICK x : x = execution(group[r], [op |-> "Configuration", num |-> currentConfig[r] + 1])
      OBVIOUS
    <3>2. tasks' = tasks \cup {x}
      BY <2>1, <3>1 DEF ConfigureAction, addTask
    <3>3. x.command.op = "Configuration"
      BY <3>1 DEF execution
    <3>4. isTrue(x.command)'
      BY <3>3 DEF isTrue
    <3>. QED
      BY <3>2, <3>4
  <2>2. CASE \E g \in Group : MigrationAction(r, g) \/ GcAction(r, g)
    <3>1. PICK g \in Group : MigrationAction(r, g) \/ GcAction(r, g)
      BY <2>2
    <3>2. PICK type, status : /\ shardOperation(r, type, status, g)
                              /\ type \in {"GetShardsData", "DeleteShardsData"}
      BY <3>1 DEF MigrationAction, GcAction
    <3>3. PICK x : x = [type |-> type, group |-> group[r], to |-> g,
                        configNum |-> currentConfig[r],
                        shardIds |-> shardIdsByStatus(r, status, g)]
      OBVIOUS
    <3>4. tasks' = tasks \cup {x}
      BY <3>2, <3>3 DEF shardOperation, addTask
    <3>5. x.type # "Execute"
      BY <3>2, <3>3
    <3>. QED
      BY <3>4, <3>5
  <2>. QED
    BY <2>1, <2>2
<1>. QED
  BY <1>1, <1>2, MonitorGrows, GrowsEffectInv

LEMMA ServeEffects ==
  ASSUME Inv, TypeInv, EffectInv, NEW t \in tasks, NEW r \in Replica,
         GetShardsData(r, t) \/ ConfirmDeletion(r, t) \/ StartDeletion(r, t)
           \/ FinishDeletion(r, t)
  PROVE  EffectInv'
<1>1. UNCHANGED <<clerkVars, effects, answered>>
  BY DEF GetShardsData, ConfirmDeletion, StartDeletion, FinishDeletion
<1>2. grows
  BY ServeGrows
<1>3. PICK d : d = deletion(t)
  OBVIOUS
<1>4. isTrue(d)'
  BY <1>3 DEF isTrue, deletion
<1>5. CASE GetShardsData(r, t)
  <2>1. PICK cmd : cmd = [op |-> "InsertShards", configNum |-> t.configNum,
                          shardIds |-> t.shardIds,
                          shards |-> [s \in t.shardIds |-> stateMachines[r][s].kv],
                          lastOperations |-> lastOperations[r]]
    OBVIOUS
  <2>2. PICK x : x = execution(t.group, cmd)
    OBVIOUS
  <2>3. log' = log /\ tasks' = (tasks \ {t}) \cup {x}
    BY <1>5, <2>1, <2>2 DEF GetShardsData
  <2>4. t.shardIds \subseteq Shard
    BY <1>5 DEF GetShardsData, Inv, Commands, isTask, isMove, moving
  <2>5. /\ cmd.op = "InsertShards" /\ cmd.shardIds = t.shardIds
        /\ cmd.lastOperations = lastOperations[r]
        /\ \A s \in t.shardIds : cmd.shards[s] = stateMachines[r][s].kv
    BY <2>1
  <2>6. \A s \in cmd.shardIds : covers(cmd.lastOperations, cmd.shards[s])
    BY <2>4, <2>5 DEF EffectInv, DataCovered
  <2>7. remembers(cmd.lastOperations)
    BY <2>5, ReplicaRemembers
  <2>8. isTrue(cmd)'
    BY <1>1, <2>5, <2>6, <2>7 DEF isTrue, remembers, isDone, hasEffect, clerkVars, covers
  <2>9. x.command = cmd
    BY <2>2 DEF execution
  <2>. QED
    BY <1>1, <1>2, <2>3, <2>8, <2>9, GrowsEffectInv
<1>6. CASE ConfirmDeletion(r, t) \/ FinishDeletion(r, t)
  <2>1. PICK x : x = execution(t.group, deletion(t))
    OBVIOUS
  <2>2. log' = log /\ tasks' = (tasks \ {t}) \cup {x}
    BY <1>6, <2>1 DEF ConfirmDeletion, FinishDeletion, deleteLocally
  <2>3. x.command = d
    BY <1>3, <2>1 DEF execution
  <2>. QED
    BY <1>1, <1>2, <1>4, <2>2, <2>3, GrowsEffectInv
<1>7. CASE StartDeletion(r, t)
  <2>1. PICK x : x = [type |-> "AwaitDeletion", group |-> t.group, to |-> t.to,
                      configNum |-> t.configNum, shardIds |-> t.shardIds,
                      entry |-> <<t.to, Len(log'[t.to])>>]
    OBVIOUS
  <2>2. t.to \in Group /\ start(t.to, d) /\ tasks' = (tasks \ {t}) \cup {x}
    BY <1>3, <1>7, <2>1, GroupFacts DEF StartDeletion, lastEntry
  <2>3. x.type # "Execute"
    BY <2>1
  <2>. QED
    BY <1>1, <1>2, <1>4, <2>2, <2>3, GrowsEffectInv
<1>. QED
  BY <1>5, <1>6, <1>7

-----------------------------------------------------------------------------
(* The steps of the applier *)

LEMMA WrittenIs ==
  ASSUME NEW cmd, cmd.op = "Operation", isTyped(cmd)
  PROVE  /\ cmd.clerk \in Clerk /\ cmd.id \in Nat /\ cmd.request.shard \in Shard
         /\ \/ cmd.request.op = "Get" /\ \A kv : written(cmd, kv) = kv
            \/ /\ cmd.request.op = "Append"
               /\ \A kv : written(cmd, kv) = Append(kv, <<cmd.clerk, cmd.id>>)
            \/ /\ cmd.request.op = "Put" /\ ~keepsAll(cmd.request.shard)
               /\ \A kv : written(cmd, kv) = <<<<cmd.clerk, cmd.id>>>>
<1>1. /\ cmd.clerk \in Clerk /\ cmd.id \in Nat /\ cmd.request \in Request
      /\ cmd.request.op \in {"Get", "Put", "Append"} /\ cmd.request.shard \in Shard
  BY RequestAssumption DEF isTyped
<1>. QED
  BY <1>1 DEF written, keepsAll

LEMMA ApplyOperationIs ==
  ASSUME Inv, TypeInv, NEW r \in Replica, ApplyOperation(r)
  PROVE  LET cmd == next(r)
             x == cmd.request.shard
         IN
         /\ cmd.op = "Operation" /\ isTyped(cmd) /\ x \in Shard /\ canServe(r, x)
         /\ cmd.request.op # "Get" => lastOperations[r][cmd.clerk] < cmd.id
         /\ lastOperations' = IF cmd.request.op = "Get" THEN lastOperations
                              ELSE [lastOperations EXCEPT ![r][cmd.clerk] = cmd.id]
         /\ effects' = IF isFirst(r) THEN [effects EXCEPT ![x] = written(cmd, @)] ELSE effects
<1>. DEFINE cmd == next(r)
<1>1. /\ cmd.op = "Operation" /\ canServe(r, cmd.request.shard)
      /\ cmd.request.op # "Get" => ~(cmd.id <= lastOperations[r][cmd.clerk])
      /\ lastOperations' = IF cmd.request.op = "Get" THEN lastOperations
                           ELSE [lastOperations EXCEPT ![r][cmd.clerk] = cmd.id]
      /\ effects' = IF isFirst(r) THEN [effects EXCEPT ![cmd.request.shard] = written(cmd, @)]
                    ELSE effects
  BY DEF ApplyOperation, applies, isDuplicateRequest
<1>2. isTyped(cmd)
  BY NextTyped DEF Apply
<1>3. cmd.clerk \in Clerk /\ cmd.id \in Nat /\ cmd.request.shard \in Shard
  BY <1>1, <1>2, WrittenIs
<1>4. lastOperations[r][cmd.clerk] \in Int
  BY <1>3 DEF TypeInv, ReplicaTypes
<1>. HIDE DEF cmd
<1>5. cmd.request.op # "Get" => lastOperations[r][cmd.clerk] < cmd.id
  BY <1>1, <1>3, <1>4, SMT
<1>. QED
  BY <1>1, <1>2, <1>3, <1>5 DEF cmd

LEMMA ApplyGoesOn ==
  ASSUME Inv, TypeInv, NEW r \in Replica, Apply(r)
  PROVE  goesOn /\ UNCHANGED <<log, tasks, commandId, request, call, answered>>
<1>1. UNCHANGED <<log, tasks, commandId, request, call, answered>>
  BY DEF Apply, RefuseOperation, SkipDuplicate, ApplyOperation, ApplyConfiguration,
     ApplyInsertShards, ApplyDeleteShards, applies
<1>2. CASE effects' = effects
  BY <1>1, <1>2 DEF goesOn, hasEffect
<1>3. CASE effects' # effects
  <2>1. ApplyOperation(r)
    BY <1>3 DEF Apply, RefuseOperation, SkipDuplicate, ApplyConfiguration,
       ApplyInsertShards, ApplyDeleteShards
  <2>2. PICK cmd : cmd = next(r)
    OBVIOUS
  <2>. DEFINE x == cmd.request.shard
              v == <<cmd.clerk, cmd.id>>
  <2>3. /\ cmd.op = "Operation" /\ isTyped(cmd) /\ x \in Shard
        /\ effects' = [effects EXCEPT ![x] = written(cmd, @)]
    BY <1>3, <2>1, <2>2, ApplyOperationIs
  <2>4. effects \in [Shard -> KV]
    BY DEF TypeInv
  <2>5. \/ ~keepsAll(x)
        \/ written(cmd, effects[x]) = effects[x]
        \/ written(cmd, effects[x]) = Append(effects[x], v)
    BY <2>3, WrittenIs
  <2>6. keepsAll(x) =>
          \A k \in DOMAIN effects[x] : /\ k \in DOMAIN written(cmd, effects[x])
                                       /\ written(cmd, effects[x])[k] = effects[x][k]
    <3>1. effects[x] \in KV
      BY <2>3, <2>4
    <3>. HIDE DEF x, v
    <3>. QED
      BY <2>5, <3>1, Appended
  <2>. HIDE DEF v, x
  <2>7. ASSUME NEW s \in Shard, NEW c, NEW id, hasEffect(c, id, s), keepsAll(s)
        PROVE  hasEffect(c, id, s)'
    <3>1. PICK k \in DOMAIN effects[s] : effects[s][k] = <<c, id>>
      BY <2>7 DEF hasEffect
    <3>2. k \in DOMAIN effects'[s] /\ effects'[s][k] = effects[s][k]
      BY <2>3, <2>4, <2>6, <2>7
    <3>. QED
      BY <3>1, <3>2 DEF hasEffect
  <2>8. ASSUME NEW s \in Shard, NEW c, NEW id, ~keepsAll(s) PROVE hasEffect(c, id, s)'
    BY <2>8 DEF hasEffect, keepsAll
  <2>. QED
    BY <1>1, <2>7, <2>8 DEF goesOn
<1>. QED
  BY <1>1, <1>2, <1>3

\* What an operation does to the shard's value when the first replica applies it.
LEMMA TakesEffect ==
  ASSUME Inv, TypeInv, NEW r \in Replica, ApplyOperation(r), isFirst(r),
         NEW cmd, cmd = next(r), cmd.request.op # "Get"
  PROVE  hasEffect(cmd.clerk, cmd.id, cmd.request.shard)'
<1>. DEFINE x == cmd.request.shard
            v == <<cmd.clerk, cmd.id>>
<1>1. /\ cmd.op = "Operation" /\ isTyped(cmd) /\ x \in Shard
      /\ effects' = [effects EXCEPT ![x] = written(cmd, @)]
  BY ApplyOperationIs
<1>. SUFFICES ASSUME keepsAll(x) PROVE hasEffect(cmd.clerk, cmd.id, x)'
  BY DEF hasEffect, keepsAll
<1>2. effects[x] \in KV /\ effects'[x] = Append(effects[x], v)
  <2>1. written(cmd, effects[x]) = Append(effects[x], v)
    BY <1>1, WrittenIs
  <2>. QED
    BY <1>1, <2>1 DEF TypeInv
<1>. HIDE DEF x, v
<1>3. /\ Len(effects[x]) + 1 \in DOMAIN effects'[x]
      /\ effects'[x][Len(effects[x]) + 1] = v
  BY <1>2, Appended
<1>. QED
  BY <1>3 DEF hasEffect, x, v

\* What the first replica to apply an entry remembers.
LEMMA FirstRemembers ==
  ASSUME Inv, TypeInv, EffectInv, NEW r \in Replica, Apply(r), isFirst(r)
  PROVE  remembers(lastOperations[r])'
<1>1. goesOn /\ UNCHANGED <<commandId, request>>
  BY ApplyGoesOn
<1>2. PICK old, new, cmd : old = lastOperations[r] /\ new = lastOperations'[r] /\ cmd = next(r)
  OBVIOUS
<1>3. remembers(old)'
  BY <1>1, <1>2, ReplicaRemembers, RemembersStays
<1>4. isTyped(cmd) /\ isTrue(cmd)
  BY <1>2, NextTyped DEF EffectInv, CommandsTrue, isEntry, next
<1>5. old \in [Clerk -> Int] /\ DOMAIN lastOperations = Replica
  BY <1>2 DEF TypeInv, ReplicaTypes
<1>6. remembers(new)'
  <2>1. CASE new = old
    BY <1>3, <2>1
  <2>2. CASE ApplyOperation(r) /\ new # old
    <3>. DEFINE c == cmd.clerk
    <3>1. /\ cmd.op = "Operation" /\ cmd.request.op # "Get"
          /\ new = [old EXCEPT ![c] = cmd.id]
      BY <1>2, <1>5, <2>2, ApplyOperationIs
    <3>2. c \in Clerk /\ cmd.id \in Nat
      BY <1>4, <3>1, WrittenIs
    <3>3. hasEffect(c, cmd.id, cmd.request.shard)'
      BY <1>2, <2>2, <3>1, TakesEffect
    <3>4. /\ cmd.id <= commandId[c]
          /\ cmd.id = commandId[c] => request[c] # Nil /\ cmd.request = request[c]
      BY <1>4, <3>1 DEF isTrue
    <3>. HIDE DEF c
    <3>5. cmd.id = commandId'[c] => isDone(c)'
      BY <1>1, <3>3, <3>4 DEF isDone
    <3>6. ASSUME NEW d \in Clerk
          PROVE  new[d] \in Int /\ new[d] <= commandId'[d] /\ (new[d] = commandId'[d] => isDone(d)')
      <4>1. CASE d = c
        BY <1>1, <1>5, <3>1, <3>2, <3>4, <3>5, <4>1
      <4>2. CASE d # c
        BY <1>3, <1>5, <3>1, <4>2 DEF remembers
      <4>. QED
        BY <4>1, <4>2
    <3>. QED
      BY <3>6 DEF remembers
  <2>3. CASE ApplyInsertShards(r) /\ new # old
    <3>1. cmd.op = "InsertShards" /\ new = mergedOperations(old, cmd.lastOperations)
      BY <1>2, <1>5, <2>3 DEF ApplyInsertShards, applies
    <3>2. PICK more : more = cmd.lastOperations
      OBVIOUS
    <3>3. remembers(more)'
      BY <1>1, <1>4, <3>1, <3>2, RemembersStays DEF isTrue
    <3>4. \A d \in Clerk : new[d] = old[d] \/ new[d] = more[d]
      BY <3>1, <3>2 DEF mergedOperations
    <3>. QED
      BY <1>3, <3>3, <3>4 DEF remembers
  <2>4. ApplyOperation(r) \/ ApplyInsertShards(r) \/ lastOperations' = lastOperations
    BY DEF Apply, RefuseOperation, SkipDuplicate, ApplyConfiguration, ApplyDeleteShards
  <2>. QED
    BY <1>2, <2>1, <2>2, <2>3, <2>4
<1>. QED
  BY <1>2, <1>6 DEF remembers

LEMMA ApplyRemembers ==
  ASSUME Inv, TypeInv, EffectInv, NEW r \in Replica, Apply(r)
  PROVE  /\ remembers(lastOperations[r])'
         /\ \E H, M : Histories(H, M)' /\ Remembered(H, M)'
<1>1. goesOn /\ group[r] \in Active
  BY ApplyGoesOn, ActiveGroups
<1>2. PICK H, M : Histories(H, M) /\ Remembered(H, M)
  BY DEF EffectInv
<1>3. M[group[r]] \in Nat /\ lastApplied[r] \in 0..M[group[r]]
  BY <1>2, InHistory
<1>4. ASSUME NEW J, NEW N, Histories(J, N)', Remembered(J, N)'
      PROVE  remembers(lastOperations[r])'
  <2>1. lastApplied'[r] \in 0..N[group[r]] /\ state(r)' = J[group[r]][lastApplied'[r]]
    BY <1>1, <1>4 DEF Histories, History
  <2>2. PICK k \in 0..N[group[r]] : state(r)' = J[group[r]][k]
    BY <2>1
  <2>3. lastOperations'[r] = J[group[r]][k].operations
    <3>1. state(r)'.operations = lastOperations'[r]
      BY DEF state
    <3>. QED
      BY <2>2, <3>1
  <2>4. remembers(J[group[r]][k].operations)'
    BY <1>1, <1>4, <2>2 DEF Remembered
  <2>. QED
    BY <2>3, <2>4 DEF remembers
<1>5. CASE lastApplied[r] < M[group[r]]
  <2>1. Histories(H, M)'
    BY <1>2, <1>5, FollowHistories
  <2>2. Remembered(H, M)'
    BY <1>1, <1>2, RemembersStays DEF Remembered
  <2>. QED
    BY <1>4, <2>1, <2>2
<1>6. CASE lastApplied[r] = M[group[r]]
  <2>1. isFirst(r)
    <3>1. ASSUME NEW t \in Replica, group[t] = group[r] PROVE lastApplied[t] <= lastApplied[r]
      BY <1>2, <1>3, <1>6, <3>1, InHistory
    <3>. QED
      BY <3>1 DEF isFirst
  <2>2. remembers(lastOperations[r])'
    BY <2>1, FirstRemembers
  <2>3. PICK J, N : /\ extends(H, M, J, N, group[r]) /\ Histories(J, N)'
                    /\ now(J, N, group[r]) = state(r)'
    BY <1>2, <1>6, ExtendHistories
  <2>4. ASSUME NEW g \in Active, NEW k \in 0..N[g] PROVE remembers(J[g][k].operations)'
    <3>1. M[g] \in Nat
      BY <1>2 DEF Histories
    <3>2. CASE k \in 0..M[g]
      <4>1. J[g][k] = H[g][k]
        BY <2>3, <3>2 DEF extends
      <4>2. remembers(H[g][k].operations)'
        BY <1>1, <1>2, <3>2, RemembersStays DEF Remembered
      <4>. QED
        BY <4>1, <4>2
    <3>3. CASE k \notin 0..M[g]
      <4>1. g = group[r] /\ N[g] = M[g] + 1
        BY <2>3, <3>3 DEF extends
      <4>2. k = N[g]
        BY <3>1, <3>3, <4>1, SMT
      <4>3. J[g][k].operations = lastOperations'[r]
        BY <2>3, <4>1, <4>2 DEF now, state
      <4>. QED
        BY <2>2, <4>3 DEF remembers
    <3>. QED
      BY <3>2, <3>3
  <2>5. Remembered(J, N)'
    BY <2>4 DEF Remembered
  <2>. QED
    BY <2>2, <2>3, <2>5
<1>. QED
  BY <1>3, <1>5, <1>6, SMT

\* Who is told OK was told the truth.
LEMMA ApplyReplies ==
  ASSUME Inv, TypeInv, EffectInv, NEW r \in Replica, Apply(r)
  PROVE  RepliesTrue'
<1>1. goesOn /\ UNCHANGED <<commandId, request, call>>
  BY ApplyGoesOn
<1>. SUFFICES ASSUME NEW c \in Clerk, reply'[c] = "OK" PROVE isDone(c)'
  BY DEF RepliesTrue
<1>2. CASE reply[c] = "OK"
  BY <1>1, <1>2, DoneStays DEF EffectInv, RepliesTrue
<1>3. CASE reply[c] # "OK"
  <2>1. /\ call[c] = <<group[r], lastApplied[r] + 1>>
        /\ SkipDuplicate(r) \/ ApplyOperation(r)
    BY <1>3 DEF Apply, RefuseOperation, SkipDuplicate, ApplyOperation, ApplyConfiguration,
       ApplyInsertShards, ApplyDeleteShards, notify
  <2>2. PICK cmd : cmd = next(r)
    OBVIOUS
  <2>3. /\ request[c] # Nil
        /\ cmd.op = "Operation" /\ cmd.clerk = c /\ cmd.id = commandId[c]
    <3>1. call[c] # <<>> /\ call[c][1] = group[r] /\ call[c][2] = lastApplied[r] + 1
      BY <2>1
    <3>. QED
      BY <2>2, <3>1 DEF EffectInv, CallsOwn, isOwnEntry, next
  <2>4. cmd.request = request[c]
    BY <2>2, <2>3, NextTyped DEF EffectInv, CommandsTrue, isEntry, next, isTrue
  <2>5. PICK ops : ops = lastOperations'[r]
    OBVIOUS
  <2>6. remembers(ops)'
    BY <2>5, ApplyRemembers DEF remembers
  <2>7. CASE cmd.request.op = "Get"
    BY <1>1, <2>3, <2>4, <2>7 DEF isDone
  <2>8. CASE cmd.request.op # "Get"
    <3>1. cmd.id <= ops[c]
      <4>1. CASE SkipDuplicate(r)
        BY <2>2, <2>3, <2>5, <2>8, <4>1 DEF SkipDuplicate, isDuplicateRequest
      <4>2. CASE ApplyOperation(r)
        <5>1. lastOperations' = [lastOperations EXCEPT ![r][c] = cmd.id]
          BY <2>2, <2>3, <2>8, <4>2, ApplyOperationIs
        <5>2. ops[c] = cmd.id /\ commandId[c] \in Nat
          BY <2>5, <5>1 DEF TypeInv, ReplicaTypes, ClerkTypes
        <5>. QED
          BY <2>3, <5>2
      <4>. QED
        BY <2>1, <4>1, <4>2
    <3>2. commandId[c] \in Nat /\ ops[c] \in Int /\ ops[c] <= commandId[c]
      BY <1>1, <2>6 DEF remembers, TypeInv, ClerkTypes
    <3>3. ops[c] = commandId'[c]
      BY <1>1, <2>3, <3>1, <3>2, SMT
    <3>. QED
      BY <2>6, <3>3 DEF remembers
  <2>. QED
    BY <2>7, <2>8
<1>. QED
  BY <1>2, <1>3

LEMMA ApplyCovers ==
  ASSUME Inv, TypeInv, TypeInv', EffectInv, NEW r \in Replica, Apply(r)
  PROVE  DataCovered'
<1>. DEFINE old == lastOperations[r]
            new == lastOperations'[r]
<1>1. old \in [Clerk -> Int] /\ new \in [Clerk -> Int] /\ DOMAIN lastOperations = Replica
  BY DEF TypeInv, ReplicaTypes
<1>2. /\ \A t \in Replica, s \in Shard : stateMachines[t][s].kv \in KV
      /\ \A t \in Replica, s \in Shard : stateMachines'[t][s].kv \in KV
  BY DEF TypeInv, ReplicaTypes
<1>3. isTyped(next(r)) /\ isTrue(next(r))
  BY NextTyped DEF EffectInv, CommandsTrue, isEntry, next
<1>4. \A c \in Clerk : old[c] <= old[c]
  BY <1>1
<1>5. ASSUME NEW c \in Clerk PROVE old[c] <= new[c]
  <2>1. CASE lastOperations' = lastOperations
    BY <1>4, <2>1
  <2>2. CASE ApplyOperation(r) /\ next(r).request.op # "Get"
    <3>1. /\ lastOperations' = [lastOperations EXCEPT ![r][next(r).clerk] = next(r).id]
          /\ lastOperations[r][next(r).clerk] < next(r).id
          /\ next(r).op = "Operation"
      BY <2>2, ApplyOperationIs
    <3>2. next(r).clerk \in Clerk /\ next(r).id \in Nat
      BY <1>3, <3>1, WrittenIs
    <3>. QED
      BY <1>1, <1>4, <3>1, <3>2
  <2>3. CASE ApplyInsertShards(r) /\ isCurrent(r, next(r).configNum)
    <3>1. /\ next(r).op = "InsertShards"
          /\ lastOperations' = [lastOperations EXCEPT ![r] =
                                  mergedOperations(@, next(r).lastOperations)]
      BY <2>3 DEF ApplyInsertShards, applies
    <3>2. next(r).lastOperations \in [Clerk -> Int]
      BY <1>3, <3>1 DEF isTyped
    <3>. QED
      BY <1>1, <1>4, <3>1, <3>2 DEF mergedOperations
  <2>. QED
    BY <2>1, <2>2, <2>3, ApplyOperationIs
    DEF Apply, RefuseOperation, SkipDuplicate, ApplyConfiguration, ApplyInsertShards,
        ApplyDeleteShards
<1>. HIDE DEF old, new
<1>6. ASSUME NEW s \in Shard PROVE covers(old, stateMachines[r][s].kv)
  BY DEF EffectInv, DataCovered, old
<1>7. ASSUME NEW s \in Shard, stateMachines'[r][s].kv = stateMachines[r][s].kv
      PROVE  covers(new, stateMachines'[r][s].kv)
  BY <1>1, <1>2, <1>5, <1>6, <1>7, CoversMore
<1>8. ASSUME NEW s \in Shard PROVE covers(new, stateMachines'[r][s].kv)
  <2>1. CASE ApplyOperation(r)
    <3>. DEFINE cmd == next(r)
                kv == stateMachines[r][s].kv
    <3>1. CASE stateMachines'[r][s].kv = kv
      BY <1>7, <3>1
    <3>2. CASE stateMachines'[r][s].kv # kv
      <4>1. /\ stateMachines'[r][s].kv = written(cmd, kv)
            /\ cmd.op = "Operation"
        BY <2>1, <3>2, OperationShards, ApplyOperationIs
      <4>2. /\ cmd.request.op # "Get" /\ cmd.clerk \in Clerk /\ cmd.id \in Nat
            /\ stateMachines'[r][s].kv \in
                 {Append(kv, <<cmd.clerk, cmd.id>>), <<<<cmd.clerk, cmd.id>>>>}
        BY <1>3, <3>2, <4>1, WrittenIs
      <4>3. new[cmd.clerk] = cmd.id
        BY <1>1, <2>1, <4>2, ApplyOperationIs DEF new, old
      <4>4. covers(new, kv) /\ kv \in KV
        BY <1>1, <1>2, <1>5, <1>6, CoversMore
      <4>. HIDE DEF cmd, kv
      <4>5. PICK v : v = <<cmd.clerk, cmd.id>>
        OBVIOUS
      <4>6. v[2] <= new[v[1]]
        BY <4>2, <4>3, <4>5
      <4>7. ASSUME NEW k \in DOMAIN Append(kv, v)
            PROVE  Append(kv, v)[k] = v \/ (k \in DOMAIN kv /\ Append(kv, v)[k] = kv[k])
        BY <4>4, Appended
      <4>8. covers(new, Append(kv, v))
        BY <4>4, <4>6, <4>7 DEF covers
      <4>9. covers(new, <<v>>)
        BY <4>6 DEF covers
      <4>. QED
        BY <4>2, <4>5, <4>8, <4>9
    <3>. QED
      BY <3>1, <3>2
  <2>2. CASE ApplyConfiguration(r)
    BY <1>7, <2>2, ConfigurationShards
  <2>3. CASE ApplyInsertShards(r)
    <3>1. CASE stateMachines'[r][s] = stateMachines[r][s]
      BY <1>7, <3>1
    <3>2. CASE insertsShard(r, s)
      <4>. DEFINE cmd == next(r)
      <4>1. /\ cmd.op = "InsertShards" /\ s \in cmd.shardIds /\ isCurrent(r, cmd.configNum)
            /\ stateMachines'[r][s] = inserted(stateMachines[r][s], cmd.shards[s])
        BY <3>2 DEF insertsShard, isCurrent
      <4>2. /\ cmd.lastOperations \in [Clerk -> Int] /\ cmd.shards[s] \in KV
            /\ covers(cmd.lastOperations, cmd.shards[s])
        BY <1>3, <4>1 DEF isTyped, isTrue
      <4>3. new = mergedOperations(old, cmd.lastOperations)
        BY <1>1, <2>3, <4>1 DEF ApplyInsertShards, new, old
      <4>. HIDE DEF cmd
      <4>4. \A c \in Clerk : cmd.lastOperations[c] <= new[c]
        BY <1>1, <4>2, <4>3 DEF mergedOperations
      <4>5. covers(new, cmd.shards[s])
        BY <1>1, <4>2, <4>4, CoversMore
      <4>6. stateMachines'[r][s].kv \in {stateMachines[r][s].kv, cmd.shards[s]}
        BY <4>1 DEF inserted
      <4>. QED
        BY <1>7, <4>5, <4>6
    <3>. QED
      BY <2>3, <3>1, <3>2, InsertionShards
  <2>4. CASE ApplyDeleteShards(r)
    <3>1. CASE stateMachines'[r][s] = stateMachines[r][s]
      BY <1>7, <3>1
    <3>2. CASE deletesShard(r, s)
      <4>1. \/ stateMachines'[r][s].kv = stateMachines[r][s].kv
            \/ stateMachines'[r][s].kv = <<>>
        <5>1. DOMAIN stateMachines[r][s] = {"kv", "status"}
          BY ReplicaShards
        <5>. QED
          BY <3>2, <5>1 DEF deletesShard, deleted, NewShard
      <4>2. covers(new, <<>>)
        BY EmptySeq DEF covers
      <4>. QED
        BY <1>7, <4>1, <4>2
    <3>. QED
      BY <2>4, <3>1, <3>2, DeletionShards
  <2>5. CASE RefuseOperation(r) \/ SkipDuplicate(r)
    BY <1>7, <2>5 DEF RefuseOperation, SkipDuplicate
  <2>. QED
    BY <2>1, <2>2, <2>3, <2>4, <2>5 DEF Apply
<1>9. \A t \in Replica : t # r => /\ stateMachines'[t] = stateMachines[t]
                                  /\ lastOperations'[t] = lastOperations[t]
  BY ApplyIsApplied DEF applied, state
<1>. QED
  BY <1>8, <1>9 DEF EffectInv, DataCovered, new

\* A replica that is the first and serves a shard has its value.
LEMMA FirstServes ==
  ASSUME Inv, HistoryInv, NEW r \in Replica, isFirst(r), NEW s \in Shard, canServe(r, s)
  PROVE  stateMachines[r][s].kv = effects[s]
<1>1. PICK H, M : Histories(H, M) /\ Data(H, M)
  BY DEF HistoryInv
<1>2. /\ group[r] \in Active /\ M[group[r]] \in Nat /\ lastApplied[r] \in 0..M[group[r]]
      /\ H[group[r]][lastApplied[r]].shards = stateMachines[r]
      /\ H[group[r]][lastApplied[r]].current = currentConfig[r]
  BY <1>1, InHistory
<1>3. PICK t \in Replica : group[t] = group[r] /\ lastApplied[t] = M[group[r]]
  BY <1>1, <1>2 DEF Histories
<1>4. lastApplied[r] = M[group[r]]
  <2>1. M[group[r]] <= lastApplied[r]
    BY <1>3 DEF isFirst
  <2>. QED
    BY <1>2, <2>1, SMT
<1>. QED
  BY <1>1, <1>2, <1>4 DEF Data, ValueServed, canServe, now

LEMMA ApplyOnce ==
  ASSUME Inv, TypeInv, HistoryInv, EffectInv, NEW r \in Replica, Apply(r)
  PROVE  EffectsOnce'
<1>1. CASE effects' = effects
  BY <1>1 DEF EffectInv, EffectsOnce
<1>2. CASE effects' # effects
  <2>1. ApplyOperation(r) /\ isFirst(r)
    BY <1>2 DEF Apply, RefuseOperation, SkipDuplicate, ApplyOperation, ApplyConfiguration,
       ApplyInsertShards, ApplyDeleteShards
  <2>2. PICK cmd, x, kv : cmd = next(r) /\ x = cmd.request.shard /\ kv = effects[x]
    OBVIOUS
  <2>3. /\ cmd.op = "Operation" /\ isTyped(cmd) /\ x \in Shard /\ canServe(r, x)
        /\ cmd.request.op # "Get" => lastOperations[r][cmd.clerk] < cmd.id
        /\ effects' = [effects EXCEPT ![x] = written(cmd, @)]
    BY <2>1, <2>2, ApplyOperationIs
  <2>4. effects \in [Shard -> KV] /\ kv \in KV /\ IsInjective(kv)
    BY <2>2, <2>3 DEF TypeInv, EffectInv, EffectsOnce
  <2>5. covers(lastOperations[r], kv)
    <3>1. stateMachines[r][x].kv = kv
      BY <2>1, <2>2, <2>3, FirstServes
    <3>. QED
      BY <2>3, <3>1 DEF EffectInv, DataCovered
  <2>6. IsInjective(written(cmd, kv))
    <3>1. CASE written(cmd, kv) = kv
      BY <2>4, <3>1
    <3>2. CASE written(cmd, kv) # kv
      <4>1. PICK v : v = <<cmd.clerk, cmd.id>>
        OBVIOUS
      <4>2. /\ written(cmd, kv) \in {Append(kv, v), <<v>>} /\ cmd.request.op # "Get"
            /\ cmd.clerk \in Clerk /\ cmd.id \in Nat
        BY <2>3, <3>2, <4>1, WrittenIs
      <4>3. \A k \in DOMAIN kv : kv[k] # v
        <5>1. lastOperations[r][cmd.clerk] \in Int
          BY <4>2 DEF TypeInv, ReplicaTypes
        <5>2. ~(cmd.id <= lastOperations[r][cmd.clerk])
          BY <2>3, <4>2, <5>1
        <5>. QED
          BY <2>5, <4>1, <5>2 DEF covers
      <4>4. IsInjective(Append(kv, v))
        BY <2>4, <4>3, Appended DEF IsInjective
      <4>5. IsInjective(<<v>>)
        BY DEF IsInjective
      <4>. QED
        BY <4>2, <4>4, <4>5
    <3>. QED
      BY <3>1, <3>2
  <2>7. \A s \in Shard : effects'[s] = IF s = x THEN written(cmd, kv) ELSE effects[s]
    BY <2>2, <2>3, <2>4
  <2>. QED
    BY <2>6, <2>7 DEF EffectInv, EffectsOnce
<1>. QED
  BY <1>1, <1>2

LEMMA ApplyEffects ==
  ASSUME Inv, TypeInv, TypeInv', HistoryInv, EffectInv, NEW r \in Replica, Apply(r)
  PROVE  EffectInv'
<1>1. goesOn /\ UNCHANGED <<log, tasks, commandId, request, call, answered>>
  BY ApplyGoesOn
<1>2. CommandsTrue'
  BY <1>1, CommandsStay DEF EffectInv
<1>3. CallsOwn'
  BY <1>1 DEF EffectInv, CallsOwn, isOwnEntry, isEntry
<1>4. AnsweredTrue'
  BY <1>1, RequestAssumption DEF EffectInv, AnsweredTrue, goesOn
<1>. QED
  BY <1>2, <1>3, <1>4, ApplyReplies, ApplyCovers, ApplyOnce, ApplyRemembers DEF EffectInv

-----------------------------------------------------------------------------
(* The theorem *)

LEMMA NextEffects ==
  ASSUME Inv, TypeInv, TypeInv', HistoryInv, EffectInv, [Next]_vars
  PROVE  EffectInv'
<1>1. CASE Publish \/ UNCHANGED vars
  <2>1. log' = log /\ tasks' = tasks /\ UNCHANGED replicaVars
    BY <1>1 DEF Publish, vars, replicaVars
  <2>2. grows
    BY <2>1, LogStays, NoTask DEF grows
  <2>3. UNCHANGED <<log, tasks, clerkVars, effects, answered>>
    BY <1>1 DEF Publish, vars
  <2>. QED
    BY <2>2, <2>3, GrowsEffectInv
<1>2. CASE Clerks
  BY <1>2, ClerksEffects
<1>3. CASE \/ \E r \in Replica : ConfigureAction(r)
           \/ \E r \in Replica, g \in Group : MigrationAction(r, g) \/ GcAction(r, g)
  BY <1>3, MonitorEffects
<1>4. CASE \E t \in tasks : Execute(t)
  BY <1>4, ExecuteEffects
<1>5. CASE \E t \in tasks : Serve(t)
  BY <1>5, ServeEffects DEF Serve
<1>6. CASE \E r \in Replica : Apply(r)
  BY <1>6, ApplyEffects
<1>. QED
  BY <1>1, <1>2, <1>3, <1>4, <1>5, <1>6 DEF Next

LEMMA EffectHolds ==
  ASSUME NeverBackToNobody PROVE Spec => []EffectInv
<1>1. Inv /\ OwnerInv /\ HistoryInv /\ TypeInv /\ EffectInv /\ [Next]_vars =>
        Inv' /\ OwnerInv' /\ HistoryInv' /\ TypeInv' /\ EffectInv'
  BY NextInv, OwnerNext, ApplyHistory, GrowsHistoryInv, NextTypes, NextEffects
<1>. QED
  BY <1>1, InitInv, OwnerInit, HistoryInit, TypeInit, EffectInit, PTL DEF Spec

\* No operation takes effect twice, whichever groups its retries went to: the table
\* of last operations moves with the data, and names all that the data contain
\* (applyOperation, GetShardsData, applyInsertShards).  The condition is that the
\* controller gives no shard back to gid 0, as before.
THEOREM NothingTakesEffectTwice ==
  ASSUME NeverBackToNobody PROVE Spec => []EffectsOnce
<1>1. EffectInv => EffectsOnce
  BY DEF EffectInv
<1>. QED
  BY <1>1, EffectHolds, PTL

LEMMA EffectFollows ==
  ASSUME NoPuts PROVE EffectInv => ExactlyOnce
<1>. SUFFICES ASSUME EffectInv, NEW a \in answered, a[3].op = "Append"
              PROVE  \E k \in DOMAIN effects[a[3].shard] :
                       effects[a[3].shard][k] = <<a[1], a[2]>>
  BY DEF EffectInv, EffectsOnce, ExactlyOnce
<1>1. a[3].shard \in Shard /\ hasEffect(a[1], a[2], a[3].shard)
  BY RequestAssumption DEF EffectInv, AnsweredTrue
<1>. QED
  BY <1>1 DEF hasEffect, NoPuts

\* And an operation that is answered with OK has taken effect by then: the table
\* names nothing that is not done.  The effect shows as long as there are no Puts,
\* which take other operations' effects away.
THEOREM OperationsTakeEffectOnce ==
  ASSUME NeverBackToNobody, NoPuts PROVE Spec => []ExactlyOnce
  BY EffectHolds, EffectFollows, PTL
=============================================================================
