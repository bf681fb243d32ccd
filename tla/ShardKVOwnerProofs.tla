------------------------- MODULE ShardKVOwnerProofs -------------------------
(***************************************************************************)
(* Proof about ShardKV for any groups, replicas, clerks, and any sequence  *)
(* of configurations in which no shard goes back to gid 0: a shard never   *)
(* has two owners.                                                         *)
(*                                                                         *)
(* Groups leave configurations in turn.  A group that owns a shard in a    *)
(* configuration leaves it only while it serves the shard (that the check  *)
(* of configureAction still holds then is NextWaits), and serves a shard   *)
(* only when all earlier owners have left the configurations in which they *)
(* owned it: it has the shard's data from the last of them, which gives it *)
(* out only then, and of which the same was true when it left.             *)
(***************************************************************************)
EXTENDS ShardKVProofs

\* No shard goes back to gid 0 (Leave of the controller may do that).
NeverBackToNobody ==
  \A n \in 0..Len(Configs), s \in Shard :
    owner(n, s) = 0 => \A k \in 0..n : owner(k, s) = 0

\* A replica of g has left configuration n.
passed(g, n) == \E r \in Replica : group[r] = g /\ currentConfig[r] > n

\* Configurations are published; shards to be inserted come from an owner that
\* has given them away.
isFounded(cmd) ==
  /\ cmd.op = "Configuration" => cmd.num \in Nat /\ cmd.num <= published
  /\ cmd.op = "InsertShards" =>
       /\ cmd.configNum \in Nat
       /\ \A s \in cmd.shardIds : passed(owner(cmd.configNum - 1, s), cmd.configNum - 1)

\* Shards are fetched from the one who owned them before.
isFoundedTask(t) ==
  /\ t.type = "Execute" => isFounded(t.command)
  /\ t.type = "GetShardsData" =>
       t.configNum \in Nat /\ \A s \in t.shardIds : owner(t.configNum - 1, s) = t.to

LogFounded == \A g \in Group : \A k \in 1..Len(log[g]) : isFounded(log[g][k])
TasksFounded == \A t \in tasks : isFoundedTask(t)

ConfigsPublished ==
  /\ published \in Nat /\ published <= Len(Configs)
  /\ \A r \in Replica : currentConfig[r] \in Nat /\ currentConfig[r] <= published

GivenAway ==
  \A r \in Replica, s \in Shard :
    stateMachines[r][s].status = "BePulling" => owner(currentConfig[r], s) # group[r]

\* Whoever serves a shard does so after all earlier owners.
ServedInTurn ==
  \A r \in Replica, s \in Shard : canServe(r, s) =>
    \A n \in 0..(currentConfig[r] - 1) :
      owner(n, s) \notin {0, group[r]} => passed(owner(n, s), n)

\* Whoever has left a configuration did so after all earlier owners.
LeftInTurn ==
  \A k \in Nat, s \in Shard : passed(owner(k, s), k) =>
    \A n \in 0..(k - 1) : owner(n, s) # 0 => passed(owner(n, s), n)

OwnerInv ==
  /\ LogFounded /\ TasksFounded /\ ConfigsPublished
  /\ GivenAway /\ ServedInTurn /\ LeftInTurn

-----------------------------------------------------------------------------

LEMMA OwnerInit == Init => OwnerInv
<1>. SUFFICES ASSUME Init PROVE OwnerInv
  OBVIOUS
<1>1. /\ published = 0 /\ tasks = {} /\ \A g \in Group : log[g] = <<>>
      /\ \A r \in Replica : currentConfig[r] = 0
      /\ \A r \in Replica, s \in Shard : stateMachines[r][s].status = "Serving"
  BY DEF Init, NewShard
<1>2. LogFounded /\ TasksFounded
  BY <1>1 DEF LogFounded, TasksFounded
<1>3. ConfigsPublished
  <2>1. Len(Configs) \in Nat
    BY ConfigAssumption, LenProperties
  <2>. QED
    BY <1>1, <2>1, SMT DEF ConfigsPublished
<1>4. GivenAway
  BY <1>1 DEF GivenAway
<1>5. ServedInTurn
  BY <1>1, SMT DEF ServedInTurn
<1>6. LeftInTurn
  <2>1. \A k \in Nat : \A g : ~passed(g, k)
    BY <1>1, SMT DEF passed
  <2>. QED
    BY <2>1 DEF LeftInTurn
<1>. QED
  BY <1>2, <1>3, <1>4, <1>5, <1>6 DEF OwnerInv

-----------------------------------------------------------------------------
(* Steps that leave the replicas alone *)

LEMMA QuietOwner ==
  ASSUME OwnerInv, UNCHANGED <<replicaVars, published>>, LogFounded', TasksFounded'
  PROVE  OwnerInv'
<1>1. UNCHANGED <<stateMachines, currentConfig, published>>
  BY DEF replicaVars
<1>2. \A g, n : passed(g, n)' <=> passed(g, n)
  BY <1>1 DEF passed
<1>3. \A r, s : canServe(r, s)' <=> canServe(r, s)
  BY <1>1 DEF canServe
<1>4. GivenAway' /\ ConfigsPublished'
  BY <1>1 DEF OwnerInv, GivenAway, ConfigsPublished
<1>5. ServedInTurn'
  BY <1>1, <1>2, <1>3 DEF OwnerInv, ServedInTurn
<1>6. LeftInTurn'
  BY <1>2 DEF OwnerInv, LeftInTurn
<1>. QED
  BY <1>4, <1>5, <1>6 DEF OwnerInv

\* What is founded stays so, as no replica goes back and nothing is unpublished.
LEMMA FoundedStays ==
  ASSUME published \in Nat, published' \in Nat, published <= published',
         \A r \in Replica : /\ currentConfig[r] \in Nat /\ currentConfig'[r] \in Nat
                            /\ currentConfig[r] <= currentConfig'[r]
  PROVE  /\ \A g, n : n \in Int /\ passed(g, n) => passed(g, n)'
         /\ \A cmd : isFounded(cmd) => isFounded(cmd)'
<1>1. ASSUME NEW g, NEW n \in Int, passed(g, n) PROVE passed(g, n)'
  <2>1. PICK r \in Replica : group[r] = g /\ currentConfig[r] > n
    BY <1>1 DEF passed
  <2>2. currentConfig'[r] > n
    BY <2>1, SMT
  <2>. QED
    BY <2>1, <2>2 DEF passed
<1>2. ASSUME NEW cmd, isFounded(cmd)
      PROVE  isFounded(cmd)'
  <2>1. cmd.op = "Configuration" => cmd.num \in Nat /\ cmd.num <= published'
    BY <1>2, SMT DEF isFounded
  <2>2. cmd.op = "InsertShards" => cmd.configNum - 1 \in Int
    BY <1>2, SMT DEF isFounded
  <2>. QED
    BY <1>1, <1>2, <2>1, <2>2 DEF isFounded
<1>. QED
  BY <1>1, <1>2

LEMMA StartFounded ==
  ASSUME Inv, LogFounded, UNCHANGED <<replicaVars, published>>,
         NEW g \in Group, NEW cmd, start(g, cmd), isFounded(cmd)
  PROVE  LogFounded'
<1>1. \A x : isFounded(x)' <=> isFounded(x)
  BY DEF isFounded, passed, replicaVars
<1>2. ASSUME NEW f \in Group, NEW k \in 1..Len(log'[f]) PROVE isFounded(log'[f][k])
  BY StartEntries DEF LogFounded
<1>. QED
  BY <1>1, <1>2 DEF LogFounded

\* A step that leaves log alone, and one that adds one task.
LEMMA LogStaysFounded ==
  ASSUME LogFounded, UNCHANGED <<replicaVars, published, log>> PROVE LogFounded'
<1>1. \A x : isFounded(x)' <=> isFounded(x)
  BY DEF isFounded, passed, replicaVars
<1>. QED
  BY <1>1 DEF LogFounded

LEMMA TaskFounded ==
  ASSUME TasksFounded, UNCHANGED <<replicaVars, published>>,
         NEW t, tasks' \subseteq tasks \cup {t}, isFoundedTask(t)
  PROVE  TasksFounded'
<1>1. \A x : isFoundedTask(x)' <=> isFoundedTask(x)
  BY DEF isFoundedTask, isFounded, passed, replicaVars
<1>. QED
  BY <1>1 DEF TasksFounded

LEMMA TasksStayFounded ==
  ASSUME TasksFounded, UNCHANGED <<replicaVars, published>>, tasks' \subseteq tasks
  PROVE  TasksFounded'
<1>1. \A x : isFoundedTask(x)' <=> isFoundedTask(x)
  BY DEF isFoundedTask, isFounded, passed, replicaVars
<1>. QED
  BY <1>1 DEF TasksFounded

LEMMA ClerksOwner == ASSUME Inv, OwnerInv, Clerks PROVE OwnerInv'
<1>1. /\ tasks' = tasks /\ UNCHANGED <<replicaVars, published>>
  BY DEF Clerks, Begin, AnswerDuplicate, Call, Return, WrongGroup, Timeout, Refresh, giveUp
<1>2. LogFounded'
  <2>1. CASE \E c \in Clerk, r \in Replica : Call(c, r)
    <3>1. PICK c \in Clerk, r \in Replica : Call(c, r)
      BY <2>1
    <3>. DEFINE cmd == [op |-> "Operation", clerk |-> c, id |-> commandId[c],
                        request |-> request[c]]
    <3>2. start(group[r], cmd) /\ isFounded(cmd)
      BY <3>1 DEF Call, isFounded
    <3>. HIDE DEF cmd
    <3>. QED
      BY <1>1, <3>2, StartFounded, GroupFacts DEF OwnerInv
  <2>2. CASE ~\E c \in Clerk, r \in Replica : Call(c, r)
    <3>1. log' = log
      BY <2>2 DEF Clerks, Begin, AnswerDuplicate, Return, WrongGroup, Timeout, Refresh, giveUp
    <3>. QED
      BY <1>1, <3>1, LogStaysFounded DEF OwnerInv
  <2>. QED
    BY <2>1, <2>2
<1>3. TasksFounded'
  BY <1>1, TasksStayFounded DEF OwnerInv
<1>. QED
  BY <1>1, <1>2, <1>3, QuietOwner

LEMMA ExecuteOwner == ASSUME Inv, OwnerInv, NEW t \in tasks, Execute(t) PROVE OwnerInv'
<1>1. /\ t.type = "Execute" /\ start(t.group, t.command) /\ tasks' = tasks \ {t}
      /\ UNCHANGED <<replicaVars, published>>
  BY DEF Execute
<1>2. t.group \in Group /\ isFounded(t.command)
  BY <1>1 DEF Inv, Commands, isTask, OwnerInv, TasksFounded, isFoundedTask
<1>3. LogFounded'
  BY <1>1, <1>2, StartFounded DEF OwnerInv
<1>4. TasksFounded'
  BY <1>1, TasksStayFounded DEF OwnerInv
<1>. QED
  BY <1>1, <1>3, <1>4, QuietOwner

LEMMA MonitorOwner ==
  ASSUME Inv, OwnerInv, NEW r \in Replica,
         ConfigureAction(r) \/ \E g \in Group : MigrationAction(r, g) \/ GcAction(r, g)
  PROVE  OwnerInv'
<1>1. UNCHANGED <<replicaVars, published, log>>
  BY DEF ConfigureAction, MigrationAction, GcAction, shardOperation, addTask
<1>2. LogFounded'
  BY <1>1, LogStaysFounded DEF OwnerInv
<1>3. TasksFounded'
  <2>1. CASE ConfigureAction(r)
    <3>. DEFINE t == execution(group[r], [op |-> "Configuration", num |-> currentConfig[r] + 1])
    <3>1. tasks' = tasks \cup {t} /\ currentConfig[r] + 1 <= published
      BY <2>1 DEF ConfigureAction, addTask
    <3>2. /\ t.type = "Execute" /\ t.command.op = "Configuration"
          /\ t.command.num = currentConfig[r] + 1
      BY DEF execution
    <3>. HIDE DEF t
    <3>3. t.command.num \in Nat
      BY <3>2 DEF OwnerInv, ConfigsPublished
    <3>4. isFoundedTask(t)
      BY <3>1, <3>2, <3>3 DEF isFoundedTask, isFounded
    <3>. QED
      BY <1>1, <3>1, <3>4, TaskFounded DEF OwnerInv
  <2>2. CASE \E g \in Group : MigrationAction(r, g) \/ GcAction(r, g)
    <3>1. PICK g \in Group : MigrationAction(r, g) \/ GcAction(r, g)
      BY <2>2
    <3>2. PICK type \in {"GetShardsData", "DeleteShardsData"}, status \in {"Pulling", "GCing"} :
            shardOperation(r, type, status, g)
      BY <3>1 DEF MigrationAction, GcAction
    <3>. DEFINE S == shardIdsByStatus(r, status, g)
                t == [type |-> type, group |-> group[r], to |-> g,
                      configNum |-> currentConfig[r], shardIds |-> S]
    <3>3. S # {} /\ tasks' = tasks \cup {t}
      BY <3>2 DEF shardOperation, addTask
    <3>4. S = moving(currentConfig[r], g, group[r])
      BY <3>3, ShardIdsMove
    <3>5. t.type = type /\ t.to = g /\ t.configNum = currentConfig[r] /\ t.shardIds = S
      OBVIOUS
    <3>. HIDE DEF S, t
    <3>6. isFoundedTask(t)
      BY <3>4, <3>5 DEF isFoundedTask, moving, OwnerInv, ConfigsPublished
    <3>. QED
      BY <1>1, <3>3, <3>6, TaskFounded DEF OwnerInv
  <2>. QED
    BY <2>1, <2>2
<1>. QED
  BY <1>1, <1>2, <1>3, QuietOwner

LEMMA ServeOwner ==
  ASSUME Inv, OwnerInv, NEW t \in tasks, NEW r \in Replica,
         GetShardsData(r, t) \/ ConfirmDeletion(r, t) \/ StartDeletion(r, t)
           \/ FinishDeletion(r, t)
  PROVE  OwnerInv'
<1>1. UNCHANGED <<replicaVars, published>>
  BY DEF GetShardsData, ConfirmDeletion, StartDeletion, FinishDeletion
<1>2. isFounded(deletion(t)) /\ isFoundedTask(execution(t.group, deletion(t)))
  BY DEF isFounded, isFoundedTask, execution, deletion
<1>3. CASE GetShardsData(r, t)
  <2>. DEFINE cmd == [op |-> "InsertShards", configNum |-> t.configNum,
                      shardIds |-> t.shardIds,
                      shards |-> [s \in t.shardIds |-> stateMachines[r][s].kv],
                      lastOperations |-> lastOperations[r]]
  <2>1. /\ cmd.op = "InsertShards" /\ cmd.configNum = t.configNum
        /\ cmd.shardIds = t.shardIds
    OBVIOUS
  <2>2. /\ log' = log /\ tasks' = (tasks \ {t}) \cup {execution(t.group, cmd)}
        /\ t.type = "GetShardsData" /\ t.to = group[r] /\ currentConfig[r] >= t.configNum
    BY <1>3 DEF GetShardsData, isReady
  <2>. HIDE DEF cmd
  <2>3. t.configNum \in Nat /\ \A s \in t.shardIds : owner(t.configNum - 1, s) = group[r]
    BY <2>2 DEF OwnerInv, TasksFounded, isFoundedTask
  <2>4. currentConfig[r] \in Nat
    BY DEF OwnerInv, ConfigsPublished
  <2>5. currentConfig[r] > t.configNum - 1
    BY <2>2, <2>3, <2>4, SMT
  <2>6. isFounded(cmd)
    BY <2>1, <2>3, <2>5 DEF isFounded, passed
  <2>7. isFoundedTask(execution(t.group, cmd))
    BY <2>6 DEF isFoundedTask, execution
  <2>8. LogFounded' /\ TasksFounded'
    BY <1>1, <2>2, <2>7, LogStaysFounded, TaskFounded DEF OwnerInv
  <2>. QED
    BY <1>1, <2>8, QuietOwner
<1>4. CASE ConfirmDeletion(r, t) \/ FinishDeletion(r, t)
  <2>1. log' = log /\ deleteLocally(t)
    BY <1>4 DEF ConfirmDeletion, FinishDeletion
  <2>2. LogFounded' /\ TasksFounded'
    BY <1>1, <1>2, <2>1, LogStaysFounded, TaskFounded DEF OwnerInv, deleteLocally
  <2>. QED
    BY <1>1, <2>2, QuietOwner
<1>5. CASE StartDeletion(r, t)
  <2>. DEFINE x == [type |-> "AwaitDeletion", group |-> t.group, to |-> t.to,
                    configNum |-> t.configNum, shardIds |-> t.shardIds,
                    entry |-> lastEntry(t.to)]
  <2>1. x.type = "AwaitDeletion"
    OBVIOUS
  <2>2. t.to \in Group /\ start(t.to, deletion(t)) /\ tasks' = (tasks \ {t}) \cup {x}
    BY <1>5, GroupFacts DEF StartDeletion
  <2>. HIDE DEF x
  <2>3. isFoundedTask(x)
    BY <2>1 DEF isFoundedTask
  <2>4. LogFounded' /\ TasksFounded'
    BY <1>1, <1>2, <2>2, <2>3, StartFounded, TaskFounded DEF OwnerInv
  <2>. QED
    BY <1>1, <2>4, QuietOwner
<1>. QED
  BY <1>3, <1>4, <1>5

LEMMA PublishOwner == ASSUME OwnerInv, Publish PROVE OwnerInv'
<1>1. /\ published' = published + 1 /\ published < Len(Configs)
      /\ UNCHANGED <<log, tasks, stateMachines, currentConfig>>
  BY DEF Publish, replicaVars
<1>2. Len(Configs) \in Nat
  BY ConfigAssumption, LenProperties
<1>3. ConfigsPublished'
  BY <1>1, <1>2, SMT DEF OwnerInv, ConfigsPublished
<1>4. /\ published \in Nat /\ published' \in Nat /\ published <= published'
      /\ \A r \in Replica : /\ currentConfig[r] \in Nat /\ currentConfig'[r] \in Nat
                            /\ currentConfig[r] <= currentConfig'[r]
  BY <1>1, SMT DEF OwnerInv, ConfigsPublished
<1>5. \A cmd : isFounded(cmd) => isFounded(cmd)'
  BY <1>4, FoundedStays
<1>6. LogFounded' /\ TasksFounded'
  BY <1>1, <1>5 DEF OwnerInv, LogFounded, TasksFounded, isFoundedTask
<1>7. \A g, n : passed(g, n)' <=> passed(g, n)
  BY <1>1 DEF passed
<1>8. \A r, s : canServe(r, s)' <=> canServe(r, s)
  BY <1>1 DEF canServe
<1>9. GivenAway' /\ ServedInTurn' /\ LeftInTurn'
  BY <1>1, <1>7, <1>8 DEF OwnerInv, GivenAway, ServedInTurn, LeftInTurn
<1>. QED
  BY <1>3, <1>6, <1>9 DEF OwnerInv

-----------------------------------------------------------------------------
(* The steps of an applier *)

\* What an entry other than a configuration does to the status of a shard: a
\* fetched one is served once it is there, and the rest need not be fetched.
statusMoves(r, s) ==
  LET old == stateMachines[r][s].status
      new == stateMachines'[r][s].status
  IN
  \/ new = old
  \/ /\ old = "Pulling" /\ new = "GCing"
     /\ passed(owner(currentConfig[r] - 1, s), currentConfig[r] - 1)
  \/ old \in {"GCing", "BePulling"} /\ new = "Serving"

\* Either the configuration stays, or the next comes and all shards were served.
goesForward(r) ==
  \/ /\ currentConfig'[r] = currentConfig[r]
     /\ \A s \in Shard : statusMoves(r, s)
  \/ /\ currentConfig'[r] = currentConfig[r] + 1 /\ currentConfig[r] + 1 <= published
     /\ serves(stateMachines[r])
     /\ \A s \in Shard : stateMachines'[r][s].status =
          nextStatus(r, s, owner(currentConfig[r], s), owner(currentConfig[r] + 1, s))

LEMMA ApplyProgresses ==
  ASSUME Inv, OwnerInv, NEW r \in Replica, Apply(r)
  PROVE  /\ goesForward(r)
         /\ \A t \in Replica : t # r =>
              currentConfig'[t] = currentConfig[t] /\ stateMachines'[t] = stateMachines[t]
<1>1. /\ Types /\ isState(group[r], state(r)) /\ isFounded(next(r))
      /\ lastApplied[r] < Len(log[group[r]])
  <2>1. PICK h : \E m \in Nat : History(group[r], h, m)
    BY GroupFacts DEF Inv
  <2>2. PICK m \in Nat : History(group[r], h, m)
    BY <2>1
  <2>3. lastApplied[r] \in 0..m /\ isState(group[r], state(r))
    BY <2>2 DEF History
  <2>4. /\ Types /\ group[r] \in Group /\ Len(log[group[r]]) \in Nat
        /\ lastApplied[r] < Len(log[group[r]])
    BY GroupFacts, LenProperties
    DEF Inv, Types, Apply, RefuseOperation, SkipDuplicate, ApplyOperation,
        ApplyConfiguration, ApplyInsertShards, ApplyDeleteShards, applies
  <2>5. lastApplied[r] + 1 \in 1..Len(log[group[r]])
    BY <2>3, <2>4, SMT
  <2>. QED
    BY <2>3, <2>4, <2>5 DEF OwnerInv, LogFounded, next
<1>2. \A s \in Shard : DOMAIN stateMachines[r][s] = {"kv", "status"}
  BY <1>1 DEF isState, state
<1>3. /\ DOMAIN stateMachines = Replica /\ DOMAIN currentConfig = Replica
      /\ DOMAIN stateMachines[r] = Shard
  BY <1>1 DEF Types, isState, state
<1>4. CASE RefuseOperation(r) \/ SkipDuplicate(r)
  BY <1>4 DEF RefuseOperation, SkipDuplicate, goesForward, statusMoves
<1>5. CASE ApplyOperation(r)
  <2>. DEFINE s == next(r).request.shard
  <2>1. /\ stateMachines' = [stateMachines EXCEPT ![r][s].kv = written(next(r), @)]
        /\ currentConfig' = currentConfig
    BY <1>5 DEF ApplyOperation
  <2>2. \A u \in Shard : stateMachines'[r][u].status = stateMachines[r][u].status
    BY <1>2, <1>3, <2>1
  <2>3. \A t \in Replica : t # r => stateMachines'[t] = stateMachines[t]
    BY <1>3, <2>1
  <2>. QED
    BY <2>1, <2>2, <2>3 DEF goesForward, statusMoves
<1>6. CASE ApplyConfiguration(r)
  <2>1. CASE next(r).num # currentConfig[r] + 1
    BY <1>6, <2>1 DEF ApplyConfiguration, goesForward, statusMoves
  <2>2. CASE next(r).num = currentConfig[r] + 1
    <3>1. /\ next(r).op = "Configuration"
          /\ stateMachines' = [stateMachines EXCEPT ![r] = [s \in Shard |->
               [@[s] EXCEPT !.status =
                  nextStatus(r, s, owner(currentConfig[r], s), owner(next(r).num, s))]]]
          /\ currentConfig' = [currentConfig EXCEPT ![r] = next(r).num]
      BY <1>6, <2>2 DEF ApplyConfiguration, applies
    <3>2. currentConfig'[r] = currentConfig[r] + 1 /\ currentConfig[r] + 1 <= published
      BY <1>1, <1>3, <2>2, <3>1 DEF isFounded
    <3>3. currentConfig'[r] # currentConfig[r]
      BY <3>2, SMT DEF OwnerInv, ConfigsPublished
    <3>4. serves(stateMachines[r])
      BY <3>3, ApplyWaits
    <3>5. \A s \in Shard : stateMachines'[r][s].status =
            nextStatus(r, s, owner(currentConfig[r], s), owner(currentConfig[r] + 1, s))
      BY <1>2, <1>3, <2>2, <3>1
    <3>6. \A t \in Replica : t # r =>
            currentConfig'[t] = currentConfig[t] /\ stateMachines'[t] = stateMachines[t]
      BY <1>3, <3>1
    <3>. QED
      BY <3>2, <3>4, <3>5, <3>6 DEF goesForward
  <2>. QED
    BY <2>1, <2>2
<1>7. CASE ApplyInsertShards(r)
  <2>1. CASE ~isCurrent(r, next(r).configNum)
    BY <1>7, <2>1 DEF ApplyInsertShards, goesForward, statusMoves
  <2>2. CASE isCurrent(r, next(r).configNum)
    <3>1. PICK S \in handled(r, next(r).shardIds, {"Pulling"}) :
            stateMachines' = [stateMachines EXCEPT ![r] = [s \in Shard |->
              IF s \in S THEN inserted(@[s], next(r).shards[s]) ELSE @[s]]]
      BY <1>7, <2>2 DEF ApplyInsertShards
    <3>2. \A s \in S : s \in next(r).shardIds /\ stateMachines[r][s].status = "Pulling"
      BY DEF handled
    <3>3. next(r).op = "InsertShards" /\ currentConfig' = currentConfig
            /\ next(r).configNum = currentConfig[r]
      BY <1>7, <2>2 DEF ApplyInsertShards, applies, isCurrent
    <3>4. \A s \in S : passed(owner(currentConfig[r] - 1, s), currentConfig[r] - 1)
      BY <1>1, <3>2, <3>3 DEF isFounded
    <3>5. ASSUME NEW s \in Shard PROVE statusMoves(r, s)
      <4>1. CASE s \in S
        <5>1. stateMachines'[r][s] = inserted(stateMachines[r][s], next(r).shards[s])
          BY <1>3, <3>1, <4>1
        <5>. QED
          BY <3>2, <3>4, <4>1, <5>1 DEF statusMoves, inserted
      <4>2. CASE s \notin S
        <5>1. stateMachines'[r][s] = stateMachines[r][s]
          BY <1>3, <3>1, <4>2
        <5>. QED
          BY <5>1 DEF statusMoves
      <4>. QED
        BY <4>1, <4>2
    <3>6. \A t \in Replica : t # r => stateMachines'[t] = stateMachines[t]
      BY <1>3, <3>1
    <3>. QED
      BY <3>3, <3>5, <3>6 DEF goesForward
  <2>. QED
    BY <2>1, <2>2
<1>8. CASE ApplyDeleteShards(r)
  <2>1. CASE ~isCurrent(r, next(r).configNum)
    BY <1>8, <2>1 DEF ApplyDeleteShards, goesForward, statusMoves
  <2>2. CASE isCurrent(r, next(r).configNum)
    <3>1. PICK S \in handled(r, next(r).shardIds, {"GCing", "BePulling"}) :
            stateMachines' = [stateMachines EXCEPT ![r] = [s \in Shard |->
              IF s \in S THEN deleted(@[s]) ELSE @[s]]]
      BY <1>8, <2>2 DEF ApplyDeleteShards
    <3>2. \A s \in S : stateMachines[r][s].status \in {"GCing", "BePulling"}
      BY DEF handled
    <3>3. currentConfig' = currentConfig
      BY <1>8 DEF ApplyDeleteShards
    <3>4. ASSUME NEW s \in Shard PROVE statusMoves(r, s)
      <4>1. CASE s \in S
        <5>1. stateMachines'[r][s] = deleted(stateMachines[r][s])
          BY <1>3, <3>1, <4>1
        <5>2. deleted(stateMachines[r][s]).status = "Serving"
          BY <1>2 DEF deleted, NewShard
        <5>. QED
          BY <3>2, <4>1, <5>1, <5>2 DEF statusMoves
      <4>2. CASE s \notin S
        <5>1. stateMachines'[r][s] = stateMachines[r][s]
          BY <1>3, <3>1, <4>2
        <5>. QED
          BY <5>1 DEF statusMoves
      <4>. QED
        BY <4>1, <4>2
    <3>5. \A t \in Replica : t # r => stateMachines'[t] = stateMachines[t]
      BY <1>3, <3>1
    <3>. QED
      BY <3>3, <3>4, <3>5 DEF goesForward
  <2>. QED
    BY <2>1, <2>2
<1>. QED
  BY <1>4, <1>5, <1>6, <1>7, <1>8 DEF Apply

LEMMA ApplyOwner ==
  ASSUME NeverBackToNobody, Inv, OwnerInv, NEW r \in Replica, Apply(r)
  PROVE  OwnerInv'
<1>. DEFINE c == currentConfig[r]
<1>1. /\ goesForward(r)
      /\ \A t \in Replica : t # r =>
           currentConfig'[t] = currentConfig[t] /\ stateMachines'[t] = stateMachines[t]
  BY ApplyProgresses
<1>2. log' = log /\ tasks' = tasks /\ published' = published
  BY DEF Apply, RefuseOperation, SkipDuplicate, ApplyOperation, ApplyConfiguration,
     ApplyInsertShards, ApplyDeleteShards, applies
<1>3. /\ published \in Nat /\ published <= Len(Configs) /\ Len(Configs) \in Nat
      /\ \A t \in Replica : currentConfig[t] \in Nat /\ currentConfig[t] <= published
  BY ConfigAssumption, LenProperties DEF OwnerInv, ConfigsPublished
<1>4. currentConfig'[r] = c \/ (currentConfig'[r] = c + 1 /\ c + 1 <= published)
  BY <1>1 DEF goesForward
<1>5. /\ ConfigsPublished'
      /\ \A t \in Replica : /\ currentConfig[t] \in Nat /\ currentConfig'[t] \in Nat
                            /\ currentConfig[t] <= currentConfig'[t]
  <2>1. ASSUME NEW t \in Replica
        PROVE  /\ currentConfig'[t] \in Nat /\ currentConfig'[t] <= published
               /\ currentConfig[t] <= currentConfig'[t]
    BY <1>1, <1>3, <1>4, SMT
  <2>. QED
    BY <1>2, <1>3, <2>1 DEF ConfigsPublished
<1>6. /\ \A g, n : n \in Int /\ passed(g, n) => passed(g, n)'
      /\ \A cmd : isFounded(cmd) => isFounded(cmd)'
  <2>1. published' \in Nat /\ published <= published'
    BY <1>2, <1>3
  <2>. QED
    BY <1>3, <1>5, <2>1, FoundedStays
<1>7. LogFounded' /\ TasksFounded'
  BY <1>2, <1>6 DEF OwnerInv, LogFounded, TasksFounded, isFoundedTask
<1>8. \A t \in Replica : \A s : t # r => (canServe(t, s)' <=> canServe(t, s))
  BY <1>1 DEF canServe
<1>9. CASE /\ currentConfig'[r] = c
           /\ \A s \in Shard : statusMoves(r, s)
  <2>1. \A t \in Replica : currentConfig'[t] = currentConfig[t]
    BY <1>1, <1>9
  <2>2. \A g, n : passed(g, n)' <=> passed(g, n)
    BY <2>1 DEF passed
  <2>3. LeftInTurn'
    BY <2>2 DEF OwnerInv, LeftInTurn
  <2>4. ASSUME NEW t \in Replica, NEW s \in Shard, stateMachines'[t][s].status = "BePulling"
        PROVE  owner(currentConfig'[t], s) # group[t]
    <3>1. stateMachines[t][s].status = "BePulling"
      BY <1>1, <1>9, <2>4 DEF statusMoves
    <3>. QED
      BY <2>1, <3>1 DEF OwnerInv, GivenAway
  <2>5. ASSUME NEW t \in Replica, NEW s \in Shard, canServe(t, s)',
               NEW n \in 0..(currentConfig[t] - 1), owner(n, s) \notin {0, group[t]}
        PROVE  passed(owner(n, s), n)
    <3>1. CASE canServe(t, s)
      BY <2>5, <3>1 DEF OwnerInv, ServedInTurn
    <3>2. CASE ~canServe(t, s)
      <4>1. /\ t = r /\ owner(c, s) = group[r]
            /\ stateMachines'[r][s].status \in {"Serving", "GCing"}
            /\ stateMachines[r][s].status \notin {"Serving", "GCing"}
        BY <1>8, <1>9, <2>5, <3>2 DEF canServe
      <4>2. stateMachines[r][s].status # "BePulling"
        BY <4>1 DEF OwnerInv, GivenAway
      <4>3. passed(owner(c - 1, s), c - 1)
        BY <1>9, <4>1, <4>2 DEF statusMoves
      <4>4. n = c - 1 \/ (c - 1 \in Nat /\ n \in 0..(c - 1 - 1))
        BY <1>3, <2>5, <4>1, SMT
      <4>. QED
        BY <2>5, <4>3, <4>4 DEF OwnerInv, LeftInTurn
    <3>. QED
      BY <3>1, <3>2
  <2>6. GivenAway' /\ ServedInTurn'
    BY <2>1, <2>2, <2>4, <2>5 DEF GivenAway, ServedInTurn
  <2>. QED
    BY <1>5, <1>7, <2>3, <2>6 DEF OwnerInv
<1>10. CASE /\ currentConfig'[r] = c + 1 /\ c + 1 <= published
            /\ serves(stateMachines[r])
            /\ \A s \in Shard : stateMachines'[r][s].status =
                 nextStatus(r, s, owner(c, s), owner(c + 1, s))
  <2>1. \A s \in Shard : owner(c, s) = group[r] => canServe(r, s)
    BY <1>10 DEF serves, canServe
  <2>2. \A s \in Shard : stateMachines[r][s].status = "Serving"
    BY <1>10 DEF serves
  <2>3. ASSUME NEW t \in Replica, NEW s \in Shard, stateMachines'[t][s].status = "BePulling"
        PROVE  owner(currentConfig'[t], s) # group[t]
    <3>1. CASE t = r
      <4>1. nextStatus(r, s, owner(c, s), owner(c + 1, s)) = "BePulling"
        BY <1>10, <2>3, <3>1
      <4>2. owner(c + 1, s) # group[r]
        BY <2>2, <4>1 DEF nextStatus
      <4>. QED
        BY <1>10, <3>1, <4>2
    <3>2. CASE t # r
      BY <1>1, <2>3, <3>2 DEF OwnerInv, GivenAway
    <3>. QED
      BY <3>1, <3>2
  <2>4. ASSUME NEW t \in Replica, NEW s \in Shard, canServe(t, s)',
               NEW n \in 0..(currentConfig'[t] - 1), owner(n, s) \notin {0, group[t]}
        PROVE  passed(owner(n, s), n)'
    <3>0. n \in Int
      OBVIOUS
    <3>1. CASE t # r
      <4>1. canServe(t, s) /\ n \in 0..(currentConfig[t] - 1)
        BY <1>1, <1>8, <2>4, <3>1
      <4>2. passed(owner(n, s), n)
        BY <2>4, <4>1 DEF OwnerInv, ServedInTurn
      <4>. QED
        BY <1>6, <3>0, <4>2
    <3>2. CASE t = r
      <4>1. /\ owner(c + 1, s) = group[r]
            /\ nextStatus(r, s, owner(c, s), owner(c + 1, s)) # "Pulling"
        BY <1>10, <2>4, <3>2 DEF canServe
      <4>2. owner(c, s) \in {group[r], 0}
        BY <4>1 DEF nextStatus
      <4>3. n \in 0..c /\ c \in 0..Len(Configs)
        BY <1>3, <1>10, <2>4, <3>2, SMT
      <4>4. owner(c, s) = group[r]
        BY <2>4, <3>2, <4>2, <4>3 DEF NeverBackToNobody
      <4>5. n # c
        BY <2>4, <3>2, <4>4
      <4>6. n \in 0..(c - 1)
        BY <1>3, <4>3, <4>5, SMT
      <4>7. passed(owner(n, s), n)
        BY <2>1, <2>4, <3>2, <4>4, <4>6 DEF OwnerInv, ServedInTurn
      <4>. QED
        BY <1>6, <3>0, <4>7
    <3>. QED
      BY <3>1, <3>2
  <2>5. ASSUME NEW k \in Nat, NEW s \in Shard, passed(owner(k, s), k)',
               NEW n \in 0..(k - 1), owner(n, s) # 0
        PROVE  passed(owner(n, s), n)'
    <3>0. n \in Int
      OBVIOUS
    <3>1. CASE passed(owner(k, s), k)
      <4>1. passed(owner(n, s), n)
        BY <2>5, <3>1 DEF OwnerInv, LeftInTurn
      <4>. QED
        BY <1>6, <3>0, <4>1
    <3>2. CASE ~passed(owner(k, s), k)
      <4>1. PICK t \in Replica : group[t] = owner(k, s) /\ currentConfig'[t] > k
        BY <2>5 DEF passed
      <4>2. ~(currentConfig[t] > k)
        BY <3>2, <4>1 DEF passed
      <4>3. t = r
        BY <1>1, <4>1, <4>2
      <4>4. k = c
        BY <1>3, <1>10, <4>1, <4>2, <4>3, SMT
      <4>5. CASE owner(n, s) = group[r]
        <5>1. currentConfig'[r] > n
          BY <1>3, <1>10, <4>4, SMT
        <5>. QED
          BY <4>5, <5>1 DEF passed
      <4>6. CASE owner(n, s) # group[r]
        <5>1. passed(owner(n, s), n)
          BY <2>1, <2>5, <4>1, <4>3, <4>4, <4>6 DEF OwnerInv, ServedInTurn
        <5>. QED
          BY <1>6, <3>0, <5>1
      <4>. QED
        BY <4>5, <4>6
    <3>. QED
      BY <3>1, <3>2
  <2>6. GivenAway' /\ ServedInTurn' /\ LeftInTurn'
    BY <2>3, <2>4, <2>5 DEF GivenAway, ServedInTurn, LeftInTurn
  <2>. QED
    BY <1>5, <1>7, <2>6 DEF OwnerInv
<1>. QED
  BY <1>1, <1>9, <1>10 DEF goesForward

LEMMA OwnerNext == ASSUME NeverBackToNobody PROVE Inv /\ OwnerInv /\ [Next]_vars => OwnerInv'
<1>. SUFFICES ASSUME Inv, OwnerInv, [Next]_vars PROVE OwnerInv'
  OBVIOUS
<1>1. CASE UNCHANGED vars
  <2>1. UNCHANGED <<replicaVars, published, log, tasks>>
    BY <1>1 DEF vars
  <2>. QED
    BY <2>1, LogStaysFounded, TasksStayFounded, QuietOwner DEF OwnerInv
<1>2. CASE \E r \in Replica : Apply(r)
  BY <1>2, ApplyOwner
<1>3. CASE \/ \E r \in Replica : ConfigureAction(r)
           \/ \E r \in Replica, g \in Group : MigrationAction(r, g) \/ GcAction(r, g)
  BY <1>3, MonitorOwner
<1>4. CASE \E t \in tasks : Execute(t)
  BY <1>4, ExecuteOwner
<1>5. CASE \E t \in tasks : Serve(t)
  BY <1>5, ServeOwner DEF Serve
<1>. QED
  BY <1>1, <1>2, <1>3, <1>4, <1>5, ClerksOwner, PublishOwner DEF Next

-----------------------------------------------------------------------------
(* The theorem *)

\* Replicas of a group that have applied all entries have come furthest.
LEMMA FurthestIsUpToDate ==
  ASSUME Inv, NEW r \in Replica, isUpToDate(r), NEW t \in Replica, group[t] = group[r]
  PROVE  currentConfig[t] <= currentConfig[r]
<1>1. PICK h : \E m \in Nat : History(group[r], h, m)
  BY GroupFacts DEF Inv
<1>2. PICK m \in Nat : History(group[r], h, m)
  BY <1>1
<1>3. /\ lastApplied[r] \in 0..m /\ state(r) = h[lastApplied[r]]
      /\ lastApplied[t] \in 0..m /\ state(t) = h[lastApplied[t]]
      /\ m <= Len(log[group[r]])
  BY <1>2 DEF History
<1>4. lastApplied[t] <= lastApplied[r]
  <2>1. lastApplied[r] = Len(log[group[r]])
    BY DEF isUpToDate
  <2>. QED
    BY <1>3, <2>1, SMT
<1>5. h[lastApplied[t]].current <= h[lastApplied[r]].current
  BY <1>2, <1>3, <1>4 DEF History
<1>. QED
  BY <1>3, <1>5 DEF state

LEMMA OwnerFollows == Inv /\ OwnerInv => OneOwner
<1>. SUFFICES ASSUME Inv, OwnerInv,
                     NEW r \in Replica, NEW t \in Replica, group[r] # group[t],
                     isUpToDate(r), isUpToDate(t),
                     NEW s \in Shard, canServe(r, s), canServe(t, s)
              PROVE  FALSE
  BY DEF OneOwner
<1>1. ASSUME NEW p \in Replica, NEW q \in Replica, group[p] # group[q], isUpToDate(p),
             canServe(p, s), canServe(q, s), currentConfig[p] < currentConfig[q]
      PROVE  FALSE
  <2>1. currentConfig[p] \in Nat /\ currentConfig[q] \in Nat
    BY DEF OwnerInv, ConfigsPublished
  <2>2. currentConfig[p] \in 0..(currentConfig[q] - 1)
    BY <1>1, <2>1, SMT
  <2>3. owner(currentConfig[p], s) = group[p] /\ group[p] # 0
    BY <1>1, GroupFacts DEF canServe
  <2>4. passed(group[p], currentConfig[p])
    BY <1>1, <2>2, <2>3 DEF OwnerInv, ServedInTurn
  <2>5. PICK u \in Replica : group[u] = group[p] /\ currentConfig[u] > currentConfig[p]
    BY <2>4 DEF passed
  <2>6. currentConfig[u] <= currentConfig[p] /\ currentConfig[u] \in Nat
    BY <1>1, <2>5, FurthestIsUpToDate DEF OwnerInv, ConfigsPublished
  <2>. QED
    BY <2>1, <2>5, <2>6, SMT
<1>2. currentConfig[r] # currentConfig[t]
  BY DEF canServe
<1>3. currentConfig[r] < currentConfig[t] \/ currentConfig[t] < currentConfig[r]
  <2>1. currentConfig[r] \in Nat /\ currentConfig[t] \in Nat
    BY DEF OwnerInv, ConfigsPublished
  <2>. QED
    BY <1>2, <2>1, SMT
<1>. QED
  BY <1>1, <1>3

\* A shard never has two owners that accept operations on it, whatever calls and
\* entries are late, lost or repeated, and whichever replicas lag: the new owner
\* waits for the data (updateShardStatus), and GetShardsData gives them out only
\* at a replica that has left the configuration (ErrNotReady).  The condition is
\* that the controller gives no shard back to gid 0.
THEOREM OneOwnerAtATime == ASSUME NeverBackToNobody PROVE Spec => []OneOwner
<1>1. Inv /\ OwnerInv /\ [Next]_vars => Inv' /\ OwnerInv'
  BY NextInv, OwnerNext
<1>. QED
  BY <1>1, InitInv, OwnerInit, OwnerFollows, PTL DEF Spec
=============================================================================
