------------------------------- MODULE ShardKV -------------------------------
(***************************************************************************)
(* The sharded key/value service: the clerks, the replicas of each group,  *)
(* and the migration of shards from group to group as the controller       *)
(* publishes new configurations.                                           *)
(*                                                                         *)
(* The Raft log of a group is the sequence log[g] of the commands it has   *)
(* committed; every replica applies it in order, each at its own pace      *)
(* (Raft's StateMachineSafety).  Any replica may believe it leads, with a  *)
(* state machine that lags, so any may run the monitors and the handlers;  *)
(* Start may succeed or fail.  Calls between groups may be late, or lost:  *)
(* a call or a Start that fails is a task with which nobody goes on.       *)
(*                                                                         *)
(* A shard holds one key, whose value is the sequence of what was          *)
(* appended to it; <<>> also stands for a key that is absent.              *)
(***************************************************************************)
EXTENDS Integers, Sequences, FiniteSets, FiniteSetsExt, SequencesExt

CONSTANTS Replica,    \* the servers of all groups
          Group,      \* their gids
          group,      \* the gid of a server
          Shard,      \* the shards; common.go: 10
          Configs,    \* the configurations the controller goes through, from 1
          Clerk,
          Request,    \* the operations the clients ask for
          Nil,        \* no operation, no answer
          MaxCommands,\* bound: operations of one clerk
          MaxRepeats  \* bound: entries that repeat an earlier one, in all logs

Status == {"Serving", "Pulling", "BePulling", "GCing"}

ASSUME GroupAssumption == Group \subseteq Nat \ {0} /\ group \in [Replica -> Group]
ASSUME ConfigAssumption ==
  Configs \in Seq([shards : [Shard -> Nat], groups : SUBSET Nat])
ASSUME RequestAssumption ==
  Request \subseteq [op : {"Get", "Put", "Append"}, shard : Shard]
ASSUME NilAssumption == Nil \notin Request /\ Nil \notin {"OK", "ErrWrongGroup"}
ASSUME BoundAssumption == MaxCommands \in Nat /\ MaxRepeats \in Nat

VARIABLES
  published,      \* the number of the controller's latest configuration
  log,            \* the commands a group has committed
  lastApplied,    \* kv.lastApplied
  lastConfig,     \* the number of kv.lastConfig
  currentConfig,  \* the number of kv.currentConfig
  stateMachines,  \* kv.stateMachines
  lastOperations, \* MaxAppliedCommandId of each clerk, -1 when absent
  tasks,          \* what the goroutines of the monitors and handlers are at
  config,         \* the number of Clerk.config
  commandId,      \* Clerk.commandId
  request,        \* the operation a clerk is busy with
  call,           \* the entry its outstanding call waits for, <<gid, index>>
  reply,          \* the answer to that call
  effects,        \* history: the value of each shard, whoever owns it
  answered        \* history: the operations answered with OK

replicaVars == <<lastApplied, lastConfig, currentConfig, stateMachines,
                 lastOperations>>
clerkVars   == <<config, commandId, request, call, reply>>
vars == <<published, log, replicaVars, tasks, clerkVars, effects, answered>>

configAt(n) == IF n = 0 THEN [shards |-> [s \in Shard |-> 0], groups |-> {}]
               ELSE Configs[n]

owner(n, s) == configAt(n).shards[s]

NewShard == [kv |-> <<>>, status |-> "Serving"]

Init ==
  /\ published = 0
  /\ log = [g \in Group |-> <<>>]
  /\ lastApplied = [r \in Replica |-> 0]
  /\ lastConfig = [r \in Replica |-> 0]
  /\ currentConfig = [r \in Replica |-> 0]
  /\ stateMachines = [r \in Replica |-> [s \in Shard |-> NewShard]]
  /\ lastOperations = [r \in Replica |-> [c \in Clerk |-> -1]]
  /\ tasks = {}
  /\ config = [c \in Clerk |-> 0]
  /\ commandId = [c \in Clerk |-> 0]
  /\ request = [c \in Clerk |-> Nil]
  /\ call = [c \in Clerk |-> <<>>]
  /\ reply = [c \in Clerk |-> Nil]
  /\ effects = [s \in Shard |-> <<>>]
  /\ answered = {}

\* The controller installs its next configuration.
Publish ==
  /\ published < Len(Configs)
  /\ published' = published + 1
  /\ UNCHANGED <<log, replicaVars, tasks, clerkVars, effects, answered>>

-----------------------------------------------------------------------------
(* Execute: Start, then wait until the entry is applied *)

sameCommand(a, b) ==
  /\ a.op = b.op
  /\ CASE a.op = "Operation"     -> a.clerk = b.clerk /\ a.id = b.id
       [] a.op = "Configuration" -> a.num = b.num
       [] OTHER -> a.configNum = b.configNum /\ a.shardIds = b.shardIds

isRepeated(g, k) == \E n \in 1..(k - 1) : sameCommand(log[g][n], log[g][k])

repeats == MapThenSumSet(LAMBDA g : Cardinality({k \in DOMAIN log[g] : isRepeated(g, k)}),
                         Group)

\* Start appends command to the log of g.
start(g, command) ==
  /\ (\E k \in DOMAIN log[g] : sameCommand(log[g][k], command))
       => repeats < MaxRepeats
  /\ log' = [log EXCEPT ![g] = Append(@, command)]

\* Mutant: off by one.
lastEntry_Next(g) == <<g, Len(log'[g]) + 1>>

\* The entry that start has appended, whose application is awaited.
lastEntry(g) == <<g, Len(log'[g])>>

\* A monitor's goroutine is about to Execute command.
execution(g, command) == [type |-> "Execute", group |-> g, command |-> command]

Execute(t) ==
  /\ t.type = "Execute"
  /\ start(t.group, t.command)
  /\ tasks' = tasks \ {t}
  /\ UNCHANGED <<published, replicaVars, clerkVars, effects, answered>>

-----------------------------------------------------------------------------
(* The clerk and the Command handler *)

isDuplicateRequest(r, c, id) == id <= lastOperations[r][c]

Begin(c, q) ==
  /\ request[c] = Nil /\ commandId[c] < MaxCommands
  /\ request' = [request EXCEPT ![c] = q]
  /\ UNCHANGED <<published, log, replicaVars, tasks, config, commandId, call,
                 reply, effects, answered>>

\* The clerk calls a server of the group its configuration names.
isCalling(c, g) ==
  /\ request[c] # Nil /\ call[c] = <<>>
  /\ g = owner(config[c], request[c].shard)
  /\ g \in configAt(config[c]).groups

finish(c) ==
  /\ answered' = answered \cup {<<c, commandId[c], request[c]>>}
  /\ commandId' = [commandId EXCEPT ![c] = @ + 1]
  /\ request' = [request EXCEPT ![c] = Nil]
  /\ call' = [call EXCEPT ![c] = <<>>]
  /\ reply' = [reply EXCEPT ![c] = Nil]
  /\ UNCHANGED config

\* Command at r, which has applied the operation already.
AnswerDuplicate(c, r) ==
  /\ isCalling(c, group[r]) /\ request[c].op # "Get"
  /\ isDuplicateRequest(r, c, commandId[c])
  /\ finish(c)
  /\ UNCHANGED <<published, log, replicaVars, tasks, effects>>

\* Command at the leader r.
Call(c, r) ==
  /\ isCalling(c, group[r])
  /\ request[c].op = "Get" \/ ~isDuplicateRequest(r, c, commandId[c])
  /\ start(group[r], [op |-> "Operation", clerk |-> c, id |-> commandId[c],
                      request |-> request[c]])
  /\ call' = [call EXCEPT ![c] = lastEntry(group[r])]
  /\ UNCHANGED <<published, replicaVars, tasks, config, commandId, request,
                 reply, effects, answered>>

Return(c) ==
  /\ reply[c] = "OK"
  /\ finish(c)
  /\ UNCHANGED <<published, log, replicaVars, tasks, effects>>

\* The call is given up; the clerk goes on with its next server, or with the
\* controller's latest configuration.
giveUp(c) ==
  /\ call' = [call EXCEPT ![c] = <<>>]
  /\ reply' = [reply EXCEPT ![c] = Nil]
  /\ UNCHANGED <<published, log, replicaVars, tasks, commandId, request, effects,
                 answered>>

requery(c) == config' = [config EXCEPT ![c] = published]

WrongGroup(c) == reply[c] = "ErrWrongGroup" /\ giveUp(c) /\ requery(c)

\* The call times out or its connection breaks, even if the answer exists.
Timeout(c) == call[c] # <<>> /\ giveUp(c) /\ (UNCHANGED config \/ requery(c))

\* No server of a known group is left to call.
Refresh(c) ==
  /\ request[c] # Nil /\ call[c] = <<>> /\ config[c] # published
  /\ giveUp(c) /\ requery(c)

-----------------------------------------------------------------------------
(* The applier *)

next(r) == log[group[r]][lastApplied[r] + 1]

\* The applier of r takes the next entry of its log, a command of kind op.
applies(r, op) ==
  /\ lastApplied[r] < Len(log[group[r]])
  /\ next(r).op = op
  /\ lastApplied' = [lastApplied EXCEPT ![r] = @ + 1]
  /\ UNCHANGED <<published, log, tasks, config, commandId, request, call, answered>>

\* The clerk that waits for this entry, if one still does, gets the response.
notify(r, response) ==
  reply' = [c \in Clerk |->
              IF call[c] = <<group[r], lastApplied[r] + 1>> THEN response
              ELSE reply[c]]

canServe(r, s) ==
  /\ owner(currentConfig[r], s) = group[r]
  /\ stateMachines[r][s].status \in {"Serving", "GCing"}

written(command, kv) ==
  LET v == <<command.clerk, command.id>> IN
  CASE command.request.op = "Put"    -> <<v>>
    [] command.request.op = "Append" -> Append(kv, v)
    [] command.request.op = "Get"    -> kv

\* No other replica of the group has applied the next entry yet.
isFirst(r) ==
  \A t \in Replica : group[t] = group[r] => lastApplied[t] <= lastApplied[r]

RefuseOperation(r) ==
  /\ applies(r, "Operation")
  /\ ~canServe(r, next(r).request.shard)
  /\ notify(r, "ErrWrongGroup")
  /\ UNCHANGED <<lastConfig, currentConfig, stateMachines, lastOperations, effects>>

SkipDuplicate(r) ==
  LET cmd == next(r) IN
  /\ applies(r, "Operation")
  /\ canServe(r, cmd.request.shard)
  /\ cmd.request.op # "Get" /\ isDuplicateRequest(r, cmd.clerk, cmd.id)
  /\ notify(r, "OK")
  /\ UNCHANGED <<lastConfig, currentConfig, stateMachines, lastOperations, effects>>

ApplyOperation(r) ==
  LET cmd == next(r)
      s == cmd.request.shard
  IN
  /\ applies(r, "Operation")
  /\ canServe(r, s)
  /\ cmd.request.op = "Get" \/ ~isDuplicateRequest(r, cmd.clerk, cmd.id)
  /\ stateMachines' = [stateMachines EXCEPT ![r][s].kv = written(cmd, @)]
  /\ lastOperations' = IF cmd.request.op = "Get" THEN lastOperations
                       ELSE [lastOperations EXCEPT ![r][cmd.clerk] = cmd.id]
  /\ effects' = IF isFirst(r) THEN [effects EXCEPT ![s] = written(cmd, @)]
                ELSE effects
  /\ notify(r, "OK")
  /\ UNCHANGED <<lastConfig, currentConfig>>

\* Mutant: a gained shard is served at once.
nextStatus_Serving(r, s, old, new) ==
  IF old = group[r] /\ new \notin {group[r], 0} THEN "BePulling"
  ELSE stateMachines[r][s].status

\* updateShardStatus: gid 0 has no servers to pull from, nor does it pull.
nextStatus(r, s, old, new) ==
  CASE new = group[r] /\ old \notin {group[r], 0} -> "Pulling"
    [] old = group[r] /\ new \notin {group[r], 0} -> "BePulling"
    [] OTHER -> stateMachines[r][s].status

ApplyConfiguration(r) ==
  LET num == next(r).num IN
  /\ applies(r, "Configuration")
  /\ IF num = currentConfig[r] + 1
     THEN /\ stateMachines' = [stateMachines EXCEPT ![r] = [s \in Shard |->
               [@[s] EXCEPT !.status =
                  nextStatus(r, s, owner(currentConfig[r], s), owner(num, s))]]]
          /\ lastConfig' = [lastConfig EXCEPT ![r] = currentConfig[r]]
          /\ currentConfig' = [currentConfig EXCEPT ![r] = num]
     ELSE UNCHANGED <<stateMachines, lastConfig, currentConfig>>
  /\ UNCHANGED <<lastOperations, effects, reply>>

\* Mutant: the operations of the shard's former owner are forgotten.
mergedOperations_None(mine, theirs) == mine

mergedOperations(mine, theirs) ==
  [c \in Clerk |-> IF mine[c] < theirs[c] THEN theirs[c] ELSE mine[c]]

\* The loop over shardIds handles those that have a status in S; it stops at the
\* first that has none. Map iteration decides which were handled before; for a
\* deletion it is the order of its ids, which the model leaves open as well.
handled(r, shardIds, S) ==
  LET ready == {s \in shardIds : stateMachines[r][s].status \in S} IN
  IF ready = shardIds THEN {ready} ELSE SUBSET ready

\* Mutant: the number of the configuration is not compared.
isCurrent_Any(r, num) == TRUE

isCurrent(r, num) == num = currentConfig[r]

\* The keys of the former owner are copied over those the shard still has.
inserted(old, data) ==
  [kv |-> IF data = <<>> THEN old.kv ELSE data, status |-> "GCing"]

ApplyInsertShards(r) ==
  LET cmd == next(r) IN
  /\ applies(r, "InsertShards")
  /\ IF isCurrent(r, cmd.configNum)
     THEN /\ \E S \in handled(r, cmd.shardIds, {"Pulling"}) :
               stateMachines' = [stateMachines EXCEPT ![r] = [s \in Shard |->
                 IF s \in S THEN inserted(@[s], cmd.shards[s]) ELSE @[s]]]
          /\ lastOperations' = [lastOperations EXCEPT ![r] =
                                  mergedOperations(@, cmd.lastOperations)]
     ELSE UNCHANGED <<stateMachines, lastOperations>>
  /\ UNCHANGED <<lastConfig, currentConfig, effects, reply>>

\* The new owner is done with the shard, the former owner drops it.
deleted(shard) ==
  IF shard.status = "GCing" THEN [shard EXCEPT !.status = "Serving"]
  ELSE NewShard

ApplyDeleteShards(r) ==
  LET cmd == next(r) IN
  /\ applies(r, "DeleteShards")
  /\ IF isCurrent(r, cmd.configNum)
     THEN \E S \in handled(r, cmd.shardIds, {"GCing", "BePulling"}) :
            stateMachines' = [stateMachines EXCEPT ![r] = [s \in Shard |->
              IF s \in S THEN deleted(@[s]) ELSE @[s]]]
     ELSE UNCHANGED stateMachines
  /\ UNCHANGED <<lastConfig, currentConfig, lastOperations, effects, reply>>

Apply(r) ==
  \/ RefuseOperation(r) \/ SkipDuplicate(r) \/ ApplyOperation(r)
  \/ ApplyConfiguration(r)
  \/ ApplyInsertShards(r)
  \/ ApplyDeleteShards(r)

-----------------------------------------------------------------------------
(* The monitors *)

addTask(t) ==
  /\ t \notin tasks
  /\ tasks' = tasks \cup {t}
  /\ UNCHANGED <<published, log, replicaVars, clerkVars, effects, answered>>

\* Mutant: the configuration advances whatever the shards' status.
canPerformNextConfig_Always(r) == TRUE

canPerformNextConfig(r) ==
  \A s \in Shard : stateMachines[r][s].status = "Serving"

\* configureAction: Query finds the configuration after the current one.
ConfigureAction(r) ==
  LET num == currentConfig[r] + 1 IN
  /\ canPerformNextConfig(r) /\ num <= published
  /\ addTask(execution(group[r], [op |-> "Configuration", num |-> num]))

\* Mutant: the status is not compared.
shardIdsByStatus_Any(r, status, g) ==
  IF \E s \in Shard : stateMachines[r][s].status = status
  THEN {s \in Shard : owner(lastConfig[r], s) = g} ELSE {}

shardIdsByStatus(r, status, g) ==
  {s \in Shard : stateMachines[r][s].status = status /\ owner(lastConfig[r], s) = g}

\* The shards with this status that came from g, when g has servers to call.
shardOperation(r, type, status, g) ==
  LET S == shardIdsByStatus(r, status, g) IN
  /\ S # {} /\ g \in configAt(lastConfig[r]).groups
  /\ addTask([type |-> type, group |-> group[r], to |-> g,
              configNum |-> currentConfig[r], shardIds |-> S])

MigrationAction(r, g) == shardOperation(r, "GetShardsData", "Pulling", g)

GcAction(r, g) == shardOperation(r, "DeleteShardsData", "GCing", g)

\* Mutant: the data is given out before the configuration is reached.
isReady_Always(r, num) == TRUE

\* Mutant: the data is given out only when the configuration has been left.
isReady_Beyond(r, num) == currentConfig[r] > num

\* Not ErrNotReady.
isReady(r, num) == currentConfig[r] >= num

\* GetShardsData at r, whose answer the caller then tries to commit.
GetShardsData(r, t) ==
  /\ t.type = "GetShardsData" /\ t.to = group[r]
  /\ isReady(r, t.configNum)
  /\ tasks' = (tasks \ {t}) \cup
       {execution(t.group,
          [op |-> "InsertShards", configNum |-> t.configNum,
           shardIds |-> t.shardIds,
           shards |-> [s \in t.shardIds |-> stateMachines[r][s].kv],
           lastOperations |-> lastOperations[r]])}
  /\ UNCHANGED <<published, log, replicaVars, clerkVars, effects, answered>>

deletion(t) ==
  [op |-> "DeleteShards", configNum |-> t.configNum, shardIds |-> t.shardIds]

\* The former owner's OK: the caller commits the deletion in its own group.
deleteLocally(t) == tasks' = (tasks \ {t}) \cup {execution(t.group, deletion(t))}

\* DeleteShardsData at r, which has gone beyond the configuration.
ConfirmDeletion(r, t) ==
  /\ t.type = "DeleteShardsData" /\ t.to = group[r]
  /\ currentConfig[r] > t.configNum
  /\ deleteLocally(t)
  /\ UNCHANGED <<published, log, replicaVars, clerkVars, effects, answered>>

\* DeleteShardsData at the leader r: the deletion is started.
StartDeletion(r, t) ==
  /\ t.type = "DeleteShardsData" /\ t.to = group[r]
  /\ currentConfig[r] <= t.configNum
  /\ start(t.to, deletion(t))
  /\ tasks' = (tasks \ {t}) \cup
       {[type |-> "AwaitDeletion", group |-> t.group, to |-> t.to,
         configNum |-> t.configNum, shardIds |-> t.shardIds,
         entry |-> lastEntry(t.to)]}
  /\ UNCHANGED <<published, replicaVars, clerkVars, effects, answered>>

\* The leader r has applied it, with OK whatever it found.
FinishDeletion(r, t) ==
  /\ t.type = "AwaitDeletion" /\ t.to = group[r] /\ lastApplied[r] >= t.entry[2]
  /\ deleteLocally(t)
  /\ UNCHANGED <<published, log, replicaVars, clerkVars, effects, answered>>

-----------------------------------------------------------------------------

Clerks ==
  \E c \in Clerk :
    \/ \E q \in Request : Begin(c, q)
    \/ \E r \in Replica : AnswerDuplicate(c, r) \/ Call(c, r)
    \/ Return(c) \/ WrongGroup(c) \/ Timeout(c) \/ Refresh(c)

Serve(t) ==
  \E r \in Replica : \/ GetShardsData(r, t)
                     \/ ConfirmDeletion(r, t) \/ StartDeletion(r, t)
                     \/ FinishDeletion(r, t)

Next ==
  \/ Publish
  \/ Clerks
  \/ \E r \in Replica : Apply(r) \/ ConfigureAction(r)
  \/ \E r \in Replica, g \in Group : MigrationAction(r, g) \/ GcAction(r, g)
  \/ \E t \in tasks : Execute(t) \/ Serve(t)

Spec == Init /\ [][Next]_vars

\* The applier runs on, the monitors run again and again, and a call they repeat
\* gets through in the end.
Fairness ==
  /\ \A r \in Replica : WF_vars(Apply(r))
  /\ \A g \in Group :
       /\ WF_vars(\E r \in Replica : group[r] = g /\ ConfigureAction(r))
       /\ WF_vars(\E r \in Replica, h \in Group : group[r] = g /\ MigrationAction(r, h))
       /\ WF_vars(\E r \in Replica, h \in Group : group[r] = g /\ GcAction(r, h))
       /\ WF_vars(\E t \in tasks : t.group = g /\ Execute(t))
       /\ WF_vars(\E t \in tasks : t.group = g /\ Serve(t))

LiveSpec == Spec /\ Fairness

-----------------------------------------------------------------------------
(* Properties *)

KV == Seq(Clerk \X Nat)

\* Every variable has its type, and nobody waits for an entry that is not in the
\* log (Execute waits for the index that Start returned).
TypeOK ==
  /\ published \in 0..Len(Configs)
  /\ lastApplied \in [Replica -> Nat]
  /\ \A r \in Replica : lastApplied[r] <= Len(log[group[r]])
  /\ lastConfig \in [Replica -> 0..Len(Configs)]
  /\ currentConfig \in [Replica -> 0..Len(Configs)]
  /\ stateMachines \in [Replica -> [Shard -> [kv : KV, status : Status]]]
  /\ lastOperations \in [Replica -> [Clerk -> Int]]
  /\ \A t \in tasks : t.type = "AwaitDeletion" => t.entry[2] \in DOMAIN log[t.to]
  /\ config \in [Clerk -> 0..Len(Configs)]
  /\ commandId \in [Clerk -> Nat]
  /\ request \in [Clerk -> Request \cup {Nil}]
  /\ \A c \in Clerk : call[c] # <<>> => call[c][2] \in DOMAIN log[call[c][1]]
  /\ reply \in [Clerk -> {"OK", "ErrWrongGroup", Nil}]
  /\ effects \in [Shard -> KV]

isUpToDate(r) == lastApplied[r] = Len(log[group[r]])

\* Two groups never both accept operations on a shard: the new owner waits for
\* the data, which the old one gives out only when it has stopped serving
\* (updateShardStatus, canServe, GetShardsData).  A shard that went back to gid 0
\* would have nobody to wait for; the configurations of the instances have none.
OneOwner ==
  \A r, t \in Replica : group[r] # group[t] /\ isUpToDate(r) /\ isUpToDate(t) =>
    \A s \in Shard : ~(canServe(r, s) /\ canServe(t, s))

\* Whichever group serves a shard, it has the value that all operations applied
\* before, by whatever group, have given to it: a shard that moves takes its
\* data along, however late, repeated or out of order the calls that move it
\* and the calls that delete it are.
ShardHistory ==
  \A r \in Replica : isUpToDate(r) => \A s \in Shard :
    canServe(r, s) => stateMachines[r][s].kv = effects[s]

\* An operation that was answered with OK took effect exactly once, whatever
\* groups its retries went to: lastOperations moves with the shards.
ExactlyOnce ==
  /\ \A s \in Shard : IsInjective(effects[s])
  /\ \A a \in answered : a[3].op = "Append" =>
       \E k \in DOMAIN effects[a[3].shard] : effects[a[3].shard][k] = <<a[1], a[2]>>

\* Replicas that have applied the same entries are in the same state, although
\* the loop over the inserted shards ends early at a point that map iteration
\* decides, on each replica for itself (applyInsertShards).
ReplicasAgree ==
  \A r, t \in Replica :
    group[r] = group[t] /\ lastApplied[r] = lastApplied[t] =>
      /\ stateMachines[r] = stateMachines[t]
      /\ lastOperations[r] = lastOperations[t]
      /\ currentConfig[r] = currentConfig[t]

\* A configuration is never replaced while a shard is on its way: the check is
\* made by configureAction, long before the entry is applied, and not again.
ConfigurationWaits ==
  [][\A r \in Replica : currentConfig'[r] # currentConfig[r] =>
       \A s \in Shard : stateMachines[r][s].status = "Serving"]_vars

\* Every replica gets to the latest configuration, and every shard has arrived
\* where it has to be and is forgotten where it was: groups that wait for each
\* other's shards never wait for ever (configureAction, migrationAction, gcAction).
MigrationCompletes ==
  []<>(\A r \in Replica : currentConfig[r] = published /\ canPerformNextConfig(r))
=============================================================================
