----------------------------- MODULE ShardCtrler -----------------------------
(***************************************************************************)
(* The shard controller: its clerks, the Command handler, and the          *)
(* configuration state machine that every replica runs over one Raft log.  *)
(*                                                                         *)
(* Raft is the sequence log, the commands it commits, which each replica   *)
(* applies in order (Raft's StateMachineSafety).  A command that Start     *)
(* accepts and Raft then loses is a call that times out.                   *)
(*                                                                         *)
(* Join and Leave iterate over Go maps, so each choice of a group with the *)
(* most or the fewest shards is an arbitrary one among the ties.  Their    *)
(* loops are steps here (the replica holds sc.mu throughout, and no other  *)
(* part of the replica moves); work is the loop's local state.             *)
(***************************************************************************)
EXTENDS Integers, Sequences, FiniteSets, Functions

CONSTANTS Replica,    \* the servers of the controller's Raft group
          Clerk,      \* the clerks of all clients
          NShards,    \* common.go: 10 shards
          Request,    \* the operations the clients ask for
          Nil,        \* no operation in progress
          MaxCommands,\* bound: operations of one clerk
          MaxLog      \* bound: entries of the log

Shard == 0..(NShards - 1)

JoinRequest  == [op : {"Join"}, groups : SUBSET Nat]
LeaveRequest == [op : {"Leave"}, gids : Seq(Nat)]
MoveRequest  == [op : {"Move"}, shard : Shard, gid : Nat]
QueryRequest == [op : {"Query"}, num : Int]

ASSUME RequestAssumption ==
  Request \subseteq JoinRequest \cup LeaveRequest \cup MoveRequest \cup QueryRequest
ASSUME NShardsAssumption == NShards \in Nat \ {0}
ASSUME BoundAssumption == MaxCommands \in Nat /\ MaxLog \in Nat

VARIABLES
  commandId,      \* Clerk.commandId
  request,        \* the operation a clerk is busy with
  call,           \* the log index its outstanding call waits for, 0 when none
  log,            \* the committed commands
  applied,        \* how many of them a replica has applied
  configs,        \* MemoryConfigStateMachine.Configs
  lastOperations, \* lastOperations[clientId].MaxAppliedCommandId, -1 when absent
  work,           \* the Join or Leave whose loop is running
  answered        \* history: operations a server has answered with OK

clerkVars   == <<commandId, request, call>>
replicaVars == <<applied, configs, lastOperations, work>>
vars == <<clerkVars, log, replicaVars, answered>>

\* MakeClerk: every clerk has the same clientId.
clientId(c) == 0
ClientId == {clientId(c) : c \in Clerk}

\* Config{Num, Shards, Groups}, without the groups' server lists.
Config == [num : Nat, shards : [Shard -> Nat], groups : SUBSET Nat]
DefaultConfig ==
  [num |-> 0, shards |-> [s \in Shard |-> 0], groups |-> {}]

Command == [from : Clerk, clientId : ClientId, id : Nat, request : Request]

\* The numbers in S, the smallest first.
inOrder(S) ==
  [k \in 1..Cardinality(S) |-> CHOOSE s \in S : Cardinality({t \in S : t <= s}) = k]

\* A map from gids to lists of shards.
Group2Shards(groups, shards) ==
  [g \in groups \cup {shards[s] : s \in Shard} |->
     inOrder({s \in Shard : shards[s] = g})]

\* GetGIDWithMaximumShards and GetGIDWithMinimumShards: any gid with the most,
\* or the fewest, shards, in the order in which Go iterates over the map.
maximumShards(g2s) ==
  {g \in DOMAIN g2s : \A h \in DOMAIN g2s : Len(g2s[g]) >= Len(g2s[h])}
minimumShards(g2s) ==
  {g \in DOMAIN g2s : \A h \in DOMAIN g2s : Len(g2s[g]) <= Len(g2s[h])}

\* newShards: a shard in no list stays with gid 0.
shardsOf(g2s) ==
  [s \in Shard |->
     LET owners == {g \in DOMAIN g2s : s \in Range(g2s[g])}
     IN  IF owners = {} THEN 0 ELSE CHOOSE g \in owners : TRUE]

\* No loop is running.
Idle == [op |-> "None"]

\* The loop of a Join or a Leave begins: for a Leave, gids are those it still has to
\* take from the map g2s, and orphans the shards that it has found there.
loop(op, groups, gids, g2s) ==
  [op |-> op, groups |-> groups, gids |-> gids, orphans |-> <<>>, g2s |-> g2s]

Init ==
  /\ commandId = [c \in Clerk |-> 0]
  /\ request = [c \in Clerk |-> Nil]
  /\ call = [c \in Clerk |-> 0]
  /\ log = <<>>
  /\ applied = [r \in Replica |-> 0]
  /\ configs = [r \in Replica |-> <<DefaultConfig>>]
  /\ lastOperations = [r \in Replica |-> [i \in ClientId |-> -1]]
  /\ work = [r \in Replica |-> Idle]
  /\ answered = {}

-----------------------------------------------------------------------------
(* The clerk and the Command handler *)

\* Mutant: < for <=.
isDuplicateRequest_Older(r, client, id) == id < lastOperations[r][client]

\* Mutant: off by one the other way.
isDuplicateRequest_Next(r, client, id) == id <= lastOperations[r][client] + 1

isDuplicateRequest(r, client, id) == id <= lastOperations[r][client]

\* A client calls Join, Leave, Move or Query on its clerk.
Begin(c, q) ==
  /\ request[c] = Nil /\ commandId[c] < MaxCommands
  /\ request' = [request EXCEPT ![c] = q]
  /\ UNCHANGED <<commandId, call, log, replicaVars, answered>>

\* The clerk takes the answer for success and goes on to its next operation.
finish(c) ==
  /\ request' = [request EXCEPT ![c] = Nil]
  /\ call' = [call EXCEPT ![c] = 0]
  /\ commandId' = [commandId EXCEPT ![c] = @ + 1]

answer(c) == answered' = answered \cup {<<c, commandId[c], request[c]>>}

\* Command at replica r: the operation was applied by an earlier attempt.
AnswerDuplicate(c, r) ==
  /\ request[c] # Nil /\ call[c] = 0
  /\ request[c].op # "Query"
  /\ isDuplicateRequest(r, clientId(c), commandId[c])
  /\ finish(c) /\ answer(c)
  /\ UNCHANGED <<log, replicaVars>>

\* Command at the leader r: Start appends the command.
Call(c, r) ==
  /\ request[c] # Nil /\ call[c] = 0 /\ Len(log) < MaxLog
  /\ request[c].op = "Query" \/ ~isDuplicateRequest(r, clientId(c), commandId[c])
  /\ log' = Append(log, [from |-> c, clientId |-> clientId(c),
                         id |-> commandId[c], request |-> request[c]])
  /\ call' = [call EXCEPT ![c] = Len(log) + 1]
  /\ UNCHANGED <<commandId, request, replicaVars, answered>>

\* The leader has applied the entry and notifies the handler.
Answer(c) ==
  /\ call[c] # 0 /\ \E r \in Replica : applied[r] >= call[c]
  /\ finish(c) /\ answer(c)
  /\ UNCHANGED <<log, replicaVars>>

\* ErrTimeout or ErrWrongLeader: the clerk tries the next server.
Timeout(c) ==
  /\ call[c] # 0
  /\ call' = [call EXCEPT ![c] = 0]
  /\ UNCHANGED <<commandId, request, log, replicaVars, answered>>

\* The RPC fails: response.Err is still OK, its zero value.
RPCError(c) ==
  /\ request[c] # Nil
  /\ finish(c)
  /\ UNCHANGED <<log, replicaVars, answered>>

-----------------------------------------------------------------------------
(* The applier and the state machine *)

nextCommand(r) == log[applied[r] + 1]
lastConfig(r) == configs[r][Len(configs[r])]

canApply(r) == work[r] = Idle /\ applied[r] < Len(log)

isApplied(r) ==
  isDuplicateRequest(r, nextCommand(r).clientId, nextCommand(r).id)

\* Mutant: the number is off by one.
nextConfig_OffByOne(r, groups, shards) ==
  [num |-> Len(configs[r]) + 1, shards |-> shards, groups |-> groups]

nextConfig(r, groups, shards) ==
  [num |-> Len(configs[r]), shards |-> shards, groups |-> groups]

\* The new configuration and the client's last operation.
install(r, groups, shards) ==
  /\ configs' = [configs EXCEPT ![r] = Append(@, nextConfig(r, groups, shards))]
  /\ work' = [work EXCEPT ![r] = Idle]
  /\ applied' = [applied EXCEPT ![r] = @ + 1]
  /\ lastOperations' = [lastOperations EXCEPT
                          ![r][nextCommand(r).clientId] = nextCommand(r).id]

\* A Query and a duplicate change nothing.
Skip(r) ==
  /\ canApply(r)
  /\ nextCommand(r).request.op = "Query" \/ isApplied(r)
  /\ applied' = [applied EXCEPT ![r] = @ + 1]
  /\ UNCHANGED <<configs, lastOperations, work, log, clerkVars, answered>>

Move(r) ==
  LET q == nextCommand(r).request IN
  /\ canApply(r) /\ ~isApplied(r) /\ q.op = "Move"
  /\ install(r, lastConfig(r).groups,
             [lastConfig(r).shards EXCEPT ![q.shard] = q.gid])
  /\ UNCHANGED <<log, clerkVars, answered>>

StartJoin(r) ==
  LET q == nextCommand(r).request
      groups == lastConfig(r).groups \cup q.groups
  IN
  /\ canApply(r) /\ ~isApplied(r) /\ q.op = "Join"
  /\ work' = [work EXCEPT ![r] =
       loop("Join", groups, <<>>, Group2Shards(groups, lastConfig(r).shards))]
  /\ UNCHANGED <<applied, configs, lastOperations, log, clerkVars, answered>>

\* Mutant: a difference of two shards will do.
isBalanced_Two(g2s, source, target) ==
  \/ source # 0 /\ Len(g2s[source]) - Len(g2s[target]) <= 2
  \/ source = target

\* Mutant: only groups of equal size are balanced.
isBalanced_Equal(g2s, source, target) == source = target

isBalanced(g2s, source, target) ==
  \/ source # 0 /\ Len(g2s[source]) - Len(g2s[target]) <= 1
  \/ source = target

\* Mutant: the shard is given away but not taken from its group.
Rebalance_Keeping(r) ==
  LET w == work[r] IN
  /\ w.op = "Join"
  /\ \E source \in maximumShards(w.g2s), target \in minimumShards(w.g2s) :
       /\ ~isBalanced(w.g2s, source, target)
       /\ work' = [work EXCEPT ![r].g2s[target] = Append(@, Head(w.g2s[source]))]
  /\ UNCHANGED <<applied, configs, lastOperations, log, clerkVars, answered>>

\* One turn of Join's loop: a fullest group gives its first shard to an emptiest.
Rebalance(r) ==
  LET w == work[r] IN
  /\ w.op = "Join"
  /\ \E source \in maximumShards(w.g2s), target \in minimumShards(w.g2s) :
       /\ ~isBalanced(w.g2s, source, target)
       /\ work' = [work EXCEPT ![r].g2s =
            [w.g2s EXCEPT ![target] = Append(@, Head(w.g2s[source])),
                          ![source] = Tail(@)]]
  /\ UNCHANGED <<applied, configs, lastOperations, log, clerkVars, answered>>

FinishJoin(r) ==
  LET w == work[r] IN
  /\ w.op = "Join"
  /\ \E source \in maximumShards(w.g2s), target \in minimumShards(w.g2s) :
       isBalanced(w.g2s, source, target)
  /\ install(r, w.groups, shardsOf(w.g2s))
  /\ UNCHANGED <<log, clerkVars, answered>>

StartLeave(r) ==
  LET q == nextCommand(r).request
      groups == lastConfig(r).groups
  IN
  /\ canApply(r) /\ ~isApplied(r) /\ q.op = "Leave"
  /\ work' = [work EXCEPT ![r] =
       loop("Leave", groups, q.gids, Group2Shards(groups, lastConfig(r).shards))]
  /\ UNCHANGED <<applied, configs, lastOperations, log, clerkVars, answered>>

\* Mutant: the group keeps its place in the map.
TakeGroup_Keeping(r) ==
  LET w   == work[r]
      gid == Head(w.gids)
  IN
  /\ w.op = "Leave" /\ w.gids # <<>>
  /\ work' = [work EXCEPT ![r] =
       [w EXCEPT !.gids = Tail(@), !.groups = @ \ {gid},
                 !.orphans = IF gid \in DOMAIN w.g2s THEN @ \o w.g2s[gid] ELSE @,
                 !.g2s = [g \in DOMAIN @ |-> IF g = gid THEN <<>> ELSE @[g]]]]
  /\ UNCHANGED <<applied, configs, lastOperations, log, clerkVars, answered>>

\* One turn of Leave's first loop: the next group to leave is taken from the map.  A
\* gid's second occurrence finds nothing any more.
TakeGroup(r) ==
  LET w   == work[r]
      gid == Head(w.gids)
  IN
  /\ w.op = "Leave" /\ w.gids # <<>>
  /\ work' = [work EXCEPT ![r] =
       [w EXCEPT !.gids = Tail(@), !.groups = @ \ {gid},
                 !.orphans = IF gid \in DOMAIN w.g2s THEN @ \o w.g2s[gid] ELSE @,
                 !.g2s = [g \in DOMAIN @ \ {gid} |-> @[g]]]]
  /\ UNCHANGED <<applied, configs, lastOperations, log, clerkVars, answered>>

\* One turn of its second loop: an emptiest group takes the next orphan.
AdoptOrphan(r) ==
  LET w == work[r] IN
  /\ w.op = "Leave" /\ w.gids = <<>> /\ w.groups # {} /\ w.orphans # <<>>
  /\ \E target \in minimumShards(w.g2s) :
       work' = [work EXCEPT
                  ![r].g2s[target] = Append(@, Head(w.orphans)),
                  ![r].orphans = Tail(@)]
  /\ UNCHANGED <<applied, configs, lastOperations, log, clerkVars, answered>>

\* Without a group every shard goes back to gid 0.
FinishLeave(r) ==
  LET w == work[r] IN
  /\ w.op = "Leave" /\ w.gids = <<>> /\ (w.groups = {} \/ w.orphans = <<>>)
  /\ install(r, w.groups,
             IF w.groups = {} THEN [s \in Shard |-> 0] ELSE shardsOf(w.g2s))
  /\ UNCHANGED <<log, clerkVars, answered>>

Apply(r) ==
  \/ Skip(r)
  \/ Move(r)
  \/ StartJoin(r) \/ Rebalance(r) \/ FinishJoin(r)
  \/ StartLeave(r) \/ TakeGroup(r) \/ AdoptOrphan(r) \/ FinishLeave(r)

Next ==
  \/ \E c \in Clerk, q \in Request : Begin(c, q)
  \/ \E c \in Clerk, r \in Replica : AnswerDuplicate(c, r) \/ Call(c, r)
  \/ \E c \in Clerk : Answer(c) \/ Timeout(c) \/ RPCError(c)
  \/ \E r \in Replica : Apply(r)

\* The applier goroutine runs on; and Go's random iteration order makes every
\* choice again and again, so a loop that can stop time after time does stop.
Fairness ==
  \A r \in Replica : WF_vars(Apply(r)) /\ SF_vars(FinishJoin(r))

Spec == Init /\ [][Next]_vars /\ Fairness

-----------------------------------------------------------------------------
(* Properties *)

\* Every variable has its type; a configuration's number is its position, which
\* is how Query(num) finds it.
TypeOK ==
  /\ commandId \in [Clerk -> Nat]
  /\ request \in [Clerk -> Request \cup {Nil}]
  /\ call \in [Clerk -> Nat]
  /\ log \in Seq(Command)
  /\ applied \in [Replica -> Nat]
  /\ configs \in [Replica -> Seq(Config)]
  /\ lastOperations \in [Replica -> [ClientId -> Int]]
  /\ \A r \in Replica : \A n \in DOMAIN configs[r] : configs[r][n].num = n - 1
  /\ \A r \in Replica : work[r] # Idle =>
       /\ work[r].op \in {"Join", "Leave"}
       /\ work[r].groups \subseteq DOMAIN work[r].g2s
       /\ work[r].gids \in Seq(Nat)
       /\ work[r].orphans \in Seq(Shard)
       /\ \A g \in DOMAIN work[r].g2s : work[r].g2s[g] \in Seq(Shard)
  /\ answered \subseteq Clerk \X Nat \X Request

changesState(k) == log[k].request.op # "Query"

\* However often a clerk retries, every operation that reaches the log changes
\* the configurations exactly once (isDuplicateRequest, server.go:70 and :122).
EffectOnce ==
  \A r \in Replica :
    Len(configs[r]) - 1 =
      Cardinality({<<log[k].clientId, log[k].id>> :
                     k \in {n \in 1..applied[r] : changesState(n)}})

\* The entry is the first of its client with so high an id: it is not skipped.
takesEffect(k) ==
  \A n \in 1..(k - 1) :
    changesState(n) /\ log[n].clientId = log[k].clientId => log[n].id < log[k].id

\* What a server answers with OK is an operation that has taken effect, for
\* "(clientId, commandId) defines a operation uniquely" (client.go:15).
AnsweredTakesEffect ==
  \A a \in answered :
    a[3].op # "Query" =>
      \E k \in DOMAIN log :
        log[k].from = a[1] /\ log[k].id = a[2] /\ takesEffect(k)

\* Where shard s is listed while a loop runs; the orphans' list counts as -1.
at(list, s) == {k \in DOMAIN list : list[k] = s}
places(w, s) ==
  (UNION {{g} \X at(w.g2s[g], s) : g \in DOMAIN w.g2s}) \cup ({-1} \X at(w.orphans, s))

\* While a loop runs no shard is lost or doubled: a lost one would silently be
\* assigned to gid 0, a doubled one to either of two groups.
ShardsPartitioned ==
  \A r \in Replica : work[r] # Idle =>
    \A s \in Shard : Cardinality(places(work[r], s)) = 1

finishes(r, op) == work[r].op = op /\ work'[r] = Idle
newConfig(r) == configs'[r][Len(configs'[r])]

\* A Join leaves no two groups more than one shard apart, gid 0 included as long
\* as it owns shards, wherever its loop stops (configStateMachine.go:39-49).
JoinBalances ==
  [][\A r \in Replica : finishes(r, "Join") =>
       LET c == newConfig(r)
           size(g) == Cardinality({s \in Shard : c.shards[s] = g})
           owners  == c.groups \cup {c.shards[s] : s \in Shard}
       IN \A g, h \in owners : size(g) - size(h) <= 1]_vars

\* A Leave moves the shards of the leaving groups, all of them and no others,
\* as long as a group is left.
LeaveMovesOrphans ==
  [][\A r \in Replica : finishes(r, "Leave") =>
       LET left == Range(nextCommand(r).request.gids)
           old  == lastConfig(r)
           new  == newConfig(r)
       IN new.groups # {} => \A s \in Shard :
            IF old.shards[s] \in left THEN new.shards[s] \notin left
                                      ELSE new.shards[s] = old.shards[s]]_vars

\* When a group leaves, its shards are given to the groups that remain
\* (README.md:103); but gid 0 may own fewer shards than they.
LeaveServesOrphans ==
  [][\A r \in Replica : finishes(r, "Leave") =>
       LET left == Range(nextCommand(r).request.gids)
           new  == newConfig(r)
       IN new.groups # {} => \A s \in Shard :
            lastConfig(r).shards[s] \in left => new.shards[s] \in new.groups]_vars

\* A replica always gets out of the loops of Join and Leave, although Join may
\* move a shard back and forth while gid 0 and a group tie.
LoopsTerminate == \A r \in Replica : work[r] # Idle ~> work[r] = Idle

\* Replicas that have applied the same commands have the same configurations:
\* "make iteration deterministic" (configStateMachine.go:131).
ReplicasAgree ==
  \A r, t \in Replica :
    applied[r] = applied[t] /\ work[r] = Idle /\ work[t] = Idle
      => configs[r] = configs[t]
=============================================================================
