---------------------------- MODULE ShardKVProofs ----------------------------
(***************************************************************************)
(* Proofs about ShardKV for any groups, replicas, configurations and       *)
(* clerks: replicas that have applied the same entries are in the same     *)
(* state, no configuration overtakes a migration, and every variable keeps *)
(* its type.                                                               *)
(*                                                                         *)
(* The first two come from one fact: all shards that a configuration moves *)
(* between the same two groups move together.  The loops over shards, which stop   *)
(* early at a point that map iteration decides, then handle all of them or *)
(* none, and what a replica does with an entry is determined.  So a group  *)
(* has a history of states, one per entry, and each of its replicas is     *)
(* somewhere in it.                                                        *)
(***************************************************************************)
EXTENDS ShardKV, TLAPS, SequenceTheorems

\* The state of a replica.
state(r) ==
  [shards |-> stateMachines[r], operations |-> lastOperations[r],
   last |-> lastConfig[r], current |-> currentConfig[r]]

serves(shards) == \A s \in Shard : shards[s].status = "Serving"

\* The shards that configuration n moves from g to h.
moving(n, g, h) == {s \in Shard : owner(n - 1, s) = g /\ owner(n, s) = h}

-----------------------------------------------------------------------------
(* What a replica of group g in state st makes of an entry *)

afterOperation(g, st, cmd) ==
  LET s == cmd.request.shard IN
  IF /\ owner(st.current, s) = g /\ st.shards[s].status \in {"Serving", "GCing"}
     /\ cmd.request.op = "Get" \/ ~(cmd.id <= st.operations[cmd.clerk])
  THEN [shards |-> [st.shards EXCEPT ![s].kv = written(cmd, @)],
        operations |-> IF cmd.request.op = "Get" THEN st.operations
                       ELSE [st.operations EXCEPT ![cmd.clerk] = cmd.id],
        last |-> st.last, current |-> st.current]
  ELSE st

statusAfter(g, old, new, status) ==
  IF new = g /\ old \notin {g, 0} THEN "Pulling"
  ELSE IF old = g /\ new \notin {g, 0} THEN "BePulling" ELSE status

afterConfiguration(g, st, n) ==
  IF n = st.current + 1
  THEN [shards |-> [s \in Shard |-> [st.shards[s] EXCEPT !.status =
                      statusAfter(g, owner(st.current, s), owner(n, s), @)]],
        operations |-> st.operations, last |-> st.current, current |-> n]
  ELSE st

afterInsertion(st, cmd) ==
  IF cmd.configNum = st.current
  THEN [shards |-> [s \in Shard |->
                      IF s \in cmd.shardIds /\ st.shards[s].status = "Pulling"
                      THEN inserted(st.shards[s], cmd.shards[s]) ELSE st.shards[s]],
        operations |-> mergedOperations(st.operations, cmd.lastOperations),
        last |-> st.last, current |-> st.current]
  ELSE st

afterDeletion(st, cmd) ==
  IF cmd.configNum = st.current
  THEN [shards |-> [s \in Shard |->
                      IF s \in cmd.shardIds /\ st.shards[s].status \in {"GCing", "BePulling"}
                      THEN deleted(st.shards[s]) ELSE st.shards[s]],
        operations |-> st.operations, last |-> st.last, current |-> st.current]
  ELSE st

after(g, st, cmd) ==
  IF cmd.op = "Operation" THEN afterOperation(g, st, cmd)
  ELSE IF cmd.op = "Configuration" THEN afterConfiguration(g, st, cmd.num)
  ELSE IF cmd.op = "InsertShards" THEN afterInsertion(st, cmd)
  ELSE afterDeletion(st, cmd)

-----------------------------------------------------------------------------
(* The inductive invariant *)

\* Shards with the same former and present owner have the same status.
MoveTogether(st) ==
  st.current # 0 => \A s, u \in Shard :
    /\ owner(st.current - 1, s) = owner(st.current - 1, u)
    /\ owner(st.current, s) = owner(st.current, u)
    => st.shards[s].status = st.shards[u].status

\* A shard is fetched by its present owner and given away by its former one.
isState(g, st) ==
  /\ st = [shards |-> st.shards, operations |-> st.operations,
           last |-> st.last, current |-> st.current]
  /\ st.current \in Nat
  /\ st.current # 0 => st.last = st.current - 1
  /\ st.current = 0 => serves(st.shards)
  /\ DOMAIN st.shards = Shard
  /\ \A s \in Shard :
       /\ DOMAIN st.shards[s] = {"kv", "status"}
       /\ st.shards[s].status \in {"Pulling", "GCing"} => owner(st.current, s) = g
  /\ MoveTogether(st)

\* Insertions and deletions are of all shards that move between two groups.
isMove(x) == \E g, h : x.shardIds = moving(x.configNum, g, h)

isCommand(cmd) ==
  \/ cmd.op = "Operation"
  \/ cmd.op = "Configuration"
  \/ cmd.op \in {"InsertShards", "DeleteShards"} /\ isMove(cmd)

isTask(t) ==
  /\ t.group \in Group
  /\ \/ t.type = "Execute" /\ isCommand(t.command) /\ t.command.op # "Operation"
     \/ t.type \in {"GetShardsData", "DeleteShardsData", "AwaitDeletion"} /\ isMove(t)

Types ==
  /\ DOMAIN log = Group /\ \A g \in Group : \E S : log[g] \in Seq(S)
  /\ DOMAIN lastApplied = Replica /\ DOMAIN stateMachines = Replica
  /\ DOMAIN lastOperations = Replica /\ DOMAIN lastConfig = Replica
  /\ DOMAIN currentConfig = Replica

Commands ==
  /\ \A g \in Group : \A k \in 1..Len(log[g]) : isCommand(log[g][k])
  /\ \A t \in tasks : isTask(t)

\* Before the k-th entry a state was reached that waits for configuration num.
isReached(h, k, num) == \E j \in 0..(k - 1) : h[j].current + 1 = num /\ serves(h[j].shards)

\* h is the history of group g up to its m-th entry.
History(g, h, m) ==
  /\ m <= Len(log[g])
  /\ \A r \in Replica :
       group[r] = g => lastApplied[r] \in 0..m /\ state(r) = h[lastApplied[r]]
  /\ \A k \in 0..m : isState(g, h[k])
  /\ \A k \in 1..m : h[k] = after(g, h[k - 1], log[g][k])
  /\ \A j, k \in 0..m : j <= k =>
       /\ h[j].current <= h[k].current
       /\ h[j].current = h[k].current /\ serves(h[j].shards) => serves(h[k].shards)
  /\ \A k \in 1..Len(log[g]) :
       log[g][k].op = "Configuration" =>
         \E n \in 1..k : n <= m + 1 /\ isReached(h, n, log[g][k].num)
  /\ \A t \in tasks :
       t.type = "Execute" /\ t.group = g /\ t.command.op = "Configuration" =>
         isReached(h, m + 1, t.command.num)

Inv == Types /\ Commands /\ \A g \in Group : \E h : \E m \in Nat : History(g, h, m)

-----------------------------------------------------------------------------

LEMMA GroupFacts == Group \subseteq Nat \ {0} /\ \A r \in Replica : group[r] \in Group
  BY GroupAssumption

LEMMA InitInv == Init => Inv
<1>. SUFFICES ASSUME Init PROVE Inv
  OBVIOUS
<1>1. /\ log = [g \in Group |-> <<>>] /\ tasks = {}
      /\ \A r \in Replica :
           /\ lastApplied[r] = 0 /\ lastConfig[r] = 0 /\ currentConfig[r] = 0
           /\ stateMachines[r] = [s \in Shard |-> NewShard]
           /\ lastOperations[r] = [c \in Clerk |-> -1]
  BY DEF Init
<1>2. \A g \in Group : log[g] = <<>> /\ Len(log[g]) = 0 /\ \E S : log[g] \in Seq(S)
  BY <1>1, EmptySeq
<1>3. Types
  BY <1>1, <1>2 DEF Init, Types
<1>4. Commands
  BY <1>1, <1>2 DEF Commands
<1>5. ASSUME NEW g \in Group PROVE \E h : \E m \in Nat : History(g, h, m)
  <2>. DEFINE st == [shards |-> [s \in Shard |-> NewShard],
                     operations |-> [c \in Clerk |-> -1], last |-> 0, current |-> 0]
              h == [k \in {0} |-> st]
  <2>1. h[0] = st /\ 0..0 = {0} /\ \A k \in 1..0 : FALSE
    OBVIOUS
  <2>2. isState(g, st)
    <3>1. \A s \in Shard : /\ st.shards[s] = NewShard /\ st.shards[s].status = "Serving"
                           /\ DOMAIN st.shards[s] = {"kv", "status"}
      BY DEF NewShard
    <3>2. st.current = 0 /\ serves(st.shards) /\ MoveTogether(st)
      BY <3>1 DEF serves, MoveTogether
    <3>. QED
      BY <3>1, <3>2 DEF isState
  <2>3. \A r \in Replica : state(r) = st
    BY <1>1 DEF state
  <2>. HIDE DEF st, h
  <2>4. History(g, h, 0)
    <3>1. \A j, k \in 0..0 : j = 0 /\ k = 0
      BY <2>1
    <3>2. h[0].current <= h[0].current
      BY <2>1, <2>2 DEF isState
    <3>3. \A r \in Replica : lastApplied[r] \in 0..0 /\ state(r) = h[lastApplied[r]]
      BY <1>1, <2>1, <2>3
    <3>4. Len(log[g]) = 0 /\ tasks = {}
      BY <1>1, <1>2
    <3>. QED
      BY <2>1, <2>2, <3>1, <3>2, <3>3, <3>4 DEF History
  <2>. QED
    BY <2>4
<1>. QED
  BY <1>3, <1>4, <1>5 DEF Inv

-----------------------------------------------------------------------------
(* The loops over shards *)

\* Of the shards of one move all or none have a status that is handled.
LEMMA AllOrNone ==
  ASSUME NEW g, NEW st, isState(g, st), NEW x, isMove(x), x.configNum = st.current,
         NEW S, "Serving" \notin S
  PROVE  LET ready == {s \in x.shardIds : st.shards[s].status \in S}
         IN ready = x.shardIds \/ ready = {}
<1>1. PICK a, b : x.shardIds = moving(st.current, a, b)
  BY DEF isMove
<1>2. CASE st.current = 0
  BY <1>1, <1>2 DEF isState, serves, moving
<1>3. CASE st.current # 0
  <2>1. \A s, u \in x.shardIds : st.shards[s].status = st.shards[u].status
    BY <1>1, <1>3 DEF isState, MoveTogether, moving
  <2>. QED
    BY <2>1
<1>. QED
  BY <1>2, <1>3

\* So a loop that may stop early handles the ones that are ready.
LEMMA HandlesReady ==
  ASSUME NEW r \in Replica, isState(group[r], state(r)), NEW x, isMove(x),
         x.configNum = currentConfig[r], NEW S, "Serving" \notin S,
         NEW T \in handled(r, x.shardIds, S)
  PROVE  T = {s \in x.shardIds : stateMachines[r][s].status \in S}
<1>. DEFINE ready == {s \in x.shardIds : stateMachines[r][s].status \in S}
<1>1. state(r).shards = stateMachines[r] /\ state(r).current = currentConfig[r]
  BY DEF state
<1>2. ready = x.shardIds \/ ready = {}
  <2>1. \A s : state(r).shards[s].status = stateMachines[r][s].status
    BY <1>1
  <2>2. x.configNum = state(r).current
    BY <1>1
  <2>3. LET w == {s \in x.shardIds : state(r).shards[s].status \in S}
        IN w = x.shardIds \/ w = {}
    BY <2>2, AllOrNone
  <2>. QED
    BY <2>1, <2>3
<1>3. T \in IF ready = x.shardIds THEN {ready} ELSE SUBSET ready
  BY DEF handled
<1>. QED
  BY <1>2, <1>3

-----------------------------------------------------------------------------
(* One entry *)

\* What one entry makes of a state is a state, which is not of an earlier
\* configuration and, if that is the same, serves what it served.
progresses(g, st, u) ==
  /\ isState(g, u)
  /\ st.current <= u.current
  /\ u.current = st.current /\ serves(st.shards) => serves(u.shards)

LEMMA OperationProgress ==
  ASSUME NEW g, NEW st, isState(g, st), NEW cmd
  PROVE  progresses(g, st, afterOperation(g, st, cmd))
<1>. DEFINE x == cmd.request.shard
            kv == written(cmd, st.shards[x].kv)
            u == afterOperation(g, st, cmd)
<1>0. st.current <= st.current
  BY DEF isState
<1>1. CASE u = st
  BY <1>0, <1>1 DEF progresses
<1>2. CASE u # st
  <2>1. u = [shards |-> [st.shards EXCEPT ![x].kv = kv],
             operations |-> IF cmd.request.op = "Get" THEN st.operations
                            ELSE [st.operations EXCEPT ![cmd.clerk] = cmd.id],
             last |-> st.last, current |-> st.current]
    BY <1>2 DEF afterOperation
  <2>. HIDE DEF kv, x, u
  <2>2. /\ DOMAIN u.shards = Shard
        /\ \A s \in Shard : /\ DOMAIN u.shards[s] = {"kv", "status"}
                            /\ u.shards[s].status = st.shards[s].status
    <3>1. DOMAIN st.shards = Shard /\ \A s \in Shard : DOMAIN st.shards[s] = {"kv", "status"}
      BY DEF isState
    <3>. QED
      BY <2>1, <3>1
  <2>3. u.last = st.last /\ u.current = st.current
    BY <2>1
  <2>4. u = [shards |-> u.shards, operations |-> u.operations, last |-> u.last,
             current |-> u.current]
    BY <2>1
  <2>5. (serves(st.shards) <=> serves(u.shards)) /\ MoveTogether(u)
    BY <2>2, <2>3 DEF serves, MoveTogether, isState
  <2>6. isState(g, u)
    BY <2>2, <2>3, <2>4, <2>5 DEF isState
  <2>. QED
    BY <1>0, <2>3, <2>5, <2>6 DEF progresses, u
<1>. QED
  BY <1>1, <1>2

LEMMA ConfigurationProgress ==
  ASSUME NEW g, g # 0, NEW st, isState(g, st), NEW n, n = st.current + 1 => serves(st.shards)
  PROVE  progresses(g, st, afterConfiguration(g, st, n))
<1>. DEFINE u == afterConfiguration(g, st, n)
<1>0. st.current \in Nat /\ st.current <= st.current
  BY DEF isState
<1>1. CASE n # st.current + 1
  BY <1>0, <1>1 DEF progresses, afterConfiguration
<1>2. CASE n = st.current + 1
  <2>1. u = [shards |-> [s \in Shard |-> [st.shards[s] EXCEPT !.status =
                           statusAfter(g, owner(st.current, s), owner(n, s), @)]],
             operations |-> st.operations, last |-> st.current, current |-> n]
    BY <1>2 DEF afterConfiguration
  <2>. HIDE DEF u
  <2>2. /\ DOMAIN u.shards = Shard
        /\ \A s \in Shard :
             /\ DOMAIN u.shards[s] = {"kv", "status"}
             /\ u.shards[s].status =
                  statusAfter(g, owner(st.current, s), owner(n, s), "Serving")
    <3>1. \A s \in Shard : DOMAIN st.shards[s] = {"kv", "status"} /\ st.shards[s].status = "Serving"
      BY <1>2 DEF isState, serves
    <3>. QED
      BY <2>1, <3>1
  <2>3. /\ u.last = st.current /\ u.current = n /\ n \in Nat /\ n # 0 /\ n - 1 = st.current
        /\ st.current < n /\ st.current <= n
    BY <1>0, <1>2, <2>1, SMT
  <2>4. u = [shards |-> u.shards, operations |-> u.operations, last |-> u.last,
             current |-> u.current]
    BY <2>1
  <2>5. MoveTogether(u)
    BY <2>2, <2>3 DEF MoveTogether
  <2>6. \A s \in Shard : u.shards[s].status \in {"Pulling", "GCing"} => owner(n, s) = g
    BY <2>2 DEF statusAfter
  <2>7. isState(g, u)
    BY <2>2, <2>3, <2>4, <2>5, <2>6 DEF isState
  <2>. QED
    BY <2>3, <2>7 DEF progresses, u
<1>. QED
  BY <1>1, <1>2

\* Insertion and deletion: the ready shards of one move get the status v.
LEMMA MoveProgress ==
  ASSUME NEW g, NEW st, isState(g, st), NEW x, isMove(x), x.configNum = st.current,
         NEW S, "Serving" \notin S, NEW v \in {"GCing", "Serving"},
         v = "GCing" => S = {"Pulling"},
         NEW u,
         u = [shards |-> u.shards, operations |-> u.operations, last |-> u.last,
              current |-> u.current],
         u.last = st.last, u.current = st.current, DOMAIN u.shards = Shard,
         \A s \in Shard :
           /\ DOMAIN u.shards[s] = {"kv", "status"}
           /\ u.shards[s].status = IF s \in x.shardIds /\ st.shards[s].status \in S
                                   THEN v ELSE st.shards[s].status
  PROVE  progresses(g, st, u)
<1>1. PICK a, b : x.shardIds = moving(st.current, a, b)
  BY DEF isMove
<1>2. serves(st.shards) => serves(u.shards)
  BY DEF serves
<1>3. st.current <= st.current
  BY DEF isState
<1>4. MoveTogether(u)
  BY <1>1 DEF isState, MoveTogether, moving
<1>5. \A s \in Shard : u.shards[s].status \in {"Pulling", "GCing"} => owner(st.current, s) = g
  BY DEF isState
<1>6. isState(g, u)
  BY <1>2, <1>4, <1>5 DEF isState
<1>. QED
  BY <1>2, <1>3, <1>6 DEF progresses

LEMMA InsertionProgress ==
  ASSUME NEW g, NEW st, isState(g, st), NEW cmd, isMove(cmd)
  PROVE  progresses(g, st, afterInsertion(st, cmd))
<1>. DEFINE u == afterInsertion(st, cmd)
<1>1. CASE cmd.configNum # st.current
  BY <1>1 DEF progresses, afterInsertion, isState
<1>2. CASE cmd.configNum = st.current
  <2>1. u = [shards |-> [s \in Shard |->
                           IF s \in cmd.shardIds /\ st.shards[s].status = "Pulling"
                           THEN inserted(st.shards[s], cmd.shards[s]) ELSE st.shards[s]],
             operations |-> mergedOperations(st.operations, cmd.lastOperations),
             last |-> st.last, current |-> st.current]
    BY <1>2 DEF afterInsertion
  <2>. HIDE DEF u
  <2>2. /\ DOMAIN u.shards = Shard
        /\ \A s \in Shard :
             /\ DOMAIN u.shards[s] = {"kv", "status"}
             /\ u.shards[s].status = IF s \in cmd.shardIds /\ st.shards[s].status \in {"Pulling"}
                                     THEN "GCing" ELSE st.shards[s].status
    <3>1. \A s \in Shard : DOMAIN st.shards[s] = {"kv", "status"}
      BY DEF isState
    <3>. QED
      BY <2>1, <3>1 DEF inserted
  <2>3. /\ u = [shards |-> u.shards, operations |-> u.operations, last |-> u.last,
                current |-> u.current]
        /\ u.last = st.last /\ u.current = st.current
    BY <2>1
  <2>4. progresses(g, st, u)
    BY <1>2, <2>2, <2>3, MoveProgress
  <2>. QED
    BY <2>4 DEF u
<1>. QED
  BY <1>1, <1>2

LEMMA DeletionProgress ==
  ASSUME NEW g, NEW st, isState(g, st), NEW cmd, isMove(cmd)
  PROVE  progresses(g, st, afterDeletion(st, cmd))
<1>. DEFINE u == afterDeletion(st, cmd)
<1>1. CASE cmd.configNum # st.current
  BY <1>1 DEF progresses, afterDeletion, isState
<1>2. CASE cmd.configNum = st.current
  <2>1. u = [shards |-> [s \in Shard |->
                IF s \in cmd.shardIds /\ st.shards[s].status \in {"GCing", "BePulling"}
                THEN deleted(st.shards[s]) ELSE st.shards[s]],
             operations |-> st.operations, last |-> st.last, current |-> st.current]
    BY <1>2 DEF afterDeletion
  <2>. HIDE DEF u
  <2>2. /\ DOMAIN u.shards = Shard
        /\ \A s \in Shard :
             /\ DOMAIN u.shards[s] = {"kv", "status"}
             /\ u.shards[s].status =
                  IF s \in cmd.shardIds /\ st.shards[s].status \in {"GCing", "BePulling"}
                  THEN "Serving" ELSE st.shards[s].status
    <3>1. \A s \in Shard : DOMAIN st.shards[s] = {"kv", "status"}
      BY DEF isState
    <3>2. \A s \in Shard : DOMAIN deleted(st.shards[s]) = {"kv", "status"}
                           /\ deleted(st.shards[s]).status = "Serving"
      BY <3>1 DEF deleted, NewShard
    <3>. QED
      BY <2>1, <3>1, <3>2
  <2>3. /\ u = [shards |-> u.shards, operations |-> u.operations, last |-> u.last,
                current |-> u.current]
        /\ u.last = st.last /\ u.current = st.current
    BY <2>1
  <2>4. progresses(g, st, u)
    <3>. DEFINE S == {"GCing", "BePulling"}
                v == "Serving"
    <3>1. "Serving" \notin S /\ v \in {"GCing", "Serving"} /\ v # "GCing"
      OBVIOUS
    <3>2. \A s \in Shard :
            /\ DOMAIN u.shards[s] = {"kv", "status"}
            /\ u.shards[s].status = IF s \in cmd.shardIds /\ st.shards[s].status \in S
                                    THEN v ELSE st.shards[s].status
      BY <2>2
    <3>3. DOMAIN u.shards = Shard
      BY <2>2
    <3>. HIDE DEF S, v
    <3>. QED
      BY <1>2, <2>3, <3>1, <3>2, <3>3, MoveProgress
  <2>. QED
    BY <2>4 DEF u
<1>. QED
  BY <1>1, <1>2

LEMMA AfterProgress ==
  ASSUME NEW g \in Group, NEW st, isState(g, st), NEW cmd, isCommand(cmd),
         cmd.op = "Configuration" /\ cmd.num = st.current + 1 => serves(st.shards)
  PROVE  progresses(g, st, after(g, st, cmd))
<1>1. g # 0
  BY GroupFacts
<1>2. CASE cmd.op = "Operation"
  BY <1>2, OperationProgress DEF after
<1>3. CASE cmd.op = "Configuration"
  BY <1>1, <1>3, ConfigurationProgress DEF after
<1>4. CASE cmd.op = "InsertShards" /\ isMove(cmd)
  BY <1>4, InsertionProgress DEF after
<1>5. CASE cmd.op = "DeleteShards" /\ isMove(cmd)
  BY <1>5, DeletionProgress DEF after
<1>. QED
  BY <1>2, <1>3, <1>4, <1>5 DEF isCommand

-----------------------------------------------------------------------------
(* The applier *)

\* A step that changes the state of replica r alone, to st.
LEMMA StateAfter ==
  ASSUME NEW r \in Replica, NEW st,
         st = [shards |-> stateMachines'[r], operations |-> lastOperations'[r],
               last |-> lastConfig'[r], current |-> currentConfig'[r]],
         \A t \in Replica : t # r =>
           /\ stateMachines'[t] = stateMachines[t] /\ lastOperations'[t] = lastOperations[t]
           /\ lastConfig'[t] = lastConfig[t] /\ currentConfig'[t] = currentConfig[t]
  PROVE  state(r)' = st /\ \A t \in Replica : t # r => state(t)' = state(t)
  BY DEF state

\* What a replica does with an entry is determined.
applied(r) ==
  /\ lastApplied[r] < Len(log[group[r]])
  /\ log' = log /\ tasks' = tasks /\ Types'
  /\ lastApplied' = [lastApplied EXCEPT ![r] = @ + 1]
  /\ state(r)' = after(group[r], state(r), next(r))
  /\ \A t \in Replica : t # r => state(t)' = state(t)

LEMMA OperationApplied ==
  ASSUME Types, NEW r \in Replica, isState(group[r], state(r)),
         RefuseOperation(r) \/ SkipDuplicate(r) \/ ApplyOperation(r)
  PROVE  applied(r)
<1>. DEFINE cmd == next(r)
            s == cmd.request.shard
            served == owner(currentConfig[r], s) = group[r]
                        /\ stateMachines[r][s].status \in {"Serving", "GCing"}
            new == cmd.request.op = "Get" \/ ~(cmd.id <= lastOperations[r][cmd.clerk])
            kv == written(cmd, stateMachines[r][s].kv)
<1>1. /\ cmd.op = "Operation" /\ lastApplied[r] < Len(log[group[r]])
      /\ log' = log /\ tasks' = tasks
      /\ lastApplied' = [lastApplied EXCEPT ![r] = @ + 1]
      /\ lastConfig' = lastConfig /\ currentConfig' = currentConfig
  BY DEF RefuseOperation, SkipDuplicate, ApplyOperation, applies
<1>2. state(r) = [shards |-> stateMachines[r], operations |-> lastOperations[r],
                  last |-> lastConfig[r], current |-> currentConfig[r]]
  BY DEF state
<1>3. after(group[r], state(r), cmd) =
        IF served /\ new
        THEN [shards |-> [stateMachines[r] EXCEPT ![s].kv = kv],
              operations |-> IF cmd.request.op = "Get" THEN lastOperations[r]
                             ELSE [lastOperations[r] EXCEPT ![cmd.clerk] = cmd.id],
              last |-> lastConfig[r], current |-> currentConfig[r]]
        ELSE state(r)
  BY <1>1, <1>2 DEF after, afterOperation
<1>5. DOMAIN lastApplied' = Replica
  BY <1>1 DEF Types
<1>6. CASE RefuseOperation(r) \/ SkipDuplicate(r)
  <2>1. stateMachines' = stateMachines /\ lastOperations' = lastOperations
    BY <1>6 DEF RefuseOperation, SkipDuplicate
  <2>2. ~(served /\ new)
    BY <1>6 DEF RefuseOperation, SkipDuplicate, canServe, isDuplicateRequest
  <2>3. \A t \in Replica : state(t)' = state(t)
    BY <1>1, <2>1 DEF state
  <2>. QED
    BY <1>1, <1>3, <1>5, <2>1, <2>2, <2>3 DEF applied, Types
<1>7. CASE ApplyOperation(r)
  <2>1. served /\ new
    BY <1>7, Zenon DEF ApplyOperation, canServe, isDuplicateRequest
  <2>2. /\ stateMachines' = [stateMachines EXCEPT ![r][s].kv = kv]
        /\ lastOperations' = IF cmd.request.op = "Get" THEN lastOperations
                             ELSE [lastOperations EXCEPT ![r][cmd.clerk] = cmd.id]
    BY <1>7 DEF ApplyOperation
  <2>. HIDE DEF kv, s, cmd
  <2>3. /\ stateMachines'[r] = [stateMachines[r] EXCEPT ![s].kv = kv]
        /\ \A t \in Replica : t # r => stateMachines'[t] = stateMachines[t]
        /\ DOMAIN stateMachines' = Replica
    BY <2>2 DEF Types
  <2>4. /\ lastOperations'[r] = IF cmd.request.op = "Get" THEN lastOperations[r]
                                ELSE [lastOperations[r] EXCEPT ![cmd.clerk] = cmd.id]
        /\ \A t \in Replica : t # r => lastOperations'[t] = lastOperations[t]
        /\ DOMAIN lastOperations' = Replica
    BY <2>2 DEF Types
  <2>5. after(group[r], state(r), cmd) =
          [shards |-> stateMachines'[r], operations |-> lastOperations'[r],
           last |-> lastConfig'[r], current |-> currentConfig'[r]]
    BY <1>1, <1>3, <2>1, <2>3, <2>4
  <2>6. /\ state(r)' = after(group[r], state(r), cmd)
        /\ \A t \in Replica : t # r => state(t)' = state(t)
    BY <1>1, <2>3, <2>4, <2>5, StateAfter
  <2>. QED
    BY <1>1, <1>5, <2>3, <2>4, <2>6 DEF applied, Types, cmd
<1>. QED
  BY <1>6, <1>7

LEMMA ConfigurationApplied ==
  ASSUME Types, NEW r \in Replica, isState(group[r], state(r)), ApplyConfiguration(r)
  PROVE  applied(r)
<1>. DEFINE num == next(r).num
            shards == [s \in Shard |-> [stateMachines[r][s] EXCEPT !.status =
                         statusAfter(group[r], owner(currentConfig[r], s), owner(num, s), @)]]
<1>1. /\ next(r).op = "Configuration" /\ lastApplied[r] < Len(log[group[r]])
      /\ log' = log /\ tasks' = tasks
      /\ lastApplied' = [lastApplied EXCEPT ![r] = @ + 1]
      /\ lastOperations' = lastOperations
  BY DEF ApplyConfiguration, applies
<1>2. state(r) = [shards |-> stateMachines[r], operations |-> lastOperations[r],
                  last |-> lastConfig[r], current |-> currentConfig[r]]
  BY DEF state
<1>3. after(group[r], state(r), next(r)) =
        IF num = currentConfig[r] + 1
        THEN [shards |-> shards, operations |-> lastOperations[r],
              last |-> currentConfig[r], current |-> num]
        ELSE state(r)
  BY <1>1, <1>2 DEF after, afterConfiguration
<1>4. DOMAIN lastApplied' = Replica
  BY <1>1 DEF Types
<1>5. CASE num # currentConfig[r] + 1
  <2>1. UNCHANGED <<stateMachines, lastConfig, currentConfig>>
    BY <1>5 DEF ApplyConfiguration
  <2>2. \A t \in Replica : state(t)' = state(t)
    BY <1>1, <2>1 DEF state
  <2>. QED
    BY <1>1, <1>3, <1>4, <1>5, <2>1, <2>2 DEF applied, Types
<1>6. CASE num = currentConfig[r] + 1
  <2>1. /\ stateMachines' = [stateMachines EXCEPT ![r] = [s \in Shard |->
             [@[s] EXCEPT !.status =
                nextStatus(r, s, owner(currentConfig[r], s), owner(num, s))]]]
        /\ lastConfig' = [lastConfig EXCEPT ![r] = currentConfig[r]]
        /\ currentConfig' = [currentConfig EXCEPT ![r] = num]
    BY <1>6 DEF ApplyConfiguration
  <2>2. \A s, old, new : nextStatus(r, s, old, new) =
                           statusAfter(group[r], old, new, stateMachines[r][s].status)
    BY DEF nextStatus, statusAfter
  <2>3. /\ stateMachines'[r] = [s \in Shard |->
             [stateMachines[r][s] EXCEPT !.status =
                nextStatus(r, s, owner(currentConfig[r], s), owner(num, s))]]
        /\ \A t \in Replica : t # r => stateMachines'[t] = stateMachines[t]
        /\ DOMAIN stateMachines' = Replica
    BY <2>1 DEF Types
  <2>4. stateMachines'[r] = shards
    BY <2>2, <2>3
  <2>5. /\ lastConfig'[r] = currentConfig[r] /\ currentConfig'[r] = num
        /\ \A t \in Replica : t # r =>
             lastConfig'[t] = lastConfig[t] /\ currentConfig'[t] = currentConfig[t]
        /\ DOMAIN lastConfig' = Replica /\ DOMAIN currentConfig' = Replica
    BY <2>1 DEF Types
  <2>6. /\ state(r)' = after(group[r], state(r), next(r))
        /\ \A t \in Replica : t # r => state(t)' = state(t)
    <3>. HIDE DEF shards, num
    <3>1. after(group[r], state(r), next(r)) =
            [shards |-> stateMachines'[r], operations |-> lastOperations'[r],
             last |-> lastConfig'[r], current |-> currentConfig'[r]]
      BY <1>1, <1>3, <1>6, <2>4, <2>5
    <3>. QED
      BY <1>1, <2>3, <2>5, <3>1, StateAfter
  <2>. QED
    BY <1>1, <1>4, <2>3, <2>5, <2>6 DEF applied, Types
<1>. QED
  BY <1>5, <1>6

LEMMA InsertionApplied ==
  ASSUME Types, NEW r \in Replica, isState(group[r], state(r)), isCommand(next(r)),
         ApplyInsertShards(r)
  PROVE  applied(r)
<1>. DEFINE cmd == next(r)
            shards == [s \in Shard |->
                         IF s \in cmd.shardIds /\ stateMachines[r][s].status = "Pulling"
                         THEN inserted(stateMachines[r][s], cmd.shards[s])
                         ELSE stateMachines[r][s]]
<1>1. /\ cmd.op = "InsertShards" /\ lastApplied[r] < Len(log[group[r]])
      /\ log' = log /\ tasks' = tasks
      /\ lastApplied' = [lastApplied EXCEPT ![r] = @ + 1]
      /\ lastConfig' = lastConfig /\ currentConfig' = currentConfig
  BY DEF ApplyInsertShards, applies
<1>2. state(r) = [shards |-> stateMachines[r], operations |-> lastOperations[r],
                  last |-> lastConfig[r], current |-> currentConfig[r]]
  BY DEF state
<1>3. after(group[r], state(r), cmd) =
        IF cmd.configNum = currentConfig[r]
        THEN [shards |-> shards,
              operations |-> mergedOperations(lastOperations[r], cmd.lastOperations),
              last |-> lastConfig[r], current |-> currentConfig[r]]
        ELSE state(r)
  BY <1>1, <1>2 DEF after, afterInsertion
<1>4. DOMAIN lastApplied' = Replica
  BY <1>1 DEF Types
<1>5. CASE cmd.configNum # currentConfig[r]
  <2>1. UNCHANGED <<stateMachines, lastOperations>>
    BY <1>5 DEF ApplyInsertShards, isCurrent
  <2>2. \A t \in Replica : state(t)' = state(t)
    BY <1>1, <2>1 DEF state
  <2>. QED
    BY <1>1, <1>3, <1>4, <1>5, <2>1, <2>2 DEF applied, Types
<1>6. CASE cmd.configNum = currentConfig[r]
  <2>1. PICK T \in handled(r, cmd.shardIds, {"Pulling"}) :
          stateMachines' = [stateMachines EXCEPT ![r] = [s \in Shard |->
            IF s \in T THEN inserted(@[s], cmd.shards[s]) ELSE @[s]]]
    BY <1>6 DEF ApplyInsertShards, isCurrent
  <2>2. lastOperations' = [lastOperations EXCEPT ![r] =
                             mergedOperations(@, cmd.lastOperations)]
    BY <1>6 DEF ApplyInsertShards, isCurrent
  <2>3. T = {s \in cmd.shardIds : stateMachines[r][s].status \in {"Pulling"}}
    <3>1. isMove(cmd) /\ "Serving" \notin {"Pulling"}
      BY <1>1 DEF isCommand
    <3>. QED
      BY <1>6, <3>1, HandlesReady
  <2>4. /\ stateMachines'[r] = [s \in Shard |->
             IF s \in T THEN inserted(stateMachines[r][s], cmd.shards[s])
             ELSE stateMachines[r][s]]
        /\ \A t \in Replica : t # r => stateMachines'[t] = stateMachines[t]
        /\ DOMAIN stateMachines' = Replica
    BY <2>1 DEF Types
  <2>5. stateMachines'[r] = shards
    BY <2>3, <2>4
  <2>6. /\ lastOperations'[r] = mergedOperations(lastOperations[r], cmd.lastOperations)
        /\ \A t \in Replica : t # r => lastOperations'[t] = lastOperations[t]
        /\ DOMAIN lastOperations' = Replica
    BY <2>2 DEF Types
  <2>7. /\ state(r)' = after(group[r], state(r), cmd)
        /\ \A t \in Replica : t # r => state(t)' = state(t)
    <3>. HIDE DEF shards, cmd
    <3>1. after(group[r], state(r), cmd) =
            [shards |-> stateMachines'[r], operations |-> lastOperations'[r],
             last |-> lastConfig'[r], current |-> currentConfig'[r]]
      BY <1>1, <1>3, <1>6, <2>5, <2>6
    <3>. QED
      BY <1>1, <2>4, <2>6, <3>1, StateAfter
  <2>. QED
    BY <1>1, <1>4, <2>4, <2>6, <2>7 DEF applied, Types
<1>. QED
  BY <1>5, <1>6

LEMMA DeletionApplied ==
  ASSUME Types, NEW r \in Replica, isState(group[r], state(r)), isCommand(next(r)),
         ApplyDeleteShards(r)
  PROVE  applied(r)
<1>. DEFINE cmd == next(r)
            shards == [s \in Shard |->
                         IF s \in cmd.shardIds
                            /\ stateMachines[r][s].status \in {"GCing", "BePulling"}
                         THEN deleted(stateMachines[r][s]) ELSE stateMachines[r][s]]
<1>1. /\ cmd.op = "DeleteShards" /\ lastApplied[r] < Len(log[group[r]])
      /\ log' = log /\ tasks' = tasks
      /\ lastApplied' = [lastApplied EXCEPT ![r] = @ + 1]
      /\ lastConfig' = lastConfig /\ currentConfig' = currentConfig
      /\ lastOperations' = lastOperations
  BY DEF ApplyDeleteShards, applies
<1>2. state(r) = [shards |-> stateMachines[r], operations |-> lastOperations[r],
                  last |-> lastConfig[r], current |-> currentConfig[r]]
  BY DEF state
<1>3. after(group[r], state(r), cmd) =
        IF cmd.configNum = currentConfig[r]
        THEN [shards |-> shards, operations |-> lastOperations[r],
              last |-> lastConfig[r], current |-> currentConfig[r]]
        ELSE state(r)
  BY <1>1, <1>2 DEF after, afterDeletion
<1>4. DOMAIN lastApplied' = Replica
  BY <1>1 DEF Types
<1>5. CASE cmd.configNum # currentConfig[r]
  <2>1. UNCHANGED stateMachines
    BY <1>5 DEF ApplyDeleteShards, isCurrent
  <2>2. \A t \in Replica : state(t)' = state(t)
    BY <1>1, <2>1 DEF state
  <2>. QED
    BY <1>1, <1>3, <1>4, <1>5, <2>1, <2>2 DEF applied, Types
<1>6. CASE cmd.configNum = currentConfig[r]
  <2>1. PICK T \in handled(r, cmd.shardIds, {"GCing", "BePulling"}) :
          stateMachines' = [stateMachines EXCEPT ![r] = [s \in Shard |->
            IF s \in T THEN deleted(@[s]) ELSE @[s]]]
    BY <1>6 DEF ApplyDeleteShards, isCurrent
  <2>2. T = {s \in cmd.shardIds : stateMachines[r][s].status \in {"GCing", "BePulling"}}
    <3>1. isMove(cmd) /\ "Serving" \notin {"GCing", "BePulling"}
      BY <1>1 DEF isCommand
    <3>. QED
      BY <1>6, <3>1, HandlesReady
  <2>3. /\ stateMachines'[r] = [s \in Shard |->
             IF s \in T THEN deleted(stateMachines[r][s]) ELSE stateMachines[r][s]]
        /\ \A t \in Replica : t # r => stateMachines'[t] = stateMachines[t]
        /\ DOMAIN stateMachines' = Replica
    BY <2>1 DEF Types
  <2>4. stateMachines'[r] = shards
    BY <2>2, <2>3
  <2>5. /\ state(r)' = after(group[r], state(r), cmd)
        /\ \A t \in Replica : t # r => state(t)' = state(t)
    <3>. HIDE DEF shards, cmd
    <3>1. after(group[r], state(r), cmd) =
            [shards |-> stateMachines'[r], operations |-> lastOperations'[r],
             last |-> lastConfig'[r], current |-> currentConfig'[r]]
      BY <1>1, <1>3, <1>6, <2>4
    <3>. QED
      BY <1>1, <2>3, <3>1, StateAfter
  <2>. QED
    BY <1>1, <1>4, <2>3, <2>5 DEF applied, Types
<1>. QED
  BY <1>5, <1>6

LEMMA ApplyApplied ==
  ASSUME Types, NEW r \in Replica, isState(group[r], state(r)), isCommand(next(r)), Apply(r)
  PROVE  applied(r)
  BY OperationApplied, ConfigurationApplied, InsertionApplied, DeletionApplied DEF Apply

\* A configuration that a replica comes to is the next only if it waits for it.
LEMMA ConfigurationIsDue ==
  ASSUME NEW g \in Group, NEW h, NEW m \in Nat, History(g, h, m),
         NEW k \in 0..m, k < Len(log[g]), log[g][k + 1].op = "Configuration",
         log[g][k + 1].num = h[k].current + 1, Len(log[g]) \in Nat
  PROVE  serves(h[k].shards)
<1>1. k + 1 \in 1..Len(log[g])
  BY SMT
<1>2. PICK n \in 1..(k + 1) : n <= m + 1 /\ isReached(h, n, log[g][k + 1].num)
  BY <1>1 DEF History
<1>3. PICK j \in 0..(n - 1) : h[j].current + 1 = log[g][k + 1].num /\ serves(h[j].shards)
  BY <1>2 DEF isReached
<1>4. j \in 0..m /\ j <= k
  BY <1>2, SMT
<1>5. h[j].current \in Nat /\ h[k].current \in Nat
  BY <1>4 DEF History, isState
<1>6. h[j].current = h[k].current
  BY <1>3, <1>5, SMT
<1>. QED
  BY <1>3, <1>4, <1>6 DEF History

\* The groups whose replicas make no step.
LEMMA OtherHistory ==
  ASSUME NEW r \in Replica, applied(r), Types, NEW g \in Group, g # group[r],
         NEW h, NEW m \in Nat, History(g, h, m)
  PROVE  History(g, h, m)'
<1>1. \A t \in Replica : group[t] = g =>
        lastApplied'[t] \in 0..m /\ state(t)' = h[lastApplied'[t]]
  BY DEF applied, Types, History
<1>. QED
  BY <1>1 DEF applied, History, isReached

\* A replica that is behind another, or was, goes the way the other went.
LEMMA FollowHistory ==
  ASSUME NEW r \in Replica, applied(r), Types,
         NEW h, NEW m \in Nat, History(group[r], h, m), lastApplied[r] < m
  PROVE  History(group[r], h, m)'
<1>. DEFINE k == lastApplied[r]
<1>1. k \in 0..m /\ k + 1 \in 1..m /\ k + 1 \in 0..m
  <2>1. k \in 0..m
    BY DEF History
  <2>. QED
    BY <2>1, SMT
<1>2. state(r)' = h[k + 1] /\ lastApplied'[r] = k + 1
  <2>1. h[k + 1] = after(group[r], h[k], log[group[r]][k + 1])
    <3>1. k + 1 - 1 = k
      BY <1>1, SMT
    <3>. QED
      BY <1>1, <3>1 DEF History
  <2>2. state(r) = h[k]
    BY DEF History
  <2>. QED
    BY <2>1, <2>2 DEF applied, next, Types
<1>3. \A t \in Replica : group[t] = group[r] =>
        lastApplied'[t] \in 0..m /\ state(t)' = h[lastApplied'[t]]
  BY <1>1, <1>2 DEF applied, Types, History
<1>. QED
  BY <1>3 DEF applied, History, isReached

\* The first replica to apply an entry adds the state it gets to.
LEMMA ExtendHistory ==
  ASSUME NEW r \in Replica, applied(r), Types, Commands,
         NEW h, NEW m \in Nat, History(group[r], h, m), lastApplied[r] = m
  PROVE  \E f : /\ History(group[r], f, m + 1)' /\ f[m + 1] = state(r)'
               /\ \A k \in 0..m : f[k] = h[k]
<1>. DEFINE g == group[r]
            cmd == log[g][m + 1]
            st == after(g, h[m], cmd)
            f == [k \in 0..(m + 1) |-> IF k <= m THEN h[k] ELSE st]
<1>0. g \in Group
  BY GroupFacts
<1>1. Len(log[g]) \in Nat /\ m < Len(log[g]) /\ m + 1 \in 1..Len(log[g])
      /\ m + 1 <= Len(log[g]) /\ m \in 0..m
  <2>1. Len(log[g]) \in Nat
    BY <1>0, LenProperties DEF Types
  <2>. QED
    BY <2>1, SMT DEF applied
<1>2. state(r) = h[m] /\ isState(g, h[m]) /\ isCommand(cmd)
  BY <1>0, <1>1 DEF History, Commands
<1>3. progresses(g, h[m], st)
  <2>1. cmd.op = "Configuration" /\ cmd.num = h[m].current + 1 => serves(h[m].shards)
    BY <1>0, <1>1, ConfigurationIsDue
  <2>. QED
    BY <1>0, <1>2, <2>1, AfterProgress
<1>4. state(r)' = st /\ lastApplied'[r] = m + 1
  BY <1>2 DEF applied, next, Types
<1>. HIDE DEF st, cmd, g
<1>5. /\ \A k \in 0..m : k \in 0..(m + 1) /\ k <= m /\ k # m + 1
      /\ 0..(m + 1) = 0..m \cup {m + 1} /\ 1..(m + 1) = 1..m \cup {m + 1}
      /\ \A k \in 1..m : k \in 0..m /\ k - 1 \in 0..m
      /\ m + 1 \in 0..(m + 1) /\ ~(m + 1 <= m) /\ m + 1 - 1 = m /\ m + 1 \in Nat
  BY SMT
<1>6. f[m + 1] = st /\ \A k \in 0..m : f[k] = h[k]
  BY <1>5
<1>. HIDE DEF f
<1>7. \A t \in Replica : group[t] = g =>
        lastApplied'[t] \in 0..(m + 1) /\ state(t)' = f[lastApplied'[t]]
  BY <1>4, <1>5, <1>6 DEF applied, Types, History, g
<1>8. \A k \in 0..(m + 1) : isState(g, f[k])
  BY <1>3, <1>5, <1>6 DEF History, progresses, g
<1>9. \A k \in 1..(m + 1) : f[k] = after(g, f[k - 1], log[g][k])
  <2>1. f[m + 1] = after(g, f[m + 1 - 1], log[g][m + 1])
    BY <1>1, <1>5, <1>6 DEF st, cmd
  <2>2. \A k \in 1..m : f[k] = after(g, f[k - 1], log[g][k])
    BY <1>5, <1>6 DEF History, g
  <2>. QED
    BY <1>5, <2>1, <2>2
<1>10. ASSUME NEW j \in 0..(m + 1), NEW k \in 0..(m + 1), j <= k
       PROVE  /\ f[j].current <= f[k].current
              /\ f[j].current = f[k].current /\ serves(f[j].shards) => serves(f[k].shards)
  <2>1. CASE j \in 0..m /\ k \in 0..m
    BY <1>6, <1>10, <2>1 DEF History
  <2>2. CASE j \in 0..m /\ k = m + 1
    <3>1. /\ h[j].current <= h[m].current /\ h[m].current <= st.current
          /\ h[j].current \in Nat /\ h[m].current \in Nat /\ st.current \in Nat
          /\ h[j].current = h[m].current /\ serves(h[j].shards) => serves(h[m].shards)
          /\ st.current = h[m].current /\ serves(h[m].shards) => serves(st.shards)
      BY <1>1, <1>3, <1>5, <2>2 DEF History, progresses, isState
    <3>2. /\ h[j].current <= st.current
          /\ h[j].current = st.current =>
               h[j].current = h[m].current /\ st.current = h[m].current
      BY <3>1, SMT
    <3>. QED
      BY <1>6, <2>2, <3>1, <3>2
  <2>3. CASE j = m + 1 /\ k = m + 1
    <3>1. f[j].current \in Nat
      BY <1>5, <1>8, <2>3 DEF isState
    <3>. QED
      BY <2>3, <3>1
  <2>4. CASE j = m + 1 /\ k \in 0..m
    <3>1. ~(j <= k)
      BY <2>4, SMT
    <3>. QED
      BY <1>10, <3>1
  <2>. QED
    BY <1>5, <2>1, <2>2, <2>3, <2>4
<1>11. ASSUME NEW n \in 1..(m + 1), NEW num, isReached(h, n, num)
       PROVE  isReached(f, n, num) /\ isReached(f, m + 2, num)
  <2>1. PICK j \in 0..(n - 1) : h[j].current + 1 = num /\ serves(h[j].shards)
    BY <1>11 DEF isReached
  <2>2. j \in 0..m /\ j \in 0..(m + 2 - 1)
    BY SMT
  <2>. QED
    BY <1>6, <2>1, <2>2 DEF isReached
<1>12. ASSUME NEW k \in 1..Len(log[g]), log[g][k].op = "Configuration"
       PROVE  \E n \in 1..k : n <= m + 1 + 1 /\ isReached(f, n, log[g][k].num)
  <2>1. PICK n \in 1..k : n <= m + 1 /\ isReached(h, n, log[g][k].num)
    BY <1>12 DEF History, g
  <2>2. n \in 1..(m + 1) /\ n <= m + 1 + 1
    BY <2>1, SMT
  <2>. QED
    BY <1>11, <2>1, <2>2
<1>13. ASSUME NEW t \in tasks, t.type = "Execute", t.group = g, t.command.op = "Configuration"
       PROVE  isReached(f, m + 1 + 1, t.command.num)
  <2>1. isReached(h, m + 1, t.command.num)
    BY <1>13 DEF History, g
  <2>2. m + 1 \in 1..(m + 1) /\ m + 1 + 1 = m + 2
    BY SMT
  <2>. QED
    BY <1>11, <2>1, <2>2
<1>14. PICK F : F = f
  OBVIOUS
<1>15. History(g, F, m + 1)'
  <2>1. log' = log /\ tasks' = tasks
    BY DEF applied
  <2>2. \A k \in 1..Len(log[g]) :
          log[g][k].op = "Configuration" =>
            \E n \in 1..k : n <= m + 1 + 1 /\ isReached(F, n, log[g][k].num)
    BY <1>12, <1>14
  <2>3. \A t \in tasks :
          t.type = "Execute" /\ t.group = g /\ t.command.op = "Configuration" =>
            isReached(F, m + 1 + 1, t.command.num)
    BY <1>13, <1>14
  <2>4. \A n, num : isReached(F, n, num)' <=> isReached(F, n, num)
    BY DEF isReached
  <2>5. m + 1 <= Len(log'[g])
    BY <1>1, <2>1
  <2>6. \A j, k \in 0..(m + 1) : j <= k =>
          /\ F[j].current <= F[k].current
          /\ F[j].current = F[k].current /\ serves(F[j].shards) => serves(F[k].shards)
    BY <1>10, <1>14
  <2>7. \A t \in Replica : group[t] = g =>
          lastApplied'[t] \in 0..(m + 1) /\ state(t)' = F[lastApplied'[t]]
    BY <1>7, <1>14
  <2>8. \A k \in 0..(m + 1) : isState(g, F[k])
    BY <1>8, <1>14
  <2>9. \A k \in 1..(m + 1) : F[k] = after(g, F[k - 1], log[g][k])
    BY <1>9, <1>14
  <2>. QED
    BY <1>5, <2>1, <2>2, <2>3, <2>4, <2>5, <2>6, <2>7, <2>8, <2>9 DEF History
<1>16. F[m + 1] = state(r)' /\ \A k \in 0..m : F[k] = h[k]
  BY <1>4, <1>6, <1>14
<1>. QED
  BY <1>15, <1>16 DEF g

LEMMA ApplyIsApplied == ASSUME Inv, NEW r \in Replica, Apply(r) PROVE applied(r)
<1>1. group[r] \in Group /\ Types /\ Commands
  BY GroupFacts DEF Inv
<1>2. lastApplied[r] \in Nat /\ isState(group[r], state(r))
  BY <1>1 DEF Inv, History
<1>3. lastApplied[r] < Len(log[group[r]])
  BY DEF Apply, RefuseOperation, SkipDuplicate, ApplyOperation, ApplyConfiguration,
         ApplyInsertShards, ApplyDeleteShards, applies
<1>4. isCommand(next(r))
  <2>1. Len(log[group[r]]) \in Nat
    BY <1>1, LenProperties DEF Types
  <2>2. lastApplied[r] + 1 \in 1..Len(log[group[r]])
    BY <1>2, <1>3, <2>1, SMT
  <2>. QED
    BY <1>1, <2>2 DEF Commands, next
<1>. QED
  BY <1>1, <1>2, <1>4, ApplyApplied

LEMMA ApplyInv == ASSUME Inv, NEW r \in Replica, Apply(r) PROVE Inv'
<1>1. group[r] \in Group /\ Types /\ Commands
  BY GroupFacts DEF Inv
<1>2. PICK h : \E m \in Nat : History(group[r], h, m)
  BY <1>1 DEF Inv
<1>3. PICK m \in Nat : History(group[r], h, m)
  BY <1>2
<1>4. lastApplied[r] \in 0..m
  BY <1>3 DEF History
<1>5. applied(r)
  BY ApplyIsApplied
<1>6. \E f : \E n \in Nat : History(group[r], f, n)'
  <2>1. CASE lastApplied[r] < m
    BY <1>1, <1>3, <1>5, <2>1, FollowHistory
  <2>2. CASE lastApplied[r] = m
    <3>1. \E f : History(group[r], f, m + 1)'
      BY <1>1, <1>3, <1>5, <2>2, ExtendHistory
    <3>2. m + 1 \in Nat
      OBVIOUS
    <3>. QED
      BY <3>1, <3>2
  <2>. QED
    BY <1>4, <2>1, <2>2, SMT
<1>7. \A g \in Group : g # group[r] => \E f : \E n \in Nat : History(g, f, n)'
  BY <1>1, <1>5, OtherHistory DEF Inv
<1>8. Types' /\ Commands'
  BY <1>1, <1>5 DEF applied, Commands
<1>. QED
  BY <1>6, <1>7, <1>8 DEF Inv

-----------------------------------------------------------------------------
(* The steps of clerks, monitors and handlers *)

\* What is appended is a command; a configuration is one that a task was to start.
logGrows ==
  /\ DOMAIN log' = Group
  /\ \A g \in Group :
       /\ \E S : log'[g] \in Seq(S)
       /\ Len(log[g]) <= Len(log'[g])
       /\ \A k \in 1..Len(log[g]) : log'[g][k] = log[g][k]
       /\ \A k \in 1..Len(log'[g]) : k \notin 1..Len(log[g]) =>
            /\ isCommand(log'[g][k])
            /\ log'[g][k].op = "Configuration" =>
                 \E t \in tasks : /\ t.type = "Execute" /\ t.group = g
                                  /\ t.command = log'[g][k]

\* A new task is a move, or a configuration that a replica waits for.
tasksGrow ==
  \A t \in tasks' :
    /\ isTask(t)
    /\ t.type = "Execute" /\ t.command.op = "Configuration" /\ t \notin tasks =>
         \E r \in Replica : /\ group[r] = t.group /\ canPerformNextConfig(r)
                            /\ t.command.num = currentConfig[r] + 1

\* A step of a clerk, a monitor or a handler.
grows == UNCHANGED replicaVars /\ logGrows /\ tasksGrow

LEMMA GrowsHistory ==
  ASSUME Inv, grows, NEW g \in Group, NEW h, NEW m \in Nat, History(g, h, m)
  PROVE  History(g, h, m)'
<1>. USE DEF grows
<1>1. /\ lastApplied' = lastApplied /\ stateMachines' = stateMachines
      /\ lastOperations' = lastOperations /\ lastConfig' = lastConfig
      /\ currentConfig' = currentConfig
  BY DEF replicaVars
<1>2. Types /\ Types'
  BY <1>1 DEF Inv, Types, logGrows
<1>3. \A r \in Replica : state(r)' = state(r)
  BY <1>1 DEF state
<1>4. /\ Len(log[g]) \in Nat /\ Len(log'[g]) \in Nat /\ Len(log[g]) <= Len(log'[g])
      /\ m <= Len(log[g])
  BY <1>2, LenProperties DEF Types, logGrows, History
<1>5. /\ m <= Len(log'[g]) /\ \A k \in 1..m : k \in 1..Len(log[g])
      /\ \A k \in 1..Len(log'[g]) : k \notin 1..Len(log[g]) => m + 1 \in 1..k /\ m + 1 <= m + 1
  BY <1>4, SMT
<1>6. ASSUME NEW t \in tasks', t.type = "Execute", t.group = g,
             t.command.op = "Configuration"
      PROVE  isReached(h, m + 1, t.command.num)
  <2>1. CASE t \in tasks
    BY <1>6, <2>1 DEF History
  <2>2. CASE t \notin tasks
    <3>1. PICK r \in Replica : /\ group[r] = g /\ canPerformNextConfig(r)
                               /\ t.command.num = currentConfig[r] + 1
      BY <1>6, <2>2 DEF tasksGrow
    <3>2. lastApplied[r] \in 0..m /\ state(r) = h[lastApplied[r]]
      BY <3>1 DEF History
    <3>3. h[lastApplied[r]].current = currentConfig[r] /\ serves(h[lastApplied[r]].shards)
      BY <3>1, <3>2 DEF state, serves, canPerformNextConfig
    <3>4. lastApplied[r] \in 0..(m + 1 - 1)
      BY <3>2, SMT
    <3>. QED
      BY <3>1, <3>3, <3>4 DEF isReached
  <2>. QED
    BY <2>1, <2>2
<1>7. ASSUME NEW k \in 1..Len(log'[g]), log'[g][k].op = "Configuration"
      PROVE  \E n \in 1..k : n <= m + 1 /\ isReached(h, n, log'[g][k].num)
  <2>1. CASE k \in 1..Len(log[g])
    BY <1>7, <2>1 DEF logGrows, History
  <2>2. CASE k \notin 1..Len(log[g])
    <3>1. PICK t \in tasks : t.type = "Execute" /\ t.group = g /\ t.command = log'[g][k]
      BY <1>7, <2>2 DEF logGrows
    <3>2. isReached(h, m + 1, log'[g][k].num)
      BY <1>7, <3>1 DEF History
    <3>. QED
      BY <1>5, <2>2, <3>2
  <2>. QED
    BY <2>1, <2>2
<1>8. \A k \in 1..m : h[k] = after(g, h[k - 1], log'[g][k])
  BY <1>5 DEF History, logGrows
<1>. QED
  BY <1>1, <1>3, <1>5, <1>6, <1>7, <1>8 DEF History, isReached

LEMMA GrowsInv == ASSUME Inv, grows PROVE Inv'
<1>1. Types'
  BY DEF Inv, Types, grows, logGrows, replicaVars
<1>2. Commands'
  BY DEF Inv, Commands, grows, logGrows, tasksGrow
<1>3. ASSUME NEW g \in Group PROVE \E h : \E m \in Nat : History(g, h, m)'
  BY GrowsHistory DEF Inv
<1>. QED
  BY <1>1, <1>2, <1>3 DEF Inv

\* Start appends one command.
LEMMA StartGrows ==
  ASSUME Inv, NEW g \in Group, NEW cmd, start(g, cmd), isCommand(cmd),
         cmd.op = "Configuration" =>
           \E t \in tasks : t.type = "Execute" /\ t.group = g /\ t.command = cmd
  PROVE  logGrows
<1>1. Types /\ log' = [log EXCEPT ![g] = Append(@, cmd)]
  BY DEF Inv, start
<1>2. ASSUME NEW S, log[g] \in Seq(S)
      PROVE  /\ Append(log[g], cmd) \in Seq(S \cup {cmd})
             /\ Len(log[g]) \in Nat /\ Len(Append(log[g], cmd)) = Len(log[g]) + 1
             /\ Append(log[g], cmd)[Len(log[g]) + 1] = cmd
             /\ \A k \in 1..Len(log[g]) : Append(log[g], cmd)[k] = log[g][k]
  <2>1. log[g] \in Seq(S \cup {cmd}) /\ cmd \in S \cup {cmd}
    BY <1>2, SeqMonotonic
  <2>. QED
    BY <2>1, AppendProperties, LenProperties
<1>3. /\ \E S : Append(log[g], cmd) \in Seq(S)
      /\ Len(log[g]) \in Nat /\ Len(Append(log[g], cmd)) = Len(log[g]) + 1
      /\ Append(log[g], cmd)[Len(log[g]) + 1] = cmd
      /\ \A k \in 1..Len(log[g]) : Append(log[g], cmd)[k] = log[g][k]
  BY <1>1, <1>2 DEF Types
<1>4. /\ log'[g] = Append(log[g], cmd) /\ DOMAIN log' = Group
      /\ \A f \in Group : f # g => log'[f] = log[f]
  BY <1>1 DEF Types
<1>5. /\ Len(log[g]) <= Len(log[g]) + 1
      /\ \A k \in 1..(Len(log[g]) + 1) : k \notin 1..Len(log[g]) => k = Len(log[g]) + 1
  BY <1>3, SMT
<1>6. ASSUME NEW f \in Group, f # g
      PROVE  /\ \E S : log'[f] \in Seq(S)
             /\ Len(log[f]) <= Len(log'[f])
             /\ \A k \in 1..Len(log[f]) : log'[f][k] = log[f][k]
             /\ \A k \in 1..Len(log'[f]) : k \in 1..Len(log[f])
  <2>1. Len(log[f]) \in Nat
    BY <1>1, LenProperties DEF Types
  <2>2. Len(log[f]) <= Len(log[f])
    BY <2>1, SMT
  <2>. QED
    BY <1>1, <1>4, <1>6, <2>2 DEF Types
<1>. QED
  BY <1>3, <1>4, <1>5, <1>6 DEF logGrows

LEMMA LogStays == ASSUME Inv, log' = log PROVE logGrows
<1>1. Types /\ \A g \in Group : Len(log[g]) \in Nat
  BY LenProperties DEF Inv, Types
<1>2. \A g \in Group : Len(log[g]) <= Len(log[g])
  BY <1>1, SMT
<1>. QED
  BY <1>1, <1>2 DEF logGrows, Types

\* Start adds one entry.
LEMMA StartEntries ==
  ASSUME Inv, NEW g \in Group, NEW cmd, start(g, cmd),
         NEW f \in Group, NEW k \in 1..Len(log'[f])
  PROVE  \/ f = g /\ log'[f][k] = cmd
         \/ k \in 1..Len(log[f]) /\ log'[f][k] = log[f][k]
<1>1. Types /\ log' = [log EXCEPT ![g] = Append(@, cmd)]
  BY DEF Inv, start
<1>2. ASSUME NEW S, log[g] \in Seq(S)
      PROVE  \A n \in 1..Len(Append(log[g], cmd)) :
               Append(log[g], cmd)[n] = cmd
                 \/ (n \in 1..Len(log[g]) /\ Append(log[g], cmd)[n] = log[g][n])
  <2>1. log[g] \in Seq(S \cup {cmd}) /\ cmd \in S \cup {cmd}
    BY <1>2, SeqMonotonic
  <2>2. /\ Len(log[g]) \in Nat /\ Len(Append(log[g], cmd)) = Len(log[g]) + 1
        /\ Append(log[g], cmd)[Len(log[g]) + 1] = cmd
        /\ \A n \in 1..Len(log[g]) : Append(log[g], cmd)[n] = log[g][n]
    BY <2>1, AppendProperties, LenProperties
  <2>3. \A n \in 1..(Len(log[g]) + 1) : n \in 1..Len(log[g]) \/ n = Len(log[g]) + 1
    BY <2>2, SMT
  <2>. QED
    BY <2>2, <2>3
<1>3. CASE f = g
  <2>1. log'[f] = Append(log[g], cmd)
    BY <1>1, <1>3 DEF Types
  <2>. QED
    BY <1>1, <1>2, <1>3, <2>1 DEF Types
<1>4. CASE f # g
  BY <1>1, <1>4 DEF Types
<1>. QED
  BY <1>3, <1>4

\* A step that adds one task, or none.
LEMMA OneTask ==
  ASSUME Inv, NEW t, tasks' \subseteq tasks \cup {t}, isTask(t),
         t.type = "Execute" /\ t.command.op = "Configuration" =>
           \E r \in Replica : /\ group[r] = t.group /\ canPerformNextConfig(r)
                              /\ t.command.num = currentConfig[r] + 1
  PROVE  tasksGrow
  BY DEF Inv, Commands, tasksGrow

LEMMA NoTask == ASSUME Inv, tasks' \subseteq tasks PROVE tasksGrow
  BY DEF Inv, Commands, tasksGrow

\* The shards in a status that came from g are all those the configuration moves
\* from g, so that the calls and commands for them are moves.
LEMMA ShardIdsMove ==
  ASSUME Inv, NEW r \in Replica, NEW g, NEW status \in {"Pulling", "GCing"},
         shardIdsByStatus(r, status, g) # {}
  PROVE  shardIdsByStatus(r, status, g) = moving(currentConfig[r], g, group[r])
<1>. DEFINE S == shardIdsByStatus(r, status, g)
            n == currentConfig[r]
<1>1. isState(group[r], state(r))
  BY GroupFacts DEF Inv, History
<1>2. /\ n \in Nat
      /\ n # 0 => lastConfig[r] = n - 1
      /\ n = 0 => \A s \in Shard : stateMachines[r][s].status = "Serving"
      /\ \A s \in Shard :
           stateMachines[r][s].status \in {"Pulling", "GCing"} => owner(n, s) = group[r]
      /\ n # 0 => \A s, u \in Shard :
           owner(n - 1, s) = owner(n - 1, u) /\ owner(n, s) = owner(n, u)
             => stateMachines[r][s].status = stateMachines[r][u].status
  BY <1>1 DEF isState, state, serves, MoveTogether
<1>3. S = {s \in Shard : stateMachines[r][s].status = status /\ owner(lastConfig[r], s) = g}
  BY DEF shardIdsByStatus
<1>4. n # 0 /\ lastConfig[r] = n - 1
  <2>1. PICK s \in Shard : stateMachines[r][s].status = status
    BY <1>3
  <2>2. status # "Serving"
    OBVIOUS
  <2>. QED
    BY <1>2, <2>1, <2>2
<1>5. \A s \in S : s \in moving(n, g, group[r])
  BY <1>2, <1>3, <1>4 DEF moving
<1>6. ASSUME NEW s \in moving(n, g, group[r]) PROVE s \in S
  <2>1. PICK u \in S : TRUE
    OBVIOUS
  <2>2. s \in Shard /\ owner(n - 1, s) = g /\ owner(n, s) = group[r]
    BY DEF moving
  <2>3. u \in Shard /\ owner(n - 1, u) = g /\ owner(n, u) = group[r]
        /\ stateMachines[r][u].status = status
    BY <1>3, <1>5, <2>1 DEF moving
  <2>4. stateMachines[r][s].status = status
    BY <1>2, <1>4, <2>2, <2>3
  <2>. QED
    BY <1>3, <1>4, <2>2, <2>4
<1>. QED
  BY <1>5, <1>6

LEMMA ClerksGrow == ASSUME Inv, Clerks PROVE grows
<1>1. CASE \E c \in Clerk, r \in Replica : Call(c, r)
  <2>1. PICK c \in Clerk, r \in Replica : Call(c, r)
    BY <1>1
  <2>2. /\ start(group[r], [op |-> "Operation", clerk |-> c, id |-> commandId[c],
                            request |-> request[c]])
        /\ tasks' = tasks /\ UNCHANGED replicaVars
    BY <2>1 DEF Call
  <2>3. logGrows
    BY <2>2, StartGrows, GroupFacts DEF isCommand
  <2>. QED
    BY <2>2, <2>3, NoTask DEF grows
<1>2. CASE ~\E c \in Clerk, r \in Replica : Call(c, r)
  <2>1. log' = log /\ tasks' = tasks /\ UNCHANGED replicaVars
    BY <1>2 DEF Clerks, Begin, AnswerDuplicate, Return, WrongGroup, Timeout, Refresh, giveUp
  <2>. QED
    BY <2>1, LogStays, NoTask DEF grows
<1>. QED
  BY <1>1, <1>2

LEMMA ExecuteGrows == ASSUME Inv, NEW t \in tasks, Execute(t) PROVE grows
<1>1. /\ t.type = "Execute" /\ start(t.group, t.command) /\ tasks' = tasks \ {t}
      /\ UNCHANGED replicaVars
  BY DEF Execute
<1>2. t.group \in Group /\ isCommand(t.command)
  BY <1>1 DEF Inv, Commands, isTask
<1>3. logGrows
  BY <1>1, <1>2, StartGrows
<1>. QED
  BY <1>1, <1>3, NoTask DEF grows

LEMMA MonitorGrows ==
  ASSUME Inv, NEW r \in Replica,
         ConfigureAction(r) \/ \E g \in Group : MigrationAction(r, g) \/ GcAction(r, g)
  PROVE  grows
<1>0. log' = log /\ UNCHANGED replicaVars /\ group[r] \in Group
  BY GroupFacts DEF ConfigureAction, MigrationAction, GcAction, shardOperation, addTask
<1>1. CASE ConfigureAction(r)
  <2>. DEFINE t == execution(group[r], [op |-> "Configuration", num |-> currentConfig[r] + 1])
  <2>1. canPerformNextConfig(r) /\ tasks' = tasks \cup {t}
    BY <1>1 DEF ConfigureAction, addTask
  <2>2. /\ t.type = "Execute" /\ t.group = group[r]
        /\ t.command.op = "Configuration" /\ t.command.num = currentConfig[r] + 1
    BY DEF execution
  <2>. HIDE DEF t
  <2>3. isTask(t)
    BY <1>0, <2>2 DEF isTask, isCommand
  <2>4. tasksGrow
    BY <2>1, <2>2, <2>3, OneTask
  <2>. QED
    BY <1>0, <2>4, LogStays DEF grows
<1>2. CASE \E g \in Group : MigrationAction(r, g) \/ GcAction(r, g)
  <2>1. PICK g \in Group : MigrationAction(r, g) \/ GcAction(r, g)
    BY <1>2
  <2>2. PICK type \in {"GetShardsData", "DeleteShardsData"}, status \in {"Pulling", "GCing"} :
          shardOperation(r, type, status, g)
    BY <2>1 DEF MigrationAction, GcAction
  <2>. DEFINE S == shardIdsByStatus(r, status, g)
              t == [type |-> type, group |-> group[r], to |-> g,
                    configNum |-> currentConfig[r], shardIds |-> S]
  <2>3. S # {} /\ tasks' = tasks \cup {t}
    BY <2>2 DEF shardOperation, addTask
  <2>4. S = moving(currentConfig[r], g, group[r])
    BY <2>3, ShardIdsMove
  <2>5. t.type = type /\ t.group = group[r] /\ t.configNum = currentConfig[r] /\ t.shardIds = S
    OBVIOUS
  <2>. HIDE DEF S, t
  <2>6. isTask(t) /\ t.type # "Execute"
    BY <1>0, <2>4, <2>5 DEF isTask, isMove
  <2>7. tasksGrow
    BY <2>3, <2>6, OneTask
  <2>. QED
    BY <1>0, <2>7, LogStays DEF grows
<1>. QED
  BY <1>1, <1>2

\* A handler answers a task with another about the same move.
LEMMA ServeGrows ==
  ASSUME Inv, NEW t \in tasks, NEW r \in Replica,
         GetShardsData(r, t) \/ ConfirmDeletion(r, t) \/ StartDeletion(r, t)
           \/ FinishDeletion(r, t)
  PROVE  grows
<1>1. t.type # "Execute" /\ UNCHANGED replicaVars
  BY DEF GetShardsData, ConfirmDeletion, StartDeletion, FinishDeletion
<1>2. t.group \in Group /\ isMove(t)
  BY <1>1 DEF Inv, Commands, isTask
<1>3. \A cmd : cmd.op \in {"InsertShards", "DeleteShards"} /\ cmd.configNum = t.configNum
               /\ cmd.shardIds = t.shardIds => isCommand(cmd)
  BY <1>2 DEF isMove, isCommand
<1>4. \A cmd : /\ cmd.op \in {"InsertShards", "DeleteShards"}
               /\ cmd.configNum = t.configNum /\ cmd.shardIds = t.shardIds
               /\ tasks' = (tasks \ {t}) \cup {execution(t.group, cmd)}
               => tasksGrow
  <2>. SUFFICES ASSUME NEW cmd, cmd.op \in {"InsertShards", "DeleteShards"},
                       isCommand(cmd),
                       tasks' = (tasks \ {t}) \cup {execution(t.group, cmd)}
                PROVE  tasksGrow
    BY <1>3
  <2>. DEFINE x == execution(t.group, cmd)
  <2>1. x.type = "Execute" /\ x.group = t.group /\ x.command = cmd
    BY DEF execution
  <2>2. isTask(x) /\ x.command.op # "Configuration"
    BY <1>2, <2>1 DEF isTask
  <2>3. tasks' \subseteq tasks \cup {x}
    OBVIOUS
  <2>. HIDE DEF x
  <2>. QED
    BY <2>2, <2>3, OneTask
<1>5. deletion(t).op = "DeleteShards" /\ deletion(t).configNum = t.configNum
      /\ deletion(t).shardIds = t.shardIds
  BY DEF deletion
<1>6. CASE GetShardsData(r, t)
  <2>. DEFINE cmd == [op |-> "InsertShards", configNum |-> t.configNum,
                      shardIds |-> t.shardIds,
                      shards |-> [s \in t.shardIds |-> stateMachines[r][s].kv],
                      lastOperations |-> lastOperations[r]]
  <2>1. /\ cmd.op = "InsertShards" /\ cmd.configNum = t.configNum
        /\ cmd.shardIds = t.shardIds
    OBVIOUS
  <2>2. log' = log /\ tasks' = (tasks \ {t}) \cup {execution(t.group, cmd)}
    BY <1>6 DEF GetShardsData
  <2>. HIDE DEF cmd
  <2>3. tasksGrow
    BY <1>4, <2>1, <2>2
  <2>. QED
    BY <1>1, <2>2, <2>3, LogStays DEF grows
<1>7. CASE ConfirmDeletion(r, t) \/ FinishDeletion(r, t)
  <2>1. log' = log /\ deleteLocally(t)
    BY <1>7 DEF ConfirmDeletion, FinishDeletion
  <2>2. tasks' = (tasks \ {t}) \cup {execution(t.group, deletion(t))}
    BY <2>1 DEF deleteLocally
  <2>3. tasksGrow
    BY <1>4, <1>5, <2>2
  <2>. QED
    BY <1>1, <2>1, <2>3, LogStays DEF grows
<1>8. CASE StartDeletion(r, t)
  <2>. DEFINE x == [type |-> "AwaitDeletion", group |-> t.group, to |-> t.to,
                    configNum |-> t.configNum, shardIds |-> t.shardIds,
                    entry |-> lastEntry(t.to)]
  <2>1. x.type = "AwaitDeletion" /\ x.group = t.group /\ x.configNum = t.configNum
        /\ x.shardIds = t.shardIds
    OBVIOUS
  <2>2. t.to \in Group /\ start(t.to, deletion(t)) /\ tasks' = (tasks \ {t}) \cup {x}
    BY <1>8, GroupFacts DEF StartDeletion
  <2>. HIDE DEF x
  <2>3. isTask(x) /\ x.type # "Execute" /\ tasks' \subseteq tasks \cup {x}
    BY <1>2, <2>1, <2>2 DEF isTask, isMove
  <2>4. isCommand(deletion(t)) /\ deletion(t).op # "Configuration"
    BY <1>3, <1>5
  <2>5. logGrows
    BY <2>2, <2>4, StartGrows
  <2>. QED
    BY <1>1, <2>3, <2>5, OneTask DEF grows
<1>. QED
  BY <1>6, <1>7, <1>8

\* Only the appliers change the replicas.
LEMMA NextGrows ==
  ASSUME Inv, [Next]_vars, ~\E r \in Replica : Apply(r)
  PROVE  grows
<1>1. CASE Publish \/ UNCHANGED vars
  <2>1. log' = log /\ tasks' = tasks /\ UNCHANGED replicaVars
    BY <1>1 DEF Publish, vars, replicaVars
  <2>. QED
    BY <2>1, LogStays, NoTask DEF grows
<1>2. CASE \/ \E r \in Replica : ConfigureAction(r)
           \/ \E r \in Replica, g \in Group : MigrationAction(r, g) \/ GcAction(r, g)
  BY <1>2, MonitorGrows
<1>3. CASE \E t \in tasks : Execute(t)
  BY <1>3, ExecuteGrows
<1>4. CASE \E t \in tasks : Serve(t)
  BY <1>4, ServeGrows DEF Serve
<1>. QED
  BY <1>1, <1>2, <1>3, <1>4, ClerksGrow DEF Next

LEMMA NextInv == Inv /\ [Next]_vars => Inv'
<1>1. ASSUME Inv, NEW r \in Replica, Apply(r) PROVE Inv'
  BY <1>1, ApplyInv
<1>. QED
  BY <1>1, NextGrows, GrowsInv

LEMMA InvHolds == Spec => []Inv
  BY InitInv, NextInv, PTL DEF Spec

-----------------------------------------------------------------------------
(* The theorems *)

LEMMA InvAgree == Inv => ReplicasAgree
<1>. SUFFICES ASSUME Inv, NEW r \in Replica, NEW t \in Replica,
                     group[r] = group[t], lastApplied[r] = lastApplied[t]
              PROVE  state(r) = state(t)
  BY DEF ReplicasAgree, state
<1>1. PICK h : \E m \in Nat : History(group[r], h, m)
  BY GroupFacts DEF Inv
<1>. QED
  BY <1>1 DEF History

\* Replicas that have applied the same entries are in the same state: it makes no
\* difference at which shard the loops of applyInsertShards and applyDeleteShards
\* end, or in which order they come to the shards (map iteration decides).
THEOREM ReplicasConverge == Spec => []ReplicasAgree
  BY InvHolds, InvAgree, PTL

LEMMA ApplyWaits ==
  ASSUME Inv, NEW r \in Replica, Apply(r),
         NEW t \in Replica, currentConfig'[t] # currentConfig[t]
  PROVE  serves(stateMachines[t])
<1>1. PICK h : \E m \in Nat : History(group[r], h, m)
  BY GroupFacts DEF Inv
<1>2. PICK m \in Nat : History(group[r], h, m)
  BY <1>1
<1>3. lastApplied[r] \in 0..m /\ isState(group[r], state(r)) /\ state(r) = h[lastApplied[r]]
  BY <1>2 DEF History
<1>4. Len(log[group[r]]) \in Nat /\ group[r] \in Group
  BY GroupFacts, LenProperties DEF Inv, Types
<1>5. applied(r)
  BY ApplyIsApplied
<1>6. lastApplied[r] < Len(log[group[r]])
  BY <1>5 DEF applied
<1>7. state(t)' # state(t)
  BY DEF state
<1>8. t = r
  BY <1>5, <1>7 DEF applied
<1>9. next(r).op = "Configuration" /\ next(r).num = currentConfig[r] + 1
  <2>1. currentConfig' # currentConfig
    OBVIOUS
  <2>2. ApplyConfiguration(r)
    BY <2>1 DEF Apply, RefuseOperation, SkipDuplicate, ApplyOperation,
       ApplyInsertShards, ApplyDeleteShards
  <2>3. next(r).op = "Configuration"
    BY <2>2 DEF ApplyConfiguration, applies
  <2>4. next(r).num = currentConfig[r] + 1
    BY <2>1, <2>2 DEF ApplyConfiguration
  <2>. QED
    BY <2>3, <2>4
<1>10. h[lastApplied[r]].current = currentConfig[r] /\ h[lastApplied[r]].shards = stateMachines[r]
  BY <1>3 DEF state
<1>11. serves(h[lastApplied[r]].shards)
  BY <1>2, <1>3, <1>4, <1>6, <1>9, <1>10, ConfigurationIsDue DEF next
<1>. QED
  BY <1>8, <1>10, <1>11

LEMMA NextWaits ==
  Inv /\ [Next]_vars =>
    \A r \in Replica : currentConfig'[r] # currentConfig[r] =>
      \A s \in Shard : stateMachines[r][s].status = "Serving"
<1>. SUFFICES ASSUME Inv, [Next]_vars, NEW t \in Replica,
                     currentConfig'[t] # currentConfig[t]
              PROVE  serves(stateMachines[t])
  BY DEF serves
<1>1. CASE \E r \in Replica : Apply(r)
  BY <1>1, ApplyWaits
<1>2. CASE ~\E r \in Replica : Apply(r)
  <2>1. UNCHANGED replicaVars
    BY <1>2, NextGrows DEF grows
  <2>. QED
    BY <2>1 DEF replicaVars
<1>. QED
  BY <1>1, <1>2

\* No configuration overtakes a migration: configureAction looks at the shards'
\* status long before the configuration it asks for is applied, and although
\* applyConfiguration does not look again, they still have it by then.
THEOREM NoConfigurationOvertakes == Spec => ConfigurationWaits
  BY InvHolds, NextWaits, PTL DEF Spec, ConfigurationWaits

-----------------------------------------------------------------------------
(* The types *)

isTyped(cmd) ==
  /\ cmd.op = "Operation" => cmd.clerk \in Clerk /\ cmd.id \in Nat /\ cmd.request \in Request
  /\ cmd.op = "Configuration" => cmd.num \in 0..Len(Configs)
  /\ cmd.op = "InsertShards" => /\ \A s \in cmd.shardIds : cmd.shards[s] \in KV
                                /\ cmd.lastOperations \in [Clerk -> Int]

\* Entry k is in the log of g.
isEntry(g, k) == g \in Group /\ k \in 1..Len(log[g])

\* It is after the step, in which g and k may be those that the step chooses.
willBeEntry(g, k) == g \in Group /\ k \in 1..Len(log'[g])

LogTypes == \A g \in Group : \A k \in 1..Len(log[g]) : isTyped(log[g][k])

TaskTypes ==
  \A t \in tasks : /\ t.type = "Execute" => isTyped(t.command)
                   /\ t.type = "AwaitDeletion" => isEntry(t.to, t.entry[2])

ClerkTypes ==
  /\ config \in [Clerk -> 0..Len(Configs)]
  /\ commandId \in [Clerk -> Nat]
  /\ request \in [Clerk -> Request \cup {Nil}]
  /\ reply \in [Clerk -> {"OK", "ErrWrongGroup", Nil}]
  /\ DOMAIN call = Clerk
  /\ \A c \in Clerk : call[c] # <<>> => isEntry(call[c][1], call[c][2])

ReplicaTypes ==
  /\ lastApplied \in [Replica -> Nat]
  /\ \A r \in Replica : lastApplied[r] <= Len(log[group[r]])
  /\ lastConfig \in [Replica -> 0..Len(Configs)]
  /\ currentConfig \in [Replica -> 0..Len(Configs)]
  /\ stateMachines \in [Replica -> [Shard -> [kv : KV, status : Status]]]
  /\ lastOperations \in [Replica -> [Clerk -> Int]]

TypeInv ==
  /\ LogTypes /\ TaskTypes /\ ClerkTypes /\ ReplicaTypes
  /\ published \in 0..Len(Configs) /\ effects \in [Shard -> KV]

LEMMA ConfigsLength == Len(Configs) \in Nat /\ 0 \in 0..Len(Configs)
<1>1. Len(Configs) \in Nat
  BY ConfigAssumption, LenProperties
<1>. QED
  BY <1>1, SMT

LEMMA TypeFollows == Inv /\ TypeInv => TypeOK
<1>. SUFFICES ASSUME Inv, TypeInv PROVE TypeOK
  OBVIOUS
<1>1. \A g \in Group : DOMAIN log[g] = 1..Len(log[g])
  BY LenProperties DEF Inv, Types
<1>. QED
  BY <1>1 DEF TypeInv, TaskTypes, ClerkTypes, ReplicaTypes, isEntry, TypeOK

LEMMA TypeInit == Init => TypeInv
<1>. SUFFICES ASSUME Init PROVE TypeInv
  OBVIOUS
<1>1. \A g \in Group : log[g] = <<>> /\ Len(log[g]) = 0
  BY EmptySeq DEF Init
<1>2. LogTypes /\ TaskTypes
  BY <1>1 DEF Init, LogTypes, TaskTypes
<1>3. ClerkTypes
  BY ConfigsLength DEF Init, ClerkTypes
<1>4. <<>> \in KV
  BY EmptySeq DEF KV
<1>5. ReplicaTypes
  <2>1. NewShard \in [kv : KV, status : Status]
    BY <1>4 DEF NewShard, Status
  <2>2. \A r \in Replica : lastApplied[r] <= Len(log[group[r]])
    BY <1>1, GroupFacts DEF Init
  <2>. QED
    BY <2>1, <2>2, ConfigsLength DEF Init, ReplicaTypes
<1>. QED
  BY <1>2, <1>3, <1>4, <1>5, ConfigsLength DEF Init, TypeInv

\* Entries stay where they are.
LEMMA EntryStays == ASSUME logGrows, Inv, NEW g, NEW k, isEntry(g, k) PROVE willBeEntry(g, k)
<1>1. g \in Group /\ Len(log[g]) <= Len(log'[g]) /\ k \in 1..Len(log[g])
  BY DEF logGrows, isEntry
<1>2. Len(log[g]) \in Nat /\ Len(log'[g]) \in Nat
  BY <1>1, LenProperties DEF Inv, Types, logGrows
<1>. QED
  BY <1>1, <1>2, SMT DEF isEntry, willBeEntry

\* The entry that start adds.
LEMMA StartEntry ==
  ASSUME Inv, NEW g \in Group, NEW cmd, start(g, cmd)
  PROVE  willBeEntry(g, Len(log'[g])) /\ log'[g][Len(log'[g])] = cmd
<1>1. Types /\ log' = [log EXCEPT ![g] = Append(@, cmd)]
  BY DEF Inv, start
<1>2. log'[g] = Append(log[g], cmd)
  BY <1>1 DEF Types
<1>3. PICK S : log[g] \in Seq(S)
  BY <1>1 DEF Types
<1>4. log[g] \in Seq(S \cup {cmd}) /\ cmd \in S \cup {cmd}
  BY <1>3, SeqMonotonic
<1>5. /\ Len(log[g]) \in Nat /\ Len(log'[g]) = Len(log[g]) + 1
      /\ log'[g][Len(log[g]) + 1] = cmd
  BY <1>2, <1>4, AppendProperties, LenProperties
<1>6. Len(log'[g]) \in 1..Len(log'[g])
  BY <1>5, SMT
<1>. QED
  BY <1>5, <1>6 DEF willBeEntry

LEMMA StartTypes ==
  ASSUME Inv, LogTypes, NEW g \in Group, NEW cmd, start(g, cmd), isTyped(cmd)
  PROVE  LogTypes'
<1>1. ASSUME NEW f \in Group, NEW k \in 1..Len(log'[f]) PROVE isTyped(log'[f][k])
  BY StartEntries DEF LogTypes
<1>. QED
  BY <1>1 DEF LogTypes, isTyped

LEMMA SameReplicaTypes ==
  ASSUME Inv, ReplicaTypes, UNCHANGED replicaVars, logGrows
  PROVE  ReplicaTypes'
<1>1. UNCHANGED <<lastApplied, lastConfig, currentConfig, stateMachines, lastOperations>>
  BY DEF replicaVars
<1>2. ASSUME NEW r \in Replica PROVE lastApplied[r] <= Len(log'[group[r]])
  <2>1. /\ Len(log[group[r]]) \in Nat /\ Len(log'[group[r]]) \in Nat
        /\ Len(log[group[r]]) <= Len(log'[group[r]])
    BY GroupFacts, LenProperties DEF Inv, Types, logGrows
  <2>2. lastApplied[r] \in Nat /\ lastApplied[r] <= Len(log[group[r]])
    BY DEF ReplicaTypes
  <2>. QED
    BY <2>1, <2>2, SMT
<1>. QED
  BY <1>1, <1>2 DEF ReplicaTypes

LEMMA ClerksTypes == ASSUME Inv, TypeInv, Clerks PROVE TypeInv'
<1>1. UNCHANGED <<published, tasks, effects>>
  BY DEF Clerks, Begin, AnswerDuplicate, Call, Return, WrongGroup, Timeout, Refresh, giveUp
<1>2. grows
  BY ClerksGrow
<1>3. ReplicaTypes' /\ TaskTypes'
  BY <1>1, <1>2, SameReplicaTypes, EntryStays
  DEF TypeInv, TaskTypes, grows, isTyped, isEntry, willBeEntry
<1>4. \A g, k : isEntry(g, k) => willBeEntry(g, k)
  BY <1>2, EntryStays DEF grows
<1>5. PICK c \in Clerk :
        \/ \E q \in Request : Begin(c, q)
        \/ \E r \in Replica : AnswerDuplicate(c, r) \/ Call(c, r)
        \/ Return(c) \/ WrongGroup(c) \/ Timeout(c) \/ Refresh(c)
  BY DEF Clerks
<1>6. CASE \E r \in Replica : Call(c, r)
  <2>1. PICK r \in Replica : Call(c, r)
    BY <1>6
  <2>. DEFINE cmd == [op |-> "Operation", clerk |-> c, id |-> commandId[c],
                      request |-> request[c]]
  <2>2. /\ start(group[r], cmd) /\ call' = [call EXCEPT ![c] = lastEntry(group[r])]
        /\ request[c] # Nil /\ UNCHANGED <<config, commandId, request, reply>>
    BY <2>1 DEF Call, isCalling
  <2>3. isTyped(cmd)
    BY <2>2 DEF isTyped, TypeInv, ClerkTypes
  <2>. HIDE DEF cmd
  <2>4. LogTypes'
    BY <2>2, <2>3, StartTypes, GroupFacts DEF TypeInv
  <2>5. willBeEntry(call'[c][1], call'[c][2])
    <3>1. call'[c] = <<group[r], Len(log'[group[r]])>>
      BY <2>2 DEF TypeInv, ClerkTypes, lastEntry
    <3>2. willBeEntry(group[r], Len(log'[group[r]]))
      BY <2>2, StartEntry, GroupFacts
    <3>. QED
      BY <3>1, <3>2
  <2>6. ClerkTypes'
    <3>1. ASSUME NEW d \in Clerk, call'[d] # <<>> PROVE willBeEntry(call'[d][1], call'[d][2])
      <4>1. CASE d = c
        BY <2>5, <4>1
      <4>2. CASE d # c
        <5>1. call'[d] = call[d]
          BY <2>2, <4>2 DEF TypeInv, ClerkTypes
        <5>. QED
          BY <1>4, <3>1, <5>1 DEF TypeInv, ClerkTypes
      <4>. QED
        BY <4>1, <4>2
    <3>. QED
      <4>1. DOMAIN call' = Clerk
        BY <2>2 DEF TypeInv, ClerkTypes
      <4>. QED
        BY <2>2, <3>1, <4>1 DEF TypeInv, ClerkTypes, isEntry, willBeEntry
  <2>. QED
    BY <1>1, <1>3, <2>4, <2>6 DEF TypeInv
<1>7. CASE ~\E r \in Replica : Call(c, r)
  <2>1. log' = log
    BY <1>5, <1>7 DEF Begin, AnswerDuplicate, Return, WrongGroup, Timeout, Refresh, giveUp
  <2>2. LogTypes'
    BY <2>1 DEF TypeInv, LogTypes, isTyped
  <2>3. DOMAIN call' = Clerk /\ \A d \in Clerk : call'[d] # <<>> => call'[d] = call[d]
    BY <1>5, <1>7
    DEF TypeInv, ClerkTypes, Begin, AnswerDuplicate, Return, WrongGroup, Timeout, Refresh,
        giveUp, finish
  <2>4. /\ config' \in [Clerk -> 0..Len(Configs)] /\ commandId' \in [Clerk -> Nat]
        /\ request' \in [Clerk -> Request \cup {Nil}]
        /\ reply' \in [Clerk -> {"OK", "ErrWrongGroup", Nil}]
    <3>1. CASE \E q \in Request : Begin(c, q)
      BY <3>1 DEF Begin, TypeInv, ClerkTypes
    <3>2. CASE finish(c)
      BY <3>2 DEF finish, TypeInv, ClerkTypes
    <3>3. CASE WrongGroup(c) \/ Timeout(c) \/ Refresh(c)
      BY <3>3 DEF WrongGroup, Timeout, Refresh, giveUp, requery, TypeInv, ClerkTypes
    <3>4. (\E r \in Replica : AnswerDuplicate(c, r)) \/ Return(c) => finish(c)
      BY DEF AnswerDuplicate, Return
    <3>. QED
      BY <1>5, <1>7, <3>1, <3>2, <3>3, <3>4
  <2>5. ClerkTypes'
    <3>1. \A d \in Clerk : call'[d] # <<>> => willBeEntry(call'[d][1], call'[d][2])
      BY <1>4, <2>3 DEF TypeInv, ClerkTypes
    <3>. QED
      BY <2>3, <2>4, <3>1 DEF ClerkTypes, isEntry, willBeEntry
  <2>. QED
    BY <1>1, <1>3, <2>2, <2>5 DEF TypeInv
<1>. QED
  BY <1>6, <1>7

\* A step that leaves the clerks alone, and the replicas.
LEMMA GrowsTypes ==
  ASSUME Inv, TypeInv, grows, UNCHANGED <<published, clerkVars, effects>>,
         LogTypes', TaskTypes'
  PROVE  TypeInv'
<1>1. ReplicaTypes'
  BY SameReplicaTypes DEF TypeInv, grows
<1>2. ClerkTypes'
  BY EntryStays DEF TypeInv, ClerkTypes, grows, clerkVars, isEntry, willBeEntry
<1>. QED
  BY <1>1, <1>2 DEF TypeInv

LEMMA ExecuteTypes == ASSUME Inv, TypeInv, NEW t \in tasks, Execute(t) PROVE TypeInv'
<1>1. /\ t.type = "Execute" /\ start(t.group, t.command) /\ tasks' = tasks \ {t}
      /\ UNCHANGED <<published, clerkVars, effects>>
  BY DEF Execute
<1>2. t.group \in Group /\ isTyped(t.command)
  BY <1>1 DEF Inv, Commands, isTask, TypeInv, TaskTypes
<1>3. LogTypes'
  BY <1>1, <1>2, StartTypes DEF TypeInv
<1>4. grows
  BY ExecuteGrows
<1>5. TaskTypes'
  BY <1>1, <1>4, EntryStays DEF TypeInv, TaskTypes, grows, isTyped, isEntry, willBeEntry
<1>. QED
  BY <1>1, <1>3, <1>4, <1>5, GrowsTypes

LEMMA MonitorTypes ==
  ASSUME Inv, TypeInv, NEW r \in Replica,
         ConfigureAction(r) \/ \E g \in Group : MigrationAction(r, g) \/ GcAction(r, g)
  PROVE  TypeInv'
<1>1. UNCHANGED <<published, log, clerkVars, effects>>
  BY DEF ConfigureAction, MigrationAction, GcAction, shardOperation, addTask
<1>2. grows
  BY MonitorGrows
<1>3. LogTypes'
  BY <1>1 DEF TypeInv, LogTypes, isTyped
<1>4. PICK t : /\ tasks' = tasks \cup {t} /\ t.type # "AwaitDeletion"
               /\ t.type = "Execute" => isTyped(t.command)
  <2>1. CASE ConfigureAction(r)
    <3>. DEFINE cmd == [op |-> "Configuration", num |-> currentConfig[r] + 1]
                t == execution(group[r], cmd)
    <3>1. tasks' = tasks \cup {t} /\ currentConfig[r] + 1 <= published
      BY <2>1 DEF ConfigureAction, addTask
    <3>2. currentConfig[r] \in 0..Len(Configs) /\ published \in 0..Len(Configs)
      BY DEF TypeInv, ReplicaTypes
    <3>3. currentConfig[r] + 1 \in 0..Len(Configs)
      BY <3>1, <3>2, ConfigsLength, SMT
    <3>4. isTyped(cmd)
      BY <3>3 DEF isTyped
    <3>5. t.type = "Execute" /\ t.command = cmd
      BY DEF execution
    <3>6. t.type # "AwaitDeletion"
      BY <3>5
    <3>7. t.type = "Execute" => isTyped(t.command)
      BY <3>4, <3>5
    <3>. HIDE DEF t, cmd
    <3>. QED
      BY <3>1, <3>6, <3>7
  <2>2. CASE \E g \in Group : MigrationAction(r, g) \/ GcAction(r, g)
    <3>1. PICK g, type, status : /\ shardOperation(r, type, status, g)
                                 /\ type \in {"GetShardsData", "DeleteShardsData"}
      <4>1. PICK g \in Group : MigrationAction(r, g) \/ GcAction(r, g)
        BY <2>2
      <4>. QED
        BY <4>1 DEF MigrationAction, GcAction
    <3>. DEFINE t == [type |-> type, group |-> group[r], to |-> g,
                      configNum |-> currentConfig[r],
                      shardIds |-> shardIdsByStatus(r, status, g)]
    <3>2. tasks' = tasks \cup {t}
      BY <3>1 DEF shardOperation, addTask
    <3>3. t.type # "AwaitDeletion" /\ t.type # "Execute"
      BY <3>1
    <3>. HIDE DEF t
    <3>. QED
      BY <3>2, <3>3
  <2>. QED
    BY <2>1, <2>2
<1>5. TaskTypes'
  BY <1>2, <1>4, EntryStays DEF TypeInv, TaskTypes, grows, isTyped, isEntry, willBeEntry
<1>. QED
  BY <1>1, <1>2, <1>3, <1>5, GrowsTypes

LEMMA ServeTypes ==
  ASSUME Inv, TypeInv, NEW t \in tasks, NEW r \in Replica,
         GetShardsData(r, t) \/ ConfirmDeletion(r, t) \/ StartDeletion(r, t)
           \/ FinishDeletion(r, t)
  PROVE  TypeInv'
<1>1. t.type # "Execute" /\ UNCHANGED <<published, clerkVars, effects>>
  BY DEF GetShardsData, ConfirmDeletion, StartDeletion, FinishDeletion
<1>2. grows
  BY ServeGrows
<1>3. \A x : isTyped(x)' <=> isTyped(x)
  BY DEF isTyped
<1>4. ASSUME NEW x, tasks' = (tasks \ {t}) \cup {x},
             x.type = "Execute" => isTyped(x.command),
             x.type = "AwaitDeletion" => willBeEntry(x.to, x.entry[2])
      PROVE  TaskTypes'
  BY <1>2, <1>4, EntryStays DEF TypeInv, TaskTypes, grows, isTyped, isEntry, willBeEntry
<1>5. isTyped(deletion(t))
  BY DEF isTyped, deletion
<1>6. CASE GetShardsData(r, t)
  <2>. DEFINE cmd == [op |-> "InsertShards", configNum |-> t.configNum,
                      shardIds |-> t.shardIds,
                      shards |-> [s \in t.shardIds |-> stateMachines[r][s].kv],
                      lastOperations |-> lastOperations[r]]
              x == execution(t.group, cmd)
  <2>1. log' = log /\ tasks' = (tasks \ {t}) \cup {x}
    BY <1>6 DEF GetShardsData
  <2>2. t.shardIds \subseteq Shard
    BY <1>1 DEF Inv, Commands, isTask, isMove, moving
  <2>3. \A s \in t.shardIds : cmd.shards[s] = stateMachines[r][s].kv
    OBVIOUS
  <2>4. \A s \in t.shardIds : stateMachines[r][s].kv \in KV
    BY <2>2 DEF TypeInv, ReplicaTypes
  <2>5. lastOperations[r] \in [Clerk -> Int]
    BY DEF TypeInv, ReplicaTypes
  <2>6. isTyped(cmd)
    BY <2>3, <2>4, <2>5 DEF isTyped
  <2>7. x.type = "Execute" /\ x.command = cmd
    BY DEF execution
  <2>. HIDE DEF cmd, x
  <2>8. TaskTypes'
    BY <1>4, <2>1, <2>6, <2>7
  <2>9. LogTypes'
    BY <1>3, <2>1 DEF TypeInv, LogTypes
  <2>. QED
    BY <1>1, <1>2, <2>8, <2>9, GrowsTypes
<1>7. CASE ConfirmDeletion(r, t) \/ FinishDeletion(r, t)
  <2>. DEFINE x == execution(t.group, deletion(t))
  <2>1. log' = log /\ tasks' = (tasks \ {t}) \cup {x}
    BY <1>7 DEF ConfirmDeletion, FinishDeletion, deleteLocally
  <2>2. x.type = "Execute" /\ x.command = deletion(t)
    BY DEF execution
  <2>. HIDE DEF x
  <2>3. TaskTypes'
    BY <1>4, <1>5, <2>1, <2>2
  <2>4. LogTypes'
    BY <1>3, <2>1 DEF TypeInv, LogTypes
  <2>. QED
    BY <1>1, <1>2, <2>3, <2>4, GrowsTypes
<1>8. CASE StartDeletion(r, t)
  <2>. DEFINE x == [type |-> "AwaitDeletion", group |-> t.group, to |-> t.to,
                    configNum |-> t.configNum, shardIds |-> t.shardIds,
                    entry |-> lastEntry(t.to)]
  <2>1. t.to \in Group /\ start(t.to, deletion(t)) /\ tasks' = (tasks \ {t}) \cup {x}
    BY <1>8, GroupFacts DEF StartDeletion
  <2>2. x.type = "AwaitDeletion" /\ x.to = t.to /\ x.entry[2] = Len(log'[t.to])
    BY DEF lastEntry
  <2>. HIDE DEF x
  <2>3. willBeEntry(t.to, Len(log'[t.to]))
    BY <2>1, StartEntry
  <2>4. willBeEntry(x.to, x.entry[2])
    BY <2>2, <2>3
  <2>5. TaskTypes'
    BY <1>4, <2>1, <2>2, <2>4
  <2>6. LogTypes'
    BY <1>5, <2>1, StartTypes DEF TypeInv
  <2>. QED
    BY <1>1, <1>2, <2>5, <2>6, GrowsTypes
<1>. QED
  BY <1>6, <1>7, <1>8

LEMMA ShardFields ==
  ASSUME NEW x \in [kv : KV, status : Status], NEW v \in KV, NEW u \in Status
  PROVE  /\ [x EXCEPT !.kv = v] \in [kv : KV, status : Status]
         /\ [x EXCEPT !.status = u] \in [kv : KV, status : Status]
<1>1. /\ [x EXCEPT !.kv = v] = [kv |-> v, status |-> x.status]
      /\ [x EXCEPT !.status = u] = [kv |-> x.kv, status |-> u]
  OBVIOUS
<1>. QED
  BY <1>1

\* What an operation makes of the value of a shard.
LEMMA WrittenType ==
  ASSUME NEW cmd, cmd.op = "Operation", isTyped(cmd), NEW kv \in KV
  PROVE  written(cmd, kv) \in KV
<1>. DEFINE v == <<cmd.clerk, cmd.id>>
<1>1. v \in Clerk \X Nat /\ cmd.request.op \in {"Get", "Put", "Append"}
  BY RequestAssumption DEF isTyped
<1>. HIDE DEF v
<1>2. <<v>> \in KV /\ Append(kv, v) \in KV
  BY <1>1, SMT DEF KV
<1>. QED
  BY <1>1, <1>2 DEF written, v

LEMMA NextTyped ==
  ASSUME Inv, TypeInv, NEW r \in Replica, Apply(r)
  PROVE  isEntry(group[r], lastApplied[r] + 1) /\ isTyped(next(r))
<1>1. applied(r) /\ group[r] \in Group
  BY ApplyIsApplied, GroupFacts
<1>2. /\ lastApplied[r] \in Nat /\ lastApplied[r] < Len(log[group[r]])
      /\ Len(log[group[r]]) \in Nat
  BY <1>1, LenProperties DEF applied, TypeInv, ReplicaTypes, Inv, Types
<1>3. lastApplied[r] + 1 \in 1..Len(log[group[r]])
  BY <1>2, SMT
<1>. QED
  BY <1>1, <1>3 DEF TypeInv, LogTypes, next, isEntry

LEMMA ApplyTypes == ASSUME Inv, TypeInv, NEW r \in Replica, Apply(r) PROVE TypeInv'
<1>. DEFINE cmd == next(r)
            Op == cmd.op
<1>1. /\ applied(r) /\ log' = log /\ tasks' = tasks /\ group[r] \in Group
      /\ UNCHANGED <<published, config, commandId, request, call>>
      /\ lastApplied' = [lastApplied EXCEPT ![r] = @ + 1]
  BY ApplyIsApplied, GroupFacts
  DEF applied, Apply, RefuseOperation, SkipDuplicate, ApplyOperation, ApplyConfiguration,
      ApplyInsertShards, ApplyDeleteShards, applies
<1>2. LogTypes' /\ TaskTypes'
  BY <1>1 DEF TypeInv, LogTypes, TaskTypes, isTyped, isEntry
<1>3. /\ lastApplied' \in [Replica -> Nat]
      /\ \A t \in Replica : lastApplied'[t] <= Len(log'[group[t]])
  <2>1. lastApplied[r] \in Nat /\ lastApplied[r] < Len(log[group[r]]) /\ Len(log[group[r]]) \in Nat
    BY <1>1, LenProperties DEF applied, TypeInv, ReplicaTypes, Inv, Types
  <2>2. lastApplied[r] + 1 \in Nat /\ lastApplied[r] + 1 <= Len(log[group[r]])
    BY <2>1, SMT
  <2>. QED
    BY <1>1, <2>2 DEF TypeInv, ReplicaTypes
<1>4. isTyped(cmd)
  BY NextTyped
<1>5. ClerkTypes'
  <2>1. reply' \in [Clerk -> {"OK", "ErrWrongGroup", Nil}]
    BY DEF TypeInv, ClerkTypes, Apply, RefuseOperation, SkipDuplicate, ApplyOperation,
       ApplyConfiguration, ApplyInsertShards, ApplyDeleteShards, notify
  <2>. QED
    BY <1>1, <2>1 DEF TypeInv, ClerkTypes, isEntry
<1>6. /\ stateMachines \in [Replica -> [Shard -> [kv : KV, status : Status]]]
      /\ lastOperations \in [Replica -> [Clerk -> Int]]
      /\ lastConfig \in [Replica -> 0..Len(Configs)]
      /\ currentConfig \in [Replica -> 0..Len(Configs)]
      /\ effects \in [Shard -> KV]
  BY DEF TypeInv, ReplicaTypes
<1>7. ASSUME NEW f \in [Shard -> [kv : KV, status : Status]],
             stateMachines' = [stateMachines EXCEPT ![r] = f]
      PROVE  stateMachines' \in [Replica -> [Shard -> [kv : KV, status : Status]]]
  BY <1>6, <1>7
<1>. HIDE DEF cmd
<1>8. /\ stateMachines' \in [Replica -> [Shard -> [kv : KV, status : Status]]]
      /\ lastOperations' \in [Replica -> [Clerk -> Int]]
      /\ lastConfig' \in [Replica -> 0..Len(Configs)]
      /\ currentConfig' \in [Replica -> 0..Len(Configs)]
      /\ effects' \in [Shard -> KV]
  <2>1. CASE RefuseOperation(r) \/ SkipDuplicate(r)
    BY <1>6, <2>1 DEF RefuseOperation, SkipDuplicate
  <2>2. CASE ApplyOperation(r)
    <3>. DEFINE x == cmd.request.shard
    <3>1. /\ cmd.op = "Operation" /\ UNCHANGED <<lastConfig, currentConfig>>
          /\ stateMachines' = [stateMachines EXCEPT ![r][x].kv = written(cmd, @)]
          /\ lastOperations' = IF cmd.request.op = "Get" THEN lastOperations
                               ELSE [lastOperations EXCEPT ![r][cmd.clerk] = cmd.id]
          /\ effects' = IF isFirst(r) THEN [effects EXCEPT ![x] = written(cmd, @)]
                        ELSE effects
      BY <2>2 DEF ApplyOperation, applies, cmd
    <3>2. x \in Shard /\ cmd.clerk \in Clerk /\ cmd.id \in Int
      BY <1>4, <3>1, RequestAssumption DEF isTyped
    <3>3. written(cmd, stateMachines[r][x].kv) \in KV /\ written(cmd, effects[x]) \in KV
      BY <1>4, <1>6, <3>1, <3>2, WrittenType
    <3>. HIDE DEF x
    <3>4. stateMachines' \in [Replica -> [Shard -> [kv : KV, status : Status]]]
      <4>. DEFINE f == [stateMachines[r] EXCEPT ![x].kv = written(cmd, stateMachines[r][x].kv)]
      <4>1. stateMachines' = [stateMachines EXCEPT ![r] = f]
        BY <1>6, <3>1, <3>2
      <4>2. [stateMachines[r][x] EXCEPT !.kv = written(cmd, stateMachines[r][x].kv)]
              \in [kv : KV, status : Status]
        <5>1. stateMachines[r][x] \in [kv : KV, status : Status]
          BY <1>6, <3>2
        <5>2. "Serving" \in Status
          BY DEF Status
        <5>. QED
          BY <3>3, <5>1, <5>2, ShardFields
      <4>3. f \in [Shard -> [kv : KV, status : Status]]
        BY <1>6, <3>2, <4>2
      <4>. HIDE DEF f
      <4>. QED
        BY <1>7, <4>1, <4>3
    <3>5. lastOperations' \in [Replica -> [Clerk -> Int]]
      BY <1>6, <3>1, <3>2
    <3>6. effects' \in [Shard -> KV]
      BY <1>6, <3>1, <3>2, <3>3
    <3>. QED
      BY <1>6, <3>1, <3>4, <3>5, <3>6
  <2>3. CASE ApplyConfiguration(r)
    <3>1. CASE cmd.num # currentConfig[r] + 1
      BY <1>6, <2>3, <3>1 DEF ApplyConfiguration, cmd
    <3>2. CASE cmd.num = currentConfig[r] + 1
      <4>. DEFINE f == [s \in Shard |-> [stateMachines[r][s] EXCEPT !.status =
                          nextStatus(r, s, owner(currentConfig[r], s), owner(cmd.num, s))]]
      <4>1. /\ cmd.op = "Configuration"
            /\ stateMachines' = [stateMachines EXCEPT ![r] = f]
            /\ lastConfig' = [lastConfig EXCEPT ![r] = currentConfig[r]]
            /\ currentConfig' = [currentConfig EXCEPT ![r] = cmd.num]
            /\ UNCHANGED <<lastOperations, effects>>
        BY <1>6, <2>3, <3>2 DEF ApplyConfiguration, applies, cmd
      <4>2. cmd.num \in 0..Len(Configs)
        BY <1>4, <4>1 DEF isTyped
      <4>3. f \in [Shard -> [kv : KV, status : Status]]
        <5>1. \A s, old, new : s \in Shard => nextStatus(r, s, old, new) \in Status
          BY <1>6 DEF nextStatus, Status
        <5>2. ASSUME NEW s \in Shard, NEW u \in Status
              PROVE  [stateMachines[r][s] EXCEPT !.status = u] \in [kv : KV, status : Status]
          <6>1. stateMachines[r][s] \in [kv : KV, status : Status]
            BY <1>6
          <6>2. stateMachines[r][s].kv \in KV
            BY <6>1
          <6>. QED
            BY <6>1, <6>2, ShardFields
        <5>. QED
          BY <5>1, <5>2
      <4>. HIDE DEF f
      <4>4. stateMachines' \in [Replica -> [Shard -> [kv : KV, status : Status]]]
        BY <1>7, <4>1, <4>3
      <4>. QED
        BY <1>6, <4>1, <4>2, <4>4
    <3>. QED
      BY <3>1, <3>2
  <2>4. CASE ApplyInsertShards(r)
    <3>1. UNCHANGED <<lastConfig, currentConfig, effects>> /\ cmd.op = "InsertShards"
      BY <2>4 DEF ApplyInsertShards, applies, cmd
    <3>2. CASE ~isCurrent(r, cmd.configNum)
      BY <1>6, <2>4, <3>1, <3>2 DEF ApplyInsertShards, cmd
    <3>3. CASE isCurrent(r, cmd.configNum)
      <4>1. PICK S \in handled(r, cmd.shardIds, {"Pulling"}) :
              stateMachines' = [stateMachines EXCEPT ![r] = [s \in Shard |->
                IF s \in S THEN inserted(@[s], cmd.shards[s]) ELSE @[s]]]
        BY <2>4, <3>3 DEF ApplyInsertShards, cmd
      <4>. DEFINE f == [s \in Shard |-> IF s \in S THEN inserted(stateMachines[r][s], cmd.shards[s])
                                        ELSE stateMachines[r][s]]
      <4>2. stateMachines' = [stateMachines EXCEPT ![r] = f]
        BY <1>6, <4>1
      <4>3. \A s \in S : cmd.shards[s] \in KV
        BY <1>4, <3>1 DEF isTyped, handled
      <4>4. f \in [Shard -> [kv : KV, status : Status]]
        BY <1>6, <4>3 DEF inserted, Status
      <4>. HIDE DEF f
      <4>5. stateMachines' \in [Replica -> [Shard -> [kv : KV, status : Status]]]
        BY <1>7, <4>2, <4>4
      <4>6. lastOperations' = [lastOperations EXCEPT ![r] =
                                 mergedOperations(lastOperations[r], cmd.lastOperations)]
        BY <1>6, <2>4, <3>3 DEF ApplyInsertShards, cmd
      <4>7. mergedOperations(lastOperations[r], cmd.lastOperations) \in [Clerk -> Int]
        BY <1>4, <1>6, <3>1 DEF isTyped, mergedOperations
      <4>. QED
        BY <1>6, <3>1, <4>5, <4>6, <4>7
    <3>. QED
      BY <3>2, <3>3
  <2>5. CASE ApplyDeleteShards(r)
    <3>1. UNCHANGED <<lastConfig, currentConfig, lastOperations, effects>>
      BY <2>5 DEF ApplyDeleteShards
    <3>2. CASE ~isCurrent(r, cmd.configNum)
      BY <1>6, <2>5, <3>1, <3>2 DEF ApplyDeleteShards, cmd
    <3>3. CASE isCurrent(r, cmd.configNum)
      <4>1. PICK S \in handled(r, cmd.shardIds, {"GCing", "BePulling"}) :
              stateMachines' = [stateMachines EXCEPT ![r] = [s \in Shard |->
                IF s \in S THEN deleted(@[s]) ELSE @[s]]]
        BY <2>5, <3>3 DEF ApplyDeleteShards, cmd
      <4>. DEFINE f == [s \in Shard |-> IF s \in S THEN deleted(stateMachines[r][s])
                                        ELSE stateMachines[r][s]]
      <4>2. stateMachines' = [stateMachines EXCEPT ![r] = f]
        BY <1>6, <4>1
      <4>3. <<>> \in KV
        BY EmptySeq DEF KV
      <4>4. f \in [Shard -> [kv : KV, status : Status]]
        <5>1. ASSUME NEW s \in Shard
              PROVE  deleted(stateMachines[r][s]) \in [kv : KV, status : Status]
          <6>1. stateMachines[r][s] \in [kv : KV, status : Status]
            BY <1>6
          <6>2. /\ NewShard \in [kv : KV, status : Status]
                /\ [stateMachines[r][s] EXCEPT !.status = "Serving"] \in [kv : KV, status : Status]
            BY <4>3, <6>1 DEF NewShard, Status
          <6>. QED
            BY <6>2 DEF deleted
        <5>. QED
          BY <1>6, <5>1
      <4>. HIDE DEF f
      <4>5. stateMachines' \in [Replica -> [Shard -> [kv : KV, status : Status]]]
        BY <1>7, <4>2, <4>4
      <4>. QED
        BY <1>6, <3>1, <4>5
    <3>. QED
      BY <3>2, <3>3
  <2>. QED
    BY <2>1, <2>2, <2>3, <2>4, <2>5 DEF Apply
<1>9. ReplicaTypes'
  BY <1>3, <1>8 DEF ReplicaTypes
<1>. QED
  BY <1>1, <1>2, <1>5, <1>8, <1>9 DEF TypeInv

LEMMA NextTypes == Inv /\ TypeInv /\ [Next]_vars => TypeInv'
<1>. SUFFICES ASSUME Inv, TypeInv, [Next]_vars PROVE TypeInv'
  OBVIOUS
<1>1. CASE Publish
  <2>1. /\ published' \in 0..Len(Configs) /\ UNCHANGED <<log, tasks, clerkVars, replicaVars, effects>>
    <3>1. published \in 0..Len(Configs) /\ published < Len(Configs) /\ published' = published + 1
      BY <1>1 DEF Publish, TypeInv
    <3>2. published' \in 0..Len(Configs)
      BY <3>1, ConfigsLength, SMT
    <3>. QED
      BY <1>1, <3>2 DEF Publish
  <2>. QED
    BY <2>1 DEF TypeInv, LogTypes, TaskTypes, ClerkTypes, ReplicaTypes, isTyped, isEntry,
       clerkVars, replicaVars
<1>2. CASE UNCHANGED vars
  BY <1>2 DEF vars, TypeInv, LogTypes, TaskTypes, ClerkTypes, ReplicaTypes, isTyped, isEntry,
     clerkVars, replicaVars
<1>3. CASE \/ \E r \in Replica : ConfigureAction(r)
           \/ \E r \in Replica, g \in Group : MigrationAction(r, g) \/ GcAction(r, g)
  BY <1>3, MonitorTypes
<1>4. CASE \E t \in tasks : Execute(t)
  BY <1>4, ExecuteTypes
<1>5. CASE \E t \in tasks : Serve(t)
  BY <1>5, ServeTypes DEF Serve
<1>. QED
  BY <1>1, <1>2, <1>3, <1>4, <1>5, ApplyTypes, ClerksTypes DEF Next

LEMMA TypeInvHolds == Spec => []TypeInv
  BY InitInv, NextInv, TypeInit, NextTypes, PTL DEF Spec

\* Every variable keeps its type, and whoever waits for an entry waits for one
\* that is in the log: Execute asks for the index that Start returned.
THEOREM TypesAreKept == Spec => []TypeOK
  BY InvHolds, TypeInvHolds, TypeFollows, PTL
=============================================================================
