------------------------------ MODULE MCShardKV ------------------------------
(* Instances of ShardKV for TLC. *)
EXTENDS ShardKV

CONSTANTS a1, a2, b1, c1, x, y, z

\* Two servers of group 1 and one of group 2.
groups == [r \in Replica |-> IF r = b1 THEN 2 ELSE 1]

assign(gx, gy) ==
  [shards |-> [s \in Shard |-> CASE s = x -> gx [] s = y -> gy [] s = z -> 2],
   groups |-> {1, 2}]

\* Group 1 has x, group 2 has it, group 1 has it again.
ThereAndBack == <<assign(1, 1), assign(2, 1), assign(1, 1)>>

\* Each group has a shard, then they exchange them: each waits for the other.
\* Group 2 keeps a third.
Exchange == <<assign(1, 2), assign(2, 1)>>

\* What can still matter of a state: of a log, the entries that some replica has
\* not applied, and the commands that would be repeated if started again.
name(cmd) ==
  CASE cmd.op = "Operation"     -> <<cmd.clerk, cmd.id>>
    [] cmd.op = "Configuration" -> <<cmd.num>>
    [] OTHER -> <<cmd.op, cmd.configNum, cmd.shardIds>>

appliedByAll(g) == Min({lastApplied[r] : r \in {t \in Replica : group[t] = g}})

pending(g) == SubSeq(log[g], appliedByAll(g) + 1, Len(log[g]))

\* All of g have gone beyond the configuration to which cmd belongs.
isPast(g, cmd) ==
  \A r \in Replica : group[r] = g =>
    CASE cmd.op = "Operation"     -> FALSE
      [] cmd.op = "Configuration" -> currentConfig[r] >= cmd.num
      [] OTHER                    -> currentConfig[r] > cmd.configNum

started(g) ==
  {name(log[g][k]) : k \in {n \in DOMAIN log[g] : ~isPast(g, log[g][n])}}

\* What comes of t is only commands that change nothing.
isMoot(t) ==
  CASE t.type = "Execute"       -> isPast(t.group, t.command)
    [] t.type = "GetShardsData" -> isPast(t.group, deletion(t))
    [] OTHER -> isPast(t.group, deletion(t)) /\ isPast(t.to, deletion(t))

fromNow(g, index) == Max({0, index - appliedByAll(g)})

Relevant ==
  <<published, [g \in Group |-> <<pending(g), started(g)>>], repeats,
    [r \in Replica |-> fromNow(group[r], lastApplied[r])],
    lastConfig, currentConfig, stateMachines, lastOperations,
    {IF t.type = "AwaitDeletion" THEN [t EXCEPT !.entry[2] = fromNow(t.to, @)] ELSE t :
       t \in {u \in tasks : ~isMoot(u)}},
    config, commandId, request, reply,
    [c \in Clerk |-> IF call[c] = <<>> THEN <<>>
                     ELSE <<call[c][1], fromNow(call[c][1], call[c][2])>>],
    effects, answered>>

\* The clients only append, so that an operation applied twice shows.
Appends == {[op |-> "Append", shard |-> x]}

\* The instance starts when all replicas have applied the first configuration, for
\* which no shard has to be moved.
AfterFirst ==
  /\ published = 1
  /\ log = [g \in Group |-> <<[op |-> "Configuration", num |-> 1]>>]
  /\ lastApplied = [r \in Replica |-> 1]
  /\ lastConfig = [r \in Replica |-> 0]
  /\ currentConfig = [r \in Replica |-> 1]
  /\ stateMachines = [r \in Replica |-> [s \in Shard |-> NewShard]]
  /\ lastOperations = [r \in Replica |-> [c \in Clerk |-> -1]]
  /\ tasks = {}
  /\ config = [c \in Clerk |-> 0]
  /\ commandId = [c \in Clerk |-> 0]
  /\ request = [c \in Clerk |-> Nil]
  /\ call = [c \in Clerk |-> <<>>]
  /\ reply = [c \in Clerk |-> Nil]
  /\ effects = [s \in Shard |-> <<>>]
  /\ answered = {}

MCSpec == AfterFirst /\ [][Next]_vars /\ Fairness
=============================================================================
