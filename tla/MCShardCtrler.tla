---------------------------- MODULE MCShardCtrler ----------------------------
(* Instances of ShardCtrler for TLC. *)
EXTENDS ShardCtrler

CONSTANTS r1, r2, c1, c2

Join(groups) == [op |-> "Join", groups |-> groups]
Leave(gids) == [op |-> "Leave", gids |-> gids]

Joins == {Join({1}), Join({2})}

JoinAndLeave == {Join({1, 2}), Leave(<<2>>)}

\* Group 0 and two others join, at once or one after the other; a Leave of one,
\* of two and of all groups, one of them named twice; a Move to a group and to an unknown gid.
Requests ==
  {Join({0}), Join({1, 2}), Leave(<<2>>), Leave(<<1, 0>>), Leave(<<0, 1, 2, 1>>),
   [op |-> "Move", shard |-> 0, gid |-> 2], [op |-> "Query", num |-> 1]}
=============================================================================
