---------------------------- MODULE ReplicatedLog ----------------------------
(***************************************************************************)
(* What a consensus library promises the services on its nodes: one log,   *)
(* which only ever grows at its end, and of which every node knows a first *)
(* part.  Of that part a node may hold the beginning as a snapshot only.   *)
(* It learns more, entry by entry or by being handed a snapshot, and a     *)
(* restart takes it back to its snapshot and no further.                   *)
(***************************************************************************)
EXTENDS Naturals, Sequences

CONSTANTS Node, Entry

VARIABLES chosen, \* the log: the entries the group has chosen
          base,   \* by node: how many of them it holds as a snapshot only
          known   \* by node: the entries after these that it knows are chosen

vars == <<chosen, base, known>>

last(i) == base[i] + Len(known[i])

Init ==
  /\ chosen = <<>>
  /\ base = [i \in Node |-> 0]
  /\ known = [i \in Node |-> <<>>]

\* Node i now knows the first k entries, the first b of them as a snapshot.
knows(i, b, k) == known' = [known EXCEPT ![i] = SubSeq(chosen', b + 1, k)]

\* A node learns of more entries that they are chosen, or of none.
Learn(i) ==
  /\ UNCHANGED <<chosen, base>>
  /\ \E k \in last(i)..Len(chosen) : knows(i, base[i], k)

\* The group chooses more entries, and one node knows it.
Choose(i) ==
  /\ Len(chosen) < Len(chosen') /\ chosen = SubSeq(chosen', 1, Len(chosen))
  /\ chosen' \in Seq(Entry)
  /\ knows(i, base[i], Len(chosen'))
  /\ UNCHANGED base

\* The node replaces entries it knows by a snapshot.
Compact(i) ==
  /\ UNCHANGED chosen
  /\ \E k \in (base[i] + 1)..last(i) :
       base' = [base EXCEPT ![i] = k] /\ knows(i, k, last(i))

\* The node goes on from a snapshot it was sent.
Install(i) ==
  /\ UNCHANGED chosen
  /\ \E k \in (last(i) + 1)..Len(chosen) :
       base' = [base EXCEPT ![i] = k] /\ knows(i, k, k)

\* The node forgets all but its snapshot.
Restart(i) ==
  /\ UNCHANGED <<chosen, base>>
  /\ knows(i, base[i], base[i])

Next ==
  \E i \in Node :
    Learn(i) \/ Choose(i) \/ Compact(i) \/ Install(i) \/ Restart(i)

Spec == Init /\ [][Next]_vars
=============================================================================
