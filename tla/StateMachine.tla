---------------------------- MODULE StateMachine ----------------------------
(***************************************************************************)
(* What a replicated service promises of one replica: its state machine is *)
(* always the result of the commands the group has chosen, each applied    *)
(* once and in the order chosen; only a crash takes it back, and then to   *)
(* the last snapshot that was saved.                                       *)
(*                                                                         *)
(* A state is the sequence of the commands applied to reach it.            *)
(***************************************************************************)
EXTENDS Naturals, Sequences

CONSTANT Command

VARIABLES chosen,   \* the commands the group has chosen
          machine,  \* the commands the replica's state results from
          snapshot, \* those that its saved snapshot results from
          crashes   \* how often the replica has crashed

vars == <<chosen, machine, snapshot, crashes>>

firstOf(s, k) == SubSeq(s, 1, k)

Init ==
  /\ chosen = <<>> /\ machine = <<>> /\ snapshot = <<>>
  /\ crashes = 0

\* The group chooses more commands.
Choose ==
  /\ chosen' \in Seq(Command)
  /\ \E k \in 0..Len(chosen') : chosen = firstOf(chosen', k)
  /\ UNCHANGED <<machine, snapshot, crashes>>

Apply ==
  /\ Len(machine) < Len(chosen)
  /\ machine' = Append(machine, chosen[Len(machine) + 1])
  /\ UNCHANGED <<chosen, snapshot, crashes>>

\* A snapshot of the replica itself, or one that it was sent.
Save ==
  /\ \E k \in (Len(snapshot) + 1)..Len(chosen) : snapshot' = firstOf(chosen, k)
  /\ UNCHANGED <<chosen, machine, crashes>>

\* The replica goes on from the snapshot it was sent.
CatchUp ==
  /\ Len(machine) < Len(snapshot) /\ machine' = snapshot
  /\ UNCHANGED <<chosen, snapshot, crashes>>

Restart ==
  /\ machine' = snapshot /\ crashes' = crashes + 1
  /\ UNCHANGED <<chosen, snapshot>>

Next == Choose \/ Apply \/ Save \/ CatchUp \/ Restart

Spec == Init /\ [][Next]_vars
=============================================================================
