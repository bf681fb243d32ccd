-------------------------- MODULE ApplyPathProofs --------------------------
(***************************************************************************)
(* Proofs about ApplyPath, for any callers of Execute, commands, snapshot  *)
(* points and bounds: the types, the slice of Raft's applier, the sends of *)
(* the service's applier, and that the state machine is the result of the  *)
(* chosen commands (module StateMachine); and that a call gets its own     *)
(* response.                                                               *)
(*                                                                         *)
(* Everything that is on its way to the state machine is compared with     *)
(* `chosen` entry by entry.  The order of what reaches it is kept by two   *)
(* numbers: `pushed`, up to where Raft's applier has pushed, is never      *)
(* beyond `expected`, up to where the service will have applied once it is *)
(* done with the message in its hands.                                     *)
(***************************************************************************)
EXTENDS ApplyPath, TLAPS, SequenceTheorems

\* s is the beginning of t.
prefixOf(s, t) == Len(s) <= Len(t) /\ \A n \in 1..Len(s) : s[n] = t[n]

\* The index up to which Raft's applier has pushed entries.
pushed == IF upTo = -1 THEN lastApplied ELSE upTo - Len(batch)

\* The length of the state machine once the message has been dealt with.
expected ==
  IF applier = "restore" THEN message.index
  ELSE IF applier = "command" /\ message.index = Len(machine) + 1
  THEN Len(machine) + 1 ELSE Len(machine)

LogIsChosen ==
  /\ Len(chosen) <= MaxIndex
  /\ commitIndex <= Len(logs) /\ commitIndex <= Len(chosen)
  /\ \A n \in 1..commitIndex : logs[n] = chosen[n]
  /\ firstIndex <= commitIndex
  /\ Len(snapshot) = firstIndex /\ prefixOf(snapshot, chosen)

BatchIsChosen ==
  /\ lastApplied <= commitIndex /\ upTo <= commitIndex
  /\ upTo = -1 => batch = <<>>
  /\ 0 <= pushed
  /\ \A n \in 1..Len(batch) : batch[n] = chosen[pushed + n]
  /\ firstIndex <= newLastApplied
  /\ pushers \subseteq 1..Len(chosen)

MessageIsChosen ==
  /\ applier \in {"command", "notify", "compact"} => message.index <= newLastApplied
  /\ applier = "command" =>
       /\ message.index <= Len(machine) + 1
       /\ message.entry = chosen[message.index]
  /\ applier \in {"notify", "compact"} => kvApplied = message.index
  /\ applier \in {"snapshot", "restore"} =>
       Len(message.snapshot) = message.index /\ prefixOf(message.snapshot, chosen)
  /\ applier = "restore" =>
       /\ Len(machine) < message.index /\ message.index <= lastApplied
       /\ snapshot = message.snapshot

\* After a restart kv.lastApplied is 0 until the first entry or snapshot comes;
\* Raft's applier starts where the snapshot that was restored ends.
afterRestart ==
  /\ kvApplied = 0 /\ Len(machine) <= pushed
  /\ applier = "command" => message.index > Len(machine)
  /\ applier \notin {"notify", "compact"}

MachineIsChosen ==
  /\ prefixOf(machine, chosen)
  /\ Len(machine) <= newLastApplied
  /\ pushed <= expected /\ lastApplied <= expected
  /\ kvApplied = Len(machine) \/ afterRestart

\* A channel gets its only response when the entry of its index is applied.
ChannelsAreFresh ==
  /\ \A k, l \in 1..MaxIndex :
       notifyChans[k] # 0 /\ notifyChans[k] = notifyChans[l] => k = l
  /\ \A k \in 1..MaxIndex :
       /\ k > kvApplied \/ (applier = "notify" /\ k = message.index)
       /\ notifyChans[k] # 0
       => channels[notifyChans[k]] = <<>>
  /\ \A w \in Waiter :
       waiter[w] \in {"started", "waiting", "cleanup"} => index[w] \in 1..MaxIndex

\* The inductive invariant.
Inv ==
  TypeOK /\ LogIsChosen /\ BatchIsChosen /\ MessageIsChosen /\ MachineIsChosen
    /\ ChannelsAreFresh

-----------------------------------------------------------------------------

\* The beginning of a sequence has the length asked for and the same entries.
LEMMA FirstOfProperties ==
  ASSUME NEW S, NEW s \in Seq(S), NEW k \in 0..Len(s)
  PROVE  /\ firstOf(s, k) \in Seq(S)
         /\ Len(firstOf(s, k)) = k
         /\ \A n \in 1..k : firstOf(s, k)[n] = s[n]
<1>1. \A n \in 1..k : s[n] \in S
  BY ElementOfSeq, LenProperties, SMT
<1>2. /\ SubSeq(s, 1, k) \in Seq(S)
      /\ Len(SubSeq(s, 1, k)) = IF 1 <= k THEN k - 1 + 1 ELSE 0
      /\ \A n \in 1..(k - 1 + 1) : SubSeq(s, 1, k)[n] = s[1 + n - 1]
  BY <1>1, LenProperties, SubSeqProperties
<1>. QED
  BY <1>2, LenProperties, SMT DEF firstOf

\* A sequence that agrees with another up to its end is the beginning of it.
LEMMA PrefixIsFirst ==
  ASSUME NEW S, NEW s \in Seq(S), NEW t \in Seq(S), prefixOf(s, t)
  PROVE  s = firstOf(t, Len(s))
<1>1. Len(s) \in 0..Len(t)
  BY LenProperties, SMT DEF prefixOf
<1>2. /\ firstOf(t, Len(s)) \in Seq(S)
      /\ Len(firstOf(t, Len(s))) = Len(s)
      /\ \A n \in 1..Len(s) : firstOf(t, Len(s))[n] = t[n]
  BY <1>1, FirstOfProperties
<1>3. \A n \in 1..Len(s) : s[n] = firstOf(t, Len(s))[n]
  BY <1>2, SMT DEF prefixOf
<1>. QED
  BY <1>2, <1>3, SeqEqual

\* Before the first step nothing is on its way.
LEMMA InitInv == Init => Inv
<1>. SUFFICES ASSUME Init PROVE Inv
  OBVIOUS
<1>1. TypeOK
  <2>1. logs \in Seq(Entry)
    <3>1. <<>> \in Seq(Entry)
      BY EmptySeq
    <3>2. ASSUME NEW c \in Foreign PROVE <<[term |-> 0, command |-> c]>> \in Seq(Entry)
      <4>. DEFINE e == [term |-> 0, command |-> c]
      <4>1. e \in Entry
        BY SMT DEF Entry, Command
      <4>. HIDE DEF e
      <4>2. <<e>> \in Seq(Entry)
        BY <4>1, SMT
      <4>. QED
        BY <4>2 DEF e
    <3>. QED
      BY <3>1, <3>2 DEF Init
  <2>2. isMessage
    BY SMT DEF Init, isMessage
  <2>3. /\ channels \in Seq(Seq(Entry)) /\ snapshot \in Seq(Entry) /\ chosen \in Seq(Entry)
        /\ machine \in Seq(Entry) /\ batch \in Seq(Entry) /\ pushers \subseteq 1..MaxIndex
        /\ isLeader \in BOOLEAN
    BY EmptySeq DEF Init
  <2>4. notifyChans \in [1..MaxIndex -> 0..Len(channels)]
    BY BoundAssumption, SMT DEF Init
  <2>5. /\ waiter \in [Waiter -> {"idle", "started", "waiting", "cleanup", "done"}]
        /\ index \in [Waiter -> 0..MaxIndex] /\ channel \in [Waiter -> Nat]
        /\ \A w \in Waiter : waiter[w] # "waiting" /\ response[w] = Nothing
    BY BoundAssumption, SMT DEF Init
  <2>6. /\ applier = "receive"
        /\ currentTerm \in Nat
        /\ firstIndex \in Nat /\ commitIndex \in Nat /\ lastApplied \in Nat
        /\ upTo \in Nat \cup {-1} /\ kvApplied \in Nat /\ crashes \in Nat
    BY SMT DEF Init, othersTerm
  <2>. QED
    BY <2>1, <2>2, <2>3, <2>4, <2>5, <2>6 DEF TypeOK
<1>2. LogIsChosen
  BY BoundAssumption, SMT DEF Init, LogIsChosen, prefixOf
<1>3. BatchIsChosen
  BY SMT DEF Init, BatchIsChosen, pushed, newLastApplied
<1>4. MessageIsChosen
  BY SMT DEF Init, MessageIsChosen
<1>5. MachineIsChosen
  BY SMT DEF Init, MachineIsChosen, pushed, expected, newLastApplied, prefixOf
<1>6. ChannelsAreFresh
  BY SMT DEF Init, ChannelsAreFresh
<1>. QED
  BY <1>1, <1>2, <1>3, <1>4, <1>5, <1>6 DEF Inv

-----------------------------------------------------------------------------
(* The node's Raft and the rest of the group: the entries chosen and those *)
(* known to be committed only become more.                                 *)

RaftMoves ==
  /\ chosen' \in Seq(Entry) /\ Len(chosen') <= MaxIndex /\ prefixOf(chosen, chosen')
  /\ logs' \in Seq(Entry)
  /\ currentTerm' \in Nat /\ isLeader' \in BOOLEAN
  /\ commitIndex' \in commitIndex..Len(logs') /\ commitIndex' <= Len(chosen')
  /\ \A n \in 1..commitIndex' : logs'[n] = chosen'[n]
  /\ pushers' \subseteq 1..Len(chosen')
  /\ UNCHANGED <<firstIndex, waiterVars>> /\ keepsProcess

LEMMA OthersMove == Inv /\ (Others \/ \E k \in 1..MaxIndex : LeaderCommit(k)) => RaftMoves
<1>. SUFFICES ASSUME Inv, Others \/ \E k \in 1..MaxIndex : LeaderCommit(k)
              PROVE  RaftMoves
  OBVIOUS
<1>0. /\ chosen \in Seq(Entry) /\ logs \in Seq(Entry) /\ Len(chosen) \in Nat /\ Len(logs) \in Nat
      /\ currentTerm \in Nat /\ isLeader \in BOOLEAN /\ commitIndex \in Nat
      /\ Len(chosen) <= MaxIndex /\ commitIndex <= Len(logs) /\ commitIndex <= Len(chosen)
      /\ \A n \in 1..commitIndex : logs[n] = chosen[n]
      /\ pushers \subseteq 1..Len(chosen)
  BY LenProperties DEF Inv, TypeOK, LogIsChosen, BatchIsChosen
<1>1. prefixOf(chosen, chosen)
  BY <1>0, SMT DEF prefixOf
<1>2. ASSUME Lead \/ StepDown PROVE RaftMoves
  <2>1. currentTerm' = currentTerm + 1 /\ isLeader' \in BOOLEAN
    BY <1>2, Zenon DEF Lead, StepDown
  <2>2. UNCHANGED <<chosen, logs, firstIndex, commitIndex, pushers, waiterVars>> /\ keepsProcess
    BY <1>2, Zenon DEF Lead, StepDown
  <2>3. currentTerm' \in Nat /\ commitIndex' \in commitIndex..Len(logs')
    BY <1>0, <2>1, <2>2, SMT
  <2>. QED
    BY <1>0, <1>1, <2>1, <2>2, <2>3 DEF RaftMoves
<1>3. ASSUME NEW t \in 0..MaxTerm, NEW c \in Command,
             OthersCommit([term |-> t, command |-> c])
      PROVE  RaftMoves
  <2>. DEFINE e == [term |-> t, command |-> c]
  <2>1. e \in Entry
    BY BoundAssumption, SMT DEF Entry
  <2>2. /\ Len(chosen) < MaxIndex /\ chosen' = Append(chosen, e)
        /\ UNCHANGED <<raftVars, pushers, waiterVars>> /\ keepsProcess
    BY <1>3, Zenon DEF OthersCommit
  <2>. HIDE DEF e
  <2>3. /\ chosen' \in Seq(Entry) /\ Len(chosen') = Len(chosen) + 1
        /\ \A n \in 1..Len(chosen) : chosen'[n] = chosen[n]
    BY <1>0, <2>1, <2>2, AppendProperties
  <2>4. prefixOf(chosen, chosen') /\ Len(chosen') <= MaxIndex
    BY <1>0, <2>2, <2>3, BoundAssumption, SMT DEF prefixOf
  <2>5. UNCHANGED <<currentTerm, isLeader, logs, firstIndex, commitIndex>>
    BY <2>2 DEF raftVars
  <2>6. /\ commitIndex' \in commitIndex..Len(logs') /\ commitIndex' <= Len(chosen')
        /\ \A n \in 1..commitIndex' : logs'[n] = chosen'[n]
        /\ pushers' \subseteq 1..Len(chosen')
    BY <1>0, <2>2, <2>3, <2>5, SMT
  <2>. QED
    BY <1>0, <2>2, <2>3, <2>4, <2>5, <2>6 DEF RaftMoves
<1>4. ASSUME NEW k \in 0..MaxIndex, NEW c \in 0..MaxIndex, AppendEntries(k, c)
      PROVE  RaftMoves
  <2>1. /\ k \in commitIndex..Len(chosen) /\ c \in commitIndex..k /\ commitIndex' = c
        /\ logs' = IF k <= Len(logs) /\ agrees(logs, k) THEN logs ELSE firstOf(chosen, k)
        /\ UNCHANGED <<chosen, currentTerm, isLeader, firstIndex, pushers, waiterVars>>
        /\ keepsProcess
    BY <1>4, Zenon DEF AppendEntries
  <2>2. k \in 0..Len(chosen)
    BY <1>0, <2>1, SMT
  <2>3. /\ logs' \in Seq(Entry) /\ k <= Len(logs')
        /\ \A n \in 1..k : logs'[n] = chosen[n]
    <3>1. CASE k <= Len(logs) /\ agrees(logs, k)
      BY <1>0, <2>1, <2>2, <3>1, SMT DEF agrees
    <3>2. CASE ~(k <= Len(logs) /\ agrees(logs, k))
      <4>1. logs' = firstOf(chosen, k)
        BY <2>1, <3>2
      <4>. QED
        BY <1>0, <2>2, <4>1, FirstOfProperties, SMT
    <3>. QED
      BY <3>1, <3>2
  <2>4. Len(logs') \in Nat
    BY <2>3, LenProperties
  <2>5. /\ commitIndex' \in commitIndex..Len(logs') /\ commitIndex' <= Len(chosen')
        /\ \A n \in 1..commitIndex' : logs'[n] = chosen'[n]
    BY <1>0, <2>1, <2>2, <2>3, <2>4, SMT
  <2>. QED
    BY <1>0, <1>1, <2>1, <2>3, <2>5 DEF RaftMoves
<1>5. ASSUME NEW k \in 1..Len(chosen), InstallSnapshot(k) PROVE RaftMoves
  <2>1. /\ pushers' = pushers \cup {k}
        /\ UNCHANGED <<chosen, raftVars, waiterVars>> /\ keepsProcess
    BY <1>5, Zenon DEF InstallSnapshot
  <2>2. UNCHANGED <<chosen, currentTerm, isLeader, logs, firstIndex, commitIndex>>
    BY <2>1 DEF raftVars
  <2>3. pushers' \subseteq 1..Len(chosen') /\ commitIndex' \in commitIndex..Len(logs')
    BY <1>0, <2>1, <2>2, SMT
  <2>. QED
    BY <1>0, <1>1, <2>1, <2>2, <2>3 DEF RaftMoves
<1>6. ASSUME NEW k \in 1..MaxIndex, LeaderCommit(k) PROVE RaftMoves
  <2>1. /\ commitIndex < k /\ k <= Len(logs) /\ agrees(logs, k) /\ commitIndex' = k
        /\ chosen' = IF k > Len(chosen) THEN firstOf(logs, k) ELSE chosen
        /\ UNCHANGED <<currentTerm, isLeader, logs, firstIndex, pushers, waiterVars>>
        /\ keepsProcess
    BY <1>6, Zenon DEF LeaderCommit
  <2>2. k \in 0..Len(logs)
    BY <1>0, <2>1, SMT
  <2>3. /\ chosen' \in Seq(Entry) /\ Len(chosen') <= MaxIndex /\ Len(chosen) <= Len(chosen')
        /\ k <= Len(chosen')
        /\ \A n \in 1..Len(chosen) : chosen'[n] = chosen[n]
        /\ \A n \in 1..k : chosen'[n] = logs[n]
    <3>1. CASE k > Len(chosen)
      <4>1. chosen' = firstOf(logs, k)
        BY <2>1, <3>1
      <4>2. /\ chosen' \in Seq(Entry) /\ Len(chosen') = k
            /\ \A n \in 1..k : chosen'[n] = logs[n]
        BY <1>0, <2>2, <4>1, FirstOfProperties
      <4>. QED
        BY <1>0, <2>1, <3>1, <4>2, BoundAssumption, SMTT(30) DEF agrees
    <3>2. CASE ~(k > Len(chosen))
      BY <1>0, <2>1, <2>2, <3>2, SMT DEF agrees
    <3>. QED
      BY <3>1, <3>2
  <2>4. Len(chosen') \in Nat
    BY <2>3, LenProperties
  <2>5. /\ commitIndex' \in commitIndex..Len(logs') /\ commitIndex' <= Len(chosen')
        /\ \A n \in 1..commitIndex' : logs'[n] = chosen'[n]
        /\ pushers' \subseteq 1..Len(chosen')
    BY <1>0, <2>1, <2>2, <2>3, <2>4, SMT
  <2>. QED
    BY <1>0, <2>1, <2>3, <2>5 DEF RaftMoves, prefixOf
<1>. QED
  BY <1>2, <1>3, <1>4, <1>5, <1>6, Zenon DEF Others

\* What is the beginning of chosen remains it.
LEMMA PrefixExtends ==
  ASSUME NEW S, NEW s \in Seq(S), NEW t \in Seq(S), NEW u \in Seq(S),
         prefixOf(s, t), prefixOf(t, u)
  PROVE  prefixOf(s, u)
BY LenProperties, SMT DEF prefixOf

LEMMA RaftInv == Inv /\ RaftMoves => Inv'
<1>. SUFFICES ASSUME Inv, RaftMoves PROVE Inv'
  OBVIOUS
<1>0. /\ TypeOK /\ LogIsChosen /\ BatchIsChosen /\ MessageIsChosen /\ MachineIsChosen
      /\ ChannelsAreFresh
  BY DEF Inv
<1>1. /\ chosen' \in Seq(Entry) /\ Len(chosen') <= MaxIndex /\ prefixOf(chosen, chosen')
      /\ logs' \in Seq(Entry)
      /\ currentTerm' \in Nat /\ isLeader' \in BOOLEAN
      /\ commitIndex' \in commitIndex..Len(logs') /\ commitIndex' <= Len(chosen')
      /\ \A n \in 1..commitIndex' : logs'[n] = chosen'[n]
      /\ pushers' \subseteq 1..Len(chosen')
  BY DEF RaftMoves
<1>2. /\ firstIndex' = firstIndex /\ lastApplied' = lastApplied /\ snapshot' = snapshot
      /\ batch' = batch /\ upTo' = upTo
      /\ applier' = applier /\ message' = message /\ kvApplied' = kvApplied
      /\ machine' = machine /\ notifyChans' = notifyChans /\ channels' = channels
      /\ waiter' = waiter /\ index' = index /\ channel' = channel /\ response' = response
      /\ crashes' = crashes
  BY DEF RaftMoves, keepsProcess, pushVars, serviceVars, notifyVars, waiterVars
<1>3. /\ chosen \in Seq(Entry) /\ snapshot \in Seq(Entry) /\ machine \in Seq(Entry)
      /\ batch \in Seq(Entry) /\ Len(batch) \in Nat /\ Len(chosen) \in Nat
      /\ Len(chosen') \in Nat /\ Len(logs') \in Nat
      /\ firstIndex \in Nat /\ commitIndex \in Nat /\ lastApplied \in Nat
      /\ upTo \in Nat \cup {-1}
  BY <1>0, <1>1, LenProperties DEF TypeOK
<1>4. commitIndex' \in Nat /\ pushers' \subseteq 1..MaxIndex
  BY <1>1, <1>3, BoundAssumption, SMT
<1>5. TypeOK'
  <2>1. isMessage'
    BY <1>0, <1>2 DEF TypeOK, isMessage
  <2>. QED
    BY <1>0, <1>1, <1>2, <1>4, <2>1 DEF TypeOK
<1>6. LogIsChosen'
  <2>1. prefixOf(snapshot, chosen')
    BY <1>0, <1>1, <1>3, PrefixExtends DEF LogIsChosen
  <2>. QED
    BY <1>0, <1>1, <1>2, <1>3, <2>1, SMT DEF LogIsChosen
<1>7. BatchIsChosen'
  <2>1. pushed' = pushed /\ newLastApplied' = newLastApplied
    BY <1>2 DEF pushed, newLastApplied
  <2>2. \A n \in 1..Len(batch) : batch[n] = chosen[pushed + n]
                                 /\ chosen'[pushed + n] = chosen[pushed + n]
    BY <1>0, <1>1, <1>3, SMTT(30) DEF BatchIsChosen, LogIsChosen, pushed, prefixOf
  <2>3. lastApplied <= commitIndex' /\ upTo <= commitIndex'
    BY <1>0, <1>1, <1>3, SMT DEF BatchIsChosen
  <2>. QED
    BY <1>0, <1>1, <1>2, <2>1, <2>2, <2>3 DEF BatchIsChosen
<1>8. MessageIsChosen'
  <2>1. newLastApplied' = newLastApplied
    BY <1>2 DEF newLastApplied
  <2>2. ASSUME applier = "command" PROVE chosen'[message.index] = chosen[message.index]
    <3>1. message.index \in 1..MaxIndex
      BY <1>0, <2>2 DEF TypeOK, isMessage
    <3>2. message.index <= Len(chosen)
      BY <1>0, <1>3, <2>2, <3>1, SMT
         DEF MessageIsChosen, BatchIsChosen, LogIsChosen, newLastApplied
    <3>. QED
      BY <1>1, <1>3, <3>1, <3>2, SMT DEF prefixOf
  <2>3. ASSUME applier \in {"snapshot", "restore"} PROVE prefixOf(message.snapshot, chosen')
    <3>1. message.snapshot \in Seq(Entry)
      BY <1>0, <2>3 DEF TypeOK, isMessage
    <3>. QED
      BY <1>0, <1>1, <1>3, <2>3, <3>1, PrefixExtends DEF MessageIsChosen
  <2>. QED
    BY <1>0, <1>2, <2>1, <2>2, <2>3 DEF MessageIsChosen
<1>9. MachineIsChosen'
  <2>1. /\ pushed' = pushed /\ newLastApplied' = newLastApplied /\ expected' = expected
        /\ afterRestart' = afterRestart
    BY <1>2 DEF pushed, newLastApplied, expected, afterRestart
  <2>2. prefixOf(machine, chosen')
    BY <1>0, <1>1, <1>3, PrefixExtends DEF MachineIsChosen
  <2>. QED
    BY <1>0, <1>2, <2>1, <2>2 DEF MachineIsChosen
<1>10. ChannelsAreFresh'
  BY <1>0, <1>2 DEF ChannelsAreFresh
<1>. QED
  BY <1>5, <1>6, <1>7, <1>8, <1>9, <1>10 DEF Inv

-----------------------------------------------------------------------------
(* Raft's applier: what it copies and pushes continues what it has pushed. *)

\* A step that leaves the log and what is known of it alone.
LEMMA LogStays ==
  ASSUME LogIsChosen,
         UNCHANGED <<chosen, logs, firstIndex, commitIndex, snapshot>>
  PROVE  LogIsChosen'
BY DEF LogIsChosen, prefixOf

\* A step that leaves the channels and who waits for them alone.
LEMMA ChannelsStay ==
  ASSUME TypeOK, ChannelsAreFresh, kvApplied' \in Nat, kvApplied <= kvApplied',
         applier' = "notify" => applier = "notify" /\ message' = message,
         UNCHANGED <<notifyChans, channels, waiter, index>>
  PROVE  ChannelsAreFresh'
<1>1. kvApplied \in Nat
  BY DEF TypeOK
<1>2. \A k \in 1..MaxIndex : k > kvApplied' => k > kvApplied
  BY <1>1, BoundAssumption, SMT
<1>. QED
  BY <1>2, Zenon DEF ChannelsAreFresh

\* Whatever the service's applier holds has an index.
LEMMA MessageHasIndex ==
  ASSUME isMessage, applier \in {"receive", "command", "notify", "compact", "snapshot", "restore"}
  PROVE  applier # "receive" => message.index \in 1..MaxIndex /\ message.index \in Nat
<1>1. ASSUME applier \in {"command", "notify", "compact"} PROVE message.index \in 1..MaxIndex
  <2>1. message \in [index : 1..MaxIndex, entry : Entry]
    BY <1>1 DEF isMessage
  <2>. QED
    BY <2>1
<1>2. ASSUME applier \in {"snapshot", "restore"} PROVE message.index \in 1..MaxIndex
  <2>1. message \in [index : 1..MaxIndex, snapshot : Seq(Entry)]
    BY <1>2 DEF isMessage
  <2>. QED
    BY <2>1
<1>3. \A k \in 1..MaxIndex : k \in Nat
  BY BoundAssumption, SMT
<1>. QED
  BY <1>1, <1>2, <1>3

LEMMA PushInv == Inv /\ Push => Inv'
<1>. SUFFICES ASSUME Inv, Push PROVE Inv'
  OBVIOUS
<1>0. /\ TypeOK /\ LogIsChosen /\ BatchIsChosen /\ MessageIsChosen /\ MachineIsChosen
      /\ ChannelsAreFresh
  BY DEF Inv
<1>1. /\ chosen \in Seq(Entry) /\ logs \in Seq(Entry) /\ snapshot \in Seq(Entry)
      /\ machine \in Seq(Entry) /\ batch \in Seq(Entry)
      /\ Len(batch) \in Nat /\ Len(chosen) \in Nat /\ Len(logs) \in Nat /\ Len(machine) \in Nat
      /\ firstIndex \in Nat /\ commitIndex \in Nat /\ lastApplied \in Nat /\ kvApplied \in Nat
      /\ upTo \in Nat \cup {-1} /\ MaxIndex \in Nat
  BY <1>0, LenProperties, BoundAssumption DEF TypeOK
<1>2. /\ chosen' = chosen /\ currentTerm' = currentTerm /\ isLeader' = isLeader
      /\ logs' = logs /\ firstIndex' = firstIndex /\ commitIndex' = commitIndex
      /\ snapshot' = snapshot /\ kvApplied' = kvApplied /\ machine' = machine
      /\ notifyChans' = notifyChans /\ channels' = channels
      /\ waiter' = waiter /\ index' = index /\ channel' = channel /\ response' = response
      /\ crashes' = crashes
  <2>1. keepsRest
    BY DEF Push, CopyBatch, PushEntry, FinishBatch, PushSnapshot
  <2>. QED
    BY <2>1 DEF keepsRest, raftVars, notifyVars, waiterVars
<1>3. LogIsChosen'
  BY <1>0, <1>2, LogStays
<1>4. ASSUME CopyBatch PROVE Inv'
  <2>1. /\ upTo = -1 /\ lastApplied < commitIndex
        /\ batch' = SubSeq(logs, lastApplied + 1, commitIndex) /\ upTo' = commitIndex
        /\ lastApplied' = lastApplied /\ pushers' = pushers
        /\ applier' = applier /\ message' = message
    BY <1>4 DEF CopyBatch
  <2>2. \A n \in (lastApplied + 1)..commitIndex : logs[n] \in Entry
    BY <1>0, <1>1, ElementOfSeq, SMT DEF LogIsChosen
  <2>3. lastApplied + 1 \in Int /\ commitIndex \in Int
    BY <1>1, SMT
  <2>4. /\ batch' \in Seq(Entry)
        /\ Len(batch') = IF lastApplied + 1 <= commitIndex
                         THEN commitIndex - (lastApplied + 1) + 1 ELSE 0
        /\ \A n \in 1..(commitIndex - (lastApplied + 1) + 1) :
             batch'[n] = logs[lastApplied + 1 + n - 1]
    BY <2>1, <2>2, <2>3, SubSeqProperties
  <2>5. /\ Len(batch') = commitIndex - lastApplied
        /\ \A n \in 1..(commitIndex - lastApplied) : batch'[n] = logs[lastApplied + n]
    BY <1>1, <2>1, <2>4, SMT
  <2>6. /\ pushed = lastApplied /\ pushed' = lastApplied
        /\ newLastApplied = lastApplied /\ newLastApplied' = commitIndex
    BY <1>1, <2>1, <2>5, SMT DEF pushed, newLastApplied
  <2>7. TypeOK'
    <3>1. isMessage'
      BY <1>0, <2>1 DEF TypeOK, isMessage
    <3>. QED
      BY <1>0, <1>1, <1>2, <2>1, <2>4, <3>1 DEF TypeOK
  <2>8. BatchIsChosen'
    <3>1. ASSUME NEW n \in 1..Len(batch') PROVE batch'[n] = chosen[lastApplied + n]
      <4>0. n \in 1..(commitIndex - lastApplied) /\ lastApplied \in Nat /\ commitIndex \in Nat
        BY <1>1, <2>5
      <4>1. lastApplied + n \in 1..commitIndex
        BY <4>0, SMT
      <4>2. logs[lastApplied + n] = chosen[lastApplied + n]
        BY <1>0, <4>1 DEF LogIsChosen
      <4>. QED
        BY <2>5, <4>0, <4>2
    <3>2. /\ lastApplied <= commitIndex /\ firstIndex <= commitIndex
          /\ pushers \subseteq 1..Len(chosen)
      BY <1>0 DEF BatchIsChosen, LogIsChosen
    <3>3. 0 <= lastApplied /\ commitIndex <= commitIndex /\ commitIndex # -1
      BY <1>1, SMT
    <3>. QED
      BY <1>2, <2>1, <2>6, <3>1, <3>2, <3>3 DEF BatchIsChosen
  <2>9. MessageIsChosen'
    <3>1. applier \in {"command", "notify", "compact"} => message.index <= commitIndex
      <4>1. applier # "receive" => message.index \in Nat
        BY <1>0, MessageHasIndex DEF TypeOK
      <4>. QED
        BY <1>0, <1>1, <2>1, <2>6, <4>1, SMTT(30) DEF MessageIsChosen
    <3>. QED
      BY <1>0, <1>2, <2>1, <2>6, <3>1 DEF MessageIsChosen
  <2>10. MachineIsChosen'
    <3>1. expected' = expected /\ afterRestart' = afterRestart
      BY <1>2, <2>1, <2>6 DEF expected, afterRestart
    <3>2. Len(machine) <= commitIndex /\ lastApplied <= expected
      BY <1>0, <1>1, <2>1, <2>6, SMT DEF MachineIsChosen
    <3>. QED
      BY <1>0, <1>2, <2>1, <2>6, <3>1, <3>2 DEF MachineIsChosen
  <2>11. ChannelsAreFresh'
    BY <1>0, <1>1, <1>2, <2>1, ChannelsStay
  <2>. QED
    BY <1>3, <2>7, <2>8, <2>9, <2>10, <2>11 DEF Inv
<1>5. ASSUME FinishBatch PROVE Inv'
  <2>1. /\ upTo # -1 /\ batch = <<>> /\ lastApplied' = newLastApplied /\ upTo' = -1
        /\ batch' = batch /\ pushers' = pushers
        /\ applier' = applier /\ message' = message
    BY <1>5 DEF FinishBatch
  <2>2. Len(batch) = 0
    BY <2>1, EmptySeq
  <2>3. /\ newLastApplied \in Nat /\ newLastApplied' = newLastApplied
        /\ pushed = upTo /\ pushed' = newLastApplied
        /\ pushed <= newLastApplied
        /\ newLastApplied = lastApplied \/ newLastApplied = pushed
        /\ newLastApplied <= commitIndex
    BY <1>0, <1>1, <2>1, <2>2, SMT DEF pushed, newLastApplied, BatchIsChosen
  <2>4. TypeOK'
    <3>1. isMessage'
      BY <1>0, <2>1 DEF TypeOK, isMessage
    <3>. QED
      BY <1>0, <1>1, <1>2, <2>1, <2>3, <3>1 DEF TypeOK
  <2>5. BatchIsChosen'
    <3>1. \A n \in 1..Len(batch') : batch'[n] = chosen'[pushed' + n]
      BY <2>1, <2>2, SMT
    <3>2. firstIndex <= newLastApplied /\ pushers \subseteq 1..Len(chosen)
      BY <1>0 DEF BatchIsChosen
    <3>3. -1 <= commitIndex /\ 0 <= newLastApplied
      BY <1>1, <2>3, SMT
    <3>. QED
      BY <1>2, <2>1, <2>3, <3>1, <3>2, <3>3 DEF BatchIsChosen
  <2>6. MessageIsChosen'
    <3>1. applier = "restore" => message.index <= newLastApplied
      <4>1. applier # "receive" => message.index \in Nat
        BY <1>0, MessageHasIndex DEF TypeOK
      <4>. QED
        BY <1>0, <1>1, <2>1, <4>1, SMT DEF MessageIsChosen, newLastApplied
    <3>. QED
      BY <1>0, <1>2, <2>1, <2>3, <3>1 DEF MessageIsChosen
  <2>7. MachineIsChosen'
    <3>1. expected' = expected
      BY <1>2, <2>1 DEF expected
    <3>2. newLastApplied <= expected
      BY <1>0, <2>3 DEF MachineIsChosen
    <3>3. afterRestart => afterRestart'
      BY <1>1, <1>2, <2>1, <2>3, SMT DEF afterRestart, pushed
    <3>. QED
      BY <1>0, <1>2, <2>1, <2>3, <3>1, <3>2, <3>3 DEF MachineIsChosen
  <2>8. ChannelsAreFresh'
    BY <1>0, <1>1, <1>2, <2>1, ChannelsStay
  <2>. QED
    BY <1>3, <2>4, <2>5, <2>6, <2>7, <2>8 DEF Inv

<1>6. ASSUME PushEntry PROVE Inv'
  <2>1. /\ batch # <<>> /\ applier = "receive" /\ applier' = "command"
        /\ message' = [index |-> nextPushed, entry |-> Head(batch)]
        /\ batch' = Tail(batch) /\ upTo' = upTo /\ lastApplied' = lastApplied
        /\ pushers' = pushers
    BY <1>6 DEF PushEntry, take
  <2>2. /\ Head(batch) \in Entry /\ Head(batch) = batch[1] /\ batch' \in Seq(Entry)
        /\ Len(batch') = Len(batch) - 1 /\ Len(batch) > 0
        /\ \A n \in 1..Len(batch') : batch'[n] = batch[n + 1]
    BY <1>1, <2>1, HeadTailProperties, EmptySeq, SMT
  <2>3. /\ upTo \in Nat /\ pushed = upTo - Len(batch) /\ pushed' = pushed + 1
        /\ nextPushed = pushed + 1 /\ nextPushed \in 1..Len(chosen) /\ nextPushed <= upTo
        /\ newLastApplied' = newLastApplied /\ upTo <= newLastApplied /\ pushed \in Nat
    BY <1>0, <1>1, <2>1, <2>2, SMT
       DEF BatchIsChosen, LogIsChosen, pushed, nextPushed, newLastApplied
  <2>4. message'.index = nextPushed /\ message'.entry = Head(batch)
    BY <2>1
  <2>5. nextPushed \in 1..MaxIndex /\ nextPushed <= newLastApplied
    BY <1>0, <1>1, <2>3, SMTT(30) DEF LogIsChosen, newLastApplied
  <2>6. TypeOK'
    <3>1. message' \in [index : 1..MaxIndex, entry : Entry]
      BY <2>1, <2>2, <2>5
    <3>2. isMessage'
      BY <2>1, <3>1 DEF isMessage
    <3>. QED
      BY <1>0, <1>1, <1>2, <2>1, <2>2, <3>2 DEF TypeOK
  <2>7. BatchIsChosen'
    <3>1. \A n \in 1..Len(batch') : batch'[n] = chosen[pushed + 1 + n]
      <4>1. ASSUME NEW n \in 1..Len(batch') PROVE batch'[n] = chosen[pushed + 1 + n]
        <5>1. n + 1 \in 1..Len(batch) /\ pushed + (n + 1) = pushed + 1 + n
          BY <1>1, <2>2, <2>3, SMT
        <5>2. batch[n + 1] = chosen[pushed + (n + 1)]
          BY <1>0, <5>1 DEF BatchIsChosen
        <5>. QED
          BY <2>2, <5>1, <5>2
      <4>. QED
        BY <4>1
    <3>2. 0 <= pushed + 1
      BY <1>0, <1>1, <2>3, SMT DEF BatchIsChosen
    <3>. QED
      BY <1>0, <1>2, <2>1, <2>3, <3>1, <3>2 DEF BatchIsChosen
  <2>8. pushed <= Len(machine) /\ lastApplied <= Len(machine)
    BY <1>0, <2>1 DEF MachineIsChosen, expected
  <2>9. MessageIsChosen'
    <3>1. nextPushed <= Len(machine) + 1
      BY <1>1, <2>3, <2>8, SMT
    <3>2. Head(batch) = chosen[nextPushed]
      BY <1>0, <1>1, <2>2, <2>3, SMT DEF BatchIsChosen
    <3>. QED
      BY <1>2, <2>1, <2>3, <2>4, <2>5, <3>1, <3>2 DEF MessageIsChosen
  <2>10. MachineIsChosen'
    <3>1. expected' = IF nextPushed = Len(machine) + 1 THEN Len(machine) + 1 ELSE Len(machine)
      BY <1>2, <2>1, <2>4 DEF expected
    <3>2. pushed + 1 <= expected' /\ lastApplied <= expected'
      <4>1. /\ pushed \in Nat /\ Len(machine) \in Nat /\ lastApplied \in Nat
            /\ pushed <= Len(machine) /\ lastApplied <= Len(machine)
            /\ expected' = IF pushed + 1 = Len(machine) + 1 THEN Len(machine) + 1
                           ELSE Len(machine)
        BY <1>1, <2>3, <2>8, <3>1
      <4>. QED
        BY <4>1, SMT
    <3>3. afterRestart => afterRestart'
      BY <1>1, <1>2, <2>1, <2>3, <2>4, SMT DEF afterRestart
    <3>. QED
      BY <1>0, <1>2, <2>1, <2>3, <3>2, <3>3 DEF MachineIsChosen
  <2>11. ChannelsAreFresh'
    BY <1>0, <1>1, <1>2, <2>1, ChannelsStay
  <2>. QED
    BY <1>3, <2>6, <2>7, <2>9, <2>10, <2>11 DEF Inv
<1>7. ASSUME NEW k \in pushers, PushSnapshot(k) PROVE Inv'
  <2>1. /\ applier = "receive" /\ applier' = "snapshot"
        /\ message' = [index |-> k, snapshot |-> firstOf(chosen, k)]
        /\ pushers' = pushers \ {k}
        /\ batch' = batch /\ upTo' = upTo /\ lastApplied' = lastApplied
    BY <1>7 DEF PushSnapshot, take, pushVars
  <2>2. k \in 1..MaxIndex /\ k \in 0..Len(chosen)
    BY <1>0, <1>1, SMT DEF TypeOK, BatchIsChosen
  <2>3. /\ firstOf(chosen, k) \in Seq(Entry) /\ Len(firstOf(chosen, k)) = k
        /\ prefixOf(firstOf(chosen, k), chosen)
    <3>1. /\ firstOf(chosen, k) \in Seq(Entry) /\ Len(firstOf(chosen, k)) = k
          /\ \A n \in 1..k : firstOf(chosen, k)[n] = chosen[n]
      BY <1>1, <2>2, FirstOfProperties
    <3>. QED
      BY <2>2, <3>1, SMT DEF prefixOf
  <2>4. message'.index = k /\ message'.snapshot = firstOf(chosen, k)
    BY <2>1
  <2>5. pushed' = pushed /\ newLastApplied' = newLastApplied
    BY <2>1 DEF pushed, newLastApplied
  <2>6. TypeOK'
    <3>1. message' \in [index : 1..MaxIndex, snapshot : Seq(Entry)]
      BY <2>1, <2>2, <2>3
    <3>2. isMessage'
      BY <2>1, <3>1 DEF isMessage
    <3>. QED
      BY <1>0, <1>1, <1>2, <2>1, <3>2 DEF TypeOK
  <2>7. BatchIsChosen'
    BY <1>0, <1>2, <2>1, <2>5 DEF BatchIsChosen
  <2>8. MessageIsChosen'
    BY <1>2, <2>1, <2>3, <2>4 DEF MessageIsChosen
  <2>9. MachineIsChosen'
    <3>1. expected' = Len(machine) /\ expected = Len(machine)
      BY <1>2, <2>1 DEF expected
    <3>2. afterRestart => afterRestart'
      BY <1>2, <2>1, <2>5 DEF afterRestart
    <3>. QED
      BY <1>0, <1>2, <2>1, <2>5, <3>1, <3>2 DEF MachineIsChosen
  <2>10. ChannelsAreFresh'
    BY <1>0, <1>1, <1>2, <2>1, ChannelsStay
  <2>. QED
    BY <1>3, <2>6, <2>7, <2>8, <2>9, <2>10 DEF Inv
<1>. QED
  BY <1>4, <1>5, <1>6, <1>7, Zenon DEF Push

-----------------------------------------------------------------------------
(* The service's applier: what it applies is the entry after those that its *)
(* state machine results from, and what it restores goes further.           *)

\* A step that leaves Raft's applier alone.
LEMMA BatchStays ==
  ASSUME BatchIsChosen,
         UNCHANGED <<chosen, firstIndex, commitIndex, lastApplied, batch, upTo, pushers>>
  PROVE  BatchIsChosen'
BY DEF BatchIsChosen, pushed, newLastApplied

\* Whoever makes a channel registers it under its index alone, and the others
\* stay what they are.
LEMMA NewChannel ==
  ASSUME channels \in Seq(Seq(Entry)), notifyChans \in [1..MaxIndex -> 0..Len(channels)],
         \A i, j \in 1..MaxIndex : notifyChans[i] # 0 /\ notifyChans[i] = notifyChans[j] => i = j,
         NEW k \in 1..MaxIndex, NEW s \in Seq(Entry),
         notifyChans' = [notifyChans EXCEPT ![k] = Len(channels) + 1],
         channels' = Append(channels, s)
  PROVE  /\ channels' \in Seq(Seq(Entry)) /\ Len(channels') = Len(channels) + 1
         /\ notifyChans' \in [1..MaxIndex -> 0..Len(channels')]
         /\ \A i, j \in 1..MaxIndex :
              notifyChans'[i] # 0 /\ notifyChans'[i] = notifyChans'[j] => i = j
         /\ \A j \in 1..MaxIndex : j # k =>
              /\ notifyChans'[j] = notifyChans[j]
              /\ notifyChans[j] # 0 => channels'[notifyChans[j]] = channels[notifyChans[j]]
         /\ channels'[notifyChans'[k]] = s
<1>. DEFINE c == Len(channels)
<1>1. /\ c \in Nat /\ channels' \in Seq(Seq(Entry)) /\ Len(channels') = c + 1
      /\ \A i \in 1..c : channels'[i] = channels[i]
      /\ channels'[c + 1] = s
  BY AppendProperties, LenProperties
<1>. HIDE DEF c
<1>2. /\ notifyChans \in [1..MaxIndex -> 0..c]
      /\ notifyChans' = [notifyChans EXCEPT ![k] = c + 1]
  BY DEF c
<1>3. /\ notifyChans' \in [1..MaxIndex -> 0..(c + 1)] /\ notifyChans'[k] = c + 1
      /\ \A j \in 1..MaxIndex : j # k => notifyChans'[j] = notifyChans[j]
      /\ \A j \in 1..MaxIndex : notifyChans[j] # c + 1
      /\ \A j \in 1..MaxIndex : notifyChans[j] # 0 => notifyChans[j] \in 1..c
  <2>1. \A j \in 1..MaxIndex : notifyChans[j] \in 0..c
    BY <1>2
  <2>2. c + 1 \in 0..(c + 1) /\ \A n \in 0..c : n \in 0..(c + 1) /\ n # c + 1 /\ (n # 0 => n \in 1..c)
    BY <1>1, SMT
  <2>3. /\ notifyChans'[k] = c + 1
        /\ \A j \in 1..MaxIndex : j # k => notifyChans'[j] = notifyChans[j]
        /\ notifyChans' \in [1..MaxIndex -> 0..(c + 1)]
    BY <1>2, <2>1, <2>2
  <2>. QED
    BY <2>1, <2>2, <2>3
<1>4. \A i, j \in 1..MaxIndex :
        notifyChans'[i] # 0 /\ notifyChans'[i] = notifyChans'[j] => i = j
  BY <1>3
<1>. QED
  BY <1>1, <1>3, <1>4 DEF c

LEMMA ServeInv == Inv /\ Serve => Inv'
<1>. SUFFICES ASSUME Inv, Serve PROVE Inv'
  OBVIOUS
<1>0. /\ TypeOK /\ LogIsChosen /\ BatchIsChosen /\ MessageIsChosen /\ MachineIsChosen
      /\ ChannelsAreFresh
  BY DEF Inv
<1>1. /\ chosen \in Seq(Entry) /\ logs \in Seq(Entry) /\ snapshot \in Seq(Entry)
      /\ machine \in Seq(Entry) /\ batch \in Seq(Entry)
      /\ Len(batch) \in Nat /\ Len(chosen) \in Nat /\ Len(logs) \in Nat /\ Len(machine) \in Nat
      /\ firstIndex \in Nat /\ commitIndex \in Nat /\ lastApplied \in Nat /\ kvApplied \in Nat
      /\ upTo \in Nat \cup {-1} /\ MaxIndex \in Nat
      /\ isMessage /\ (applier # "receive" => message.index \in 1..MaxIndex /\ message.index \in Nat)
  BY <1>0, LenProperties, BoundAssumption, MessageHasIndex DEF TypeOK
<1>2. /\ chosen' = chosen /\ currentTerm' = currentTerm /\ isLeader' = isLeader
      /\ batch' = batch /\ upTo' = upTo /\ pushers' = pushers
      /\ waiter' = waiter /\ index' = index /\ channel' = channel /\ response' = response
      /\ crashes' = crashes
  <2>1. keepsOthers
    BY DEF Serve, Skip, Apply, Notify, DoNotNotify, TakeSnapshot, NeedNoSnapshot,
           RefuseSnapshot, CondInstallSnapshot, RestoreSnapshot
  <2>. QED
    BY <2>1 DEF keepsOthers, pushVars, waiterVars
\* What it is about to receive next is nothing yet.
<1>3. ASSUME applier' = "receive", message' = Nothing
      PROVE  isMessage' /\ MessageIsChosen'
  BY <1>3 DEF isMessage, MessageIsChosen
<1>4. /\ pushed \in Nat /\ newLastApplied \in Nat /\ newLastApplied <= commitIndex
      /\ lastApplied <= newLastApplied /\ upTo <= newLastApplied
  BY <1>0, <1>1, SMT DEF BatchIsChosen, pushed, newLastApplied
<1>5. ASSUME applier = "command", ~afterRestart
      PROVE  kvApplied = Len(machine) /\ message.index <= Len(machine) + 1
  BY <1>0, <1>5 DEF MachineIsChosen, MessageIsChosen
<1>6. ASSUME Skip PROVE Inv'
  <2>1. /\ applier = "command" /\ isOld /\ applier' = "receive" /\ message' = Nothing
        /\ logs' = logs /\ firstIndex' = firstIndex /\ commitIndex' = commitIndex
        /\ lastApplied' = lastApplied /\ snapshot' = snapshot /\ kvApplied' = kvApplied
        /\ machine' = machine /\ notifyChans' = notifyChans /\ channels' = channels
    BY <1>6 DEF Skip, receiveNext, notifyVars
  <2>2. kvApplied = Len(machine) /\ message.index <= Len(machine)
    <3>1. ~afterRestart
      BY <1>1, <2>1, SMT DEF afterRestart, isOld
    <3>. QED
      BY <1>5, <2>1, <3>1 DEF isOld
  <2>3. expected = Len(machine) /\ expected' = Len(machine)
    <3>1. message.index # Len(machine) + 1
      BY <1>1, <2>1, <2>2, SMT
    <3>. QED
      BY <1>2, <2>1, <3>1 DEF expected
  <2>4. TypeOK'
    BY <1>0, <1>2, <1>3, <2>1 DEF TypeOK
  <2>5. LogIsChosen'
    BY <1>0, <1>2, <2>1, LogStays
  <2>6. BatchIsChosen'
    BY <1>0, <1>2, <2>1, BatchStays
  <2>7. MachineIsChosen'
    BY <1>0, <1>2, <2>1, <2>2, <2>3 DEF MachineIsChosen, pushed, newLastApplied
  <2>8. ChannelsAreFresh'
    BY <1>0, <1>1, <1>2, <2>1, ChannelsStay
  <2>. QED
    BY <1>3, <2>1, <2>4, <2>5, <2>6, <2>7, <2>8 DEF Inv
<1>7. ASSUME Apply PROVE Inv'
  <2>1. /\ applier = "command" /\ ~isOld /\ applier' = "notify" /\ message' = message
        /\ kvApplied' = message.index /\ machine' = Append(machine, message.entry)
        /\ logs' = logs /\ firstIndex' = firstIndex /\ commitIndex' = commitIndex
        /\ lastApplied' = lastApplied /\ snapshot' = snapshot
        /\ notifyChans' = notifyChans /\ channels' = channels
    BY <1>7 DEF Apply, notifyVars
  <2>2. message.index = Len(machine) + 1 /\ kvApplied <= message.index
    <3>1. message.index <= Len(machine) + 1 /\ message.index > kvApplied
      BY <1>0, <1>1, <2>1, SMT DEF MessageIsChosen, isOld
    <3>2. message.index > Len(machine)
      BY <1>0, <2>1, <3>1 DEF MachineIsChosen, afterRestart
    <3>. QED
      BY <1>1, <2>1, <3>1, <3>2, SMT
  <2>3. /\ message \in [index : 1..MaxIndex, entry : Entry] /\ message.entry \in Entry
        /\ message.entry = chosen[message.index] /\ message.index <= newLastApplied
    BY <1>0, <1>1, <2>1 DEF isMessage, MessageIsChosen
  <2>4. /\ machine' \in Seq(Entry) /\ Len(machine') = Len(machine) + 1
        /\ \A n \in 1..Len(machine) : machine'[n] = machine[n]
        /\ machine'[Len(machine) + 1] = message.entry
    BY <1>1, <2>1, <2>3, AppendProperties
  <2>5. newLastApplied' = newLastApplied /\ pushed' = pushed
    BY <1>2, <2>1 DEF newLastApplied, pushed
  <2>6. expected = Len(machine) + 1 /\ expected' = Len(machine) + 1
    BY <2>1, <2>2, <2>4 DEF expected
  <2>7. TypeOK'
    <3>1. isMessage'
      BY <2>1, <2>3 DEF isMessage
    <3>. QED
      BY <1>0, <1>1, <1>2, <2>1, <2>4, <3>1 DEF TypeOK
  <2>8. LogIsChosen'
    BY <1>0, <1>2, <2>1, LogStays
  <2>9. BatchIsChosen'
    BY <1>0, <1>2, <2>1, BatchStays
  <2>10. MessageIsChosen'
    BY <2>1, <2>3, <2>5 DEF MessageIsChosen
  <2>11. MachineIsChosen'
    <3>1. prefixOf(machine, chosen)
      BY <1>0 DEF MachineIsChosen
    <3>2. Len(machine) + 1 <= Len(chosen)
      BY <1>0, <1>1, <1>4, <2>2, <2>3, SMT DEF LogIsChosen
    <3>3. prefixOf(machine', chosen)
      <4>1. ASSUME NEW n \in 1..Len(machine') PROVE machine'[n] = chosen[n]
        <5>1. n \in 1..Len(machine) \/ n = Len(machine) + 1
          BY <1>1, <2>4, SMT
        <5>2. n \in 1..Len(machine) => machine[n] = chosen[n]
          BY <3>1 DEF prefixOf
        <5>. QED
          BY <2>2, <2>3, <2>4, <5>1, <5>2
      <4>. QED
        BY <2>4, <3>2, <4>1 DEF prefixOf
    <3>4. pushed <= expected /\ lastApplied <= expected
      BY <1>0 DEF MachineIsChosen
    <3>. QED
      BY <1>2, <2>1, <2>2, <2>3, <2>4, <2>5, <2>6, <3>3, <3>4 DEF MachineIsChosen
  <2>12. ChannelsAreFresh'
    <3>1. \A k \in 1..MaxIndex : k > message.index \/ k = message.index => k > kvApplied
      BY <1>1, <2>1, <2>2, SMT DEF isOld
    <3>. QED
      BY <1>0, <1>2, <2>1, <3>1 DEF ChannelsAreFresh
  <2>. QED
    BY <2>7, <2>8, <2>9, <2>10, <2>11, <2>12 DEF Inv
<1>8. ASSUME Notify PROVE Inv'
  <2>. DEFINE k == message.index
              c == notifyChans[k]
  <2>1. /\ applier = "notify" /\ applier' = "compact" /\ message' = message
        /\ logs' = logs /\ firstIndex' = firstIndex /\ commitIndex' = commitIndex
        /\ lastApplied' = lastApplied /\ snapshot' = snapshot
        /\ kvApplied' = kvApplied /\ machine' = machine
        /\ IF c # 0
           THEN channels' = [channels EXCEPT ![c] = <<message.entry>>] /\ notifyChans' = notifyChans
           ELSE /\ notifyChans' = [notifyChans EXCEPT ![k] = Len(channels) + 1]
                /\ channels' = Append(channels, <<message.entry>>)
    BY <1>8 DEF Notify
  <2>2. /\ k \in 1..MaxIndex /\ kvApplied = k /\ message.entry \in Entry
        /\ message \in [index : 1..MaxIndex, entry : Entry]
    BY <1>0, <1>1, <2>1 DEF isMessage, MessageIsChosen
  <2>3. <<message.entry>> \in Seq(Entry)
    BY <2>2, SMT
  <2>4. /\ channels \in Seq(Seq(Entry)) /\ notifyChans \in [1..MaxIndex -> 0..Len(channels)]
        /\ Len(channels) \in Nat
        /\ \A i, j \in 1..MaxIndex : notifyChans[i] # 0 /\ notifyChans[i] = notifyChans[j] => i = j
        /\ \A j \in 1..MaxIndex : j > k /\ notifyChans[j] # 0 => channels[notifyChans[j]] = <<>>
    BY <1>0, <2>2, LenProperties DEF TypeOK, ChannelsAreFresh
  <2>5. \A j \in 1..MaxIndex : j > k => j # k
    BY <2>2, SMT
  <2>6. /\ channels' \in Seq(Seq(Entry)) /\ Len(channels) <= Len(channels')
        /\ notifyChans' \in [1..MaxIndex -> 0..Len(channels')]
        /\ \A i, j \in 1..MaxIndex :
             notifyChans'[i] # 0 /\ notifyChans'[i] = notifyChans'[j] => i = j
        /\ \A j \in 1..MaxIndex :
             j > k /\ notifyChans'[j] # 0 => channels'[notifyChans'[j]] = <<>>
    <3>1. CASE c # 0
      <4>1. c \in 1..Len(channels)
        BY <2>2, <2>4, <3>1, SMT
      <4>2. /\ channels' \in Seq(Seq(Entry)) /\ Len(channels') = Len(channels)
            /\ \A i \in 1..Len(channels) :
                 channels'[i] = IF i = c THEN <<message.entry>> ELSE channels[i]
        <5>. DEFINE r == <<message.entry>>
        <5>1. channels' = [channels EXCEPT ![c] = r] /\ r \in Seq(Entry)
          BY <2>1, <2>3, <3>1
        <5>. HIDE DEF c, r
        <5>2. /\ channels' \in Seq(Seq(Entry)) /\ Len(channels') = Len(channels)
              /\ \A i \in 1..Len(channels) : channels'[i] = IF i = c THEN r ELSE channels[i]
          BY <2>4, <4>1, <5>1, ExceptSeq
        <5>. QED
          BY <5>2 DEF r
      <4>3. ASSUME NEW j \in 1..MaxIndex, j > k, notifyChans'[j] # 0
            PROVE  channels'[notifyChans'[j]] = <<>>
        <5>1. notifyChans[j] \in 1..Len(channels)
          BY <2>1, <2>4, <3>1, <4>3, SMT
        <5>2. notifyChans[j] # c
          BY <2>2, <2>4, <2>5, <3>1, <4>3
        <5>. QED
          BY <2>1, <2>4, <3>1, <4>2, <4>3, <5>1, <5>2
      <4>. QED
        BY <2>1, <2>4, <3>1, <4>2, <4>3, SMT
    <3>2. CASE c = 0
      <4>1. /\ notifyChans' = [notifyChans EXCEPT ![k] = Len(channels) + 1]
            /\ channels' = Append(channels, <<message.entry>>)
        BY <2>1, <3>2
      <4>2. /\ channels' \in Seq(Seq(Entry)) /\ Len(channels') = Len(channels) + 1
            /\ notifyChans' \in [1..MaxIndex -> 0..Len(channels')]
            /\ \A i, j \in 1..MaxIndex :
                 notifyChans'[i] # 0 /\ notifyChans'[i] = notifyChans'[j] => i = j
            /\ \A j \in 1..MaxIndex : j # k =>
                 /\ notifyChans'[j] = notifyChans[j]
                 /\ notifyChans[j] # 0 => channels'[notifyChans[j]] = channels[notifyChans[j]]
        BY <2>2, <2>3, <2>4, <4>1, NewChannel
      <4>3. Len(channels) <= Len(channels')
        BY <2>4, <4>2, SMT
      <4>. QED
        BY <2>4, <2>5, <4>2, <4>3
    <3>. QED
      BY <3>1, <3>2
  <2>7. TypeOK'
    <3>1. isMessage'
      BY <2>1, <2>2 DEF isMessage
    <3>2. \A w \in Waiter : waiter[w] = "waiting" => channel[w] \in 1..Len(channels')
      <4>1. Len(channels') \in Nat
        BY <2>6, LenProperties
      <4>2. \A i \in 1..Len(channels) : i \in 1..Len(channels')
        BY <2>4, <2>6, <4>1, SMT
      <4>. QED
        BY <1>0, <4>2 DEF TypeOK
    <3>. QED
      BY <1>0, <1>1, <1>2, <2>1, <2>6, <3>1, <3>2 DEF TypeOK
  <2>8. LogIsChosen'
    BY <1>0, <1>2, <2>1, LogStays
  <2>9. BatchIsChosen'
    BY <1>0, <1>2, <2>1, BatchStays
  <2>10. MessageIsChosen'
    BY <1>0, <1>2, <2>1 DEF MessageIsChosen, newLastApplied
  <2>11. MachineIsChosen'
    BY <1>0, <1>2, <2>1 DEF MachineIsChosen, newLastApplied, pushed, expected, afterRestart
  <2>12. ChannelsAreFresh'
    BY <1>0, <1>2, <2>1, <2>2, <2>6 DEF ChannelsAreFresh
  <2>. QED
    BY <2>7, <2>8, <2>9, <2>10, <2>11, <2>12 DEF Inv
<1>9. ASSUME DoNotNotify PROVE Inv'
  <2>1. /\ applier = "notify" /\ applier' = "compact" /\ message' = message
        /\ logs' = logs /\ firstIndex' = firstIndex /\ commitIndex' = commitIndex
        /\ lastApplied' = lastApplied /\ snapshot' = snapshot
        /\ kvApplied' = kvApplied /\ machine' = machine
        /\ notifyChans' = notifyChans /\ channels' = channels
    BY <1>9 DEF DoNotNotify, notifyVars
  <2>2. TypeOK'
    <3>1. isMessage'
      BY <1>1, <2>1 DEF isMessage
    <3>. QED
      BY <1>0, <1>2, <2>1, <3>1 DEF TypeOK
  <2>3. LogIsChosen'
    BY <1>0, <1>2, <2>1, LogStays
  <2>4. BatchIsChosen'
    BY <1>0, <1>2, <2>1, BatchStays
  <2>5. MessageIsChosen'
    BY <1>0, <1>2, <2>1 DEF MessageIsChosen, newLastApplied
  <2>6. MachineIsChosen'
    BY <1>0, <1>2, <2>1 DEF MachineIsChosen, newLastApplied, pushed, expected, afterRestart
  <2>7. ChannelsAreFresh'
    BY <1>0, <1>1, <1>2, <2>1, ChannelsStay, SMT
  <2>. QED
    BY <2>2, <2>3, <2>4, <2>5, <2>6, <2>7 DEF Inv
<1>10. ASSUME TakeSnapshot PROVE Inv'
  <2>1. /\ applier = "compact" /\ applier' = "receive" /\ message' = Nothing
        /\ IF message.index > firstIndex
           THEN firstIndex' = message.index /\ snapshot' = machine
           ELSE firstIndex' = firstIndex /\ snapshot' = snapshot
        /\ logs' = logs /\ commitIndex' = commitIndex /\ lastApplied' = lastApplied
        /\ kvApplied' = kvApplied /\ machine' = machine
        /\ notifyChans' = notifyChans /\ channels' = channels
    BY <1>10 DEF TakeSnapshot, receiveNext, notifyVars
  <2>2. /\ message.index = kvApplied /\ kvApplied = Len(machine)
        /\ message.index <= newLastApplied /\ prefixOf(machine, chosen)
        /\ Len(snapshot) = firstIndex /\ prefixOf(snapshot, chosen)
        /\ firstIndex <= newLastApplied
    BY <1>0, <2>1
       DEF MessageIsChosen, MachineIsChosen, afterRestart, LogIsChosen, BatchIsChosen
  <2>3. /\ firstIndex' \in Nat /\ snapshot' \in Seq(Entry) /\ Len(snapshot') = firstIndex'
        /\ prefixOf(snapshot', chosen) /\ firstIndex' <= newLastApplied
    BY <1>1, <2>1, <2>2
  <2>4. newLastApplied' = newLastApplied /\ pushed' = pushed
    BY <1>2, <2>1 DEF newLastApplied, pushed
  <2>5. TypeOK'
    BY <1>0, <1>2, <1>3, <2>1, <2>3 DEF TypeOK
  <2>6. LogIsChosen'
    <3>1. firstIndex' <= commitIndex
      BY <1>1, <1>4, <2>3, SMT
    <3>. QED
      BY <1>0, <1>2, <2>1, <2>3, <3>1 DEF LogIsChosen
  <2>7. BatchIsChosen'
    BY <1>0, <1>2, <2>1, <2>3, <2>4 DEF BatchIsChosen
  <2>8. MachineIsChosen'
    BY <1>0, <1>2, <2>1, <2>2, <2>4 DEF MachineIsChosen, expected
  <2>9. ChannelsAreFresh'
    BY <1>0, <1>1, <1>2, <2>1, ChannelsStay, SMT
  <2>. QED
    BY <1>3, <2>1, <2>5, <2>6, <2>7, <2>8, <2>9 DEF Inv
<1>11. ASSUME NeedNoSnapshot \/ RefuseSnapshot PROVE Inv'
  <2>1. /\ applier \in {"compact", "snapshot"} /\ applier' = "receive" /\ message' = Nothing
        /\ logs' = logs /\ firstIndex' = firstIndex /\ commitIndex' = commitIndex
        /\ lastApplied' = lastApplied /\ snapshot' = snapshot
        /\ kvApplied' = kvApplied /\ machine' = machine
        /\ notifyChans' = notifyChans /\ channels' = channels
    BY <1>11 DEF NeedNoSnapshot, RefuseSnapshot, receiveNext, notifyVars
  <2>2. TypeOK'
    BY <1>0, <1>2, <1>3, <2>1 DEF TypeOK
  <2>3. LogIsChosen'
    BY <1>0, <1>2, <2>1, LogStays
  <2>4. BatchIsChosen'
    BY <1>0, <1>2, <2>1, BatchStays
  <2>5. MachineIsChosen'
    BY <1>0, <1>2, <2>1 DEF MachineIsChosen, newLastApplied, pushed, expected, afterRestart
  <2>6. ChannelsAreFresh'
    BY <1>0, <1>1, <1>2, <2>1, ChannelsStay, SMT
  <2>. QED
    BY <1>3, <2>1, <2>2, <2>3, <2>4, <2>5, <2>6 DEF Inv
<1>12. ASSUME CondInstallSnapshot PROVE Inv'
  <2>. DEFINE k == message.index
              rest == SubSeq(logs, k + 1, Len(logs))
  <2>1. /\ applier = "snapshot" /\ k > commitIndex
        /\ logs' = message.snapshot \o rest
        /\ firstIndex' = k /\ commitIndex' = k /\ lastApplied' = k
        /\ snapshot' = message.snapshot
        /\ applier' = "restore" /\ message' = message
        /\ kvApplied' = kvApplied /\ machine' = machine
        /\ notifyChans' = notifyChans /\ channels' = channels
    BY <1>12 DEF CondInstallSnapshot, notifyVars
  <2>2. /\ k \in 1..MaxIndex /\ k \in Nat
        /\ message \in [index : 1..MaxIndex, snapshot : Seq(Entry)]
        /\ message.snapshot \in Seq(Entry) /\ Len(message.snapshot) = k
        /\ prefixOf(message.snapshot, chosen)
    BY <1>0, <1>1, <2>1 DEF isMessage, MessageIsChosen
  <2>3. /\ logs' \in Seq(Entry) /\ k <= Len(logs')
        /\ \A n \in 1..k : logs'[n] = message.snapshot[n]
    <3>1. \A n \in (k + 1)..Len(logs) : logs[n] \in Entry
      BY <1>1, <2>2, ElementOfSeq, SMT
    <3>2. k + 1 \in Int /\ Len(logs) \in Int
      BY <1>1, <2>2, SMT
    <3>3. rest \in Seq(Entry) /\ Len(rest) \in Nat
      BY <3>1, <3>2, SubSeqProperties, LenProperties
    <3>. HIDE DEF rest
    <3>4. /\ logs' \in Seq(Entry) /\ Len(logs') = Len(message.snapshot) + Len(rest)
          /\ \A i \in 1..(Len(message.snapshot) + Len(rest)) :
               logs'[i] = IF i <= Len(message.snapshot) THEN message.snapshot[i]
                          ELSE rest[i - Len(message.snapshot)]
      BY <2>1, <2>2, <3>3, ConcatProperties
    <3>5. k <= k + Len(rest) /\ \A n \in 1..k : n \in 1..(k + Len(rest)) /\ n <= k
      BY <2>2, <3>3, SMT
    <3>. QED
      BY <2>2, <3>4, <3>5
  <2>4. k <= Len(chosen) /\ \A n \in 1..k : logs'[n] = chosen[n]
    BY <2>2, <2>3 DEF prefixOf
  <2>. HIDE DEF k, rest
  <2>5. /\ upTo < k /\ commitIndex < k
        /\ newLastApplied' = k /\ pushed' = IF upTo = -1 THEN k ELSE pushed
        /\ pushed' <= k /\ 0 <= pushed' /\ pushed <= pushed'
    BY <1>0, <1>1, <1>2, <1>4, <2>1, <2>2, SMT DEF newLastApplied, pushed, BatchIsChosen
  <2>6. TypeOK'
    <3>1. isMessage'
      BY <2>1, <2>2 DEF isMessage
    <3>. QED
      BY <1>0, <1>2, <2>1, <2>2, <2>3, <3>1 DEF TypeOK
  <2>7. LogIsChosen'
    <3>1. k <= k
      BY <2>2, SMT
    <3>. QED
      BY <1>0, <1>2, <2>1, <2>2, <2>3, <2>4, <3>1 DEF LogIsChosen
  <2>8. BatchIsChosen'
    <3>1. \A n \in 1..Len(batch) : batch[n] = chosen[pushed' + n]
      <4>1. CASE upTo = -1
        <5>1. Len(batch) = 0
          BY <1>0, <4>1, EmptySeq DEF BatchIsChosen
        <5>. QED
          BY <5>1, SMT
      <4>2. CASE upTo # -1
        BY <1>0, <2>5, <4>2 DEF BatchIsChosen
      <4>. QED
        BY <4>1, <4>2
    <3>2. k <= k /\ upTo <= k
      BY <1>1, <2>2, <2>5, SMT
    <3>. QED
      BY <1>0, <1>2, <2>1, <2>5, <3>1, <3>2 DEF BatchIsChosen
  <2>9. Len(machine) < k
    BY <1>0, <1>1, <1>4, <2>2, <2>5, SMT DEF MachineIsChosen
  <2>10. MessageIsChosen'
    <3>1. k <= k
      BY <2>2, SMT
    <3>. QED
      BY <1>2, <2>1, <2>2, <2>9, <3>1 DEF MessageIsChosen, k
  <2>11. MachineIsChosen'
    <3>1. expected' = k /\ k <= k /\ Len(machine) <= k
      BY <1>1, <2>1, <2>2, <2>9, SMT DEF expected, k
    <3>2. afterRestart => afterRestart'
      BY <1>1, <1>4, <2>1, <2>2, <2>5, SMT DEF afterRestart
    <3>. QED
      BY <1>0, <1>2, <2>1, <2>5, <3>1, <3>2 DEF MachineIsChosen
  <2>12. ChannelsAreFresh'
    BY <1>0, <1>1, <1>2, <2>1, ChannelsStay, SMT
  <2>. QED
    BY <2>6, <2>7, <2>8, <2>10, <2>11, <2>12 DEF Inv
<1>13. ASSUME RestoreSnapshot PROVE Inv'
  <2>1. /\ applier = "restore" /\ applier' = "receive" /\ message' = Nothing
        /\ machine' = message.snapshot /\ kvApplied' = message.index
        /\ logs' = logs /\ firstIndex' = firstIndex /\ commitIndex' = commitIndex
        /\ lastApplied' = lastApplied /\ snapshot' = snapshot
        /\ notifyChans' = notifyChans /\ channels' = channels
    BY <1>13 DEF RestoreSnapshot, receiveNext, notifyVars
  <2>2. /\ message.index \in Nat
        /\ message \in [index : 1..MaxIndex, snapshot : Seq(Entry)]
        /\ message.snapshot \in Seq(Entry) /\ Len(message.snapshot) = message.index
        /\ prefixOf(message.snapshot, chosen)
        /\ message.index <= lastApplied /\ Len(machine) < message.index
    BY <1>0, <1>1, <2>1 DEF isMessage, MessageIsChosen
  <2>3. kvApplied <= message.index /\ message.index <= newLastApplied
    BY <1>0, <1>1, <1>4, <2>2, SMT DEF MachineIsChosen, afterRestart
  <2>4. newLastApplied' = newLastApplied /\ pushed' = pushed
    BY <1>2, <2>1 DEF newLastApplied, pushed
  <2>5. TypeOK'
    BY <1>0, <1>2, <1>3, <2>1, <2>2 DEF TypeOK
  <2>6. LogIsChosen'
    BY <1>0, <1>2, <2>1, LogStays
  <2>7. BatchIsChosen'
    BY <1>0, <1>2, <2>1, BatchStays
  <2>8. MachineIsChosen'
    <3>1. expected' = message.index /\ expected = message.index
      BY <2>1, <2>2 DEF expected
    <3>. QED
      BY <1>0, <1>2, <2>1, <2>2, <2>3, <2>4, <3>1 DEF MachineIsChosen
  <2>9. ChannelsAreFresh'
    BY <1>0, <1>1, <1>2, <2>1, <2>2, <2>3, ChannelsStay, SMT
  <2>. QED
    BY <1>3, <2>1, <2>5, <2>6, <2>7, <2>8, <2>9 DEF Inv
<1>. QED
  BY <1>6, <1>7, <1>8, <1>9, <1>10, <1>11, <1>12, <1>13, Zenon DEF Serve

-----------------------------------------------------------------------------
(* Execute: it extends the log above what is committed, and the channels it *)
(* makes are empty.                                                         *)

LEMMA ExecuteInv == ASSUME Inv, NEW w \in Waiter, Execute(w) PROVE Inv'
<1>0. /\ TypeOK /\ LogIsChosen /\ BatchIsChosen /\ MessageIsChosen /\ MachineIsChosen
      /\ ChannelsAreFresh
  BY DEF Inv
<1>1. /\ chosen' = chosen /\ lastApplied' = lastApplied /\ snapshot' = snapshot
      /\ batch' = batch /\ upTo' = upTo /\ pushers' = pushers
      /\ applier' = applier /\ message' = message /\ kvApplied' = kvApplied
      /\ machine' = machine /\ crashes' = crashes
      /\ currentTerm' = currentTerm /\ isLeader' = isLeader
      /\ firstIndex' = firstIndex /\ commitIndex' = commitIndex
  <2>1. /\ keepsServer
        /\ currentTerm' = currentTerm /\ isLeader' = isLeader
        /\ firstIndex' = firstIndex /\ commitIndex' = commitIndex
    BY DEF Execute, Start, MakeChannel, Receive, GiveUp, RemoveChannel, raftVars
  <2>. QED
    BY <2>1 DEF keepsServer, pushVars, serviceVars
<1>2. /\ chosen \in Seq(Entry) /\ logs \in Seq(Entry) /\ Len(logs) \in Nat
      /\ channels \in Seq(Seq(Entry)) /\ Len(channels) \in Nat
      /\ notifyChans \in [1..MaxIndex -> 0..Len(channels)]
      /\ commitIndex \in Nat /\ currentTerm \in Nat /\ MaxIndex \in Nat
      /\ waiter \in [Waiter -> {"idle", "started", "waiting", "cleanup", "done"}]
      /\ index \in [Waiter -> 0..MaxIndex] /\ channel \in [Waiter -> Nat]
      /\ \A v \in Waiter :
           /\ waiter[v] = "waiting" => channel[v] \in 1..Len(channels)
           /\ response[v] \in {Nothing, Timeout} \/ response[v] \in Entry
      /\ \A v \in Waiter :
           waiter[v] \in {"started", "waiting", "cleanup"} => index[v] \in 1..MaxIndex
      /\ isMessage'
  BY <1>0, <1>1, LenProperties, BoundAssumption DEF TypeOK, isMessage, ChannelsAreFresh
<1>3. BatchIsChosen'
  BY <1>0, <1>1, BatchStays
<1>4. MessageIsChosen' /\ MachineIsChosen'
  BY <1>0, <1>1
     DEF MessageIsChosen, MachineIsChosen, newLastApplied, pushed, expected, afterRestart
<1>5. ASSUME Start(w) PROVE Inv'
  <2>. DEFINE e == [term |-> currentTerm, command |-> w]
  <2>1. /\ Len(logs) < MaxIndex
        /\ waiter' = [waiter EXCEPT ![w] = "started"]
        /\ index' = [index EXCEPT ![w] = Len(logs) + 1]
        /\ logs' = Append(logs, e)
        /\ channel' = channel /\ response' = response
        /\ notifyChans' = notifyChans /\ channels' = channels
    BY <1>5 DEF Start, goTo, startIndex, notifyVars
  <2>2. e \in Entry
    BY <1>2, SMT DEF Entry, Command
  <2>. HIDE DEF e
  <2>3. /\ logs' \in Seq(Entry) /\ Len(logs') = Len(logs) + 1
        /\ \A n \in 1..Len(logs) : logs'[n] = logs[n]
    BY <1>2, <2>1, <2>2, AppendProperties
  <2>4. /\ waiter' \in [Waiter -> {"idle", "started", "waiting", "cleanup", "done"}]
        /\ \A v \in Waiter : waiter'[v] = IF v = w THEN "started" ELSE waiter[v]
    BY <1>2, <2>1
  <2>5. /\ Len(logs) + 1 \in 1..MaxIndex
        /\ index' \in [Waiter -> 0..MaxIndex]
        /\ \A v \in Waiter : index'[v] = IF v = w THEN Len(logs) + 1 ELSE index[v]
    BY <1>2, <2>1, SMT
  <2>6. TypeOK'
    BY <1>0, <1>1, <1>2, <2>1, <2>3, <2>4, <2>5 DEF TypeOK
  <2>7. LogIsChosen'
    <3>1. commitIndex <= Len(logs) /\ \A n \in 1..commitIndex : logs[n] = chosen[n]
      BY <1>0 DEF LogIsChosen
    <3>2. /\ commitIndex <= Len(logs')
          /\ \A n \in 1..commitIndex : n \in 1..Len(logs)
      BY <1>2, <2>3, <3>1, SMT
    <3>3. \A n \in 1..commitIndex : logs'[n] = chosen[n]
      BY <2>3, <3>1, <3>2
    <3>. QED
      BY <1>0, <1>1, <3>2, <3>3 DEF LogIsChosen
  <2>8. ChannelsAreFresh'
    BY <1>0, <1>1, <2>1, <2>4, <2>5 DEF ChannelsAreFresh
  <2>. QED
    BY <1>3, <1>4, <2>6, <2>7, <2>8 DEF Inv
<1>6. ASSUME logs' = logs PROVE LogIsChosen'
  BY <1>0, <1>1, <1>6, LogStays
<1>7. ASSUME MakeChannel(w) PROVE Inv'
  <2>1. PICK c \in 1..(Len(channels) + 1) :
          getNotifyChan(index[w], c) /\ channel' = [channel EXCEPT ![w] = c]
    BY <1>7 DEF MakeChannel
  <2>2. /\ waiter[w] = "started" /\ waiter' = [waiter EXCEPT ![w] = "waiting"]
        /\ index' = index /\ response' = response /\ logs' = logs
    BY <1>7 DEF MakeChannel, goTo, raftVars
  <2>3. index[w] \in 1..MaxIndex
    BY <1>2, <2>2
  <2>4. /\ channels' \in Seq(Seq(Entry)) /\ Len(channels) <= Len(channels')
        /\ notifyChans' \in [1..MaxIndex -> 0..Len(channels')]
        /\ c \in 1..Len(channels')
        /\ \A i, j \in 1..MaxIndex :
             notifyChans'[i] # 0 /\ notifyChans'[i] = notifyChans'[j] => i = j
        /\ \A j \in 1..MaxIndex :
             /\ j > kvApplied \/ (applier = "notify" /\ j = message.index)
             /\ notifyChans'[j] # 0
             => channels'[notifyChans'[j]] = <<>>
    <3>1. CASE notifyChans[index[w]] # 0
      <4>1. c = notifyChans[index[w]] /\ notifyChans' = notifyChans /\ channels' = channels
        BY <2>1, <3>1 DEF getNotifyChan, notifyVars
      <4>2. c \in 1..Len(channels) /\ Len(channels) <= Len(channels)
        BY <1>2, <2>3, <3>1, <4>1, SMT
      <4>. QED
        BY <1>0, <1>2, <4>1, <4>2 DEF ChannelsAreFresh
    <3>2. CASE notifyChans[index[w]] = 0
      <4>1. /\ c = Len(channels) + 1
            /\ notifyChans' = [notifyChans EXCEPT ![index[w]] = Len(channels) + 1]
            /\ channels' = Append(channels, <<>>)
        BY <2>1, <3>2 DEF getNotifyChan
      <4>2. <<>> \in Seq(Entry)
        BY EmptySeq
      <4>3. \A i, j \in 1..MaxIndex :
              notifyChans[i] # 0 /\ notifyChans[i] = notifyChans[j] => i = j
        BY <1>0 DEF ChannelsAreFresh
      <4>4. /\ channels' \in Seq(Seq(Entry)) /\ Len(channels') = Len(channels) + 1
            /\ notifyChans' \in [1..MaxIndex -> 0..Len(channels')]
            /\ \A i, j \in 1..MaxIndex :
                 notifyChans'[i] # 0 /\ notifyChans'[i] = notifyChans'[j] => i = j
            /\ \A j \in 1..MaxIndex : j # index[w] =>
                 /\ notifyChans'[j] = notifyChans[j]
                 /\ notifyChans[j] # 0 => channels'[notifyChans[j]] = channels[notifyChans[j]]
            /\ channels'[notifyChans'[index[w]]] = <<>>
        BY <1>2, <2>3, <4>1, <4>2, <4>3, NewChannel
      <4>5. Len(channels) <= Len(channels') /\ c \in 1..Len(channels')
        BY <1>2, <4>1, <4>4, SMT
      <4>. QED
        BY <1>0, <4>4, <4>5 DEF ChannelsAreFresh
    <3>. QED
      BY <3>1, <3>2
  <2>5. /\ waiter' \in [Waiter -> {"idle", "started", "waiting", "cleanup", "done"}]
        /\ \A v \in Waiter : waiter'[v] = IF v = w THEN "waiting" ELSE waiter[v]
    BY <1>2, <2>2
  <2>6. /\ channel' \in [Waiter -> Nat]
        /\ \A v \in Waiter : channel'[v] = IF v = w THEN c ELSE channel[v]
    BY <1>2, <2>1, SMT
  <2>7. TypeOK'
    <3>1. \A i \in 1..Len(channels) : i \in 1..Len(channels')
      <4>1. Len(channels') \in Nat
        BY <2>4, LenProperties
      <4>. QED
        BY <1>2, <2>4, <4>1, SMT
    <3>2. \A v \in Waiter : waiter'[v] = "waiting" => channel'[v] \in 1..Len(channels')
      BY <1>2, <2>4, <2>5, <2>6, <3>1
    <3>. QED
      BY <1>0, <1>1, <1>2, <2>2, <2>4, <2>5, <2>6, <3>2 DEF TypeOK
  <2>8. ChannelsAreFresh'
    BY <1>1, <1>2, <2>2, <2>3, <2>4, <2>5 DEF ChannelsAreFresh
  <2>. QED
    BY <1>3, <1>4, <1>6, <2>2, <2>7, <2>8 DEF Inv
<1>8. ASSUME Receive(w) PROVE Inv'
  <2>. DEFINE c == channel[w]
  <2>1. /\ waiter[w] = "waiting" /\ channels[c] # <<>>
        /\ waiter' = [waiter EXCEPT ![w] = "cleanup"]
        /\ response' = [response EXCEPT ![w] = Head(channels[c])]
        /\ channels' = [channels EXCEPT ![c] = <<>>]
        /\ index' = index /\ channel' = channel /\ notifyChans' = notifyChans /\ logs' = logs
    BY <1>8 DEF Receive, goTo, raftVars
  <2>2. c \in 1..Len(channels)
    BY <1>2, <2>1
  <2>3. channels[c] \in Seq(Entry) /\ Head(channels[c]) \in Entry
    BY <1>2, <2>1, <2>2, ElementOfSeq, HeadTailProperties
  <2>. HIDE DEF c
  <2>4. /\ channels' \in Seq(Seq(Entry)) /\ Len(channels') = Len(channels)
        /\ \A i \in 1..Len(channels) : channels'[i] = IF i = c THEN <<>> ELSE channels[i]
    <3>1. <<>> \in Seq(Entry)
      BY EmptySeq
    <3>. QED
      BY <1>2, <2>1, <2>2, <3>1, ExceptSeq, SMTT(30)
  <2>5. /\ waiter' \in [Waiter -> {"idle", "started", "waiting", "cleanup", "done"}]
        /\ \A v \in Waiter : waiter'[v] = IF v = w THEN "cleanup" ELSE waiter[v]
    BY <1>2, <2>1
  <2>6. TypeOK'
    <3>1. \A v \in Waiter : response'[v] \in {Nothing, Timeout} \/ response'[v] \in Entry
      BY <1>2, <2>1, <2>3, SMTT(30)
    <3>. QED
      BY <1>0, <1>1, <1>2, <2>1, <2>4, <2>5, <3>1 DEF TypeOK
  <2>7. ChannelsAreFresh'
    <3>1. \A j \in 1..MaxIndex : notifyChans[j] # 0 => notifyChans[j] \in 1..Len(channels)
      BY <1>2, SMT
    <3>2. \A j \in 1..MaxIndex : notifyChans[j] # 0 /\ channels[notifyChans[j]] = <<>>
            => channels'[notifyChans[j]] = <<>>
      BY <2>4, <3>1
    <3>. QED
      BY <1>0, <1>1, <1>2, <2>1, <2>5, <3>2 DEF ChannelsAreFresh
  <2>. QED
    BY <1>3, <1>4, <1>6, <2>1, <2>6, <2>7 DEF Inv
<1>9. ASSUME GiveUp(w) PROVE Inv'
  <2>1. /\ waiter[w] = "waiting" /\ waiter' = [waiter EXCEPT ![w] = "cleanup"]
        /\ response' = [response EXCEPT ![w] = Timeout]
        /\ index' = index /\ channel' = channel
        /\ notifyChans' = notifyChans /\ channels' = channels /\ logs' = logs
    BY <1>9 DEF GiveUp, goTo, notifyVars, raftVars
  <2>2. /\ waiter' \in [Waiter -> {"idle", "started", "waiting", "cleanup", "done"}]
        /\ \A v \in Waiter : waiter'[v] = IF v = w THEN "cleanup" ELSE waiter[v]
    BY <1>2, <2>1
  <2>3. TypeOK'
    <3>1. \A v \in Waiter : response'[v] \in {Nothing, Timeout} \/ response'[v] \in Entry
      BY <1>2, <2>1
    <3>. QED
      BY <1>0, <1>1, <1>2, <2>1, <2>2, <3>1 DEF TypeOK
  <2>4. ChannelsAreFresh'
    BY <1>0, <1>1, <1>2, <2>1, <2>2 DEF ChannelsAreFresh
  <2>. QED
    BY <1>3, <1>4, <1>6, <2>1, <2>3, <2>4 DEF Inv
<1>10. ASSUME RemoveChannel(w) PROVE Inv'
  <2>1. /\ waiter[w] = "cleanup" /\ waiter' = [waiter EXCEPT ![w] = "done"]
        /\ notifyChans' = [notifyChans EXCEPT ![index[w]] = 0]
        /\ index' = [index EXCEPT ![w] = 0] /\ channel' = [channel EXCEPT ![w] = 0]
        /\ response' = [response EXCEPT ![w] = Nothing]
        /\ channels' = channels /\ logs' = logs
    BY <1>10 DEF RemoveChannel, goTo, raftVars
  <2>2. /\ waiter' \in [Waiter -> {"idle", "started", "waiting", "cleanup", "done"}]
        /\ \A v \in Waiter : waiter'[v] = IF v = w THEN "done" ELSE waiter[v]
    BY <1>2, <2>1
  <2>3. /\ index' \in [Waiter -> 0..MaxIndex] /\ channel' \in [Waiter -> Nat]
        /\ \A v \in Waiter : v # w => index'[v] = index[v] /\ channel'[v] = channel[v]
    BY <1>2, <2>1, SMT
  <2>4. /\ notifyChans' \in [1..MaxIndex -> 0..Len(channels)]
        /\ \A j \in 1..MaxIndex : notifyChans'[j] # 0 => notifyChans'[j] = notifyChans[j]
    <3>1. 0 \in 0..Len(channels)
      BY <1>2, SMT
    <3>. QED
      BY <1>2, <2>1, <3>1
  <2>5. TypeOK'
    <3>1. \A v \in Waiter : response'[v] \in {Nothing, Timeout} \/ response'[v] \in Entry
      BY <1>2, <2>1
    <3>2. \A v \in Waiter : waiter'[v] = "waiting" => channel'[v] \in 1..Len(channels)
      BY <1>2, <2>2, <2>3
    <3>. QED
      BY <1>0, <1>1, <1>2, <2>1, <2>2, <2>3, <2>4, <3>1, <3>2 DEF TypeOK
  <2>6. ChannelsAreFresh'
    <3>1. \A v \in Waiter :
            waiter'[v] \in {"started", "waiting", "cleanup"} => index'[v] \in 1..MaxIndex
      BY <1>2, <2>2, <2>3
    <3>. QED
      BY <1>0, <1>1, <2>1, <2>4, <3>1 DEF ChannelsAreFresh
  <2>. QED
    BY <1>3, <1>4, <1>6, <2>1, <2>5, <2>6 DEF Inv
<1>. QED
  BY <1>5, <1>7, <1>8, <1>9, <1>10 DEF Execute

-----------------------------------------------------------------------------
(* A restart goes on from the snapshot, with no messages and no channels. *)

LEMMA CrashInv == Inv /\ Crash => Inv'
<1>. SUFFICES ASSUME Inv, Crash PROVE Inv'
  OBVIOUS
<1>0. /\ TypeOK /\ LogIsChosen /\ firstIndex \in Nat /\ Len(<<>>) = 0
      /\ snapshot \in Seq(Entry) /\ MaxIndex \in Nat /\ crashes \in Nat
      /\ Len(snapshot) = firstIndex /\ prefixOf(snapshot, chosen) /\ Len(chosen) \in Nat
  BY BoundAssumption, EmptySeq, LenProperties DEF Inv, TypeOK, LogIsChosen
<1>1. /\ chosen' = chosen /\ currentTerm' = currentTerm /\ logs' = logs
      /\ firstIndex' = firstIndex /\ snapshot' = snapshot
      /\ isLeader' = FALSE /\ commitIndex' = firstIndex /\ lastApplied' = firstIndex
      /\ batch' = <<>> /\ upTo' = -1 /\ pushers' = {}
      /\ applier' = "receive" /\ message' = Nothing /\ kvApplied' = 0 /\ machine' = snapshot
      /\ notifyChans' = [k \in 1..MaxIndex |-> 0] /\ channels' = <<>>
      /\ waiter' = [w \in Waiter |-> IF waiter[w] = "idle" THEN "idle" ELSE "done"]
      /\ index' = [w \in Waiter |-> 0] /\ channel' = [w \in Waiter |-> 0]
      /\ response' = [w \in Waiter |-> Nothing]
      /\ crashes' = crashes + 1
  BY DEF Crash
<1>2. /\ pushed' = firstIndex /\ newLastApplied' = firstIndex /\ expected' = firstIndex
      /\ firstIndex <= firstIndex /\ 0 <= firstIndex /\ -1 <= firstIndex
  BY <1>0, <1>1, SMT DEF pushed, newLastApplied, expected
<1>3. TypeOK'
  <2>1. isMessage'
    BY <1>1 DEF isMessage
  <2>2. batch' \in Seq(Entry) /\ channels' \in Seq(Seq(Entry)) /\ isLeader' \in BOOLEAN
    BY <1>1, EmptySeq
  <2>3. /\ notifyChans' \in [1..MaxIndex -> 0..Len(channels')]
        /\ index' \in [Waiter -> 0..MaxIndex] /\ channel' \in [Waiter -> Nat]
        /\ upTo' \in Nat \cup {-1} /\ kvApplied' \in Nat /\ crashes' \in Nat
    BY <1>0, <1>1, SMT
  <2>4. /\ waiter' \in [Waiter -> {"idle", "started", "waiting", "cleanup", "done"}]
        /\ \A w \in Waiter : waiter'[w] # "waiting" /\ response'[w] = Nothing
    BY <1>1
  <2>. QED
    BY <1>0, <1>1, <2>1, <2>2, <2>3, <2>4 DEF TypeOK
<1>4. LogIsChosen'
  <2>1. /\ firstIndex <= Len(logs) /\ firstIndex <= Len(chosen)
        /\ \A n \in 1..firstIndex : logs[n] = chosen[n]
    <3>1. /\ firstIndex <= commitIndex /\ commitIndex <= Len(logs)
          /\ commitIndex \in Nat /\ Len(logs) \in Nat
          /\ \A n \in 1..commitIndex : logs[n] = chosen[n]
      BY <1>0, LenProperties DEF LogIsChosen, TypeOK
    <3>2. firstIndex <= Len(logs) /\ \A n \in 1..firstIndex : n \in 1..commitIndex
      BY <1>0, <3>1, SMT
    <3>. QED
      BY <1>0, <3>1, <3>2 DEF prefixOf
  <2>. QED
    BY <1>0, <1>1, <1>2, <2>1 DEF LogIsChosen
<1>5. BatchIsChosen'
  <2>1. \A n \in 1..Len(<<>>) : FALSE
    BY <1>0, SMT
  <2>. QED
    BY <1>1, <1>2, <2>1 DEF BatchIsChosen
<1>6. MessageIsChosen' /\ MachineIsChosen'
  BY <1>0, <1>1, <1>2 DEF MessageIsChosen, MachineIsChosen, afterRestart
<1>7. ChannelsAreFresh'
  BY <1>1 DEF ChannelsAreFresh
<1>. QED
  BY <1>3, <1>4, <1>5, <1>6, <1>7 DEF Inv

\* A step that changes nothing.
LEMMA StutterInv == Inv /\ UNCHANGED vars => Inv'
<1>. SUFFICES ASSUME Inv, UNCHANGED vars PROVE Inv'
  OBVIOUS
<1>0. /\ TypeOK /\ LogIsChosen /\ BatchIsChosen /\ MessageIsChosen /\ MachineIsChosen
      /\ ChannelsAreFresh
  BY DEF Inv
<1>1. /\ chosen' = chosen /\ currentTerm' = currentTerm /\ isLeader' = isLeader
      /\ logs' = logs /\ firstIndex' = firstIndex /\ commitIndex' = commitIndex
      /\ lastApplied' = lastApplied /\ snapshot' = snapshot
      /\ batch' = batch /\ upTo' = upTo /\ pushers' = pushers
      /\ applier' = applier /\ message' = message /\ kvApplied' = kvApplied
      /\ machine' = machine /\ notifyChans' = notifyChans /\ channels' = channels
      /\ waiter' = waiter /\ index' = index /\ channel' = channel /\ response' = response
      /\ crashes' = crashes
  BY DEF vars, raftVars, pushVars, serviceVars, notifyVars, waiterVars
<1>2. TypeOK'
  BY <1>0, <1>1 DEF TypeOK, isMessage
<1>3. LogIsChosen' /\ BatchIsChosen'
  BY <1>0, <1>1, LogStays, BatchStays
<1>4. MessageIsChosen' /\ MachineIsChosen'
  BY <1>0, <1>1
     DEF MessageIsChosen, MachineIsChosen, newLastApplied, pushed, expected, afterRestart
<1>5. ChannelsAreFresh'
  BY <1>0, <1>1 DEF ChannelsAreFresh
<1>. QED
  BY <1>2, <1>3, <1>4, <1>5 DEF Inv

LEMMA NextInv == Inv /\ [Next]_vars => Inv'
<1>. SUFFICES ASSUME Inv, [Next]_vars PROVE Inv'
  OBVIOUS
<1>1. ASSUME Others \/ \E k \in 1..MaxIndex : LeaderCommit(k) PROVE Inv'
  BY <1>1, OthersMove, RaftInv
<1>2. CASE Push
  BY <1>2, PushInv
<1>3. CASE Serve
  BY <1>3, ServeInv
<1>4. ASSUME NEW w \in Waiter, Execute(w) PROVE Inv'
  BY <1>4, ExecuteInv
<1>5. CASE Crash
  BY <1>5, CrashInv
<1>6. CASE UNCHANGED vars
  BY <1>6, StutterInv
<1>. QED
  BY <1>1, <1>2, <1>3, <1>4, <1>5, <1>6 DEF Next

LEMMA InvHolds == Spec => []Inv
BY InitInv, NextInv, PTL DEF Spec

\* Every variable keeps its type whatever the two appliers, the callers of
\* Execute and the rest of the group do (raft.go:117-149, server.go:122-190).
THEOREM TypesAreCorrect == Spec => []TypeOK
<1>1. Inv => TypeOK
  BY DEF Inv
<1>. QED
  BY <1>1, InvHolds, PTL

\* The slice expression of Raft's applier never leaves rf.logs, whatever
\* snapshots are taken or installed while it pushes (raft.go:130-148).
THEOREM SliceIsInRange == Spec => []SliceInRange
<1>1. Inv => SliceInRange
  BY DEF Inv, SliceInRange, LogIsChosen, BatchIsChosen, newLastApplied, TypeOK
<1>. QED
  BY <1>1, InvHolds, PTL

\* The service's applier, which holds kv.mu, finds room in every notification
\* channel it sends to (server.go:165-170).
THEOREM SendsNeverBlock == Spec => []SendNeverBlocks
<1>1. Inv => SendNeverBlocks
  <2>. SUFFICES ASSUME Inv, applier = "notify", notifyChans[message.index] # 0
                PROVE  channels[notifyChans[message.index]] = <<>>
    BY DEF SendNeverBlocks, hasRoom
  <2>1. message.index \in 1..MaxIndex
    BY MessageHasIndex DEF Inv, TypeOK
  <2>. QED
    BY <2>1 DEF Inv, ChannelsAreFresh
<1>. QED
  BY <1>1, InvHolds, PTL

-----------------------------------------------------------------------------
(* The refinement *)

LEMMA InitRefines == Init => Service!Init
BY DEF Init, Service!Init

\* A step that is none of the service's.
LEMMA Stutters ==
  ASSUME UNCHANGED <<chosen, machine, snapshot, crashes>>
  PROVE  [Service!Next]_(Service!vars)
BY DEF Service!vars

\* A snapshot that goes further than the one saved is a beginning of chosen.
LEMMA SavesPrefix ==
  ASSUME Inv, NEW s \in Seq(Entry), prefixOf(s, chosen), Len(s) > firstIndex,
         snapshot' = s, UNCHANGED <<chosen, machine, crashes>>
  PROVE  Service!Save
<1>1. chosen \in Seq(Entry) /\ Len(chosen) \in Nat /\ Len(s) \in Nat /\ Len(snapshot) = firstIndex
      /\ firstIndex \in Nat
  BY LenProperties DEF Inv, TypeOK, LogIsChosen
<1>2. s = SubSeq(chosen, 1, Len(s))
  BY <1>1, PrefixIsFirst DEF firstOf
<1>3. Len(s) \in (Len(snapshot) + 1)..Len(chosen)
  BY <1>1, SMT DEF prefixOf
<1>. QED
  BY <1>2, <1>3 DEF Service!Save, Service!firstOf

LEMMA ServeRefines == Inv /\ Serve => [Service!Next]_(Service!vars)
<1>. SUFFICES ASSUME Inv, Serve PROVE [Service!Next]_(Service!vars)
  OBVIOUS
<1>0. /\ TypeOK /\ LogIsChosen /\ BatchIsChosen /\ MessageIsChosen /\ MachineIsChosen
      /\ machine \in Seq(Entry) /\ Len(machine) \in Nat /\ Len(chosen) \in Nat
      /\ kvApplied \in Nat /\ commitIndex \in Nat /\ lastApplied \in Nat /\ upTo \in Nat \cup {-1}
      /\ isMessage /\ (applier # "receive" => message.index \in 1..MaxIndex /\ message.index \in Nat)
  BY LenProperties, MessageHasIndex DEF Inv, TypeOK
<1>1. chosen' = chosen /\ crashes' = crashes
  <2>1. keepsOthers
    BY DEF Serve, Skip, Apply, Notify, DoNotNotify, TakeSnapshot, NeedNoSnapshot,
           RefuseSnapshot, CondInstallSnapshot, RestoreSnapshot
  <2>. QED
    BY <2>1 DEF keepsOthers
<1>2. ASSUME Skip \/ Notify \/ DoNotNotify \/ NeedNoSnapshot \/ RefuseSnapshot
      PROVE  [Service!Next]_(Service!vars)
  <2>1. machine' = machine /\ snapshot' = snapshot
    BY <1>2 DEF Skip, Notify, DoNotNotify, NeedNoSnapshot, RefuseSnapshot
  <2>. QED
    BY <1>1, <2>1, Stutters
<1>3. ASSUME Apply PROVE Service!Apply
  <2>1. /\ applier = "command" /\ ~isOld
        /\ machine' = Append(machine, message.entry) /\ snapshot' = snapshot
    BY <1>3 DEF Apply
  <2>2. /\ message.index <= newLastApplied /\ message.index <= Len(machine) + 1
        /\ message.entry = chosen[message.index] /\ message.index \in Nat
    BY <1>0, <2>1 DEF MessageIsChosen
  <2>3. message.index = Len(machine) + 1
    <3>1. message.index > Len(machine)
      BY <1>0, <2>1, SMT DEF MachineIsChosen, afterRestart, isOld
    <3>. QED
      BY <1>0, <2>2, <3>1, SMT
  <2>4. Len(machine) < Len(chosen)
    BY <1>0, <2>2, <2>3, SMT DEF LogIsChosen, BatchIsChosen, newLastApplied
  <2>. QED
    BY <1>1, <2>1, <2>2, <2>3, <2>4 DEF Service!Apply
<1>4. ASSUME TakeSnapshot PROVE [Service!Next]_(Service!vars)
  <2>1. /\ applier = "compact" /\ machine' = machine
        /\ IF message.index > firstIndex THEN snapshot' = machine ELSE snapshot' = snapshot
    BY <1>4 DEF TakeSnapshot
  <2>2. message.index = Len(machine) /\ prefixOf(machine, chosen)
    BY <1>0, <2>1 DEF MessageIsChosen, MachineIsChosen, afterRestart
  <2>3. CASE message.index > firstIndex
    <3>1. Service!Save
      BY <1>0, <1>1, <2>1, <2>2, <2>3, SavesPrefix
    <3>. QED
      BY <3>1 DEF Service!Next
  <2>4. CASE ~(message.index > firstIndex)
    BY <1>1, <2>1, <2>4, Stutters
  <2>. QED
    BY <2>3, <2>4
<1>5. ASSUME CondInstallSnapshot PROVE Service!Save
  <2>1. /\ applier = "snapshot" /\ message.index > commitIndex
        /\ snapshot' = message.snapshot /\ machine' = machine
    BY <1>5 DEF CondInstallSnapshot
  <2>2. message \in [index : 1..MaxIndex, snapshot : Seq(Entry)]
    BY <1>0, <2>1 DEF isMessage
  <2>3. /\ message.snapshot \in Seq(Entry) /\ Len(message.snapshot) = message.index
        /\ prefixOf(message.snapshot, chosen)
    BY <1>0, <2>1, <2>2 DEF MessageIsChosen
  <2>4. message.index > firstIndex
    BY <1>0, <2>1, SMT DEF LogIsChosen, TypeOK
  <2>. QED
    BY <1>1, <2>1, <2>3, <2>4, SavesPrefix
<1>6. ASSUME RestoreSnapshot PROVE Service!CatchUp
  <2>1. applier = "restore" /\ machine' = message.snapshot /\ snapshot' = snapshot
    BY <1>6 DEF RestoreSnapshot
  <2>2. /\ snapshot = message.snapshot /\ Len(message.snapshot) = message.index
        /\ Len(machine) < message.index
    BY <1>0, <2>1 DEF MessageIsChosen
  <2>. QED
    BY <1>1, <2>1, <2>2 DEF Service!CatchUp
<1>. QED
  BY <1>2, <1>3, <1>4, <1>5, <1>6 DEF Serve, Service!Next

LEMMA NextRefines == Inv /\ [Next]_vars => [Service!Next]_(Service!vars)
<1>. SUFFICES ASSUME Inv, [Next]_vars PROVE [Service!Next]_(Service!vars)
  OBVIOUS
<1>1. ASSUME Others \/ \E k \in 1..MaxIndex : LeaderCommit(k) PROVE Service!Choose
  <2>1. RaftMoves
    BY <1>1, OthersMove
  <2>2. /\ chosen \in Seq(Entry) /\ chosen' \in Seq(Entry) /\ prefixOf(chosen, chosen')
        /\ machine' = machine /\ snapshot' = snapshot /\ crashes' = crashes
    BY <2>1 DEF RaftMoves, keepsProcess, serviceVars, Inv, TypeOK
  <2>3. chosen = SubSeq(chosen', 1, Len(chosen))
    BY <2>2, PrefixIsFirst DEF firstOf
  <2>4. Len(chosen) \in 0..Len(chosen')
    BY <2>2, LenProperties, SMT DEF prefixOf
  <2>. QED
    BY <2>2, <2>3, <2>4 DEF Service!Choose, Service!firstOf
<1>2. CASE Push
  BY <1>2, Stutters
     DEF Push, CopyBatch, PushEntry, FinishBatch, PushSnapshot, keepsRest
<1>3. CASE Serve
  BY <1>3, ServeRefines
<1>4. ASSUME NEW w \in Waiter, Execute(w) PROVE [Service!Next]_(Service!vars)
  <2>1. keepsServer
    BY <1>4 DEF Execute, Start, MakeChannel, Receive, GiveUp, RemoveChannel
  <2>. QED
    BY <2>1, Stutters DEF keepsServer, serviceVars
<1>5. ASSUME Crash PROVE Service!Restart
  BY <1>5 DEF Crash, Service!Restart
<1>6. CASE UNCHANGED vars
  BY <1>6, Stutters DEF vars, serviceVars
<1>. QED
  BY <1>1, <1>2, <1>3, <1>4, <1>5, <1>6 DEF Next, Service!Next

\* The state machine of a replica is at every moment the result of the entries
\* the group has chosen, each applied once and in their order, and after a
\* crash of those its saved snapshot results from (server.go:122-190, 73-92).
THEOREM StateMachineIsImplemented == Spec => ImplementsStateMachine
<1>1. Init => Service!Init
  BY InitRefines
<1>2. Inv /\ [Next]_vars => [Service!Next]_(Service!vars)
  BY NextRefines
<1>. QED
  BY <1>1, <1>2, InvHolds, PTL DEF Spec, ImplementsStateMachine, Service!Spec

-----------------------------------------------------------------------------
(* The response to another command is never received.  Between Start and the *)
(* notification the node may have lost the entry and led again, and the same *)
(* index may have been used again: the channel is named by the index alone.  *)

\* What is in its log up to k the group has chosen.
hasChosen(k) ==
  k <= Len(logs) /\ k <= Len(chosen) /\ \A n \in 1..k : logs[n] = chosen[n]

isWaiting(w) == waiter[w] \in {"started", "waiting"}

TermsKnown ==
  /\ othersTerm <= currentTerm /\ (isLeader => othersTerm < currentTerm)
  /\ \A n \in 1..Len(chosen) : chosen[n].term <= currentTerm
  /\ \A n \in 1..Len(logs) : logs[n].term <= currentTerm

\* An entry that was chosen in a leader's term is the leader's.
OwnEntries ==
  isLeader => \A n \in 1..Len(chosen) :
    chosen[n].term = currentTerm => n <= Len(logs) /\ logs[n] = chosen[n]

\* No snapshot that is late takes an entry from a leader's log.
SnapshotsKnown ==
  isLeader => /\ \A k \in pushers : hasChosen(k)
              /\ applier = "snapshot" => hasChosen(message.index)

NotifiedIsChosen ==
  applier = "notify" =>
    message.index <= Len(chosen) /\ message.entry = chosen[message.index]

\* Whoever waits for an entry while the node leads, waits for one it has, or for
\* an index that an earlier term has filled, which nobody is notified of.
WaitersKnown ==
  isLeader => \A w \in Waiter : isWaiting(w) =>
    LET k == index[w] IN
    \/ k <= Len(chosen) /\ chosen[k].term < currentTerm
    \/ k <= Len(logs) /\ logs[k].command = w

\* The channel a call will take its response from, 0 if there is none yet.
channelOf(w) == IF waiter[w] = "waiting" THEN channel[w] ELSE notifyChans[index[w]]

ChannelsNamed ==
  \A w \in Waiter : waiter[w] = "waiting" =>
    \A k \in 1..MaxIndex : notifyChans[k] = channel[w] => k = index[w]

ContentsOwn ==
  \A w \in Waiter : isWaiting(w) /\ channelOf(w) # 0 =>
    LET c == channels[channelOf(w)] IN c # <<>> => c[1].command = w

OwnInv ==
  /\ TermsKnown /\ OwnEntries /\ SnapshotsKnown /\ NotifiedIsChosen
  /\ WaitersKnown /\ ChannelsNamed /\ ContentsOwn /\ OwnResponse

\* The part of OwnInv about logs, and the one about channels.
LogsKnown ==
  TermsKnown /\ OwnEntries /\ SnapshotsKnown /\ NotifiedIsChosen /\ WaitersKnown

ChannelsKnown == ChannelsNamed /\ ContentsOwn /\ OwnResponse

LEMMA ResponsesStay ==
  ASSUME ChannelsKnown, UNCHANGED <<notifyChans, channels, waiter, index, channel, response>>
  PROVE  ChannelsKnown'
<1>1. ChannelsNamed'
  BY DEF ChannelsKnown, ChannelsNamed
<1>2. ContentsOwn'
  BY DEF ChannelsKnown, ContentsOwn, isWaiting, channelOf
<1>3. OwnResponse'
  BY DEF ChannelsKnown, OwnResponse, Entry, Command
<1>. QED
  BY <1>1, <1>2, <1>3 DEF ChannelsKnown

\* What does not touch terms, logs and callers concerns the snapshots and the
\* entry to notify of alone.
LEMMA TermsStay ==
  ASSUME LogsKnown,
         UNCHANGED <<chosen, currentTerm, isLeader, logs, waiter, index>>,
         NotifiedIsChosen',
         \A k \in pushers' : k \in pushers,
         applier' = "snapshot" =>
           \/ message'.index \in pushers
           \/ applier = "snapshot" /\ message' = message
  PROVE  LogsKnown'
<1>1. TermsKnown'
  BY DEF LogsKnown, TermsKnown
<1>2. OwnEntries'
  BY DEF LogsKnown, OwnEntries
<1>3. SnapshotsKnown'
  BY DEF LogsKnown, SnapshotsKnown, hasChosen
<1>4. WaitersKnown'
  BY DEF LogsKnown, WaitersKnown, isWaiting
<1>. QED
  BY <1>1, <1>2, <1>3, <1>4 DEF LogsKnown

LEMMA InitOwn == Init => OwnInv
<1>. SUFFICES ASSUME Init PROVE OwnInv
  OBVIOUS
<1>1. TermsKnown
  <2>1. ASSUME NEW n \in 1..Len(logs) PROVE logs[n].term <= currentTerm
    <3>1. CASE logs = <<>>
      BY <2>1, <3>1
    <3>2. ASSUME NEW c \in Foreign, logs = <<[term |-> 0, command |-> c]>>
          PROVE  logs[n].term <= currentTerm
      <4>1. n = 1
        BY <2>1, <3>2
      <4>2. logs[1].term = 0
        BY <3>2
      <4>. QED
        BY <4>1, <4>2 DEF Init, othersTerm
    <3>. QED
      BY <3>1, <3>2 DEF Init
  <2>. QED
    BY <2>1 DEF TermsKnown, Init, othersTerm
<1>2. OwnEntries /\ SnapshotsKnown /\ NotifiedIsChosen /\ WaitersKnown
  BY DEF Init, OwnEntries, SnapshotsKnown, NotifiedIsChosen, WaitersKnown
<1>3. ChannelsNamed /\ ContentsOwn
  BY DEF Init, ChannelsNamed, ContentsOwn, isWaiting
<1>4. OwnResponse
  <2>1. ASSUME NEW w \in Waiter PROVE response[w] \notin Entry
    BY DEF Init, Nothing, Entry
  <2>. QED
    BY <2>1 DEF OwnResponse
<1>. QED
  BY <1>1, <1>2, <1>3, <1>4 DEF OwnInv

-----------------------------------------------------------------------------

\* Who leads begins a term, with everything the group has chosen.
LEMMA LeadOwn ==
  ASSUME Inv, OwnInv, Lead \/ StepDown
  PROVE  LogsKnown'
<1>1. /\ chosen' = chosen /\ logs' = logs /\ pushers' = pushers /\ applier' = applier
      /\ message' = message /\ waiter' = waiter /\ index' = index
      /\ currentTerm' = currentTerm + 1
  BY DEF Lead, StepDown, keepsProcess, serviceVars, waiterVars
<1>2. /\ TermsKnown /\ NotifiedIsChosen /\ currentTerm \in Nat
      /\ chosen \in Seq(Entry) /\ logs \in Seq(Entry)
      /\ Len(chosen) \in Nat /\ Len(logs) \in Nat
      /\ \A n \in 1..Len(chosen) : chosen[n].term \in Nat
      /\ \A n \in 1..Len(logs) : logs[n].term \in Nat
  <2>1. chosen \in Seq(Entry) /\ logs \in Seq(Entry) /\ currentTerm \in Nat
    BY DEF Inv, TypeOK
  <2>2. \A n \in 1..Len(chosen) : chosen[n] \in Entry
    BY <2>1, ElementOfSeq
  <2>3. \A n \in 1..Len(logs) : logs[n] \in Entry
    BY <2>1, ElementOfSeq
  <2>. QED
    BY <2>1, <2>2, <2>3, LenProperties DEF OwnInv, Entry
<1>3. TermsKnown'
  BY <1>1, <1>2 DEF TermsKnown, othersTerm
<1>4. NotifiedIsChosen'
  BY <1>1, <1>2 DEF NotifiedIsChosen
<1>5. ASSUME NEW n \in 1..Len(chosen) PROVE chosen[n].term < currentTerm'
  BY <1>1, <1>2 DEF TermsKnown
<1>6. OwnEntries'
  BY <1>1, <1>2, <1>5 DEF OwnEntries
<1>7. CASE StepDown
  <2>1. ~isLeader'
    BY <1>7 DEF StepDown
  <2>. QED
    BY <1>3, <1>4, <1>6, <2>1 DEF LogsKnown, SnapshotsKnown, WaitersKnown
<1>8. CASE Lead
  <2>1. /\ Len(chosen) <= Len(logs) /\ \A n \in 1..Len(chosen) : logs[n] = chosen[n]
    BY <1>2, <1>8 DEF Lead, agrees
  <2>2. ASSUME NEW k \in 1..Len(chosen) PROVE hasChosen(k)'
    BY <1>1, <1>2, <2>1 DEF hasChosen
  <2>3. SnapshotsKnown'
    <3>1. pushers \subseteq 1..Len(chosen)
      BY DEF Inv, BatchIsChosen
    <3>2. ASSUME applier = "snapshot" PROVE message.index \in 1..Len(chosen)
      <4>1. message \in [index : 1..MaxIndex, snapshot : Seq(Entry)]
        BY <3>2 DEF Inv, TypeOK, isMessage
      <4>2. message.index \in 1..MaxIndex /\ message.index <= Len(chosen)
        BY <3>2, <4>1 DEF Inv, MessageIsChosen, prefixOf
      <4>. QED
        BY <1>2, <4>2, BoundAssumption
    <3>. QED
      BY <1>1, <2>2, <3>1, <3>2 DEF SnapshotsKnown
  <2>4. WaitersKnown'
    <3>. SUFFICES ASSUME NEW w \in Waiter, isWaiting(w)
                  PROVE  \/ index[w] <= Len(chosen) /\ chosen[index[w]].term < currentTerm'
                         \/ index[w] <= Len(logs) /\ logs[index[w]].command = w
      BY <1>1 DEF WaitersKnown, isWaiting
    <3>1. index[w] \in 1..MaxIndex
      BY DEF Inv, ChannelsAreFresh, isWaiting
    <3>2. index[w] <= firstIndex \/ (index[w] <= Len(logs) /\ logs[index[w]].command = w)
      BY <1>8 DEF Lead, canLeadAgain, ExecuteTimeout, ElectionTimeout, isWaiting
    <3>3. firstIndex <= Len(chosen) /\ firstIndex \in Nat
      BY DEF Inv, LogIsChosen, TypeOK
    <3>. QED
      BY <1>2, <1>5, <3>1, <3>2, <3>3, BoundAssumption
  <2>. QED
    BY <1>3, <1>4, <1>6, <2>3, <2>4 DEF LogsKnown
<1>. QED
  BY <1>7, <1>8

\* What the group chooses beyond what it has chosen, of the leader's log or of a
\* term in which the node did not lead.
LEMMA ChooseOwn ==
  ASSUME Inv, OwnInv,
         chosen' \in Seq(Entry), prefixOf(chosen, chosen'),
         \A n \in (Len(chosen) + 1)..Len(chosen') :
           \/ chosen'[n].term = othersTerm
           \/ n <= Len(logs) /\ chosen'[n] = logs[n],
         UNCHANGED <<currentTerm, isLeader, logs, pushers, applier, message, waiter, index>>
  PROVE  LogsKnown'
<1>1. /\ chosen \in Seq(Entry) /\ Len(chosen) \in Nat /\ Len(chosen') \in Nat
      /\ Len(logs) \in Nat /\ currentTerm \in Nat
      /\ Len(chosen) <= Len(chosen') /\ \A n \in 1..Len(chosen) : chosen'[n] = chosen[n]
  BY LenProperties DEF Inv, TypeOK, prefixOf
<1>2. \A n \in 1..Len(chosen') : n \notin 1..Len(chosen) =>
        \/ chosen'[n].term = othersTerm
        \/ n \in 1..Len(logs) /\ chosen'[n] = logs[n]
  BY <1>1
<1>3. TermsKnown'
  BY <1>1, <1>2 DEF OwnInv, TermsKnown
<1>4. OwnEntries'
  <2>1. ASSUME isLeader, NEW n \in 1..Len(chosen'), chosen'[n].term = currentTerm
        PROVE  n <= Len(logs) /\ logs[n] = chosen'[n]
    <3>1. CASE n \in 1..Len(chosen)
      BY <1>1, <2>1, <3>1 DEF OwnInv, OwnEntries
    <3>2. CASE n \notin 1..Len(chosen)
      <4>1. othersTerm < currentTerm /\ othersTerm \in Nat
        BY <2>1 DEF OwnInv, TermsKnown, othersTerm
      <4>. QED
        BY <1>1, <1>2, <2>1, <3>2, <4>1
    <3>. QED
      BY <3>1, <3>2
  <2>. QED
    BY <2>1 DEF OwnEntries
<1>5. \A k \in Nat : hasChosen(k) => hasChosen(k)'
  BY <1>1 DEF hasChosen
<1>6. SnapshotsKnown'
  <2>1. pushers \subseteq Nat
    BY BoundAssumption DEF Inv, TypeOK
  <2>2. ASSUME applier = "snapshot" PROVE message.index \in Nat
    BY <2>2, MessageHasIndex DEF Inv, TypeOK
  <2>. QED
    BY <1>5, <2>1, <2>2 DEF OwnInv, SnapshotsKnown
<1>7. NotifiedIsChosen'
  <2>1. ASSUME applier = "notify" PROVE message.index \in 1..MaxIndex
    BY <2>1 DEF Inv, TypeOK, isMessage
  <2>. QED
    BY <1>1, <2>1, BoundAssumption DEF OwnInv, NotifiedIsChosen
<1>8. WaitersKnown'
  <2>1. \A w \in Waiter : isWaiting(w) => index[w] \in 1..MaxIndex
    BY DEF Inv, ChannelsAreFresh, isWaiting
  <2>2. ASSUME NEW w \in Waiter, isWaiting(w), isLeader
        PROVE  \/ index[w] <= Len(chosen') /\ chosen'[index[w]].term < currentTerm
               \/ index[w] <= Len(logs) /\ logs[index[w]].command = w
    <3>1. \/ index[w] <= Len(chosen) /\ chosen[index[w]].term < currentTerm
          \/ index[w] <= Len(logs) /\ logs[index[w]].command = w
      BY <2>2 DEF OwnInv, WaitersKnown
    <3>. QED
      BY <1>1, <2>1, <2>2, <3>1, BoundAssumption
  <2>. QED
    BY <2>2 DEF WaitersKnown, isWaiting
<1>. QED
  BY <1>3, <1>4, <1>6, <1>7, <1>8 DEF LogsKnown

\* A follower's log is replaced by what the group has chosen.
LEMMA FollowOwn ==
  ASSUME Inv, OwnInv, NEW k \in 0..MaxIndex, NEW c \in 0..MaxIndex, AppendEntries(k, c)
  PROVE  LogsKnown'
<1>1. /\ ~isLeader /\ isLeader' = isLeader /\ k \in commitIndex..Len(chosen)
      /\ logs' = IF k <= Len(logs) /\ agrees(logs, k) THEN logs ELSE firstOf(chosen, k)
      /\ chosen' = chosen /\ currentTerm' = currentTerm
      /\ applier' = applier /\ message' = message
  BY DEF AppendEntries, keepsProcess, serviceVars
<1>2. /\ chosen \in Seq(Entry) /\ k \in 0..Len(chosen)
  BY <1>1, BoundAssumption DEF Inv, TypeOK
<1>3. TermsKnown'
  <2>1. CASE logs' = logs
    BY <1>1, <2>1 DEF OwnInv, TermsKnown
  <2>2. CASE logs' = firstOf(chosen, k)
    <3>1. Len(logs') = k /\ \A n \in 1..k : logs'[n] = chosen[n]
      BY <1>2, <2>2, FirstOfProperties
    <3>2. 1..k \subseteq 1..Len(chosen)
      BY <1>2, LenProperties
    <3>. QED
      BY <1>1, <3>1, <3>2 DEF OwnInv, TermsKnown
  <2>. QED
    BY <1>1, <2>1, <2>2
<1>4. NotifiedIsChosen'
  BY <1>1 DEF OwnInv, NotifiedIsChosen
<1>. QED
  BY <1>1, <1>3, <1>4
     DEF LogsKnown, OwnEntries, SnapshotsKnown, WaitersKnown

LEMMA OthersOwn ==
  ASSUME Inv, OwnInv, Others \/ \E k \in 1..MaxIndex : LeaderCommit(k)
  PROVE  OwnInv'
<1>1. RaftMoves
  BY OthersMove
<1>2. ChannelsKnown'
  BY <1>1, ResponsesStay
     DEF RaftMoves, keepsProcess, notifyVars, waiterVars, OwnInv, ChannelsKnown
<1>3. /\ chosen' \in Seq(Entry) /\ prefixOf(chosen, chosen')
      /\ applier' = applier /\ message' = message /\ waiter' = waiter /\ index' = index
  BY <1>1 DEF RaftMoves, keepsProcess, serviceVars, waiterVars
<1>4. ASSUME NEW t \in 0..MaxTerm, NEW d \in Command,
             OthersCommit([term |-> t, command |-> d])
      PROVE  LogsKnown'
  <2>. DEFINE e == [term |-> t, command |-> d]
  <2>1. /\ chosen' = Append(chosen, e)
        /\ e.term = othersTerm \/ (Len(chosen) < Len(logs) /\ e = logs[Len(chosen) + 1])
        /\ UNCHANGED <<raftVars, pushers>>
    BY <1>4, Zenon DEF OthersCommit
  <2>2. e \in Entry
    BY BoundAssumption, SMT DEF Entry
  <2>. HIDE DEF e
  <2>3. chosen \in Seq(Entry) /\ Len(chosen) \in Nat /\ Len(logs) \in Nat
    BY LenProperties DEF Inv, TypeOK
  <2>4. Len(chosen') = Len(chosen) + 1 /\ chosen'[Len(chosen) + 1] = e
    BY <2>1, <2>2, <2>3, AppendProperties
  <2>5. \A n \in (Len(chosen) + 1)..Len(chosen') :
           \/ chosen'[n].term = othersTerm
           \/ n <= Len(logs) /\ chosen'[n] = logs[n]
    BY <2>1, <2>3, <2>4
  <2>6. UNCHANGED <<currentTerm, isLeader, logs, pushers>>
    BY <2>1 DEF raftVars
  <2>. QED
    BY <1>3, <2>5, <2>6, ChooseOwn
<1>5. ASSUME NEW k \in 1..MaxIndex, LeaderCommit(k) PROVE LogsKnown'
  <2>1. /\ k <= Len(logs) /\ k \in Nat
        /\ chosen' = IF k > Len(chosen) THEN firstOf(logs, k) ELSE chosen
        /\ UNCHANGED <<currentTerm, isLeader, logs, pushers>>
    BY <1>5, BoundAssumption DEF LeaderCommit
  <2>2. logs \in Seq(Entry) /\ Len(logs) \in Nat /\ Len(chosen) \in Nat
    BY LenProperties DEF Inv, TypeOK
  <2>3. ASSUME NEW n \in (Len(chosen) + 1)..Len(chosen')
        PROVE  n <= Len(logs) /\ chosen'[n] = logs[n]
    <3>1. CASE k > Len(chosen)
      <4>1. Len(chosen') = k /\ \A q \in 1..k : chosen'[q] = logs[q]
        BY <2>1, <2>2, <3>1, FirstOfProperties
      <4>2. n \in 1..k
        BY <2>1, <2>2, <4>1
      <4>. QED
        BY <2>1, <2>2, <4>1, <4>2
    <3>2. CASE ~(k > Len(chosen))
      BY <2>1, <2>2, <3>2
    <3>. QED
      BY <3>1, <3>2
  <2>. QED
    BY <1>3, <2>1, <2>3, ChooseOwn
<1>6. ASSUME NEW k \in 1..Len(chosen), InstallSnapshot(k) PROVE LogsKnown'
  <2>1. ~isLeader /\ UNCHANGED <<chosen, currentTerm, isLeader, logs>>
    BY <1>6 DEF InstallSnapshot, raftVars
  <2>. QED
    BY <1>3, <2>1
       DEF OwnInv, LogsKnown, TermsKnown, OwnEntries, SnapshotsKnown, NotifiedIsChosen,
           WaitersKnown
<1>7. LogsKnown'
  BY <1>4, <1>5, <1>6, LeadOwn, FollowOwn DEF Others
<1>. QED
  BY <1>2, <1>7 DEF LogsKnown, ChannelsKnown, OwnInv

LEMMA PushOwn ==
  ASSUME Inv, OwnInv, Push
  PROVE  OwnInv'
<1>1. /\ UNCHANGED <<chosen, currentTerm, isLeader, logs, waiter, index>>
      /\ UNCHANGED <<notifyChans, channels, channel, response>>
  BY DEF Push, CopyBatch, PushEntry, FinishBatch, PushSnapshot, keepsRest,
         raftVars, waiterVars, notifyVars
<1>2. ChannelsKnown'
  BY <1>1, ResponsesStay DEF OwnInv, ChannelsKnown
<1>3. /\ \A k \in pushers' : k \in pushers
      /\ applier' = "notify" => applier = "notify" /\ message' = message
      /\ applier' = "snapshot" =>
           message'.index \in pushers \/ (applier = "snapshot" /\ message' = message)
  <2>1. CASE CopyBatch \/ FinishBatch
    BY <2>1 DEF CopyBatch, FinishBatch
  <2>2. CASE PushEntry
    BY <2>2 DEF PushEntry, take
  <2>3. ASSUME NEW k \in pushers, PushSnapshot(k)
        PROVE  /\ pushers' = pushers \ {k} /\ applier' = "snapshot"
               /\ message'.index = k
    BY <2>3 DEF PushSnapshot, take
  <2>. QED
    BY <2>1, <2>2, <2>3 DEF Push
<1>4. NotifiedIsChosen'
  BY <1>1, <1>3 DEF OwnInv, NotifiedIsChosen
<1>5. LogsKnown'
  BY <1>1, <1>3, <1>4, TermsStay DEF OwnInv, LogsKnown
<1>. QED
  BY <1>2, <1>5 DEF LogsKnown, ChannelsKnown, OwnInv

-----------------------------------------------------------------------------

\* Whom a leader notifies of an entry of its term has started it.
LEMMA NotifiedIsOwn ==
  ASSUME Inv, OwnInv, applier = "notify", mustNotify,
         NEW w \in Waiter, isWaiting(w), index[w] = message.index
  PROVE  message.entry.command = w
<1>. DEFINE k == message.index
<1>1. /\ message \in [index : 1..MaxIndex, entry : Entry]
      /\ k \in 1..MaxIndex /\ currentTerm \in Nat
  BY DEF Inv, TypeOK, isMessage
<1>2. k \in 1..Len(chosen) /\ message.entry = chosen[k]
  <2>1. chosen \in Seq(Entry) /\ k <= Len(chosen) /\ message.entry = chosen[k]
    BY DEF OwnInv, NotifiedIsChosen, Inv, TypeOK
  <2>. QED
    BY <1>1, <2>1, LenProperties, BoundAssumption
<1>3. isLeader /\ chosen[k].term = currentTerm
  BY <1>2 DEF mustNotify
<1>4. chosen[k] = logs[k]
  BY <1>2, <1>3 DEF OwnInv, OwnEntries
<1>5. logs[k].command = w
  BY <1>1, <1>3 DEF OwnInv, WaitersKnown
<1>. QED
  BY <1>2, <1>4, <1>5

\* A new channel is nobody's who waits already.
LEMMA ChannelAdded ==
  ASSUME Inv, OwnInv, NEW k \in 1..MaxIndex, NEW s \in Seq(Entry),
         notifyChans' = [notifyChans EXCEPT ![k] = Len(channels) + 1],
         channels' = Append(channels, s)
  PROVE  /\ notifyChans'[k] = Len(channels) + 1 /\ channels'[Len(channels) + 1] = s
         /\ \A j \in 1..MaxIndex : j # k =>
              /\ notifyChans'[j] = notifyChans[j]
              /\ notifyChans[j] # 0 => channels'[notifyChans[j]] = channels[notifyChans[j]]
         /\ \A w \in Waiter : waiter[w] = "waiting" =>
              /\ channels'[channel[w]] = channels[channel[w]]
              /\ \A j \in 1..MaxIndex : notifyChans'[j] = channel[w] => j = index[w]
<1>1. /\ channels \in Seq(Seq(Entry)) /\ notifyChans \in [1..MaxIndex -> 0..Len(channels)]
      /\ \A i, j \in 1..MaxIndex :
           notifyChans[i] # 0 /\ notifyChans[i] = notifyChans[j] => i = j
      /\ \A w \in Waiter : waiter[w] = "waiting" => channel[w] \in 1..Len(channels)
  BY DEF Inv, TypeOK, ChannelsAreFresh
<1>2. /\ \A j \in 1..MaxIndex : j # k =>
           /\ notifyChans'[j] = notifyChans[j]
           /\ notifyChans[j] # 0 => channels'[notifyChans[j]] = channels[notifyChans[j]]
      /\ channels'[notifyChans'[k]] = s
  BY <1>1, NewChannel
<1>3. notifyChans'[k] = Len(channels) + 1
  BY <1>1
<1>4. /\ Len(channels) \in Nat
      /\ \A i \in 1..Len(channels) : channels'[i] = channels[i]
  BY <1>1, AppendProperties, LenProperties
<1>5. ASSUME NEW w \in Waiter, waiter[w] = "waiting"
      PROVE  /\ channels'[channel[w]] = channels[channel[w]]
             /\ \A j \in 1..MaxIndex : notifyChans'[j] = channel[w] => j = index[w]
  <2>1. channel[w] \in 1..Len(channels)
    BY <1>1, <1>5
  <2>2. channel[w] # notifyChans'[k]
    BY <1>3, <1>4, <2>1
  <2>3. \A j \in 1..MaxIndex : notifyChans[j] = channel[w] => j = index[w]
    BY <1>5 DEF OwnInv, ChannelsNamed
  <2>. QED
    BY <1>2, <1>4, <2>1, <2>2, <2>3
<1>. QED
  BY <1>2, <1>3, <1>5

LEMMA NotifyOwn ==
  ASSUME Inv, OwnInv, Notify
  PROVE  OwnInv'
<1>. DEFINE k == message.index
            e == message.entry
<1>1. /\ applier = "notify" /\ mustNotify /\ applier' = "compact"
      /\ UNCHANGED <<chosen, currentTerm, isLeader, logs, pushers, message>>
      /\ waiter' = waiter /\ index' = index /\ channel' = channel /\ response' = response
  BY DEF Notify, keepsOthers, waiterVars
<1>2. k \in 1..MaxIndex /\ e \in Entry
  <2>1. message \in [index : 1..MaxIndex, entry : Entry]
    BY <1>1 DEF Inv, TypeOK, isMessage
  <2>. QED
    BY <2>1
<1>3. <<e>> \in Seq(Entry) /\ <<e>>[1] = e
  <2>. HIDE DEF e
  <2>. QED
    BY <1>2
<1>4. LogsKnown'
  <2>1. NotifiedIsChosen'
    BY <1>1 DEF NotifiedIsChosen
  <2>. QED
    BY <1>1, <2>1, TermsStay DEF OwnInv, LogsKnown
<1>5. OwnResponse'
  BY <1>1 DEF OwnInv, OwnResponse, Entry, Command
<1>6. \A w \in Waiter : isWaiting(w) /\ index[w] = k => e.command = w
  BY <1>1, NotifiedIsOwn
<1>7. /\ channels \in Seq(Seq(Entry)) /\ notifyChans \in [1..MaxIndex -> 0..Len(channels)]
      /\ \A i, j \in 1..MaxIndex :
           notifyChans[i] # 0 /\ notifyChans[i] = notifyChans[j] => i = j
      /\ \A w \in Waiter : waiter[w] = "waiting" => channel[w] \in 1..Len(channels)
      /\ \A w \in Waiter : isWaiting(w) => index[w] \in 1..MaxIndex
      /\ ChannelsNamed /\ ContentsOwn
  BY DEF Inv, TypeOK, ChannelsAreFresh, OwnInv, isWaiting
<1>. HIDE DEF k, e
<1>8. CASE notifyChans[k] # 0
  <2>1. /\ notifyChans' = notifyChans
        /\ channels' = [channels EXCEPT ![notifyChans[k]] = <<e>>]
    BY <1>8 DEF Notify, k, e
  <2>2. notifyChans[k] \in 1..Len(channels)
    BY <1>2, <1>7, <1>8, LenProperties
  <2>3. \A i \in 1..Len(channels) :
          channels'[i] = IF i = notifyChans[k] THEN <<e>> ELSE channels[i]
    BY <1>3, <1>7, <2>1, <2>2, ExceptSeq
  <2>4. ChannelsNamed'
    BY <1>1, <1>7, <2>1 DEF ChannelsNamed
  <2>5. ContentsOwn'
    <3>. SUFFICES ASSUME NEW w \in Waiter, isWaiting(w), channelOf(w) # 0,
                         channels'[channelOf(w)] # <<>>
                  PROVE  channels'[channelOf(w)][1].command = w
      BY <1>1, <2>1 DEF ContentsOwn, isWaiting, channelOf
    <3>1. channelOf(w) \in 1..Len(channels)
      BY <1>7, LenProperties DEF channelOf, isWaiting
    <3>2. CASE channelOf(w) = notifyChans[k]
      <4>1. index[w] = k
        BY <1>2, <1>7, <1>8, <3>2 DEF channelOf, isWaiting, ChannelsNamed
      <4>. QED
        BY <1>3, <1>6, <2>3, <3>1, <3>2, <4>1
    <3>3. CASE channelOf(w) # notifyChans[k]
      BY <1>7, <2>3, <3>1, <3>3 DEF ContentsOwn
    <3>. QED
      BY <3>2, <3>3
  <2>. QED
    BY <1>4, <1>5, <2>4, <2>5 DEF LogsKnown, OwnInv
<1>9. CASE notifyChans[k] = 0
  <2>1. /\ notifyChans' = [notifyChans EXCEPT ![k] = Len(channels) + 1]
        /\ channels' = Append(channels, <<e>>)
    BY <1>9 DEF Notify, k, e
  <2>2. /\ notifyChans'[k] = Len(channels) + 1 /\ channels'[Len(channels) + 1] = <<e>>
        /\ \A j \in 1..MaxIndex : j # k =>
             /\ notifyChans'[j] = notifyChans[j]
             /\ notifyChans[j] # 0 => channels'[notifyChans[j]] = channels[notifyChans[j]]
        /\ \A w \in Waiter : waiter[w] = "waiting" =>
             /\ channels'[channel[w]] = channels[channel[w]]
             /\ \A j \in 1..MaxIndex : notifyChans'[j] = channel[w] => j = index[w]
    BY <1>2, <1>3, <2>1, ChannelAdded
  <2>3. ChannelsNamed'
    BY <1>1, <2>2 DEF ChannelsNamed
  <2>4. ContentsOwn'
    <3>. SUFFICES ASSUME NEW w \in Waiter, isWaiting(w), channelOf(w)' # 0,
                         channels'[channelOf(w)'] # <<>>
                  PROVE  channels'[channelOf(w)'][1].command = w
      BY <1>1 DEF ContentsOwn, isWaiting
    <3>1. CASE waiter[w] = "waiting"
      BY <1>1, <1>7, <2>2, <3>1 DEF ContentsOwn, channelOf, isWaiting
    <3>2. CASE waiter[w] # "waiting" /\ index[w] = k
      BY <1>1, <1>3, <1>6, <2>2, <3>2 DEF channelOf
    <3>3. CASE waiter[w] # "waiting" /\ index[w] # k
      <4>1. channelOf(w)' = notifyChans'[index[w]] /\ channelOf(w) = notifyChans[index[w]]
        BY <1>1, <3>3 DEF channelOf
      <4>2. /\ channelOf(w)' = channelOf(w) /\ channelOf(w) # 0
            /\ channels'[channelOf(w)] = channels[channelOf(w)]
        BY <1>7, <2>2, <3>3, <4>1
      <4>. QED
        BY <1>7, <4>2 DEF ContentsOwn
    <3>. QED
      BY <3>1, <3>2, <3>3
  <2>. QED
    BY <1>4, <1>5, <2>3, <2>4 DEF LogsKnown, OwnInv
<1>. QED
  BY <1>8, <1>9

-----------------------------------------------------------------------------

\* What is left of a log that a snapshot is put before.
LEMMA RestOfLog ==
  ASSUME NEW s \in Seq(Entry), NEW l \in Seq(Entry), NEW r,
         r = s \o SubSeq(l, Len(s) + 1, Len(l))
  PROVE  /\ r \in Seq(Entry)
         /\ Len(r) = IF Len(s) < Len(l) THEN Len(l) ELSE Len(s)
         /\ \A n \in 1..Len(r) :
              r[n] = IF n <= Len(s) THEN s[n] ELSE l[n]
<1>. DEFINE rest == SubSeq(l, Len(s) + 1, Len(l))
<1>1. Len(s) \in Nat /\ Len(l) \in Nat /\ Len(s) + 1 \in Int /\ Len(l) \in Int
  BY LenProperties, SMT
<1>2. \A n \in (Len(s) + 1)..Len(l) : l[n] \in Entry
  BY <1>1, ElementOfSeq, SMT
<1>3. /\ rest \in Seq(Entry)
      /\ Len(rest) = IF Len(s) + 1 <= Len(l) THEN Len(l) - (Len(s) + 1) + 1 ELSE 0
      /\ \A n \in 1..(Len(l) - (Len(s) + 1) + 1) : rest[n] = l[Len(s) + 1 + n - 1]
  BY <1>1, <1>2, SubSeqProperties
<1>. HIDE DEF rest
<1>4. /\ r \in Seq(Entry) /\ Len(r) = Len(s) + Len(rest)
      /\ \A n \in 1..(Len(s) + Len(rest)) :
           r[n] = IF n <= Len(s) THEN s[n] ELSE rest[n - Len(s)]
  BY <1>3, ConcatProperties DEF rest
<1>5. Len(r) = IF Len(s) < Len(l) THEN Len(l) ELSE Len(s)
  BY <1>1, <1>3, <1>4, SMT
<1>6. ASSUME NEW n \in 1..Len(r) PROVE r[n] = IF n <= Len(s) THEN s[n] ELSE l[n]
  <2>1. CASE n <= Len(s)
    BY <1>4, <2>1
  <2>2. CASE ~(n <= Len(s))
    <3>1. /\ n - Len(s) \in 1..(Len(l) - (Len(s) + 1) + 1)
          /\ Len(s) + 1 + (n - Len(s)) - 1 = n
      BY <1>1, <1>5, <2>2, SMT
    <3>2. r[n] = rest[n - Len(s)]
      BY <1>4, <2>2
    <3>. QED
      BY <1>3, <2>2, <3>1, <3>2
  <2>. QED
    BY <2>1, <2>2
<1>. QED
  BY <1>4, <1>5, <1>6

\* A snapshot that is installed leaves a leader's log what it is.
LEMMA InstallOwn ==
  ASSUME Inv, OwnInv, CondInstallSnapshot
  PROVE  LogsKnown'
<1>. DEFINE k == message.index
<1>1. /\ applier = "snapshot" /\ applier' = "restore"
      /\ logs' = message.snapshot \o SubSeq(logs, k + 1, Len(logs))
      /\ UNCHANGED <<chosen, currentTerm, isLeader, pushers, message>>
      /\ waiter' = waiter /\ index' = index
  BY DEF CondInstallSnapshot, keepsOthers, waiterVars
<1>2. /\ message \in [index : 1..MaxIndex, snapshot : Seq(Entry)]
      /\ chosen \in Seq(Entry) /\ logs \in Seq(Entry) /\ currentTerm \in Nat
      /\ pushers \subseteq 1..MaxIndex
  BY <1>1 DEF Inv, TypeOK, isMessage
<1>3. message.snapshot \in Seq(Entry) /\ k \in Nat
  BY <1>2, BoundAssumption
<1>4. Len(message.snapshot) = k /\ prefixOf(message.snapshot, chosen)
  BY <1>1 DEF Inv, MessageIsChosen
<1>5. /\ k <= Len(chosen) /\ \A n \in 1..k : message.snapshot[n] = chosen[n]
      /\ Len(chosen) \in Nat /\ Len(logs) \in Nat
  BY <1>2, <1>4, LenProperties DEF prefixOf
<1>6. /\ Len(logs') = IF k < Len(logs) THEN Len(logs) ELSE k
      /\ \A n \in 1..Len(logs') :
           logs'[n] = IF n <= k THEN message.snapshot[n] ELSE logs[n]
  BY <1>1, <1>2, <1>3, <1>4, RestOfLog
<1>. HIDE DEF k
<1>7. \A n \in 1..Len(logs') : logs'[n] = IF n <= k THEN chosen[n] ELSE logs[n]
  BY <1>3, <1>5, <1>6
<1>8. TermsKnown'
  <2>1. ASSUME NEW n \in 1..Len(logs') PROVE logs'[n].term <= currentTerm
    <3>1. CASE n <= k
      <4>1. n \in 1..Len(chosen)
        BY <1>3, <1>5, <3>1
      <4>. QED
        BY <1>7, <3>1, <4>1 DEF OwnInv, TermsKnown
    <3>2. CASE ~(n <= k)
      <4>1. n \in 1..Len(logs)
        BY <1>3, <1>5, <1>6, <3>2
      <4>. QED
        BY <1>7, <3>2, <4>1 DEF OwnInv, TermsKnown
    <3>. QED
      BY <3>1, <3>2
  <2>. QED
    BY <1>1, <2>1 DEF OwnInv, TermsKnown
<1>9. NotifiedIsChosen'
  BY <1>1 DEF NotifiedIsChosen
<1>10. ASSUME isLeader
       PROVE  Len(logs') = Len(logs) /\ \A n \in 1..Len(logs) : logs'[n] = logs[n]
  <2>1. k <= Len(logs) /\ \A n \in 1..k : logs[n] = chosen[n]
    BY <1>1, <1>10 DEF OwnInv, SnapshotsKnown, hasChosen, k
  <2>. QED
    BY <1>3, <1>5, <1>6, <1>7, <2>1
<1>11. OwnEntries'
  <2>1. CASE isLeader
    <3>1. \A n \in 1..Len(chosen) : n <= Len(logs) => n \in 1..Len(logs)
      BY <1>5
    <3>. QED
      BY <1>1, <1>10, <2>1, <3>1 DEF OwnInv, OwnEntries
  <2>. QED
    BY <1>1, <2>1 DEF OwnEntries
<1>12. SnapshotsKnown'
  <2>1. CASE isLeader
    <3>1. ASSUME NEW q \in pushers PROVE hasChosen(q)'
      <4>1. hasChosen(q) /\ q \in Nat
        BY <1>2, <2>1, <3>1, BoundAssumption DEF OwnInv, SnapshotsKnown
      <4>2. \A n \in 1..q : n \in 1..Len(logs) /\ logs[n] = chosen[n]
        BY <1>5, <4>1 DEF hasChosen
      <4>. QED
        BY <1>1, <1>10, <2>1, <4>1, <4>2 DEF hasChosen
    <3>. QED
      BY <1>1, <3>1 DEF SnapshotsKnown
  <2>. QED
    BY <1>1, <2>1 DEF SnapshotsKnown
<1>13. WaitersKnown'
  <2>1. ASSUME isLeader, NEW w \in Waiter, isWaiting(w)
        PROVE  \/ index[w] <= Len(chosen) /\ chosen[index[w]].term < currentTerm
               \/ index[w] <= Len(logs') /\ logs'[index[w]].command = w
    <3>1. index[w] \in 1..MaxIndex
      BY <2>1 DEF Inv, ChannelsAreFresh, isWaiting
    <3>2. \/ index[w] <= Len(chosen) /\ chosen[index[w]].term < currentTerm
          \/ index[w] <= Len(logs) /\ logs[index[w]].command = w
      BY <2>1 DEF OwnInv, WaitersKnown
    <3>. QED
      BY <1>5, <1>10, <2>1, <3>1, <3>2, BoundAssumption
  <2>. QED
    BY <1>1, <2>1 DEF WaitersKnown, isWaiting
<1>. QED
  BY <1>8, <1>9, <1>11, <1>12, <1>13 DEF LogsKnown

LEMMA ServeOwn ==
  ASSUME Inv, OwnInv, Serve
  PROVE  OwnInv'
<1>1. ASSUME UNCHANGED notifyVars PROVE ChannelsKnown'
  <2>1. waiterVars' = waiterVars
    BY DEF Serve, keepsOthers, Skip, Apply, Notify, DoNotNotify, TakeSnapshot,
           NeedNoSnapshot, RefuseSnapshot, CondInstallSnapshot, RestoreSnapshot
  <2>. QED
    BY <1>1, <2>1, ResponsesStay DEF OwnInv, ChannelsKnown, notifyVars, waiterVars
<1>2. CASE Notify
  BY <1>2, NotifyOwn
<1>3. CASE CondInstallSnapshot
  <2>1. UNCHANGED notifyVars
    BY <1>3 DEF CondInstallSnapshot
  <2>. QED
    BY <1>1, <1>3, <2>1, InstallOwn DEF OwnInv, LogsKnown, ChannelsKnown
<1>4. CASE Apply
  <2>1. /\ applier = "command" /\ applier' = "notify" /\ UNCHANGED notifyVars
        /\ UNCHANGED <<chosen, currentTerm, isLeader, logs, pushers, message>>
        /\ waiter' = waiter /\ index' = index
    BY <1>4 DEF Apply, keepsOthers, waiterVars
  <2>2. message.index <= Len(chosen) /\ message.entry = chosen[message.index]
    <3>1. message \in [index : 1..MaxIndex, entry : Entry]
      BY <2>1 DEF Inv, TypeOK, isMessage
    <3>2. /\ message.index \in Nat /\ Len(chosen) \in Nat /\ commitIndex \in Nat
          /\ lastApplied \in Nat /\ upTo \in Nat \cup {-1}
      BY <3>1, BoundAssumption, LenProperties DEF Inv, TypeOK
    <3>3. message.index <= newLastApplied /\ message.entry = chosen[message.index]
      BY <2>1 DEF Inv, MessageIsChosen
    <3>4. newLastApplied <= commitIndex /\ commitIndex <= Len(chosen)
      BY DEF Inv, BatchIsChosen, LogIsChosen, newLastApplied
    <3>5. newLastApplied \in Int
      BY <3>2 DEF newLastApplied
    <3>. QED
      BY <3>2, <3>3, <3>4, <3>5
  <2>3. NotifiedIsChosen'
    BY <2>1, <2>2 DEF NotifiedIsChosen
  <2>4. LogsKnown'
    BY <2>1, <2>3, TermsStay DEF OwnInv, LogsKnown
  <2>. QED
    BY <1>1, <2>1, <2>4 DEF OwnInv, LogsKnown, ChannelsKnown
<1>5. CASE \/ Skip \/ DoNotNotify \/ TakeSnapshot \/ NeedNoSnapshot
           \/ RefuseSnapshot \/ RestoreSnapshot
  <2>1. /\ applier' \in {"receive", "compact"} /\ UNCHANGED notifyVars
        /\ UNCHANGED <<chosen, currentTerm, isLeader, logs, pushers>>
        /\ waiter' = waiter /\ index' = index
    BY <1>5 DEF Skip, DoNotNotify, TakeSnapshot, NeedNoSnapshot, RefuseSnapshot,
                RestoreSnapshot, keepsOthers, waiterVars, receiveNext
  <2>2. NotifiedIsChosen'
    BY <2>1 DEF NotifiedIsChosen
  <2>3. LogsKnown'
    BY <2>1, <2>2, TermsStay DEF OwnInv, LogsKnown
  <2>. QED
    BY <1>1, <2>1, <2>3 DEF OwnInv, LogsKnown, ChannelsKnown
<1>. QED
  BY <1>2, <1>3, <1>4, <1>5 DEF Serve

-----------------------------------------------------------------------------

\* A call that has not been made a channel's is for an index whose channel, if
\* there is one, is as new as the entry.
LEMMA StartOwn ==
  ASSUME Inv, OwnInv, NEW w \in Waiter, Start(w)
  PROVE  OwnInv'
<1>. DEFINE e == [term |-> currentTerm, command |-> w]
            k == Len(logs) + 1
<1>1. /\ waiter[w] = "idle" /\ isLeader /\ Len(logs) < MaxIndex
      /\ waiter' = [waiter EXCEPT ![w] = "started"] /\ index' = [index EXCEPT ![w] = k]
      /\ logs' = Append(logs, e)
      /\ channel' = channel /\ response' = response
      /\ notifyChans' = notifyChans /\ channels' = channels
      /\ currentTerm' = currentTerm /\ isLeader' = isLeader
  BY DEF Start, goTo, startIndex, notifyVars
<1>2. chosen' = chosen /\ pushers' = pushers /\ applier' = applier /\ message' = message
  BY DEF Start, keepsServer, serviceVars
<1>3. /\ logs \in Seq(Entry) /\ Len(logs) \in Nat /\ currentTerm \in Nat
      /\ chosen \in Seq(Entry) /\ Len(chosen) \in Nat /\ MaxIndex \in Nat
      /\ waiter \in [Waiter -> {"idle", "started", "waiting", "cleanup", "done"}]
      /\ index \in [Waiter -> 0..MaxIndex]
      /\ \A v \in Waiter : isWaiting(v) => index[v] \in 1..MaxIndex
  BY LenProperties, BoundAssumption DEF Inv, TypeOK, ChannelsAreFresh, isWaiting
<1>4. e \in Entry /\ e.term = currentTerm /\ e.command = w
  BY <1>3 DEF Entry, Command
<1>. HIDE DEF e
<1>5. /\ Len(logs') = Len(logs) + 1 /\ logs'[k] = e
      /\ \A n \in 1..Len(logs) : logs'[n] = logs[n]
  BY <1>1, <1>3, <1>4, AppendProperties
<1>6. /\ \A v \in Waiter : waiter'[v] = IF v = w THEN "started" ELSE waiter[v]
      /\ \A v \in Waiter : index'[v] = IF v = w THEN k ELSE index[v]
  BY <1>1, <1>3
<1>. HIDE DEF k
<1>7. k = Len(logs) + 1 /\ k \in 1..MaxIndex
  BY <1>1, <1>3 DEF k
<1>8. TermsKnown'
  <2>1. ASSUME NEW n \in 1..Len(logs') PROVE logs'[n].term <= currentTerm
    <3>1. CASE n = k
      BY <1>3, <1>4, <1>5, <3>1
    <3>2. CASE n # k
      <4>1. n \in 1..Len(logs)
        BY <1>3, <1>5, <1>7, <3>2
      <4>. QED
        BY <1>5, <4>1 DEF OwnInv, TermsKnown
    <3>. QED
      BY <3>1, <3>2
  <2>. QED
    BY <1>1, <1>2, <2>1 DEF OwnInv, TermsKnown
<1>9. OwnEntries'
  <2>1. ASSUME NEW n \in 1..Len(chosen), chosen[n].term = currentTerm
        PROVE  n <= Len(logs') /\ logs'[n] = chosen[n]
    <3>1. n <= Len(logs) /\ logs[n] = chosen[n]
      BY <1>1, <2>1 DEF OwnInv, OwnEntries
    <3>. QED
      BY <1>3, <1>5, <3>1
  <2>. QED
    BY <1>1, <1>2, <2>1 DEF OwnEntries
<1>10. SnapshotsKnown'
  <2>1. ASSUME NEW q \in Nat, hasChosen(q) PROVE hasChosen(q)'
    <3>1. \A n \in 1..q : n \in 1..Len(logs) /\ logs[n] = chosen[n]
      BY <1>3, <2>1 DEF hasChosen
    <3>. QED
      BY <1>2, <1>3, <1>5, <2>1, <3>1 DEF hasChosen
  <2>2. pushers \subseteq Nat
    BY BoundAssumption DEF Inv, TypeOK
  <2>3. ASSUME applier = "snapshot" PROVE message.index \in Nat
    BY <2>3, MessageHasIndex DEF Inv, TypeOK
  <2>. QED
    BY <1>1, <1>2, <2>1, <2>2, <2>3 DEF OwnInv, SnapshotsKnown
<1>11. NotifiedIsChosen'
  BY <1>2 DEF OwnInv, NotifiedIsChosen
<1>12. WaitersKnown'
  <2>1. ASSUME NEW v \in Waiter, isWaiting(v)'
        PROVE  \/ index'[v] <= Len(chosen) /\ chosen[index'[v]].term < currentTerm
               \/ index'[v] <= Len(logs') /\ logs'[index'[v]].command = v
    <3>1. CASE v = w
      BY <1>3, <1>4, <1>5, <1>6, <1>7, <3>1
    <3>2. CASE v # w
      <4>1. isWaiting(v) /\ index'[v] = index[v] /\ index[v] \in 1..MaxIndex
        BY <1>3, <1>6, <2>1, <3>2 DEF isWaiting
      <4>2. \/ index[v] <= Len(chosen) /\ chosen[index[v]].term < currentTerm
            \/ index[v] <= Len(logs) /\ logs[index[v]].command = v
        BY <1>1, <4>1 DEF OwnInv, WaitersKnown
      <4>. QED
        BY <1>3, <1>5, <4>1, <4>2
    <3>. QED
      BY <3>1, <3>2
  <2>. QED
    BY <1>1, <1>2, <2>1 DEF WaitersKnown
<1>13. ChannelsNamed'
  BY <1>1, <1>6 DEF OwnInv, ChannelsNamed
<1>14. notifyChans[k] # 0 => channels[notifyChans[k]] = <<>>
  <2>1. k > kvApplied
    <3>1. /\ kvApplied \in Nat /\ machine \in Seq(Entry) /\ commitIndex \in Nat
          /\ lastApplied \in Nat /\ upTo \in Nat \cup {-1}
      BY DEF Inv, TypeOK
    <3>2. /\ Len(machine) \in Nat
          /\ kvApplied = Len(machine) \/ kvApplied = 0
          /\ Len(machine) <= newLastApplied
          /\ newLastApplied <= commitIndex /\ commitIndex <= Len(logs)
      BY <3>1, LenProperties
         DEF Inv, MachineIsChosen, afterRestart, BatchIsChosen, LogIsChosen, newLastApplied
    <3>3. newLastApplied \in Int
      BY <3>1 DEF newLastApplied
    <3>. QED
      BY <1>3, <1>7, <3>1, <3>2, <3>3
  <2>. QED
    BY <1>7, <2>1 DEF Inv, ChannelsAreFresh
<1>15. ContentsOwn'
  <2>. SUFFICES ASSUME NEW v \in Waiter, isWaiting(v)', channelOf(v)' # 0,
                       channels[channelOf(v)'] # <<>>
                PROVE  channels[channelOf(v)'][1].command = v
    BY <1>1 DEF ContentsOwn
  <2>1. CASE v = w
    BY <1>1, <1>6, <1>14, <2>1 DEF channelOf
  <2>2. CASE v # w
    <3>1. isWaiting(v) /\ channelOf(v)' = channelOf(v)
      BY <1>1, <1>6, <2>2 DEF isWaiting, channelOf
    <3>. QED
      BY <3>1 DEF OwnInv, ContentsOwn
  <2>. QED
    BY <2>1, <2>2
<1>16. OwnResponse'
  BY <1>1 DEF OwnInv, OwnResponse, Entry, Command
<1>. QED
  BY <1>8, <1>9, <1>10, <1>11, <1>12, <1>13, <1>15, <1>16 DEF OwnInv

LEMMA CallersLeave ==
  ASSUME LogsKnown,
         UNCHANGED <<chosen, currentTerm, isLeader, logs, pushers, applier, message>>,
         \A v \in Waiter : isWaiting(v)' => isWaiting(v) /\ index'[v] = index[v]
  PROVE  LogsKnown'
<1>1. TermsKnown' /\ OwnEntries' /\ NotifiedIsChosen'
  BY DEF LogsKnown, TermsKnown, OwnEntries, NotifiedIsChosen
<1>2. SnapshotsKnown'
  BY DEF LogsKnown, SnapshotsKnown, hasChosen
<1>3. WaitersKnown'
  BY DEF LogsKnown, WaitersKnown
<1>. QED
  BY <1>1, <1>2, <1>3 DEF LogsKnown

LEMMA MakeChannelOwn ==
  ASSUME Inv, OwnInv, NEW w \in Waiter, MakeChannel(w)
  PROVE  ChannelsKnown'
<1>1. PICK c \in 1..(Len(channels) + 1) :
        getNotifyChan(index[w], c) /\ channel' = [channel EXCEPT ![w] = c]
  BY DEF MakeChannel
<1>2. /\ waiter[w] = "started" /\ waiter' = [waiter EXCEPT ![w] = "waiting"]
      /\ index' = index /\ response' = response
  BY DEF MakeChannel, goTo
<1>3. /\ channels \in Seq(Seq(Entry)) /\ Len(channels) \in Nat
      /\ notifyChans \in [1..MaxIndex -> 0..Len(channels)]
      /\ \A i, j \in 1..MaxIndex :
           notifyChans[i] # 0 /\ notifyChans[i] = notifyChans[j] => i = j
      /\ waiter \in [Waiter -> {"idle", "started", "waiting", "cleanup", "done"}]
      /\ channel \in [Waiter -> Nat] /\ index[w] \in 1..MaxIndex
      /\ \A v \in Waiter : waiter[v] = "started" => index[v] \in 1..MaxIndex
      /\ ChannelsNamed /\ ContentsOwn
  BY <1>2, LenProperties DEF Inv, TypeOK, ChannelsAreFresh, OwnInv
<1>4. /\ \A v \in Waiter : waiter'[v] = IF v = w THEN "waiting" ELSE waiter[v]
      /\ \A v \in Waiter : channel'[v] = IF v = w THEN c ELSE channel[v]
  BY <1>1, <1>2, <1>3
<1>5. OwnResponse'
  BY <1>2 DEF OwnInv, OwnResponse, Entry, Command
<1>6. CASE notifyChans[index[w]] # 0
  <2>1. c = notifyChans[index[w]] /\ notifyChans' = notifyChans /\ channels' = channels
    BY <1>1, <1>6 DEF getNotifyChan, notifyVars
  <2>2. ChannelsNamed'
    BY <1>2, <1>3, <1>4, <1>6, <2>1 DEF ChannelsNamed
  <2>3. \A v \in Waiter : isWaiting(v)' => isWaiting(v) /\ channelOf(v)' = channelOf(v)
    BY <1>2, <1>4, <2>1 DEF isWaiting, channelOf
  <2>4. ContentsOwn'
    BY <1>3, <2>1, <2>3 DEF ContentsOwn
  <2>. QED
    BY <1>5, <2>2, <2>4 DEF ChannelsKnown
<1>7. CASE notifyChans[index[w]] = 0
  <2>1. /\ c = Len(channels) + 1
        /\ notifyChans' = [notifyChans EXCEPT ![index[w]] = Len(channels) + 1]
        /\ channels' = Append(channels, <<>>)
    BY <1>1, <1>7 DEF getNotifyChan
  <2>2. <<>> \in Seq(Entry)
    BY EmptySeq
  <2>3. /\ notifyChans'[index[w]] = c /\ channels'[c] = <<>>
        /\ \A j \in 1..MaxIndex : j # index[w] =>
             /\ notifyChans'[j] = notifyChans[j]
             /\ notifyChans[j] # 0 => channels'[notifyChans[j]] = channels[notifyChans[j]]
        /\ \A v \in Waiter : waiter[v] = "waiting" =>
             /\ channels'[channel[v]] = channels[channel[v]]
             /\ \A j \in 1..MaxIndex : notifyChans'[j] = channel[v] => j = index[v]
    BY <1>3, <2>1, <2>2, ChannelAdded
  <2>4. \A j \in 1..MaxIndex : notifyChans'[j] = c => j = index[w]
    BY <1>3, <2>1, <2>3
  <2>5. ChannelsNamed'
    BY <1>2, <1>4, <2>3, <2>4 DEF ChannelsNamed
  <2>6. ContentsOwn'
    <3>. SUFFICES ASSUME NEW v \in Waiter, isWaiting(v)', channelOf(v)' # 0,
                         channels'[channelOf(v)'] # <<>>
                  PROVE  channels'[channelOf(v)'][1].command = v
      BY DEF ContentsOwn
    <3>1. CASE v = w
      BY <1>4, <2>3, <3>1 DEF channelOf
    <3>2. CASE v # w /\ waiter[v] = "waiting"
      <4>1. channelOf(v)' = channel[v] /\ channelOf(v) = channel[v] /\ isWaiting(v)
        BY <1>4, <3>2 DEF channelOf, isWaiting
      <4>. QED
        BY <1>3, <2>3, <3>2, <4>1 DEF ContentsOwn
    <3>3. CASE v # w /\ waiter[v] # "waiting"
      <4>1. /\ waiter[v] = "started" /\ isWaiting(v) /\ index[v] \in 1..MaxIndex
            /\ channelOf(v)' = notifyChans'[index[v]]
            /\ channelOf(v) = notifyChans[index[v]]
        BY <1>2, <1>3, <1>4, <3>3 DEF channelOf, isWaiting
      <4>2. CASE index[v] = index[w]
        BY <2>3, <4>1, <4>2
      <4>3. CASE index[v] # index[w]
        <5>1. /\ channelOf(v)' = channelOf(v) /\ channelOf(v) # 0
              /\ channels'[channelOf(v)] = channels[channelOf(v)]
          BY <2>3, <4>1, <4>3
        <5>. QED
          BY <1>3, <4>1, <5>1 DEF ContentsOwn
      <4>. QED
        BY <4>2, <4>3
    <3>. QED
      BY <3>1, <3>2, <3>3
  <2>. QED
    BY <1>5, <2>5, <2>6 DEF ChannelsKnown
<1>. QED
  BY <1>6, <1>7

LEMMA ReceiveOwn ==
  ASSUME Inv, OwnInv, NEW w \in Waiter, Receive(w)
  PROVE  ChannelsKnown'
<1>. DEFINE c == channel[w]
<1>1. /\ waiter[w] = "waiting" /\ channels[c] # <<>>
      /\ waiter' = [waiter EXCEPT ![w] = "cleanup"]
      /\ response' = [response EXCEPT ![w] = Head(channels[c])]
      /\ channels' = [channels EXCEPT ![c] = <<>>]
      /\ index' = index /\ channel' = channel /\ notifyChans' = notifyChans
  BY DEF Receive, goTo
<1>2. /\ channels \in Seq(Seq(Entry)) /\ c \in 1..Len(channels)
      /\ notifyChans \in [1..MaxIndex -> 0..Len(channels)] /\ Len(channels) \in Nat
      /\ waiter \in [Waiter -> {"idle", "started", "waiting", "cleanup", "done"}]
      /\ \A v \in Waiter : waiter[v] = "waiting" => channel[v] \in 1..Len(channels)
      /\ \A v \in Waiter : isWaiting(v) => index[v] \in 1..MaxIndex
  BY <1>1, LenProperties DEF Inv, TypeOK, ChannelsAreFresh, isWaiting
<1>3. channels[c][1].command = w /\ Head(channels[c]) = channels[c][1]
  <2>1. channelOf(w) = c /\ isWaiting(w) /\ c # 0
    BY <1>1, <1>2 DEF channelOf, isWaiting
  <2>2. channels[c] \in Seq(Entry)
    BY <1>2, ElementOfSeq
  <2>. QED
    BY <1>1, <2>1, <2>2, HeadTailProperties DEF OwnInv, ContentsOwn
<1>. HIDE DEF c
<1>4. \A i \in 1..Len(channels) : channels'[i] = IF i = c THEN <<>> ELSE channels[i]
  <2>1. <<>> \in Seq(Entry)
    BY EmptySeq
  <2>. QED
    BY <1>1, <1>2, <2>1, ExceptSeq DEF c
<1>5. \A v \in Waiter : waiter'[v] = IF v = w THEN "cleanup" ELSE waiter[v]
  BY <1>1, <1>2
<1>6. OwnResponse'
  <2>1. ASSUME NEW v \in Waiter, response'[v] \in Entry PROVE response'[v].command = v
    <3>1. CASE v = w /\ w \in DOMAIN response
      BY <1>1, <1>3, <3>1 DEF c
    <3>2. CASE v # w \/ w \notin DOMAIN response
      <4>1. response'[v] = response[v]
        BY <1>1, <3>2
      <4>. QED
        BY <2>1, <4>1 DEF OwnInv, OwnResponse
    <3>. QED
      BY <3>1, <3>2
  <2>. QED
    BY <2>1 DEF OwnResponse, Entry, Command
<1>7. ChannelsNamed'
  BY <1>1, <1>5 DEF OwnInv, ChannelsNamed
<1>8. ContentsOwn'
  <2>. SUFFICES ASSUME NEW v \in Waiter, isWaiting(v)', channelOf(v)' # 0,
                       channels'[channelOf(v)'] # <<>>
                PROVE  channels'[channelOf(v)'][1].command = v
    BY DEF ContentsOwn
  <2>1. isWaiting(v) /\ channelOf(v)' = channelOf(v) /\ channelOf(v) # 0
    BY <1>1, <1>5 DEF isWaiting, channelOf
  <2>2. channelOf(v) \in 1..Len(channels)
    BY <1>2, <2>1 DEF isWaiting, channelOf
  <2>3. channelOf(v) # c /\ channels'[channelOf(v)] = channels[channelOf(v)]
    BY <1>4, <2>1, <2>2
  <2>. QED
    BY <2>1, <2>3 DEF OwnInv, ContentsOwn
<1>. QED
  BY <1>6, <1>7, <1>8 DEF ChannelsKnown

LEMMA GiveUpOwn ==
  ASSUME Inv, OwnInv, NEW w \in Waiter, GiveUp(w)
  PROVE  ChannelsKnown'
<1>1. /\ waiter[w] = "waiting" /\ waiter' = [waiter EXCEPT ![w] = "cleanup"]
      /\ response' = [response EXCEPT ![w] = Timeout]
      /\ index' = index /\ channel' = channel
      /\ notifyChans' = notifyChans /\ channels' = channels
      /\ waiter \in [Waiter -> {"idle", "started", "waiting", "cleanup", "done"}]
  BY DEF GiveUp, goTo, notifyVars, Inv, TypeOK
<1>2. \A v \in Waiter : waiter'[v] = IF v = w THEN "cleanup" ELSE waiter[v]
  BY <1>1
<1>3. OwnResponse'
  <2>1. ASSUME NEW v \in Waiter, response'[v] \in Entry PROVE response'[v].command = v
    <3>1. response'[v] # Timeout
      BY <2>1 DEF Timeout, Entry
    <3>2. response'[v] = response[v]
      BY <1>1, <3>1
    <3>. QED
      BY <2>1, <3>2 DEF OwnInv, OwnResponse
  <2>. QED
    BY <2>1 DEF OwnResponse, Entry, Command
<1>4. ChannelsNamed'
  BY <1>1, <1>2 DEF OwnInv, ChannelsNamed
<1>5. \A v \in Waiter : isWaiting(v)' => isWaiting(v) /\ channelOf(v)' = channelOf(v)
  BY <1>1, <1>2 DEF isWaiting, channelOf
<1>6. ContentsOwn'
  BY <1>1, <1>5 DEF OwnInv, ContentsOwn
<1>. QED
  BY <1>3, <1>4, <1>6 DEF ChannelsKnown

LEMMA RemoveChannelOwn ==
  ASSUME Inv, OwnInv, NEW w \in Waiter, RemoveChannel(w)
  PROVE  ChannelsKnown'
<1>1. /\ waiter[w] = "cleanup" /\ waiter' = [waiter EXCEPT ![w] = "done"]
      /\ notifyChans' = [notifyChans EXCEPT ![index[w]] = 0]
      /\ index' = [index EXCEPT ![w] = 0] /\ channel' = [channel EXCEPT ![w] = 0]
      /\ response' = [response EXCEPT ![w] = Nothing]
      /\ channels' = channels
  BY DEF RemoveChannel, goTo
<1>2. /\ waiter \in [Waiter -> {"idle", "started", "waiting", "cleanup", "done"}]
      /\ notifyChans \in [1..MaxIndex -> 0..Len(channels)]
      /\ \A v \in Waiter : isWaiting(v) => index[v] \in 1..MaxIndex
      /\ \A v \in Waiter : waiter[v] = "waiting" => channel[v] \in 1..Len(channels)
  BY DEF Inv, TypeOK, ChannelsAreFresh, isWaiting
<1>3. /\ \A v \in Waiter : waiter'[v] = IF v = w THEN "done" ELSE waiter[v]
      /\ \A v \in Waiter : v # w => index'[v] = index[v] /\ channel'[v] = channel[v]
      /\ \A j \in 1..MaxIndex : notifyChans'[j] # 0 => notifyChans'[j] = notifyChans[j]
  BY <1>1, <1>2
<1>4. OwnResponse'
  <2>1. ASSUME NEW v \in Waiter, response'[v] \in Entry PROVE response'[v].command = v
    <3>1. response'[v] # Nothing
      BY <2>1 DEF Nothing, Entry
    <3>2. response'[v] = response[v]
      BY <1>1, <3>1
    <3>. QED
      BY <2>1, <3>2 DEF OwnInv, OwnResponse
  <2>. QED
    BY <2>1 DEF OwnResponse, Entry, Command
<1>5. ChannelsNamed'
  <2>. SUFFICES ASSUME NEW v \in Waiter, waiter'[v] = "waiting", NEW j \in 1..MaxIndex,
                       notifyChans'[j] = channel'[v]
                PROVE  j = index'[v]
    BY DEF ChannelsNamed
  <2>1. v # w /\ waiter[v] = "waiting" /\ channel'[v] = channel[v] /\ index'[v] = index[v]
    BY <1>3
  <2>2. channel[v] # 0
    BY <1>2, <2>1
  <2>3. notifyChans[j] = channel[v]
    BY <1>3, <2>1, <2>2
  <2>. QED
    BY <2>1, <2>3 DEF OwnInv, ChannelsNamed
<1>6. ContentsOwn'
  <2>. SUFFICES ASSUME NEW v \in Waiter, isWaiting(v)', channelOf(v)' # 0
                PROVE  isWaiting(v) /\ channelOf(v)' = channelOf(v)
    BY <1>1 DEF ContentsOwn, OwnInv
  <2>1. v # w /\ waiter'[v] = waiter[v] /\ isWaiting(v)
    BY <1>3 DEF isWaiting
  <2>2. index'[v] = index[v] /\ channel'[v] = channel[v] /\ index[v] \in 1..MaxIndex
    BY <1>2, <1>3, <2>1
  <2>. QED
    BY <1>3, <2>1, <2>2 DEF channelOf
<1>. QED
  BY <1>4, <1>5, <1>6 DEF ChannelsKnown

LEMMA ExecuteOwn ==
  ASSUME Inv, OwnInv, NEW w \in Waiter, Execute(w)
  PROVE  OwnInv'
<1>1. CASE Start(w)
  BY <1>1, StartOwn
<1>2. CASE MakeChannel(w) \/ Receive(w) \/ GiveUp(w) \/ RemoveChannel(w)
  <2>1. UNCHANGED <<chosen, currentTerm, isLeader, logs, pushers, applier, message>>
    BY <1>2 DEF MakeChannel, Receive, GiveUp, RemoveChannel, keepsServer, serviceVars,
                raftVars
  <2>2. waiter \in [Waiter -> {"idle", "started", "waiting", "cleanup", "done"}]
    BY DEF Inv, TypeOK
  <2>3. /\ \A v \in Waiter : v # w => waiter'[v] = waiter[v] /\ index'[v] = index[v]
        /\ isWaiting(w)' => isWaiting(w) /\ index'[w] = index[w]
    <3>1. CASE MakeChannel(w)
      BY <2>2, <3>1 DEF MakeChannel, goTo, isWaiting
    <3>2. CASE Receive(w)
      BY <2>2, <3>2 DEF Receive, goTo, isWaiting
    <3>3. CASE GiveUp(w)
      BY <2>2, <3>3 DEF GiveUp, goTo, isWaiting
    <3>4. CASE RemoveChannel(w)
      <4>1. /\ waiter' = [waiter EXCEPT ![w] = "done"]
            /\ index' = [index EXCEPT ![w] = 0] /\ index \in [Waiter -> 0..MaxIndex]
        BY <3>4 DEF RemoveChannel, goTo, Inv, TypeOK
      <4>2. waiter'[w] = "done" /\ \A v \in Waiter : v # w => waiter'[v] = waiter[v]
        BY <2>2, <4>1
      <4>3. \A v \in Waiter : v # w => index'[v] = index[v]
        BY <4>1
      <4>. QED
        BY <4>2, <4>3 DEF isWaiting
    <3>. QED
      BY <1>2, <3>1, <3>2, <3>3, <3>4
  <2>4. LogsKnown'
    BY <2>1, <2>3, CallersLeave DEF OwnInv, LogsKnown, isWaiting
  <2>5. ChannelsKnown'
    BY <1>2, MakeChannelOwn, ReceiveOwn, GiveUpOwn, RemoveChannelOwn
  <2>. QED
    BY <2>4, <2>5 DEF OwnInv, LogsKnown, ChannelsKnown
<1>. QED
  BY <1>1, <1>2 DEF Execute

LEMMA CrashOwn ==
  ASSUME Inv, OwnInv, Crash
  PROVE  OwnInv'
<1>1. /\ ~isLeader' /\ applier' = "receive"
      /\ UNCHANGED <<chosen, currentTerm, logs>>
      /\ \A w \in Waiter : waiter'[w] \in {"idle", "done"} /\ response'[w] = Nothing
  BY DEF Crash
<1>2. TermsKnown'
  BY <1>1 DEF OwnInv, TermsKnown
<1>3. OwnResponse'
  <2>1. Nothing \notin Entry
    BY DEF Nothing, Entry
  <2>. QED
    BY <1>1, <2>1 DEF OwnResponse, Entry, Command
<1>4. OwnEntries' /\ SnapshotsKnown' /\ NotifiedIsChosen' /\ WaitersKnown'
  BY <1>1 DEF OwnEntries, SnapshotsKnown, NotifiedIsChosen, WaitersKnown
<1>5. ChannelsNamed' /\ ContentsOwn'
  BY <1>1 DEF ChannelsNamed, ContentsOwn, isWaiting
<1>. QED
  BY <1>2, <1>3, <1>4, <1>5 DEF OwnInv

\* Nobody is answered with the response to another command, although the channel
\* is found by the index alone (Execute, getNotifyChan and applier in server.go).
\* It takes the order of the two timeouts: canLeadAgain.
THEOREM ResponsesAreOwn == Spec => []OwnResponse
<1>1. Inv /\ OwnInv /\ [Next]_vars => OwnInv'
  <2>. SUFFICES ASSUME Inv, OwnInv, [Next]_vars PROVE OwnInv'
    OBVIOUS
  <2>1. CASE UNCHANGED vars
    <3>1. /\ UNCHANGED <<chosen, currentTerm, isLeader, logs, pushers, applier, message>>
          /\ UNCHANGED <<notifyChans, channels, waiter, index, channel, response>>
      BY <2>1 DEF vars, raftVars, serviceVars, notifyVars, waiterVars
    <3>2. LogsKnown'
      BY <3>1, CallersLeave DEF OwnInv, LogsKnown, isWaiting
    <3>3. ChannelsKnown'
      BY <3>1, ResponsesStay DEF OwnInv, ChannelsKnown
    <3>. QED
      BY <3>2, <3>3 DEF OwnInv, LogsKnown, ChannelsKnown
  <2>. QED
    BY <2>1, OthersOwn, PushOwn, ServeOwn, ExecuteOwn, CrashOwn DEF Next
<1>2. OwnInv => OwnResponse
  BY DEF OwnInv
<1>. QED
  BY <1>1, <1>2, InitOwn, InvHolds, PTL DEF Spec
=============================================================================
