------------------------- MODULE ShardCtrlerProofs -------------------------
(***************************************************************************)
(* Proofs about ShardCtrler for any replicas, requests and bounds.         *)
(*                                                                         *)
(* With one clerk a retried operation takes effect once, and an answered   *)
(* one has taken effect.  (Every clerk has client id 0: with two clerks    *)
(* both are false.)  A duplicate is recognised by its number alone.  That  *)
(* is enough because the numbers in the log never decrease and name one    *)
(* operation each, and because a replica remembers the largest of those    *)
(* it has applied.                                                         *)
(*                                                                         *)
(* With any number of clerks, Join and Leave do what they are for, however *)
(* the ties in their loops are broken: at every turn each shard is in one  *)
(* place, a Join balances, and a Leave moves the shards of the groups that *)
(* leave and no others.                                                    *)
(***************************************************************************)
EXTENDS ShardCtrler, TLAPS, SequenceTheorems, FiniteSetTheorems

OneClerk == \A c, d \in Clerk : c = d

Types ==
  /\ commandId \in [Clerk -> Nat]
  /\ request \in [Clerk -> Request \cup {Nil}]
  /\ call \in [Clerk -> Nat]
  /\ log \in Seq(Command)
  /\ applied \in [Replica -> Nat]
  /\ \A r \in Replica : applied[r] <= Len(log)
  /\ lastOperations \in [Replica -> [ClientId -> Int]]
  /\ DOMAIN configs = Replica /\ DOMAIN work = Replica
  /\ \A r \in Replica : \E S : configs[r] \in Seq(S)

\* The numbers in the log do not decrease, each names one operation, and the
\* largest is that of the operation the clerk is busy with.
NumbersInOrder ==
  /\ \A k \in 1..Len(log) :
       /\ log[k].id <= commandId[log[k].from]
       /\ log[k].id = commandId[log[k].from] =>
            request[log[k].from] # Nil /\ log[k].request = request[log[k].from]
  /\ \A j, k \in 1..Len(log) : j <= k => log[j].id <= log[k].id
  /\ \A j, k \in 1..Len(log) : log[j].id = log[k].id => log[j].request = log[k].request

\* A clerk waits for an entry of its present operation.
CallsInLog ==
  \A c \in Clerk : call[c] # 0 =>
    /\ call[c] \in 1..Len(log)
    /\ log[call[c]].from = c /\ log[call[c]].id = commandId[c]

\* A replica remembers the largest number it has applied.
LargestRemembered ==
  \A r \in Replica, i \in ClientId :
    /\ \A k \in 1..applied[r] : changesState(k) => log[k].id <= lastOperations[r][i]
    /\ \/ lastOperations[r][i] = -1
       \/ \E k \in 1..applied[r] : changesState(k) /\ log[k].id = lastOperations[r][i]

\* A loop runs for the next entry of the log.
LoopsForNext ==
  \A r \in Replica : work[r] # Idle =>
    applied[r] < Len(log) /\ ~isApplied(r) /\ nextCommand(r).request.op # "Query"

\* The operations that a replica has applied.
operations(r) ==
  {<<log[k].clientId, log[k].id>> : k \in {n \in 1..applied[r] : changesState(n)}}

OperationsCounted ==
  \A r \in Replica :
    IsFiniteSet(operations(r)) /\ Len(configs[r]) - 1 = Cardinality(operations(r))

\* Every operation in the log has an entry that takes effect.
OneTakesEffect ==
  \A n \in 1..Len(log) : changesState(n) =>
    \E k \in 1..n : log[k].from = log[n].from /\ log[k].id = log[n].id /\ takesEffect(k)

\* The inductive invariant.
Inv ==
  Types /\ NumbersInOrder /\ CallsInLog /\ LargestRemembered /\ LoopsForNext
    /\ OperationsCounted /\ OneTakesEffect /\ AnsweredTakesEffect

-----------------------------------------------------------------------------

\* A function updated at one place, as the provers need it.
LEMMA UpdateAt ==
  ASSUME NEW f, NEW D, DOMAIN f = D, NEW x \in D, NEW v
  PROVE  /\ DOMAIN [f EXCEPT ![x] = v] = D
         /\ [f EXCEPT ![x] = v][x] = v
         /\ \A y \in D : y # x => [f EXCEPT ![x] = v][y] = f[y]
OBVIOUS

\* Appending makes a sequence longer, whatever its entries are.
LEMMA AppendAny ==
  ASSUME NEW s, NEW e, \E S : s \in Seq(S)
  PROVE  (\E S : Append(s, e) \in Seq(S)) /\ Len(s) \in Nat /\ Len(Append(s, e)) = Len(s) + 1
<1>1. PICK S : s \in Seq(S)
  OBVIOUS
<1>2. s \in Seq(S \cup {e})
  BY <1>1, SeqMonotonic
<1>. QED
  BY <1>2, AppendProperties, LenProperties

\* An entry of the log.
LEMMA EntryTypes ==
  ASSUME Types, NEW k \in 1..Len(log)
  PROVE  /\ log[k].from \in Clerk /\ log[k].clientId \in ClientId
         /\ log[k].id \in Nat /\ log[k].request \in Request
         /\ commandId[log[k].from] \in Nat
<1>1. log[k] \in Command
  BY ElementOfSeq DEF Types
<1>. QED
  BY <1>1, Zenon DEF Command, Types

LEMMA InitInv == Init => Inv
<1>. SUFFICES ASSUME Init PROVE Inv
  OBVIOUS
<1>1. Len(log) = 0 /\ log = <<>> /\ \A r \in Replica : applied[r] = 0
  BY EmptySeq DEF Init
<1>2. Types
  <2>1. \A r \in Replica : \E S : configs[r] \in Seq(S)
    <3>1. <<DefaultConfig>> \in Seq({DefaultConfig})
      OBVIOUS
    <3>. QED
      BY <3>1 DEF Init
  <2>2. log \in Seq(Command)
    BY <1>1, EmptySeq
  <2>3. lastOperations \in [Replica -> [ClientId -> Int]]
    BY DEF Init
  <2>. QED
    BY <1>1, <2>1, <2>2, <2>3 DEF Init, Types
<1>3. \A k \in 1..0 : FALSE
  OBVIOUS
<1>4. NumbersInOrder /\ CallsInLog /\ LoopsForNext /\ OneTakesEffect /\ AnsweredTakesEffect
  BY <1>1, <1>3
     DEF Init, NumbersInOrder, CallsInLog, LoopsForNext, OneTakesEffect, AnsweredTakesEffect
<1>5. LargestRemembered
  BY <1>1, <1>3 DEF Init, LargestRemembered
<1>6. OperationsCounted
  <2>. SUFFICES ASSUME NEW r \in Replica
                PROVE IsFiniteSet(operations(r)) /\ Len(configs[r]) - 1 = Cardinality(operations(r))
    BY DEF OperationsCounted
  <2>1. operations(r) = {}
    BY <1>1, <1>3 DEF operations
  <2>2. configs[r] = <<DefaultConfig>> /\ Len(<<DefaultConfig>>) = 1
    BY DEF Init
  <2>. QED
    BY <2>1, <2>2, FS_EmptySet
<1>. QED
  BY <1>2, <1>4, <1>5, <1>6 DEF Inv

-----------------------------------------------------------------------------
(* What a step leaves alone *)

\* A step that appends at most one entry to the log and applies nothing.
LEMMA LogGrows ==
  ASSUME Inv, log' \in Seq(Command), Len(log) <= Len(log'),
         \A k \in 1..Len(log) : log'[k] = log[k],
         UNCHANGED replicaVars
  PROVE  LargestRemembered' /\ LoopsForNext' /\ OperationsCounted'
<1>1. /\ applied' = applied /\ configs' = configs /\ lastOperations' = lastOperations
      /\ work' = work
  BY DEF replicaVars
<1>2. Types /\ Len(log) \in Nat /\ Len(log') \in Nat
  BY LenProperties DEF Inv, Types
<1>3. \A r \in Replica : \A k \in 1..applied[r] : k \in 1..Len(log)
  <2>1. \A r \in Replica : applied[r] \in Nat /\ applied[r] <= Len(log)
    BY <1>2 DEF Types
  <2>. QED
    BY <1>2, <2>1, SMT
<1>4. \A r \in Replica : \A k \in 1..applied[r] : changesState(k)' = changesState(k)
  BY <1>3 DEF changesState
<1>5. LargestRemembered'
  <2>. SUFFICES ASSUME NEW r \in Replica, NEW i \in ClientId
                PROVE  /\ \A k \in 1..applied[r] : changesState(k)' => log'[k].id <= lastOperations[r][i]
                       /\ \/ lastOperations[r][i] = -1
                          \/ \E k \in 1..applied[r] : changesState(k)' /\ log'[k].id = lastOperations[r][i]
    BY <1>1 DEF LargestRemembered
  <2>. QED
    BY <1>3, <1>4 DEF Inv, LargestRemembered
<1>6. LoopsForNext'
  <2>. SUFFICES ASSUME NEW r \in Replica, work[r] # Idle
                PROVE  applied[r] < Len(log') /\ ~isApplied(r)' /\ nextCommand(r)'.request.op # "Query"
    BY <1>1 DEF LoopsForNext
  <2>1. applied[r] < Len(log) /\ ~isApplied(r) /\ nextCommand(r).request.op # "Query"
    BY DEF Inv, LoopsForNext
  <2>2. applied[r] + 1 \in 1..Len(log) /\ applied[r] < Len(log')
    BY <1>2, <2>1, SMT DEF Types
  <2>3. nextCommand(r)' = nextCommand(r)
    BY <1>1, <2>2 DEF nextCommand
  <2>. QED
    BY <1>1, <2>1, <2>2, <2>3 DEF isApplied, isDuplicateRequest
<1>7. OperationsCounted'
  <2>1. \A r \in Replica : operations(r)' = operations(r)
    BY <1>1, <1>3, <1>4 DEF operations
  <2>. QED
    BY <1>1, <2>1 DEF Inv, OperationsCounted
<1>. QED
  BY <1>5, <1>6, <1>7

\* The first of its number stays the first.
LEMMA TakesEffectStays ==
  ASSUME Len(log) \in Nat, \A k \in 1..Len(log) : log'[k] = log[k],
         NEW k \in 1..Len(log), takesEffect(k)
  PROVE  takesEffect(k)'
<1>1. k \in 1..Len(log) /\ \A n \in 1..(k - 1) : n \in 1..Len(log)
  BY SMT
<1>. QED
  BY <1>1 DEF takesEffect, changesState

-----------------------------------------------------------------------------
(* The clerk *)

\* A step that leaves the log and the replicas alone.
LEMMA LogStays ==
  ASSUME Inv, UNCHANGED <<log, replicaVars>>
  PROVE  LargestRemembered' /\ LoopsForNext' /\ OperationsCounted' /\ OneTakesEffect'
<1>1. log \in Seq(Command) /\ log' = log /\ Len(log) \in Nat
  BY LenProperties DEF Inv, Types
<1>2. LargestRemembered' /\ LoopsForNext' /\ OperationsCounted'
  BY <1>1, LogGrows
<1>3. OneTakesEffect'
  BY <1>1 DEF Inv, OneTakesEffect, takesEffect, changesState
<1>. QED
  BY <1>2, <1>3

LEMMA BeginInv == ASSUME Inv, NEW c \in Clerk, NEW q \in Request, Begin(c, q) PROVE Inv'
<1>1. /\ request[c] = Nil /\ request' = [request EXCEPT ![c] = q]
      /\ commandId' = commandId /\ call' = call /\ log' = log /\ answered' = answered
      /\ UNCHANGED <<log, replicaVars>>
  BY DEF Begin
<1>2. /\ applied' = applied /\ configs' = configs /\ lastOperations' = lastOperations
      /\ work' = work
  BY <1>1 DEF replicaVars
<1>3. Types'
  BY <1>1, <1>2 DEF Inv, Types
<1>4. NumbersInOrder'
  <2>1. \A d \in Clerk : d # c => request'[d] = request[d]
    BY <1>1 DEF Inv, Types
  <2>2. ASSUME NEW k \in 1..Len(log)
        PROVE  /\ log[k].id <= commandId[log[k].from]
               /\ log[k].id = commandId[log[k].from] =>
                    request'[log[k].from] # Nil /\ log[k].request = request'[log[k].from]
    <3>1. log[k].from \in Clerk
      BY EntryTypes DEF Inv
    <3>. QED
      BY <1>1, <2>1, <3>1 DEF Inv, NumbersInOrder
  <2>. QED
    BY <1>1, <2>2 DEF Inv, NumbersInOrder
<1>5. CallsInLog' /\ AnsweredTakesEffect'
  BY <1>1 DEF Inv, CallsInLog, AnsweredTakesEffect, takesEffect, changesState
<1>. QED
  BY <1>1, <1>3, <1>4, <1>5, LogStays DEF Inv

\* Whichever way the clerk has finished its operation, the next has a new number.
LEMMA FinishInv ==
  ASSUME OneClerk, Inv, NEW c \in Clerk, finish(c), UNCHANGED <<log, replicaVars>>
  PROVE  /\ Types' /\ NumbersInOrder' /\ CallsInLog'
         /\ LargestRemembered' /\ LoopsForNext' /\ OperationsCounted' /\ OneTakesEffect'
<1>1. /\ request' = [request EXCEPT ![c] = Nil] /\ call' = [call EXCEPT ![c] = 0]
      /\ commandId' = [commandId EXCEPT ![c] = @ + 1] /\ log' = log
  BY DEF finish
<1>2. /\ applied' = applied /\ configs' = configs /\ lastOperations' = lastOperations
      /\ work' = work
  BY DEF replicaVars
<1>3. /\ commandId \in [Clerk -> Nat] /\ request \in [Clerk -> Request \cup {Nil}]
      /\ call \in [Clerk -> Nat]
  BY DEF Inv, Types
<1>4. /\ commandId' \in [Clerk -> Nat] /\ commandId'[c] = commandId[c] + 1
      /\ request' \in [Clerk -> Request \cup {Nil}]
      /\ call' \in [Clerk -> Nat] /\ call'[c] = 0
  BY <1>1, <1>3, SMT
<1>5. Types'
  BY <1>1, <1>2, <1>4 DEF Inv, Types
<1>6. NumbersInOrder'
  <2>1. ASSUME NEW k \in 1..Len(log)
        PROVE  log[k].id <= commandId'[log[k].from] /\ log[k].id # commandId'[log[k].from]
    <3>1. log[k].from = c /\ log[k].id \in Nat /\ commandId[c] \in Nat
      BY <1>3, EntryTypes DEF Inv, OneClerk
    <3>2. log[k].id <= commandId[c]
      BY <3>1 DEF Inv, NumbersInOrder
    <3>. QED
      BY <1>4, <3>1, <3>2, SMT
  <2>. QED
    BY <1>1, <2>1 DEF Inv, NumbersInOrder
<1>7. CallsInLog'
  BY <1>4 DEF CallsInLog, OneClerk
<1>. QED
  BY <1>5, <1>6, <1>7, LogStays

\* An operation with an entry of its number in the log is in effect.
LEMMA AnswerIsTrue ==
  ASSUME Inv, NEW c \in Clerk, UNCHANGED log, answer(c),
         request[c].op # "Query" =>
           \E k \in 1..Len(log) : /\ changesState(k)
                                  /\ log[k].from = c /\ log[k].id = commandId[c]
  PROVE  AnsweredTakesEffect'
<1>0. Len(log) \in Nat /\ DOMAIN log = 1..Len(log)
  BY LenProperties DEF Inv, Types
<1>1. \A k : takesEffect(k)' = takesEffect(k)
  BY DEF takesEffect, changesState
<1>2. ASSUME request[c].op # "Query"
      PROVE  \E k \in DOMAIN log : log[k].from = c /\ log[k].id = commandId[c] /\ takesEffect(k)
  <2>1. PICK n \in 1..Len(log) : changesState(n) /\ log[n].from = c /\ log[n].id = commandId[c]
    BY <1>2
  <2>2. PICK k \in 1..n : log[k].from = c /\ log[k].id = commandId[c] /\ takesEffect(k)
    BY <2>1 DEF Inv, OneTakesEffect
  <2>3. k \in DOMAIN log
    BY <1>0, SMT
  <2>. QED
    BY <2>2, <2>3
<1>. SUFFICES ASSUME NEW a \in answered', a[3].op # "Query"
              PROVE  \E k \in DOMAIN log : log[k].from = a[1] /\ log[k].id = a[2] /\ takesEffect(k)
  BY <1>1 DEF AnsweredTakesEffect
<1>3. CASE a \in answered
  BY <1>3 DEF Inv, AnsweredTakesEffect
<1>4. CASE a = <<c, commandId[c], request[c]>>
  BY <1>2, <1>4
<1>. QED
  BY <1>3, <1>4 DEF answer

LEMMA AnswerDuplicateInv ==
  ASSUME OneClerk, Inv, NEW c \in Clerk, NEW r \in Replica, AnswerDuplicate(c, r)
  PROVE  Inv'
<1>1. /\ request[c] # Nil /\ request[c].op # "Query"
      /\ commandId[c] <= lastOperations[r][0]
      /\ finish(c) /\ answer(c) /\ UNCHANGED <<log, replicaVars>>
  BY DEF AnswerDuplicate, isDuplicateRequest, clientId
<1>2. 0 \in ClientId /\ lastOperations[r][0] \in Int /\ commandId[c] \in Nat
      /\ applied[r] \in Nat /\ applied[r] <= Len(log) /\ Len(log) \in Nat
  BY LenProperties DEF ClientId, clientId, Inv, Types
<1>3. lastOperations[r][0] # -1
  BY <1>1, <1>2, SMT
<1>4. PICK k \in 1..applied[r] : changesState(k) /\ log[k].id = lastOperations[r][0]
  BY <1>2, <1>3 DEF Inv, LargestRemembered
<1>5. k \in 1..Len(log)
  BY <1>2, SMT
<1>6. log[k].from = c /\ log[k].id \in Nat
  BY <1>5, EntryTypes DEF Inv, OneClerk
<1>7. log[k].id <= commandId[c]
  BY <1>5, <1>6 DEF Inv, NumbersInOrder
<1>8. log[k].id = commandId[c]
  BY <1>1, <1>2, <1>4, <1>6, <1>7, SMT
<1>9. AnsweredTakesEffect'
  BY <1>1, <1>4, <1>5, <1>6, <1>8, AnswerIsTrue
<1>. QED
  BY <1>1, <1>9, FinishInv DEF Inv

LEMMA AnswerInv == ASSUME OneClerk, Inv, NEW c \in Clerk, Answer(c) PROVE Inv'
<1>1. /\ call[c] # 0 /\ finish(c) /\ answer(c) /\ UNCHANGED <<log, replicaVars>>
  BY DEF Answer
<1>2. /\ call[c] \in 1..Len(log) /\ log[call[c]].from = c /\ log[call[c]].id = commandId[c]
      /\ log[call[c]].request = request[c]
  BY <1>1 DEF Inv, CallsInLog, NumbersInOrder
<1>3. AnsweredTakesEffect'
  BY <1>1, <1>2, AnswerIsTrue DEF changesState
<1>. QED
  BY <1>1, <1>3, FinishInv DEF Inv

LEMMA RPCErrorInv == ASSUME OneClerk, Inv, NEW c \in Clerk, RPCError(c) PROVE Inv'
<1>1. finish(c) /\ UNCHANGED <<log, replicaVars, answered>>
  BY DEF RPCError
<1>2. AnsweredTakesEffect'
  BY <1>1 DEF Inv, AnsweredTakesEffect, takesEffect, changesState
<1>. QED
  BY <1>1, <1>2, FinishInv DEF Inv

LEMMA TimeoutInv == ASSUME Inv, NEW c \in Clerk, Timeout(c) PROVE Inv'
<1>1. /\ call' = [call EXCEPT ![c] = 0] /\ commandId' = commandId /\ request' = request
      /\ answered' = answered /\ log' = log /\ UNCHANGED <<log, replicaVars>>
  BY DEF Timeout
<1>2. /\ applied' = applied /\ configs' = configs /\ lastOperations' = lastOperations
      /\ work' = work
  BY <1>1 DEF replicaVars
<1>3. call' \in [Clerk -> Nat] /\ \A d \in Clerk : call'[d] # 0 => call'[d] = call[d]
  BY <1>1, SMT DEF Inv, Types
<1>4. Types'
  BY <1>1, <1>2, <1>3 DEF Inv, Types
<1>5. NumbersInOrder' /\ AnsweredTakesEffect'
  BY <1>1 DEF Inv, NumbersInOrder, AnsweredTakesEffect, takesEffect, changesState
<1>6. CallsInLog'
  BY <1>1, <1>3 DEF Inv, CallsInLog
<1>. QED
  BY <1>1, <1>4, <1>5, <1>6, LogStays DEF Inv

\* Start appends an entry with the largest number: the operation of every entry
\* with that number is the one the clerk is busy with.
LEMMA CallInv ==
  ASSUME OneClerk, Inv, NEW c \in Clerk, NEW r \in Replica, Call(c, r)
  PROVE  Inv'
<1>. DEFINE e == [from |-> c, clientId |-> clientId(c), id |-> commandId[c],
                  request |-> request[c]]
            new == Len(log) + 1
<1>1. /\ request[c] # Nil /\ log' = Append(log, e)
      /\ call' = [call EXCEPT ![c] = new]
      /\ commandId' = commandId /\ request' = request /\ answered' = answered
      /\ UNCHANGED replicaVars
  BY DEF Call
<1>2. /\ applied' = applied /\ configs' = configs /\ lastOperations' = lastOperations
      /\ work' = work
  BY <1>1 DEF replicaVars
<1>3. /\ e \in Command /\ e.from = c /\ e.id = commandId[c] /\ e.request = request[c]
      /\ commandId[c] \in Nat
  BY <1>1 DEF Inv, Types, Command, ClientId
<1>. HIDE DEF e
<1>4. /\ log \in Seq(Command) /\ Len(log) \in Nat /\ log' \in Seq(Command)
      /\ Len(log') = new /\ log'[new] = e /\ \A k \in 1..Len(log) : log'[k] = log[k]
  BY <1>1, <1>3, AppendProperties, LenProperties DEF Inv, Types
<1>5. 1..Len(log') = 1..Len(log) \cup {new} /\ new \notin 1..Len(log)
      /\ Len(log) <= Len(log')
  BY <1>4, SMT
<1>6. ASSUME NEW k \in 1..Len(log)
      PROVE  /\ log[k].from = c /\ log[k].id \in Nat /\ log[k].id <= commandId[c]
             /\ log[k].id = commandId[c] => log[k].request = request[c]
             /\ changesState(k)' = changesState(k)
  BY <1>4, EntryTypes DEF Inv, NumbersInOrder, OneClerk, changesState
<1>7. Types'
  <2>1. \A s \in Replica : applied[s] <= Len(log')
    BY <1>4, SMT DEF Inv, Types
  <2>2. call' \in [Clerk -> Nat]
    BY <1>1, <1>4, SMT DEF Inv, Types
  <2>. QED
    BY <1>1, <1>2, <1>4, <2>1, <2>2 DEF Inv, Types
<1>8. NumbersInOrder'
  <2>1. ASSUME NEW k \in 1..Len(log')
        PROVE  /\ log'[k].id <= commandId[log'[k].from]
               /\ log'[k].id = commandId[log'[k].from] =>
                    /\ request[log'[k].from] # Nil
                    /\ log'[k].request = request[log'[k].from]
    <3>1. CASE k = new
      BY <1>1, <1>3, <1>4, <3>1
    <3>2. CASE k \in 1..Len(log)
      BY <1>1, <1>4, <1>6, <3>2
    <3>. QED
      BY <1>5, <3>1, <3>2
  <2>2. ASSUME NEW j \in 1..Len(log'), NEW k \in 1..Len(log')
        PROVE  /\ j <= k => log'[j].id <= log'[k].id
               /\ log'[j].id = log'[k].id => log'[j].request = log'[k].request
    <3>1. CASE j \in 1..Len(log) /\ k \in 1..Len(log)
      BY <1>4, <3>1 DEF Inv, NumbersInOrder
    <3>2. CASE j \in 1..Len(log) /\ k = new
      BY <1>3, <1>4, <1>6, <3>2
    <3>3. CASE j = new /\ k \in 1..Len(log)
      <4>1. ~(j <= k)
        BY <1>4, <3>3, SMT
      <4>. QED
        BY <1>3, <1>4, <1>6, <3>3, <4>1
    <3>4. CASE j = new /\ k = new
      BY <1>3, <1>4, <3>4
    <3>. QED
      BY <1>5, <3>1, <3>2, <3>3, <3>4
  <2>. QED
    BY <1>1, <2>1, <2>2 DEF NumbersInOrder
<1>9. CallsInLog'
  <2>1. call'[c] = new
    BY <1>1 DEF Inv, Types
  <2>. QED
    BY <1>1, <1>3, <1>4, <1>5, <2>1 DEF CallsInLog, OneClerk
<1>10. \A k \in 1..Len(log) : takesEffect(k) => takesEffect(k)'
  BY <1>4, TakesEffectStays
<1>11. OneTakesEffect'
  <2>. SUFFICES ASSUME NEW n \in 1..Len(log'), changesState(n)'
                PROVE  \E k \in 1..n : /\ log'[k].from = log'[n].from
                                       /\ log'[k].id = log'[n].id /\ takesEffect(k)'
    BY DEF OneTakesEffect
  <2>1. CASE n \in 1..Len(log)
    <3>1. PICK k \in 1..n : log[k].from = log[n].from /\ log[k].id = log[n].id /\ takesEffect(k)
      BY <1>6, <2>1 DEF Inv, OneTakesEffect
    <3>2. k \in 1..Len(log)
      BY <1>4, <2>1, SMT
    <3>. QED
      BY <1>4, <1>10, <2>1, <3>1, <3>2
  <2>2. CASE n = new /\ \E m \in 1..Len(log) : changesState(m) /\ log[m].id = commandId[c]
    <3>1. PICK m \in 1..Len(log) : changesState(m) /\ log[m].id = commandId[c]
      BY <2>2
    <3>2. PICK k \in 1..m : log[k].from = log[m].from /\ log[k].id = log[m].id /\ takesEffect(k)
      BY <3>1 DEF Inv, OneTakesEffect
    <3>3. k \in 1..Len(log) /\ k \in 1..n
      BY <1>4, <2>2, SMT
    <3>. QED
      BY <1>3, <1>4, <1>6, <1>10, <2>2, <3>1, <3>2, <3>3
  <2>3. CASE n = new /\ \A m \in 1..Len(log) : changesState(m) => log[m].id # commandId[c]
    <3>1. \A m \in 1..(n - 1) : m \in 1..Len(log) /\ n \in 1..n
      BY <1>4, <2>3, SMT
    <3>2. \A m \in 1..(n - 1) : changesState(m)' => log'[m].id < log'[n].id
      BY <1>3, <1>4, <1>6, <2>3, <3>1
    <3>3. takesEffect(n)'
      BY <3>2 DEF takesEffect
    <3>4. n \in 1..n
      BY <1>4, <2>3, SMT
    <3>. QED
      BY <3>3, <3>4
  <2>. QED
    BY <1>5, <2>1, <2>2, <2>3
<1>12. AnsweredTakesEffect'
  <2>. SUFFICES ASSUME NEW a \in answered, a[3].op # "Query"
                PROVE  \E k \in DOMAIN log' : /\ log'[k].from = a[1] /\ log'[k].id = a[2]
                                              /\ takesEffect(k)'
    BY <1>1 DEF AnsweredTakesEffect
  <2>1. PICK k \in DOMAIN log : log[k].from = a[1] /\ log[k].id = a[2] /\ takesEffect(k)
    BY DEF Inv, AnsweredTakesEffect
  <2>2. k \in 1..Len(log) /\ k \in DOMAIN log'
    BY <1>4, <1>5, <2>1, LenProperties
  <2>. QED
    BY <1>4, <1>10, <2>1, <2>2
<1>. QED
  BY <1>1, <1>4, <1>5, <1>7, <1>8, <1>9, <1>11, <1>12, LogGrows DEF Inv

-----------------------------------------------------------------------------
(* The replicas *)

\* A step of a replica leaves the log and the clerk alone.
LEMMA ClerkStays ==
  ASSUME Inv, UNCHANGED <<log, clerkVars, answered>>
  PROVE  NumbersInOrder' /\ CallsInLog' /\ OneTakesEffect' /\ AnsweredTakesEffect'
<1>1. /\ log' = log /\ commandId' = commandId /\ request' = request /\ call' = call
      /\ answered' = answered
  BY DEF clerkVars
<1>. QED
  BY <1>1 DEF Inv, NumbersInOrder, CallsInLog, OneTakesEffect, AnsweredTakesEffect,
              takesEffect, changesState

\* A step of the loop of a Join or Leave, its start included.
LEMMA LoopInv ==
  ASSUME Inv, NEW r \in Replica,
         UNCHANGED <<applied, configs, lastOperations, log, clerkVars, answered>>,
         DOMAIN work' = Replica, \A t \in Replica : t # r => work'[t] = work[t],
         applied[r] < Len(log), ~isApplied(r), nextCommand(r).request.op # "Query"
  PROVE  Inv'
<1>1. /\ applied' = applied /\ configs' = configs /\ lastOperations' = lastOperations
      /\ log' = log /\ commandId' = commandId /\ request' = request /\ call' = call
  BY DEF clerkVars
<1>2. Types'
  BY <1>1 DEF Inv, Types
<1>3. LargestRemembered'
  BY <1>1 DEF Inv, LargestRemembered, changesState
<1>4. \A t \in Replica : isApplied(t)' = isApplied(t) /\ nextCommand(t)' = nextCommand(t)
  BY <1>1 DEF isApplied, nextCommand, isDuplicateRequest
<1>5. LoopsForNext'
  <2>. SUFFICES ASSUME NEW t \in Replica, work'[t] # Idle
                PROVE  applied[t] < Len(log) /\ ~isApplied(t) /\ nextCommand(t).request.op # "Query"
    BY <1>1, <1>4 DEF LoopsForNext
  <2>. QED
    BY DEF Inv, LoopsForNext
<1>6. OperationsCounted'
  <2>1. \A t \in Replica : operations(t)' = operations(t)
    BY <1>1 DEF operations, changesState
  <2>. QED
    BY <1>1, <2>1 DEF Inv, OperationsCounted
<1>. QED
  BY <1>2, <1>3, <1>5, <1>6, ClerkStays DEF Inv

\* The command that a replica applies next.
LEMMA NextCommand ==
  ASSUME Inv, NEW r \in Replica, applied[r] < Len(log)
  PROVE  LET n == applied[r] + 1 IN
         /\ n \in 1..Len(log) /\ 1..n = 1..applied[r] \cup {n} /\ n \notin 1..applied[r]
         /\ \A j \in 1..applied[r] : j \in 1..Len(log) /\ j <= n
         /\ nextCommand(r) = log[n] /\ log[n].clientId = 0 /\ log[n].id \in Nat
         /\ ClientId = {0} /\ 0 \in ClientId /\ lastOperations[r][0] \in Int
         /\ isApplied(r) <=> log[n].id <= lastOperations[r][0]
         /\ nextCommand(r).request.op # "Query" <=> changesState(n)
         /\ \A j \in 1..Len(log) : log[j].clientId = 0 /\ log[j].id \in Nat
<1>. DEFINE n == applied[r] + 1
<1>1. applied[r] \in Nat /\ Len(log) \in Nat
  BY LenProperties DEF Inv, Types
<1>2. /\ n \in 1..Len(log) /\ 1..n = 1..applied[r] \cup {n} /\ n \notin 1..applied[r]
      /\ \A j \in 1..applied[r] : j \in 1..Len(log) /\ j <= n
  BY <1>1, SMT
<1>3. \A j \in 1..Len(log) : log[j].clientId \in ClientId /\ log[j].id \in Nat
  BY EntryTypes DEF Inv
<1>4. ClientId = {0}
  BY <1>2, <1>3 DEF ClientId, clientId
<1>5. nextCommand(r) = log[n]
  BY DEF nextCommand
<1>6. lastOperations[r][0] \in Int
  BY <1>4 DEF Inv, Types
<1>7. isApplied(r) <=> log[n].id <= lastOperations[r][0]
  BY <1>2, <1>3, <1>4, <1>5 DEF isApplied, isDuplicateRequest
<1>8. nextCommand(r).request.op # "Query" <=> changesState(n)
  BY <1>5 DEF changesState
<1>. QED
  BY <1>2, <1>3, <1>4, <1>5, <1>6, <1>7, <1>8

\* When a replica has applied the next command, its operations are those it had
\* and that command's.
LEMMA OperationsGrow ==
  ASSUME Inv, NEW r \in Replica, applied[r] < Len(log), log' = log,
         applied' = [applied EXCEPT ![r] = @ + 1]
  PROVE  /\ operations(r)' = IF changesState(applied[r] + 1)
                             THEN operations(r) \cup {<<0, log[applied[r] + 1].id>>}
                             ELSE operations(r)
         /\ \A t \in Replica : t # r => operations(t)' = operations(t)
<1>. DEFINE n == applied[r] + 1
<1>1. 1..n = 1..applied[r] \cup {n} /\ log[n].clientId = 0
  BY NextCommand
<1>2. applied'[r] = n /\ \A t \in Replica : t # r => applied'[t] = applied[t]
  BY DEF Inv, Types
<1>3. \A k : changesState(k)' = changesState(k)
  BY DEF changesState
<1>. HIDE DEF n
<1>4. operations(r)' = {<<log[k].clientId, log[k].id>> : k \in {m \in 1..n : changesState(m)}}
  BY <1>2, <1>3 DEF operations
<1>5. {m \in 1..n : changesState(m)} =
        {m \in 1..applied[r] : changesState(m)} \cup IF changesState(n) THEN {n} ELSE {}
  BY <1>1
<1>6. operations(r)' = IF changesState(n) THEN operations(r) \cup {<<0, log[n].id>>}
                                          ELSE operations(r)
  BY <1>1, <1>4, <1>5 DEF operations
<1>7. \A t \in Replica : t # r => operations(t)' = operations(t)
  BY <1>2, <1>3 DEF operations
<1>. QED
  BY <1>6, <1>7 DEF n

\* A duplicate's number is the largest applied one, so its operation is counted.
LEMMA SkipInv == ASSUME Inv, NEW r \in Replica, Skip(r) PROVE Inv'
<1>. DEFINE n == applied[r] + 1
<1>1. /\ work[r] = Idle /\ applied[r] < Len(log)
      /\ nextCommand(r).request.op = "Query" \/ isApplied(r)
      /\ applied' = [applied EXCEPT ![r] = @ + 1]
      /\ UNCHANGED <<log, clerkVars, answered>>
      /\ configs' = configs /\ lastOperations' = lastOperations /\ work' = work /\ log' = log
      /\ commandId' = commandId /\ request' = request /\ call' = call
  BY DEF Skip, canApply, clerkVars
<1>2. /\ n \in 1..Len(log) /\ 1..n = 1..applied[r] \cup {n}
      /\ \A j \in 1..applied[r] : j \in 1..Len(log) /\ j <= n
      /\ log[n].id \in Nat /\ ClientId = {0} /\ 0 \in ClientId /\ lastOperations[r][0] \in Int
      /\ changesState(n) => log[n].id <= lastOperations[r][0]
      /\ \A j \in 1..Len(log) : log[j].clientId = 0 /\ log[j].id \in Nat
  BY <1>1, NextCommand
<1>3. applied'[r] = n /\ \A t \in Replica : t # r => applied'[t] = applied[t]
  BY <1>1 DEF Inv, Types
<1>4. applied \in [Replica -> Nat] /\ Len(log) \in Nat
  BY LenProperties DEF Inv, Types
<1>5. n \in Nat /\ n <= Len(log)
  BY <1>1, <1>4, SMT
<1>6. \A k : changesState(k)' = changesState(k)
  BY <1>1 DEF changesState
<1>. HIDE DEF n
<1>7. Types'
  <2>1. applied' \in [Replica -> Nat] /\ \A t \in Replica : applied'[t] <= Len(log)
    BY <1>1, <1>3, <1>4, <1>5 DEF Inv, Types
  <2>. QED
    BY <1>1, <2>1 DEF Inv, Types
<1>8. LargestRemembered'
  <2>. SUFFICES ASSUME NEW t \in Replica, NEW i \in ClientId
                PROVE  /\ \A k \in 1..applied'[t] : changesState(k) => log[k].id <= lastOperations[t][i]
                       /\ \/ lastOperations[t][i] = -1
                          \/ \E k \in 1..applied'[t] : changesState(k) /\ log[k].id = lastOperations[t][i]
    BY <1>1, <1>6 DEF LargestRemembered
  <2>1. CASE t # r
    BY <1>3, <2>1 DEF Inv, LargestRemembered
  <2>2. CASE t = r
    BY <1>2, <1>3, <2>2 DEF Inv, LargestRemembered
  <2>. QED
    BY <2>1, <2>2
<1>9. LoopsForNext'
  <2>. SUFFICES ASSUME NEW t \in Replica, work[t] # Idle
                PROVE  applied'[t] < Len(log) /\ ~isApplied(t)' /\ nextCommand(t)'.request.op # "Query"
    BY <1>1 DEF LoopsForNext
  <2>1. applied'[t] = applied[t]
    BY <1>1, <1>3
  <2>. QED
    BY <1>1, <2>1 DEF Inv, LoopsForNext, isApplied, isDuplicateRequest, nextCommand
<1>10. OperationsCounted'
  <2>1. ASSUME changesState(n) PROVE <<0, log[n].id>> \in operations(r)
    <3>1. lastOperations[r][0] # -1
      BY <1>2, <2>1, SMT
    <3>2. PICK j \in 1..applied[r] : changesState(j) /\ log[j].id = lastOperations[r][0]
      BY <1>2, <3>1 DEF Inv, LargestRemembered
    <3>3. log[j].id <= log[n].id
      BY <1>2 DEF Inv, NumbersInOrder
    <3>4. log[j].id \in Nat /\ log[j].clientId = 0
      BY <1>2
    <3>5. log[j].id = log[n].id
      BY <1>2, <2>1, <3>2, <3>3, <3>4, SMT
    <3>. QED
      BY <3>2, <3>4, <3>5 DEF operations
  <2>2. operations(r)' = operations(r) /\ \A t \in Replica : t # r => operations(t)' = operations(t)
    BY <1>1, <2>1, OperationsGrow DEF n
  <2>. QED
    BY <1>1, <2>2 DEF Inv, OperationsCounted
<1>. QED
  BY <1>1, <1>7, <1>8, <1>9, <1>10, ClerkStays DEF Inv

\* A new configuration comes with a number larger than all applied before it.
LEMMA InstallInv ==
  ASSUME Inv, NEW r \in Replica, NEW groups, NEW shards, install(r, groups, shards),
         UNCHANGED <<log, clerkVars, answered>>,
         applied[r] < Len(log), ~isApplied(r), nextCommand(r).request.op # "Query"
  PROVE  Inv'
<1>. DEFINE n == applied[r] + 1
            new == nextConfig(r, groups, shards)
<1>1. /\ nextCommand(r) = log[n] /\ log[n].clientId = 0
      /\ n \in 1..Len(log) /\ 1..n = 1..applied[r] \cup {n}
      /\ \A j \in 1..applied[r] : j \in 1..Len(log) /\ j <= n
      /\ log[n].id \in Nat /\ ClientId = {0} /\ 0 \in ClientId /\ lastOperations[r][0] \in Int
      /\ changesState(n) /\ ~(log[n].id <= lastOperations[r][0])
      /\ \A j \in 1..Len(log) : log[j].clientId = 0 /\ log[j].id \in Nat
  BY NextCommand
<1>2. /\ configs' = [configs EXCEPT ![r] = Append(@, new)]
      /\ work' = [work EXCEPT ![r] = Idle]
      /\ applied' = [applied EXCEPT ![r] = @ + 1]
      /\ lastOperations' = [lastOperations EXCEPT ![r][0] = log[n].id]
      /\ log' = log /\ commandId' = commandId /\ request' = request /\ call' = call
  BY <1>1 DEF install, clerkVars
<1>3. /\ applied \in [Replica -> Nat] /\ Len(log) \in Nat
      /\ lastOperations \in [Replica -> [ClientId -> Int]]
      /\ DOMAIN configs = Replica /\ DOMAIN work = Replica
  BY LenProperties DEF Inv, Types
<1>4. n \in Nat /\ n <= Len(log)
  BY <1>3, SMT
<1>. HIDE DEF n, new
<1>5. \A t \in Replica : t # r =>
        /\ applied'[t] = applied[t] /\ configs'[t] = configs[t]
        /\ work'[t] = work[t] /\ lastOperations'[t] = lastOperations[t]
  BY <1>2, <1>3
<1>6. /\ applied'[r] = n /\ configs'[r] = Append(configs[r], new) /\ work'[r] = Idle
      /\ lastOperations'[r][0] = log[n].id
  BY <1>1, <1>2, <1>3 DEF n
<1>7. \A k : changesState(k)' = changesState(k)
  BY <1>2 DEF changesState
<1>8. /\ \E S : configs'[r] \in Seq(S)
      /\ Len(configs[r]) \in Nat /\ Len(configs'[r]) = Len(configs[r]) + 1
  <2>1. \E S : configs[r] \in Seq(S)
    BY DEF Inv, Types
  <2>. QED
    BY <1>6, <2>1, AppendAny
<1>9. Types'
  <2>1. applied' \in [Replica -> Nat] /\ \A t \in Replica : applied'[t] <= Len(log)
    BY <1>2, <1>3, <1>4, <1>5, <1>6 DEF Inv, Types
  <2>2. lastOperations' \in [Replica -> [ClientId -> Int]]
    BY <1>1, <1>2, <1>3
  <2>3. DOMAIN configs' = Replica /\ DOMAIN work' = Replica
    BY <1>2, <1>3
  <2>4. \A t \in Replica : \E S : configs'[t] \in Seq(S)
    BY <1>5, <1>8 DEF Inv, Types
  <2>. QED
    BY <1>2, <2>1, <2>2, <2>3, <2>4 DEF Inv, Types
<1>10. \A k \in 1..applied[r] : changesState(k) => log[k].id <= lastOperations[r][0]
  BY <1>1 DEF Inv, LargestRemembered
<1>11. \A k \in 1..applied[r] : changesState(k) => log[k].id < log[n].id
  BY <1>1, <1>10, SMT
<1>12. LargestRemembered'
  <2>. SUFFICES ASSUME NEW t \in Replica, NEW i \in ClientId
                PROVE  /\ \A k \in 1..applied'[t] : changesState(k) => log[k].id <= lastOperations'[t][i]
                       /\ \/ lastOperations'[t][i] = -1
                          \/ \E k \in 1..applied'[t] : changesState(k) /\ log[k].id = lastOperations'[t][i]
    BY <1>2, <1>7 DEF LargestRemembered
  <2>1. CASE t # r
    BY <1>5, <2>1 DEF Inv, LargestRemembered
  <2>2. CASE t = r
    <3>1. i = 0 /\ n \in 1..applied'[t] /\ lastOperations'[t][i] = log[n].id
      BY <1>1, <1>6, <2>2
    <3>2. \A k \in 1..applied'[t] : k = n \/ k \in 1..applied[r]
      BY <1>1, <1>6, <2>2
    <3>3. \A k \in 1..applied'[t] : changesState(k) => log[k].id <= log[n].id
      BY <1>1, <1>11, <3>2, SMT
    <3>. QED
      BY <1>1, <3>1, <3>3
  <2>. QED
    BY <2>1, <2>2
<1>13. LoopsForNext'
  <2>. SUFFICES ASSUME NEW t \in Replica, work'[t] # Idle
                PROVE  applied'[t] < Len(log) /\ ~isApplied(t)' /\ nextCommand(t)'.request.op # "Query"
    BY <1>2 DEF LoopsForNext
  <2>1. applied'[t] = applied[t] /\ work'[t] = work[t] /\ lastOperations'[t] = lastOperations[t]
    BY <1>5, <1>6
  <2>. QED
    BY <1>2, <2>1 DEF Inv, LoopsForNext, isApplied, isDuplicateRequest, nextCommand
<1>14. OperationsCounted'
  <2>1. <<0, log[n].id>> \notin operations(r)
    <3>. SUFFICES ASSUME NEW k \in 1..applied[r], changesState(k),
                         <<0, log[n].id>> = <<log[k].clientId, log[k].id>>
                  PROVE  FALSE
      BY DEF operations
    <3>1. log[k].id = log[n].id
      OBVIOUS
    <3>. QED
      BY <1>1, <1>11, <3>1, SMT
  <2>2. /\ operations(r)' = operations(r) \cup {<<0, log[n].id>>}
        /\ \A t \in Replica : t # r => operations(t)' = operations(t)
    BY <1>1, <1>2, OperationsGrow DEF n
  <2>3. IsFiniteSet(operations(r)) /\ Len(configs[r]) - 1 = Cardinality(operations(r))
    BY DEF Inv, OperationsCounted
  <2>4. /\ IsFiniteSet(operations(r)')
        /\ Cardinality(operations(r)') = Cardinality(operations(r)) + 1
    BY <2>1, <2>2, <2>3, FS_AddElement
  <2>5. Len(configs'[r]) - 1 = Cardinality(operations(r)')
    BY <1>8, <2>3, <2>4, SMT
  <2>. QED
    BY <1>5, <2>2, <2>4, <2>5 DEF Inv, OperationsCounted
<1>. QED
  BY <1>9, <1>12, <1>13, <1>14, ClerkStays DEF Inv

LEMMA ApplyInv == ASSUME Inv, NEW r \in Replica, Apply(r) PROVE Inv'
<1>0. DOMAIN work = Replica
  BY DEF Inv, Types
<1>1. CASE Skip(r)
  BY <1>1, SkipInv
<1>2. CASE Move(r)
  <2>1. /\ applied[r] < Len(log) /\ ~isApplied(r) /\ nextCommand(r).request.op # "Query"
        /\ UNCHANGED <<log, clerkVars, answered>>
    BY <1>2, Zenon DEF Move, canApply
  <2>2. \E groups, shards : install(r, groups, shards)
    BY <1>2, Zenon DEF Move
  <2>. QED
    BY <2>1, <2>2, InstallInv
<1>3. CASE StartJoin(r) \/ StartLeave(r)
  <2>1. /\ applied[r] < Len(log) /\ ~isApplied(r) /\ nextCommand(r).request.op # "Query"
        /\ UNCHANGED <<applied, configs, lastOperations, log, clerkVars, answered>>
    BY <1>3 DEF StartJoin, StartLeave, canApply
  <2>2. \E w : work' = [work EXCEPT ![r] = w]
    BY <1>3, Zenon DEF StartJoin, StartLeave
  <2>3. DOMAIN work' = Replica /\ \A t \in Replica : t # r => work'[t] = work[t]
    BY <1>0, <2>2
  <2>. QED
    BY <2>1, <2>3, LoopInv
<1>4. CASE Rebalance(r) \/ TakeGroup(r) \/ AdoptOrphan(r)
  <2>1. /\ work[r] # Idle
        /\ UNCHANGED <<applied, configs, lastOperations, log, clerkVars, answered>>
    BY <1>4 DEF Rebalance, TakeGroup, AdoptOrphan, Idle
  <2>2. \E w : work' = [work EXCEPT ![r] = w]
    <3>1. CASE Rebalance(r)
      <4>1. PICK g2s : work' = [work EXCEPT ![r].g2s = g2s]
        BY <3>1, Zenon DEF Rebalance
      <4>. QED
        BY <4>1
    <3>2. CASE AdoptOrphan(r)
      <4>1. PICK target : work' = [work EXCEPT ![r].g2s[target] = Append(@, Head(work[r].orphans)),
                                               ![r].orphans = Tail(@)]
        BY <3>2 DEF AdoptOrphan
      <4>. QED
        BY <4>1
    <3>3. CASE TakeGroup(r)
      BY <3>3, Zenon DEF TakeGroup
    <3>. QED
      BY <1>4, <3>1, <3>2, <3>3
  <2>3. DOMAIN work' = Replica /\ \A t \in Replica : t # r => work'[t] = work[t]
    BY <1>0, <2>2
  <2>4. applied[r] < Len(log) /\ ~isApplied(r) /\ nextCommand(r).request.op # "Query"
    BY <2>1 DEF Inv, LoopsForNext
  <2>. QED
    BY <2>1, <2>3, <2>4, LoopInv
<1>5. CASE FinishJoin(r) \/ FinishLeave(r)
  <2>1. work[r] # Idle /\ UNCHANGED <<log, clerkVars, answered>>
    BY <1>5 DEF FinishJoin, FinishLeave, Idle
  <2>2. \E groups, shards : install(r, groups, shards)
    BY <1>5, Zenon DEF FinishJoin, FinishLeave
  <2>3. applied[r] < Len(log) /\ ~isApplied(r) /\ nextCommand(r).request.op # "Query"
    BY <2>1 DEF Inv, LoopsForNext
  <2>. QED
    BY <2>1, <2>2, <2>3, InstallInv
<1>. QED
  BY <1>1, <1>2, <1>3, <1>4, <1>5 DEF Apply

LEMMA NextInv == ASSUME OneClerk, Inv, [Next]_vars PROVE Inv'
<1>1. CASE UNCHANGED vars
  <2>1. UNCHANGED <<log, replicaVars, clerkVars, answered>>
    BY <1>1 DEF vars
  <2>2. Types'
    BY <2>1 DEF Inv, Types, replicaVars, clerkVars
  <2>. QED
    BY <2>1, <2>2, LogStays, ClerkStays DEF Inv
<1>2. CASE Next
  BY <1>2, BeginInv, AnswerDuplicateInv, CallInv, AnswerInv, TimeoutInv, RPCErrorInv, ApplyInv
     DEF Next
<1>. QED
  BY <1>1, <1>2

LEMMA InvHolds == ASSUME OneClerk PROVE Spec => []Inv
<1>1. Inv /\ [Next]_vars => Inv'
  BY NextInv
<1>. QED
  BY <1>1, InitInv, PTL DEF Spec

\* However often the clerk retries an operation, at whichever replica, and
\* however many of its attempts reach the log, a replica makes one
\* configuration of it (isDuplicateRequest, server.go:70 and :122).
THEOREM OperationsAppliedOnce == ASSUME OneClerk PROVE Spec => []EffectOnce
<1>1. Inv => EffectOnce
  BY DEF Inv, OperationsCounted, operations, EffectOnce
<1>. QED
  BY <1>1, InvHolds, PTL

\* An OK is the truth, even when a server answers it from lastOperations alone:
\* the operation has an entry in the log that no replica skips
\* (the Command handler, server.go:122).
THEOREM AnswersAreTrue == ASSUME OneClerk PROVE Spec => []AnsweredTakesEffect
<1>1. Inv => AnsweredTakesEffect
  BY DEF Inv
<1>. QED
  BY <1>1, InvHolds, PTL

-----------------------------------------------------------------------------
(* The loops of Join and Leave, for any number of clerks *)

\* A list of shards without repetitions.
isList(l) == l \in Seq(Shard) /\ IsInjective(l)

isMap(f) == f = [x \in DOMAIN f |-> f[x]]

\* What a turn of Leave's loops does to the map: a group is taken from it, its shards
\* are collected, and a shard is given to a group.
collected(g2s, gid, orphans) ==
  IF gid \in DOMAIN g2s THEN orphans \o g2s[gid] ELSE orphans
without(g2s, gid) == [g \in DOMAIN g2s \ {gid} |-> g2s[g]]
with(g2s, target, s) == [g2s EXCEPT ![target] = Append(@, s)]

\* Every shard is in one list, and in it once.
isPartition(g2s, orphans) ==
  /\ isList(orphans)
  /\ \A g \in DOMAIN g2s : isList(g2s[g])
  /\ \A g \in DOMAIN g2s : \A s \in Range(g2s[g]) :
       s \notin Range(orphans) /\ \A h \in DOMAIN g2s : s \in Range(g2s[h]) => h = g
  /\ \A s \in Shard : s \in Range(orphans) \/ \E g \in DOMAIN g2s : s \in Range(g2s[g])

isLoop(w) ==
  /\ w = [op |-> w.op, groups |-> w.groups, gids |-> w.gids,
          orphans |-> w.orphans, g2s |-> w.g2s]
  /\ w.op \in {"Join", "Leave"} /\ w.gids \in Seq(Nat)
  /\ isMap(w.g2s) /\ DOMAIN w.g2s \subseteq Nat
  /\ w.groups \subseteq DOMAIN w.g2s
  /\ isPartition(w.g2s, w.orphans)

\* The loop w is that of request q on the shards of the last configuration: of the
\* groups in the map those leave that are still to be taken, and the shards of the
\* others stay where they are.
isLoopFor(w, q, shards) ==
  /\ w.op = q.op
  /\ w.op = "Join" => w.orphans = <<>>
  /\ w.op = "Leave" =>
       LET left == Range(q.gids) IN
       /\ Range(w.gids) \subseteq left
       /\ \A g \in DOMAIN w.g2s : g \in left => g \in Range(w.gids)
       /\ \A s \in Shard : shards[s] \notin left =>
            shards[s] \in DOMAIN w.g2s /\ s \in Range(w.g2s[shards[s]])

LoopsSound ==
  \A r \in Replica :
    \/ work[r] = Idle
    \/ /\ isLoop(work[r]) /\ applied[r] < Len(log)
       /\ isLoopFor(work[r], nextCommand(r).request, lastConfig(r).shards)

isNumbered(s) ==
  s \in Seq(Config) /\ Len(s) >= 1 /\ \A n \in DOMAIN s : s[n].num = n - 1

ConfigsTyped ==
  /\ commandId \in [Clerk -> Nat]
  /\ request \in [Clerk -> Request \cup {Nil}]
  /\ call \in [Clerk -> Nat]
  /\ \A c \in Clerk : call[c] # 0 => request[c] # Nil
  /\ log \in Seq(Command)
  /\ applied \in [Replica -> Nat]
  /\ \A r \in Replica : applied[r] <= Len(log)
  /\ configs \in [Replica -> Seq(Config)] /\ \A r \in Replica : isNumbered(configs[r])
  /\ lastOperations \in [Replica -> [ClientId -> Int]]
  /\ DOMAIN work = Replica
  /\ answered \subseteq Clerk \X Nat \X Request

LoopsInv == ConfigsTyped /\ LoopsSound

-----------------------------------------------------------------------------
(* Lists *)

LEMMA ListFacts ==
  ASSUME NEW l, isList(l)
  PROVE  /\ Len(l) \in Nat /\ DOMAIN l = 1..Len(l) /\ l \in [1..Len(l) -> Shard]
         /\ Range(l) \subseteq Shard
         /\ \A i, j \in 1..Len(l) : l[i] = l[j] => i = j
<1>1. Len(l) \in Nat /\ DOMAIN l = 1..Len(l) /\ l \in [1..Len(l) -> Shard]
  BY LenProperties DEF isList
<1>. QED
  BY <1>1 DEF isList, IsInjective, Range

LEMMA ListEmpty == isList(<<>>) /\ Range(<<>>) = {} /\ Len(<<>>) = 0
  BY EmptySeq DEF isList, IsInjective, Range

LEMMA ListAppend ==
  ASSUME NEW l, isList(l), NEW s \in Shard, s \notin Range(l)
  PROVE  isList(Append(l, s)) /\ Range(Append(l, s)) = Range(l) \cup {s}
<1>1. /\ Len(l) \in Nat /\ DOMAIN l = 1..Len(l) /\ l \in Seq(Shard)
      /\ \A i, j \in 1..Len(l) : l[i] = l[j] => i = j
  BY ListFacts DEF isList
<1>. DEFINE n == Len(l) + 1
<1>2. /\ Append(l, s) \in Seq(Shard) /\ Append(l, s)[n] = s
      /\ \A k \in 1..Len(l) : Append(l, s)[k] = l[k]
      /\ DOMAIN Append(l, s) = 1..n
  BY <1>1, AppendProperties, LenProperties
<1>3. 1..n = 1..Len(l) \cup {n} /\ n \notin 1..Len(l)
  BY <1>1, SMT
<1>. HIDE DEF n
<1>4. Range(Append(l, s)) = Range(l) \cup {s}
  BY <1>1, <1>2, <1>3 DEF Range
<1>5. IsInjective(Append(l, s))
  BY <1>1, <1>2, <1>3 DEF IsInjective, Range
<1>. QED
  BY <1>2, <1>4, <1>5 DEF isList

LEMMA ListTail ==
  ASSUME NEW l, isList(l), l # <<>>
  PROVE  /\ isList(Tail(l)) /\ Range(Tail(l)) = Range(l) \ {Head(l)}
         /\ Head(l) \in Range(l) /\ Head(l) \in Shard
<1>1. /\ Len(l) \in Nat /\ DOMAIN l = 1..Len(l) /\ l \in Seq(Shard)
      /\ \A i, j \in 1..Len(l) : l[i] = l[j] => i = j
  BY ListFacts DEF isList
<1>2. /\ Head(l) \in Shard /\ Tail(l) \in Seq(Shard) /\ Len(Tail(l)) = Len(l) - 1
      /\ \A k \in 1..Len(Tail(l)) : Tail(l)[k] = l[k + 1]
  BY <1>1, HeadTailProperties
<1>3. Head(l) = l[1] /\ 1 \in 1..Len(l) /\ DOMAIN Tail(l) = 1..(Len(l) - 1)
  <2>1. Len(l) # 0
    BY <1>1, EmptySeq
  <2>. QED
    BY <1>1, <1>2, <2>1, LenProperties
<1>4. /\ \A k \in 1..(Len(l) - 1) : k + 1 \in 1..Len(l) /\ k + 1 # 1
      /\ \A k \in 1..Len(l) : k = 1 \/ (k - 1 \in 1..(Len(l) - 1) /\ (k - 1) + 1 = k)
      /\ \A i, j \in 1..(Len(l) - 1) : i + 1 = j + 1 => i = j
  BY <1>1, SMT
<1>5. \A k \in 1..(Len(l) - 1) : Tail(l)[k] = l[k + 1]
  BY <1>2
<1>6. ASSUME NEW s \in Range(Tail(l)) PROVE s \in Range(l) \ {Head(l)}
  <2>1. PICK k \in 1..(Len(l) - 1) : s = Tail(l)[k]
    BY <1>3, <1>6 DEF Range
  <2>2. s = l[k + 1] /\ k + 1 \in 1..Len(l) /\ k + 1 # 1
    BY <1>4, <1>5, <2>1
  <2>. QED
    BY <1>1, <1>3, <2>2 DEF Range
<1>7. ASSUME NEW s \in Range(l), s # Head(l) PROVE s \in Range(Tail(l))
  <2>1. PICK k \in 1..Len(l) : s = l[k]
    BY <1>1, <1>7 DEF Range
  <2>2. k - 1 \in 1..(Len(l) - 1) /\ (k - 1) + 1 = k
    BY <1>3, <1>4, <1>7, <2>1
  <2>3. Tail(l)[k - 1] = s
    BY <1>5, <2>1, <2>2
  <2>. QED
    BY <1>3, <2>2, <2>3 DEF Range
<1>8. IsInjective(Tail(l))
  <2>. SUFFICES ASSUME NEW i \in 1..(Len(l) - 1), NEW j \in 1..(Len(l) - 1),
                       Tail(l)[i] = Tail(l)[j]
                PROVE  i = j
    BY <1>3 DEF IsInjective
  <2>1. l[i + 1] = l[j + 1]
    BY <1>5
  <2>. QED
    BY <1>1, <1>4, <2>1
<1>. QED
  BY <1>1, <1>2, <1>3, <1>6, <1>7, <1>8 DEF isList, Range

LEMMA ListConcat ==
  ASSUME NEW l, NEW m, isList(l), isList(m), Range(l) \cap Range(m) = {}
  PROVE  isList(l \o m) /\ Range(l \o m) = Range(l) \cup Range(m)
<1>1. /\ Len(l) \in Nat /\ DOMAIN l = 1..Len(l) /\ l \in Seq(Shard)
      /\ \A i, j \in 1..Len(l) : l[i] = l[j] => i = j
  BY ListFacts DEF isList
<1>2. /\ Len(m) \in Nat /\ DOMAIN m = 1..Len(m) /\ m \in Seq(Shard)
      /\ \A i, j \in 1..Len(m) : m[i] = m[j] => i = j
  BY ListFacts DEF isList
<1>. DEFINE n == Len(l) + Len(m)
<1>3. /\ l \o m \in Seq(Shard) /\ DOMAIN (l \o m) = 1..n
      /\ \A k \in 1..n : (l \o m)[k] = IF k <= Len(l) THEN l[k] ELSE m[k - Len(l)]
  BY <1>1, <1>2, ConcatProperties, LenProperties
<1>4. /\ \A k \in 1..n : (k <= Len(l) /\ k \in 1..Len(l)) \/ (~(k <= Len(l)) /\ k - Len(l) \in 1..Len(m))
      /\ \A k \in 1..Len(l) : k \in 1..n /\ k <= Len(l)
      /\ \A k \in 1..Len(m) : k + Len(l) \in 1..n /\ ~(k + Len(l) <= Len(l)) /\ (k + Len(l)) - Len(l) = k
      /\ \A i, j \in 1..n : i - Len(l) = j - Len(l) => i = j
  BY <1>1, <1>2, SMT
<1>. HIDE DEF n
<1>5. /\ \A k \in 1..n : \/ k \in 1..Len(l) /\ (l \o m)[k] = l[k]
                         \/ k - Len(l) \in 1..Len(m) /\ (l \o m)[k] = m[k - Len(l)]
      /\ \A k \in 1..Len(l) : k \in 1..n /\ (l \o m)[k] = l[k]
      /\ \A k \in 1..Len(m) : k + Len(l) \in 1..n /\ (l \o m)[k + Len(l)] = m[k]
  BY <1>3, <1>4
<1>6. Range(l \o m) = Range(l) \cup Range(m)
  BY <1>1, <1>2, <1>3, <1>5 DEF Range
<1>7. IsInjective(l \o m)
  <2>. SUFFICES ASSUME NEW i \in 1..n, NEW j \in 1..n, (l \o m)[i] = (l \o m)[j] PROVE i = j
    BY <1>3 DEF IsInjective
  <2>1. \A a \in 1..Len(l), b \in 1..Len(m) : l[a] # m[b]
    <3>1. (\A a \in 1..Len(l) : l[a] \in Range(l)) /\ (\A b \in 1..Len(m) : m[b] \in Range(m))
      BY <1>1, <1>2 DEF Range
    <3>. QED
      BY <3>1
  <2>. QED
    BY <1>1, <1>2, <1>4, <1>5, <2>1
<1>. QED
  BY <1>3, <1>6, <1>7 DEF isList

\* A list is as long as it has elements.
LEMMA ListLen ==
  ASSUME NEW l, isList(l) PROVE Cardinality(Range(l)) = Len(l)
<1>1. /\ Len(l) \in Nat /\ DOMAIN l = 1..Len(l) /\ l \in [1..Len(l) -> Shard]
      /\ \A i, j \in 1..Len(l) : l[i] = l[j] => i = j
  BY ListFacts
<1>2. l \in Bijection(1..Len(l), Range(l))
  BY <1>1 DEF Range, Bijection, Injection, Surjection, IsInjective
<1>. QED
  BY <1>1, <1>2, FS_CountingElements DEF ExistsBijection

\* The places of a finite set of numbers.
LEMMA Ranks ==
  ASSUME NEW S, S \subseteq Int, IsFiniteSet(S)
  PROVE  LET rank(s) == Cardinality({t \in S : t <= s})
             n == Cardinality(S)
         IN /\ n \in Nat
            /\ \A s \in S : rank(s) \in 1..n
            /\ \A s, t \in S : rank(s) = rank(t) => s = t
            /\ \A k \in 1..n : \E s \in S : rank(s) = k
<1>. DEFINE upTo(s) == {t \in S : t <= s}
            rank(s) == Cardinality(upTo(s))
            n == Cardinality(S)
<1>1. n \in Nat
  BY FS_CardinalityType
<1>2. \A s \in S : IsFiniteSet(upTo(s)) /\ rank(s) \in Nat /\ rank(s) <= n
  <2>. SUFFICES ASSUME NEW s \in S
                PROVE  IsFiniteSet(upTo(s)) /\ rank(s) \in Nat /\ rank(s) <= n
    OBVIOUS
  <2>1. upTo(s) \in SUBSET S
    OBVIOUS
  <2>. HIDE DEF upTo
  <2>. QED
    BY <2>1, FS_Subset, FS_CardinalityType
<1>3. \A s \in S : rank(s) \in 1..n
  <2>. SUFFICES ASSUME NEW s \in S PROVE rank(s) # 0
    BY <1>1, <1>2
  <2>1. s \in upTo(s)
    OBVIOUS
  <2>. HIDE DEF upTo
  <2>. QED
    BY <1>2, <2>1, FS_EmptySet
<1>4. ASSUME NEW s \in S, NEW t \in S, s < t PROVE rank(s) # rank(t)
  <2>1. \A x \in S : x <= s => x <= t
    BY <1>4
  <2>2. ~(t <= s) /\ t <= t
    BY <1>4
  <2>3. upTo(s) \in SUBSET upTo(t) /\ t \in upTo(t) /\ t \notin upTo(s)
    BY <2>1, <2>2
  <2>. HIDE DEF upTo
  <2>4. upTo(s) # upTo(t)
    BY <2>3
  <2>. QED
    BY <1>2, <2>3, <2>4, FS_Subset
<1>5. \A s, t \in S : rank(s) = rank(t) => s = t
  <2>. SUFFICES ASSUME NEW s \in S, NEW t \in S, s # t PROVE rank(s) # rank(t)
    OBVIOUS
  <2>. HIDE DEF rank
  <2>1. s < t \/ t < s
    OBVIOUS
  <2>. QED
    BY <1>4, <2>1
<1>6. \A k \in 1..n : \E s \in S : rank(s) = k
  <2>. DEFINE f == [s \in S |-> rank(s)]
  <2>. HIDE DEF rank
  <2>1. f \in Injection(S, 1..n)
    BY <1>3, <1>5 DEF Injection, IsInjective
  <2>2. IsFiniteSet(1..n) /\ Cardinality(1..n) = n
    BY <1>1, FS_Interval
  <2>. HIDE DEF f
  <2>3. f \in Surjection(S, 1..n)
    BY <2>1, <2>2, FS_Injection
  <2>. QED
    BY <2>3 DEF Surjection, f
<1>. QED
  BY <1>1, <1>3, <1>5, <1>6

LEMMA InOrderIsList ==
  ASSUME NEW S, S \subseteq Shard PROVE isList(inOrder(S)) /\ Range(inOrder(S)) = S
<1>. DEFINE rank(s) == Cardinality({t \in S : t <= s})
            n == Cardinality(S)
            l == inOrder(S)
<1>1. S \subseteq Int /\ IsFiniteSet(S)
  <2>1. IsFiniteSet(Shard) /\ Shard \subseteq Int
    BY FS_Interval, NShardsAssumption DEF Shard
  <2>. QED
    BY <2>1, FS_Subset
<1>2. /\ n \in Nat
      /\ \A s \in S : rank(s) \in 1..n
      /\ \A s, t \in S : rank(s) = rank(t) => s = t
      /\ \A k \in 1..n : \E s \in S : rank(s) = k
  BY <1>1, Ranks, Zenon
<1>3. l = [k \in 1..n |-> CHOOSE s \in S : rank(s) = k]
  BY DEF inOrder
<1>. HIDE DEF rank, n, l
<1>4. \A k \in 1..n : l[k] \in S /\ rank(l[k]) = k
  BY <1>2, <1>3
<1>5. \A s \in S : l[rank(s)] = s
  BY <1>2, <1>4
<1>6. DOMAIN l = 1..n /\ l \in Seq(S)
  BY <1>2, <1>3, <1>4
<1>7. l \in Seq(Shard)
  BY <1>6, SeqMonotonic
<1>8. IsInjective(l)
  BY <1>4, <1>6 DEF IsInjective
<1>9. Range(l) = S
  BY <1>2, <1>4, <1>5, <1>6 DEF Range
<1>. QED
  BY <1>7, <1>8, <1>9 DEF isList, l

LEMMA Partitioned ==
  ASSUME NEW groups, NEW shards, groups \subseteq Nat, shards \in [Shard -> Nat],
         NEW g2s, g2s = Group2Shards(groups, shards)
  PROVE  /\ isPartition(g2s, <<>>)
         /\ isMap(g2s)
         /\ groups \subseteq DOMAIN g2s /\ DOMAIN g2s \subseteq Nat
         /\ \A s \in Shard : shards[s] \in DOMAIN g2s /\ s \in Range(g2s[shards[s]])
<1>1. /\ DOMAIN g2s = groups \cup {shards[s] : s \in Shard} /\ DOMAIN g2s \subseteq Nat
      /\ isMap(g2s)
      /\ \A g \in DOMAIN g2s : g2s[g] = inOrder({s \in Shard : shards[s] = g})
  BY DEF Group2Shards, isMap
<1>2. ASSUME NEW g \in DOMAIN g2s
      PROVE  isList(g2s[g]) /\ Range(g2s[g]) = {s \in Shard : shards[s] = g}
  <2>1. PICK S : S = {s \in Shard : shards[s] = g}
    OBVIOUS
  <2>. QED
    BY <1>1, <2>1, InOrderIsList
<1>3. \A s \in Shard : shards[s] \in DOMAIN g2s /\ s \in Range(g2s[shards[s]])
  BY <1>1, <1>2
<1>4. isPartition(g2s, <<>>)
  BY <1>2, <1>3, ListEmpty DEF isPartition
<1>. QED
  BY <1>1, <1>3, <1>4

-----------------------------------------------------------------------------
(* A partition into lists *)

\* An orphan is given to target, or what another group gives away.
LEMMA GivenTo ==
  ASSUME NEW g2s, NEW orphans, isPartition(g2s, orphans), isMap(g2s),
         orphans # <<>>, NEW target \in DOMAIN g2s,
         NEW new, new = with(g2s, target, Head(orphans))
  PROVE  /\ isPartition(new, Tail(orphans))
         /\ DOMAIN new = DOMAIN g2s /\ isMap(new)
         /\ \A g \in DOMAIN g2s : Range(g2s[g]) \subseteq Range(new[g])
<1>. DEFINE s == Head(orphans)
<1>0. isList(orphans)
  BY DEF isPartition
<1>1. /\ isList(Tail(orphans)) /\ Range(Tail(orphans)) = Range(orphans) \ {s}
      /\ s \in Range(orphans) /\ s \in Shard
  BY <1>0, ListTail
<1>2. /\ DOMAIN new = DOMAIN g2s /\ isMap(new)
      /\ new[target] = Append(g2s[target], s)
      /\ \A g \in DOMAIN g2s : g # target => new[g] = g2s[g]
  BY DEF isMap, with
<1>. HIDE DEF s
<1>3. isList(g2s[target]) /\ \A g \in DOMAIN g2s : s \notin Range(g2s[g])
  BY <1>1 DEF isPartition
<1>4. isList(new[target]) /\ Range(new[target]) = Range(g2s[target]) \cup {s}
  <2>1. isList(Append(g2s[target], s))
        /\ Range(Append(g2s[target], s)) = Range(g2s[target]) \cup {s}
    BY <1>1, <1>3, ListAppend
  <2>. QED
    BY <1>2, <2>1
<1>5. \A t : \A g \in DOMAIN g2s : t \in Range(new[g]) <=> t \in Range(g2s[g]) \/ (g = target /\ t = s)
  BY <1>2, <1>4
<1>6. \A g \in DOMAIN new : isList(new[g])
  BY <1>2, <1>4 DEF isPartition
<1>7. ASSUME NEW g \in DOMAIN new, NEW t \in Range(new[g])
      PROVE  t \notin Range(Tail(orphans)) /\ \A h \in DOMAIN new : t \in Range(new[h]) => h = g
  BY <1>1, <1>2, <1>3, <1>5 DEF isPartition
<1>8. ASSUME NEW t \in Shard
      PROVE  t \in Range(Tail(orphans)) \/ \E g \in DOMAIN new : t \in Range(new[g])
  BY <1>1, <1>2, <1>5 DEF isPartition
<1>9. isPartition(new, Tail(orphans))
  BY <1>1, <1>6, <1>7, <1>8 DEF isPartition
<1>. QED
  BY <1>2, <1>5, <1>9

\* A group gives its first shard to another.
LEMMA Moved ==
  ASSUME NEW g2s, isPartition(g2s, <<>>), isMap(g2s),
         NEW source \in DOMAIN g2s, NEW target \in DOMAIN g2s, source # target,
         g2s[source] # <<>>,
         NEW new, new = [g2s EXCEPT ![target] = Append(@, Head(g2s[source])),
                                    ![source] = Tail(@)]
  PROVE  /\ isPartition(new, <<>>)
         /\ DOMAIN new = DOMAIN g2s /\ isMap(new)
<1>. DEFINE s == Head(g2s[source])
<1>0. isList(g2s[source]) /\ isList(g2s[target])
  BY DEF isPartition
<1>1. /\ isList(Tail(g2s[source])) /\ Range(Tail(g2s[source])) = Range(g2s[source]) \ {s}
      /\ s \in Range(g2s[source]) /\ s \in Shard
  BY <1>0, ListTail
<1>2. /\ DOMAIN new = DOMAIN g2s /\ isMap(new)
      /\ new[target] = Append(g2s[target], s) /\ new[source] = Tail(g2s[source])
      /\ \A g \in DOMAIN g2s : g # target /\ g # source => new[g] = g2s[g]
  BY DEF isMap
<1>. HIDE DEF s
<1>3. \A g \in DOMAIN g2s : g # source => s \notin Range(g2s[g])
  BY <1>1 DEF isPartition
<1>4. isList(new[target]) /\ Range(new[target]) = Range(g2s[target]) \cup {s}
  <2>1. s \notin Range(g2s[target])
    BY <1>3
  <2>2. isList(Append(g2s[target], s))
        /\ Range(Append(g2s[target], s)) = Range(g2s[target]) \cup {s}
    BY <1>0, <1>1, <2>1, ListAppend
  <2>. QED
    BY <1>2, <2>2
<1>5. \A t : \A g \in DOMAIN g2s : t \in Range(new[g]) <=>
        \/ t \in Range(g2s[g]) /\ ~(g = source /\ t = s)
        \/ g = target /\ t = s
  BY <1>1, <1>2, <1>3, <1>4
<1>6. \A g \in DOMAIN new : isList(new[g])
  BY <1>1, <1>2, <1>4 DEF isPartition
<1>7. ASSUME NEW g \in DOMAIN new, NEW t \in Range(new[g])
      PROVE  t \notin Range(<<>>) /\ \A h \in DOMAIN new : t \in Range(new[h]) => h = g
  <2>1. \A a, b \in DOMAIN g2s : \A u \in Range(g2s[a]) : u \in Range(g2s[b]) => b = a
    BY DEF isPartition
  <2>2. ASSUME NEW h \in DOMAIN new, t \in Range(new[h]) PROVE h = g
    <3>1. CASE t = s
      <4>1. ASSUME NEW a \in DOMAIN g2s, s \in Range(new[a]) PROVE a = target
        BY <1>3, <1>5, <4>1
      <4>. QED
        BY <1>2, <2>2, <3>1, <4>1
    <3>2. CASE t # s
      BY <1>2, <1>5, <2>1, <2>2, <3>2
    <3>. QED
      BY <3>1, <3>2
  <2>. QED
    BY <2>2, ListEmpty
<1>8. ASSUME NEW t \in Shard PROVE \E g \in DOMAIN new : t \in Range(new[g])
  <2>1. PICK g \in DOMAIN g2s : t \in Range(g2s[g])
    BY ListEmpty DEF isPartition
  <2>. QED
    BY <1>2, <1>5, <2>1
<1>9. isPartition(new, <<>>)
  BY <1>6, <1>7, <1>8, ListEmpty DEF isPartition
<1>. QED
  BY <1>2, <1>9

LEMMA Taken ==
  ASSUME NEW g2s, NEW orphans, isPartition(g2s, orphans), isMap(g2s),
         NEW gid,
         NEW more, more = collected(g2s, gid, orphans),
         NEW new, new = without(g2s, gid)
  PROVE  /\ isPartition(new, more)
         /\ isMap(new) /\ \A g : g \in DOMAIN new <=> g \in DOMAIN g2s /\ g # gid
         /\ \A g \in DOMAIN new : new[g] = g2s[g]
<1>1. /\ DOMAIN new = DOMAIN g2s \ {gid} /\ isMap(new)
      /\ \A g \in DOMAIN new : g \in DOMAIN g2s /\ new[g] = g2s[g]
  BY DEF isMap, without
<1>2. CASE gid \notin DOMAIN g2s
  <2>1. new = g2s /\ more = orphans
    BY <1>2 DEF isMap, without, collected
  <2>. QED
    BY <1>1, <2>1
<1>3. CASE gid \in DOMAIN g2s
  <2>1. isList(orphans) /\ isList(g2s[gid]) /\ Range(orphans) \cap Range(g2s[gid]) = {}
    BY <1>3 DEF isPartition
  <2>2. isList(more) /\ Range(more) = Range(orphans) \cup Range(g2s[gid])
    BY <1>3, <2>1, ListConcat DEF collected
  <2>. QED
    BY <1>1, <1>3, <2>2 DEF isPartition
<1>. QED
  BY <1>2, <1>3

\* What newShards makes of the lists.
LEMMA Assigned ==
  ASSUME NEW g2s, isPartition(g2s, <<>>), DOMAIN g2s \subseteq Nat,
         NEW new, new = shardsOf(g2s)
  PROVE  /\ new \in [Shard -> Nat]
         /\ \A s \in Shard : new[s] \in DOMAIN g2s
         /\ \A g \in DOMAIN g2s : \A s \in Range(g2s[g]) : s \in Shard /\ new[s] = g
         /\ \A g \in DOMAIN g2s : Cardinality({s \in Shard : new[s] = g}) = Len(g2s[g])
<1>. DEFINE owners(s) == {g \in DOMAIN g2s : s \in Range(g2s[g])}
<1>1. new = [s \in Shard |-> IF owners(s) = {} THEN 0 ELSE CHOOSE g \in owners(s) : TRUE]
  BY DEF shardsOf
<1>2. ASSUME NEW s \in Shard PROVE new[s] \in DOMAIN g2s /\ s \in Range(g2s[new[s]])
  <2>1. \E g \in owners(s) : TRUE
    BY ListEmpty DEF isPartition
  <2>. HIDE DEF owners
  <2>2. new[s] \in owners(s)
    BY <1>1, <2>1
  <2>. QED
    BY <2>2 DEF owners
<1>3. ASSUME NEW g \in DOMAIN g2s, NEW s \in Range(g2s[g]) PROVE s \in Shard /\ new[s] = g
  <2>1. s \in Shard
    BY ListFacts DEF isPartition
  <2>2. new[s] \in DOMAIN g2s /\ s \in Range(g2s[new[s]])
    BY <1>2, <2>1
  <2>3. \A h \in DOMAIN g2s : s \in Range(g2s[h]) => h = g
    BY DEF isPartition
  <2>. QED
    BY <2>1, <2>2, <2>3
<1>4. ASSUME NEW g \in DOMAIN g2s PROVE Cardinality({s \in Shard : new[s] = g}) = Len(g2s[g])
  <2>1. {s \in Shard : new[s] = g} = Range(g2s[g])
    BY <1>2, <1>3
  <2>2. isList(g2s[g])
    BY DEF isPartition
  <2>. QED
    BY <2>1, <2>2, ListLen
<1>5. new \in [Shard -> Nat]
  <2>. HIDE DEF owners
  <2>. QED
    BY <1>1, <1>2
<1>. QED
  BY <1>2, <1>3, <1>4, <1>5

-----------------------------------------------------------------------------
(* The steps of the clerks and of a replica *)

LEMMA InitLoops == Init => LoopsInv
<1>. SUFFICES ASSUME Init PROVE LoopsInv
  OBVIOUS
<1>1. log \in Seq(Command) /\ Len(log) = 0
  BY EmptySeq DEF Init
<1>2. isNumbered(<<DefaultConfig>>)
  <2>1. DefaultConfig \in Config /\ DefaultConfig.num = 0
    BY DEF DefaultConfig, Config
  <2>2. /\ <<DefaultConfig>> \in Seq(Config) /\ Len(<<DefaultConfig>>) = 1
        /\ DOMAIN <<DefaultConfig>> = 1..1 /\ <<DefaultConfig>>[1] = DefaultConfig
    BY <2>1
  <2>. HIDE DEF DefaultConfig
  <2>. QED
    BY <2>1, <2>2 DEF isNumbered
<1>3. ConfigsTyped
  <2>1. \A r \in Replica : configs[r] = <<DefaultConfig>>
    BY DEF Init
  <2>2. configs \in [Replica -> Seq(Config)]
    BY <1>2 DEF Init, isNumbered
  <2>. QED
    BY <1>1, <1>2, <2>1, <2>2 DEF Init, ConfigsTyped
<1>4. LoopsSound
  BY DEF Init, LoopsSound
<1>. QED
  BY <1>3, <1>4 DEF LoopsInv

LEMMA LastTyped ==
  ASSUME LoopsInv, NEW r \in Replica
  PROVE  /\ lastConfig(r) \in Config
         /\ lastConfig(r).groups \subseteq Nat /\ lastConfig(r).shards \in [Shard -> Nat]
         /\ Len(configs[r]) \in Nat
<1>1. isNumbered(configs[r])
  BY DEF LoopsInv, ConfigsTyped
<1>2. Len(configs[r]) \in Nat /\ Len(configs[r]) \in 1..Len(configs[r])
  BY <1>1, LenProperties DEF isNumbered
<1>3. lastConfig(r) \in Config
  BY <1>1, <1>2, ElementOfSeq DEF isNumbered, lastConfig
<1>. QED
  BY <1>2, <1>3 DEF Config

LEMMA NextTyped ==
  ASSUME LoopsInv, NEW r \in Replica, applied[r] < Len(log)
  PROVE  /\ nextCommand(r).clientId \in ClientId /\ nextCommand(r).id \in Nat
         /\ nextCommand(r).request \in Request
<1>1. applied[r] + 1 \in 1..Len(log) /\ log \in Seq(Command)
  BY LenProperties DEF LoopsInv, ConfigsTyped
<1>2. log[applied[r] + 1] \in Command
  BY <1>1, ElementOfSeq
<1>. QED
  BY <1>2 DEF nextCommand, Command

\* A loop goes on for the same command when the log grows.
LEMMA ClerkLoops ==
  ASSUME LoopsInv, UNCHANGED replicaVars, log' \in Seq(Command), Len(log) <= Len(log'),
         \A k \in 1..Len(log) : log'[k] = log[k]
  PROVE  /\ LoopsSound'
         /\ applied' \in [Replica -> Nat] /\ (\A r \in Replica : applied'[r] <= Len(log'))
         /\ configs' \in [Replica -> Seq(Config)] /\ (\A r \in Replica : isNumbered(configs'[r]))
         /\ lastOperations' \in [Replica -> [ClientId -> Int]]
         /\ DOMAIN work' = Replica
<1>1. Len(log) \in Nat /\ Len(log') \in Nat
  BY LenProperties DEF LoopsInv, ConfigsTyped
<1>2. /\ applied' = applied /\ configs' = configs /\ lastOperations' = lastOperations
      /\ work' = work
  BY DEF replicaVars
<1>3. ASSUME NEW r \in Replica
      PROVE  \/ work'[r] = Idle
             \/ /\ isLoop(work'[r]) /\ applied'[r] < Len(log')
                /\ isLoopFor(work'[r], nextCommand(r)'.request, lastConfig(r)'.shards)
  <2>1. CASE work[r] = Idle
    BY <1>2, <2>1
  <2>2. CASE work[r] # Idle
    <3>1. /\ isLoop(work[r]) /\ applied[r] < Len(log)
          /\ isLoopFor(work[r], nextCommand(r).request, lastConfig(r).shards)
      BY <2>2 DEF LoopsInv, LoopsSound
    <3>2. applied[r] + 1 \in 1..Len(log)
      BY <1>1, <3>1 DEF LoopsInv, ConfigsTyped
    <3>3. nextCommand(r)' = nextCommand(r) /\ lastConfig(r)' = lastConfig(r)
      BY <1>2, <3>2 DEF nextCommand, lastConfig
    <3>4. applied'[r] < Len(log')
      BY <1>1, <1>2, <3>1 DEF LoopsInv, ConfigsTyped
    <3>. QED
      BY <1>2, <3>1, <3>3, <3>4
  <2>. QED
    BY <2>1, <2>2
<1>4. \A r \in Replica : applied'[r] <= Len(log')
  BY <1>1, <1>2 DEF LoopsInv, ConfigsTyped
<1>. QED
  BY <1>2, <1>3, <1>4 DEF LoopsInv, ConfigsTyped, LoopsSound

LEMMA ClerksKeep ==
  ASSUME LoopsInv, NEW c \in Clerk,
         \/ \E q \in Request : Begin(c, q)
         \/ \E r \in Replica : AnswerDuplicate(c, r) \/ Call(c, r)
         \/ Answer(c) \/ Timeout(c) \/ RPCError(c)
  PROVE  LoopsInv' /\ UNCHANGED replicaVars
<1>. USE DEF clerkVars
<1>1. /\ commandId \in [Clerk -> Nat] /\ request \in [Clerk -> Request \cup {Nil}]
      /\ call \in [Clerk -> Nat] /\ (\A d \in Clerk : call[d] # 0 => request[d] # Nil)
      /\ log \in Seq(Command) /\ Len(log) \in Nat
      /\ answered \subseteq Clerk \X Nat \X Request
  BY LenProperties DEF LoopsInv, ConfigsTyped
<1>2. ASSUME UNCHANGED <<log, replicaVars>>,
             commandId' \in [Clerk -> Nat], request' \in [Clerk -> Request \cup {Nil}],
             call' \in [Clerk -> Nat], \A d \in Clerk : call'[d] # 0 => request'[d] # Nil,
             answered' \subseteq Clerk \X Nat \X Request
      PROVE  LoopsInv'
  <2>1. /\ LoopsSound'
        /\ applied' \in [Replica -> Nat] /\ (\A r \in Replica : applied'[r] <= Len(log'))
        /\ configs' \in [Replica -> Seq(Config)] /\ (\A r \in Replica : isNumbered(configs'[r]))
        /\ lastOperations' \in [Replica -> [ClientId -> Int]]
        /\ DOMAIN work' = Replica
    BY <1>1, <1>2, ClerkLoops
  <2>. QED
    BY <1>1, <1>2, <2>1 DEF LoopsInv, ConfigsTyped
<1>3. ASSUME finish(c)
      PROVE  /\ commandId' \in [Clerk -> Nat] /\ request' \in [Clerk -> Request \cup {Nil}]
             /\ call' \in [Clerk -> Nat] /\ \A d \in Clerk : call'[d] # 0 => request'[d] # Nil
  BY <1>1, <1>3 DEF finish
<1>4. ASSUME request[c] # Nil, answer(c) PROVE answered' \subseteq Clerk \X Nat \X Request
  <2>1. <<c, commandId[c], request[c]>> \in Clerk \X Nat \X Request
    BY <1>1, <1>4
  <2>. QED
    BY <1>1, <1>4, <2>1 DEF answer
<1>5. ASSUME NEW q \in Request, Begin(c, q) PROVE LoopsInv' /\ UNCHANGED replicaVars
  <2>1. /\ commandId' = commandId /\ call' = call /\ UNCHANGED <<log, replicaVars>>
        /\ answered' = answered /\ request' = [request EXCEPT ![c] = q]
        /\ request[c] = Nil
    BY <1>5 DEF Begin
  <2>2. request' \in [Clerk -> Request \cup {Nil}]
        /\ \A d \in Clerk : call'[d] # 0 => request'[d] # Nil
    BY <1>1, <2>1
  <2>. QED
    BY <1>1, <1>2, <2>1, <2>2
<1>6. ASSUME NEW r \in Replica, AnswerDuplicate(c, r) PROVE LoopsInv' /\ UNCHANGED replicaVars
  BY <1>2, <1>3, <1>4, <1>6 DEF AnswerDuplicate
<1>7. ASSUME NEW r \in Replica, Call(c, r) PROVE LoopsInv' /\ UNCHANGED replicaVars
  <2>. DEFINE e == [from |-> c, clientId |-> clientId(c), id |-> commandId[c],
                    request |-> request[c]]
  <2>1. /\ commandId' = commandId /\ request' = request /\ UNCHANGED replicaVars
        /\ answered' = answered /\ log' = Append(log, e)
        /\ call' = [call EXCEPT ![c] = Len(log) + 1] /\ request[c] # Nil
    BY <1>7 DEF Call
  <2>2. e \in Command
    <3>1. clientId(c) \in ClientId
      BY DEF ClientId
    <3>. QED
      BY <1>1, <2>1, <3>1 DEF Command
  <2>. HIDE DEF e
  <2>3. /\ log' \in Seq(Command) /\ Len(log') = Len(log) + 1
        /\ \A k \in 1..Len(log) : log'[k] = log[k]
    BY <1>1, <2>1, <2>2, AppendProperties
  <2>4. Len(log) <= Len(log')
    BY <1>1, <2>3
  <2>5. /\ LoopsSound'
        /\ applied' \in [Replica -> Nat] /\ (\A t \in Replica : applied'[t] <= Len(log'))
        /\ configs' \in [Replica -> Seq(Config)] /\ (\A t \in Replica : isNumbered(configs'[t]))
        /\ lastOperations' \in [Replica -> [ClientId -> Int]]
        /\ DOMAIN work' = Replica
    BY <2>1, <2>3, <2>4, ClerkLoops
  <2>6. call' \in [Clerk -> Nat] /\ \A d \in Clerk : call'[d] # 0 => request'[d] # Nil
    BY <1>1, <2>1
  <2>. QED
    BY <1>1, <2>1, <2>3, <2>5, <2>6 DEF LoopsInv, ConfigsTyped
<1>8. ASSUME Answer(c) PROVE LoopsInv' /\ UNCHANGED replicaVars
  BY <1>1, <1>2, <1>3, <1>4, <1>8 DEF Answer
<1>9. ASSUME Timeout(c) PROVE LoopsInv' /\ UNCHANGED replicaVars
  <2>1. call' \in [Clerk -> Nat] /\ \A d \in Clerk : call'[d] # 0 => request'[d] # Nil
    BY <1>1, <1>9 DEF Timeout
  <2>. QED
    BY <1>1, <1>2, <1>9, <2>1 DEF Timeout
<1>10. ASSUME RPCError(c) PROVE LoopsInv' /\ UNCHANGED replicaVars
  BY <1>1, <1>2, <1>3, <1>10 DEF RPCError
<1>. QED
  BY <1>5, <1>6, <1>7, <1>8, <1>9, <1>10

\* The loops of the other replicas go on when r takes a step.
LEMMA OtherLoops ==
  ASSUME LoopsInv, NEW r \in Replica, log' = log,
         \A t \in Replica : t # r =>
           work'[t] = work[t] /\ applied'[t] = applied[t] /\ configs'[t] = configs[t],
         \/ work'[r] = Idle
         \/ /\ isLoop(work'[r]) /\ applied'[r] < Len(log)
            /\ isLoopFor(work'[r], nextCommand(r)'.request, lastConfig(r)'.shards)
  PROVE  LoopsSound'
<1>1. ASSUME NEW t \in Replica, t # r
      PROVE  \/ work'[t] = Idle
             \/ /\ isLoop(work'[t]) /\ applied'[t] < Len(log')
                /\ isLoopFor(work'[t], nextCommand(t)'.request, lastConfig(t)'.shards)
  <2>1. nextCommand(t)' = nextCommand(t) /\ lastConfig(t)' = lastConfig(t)
    BY <1>1 DEF nextCommand, lastConfig
  <2>. QED
    BY <1>1, <2>1 DEF LoopsInv, LoopsSound
<1>. QED
  BY <1>1 DEF LoopsSound

\* Replica r's loop begins or goes on.
LEMMA LoopStep ==
  ASSUME LoopsInv, NEW r \in Replica, NEW w, isLoop(w), applied[r] < Len(log),
         isLoopFor(w, nextCommand(r).request, lastConfig(r).shards),
         work' = [work EXCEPT ![r] = w],
         UNCHANGED <<applied, configs, lastOperations, log, clerkVars, answered>>
  PROVE  LoopsInv' /\ work'[r] # Idle
<1>1. /\ DOMAIN work' = Replica /\ work'[r] = w
      /\ \A t \in Replica : t # r => work'[t] = work[t]
  BY DEF LoopsInv, ConfigsTyped
<1>2. nextCommand(r)' = nextCommand(r) /\ lastConfig(r)' = lastConfig(r)
  BY DEF nextCommand, lastConfig
<1>3. LoopsSound'
  BY <1>1, <1>2, OtherLoops
<1>4. ConfigsTyped'
  BY <1>1 DEF LoopsInv, ConfigsTyped, clerkVars
<1>5. w # Idle
  BY DEF isLoop, Idle
<1>. QED
  BY <1>1, <1>3, <1>4, <1>5 DEF LoopsInv

\* Replica r has applied its next command.
LEMMA Installed ==
  ASSUME LoopsInv, NEW r \in Replica, NEW groups, groups \subseteq Nat,
         NEW shards \in [Shard -> Nat], applied[r] < Len(log),
         install(r, groups, shards), UNCHANGED <<log, clerkVars, answered>>
  PROVE  /\ LoopsInv'
         /\ newConfig(r) = [num |-> Len(configs[r]), shards |-> shards, groups |-> groups]
<1>. DEFINE c == [num |-> Len(configs[r]), shards |-> shards, groups |-> groups]
            s == Append(configs[r], c)
<1>1. /\ configs' = [configs EXCEPT ![r] = s] /\ work' = [work EXCEPT ![r] = Idle]
      /\ applied' = [applied EXCEPT ![r] = applied[r] + 1]
      /\ lastOperations' = [lastOperations EXCEPT
                              ![r][nextCommand(r).clientId] = nextCommand(r).id]
  BY DEF install, nextConfig
<1>2. c \in Config /\ c.num = Len(configs[r])
  BY LastTyped DEF Config
<1>. HIDE DEF c
<1>3. isNumbered(s) /\ s[Len(s)] = c
  <2>1. /\ configs[r] \in Seq(Config) /\ Len(configs[r]) \in Nat /\ Len(configs[r]) >= 1
        /\ DOMAIN configs[r] = 1..Len(configs[r])
        /\ \A n \in 1..Len(configs[r]) : configs[r][n].num = n - 1
    BY LenProperties DEF LoopsInv, ConfigsTyped, isNumbered
  <2>2. /\ s \in Seq(Config) /\ Len(s) = Len(configs[r]) + 1 /\ s[Len(configs[r]) + 1] = c
        /\ \A n \in 1..Len(configs[r]) : s[n] = configs[r][n]
        /\ DOMAIN s = 1..Len(s)
    BY <1>2, <2>1, AppendProperties, LenProperties
  <2>. HIDE DEF s
  <2>3. ASSUME NEW n \in 1..Len(s) PROVE s[n].num = n - 1
    <3>1. CASE n = Len(configs[r]) + 1
      BY <1>2, <2>1, <2>2, <3>1
    <3>2. CASE n # Len(configs[r]) + 1
      <4>1. n \in 1..Len(configs[r])
        BY <2>1, <2>2, <3>2
      <4>. QED
        BY <2>1, <2>2, <4>1
    <3>. QED
      BY <3>1, <3>2
  <2>. QED
    BY <2>1, <2>2, <2>3 DEF isNumbered
<1>. HIDE DEF s
<1>4. /\ configs' \in [Replica -> Seq(Config)] /\ configs'[r] = s
      /\ DOMAIN work' = Replica /\ work'[r] = Idle
      /\ \A t \in Replica : t # r =>
           work'[t] = work[t] /\ applied'[t] = applied[t] /\ configs'[t] = configs[t]
  BY <1>1, <1>3 DEF LoopsInv, ConfigsTyped, isNumbered
<1>5. LoopsSound'
  BY <1>4, OtherLoops
<1>6. applied' \in [Replica -> Nat] /\ \A t \in Replica : applied'[t] <= Len(log)
  <2>1. Len(log) \in Nat
    BY LenProperties DEF LoopsInv, ConfigsTyped
  <2>. QED
    BY <1>1, <2>1 DEF LoopsInv, ConfigsTyped
<1>7. lastOperations' \in [Replica -> [ClientId -> Int]]
  BY <1>1, NextTyped DEF LoopsInv, ConfigsTyped
<1>8. ConfigsTyped'
  BY <1>3, <1>4, <1>6, <1>7 DEF LoopsInv, ConfigsTyped, clerkVars
<1>. QED
  BY <1>3, <1>4, <1>5, <1>8 DEF LoopsInv, newConfig, c

\* What a request holds.
LEMMA RequestTypes ==
  ASSUME NEW q \in Request
  PROVE  /\ q.op = "Join" => q.groups \subseteq Nat
         /\ q.op = "Leave" => q.gids \in Seq(Nat)
         /\ q.op = "Move" => q.shard \in Shard /\ q.gid \in Nat
BY RequestAssumption DEF JoinRequest, LeaveRequest, MoveRequest, QueryRequest

LEMMA SkipKeeps ==
  ASSUME LoopsInv, NEW r \in Replica, Skip(r)
  PROVE  LoopsInv' /\ work' = work
<1>1. /\ work[r] = Idle /\ applied[r] < Len(log) /\ work' = work /\ configs' = configs
      /\ lastOperations' = lastOperations /\ log' = log /\ UNCHANGED <<clerkVars, answered>>
      /\ applied' = [applied EXCEPT ![r] = applied[r] + 1]
  BY DEF Skip, canApply
<1>2. applied' \in [Replica -> Nat] /\ \A t \in Replica : applied'[t] <= Len(log)
  <2>1. Len(log) \in Nat
    BY LenProperties DEF LoopsInv, ConfigsTyped
  <2>. QED
    BY <1>1, <2>1 DEF LoopsInv, ConfigsTyped
<1>3. \A t \in Replica : t # r => applied'[t] = applied[t]
  BY <1>1 DEF LoopsInv, ConfigsTyped
<1>4. LoopsSound'
  BY <1>1, <1>3, OtherLoops
<1>. QED
  BY <1>1, <1>2, <1>4 DEF LoopsInv, ConfigsTyped, clerkVars

LEMMA MoveKeeps ==
  ASSUME LoopsInv, NEW r \in Replica, Move(r)
  PROVE  LoopsInv' /\ work[r] = Idle
<1>. DEFINE q == nextCommand(r).request
            shards == [lastConfig(r).shards EXCEPT ![q.shard] = q.gid]
<1>1. /\ work[r] = Idle /\ applied[r] < Len(log) /\ q.op = "Move"
      /\ install(r, lastConfig(r).groups, shards) /\ UNCHANGED <<log, clerkVars, answered>>
  BY DEF Move, canApply
<1>2. q.shard \in Shard /\ q.gid \in Nat
  BY <1>1, NextTyped, RequestTypes
<1>3. shards \in [Shard -> Nat] /\ lastConfig(r).groups \subseteq Nat
  BY <1>2, LastTyped
<1>. QED
  BY <1>1, <1>3, Installed

LEMMA StartJoinKeeps ==
  ASSUME LoopsInv, NEW r \in Replica, StartJoin(r)
  PROVE  LoopsInv' /\ work[r] = Idle
<1>. DEFINE q == nextCommand(r).request
            groups == lastConfig(r).groups \cup q.groups
            shards == lastConfig(r).shards
            g2s == Group2Shards(groups, shards)
            w == loop("Join", groups, <<>>, g2s)
<1>1. /\ work[r] = Idle /\ applied[r] < Len(log) /\ q.op = "Join"
      /\ work' = [work EXCEPT ![r] = w]
      /\ UNCHANGED <<applied, configs, lastOperations, log, clerkVars, answered>>
  BY DEF StartJoin, canApply
<1>2. groups \subseteq Nat /\ shards \in [Shard -> Nat]
  BY <1>1, NextTyped, RequestTypes, LastTyped
<1>3. /\ isPartition(g2s, <<>>) /\ isMap(g2s)
      /\ groups \subseteq DOMAIN g2s /\ DOMAIN g2s \subseteq Nat
  <2>1. g2s = Group2Shards(groups, shards)
    OBVIOUS
  <2>. HIDE DEF groups, shards, g2s
  <2>. QED
    BY <1>2, <2>1, Partitioned
<1>. HIDE DEF q, groups, g2s, shards
<1>4. /\ w = [op |-> "Join", groups |-> groups, gids |-> <<>>, orphans |-> <<>>, g2s |-> g2s]
      /\ w.op = "Join" /\ w.groups = groups /\ w.gids = <<>> /\ w.orphans = <<>> /\ w.g2s = g2s
  BY DEF loop
<1>. HIDE DEF w
<1>5. isLoop(w)
  BY <1>3, <1>4 DEF isLoop
<1>6. isLoopFor(w, q, shards)
  BY <1>1, <1>4 DEF isLoopFor
<1>. QED
  BY <1>1, <1>5, <1>6, LoopStep DEF q, shards

LEMMA StartLeaveKeeps ==
  ASSUME LoopsInv, NEW r \in Replica, StartLeave(r)
  PROVE  LoopsInv' /\ work[r] = Idle
<1>. DEFINE q == nextCommand(r).request
            groups == lastConfig(r).groups
            shards == lastConfig(r).shards
            g2s == Group2Shards(groups, shards)
            w == loop("Leave", groups, q.gids, g2s)
<1>1. /\ work[r] = Idle /\ applied[r] < Len(log) /\ q.op = "Leave"
      /\ work' = [work EXCEPT ![r] = w]
      /\ UNCHANGED <<applied, configs, lastOperations, log, clerkVars, answered>>
  BY DEF StartLeave, canApply
<1>2. groups \subseteq Nat /\ shards \in [Shard -> Nat] /\ q.gids \in Seq(Nat)
  BY <1>1, NextTyped, RequestTypes, LastTyped
<1>3. /\ isPartition(g2s, <<>>) /\ isMap(g2s)
      /\ groups \subseteq DOMAIN g2s /\ DOMAIN g2s \subseteq Nat
      /\ \A s \in Shard : shards[s] \in DOMAIN g2s /\ s \in Range(g2s[shards[s]])
  <2>1. g2s = Group2Shards(groups, shards)
    OBVIOUS
  <2>. HIDE DEF groups, shards, g2s
  <2>. QED
    BY <1>2, <2>1, Partitioned
<1>. HIDE DEF q, groups, g2s, shards
<1>4. /\ w = [op |-> "Leave", groups |-> groups, gids |-> q.gids, orphans |-> <<>>, g2s |-> g2s]
      /\ w.op = "Leave" /\ w.groups = groups /\ w.gids = q.gids /\ w.orphans = <<>>
      /\ w.g2s = g2s
  BY DEF loop
<1>. HIDE DEF w
<1>5. isLoop(w)
  BY <1>2, <1>3, <1>4 DEF isLoop
<1>6. isLoopFor(w, q, shards)
  BY <1>1, <1>3, <1>4 DEF isLoopFor
<1>. QED
  BY <1>1, <1>5, <1>6, LoopStep DEF q, shards

LEMMA WorkSound ==
  ASSUME LoopsInv, NEW r \in Replica, work[r] # Idle
  PROVE  /\ isLoop(work[r]) /\ applied[r] < Len(log)
         /\ isLoopFor(work[r], nextCommand(r).request, lastConfig(r).shards)
BY DEF LoopsInv, LoopsSound

\* A fullest group of at least one shard.
LEMMA Fullest ==
  ASSUME NEW g2s, isPartition(g2s, <<>>), NEW source \in maximumShards(g2s)
  PROVE  source \in DOMAIN g2s /\ g2s[source] # <<>>
<1>1. \A g \in DOMAIN g2s : isList(g2s[g]) /\ Len(g2s[g]) \in Nat
  BY ListFacts DEF isPartition
<1>2. PICK g \in DOMAIN g2s : 0 \in Range(g2s[g])
  BY NShardsAssumption, ListEmpty DEF isPartition, Shard
<1>3. Len(g2s[g]) # 0
  BY <1>1, <1>2, ListEmpty, EmptySeq DEF isList
<1>4. source \in DOMAIN g2s /\ Len(g2s[source]) >= Len(g2s[g])
  BY DEF maximumShards
<1>. QED
  BY <1>1, <1>3, <1>4, ListEmpty

LEMMA RebalanceKeeps ==
  ASSUME LoopsInv, NEW r \in Replica, Rebalance(r)
  PROVE  LoopsInv' /\ work'[r] # Idle
<1>. DEFINE w == work[r]
<1>1. w.op = "Join" /\ w # Idle
  BY DEF Rebalance, Idle
<1>2. /\ isLoop(w) /\ applied[r] < Len(log)
      /\ isLoopFor(w, nextCommand(r).request, lastConfig(r).shards)
  BY <1>1, WorkSound
<1>3. PICK source \in maximumShards(w.g2s), target \in minimumShards(w.g2s) :
        /\ ~isBalanced(w.g2s, source, target)
        /\ work' = [work EXCEPT ![r].g2s =
             [w.g2s EXCEPT ![target] = Append(@, Head(w.g2s[source])), ![source] = Tail(@)]]
        /\ UNCHANGED <<applied, configs, lastOperations, log, clerkVars, answered>>
  BY DEF Rebalance
<1>. DEFINE n == [w.g2s EXCEPT ![target] = Append(@, Head(w.g2s[source])), ![source] = Tail(@)]
            v == [w EXCEPT !.g2s = n]
<1>4. work' = [work EXCEPT ![r] = v]
  BY <1>3
<1>5. isPartition(w.g2s, <<>>) /\ isMap(w.g2s)
  BY <1>1, <1>2 DEF isLoop, isLoopFor
<1>6. source # target /\ target \in DOMAIN w.g2s
  BY <1>3 DEF isBalanced, minimumShards
<1>7. isPartition(n, <<>>) /\ DOMAIN n = DOMAIN w.g2s /\ isMap(n)
  <2>1. source \in DOMAIN w.g2s /\ w.g2s[source] # <<>>
    BY <1>5, Fullest
  <2>2. PICK m : m = n
    OBVIOUS
  <2>3. m = [w.g2s EXCEPT ![target] = Append(@, Head(w.g2s[source])), ![source] = Tail(@)]
    BY <2>2
  <2>4. isPartition(m, <<>>) /\ DOMAIN m = DOMAIN w.g2s /\ isMap(m)
    BY <1>5, <1>6, <2>1, <2>3, Moved
  <2>. QED
    BY <2>2, <2>4
<1>. HIDE DEF n
<1>8. /\ v = [op |-> w.op, groups |-> w.groups, gids |-> w.gids, orphans |-> w.orphans,
              g2s |-> n]
      /\ v.op = w.op /\ v.groups = w.groups /\ v.gids = w.gids /\ v.orphans = w.orphans
      /\ v.g2s = n
  BY <1>2 DEF isLoop
<1>. HIDE DEF v
<1>9. w.orphans = <<>>
  BY <1>1, <1>2 DEF isLoopFor
<1>10. isLoop(v)
  BY <1>2, <1>7, <1>8, <1>9 DEF isLoop
<1>11. isLoopFor(v, nextCommand(r).request, lastConfig(r).shards)
  BY <1>1, <1>2, <1>8 DEF isLoopFor
<1>. QED
  BY <1>2, <1>3, <1>4, <1>10, <1>11, LoopStep

LEMMA FinishJoinKeeps ==
  ASSUME LoopsInv, NEW r \in Replica, FinishJoin(r)
  PROVE  /\ LoopsInv' /\ work[r].op = "Join"
         /\ LET c == newConfig(r)
                size(g) == Cardinality({s \in Shard : c.shards[s] = g})
                owners  == c.groups \cup {c.shards[s] : s \in Shard}
            IN \A g, h \in owners : size(g) - size(h) <= 1
<1>. DEFINE w == work[r]
            shards == shardsOf(w.g2s)
<1>1. /\ w.op = "Join" /\ w # Idle /\ install(r, w.groups, shards)
      /\ UNCHANGED <<log, clerkVars, answered>>
  BY DEF FinishJoin, Idle
<1>2. /\ isLoop(w) /\ applied[r] < Len(log)
      /\ isLoopFor(w, nextCommand(r).request, lastConfig(r).shards)
  BY <1>1, WorkSound
<1>3. /\ isPartition(w.g2s, <<>>) /\ DOMAIN w.g2s \subseteq Nat
      /\ w.groups \subseteq DOMAIN w.g2s
  BY <1>1, <1>2 DEF isLoop, isLoopFor
<1>4. shards \in [Shard -> Nat]
  <2>1. PICK x : x = shards
    OBVIOUS
  <2>2. x \in [Shard -> Nat]
    BY <1>3, <2>1, Assigned
  <2>. QED
    BY <2>1, <2>2
<1>5. /\ LoopsInv'
      /\ newConfig(r) = [num |-> Len(configs[r]), shards |-> shards, groups |-> w.groups]
  <2>1. w.groups \subseteq Nat
    BY <1>3
  <2>. QED
    BY <1>1, <1>2, <1>4, <2>1, Installed
<1>6. newConfig(r).shards = shardsOf(w.g2s) /\ newConfig(r).groups = w.groups
  BY <1>5
<1>7. /\ \A s \in Shard : newConfig(r).shards[s] \in DOMAIN w.g2s
      /\ \A g \in DOMAIN w.g2s :
           Cardinality({s \in Shard : newConfig(r).shards[s] = g}) = Len(w.g2s[g])
  BY <1>3, <1>6, Assigned
<1>8. ASSUME NEW g \in DOMAIN w.g2s, NEW h \in DOMAIN w.g2s
      PROVE  Len(w.g2s[g]) - Len(w.g2s[h]) <= 1
  <2>1. \A i \in DOMAIN w.g2s : Len(w.g2s[i]) \in Nat
    BY <1>3, ListFacts DEF isPartition
  <2>2. PICK source \in maximumShards(w.g2s), target \in minimumShards(w.g2s) :
          isBalanced(w.g2s, source, target)
    BY DEF FinishJoin
  <2>3. /\ source \in DOMAIN w.g2s /\ target \in DOMAIN w.g2s
        /\ Len(w.g2s[source]) >= Len(w.g2s[g]) /\ Len(w.g2s[target]) <= Len(w.g2s[h])
        /\ Len(w.g2s[source]) - Len(w.g2s[target]) <= 1
    BY <2>1, <2>2 DEF maximumShards, minimumShards, isBalanced
  <2>. QED
    BY <2>1, <2>3
<1>9. newConfig(r).groups \cup {newConfig(r).shards[s] : s \in Shard} \subseteq DOMAIN w.g2s
  BY <1>3, <1>6, <1>7
<1>10. \A g, h \in newConfig(r).groups \cup {newConfig(r).shards[s] : s \in Shard} :
         Cardinality({s \in Shard : newConfig(r).shards[s] = g})
           - Cardinality({s \in Shard : newConfig(r).shards[s] = h}) <= 1
  BY <1>7, <1>8, <1>9
<1>. QED
  BY <1>1, <1>5, <1>10

LEMMA NumbersTail ==
  ASSUME NEW l \in Seq(Nat), l # <<>>
  PROVE  /\ Tail(l) \in Seq(Nat) /\ Head(l) \in Range(l)
         /\ Range(l) = Range(Tail(l)) \cup {Head(l)}
<1>1. /\ Len(l) \in Nat /\ DOMAIN l = 1..Len(l) /\ Len(l) # 0
      /\ Head(l) = l[1] /\ Tail(l) \in Seq(Nat) /\ Len(Tail(l)) = Len(l) - 1
      /\ \A k \in 1..Len(Tail(l)) : Tail(l)[k] = l[k + 1]
  BY LenProperties, EmptySeq, HeadTailProperties
<1>2. DOMAIN Tail(l) = 1..(Len(l) - 1)
  BY <1>1, LenProperties
<1>3. /\ 1 \in 1..Len(l) /\ \A k \in 1..(Len(l) - 1) : k + 1 \in 1..Len(l)
      /\ \A k \in 1..Len(l) : k = 1 \/ (k - 1 \in 1..(Len(l) - 1) /\ (k - 1) + 1 = k)
  BY <1>1, SMT
<1>4. \A k \in 1..(Len(l) - 1) : Tail(l)[k] = l[k + 1]
  BY <1>1
<1>5. ASSUME NEW x \in Range(l), x # Head(l) PROVE x \in Range(Tail(l))
  <2>1. PICK k \in 1..Len(l) : x = l[k]
    BY <1>1, <1>5 DEF Range
  <2>2. k - 1 \in 1..(Len(l) - 1) /\ Tail(l)[k - 1] = x
    BY <1>1, <1>3, <1>4, <1>5, <2>1
  <2>. QED
    BY <1>2, <2>2 DEF Range
<1>6. ASSUME NEW x \in Range(Tail(l)) PROVE x \in Range(l)
  <2>1. PICK k \in 1..(Len(l) - 1) : x = Tail(l)[k]
    BY <1>2, <1>6 DEF Range
  <2>. QED
    BY <1>1, <1>3, <1>4, <2>1 DEF Range
<1>7. Head(l) \in Range(l)
  BY <1>1, <1>3 DEF Range
<1>. QED
  BY <1>1, <1>5, <1>6, <1>7

LEMMA TakeGroupKeeps ==
  ASSUME LoopsInv, NEW r \in Replica, TakeGroup(r)
  PROVE  LoopsInv' /\ work'[r] # Idle
<1>. DEFINE w == work[r]
            gid == Head(w.gids)
            more == collected(w.g2s, gid, w.orphans)
            n == without(w.g2s, gid)
            v == [w EXCEPT !.gids = Tail(@), !.groups = @ \ {gid}, !.orphans = more, !.g2s = n]
<1>1. /\ w.op = "Leave" /\ w # Idle /\ w.gids # <<>> /\ work' = [work EXCEPT ![r] = v]
      /\ UNCHANGED <<applied, configs, lastOperations, log, clerkVars, answered>>
  BY DEF TakeGroup, Idle, without, collected
<1>2. /\ isLoop(w) /\ applied[r] < Len(log)
      /\ isLoopFor(w, nextCommand(r).request, lastConfig(r).shards)
  BY <1>1, WorkSound
<1>3. isPartition(w.g2s, w.orphans) /\ isMap(w.g2s)
  BY <1>2 DEF isLoop
<1>4. /\ isPartition(n, more) /\ isMap(n) /\ (\A g : g \in DOMAIN n <=> g \in DOMAIN w.g2s /\ g # gid)
      /\ \A g \in DOMAIN n : n[g] = w.g2s[g]
  <2>1. more = collected(w.g2s, gid, w.orphans) /\ n = without(w.g2s, gid)
    OBVIOUS
  <2>. HIDE DEF gid, more, n
  <2>. QED
    BY <1>3, <2>1, Taken
<1>. HIDE DEF more, n
<1>5. /\ v = [op |-> w.op, groups |-> w.groups \ {gid}, gids |-> Tail(w.gids),
              orphans |-> more, g2s |-> n]
      /\ v.op = w.op /\ v.groups = w.groups \ {gid} /\ v.gids = Tail(w.gids)
      /\ v.orphans = more /\ v.g2s = n
  <2>1. w = [op |-> w.op, groups |-> w.groups, gids |-> w.gids, orphans |-> w.orphans,
             g2s |-> w.g2s]
    BY <1>2 DEF isLoop
  <2>2. v = [x \in {"op", "groups", "gids", "orphans", "g2s"} |-> v[x]]
    BY <2>1
  <2>3. /\ v.op = w.op /\ v.groups = w.groups \ {gid} /\ v.gids = Tail(w.gids)
        /\ v.orphans = more /\ v.g2s = n
    BY <2>1
  <2>. HIDE DEF v
  <2>. QED
    BY <2>2, <2>3
<1>. HIDE DEF v
<1>6. /\ Tail(w.gids) \in Seq(Nat) /\ gid \in Range(w.gids)
      /\ Range(w.gids) = Range(Tail(w.gids)) \cup {gid}
  BY <1>1, <1>2, NumbersTail DEF isLoop
<1>7. isLoop(v)
  BY <1>2, <1>4, <1>5, <1>6 DEF isLoop
<1>8. isLoopFor(v, nextCommand(r).request, lastConfig(r).shards)
  BY <1>1, <1>2, <1>4, <1>5, <1>6 DEF isLoopFor
<1>. QED
  BY <1>1, <1>2, <1>7, <1>8, LoopStep

LEMMA AdoptOrphanKeeps ==
  ASSUME LoopsInv, NEW r \in Replica, AdoptOrphan(r)
  PROVE  LoopsInv' /\ work'[r] # Idle
<1>. DEFINE w == work[r]
<1>1. /\ w.op = "Leave" /\ w # Idle /\ w.gids = <<>> /\ w.orphans # <<>>
  BY DEF AdoptOrphan, Idle
<1>2. /\ isLoop(w) /\ applied[r] < Len(log)
      /\ isLoopFor(w, nextCommand(r).request, lastConfig(r).shards)
  BY <1>1, WorkSound
<1>3. PICK target \in minimumShards(w.g2s) :
        work' = [work EXCEPT ![r].g2s[target] = Append(@, Head(w.orphans)),
                             ![r].orphans = Tail(@)]
  BY DEF AdoptOrphan
<1>. DEFINE n == with(w.g2s, target, Head(w.orphans))
            v == [w EXCEPT !.g2s = n, !.orphans = Tail(@)]
<1>4. work' = [work EXCEPT ![r] = v]
  BY <1>3 DEF LoopsInv, ConfigsTyped, with
<1>5. isPartition(w.g2s, w.orphans) /\ isMap(w.g2s)
  BY <1>2 DEF isLoop
<1>6. target \in DOMAIN w.g2s
  BY DEF minimumShards
<1>7. /\ isPartition(n, Tail(w.orphans)) /\ DOMAIN n = DOMAIN w.g2s
      /\ isMap(n)
      /\ \A g \in DOMAIN w.g2s : Range(w.g2s[g]) \subseteq Range(n[g])
  <2>1. PICK m : m = n
    OBVIOUS
  <2>2. m = with(w.g2s, target, Head(w.orphans))
    BY <2>1
  <2>3. /\ isPartition(m, Tail(w.orphans)) /\ DOMAIN m = DOMAIN w.g2s
        /\ isMap(m)
        /\ \A g \in DOMAIN w.g2s : Range(w.g2s[g]) \subseteq Range(m[g])
    BY <1>1, <1>5, <1>6, <2>2, GivenTo
  <2>. QED
    BY <2>1, <2>3
<1>. HIDE DEF n
<1>8. /\ v = [op |-> w.op, groups |-> w.groups, gids |-> w.gids, orphans |-> Tail(w.orphans),
              g2s |-> n]
      /\ v.op = w.op /\ v.groups = w.groups /\ v.gids = w.gids /\ v.orphans = Tail(w.orphans)
      /\ v.g2s = n
  <2>1. w = [op |-> w.op, groups |-> w.groups, gids |-> w.gids, orphans |-> w.orphans,
             g2s |-> w.g2s]
    BY <1>2 DEF isLoop
  <2>2. v = [x \in {"op", "groups", "gids", "orphans", "g2s"} |-> v[x]]
    BY <2>1
  <2>3. /\ v.op = w.op /\ v.groups = w.groups /\ v.gids = w.gids
        /\ v.orphans = Tail(w.orphans) /\ v.g2s = n
    BY <2>1
  <2>. HIDE DEF v
  <2>. QED
    BY <2>2, <2>3
<1>. HIDE DEF v
<1>9. isLoop(v)
  BY <1>2, <1>7, <1>8 DEF isLoop
<1>10. isLoopFor(v, nextCommand(r).request, lastConfig(r).shards)
  BY <1>1, <1>2, <1>7, <1>8 DEF isLoopFor
<1>11. UNCHANGED <<applied, configs, lastOperations, log, clerkVars, answered>>
  BY DEF AdoptOrphan
<1>. QED
  BY <1>2, <1>4, <1>9, <1>10, <1>11, LoopStep

LEMMA FinishLeaveKeeps ==
  ASSUME LoopsInv, NEW r \in Replica, FinishLeave(r)
  PROVE  /\ LoopsInv' /\ work[r].op = "Leave"
         /\ LET left == Range(nextCommand(r).request.gids)
                old  == lastConfig(r)
                new  == newConfig(r)
            IN new.groups # {} => \A s \in Shard :
                 IF old.shards[s] \in left THEN new.shards[s] \notin left
                                           ELSE new.shards[s] = old.shards[s]
<1>. DEFINE w == work[r]
            shards == IF w.groups = {} THEN [s \in Shard |-> 0] ELSE shardsOf(w.g2s)
<1>1. /\ w.op = "Leave" /\ w # Idle /\ w.gids = <<>> /\ (w.groups = {} \/ w.orphans = <<>>)
      /\ install(r, w.groups, shards)
      /\ UNCHANGED <<log, clerkVars, answered>>
  BY DEF FinishLeave, Idle
<1>2. /\ isLoop(w) /\ applied[r] < Len(log)
      /\ isLoopFor(w, nextCommand(r).request, lastConfig(r).shards)
  BY <1>1, WorkSound
<1>3. ASSUME w.groups # {}
      PROVE  /\ shards = shardsOf(w.g2s) /\ shards \in [Shard -> Nat]
             /\ \A s \in Shard : shards[s] \in DOMAIN w.g2s
             /\ \A g \in DOMAIN w.g2s : \A s \in Range(w.g2s[g]) : shards[s] = g
  <2>1. isPartition(w.g2s, <<>>) /\ DOMAIN w.g2s \subseteq Nat /\ shards = shardsOf(w.g2s)
    BY <1>1, <1>2, <1>3 DEF isLoop
  <2>. HIDE DEF shards
  <2>. QED
    BY <2>1, Assigned
<1>4. shards \in [Shard -> Nat]
  BY <1>3
<1>5. /\ LoopsInv'
      /\ newConfig(r) = [num |-> Len(configs[r]), shards |-> shards, groups |-> w.groups]
  <2>1. w.groups \subseteq Nat
    BY <1>2 DEF isLoop
  <2>. QED
    BY <1>1, <1>2, <1>4, <2>1, Installed
<1>. HIDE DEF shards
<1>6. newConfig(r).shards = shards /\ newConfig(r).groups = w.groups
  BY <1>5
<1>7. Range(<<>>) = {}
  BY ListEmpty
<1>8. ASSUME w.groups # {}, NEW s \in Shard
      PROVE  IF lastConfig(r).shards[s] \in Range(nextCommand(r).request.gids)
             THEN shards[s] \notin Range(nextCommand(r).request.gids)
             ELSE shards[s] = lastConfig(r).shards[s]
  BY <1>1, <1>2, <1>3, <1>7, <1>8 DEF isLoopFor
<1>. QED
  BY <1>1, <1>5, <1>6, <1>8

LEMMA NextLoops ==
  ASSUME LoopsInv, [Next]_vars
  PROVE  LoopsInv' /\ \A r \in Replica :
           /\ finishes(r, "Join") => FinishJoin(r)
           /\ finishes(r, "Leave") => FinishLeave(r)
<1>. USE DEF finishes
<1>0. Idle.op # "Join" /\ Idle.op # "Leave"
  BY DEF Idle
<1>1. ASSUME UNCHANGED vars
      PROVE  LoopsInv' /\ work' = work
  <2>1. LoopsSound'
    BY <1>1 DEF vars, clerkVars, replicaVars, LoopsInv, LoopsSound, nextCommand, lastConfig
  <2>. QED
    BY <1>1, <2>1 DEF vars, clerkVars, replicaVars, LoopsInv, ConfigsTyped
<1>2. ASSUME NEW c \in Clerk,
             \/ \E q \in Request : Begin(c, q)
             \/ \E r \in Replica : AnswerDuplicate(c, r) \/ Call(c, r)
             \/ Answer(c) \/ Timeout(c) \/ RPCError(c)
      PROVE  LoopsInv' /\ work' = work
  BY <1>2, ClerksKeep DEF replicaVars
<1>3. ASSUME NEW t \in Replica, Apply(t)
      PROVE  /\ LoopsInv'
             /\ \/ work' = work
                \/ /\ \A r \in Replica : r # t => work'[r] = work[r]
                   /\ \/ work[t] = Idle \/ work'[t] # Idle
                      \/ work[t].op = "Join" /\ FinishJoin(t)
                      \/ work[t].op = "Leave" /\ FinishLeave(t)
  <2>. DEFINE Others == \A r \in Replica : r # t => work'[r] = work[r]
  <2>0. DOMAIN work = Replica
    BY DEF LoopsInv, ConfigsTyped
  <2>1. CASE Skip(t)
    BY <2>1, SkipKeeps
  <2>2. CASE Move(t)
    <3>1. Others
      BY <2>0, <2>2 DEF Move, install
    <3>. QED
      BY <2>2, <3>1, MoveKeeps
  <2>3. CASE StartJoin(t)
    <3>1. Others
      BY <2>0, <2>3 DEF StartJoin
    <3>. QED
      BY <2>3, <3>1, StartJoinKeeps
  <2>4. CASE Rebalance(t)
    <3>1. Others
      BY <2>0, <2>4 DEF Rebalance
    <3>. QED
      BY <2>4, <3>1, RebalanceKeeps
  <2>5. CASE FinishJoin(t)
    <3>1. Others
      BY <2>0, <2>5 DEF FinishJoin, install
    <3>. QED
      BY <2>5, <3>1, FinishJoinKeeps
  <2>6. CASE StartLeave(t)
    <3>1. Others
      BY <2>0, <2>6 DEF StartLeave
    <3>. QED
      BY <2>6, <3>1, StartLeaveKeeps
  <2>7. CASE TakeGroup(t)
    <3>1. Others
      BY <2>0, <2>7 DEF TakeGroup
    <3>. QED
      BY <2>7, <3>1, TakeGroupKeeps
  <2>8. CASE AdoptOrphan(t)
    <3>1. Others
      BY <2>0, <2>8 DEF AdoptOrphan
    <3>. QED
      BY <2>8, <3>1, AdoptOrphanKeeps
  <2>9. CASE FinishLeave(t)
    <3>1. Others
      BY <2>0, <2>9 DEF FinishLeave, install
    <3>. QED
      BY <2>9, <3>1, FinishLeaveKeeps
  <2>. QED
    BY <1>3, <2>1, <2>2, <2>3, <2>4, <2>5, <2>6, <2>7, <2>8, <2>9 DEF Apply
<1>. QED
  BY <1>0, <1>1, <1>2, <1>3 DEF Next

-----------------------------------------------------------------------------
(* What the invariant says of a loop *)

LEMMA LoopsTyped ==
  ASSUME LoopsInv PROVE TypeOK
<1>1. ASSUME NEW r \in Replica
      PROVE  configs[r] \in Seq(Config) /\ \A n \in DOMAIN configs[r] : configs[r][n].num = n - 1
  BY DEF LoopsInv, ConfigsTyped, isNumbered
<1>2. configs \in [Replica -> Seq(Config)]
  BY DEF LoopsInv, ConfigsTyped
<1>3. ASSUME NEW r \in Replica, work[r] # Idle
      PROVE  /\ work[r].op \in {"Join", "Leave"}
             /\ work[r].groups \subseteq DOMAIN work[r].g2s
             /\ work[r].gids \in Seq(Nat)
             /\ work[r].orphans \in Seq(Shard)
             /\ \A g \in DOMAIN work[r].g2s : work[r].g2s[g] \in Seq(Shard)
  BY <1>3, WorkSound DEF isLoop, isPartition, isList
<1>. QED
  BY <1>1, <1>2, <1>3 DEF LoopsInv, ConfigsTyped, TypeOK

\* The place of a shard in a list.
LEMMA OnePlace ==
  ASSUME NEW l, isList(l), NEW s
  PROVE  /\ s \in Range(l) => \E k : at(l, s) = {k}
         /\ s \notin Range(l) => at(l, s) = {}
<1>1. ASSUME s \in Range(l) PROVE \E k : at(l, s) = {k}
  <2>1. PICK k \in DOMAIN l : l[k] = s
    BY <1>1 DEF Range
  <2>2. at(l, s) = {k}
    BY <2>1 DEF isList, IsInjective, at
  <2>. QED
    BY <2>2
<1>2. ASSUME s \notin Range(l) PROVE at(l, s) = {}
  BY <1>2 DEF Range, at
<1>. QED
  BY <1>1, <1>2

LEMMA PlaceOf ==
  ASSUME NEW w, NEW s, NEW p
  PROVE  p \in places(w, s) <=> \/ \E g \in DOMAIN w.g2s : \E k \in at(w.g2s[g], s) : p = <<g, k>>
                                \/ \E k \in at(w.orphans, s) : p = <<-1, k>>
<1>1. p \in UNION {{g} \X at(w.g2s[g], s) : g \in DOMAIN w.g2s}
        <=> \E g \in DOMAIN w.g2s : \E k \in at(w.g2s[g], s) : p = <<g, k>>
  OBVIOUS
<1>2. p \in {-1} \X at(w.orphans, s) <=> \E k \in at(w.orphans, s) : p = <<-1, k>>
  OBVIOUS
<1>. QED
  BY <1>1, <1>2 DEF places

LEMMA LoopsPartition ==
  ASSUME LoopsInv PROVE ShardsPartitioned
<1>. SUFFICES ASSUME NEW r \in Replica, work[r] # Idle, NEW s \in Shard
              PROVE  Cardinality(places(work[r], s)) = 1
  BY DEF ShardsPartitioned
<1>. DEFINE w == work[r]
            in(l) == at(l, s)
            P == places(w, s)
<1>1. isPartition(w.g2s, w.orphans) /\ DOMAIN w.g2s \subseteq Nat
  BY WorkSound DEF isLoop
<1>2. \A p : p \in P <=> \/ \E g \in DOMAIN w.g2s : \E k \in in(w.g2s[g]) : p = <<g, k>>
                         \/ \E k \in in(w.orphans) : p = <<-1, k>>
  BY PlaceOf
<1>3. CASE s \in Range(w.orphans)
  <2>1. \A g \in DOMAIN w.g2s : in(w.g2s[g]) = {}
    <3>1. ASSUME NEW g \in DOMAIN w.g2s PROVE isList(w.g2s[g]) /\ s \notin Range(w.g2s[g])
      BY <1>1, <1>3 DEF isPartition
    <3>. QED
      BY <3>1, OnePlace
  <2>2. PICK k : in(w.orphans) = {k}
    <3>1. isList(w.orphans)
      BY <1>1 DEF isPartition
    <3>. QED
      BY <1>3, <3>1, OnePlace
  <2>3. P = {<<-1, k>>}
    <3>. HIDE DEF in, P
    <3>. QED
      BY <1>2, <2>1, <2>2
  <2>. QED
    BY <2>3, FS_Singleton
<1>4. CASE s \notin Range(w.orphans)
  <2>1. PICK g \in DOMAIN w.g2s : s \in Range(w.g2s[g])
    BY <1>1, <1>4 DEF isPartition
  <2>2. ASSUME NEW h \in DOMAIN w.g2s, h # g PROVE in(w.g2s[h]) = {}
    <3>1. isList(w.g2s[h]) /\ s \notin Range(w.g2s[h])
      BY <1>1, <2>1, <2>2 DEF isPartition
    <3>. QED
      BY <3>1, OnePlace
  <2>3. in(w.orphans) = {}
    <3>1. isList(w.orphans)
      BY <1>1 DEF isPartition
    <3>. QED
      BY <1>4, <3>1, OnePlace
  <2>4. PICK k : in(w.g2s[g]) = {k}
    <3>1. isList(w.g2s[g])
      BY <1>1 DEF isPartition
    <3>. QED
      BY <2>1, <3>1, OnePlace
  <2>5. P = {<<g, k>>}
    <3>. HIDE DEF in, P
    <3>. QED
      BY <1>2, <2>2, <2>3, <2>4
  <2>. QED
    BY <2>5, FS_Singleton
<1>. QED
  BY <1>3, <1>4

-----------------------------------------------------------------------------

LEMMA LoopsInvariant == Spec => []LoopsInv
<1>1. Init => LoopsInv
  BY InitLoops
<1>2. LoopsInv /\ [Next]_vars => LoopsInv'
  BY NextLoops
<1>. QED
  BY <1>1, <1>2, PTL DEF Spec

\* Every variable of the controller keeps its type, with any number of clerks, and the
\* configuration with number n stands in place n, which Query relies on
\* (configStateMachine.go:110).
THEOREM ControllerTypesAreKept == Spec => []TypeOK
<1>1. LoopsInv => TypeOK
  BY LoopsTyped
<1>. QED
  BY <1>1, LoopsInvariant, PTL

\* At every turn of the loops of Join and Leave each shard is in exactly one place:
\* in one group's list or among the orphans, and there once.
THEOREM NoShardIsLost == Spec => []ShardsPartitioned
<1>1. LoopsInv => ShardsPartitioned
  BY LoopsPartition
<1>. QED
  BY <1>1, LoopsInvariant, PTL

\* A Join that ends leaves no two owners of shards more than one shard apart, whichever
\* of the fullest and the emptiest groups its turns have picked.
THEOREM JoinsBalance == Spec => JoinBalances
<1>1. LoopsInv /\ [Next]_vars =>
        [\A r \in Replica : finishes(r, "Join") =>
           LET c == newConfig(r)
               size(g) == Cardinality({s \in Shard : c.shards[s] = g})
               owners  == c.groups \cup {c.shards[s] : s \in Shard}
           IN \A g, h \in owners : size(g) - size(h) <= 1]_vars
  BY NextLoops, FinishJoinKeeps
<1>. QED
  BY <1>1, LoopsInvariant, PTL DEF Spec, JoinBalances

\* A Leave that ends has moved the shards of the groups that left, all of them and no
\* others, unless no group is left.
THEOREM LeavesMoveOrphans == Spec => LeaveMovesOrphans
<1>1. LoopsInv /\ [Next]_vars =>
        [\A r \in Replica : finishes(r, "Leave") =>
           LET left == Range(nextCommand(r).request.gids)
               old  == lastConfig(r)
               new  == newConfig(r)
           IN new.groups # {} => \A s \in Shard :
                IF old.shards[s] \in left THEN new.shards[s] \notin left
                                          ELSE new.shards[s] = old.shards[s]]_vars
  BY NextLoops, FinishLeaveKeeps
<1>. QED
  BY <1>1, LoopsInvariant, PTL DEF Spec, LeaveMovesOrphans
=============================================================================
