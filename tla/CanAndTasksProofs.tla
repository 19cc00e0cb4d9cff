------------------------- MODULE CanAndTasksProofs -------------------------
(***************************************************************************)
(* Two users of the kernel's queues that have no name in common.           *)
(*                                                                         *)
(* First, for any tasks and lengths: a message in the transmit queue of    *)
(* the CAN driver is always about to be looked at, no message is sent      *)
(* twice or after its sender was told that it failed, and received         *)
(* messages come in order, those that are missing having been counted.     *)
(*                                                                         *)
(* Then the producer and the consumer: their inductive invariant, and what *)
(* follows from it.                                                        *)
(***************************************************************************)
EXTENDS CanDriver, ProducerConsumer, TLAPS

-----------------------------------------------------------------------------
(* The CAN driver.                                                         *)

Msg == Tasks \X Nat

TaskTypes == task \in [Tasks -> [at : {"idle", "try", "queue", "check", "late"}, calls : Nat]]
Types ==
    /\ txQ \in Seq(Msg) /\ onBus \in Seq(Msg) /\ hwTx \in Msg \cup {Free}
    /\ failed \subseteq Msg
    /\ TaskTypes
    /\ isr \in {"none", "rx", "tx", "rx,tx"} /\ txDone \in BOOLEAN

Queued(m) == \E i \in DOMAIN txQ : txQ[i] = m
Gone(m)   == \E i \in DOMAIN onBus : onBus[i] = m
Taken(m)  == Queued(m) \/ Gone(m) \/ hwTx = m

\* Each message is in one place at most.
OnePlace ==
    /\ \A i, j \in DOMAIN txQ : txQ[i] = txQ[j] => i = j
    /\ \A i, j \in DOMAIN onBus : onBus[i] = onBus[j] => i = j
    /\ \A m \in Msg : /\ Queued(m) => ~ Gone(m) /\ hwTx # m
                      /\ Gone(m) => hwTx # m

\* What was taken was asked for, and its sender has not been told that it failed; what
\* a task still tries to send, or could not queue, was not taken.
Accounted ==
    \A t \in Tasks, n \in Nat :
        /\ Taken(<<t, n>>) \/ <<t, n>> \in failed => n <= task[t].calls
        /\ ~ (Taken(<<t, n>>) /\ <<t, n>> \in failed)
        /\ n = task[t].calls /\ task[t].at \in {"try", "queue", "late"} => ~ Taken(<<t, n>>)
        /\ n = task[t].calls /\ task[t].at # "idle" => <<t, n>> \notin failed

CanIInv == Types /\ QueueServed /\ OnePlace /\ Accounted

-----------------------------------------------------------------------------
(***************************************************************************)
(* What taking from and putting into a queue does to its messages.         *)
(***************************************************************************)
\* The first message of a queue and the others.
LEMMA TailHas ==
    ASSUME NEW S, NEW q \in Seq(S), q # << >>
    PROVE  /\ Head(q) \in S /\ Tail(q) \in Seq(S)
           /\ 1 \in DOMAIN q /\ Head(q) = q[1]
           /\ \A i \in DOMAIN Tail(q) : i + 1 \in DOMAIN q /\ i + 1 # 1 /\ Tail(q)[i] = q[i + 1]
           /\ \A b : (\E i \in DOMAIN q : q[i] = b) <=>
                     b = Head(q) \/ \E i \in DOMAIN Tail(q) : Tail(q)[i] = b
  <1>1. /\ Head(q) \in S /\ Tail(q) \in Seq(S)
        /\ 1 \in DOMAIN q /\ Head(q) = q[1]
        /\ \A i \in DOMAIN Tail(q) : i + 1 \in DOMAIN q /\ i + 1 # 1 /\ Tail(q)[i] = q[i + 1]
    OBVIOUS
  <1>2. ASSUME NEW i \in DOMAIN q
        PROVE  i = 1 \/ (i - 1 \in DOMAIN Tail(q) /\ Tail(q)[i - 1] = q[i])
    OBVIOUS
  <1>3. ASSUME NEW b, NEW i \in DOMAIN q, q[i] = b
        PROVE  b = Head(q) \/ \E j \in DOMAIN Tail(q) : Tail(q)[j] = b
    BY <1>1, <1>2, <1>3
  <1>4. ASSUME NEW b, b = Head(q) \/ \E j \in DOMAIN Tail(q) : Tail(q)[j] = b
        PROVE  \E i \in DOMAIN q : q[i] = b
    BY <1>1, <1>4
  <1> QED
    BY <1>1, <1>3, <1>4

\* If no message is in a queue twice, the first is not among the others.
LEMMA TailDistinct ==
    ASSUME NEW S, NEW q \in Seq(S), q # << >>,
           \A i, j \in DOMAIN q : q[i] = q[j] => i = j
    PROVE  /\ \A i, j \in DOMAIN Tail(q) : Tail(q)[i] = Tail(q)[j] => i = j
           /\ \A i \in DOMAIN Tail(q) : Tail(q)[i] # Head(q)
  <1>1. /\ 1 \in DOMAIN q /\ Head(q) = q[1]
        /\ \A i \in DOMAIN Tail(q) : i + 1 \in DOMAIN q /\ i + 1 # 1 /\ Tail(q)[i] = q[i + 1]
    BY TailHas
  <1>2. DOMAIN Tail(q) \subseteq Nat OBVIOUS
  <1>3. ASSUME NEW i \in DOMAIN Tail(q), NEW j \in DOMAIN Tail(q), Tail(q)[i] = Tail(q)[j]
        PROVE  i = j
    <2>1. i + 1 = j + 1 BY <1>1, <1>3
    <2> QED BY <2>1, <1>2
  <1>4. ASSUME NEW i \in DOMAIN Tail(q) PROVE Tail(q)[i] # Head(q)
    BY <1>1
  <1> QED BY <1>3, <1>4

\* A message put at the end of a queue.
LEMMA AppendHas ==
    ASSUME NEW S, NEW q \in Seq(S), NEW x \in S
    PROVE  /\ Append(q, x) \in Seq(S)
           /\ \A b : (\E i \in DOMAIN Append(q, x) : Append(q, x)[i] = b) <=>
                     b = x \/ \E i \in DOMAIN q : q[i] = b
  <1>1. /\ Append(q, x) \in Seq(S)
        /\ DOMAIN Append(q, x) = 1 .. Len(q) + 1
        /\ DOMAIN q = 1 .. Len(q) /\ Len(q) \in Nat
        /\ \A i \in DOMAIN q : Append(q, x)[i] = q[i]
        /\ Append(q, x)[Len(q) + 1] = x
    OBVIOUS
  <1>2. \A i \in DOMAIN Append(q, x) : i \in DOMAIN q \/ i = Len(q) + 1 BY <1>1
  <1>3. \A i \in DOMAIN q : i \in DOMAIN Append(q, x) BY <1>1
  <1>4. Len(q) + 1 \in DOMAIN Append(q, x) BY <1>1
  <1> QED BY <1>1, <1>2, <1>3, <1>4

\* A message that was not in the queue is in it once.
LEMMA AppendDistinct ==
    ASSUME NEW S, NEW q \in Seq(S), NEW x \in S,
           \A i \in DOMAIN q : q[i] # x,
           \A i, j \in DOMAIN q : q[i] = q[j] => i = j
    PROVE  \A i, j \in DOMAIN Append(q, x) : Append(q, x)[i] = Append(q, x)[j] => i = j
  <1>1. /\ DOMAIN Append(q, x) = 1 .. Len(q) + 1
        /\ DOMAIN q = 1 .. Len(q) /\ Len(q) \in Nat
        /\ \A i \in DOMAIN q : Append(q, x)[i] = q[i]
        /\ Append(q, x)[Len(q) + 1] = x
    OBVIOUS
  <1>2. \A i \in DOMAIN Append(q, x) : i \in DOMAIN q \/ i = Len(q) + 1 BY <1>1
  <1> QED BY <1>1, <1>2

\* Two queues one after the other, with no message in common or twice in one.
LEMMA ConcatDistinct ==
    ASSUME NEW S, NEW p \in Seq(S), NEW q \in Seq(S),
           \A i, j \in DOMAIN p : p[i] = p[j] => i = j,
           \A i, j \in DOMAIN q : q[i] = q[j] => i = j,
           \A i \in DOMAIN p, j \in DOMAIN q : p[i] # q[j]
    PROVE  /\ p \o q \in Seq(S)
           /\ \A i, j \in DOMAIN (p \o q) : (p \o q)[i] = (p \o q)[j] => i = j
           /\ \A i \in DOMAIN (p \o q) : \/ \E j \in DOMAIN p : p[j] = (p \o q)[i]
                                         \/ \E j \in DOMAIN q : q[j] = (p \o q)[i]
  <1>1. p \o q \in Seq(S) OBVIOUS
  <1>2. ASSUME NEW i \in DOMAIN (p \o q)
        PROVE  /\ i \in Nat /\ Len(p) \in Nat
               /\ \/ i \in DOMAIN p /\ (p \o q)[i] = p[i]
                  \/ i - Len(p) \in DOMAIN q /\ (p \o q)[i] = q[i - Len(p)]
    OBVIOUS
  <1>3. ASSUME NEW i \in DOMAIN (p \o q), NEW j \in DOMAIN (p \o q), (p \o q)[i] = (p \o q)[j]
        PROVE  i = j
    <2>1. i \in Nat /\ j \in Nat /\ Len(p) \in Nat BY <1>2
    <2>2. CASE i \in DOMAIN p /\ (p \o q)[i] = p[i] BY <1>2, <1>3, <2>2
    <2>3. CASE i - Len(p) \in DOMAIN q /\ (p \o q)[i] = q[i - Len(p)]
      <3>1. j - Len(p) \in DOMAIN q /\ (p \o q)[j] = q[j - Len(p)] BY <1>2, <1>3, <2>3
      <3>2. i - Len(p) = j - Len(p) BY <1>3, <2>3, <3>1
      <3> QED BY <2>1, <3>2
    <2> QED BY <1>2, <2>2, <2>3
  <1>4. ASSUME NEW i \in DOMAIN (p \o q)
        PROVE  \/ \E j \in DOMAIN p : p[j] = (p \o q)[i]
               \/ \E j \in DOMAIN q : q[j] = (p \o q)[i]
    BY <1>2
  <1> QED BY <1>1, <1>3, <1>4

-----------------------------------------------------------------------------
(***************************************************************************)
(* The invariant.                                                          *)
(***************************************************************************)
\* At first nothing is anywhere.
LEMMA InitHolds == CanInit => CanIInv
  <1> SUFFICES ASSUME CanInit PROVE CanIInv OBVIOUS
  <1>1. Types
    <2>1. TaskTypes BY DEF CanInit, TaskTypes
    <2>2. txQ \in Seq(Msg) /\ onBus \in Seq(Msg) BY DEF CanInit
    <2> QED BY <2>1, <2>2 DEF CanInit, Types
  <1>2. QueueServed BY DEF CanInit, QueueServed
  <1>3. \A m \in Msg : ~ Taken(m)
    BY FreeAssumption DEF CanInit, Taken, Queued, Gone, Msg
  <1>4. OnePlace BY <1>3 DEF CanInit, OnePlace, Taken
  <1>5. \A t \in Tasks : task[t].at = "idle" BY DEF CanInit
  <1>6. failed = {} BY DEF CanInit
  <1>7. \A t \in Tasks, n \in Nat : ~ Taken(<<t, n>>) BY <1>3 DEF Msg
  <1>8. Accounted BY <1>5, <1>6, <1>7 DEF Accounted
  <1> QED BY <1>1, <1>2, <1>4, <1>8 DEF CanIInv

\* The message of a task, and that two tasks never have the same.
LEMMA MessageOf ==
    ASSUME Types, NEW t \in Tasks
    PROVE  task[t].calls \in Nat /\ Message(t) \in Msg /\ Message(t) # Free
  <1>1. task[t].calls \in Nat BY DEF Types, TaskTypes
  <1>2. Message(t) \in Msg BY <1>1 DEF Msg, Message
  <1> QED BY <1>1, <1>2, FreeAssumption DEF Msg

\* A step that changes neither the messages, nor what was told of them, nor the tasks.
LEMMA TxStays ==
    ASSUME CanIInv, UNCHANGED <<task, failed, txQ, hwTx, onBus>>, Types', QueueServed'
    PROVE  CanIInv'
  BY DEF CanIInv, OnePlace, Accounted, Taken, Queued, Gone, Message, Looks

\* Reception does not touch the messages that are sent.
LEMMA ReceiveKeeps ==
    ASSUME CanIInv, Receive \/ Arrive \/ ReceiveFromHw \/ EnterISR
    PROVE  CanIInv'
  <1>1. UNCHANGED <<task, failed, txQ, hwTx, onBus>>
    BY DEF Receive, Arrive, ReceiveFromHw, EnterISR, tx
  <1>2. Types'
    <2>1. isr' \in {"none", "rx", "tx", "rx,tx"}
      BY DEF CanIInv, Types, Receive, Arrive, ReceiveFromHw, EnterISR
    <2>2. txDone' \in BOOLEAN
      BY DEF CanIInv, Types, Receive, Arrive, ReceiveFromHw, EnterISR, tx
    <2> QED BY <1>1, <2>1, <2>2 DEF CanIInv, Types, TaskTypes
  <1>3. QueueServed'
    <2>1. CASE Receive \/ Arrive
      BY <1>1, <2>1 DEF CanIInv, QueueServed, Receive, Arrive, Looks, tx
    <2>2. CASE ReceiveFromHw
      BY <1>1, <2>2 DEF CanIInv, QueueServed, ReceiveFromHw, Looks, tx
    <2>3. CASE EnterISR
      BY <1>1, <2>3 DEF CanIInv, QueueServed, EnterISR, InISR, Looks
    <2> QED BY <2>1, <2>2, <2>3
  <1> QED BY <1>1, <1>2, <1>3, TxStays

\* What a task that goes on leaves as it is.
LEMMA GoesKeeps ==
    ASSUME CanIInv, NEW t \in Tasks, NEW to, to \in {"idle", "try", "queue", "check", "late"},
           Goes(t, to)
    PROVE  /\ TaskTypes' /\ task'[t].at = to
           /\ \A u \in Tasks : task'[u].calls = task[u].calls /\ (u # t => task'[u] = task[u])
  <1>1. task \in [Tasks -> [at : {"idle", "try", "queue", "check", "late"}, calls : Nat]]
    BY DEF CanIInv, Types, TaskTypes
  <1>2. task' = [task EXCEPT ![t].at = to] BY DEF Goes
  <1> QED BY <1>1, <1>2 DEF TaskTypes

\* A step that may take or fail the message of one task, and no other.
LEMMA AccountedAfter ==
    ASSUME CanIInv, NEW t \in Tasks, NEW k \in Nat, k = task[t].calls,
           \A u \in Tasks : task'[u].calls = task[u].calls,
           \A u \in Tasks : u # t => task'[u] = task[u],
           \A m \in Msg : Taken(m)' => Taken(m) \/ m = <<t, k>>,
           \A m \in Msg : m \in failed' => m \in failed \/ m = <<t, k>>,
           ~ (Taken(<<t, k>>)' /\ <<t, k>> \in failed'),
           task'[t].at \in {"try", "queue", "late"} => ~ Taken(<<t, k>>)',
           task'[t].at # "idle" => <<t, k>> \notin failed'
    PROVE  Accounted'
  <1> SUFFICES ASSUME NEW u \in Tasks, NEW n \in Nat
               PROVE  /\ Taken(<<u, n>>)' \/ <<u, n>> \in failed' => n <= task'[u].calls
                      /\ ~ (Taken(<<u, n>>)' /\ <<u, n>> \in failed')
                      /\ n = task'[u].calls /\ task'[u].at \in {"try", "queue", "late"}
                            => ~ Taken(<<u, n>>)'
                      /\ n = task'[u].calls /\ task'[u].at # "idle" => <<u, n>> \notin failed'
    BY DEF Accounted
  <1>1. task'[u].calls = task[u].calls OBVIOUS
  <1>2. <<u, n>> \in Msg BY DEF Msg
  <1>3. CASE u = t /\ n = k
    <2>1. n <= k BY <1>3
    <2> QED BY <1>1, <1>3, <2>1
  <1>4. CASE <<u, n>> # <<t, k>>
    <2>1. (Taken(<<u, n>>)' => Taken(<<u, n>>)) /\ (<<u, n>> \in failed' => <<u, n>> \in failed)
      BY <1>2, <1>4
    <2>2. /\ Taken(<<u, n>>) \/ <<u, n>> \in failed => n <= task[u].calls
          /\ ~ (Taken(<<u, n>>) /\ <<u, n>> \in failed)
          /\ n = task[u].calls /\ task[u].at \in {"try", "queue", "late"} => ~ Taken(<<u, n>>)
          /\ n = task[u].calls /\ task[u].at # "idle" => <<u, n>> \notin failed
      BY DEF CanIInv, Accounted
    <2>3. n = task[u].calls => u # t BY <1>4
    <2> QED BY <1>1, <2>1, <2>2, <2>3
  <1> QED BY <1>3, <1>4

\* A new call: its message has a number of its own.
LEMMA CallKeeps ==
    ASSUME CanIInv, NEW t \in Tasks, Call(t)
    PROVE  CanIInv'
  <1>1. UNCHANGED <<failed, txQ, hwTx, onBus, isr, txDone>> BY DEF Call, tx
  <1>2. /\ TaskTypes' /\ \A u \in Tasks \ {t} : task'[u] = task[u]
        /\ task'[t].at = "try" /\ task'[t].calls = task[t].calls + 1
    <2>1. task \in [Tasks -> [at : {"idle", "try", "queue", "check", "late"}, calls : Nat]]
      BY DEF CanIInv, Types, TaskTypes
    <2>2. task' = [task EXCEPT ![t].at = "try", ![t].calls = task[t].calls + 1]
      BY DEF Call
    <2> QED BY <2>1, <2>2 DEF TaskTypes
  <1>3. Types' BY <1>1, <1>2 DEF CanIInv, Types
  <1>4. QueueServed' BY <1>1, <1>2 DEF CanIInv, QueueServed, Call, Looks
  <1>5. \A m : Taken(m)' = Taken(m) BY <1>1 DEF Taken, Queued, Gone
  <1>6. OnePlace' BY <1>1 DEF CanIInv, OnePlace, Queued, Gone
  <1>7. task[t].calls \in Nat BY DEF CanIInv, Types, TaskTypes
  <1>8. Accounted'
    <2> SUFFICES ASSUME NEW u \in Tasks, NEW n \in Nat
                 PROVE  /\ Taken(<<u, n>>) \/ <<u, n>> \in failed => n <= task'[u].calls
                        /\ ~ (Taken(<<u, n>>) /\ <<u, n>> \in failed)
                        /\ n = task'[u].calls /\ task'[u].at \in {"try", "queue", "late"}
                              => ~ Taken(<<u, n>>)
                        /\ n = task'[u].calls /\ task'[u].at # "idle" => <<u, n>> \notin failed
      BY <1>1, <1>5 DEF Accounted
    <2>1. /\ Taken(<<u, n>>) \/ <<u, n>> \in failed => n <= task[u].calls
          /\ ~ (Taken(<<u, n>>) /\ <<u, n>> \in failed)
          /\ n = task[u].calls /\ task[u].at \in {"try", "queue", "late"} => ~ Taken(<<u, n>>)
          /\ n = task[u].calls /\ task[u].at # "idle" => <<u, n>> \notin failed
      BY DEF CanIInv, Accounted
    <2>2. CASE u # t BY <1>2, <2>1, <2>2
    <2>3. CASE u = t
      <3>1. n <= task[t].calls => n <= task'[t].calls /\ n # task'[t].calls BY <1>2, <1>7
      <3> QED BY <2>1, <2>3, <3>1
    <2> QED BY <2>2, <2>3
  <1> QED BY <1>3, <1>4, <1>6, <1>8 DEF CanIInv

\* The message of a task goes into a free buffer, or the task goes to the queue.
LEMMA TryKeeps ==
    ASSUME CanIInv, NEW t \in Tasks, TryNow(t)
    PROVE  CanIInv'
  <1> DEFINE k == task[t].calls
  <1>1. k \in Nat /\ <<t, k>> \in Msg /\ <<t, k>> # Free /\ Message(t) = <<t, k>>
    BY MessageOf DEF CanIInv, Message
  <1>2. ~ Taken(<<t, k>>) /\ <<t, k>> \notin failed
    BY <1>1 DEF TryNow, CanIInv, Accounted
  <1>3. UNCHANGED <<txQ, txDone, onBus, isr, failed>> BY DEF TryNow
  <1> HIDE DEF k
  <1>4. CASE hwTx = Free
    <2>1. hwTx' = <<t, k>> /\ Goes(t, "idle") BY <1>1, <1>4 DEF TryNow
    <2>2. /\ TaskTypes' /\ task'[t].at = "idle"
          /\ \A u \in Tasks : task'[u].calls = task[u].calls /\ (u # t => task'[u] = task[u])
      BY <2>1, GoesKeeps
    <2>3. Types' BY <1>1, <1>3, <2>1, <2>2 DEF CanIInv, Types
    <2>4. QueueServed' BY <1>1, <2>1 DEF QueueServed
    <2>5. \A m : Taken(m)' => Taken(m) \/ m = <<t, k>> BY <1>3, <2>1 DEF Taken, Queued, Gone
    <2>6. OnePlace' BY <1>2, <1>3, <2>1 DEF CanIInv, OnePlace, Taken, Queued, Gone
    <2>7. Accounted' BY <1>1, <1>2, <1>3, <2>2, <2>5, AccountedAfter DEF k
    <2> QED BY <2>3, <2>4, <2>6, <2>7 DEF CanIInv
  <1>5. CASE hwTx # Free
    <2>1. hwTx' = hwTx /\ Goes(t, "queue") BY <1>5 DEF TryNow
    <2>2. /\ TaskTypes' /\ task'[t].at = "queue"
          /\ \A u \in Tasks : task'[u].calls = task[u].calls /\ (u # t => task'[u] = task[u])
      BY <2>1, GoesKeeps
    <2>3. Types' BY <1>3, <2>1, <2>2 DEF CanIInv, Types
    <2>4. QueueServed' BY <1>5, <2>1 DEF QueueServed
    <2>5. \A m : Taken(m)' = Taken(m) BY <1>3, <2>1 DEF Taken, Queued, Gone
    <2>6. OnePlace' BY <1>3, <2>1 DEF CanIInv, OnePlace, Queued, Gone
    <2>7. Accounted' BY <1>1, <1>2, <1>3, <2>2, <2>5, AccountedAfter DEF k
    <2> QED BY <2>3, <2>4, <2>6, <2>7 DEF CanIInv
  <1> QED BY <1>4, <1>5

\* The message of a task is put into the queue.
LEMMA EnqueueKeeps ==
    ASSUME CanIInv, NEW t \in Tasks, Enqueue(t)
    PROVE  CanIInv'
  <1> DEFINE k == task[t].calls
  <1>1. k \in Nat /\ <<t, k>> \in Msg /\ <<t, k>> # Free /\ Message(t) = <<t, k>>
    BY MessageOf DEF CanIInv, Message
  <1>2. ~ Taken(<<t, k>>) /\ <<t, k>> \notin failed
    BY <1>1 DEF Enqueue, CanIInv, Accounted
  <1>3. UNCHANGED <<hwTx, txDone, onBus, isr, failed>> BY DEF Enqueue
  <1>4. txQ' = Append(txQ, <<t, k>>) BY <1>1 DEF Enqueue
  <1>5. /\ TaskTypes' /\ task'[t].at = "check"
        /\ \A u \in Tasks : task'[u].calls = task[u].calls /\ (u # t => task'[u] = task[u])
    <2>1. Goes(t, "check") BY DEF Enqueue
    <2> QED BY <2>1, GoesKeeps
  <1> HIDE DEF k
  <1>6. txQ \in Seq(Msg) BY DEF CanIInv, Types
  <1>7. txQ' \in Seq(Msg) BY <1>1, <1>4, <1>6
  <1>8. \A m : Queued(m)' <=> m = <<t, k>> \/ Queued(m)
    <2>1. \A b : (\E i \in DOMAIN Append(txQ, <<t, k>>) : Append(txQ, <<t, k>>)[i] = b) <=>
                 b = <<t, k>> \/ \E i \in DOMAIN txQ : txQ[i] = b
      BY <1>1, <1>6, AppendHas
    <2> QED BY <1>4, <2>1 DEF Queued
  <1>9. \A m : Gone(m)' = Gone(m) BY <1>3 DEF Gone
  <1>10. \A m : Taken(m)' => Taken(m) \/ m = <<t, k>> BY <1>3, <1>8, <1>9 DEF Taken
  <1>11. Types' BY <1>3, <1>5, <1>7 DEF CanIInv, Types
  <1>12. QueueServed' BY <1>5 DEF QueueServed, Looks
  <1>13. OnePlace'
    <2>1. \A i, j \in DOMAIN txQ' : txQ'[i] = txQ'[j] => i = j
      <3>1. \A i \in DOMAIN txQ : txQ[i] # <<t, k>> BY <1>2 DEF Taken, Queued
      <3>2. \A i, j \in DOMAIN txQ : txQ[i] = txQ[j] => i = j BY DEF CanIInv, OnePlace
      <3>3. \A i, j \in DOMAIN Append(txQ, <<t, k>>) :
               Append(txQ, <<t, k>>)[i] = Append(txQ, <<t, k>>)[j] => i = j
        BY <1>1, <1>6, <3>1, <3>2, AppendDistinct
      <3> QED BY <1>4, <3>3
    <2>2. \A m \in Msg : (Queued(m)' => ~ Gone(m)' /\ hwTx' # m) /\ (Gone(m)' => hwTx' # m)
      BY <1>2, <1>3, <1>8, <1>9 DEF CanIInv, OnePlace, Taken
    <2> QED BY <1>3, <2>1, <2>2 DEF CanIInv, OnePlace
  <1>14. Accounted' BY <1>1, <1>2, <1>3, <1>5, <1>10, AccountedAfter DEF k
  <1> QED BY <1>11, <1>12, <1>13, <1>14 DEF CanIInv

\* The queue stayed full.
LEMMA TimeOutKeeps ==
    ASSUME CanIInv, NEW t \in Tasks, TimeOut(t)
    PROVE  CanIInv'
  <1> DEFINE k == task[t].calls
  <1>1. k \in Nat BY MessageOf DEF CanIInv
  <1>2. ~ Taken(<<t, k>>) /\ <<t, k>> \notin failed
    BY <1>1 DEF TimeOut, CanIInv, Accounted
  <1>3. UNCHANGED <<txQ, hwTx, txDone, onBus, isr, failed>> BY DEF TimeOut, tx
  <1>4. /\ TaskTypes' /\ task'[t].at = "late"
        /\ \A u \in Tasks : task'[u].calls = task[u].calls /\ (u # t => task'[u] = task[u])
    <2>1. Goes(t, "late") BY DEF TimeOut
    <2> QED BY <2>1, GoesKeeps
  <1> HIDE DEF k
  <1>5. \A m : Taken(m)' = Taken(m) BY <1>3 DEF Taken, Queued, Gone
  <1>6. Types' BY <1>3, <1>4 DEF CanIInv, Types
  <1>7. QueueServed' BY <1>4 DEF QueueServed, Looks
  <1>8. OnePlace' BY <1>3 DEF CanIInv, OnePlace, Queued, Gone
  <1>9. Accounted' BY <1>1, <1>2, <1>3, <1>4, <1>5, AccountedAfter DEF k
  <1> QED BY <1>6, <1>7, <1>8, <1>9 DEF CanIInv

\* The oldest message leaves the queue.
LEMMA HeadLeaves ==
    ASSUME CanIInv, txQ # << >>, txQ' = Tail(txQ)
    PROVE  /\ txQ' \in Seq(Msg) /\ Head(txQ) \in Msg /\ Head(txQ) # Free
           /\ \A m : Queued(m) <=> m = Head(txQ) \/ Queued(m)'
           /\ \A i, j \in DOMAIN txQ' : txQ'[i] = txQ'[j] => i = j
           /\ \A m : m = Head(txQ) => ~ Queued(m)'
  <1>1. txQ \in Seq(Msg) BY DEF CanIInv, Types
  <1>2. /\ Head(txQ) \in Msg /\ Tail(txQ) \in Seq(Msg)
        /\ \A b : (\E i \in DOMAIN txQ : txQ[i] = b) <=>
                  b = Head(txQ) \/ \E i \in DOMAIN Tail(txQ) : Tail(txQ)[i] = b
    BY <1>1, TailHas
  <1>3. \A i, j \in DOMAIN txQ : txQ[i] = txQ[j] => i = j BY DEF CanIInv, OnePlace
  <1>4. /\ \A i, j \in DOMAIN Tail(txQ) : Tail(txQ)[i] = Tail(txQ)[j] => i = j
        /\ \A i \in DOMAIN Tail(txQ) : Tail(txQ)[i] # Head(txQ)
    BY <1>1, <1>3, TailDistinct
  <1>5. Head(txQ) # Free BY <1>2, FreeAssumption DEF Msg
  <1>6. \A m : m = Head(txQ) => ~ Queued(m)' BY <1>4 DEF Queued
  <1> QED BY <1>2, <1>4, <1>5, <1>6 DEF Queued

\* It goes into the free buffer, or is lost because the buffer is in use.
LEMMA HeadMoves ==
    ASSUME CanIInv, txQ # << >>, txQ' = Tail(txQ), onBus' = onBus,
           hwTx' = IF hwTx = Free THEN Head(txQ) ELSE hwTx
    PROVE  /\ txQ' \in Seq(Msg) /\ hwTx' \in Msg /\ hwTx' # Free
           /\ OnePlace' /\ \A m \in Msg : Taken(m)' => Taken(m)
  <1>1. /\ txQ' \in Seq(Msg) /\ Head(txQ) \in Msg /\ Head(txQ) # Free
        /\ \A m : Queued(m) <=> m = Head(txQ) \/ Queued(m)'
        /\ \A i, j \in DOMAIN txQ' : txQ'[i] = txQ'[j] => i = j
        /\ \A m : m = Head(txQ) => ~ Queued(m)'
    BY HeadLeaves
  <1>2. \A m : Gone(m)' = Gone(m) BY DEF Gone
  <1>3. hwTx' \in Msg /\ hwTx' # Free BY <1>1 DEF CanIInv, Types
  <1>4. \A m \in Msg : Taken(m)' => Taken(m) BY <1>1, <1>2 DEF Taken
  <1>5. OnePlace'
    <2>1. \A i, j \in DOMAIN onBus' : onBus'[i] = onBus'[j] => i = j BY DEF CanIInv, OnePlace
    <2>2. ASSUME NEW m \in Msg
          PROVE  (Queued(m)' => ~ Gone(m)' /\ hwTx' # m) /\ (Gone(m)' => hwTx' # m)
      <3>1. (Queued(m) => ~ Gone(m) /\ hwTx # m) /\ (Gone(m) => hwTx # m) BY DEF CanIInv, OnePlace
      <3>2. hwTx' = m => hwTx = m \/ m = Head(txQ) OBVIOUS
      <3> QED BY <1>1, <1>2, <3>1, <3>2
    <2> QED BY <1>1, <2>1, <2>2 DEF OnePlace
  <1> QED BY <1>1, <1>3, <1>4, <1>5

\* A task that does not send takes no message and fails none.
LEMMA AccountedStays ==
    ASSUME CanIInv, UNCHANGED <<task, failed>>, \A m \in Msg : Taken(m)' => Taken(m)
    PROVE  Accounted'
  BY DEF CanIInv, Accounted, Msg

\* The transmit interrupt takes the oldest message, whether the buffer is free or not.
LEMMA SendNextKeeps ==
    ASSUME CanIInv, SendNext
    PROVE  CanIInv'
  <1>1. UNCHANGED <<task, failed, txDone, onBus>> /\ isr' = "none" BY DEF SendNext
  <1>2. CASE txQ = << >>
    <2>1. UNCHANGED <<task, failed, txQ, hwTx, onBus>> BY <1>2 DEF SendNext
    <2>2. Types' BY <1>1, <2>1 DEF CanIInv, Types, TaskTypes
    <2>3. QueueServed' BY <1>2, <2>1 DEF QueueServed
    <2> QED BY <2>1, <2>2, <2>3, TxStays
  <1>3. CASE txQ # << >>
    <2>1. txQ' = Tail(txQ) /\ hwTx' = IF hwTx = Free THEN Head(txQ) ELSE hwTx
      BY <1>3 DEF SendNext
    <2>2. /\ txQ' \in Seq(Msg) /\ hwTx' \in Msg /\ hwTx' # Free
          /\ OnePlace' /\ \A m \in Msg : Taken(m)' => Taken(m)
      BY <1>1, <1>3, <2>1, HeadMoves
    <2>3. Types' BY <1>1, <2>2 DEF CanIInv, Types, TaskTypes
    <2>4. QueueServed' BY <2>2 DEF QueueServed
    <2>5. Accounted' BY <1>1, <2>2, AccountedStays
    <2> QED BY <2>2, <2>3, <2>4, <2>5 DEF CanIInv
  <1> QED BY <1>2, <1>3

\* The task looks at the buffer again and returns.
LEMMA CheckKeeps ==
    ASSUME CanIInv, NEW t \in Tasks, Check(t)
    PROVE  CanIInv'
  <1>0. PICK k \in Nat : k = task[t].calls BY MessageOf DEF CanIInv
  <1>1. k = task[t].calls /\ <<t, k>> \in Msg /\ Message(t) = <<t, k>>
    BY <1>0, MessageOf DEF CanIInv, Message
  <1>2. UNCHANGED <<txDone, onBus, isr>> BY DEF Check
  <1>3. Goes(t, "idle") BY DEF Check, Return
  <1>4. /\ TaskTypes' /\ task'[t].at = "idle"
        /\ \A u \in Tasks : task'[u].calls = task[u].calls /\ (u # t => task'[u] = task[u])
    BY <1>3, GoesKeeps
  <1>5. task[t].at \in {"check", "late"} BY DEF Check, Looks
  <1>6. <<t, k>> \notin failed BY <1>1, <1>5 DEF CanIInv, Accounted
  <1>7. CASE hwTx = Free /\ txQ # << >>
    <2>1. txQ' = Tail(txQ) /\ hwTx' = Head(txQ) /\ failed' = failed BY <1>7 DEF Check, Return
    <2>2. /\ txQ' \in Seq(Msg) /\ hwTx' \in Msg /\ hwTx' # Free
          /\ OnePlace' /\ \A m \in Msg : Taken(m)' => Taken(m)
      BY <1>2, <1>7, <2>1, HeadMoves
    <2>3. Types' BY <1>2, <1>4, <2>1, <2>2 DEF CanIInv, Types
    <2>4. QueueServed' BY <2>2 DEF QueueServed
    <2>5. Accounted' BY <1>1, <1>4, <1>6, <2>1, <2>2, AccountedAfter
    <2> QED BY <2>2, <2>3, <2>4, <2>5 DEF CanIInv
  <1>8. CASE ~ (hwTx = Free /\ txQ # << >>)
    <2>1. UNCHANGED <<txQ, hwTx>> /\ Return(t, task[t].at = "check") BY <1>8 DEF Check
    <2>2. \A m : Taken(m)' = Taken(m) BY <1>2, <2>1 DEF Taken, Queued, Gone
    <2>3. failed' = IF task[t].at = "check" THEN failed ELSE failed \cup {<<t, k>>}
      BY <1>1, <2>1 DEF Return
    <2>4. ~ (Taken(<<t, k>>)' /\ <<t, k>> \in failed')
      <3>1. CASE task[t].at = "check"
        BY <1>6, <2>3, <3>1
      <3>2. CASE task[t].at = "late"
        <4>1. ~ Taken(<<t, k>>) BY <1>1, <3>2 DEF CanIInv, Accounted
        <4> QED BY <2>2, <4>1
      <3> QED BY <1>5, <3>1, <3>2
    <2>5. \A m \in Msg : m \in failed' => m \in failed \/ m = <<t, k>> BY <2>3
    <2>6. Types' BY <1>1, <1>2, <1>4, <2>1, <2>3 DEF CanIInv, Types
    <2>7. QueueServed' BY <1>8, <2>1 DEF QueueServed
    <2>8. OnePlace' BY <1>2, <2>1 DEF CanIInv, OnePlace, Queued, Gone
    <2>9. Accounted' BY <1>1, <1>4, <2>2, <2>4, <2>5, AccountedAfter
    <2> QED BY <2>6, <2>7, <2>8, <2>9 DEF CanIInv
  <1> QED BY <1>7, <1>8

\* The message in the buffer has been sent.
LEMMA SentKeeps ==
    ASSUME CanIInv, Sent
    PROVE  CanIInv'
  <1>1. hwTx \in Msg /\ hwTx # Free BY DEF CanIInv, Types, Sent
  <1>2. /\ onBus' = Append(onBus, hwTx) /\ hwTx' = Free /\ txDone' = TRUE
        /\ UNCHANGED <<task, isr, failed, txQ>>
    BY DEF Sent
  <1>3. onBus \in Seq(Msg) BY DEF CanIInv, Types
  <1>4. onBus' \in Seq(Msg) BY <1>1, <1>2, <1>3
  <1>5. \A m : Gone(m)' <=> m = hwTx \/ Gone(m)
    <2>1. \A b : (\E i \in DOMAIN Append(onBus, hwTx) : Append(onBus, hwTx)[i] = b) <=>
                 b = hwTx \/ \E i \in DOMAIN onBus : onBus[i] = b
      BY <1>1, <1>3, AppendHas
    <2> QED BY <1>2, <2>1 DEF Gone
  <1>6. \A m : Queued(m)' = Queued(m) BY <1>2 DEF Queued
  <1>7. \A m \in Msg : m # Free BY FreeAssumption DEF Msg
  <1>8. \A m \in Msg : Taken(m)' => Taken(m) BY <1>2, <1>5, <1>6, <1>7 DEF Taken
  <1>9. \A m \in Msg : (Queued(m) => ~ Gone(m) /\ hwTx # m) /\ (Gone(m) => hwTx # m)
    BY DEF CanIInv, OnePlace
  <1>10. Types' BY <1>2, <1>4 DEF CanIInv, Types, TaskTypes
  <1>11. QueueServed' BY <1>2 DEF QueueServed
  <1>12. OnePlace'
    <2>1. \A i, j \in DOMAIN onBus' : onBus'[i] = onBus'[j] => i = j
      <3>1. \A i \in DOMAIN onBus : onBus[i] # hwTx BY <1>1, <1>9 DEF Gone
      <3>2. \A i, j \in DOMAIN onBus : onBus[i] = onBus[j] => i = j BY DEF CanIInv, OnePlace
      <3>3. \A i, j \in DOMAIN Append(onBus, hwTx) :
               Append(onBus, hwTx)[i] = Append(onBus, hwTx)[j] => i = j
        BY <1>1, <1>3, <3>1, <3>2, AppendDistinct
      <3> QED BY <1>2, <3>3
    <2>2. \A m \in Msg : (Queued(m)' => ~ Gone(m)' /\ hwTx' # m) /\ (Gone(m)' => hwTx' # m)
      BY <1>2, <1>5, <1>6, <1>7, <1>9
    <2>3. \A i, j \in DOMAIN txQ' : txQ'[i] = txQ'[j] => i = j BY <1>2 DEF CanIInv, OnePlace
    <2> QED BY <2>1, <2>2, <2>3 DEF OnePlace
  <1>13. Accounted' BY <1>2, <1>8, AccountedStays
  <1> QED BY <1>10, <1>11, <1>12, <1>13 DEF CanIInv

\* Every step keeps the invariant.
LEMMA StepKeeps == CanIInv /\ [CanNext]_canVars => CanIInv'
  <1> SUFFICES ASSUME CanIInv, [CanNext]_canVars PROVE CanIInv' OBVIOUS
  <1>1. CASE Receive \/ Arrive \/ ReceiveFromHw \/ EnterISR BY <1>1, ReceiveKeeps
  <1>2. CASE SendNext BY <1>2, SendNextKeeps
  <1>3. CASE Sent BY <1>3, SentKeeps
  <1>4. ASSUME NEW t \in Tasks, Call(t) \/ CanTx(t) PROVE CanIInv'
    BY <1>4, CallKeeps, TryKeeps, EnqueueKeeps, TimeOutKeeps, CheckKeeps DEF CanTx
  <1>5. CASE UNCHANGED canVars
    <2>1. UNCHANGED <<task, failed, txQ, hwTx, onBus, isr, txDone>> BY <1>5 DEF canVars, tx
    <2>2. Types' BY <2>1 DEF CanIInv, Types, TaskTypes
    <2>3. QueueServed' BY <2>1 DEF CanIInv, QueueServed, Looks
    <2> QED BY <2>1, <2>2, <2>3, TxStays
  <1> QED BY <1>1, <1>2, <1>3, <1>4, <1>5 DEF CanNext, Handler

\* The invariant always holds.
LEMMA InvariantHolds == CanSpec => []CanIInv
  BY InitHolds, StepKeeps, PTL DEF CanSpec

-----------------------------------------------------------------------------
(***************************************************************************)
(* The theorems.                                                           *)
(***************************************************************************)
\* A message that CAN_tx() has queued never waits for nothing: the second look
\* at the buffer closes the race with the transmit interrupt.
THEOREM QueueIsServed == CanSpec => []QueueServed
  <1>1. CanIInv => QueueServed BY DEF CanIInv
  <1> QED BY <1>1, InvariantHolds, PTL

\* Each message in one place only, and not failed: no message is anywhere twice.
LEMMA OnceInAll == CanIInv => SentOnce
  <1> SUFFICES ASSUME CanIInv PROVE SentOnce OBVIOUS
  <1> DEFINE mid == IF hwTx = Free THEN << >> ELSE <<hwTx>>
             first == onBus \o mid
  <1>1. /\ onBus \in Seq(Msg) /\ txQ \in Seq(Msg) /\ hwTx \in Msg \cup {Free}
    BY DEF CanIInv, Types
  <1>2. mid \in Seq(Msg) /\ (\A i, j \in DOMAIN mid : i = j) /\ \A i \in DOMAIN mid : mid[i] = hwTx
    BY <1>1
  <1>3. /\ \A i, j \in DOMAIN txQ : txQ[i] = txQ[j] => i = j
        /\ \A i, j \in DOMAIN onBus : onBus[i] = onBus[j] => i = j
        /\ \A m \in Msg : (Queued(m) => ~ Gone(m) /\ hwTx # m) /\ (Gone(m) => hwTx # m)
    BY DEF CanIInv, OnePlace
  <1>4. /\ \A i \in DOMAIN onBus : onBus[i] \in Msg /\ Gone(onBus[i])
        /\ \A i \in DOMAIN txQ : txQ[i] \in Msg /\ Queued(txQ[i])
        /\ \A i \in DOMAIN mid : mid[i] \in Msg
    BY <1>1, <1>2 DEF Gone, Queued
  <1> HIDE DEF mid
  <1>5. \A i \in DOMAIN onBus, j \in DOMAIN mid : onBus[i] # mid[j] BY <1>2, <1>3, <1>4
  <1>6. /\ first \in Seq(Msg)
        /\ \A i, j \in DOMAIN first : first[i] = first[j] => i = j
        /\ \A i \in DOMAIN first : \/ \E j \in DOMAIN onBus : onBus[j] = first[i]
                                 \/ \E j \in DOMAIN mid : mid[j] = first[i]
    BY <1>1, <1>2, <1>3, <1>5, ConcatDistinct
  <1> HIDE DEF first
  <1>7. \A i \in DOMAIN first : first[i] \in Msg /\ (Gone(first[i]) \/ hwTx = first[i])
    BY <1>2, <1>4, <1>6
  <1>8. \A i \in DOMAIN first, j \in DOMAIN txQ : first[i] # txQ[j] BY <1>3, <1>4, <1>7
  <1>9. /\ \A i, j \in DOMAIN (first \o txQ) : (first \o txQ)[i] = (first \o txQ)[j] => i = j
        /\ \A i \in DOMAIN (first \o txQ) :
              \/ \E j \in DOMAIN first : first[j] = (first \o txQ)[i]
              \/ \E j \in DOMAIN txQ : txQ[j] = (first \o txQ)[i]
    BY <1>1, <1>3, <1>6, <1>8, ConcatDistinct
  <1>10. ASSUME NEW m \in Msg, Taken(m) PROVE m \notin failed
    BY <1>10 DEF CanIInv, Accounted, Msg
  <1>11. ASSUME NEW i \in DOMAIN (first \o txQ) PROVE (first \o txQ)[i] \notin failed
    <2>1. (first \o txQ)[i] \in Msg /\ Taken((first \o txQ)[i])
      BY <1>4, <1>7, <1>9 DEF Taken
    <2> QED BY <1>10, <2>1
  <1> QED BY <1>9, <1>11 DEF SentOnce, first, mid

\* CAN_tx() may put a message of another task into the buffer, and report a
\* failure: no message is sent twice, and none is sent that was said to have failed.
THEOREM NothingSentTwice == CanSpec => []SentOnce
  BY OnceInAll, InvariantHolds, PTL

-----------------------------------------------------------------------------
(***************************************************************************)
(* Received messages.                                                      *)
(***************************************************************************)
Coming == (received \o rxQ) \o hwRx
RxTypes == received \in Seq(Nat) /\ rxQ \in Seq(Nat) /\ hwRx \in Seq(Nat) /\ arrived \in Nat
\* The messages of a queue, and that they come in order.
Has(q) == {q[i] : i \in DOMAIN q}
Ascending(q) == \A i, j \in DOMAIN q : i < j => q[i] < q[j]

RInv == RxTypes /\ ReceivedInOrder

\* The first message of a queue moves to the end of the one before it.
LEMMA HeadMovesUp ==
    ASSUME NEW S, NEW p \in Seq(S), NEW q \in Seq(S), q # << >>
    PROVE  Append(p, Head(q)) \o Tail(q) = p \o q
  <1> DEFINE new == Append(p, Head(q)) \o Tail(q)
  <1>1. /\ Append(p, Head(q)) \in Seq(S) /\ Len(Append(p, Head(q))) = Len(p) + 1
        /\ Tail(q) \in Seq(S) /\ Len(Tail(q)) = Len(q) - 1 /\ Len(p) \in Nat /\ Len(q) \in Nat \ {0}
    OBVIOUS
  <1>2. new \in Seq(S) /\ p \o q \in Seq(S) /\ Len(new) = Len(p) + Len(q) /\ Len(p \o q) = Len(p) + Len(q)
    BY <1>1
  <1>3. ASSUME NEW i \in 1 .. Len(new) PROVE new[i] = (p \o q)[i]
    <2>1. CASE i <= Len(p) BY <1>1, <1>2, <2>1
    <2>2. CASE i = Len(p) + 1 BY <1>1, <1>2, <2>2
    <2>3. CASE i > Len(p) + 1 BY <1>1, <1>2, <2>3
    <2> QED BY <1>1, <2>1, <2>2, <2>3
  <1> QED BY <1>2, <1>3

\* The first message of the second queue is dropped: the others stay in order.
LEMMA HeadDrops ==
    ASSUME NEW p \in Seq(Nat), NEW q \in Seq(Nat), q # << >>,
           Ascending(p \o q)
    PROVE  /\ Ascending(p \o Tail(q))
           /\ Has(p \o q) = Has(p \o Tail(q)) \cup {Head(q)}
           /\ Head(q) \notin Has(p \o Tail(q))
  <1> SUFFICES ASSUME NEW old, old = p \o q, NEW new, new = p \o Tail(q)
               PROVE  Ascending(new) /\ Has(old) = Has(new) \cup {Head(q)} /\ Head(q) \notin Has(new)
    OBVIOUS
  <1>0. \A i, j \in DOMAIN old : i < j => old[i] < old[j] BY DEF Ascending
  <1>1. /\ Tail(q) \in Seq(Nat) /\ Len(Tail(q)) = Len(q) - 1 /\ Len(p) \in Nat /\ Len(q) \in Nat \ {0}
        /\ \A i \in 1 .. Len(q) - 1 : Tail(q)[i] = q[i + 1]
        /\ Head(q) = q[1]
    OBVIOUS
  <1>2. /\ new \in Seq(Nat) /\ DOMAIN new = 1 .. Len(p) + Len(q) - 1
        /\ old \in Seq(Nat) /\ DOMAIN old = 1 .. Len(p) + Len(q)
    BY <1>1
  <1>3. /\ \A i \in DOMAIN old : old[i] \in Nat
        /\ \A i \in DOMAIN new : i \in Nat /\ (i <= Len(p) \/ i > Len(p))
    BY <1>1, <1>2
  <1>4. ASSUME NEW i \in DOMAIN new, i <= Len(p)
        PROVE  i \in DOMAIN old /\ new[i] = old[i]
    BY <1>1, <1>2, <1>4
  <1>5. ASSUME NEW i \in DOMAIN new, i > Len(p)
        PROVE  i + 1 \in DOMAIN old /\ new[i] = old[i + 1]
    <2>1. new[i] = Tail(q)[i - Len(p)] BY <1>1, <1>2, <1>5
    <2>2. i - Len(p) \in 1 .. Len(q) - 1 BY <1>1, <1>2, <1>5
    <2>3. i + 1 \in DOMAIN old /\ old[i + 1] = q[(i - Len(p)) + 1] BY <1>1, <1>2, <1>5
    <2> QED BY <1>1, <2>1, <2>2, <2>3
  <1>6. Len(p) + 1 \in DOMAIN old /\ old[Len(p) + 1] = Head(q) BY <1>1, <1>2
  <1>7. ASSUME NEW i \in DOMAIN new, NEW j \in DOMAIN new, i < j PROVE new[i] < new[j]
    <2>1. CASE j <= Len(p) BY <1>1, <1>2, <1>0, <1>4, <1>7, <2>1
    <2>2. CASE i <= Len(p) /\ j > Len(p)
      <3>1. i < j + 1 /\ i \in DOMAIN old /\ j + 1 \in DOMAIN old BY <1>1, <1>2, <1>7, <2>2
      <3> QED BY <1>0, <1>4, <1>5, <2>2, <3>1
    <2>3. CASE i > Len(p) /\ j > Len(p)
      <3>1. i + 1 < j + 1 /\ i + 1 \in DOMAIN old /\ j + 1 \in DOMAIN old BY <1>1, <1>2, <1>7, <2>3
      <3> QED BY <1>0, <1>5, <2>3, <3>1
    <2>4. j > Len(p) \/ j <= Len(p) BY <1>3
    <2>5. i > Len(p) \/ i <= Len(p) BY <1>3
    <2> QED BY <2>1, <2>2, <2>3, <2>4, <2>5
  <1>8. ASSUME NEW i \in DOMAIN new PROVE new[i] # Head(q)
    <2>1. CASE i <= Len(p)
      <3>1. i < Len(p) + 1 BY <1>1, <1>2, <2>1
      <3>2. old[i] < old[Len(p) + 1] BY <1>0, <1>4, <1>6, <2>1, <3>1
      <3> QED BY <1>3, <1>4, <1>6, <2>1, <3>2
    <2>2. CASE i > Len(p)
      <3>1. Len(p) + 1 < i + 1 BY <1>1, <1>2, <2>2
      <3>2. old[Len(p) + 1] < old[i + 1] BY <1>0, <1>5, <1>6, <2>2, <3>1
      <3> QED BY <1>3, <1>5, <1>6, <2>2, <3>2
    <2> QED BY <1>1, <1>2, <2>1, <2>2
  <1>9. ASSUME NEW i \in DOMAIN new PROVE \E j \in DOMAIN old : old[j] = new[i]
    <2>1. CASE i <= Len(p) BY <1>4, <2>1
    <2>2. CASE i > Len(p) BY <1>5, <2>2
    <2> QED BY <1>3, <2>1, <2>2
  <1>10. ASSUME NEW i \in DOMAIN old, old[i] # Head(q) PROVE \E j \in DOMAIN new : new[j] = old[i]
    <2>1. i # Len(p) + 1 BY <1>6, <1>10
    <2>2. CASE i <= Len(p)
      <3>1. i \in DOMAIN new BY <1>1, <1>2, <2>2
      <3> QED BY <1>4, <2>2, <3>1
    <2>3. CASE i > Len(p)
      <3>1. i - 1 \in DOMAIN new /\ i - 1 > Len(p) /\ (i - 1) + 1 = i BY <1>1, <1>2, <2>1, <2>3
      <3> QED BY <1>5, <3>1
    <2>4. i <= Len(p) \/ i > Len(p) BY <1>1, <1>2
    <2> QED BY <2>2, <2>3, <2>4
  <1>11. Ascending(new) BY <1>7 DEF Ascending
  <1>12. Head(q) \notin Has(new) BY <1>8 DEF Has
  <1>13. ASSUME NEW b \in Has(old) PROVE b \in Has(new) \cup {Head(q)} BY <1>10 DEF Has
  <1>14. ASSUME NEW b \in Has(new) PROVE b \in Has(old) BY <1>9 DEF Has
  <1>15. Head(q) \in Has(old) BY <1>6 DEF Has
  <1> QED BY <1>11, <1>12, <1>13, <1>14, <1>15

\* At first nothing has come.
LEMMA RxInit == CanInit => RInv
  BY DEF CanInit, RInv, RxTypes, ReceivedInOrder

\* A message comes in.
LEMMA ArriveKeeps ==
    ASSUME RInv, Arrive
    PROVE  RInv'
  <1> DEFINE a == arrived + 1
             lost == droppedRxMsgs \cup overruns
  <1>1. /\ RxTypes /\ a \in Nat /\ Coming \in Seq(Nat)
        /\ UNCHANGED <<received, rxQ, droppedRxMsgs>> /\ arrived' = arrived + 1
    BY DEF RInv, RxTypes, Coming, Arrive
  <1>2. /\ \A i, j \in DOMAIN Coming : i < j => Coming[i] < Coming[j]
        /\ 1 .. arrived = lost \cup {Coming[i] : i \in DOMAIN Coming}
        /\ \A i \in DOMAIN Coming : Coming[i] \notin lost
    BY DEF RInv, ReceivedInOrder, Coming
  <1>3. 1 .. a = (1 .. arrived) \cup {a} /\ a \notin 1 .. arrived BY <1>1 DEF RxTypes
  <1>4. CASE Len(hwRx) < HwRxLength
    <2>1. hwRx' = Append(hwRx, a) /\ overruns' = overruns BY <1>4 DEF Arrive
    <2>2. Coming' = Append(Coming, a)
      BY <1>1, <2>1 DEF Coming, RxTypes
    <2>3. /\ DOMAIN Coming = 1 .. Len(Coming) /\ Len(Coming) \in Nat
          /\ DOMAIN Append(Coming, a) = 1 .. Len(Coming) + 1
          /\ \A i \in DOMAIN Coming : Append(Coming, a)[i] = Coming[i]
          /\ Append(Coming, a)[Len(Coming) + 1] = a
      BY <1>1
    <2>4. \A i \in DOMAIN Coming : Coming[i] \in 1 .. arrived BY <1>2
    <2>5. ASSUME NEW i \in DOMAIN Append(Coming, a), NEW j \in DOMAIN Append(Coming, a), i < j
          PROVE  Append(Coming, a)[i] < Append(Coming, a)[j]
      <3>1. i \in DOMAIN Coming BY <2>3, <2>5
      <3>2. CASE j \in DOMAIN Coming BY <1>2, <2>3, <2>5, <3>1, <3>2
      <3>3. CASE j = Len(Coming) + 1 BY <1>1, <2>3, <2>4, <3>1, <3>3 DEF RxTypes
      <3> QED BY <2>3, <3>2, <3>3
    <2>6. {Append(Coming, a)[i] : i \in DOMAIN Append(Coming, a)}
             = {Coming[i] : i \in DOMAIN Coming} \cup {a}
      <3>1. \A i \in DOMAIN Append(Coming, a) : i \in DOMAIN Coming \/ i = Len(Coming) + 1 BY <2>3
      <3>2. Len(Coming) + 1 \in DOMAIN Append(Coming, a) /\ DOMAIN Coming \subseteq DOMAIN Append(Coming, a)
        BY <2>3
      <3> QED BY <2>3, <3>1, <3>2
    <2>7. \A i \in DOMAIN Append(Coming, a) : Append(Coming, a)[i] \notin lost
      <3>1. \A i \in DOMAIN Append(Coming, a) : i \in DOMAIN Coming \/ i = Len(Coming) + 1 BY <2>3
      <3>2. a \notin lost BY <1>2, <1>3
      <3> QED BY <1>2, <2>3, <3>1, <3>2
    <2>8. RxTypes' BY <1>1, <2>1 DEF RxTypes
    <2>9. 1 .. a = lost \cup {Append(Coming, a)[i] : i \in DOMAIN Append(Coming, a)}
      BY <1>2, <1>3, <2>6
    <2>10. ReceivedInOrder'
      BY <1>1, <2>1, <2>2, <2>5, <2>7, <2>9 DEF ReceivedInOrder, Coming
    <2> QED BY <2>8, <2>10 DEF RInv
  <1>5. CASE ~ (Len(hwRx) < HwRxLength)
    <2>1. hwRx' = hwRx /\ overruns' = overruns \cup {a} BY <1>5 DEF Arrive
    <2>2. Coming' = Coming BY <1>1, <2>1 DEF Coming
    <2>3. RxTypes' BY <1>1, <2>1 DEF RxTypes
    <2>4. \A i \in DOMAIN Coming : Coming[i] # a BY <1>2, <1>3
    <2>5. ReceivedInOrder'
      BY <1>1, <1>2, <1>3, <2>1, <2>2, <2>4 DEF ReceivedInOrder, Coming
    <2> QED BY <2>3, <2>5 DEF RInv
  <1> QED BY <1>4, <1>5

\* A message goes from one queue to the next.
LEMMA MoveKeeps ==
    ASSUME RInv, RxTypes', Coming' = Coming, UNCHANGED <<arrived, overruns, droppedRxMsgs>>
    PROVE  RInv'
  BY DEF RInv, ReceivedInOrder, Coming

\* The interrupt finds no room for a message.
LEMMA DropKeeps ==
    ASSUME RInv, hwRx # << >>, hwRx' = Tail(hwRx), UNCHANGED <<received, rxQ, arrived, overruns>>,
           droppedRxMsgs' = droppedRxMsgs \cup {Head(hwRx)}
    PROVE  RInv'
  <1> DEFINE lost == droppedRxMsgs \cup overruns
             h == Head(hwRx)
  <1>1. RxTypes /\ RxTypes' /\ received \o rxQ \in Seq(Nat) /\ hwRx \in Seq(Nat)
    BY DEF RInv, RxTypes
  <1>2. Ascending(Coming) /\ 1 .. arrived = lost \cup Has(Coming) /\ \A b \in Has(Coming) : b \notin lost
    BY DEF RInv, ReceivedInOrder, Coming, Ascending, Has
  <1>3. PICK p \in Seq(Nat), q \in Seq(Nat) : p = received \o rxQ /\ q = hwRx BY <1>1
  <1>4. Coming = p \o q /\ q # << >> /\ h = Head(q) BY <1>3 DEF Coming
  <1>5. PICK new : new = p \o Tail(q) OBVIOUS
  <1>6. Coming' = new BY <1>3, <1>5 DEF Coming
  <1>7. Ascending(new) /\ Has(p \o q) = Has(new) \cup {h} /\ h \notin Has(new)
    <2>1. Ascending(p \o q) BY <1>2, <1>4
    <2>2. /\ Ascending(p \o Tail(q))
          /\ Has(p \o q) = Has(p \o Tail(q)) \cup {Head(q)}
          /\ Head(q) \notin Has(p \o Tail(q))
      BY <1>3, <1>4, <2>1, HeadDrops
    <2> QED BY <1>4, <1>5, <2>2
  <1>8. /\ 1 .. arrived = (lost \cup {h}) \cup Has(new)
        /\ \A b \in Has(new) : b \notin lost \cup {h}
    BY <1>2, <1>4, <1>7
  <1>9. /\ \A i, j \in DOMAIN new : i < j => new[i] < new[j]
        /\ 1 .. arrived = (lost \cup {h}) \cup {new[i] : i \in DOMAIN new}
        /\ \A i \in DOMAIN new : new[i] \notin lost \cup {h}
    BY <1>7, <1>8 DEF Ascending, Has
  <1>10. /\ \A i, j \in DOMAIN Coming' : i < j => Coming'[i] < Coming'[j]
         /\ 1 .. arrived' = (droppedRxMsgs' \cup overruns') \cup {Coming'[i] : i \in DOMAIN Coming'}
         /\ \A i \in DOMAIN Coming' : Coming'[i] \notin droppedRxMsgs' \cup overruns'
    BY <1>6, <1>9
  <1>11. ReceivedInOrder' BY <1>10 DEF ReceivedInOrder, Coming
  <1> QED BY <1>1, <1>11 DEF RInv

\* Every step keeps the order and the account of what was received.
LEMMA RxStep == RInv /\ [CanNext]_canVars => RInv'
  <1> SUFFICES ASSUME RInv, [CanNext]_canVars PROVE RInv' OBVIOUS
  <1>1. RxTypes BY DEF RInv
  <1>2. ASSUME UNCHANGED rx PROVE RInv'
    BY <1>2 DEF RInv, RxTypes, ReceivedInOrder, rx
  <1>3. CASE Arrive BY <1>3, ArriveKeeps
  <1>4. CASE Receive
    <2>1. /\ rxQ # << >> /\ received' = Append(received, Head(rxQ)) /\ rxQ' = Tail(rxQ)
          /\ UNCHANGED <<hwRx, arrived, overruns, droppedRxMsgs>>
      BY <1>4 DEF Receive
    <2>2. RxTypes' BY <1>1, <2>1 DEF RxTypes
    <2>3. Coming' = Coming BY <1>1, <2>1, HeadMovesUp DEF Coming, RxTypes
    <2> QED BY <2>1, <2>2, <2>3, MoveKeeps
  <1>5. CASE ReceiveFromHw /\ hwRx = << >>
    BY <1>2, <1>5 DEF ReceiveFromHw, rx
  <1>6. CASE ReceiveFromHw /\ hwRx # << >> /\ Len(rxQ) < RxLength
    <2>1. /\ hwRx' = Tail(hwRx) /\ rxQ' = Append(rxQ, Head(hwRx))
          /\ UNCHANGED <<received, arrived, overruns, droppedRxMsgs>>
      BY <1>6 DEF ReceiveFromHw
    <2>2. RxTypes' BY <1>1, <1>6, <2>1 DEF RxTypes
    <2>3. received \o Append(rxQ, Head(hwRx)) = Append(received \o rxQ, Head(hwRx))
      BY <1>1, <1>6 DEF RxTypes
    <2>4. Append(received \o rxQ, Head(hwRx)) \o Tail(hwRx) = (received \o rxQ) \o hwRx
      <3>1. received \o rxQ \in Seq(Nat) BY <1>1 DEF RxTypes
      <3> QED BY <1>1, <1>6, <3>1, HeadMovesUp DEF RxTypes
    <2>5. Coming' = Coming BY <2>1, <2>3, <2>4 DEF Coming
    <2> QED BY <2>1, <2>2, <2>5, MoveKeeps
  <1>7. CASE ReceiveFromHw /\ hwRx # << >> /\ ~ (Len(rxQ) < RxLength)
    BY <1>7, DropKeeps DEF ReceiveFromHw
  <1>8. CASE EnterISR \/ SendNext \/ Sent BY <1>2, <1>8 DEF EnterISR, SendNext, Sent
  <1>9. ASSUME NEW t \in Tasks, Call(t) \/ CanTx(t) PROVE RInv'
    BY <1>2, <1>9 DEF Call, CanTx, TryNow, Enqueue, TimeOut, Check
  <1>10. CASE UNCHANGED canVars BY <1>2, <1>10 DEF canVars
  <1> QED BY <1>3, <1>4, <1>5, <1>6, <1>7, <1>8, <1>9, <1>10 DEF CanNext, Handler

\* Whatever bursts the receive queue cannot take, the messages come in order and
\* those that are missing were counted.
THEOREM ReceptionAccountsForAll == CanSpec => []ReceivedInOrder
  <1>1. RInv => ReceivedInOrder BY DEF RInv
  <1> QED BY <1>1, RxInit, RxStep, PTL DEF CanSpec

-----------------------------------------------------------------------------
(* The producer and the consumer.                                          *)

USE PCAssumption, LagAssumption DEF Handle, PCAssumption, LagAssumption

\* A queue in use holds at most one sample, so taking its head empties it (the queues
\* of test_task.cpp:23 are written once, by the send of line 49).
LEMMA OneSample ==
    ASSUME IInv, NEW h \in Handle, queue[h] # <<>>
    PROVE  /\ Head(queue[h]) \in Sample
           /\ Head(queue[h]).nr = h
           /\ Tail(queue[h]) = <<>>
           /\ h <= qh
<1>1. PICK o \in Orientation : queue[h] = <<[nr |-> h, ot |-> o]>>
  BY DEF IInv, QueuesCarryOneSample
<1>2. [nr |-> h, ot |-> o] \in Sample /\ [nr |-> h, ot |-> o].nr = h
  BY DEF Sample
<1>3. \A x : Head(<<x>>) = x /\ Tail(<<x>>) = <<>>
  OBVIOUS
<1>4. h <= qh
  BY DEF IInv, QueuesCarryOneSample
<1>5. QED BY <1>1, <1>2, <1>3, <1>4

\* The number of the sample received last is a number, 0 when there is none.
LEMMA GotNumber == Nothing.nr = 0 /\ (TypeOK => got.nr \in Nat)
BY DEF TypeOK, Sample, Nothing

\* The invariant holds when the board boots.
LEMMA InitInvariant == Init => IInv
<1> SUFFICES ASSUME Init PROVE IInv
  OBVIOUS
<1> USE DEF Init
<1>1. TypeOK
  <2>1. <<>> \in Seq(Sample) /\ Handle \subseteq Nat OBVIOUS
  <2>2. Nothing \in Sample \cup {Nothing} OBVIOUS
  <2>3. 0 \in 0..HeapQueues /\ 0 \in 0..Delay /\ 0 \in 0..MaxLag OBVIOUS
  <2>4. QED BY <2>1, <2>2, <2>3 DEF TypeOK
<1>2. got.nr = 0
  BY GotNumber
<1>3. QED
  BY <1>1, <1>2 DEF IInv, QueuesCarryOneSample, ConsumerHandles, ConsumerSleepsOut, NeverStranded

\* Each step of the two tasks, of the clock and of the reboot keeps the invariant.
LEMMA StepInvariant == IInv /\ [Next]_vars => IInv'
<1> SUFFICES ASSUME IInv, [Next]_vars PROVE IInv'
  OBVIOUS
<1>t. TypeOK /\ got.nr \in Nat
  BY GotNumber DEF IInv
<1>q. QueuesCarryOneSample
  BY DEF IInv
<1>h. ConsumerHandles
  BY DEF IInv
<1>s. ConsumerSleepsOut
  BY DEF IInv
<1>n. NeverStranded
  BY DEF IInv
<1>e. /\ <<>> \in Seq(Sample)
      /\ 0 \in 0..HeapQueues /\ 0 \in 0..Delay /\ 0 \in 0..MaxLag
      /\ Nothing \in Sample \cup {Nothing}
  OBVIOUS
<1>1. CASE CreateQueue
  <2>1. TypeOK'
    BY <1>1, <1>t, <1>e, <1>q
       DEF CreateQueue, TypeOK, QueuesCarryOneSample
  <2>2. QueuesCarryOneSample'
    <3>1. ASSUME NEW h \in Handle
          PROVE  queue'[h] = <<>> \/ (h <= qh' /\ \E o \in Orientation : queue'[h] = <<[nr |-> h, ot |-> o]>>)
      BY <1>1, <1>t, <1>q DEF CreateQueue, TypeOK, QueuesCarryOneSample
    <3>2. turn' = qh'
      BY <1>1, <1>q DEF CreateQueue, QueuesCarryOneSample
    <3>3. pc1' \in {"sample", "send"} => qh' > 0 /\ queue'[qh'] = <<>> /\ got'.nr < qh'
      BY <1>1, <1>t, <1>q, <1>h DEF CreateQueue, TypeOK, QueuesCarryOneSample, ConsumerHandles
    <3>4. QED BY <3>1, <3>2, <3>3 DEF QueuesCarryOneSample
  <2>3. ConsumerHandles'
    BY <1>1, <1>t, <1>q, <1>h
       DEF CreateQueue, TypeOK, QueuesCarryOneSample, ConsumerHandles
  <2>4. ConsumerSleepsOut'
    BY <1>1, <1>t, <1>q, <1>h, <1>s, <1>n
       DEF CreateQueue, TypeOK, ConsumerHandles, QueuesCarryOneSample, NeverStranded, ConsumerSleepsOut
  <2>5. NeverStranded'
    BY <1>1, <1>t, <1>q, <1>h, <1>s, <1>n
       DEF CreateQueue, TypeOK, ConsumerHandles, QueuesCarryOneSample, ConsumerSleepsOut, NeverStranded
  <2>6. QED BY <2>1, <2>2, <2>3, <2>4, <2>5 DEF IInv
<1>2. CASE CreateFails
  <2>1. TypeOK'
    BY <1>2, <1>t, <1>e
       DEF CreateFails, TypeOK
  <2>2. QueuesCarryOneSample'
    BY <1>2, <1>t, <1>q, <1>h
       DEF CreateFails, TypeOK, ConsumerHandles, QueuesCarryOneSample
  <2>3. ConsumerHandles'
    BY <1>2, <1>t, <1>q, <1>h
       DEF CreateFails, TypeOK, QueuesCarryOneSample, ConsumerHandles
  <2>4. ConsumerSleepsOut'
    BY <1>2, <1>t, <1>q, <1>h, <1>s, <1>n
       DEF CreateFails, TypeOK, ConsumerHandles, QueuesCarryOneSample, NeverStranded, ConsumerSleepsOut
  <2>5. NeverStranded'
    BY <1>2, <1>t, <1>q, <1>h, <1>s, <1>n
       DEF CreateFails, TypeOK, ConsumerHandles, QueuesCarryOneSample, ConsumerSleepsOut, NeverStranded
  <2>6. QED BY <2>1, <2>2, <2>3, <2>4, <2>5 DEF IInv
<1>3. CASE Reboot
  <2>1. got'.nr = 0
    BY <1>3, GotNumber DEF Reboot
  <2>2. TypeOK'
    BY <1>3, <2>1, <1>t, <1>e
       DEF Reboot, TypeOK
  <2>3. QueuesCarryOneSample'
    BY <1>3, <2>1, <1>t, <1>q, <1>h
       DEF Reboot, TypeOK, ConsumerHandles, QueuesCarryOneSample
  <2>4. ConsumerHandles'
    BY <1>3, <2>1, <1>t, <1>q, <1>h
       DEF Reboot, TypeOK, QueuesCarryOneSample, ConsumerHandles
  <2>5. ConsumerSleepsOut'
    BY <1>3, <2>1, <1>t, <1>q, <1>h, <1>s, <1>n
       DEF Reboot, TypeOK, ConsumerHandles, QueuesCarryOneSample, NeverStranded, ConsumerSleepsOut
  <2>6. NeverStranded'
    BY <1>3, <2>1, <1>t, <1>q, <1>h, <1>s, <1>n
       DEF Reboot, TypeOK, ConsumerHandles, QueuesCarryOneSample, ConsumerSleepsOut, NeverStranded
  <2>7. QED BY <2>2, <2>3, <2>4, <2>5, <2>6 DEF IInv
<1>4. CASE ReadAndSleep
  <2>1. TypeOK'
    BY <1>4, <1>t, <1>e
       DEF ReadAndSleep, TypeOK
  <2>2. QueuesCarryOneSample'
    BY <1>4, <1>t, <1>q, <1>h
       DEF ReadAndSleep, TypeOK, ConsumerHandles, QueuesCarryOneSample
  <2>3. ConsumerHandles'
    BY <1>4, <1>t, <1>q, <1>h
       DEF ReadAndSleep, TypeOK, QueuesCarryOneSample, ConsumerHandles
  <2>4. ConsumerSleepsOut'
    BY <1>4, <1>t, <1>q, <1>h, <1>s, <1>n
       DEF ReadAndSleep, TypeOK, ConsumerHandles, QueuesCarryOneSample, NeverStranded, ConsumerSleepsOut
  <2>5. NeverStranded'
    BY <1>4, <1>t, <1>q, <1>h, <1>s, <1>n
       DEF ReadAndSleep, TypeOK, ConsumerHandles, QueuesCarryOneSample, ConsumerSleepsOut, NeverStranded
  <2>6. QED BY <2>1, <2>2, <2>3, <2>4, <2>5 DEF IInv
<1>5. CASE SendSample
  <2> DEFINE s == [nr |-> turn, ot |-> reading]
  <2>1. s \in Sample /\ s = [nr |-> qh, ot |-> reading] /\ reading \in Orientation
    BY <1>t, <1>q DEF Sample, TypeOK, QueuesCarryOneSample
  <2>2. qh \in Handle /\ <<s>> \in Seq(Sample)
    BY <1>5, <1>t, <1>q, <2>1 DEF SendSample, TypeOK, QueuesCarryOneSample
  <2>3. queue' = [queue EXCEPT ![qh] = <<s>>] /\ <<s>> # <<>>
    BY <1>5, <1>t, <1>q, <2>2 DEF SendSample, TypeOK, QueuesCarryOneSample
  <2> HIDE DEF s
  <2>u. /\ pc1 = "send" /\ sleep[1] = 0 /\ pc1' = "create"
        /\ UNCHANGED <<turn, qh, reading, pc2, rq, got, led, sleep, lag>>
    BY <1>5 DEF SendSample
  <2>4. TypeOK'
    BY <2>1, <2>2, <2>3, <2>u, <1>t, <1>e
       DEF TypeOK
  <2>5. QueuesCarryOneSample'
    <3>1. ASSUME NEW h \in Handle
          PROVE  queue'[h] = <<>> \/ (h <= qh' /\ \E o \in Orientation : queue'[h] = <<[nr |-> h, ot |-> o]>>)
      <4>1. CASE h = qh
        BY <4>1, <2>1, <2>2, <2>3, <2>u, <1>t DEF TypeOK
      <4>2. CASE h # qh
        BY <4>2, <2>3, <2>u, <1>t, <1>q DEF TypeOK, QueuesCarryOneSample
      <4>3. QED BY <4>1, <4>2
    <3>2. turn' = qh'
      BY <2>u, <1>q DEF QueuesCarryOneSample
    <3>3. pc1' \in {"sample", "send"} => qh' > 0 /\ queue'[qh'] = <<>> /\ got'.nr < qh'
      BY <2>1, <2>2, <2>3, <2>u, <1>t, <1>q, <1>h DEF TypeOK, QueuesCarryOneSample, ConsumerHandles
    <3>4. QED BY <3>1, <3>2, <3>3 DEF QueuesCarryOneSample
  <2>6. ConsumerHandles'
    BY <2>1, <2>2, <2>3, <2>u, <1>t, <1>q, <1>h
       DEF TypeOK, QueuesCarryOneSample, ConsumerHandles
  <2>7. ConsumerSleepsOut'
    BY <2>2, <2>3, <2>u, <1>t, <1>q, <1>h, <1>s, <1>n
       DEF TypeOK, ConsumerHandles, QueuesCarryOneSample, NeverStranded, ConsumerSleepsOut
  <2>8. NeverStranded'
    BY <2>1, <2>2, <2>3, <2>u, <1>t, <1>q, <1>h, <1>s, <1>n
       DEF TypeOK, ConsumerHandles, QueuesCarryOneSample, ConsumerSleepsOut, NeverStranded
  <2>9. QED BY <2>4, <2>5, <2>6, <2>7, <2>8 DEF IInv
<1>6. CASE TestHandle
  <2>1. TypeOK'
    BY <1>6, <1>t, <1>e
       DEF TestHandle, TypeOK
  <2>2. QueuesCarryOneSample'
    BY <1>6, <1>t, <1>q, <1>h
       DEF TestHandle, TypeOK, ConsumerHandles, QueuesCarryOneSample
  <2>3. ConsumerHandles'
    BY <1>6, <1>t, <1>q, <1>h
       DEF TestHandle, TypeOK, QueuesCarryOneSample, ConsumerHandles
  <2>4. ConsumerSleepsOut'
    BY <1>6, <1>t, <1>q, <1>h, <1>s, <1>n
       DEF TestHandle, TypeOK, ConsumerHandles, QueuesCarryOneSample, NeverStranded, ConsumerSleepsOut
  <2>5. NeverStranded'
    BY <1>6, <1>t, <1>q, <1>h, <1>s, <1>n
       DEF TestHandle, TypeOK, ConsumerHandles, QueuesCarryOneSample, ConsumerSleepsOut, NeverStranded
  <2>6. QED BY <2>1, <2>2, <2>3, <2>4, <2>5 DEF IInv
<1>7. CASE LoadHandle
  <2>1. TypeOK'
    BY <1>7, <1>t, <1>e
       DEF LoadHandle, TypeOK
  <2>2. QueuesCarryOneSample'
    BY <1>7, <1>t, <1>q, <1>h
       DEF LoadHandle, TypeOK, ConsumerHandles, QueuesCarryOneSample
  <2>3. ConsumerHandles'
    BY <1>7, <1>t, <1>q, <1>h
       DEF LoadHandle, TypeOK, QueuesCarryOneSample, ConsumerHandles
  <2>4. ConsumerSleepsOut'
    BY <1>7, <1>t, <1>q, <1>h, <1>s, <1>n
       DEF LoadHandle, TypeOK, ConsumerHandles, QueuesCarryOneSample, NeverStranded, ConsumerSleepsOut
  <2>5. NeverStranded'
    BY <1>7, <1>t, <1>q, <1>h, <1>s, <1>n
       DEF LoadHandle, TypeOK, ConsumerHandles, QueuesCarryOneSample, ConsumerSleepsOut, NeverStranded
  <2>6. QED BY <2>1, <2>2, <2>3, <2>4, <2>5 DEF IInv
<1>8. CASE ReceiveSample
  <2>1. rq \in Handle /\ rq <= qh
    BY <1>8, <1>t, <1>h DEF ReceiveSample, TypeOK, ConsumerHandles
  <2>2. got' \in Sample /\ got'.nr = rq /\ queue' = [queue EXCEPT ![rq] = <<>>]
    BY <1>8, <2>1, OneSample DEF ReceiveSample
  <2>3. TypeOK'
    BY <1>8, <2>1, <2>2, <1>t, <1>e
       DEF ReceiveSample, TypeOK
  <2>4. QueuesCarryOneSample'
    <3>1. ASSUME NEW h \in Handle
          PROVE  queue'[h] = <<>> \/ (h <= qh' /\ \E o \in Orientation : queue'[h] = <<[nr |-> h, ot |-> o]>>)
      BY <1>8, <2>1, <2>2, <1>t, <1>q DEF ReceiveSample, TypeOK, QueuesCarryOneSample
    <3>2. turn' = qh'
      BY <1>8, <1>q DEF ReceiveSample, QueuesCarryOneSample
    <3>3. pc1' \in {"sample", "send"} => qh' > 0 /\ queue'[qh'] = <<>> /\ got'.nr < qh'
      BY <1>8, <2>1, <2>2, <1>t, <1>q, <1>h DEF ReceiveSample, TypeOK, QueuesCarryOneSample, ConsumerHandles
    <3>4. QED BY <3>1, <3>2, <3>3 DEF QueuesCarryOneSample
  <2>5. ConsumerHandles'
    BY <1>8, <2>1, <2>2, <1>t, <1>q, <1>h
       DEF ReceiveSample, TypeOK, QueuesCarryOneSample, ConsumerHandles
  <2>6. ConsumerSleepsOut'
    BY <1>8, <2>1, <2>2, <1>t, <1>q, <1>h, <1>s, <1>n
       DEF ReceiveSample, TypeOK, ConsumerHandles, QueuesCarryOneSample, NeverStranded, ConsumerSleepsOut
  <2>7. NeverStranded'
    BY <1>8, <2>1, <2>2, <1>t, <1>q, <1>h, <1>s, <1>n
       DEF ReceiveSample, TypeOK, ConsumerHandles, QueuesCarryOneSample, ConsumerSleepsOut, NeverStranded
  <2>8. QED BY <2>3, <2>4, <2>5, <2>6, <2>7 DEF IInv
<1>9. CASE ShowAndSleep
  <2>1. TypeOK'
    BY <1>9, <1>t, <1>e
       DEF ShowAndSleep, TypeOK
  <2>2. QueuesCarryOneSample'
    BY <1>9, <1>t, <1>q, <1>h
       DEF ShowAndSleep, TypeOK, ConsumerHandles, QueuesCarryOneSample
  <2>3. ConsumerHandles'
    BY <1>9, <1>t, <1>q, <1>h
       DEF ShowAndSleep, TypeOK, QueuesCarryOneSample, ConsumerHandles
  <2>4. ConsumerSleepsOut'
    BY <1>9, <1>t, <1>q, <1>h, <1>s, <1>n
       DEF ShowAndSleep, TypeOK, ConsumerHandles, QueuesCarryOneSample, NeverStranded, ConsumerSleepsOut
  <2>5. NeverStranded'
    BY <1>9, <1>t, <1>q, <1>h, <1>s, <1>n
       DEF ShowAndSleep, TypeOK, ConsumerHandles, QueuesCarryOneSample, ConsumerSleepsOut, NeverStranded
  <2>6. QED BY <2>1, <2>2, <2>3, <2>4, <2>5 DEF IInv
<1>10. CASE Tick
  <2>1. TypeOK'
    <3>1. sleep' \in [1..2 -> 0..Delay]
      <4>1. \A t \in 1..2 : sleep[t] \in 0..Delay BY <1>t DEF TypeOK
      <4>2. \A t \in 1..2 : (IF sleep[t] > 0 THEN sleep[t] - 1 ELSE 0) \in 0..Delay BY <4>1
      <4>3. QED BY <1>10, <4>2 DEF Tick
    <3>2. lag' \in [1..2 -> 0..MaxLag]
      <4>1. \A t \in 1..2 : lag[t] \in 0..MaxLag /\ (Ready(t) => lag[t] < MaxLag)
        BY <1>10, <1>t DEF TypeOK, Tick
      <4>2. \A t \in 1..2 : (IF Ready(t) THEN lag[t] + 1 ELSE lag[t]) \in 0..MaxLag BY <4>1
      <4>3. QED BY <1>10, <4>2 DEF Tick
    <3>3. QED BY <1>10, <1>t, <3>1, <3>2 DEF Tick, TypeOK
  <2>2. QueuesCarryOneSample'
    BY <1>10, <1>t, <1>q, <1>h
       DEF Tick, Ready, TypeOK, ConsumerHandles, QueuesCarryOneSample
  <2>3. ConsumerHandles'
    BY <1>10, <1>t, <1>q, <1>h
       DEF Tick, Ready, TypeOK, QueuesCarryOneSample, ConsumerHandles
  <2>4. ConsumerSleepsOut'
    BY <1>10, <1>t, <1>q, <1>h, <1>s, <1>n
       DEF Tick, Ready, TypeOK, ConsumerHandles, QueuesCarryOneSample, NeverStranded, ConsumerSleepsOut
  <2>5. NeverStranded'
    BY <1>10, <1>t, <1>q, <1>h, <1>s, <1>n
       DEF Tick, Ready, TypeOK, ConsumerHandles, QueuesCarryOneSample, ConsumerSleepsOut, NeverStranded
  <2>6. QED BY <2>1, <2>2, <2>3, <2>4, <2>5 DEF IInv
<1>11. CASE UNCHANGED vars
  BY <1>11 DEF vars, IInv, TypeOK, QueuesCarryOneSample, ConsumerHandles, ConsumerSleepsOut, NeverStranded
<1>12. QED
  BY <1>1, <1>2, <1>3, <1>4, <1>5, <1>6, <1>7, <1>8, <1>9, <1>10, <1>11
     DEF Next, Task1, Task2

\* The strengthened invariant holds in every reachable state.
THEOREM Invariance == Spec => []IInv
BY InitInvariant, StepInvariant, PTL DEF Spec

\* For any heap, delay and orientations the consumer of test_task.cpp:61 never waits on an
\* abandoned queue, as long as a ready task is delayed by less than one vTaskDelay.
THEOREM ConsumerNotStranded == Spec => []NeverStranded
<1>1. IInv => NeverStranded BY DEF IInv
<1>2. QED BY <1>1, Invariance, PTL

\* For any heap, delay and orientations the send of test_task.cpp:49 finds its queue empty.
THEOREM SendFindsRoom == Spec => []SendNeverBlocks
<1>1. IInv => SendNeverBlocks BY DEF IInv, QueuesCarryOneSample, SendNeverBlocks
<1>2. QED BY <1>1, Invariance, PTL

\* For any constants the consumer receives samples in the order they were taken and
\* none of them twice.
THEOREM SamplesInOrder == Spec => NoReplay
<1>1. IInv /\ [Next]_vars => [got' # got => got'.nr > got.nr \/ turn' = 0]_vars
  <2> SUFFICES ASSUME IInv, Next, got' # got
               PROVE  got'.nr > got.nr \/ turn' = 0
    BY DEF vars
  <2>1. CASE ReceiveSample
    <3>1. rq \in Handle
      BY <2>1 DEF ReceiveSample, IInv, TypeOK, ConsumerHandles
    <3>2. got'.nr = rq /\ queue[rq] # <<>>
      BY <2>1, <3>1, OneSample DEF ReceiveSample
    <3>3. QED BY <3>1, <3>2 DEF IInv, TypeOK, ConsumerHandles, Sample, Nothing
  <2>2. CASE Reboot
    BY <2>2 DEF Reboot
  <2>3. QED
    BY <2>1, <2>2 DEF Next, Task1, Task2, CreateQueue, CreateFails, ReadAndSleep, SendSample,
       TestHandle, LoadHandle, ShowAndSleep, Tick
<1>2. QED BY <1>1, Invariance, PTL DEF Spec, NoReplay

\* The numbers of a state: handles, delays and lags.
LEMMA Numbers ==
    ASSUME IInv
    PROVE  /\ qh \in Nat /\ rq \in Nat /\ got.nr \in Nat /\ rq <= qh
           /\ sleep[1] \in 0..Delay /\ sleep[2] \in 0..Delay
           /\ lag[1] \in 0..MaxLag /\ lag[2] \in 0..MaxLag
BY GotNumber DEF IInv, TypeOK, ConsumerHandles

\* The two times, by where the tasks are.
LEMMA Times ==
    ASSUME IInv, ConsumerKeepsUp
    PROVE  /\ ToCreate \in 0..Delay /\ ToLoad \in Nat
           /\ pc1 = "sample" => ToCreate = Delay
           /\ pc1 = "send" => ToCreate = sleep[1]
           /\ pc1 \in {"create", "halt"} => ToCreate = 0
           /\ pc2 \in {"check", "load"} => ToLoad = (MaxLag - lag[2]) + sleep[2]
           /\ pc2 \in {"receive", "show"} => ToLoad = (MaxLag - lag[2]) + Delay + MaxLag
<1>1. /\ sleep[1] \in 0..Delay /\ sleep[2] \in 0..Delay
      /\ lag[1] \in 0..MaxLag /\ lag[2] \in 0..MaxLag
      /\ pc1 \in {"create", "sample", "send", "halt"} /\ pc2 \in {"check", "load", "receive", "show"}
  BY Numbers DEF IInv, TypeOK
<1> QED BY <1>1 DEF ToCreate, ToLoad

\* Two times that are both one less.
LEMMA OneLess ==
    ASSUME NEW a \in Nat, NEW b \in Nat, NEW c \in Nat, NEW d \in Nat, c >= b - 1
    PROVE  /\ a < b + d + d => a - 1 < c + d + d
           /\ a < b + d => a - 1 < c + d
           /\ a < b => a - 1 < c
OBVIOUS

\* With twice the lag less than a delay, each step leaves the consumer time enough.
LEMMA KeepsUp ==
    ASSUME MaxLag + MaxLag < Delay, IInv, IInv', ConsumerKeepsUp, [Next]_vars
    PROVE  ConsumerKeepsUp'
<1>n. /\ qh \in Nat /\ rq \in Nat /\ got.nr \in Nat /\ rq <= qh
      /\ sleep[1] \in 0..Delay /\ sleep[2] \in 0..Delay
      /\ lag[1] \in 0..MaxLag /\ lag[2] \in 0..MaxLag
  BY Numbers
<1>t. sleep \in [1..2 -> 0..Delay] /\ lag \in [1..2 -> 0..MaxLag]
  BY DEF IInv, TypeOK
<1>c. /\ qh <= rq + 2 /\ rq <= got.nr + 2
      /\ pc2 # "check" => sleep[2] = 0
      /\ \/ pc1 = "halt"
         \/ pc2 = "receive" /\ queue[rq] = <<>>
         \/ qh = rq     /\ ToLoad < ToCreate + Delay + Delay
         \/ qh = rq + 1 /\ ToLoad < ToCreate + Delay
         \/ qh = rq + 2 /\ ToLoad < ToCreate
  BY DEF ConsumerKeepsUp
<1>m. /\ ToCreate \in 0..Delay /\ ToLoad \in Nat
      /\ pc1 = "sample" => ToCreate = Delay
      /\ pc1 = "send" => ToCreate = sleep[1]
      /\ pc1 \in {"create", "halt"} => ToCreate = 0
      /\ pc2 \in {"check", "load"} => ToLoad = (MaxLag - lag[2]) + sleep[2]
      /\ pc2 \in {"receive", "show"} => ToLoad = (MaxLag - lag[2]) + Delay + MaxLag
  BY Times
<1>1. CASE CreateQueue
  <2>1. /\ pc1 = "create" /\ qh' = qh + 1 /\ pc1' = "sample"
        /\ UNCHANGED <<queue, pc2, rq, got, sleep, lag>>
    BY <1>1 DEF CreateQueue
  <2>2. ToLoad' = ToLoad /\ ToCreate' = Delay BY <2>1 DEF ToLoad, ToCreate
  <2>3. ~ (pc2 = "receive" /\ queue[rq] = <<>>) BY <2>1 DEF IInv, NeverStranded
  <2>4. \/ qh = rq     /\ ToLoad < Delay + Delay
        \/ qh = rq + 1 /\ ToLoad < Delay
    BY <1>n, <1>c, <1>m, <2>1, <2>3
  <2>5. \/ qh' = rq + 1 /\ ToLoad' < ToCreate' + Delay
        \/ qh' = rq + 2 /\ ToLoad' < ToCreate'
    BY <1>n, <1>m, <2>1, <2>2, <2>4
  <2> QED BY <1>n, <1>c, <2>1, <2>5 DEF ConsumerKeepsUp
<1>2. CASE CreateFails
  BY <1>2, <1>c DEF CreateFails, ConsumerKeepsUp
<1>3. CASE Reboot
  BY <1>3, <1>n, GotNumber DEF Reboot, ConsumerKeepsUp, ToLoad, ToCreate
<1>4. CASE ReadAndSleep
  <2>1. /\ pc1 = "sample" /\ pc1' = "send" /\ sleep'[1] = Delay /\ sleep'[2] = sleep[2] /\ lag'[2] = lag[2]
        /\ UNCHANGED <<qh, queue, pc2, rq, got>>
    BY <1>4, <1>t DEF ReadAndSleep
  <2>2. ToLoad' = ToLoad /\ ToCreate' = ToCreate BY <1>m, <2>1 DEF ToLoad, ToCreate
  <2> QED BY <1>c, <2>1, <2>2 DEF ConsumerKeepsUp
<1>5. CASE SendSample
  <2>1. /\ pc1 = "send" /\ pc1' = "create" /\ sleep[1] = 0 /\ \A h \in Handle \ {qh} : queue'[h] = queue[h]
        /\ UNCHANGED <<qh, pc2, rq, got, sleep, lag>>
    BY <1>5, <1>n DEF SendSample, IInv, TypeOK
  <2>2. ToLoad' = ToLoad /\ ToCreate' = 0 /\ ToCreate = 0 BY <1>m, <2>1 DEF ToLoad, ToCreate
  <2>3. CASE pc2 = "receive" /\ queue[rq] = <<>>
    <3>1. qh = rq BY <2>1, <2>3 DEF IInv, NeverStranded
    <3>2. ToLoad < Delay + Delay BY <1>n, <1>m, <2>3
    <3> QED BY <1>n, <1>c, <2>1, <2>2, <3>1, <3>2 DEF ConsumerKeepsUp
  <2>4. CASE ~ (pc2 = "receive" /\ queue[rq] = <<>>)
    BY <1>c, <2>1, <2>2, <2>4 DEF ConsumerKeepsUp
  <2> QED BY <2>3, <2>4
<1>6. CASE TestHandle
  <2>1. CASE qh # 0
    <3>1. /\ pc2 = "check" /\ sleep[2] = 0 /\ pc2' = "load"
          /\ UNCHANGED <<qh, queue, pc1, rq, got, sleep, lag>>
      BY <1>6, <2>1 DEF TestHandle
    <3>2. ToLoad' = ToLoad /\ ToCreate' = ToCreate BY <3>1 DEF ToLoad, ToCreate
    <3> QED BY <1>c, <3>1, <3>2 DEF ConsumerKeepsUp
  <2>2. CASE qh = 0
    <3>1. /\ pc2 = "check" /\ sleep[2] = 0 /\ lag'[2] = 0
          /\ UNCHANGED <<qh, queue, pc1, pc2, rq, got, sleep>>
      BY <1>6, <1>t, <2>2 DEF TestHandle
    <3>2. ToLoad' = MaxLag /\ ToCreate' = ToCreate BY <3>1 DEF ToLoad, ToCreate
    <3>3. qh' = rq' BY <1>n, <2>2, <3>1
    <3>4. ToLoad' < ToCreate' + Delay + Delay BY <1>m, <3>2
    <3> QED BY <1>c, <3>1, <3>3, <3>4 DEF ConsumerKeepsUp
  <2> QED BY <2>1, <2>2
<1>7. CASE LoadHandle
  <2>1. pc2 = "load" /\ pc2' = "receive" /\ rq' = qh /\ UNCHANGED <<qh, queue, pc1, got, sleep, lag>>
    BY <1>7 DEF LoadHandle
  <2>2. rq = got.nr BY <2>1 DEF IInv, ConsumerHandles
  <2>3. ToLoad' = (MaxLag - lag[2]) + (Delay + MaxLag) /\ ToCreate' = ToCreate
    BY <2>1 DEF ToLoad, ToCreate
  <2>4. ToLoad' < ToCreate' + Delay + Delay BY <1>n, <1>m, <2>3
  <2>5. qh' = rq' /\ qh' <= rq' + 2 /\ rq' <= got'.nr + 2 BY <1>n, <1>c, <2>1, <2>2
  <2> QED BY <1>c, <2>1, <2>4, <2>5 DEF ConsumerKeepsUp
<1>8. CASE ReceiveSample
  <2>1. pc2 = "receive" /\ pc2' = "show" /\ queue[rq] # <<>> /\ UNCHANGED <<qh, pc1, rq, sleep, lag>>
    BY <1>8 DEF ReceiveSample
  <2>2. got'.nr = rq BY <2>1 DEF IInv, ConsumerHandles
  <2>3. ToLoad' = ToLoad /\ ToCreate' = ToCreate BY <2>1 DEF ToLoad, ToCreate
  <2>4. rq' <= got'.nr + 2 BY <1>n, <2>1, <2>2
  <2> QED BY <1>c, <2>1, <2>3, <2>4 DEF ConsumerKeepsUp
<1>9. CASE ShowAndSleep
  <2>1. /\ pc2 = "show" /\ pc2' = "check" /\ sleep'[1] = sleep[1] /\ sleep'[2] = Delay /\ lag'[2] = 0
        /\ UNCHANGED <<qh, queue, pc1, rq, got>>
    BY <1>9, <1>t DEF ShowAndSleep
  <2>2. ToLoad' = MaxLag + Delay /\ ToCreate' = ToCreate BY <2>1 DEF ToLoad, ToCreate
  <2>3. ToLoad' <= ToLoad BY <1>n, <1>m, <2>1, <2>2
  <2>4. \/ pc1 = "halt"
        \/ qh = rq     /\ ToLoad' < ToCreate + Delay + Delay
        \/ qh = rq + 1 /\ ToLoad' < ToCreate + Delay
        \/ qh = rq + 2 /\ ToLoad' < ToCreate
    BY <1>c, <1>m, <2>1, <2>2, <2>3
  <2> QED BY <1>c, <2>1, <2>2, <2>4 DEF ConsumerKeepsUp
<1>10. CASE Tick
  <2>1. /\ UNCHANGED <<qh, queue, pc1, pc2, rq, got>> /\ pc1 # "halt"
        /\ sleep'[1] = (IF sleep[1] > 0 THEN sleep[1] - 1 ELSE 0)
        /\ sleep'[2] = (IF sleep[2] > 0 THEN sleep[2] - 1 ELSE 0)
        /\ lag'[2] = (IF Ready(2) THEN lag[2] + 1 ELSE lag[2])
    BY <1>10, <1>t DEF Tick
  <2>2. CASE pc2 = "receive" /\ queue[rq] = <<>>
    BY <1>c, <2>1, <2>2 DEF ConsumerKeepsUp
  <2>3. CASE ~ (pc2 = "receive" /\ queue[rq] = <<>>)
    <3>1. Ready(2) <=> sleep[2] = 0 BY <2>3 DEF Ready
    <3>2. ToLoad' = ToLoad - 1
      <4>1. CASE pc2 \in {"check", "load"}
        <5>1. ToLoad' = (MaxLag - lag'[2]) + sleep'[2] BY <2>1, <4>1 DEF ToLoad
        <5> QED BY <1>n, <1>m, <2>1, <3>1, <4>1, <5>1
      <4>2. CASE pc2 \notin {"check", "load"}
        <5>1. ToLoad' = (MaxLag - lag'[2]) + (Delay + MaxLag) /\ ToLoad = (MaxLag - lag[2]) + (Delay + MaxLag)
          BY <2>1, <4>2 DEF ToLoad
        <5>2. lag'[2] = lag[2] + 1 BY <1>c, <2>1, <3>1, <4>2
        <5> QED BY <1>n, <5>1, <5>2
      <4> QED BY <4>1, <4>2
    <3>3. ToCreate' >= ToCreate - 1 /\ ToCreate' \in Nat
      <4>1. CASE pc1 = "send"
        <5>1. ToCreate' = sleep'[1] BY <2>1, <4>1 DEF ToCreate
        <5> QED BY <1>n, <1>m, <2>1, <4>1, <5>1
      <4>2. CASE pc1 # "send"
        <5>1. ToCreate' = ToCreate BY <2>1, <4>2 DEF ToCreate
        <5> QED BY <1>m, <5>1
      <4> QED BY <4>1, <4>2
    <3>4. \/ qh = rq     /\ ToLoad' < ToCreate' + Delay + Delay
          \/ qh = rq + 1 /\ ToLoad' < ToCreate' + Delay
          \/ qh = rq + 2 /\ ToLoad' < ToCreate'
      <4>1. /\ ToLoad \in Nat /\ ToCreate \in Nat /\ ToCreate' \in Nat /\ Delay \in Nat
            /\ ToLoad' = ToLoad - 1 /\ ToCreate' >= ToCreate - 1
        BY <1>m, <3>2, <3>3
      <4>2. /\ ToLoad < ToCreate + Delay + Delay => ToLoad - 1 < ToCreate' + Delay + Delay
            /\ ToLoad < ToCreate + Delay => ToLoad - 1 < ToCreate' + Delay
            /\ ToLoad < ToCreate => ToLoad - 1 < ToCreate'
        BY <4>1, OneLess
      <4> QED BY <1>c, <2>1, <2>3, <4>1, <4>2
    <3>5. pc2' # "check" => sleep'[2] = 0 BY <1>c, <2>1
    <3> QED BY <1>c, <2>1, <3>4, <3>5 DEF ConsumerKeepsUp
  <2> QED BY <2>2, <2>3
<1>11. CASE UNCHANGED vars
  BY <1>11 DEF vars, ConsumerKeepsUp, ToLoad, ToCreate
<1> QED
  BY <1>1, <1>2, <1>3, <1>4, <1>5, <1>6, <1>7, <1>8, <1>9, <1>10, <1>11 DEF Next, Task1, Task2

\* For any heap and delay, when no task is kept from the processor for half of a delay,
\* the consumer of test_task.cpp never misses two samples in a row.
THEOREM OneSampleLost == MaxLag + MaxLag < Delay => (Spec => AtMostOneLost)
<1> SUFFICES ASSUME MaxLag + MaxLag < Delay PROVE Spec => AtMostOneLost
  OBVIOUS
<1>1. Init => ConsumerKeepsUp
  BY GotNumber DEF Init, ConsumerKeepsUp, ToLoad, ToCreate
<1>2. IInv /\ IInv' /\ ConsumerKeepsUp /\ [Next]_vars => ConsumerKeepsUp'
  BY KeepsUp
<1>3. IInv /\ ConsumerKeepsUp /\ [Next]_vars => [got' # got => got'.nr <= got.nr + 2]_vars
  <2> SUFFICES ASSUME IInv, ConsumerKeepsUp, Next, got' # got
               PROVE  got'.nr <= got.nr + 2
    BY DEF vars
  <2>1. CASE ReceiveSample
    <3>1. rq \in Handle /\ queue[rq] # <<>>
      BY <2>1 DEF ReceiveSample, IInv, TypeOK, ConsumerHandles
    <3>2. got'.nr = rq BY <2>1, <3>1, OneSample DEF ReceiveSample
    <3> QED BY <3>2 DEF ConsumerKeepsUp
  <2>2. CASE Reboot
    BY <2>2, Numbers, GotNumber DEF Reboot
  <2> QED
    BY <2>1, <2>2 DEF Next, Task1, Task2, CreateQueue, CreateFails, ReadAndSleep, SendSample,
       TestHandle, LoadHandle, ShowAndSleep, Tick
<1> QED BY <1>1, <1>2, <1>3, Invariance, PTL DEF Spec, AtMostOneLost

\* The handles stay within the heap, and a queue of 100 elements never holds more than
\* one, whichever of the queues the consumer waits on.
THEOREM ProducerConsumerTypes == Spec => [](TypeOK /\ \A h \in Handle : Len(queue[h]) <= 1)
<1>1. IInv => TypeOK /\ \A h \in Handle : Len(queue[h]) <= 1
  <2>1. ASSUME IInv, NEW h \in Handle PROVE Len(queue[h]) <= 1
    <3>1. CASE queue[h] = <<>>
      BY <3>1
    <3>2. CASE queue[h] # <<>>
      <4>1. PICK o \in Orientation : queue[h] = <<[nr |-> h, ot |-> o]>>
        BY <2>1, <3>2 DEF IInv, QueuesCarryOneSample
      <4>. QED BY <4>1
    <3>. QED BY <3>1, <3>2
  <2>. QED BY <2>1 DEF IInv
<1> QED BY <1>1, Invariance, PTL
=============================================================================
