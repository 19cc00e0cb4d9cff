-------------------------- MODULE ProducerConsumer --------------------------
(***************************************************************************)
(* The producer and the consumer of L5_Application/test_task.cpp: task1    *)
(* samples the board's orientation and sends it through a FreeRTOS queue,  *)
(* task2 receives it and drives the LEDs.                                  *)
(*                                                                         *)
(* task1 creates a NEW queue on every turn of its loop and stores its      *)
(* handle in the global qh, so a queue carries one sample and is then      *)
(* unreachable.  task2 reads qh twice (the test and the argument of        *)
(* xQueueReceive) and may block on a handle that task1 has since replaced. *)
(* The tasks have the same priority: they interleave at every step, and    *)
(* higher-priority tasks can delay either of them by at most MaxLag ticks  *)
(* between two blocking calls.                                             *)
(***************************************************************************)
EXTENDS Naturals, Sequences

CONSTANTS
    Orientation,   \* the enum of test_task.hpp
    Lit,           \* the orientations that switch the LEDs on
    HeapQueues,    \* how many queues the heap has room for
    Depth,         \* the length of a queue, 100 in the code
    Delay,         \* vTaskDelay(300) of both tasks, in model ticks
    MaxLag         \* ticks a ready task may have to wait before it blocks again

ASSUME PCAssumption ==
    /\ Lit \subseteq Orientation
    /\ HeapQueues \in Nat \ {0}
    /\ Depth \in Nat \ {0}
    /\ Delay \in Nat \ {0}
    /\ MaxLag \in Nat

\* A task is never kept from running for a whole delay of the other.
ASSUME LagAssumption == MaxLag < Delay

VARIABLES
    turn,     \* turns of task1's loop since the boot (history)
    qh,       \* the global queue handle, 0 is NULL
    queue,    \* contents of every queue of the heap, by handle
    pc1,      \* where task1 is in its run()
    reading,  \* the orientation task1 sampled this turn
    pc2,      \* where task2 is in its run()
    rq,       \* the handle task2 passed to xQueueReceive
    got,      \* the message task2 received last
    led,      \* whether the LEDs are on
    sleep,    \* ticks left of each task's vTaskDelay
    lag       \* ticks each task has been ready since it last blocked

vars == <<turn, qh, queue, pc1, reading, pc2, rq, got, led, sleep, lag>>

Handle == 1..HeapQueues
\* A sample carries the number of the turn that produced it, for the properties only.
Sample == [nr : Nat, ot : Orientation]
Nothing == [nr |-> 0]

----------------------------------------------------------------------------
Init ==
    /\ turn = 0
    /\ qh = 0
    /\ queue = [h \in Handle |-> <<>>]
    /\ pc1 = "create"
    /\ reading \in Orientation
    /\ pc2 = "check"
    /\ rq = 0
    /\ got = Nothing
    /\ led = FALSE
    /\ sleep = [t \in 1..2 |-> 0]
    /\ lag = [t \in 1..2 |-> 0]

(***************************************************************************)
(* task1::run                                                              *)
(***************************************************************************)
\* Mutants: the heap is taken to be endless; two queues are used in turn.
CreateQueueNoLimit ==
    /\ pc1 = "create"
    /\ turn' = turn + 1
    /\ qh' = qh + 1
    /\ pc1' = "sample"
    /\ UNCHANGED <<queue, reading, pc2, rq, got, led, sleep, lag>>
CreateQueueTwoOnly ==
    /\ pc1 = "create"
    /\ turn' = turn + 1
    /\ qh' = IF qh = 2 THEN 1 ELSE qh + 1
    /\ pc1' = "sample"
    /\ UNCHANGED <<queue, reading, pc2, rq, got, led, sleep, lag>>

\* qh = xQueueCreate(...).  The handles are given out in order; none is freed.
CreateQueue ==
    /\ pc1 = "create"
    /\ qh < HeapQueues
    /\ turn' = turn + 1
    /\ qh' = qh + 1
    /\ pc1' = "sample"
    /\ UNCHANGED <<queue, reading, pc2, rq, got, led, sleep, lag>>

\* No heap left: the malloc failed hook spins for 3 s and then reboots.
CreateFails ==
    /\ pc1 = "create"
    /\ qh = HeapQueues
    /\ pc1' = "halt"
    /\ UNCHANGED <<turn, qh, queue, reading, pc2, rq, got, led, sleep, lag>>

Reboot ==
    /\ pc1 = "halt"
    /\ turn' = 0
    /\ qh' = 0
    /\ queue' = [h \in Handle |-> <<>>]
    /\ pc1' = "create"
    /\ pc2' = "check"
    /\ rq' = 0
    /\ got' = Nothing
    /\ led' = FALSE
    /\ sleep' = [t \in 1..2 |-> 0]
    /\ lag' = [t \in 1..2 |-> 0]
    /\ UNCHANGED reading

\* Mutant: the producer samples more often than the consumer looks.
ReadAndSleepLess ==
    /\ pc1 = "sample"
    /\ reading' \in Orientation
    /\ sleep' = [sleep EXCEPT ![1] = Delay \div 3]
    /\ lag' = [lag EXCEPT ![1] = 0]
    /\ pc1' = "send"
    /\ UNCHANGED <<turn, qh, queue, pc2, rq, got, led>>

\* The accelerometer is read before the delay, classified after it.
ReadAndSleep ==
    /\ pc1 = "sample"
    /\ reading' \in Orientation
    /\ sleep' = [sleep EXCEPT ![1] = Delay]
    /\ lag' = [lag EXCEPT ![1] = 0]
    /\ pc1' = "send"
    /\ UNCHANGED <<turn, qh, queue, pc2, rq, got, led>>

\* xQueueSend(qh, &ot, portMAX_DELAY)
SendSample ==
    /\ pc1 = "send"
    /\ sleep[1] = 0
    /\ Len(queue[qh]) < Depth
    /\ queue' = [queue EXCEPT ![qh] = Append(@, [nr |-> turn, ot |-> reading])]
    /\ pc1' = "create"
    /\ UNCHANGED <<turn, qh, reading, pc2, rq, got, led, sleep, lag>>

Task1 == CreateQueue \/ CreateFails \/ ReadAndSleep \/ SendSample

(***************************************************************************)
(* task2::run                                                              *)
(***************************************************************************)
\* if (qh)
TestHandle ==
    /\ pc2 = "check"
    /\ sleep[2] = 0
    /\ IF qh # 0 THEN pc2' = "load" /\ UNCHANGED lag
                 ELSE lag' = [lag EXCEPT ![2] = 0] /\ UNCHANGED pc2
    /\ UNCHANGED <<turn, qh, queue, pc1, reading, rq, got, led, sleep>>

\* Mutant: the handle is read once and kept.
LoadHandleOnce ==
    /\ pc2 = "load"
    /\ rq' = IF rq = 0 THEN qh ELSE rq
    /\ pc2' = "receive"
    /\ UNCHANGED <<turn, qh, queue, pc1, reading, got, led, sleep, lag>>

\* The second read of qh, as the argument of xQueueReceive.
LoadHandle ==
    /\ pc2 = "load"
    /\ rq' = qh
    /\ pc2' = "receive"
    /\ UNCHANGED <<turn, qh, queue, pc1, reading, got, led, sleep, lag>>

\* xQueueReceive(rq, &ot, portMAX_DELAY): blocks while that queue is empty.
ReceiveSample ==
    /\ pc2 = "receive"
    /\ queue[rq] # <<>>
    /\ got' = Head(queue[rq])
    /\ queue' = [queue EXCEPT ![rq] = Tail(@)]
    /\ pc2' = "show"
    /\ UNCHANGED <<turn, qh, pc1, reading, rq, led, sleep, lag>>

\* Mutant: no delay after the switch.
ShowNoSleep ==
    /\ pc2 = "show"
    /\ led' = (got.ot \in Lit)
    /\ pc2' = "check"
    /\ lag' = [lag EXCEPT ![2] = 0]
    /\ UNCHANGED <<turn, qh, queue, pc1, reading, rq, got, sleep>>

\* The switch on the orientation, then vTaskDelay(300).
ShowAndSleep ==
    /\ pc2 = "show"
    /\ led' = (got.ot \in Lit)
    /\ sleep' = [sleep EXCEPT ![2] = Delay]
    /\ lag' = [lag EXCEPT ![2] = 0]
    /\ pc2' = "check"
    /\ UNCHANGED <<turn, qh, queue, pc1, reading, rq, got>>

Task2 == TestHandle \/ LoadHandle \/ ReceiveSample \/ ShowAndSleep

(***************************************************************************)
(* The tick interrupt.  A task that is neither asleep nor blocked on a     *)
(* queue is ready; the clock does not move while a ready task has used up  *)
(* its lag.                                                                *)
(***************************************************************************)
Ready(t) ==
    /\ sleep[t] = 0
    /\ t = 1 => pc1 # "halt"
    /\ t = 2 => ~(pc2 = "receive" /\ queue[rq] = <<>>)

Tick ==
    /\ pc1 # "halt"
    /\ \A t \in 1..2 : Ready(t) => lag[t] < MaxLag
    /\ sleep' = [t \in 1..2 |-> IF sleep[t] > 0 THEN sleep[t] - 1 ELSE 0]
    /\ lag' = [t \in 1..2 |-> IF Ready(t) THEN lag[t] + 1 ELSE lag[t]]
    /\ UNCHANGED <<turn, qh, queue, pc1, reading, pc2, rq, got, led>>

Next == Task1 \/ Task2 \/ Tick \/ Reboot

Spec == Init /\ [][Next]_vars

\* Both tasks are scheduled whenever they are ready, and time passes.  Nothing is assumed
\* of Reboot, so that a wait is not excused by the restart that would end it.
FairSpec == Spec /\ WF_vars(Task1) /\ WF_vars(Task2) /\ WF_vars(Tick)

----------------------------------------------------------------------------
(***************************************************************************)
(* Properties                                                              *)
(***************************************************************************)
\* Every variable keeps the type the code gives it.
TypeOK ==
    /\ turn \in 0..HeapQueues
    /\ qh \in 0..HeapQueues
    /\ queue \in [Handle -> Seq(Sample)]
    /\ pc1 \in {"create", "sample", "send", "halt"}
    /\ reading \in Orientation
    /\ pc2 \in {"check", "load", "receive", "show"}
    /\ rq \in 0..HeapQueues
    /\ got \in Sample \cup {Nothing}
    /\ led \in BOOLEAN
    /\ sleep \in [1..2 -> 0..Delay]
    /\ lag \in [1..2 -> 0..MaxLag]

\* The send of test_task.cpp:49 never finds its queue full: no queue is sent to twice,
\* however long the consumer is kept away.
SendNeverBlocks == pc1 \in {"sample", "send"} => queue[qh] = <<>>

\* The receive of test_task.cpp:61 never waits on a queue nobody will send to: when it
\* finds its queue empty, task1 has yet to send to that very queue (unless the board is
\* about to reboot).
NeverStranded ==
    pc2 = "receive" /\ queue[rq] = <<>> /\ pc1 # "halt" =>
        rq = qh /\ pc1 \in {"sample", "send"}

\* The LEDs follow the samples in the order they were taken, each at most once: what
\* task2 receives is newer than what it received before.
NoReplay == [][got' # got => got'.nr > got.nr \/ turn' = 0]_vars

\* The consumer skips at most one sample between two it shows, although queues with
\* an unread sample are abandoned.
AtMostOneLost == [][got' # got => got'.nr <= got.nr + 2]_vars

\* A consumer that waits while the heap has room for another queue gets a sample, without
\* the help of a reboot.
ReceiveReturns == (pc2 = "receive" /\ qh < HeapQueues) ~> (pc2 = "show")

----------------------------------------------------------------------------
(***************************************************************************)
(* The inductive invariant behind the properties above.                    *)
(***************************************************************************)
\* A queue holds nothing or the one sample of its own turn.
QueuesCarryOneSample ==
    /\ turn = qh
    /\ \A h \in Handle : \/ queue[h] = <<>>
                         \/ h <= qh /\ \E o \in Orientation : queue[h] = <<[nr |-> h, ot |-> o]>>
    /\ pc1 \in {"sample", "send"} => qh > 0 /\ queue[qh] = <<>> /\ got.nr < qh

\* What the consumer took is gone from its queue, and its handle is never ahead of qh.
ConsumerHandles ==
    /\ got.nr <= rq /\ rq <= qh
    /\ got.nr > 0 => queue[got.nr] = <<>>
    /\ pc2 # "receive" => rq = got.nr
    /\ pc2 = "load" => qh > 0
    /\ pc2 = "receive" => rq > 0
    /\ pc2 = "show" => got.nr > 0

\* Until the next queue exists, a consumer that took the newest sample is still asleep.
ConsumerSleepsOut ==
    /\ pc1 \in {"create", "halt"} => sleep[1] = 0
    /\ qh > 0 /\ got.nr = qh =>
          pc2 = "show" \/ (pc2 = "check" /\ sleep[2] > 0 /\ Delay <= sleep[2] + lag[1])
    /\ qh > 0 /\ pc1 \in {"create", "halt"} /\ queue[qh] = <<>> => got.nr = qh

\* How long task1 takes at least to its next queue, task2 at most to its next look at qh.
ToCreate == CASE pc1 = "sample" -> Delay [] pc1 = "send" -> sleep[1] [] OTHER -> 0
ToLoad == (MaxLag - lag[2]) + IF pc2 \in {"check", "load"} THEN sleep[2] ELSE Delay + MaxLag

\* When twice the lag is less than a delay, the third queue after the one the consumer
\* had last comes later than the consumer's next look.
ConsumerKeepsUp ==
    /\ qh <= rq + 2 /\ rq <= got.nr + 2
    /\ pc2 # "check" => sleep[2] = 0
    /\ \/ pc1 = "halt"
       \/ pc2 = "receive" /\ queue[rq] = <<>>
       \/ qh = rq     /\ ToLoad < ToCreate + Delay + Delay
       \/ qh = rq + 1 /\ ToLoad < ToCreate + Delay
       \/ qh = rq + 2 /\ ToLoad < ToCreate

IInv == TypeOK /\ QueuesCarryOneSample /\ ConsumerHandles /\ ConsumerSleepsOut /\ NeverStranded
=============================================================================
