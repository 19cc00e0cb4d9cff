------------------------------- MODULE Kernel -------------------------------
(***************************************************************************)
(* The kernel at work: tasks and interrupts that use queues and mutexes    *)
(* (queue.c) and the calls of the scheduler (tasks.c).                     *)
(*                                                                         *)
(* A step is what one critical section does, or what happens between two   *)
(* of them with the scheduler suspended.  Interrupts come between any two  *)
(* steps.  portYIELD sets pendSV; the switch comes when no other interrupt *)
(* is active, before the task's next step.  What tasks and interrupts call *)
(* is chosen at the start, from a set of programs.                         *)
(***************************************************************************)
EXTENDS Scheduler, FiniteSets

CONSTANTS Idle,       \* the idle task
          Queues, Length,
          Mutexes,    \* the queues that are mutexes
          Item, NoItem, NoTask,
          Programs,   \* calls of each task: op, q (queue or task), ticks; of the
                      \* interrupts, isr; and the items they put in
          FirstTick,  \* the tick count at the start, near its overflow
          MaxTicks,   \* bound: ticks of a behaviour
          MaxLock     \* bound: interrupts that use one locked queue

VARIABLES os,      \* the scheduler's record
          queue,   \* of each queue: store, xTxLock, xRxLock, pxMutexHolder
          task,    \* of each task: where it is in which call
          out,     \* the item that was copied out last
          pendSV,  \* a context switch is pending
          program  \* the calls that are made

vars == <<os, queue, task, out, pendSV, program>>

S == INSTANCE QueueStorage

PutOps == {"back", "front", "overwrite"}
GetOps == {"receive", "peek"}

\* xQueueOverwrite is for queues of length 1; a mutex is taken and given, and
\* not by interrupts; the idle task is always ready.
WellFormed(c) ==
    /\ c.op \in PutOps \cup GetOps =>
          /\ c.q \in Queues
          /\ c.op = "overwrite" => Length[c.q] = 1
          /\ c.q \in Mutexes => c.op \in {"back", "receive"}
    /\ c.op \in {"suspend", "resume"} => c.q \in Tasks \ {Idle}
    /\ c.op \in PutOps \cup GetOps \cup {"delay", "delayUntil"} => c.ticks \in 0 .. MaxDelay

ASSUME LengthAssumption ==
    /\ Length \in [Queues -> Nat \ {0}] /\ IsFiniteSet(Queues)
    /\ Mutexes \subseteq Queues /\ \A q \in Mutexes : Length[q] = 1
ASSUME ItemAssumption == NoItem \notin Item
ASSUME IdleAssumption == Idle \in Tasks
ASSUME NoTaskAssumption == NoTask \notin Tasks
ASSUME TickAssumption == FirstTick \in 0 .. MaxDelay
ASSUME ProgramsAssumption ==
    \A p \in Programs :
       /\ p.items \subseteq Item /\ p.calls[Idle] = {}
       /\ \A t \in Tasks : \A c \in p.calls[t] : WellFormed(c)
       /\ \A c \in p.isr : WellFormed(c) /\ c.op \in PutOps \cup {"receive"} /\ c.q \notin Mutexes

Unlocked == -1
Receivers(q) == <<q, "receive">>
Senders(q)   == <<q, "send">>
NoCall == [op |-> "none"]

Now == os.overflows * TickMod + os.tick
Running(t, at) == os.current = t /\ ~ pendSV /\ task[t].at = at

Full(q)  == S!IsFull(queue[q].store, Length[q])
Empty(q) == S!IsEmpty(queue[q].store)
Possible(c) == IF c.op \in PutOps THEN ~ Full(c.q) \/ c.op = "overwrite" ELSE ~ Empty(c.q)

-----------------------------------------------------------------------------
\* The variables of a call end with it; lastWake is the caller's.
Outside(lastWake) == [at |-> "run", call |-> NoCall, ticks |-> 0, entered |-> 0, overflows |-> 0,
                      fate |-> "none", began |-> 0, lastWake |-> lastWake]

\* The tasks as they were created; of the most urgent ones the last runs first.
Created(p) == SetToSeq({t \in Tasks : BasePrio[t] = p})

Init ==
    /\ os = [current |-> Last(Created(CHOOSE p \in Priorities : \A o \in Priorities : o <= p)),
             prio |-> BasePrio, held |-> [t \in Tasks |-> 0], wake |-> [t \in Tasks |-> 0],
             ready |-> [p \in Priorities |-> [entries |-> Created(p), index |-> 0]],
             top |-> Priorities, delayed |-> << >>, overflow |-> << >>, suspended |-> {},
             pending |-> << >>, event |-> [l \in Queues \X {"receive", "send"} |-> << >>],
             tick |-> FirstTick, overflows |-> 0, pended |-> 0, unblock |-> MaxDelay,
             locked |-> 0, missed |-> FALSE]
    /\ queue = [q \in Queues |->
                  [store |-> [S!Reset(Length[q]) EXCEPT !.waiting = IF q \in Mutexes THEN 1 ELSE 0],
                   tx |-> Unlocked, rx |-> Unlocked, holder |-> NoTask]]
    /\ task = [t \in Tasks |-> Outside(FirstTick)]
    /\ out = NoItem
    /\ pendSV = FALSE
    /\ program \in Programs

Return(t) == task' = [task EXCEPT ![t] = Outside(@.lastWake)]

-----------------------------------------------------------------------------
(***************************************************************************)
(* The critical section that begins each turn of xQueueGenericSend and     *)
(* xQueueGenericReceive: done, given up or about to block.                 *)
(***************************************************************************)
\* prvCopyDataToQueue.
CopyTo(q, op, x) ==
    LET put(s) == IF q \in Mutexes THEN [s EXCEPT !.waiting = @ + 1]
                  ELSE CASE op = "back"  -> S!SendToBack(s, Length[q], x)
                         [] op = "front" -> S!SendToFront(s, Length[q], x)
                         [] op = "overwrite" -> S!Overwrite(s, Length[q], x)
    IN  [queue[q] EXCEPT !.store = put(@), !.holder = NoTask]

Gives(q, op) == q \in Mutexes /\ op \in PutOps /\ queue[q].holder # NoTask

\* The head of an event list, if any, is unblocked in s.
Wake(s, l) == IF s.event[l] = << >> THEN s ELSE RemoveFromEventList(s, l)
WakesHigher(s, l) == s.event[l] # << >> /\ Outranks(s, l)

SendNow(t, c) ==
    LET given == IF Gives(c.q, c.op) THEN Disinherit(os, queue[c.q].holder) ELSE os
        yield == Gives(c.q, c.op) /\ Drops(os, queue[c.q].holder)
        l == Receivers(c.q)
    IN  /\ c.op \in PutOps /\ Possible(c)
        /\ \E x \in program.items : queue' = [queue EXCEPT ![c.q] = CopyTo(c.q, c.op, x)]
        /\ os' = Wake(given, l)
        /\ pendSV' = IF given.event[l] # << >> THEN Outranks(given, l) ELSE yield
        /\ Return(t)
        /\ UNCHANGED out

CopyFrom(q) ==
    IF q \in Mutexes THEN UNCHANGED out ELSE out' = S!Oldest(queue[q].store, Length[q])

ReceiveNow(t, c) ==
    LET q == c.q
        s == IF q \in Mutexes THEN [os EXCEPT !.held[t] = @ + 1] ELSE os
    IN  /\ c.op = "receive" /\ Possible(c)
        /\ CopyFrom(q)
        /\ queue' = IF q \in Mutexes
                    THEN [queue EXCEPT ![q].store.waiting = @ - 1, ![q].holder = t]
                    ELSE [queue EXCEPT ![q].store = S!Receive(@, Length[q])]
        /\ os' = Wake(s, Senders(q))
        /\ pendSV' = WakesHigher(s, Senders(q))
        /\ Return(t)

PeekNow(t, c) ==
    /\ c.op = "peek" /\ Possible(c)
    /\ CopyFrom(c.q)
    /\ os' = Wake(os, Receivers(c.q))
    /\ pendSV' = WakesHigher(os, Receivers(c.q))
    /\ Return(t)
    /\ UNCHANGED queue

GiveUp(t, c, ticks) ==
    /\ ~ Possible(c) /\ ticks = 0
    /\ Return(t)
    /\ UNCHANGED <<os, queue, out, pendSV>>

\* vTaskSetTimeOutState, the first time.
Block(t, c, ticks, first) ==
    /\ ~ Possible(c) /\ ticks > 0
    /\ task' = IF first THEN [task EXCEPT ![t].at = "suspendAll", ![t].call = c, ![t].ticks = ticks,
                                          ![t].entered = os.tick, ![t].overflows = os.overflows,
                                          ![t].began = Now, ![t].fate = "none"]
                        ELSE [task EXCEPT ![t].at = "suspendAll"]
    /\ UNCHANGED <<os, queue, out, pendSV>>

Turn(t, c, ticks, first) ==
    \/ SendNow(t, c) \/ ReceiveNow(t, c) \/ PeekNow(t, c)
    \/ GiveUp(t, c, ticks) \/ Block(t, c, ticks, first)

\* A mutex is given by its holder, and not taken by it again.
Allowed(t, c) == c.q \in Mutexes => (c.op \in PutOps) <=> queue[c.q].holder = t

Call(t) == /\ Running(t, "run")
           /\ \E c \in program.calls[t] : /\ c.op \in PutOps \cup GetOps
                                  /\ Allowed(t, c)
                                  /\ Turn(t, c, c.ticks, TRUE)

Retry(t) == Running(t, "retry") /\ Turn(t, task[t].call, task[t].ticks, FALSE)

-----------------------------------------------------------------------------
(***************************************************************************)
(* Blocking, with the scheduler suspended and the queue locked.            *)
(***************************************************************************)
GoTo(t, at) == task' = [task EXCEPT ![t].at = at]

SuspendScheduler(t) ==
    /\ Running(t, "suspendAll")
    /\ os' = SuspendAll(os)
    /\ GoTo(t, "lock")
    /\ UNCHANGED <<queue, out, pendSV>>

LockQueue(t) ==
    /\ Running(t, "lock")
    /\ LET lock(n) == IF n = Unlocked THEN 0 ELSE n
       IN  queue' = [queue EXCEPT ![task[t].call.q].tx = lock(@), ![task[t].call.q].rx = lock(@)]
    /\ GoTo(t, "check")
    /\ UNCHANGED <<os, out, pendSV>>

\* xTaskCheckForTimeOut.
Elapsed(t) == (os.tick - task[t].entered) % TickMod
\* Mutant: any overflow of the tick count ends the wait.
TimedOutByOverflow(t) ==
    /\ task[t].ticks # MaxDelay
    /\ os.overflows # task[t].overflows \/ Elapsed(t) >= task[t].ticks
TimedOut(t) ==
    /\ task[t].ticks # MaxDelay
    /\ \/ os.overflows # task[t].overflows /\ os.tick >= task[t].entered
       \/ Elapsed(t) >= task[t].ticks

CheckForTimeOut(t) ==
    /\ Running(t, "check")
    /\ task' = IF TimedOut(t) THEN [task EXCEPT ![t].at = "unlockTx", ![t].fate = "fail"]
               ELSE IF task[t].ticks = MaxDelay THEN [task EXCEPT ![t].at = "test"]
               ELSE [task EXCEPT ![t].at = "test", ![t].ticks = @ - Elapsed(t),
                                 ![t].entered = os.tick, ![t].overflows = os.overflows]
    /\ UNCHANGED <<os, queue, out, pendSV>>

\* prvIsQueueFull or prvIsQueueEmpty.
TestAgain(t) ==
    LET c == task[t].call
        still == IF c.op \in PutOps THEN Full(c.q) ELSE Empty(c.q)
    IN  /\ Running(t, "test")
        /\ task' = [task EXCEPT ![t].at = IF still THEN "place" ELSE "unlockTx",
                                ![t].fate = IF still THEN "wait" ELSE "again"]
        /\ UNCHANGED <<os, queue, out, pendSV>>

Place(t) ==
    LET c == task[t].call
        h == queue[c.q].holder
        s == IF c.q \in Mutexes /\ c.op \in GetOps /\ h # NoTask THEN Inherit(os, h) ELSE os
        l == IF c.op \in PutOps THEN Senders(c.q) ELSE Receivers(c.q)
    IN  /\ Running(t, "place")
        /\ os' = PlaceOnEventList(s, l, task[t].ticks)
        /\ GoTo(t, "unlockTx")
        /\ UNCHANGED <<queue, out, pendSV>>

\* prvUnlockQueue wakes a task for each item interrupts put in or took out.
WakeMany(s, l, n) ==
    FoldLeft(LAMBDA r, i : IF WakesHigher(r, l) THEN [Wake(r, l) EXCEPT !.missed = TRUE]
                                                ELSE Wake(r, l),
             s, [i \in 1 .. n |-> i])

\* Mutant: what came while the queue was locked wakes nobody.
UnlockTxQuietly(t) ==
    /\ Running(t, "unlockTx")
    /\ queue' = [queue EXCEPT ![task[t].call.q].tx = Unlocked]
    /\ GoTo(t, "unlockRx")
    /\ UNCHANGED <<os, out, pendSV>>
UnlockTx(t) ==
    LET q == task[t].call.q
    IN  /\ Running(t, "unlockTx")
        /\ os' = WakeMany(os, Receivers(q), queue[q].tx)
        /\ queue' = [queue EXCEPT ![q].tx = Unlocked]
        /\ GoTo(t, "unlockRx")
        /\ UNCHANGED <<out, pendSV>>

UnlockRx(t) ==
    LET q == task[t].call.q
    IN  /\ Running(t, "unlockRx")
        /\ os' = WakeMany(os, Senders(q), queue[q].rx)
        /\ queue' = [queue EXCEPT ![q].rx = Unlocked]
        /\ GoTo(t, "resumeAll")
        /\ UNCHANGED <<out, pendSV>>

\* xTaskResumeAll, and portYIELD_WITHIN_API unless it has yielded.
ResumeScheduler(t) ==
    LET fate == task[t].fate
    IN  /\ Running(t, "resumeAll")
        /\ os' = ResumeAll(os)
        /\ pendSV' = (Yielded(os') \/ fate \in {"wait", "delayed"})
        /\ \/ fate \in {"wait", "again"} /\ GoTo(t, "retry")
           \/ fate = "delayed" /\ GoTo(t, "run")
           \/ fate = "fail" /\ Return(t)
        /\ UNCHANGED <<queue, out>>

-----------------------------------------------------------------------------
(***************************************************************************)
(* vTaskDelay and vTaskDelayUntil.                                         *)
(***************************************************************************)
CallDelay(t) ==
    /\ Running(t, "run")
    /\ \E c \in program.calls[t] :
          /\ c.op \in {"delay", "delayUntil"}
          /\ IF c.ticks = 0   \* only yields
             THEN pendSV' = TRUE /\ UNCHANGED <<os, task>>
             ELSE /\ os' = SuspendAll(os)
                  /\ task' = [task EXCEPT ![t].at = "delay", ![t].call = c, ![t].began = Now,
                                          ![t].ticks = c.ticks, ![t].fate = "delayed"]
                  /\ UNCHANGED pendSV
    /\ UNCHANGED <<queue, out>>

\* The wake time, modulo the width of the tick, and whether it is ahead.
WakeTime(t) ==
    ((IF task[t].call.op = "delay" THEN os.tick ELSE task[t].lastWake) + task[t].ticks)
        % TickMod
ShouldDelay(t) ==
    LET wake == WakeTime(t)
        last == task[t].lastWake
    IN  \/ task[t].call.op = "delay"
        \/ IF os.tick < last THEN wake < last /\ wake > os.tick
                             ELSE wake < last \/ wake > os.tick

Delay(t) ==
    /\ Running(t, "delay")
    /\ os' = IF ShouldDelay(t) THEN AddCurrentToDelayed(TakeFromReady(os, t), WakeTime(t)) ELSE os
    /\ task' = [task EXCEPT ![t].at = "resumeAll",
                            ![t].lastWake = IF task[t].call.op = "delay" THEN @ ELSE WakeTime(t)]
    /\ UNCHANGED <<queue, out, pendSV>>

-----------------------------------------------------------------------------
(***************************************************************************)
(* vTaskSuspend and vTaskResume.                                           *)
(***************************************************************************)
Suspend(t) ==
    /\ Running(t, "run")
    /\ \E c \in program.calls[t] :
          /\ c.op = "suspend"
          /\ os' = [RemoveEvent(TakeFromReady(os, c.q), c.q) EXCEPT !.suspended = @ \cup {c.q}]
          /\ pendSV' = (c.q = t)
          /\ IF c.q = t THEN UNCHANGED task ELSE GoTo(t, "unblock")
    /\ UNCHANGED <<queue, out>>

ResetUnblock(t) ==
    /\ Running(t, "unblock")
    /\ os' = ResetNextUnblock(os)
    /\ Return(t)
    /\ UNCHANGED <<queue, out, pendSV>>

InEvent(s, t) == Contains(s.pending, t) \/ \E l \in DOMAIN s.event : Contains(s.event[l], t)

Resume(t) ==
    /\ Running(t, "run")
    /\ \E c \in program.calls[t] :
          /\ c.op = "resume" /\ c.q # t
          /\ IF c.q \in os.suspended /\ ~ InEvent(os, c.q)
             THEN /\ os' = AddToReady(RemoveGeneric(os, c.q), c.q)
                  /\ pendSV' = (os.prio[c.q] >= os.prio[t])
             ELSE UNCHANGED <<os, pendSV>>
    /\ UNCHANGED <<queue, task, out>>

-----------------------------------------------------------------------------
(***************************************************************************)
(* Interrupts.  A handler passes the address of a flag and yields when it  *)
(* is set, or passes NULL.                                                 *)
(***************************************************************************)
SendFromISR ==
    \E c \in program.isr, x \in program.items :
        LET q == c.q
            l == Receivers(q)
            locked == queue[q].tx # Unlocked
        IN  /\ c.op \in PutOps /\ Possible(c) /\ queue[q].tx < MaxLock
            /\ queue' = [queue EXCEPT ![q] = [CopyTo(q, c.op, x) EXCEPT
                                                !.tx = IF locked THEN @ + 1 ELSE @]]
            /\ IF locked THEN UNCHANGED <<os, pendSV>>
               ELSE /\ os' = Wake(os, l)
                    /\ pendSV' \in {pendSV, pendSV \/ WakesHigher(os, l)}
            /\ UNCHANGED <<task, out>>

ReceiveFromISR ==
    \E c \in program.isr :
        LET q == c.q
            l == Senders(q)
            locked == queue[q].rx # Unlocked
        IN  /\ c.op = "receive" /\ Possible(c) /\ queue[q].rx < MaxLock
            /\ CopyFrom(q)
            /\ queue' = [queue EXCEPT ![q].store = S!Receive(@, Length[q]),
                                      ![q].rx = IF locked THEN @ + 1 ELSE @]
            /\ IF locked THEN UNCHANGED <<os, pendSV>>
               ELSE /\ os' = Wake(os, l)
                    /\ pendSV' \in {pendSV, pendSV \/ WakesHigher(os, l)}
            /\ UNCHANGED task

\* xPortSysTickHandler.
Tick == /\ Now + os.pended < FirstTick + MaxTicks
        /\ os' = IncrementTick(os)
        /\ pendSV' = (pendSV \/ SwitchAfterTick(os))
        /\ UNCHANGED <<queue, task, out>>

\* xPortPendSVHandler.
PendSV == /\ pendSV
          /\ os' = SwitchContext(os)
          /\ pendSV' = FALSE
          /\ UNCHANGED <<queue, task, out>>

TaskStep(t) ==
    \/ Call(t) \/ Retry(t) \/ SuspendScheduler(t) \/ LockQueue(t) \/ CheckForTimeOut(t)
    \/ TestAgain(t) \/ Place(t) \/ UnlockTx(t) \/ UnlockRx(t) \/ ResumeScheduler(t)
    \/ CallDelay(t) \/ Delay(t) \/ Suspend(t) \/ ResetUnblock(t) \/ Resume(t)

Next == /\ SendFromISR \/ ReceiveFromISR \/ Tick \/ PendSV \/ \E t \in Tasks : TaskStep(t)
        /\ UNCHANGED program

Spec == Init /\ [][Next]_vars

-----------------------------------------------------------------------------
(***************************************************************************)
(* Properties.                                                             *)
(***************************************************************************)
\* Every task is in exactly one of the lists of the scheduler, at its own
\* priority and in the order of the wake times; the bit map tells which ready
\* lists are in use; the next unblock time is not after the first delayed
\* task.  Many functions move tasks between lists, with the list only known
\* from the item.
Homes(t) == (IF \E p \in Priorities : Contains(os.ready[p].entries, t) THEN 1 ELSE 0)
          + (IF Contains(os.delayed, t) THEN 1 ELSE 0)
          + (IF Contains(os.overflow, t) THEN 1 ELSE 0)
          + (IF t \in os.suspended THEN 1 ELSE 0)
ListsAgree ==
    /\ \A t \in Tasks : Homes(t) = 1
    /\ \A p \in Priorities : \A i \in DOMAIN os.ready[p].entries :
          os.prio[os.ready[p].entries[i]] = p
    /\ os.top = {p \in Priorities : os.ready[p].entries # << >>}
    /\ \A list \in {os.delayed, os.overflow} : \A i, j \in DOMAIN list :
          i < j => os.wake[list[i]] <= os.wake[list[j]]
    /\ os.delayed # << >> => os.unblock <= os.wake[Head(os.delayed)]

\* When nothing is pending the running task has the highest priority of all
\* that are ready: no path of the kernel readies a task and forgets to yield.
HighestRuns ==
    os.locked = 0 /\ ~ pendSV /\ ~ os.missed => \A p \in os.top : p <= os.prio[os.current]

\* A task sleeps on a queue only as long as there is nothing for it: each item
\* in the queue has a woken task that has not yet come to take it, or is
\* counted in the lock and will wake one when the queue is unlocked; likewise
\* for free places and senders.
Woken(q, ops, l) ==
    {t \in Tasks : /\ task[t].at \in {"unlockTx", "unlockRx", "resumeAll", "retry"}
                   /\ task[t].fate = "wait" /\ task[t].call.q = q /\ task[t].call.op \in ops
                   /\ ~ Contains(os.event[l], t)}
AtLeast0(n) == IF n < 0 THEN 0 ELSE n
NoLostWakeup ==
    \A q \in Queues :
       /\ os.event[Receivers(q)] # << >> =>
             queue[q].store.waiting <= Cardinality(Woken(q, GetOps, Receivers(q)))
                                       + AtLeast0(queue[q].tx)
       /\ os.event[Senders(q)] # << >> =>
             Length[q] - queue[q].store.waiting <= Cardinality(Woken(q, PutOps, Senders(q)))
                                                  + AtLeast0(queue[q].rx)

\* Time-outs are exact, across the overflow of the tick count and however often
\* the task was woken and found the item taken: a call fails no earlier than
\* its time-out, and a blocked task is woken no later.
WakeNow(t) == os.wake[t] + TickMod *
                 (IF Contains(os.overflow, t) THEN os.overflows + 1 ELSE os.overflows)
Blocked(t) == Contains(os.delayed, t) \/ Contains(os.overflow, t)
TimeoutsExact ==
    \A t \in Tasks :
       /\ task[t].fate = "fail" => Now - task[t].began >= task[t].call.ticks
       /\ Blocked(t) => /\ WakeNow(t) > Now
                        /\ task[t].call.op # "delayUntil" =>
                              WakeNow(t) = task[t].began + task[t].call.ticks

\* A mutex has one holder, and the tasks know how many they hold; a priority
\* stays raised only while a mutex is held.
MutexesCounted ==
    /\ \A q \in Mutexes : queue[q].store.waiting = IF queue[q].holder = NoTask THEN 1 ELSE 0
    /\ \A t \in Tasks : /\ os.held[t] = Cardinality({q \in Mutexes : queue[q].holder = t})
                         /\ os.prio[t] > BasePrio[t] => os.held[t] > 0
                         /\ os.prio[t] >= BasePrio[t]

\* And whoever waits for a mutex, its holder has at least that task's priority.
MutexesHeld ==
    /\ MutexesCounted
    /\ \A q \in Mutexes : \A i \in DOMAIN os.event[Receivers(q)] :
          queue[q].holder # NoTask => os.prio[queue[q].holder] >= os.prio[os.event[Receivers(q)][i]]

\* Queues implement bounded queues: with the pointers into the ring, three ways
\* to put and two to get, items come out once and in order.
Data == Queues \ Mutexes
Items == [q \in Data |-> S!Contents(queue[q].store, Length[q])]
Fifo == INSTANCE BoundedQueue WITH DataQueues <- Data, items <- Items
IsFifo == Fifo!Spec
=============================================================================
