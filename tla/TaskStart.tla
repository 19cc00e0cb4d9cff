----------------------------- MODULE TaskStart -----------------------------
(***************************************************************************)
(* The start of the firmware (scheduler_task.cpp): main() creates the      *)
(* tasks, calls init() of each and starts the kernel; the task with the    *)
(* largest stack calls taskEntry() of all of them and then lets everybody  *)
(* through a gate to the loop that calls run().                            *)
(*                                                                         *)
(* The kernel gives the processor to a ready task of the highest priority. *)
(* taskEntry() and run() may wait in the kernel and may suspend it, and    *)
(* run() of the wireless task services the mesh.                           *)
(***************************************************************************)
EXTENDS Naturals, SequencesExt

CONSTANTS TaskList,            \* gpTaskList
          StackSize, Priority, \* of each task
          Wireless, NoTask

Tasks == ToSet(TaskList)
Count == Len(TaskList)

ASSUME TaskStartAssumption ==
    /\ TaskList \in Seq(Tasks) /\ IsInjective(TaskList) /\ Wireless \in Tasks /\ NoTask \notin Tasks
    /\ StackSize \in [Tasks -> Nat] /\ Priority \in [Tasks -> Nat]

VARIABLES main,      \* where main() is
          inits,     \* calls of init() so far
          failure,   \* something failed before the kernel ran
          kernel,    \* off, running, or ended
          holder,    \* the task that has suspended the scheduler
          at,        \* where each task is
          blocked,   \* tasks that wait in the kernel
          entries, entryFailure, given,   \* taskEntry() calls, and semaphores given
          permits    \* gRunTaskSemaphore

startVars == <<main, inits, failure, kernel, holder, at, blocked, entries, entryFailure, given, permits>>

StartInit ==
    /\ main = "create" /\ inits = 0 /\ failure = FALSE
    /\ kernel = "off" /\ holder = NoTask
    /\ at = [t \in Tasks |-> "begin"] /\ blocked = {}
    /\ entries = 0 /\ entryFailure = FALSE /\ given = 0 /\ permits = 0

xTaskGetSchedulerState ==
    IF kernel # "running" THEN "notStarted" ELSE IF holder = NoTask THEN "running" ELSE "suspended"

\* The first one of the list with the largest stack.
EntryTask ==
    TaskList[CHOOSE i \in 1 .. Count : \A j \in 1 .. Count :
                StackSize[TaskList[j]] < StackSize[TaskList[i]]
                    \/ (StackSize[TaskList[j]] = StackSize[TaskList[i]] /\ i <= j)]

-----------------------------------------------------------------------------
(***************************************************************************)
(* main().                                                                 *)
(***************************************************************************)
\* A task or the semaphore may not be created.
CreateTasks ==
    /\ main = "create" /\ main' = "init"
    /\ failure' \in BOOLEAN
    /\ UNCHANGED <<inits, kernel, holder, at, blocked, entries, entryFailure, given, permits>>

InitTask ==
    /\ main = "init" /\ inits < Count
    /\ inits' = inits + 1 /\ failure' \in {failure, TRUE}
    /\ UNCHANGED <<main, kernel, holder, at, blocked, entries, entryFailure, given, permits>>

scheduler_start ==
    /\ main = "init" /\ inits = Count
    /\ IF failure THEN main' = "refused" /\ UNCHANGED kernel
                  ELSE main' = "started" /\ kernel' = "running"
    /\ UNCHANGED <<inits, failure, holder, at, blocked, entries, entryFailure, given, permits>>

-----------------------------------------------------------------------------
(***************************************************************************)
(* The tasks: scheduler_c_task_private().                                  *)
(***************************************************************************)
Ready(t) == /\ t \notin blocked /\ at[t] # "suspended"
            /\ at[t] = "gate" => permits > 0

HasCpu(t) ==
    /\ main = "started" /\ Ready(t)
    /\ IF holder # NoTask THEN t = holder
       ELSE \A u \in Tasks : Ready(u) => Priority[u] <= Priority[t]

Goes(t, from, to) == HasCpu(t) /\ at[t] = from /\ at' = [at EXCEPT ![t] = to]

Begin(t) ==
    /\ Goes(t, "begin", IF t = EntryTask THEN "entry" ELSE "gate")
    /\ UNCHANGED <<main, inits, failure, kernel, holder, blocked, entries, entryFailure, given, permits>>

taskEntry(t) ==
    /\ Goes(t, "entry", "entry") /\ entries < Count
    /\ entries' = entries + 1 /\ entryFailure' \in {entryFailure, TRUE}
    /\ UNCHANGED <<main, inits, failure, kernel, holder, blocked, given, permits>>

\* vTaskEndScheduler() only clears xSchedulerRunning, and the task goes on to the gate.
\* Mutant: the gate is opened in any case.
EndEntriesAnyway(t) ==
    /\ Goes(t, "entry", "give") /\ entries = Count /\ holder = NoTask
    /\ kernel' = IF entryFailure THEN "ended" ELSE kernel
    /\ UNCHANGED <<main, inits, failure, holder, blocked, entries, entryFailure, given, permits>>
EndEntries(t) ==
    /\ Goes(t, "entry", IF entryFailure THEN "gate" ELSE "give") /\ entries = Count /\ holder = NoTask
    /\ kernel' = IF entryFailure THEN "ended" ELSE kernel
    /\ UNCHANGED <<main, inits, failure, holder, blocked, entries, entryFailure, given, permits>>

Give(t) ==
    /\ Goes(t, "give", IF given + 1 = Count THEN "gate" ELSE "give")
    /\ given' = given + 1 /\ permits' = permits + 1
    /\ UNCHANGED <<main, inits, failure, kernel, holder, blocked, entries, entryFailure>>

TakeGate(t) ==
    /\ Goes(t, "gate", "run") /\ permits > 0 /\ permits' = permits - 1
    /\ UNCHANGED <<main, inits, failure, kernel, holder, blocked, entries, entryFailure, given>>

\* run() fails and the task suspends itself; wireless_service() gets to mesh_service() and back.
Run(t) ==
    /\ holder = NoTask
    /\ \/ Goes(t, "run", "suspended")
       \/ t = Wireless /\ (Goes(t, "run", "service") \/ Goes(t, "service", "run"))
    /\ UNCHANGED <<main, inits, failure, kernel, holder, blocked, entries, entryFailure, given, permits>>

resume(t) ==
    /\ at[t] = "suspended" /\ \E u \in Tasks : HasCpu(u) /\ at[u] = "run"
    /\ at' = [at EXCEPT ![t] = "run"]
    /\ UNCHANGED <<main, inits, failure, kernel, holder, blocked, entries, entryFailure, given, permits>>

-----------------------------------------------------------------------------
(***************************************************************************)
(* The kernel.                                                             *)
(***************************************************************************)
Block(t) ==
    /\ HasCpu(t) /\ at[t] \in {"entry", "run"} /\ holder = NoTask
    /\ blocked' = blocked \union {t}
    /\ UNCHANGED <<main, inits, failure, kernel, holder, at, entries, entryFailure, given, permits>>

Wake(t) ==
    /\ t \in blocked /\ blocked' = blocked \ {t}
    /\ UNCHANGED <<main, inits, failure, kernel, holder, at, entries, entryFailure, given, permits>>

\* mesh_service() makes no call that suspends the scheduler: its calls do not wait.
vTaskSuspendAll(t) ==
    /\ HasCpu(t) /\ holder = NoTask /\ at[t] \in {"entry", "run"} /\ holder' = t
    /\ UNCHANGED <<main, inits, failure, kernel, at, blocked, entries, entryFailure, given, permits>>

xTaskResumeAll ==
    /\ holder # NoTask /\ holder' = NoTask
    /\ UNCHANGED <<main, inits, failure, kernel, at, blocked, entries, entryFailure, given, permits>>

StartNext ==
    \/ CreateTasks \/ InitTask \/ scheduler_start \/ xTaskResumeAll
    \/ \E t \in Tasks : \/ Begin(t) \/ taskEntry(t) \/ EndEntries(t) \/ Give(t) \/ TakeGate(t)
                        \/ Run(t) \/ resume(t) \/ Block(t) \/ Wake(t) \/ vTaskSuspendAll(t)
=============================================================================
