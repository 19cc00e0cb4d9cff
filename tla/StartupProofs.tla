--------------------------- MODULE StartupProofs ---------------------------
(***************************************************************************)
(* Proofs about the start of the tasks, for every list of tasks, their     *)
(* stacks and priorities.                                                  *)
(***************************************************************************)
EXTENDS Startup, TLAPS

Places == {"begin", "entry", "gate", "give", "run", "service", "suspended"}
Beyond == {"run", "service", "suspended"}

\* The part of the state that the gate depends on.
StartOK ==
    /\ main \in {"create", "init", "started", "refused"}
    /\ at \in [Tasks -> Places]
    /\ permits \in Nat /\ entries \in Nat

\* Before the kernel runs no task has moved, and it only runs when all has gone well.
NotStarted == main # "started" => \A t \in Tasks : at[t] = "begin"
StartedWell == main = "started" => inits = Count /\ ~ failure

\* Semaphores are given, and there are some, only when no taskEntry() has failed.
Opened == permits > 0 \/ \E t \in Tasks : at[t] \in Beyond \union {"give"}
GateSound == Opened => entries = Count /\ ~ entryFailure

GateInv == StartOK /\ NotStarted /\ StartedWell /\ GateSound

\* The number of tasks is a number.
LEMMA CountIsNat == Count \in Nat
  <1>1. TaskList \in Seq(Tasks) BY TaskStartAssumption
  <1> HIDE DEF Tasks
  <1> QED BY <1>1 DEF Count

\* Before the kernel starts the gate is closed.
LEMMA GateInit == Init => GateInv
  <1> SUFFICES ASSUME Init PROVE GateInv OBVIOUS
  <1>1. StartOK BY DEF Init, StartInit, StartOK, Places
  <1>2. NotStarted /\ StartedWell BY DEF Init, StartInit, NotStarted, StartedWell
  <1>3. GateSound BY DEF Init, StartInit, GateSound, Opened, Beyond
  <1> QED BY <1>1, <1>2, <1>3 DEF GateInv

\* A task that goes from one place to another, not through the gate.
LEMMA GoesKeeps ==
    ASSUME GateInv, NEW t \in Tasks, NEW from, NEW to \in Places,
           Goes(t, from, to), to \in Beyond \union {"give"} => from \in Beyond \union {"give"},
           UNCHANGED <<main, inits, failure, entries, entryFailure, permits>>
    PROVE  GateInv'
  <1>1. /\ main = "started" /\ at[t] = from /\ at' = [at EXCEPT ![t] = to]
    BY DEF Goes, HasCpu
  <1>2. StartOK' BY <1>1 DEF GateInv, StartOK
  <1>3. (NotStarted /\ StartedWell)' BY <1>1 DEF GateInv, NotStarted, StartedWell
  <1>4. Opened' => Opened
    <2>1. \A u \in Tasks : at'[u] = IF u = t THEN to ELSE at[u] BY <1>1 DEF GateInv, StartOK
    <2> QED BY <1>1, <2>1 DEF Opened
  <1>5. GateSound' BY <1>4 DEF GateInv, GateSound
  <1> QED BY <1>2, <1>3, <1>5 DEF GateInv

\* Every step of the tasks, the timer and the interrupt keeps the gate.
LEMMA GateStep == GateInv /\ [Next]_vars => GateInv'
  <1> SUFFICES ASSUME GateInv, [Next]_vars PROVE GateInv' OBVIOUS
  <1>0. CASE UNCHANGED startVars
    BY <1>0 DEF startVars, GateInv, StartOK, NotStarted, StartedWell, GateSound, Opened
  <1>1. CASE CreateTasks
    BY <1>1 DEF CreateTasks, GateInv, StartOK, NotStarted, StartedWell, GateSound, Opened
  <1>2. CASE InitTask
    BY <1>2 DEF InitTask, GateInv, StartOK, NotStarted, StartedWell, GateSound, Opened
  <1>3. CASE scheduler_start
    <2>1. main = "init" /\ inits = Count /\ UNCHANGED <<inits, failure, at, entries, entryFailure, permits>>
      BY <1>3 DEF scheduler_start
    <2>2. main' \in {"started", "refused"} /\ (main' = "started" => ~ failure) BY <1>3 DEF scheduler_start
    <2> QED BY <2>1, <2>2 DEF GateInv, StartOK, NotStarted, StartedWell, GateSound, Opened
  <1>4. CASE xTaskResumeAll
    BY <1>4 DEF xTaskResumeAll, GateInv, StartOK, NotStarted, StartedWell, GateSound, Opened
  <1>5. ASSUME NEW t \in Tasks, Begin(t) PROVE GateInv'
    <2> DEFINE to == IF t = EntryTask THEN "entry" ELSE "gate"
    <2>1. Goes(t, "begin", to) BY <1>5 DEF Begin
    <2>2. to \in Places /\ to \notin Beyond \union {"give"}
      <3>1. to \in {"entry", "gate"} OBVIOUS
      <3> QED BY <3>1 DEF Places, Beyond
    <2>3. UNCHANGED <<main, inits, failure, entries, entryFailure, permits>> BY <1>5 DEF Begin
    <2> HIDE DEF to
    <2> QED BY <2>1, <2>2, <2>3, GoesKeeps
  <1>6. ASSUME NEW t \in Tasks, taskEntry(t) PROVE GateInv'
    <2>1. /\ main = "started" /\ at[t] = "entry" /\ at' = [at EXCEPT ![t] = "entry"]
      BY <1>6 DEF taskEntry, Goes, HasCpu
    <2>2. entries # Count /\ entries' = entries + 1 BY <1>6, CountIsNat DEF taskEntry, GateInv, StartOK
    <2>3. at' = at BY <2>1 DEF GateInv, StartOK
    <2>4. ~ Opened BY <2>2 DEF GateInv, GateSound
    <2>5. UNCHANGED <<main, inits, failure, permits>> BY <1>6 DEF taskEntry
    <2> QED BY <2>2, <2>3, <2>4, <2>5 DEF GateInv, StartOK, NotStarted, StartedWell, GateSound, Opened
  <1>7. ASSUME NEW t \in Tasks, EndEntries(t) PROVE GateInv'
    <2>1. UNCHANGED <<main, inits, failure, entries, entryFailure, permits>> /\ entries = Count
      BY <1>7 DEF EndEntries
    <2>2. CASE entryFailure
      <3>1. Goes(t, "entry", "gate") BY <1>7, <2>2 DEF EndEntries
      <3> QED BY <3>1, <2>1, GoesKeeps DEF Places, Beyond
    <2>3. CASE ~ entryFailure
      <3>1. main = "started" /\ at' = [at EXCEPT ![t] = "give"]
        BY <1>7, <2>3 DEF EndEntries, Goes, HasCpu
      <3>2. StartOK' BY <3>1, <2>1 DEF GateInv, StartOK, Places
      <3> QED BY <3>1, <3>2, <2>1, <2>3 DEF GateInv, NotStarted, StartedWell, GateSound
    <2> QED BY <2>2, <2>3
  <1>8. ASSUME NEW t \in Tasks, Give(t) PROVE GateInv'
    <2>1. /\ main = "started" /\ at[t] = "give" /\ permits' = permits + 1
          /\ at' = [at EXCEPT ![t] = IF given + 1 = Count THEN "gate" ELSE "give"]
          /\ UNCHANGED <<main, inits, failure, entries, entryFailure>>
      BY <1>8 DEF Give, Goes, HasCpu
    <2>2. entries = Count /\ ~ entryFailure BY <2>1 DEF GateInv, GateSound, Opened
    <2>3. StartOK' BY <2>1 DEF GateInv, StartOK, Places
    <2> QED BY <2>1, <2>2, <2>3 DEF GateInv, NotStarted, StartedWell, GateSound
  <1>9. ASSUME NEW t \in Tasks, TakeGate(t) PROVE GateInv'
    <2>1. /\ main = "started" /\ permits > 0 /\ permits' = permits - 1
          /\ at' = [at EXCEPT ![t] = "run"]
          /\ UNCHANGED <<main, inits, failure, entries, entryFailure>>
      BY <1>9 DEF TakeGate, Goes, HasCpu
    <2>2. entries = Count /\ ~ entryFailure BY <2>1 DEF GateInv, GateSound, Opened
    <2>3. StartOK' BY <2>1 DEF GateInv, StartOK, Places
    <2> QED BY <2>1, <2>2, <2>3 DEF GateInv, NotStarted, StartedWell, GateSound
  <1>10. ASSUME NEW t \in Tasks, Run(t) PROVE GateInv'
    <2>1. UNCHANGED <<main, inits, failure, entries, entryFailure, permits>> BY <1>10 DEF Run
    <2>2. PICK from, to \in Beyond : Goes(t, from, to) BY <1>10 DEF Run, Beyond
    <2> QED BY <2>1, <2>2, GoesKeeps DEF Places, Beyond
  <1>11. ASSUME NEW t \in Tasks, resume(t) PROVE GateInv'
    <2>1. /\ at[t] = "suspended" /\ at' = [at EXCEPT ![t] = "run"]
          /\ UNCHANGED <<main, inits, failure, entries, entryFailure, permits>>
      BY <1>11 DEF resume
    <2>2. main = "started" BY <2>1 DEF GateInv, NotStarted
    <2>3. entries = Count /\ ~ entryFailure BY <2>1 DEF GateInv, GateSound, Opened, Beyond
    <2>4. StartOK' BY <2>1 DEF GateInv, StartOK, Places
    <2> QED BY <2>1, <2>2, <2>3, <2>4 DEF GateInv, NotStarted, StartedWell, GateSound
  <1>12. ASSUME NEW t \in Tasks, Block(t) \/ Wake(t) \/ vTaskSuspendAll(t) PROVE GateInv'
    BY <1>12 DEF Block, Wake, vTaskSuspendAll, GateInv, StartOK, NotStarted, StartedWell, GateSound, Opened
  <1> QED
    BY <1>0, <1>1, <1>2, <1>3, <1>4, <1>5, <1>6, <1>7, <1>8, <1>9, <1>10, <1>11, <1>12
    DEF Next, StartNext, vars

\* No task runs its loop before every init() and every taskEntry() was called and has
\* succeeded (scheduler_task.cpp:117-155).
THEOREM GateHolds == Spec => []RunAfterEntries
  <1>1. GateInv => RunAfterEntries
    BY DEF GateInv, StartOK, NotStarted, StartedWell, GateSound, Opened, Beyond, RunAfterEntries
  <1> QED BY <1>1, GateInit, GateStep, PTL DEF Spec

-----------------------------------------------------------------------------
(***************************************************************************)
(* One servant of the mesh.                                                *)
(***************************************************************************)
\* While the wireless task is in mesh_service() the kernel runs and nobody has suspended
\* it: the task goes before all others, and mesh_service() itself does not wait.
ServingRuns ==
    at[Wireless] = "service" => kernel = "running" /\ holder = NoTask /\ Wireless \notin blocked

KernelRuns == main = "started" => kernel = "running" \/ (kernel = "ended" /\ entries = Count /\ entryFailure)

ServeInv == GateInv /\ ServingRuns /\ KernelRuns /\ ServicedByOne

\* While the wireless task is in the mesh no other task has the processor.
LEMMA ServingHasCpu ==
    ASSUME GateInv, ServingRuns, at[Wireless] = "service", NEW t \in Tasks, HasCpu(t)
    PROVE  t = Wireless
  <1>1. Ready(Wireless) /\ holder = NoTask BY DEF ServingRuns, Ready
  <1>2. Priority[Wireless] <= Priority[t] BY <1>1, TaskStartAssumption DEF HasCpu
  <1>3. Priority[Wireless] \in Nat /\ Priority[t] \in Nat BY TaskStartAssumption
  <1> QED BY <1>2, <1>3, WirelessFirst

\* At first nobody services the mesh.
LEMMA ServeInit == Init => ServeInv
  <1> SUFFICES ASSUME Init PROVE ServeInv OBVIOUS
  <1>1. GateInv BY GateInit
  <1>2. at[Wireless] = "begin" /\ main = "create" /\ isr = "none"
    BY TaskStartAssumption DEF Init, StartInit, TimerInit
  <1> QED BY <1>1, <1>2 DEF ServeInv, ServingRuns, KernelRuns, ServicedByOne

\* The timer and its interrupt: it starts to service the mesh only when the kernel does not run.
LEMMA ServeTimer ==
    ASSUME ServeInv, TimerNext(xTaskGetSchedulerState), UNCHANGED startVars
    PROVE  ServingRuns' /\ KernelRuns' /\ ServicedByOne'
  <1>1. ServingRuns' /\ KernelRuns' BY DEF ServeInv, ServingRuns, KernelRuns, startVars
  <1>2. isr' = "service" => isr = "service" \/ xTaskGetSchedulerState # "running"
    <2> DEFINE state == xTaskGetSchedulerState
    <2> HIDE DEF state
    <2>1. ASSUME MeshServicing(state), isr' = "service" PROVE state # "running"
      BY <2>1 DEF MeshServicing
    <2>2. ASSUME IRQHandler PROVE isr' # "service" BY <2>2 DEF IRQHandler, Reason
    <2>3. ASSUME \/ Tick \/ Edge \/ Rollover \/ StoreIrCode \/ DecodeIrCode \/ FeedWatchdog \/ EndService \/ Mask
                 \/ \E r \in {"task", "isr"} : ReadBefore(r) \/ ReadRollovers(r) \/ ReadAfter(r) \/ Return(r)
          PROVE  isr' = isr \/ isr' = "none"
      BY <2>3 DEF Tick, Edge, Rollover, StoreIrCode, DecodeIrCode, FeedWatchdog, EndService, Mask,
                  ReadBefore, ReadRollovers, ReadAfter, Return
    <2>4. TimerNext(state) BY DEF state
    <2>5. isr' = "service" => isr = "service" \/ state # "running"
      BY <2>1, <2>2, <2>3, <2>4 DEF TimerNext
    <2> QED BY <2>5 DEF state
  <1>3. at[Wireless] = "service" => xTaskGetSchedulerState = "running"
    BY DEF ServeInv, ServingRuns, xTaskGetSchedulerState
  <1>4. at' = at BY DEF startVars
  <1> QED BY <1>1, <1>2, <1>3, <1>4 DEF ServeInv, ServicedByOne

\* A step of the tasks is taken when the interrupt serves nothing.
LEMMA ServeTasks ==
    ASSUME ServeInv, GateInv', Quiet, StartNext, UNCHANGED timerVars
    PROVE  ServingRuns' /\ KernelRuns' /\ ServicedByOne'
  <1>1. ServicedByOne' BY DEF Quiet, timerVars, ServicedByOne
  <1>2. ServingRuns' /\ KernelRuns'
    <2> USE TaskStartAssumption
    <2>1. CASE CreateTasks \/ InitTask \/ xTaskResumeAll
      BY <2>1 DEF CreateTasks, InitTask, xTaskResumeAll, ServeInv, ServingRuns, KernelRuns
    <2>2. CASE scheduler_start
      <3>1. at[Wireless] = "begin" BY <2>2 DEF scheduler_start, ServeInv, GateInv, NotStarted
      <3>2. at' = at /\ (main' = "started" => kernel' = "running") BY <2>2 DEF scheduler_start
      <3> QED BY <3>1, <3>2 DEF ServingRuns, KernelRuns
    <2>3. ASSUME NEW t \in Tasks, Begin(t) \/ taskEntry(t) \/ Give(t) \/ TakeGate(t) PROVE ServingRuns' /\ KernelRuns'
      <3>1. PICK from, to \in {"begin", "entry", "gate", "give", "run"} : Goes(t, from, to)
        BY <2>3 DEF Begin, taskEntry, Give, TakeGate
      <3>2. at[t] = from /\ at' = [at EXCEPT ![t] = to] /\ at \in [Tasks -> Places] /\ HasCpu(t)
        BY <3>1 DEF Goes, ServeInv, GateInv, StartOK
      <3>3. at'[Wireless] = "service" => at[Wireless] = "service" BY <3>2
      <3>4. UNCHANGED <<main, kernel, holder, blocked>> BY <2>3 DEF Begin, taskEntry, Give, TakeGate
      <3>5. ServingRuns' BY <3>3, <3>4 DEF ServeInv, ServingRuns
      <3>6. KernelRuns'
        <4>1. CASE taskEntry(t)
          <5>1. entries # Count BY <4>1, CountIsNat DEF taskEntry, ServeInv, GateInv, StartOK
          <5> QED BY <5>1, <3>4 DEF ServeInv, KernelRuns
        <4>2. CASE Begin(t) \/ Give(t) \/ TakeGate(t)
          BY <4>2 DEF Begin, Give, TakeGate, ServeInv, KernelRuns
        <4> QED BY <2>3, <4>1, <4>2
      <3> QED BY <3>5, <3>6
    <2>4. ASSUME NEW t \in Tasks, EndEntries(t) PROVE ServingRuns' /\ KernelRuns'
      <3>1. /\ at[t] = "entry" /\ HasCpu(t) /\ entries = Count
            /\ UNCHANGED <<main, holder, blocked, entries, entryFailure>>
        BY <2>4 DEF EndEntries, Goes
      <3>2. at[Wireless] # "service" BY <3>1, ServingHasCpu DEF ServeInv
      <3>3. PICK to \in {"gate", "give"} : at' = [at EXCEPT ![t] = to] BY <2>4 DEF EndEntries, Goes
      <3>4. at'[Wireless] # "service" BY <3>2, <3>3 DEF ServeInv, GateInv, StartOK
      <3>5. kernel' = IF entryFailure THEN "ended" ELSE kernel BY <2>4 DEF EndEntries
      <3> QED BY <3>1, <3>4, <3>5 DEF ServeInv, ServingRuns, KernelRuns
    <2>5. ASSUME NEW t \in Tasks, Run(t) PROVE ServingRuns' /\ KernelRuns'
      <3>1. UNCHANGED <<main, kernel, holder, blocked, entries, entryFailure>> /\ holder = NoTask BY <2>5 DEF Run
      <3>2. PICK from, to \in Beyond : Goes(t, from, to) BY <2>5 DEF Run, Beyond
      <3>3. /\ main = "started" /\ at[t] \in Beyond /\ Ready(t)
            /\ at' = [at EXCEPT ![t] = to] /\ at \in [Tasks -> Places]
        BY <3>2 DEF Goes, HasCpu, ServeInv, GateInv, StartOK
      <3>4. kernel = "running" BY <3>3 DEF ServeInv, KernelRuns, GateInv, GateSound, Opened
      <3>5. Wireless = t \/ at'[Wireless] = at[Wireless] BY <3>3
      <3> QED BY <3>1, <3>3, <3>4, <3>5 DEF Ready, ServeInv, ServingRuns, KernelRuns
    <2>6. ASSUME NEW t \in Tasks, resume(t) PROVE ServingRuns' /\ KernelRuns'
      <3>1. at[t] = "suspended" /\ at' = [at EXCEPT ![t] = "run"] /\ at \in [Tasks -> Places]
        BY <2>6 DEF resume, ServeInv, GateInv, StartOK
      <3>2. at'[Wireless] = "service" => at[Wireless] = "service" BY <3>1
      <3> QED BY <2>6, <3>2 DEF resume, ServeInv, ServingRuns, KernelRuns
    <2>7. ASSUME NEW t \in Tasks, Block(t) \/ vTaskSuspendAll(t) PROVE ServingRuns' /\ KernelRuns'
      <3>1. HasCpu(t) /\ at[t] # "service" /\ UNCHANGED <<main, at, kernel, entries, entryFailure>>
        BY <2>7 DEF Block, vTaskSuspendAll
      <3>2. at[Wireless] # "service" BY <3>1, ServingHasCpu DEF ServeInv
      <3> QED BY <3>1, <3>2 DEF ServeInv, ServingRuns, KernelRuns
    <2>8. ASSUME NEW t \in Tasks, Wake(t) PROVE ServingRuns' /\ KernelRuns'
      BY <2>8 DEF Wake, ServeInv, ServingRuns, KernelRuns
    <2> QED BY <2>1, <2>2, <2>3, <2>4, <2>5, <2>6, <2>7, <2>8 DEF StartNext
  <1> QED BY <1>1, <1>2

\* The mesh is never serviced by the timer's interrupt and the wireless task at once, if
\* that task has the highest priority of all (lpc_sys.cpp:185, wireless.c:124).
THEOREM MeshServicedByOne == Spec => []ServicedByOne
  <1>1. ServeInv /\ [Next]_vars => ServeInv'
    <2> SUFFICES ASSUME ServeInv, [Next]_vars PROVE ServeInv' OBVIOUS
    <2>1. GateInv' BY GateStep DEF ServeInv
    <2>2. ServingRuns' /\ KernelRuns' /\ ServicedByOne'
      <3>1. CASE UNCHANGED vars
        BY <3>1 DEF vars, startVars, timerVars, ServeInv, ServingRuns, KernelRuns, ServicedByOne
      <3> QED BY <2>1, <3>1, ServeTimer, ServeTasks DEF Next
    <2> QED BY <2>1, <2>2 DEF ServeInv
  <1>2. ServeInv => ServicedByOne BY DEF ServeInv
  <1> QED BY <1>1, <1>2, ServeInit, PTL DEF Spec
-----------------------------------------------------------------------------
(***************************************************************************)
(* The time that sys_get_uptime_us() returns.                              *)
(***************************************************************************)
Reading == [at : {"idle", "count", "after", "before", "done"}, before : Nat, count : Nat,
            off : Int, after : Nat, late : BOOLEAN]

TimerOK ==
    /\ elapsed \in Nat /\ tc = elapsed % Turn /\ rollovers \in Nat /\ masked \in BOOLEAN
    /\ reading \in [{"task", "isr"} -> Reading]

Bit(b) == IF b THEN 1 ELSE 0

\* The timer has matched MR0 once in every turn; what the interrupt has not counted is a
\* match that it has yet to see, or serves.
Counted == rollovers + Bit("mr0" \in ir) + Bit(isr = "mr0") = (elapsed + 1) \div Turn

\* The interrupt cannot count while r reads.
HeldOff(r) == IF r = "task" THEN masked ELSE isr = "service"

\* The count that was read is that of some time since TC was read, but for the match that
\* the reader itself keeps from being counted.
Between(r, l) ==
    /\ (reading[r].before + 1) \div Turn <= reading[r].count + l
    /\ reading[r].count + l <= (elapsed + 1) \div Turn
    /\ l = 1 => "mr0" \in ir /\ HeldOff(r)
CountOK(r) ==
    /\ reading[r].at \in {"count", "after"} =>
          reading[r].before <= elapsed /\ elapsed < reading[r].before + Turn
    /\ reading[r].at = "after" => Between(r, 0) \/ Between(r, 1)

OnlyServing == reading["isr"].at # "idle" => isr = "service"

Exact(r) ==
    reading[r].at = "done" =>
        \/ reading[r].off = 0
        \/ reading[r].off = Turn /\ reading[r].after = Turn - 1
        \/ reading[r].off = - Turn /\ reading[r].late

ReadingsOK == \A r \in {"task", "isr"} : CountOK(r) /\ Exact(r)

TimeInv == TimerOK /\ Counted /\ OnlyServing /\ ReadingsOK

LEMMA TurnIsNat == Turn \in Nat /\ Turn > 2
  <1>1. Turn \in Nat /\ Period \in 1 .. Turn - 2 BY SystemTimerAssumption
  <1> QED BY <1>1

\* A time is so many turns and a value of the timer.
LEMMA TurnsAndTime ==
    ASSUME NEW e \in Nat
    PROVE  /\ e \div Turn \in Nat /\ e % Turn \in 0 .. Turn - 1
           /\ e = (e \div Turn) * Turn + (e % Turn)
  BY TurnIsNat, SMT

\* A tick ends a turn or is one more in it.
LEMMA OneMore ==
    ASSUME NEW e \in Nat
    PROVE  /\ (e + 1) \div Turn = (e \div Turn) + Bit(e % Turn = Turn - 1)
           /\ (e + 1) % Turn = (IF e % Turn = Turn - 1 THEN 0 ELSE (e % Turn) + 1)
  BY TurnIsNat, SMTT(60) DEF Bit

\* Times are ordered by their turns and then within the turn.
LEMMA TurnsOrdered ==
    ASSUME NEW a \in Nat, NEW b \in Nat, NEW r \in 0 .. Turn - 1, NEW s \in 0 .. Turn - 1,
           a * Turn + r <= b * Turn + s
    PROVE  a < b \/ (a = b /\ r <= s)
  <1>1. ASSUME a > b PROVE FALSE
    <2>1. PICK d \in Nat : a = b + 1 + d BY <1>1
    <2>2. a * Turn = b * Turn + Turn + d * Turn BY <2>1, TurnIsNat
    <2>3. d * Turn \in Nat /\ a * Turn \in Nat /\ b * Turn \in Nat BY TurnIsNat
    <2> QED BY <2>2, <2>3, TurnIsNat
  <1> QED BY <1>1, TurnIsNat

\* Two times less than a turn apart are in the same turn, if the timer has not gone back.
LEMMA SameTurn ==
    ASSUME NEW b \in Nat, NEW e \in Nat, b <= e, e < b + Turn, ~ (e % Turn < b % Turn)
    PROVE  e \div Turn = b \div Turn
  <1> DEFINE m == b \div Turn
             n == e \div Turn
  <1>1. /\ m \in Nat /\ b % Turn \in 0 .. Turn - 1 /\ b = m * Turn + (b % Turn)
        /\ n \in Nat /\ e % Turn \in 0 .. Turn - 1 /\ e = n * Turn + (e % Turn)
    BY TurnsAndTime
  <1> HIDE DEF m, n
  <1>2. m <= n BY <1>1, TurnsOrdered, TurnIsNat
  <1>3. ASSUME n > m PROVE FALSE
    <2>1. PICK d \in Nat : n = m + 1 + d BY <1>1, <1>3
    <2>2. n * Turn = m * Turn + Turn + d * Turn /\ d * Turn \in Nat /\ m * Turn \in Nat
      BY <2>1, <1>1, TurnIsNat
    <2> QED BY <2>2, <1>1, TurnIsNat
  <1> QED BY <1>1, <1>2, <1>3 DEF m, n

\* The later of two times is not in an earlier turn.
LEMMA TurnsMonotone ==
    ASSUME NEW a \in Nat, NEW b \in Nat, a <= b
    PROVE  (a + 1) \div Turn <= (b + 1) \div Turn
  <1> DEFINE m == (a + 1) \div Turn
             n == (b + 1) \div Turn
  <1>1. /\ m \in Nat /\ (a + 1) % Turn \in 0 .. Turn - 1 /\ a + 1 = m * Turn + ((a + 1) % Turn)
        /\ n \in Nat /\ (b + 1) % Turn \in 0 .. Turn - 1 /\ b + 1 = n * Turn + ((b + 1) % Turn)
    BY TurnsAndTime
  <1> HIDE DEF m, n
  <1>2. m < n \/ m = n BY <1>1, TurnsOrdered
  <1> QED BY <1>1, <1>2 DEF m, n

\* A value of the timer is a time of the first turn.
LEMMA FirstTurn ==
    ASSUME NEW x \in 0 .. Turn - 1
    PROVE  x \div Turn = 0 /\ x % Turn = x
  <1> DEFINE q == x \div Turn
             y == x % Turn
  <1>1. x \in Nat /\ q \in Nat /\ y \in 0 .. Turn - 1 /\ x = q * Turn + y BY TurnIsNat, TurnsAndTime
  <1> HIDE DEF q, y
  <1>2. 0 * Turn + x = x /\ 0 \in Nat BY <1>1, TurnIsNat
  <1>3. q * Turn + y <= 0 * Turn + x /\ 0 * Turn + x <= q * Turn + y
    <2>1. q * Turn \in Nat BY <1>1, TurnIsNat
    <2> QED BY <2>1, <1>1, <1>2
  <1>4. (q < 0 \/ (q = 0 /\ y <= x)) /\ (0 < q \/ (0 = q /\ x <= y)) BY <1>1, <1>2, <1>3, TurnsOrdered
  <1>5. q = 0 /\ y = x BY <1>1, <1>4
  <1> QED BY <1>5 DEF q, y

LEMMA ReadingAt ==
    ASSUME NEW r \in Reading
    PROVE  [r EXCEPT !.at = "before"] \in Reading
  BY DEF Reading

LEMMA ReadingDone ==
    ASSUME NEW r \in Reading, NEW n \in Nat, NEW l \in BOOLEAN, NEW o \in Int
    PROVE  [r EXCEPT !.at = "done", !.after = n, !.late = l, !.off = o] \in Reading
  BY DEF Reading

LEMMA TimeInit == Init => TimeInv
  <1> SUFFICES ASSUME Init PROVE TimeInv OBVIOUS
  <1>1. /\ tc = 0 /\ rollovers = 0 /\ elapsed = 0 /\ ir = {} /\ isr = "none" /\ masked = FALSE
        /\ reading = [r \in {"task", "isr"} |-> NotReading]
    BY DEF Init, TimerInit
  <1>2. 0 % Turn = 0 /\ (0 + 1) \div Turn = 0
    <2>1. 0 \in 0 .. Turn - 1 /\ 1 \in 0 .. Turn - 1 /\ 0 + 1 = 1 BY TurnIsNat
    <2>2. 0 % Turn = 0 /\ 1 \div Turn = 0 BY <2>1, FirstTurn
    <2> QED BY <2>1, <2>2
  <1>3. TimerOK
    <2>1. NotReading \in Reading BY DEF NotReading, Reading
    <2> QED BY <1>1, <1>2, <2>1 DEF TimerOK
  <1>4. Counted BY <1>1, <1>2 DEF Counted, Bit
  <1>5. OnlyServing BY <1>1 DEF OnlyServing, NotReading
  <1>6. ReadingsOK BY <1>1 DEF ReadingsOK, CountOK, Exact, NotReading
  <1> QED BY <1>3, <1>4, <1>5, <1>6 DEF TimeInv

\* A reading goes on while the time does, as long as the interrupt stays as it is for it.
LEMMA ReadingGoesOn ==
    ASSUME TimeInv, NEW r \in {"task", "isr"}, reading'[r] = reading[r], elapsed' = elapsed,
           reading[r].at = "after" /\ "mr0" \in ir /\ HeldOff(r) => ("mr0" \in ir)' /\ HeldOff(r)'
    PROVE  (CountOK(r) /\ Exact(r))'
  <1>1. CountOK(r) /\ Exact(r) BY DEF TimeInv, ReadingsOK
  <1>2. Exact(r)' BY <1>1 DEF Exact
  <1>3. ASSUME NEW l \in {0, 1}, reading[r].at = "after", Between(r, l) PROVE Between(r, l)'
    BY <1>3 DEF Between
  <1>4. CountOK(r)' BY <1>1, <1>3 DEF CountOK
  <1> QED BY <1>2, <1>4

\* A tick: one more match at the end of a turn, which was not waiting already.
LEMMA TimeTick == ASSUME TimeInv, Tick PROVE TimeInv'
  <1>1. /\ elapsed \in Nat /\ tc = elapsed % Turn /\ elapsed' = elapsed + 1 /\ tc' = (tc + 1) % Turn
        /\ rollovers \in Nat /\ UNCHANGED <<isr, rollovers, masked, reading>>
        /\ ir' = ir \union Matches(tc') /\ ~ ("mr0" \in ir /\ tc' = Turn - 1)
    BY DEF Tick, TimeInv, TimerOK
  <1>2. /\ (elapsed + 1) % Turn = (IF tc = Turn - 1 THEN 0 ELSE tc + 1) /\ tc \in 0 .. Turn - 1
        /\ tc % Turn = tc
    <2>1. tc \in 0 .. Turn - 1 BY <1>1, TurnsAndTime
    <2> QED BY <1>1, <2>1, OneMore, FirstTurn
  <1>3. tc' = elapsed' % Turn
    <2>1. tc \in Nat BY <1>2, TurnIsNat
    <2>2. (tc + 1) % Turn = (IF tc = Turn - 1 THEN 0 ELSE tc + 1) BY <1>2, <2>1, OneMore
    <2> QED BY <1>1, <1>2, <2>2
  <1>4. TimerOK' BY <1>1, <1>3 DEF TimeInv, TimerOK
  <1>5. ("mr0" \in ir)' <=> "mr0" \in ir \/ tc' = Turn - 1
    BY <1>1 DEF Matches
  <1>6. (elapsed' + 1) \div Turn = ((elapsed + 1) \div Turn) + Bit(tc' = Turn - 1)
    BY <1>1, <1>3, OneMore
  <1>7. (elapsed + 1) \div Turn \in Nat BY <1>1, TurnsAndTime
  <1>8. Counted'
    BY <1>1, <1>5, <1>6, <1>7 DEF TimeInv, Counted, Bit
  <1>9. ReadingsOK'
    <2> SUFFICES ASSUME NEW r \in {"task", "isr"} PROVE (CountOK(r) /\ Exact(r))' BY DEF ReadingsOK
    <2>1. CountOK(r) /\ Exact(r) /\ reading[r] \in Reading BY DEF TimeInv, ReadingsOK, TimerOK
    <2>2. Exact(r)' BY <1>1, <2>1 DEF Exact
    <2>3. ASSUME NEW l \in {0, 1}, Between(r, l) PROVE Between(r, l)'
      <3>1. (reading[r].before + 1) \div Turn \in Nat /\ reading[r].count \in Nat
        BY <2>1, TurnsAndTime DEF Reading
      <3>2. (elapsed + 1) \div Turn <= (elapsed' + 1) \div Turn /\ (elapsed' + 1) \div Turn \in Nat
        BY <1>6, <1>7 DEF Bit
      <3>3. reading[r].count + l <= (elapsed' + 1) \div Turn
        BY <2>3, <3>1, <3>2, <1>7 DEF Between
      <3> QED BY <2>3, <3>3, <1>1, <1>5 DEF Between, HeldOff
    <2>4. reading[r].at \in {"count", "after"} => elapsed' < reading[r].before + Turn
      BY <2>1 DEF Tick, TimeInv, TimerOK
    <2>5. reading[r].before \in Nat BY <2>1 DEF Reading
    <2> QED BY <1>1, <2>1, <2>2, <2>3, <2>4, <2>5 DEF CountOK
  <1> QED BY <1>1, <1>4, <1>8, <1>9 DEF TimeInv, OnlyServing

\* The interrupt begins, serves and ends: a match moves to what it serves, and to the count.
LEMMA TimeInterrupt ==
    ASSUME TimeInv, NEW state,
           \/ Edge \/ IRQHandler \/ Rollover \/ StoreIrCode \/ DecodeIrCode \/ FeedWatchdog
           \/ MeshServicing(state) \/ EndService \/ Mask
    PROVE  TimeInv'
  <1>1. /\ elapsed' = elapsed /\ tc' = tc
        /\ reading' = reading \/ (EndService /\ reading' = [reading EXCEPT !["isr"] = NotReading])
    BY DEF Edge, IRQHandler, Rollover, StoreIrCode, DecodeIrCode, FeedWatchdog, MeshServicing, EndService, Mask
  <1>2. NotReading \in Reading BY DEF NotReading, Reading
  <1>3. rollovers' \in Nat /\ masked' \in BOOLEAN
    <2>1. rollovers \in Nat /\ masked \in BOOLEAN BY DEF TimeInv, TimerOK
    <2>2. (rollovers' = rollovers \/ rollovers' = rollovers + 1) /\ (masked' = masked \/ masked' = ~ masked)
      BY DEF Edge, IRQHandler, Rollover, StoreIrCode, DecodeIrCode, FeedWatchdog, MeshServicing, EndService, Mask
    <2>3. rollovers' \in Nat BY <2>1, <2>2
    <2>4. masked' \in BOOLEAN BY <2>1, <2>2, Zenon
    <2> QED BY <2>3, <2>4
  <1>4. TimerOK' BY <1>1, <1>2, <1>3 DEF TimeInv, TimerOK
  <1>5. Counted'
    <2>1. CASE Edge \/ StoreIrCode \/ DecodeIrCode \/ FeedWatchdog \/ MeshServicing(state) \/ EndService \/ Mask
      <3>1. /\ ("mr0" \in ir)' <=> "mr0" \in ir
            /\ (isr = "mr0")' <=> isr = "mr0"
            /\ rollovers' = rollovers
        BY <2>1 DEF Edge, StoreIrCode, DecodeIrCode, FeedWatchdog, MeshServicing, EndService, Mask
      <3> QED BY <3>1, <1>1 DEF TimeInv, Counted, Bit
    <2>2. CASE IRQHandler
      <3>1. isr = "none" /\ isr' = Reason /\ ir' = ir \ {Reason} /\ rollovers' = rollovers
        BY <2>2 DEF IRQHandler
      <3>2. Reason = "mr0" => "mr0" \in ir BY DEF Reason
      <3>3. rollovers \in Nat BY DEF TimeInv, TimerOK
      <3> QED BY <3>1, <3>2, <3>3, <1>1 DEF TimeInv, Counted, Bit
    <2>3. CASE Rollover
      <3>1. rollovers \in Nat BY DEF TimeInv, TimerOK
      <3> QED BY <3>1, <2>3, <1>1 DEF Rollover, TimeInv, Counted, Bit
    <2> QED BY <2>1, <2>2, <2>3
  <1>6. OnlyServing'
    <2>1. CASE EndService
      <3>1. reading' = [reading EXCEPT !["isr"] = NotReading] BY <2>1 DEF EndService
      <3> QED BY <3>1 DEF TimeInv, TimerOK, OnlyServing, NotReading
    <2>2. CASE ~ EndService
      <3>1. reading' = reading BY <1>1, <2>2
      <3>2. isr = "service" => isr' = "service"
        BY <2>2 DEF Edge, IRQHandler, Rollover, StoreIrCode, DecodeIrCode, FeedWatchdog, MeshServicing, EndService,
                    Mask, Quiet
      <3> QED BY <3>1, <3>2 DEF TimeInv, OnlyServing
    <2> QED BY <2>1, <2>2
  <1>7. ReadingsOK'
    <2> SUFFICES ASSUME NEW r \in {"task", "isr"} PROVE (CountOK(r) /\ Exact(r))' BY DEF ReadingsOK
    <2>1. CASE EndService /\ r = "isr"
      <3>1. reading'[r] = NotReading BY <2>1 DEF EndService, TimeInv, TimerOK
      <3> QED BY <3>1 DEF NotReading, CountOK, Exact
    <2>2. CASE ~ (EndService /\ r = "isr")
      <3>1. reading'[r] = reading[r] BY <1>1, <2>2 DEF TimeInv, TimerOK
      <3>2. ASSUME reading[r].at = "after", "mr0" \in ir, HeldOff(r) PROVE ("mr0" \in ir)' /\ HeldOff(r)'
        <4>1. ~ IRQHandler BY <3>2 DEF IRQHandler, HeldOff
        <4>2. r = "isr" => isr = "service" BY <3>2 DEF HeldOff
        <4>3. r = "task" => ~ Mask BY <3>2 DEF Mask
        <4>4. ("mr0" \in ir)' BY <3>2, <4>1
          DEF Edge, Rollover, StoreIrCode, DecodeIrCode, FeedWatchdog, MeshServicing, EndService, Mask
        <4>5. CASE r = "task"
          <5>1. masked' = masked
            BY <4>1, <4>3, <4>5
            DEF Edge, Rollover, StoreIrCode, DecodeIrCode, FeedWatchdog, MeshServicing, EndService
          <5> QED BY <3>2, <4>4, <4>5, <5>1 DEF HeldOff
        <4>6. CASE r = "isr"
          BY <2>2, <4>1, <4>2, <4>4, <4>6
          DEF HeldOff, Edge, Rollover, StoreIrCode, DecodeIrCode, FeedWatchdog, MeshServicing, Mask, Quiet
        <4> QED BY <4>4, <4>5, <4>6
      <3> QED BY <1>1, <3>1, <3>2, ReadingGoesOn
    <2> QED BY <2>1, <2>2
  <1> QED BY <1>4, <1>5, <1>6, <1>7 DEF TimeInv
\* Steps of a call: the value of TC, the count, and the value of TC again.
LEMMA TimeRead ==
    ASSUME TimeInv, NEW q \in {"task", "isr"}, ReadBefore(q) \/ ReadRollovers(q) \/ ReadAfter(q) \/ Return(q)
    PROVE  TimeInv'
  <1>1. /\ UNCHANGED <<tc, ir, isr, rollovers, masked, elapsed>> /\ Runs(q)
        /\ elapsed \in Nat /\ tc = elapsed % Turn /\ rollovers \in Nat /\ reading[q] \in Reading
        /\ reading \in [{"task", "isr"} -> Reading]
    BY DEF ReadBefore, ReadRollovers, ReadAfter, Return, TimeInv, TimerOK
  <1>2. isr # "mr0" /\ (q = "isr" => isr = "service") /\ ("mr0" \in ir => HeldOff(q))
    BY <1>1 DEF Runs, Quiet, HeldOff
  <1>3. Counted' BY <1>1 DEF TimeInv, Counted
  <1>4. SUFFICES ASSUME NEW new \in Reading, reading' = [reading EXCEPT ![q] = new]
                 PROVE (CountOK(q) /\ Exact(q))'
    <2>1. \E new \in Reading : reading' = [reading EXCEPT ![q] = new]
      <3>1. CASE ReadBefore(q)
        <4> DEFINE new == [reading[q] EXCEPT !.at = "count", !.before = elapsed]
        <4>1. new \in Reading BY <1>1 DEF Reading
        <4>2. reading' = [reading EXCEPT ![q] = new] BY <1>1, <3>1 DEF ReadBefore, Reading
        <4> QED BY <4>1, <4>2
      <3>2. CASE ReadRollovers(q)
        <4> DEFINE new == [reading[q] EXCEPT !.at = "after", !.count = rollovers]
        <4>1. new \in Reading BY <1>1 DEF Reading
        <4>2. reading' = [reading EXCEPT ![q] = new] BY <1>1, <3>2 DEF ReadRollovers, Reading
        <4> QED BY <4>1, <4>2
      <3>3. CASE ReadAfter(q)
        <4> NotReading \in Reading BY DEF NotReading, Reading
        <4>1. [NotReading EXCEPT !.at = "before"] \in Reading BY ReadingAt
        <4>2. Result(q) \in Reading
          <5>1. tc \in Nat BY <1>1, TurnsAndTime
          <5>2. reading[q].count * Turn + tc - elapsed \in Int
            <6>1. reading[q].count \in Nat BY <1>1 DEF Reading
            <6>2. reading[q].count * Turn \in Nat BY <6>1, TurnIsNat
            <6> QED BY <6>2, <5>1, <1>1
          <5> DEFINE n == reading[q].count * Turn + tc - elapsed
                     late == "mr0" \in ir
          <5>3. late \in BOOLEAN /\ n \in Int BY <5>2
          <5>4. Result(q) = [NotReading EXCEPT !.at = "done", !.after = tc, !.late = late, !.off = n]
            BY DEF Result
          <5> HIDE DEF n, late
          <5>5. [NotReading EXCEPT !.at = "done", !.after = tc, !.late = late, !.off = n] \in Reading
            BY <5>1, <5>3, ReadingDone
          <5> QED BY <5>4, <5>5, Zenon
        <4> QED BY <3>3, <4>1, <4>2 DEF ReadAfter
      <3>4. CASE Return(q)
        <4>1. NotReading \in Reading BY DEF NotReading, Reading
        <4> QED BY <3>4, <4>1 DEF Return
      <3> QED BY <3>1, <3>2, <3>3, <3>4
    <2>2. PICK new \in Reading : reading' = [reading EXCEPT ![q] = new] BY <2>1
    <2>3. TimerOK' BY <1>1, <2>2 DEF TimeInv, TimerOK
    <2>4. OnlyServing' BY <1>1, <1>2, <2>2 DEF TimeInv, OnlyServing
    <2>5. (CountOK(q) /\ Exact(q))' BY <1>4, <2>2
    <2>6. ASSUME NEW r \in {"task", "isr"} PROVE (CountOK(r) /\ Exact(r))'
      <3>1. CASE r = q BY <2>5, <3>1
      <3>2. CASE r # q
        <4>1. reading'[r] = reading[r] BY <3>2, <2>2, <1>1
        <4> QED BY <4>1, <1>1, ReadingGoesOn DEF HeldOff
      <3> QED BY <3>1, <3>2
    <2> QED BY <1>3, <2>3, <2>4, <2>6 DEF TimeInv, ReadingsOK
  <1>5. reading'[q] = new BY <1>1, <1>4
  <1>6. CountOK(q) BY DEF TimeInv, ReadingsOK
  <1>7. CASE ReadBefore(q)
    <2>1. reading'[q].at = "count" /\ reading'[q].before = elapsed BY <1>7, <1>1 DEF ReadBefore, Reading
    <2> QED BY <1>1, <2>1, TurnIsNat DEF CountOK, Exact
  <1>8. CASE ReadRollovers(q)
    <2>1. /\ reading[q].at = "count" /\ reading'[q].at = "after" /\ reading'[q].count = rollovers
          /\ reading'[q].before = reading[q].before
      BY <1>8, <1>1 DEF ReadRollovers, Reading
    <2>2. reading[q].before \in Nat /\ reading[q].before <= elapsed /\ elapsed < reading[q].before + Turn
      BY <1>1, <1>6, <2>1 DEF CountOK, Reading
    <2>3. (reading[q].before + 1) \div Turn <= (elapsed + 1) \div Turn
      BY <1>1, <2>2, TurnsMonotone
    <2>4. rollovers + Bit("mr0" \in ir) = (elapsed + 1) \div Turn
      BY <1>1, <1>2 DEF TimeInv, Counted, Bit
    <2>5. (elapsed + 1) \div Turn \in Nat /\ (reading[q].before + 1) \div Turn \in Nat
      BY <1>1, <2>2, TurnsAndTime
    <2>6. CASE "mr0" \in ir
      <3>1. Between(q, 1)' BY <1>1, <1>2, <2>1, <2>3, <2>4, <2>5, <2>6 DEF Between, Bit, HeldOff
      <3> QED BY <1>1, <2>1, <2>2, <3>1 DEF CountOK, Exact
    <2>7. CASE "mr0" \notin ir
      <3>1. Between(q, 0)' BY <1>1, <2>1, <2>3, <2>4, <2>5, <2>7 DEF Between, Bit
      <3> QED BY <1>1, <2>1, <2>2, <3>1 DEF CountOK, Exact
    <2> QED BY <2>6, <2>7
  <1>9. CASE ReadAfter(q)
    <2>1. CASE tc < reading[q].before % Turn
      <3>1. reading'[q].at = "before" BY <1>9, <2>1, <1>1 DEF ReadAfter, NotReading
      <3> QED BY <3>1 DEF CountOK, Exact
    <2>2. CASE ~ (tc < reading[q].before % Turn)
      <3> DEFINE b == reading[q].before
                 c == reading[q].count
                 k == b \div Turn
      <3>1. /\ reading[q].at = "after" /\ reading'[q].at = "done" /\ reading'[q].after = tc
            /\ reading'[q].late = ("mr0" \in ir) /\ reading'[q].off = c * Turn + tc - elapsed
        BY <1>9, <2>2, <1>1 DEF ReadAfter, Result, NotReading
      <3>2. b \in Nat /\ c \in Nat /\ b <= elapsed /\ elapsed < b + Turn
        BY <1>1, <1>6, <3>1 DEF CountOK, Reading
      <3>3. elapsed \div Turn = k /\ k \in Nat BY <1>1, <2>2, <3>2, SameTurn, TurnsAndTime
      <3>4. elapsed = k * Turn + tc /\ tc \in 0 .. Turn - 1 BY <1>1, <3>3, TurnsAndTime
      <3>5. (b + 1) \div Turn >= k /\ (b + 1) \div Turn \in Nat
        <4>1. b + 1 \in Nat BY <3>2
        <4>2. (b + 1) \div Turn \in Nat BY <4>1, TurnsAndTime
        <4>3. (b + 1) \div Turn = k + Bit(b % Turn = Turn - 1) BY <3>2, OneMore
        <4> QED BY <3>3, <4>2, <4>3 DEF Bit
      <3>6. (elapsed + 1) \div Turn = k + Bit(tc = Turn - 1) BY <1>1, <3>3, OneMore
      <3>7. PICK l \in {0, 1} : Between(q, l) BY <1>6, <3>1 DEF CountOK
      <3>8. /\ k <= c + l /\ c + l <= k + 1 /\ (c + l = k + 1 => tc = Turn - 1)
            /\ l = 1 => "mr0" \in ir
        BY <3>2, <3>3, <3>5, <3>6, <3>7 DEF Between, Bit
      <3> HIDE DEF b, c, k
      <3>9. c = k \/ (c = k + 1 /\ tc = Turn - 1) \/ (k = c + 1 /\ "mr0" \in ir)
        BY <3>2, <3>3, <3>8
      <3>10. c * Turn + tc - elapsed = c * Turn - k * Turn
        <4>1. c * Turn \in Nat /\ k * Turn \in Nat BY <3>2, <3>3, TurnIsNat
        <4> QED BY <4>1, <3>4, TurnIsNat
      <3>11. CASE c = k
        <4>1. c * Turn - k * Turn = 0 BY <3>11, <3>2, TurnIsNat
        <4> QED BY <3>1, <3>10, <4>1 DEF CountOK, Exact
      <3>12. CASE c = k + 1 /\ tc = Turn - 1
        <4>1. c * Turn - k * Turn = Turn BY <3>12, <3>3, TurnIsNat
        <4> QED BY <3>1, <3>10, <3>12, <4>1 DEF CountOK, Exact
      <3>13. CASE k = c + 1 /\ "mr0" \in ir
        <4>1. c * Turn - k * Turn = - Turn BY <3>13, <3>2, TurnIsNat
        <4> QED BY <3>1, <3>10, <3>13, <4>1 DEF CountOK, Exact
      <3> QED BY <3>9, <3>11, <3>12, <3>13
    <2> QED BY <2>1, <2>2
  <1>10. CASE Return(q)
    <2>1. reading'[q].at = "idle" BY <1>10, <1>1 DEF Return, NotReading
    <2> QED BY <2>1 DEF CountOK, Exact
  <1> QED BY <1>7, <1>8, <1>9, <1>10

\* sys_get_uptime_us() is off by a turn only in the last tick before a rollover or when its
\* caller holds the interrupt off (lpc_sys.cpp:102-124).
THEOREM UptimeIsExact == Spec => []UptimeExact
  <1>1. TimeInv /\ [Next]_vars => TimeInv'
    <2> SUFFICES ASSUME TimeInv, [Next]_vars PROVE TimeInv' OBVIOUS
    <2>1. CASE UNCHANGED timerVars
      <3>1. TimerOK' /\ Counted' /\ OnlyServing'
        BY <2>1 DEF timerVars, TimeInv, TimerOK, Counted, OnlyServing
      <3>2. ReadingsOK'
        BY <2>1 DEF timerVars, TimeInv, ReadingsOK, CountOK, Exact, Between, HeldOff
      <3> QED BY <3>1, <3>2 DEF TimeInv
    <2>2. CASE TimerNext(xTaskGetSchedulerState)
      <3> DEFINE state == xTaskGetSchedulerState
      <3> HIDE DEF state
      <3>1. TimerNext(state) BY <2>2 DEF state
      <3>2. \/ Tick
            \/ \/ Edge \/ IRQHandler \/ Rollover \/ StoreIrCode \/ DecodeIrCode \/ FeedWatchdog
               \/ MeshServicing(state) \/ EndService \/ Mask
            \/ \E r \in {"task", "isr"} : ReadBefore(r) \/ ReadRollovers(r) \/ ReadAfter(r) \/ Return(r)
        BY <3>1 DEF TimerNext
      <3> QED BY <3>2, TimeTick, TimeInterrupt, TimeRead
    <2> QED BY <2>1, <2>2 DEF Next, vars
  <1>2. TimeInv => UptimeExact BY DEF TimeInv, ReadingsOK, Exact, UptimeExact
  <1> QED BY <1>1, <1>2, TimeInit, PTL DEF Spec
=============================================================================
