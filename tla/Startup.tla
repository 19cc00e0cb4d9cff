------------------------------ MODULE Startup ------------------------------
(***************************************************************************)
(* The start of the tasks together with the system timer, whose interrupt  *)
(* services the mesh until the kernel runs and hands it to a task.         *)
(***************************************************************************)
EXTENDS TaskStart, SystemTimer

\* "Consumes very little CPU, but need highest priority to handle mesh network ACKs".
ASSUME WirelessFirst == \A t \in Tasks \ {Wireless} : Priority[t] < Priority[Wireless]

vars == <<startVars, timerVars>>

Init == StartInit /\ TimerInit

Next ==
    \/ TimerNext(xTaskGetSchedulerState) /\ UNCHANGED startVars
    \/ Quiet /\ ~ masked /\ StartNext /\ UNCHANGED timerVars

Spec == Init /\ [][Next]_vars

-----------------------------------------------------------------------------
\* "Only after all tasks perform their init() and taskEntry(), the run() method begins to
\* loop": whatever their priorities, no task is let through before the last taskEntry(),
\* and none at all when one of them failed.
RunAfterEntries ==
    \A t \in Tasks : at[t] \in {"run", "service", "suspended"} =>
        inits = Count /\ ~ failure /\ entries = Count /\ ~ entryFailure

\* The interrupt never services the mesh while the wireless task does: it looks at the
\* state of the kernel only, which is not "running" while any task has suspended it.
ServicedByOne == isr = "service" => at[Wireless] # "service"
=============================================================================
