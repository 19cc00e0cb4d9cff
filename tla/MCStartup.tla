----------------------------- MODULE MCStartup -----------------------------
EXTENDS Startup

CONSTANTS terminal, wireless, task1

MCTaskList == <<task1, wireless, terminal>>
\* The task with the largest stack is neither the first nor the most urgent one.
MCStackSize == (task1 :> 2) @@ (wireless :> 1) @@ (terminal :> 3)
MCPriority == (task1 :> 1) @@ (wireless :> 3) @@ (terminal :> 2)
=============================================================================
