---------------------------- MODULE MCCanDriver ----------------------------
EXTENDS CanDriver, TLC

CONSTANTS task1, task2

MCTasks == {task1, task2}
=============================================================================
