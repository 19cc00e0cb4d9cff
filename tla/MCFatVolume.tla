---------------------------- MODULE MCFatVolume ----------------------------
EXTENDS FatVolume, TLC

CONSTANTS task1, task2, a, b

MCTasks == {task1, task2}
MCNames == {a, b}
\* Two sectors of the table and two of the directory.
MCFatSector(c) == IF c <= 3 THEN "fat1" ELSE "fat2"
MCDirSector(n) == IF n = a THEN "dir1" ELSE "dir2"
MCDirSectors == <<"dir1", "dir2">>

\* One file of three units whose chain goes through both sectors of the table.
MCVolumes == {[fat |-> [c \in 2 .. 5 |-> IF c = 2 THEN 4 ELSE IF c = 4 THEN 6 ELSE 0],
               dir |-> [n \in MCNames |-> IF n = a THEN [clust |-> 2, size |-> 3] ELSE None],
               data |-> [c \in 2 .. 5 |-> <<"old", "old">>]]}
=============================================================================
