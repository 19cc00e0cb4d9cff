----------------------------- MODULE FatVolume -----------------------------
(***************************************************************************)
(* A volume of the file system (ff.c): the allocation table, the directory *)
(* and the data on the disk, the window of one sector through which the    *)
(* table and the directory are changed, and the files that tasks write.    *)
(*                                                                         *)
(* A call holds the lock of the volume (op).  It is a list of steps that   *)
(* are taken one by one (todo), so that a power loss or an error of the    *)
(* disk can come between any two writes of sectors.  A cluster is one      *)
(* sector of Units units; the volume is FAT16.                             *)
(***************************************************************************)
EXTENDS Naturals, SequencesExt

CONSTANTS Tasks, Names, None,
          Size,               \* number of clusters
          FatSector(_),       \* the sector that holds a cluster's table entry
          DirSector(_),       \* the sector that holds a name's directory entry
          DirSectors,         \* all of the directory, in order
          Units,              \* of data in a sector
          Volumes,            \* disks at the start
          Lengths, Gaps,      \* of writes, and of seeks beyond the end
          Exclusive,          \* nobody opens, renames or removes an open file
          MaxCalls, MaxFaults \* bounds: calls of all tasks; power losses and errors

Clusters == 2 .. Size + 1
EndOfChain == Size + 2
Unknown == "unknown"

\* No two clusters link to one, and none to a free one.
Linked(table) ==
    /\ \A c, d \in Clusters : table[c] = table[d] /\ table[c] \in Clusters => c = d
    /\ \A c, d \in Clusters : table[c] = d => table[d] # 0

\* A cluster in use that no other links to: where a file may start.
Alone(table, s) == table[s] # 0 /\ \A c \in Clusters : table[c] # s

\* The clusters from c on, as a table links them.
Longer(table, path, i) ==
    LET next == IF path = << >> THEN 0 ELSE table[Last(path)]
    IN  IF next \in Clusters /\ Len(path) = i THEN Append(path, next) ELSE path
Chain(table, c) ==
    LET walk[i \in 0 .. Size] ==
            IF i = 0 THEN IF c \in Clusters THEN <<c>> ELSE << >>
            ELSE Longer(table, walk[i - 1], i)
    IN  walk[Size]

\* An entry of the directory.
Entries == [clust : {0} \cup Clusters, size : Nat]

\* A disk as f_mkfs leaves it, and what files were written on it since.
Consistent(d) ==
    /\ DOMAIN d = {"fat", "dir", "data"}
    /\ d.fat \in [Clusters -> 0 .. EndOfChain] /\ Linked(d.fat)
    /\ DOMAIN d.dir = Names
    /\ \A n \in Names : d.dir[n] # None =>
          /\ d.dir[n] \in Entries
          /\ d.dir[n].size <= Units * Len(Chain(d.fat, d.dir[n].clust))
          /\ d.dir[n].clust # 0 =>
                /\ Alone(d.fat, d.dir[n].clust)
                /\ \A m \in Names \ {n} : d.dir[m] # None => d.dir[m].clust # d.dir[n].clust
    /\ DOMAIN d.data = Clusters /\ \A c \in Clusters : DOMAIN d.data[c] = 1 .. Units

ASSUME FatAssumption ==
    /\ Size \in Nat \ {0} /\ Units \in Nat \ {0} /\ IsFiniteSet(DOMAIN DirSectors)
    /\ Lengths \subseteq Nat /\ Gaps \subseteq Nat
    /\ None \notin Names /\ None \notin Entries
    /\ \A d \in Volumes : Consistent(d)

VARIABLES disk,               \* fat, dir and data
          fat, dir,           \* as the window shows them
          winsect, wflag,     \* the window's sector, and whether it was changed
          last_clust,
          fil,                \* of each task: its open file
          op, todo,           \* the call that has the lock and its next steps
          saved,              \* of each name: what f_sync has made permanent
          renameCut,          \* a rename was cut short
          calls, faults

window == <<fat, dir, winsect, wflag>>
fatVars == <<disk, window, last_clust, fil, op, todo, saved, renameCut, calls, faults>>

NoOp == [task |-> None, kind |-> "none", left |-> 0]
NoData == [i \in 1 .. Units |-> Unknown]
Closed == [name |-> None, err |-> FALSE, written |-> FALSE, dirty |-> FALSE,
           sclust |-> 0, clust |-> 0, fptr |-> 0, fsize |-> 0,
           dsect |-> 0, buf |-> NoData, text |-> << >>]

\* What the disk holds under a name.
Content(d, n) ==
    LET chain == Chain(d.fat, d.dir[n].clust)
    IN  [i \in 1 .. d.dir[n].size |->
            IF (i - 1) \div Units < Len(chain)
            THEN d.data[chain[(i - 1) \div Units + 1]][((i - 1) % Units) + 1] ELSE None]

FatInit ==
    /\ disk \in Volumes
    /\ fat = disk.fat /\ dir = disk.dir /\ winsect = None /\ wflag = FALSE
    /\ last_clust = 1
    /\ fil = [t \in Tasks |-> Closed]
    /\ op = NoOp /\ todo = << >>
    /\ saved = [n \in Names |-> IF disk.dir[n] = None THEN None ELSE Content(disk, n)]
    /\ renameCut = FALSE /\ calls = 0 /\ faults = 0

-----------------------------------------------------------------------------
(***************************************************************************)
(* Steps of a call.                                                        *)
(***************************************************************************)
LookStep(s) == [do |-> "look", sect |-> s]
FatStep(c, v) == [do |-> "fat", sect |-> FatSector(c), clst |-> c, val |-> v]
DirStep(n, e) == [do |-> "dir", sect |-> DirSector(n), name |-> n, entry |-> e]
FlushStep == [do |-> "flush"]
DataStep(c, v) == [do |-> "data", clst |-> c, val |-> v]
FilStep(t, f) == [do |-> "fil", task |-> t, file |-> f]
LastStep(c) == [do |-> "last", clst |-> c]
SavedStep(n, text) == [do |-> "saved", name |-> n, text |-> text]

Step == Head(todo)
MovesWindow == Step.do \in {"look", "fat", "dir"} /\ Step.sect # winsect

\* sync_window.
WriteBack ==
    /\ todo # << >> /\ wflag
    /\ MovesWindow \/ Step.do = "flush"
    /\ disk' = [disk EXCEPT !.fat = fat, !.dir = dir]
    /\ wflag' = FALSE
    /\ UNCHANGED <<fat, dir, winsect, last_clust, fil, op, todo, saved, renameCut, calls, faults>>

\* move_window, put_fat and the other effects of a step.
TakeStep ==
    /\ todo # << >> /\ ~ (wflag /\ (MovesWindow \/ Step.do = "flush"))
    /\ todo' = Tail(todo)
    /\ winsect' = IF Step.do \in {"look", "fat", "dir"} THEN Step.sect ELSE winsect
    /\ fat' = IF Step.do = "fat" THEN [fat EXCEPT ![Step.clst] = Step.val] ELSE fat
    /\ dir' = IF Step.do = "dir" THEN [dir EXCEPT ![Step.name] = Step.entry] ELSE dir
    /\ wflag' = (wflag \/ Step.do \in {"fat", "dir"})
    /\ disk' = IF Step.do = "data" THEN [disk EXCEPT !.data[Step.clst] = Step.val] ELSE disk
    /\ fil' = IF Step.do = "fil" THEN [fil EXCEPT ![Step.task] = Step.file] ELSE fil
    /\ last_clust' = IF Step.do = "last" THEN Step.clst ELSE last_clust
    /\ saved' = IF Step.do = "saved" THEN [saved EXCEPT ![Step.name] = Step.text] ELSE saved
    /\ UNCHANGED <<op, renameCut, calls, faults>>

\* remove_chain.
RemoveChain(c) == LET chain == Chain(fat, c) IN [i \in DOMAIN chain |-> FatStep(chain[i], 0)]

\* create_chain: the cluster and the steps.  0: the disk is full; 1: no chain there.
CreateChain(c) ==
    LET scl == IF c # 0 THEN c ELSE IF last_clust \in Clusters THEN last_clust ELSE 1
        order == [i \in 1 .. Size |-> ((scl + i - 2) % Size) + 2]
        free == {i \in 1 .. Size : fat[order[i]] = 0}
        first == CHOOSE i \in free : \A j \in free : i <= j
        look == IF c = 0 THEN << >> ELSE <<LookStep(FatSector(c))>>
    IN  IF c # 0 /\ fat[c] < 2 THEN [clst |-> 1, steps |-> look]
        ELSE IF c # 0 /\ fat[c] \in Clusters THEN [clst |-> fat[c], steps |-> look]
        ELSE IF free = {}
        THEN [clst |-> 0, steps |-> look \o [i \in 1 .. Size |-> LookStep(FatSector(order[i]))]]
        ELSE [clst |-> order[first],
              steps |-> look \o [i \in 1 .. first |-> LookStep(FatSector(order[i]))]
                        \o <<FatStep(order[first], EndOfChain)>>
                        \o (IF c = 0 THEN << >> ELSE <<FatStep(c, order[first])>>)
                        \o <<LastStep(order[first])>>]

\* dir_register and dir_remove.
dir_register(n, entry) == DirStep(n, entry)
dir_remove(n) == DirStep(n, None)

\* follow_path: the directory is read up to the entry.
FollowPath(n) ==
    LET upTo == {i \in DOMAIN DirSectors : dir[n] # None => \A j \in 1 .. i - 1 : DirSectors[j] # DirSector(n)}
    IN  [i \in 1 .. Cardinality(upTo) |-> LookStep(DirSectors[i])]

-----------------------------------------------------------------------------
(***************************************************************************)
(* Calls.                                                                  *)
(***************************************************************************)
Enter(t, kind, left, steps) ==
    /\ op = NoOp /\ calls < MaxCalls
    /\ calls' = calls + 1
    /\ op' = [task |-> t, kind |-> kind, left |-> left] /\ todo' = steps
    /\ UNCHANGED <<disk, window, last_clust, renameCut, faults>>

IsOpen(n) == \E t \in Tasks : fil[t].name = n
Forget(ns) == saved' = [n \in Names |-> IF n \in ns THEN None ELSE saved[n]]

\* f_open with FA_WRITE and FA_CREATE_ALWAYS or, when keep, FA_OPEN_ALWAYS.
f_open(t, n, keep) ==
    LET new == [clust |-> 0, size |-> 0]
        cl == dir[n].clust
        created == dir[n] = None \/ ~ keep
        entry == IF created THEN new ELSE dir[n]
        text == IF created THEN << >> ELSE Content([disk EXCEPT !.fat = fat, !.dir = dir], n)
        create == IF dir[n] = None THEN <<dir_register(n, new)>>
                  ELSE IF keep THEN << >>
                  ELSE IF cl = 0 THEN <<DirStep(n, new)>>
                  ELSE <<DirStep(n, new)>> \o RemoveChain(cl)
                         \o <<LastStep(cl - 1), LookStep(DirSector(n))>>
    IN  /\ fil[t].name = None /\ (Exclusive => ~ IsOpen(n))
        /\ Enter(t, "end", 0, FollowPath(n) \o create \o
                 <<FilStep(t, [Closed EXCEPT !.name = n, !.written = created,
                                             !.sclust = entry.clust, !.fsize = entry.size,
                                             !.text = text])>>)
        /\ IF created THEN Forget({n}) ELSE UNCHANGED saved
        /\ UNCHANGED fil

f_write(t, k) ==
    LET f == fil[t]
    IN  /\ f.name # None /\ ~ f.err
        /\ Enter(t, "write", k, << >>)
        /\ IF f.fptr < f.fsize THEN Forget({f.name}) ELSE UNCHANGED saved
        /\ UNCHANGED fil

\* The text with k units at the offset p; between its end and p it is unknown.
Put(text, p, k, v) ==
    [i \in 1 .. (IF p + k > Len(text) THEN p + k ELSE Len(text)) |->
        IF i \in p + 1 .. p + k THEN v ELSE IF i <= Len(text) THEN text[i] ELSE Unknown]

Abort(t) ==
    /\ fil' = [fil EXCEPT ![t].err = TRUE]
    /\ op' = [op EXCEPT !.kind = "end"] /\ UNCHANGED todo

\* The sector buffer goes to the disk before it is used for another sector.
FlushBuffer(t, f) ==
    IF f.dirty THEN <<DataStep(f.dsect, f.buf), FilStep(t, [f EXCEPT !.dirty = FALSE])>> ELSE << >>

\* One turn of the loop of f_write, and its end.
WriteOn(t) ==
    LET f == fil[t]
        boundary == f.fptr % Units = 0
        chain == IF ~ boundary THEN [clst |-> f.clust, steps |-> << >>]
                 ELSE IF f.fptr > 0 THEN CreateChain(f.clust)
                 ELSE IF f.sclust # 0 THEN [clst |-> f.sclust, steps |-> << >>]
                 ELSE CreateChain(0)
        c == chain.clst
        f1 == [f EXCEPT !.clust = c, !.sclust = IF @ = 0 THEN c ELSE @]
        f2 == [f1 EXCEPT !.dirty = FALSE]
        f3 == IF f.dsect = c THEN f2
              ELSE [f2 EXCEPT !.dsect = c, !.buf = IF f.fptr < f.fsize THEN disk.data[c] ELSE @]
        at == (f.fptr % Units) + 1
        advance == IF boundary THEN chain.steps \o <<FilStep(t, f1)>> \o FlushBuffer(t, f1) ELSE << >>
        part(g) == [g EXCEPT !.buf[at] = t, !.dirty = TRUE, !.fptr = @ + 1, !.text = Put(@, f.fptr, 1, t)]
        whole == [f2 EXCEPT !.fptr = @ + Units, !.buf = IF f.dsect = c THEN [i \in 1 .. Units |-> t] ELSE @,
                            !.text = Put(@, f.fptr, Units, t)]
    IN  /\ op.task = t /\ op.kind = "write" /\ todo = << >>
        /\ IF op.left = 0 \/ c = 0
           THEN /\ todo' = <<FilStep(t, [f EXCEPT !.fsize = IF f.fptr > @ THEN f.fptr ELSE @,
                                                  !.written = TRUE])>>
                /\ op' = [op EXCEPT !.kind = "last"] /\ UNCHANGED fil
           ELSE IF c = 1 THEN Abort(t)
           ELSE IF boundary /\ op.left >= Units
           THEN /\ todo' = advance \o <<DataStep(c, [i \in 1 .. Units |-> t]), FilStep(t, whole)>>
                /\ op' = [op EXCEPT !.left = @ - Units] /\ UNCHANGED fil
           ELSE /\ todo' = advance \o <<FilStep(t, part(IF boundary THEN f3 ELSE f))>>
                /\ op' = [op EXCEPT !.left = @ - 1] /\ UNCHANGED fil
        /\ UNCHANGED <<disk, window, last_clust, saved, renameCut, calls, faults>>

\* f_lseek to the end of the file, or beyond.
f_lseek(t, gap) ==
    LET f == fil[t]
        ofs == f.fsize + gap
        here == ((f.fptr - 1) \div Units) * Units
        chain == IF f.sclust # 0 THEN [clst |-> f.sclust, steps |-> << >>] ELSE CreateChain(0)
    IN  /\ f.name # None /\ ~ f.err /\ ofs # f.fptr
        /\ IF f.fptr > 0 /\ (ofs - 1) \div Units >= (f.fptr - 1) \div Units
           THEN Enter(t, "seek", ofs - here, <<FilStep(t, [f EXCEPT !.fptr = here])>>)
           ELSE Enter(t, "seek", IF chain.clst = 0 THEN 0 ELSE ofs,
                      chain.steps \o <<FilStep(t, [f EXCEPT !.fptr = 0, !.sclust = chain.clst, !.clust = chain.clst])>>)
        /\ UNCHANGED <<fil, saved>>

SeekOn(t) ==
    LET f == fil[t]
        chain == CreateChain(f.clust)
        end == f.fptr + op.left
        f1 == [f EXCEPT !.fptr = end]
        nsect == IF op.left % Units = 0 THEN 0 ELSE f.clust
        load == end % Units # 0 /\ nsect # f.dsect
        f2 == IF load THEN [f1 EXCEPT !.dirty = FALSE, !.dsect = nsect, !.buf = disk.data[nsect]] ELSE f1
        f3 == IF end <= f.fsize THEN f2
              ELSE [f2 EXCEPT !.fsize = end, !.written = TRUE,
                              !.text = [i \in 1 .. end |-> IF i <= Len(@) THEN @[i] ELSE Unknown]]
    IN  /\ op.task = t /\ op.kind = "seek" /\ todo = << >>
        /\ IF op.left <= Units
           THEN /\ todo' = (IF load THEN FlushBuffer(t, f1) ELSE << >>) \o <<FilStep(t, f3)>>
                /\ op' = [op EXCEPT !.kind = "last"] /\ UNCHANGED fil
           ELSE IF chain.clst = 0
           THEN todo' = chain.steps /\ op' = [op EXCEPT !.left = Units] /\ UNCHANGED fil
           ELSE IF chain.clst = 1 THEN Abort(t)
           ELSE /\ todo' = chain.steps \o <<FilStep(t, [f EXCEPT !.clust = chain.clst, !.fptr = @ + Units])>>
                /\ op' = [op EXCEPT !.left = @ - Units] /\ UNCHANGED fil
        /\ UNCHANGED <<disk, window, last_clust, saved, renameCut, calls, faults>>

\* The directory entry of a file that was removed stays marked so.
\* Mutant: the sector buffer is left for later.
SyncStepsNoBuffer(t) ==
    LET f == fil[t]
        entry == IF dir[f.name] = None THEN None ELSE [clust |-> f.sclust, size |-> f.fsize]
    IN  IF ~ f.written THEN << >>
        ELSE <<DirStep(f.name, entry), FilStep(t, [f EXCEPT !.written = FALSE]), FlushStep,
               SavedStep(f.name, IF entry = None THEN None ELSE SubSeq(f.text, 1, f.fsize))>>
SyncSteps(t) ==
    LET f == fil[t]
        entry == IF dir[f.name] = None THEN None ELSE [clust |-> f.sclust, size |-> f.fsize]
    IN  IF ~ f.written THEN << >>
        ELSE FlushBuffer(t, f) \o
             <<DirStep(f.name, entry), FilStep(t, [f EXCEPT !.dirty = FALSE, !.written = FALSE]), FlushStep,
               SavedStep(f.name, IF entry = None THEN None ELSE SubSeq(f.text, 1, f.fsize))>>

f_sync(t) ==
    /\ fil[t].name # None /\ fil[t].written
    /\ Enter(t, "end", 0, SyncSteps(t))
    /\ UNCHANGED <<fil, saved>>

f_close(t) ==
    /\ fil[t].name # None
    /\ Enter(t, "end", 0, SyncSteps(t) \o <<FilStep(t, Closed)>>)
    /\ UNCHANGED <<fil, saved>>

\* Mutant: the clusters are freed before the entry is removed.
UnlinkStepsChainFirst(n) == RemoveChain(dir[n].clust) \o <<dir_remove(n), FlushStep>>
UnlinkSteps(n) == <<dir_remove(n)>> \o RemoveChain(dir[n].clust) \o <<FlushStep>>

f_unlink(t, n) ==
    /\ dir[n] # None /\ (Exclusive => ~ IsOpen(n))
    /\ Enter(t, "end", 0, FollowPath(n) \o UnlinkSteps(n))
    /\ Forget({n}) /\ UNCHANGED fil

f_rename(t, old, new) ==
    /\ dir[old] # None /\ dir[new] = None /\ (Exclusive => ~ IsOpen(old))
    /\ Enter(t, "rename", 0, FollowPath(old) \o FollowPath(new) \o
             <<dir_register(new, dir[old]), dir_remove(old), FlushStep, SavedStep(new, saved[old])>>)
    /\ Forget({old, new}) /\ UNCHANGED fil

Leave ==
    /\ op.kind \in {"end", "last", "rename"} /\ todo = << >>
    /\ op' = NoOp
    /\ UNCHANGED <<disk, window, last_clust, fil, todo, saved, renameCut, calls, faults>>

-----------------------------------------------------------------------------
(***************************************************************************)
(* Faults.                                                                 *)
(***************************************************************************)
\* The disk refuses a sector; the call gives up, and its file is marked.  put_fat()
\* marks the window as changed all the same.
DiskError ==
    /\ faults < MaxFaults /\ todo # << >>
    /\ MovesWindow \/ Step.do = "data" \/ (Step.do = "flush" /\ wflag)
    /\ faults' = faults + 1
    /\ todo' = << >> /\ op' = [op EXCEPT !.kind = "end"]
    /\ fil' = IF op.kind \in {"write", "seek", "last"} THEN [fil EXCEPT ![op.task].err = TRUE] ELSE fil
    /\ renameCut' = (renameCut \/ op.kind = "rename")
    /\ wflag' = (wflag \/ Step.do = "fat")
    /\ UNCHANGED <<disk, fat, dir, winsect, last_clust, saved, calls>>

\* The power goes and comes back; the volume is mounted again.
PowerLoss ==
    /\ faults < MaxFaults
    /\ faults' = faults + 1
    /\ fat' = disk.fat /\ dir' = disk.dir /\ winsect' = None /\ wflag' = FALSE
    /\ last_clust' = 1
    /\ fil' = [t \in Tasks |-> Closed] /\ op' = NoOp /\ todo' = << >>
    /\ renameCut' = (renameCut \/ op.kind = "rename")
    /\ UNCHANGED <<disk, saved, calls>>

FatNext ==
    \/ WriteBack \/ TakeStep \/ Leave \/ DiskError \/ PowerLoss
    \/ \E t \in Tasks :
          \/ WriteOn(t) \/ SeekOn(t) \/ f_sync(t) \/ f_close(t)
          \/ \E k \in Lengths : f_write(t, k)
          \/ \E g \in Gaps : f_lseek(t, g)
          \/ \E n \in Names : f_unlink(t, n) \/ \E keep \in BOOLEAN : f_open(t, n, keep)
          \/ \E old, new \in Names : f_rename(t, old, new)

FatSpec == FatInit /\ [][FatNext]_fatVars

-----------------------------------------------------------------------------
(***************************************************************************)
(* Properties.                                                             *)
(***************************************************************************)
Owned(n) == IF disk.dir[n] = None THEN {} ELSE ToSet(Chain(disk.fat, disk.dir[n].clust))

\* Whenever the power goes, no cluster of the disk belongs to two files and none
\* that a file links to is free.  The window writes the table and the directory
\* back in the order they were changed; only in f_rename() two entries share a
\* chain ("any interruption can cause a cross-link").
NoCrossLink ==
    op.kind # "rename" /\ ~ renameCut =>
        \A n \in Names :
            /\ \A c \in Owned(n) : disk.fat[c] # 0
            /\ \A m \in Names \ {n} : Owned(n) \cap Owned(m) = {}

\* What f_sync() or f_close() has made permanent stays on the disk until the file
\* is written over, removed or renamed, through power losses, errors and the
\* writing of other files.  After an append that was not finished it is a prefix.
SyncedSurvives ==
    ~ renameCut =>
        \A n \in Names : saved[n] # None =>
            /\ disk.dir[n] # None /\ disk.dir[n].size >= Len(saved[n])
            /\ \A i \in 1 .. Len(saved[n]) : saved[n][i] \in {Unknown, Content(disk, n)[i]}
=============================================================================
