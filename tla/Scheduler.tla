------------------------------ MODULE Scheduler ------------------------------
(***************************************************************************)
(* The scheduler of FreeRTOS (tasks.c, list.c) as functions on a record:   *)
(*   current    pxCurrentTCB                                               *)
(*   prio, held uxPriority and uxMutexesHeld of every task                 *)
(*   wake       the value of its xGenericListItem                          *)
(*   ready      pxReadyTasksLists, a ring per priority                     *)
(*   top        uxTopReadyPriority, the bit map of the priorities in use   *)
(*   delayed, overflow, suspended, pending                                 *)
(*              pxDelayedTaskList, pxOverflowDelayedTaskList,              *)
(*              xSuspendedTaskList (its order is never used) and           *)
(*              xPendingReadyList                                          *)
(*   event      the lists of the tasks that wait for a queue               *)
(*   tick, overflows, pended, unblock                                      *)
(*              xTickCount, xNumOfOverflows, uxPendedTicks,                *)
(*              xNextTaskUnblockTime                                       *)
(*   locked, missed   uxSchedulerSuspended and xYieldPending               *)
(* The value of xEventListItem is always configMAX_PRIORITIES - uxPriority *)
(* here, event groups are not used; lists ordered by it compare priorities.*)
(***************************************************************************)
EXTENDS Integers, Sequences, SequencesExt

CONSTANTS Tasks,      \* the tasks, the idle task among them
          BasePrio,   \* uxBasePriority of each
          MaxDelay    \* portMAX_DELAY, the largest tick

ASSUME TasksAssumption ==
    IsFiniteSet(Tasks) /\ BasePrio \in [Tasks -> Nat] /\ MaxDelay \in Nat

TickMod == MaxDelay + 1
Priorities == {BasePrio[t] : t \in Tasks}

-----------------------------------------------------------------------------
(***************************************************************************)
(* Lists.  A ready list has an index, 0 while it is at the end marker: the *)
(* entry after it is the next to run, a new entry goes in before it.       *)
(***************************************************************************)
Ring == [entries : Seq(Tasks), index : Nat]

RingInsertEnd(r, t) ==
    IF r.index = 0 THEN [r EXCEPT !.entries = Append(@, t)]
    ELSE [entries |-> InsertAt(r.entries, r.index, t), index |-> r.index + 1]

Position(list, t) == CHOOSE i \in DOMAIN list : list[i] = t
Without(list, t) == IF Contains(list, t) THEN RemoveAt(list, Position(list, t)) ELSE list

RingRemove(r, t) ==
    IF ~ Contains(r.entries, t) THEN r
    ELSE [entries |-> Without(r.entries, t),
          index |-> IF Position(r.entries, t) <= r.index THEN r.index - 1 ELSE r.index]

RingNext(r) == [r EXCEPT !.index = IF @ = Len(r.entries) THEN 1 ELSE @ + 1]

\* vListInsert: before the first entry of those that come after t.
FirstOf(places) == CHOOSE i \in places : \A j \in places : i <= j
InsertSorted(list, t, after) ==
    LET later == {i \in DOMAIN list : list[i] \in after}
    IN  IF later = {} THEN Append(list, t) ELSE InsertAt(list, FirstOf(later), t)

AddToReady(s, t) == [s EXCEPT !.top = @ \cup {s.prio[t]},
                              !.ready[s.prio[t]] = RingInsertEnd(@, t)]

\* uxListRemove(&xGenericListItem) and, when a ready list got empty, its bit.  The
\* value of the item is not used again before it is set.
RemoveGeneric(s, t) ==
    [s EXCEPT !.ready = [p \in Priorities |-> RingRemove(@[p], t)],
              !.delayed = Without(@, t), !.overflow = Without(@, t),
              !.suspended = @ \ {t}, !.wake[t] = 0]

ResetReady(s, p) == IF s.ready[p].entries = << >> THEN [s EXCEPT !.top = @ \ {p}] ELSE s

\* Mutant: the bit of an empty list stays set.
TakeAndForget(s, t) == RemoveGeneric(s, t)
TakeFromReady(s, t) == ResetReady(RemoveGeneric(s, t), s.prio[t])

RemoveEvent(s, t) == [s EXCEPT !.event = [l \in DOMAIN @ |-> Without(@[l], t)],
                               !.pending = Without(@, t)]

-----------------------------------------------------------------------------
(***************************************************************************)
(* Blocking and unblocking.                                                *)
(***************************************************************************)
\* prvAddCurrentTaskToDelayedList.
AddCurrentToDelayed(s, wake) ==
    LET later == {u \in Tasks : s.wake[u] > wake}
        s1 == [s EXCEPT !.wake[s.current] = wake]
    IN  IF wake < s.tick
        THEN [s1 EXCEPT !.overflow = InsertSorted(@, s.current, later)]
        ELSE [s1 EXCEPT !.delayed = InsertSorted(@, s.current, later),
                        !.unblock = IF wake < @ THEN wake ELSE @]

PlaceOnEventList(s, l, ticks) ==
    LET lower == {u \in Tasks : s.prio[u] < s.prio[s.current]}
        s1 == TakeFromReady([s EXCEPT !.event[l] = InsertSorted(@, s.current, lower)], s.current)
    IN  IF ticks = MaxDelay THEN [s1 EXCEPT !.suspended = @ \cup {s.current}]
                            ELSE AddCurrentToDelayed(s1, (s.tick + ticks) % TickMod)

\* xTaskRemoveFromEventList and its result.
Outranks(s, l) == s.prio[Head(s.event[l])] > s.prio[s.current]
\* Mutant: the switch an interrupt did not ask for is forgotten.
RemoveQuietly(s, l) ==
    LET t  == Head(s.event[l])
        s1 == [s EXCEPT !.event[l] = Tail(@)]
    IN  IF s.locked = 0 THEN AddToReady(RemoveGeneric(s1, t), t)
                        ELSE [s1 EXCEPT !.pending = Append(@, t)]
RemoveFromEventList(s, l) ==
    LET t  == Head(s.event[l])
        s1 == [s EXCEPT !.event[l] = Tail(@), !.missed = @ \/ Outranks(s, l)]
    IN  IF s.locked = 0 THEN AddToReady(RemoveGeneric(s1, t), t)
                        ELSE [s1 EXCEPT !.pending = Append(@, t)]

ResetNextUnblock(s) ==
    [s EXCEPT !.unblock = IF s.delayed = << >> THEN MaxDelay ELSE s.wake[Head(s.delayed)]]

SwitchDelayedLists(s) ==
    ResetNextUnblock([s EXCEPT !.delayed = s.overflow, !.overflow = s.delayed,
                               !.overflows = @ + 1])

\* xTaskIncrementTick: the scheduler after a tick and whether to switch.
Due(s) ==
    LET later == {i \in DOMAIN s.delayed : s.wake[s.delayed[i]] > s.tick}
    IN  IF s.tick < s.unblock THEN << >>
        ELSE IF later = {} THEN s.delayed
        ELSE SubSeq(s.delayed, 1, FirstOf(later) - 1)
WakeUp(s, t) == AddToReady(RemoveEvent(RemoveGeneric(s, t), t), t)

Ticked(s) ==
    LET s1 == [s EXCEPT !.tick = (@ + 1) % TickMod]
    IN  IF s1.tick = 0 THEN SwitchDelayedLists(s1) ELSE s1

IncrementTick(s) ==
    IF s.locked > 0 THEN [s EXCEPT !.pended = @ + 1]
    ELSE LET s1 == Ticked(s)
             s2 == FoldLeft(WakeUp, s1, Due(s1))
         IN  IF s1.tick < s1.unblock THEN s2 ELSE ResetNextUnblock(s2)

SwitchAfterTick(s) ==
    \/ s.missed
    \/ /\ s.locked = 0
       /\ \/ \E i \in DOMAIN Due(Ticked(s)) : s.prio[Due(Ticked(s))[i]] >= s.prio[s.current]
          \/ Len(IncrementTick(s).ready[s.prio[s.current]].entries) > 1

-----------------------------------------------------------------------------
(***************************************************************************)
(* Suspending the scheduler, and switching.                                *)
(***************************************************************************)
SuspendAll(s) == [s EXCEPT !.locked = @ + 1]

\* xTaskResumeAll; it returns the value of missed it leaves, having yielded.
MovePending(s, t) ==
    LET s1 == AddToReady(RemoveGeneric(RemoveEvent(s, t), t), t)
    IN  [s1 EXCEPT !.missed = @ \/ s.prio[t] >= s.prio[s.current]]
ReplayTick(s, i) == [IncrementTick(s) EXCEPT !.missed = SwitchAfterTick(s)]

ResumeAll(s) ==
    LET s1 == [s EXCEPT !.locked = @ - 1]
        s2 == FoldLeft(MovePending, s1, s.pending)
        s3 == FoldLeft(ReplayTick, s2, [i \in 1 .. s.pended |-> i])
    IN  IF s1.locked > 0 THEN s1 ELSE [s3 EXCEPT !.pended = 0]
Yielded(s) == s.locked = 0 /\ s.missed

\* vTaskSwitchContext.
SwitchContext(s) ==
    LET p == CHOOSE p \in s.top : \A o \in s.top : o <= p
        r == RingNext(s.ready[p])
    IN  IF s.locked > 0 THEN [s EXCEPT !.missed = TRUE]
        ELSE [s EXCEPT !.missed = FALSE, !.ready[p] = r, !.current = r.entries[r.index]]

-----------------------------------------------------------------------------
(***************************************************************************)
(* Mutexes: the holder inherits the priority of a task that waits.         *)
(***************************************************************************)
\* Mutant: a holder that is blocked inherits nothing.
InheritReady(s, holder) ==
    LET p == s.prio[s.current]
    IN  IF s.prio[holder] >= p \/ ~ Contains(s.ready[s.prio[holder]].entries, holder) THEN s
        ELSE AddToReady([TakeFromReady(s, holder) EXCEPT !.prio[holder] = p], holder)
Inherit(s, holder) ==
    LET p == s.prio[s.current]
        raised == [s EXCEPT !.prio[holder] = p]
    IN  IF s.prio[holder] >= p THEN s
        ELSE IF Contains(s.ready[s.prio[holder]].entries, holder)
             THEN AddToReady([TakeFromReady(s, holder) EXCEPT !.prio[holder] = p], holder)
             ELSE raised

Drops(s, holder) == s.prio[holder] # BasePrio[holder] /\ s.held[holder] = 1
Disinherit(s, holder) ==
    LET s1 == [s EXCEPT !.held[holder] = @ - 1]
    IN  IF ~ Drops(s, holder) THEN s1
        ELSE AddToReady([TakeFromReady(s1, holder) EXCEPT !.prio[holder] = BasePrio[holder]],
                        holder)
=============================================================================
