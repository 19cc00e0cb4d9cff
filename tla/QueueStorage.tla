---------------------------- MODULE QueueStorage ----------------------------
(***************************************************************************)
(* The storage of a queue (queue.c): a ring of Length slots, the slot the  *)
(* next item is written to, the slot that was read last and the number of  *)
(* items.  Every operation is a function from storage to storage.          *)
(* Positions are slot numbers; the code keeps pointers that it compares    *)
(* with pcHead and pcTail.                                                 *)
(***************************************************************************)
EXTENDS Integers, Sequences

CONSTANTS Item, NoItem

Slots(length) == 0 .. length - 1

Storage(length) == [slot : [Slots(length) -> Item \cup {NoItem}],
                    writeTo : Slots(length), readFrom : Slots(length),
                    waiting : 0 .. length]

\* The slot after and the slot before i, with the wrap of the pointers.
After(i, length)  == IF i + 1 >= length THEN 0 ELSE i + 1
Before(i, length) == IF i = 0 THEN length - 1 ELSE i - 1

Reset(length) == [slot |-> [i \in Slots(length) |-> NoItem], writeTo |-> 0,
                  readFrom |-> length - 1, waiting |-> 0]

SendToBack(s, length, x) ==
    [slot |-> [s.slot EXCEPT ![s.writeTo] = x], writeTo |-> After(s.writeTo, length),
     readFrom |-> s.readFrom, waiting |-> s.waiting + 1]

\* Mutant: the item goes in after the pointer has moved.
SendBeforeFront(s, length, x) ==
    [slot |-> [s.slot EXCEPT ![Before(s.readFrom, length)] = x], writeTo |-> s.writeTo,
     readFrom |-> Before(s.readFrom, length), waiting |-> s.waiting + 1]
SendToFront(s, length, x) ==
    [slot |-> [s.slot EXCEPT ![s.readFrom] = x], writeTo |-> s.writeTo,
     readFrom |-> Before(s.readFrom, length), waiting |-> s.waiting + 1]

\* xQueueOverwrite: only for queues of length 1.
Overwrite(s, length, x) ==
    [slot |-> [s.slot EXCEPT ![s.readFrom] = x], writeTo |-> s.writeTo,
     readFrom |-> Before(s.readFrom, length),
     waiting |-> IF s.waiting > 0 THEN s.waiting ELSE s.waiting + 1]

\* The item a receive or a peek copies, and the storage after a receive.
\* A peek puts readFrom back where it was.
Oldest(s, length) == s.slot[After(s.readFrom, length)]

Receive(s, length) ==
    [slot |-> s.slot, writeTo |-> s.writeTo, readFrom |-> After(s.readFrom, length),
     waiting |-> s.waiting - 1]

IsEmpty(s) == s.waiting = 0
IsFull(s, length) == s.waiting = length

-----------------------------------------------------------------------------
(***************************************************************************)
(* What the storage holds, oldest item first.                              *)
(***************************************************************************)
SlotOf(s, length, i) == IF s.readFrom + i < length THEN s.readFrom + i
                                                   ELSE s.readFrom + i - length
Contents(s, length) == [i \in 1 .. s.waiting |-> s.slot[SlotOf(s, length, i)]]

\* The pointers agree with the number of items.
Sound(s, length) ==
    /\ s \in Storage(length)
    /\ s.writeTo = IF s.waiting = length THEN After(s.readFrom, length)
                                         ELSE SlotOf(s, length, s.waiting + 1)
    /\ \A i \in 1 .. s.waiting : s.slot[SlotOf(s, length, i)] \in Item
=============================================================================
