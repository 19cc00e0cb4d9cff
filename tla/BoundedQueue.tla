---------------------------- MODULE BoundedQueue ----------------------------
(***************************************************************************)
(* What the queues of the kernel promise their users: each is a sequence   *)
(* of at most Length items.  An item is put at the back or, urgent ones,   *)
(* at the front; in a queue of length 1 a new item may replace the old     *)
(* one.  A receive and a peek get the oldest item; only a receive takes it *)
(* away.  Mutexes hold no items.                                           *)
(***************************************************************************)
EXTENDS Integers, Sequences

CONSTANTS DataQueues, Length, Item

VARIABLES items,   \* the items of each queue, oldest first
          out      \* what the last receive or peek got

Init == items = [q \in DataQueues |-> << >>] /\ out \notin Item

PutBack(q, x)  == /\ Len(items[q]) < Length[q]
                  /\ items' = [items EXCEPT ![q] = Append(@, x)]
                  /\ UNCHANGED out
PutFront(q, x) == /\ Len(items[q]) < Length[q]
                  /\ items' = [items EXCEPT ![q] = << x >> \o @]
                  /\ UNCHANGED out
Replace(q, x)  == /\ Length[q] = 1
                  /\ items' = [items EXCEPT ![q] = << x >>]
                  /\ UNCHANGED out
Take(q) == /\ items[q] # << >>
           /\ items' = [items EXCEPT ![q] = Tail(@)]
           /\ out' = Head(items[q])
Peek(q) == /\ items[q] # << >>
           /\ out' = Head(items[q])
           /\ UNCHANGED items

Next == \E q \in DataQueues : \/ \E x \in Item : PutBack(q, x) \/ PutFront(q, x) \/ Replace(q, x)
                              \/ Take(q) \/ Peek(q)

Spec == Init /\ [][Next]_<<items, out>>
=============================================================================
