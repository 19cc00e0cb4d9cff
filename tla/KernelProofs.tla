---------------------------- MODULE KernelProofs ----------------------------
(***************************************************************************)
(* Whatever tasks and interrupts call, the queues of the kernel implement  *)
(* bounded queues, the lists of the scheduler agree, and nobody sleeps     *)
(* while there is something for him.  The first part is about the storage  *)
(* of one queue and the steps on it; the second about lists, the           *)
(* scheduler's functions one by one, and again the steps; the third about  *)
(* who is ready and who waits, first in the scheduler's functions, then in *)
(* the steps, with the tasks on their way counted against what is there;   *)
(* the fourth about who holds which mutex; the last about who should run.  *)
(***************************************************************************)
EXTENDS Kernel, FiniteSetTheorems, SequenceTheorems, WellFoundedInduction, TLAPS

-----------------------------------------------------------------------------
(***************************************************************************)
(* The ring of slots.                                                      *)
(***************************************************************************)
\* A new queue is sound and empty (xQueueGenericReset).
LEMMA ResetSound ==
  ASSUME NEW n \in Nat \ {0}
  PROVE  /\ S!Sound(S!Reset(n), n)
         /\ S!Contents(S!Reset(n), n) = << >>
<1>1. S!Reset(n) \in S!Storage(n)
  BY DEF S!Reset, S!Storage, S!Slots
<1>2. QED
  BY <1>1 DEF S!Reset, S!Sound, S!Contents, S!SlotOf, S!After, S!Slots

\* Sending to the back appends to what the queue holds.
LEMMA BackAppends ==
  ASSUME NEW n \in Nat \ {0}, NEW s, S!Sound(s, n), s.waiting < n, NEW x \in Item
  PROVE  /\ S!Sound(S!SendToBack(s, n, x), n)
         /\ S!Contents(S!SendToBack(s, n, x), n) = Append(S!Contents(s, n), x)
<1> DEFINE r == S!SendToBack(s, n, x)
<1>1. s \in S!Storage(n)
  BY DEF S!Sound
<1>2. /\ r.slot = [s.slot EXCEPT ![s.writeTo] = x]
      /\ r.writeTo = S!After(s.writeTo, n) /\ r.readFrom = s.readFrom
      /\ r.waiting = s.waiting + 1
      /\ r \in S!Storage(n)
  BY <1>1 DEF S!SendToBack, S!Storage, S!Slots, S!After
<1>3. S!SlotOf(r, n, s.waiting + 1) = s.writeTo
  BY <1>1, <1>2 DEF S!Sound, S!SlotOf, S!Storage, S!Slots, S!After
<1>4. \A i \in 1 .. s.waiting : S!SlotOf(r, n, i) = S!SlotOf(s, n, i) /\ S!SlotOf(s, n, i) # s.writeTo
                               /\ S!SlotOf(s, n, i) \in S!Slots(n)
  <2>1. s.writeTo = S!SlotOf(s, n, s.waiting + 1)
    BY <1>1 DEF S!Sound, S!Storage
  <2>2. s.waiting \in 0 .. n - 1 /\ s.readFrom \in 0 .. n - 1
    BY <1>1 DEF S!Storage, S!Slots
  <2>3. QED
    BY <1>2, <2>1, <2>2 DEF S!SlotOf, S!Slots
<1>5. \A i \in 1 .. s.waiting : r.slot[S!SlotOf(r, n, i)] = s.slot[S!SlotOf(s, n, i)]
  BY <1>1, <1>2, <1>4 DEF S!Storage
<1>6. r.slot[S!SlotOf(r, n, s.waiting + 1)] = x
  BY <1>1, <1>2, <1>3 DEF S!Storage
<1>7. S!Sound(r, n)
  <2>1. \A i \in 1 .. r.waiting : r.slot[S!SlotOf(r, n, i)] \in Item
    <3> SUFFICES ASSUME NEW i \in 1 .. r.waiting PROVE r.slot[S!SlotOf(r, n, i)] \in Item
      OBVIOUS
    <3>1. i \in 1 .. s.waiting \/ i = s.waiting + 1
      BY <1>1, <1>2 DEF S!Storage
    <3>2. QED
      BY <3>1, <1>5, <1>6 DEF S!Sound
  <2>2. r.writeTo = IF r.waiting = n THEN S!After(r.readFrom, n)
                                     ELSE S!SlotOf(r, n, r.waiting + 1)
    <3>1. s.writeTo = IF s.waiting = n THEN S!After(s.readFrom, n)
                                       ELSE S!SlotOf(s, n, s.waiting + 1)
      BY DEF S!Sound
    <3>2. s.waiting \in 0 .. n /\ s.readFrom \in 0 .. n - 1 /\ s.writeTo \in 0 .. n - 1
      BY <1>1 DEF S!Storage, S!Slots
    <3>3. QED
      BY <1>2, <3>1, <3>2 DEF S!After, S!SlotOf
  <2>3. QED
    BY <1>2, <2>1, <2>2 DEF S!Sound
<1>8. S!Contents(r, n) = Append(S!Contents(s, n), x)
  <2>1. S!Contents(s, n) \in Seq(Item) /\ Len(S!Contents(s, n)) = s.waiting
    BY <1>1 DEF S!Contents, S!Sound, S!Storage
  <2>2. S!Contents(r, n) \in Seq(Item) /\ Len(S!Contents(r, n)) = s.waiting + 1
    BY <1>1, <1>2, <1>7 DEF S!Contents, S!Sound, S!Storage
  <2>3. \A i \in 1 .. s.waiting + 1 : S!Contents(r, n)[i] = Append(S!Contents(s, n), x)[i]
    BY <1>1, <1>2, <1>5, <1>6, <2>1 DEF S!Contents, S!Storage
  <2>4. QED
    BY <2>1, <2>2, <2>3, <1>1 DEF S!Storage
<1>9. QED
  BY <1>7, <1>8

\* Sending to the front puts the item before all others.
LEMMA FrontPrepends ==
  ASSUME NEW n \in Nat \ {0}, NEW s, S!Sound(s, n), s.waiting < n, NEW x \in Item
  PROVE  /\ S!Sound(S!SendToFront(s, n, x), n)
         /\ S!Contents(S!SendToFront(s, n, x), n) = << x >> \o S!Contents(s, n)
<1> DEFINE r == S!SendToFront(s, n, x)
<1>1. s \in S!Storage(n)
  BY DEF S!Sound
<1>2. /\ r.slot = [s.slot EXCEPT ![s.readFrom] = x]
      /\ r.writeTo = s.writeTo /\ r.readFrom = S!Before(s.readFrom, n)
      /\ r.waiting = s.waiting + 1
      /\ r \in S!Storage(n)
  BY <1>1 DEF S!SendToFront, S!Storage, S!Slots, S!Before
<1>3. S!SlotOf(r, n, 1) = s.readFrom
  BY <1>1, <1>2 DEF S!SlotOf, S!Storage, S!Slots, S!Before
<1>4. \A i \in 1 .. s.waiting : S!SlotOf(r, n, i + 1) = S!SlotOf(s, n, i) /\ S!SlotOf(s, n, i) # s.readFrom
                               /\ S!SlotOf(s, n, i) \in S!Slots(n)
  BY <1>1, <1>2, SMTT(40) DEF S!SlotOf, S!Storage, S!Slots, S!Before
<1>5. \A i \in 1 .. s.waiting : r.slot[S!SlotOf(r, n, i + 1)] = s.slot[S!SlotOf(s, n, i)]
  BY <1>1, <1>2, <1>4 DEF S!Storage
<1>6. r.slot[S!SlotOf(r, n, 1)] = x
  BY <1>1, <1>2, <1>3 DEF S!Storage
<1>7. S!Sound(r, n)
  <2>1. \A i \in 1 .. r.waiting : r.slot[S!SlotOf(r, n, i)] \in Item
    <3> SUFFICES ASSUME NEW i \in 1 .. r.waiting PROVE r.slot[S!SlotOf(r, n, i)] \in Item
      OBVIOUS
    <3>1. CASE i = 1
      BY <1>6, <3>1
    <3>2. CASE i # 1
      <4>1. i - 1 \in 1 .. s.waiting /\ (i - 1) + 1 = i
        BY <1>1, <1>2, <3>2 DEF S!Storage
      <4>2. QED
        BY <4>1, <1>5 DEF S!Sound
    <3>3. QED
      BY <3>1, <3>2
  <2>2. r.writeTo = IF r.waiting = n THEN S!After(r.readFrom, n)
                                     ELSE S!SlotOf(r, n, r.waiting + 1)
    <3>1. s.writeTo = IF s.waiting = n THEN S!After(s.readFrom, n)
                                       ELSE S!SlotOf(s, n, s.waiting + 1)
      BY DEF S!Sound
    <3>2. s.waiting \in 0 .. n /\ s.readFrom \in 0 .. n - 1 /\ s.writeTo \in 0 .. n - 1
      BY <1>1 DEF S!Storage, S!Slots
    <3>3. QED
      <4>1. s.writeTo = S!SlotOf(s, n, s.waiting + 1)
        BY <3>1, <3>2
      <4>2. CASE s.readFrom = 0
        BY <1>2, <3>2, <4>1, <4>2 DEF S!Before, S!After, S!SlotOf
      <4>3. CASE s.readFrom # 0
        BY <1>2, <3>2, <4>1, <4>3 DEF S!Before, S!After, S!SlotOf
      <4>4. QED
        BY <4>2, <4>3
  <2>3. QED
    BY <1>2, <2>1, <2>2 DEF S!Sound
<1>8. S!Contents(r, n) = << x >> \o S!Contents(s, n)
  <2>1. S!Contents(s, n) \in Seq(Item) /\ Len(S!Contents(s, n)) = s.waiting
    BY <1>1 DEF S!Contents, S!Sound, S!Storage
  <2>2. S!Contents(r, n) \in Seq(Item) /\ Len(S!Contents(r, n)) = s.waiting + 1
    BY <1>1, <1>2, <1>7 DEF S!Contents, S!Sound, S!Storage
  <2>3. \A i \in 1 .. s.waiting : S!Contents(r, n)[i + 1] = S!Contents(s, n)[i]
    BY <1>1, <1>2, <1>5 DEF S!Contents, S!Storage
  <2>4. S!Contents(r, n)[1] = x
    BY <1>1, <1>2, <1>6 DEF S!Contents, S!Storage
  <2>5. QED
    BY <2>1, <2>2, <2>3, <2>4, <1>1 DEF S!Storage
<1>9. QED
  BY <1>7, <1>8

\* A queue of length 1 holds the item that was written over the old one.
LEMMA OverwriteReplaces ==
  ASSUME NEW s, S!Sound(s, 1), NEW x \in Item
  PROVE  /\ S!Sound(S!Overwrite(s, 1, x), 1)
         /\ S!Contents(S!Overwrite(s, 1, x), 1) = << x >>
<1> DEFINE r == S!Overwrite(s, 1, x)
<1>1. s \in S!Storage(1)
  BY DEF S!Sound
<1>2. /\ r.slot = [s.slot EXCEPT ![s.readFrom] = x]
      /\ r.writeTo = s.writeTo /\ r.readFrom = S!Before(s.readFrom, 1)
      /\ r.waiting = 1 /\ s.readFrom = 0 /\ s.writeTo = 0 /\ r.readFrom = 0
      /\ r \in S!Storage(1)
  BY <1>1 DEF S!Overwrite, S!Storage, S!Slots, S!Before
<1>3. r.slot[0] = x
  BY <1>1, <1>2 DEF S!Storage
<1>4. QED
  BY <1>1, <1>2, <1>3 DEF S!Sound, S!Contents, S!SlotOf, S!Storage, S!Slots, S!After

\* A receive gets the oldest item and takes it away.
LEMMA ReceiveTakesOldest ==
  ASSUME NEW n \in Nat \ {0}, NEW s, S!Sound(s, n), s.waiting # 0
  PROVE  /\ S!Sound(S!Receive(s, n), n)
         /\ S!Contents(s, n) # << >>
         /\ S!Oldest(s, n) = Head(S!Contents(s, n))
         /\ S!Contents(S!Receive(s, n), n) = Tail(S!Contents(s, n))
<1> DEFINE r == S!Receive(s, n)
<1>1. s \in S!Storage(n)
  BY DEF S!Sound
<1>2. /\ r.slot = s.slot /\ r.writeTo = s.writeTo
      /\ r.readFrom = S!After(s.readFrom, n)
      /\ r.waiting = s.waiting - 1
      /\ r \in S!Storage(n)
  BY <1>1 DEF S!Receive, S!Storage, S!Slots, S!After
<1>3. S!SlotOf(s, n, 1) = S!After(s.readFrom, n)
  BY <1>1 DEF S!SlotOf, S!Storage, S!Slots, S!After
<1>4. \A i \in 1 .. s.waiting - 1 : S!SlotOf(r, n, i) = S!SlotOf(s, n, i + 1)
  BY <1>1, <1>2, SMTT(40) DEF S!SlotOf, S!Storage, S!Slots, S!After
<1>5. \A i \in 1 .. s.waiting - 1 : r.slot[S!SlotOf(r, n, i)] = s.slot[S!SlotOf(s, n, i + 1)]
  BY <1>2, <1>4
<1>6. S!Sound(r, n)
  <2>1. \A i \in 1 .. r.waiting : r.slot[S!SlotOf(r, n, i)] \in Item
    <3> SUFFICES ASSUME NEW i \in 1 .. r.waiting PROVE r.slot[S!SlotOf(r, n, i)] \in Item
      OBVIOUS
    <3>1. i \in 1 .. s.waiting - 1 /\ i + 1 \in 1 .. s.waiting
      BY <1>1, <1>2 DEF S!Storage
    <3>2. QED
      BY <3>1, <1>5 DEF S!Sound
  <2>2. r.writeTo = IF r.waiting = n THEN S!After(r.readFrom, n)
                                     ELSE S!SlotOf(r, n, r.waiting + 1)
    <3>1. s.writeTo = IF s.waiting = n THEN S!After(s.readFrom, n)
                                       ELSE S!SlotOf(s, n, s.waiting + 1)
      BY DEF S!Sound
    <3>2. s.waiting \in 0 .. n /\ s.readFrom \in 0 .. n - 1 /\ s.writeTo \in 0 .. n - 1
      BY <1>1 DEF S!Storage, S!Slots
    <3>3. QED
      BY <1>2, <3>1, <3>2 DEF S!After, S!SlotOf
  <2>3. QED
    BY <1>2, <2>1, <2>2 DEF S!Sound
<1>7. S!Contents(s, n) \in Seq(Item) /\ Len(S!Contents(s, n)) = s.waiting /\ S!Contents(s, n) # << >>
  BY <1>1 DEF S!Contents, S!Sound, S!Storage
<1>8. S!Oldest(s, n) = Head(S!Contents(s, n))
  BY <1>1, <1>3, <1>7 DEF S!Contents, S!Oldest, S!Storage
<1>9. S!Contents(r, n) = Tail(S!Contents(s, n))
  <2>1. S!Contents(r, n) \in Seq(Item) /\ Len(S!Contents(r, n)) = s.waiting - 1
    <3>1. r.waiting \in Nat /\ \A i \in 1 .. r.waiting : r.slot[S!SlotOf(r, n, i)] \in Item
      BY <1>1, <1>2, <1>6 DEF S!Sound, S!Storage
    <3>2. QED
      BY <1>2, <3>1 DEF S!Contents
  <2>2. \A i \in 1 .. s.waiting - 1 : S!Contents(r, n)[i] = S!Contents(s, n)[i + 1]
    BY <1>1, <1>2, <1>5 DEF S!Contents, S!Storage
  <2>3. QED
    BY <2>1, <2>2, <1>7, <1>1 DEF S!Storage
<1>10. QED
  BY <1>6, <1>7, <1>8, <1>9

-----------------------------------------------------------------------------
(***************************************************************************)
(* The inductive invariant: every data queue's storage is sound and only   *)
(* calls that the program makes are under way.                             *)
(***************************************************************************)
TaskFields == {"at", "call", "ticks", "entered", "overflows", "fate", "began", "lastWake"}
QueueFields == {"store", "tx", "rx", "holder"}

CallsSound == /\ task = [t \in Tasks |-> task[t]]
              /\ \A t \in Tasks : DOMAIN task[t] = TaskFields /\ WellFormed(task[t].call)
QueuesShaped == /\ queue = [q \in Queues |-> queue[q]]
                /\ \A q \in Queues : DOMAIN queue[q] = QueueFields
StoresSound == \A q \in Data : S!Sound(queue[q].store, Length[q])
IInv == CallsSound /\ QueuesShaped /\ StoresSound /\ program \in Programs

\* The storages after a step: one is s, or all are as before.
Stores(q, s) == /\ queue'[q].store = s
                /\ \A r \in Queues \ {q} : queue'[r].store = queue[r].store
SameStores == \A r \in Data : queue'[r].store = queue[r].store

\* A step that changes no storage of a data queue is a stutter of the queues.
LEMMA SameIsStutter ==
  ASSUME SameStores, UNCHANGED out, StoresSound
  PROVE  StoresSound' /\ UNCHANGED <<Items, out>>
<1>1. StoresSound'
  BY DEF SameStores, StoresSound
<1>2. Items' = Items
  BY DEF SameStores, Items
<1>3. QED
  BY <1>1, <1>2

\* A new storage of one queue changes what this queue holds.
LEMMA StoresSetItems ==
  ASSUME NEW q \in Data, NEW s, Stores(q, s)
  PROVE  Items' = [Items EXCEPT ![q] = S!Contents(s, Length[q])]
BY DEF Items, Stores, Data

LEMMA StoresKeepSound ==
  ASSUME NEW q \in Data, NEW s, Stores(q, s), S!Sound(s, Length[q]), StoresSound
  PROVE  StoresSound'
BY DEF StoresSound, Stores, Data

\* Putting an item into a data queue.
LEMMA PutIsPut ==
  ASSUME StoresSound, NEW q \in Data, NEW x \in Item, UNCHANGED out,
         \/ ~ Full(q) /\ Stores(q, S!SendToBack(queue[q].store, Length[q], x))
         \/ ~ Full(q) /\ Stores(q, S!SendToFront(queue[q].store, Length[q], x))
         \/ Length[q] = 1 /\ Stores(q, S!Overwrite(queue[q].store, Length[q], x))
  PROVE  StoresSound' /\ Fifo!Next
<1> DEFINE n == Length[q]
           s == queue[q].store
<1>1. n \in Nat \ {0} /\ q \in Queues
  BY LengthAssumption DEF Data
<1>2. S!Sound(s, n)
  BY DEF StoresSound
<1>3. Items[q] = S!Contents(s, n) /\ Len(Items[q]) = s.waiting
  BY <1>2 DEF Items, S!Contents, S!Sound, S!Storage
<1>4. ~ Full(q) => s.waiting < n
  BY <1>1, <1>2 DEF Full, S!IsFull, S!Sound, S!Storage
<1>5. CASE ~ Full(q) /\ Stores(q, S!SendToBack(s, n, x))
  <2>1. /\ S!Sound(S!SendToBack(s, n, x), n)
        /\ S!Contents(S!SendToBack(s, n, x), n) = Append(S!Contents(s, n), x)
    BY <1>1, <1>2, <1>4, <1>5, BackAppends
  <2>2. Items' = [Items EXCEPT ![q] = Append(@, x)]
    BY <1>3, <1>5, <2>1, StoresSetItems
  <2>3. Fifo!PutBack(q, x)
    BY <1>3, <1>4, <1>5, <2>2 DEF Fifo!PutBack
  <2>4. QED
    BY <1>5, <2>1, <2>3, StoresKeepSound DEF Fifo!Next
<1>6. CASE ~ Full(q) /\ Stores(q, S!SendToFront(s, n, x))
  <2>1. /\ S!Sound(S!SendToFront(s, n, x), n)
        /\ S!Contents(S!SendToFront(s, n, x), n) = << x >> \o S!Contents(s, n)
    BY <1>1, <1>2, <1>4, <1>6, FrontPrepends
  <2>2. Items' = [Items EXCEPT ![q] = << x >> \o @]
    BY <1>3, <1>6, <2>1, StoresSetItems
  <2>3. Fifo!PutFront(q, x)
    BY <1>3, <1>4, <1>6, <2>2 DEF Fifo!PutFront
  <2>4. QED
    BY <1>6, <2>1, <2>3, StoresKeepSound DEF Fifo!Next
<1>7. CASE n = 1 /\ Stores(q, S!Overwrite(s, n, x))
  <2>1. /\ S!Sound(S!Overwrite(s, n, x), n)
        /\ S!Contents(S!Overwrite(s, n, x), n) = << x >>
    BY <1>2, <1>7, OverwriteReplaces
  <2>2. Items' = [Items EXCEPT ![q] = << x >>]
    BY <1>7, <2>1, StoresSetItems
  <2>3. Fifo!Replace(q, x)
    BY <1>7, <2>2 DEF Fifo!Replace
  <2>4. QED
    BY <1>7, <2>1, <2>3, StoresKeepSound DEF Fifo!Next
<1>8. QED
  BY <1>5, <1>6, <1>7

\* Receiving from a data queue.
LEMMA ReceiveIsTake ==
  ASSUME StoresSound, NEW q \in Data, ~ Empty(q), CopyFrom(q),
         Stores(q, S!Receive(queue[q].store, Length[q]))
  PROVE  StoresSound' /\ Fifo!Next
<1> DEFINE n == Length[q]
           s == queue[q].store
<1>1. n \in Nat \ {0} /\ s.waiting # 0 /\ S!Sound(s, n)
  BY LengthAssumption DEF Data, StoresSound, Empty, S!IsEmpty
<1>2. /\ S!Sound(S!Receive(s, n), n)
      /\ S!Contents(s, n) # << >>
      /\ S!Oldest(s, n) = Head(S!Contents(s, n))
      /\ S!Contents(S!Receive(s, n), n) = Tail(S!Contents(s, n))
  BY <1>1, ReceiveTakesOldest
<1>3. Items[q] = S!Contents(s, n) /\ Items' = [Items EXCEPT ![q] = Tail(@)]
  BY <1>2, StoresSetItems DEF Items
<1>4. out' = Head(Items[q])
  BY <1>2, <1>3 DEF CopyFrom, Data
<1>5. Fifo!Take(q)
  BY <1>2, <1>3, <1>4 DEF Fifo!Take
<1>6. QED
  BY <1>2, <1>5, StoresKeepSound DEF Fifo!Next

\* Peeking into a data queue.
LEMMA PeekIsPeek ==
  ASSUME StoresSound, NEW q \in Data, ~ Empty(q), CopyFrom(q), UNCHANGED queue
  PROVE  StoresSound' /\ Fifo!Next
<1> DEFINE n == Length[q]
           s == queue[q].store
<1>1. n \in Nat \ {0} /\ s.waiting # 0 /\ S!Sound(s, n)
  BY LengthAssumption DEF Data, StoresSound, Empty, S!IsEmpty
<1>2. S!Contents(s, n) # << >> /\ S!Oldest(s, n) = Head(S!Contents(s, n))
  BY <1>1, ReceiveTakesOldest
<1>3. Items[q] = S!Contents(s, n) /\ Items' = Items
  BY DEF Items
<1>4. Fifo!Peek(q)
  BY <1>2, <1>3 DEF Fifo!Peek, CopyFrom, Data
<1>5. QED
  BY <1>4 DEF Fifo!Next, StoresSound

-----------------------------------------------------------------------------
(***************************************************************************)
(* The steps.  Each keeps the records' shape and the calls well formed,    *)
(* and is a step or a stutter of the bounded queues.                       *)
(***************************************************************************)
FifoStep == StoresSound' /\ (Fifo!Next \/ UNCHANGED <<Items, out>>)

LEMMA ReturnKeepsCalls ==
  ASSUME CallsSound, NEW t \in Tasks, Return(t)
  PROVE  CallsSound'
<1>1. WellFormed(NoCall)
  BY DEF WellFormed, NoCall, PutOps, GetOps
<1>2. DOMAIN Outside(task[t].lastWake) = TaskFields /\ Outside(task[t].lastWake).call = NoCall
  BY DEF Outside, TaskFields
<1>3. task' = [u \in Tasks |-> IF u = t THEN Outside(task[t].lastWake) ELSE task[u]]
  BY DEF Return, CallsSound
<1>4. QED
  BY <1>1, <1>2, <1>3 DEF CallsSound

\* A step that gives one task a new record with the same or a well formed call.
LEMMA RecordKeepsCalls ==
  ASSUME CallsSound, NEW t \in Tasks, NEW r, DOMAIN r = TaskFields, WellFormed(r.call),
         task' = [task EXCEPT ![t] = r]
  PROVE  CallsSound'
<1>1. task' = [u \in Tasks |-> IF u = t THEN r ELSE task[u]]
  BY DEF CallsSound
<1>2. QED
  BY <1>1 DEF CallsSound

LEMMA GoToKeepsCalls ==
  ASSUME CallsSound, NEW t \in Tasks, NEW at, GoTo(t, at)
  PROVE  CallsSound'
<1> DEFINE r == [task[t] EXCEPT !.at = at]
<1>1. DOMAIN r = TaskFields /\ r.call = task[t].call
  BY DEF CallsSound, TaskFields
<1>2. task' = [task EXCEPT ![t] = r]
  BY DEF GoTo
<1>3. WellFormed(r.call)
  BY <1>1 DEF CallsSound
<1>4. QED
  BY <1>1, <1>2, <1>3, RecordKeepsCalls

\* A queue gets a new record with the same store.
LEMMA SameStoreKeeps ==
  ASSUME QueuesShaped, StoresSound, NEW q \in Queues, NEW r, DOMAIN r = QueueFields,
         r.store = queue[q].store, queue' = [queue EXCEPT ![q] = r], UNCHANGED out
  PROVE  QueuesShaped' /\ FifoStep
<1>1. queue' = [u \in Queues |-> IF u = q THEN r ELSE queue[u]]
  BY DEF QueuesShaped
<1>2. QueuesShaped'
  BY <1>1 DEF QueuesShaped
<1>3. SameStores
  BY <1>1 DEF SameStores, Data
<1>4. QED
  BY <1>2, <1>3, SameIsStutter DEF FifoStep

\* What prvCopyDataToQueue does, with or without a count in the lock.
LEMMA CopyToPuts ==
  ASSUME QueuesShaped, StoresSound, NEW c, WellFormed(c), c.op \in PutOps, Possible(c),
         NEW x \in Item, NEW r, DOMAIN r = QueueFields, r.store = CopyTo(c.q, c.op, x).store,
         queue' = [queue EXCEPT ![c.q] = r], UNCHANGED out
  PROVE  QueuesShaped' /\ FifoStep
<1> DEFINE q == c.q
           s == queue[q].store
           n == Length[q]
<1>1. /\ q \in Queues
      /\ c.op = "overwrite" => n = 1
      /\ c.op # "overwrite" => ~ Full(q)
  BY DEF WellFormed, Possible, PutOps, GetOps
<1>2. queue' = [u \in Queues |-> IF u = q THEN r ELSE queue[u]]
  BY DEF QueuesShaped
<1>3. QueuesShaped'
  BY <1>1, <1>2 DEF QueuesShaped
<1>4. CASE q \in Mutexes
  <2>1. SameStores
    BY <1>2, <1>4 DEF SameStores, Data
  <2>2. QED
    BY <1>3, <2>1, SameIsStutter DEF FifoStep
<1>5. CASE q \notin Mutexes
  <2>1. q \in Data
    BY <1>1, <1>5 DEF Data
  <2>2. DOMAIN queue[q] = QueueFields
    BY <1>1 DEF QueuesShaped
  <2>3. \/ c.op = "back" /\ r.store = S!SendToBack(s, n, x)
        \/ c.op = "front" /\ r.store = S!SendToFront(s, n, x)
        \/ c.op = "overwrite" /\ r.store = S!Overwrite(s, n, x)
    <3>1. CASE c.op = "back"
      BY <1>5, <2>2, <3>1 DEF CopyTo, QueueFields
    <3>2. CASE c.op = "front"
      BY <1>5, <2>2, <3>2 DEF CopyTo, QueueFields
    <3>3. CASE c.op = "overwrite"
      BY <1>5, <2>2, <3>3 DEF CopyTo, QueueFields
    <3>4. QED
      BY <3>1, <3>2, <3>3 DEF PutOps
  <2>4. Stores(q, r.store)
    BY <1>1, <1>2 DEF Stores
  <2>5. \/ ~ Full(q) /\ Stores(q, S!SendToBack(s, n, x))
        \/ ~ Full(q) /\ Stores(q, S!SendToFront(s, n, x))
        \/ n = 1 /\ Stores(q, S!Overwrite(s, n, x))
    BY <1>1, <2>3, <2>4
  <2>6. StoresSound' /\ Fifo!Next
    BY <2>1, <2>5, PutIsPut
  <2>7. QED
    BY <1>3, <2>6 DEF FifoStep
<1>6. QED
  BY <1>4, <1>5

LEMMA CopyToShape ==
  ASSUME QueuesShaped, NEW q \in Queues, NEW op, NEW x, NEW v
  PROVE  /\ DOMAIN CopyTo(q, op, x) = QueueFields
         /\ DOMAIN [CopyTo(q, op, x) EXCEPT !.tx = v] = QueueFields
         /\ [CopyTo(q, op, x) EXCEPT !.tx = v].store = CopyTo(q, op, x).store
<1>1. DOMAIN queue[q] = QueueFields
  BY DEF QueuesShaped
<1>2. DOMAIN CopyTo(q, op, x) = QueueFields
  BY <1>1 DEF CopyTo
<1> HIDE DEF CopyTo
<1>3. QED
  BY <1>2 DEF QueueFields

LEMMA SendNowStep ==
  ASSUME IInv, NEW t \in Tasks, NEW c, WellFormed(c), SendNow(t, c)
  PROVE  CallsSound' /\ QueuesShaped' /\ FifoStep
<1>1. PICK x \in program.items : queue' = [queue EXCEPT ![c.q] = CopyTo(c.q, c.op, x)]
  BY DEF SendNow
<1>2. x \in Item /\ c.q \in Queues /\ c.op \in PutOps /\ Possible(c) /\ UNCHANGED out /\ Return(t)
  BY ProgramsAssumption DEF IInv, SendNow, WellFormed
<1>3. DOMAIN CopyTo(c.q, c.op, x) = QueueFields
  BY <1>2, CopyToShape DEF IInv
<1>4. QueuesShaped' /\ FifoStep
  BY <1>1, <1>2, <1>3, CopyToPuts DEF IInv
<1>5. QED
  BY <1>2, <1>4, ReturnKeepsCalls DEF IInv

LEMMA ReceiveNowStep ==
  ASSUME IInv, NEW t \in Tasks, NEW c, WellFormed(c), ReceiveNow(t, c)
  PROVE  CallsSound' /\ QueuesShaped' /\ FifoStep
<1> DEFINE q == c.q
<1>1. q \in Queues /\ ~ Empty(q) /\ Return(t) /\ CopyFrom(q)
  BY DEF ReceiveNow, Possible, PutOps, GetOps, WellFormed
<1>2. QueuesShaped /\ StoresSound /\ CallsSound /\ DOMAIN queue[q] = QueueFields
  BY <1>1 DEF IInv, QueuesShaped
<1>3. CASE q \in Mutexes
  <2> DEFINE r == [queue[q] EXCEPT !.store.waiting = @ - 1, !.holder = t]
  <2>1. queue' = [queue EXCEPT ![q] = r]
    BY <1>3 DEF ReceiveNow
  <2>2. DOMAIN r = QueueFields
    BY <1>2
  <2>3. queue' = [u \in Queues |-> IF u = q THEN r ELSE queue[u]]
    BY <1>2, <2>1 DEF QueuesShaped
  <2> HIDE DEF r
  <2>4. QueuesShaped'
    BY <1>2, <2>2, <2>3 DEF QueuesShaped
  <2>5. SameStores /\ UNCHANGED out
    BY <1>1, <1>3, <2>3 DEF SameStores, Data, CopyFrom
  <2>6. QED
    BY <1>1, <1>2, <2>4, <2>5, SameIsStutter, ReturnKeepsCalls DEF FifoStep
<1>4. CASE q \notin Mutexes
  <2> DEFINE r == [queue[q] EXCEPT !.store = S!Receive(@, Length[q])]
  <2>1. queue' = [queue EXCEPT ![q] = r]
    BY <1>4 DEF ReceiveNow
  <2>2. DOMAIN r = QueueFields /\ r.store = S!Receive(queue[q].store, Length[q])
    BY <1>2 DEF QueueFields
  <2>3. queue' = [u \in Queues |-> IF u = q THEN r ELSE queue[u]]
    BY <1>2, <2>1 DEF QueuesShaped
  <2> HIDE DEF r
  <2>4. QueuesShaped'
    BY <1>2, <2>2, <2>3 DEF QueuesShaped
  <2>5. Stores(q, S!Receive(queue[q].store, Length[q])) /\ q \in Data
    BY <1>1, <1>4, <2>2, <2>3 DEF Stores, Data
  <2>6. QED
    BY <1>1, <1>2, <2>4, <2>5, ReceiveIsTake, ReturnKeepsCalls DEF FifoStep
<1>5. QED
  BY <1>3, <1>4

LEMMA PeekNowStep ==
  ASSUME IInv, NEW t \in Tasks, NEW c, WellFormed(c), PeekNow(t, c)
  PROVE  CallsSound' /\ QueuesShaped' /\ FifoStep
<1>1. c.q \in Data /\ ~ Empty(c.q) /\ CopyFrom(c.q) /\ Return(t) /\ UNCHANGED queue
  BY DEF PeekNow, Possible, PutOps, GetOps, WellFormed, Data
<1>2. StoresSound' /\ Fifo!Next
  BY <1>1, PeekIsPeek DEF IInv
<1>3. QED
  BY <1>1, <1>2, ReturnKeepsCalls DEF IInv, FifoStep, QueuesShaped

\* The queues stutter when no queue changes.
LEMMA UnchangedStep ==
  ASSUME IInv, UNCHANGED <<queue, out>>
  PROVE  QueuesShaped' /\ FifoStep
<1>1. SameStores
  BY DEF SameStores
<1>2. QED
  BY <1>1, SameIsStutter DEF IInv, FifoStep, QueuesShaped

LEMMA TurnStep ==
  ASSUME IInv, NEW t \in Tasks, NEW c, WellFormed(c), NEW ticks, NEW first \in BOOLEAN,
         Turn(t, c, ticks, first)
  PROVE  CallsSound' /\ QueuesShaped' /\ FifoStep
<1>1. CASE GiveUp(t, c, ticks)
  BY <1>1, UnchangedStep, ReturnKeepsCalls DEF GiveUp, IInv
<1>2. CASE Block(t, c, ticks, first)
  <2>1. DOMAIN task[t] = TaskFields /\ WellFormed(task[t].call)
    BY DEF IInv, CallsSound
  <2>2. CASE first
    <3> DEFINE r == [task[t] EXCEPT !.at = "suspendAll", !.call = c, !.ticks = ticks,
                                    !.entered = os.tick, !.overflows = os.overflows,
                                    !.began = Now, !.fate = "none"]
    <3>1. task' = [task EXCEPT ![t] = r]
      <4>1. task = [u \in Tasks |-> task[u]]
        BY DEF IInv, CallsSound
      <4>2. task' = [task EXCEPT ![t].at = "suspendAll", ![t].call = c, ![t].ticks = ticks,
                                ![t].entered = os.tick, ![t].overflows = os.overflows,
                                ![t].began = Now, ![t].fate = "none"]
        BY <1>2, <2>2 DEF Block
      <4>3. QED
        BY <4>1, <4>2
    <3>2. DOMAIN r = TaskFields /\ r.call = c
      BY <2>1 DEF TaskFields
    <3> HIDE DEF r
    <3>3. QED
      BY <1>2, <3>1, <3>2, RecordKeepsCalls, UnchangedStep DEF Block, IInv
  <2>3. CASE ~ first
    <3> DEFINE r == [task[t] EXCEPT !.at = "suspendAll"]
    <3>1. task' = [task EXCEPT ![t] = r]
      BY <1>2, <2>3 DEF Block
    <3>2. DOMAIN r = TaskFields /\ r.call = task[t].call
      BY <2>1 DEF TaskFields
    <3> HIDE DEF r
    <3>3. QED
      BY <1>2, <2>1, <3>1, <3>2, RecordKeepsCalls, UnchangedStep DEF Block, IInv
  <2>4. QED
    BY <2>2, <2>3
<1>3. QED
  BY <1>1, <1>2, SendNowStep, ReceiveNowStep, PeekNowStep DEF Turn

\* Locking and unlocking change no storage, whatever queue is meant.
LEMMA LockKeeps ==
  ASSUME IInv, NEW q, NEW tx, NEW rx, UNCHANGED out,
         \/ queue' = [queue EXCEPT ![q].tx = tx]
         \/ queue' = [queue EXCEPT ![q].rx = rx]
         \/ queue' = [queue EXCEPT ![q].tx = tx, ![q].rx = rx]
  PROVE  QueuesShaped' /\ FifoStep
<1>1. CASE q \notin Queues
  <2>1. queue' = queue
    BY <1>1 DEF IInv, QueuesShaped
  <2>2. QED
    BY <2>1, UnchangedStep
<1>2. CASE q \in Queues
  <2>1. DOMAIN queue[q] = QueueFields
    BY <1>2 DEF IInv, QueuesShaped
  <2>2. \E r : /\ queue' = [queue EXCEPT ![q] = r]
               /\ DOMAIN r = QueueFields /\ r.store = queue[q].store
    <3>1. CASE queue' = [queue EXCEPT ![q].tx = tx]
      <4> DEFINE r == [queue[q] EXCEPT !.tx = tx]
      <4>1. DOMAIN r = QueueFields /\ r.store = queue[q].store
        BY <2>1 DEF QueueFields
      <4>2. QED
        BY <3>1, <4>1
    <3>2. CASE queue' = [queue EXCEPT ![q].rx = rx]
      <4> DEFINE r == [queue[q] EXCEPT !.rx = rx]
      <4>1. DOMAIN r = QueueFields /\ r.store = queue[q].store
        BY <2>1 DEF QueueFields
      <4>2. QED
        BY <3>2, <4>1
    <3>3. CASE queue' = [queue EXCEPT ![q].tx = tx, ![q].rx = rx]
      <4> DEFINE r == [queue[q] EXCEPT !.tx = tx, !.rx = rx]
      <4>1. DOMAIN r = QueueFields /\ r.store = queue[q].store
        BY <2>1 DEF QueueFields
      <4>2. queue' = [queue EXCEPT ![q] = r]
        BY <1>2, <3>3 DEF IInv, QueuesShaped
      <4>3. QED
        BY <4>1, <4>2
    <3>4. QED
      BY <3>1, <3>2, <3>3
  <2>3. QED
    BY <1>2, <2>2, SameStoreKeeps DEF IInv
<1>3. QED
  BY <1>1, <1>2

LEMMA SendFromISRStep ==
  ASSUME IInv, SendFromISR
  PROVE  CallsSound' /\ QueuesShaped' /\ FifoStep
<1>1. PICK c \in program.isr, x \in program.items :
         /\ c.op \in PutOps /\ Possible(c)
         /\ queue' = [queue EXCEPT ![c.q] = [CopyTo(c.q, c.op, x) EXCEPT
                         !.tx = IF queue[c.q].tx # Unlocked THEN @ + 1 ELSE @]]
         /\ UNCHANGED <<task, out>>
  BY DEF SendFromISR
<1>2. x \in Item /\ WellFormed(c) /\ c.q \in Queues
  BY <1>1, ProgramsAssumption DEF IInv, WellFormed
<1> DEFINE v == IF queue[c.q].tx # Unlocked THEN CopyTo(c.q, c.op, x).tx + 1
                                            ELSE CopyTo(c.q, c.op, x).tx
           r == [CopyTo(c.q, c.op, x) EXCEPT !.tx = v]
<1>3. queue' = [queue EXCEPT ![c.q] = r]
  BY <1>1
<1>4. DOMAIN r = QueueFields /\ r.store = CopyTo(c.q, c.op, x).store
  BY <1>2, CopyToShape DEF IInv
<1> HIDE DEF r
<1>5. QueuesShaped' /\ FifoStep
  BY <1>1, <1>2, <1>3, <1>4, CopyToPuts DEF IInv
<1>6. QED
  BY <1>1, <1>5 DEF IInv, CallsSound

LEMMA ReceiveFromISRStep ==
  ASSUME IInv, ReceiveFromISR
  PROVE  CallsSound' /\ QueuesShaped' /\ FifoStep
<1>1. PICK c \in program.isr :
         /\ c.op = "receive" /\ Possible(c) /\ CopyFrom(c.q)
         /\ queue' = [queue EXCEPT ![c.q].store = S!Receive(@, Length[c.q]),
                         ![c.q].rx = IF queue[c.q].rx # Unlocked THEN @ + 1 ELSE @]
         /\ UNCHANGED task
  BY DEF ReceiveFromISR
<1> DEFINE q == c.q
           v == IF queue[q].rx # Unlocked THEN queue[q].rx + 1 ELSE queue[q].rx
           r == [queue[q] EXCEPT !.store = S!Receive(@, Length[q]), !.rx = v]
<1>2. WellFormed(c) /\ q \in Data /\ q \in Queues /\ ~ Empty(q)
  BY <1>1, ProgramsAssumption DEF IInv, WellFormed, Data, Possible, PutOps, GetOps
<1>3. DOMAIN queue[q] = QueueFields
  BY <1>2 DEF IInv, QueuesShaped
<1>4. DOMAIN r = QueueFields /\ r.store = S!Receive(queue[q].store, Length[q])
  BY <1>3 DEF QueueFields
<1>5. queue' = [queue EXCEPT ![q] = r]
  <2>1. [queue[q] EXCEPT !.store = S!Receive(@, Length[q])].rx = queue[q].rx
    BY <1>3 DEF QueueFields
  <2>2. QED
    BY <1>1, <1>2, <2>1 DEF IInv, QueuesShaped
<1>6. queue' = [u \in Queues |-> IF u = q THEN r ELSE queue[u]]
  BY <1>5 DEF IInv, QueuesShaped
<1> HIDE DEF r
<1>7. QueuesShaped'
  BY <1>4, <1>6 DEF IInv, QueuesShaped
<1>8. Stores(q, S!Receive(queue[q].store, Length[q]))
  BY <1>2, <1>4, <1>6 DEF Stores
<1>9. StoresSound' /\ Fifo!Next
  BY <1>1, <1>2, <1>8, ReceiveIsTake DEF IInv
<1>10. QED
  BY <1>1, <1>7, <1>9 DEF IInv, CallsSound, FifoStep

\* Steps of tasks that touch no queue and give the task a new record.
LEMMA TaskRecordStep ==
  ASSUME IInv, NEW t \in Tasks, UNCHANGED <<queue, out>>,
         NEW r, DOMAIN r = TaskFields, WellFormed(r.call), task' = [task EXCEPT ![t] = r]
  PROVE  CallsSound' /\ QueuesShaped' /\ FifoStep
BY RecordKeepsCalls, UnchangedStep DEF IInv

LEMMA CheckForTimeOutStep ==
  ASSUME IInv, NEW t \in Tasks, CheckForTimeOut(t)
  PROVE  CallsSound' /\ QueuesShaped' /\ FifoStep
<1>1. DOMAIN task[t] = TaskFields /\ WellFormed(task[t].call)
  BY DEF IInv, CallsSound
<1> DEFINE r1 == [task[t] EXCEPT !.at = "unlockTx", !.fate = "fail"]
           r2 == [task[t] EXCEPT !.at = "test"]
           r3 == [task[t] EXCEPT !.at = "test", !.ticks = task[t].ticks - Elapsed(t),
                                 !.entered = os.tick, !.overflows = os.overflows]
<1>2. DOMAIN r1 = TaskFields /\ r1.call = task[t].call
  BY <1>1 DEF TaskFields
<1>3. DOMAIN r2 = TaskFields /\ r2.call = task[t].call
  BY <1>1 DEF TaskFields
<1>4. DOMAIN r3 = TaskFields /\ r3.call = task[t].call
  BY <1>1 DEF TaskFields
<1>5. \/ task' = [task EXCEPT ![t] = r1]
      \/ task' = [task EXCEPT ![t] = r2]
      \/ task' = [task EXCEPT ![t] = r3]
  <2>1. task = [u \in Tasks |-> task[u]]
    BY DEF IInv, CallsSound
  <2>2. CASE TimedOut(t)
    <3>1. task' = [task EXCEPT ![t].at = "unlockTx", ![t].fate = "fail"]
      BY <2>2 DEF CheckForTimeOut
    <3>2. QED
      BY <2>1, <3>1
  <2>3. CASE ~ TimedOut(t) /\ task[t].ticks = MaxDelay
    BY <2>3 DEF CheckForTimeOut
  <2>4. CASE ~ TimedOut(t) /\ task[t].ticks # MaxDelay
    <3>1. task' = [task EXCEPT ![t].at = "test", ![t].ticks = task[t].ticks - Elapsed(t),
                              ![t].entered = os.tick, ![t].overflows = os.overflows]
      <4>1. [task EXCEPT ![t].at = "test"][t].ticks = task[t].ticks
        BY <1>1, <2>1 DEF TaskFields
      <4>2. QED
        BY <2>4, <4>1 DEF CheckForTimeOut
    <3>2. QED
      BY <2>1, <3>1
  <2>5. QED
    BY <2>2, <2>3, <2>4
<1>6. UNCHANGED <<queue, out>>
  BY DEF CheckForTimeOut
<1> HIDE DEF r1, r2, r3
<1>7. QED
  BY <1>1, <1>2, <1>3, <1>4, <1>5, <1>6, TaskRecordStep

LEMMA TestAgainStep ==
  ASSUME IInv, NEW t \in Tasks, TestAgain(t)
  PROVE  CallsSound' /\ QueuesShaped' /\ FifoStep
<1>1. DOMAIN task[t] = TaskFields /\ WellFormed(task[t].call)
  BY DEF IInv, CallsSound
<1>2. PICK at, fate : task' = [task EXCEPT ![t].at = at, ![t].fate = fate]
  BY DEF TestAgain
<1> DEFINE r == [task[t] EXCEPT !.at = at, !.fate = fate]
<1>3. DOMAIN r = TaskFields /\ r.call = task[t].call
  BY <1>1 DEF TaskFields
<1>4. task' = [task EXCEPT ![t] = r]
  <2>1. task = [u \in Tasks |-> task[u]]
    BY DEF IInv, CallsSound
  <2>2. QED
    BY <1>2, <2>1
<1>5. UNCHANGED <<queue, out>>
  BY DEF TestAgain
<1> HIDE DEF r
<1>6. QED
  BY <1>1, <1>3, <1>4, <1>5, TaskRecordStep

LEMMA CallDelayStep ==
  ASSUME IInv, NEW t \in Tasks, CallDelay(t)
  PROVE  CallsSound' /\ QueuesShaped' /\ FifoStep
<1>1. PICK c \in program.calls[t] :
         \/ UNCHANGED task
         \/ task' = [task EXCEPT ![t].at = "delay", ![t].call = c, ![t].began = Now,
                                 ![t].ticks = c.ticks, ![t].fate = "delayed"]
  BY DEF CallDelay
<1>2. UNCHANGED <<queue, out>>
  BY DEF CallDelay
<1>3. CASE UNCHANGED task
  BY <1>2, <1>3, UnchangedStep DEF IInv, CallsSound
<1>4. CASE ~ UNCHANGED task
  <2> DEFINE r == [task[t] EXCEPT !.at = "delay", !.call = c, !.began = Now,
                                  !.ticks = c.ticks, !.fate = "delayed"]
  <2>1. DOMAIN task[t] = TaskFields /\ WellFormed(c)
    BY ProgramsAssumption DEF IInv, CallsSound
  <2>2. DOMAIN r = TaskFields /\ r.call = c
    BY <2>1 DEF TaskFields
  <2>3. task = [u \in Tasks |-> task[u]]
    BY DEF IInv, CallsSound
  <2>4. task' = [task EXCEPT ![t] = r]
    BY <1>1, <1>4, <2>3
  <2> HIDE DEF r
  <2>5. QED
    BY <1>2, <2>1, <2>2, <2>4, TaskRecordStep
<1>5. QED
  BY <1>3, <1>4

LEMMA DelayStep ==
  ASSUME IInv, NEW t \in Tasks, Delay(t)
  PROVE  CallsSound' /\ QueuesShaped' /\ FifoStep
<1>1. DOMAIN task[t] = TaskFields /\ WellFormed(task[t].call)
  BY DEF IInv, CallsSound
<1>2. PICK last : task' = [task EXCEPT ![t].at = "resumeAll", ![t].lastWake = last]
  BY DEF Delay
<1> DEFINE r == [task[t] EXCEPT !.at = "resumeAll", !.lastWake = last]
<1>3. DOMAIN r = TaskFields /\ r.call = task[t].call
  BY <1>1 DEF TaskFields
<1>4. task' = [task EXCEPT ![t] = r]
  <2>1. task = [u \in Tasks |-> task[u]]
    BY DEF IInv, CallsSound
  <2>2. QED
    BY <1>2, <2>1
<1>5. UNCHANGED <<queue, out>>
  BY DEF Delay
<1> HIDE DEF r
<1>6. QED
  BY <1>1, <1>3, <1>4, <1>5, TaskRecordStep

LEMMA TaskStepStep ==
  ASSUME IInv, NEW t \in Tasks, TaskStep(t)
  PROVE  CallsSound' /\ QueuesShaped' /\ FifoStep
<1>1. CASE Call(t)
  <2>1. PICK c \in program.calls[t] : Turn(t, c, c.ticks, TRUE)
    BY <1>1 DEF Call
  <2>2. WellFormed(c)
    BY ProgramsAssumption DEF IInv
  <2>3. QED
    BY <2>1, <2>2, TurnStep
<1>2. CASE Retry(t)
  <2>1. WellFormed(task[t].call) /\ Turn(t, task[t].call, task[t].ticks, FALSE)
    BY <1>2 DEF Retry, IInv, CallsSound
  <2>2. QED
    BY <2>1, TurnStep
<1>3. CASE SuspendScheduler(t)
  BY <1>3, GoToKeepsCalls, UnchangedStep DEF SuspendScheduler, IInv
<1>4. CASE LockQueue(t)
  <2>1. PICK tx, rx : queue' = [queue EXCEPT ![task[t].call.q].tx = tx, ![task[t].call.q].rx = rx]
    BY <1>4 DEF LockQueue
  <2>2. GoTo(t, "check") /\ UNCHANGED out
    BY <1>4 DEF LockQueue
  <2>3. QED
    BY <2>1, <2>2, LockKeeps, GoToKeepsCalls DEF IInv
<1>5. CASE UnlockTx(t)
  <2>1. /\ queue' = [queue EXCEPT ![task[t].call.q].tx = Unlocked]
        /\ GoTo(t, "unlockRx") /\ UNCHANGED out
    BY <1>5 DEF UnlockTx
  <2>2. QED
    BY <2>1, LockKeeps, GoToKeepsCalls DEF IInv
<1>6. CASE UnlockRx(t)
  <2>1. /\ queue' = [queue EXCEPT ![task[t].call.q].rx = Unlocked]
        /\ GoTo(t, "resumeAll") /\ UNCHANGED out
    BY <1>6 DEF UnlockRx
  <2>2. QED
    BY <2>1, LockKeeps, GoToKeepsCalls DEF IInv
<1>7. CASE Place(t)
  BY <1>7, GoToKeepsCalls, UnchangedStep DEF Place, IInv
<1>8. CASE ResumeScheduler(t)
  <2>1. CallsSound'
    BY <1>8, GoToKeepsCalls, ReturnKeepsCalls DEF ResumeScheduler, IInv
  <2>2. QED
    BY <1>8, <2>1, UnchangedStep DEF ResumeScheduler
<1>9. CASE Suspend(t)
  <2>1. CallsSound'
    BY <1>9, GoToKeepsCalls DEF Suspend, IInv, CallsSound
  <2>2. QED
    BY <1>9, <2>1, UnchangedStep DEF Suspend
<1>10. CASE ResetUnblock(t)
  BY <1>10, ReturnKeepsCalls, UnchangedStep DEF ResetUnblock, IInv
<1>11. CASE Resume(t)
  BY <1>11, UnchangedStep DEF Resume, IInv, CallsSound
<1>12. QED
  BY <1>1, <1>2, <1>3, <1>4, <1>5, <1>6, <1>7, <1>8, <1>9, <1>10, <1>11,
     CheckForTimeOutStep, TestAgainStep, CallDelayStep, DelayStep DEF TaskStep

LEMMA InitIInv == Init => IInv /\ Fifo!Init
<1> SUFFICES ASSUME Init PROVE IInv /\ Fifo!Init
  OBVIOUS
<1>1. CallsSound
  <2>1. WellFormed(NoCall)
    BY DEF WellFormed, NoCall, PutOps, GetOps
  <2>2. task = [t \in Tasks |-> Outside(FirstTick)]
    BY DEF Init
  <2>3. QED
    BY <2>1, <2>2 DEF CallsSound, Outside, TaskFields
<1>2. queue = [q \in Queues |->
                  [store |-> [S!Reset(Length[q]) EXCEPT !.waiting = IF q \in Mutexes THEN 1 ELSE 0],
                   tx |-> Unlocked, rx |-> Unlocked, holder |-> NoTask]]
  BY DEF Init
<1>3. QueuesShaped
  BY <1>2 DEF QueuesShaped, QueueFields
<1>4. \A q \in Data : queue[q].store = S!Reset(Length[q])
  BY <1>2 DEF Data, S!Reset
<1>5. \A q \in Data : Length[q] \in Nat \ {0}
  BY LengthAssumption DEF Data
<1>6. StoresSound
  BY <1>4, <1>5, ResetSound DEF StoresSound
<1>7. Items = [q \in Data |-> << >>]
  BY <1>4, <1>5, ResetSound DEF Items
<1>8. Fifo!Init
  BY <1>7, ItemAssumption DEF Init, Fifo!Init
<1>9. QED
  BY <1>1, <1>3, <1>6, <1>8 DEF IInv, Init

LEMMA NextIInv ==
  ASSUME IInv, [Next]_vars
  PROVE  IInv' /\ [Fifo!Next]_<<Items, out>>
<1>1. CallsSound' /\ QueuesShaped' /\ FifoStep
  <2>1. CASE UNCHANGED vars
    BY <2>1, UnchangedStep DEF vars, IInv, CallsSound
  <2>2. CASE Tick \/ PendSV
    BY <2>2, UnchangedStep DEF Tick, PendSV, IInv, CallsSound
  <2>3. QED
    BY <2>1, <2>2, SendFromISRStep, ReceiveFromISRStep, TaskStepStep DEF Next
<1>2. program' = program
  BY DEF Next, vars
<1>3. QED
  BY <1>1, <1>2 DEF IInv, FifoStep

\* For any tasks, queues, programs and interrupts, the kernel's queues implement
\* bounded queues: what they hold is put and taken one item at a time, in order.
THEOREM QueuesAreFifo == Spec => IsFifo
<1>1. Init => IInv /\ Fifo!Init
  BY InitIInv
<1>2. IInv /\ [Next]_vars => IInv' /\ [Fifo!Next]_<<Items, out>>
  BY NextIInv
<1>3. QED
  BY <1>1, <1>2, PTL DEF Spec, IsFifo, Fifo!Spec

-----------------------------------------------------------------------------
(***************************************************************************)
(* The lists of the scheduler.                                             *)
(***************************************************************************)
Once(list) == \A i, j \in 1 .. Len(list) : list[i] = list[j] => i = j
Sorted(list, wake) == \A i, j \in 1 .. Len(list) : i < j => wake[list[i]] <= wake[list[j]]

Less == OpToRel(<, Nat)

LEMMA LessDef == ASSUME NEW m \in Nat, NEW n \in Nat PROVE <<m, n>> \in Less <=> m < n
BY DEF Less, OpToRel

LEMMA Joined ==
  ASSUME NEW T, NEW a \in Seq(T), NEW b \in Seq(T), NEW r, r = a \o b
  PROVE  /\ r \in Seq(T) /\ Len(r) = Len(a) + Len(b)
         /\ \A i \in 1 .. Len(a) : r[i] = a[i]
         /\ \A i \in 1 .. Len(b) : r[Len(a) + i] = b[i]
OBVIOUS

\* An entry that is put into a list comes between those before and those after it.
LEMMA InsertAtIs ==
  ASSUME NEW T, NEW list \in Seq(T), NEW t \in T, NEW k \in 1 .. Len(list), NEW r, r = InsertAt(list, k, t)
  PROVE  /\ r \in Seq(T) /\ Len(r) = Len(list) + 1 /\ r[k] = t
         /\ \A i \in 1 .. k - 1 : r[i] = list[i]
         /\ \A i \in k + 1 .. Len(r) : r[i] = list[i - 1]
<1>1. /\ Len(list) \in Nat /\ k \in Nat
      /\ SubSeq(list, 1, k - 1) \in Seq(T) /\ SubSeq(list, k, Len(list)) \in Seq(T)
      /\ Len(SubSeq(list, 1, k - 1)) = k - 1 /\ Len(SubSeq(list, k, Len(list))) = Len(list) - k + 1
  OBVIOUS
<1>2. r = (SubSeq(list, 1, k - 1) \o << t >>) \o SubSeq(list, k, Len(list))
  BY DEF InsertAt
<1>0. PICK a, b : a = SubSeq(list, 1, k - 1) /\ b = SubSeq(list, k, Len(list))
  OBVIOUS
<1>3. PICK c : c = a \o << t >>
  OBVIOUS
<1>6. /\ \A i \in 1 .. k - 1 : a[i] = list[i]
      /\ \A i \in 1 .. Len(list) - k + 1 : b[i] = list[k + i - 1]
  BY <1>0, <1>1
<1>7. a \in Seq(T) /\ b \in Seq(T) /\ Len(a) = k - 1 /\ Len(b) = Len(list) - k + 1 /\ r = c \o b
  BY <1>0, <1>1, <1>2, <1>3
<1>8. c \in Seq(T) /\ Len(c) = k /\ c[k] = t /\ \A i \in 1 .. k - 1 : c[i] = a[i]
  BY <1>1, <1>3, <1>7
<1>10. /\ r \in Seq(T) /\ Len(r) = Len(c) + Len(b)
       /\ \A i \in 1 .. Len(c) : r[i] = c[i]
       /\ \A i \in 1 .. Len(b) : r[Len(c) + i] = b[i]
  <2>1. c \in Seq(T) /\ b \in Seq(T) /\ r = c \o b
    BY <1>7, <1>8
  <2> QED
    BY <2>1, Joined
<1>9. /\ r \in Seq(T) /\ Len(r) = k + Len(b)
      /\ \A i \in 1 .. k : r[i] = c[i]
      /\ \A i \in 1 .. Len(b) : r[k + i] = b[i]
  BY <1>8, <1>10
<1>4. r \in Seq(T) /\ Len(r) = Len(list) + 1 /\ r[k] = t /\ \A i \in 1 .. k - 1 : r[i] = list[i]
  BY <1>1, <1>6, <1>7, <1>8, <1>9
<1>5. ASSUME NEW i \in k + 1 .. Len(r) PROVE r[i] = list[i - 1]
  <2>1. i - k \in 1 .. Len(b) /\ i = k + (i - k) /\ k + (i - k) - 1 = i - 1
        /\ i - k \in 1 .. Len(list) - k + 1
    BY <1>1, <1>4, <1>7
  <2>2. b[i - k] = list[k + (i - k) - 1] /\ r[k + (i - k)] = b[i - k]
    BY <1>6, <1>9, <2>1
  <2> QED
    BY <2>1, <2>2
<1> QED
  BY <1>4, <1>5

\* What is in a list after an entry was put in.
Holds(r, list, t) == \A u : Contains(r, u) <=> u = t \/ Contains(list, u)

LEMMA InsertAtHas ==
  ASSUME NEW T, NEW list \in Seq(T), NEW t \in T, NEW k \in 1 .. Len(list), NEW r, r = InsertAt(list, k, t)
  PROVE  Holds(r, list, t) /\ (Once(list) /\ ~ Contains(list, t) => Once(r))
<1>1. /\ r \in Seq(T) /\ Len(r) = Len(list) + 1 /\ r[k] = t
      /\ \A i \in 1 .. k - 1 : r[i] = list[i]
      /\ \A i \in k + 1 .. Len(r) : r[i] = list[i - 1]
  BY InsertAtIs
<1>2. Len(list) \in Nat /\ k \in Nat
  OBVIOUS
<1>3. ASSUME NEW u, Contains(r, u) PROVE u = t \/ Contains(list, u)
  <2>1. PICK i \in 1 .. Len(r) : r[i] = u
    BY <1>3 DEF Contains
  <2>2. i < k => i \in 1 .. k - 1 /\ i \in 1 .. Len(list)
    BY <1>1, <1>2, <2>1
  <2>3. i > k => i \in k + 1 .. Len(r) /\ i - 1 \in 1 .. Len(list)
    BY <1>1, <1>2, <2>1
  <2>4. CASE i < k
    BY <1>1, <2>1, <2>2, <2>4 DEF Contains
  <2>5. CASE i > k
    BY <1>1, <2>1, <2>3, <2>5 DEF Contains
  <2> QED
    BY <1>1, <1>2, <2>1, <2>4, <2>5
<1>4. ASSUME NEW u, Contains(list, u) PROVE Contains(r, u)
  <2>1. PICK i \in 1 .. Len(list) : list[i] = u
    BY <1>4 DEF Contains
  <2>2. i < k => i \in 1 .. k - 1 /\ i \in 1 .. Len(r)
    BY <1>1, <1>2, <2>1
  <2>3. i >= k => i + 1 \in k + 1 .. Len(r) /\ i + 1 \in 1 .. Len(r) /\ (i + 1) - 1 = i
    BY <1>1, <1>2, <2>1
  <2>4. CASE i < k
    BY <1>1, <2>1, <2>2, <2>4 DEF Contains
  <2>5. CASE i >= k
    <3>1. r[i + 1] = u
      BY <1>1, <2>1, <2>3, <2>5
    <3> QED
      BY <2>3, <2>5, <3>1 DEF Contains
  <2> QED
    BY <1>2, <2>1, <2>4, <2>5
<1>5. Contains(r, t)
  <2>1. k \in 1 .. Len(r)
    BY <1>1, <1>2
  <2> QED
    BY <1>1, <2>1 DEF Contains
<1>6. ASSUME Once(list), ~ Contains(list, t) PROVE Once(r)
  <2>1. ASSUME NEW i \in 1 .. Len(r), i # k PROVE r[i] # t
    <3>1. \A m \in 1 .. Len(list) : list[m] # t
      BY <1>6 DEF Contains
    <3>2. i < k => i \in 1 .. k - 1 /\ i \in 1 .. Len(list)
      BY <1>1, <1>2, <2>1
    <3>3. i > k => i \in k + 1 .. Len(r) /\ i - 1 \in 1 .. Len(list)
      BY <1>1, <1>2, <2>1
    <3> QED
      BY <1>1, <1>2, <2>1, <3>1, <3>2, <3>3
  <2>2. ASSUME NEW i \in 1 .. Len(r), NEW j \in 1 .. Len(r), r[i] = r[j], i # k, j # k PROVE i = j
    <3> DEFINE Old(m) == IF m < k THEN m ELSE m - 1
    <3>1. \A m \in 1 .. Len(r) : m # k => Old(m) \in 1 .. Len(list) /\ r[m] = list[Old(m)]
      BY <1>1, <1>2
    <3>2. list[Old(i)] = list[Old(j)]
      BY <2>2, <3>1
    <3>3. Old(i) = Old(j)
      BY <1>6, <2>2, <3>1, <3>2 DEF Once
    <3> QED
      BY <1>2, <2>2, <3>3
  <2> QED
    BY <1>1, <2>1, <2>2 DEF Once
<1> QED
  BY <1>3, <1>4, <1>5, <1>6 DEF Holds

LEMMA AppendIs ==
  ASSUME NEW T, NEW list \in Seq(T), NEW t \in T, NEW r, r = Append(list, t)
  PROVE  /\ r \in Seq(T) /\ Len(r) = Len(list) + 1 /\ r[Len(r)] = t
         /\ \A i \in 1 .. Len(list) : r[i] = list[i]
         /\ Holds(r, list, t) /\ (Once(list) /\ ~ Contains(list, t) => Once(r))
<1>1. /\ r \in Seq(T) /\ Len(r) = Len(list) + 1 /\ r[Len(r)] = t /\ Len(list) \in Nat
      /\ \A i \in 1 .. Len(list) : r[i] = list[i]
  OBVIOUS
<1>2. \A i \in 1 .. Len(r) : i \in 1 .. Len(list) \/ i = Len(r)
  BY <1>1
<1>3. Len(r) \in 1 .. Len(r) /\ 1 .. Len(list) \subseteq 1 .. Len(r)
  BY <1>1
<1>4. Holds(r, list, t)
  BY <1>1, <1>2, <1>3 DEF Holds, Contains
<1>5. ASSUME Once(list), ~ Contains(list, t) PROVE Once(r)
  BY <1>1, <1>2, <1>5 DEF Once, Contains
<1> QED
  BY <1>1, <1>4, <1>5

\* A list without one of its entries.
Lacks(r, list, t) == \A u : Contains(r, u) <=> u # t /\ Contains(list, u)

LEMMA WithoutIs ==
  ASSUME NEW T, NEW list \in Seq(T), NEW t, Contains(list, t), NEW r, r = Without(list, t)
  PROVE  /\ Position(list, t) \in 1 .. Len(list) /\ list[Position(list, t)] = t
         /\ r \in Seq(T) /\ Len(r) = Len(list) - 1
         /\ \A i \in 1 .. Position(list, t) - 1 : r[i] = list[i]
         /\ \A i \in Position(list, t) .. Len(r) : r[i] = list[i + 1]
<1> DEFINE k == Position(list, t)
<1>1. k \in 1 .. Len(list) /\ list[k] = t
  BY DEF Contains, Position
<1>2. r = SubSeq(list, 1, k - 1) \o SubSeq(list, k + 1, Len(list))
  BY DEF Without, RemoveAt
<1> HIDE DEF k
<1>0. PICK a, b : a = SubSeq(list, 1, k - 1) /\ b = SubSeq(list, k + 1, Len(list))
  OBVIOUS
<1>3. /\ Len(list) \in Nat /\ k \in Nat /\ a \in Seq(T) /\ b \in Seq(T)
      /\ Len(a) = k - 1 /\ Len(b) = Len(list) - k
      /\ \A i \in 1 .. k - 1 : a[i] = list[i]
      /\ \A i \in 1 .. Len(list) - k : b[i] = list[k + 1 + i - 1]
  BY <1>0, <1>1
<1>4. r = a \o b
  BY <1>0, <1>2
<1>5. /\ r \in Seq(T) /\ Len(r) = Len(a) + Len(b)
      /\ \A i \in 1 .. Len(a) : r[i] = a[i]
      /\ \A i \in 1 .. Len(b) : r[Len(a) + i] = b[i]
  <2>1. a \in Seq(T) /\ b \in Seq(T)
    BY <1>3
  <2> QED
    BY <1>4, <2>1, Joined
<1>6. r \in Seq(T) /\ Len(r) = Len(list) - 1 /\ \A i \in 1 .. k - 1 : r[i] = list[i]
  <2>1. Len(r) = Len(list) - 1
    <3>1. Len(r) = (k - 1) + (Len(list) - k)
      BY <1>3, <1>5
    <3> QED
      BY <1>3, <3>1
  <2>2. \A i \in 1 .. k - 1 : r[i] = list[i]
    BY <1>3, <1>5
  <2> QED
    BY <1>5, <2>1, <2>2
<1>7. ASSUME NEW i \in k .. Len(r) PROVE r[i] = list[i + 1]
  <2>1. i - (k - 1) \in 1 .. Len(b) /\ i = Len(a) + (i - (k - 1))
        /\ k + 1 + (i - (k - 1)) - 1 = i + 1 /\ i - (k - 1) \in 1 .. Len(list) - k
    BY <1>1, <1>3, <1>6
  <2>2. /\ r[Len(a) + (i - (k - 1))] = b[i - (k - 1)]
        /\ b[i - (k - 1)] = list[k + 1 + (i - (k - 1)) - 1]
    BY <1>3, <1>5, <2>1
  <2> QED
    BY <2>1, <2>2
<1> QED
  BY <1>1, <1>6, <1>7 DEF k

LEMMA WithoutHas ==
  ASSUME NEW T, NEW list \in Seq(T), NEW t, Once(list), NEW r, r = Without(list, t)
  PROVE  r \in Seq(T) /\ Lacks(r, list, t) /\ Once(r) /\ (~ Contains(list, t) => r = list)
<1>1. CASE ~ Contains(list, t)
  BY <1>1 DEF Without, Lacks
<1>2. CASE Contains(list, t)
  <2> DEFINE k == Position(list, t)
             Old(i) == IF i < k THEN i ELSE i + 1
  <2>1. /\ k \in 1 .. Len(list) /\ list[k] = t /\ r \in Seq(T) /\ Len(r) = Len(list) - 1
        /\ \A i \in 1 .. k - 1 : r[i] = list[i]
        /\ \A i \in k .. Len(r) : r[i] = list[i + 1]
    BY <1>2, WithoutIs
  <2> HIDE DEF k
  <2>2. Len(list) \in Nat /\ k \in Nat
    BY <2>1
  <2>3. \A i \in 1 .. Len(r) : Old(i) \in 1 .. Len(list) /\ Old(i) # k /\ r[i] = list[Old(i)]
    BY <2>1, <2>2
  <2>4. \A i, j \in 1 .. Len(r) : Old(i) = Old(j) => i = j
    BY <2>1, <2>2
  <2>5. ASSUME NEW m \in 1 .. Len(list), m # k
        PROVE  \E i \in 1 .. Len(r) : r[i] = list[m]
    <3>1. CASE m < k
      BY <2>1, <2>2, <3>1
    <3>2. CASE m > k
      <4>1. m - 1 \in k .. Len(r) /\ m - 1 \in 1 .. Len(r) /\ (m - 1) + 1 = m
        BY <2>1, <2>2, <3>2
      <4> QED
        BY <2>1, <4>1
    <3> QED
      BY <2>2, <2>5, <3>1, <3>2
  <2> HIDE DEF Old
  <2>6. Once(r)
    BY <2>3, <2>4 DEF Once
  <2>7. \A m \in 1 .. Len(list) : list[m] = t => m = k
    BY <2>1 DEF Once
  <2>8. Lacks(r, list, t)
    <3>1. ASSUME NEW u, Contains(r, u) PROVE u # t /\ Contains(list, u)
      BY <2>3, <2>7, <3>1 DEF Contains
    <3>2. ASSUME NEW u, u # t, Contains(list, u) PROVE Contains(r, u)
      <4>1. PICK m \in 1 .. Len(list) : list[m] = u
        BY <3>2 DEF Contains
      <4>2. m # k
        BY <2>1, <3>2, <4>1
      <4> QED
        BY <2>5, <4>1, <4>2 DEF Contains
    <3> QED
      BY <3>1, <3>2 DEF Lacks
  <2> QED
    BY <1>2, <2>1, <2>6, <2>8
<1> QED
  BY <1>1, <1>2

\* Taking an entry out keeps the order, and the head does not come earlier.
LEMMA WithoutSorted ==
  ASSUME NEW T, NEW list \in Seq(T), NEW t, NEW r, r = Without(list, t), NEW wake, Sorted(list, wake),
         \A u \in T : wake[u] \in Nat
  PROVE  /\ Sorted(r, wake)
         /\ r # << >> => list # << >> /\ wake[list[1]] <= wake[r[1]]
<1>1. CASE ~ Contains(list, t)
  <2>1. r = list
    BY <1>1 DEF Without
  <2>2. list # << >> => list[1] \in T
    OBVIOUS
  <2> QED
    BY <2>1, <2>2
<1>2. CASE Contains(list, t)
  <2> DEFINE k == Position(list, t)
             Old(i) == IF i < k THEN i ELSE i + 1
  <2>1. /\ k \in 1 .. Len(list) /\ list[k] = t /\ r \in Seq(T) /\ Len(r) = Len(list) - 1
        /\ \A i \in 1 .. k - 1 : r[i] = list[i]
        /\ \A i \in k .. Len(r) : r[i] = list[i + 1]
    BY <1>2, WithoutIs
  <2> HIDE DEF k
  <2>2. Len(list) \in Nat /\ k \in Nat
    BY <2>1
  <2>3. \A i \in 1 .. Len(r) : Old(i) \in 1 .. Len(list) /\ r[i] = list[Old(i)]
    BY <2>1, <2>2
  <2>4. \A i, j \in 1 .. Len(r) : i < j => Old(i) < Old(j)
    BY <2>1, <2>2
  <2>5. ASSUME r # << >> PROVE list # << >> /\ wake[list[1]] <= wake[r[1]]
    <3>1. 1 \in 1 .. Len(r) /\ 1 \in 1 .. Len(list)
      BY <2>1, <2>2, <2>5
    <3>2. Old(1) \in 1 .. Len(list) /\ r[1] = list[Old(1)]
      BY <2>3, <3>1
    <3>3. 1 < Old(1) \/ Old(1) = 1
      BY <2>2
    <3> HIDE DEF Old
    <3>4. wake[list[1]] <= wake[list[Old(1)]]
      <4>1. list[1] \in T
        BY <3>1
      <4> QED
        BY <3>1, <3>2, <3>3, <4>1 DEF Sorted
    <3> QED
      BY <2>1, <2>2, <3>1, <3>2, <3>4
  <2> HIDE DEF Old
  <2>6. Sorted(r, wake)
    BY <2>3, <2>4 DEF Sorted
  <2> QED
    BY <2>5, <2>6
<1> QED
  BY <1>1, <1>2

\* A non-empty set of numbers has a first.
LEMMA FirstOfIs ==
  ASSUME NEW Z \in SUBSET Nat, Z # {}
  PROVE  FirstOf(Z) \in Z /\ \A j \in Z : FirstOf(Z) <= j
<1>1. PICK x \in Z : \A y \in Z : ~ (<<y, x>> \in Less)
  <2>1. IsWellFoundedOn(Less, Nat)
    BY NatLessThanWellFounded DEF Less
  <2> QED
    BY <2>1, WFMin
<1>2. ASSUME NEW y \in Z PROVE x <= y
  <2>1. x \in Nat /\ y \in Nat /\ ~ (<<y, x>> \in Less)
    BY <1>1
  <2>2. ~ (y < x)
    BY <2>1, LessDef, Zenon
  <2> QED
    BY <2>1, <2>2
<1> QED
  BY <1>1, <1>2 DEF FirstOf

\* An entry that is inserted by its wake time.
LEMMA InsertSortedHas ==
  ASSUME NEW T, NEW list \in Seq(T), NEW t \in T, NEW after, NEW r, r = InsertSorted(list, t, after)
  PROVE  /\ r \in Seq(T) /\ r # << >> /\ Holds(r, list, t)
         /\ Once(list) /\ ~ Contains(list, t) => Once(r)
<1> DEFINE later == {i \in DOMAIN list : list[i] \in after}
<1>1. CASE later = {}
  <2>1. r = Append(list, t)
    BY <1>1 DEF InsertSorted
  <2>2. r # << >>
    BY <2>1
  <2> QED
    BY <2>1, <2>2, AppendIs
<1>2. CASE later # {}
  <2>1. r = InsertAt(list, FirstOf(later), t)
    BY <1>2 DEF InsertSorted
  <2>2. FirstOf(later) \in 1 .. Len(list)
    <3>1. later \in SUBSET Nat
      OBVIOUS
    <3> HIDE DEF later
    <3>2. FirstOf(later) \in later
      BY <1>2, <3>1, FirstOfIs
    <3> QED
      BY <3>2 DEF later
  <2> HIDE DEF later
  <2>3. PICK k : k = FirstOf(later)
    OBVIOUS
  <2> QED
    BY <2>1, <2>2, <2>3, InsertAtHas, InsertAtIs
<1> QED
  BY <1>1, <1>2

LEMMA InsertSortedSorted ==
  ASSUME NEW T, NEW list \in Seq(T), NEW t \in T, NEW wake, \A u \in T : wake[u] \in Nat, Sorted(list, wake),
         NEW r, r = InsertSorted(list, t, {u \in T : wake[u] > wake[t]})
  PROVE  /\ Sorted(r, wake)
         /\ r[1] = t \/ (list # << >> /\ r[1] = list[1])
<1> DEFINE later == {i \in DOMAIN list : list[i] \in {u \in T : wake[u] > wake[t]}}
<1>0. /\ Len(list) \in Nat /\ wake[t] \in Nat /\ DOMAIN list = 1 .. Len(list)
      /\ \A i \in 1 .. Len(list) : list[i] \in T /\ wake[list[i]] \in Nat
  OBVIOUS
<1>1. CASE later = {}
  <2>1. r = Append(list, t)
    BY <1>1 DEF InsertSorted
  <2>2. \A i \in 1 .. Len(list) : wake[list[i]] <= wake[t]
    BY <1>0, <1>1
  <2>3. /\ r \in Seq(T) /\ Len(r) = Len(list) + 1 /\ r[Len(r)] = t
        /\ \A i \in 1 .. Len(list) : r[i] = list[i]
    BY <2>1, AppendIs
  <2>4. \A i \in 1 .. Len(r) : i \in 1 .. Len(list) \/ i = Len(r)
    BY <1>0, <2>3
  <2>5. Sorted(r, wake)
    BY <1>0, <2>2, <2>3, <2>4 DEF Sorted
  <2>6. list = << >> => r[1] = t
    BY <2>1
  <2>7. list # << >> => r[1] = list[1]
    BY <1>0, <2>3
  <2> QED
    BY <2>5, <2>6, <2>7
<1>2. CASE later # {}
  <2>0. PICK k : k = FirstOf(later)
    OBVIOUS
  <2>1. r = InsertAt(list, k, t)
    BY <1>2, <2>0 DEF InsertSorted
  <2>2. k \in later /\ \A j \in later : k <= j
    <3>1. later \in SUBSET Nat
      OBVIOUS
    <3> HIDE DEF later
    <3> QED
      BY <1>2, <2>0, <3>1, FirstOfIs
  <2>3. k \in 1 .. Len(list) /\ wake[list[k]] > wake[t] /\ k \in Nat
    BY <1>0, <2>2
  <2>4. \A i \in 1 .. k - 1 : i \in 1 .. Len(list) /\ wake[list[i]] <= wake[t]
    BY <1>0, <2>2, <2>3
  <2>5. \A i \in k .. Len(list) : wake[list[i]] >= wake[t]
    <3> SUFFICES ASSUME NEW i \in k .. Len(list) PROVE wake[list[i]] >= wake[t]
      OBVIOUS
    <3>1. i \in 1 .. Len(list) /\ (k = i \/ k < i)
      BY <2>3
    <3>2. wake[list[k]] <= wake[list[i]]
      BY <1>0, <2>3, <3>1 DEF Sorted
    <3> QED
      BY <1>0, <2>3, <3>1, <3>2
  <2>6. /\ r \in Seq(T) /\ Len(r) = Len(list) + 1 /\ r[k] = t
        /\ \A i \in 1 .. k - 1 : r[i] = list[i]
        /\ \A i \in k + 1 .. Len(r) : r[i] = list[i - 1]
    <3>1. k \in 1 .. Len(list)
      BY <2>3
    <3> QED
      BY ONLY list \in Seq(T), t \in T, <2>1, <3>1, InsertAtIs
  <2>7. Sorted(r, wake)
    <3> SUFFICES ASSUME NEW i \in 1 .. Len(r), NEW j \in 1 .. Len(r), i < j
                 PROVE  wake[r[i]] <= wake[r[j]]
      BY DEF Sorted
    <3>1. CASE j < k
      <4>1. i \in 1 .. k - 1 /\ j \in 1 .. k - 1
        BY <2>3, <2>6, <3>1
      <4> QED
        BY <2>4, <2>6, <4>1 DEF Sorted
    <3>2. CASE j = k
      <4>1. i \in 1 .. k - 1
        BY <2>3, <2>6, <3>2
      <4> QED
        BY <2>4, <2>6, <4>1, <3>2
    <3>3. CASE j > k /\ i < k
      <4>1. i \in 1 .. k - 1 /\ j \in k + 1 .. Len(r) /\ i \in 1 .. Len(list) /\ j - 1 \in 1 .. Len(list)
            /\ i < j - 1
        BY <1>0, <2>3, <2>6, <3>3
      <4> QED
        BY <2>6, <4>1 DEF Sorted
    <3>4. CASE i = k
      <4>1. j \in k + 1 .. Len(r) /\ j - 1 \in k .. Len(list)
        BY <1>0, <2>3, <2>6, <3>4
      <4>2. wake[list[j - 1]] >= wake[t]
        BY <2>5, <4>1
      <4>3. wake[list[j - 1]] \in Nat
        BY <1>0, <2>3, <4>1
      <4> QED
        BY <1>0, <2>6, <3>4, <4>1, <4>2, <4>3
    <3>5. CASE i > k
      <4>1. /\ i \in k + 1 .. Len(r) /\ j \in k + 1 .. Len(r) /\ i - 1 \in 1 .. Len(list)
            /\ j - 1 \in 1 .. Len(list) /\ i - 1 < j - 1
        BY <1>0, <2>3, <2>6, <3>5
      <4> QED
        BY <2>6, <4>1 DEF Sorted
    <3> QED
      BY <2>3, <3>1, <3>2, <3>3, <3>4, <3>5
  <2>8. r[1] = t \/ (list # << >> /\ r[1] = list[1])
    <3>1. CASE k = 1
      BY <2>6, <3>1
    <3>2. CASE k # 1
      <4>1. 1 \in 1 .. k - 1 /\ list # << >>
        BY <2>3, <3>2
      <4> QED
        BY <2>6, <4>1
    <3> QED
      BY <3>1, <3>2
  <2> QED
    BY <2>7, <2>8
<1> QED
  BY <1>1, <1>2

-----------------------------------------------------------------------------
(***************************************************************************)
(* The ready lists.                                                        *)
(***************************************************************************)
Rings == {r \in Ring : r.index <= Len(r.entries)}

LEMMA RingInsertEndHas ==
  ASSUME NEW r \in Rings, NEW t \in Tasks, NEW x, x = RingInsertEnd(r, t)
  PROVE  /\ x \in Rings /\ x.entries # << >> /\ Holds(x.entries, r.entries, t)
         /\ Once(r.entries) /\ ~ Contains(r.entries, t) => Once(x.entries)
<1>1. r.entries \in Seq(Tasks) /\ r.index \in Nat /\ r.index <= Len(r.entries) /\ r \in Ring
  BY DEF Rings, Ring
<1>2. CASE r.index = 0
  <2>1. x = [entries |-> Append(r.entries, t), index |-> 0]
    BY <1>1, <1>2 DEF RingInsertEnd, Ring
  <2>2. x.entries = Append(r.entries, t) /\ x.index = 0
    BY <2>1
  <2>3. /\ x.entries \in Seq(Tasks)
        /\ Holds(x.entries, r.entries, t)
        /\ Once(r.entries) /\ ~ Contains(r.entries, t) => Once(x.entries)
    <3>1. PICK l, y : l = r.entries /\ y = x.entries
      OBVIOUS
    <3>2. l \in Seq(Tasks) /\ y = Append(l, t)
      BY <1>1, <2>2, <3>1
    <3>3. y \in Seq(Tasks) /\ Holds(y, l, t) /\ (Once(l) /\ ~ Contains(l, t) => Once(y))
      BY <3>2, AppendIs
    <3> QED
      BY <3>1, <3>3
  <2> QED
    BY <1>1, <2>1, <2>2, <2>3 DEF Rings, Ring
<1>3. CASE r.index # 0
  <2>1. x = [entries |-> InsertAt(r.entries, r.index, t), index |-> r.index + 1]
    BY <1>3 DEF RingInsertEnd
  <2>2. r.index \in 1 .. Len(r.entries)
    BY <1>1, <1>3
  <2>3. x.entries = InsertAt(r.entries, r.index, t) /\ x.index = r.index + 1
    BY <2>1
  <2>4. PICK l, k : l = r.entries /\ k = r.index
    OBVIOUS
  <2>5. PICK y : y = x.entries
    OBVIOUS
  <2>6. y \in Seq(Tasks) /\ Len(y) = Len(l) + 1
    BY <1>1, <2>2, <2>3, <2>4, <2>5, InsertAtIs
  <2>7. Holds(y, l, t) /\ (Once(l) /\ ~ Contains(l, t) => Once(y))
    BY <1>1, <2>2, <2>3, <2>4, <2>5, InsertAtHas
  <2>8. x \in Ring /\ x.index <= Len(x.entries) /\ x.entries # << >>
    BY <1>1, <2>1, <2>3, <2>4, <2>5, <2>6 DEF Ring
  <2> QED
    BY <2>4, <2>5, <2>7, <2>8 DEF Rings
<1> QED
  BY <1>2, <1>3

LEMMA RingRemoveHas ==
  ASSUME NEW r \in Rings, NEW t, Once(r.entries), NEW x, x = RingRemove(r, t)
  PROVE  /\ x \in Rings /\ Lacks(x.entries, r.entries, t) /\ Once(x.entries)
         /\ ~ Contains(r.entries, t) => x = r
<1>1. r.entries \in Seq(Tasks) /\ r.index \in Nat /\ r.index <= Len(r.entries) /\ r \in Ring
  BY DEF Rings, Ring
<1>2. CASE ~ Contains(r.entries, t)
  BY <1>1, <1>2 DEF RingRemove, Lacks
<1>3. CASE Contains(r.entries, t)
  <2>1. PICK l, k : l = r.entries /\ k = Position(l, t)
    OBVIOUS
  <2>9. x = [entries |-> Without(l, t), index |-> IF k <= r.index THEN r.index - 1 ELSE r.index]
    BY <1>3, <2>1 DEF RingRemove
  <2>2. x.entries = Without(l, t) /\ x.index = IF k <= r.index THEN r.index - 1 ELSE r.index
    BY <2>9
  <2>3. PICK y : y = x.entries
    OBVIOUS
  <2>4. k \in 1 .. Len(l) /\ y \in Seq(Tasks) /\ Len(y) = Len(l) - 1
    BY <1>1, <1>3, <2>1, <2>2, <2>3, WithoutIs
  <2>5. Lacks(y, l, t) /\ Once(y)
    BY <1>1, <2>1, <2>2, <2>3, WithoutHas
  <2>6. x.index \in Nat /\ x.index <= Len(y)
    <3>1. Len(l) \in Nat /\ r.index <= Len(l) /\ r.index \in Nat /\ k \in Nat /\ 1 <= k /\ k <= Len(l)
      BY <1>1, <2>1, <2>4
    <3>2. PICK n, i, m : n = Len(l) /\ i = r.index /\ m = Len(y)
      OBVIOUS
    <3>3. n \in Nat /\ i \in Nat /\ m = n - 1 /\ i <= n /\ k <= n
      BY <2>4, <3>1, <3>2
    <3>4. x.index = IF k <= i THEN i - 1 ELSE i
      BY <2>2, <3>2
    <3>5. x.index \in Nat /\ x.index <= m
      BY ONLY <3>1, <3>3, <3>4
    <3> QED
      BY <3>2, <3>5
  <2>7. x \in Ring
    <3>1. x = [entries |-> y, index |-> x.index]
      BY <2>2, <2>3, <2>9
    <3> QED
      BY ONLY <3>1, <2>4, <2>6 DEF Ring
  <2> QED
    BY <1>3, <2>1, <2>3, <2>5, <2>6, <2>7 DEF Rings
<1> QED
  BY <1>2, <1>3

LEMMA RingNextHas ==
  ASSUME NEW r \in Rings, r.entries # << >>, NEW x, x = RingNext(r)
  PROVE  /\ x \in Rings /\ x.entries = r.entries /\ x.entries[x.index] \in Tasks
         /\ x.index \in 1 .. Len(x.entries)
<1>1. r.entries \in Seq(Tasks) /\ r.index \in Nat /\ r.index <= Len(r.entries) /\ r \in Ring
  BY DEF Rings, Ring
<1>2. x.entries = r.entries /\ x.index = (IF r.index = Len(r.entries) THEN 1 ELSE r.index + 1) /\ x \in Ring
  BY <1>1 DEF RingNext, Ring
<1>3. x.index \in 1 .. Len(x.entries)
  BY <1>1, <1>2
<1> QED
  BY <1>1, <1>2, <1>3 DEF Rings

-----------------------------------------------------------------------------
(***************************************************************************)
(* The scheduler's record.                                                 *)
(***************************************************************************)
Prios  == [Tasks -> Priorities]
Counts == [Tasks -> Int]
Wakes  == [Tasks -> Nat]
Ready  == [Priorities -> Rings]
Events == [Queues \X {"receive", "send"} -> Seq(Tasks)]
Schedulers ==
    [current : Tasks, prio : Prios, held : Counts, wake : Wakes, ready : Ready,
     top : SUBSET Priorities, delayed : Seq(Tasks), overflow : Seq(Tasks),
     suspended : SUBSET Tasks, pending : Seq(Tasks), event : Events,
     tick : Nat, overflows : Nat, pended : Nat, unblock : Nat, locked : Int, missed : BOOLEAN]

InReady(s, t) == \E p \in Priorities : Contains(s.ready[p].entries, t)

\* t is in one of the lists, or in none.
Placed(s, t) ==
    /\ InReady(s, t) \/ Contains(s.delayed, t) \/ Contains(s.overflow, t) \/ t \in s.suspended
    /\ InReady(s, t) => ~ Contains(s.delayed, t) /\ ~ Contains(s.overflow, t) /\ t \notin s.suspended
    /\ Contains(s.delayed, t) => ~ Contains(s.overflow, t) /\ t \notin s.suspended
    /\ Contains(s.overflow, t) => t \notin s.suspended
Absent(s, t) ==
    ~ InReady(s, t) /\ ~ Contains(s.delayed, t) /\ ~ Contains(s.overflow, t) /\ t \notin s.suspended

\* Ready lists hold their priority, the others are in the order of the wake times.
AtPriority(s) ==
    \A p \in Priorities : /\ Once(s.ready[p].entries)
                          /\ \A t \in Tasks : Contains(s.ready[p].entries, t) => s.prio[t] = p
InOrder(s) ==
    /\ Once(s.delayed) /\ Once(s.overflow)
    /\ Sorted(s.delayed, s.wake) /\ Sorted(s.overflow, s.wake)
    /\ s.delayed # << >> => s.unblock <= s.wake[s.delayed[1]]

\* The bit map, right but for the bits of P, which may be set without need.
Bits(s, P) ==
    \A p \in Priorities : /\ s.ready[p].entries # << >> => p \in s.top
                          /\ p \in s.top => s.ready[p].entries # << >> \/ p \in P

\* Every task is in one list, the tasks G excepted, which are in none.
Lists(s, G) ==
    /\ s \in Schedulers /\ AtPriority(s) /\ InOrder(s)
    /\ \A t \in Tasks : IF t \in G THEN Absent(s, t) ELSE Placed(s, t)
    /\ Idle \notin G => InReady(s, Idle)

Sound(s)    == Lists(s, {}) /\ Bits(s, {})
Taken(s, t) == Lists(s, {t}) /\ Bits(s, {})
Loose(s, t) == Lists(s, {t}) /\ Bits(s, {s.prio[t]})

LEMMA RemoveGenericIs ==
  ASSUME NEW s \in Schedulers, AtPriority(s), InOrder(s), NEW t \in Tasks, NEW r, r = RemoveGeneric(s, t)
  PROVE  /\ r \in Schedulers
         /\ r.ready = [p \in Priorities |-> RingRemove(s.ready[p], t)]
         /\ r.delayed = Without(s.delayed, t) /\ r.overflow = Without(s.overflow, t)
         /\ r.suspended = s.suspended \ {t} /\ r.wake = [s.wake EXCEPT ![t] = 0]
         /\ r.current = s.current /\ r.prio = s.prio /\ r.held = s.held /\ r.top = s.top
         /\ r.pending = s.pending /\ r.event = s.event /\ r.tick = s.tick
         /\ r.unblock = s.unblock /\ r.locked = s.locked
<1>1. Without(s.delayed, t) \in Seq(Tasks) /\ Without(s.overflow, t) \in Seq(Tasks)
  BY WithoutHas DEF InOrder, Schedulers
<1>2. [p \in Priorities |-> RingRemove(s.ready[p], t)] \in [Priorities -> Rings]
  <2>1. ASSUME NEW p \in Priorities PROVE RingRemove(s.ready[p], t) \in Rings
    <3>1. s.ready[p] \in Rings /\ Once(s.ready[p].entries)
      BY DEF AtPriority, Schedulers, Ready
    <3> QED
      BY <3>1, RingRemoveHas
  <2> QED
    BY <2>1
<1>3. [s.wake EXCEPT ![t] = 0] \in Wakes
  BY DEF Schedulers, Wakes
<1>4. PICK x, d, o, w : /\ x = [p \in Priorities |-> RingRemove(s.ready[p], t)] /\ d = Without(s.delayed, t)
                      /\ o = Without(s.overflow, t) /\ w = [s.wake EXCEPT ![t] = 0]
  OBVIOUS
<1>5. r = [s EXCEPT !.ready = x, !.delayed = d, !.overflow = o, !.suspended = s.suspended \ {t}, !.wake = w]
  BY <1>4 DEF RemoveGeneric, Schedulers
<1>6. x \in Ready /\ d \in Seq(Tasks) /\ o \in Seq(Tasks) /\ w \in Wakes
  BY <1>1, <1>2, <1>3, <1>4 DEF Ready
<1>7. r \in Schedulers
  BY <1>5, <1>6, ZenonT(60) DEF Schedulers
<1> QED
  BY <1>4, <1>5, <1>7 DEF Schedulers

\* The order does not depend on the wake times of tasks that are not in the list.
LEMMA SortedSame ==
  ASSUME NEW list, NEW v, NEW w, Sorted(list, v), \A u : Contains(list, u) => w[u] = v[u]
  PROVE  Sorted(list, w)
<1>1. \A i \in 1 .. Len(list) : w[list[i]] = v[list[i]]
  BY DEF Contains
<1> QED
  BY <1>1 DEF Sorted

LEMMA EmptyHasNone ==
  ASSUME NEW T, NEW list \in Seq(T)
  PROVE  /\ list # << >> <=> \E u : Contains(list, u)
         /\ list # << >> => Contains(list, list[1]) /\ list[1] \in T
<1>1. list # << >> => 1 \in 1 .. Len(list) /\ list[1] \in T
  OBVIOUS
<1>2. list = << >> => Len(list) = 0
  OBVIOUS
<1> QED
  BY <1>1, <1>2 DEF Contains

\* What the functions leave alone.
Same(r, s) ==
    /\ r.current = s.current /\ r.prio = s.prio /\ r.held = s.held /\ r.tick = s.tick
    /\ r.unblock = s.unblock /\ r.locked = s.locked

LEMMA RemoveGenericLoose ==
  ASSUME NEW s, Sound(s), NEW t \in Tasks, NEW r, r = RemoveGeneric(s, t)
  PROVE  Loose(r, t) /\ Same(r, s) /\ r.pending = s.pending /\ r.event = s.event
<1>0. s \in Schedulers /\ AtPriority(s) /\ InOrder(s) /\ \A u \in Tasks : Placed(s, u)
  BY DEF Sound, Lists
<1>1. /\ r \in Schedulers
      /\ r.ready = [p \in Priorities |-> RingRemove(s.ready[p], t)]
      /\ r.delayed = Without(s.delayed, t) /\ r.overflow = Without(s.overflow, t)
      /\ r.suspended = s.suspended \ {t} /\ r.wake = [s.wake EXCEPT ![t] = 0]
      /\ r.current = s.current /\ r.prio = s.prio /\ r.held = s.held /\ r.top = s.top
      /\ r.pending = s.pending /\ r.event = s.event /\ r.tick = s.tick
      /\ r.unblock = s.unblock /\ r.locked = s.locked
  BY <1>0, RemoveGenericIs
<1>2. ASSUME NEW p \in Priorities
      PROVE  /\ s.ready[p] \in Rings /\ r.ready[p] \in Rings
             /\ Lacks(r.ready[p].entries, s.ready[p].entries, t) /\ Once(r.ready[p].entries)
             /\ ~ Contains(s.ready[p].entries, t) => r.ready[p] = s.ready[p]
  <2>1. s.ready[p] \in Rings /\ Once(s.ready[p].entries)
    BY <1>0 DEF AtPriority, Schedulers, Ready
  <2>2. r.ready[p] = RingRemove(s.ready[p], t)
    BY <1>1
  <2> QED
    BY <2>1, <2>2, RingRemoveHas
<1>3. /\ s.delayed \in Seq(Tasks) /\ s.overflow \in Seq(Tasks) /\ s.wake \in Wakes
      /\ s.unblock \in Nat /\ s.suspended \subseteq Tasks
  BY <1>0 DEF Schedulers
<1>4. /\ Lacks(r.delayed, s.delayed, t) /\ Once(r.delayed)
      /\ Lacks(r.overflow, s.overflow, t) /\ Once(r.overflow)
  BY <1>0, <1>1, <1>3, WithoutHas DEF InOrder
<1>5. AtPriority(r)
  BY <1>0, <1>1, <1>2 DEF AtPriority, Lacks
<1>6. InOrder(r)
  <2>1. \A u \in Tasks : s.wake[u] \in Nat
    BY <1>3 DEF Wakes
  <2>2. Sorted(r.delayed, s.wake) /\ Sorted(r.overflow, s.wake)
        /\ (r.delayed # << >> => s.delayed # << >> /\ s.wake[s.delayed[1]] <= s.wake[r.delayed[1]])
    <3>1. Sorted(s.delayed, s.wake) /\ Sorted(s.overflow, s.wake)
      BY <1>0 DEF InOrder
    <3>2. PICK l, v : l = r.delayed /\ v = r.overflow
      OBVIOUS
    <3>3. l = Without(s.delayed, t) /\ v = Without(s.overflow, t)
      BY <1>1, <3>2
    <3>4. Sorted(l, s.wake) /\ (l # << >> => s.delayed # << >> /\ s.wake[s.delayed[1]] <= s.wake[l[1]])
      <4>1. PICK m, w : m = s.delayed /\ w = s.wake
        OBVIOUS
      <4>2. m \in Seq(Tasks) /\ Sorted(m, w) /\ l = Without(m, t) /\ \A u \in Tasks : w[u] \in Nat
        BY <1>3, <2>1, <3>1, <3>3, <4>1
      <4>3. Sorted(l, w) /\ (l # << >> => m # << >> /\ w[m[1]] <= w[l[1]])
        BY ONLY <4>2, WithoutSorted
      <4> QED
        BY <4>1, <4>3
    <3>5. Sorted(v, s.wake)
      BY ONLY <1>3, <2>1, <3>1, <3>3, WithoutSorted
    <3> QED
      BY <3>2, <3>4, <3>5
  <2>3. \A u : u # t => r.wake[u] = s.wake[u]
    BY <1>1, <1>3 DEF Wakes
  <2>4. \A u : Contains(r.delayed, u) \/ Contains(r.overflow, u) => u # t
    BY <1>4 DEF Lacks
  <2>5. Sorted(r.delayed, r.wake) /\ Sorted(r.overflow, r.wake)
    BY <2>2, <2>3, <2>4, SortedSame
  <2>6. ASSUME r.delayed # << >> PROVE r.unblock <= r.wake[r.delayed[1]]
    <3>1. r.delayed \in Seq(Tasks)
      BY <1>1 DEF Schedulers
    <3>2. Contains(r.delayed, r.delayed[1]) /\ r.delayed[1] \in Tasks
      BY <2>6, <3>1, EmptyHasNone
    <3>3. s.delayed # << >> /\ s.wake[s.delayed[1]] <= s.wake[r.delayed[1]] /\ s.delayed[1] \in Tasks
      BY <1>3, <2>2, <2>6, EmptyHasNone
    <3>4. r.wake[r.delayed[1]] = s.wake[r.delayed[1]] /\ s.unblock <= s.wake[s.delayed[1]]
      BY <1>0, <2>3, <2>4, <3>2, <3>3 DEF InOrder
    <3>5. s.wake[s.delayed[1]] \in Nat /\ s.wake[r.delayed[1]] \in Nat
      BY <2>1, <3>2, <3>3
    <3> QED
      BY <1>1, <1>3, <3>3, <3>4, <3>5
  <2> QED
    BY <1>4, <2>5, <2>6 DEF InOrder
<1>7. \A u \in Tasks : InReady(r, u) <=> u # t /\ InReady(s, u)
  BY <1>2 DEF InReady, Lacks
<1>8. \A u \in Tasks : IF u \in {t} THEN Absent(r, u) ELSE Placed(r, u)
  BY <1>0, <1>1, <1>4, <1>7 DEF Absent, Placed, Lacks
<1>9. Idle \notin {t} => InReady(r, Idle)
  BY <1>7, IdleAssumption DEF Sound, Lists
<1>10. Bits(r, {r.prio[t]})
  <2> SUFFICES ASSUME NEW p \in Priorities
               PROVE  /\ r.ready[p].entries # << >> => p \in r.top
                      /\ p \in r.top => r.ready[p].entries # << >> \/ p = r.prio[t]
    BY DEF Bits
  <2>1. /\ s.ready[p].entries # << >> => p \in s.top
        /\ p \in s.top => s.ready[p].entries # << >>
    BY DEF Sound, Bits
  <2>2. s.ready[p].entries \in Seq(Tasks) /\ r.ready[p].entries \in Seq(Tasks)
    BY <1>2 DEF Rings, Ring
  <2>3. r.ready[p].entries # << >> => s.ready[p].entries # << >>
    BY <1>2, <2>2, EmptyHasNone DEF Lacks
  <2>4. p # s.prio[t] => r.ready[p] = s.ready[p]
    BY <1>0, <1>2 DEF AtPriority
  <2> QED
    BY <1>1, <2>1, <2>3, <2>4
<1> QED
  BY <1>1, <1>5, <1>6, <1>8, <1>9, <1>10 DEF Loose, Lists, Same

LEMMA ResetReadyTaken ==
  ASSUME NEW s, NEW t \in Tasks, Loose(s, t), NEW r, r = ResetReady(s, s.prio[t])
  PROVE  Taken(r, t) /\ Same(r, s) /\ r.pending = s.pending /\ r.event = s.event
<1> DEFINE p == s.prio[t]
<1>0. s \in Schedulers
  BY DEF Loose, Lists
<1>1. CASE s.ready[p].entries # << >>
  BY <1>1 DEF ResetReady, Loose, Taken, Bits, Same
<1>2. CASE s.ready[p].entries = << >>
  <2>1. PICK b : b = s.top \ {p}
    OBVIOUS
  <2>2. r = [s EXCEPT !.top = b]
    BY <1>0, <1>2, <2>1 DEF ResetReady, Schedulers
  <2>3. s.top \in SUBSET Priorities
    BY <1>0 DEF Schedulers
  <2>4. r \in Schedulers
    BY <1>0, <2>1, <2>2, <2>3 DEF Schedulers
  <2>5. /\ r.ready = s.ready /\ r.delayed = s.delayed /\ r.overflow = s.overflow
        /\ r.suspended = s.suspended /\ r.wake = s.wake /\ r.top = s.top \ {p}
        /\ r.pending = s.pending /\ r.event = s.event /\ Same(r, s)
    BY <1>0, <2>1, <2>2 DEF Schedulers, Same
  <2>6. Lists(r, {t})
    BY <2>4, <2>5 DEF Loose, Lists, AtPriority, InOrder, Placed, Absent, InReady, Same
  <2>7. Bits(r, {})
    BY <1>2, <2>5 DEF Loose, Bits
  <2> QED
    BY <2>5, <2>6, <2>7 DEF Taken
<1> QED
  BY <1>1, <1>2

LEMMA TakenIsLoose ==
  ASSUME NEW s, NEW t, Taken(s, t)
  PROVE  Loose(s, t)
BY DEF Taken, Loose, Bits

LEMMA AddToReadyIs ==
  ASSUME NEW s \in Schedulers, NEW t \in Tasks, NEW r, r = AddToReady(s, t)
  PROVE  /\ r \in Schedulers
         /\ r.ready = [s.ready EXCEPT ![s.prio[t]] = RingInsertEnd(@, t)]
         /\ r.top = s.top \cup {s.prio[t]} /\ s.prio[t] \in Priorities
         /\ r.delayed = s.delayed /\ r.overflow = s.overflow
         /\ r.suspended = s.suspended /\ r.wake = s.wake
         /\ r.pending = s.pending /\ r.event = s.event /\ Same(r, s)
         /\ r.missed = s.missed
<1>1. s.prio[t] \in Priorities /\ s.top \in SUBSET Priorities /\ s.ready \in Ready
  BY DEF Schedulers, Prios
<1>2. PICK x, b : x = [s.ready EXCEPT ![s.prio[t]] = RingInsertEnd(@, t)] /\ b = s.top \cup {s.prio[t]}
  OBVIOUS
<1>3. x \in Ready
  <2>1. s.ready[s.prio[t]] \in Rings
    BY <1>1 DEF Ready
  <2>2. RingInsertEnd(s.ready[s.prio[t]], t) \in Rings
    BY <2>1, RingInsertEndHas
  <2> QED
    BY <1>1, <1>2, <2>2 DEF Ready
<1>4. r = [s EXCEPT !.top = b, !.ready = x]
  BY <1>2 DEF AddToReady, Schedulers
<1>6. b \in SUBSET Priorities
  BY <1>1, <1>2
<1>5. r \in Schedulers
  BY <1>3, <1>4, <1>6 DEF Schedulers
<1> QED
  BY <1>1, <1>2, <1>4, <1>5 DEF Schedulers, Same

LEMMA AddToReadySound ==
  ASSUME NEW s, NEW t \in Tasks, Loose(s, t), NEW r, r = AddToReady(s, t)
  PROVE  Sound(r) /\ Same(r, s) /\ r.pending = s.pending /\ r.event = s.event /\ InReady(r, t)
         /\ r.missed = s.missed
<1>0. s \in Schedulers /\ AtPriority(s) /\ InOrder(s) /\ Absent(s, t)
      /\ \A u \in Tasks \ {t} : Placed(s, u)
  BY DEF Loose, Lists
<1>1. /\ r \in Schedulers
      /\ r.ready = [s.ready EXCEPT ![s.prio[t]] = RingInsertEnd(@, t)]
      /\ r.top = s.top \cup {s.prio[t]} /\ s.prio[t] \in Priorities
      /\ r.delayed = s.delayed /\ r.overflow = s.overflow
      /\ r.suspended = s.suspended /\ r.wake = s.wake
      /\ r.pending = s.pending /\ r.event = s.event /\ Same(r, s)
      /\ r.missed = s.missed
  BY <1>0, AddToReadyIs
<1> DEFINE q == s.prio[t]
<1>2. s.ready \in Ready
  BY <1>0 DEF Schedulers
<1>3. /\ r.ready[q].entries # << >> /\ Holds(r.ready[q].entries, s.ready[q].entries, t)
      /\ Once(r.ready[q].entries)
      /\ \A p \in Priorities \ {q} : r.ready[p] = s.ready[p]
  <2>1. s.ready[q] \in Rings /\ r.ready[q] = RingInsertEnd(s.ready[q], t)
    BY <1>1, <1>2 DEF Ready
  <2>2. Once(s.ready[q].entries) /\ ~ Contains(s.ready[q].entries, t)
    BY <1>0, <1>1 DEF AtPriority, Absent, InReady
  <2>3. \A p \in Priorities \ {q} : r.ready[p] = s.ready[p]
    BY <1>1, <1>2 DEF Ready
  <2> QED
    BY <2>1, <2>2, <2>3, RingInsertEndHas
<1>4. AtPriority(r)
  <2> SUFFICES ASSUME NEW p \in Priorities
               PROVE  /\ Once(r.ready[p].entries)
                      /\ \A u \in Tasks : Contains(r.ready[p].entries, u) => r.prio[u] = p
    BY DEF AtPriority
  <2>1. Once(s.ready[p].entries) /\ \A u \in Tasks : Contains(s.ready[p].entries, u) => s.prio[u] = p
    BY <1>0 DEF AtPriority
  <2>2. r.prio = s.prio
    BY <1>1 DEF Same
  <2>3. CASE p = q
    BY <1>3, <2>1, <2>2, <2>3 DEF Holds
  <2>4. CASE p # q
    BY <1>3, <2>1, <2>2, <2>4
  <2> QED
    BY <2>3, <2>4
<1>5. InOrder(r)
  BY <1>0, <1>1 DEF InOrder, Same
<1>6. ASSUME NEW u \in Tasks PROVE InReady(r, u) <=> u = t \/ InReady(s, u)
  <2>1. ASSUME NEW p \in Priorities, Contains(r.ready[p].entries, u) PROVE u = t \/ InReady(s, u)
    BY <1>3, <2>1 DEF InReady, Holds
  <2>2. ASSUME NEW p \in Priorities, Contains(s.ready[p].entries, u) PROVE InReady(r, u)
    BY <1>3, <2>2 DEF InReady, Holds
  <2>3. InReady(r, t)
    BY <1>1, <1>3 DEF InReady, Holds
  <2> QED
    BY <2>1, <2>2, <2>3 DEF InReady
<1>7. \A u \in Tasks : Placed(r, u)
  BY <1>0, <1>1, <1>6 DEF Placed, Absent
<1>8. InReady(r, Idle)
  <2>1. Idle = t \/ InReady(s, Idle)
    BY DEF Loose, Lists
  <2>2. CASE Idle = t
    BY <1>6, <2>2
  <2>3. CASE InReady(s, Idle)
    <3>1. PICK p \in Priorities : Contains(s.ready[p].entries, Idle)
      BY <2>3 DEF InReady
    <3>2. Contains(r.ready[p].entries, Idle)
      BY <1>3, <3>1 DEF Holds
    <3> QED
      BY <3>2 DEF InReady
  <2> QED
    BY <2>1, <2>2, <2>3
<1>9. Bits(r, {})
  <2>1. Bits(s, {q})
    BY DEF Loose
  <2> SUFFICES ASSUME NEW p \in Priorities PROVE r.ready[p].entries # << >> <=> p \in r.top
    BY DEF Bits
  <2>2. CASE p = q
    BY <1>1, <1>3, <2>2
  <2>3. CASE p # q
    BY <1>1, <1>3, <2>1, <2>3 DEF Bits
  <2> QED
    BY <2>2, <2>3
<1> QED
  BY <1>1, <1>4, <1>5, <1>6, <1>7, <1>8, <1>9 DEF Sound, Lists

\* The lists are as they were.
SameLists(r, s) ==
    /\ r.ready = s.ready /\ r.top = s.top /\ r.delayed = s.delayed /\ r.overflow = s.overflow
    /\ r.suspended = s.suspended /\ r.wake = s.wake /\ r.prio = s.prio /\ r.unblock = s.unblock

LEMMA SameListsKeep ==
  ASSUME NEW s, NEW r \in Schedulers, SameLists(r, s)
  PROVE  /\ Sound(s) => Sound(r)
         /\ \A t : Loose(s, t) => Loose(r, t)
         /\ \A t : Taken(s, t) => Taken(r, t)
<1>1. \A G : Lists(s, G) => Lists(r, G)
  BY DEF SameLists, Lists, AtPriority, InOrder, Placed, Absent, InReady
<1>2. \A P : Bits(s, P) => Bits(r, P)
  BY DEF SameLists, Bits
<1>3. r.prio = s.prio
  BY DEF SameLists
<1> QED
  BY <1>1, <1>2, <1>3 DEF Sound, Loose, Taken

LEMMA WithoutSeq ==
  ASSUME NEW T, NEW list \in Seq(T), NEW t
  PROVE  Without(list, t) \in Seq(T)
<1>1. CASE Contains(list, t)
  BY <1>1, WithoutIs
<1>2. CASE ~ Contains(list, t)
  BY <1>2 DEF Without
<1> QED
  BY <1>1, <1>2

LEMMA RemoveEventIs ==
  ASSUME NEW s \in Schedulers, NEW t, NEW r, r = RemoveEvent(s, t)
  PROVE  /\ r \in Schedulers /\ SameLists(r, s) /\ Same(r, s)
<1>1. PICK e, p : e = [l \in DOMAIN s.event |-> Without(s.event[l], t)] /\ p = Without(s.pending, t)
  OBVIOUS
<1>2. r = [s EXCEPT !.event = e, !.pending = p]
  BY <1>1 DEF RemoveEvent, Schedulers
<1>3. e \in Events
  BY <1>1, WithoutSeq DEF Schedulers, Events
<1>4. p \in Seq(Tasks)
  BY <1>1, WithoutSeq DEF Schedulers
<1>5. r \in Schedulers
  BY <1>2, <1>3, <1>4 DEF Schedulers
<1> QED
  BY <1>2, <1>5 DEF Schedulers, SameLists, Same

LEMMA TakeFromReadyTaken ==
  ASSUME NEW s, Sound(s), NEW t \in Tasks, NEW r, r = TakeFromReady(s, t)
  PROVE  Taken(r, t) /\ Same(r, s) /\ r.pending = s.pending /\ r.event = s.event
<1>1. PICK x : x = RemoveGeneric(s, t)
  OBVIOUS
<1>2. Loose(x, t) /\ Same(x, s) /\ x.pending = s.pending /\ x.event = s.event
  BY <1>1, RemoveGenericLoose
<1>3. r = ResetReady(x, x.prio[t])
  BY <1>1, <1>2 DEF TakeFromReady, Same
<1>4. Taken(r, t) /\ Same(r, x) /\ r.pending = x.pending /\ r.event = x.event
  BY <1>2, <1>3, ResetReadyTaken
<1> QED
  BY <1>2, <1>4 DEF Same

LEMMA SuspendedSound ==
  ASSUME NEW s, NEW t \in Tasks \ {Idle}, Taken(s, t), NEW r, r = [s EXCEPT !.suspended = @ \cup {t}]
  PROVE  Sound(r) /\ Same(r, s) /\ r.event = s.event
<1>0. s \in Schedulers
  BY DEF Taken, Lists
<1>1. PICK u : u = s.suspended \cup {t}
  OBVIOUS
<1>2. r = [s EXCEPT !.suspended = u] /\ u \in SUBSET Tasks
  BY <1>0, <1>1 DEF Schedulers
<1>3. r \in Schedulers
  BY <1>0, <1>2 DEF Schedulers
<1>4. /\ r.ready = s.ready /\ r.top = s.top /\ r.delayed = s.delayed /\ r.overflow = s.overflow
      /\ r.suspended = s.suspended \cup {t} /\ r.wake = s.wake /\ Same(r, s) /\ r.event = s.event
  BY <1>0, <1>1, <1>2 DEF Schedulers, Same
<1>5. AtPriority(r) /\ InOrder(r)
  BY <1>4 DEF Taken, Lists, AtPriority, InOrder, Same
<1>6. \A v \in Tasks : Placed(r, v)
  BY <1>4 DEF Taken, Lists, Placed, Absent, InReady
<1>7. InReady(r, Idle)
  BY <1>4, IdleAssumption DEF Taken, Lists, InReady
<1>8. Bits(r, {})
  BY <1>4 DEF Taken, Bits
<1> QED
  BY <1>3, <1>4, <1>5, <1>6, <1>7, <1>8 DEF Sound, Lists

\* A task that is in no list goes into the list of its wake time.
LEMMA InsertedSorted ==
  ASSUME NEW s \in Schedulers, NEW t \in Tasks, NEW w \in Nat, NEW list \in Seq(Tasks),
         Once(list), Sorted(list, s.wake), ~ Contains(list, t), NEW wake, wake = [s.wake EXCEPT ![t] = w],
         NEW r, r = InsertSorted(list, t, {u \in Tasks : s.wake[u] > w})
  PROVE  /\ r \in Seq(Tasks) /\ Once(r) /\ Holds(r, list, t) /\ Sorted(r, wake) /\ r # << >>
         /\ r[1] = t \/ (list # << >> /\ r[1] = list[1])
<1>1. s.wake \in Wakes
  BY DEF Schedulers
<1>2. /\ \A u \in Tasks : wake[u] \in Nat
      /\ \A u : u # t => wake[u] = s.wake[u]
      /\ wake[t] = w
  BY <1>1 DEF Wakes
<1>3. Sorted(list, wake)
  <2>1. \A u : Contains(list, u) => wake[u] = s.wake[u]
    BY <1>2
  <2> QED
    BY <2>1, SortedSame
<1> DEFINE later(v) == {u \in Tasks : v[u] > w}
<1>4. r = InsertSorted(list, t, {u \in Tasks : wake[u] > wake[t]})
  <2>1. \A i \in DOMAIN list : list[i] # t /\ list[i] \in Tasks
    BY DEF Contains
  <2>2. \A i \in DOMAIN list : list[i] \in {u \in Tasks : s.wake[u] > w}
                               <=> list[i] \in {u \in Tasks : wake[u] > wake[t]}
    BY <1>2, <2>1
  <2>3. {i \in DOMAIN list : list[i] \in {u \in Tasks : s.wake[u] > w}}
        = {i \in DOMAIN list : list[i] \in {u \in Tasks : wake[u] > wake[t]}}
    BY <2>2
  <2> QED
    BY <2>3 DEF InsertSorted
<1>5. PICK after : after = {u \in Tasks : wake[u] > wake[t]}
  OBVIOUS
<1>6. r = InsertSorted(list, t, after)
  BY <1>4, <1>5
<1>7. /\ r \in Seq(Tasks) /\ r # << >> /\ Holds(r, list, t)
      /\ Once(list) /\ ~ Contains(list, t) => Once(r)
  BY ONLY t \in Tasks, list \in Seq(Tasks), <1>6, InsertSortedHas
<1>8. Sorted(r, wake) /\ (r[1] = t \/ (list # << >> /\ r[1] = list[1]))
  BY ONLY t \in Tasks, list \in Seq(Tasks), <1>2, <1>3, <1>4, InsertSortedSorted
<1> QED
  BY <1>7, <1>8

LEMMA AddCurrentToDelayedSound ==
  ASSUME NEW s, s.current # Idle, Taken(s, s.current), NEW w \in Nat, NEW r, r = AddCurrentToDelayed(s, w)
  PROVE  Sound(r) /\ r.current = s.current /\ r.held = s.held /\ r.prio = s.prio
<1> DEFINE t == s.current
<1>0. /\ s \in Schedulers /\ t \in Tasks /\ AtPriority(s) /\ InOrder(s) /\ Absent(s, t)
      /\ \A u \in Tasks \ {t} : Placed(s, u)
  BY DEF Taken, Lists, Schedulers
<1>1. /\ s.wake \in Wakes /\ s.delayed \in Seq(Tasks) /\ s.overflow \in Seq(Tasks)
      /\ s.unblock \in Nat /\ s.tick \in Nat
  BY <1>0 DEF Schedulers
<1>2. PICK v, b, d, o : /\ v = [s.wake EXCEPT ![t] = w]
                        /\ b = (IF w < s.unblock THEN w ELSE s.unblock)
                        /\ d = InsertSorted(s.delayed, t, {u \in Tasks : s.wake[u] > w})
                        /\ o = InsertSorted(s.overflow, t, {u \in Tasks : s.wake[u] > w})
  OBVIOUS
<1>3. /\ d \in Seq(Tasks) /\ Once(d) /\ Holds(d, s.delayed, t) /\ Sorted(d, v) /\ d # << >>
      /\ d[1] = t \/ (s.delayed # << >> /\ d[1] = s.delayed[1])
  <2>1. Once(s.delayed) /\ Sorted(s.delayed, s.wake) /\ ~ Contains(s.delayed, t)
    BY <1>0 DEF InOrder, Absent
  <2> HIDE DEF t
  <2> QED
    BY ONLY <1>0, <1>1, <1>2, w \in Nat, <2>1, InsertedSorted
<1>4. /\ o \in Seq(Tasks) /\ Once(o) /\ Holds(o, s.overflow, t) /\ Sorted(o, v)
  <2>1. Once(s.overflow) /\ Sorted(s.overflow, s.wake) /\ ~ Contains(s.overflow, t)
    BY <1>0 DEF InOrder, Absent
  <2> HIDE DEF t
  <2> QED
    BY ONLY <1>0, <1>1, <1>2, w \in Nat, <2>1, InsertedSorted
<1>5. v \in Wakes /\ b \in Nat /\ v[t] = w /\ \A u : u # t => v[u] = s.wake[u]
  BY <1>0, <1>1, <1>2 DEF Wakes
<1>6. /\ Sorted(s.delayed, v) /\ Sorted(s.overflow, v)
      /\ s.delayed # << >> => s.delayed[1] # t /\ s.delayed[1] \in Tasks
  <2>1. \A u : Contains(s.delayed, u) \/ Contains(s.overflow, u) => v[u] = s.wake[u]
    BY <1>0, <1>5 DEF Absent
  <2>2. s.delayed # << >> => s.delayed[1] # t /\ s.delayed[1] \in Tasks
    BY <1>0, <1>1, EmptyHasNone DEF Absent
  <2> QED
    BY <1>0, <2>1, <2>2, SortedSame DEF InOrder
<1>7. CASE w < s.tick
  <2>1. r = [s EXCEPT !.wake = v, !.overflow = o]
    BY <1>0, <1>2, <1>7 DEF AddCurrentToDelayed, Schedulers
  <2>2. r \in Schedulers
    BY <1>0, <1>4, <1>5, <2>1 DEF Schedulers
  <2>3. /\ r.ready = s.ready /\ r.top = s.top /\ r.delayed = s.delayed /\ r.overflow = o
        /\ r.suspended = s.suspended /\ r.wake = v /\ Same(r, s)
    BY <1>0, <2>1 DEF Schedulers, Same
  <2>4. AtPriority(r)
    BY <1>0, <2>3 DEF AtPriority, Same
  <2>5. InOrder(r)
    BY <1>0, <1>4, <1>5, <1>6, <2>3 DEF InOrder, Same
  <2>6. \A u \in Tasks : Placed(r, u)
    BY <1>0, <1>4, <2>3 DEF Placed, Absent, InReady, Holds
  <2>7. InReady(r, Idle)
    BY <2>3, IdleAssumption DEF Taken, Lists, InReady
  <2>8. Bits(r, {})
    BY <2>3 DEF Taken, Bits
  <2> QED
    BY <2>2, <2>3, <2>4, <2>5, <2>6, <2>7, <2>8 DEF Sound, Lists, Same
<1>8. CASE ~ (w < s.tick)
  <2>1. r = [s EXCEPT !.wake = v, !.delayed = d, !.unblock = b]
    BY <1>0, <1>2, <1>8 DEF AddCurrentToDelayed, Schedulers
  <2>2. r \in Schedulers
    BY <1>0, <1>3, <1>5, <2>1 DEF Schedulers
  <2>3. /\ r.ready = s.ready /\ r.top = s.top /\ r.delayed = d /\ r.overflow = s.overflow
        /\ r.suspended = s.suspended /\ r.wake = v /\ r.unblock = b
        /\ r.current = s.current /\ r.prio = s.prio /\ r.held = s.held
    BY <1>0, <2>1 DEF Schedulers
  <2>4. AtPriority(r)
    BY <1>0, <2>3 DEF AtPriority
  <2>5. InOrder(r)
    <3>1. b <= v[d[1]]
      <4>1. CASE d[1] = t
        BY <1>1, <1>2, <1>5, <4>1
      <4>2. CASE s.delayed # << >> /\ d[1] = s.delayed[1]
        <5>1. v[d[1]] = s.wake[s.delayed[1]] /\ s.unblock <= s.wake[s.delayed[1]]
              /\ s.wake[s.delayed[1]] \in Nat
          BY <1>0, <1>1, <1>5, <1>6, <4>2 DEF InOrder, Wakes
        <5> QED
          BY <1>1, <1>2, <5>1
      <4> QED
        BY <1>3, <4>1, <4>2
    <3> QED
      BY <1>0, <1>3, <1>6, <2>3, <3>1 DEF InOrder
  <2>6. \A u \in Tasks : Placed(r, u)
    BY <1>0, <1>3, <2>3 DEF Placed, Absent, InReady, Holds
  <2>7. InReady(r, Idle)
    BY <2>3, IdleAssumption DEF Taken, Lists, InReady
  <2>8. Bits(r, {})
    BY <2>3 DEF Taken, Bits
  <2> QED
    BY <2>2, <2>3, <2>4, <2>5, <2>6, <2>7, <2>8 DEF Sound, Lists
<1> QED
  BY <1>7, <1>8

-----------------------------------------------------------------------------
(***************************************************************************)
(* Folds over sequences.  The library defines a fold by a recursive        *)
(* function on sets of numbers, which has to be shown to exist; induction  *)
(* over its length is by the least number of which something is false.     *)
(***************************************************************************)
\* A set of numbers with 0 and the successor of each has them all: the least that it does
\* not have would be the successor of one that it has.
LEMMA Induct == ASSUME NEW Z, 0 \in Z, \A n \in Nat : n \in Z => n + 1 \in Z PROVE Nat \subseteq Z
  <1> DEFINE T == Nat \ Z
  <1>1. SUFFICES ASSUME T # {} PROVE FALSE
    OBVIOUS
  <1>2. PICK x \in T : \A y \in T : ~ (<<y, x>> \in Less)
    <2>1. IsWellFoundedOn(Less, Nat)
      BY NatLessThanWellFounded DEF Less
    <2> QED
      BY <1>1, <2>1, WFMin
  <1>3. x \in Nat /\ x # 0 /\ x \notin Z
    OBVIOUS
  <1>4. x - 1 \in Nat /\ x - 1 < x /\ (x - 1) + 1 = x
    BY <1>3
  <1>5. x - 1 \in T
    BY <1>3, <1>4
  <1>6. <<x - 1, x>> \in Less
    BY <1>3, <1>4, LessDef
  <1> QED
    BY <1>2, <1>5, <1>6

\* The largest of a set of numbers.
LEMMA MaxIs == ASSUME NEW Z \in SUBSET Nat, NEW x \in Z, \A y \in Z : x >= y PROVE Max(Z) = x
  <1>1. Max(Z) \in Z /\ \A y \in Z : Max(Z) >= y BY DEF Max
  <1>2. Max(Z) \in Nat /\ Max(Z) >= x /\ x >= Max(Z) /\ x \in Nat BY <1>1
  <1> QED BY <1>2

\* What the recursive function of a fold over 1 .. n computes, G being the step.
Iter(n, D, base, G, g) ==
  /\ g \in [SUBSET (1 .. n) -> D] /\ g[{}] = base
  /\ \A s \in SUBSET (1 .. n) : s # {} => Max(s) \in s /\ g[s] = G[<<Max(s), g[s \ {Max(s)}]>>]

LEMMA IterExists ==
  ASSUME NEW n \in Nat, NEW D, NEW base \in D, NEW G \in [(1 .. n) \X D -> D]
  PROVE  \E g : Iter(n, D, base, G, g)
  <1> DEFINE Z == {k \in Nat : k <= n => \E g : Iter(k, D, base, G, g)}
  <1>1. 0 \in Z
    <2> DEFINE g == [s \in SUBSET (1 .. 0) |-> base]
    <2>1. SUBSET (1 .. 0) = {{}} OBVIOUS
    <2>2. Iter(0, D, base, G, g) BY <2>1 DEF Iter
    <2> QED BY <2>2
  <1>2. ASSUME NEW k \in Nat, k \in Z, k + 1 <= n PROVE \E g : Iter(k + 1, D, base, G, g)
    <2>1. PICK f : Iter(k, D, base, G, f) BY <1>2
    <2> DEFINE g == [s \in SUBSET (1 .. k + 1) |-> IF k + 1 \in s THEN G[<<k + 1, f[s \ {k + 1}]>>] ELSE f[s]]
    <2>2. ASSUME NEW s \in SUBSET (1 .. k + 1), k + 1 \in s
          PROVE  /\ s \ {k + 1} \in SUBSET (1 .. k) /\ s \ {k + 1} \in SUBSET (1 .. k + 1)
                 /\ Max(s) = k + 1 /\ g[s] \in D /\ g[s] = G[<<k + 1, g[s \ {k + 1}]>>]
      <3>1. s \ {k + 1} \in SUBSET (1 .. k) BY <2>2
      <3>2. s \ {k + 1} \in SUBSET (1 .. k + 1) /\ k + 1 \notin s \ {k + 1} BY <2>2
      <3>3. Max(s) = k + 1
        <4>1. s \in SUBSET Nat /\ \A y \in s : k + 1 >= y OBVIOUS
        <4> QED BY <4>1, <2>2, MaxIs
      <3>4. f[s \ {k + 1}] \in D BY <2>1, <3>1 DEF Iter
      <3>5. g[s] = G[<<k + 1, f[s \ {k + 1}]>>] /\ g[s \ {k + 1}] = f[s \ {k + 1}] BY <2>2, <3>2
      <3>6. k + 1 \in 1 .. n BY <1>2
      <3>7. <<k + 1, f[s \ {k + 1}]>> \in (1 .. n) \X D BY <3>4, <3>6
      <3> QED BY <3>1, <3>2, <3>3, <3>5, <3>7
    <2>3. ASSUME NEW s \in SUBSET (1 .. k + 1), k + 1 \notin s
          PROVE  /\ s \in SUBSET (1 .. k) /\ g[s] = f[s] /\ g[s] \in D
      <3>1. s \in SUBSET (1 .. k) BY <2>3
      <3> QED BY <2>1, <3>1, <2>3 DEF Iter
    <2>4. g \in [SUBSET (1 .. k + 1) -> D]
      <3>1. \A s \in SUBSET (1 .. k + 1) : g[s] \in D BY <2>2, <2>3
      <3> QED BY <3>1
    <2>5. g[{}] = base
      <3>1. {} \in SUBSET (1 .. k + 1) /\ k + 1 \notin {} OBVIOUS
      <3> QED BY <2>1, <2>3, <3>1 DEF Iter
    <2>6. ASSUME NEW s \in SUBSET (1 .. k + 1), s # {}
          PROVE  Max(s) \in s /\ g[s] = G[<<Max(s), g[s \ {Max(s)}]>>]
      <3> HIDE DEF g
      <3>1. CASE k + 1 \in s BY <2>2, <3>1
      <3>2. CASE k + 1 \notin s
        <4>1. Max(s) \in s /\ f[s] = G[<<Max(s), f[s \ {Max(s)}]>>] /\ g[s] = f[s]
          BY <2>1, <2>3, <2>6, <3>2 DEF Iter
        <4>2. s \ {Max(s)} \in SUBSET (1 .. k + 1) /\ k + 1 \notin s \ {Max(s)} BY <3>2
        <4>3. g[s \ {Max(s)}] = f[s \ {Max(s)}] BY <2>3, <4>2
        <4> QED BY <4>1, <4>3
      <3> QED BY <3>1, <3>2
    <2> HIDE DEF g
    <2>7. Iter(k + 1, D, base, G, g) BY <2>4, <2>5, <2>6 DEF Iter
    <2> QED BY <2>7
  <1>3. \A k \in Nat : k \in Z => k + 1 \in Z
    <2> SUFFICES ASSUME NEW k \in Nat, k \in Z PROVE k + 1 \in Z OBVIOUS
    <2>1. k + 1 \in Nat OBVIOUS
    <2> QED BY <1>2, <2>1
  <1> HIDE DEF Z
  <1>4. n \in Z BY <1>1, <1>3, Induct
  <1> QED BY <1>4 DEF Z

\* Any function with the recursion equation stays in D.
Recurs(n, D, base, G, it) ==
  /\ it[{}] = base
  /\ \A s \in SUBSET (1 .. n) :
        s # {} /\ it[s \ {Max(s)}] \in D => it[s] = G[<<Max(s), it[s \ {Max(s)}]>>]

LEMMA RecursIn ==
  ASSUME NEW n \in Nat, NEW D, NEW base \in D, NEW G \in [(1 .. n) \X D -> D], NEW it,
         Recurs(n, D, base, G, it)
  PROVE  it[1 .. n] \in D
  <1> DEFINE Z == {j \in Nat : j <= n => it[1 .. j] \in D}
  <1>1. 0 \in Z
    <2>1. 1 .. 0 = {} OBVIOUS
    <2> QED BY <2>1 DEF Recurs
  <1>2. ASSUME NEW k \in 1 .. n, it[1 .. k - 1] \in D PROVE it[1 .. k] \in D
    <2>1. Max(1 .. k) = k
      <3>1. 1 .. k \in SUBSET Nat /\ k \in 1 .. k /\ \A y \in 1 .. k : k >= y OBVIOUS
      <3> QED BY <3>1, MaxIs
    <2>2. (1 .. k) \ {k} = 1 .. k - 1 /\ k \in 1 .. k
      <3>1. k \in Nat OBVIOUS
      <3> QED BY <3>1
    <2>3. 1 .. k \in SUBSET (1 .. n) OBVIOUS
    <2>4. it[1 .. k] = G[<<k, it[1 .. k - 1]>>] BY <1>2, <2>1, <2>2, <2>3 DEF Recurs
    <2>5. <<k, it[1 .. k - 1]>> \in (1 .. n) \X D BY <1>2
    <2> QED BY <2>4, <2>5
  <1>3. ASSUME NEW j \in Nat, j \in Z PROVE j + 1 \in Z
    <2>1. ASSUME j + 1 <= n PROVE it[1 .. j + 1] \in D
      <3>1. j + 1 \in 1 .. n /\ j + 1 - 1 = j /\ j <= n BY <2>1
      <3>2. it[1 .. j] \in D BY <1>3, <3>1
      <3>3. it[1 .. (j + 1) - 1] \in D BY <3>1, <3>2
      <3> QED BY <3>1, <3>3, <1>2
    <2> QED BY <2>1
  <1> HIDE DEF Z
  <1>4. n \in Z BY <1>1, <1>3, Induct
  <1> QED BY <1>4 DEF Z

\* One turn of prvUnlockQueue.
WakeOne(s, l) == IF WakesHigher(s, l) THEN [Wake(s, l) EXCEPT !.missed = TRUE] ELSE Wake(s, l)

\* Folds of the scheduler's functions.

LEMMA WakeUpFold ==
  ASSUME NEW D, NEW base \in D, NEW T, NEW list \in Seq(T),
         \A x \in D : \A i \in 1 .. Len(list) : WakeUp(x, list[i]) \in D
  PROVE  FoldLeft(WakeUp, base, list) \in D
  <1> DEFINE n == Len(list)
             G == [p \in (1 .. n) \X D |-> WakeUp(p[2], list[p[1]])]
             F(iter) == [s \in SUBSET (1 .. n) |->
                           IF s = {} THEN base ELSE WakeUp(iter[s \ {Max(s)}], list[Max(s)])]
             it == CHOOSE iter : iter = F(iter)
  <1>1. n \in Nat /\ DOMAIN list = 1 .. n OBVIOUS
  <1>2. G \in [(1 .. n) \X D -> D] OBVIOUS
  <1>3. ASSUME NEW s \in SUBSET (1 .. n), NEW f, f[s \ {Max(s)}] \in D, Max(s) \in s
        PROVE  G[<<Max(s), f[s \ {Max(s)}]>>] = WakeUp(f[s \ {Max(s)}], list[Max(s)])
    BY <1>3
  <1>4. PICK g : Iter(n, D, base, G, g)
    <2> HIDE DEF G, n
    <2> QED BY <1>1, <1>2, IterExists
  <1>5. g = F(g)
    <2>1. ASSUME NEW s \in SUBSET (1 .. n), s # {} PROVE g[s] = WakeUp(g[s \ {Max(s)}], list[Max(s)])
      <3>1. Max(s) \in s /\ s \ {Max(s)} \in SUBSET (1 .. n) /\ g[s] = G[<<Max(s), g[s \ {Max(s)}]>>]
        BY <1>4, <2>1 DEF Iter
      <3>2. g[s \ {Max(s)}] \in D BY <1>4, <3>1 DEF Iter
      <3> HIDE DEF G, n
      <3> QED BY <3>1, <3>2, <1>3, <2>1
    <2> QED BY <1>4, <2>1 DEF Iter
  <1>6. it = F(it) BY <1>5
  <1>7. FoldLeft(WakeUp, base, list) = it[1 .. n]
    BY <1>1 DEF FoldLeft, MapThenFoldSet
  <1> HIDE DEF it
  <1>8. Recurs(n, D, base, G, it)
    <2>1. it[{}] = base BY <1>6
    <2>2. ASSUME NEW s \in SUBSET (1 .. n), s # {}, it[s \ {Max(s)}] \in D
          PROVE  it[s] = G[<<Max(s), it[s \ {Max(s)}]>>]
      <3>1. it[s] = WakeUp(it[s \ {Max(s)}], list[Max(s)]) BY <1>6, <2>2
      <3>2. Max(s) \in s BY <1>4, <2>2 DEF Iter
      <3> HIDE DEF G, n
      <3> QED BY <3>1, <3>2, <1>3, <2>2
    <2> HIDE DEF G, n
    <2> QED BY <2>1, <2>2 DEF Recurs
  <1>9. it[1 .. n] \in D
    <2> HIDE DEF G, n
    <2> QED BY <1>1, <1>2, <1>8, RecursIn
  <1> QED BY <1>7, <1>9

LEMMA MovePendingFold ==
  ASSUME NEW D, NEW base \in D, NEW T, NEW list \in Seq(T),
         \A x \in D : \A i \in 1 .. Len(list) : MovePending(x, list[i]) \in D
  PROVE  FoldLeft(MovePending, base, list) \in D
  <1> DEFINE n == Len(list)
             G == [p \in (1 .. n) \X D |-> MovePending(p[2], list[p[1]])]
             F(iter) == [s \in SUBSET (1 .. n) |->
                           IF s = {} THEN base ELSE MovePending(iter[s \ {Max(s)}], list[Max(s)])]
             it == CHOOSE iter : iter = F(iter)
  <1>1. n \in Nat /\ DOMAIN list = 1 .. n OBVIOUS
  <1>2. G \in [(1 .. n) \X D -> D] OBVIOUS
  <1>3. ASSUME NEW s \in SUBSET (1 .. n), NEW f, f[s \ {Max(s)}] \in D, Max(s) \in s
        PROVE  G[<<Max(s), f[s \ {Max(s)}]>>] = MovePending(f[s \ {Max(s)}], list[Max(s)])
    BY <1>3
  <1>4. PICK g : Iter(n, D, base, G, g)
    <2> HIDE DEF G, n
    <2> QED BY <1>1, <1>2, IterExists
  <1>5. g = F(g)
    <2>1. ASSUME NEW s \in SUBSET (1 .. n), s # {} PROVE g[s] = MovePending(g[s \ {Max(s)}], list[Max(s)])
      <3>1. Max(s) \in s /\ s \ {Max(s)} \in SUBSET (1 .. n) /\ g[s] = G[<<Max(s), g[s \ {Max(s)}]>>]
        BY <1>4, <2>1 DEF Iter
      <3>2. g[s \ {Max(s)}] \in D BY <1>4, <3>1 DEF Iter
      <3> HIDE DEF G, n
      <3> QED BY <3>1, <3>2, <1>3, <2>1
    <2> QED BY <1>4, <2>1 DEF Iter
  <1>6. it = F(it) BY <1>5
  <1>7. FoldLeft(MovePending, base, list) = it[1 .. n]
    BY <1>1 DEF FoldLeft, MapThenFoldSet
  <1> HIDE DEF it
  <1>8. Recurs(n, D, base, G, it)
    <2>1. it[{}] = base BY <1>6
    <2>2. ASSUME NEW s \in SUBSET (1 .. n), s # {}, it[s \ {Max(s)}] \in D
          PROVE  it[s] = G[<<Max(s), it[s \ {Max(s)}]>>]
      <3>1. it[s] = MovePending(it[s \ {Max(s)}], list[Max(s)]) BY <1>6, <2>2
      <3>2. Max(s) \in s BY <1>4, <2>2 DEF Iter
      <3> HIDE DEF G, n
      <3> QED BY <3>1, <3>2, <1>3, <2>2
    <2> HIDE DEF G, n
    <2> QED BY <2>1, <2>2 DEF Recurs
  <1>9. it[1 .. n] \in D
    <2> HIDE DEF G, n
    <2> QED BY <1>1, <1>2, <1>8, RecursIn
  <1> QED BY <1>7, <1>9

LEMMA ReplayTickFold ==
  ASSUME NEW D, NEW base \in D, NEW T, NEW list \in Seq(T),
         \A x \in D : \A i \in 1 .. Len(list) : ReplayTick(x, list[i]) \in D
  PROVE  FoldLeft(ReplayTick, base, list) \in D
  <1> DEFINE n == Len(list)
             G == [p \in (1 .. n) \X D |-> ReplayTick(p[2], list[p[1]])]
             F(iter) == [s \in SUBSET (1 .. n) |->
                           IF s = {} THEN base ELSE ReplayTick(iter[s \ {Max(s)}], list[Max(s)])]
             it == CHOOSE iter : iter = F(iter)
  <1>1. n \in Nat /\ DOMAIN list = 1 .. n OBVIOUS
  <1>2. G \in [(1 .. n) \X D -> D] OBVIOUS
  <1>3. ASSUME NEW s \in SUBSET (1 .. n), NEW f, f[s \ {Max(s)}] \in D, Max(s) \in s
        PROVE  G[<<Max(s), f[s \ {Max(s)}]>>] = ReplayTick(f[s \ {Max(s)}], list[Max(s)])
    BY <1>3
  <1>4. PICK g : Iter(n, D, base, G, g)
    <2> HIDE DEF G, n
    <2> QED BY <1>1, <1>2, IterExists
  <1>5. g = F(g)
    <2>1. ASSUME NEW s \in SUBSET (1 .. n), s # {} PROVE g[s] = ReplayTick(g[s \ {Max(s)}], list[Max(s)])
      <3>1. Max(s) \in s /\ s \ {Max(s)} \in SUBSET (1 .. n) /\ g[s] = G[<<Max(s), g[s \ {Max(s)}]>>]
        BY <1>4, <2>1 DEF Iter
      <3>2. g[s \ {Max(s)}] \in D BY <1>4, <3>1 DEF Iter
      <3> HIDE DEF G, n
      <3> QED BY <3>1, <3>2, <1>3, <2>1
    <2> QED BY <1>4, <2>1 DEF Iter
  <1>6. it = F(it) BY <1>5
  <1>7. FoldLeft(ReplayTick, base, list) = it[1 .. n]
    BY <1>1 DEF FoldLeft, MapThenFoldSet
  <1> HIDE DEF it
  <1>8. Recurs(n, D, base, G, it)
    <2>1. it[{}] = base BY <1>6
    <2>2. ASSUME NEW s \in SUBSET (1 .. n), s # {}, it[s \ {Max(s)}] \in D
          PROVE  it[s] = G[<<Max(s), it[s \ {Max(s)}]>>]
      <3>1. it[s] = ReplayTick(it[s \ {Max(s)}], list[Max(s)]) BY <1>6, <2>2
      <3>2. Max(s) \in s BY <1>4, <2>2 DEF Iter
      <3> HIDE DEF G, n
      <3> QED BY <3>1, <3>2, <1>3, <2>2
    <2> HIDE DEF G, n
    <2> QED BY <2>1, <2>2 DEF Recurs
  <1>9. it[1 .. n] \in D
    <2> HIDE DEF G, n
    <2> QED BY <1>1, <1>2, <1>8, RecursIn
  <1> QED BY <1>7, <1>9

LEMMA WakeManyFold ==
  ASSUME NEW D, NEW base \in D, NEW m \in Nat, NEW l,
         \A x \in D : \A i \in 1 .. m : WakeOne(x, l) \in D
  PROVE  WakeMany(base, l, m) \in D
  <1> DEFINE n == m
             G == [p \in (1 .. n) \X D |-> WakeOne(p[2], l)]
             F(iter) == [s \in SUBSET (1 .. n) |->
                           IF s = {} THEN base ELSE WakeOne(iter[s \ {Max(s)}], l)]
             it == CHOOSE iter : iter = F(iter)
  <1>1. n \in Nat /\ DOMAIN [i \in 1 .. m |-> i] = 1 .. n OBVIOUS
  <1>2. G \in [(1 .. n) \X D -> D] OBVIOUS
  <1>3. ASSUME NEW s \in SUBSET (1 .. n), NEW f, f[s \ {Max(s)}] \in D, Max(s) \in s
        PROVE  G[<<Max(s), f[s \ {Max(s)}]>>] = WakeOne(f[s \ {Max(s)}], l)
    BY <1>3
  <1>4. PICK g : Iter(n, D, base, G, g)
    <2> HIDE DEF G, n
    <2> QED BY <1>1, <1>2, IterExists
  <1>5. g = F(g)
    <2>1. ASSUME NEW s \in SUBSET (1 .. n), s # {} PROVE g[s] = WakeOne(g[s \ {Max(s)}], l)
      <3>1. Max(s) \in s /\ s \ {Max(s)} \in SUBSET (1 .. n) /\ g[s] = G[<<Max(s), g[s \ {Max(s)}]>>]
        BY <1>4, <2>1 DEF Iter
      <3>2. g[s \ {Max(s)}] \in D BY <1>4, <3>1 DEF Iter
      <3> HIDE DEF G, n
      <3> QED BY <3>1, <3>2, <1>3, <2>1
    <2> QED BY <1>4, <2>1 DEF Iter
  <1>6. it = F(it) BY <1>5
  <1>7. WakeMany(base, l, m) = it[1 .. n]
    BY <1>1 DEF FoldLeft, MapThenFoldSet, WakeMany, WakeOne
  <1> HIDE DEF it
  <1>8. Recurs(n, D, base, G, it)
    <2>1. it[{}] = base BY <1>6
    <2>2. ASSUME NEW s \in SUBSET (1 .. n), s # {}, it[s \ {Max(s)}] \in D
          PROVE  it[s] = G[<<Max(s), it[s \ {Max(s)}]>>]
      <3>1. it[s] = WakeOne(it[s \ {Max(s)}], l) BY <1>6, <2>2
      <3>2. Max(s) \in s BY <1>4, <2>2 DEF Iter
      <3> HIDE DEF G, n
      <3> QED BY <3>1, <3>2, <1>3, <2>2
    <2> HIDE DEF G, n
    <2> QED BY <2>1, <2>2 DEF Recurs
  <1>9. it[1 .. n] \in D
    <2> HIDE DEF G, n
    <2> QED BY <1>1, <1>2, <1>8, RecursIn
  <1> QED BY <1>7, <1>9

-----------------------------------------------------------------------------
(***************************************************************************)
(* Every function of the scheduler keeps the lists sound.                  *)
(***************************************************************************)
\* Who runs, the priorities and the counts of mutexes are as before.
Kept(r, s) == r.current = s.current /\ r.prio = s.prio /\ r.held = s.held

LEMMA SameIsKept == ASSUME NEW r, NEW s, Same(r, s) PROVE Kept(r, s)
BY DEF Same, Kept

LEMMA SoundTyped == ASSUME NEW s, Sound(s) PROVE s \in Schedulers
BY DEF Sound, Lists

\* The fields that have nothing to do with the lists.
LEMMA LockedSound ==
  ASSUME NEW s, Sound(s), NEW n \in Int, NEW r, r = [s EXCEPT !.locked = n]
  PROVE  Sound(r) /\ Kept(r, s) /\ r.locked = n /\ r.pending = s.pending /\ r.event = s.event
<1>0. s \in Schedulers
  BY SoundTyped
<1>1. r \in Schedulers
  BY <1>0 DEF Schedulers
<1>2. SameLists(r, s) /\ Kept(r, s) /\ r.locked = n /\ r.pending = s.pending /\ r.event = s.event
  BY <1>0 DEF Schedulers, SameLists, Kept
<1> QED
  BY <1>1, <1>2, SameListsKeep

LEMMA MissedSound ==
  ASSUME NEW s, Sound(s), NEW b \in BOOLEAN, NEW r, r = [s EXCEPT !.missed = b]
  PROVE  Sound(r) /\ Kept(r, s)
<1>0. s \in Schedulers
  BY SoundTyped
<1>1. r \in Schedulers
  BY <1>0 DEF Schedulers
<1>2. SameLists(r, s) /\ Kept(r, s)
  BY <1>0 DEF Schedulers, SameLists, Kept
<1> QED
  BY <1>1, <1>2, SameListsKeep

LEMMA PendedSound ==
  ASSUME NEW s, Sound(s), NEW n \in Nat, NEW r, r = [s EXCEPT !.pended = n]
  PROVE  Sound(r) /\ Kept(r, s)
<1>0. s \in Schedulers
  BY SoundTyped
<1>1. r \in Schedulers
  BY <1>0 DEF Schedulers
<1>2. SameLists(r, s) /\ Kept(r, s)
  BY <1>0 DEF Schedulers, SameLists, Kept
<1> QED
  BY <1>1, <1>2, SameListsKeep

WithHeld(s, t, n)  == [s EXCEPT !.held[t] = n]
WithPrio(s, t, p)  == [s EXCEPT !.prio[t] = p]
WithEvent(s, l, e) == [s EXCEPT !.event[l] = e]

LEMMA HeldSound ==
  ASSUME NEW s, Sound(s), NEW t \in Tasks, NEW n \in Int, NEW r, r = WithHeld(s, t, n)
  PROVE  Sound(r) /\ r.current = s.current /\ r.prio = s.prio /\ r.held = [s.held EXCEPT ![t] = n]
         /\ r.event = s.event
<1>0. s \in Schedulers
  BY SoundTyped
<1>1. PICK h : h = [s.held EXCEPT ![t] = n]
  OBVIOUS
<1>2. h \in Counts
  BY <1>0, <1>1 DEF Schedulers, Counts
<1>3. r = [s EXCEPT !.held = h]
  BY <1>0, <1>1 DEF Schedulers, WithHeld
<1>4. r \in Schedulers
  BY <1>0, <1>2, <1>3 DEF Schedulers
<1>5. SameLists(r, s) /\ r.current = s.current /\ r.prio = s.prio /\ r.held = h /\ r.event = s.event
  BY <1>0, <1>3 DEF Schedulers, SameLists
<1> QED
  BY <1>1, <1>4, <1>5, SameListsKeep

LEMMA EventSound ==
  ASSUME NEW s, Sound(s), NEW l \in Queues \X {"receive", "send"}, NEW e \in Seq(Tasks),
         NEW r, r = WithEvent(s, l, e)
  PROVE  Sound(r) /\ Same(r, s) /\ r.event = [s.event EXCEPT ![l] = e] /\ r.pending = s.pending
<1>0. s \in Schedulers
  BY SoundTyped
<1>1. PICK h : h = [s.event EXCEPT ![l] = e]
  OBVIOUS
<1>2. h \in Events
  BY <1>0, <1>1 DEF Schedulers, Events
<1>3. r = [s EXCEPT !.event = h]
  BY <1>0, <1>1 DEF Schedulers, WithEvent
<1>4. r \in Schedulers
  BY <1>0, <1>2, <1>3 DEF Schedulers
<1>5. SameLists(r, s) /\ Same(r, s) /\ r.event = h /\ r.pending = s.pending
  BY <1>0, <1>3 DEF Schedulers, SameLists, Same
<1> QED
  BY <1>1, <1>4, <1>5, SameListsKeep

LEMMA PendingSound ==
  ASSUME NEW s, Sound(s), NEW e \in Seq(Tasks), NEW r, r = [s EXCEPT !.pending = e]
  PROVE  Sound(r) /\ Same(r, s) /\ r.event = s.event
<1>0. s \in Schedulers
  BY SoundTyped
<1>1. r \in Schedulers
  BY <1>0 DEF Schedulers
<1>2. SameLists(r, s) /\ Same(r, s) /\ r.event = s.event
  BY <1>0 DEF Schedulers, SameLists, Same
<1> QED
  BY <1>1, <1>2, SameListsKeep

\* A task that is in no list may have any priority.
LEMMA PrioTaken ==
  ASSUME NEW s, NEW t \in Tasks, Taken(s, t), NEW p \in Priorities, NEW r, r = WithPrio(s, t, p)
  PROVE  Taken(r, t) /\ r.current = s.current /\ r.held = s.held /\ r.prio = [s.prio EXCEPT ![t] = p]
         /\ r.event = s.event
<1>0. s \in Schedulers /\ Absent(s, t) /\ AtPriority(s)
  BY DEF Taken, Lists
<1>1. PICK h : h = [s.prio EXCEPT ![t] = p]
  OBVIOUS
<1>2. h \in Prios
  BY <1>0, <1>1 DEF Schedulers, Prios
<1>3. r = [s EXCEPT !.prio = h]
  BY <1>0, <1>1 DEF Schedulers, WithPrio
<1>4. r \in Schedulers
  BY <1>0, <1>2, <1>3 DEF Schedulers
<1>5. /\ r.ready = s.ready /\ r.top = s.top /\ r.delayed = s.delayed /\ r.overflow = s.overflow
      /\ r.suspended = s.suspended /\ r.wake = s.wake /\ r.unblock = s.unblock /\ r.prio = h
      /\ r.current = s.current /\ r.held = s.held /\ r.event = s.event
  BY <1>0, <1>3 DEF Schedulers
<1>6. \A u \in Tasks : u # t => h[u] = s.prio[u]
  BY <1>0, <1>1 DEF Schedulers, Prios
<1>7. AtPriority(r)
  BY <1>0, <1>5, <1>6 DEF AtPriority, Absent, InReady
<1>8. Lists(r, {t})
  BY <1>4, <1>5, <1>7 DEF Taken, Lists, InOrder, Placed, Absent, InReady
<1>9. Bits(r, {})
  BY <1>5 DEF Taken, Bits
<1> QED
  BY <1>1, <1>5, <1>8, <1>9 DEF Taken

\* Out of the lists and back into the ready list of another priority.
LEMMA MovedSound ==
  ASSUME NEW s, Sound(s), NEW t \in Tasks, NEW p \in Priorities,
         NEW r, r = AddToReady([TakeFromReady(s, t) EXCEPT !.prio[t] = p], t)
  PROVE  Sound(r) /\ r.current = s.current /\ r.held = s.held /\ r.prio = [s.prio EXCEPT ![t] = p]
         /\ r.event = s.event
<1>1. PICK x : x = TakeFromReady(s, t)
  OBVIOUS
<1>2. PICK y : y = WithPrio(x, t, p)
  OBVIOUS
<1>3. Taken(x, t) /\ Same(x, s) /\ x.event = s.event
  BY <1>1, TakeFromReadyTaken
<1>4. Taken(y, t) /\ y.current = x.current /\ y.held = x.held /\ y.prio = [x.prio EXCEPT ![t] = p]
      /\ y.event = x.event
  BY ONLY t \in Tasks, p \in Priorities, <1>2, <1>3, PrioTaken
<1>5. Loose(y, t)
  BY <1>4, TakenIsLoose
<1>6. Sound(r) /\ Same(r, y) /\ r.event = y.event
  BY <1>1, <1>2, <1>5, AddToReadySound DEF WithPrio
<1> QED
  BY <1>3, <1>4, <1>6 DEF Same

\* A task that is in no ready list may have any priority, too.
LEMMA RaisedSound ==
  ASSUME NEW s, Sound(s), NEW t \in Tasks, NEW p \in Priorities,
         ~ Contains(s.ready[s.prio[t]].entries, t), NEW r, r = WithPrio(s, t, p)
  PROVE  Sound(r) /\ r.current = s.current /\ r.held = s.held /\ r.prio = [s.prio EXCEPT ![t] = p]
         /\ r.event = s.event
<1>0. s \in Schedulers /\ AtPriority(s)
  BY DEF Sound, Lists
<1>1. PICK h : h = [s.prio EXCEPT ![t] = p]
  OBVIOUS
<1>2. h \in Prios
  BY <1>0, <1>1 DEF Schedulers, Prios
<1>3. r = [s EXCEPT !.prio = h]
  BY <1>0, <1>1 DEF Schedulers, WithPrio
<1>4. r \in Schedulers
  BY <1>0, <1>2, <1>3 DEF Schedulers
<1>5. /\ r.ready = s.ready /\ r.top = s.top /\ r.delayed = s.delayed /\ r.overflow = s.overflow
      /\ r.suspended = s.suspended /\ r.wake = s.wake /\ r.unblock = s.unblock /\ r.prio = h
      /\ r.current = s.current /\ r.held = s.held /\ r.event = s.event
  BY <1>0, <1>3 DEF Schedulers
<1>6. \A u \in Tasks : u # t => h[u] = s.prio[u]
  BY <1>0, <1>1 DEF Schedulers, Prios
<1>7. \A q \in Priorities : ~ Contains(s.ready[q].entries, t)
  BY <1>0 DEF AtPriority
<1>8. AtPriority(r)
  BY <1>0, <1>5, <1>6, <1>7 DEF AtPriority
<1>9. Lists(r, {})
  BY <1>4, <1>5, <1>8 DEF Sound, Lists, InOrder, Placed, Absent, InReady
<1>10. Bits(r, {})
  BY <1>5 DEF Sound, Bits
<1> QED
  BY <1>1, <1>5, <1>9, <1>10 DEF Sound

LEMMA InheritSound ==
  ASSUME NEW s, Sound(s), NEW h \in Tasks, NEW r, r = Inherit(s, h)
  PROVE  /\ Sound(r) /\ r.current = s.current /\ r.held = s.held /\ r.event = s.event
         /\ \/ r = s
            \/ /\ s.prio[h] < s.prio[s.current]
               /\ r.prio = [s.prio EXCEPT ![h] = s.prio[s.current]]
<1> DEFINE p == s.prio[s.current]
<1>1. s.prio \in Prios /\ p \in Priorities /\ s.prio[h] \in Priorities
  BY SoundTyped DEF Schedulers, Prios
<1>2. s.prio[h] \in Nat /\ p \in Nat
  <2>1. Priorities \subseteq Nat
    BY TasksAssumption DEF Priorities
  <2> QED
    BY <1>1, <2>1
<1>3. CASE s.prio[h] >= p
  BY <1>3 DEF Inherit
<1>4. CASE ~ (s.prio[h] >= p) /\ Contains(s.ready[s.prio[h]].entries, h)
  <2>1. r = AddToReady([TakeFromReady(s, h) EXCEPT !.prio[h] = p], h)
    BY <1>4 DEF Inherit
  <2>2. s.prio[h] < p
    <3> HIDE DEF p
    <3> QED
      BY <1>2, <1>4
  <2> HIDE DEF p
  <2>3. Sound(r) /\ r.current = s.current /\ r.held = s.held /\ r.prio = [s.prio EXCEPT ![h] = p]
        /\ r.event = s.event
    BY <1>1, <2>1, MovedSound
  <2> QED
    BY <2>2, <2>3 DEF p
<1>5. CASE ~ (s.prio[h] >= p) /\ ~ Contains(s.ready[s.prio[h]].entries, h)
  <2>1. r = WithPrio(s, h, p)
    BY <1>5 DEF Inherit, WithPrio
  <2>2. s.prio[h] < p
    <3> HIDE DEF p
    <3> QED
      BY <1>2, <1>5
  <2> HIDE DEF p
  <2>3. Sound(r) /\ r.current = s.current /\ r.held = s.held /\ r.prio = [s.prio EXCEPT ![h] = p]
        /\ r.event = s.event
    BY ONLY Sound(s), h \in Tasks, <1>1, <1>5, <2>1, RaisedSound
  <2> QED
    BY <2>2, <2>3 DEF p
<1> QED
  BY <1>3, <1>4, <1>5

LEMMA DisinheritSound ==
  ASSUME NEW s, Sound(s), NEW h \in Tasks, NEW r, r = Disinherit(s, h)
  PROVE  /\ Sound(r) /\ r.current = s.current /\ r.event = s.event
         /\ r.held = [s.held EXCEPT ![h] = @ - 1]
         /\ r.prio = IF Drops(s, h) THEN [s.prio EXCEPT ![h] = BasePrio[h]] ELSE s.prio
<1>1. PICK n, x : n = s.held[h] - 1 /\ x = WithHeld(s, h, n)
  OBVIOUS
<1>2. n \in Int
  BY <1>1, SoundTyped DEF Schedulers, Counts
<1>3. Sound(x) /\ x.current = s.current /\ x.prio = s.prio /\ x.held = [s.held EXCEPT ![h] = n]
      /\ x.event = s.event
  BY ONLY Sound(s), h \in Tasks, <1>1, <1>2, HeldSound
<1>4. x = [s EXCEPT !.held[h] = @ - 1]
  BY <1>1 DEF WithHeld
<1>5. CASE ~ Drops(s, h)
  BY <1>1, <1>3, <1>4, <1>5 DEF Disinherit
<1>6. CASE Drops(s, h)
  <2>1. r = AddToReady([TakeFromReady(x, h) EXCEPT !.prio[h] = BasePrio[h]], h)
    BY <1>4, <1>6 DEF Disinherit
  <2>2. BasePrio[h] \in Priorities
    BY DEF Priorities
  <2>3. Sound(r) /\ r.current = x.current /\ r.held = x.held /\ r.prio = [x.prio EXCEPT ![h] = BasePrio[h]]
        /\ r.event = x.event
    BY <1>3, <2>1, <2>2, MovedSound
  <2> QED
    BY <1>1, <1>3, <1>6, <2>3
<1> QED
  BY <1>5, <1>6

LEMMA TickModIs == TickMod \in Nat /\ TickMod > 0 /\ \A i \in Int : (i % TickMod) \in Nat
<1>1. TickMod \in Nat /\ TickMod > 0
  BY TasksAssumption DEF TickMod
<1>2. ASSUME NEW m \in Nat, m > 0, NEW i \in Int PROVE (i % m) \in Nat
  BY <1>2, SMTT(30)
<1> QED
  BY <1>1, <1>2

LEMMA PlaceSound ==
  ASSUME NEW s, Sound(s), s.current # Idle, NEW l \in Queues \X {"receive", "send"}, NEW ticks \in Int,
         NEW r, r = PlaceOnEventList(s, l, ticks)
  PROVE  Sound(r) /\ Kept(r, s)
<1>0. s \in Schedulers /\ s.current \in Tasks /\ s.tick \in Nat
  BY SoundTyped DEF Schedulers
<1>1. PICK e, c : e = InsertSorted(s.event[l], s.current, {u \in Tasks : s.prio[u] < s.prio[s.current]})
                  /\ c = s.current
  OBVIOUS
<1>2. e \in Seq(Tasks)
  <2>1. s.event[l] \in Seq(Tasks)
    BY <1>0 DEF Schedulers, Events
  <2> QED
    BY <1>0, <1>1, <2>1, InsertSortedHas
<1>3. PICK x : x = WithEvent(s, l, e)
  OBVIOUS
<1>4. PICK y : y = TakeFromReady(x, c)
  OBVIOUS
<1>5. Sound(x) /\ Same(x, s)
  BY ONLY Sound(s), l \in Queues \X {"receive", "send"}, <1>2, <1>3, EventSound
<1>6. Taken(y, c) /\ Same(y, x)
  BY <1>0, <1>1, <1>4, <1>5, TakeFromReadyTaken
<1>9. y.current = c /\ c \in Tasks \ {Idle} /\ Kept(y, s)
  BY <1>0, <1>1, <1>5, <1>6 DEF Same, Kept
<1>10. r = IF ticks = MaxDelay THEN [y EXCEPT !.suspended = @ \cup {c}]
                               ELSE AddCurrentToDelayed(y, (s.tick + ticks) % TickMod)
  BY <1>1, <1>3, <1>4 DEF PlaceOnEventList, WithEvent
<1>7. CASE ticks = MaxDelay
  <2>1. r = [y EXCEPT !.suspended = @ \cup {c}]
    BY <1>7, <1>10
  <2>2. Sound(r) /\ Same(r, y)
    BY <1>6, <1>9, <2>1, SuspendedSound
  <2> QED
    BY <1>9, <2>2 DEF Kept, Same
<1>8. CASE ticks # MaxDelay
  <2>1. PICK w : w = (s.tick + ticks) % TickMod
    OBVIOUS
  <2>2. w \in Nat
    <3>1. s.tick + ticks \in Int
      BY <1>0
    <3> QED
      BY <2>1, <3>1, TickModIs
  <2>3. r = AddCurrentToDelayed(y, w)
    BY <1>8, <1>10, <2>1
  <2>4. Sound(r) /\ r.current = y.current /\ r.held = y.held /\ r.prio = y.prio
    BY <1>6, <1>9, <2>2, <2>3, AddCurrentToDelayedSound
  <2> QED
    BY <1>9, <2>4 DEF Kept
<1> QED
  BY <1>7, <1>8

LEMMA RemoveFromEventListSound ==
  ASSUME NEW s, Sound(s), NEW l \in Queues \X {"receive", "send"}, s.event[l] # << >>,
         NEW r, r = RemoveFromEventList(s, l)
  PROVE  Sound(r) /\ Kept(r, s) /\ r.event = [s.event EXCEPT ![l] = Tail(@)]
<1>0. s \in Schedulers /\ s.event[l] \in Seq(Tasks) /\ s.event \in Events
  <2>1. s \in Schedulers
    BY SoundTyped
  <2>2. s.event \in Events
    BY <2>1 DEF Schedulers
  <2> QED
    BY <2>1, <2>2 DEF Events
<1>1. PICK t, e, b : t = Head(s.event[l]) /\ e = Tail(s.event[l]) /\ b = (s.missed \/ Outranks(s, l))
  OBVIOUS
<1>2. t \in Tasks /\ e \in Seq(Tasks) /\ b \in BOOLEAN
  <2>1. PICK m : m = s.event[l]
    OBVIOUS
  <2>2. Head(m) \in Tasks /\ Tail(m) \in Seq(Tasks)
    BY <1>0, <2>1
  <2>3. b \in BOOLEAN
    BY <1>1
  <2> QED
    BY <1>1, <2>1, <2>2, <2>3
<1>3. PICK x : x = WithEvent(s, l, e)
  OBVIOUS
<1>4. Sound(x) /\ Same(x, s) /\ x.event = [s.event EXCEPT ![l] = e] /\ x.pending = s.pending
  BY ONLY Sound(s), l \in Queues \X {"receive", "send"}, <1>2, <1>3, EventSound
<1>5. PICK y : y = [x EXCEPT !.missed = b]
  OBVIOUS
<1>6. Sound(y) /\ Kept(y, x) /\ y.event = x.event /\ y.locked = s.locked /\ y.pending = s.pending
  <2>1. Sound(y) /\ Kept(y, x)
    BY ONLY <1>2, <1>4, <1>5, MissedSound
  <2>2. x \in Schedulers
    BY <1>4, SoundTyped
  <2>3. y.event = x.event /\ y.locked = x.locked /\ y.pending = x.pending
    BY <1>5, <2>2 DEF Schedulers
  <2> QED
    BY <1>4, <2>1, <2>3 DEF Same
<1>7. y = [s EXCEPT !.event[l] = Tail(@), !.missed = @ \/ Outranks(s, l)]
  BY <1>0, <1>1, <1>3, <1>5 DEF WithEvent, Schedulers
<1>8. r = IF s.locked = 0 THEN AddToReady(RemoveGeneric(y, t), t) ELSE [y EXCEPT !.pending = Append(@, t)]
  BY <1>1, <1>7 DEF RemoveFromEventList
<1>9. Kept(y, s)
  BY <1>4, <1>6 DEF Kept, Same
<1>10. CASE s.locked = 0
  <2>1. PICK z : z = RemoveGeneric(y, t)
    OBVIOUS
  <2>2. Loose(z, t) /\ Same(z, y) /\ z.event = y.event
    BY <1>2, <1>6, <2>1, RemoveGenericLoose
  <2>3. Sound(r) /\ Same(r, z) /\ r.event = z.event
    BY <1>2, <1>8, <1>10, <2>1, <2>2, AddToReadySound
  <2> QED
    BY <1>1, <1>4, <1>6, <1>9, <2>2, <2>3 DEF Same, Kept
<1>11. CASE s.locked # 0
  <2>1. PICK p : p = Append(y.pending, t)
    OBVIOUS
  <2>2. p \in Seq(Tasks)
    <3>1. y.pending \in Seq(Tasks)
      BY <1>6, SoundTyped DEF Schedulers
    <3> QED
      BY <1>2, <2>1, <3>1
  <2>3. r = [y EXCEPT !.pending = p]
    BY <1>8, <1>11, <2>1
  <2>4. Sound(r) /\ Same(r, y) /\ r.event = y.event
    BY <1>6, <2>2, <2>3, PendingSound
  <2> QED
    BY <1>1, <1>4, <1>6, <1>9, <2>4 DEF Same, Kept
<1> QED
  BY <1>10, <1>11

LEMMA WakeSound ==
  ASSUME NEW s, Sound(s), NEW l \in Queues \X {"receive", "send"}, NEW r, r = Wake(s, l)
  PROVE  Sound(r) /\ Kept(r, s)
<1>1. CASE s.event[l] = << >>
  BY <1>1 DEF Wake, Kept
<1>2. CASE s.event[l] # << >>
  <2>1. r = RemoveFromEventList(s, l)
    BY <1>2 DEF Wake
  <2> QED
    BY <1>2, <2>1, RemoveFromEventListSound
<1> QED
  BY <1>1, <1>2

LEMMA WakeOneSound ==
  ASSUME NEW s, Sound(s), NEW l \in Queues \X {"receive", "send"}, NEW r, r = WakeOne(s, l)
  PROVE  Sound(r) /\ Kept(r, s)
<1>1. PICK x : x = Wake(s, l)
  OBVIOUS
<1>2. Sound(x) /\ Kept(x, s)
  BY <1>1, WakeSound
<1>3. CASE ~ WakesHigher(s, l)
  BY <1>1, <1>2, <1>3 DEF WakeOne
<1>4. CASE WakesHigher(s, l)
  <2>1. r = [x EXCEPT !.missed = TRUE]
    BY <1>1, <1>4 DEF WakeOne
  <2>2. Sound(r) /\ Kept(r, x)
    BY ONLY <1>2, <2>1, MissedSound
  <2> QED
    BY <1>2, <2>2 DEF Kept
<1> QED
  BY <1>3, <1>4

LEMMA WakeManySound ==
  ASSUME NEW s, Sound(s), NEW l \in Queues \X {"receive", "send"}, NEW n \in Nat \cup {Unlocked},
         NEW r, r = WakeMany(s, l, n)
  PROVE  Sound(r) /\ Kept(r, s)
<1> DEFINE D == {x \in Schedulers : Sound(x) /\ Kept(x, s)}
<1>1. s \in D
  BY SoundTyped DEF Kept
<1>2. ASSUME NEW x \in D, NEW m \in Nat, NEW i \in 1 .. m PROVE WakeOne(x, l) \in D
  <2>1. PICK y : y = WakeOne(x, l)
    OBVIOUS
  <2>2. Sound(y) /\ Kept(y, x)
    BY <2>1, WakeOneSound
  <2>3. y \in Schedulers /\ Kept(y, s)
    BY <2>2, SoundTyped DEF Kept
  <2> QED
    BY <2>1, <2>2, <2>3
<1> HIDE DEF D
<1>3. PICK m \in Nat : r = WakeMany(s, l, m)
  <2>1. CASE n \in Nat
    BY <2>1
  <2>2. CASE n = Unlocked
    <3>1. 1 .. n = 1 .. 0
      BY <2>2 DEF Unlocked
    <3>2. WakeMany(s, l, n) = WakeMany(s, l, 0)
      BY <3>1 DEF WakeMany
    <3> QED
      BY <3>2
  <2> QED
    BY <2>1, <2>2
<1>4. WakeMany(s, l, m) \in D
  BY <1>1, <1>2, WakeManyFold
<1> QED
  BY <1>3, <1>4 DEF D

-----------------------------------------------------------------------------
(***************************************************************************)
(* The tick, and what was put off while the scheduler was suspended.       *)
(***************************************************************************)
\* All that is sound but the next unblock time.
Housed(s) ==
    /\ s \in Schedulers /\ AtPriority(s) /\ Bits(s, {})
    /\ Once(s.delayed) /\ Once(s.overflow)
    /\ Sorted(s.delayed, s.wake) /\ Sorted(s.overflow, s.wake)
    /\ InReady(s, Idle) /\ \A t \in Tasks : Placed(s, t)

LEMMA SoundHoused == ASSUME NEW s, Sound(s) PROVE Housed(s)
BY IdleAssumption DEF Sound, Lists, InOrder, Housed

LEMMA ResetNextUnblockSound ==
  ASSUME NEW s, Housed(s), NEW r, r = ResetNextUnblock(s)
  PROVE  Sound(r) /\ Kept(r, s)
<1>1. /\ s \in Schedulers /\ s.delayed \in Seq(Tasks) /\ s.wake \in Wakes
      /\ \A t \in Tasks : s.wake[t] \in Nat
  BY DEF Housed, Schedulers, Wakes
<1>2. PICK u : u = (IF s.delayed = << >> THEN MaxDelay ELSE s.wake[Head(s.delayed)])
  OBVIOUS
<1>3. s.delayed # << >> => Head(s.delayed) = s.delayed[1] /\ s.delayed[1] \in Tasks
  BY <1>1, EmptyHasNone
<1>4. u \in Nat /\ (s.delayed # << >> => u <= s.wake[s.delayed[1]])
  BY <1>1, <1>2, <1>3, TasksAssumption
<1>5. r = [s EXCEPT !.unblock = u]
  BY <1>2 DEF ResetNextUnblock
<1>6. /\ r \in Schedulers
      /\ r.ready = s.ready /\ r.top = s.top /\ r.delayed = s.delayed /\ r.overflow = s.overflow
      /\ r.suspended = s.suspended /\ r.wake = s.wake /\ r.prio = s.prio /\ r.unblock = u
      /\ Kept(r, s)
  BY <1>1, <1>4, <1>5 DEF Schedulers, Kept
<1>7. AtPriority(r) /\ (\A t \in Tasks : Placed(r, t)) /\ InReady(r, Idle)
  BY <1>6 DEF Housed, AtPriority, Placed, InReady
<1>8. InOrder(r)
  BY <1>4, <1>6 DEF Housed, InOrder
<1>9. Bits(r, {})
  BY <1>6 DEF Housed, Bits
<1> QED
  BY <1>6, <1>7, <1>8, <1>9 DEF Sound, Lists

LEMMA SwitchDelayedListsSound ==
  ASSUME NEW s, Sound(s), NEW r, r = SwitchDelayedLists(s)
  PROVE  Sound(r) /\ Kept(r, s)
<1>0. Housed(s) /\ s \in Schedulers
  BY SoundHoused, SoundTyped
<1>1. PICK x : x = [s EXCEPT !.delayed = s.overflow, !.overflow = s.delayed, !.overflows = @ + 1]
  OBVIOUS
<1>2. /\ x \in Schedulers
      /\ x.ready = s.ready /\ x.top = s.top /\ x.delayed = s.overflow /\ x.overflow = s.delayed
      /\ x.suspended = s.suspended /\ x.wake = s.wake /\ x.prio = s.prio /\ Kept(x, s)
  <2>1. PICK d, o, n : d = s.overflow /\ o = s.delayed /\ n = s.overflows + 1
    OBVIOUS
  <2>2. x = [s EXCEPT !.delayed = d, !.overflow = o, !.overflows = n]
    BY <1>1, <2>1
  <2>3. d \in Seq(Tasks) /\ o \in Seq(Tasks) /\ n \in Nat
    BY <1>0, <2>1 DEF Schedulers
  <2> QED
    BY <1>0, <2>1, <2>2, <2>3 DEF Schedulers, Kept
<1>3. AtPriority(x) /\ InReady(x, Idle) /\ Bits(x, {})
  BY <1>0, <1>2 DEF Housed, AtPriority, InReady, Bits
<1>4. \A t \in Tasks : Placed(x, t)
  BY <1>0, <1>2 DEF Housed, Placed, InReady
<1>5. Housed(x)
  BY <1>0, <1>2, <1>3, <1>4 DEF Housed
<1>6. r = ResetNextUnblock(x)
  BY <1>1 DEF SwitchDelayedLists
<1> QED
  BY <1>2, <1>5, <1>6, ResetNextUnblockSound DEF Kept

LEMMA TickedSound ==
  ASSUME NEW s, Sound(s), NEW r, r = Ticked(s)
  PROVE  Sound(r) /\ Kept(r, s)
<1>0. s \in Schedulers
  BY SoundTyped
<1>1. PICK n : n = (s.tick + 1) % TickMod
  OBVIOUS
<1>2. n \in Nat
  <2>1. s.tick + 1 \in Int
    BY <1>0 DEF Schedulers
  <2> QED
    BY <1>1, <2>1, TickModIs
<1>3. PICK x : x = [s EXCEPT !.tick = n]
  OBVIOUS
<1>4. x \in Schedulers /\ SameLists(x, s) /\ Kept(x, s)
  BY <1>0, <1>2, <1>3 DEF Schedulers, SameLists, Kept
<1>5. Sound(x)
  BY <1>4, SameListsKeep
<1>6. r = x \/ r = SwitchDelayedLists(x)
  BY <1>1, <1>3 DEF Ticked
<1>7. CASE r = x
  BY <1>4, <1>5, <1>7
<1>8. CASE r = SwitchDelayedLists(x)
  BY <1>4, <1>5, <1>8, SwitchDelayedListsSound DEF Kept
<1> QED
  BY <1>6, <1>7, <1>8

LEMMA WakeUpSound ==
  ASSUME NEW s, Sound(s), NEW t \in Tasks, NEW r, r = WakeUp(s, t)
  PROVE  Sound(r) /\ Kept(r, s)
<1>1. PICK x, y : x = RemoveGeneric(s, t) /\ y = RemoveEvent(x, t)
  OBVIOUS
<1>2. Loose(x, t) /\ Same(x, s)
  BY <1>1, RemoveGenericLoose
<1>3. y \in Schedulers /\ SameLists(y, x) /\ Same(y, x)
  BY <1>1, <1>2, RemoveEventIs DEF Loose, Lists
<1>4. Loose(y, t)
  BY <1>2, <1>3, SameListsKeep
<1>5. r = AddToReady(y, t)
  BY <1>1 DEF WakeUp
<1>6. Sound(r) /\ Same(r, y)
  BY <1>4, <1>5, AddToReadySound
<1> QED
  BY <1>2, <1>3, <1>6 DEF Same, Kept

LEMMA DueIsSeq ==
  ASSUME NEW s \in Schedulers
  PROVE  Due(s) \in Seq(Tasks)
<1> DEFINE later == {i \in DOMAIN s.delayed : s.wake[s.delayed[i]] > s.tick}
<1>1. PICK m : m = s.delayed
  OBVIOUS
<1>2. m \in Seq(Tasks)
  BY <1>1 DEF Schedulers
<1>3. CASE s.tick < s.unblock
  BY <1>3 DEF Due
<1>4. CASE ~ (s.tick < s.unblock) /\ later = {}
  BY <1>1, <1>2, <1>4 DEF Due
<1>5. CASE ~ (s.tick < s.unblock) /\ later # {}
  <2>1. PICK k : k = FirstOf(later)
    OBVIOUS
  <2>2. k \in 1 .. Len(m)
    <3>1. later \in SUBSET (1 .. Len(m)) /\ later \in SUBSET Nat
      BY <1>1, <1>2
    <3> HIDE DEF later
    <3>2. k \in later
      BY <1>5, <2>1, <3>1, FirstOfIs
    <3> QED
      BY <3>1, <3>2
  <2>3. Due(s) = SubSeq(m, 1, k - 1)
    BY <1>1, <1>5, <2>1 DEF Due
  <2>4. SubSeq(m, 1, k - 1) \in Seq(Tasks)
    BY <1>2, <2>2
  <2> QED
    BY <2>3, <2>4
<1> QED
  BY <1>3, <1>4, <1>5

LEMMA IncrementTickSound ==
  ASSUME NEW s, Sound(s), NEW r, r = IncrementTick(s)
  PROVE  Sound(r) /\ Kept(r, s)
<1>0. s \in Schedulers /\ s.pended \in Nat
  BY SoundTyped DEF Schedulers
<1>1. CASE s.locked > 0
  <2>1. PICK n : n = s.pended + 1
    OBVIOUS
  <2>2. n \in Nat /\ r = [s EXCEPT !.pended = n]
    BY <1>0, <1>1, <2>1 DEF IncrementTick
  <2> QED
    BY ONLY Sound(s), <2>2, PendedSound
<1>2. CASE ~ (s.locked > 0)
  <2>1. PICK x, list : x = Ticked(s) /\ list = Due(x)
    OBVIOUS
  <2>2. Sound(x) /\ Kept(x, s)
    BY <2>1, TickedSound
  <2>3. list \in Seq(Tasks)
    BY <2>1, <2>2, DueIsSeq, SoundTyped
  <2> DEFINE D == {y \in Schedulers : Sound(y) /\ Kept(y, s)}
  <2>4. x \in D
    BY <2>2, SoundTyped
  <2>5. ASSUME NEW y \in D, NEW i \in 1 .. Len(list) PROVE WakeUp(y, list[i]) \in D
    <3>1. PICK z, t : t = list[i] /\ z = WakeUp(y, t)
      OBVIOUS
    <3>2. t \in Tasks
      BY <2>3, <3>1
    <3>3. Sound(z) /\ Kept(z, y)
      BY <3>1, <3>2, WakeUpSound
    <3>4. z \in Schedulers /\ Kept(z, s)
      BY <3>3, SoundTyped DEF Kept
    <3> QED
      BY <3>1, <3>3, <3>4
  <2> HIDE DEF D
  <2>6. PICK y : y = FoldLeft(WakeUp, x, list)
    OBVIOUS
  <2>7. y \in D
    BY <2>3, <2>4, <2>5, <2>6, WakeUpFold
  <2>8. Sound(y) /\ Kept(y, s)
    BY <2>7 DEF D
  <2>9. r = y \/ r = ResetNextUnblock(y)
    BY <1>2, <2>1, <2>6 DEF IncrementTick
  <2>10. CASE r = y
    BY <2>8, <2>10
  <2>11. CASE r = ResetNextUnblock(y)
    BY <2>8, <2>11, SoundHoused, ResetNextUnblockSound DEF Kept
  <2> QED
    BY <2>9, <2>10, <2>11
<1> QED
  BY <1>1, <1>2

LEMMA MovePendingSound ==
  ASSUME NEW s, Sound(s), NEW t \in Tasks, NEW r, r = MovePending(s, t)
  PROVE  Sound(r) /\ Kept(r, s)
<1>1. PICK x, y, z : x = RemoveEvent(s, t) /\ y = RemoveGeneric(x, t) /\ z = AddToReady(y, t)
  OBVIOUS
<1>2. x \in Schedulers /\ SameLists(x, s) /\ Same(x, s)
  BY <1>1, SoundTyped, RemoveEventIs
<1>3. Sound(x)
  BY <1>2, SameListsKeep
<1>4. Loose(y, t) /\ Same(y, x)
  BY <1>1, <1>3, RemoveGenericLoose
<1>5. Sound(z) /\ Same(z, y)
  BY <1>1, <1>4, AddToReadySound
<1>6. PICK b : b = (z.missed \/ s.prio[t] >= s.prio[s.current])
  OBVIOUS
<1>7. r = [z EXCEPT !.missed = b] /\ b \in BOOLEAN
  BY <1>1, <1>6 DEF MovePending
<1>8. Sound(r) /\ Kept(r, z)
  BY ONLY <1>5, <1>7, MissedSound
<1> QED
  BY <1>2, <1>4, <1>5, <1>8 DEF Same, Kept

LEMMA ReplayTickSound ==
  ASSUME NEW s, Sound(s), NEW i, NEW r, r = ReplayTick(s, i)
  PROVE  Sound(r) /\ Kept(r, s)
<1>1. PICK x, b : x = IncrementTick(s) /\ b = SwitchAfterTick(s)
  OBVIOUS
<1>2. Sound(x) /\ Kept(x, s)
  BY <1>1, IncrementTickSound
<1>3. b \in BOOLEAN
  BY <1>1 DEF SwitchAfterTick
<1>4. r = [x EXCEPT !.missed = b]
  BY <1>1 DEF ReplayTick
<1>5. Sound(r) /\ Kept(r, x)
  BY ONLY <1>2, <1>3, <1>4, MissedSound
<1> QED
  BY <1>2, <1>5 DEF Kept

LEMMA SuspendAllSound ==
  ASSUME NEW s, Sound(s), NEW r, r = SuspendAll(s)
  PROVE  Sound(r) /\ Kept(r, s)
<1>1. PICK n : n = s.locked + 1
  OBVIOUS
<1>2. n \in Int /\ r = [s EXCEPT !.locked = n]
  BY <1>1, SoundTyped DEF Schedulers, SuspendAll
<1> QED
  BY ONLY Sound(s), <1>2, LockedSound

LEMMA ResumeAllSound ==
  ASSUME NEW s, Sound(s), NEW r, r = ResumeAll(s)
  PROVE  Sound(r) /\ Kept(r, s)
<1>0. s.pending \in Seq(Tasks) /\ s.pended \in Nat /\ s.locked \in Int
  BY SoundTyped DEF Schedulers
<1>1. PICK n, x : n = s.locked - 1 /\ x = [s EXCEPT !.locked = n]
  OBVIOUS
<1>2. n \in Int
  BY <1>0, <1>1
<1>3. Sound(x) /\ Kept(x, s)
  BY ONLY Sound(s), <1>1, <1>2, LockedSound
<1> DEFINE D == {y \in Schedulers : Sound(y) /\ Kept(y, s)}
<1>4. x \in D
  BY <1>3, SoundTyped
<1>5. PICK list, ticks : list = s.pending /\ ticks = [i \in 1 .. s.pended |-> i]
  OBVIOUS
<1>6. list \in Seq(Tasks) /\ ticks \in Seq(Nat)
  BY <1>0, <1>5
<1>7. ASSUME NEW y \in D, NEW i \in 1 .. Len(list) PROVE MovePending(y, list[i]) \in D
  <2>1. PICK z, t : t = list[i] /\ z = MovePending(y, t)
    OBVIOUS
  <2>2. t \in Tasks
    BY <1>6, <2>1
  <2>3. Sound(z) /\ Kept(z, y)
    BY <2>1, <2>2, MovePendingSound
  <2>4. z \in Schedulers /\ Kept(z, s)
    BY <2>3, SoundTyped DEF Kept
  <2> QED
    BY <2>1, <2>3, <2>4
<1>8. ASSUME NEW y \in D, NEW i \in 1 .. Len(ticks) PROVE ReplayTick(y, ticks[i]) \in D
  <2>1. PICK z, t : t = ticks[i] /\ z = ReplayTick(y, t)
    OBVIOUS
  <2>3. Sound(z) /\ Kept(z, y)
    BY <2>1, ReplayTickSound
  <2>4. z \in Schedulers /\ Kept(z, s)
    BY <2>3, SoundTyped DEF Kept
  <2> QED
    BY <2>1, <2>3, <2>4
<1> HIDE DEF D
<1>9. PICK y, z : y = FoldLeft(MovePending, x, list) /\ z = FoldLeft(ReplayTick, y, ticks)
  OBVIOUS
<1>10. y \in D
  BY <1>4, <1>6, <1>7, <1>9, MovePendingFold
<1>11. z \in D
  BY <1>6, <1>8, <1>9, <1>10, ReplayTickFold
<1>12. Sound(z) /\ Kept(z, s)
  BY <1>11 DEF D
<1>13. [s EXCEPT !.locked = @ - 1] = x
  BY <1>1
<1>14. r = x \/ r = [z EXCEPT !.pended = 0]
  BY <1>5, <1>9, <1>13 DEF ResumeAll
<1>15. CASE r = x
  BY <1>3, <1>15
<1>16. CASE r = [z EXCEPT !.pended = 0]
  <2>1. Sound(r) /\ Kept(r, z)
    BY ONLY <1>12, <1>16, PendedSound
  <2> QED
    BY <1>12, <2>1 DEF Kept
<1> QED
  BY <1>14, <1>15, <1>16

\* The sequence of a finite set has each of its members once.
LEMMA SetToSeqIs ==
  ASSUME NEW Z, IsFiniteSet(Z), NEW list, list = SetToSeq(Z)
  PROVE  list \in Seq(Z) /\ Once(list) /\ \A x : Contains(list, x) <=> x \in Z
<1> DEFINE n == Cardinality(Z)
           Order(f) == f \in [1 .. n -> Z] /\ IsInjective(f)
<1>1. n \in Nat
  BY FS_CardinalityType
<1>2. PICK g \in Bijection(1 .. n, Z) : TRUE
  BY <1>1, FS_NatBijection, FS_CountingElements, FS_CardinalityType DEF ExistsBijection
<1>3. Order(g)
  BY <1>2 DEF Bijection, Injection, IsInjective
<1>4. Order(list)
  BY <1>3 DEF SetToSeq
<1>5. DOMAIN list = 1 .. n /\ list \in Seq(Z) /\ Len(list) = n
  BY <1>1, <1>4
<1>6. \A i, j \in 1 .. n : list[i] = list[j] => i = j
  BY <1>4, <1>5 DEF IsInjective
<1>7. \A x \in Z : \E i \in 1 .. n : list[i] = x
  <2>1. list \in Injection(1 .. n, Z)
    BY <1>4, <1>6 DEF Injection, IsInjective
  <2>2. IsFiniteSet(1 .. n) /\ Cardinality(1 .. n) = n
    BY <1>1, FS_Interval
  <2>3. list \in Surjection(1 .. n, Z)
    BY <1>1, <2>1, <2>2, FS_Injection, FS_SurjSameCardinalityImpliesInj DEF ExistsInjection
  <2> QED
    BY <2>3 DEF Surjection
<1>8. \A i \in 1 .. n : list[i] \in Z
  BY <1>4
<1> HIDE DEF n
<1> QED
  BY <1>5, <1>6, <1>7, <1>8 DEF Once, Contains

\* A finite set of numbers has a largest.
LEMMA LargestExists ==
  ASSUME NEW Z \in SUBSET Nat, IsFiniteSet(Z), Z # {}
  PROVE  \E p \in Z : \A o \in Z : o <= p
<1>1. PICK list : list = SetToSeq(Z)
  OBVIOUS
<1>2. list \in Seq(Z) /\ \A x : Contains(list, x) <=> x \in Z
  BY <1>1, SetToSeqIs
<1>12. Len(list) \in Nat /\ \A i \in 1 .. Len(list) : list[i] \in Nat
  <2>1. Len(list) \in Nat /\ \A i \in 1 .. Len(list) : list[i] \in Z
    BY <1>2
  <2>2. \A x \in Z : x \in Nat
    OBVIOUS
  <2> QED
    BY ONLY <2>1, <2>2
<1> DEFINE Below(k, m) == \A i \in 1 .. Len(list) : i <= k => list[i] <= m
           B == {k \in Nat : \E m \in Nat : Below(k, m)}
<1>3. 0 \in B
  <2>1. \A i \in 1 .. Len(list) : ~ (i <= 0)
    BY <1>2
  <2> QED
    BY <2>1
<1>4. ASSUME NEW k \in Nat, k \in B PROVE k + 1 \in B
  <2>1. PICK m \in Nat : \A i \in 1 .. Len(list) : i <= k => list[i] <= m
    BY <1>4
  <2>2. CASE k + 1 \in 1 .. Len(list)
    <3>1. list[k + 1] \in Nat
      BY <1>12, <2>2
    <3>2. PICK l \in Nat : m <= l /\ list[k + 1] <= l
      <4>1. CASE m <= list[k + 1]
        BY <3>1, <4>1
      <4>2. CASE ~ (m <= list[k + 1])
        BY <3>1, <4>2
      <4> QED
        BY <4>1, <4>2
    <3>3. ASSUME NEW i \in 1 .. Len(list), i <= k + 1 PROVE list[i] <= l
      <4>1. i <= k \/ i = k + 1
        BY <3>3
      <4>2. list[i] \in Nat
        BY <1>12
      <4> QED
        BY <2>1, <3>2, <4>1, <4>2
    <3>4. Below(k + 1, l) /\ k + 1 \in Nat
      BY <3>3
    <3> QED
      BY <3>4
  <2>3. CASE k + 1 \notin 1 .. Len(list)
    <3>1. \A i \in 1 .. Len(list) : i <= k + 1 => i <= k
      BY <1>12, <2>3
    <3>2. Below(k + 1, m) /\ k + 1 \in Nat
      BY <2>1, <3>1
    <3> QED
      BY <3>2
  <2> QED
    BY <2>2, <2>3
<1> HIDE DEF B
<1>5. Nat \subseteq B
  BY <1>3, <1>4, Induct
<1>6. PICK m \in Nat : \A i \in 1 .. Len(list) : list[i] <= m
  <2>1. Len(list) \in B
    BY <1>2, <1>5
  <2> QED
    BY <1>2, <2>1 DEF B
<1>7. \A x \in Z : x <= m
  BY <1>2, <1>6 DEF Contains
<1> DEFINE U == {l \in Nat : \A x \in Z : x <= l}
<1>8. U \in SUBSET Nat /\ U # {}
  BY <1>7
<1>9. PICK l : l = FirstOf(U)
  OBVIOUS
<1>10. l \in U /\ \A j \in U : l <= j
  <2> HIDE DEF U
  <2> QED
    BY <1>8, <1>9, FirstOfIs
<1>11. l \in Z
  <2>1. SUFFICES ASSUME l \notin Z PROVE FALSE
    OBVIOUS
  <2>2. PICK y : y \in Z
    OBVIOUS
  <2>3. l \in Nat /\ y \in Nat /\ y <= l /\ y # l
    BY <1>10, <2>1, <2>2
  <2>4. l - 1 \in Nat /\ ~ (l <= l - 1)
    BY <2>3
  <2>5. \A x \in Z : x <= l - 1
    BY <1>10, <2>1
  <2> QED
    BY <1>10, <2>4, <2>5
<1> QED
  BY <1>10, <1>11

LEMMA PrioritiesFinite == Priorities \subseteq Nat /\ IsFiniteSet(Priorities)
<1>1. Priorities \subseteq Nat
  BY TasksAssumption DEF Priorities
<1>2. IsFiniteSet(Priorities)
  <2>1. BasePrio \in Surjection(Tasks, Priorities)
    BY TasksAssumption DEF Surjection, Priorities
  <2> QED
    BY <2>1, TasksAssumption, FS_Surjection DEF ExistsSurjection
<1> QED
  BY <1>1, <1>2

\* The idle task is ready, so there is a highest priority in use.
LEMMA TopExists ==
  ASSUME NEW s, Sound(s), NEW p, p = CHOOSE p2 \in s.top : \A o \in s.top : o <= p2
  PROVE  p \in s.top
<1>1. s.top \in SUBSET Priorities /\ Bits(s, {})
  BY SoundTyped DEF Schedulers, Sound
<1>2. PICK q \in Priorities : Contains(s.ready[q].entries, Idle)
  BY IdleAssumption DEF Sound, Lists, InReady
<1>3. s.ready[q].entries # << >>
  BY <1>2 DEF Contains
<1>4. s.top # {}
  BY <1>1, <1>3 DEF Bits
<1>5. s.top \in SUBSET Nat /\ IsFiniteSet(s.top)
  BY <1>1, PrioritiesFinite, FS_Subset
<1>6. \E o \in s.top : \A q2 \in s.top : q2 <= o
  BY <1>4, <1>5, LargestExists
<1> QED
  BY <1>6

LEMMA SwitchContextSound ==
  ASSUME NEW s, Sound(s), NEW r, r = SwitchContext(s)
  PROVE  Sound(r) /\ r.prio = s.prio /\ r.held = s.held
<1>0. /\ s \in Schedulers /\ s.top \in SUBSET Priorities /\ s.ready \in Ready
      /\ AtPriority(s) /\ Bits(s, {})
  BY SoundTyped DEF Schedulers, Sound, Lists
<1>1. CASE s.locked > 0
  <2>1. r = [s EXCEPT !.missed = TRUE]
    BY <1>1 DEF SwitchContext
  <2> QED
    BY ONLY Sound(s), <2>1, MissedSound DEF Kept
<1>2. CASE ~ (s.locked > 0)
  <2>1. PICK p : p = CHOOSE k \in s.top : \A o \in s.top : o <= k
    OBVIOUS
  <2>2. p \in s.top
    BY <2>1, TopExists
  <2>3. p \in Priorities /\ s.ready[p].entries # << >> /\ s.ready[p] \in Rings
    BY <1>0, <2>2 DEF Bits, Ready
  <2>4. PICK x : x = RingNext(s.ready[p])
    OBVIOUS
  <2>5. x \in Rings /\ x.entries = s.ready[p].entries /\ x.entries[x.index] \in Tasks
    BY <2>3, <2>4, RingNextHas
  <2>6. PICK y, c : y = [s.ready EXCEPT ![p] = x] /\ c = x.entries[x.index]
    OBVIOUS
  <2>7. r = [s EXCEPT !.missed = FALSE, !.ready = y, !.current = c]
    BY <1>0, <1>2, <2>1, <2>4, <2>6 DEF SwitchContext, Schedulers
  <2>8. y \in Ready /\ \A q \in Priorities : y[q].entries = s.ready[q].entries
    BY <1>0, <2>3, <2>5, <2>6 DEF Ready
  <2>9. r \in Schedulers
    BY <1>0, <2>5, <2>6, <2>7, <2>8 DEF Schedulers
  <2>10. /\ r.ready = y /\ r.top = s.top /\ r.delayed = s.delayed /\ r.overflow = s.overflow
         /\ r.suspended = s.suspended /\ r.wake = s.wake /\ r.prio = s.prio /\ r.unblock = s.unblock
         /\ r.held = s.held
    BY <1>0, <2>7 DEF Schedulers
  <2>11. AtPriority(r)
    BY <1>0, <2>8, <2>10 DEF AtPriority
  <2>12. \A t \in Tasks : InReady(r, t) <=> InReady(s, t)
    BY <2>8, <2>10 DEF InReady
  <2>13. Lists(r, {})
    BY <2>9, <2>10, <2>11, <2>12, IdleAssumption DEF Sound, Lists, InOrder, Placed, Absent
  <2>14. Bits(r, {})
    BY <1>0, <2>8, <2>10 DEF Bits
  <2> QED
    BY <2>10, <2>13, <2>14 DEF Sound
<1> QED
  BY <1>1, <1>2

\* The scheduler as it starts: every task in the ready list of its priority.
LEMMA CreatedIs ==
  ASSUME NEW p \in Priorities
  PROVE  /\ Created(p) \in Seq(Tasks) /\ Once(Created(p)) /\ Created(p) # << >>
         /\ \A t : Contains(Created(p), t) <=> t \in Tasks /\ BasePrio[t] = p
<1>1. PICK Z, list : Z = {t \in Tasks : BasePrio[t] = p} /\ list = Created(p)
  OBVIOUS
<1>2. IsFiniteSet(Z) /\ Z \subseteq Tasks
  BY <1>1, TasksAssumption, FS_Subset
<1>3. list = SetToSeq(Z)
  BY <1>1 DEF Created
<1>4. list \in Seq(Z) /\ Once(list) /\ \A x : Contains(list, x) <=> x \in Z
  BY <1>2, <1>3, SetToSeqIs
<1>5. list \in Seq(Tasks)
  BY <1>2, <1>4
<1>6. \E t \in Tasks : t \in Z
  BY <1>1 DEF Priorities
<1>7. list # << >>
  BY <1>4, <1>5, <1>6, EmptyHasNone
<1> QED
  BY <1>1, <1>4, <1>5, <1>7

LEMMA InitSound == ASSUME Init PROVE Sound(os)
<1>1. PICK top : top = CHOOSE p \in Priorities : \A o \in Priorities : o <= p
  OBVIOUS
<1>2. top \in Priorities
  <2>1. Priorities # {}
    BY IdleAssumption DEF Priorities
  <2>2. \E p \in Priorities : \A o \in Priorities : o <= p
    BY <2>1, PrioritiesFinite, LargestExists
  <2> QED
    BY <1>1, <2>2
<1>3. PICK c : c = Last(Created(top))
  OBVIOUS
<1>4. c \in Tasks
  <2>1. PICK list : list = Created(top)
    OBVIOUS
  <2>2. list \in Seq(Tasks) /\ list # << >>
    BY <1>2, <2>1, CreatedIs
  <2>3. Len(list) \in 1 .. Len(list)
    BY <2>2
  <2> QED
    BY <1>3, <2>1, <2>2, <2>3 DEF Last
<1>5. PICK ready, event, zero : /\ ready = [p \in Priorities |-> [entries |-> Created(p), index |-> 0]]
                          /\ event = [l \in Queues \X {"receive", "send"} |-> << >>]
                          /\ zero = [t \in Tasks |-> 0]
  OBVIOUS
<1>6. ready \in Ready
  <2>1. ASSUME NEW p \in Priorities PROVE ready[p] \in Rings
    <3>1. PICK list : list = Created(p)
      OBVIOUS
    <3>2. list \in Seq(Tasks) /\ ready[p] = [entries |-> list, index |-> 0]
      BY <1>5, <3>1, CreatedIs
    <3>3. Len(list) \in Nat
      BY <3>2
    <3> QED
      BY <3>2, <3>3 DEF Rings, Ring
  <2> QED
    BY <1>5, <2>1 DEF Ready
<1>7. /\ event \in Events /\ zero \in Counts /\ zero \in Wakes /\ BasePrio \in Prios
      /\ FirstTick \in Nat /\ MaxDelay \in Nat /\ << >> \in Seq(Tasks)
  <2>1. BasePrio \in Prios
    BY TasksAssumption DEF Prios, Priorities
  <2> QED
    BY <1>5, <2>1, TasksAssumption, TickAssumption DEF Events, Counts, Wakes
<1>8. os = [current |-> c, prio |-> BasePrio, held |-> zero, wake |-> zero, ready |-> ready,
            top |-> Priorities, delayed |-> << >>, overflow |-> << >>, suspended |-> {},
            pending |-> << >>, event |-> event,
            tick |-> FirstTick, overflows |-> 0, pended |-> 0, unblock |-> MaxDelay,
            locked |-> 0, missed |-> FALSE]
  BY <1>1, <1>3, <1>5 DEF Init
<1>9. os \in Schedulers
  BY <1>4, <1>6, <1>7, <1>8 DEF Schedulers
<1>10. /\ os.ready = ready /\ os.top = Priorities /\ os.delayed = << >> /\ os.overflow = << >>
       /\ os.suspended = {} /\ os.wake = zero /\ os.prio = BasePrio
  BY <1>8
<1>11. \A p \in Priorities : os.ready[p].entries = Created(p)
  BY <1>5, <1>10
<1>12. AtPriority(os)
  BY <1>10, <1>11, CreatedIs DEF AtPriority
<1>13. InOrder(os)
  BY <1>10 DEF InOrder, Once, Sorted
<1>14. \A t \in Tasks : InReady(os, t)
  BY <1>11, CreatedIs DEF InReady, Priorities
<1>15. \A t \in Tasks : Placed(os, t)
  BY <1>10, <1>14 DEF Placed, Contains
<1>16. Bits(os, {})
  BY <1>10, <1>11, CreatedIs DEF Bits
<1> QED
  BY <1>9, <1>12, <1>13, <1>14, <1>15, <1>16, IdleAssumption DEF Sound, Lists

\* A sound scheduler's lists agree.
LEMMA SoundAgrees == ASSUME Sound(os) PROVE ListsAgree
<1>0. os \in Schedulers /\ AtPriority(os) /\ InOrder(os) /\ Bits(os, {}) /\ \A t \in Tasks : Placed(os, t)
  BY DEF Sound, Lists
<1>1. ASSUME NEW t \in Tasks PROVE Homes(t) = 1
  <2>1. Placed(os, t)
    BY <1>0
  <2>2. InReady(os, t) <=> \E p \in Priorities : Contains(os.ready[p].entries, t)
    BY DEF InReady
  <2> QED
    BY <2>1, <2>2 DEF Homes, Placed
<1>2. ASSUME NEW p \in Priorities, NEW i \in DOMAIN os.ready[p].entries
      PROVE  os.prio[os.ready[p].entries[i]] = p
  <2>1. PICK list : list = os.ready[p].entries
    OBVIOUS
  <2>2. list \in Seq(Tasks)
    <3>1. os.ready[p] \in Rings
      BY <1>0 DEF Schedulers, Ready
    <3> QED
      BY <2>1, <3>1 DEF Rings, Ring
  <2>3. list[i] \in Tasks /\ Contains(list, list[i])
    BY <1>2, <2>1, <2>2 DEF Contains
  <2> QED
    BY <1>0, <2>1, <2>3 DEF AtPriority
<1>3. os.top = {p \in Priorities : os.ready[p].entries # << >>}
  <2>1. os.top \in SUBSET Priorities
    BY <1>0 DEF Schedulers
  <2> QED
    BY <1>0, <2>1 DEF Bits
<1>4. os.delayed \in Seq(Tasks) /\ os.overflow \in Seq(Tasks)
  BY <1>0 DEF Schedulers
<1>5. \A list \in {os.delayed, os.overflow} : \A i, j \in DOMAIN list :
         i < j => os.wake[list[i]] <= os.wake[list[j]]
  BY <1>0, <1>4, SMTT(40) DEF InOrder, Sorted
<1>6. os.delayed # << >> => os.unblock <= os.wake[Head(os.delayed)]
  BY <1>0, <1>4 DEF InOrder
<1> QED
  BY <1>1, <1>2, <1>3, <1>5, <1>6 DEF ListsAgree

-----------------------------------------------------------------------------
(***************************************************************************)
(* The steps keep the lists sound.  What they need of the tasks: who waits *)
(* for a queue has called one, and the idle task calls nothing.            *)
(***************************************************************************)
InCall == {"suspendAll", "lock", "check", "test", "place", "unlockTx", "unlockRx", "retry"}

TaskSane(r) ==
    /\ r.ticks \in Int /\ r.entered \in Nat /\ r.lastWake \in Nat
    /\ r.at \in InCall \/ (r.at = "resumeAll" /\ r.fate \in {"wait", "again"}) =>
          r.call.op \in PutOps \cup GetOps
    /\ r.at = "delay" => r.fate = "delayed"
TasksSane == task[Idle].at = "run" /\ \A t \in Tasks : TaskSane(task[t])

QueueSane(r) == /\ r.tx \in Nat \cup {Unlocked} /\ r.rx \in Nat \cup {Unlocked}
                /\ r.holder \in Tasks \cup {NoTask}
QueuesSane == \A q \in Queues : QueueSane(queue[q])

LInv == IInv /\ Sound(os) /\ TasksSane /\ QueuesSane

\* Only another task than the idle task takes a step in a call.
LEMMA NotIdle ==
  ASSUME LInv, NEW t \in Tasks, TaskStep(t)
  PROVE  t \in Tasks \ {Idle} /\ os.current = t
<1>1. task[Idle].at = "run" /\ program \in Programs /\ program.calls[Idle] = {}
  BY ProgramsAssumption DEF LInv, IInv, TasksSane
<1>2. os.current = t
  BY ZenonT(60) DEF TaskStep, Call, Retry, SuspendScheduler, LockQueue, CheckForTimeOut, TestAgain, Place,
         UnlockTx, UnlockRx, ResumeScheduler, CallDelay, Delay, Suspend, ResetUnblock, Resume, Running
<1>3. task[t].at # "run" \/ program.calls[t] # {}
  BY DEF TaskStep, Call, Retry, SuspendScheduler, LockQueue, CheckForTimeOut, TestAgain, Place,
         UnlockTx, UnlockRx, ResumeScheduler, CallDelay, Delay, Suspend, ResetUnblock, Resume, Running
<1> QED
  BY <1>1, <1>2, <1>3

LEMMA RecordSane ==
  ASSUME CallsSound, TasksSane, NEW t \in Tasks \ {Idle}, NEW r, TaskSane(r), task' = [task EXCEPT ![t] = r]
  PROVE  TasksSane'
<1>1. task' = [u \in Tasks |-> IF u = t THEN r ELSE task[u]]
  BY DEF CallsSound
<1>2. task'[Idle] = task[Idle]
  BY <1>1, IdleAssumption
<1>3. \A u \in Tasks : TaskSane(task'[u])
  BY <1>1 DEF TasksSane
<1> QED
  BY <1>2, <1>3 DEF TasksSane

LEMMA ReturnSane ==
  ASSUME CallsSound, TasksSane, NEW t \in Tasks \ {Idle}, Return(t)
  PROVE  TasksSane'
<1>1. PICK r : r = Outside(task[t].lastWake)
  OBVIOUS
<1>2. TaskSane(r)
  <2>1. task[t].lastWake \in Nat
    BY DEF TasksSane, TaskSane
  <2> QED
    BY <1>1, <2>1 DEF Outside, TaskSane, InCall
<1>3. task' = [task EXCEPT ![t] = r]
  BY <1>1 DEF Return
<1> QED
  BY <1>2, <1>3, RecordSane

\* A task goes on in the same call.
LEMMA GoToSane ==
  ASSUME CallsSound, TasksSane, NEW t \in Tasks \ {Idle}, NEW at, GoTo(t, at),
         \/ at \in InCall /\ task[t].call.op \in PutOps \cup GetOps
         \/ at = "resumeAll" /\ (task[t].fate \in {"wait", "again"} => task[t].call.op \in PutOps \cup GetOps)
         \/ at \in {"run", "unblock"}
  PROVE  TasksSane'
<1>1. DOMAIN task[t] = TaskFields /\ TaskSane(task[t])
  BY DEF CallsSound, TasksSane
<1>2. PICK r : r = [task[t] EXCEPT !.at = at]
  OBVIOUS
<1>3. /\ r.at = at /\ r.ticks = task[t].ticks /\ r.entered = task[t].entered
      /\ r.lastWake = task[t].lastWake /\ r.call = task[t].call /\ r.fate = task[t].fate
  BY <1>1, <1>2 DEF TaskFields
<1>4. TaskSane(r)
  BY <1>1, <1>3 DEF TaskSane, InCall
<1>5. task' = [task EXCEPT ![t] = r]
  BY <1>2 DEF GoTo
<1> QED
  BY <1>4, <1>5, RecordSane

LEMMA QueueRecordSane ==
  ASSUME QueuesShaped, QueuesSane, NEW q \in Queues, NEW r, QueueSane(r), queue' = [queue EXCEPT ![q] = r]
  PROVE  QueuesSane'
<1>1. queue' = [u \in Queues |-> IF u = q THEN r ELSE queue[u]]
  BY DEF QueuesShaped
<1> QED
  BY <1>1 DEF QueuesSane

LEMMA CopyToSane ==
  ASSUME QueuesShaped, QueuesSane, NEW q \in Queues, NEW op, NEW x
  PROVE  /\ CopyTo(q, op, x).tx = queue[q].tx /\ CopyTo(q, op, x).rx = queue[q].rx
         /\ CopyTo(q, op, x).holder = NoTask
         /\ QueueSane(CopyTo(q, op, x))
<1>1. DOMAIN queue[q] = QueueFields /\ QueueSane(queue[q])
  BY DEF QueuesShaped, QueuesSane
<1>2. PICK y : y = CopyTo(q, op, x)
  OBVIOUS
<1>3. \E store : y = [queue[q] EXCEPT !.store = store, !.holder = NoTask]
  BY <1>2 DEF CopyTo
<1>4. y.tx = queue[q].tx /\ y.rx = queue[q].rx /\ y.holder = NoTask
  BY <1>1, <1>3 DEF QueueFields
<1> QED
  BY <1>1, <1>2, <1>4 DEF QueueSane

LEMMA EventNames ==
  ASSUME NEW q \in Queues
  PROVE  Receivers(q) \in Queues \X {"receive", "send"} /\ Senders(q) \in Queues \X {"receive", "send"}
BY DEF Receivers, Senders

LEMMA SendNowSane ==
  ASSUME LInv, NEW t \in Tasks \ {Idle}, NEW c, WellFormed(c), SendNow(t, c)
  PROVE  Sound(os)' /\ TasksSane' /\ QueuesSane'
<1>1. /\ CallsSound /\ QueuesShaped /\ TasksSane /\ QueuesSane /\ Sound(os)
      /\ c.op \in PutOps /\ c.q \in Queues /\ Return(t)
  BY DEF LInv, IInv, SendNow, WellFormed
<1>2. TasksSane'
  BY <1>1, ReturnSane
<1>3. QueuesSane'
  <2>1. PICK x, y : y = CopyTo(c.q, c.op, x) /\ queue' = [queue EXCEPT ![c.q] = y]
    BY DEF SendNow
  <2>2. QueueSane(y)
    BY <1>1, <2>1, CopyToSane
  <2> QED
    BY <1>1, <2>1, <2>2, QueueRecordSane
<1>4. PICK given : given = IF Gives(c.q, c.op) THEN Disinherit(os, queue[c.q].holder) ELSE os
  OBVIOUS
<1>5. Sound(given)
  <2>1. CASE Gives(c.q, c.op)
    <3>1. queue[c.q].holder \in Tasks
      BY <1>1, <2>1 DEF QueuesSane, QueueSane, Gives
    <3> QED
      BY <1>1, <1>4, <2>1, <3>1, DisinheritSound
  <2> QED
    BY <1>1, <1>4, <2>1
<1>6. os' = Wake(given, Receivers(c.q))
  BY <1>4 DEF SendNow
<1>7. Sound(os')
  BY <1>1, <1>5, <1>6, EventNames, WakeSound
<1> QED
  BY <1>2, <1>3, <1>7

LEMMA ReceiveNowSane ==
  ASSUME LInv, NEW t \in Tasks \ {Idle}, NEW c, WellFormed(c), ReceiveNow(t, c)
  PROVE  Sound(os)' /\ TasksSane' /\ QueuesSane'
<1>1. /\ CallsSound /\ QueuesShaped /\ TasksSane /\ QueuesSane /\ Sound(os)
      /\ c.q \in Queues /\ Return(t) /\ DOMAIN queue[c.q] = QueueFields /\ QueueSane(queue[c.q])
  BY DEF LInv, IInv, ReceiveNow, WellFormed, GetOps, QueuesShaped, QueuesSane
<1>2. TasksSane'
  BY <1>1, ReturnSane
<1>3. QueuesSane'
  <2>1. CASE c.q \in Mutexes
    <3>1. PICK r : r = [queue[c.q] EXCEPT !.store.waiting = @ - 1, !.holder = t]
      OBVIOUS
    <3>2. queue' = [queue EXCEPT ![c.q] = r]
      BY <2>1, <3>1 DEF ReceiveNow
    <3>3. r.tx = queue[c.q].tx /\ r.rx = queue[c.q].rx /\ r.holder = t
      BY <1>1, <3>1 DEF QueueFields
    <3>4. QueueSane(r)
      BY <1>1, <3>3 DEF QueueSane
    <3> QED
      BY <1>1, <3>2, <3>4, QueueRecordSane
  <2>2. CASE c.q \notin Mutexes
    <3>1. PICK r : r = [queue[c.q] EXCEPT !.store = S!Receive(@, Length[c.q])]
      OBVIOUS
    <3>2. queue' = [queue EXCEPT ![c.q] = r]
      BY <2>2, <3>1 DEF ReceiveNow
    <3>3. r.tx = queue[c.q].tx /\ r.rx = queue[c.q].rx /\ r.holder = queue[c.q].holder
      BY <1>1, <3>1 DEF QueueFields
    <3>4. QueueSane(r)
      BY <1>1, <3>3 DEF QueueSane
    <3> QED
      BY <1>1, <3>2, <3>4, QueueRecordSane
  <2> QED
    BY <2>1, <2>2
<1>4. PICK s : s = IF c.q \in Mutexes THEN [os EXCEPT !.held[t] = @ + 1] ELSE os
  OBVIOUS
<1>5. Sound(s)
  <2>1. CASE c.q \in Mutexes
    <3>1. PICK n : n = os.held[t] + 1
      OBVIOUS
    <3>2. n \in Int
      BY <1>1, <3>1, SoundTyped DEF Schedulers, Counts
    <3>3. s = WithHeld(os, t, n)
      BY <1>4, <2>1, <3>1 DEF WithHeld
    <3> QED
      BY <1>1, <3>2, <3>3, HeldSound
  <2> QED
    BY <1>1, <1>4, <2>1
<1>6. os' = Wake(s, Senders(c.q))
  BY <1>4 DEF ReceiveNow
<1>7. Sound(os')
  BY <1>1, <1>5, <1>6, EventNames, WakeSound
<1> QED
  BY <1>2, <1>3, <1>7

LEMMA PeekNowSane ==
  ASSUME LInv, NEW t \in Tasks \ {Idle}, NEW c, WellFormed(c), PeekNow(t, c)
  PROVE  Sound(os)' /\ TasksSane' /\ QueuesSane'
<1>1. /\ CallsSound /\ TasksSane /\ Sound(os) /\ QueuesSane
      /\ c.q \in Queues /\ Return(t) /\ UNCHANGED queue /\ os' = Wake(os, Receivers(c.q))
  BY DEF LInv, IInv, PeekNow, WellFormed, GetOps
<1>2. Sound(os')
  BY <1>1, EventNames, WakeSound
<1>3. TasksSane'
  BY <1>1, ReturnSane
<1> QED
  BY <1>1, <1>2, <1>3 DEF QueuesSane

LEMMA BlockSane ==
  ASSUME LInv, NEW t \in Tasks \ {Idle}, NEW c, NEW ticks \in Int, NEW first \in BOOLEAN,
         c.op \in PutOps \cup GetOps, ~ first => c = task[t].call, Block(t, c, ticks, first)
  PROVE  Sound(os)' /\ TasksSane' /\ QueuesSane'
<1>1. /\ CallsSound /\ TasksSane /\ Sound(os) /\ QueuesSane /\ UNCHANGED <<os, queue>>
      /\ task = [u \in Tasks |-> task[u]] /\ DOMAIN task[t] = TaskFields /\ TaskSane(task[t])
      /\ os.tick \in Nat
  BY SoundTyped DEF LInv, IInv, Block, CallsSound, TasksSane, Schedulers
<1>2. \E r : TaskSane(r) /\ task' = [task EXCEPT ![t] = r]
  <2>1. CASE first
    <3>1. PICK r : r = [task[t] EXCEPT !.at = "suspendAll", !.call = c, !.ticks = ticks,
                                       !.entered = os.tick, !.overflows = os.overflows,
                                       !.began = Now, !.fate = "none"]
      OBVIOUS
    <3>2. task' = [task EXCEPT ![t] = r]
      BY <1>1, <2>1, <3>1 DEF Block
    <3>3. /\ r.at = "suspendAll" /\ r.call = c /\ r.ticks = ticks /\ r.entered = os.tick
          /\ r.fate = "none" /\ r.lastWake = task[t].lastWake
      BY <1>1, <3>1 DEF TaskFields
    <3> QED
      BY <1>1, <3>2, <3>3 DEF TaskSane
  <2>2. CASE ~ first
    <3>1. PICK r : r = [task[t] EXCEPT !.at = "suspendAll"]
      OBVIOUS
    <3>2. task' = [task EXCEPT ![t] = r]
      BY <2>2, <3>1 DEF Block
    <3>3. /\ r.at = "suspendAll" /\ r.call = c /\ r.ticks = task[t].ticks
          /\ r.entered = task[t].entered /\ r.lastWake = task[t].lastWake
      BY <1>1, <2>2, <3>1 DEF TaskFields
    <3> QED
      BY <1>1, <3>2, <3>3 DEF TaskSane
  <2> QED
    BY <2>1, <2>2
<1>3. TasksSane'
  BY <1>1, <1>2, RecordSane
<1> QED
  BY <1>1, <1>3 DEF QueuesSane

LEMMA TurnSane ==
  ASSUME LInv, NEW t \in Tasks \ {Idle}, NEW c, NEW ticks \in Int, NEW first \in BOOLEAN, WellFormed(c),
         c.op \in PutOps \cup GetOps, ~ first => c = task[t].call, Turn(t, c, ticks, first)
  PROVE  Sound(os)' /\ TasksSane' /\ QueuesSane'
<1>1. CASE GiveUp(t, c, ticks)
  <2>1. CallsSound /\ TasksSane /\ Sound(os) /\ QueuesSane /\ Return(t) /\ UNCHANGED <<os, queue>>
    BY <1>1 DEF LInv, IInv, GiveUp
  <2>2. TasksSane'
    BY <2>1, ReturnSane
  <2> QED
    BY <2>1, <2>2 DEF QueuesSane
<1> QED
  BY <1>1, SendNowSane, ReceiveNowSane, PeekNowSane, BlockSane DEF Turn

\* Steps that leave the queues, or the scheduler, alone.
LEMMA OnlyTasks ==
  ASSUME LInv, TasksSane', UNCHANGED <<os, queue>>
  PROVE  Sound(os)' /\ TasksSane' /\ QueuesSane'
BY DEF LInv, QueuesSane

LEMMA NotQueues ==
  ASSUME LInv, TasksSane', Sound(os'), UNCHANGED queue
  PROVE  Sound(os)' /\ TasksSane' /\ QueuesSane'
BY DEF LInv, QueuesSane

\* What is known of a task that is in a call.
LEMMA CallIs ==
  ASSUME LInv, NEW t \in Tasks, task[t].at \in InCall
  PROVE  task[t].call.op \in PutOps \cup GetOps /\ task[t].call.q \in Queues
<1>1. task[t].call.op \in PutOps \cup GetOps /\ WellFormed(task[t].call)
  BY DEF LInv, TasksSane, TaskSane, IInv, CallsSound
<1> QED
  BY <1>1 DEF WellFormed

LEMMA SuspendSchedulerSane ==
  ASSUME LInv, NEW t \in Tasks \ {Idle}, SuspendScheduler(t)
  PROVE  Sound(os)' /\ TasksSane' /\ QueuesSane'
<1>1. /\ CallsSound /\ TasksSane /\ Sound(os) /\ os' = SuspendAll(os) /\ GoTo(t, "lock")
      /\ UNCHANGED queue /\ task[t].at \in InCall
  BY DEF LInv, IInv, SuspendScheduler, Running, InCall
<1>2. Sound(os')
  BY <1>1, SuspendAllSound
<1>3. TasksSane'
  <2>1. "lock" \in InCall
    BY DEF InCall
  <2> QED
    BY <1>1, <2>1, CallIs, GoToSane
<1> QED
  BY <1>1, <1>2, <1>3, NotQueues

LEMMA LockQueueSane ==
  ASSUME LInv, NEW t \in Tasks \ {Idle}, LockQueue(t)
  PROVE  Sound(os)' /\ TasksSane' /\ QueuesSane'
<1> DEFINE q == task[t].call.q
           lock(n) == IF n = Unlocked THEN 0 ELSE n
<1>1. /\ CallsSound /\ QueuesShaped /\ TasksSane /\ QueuesSane /\ Sound(os) /\ UNCHANGED os
      /\ GoTo(t, "check") /\ task[t].at \in InCall /\ "check" \in InCall
  BY DEF LInv, IInv, LockQueue, Running, InCall
<1>2. q \in Queues /\ TasksSane'
  BY <1>1, CallIs, GoToSane
<1>3. DOMAIN queue[q] = QueueFields /\ QueueSane(queue[q]) /\ queue = [u \in Queues |-> queue[u]]
  BY <1>1, <1>2 DEF QueuesShaped, QueuesSane
<1>4. PICK tx, rx : tx = lock(queue[q].tx) /\ rx = lock(queue[q].rx)
  OBVIOUS
<1>5. PICK r : r = [queue[q] EXCEPT !.tx = tx, !.rx = rx]
  BY Zenon
<1>6. queue' = [queue EXCEPT ![q] = r]
  <2>1. queue' = [queue EXCEPT ![q].tx = lock(@), ![q].rx = lock(@)]
    BY DEF LockQueue
  <2>2. [queue[q] EXCEPT !.tx = tx].rx = queue[q].rx
    BY <1>3 DEF QueueFields
  <2> QED
    BY <1>2, <1>3, <1>4, <1>5, <2>1, <2>2
<1>7. r.tx = tx /\ r.rx = rx /\ r.holder = queue[q].holder
  BY <1>3, <1>5 DEF QueueFields
<1>8. QueueSane(r)
  BY <1>3, <1>4, <1>7 DEF QueueSane
<1>9. QueuesSane'
  <2> HIDE DEF q
  <2> QED
    BY <1>1, <1>2, <1>6, <1>8, QueueRecordSane
<1> QED
  BY <1>1, <1>2, <1>9

LEMMA CheckForTimeOutSane ==
  ASSUME LInv, NEW t \in Tasks \ {Idle}, CheckForTimeOut(t)
  PROVE  Sound(os)' /\ TasksSane' /\ QueuesSane'
<1>1. /\ CallsSound /\ TasksSane /\ task = [u \in Tasks |-> task[u]] /\ UNCHANGED <<os, queue>>
      /\ DOMAIN task[t] = TaskFields /\ TaskSane(task[t]) /\ os.tick \in Nat
      /\ task[t].at \in InCall
  BY SoundTyped DEF LInv, IInv, CheckForTimeOut, CallsSound, TasksSane, Schedulers, Running, InCall
<1>2. task[t].call.op \in PutOps \cup GetOps
  BY <1>1, CallIs
<1>3. PICK n : n = task[t].ticks - Elapsed(t)
  OBVIOUS
<1>4. n \in Int
  <2>1. os.tick - task[t].entered \in Int /\ task[t].ticks \in Int
    BY <1>1 DEF TaskSane
  <2>2. Elapsed(t) \in Nat
    BY <2>1, TickModIs DEF Elapsed
  <2> QED
    BY <1>3, <2>1, <2>2
<1>5. PICK r1, r2, r3 : /\ r1 = [task[t] EXCEPT !.at = "unlockTx", !.fate = "fail"]
                        /\ r2 = [task[t] EXCEPT !.at = "test"]
                        /\ r3 = [task[t] EXCEPT !.at = "test", !.ticks = n,
                                   !.entered = os.tick, !.overflows = os.overflows]
  OBVIOUS
<1>6. \/ task' = [task EXCEPT ![t] = r1]
      \/ task' = [task EXCEPT ![t] = r2]
      \/ task' = [task EXCEPT ![t] = r3]
  <2>1. CASE TimedOut(t)
    <3>1. task' = [task EXCEPT ![t].at = "unlockTx", ![t].fate = "fail"]
      BY <2>1 DEF CheckForTimeOut
    <3> QED
      BY <1>1, <1>5, <3>1
  <2>2. CASE ~ TimedOut(t) /\ task[t].ticks = MaxDelay
    BY <1>5, <2>2 DEF CheckForTimeOut
  <2>3. CASE ~ TimedOut(t) /\ task[t].ticks # MaxDelay
    <3>1. task' = [task EXCEPT ![t].at = "test", ![t].ticks = task[t].ticks - Elapsed(t),
                              ![t].entered = os.tick, ![t].overflows = os.overflows]
      <4>1. [task EXCEPT ![t].at = "test"][t].ticks = task[t].ticks
        BY <1>1 DEF TaskFields
      <4> QED
        BY <2>3, <4>1 DEF CheckForTimeOut
    <3> QED
      BY <1>1, <1>3, <1>5, <3>1
  <2> QED
    BY <2>1, <2>2, <2>3
<1>7. TaskSane(r1)
  <2>1. /\ r1.at = "unlockTx" /\ r1.call = task[t].call /\ r1.ticks = task[t].ticks
        /\ r1.entered = task[t].entered /\ r1.lastWake = task[t].lastWake
    BY <1>1, <1>5 DEF TaskFields
  <2> QED
    BY <1>1, <1>2, <2>1 DEF TaskSane
<1>8. TaskSane(r2)
  <2>1. /\ r2.at = "test" /\ r2.call = task[t].call /\ r2.ticks = task[t].ticks
        /\ r2.entered = task[t].entered /\ r2.lastWake = task[t].lastWake
    BY <1>1, <1>5 DEF TaskFields
  <2> QED
    BY <1>1, <1>2, <2>1 DEF TaskSane
<1>9. TaskSane(r3)
  <2>1. /\ r3.at = "test" /\ r3.call = task[t].call /\ r3.ticks = n
        /\ r3.entered = os.tick /\ r3.lastWake = task[t].lastWake
    BY <1>1, <1>5 DEF TaskFields
  <2> QED
    BY <1>1, <1>2, <1>4, <2>1 DEF TaskSane
<1>10. TasksSane'
  BY <1>1, <1>6, <1>7, <1>8, <1>9, RecordSane
<1> QED
  BY <1>1, <1>10, OnlyTasks

LEMMA TestAgainSane ==
  ASSUME LInv, NEW t \in Tasks \ {Idle}, TestAgain(t)
  PROVE  Sound(os)' /\ TasksSane' /\ QueuesSane'
<1>1. /\ CallsSound /\ TasksSane /\ task = [u \in Tasks |-> task[u]] /\ UNCHANGED <<os, queue>>
      /\ DOMAIN task[t] = TaskFields /\ TaskSane(task[t]) /\ task[t].at \in InCall
  BY DEF LInv, IInv, TestAgain, CallsSound, TasksSane, Running, InCall
<1>2. task[t].call.op \in PutOps \cup GetOps
  BY <1>1, CallIs
<1>3. PICK at \in {"place", "unlockTx"} : \E f : task' = [task EXCEPT ![t].at = at, ![t].fate = f]
  BY DEF TestAgain
<1>0. PICK fate : task' = [task EXCEPT ![t].at = at, ![t].fate = fate]
  BY <1>3
<1>4. PICK r : r = [task[t] EXCEPT !.at = at, !.fate = fate]
  OBVIOUS
<1>5. task' = [task EXCEPT ![t] = r]
  BY <1>0, <1>1, <1>4
<1>6. /\ r.at = at /\ r.call = task[t].call /\ r.ticks = task[t].ticks
      /\ r.entered = task[t].entered /\ r.lastWake = task[t].lastWake
  BY <1>1, <1>4 DEF TaskFields
<1>7. TaskSane(r)
  BY <1>1, <1>2, <1>3, <1>6 DEF TaskSane
<1>8. TasksSane'
  BY <1>1, <1>5, <1>7, RecordSane
<1> QED
  BY <1>1, <1>8, OnlyTasks

LEMMA PlaceSane ==
  ASSUME LInv, NEW t \in Tasks \ {Idle}, os.current = t, Place(t)
  PROVE  Sound(os)' /\ TasksSane' /\ QueuesSane'
<1> DEFINE c == task[t].call
           h == queue[c.q].holder
<1>1. /\ CallsSound /\ TasksSane /\ QueuesSane /\ Sound(os) /\ UNCHANGED queue
      /\ GoTo(t, "unlockTx") /\ task[t].at \in InCall /\ "unlockTx" \in InCall
      /\ task[t].ticks \in Int
  BY DEF LInv, IInv, Place, TasksSane, TaskSane, Running, InCall
<1>2. c.q \in Queues /\ TasksSane'
  BY <1>1, CallIs, GoToSane
<1>3. PICK s, l : /\ s = (IF c.q \in Mutexes /\ c.op \in GetOps /\ h # NoTask THEN Inherit(os, h) ELSE os)
                  /\ l = (IF c.op \in PutOps THEN Senders(c.q) ELSE Receivers(c.q))
  OBVIOUS
<1>4. os' = PlaceOnEventList(s, l, task[t].ticks)
  BY <1>3 DEF Place
<1>5. Sound(s) /\ s.current = t
  <2>1. CASE s = os
    BY <1>1, <2>1
  <2>2. CASE s # os
    <3>1. s = Inherit(os, h) /\ h \in Tasks
      BY <1>1, <1>2, <1>3, <2>2 DEF QueuesSane, QueueSane
    <3> HIDE DEF h
    <3> QED
      BY <1>1, <3>1, InheritSound, ZenonT(60)
  <2> QED
    BY <2>1, <2>2
<1>6. l \in Queues \X {"receive", "send"}
  BY <1>2, <1>3, EventNames
<1>7. Sound(os')
  BY <1>1, <1>4, <1>5, <1>6, PlaceSound
<1> QED
  BY <1>1, <1>2, <1>7, NotQueues

LEMMA UnlockTxSane ==
  ASSUME LInv, NEW t \in Tasks \ {Idle}, UnlockTx(t)
  PROVE  Sound(os)' /\ TasksSane' /\ QueuesSane'
<1> DEFINE q == task[t].call.q
<1>1. /\ CallsSound /\ QueuesShaped /\ TasksSane /\ QueuesSane /\ Sound(os)
      /\ GoTo(t, "unlockRx") /\ task[t].at \in InCall /\ "unlockRx" \in InCall
  BY DEF LInv, IInv, UnlockTx, Running, InCall
<1>2. q \in Queues /\ TasksSane'
  BY <1>1, CallIs, GoToSane
<1>3. DOMAIN queue[q] = QueueFields /\ QueueSane(queue[q])
  BY <1>1, <1>2 DEF QueuesShaped, QueuesSane
<1>4. PICK r : r = [queue[q] EXCEPT !.tx = Unlocked]
  OBVIOUS
<1>5. queue' = [queue EXCEPT ![q] = r] /\ os' = WakeMany(os, Receivers(q), queue[q].tx)
  BY <1>4 DEF UnlockTx
<1>6. r.tx = Unlocked /\ r.rx = queue[q].rx /\ r.holder = queue[q].holder
  BY <1>3, <1>4 DEF QueueFields
<1>7. QueueSane(r) /\ queue[q].tx \in Nat \cup {Unlocked}
  BY <1>3, <1>6 DEF QueueSane
<1> HIDE DEF q
<1>8. QueuesSane'
  BY <1>1, <1>2, <1>5, <1>7, QueueRecordSane
<1>9. Sound(os')
  BY <1>1, <1>2, <1>5, <1>7, EventNames, WakeManySound
<1> QED
  BY <1>2, <1>8, <1>9

LEMMA UnlockRxSane ==
  ASSUME LInv, NEW t \in Tasks \ {Idle}, UnlockRx(t)
  PROVE  Sound(os)' /\ TasksSane' /\ QueuesSane'
<1> DEFINE q == task[t].call.q
<1>1. /\ CallsSound /\ QueuesShaped /\ TasksSane /\ QueuesSane /\ Sound(os)
      /\ GoTo(t, "resumeAll") /\ task[t].at \in InCall
  BY DEF LInv, IInv, UnlockRx, Running, InCall
<1>2. q \in Queues /\ TasksSane'
  BY <1>1, CallIs, GoToSane
<1>3. DOMAIN queue[q] = QueueFields /\ QueueSane(queue[q])
  BY <1>1, <1>2 DEF QueuesShaped, QueuesSane
<1>4. PICK r : r = [queue[q] EXCEPT !.rx = Unlocked]
  OBVIOUS
<1>5. queue' = [queue EXCEPT ![q] = r] /\ os' = WakeMany(os, Senders(q), queue[q].rx)
  BY <1>4 DEF UnlockRx
<1>6. r.tx = queue[q].tx /\ r.rx = Unlocked /\ r.holder = queue[q].holder
  BY <1>3, <1>4 DEF QueueFields
<1>7. QueueSane(r) /\ queue[q].rx \in Nat \cup {Unlocked}
  BY <1>3, <1>6 DEF QueueSane
<1> HIDE DEF q
<1>8. QueuesSane'
  BY <1>1, <1>2, <1>5, <1>7, QueueRecordSane
<1>9. Sound(os')
  BY <1>1, <1>2, <1>5, <1>7, EventNames, WakeManySound
<1> QED
  BY <1>2, <1>8, <1>9

LEMMA ResumeSchedulerSane ==
  ASSUME LInv, NEW t \in Tasks \ {Idle}, ResumeScheduler(t)
  PROVE  Sound(os)' /\ TasksSane' /\ QueuesSane'
<1>1. /\ CallsSound /\ TasksSane /\ Sound(os) /\ os' = ResumeAll(os) /\ UNCHANGED queue
      /\ task[t].at = "resumeAll" /\ TaskSane(task[t])
  BY DEF LInv, IInv, ResumeScheduler, Running, TasksSane
<1>2. Sound(os')
  BY <1>1, ResumeAllSound
<1>3. TasksSane'
  <2>1. CASE task[t].fate \in {"wait", "again"} /\ GoTo(t, "retry")
    <3>1. task[t].call.op \in PutOps \cup GetOps /\ "retry" \in InCall
      BY <1>1, <2>1 DEF TaskSane, InCall
    <3> QED
      BY <1>1, <2>1, <3>1, GoToSane
  <2>2. CASE GoTo(t, "run")
    BY <1>1, <2>2, GoToSane
  <2>3. CASE Return(t)
    BY <1>1, <2>3, ReturnSane
  <2> QED
    BY <2>1, <2>2, <2>3 DEF ResumeScheduler
<1> QED
  BY <1>1, <1>2, <1>3, NotQueues

LEMMA CallDelaySane ==
  ASSUME LInv, NEW t \in Tasks \ {Idle}, CallDelay(t)
  PROVE  Sound(os)' /\ TasksSane' /\ QueuesSane'
<1>1. /\ CallsSound /\ TasksSane /\ Sound(os) /\ UNCHANGED queue
      /\ task = [u \in Tasks |-> task[u]] /\ DOMAIN task[t] = TaskFields /\ TaskSane(task[t])
      /\ program \in Programs
  BY DEF LInv, IInv, CallDelay, CallsSound, TasksSane
<1>2. PICK c \in program.calls[t] :
         /\ c.op \in {"delay", "delayUntil"}
         /\ \/ UNCHANGED <<os, task>>
            \/ /\ os' = SuspendAll(os)
               /\ task' = [task EXCEPT ![t].at = "delay", ![t].call = c, ![t].began = Now,
                                       ![t].ticks = c.ticks, ![t].fate = "delayed"]
  BY DEF CallDelay
<1>3. CASE UNCHANGED <<os, task>>
  <2>1. TasksSane'
    BY <1>1, <1>3 DEF TasksSane
  <2> QED
    BY <1>1, <1>3, <2>1, OnlyTasks
<1>4. CASE /\ os' = SuspendAll(os)
           /\ task' = [task EXCEPT ![t].at = "delay", ![t].call = c, ![t].began = Now,
                                   ![t].ticks = c.ticks, ![t].fate = "delayed"]
  <2>1. PICK r : r = [task[t] EXCEPT !.at = "delay", !.call = c, !.began = Now,
                                     !.ticks = c.ticks, !.fate = "delayed"]
    OBVIOUS
  <2>2. task' = [task EXCEPT ![t] = r]
    BY <1>1, <1>4, <2>1
  <2>3. /\ r.at = "delay" /\ r.ticks = c.ticks /\ r.fate = "delayed"
        /\ r.entered = task[t].entered /\ r.lastWake = task[t].lastWake
    BY <1>1, <2>1 DEF TaskFields
  <2>4. c.ticks \in Int
    <3>1. WellFormed(c)
      BY <1>1, <1>2, ProgramsAssumption
    <3>2. c.ticks \in 0 .. MaxDelay
      BY <1>2, <3>1 DEF WellFormed
    <3> QED
      BY <3>2
  <2>5. TaskSane(r)
    BY <1>1, <2>3, <2>4 DEF TaskSane, InCall
  <2>6. TasksSane'
    BY <1>1, <2>2, <2>5, RecordSane
  <2>7. Sound(os')
    BY <1>1, <1>4, SuspendAllSound
  <2> QED
    BY <1>1, <2>6, <2>7, NotQueues
<1> QED
  BY <1>2, <1>3, <1>4

LEMMA DelaySane ==
  ASSUME LInv, NEW t \in Tasks \ {Idle}, os.current = t, Delay(t)
  PROVE  Sound(os)' /\ TasksSane' /\ QueuesSane'
<1>1. /\ CallsSound /\ TasksSane /\ Sound(os) /\ UNCHANGED queue
      /\ task = [u \in Tasks |-> task[u]] /\ DOMAIN task[t] = TaskFields /\ TaskSane(task[t])
      /\ task[t].at = "delay" /\ os.tick \in Nat
  BY SoundTyped DEF LInv, IInv, Delay, Running, CallsSound, TasksSane, Schedulers
<1>2. PICK w, x : w = WakeTime(t) /\ x = TakeFromReady(os, t)
  OBVIOUS
<1>3. w \in Nat
  <2>1. PICK n : n = (IF task[t].call.op = "delay" THEN os.tick ELSE task[t].lastWake) + task[t].ticks
    OBVIOUS
  <2>2. n \in Int
    BY <1>1, <2>1 DEF TaskSane
  <2> QED
    BY <1>2, <2>1, <2>2, TickModIs DEF WakeTime
<1>4. Sound(os')
  <2>1. Taken(x, t) /\ Same(x, os)
    BY <1>1, <1>2, TakeFromReadyTaken
  <2>2. x.current = t
    BY <2>1 DEF Same
  <2>3. os' = AddCurrentToDelayed(x, w) \/ os' = os
    BY <1>2 DEF Delay
  <2> QED
    BY <1>1, <1>3, <2>1, <2>2, <2>3, AddCurrentToDelayedSound
<1>5. PICK last \in Nat : task' = [task EXCEPT ![t].at = "resumeAll", ![t].lastWake = last]
  <2>1. task[t].lastWake \in Nat
    BY <1>1 DEF TaskSane
  <2>2. [task EXCEPT ![t].at = "resumeAll"][t].lastWake = task[t].lastWake
    BY <1>1 DEF TaskFields
  <2>3. PICK last : last = (IF task[t].call.op = "delay" THEN task[t].lastWake ELSE w)
    OBVIOUS
  <2>4. task' = [task EXCEPT ![t].at = "resumeAll", ![t].lastWake = last]
    BY <1>2, <2>2, <2>3 DEF Delay
  <2> QED
    BY <1>3, <2>1, <2>3, <2>4
<1>6. PICK r : r = [task[t] EXCEPT !.at = "resumeAll", !.lastWake = last]
  OBVIOUS
<1>7. task' = [task EXCEPT ![t] = r]
  BY <1>1, <1>5, <1>6
<1>8. /\ r.at = "resumeAll" /\ r.ticks = task[t].ticks /\ r.fate = task[t].fate
      /\ r.entered = task[t].entered /\ r.lastWake = last
  BY <1>1, <1>6 DEF TaskFields
<1>9. TaskSane(r)
  BY <1>1, <1>5, <1>8 DEF TaskSane, InCall
<1>10. TasksSane'
  BY <1>1, <1>7, <1>9, RecordSane
<1> QED
  BY <1>1, <1>4, <1>10, NotQueues

LEMMA SuspendSane ==
  ASSUME LInv, NEW t \in Tasks \ {Idle}, Suspend(t)
  PROVE  Sound(os)' /\ TasksSane' /\ QueuesSane'
<1>1. CallsSound /\ TasksSane /\ Sound(os) /\ UNCHANGED queue /\ program \in Programs
  BY DEF LInv, IInv, Suspend
<1>2. PICK c \in program.calls[t] :
         /\ c.op = "suspend"
         /\ os' = [RemoveEvent(TakeFromReady(os, c.q), c.q) EXCEPT !.suspended = @ \cup {c.q}]
         /\ IF c.q = t THEN UNCHANGED task ELSE GoTo(t, "unblock")
  BY DEF Suspend
<1>3. PICK u, x, y : u = c.q /\ x = TakeFromReady(os, u) /\ y = RemoveEvent(x, u)
  OBVIOUS
<1>4. u \in Tasks \ {Idle}
  BY <1>1, <1>2, <1>3, ProgramsAssumption DEF WellFormed
<1>5. Taken(x, u)
  BY <1>1, <1>3, <1>4, TakeFromReadyTaken
<1>6. y \in Schedulers /\ SameLists(y, x)
  BY <1>3, <1>5, RemoveEventIs DEF Taken, Lists
<1>7. Taken(y, u)
  BY <1>5, <1>6, SameListsKeep
<1>8. os' = [y EXCEPT !.suspended = @ \cup {u}]
  BY <1>2, <1>3
<1>9. Sound(os')
  BY <1>4, <1>7, <1>8, SuspendedSound
<1>10. TasksSane'
  <2>1. CASE UNCHANGED task
    BY <1>1, <2>1 DEF TasksSane
  <2>2. CASE GoTo(t, "unblock")
    BY <1>1, <2>2, GoToSane
  <2> QED
    BY <1>2, <2>1, <2>2
<1> QED
  BY <1>1, <1>9, <1>10, NotQueues

LEMMA ResetUnblockSane ==
  ASSUME LInv, NEW t \in Tasks \ {Idle}, ResetUnblock(t)
  PROVE  Sound(os)' /\ TasksSane' /\ QueuesSane'
<1>1. /\ CallsSound /\ TasksSane /\ Sound(os) /\ UNCHANGED queue /\ Return(t)
      /\ os' = ResetNextUnblock(os)
  BY DEF LInv, IInv, ResetUnblock
<1>2. Sound(os') /\ TasksSane'
  BY <1>1, SoundHoused, ResetNextUnblockSound, ReturnSane
<1> QED
  BY <1>1, <1>2, NotQueues

LEMMA ResumeSane ==
  ASSUME LInv, NEW t \in Tasks \ {Idle}, Resume(t)
  PROVE  Sound(os)' /\ TasksSane' /\ QueuesSane'
<1>1. /\ TasksSane /\ Sound(os) /\ UNCHANGED <<queue, task>> /\ program \in Programs
  BY DEF LInv, IInv, Resume
<1>2. PICK c \in program.calls[t] :
         /\ c.op = "resume"
         /\ os' = AddToReady(RemoveGeneric(os, c.q), c.q) \/ os' = os
  BY DEF Resume
<1>3. PICK u, x : u = c.q /\ x = RemoveGeneric(os, u)
  OBVIOUS
<1>4. u \in Tasks
  BY <1>1, <1>2, <1>3, ProgramsAssumption DEF WellFormed
<1>5. Loose(x, u)
  BY <1>1, <1>3, <1>4, RemoveGenericLoose
<1>6. Sound(os')
  BY <1>1, <1>2, <1>3, <1>4, <1>5, AddToReadySound
<1>7. TasksSane'
  BY <1>1 DEF TasksSane
<1> QED
  BY <1>1, <1>6, <1>7, NotQueues

LEMMA SendFromISRSane ==
  ASSUME LInv, SendFromISR
  PROVE  Sound(os)' /\ TasksSane' /\ QueuesSane'
<1>1. QueuesShaped /\ QueuesSane /\ TasksSane /\ Sound(os) /\ program \in Programs /\ UNCHANGED task
  BY DEF LInv, IInv, SendFromISR
<1>2. PICK c \in program.isr, x \in program.items :
         /\ c.op \in PutOps
         /\ queue' = [queue EXCEPT ![c.q] = [CopyTo(c.q, c.op, x) EXCEPT
                         !.tx = IF queue[c.q].tx # Unlocked THEN @ + 1 ELSE @]]
         /\ os' = os \/ os' = Wake(os, Receivers(c.q))
  BY DEF SendFromISR
<1>3. c.q \in Queues
  BY <1>1, <1>2, ProgramsAssumption DEF WellFormed
<1>4. PICK y, v, r : /\ y = CopyTo(c.q, c.op, x)
                     /\ v = (IF queue[c.q].tx # Unlocked THEN y.tx + 1 ELSE y.tx)
                     /\ r = [y EXCEPT !.tx = v]
  OBVIOUS
<1>5. /\ y.tx = queue[c.q].tx /\ y.rx = queue[c.q].rx /\ y.holder = NoTask
      /\ QueueSane(y) /\ DOMAIN y = QueueFields
  BY <1>1, <1>3, <1>4, CopyToSane, CopyToShape
<1>6. r.tx = v /\ r.rx = y.rx /\ r.holder = y.holder
  BY <1>4, <1>5 DEF QueueFields
<1>7. QueueSane(r)
  BY <1>4, <1>5, <1>6 DEF QueueSane
<1>8. queue' = [queue EXCEPT ![c.q] = r]
  BY <1>2, <1>4
<1>9. QueuesSane'
  BY <1>1, <1>3, <1>7, <1>8, QueueRecordSane
<1>10. Sound(os')
  BY <1>1, <1>2, <1>3, EventNames, WakeSound
<1>11. TasksSane'
  BY <1>1 DEF TasksSane
<1> QED
  BY <1>9, <1>10, <1>11

LEMMA ReceiveFromISRSane ==
  ASSUME LInv, ReceiveFromISR
  PROVE  Sound(os)' /\ TasksSane' /\ QueuesSane'
<1>1. QueuesShaped /\ QueuesSane /\ TasksSane /\ Sound(os) /\ program \in Programs /\ UNCHANGED task
  BY DEF LInv, IInv, ReceiveFromISR
<1>2. PICK c \in program.isr :
         /\ c.op = "receive"
         /\ queue' = [queue EXCEPT ![c.q].store = S!Receive(@, Length[c.q]),
                         ![c.q].rx = IF queue[c.q].rx # Unlocked THEN @ + 1 ELSE @]
         /\ os' = os \/ os' = Wake(os, Senders(c.q))
  BY DEF ReceiveFromISR
<1>3. c.q \in Queues
  BY <1>1, <1>2, ProgramsAssumption DEF WellFormed, GetOps
<1>4. DOMAIN queue[c.q] = QueueFields /\ QueueSane(queue[c.q]) /\ queue = [u \in Queues |-> queue[u]]
  BY <1>1, <1>3 DEF QueuesShaped, QueuesSane
<1>5. PICK v, r : /\ v = (IF queue[c.q].rx # Unlocked THEN queue[c.q].rx + 1 ELSE queue[c.q].rx)
                  /\ r = [queue[c.q] EXCEPT !.store = S!Receive(@, Length[c.q]), !.rx = v]
  OBVIOUS
<1>6. r.tx = queue[c.q].tx /\ r.rx = v /\ r.holder = queue[c.q].holder
  BY <1>4, <1>5 DEF QueueFields
<1>7. QueueSane(r)
  BY <1>4, <1>5, <1>6 DEF QueueSane
<1>8. queue' = [queue EXCEPT ![c.q] = r]
  <2>1. [queue[c.q] EXCEPT !.store = S!Receive(@, Length[c.q])].rx = queue[c.q].rx
    BY <1>4 DEF QueueFields
  <2> QED
    BY <1>2, <1>3, <1>4, <1>5, <2>1
<1>9. QueuesSane'
  BY <1>1, <1>3, <1>7, <1>8, QueueRecordSane
<1>10. Sound(os')
  BY <1>1, <1>2, <1>3, EventNames, WakeSound
<1>11. TasksSane'
  BY <1>1 DEF TasksSane
<1> QED
  BY <1>9, <1>10, <1>11

LEMMA TaskStepSane ==
  ASSUME LInv, NEW t \in Tasks, TaskStep(t)
  PROVE  Sound(os)' /\ TasksSane' /\ QueuesSane'
<1>0. t \in Tasks \ {Idle} /\ os.current = t
  BY NotIdle
<1>1. CASE Call(t)
  <2>1. PICK c \in program.calls[t] : c.op \in PutOps \cup GetOps /\ Turn(t, c, c.ticks, TRUE)
    BY <1>1 DEF Call
  <2>2. WellFormed(c)
    BY ProgramsAssumption DEF LInv, IInv
  <2>3. c.ticks \in 0 .. MaxDelay
    BY <2>1, <2>2 DEF WellFormed
  <2>4. c.ticks \in Int
    BY <2>3
  <2> QED
    BY <1>0, <2>1, <2>2, <2>4, TurnSane
<1>2. CASE Retry(t)
  <2>1. /\ WellFormed(task[t].call) /\ Turn(t, task[t].call, task[t].ticks, FALSE)
        /\ task[t].at \in InCall /\ task[t].ticks \in Int
    BY <1>2 DEF Retry, Running, InCall, LInv, IInv, CallsSound, TasksSane, TaskSane
  <2>2. task[t].call.op \in PutOps \cup GetOps
    BY <2>1, CallIs
  <2> QED
    BY <1>0, <2>1, <2>2, TurnSane
<1> QED
  BY <1>0, <1>1, <1>2, SuspendSchedulerSane, LockQueueSane, CheckForTimeOutSane, TestAgainSane,
     PlaceSane, UnlockTxSane, UnlockRxSane, ResumeSchedulerSane, CallDelaySane, DelaySane,
     SuspendSane, ResetUnblockSane, ResumeSane DEF TaskStep

LEMMA InitLInv == Init => LInv
<1> SUFFICES ASSUME Init PROVE LInv
  OBVIOUS
<1>1. IInv /\ Sound(os)
  BY InitIInv, InitSound
<1>2. TasksSane
  <2>1. task = [t \in Tasks |-> Outside(FirstTick)] /\ FirstTick \in Nat
    BY TickAssumption DEF Init
  <2> QED
    BY <2>1, IdleAssumption DEF TasksSane, TaskSane, Outside, InCall
<1>3. QueuesSane
  <2>1. queue = [q \in Queues |->
                   [store |-> [S!Reset(Length[q]) EXCEPT !.waiting = IF q \in Mutexes THEN 1 ELSE 0],
                    tx |-> Unlocked, rx |-> Unlocked, holder |-> NoTask]]
    BY DEF Init
  <2> QED
    BY <2>1 DEF QueuesSane, QueueSane
<1> QED
  BY <1>1, <1>2, <1>3 DEF LInv

LEMMA NextLInv == LInv /\ [Next]_vars => LInv'
<1> SUFFICES ASSUME LInv, [Next]_vars PROVE LInv'
  OBVIOUS
<1>1. IInv'
  BY NextIInv DEF LInv
<1>2. Sound(os)' /\ TasksSane' /\ QueuesSane'
  <2>1. CASE UNCHANGED vars
    BY <2>1 DEF vars, LInv, TasksSane, QueuesSane
  <2>2. CASE Tick
    <3>1. Sound(os') /\ UNCHANGED <<queue, task>>
      BY <2>2, IncrementTickSound DEF Tick, LInv
    <3>2. TasksSane'
      BY <3>1 DEF LInv, TasksSane
    <3> QED
      BY <3>1, <3>2, NotQueues
  <2>3. CASE PendSV
    <3>1. Sound(os') /\ UNCHANGED <<queue, task>>
      BY <2>3, SwitchContextSound DEF PendSV, LInv
    <3>2. TasksSane'
      BY <3>1 DEF LInv, TasksSane
    <3> QED
      BY <3>1, <3>2, NotQueues
  <2> QED
    BY <2>1, <2>2, <2>3, SendFromISRSane, ReceiveFromISRSane, TaskStepSane DEF Next
<1> QED
  BY <1>1, <1>2 DEF LInv

\* Whatever tasks and interrupts call, every task is in one list of the scheduler,
\* at its priority or in the order of the wake times, and the bit map and the
\* next unblock time are those of the lists.
THEOREM ListsAlwaysAgree == Spec => []ListsAgree
<1>1. LInv => ListsAgree
  BY SoundAgrees DEF LInv
<1> QED
  BY <1>1, InitLInv, NextLInv, PTL DEF Spec
-----------------------------------------------------------------------------
(***************************************************************************)
(* Who is ready, and who is in the lists of the queues.                    *)
(***************************************************************************)
EventLists == Queues \X {"receive", "send"}
Waits(s, t) == \E l \in EventLists : Contains(s.event[l], t)

\* A task waits for one queue at most, and is neither ready nor woken meanwhile.
Asleep(s) ==
    /\ Once(s.pending) /\ \A l \in EventLists : Once(s.event[l])
    /\ \A t \in Tasks : \A l, k \in EventLists :
          Contains(s.event[l], t) /\ Contains(s.event[k], t) => l = k
    /\ \A t \in Tasks : Contains(s.pending, t) => ~ Waits(s, t)
    /\ \A t \in Tasks : InReady(s, t) => ~ Waits(s, t) /\ ~ Contains(s.pending, t)

\* From s to r nobody begins to wait and nobody ceases to be ready.
Fewer(r, s) == \A l \in EventLists : \A t \in Tasks : Contains(r.event[l], t) => Contains(s.event[l], t)
Wakes1(r, s, t) == \A u \in Tasks : InReady(r, u) <=> u = t \/ InReady(s, u)
Drops1(r, s, t) == \A u \in Tasks : InReady(r, u) <=> u # t /\ InReady(s, u)
Rouses(r, s) == /\ Asleep(r) /\ Fewer(r, s)
                /\ \A t \in Tasks : InReady(s, t) => InReady(r, t)

\* The tasks in the lists of the queues and in pxPendingReadyList are as before, t excepted.
Frees(r, s, t) ==
    /\ Once(r.pending) /\ \A l \in EventLists : Once(r.event[l])
    /\ \A u \in Tasks : Contains(r.pending, u) <=> u # t /\ Contains(s.pending, u)
    /\ \A l \in EventLists : \A u \in Tasks : Contains(r.event[l], u) <=> u # t /\ Contains(s.event[l], u)

LEMMA RousesAgain ==
  ASSUME NEW r, NEW s, NEW x, Rouses(x, s), Rouses(r, x)
  PROVE  Rouses(r, s)
BY DEF Rouses, Fewer

LEMMA SameRouses ==
  ASSUME NEW r, NEW s, Asleep(s), r.event = s.event, r.pending = s.pending,
         \A t \in Tasks : InReady(r, t) <=> InReady(s, t)
  PROVE  Rouses(r, s)
BY DEF Rouses, Fewer, Asleep, Waits

LEMMA SameReady ==
  ASSUME NEW r, NEW s, r.ready = s.ready
  PROVE  \A t \in Tasks : InReady(r, t) <=> InReady(s, t)
BY DEF InReady

\* A task that is in no list of a queue any more may be ready.
LEMMA FreedRouses ==
  ASSUME NEW s, Asleep(s), NEW t \in Tasks, NEW r, Frees(r, s, t), Wakes1(r, s, t)
  PROVE  Rouses(r, s)
<1>1. \A u \in Tasks : Waits(r, u) => u # t /\ Waits(s, u)
  BY DEF Frees, Waits
<1>2. Asleep(r)
  BY <1>1 DEF Asleep, Frees, Wakes1
<1> QED
  BY <1>2 DEF Rouses, Fewer, Frees, Wakes1

LEMMA RemoveGenericDrops ==
  ASSUME NEW s, Sound(s), NEW t \in Tasks, NEW r, r = RemoveGeneric(s, t)
  PROVE  Drops1(r, s, t)
<1>0. s \in Schedulers /\ AtPriority(s) /\ InOrder(s)
  BY DEF Sound, Lists
<1>1. /\ r \in Schedulers
      /\ r.ready = [p \in Priorities |-> RingRemove(s.ready[p], t)]
      /\ r.delayed = Without(s.delayed, t) /\ r.overflow = Without(s.overflow, t)
      /\ r.suspended = s.suspended \ {t} /\ r.wake = [s.wake EXCEPT ![t] = 0]
      /\ r.current = s.current /\ r.prio = s.prio /\ r.held = s.held /\ r.top = s.top
      /\ r.pending = s.pending /\ r.event = s.event /\ r.tick = s.tick
      /\ r.unblock = s.unblock /\ r.locked = s.locked
  BY <1>0, RemoveGenericIs
<1>2. ASSUME NEW p \in Priorities PROVE Lacks(r.ready[p].entries, s.ready[p].entries, t)
  <2>1. s.ready[p] \in Rings /\ Once(s.ready[p].entries)
    BY <1>0 DEF AtPriority, Schedulers, Ready
  <2>2. r.ready[p] = RingRemove(s.ready[p], t)
    BY <1>1
  <2> QED
    BY <2>1, <2>2, RingRemoveHas
<1> QED
  BY <1>2 DEF Drops1, InReady, Lacks

LEMMA TakeFromReadyDrops ==
  ASSUME NEW s, Sound(s), NEW t \in Tasks, NEW r, r = TakeFromReady(s, t)
  PROVE  Drops1(r, s, t)
<1>1. PICK x : x = RemoveGeneric(s, t)
  OBVIOUS
<1>2. Drops1(x, s, t) /\ x \in Schedulers
  BY <1>1, RemoveGenericDrops, RemoveGenericLoose DEF Loose, Lists
<1>3. r = ResetReady(x, s.prio[t])
  BY <1>1 DEF TakeFromReady
<1>4. r.ready = x.ready
  BY <1>2, <1>3 DEF ResetReady, Schedulers
<1> QED
  BY <1>2, <1>4, SameReady DEF Drops1

LEMMA AddToReadyWakes ==
  ASSUME NEW s \in Schedulers, NEW t \in Tasks, NEW r, r = AddToReady(s, t)
  PROVE  Wakes1(r, s, t)
<1>1. /\ r.ready = [s.ready EXCEPT ![s.prio[t]] = RingInsertEnd(@, t)]
      /\ s.prio[t] \in Priorities /\ s.ready \in Ready
  BY DEF AddToReady, Schedulers, Prios
<1>2. PICK p, x : p = s.prio[t] /\ x = RingInsertEnd(s.ready[p], t)
  OBVIOUS
<1>3. p \in Priorities /\ s.ready[p] \in Rings
  BY <1>1, <1>2 DEF Ready
<1>4. Holds(x.entries, s.ready[p].entries, t)
  BY <1>2, <1>3, RingInsertEndHas
<1>5. \A q \in Priorities : r.ready[q] = IF q = p THEN x ELSE s.ready[q]
  BY <1>1, <1>2 DEF Ready
<1> QED
  BY <1>3, <1>4, <1>5 DEF Wakes1, InReady, Holds

LEMMA RemoveEventFrees ==
  ASSUME NEW s \in Schedulers, Once(s.pending), \A l \in EventLists : Once(s.event[l]),
         NEW t \in Tasks, NEW r, r = RemoveEvent(s, t)
  PROVE  Frees(r, s, t) /\ r.ready = s.ready
<1>1. /\ s.event \in Events /\ s.pending \in Seq(Tasks)
      /\ r.event = [l \in DOMAIN s.event |-> Without(s.event[l], t)]
      /\ r.pending = Without(s.pending, t) /\ r.ready = s.ready
  BY DEF RemoveEvent, Schedulers
<1>2. Lacks(r.pending, s.pending, t) /\ Once(r.pending)
  BY <1>1, WithoutHas
<1>3. ASSUME NEW l \in EventLists PROVE Lacks(r.event[l], s.event[l], t) /\ Once(r.event[l])
  <2>1. s.event[l] \in Seq(Tasks) /\ r.event[l] = Without(s.event[l], t)
    BY <1>1 DEF Events, EventLists
  <2> QED
    BY <2>1, WithoutHas
<1> QED
  BY <1>1, <1>2, <1>3 DEF Frees, Lacks

\* RemoveGeneric or RemoveEvent first.
LEMMA WakeUpRouses ==
  ASSUME NEW s, Sound(s), Asleep(s), NEW t \in Tasks, NEW r, r = WakeUp(s, t)
  PROVE  Rouses(r, s) /\ r.locked = s.locked
<1>1. PICK x, y : x = RemoveGeneric(s, t) /\ y = RemoveEvent(x, t)
  OBVIOUS
<1>2. Loose(x, t) /\ Same(x, s) /\ x.pending = s.pending /\ x.event = s.event /\ Drops1(x, s, t)
  BY <1>1, RemoveGenericLoose, RemoveGenericDrops
<1>3. x \in Schedulers /\ Once(x.pending) /\ \A l \in EventLists : Once(x.event[l])
  BY <1>2 DEF Loose, Lists, Asleep
<1>4. Frees(y, x, t) /\ y.ready = x.ready
  BY <1>1, <1>3, RemoveEventFrees
<1>5. y \in Schedulers /\ Same(y, x)
  BY <1>1, <1>3, RemoveEventIs
<1>6. r = AddToReady(y, t)
  BY <1>1 DEF WakeUp
<1>7. Wakes1(r, y, t) /\ r.pending = y.pending /\ r.event = y.event /\ Same(r, y)
  <2>1. Wakes1(r, y, t)
    BY <1>5, <1>6, AddToReadyWakes
  <2>2. r.pending = y.pending /\ r.event = y.event /\ Same(r, y)
    BY <1>5, <1>6 DEF AddToReady, Schedulers, Same
  <2> QED
    BY <2>1, <2>2
<1>8. Wakes1(r, s, t)
  BY <1>2, <1>4, <1>7, SameReady DEF Wakes1, Drops1
<1>9. Frees(r, s, t)
  BY <1>2, <1>4, <1>7 DEF Frees
<1>10. Rouses(r, s)
  BY <1>8, <1>9, FreedRouses
<1> QED
  BY <1>2, <1>5, <1>7, <1>10 DEF Same

LEMMA MovePendingRouses ==
  ASSUME NEW s, Sound(s), Asleep(s), NEW t \in Tasks, NEW r, r = MovePending(s, t)
  PROVE  Rouses(r, s) /\ r.locked = s.locked
<1>1. PICK x, y, z : x = RemoveEvent(s, t) /\ y = RemoveGeneric(x, t) /\ z = AddToReady(y, t)
  OBVIOUS
<1>2. Once(s.pending) /\ \A l \in EventLists : Once(s.event[l])
  BY DEF Asleep
<1>3. Frees(x, s, t) /\ x.ready = s.ready
  BY <1>1, <1>2, RemoveEventFrees, SoundTyped
<1>4. x \in Schedulers /\ SameLists(x, s) /\ Same(x, s)
  BY <1>1, RemoveEventIs, SoundTyped
<1>5. Sound(x)
  BY <1>4, SameListsKeep
<1>6. Loose(y, t) /\ Same(y, x) /\ y.pending = x.pending /\ y.event = x.event /\ Drops1(y, x, t)
  BY <1>1, <1>5, RemoveGenericLoose, RemoveGenericDrops
<1>7. y \in Schedulers
  BY <1>6 DEF Loose, Lists
<1>8. Wakes1(z, y, t) /\ z.pending = y.pending /\ z.event = y.event /\ Same(z, y) /\ z \in Schedulers
  <2>1. Wakes1(z, y, t)
    BY <1>1, <1>7, AddToReadyWakes
  <2>2. /\ z \in Schedulers
        /\ z.ready = [y.ready EXCEPT ![y.prio[t]] = RingInsertEnd(@, t)]
        /\ z.top = y.top \cup {y.prio[t]} /\ y.prio[t] \in Priorities
        /\ z.delayed = y.delayed /\ z.overflow = y.overflow
        /\ z.suspended = y.suspended /\ z.wake = y.wake
        /\ z.pending = y.pending /\ z.event = y.event /\ Same(z, y)
        /\ z.missed = y.missed
    BY <1>1, <1>7, AddToReadyIs
  <2> QED
    BY <2>1, <2>2
<1>9. r.ready = z.ready /\ r.pending = z.pending /\ r.event = z.event /\ r.locked = z.locked
  BY <1>1, <1>8 DEF MovePending, Schedulers
<1>10. Wakes1(r, s, t)
  BY <1>3, <1>6, <1>8, <1>9, SameReady DEF Wakes1, Drops1
<1>11. Frees(r, s, t)
  BY <1>3, <1>6, <1>8, <1>9 DEF Frees
<1>12. Rouses(r, s)
  BY <1>10, <1>11, FreedRouses
<1> QED
  BY <1>4, <1>6, <1>8, <1>9, <1>12 DEF Same

\* The first of the tasks that wait is freed, if there is one.
Woke(r, s, l) == s.event[l] # << >> => \E h \in Tasks : Contains(s.event[l], h) /\ ~ Contains(r.event[l], h)

LEMMA TailLacks ==
  ASSUME NEW T, NEW list \in Seq(T), list # << >>, Once(list), NEW r, r = Tail(list)
  PROVE  r \in Seq(T) /\ Once(r) /\ Lacks(r, list, Head(list)) /\ Head(list) \in T /\ Contains(list, Head(list))
<1>1. /\ Len(r) = Len(list) - 1 /\ Len(list) \in Nat \ {0} /\ r \in Seq(T)
      /\ \A i \in 1 .. Len(r) : r[i] = list[i + 1]
  OBVIOUS
<1>2. Head(list) = list[1] /\ 1 \in 1 .. Len(list) /\ list[1] \in T
  BY <1>1
<1>3. \A i \in 1 .. Len(r) : i + 1 \in 1 .. Len(list) /\ i + 1 # 1
  BY <1>1
<1>4. Once(r)
  BY <1>1, <1>3 DEF Once
<1>5. ASSUME NEW u, Contains(r, u) PROVE u # list[1] /\ Contains(list, u)
  <2>1. PICK i \in 1 .. Len(r) : r[i] = u
    BY <1>5 DEF Contains
  <2>2. list[i + 1] = u /\ i + 1 \in 1 .. Len(list) /\ i + 1 # 1
    BY <1>1, <1>3, <2>1
  <2> QED
    BY <1>2, <2>2 DEF Contains, Once
<1>6. ASSUME NEW u, u # list[1], Contains(list, u) PROVE Contains(r, u)
  <2>1. PICK i \in 1 .. Len(list) : list[i] = u
    BY <1>6 DEF Contains
  <2>2. i # 1
    BY <1>6, <2>1
  <2>3. i - 1 \in 1 .. Len(r) /\ (i - 1) + 1 = i
    BY <1>1, <2>2
  <2>4. r[i - 1] = u
    BY <1>1, <2>1, <2>3
  <2> QED
    BY <2>3, <2>4 DEF Contains
<1> QED
  BY <1>1, <1>2, <1>4, <1>5, <1>6 DEF Lacks, Contains

LEMMA RemoveFromEventListRouses ==
  ASSUME NEW s, Sound(s), Asleep(s), NEW l \in EventLists, s.event[l] # << >>,
         NEW r, r = RemoveFromEventList(s, l)
  PROVE  Rouses(r, s) /\ r.locked = s.locked /\ Woke(r, s, l)
<1>0. /\ s \in Schedulers /\ s.event[l] \in Seq(Tasks) /\ s.event \in Events
      /\ s.pending \in Seq(Tasks) /\ Once(s.event[l]) /\ s.missed \in BOOLEAN
  <2>1. s \in Schedulers
    BY SoundTyped
  <2>2. s.event \in Events /\ s.pending \in Seq(Tasks) /\ s.missed \in BOOLEAN
    BY <2>1 DEF Schedulers
  <2> QED
    BY <2>1, <2>2 DEF Events, EventLists, Asleep
<1>1. PICK t, e, b : t = Head(s.event[l]) /\ e = Tail(s.event[l]) /\ b = (s.missed \/ Outranks(s, l))
  OBVIOUS
<1>2. e \in Seq(Tasks) /\ Once(e) /\ Lacks(e, s.event[l], t) /\ t \in Tasks /\ Contains(s.event[l], t)
  BY <1>0, <1>1, TailLacks
<1>3. PICK y : y = [s EXCEPT !.event[l] = e, !.missed = b]
  OBVIOUS
<1>4. b \in BOOLEAN
  BY <1>1
<1>5. /\ y \in Schedulers /\ y.ready = s.ready /\ y.event = [s.event EXCEPT ![l] = e]
      /\ y.pending = s.pending /\ y.locked = s.locked /\ SameLists(y, s)
  <2>1. PICK f : f = [s.event EXCEPT ![l] = e]
    OBVIOUS
  <2>2. f \in Events
    BY <1>0, <1>2, <2>1 DEF Events, EventLists
  <2>3. y = [s EXCEPT !.event = f, !.missed = b]
    BY <1>0, <1>3, <2>1 DEF Schedulers
  <2> QED
    BY <1>0, <1>4, <2>1, <2>2, <2>3 DEF Schedulers, SameLists
<1>6. Sound(y)
  BY <1>5, SameListsKeep
<1>7. r = IF s.locked = 0 THEN AddToReady(RemoveGeneric(y, t), t) ELSE [y EXCEPT !.pending = Append(@, t)]
  <2>1. y = [s EXCEPT !.event[l] = Tail(@), !.missed = @ \/ Outranks(s, l)]
    BY <1>0, <1>1, <1>3 DEF Schedulers
  <2> QED
    BY <1>1, <2>1 DEF RemoveFromEventList
<1>8. \A k \in EventLists : y.event[k] = IF k = l THEN e ELSE s.event[k]
  BY <1>0, <1>5 DEF Events, EventLists
<1>9. \A k \in EventLists : Once(y.event[k])
  BY <1>2, <1>8 DEF Asleep
<1>10. ASSUME NEW k \in EventLists, NEW u \in Tasks
       PROVE  Contains(y.event[k], u) <=> u # t /\ Contains(s.event[k], u)
  <2>1. k # l => ~ Contains(s.event[k], t)
    BY <1>2 DEF Asleep
  <2> QED
    BY <1>2, <1>8, <2>1 DEF Lacks
<1>11. ~ Contains(s.pending, t) /\ ~ InReady(s, t) /\ Waits(s, t)
  BY <1>2 DEF Asleep, Waits
<1>12. CASE s.locked = 0
  <2>1. PICK z : z = RemoveGeneric(y, t)
    OBVIOUS
  <2>2. Loose(z, t) /\ Same(z, y) /\ z.pending = y.pending /\ z.event = y.event /\ Drops1(z, y, t)
    BY <1>2, <1>6, <2>1, RemoveGenericLoose, RemoveGenericDrops
  <2>3. r = AddToReady(z, t) /\ z \in Schedulers
    BY <1>7, <1>12, <2>1, <2>2 DEF Loose, Lists
  <2>4. Wakes1(r, z, t)
    BY <1>2, <2>3, AddToReadyWakes
  <2>5. r.event = z.event /\ r.pending = z.pending /\ r.locked = z.locked
    BY <2>3 DEF AddToReady, Schedulers
  <2>6. Wakes1(r, s, t)
    BY <1>5, <2>2, <2>4, SameReady DEF Wakes1, Drops1
  <2>7. Frees(r, s, t)
    BY <1>5, <1>9, <1>10, <1>11, <2>2, <2>5 DEF Frees, Asleep
  <2>8. Rouses(r, s)
    BY <1>2, <2>6, <2>7, FreedRouses
  <2>9. Woke(r, s, l)
    BY <1>2, <2>7 DEF Woke, Frees
  <2> QED
    BY <1>5, <2>2, <2>5, <2>8, <2>9 DEF Same
<1>13. CASE s.locked # 0
  <2>1. PICK p : p = Append(y.pending, t)
    OBVIOUS
  <2>2. Holds(p, s.pending, t) /\ Once(p)
    <3>1. y.pending \in Seq(Tasks) /\ Once(y.pending) /\ ~ Contains(y.pending, t)
      BY <1>0, <1>5, <1>11 DEF Asleep
    <3>2. PICK list : list = y.pending
      OBVIOUS
    <3>3. list \in Seq(Tasks) /\ p = Append(list, t)
      BY <2>1, <3>1, <3>2
    <3>4. Holds(p, list, t) /\ (Once(list) /\ ~ Contains(list, t) => Once(p))
      BY <1>2, <3>3, AppendIs
    <3> QED
      BY <1>5, <3>1, <3>2, <3>4
  <2>3. r.event = y.event /\ r.pending = p /\ r.ready = y.ready /\ r.locked = y.locked
    BY <1>5, <1>7, <1>13, <2>1 DEF Schedulers
  <2>4. \A u \in Tasks : InReady(r, u) <=> InReady(s, u)
    BY <1>5, <2>3, SameReady
  <2>5. \A u \in Tasks : Waits(r, u) <=> u # t /\ Waits(s, u)
    BY <1>10, <2>3 DEF Waits
  <2>6. Asleep(r)
    BY <1>9, <1>10, <1>11, <2>2, <2>3, <2>4, <2>5 DEF Asleep, Holds
  <2>7. Rouses(r, s)
    BY <1>10, <2>3, <2>4, <2>6 DEF Rouses, Fewer
  <2>8. Woke(r, s, l)
    BY <1>2, <1>10, <2>3 DEF Woke
  <2> QED
    BY <1>5, <2>3, <2>7, <2>8
<1> QED
  BY <1>12, <1>13

LEMMA WakeRouses ==
  ASSUME NEW s, Sound(s), Asleep(s), NEW l \in EventLists, NEW r, r = Wake(s, l)
  PROVE  Rouses(r, s) /\ r.locked = s.locked /\ Woke(r, s, l)
<1>1. CASE s.event[l] = << >>
  <2>1. r = s
    BY <1>1 DEF Wake
  <2> QED
    BY <1>1, <2>1, SameRouses DEF Woke
<1>2. CASE s.event[l] # << >>
  <2>1. r = RemoveFromEventList(s, l)
    BY <1>2 DEF Wake
  <2> QED
    BY <1>2, <2>1, RemoveFromEventListRouses
<1> QED
  BY <1>1, <1>2

LEMMA WakeOneRouses ==
  ASSUME NEW s, Sound(s), Asleep(s), NEW l \in EventLists, NEW r, r = WakeOne(s, l)
  PROVE  Rouses(r, s) /\ r.locked = s.locked /\ Woke(r, s, l)
<1>1. PICK x : x = Wake(s, l)
  OBVIOUS
<1>2. Rouses(x, s) /\ x.locked = s.locked /\ Woke(x, s, l) /\ x \in Schedulers
  <2>1. Sound(x)
    BY <1>1, WakeSound DEF EventLists
  <2> QED
    BY <1>1, <2>1, WakeRouses, SoundTyped
<1>3. CASE ~ WakesHigher(s, l)
  BY <1>1, <1>2, <1>3 DEF WakeOne
<1>4. CASE WakesHigher(s, l)
  <2>1. r = [x EXCEPT !.missed = TRUE]
    BY <1>1, <1>4 DEF WakeOne
  <2>2. r.ready = x.ready /\ r.event = x.event /\ r.pending = x.pending /\ r.locked = x.locked
    BY <1>2, <2>1 DEF Schedulers
  <2>3. Rouses(r, x)
    BY <1>2, <2>2, SameReady, SameRouses DEF Rouses
  <2>4. Rouses(r, s)
    BY <1>2, <2>3, RousesAgain
  <2>5. Woke(r, s, l)
    BY <1>2, <2>2 DEF Woke
  <2> QED
    BY <1>2, <2>2, <2>4, <2>5
<1> QED
  BY <1>3, <1>4

\* A recursion that reaches E[k] after k steps.
LEMMA RecursReach ==
  ASSUME NEW n \in Nat, NEW D, NEW base, NEW G \in [(1 .. n) \X D -> D], NEW it,
         Recurs(n, D, base, G, it), NEW E \in [0 .. n -> SUBSET D], base \in E[0],
         \A k \in 1 .. n : \A x \in E[k - 1] : G[<<k, x>>] \in E[k]
  PROVE  it[1 .. n] \in E[n]
  <1> DEFINE Z == {j \in Nat : j <= n => it[1 .. j] \in E[j]}
  <1>1. 0 \in Z
    <2>1. 1 .. 0 = {} OBVIOUS
    <2> QED BY <2>1 DEF Recurs
  <1>2. ASSUME NEW k \in 1 .. n, it[1 .. k - 1] \in E[k - 1] PROVE it[1 .. k] \in E[k]
    <2>1. Max(1 .. k) = k
      <3>1. 1 .. k \in SUBSET Nat /\ k \in 1 .. k /\ \A y \in 1 .. k : k >= y OBVIOUS
      <3> QED BY <3>1, MaxIs
    <2>2. (1 .. k) \ {k} = 1 .. k - 1 /\ k \in 1 .. k
      <3>1. k \in Nat OBVIOUS
      <3> QED BY <3>1
    <2>3. 1 .. k \in SUBSET (1 .. n) OBVIOUS
    <2>5. E[k - 1] \in SUBSET D
      <3>1. k - 1 \in 0 .. n OBVIOUS
      <3> QED BY <3>1
    <2>4. it[1 .. k] = G[<<k, it[1 .. k - 1]>>] BY <1>2, <2>1, <2>2, <2>3, <2>5 DEF Recurs
    <2> QED BY <1>2, <2>4
  <1>3. ASSUME NEW j \in Nat, j \in Z PROVE j + 1 \in Z
    <2>1. ASSUME j + 1 <= n PROVE it[1 .. j + 1] \in E[j + 1]
      <3>1. j + 1 \in 1 .. n /\ j + 1 - 1 = j /\ j <= n BY <2>1
      <3>2. it[1 .. j] \in E[j] BY <1>3, <3>1
      <3>3. it[1 .. (j + 1) - 1] \in E[(j + 1) - 1] BY <3>1, <3>2
      <3> QED BY <3>1, <3>3, <1>2
    <2> QED BY <2>1
  <1> HIDE DEF Z
  <1>4. n \in Z BY <1>1, <1>3, Induct
  <1> QED BY <1>4 DEF Z

LEMMA WakeManyReach ==
  ASSUME NEW D, NEW base, NEW m \in Nat, NEW l, \A x \in D : WakeOne(x, l) \in D,
         NEW E \in [0 .. m -> SUBSET D], base \in E[0],
         \A k \in 1 .. m : \A x \in E[k - 1] : WakeOne(x, l) \in E[k]
  PROVE  WakeMany(base, l, m) \in E[m]
  <1> DEFINE n == m
             G == [p \in (1 .. n) \X D |-> WakeOne(p[2], l)]
             F(iter) == [s \in SUBSET (1 .. n) |->
                           IF s = {} THEN base ELSE WakeOne(iter[s \ {Max(s)}], l)]
             it == CHOOSE iter : iter = F(iter)
  <1>1. n \in Nat /\ DOMAIN [i \in 1 .. m |-> i] = 1 .. n OBVIOUS
  <1>2. G \in [(1 .. n) \X D -> D] OBVIOUS
  <1>10. base \in D
    <2>1. 0 \in 0 .. m OBVIOUS
    <2> QED BY <2>1
  <1>3. ASSUME NEW s \in SUBSET (1 .. n), NEW f, f[s \ {Max(s)}] \in D, Max(s) \in s
        PROVE  G[<<Max(s), f[s \ {Max(s)}]>>] = WakeOne(f[s \ {Max(s)}], l)
    BY <1>3
  <1>4. PICK g : Iter(n, D, base, G, g)
    <2> HIDE DEF G, n
    <2> QED BY <1>1, <1>2, <1>10, IterExists
  <1>5. g = F(g)
    <2>1. ASSUME NEW s \in SUBSET (1 .. n), s # {} PROVE g[s] = WakeOne(g[s \ {Max(s)}], l)
      <3>1. Max(s) \in s /\ s \ {Max(s)} \in SUBSET (1 .. n) /\ g[s] = G[<<Max(s), g[s \ {Max(s)}]>>]
        BY <1>4, <2>1 DEF Iter
      <3>2. g[s \ {Max(s)}] \in D BY <1>4, <3>1 DEF Iter
      <3> HIDE DEF G, n
      <3> QED BY <3>1, <3>2, <1>3, <2>1
    <2> QED BY <1>4, <2>1 DEF Iter
  <1>6. it = F(it) BY <1>5
  <1>7. WakeMany(base, l, m) = it[1 .. n]
    BY <1>1 DEF FoldLeft, MapThenFoldSet, WakeMany, WakeOne
  <1> HIDE DEF it
  <1>8. Recurs(n, D, base, G, it)
    <2>1. it[{}] = base BY <1>6
    <2>2. ASSUME NEW s \in SUBSET (1 .. n), s # {}, it[s \ {Max(s)}] \in D
          PROVE  it[s] = G[<<Max(s), it[s \ {Max(s)}]>>]
      <3>1. it[s] = WakeOne(it[s \ {Max(s)}], l) BY <1>6, <2>2
      <3>2. Max(s) \in s BY <1>4, <2>2 DEF Iter
      <3> HIDE DEF G, n
      <3> QED BY <3>1, <3>2, <1>3, <2>2
    <2> HIDE DEF G, n
    <2> QED BY <2>1, <2>2 DEF Recurs
  <1>9. it[1 .. n] \in E[n]
    <2>1. ASSUME NEW k \in 1 .. n, NEW x \in E[k - 1] PROVE G[<<k, x>>] \in E[k]
      <3>1. k - 1 \in 0 .. m OBVIOUS
      <3>2. x \in D BY <3>1
      <3>3. G[<<k, x>>] = WakeOne(x, l) BY <3>2
      <3> QED BY <3>3
    <2>2. E \in [0 .. n -> SUBSET D] OBVIOUS
    <2> HIDE DEF G, n
    <2> QED BY <1>1, <1>2, <1>8, <2>1, <2>2, RecursReach
  <1> QED BY <1>7, <1>9

LEMMA WakeManyRouses ==
  ASSUME NEW s, Sound(s), Asleep(s), NEW l \in EventLists, NEW n \in Nat, NEW r, r = WakeMany(s, l, n)
  PROVE  /\ Rouses(r, s) /\ r.locked = s.locked
         /\ r.event[l] # << >> =>
               n <= Cardinality({u \in Tasks : Contains(s.event[l], u) /\ ~ Contains(r.event[l], u)})
<1> DEFINE Freed(x) == {u \in Tasks : Contains(s.event[l], u) /\ ~ Contains(x.event[l], u)}
           D == {x \in Schedulers : Sound(x) /\ Rouses(x, s) /\ x.locked = s.locked}
           E == [k \in 0 .. n |-> {x \in D : x.event[l] # << >> => k <= Cardinality(Freed(x))}]
<1>1. \A x : IsFiniteSet(Freed(x)) /\ Cardinality(Freed(x)) \in Nat
  <2>1. \A x : Freed(x) \subseteq Tasks
    OBVIOUS
  <2> HIDE DEF Freed
  <2> QED
    BY <2>1, TasksAssumption, FS_Subset, FS_CardinalityType
<1>2. s \in E[0]
  <2>1. s \in D
    BY SameRouses, SoundTyped
  <2>2. 0 <= Cardinality(Freed(s))
    BY <1>1
  <2> HIDE DEF D, Freed
  <2> QED
    BY <2>1, <2>2
<1>3. ASSUME NEW x \in D PROVE WakeOne(x, l) \in D /\ Rouses(WakeOne(x, l), x) /\ Woke(WakeOne(x, l), x, l)
  <2>1. PICK y : y = WakeOne(x, l)
    OBVIOUS
  <2>2. Sound(y) /\ y \in Schedulers
    BY <2>1, WakeOneSound, SoundTyped DEF EventLists
  <2>3. Rouses(y, x) /\ y.locked = x.locked /\ Woke(y, x, l)
    BY <2>1, WakeOneRouses DEF Rouses
  <2>4. Rouses(y, s)
    BY <2>3, RousesAgain
  <2> QED
    BY <2>1, <2>2, <2>3, <2>4
<1>4. ASSUME NEW k \in 1 .. n, NEW x \in E[k - 1] PROVE WakeOne(x, l) \in E[k]
  <2>1. PICK y : y = WakeOne(x, l)
    OBVIOUS
  <2>2. k - 1 \in 0 .. n /\ k \in 0 .. n
    OBVIOUS
  <2>3. x \in D /\ (x.event[l] # << >> => k - 1 <= Cardinality(Freed(x)))
    BY <2>2
  <2>4. y \in D /\ Rouses(y, x) /\ Woke(y, x, l)
    BY <1>3, <2>1, <2>3
  <2>5. ASSUME y.event[l] # << >> PROVE k <= Cardinality(Freed(y))
    <3>1. x.event[l] \in Seq(Tasks) /\ y.event[l] \in Seq(Tasks)
      <4>1. x.event \in Events /\ y.event \in Events
        BY <2>3, <2>4 DEF Schedulers
      <4> QED
        BY <4>1 DEF Events, EventLists
    <3>2. Contains(y.event[l], y.event[l][1]) /\ y.event[l][1] \in Tasks
      BY <2>5, <3>1, EmptyHasNone
    <3>3. Contains(x.event[l], y.event[l][1])
      BY <2>4, <3>2 DEF Rouses, Fewer
    <3>4. x.event[l] # << >>
      BY <3>1, <3>3, EmptyHasNone
    <3>5. PICK h \in Tasks : Contains(x.event[l], h) /\ ~ Contains(y.event[l], h)
      BY <2>4, <3>4 DEF Woke
    <3>6. Freed(x) \subseteq Freed(y)
      BY <2>4 DEF Rouses, Fewer
    <3>7. Contains(s.event[l], h)
      BY <2>3, <3>5 DEF Rouses, Fewer
    <3>8. h \in Freed(y) /\ h \notin Freed(x)
      BY <3>5, <3>7
    <3> HIDE DEF Freed
    <3>9. Cardinality(Freed(x) \cup {h}) = Cardinality(Freed(x)) + 1
      BY <1>1, <3>8, FS_AddElement
    <3>10. Cardinality(Freed(x) \cup {h}) <= Cardinality(Freed(y))
      BY <1>1, <3>6, <3>8, FS_Subset
    <3> QED
      BY <1>1, <2>3, <3>4, <3>9, <3>10
  <2> HIDE DEF D, Freed
  <2> QED
    BY <2>1, <2>2, <2>4, <2>5
<1>5. E \in [0 .. n -> SUBSET D]
  OBVIOUS
<1> HIDE DEF E, D
<1>6. WakeMany(s, l, n) \in E[n]
  BY <1>2, <1>3, <1>4, <1>5, WakeManyReach
<1>7. r \in D /\ (r.event[l] # << >> => n <= Cardinality(Freed(r)))
  BY <1>6 DEF E
<1> QED
  BY <1>7 DEF D

\* The ready lists and the lists of the queues are as they were.
SameWaits(r, s) ==
    r.ready = s.ready /\ r.event = s.event /\ r.pending = s.pending /\ r.locked = s.locked

LEMMA SameWaitsRouses ==
  ASSUME NEW r, NEW s, Asleep(s), SameWaits(r, s)
  PROVE  Rouses(r, s) /\ r.locked = s.locked
BY SameReady, SameRouses DEF SameWaits

LEMMA ReadyAt ==
  ASSUME NEW s, Sound(s), NEW t \in Tasks
  PROVE  s.prio[t] \in Priorities /\ (InReady(s, t) <=> Contains(s.ready[s.prio[t]].entries, t))
BY SoundTyped DEF Sound, Lists, AtPriority, InReady, Schedulers, Prios

LEMMA MovedRouses ==
  ASSUME NEW s, Sound(s), Asleep(s), NEW t \in Tasks, InReady(s, t), NEW p \in Priorities,
         NEW r, r = AddToReady([TakeFromReady(s, t) EXCEPT !.prio[t] = p], t)
  PROVE  Rouses(r, s) /\ r.locked = s.locked
<1>1. PICK x, y : x = TakeFromReady(s, t) /\ y = WithPrio(x, t, p)
  OBVIOUS
<1>2. Taken(x, t) /\ Same(x, s) /\ x.event = s.event /\ x.pending = s.pending /\ Drops1(x, s, t)
  BY <1>1, TakeFromReadyTaken, TakeFromReadyDrops
<1>3. Taken(y, t)
  BY ONLY t \in Tasks, p \in Priorities, <1>1, <1>2, PrioTaken
<1>4. x \in Schedulers /\ y \in Schedulers
  BY <1>2, <1>3 DEF Taken, Lists
<1>5. SameWaits(y, x)
  BY <1>1, <1>4 DEF WithPrio, Schedulers, SameWaits
<1>6. r = AddToReady(y, t)
  BY <1>1 DEF WithPrio
<1>7. Wakes1(r, y, t)
  BY <1>4, <1>6, AddToReadyWakes
<1>8. r.event = y.event /\ r.pending = y.pending /\ r.locked = y.locked
  BY <1>4, <1>6 DEF AddToReady, Schedulers
<1>9. \A u \in Tasks : InReady(r, u) <=> InReady(s, u)
  BY <1>2, <1>5, <1>7, SameReady DEF Wakes1, Drops1, SameWaits
<1>10. r.event = s.event /\ r.pending = s.pending /\ r.locked = s.locked
  BY <1>2, <1>5, <1>8 DEF SameWaits, Same
<1> QED
  BY <1>9, <1>10, SameRouses

LEMMA InheritRouses ==
  ASSUME NEW s, Sound(s), Asleep(s), NEW h \in Tasks, NEW r, r = Inherit(s, h)
  PROVE  Rouses(r, s) /\ r.locked = s.locked
<1>1. PICK p : p = s.prio[s.current]
  OBVIOUS
<1>2. s \in Schedulers /\ p \in Priorities
  BY <1>1, SoundTyped DEF Schedulers, Prios
<1>3. CASE r = s
  BY <1>3, SameRouses
<1>4. CASE r = WithPrio(s, h, p)
  <2>1. SameWaits(r, s)
    BY <1>2, <1>4 DEF WithPrio, Schedulers, SameWaits
  <2> QED
    BY <2>1, SameWaitsRouses
<1>5. CASE InReady(s, h) /\ r = AddToReady([TakeFromReady(s, h) EXCEPT !.prio[h] = p], h)
  BY <1>2, <1>5, MovedRouses
<1>6. r = s \/ r = WithPrio(s, h, p)
      \/ (Contains(s.ready[s.prio[h]].entries, h) /\ r = AddToReady([TakeFromReady(s, h) EXCEPT !.prio[h] = p], h))
  BY <1>1 DEF Inherit, WithPrio
<1> QED
  BY <1>3, <1>4, <1>5, <1>6, ReadyAt

\* A task that gives a mutex back is ready.
LEMMA DisinheritRouses ==
  ASSUME NEW s, Sound(s), Asleep(s), NEW h \in Tasks, InReady(s, h), NEW r, r = Disinherit(s, h)
  PROVE  Rouses(r, s) /\ r.locked = s.locked
<1>1. PICK n, x : n = s.held[h] - 1 /\ x = WithHeld(s, h, n)
  OBVIOUS
<1>2. n \in Int /\ s \in Schedulers
  BY <1>1, SoundTyped DEF Schedulers, Counts
<1>3. Sound(x)
  BY ONLY Sound(s), h \in Tasks, <1>1, <1>2, HeldSound
<1>4. SameWaits(x, s)
  BY <1>1, <1>2 DEF WithHeld, SameWaits, Schedulers
<1>5. Rouses(x, s) /\ x.locked = s.locked /\ InReady(x, h)
  BY <1>4, SameWaitsRouses, SameReady DEF SameWaits
<1>6. r = x \/ r = AddToReady([TakeFromReady(x, h) EXCEPT !.prio[h] = BasePrio[h]], h)
  BY <1>1 DEF Disinherit, WithHeld
<1>7. BasePrio[h] \in Priorities
  BY DEF Priorities
<1>8. CASE r = x
  BY <1>5, <1>8
<1>9. CASE r = AddToReady([TakeFromReady(x, h) EXCEPT !.prio[h] = BasePrio[h]], h)
  <2>1. Rouses(r, x) /\ r.locked = x.locked
    BY <1>3, <1>5, <1>7, <1>9, MovedRouses DEF Rouses
  <2> QED
    BY <1>5, <2>1, RousesAgain
<1> QED
  BY <1>6, <1>8, <1>9

LEMMA AddCurrentSameWaits ==
  ASSUME NEW s \in Schedulers, NEW w, NEW r, r = AddCurrentToDelayed(s, w)
  PROVE  SameWaits(r, s)
BY DEF AddCurrentToDelayed, Schedulers, SameWaits

\* The current task waits in l, and only it has moved.
LEMMA PlaceSleeps ==
  ASSUME NEW s, Sound(s), Asleep(s), InReady(s, s.current), NEW l \in EventLists, NEW ticks,
         NEW r, r = PlaceOnEventList(s, l, ticks)
  PROVE  /\ Asleep(r) /\ r.locked = s.locked /\ r.pending = s.pending
         /\ Drops1(r, s, s.current)
         /\ \A k \in EventLists : \A u \in Tasks :
               Contains(r.event[k], u) <=> Contains(s.event[k], u) \/ (k = l /\ u = s.current)
<1>1. PICK c, e, x, y : /\ c = s.current
                        /\ e = InsertSorted(s.event[l], c, {u \in Tasks : s.prio[u] < s.prio[c]})
                        /\ x = WithEvent(s, l, e) /\ y = TakeFromReady(x, c)
  OBVIOUS
<1>2. s \in Schedulers /\ c \in Tasks /\ s.event \in Events /\ s.event[l] \in Seq(Tasks)
  <2>1. s \in Schedulers
    BY SoundTyped
  <2>2. c \in Tasks /\ s.event \in Events
    BY <1>1, <2>1 DEF Schedulers
  <2> QED
    BY <2>1, <2>2 DEF Events, EventLists
<1>3. InReady(s, c) /\ ~ Waits(s, c) /\ ~ Contains(s.pending, c) /\ Once(s.event[l])
      /\ ~ Contains(s.event[l], c)
  BY <1>1, <1>2 DEF Asleep, Waits
<1>4. e \in Seq(Tasks) /\ Holds(e, s.event[l], c) /\ Once(e)
  <2>1. PICK list, after : list = s.event[l] /\ after = {u \in Tasks : s.prio[u] < s.prio[c]}
    OBVIOUS
  <2>2. list \in Seq(Tasks) /\ Once(list) /\ ~ Contains(list, c) /\ e = InsertSorted(list, c, after)
    BY <1>1, <1>2, <1>3, <2>1
  <2>3. e \in Seq(Tasks) /\ Holds(e, list, c) /\ (Once(list) /\ ~ Contains(list, c) => Once(e))
    <3>1. c \in Tasks
      BY <1>2
    <3> QED
      BY ONLY <2>2, <3>1, InsertSortedHas
  <2> QED
    BY <2>1, <2>2, <2>3
<1>5. Sound(x) /\ Same(x, s) /\ x.event = [s.event EXCEPT ![l] = e] /\ x.pending = s.pending
  <2>1. l \in Queues \X {"receive", "send"} /\ x = WithEvent(s, l, e) /\ e \in Seq(Tasks)
    BY <1>1, <1>4 DEF EventLists
  <2> QED
    BY ONLY Sound(s), <2>1, EventSound
<1>6. x.ready = s.ready
  BY <1>1, <1>2 DEF WithEvent, Schedulers
<1>7. Taken(y, c) /\ Same(y, x) /\ y.pending = x.pending /\ y.event = x.event /\ Drops1(y, x, c)
  BY <1>1, <1>2, <1>5, TakeFromReadyTaken, TakeFromReadyDrops
<1>8. y \in Schedulers
  BY <1>7 DEF Taken, Lists
<1>9. SameWaits(r, y)
  <2>1. r = (IF ticks = MaxDelay THEN [y EXCEPT !.suspended = @ \cup {c}]
                                ELSE AddCurrentToDelayed(y, (s.tick + ticks) % TickMod))
    BY <1>1 DEF PlaceOnEventList, WithEvent
  <2>2. CASE r = [y EXCEPT !.suspended = @ \cup {c}]
    BY <1>8, <2>2 DEF Schedulers, SameWaits
  <2>3. CASE r = AddCurrentToDelayed(y, (s.tick + ticks) % TickMod)
    BY <1>8, <2>3, AddCurrentSameWaits
  <2> QED
    BY <2>1, <2>2, <2>3
<1>10. r.event = [s.event EXCEPT ![l] = e] /\ r.pending = s.pending /\ r.locked = s.locked
  BY <1>5, <1>7, <1>9 DEF SameWaits, Same
<1>11. Drops1(r, s, c)
  BY <1>6, <1>7, <1>9, SameReady DEF SameWaits, Drops1
<1>12. \A k \in EventLists : r.event[k] = IF k = l THEN e ELSE s.event[k]
  BY <1>2, <1>10 DEF Events, EventLists
<1>13. \A k \in EventLists : \A u \in Tasks :
          Contains(r.event[k], u) <=> Contains(s.event[k], u) \/ (k = l /\ u = c)
  BY <1>4, <1>12 DEF Holds
<1>14. \A k \in EventLists : Once(r.event[k])
  BY <1>4, <1>12 DEF Asleep
<1>15. \A u \in Tasks : Waits(r, u) <=> Waits(s, u) \/ u = c
  BY <1>13 DEF Waits
<1>16. \A u \in Tasks : \A j, k \in EventLists : Contains(r.event[j], u) /\ Contains(r.event[k], u) => j = k
  BY <1>3, <1>13 DEF Asleep, Waits
<1>17. Asleep(r)
  BY <1>3, <1>10, <1>11, <1>14, <1>15, <1>16 DEF Asleep, Drops1
<1> QED
  BY <1>1, <1>10, <1>11, <1>13, <1>17

LEMMA ResetNextUnblockSameWaits ==
  ASSUME NEW s \in Schedulers, NEW r, r = ResetNextUnblock(s)
  PROVE  SameWaits(r, s)
BY DEF ResetNextUnblock, Schedulers, SameWaits

LEMMA TickedSameWaits ==
  ASSUME NEW s \in Schedulers, NEW r, r = Ticked(s)
  PROVE  SameWaits(r, s)
<1>1. PICK n, x, y : /\ n = (s.tick + 1) % TickMod /\ x = [s EXCEPT !.tick = n]
                     /\ y = [x EXCEPT !.delayed = x.overflow, !.overflow = x.delayed, !.overflows = @ + 1]
  OBVIOUS
<1>2. DOMAIN y = DOMAIN s /\ DOMAIN x = DOMAIN s /\ SameWaits(x, s) /\ SameWaits(y, x)
  BY <1>1 DEF Schedulers, SameWaits
<1>3. r = x \/ r = ResetNextUnblock(y)
  BY <1>1 DEF Ticked, SwitchDelayedLists
<1>4. CASE r = x
  BY <1>2, <1>4
<1>5. CASE r = ResetNextUnblock(y)
  <2>1. SameWaits(r, y)
    BY <1>2, <1>5 DEF ResetNextUnblock, SameWaits, Schedulers
  <2> QED
    BY <1>2, <2>1 DEF SameWaits
<1> QED
  BY <1>3, <1>4, <1>5

LEMMA IncrementTickRouses ==
  ASSUME NEW s, Sound(s), Asleep(s), NEW r, r = IncrementTick(s)
  PROVE  Rouses(r, s) /\ r.locked = s.locked
<1>0. s \in Schedulers
  BY SoundTyped
<1>1. CASE s.locked > 0
  <2>1. SameWaits(r, s)
    BY <1>0, <1>1 DEF IncrementTick, Schedulers, SameWaits
  <2> QED
    BY <2>1, SameWaitsRouses
<1>2. CASE ~ (s.locked > 0)
  <2>1. PICK x, list : x = Ticked(s) /\ list = Due(x)
    OBVIOUS
  <2>2. Sound(x) /\ SameWaits(x, s) /\ x \in Schedulers
    BY <1>0, <2>1, TickedSound, TickedSameWaits, SoundTyped
  <2>3. list \in Seq(Tasks)
    BY <2>1, <2>2, DueIsSeq
  <2> DEFINE D == {y \in Schedulers : Sound(y) /\ Rouses(y, s) /\ y.locked = s.locked}
  <2>4. x \in D
    BY <2>2, SameWaitsRouses
  <2>5. ASSUME NEW y \in D, NEW i \in 1 .. Len(list) PROVE WakeUp(y, list[i]) \in D
    <3>1. PICK z, t : t = list[i] /\ z = WakeUp(y, t)
      OBVIOUS
    <3>2. t \in Tasks
      BY <2>3, <3>1
    <3>3. Sound(z) /\ z \in Schedulers
      BY <3>1, <3>2, WakeUpSound, SoundTyped
    <3>4. Rouses(z, y) /\ z.locked = y.locked
      BY <3>1, <3>2, WakeUpRouses DEF Rouses
    <3>5. Rouses(z, s)
      BY <3>4, RousesAgain
    <3> QED
      BY <3>1, <3>3, <3>4, <3>5
  <2> HIDE DEF D
  <2>6. PICK y : y = FoldLeft(WakeUp, x, list)
    OBVIOUS
  <2>7. y \in D
    BY <2>3, <2>4, <2>5, <2>6, WakeUpFold
  <2>8. y \in Schedulers /\ Rouses(y, s) /\ y.locked = s.locked
    BY <2>7 DEF D
  <2>9. r = y \/ r = ResetNextUnblock(y)
    BY <1>2, <2>1, <2>6 DEF IncrementTick
  <2>10. CASE r = y
    BY <2>8, <2>10
  <2>11. CASE r = ResetNextUnblock(y)
    <3>1. Rouses(r, y) /\ r.locked = y.locked
      BY <2>8, <2>11, ResetNextUnblockSameWaits, SameWaitsRouses DEF Rouses
    <3> QED
      BY <2>8, <3>1, RousesAgain
  <2> QED
    BY <2>9, <2>10, <2>11
<1> QED
  BY <1>1, <1>2

LEMMA ReplayTickRouses ==
  ASSUME NEW s, Sound(s), Asleep(s), NEW i, NEW r, r = ReplayTick(s, i)
  PROVE  Rouses(r, s) /\ r.locked = s.locked
<1>1. PICK x, b : x = IncrementTick(s) /\ b = SwitchAfterTick(s)
  OBVIOUS
<1>2. Rouses(x, s) /\ x.locked = s.locked /\ x \in Schedulers
  BY <1>1, IncrementTickRouses, IncrementTickSound, SoundTyped
<1>3. r = [x EXCEPT !.missed = b]
  BY <1>1 DEF ReplayTick
<1>4. SameWaits(r, x)
  BY <1>2, <1>3 DEF Schedulers, SameWaits
<1>5. Rouses(r, x) /\ r.locked = x.locked
  BY <1>2, <1>4, SameWaitsRouses DEF Rouses
<1> QED
  BY <1>2, <1>5, RousesAgain

LEMMA LockedRouses ==
  ASSUME NEW s, Sound(s), Asleep(s), NEW n, NEW r, r = [s EXCEPT !.locked = n]
  PROVE  Rouses(r, s) /\ r.locked = n
<1>1. /\ r.ready = s.ready /\ r.event = s.event /\ r.pending = s.pending /\ r.locked = n
  BY SoundTyped DEF Schedulers
<1> QED
  BY <1>1, SameReady, SameRouses

LEMMA ResumeAllRouses ==
  ASSUME NEW s, Sound(s), Asleep(s), NEW r, r = ResumeAll(s)
  PROVE  Rouses(r, s) /\ r.locked = s.locked - 1
<1>0. s.pending \in Seq(Tasks) /\ s.pended \in Nat /\ s.locked \in Int
  BY SoundTyped DEF Schedulers
<1>1. PICK n, x : n = s.locked - 1 /\ x = [s EXCEPT !.locked = n]
  OBVIOUS
<1>2. n \in Int
  BY <1>0, <1>1
<1>3. Sound(x)
  BY ONLY Sound(s), <1>1, <1>2, LockedSound
<1>4. Rouses(x, s) /\ x.locked = n
  BY <1>1, LockedRouses
<1> DEFINE D == {y \in Schedulers : Sound(y) /\ Rouses(y, s) /\ y.locked = n}
<1>5. PICK list, ticks : list = s.pending /\ ticks = [i \in 1 .. s.pended |-> i]
  OBVIOUS
<1>6. list \in Seq(Tasks) /\ ticks \in Seq(Nat) /\ x \in D
  BY <1>0, <1>3, <1>4, <1>5, SoundTyped
<1>7. ASSUME NEW y \in D, NEW i \in 1 .. Len(list) PROVE MovePending(y, list[i]) \in D
  <2>1. PICK z, t : t = list[i] /\ z = MovePending(y, t)
    OBVIOUS
  <2>2. t \in Tasks
    BY <1>6, <2>1
  <2>3. Sound(z) /\ z \in Schedulers
    BY <2>1, <2>2, MovePendingSound, SoundTyped
  <2>4. Rouses(z, y) /\ z.locked = y.locked
    BY <2>1, <2>2, MovePendingRouses DEF Rouses
  <2>5. Rouses(z, s)
    BY <2>4, RousesAgain
  <2> QED
    BY <2>1, <2>3, <2>4, <2>5
<1>8. ASSUME NEW y \in D, NEW i \in 1 .. Len(ticks) PROVE ReplayTick(y, ticks[i]) \in D
  <2>1. PICK z, t : t = ticks[i] /\ z = ReplayTick(y, t)
    OBVIOUS
  <2>3. Sound(z) /\ z \in Schedulers
    BY <2>1, ReplayTickSound, SoundTyped
  <2>4. Rouses(z, y) /\ z.locked = y.locked
    BY <2>1, ReplayTickRouses DEF Rouses
  <2>5. Rouses(z, s)
    BY <2>4, RousesAgain
  <2> QED
    BY <2>1, <2>3, <2>4, <2>5
<1> HIDE DEF D
<1>9. PICK y, z : y = FoldLeft(MovePending, x, list) /\ z = FoldLeft(ReplayTick, y, ticks)
  OBVIOUS
<1>10. y \in D
  BY <1>6, <1>7, <1>9, MovePendingFold
<1>11. z \in D
  BY <1>6, <1>8, <1>9, <1>10, ReplayTickFold
<1>12. z \in Schedulers /\ Rouses(z, s) /\ z.locked = n
  BY <1>11 DEF D
<1>13. [s EXCEPT !.locked = @ - 1] = x
  BY <1>1
<1>14. r = x \/ r = [z EXCEPT !.pended = 0]
  BY <1>5, <1>9, <1>13 DEF ResumeAll
<1>15. CASE r = x
  BY <1>1, <1>4, <1>15
<1>16. CASE r = [z EXCEPT !.pended = 0]
  <2>1. SameWaits(r, z)
    BY <1>12, <1>16 DEF Schedulers, SameWaits
  <2>2. Rouses(r, z) /\ r.locked = z.locked
    BY <1>12, <2>1, SameWaitsRouses DEF Rouses
  <2> QED
    BY <1>1, <1>12, <2>2, RousesAgain
<1> QED
  BY <1>14, <1>15, <1>16

\* Who is switched to is ready.
LEMMA SwitchContextRouses ==
  ASSUME NEW s, Sound(s), Asleep(s), NEW r, r = SwitchContext(s)
  PROVE  /\ Rouses(r, s) /\ r.locked = s.locked
         /\ IF s.locked > 0 THEN r.current = s.current ELSE InReady(r, r.current)
<1>0. /\ s \in Schedulers /\ s.top \in SUBSET Priorities /\ s.ready \in Ready
      /\ AtPriority(s) /\ Bits(s, {})
  BY SoundTyped, SMTT(40) DEF Schedulers, Sound, Lists
<1>1. CASE s.locked > 0
  <2>1. r = [s EXCEPT !.missed = TRUE]
    BY <1>1 DEF SwitchContext
  <2>2. SameWaits(r, s) /\ r.current = s.current
    BY <1>0, <2>1 DEF SameWaits, Schedulers
  <2> QED
    BY <1>1, <2>2, SameWaitsRouses
<1>2. CASE ~ (s.locked > 0)
  <2>1. PICK p : p = CHOOSE k \in s.top : \A o \in s.top : o <= k
    OBVIOUS
  <2>2. p \in s.top
    BY <1>0, <2>1, TopExists
  <2>3. p \in Priorities /\ s.ready[p].entries # << >> /\ s.ready[p] \in Rings
    BY <1>0, <2>2 DEF Bits, Ready
  <2>4. PICK x, c : x = RingNext(s.ready[p]) /\ c = x.entries[x.index]
    OBVIOUS
  <2>5. x \in Rings /\ x.entries = s.ready[p].entries /\ x.index \in 1 .. Len(x.entries)
    BY <2>3, <2>4, RingNextHas
  <2>6. PICK y : y = [s.ready EXCEPT ![p] = x]
    OBVIOUS
  <2>7. r = [s EXCEPT !.missed = FALSE, !.ready = y, !.current = c]
    BY <1>0, <1>2, <2>1, <2>4, <2>6 DEF SwitchContext, Schedulers
  <2>8. \A q \in Priorities : y[q].entries = s.ready[q].entries
    BY <1>0, <2>3, <2>5, <2>6 DEF Ready
  <2>9. /\ r.ready = y /\ r.event = s.event /\ r.pending = s.pending /\ r.locked = s.locked
        /\ r.current = c
    BY <1>0, <2>7 DEF Schedulers
  <2>10. \A t \in Tasks : InReady(r, t) <=> InReady(s, t)
    BY <2>8, <2>9 DEF InReady
  <2>11. Rouses(r, s)
    BY <2>9, <2>10, SameRouses
  <2>12. Contains(x.entries, c)
    BY <2>4, <2>5 DEF Contains
  <2>13. InReady(r, c)
    BY <2>3, <2>5, <2>8, <2>9, <2>12 DEF InReady
  <2> QED
    BY <1>2, <2>9, <2>11, <2>13
<1> QED
  BY <1>1, <1>2

-----------------------------------------------------------------------------
(***************************************************************************)
(* Nobody sleeps while there is something for him.  What the steps need:   *)
(* one task at most is between vTaskSuspendAll and xTaskResumeAll, the one *)
(* that runs; it is ready unless it has just left the ready lists; who     *)
(* waits for a queue is in a call that blocks on it.                       *)
(***************************************************************************)
Within == {"lock", "check", "test", "place", "unlockTx", "unlockRx", "resumeAll", "delay"}
Left(r) == r.at \in {"unlockTx", "unlockRx", "resumeAll"} /\ r.fate \in {"wait", "delayed"}
Sleeping(r) == r.at \in {"unlockTx", "unlockRx", "resumeAll", "retry"} /\ r.fate = "wait"
For(r) == <<r.call.q, IF r.call.op \in PutOps THEN "send" ELSE "receive">>

OneWithin ==
    /\ os.locked = IF task[os.current].at \in Within THEN 1 ELSE 0
    /\ \A t \in Tasks \ {os.current} : task[t].at \notin Within
RunnerReady == (os.locked > 0 \/ ~ pendSV) /\ ~ Left(task[os.current]) => InReady(os, os.current)

\* What waits in a queue less what the lock will still announce: the tasks that
\* must be on their way.
Surplus(qu, l) ==
    IF l[2] = "receive" THEN qu[l[1]].store.waiting - AtLeast0(qu[l[1]].tx)
    ELSE Length[l[1]] - qu[l[1]].store.waiting - AtLeast0(qu[l[1]].rx)

\* The operation of a call can block; the queue is locked; before a task goes to
\* sleep there is nothing for it.
CallSane(r, qu) ==
    /\ r.at \in InCall \/ (r.at = "resumeAll" /\ r.fate \in {"wait", "again"}) =>
          /\ r.call.op \in {"back", "front"} \cup GetOps
          /\ r.call.q \in Mutexes => r.call.op = "receive"
    /\ r.at \in {"check", "test", "place", "unlockTx"} => qu[r.call.q].tx # Unlocked
    /\ r.at \in {"check", "test", "place", "unlockTx", "unlockRx"} => qu[r.call.q].rx # Unlocked
    /\ r.at = "place" => r.fate = "wait" /\ Surplus(qu, For(r)) <= 0
CallsSane == \A t \in Tasks : CallSane(task[t], queue)

MutexFree(r) == "waiting" \in DOMAIN r.store /\ r.store.waiting = IF r.holder = NoTask THEN 1 ELSE 0
MutexSane == \A q \in Mutexes : MutexFree(queue[q])

\* The tasks on their way to a queue, and those a step frees.
Sleepers(tk, s) == \A t \in Tasks : \A l \in EventLists : Contains(s.event[l], t) =>
                      Sleeping(tk[t]) /\ l = For(tk[t])
WokenAt(tk, s, l) == {t \in Tasks : Sleeping(tk[t]) /\ l = For(tk[t]) /\ ~ Contains(s.event[l], t)}
Freed(r, s, l) == {u \in Tasks : Contains(s.event[l], u) /\ ~ Contains(r.event[l], u)}
Enough(tk, s, qu, l) == s.event[l] # << >> => Surplus(qu, l) <= Cardinality(WokenAt(tk, s, l))

WInv == /\ LInv /\ Asleep(os) /\ OneWithin /\ RunnerReady /\ Sleepers(task, os) /\ CallsSane /\ MutexSane
        /\ \A l \in EventLists : Enough(task, os, queue, l)

LEMMA WokenFinite ==
  ASSUME NEW tk, NEW s, NEW r, NEW l
  PROVE  /\ IsFiniteSet(WokenAt(tk, s, l)) /\ Cardinality(WokenAt(tk, s, l)) \in Nat
         /\ IsFiniteSet(Freed(r, s, l)) /\ Cardinality(Freed(r, s, l)) \in Nat
<1>1. WokenAt(tk, s, l) \subseteq Tasks /\ Freed(r, s, l) \subseteq Tasks
  BY DEF WokenAt, Freed
<1> QED
  BY <1>1, TasksAssumption, FS_Subset, FS_CardinalityType

\* A queue's storage never holds more than its length.
LEMMA WaitingIs ==
  ASSUME NEW qu, \A q \in Data : S!Sound(qu[q].store, Length[q]), \A q \in Mutexes : MutexFree(qu[q]),
         NEW q \in Queues
  PROVE  qu[q].store.waiting \in 0 .. Length[q] /\ Length[q] \in Nat \ {0}
<1>1. Length[q] \in Nat \ {0} /\ (q \in Mutexes => Length[q] = 1)
  BY LengthAssumption
<1>2. CASE q \in Mutexes
  BY <1>1, <1>2 DEF MutexFree
<1>3. CASE q \notin Mutexes
  BY <1>1, <1>3 DEF Data, S!Sound, S!Storage
<1> QED
  BY <1>1, <1>2, <1>3

LEMMA SurplusIs ==
  ASSUME NEW qu, \A q \in Data : S!Sound(qu[q].store, Length[q]), \A q \in Mutexes : MutexFree(qu[q]),
         \A q \in Queues : QueueSane(qu[q])
  PROVE  \A l \in EventLists : Surplus(qu, l) \in Int
<1> SUFFICES ASSUME NEW l \in EventLists PROVE Surplus(qu, l) \in Int
  OBVIOUS
<1>1. l[1] \in Queues
  BY DEF EventLists
<1>2. qu[l[1]].store.waiting \in Int /\ Length[l[1]] \in Int /\ QueueSane(qu[l[1]])
  BY <1>1, WaitingIs
<1>3. AtLeast0(qu[l[1]].tx) \in Nat /\ AtLeast0(qu[l[1]].rx) \in Nat
  BY <1>2 DEF QueueSane, AtLeast0, Unlocked
<1> QED
  BY <1>2, <1>3 DEF Surplus

LEMMA CountMoved ==
  ASSUME NEW W, IsFiniteSet(W), NEW F, IsFiniteSet(F), NEW R, IsFiniteSet(R), W \cap F = {},
         NEW t, NEW d \in {0, 1}, F \subseteq R, \A u \in W : u # t \/ d = 0 => u \in R
  PROVE  Cardinality(W) + Cardinality(F) <= Cardinality(R) + d
<1>1. PICK V : V = IF d = 0 THEN W ELSE W \ {t}
  OBVIOUS
<1>2. IsFiniteSet(V) /\ Cardinality(W) <= Cardinality(V) + d
  <2>1. CASE d = 0
    BY <1>1, <2>1, FS_CardinalityType
  <2>2. CASE d = 1
    <3>1. V = W \ {t}
      BY <1>1, <2>2
    <3>2. IsFiniteSet(V) /\ Cardinality(V) = IF t \in W THEN Cardinality(W) - 1 ELSE Cardinality(W)
      BY <3>1, FS_RemoveElement
    <3> QED
      BY <2>2, <3>2, FS_CardinalityType
  <2> QED
    BY <2>1, <2>2
<1>3. V \cap F = {} /\ V \cup F \subseteq R
  BY <1>1
<1>4. Cardinality(V \cup F) = Cardinality(V) + Cardinality(F) - Cardinality(V \cap F)
  BY <1>2, FS_Union
<1>5. Cardinality(V \cap F) = 0
  BY <1>3, FS_EmptySet
<1>6. Cardinality(V \cup F) <= Cardinality(R)
  BY <1>3, FS_Subset
<1>7. Cardinality(V) \in Nat /\ Cardinality(F) \in Nat /\ Cardinality(R) \in Nat /\ Cardinality(W) \in Nat
  BY <1>2, FS_CardinalityType
<1> QED
  BY <1>2, <1>4, <1>5, <1>6, <1>7

\* t takes a step; the others stay, and so does t unless it was on its way (d = 1).
LEMMA StillEnough ==
  ASSUME NEW tk, NEW s, NEW qu, NEW tk2, NEW s2, NEW qu2, NEW l \in EventLists, NEW t \in Tasks,
         s \in Schedulers, s2 \in Schedulers, Fewer(s2, s), Sleepers(tk, s), Enough(tk, s, qu, l),
         \A u \in Tasks \ {t} : tk2[u] = tk[u], NEW d \in {0, 1},
         d = 0 => (Sleeping(tk[t]) /\ l = For(tk[t]) => Sleeping(tk2[t]) /\ l = For(tk2[t])),
         d = 1 => ~ Contains(s.event[l], t),
         Surplus(qu, l) \in Int, Surplus(qu2, l) \in Int,
         s2.event[l] # << >> => \/ Surplus(qu2, l) <= 0
                                \/ Surplus(qu2, l) + d <= Surplus(qu, l) + Cardinality(Freed(s2, s, l))
  PROVE  Enough(tk2, s2, qu2, l)
<1> DEFINE W == WokenAt(tk, s, l)
           W2 == WokenAt(tk2, s2, l)
           F == Freed(s2, s, l)
<1> SUFFICES ASSUME s2.event[l] # << >> PROVE Surplus(qu2, l) <= Cardinality(W2)
  BY DEF Enough
<1>1. s.event[l] \in Seq(Tasks) /\ s2.event[l] \in Seq(Tasks)
  <2>1. s.event \in Events /\ s2.event \in Events
    BY DEF Schedulers
  <2> QED
    BY <2>1 DEF Events, EventLists
<1>2. s.event[l] # << >>
  <2>1. PICK u \in Tasks : Contains(s2.event[l], u)
    BY <1>1, EmptyHasNone
  <2>2. Contains(s.event[l], u)
    BY <2>1 DEF Fewer
  <2> QED
    BY <1>1, <2>2, EmptyHasNone
<1>3. /\ IsFiniteSet(W) /\ IsFiniteSet(W2) /\ IsFiniteSet(F)
      /\ Cardinality(W) \in Nat /\ Cardinality(W2) \in Nat /\ Cardinality(F) \in Nat
  BY WokenFinite
<1>4. Surplus(qu, l) <= Cardinality(W)
  BY <1>2 DEF Enough
<1>5. \A u \in W : u # t \/ d = 0 => u \in W2
  BY DEF WokenAt, Fewer
<1>6. F \subseteq W2
  <2>1. ASSUME NEW u \in F PROVE u \in W2
    <3>1. Contains(s.event[l], u) /\ ~ Contains(s2.event[l], u) /\ u \in Tasks
      BY DEF Freed
    <3>2. Sleeping(tk[u]) /\ l = For(tk[u])
      BY <3>1 DEF Sleepers
    <3>3. Sleeping(tk2[u]) /\ l = For(tk2[u])
      BY <3>1, <3>2
    <3> QED
      BY <3>1, <3>3 DEF WokenAt
  <2> QED
    BY <2>1
<1>7. W \cap F = {}
  BY DEF WokenAt, Freed
<1>8. Cardinality(W) + Cardinality(F) <= Cardinality(W2) + d
  <2> HIDE DEF F, W, W2
  <2> QED
    BY <1>3, <1>5, <1>6, <1>7, CountMoved
<1> HIDE DEF F, W, W2
<1> QED
  BY <1>3, <1>4, <1>8 DEF F

\* A task's step and who runs: the others are in no call that suspends the scheduler.
LEMMA StepShape ==
  ASSUME WInv, NEW t \in Tasks, os.current = t, os'.current = t, NEW r, task' = [task EXCEPT ![t] = r],
         os'.locked = IF r.at \in Within THEN 1 ELSE 0,
         (os'.locked > 0 \/ ~ pendSV') /\ ~ Left(r) => InReady(os', t), CallSane(r, queue')
  PROVE  OneWithin' /\ RunnerReady' /\ CallsSane'
<1>1. task' = [u \in Tasks |-> IF u = t THEN r ELSE task[u]]
  BY DEF WInv, LInv, IInv, CallsSound
<1>2. task'[t] = r /\ \A u \in Tasks \ {t} : task'[u] = task[u] /\ task[u].at \notin Within
  BY <1>1 DEF WInv, OneWithin
<1>3. OneWithin' /\ RunnerReady'
  BY <1>2 DEF OneWithin, RunnerReady
<1>4. ASSUME NEW u \in Tasks \ {t} PROVE CallSane(task[u], queue')
  <2>1. CallSane(task[u], queue) /\ task[u].at \notin Within
    BY <1>2 DEF WInv, CallsSane
  <2> QED
    BY <2>1 DEF CallSane, Within
<1> QED
  BY <1>2, <1>3, <1>4 DEF CallsSane

\* t was on its way to a queue, and is not any more.
Leaves(t, r) == Sleeping(task[t]) /\ ~ (Sleeping(r) /\ For(r) = For(task[t]))
Leaving(t, r, l) == IF Leaves(t, r) /\ l = For(task[t]) THEN 1 ELSE 0

\* A task's step keeps the invariant when it leaves no item and no place without
\* a task that is on its way.
LEMMA StepKeeps ==
  ASSUME WInv, LInv', NEW t \in Tasks, os.current = t, os'.current = t, NEW r, task' = [task EXCEPT ![t] = r],
         os'.locked = IF r.at \in Within THEN 1 ELSE 0,
         (os'.locked > 0 \/ ~ pendSV') /\ ~ Left(r) => InReady(os', t), CallSane(r, queue'),
         MutexSane', Asleep(os'), Fewer(os', os), Leaves(t, r) => ~ Waits(os, t),
         \A l \in EventLists : os'.event[l] # << >> =>
            \/ Surplus(queue', l) <= 0
            \/ Surplus(queue', l) + Leaving(t, r, l) <= Surplus(queue, l) + Cardinality(Freed(os', os, l))
  PROVE  WInv'
<1>1. task' = [u \in Tasks |-> IF u = t THEN r ELSE task[u]]
  BY DEF WInv, LInv, IInv, CallsSound
<1>2. task'[t] = r /\ \A u \in Tasks \ {t} : task'[u] = task[u]
  BY <1>1
<1>3. OneWithin' /\ RunnerReady' /\ CallsSane'
  BY StepShape
<1>4. Sleepers(task', os')
  <2>1. SUFFICES ASSUME NEW u \in Tasks, NEW l \in EventLists, Contains(os'.event[l], u)
                 PROVE  Sleeping(task'[u]) /\ l = For(task'[u])
    BY DEF Sleepers
  <2>2. Contains(os.event[l], u) /\ Sleeping(task[u]) /\ l = For(task[u])
    BY <2>1 DEF Fewer, WInv, Sleepers
  <2>3. u = t => ~ Leaves(t, r)
    BY <2>2 DEF Waits
  <2> QED
    BY <1>2, <2>2, <2>3 DEF Leaves
<1>5. ASSUME NEW l \in EventLists PROVE Enough(task', os', queue', l)
  <2>1. Surplus(queue, l) \in Int
    BY SurplusIs DEF WInv, LInv, IInv, StoresSound, MutexSane, QueuesSane
  <2>2. Surplus(queue', l) \in Int
    BY SurplusIs DEF LInv, IInv, StoresSound, MutexSane, QueuesSane
  <2>3. PICK d : d = Leaving(t, r, l)
    OBVIOUS
  <2>4. d \in {0, 1} /\ (d = 1 => Leaves(t, r)) /\ (d = 0 => ~ (Leaves(t, r) /\ l = For(task[t])))
    BY <2>3 DEF Leaving
  <2>5. d = 1 => ~ Contains(os.event[l], t)
    BY <2>4 DEF Waits
  <2>6. d = 0 => (Sleeping(task[t]) /\ l = For(task[t]) => Sleeping(task'[t]) /\ l = For(task'[t]))
    BY <1>2, <2>4 DEF Leaves
  <2>7. os \in Schedulers /\ os' \in Schedulers
    BY SoundTyped DEF WInv, LInv
  <2>8. Sleepers(task, os) /\ Enough(task, os, queue, l)
    BY DEF WInv
  <2>9. os'.event[l] # << >> => \/ Surplus(queue', l) <= 0
                                \/ Surplus(queue', l) + d <= Surplus(queue, l) + Cardinality(Freed(os', os, l))
    BY <2>3
  <2>10. PICK tk2, s2, qu2 : tk2 = task' /\ s2 = os' /\ qu2 = queue'
    OBVIOUS
  <2>11. /\ s2 \in Schedulers /\ Fewer(s2, os) /\ \A u \in Tasks \ {t} : tk2[u] = task[u]
         /\ d = 0 => (Sleeping(task[t]) /\ l = For(task[t]) => Sleeping(tk2[t]) /\ l = For(tk2[t]))
         /\ Surplus(qu2, l) \in Int
         /\ s2.event[l] # << >> => \/ Surplus(qu2, l) <= 0
                                   \/ Surplus(qu2, l) + d <= Surplus(queue, l) + Cardinality(Freed(s2, os, l))
    BY <1>2, <2>2, <2>6, <2>7, <2>9, <2>10
  <2>12. Enough(tk2, s2, qu2, l)
    BY ONLY <2>1, <2>4, <2>5, <2>7, <2>8, <2>11, l \in EventLists, t \in Tasks, StillEnough, ZenonT(60)
  <2> QED
    BY <2>10, <2>12
<1> QED
  BY <1>3, <1>4, <1>5 DEF WInv

\* A step that no queue notices.
LEMMA PlainStepKeeps ==
  ASSUME WInv, LInv', NEW t \in Tasks, os.current = t, os'.current = t, NEW r, task' = [task EXCEPT ![t] = r],
         os'.locked = IF r.at \in Within THEN 1 ELSE 0,
         (os'.locked > 0 \/ ~ pendSV') /\ ~ Left(r) => InReady(os', t), CallSane(r, queue'),
         MutexSane', Asleep(os'), Fewer(os', os), ~ Leaves(t, r),
         \A l \in EventLists : Surplus(queue', l) = Surplus(queue, l)
  PROVE  WInv'
<1>1. ASSUME NEW l \in EventLists
      PROVE Surplus(queue', l) + Leaving(t, r, l) <= Surplus(queue, l) + Cardinality(Freed(os', os, l))
  <2>1. Surplus(queue, l) \in Int
    BY SurplusIs DEF WInv, LInv, IInv, StoresSound, MutexSane, QueuesSane
  <2>2. Leaving(t, r, l) = 0 /\ Cardinality(Freed(os', os, l)) \in Nat
    BY WokenFinite DEF Leaving
  <2> QED
    BY <2>1, <2>2
<1> QED
  BY <1>1, StepKeeps

-----------------------------------------------------------------------------
\* What is known of the task that takes a step.
LEMMA RunnerIs ==
  ASSUME WInv, NEW t \in Tasks, NEW at, Running(t, at)
  PROVE  /\ os.current = t /\ ~ pendSV /\ task[t].at = at
         /\ os \in Schedulers /\ Sound(os) /\ Asleep(os) /\ QueuesShaped /\ MutexSane /\ IInv
         /\ task = [u \in Tasks |-> task[u]] /\ DOMAIN task[t] = TaskFields
         /\ CallSane(task[t], queue) /\ TaskSane(task[t]) /\ WellFormed(task[t].call)
         /\ os.locked = IF at \in Within THEN 1 ELSE 0
         /\ ~ Left(task[t]) => InReady(os, t) /\ ~ Waits(os, t)
<1>1. os.current = t /\ ~ pendSV /\ task[t].at = at
  BY DEF Running
<1>2. os \in Schedulers /\ Sound(os) /\ Asleep(os) /\ QueuesShaped /\ MutexSane /\ IInv
  BY SoundTyped DEF WInv, LInv, IInv
<1>3. /\ task = [u \in Tasks |-> task[u]] /\ DOMAIN task[t] = TaskFields
      /\ CallSane(task[t], queue) /\ TaskSane(task[t]) /\ WellFormed(task[t].call)
  BY DEF WInv, LInv, IInv, CallsSound, TasksSane, CallsSane
<1>4. os.locked = IF at \in Within THEN 1 ELSE 0
  BY <1>1 DEF WInv, OneWithin
<1>5. ~ Left(task[t]) => InReady(os, t) /\ ~ Waits(os, t)
  BY <1>1, <1>2 DEF WInv, RunnerReady, Asleep
<1> QED
  BY <1>1, <1>2, <1>3, <1>4, <1>5

LEMMA GoToIs ==
  ASSUME task = [u \in Tasks |-> task[u]], NEW t \in Tasks, DOMAIN task[t] = TaskFields, NEW at, GoTo(t, at)
  PROVE  \E r : /\ task' = [task EXCEPT ![t] = r] /\ r.at = at /\ r.call = task[t].call
                /\ r.fate = task[t].fate
<1>1. PICK r : r = [task[t] EXCEPT !.at = at]
  OBVIOUS
<1>2. r.at = at /\ r.call = task[t].call /\ r.fate = task[t].fate
  BY <1>1 DEF TaskFields
<1>3. task' = [task EXCEPT ![t] = r]
  BY <1>1 DEF GoTo
<1> QED
  BY <1>2, <1>3

\* A step that leaves the ready lists and the lists of the queues alone.
LEMMA SameStepKeeps ==
  ASSUME WInv, LInv', NEW t \in Tasks, os.current = t, os'.current = t, NEW r, task' = [task EXCEPT ![t] = r],
         os'.locked = IF r.at \in Within THEN 1 ELSE 0,
         ~ Left(task[t]), CallSane(r, queue'), MutexSane', InReady(os, t),
         os'.event = os.event, os'.pending = os.pending, os'.ready = os.ready, ~ Leaves(t, r),
         \A l \in EventLists : Surplus(queue', l) = Surplus(queue, l)
  PROVE  WInv'
<1>1. Asleep(os') /\ Fewer(os', os)
  BY SameReady, SameRouses DEF WInv, Rouses
<1>2. InReady(os', t)
  BY SameReady
<1> QED
  BY <1>1, <1>2, PlainStepKeeps

LEMMA SuspendSchedulerKeeps ==
  ASSUME WInv, LInv', NEW t \in Tasks, SuspendScheduler(t)
  PROVE  WInv'
<1>1. /\ os.current = t /\ task[t].at = "suspendAll" /\ os \in Schedulers /\ MutexSane
      /\ task = [u \in Tasks |-> task[u]] /\ DOMAIN task[t] = TaskFields
      /\ CallSane(task[t], queue) /\ os.locked = 0 /\ ~ Left(task[t]) /\ InReady(os, t)
  BY RunnerIs DEF SuspendScheduler, Within, Left
<1>2. os' = SuspendAll(os) /\ GoTo(t, "lock") /\ UNCHANGED queue
  BY DEF SuspendScheduler
<1>3. /\ os'.current = t /\ os'.locked = 1 /\ os'.ready = os.ready /\ os'.event = os.event
      /\ os'.pending = os.pending
  BY <1>1, <1>2 DEF SuspendAll, Schedulers
<1>4. PICK r : task' = [task EXCEPT ![t] = r] /\ r.at = "lock" /\ r.call = task[t].call
  BY <1>1, <1>2, GoToIs
<1>5. CallSane(r, queue') /\ MutexSane' /\ ~ Leaves(t, r) /\ r.at \in Within
  BY <1>1, <1>2, <1>4 DEF CallSane, InCall, MutexSane, Leaves, Sleeping, Within
<1>6. \A l \in EventLists : Surplus(queue', l) = Surplus(queue, l)
  BY <1>2
<1> QED
  BY <1>1, <1>3, <1>4, <1>5, <1>6, SameStepKeeps

\* A new record of one queue.
LEMMA SurplusSet ==
  ASSUME QueuesShaped, NEW q \in Queues, NEW r, queue' = [queue EXCEPT ![q] = r]
  PROVE  /\ \A l \in EventLists : l # Receivers(q) /\ l # Senders(q) => Surplus(queue', l) = Surplus(queue, l)
         /\ Surplus(queue, Receivers(q)) = queue[q].store.waiting - AtLeast0(queue[q].tx)
         /\ Surplus(queue, Senders(q)) = Length[q] - queue[q].store.waiting - AtLeast0(queue[q].rx)
         /\ Surplus(queue', Receivers(q)) = r.store.waiting - AtLeast0(r.tx)
         /\ Surplus(queue', Senders(q)) = Length[q] - r.store.waiting - AtLeast0(r.rx)
<1>1. queue' = [u \in Queues |-> IF u = q THEN r ELSE queue[u]]
  BY DEF QueuesShaped
<1>2. ASSUME NEW l \in EventLists, l # Receivers(q), l # Senders(q) PROVE Surplus(queue', l) = Surplus(queue, l)
  <2>1. l[1] \in Queues /\ l[1] # q
    BY <1>2 DEF EventLists, Receivers, Senders
  <2> QED
    BY <1>1, <2>1 DEF Surplus
<1>3. queue'[q] = r
  BY <1>1
<1> QED
  BY <1>2, <1>3 DEF Surplus, Receivers, Senders

LEMMA MutexSet ==
  ASSUME QueuesShaped, MutexSane, NEW q \in Queues, NEW r, queue' = [queue EXCEPT ![q] = r],
         q \in Mutexes => MutexFree(r)
  PROVE  MutexSane'
<1>1. queue' = [u \in Queues |-> IF u = q THEN r ELSE queue[u]]
  BY DEF QueuesShaped
<1> QED
  BY <1>1, LengthAssumption DEF MutexSane

LEMMA LockQueueKeeps ==
  ASSUME WInv, LInv', NEW t \in Tasks, LockQueue(t)
  PROVE  WInv'
<1> DEFINE lock(n) == IF n = Unlocked THEN 0 ELSE n
<1>1. /\ os.current = t /\ task[t].at = "lock" /\ os \in Schedulers /\ MutexSane /\ QueuesShaped
      /\ task = [u \in Tasks |-> task[u]] /\ DOMAIN task[t] = TaskFields
      /\ CallSane(task[t], queue) /\ os.locked = 1 /\ ~ Left(task[t]) /\ InReady(os, t)
  BY RunnerIs DEF LockQueue, Within, Left
<1>2. UNCHANGED os /\ GoTo(t, "check")
  BY DEF LockQueue
<1>3. PICK q : q = task[t].call.q
  OBVIOUS
<1>4. q \in Queues
  BY <1>1, <1>3, CallIs DEF WInv, InCall
<1>5. DOMAIN queue[q] = QueueFields /\ QueueSane(queue[q]) /\ queue = [u \in Queues |-> queue[u]]
  BY <1>4 DEF WInv, LInv, IInv, QueuesShaped, QueuesSane
<1>6. PICK tx, rx : tx = lock(queue[q].tx) /\ rx = lock(queue[q].rx)
  OBVIOUS
<1>7. PICK x : x = [queue[q] EXCEPT !.tx = tx, !.rx = rx]
  OBVIOUS
<1>8. queue' = [queue EXCEPT ![q] = x]
  <2>1. queue' = [queue EXCEPT ![q].tx = lock(@), ![q].rx = lock(@)]
    BY <1>3 DEF LockQueue
  <2>2. [queue[q] EXCEPT !.tx = tx].rx = queue[q].rx
    BY <1>5 DEF QueueFields
  <2> QED
    BY <1>4, <1>5, <1>6, <1>7, <2>1, <2>2
<1>9. x.tx = tx /\ x.rx = rx /\ x.holder = queue[q].holder /\ x.store = queue[q].store /\ queue'[q] = x
  BY <1>4, <1>5, <1>7, <1>8 DEF QueueFields
<1>10. AtLeast0(tx) = AtLeast0(queue[q].tx) /\ AtLeast0(rx) = AtLeast0(queue[q].rx) /\ tx # Unlocked /\ rx # Unlocked
  BY <1>6 DEF AtLeast0, Unlocked
<1>11. \A l \in EventLists : Surplus(queue', l) = Surplus(queue, l)
  <2>1. /\ \A l \in EventLists : l # Receivers(q) /\ l # Senders(q) => Surplus(queue', l) = Surplus(queue, l)
        /\ Surplus(queue', Receivers(q)) = Surplus(queue, Receivers(q))
        /\ Surplus(queue', Senders(q)) = Surplus(queue, Senders(q))
    <3>1. /\ \A l \in EventLists : l # Receivers(q) /\ l # Senders(q) => Surplus(queue', l) = Surplus(queue, l)
          /\ Surplus(queue, Receivers(q)) = queue[q].store.waiting - AtLeast0(queue[q].tx)
          /\ Surplus(queue, Senders(q)) = Length[q] - queue[q].store.waiting - AtLeast0(queue[q].rx)
          /\ Surplus(queue', Receivers(q)) = x.store.waiting - AtLeast0(x.tx)
          /\ Surplus(queue', Senders(q)) = Length[q] - x.store.waiting - AtLeast0(x.rx)
      BY <1>1, <1>4, <1>8, SurplusSet
    <3> QED
      BY ONLY <3>1, <1>9, <1>10
  <2> QED
    BY ONLY <2>1
<1>12. MutexSane'
  <2>1. q \in Mutexes => MutexFree(x)
    BY <1>1, <1>9 DEF MutexSane, MutexFree
  <2> QED
    BY <1>1, <1>4, <1>8, <2>1, MutexSet
<1>13. PICK r : task' = [task EXCEPT ![t] = r] /\ r.at = "check" /\ r.call = task[t].call
  BY <1>1, <1>2, GoToIs
<1>14. CallSane(r, queue') /\ ~ Leaves(t, r) /\ r.at \in Within
  BY <1>1, <1>3, <1>9, <1>10, <1>13 DEF CallSane, InCall, Leaves, Sleeping, Within
<1> QED
  BY <1>1, <1>2, <1>11, <1>12, <1>13, <1>14, SameStepKeeps

LEMMA CheckForTimeOutKeeps ==
  ASSUME WInv, LInv', NEW t \in Tasks, CheckForTimeOut(t)
  PROVE  WInv'
<1>1. /\ os.current = t /\ task[t].at = "check" /\ os \in Schedulers /\ MutexSane
      /\ task = [u \in Tasks |-> task[u]] /\ DOMAIN task[t] = TaskFields
      /\ CallSane(task[t], queue) /\ os.locked = 1 /\ ~ Left(task[t]) /\ InReady(os, t)
  BY RunnerIs DEF CheckForTimeOut, Within, Left
<1>2. UNCHANGED <<os, queue>>
  BY DEF CheckForTimeOut
<1>3. PICK r : /\ task' = [task EXCEPT ![t] = r] /\ r.call = task[t].call
               /\ r.at = "test" \/ (r.at = "unlockTx" /\ r.fate = "fail")
  <2>1. CASE TimedOut(t)
    <3>1. PICK x : x = [task[t] EXCEPT !.at = "unlockTx", !.fate = "fail"]
      OBVIOUS
    <3>2. task' = [task EXCEPT ![t] = x]
      <4>1. task' = [task EXCEPT ![t].at = "unlockTx", ![t].fate = "fail"]
        BY <2>1 DEF CheckForTimeOut
      <4> QED
        BY <1>1, <3>1, <4>1
    <3>3. x.call = task[t].call /\ x.at = "unlockTx" /\ x.fate = "fail"
      BY <1>1, <3>1 DEF TaskFields
    <3> QED
      BY ONLY <3>2, <3>3
  <2>2. CASE ~ TimedOut(t) /\ task[t].ticks = MaxDelay
    <3>1. PICK x : x = [task[t] EXCEPT !.at = "test"]
      OBVIOUS
    <3>2. task' = [task EXCEPT ![t] = x]
      BY <3>1, <2>2 DEF CheckForTimeOut
    <3>3. x.call = task[t].call /\ x.at = "test"
      BY <1>1, <3>1 DEF TaskFields
    <3> QED
      BY ONLY <3>2, <3>3
  <2>3. CASE ~ TimedOut(t) /\ task[t].ticks # MaxDelay
    <3>1. PICK n : n = task[t].ticks - Elapsed(t)
      OBVIOUS
    <3>2. PICK x : x = [task[t] EXCEPT !.at = "test", !.ticks = n, !.entered = os.tick,
                                       !.overflows = os.overflows]
      OBVIOUS
    <3>3. task' = [task EXCEPT ![t].at = "test", ![t].ticks = task[t].ticks - Elapsed(t),
                              ![t].entered = os.tick, ![t].overflows = os.overflows]
      <4>1. [task EXCEPT ![t].at = "test"][t].ticks = task[t].ticks
        BY <1>1 DEF TaskFields
      <4> QED
        BY <2>3, <4>1 DEF CheckForTimeOut
    <3>4. task' = [task EXCEPT ![t] = x]
      BY <1>1, <3>1, <3>2, <3>3
    <3>5. x.call = task[t].call /\ x.at = "test"
      BY <1>1, <3>2 DEF TaskFields
    <3> QED
      BY ONLY <3>4, <3>5
  <2> QED
    BY <2>1, <2>2, <2>3
<1>4. CallSane(r, queue') /\ MutexSane' /\ ~ Leaves(t, r) /\ r.at \in Within
  BY <1>1, <1>2, <1>3 DEF CallSane, InCall, MutexSane, Leaves, Sleeping, Within
<1>5. \A l \in EventLists : Surplus(queue', l) = Surplus(queue, l)
  BY <1>2
<1> QED
  BY <1>1, <1>2, <1>3, <1>4, <1>5, SameStepKeeps

\* The queue is full, or empty: there is nothing for the caller.
LEMMA NothingThere ==
  ASSUME WInv, NEW r, r.call.q \in Queues, r.call.op \in {"back", "front"} \cup GetOps, ~ Possible(r.call)
  PROVE  Surplus(queue, For(r)) <= 0
<1>1. PICK q : q = r.call.q
  OBVIOUS
<1>2. queue[q].store.waiting \in Int /\ Length[q] \in Int
  BY <1>1, WaitingIs DEF WInv, LInv, IInv, StoresSound, MutexSane
<1>3. QueueSane(queue[q])
  BY <1>1 DEF WInv, LInv, QueuesSane
<1>4. AtLeast0(queue[q].tx) \in Nat /\ AtLeast0(queue[q].rx) \in Nat
  BY <1>3 DEF QueueSane, AtLeast0, Unlocked
<1>5. CASE r.call.op \in PutOps
  <2>1. queue[q].store.waiting = Length[q]
    BY <1>1, <1>5 DEF Possible, Full, S!IsFull
  <2> QED
    BY <1>1, <1>2, <1>4, <1>5, <2>1 DEF For, Surplus
<1>6. CASE r.call.op \notin PutOps
  <2>1. queue[q].store.waiting = 0
    BY <1>1, <1>6 DEF Possible, Empty, S!IsEmpty
  <2> QED
    BY <1>1, <1>2, <1>4, <1>6, <2>1 DEF For, Surplus
<1> QED
  BY <1>5, <1>6

LEMMA TestAgainKeeps ==
  ASSUME WInv, LInv', NEW t \in Tasks, TestAgain(t)
  PROVE  WInv'
<1>1. /\ os.current = t /\ task[t].at = "test" /\ os \in Schedulers /\ MutexSane
      /\ task = [u \in Tasks |-> task[u]] /\ DOMAIN task[t] = TaskFields
      /\ CallSane(task[t], queue) /\ os.locked = 1 /\ ~ Left(task[t]) /\ InReady(os, t)
  BY RunnerIs DEF TestAgain, Within, Left
<1>2. UNCHANGED <<os, queue>>
  BY DEF TestAgain
<1>3. PICK c, still : c = task[t].call /\ still = (IF c.op \in PutOps THEN Full(c.q) ELSE Empty(c.q))
  OBVIOUS
<1>4. c.op \in {"back", "front"} \cup GetOps /\ c.q \in Queues
  BY <1>1, <1>3, CallIs DEF WInv, InCall, CallSane
<1>5. PICK at, fate : at = (IF still THEN "place" ELSE "unlockTx") /\ fate = (IF still THEN "wait" ELSE "again")
  OBVIOUS
<1>6. PICK r : r = [task[t] EXCEPT !.at = at, !.fate = fate]
  OBVIOUS
<1>7. task' = [task EXCEPT ![t] = r]
  <2>1. task' = [task EXCEPT ![t].at = at, ![t].fate = fate]
    BY <1>3, <1>5 DEF TestAgain
  <2> QED
    BY <1>1, <1>6, <2>1
<1>8. r.at = at /\ r.call = task[t].call /\ r.fate = fate
  BY <1>1, <1>6 DEF TaskFields
<1>9. still => Surplus(queue, For(r)) <= 0
  <2>1. still => ~ Possible(c)
    BY <1>3, <1>4 DEF Possible, PutOps, GetOps
  <2> QED
    BY <1>3, <1>4, <1>8, <2>1, NothingThere
<1>10. CallSane(r, queue') /\ MutexSane' /\ ~ Leaves(t, r) /\ r.at \in Within
  BY <1>1, <1>2, <1>5, <1>8, <1>9 DEF CallSane, InCall, MutexSane, Leaves, Sleeping, Within
<1>11. \A l \in EventLists : Surplus(queue', l) = Surplus(queue, l)
  BY <1>2
<1> QED
  BY <1>1, <1>2, <1>7, <1>10, <1>11, SameStepKeeps

LEMMA UnlockTxKeeps ==
  ASSUME WInv, LInv', NEW t \in Tasks, UnlockTx(t)
  PROVE  WInv'
<1>1. /\ os.current = t /\ task[t].at = "unlockTx" /\ os \in Schedulers /\ MutexSane /\ QueuesShaped
      /\ Sound(os) /\ Asleep(os) /\ task = [u \in Tasks |-> task[u]] /\ DOMAIN task[t] = TaskFields
      /\ CallSane(task[t], queue) /\ os.locked = 1 /\ (~ Left(task[t]) => InReady(os, t)) /\ ~ pendSV
  BY RunnerIs DEF UnlockTx, Within
<1>2. PICK q : q = task[t].call.q
  OBVIOUS
<1>3. q \in Queues
  BY <1>1, <1>2, CallIs DEF WInv, InCall
<1>4. DOMAIN queue[q] = QueueFields /\ QueueSane(queue[q])
  BY <1>3 DEF WInv, LInv, IInv, QueuesShaped, QueuesSane
<1>5. PICK x, n : x = [queue[q] EXCEPT !.tx = Unlocked] /\ n = queue[q].tx
  OBVIOUS
<1>6. queue' = [queue EXCEPT ![q] = x] /\ os' = WakeMany(os, Receivers(q), n) /\ GoTo(t, "unlockRx") /\ UNCHANGED pendSV
  BY <1>2, <1>5 DEF UnlockTx
<1>7. x.tx = Unlocked /\ x.rx = queue[q].rx /\ x.holder = queue[q].holder /\ x.store = queue[q].store /\ queue'[q] = x
  BY <1>1, <1>3, <1>4, <1>5, <1>6 DEF QueueFields, QueuesShaped
<1>8. n \in Nat
  BY <1>1, <1>2, <1>4, <1>5 DEF CallSane, QueueSane
<1>9. Receivers(q) \in EventLists /\ Senders(q) \in EventLists
  BY <1>3, EventNames DEF EventLists
<1>10. /\ Rouses(os', os) /\ os'.locked = 1
       /\ os'.event[Receivers(q)] # << >> => n <= Cardinality(Freed(os', os, Receivers(q)))
  BY <1>1, <1>6, <1>8, <1>9, WakeManyRouses, ZenonT(60) DEF Freed
<1>11. os'.current = t
  BY <1>1, <1>6, <1>8, <1>9, WakeManySound DEF EventLists, Kept
<1>12. PICK r : task' = [task EXCEPT ![t] = r] /\ r.at = "unlockRx" /\ r.call = task[t].call /\ r.fate = task[t].fate
  BY <1>1, <1>6, GoToIs
<1>13. CallSane(r, queue') /\ ~ Leaves(t, r) /\ r.at \in Within /\ (~ Left(r) => InReady(os', t))
  BY <1>1, <1>2, <1>7, <1>10, <1>12 DEF CallSane, InCall, Leaves, Sleeping, Within, For, Left, Rouses
<1>14. MutexSane'
  <2>1. q \in Mutexes => MutexFree(x)
    BY <1>1, <1>7 DEF MutexSane, MutexFree
  <2> QED
    BY <1>1, <1>3, <1>6, <2>1, MutexSet
<1>15. /\ \A l \in EventLists : l # Receivers(q) /\ l # Senders(q) => Surplus(queue', l) = Surplus(queue, l)
       /\ Surplus(queue, Receivers(q)) = queue[q].store.waiting - AtLeast0(queue[q].tx)
       /\ Surplus(queue, Senders(q)) = Length[q] - queue[q].store.waiting - AtLeast0(queue[q].rx)
       /\ Surplus(queue', Receivers(q)) = x.store.waiting - AtLeast0(x.tx)
       /\ Surplus(queue', Senders(q)) = Length[q] - x.store.waiting - AtLeast0(x.rx)
  BY <1>1, <1>3, <1>6, SurplusSet
<1>16. queue[q].store.waiting \in Int
  BY <1>3, WaitingIs DEF WInv, LInv, IInv, StoresSound, MutexSane
<1>17. \A l \in EventLists : Surplus(queue, l) \in Int /\ Cardinality(Freed(os', os, l)) \in Nat
  BY SurplusIs, WokenFinite DEF WInv, LInv, IInv, StoresSound, MutexSane, QueuesSane
<1>18. ASSUME NEW l \in EventLists, os'.event[l] # << >>
       PROVE  Surplus(queue', l) + Leaving(t, r, l) <= Surplus(queue, l) + Cardinality(Freed(os', os, l))
  <2>1. Leaving(t, r, l) = 0
    BY <1>13 DEF Leaving
  <2>2. CASE l = Receivers(q)
    <3>1. Surplus(queue, l) = queue[q].store.waiting - n /\ Surplus(queue', l) = queue[q].store.waiting
      BY <1>5, <1>7, <1>8, <1>15, <1>16, <2>2 DEF AtLeast0, Unlocked
    <3> QED
      BY <1>8, <1>10, <1>16, <1>17, <1>18, <2>1, <2>2, <3>1
  <2>3. CASE l # Receivers(q)
    <3>1. Surplus(queue', l) = Surplus(queue, l)
      BY <1>7, <1>15, <2>3
    <3> QED
      BY <1>17, <2>1, <3>1
  <2> QED
    BY <2>2, <2>3
<1> QED
  BY <1>1, <1>10, <1>11, <1>12, <1>13, <1>14, <1>18, StepKeeps DEF Rouses

LEMMA UnlockRxKeeps ==
  ASSUME WInv, LInv', NEW t \in Tasks, UnlockRx(t)
  PROVE  WInv'
<1>1. /\ os.current = t /\ task[t].at = "unlockRx" /\ os \in Schedulers /\ MutexSane /\ QueuesShaped
      /\ Sound(os) /\ Asleep(os) /\ task = [u \in Tasks |-> task[u]] /\ DOMAIN task[t] = TaskFields
      /\ CallSane(task[t], queue) /\ os.locked = 1 /\ (~ Left(task[t]) => InReady(os, t)) /\ ~ pendSV
  BY RunnerIs DEF UnlockRx, Within
<1>2. PICK q : q = task[t].call.q
  OBVIOUS
<1>3. q \in Queues
  BY <1>1, <1>2, CallIs DEF WInv, InCall
<1>4. DOMAIN queue[q] = QueueFields /\ QueueSane(queue[q])
  BY <1>3 DEF WInv, LInv, IInv, QueuesShaped, QueuesSane
<1>5. PICK x, n : x = [queue[q] EXCEPT !.rx = Unlocked] /\ n = queue[q].rx
  OBVIOUS
<1>6. queue' = [queue EXCEPT ![q] = x] /\ os' = WakeMany(os, Senders(q), n) /\ GoTo(t, "resumeAll") /\ UNCHANGED pendSV
  BY <1>2, <1>5 DEF UnlockRx
<1>7. x.rx = Unlocked /\ x.tx = queue[q].tx /\ x.holder = queue[q].holder /\ x.store = queue[q].store /\ queue'[q] = x
  BY <1>1, <1>3, <1>4, <1>5, <1>6 DEF QueueFields, QueuesShaped
<1>8. n \in Nat
  BY <1>1, <1>2, <1>4, <1>5 DEF CallSane, QueueSane
<1>9. Receivers(q) \in EventLists /\ Senders(q) \in EventLists
  BY <1>3, EventNames DEF EventLists
<1>10. /\ Rouses(os', os) /\ os'.locked = 1
       /\ os'.event[Senders(q)] # << >> => n <= Cardinality(Freed(os', os, Senders(q)))
  BY <1>1, <1>6, <1>8, <1>9, WakeManyRouses, ZenonT(60) DEF Freed
<1>11. os'.current = t
  BY <1>1, <1>6, <1>8, <1>9, WakeManySound DEF EventLists, Kept
<1>12. PICK r : task' = [task EXCEPT ![t] = r] /\ r.at = "resumeAll" /\ r.call = task[t].call /\ r.fate = task[t].fate
  BY <1>1, <1>6, GoToIs
<1>13. CallSane(r, queue') /\ ~ Leaves(t, r) /\ r.at \in Within /\ (~ Left(r) => InReady(os', t))
  BY <1>1, <1>10, <1>12 DEF CallSane, InCall, Leaves, Sleeping, Within, For, Left, Rouses
<1>14. MutexSane'
  <2>1. q \in Mutexes => MutexFree(x)
    BY <1>1, <1>7 DEF MutexSane, MutexFree
  <2> QED
    BY <1>1, <1>3, <1>6, <2>1, MutexSet
<1>15. /\ \A l \in EventLists : l # Receivers(q) /\ l # Senders(q) => Surplus(queue', l) = Surplus(queue, l)
       /\ Surplus(queue, Receivers(q)) = queue[q].store.waiting - AtLeast0(queue[q].tx)
       /\ Surplus(queue, Senders(q)) = Length[q] - queue[q].store.waiting - AtLeast0(queue[q].rx)
       /\ Surplus(queue', Receivers(q)) = x.store.waiting - AtLeast0(x.tx)
       /\ Surplus(queue', Senders(q)) = Length[q] - x.store.waiting - AtLeast0(x.rx)
  BY <1>1, <1>3, <1>6, SurplusSet
<1>16. queue[q].store.waiting \in Int /\ Length[q] \in Int
  BY <1>3, WaitingIs DEF WInv, LInv, IInv, StoresSound, MutexSane
<1>17. \A l \in EventLists : Surplus(queue, l) \in Int /\ Cardinality(Freed(os', os, l)) \in Nat
  BY SurplusIs, WokenFinite DEF WInv, LInv, IInv, StoresSound, MutexSane, QueuesSane
<1>18. ASSUME NEW l \in EventLists, os'.event[l] # << >>
       PROVE  Surplus(queue', l) + Leaving(t, r, l) <= Surplus(queue, l) + Cardinality(Freed(os', os, l))
  <2>1. Leaving(t, r, l) = 0
    BY <1>13 DEF Leaving
  <2>2. CASE l = Senders(q)
    <3>1. /\ Surplus(queue, l) = Length[q] - queue[q].store.waiting - n
          /\ Surplus(queue', l) = Length[q] - queue[q].store.waiting
      BY <1>5, <1>7, <1>8, <1>15, <1>16, <2>2 DEF AtLeast0, Unlocked
    <3> QED
      BY <1>8, <1>10, <1>16, <1>17, <1>18, <2>1, <2>2, <3>1
  <2>3. CASE l # Senders(q)
    <3>1. Surplus(queue', l) = Surplus(queue, l)
      BY <1>7, <1>15, <2>3
    <3> QED
      BY <1>17, <2>1, <3>1
  <2> QED
    BY <2>2, <2>3
<1> QED
  BY <1>1, <1>10, <1>11, <1>12, <1>13, <1>14, <1>18, StepKeeps DEF Rouses

LEMMA ResumeSchedulerKeeps ==
  ASSUME WInv, LInv', NEW t \in Tasks, ResumeScheduler(t)
  PROVE  WInv'
<1>1. /\ os.current = t /\ task[t].at = "resumeAll" /\ os \in Schedulers /\ MutexSane
      /\ Sound(os) /\ Asleep(os) /\ task = [u \in Tasks |-> task[u]] /\ DOMAIN task[t] = TaskFields
      /\ CallSane(task[t], queue) /\ os.locked = 1 /\ (~ Left(task[t]) => InReady(os, t))
  BY RunnerIs DEF ResumeScheduler, Within
<1>2. /\ os' = ResumeAll(os) /\ UNCHANGED queue
      /\ pendSV' = (Yielded(os') \/ task[t].fate \in {"wait", "delayed"})
  BY DEF ResumeScheduler
<1>3. Rouses(os', os) /\ os'.locked = 0 /\ os'.current = t
  BY <1>1, <1>2, ResumeAllRouses, ResumeAllSound DEF Kept
<1>4. PICK r : /\ task' = [task EXCEPT ![t] = r]
               /\ \/ /\ task[t].fate \in {"wait", "again"}
                     /\ r.at = "retry" /\ r.call = task[t].call /\ r.fate = task[t].fate
                  \/ task[t].fate # "wait" /\ r.at = "run"
  <2>1. CASE task[t].fate \in {"wait", "again"} /\ GoTo(t, "retry")
    BY <1>1, <2>1, GoToIs
  <2>2. CASE task[t].fate = "delayed" /\ GoTo(t, "run")
    BY <1>1, <2>2, GoToIs
  <2>3. CASE task[t].fate = "fail" /\ Return(t)
    <3>1. PICK x : x = Outside(task[t].lastWake)
      OBVIOUS
    <3>2. task' = [task EXCEPT ![t] = x] /\ x.at = "run"
      BY <2>3, <3>1 DEF Return, Outside
    <3> QED
      BY <2>3, <3>2
  <2> QED
    BY <2>1, <2>2, <2>3 DEF ResumeScheduler
<1>5. /\ CallSane(r, queue') /\ MutexSane' /\ ~ Leaves(t, r) /\ r.at \notin Within
      /\ ~ pendSV' => InReady(os', t)
  BY <1>1, <1>2, <1>3, <1>4 DEF CallSane, InCall, MutexSane, Leaves, Sleeping, For, Within, Left, Rouses
<1>6. \A l \in EventLists : Surplus(queue', l) = Surplus(queue, l)
  BY <1>2
<1> QED
  BY <1>1, <1>3, <1>4, <1>5, <1>6, PlainStepKeeps DEF Rouses

LEMMA CallDelayKeeps ==
  ASSUME WInv, LInv', NEW t \in Tasks, CallDelay(t)
  PROVE  WInv'
<1>1. /\ os.current = t /\ task[t].at = "run" /\ os \in Schedulers /\ MutexSane
      /\ task = [u \in Tasks |-> task[u]] /\ DOMAIN task[t] = TaskFields
      /\ CallSane(task[t], queue) /\ os.locked = 0 /\ ~ Left(task[t]) /\ InReady(os, t)
  BY RunnerIs DEF CallDelay, Within, Left
<1>2. PICK c \in program.calls[t] :
         \/ UNCHANGED <<os, task>>
         \/ /\ os' = SuspendAll(os)
            /\ task' = [task EXCEPT ![t].at = "delay", ![t].call = c, ![t].began = Now,
                                    ![t].ticks = c.ticks, ![t].fate = "delayed"]
  BY DEF CallDelay
<1>3. UNCHANGED queue
  BY DEF CallDelay
<1>4. /\ os'.current = t /\ os'.ready = os.ready /\ os'.event = os.event /\ os'.pending = os.pending
      /\ os' = os \/ os'.locked = 1
  BY <1>1, <1>2 DEF SuspendAll, Schedulers
<1>5. PICK r : /\ task' = [task EXCEPT ![t] = r]
               /\ (os' = os /\ r = task[t]) \/ (os'.locked = 1 /\ r.at = "delay")
  <2>1. CASE UNCHANGED <<os, task>>
    <3>1. task' = [task EXCEPT ![t] = task[t]]
      BY <1>1, <2>1
    <3> QED
      BY <2>1, <3>1
  <2>2. CASE /\ os' = SuspendAll(os)
             /\ task' = [task EXCEPT ![t].at = "delay", ![t].call = c, ![t].began = Now,
                                     ![t].ticks = c.ticks, ![t].fate = "delayed"]
    <3>1. PICK x : x = [task[t] EXCEPT !.at = "delay", !.call = c, !.began = Now,
                                       !.ticks = c.ticks, !.fate = "delayed"]
      OBVIOUS
    <3>2. task' = [task EXCEPT ![t] = x]
      BY <1>1, <2>2, <3>1
    <3>3. x.at = "delay"
      BY <1>1, <3>1 DEF TaskFields
    <3>4. os'.locked = 1
      BY <1>1, <2>2 DEF SuspendAll, Schedulers
    <3> QED
      BY ONLY <3>2, <3>3, <3>4
  <2> QED
    BY <1>2, <2>1, <2>2
<1>6. /\ CallSane(r, queue') /\ MutexSane' /\ ~ Leaves(t, r)
      /\ os'.locked = IF r.at \in Within THEN 1 ELSE 0
  BY <1>1, <1>3, <1>5 DEF CallSane, InCall, MutexSane, Leaves, Sleeping, Within
<1>7. \A l \in EventLists : Surplus(queue', l) = Surplus(queue, l)
  BY <1>3
<1> QED
  BY <1>1, <1>4, <1>5, <1>6, <1>7, SameStepKeeps

\* A task leaves the ready lists, and the lists of the queues if it is in one.
LEMMA FreedDrops ==
  ASSUME NEW s, Asleep(s), NEW t \in Tasks, NEW r, Frees(r, s, t), Drops1(r, s, t)
  PROVE  Asleep(r) /\ Fewer(r, s)
<1>1. Fewer(r, s) /\ \A u \in Tasks : Waits(r, u) => Waits(s, u)
  BY DEF Fewer, Frees, Waits
<1>2. Asleep(r)
  BY <1>1 DEF Asleep, Frees, Drops1
<1> QED
  BY <1>1, <1>2

\* What is in neither list is taken out of both.
LEMMA SameFrees ==
  ASSUME NEW s, Asleep(s), NEW t \in Tasks, NEW r, r.event = s.event, r.pending = s.pending,
         ~ Waits(s, t), ~ Contains(s.pending, t)
  PROVE  Frees(r, s, t)
BY DEF Frees, Asleep, Waits

LEMMA DelayKeeps ==
  ASSUME WInv, LInv', NEW t \in Tasks, Delay(t)
  PROVE  WInv'
<1>1. /\ os.current = t /\ task[t].at = "delay" /\ os \in Schedulers /\ MutexSane /\ Sound(os) /\ Asleep(os)
      /\ task = [u \in Tasks |-> task[u]] /\ DOMAIN task[t] = TaskFields /\ TaskSane(task[t])
      /\ CallSane(task[t], queue) /\ os.locked = 1 /\ ~ Left(task[t]) /\ InReady(os, t) /\ ~ Waits(os, t)
  BY RunnerIs DEF Delay, Within, Left
<1>2. UNCHANGED <<queue, pendSV>>
  BY DEF Delay
<1>3. /\ Asleep(os') /\ Fewer(os', os) /\ os'.locked = 1 /\ os'.current = t
  <2>1. CASE os' = os
    BY <1>1, <2>1 DEF Fewer
  <2>2. CASE os' # os
    <3>1. PICK x, w : /\ x = TakeFromReady(os, t) /\ w = WakeTime(t)
                      /\ os' = AddCurrentToDelayed(x, w)
      BY <2>2 DEF Delay
    <3>2. Taken(x, t) /\ Same(x, os) /\ x.pending = os.pending /\ x.event = os.event /\ Drops1(x, os, t)
      BY <1>1, <3>1, TakeFromReadyTaken, TakeFromReadyDrops
    <3>3. x \in Schedulers
      BY <3>2, SMTT(40) DEF Taken, Lists
    <3>4. SameWaits(os', x) /\ os'.current = x.current
      BY <3>1, <3>3, AddCurrentSameWaits DEF AddCurrentToDelayed, Schedulers
    <3>5. os'.event = os.event /\ os'.pending = os.pending /\ Drops1(os', os, t)
      BY <3>2, <3>4, SameReady DEF SameWaits, Drops1
    <3>6. Frees(os', os, t)
      BY <1>1, <3>5, SameFrees DEF Asleep
    <3> QED
      BY <1>1, <3>2, <3>4, <3>5, <3>6, FreedDrops DEF Same, SameWaits
  <2> QED
    BY <2>1, <2>2
<1>4. PICK r : task' = [task EXCEPT ![t] = r] /\ r.at = "resumeAll" /\ r.fate = "delayed"
  <2>1. PICK last : task' = [task EXCEPT ![t].at = "resumeAll", ![t].lastWake = last]
    <3>1. [task EXCEPT ![t].at = "resumeAll"][t].lastWake = task[t].lastWake
      BY <1>1 DEF TaskFields
    <3>2. PICK last : last = (IF task[t].call.op = "delay" THEN task[t].lastWake ELSE WakeTime(t))
      OBVIOUS
    <3> QED
      BY <3>1, <3>2 DEF Delay
  <2>2. PICK x : x = [task[t] EXCEPT !.at = "resumeAll", !.lastWake = last]
    OBVIOUS
  <2>3. task' = [task EXCEPT ![t] = x]
    BY <1>1, <2>1, <2>2
  <2>4. x.at = "resumeAll" /\ x.fate = task[t].fate
    BY <1>1, <2>2 DEF TaskFields
  <2>5. task[t].fate = "delayed"
    BY <1>1 DEF TaskSane
  <2> QED
    BY ONLY <2>3, <2>4, <2>5
<1>5. CallSane(r, queue') /\ MutexSane' /\ ~ Leaves(t, r) /\ Left(r) /\ r.at \in Within
  BY <1>1, <1>2, <1>4 DEF CallSane, InCall, MutexSane, Leaves, Sleeping, Within, Left
<1>6. \A l \in EventLists : Surplus(queue', l) = Surplus(queue, l)
  BY <1>2
<1> QED
  BY <1>1, <1>3, <1>4, <1>5, <1>6, PlainStepKeeps

LEMMA SuspendKeeps ==
  ASSUME WInv, LInv', NEW t \in Tasks, Suspend(t)
  PROVE  WInv'
<1>1. /\ os.current = t /\ task[t].at = "run" /\ os \in Schedulers /\ MutexSane /\ Sound(os) /\ Asleep(os)
      /\ task = [u \in Tasks |-> task[u]] /\ DOMAIN task[t] = TaskFields
      /\ CallSane(task[t], queue) /\ os.locked = 0 /\ ~ Left(task[t]) /\ InReady(os, t)
  BY RunnerIs DEF Suspend, Within, Left
<1>2. PICK c \in program.calls[t] :
         /\ c.op = "suspend" /\ pendSV' = (c.q = t)
         /\ os' = [RemoveEvent(TakeFromReady(os, c.q), c.q) EXCEPT !.suspended = @ \cup {c.q}]
         /\ IF c.q = t THEN UNCHANGED task ELSE GoTo(t, "unblock")
  BY DEF Suspend
<1>3. UNCHANGED queue
  BY DEF Suspend
<1>4. PICK u, x, y : u = c.q /\ x = TakeFromReady(os, u) /\ y = RemoveEvent(x, u)
  OBVIOUS
<1>5. u \in Tasks
  BY <1>2, <1>4, ProgramsAssumption DEF WellFormed, WInv, LInv, IInv
<1>6. /\ Taken(x, u) /\ Same(x, os) /\ x.pending = os.pending /\ x.event = os.event
      /\ Drops1(x, os, u) /\ x \in Schedulers
  BY <1>1, <1>4, <1>5, TakeFromReadyTaken, TakeFromReadyDrops DEF Taken, Lists
<1>7. Frees(y, x, u) /\ y.ready = x.ready /\ y \in Schedulers /\ Same(y, x)
  BY <1>1, <1>4, <1>5, <1>6, RemoveEventFrees, RemoveEventIs DEF Asleep
<1>8. /\ os'.ready = y.ready /\ os'.event = y.event /\ os'.pending = y.pending
      /\ os'.current = y.current /\ os'.locked = y.locked
  BY <1>2, <1>4, <1>7 DEF Schedulers
<1>9. Frees(os', os, u) /\ Drops1(os', os, u)
  BY <1>6, <1>7, <1>8, SameReady DEF Frees, Drops1
<1>10. Asleep(os') /\ Fewer(os', os) /\ os'.current = t /\ os'.locked = 0
  BY <1>1, <1>5, <1>6, <1>7, <1>8, <1>9, FreedDrops DEF Same
<1>11. ~ pendSV' => InReady(os', t)
  BY <1>1, <1>2, <1>4, <1>9 DEF Drops1
<1>12. PICK r : task' = [task EXCEPT ![t] = r] /\ r.at \in {"run", "unblock"}
  <2>1. CASE UNCHANGED task
    <3>1. task' = [task EXCEPT ![t] = task[t]]
      BY <1>1, <2>1
    <3> QED
      BY <1>1, <3>1
  <2>2. CASE GoTo(t, "unblock")
    BY <1>1, <2>2, GoToIs
  <2> QED
    BY <1>2, <2>1, <2>2
<1>13. CallSane(r, queue') /\ MutexSane' /\ ~ Leaves(t, r) /\ r.at \notin Within
  BY <1>1, <1>3, <1>12 DEF CallSane, InCall, MutexSane, Leaves, Sleeping, Within
<1>14. \A l \in EventLists : Surplus(queue', l) = Surplus(queue, l)
  BY <1>3
<1> QED
  BY <1>1, <1>10, <1>11, <1>12, <1>13, <1>14, PlainStepKeeps

LEMMA ResetUnblockKeeps ==
  ASSUME WInv, LInv', NEW t \in Tasks, ResetUnblock(t)
  PROVE  WInv'
<1>1. /\ os.current = t /\ task[t].at = "unblock" /\ os \in Schedulers /\ MutexSane /\ Sound(os)
      /\ os.locked = 0 /\ ~ Left(task[t]) /\ InReady(os, t)
  BY RunnerIs DEF ResetUnblock, Within, Left
<1>2. os' = ResetNextUnblock(os) /\ Return(t) /\ UNCHANGED queue
  BY DEF ResetUnblock
<1>3. SameWaits(os', os) /\ os'.current = t
  BY <1>1, <1>2, ResetNextUnblockSameWaits DEF ResetNextUnblock, Schedulers
<1>4. PICK r : task' = [task EXCEPT ![t] = r] /\ r = Outside(task[t].lastWake)
  BY <1>2 DEF Return
<1>5. r.at = "run"
  BY <1>4 DEF Outside
<1>6. CallSane(r, queue') /\ MutexSane' /\ ~ Leaves(t, r) /\ r.at \notin Within
  BY <1>1, <1>2, <1>5 DEF CallSane, InCall, MutexSane, Leaves, Sleeping, Within
<1>7. \A l \in EventLists : Surplus(queue', l) = Surplus(queue, l)
  BY <1>2
<1> QED
  BY <1>1, <1>3, <1>4, <1>6, <1>7, SameStepKeeps DEF SameWaits

LEMMA ResumeKeeps ==
  ASSUME WInv, LInv', NEW t \in Tasks, Resume(t)
  PROVE  WInv'
<1>1. /\ os.current = t /\ task[t].at = "run" /\ os \in Schedulers /\ MutexSane /\ Sound(os) /\ Asleep(os)
      /\ task = [u \in Tasks |-> task[u]] /\ CallSane(task[t], queue)
      /\ os.locked = 0 /\ ~ Left(task[t]) /\ InReady(os, t)
  BY RunnerIs DEF Resume, Within, Left
<1>2. UNCHANGED <<queue, task>>
  BY DEF Resume
<1>3. Rouses(os', os) /\ os'.locked = 0 /\ os'.current = t
  <2>1. CASE os' = os
    BY <1>1, <2>1, SameRouses
  <2>2. CASE os' # os
    <3>1. PICK c \in program.calls[t] :
             /\ c.op = "resume" /\ ~ InEvent(os, c.q)
             /\ os' = AddToReady(RemoveGeneric(os, c.q), c.q)
      BY <2>2 DEF Resume
    <3>2. PICK u, x : u = c.q /\ x = RemoveGeneric(os, u)
      OBVIOUS
    <3>3. u \in Tasks
      BY <3>1, <3>2, ProgramsAssumption DEF WellFormed, WInv, LInv, IInv
    <3>4. /\ Loose(x, u) /\ Same(x, os) /\ x.pending = os.pending /\ x.event = os.event
          /\ Drops1(x, os, u)
      BY <1>1, <3>2, <3>3, RemoveGenericLoose, RemoveGenericDrops
    <3>5. x \in Schedulers
      BY <3>4 DEF Loose, Lists
    <3>6. /\ Same(os', x) /\ os'.pending = x.pending /\ os'.event = x.event
          /\ Wakes1(os', x, u)
      BY <3>1, <3>2, <3>3, <3>4, <3>5, AddToReadySound, AddToReadyWakes
    <3>7. ~ Waits(os, u) /\ ~ Contains(os.pending, u)
      <4>1. DOMAIN os.event = EventLists
        BY <1>1 DEF Schedulers, Events, EventLists
      <4> QED
        BY <3>1, <3>2, <4>1 DEF InEvent, Waits
    <3>8. Frees(os', os, u) /\ Wakes1(os', os, u)
      BY <1>1, <3>3, <3>4, <3>6, <3>7, SameFrees DEF Wakes1, Drops1
    <3> QED
      BY <1>1, <3>3, <3>4, <3>6, <3>8, FreedRouses DEF Same
  <2> QED
    BY <2>1, <2>2
<1>4. PICK r : r = task[t] /\ task' = [task EXCEPT ![t] = r]
  BY <1>1, <1>2
<1>5. CallSane(r, queue') /\ MutexSane' /\ ~ Leaves(t, r) /\ r.at \notin Within /\ InReady(os', t)
  BY <1>1, <1>2, <1>3, <1>4 DEF MutexSane, Leaves, Sleeping, Within, Rouses
<1>6. \A l \in EventLists : Surplus(queue', l) = Surplus(queue, l)
  BY <1>2
<1> QED
  BY <1>1, <1>3, <1>4, <1>5, <1>6, PlainStepKeeps DEF Rouses

LEMMA PlaceKeeps ==
  ASSUME WInv, LInv', NEW t \in Tasks, Place(t)
  PROVE  WInv'
<1>1. /\ os.current = t /\ task[t].at = "place" /\ os \in Schedulers /\ MutexSane /\ Sound(os) /\ Asleep(os)
      /\ task = [u \in Tasks |-> task[u]] /\ DOMAIN task[t] = TaskFields
      /\ CallSane(task[t], queue) /\ os.locked = 1 /\ ~ Left(task[t]) /\ InReady(os, t) /\ ~ Waits(os, t)
  BY RunnerIs DEF Place, Within, Left
<1>2. PICK c, h, s, l :
         /\ c = task[t].call /\ h = queue[c.q].holder
         /\ s = (IF c.q \in Mutexes /\ c.op \in GetOps /\ h # NoTask THEN Inherit(os, h) ELSE os)
         /\ l = (IF c.op \in PutOps THEN Senders(c.q) ELSE Receivers(c.q))
  OBVIOUS
<1>3. os' = PlaceOnEventList(s, l, task[t].ticks) /\ GoTo(t, "unlockTx") /\ UNCHANGED <<queue, pendSV>>
  BY <1>2 DEF Place
<1>4. c.q \in Queues /\ l \in EventLists /\ l = For(task[t])
  <2>1. c.q \in Queues
    BY <1>1, <1>2, CallIs DEF WInv, InCall
  <2> QED
    BY <1>2, <2>1, EventNames DEF EventLists, For, Senders, Receivers
<1>5. Sound(s) /\ Rouses(s, os) /\ s.locked = 1 /\ s.current = t
  <2>1. CASE s = os
    BY <1>1, <2>1, SameRouses
  <2>2. CASE s # os
    <3>1. s = Inherit(os, h) /\ h \in Tasks
      BY <1>2, <1>4, <2>2 DEF WInv, LInv, QueuesSane, QueueSane
    <3>2. Sound(s) /\ s.current = os.current
      <4>1. Sound(os)
        BY <1>1
      <4> QED
        BY ONLY <4>1, <3>1, InheritSound
    <3>3. Rouses(s, os) /\ s.locked = os.locked
      BY <1>1, <3>1, InheritRouses
    <3> QED
      BY <1>1, <3>2, <3>3
  <2> QED
    BY <2>1, <2>2
<1>6. Asleep(s) /\ InReady(s, t)
  BY <1>1, <1>5 DEF Rouses
<1>7. /\ Asleep(os') /\ os'.locked = 1 /\ os'.current = t
      /\ \A k \in EventLists : \A u \in Tasks :
            Contains(os'.event[k], u) <=> Contains(s.event[k], u) \/ (k = l /\ u = t)
  <2>1. t # Idle
    BY <1>1 DEF WInv, LInv, TasksSane
  <2>2. task[t].ticks \in Int
    BY DEF WInv, LInv, TasksSane, TaskSane
  <2>3. os'.current = t
    BY <1>3, <1>4, <1>5, <2>1, <2>2, PlaceSound DEF EventLists, Kept
  <2> QED
    BY <1>3, <1>4, <1>5, <1>6, <2>3, PlaceSleeps
<1>8. PICK r : task' = [task EXCEPT ![t] = r] /\ r.at = "unlockTx" /\ r.call = task[t].call /\ r.fate = task[t].fate
  BY <1>1, <1>3, GoToIs
<1>9. r.fate = "wait" /\ Sleeping(r) /\ For(r) = l /\ Surplus(queue, l) <= 0
  BY <1>1, <1>4, <1>8 DEF CallSane, Sleeping, For
<1>10. CallSane(r, queue') /\ MutexSane' /\ Left(r) /\ r.at \in Within
  BY <1>1, <1>3, <1>8, <1>9 DEF CallSane, InCall, MutexSane, Within, Left
<1>11. OneWithin' /\ RunnerReady' /\ CallsSane'
  BY <1>1, <1>7, <1>8, <1>10, StepShape
<1>12. task'[t] = r /\ \A u \in Tasks \ {t} : task'[u] = task[u]
  BY <1>1, <1>8
<1>13. Sleepers(task', os')
  <2>1. SUFFICES ASSUME NEW u \in Tasks, NEW k \in EventLists, Contains(os'.event[k], u)
                 PROVE  Sleeping(task'[u]) /\ k = For(task'[u])
    BY DEF Sleepers
  <2>2. CASE Contains(s.event[k], u)
    <3>1. Contains(os.event[k], u)
      BY <1>5, <2>2 DEF Rouses, Fewer
    <3>2. u # t /\ Sleeping(task[u]) /\ k = For(task[u])
      BY <1>1, <3>1 DEF Waits, WInv, Sleepers
    <3> QED
      BY <1>12, <3>2
  <2>3. CASE k = l /\ u = t
    BY <1>9, <1>12, <2>3
  <2> QED
    BY <1>7, <2>1, <2>2, <2>3
<1>14. ASSUME NEW k \in EventLists PROVE Enough(task', os', queue', k)
  <2>1. Cardinality(WokenAt(task', os', k)) \in Nat /\ Surplus(queue, k) \in Int
    BY SurplusIs, WokenFinite DEF WInv, LInv, IInv, StoresSound, MutexSane, QueuesSane
  <2>2. CASE k = l
    BY <1>3, <1>9, <2>1, <2>2 DEF Enough
  <2>3. CASE k # l
    <3>1. Enough(task, os, queue, k)
      BY DEF WInv
    <3>2. os'.event[k] # << >> => os.event[k] # << >>
      <4>1. os.event[k] \in Seq(Tasks) /\ os'.event[k] \in Seq(Tasks)
        <5>1. os \in Schedulers /\ os' \in Schedulers
          BY SoundTyped DEF WInv, LInv
        <5>2. os.event \in Events /\ os'.event \in Events
          BY <5>1 DEF Schedulers
        <5> QED
          BY <5>2 DEF Events, EventLists
      <4>2. ASSUME os'.event[k] # << >> PROVE os.event[k] # << >>
        <5>1. PICK u \in Tasks : Contains(os'.event[k], u)
          BY <4>1, <4>2, EmptyHasNone
        <5>2. Contains(os.event[k], u)
          BY <1>5, <1>7, <2>3, <5>1 DEF Rouses, Fewer
        <5> QED
          BY <4>1, <5>2, EmptyHasNone
      <4> QED
        BY <4>2
    <3>3. WokenAt(task, os, k) \subseteq WokenAt(task', os', k)
      <4>1. ASSUME NEW u \in Tasks, Sleeping(task[u]), k = For(task[u]), ~ Contains(os.event[k], u)
            PROVE  Sleeping(task'[u]) /\ k = For(task'[u]) /\ ~ Contains(os'.event[k], u)
        <5>1. u # t
          BY <1>1, <4>1 DEF Sleeping
        <5>2. ~ Contains(os'.event[k], u)
          BY <1>5, <1>7, <2>3, <4>1 DEF Rouses, Fewer
        <5> QED
          BY <1>12, <4>1, <5>1, <5>2
      <4> QED
        BY <4>1 DEF WokenAt
    <3>4. Cardinality(WokenAt(task, os, k)) <= Cardinality(WokenAt(task', os', k))
      BY <3>3, WokenFinite, FS_Subset
    <3>5. Cardinality(WokenAt(task, os, k)) \in Nat
      BY WokenFinite
    <3> QED
      BY <1>3, <2>1, <3>1, <3>2, <3>4, <3>5 DEF Enough
  <2> QED
    BY <2>2, <2>3
<1> QED
  BY <1>7, <1>10, <1>11, <1>13, <1>14 DEF WInv

-----------------------------------------------------------------------------
(***************************************************************************)
(* The turns of the queue functions.                                       *)
(***************************************************************************)
TurnOf(t, c) ==
    /\ os.current = t /\ os.locked = 0 /\ InReady(os, t) /\ ~ Waits(os, t) /\ ~ Left(task[t])
    /\ WellFormed(c) /\ c.op \in PutOps \cup GetOps
    /\ Sleeping(task[t]) => c = task[t].call /\ c.op \in {"back", "front"} \cup GetOps
    /\ c.q \in Mutexes => IF c.op \in PutOps THEN c.op = "back" /\ queue[c.q].holder = t
                                            ELSE c.op = "receive"

LEMMA TurnEnds ==
  ASSUME WInv, LInv', NEW t \in Tasks, NEW c, TurnOf(t, c), Return(t), Rouses(os', os),
         os'.locked = 0, os'.current = t, MutexSane',
         \A l \in EventLists : os'.event[l] # << >> =>
            \/ Surplus(queue', l) <= 0
            \/ Surplus(queue', l) + (IF Sleeping(task[t]) /\ l = For(task[t]) THEN 1 ELSE 0)
                  <= Surplus(queue, l) + Cardinality(Freed(os', os, l))
  PROVE  WInv'
<1>1. PICK r : task' = [task EXCEPT ![t] = r] /\ r = Outside(task[t].lastWake)
  BY DEF Return
<1>2. r.at = "run"
  BY <1>1 DEF Outside
<1>3. CallSane(r, queue') /\ r.at \notin Within /\ (Leaves(t, r) <=> Sleeping(task[t]))
  BY <1>2 DEF CallSane, InCall, Leaves, Sleeping, Within
<1>4. os.current = t /\ ~ Waits(os, t) /\ InReady(os', t)
  BY DEF TurnOf, Rouses
<1>5. Asleep(os') /\ Fewer(os', os)
  BY DEF Rouses
<1>6. \A l \in EventLists : os'.event[l] # << >> =>
         \/ Surplus(queue', l) <= 0
         \/ Surplus(queue', l) + Leaving(t, r, l) <= Surplus(queue, l) + Cardinality(Freed(os', os, l))
  BY <1>3 DEF Leaving
<1> QED
  BY <1>1, <1>3, <1>4, <1>5, <1>6, StepKeeps

LEMMA WokeFrees ==
  ASSUME NEW s \in Schedulers, NEW x \in Schedulers, NEW r \in Schedulers, NEW l \in EventLists,
         Fewer(x, s), Fewer(r, x), Woke(r, x, l), r.event[l] # << >>
  PROVE  Cardinality(Freed(r, s, l)) >= 1
<1>1. x.event[l] \in Seq(Tasks) /\ r.event[l] \in Seq(Tasks)
  <2>1. x.event \in Events /\ r.event \in Events
    BY DEF Schedulers
  <2> QED
    BY <2>1 DEF Events, EventLists
<1>2. PICK u \in Tasks : Contains(r.event[l], u)
  BY <1>1, EmptyHasNone
<1>3. Contains(x.event[l], u)
  BY <1>2 DEF Fewer
<1>4. x.event[l] # << >>
  BY <1>1, <1>3, EmptyHasNone
<1>5. PICK h \in Tasks : Contains(x.event[l], h) /\ ~ Contains(r.event[l], h)
  BY <1>4 DEF Woke
<1>6. h \in Freed(r, s, l)
  BY <1>5 DEF Freed, Fewer
<1>7. IsFiniteSet(Freed(r, s, l)) /\ Cardinality(Freed(r, s, l)) \in Nat
  BY WokenFinite
<1> QED
  BY <1>6, <1>7, FS_EmptySet

\* What a put does to a queue.
LEMMA CopyToAdds ==
  ASSUME IInv, MutexSane, QueuesSane, NEW q \in Queues, NEW op \in PutOps, NEW x, NEW y, y = CopyTo(q, op, x),
         ~ Full(q) \/ op = "overwrite", q \in Mutexes => op = "back",
         op = "overwrite" => Length[q] = 1
  PROVE  /\ y.tx = queue[q].tx /\ y.rx = queue[q].rx
         /\ \/ y.store.waiting = queue[q].store.waiting + 1
            \/ op = "overwrite" /\ y.store.waiting = queue[q].store.waiting
         /\ q \in Mutexes => MutexFree(y)
<1>1. /\ QueuesShaped /\ DOMAIN queue[q] = QueueFields /\ y.tx = queue[q].tx /\ y.rx = queue[q].rx
      /\ y.holder = NoTask
  BY CopyToSane DEF IInv, QueuesShaped
<1>2. queue[q].store.waiting \in 0 .. Length[q] /\ Length[q] \in Nat \ {0}
  BY WaitingIs DEF IInv, StoresSound, MutexSane
<1>3. CASE q \in Mutexes
  <2>1. PICK s : s = [queue[q].store EXCEPT !.waiting = @ + 1]
    OBVIOUS
  <2>2. y = [queue[q] EXCEPT !.store = s, !.holder = NoTask]
    BY <1>3, <2>1 DEF CopyTo
  <2>3. y.store = s
    BY <1>1, <2>2 DEF QueueFields
  <2>4. MutexFree(queue[q]) /\ Length[q] = 1
    BY <1>3, LengthAssumption DEF MutexSane
  <2>5. "waiting" \in DOMAIN s /\ s.waiting = queue[q].store.waiting + 1
    BY <2>1, <2>4 DEF MutexFree
  <2>6. queue[q].store.waiting = 0
    BY <1>2, <1>3, <2>4 DEF Full, S!IsFull, PutOps
  <2> QED
    BY <1>1, <2>3, <2>5, <2>6 DEF MutexFree
<1>4. CASE q \notin Mutexes
  <2>1. PICK s : y = [queue[q] EXCEPT !.store = s, !.holder = NoTask]
                 /\ (\/ s = S!SendToBack(queue[q].store, Length[q], x)
                     \/ s = S!SendToFront(queue[q].store, Length[q], x)
                     \/ op = "overwrite" /\ s = S!Overwrite(queue[q].store, Length[q], x))
    BY <1>4 DEF CopyTo, PutOps
  <2>2. y.store = s
    BY <1>1, <2>1 DEF QueueFields
  <2>3. \/ s.waiting = queue[q].store.waiting + 1
        \/ op = "overwrite" /\ s.waiting = queue[q].store.waiting
    BY <2>1 DEF S!SendToBack, S!SendToFront, S!Overwrite
  <2> QED
    BY <1>1, <1>4, <2>2, <2>3
<1> QED
  BY <1>3, <1>4

LEMMA SendNowKeeps ==
  ASSUME WInv, LInv', NEW t \in Tasks, NEW c, TurnOf(t, c), SendNow(t, c)
  PROVE  WInv'
<1>1. PICK q : q = c.q
  OBVIOUS
<1>2. /\ q \in Queues /\ c.op \in PutOps /\ (~ Full(q) \/ c.op = "overwrite")
      /\ (q \in Mutexes => c.op = "back" /\ queue[q].holder = t) /\ (c.op = "overwrite" => Length[q] = 1)
  BY <1>1 DEF TurnOf, WellFormed, SendNow, Possible
<1>3. /\ IInv /\ MutexSane /\ QueuesSane /\ QueuesShaped /\ Sound(os) /\ Asleep(os) /\ os \in Schedulers
      /\ os' \in Schedulers /\ os.current = t /\ os.locked = 0 /\ InReady(os, t)
  BY SoundTyped DEF WInv, LInv, IInv, TurnOf
<1>4. PICK item, y : y = CopyTo(q, c.op, item) /\ queue' = [queue EXCEPT ![q] = y]
  BY <1>1 DEF SendNow
<1>5. /\ y.tx = queue[q].tx /\ y.rx = queue[q].rx
      /\ \/ y.store.waiting = queue[q].store.waiting + 1
         \/ c.op = "overwrite" /\ y.store.waiting = queue[q].store.waiting
      /\ q \in Mutexes => MutexFree(y)
  BY <1>2, <1>3, <1>4, CopyToAdds
<1>6. MutexSane'
  BY <1>2, <1>3, <1>4, <1>5, MutexSet
<1>7. PICK given : given = IF Gives(q, c.op) THEN Disinherit(os, t) ELSE os
  OBVIOUS
<1>8. /\ Sound(given) /\ Rouses(given, os) /\ given.locked = 0 /\ given.current = t
  <2>1. CASE given = os
    BY <1>3, <2>1, SameRouses
  <2>2. CASE given = Disinherit(os, t)
    <3>1. Sound(given) /\ given.current = os.current
      <4>1. Sound(os)
        BY <1>3
      <4> QED
        BY ONLY <2>2, <4>1, t \in Tasks, DisinheritSound, ZenonT(60)
    <3>2. Rouses(given, os) /\ given.locked = os.locked
      BY <1>3, <2>2, DisinheritRouses
    <3> QED
      BY <1>3, <3>1, <3>2
  <2> QED
    BY <1>7, <2>1, <2>2
<1>9. os' = Wake(given, Receivers(q))
  <2>1. Gives(q, c.op) => queue[q].holder = t
    BY <1>2 DEF Gives
  <2> QED
    BY <1>1, <1>7, <2>1 DEF SendNow
<1>10. Receivers(q) \in EventLists /\ Senders(q) \in EventLists
  BY <1>2, EventNames DEF EventLists
<1>11. given \in Schedulers /\ Asleep(given)
  BY <1>8, SoundTyped DEF Rouses
<1>12. Rouses(os', given) /\ os'.locked = 0 /\ Woke(os', given, Receivers(q)) /\ os'.current = t
  <2>1. Rouses(os', given) /\ os'.locked = given.locked /\ Woke(os', given, Receivers(q))
    BY <1>8, <1>9, <1>10, <1>11, WakeRouses
  <2>2. os'.current = given.current
    BY <1>8, <1>9, <1>10, WakeSound DEF EventLists, Kept
  <2> QED
    BY <1>8, <2>1, <2>2
<1>13. Rouses(os', os)
  BY <1>8, <1>12, RousesAgain
<1>14. os'.event[Receivers(q)] # << >> => Cardinality(Freed(os', os, Receivers(q))) >= 1
  BY <1>3, <1>8, <1>10, <1>11, <1>12, WokeFrees DEF Rouses
<1>15. /\ \A l \in EventLists : l # Receivers(q) /\ l # Senders(q) => Surplus(queue', l) = Surplus(queue, l)
       /\ Surplus(queue, Receivers(q)) = queue[q].store.waiting - AtLeast0(queue[q].tx)
       /\ Surplus(queue, Senders(q)) = Length[q] - queue[q].store.waiting - AtLeast0(queue[q].rx)
       /\ Surplus(queue', Receivers(q)) = y.store.waiting - AtLeast0(y.tx)
       /\ Surplus(queue', Senders(q)) = Length[q] - y.store.waiting - AtLeast0(y.rx)
  BY <1>2, <1>3, <1>4, SurplusSet
<1>16. queue[q].store.waiting \in Int /\ Length[q] \in Int
  BY <1>2, <1>3, WaitingIs DEF IInv, StoresSound, MutexSane
<1>17. \A l \in EventLists : Surplus(queue, l) \in Int /\ Cardinality(Freed(os', os, l)) \in Nat
  BY <1>3, SurplusIs, WokenFinite DEF IInv, StoresSound, MutexSane, QueuesSane
<1>18. AtLeast0(queue[q].tx) \in Int /\ AtLeast0(queue[q].rx) \in Int
  BY <1>2, <1>3 DEF QueuesSane, QueueSane, AtLeast0, Unlocked
<1>19. Sleeping(task[t]) => For(task[t]) = Senders(q) /\ c.op # "overwrite"
  BY <1>1, <1>2 DEF TurnOf, For, Senders, GetOps
<1>20. Senders(q) # Receivers(q)
  BY DEF Senders, Receivers
<1>21. ASSUME NEW l \in EventLists, os'.event[l] # << >>
       PROVE  Surplus(queue', l) + (IF Sleeping(task[t]) /\ l = For(task[t]) THEN 1 ELSE 0)
                 <= Surplus(queue, l) + Cardinality(Freed(os', os, l))
  <2>1. CASE l = Receivers(q)
    <3>1. Surplus(queue', l) <= Surplus(queue, l) + 1
      BY <1>5, <1>15, <1>16, <1>18, <2>1
    <3>2. Surplus(queue', l) \in Int /\ ~ (Sleeping(task[t]) /\ l = For(task[t]))
      BY <1>5, <1>15, <1>16, <1>18, <1>19, <1>20, <2>1
    <3>3. Cardinality(Freed(os', os, l)) >= 1
      BY <1>14, <1>21, <2>1
    <3> QED
      BY <1>17, <3>1, <3>2, <3>3
  <2>2. CASE l = Senders(q)
    <3>1. Surplus(queue', l) \in Int
      BY <1>5, <1>15, <1>16, <1>18, <2>2
    <3>2. CASE y.store.waiting = queue[q].store.waiting + 1
      <4>1. Surplus(queue', l) + 1 = Surplus(queue, l)
        BY <1>5, <1>15, <1>16, <1>18, <2>2, <3>2
      <4> QED
        BY <1>17, <3>1, <4>1
    <3>3. CASE c.op = "overwrite" /\ y.store.waiting = queue[q].store.waiting
      <4>1. Surplus(queue', l) = Surplus(queue, l) /\ ~ Sleeping(task[t])
        BY <1>5, <1>15, <1>16, <1>18, <1>19, <2>2, <3>3
      <4> QED
        BY <1>17, <3>1, <4>1
    <3> QED
      BY <1>5, <3>2, <3>3
  <2>3. CASE l # Receivers(q) /\ l # Senders(q)
    <3>1. Surplus(queue', l) = Surplus(queue, l) /\ ~ (Sleeping(task[t]) /\ l = For(task[t]))
      BY <1>15, <1>19, <2>3
    <3> QED
      BY <1>17, <3>1
  <2> QED
    BY <2>1, <2>2, <2>3
<1>22. Return(t)
  BY DEF SendNow
<1> QED
  BY <1>6, <1>12, <1>13, <1>21, <1>22, TurnEnds

LEMMA ReceiveNowKeeps ==
  ASSUME WInv, LInv', NEW t \in Tasks, NEW c, TurnOf(t, c), ReceiveNow(t, c)
  PROVE  WInv'
<1>1. PICK q : q = c.q
  OBVIOUS
<1>2. q \in Queues /\ c.op = "receive" /\ ~ Empty(q) /\ c.op \notin PutOps
  BY <1>1 DEF TurnOf, WellFormed, ReceiveNow, Possible, PutOps, GetOps
<1>3. /\ IInv /\ MutexSane /\ QueuesSane /\ QueuesShaped /\ Sound(os) /\ Asleep(os) /\ os \in Schedulers
      /\ os' \in Schedulers /\ os.current = t /\ os.locked = 0 /\ InReady(os, t)
  BY SoundTyped DEF WInv, LInv, IInv, TurnOf
<1>4. DOMAIN queue[q] = QueueFields /\ queue = [u \in Queues |-> queue[u]]
  BY <1>2, <1>3 DEF QueuesShaped
<1>5. PICK y : /\ queue' = [queue EXCEPT ![q] = y] /\ y.tx = queue[q].tx /\ y.rx = queue[q].rx
               /\ y.store.waiting = queue[q].store.waiting - 1 /\ (q \in Mutexes => MutexFree(y))
  <2>1. CASE q \in Mutexes
    <3>1. PICK s, r : s = [queue[q].store EXCEPT !.waiting = @ - 1] /\ r = [queue[q] EXCEPT !.store = s, !.holder = t]
      OBVIOUS
    <3>2. MutexFree(queue[q])
      BY <1>3, <2>1 DEF MutexSane
    <3>3. "waiting" \in DOMAIN s /\ s.waiting = queue[q].store.waiting - 1
      BY <3>1, <3>2 DEF MutexFree
    <3>4. queue' = [queue EXCEPT ![q] = r]
      <4>1. queue' = [queue EXCEPT ![q].store.waiting = @ - 1, ![q].holder = t]
        BY <1>1, <2>1 DEF ReceiveNow
      <4> QED
        BY <1>2, <1>4, <3>1, <4>1
    <3>5. r.tx = queue[q].tx /\ r.rx = queue[q].rx /\ r.store = s /\ r.holder = t
      BY <1>4, <3>1 DEF QueueFields
    <3>6. queue[q].store.waiting = 1
      BY <1>2, <3>2 DEF MutexFree, Empty, S!IsEmpty
    <3>7. t # NoTask
      BY NoTaskAssumption
    <3>8. MutexFree(r)
      BY <3>3, <3>5, <3>6, <3>7 DEF MutexFree
    <3> QED
      BY ONLY <3>3, <3>4, <3>5, <3>8
  <2>2. CASE q \notin Mutexes
    <3>1. PICK r : r = [queue[q] EXCEPT !.store = S!Receive(@, Length[q])]
      OBVIOUS
    <3>2. queue' = [queue EXCEPT ![q] = r]
      BY <1>1, <2>2, <3>1 DEF ReceiveNow
    <3>3. r.tx = queue[q].tx /\ r.rx = queue[q].rx /\ r.store = S!Receive(queue[q].store, Length[q])
      BY <1>4, <3>1 DEF QueueFields
    <3>4. r.store.waiting = queue[q].store.waiting - 1
      BY <3>3 DEF S!Receive
    <3> QED
      BY ONLY <2>2, <3>2, <3>3, <3>4
  <2> QED
    BY <2>1, <2>2
<1>6. MutexSane'
  BY <1>2, <1>3, <1>5, MutexSet
<1>7. PICK s : s = IF q \in Mutexes THEN [os EXCEPT !.held[t] = @ + 1] ELSE os
  OBVIOUS
<1>8. Sound(s) /\ Rouses(s, os) /\ s.locked = 0 /\ s.current = t
  <2>1. CASE q \in Mutexes
    <3>1. PICK n : n = os.held[t] + 1
      OBVIOUS
    <3>2. n \in Int
      BY <1>3, <3>1 DEF Schedulers, Counts
    <3>3. s = WithHeld(os, t, n)
      BY <1>7, <2>1, <3>1 DEF WithHeld
    <3>4. Sound(s)
      BY <1>3, <3>2, <3>3, HeldSound
    <3>5. SameWaits(s, os) /\ s.current = t
      BY <1>3, <3>3 DEF WithHeld, SameWaits, Schedulers
    <3> QED
      BY <1>3, <3>4, <3>5, SameWaitsRouses
  <2> QED
    BY <1>3, <1>7, <2>1, SameRouses
<1>9. os' = Wake(s, Senders(q))
  BY <1>1, <1>7 DEF ReceiveNow
<1>10. Receivers(q) \in EventLists /\ Senders(q) \in EventLists
  BY <1>2, EventNames DEF EventLists
<1>11. s \in Schedulers /\ Asleep(s)
  BY <1>8, SoundTyped DEF Rouses
<1>12. Rouses(os', s) /\ os'.locked = 0 /\ Woke(os', s, Senders(q)) /\ os'.current = t
  <2>1. Rouses(os', s) /\ os'.locked = s.locked /\ Woke(os', s, Senders(q))
    BY <1>8, <1>9, <1>10, <1>11, WakeRouses
  <2>2. os'.current = s.current
    BY <1>8, <1>9, <1>10, WakeSound DEF EventLists, Kept
  <2> QED
    BY <1>8, <2>1, <2>2
<1>13. Rouses(os', os)
  BY <1>8, <1>12, RousesAgain
<1>14. os'.event[Senders(q)] # << >> => Cardinality(Freed(os', os, Senders(q))) >= 1
  BY <1>3, <1>8, <1>10, <1>11, <1>12, WokeFrees DEF Rouses
<1>15. /\ \A l \in EventLists : l # Receivers(q) /\ l # Senders(q) => Surplus(queue', l) = Surplus(queue, l)
       /\ Surplus(queue, Receivers(q)) = queue[q].store.waiting - AtLeast0(queue[q].tx)
       /\ Surplus(queue, Senders(q)) = Length[q] - queue[q].store.waiting - AtLeast0(queue[q].rx)
       /\ Surplus(queue', Receivers(q)) = y.store.waiting - AtLeast0(y.tx)
       /\ Surplus(queue', Senders(q)) = Length[q] - y.store.waiting - AtLeast0(y.rx)
  BY <1>2, <1>3, <1>5, SurplusSet
<1>16. queue[q].store.waiting \in Int /\ Length[q] \in Int
  BY <1>2, <1>3, WaitingIs DEF IInv, StoresSound, MutexSane
<1>17. \A l \in EventLists : Surplus(queue, l) \in Int /\ Cardinality(Freed(os', os, l)) \in Nat
  BY <1>3, SurplusIs, WokenFinite DEF IInv, StoresSound, MutexSane, QueuesSane
<1>18. AtLeast0(queue[q].tx) \in Int /\ AtLeast0(queue[q].rx) \in Int
  BY <1>2, <1>3 DEF QueuesSane, QueueSane, AtLeast0, Unlocked
<1>19. Sleeping(task[t]) => For(task[t]) = Receivers(q)
  BY <1>1, <1>2 DEF TurnOf, For, Receivers
<1>20. Senders(q) # Receivers(q)
  BY DEF Senders, Receivers
<1>21. ASSUME NEW l \in EventLists, os'.event[l] # << >>
       PROVE  Surplus(queue', l) + (IF Sleeping(task[t]) /\ l = For(task[t]) THEN 1 ELSE 0)
                 <= Surplus(queue, l) + Cardinality(Freed(os', os, l))
  <2>1. CASE l = Senders(q)
    <3>1. Surplus(queue', l) = Surplus(queue, l) + 1
      BY <1>5, <1>15, <1>16, <1>18, <2>1
    <3>2. ~ (Sleeping(task[t]) /\ l = For(task[t]))
      BY <1>19, <1>20, <2>1
    <3>3. Cardinality(Freed(os', os, l)) >= 1
      BY <1>14, <1>21, <2>1
    <3> QED
      BY <1>17, <3>1, <3>2, <3>3
  <2>2. CASE l = Receivers(q)
    <3>1. Surplus(queue', l) + 1 = Surplus(queue, l) /\ Surplus(queue', l) \in Int
      BY <1>5, <1>15, <1>16, <1>18, <2>2
    <3> QED
      BY <1>17, <3>1
  <2>3. CASE l # Receivers(q) /\ l # Senders(q)
    <3>1. Surplus(queue', l) = Surplus(queue, l) /\ ~ (Sleeping(task[t]) /\ l = For(task[t]))
      BY <1>15, <1>19, <2>3
    <3> QED
      BY <1>17, <3>1
  <2> QED
    BY <2>1, <2>2, <2>3
<1>22. Return(t)
  BY DEF ReceiveNow
<1> QED
  BY <1>6, <1>12, <1>13, <1>21, <1>22, TurnEnds

LEMMA PeekNowKeeps ==
  ASSUME WInv, LInv', NEW t \in Tasks, NEW c, TurnOf(t, c), PeekNow(t, c)
  PROVE  WInv'
<1>1. PICK q : q = c.q
  OBVIOUS
<1>2. q \in Queues /\ c.op \notin PutOps
  BY <1>1 DEF TurnOf, WellFormed, PeekNow, PutOps, GetOps
<1>3. /\ IInv /\ MutexSane /\ QueuesSane /\ Sound(os) /\ Asleep(os) /\ os \in Schedulers
      /\ os' \in Schedulers /\ os.current = t /\ os.locked = 0 /\ UNCHANGED queue /\ Return(t)
      /\ os' = Wake(os, Receivers(q))
  BY <1>1, SoundTyped DEF WInv, LInv, IInv, TurnOf, PeekNow
<1>4. Receivers(q) \in EventLists
  BY <1>2, EventNames DEF EventLists
<1>5. Rouses(os', os) /\ os'.locked = 0 /\ Woke(os', os, Receivers(q)) /\ os'.current = t
  <2>1. Rouses(os', os) /\ os'.locked = os.locked /\ Woke(os', os, Receivers(q))
    BY <1>3, <1>4, WakeRouses
  <2>2. os'.current = os.current
    BY <1>3, <1>4, WakeSound DEF EventLists, Kept
  <2> QED
    BY <1>3, <2>1, <2>2
<1>6. os'.event[Receivers(q)] # << >> => Cardinality(Freed(os', os, Receivers(q))) >= 1
  BY <1>3, <1>4, <1>5, WokeFrees DEF Rouses, Fewer
<1>7. \A l \in EventLists : Surplus(queue, l) \in Int /\ Cardinality(Freed(os', os, l)) \in Nat
  BY <1>3, SurplusIs, WokenFinite DEF IInv, StoresSound, MutexSane, QueuesSane
<1>8. Sleeping(task[t]) => For(task[t]) = Receivers(q)
  BY <1>1, <1>2 DEF TurnOf, For, Receivers
<1>9. MutexSane'
  BY <1>3 DEF MutexSane
<1>10. ASSUME NEW l \in EventLists, os'.event[l] # << >>
       PROVE  Surplus(queue', l) + (IF Sleeping(task[t]) /\ l = For(task[t]) THEN 1 ELSE 0)
                 <= Surplus(queue, l) + Cardinality(Freed(os', os, l))
  BY <1>3, <1>6, <1>7, <1>8, <1>10
<1> QED
  BY <1>3, <1>5, <1>9, <1>10, TurnEnds

LEMMA GiveUpKeeps ==
  ASSUME WInv, LInv', NEW t \in Tasks, NEW c, NEW ticks, TurnOf(t, c), GiveUp(t, c, ticks)
  PROVE  WInv'
<1>1. /\ Asleep(os) /\ os.locked = 0 /\ os.current = t /\ MutexSane /\ UNCHANGED <<os, queue>> /\ Return(t)
      /\ ~ Possible(c) /\ c.q \in Queues
  BY DEF WInv, TurnOf, GiveUp, WellFormed
<1>2. Rouses(os', os) /\ MutexSane'
  BY <1>1, SameRouses DEF MutexSane
<1>3. Sleeping(task[t]) => Surplus(queue, For(task[t])) <= 0
  BY <1>1, NothingThere DEF TurnOf
<1>4. \A l \in EventLists : Surplus(queue, l) \in Int /\ Cardinality(Freed(os', os, l)) \in Nat
  BY SurplusIs, WokenFinite DEF WInv, LInv, IInv, StoresSound, MutexSane, QueuesSane
<1>5. ASSUME NEW l \in EventLists
      PROVE \/ Surplus(queue', l) <= 0
            \/ Surplus(queue', l) + (IF Sleeping(task[t]) /\ l = For(task[t]) THEN 1 ELSE 0)
                  <= Surplus(queue, l) + Cardinality(Freed(os', os, l))
  BY <1>1, <1>3, <1>4
<1> QED
  BY <1>1, <1>2, <1>5, TurnEnds

\* A mutex is free unless it is held: who finds it full is not who gives it back.
LEMMA BlockKeeps ==
  ASSUME WInv, LInv', NEW t \in Tasks, NEW c, NEW ticks, NEW first \in BOOLEAN, TurnOf(t, c),
         ~ first => c = task[t].call, Block(t, c, ticks, first)
  PROVE  WInv'
<1>1. /\ Asleep(os) /\ os.locked = 0 /\ os.current = t /\ MutexSane /\ UNCHANGED <<os, queue>>
      /\ ~ Possible(c) /\ c.q \in Queues /\ InReady(os, t) /\ ~ Waits(os, t)
      /\ task = [u \in Tasks |-> task[u]] /\ DOMAIN task[t] = TaskFields
  BY DEF WInv, LInv, IInv, CallsSound, TurnOf, Block, WellFormed
<1>2. PICK r : task' = [task EXCEPT ![t] = r] /\ r.at = "suspendAll" /\ r.call = c
  <2>1. CASE first
    <3>1. PICK x : x = [task[t] EXCEPT !.at = "suspendAll", !.call = c, !.ticks = ticks,
                                       !.entered = os.tick, !.overflows = os.overflows,
                                       !.began = Now, !.fate = "none"]
      OBVIOUS
    <3>2. task' = [task EXCEPT ![t] = x]
      BY <1>1, <2>1, <3>1 DEF Block
    <3>3. x.at = "suspendAll" /\ x.call = c
      BY <1>1, <3>1 DEF TaskFields
    <3> QED
      BY ONLY <3>2, <3>3
  <2>2. CASE ~ first
    <3>1. PICK x : x = [task[t] EXCEPT !.at = "suspendAll"]
      OBVIOUS
    <3>2. task' = [task EXCEPT ![t] = x]
      BY <2>2, <3>1 DEF Block
    <3>3. x.at = "suspendAll" /\ x.call = task[t].call
      BY <1>1, <3>1 DEF TaskFields
    <3>4. c = task[t].call
      BY <2>2
    <3> QED
      BY ONLY <3>2, <3>3, <3>4
  <2> QED
    BY <2>1, <2>2
<1>3. c.op \in {"back", "front"} \cup GetOps
  BY <1>1 DEF TurnOf, Possible, PutOps
<1>4. c.q \in Mutexes => c.op = "receive"
  <2>1. SUFFICES ASSUME c.q \in Mutexes, c.op \in PutOps PROVE FALSE
    BY DEF TurnOf
  <2>2. queue[c.q].holder = t /\ Length[c.q] = 1 /\ MutexFree(queue[c.q])
    BY <1>1, <2>1, LengthAssumption DEF TurnOf, MutexSane
  <2>3. queue[c.q].store.waiting = 0
    BY <2>2, NoTaskAssumption DEF MutexFree
  <2>4. queue[c.q].store.waiting = 1
    BY <1>1, <2>1, <2>2 DEF Possible, Full, S!IsFull
  <2> QED
    BY <2>3, <2>4
<1>5. /\ CallSane(r, queue') /\ MutexSane' /\ r.at \notin Within /\ (Leaves(t, r) <=> Sleeping(task[t]))
  BY <1>1, <1>2, <1>3, <1>4 DEF CallSane, MutexSane, Within, Leaves, Sleeping
<1>6. Sleeping(task[t]) => Surplus(queue, For(task[t])) <= 0
  BY <1>1, NothingThere DEF TurnOf
<1>7. \A l \in EventLists : Surplus(queue, l) \in Int /\ Cardinality(Freed(os', os, l)) \in Nat
  BY SurplusIs, WokenFinite DEF WInv, LInv, IInv, StoresSound, MutexSane, QueuesSane
<1>8. ASSUME NEW l \in EventLists
      PROVE \/ Surplus(queue', l) <= 0
            \/ Surplus(queue', l) + Leaving(t, r, l) <= Surplus(queue, l) + Cardinality(Freed(os', os, l))
  BY <1>1, <1>5, <1>6, <1>7 DEF Leaving
<1>9. Fewer(os', os)
  BY <1>1 DEF Fewer
<1> QED
  BY <1>1, <1>2, <1>5, <1>8, <1>9, StepKeeps, SMTT(40)

LEMMA CallKeeps ==
  ASSUME WInv, LInv', NEW t \in Tasks, Call(t)
  PROVE  WInv'
<1>1. /\ os.current = t /\ task[t].at = "run" /\ os.locked = 0 /\ ~ Left(task[t])
      /\ InReady(os, t) /\ ~ Waits(os, t)
  BY RunnerIs DEF Call, Within, Left
<1>2. PICK c \in program.calls[t] : c.op \in PutOps \cup GetOps /\ Allowed(t, c) /\ Turn(t, c, c.ticks, TRUE)
  BY DEF Call
<1>3. WellFormed(c)
  BY ProgramsAssumption DEF WInv, LInv, IInv
<1>4. c.q \in Mutexes => IF c.op \in PutOps THEN c.op = "back" /\ queue[c.q].holder = t ELSE c.op = "receive"
  BY <1>2, <1>3 DEF WellFormed, Allowed, PutOps
<1>5. TurnOf(t, c)
  BY <1>1, <1>2, <1>3, <1>4 DEF TurnOf, Sleeping
<1> QED
  BY <1>2, <1>5, SendNowKeeps, ReceiveNowKeeps, PeekNowKeeps, GiveUpKeeps, BlockKeeps DEF Turn

LEMMA RetryKeeps ==
  ASSUME WInv, LInv', NEW t \in Tasks, Retry(t)
  PROVE  WInv'
<1>1. /\ os.current = t /\ task[t].at = "retry" /\ os.locked = 0 /\ ~ Left(task[t])
      /\ InReady(os, t) /\ ~ Waits(os, t) /\ CallSane(task[t], queue) /\ WellFormed(task[t].call)
  BY RunnerIs DEF Retry, Within, Left
<1>2. PICK c, ticks : c = task[t].call /\ Turn(t, c, ticks, FALSE)
  BY DEF Retry
<1>3. c.op \in {"back", "front"} \cup GetOps /\ (c.q \in Mutexes => c.op = "receive")
  BY <1>1, <1>2 DEF CallSane, InCall
<1>4. TurnOf(t, c)
  BY <1>1, <1>2, <1>3 DEF TurnOf, PutOps
<1> QED
  BY <1>2, <1>4, SendNowKeeps, ReceiveNowKeeps, PeekNowKeeps, GiveUpKeeps, BlockKeeps DEF Turn

-----------------------------------------------------------------------------
(***************************************************************************)
(* Interrupts and switches.                                                *)
(***************************************************************************)
LEMMA InterruptKeeps ==
  ASSUME WInv, LInv', UNCHANGED task, Rouses(os', os), os'.locked = os.locked, os'.current = os.current,
         pendSV => pendSV', MutexSane', CallsSane',
         \A l \in EventLists : os'.event[l] # << >> =>
            Surplus(queue', l) <= Surplus(queue, l) + Cardinality(Freed(os', os, l))
  PROVE  WInv'
<1>1. Asleep(os') /\ Fewer(os', os)
  BY DEF Rouses
<1>2. OneWithin'
  BY DEF WInv, OneWithin
<1>3. RunnerReady'
  <2>1. os.current \in Tasks
    BY SoundTyped DEF WInv, LInv, Schedulers
  <2> QED
    BY <2>1 DEF WInv, RunnerReady, Rouses
<1>4. Sleepers(task', os')
  BY <1>1 DEF WInv, Sleepers, Fewer
<1>5. ASSUME NEW l \in EventLists PROVE Enough(task', os', queue', l)
  <2>1. Surplus(queue, l) \in Int
    BY SurplusIs DEF WInv, LInv, IInv, StoresSound, MutexSane, QueuesSane
  <2>2. Surplus(queue', l) \in Int
    BY SurplusIs DEF LInv, IInv, StoresSound, MutexSane, QueuesSane
  <2>3. PICK s2, qu2 : s2 = os' /\ qu2 = queue'
    OBVIOUS
  <2>4. os \in Schedulers /\ s2 \in Schedulers /\ Sleepers(task, os) /\ Enough(task, os, queue, l)
    BY <2>3, SoundTyped DEF WInv, LInv
  <2>5. /\ s2.event[l] # << >> => Surplus(qu2, l) + 0 <= Surplus(queue, l) + Cardinality(Freed(s2, os, l))
        /\ Surplus(qu2, l) \in Int /\ Fewer(s2, os)
    BY <1>1, <2>2, <2>3
  <2>6. 0 \in {0, 1} /\ 0 # 1
    OBVIOUS
  <2>7. Enough(task, s2, qu2, l)
    BY ONLY <2>1, <2>4, <2>5, <2>6, l \in EventLists, IdleAssumption, StillEnough
  <2> QED
    BY <2>3, <2>7
<1> QED
  BY <1>1, <1>2, <1>3, <1>4, <1>5 DEF WInv

\* The queue of a task that is about to sleep is locked.
LEMMA CallsStaySane ==
  ASSUME CallsSane, QueuesShaped, UNCHANGED task, NEW q \in Queues, NEW r, queue' = [queue EXCEPT ![q] = r],
         queue[q].tx # Unlocked => r.tx # Unlocked, queue[q].rx # Unlocked => r.rx # Unlocked,
         \A l \in EventLists : Surplus(queue, l) \in Int /\ Surplus(queue', l) \in Int,
         queue[q].tx # Unlocked /\ queue[q].rx # Unlocked =>
            \A l \in EventLists : Surplus(queue', l) <= Surplus(queue, l),
         \A l \in EventLists : l # Receivers(q) /\ l # Senders(q) => Surplus(queue', l) = Surplus(queue, l),
         \A t \in Tasks : task[t].at \in InCall => task[t].call.q \in Queues
  PROVE  CallsSane'
<1>1. \A u \in Queues : queue'[u] = IF u = q THEN r ELSE queue[u]
  BY DEF QueuesShaped
<1>2. SUFFICES ASSUME NEW t \in Tasks PROVE CallSane(task[t], queue')
  BY DEF CallsSane
<1>3. CallSane(task[t], queue)
  BY DEF CallsSane
<1>4. PICK k : k = task[t]
  OBVIOUS
<1>5. k.at \in {"check", "test", "place", "unlockTx", "unlockRx"} => k.call.q \in Queues
  BY <1>4 DEF InCall
<1>6. k.at = "place" => Surplus(queue', For(k)) <= 0
  <2>1. SUFFICES ASSUME k.at = "place" PROVE Surplus(queue', For(k)) <= 0
    OBVIOUS
  <2>2. k.call.q \in Queues /\ queue[k.call.q].tx # Unlocked /\ queue[k.call.q].rx # Unlocked /\ Surplus(queue, For(k)) <= 0
    BY <1>3, <1>4, <1>5, <2>1 DEF CallSane
  <2>3. PICK l : l = For(k)
    OBVIOUS
  <2>4. l \in EventLists /\ (k.call.q # q => l # Receivers(q) /\ l # Senders(q))
    BY <2>2, <2>3 DEF For, EventLists, Receivers, Senders
  <2>5. Surplus(queue', l) <= Surplus(queue, l) /\ Surplus(queue, l) \in Int /\ Surplus(queue', l) \in Int
    <3>1. CASE k.call.q = q
      BY <2>2, <2>4, <3>1
    <3>2. CASE k.call.q # q
      <4>1. Surplus(queue', l) = Surplus(queue, l) /\ Surplus(queue, l) \in Int
        BY <2>4, <3>2
      <4> QED
        BY <4>1
    <3> QED
      BY <3>1, <3>2
  <2>6. Surplus(queue, l) <= 0
    BY <2>2, <2>3
  <2> QED
    BY <2>3, <2>5, <2>6
<1> QED
  BY <1>1, <1>3, <1>4, <1>5, <1>6 DEF CallSane

LEMMA SendFromISRKeeps ==
  ASSUME WInv, LInv', SendFromISR
  PROVE  WInv'
<1>1. PICK c \in program.isr, item \in program.items :
         /\ c.op \in PutOps /\ Possible(c)
         /\ queue' = [queue EXCEPT ![c.q] = [CopyTo(c.q, c.op, item) EXCEPT
                         !.tx = IF queue[c.q].tx # Unlocked THEN @ + 1 ELSE @]]
         /\ IF queue[c.q].tx # Unlocked THEN UNCHANGED <<os, pendSV>>
            ELSE os' = Wake(os, Receivers(c.q)) /\ pendSV' \in {pendSV, pendSV \/ WakesHigher(os, Receivers(c.q))}
  BY DEF SendFromISR
<1>2. PICK q : q = c.q
  OBVIOUS
<1>3. q \in Queues /\ q \notin Mutexes /\ (~ Full(q) \/ c.op = "overwrite") /\ (c.op = "overwrite" => Length[q] = 1)
  <2>1. WellFormed(c) /\ c.q \notin Mutexes
    BY ProgramsAssumption DEF WInv, LInv, IInv
  <2> QED
    BY <1>1, <1>2, <2>1 DEF WellFormed, Possible
<1>4. /\ IInv /\ MutexSane /\ QueuesSane /\ QueuesShaped /\ Sound(os) /\ Asleep(os) /\ os \in Schedulers
      /\ os' \in Schedulers /\ UNCHANGED task /\ CallsSane
  BY SoundTyped DEF WInv, LInv, IInv, SendFromISR
<1>5. PICK x, v, y : /\ x = CopyTo(q, c.op, item)
                     /\ v = (IF queue[q].tx # Unlocked THEN x.tx + 1 ELSE x.tx)
                     /\ y = [x EXCEPT !.tx = v]
  OBVIOUS
<1>6. queue' = [queue EXCEPT ![q] = y]
  BY <1>1, <1>2, <1>5
<1>7. /\ x.tx = queue[q].tx /\ x.rx = queue[q].rx
      /\ \/ x.store.waiting = queue[q].store.waiting + 1
         \/ c.op = "overwrite" /\ x.store.waiting = queue[q].store.waiting
  BY <1>1, <1>3, <1>4, <1>5, CopyToAdds
<1>8. DOMAIN x = QueueFields
  BY <1>3, <1>4, <1>5, CopyToShape DEF QueuesShaped
<1>9. y.tx = v /\ y.rx = x.rx /\ y.store = x.store
  BY <1>5, <1>8 DEF QueueFields
<1>10. QueueSane(queue[q])
  BY <1>3, <1>4 DEF QueuesSane
<1>11. /\ queue[q].tx = Unlocked => v = Unlocked
       /\ queue[q].tx # Unlocked => v # Unlocked /\ AtLeast0(v) = AtLeast0(queue[q].tx) + 1
       /\ AtLeast0(queue[q].tx) \in Int /\ AtLeast0(queue[q].rx) \in Int /\ AtLeast0(v) \in Int
  BY <1>5, <1>7, <1>10 DEF QueueSane, AtLeast0, Unlocked
<1>12. queue[q].store.waiting \in Int /\ Length[q] \in Int
  BY <1>3, <1>4, WaitingIs DEF IInv, StoresSound, MutexSane
<1>13. /\ \A l \in EventLists : l # Receivers(q) /\ l # Senders(q) => Surplus(queue', l) = Surplus(queue, l)
       /\ Surplus(queue, Receivers(q)) = queue[q].store.waiting - AtLeast0(queue[q].tx)
       /\ Surplus(queue, Senders(q)) = Length[q] - queue[q].store.waiting - AtLeast0(queue[q].rx)
       /\ Surplus(queue', Receivers(q)) = y.store.waiting - AtLeast0(y.tx)
       /\ Surplus(queue', Senders(q)) = Length[q] - y.store.waiting - AtLeast0(y.rx)
  BY <1>3, <1>4, <1>6, SurplusSet
<1>14. /\ Surplus(queue', Senders(q)) <= Surplus(queue, Senders(q))
       /\ Surplus(queue', Receivers(q)) <= Surplus(queue, Receivers(q)) + 1
       /\ queue[q].tx # Unlocked => Surplus(queue', Receivers(q)) <= Surplus(queue, Receivers(q))
       /\ Surplus(queue', Receivers(q)) \in Int /\ Surplus(queue', Senders(q)) \in Int
  BY <1>7, <1>9, <1>11, <1>12, <1>13
<1>15. \A l \in EventLists : Surplus(queue, l) \in Int /\ Surplus(queue', l) \in Int
  <2>1. \A l \in EventLists : Surplus(queue, l) \in Int
    BY <1>4, SurplusIs DEF IInv, StoresSound, MutexSane, QueuesSane
  <2> QED
    BY <1>13, <1>14, <2>1
<1>16. MutexSane'
  BY <1>3, <1>4, <1>6, MutexSet
<1>17. CallsSane'
  <2>1. \A t \in Tasks : task[t].at \in InCall => task[t].call.q \in Queues
    BY CallIs DEF WInv
  <2>2. queue[q].tx # Unlocked => \A l \in EventLists : Surplus(queue', l) <= Surplus(queue, l)
    BY <1>13, <1>14, <1>15
  <2>3. (queue[q].tx # Unlocked => y.tx # Unlocked) /\ (queue[q].rx # Unlocked => y.rx # Unlocked)
    BY <1>7, <1>9, <1>11
  <2> QED
    BY <1>3, <1>4, <1>6, <1>13, <1>15, <2>1, <2>2, <2>3, CallsStaySane
<1>18. Receivers(q) \in EventLists
  BY <1>3, EventNames DEF EventLists
<1>19. \A l \in EventLists : Cardinality(Freed(os', os, l)) \in Nat
  BY WokenFinite
<1>20. CASE queue[q].tx # Unlocked
  <2>1. UNCHANGED <<os, pendSV>>
    BY <1>1, <1>2, <1>20
  <2>2. Rouses(os', os)
    BY <1>4, <2>1, SameRouses
  <2>3. \A l \in EventLists : Surplus(queue', l) <= Surplus(queue, l) + Cardinality(Freed(os', os, l))
    BY <1>13, <1>14, <1>15, <1>19, <1>20
  <2> QED
    BY <1>4, <1>16, <1>17, <2>1, <2>2, <2>3, InterruptKeeps
<1>21. CASE queue[q].tx = Unlocked
  <2>1. os' = Wake(os, Receivers(q)) /\ (pendSV => pendSV')
    BY <1>1, <1>2, <1>21
  <2>2. Rouses(os', os) /\ os'.locked = os.locked /\ Woke(os', os, Receivers(q))
    BY <1>4, <1>18, <2>1, WakeRouses
  <2>3. os'.current = os.current
    BY <1>4, <1>18, <2>1, WakeSound DEF EventLists, Kept
  <2>4. os'.event[Receivers(q)] # << >> => Cardinality(Freed(os', os, Receivers(q))) >= 1
    BY <1>4, <1>18, <2>2, WokeFrees DEF Rouses, Fewer
  <2>5. \A l \in EventLists : os'.event[l] # << >> =>
           Surplus(queue', l) <= Surplus(queue, l) + Cardinality(Freed(os', os, l))
    BY <1>13, <1>14, <1>15, <1>19, <2>4
  <2> QED
    BY <1>4, <1>16, <1>17, <2>1, <2>2, <2>3, <2>5, InterruptKeeps
<1> QED
  BY <1>20, <1>21

LEMMA ReceiveFromISRKeeps ==
  ASSUME WInv, LInv', ReceiveFromISR
  PROVE  WInv'
<1>1. PICK c \in program.isr :
         /\ c.op = "receive" /\ Possible(c)
         /\ queue' = [queue EXCEPT ![c.q].store = S!Receive(@, Length[c.q]),
                         ![c.q].rx = IF queue[c.q].rx # Unlocked THEN @ + 1 ELSE @]
         /\ IF queue[c.q].rx # Unlocked THEN UNCHANGED <<os, pendSV>>
            ELSE os' = Wake(os, Senders(c.q)) /\ pendSV' \in {pendSV, pendSV \/ WakesHigher(os, Senders(c.q))}
  BY DEF ReceiveFromISR
<1>2. PICK q : q = c.q
  OBVIOUS
<1>3. q \in Queues /\ q \notin Mutexes
  <2>1. WellFormed(c) /\ c.q \notin Mutexes
    BY ProgramsAssumption DEF WInv, LInv, IInv
  <2> QED
    BY <1>1, <1>2, <2>1 DEF WellFormed, GetOps
<1>4. /\ IInv /\ MutexSane /\ QueuesSane /\ QueuesShaped /\ Sound(os) /\ Asleep(os) /\ os \in Schedulers
      /\ os' \in Schedulers /\ UNCHANGED task /\ CallsSane
  BY SoundTyped DEF WInv, LInv, IInv, ReceiveFromISR
<1>5. DOMAIN queue[q] = QueueFields /\ QueueSane(queue[q]) /\ queue = [u \in Queues |-> queue[u]]
  BY <1>3, <1>4 DEF QueuesShaped, QueuesSane
<1>6. PICK v, y : /\ v = (IF queue[q].rx # Unlocked THEN queue[q].rx + 1 ELSE queue[q].rx)
                  /\ y = [queue[q] EXCEPT !.store = S!Receive(@, Length[q]), !.rx = v]
  OBVIOUS
<1>7. queue' = [queue EXCEPT ![q] = y]
  <2>1. [queue[q] EXCEPT !.store = S!Receive(@, Length[q])].rx = queue[q].rx
    BY <1>5 DEF QueueFields
  <2> QED
    BY <1>1, <1>2, <1>3, <1>5, <1>6, <2>1
<1>8. y.rx = v /\ y.tx = queue[q].tx /\ y.store = S!Receive(queue[q].store, Length[q])
  BY <1>5, <1>6 DEF QueueFields
<1>9. y.store.waiting = queue[q].store.waiting - 1
  BY <1>8 DEF S!Receive
<1>11. /\ queue[q].rx = Unlocked => v = Unlocked
       /\ queue[q].rx # Unlocked => v # Unlocked /\ AtLeast0(v) = AtLeast0(queue[q].rx) + 1
       /\ AtLeast0(queue[q].tx) \in Int /\ AtLeast0(queue[q].rx) \in Int /\ AtLeast0(v) \in Int
  BY <1>5, <1>6 DEF QueueSane, AtLeast0, Unlocked
<1>12. queue[q].store.waiting \in Int /\ Length[q] \in Int
  BY <1>3, <1>4, WaitingIs DEF IInv, StoresSound, MutexSane
<1>13. /\ \A l \in EventLists : l # Receivers(q) /\ l # Senders(q) => Surplus(queue', l) = Surplus(queue, l)
       /\ Surplus(queue, Receivers(q)) = queue[q].store.waiting - AtLeast0(queue[q].tx)
       /\ Surplus(queue, Senders(q)) = Length[q] - queue[q].store.waiting - AtLeast0(queue[q].rx)
       /\ Surplus(queue', Receivers(q)) = y.store.waiting - AtLeast0(y.tx)
       /\ Surplus(queue', Senders(q)) = Length[q] - y.store.waiting - AtLeast0(y.rx)
  BY <1>3, <1>4, <1>7, SurplusSet
<1>14. /\ Surplus(queue', Receivers(q)) <= Surplus(queue, Receivers(q))
       /\ Surplus(queue', Senders(q)) <= Surplus(queue, Senders(q)) + 1
       /\ queue[q].rx # Unlocked => Surplus(queue', Senders(q)) <= Surplus(queue, Senders(q))
       /\ Surplus(queue', Receivers(q)) \in Int /\ Surplus(queue', Senders(q)) \in Int
  BY <1>8, <1>9, <1>11, <1>12, <1>13
<1>15. \A l \in EventLists : Surplus(queue, l) \in Int /\ Surplus(queue', l) \in Int
  <2>1. \A l \in EventLists : Surplus(queue, l) \in Int
    BY <1>4, SurplusIs DEF IInv, StoresSound, MutexSane, QueuesSane
  <2> QED
    BY <1>13, <1>14, <2>1
<1>16. MutexSane'
  BY <1>3, <1>4, <1>7, MutexSet
<1>17. CallsSane'
  <2>1. \A t \in Tasks : task[t].at \in InCall => task[t].call.q \in Queues
    BY CallIs DEF WInv
  <2>2. queue[q].rx # Unlocked => \A l \in EventLists : Surplus(queue', l) <= Surplus(queue, l)
    BY <1>13, <1>14, <1>15
  <2>3. (queue[q].tx # Unlocked => y.tx # Unlocked) /\ (queue[q].rx # Unlocked => y.rx # Unlocked)
    BY <1>8, <1>11
  <2> QED
    BY <1>3, <1>4, <1>7, <1>13, <1>15, <2>1, <2>2, <2>3, CallsStaySane
<1>18. Senders(q) \in EventLists
  BY <1>3, EventNames DEF EventLists
<1>19. \A l \in EventLists : Cardinality(Freed(os', os, l)) \in Nat
  BY WokenFinite
<1>20. CASE queue[q].rx # Unlocked
  <2>1. UNCHANGED <<os, pendSV>>
    BY <1>1, <1>2, <1>20
  <2>2. Rouses(os', os)
    BY <1>4, <2>1, SameRouses
  <2>3. \A l \in EventLists : Surplus(queue', l) <= Surplus(queue, l) + Cardinality(Freed(os', os, l))
    BY <1>13, <1>14, <1>15, <1>19, <1>20
  <2> QED
    BY <1>4, <1>16, <1>17, <2>1, <2>2, <2>3, InterruptKeeps
<1>21. CASE queue[q].rx = Unlocked
  <2>1. os' = Wake(os, Senders(q)) /\ (pendSV => pendSV')
    BY <1>1, <1>2, <1>21
  <2>2. Rouses(os', os) /\ os'.locked = os.locked /\ Woke(os', os, Senders(q))
    BY <1>4, <1>18, <2>1, WakeRouses
  <2>3. os'.current = os.current
    BY <1>4, <1>18, <2>1, WakeSound DEF EventLists, Kept
  <2>4. os'.event[Senders(q)] # << >> => Cardinality(Freed(os', os, Senders(q))) >= 1
    BY <1>4, <1>18, <2>2, WokeFrees DEF Rouses, Fewer
  <2>5. \A l \in EventLists : os'.event[l] # << >> =>
           Surplus(queue', l) <= Surplus(queue, l) + Cardinality(Freed(os', os, l))
    BY <1>13, <1>14, <1>15, <1>19, <2>4
  <2> QED
    BY <1>4, <1>16, <1>17, <2>1, <2>2, <2>3, <2>5, InterruptKeeps
<1> QED
  BY <1>20, <1>21

LEMMA TickKeeps ==
  ASSUME WInv, LInv', Tick
  PROVE  WInv'
<1>1. /\ Sound(os) /\ Asleep(os) /\ os' = IncrementTick(os) /\ UNCHANGED <<queue, task>> /\ (pendSV => pendSV')
      /\ MutexSane /\ CallsSane
  BY DEF WInv, LInv, Tick
<1>2. Rouses(os', os) /\ os'.locked = os.locked
  BY <1>1, IncrementTickRouses
<1>3. os'.current = os.current
  BY <1>1, IncrementTickSound DEF Kept
<1>4. MutexSane' /\ CallsSane'
  BY <1>1 DEF MutexSane, CallsSane
<1>5. \A l \in EventLists : Surplus(queue', l) <= Surplus(queue, l) + Cardinality(Freed(os', os, l))
  <2>1. SUFFICES ASSUME NEW l \in EventLists
                 PROVE  Surplus(queue', l) <= Surplus(queue, l) + Cardinality(Freed(os', os, l))
    OBVIOUS
  <2>2. Surplus(queue, l) \in Int /\ Cardinality(Freed(os', os, l)) \in Nat
    BY SurplusIs, WokenFinite DEF WInv, LInv, IInv, StoresSound, MutexSane, QueuesSane
  <2> QED
    BY <1>1, <2>2
<1> QED
  BY <1>1, <1>2, <1>3, <1>4, <1>5, InterruptKeeps

\* A switch finds the scheduler suspended, and leaves the task, or picks a ready one.
LEMMA PendSVKeeps ==
  ASSUME WInv, LInv', PendSV
  PROVE  WInv'
<1>1. /\ Sound(os) /\ Asleep(os) /\ os' = SwitchContext(os) /\ UNCHANGED <<queue, task>> /\ ~ pendSV'
      /\ MutexSane /\ CallsSane /\ OneWithin /\ RunnerReady /\ Sleepers(task, os)
  BY DEF WInv, LInv, PendSV
<1>2. /\ Rouses(os', os) /\ os'.locked = os.locked
      /\ IF os.locked > 0 THEN os'.current = os.current ELSE InReady(os', os'.current)
  BY <1>1, SwitchContextRouses
<1>3. os.current \in Tasks /\ os'.current \in Tasks /\ os \in Schedulers /\ os' \in Schedulers
  BY SoundTyped DEF WInv, LInv, Schedulers
<1>4. os.locked \in {0, 1} /\ (os.locked = 0 => \A t \in Tasks : task[t].at \notin Within)
  BY <1>1, <1>3 DEF OneWithin
<1>5. OneWithin'
  <2>1. CASE os.locked = 0
    BY <1>1, <1>2, <1>3, <1>4, <2>1 DEF OneWithin
  <2>2. CASE os.locked > 0
    BY <1>1, <1>2, <2>2 DEF OneWithin
  <2> QED
    BY <1>4, <2>1, <2>2
<1>6. RunnerReady'
  <2>1. CASE os.locked = 0
    BY <1>2, <2>1 DEF RunnerReady
  <2>2. CASE os.locked > 0
    BY <1>1, <1>2, <1>3, <2>2 DEF RunnerReady, Rouses
  <2> QED
    BY <1>4, <2>1, <2>2
<1>7. Asleep(os') /\ Sleepers(task', os') /\ CallsSane' /\ MutexSane'
  BY <1>1, <1>2 DEF Rouses, Sleepers, Fewer, CallsSane, MutexSane
<1>8. ASSUME NEW l \in EventLists PROVE Enough(task', os', queue', l)
  <2>1. Surplus(queue, l) \in Int
    BY SurplusIs DEF WInv, LInv, IInv, StoresSound, MutexSane, QueuesSane
  <2>2. PICK s2 : s2 = os'
    OBVIOUS
  <2>3. s2.event[l] # << >> => Surplus(queue, l) + 0 <= Surplus(queue, l) + Cardinality(Freed(s2, os, l))
    BY <2>1, WokenFinite
  <2>4. Enough(task, os, queue, l) /\ s2 \in Schedulers /\ Fewer(s2, os)
    BY <1>2, <1>3, <2>2 DEF WInv, Rouses
  <2>5. 0 \in {0, 1} /\ 0 # 1
    OBVIOUS
  <2>6. Sleepers(task, os) /\ os \in Schedulers
    BY <1>1, <1>3
  <2>7. Enough(task, s2, queue, l)
    BY ONLY <2>1, <2>3, <2>4, <2>5, <2>6, l \in EventLists, IdleAssumption, StillEnough
  <2> QED
    BY <1>1, <2>2, <2>7
<1> QED
  BY <1>5, <1>6, <1>7, <1>8 DEF WInv

-----------------------------------------------------------------------------
LEMMA InitWInv == Init => WInv
<1> SUFFICES ASSUME Init PROVE WInv
  OBVIOUS
<1>1. LInv
  BY InitLInv
<1>2. /\ os.pending = << >> /\ os.event = [l \in Queues \X {"receive", "send"} |-> << >>] /\ os.locked = 0
      /\ os.delayed = << >> /\ os.overflow = << >> /\ os.suspended = {}
      /\ \A t \in Tasks : task[t].at = "run" /\ task[t].fate = "none"
  BY DEF Init, Outside
<1>3. \A t : ~ Contains(<< >>, t)
  <2>1. << >> \in Seq(Tasks)
    OBVIOUS
  <2> QED
    BY <2>1, EmptyHasNone
<1>4. \A l \in EventLists : os.event[l] = << >>
  BY <1>2 DEF EventLists
<1>5. Asleep(os) /\ Sleepers(task, os)
  <2>1. Once(<< >>)
    BY DEF Once
  <2> QED
    BY <1>2, <1>3, <1>4, <2>1 DEF Asleep, Waits, Sleepers
<1>6. os.current \in Tasks /\ \A t \in Tasks : InReady(os, t)
  <2>1. \A t \in Tasks : Placed(os, t)
    BY <1>1 DEF LInv, Sound, Lists
  <2>2. os.current \in Tasks
    BY <1>1, SoundTyped DEF LInv, Schedulers
  <2> QED
    BY <1>2, <1>3, <2>1, <2>2 DEF Placed
<1>7. OneWithin /\ RunnerReady /\ CallsSane
  BY <1>2, <1>6 DEF OneWithin, RunnerReady, CallsSane, CallSane, Within, InCall
<1>8. MutexSane
  <2>1. ASSUME NEW q \in Mutexes PROVE MutexFree(queue[q])
    <3>1. q \in Queues /\ Length[q] \in Nat \ {0}
      BY LengthAssumption
    <3>2. queue[q].store = [S!Reset(Length[q]) EXCEPT !.waiting = 1] /\ queue[q].holder = NoTask
      BY <3>1 DEF Init
    <3>3. "waiting" \in DOMAIN S!Reset(Length[q])
      BY DEF S!Reset
    <3> QED
      BY <3>2, <3>3 DEF MutexFree
  <2> QED
    BY <2>1 DEF MutexSane
<1>9. \A l \in EventLists : Enough(task, os, queue, l)
  BY <1>4 DEF Enough
<1> QED
  BY <1>1, <1>5, <1>7, <1>8, <1>9 DEF WInv

LEMMA NextWInv == WInv /\ [Next]_vars => WInv'
<1> SUFFICES ASSUME WInv, [Next]_vars PROVE WInv'
  OBVIOUS
<1>1. LInv'
  BY NextLInv DEF WInv
<1>2. CASE UNCHANGED vars
  BY <1>1, <1>2 DEF vars, WInv, OneWithin, RunnerReady, CallsSane, MutexSane
<1>3. ASSUME NEW t \in Tasks, TaskStep(t) PROVE WInv'
  BY <1>1, <1>3, CallKeeps, RetryKeeps, SuspendSchedulerKeeps, LockQueueKeeps, CheckForTimeOutKeeps,
     TestAgainKeeps, PlaceKeeps, UnlockTxKeeps, UnlockRxKeeps, ResumeSchedulerKeeps, CallDelayKeeps,
     DelayKeeps, SuspendKeeps, ResetUnblockKeeps, ResumeKeeps DEF TaskStep
<1> QED
  BY <1>1, <1>2, <1>3, SendFromISRKeeps, ReceiveFromISRKeeps, TickKeeps, PendSVKeeps DEF Next

\* The tasks the invariant counts are those the property counts.
LEMMA WokenIsWoken ==
  ASSUME WInv, NEW q \in Queues, NEW ops, NEW l, l \in {Receivers(q), Senders(q)},
         ops = IF l = Receivers(q) THEN GetOps ELSE PutOps
  PROVE  Cardinality(WokenAt(task, os, l)) <= Cardinality(Woken(q, ops, l))
<1>1. WokenAt(task, os, l) \subseteq Woken(q, ops, l)
  <2>1. SUFFICES ASSUME NEW t \in WokenAt(task, os, l) PROVE t \in Woken(q, ops, l)
    OBVIOUS
  <2>2. t \in Tasks /\ Sleeping(task[t]) /\ l = For(task[t]) /\ ~ Contains(os.event[l], t)
    BY DEF WokenAt
  <2>3. CallSane(task[t], queue)
    BY <2>2 DEF WInv, CallsSane
  <2>4. task[t].call.op \in {"back", "front"} \cup GetOps
    BY <2>2, <2>3 DEF CallSane, Sleeping, InCall
  <2>5. task[t].call.q = q /\ task[t].call.op \in ops
    BY <2>2, <2>4 DEF For, Receivers, Senders, PutOps, GetOps
  <2> QED
    BY <2>2, <2>5 DEF Woken, Sleeping
<1>2. Woken(q, ops, l) \subseteq Tasks
  BY DEF Woken
<1> QED
  BY <1>1, <1>2, TasksAssumption, FS_Subset

LEMMA EnoughAwake == WInv => NoLostWakeup
<1> SUFFICES ASSUME WInv, NEW q \in Queues
             PROVE  /\ os.event[Receivers(q)] # << >> =>
                         queue[q].store.waiting <= Cardinality(Woken(q, GetOps, Receivers(q)))
                                                   + AtLeast0(queue[q].tx)
                    /\ os.event[Senders(q)] # << >> =>
                         Length[q] - queue[q].store.waiting <= Cardinality(Woken(q, PutOps, Senders(q)))
                                                              + AtLeast0(queue[q].rx)
  BY DEF NoLostWakeup
<1>1. /\ Receivers(q) \in EventLists /\ Senders(q) \in EventLists /\ Receivers(q) # Senders(q)
      /\ Receivers(q)[1] = q /\ Receivers(q)[2] = "receive" /\ Senders(q)[1] = q /\ Senders(q)[2] = "send"
  BY DEF EventLists, Receivers, Senders
<1>2. PICK l, k : l = Receivers(q) /\ k = Senders(q)
  OBVIOUS
<1>3. Enough(task, os, queue, l) /\ Enough(task, os, queue, k)
  BY <1>1, <1>2 DEF WInv
<1>4. /\ Surplus(queue, l) = queue[q].store.waiting - AtLeast0(queue[q].tx)
      /\ Surplus(queue, k) = Length[q] - queue[q].store.waiting - AtLeast0(queue[q].rx)
  BY <1>1, <1>2 DEF Surplus
<1>5. Cardinality(WokenAt(task, os, l)) <= Cardinality(Woken(q, GetOps, l))
  BY <1>2, WokenIsWoken
<1>6. Cardinality(WokenAt(task, os, k)) <= Cardinality(Woken(q, PutOps, k))
  BY <1>1, <1>2, WokenIsWoken
<1>7. /\ Cardinality(WokenAt(task, os, l)) \in Nat /\ Cardinality(WokenAt(task, os, k)) \in Nat
      /\ Cardinality(Woken(q, GetOps, l)) \in Nat /\ Cardinality(Woken(q, PutOps, k)) \in Nat
  <2>1. Woken(q, GetOps, l) \subseteq Tasks /\ Woken(q, PutOps, k) \subseteq Tasks
    BY DEF Woken
  <2> QED
    BY <2>1, WokenFinite, TasksAssumption, FS_Subset, FS_CardinalityType
<1>8. queue[q].store.waiting \in Int /\ Length[q] \in Int
  BY WaitingIs DEF WInv, LInv, IInv, StoresSound, MutexSane
<1>9. AtLeast0(queue[q].tx) \in Int /\ AtLeast0(queue[q].rx) \in Int
  <2>1. QueueSane(queue[q])
    BY DEF WInv, LInv, QueuesSane
  <2> QED
    BY <2>1 DEF QueueSane, AtLeast0, Unlocked
<1> HIDE DEF Surplus, Woken, WokenAt
<1> QED
  BY <1>2, <1>3, <1>4, <1>5, <1>6, <1>7, <1>8, <1>9 DEF Enough

\* Whatever tasks and interrupts call, nobody sleeps on a queue in which there is
\* something for him, unless as many tasks as there are items or free places are
\* already on their way or will be woken when the queue is unlocked.
THEOREM NoWakeupLost == Spec => []NoLostWakeup
BY InitWInv, NextWInv, EnoughAwake, PTL DEF Spec
-----------------------------------------------------------------------------
(***************************************************************************)
(* Who holds what.                                                         *)
(***************************************************************************)
HeldBy(qu, t) == {q \in Mutexes : qu[q].holder = t}
HeldSane(s, qu) ==
    \A t \in Tasks : /\ s.held[t] = Cardinality(HeldBy(qu, t))
                     /\ s.prio[t] > BasePrio[t] => s.held[t] > 0
                     /\ s.prio[t] >= BasePrio[t]
MInv == WInv /\ HeldSane(os, queue)

SameHolders(u, v) == \A q \in Mutexes : u[q].holder = v[q].holder

LEMMA HeldByFinite ==
  ASSUME NEW qu, NEW t
  PROVE  /\ IsFiniteSet(HeldBy(qu, t)) /\ Cardinality(HeldBy(qu, t)) \in Nat
         /\ HeldBy(qu, t) # {} => Cardinality(HeldBy(qu, t)) > 0
<1>1. HeldBy(qu, t) \subseteq Queues /\ IsFiniteSet(Queues)
  BY LengthAssumption DEF HeldBy
<1>2. IsFiniteSet(HeldBy(qu, t))
  BY <1>1, FS_Subset
<1>3. Cardinality(HeldBy(qu, t)) \in Nat
  BY <1>2, FS_CardinalityType
<1>4. HeldBy(qu, t) # {} => Cardinality(HeldBy(qu, t)) # 0
  BY <1>2, FS_EmptySet
<1> QED
  BY <1>2, <1>3, <1>4

\* Steps that change neither holders nor priorities nor counts.
LEMMA HeldStays ==
  ASSUME NEW r, NEW s, NEW u, NEW v, HeldSane(s, v), r.prio = s.prio, r.held = s.held, SameHolders(u, v)
  PROVE  HeldSane(r, u)
<1>1. \A t : HeldBy(u, t) = HeldBy(v, t)
  BY DEF HeldBy, SameHolders
<1> QED
  BY <1>1 DEF HeldSane

LEMMA PlaceHolds ==
  ASSUME MInv, NEW t \in Tasks \ {Idle}, os.current = t, Place(t)
  PROVE  HeldSane(os', queue')
<1> DEFINE c == task[t].call
           h == queue[c.q].holder
<1>1. /\ LInv /\ Sound(os) /\ QueuesSane /\ UNCHANGED queue /\ HeldSane(os, queue)
      /\ task[t].at \in InCall /\ task[t].ticks \in Int
  BY DEF MInv, WInv, LInv, Place, TasksSane, TaskSane, Running, InCall
<1>2. c.q \in Queues
  BY <1>1, CallIs
<1>3. PICK s, l : /\ s = (IF c.q \in Mutexes /\ c.op \in GetOps /\ h # NoTask THEN Inherit(os, h) ELSE os)
                  /\ l = (IF c.op \in PutOps THEN Senders(c.q) ELSE Receivers(c.q))
  OBVIOUS
<1>4. os' = PlaceOnEventList(s, l, task[t].ticks)
  BY <1>3 DEF Place
<1>5. Sound(s) /\ s.current = t /\ HeldSane(s, queue)
  <2>1. CASE s = os
    BY <1>1, <2>1
  <2>2. CASE s # os
    <3>1. s = Inherit(os, h) /\ h \in Tasks /\ c.q \in Mutexes
      BY <1>1, <1>2, <1>3, <2>2 DEF QueuesSane, QueueSane
    <3>2. PICK g \in Tasks : g = h
      BY <3>1
    <3>3. /\ Sound(s) /\ s.current = t /\ s.held = os.held
          /\ os.prio[g] < os.prio[t] /\ s.prio = [os.prio EXCEPT ![g] = os.prio[t]]
      <4> HIDE DEF h
      <4> QED
        BY <1>1, <2>2, <3>1, <3>2, InheritSound
    <3>4. os.held[g] > 0
      <4>1. c.q \in HeldBy(queue, g)
        BY <3>1, <3>2 DEF HeldBy
      <4>2. Cardinality(HeldBy(queue, g)) > 0
        BY <4>1, HeldByFinite
      <4> QED
        BY <1>1, <4>2 DEF HeldSane
    <3>5. os.prio \in [Tasks -> Nat] /\ BasePrio \in [Tasks -> Nat]
      BY <1>1, SoundTyped, TasksAssumption, PrioritiesFinite DEF Schedulers, Prios
    <3>6. \A u \in Tasks : s.prio[u] = IF u = g THEN os.prio[t] ELSE os.prio[u]
      BY <3>3, <3>5
    <3>7. HeldSane(s, queue)
      <4>1. SUFFICES ASSUME NEW u \in Tasks
                     PROVE  /\ s.held[u] = Cardinality(HeldBy(queue, u))
                            /\ s.prio[u] > BasePrio[u] => s.held[u] > 0
                            /\ s.prio[u] >= BasePrio[u]
        BY DEF HeldSane
      <4>2. /\ os.held[u] = Cardinality(HeldBy(queue, u)) /\ os.prio[u] >= BasePrio[u]
            /\ os.prio[u] > BasePrio[u] => os.held[u] > 0
        BY <1>1 DEF HeldSane
      <4>3. CASE u = g
        BY <3>3, <3>4, <3>5, <3>6, <4>2, <4>3
      <4>4. CASE u # g
        BY <3>3, <3>6, <4>2, <4>4
      <4> QED
        BY <4>3, <4>4
    <3> QED
      BY <3>3, <3>7
  <2> QED
    BY <2>1, <2>2
<1>6. l \in Queues \X {"receive", "send"}
  BY <1>2, <1>3, EventNames
<1>7. os'.prio = s.prio /\ os'.held = s.held
  <2> HIDE DEF c, h
  <2> QED
    BY <1>1, <1>4, <1>5, <1>6, PlaceSound DEF Kept
<1> QED
  BY <1>1, <1>5, <1>7 DEF HeldSane

\* Giving a mutex: one fewer is held, and with the last one the priority drops.
LEMMA GivenHolds ==
  ASSUME NEW s, Sound(s), NEW u, NEW v, HeldSane(s, v), NEW q \in Mutexes, NEW h \in Tasks, v[q].holder = h,
         NEW r, r = Disinherit(s, h), u[q].holder = NoTask, \A p \in Mutexes \ {q} : u[p].holder = v[p].holder
  PROVE  HeldSane(r, u)
<1>1. /\ r.held = [s.held EXCEPT ![h] = @ - 1]
      /\ r.prio = IF Drops(s, h) THEN [s.prio EXCEPT ![h] = BasePrio[h]] ELSE s.prio
  BY DisinheritSound
<1>2. s.prio \in [Tasks -> Nat] /\ BasePrio \in [Tasks -> Nat] /\ s.held \in [Tasks -> Int]
  <2>1. s \in Schedulers /\ Priorities \subseteq Nat
    BY SoundTyped, PrioritiesFinite
  <2>2. s.prio \in [Tasks -> Priorities] /\ s.held \in [Tasks -> Int]
    BY <2>1 DEF Schedulers, Prios, Counts
  <2> QED
    BY <2>1, <2>2, TasksAssumption
<1>3. HeldBy(u, h) = HeldBy(v, h) \ {q} /\ q \in HeldBy(v, h)
  BY NoTaskAssumption DEF HeldBy
<1>4. \A t \in Tasks : t # h => HeldBy(u, t) = HeldBy(v, t)
  BY NoTaskAssumption DEF HeldBy
<1>5. Cardinality(HeldBy(u, h)) = Cardinality(HeldBy(v, h)) - 1
  BY <1>3, HeldByFinite, FS_RemoveElement
<1> SUFFICES ASSUME NEW t \in Tasks
             PROVE  /\ r.held[t] = Cardinality(HeldBy(u, t))
                    /\ r.prio[t] > BasePrio[t] => r.held[t] > 0
                    /\ r.prio[t] >= BasePrio[t]
  BY DEF HeldSane
<1>6. /\ s.held[t] = Cardinality(HeldBy(v, t)) /\ s.prio[t] >= BasePrio[t]
      /\ s.prio[t] > BasePrio[t] => s.held[t] > 0
  BY DEF HeldSane
<1>7. CASE t # h
  <2>1. r.held[t] = s.held[t] /\ r.prio[t] = s.prio[t]
    BY <1>1, <1>2, <1>7
  <2> QED
    BY <1>4, <1>6, <1>7, <2>1
<1>8. CASE t = h
  <2>1. r.held[h] = s.held[h] - 1 /\ r.prio[h] = IF Drops(s, h) THEN BasePrio[h] ELSE s.prio[h]
    BY <1>1, <1>2
  <2>2. r.held[t] = Cardinality(HeldBy(u, t))
    BY <1>5, <1>6, <1>8, <2>1
  <2>3. s.held[h] \in Int /\ s.prio[h] \in Nat /\ BasePrio[h] \in Nat
    BY <1>2
  <2>4. CASE Drops(s, h)
    BY <1>8, <2>1, <2>2, <2>3, <2>4
  <2>5. CASE ~ Drops(s, h)
    BY <1>6, <1>8, <2>1, <2>2, <2>3, <2>5 DEF Drops
  <2> QED
    BY <2>4, <2>5
<1> QED
  BY <1>7, <1>8

\* Taking one: it had no holder.
Changes(u, v, q, t) ==
    v[q].holder = NoTask /\ u[q].holder = t /\ \A p \in Mutexes \ {q} : u[p].holder = v[p].holder
OneMore(r, s, t) == r.prio = s.prio /\ r.held = [s.held EXCEPT ![t] = s.held[t] + 1]

LEMMA TakenHolds ==
  ASSUME NEW s, Sound(s), NEW u, NEW v, HeldSane(s, v), NEW q \in Mutexes, NEW t \in Tasks,
         Changes(u, v, q, t), NEW r, OneMore(r, s, t)
  PROVE  HeldSane(r, u)
<1>1. /\ v[q].holder = NoTask /\ u[q].holder = t /\ \A p \in Mutexes \ {q} : u[p].holder = v[p].holder
      /\ r.prio = s.prio /\ r.held = [s.held EXCEPT ![t] = s.held[t] + 1]
  BY DEF Changes, OneMore
<1>2. s.held \in [Tasks -> Int]
  BY SoundTyped DEF Schedulers, Counts
<1>3. HeldBy(u, t) = HeldBy(v, t) \cup {q} /\ q \notin HeldBy(v, t)
  BY <1>1, NoTaskAssumption DEF HeldBy
<1>4. \A w \in Tasks : w # t => HeldBy(u, w) = HeldBy(v, w)
  BY <1>1, NoTaskAssumption DEF HeldBy
<1>5. Cardinality(HeldBy(u, t)) = Cardinality(HeldBy(v, t)) + 1
  BY <1>3, HeldByFinite, FS_AddElement
<1> SUFFICES ASSUME NEW w \in Tasks
             PROVE  /\ r.held[w] = Cardinality(HeldBy(u, w))
                    /\ r.prio[w] > BasePrio[w] => r.held[w] > 0
                    /\ r.prio[w] >= BasePrio[w]
  BY DEF HeldSane
<1>6. /\ s.held[w] = Cardinality(HeldBy(v, w)) /\ s.prio[w] >= BasePrio[w]
      /\ s.prio[w] > BasePrio[w] => s.held[w] > 0
  BY DEF HeldSane
<1>7. r.held[w] = (IF w = t THEN s.held[w] + 1 ELSE s.held[w]) /\ r.prio[w] = s.prio[w]
  BY <1>1, <1>2
<1> QED
  BY <1>2, <1>4, <1>5, <1>6, <1>7

LEMMA SendNowHolds ==
  ASSUME MInv, NEW t \in Tasks \ {Idle}, NEW c, WellFormed(c), SendNow(t, c)
  PROVE  HeldSane(os', queue')
<1>1. /\ QueuesShaped /\ QueuesSane /\ Sound(os) /\ HeldSane(os, queue)
      /\ c.op \in PutOps /\ c.q \in Queues
  BY DEF MInv, WInv, LInv, IInv, SendNow, WellFormed
<1>2. PICK x, y : y = CopyTo(c.q, c.op, x) /\ queue' = [queue EXCEPT ![c.q] = y]
  BY DEF SendNow
<1>3. y.holder = NoTask
  BY <1>1, <1>2, CopyToSane
<1>4. \A p \in Queues : queue'[p] = IF p = c.q THEN y ELSE queue[p]
  <2>1. DOMAIN queue = Queues
    BY <1>1 DEF QueuesShaped
  <2> QED
    BY <1>2, <2>1
<1>5. PICK given : given = IF Gives(c.q, c.op) THEN Disinherit(os, queue[c.q].holder) ELSE os
  OBVIOUS
<1>6. Sound(given) /\ HeldSane(given, queue')
  <2>1. CASE Gives(c.q, c.op)
    <3>1. c.q \in Mutexes /\ queue[c.q].holder \in Tasks
      BY <1>1, <2>1 DEF QueuesSane, QueueSane, Gives
    <3>2. PICK q \in Mutexes, h \in Tasks : q = c.q /\ h = queue[c.q].holder
      BY <3>1
    <3>3. PICK v : v = queue'
      OBVIOUS
    <3>4. v[q].holder = NoTask /\ \A p \in Mutexes \ {q} : v[p].holder = queue[p].holder
      BY <1>3, <1>4, <3>2, <3>3, LengthAssumption
    <3>5. given = Disinherit(os, h) /\ queue[q].holder = h
      BY <1>5, <2>1, <3>2
    <3>6. Sound(given) /\ HeldSane(given, v)
      <4>1. HeldSane(given, v)
        BY ONLY <1>1, <3>2, <3>4, <3>5, GivenHolds
      <4> QED
        BY <1>1, <3>2, <3>5, <4>1, DisinheritSound
    <3> QED
      BY <3>6, <3>3
  <2>2. CASE ~ Gives(c.q, c.op)
    <3>1. given = os
      BY <1>5, <2>2
    <3>2. SameHolders(queue', queue)
      BY <1>1, <1>3, <1>4, <2>2, LengthAssumption DEF Gives, SameHolders
    <3>3. HeldSane(os, queue')
      BY <1>1, <3>2, HeldStays
    <3> QED
      BY <1>1, <3>1, <3>3
  <2> QED
    BY <2>1, <2>2
<1>7. os' = Wake(given, Receivers(c.q)) /\ Receivers(c.q) \in Queues \X {"receive", "send"}
  BY <1>1, <1>5, EventNames DEF SendNow
<1>8. os'.prio = given.prio /\ os'.held = given.held
  BY <1>6, <1>7, WakeSound DEF Kept
<1> QED
  BY <1>6, <1>8 DEF HeldSane

LEMMA ReceiveNowHolds ==
  ASSUME MInv, NEW t \in Tasks \ {Idle}, NEW c, WellFormed(c), ReceiveNow(t, c)
  PROVE  HeldSane(os', queue')
<1>1. /\ QueuesShaped /\ QueuesSane /\ MutexSane /\ Sound(os) /\ HeldSane(os, queue)
      /\ c.op = "receive" /\ c.q \in Queues /\ DOMAIN queue[c.q] = QueueFields
      /\ queue = [u \in Queues |-> queue[u]] /\ t \in Tasks
  BY DEF MInv, WInv, LInv, IInv, ReceiveNow, WellFormed, GetOps, QueuesShaped
<1>2. PICK s : s = IF c.q \in Mutexes THEN [os EXCEPT !.held[t] = @ + 1] ELSE os
  OBVIOUS
<1>3. Sound(s) /\ HeldSane(s, queue')
  <2>1. CASE c.q \in Mutexes
    <3>1. PICK r : r = [queue[c.q] EXCEPT !.store.waiting = @ - 1, !.holder = t]
      OBVIOUS
    <3>2. queue' = [queue EXCEPT ![c.q] = r] /\ r.holder = t
      BY <1>1, <2>1, <3>1 DEF ReceiveNow, QueueFields
    <3>3. \A p \in Queues : queue'[p] = IF p = c.q THEN r ELSE queue[p]
      BY <1>1, <3>2
    <3>4. queue[c.q].holder = NoTask
      <4>1. queue[c.q].store.waiting # 0
        BY <1>1 DEF ReceiveNow, Possible, PutOps, Empty, S!IsEmpty
      <4> QED
        BY <1>1, <2>1, <4>1 DEF MutexSane, MutexFree
    <3>5. PICK n : n = os.held[t] + 1
      OBVIOUS
    <3>6. n \in Int
      BY <1>1, <3>5, SoundTyped DEF Schedulers, Counts
    <3>7. s = WithHeld(os, t, n)
      BY <1>2, <2>1, <3>5 DEF WithHeld
    <3>8. Sound(s) /\ s.prio = os.prio /\ s.held = [os.held EXCEPT ![t] = n]
      BY <1>1, <3>6, <3>7, HeldSound
    <3>9. PICK q \in Mutexes : q = c.q
      BY <2>1
    <3>10. PICK v : v = queue'
      OBVIOUS
    <3>11. v[q].holder = t /\ \A p \in Mutexes \ {q} : v[p].holder = queue[p].holder
      BY <3>2, <3>3, <3>9, <3>10, LengthAssumption
    <3>12. HeldSane(s, v)
      <4>1. OneMore(s, os, t)
        BY <3>5, <3>8 DEF OneMore
      <4>2. Changes(v, queue, q, t)
        BY <3>4, <3>9, <3>11 DEF Changes
      <4> QED
        BY <1>1, <3>9, <4>1, <4>2, TakenHolds
    <3> QED
      BY <3>8, <3>12, <3>10
  <2>2. CASE c.q \notin Mutexes
    <3>1. queue' = [queue EXCEPT ![c.q].store = S!Receive(@, Length[c.q])]
      BY <2>2 DEF ReceiveNow
    <3>2. \A p \in Queues : p # c.q => queue'[p] = queue[p]
      BY <1>1, <3>1
    <3>3. SameHolders(queue', queue)
      BY <2>2, <3>2, LengthAssumption DEF SameHolders
    <3>4. HeldSane(os, queue')
      BY <1>1, <3>3, HeldStays
    <3> QED
      BY <1>1, <1>2, <2>2, <3>4
  <2> QED
    BY <2>1, <2>2
<1>4. os' = Wake(s, Senders(c.q)) /\ Senders(c.q) \in Queues \X {"receive", "send"}
  BY <1>1, <1>2, EventNames DEF ReceiveNow
<1>5. os'.prio = s.prio /\ os'.held = s.held
  BY <1>3, <1>4, WakeSound DEF Kept
<1> QED
  BY <1>3, <1>5 DEF HeldSane

LEMMA TurnHolds ==
  ASSUME MInv, NEW t \in Tasks \ {Idle}, NEW c, NEW ticks, NEW first, WellFormed(c),
         Turn(t, c, ticks, first)
  PROVE  HeldSane(os', queue')
<1>1. Sound(os) /\ HeldSane(os, queue)
  BY DEF MInv, WInv, LInv
<1>2. CASE PeekNow(t, c)
  <2>1. /\ os' = Wake(os, Receivers(c.q)) /\ UNCHANGED queue
        /\ Receivers(c.q) \in Queues \X {"receive", "send"}
    BY <1>2, EventNames DEF PeekNow, WellFormed, GetOps
  <2>2. os'.prio = os.prio /\ os'.held = os.held
    BY <1>1, <2>1, WakeSound DEF Kept
  <2> QED
    BY <1>1, <2>1, <2>2 DEF HeldSane, HeldBy
<1>3. CASE GiveUp(t, c, ticks) \/ Block(t, c, ticks, first)
  BY <1>1, <1>3 DEF GiveUp, Block
<1> QED
  BY <1>2, <1>3, SendNowHolds, ReceiveNowHolds DEF Turn

\* The other steps keep holders, priorities and counts.
KeepsHeld == os'.prio = os.prio /\ os'.held = os.held /\ SameHolders(queue', queue)

LEMMA KeepsHeldHolds == HeldSane(os, queue) /\ KeepsHeld => HeldSane(os', queue')
<1> SUFFICES ASSUME HeldSane(os, queue), KeepsHeld PROVE HeldSane(os', queue')
  OBVIOUS
<1>1. PICK r, u : r = os' /\ u = queue'
  OBVIOUS
<1>2. r.prio = os.prio /\ r.held = os.held /\ SameHolders(u, queue)
  BY <1>1 DEF KeepsHeld
<1>3. HeldSane(r, u)
  BY <1>2, HeldStays
<1> QED
  BY <1>1, <1>3

LEMMA CallStepsHold ==
  ASSUME MInv, NEW t \in Tasks \ {Idle}, os.current = t,
         \/ SuspendScheduler(t) \/ LockQueue(t) \/ CheckForTimeOut(t) \/ TestAgain(t)
         \/ UnlockTx(t) \/ UnlockRx(t) \/ ResumeScheduler(t)
  PROVE  KeepsHeld
<1>1. /\ LInv /\ Sound(os) /\ QueuesShaped /\ QueuesSane /\ SameHolders(queue, queue)
      /\ queue = [u \in Queues |-> queue[u]] /\ \A u \in Queues : DOMAIN queue[u] = QueueFields
  BY DEF MInv, WInv, LInv, IInv, QueuesShaped, SameHolders
<1>2. PICK q : q = task[t].call.q
  OBVIOUS
<1>3. CASE SuspendScheduler(t)
  <2>1. os' = SuspendAll(os) /\ UNCHANGED queue
    BY <1>3 DEF SuspendScheduler
  <2>2. Kept(os', os)
    BY <1>1, <2>1, SuspendAllSound
  <2> QED
    BY <2>1, <2>2 DEF KeepsHeld, Kept, SameHolders
<1>4. CASE CheckForTimeOut(t) \/ TestAgain(t)
  BY <1>4 DEF CheckForTimeOut, TestAgain, KeepsHeld, SameHolders
<1>5. CASE ResumeScheduler(t)
  <2>1. os' = ResumeAll(os) /\ UNCHANGED queue
    BY <1>5 DEF ResumeScheduler
  <2>2. Kept(os', os)
    BY <1>1, <2>1, ResumeAllSound
  <2> QED
    BY <2>1, <2>2 DEF KeepsHeld, Kept, SameHolders
<1>6. CASE LockQueue(t) \/ UnlockTx(t) \/ UnlockRx(t)
  <2>1. q \in Queues
    <3>1. task[t].at \in InCall
      BY <1>6 DEF LockQueue, UnlockTx, UnlockRx, Running, InCall
    <3> QED
      BY <1>1, <1>2, <3>1, CallIs
  <2>2. SameHolders(queue', queue)
    <3>1. CASE LockQueue(t)
      <4>1. PICK x, y : queue' = [queue EXCEPT ![q].tx = x, ![q].rx = y]
        <5>1. queue' = [queue EXCEPT ![q].tx = (IF @ = Unlocked THEN 0 ELSE @),
                                     ![q].rx = (IF @ = Unlocked THEN 0 ELSE @)]
          BY <1>2, <3>1 DEF LockQueue
        <5> QED
          BY <5>1
      <4>2. \A p \in Queues : queue'[p].holder = queue[p].holder
        BY <1>1, <2>1, <4>1 DEF QueueFields
      <4> QED
        BY <4>2, LengthAssumption DEF SameHolders
    <3>2. CASE UnlockTx(t) \/ UnlockRx(t)
      <4>1. \/ queue' = [queue EXCEPT ![q].tx = Unlocked]
            \/ queue' = [queue EXCEPT ![q].rx = Unlocked]
        BY <1>2, <3>2 DEF UnlockTx, UnlockRx
      <4>2. \A p \in Queues : queue'[p].holder = queue[p].holder
        BY <1>1, <2>1, <4>1 DEF QueueFields
      <4> QED
        BY <4>2, LengthAssumption DEF SameHolders
    <3> QED
      BY <1>6, <3>1, <3>2
  <2>3. os'.prio = os.prio /\ os'.held = os.held
    <3>1. CASE LockQueue(t)
      BY <3>1 DEF LockQueue
    <3>2. CASE UnlockTx(t) \/ UnlockRx(t)
      <4>1. \/ os' = WakeMany(os, Receivers(q), queue[q].tx)
            \/ os' = WakeMany(os, Senders(q), queue[q].rx)
        BY <1>2, <3>2 DEF UnlockTx, UnlockRx
      <4>2. queue[q].tx \in Nat \cup {Unlocked} /\ queue[q].rx \in Nat \cup {Unlocked}
        BY <1>1, <2>1 DEF QueuesSane, QueueSane
      <4>3. Kept(os', os)
        BY <1>1, <2>1, <4>1, <4>2, EventNames, WakeManySound
      <4> QED
        BY <4>3 DEF Kept
    <3> QED
      BY <1>6, <3>1, <3>2
  <2> QED
    BY <2>2, <2>3 DEF KeepsHeld
<1> QED
  BY <1>3, <1>4, <1>5, <1>6

LEMMA DelayStepsHold ==
  ASSUME MInv, NEW t \in Tasks \ {Idle}, os.current = t,
         CallDelay(t) \/ Delay(t) \/ Suspend(t) \/ ResetUnblock(t) \/ Resume(t)
  PROVE  KeepsHeld
<1>1. LInv /\ Sound(os) /\ TasksSane /\ program \in Programs
  BY DEF MInv, WInv, LInv, IInv
<1>2. SameHolders(queue', queue)
  BY DEF CallDelay, Delay, Suspend, ResetUnblock, Resume, SameHolders
<1>3. CASE CallDelay(t)
  <2>1. os' = SuspendAll(os) \/ os' = os
    BY <1>3 DEF CallDelay
  <2>2. Kept(os', os)
    BY <1>1, <2>1, SuspendAllSound DEF Kept
  <2> QED
    BY <1>2, <2>2 DEF KeepsHeld, Kept
<1>4. CASE Delay(t)
  <2>1. PICK w, x : w = WakeTime(t) /\ x = TakeFromReady(os, t)
    OBVIOUS
  <2>2. w \in Nat
    <3>1. TaskSane(task[t]) /\ os.tick \in Nat
      BY <1>1, SoundTyped DEF TasksSane, Schedulers
    <3>2. PICK n : n = (IF task[t].call.op = "delay" THEN os.tick ELSE task[t].lastWake) + task[t].ticks
      OBVIOUS
    <3>3. n \in Int
      BY <3>1, <3>2 DEF TaskSane
    <3> QED
      BY <2>1, <3>2, <3>3, TickModIs DEF WakeTime
  <2>3. Taken(x, t) /\ Same(x, os)
    BY <1>1, <2>1, TakeFromReadyTaken
  <2>4. x.current = t
    BY <2>3 DEF Same
  <2>5. os' = AddCurrentToDelayed(x, w) \/ os' = os
    BY <1>4, <2>1 DEF Delay
  <2>6. os'.prio = os.prio /\ os'.held = os.held
    BY <2>2, <2>3, <2>4, <2>5, AddCurrentToDelayedSound DEF Same
  <2> QED
    BY <1>2, <2>6 DEF KeepsHeld
<1>5. CASE Suspend(t)
  <2>1. PICK c \in program.calls[t] :
           /\ c.op = "suspend"
           /\ os' = [RemoveEvent(TakeFromReady(os, c.q), c.q) EXCEPT !.suspended = @ \cup {c.q}]
    BY <1>5 DEF Suspend
  <2>2. PICK u, x, y : u = c.q /\ x = TakeFromReady(os, u) /\ y = RemoveEvent(x, u)
    OBVIOUS
  <2>3. u \in Tasks \ {Idle}
    BY <1>1, <2>1, <2>2, ProgramsAssumption DEF WellFormed
  <2>4. Taken(x, u) /\ Same(x, os)
    BY <1>1, <2>2, <2>3, TakeFromReadyTaken
  <2>5. y \in Schedulers /\ Same(y, x)
    BY <2>2, <2>4, RemoveEventIs DEF Taken, Lists
  <2>6. os' = [y EXCEPT !.suspended = @ \cup {u}]
    BY <2>1, <2>2
  <2>7. os'.prio = y.prio /\ os'.held = y.held
    BY <2>5, <2>6 DEF Schedulers
  <2> QED
    BY <1>2, <2>4, <2>5, <2>7 DEF KeepsHeld, Same
<1>6. CASE ResetUnblock(t)
  <2>1. os' = ResetNextUnblock(os)
    BY <1>6 DEF ResetUnblock
  <2>2. Kept(os', os)
    BY <1>1, <2>1, SoundHoused, ResetNextUnblockSound
  <2> QED
    BY <1>2, <2>2 DEF KeepsHeld, Kept
<1>7. CASE Resume(t)
  <2>1. PICK c \in program.calls[t] :
           /\ c.op = "resume"
           /\ os' = AddToReady(RemoveGeneric(os, c.q), c.q) \/ os' = os
    BY <1>7 DEF Resume
  <2>2. PICK u, x : u = c.q /\ x = RemoveGeneric(os, u)
    OBVIOUS
  <2>3. u \in Tasks
    BY <1>1, <2>1, <2>2, ProgramsAssumption DEF WellFormed
  <2>4. Loose(x, u) /\ Same(x, os)
    BY <1>1, <2>2, <2>3, RemoveGenericLoose
  <2>5. os' = AddToReady(x, u) \/ os' = os
    BY <2>1, <2>2
  <2>6. os'.prio = os.prio /\ os'.held = os.held
    BY <2>3, <2>4, <2>5, AddToReadySound DEF Same
  <2> QED
    BY <1>2, <2>6 DEF KeepsHeld
<1> QED
  BY <1>3, <1>4, <1>5, <1>6, <1>7

LEMMA InterruptsHold ==
  ASSUME MInv, SendFromISR \/ ReceiveFromISR \/ Tick \/ PendSV
  PROVE  KeepsHeld
<1>1. /\ Sound(os) /\ program \in Programs /\ QueuesShaped
      /\ queue = [u \in Queues |-> queue[u]]
  BY DEF MInv, WInv, LInv, IInv, QueuesShaped
<1>2. CASE Tick
  <2>1. Kept(os', os) /\ UNCHANGED queue
    BY <1>1, <1>2, IncrementTickSound DEF Tick
  <2> QED
    BY <2>1 DEF KeepsHeld, Kept, SameHolders
<1>3. CASE PendSV
  <2>1. os'.prio = os.prio /\ os'.held = os.held /\ UNCHANGED queue
    BY <1>1, <1>3, SwitchContextSound DEF PendSV
  <2> QED
    BY <2>1 DEF KeepsHeld, SameHolders
<1>4. CASE SendFromISR \/ ReceiveFromISR
  <2>1. PICK c \in program.isr :
          /\ c.op \in PutOps \cup {"receive"}
          /\ \A p \in Queues : p # c.q => queue'[p] = queue[p]
          /\ os' = os \/ os' = Wake(os, Receivers(c.q)) \/ os' = Wake(os, Senders(c.q))
    BY <1>1, <1>4 DEF SendFromISR, ReceiveFromISR
  <2>2. c.q \in Queues \ Mutexes
    BY <1>1, <2>1, ProgramsAssumption DEF WellFormed, GetOps
  <2>3. SameHolders(queue', queue)
    BY <2>1, <2>2, LengthAssumption DEF SameHolders
  <2>4. Kept(os', os)
    BY <1>1, <2>1, <2>2, EventNames, WakeSound DEF Kept
  <2> QED
    BY <2>3, <2>4 DEF KeepsHeld, Kept
<1> QED
  BY <1>2, <1>3, <1>4

LEMMA InitMInv == Init => MInv
<1> SUFFICES ASSUME Init PROVE HeldSane(os, queue)
  BY InitWInv DEF MInv
<1>1. /\ os.prio = BasePrio /\ os.held = [t \in Tasks |-> 0]
      /\ queue = [q \in Queues |->
                   [store |-> [S!Reset(Length[q]) EXCEPT !.waiting = IF q \in Mutexes THEN 1 ELSE 0],
                    tx |-> Unlocked, rx |-> Unlocked, holder |-> NoTask]]
  BY DEF Init
<1>2. \A t \in Tasks : HeldBy(queue, t) = {}
  BY <1>1, LengthAssumption, NoTaskAssumption DEF HeldBy
<1>3. \A t \in Tasks : BasePrio[t] \in Nat
  BY TasksAssumption
<1>4. Cardinality({}) = 0
  BY FS_EmptySet
<1> QED
  <2> SUFFICES ASSUME NEW t \in Tasks
               PROVE  /\ os.held[t] = Cardinality(HeldBy(queue, t))
                      /\ os.prio[t] > BasePrio[t] => os.held[t] > 0
                      /\ os.prio[t] >= BasePrio[t]
    BY DEF HeldSane
  <2>1. os.held[t] = 0 /\ os.prio[t] = BasePrio[t] /\ BasePrio[t] \in Nat
    BY <1>1, <1>3
  <2> QED
    BY <1>2, <1>4, <2>1

LEMMA NextMInv == MInv /\ [Next]_vars => MInv'
<1> SUFFICES ASSUME MInv, [Next]_vars PROVE HeldSane(os', queue')
  BY NextWInv DEF MInv
<1>1. HeldSane(os, queue) /\ LInv
  BY DEF MInv, WInv
<1>2. CASE UNCHANGED vars
  BY <1>1, <1>2 DEF vars
<1>3. ASSUME NEW t \in Tasks, TaskStep(t) PROVE HeldSane(os', queue')
  <2>1. t \in Tasks \ {Idle} /\ os.current = t
    BY <1>1, <1>3, NotIdle
  <2>2. CASE Call(t)
    <3>1. PICK c \in program.calls[t] : Turn(t, c, c.ticks, TRUE)
      BY <2>2 DEF Call
    <3>2. WellFormed(c)
      BY <1>1, ProgramsAssumption DEF LInv, IInv
    <3> QED
      BY <2>1, <3>1, <3>2, TurnHolds
  <2>3. CASE Retry(t)
    <3>1. WellFormed(task[t].call) /\ Turn(t, task[t].call, task[t].ticks, FALSE)
      BY <1>1, <2>3 DEF Retry, LInv, IInv, CallsSound
    <3> QED
      BY <2>1, <3>1, TurnHolds
  <2>4. CASE Place(t)
    BY <2>1, <2>4, PlaceHolds
  <2>5. CASE \/ SuspendScheduler(t) \/ LockQueue(t) \/ CheckForTimeOut(t) \/ TestAgain(t)
             \/ UnlockTx(t) \/ UnlockRx(t) \/ ResumeScheduler(t)
    <3>1. KeepsHeld
      BY <2>1, <2>5, CallStepsHold
    <3> QED
      BY <1>1, <3>1, KeepsHeldHolds
  <2>6. CASE CallDelay(t) \/ Delay(t) \/ Suspend(t) \/ ResetUnblock(t) \/ Resume(t)
    <3>1. KeepsHeld
      BY <2>1, <2>6, DelayStepsHold
    <3> QED
      BY <1>1, <3>1, KeepsHeldHolds
  <2> QED
    BY <1>3, <2>2, <2>3, <2>4, <2>5, <2>6 DEF TaskStep
<1> QED
  BY <1>1, <1>2, <1>3, InterruptsHold, KeepsHeldHolds DEF Next

\* However tasks take and give mutexes, wait for them, are suspended or delayed
\* while they hold some: a mutex is free exactly when it has no holder, each task
\* counts the ones it holds, and a priority is raised only while one is held.
THEOREM MutexesAreCounted == Spec => []MutexesCounted
<1>1. MInv => MutexesCounted
  BY DEF MInv, WInv, MutexSane, MutexFree, HeldSane, HeldBy, MutexesCounted
<1> QED
  BY <1>1, InitMInv, NextMInv, PTL DEF Spec
-----------------------------------------------------------------------------
(***************************************************************************)
(* Who should run: the scheduler's functions again, for the bit map and    *)
(* the flag of a switch that is due.                                       *)
(***************************************************************************)
\* No ready list above the running task's priority is in use, or a switch is due.
Settled(s) == \A p \in s.top : p <= s.prio[s.current]
Calm(s) == s.missed \/ Settled(s)

\* No priority comes into use, and the flag stays.
NoHigher(r, s) == r.top \subseteq s.top /\ r.missed = s.missed

LEMMA CalmStays == ASSUME NEW r, NEW s, NoHigher(r, s), Kept(r, s) PROVE Calm(s) => Calm(r)
BY DEF NoHigher, Kept, Calm, Settled

LEMMA PriosAreNat ==
  ASSUME NEW s, Sound(s), NEW t \in Tasks
  PROVE  /\ s.prio[t] \in Nat /\ s.current \in Tasks /\ s.prio[s.current] \in Nat
         /\ s.top \subseteq Nat /\ s.missed \in BOOLEAN
<1>1. s.prio \in [Tasks -> Priorities] /\ s.current \in Tasks /\ s.top \subseteq Priorities /\ s.missed \in BOOLEAN
  BY SoundTyped DEF Schedulers, Prios
<1> QED
  BY <1>1, PrioritiesFinite

LEMMA RemoveGenericTop ==
  ASSUME NEW s \in Schedulers, NEW t, NEW r, r = RemoveGeneric(s, t)
  PROVE  r.top = s.top /\ r.missed = s.missed
<1>1. PICK x, d, o, u, w : /\ x = [p \in Priorities |-> RingRemove(s.ready[p], t)]
                           /\ d = Without(s.delayed, t) /\ o = Without(s.overflow, t)
                           /\ u = s.suspended \ {t} /\ w = [s.wake EXCEPT ![t] = 0]
  OBVIOUS
<1>2. r = [s EXCEPT !.ready = x, !.delayed = d, !.overflow = o, !.suspended = u, !.wake = w]
  BY <1>1 DEF RemoveGeneric, Schedulers
<1> QED
  BY <1>2 DEF Schedulers

LEMMA RemoveEventTop ==
  ASSUME NEW s \in Schedulers, NEW t, NEW r, r = RemoveEvent(s, t)
  PROVE  r.top = s.top /\ r.missed = s.missed
<1>1. PICK e, p : e = [l \in DOMAIN s.event |-> Without(s.event[l], t)] /\ p = Without(s.pending, t)
  OBVIOUS
<1>2. r = [s EXCEPT !.event = e, !.pending = p]
  BY <1>1 DEF RemoveEvent, Schedulers
<1> QED
  BY <1>2 DEF Schedulers

LEMMA TakeFromReadyTop ==
  ASSUME NEW s, Sound(s), NEW t \in Tasks, NEW r, r = TakeFromReady(s, t)
  PROVE  NoHigher(r, s)
<1>1. PICK x, p : x = RemoveGeneric(s, t) /\ p = s.prio[t]
  OBVIOUS
<1>2. x \in Schedulers /\ x.top = s.top /\ x.missed = s.missed
  BY <1>1, SoundTyped, RemoveGenericLoose, RemoveGenericTop DEF Loose, Lists
<1>3. r = x \/ r = [x EXCEPT !.top = @ \ {p}]
  BY <1>1 DEF TakeFromReady, ResetReady
<1>4. PICK b : b = x.top \ {p}
  OBVIOUS
<1>5. r = x \/ r = [x EXCEPT !.top = b]
  BY <1>3, <1>4
<1>6. r.missed = x.missed /\ (r.top = x.top \/ r.top = b)
  BY <1>2, <1>5 DEF Schedulers
<1> QED
  BY <1>2, <1>4, <1>6 DEF NoHigher

\* A task comes to the end of its ready list.
Adds(r, s, t) == r.top \subseteq s.top \cup {s.prio[t]} /\ r.missed = s.missed

LEMMA AddToReadyTop ==
  ASSUME NEW s \in Schedulers, NEW t \in Tasks, NEW r, r = AddToReady(s, t)
  PROVE  Adds(r, s, t) /\ Same(r, s)
<1>1. PICK x, b : x = [s.ready EXCEPT ![s.prio[t]] = RingInsertEnd(@, t)] /\ b = s.top \cup {s.prio[t]}
  OBVIOUS
<1>2. r = [s EXCEPT !.top = b, !.ready = x]
  BY <1>1 DEF AddToReady, Schedulers
<1>3. r.top = b /\ r.missed = s.missed
  BY <1>2 DEF Schedulers
<1>4. Same(r, s)
  BY <1>2 DEF Schedulers, Same
<1> QED
  BY <1>1, <1>3, <1>4 DEF Adds

LEMMA AddsSettled ==
  ASSUME NEW r, NEW s, NEW t, Adds(r, s, t), Kept(r, s), Settled(s), s.prio[t] <= s.prio[s.current]
  PROVE  Settled(r)
BY DEF Adds, Kept, Settled

LEMMA ReadiedTop ==
  ASSUME NEW s, Sound(s), NEW t \in Tasks, NEW r, r = AddToReady(RemoveGeneric(s, t), t)
  PROVE  Adds(r, s, t) /\ Kept(r, s)
<1>1. PICK x : x = RemoveGeneric(s, t)
  OBVIOUS
<1>2. x \in Schedulers /\ Same(x, s) /\ x.top = s.top /\ x.missed = s.missed
  BY <1>1, SoundTyped, RemoveGenericLoose, RemoveGenericTop DEF Loose, Lists
<1>3. r = AddToReady(x, t)
  BY <1>1
<1>4. Adds(r, x, t) /\ Same(r, x)
  BY <1>2, <1>3, AddToReadyTop
<1> QED
  BY <1>2, <1>4 DEF Adds, Same, Kept

LEMMA RemoveFromEventListCalm ==
  ASSUME NEW s, Sound(s), Calm(s), NEW l \in Queues \X {"receive", "send"}, s.event[l] # << >>,
         NEW r, r = RemoveFromEventList(s, l)
  PROVE  Calm(r)
<1>0. s \in Schedulers /\ s.event[l] \in Seq(Tasks)
  <2>1. s \in Schedulers
    BY SoundTyped
  <2>2. s.event \in Events
    BY <2>1 DEF Schedulers
  <2> QED
    BY <2>1, <2>2 DEF Events
<1>1. PICK t, e, b : t = Head(s.event[l]) /\ e = Tail(s.event[l]) /\ b = (s.missed \/ Outranks(s, l))
  OBVIOUS
<1>2. t \in Tasks /\ e \in Seq(Tasks) /\ b \in BOOLEAN
  <2>1. PICK m : m = s.event[l]
    OBVIOUS
  <2>2. Head(m) \in Tasks /\ Tail(m) \in Seq(Tasks)
    BY <1>0, <2>1
  <2>3. b \in BOOLEAN
    BY <1>1
  <2> QED
    BY <1>1, <2>1, <2>2, <2>3
<1>3. PICK x, y : x = WithEvent(s, l, e) /\ y = [x EXCEPT !.missed = b]
  OBVIOUS
<1>4. Sound(x) /\ Same(x, s)
  BY ONLY Sound(s), l \in Queues \X {"receive", "send"}, <1>2, <1>3, EventSound
<1>5. Sound(y) /\ Kept(y, x)
  BY ONLY <1>2, <1>3, <1>4, MissedSound
<1>6. y = [s EXCEPT !.event[l] = Tail(@), !.missed = @ \/ Outranks(s, l)]
  BY <1>0, <1>1, <1>3 DEF WithEvent, Schedulers
<1>7. y.top = s.top /\ y.missed = b /\ Kept(y, s) /\ y.locked = s.locked
  <2>1. x \in Schedulers /\ x.top = s.top
    <3>1. PICK h : h = [s.event EXCEPT ![l] = e]
      OBVIOUS
    <3>2. x = [s EXCEPT !.event = h]
      BY <1>0, <1>3, <3>1 DEF WithEvent, Schedulers
    <3> QED
      BY <1>0, <1>4, <3>2, SoundTyped DEF Schedulers
  <2>2. y.top = x.top /\ y.missed = b /\ y.locked = x.locked
    BY <1>3, <2>1 DEF Schedulers
  <2> QED
    BY <1>4, <1>5, <2>1, <2>2 DEF Same, Kept
<1>8. r = IF s.locked = 0 THEN AddToReady(RemoveGeneric(y, t), t) ELSE [y EXCEPT !.pending = Append(@, t)]
  BY <1>1, <1>6 DEF RemoveFromEventList
<1>9. CASE s.locked = 0
  <2>1. Adds(r, y, t) /\ Kept(r, y)
    BY <1>2, <1>5, <1>8, <1>9, ReadiedTop
  <2>2. CASE b
    BY <1>7, <2>1, <2>2 DEF Adds, Calm
  <2>3. CASE ~ b
    <3>1. Settled(y)
      BY <1>1, <1>7, <2>3 DEF Calm, Settled, Kept
    <3>2. ~ (s.prio[t] > s.prio[s.current])
      BY <1>1, <2>3 DEF Outranks
    <3>3. y.prio[t] <= y.prio[y.current]
      BY <1>2, <1>7, <3>2, PriosAreNat DEF Kept
    <3> QED
      BY <2>1, <3>1, <3>3, AddsSettled DEF Calm
  <2> QED
    BY <2>2, <2>3
<1>10. CASE s.locked # 0
  <2>1. PICK p : p = Append(y.pending, t)
    OBVIOUS
  <2>2. r = [y EXCEPT !.pending = p]
    BY <1>8, <1>10, <2>1
  <2>3. NoHigher(r, y) /\ Kept(r, y)
    BY <1>5, <2>2, SoundTyped DEF Schedulers, NoHigher, Kept
  <2>4. Calm(y)
    BY <1>1, <1>7 DEF Calm, Settled, Kept
  <2> QED
    BY <2>3, <2>4, CalmStays
<1> QED
  BY <1>9, <1>10

LEMMA WakeCalm ==
  ASSUME NEW s, Sound(s), Calm(s), NEW l \in Queues \X {"receive", "send"}, NEW r, r = Wake(s, l)
  PROVE  Calm(r)
<1>1. CASE s.event[l] = << >>
  BY <1>1 DEF Wake
<1>2. CASE s.event[l] # << >>
  <2>1. r = RemoveFromEventList(s, l)
    BY <1>2 DEF Wake
  <2> QED
    BY <1>2, <2>1, RemoveFromEventListCalm
<1> QED
  BY <1>1, <1>2

LEMMA WakeOneCalm ==
  ASSUME NEW s, Sound(s), Calm(s), NEW l \in Queues \X {"receive", "send"}, NEW r, r = WakeOne(s, l)
  PROVE  Calm(r)
<1>1. PICK x : x = Wake(s, l)
  OBVIOUS
<1>2. Sound(x) /\ Calm(x)
  BY <1>1, WakeSound, WakeCalm
<1>3. r = x \/ r = [x EXCEPT !.missed = TRUE]
  BY <1>1 DEF WakeOne
<1> QED
  BY <1>2, <1>3, SoundTyped DEF Schedulers, Calm

LEMMA WakeManyCalm ==
  ASSUME NEW s, Sound(s), Calm(s), NEW l \in Queues \X {"receive", "send"}, NEW n \in Nat \cup {Unlocked},
         NEW r, r = WakeMany(s, l, n)
  PROVE  Calm(r)
<1> DEFINE D == {x \in Schedulers : Sound(x) /\ Calm(x)}
<1>1. s \in D
  BY SoundTyped
<1>2. ASSUME NEW x \in D, NEW m \in Nat, NEW i \in 1 .. m PROVE WakeOne(x, l) \in D
  <2>1. PICK y : y = WakeOne(x, l)
    OBVIOUS
  <2>2. Sound(y) /\ Calm(y)
    BY <2>1, WakeOneSound, WakeOneCalm
  <2> QED
    BY <2>1, <2>2, SoundTyped
<1> HIDE DEF D
<1>3. PICK m \in Nat : r = WakeMany(s, l, m)
  <2>1. CASE n \in Nat
    BY <2>1
  <2>2. CASE n = Unlocked
    <3>1. 1 .. n = 1 .. 0
      BY <2>2 DEF Unlocked
    <3>2. WakeMany(s, l, n) = WakeMany(s, l, 0)
      BY <3>1 DEF WakeMany
    <3> QED
      BY <3>2
  <2> QED
    BY <2>1, <2>2
<1>4. WakeMany(s, l, m) \in D
  BY <1>1, <1>2, WakeManyFold
<1> QED
  BY <1>3, <1>4 DEF D

LEMMA ResetNextUnblockTop ==
  ASSUME NEW s \in Schedulers, NEW r, r = ResetNextUnblock(s)
  PROVE  r.top = s.top /\ r.missed = s.missed
<1>1. PICK u : u = (IF s.delayed = << >> THEN MaxDelay ELSE s.wake[Head(s.delayed)])
  OBVIOUS
<1>2. r = [s EXCEPT !.unblock = u]
  BY <1>1 DEF ResetNextUnblock
<1> QED
  BY <1>2 DEF Schedulers

LEMMA TickedTop ==
  ASSUME NEW s, Sound(s), NEW r, r = Ticked(s)
  PROVE  r.top = s.top /\ r.missed = s.missed
<1>0. s \in Schedulers
  BY SoundTyped
<1>1. PICK n : n = (s.tick + 1) % TickMod
  OBVIOUS
<1>2. PICK x : x = [s EXCEPT !.tick = n]
  OBVIOUS
<1>3. /\ x.top = s.top /\ x.missed = s.missed /\ x.overflow = s.overflow /\ x.delayed = s.delayed
      /\ x.overflows = s.overflows
  BY <1>0, <1>2 DEF Schedulers
<1>4. PICK d, o, m : d = s.overflow /\ o = s.delayed /\ m = s.overflows + 1
  OBVIOUS
<1>5. PICK y : y = [x EXCEPT !.delayed = d, !.overflow = o, !.overflows = m]
  OBVIOUS
<1>6. y.top = s.top /\ y.missed = s.missed
  BY <1>0, <1>2, <1>3, <1>5 DEF Schedulers
<1>7. r = x \/ r = ResetNextUnblock(y)
  BY <1>1, <1>2, <1>3, <1>4, <1>5 DEF Ticked, SwitchDelayedLists
<1>8. PICK u : ResetNextUnblock(y) = [y EXCEPT !.unblock = u]
  BY DEF ResetNextUnblock
<1>9. [y EXCEPT !.unblock = u].top = y.top /\ [y EXCEPT !.unblock = u].missed = y.missed
  BY <1>0, <1>2, <1>5 DEF Schedulers
<1> QED
  BY <1>3, <1>6, <1>7, <1>8, <1>9

LEMMA WakeUpTop ==
  ASSUME NEW s, Sound(s), NEW t \in Tasks, NEW r, r = WakeUp(s, t)
  PROVE  Adds(r, s, t)
<1>1. PICK x, y : x = RemoveGeneric(s, t) /\ y = RemoveEvent(x, t)
  OBVIOUS
<1>2. x \in Schedulers /\ Same(x, s) /\ x.top = s.top /\ x.missed = s.missed
  BY <1>1, SoundTyped, RemoveGenericLoose, RemoveGenericTop DEF Loose, Lists
<1>3. y \in Schedulers /\ Same(y, x) /\ y.top = x.top /\ y.missed = x.missed
  BY ONLY <1>1, <1>2, RemoveEventIs, RemoveEventTop
<1>4. r = AddToReady(y, t)
  BY <1>1 DEF WakeUp
<1>5. Adds(r, y, t)
  BY <1>3, <1>4, AddToReadyTop
<1> QED
  BY <1>2, <1>3, <1>5 DEF Adds, Same

\* A tick after which the caller need not switch.
LEMMA IncrementTickSettled ==
  ASSUME NEW s, Sound(s), s.locked \in Nat, Settled(s), ~ SwitchAfterTick(s), NEW r, r = IncrementTick(s)
  PROVE  Settled(r)
<1>0. s \in Schedulers /\ s.pended \in Nat
  BY SoundTyped DEF Schedulers
<1>1. CASE s.locked > 0
  <2>1. PICK n : n = s.pended + 1
    OBVIOUS
  <2>2. r = [s EXCEPT !.pended = n]
    BY <1>0, <1>1, <2>1 DEF IncrementTick
  <2>3. r.top = s.top /\ r.current = s.current /\ r.prio = s.prio
    BY <1>0, <2>2 DEF Schedulers
  <2> QED
    BY <2>3 DEF Settled
<1>2. CASE s.locked = 0
  <2>1. PICK x, list : x = Ticked(s) /\ list = Due(x)
    OBVIOUS
  <2>2. Sound(x) /\ Kept(x, s) /\ x.top = s.top /\ x.missed = s.missed /\ x \in Schedulers
    BY <2>1, TickedSound, TickedTop, SoundTyped
  <2>3. list \in Seq(Tasks)
    BY <2>1, <2>2, DueIsSeq
  <2>4. ASSUME NEW i \in 1 .. Len(list) PROVE list[i] \in Tasks /\ s.prio[list[i]] <= s.prio[s.current]
    <3>1. ~ (s.prio[list[i]] >= s.prio[s.current])
      <4>1. i \in DOMAIN list
        BY <2>3
      <4> QED
        BY <1>2, <2>1, <4>1 DEF SwitchAfterTick
    <3>2. list[i] \in Tasks
      BY <2>3
    <3>3. s.prio[list[i]] \in Nat /\ s.prio[s.current] \in Nat
      BY <3>2, PriosAreNat
    <3> QED
      BY <3>1, <3>2, <3>3
  <2> DEFINE D == {y \in Schedulers : Sound(y) /\ Kept(y, s) /\ Settled(y)}
  <2>5. x \in D
    BY <2>2 DEF Settled, Kept
  <2>6. ASSUME NEW y \in D, NEW i \in 1 .. Len(list) PROVE WakeUp(y, list[i]) \in D
    <3>1. PICK z, t : t = list[i] /\ z = WakeUp(y, t)
      OBVIOUS
    <3>2. t \in Tasks /\ y.prio[t] <= y.prio[y.current]
      BY <2>4, <3>1 DEF Kept
    <3>3. Sound(z) /\ Kept(z, y) /\ Adds(z, y, t) /\ z \in Schedulers
      BY <3>1, <3>2, WakeUpSound, WakeUpTop, SoundTyped
    <3>4. Settled(z) /\ Kept(z, s)
      BY <3>2, <3>3, AddsSettled DEF Kept
    <3> QED
      BY <3>1, <3>3, <3>4
  <2> HIDE DEF D
  <2>7. PICK y : y = FoldLeft(WakeUp, x, list)
    OBVIOUS
  <2>8. y \in D
    BY <2>3, <2>5, <2>6, <2>7, WakeUpFold
  <2>9. y \in Schedulers /\ Sound(y) /\ Settled(y)
    BY <2>8 DEF D
  <2>10. r = y \/ r = ResetNextUnblock(y)
    BY <1>2, <2>1, <2>7 DEF IncrementTick
  <2>11. CASE r = y
    BY <2>9, <2>11
  <2>12. CASE r = ResetNextUnblock(y)
    BY <2>9, <2>12, SoundHoused, ResetNextUnblockSound, ResetNextUnblockTop DEF Kept, Settled
  <2> QED
    BY <2>10, <2>11, <2>12
<1> QED
  BY <1>1, <1>2

LEMMA ReplayTickCalm ==
  ASSUME NEW s, Sound(s), s.locked \in Nat, Calm(s), NEW i, NEW r, r = ReplayTick(s, i)
  PROVE  Calm(r)
<1>1. PICK x, b : x = IncrementTick(s) /\ b = SwitchAfterTick(s)
  OBVIOUS
<1>2. r = [x EXCEPT !.missed = b]
  BY <1>1 DEF ReplayTick
<1>3. x \in Schedulers
  BY <1>1, IncrementTickSound, SoundTyped
<1>4. r.missed = b /\ r.top = x.top /\ r.prio = x.prio /\ r.current = x.current
  BY <1>2, <1>3 DEF Schedulers
<1>5. CASE b
  BY <1>4, <1>5 DEF Calm
<1>6. CASE ~ b
  <2>1. ~ SwitchAfterTick(s)
    BY <1>1, <1>6
  <2>2. Settled(s)
    BY <2>1 DEF SwitchAfterTick, Calm
  <2>3. Settled(x)
    BY <1>1, <2>1, <2>2, IncrementTickSettled
  <2> QED
    BY <1>4, <2>3 DEF Calm, Settled
<1> QED
  BY <1>5, <1>6

LEMMA MovePendingCalm ==
  ASSUME NEW s, Sound(s), Calm(s), NEW t \in Tasks, NEW r, r = MovePending(s, t)
  PROVE  Calm(r)
<1>1. PICK x, z : x = RemoveEvent(s, t) /\ z = AddToReady(RemoveGeneric(x, t), t)
  OBVIOUS
<1>2. x \in Schedulers /\ SameLists(x, s) /\ Same(x, s) /\ x.missed = s.missed
  BY <1>1, SoundTyped, RemoveEventIs, RemoveEventTop
<1>3. Sound(x) /\ x.top = s.top
  BY <1>2, SameListsKeep DEF SameLists
<1>4. Adds(z, x, t) /\ Kept(z, x) /\ z \in Schedulers
  <2>1. PICK y : y = RemoveGeneric(x, t)
    OBVIOUS
  <2>2. Loose(y, t)
    BY <1>3, <2>1, RemoveGenericLoose
  <2>3. Sound(z)
    BY <1>1, <2>1, <2>2, AddToReadySound
  <2> QED
    BY <1>1, <1>3, <2>3, ReadiedTop, SoundTyped
<1>5. PICK b : b = (z.missed \/ s.prio[t] >= s.prio[s.current])
  OBVIOUS
<1>6. r = [z EXCEPT !.missed = b]
  BY <1>1, <1>5 DEF MovePending
<1>7. r.missed = b /\ r.top = z.top /\ r.prio = z.prio /\ r.current = z.current
  BY <1>4, <1>6 DEF Schedulers
<1>8. CASE b
  BY <1>7, <1>8 DEF Calm
<1>9. CASE ~ b
  <2>1. s.prio[t] <= s.prio[s.current]
    <3>1. ~ (s.prio[t] >= s.prio[s.current])
      BY <1>5, <1>9
    <3>2. s.prio[t] \in Nat /\ s.prio[s.current] \in Nat
      BY PriosAreNat
    <3> QED
      BY <3>1, <3>2
  <2>2. Settled(x) /\ x.prio[t] <= x.prio[x.current]
    BY <1>2, <1>3, <1>4, <1>5, <1>9, <2>1 DEF Adds, Calm, Settled, Same
  <2>3. Settled(z)
    BY <1>4, <2>2, AddsSettled
  <2> QED
    BY <1>7, <2>3 DEF Calm, Settled
<1> QED
  BY <1>8, <1>9

LEMMA ResumeAllCalm ==
  ASSUME NEW s, Sound(s), Asleep(s), s.locked = 1, Calm(s), NEW r, r = ResumeAll(s)
  PROVE  Calm(r)
<1>0. s \in Schedulers /\ s.pending \in Seq(Tasks) /\ s.pended \in Nat
  BY SoundTyped DEF Schedulers
<1>1. PICK x : x = [s EXCEPT !.locked = 0]
  OBVIOUS
<1>2. Sound(x) /\ Kept(x, s) /\ x.locked = 0 /\ Asleep(x)
  <2>1. Sound(x) /\ Kept(x, s) /\ x.locked = 0
    <3>1. PICK n \in Int : n = 0
      OBVIOUS
    <3>2. x = [s EXCEPT !.locked = n]
      BY <1>1, <3>1
    <3>3. Sound(x) /\ Kept(x, s) /\ x.locked = n
      BY ONLY Sound(s), <3>2, n \in Int, LockedSound
    <3> QED
      BY <3>1, <3>3
  <2> QED
    BY <1>1, <2>1, LockedRouses DEF Rouses
<1>3. Calm(x)
  BY <1>0, <1>1 DEF Schedulers, Calm, Settled
<1> DEFINE D == {y \in Schedulers : Sound(y) /\ Asleep(y) /\ y.locked = 0 /\ Calm(y)}
<1>4. x \in D
  BY <1>2, <1>3, SoundTyped
<1>5. PICK list, ticks : list = s.pending /\ ticks = [i \in 1 .. s.pended |-> i]
  OBVIOUS
<1>6. list \in Seq(Tasks) /\ ticks \in Seq(Nat)
  BY <1>0, <1>5
<1>7. ASSUME NEW y \in D, NEW i \in 1 .. Len(list) PROVE MovePending(y, list[i]) \in D
  <2>1. PICK z, t : t = list[i] /\ z = MovePending(y, t)
    OBVIOUS
  <2>2. t \in Tasks
    BY <1>6, <2>1
  <2>3. Sound(z) /\ z \in Schedulers /\ Calm(z)
    BY <2>1, <2>2, MovePendingSound, MovePendingCalm, SoundTyped
  <2>4. Asleep(z) /\ z.locked = y.locked
    BY <2>1, <2>2, MovePendingRouses DEF Rouses
  <2> QED
    BY <2>1, <2>3, <2>4
<1>8. ASSUME NEW y \in D, NEW i \in 1 .. Len(ticks) PROVE ReplayTick(y, ticks[i]) \in D
  <2>1. PICK z, t : t = ticks[i] /\ z = ReplayTick(y, t)
    OBVIOUS
  <2>2. Sound(z) /\ z \in Schedulers /\ Calm(z)
    BY <2>1, ReplayTickSound, ReplayTickCalm, SoundTyped
  <2>3. Asleep(z) /\ z.locked = y.locked
    BY <2>1, ReplayTickRouses DEF Rouses
  <2> QED
    BY <2>1, <2>2, <2>3
<1> HIDE DEF D
<1>9. PICK y, z : y = FoldLeft(MovePending, x, list) /\ z = FoldLeft(ReplayTick, y, ticks)
  OBVIOUS
<1>10. y \in D
  BY <1>4, <1>6, <1>7, <1>9, MovePendingFold
<1>11. z \in D
  BY <1>6, <1>8, <1>9, <1>10, ReplayTickFold
<1>12. z \in Schedulers /\ Calm(z)
  BY <1>11 DEF D
<1>13. [s EXCEPT !.locked = @ - 1] = x
  BY <1>1
<1>14. r = x \/ r = [z EXCEPT !.pended = 0]
  BY <1>5, <1>9, <1>13 DEF ResumeAll
<1>15. CASE r = x
  BY <1>3, <1>15
<1>16. CASE r = [z EXCEPT !.pended = 0]
  BY <1>12, <1>16 DEF Schedulers, Calm, Settled
<1> QED
  BY <1>14, <1>15, <1>16

LEMMA InheritCalm ==
  ASSUME NEW s, Sound(s), Calm(s), NEW h \in Tasks, NEW r, r = Inherit(s, h)
  PROVE  Calm(r)
<1>0. s \in Schedulers /\ s.prio \in [Tasks -> Priorities] /\ s.current \in Tasks
  BY SoundTyped DEF Schedulers, Prios
<1>1. PICK p : p = s.prio[s.current]
  OBVIOUS
<1>2. p \in Priorities /\ p \in Nat /\ s.prio[h] \in Nat
  BY <1>0, <1>1, PriosAreNat
<1>3. CASE s.prio[h] >= p
  BY <1>1, <1>3 DEF Inherit
<1>4. CASE ~ (s.prio[h] >= p)
  <2>1. h # s.current /\ s.prio[h] # p
    BY <1>1, <1>2, <1>4
  <2>2. PICK x : x = TakeFromReady(s, h)
    OBVIOUS
  <2>3. NoHigher(x, s) /\ Same(x, s) /\ x \in Schedulers
    BY <2>2, TakeFromReadyTop, TakeFromReadyTaken DEF Taken, Lists
  <2>4. r = AddToReady(WithPrio(x, h, p), h) \/ r = WithPrio(s, h, p)
    BY <1>1, <1>4, <2>2 DEF Inherit, WithPrio
  <2>5. CASE r = AddToReady(WithPrio(x, h, p), h)
    <3>1. PICK y, g : y = WithPrio(x, h, p) /\ g = [s.prio EXCEPT ![h] = p]
      OBVIOUS
    <3>2. y = [x EXCEPT !.prio = g]
      BY <2>3, <3>1 DEF WithPrio, Schedulers, Same
    <3>3. g \in Prios /\ g[h] = p /\ g[s.current] = p
      BY <1>0, <1>1, <1>2, <2>1, <3>1 DEF Prios
    <3>4. y \in Schedulers
      BY <2>3, <3>2, <3>3 DEF Schedulers
    <3>5. y.top = x.top /\ y.missed = x.missed /\ y.prio = g /\ y.current = x.current
      BY <2>3, <3>2 DEF Schedulers
    <3>6. Adds(r, y, h) /\ Same(r, y)
      BY <2>5, <3>1, <3>4, AddToReadyTop
    <3>7. r.missed = s.missed /\ r.top \subseteq s.top \cup {p} /\ r.prio[r.current] = p
      BY <2>3, <3>3, <3>5, <3>6 DEF Adds, Same, NoHigher
    <3> QED
      BY <1>1, <1>2, <3>7 DEF Calm, Settled
  <2>6. CASE r = WithPrio(s, h, p)
    <3>1. PICK g : g = [s.prio EXCEPT ![h] = p]
      OBVIOUS
    <3>2. r = [s EXCEPT !.prio = g]
      BY <1>0, <2>6, <3>1 DEF WithPrio, Schedulers
    <3>3. g[s.current] = p
      BY <1>0, <1>1, <2>1, <3>1
    <3>4. r.top = s.top /\ r.missed = s.missed /\ r.prio = g /\ r.current = s.current
      BY <1>0, <3>2 DEF Schedulers
    <3> QED
      BY <1>1, <3>3, <3>4 DEF Calm, Settled
  <2> QED
    BY <2>4, <2>5, <2>6
<1> QED
  BY <1>3, <1>4

\* A holder whose priority does not drop, and a task that takes a mutex.
LEMMA HeldCalm ==
  ASSUME NEW s, Sound(s), NEW t, NEW n, NEW r, r = WithHeld(s, t, n)
  PROVE  Calm(s) => Calm(r)
<1>1. PICK h : h = [s.held EXCEPT ![t] = n]
  OBVIOUS
<1>2. r = [s EXCEPT !.held = h]
  BY <1>1, SoundTyped DEF Schedulers, WithHeld
<1>3. r.top = s.top /\ r.missed = s.missed /\ r.prio = s.prio /\ r.current = s.current
  BY <1>2, SoundTyped DEF Schedulers
<1> QED
  BY <1>3 DEF Calm, Settled

LEMMA AddCurrentToDelayedTop ==
  ASSUME NEW s \in Schedulers, NEW w, NEW r, r = AddCurrentToDelayed(s, w)
  PROVE  r.top = s.top /\ r.missed = s.missed
<1>1. PICK v, d, o, b : /\ v = [s.wake EXCEPT ![s.current] = w]
                        /\ d = InsertSorted(s.delayed, s.current, {u \in Tasks : s.wake[u] > w})
                        /\ o = InsertSorted(s.overflow, s.current, {u \in Tasks : s.wake[u] > w})
                        /\ b = IF w < s.unblock THEN w ELSE s.unblock
  OBVIOUS
<1>2. PICK x : x = [s EXCEPT !.wake = v]
  OBVIOUS
<1>3. x = [s EXCEPT !.wake[s.current] = w]
  BY <1>1, <1>2 DEF Schedulers
<1>4. x.delayed = s.delayed /\ x.overflow = s.overflow /\ x.unblock = s.unblock
      /\ x.top = s.top /\ x.missed = s.missed
  BY <1>2 DEF Schedulers
<1>5. r = [x EXCEPT !.overflow = o] \/ r = [x EXCEPT !.delayed = d, !.unblock = b]
  <2>1. \/ r = [x EXCEPT !.overflow = InsertSorted(@, s.current, {u \in Tasks : s.wake[u] > w})]
        \/ r = [x EXCEPT !.delayed = InsertSorted(@, s.current, {u \in Tasks : s.wake[u] > w}),
                         !.unblock = IF w < @ THEN w ELSE @]
    BY <1>3 DEF AddCurrentToDelayed
  <2> QED
    BY <1>1, <1>4, <2>1
<1>6. /\ [x EXCEPT !.overflow = o].top = x.top /\ [x EXCEPT !.overflow = o].missed = x.missed
      /\ [x EXCEPT !.delayed = d, !.unblock = b].top = x.top
      /\ [x EXCEPT !.delayed = d, !.unblock = b].missed = x.missed
  BY <1>2 DEF Schedulers
<1> QED
  BY <1>4, <1>5, <1>6

LEMMA PlaceOnEventListCalm ==
  ASSUME NEW s, Sound(s), s.current # Idle, Calm(s), NEW l \in Queues \X {"receive", "send"},
         NEW ticks \in Int, NEW r, r = PlaceOnEventList(s, l, ticks)
  PROVE  Calm(r)
<1>0. s \in Schedulers /\ s.current \in Tasks
  BY SoundTyped DEF Schedulers
<1>1. PICK e, c : e = InsertSorted(s.event[l], s.current, {u \in Tasks : s.prio[u] < s.prio[s.current]})
                  /\ c = s.current
  OBVIOUS
<1>2. e \in Seq(Tasks)
  <2>1. s.event \in Events
    BY <1>0 DEF Schedulers
  <2>2. s.event[l] \in Seq(Tasks)
    BY <2>1 DEF Events
  <2> QED
    BY <1>0, <1>1, <2>2, InsertSortedHas
<1>3. PICK x, y : x = WithEvent(s, l, e) /\ y = TakeFromReady(x, c)
  OBVIOUS
<1>4. Sound(x)
  BY ONLY Sound(s), l \in Queues \X {"receive", "send"}, <1>2, <1>3, EventSound
<1>5. x.top = s.top /\ x.missed = s.missed
  <2>1. PICK h : h = [s.event EXCEPT ![l] = e]
    OBVIOUS
  <2>2. x = [s EXCEPT !.event = h]
    BY <1>0, <1>3, <2>1 DEF WithEvent, Schedulers
  <2> QED
    BY <1>0, <2>2 DEF Schedulers
<1>6. NoHigher(y, x) /\ y \in Schedulers
  BY <1>0, <1>1, <1>3, <1>4, TakeFromReadyTop, TakeFromReadyTaken DEF Taken, Lists
<1>7. r = IF ticks = MaxDelay THEN [y EXCEPT !.suspended = @ \cup {c}]
                              ELSE AddCurrentToDelayed(y, (s.tick + ticks) % TickMod)
  BY <1>1, <1>3 DEF PlaceOnEventList, WithEvent
<1>8. r.top = y.top /\ r.missed = y.missed
  <2>1. CASE ticks = MaxDelay
    <3>1. PICK u : u = y.suspended \cup {c}
      OBVIOUS
    <3>2. r = [y EXCEPT !.suspended = u]
      BY <1>7, <2>1, <3>1
    <3> QED
      BY <1>6, <3>2 DEF Schedulers
  <2>2. CASE ticks # MaxDelay
    BY <1>6, <1>7, <2>2, AddCurrentToDelayedTop
  <2> QED
    BY <2>1, <2>2
<1>9. NoHigher(r, s)
  BY <1>5, <1>6, <1>8 DEF NoHigher
<1>10. Kept(r, s)
  BY PlaceSound
<1> QED
  BY <1>9, <1>10, CalmStays

\* The switch goes to the first of the highest list in use.
LEMMA SwitchContextCalm ==
  ASSUME NEW s, Sound(s), NEW r, r = SwitchContext(s)
  PROVE  Calm(r)
<1>0. /\ s \in Schedulers /\ s.top \in SUBSET Priorities /\ s.ready \in Ready
      /\ AtPriority(s) /\ Bits(s, {})
  BY SoundTyped DEF Schedulers, Sound, Lists
<1>1. CASE s.locked > 0
  <2>1. r = [s EXCEPT !.missed = TRUE]
    BY <1>1 DEF SwitchContext
  <2> QED
    BY <1>0, <2>1 DEF Schedulers, Calm
<1>2. CASE ~ (s.locked > 0)
  <2>1. PICK p : p = CHOOSE k \in s.top : \A o \in s.top : o <= k
    OBVIOUS
  <2>2. p \in s.top /\ \A o \in s.top : o <= p
    <3>1. PICK q \in Priorities : Contains(s.ready[q].entries, Idle)
      BY IdleAssumption DEF Sound, Lists, InReady
    <3>2. s.ready[q].entries # << >>
      BY <3>1 DEF Contains
    <3>3. s.top # {}
      BY <1>0, <3>1, <3>2 DEF Bits
    <3>4. s.top \in SUBSET Nat /\ IsFiniteSet(s.top)
      BY <1>0, PrioritiesFinite, FS_Subset
    <3>5. \E o \in s.top : \A q2 \in s.top : q2 <= o
      BY <3>3, <3>4, LargestExists
    <3> QED
      BY <2>1, <3>5
  <2>3. p \in Priorities /\ s.ready[p].entries # << >> /\ s.ready[p] \in Rings
    BY <1>0, <2>2 DEF Bits, Ready
  <2>4. PICK x : x = RingNext(s.ready[p])
    OBVIOUS
  <2>5. x \in Rings /\ x.entries = s.ready[p].entries /\ x.entries[x.index] \in Tasks
        /\ Contains(x.entries, x.entries[x.index])
    <3>1. x \in Rings /\ x.entries = s.ready[p].entries /\ x.entries[x.index] \in Tasks
          /\ x.index \in 1 .. Len(x.entries)
      BY <2>3, <2>4, RingNextHas
    <3> QED
      BY <3>1 DEF Contains
  <2>6. PICK y, c : y = [s.ready EXCEPT ![p] = x] /\ c = x.entries[x.index]
    OBVIOUS
  <2>7. r = [s EXCEPT !.missed = FALSE, !.ready = y, !.current = c]
    BY <1>0, <1>2, <2>1, <2>4, <2>6 DEF SwitchContext, Schedulers
  <2>8. r.top = s.top /\ r.prio = s.prio /\ r.current = c
    BY <1>0, <2>7 DEF Schedulers
  <2>9. s.prio[c] = p
    BY <1>0, <2>3, <2>5, <2>6 DEF AtPriority
  <2> QED
    BY <2>2, <2>8, <2>9 DEF Calm, Settled
<1> QED
  BY <1>1, <1>2

(***************************************************************************)
(* Who should run: the steps.                                              *)
(***************************************************************************)
\* A mutex is given back, the priority its holder had borrowed goes with it, and
\* no switch follows: what xQueueGenericSend does when it wakes a task that is not
\* above the dropped priority, the caller's loss of rank being forgotten.
QuietDrop ==
    \E q \in Mutexes : /\ queue[q].holder # NoTask /\ queue'[q].holder = NoTask
                       /\ Drops(os, queue[q].holder)
                       /\ ~ pendSV'

HInv == WInv /\ (pendSV \/ Calm(os))

LEMMA SendNowCalm ==
  ASSUME WInv, Calm(os), ~ QuietDrop, NEW t \in Tasks \ {Idle}, NEW c, WellFormed(c), SendNow(t, c)
  PROVE  pendSV' \/ Calm(os')
<1>1. /\ QueuesShaped /\ QueuesSane /\ Sound(os) /\ c.op \in PutOps /\ c.q \in Queues
  BY DEF WInv, LInv, IInv, SendNow, WellFormed
<1>2. PICK given : given = IF Gives(c.q, c.op) THEN Disinherit(os, queue[c.q].holder) ELSE os
  OBVIOUS
<1>3. os' = Wake(given, Receivers(c.q)) /\ Receivers(c.q) \in Queues \X {"receive", "send"}
  BY <1>1, <1>2, EventNames DEF SendNow
<1>4. CASE ~ Gives(c.q, c.op)
  BY <1>1, <1>2, <1>3, <1>4, WakeCalm
<1>5. CASE Gives(c.q, c.op)
  <2>1. PICK q, h : q = c.q /\ h = queue[c.q].holder
    OBVIOUS
  <2>2. q \in Mutexes /\ h \in Tasks /\ h # NoTask
    BY <1>1, <1>5, <2>1 DEF QueuesSane, QueueSane, Gives
  <2>3. CASE Drops(os, h)
    <3>1. PICK x, y : y = CopyTo(c.q, c.op, x) /\ queue' = [queue EXCEPT ![c.q] = y]
      BY DEF SendNow
    <3>2. y.holder = NoTask
      BY <1>1, <3>1, CopyToSane
    <3>3. queue'[q].holder = NoTask
      <4>1. DOMAIN queue = Queues
        BY <1>1 DEF QueuesShaped
      <4> QED
        BY <1>1, <2>1, <3>1, <3>2, <4>1
    <3> QED
      BY <2>1, <2>2, <2>3, <3>3 DEF QuietDrop
  <2>4. CASE ~ Drops(os, h)
    <3>1. given = WithHeld(os, h, os.held[h] - 1)
      BY <1>2, <1>5, <2>1, <2>4 DEF Disinherit, WithHeld
    <3>2. Calm(given)
      BY <1>1, <3>1, HeldCalm
    <3>3. given = Disinherit(os, h)
      BY <1>2, <1>5, <2>1
    <3>4. Sound(given)
      BY <1>1, <2>2, <3>3, DisinheritSound
    <3> QED
      BY <1>3, <3>2, <3>4, WakeCalm
  <2> QED
    BY <2>3, <2>4
<1> QED
  BY <1>4, <1>5

LEMMA TurnCalm ==
  ASSUME WInv, Calm(os), ~ QuietDrop, NEW t \in Tasks \ {Idle}, NEW c, NEW ticks, NEW first, WellFormed(c),
         Turn(t, c, ticks, first)
  PROVE  pendSV' \/ Calm(os')
<1>1. Sound(os)
  BY DEF WInv, LInv
<1>2. CASE ReceiveNow(t, c)
  <2>1. c.q \in Queues
    BY <1>2 DEF ReceiveNow, WellFormed, GetOps
  <2>2. PICK s : s = IF c.q \in Mutexes THEN [os EXCEPT !.held[t] = @ + 1] ELSE os
    OBVIOUS
  <2>3. os' = Wake(s, Senders(c.q)) /\ Senders(c.q) \in Queues \X {"receive", "send"}
    BY <1>2, <2>1, <2>2, EventNames DEF ReceiveNow
  <2>4. Sound(s) /\ Calm(s)
    <3>1. CASE c.q \in Mutexes
      <4>1. PICK n : n = os.held[t] + 1
        OBVIOUS
      <4>2. n \in Int
        BY <1>1, <4>1, SoundTyped DEF Schedulers, Counts
      <4>3. s = WithHeld(os, t, n)
        BY <2>2, <3>1, <4>1 DEF WithHeld
      <4> QED
        BY <1>1, <4>2, <4>3, HeldSound, HeldCalm
    <3> QED
      BY <1>1, <2>2, <3>1
  <2> QED
    BY <2>3, <2>4, WakeCalm
<1>3. CASE PeekNow(t, c)
  <2>1. os' = Wake(os, Receivers(c.q)) /\ Receivers(c.q) \in Queues \X {"receive", "send"}
    BY <1>3, EventNames DEF PeekNow, WellFormed, GetOps
  <2> QED
    BY <1>1, <2>1, WakeCalm
<1>4. CASE GiveUp(t, c, ticks) \/ Block(t, c, ticks, first)
  BY <1>4 DEF GiveUp, Block
<1> QED
  BY <1>2, <1>3, <1>4, SendNowCalm DEF Turn

LEMMA PlaceCalm ==
  ASSUME WInv, Calm(os), NEW t \in Tasks \ {Idle}, os.current = t, Place(t)
  PROVE  Calm(os')
<1> DEFINE c == task[t].call
           h == queue[c.q].holder
<1>1. LInv /\ Sound(os) /\ QueuesSane /\ task[t].at \in InCall /\ task[t].ticks \in Int
  BY DEF WInv, LInv, Place, TasksSane, TaskSane, Running, InCall
<1>2. c.q \in Queues
  BY <1>1, CallIs
<1>3. PICK s, l : /\ s = (IF c.q \in Mutexes /\ c.op \in GetOps /\ h # NoTask THEN Inherit(os, h) ELSE os)
                  /\ l = (IF c.op \in PutOps THEN Senders(c.q) ELSE Receivers(c.q))
  OBVIOUS
<1>4. os' = PlaceOnEventList(s, l, task[t].ticks)
  BY <1>3 DEF Place
<1>5. Sound(s) /\ s.current = t /\ Calm(s)
  <2>1. CASE s = os
    BY <1>1, <2>1
  <2>2. CASE s # os
    <3>1. s = Inherit(os, h) /\ h \in Tasks
      BY <1>1, <1>2, <1>3, <2>2 DEF QueuesSane, QueueSane
    <3> HIDE DEF h
    <3> QED
      BY <1>1, <3>1, InheritSound, InheritCalm
  <2> QED
    BY <2>1, <2>2
<1>6. l \in Queues \X {"receive", "send"}
  BY <1>2, <1>3, EventNames
<1> HIDE DEF c, h
<1> QED
  BY <1>1, <1>4, <1>5, <1>6, PlaceOnEventListCalm

LEMMA CallStepsCalm ==
  ASSUME WInv, Calm(os), NEW t \in Tasks \ {Idle}, os.current = t,
         \/ SuspendScheduler(t) \/ LockQueue(t) \/ CheckForTimeOut(t) \/ TestAgain(t)
         \/ UnlockTx(t) \/ UnlockRx(t) \/ ResumeScheduler(t)
  PROVE  Calm(os')
<1>1. LInv /\ Sound(os) /\ QueuesSane /\ Asleep(os) /\ OneWithin
  BY DEF WInv, LInv
<1>2. PICK q : q = task[t].call.q
  OBVIOUS
<1>3. CASE SuspendScheduler(t)
  <2>1. PICK n : n = os.locked + 1
    OBVIOUS
  <2>2. os' = [os EXCEPT !.locked = n]
    BY <1>3, <2>1 DEF SuspendScheduler, SuspendAll
  <2> QED
    BY <1>1, <2>2, SoundTyped DEF Schedulers, Calm, Settled
<1>4. CASE LockQueue(t) \/ CheckForTimeOut(t) \/ TestAgain(t)
  BY <1>4 DEF LockQueue, CheckForTimeOut, TestAgain
<1>5. CASE ResumeScheduler(t)
  <2>1. os' = ResumeAll(os) /\ task[t].at = "resumeAll"
    BY <1>5 DEF ResumeScheduler, Running
  <2>2. os.locked = 1
    BY <1>1, <2>1 DEF OneWithin, Within
  <2> QED
    BY <1>1, <2>1, <2>2, ResumeAllCalm
<1>6. CASE UnlockTx(t) \/ UnlockRx(t)
  <2>1. q \in Queues
    <3>1. task[t].at \in InCall
      BY <1>6 DEF UnlockTx, UnlockRx, Running, InCall
    <3> QED
      BY <1>1, <1>2, <3>1, CallIs
  <2>2. \/ os' = WakeMany(os, Receivers(q), queue[q].tx)
        \/ os' = WakeMany(os, Senders(q), queue[q].rx)
    BY <1>2, <1>6 DEF UnlockTx, UnlockRx
  <2>3. queue[q].tx \in Nat \cup {Unlocked} /\ queue[q].rx \in Nat \cup {Unlocked}
    BY <1>1, <2>1 DEF QueuesSane, QueueSane
  <2> QED
    BY <1>1, <2>1, <2>2, <2>3, EventNames, WakeManyCalm
<1> QED
  BY <1>3, <1>4, <1>5, <1>6

LEMMA DelayStepsCalm ==
  ASSUME WInv, Calm(os), NEW t \in Tasks \ {Idle}, os.current = t,
         CallDelay(t) \/ Delay(t) \/ Suspend(t) \/ ResetUnblock(t) \/ Resume(t)
  PROVE  pendSV' \/ Calm(os')
<1>1. LInv /\ Sound(os) /\ os \in Schedulers /\ program \in Programs
  BY SoundTyped DEF WInv, LInv, IInv
<1>2. CASE CallDelay(t)
  <2>1. PICK n : n = os.locked + 1
    OBVIOUS
  <2>2. os' = [os EXCEPT !.locked = n] \/ os' = os
    BY <1>2, <2>1 DEF CallDelay, SuspendAll
  <2> QED
    BY <1>1, <2>2 DEF Schedulers, Calm, Settled
<1>3. CASE Delay(t)
  <2>1. PICK w, x : w = WakeTime(t) /\ x = TakeFromReady(os, t)
    OBVIOUS
  <2>2. Taken(x, t) /\ Same(x, os) /\ NoHigher(x, os) /\ x \in Schedulers
    BY <1>1, <2>1, TakeFromReadyTaken, TakeFromReadyTop DEF Taken, Lists
  <2>3. os' = AddCurrentToDelayed(x, w) \/ os' = os
    BY <1>3, <2>1 DEF Delay
  <2>4. CASE os' = AddCurrentToDelayed(x, w)
    <3>1. os'.top = x.top /\ os'.missed = x.missed
      BY <2>2, <2>4, AddCurrentToDelayedTop
    <3>2. os'.current = x.current /\ os'.prio = x.prio
      BY <2>4 DEF AddCurrentToDelayed
    <3> QED
      BY <2>2, <3>1, <3>2 DEF NoHigher, Same, Calm, Settled
  <2> QED
    BY <2>3, <2>4
<1>4. CASE Suspend(t)
  <2>1. PICK c \in program.calls[t] :
           /\ c.op = "suspend"
           /\ os' = [RemoveEvent(TakeFromReady(os, c.q), c.q) EXCEPT !.suspended = @ \cup {c.q}]
    BY <1>4 DEF Suspend
  <2>2. PICK u, x, y : u = c.q /\ x = TakeFromReady(os, u) /\ y = RemoveEvent(x, u)
    OBVIOUS
  <2>3. u \in Tasks \ {Idle}
    BY <1>1, <2>1, <2>2, ProgramsAssumption DEF WellFormed
  <2>4. NoHigher(x, os) /\ Same(x, os) /\ x \in Schedulers
    BY <1>1, <2>2, <2>3, TakeFromReadyTaken, TakeFromReadyTop DEF Taken, Lists
  <2>5. y \in Schedulers /\ Same(y, x) /\ y.top = x.top /\ y.missed = x.missed
    BY <2>2, <2>4, RemoveEventIs, RemoveEventTop
  <2>6. os' = [y EXCEPT !.suspended = @ \cup {u}]
    BY <2>1, <2>2
  <2>7. os'.top = y.top /\ os'.missed = y.missed /\ os'.prio = y.prio /\ os'.current = y.current
    BY <2>5, <2>6 DEF Schedulers
  <2> QED
    BY <2>4, <2>5, <2>7 DEF NoHigher, Same, Calm, Settled
<1>5. CASE ResetUnblock(t)
  <2>1. os' = ResetNextUnblock(os)
    BY <1>5 DEF ResetUnblock
  <2> QED
    BY <1>1, <2>1, SoundHoused, ResetNextUnblockSound, ResetNextUnblockTop DEF Kept, Calm, Settled
<1>6. CASE Resume(t)
  <2>1. PICK c \in program.calls[t] :
           /\ c.op = "resume"
           /\ \/ /\ os' = AddToReady(RemoveGeneric(os, c.q), c.q)
                 /\ pendSV' = (os.prio[c.q] >= os.prio[t])
              \/ os' = os
    BY <1>6 DEF Resume
  <2>2. PICK u : u = c.q
    OBVIOUS
  <2>3. u \in Tasks
    BY <1>1, <2>1, <2>2, ProgramsAssumption DEF WellFormed
  <2>4. CASE os' = AddToReady(RemoveGeneric(os, u), u) /\ ~ (os.prio[u] >= os.prio[t])
    <3>1. Adds(os', os, u) /\ Kept(os', os)
      BY <1>1, <2>3, <2>4, ReadiedTop
    <3>2. os.prio[u] \in Nat /\ os.prio[os.current] \in Nat
      BY <1>1, <2>3, PriosAreNat
    <3>3. os.prio[u] <= os.prio[os.current]
      BY <2>4, <3>2
    <3>4. Settled(os) => Settled(os')
      BY <3>1, <3>3, AddsSettled
    <3> QED
      BY <3>1, <3>4 DEF Calm, Adds
  <2> QED
    BY <2>1, <2>2, <2>4
<1> QED
  BY <1>2, <1>3, <1>4, <1>5, <1>6

LEMMA InterruptsCalm ==
  ASSUME WInv, pendSV \/ Calm(os), SendFromISR \/ ReceiveFromISR \/ Tick \/ PendSV
  PROVE  pendSV' \/ Calm(os')
<1>1. Sound(os) /\ program \in Programs /\ OneWithin
  BY DEF WInv, LInv, IInv
<1>2. CASE Tick
  <2>1. os' = IncrementTick(os) /\ pendSV' = (pendSV \/ SwitchAfterTick(os))
    BY <1>2 DEF Tick
  <2>2. CASE pendSV \/ SwitchAfterTick(os)
    BY <2>1, <2>2
  <2>3. CASE ~ pendSV /\ ~ SwitchAfterTick(os)
    <3>1. Settled(os)
      BY <2>3 DEF SwitchAfterTick, Calm
    <3>2. os.locked \in Nat
      BY <1>1 DEF OneWithin
    <3>3. Settled(os')
      BY <1>1, <2>1, <2>3, <3>1, <3>2, IncrementTickSettled
    <3> QED
      BY <3>3 DEF Calm
  <2> QED
    BY <2>2, <2>3
<1>3. CASE PendSV
  <2>1. os' = SwitchContext(os)
    BY <1>3 DEF PendSV
  <2> QED
    BY <1>1, <2>1, SwitchContextCalm
<1>4. CASE SendFromISR \/ ReceiveFromISR
  <2>1. PICK c \in program.isr :
          /\ c.op \in PutOps \cup {"receive"}
          /\ os' = os \/ os' = Wake(os, Receivers(c.q)) \/ os' = Wake(os, Senders(c.q))
          /\ pendSV => pendSV'
    BY <1>4 DEF SendFromISR, ReceiveFromISR
  <2>2. c.q \in Queues
    BY <1>1, <2>1, ProgramsAssumption DEF WellFormed, GetOps
  <2>3. CASE Calm(os)
    BY <1>1, <2>1, <2>2, <2>3, EventNames, WakeCalm
  <2>4. CASE pendSV
    BY <2>1, <2>4
  <2> QED
    BY <2>3, <2>4
<1> QED
  BY <1>2, <1>3, <1>4

LEMMA InitHInv == Init => HInv
<1> SUFFICES ASSUME Init PROVE Calm(os)
  BY InitWInv DEF HInv
<1>1. PICK top, c : top = (CHOOSE p \in Priorities : \A o \in Priorities : o <= p) /\ c = Last(Created(top))
  OBVIOUS
<1>2. top \in Priorities /\ \A o \in Priorities : o <= top
  <2>1. Priorities # {}
    BY IdleAssumption DEF Priorities
  <2>2. \E p \in Priorities : \A o \in Priorities : o <= p
    BY <2>1, PrioritiesFinite, LargestExists
  <2> QED
    BY <1>1, <2>2
<1>3. BasePrio[c] = top
  <2>1. PICK list : list = Created(top)
    OBVIOUS
  <2>2. list \in Seq(Tasks) /\ list # << >> /\ \A t : Contains(list, t) <=> t \in Tasks /\ BasePrio[t] = top
    BY <1>2, <2>1, CreatedIs
  <2>3. Len(list) \in 1 .. Len(list) /\ c = list[Len(list)]
    BY <1>1, <2>1, <2>2 DEF Last
  <2>4. Contains(list, c)
    BY <2>3 DEF Contains
  <2> QED
    BY <2>2, <2>4
<1>4. os.top = Priorities /\ os.current = c /\ os.prio = BasePrio
  BY <1>1 DEF Init
<1> QED
  BY <1>2, <1>3, <1>4 DEF Calm, Settled

LEMMA NextHInv == HInv /\ [Next]_vars /\ [~ QuietDrop]_vars => HInv'
<1> SUFFICES ASSUME HInv, [Next]_vars, [~ QuietDrop]_vars PROVE pendSV' \/ Calm(os')
  BY NextWInv DEF HInv
<1>1. WInv /\ LInv /\ (pendSV \/ Calm(os))
  BY DEF HInv, WInv
<1>2. CASE UNCHANGED vars
  BY <1>1, <1>2 DEF vars
<1>3. ASSUME ~ QuietDrop, NEW t \in Tasks, TaskStep(t) PROVE pendSV' \/ Calm(os')
  <2>1. t \in Tasks \ {Idle} /\ os.current = t
    BY <1>1, <1>3, NotIdle
  <2>2. Calm(os)
    <3>1. ~ pendSV
      BY <1>3, ZenonT(60) DEF TaskStep, Call, Retry, SuspendScheduler, LockQueue, CheckForTimeOut, TestAgain,
             Place, UnlockTx, UnlockRx, ResumeScheduler, CallDelay, Delay, Suspend, ResetUnblock, Resume,
             Running
    <3> QED
      BY <1>1, <3>1
  <2>3. CASE Call(t)
    <3>1. PICK c \in program.calls[t] : Turn(t, c, c.ticks, TRUE)
      BY <2>3 DEF Call
    <3>2. WellFormed(c)
      BY <1>1, ProgramsAssumption DEF LInv, IInv
    <3> QED
      BY <1>1, <1>3, <2>1, <2>2, <3>1, <3>2, TurnCalm
  <2>4. CASE Retry(t)
    <3>1. WellFormed(task[t].call) /\ Turn(t, task[t].call, task[t].ticks, FALSE)
      BY <1>1, <2>4 DEF Retry, LInv, IInv, CallsSound
    <3> QED
      BY <1>1, <1>3, <2>1, <2>2, <3>1, TurnCalm
  <2>5. CASE Place(t)
    BY <1>1, <2>1, <2>2, <2>5, PlaceCalm
  <2>6. CASE \/ SuspendScheduler(t) \/ LockQueue(t) \/ CheckForTimeOut(t) \/ TestAgain(t)
             \/ UnlockTx(t) \/ UnlockRx(t) \/ ResumeScheduler(t)
    BY <1>1, <2>1, <2>2, <2>6, CallStepsCalm
  <2>7. CASE CallDelay(t) \/ Delay(t) \/ Suspend(t) \/ ResetUnblock(t) \/ Resume(t)
    BY <1>1, <2>1, <2>2, <2>7, DelayStepsCalm
  <2> QED
    BY <1>3, <2>3, <2>4, <2>5, <2>6, <2>7 DEF TaskStep
<1> QED
  BY <1>1, <1>2, <1>3, InterruptsCalm DEF Next

\* Whatever tasks and interrupts call, whatever wakes, times out, is suspended or
\* resumed, with the scheduler running or suspended, and whether or not handlers
\* ask for a switch: when no switch is due the highest ready task runs, as long as
\* no mutex is given back with a borrowed priority and without a switch.
THEOREM HighestUnlessQuietDrop == Spec /\ [][~ QuietDrop]_vars => []HighestRuns
<1>1. HInv => HighestRuns
  BY DEF HInv, Calm, Settled, HighestRuns
<1> QED
  BY <1>1, InitHInv, NextHInv, PTL DEF Spec

\* Without mutexes no priority changes: then the highest ready task always runs.
THEOREM HighestWithoutMutexes == ASSUME Mutexes = {} PROVE Spec => []HighestRuns
<1>1. HInv => HighestRuns
  BY DEF HInv, Calm, Settled, HighestRuns
<1>2. ~ QuietDrop
  BY DEF QuietDrop
<1>3. HInv /\ [Next]_vars => HInv'
  BY <1>2, NextHInv
<1> QED
  BY <1>1, <1>3, InitHInv, PTL DEF Spec
=============================================================================
