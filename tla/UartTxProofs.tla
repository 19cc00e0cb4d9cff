---------------------------- MODULE UartTxProofs ----------------------------
(***************************************************************************)
(* With every writer inside printf() the driver is a character device,     *)
(* for any number of tasks, any queue and any FIFO.                        *)
(*                                                                         *)
(* Tasks and interrupt both take characters from the queue and hand them   *)
(* to the same register.  They cannot overtake each other because a task   *)
(* takes one only when it has found the transmitter idle, and from then on *)
(* the interrupt has nothing to report until the task has written it.      *)
(***************************************************************************)
EXTENDS UartTx, SequenceTheorems, TLAPS

Types ==
    /\ pc \in [Writer -> {"idle", "print", "test", "pop", "write", "flush"}]
    /\ owner \in Writer \cup {NoWriter}
    /\ accepted \in 0..MaxChars
    /\ hand \in [Writer -> Seq(Nat)]
    /\ queue \in Seq(Nat) /\ fifo \in Seq(Nat) /\ shift \in Seq(Nat) /\ wire \in Seq(Nat)
    /\ thre \in BOOLEAN

\* Only the task that holds the semaphore is inside putChar().
OneInside == \A w \in Writer : pc[w] \notin {"idle", "flush"} => owner = w

\* A task has a character in hand only between taking and writing it.
Hands == \A w \in Writer : Len(hand[w]) <= 1 /\ (pc[w] # "write" => hand[w] = <<>>)

\* What a task has found idle stays idle until it writes.
StaysIdle == \A w \in Writer : pc[w] \in {"pop", "write"} => Idle /\ ~thre

\* The interrupt finds an empty FIFO.
FifoEmpty == thre => fifo = <<>>

Lengths == Len(queue) <= TxQueue /\ Len(fifo) <= HwFifo /\ Len(shift) <= 1

IInv == Types /\ OneInside /\ Hands /\ StaysIdle /\ FifoEmpty /\ Lengths

----------------------------------------------------------------------------
\* First() and Rest() cut a sequence in two.
LEMMA Cut ==
  ASSUME NEW S, NEW s \in Seq(S), NEW n \in Nat
  PROVE  /\ First(s, n) \in Seq(S) /\ Rest(s, n) \in Seq(S)
         /\ Len(First(s, n)) <= n
         /\ Len(Rest(s, n)) <= Len(s)
         /\ First(s, n) \o Rest(s, n) = s
         /\ Len(s) <= n => First(s, n) = s
<1> DEFINE k == Shorter(Len(s), n)
<1>1. k \in 0..Len(s) /\ k <= n /\ (Len(s) <= n => k = Len(s))
  BY LenProperties DEF Shorter
<1> HIDE DEF k
<1>2. SubSeq(s, 1, k) \in Seq(S) /\ Len(SubSeq(s, 1, k)) = k
  BY <1>1, SubSeqProperties, LenProperties
<1>3. SubSeq(s, k + 1, Len(s)) \in Seq(S) /\ Len(SubSeq(s, k + 1, Len(s))) <= Len(s)
  BY <1>1, SubSeqProperties, LenProperties
<1>4. SubSeq(s, 1, k) \o SubSeq(s, k + 1, Len(s)) = SubSeq(s, 1, Len(s))
  <2>1. Len(s) \in Nat
    BY LenProperties
  <2>2. 1 \in 1..Len(s) + 1 /\ k \in 1 - 1..Len(s) /\ Len(s) \in k..Len(s)
    BY <1>1, <2>1
  <2>. QED BY <2>2, ConcatAdjacentSubSeq
<1>5. SubSeq(s, 1, Len(s)) = s
  BY SubSeqFull
<1>. QED BY <1>1, <1>2, <1>3, <1>4, <1>5 DEF First, Rest, k

\* Appending to the last of two sequences appends to their concatenation.
LEMMA AppendLast ==
  ASSUME NEW S, NEW s \in Seq(S), NEW t \in Seq(S), NEW e \in S
  PROVE  s \o Append(t, e) = Append(s \o t, e)
<1>1. <<e>> \in Seq(S) /\ s \o t \in Seq(S)
  BY ConcatProperties
<1>. QED BY <1>1, AppendIsConcat, ConcatAssociative

\* A sequence is its head in front of its tail.
LEMMA HeadFirst ==
  ASSUME NEW S, NEW s \in Seq(S), s # <<>>
  PROVE  <<Head(s)>> \in Seq(S) /\ Tail(s) \in Seq(S) /\ s = <<Head(s)>> \o Tail(s)
<1>1. Len(s) \in Nat \ {0}
  BY EmptySeq
<1>2. SubSeq(s, 1, Len(s)) = <<s[1]>> \o SubSeq(s, 2, Len(s))
  BY <1>1, SubSeqRecursiveFirst
<1>. QED BY <1>2, HeadTailProperties, TailIsSubSeq, SubSeqFull

\* A sequence of length one is its head.
LEMMA OneLong ==
  ASSUME NEW S, NEW s \in Seq(S), Len(s) = 1
  PROVE  Tail(s) = <<>> /\ \E c \in S : s = <<c>>
<1>1. s # <<>>
  BY EmptySeq
<1>2. Head(s) \in S /\ Tail(s) \in Seq(S) /\ Len(Tail(s)) = 0
  BY <1>1, HeadTailProperties
<1>3. Tail(s) = <<>>
  BY <1>2, EmptySeq
<1>4. <<Head(s)>> \in Seq(S) /\ s = <<Head(s)>> \o <<>>
  BY <1>1, <1>3, HeadFirst
<1>5. s = <<Head(s)>>
  BY <1>4, ConcatEmptySeq
<1>. QED BY <1>2, <1>3, <1>5

\* One character in front of others: its head and its tail.
LEMMA OneInFront ==
  ASSUME NEW S, NEW e \in S, NEW t \in Seq(S)
  PROVE  <<e>> \o t # <<>> /\ Head(<<e>> \o t) = e /\ Tail(<<e>> \o t) = t
<1>1. <<e>> \in Seq(S) /\ Len(<<e>>) = 1 /\ <<e>>[1] = e
  OBVIOUS
<1> DEFINE r == <<e>> \o t
<1>2. r \in Seq(S) /\ Len(r) = 1 + Len(t) /\ \A i \in 1..1 + Len(t) : r[i] = IF i <= 1 THEN e ELSE t[i - 1]
  BY <1>1, ConcatProperties
<1>3. Len(t) \in Nat /\ t \in [1..Len(t) -> S]
  BY LenProperties
<1> HIDE DEF r
<1>4. r # <<>> /\ Head(r) = e
  BY <1>2, <1>3
<1>5. Tail(r) \in Seq(S) /\ Len(Tail(r)) = Len(t) /\ \A i \in 1..Len(t) : Tail(r)[i] = t[i]
  BY <1>2, <1>3, <1>4, HeadTailProperties
<1>6. Tail(r) = t
  BY <1>3, <1>5, SeqEqual
<1>. QED BY <1>4, <1>6 DEF r
----------------------------------------------------------------------------
LEMMA InitIInv == Init => IInv
<1>1. <<>> \in Seq(Nat) /\ Len(<<>>) = 0
  BY EmptySeq
<1>2. MaxChars \in Nat /\ TxQueue \in Nat /\ HwFifo \in Nat
  BY UartAssumption
<1> SUFFICES ASSUME Init PROVE IInv
  OBVIOUS
<1>3. Types
  <2>1. hand \in [Writer -> Seq(Nat)] /\ pc \in [Writer -> {"idle", "print", "test", "pop", "write", "flush"}]
    BY <1>1 DEF Init
  <2>2. thre \in BOOLEAN /\ owner \in Writer \cup {NoWriter}
    BY Zenon DEF Init
  <2>3. /\ accepted \in 0..MaxChars
        /\ queue \in Seq(Nat) /\ fifo \in Seq(Nat) /\ shift \in Seq(Nat) /\ wire \in Seq(Nat)
    BY <1>1, <1>2 DEF Init
  <2>. QED BY <2>1, <2>2, <2>3, Zenon DEF Types
<1>4. OneInside /\ StaysIdle /\ FifoEmpty
  BY DEF Init, OneInside, StaysIdle, FifoEmpty, Idle
<1>5. Hands /\ Lengths
  BY <1>1, <1>2 DEF Init, Hands, Lengths
<1>. QED BY <1>3, <1>4, <1>5 DEF IInv

\* Steps that move no character: a task takes or gives the semaphore, looks whether the
\* transmitter is idle, or waits for the queue.
LEMMA WalkStep ==
  ASSUME IInv, Printer = Writer, NEW w \in Writer,
         TakePrintf(w) \/ GivePrintf(w) \/ TestIdle(w) \/ Flush(w) \/ Flushed(w)
  PROVE  IInv' /\ UnderWay' = UnderWay /\ wire' = wire
<1> USE DEF IInv
<1>1. /\ UNCHANGED <<hand, queue, fifo, shift, thre, accepted, wire>> /\ ~thre
      /\ \E to \in {"idle", "print", "pop", "flush"} : pc' = [pc EXCEPT ![w] = to]
  BY DEF TakePrintf, GivePrintf, TestIdle, Flush, Flushed, TaskAt, Between
<1>2. owner' \in Writer \cup {NoWriter}
  BY DEF TakePrintf, GivePrintf, TestIdle, Flush, Flushed, Types
<1>3. Types' /\ FifoEmpty' /\ Lengths'
  BY <1>1, <1>2 DEF Types, FifoEmpty, Lengths
<1>4. OneInside'
  <2>1. CASE TakePrintf(w) \/ GivePrintf(w)
    BY <2>1, UartAssumption DEF TakePrintf, GivePrintf, TaskAt, Types, OneInside
  <2>2. CASE TestIdle(w)
    BY <2>2 DEF TestIdle, TaskAt, Types, OneInside
  <2>3. CASE Flush(w) \/ Flushed(w)
    BY <2>3 DEF Flush, Flushed, TaskAt, Types, OneInside
  <2>. QED BY <2>1, <2>2, <2>3
<1>5. pc[w] # "write" /\ hand[w] = <<>>
  BY DEF Hands, TakePrintf, GivePrintf, TestIdle, Flush, Flushed, TaskAt, Between
<1>6. Hands'
  BY <1>1, <1>5 DEF Types, Hands
<1>7. StaysIdle'
  <2>1. pc'[w] = "pop" => Idle
    BY DEF TakePrintf, GivePrintf, TestIdle, Flush, Flushed, TaskAt, Between, Types
  <2>. QED BY <1>1, <2>1 DEF Types, StaysIdle, Idle
<1>8. InHand' = InHand
  <2>1. CASE UNCHANGED owner
    BY <2>1, <1>1 DEF InHand
  <2>2. CASE TakePrintf(w) \/ GivePrintf(w)
    <3>1. {owner, owner'} \subseteq {w, NoWriter}
      BY <2>2 DEF TakePrintf, GivePrintf, TaskAt, OneInside
    <3>. QED BY <3>1, <1>1, <1>5 DEF InHand
  <2>. QED BY <2>1, <2>2 DEF TestIdle, Flush, Flushed
<1>. QED BY <1>1, <1>3, <1>4, <1>6, <1>7, <1>8 DEF UnderWay

\* A character is accepted behind all that are under way.
LEMMA EnqueueStep ==
  ASSUME IInv, Printer = Writer, NEW w \in Writer, Enqueue(w)
  PROVE  IInv' /\ \E c \in 1..MaxChars : Link!Accept(c)
<1> USE DEF IInv
<1>1. PICK e \in 1..MaxChars : accepted' = e /\ queue' = Append(queue, e)
  BY UartAssumption DEF Enqueue, Types
<1>2. UNCHANGED <<hand, owner, fifo, shift, thre, wire>> /\ pc' = [pc EXCEPT ![w] = "test"] /\ pc[w] = "print"
  BY Printer = Writer DEF Enqueue, TaskAt, Between
<1>3. queue' \in Seq(Nat) /\ Len(queue') = Len(queue) + 1
  BY <1>1, AppendProperties DEF Types
<1>4. Types'
  BY <1>1, <1>2, <1>3 DEF Types
<1>5. OneInside' /\ Hands' /\ StaysIdle' /\ FifoEmpty'
  BY <1>2 DEF Types, OneInside, Hands, StaysIdle, Idle, FifoEmpty
<1>6. Lengths'
  BY <1>2, <1>3, UartAssumption DEF Lengths, Enqueue, Types
<1>7. InHand' = InHand /\ InHand \in Seq(Nat)
  BY <1>2, EmptySeq DEF InHand, Types
<1>8. UnderWay' = Append(UnderWay, e)
  <2>1. shift \in Seq(Nat) /\ fifo \in Seq(Nat) /\ InHand \in Seq(Nat) /\ queue \in Seq(Nat) /\ e \in Nat
    BY <1>1, <1>7, UartAssumption DEF Types
  <2>2. shift \o (fifo \o (InHand \o Append(queue, e))) = Append(shift \o (fifo \o (InHand \o queue)), e)
    <3> DEFINE x == InHand \o queue
               y == fifo \o x
    <3>1. x \in Seq(Nat) /\ InHand \o Append(queue, e) = Append(x, e)
      BY ONLY <2>1, AppendLast, ConcatProperties
    <3> HIDE DEF x
    <3>2. y \in Seq(Nat) /\ fifo \o Append(x, e) = Append(y, e)
      BY ONLY <2>1, <3>1, AppendLast, ConcatProperties
    <3> HIDE DEF y
    <3>3. shift \o Append(y, e) = Append(shift \o y, e)
      BY ONLY <2>1, <3>2, AppendLast
    <3>. QED BY <3>1, <3>2, <3>3 DEF x, y
  <2>3. UnderWay' = shift \o (fifo \o (InHand \o Append(queue, e)))
    BY <1>1, <1>2, <1>7, Zenon DEF UnderWay
  <2>. QED BY <2>2, <2>3, Zenon DEF UnderWay
<1>. QED BY <1>1, <1>2, <1>4, <1>5, <1>6, <1>8 DEF Link!Accept

\* The task that holds the semaphore is the only one with a character in hand.
LEMMA HandOfOwner ==
  ASSUME IInv, NEW w \in Writer, pc[w] \in {"pop", "write"}
  PROVE  owner = w /\ owner # NoWriter /\ InHand = hand[w]
BY UartAssumption DEF IInv, OneInside, InHand

\* Taking the oldest character moves it from the queue into the hand.
LEMMA PopStep ==
  ASSUME IInv, Printer = Writer, NEW w \in Writer, PopOldest(w)
  PROVE  IInv' /\ UnderWay' = UnderWay /\ wire' = wire
<1> USE DEF IInv
<1>1. /\ UNCHANGED <<owner, fifo, shift, thre, accepted, wire>>
      /\ pc[w] = "pop" /\ pc' = [pc EXCEPT ![w] = IF queue = <<>> THEN "print" ELSE "write"]
      /\ hand' = [hand EXCEPT ![w] = First(queue, 1)] /\ queue' = Rest(queue, 1)
  BY Printer = Writer DEF PopOldest, TaskAt, Between
<1>2. queue \in Seq(Nat) /\ fifo \in Seq(Nat) /\ shift \in Seq(Nat)
  BY DEF Types
<1>3. /\ First(queue, 1) \in Seq(Nat) /\ Rest(queue, 1) \in Seq(Nat)
      /\ Len(First(queue, 1)) <= 1 /\ Len(Rest(queue, 1)) <= Len(queue)
      /\ First(queue, 1) \o Rest(queue, 1) = queue
      /\ Len(queue) <= 1 => First(queue, 1) = queue
  BY <1>2, Cut
<1>4. pc' \in [Writer -> {"idle", "print", "test", "pop", "write", "flush"}] /\ hand' \in [Writer -> Seq(Nat)]
  BY <1>1, <1>3 DEF Types
<1>5. Types' /\ FifoEmpty'
  BY <1>1, <1>3, <1>4 DEF Types, FifoEmpty
<1>6. OneInside' /\ StaysIdle'
  BY <1>1 DEF Types, OneInside, StaysIdle, Idle
<1>7. Hands'
  <2>1. queue = <<>> => First(queue, 1) = <<>>
    BY <1>3, EmptySeq
  <2>. QED BY <1>1, <1>3, <2>1 DEF Types, Hands
<1>8. Lengths'
  BY <1>1, <1>3, UartAssumption, LenProperties DEF Types, Lengths
<1>9. InHand = <<>> /\ InHand' = First(queue, 1)
  BY <1>1, HandOfOwner DEF Hands, InHand, Types
<1>10. InHand' \o queue' = InHand \o queue
  BY <1>1, <1>2, <1>3, <1>9, ConcatEmptySeq
<1>. QED BY <1>1, <1>5, <1>6, <1>7, <1>8, <1>10 DEF UnderWay

\* The transmitter is still idle when the character is written: nothing is overtaken and
\* nothing is dropped.
LEMMA StartStep ==
  ASSUME IInv, Printer = Writer, NEW w \in Writer, Start(w)
  PROVE  IInv' /\ UnderWay' = UnderWay /\ wire' = wire
<1> USE DEF IInv
<1>1. /\ UNCHANGED <<owner, queue, shift, accepted, wire>> /\ thre' = FALSE
      /\ pc[w] = "write" /\ pc' = [pc EXCEPT ![w] = "print"] /\ hand' = [hand EXCEPT ![w] = <<>>]
  BY Printer = Writer DEF Start, TaskAt, Between, WriteThr
<1>2. fifo = <<>> /\ shift = <<>>
  BY <1>1 DEF StaysIdle, Idle
<1>3. hand[w] \in Seq(Nat) /\ Len(hand[w]) <= 1 /\ queue \in Seq(Nat)
  BY DEF Types, Hands
<1>4. fifo' = hand[w]
  <2>1. HwFifo - Len(fifo) \in Nat /\ Len(hand[w]) <= HwFifo - Len(fifo)
    BY <1>2, <1>3, EmptySeq, LenProperties, UartAssumption
  <2>2. First(hand[w], HwFifo - Len(fifo)) = hand[w]
    BY <1>3, <2>1, Cut
  <2>. QED BY <1>2, <1>3, <2>2, ConcatEmptySeq DEF Start, WriteThr
<1>5. <<>> \in Seq(Nat) /\ Len(<<>>) = 0
  BY EmptySeq
<1>6. Types' /\ FifoEmpty'
  <2>1. pc' \in [Writer -> {"idle", "print", "test", "pop", "write", "flush"}] /\ hand' \in [Writer -> Seq(Nat)]
    BY <1>1, <1>5 DEF Types
  <2>2. thre' \in BOOLEAN
    BY <1>1, Zenon
  <2>. QED BY <1>1, <1>3, <1>4, <2>1, <2>2 DEF Types, FifoEmpty
<1>7. OneInside' /\ Hands'
  BY <1>1, <1>5 DEF Types, OneInside, Hands
<1>8. StaysIdle'
  <2>1. \A v \in Writer : pc'[v] \notin {"pop", "write"}
    BY <1>1 DEF Types, OneInside
  <2>. QED BY <2>1 DEF StaysIdle
<1>9. Lengths'
  BY <1>1, <1>3, <1>4, UartAssumption, LenProperties DEF Lengths
<1>10. InHand = hand[w] /\ InHand' = <<>>
  BY <1>1, HandOfOwner DEF InHand, Types
<1>11. fifo' \o (InHand' \o queue') = fifo \o (InHand \o queue)
  <2>1. hand[w] \o queue \in Seq(Nat)
    BY <1>3, ConcatProperties
  <2>2. <<>> \o queue = queue /\ <<>> \o (hand[w] \o queue) = hand[w] \o queue
    BY <1>3, <2>1, ConcatEmptySeq
  <2>. QED BY <1>1, <1>2, <1>4, <1>10, <2>2
<1>. QED BY <1>1, <1>6, <1>7, <1>8, <1>9, <1>11 DEF UnderWay

\* The interrupt comes when no task has a character in hand.
LEMMA InterruptStep ==
  ASSUME IInv, TransmitterEmpty
  PROVE  IInv' /\ UnderWay' = UnderWay /\ wire' = wire
<1> USE DEF IInv
<1>1. /\ UNCHANGED <<pc, hand, owner, shift, accepted, wire>>
      /\ thre /\ fifo = <<>> /\ thre' = FALSE /\ queue' = Rest(queue, HwFifo)
  BY DEF TransmitterEmpty, WriteThr, FifoEmpty
<1>2. queue \in Seq(Nat) /\ HwFifo \in Nat /\ TxQueue \in Nat
  BY UartAssumption DEF Types
<1>3. /\ First(queue, HwFifo) \in Seq(Nat) /\ Rest(queue, HwFifo) \in Seq(Nat)
      /\ Len(First(queue, HwFifo)) <= HwFifo /\ Len(Rest(queue, HwFifo)) <= Len(queue)
      /\ First(queue, HwFifo) \o Rest(queue, HwFifo) = queue
  BY <1>2, Cut
<1>4. fifo' = First(queue, HwFifo)
  <2> DEFINE f == First(queue, HwFifo)
  <2>1. f \in Seq(Nat) /\ Len(f) <= HwFifo
    BY <1>3
  <2>2. fifo' = fifo \o First(f, HwFifo - Len(fifo))
    BY DEF TransmitterEmpty, WriteThr
  <2> HIDE DEF f
  <2>3. First(f, HwFifo) = f
    BY <1>2, <2>1, Cut
  <2>4. HwFifo - Len(fifo) = HwFifo
    BY <1>1, <1>2, EmptySeq
  <2>5. fifo' = f
    BY <1>1, <2>1, <2>2, <2>3, <2>4, ConcatEmptySeq
  <2>. QED BY <2>5 DEF f
<1>5. Types' /\ FifoEmpty'
  <2>1. thre' \in BOOLEAN
    BY <1>1, Zenon
  <2>. QED BY <1>1, <1>3, <1>4, <2>1 DEF Types, FifoEmpty
<1>6. \A v \in Writer : pc[v] \notin {"pop", "write"}
  BY <1>1 DEF StaysIdle
<1>7. OneInside' /\ Hands' /\ StaysIdle'
  BY <1>1, <1>6 DEF OneInside, Hands, StaysIdle
<1>8. Lengths'
  BY <1>1, <1>2, <1>3, <1>4, LenProperties DEF Lengths
<1>9. InHand = <<>> /\ InHand' = <<>>
  BY <1>1, <1>6 DEF InHand, Hands, Types
<1>10. fifo' \o (InHand' \o queue') = fifo \o (InHand \o queue)
  BY <1>1, <1>2, <1>3, <1>4, <1>9, ConcatEmptySeq
<1>. QED BY <1>1, <1>5, <1>7, <1>8, <1>10 DEF UnderWay

\* The shift register takes the next character; the FIFO may run empty.
LEMMA LoadStep ==
  ASSUME IInv, Load
  PROVE  IInv' /\ UnderWay' = UnderWay /\ wire' = wire
<1> USE DEF IInv
<1>1. /\ UNCHANGED <<pc, hand, owner, queue, accepted, wire>>
      /\ shift = <<>> /\ fifo # <<>> /\ shift' = <<Head(fifo)>> /\ fifo' = Tail(fifo)
      /\ thre' = (thre \/ Len(fifo) = 1)
  BY DEF Load
<1>2. /\ <<Head(fifo)>> \in Seq(Nat) /\ Tail(fifo) \in Seq(Nat) /\ fifo = <<Head(fifo)>> \o Tail(fifo)
      /\ Len(Tail(fifo)) = Len(fifo) - 1 /\ Len(<<Head(fifo)>>) = 1
  BY <1>1, HeadFirst, HeadTailProperties DEF Types
<1>3. thre = FALSE
  BY <1>1, Zenon DEF Types, FifoEmpty
<1>4. Types'
  <2>1. thre' \in BOOLEAN
    BY <1>1, Zenon
  <2>. QED BY <1>1, <1>2, <2>1 DEF Types
<1>5. FifoEmpty'
  <2>1. Len(fifo) = 1 => Tail(fifo) = <<>>
    BY OneLong DEF Types
  <2>2. thre' => Len(fifo) = 1
    BY <1>1, <1>3, Zenon
  <2>. QED BY <1>1, <2>1, <2>2 DEF FifoEmpty
<1>6. \A v \in Writer : pc[v] \notin {"pop", "write"}
  BY <1>1 DEF StaysIdle, Idle
<1>7. OneInside' /\ Hands' /\ StaysIdle'
  BY <1>1, <1>6 DEF OneInside, Hands, StaysIdle
<1>8. Lengths'
  BY <1>1, <1>2, UartAssumption, LenProperties DEF Lengths, Types
<1>9. InHand' = InHand /\ InHand \in Seq(Nat)
  BY <1>1, EmptySeq DEF InHand, Types
<1> DEFINE x == InHand \o queue
<1>10. x \in Seq(Nat) /\ UnderWay = shift \o (fifo \o x) /\ UnderWay' = shift' \o (fifo' \o x)
  BY <1>1, <1>9, ConcatProperties DEF UnderWay, Types
<1> HIDE DEF x
<1>11. fifo \o x \in Seq(Nat) /\ <<>> \o (fifo \o x) = fifo \o x
  BY <1>10, ConcatProperties, ConcatEmptySeq DEF Types
<1>12. (<<Head(fifo)>> \o Tail(fifo)) \o x = <<Head(fifo)>> \o (Tail(fifo) \o x)
  BY <1>2, <1>10, ConcatAssociative
<1>. QED BY <1>1, <1>2, <1>4, <1>5, <1>7, <1>8, <1>10, <1>11, <1>12

\* The character in the shift register is the next one under way.
LEMMA SentStep ==
  ASSUME IInv, Sent
  PROVE  IInv' /\ Link!Transmit
<1> USE DEF IInv
<1>1. /\ UNCHANGED <<pc, hand, owner, queue, fifo, thre, accepted>>
      /\ shift # <<>> /\ shift' = <<>> /\ wire' = wire \o shift
  BY DEF Sent
<1>2. PICK c \in Nat : shift = <<c>>
  <2> DEFINE n == Len(shift)
  <2>1. n \in Nat /\ n # 0 /\ n <= 1
    BY <1>1, EmptySeq DEF Types, Lengths
  <2>2. Len(shift) = 1
    <3> HIDE DEF n
    <3>1. n = 1
      BY <2>1
    <3>. QED BY <3>1 DEF n
  <2>3. shift \in Seq(Nat)
    BY DEF Types
  <2>. QED BY ONLY <2>2, <2>3, OneLong, Zenon
<1>3. <<>> \in Seq(Nat) /\ Len(<<>>) = 0
  BY EmptySeq
<1>4. wire' = Append(wire, c) /\ wire' \in Seq(Nat)
  BY <1>1, <1>2, AppendIsConcat, AppendProperties DEF Types
<1>5. Types' /\ FifoEmpty'
  BY <1>1, <1>3, <1>4 DEF Types, FifoEmpty
<1>6. \A v \in Writer : pc[v] \notin {"pop", "write"}
  BY <1>1 DEF StaysIdle, Idle
<1>7. OneInside' /\ Hands' /\ StaysIdle'
  BY <1>1, <1>6 DEF OneInside, Hands, StaysIdle
<1>8. Lengths'
  BY <1>1, <1>3 DEF Lengths
<1>9. InHand' = InHand /\ InHand \in Seq(Nat)
  BY <1>1, <1>3 DEF InHand, Types
<1> DEFINE x == InHand \o queue
           y == fifo \o x
<1>10. x \in Seq(Nat)
  BY <1>9, ConcatProperties DEF Types
<1>11. UnderWay = <<c>> \o y /\ UnderWay' = <<>> \o y
  BY <1>1, <1>2, <1>9 DEF UnderWay
<1> HIDE DEF x
<1>12. y \in Seq(Nat)
  BY <1>10, ConcatProperties DEF Types
<1> HIDE DEF y
<1>13. UnderWay # <<>> /\ Head(UnderWay) = c /\ Tail(UnderWay) = y
  BY <1>11, <1>12, OneInFront
<1>14. UnderWay' = y
  BY <1>11, <1>12, ConcatEmptySeq
<1>. QED BY <1>4, <1>5, <1>7, <1>8, <1>13, <1>14 DEF Link!Transmit

----------------------------------------------------------------------------
\* Every step keeps the invariant and is a step of the character device or changes
\* nothing of it.
LEMMA Step ==
  ASSUME IInv, Printer = Writer, [Next]_vars
  PROVE  IInv' /\ [Link!Next]_<<UnderWay, wire>>
<1>1. CASE UNCHANGED vars
  BY <1>1 DEF vars, IInv, Types, OneInside, Hands, StaysIdle, Idle, FifoEmpty, Lengths, UnderWay, InHand
<1>2. CASE TransmitterEmpty \/ Load
  BY <1>2, InterruptStep, LoadStep
<1>3. CASE Sent
  BY <1>3, SentStep DEF Link!Next
<1>4. ASSUME NEW w \in Writer, Proceed(w) \/ Begin(w)
      PROVE  IInv' /\ [Link!Next]_<<UnderWay, wire>>
  <2>1. CASE Enqueue(w)
    BY <2>1, EnqueueStep DEF Link!Next
  <2>2. CASE PopOldest(w)
    BY <2>2, PopStep
  <2>3. CASE Start(w)
    BY <2>3, StartStep
  <2>4. CASE TakePrintf(w) \/ GivePrintf(w) \/ TestIdle(w) \/ Flush(w) \/ Flushed(w)
    BY <2>4, WalkStep
  <2>. QED BY <1>4, <2>1, <2>2, <2>3, <2>4 DEF Proceed, Begin
<1>. QED BY <1>1, <1>2, <1>3, <1>4 DEF Next

LEMMA Start0 == Init => Link!Init
<1>1. <<>> \in Seq(Nat) /\ <<>> \o <<>> = <<>>
  BY EmptySeq, ConcatEmptySeq
<1>. QED BY <1>1 DEF Init, Link!Init, UnderWay, InHand

\* When every task writes with printf() the driver implements the character device: what
\* its queue accepts is sent once and in order, although putChar() and the interrupt both
\* take from the queue and hand to the same register.
THEOREM PrintfSendsInOrder ==
  ASSUME Printer = Writer
  PROVE  Spec => SendsInOrder
<1>1. Init => IInv /\ Link!Init
  BY InitIInv, Start0
<1>2. IInv /\ [Next]_vars => IInv' /\ [Link!Next]_<<UnderWay, wire>>
  BY Step
<1>. QED BY <1>1, <1>2, PTL DEF Spec, SendsInOrder, Link!Spec

\* Whoever writes the register finds room, for the writers of printf(): a task, because
\* the transmitter stays idle from its look at the line to its write, and the interrupt,
\* because nothing is written between the last Load of the FIFO and it.
THEOREM RegisterHasRoom ==
  ASSUME Printer = Writer
  PROVE  Spec => []ThrHasRoom
<1>1. Init => IInv
  BY InitIInv
<1>2. IInv /\ [Next]_vars => IInv'
  BY Step
<1>3. IInv => ThrHasRoom
  <2> SUFFICES ASSUME IInv PROVE ThrHasRoom
    OBVIOUS
  <2>1. queue \in Seq(Nat) /\ HwFifo \in Nat \ {0}
    BY UartAssumption DEF IInv, Types
  <2>2. ASSUME NEW w \in Writer, pc[w] = "write" PROVE Len(fifo \o hand[w]) <= HwFifo
    <3>1. fifo = <<>> /\ hand[w] \in Seq(Nat) /\ Len(hand[w]) <= 1
      BY <2>2 DEF IInv, StaysIdle, Idle, Types, Hands
    <3>2. fifo \o hand[w] = hand[w]
      BY <3>1, ConcatEmptySeq
    <3>. QED BY <2>1, <3>1, <3>2, LenProperties
  <2>3. ASSUME thre PROVE Len(fifo \o First(queue, HwFifo)) <= HwFifo
    <3>1. fifo = <<>>
      BY <2>3 DEF IInv, FifoEmpty
    <3>2. First(queue, HwFifo) \in Seq(Nat) /\ Len(First(queue, HwFifo)) <= HwFifo
      BY <2>1, Cut
    <3>. QED BY <3>1, <3>2, ConcatEmptySeq
  <2>. QED BY <2>2, <2>3 DEF ThrHasRoom
<1>. QED BY <1>1, <1>2, <1>3, PTL DEF Spec
=============================================================================
