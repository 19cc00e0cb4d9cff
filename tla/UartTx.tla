------------------------------- MODULE UartTx -------------------------------
(***************************************************************************)
(* The transmit side of UartDev, L2_Drivers/base/uart_dev.cpp: tasks put   *)
(* characters into a queue, a task that finds the transmitter idle starts  *)
(* it, and its interrupt takes what follows from the queue.                *)
(*                                                                         *)
(* A task writes with printf(), which holds a semaphore, or with putChar() *)
(* alone, as the C library's output does.  A put that times out on a full  *)
(* queue returns false and changes nothing; here it waits.                 *)
(*                                                                         *)
(* Characters are numbered as the queue accepts them.  The interrupt is    *)
(* taken before the next instruction of any task; it is raised when the    *)
(* FIFO runs empty, while the last character is still being sent.          *)
(***************************************************************************)
EXTENDS Naturals, Sequences

CONSTANTS
    Writer,       \* tasks
    Printer,      \* those of them that use printf()
    NoWriter,     \* nobody holds mPrintfSemaphore
    TxQueue,      \* length of mTxQueue
    HwFifo,       \* the transmit FIFO, 16
    MaxChars      \* bound: characters accepted

ASSUME UartAssumption ==
    /\ Printer \subseteq Writer /\ NoWriter \notin Writer
    /\ {TxQueue, HwFifo, MaxChars} \subseteq Nat \ {0}

VARIABLES
    pc,           \* where each task is
    hand,         \* the local variable out: the character taken from the queue, if any
    owner,        \* who holds mPrintfSemaphore
    queue,        \* mTxQueue
    fifo,         \* the transmit FIFO behind THR
    shift,        \* the shift register, empty or one character
    thre,         \* the transmitter empty interrupt is pending
    accepted,     \* characters accepted so far
    wire          \* history: the characters sent

vars == <<pc, hand, owner, queue, fifo, shift, thre, accepted, wire>>

Init ==
    /\ pc = [w \in Writer |-> "idle"] /\ hand = [w \in Writer |-> <<>>]
    /\ owner = NoWriter
    /\ queue = <<>> /\ fifo = <<>> /\ shift = <<>> /\ thre = FALSE
    /\ accepted = 0 /\ wire = <<>>

\* LSR bit 6: FIFO and shift register are empty.
Idle == fifo = <<>> /\ shift = <<>>

Shorter(a, b) == IF a < b THEN a ELSE b

\* The first n elements of s, all of them if there are fewer, and what is left.
First(s, n) == SubSeq(s, 1, Shorter(Len(s), n))
Rest(s, n) == SubSeq(s, Shorter(Len(s), n) + 1, Len(s))

\* THR is written with every character of s.  The FIFO drops what it has no room for.
WriteThr(s) ==
    /\ fifo' = fifo \o First(s, HwFifo - Len(fifo))
    /\ thre' = FALSE

----------------------------------------------------------------------------
(***************************************************************************)
(* The tasks.                                                              *)
(***************************************************************************)
TaskAt(w, from, to) == ~thre /\ pc[w] = from /\ pc' = [pc EXCEPT ![w] = to]

\* Where a task goes when it does not write: inside or outside of printf().
Between(w) == IF w \in Printer THEN "print" ELSE "idle"

\* Mutant: the semaphore is not waited for.
TakePrintfAnyway(w) ==
    /\ w \in Printer /\ TaskAt(w, "idle", "print")
    /\ owner' = w
    /\ UNCHANGED <<hand, queue, fifo, shift, thre, accepted, wire>>

TakePrintf(w) ==
    /\ w \in Printer /\ TaskAt(w, "idle", "print")
    /\ owner = NoWriter /\ owner' = w
    /\ UNCHANGED <<hand, queue, fifo, shift, thre, accepted, wire>>

GivePrintf(w) ==
    /\ TaskAt(w, "print", "idle")
    /\ owner' = NoWriter
    /\ UNCHANGED <<hand, queue, fifo, shift, thre, accepted, wire>>

\* putChar(): xQueueSend(), which waits for room
Enqueue(w) ==
    /\ TaskAt(w, Between(w), "test") /\ accepted < MaxChars
    /\ Len(queue) < TxQueue
    /\ accepted' = accepted + 1
    /\ queue' = Append(queue, accepted')
    /\ UNCHANGED <<hand, owner, fifo, shift, thre, wire>>

\* Mutant: the line status is not looked at.
TestIdleNot(w) ==
    /\ TaskAt(w, "test", "pop")
    /\ UNCHANGED <<hand, owner, queue, fifo, shift, thre, accepted, wire>>

TestIdle(w) ==
    /\ TaskAt(w, "test", IF Idle THEN "pop" ELSE Between(w))
    /\ UNCHANGED <<hand, owner, queue, fifo, shift, thre, accepted, wire>>

\* The oldest character, if the interrupt or another task has not taken it.
PopOldest(w) ==
    /\ TaskAt(w, "pop", IF queue = <<>> THEN Between(w) ELSE "write")
    /\ hand' = [hand EXCEPT ![w] = First(queue, 1)] /\ queue' = Rest(queue, 1)
    /\ UNCHANGED <<owner, fifo, shift, thre, accepted, wire>>

Start(w) ==
    /\ TaskAt(w, "write", Between(w))
    /\ WriteThr(hand[w]) /\ hand' = [hand EXCEPT ![w] = <<>>]
    /\ UNCHANGED <<owner, queue, shift, accepted, wire>>

\* flush() looks at the queue every tick.
Flush(w) ==
    /\ TaskAt(w, "idle", "flush")
    /\ UNCHANGED <<hand, owner, queue, fifo, shift, thre, accepted, wire>>

Flushed(w) ==
    /\ queue = <<>> /\ TaskAt(w, "flush", "idle")
    /\ UNCHANGED <<hand, owner, queue, fifo, shift, thre, accepted, wire>>

\* What a task does once it has begun to put a character, and what it may begin.
Proceed(w) == TestIdle(w) \/ PopOldest(w) \/ Start(w) \/ Flushed(w)
Begin(w) == TakePrintf(w) \/ GivePrintf(w) \/ Enqueue(w) \/ Flush(w)

----------------------------------------------------------------------------
(***************************************************************************)
(* The interrupt and the hardware.                                         *)
(***************************************************************************)
\* Mutant: the last character is left in the queue.
TransmitterEmptyButOne ==
    /\ thre
    /\ LET n == Shorter(Len(queue) - 1, HwFifo)
       IN  IF queue = <<>> THEN UNCHANGED <<queue, fifo>> /\ thre' = FALSE
           ELSE WriteThr(First(queue, n)) /\ queue' = Rest(queue, n)
    /\ UNCHANGED <<pc, hand, owner, shift, accepted, wire>>

\* handleInterrupt(): as many characters as the FIFO holds
TransmitterEmpty ==
    /\ thre
    /\ WriteThr(First(queue, HwFifo)) /\ queue' = Rest(queue, HwFifo)
    /\ UNCHANGED <<pc, hand, owner, shift, accepted, wire>>

Load ==
    /\ shift = <<>> /\ fifo # <<>>
    /\ shift' = <<Head(fifo)>> /\ fifo' = Tail(fifo)
    /\ thre' = (thre \/ Len(fifo) = 1)
    /\ UNCHANGED <<pc, hand, owner, queue, accepted, wire>>

Sent ==
    /\ shift # <<>> /\ shift' = <<>>
    /\ wire' = wire \o shift
    /\ UNCHANGED <<pc, hand, owner, queue, fifo, thre, accepted>>

Next == TransmitterEmpty \/ Load \/ Sent \/ \E w \in Writer : Proceed(w) \/ Begin(w)

Spec == Init /\ [][Next]_vars

\* The hardware sends, the interrupt is taken, and a task that does not wait gets on.
FairSpec ==
    /\ Spec
    /\ WF_vars(TransmitterEmpty) /\ WF_vars(Load) /\ WF_vars(Sent)
    /\ \A w \in Writer : WF_vars(Proceed(w))

----------------------------------------------------------------------------
(***************************************************************************)
(* Properties                                                              *)
(***************************************************************************)
\* Nothing is written to a register without room for it: a task writes the character that
\* it has taken from the queue after its look at the line, the interrupt up to a FIFO of
\* characters without a look.
ThrHasRoom ==
    /\ \A w \in Writer : pc[w] = "write" => Len(fifo \o hand[w]) <= HwFifo
    /\ thre => Len(fifo \o First(queue, HwFifo)) <= HwFifo

\* The characters that are under way, the next one to be sent first.
InHand == IF owner = NoWriter THEN <<>> ELSE hand[owner]
UnderWay == shift \o (fifo \o (InHand \o queue))

\* The driver is a character device: when its writers use printf(), what it accepts is sent
\* once and in order, whoever takes it from the queue.
Link == INSTANCE CharLink WITH Char <- 1..MaxChars, pending <- UnderWay, sent <- wire
SendsInOrder == Link!Spec

\* Once a task has started the transmitter the interrupts empty the queue.
StartDrains == (\E w \in Writer : pc[w] = "write") ~> (queue = <<>>)

\* uart_dev.cpp:64, the oldest character in the queue is sent next
OldestFirst == \A i, j \in 1..Len(wire) : i < j => wire[i] < wire[j]

\* uart_dev.cpp:65, the interrupt empties the queue thereafter, and flush() returns
FlushReturns == \A w \in Writer : (pc[w] = "flush") ~> (pc[w] = "idle")
=============================================================================
