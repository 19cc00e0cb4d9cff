----------------------------- MODULE CanDriver -----------------------------
(***************************************************************************)
(* One controller of the CAN driver (can.c).  Tasks send through one       *)
(* hardware buffer and, when it is busy, through a queue that the transmit *)
(* interrupt empties; received messages go through a queue the interrupt   *)
(* fills.                                                                  *)
(*                                                                         *)
(* A step is a critical section or a kernel call of a task, what the       *)
(* interrupt does to one register or queue, or a step of the hardware.     *)
(* The hardware goes on during critical sections and handlers; interrupts  *)
(* that are pending can be held off by those of other devices.             *)
(***************************************************************************)
EXTENDS Naturals, SequencesExt

CONSTANTS Tasks,
          TxLength, RxLength,  \* txq_size and rxq_size of CAN_init()
          HwRxLength,          \* messages the controller holds for the interrupt
          Free,                \* the transmit buffer is available
          MaxCalls,            \* bound: calls of CAN_tx() of each task
          MaxFrames            \* bound: messages that arrive

ASSUME LengthAssumption == TxLength \in Nat \ {0} /\ RxLength \in Nat \ {0}
ASSUME FreeAssumption == Free \notin Tasks \X Nat

VARIABLES task,     \* of each task: where it is and its messages so far
          txQ, hwTx, \* the queue and the message in the transmit buffer
          txDone,   \* intr_tx1 is set: a message has left
          isr,      \* what the interrupt does next
          onBus,    \* messages that were sent
          failed,   \* messages whose CAN_tx() returned false
          hwRx, rxQ, received, arrived, overruns, droppedRxMsgs

tx == <<txQ, hwTx, txDone, onBus>>
rx == <<hwRx, rxQ, received, arrived, overruns, droppedRxMsgs>>
canVars == <<task, isr, failed, tx, rx>>

Message(t) == <<t, task[t].calls>>
Goes(t, to) == task' = [task EXCEPT ![t].at = to]
InISR == isr # "none"

CanInit ==
    /\ task = [t \in Tasks |-> [at |-> "idle", calls |-> 0]]
    /\ txQ = << >> /\ hwTx = Free /\ txDone = FALSE
    /\ isr = "none"
    /\ onBus = << >> /\ failed = {}
    /\ hwRx = << >> /\ rxQ = << >> /\ received = << >>
    /\ arrived = 0 /\ overruns = {} /\ droppedRxMsgs = {}

-----------------------------------------------------------------------------
(***************************************************************************)
(* CAN_tx.                                                                 *)
(***************************************************************************)
Call(t) ==
    /\ ~ InISR /\ task[t].at = "idle" /\ task[t].calls < MaxCalls
    /\ task' = [task EXCEPT ![t].at = "try", ![t].calls = task[t].calls + 1]
    /\ UNCHANGED <<isr, failed, tx, rx>>

\* The first critical section, with CAN_tx_now.
TryNow(t) ==
    /\ ~ InISR /\ task[t].at = "try"
    /\ IF hwTx = Free
       THEN hwTx' = Message(t) /\ Goes(t, "idle")
       ELSE Goes(t, "queue") /\ UNCHANGED hwTx
    /\ UNCHANGED <<txQ, txDone, onBus, isr, failed, rx>>

Enqueue(t) ==
    /\ ~ InISR /\ task[t].at = "queue" /\ Len(txQ) < TxLength
    /\ txQ' = Append(txQ, Message(t))
    /\ Goes(t, "check")
    /\ UNCHANGED <<hwTx, txDone, onBus, isr, failed, rx>>

\* xQueueSend gives up after timeout_ms.
TimeOut(t) ==
    /\ ~ InISR /\ task[t].at = "queue" /\ Len(txQ) = TxLength
    /\ Goes(t, "late")
    /\ UNCHANGED <<isr, failed, tx, rx>>

\* Whether its own message was queued or not, the task looks at the buffer.
Looks(t) == task[t].at \in {"check", "late"}
Return(t, ok) ==
    /\ Goes(t, "idle")
    /\ failed' = IF ok THEN failed ELSE failed \cup {Message(t)}

\* The second critical section: nobody else may come to empty the queue.
\* Mutant: without it.
CheckNot(t) ==
    /\ ~ InISR /\ Looks(t)
    /\ Return(t, task[t].at = "check")
    /\ UNCHANGED <<isr, tx, rx>>
\* Mutant: the message stays in the queue.
CheckAndPeek(t) ==
    /\ ~ InISR /\ Looks(t)
    /\ IF hwTx = Free /\ txQ # << >>
       THEN Return(t, TRUE) /\ hwTx' = Head(txQ)
       ELSE Return(t, task[t].at = "check") /\ UNCHANGED hwTx
    /\ UNCHANGED <<txQ, txDone, onBus, isr, rx>>
Check(t) ==
    /\ ~ InISR /\ Looks(t)
    /\ IF hwTx = Free /\ txQ # << >>
       THEN Return(t, TRUE) /\ hwTx' = Head(txQ) /\ txQ' = Tail(txQ)
       ELSE Return(t, task[t].at = "check") /\ UNCHANGED <<txQ, hwTx>>
    /\ UNCHANGED <<txDone, onBus, isr, rx>>

-----------------------------------------------------------------------------
(***************************************************************************)
(* CAN_handle_isr.                                                         *)
(***************************************************************************)
\* Reading ICR clears the transmit bit; that of the receiver follows the buffer.
EnterISR ==
    /\ ~ InISR /\ (txDone \/ hwRx # << >>)
    /\ isr' = IF txDone THEN "rx,tx" ELSE "rx"
    /\ txDone' = FALSE
    /\ UNCHANGED <<task, failed, txQ, hwTx, onBus, rx>>

\* Mutant: a message the queue has no room for is left in the controller.
ReceiveIfRoom ==
    /\ isr \in {"rx", "rx,tx"}
    /\ IF hwRx # << >> /\ Len(rxQ) < RxLength
       THEN rxQ' = Append(rxQ, Head(hwRx))
       ELSE UNCHANGED rxQ
    /\ hwRx' = IF hwRx = << >> THEN << >> ELSE Tail(hwRx)
    /\ isr' = IF isr = "rx,tx" THEN "tx" ELSE "none"
    /\ UNCHANGED <<task, failed, tx, received, arrived, overruns, droppedRxMsgs>>
ReceiveFromHw ==
    /\ isr \in {"rx", "rx,tx"}
    /\ IF hwRx = << >> THEN UNCHANGED <<rxQ, hwRx, droppedRxMsgs>>
       ELSE /\ hwRx' = Tail(hwRx)
            /\ IF Len(rxQ) < RxLength
               THEN rxQ' = Append(rxQ, Head(hwRx)) /\ UNCHANGED droppedRxMsgs
               ELSE droppedRxMsgs' = droppedRxMsgs \cup {Head(hwRx)} /\ UNCHANGED rxQ
    /\ isr' = IF isr = "rx,tx" THEN "tx" ELSE "none"
    /\ UNCHANGED <<task, failed, tx, received, arrived, overruns>>

\* What CAN_tx_now returns is not looked at.
SendNext ==
    /\ isr = "tx"
    /\ IF txQ # << >>
       THEN /\ txQ' = Tail(txQ)
            /\ hwTx' = IF hwTx = Free THEN Head(txQ) ELSE hwTx
       ELSE UNCHANGED <<txQ, hwTx>>
    /\ isr' = "none"
    /\ UNCHANGED <<task, failed, txDone, onBus, rx>>

-----------------------------------------------------------------------------
\* CAN_rx.
Receive ==
    /\ ~ InISR /\ rxQ # << >>
    /\ received' = Append(received, Head(rxQ))
    /\ rxQ' = Tail(rxQ)
    /\ UNCHANGED <<task, isr, failed, tx, hwRx, arrived, overruns, droppedRxMsgs>>

\* The hardware: a message has been sent; a message comes in and finds room or not.
Sent ==
    /\ hwTx # Free
    /\ onBus' = Append(onBus, hwTx) /\ hwTx' = Free /\ txDone' = TRUE
    /\ UNCHANGED <<task, isr, failed, txQ, rx>>

Arrive ==
    /\ arrived < MaxFrames
    /\ arrived' = arrived + 1
    /\ IF Len(hwRx) < HwRxLength
       THEN hwRx' = Append(hwRx, arrived + 1) /\ UNCHANGED overruns
       ELSE overruns' = overruns \cup {arrived + 1} /\ UNCHANGED hwRx
    /\ UNCHANGED <<task, isr, failed, tx, rxQ, received, droppedRxMsgs>>

Handler == EnterISR \/ ReceiveFromHw \/ SendNext
CanTx(t) == TryNow(t) \/ Enqueue(t) \/ TimeOut(t) \/ Check(t)

CanNext == Handler \/ Receive \/ Sent \/ Arrive \/ \E t \in Tasks : Call(t) \/ CanTx(t)

CanSpec == CanInit /\ [][CanNext]_canVars

\* Messages are sent, interrupts are served and tasks run.
CanFairSpec ==
    /\ CanSpec
    /\ WF_canVars(Sent) /\ WF_canVars(Handler) /\ \A t \in Tasks : WF_canVars(CanTx(t))

-----------------------------------------------------------------------------
(***************************************************************************)
(* Properties.                                                             *)
(***************************************************************************)
\* Messages do not wait for nothing: while there are some in the queue the
\* buffer is in use, an interrupt will come or is being handled, or a task is
\* about to look.  The interrupt and the tasks that find the buffer busy race.
QueueServed ==
    txQ # << >> => \/ hwTx # Free \/ txDone \/ isr \in {"tx", "rx,tx"}
                   \/ \E t \in Tasks : Looks(t)

\* No message is sent twice, and none whose sender was told that it failed,
\* although whoever finds the buffer free sends the oldest message of others.
SentOnce ==
    LET all == onBus \o (IF hwTx = Free THEN << >> ELSE <<hwTx>>) \o txQ
    IN  /\ \A i, j \in DOMAIN all : all[i] = all[j] => i = j
        /\ \A i \in DOMAIN all : all[i] \notin failed

\* A message in the queue leaves it.
QueueEmpties == txQ # << >> ~> txQ = << >>

\* Received messages come in order, and what is missing between two of them was
\* counted as dropped or reported as an overrun.
ReceivedInOrder ==
    LET all == received \o rxQ \o hwRx
        lost == droppedRxMsgs \cup overruns
    IN  /\ \A i, j \in DOMAIN all : i < j => all[i] < all[j]
        /\ 1 .. arrived = lost \cup {all[i] : i \in DOMAIN all}
        /\ \A i \in DOMAIN all : all[i] \notin lost

\* can.h: "the transmission complete interrupt will later send the queued msg".
\* A message that CAN_tx() has accepted is in the queue, the buffer or sent.
NoneLost ==
    \A t \in Tasks : \A n \in 1 .. task[t].calls :
        \/ n = task[t].calls /\ task[t].at # "idle"
        \/ <<t, n>> \in failed \cup {hwTx} \cup ToSet(txQ) \cup ToSet(onBus)
=============================================================================
