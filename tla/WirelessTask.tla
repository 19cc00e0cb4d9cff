---------------------------- MODULE WirelessTask ----------------------------
(***************************************************************************)
(* The tasks that share one node of the mesh: the wireless task, which     *)
(* loops over wireless_service(), a task of lower priority that calls      *)
(* mesh_send(), the radio's interrupt and the kernel's tick.  What they    *)
(* share is the radio, g_locked, g_nrf_activity_sem, the pending packets   *)
(* and the sequence number.                                                *)
(*                                                                         *)
(* The wireless task has the higher priority: while it is ready it keeps   *)
(* the processor, and it can take it from the sender between any two       *)
(* steps.  nrf_driver_send() gives the semaphore without a yield, so the   *)
(* switch it causes waits for the next interrupt.                          *)
(*                                                                         *)
(* What a packet says is left to MeshNode: here it may be answered or be   *)
(* an answer.  A tick stands for the time an answer is waited for.         *)
(***************************************************************************)
EXTENDS Naturals, Sequences

CONSTANTS
    RxFifo,      \* packets the radio holds, 3
    Slots,       \* g_our_pnd_pkts, MESH_MAX_PEND_PKTS
    Retries,     \* g_retry_count
    MaxPkts,     \* bound: packets that arrive
    MaxSends     \* bound: calls of mesh_send()

ASSUME WirelessAssumption ==
    {RxFifo, Slots, Retries, MaxPkts, MaxSends} \subseteq Nat /\ RxFifo > 0 /\ Slots > 0

VARIABLES
    cpu,       \* the task that has the processor
    task,      \* where the wireless task is
    nap,       \* how long it blocks on the semaphore
    sem,       \* g_nrf_activity_sem
    locked,    \* g_locked
    sender,    \* where the sender is in mesh_send()
    mine,      \* the sequence number the sender has read
    seq,       \* s_next_packet_id
    handed,    \* history: the sequence numbers given to packets
    rx,        \* packets in the radio's FIFO
    flag,      \* RX_DR of the radio, its interrupt line
    pnd,       \* transmissions left of every pending packet, 0 in a free slot
    late,      \* a tick has passed since the pending packets were looked at
    arrived, sends    \* bounds: packets and calls so far

radio == <<rx, flag, arrived>>
packet == <<mine, seq, handed>>
wirelessVars == <<cpu, task, nap, sem, locked, sender, packet, radio, pnd, late, sends>>

Pending == {i \in 1..Slots : pnd[i] > 0}

WirelessInit ==
    /\ cpu = "wireless" /\ task = "check" /\ nap = "ever" /\ sem = FALSE
    /\ locked = FALSE /\ sender = "idle"
    /\ mine = 0 /\ seq = 0 /\ handed = <<>>
    /\ rx = 0 /\ flag = FALSE /\ arrived = 0
    /\ pnd = [i \in 1..Slots |-> 0] /\ late = FALSE /\ sends = 0

\* Mutant: the signal is lost on a task that does not wait yet.
GiveWaiting ==
    /\ sem' = (sem \/ task = "wait")
    /\ task' = IF task = "wait" THEN "take" ELSE task

\* xSemaphoreGiveFromISR(): the wireless task, if it waits, becomes ready.
Give ==
    /\ sem' = TRUE
    /\ task' = IF task = "wait" THEN "take" ELSE task

----------------------------------------------------------------------------
(***************************************************************************)
(* The sender: mesh_form_pkt(), then mesh_send_formed_pkt().               *)
(***************************************************************************)
SenderAt(pc, next) == cpu = "sender" /\ sender = pc /\ sender' = next

Begin ==
    /\ SenderAt("idle", "load") /\ sends < MaxSends /\ sends' = sends + 1
    /\ UNCHANGED <<cpu, task, nap, sem, locked, packet, radio, pnd, late>>

\* mesh_get_next_seq_num() is a load, an increment and a store.
LoadNumber ==
    /\ SenderAt("load", "store") /\ mine' = seq
    /\ UNCHANGED <<cpu, task, nap, sem, locked, seq, handed, radio, pnd, late, sends>>

StoreNumber ==
    /\ SenderAt("store", "form")
    /\ seq' = mine + 1 /\ handed' = Append(handed, mine + 1)
    /\ UNCHANGED <<cpu, task, nap, sem, locked, mine, radio, pnd, late, sends>>

LockTable ==
    /\ SenderAt("form", "find") /\ locked' = TRUE
    /\ UNCHANGED <<cpu, task, nap, sem, packet, radio, pnd, late, sends>>

\* The route of the destination.
LookUpRoute ==
    /\ SenderAt("find", "send") /\ locked' = FALSE
    /\ UNCHANGED <<cpu, task, nap, sem, packet, radio, pnd, late, sends>>

\* Mutant: the packet is sent without the lock.
LockSendNot ==
    /\ SenderAt("send", "radio")
    /\ UNCHANGED <<cpu, task, nap, sem, locked, packet, radio, pnd, late, sends>>

LockSend ==
    /\ SenderAt("send", "radio") /\ locked' = TRUE
    /\ UNCHANGED <<cpu, task, nap, sem, packet, radio, pnd, late, sends>>

\* nrf_driver_send() transmits and gives the semaphore.
Transmit ==
    /\ SenderAt("radio", "add") /\ Give
    /\ UNCHANGED <<cpu, nap, locked, packet, radio, pnd, late, sends>>

\* mesh_pending_packets_add(): a free slot, or one that is taken over.
MakePending ==
    /\ SenderAt("add", "unlock")
    /\ \E i \in 1..Slots :
          /\ pnd[i] = 0 \/ Pending = 1..Slots
          /\ pnd' = [pnd EXCEPT ![i] = 1 + Retries]
    /\ UNCHANGED <<cpu, task, nap, sem, locked, packet, radio, late, sends>>

Unlock ==
    /\ SenderAt("unlock", "idle") /\ locked' = FALSE
    /\ UNCHANGED <<cpu, task, nap, sem, packet, radio, pnd, late, sends>>

Sender == \/ Begin \/ LoadNumber \/ StoreNumber \/ LockTable \/ LookUpRoute
          \/ LockSend \/ Transmit \/ MakePending \/ Unlock

----------------------------------------------------------------------------
(***************************************************************************)
(* The wireless task: wireless_service() and in it mesh_service().         *)
(***************************************************************************)
TaskAt(pc, next) == cpu = "wireless" /\ task = pc /\ task' = next

\* Mutant: the interrupt line is not looked at before the task blocks.
CheckSignalNot ==
    /\ TaskAt("check", "take")
    /\ nap' = IF Pending # {} THEN "tick" ELSE "ever"
    /\ UNCHANGED <<cpu, sem, locked, sender, packet, radio, pnd, late, sends>>

\* Mutant: with packets pending the task polls.
CheckSignalPoll ==
    /\ TaskAt("check", IF flag \/ Pending # {} THEN "service" ELSE "take")
    /\ nap' = "ever"
    /\ UNCHANGED <<cpu, sem, locked, sender, packet, radio, pnd, late, sends>>

CheckSignal ==
    /\ TaskAt("check", IF flag THEN "service" ELSE "take")
    /\ nap' = IF Pending # {} THEN "tick" ELSE "ever"
    /\ UNCHANGED <<cpu, sem, locked, sender, packet, radio, pnd, late, sends>>

TakeSignal ==
    /\ sem /\ TaskAt("take", "service") /\ sem' = FALSE
    /\ UNCHANGED <<cpu, nap, locked, sender, packet, radio, pnd, late, sends>>

Block ==
    /\ ~sem /\ TaskAt("take", "wait") /\ cpu' = "sender"
    /\ UNCHANGED <<nap, sem, locked, sender, packet, radio, pnd, late, sends>>

\* mesh_service() returns at once while the structures are locked.
SkipService ==
    /\ locked /\ TaskAt("service", "check")
    /\ UNCHANGED <<cpu, nap, sem, locked, sender, packet, radio, pnd, late, sends>>

\* nrf_driver_receive()
ReadPacket ==
    /\ ~locked /\ rx > 0 /\ TaskAt("service", "more") /\ rx' = rx - 1
    /\ UNCHANGED <<cpu, nap, sem, locked, sender, packet, flag, arrived, pnd, late, sends>>

NoPacket ==
    /\ ~locked /\ rx = 0 /\ TaskAt("service", "pending")
    /\ UNCHANGED <<cpu, nap, sem, locked, sender, packet, radio, pnd, late, sends>>

AnyMore ==
    /\ TaskAt("more", IF rx = 0 THEN "clear" ELSE "handle")
    /\ UNCHANGED <<cpu, nap, sem, locked, sender, packet, radio, pnd, late, sends>>

ClearFlag ==
    /\ TaskAt("clear", "handle") /\ flag' = FALSE
    /\ UNCHANGED <<cpu, nap, sem, locked, sender, packet, rx, arrived, pnd, late, sends>>

\* The packet may be the answer of a pending one.
HandlePacket ==
    /\ TaskAt("handle", "pending")
    /\ pnd' = pnd \/ \E i \in Pending : pnd' = [pnd EXCEPT ![i] = 0]
    /\ UNCHANGED <<cpu, nap, sem, locked, sender, packet, radio, late, sends>>

\* It is for us and is answered: mesh_send_ack() goes through mesh_form_pkt() too, and
\* an answer that takes more than one hop is kept.
AnswerPacket ==
    /\ TaskAt("handle", "pending")
    /\ seq' = seq + 1 /\ handed' = Append(handed, seq + 1)
    /\ sem' = TRUE /\ locked' = FALSE
    /\ \/ pnd' = pnd
       \/ \E i \in 1..Slots : /\ pnd[i] = 0 \/ Pending = 1..Slots
                              /\ pnd' = [pnd EXCEPT ![i] = 1 + Retries]
    /\ UNCHANGED <<cpu, nap, sender, mine, radio, late, sends>>

\* mesh_handle_pending_packets(): packets whose time is up are sent again or given up.
RetryPending ==
    /\ TaskAt("pending", "check")
    /\ IF late
       THEN /\ pnd' = [i \in 1..Slots |-> IF pnd[i] = 0 THEN 0 ELSE pnd[i] - 1]
            /\ sem' = (sem \/ \E i \in 1..Slots : pnd[i] > 1)
       ELSE UNCHANGED <<pnd, sem>>
    /\ late' = FALSE
    /\ UNCHANGED <<cpu, nap, locked, sender, packet, radio, sends>>

ServiceLoop == \/ CheckSignal \/ TakeSignal \/ Block \/ SkipService \/ ReadPacket \/ NoPacket
               \/ AnyMore \/ ClearFlag \/ HandlePacket \/ AnswerPacket \/ RetryPending

----------------------------------------------------------------------------
\* A packet arrives while the radio listens; a falling edge of its line interrupts and
\* nrf_irq_callback() gives the semaphore and yields.
Arrive ==
    /\ arrived < MaxPkts /\ arrived' = arrived + 1
    /\ sender # "radio"
    /\ rx' = IF rx < RxFifo THEN rx + 1 ELSE rx
    /\ flag' = TRUE
    /\ IF flag THEN UNCHANGED <<sem, task, cpu>> ELSE Give /\ cpu' = "wireless"
    /\ UNCHANGED <<nap, locked, sender, packet, pnd, late, sends>>

\* The tick ends a block of one tick and makes the switch a give without a yield left out.
Tick ==
    /\ late' = TRUE
    /\ task' = IF task = "wait" /\ nap = "tick" THEN "service" ELSE task
    /\ cpu' = IF task' = "wait" THEN cpu ELSE "wireless"
    /\ UNCHANGED <<nap, sem, locked, sender, packet, radio, pnd, sends>>

WirelessNext == Sender \/ ServiceLoop \/ Arrive \/ Tick

WirelessSpec == WirelessInit /\ [][WirelessNext]_wirelessVars

\* The processor never idles while a task is ready and time passes.  A millisecond is long
\* enough for the sender to get on whenever the wireless task blocks.
WirelessFairSpec == WirelessSpec /\ SF_wirelessVars(Sender) /\ WF_wirelessVars(ServiceLoop) /\ WF_wirelessVars(Tick)

----------------------------------------------------------------------------
(***************************************************************************)
(* Properties                                                              *)
(***************************************************************************)
\* mesh_service() is never half done while the sender is in its critical sections: radio,
\* routing table and pending packets are used by one task at a time.
Sending == {"find", "radio", "add", "unlock"}
Serving == {"more", "clear", "handle", "pending"}
Exclusive == ~(sender \in Sending /\ task \in Serving)

\* The wireless task does not sleep through an interrupt of the radio.
SignalNoticed == task = "wait" => ~flag /\ ~sem

\* Every interrupt of the radio is answered by reading its FIFO, unless it came while a
\* sender held the lock.
PacketsRead == (flag /\ ~locked) ~> ~flag

\* mesh_send() returns, unless a packet comes while it holds the lock.
SendReturnsUndisturbed == (sender # "idle") ~> (sender = "idle" \/ (flag /\ locked))

\* mesh.h:176, mesh_send() and mesh_service() can be called from different threads
\* because mesh_service() skips a locked node: mesh_send() returns.
SendReturns == (sender # "idle") ~> (sender = "idle")

\* mesh.c:119, "Generate unique packet sequence number"
NumbersUnique == \A i, j \in 1..Len(handed) : handed[i] = handed[j] => i = j

\* wireless.c:120, the signal is pending as long as not all of the FIFO was read
UnreadIsSignalled == task = "wait" => (rx > 0 => flag)

\* wireless.c:204, sending wakes the wireless task to carry out the retries
RetriesEnd == (Pending # {}) ~> (Pending = {})
=============================================================================
