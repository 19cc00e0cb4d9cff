---------------------------- MODULE I2cTransfer ----------------------------
(***************************************************************************)
(* One I2C bus of the base driver (i2c_base.cpp): threads that take a      *)
(* mutex, start a transfer and wait for its completion signal, and the     *)
(* interrupt that moves the bytes.  Before the kernel runs the only thread *)
(* is Main, which polls and takes no mutex.                                *)
(*                                                                         *)
(* A step of a thread is a kernel call or what it does between two; one of *)
(* the interrupt is a run of its state machine.  A device may hold the bus *)
(* for longer than the time-out.                                           *)
(***************************************************************************)
EXTENDS Naturals

CONSTANTS Tasks, Main, None,
          Devices, Present,   \* addresses that are used, and those of a device
          Registers,          \* of each device, 1 .. Registers
          Requests,           \* transfers the threads ask for
          Wrap,               \* 2 ^ the width of trxSize
          MaxCalls            \* bound: transfers of each thread

ASSUME ThreadAssumption == Main \notin Tasks /\ None \notin Tasks \cup {Main}
ASSUME RequestAssumption ==
    /\ Registers \in Nat /\ Wrap \in Nat
    /\ \A r \in Requests :
           /\ r.device \in Devices /\ r.read \in BOOLEAN
           /\ r.reg \in 1 .. Registers /\ r.size \in 0 .. Registers /\ r.size < Wrap

Threads == Tasks \cup {Main}

VARIABLES running,        \* the scheduler runs
          thread,         \* of each thread: where it is, its call, its buffer
          mI2CMutex, mTransferCompleteSignal, mTransaction,
          sta, si, stat, dat, ack,  \* START, SI and AA flags, I2STAT, I2DAT
          device          \* the device that is addressed and its register

software == <<running, thread, mI2CMutex>>
bus == <<sta, si, stat, dat, ack, device>>
vars == <<software, mTransferCompleteSignal, mTransaction, bus>>

\* Bytes: unknown, an address, the number of a register, what a register holds
\* at first, the byte i that call n of t writes.
Junk == <<"junk">>
AddressByte(d, read) == <<"address", d, read>>
RegisterByte(r) == <<"register", r>>
Content(d, r) == <<"content", d, r>>
Byte(t, n, i) == <<"byte", t, n, i>>

NoRequest == [device |-> None, read |-> FALSE, reg |-> 1, size |-> 0]
Bytes == 1 .. Registers

\* Outside of a call; what the call had on its stack is gone.
Idle(calls) == [at |-> "idle", calls |-> calls, req |-> NoRequest, clean |-> FALSE,
                status |-> FALSE, buf |-> [i \in Bytes |-> Junk]]

Init ==
    /\ running = FALSE
    /\ thread = [t \in Threads |-> Idle(0)]
    /\ mI2CMutex = None /\ mTransferCompleteSignal = FALSE
    /\ mTransaction = [req |-> NoRequest, trxSize |-> 0, error |-> "none",
                       owner |-> Main, call |-> 0, pos |-> 1]
    /\ sta = FALSE /\ si = FALSE /\ stat = "idle" /\ dat = Junk /\ ack = FALSE
    /\ device = [addr |-> None, reg |-> 1, named |-> FALSE,
                 mem |-> [d \in Devices |-> [r \in Bytes |-> Content(d, r)]]]

Step(t, from, to) == ~ si /\ thread[t].at = from /\ thread' = [thread EXCEPT ![t].at = to]
BusIdle == stat = "idle" /\ ~ sta

-----------------------------------------------------------------------------
(***************************************************************************)
(* transfer.                                                               *)
(***************************************************************************)
StartKernel ==
    /\ ~ running /\ ~ si /\ thread[Main].at = "idle"
    /\ running' = TRUE
    /\ UNCHANGED <<thread, mI2CMutex, mTransferCompleteSignal, mTransaction, bus>>

Call(t, r) ==
    /\ ~ si /\ running = (t # Main)
    /\ thread[t].at = "idle" /\ thread[t].calls < MaxCalls
    /\ thread' = [thread EXCEPT ![t] =
           [@ EXCEPT !.at = IF running THEN "mutex" ELSE "start",
                     !.calls = thread[t].calls + 1, !.req = r, !.status = FALSE,
                     !.clean = BusIdle /\ ~ mTransferCompleteSignal,
                     !.buf = [i \in Bytes |-> IF r.read \/ i > r.size THEN Junk
                                              ELSE Byte(t, thread[t].calls + 1, i)]]]
    /\ UNCHANGED <<running, mI2CMutex, mTransferCompleteSignal, mTransaction, bus>>

TakeMutex(t) ==
    /\ Step(t, "mutex", "drain") /\ mI2CMutex = None
    /\ mI2CMutex' = t
    /\ UNCHANGED <<running, mTransferCompleteSignal, mTransaction, bus>>

MutexTimeOut(t) ==
    /\ ~ si /\ thread[t].at = "mutex" /\ mI2CMutex # None
    /\ thread' = [thread EXCEPT ![t] = Idle(@.calls)]
    /\ UNCHANGED <<running, mI2CMutex, mTransferCompleteSignal, mTransaction, bus>>

\* Takes a signal that is left from an earlier transfer.  clean: none is under way.
\* Mutant: it is left where it is.
DrainNot(t) ==
    /\ ~ si /\ thread[t].at = "drain"
    /\ thread' = [thread EXCEPT ![t].at = "start", ![t].clean = BusIdle]
    /\ UNCHANGED <<running, mI2CMutex, mTransferCompleteSignal, mTransaction, bus>>
Drain(t) ==
    /\ ~ si /\ thread[t].at = "drain"
    /\ mTransferCompleteSignal' = FALSE
    /\ thread' = [thread EXCEPT ![t].at = "start", ![t].clean = BusIdle]
    /\ UNCHANGED <<running, mI2CMutex, mTransaction, bus>>

i2cKickOffTransfer(t) ==
    /\ Step(t, "start", "wait")
    /\ mTransaction' = [req |-> thread[t].req, trxSize |-> thread[t].req.size,
                        error |-> "none", owner |-> t, call |-> thread[t].calls, pos |-> 1]
    /\ sta' = TRUE
    /\ UNCHANGED <<running, mI2CMutex, mTransferCompleteSignal, si, stat, dat, ack, device>>

\* 0 == mTransaction.error.  The status that a bus error leaves there is 0x00.
NoError == mTransaction.error \in {"none", "busError"}

Complete(t) ==
    /\ ~ si /\ thread[t].at = "wait" /\ mTransferCompleteSignal
    /\ mTransferCompleteSignal' = FALSE
    /\ thread' = [thread EXCEPT ![t].at = "done", ![t].status = NoError]
    /\ UNCHANGED <<running, mI2CMutex, mTransaction, bus>>

\* The polling loop does not tell a time-out from the end of the transfer.
TimeOut(t) ==
    /\ ~ si /\ thread[t].at = "wait" /\ ~ mTransferCompleteSignal
    /\ thread' = [thread EXCEPT ![t] =
           [@ EXCEPT !.at = "done", !.status = t = Main /\ NoError,
                     !.clean = FALSE]]
    /\ UNCHANGED <<running, mI2CMutex, mTransferCompleteSignal, mTransaction, bus>>

Done(t) ==
    /\ ~ si /\ thread[t].at = "done"
    /\ thread' = [thread EXCEPT ![t] = Idle(@.calls)]
    /\ mI2CMutex' = IF mI2CMutex = t THEN None ELSE mI2CMutex
    /\ UNCHANGED <<running, mTransferCompleteSignal, mTransaction, bus>>

-----------------------------------------------------------------------------
(***************************************************************************)
(* handleInterrupt and i2cStateMachine.                                    *)
(***************************************************************************)
Interrupt(status) == si /\ stat = status /\ UNCHANGED <<software, device>>

ClearSI == si' = FALSE /\ UNCHANGED stat
Busy == UNCHANGED mTransferCompleteSignal

\* setStop(): the bus is free again; a START that is asked for is forgotten.
SetStop ==
    /\ sta' = FALSE /\ si' = FALSE /\ stat' = "idle"
    /\ mTransferCompleteSignal' = TRUE
    /\ UNCHANGED ack

\* The byte pMasterData points to, unless the call it belongs to is over.
Current == LET o == thread[mTransaction.owner] IN o.at # "idle" /\ o.calls = mTransaction.call
MasterByte == IF Current /\ mTransaction.pos \in Bytes
              THEN thread[mTransaction.owner].buf[mTransaction.pos] ELSE Junk

SendAddress ==
    \/ /\ Interrupt("start") /\ dat' = AddressByte(mTransaction.req.device, FALSE)
       /\ ClearSI /\ Busy /\ UNCHANGED <<mTransaction, sta, ack>>
    \/ /\ Interrupt("repeatStart") /\ dat' = AddressByte(mTransaction.req.device, TRUE)
       /\ ClearSI /\ Busy /\ UNCHANGED <<mTransaction, sta, ack>>

SlaveAddressAcked ==
    /\ Interrupt("slaveAddressAcked")
    /\ IF mTransaction.trxSize = 0
       THEN SetStop /\ UNCHANGED dat
       ELSE dat' = RegisterByte(mTransaction.req.reg) /\ sta' = FALSE /\ ClearSI /\ Busy /\ UNCHANGED ack
    /\ UNCHANGED mTransaction

Advance(size) == mTransaction' = [mTransaction EXCEPT !.pos = @ + 1, !.trxSize = size]

DataAckedBySlave ==
    /\ Interrupt("dataAckedBySlave")
    /\ IF mTransaction.req.read
       THEN sta' = TRUE /\ ClearSI /\ Busy /\ UNCHANGED <<mTransaction, dat, ack>>
       ELSE IF mTransaction.trxSize = 0
       THEN SetStop /\ UNCHANGED <<mTransaction, dat>>
       ELSE /\ dat' = MasterByte /\ Advance(mTransaction.trxSize - 1)
            /\ ClearSI /\ Busy /\ UNCHANGED <<sta, ack>>

ReadAckedBySlave ==
    /\ Interrupt("readAckedBySlave")
    /\ sta' = FALSE /\ ack' = (mTransaction.trxSize > 1)
    /\ ClearSI /\ Busy /\ UNCHANGED <<mTransaction, dat>>

\* *pMasterData = I2DAT.
Store ==
    /\ thread' = IF Current /\ mTransaction.pos \in Bytes
                 THEN [thread EXCEPT ![mTransaction.owner].buf[mTransaction.pos] = dat]
                 ELSE thread
    /\ UNCHANGED <<running, mI2CMutex, device>>

DataAvailable ==
    LET left == (mTransaction.trxSize + Wrap - 1) % Wrap
    IN  \/ /\ si /\ stat = "dataAvailableAckSent"
           /\ Store /\ Advance(left)
           /\ ack' = (left # 1)
           /\ ClearSI /\ Busy /\ UNCHANGED <<sta, dat>>
        \/ /\ si /\ stat = "dataAvailableNackSent"
           /\ Store /\ SetStop /\ UNCHANGED <<mTransaction, dat>>

NackStates == {"slaveAddressNacked", "dataNackedBySlave", "readModeNackedBySlave", "busError"}

\* Mutant: the transfer is not ended.
NackedNoStop ==
    /\ \E s \in NackStates : Interrupt(s)
    /\ mTransaction' = [mTransaction EXCEPT !.error = stat]
    /\ ClearSI /\ Busy /\ UNCHANGED <<sta, dat, ack>>
Nacked ==
    /\ \E s \in NackStates : Interrupt(s)
    /\ mTransaction' = [mTransaction EXCEPT !.error = stat]
    /\ SetStop /\ UNCHANGED dat

\* SI is not cleared: the interrupt comes again at once.
ArbitrationLost ==
    /\ Interrupt("arbitrationLost")
    /\ mTransaction' = [mTransaction EXCEPT !.error = stat]
    /\ mTransferCompleteSignal' = TRUE
    /\ UNCHANGED <<sta, si, stat, dat, ack>>

handleInterrupt ==
    \/ SendAddress \/ SlaveAddressAcked \/ DataAckedBySlave
    \/ ReadAckedBySlave \/ DataAvailable \/ Nacked \/ ArbitrationLost

-----------------------------------------------------------------------------
(***************************************************************************)
(* The controller and the devices.                                         *)
(***************************************************************************)
Raise(status) == si' = TRUE /\ stat' = status /\ UNCHANGED <<software, mTransferCompleteSignal, mTransaction, ack>>

BusStart ==
    /\ ~ si /\ stat = "idle" /\ sta
    /\ Raise("start") /\ UNCHANGED <<sta, dat, device>>

Address ==
    /\ ~ si /\ stat \in {"start", "repeatStart"}
    /\ \/ /\ dat[2] \in Present
          /\ Raise(IF dat[3] THEN "readAckedBySlave" ELSE "slaveAddressAcked")
          /\ device' = [device EXCEPT !.addr = dat[2], !.named = dat[3]]
       \/ Raise(IF dat[3] THEN "readModeNackedBySlave" ELSE "slaveAddressNacked") /\ UNCHANGED device
    /\ UNCHANGED <<sta, dat>>

NextRegister(r) == (r % Registers) + 1

\* A byte to the device: the number of a register first, then contents.
Transmit ==
    /\ ~ si /\ stat \in {"slaveAddressAcked", "dataAckedBySlave"}
    /\ IF sta THEN Raise("repeatStart") /\ UNCHANGED device
       ELSE \/ /\ Raise("dataAckedBySlave")
               /\ \E r \in IF dat[1] = "register" THEN {dat[2]} ELSE Bytes :
                      device' = IF ~ device.named
                                THEN [device EXCEPT !.named = TRUE, !.reg = r]
                                ELSE [device EXCEPT !.mem[device.addr][device.reg] = dat,
                                                    !.reg = NextRegister(@)]
            \/ Raise("dataNackedBySlave") /\ UNCHANGED device
    /\ UNCHANGED <<sta, dat>>

ReceiveByte ==
    /\ ~ si /\ stat \in {"readAckedBySlave", "dataAvailableAckSent"}
    /\ Raise(IF ack THEN "dataAvailableAckSent" ELSE "dataAvailableNackSent")
    /\ dat' = device.mem[device.addr][device.reg]
    /\ device' = [device EXCEPT !.reg = NextRegister(@)]
    /\ UNCHANGED sta

Disturbed ==
    /\ ~ si /\ stat # "idle"
    /\ \E s \in {"arbitrationLost", "busError"} : Raise(s)
    /\ UNCHANGED <<sta, dat, device>>

Hardware == BusStart \/ Address \/ Transmit \/ ReceiveByte

Transfer(t) ==
    \/ TakeMutex(t) \/ MutexTimeOut(t) \/ Drain(t) \/ i2cKickOffTransfer(t)
    \/ Complete(t) \/ TimeOut(t) \/ Done(t)

Next ==
    \/ StartKernel
    \/ \E t \in Threads : Transfer(t) \/ \E r \in Requests : Call(t, r)
    \/ handleInterrupt \/ Hardware \/ Disturbed

Spec == Init /\ [][Next]_vars

\* Interrupts are served, threads run, and devices answer.
FairSpec == /\ Spec /\ WF_vars(handleInterrupt) /\ WF_vars(Hardware)
            /\ \A t \in Threads : WF_vars(Complete(t))
                  /\ WF_vars(TakeMutex(t) \/ MutexTimeOut(t) \/ Drain(t) \/ i2cKickOffTransfer(t) \/ Done(t))

-----------------------------------------------------------------------------
(***************************************************************************)
(* Properties.                                                             *)
(***************************************************************************)
\* The bytes call of t asked for are those it has, or those the device has.
Moved(t) ==
    LET r == thread[t].req
        At(i) == ((r.reg + i - 2) % Registers) + 1
    IN  /\ r.device \in Present
        /\ \A i \in 1 .. r.size : device.mem[r.device][At(i)] = thread[t].buf[i]

Succeeded(t) == thread[t].at = "done" /\ thread[t].status

\* A transfer that was started while no earlier one was under way and that
\* returns true has moved the bytes it was asked to, whatever signals earlier
\* transfers that timed out have left, unless a bus error ended it.
CleanTransferExact ==
    \A t \in Threads :
        Succeeded(t) /\ thread[t].clean /\ mTransaction.error # "busError" => Moved(t)

\* transfer() returns even if it waited without its time-out, unless the
\* interrupt never ends.
TransferReturns ==
    \A t \in Threads :
        (thread[t].at # "idle") ~> (thread[t].at = "idle" \/ stat = "arbitrationLost")

(***************************************************************************)
(* What the repository says and the code does not keep.                    *)
(***************************************************************************)
\* i2c_base.hpp:183: "true if the transfer was successful", for a transfer that
\* nothing is left over from before.  A bus error ends it and counts as none.
CleanSuccessIsReal == \A t \in Threads : Succeeded(t) /\ thread[t].clean => Moved(t)

\* The same for every transfer that no bus error ends.  A time-out counts as the
\* end of a polled one, and a late signal as that of the next.
SuccessIsReal ==
    \A t \in Threads : Succeeded(t) /\ mTransaction.error # "busError" => Moved(t)

\* i2c_base.cpp:347: "we still need to end our transaction" when the arbitration
\* is lost.  The interrupt comes again for ever, and the caller does not get on.
TransferEnds == \A t \in Threads : (thread[t].at # "idle") ~> (thread[t].at = "idle")
=============================================================================
