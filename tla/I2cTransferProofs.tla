--------------------------- MODULE I2cTransferProofs -------------------------
(***************************************************************************)
(* For any threads, devices and requests: a transfer that began on a bus   *)
(* that was free, that no bus error ended and that returns true has moved  *)
(* the bytes it was asked to.  The invariant follows such a transfer       *)
(* through the state machine of the interrupt: for every status of the     *)
(* bus, how far the bytes are.                                             *)
(***************************************************************************)
EXTENDS I2cTransfer, TLAPS

Errors == {"none", "arbitrationLost"} \cup NackStates

Shapes ==
    /\ DOMAIN thread = Threads
    /\ \A t \in Threads :
          /\ DOMAIN thread[t] = {"at", "calls", "req", "clean", "status", "buf"}
          /\ DOMAIN thread[t].buf = Bytes
          /\ thread[t].clean \in BOOLEAN
          /\ thread[t].at # "idle" => thread[t].req \in Requests
    /\ DOMAIN mTransaction = {"req", "trxSize", "error", "owner", "call", "pos"}
    /\ mTransaction.error \in Errors
    /\ DOMAIN device = {"addr", "reg", "named", "mem"} /\ DOMAIN device.mem = Devices
    /\ \A d \in Devices : DOMAIN device.mem[d] = Bytes
    /\ mTransferCompleteSignal \in BOOLEAN /\ sta \in BOOLEAN /\ si \in BOOLEAN

\* The bus is in the hands of one thread: of Main before the kernel runs, then
\* of the one that has the mutex.
Using == {"drain", "start", "wait", "done"}
OneUser ==
    /\ thread[Main].at # "mutex" /\ (running => thread[Main].at = "idle")
    /\ ~ running => \A t \in Tasks : thread[t].at = "idle"
    /\ \A t \in Threads : thread[t].at \in Using => mI2CMutex = t \/ (t = Main /\ ~ running)

\* The interrupt is pending only in a status that it has to serve, always in some.
Served == {"arbitrationLost", "dataAvailableNackSent"} \cup NackStates
Pending ==
    /\ si => stat # "idle"
    /\ stat \in Served => si

\* The register that byte i of a request is in.
At(r, i) == ((r.reg + i - 2) % Registers) + 1

\* The first n bytes of the transfer of t are where they should be.
Copied(t, n) ==
    \A i \in 1 .. n :
        device.mem[thread[t].req.device][At(thread[t].req, i)] = thread[t].buf[i]

Fresh(t) == /\ mTransaction.error = "none" /\ mTransaction.pos = 1
            /\ mTransaction.trxSize = thread[t].req.size

Addressed(t) == /\ device.addr = thread[t].req.device /\ thread[t].req.device \in Present
                /\ mTransaction.error = "none"

\* Byte pos is the next, and device.reg its register.
Reached(t, pos) == /\ device.reg = At(thread[t].req, pos)
                 /\ Copied(t, pos - 1)
Left(t, n) == mTransaction.trxSize = thread[t].req.size - n

AtIdle(t) ==
    IF sta THEN Fresh(t) /\ ~ mTransferCompleteSignal
    ELSE mTransferCompleteSignal /\ (mTransaction.error # "none" \/ Moved(t))

AtStart(t) == Fresh(t) /\ (~ si => dat = AddressByte(thread[t].req.device, FALSE))

AtAddressed(t) ==
    /\ Fresh(t) /\ Addressed(t) /\ ~ device.named
    /\ ~ si => dat = RegisterByte(thread[t].req.reg) /\ ~ sta /\ thread[t].req.size # 0

AtAcked(t) ==
    /\ Addressed(t) /\ device.named /\ thread[t].req.size # 0
    /\ IF thread[t].req.read THEN Fresh(t) /\ device.reg = thread[t].req.reg /\ (~ si => sta)
       ELSE /\ ~ sta
            /\ \E n \in 0 .. thread[t].req.size :
                  /\ mTransaction.pos = n + 1 /\ Left(t, n)
                  /\ IF si THEN Reached(t, n + 1)
                     ELSE n > 0 /\ Reached(t, n) /\ dat = thread[t].buf[n]

AtRead(t) == /\ Fresh(t) /\ Addressed(t) /\ device.reg = thread[t].req.reg
             /\ thread[t].req.read /\ thread[t].req.size # 0
AtRepeat(t) ==
    /\ Fresh(t) /\ thread[t].req.device \in Present /\ device.reg = thread[t].req.reg
    /\ thread[t].req.read /\ thread[t].req.size # 0
    /\ ~ si => dat = AddressByte(thread[t].req.device, TRUE)
AtReadAcked(t) == AtRead(t) /\ (~ si => (ack <=> thread[t].req.size > 1))

AtData(t) ==
    /\ Addressed(t) /\ thread[t].req.read
    /\ \E n \in 0 .. thread[t].req.size - 1 :
          /\ mTransaction.pos = n + 1 /\ Left(t, n) /\ Copied(t, n)
          /\ IF si THEN /\ dat = device.mem[thread[t].req.device][At(thread[t].req, n + 1)]
                        /\ device.reg = At(thread[t].req, n + 2)
                        /\ stat = "dataAvailableAckSent" <=> mTransaction.trxSize # 1
             ELSE device.reg = At(thread[t].req, n + 1) /\ (ack <=> mTransaction.trxSize # 1)

Owned(t) == /\ mTransaction.owner = t /\ mTransaction.call = thread[t].calls
            /\ mTransaction.req = thread[t].req

\* A transfer that waits, by the status of the bus.
Going(t) ==
    /\ Owned(t)
    /\ stat # "idle" => stat = "arbitrationLost" \/ ~ mTransferCompleteSignal
    /\ stat = "idle" => AtIdle(t)
    /\ stat = "start" => AtStart(t)
    /\ stat = "slaveAddressAcked" => AtAddressed(t)
    /\ stat = "dataAckedBySlave" => AtAcked(t)
    /\ stat = "repeatStart" => AtRepeat(t)
    /\ stat = "readAckedBySlave" => AtReadAcked(t)
    /\ stat \in {"dataAvailableAckSent", "dataAvailableNackSent"} => AtData(t)

CleanInv(t) ==
    thread[t].clean =>
       /\ thread[t].at = "start" => BusIdle /\ ~ mTransferCompleteSignal
       /\ thread[t].at = "wait" => Going(t)
       /\ thread[t].at = "done" =>
             /\ BusIdle
             /\ thread[t].status /\ mTransaction.error # "busError" => Moved(t)

IInv == Shapes /\ OneUser /\ Pending /\ \A t \in Threads : CleanInv(t)

-----------------------------------------------------------------------------
(***************************************************************************)
(* The registers of a device.                                              *)
(***************************************************************************)
LEMMA AtIs ==
    ASSUME NEW r \in Requests, NEW i \in Nat, 1 <= i, i <= Registers + 1
    PROVE  /\ At(r, i) = (IF r.reg + i - 1 <= Registers THEN r.reg + i - 1 ELSE r.reg + i - 1 - Registers)
           /\ r.reg \in 1 .. Registers /\ Registers \in Nat
  <1>1. r.reg \in 1 .. Registers /\ Registers \in Nat
    BY RequestAssumption
  <1>2. PICK x : x = r.reg + i - 2 OBVIOUS
  <1>3. x \in Nat /\ x < 2 * Registers BY <1>1, <1>2
  <1>4. x % Registers = (IF x < Registers THEN x ELSE x - Registers)
    BY <1>1, <1>3, SMTT(30)
  <1>5. At(r, i) = (x % Registers) + 1 BY <1>2 DEF At
  <1> QED BY <1>1, <1>2, <1>3, <1>4, <1>5

\* The bytes of a request are in different registers, each after the one before.
LEMMA AtNext ==
    ASSUME NEW r \in Requests, NEW i \in 1 .. Registers
    PROVE  /\ At(r, i) \in Bytes /\ At(r, 1) = r.reg
           /\ NextRegister(At(r, i)) = At(r, i + 1)
           /\ \A j \in 1 .. Registers : At(r, j) = At(r, i) => j = i
  <1>0. Registers \in Nat /\ r.reg \in 1 .. Registers BY RequestAssumption
  <1>1. At(r, i) = (IF r.reg + i - 1 <= Registers THEN r.reg + i - 1 ELSE r.reg + i - 1 - Registers)
    BY <1>0, AtIs
  <1>2. At(r, 1) = r.reg
    <2>1. 1 \in Nat /\ 1 <= Registers + 1 BY <1>0
    <2>2. At(r, 1) = (IF r.reg + 1 - 1 <= Registers THEN r.reg + 1 - 1 ELSE r.reg + 1 - 1 - Registers)
      BY <2>1, AtIs
    <2> QED BY <1>0, <2>2
  <1>3. At(r, i) \in 1 .. Registers BY <1>0, <1>1
  <1>4. NextRegister(At(r, i)) = (IF At(r, i) = Registers THEN 1 ELSE At(r, i) + 1)
    <2>1. PICK x : x = At(r, i) OBVIOUS
    <2>2. x \in 1 .. Registers BY <1>3, <2>1
    <2>3. x % Registers = (IF x = Registers THEN 0 ELSE x) BY <1>0, <2>2, SMTT(30)
    <2> QED BY <2>1, <2>2, <2>3 DEF NextRegister
  <1>5. At(r, i + 1) = (IF r.reg + i <= Registers THEN r.reg + i ELSE r.reg + i - Registers)
    <2>1. PICK k : k = i + 1 OBVIOUS
    <2>2. k \in Nat /\ 1 <= k /\ k <= Registers + 1 BY <1>0, <2>1
    <2>3. At(r, k) = (IF r.reg + k - 1 <= Registers THEN r.reg + k - 1 ELSE r.reg + k - 1 - Registers)
      BY <2>2, AtIs
    <2> QED BY <1>0, <2>1, <2>3
  <1>6. NextRegister(At(r, i)) = At(r, i + 1) BY <1>0, <1>1, <1>4, <1>5
  <1>7. ASSUME NEW j \in 1 .. Registers, At(r, j) = At(r, i) PROVE j = i
    <2>1. At(r, j) = (IF r.reg + j - 1 <= Registers THEN r.reg + j - 1 ELSE r.reg + j - 1 - Registers)
      BY <1>0, AtIs
    <2> QED BY <1>0, <1>1, <1>7, <2>1
  <1> QED BY <1>2, <1>3, <1>6, <1>7 DEF Bytes

\* One byte less to transfer, without a wrap.
LEMMA OneLess ==
    ASSUME NEW n \in 1 .. Wrap - 1 PROVE (n + Wrap - 1) % Wrap = n - 1
  <1>1. Wrap \in Nat BY RequestAssumption
  <1> QED BY <1>1, SMTT(30)

LEMMA RequestIs ==
    ASSUME NEW r \in Requests
    PROVE  /\ r.device \in Devices /\ r.read \in BOOLEAN /\ r.reg \in 1 .. Registers
           /\ r.size \in Nat /\ r.size <= Registers /\ r.size <= Wrap - 1
           /\ Registers \in Nat /\ Wrap \in Nat
  <1>1. r.size \in 0 .. Registers /\ r.size < Wrap /\ Registers \in Nat /\ Wrap \in Nat
        /\ r.device \in Devices /\ r.read \in BOOLEAN /\ r.reg \in 1 .. Registers
    BY RequestAssumption
  <1> QED BY <1>1

LEMMA MovedIs ==
    ASSUME NEW t \in Threads
    PROVE  Moved(t) <=> thread[t].req.device \in Present /\ Copied(t, thread[t].req.size)
  BY DEF Moved, Copied, At

LEMMA CopiedSame ==
    ASSUME NEW t \in Threads, NEW n, thread'[t].req = thread[t].req, thread'[t].buf = thread[t].buf,
           device'.mem = device.mem
    PROVE  Copied(t, n)' <=> Copied(t, n)
  BY DEF Copied, At

-----------------------------------------------------------------------------
(***************************************************************************)
(* The steps of the threads.                                               *)
(***************************************************************************)
Fields == {"at", "calls", "req", "clean", "status", "buf"}

LEMMA ThreadIs ==
    ASSUME Shapes, NEW u \in Threads
    PROVE  /\ DOMAIN thread = Threads /\ DOMAIN thread[u] = Fields /\ DOMAIN thread[u].buf = Bytes
           /\ thread[u].clean \in BOOLEAN /\ (thread[u].at # "idle" => thread[u].req \in Requests)
  BY DEF Shapes, Fields

\* A step of u that leaves the request and the buffer.
LEMMA ThreadMoves ==
    ASSUME Shapes, NEW u \in Threads, NEW to, thread' = [thread EXCEPT ![u].at = to]
    PROVE  /\ DOMAIN thread' = Threads
           /\ \A t \in Threads \ {u} : thread'[t] = thread[t]
           /\ DOMAIN thread'[u] = Fields /\ thread'[u].at = to
           /\ thread'[u].calls = thread[u].calls /\ thread'[u].req = thread[u].req
           /\ thread'[u].clean = thread[u].clean /\ thread'[u].status = thread[u].status
           /\ thread'[u].buf = thread[u].buf
  <1>1. DOMAIN thread = Threads /\ DOMAIN thread[u] = Fields BY ThreadIs
  <1>2. thread'[u] = [thread[u] EXCEPT !.at = to] BY <1>1
  <1>3. "at" \in Fields /\ "calls" \in Fields /\ "req" \in Fields /\ "clean" \in Fields
        /\ "status" \in Fields /\ "buf" \in Fields
    BY DEF Fields
  <1> QED BY <1>1, <1>2, <1>3

LEMMA ThreadSet ==
    ASSUME Shapes, NEW u \in Threads, NEW rec, thread' = [thread EXCEPT ![u] = rec]
    PROVE  /\ DOMAIN thread' = Threads /\ thread'[u] = rec
           /\ \A t \in Threads \ {u} : thread'[t] = thread[t]
  BY DEF Shapes

\* The shapes after a step of u that leaves the bus.
LEMMA ShapesAfter ==
    ASSUME Shapes, NEW u \in Threads, DOMAIN thread' = Threads,
           \A t \in Threads \ {u} : thread'[t] = thread[t],
           DOMAIN thread'[u] = Fields, DOMAIN thread'[u].buf = Bytes, thread'[u].clean \in BOOLEAN,
           thread'[u].at # "idle" => thread'[u].req \in Requests,
           mTransferCompleteSignal' \in BOOLEAN, sta' \in BOOLEAN, si' = si,
           DOMAIN mTransaction' = DOMAIN mTransaction, mTransaction'.error \in Errors,
           device' = device
    PROVE  Shapes'
  <1>1. ASSUME NEW t \in Threads
        PROVE  /\ DOMAIN thread'[t] = Fields /\ DOMAIN thread'[t].buf = Bytes
               /\ thread'[t].clean \in BOOLEAN
               /\ thread'[t].at # "idle" => thread'[t].req \in Requests
    <2>1. CASE t = u BY <2>1
    <2>2. CASE t # u
      <3>1. thread'[t] = thread[t] BY <2>2
      <3> QED BY <3>1, ThreadIs
    <2> QED BY <2>1, <2>2
  <1> QED BY <1>1 DEF Shapes, Fields, Bytes

LEMMA OneUserKept ==
    ASSUME OneUser, UNCHANGED <<running, mI2CMutex>>,
           \A t \in Threads : /\ thread'[t].at \in Using => thread[t].at \in Using
                              /\ thread[t].at = "idle" => thread'[t].at = "idle"
                              /\ thread'[t].at = "mutex" => thread[t].at = "mutex"
    PROVE  OneUser'
  BY DEF OneUser, Threads

LEMMA UserAlone ==
    ASSUME OneUser, NEW u \in Threads, thread[u].at \in Using, NEW t \in Threads, t # u
    PROVE  thread[t].at \notin Using
  BY ThreadAssumption DEF OneUser, Threads, Using

\* Nothing that the invariant of t looks at has changed.
LEMMA CleanSame ==
    ASSUME NEW t \in Threads, CleanInv(t), thread'[t] = thread[t],
           UNCHANGED <<mTransferCompleteSignal, mTransaction, bus>>
    PROVE  CleanInv(t)'
  <1>1. \A n : Copied(t, n)' <=> Copied(t, n) BY DEF Copied, At, bus
  <1>2. Moved(t)' <=> Moved(t) BY DEF Moved, bus
  <1>3. UNCHANGED <<mTransferCompleteSignal, mTransaction, sta, si, stat, dat, ack, device>>
        /\ thread'[t] = thread[t]
    BY DEF bus
  <1>4. (Fresh(t)' <=> Fresh(t)) /\ (Addressed(t)' <=> Addressed(t))
        /\ (\A n : Left(t, n)' <=> Left(t, n)) /\ (\A n : Reached(t, n)' <=> Reached(t, n))
    BY <1>1, <1>3 DEF Fresh, Addressed, Left, Reached
  <1>5. AtIdle(t)' <=> AtIdle(t) BY <1>2, <1>3, <1>4 DEF AtIdle
  <1>6. AtStart(t)' <=> AtStart(t) BY <1>3, <1>4 DEF AtStart
  <1>7. AtAddressed(t)' <=> AtAddressed(t) BY <1>3, <1>4 DEF AtAddressed
  <1>8. AtAcked(t)' <=> AtAcked(t) BY <1>3, <1>4 DEF AtAcked
  <1>9. (AtRepeat(t)' <=> AtRepeat(t)) /\ (AtReadAcked(t)' <=> AtReadAcked(t))
    BY <1>3, <1>4 DEF AtRepeat, AtReadAcked, AtRead
  <1>10. AtData(t)' <=> AtData(t) BY <1>1, <1>3, <1>4 DEF AtData
  <1>11. Going(t)' <=> Going(t)
    BY <1>3, <1>5, <1>6, <1>7, <1>8, <1>9, <1>10 DEF Going, Owned
  <1> QED BY <1>2, <1>3, <1>11 DEF CleanInv, BusIdle

LEMMA CleanVoid ==
    ASSUME NEW t \in Threads, thread'[t].at \notin {"start", "wait", "done"} \/ ~ thread'[t].clean
    PROVE  CleanInv(t)'
  BY DEF CleanInv

\* A step of u that touches only its own record and the mutex.
LEMMA OthersClean ==
    ASSUME IInv, NEW u \in Threads, \A t \in Threads \ {u} : thread'[t] = thread[t],
           UNCHANGED <<mTransferCompleteSignal, mTransaction, bus>>, CleanInv(u)'
    PROVE  \A t \in Threads : CleanInv(t)'
  BY CleanSame DEF IInv

\* A step of the thread that uses the bus.
LEMMA OthersWait ==
    ASSUME IInv, NEW u \in Threads, thread[u].at \in Using,
           \A t \in Threads \ {u} : thread'[t] = thread[t], CleanInv(u)'
    PROVE  \A t \in Threads : CleanInv(t)'
  <1> SUFFICES ASSUME NEW t \in Threads, t # u PROVE CleanInv(t)'
    OBVIOUS
  <1>1. thread'[t].at \notin Using BY UserAlone DEF IInv
  <1>2. thread'[t].at \notin {"start", "wait", "done"} BY <1>1 DEF Using
  <1> QED BY <1>2, CleanVoid

LEMMA PendingSame == Pending /\ UNCHANGED <<si, stat>> => Pending'
  BY DEF Pending, Served, NackStates

LEMMA CallInv == ASSUME IInv, NEW t \in Threads, NEW r \in Requests, Call(t, r) PROVE IInv'
  <1>0. Shapes /\ OneUser /\ Pending BY DEF IInv
  <1> DEFINE rec == [thread[t] EXCEPT !.at = IF running THEN "mutex" ELSE "start",
                     !.calls = thread[t].calls + 1, !.req = r, !.status = FALSE,
                     !.clean = BusIdle /\ ~ mTransferCompleteSignal,
                     !.buf = [i \in Bytes |-> IF r.read \/ i > r.size THEN Junk
                                              ELSE Byte(t, thread[t].calls + 1, i)]]
  <1>1. /\ thread' = [thread EXCEPT ![t] = rec]
        /\ thread[t].at = "idle" /\ UNCHANGED <<running, mI2CMutex>>
        /\ UNCHANGED <<mTransferCompleteSignal, mTransaction, bus>>
    BY DEF Call
  <1>11. running <=> t # Main
    BY DEF Call
  <1>2. /\ DOMAIN rec = Fields /\ rec.at = (IF running THEN "mutex" ELSE "start")
        /\ rec.clean = (BusIdle /\ ~ mTransferCompleteSignal) /\ rec.req = r
        /\ DOMAIN rec.buf = Bytes
    <2>1. DOMAIN thread[t] = Fields BY <1>0, ThreadIs
    <2> QED BY <2>1 DEF Fields
  <1>3. rec.clean \in BOOLEAN
    <2>1. (BusIdle /\ ~ mTransferCompleteSignal) \in BOOLEAN OBVIOUS
    <2> QED BY <1>2, <2>1, Zenon
  <1>4. rec.clean => BusIdle /\ ~ mTransferCompleteSignal BY <1>2, Zenon
  <1> HIDE DEF rec
  <1>5. DOMAIN thread' = Threads /\ thread'[t] = rec /\ \A u \in Threads \ {t} : thread'[u] = thread[u]
    BY <1>0, <1>1, ThreadSet
  <1>6. Shapes'
    <2>1. mTransferCompleteSignal' \in BOOLEAN /\ sta' \in BOOLEAN /\ si' = si /\ device' = device
          /\ mTransaction' = mTransaction /\ mTransaction.error \in Errors
      BY <1>0, <1>1 DEF bus, Shapes
    <2> QED BY <1>0, <1>2, <1>3, <1>5, <2>1, ShapesAfter
  <1>7. OneUser'
    BY <1>0, <1>1, <1>2, <1>5, <1>11, ThreadAssumption DEF OneUser, Using, Threads
  <1>8. Pending' BY <1>0, <1>1, PendingSame DEF bus
  <1>9. CleanInv(t)'
    BY <1>1, <1>2, <1>4, <1>5 DEF CleanInv, BusIdle, bus
  <1>10. \A u \in Threads : CleanInv(u)' BY <1>1, <1>5, <1>9, OthersClean
  <1> QED BY <1>6, <1>7, <1>8, <1>10 DEF IInv

LEMMA TakeMutexInv == ASSUME IInv, NEW t \in Threads, TakeMutex(t) PROVE IInv'
  <1>0. Shapes /\ OneUser /\ Pending BY DEF IInv
  <1>1. /\ thread' = [thread EXCEPT ![t].at = "drain"] /\ thread[t].at = "mutex"
        /\ mI2CMutex = None /\ mI2CMutex' = t /\ UNCHANGED running
        /\ UNCHANGED <<mTransferCompleteSignal, mTransaction, bus>>
    BY DEF TakeMutex, Step
  <1>2. /\ DOMAIN thread' = Threads
        /\ \A u \in Threads \ {t} : thread'[u] = thread[u]
        /\ DOMAIN thread'[t] = Fields /\ thread'[t].at = "drain"
        /\ thread'[t].req = thread[t].req /\ thread'[t].clean = thread[t].clean
        /\ thread'[t].buf = thread[t].buf
    BY <1>0, <1>1, ThreadMoves
  <1>3. Shapes'
    <2>1. mTransferCompleteSignal' \in BOOLEAN /\ sta' \in BOOLEAN /\ si' = si /\ device' = device
          /\ mTransaction' = mTransaction /\ mTransaction.error \in Errors
      BY <1>0, <1>1 DEF bus, Shapes
    <2>2. thread[t].req \in Requests /\ DOMAIN thread[t].buf = Bytes /\ thread[t].clean \in BOOLEAN
      BY <1>0, <1>1, ThreadIs
    <2>3. DOMAIN thread'[t].buf = Bytes /\ thread'[t].clean \in BOOLEAN /\ thread'[t].req \in Requests
      BY <1>2, <2>2, Zenon
    <2> QED BY <1>0, <1>2, <2>1, <2>3, ShapesAfter
  <1>4. OneUser'
    <2>1. t # Main /\ running BY <1>0, <1>1 DEF OneUser, Threads
    <2>2. \A u \in Threads \ {t} : thread'[u].at \notin Using
      BY <1>0, <1>1, <1>2, <2>1, ThreadAssumption DEF OneUser, Threads, Using
    <2> QED BY <1>0, <1>1, <1>2, <2>1, <2>2 DEF OneUser, Threads
  <1>5. Pending' BY <1>0, <1>1, PendingSame DEF bus
  <1>6. CleanInv(t)' BY <1>2, CleanVoid
  <1>7. \A u \in Threads : CleanInv(u)' BY <1>1, <1>2, <1>6, OthersClean
  <1> QED BY <1>3, <1>4, <1>5, <1>7 DEF IInv

\* The call is over.
LEMMA LeaveInv == ASSUME IInv, NEW t \in Threads, MutexTimeOut(t) \/ Done(t) PROVE IInv'
  <1>0. Shapes /\ OneUser /\ Pending BY DEF IInv
  <1>1. /\ thread' = [thread EXCEPT ![t] = Idle(thread[t].calls)] /\ UNCHANGED running
        /\ mI2CMutex' = (IF mI2CMutex = t THEN None ELSE mI2CMutex) \/ UNCHANGED mI2CMutex
        /\ UNCHANGED <<mTransferCompleteSignal, mTransaction, bus>>
    BY DEF MutexTimeOut, Done
  <1>2. DOMAIN thread' = Threads /\ thread'[t] = Idle(thread[t].calls)
        /\ \A u \in Threads \ {t} : thread'[u] = thread[u]
    BY <1>0, <1>1, ThreadSet
  <1>3. /\ DOMAIN thread'[t] = Fields /\ thread'[t].at = "idle" /\ thread'[t].clean = FALSE
        /\ DOMAIN thread'[t].buf = Bytes
    BY <1>2 DEF Idle, Fields
  <1>4. Shapes'
    <2>1. mTransferCompleteSignal' \in BOOLEAN /\ sta' \in BOOLEAN /\ si' = si /\ device' = device
          /\ mTransaction' = mTransaction /\ mTransaction.error \in Errors
      BY <1>0, <1>1 DEF bus, Shapes
    <2> QED BY <1>0, <1>2, <1>3, <2>1, ShapesAfter
  <1>5. OneUser'
    BY <1>0, <1>1, <1>2, <1>3, ThreadAssumption DEF OneUser, Threads, Using
  <1>6. Pending' BY <1>0, <1>1, PendingSame DEF bus
  <1>7. CleanInv(t)' BY <1>3, CleanVoid
  <1>8. \A u \in Threads : CleanInv(u)' BY <1>1, <1>2, <1>7, OthersClean
  <1> QED BY <1>4, <1>5, <1>6, <1>8 DEF IInv

LEMMA DrainInv == ASSUME IInv, NEW t \in Threads, Drain(t) PROVE IInv'
  <1>0. Shapes /\ OneUser /\ Pending BY DEF IInv
  <1>1. /\ thread' = [thread EXCEPT ![t].at = "start", ![t].clean = BusIdle] /\ thread[t].at = "drain"
        /\ mTransferCompleteSignal' = FALSE /\ UNCHANGED <<running, mI2CMutex, mTransaction, bus>>
    BY DEF Drain
  <1> DEFINE rec == [thread[t] EXCEPT !.at = "start", !.clean = BusIdle]
  <1>2. thread' = [thread EXCEPT ![t] = rec]
    <2>1. DOMAIN thread = Threads BY <1>0, ThreadIs
    <2> QED BY <1>1, <2>1
  <1>3. DOMAIN thread[t] = Fields /\ DOMAIN thread[t].buf = Bytes /\ thread[t].req \in Requests
    BY <1>0, <1>1, ThreadIs
  <1>4. /\ DOMAIN rec = Fields /\ rec.at = "start" /\ rec.clean = BusIdle /\ rec.req = thread[t].req
        /\ rec.buf = thread[t].buf
    BY <1>3 DEF Fields
  <1>5. rec.clean \in BOOLEAN
    <2>1. BusIdle \in BOOLEAN BY DEF BusIdle
    <2> QED BY <1>4, <2>1, Zenon
  <1>6. rec.clean => BusIdle BY <1>4, Zenon
  <1> HIDE DEF rec
  <1>7. DOMAIN thread' = Threads /\ thread'[t] = rec /\ \A u \in Threads \ {t} : thread'[u] = thread[u]
    BY <1>0, <1>2, ThreadSet
  <1>8. Shapes'
    <2>1. mTransferCompleteSignal' \in BOOLEAN /\ sta' \in BOOLEAN /\ si' = si /\ device' = device
          /\ mTransaction' = mTransaction /\ mTransaction.error \in Errors
      BY <1>0, <1>1 DEF bus, Shapes
    <2> QED BY <1>0, <1>3, <1>4, <1>5, <1>7, <2>1, ShapesAfter
  <1>9. OneUser'
    <2>1. \A u \in Threads : /\ thread'[u].at \in Using => thread[u].at \in Using
                             /\ thread[u].at = "idle" => thread'[u].at = "idle"
                             /\ thread'[u].at = "mutex" => thread[u].at = "mutex"
      BY <1>1, <1>4, <1>7 DEF Using
    <2> QED BY <1>0, <1>1, <2>1, OneUserKept
  <1>10. Pending' BY <1>0, <1>1, PendingSame DEF bus
  <1>11. CleanInv(t)' BY <1>1, <1>4, <1>6, <1>7 DEF CleanInv, BusIdle, bus
  <1>12. \A u \in Threads : CleanInv(u)'
    <2>1. thread[t].at \in Using BY <1>1 DEF Using
    <2> QED BY <1>7, <1>11, <2>1, OthersWait
  <1> QED BY <1>8, <1>9, <1>10, <1>12 DEF IInv

LEMMA KickOffInv == ASSUME IInv, NEW t \in Threads, i2cKickOffTransfer(t) PROVE IInv'
  <1>0. Shapes /\ OneUser /\ Pending BY DEF IInv
  <1>1. /\ thread' = [thread EXCEPT ![t].at = "wait"] /\ thread[t].at = "start" /\ ~ si
        /\ mTransaction' = [req |-> thread[t].req, trxSize |-> thread[t].req.size,
                            error |-> "none", owner |-> t, call |-> thread[t].calls, pos |-> 1]
        /\ sta' = TRUE
        /\ UNCHANGED <<running, mI2CMutex, mTransferCompleteSignal, si, stat, dat, ack, device>>
    BY DEF i2cKickOffTransfer, Step
  <1>2. /\ DOMAIN thread' = Threads
        /\ \A u \in Threads \ {t} : thread'[u] = thread[u]
        /\ DOMAIN thread'[t] = Fields /\ thread'[t].at = "wait"
        /\ thread'[t].calls = thread[t].calls
        /\ thread'[t].req = thread[t].req /\ thread'[t].clean = thread[t].clean
        /\ thread'[t].buf = thread[t].buf
    BY <1>0, <1>1, ThreadMoves
  <1>3. Shapes'
    <2>1. mTransferCompleteSignal' \in BOOLEAN /\ sta' \in BOOLEAN /\ si' = si /\ device' = device
          /\ DOMAIN mTransaction' = DOMAIN mTransaction /\ mTransaction'.error \in Errors
      BY <1>0, <1>1 DEF Shapes, Errors
    <2>2. thread[t].req \in Requests /\ DOMAIN thread[t].buf = Bytes /\ thread[t].clean \in BOOLEAN
      BY <1>0, <1>1, ThreadIs
    <2>3. DOMAIN thread'[t].buf = Bytes /\ thread'[t].clean \in BOOLEAN /\ thread'[t].req \in Requests
      BY <1>2, <2>2, Zenon
    <2> QED BY <1>0, <1>2, <2>1, <2>3, ShapesAfter
  <1>4. OneUser'
    <2>1. \A u \in Threads : /\ thread'[u].at \in Using => thread[u].at \in Using
                             /\ thread[u].at = "idle" => thread'[u].at = "idle"
                             /\ thread'[u].at = "mutex" => thread[u].at = "mutex"
      BY <1>1, <1>2 DEF Using
    <2> QED BY <1>0, <1>1, <2>1, OneUserKept
  <1>5. Pending' BY <1>0, <1>1, PendingSame
  <1>6. CleanInv(t)'
    <2>1. SUFFICES ASSUME thread'[t].clean PROVE Going(t)' BY <1>2 DEF CleanInv
    <2>2. thread[t].clean BY <1>2, <2>1, Zenon
    <2>3. BusIdle /\ ~ mTransferCompleteSignal BY <1>1, <2>2 DEF IInv, CleanInv
    <2>4. Fresh(t)' BY <1>1, <1>2 DEF Fresh
    <2>5. AtIdle(t)' BY <1>1, <2>3, <2>4 DEF AtIdle
    <2>6. stat' = "idle" BY <1>1, <2>3 DEF BusIdle
    <2>7. mTransaction'.owner = t /\ mTransaction'.call = thread'[t].calls /\ mTransaction'.req = thread'[t].req
      BY <1>1, <1>2
    <2> QED BY <2>5, <2>6, <2>7 DEF Going, Owned
  <1>7. \A u \in Threads : CleanInv(u)'
    <2>1. thread[t].at \in Using BY <1>1 DEF Using
    <2> QED BY <1>2, <1>6, <2>1, OthersWait
  <1> QED BY <1>3, <1>4, <1>5, <1>7 DEF IInv

LEMMA CompleteInv == ASSUME IInv, NEW t \in Threads, Complete(t) PROVE IInv'
  <1>0. Shapes /\ OneUser /\ Pending BY DEF IInv
  <1>1. /\ thread' = [thread EXCEPT ![t].at = "done", ![t].status = NoError]
        /\ thread[t].at = "wait" /\ ~ si /\ mTransferCompleteSignal
        /\ mTransferCompleteSignal' = FALSE /\ UNCHANGED <<running, mI2CMutex, mTransaction, bus>>
    BY DEF Complete
  <1> DEFINE rec == [thread[t] EXCEPT !.at = "done", !.status = NoError]
  <1>2. thread' = [thread EXCEPT ![t] = rec]
    <2>1. DOMAIN thread = Threads BY <1>0, ThreadIs
    <2> QED BY <1>1, <2>1
  <1>3. DOMAIN thread[t] = Fields /\ DOMAIN thread[t].buf = Bytes /\ thread[t].req \in Requests
        /\ thread[t].clean \in BOOLEAN
    BY <1>0, <1>1, ThreadIs
  <1>4. /\ DOMAIN rec = Fields /\ rec.at = "done" /\ rec.req = thread[t].req
        /\ rec.buf = thread[t].buf /\ rec.status = NoError
    BY <1>3 DEF Fields
  <1>5. rec.clean = thread[t].clean
    <2>1. "clean" \in DOMAIN thread[t] /\ "clean" # "at" /\ "clean" # "status" BY <1>3 DEF Fields
    <2> QED BY <2>1
  <1>6. rec.status /\ mTransaction.error # "busError" => mTransaction.error = "none"
    BY <1>4 DEF NoError
  <1> HIDE DEF rec
  <1>7. DOMAIN thread' = Threads /\ thread'[t] = rec /\ \A u \in Threads \ {t} : thread'[u] = thread[u]
    BY <1>0, <1>2, ThreadSet
  <1>8. Shapes'
    <2>1. mTransferCompleteSignal' \in BOOLEAN /\ sta' \in BOOLEAN /\ si' = si /\ device' = device
          /\ mTransaction' = mTransaction /\ mTransaction.error \in Errors
      BY <1>0, <1>1 DEF bus, Shapes
    <2>2. rec.clean \in BOOLEAN BY <1>3, <1>5, Zenon
    <2> QED BY <1>0, <1>3, <1>4, <1>7, <2>1, <2>2, ShapesAfter
  <1>9. OneUser'
    <2>1. \A u \in Threads : /\ thread'[u].at \in Using => thread[u].at \in Using
                             /\ thread[u].at = "idle" => thread'[u].at = "idle"
                             /\ thread'[u].at = "mutex" => thread[u].at = "mutex"
      BY <1>1, <1>4, <1>7 DEF Using
    <2> QED BY <1>0, <1>1, <2>1, OneUserKept
  <1>10. Pending' BY <1>0, <1>1, PendingSame DEF bus
  <1>11. CleanInv(t)'
    <2>1. SUFFICES ASSUME thread[t].clean 
                   PROVE  BusIdle' /\ (thread'[t].status /\ mTransaction.error # "busError"
                                      => Moved(t)')
      BY <1>1, <1>4, <1>5, <1>7, Zenon DEF CleanInv
    <2>2. Going(t) BY <1>1, <2>1 DEF IInv, CleanInv
    <2>3. stat # "arbitrationLost" BY <1>0, <1>1 DEF Pending, Served
    <2>4. stat = "idle" BY <1>1, <2>2, <2>3 DEF Going
    <2>5. AtIdle(t) BY <2>2, <2>4 DEF Going
    <2>6. ~ sta /\ (mTransaction.error # "none" \/ Moved(t)) BY <1>1, <2>5 DEF AtIdle
    <2>7. BusIdle' BY <1>1, <2>4, <2>6 DEF BusIdle, bus
    <2>8. Moved(t) => Moved(t)' BY <1>1, <1>4, <1>7 DEF Moved, bus
    <2> QED BY <1>6, <1>7, <2>6, <2>7, <2>8
  <1>12. \A u \in Threads : CleanInv(u)'
    <2>1. thread[t].at \in Using BY <1>1 DEF Using
    <2> QED BY <1>7, <1>11, <2>1, OthersWait
  <1> QED BY <1>8, <1>9, <1>10, <1>12 DEF IInv

LEMMA TimeOutInv == ASSUME IInv, NEW t \in Threads, TimeOut(t) PROVE IInv'
  <1>0. Shapes /\ OneUser /\ Pending BY DEF IInv
  <1> DEFINE rec == [thread[t] EXCEPT !.at = "done", !.status = t = Main /\ NoError,
                     !.clean = FALSE]
  <1>1. /\ thread' = [thread EXCEPT ![t] = rec] /\ thread[t].at = "wait"
        /\ UNCHANGED <<running, mI2CMutex, mTransferCompleteSignal, mTransaction, bus>>
    BY DEF TimeOut
  <1>2. DOMAIN thread[t] = Fields /\ DOMAIN thread[t].buf = Bytes /\ thread[t].req \in Requests
    BY <1>0, <1>1, ThreadIs
  <1>3. /\ DOMAIN rec = Fields /\ rec.at = "done" /\ rec.req = thread[t].req
        /\ rec.buf = thread[t].buf /\ rec.clean = FALSE
    BY <1>2 DEF Fields
  <1> HIDE DEF rec
  <1>4. DOMAIN thread' = Threads /\ thread'[t] = rec /\ \A u \in Threads \ {t} : thread'[u] = thread[u]
    BY <1>0, <1>1, ThreadSet
  <1>5. Shapes'
    <2>1. mTransferCompleteSignal' \in BOOLEAN /\ sta' \in BOOLEAN /\ si' = si /\ device' = device
          /\ mTransaction' = mTransaction /\ mTransaction.error \in Errors
      BY <1>0, <1>1 DEF bus, Shapes
    <2> QED BY <1>0, <1>2, <1>3, <1>4, <2>1, ShapesAfter
  <1>6. OneUser'
    <2>1. \A u \in Threads : /\ thread'[u].at \in Using => thread[u].at \in Using
                             /\ thread[u].at = "idle" => thread'[u].at = "idle"
                             /\ thread'[u].at = "mutex" => thread[u].at = "mutex"
      BY <1>1, <1>3, <1>4 DEF Using
    <2> QED BY <1>0, <1>1, <2>1, OneUserKept
  <1>7. Pending' BY <1>0, <1>1, PendingSame DEF bus
  <1>8. CleanInv(t)' BY <1>3, <1>4, CleanVoid
  <1>9. \A u \in Threads : CleanInv(u)' BY <1>1, <1>4, <1>8, OthersClean
  <1> QED BY <1>5, <1>6, <1>7, <1>9 DEF IInv

LEMMA StartKernelInv == IInv /\ StartKernel => IInv'
  <1> SUFFICES ASSUME IInv, StartKernel PROVE IInv'
    OBVIOUS
  <1>0. Shapes /\ OneUser /\ Pending BY DEF IInv
  <1>1. /\ ~ running /\ thread[Main].at = "idle" /\ running' = TRUE
        /\ UNCHANGED <<thread, mI2CMutex, mTransferCompleteSignal, mTransaction, bus>>
    BY DEF StartKernel
  <1>2. OneUser' BY <1>0, <1>1 DEF OneUser, Threads, Using
  <1>3. Shapes' BY <1>0, <1>1 DEF Shapes, bus, Bytes
  <1>4. Pending' BY <1>0, <1>1, PendingSame DEF bus
  <1>5. \A t \in Threads : CleanInv(t)' BY <1>1, CleanSame DEF IInv
  <1> QED BY <1>2, <1>3, <1>4, <1>5 DEF IInv

-----------------------------------------------------------------------------
(***************************************************************************)
(* The steps of the bus: the interrupt, the controller, the devices.       *)
(***************************************************************************)
\* While the bus is in use a transfer that began on a free bus waits.
LEMMA CleanWaits ==
    ASSUME NEW t \in Threads, CleanInv(t), thread[t].clean, thread[t].at \in {"start", "wait", "done"},
           ~ BusIdle
    PROVE  thread[t].at = "wait" /\ Going(t)
  BY DEF CleanInv

\* The calls go on as they are; bytes may come into a buffer.
SameCalls ==
    /\ DOMAIN thread' = Threads
    /\ \A u \in Threads :
          /\ thread'[u].at = thread[u].at /\ thread'[u].clean = thread[u].clean
          /\ thread'[u].req = thread[u].req /\ thread'[u].calls = thread[u].calls
          /\ DOMAIN thread'[u] = Fields /\ DOMAIN thread'[u].buf = Bytes
    /\ UNCHANGED <<running, mI2CMutex>>

Signals ==
    /\ DOMAIN mTransaction' = DOMAIN mTransaction /\ mTransaction'.error \in Errors
    /\ mTransferCompleteSignal' \in BOOLEAN /\ sta' \in BOOLEAN /\ si' \in BOOLEAN

DeviceKept ==
    /\ DOMAIN device' = DOMAIN device /\ DOMAIN device'.mem = Devices
    /\ \A d \in Devices : DOMAIN device'.mem[d] = Bytes

LEMMA SameSoftware == ASSUME Shapes, UNCHANGED software PROVE SameCalls
  <1>1. thread' = thread /\ UNCHANGED <<running, mI2CMutex>> BY DEF software
  <1>2. ASSUME NEW u \in Threads PROVE DOMAIN thread = Threads /\ DOMAIN thread[u] = Fields /\ DOMAIN thread[u].buf = Bytes
    BY ThreadIs
  <1>3. DOMAIN thread = Threads BY DEF Shapes
  <1> QED BY <1>1, <1>2, <1>3 DEF SameCalls

LEMMA SameDevice == ASSUME Shapes, UNCHANGED device PROVE DeviceKept
  BY DEF DeviceKept, Shapes

\* A step of the bus keeps the invariant when it keeps what is said of a
\* transfer that waits.
LEMMA BusKeeps ==
    ASSUME IInv, ~ BusIdle, SameCalls, Signals, DeviceKept, Pending',
           \A t \in Threads : thread[t].at = "wait" /\ thread[t].req \in Requests /\ Going(t) => Going(t)'
    PROVE  IInv'
  <1>1. Shapes'
    <2>1. ASSUME NEW u \in Threads
          PROVE  /\ DOMAIN thread'[u] = Fields /\ DOMAIN thread'[u].buf = Bytes
                 /\ thread'[u].clean \in BOOLEAN
                 /\ thread'[u].at # "idle" => thread'[u].req \in Requests
      BY ThreadIs DEF IInv, SameCalls
    <2>2. DOMAIN mTransaction = {"req", "trxSize", "error", "owner", "call", "pos"}
          /\ DOMAIN device = {"addr", "reg", "named", "mem"}
      BY DEF IInv, Shapes
    <2> QED BY <2>1, <2>2 DEF Shapes, SameCalls, Signals, DeviceKept, Fields, Bytes
  <1>2. OneUser'
    <2>1. OneUser /\ UNCHANGED <<running, mI2CMutex>> /\ \A t \in Threads : thread'[t].at = thread[t].at
      BY DEF IInv, SameCalls
    <2> QED BY <2>1, OneUserKept
  <1>3. ASSUME NEW t \in Threads PROVE CleanInv(t)'
    <2>1. CASE thread[t].at \notin {"start", "wait", "done"} \/ ~ thread[t].clean
      BY <2>1, CleanVoid DEF SameCalls
    <2>2. CASE thread[t].at \in {"start", "wait", "done"} /\ thread[t].clean
      <3>1. thread[t].at = "wait" /\ Going(t) BY <2>2, CleanWaits DEF IInv
      <3>2. thread[t].req \in Requests BY <3>1, ThreadIs DEF IInv
      <3>3. Going(t)' BY <3>1, <3>2
      <3>4. thread'[t].at = "wait" BY <3>1 DEF SameCalls
      <3> QED BY <3>3, <3>4 DEF CleanInv
    <2> QED BY <2>1, <2>2
  <1> QED BY <1>1, <1>2, <1>3 DEF IInv

\* The transfer ends: it failed, or its bytes are moved.
LEMMA StopGoing ==
    ASSUME NEW t \in Threads, Owned(t)', SetStop, mTransaction'.error # "none" \/ Moved(t)'
    PROVE  Going(t)'
  BY DEF SetStop, Going, AtIdle

LEMMA StopShapes ==
    ASSUME Shapes, SetStop, DOMAIN mTransaction' = DOMAIN mTransaction, mTransaction'.error \in Errors
    PROVE  Signals /\ Pending'
  BY DEF Signals, SetStop, Pending, Served, NackStates

\* The interrupt is served and the transfer goes on.
LEMMA ServedShapes ==
    ASSUME Shapes, ClearSI, Busy, stat \notin Served, DOMAIN mTransaction' = DOMAIN mTransaction,
           mTransaction'.error \in Errors, sta' \in BOOLEAN
    PROVE  Signals /\ Pending'
  BY DEF Signals, ClearSI, Busy, Pending, Shapes

LEMMA RaisedShapes ==
    ASSUME Shapes, NEW s, Raise(s), s # "idle", sta' \in BOOLEAN
    PROVE  Signals /\ Pending' /\ SameCalls
  <1>1. si' = TRUE /\ stat' = s /\ UNCHANGED <<software, mTransferCompleteSignal, mTransaction, ack>>
    BY DEF Raise
  <1>2. SameCalls BY <1>1, SameSoftware
  <1>3. Signals BY <1>1 DEF Signals, Shapes
  <1> QED BY <1>1, <1>2, <1>3 DEF Pending

LEMMA SendAddressInv == IInv /\ SendAddress => IInv'
  <1> SUFFICES ASSUME IInv, SendAddress PROVE IInv'
    OBVIOUS
  <1>0. Shapes /\ Pending BY DEF IInv
  <1>1. /\ si /\ stat \in {"start", "repeatStart"} /\ UNCHANGED <<software, device>>
        /\ dat' = AddressByte(mTransaction.req.device, stat = "repeatStart")
        /\ ClearSI /\ Busy /\ UNCHANGED <<mTransaction, sta, ack>>
    <2>1. CASE stat = "start" BY <2>1 DEF SendAddress, Interrupt, AddressByte
    <2>2. CASE stat = "repeatStart" BY <2>2 DEF SendAddress, Interrupt, AddressByte
    <2> QED BY <2>1, <2>2 DEF SendAddress, Interrupt
  <1>2. ~ BusIdle BY <1>1 DEF BusIdle
  <1>3. SameCalls /\ DeviceKept BY <1>0, <1>1, SameSoftware, SameDevice
  <1>4. Signals /\ Pending'
    <2>1. stat \notin Served BY <1>1 DEF Served, NackStates
    <2>2. mTransaction'.error \in Errors /\ sta' \in BOOLEAN BY <1>0, <1>1 DEF Shapes
    <2> QED BY <1>0, <1>1, <2>1, <2>2, ServedShapes
  <1>5. ASSUME NEW t \in Threads, thread[t].req \in Requests, Going(t) PROVE Going(t)'
    <2>1. Owned(t) /\ Owned(t)' BY <1>1, <1>5 DEF Going, Owned, software
    <2>2. thread' = thread /\ stat' = stat /\ si' = FALSE /\ ~ mTransferCompleteSignal'
      BY <1>1, <1>5 DEF Going, software, ClearSI, Busy
    <2>3. Fresh(t) <=> Fresh(t)' BY <1>1, <2>2 DEF Fresh
    <2>4. CASE stat = "start"
      <3>1. Fresh(t) BY <1>5, <2>4 DEF Going, AtStart
      <3>2. dat' = AddressByte(thread'[t].req.device, FALSE) BY <1>1, <2>1, <2>2, <2>4 DEF Owned, AddressByte
      <3> QED BY <2>1, <2>2, <2>3, <2>4, <3>1, <3>2 DEF Going, AtStart
    <2>5. CASE stat = "repeatStart"
      <3>1. AtRepeat(t) BY <1>5, <2>5 DEF Going
      <3>2. dat' = AddressByte(thread'[t].req.device, TRUE) BY <1>1, <2>1, <2>2, <2>5 DEF Owned, AddressByte
      <3>3. AtRepeat(t)' BY <1>1, <2>2, <2>3, <3>1, <3>2 DEF AtRepeat
      <3> QED BY <2>1, <2>2, <2>5, <3>3 DEF Going
    <2> QED BY <1>1, <2>4, <2>5
  <1> QED BY <1>2, <1>3, <1>4, <1>5, BusKeeps

LEMMA SlaveAddressAckedInv == IInv /\ SlaveAddressAcked => IInv'
  <1> SUFFICES ASSUME IInv, SlaveAddressAcked PROVE IInv'
    OBVIOUS
  <1>0. Shapes /\ Pending BY DEF IInv
  <1>1. /\ si /\ stat = "slaveAddressAcked" /\ UNCHANGED <<software, device, mTransaction>>
    BY DEF SlaveAddressAcked, Interrupt
  <1>2. ~ BusIdle BY <1>1 DEF BusIdle
  <1>3. SameCalls /\ DeviceKept BY <1>0, <1>1, SameSoftware, SameDevice
  <1>4. mTransaction'.error \in Errors /\ DOMAIN mTransaction' = DOMAIN mTransaction
    BY <1>0, <1>1 DEF Shapes
  <1>5. CASE mTransaction.trxSize = 0
    <2>1. SetStop BY <1>5 DEF SlaveAddressAcked
    <2>2. Signals /\ Pending' BY <1>0, <1>4, <2>1, StopShapes
    <2>3. ASSUME NEW t \in Threads, thread[t].req \in Requests, Going(t) PROVE Going(t)'
      <3>1. Owned(t)' BY <1>1, <2>3 DEF Going, Owned, software
      <3>2. AtAddressed(t) BY <1>1, <2>3 DEF Going
      <3>3. thread[t].req.size = 0 /\ thread[t].req.device \in Present
        BY <1>5, <3>2 DEF AtAddressed, Fresh, Addressed
      <3>4. Moved(t)
        <4>1. Copied(t, 0) BY DEF Copied
        <4> QED BY <3>3, <4>1, MovedIs
      <3>5. Moved(t)' BY <1>1, <3>4 DEF Moved, software
      <3> QED BY <2>1, <3>1, <3>5, StopGoing
    <2> QED BY <1>2, <1>3, <2>2, <2>3, BusKeeps
  <1>6. CASE mTransaction.trxSize # 0
    <2>1. dat' = RegisterByte(mTransaction.req.reg) /\ sta' = FALSE /\ ClearSI /\ Busy
      BY <1>6 DEF SlaveAddressAcked
    <2>2. Signals /\ Pending'
      <3>1. stat \notin Served BY <1>1 DEF Served, NackStates
      <3> QED BY <1>0, <1>4, <2>1, <3>1, ServedShapes
    <2>3. ASSUME NEW t \in Threads, thread[t].req \in Requests, Going(t) PROVE Going(t)'
      <3>1. Owned(t) /\ Owned(t)' BY <1>1, <2>3 DEF Going, Owned, software
      <3>2. AtAddressed(t) BY <1>1, <2>3 DEF Going
      <3>3. thread' = thread /\ stat' = stat /\ si' = FALSE /\ ~ mTransferCompleteSignal'
        BY <1>1, <2>1, <2>3 DEF Going, software, ClearSI, Busy
      <3>4. AtAddressed(t)'
        BY <1>1, <1>6, <2>1, <3>1, <3>2, <3>3 DEF AtAddressed, Fresh, Addressed, Owned
      <3> QED BY <1>1, <3>1, <3>3, <3>4 DEF Going
    <2> QED BY <1>2, <1>3, <2>2, <2>3, BusKeeps
  <1> QED BY <1>5, <1>6

\* Bytes that are moved stay where they are.
LEMMA MovedKept ==
    ASSUME NEW t \in Threads, NEW n, Copied(t, n), n = thread[t].req.size, thread[t].req.device \in Present,
           UNCHANGED <<software, device>>
    PROVE  Moved(t)'
  <1>1. Moved(t) BY MovedIs
  <1> QED BY <1>1 DEF Moved, software

LEMMA DataAckedInv == IInv /\ DataAckedBySlave => IInv'
  <1> SUFFICES ASSUME IInv, DataAckedBySlave PROVE IInv'
    OBVIOUS
  <1>0. Shapes /\ Pending BY DEF IInv
  <1>1. /\ si /\ stat = "dataAckedBySlave" /\ UNCHANGED <<software, device>>
    BY DEF DataAckedBySlave, Interrupt
  <1>2. ~ BusIdle BY <1>1 DEF BusIdle
  <1>3. SameCalls /\ DeviceKept BY <1>0, <1>1, SameSoftware, SameDevice
  <1>4. stat \notin Served BY <1>1 DEF Served, NackStates
  <1>5. ASSUME NEW t \in Threads, Going(t)
        PROVE  AtAcked(t) /\ Owned(t) /\ thread' = thread /\ ~ mTransferCompleteSignal
    BY <1>1, <1>5 DEF Going, software
  <1>6. CASE mTransaction.req.read
    <2>1. sta' = TRUE /\ ClearSI /\ Busy /\ UNCHANGED <<mTransaction, dat, ack>>
      BY <1>6 DEF DataAckedBySlave
    <2>2. Signals /\ Pending' BY <1>0, <1>4, <2>1, ServedShapes DEF Shapes
    <2>3. ASSUME NEW t \in Threads, thread[t].req \in Requests, Going(t) PROVE Going(t)'
      <3>1. AtAcked(t) /\ Owned(t) /\ thread' = thread /\ ~ mTransferCompleteSignal BY <1>5, <2>3
      <3>2. thread[t].req.read BY <1>6, <3>1 DEF Owned
      <3>3. AtAcked(t)' BY <1>1, <2>1, <3>1, <3>2 DEF AtAcked, Fresh, Addressed
      <3>4. Owned(t)' BY <2>1, <3>1 DEF Owned
      <3> QED BY <1>1, <2>1, <3>1, <3>3, <3>4 DEF Going, ClearSI, Busy
    <2> QED BY <1>2, <1>3, <2>2, <2>3, BusKeeps
  <1>7. CASE ~ mTransaction.req.read /\ mTransaction.trxSize = 0
    <2>1. SetStop /\ UNCHANGED mTransaction BY <1>7 DEF DataAckedBySlave
    <2>2. Signals /\ Pending' BY <1>0, <2>1, StopShapes DEF Shapes
    <2>3. ASSUME NEW t \in Threads, thread[t].req \in Requests, Going(t) PROVE Going(t)'
      <3>1. AtAcked(t) /\ Owned(t) /\ thread' = thread BY <1>5, <2>3
      <3>2. ~ thread[t].req.read BY <1>7, <3>1 DEF Owned
      <3>3. PICK n \in 0 .. thread[t].req.size : Left(t, n) /\ Reached(t, n + 1)
        BY <1>1, <3>1, <3>2 DEF AtAcked
      <3>4. n = thread[t].req.size BY <1>7, <2>3, <3>3, RequestIs DEF Left
      <3>5. Copied(t, n)
        <4>1. (n + 1) - 1 = n BY <3>3
        <4> QED BY <3>3, <4>1 DEF Reached
      <3>6. thread[t].req.device \in Present BY <3>1 DEF AtAcked, Addressed
      <3>7. Moved(t)' BY <1>1, <3>4, <3>5, <3>6, MovedKept
      <3>8. Owned(t)' BY <2>1, <3>1 DEF Owned
      <3> QED BY <2>1, <3>7, <3>8, StopGoing
    <2> QED BY <1>2, <1>3, <2>2, <2>3, BusKeeps
  <1>8. CASE ~ mTransaction.req.read /\ mTransaction.trxSize # 0
    <2>1. /\ dat' = MasterByte /\ Advance(mTransaction.trxSize - 1)
          /\ ClearSI /\ Busy /\ UNCHANGED <<sta, ack>>
      BY <1>8 DEF DataAckedBySlave
    <2>2. /\ DOMAIN mTransaction' = DOMAIN mTransaction /\ mTransaction'.error = mTransaction.error
          /\ mTransaction'.pos = mTransaction.pos + 1 /\ mTransaction'.trxSize = mTransaction.trxSize - 1
          /\ mTransaction'.owner = mTransaction.owner /\ mTransaction'.call = mTransaction.call
          /\ mTransaction'.req = mTransaction.req
      BY <1>0, <2>1 DEF Advance, Shapes
    <2>3. Signals /\ Pending'
      <3>1. mTransaction'.error \in Errors /\ sta' \in BOOLEAN BY <1>0, <2>1, <2>2 DEF Shapes
      <3> QED BY <1>0, <1>4, <2>1, <2>2, <3>1, ServedShapes
    <2>4. ASSUME NEW t \in Threads, thread[t].at = "wait", thread[t].req \in Requests, Going(t) PROVE Going(t)'
      <3>1. AtAcked(t) /\ Owned(t) /\ thread' = thread /\ ~ mTransferCompleteSignal BY <1>5, <2>4
      <3>2. ~ thread[t].req.read BY <1>8, <3>1 DEF Owned
      <3>3. ~ sta /\ \E n \in 0 .. thread[t].req.size :
                        mTransaction.pos = n + 1 /\ Left(t, n) /\ Reached(t, n + 1)
        BY <1>1, <3>1, <3>2 DEF AtAcked
      <3>4. PICK n \in 0 .. thread[t].req.size : mTransaction.pos = n + 1 /\ Left(t, n) /\ Reached(t, n + 1)
        BY <3>3
      <3>5. n \in Nat /\ n + 1 <= thread[t].req.size /\ thread[t].req.size <= Registers /\ thread[t].req.size \in Nat
        BY <1>8, <2>4, <3>4, RequestIs DEF Left
      <3>6. PICK m : m = n + 1 OBVIOUS
      <3>7. m \in 0 .. thread[t].req.size /\ m > 0 /\ m \in Bytes BY <2>4, <3>5, <3>6, RequestIs DEF Bytes
      <3>8. dat' = thread[t].buf[m] BY <2>1, <2>4, <3>1, <3>4, <3>6, <3>7 DEF MasterByte, Current, Owned
      <3>9. Reached(t, m)'
        <4>1. Reached(t, m) BY <3>4, <3>6
        <4>2. device' = device BY <1>1
        <4> QED BY <3>1, <4>1, <4>2 DEF Reached, Copied, At
      <3>10. mTransaction'.pos = m + 1 /\ Left(t, m)'
        BY <2>2, <3>1, <3>4, <3>5, <3>6 DEF Left
      <3>11. AtAcked(t)'
        <4>1. Addressed(t)' /\ device'.named /\ thread'[t].req.size # 0 /\ ~ thread'[t].req.read /\ ~ sta' /\ ~ si'
          BY <1>1, <2>1, <2>2, <3>1, <3>2, <3>3 DEF AtAcked, Addressed, ClearSI
        <4>2. m \in 0 .. thread'[t].req.size /\ dat' = thread'[t].buf[m] BY <3>1, <3>7, <3>8
        <4> QED BY <3>7, <3>9, <3>10, <4>1, <4>2 DEF AtAcked
      <3>12. Owned(t)' BY <2>2, <3>1 DEF Owned
      <3> QED BY <1>1, <2>1, <3>1, <3>11, <3>12 DEF Going, ClearSI, Busy
    <2> QED BY <1>2, <1>3, <2>3, <2>4, BusKeeps
  <1> QED BY <1>6, <1>7, <1>8

LEMMA ReadAckedInv == IInv /\ ReadAckedBySlave => IInv'
  <1> SUFFICES ASSUME IInv, ReadAckedBySlave PROVE IInv'
    OBVIOUS
  <1>0. Shapes /\ Pending BY DEF IInv
  <1>1. /\ si /\ stat = "readAckedBySlave" /\ UNCHANGED <<software, device>>
        /\ sta' = FALSE /\ (ack' <=> mTransaction.trxSize > 1)
        /\ ClearSI /\ Busy /\ UNCHANGED <<mTransaction, dat>>
    BY DEF ReadAckedBySlave, Interrupt
  <1>2. ~ BusIdle BY <1>1 DEF BusIdle
  <1>3. SameCalls /\ DeviceKept BY <1>0, <1>1, SameSoftware, SameDevice
  <1>4. Signals /\ Pending'
    <2>1. stat \notin Served BY <1>1 DEF Served, NackStates
    <2>2. mTransaction'.error \in Errors /\ sta' \in BOOLEAN BY <1>0, <1>1 DEF Shapes
    <2> QED BY <1>0, <1>1, <2>1, <2>2, ServedShapes
  <1>5. ASSUME NEW t \in Threads, Going(t) PROVE Going(t)'
    <2>1. AtReadAcked(t) /\ Owned(t) /\ ~ mTransferCompleteSignal' /\ thread' = thread
      BY <1>1, <1>5 DEF Going, Busy, software
    <2>2. AtRead(t)' BY <1>1, <2>1 DEF AtReadAcked, AtRead, Fresh, Addressed
    <2>3. ack' <=> thread'[t].req.size > 1 BY <1>1, <2>1 DEF AtReadAcked, AtRead, Fresh
    <2>4. Owned(t)' BY <1>1, <2>1 DEF Owned
    <2> QED BY <1>1, <2>1, <2>2, <2>3, <2>4 DEF Going, AtReadAcked, ClearSI
  <1> QED BY <1>2, <1>3, <1>4, <1>5, BusKeeps

\* What a byte that is received does to the buffers.
LEMMA StoreAfter ==
    ASSUME Shapes, Store
    PROVE  /\ SameCalls
           /\ \A t \in Threads :
                 thread[t].at = "wait" /\ Owned(t) /\ mTransaction.pos \in Bytes
                 => thread'[t].buf = [thread[t].buf EXCEPT ![mTransaction.pos] = dat]
  <1> DEFINE o == mTransaction.owner
             p == mTransaction.pos
  <1>1. UNCHANGED <<running, mI2CMutex>> /\ DOMAIN thread = Threads BY DEF Store, Shapes
  <1>2. CASE Current /\ p \in Bytes /\ o \in Threads
    <2>1. thread' = [thread EXCEPT ![o].buf[p] = dat] BY <1>2 DEF Store
    <2>2. DOMAIN thread[o] = Fields /\ DOMAIN thread[o].buf = Bytes BY <1>2, ThreadIs
    <2>3. \A u \in Threads \ {o} : thread'[u] = thread[u] BY <1>1, <2>1
    <2>4. thread'[o] = [thread[o] EXCEPT !.buf = [thread[o].buf EXCEPT ![p] = dat]]
          /\ DOMAIN thread' = Threads
      BY <1>1, <1>2, <2>1
    <2>5. /\ thread'[o].at = thread[o].at /\ thread'[o].clean = thread[o].clean
          /\ thread'[o].req = thread[o].req /\ thread'[o].calls = thread[o].calls
          /\ DOMAIN thread'[o] = Fields /\ thread'[o].buf = [thread[o].buf EXCEPT ![p] = dat]
      BY <2>2, <2>4 DEF Fields
    <2>6. DOMAIN thread'[o].buf = Bytes BY <2>2, <2>5
    <2>7. SameCalls
      <3>1. ASSUME NEW u \in Threads
            PROVE  /\ thread'[u].at = thread[u].at /\ thread'[u].clean = thread[u].clean
                   /\ thread'[u].req = thread[u].req /\ thread'[u].calls = thread[u].calls
                   /\ DOMAIN thread'[u] = Fields /\ DOMAIN thread'[u].buf = Bytes
        <4>1. CASE u = o BY <2>5, <2>6, <4>1
        <4>2. CASE u # o
          <5>1. thread'[u] = thread[u] BY <2>3, <4>2
          <5> QED BY <5>1, ThreadIs
        <4> QED BY <4>1, <4>2
      <3> QED BY <1>1, <2>4, <3>1 DEF SameCalls
    <2> QED BY <2>5, <2>7 DEF Owned
  <1>3. CASE ~ (Current /\ p \in Bytes /\ o \in Threads)
    <2>1. DOMAIN thread' = Threads /\ \A u \in Threads : thread'[u] = thread[u]
      <3>1. CASE ~ (Current /\ p \in Bytes) BY <1>1, <3>1 DEF Store
      <3>2. CASE o \notin Threads /\ Current /\ p \in Bytes
        <4>1. thread' = [thread EXCEPT ![o].buf[p] = dat] BY <3>2 DEF Store
        <4> QED BY <1>1, <3>2, <4>1
      <3> QED BY <1>3, <3>1, <3>2
    <2>2. SameCalls
      <3>1. \A u \in Threads : DOMAIN thread[u] = Fields /\ DOMAIN thread[u].buf = Bytes
        BY DEF Shapes, Fields
      <3> QED BY <1>1, <2>1, <3>1 DEF SameCalls
    <2>3. ASSUME NEW t \in Threads, thread[t].at = "wait", Owned(t), p \in Bytes PROVE FALSE
      BY <1>3, <2>3, SMTT(40) DEF Owned, Current
    <2> QED BY <2>2, <2>3
  <1> QED BY <1>2, <1>3

\* A byte is received and its register is the next.
LEMMA ReceivedNext ==
    ASSUME Shapes, NEW t \in Threads, NEW n \in Nat, n + 1 <= thread[t].req.size, thread[t].req \in Requests,
           thread[t].at = "wait", Owned(t), mTransaction.pos = n + 1, Copied(t, n), Store, device' = device,
           dat = device.mem[thread[t].req.device][At(thread[t].req, n + 1)]
    PROVE  Copied(t, n + 1)' /\ thread'[t].req = thread[t].req
  <1>1. n + 1 \in Bytes BY RequestIs DEF Bytes
  <1>2. thread'[t].buf = [thread[t].buf EXCEPT ![n + 1] = dat] /\ thread'[t].req = thread[t].req
    BY <1>1, StoreAfter DEF SameCalls
  <1>3. DOMAIN thread[t].buf = Bytes BY ThreadIs
  <1>4. ASSUME NEW i \in 1 .. n + 1
        PROVE  device.mem[thread[t].req.device][At(thread[t].req, i)] = thread'[t].buf[i]
    <2>1. CASE i = n + 1 BY <1>1, <1>2, <1>3, <2>1
    <2>2. CASE i # n + 1
      <3>1. i \in 1 .. n /\ i \in Bytes BY <1>1, <2>2, RequestAssumption DEF Bytes
      <3>2. device.mem[thread[t].req.device][At(thread[t].req, i)] = thread[t].buf[i] BY <3>1 DEF Copied
      <3> QED BY <1>2, <1>3, <2>2, <3>1, <3>2
    <2> QED BY <2>1, <2>2
  <1> QED BY <1>2, <1>4 DEF Copied, At

LEMMA DataAvailableInv == IInv /\ DataAvailable => IInv'
  <1> SUFFICES ASSUME IInv, DataAvailable PROVE IInv'
    OBVIOUS
  <1> DEFINE left == (mTransaction.trxSize + Wrap - 1) % Wrap
  <1>0. Shapes /\ Pending BY DEF IInv
  <1>1. si /\ stat \in {"dataAvailableAckSent", "dataAvailableNackSent"} /\ Store /\ device' = device
    BY DEF DataAvailable, Store
  <1>2. ~ BusIdle BY <1>1 DEF BusIdle
  <1>3. SameCalls /\ DeviceKept BY <1>0, <1>1, StoreAfter, SameDevice
  <1>4. ASSUME NEW t \in Threads, thread[t].at = "wait", thread[t].req \in Requests, Going(t)
        PROVE  /\ Addressed(t) /\ thread[t].req.read /\ Owned(t) /\ ~ mTransferCompleteSignal
               /\ \E n \in 0 .. thread[t].req.size - 1 :
                    /\ mTransaction.pos = n + 1 /\ Left(t, n) /\ Copied(t, n)
                    /\ Copied(t, n + 1)' /\ device.reg = At(thread[t].req, n + 2)
                    /\ stat = "dataAvailableAckSent" <=> mTransaction.trxSize # 1
    <2>1. AtData(t) /\ Owned(t) /\ ~ mTransferCompleteSignal BY <1>1, <1>4 DEF Going
    <2>2. PICK n \in 0 .. thread[t].req.size - 1 :
                    /\ mTransaction.pos = n + 1 /\ Left(t, n) /\ Copied(t, n)
                    /\ dat = device.mem[thread[t].req.device][At(thread[t].req, n + 1)]
                    /\ device.reg = At(thread[t].req, n + 2)
                    /\ stat = "dataAvailableAckSent" <=> mTransaction.trxSize # 1
      BY <1>1, <2>1 DEF AtData
    <2>3. n \in Nat /\ n + 1 <= thread[t].req.size BY <1>4, <2>2, RequestIs
    <2>4. Copied(t, n + 1)' BY <1>0, <1>1, <1>4, <2>1, <2>2, <2>3, ReceivedNext
    <2> QED BY <2>1, <2>2, <2>4 DEF AtData
  <1>5. CASE stat = "dataAvailableAckSent"
    <2>1. Advance(left) /\ (ack' <=> left # 1) /\ ClearSI /\ Busy /\ UNCHANGED <<sta, dat>>
      BY <1>5 DEF DataAvailable
    <2> HIDE DEF left
    <2>2. /\ DOMAIN mTransaction' = DOMAIN mTransaction /\ mTransaction'.error = mTransaction.error
          /\ mTransaction'.pos = mTransaction.pos + 1 /\ mTransaction'.trxSize = left
          /\ mTransaction'.owner = mTransaction.owner /\ mTransaction'.call = mTransaction.call
          /\ mTransaction'.req = mTransaction.req
      BY <1>0, <2>1 DEF Advance, Shapes
    <2>3. Signals /\ Pending'
      <3>1. mTransaction'.error \in Errors /\ sta' \in BOOLEAN BY <1>0, <2>1, <2>2 DEF Shapes
      <3>2. stat \notin Served BY <1>5 DEF Served, NackStates
      <3> QED BY <1>0, <2>1, <2>2, <3>1, <3>2, ServedShapes
    <2>4. ASSUME NEW t \in Threads, thread[t].at = "wait", thread[t].req \in Requests, Going(t) PROVE Going(t)'
      <3>1. Addressed(t) /\ thread[t].req.read /\ Owned(t) /\ ~ mTransferCompleteSignal
        BY <1>4, <2>4
      <3>2. PICK n \in 0 .. thread[t].req.size - 1 :
                /\ mTransaction.pos = n + 1 /\ Left(t, n) /\ Copied(t, n + 1)'
                /\ device.reg = At(thread[t].req, n + 2) /\ mTransaction.trxSize # 1
        BY <1>4, <1>5, <2>4
      <3>3. thread[t].req.size \in Nat /\ thread[t].req.size <= Wrap - 1 /\ n \in Nat
            /\ mTransaction.trxSize = thread[t].req.size - n
        BY <2>4, <3>2, RequestIs DEF Left
      <3>4. mTransaction.trxSize \in 1 .. Wrap - 1 BY <3>2, <3>3, RequestAssumption
      <3>5. left = thread[t].req.size - (n + 1)
        <4>1. left = mTransaction.trxSize - 1 BY <3>4, OneLess DEF left
        <4> QED BY <3>3, <4>1
      <3>6. PICK m : m = n + 1 OBVIOUS
      <3>7. m \in 0 .. thread[t].req.size - 1 /\ n + 2 = m + 1 BY <3>2, <3>3, <3>6
      <3>8. thread'[t].req = thread[t].req /\ thread'[t].calls = thread[t].calls BY <1>3 DEF SameCalls
      <3>9. mTransaction'.pos = m + 1 /\ Left(t, m)' /\ Copied(t, m)'
        BY <2>2, <3>2, <3>5, <3>6, <3>8 DEF Left
      <3>10. device'.reg = At(thread'[t].req, m + 1) BY <1>1, <3>2, <3>7, <3>8
      <3>11. ~ si' /\ (ack' <=> mTransaction'.trxSize # 1) BY <2>1, <2>2 DEF ClearSI
      <3>12. Addressed(t)' BY <1>1, <2>2, <3>1, <3>8 DEF Addressed
      <3>13. AtData(t)' BY <3>1, <3>7, <3>8, <3>9, <3>10, <3>11, <3>12 DEF AtData
      <3>14. Owned(t)' BY <2>2, <3>1, <3>8 DEF Owned
      <3> QED BY <1>5, <2>1, <3>1, <3>13, <3>14 DEF Going, ClearSI, Busy
    <2> QED BY <1>2, <1>3, <2>3, <2>4, BusKeeps
  <1>6. CASE stat = "dataAvailableNackSent"
    <2>1. SetStop /\ UNCHANGED mTransaction BY <1>6 DEF DataAvailable
    <2>2. Signals /\ Pending' BY <1>0, <2>1, StopShapes DEF Shapes
    <2>3. ASSUME NEW t \in Threads, thread[t].at = "wait", thread[t].req \in Requests, Going(t) PROVE Going(t)'
      <3>1. Addressed(t) /\ Owned(t) BY <1>4, <2>3
      <3>2. PICK n \in 0 .. thread[t].req.size - 1 :
                Left(t, n) /\ Copied(t, n + 1)' /\ mTransaction.trxSize = 1
        BY <1>4, <1>6, <2>3
      <3>3. thread'[t].req = thread[t].req /\ thread'[t].calls = thread[t].calls BY <1>3 DEF SameCalls
      <3>4. n + 1 = thread'[t].req.size BY <2>3, <3>2, <3>3, RequestIs DEF Left
      <3>5. Copied(t, thread[t].req.size)' BY <3>2, <3>4
      <3>6. Moved(t)' BY <3>1, <3>3, <3>5 DEF Moved, Copied, At, Addressed
      <3>7. Owned(t)' BY <2>1, <3>1, <3>3 DEF Owned
      <3> QED BY <2>1, <3>6, <3>7, StopGoing
    <2> QED BY <1>2, <1>3, <2>2, <2>3, BusKeeps
  <1> QED BY <1>1, <1>5, <1>6

LEMMA NackedInv == IInv /\ Nacked => IInv'
  <1> SUFFICES ASSUME IInv, Nacked PROVE IInv'
    OBVIOUS
  <1>0. Shapes /\ Pending BY DEF IInv
  <1>1. /\ si /\ stat \in NackStates /\ UNCHANGED <<software, device>> /\ SetStop
        /\ mTransaction' = [mTransaction EXCEPT !.error = stat]
    BY DEF Nacked, Interrupt
  <1>2. ~ BusIdle BY <1>1 DEF BusIdle, NackStates
  <1>3. SameCalls /\ DeviceKept BY <1>0, <1>1, SameSoftware, SameDevice
  <1>4. /\ DOMAIN mTransaction' = DOMAIN mTransaction /\ mTransaction'.error = stat
        /\ mTransaction'.owner = mTransaction.owner /\ mTransaction'.call = mTransaction.call
        /\ mTransaction'.req = mTransaction.req
    BY <1>0, <1>1 DEF Shapes
  <1>e. mTransaction'.error \in Errors /\ mTransaction'.error # "none"
    BY <1>1, <1>4 DEF Errors, NackStates
  <1>5. Signals /\ Pending' BY <1>0, <1>1, <1>4, <1>e, StopShapes
  <1>6. ASSUME NEW t \in Threads, Going(t) PROVE Going(t)'
    <2>1. Owned(t)' BY <1>1, <1>4, <1>6 DEF Going, Owned, software
    <2> QED BY <1>1, <1>e, <2>1, StopGoing
  <1> QED BY <1>2, <1>3, <1>5, <1>6, BusKeeps

LEMMA ArbitrationLostInv == IInv /\ ArbitrationLost => IInv'
  <1> SUFFICES ASSUME IInv, ArbitrationLost PROVE IInv'
    OBVIOUS
  <1>0. Shapes /\ Pending BY DEF IInv
  <1>1. /\ si /\ stat = "arbitrationLost" /\ UNCHANGED <<software, device>>
        /\ mTransaction' = [mTransaction EXCEPT !.error = stat]
        /\ mTransferCompleteSignal' = TRUE /\ UNCHANGED <<sta, si, stat, dat, ack>>
    BY DEF ArbitrationLost, Interrupt
  <1>2. ~ BusIdle BY <1>1 DEF BusIdle
  <1>3. SameCalls /\ DeviceKept BY <1>0, <1>1, SameSoftware, SameDevice
  <1>4. /\ DOMAIN mTransaction' = DOMAIN mTransaction /\ mTransaction'.error = stat
        /\ mTransaction'.owner = mTransaction.owner /\ mTransaction'.call = mTransaction.call
        /\ mTransaction'.req = mTransaction.req
    BY <1>0, <1>1 DEF Shapes
  <1>5. Signals BY <1>0, <1>1, <1>4 DEF Signals, Shapes, Errors
  <1>6. Pending' BY <1>0, <1>1, PendingSame
  <1>7. ASSUME NEW t \in Threads, Going(t) PROVE Going(t)'
    <2>1. Owned(t)' BY <1>1, <1>4, <1>7 DEF Going, Owned, software
    <2> QED BY <1>1, <2>1 DEF Going
  <1> QED BY <1>2, <1>3, <1>5, <1>6, <1>7, BusKeeps

\* A status that ends the transfer, whatever it was.
LEMMA FailureGoes ==
    ASSUME NEW t \in Threads, Going(t), ~ si, Pending, stat # "idle",
           NEW s \in Served \ {"dataAvailableNackSent"}, Raise(s)
    PROVE  Going(t)'
  <1>1. stat' = s /\ UNCHANGED <<software, mTransferCompleteSignal, mTransaction>> BY DEF Raise
  <1>2. Owned(t)' BY <1>1 DEF Going, Owned, software
  <1>3. ~ mTransferCompleteSignal BY DEF Going, Pending, Served
  <1>4. s \in {"arbitrationLost", "slaveAddressNacked", "dataNackedBySlave", "readModeNackedBySlave", "busError"}
    BY DEF Served, NackStates
  <1> QED BY <1>1, <1>2, <1>3, <1>4 DEF Going

LEMMA BusStartInv == IInv /\ BusStart => IInv'
  <1> SUFFICES ASSUME IInv, BusStart PROVE IInv'
    OBVIOUS
  <1>0. Shapes /\ Pending BY DEF IInv
  <1>1. ~ si /\ stat = "idle" /\ sta /\ Raise("start") /\ UNCHANGED <<sta, dat, device>>
    BY DEF BusStart
  <1>2. ~ BusIdle BY <1>1 DEF BusIdle
  <1>3. Signals /\ Pending' /\ SameCalls BY <1>0, <1>1, RaisedShapes DEF Shapes
  <1>4. DeviceKept BY <1>0, <1>1, SameDevice
  <1>5. ASSUME NEW t \in Threads, Going(t) PROVE Going(t)'
    <2>1. si' = TRUE /\ stat' = "start" /\ UNCHANGED <<thread, mTransferCompleteSignal, mTransaction>>
      BY <1>1 DEF Raise, software
    <2>2. Owned(t) /\ Fresh(t) /\ ~ mTransferCompleteSignal BY <1>1, <1>5 DEF Going, AtIdle
    <2>3. Owned(t)' /\ AtStart(t)' BY <2>1, <2>2 DEF Owned, AtStart, Fresh
    <2> QED BY <2>1, <2>2, <2>3 DEF Going
  <1> QED BY <1>2, <1>3, <1>4, <1>5, BusKeeps

LEMMA AddressInv == IInv /\ Address => IInv'
  <1> SUFFICES ASSUME IInv, Address PROVE IInv'
    OBVIOUS
  <1>0. Shapes /\ Pending BY DEF IInv
  <1>1. ~ si /\ stat \in {"start", "repeatStart"} /\ UNCHANGED <<sta, dat>>
    BY DEF Address
  <1>2. ~ BusIdle BY <1>1 DEF BusIdle
  <1>3. sta' \in BOOLEAN BY <1>0, <1>1 DEF Shapes
  <1>4. CASE /\ dat[2] \in Present
             /\ Raise(IF dat[3] THEN "readAckedBySlave" ELSE "slaveAddressAcked")
             /\ device' = [device EXCEPT !.addr = dat[2], !.named = dat[3]]
    <2>1. PICK s : s = IF dat[3] THEN "readAckedBySlave" ELSE "slaveAddressAcked" OBVIOUS
    <2>2. Raise(s) /\ s # "idle" BY <1>4, <2>1
    <2>3. Signals /\ Pending' /\ SameCalls BY <1>0, <1>3, <2>2, RaisedShapes
    <2>4. /\ device'.addr = dat[2] /\ device'.named = dat[3] /\ device'.reg = device.reg
          /\ device'.mem = device.mem /\ DOMAIN device' = DOMAIN device
      BY <1>0, <1>4 DEF Shapes
    <2>5. DeviceKept BY <1>0, <2>4 DEF DeviceKept, Shapes
    <2>6. ASSUME NEW t \in Threads, Going(t) PROVE Going(t)'
      <3>1. /\ si' = TRUE /\ stat' = s /\ UNCHANGED <<thread, mTransferCompleteSignal, mTransaction>>
            /\ Owned(t) /\ ~ mTransferCompleteSignal
        BY <1>1, <2>2, <2>6 DEF Raise, software, Going
      <3>2. Owned(t)' BY <3>1 DEF Owned
      <3>3. CASE stat = "start"
        <4>1. Fresh(t) /\ dat = AddressByte(thread[t].req.device, FALSE) BY <1>1, <2>6, <3>3 DEF Going, AtStart
        <4>2. dat[2] = thread[t].req.device /\ dat[3] = FALSE BY <4>1 DEF AddressByte
        <4>3. s = "slaveAddressAcked" BY <2>1, <4>2
        <4>4. device'.named = FALSE BY <2>4, <4>2, Zenon
        <4>5. AtAddressed(t)' BY <1>4, <2>4, <3>1, <4>1, <4>2, <4>4 DEF AtAddressed, Fresh, Addressed
        <4> QED BY <3>1, <3>2, <4>3, <4>5 DEF Going
      <3>4. CASE stat = "repeatStart"
        <4>1. AtRepeat(t) /\ dat = AddressByte(thread[t].req.device, TRUE) BY <1>1, <2>6, <3>4 DEF Going, AtRepeat
        <4>2. dat[2] = thread[t].req.device /\ dat[3] = TRUE BY <4>1 DEF AddressByte
        <4>3. s = "readAckedBySlave" BY <2>1, <4>2
        <4>4. AtReadAcked(t)'
          BY <1>4, <2>4, <3>1, <4>1, <4>2 DEF AtRepeat, AtReadAcked, AtRead, Fresh, Addressed
        <4> QED BY <3>1, <3>2, <4>3, <4>4 DEF Going
      <3> QED BY <1>1, <3>3, <3>4
    <2> QED BY <1>2, <2>3, <2>5, <2>6, BusKeeps
  <1>5. CASE Raise(IF dat[3] THEN "readModeNackedBySlave" ELSE "slaveAddressNacked") /\ UNCHANGED device
    <2>1. PICK s : s = IF dat[3] THEN "readModeNackedBySlave" ELSE "slaveAddressNacked" OBVIOUS
    <2>2. Raise(s) /\ s # "idle" /\ s \in Served \ {"dataAvailableNackSent"}
      BY <1>5, <2>1 DEF Served, NackStates
    <2>3. Signals /\ Pending' /\ SameCalls BY <1>0, <1>3, <2>2, RaisedShapes
    <2>4. DeviceKept BY <1>0, <1>5, SameDevice
    <2>5. \A t \in Threads : Going(t) => Going(t)' BY <1>0, <1>1, <2>2, FailureGoes
    <2> QED BY <1>2, <2>3, <2>4, <2>5, BusKeeps
  <1> QED BY <1>4, <1>5 DEF Address

\* The byte that a device gets, and its register.
LEMMA Given ==
    ASSUME Shapes, NEW r, device' = IF ~ device.named
                                    THEN [device EXCEPT !.named = TRUE, !.reg = r]
                                    ELSE [device EXCEPT !.mem[device.addr][device.reg] = dat,
                                                        !.reg = NextRegister(@)]
    PROVE  /\ DeviceKept /\ device'.addr = device.addr
           /\ ~ device.named => /\ device'.named = TRUE /\ device'.reg = r /\ device'.mem = device.mem
           /\ device.named => /\ device'.named = device.named /\ device'.reg = NextRegister(device.reg)
                              /\ device'.mem = [device.mem EXCEPT ![device.addr][device.reg] = dat]
  <1>1. DOMAIN device = {"addr", "reg", "named", "mem"} /\ DOMAIN device.mem = Devices
        /\ \A d \in Devices : DOMAIN device.mem[d] = Bytes
    BY DEF Shapes
  <1>2. CASE ~ device.named BY <1>1, <1>2 DEF DeviceKept
  <1>3. CASE device.named
    <2>1. device' = [device EXCEPT !.mem[device.addr][device.reg] = dat, !.reg = NextRegister(@)]
      BY <1>3
    <2>2. /\ DOMAIN device' = DOMAIN device /\ device'.addr = device.addr /\ device'.named = device.named
          /\ device'.reg = NextRegister(device.reg)
          /\ device'.mem = [device.mem EXCEPT ![device.addr][device.reg] = dat]
      BY <1>1, <2>1
    <2>3. DOMAIN device'.mem = Devices /\ \A d \in Devices : DOMAIN device'.mem[d] = Bytes
      BY <1>1, <2>2
    <2> QED BY <1>3, <2>2, <2>3 DEF DeviceKept
  <1> QED BY <1>2, <1>3

\* A byte that is written comes into its register, the others stay.
LEMMA WrittenNext ==
    ASSUME Shapes, NEW t \in Threads, thread' = thread, thread[t].req \in Requests,
           NEW n \in Nat, n > 0, n <= thread[t].req.size, Reached(t, n), dat = thread[t].buf[n],
           device.addr = thread[t].req.device, device'.reg = NextRegister(device.reg),
           device'.mem = [device.mem EXCEPT ![device.addr][device.reg] = dat]
    PROVE  Reached(t, n + 1)'
  <1> DEFINE r == thread[t].req
             d == thread[t].req.device
             m == n - 1
  <1>1. r \in Requests /\ d \in Devices /\ n \in 1 .. Registers /\ Registers \in Nat /\ m \in Nat
    BY RequestIs
  <1>2. DOMAIN device.mem = Devices /\ DOMAIN device.mem[d] = Bytes BY <1>1 DEF Shapes
  <1>3. device.reg = At(r, n) /\ Copied(t, m) BY DEF Reached
  <1>4. At(r, n) \in Bytes /\ NextRegister(At(r, n)) = At(r, n + 1)
        /\ \A j \in 1 .. Registers : At(r, j) = At(r, n) => j = n
    BY <1>1, AtNext
  <1>5. device'.mem[d] = [device.mem[d] EXCEPT ![At(r, n)] = dat] BY <1>1, <1>2, <1>3
  <1>6. ASSUME NEW i \in 1 .. n PROVE device'.mem[d][At(r, i)] = thread[t].buf[i]
    <2>1. i \in 1 .. Registers BY <1>1
    <2>2. CASE i = n BY <1>2, <1>4, <1>5, <2>2
    <2>3. CASE i # n
      <3>1. i \in 1 .. m /\ At(r, i) # At(r, n) /\ At(r, i) \in Bytes BY <1>1, <1>4, <2>1, <2>3, AtNext
      <3>2. device.mem[d][At(r, i)] = thread[t].buf[i] BY <1>3, <3>1 DEF Copied
      <3> QED BY <1>2, <1>5, <3>1, <3>2
    <2> QED BY <2>2, <2>3
  <1>7. device'.reg = At(thread'[t].req, n + 1) BY <1>3, <1>4
  <1>8. (n + 1) - 1 = n OBVIOUS
  <1>9. Copied(t, n)' BY <1>6 DEF Copied, At
  <1> QED BY <1>7, <1>8, <1>9 DEF Reached

LEMMA TransmitInv == IInv /\ Transmit => IInv'
  <1> SUFFICES ASSUME IInv, Transmit PROVE IInv'
    OBVIOUS
  <1>0. Shapes /\ Pending BY DEF IInv
  <1>1. ~ si /\ stat \in {"slaveAddressAcked", "dataAckedBySlave"} /\ UNCHANGED <<sta, dat>>
    BY DEF Transmit
  <1>2. ~ BusIdle BY <1>1 DEF BusIdle
  <1>3. sta' \in BOOLEAN BY <1>0, <1>1 DEF Shapes
  <1>4. CASE sta /\ Raise("repeatStart") /\ UNCHANGED device
    <2>1. Signals /\ Pending' /\ SameCalls BY <1>0, <1>3, <1>4, RaisedShapes
    <2>2. DeviceKept BY <1>0, <1>4, SameDevice
    <2>3. ASSUME NEW t \in Threads, Going(t) PROVE Going(t)'
      <3>1. /\ si' = TRUE /\ stat' = "repeatStart" /\ UNCHANGED <<thread, mTransferCompleteSignal, mTransaction>>
            /\ Owned(t) /\ ~ mTransferCompleteSignal
        BY <1>1, <1>4, <2>3 DEF Raise, software, Going
      <3>2. stat = "dataAckedBySlave" /\ AtAcked(t) BY <1>1, <1>4, <2>3 DEF Going, AtAddressed
      <3>3. thread[t].req.read /\ Fresh(t) BY <1>4, <3>2 DEF AtAcked
      <3>4. AtRepeat(t)' BY <1>4, <3>1, <3>2, <3>3 DEF AtAcked, AtRepeat, Fresh, Addressed
      <3>5. Owned(t)' BY <3>1 DEF Owned
      <3> QED BY <3>1, <3>4, <3>5 DEF Going
    <2> QED BY <1>2, <2>1, <2>2, <2>3, BusKeeps
  <1>5. CASE /\ ~ sta /\ Raise("dataAckedBySlave")
             /\ \E r \in IF dat[1] = "register" THEN {dat[2]} ELSE Bytes :
                    device' = IF ~ device.named
                              THEN [device EXCEPT !.named = TRUE, !.reg = r]
                              ELSE [device EXCEPT !.mem[device.addr][device.reg] = dat,
                                                  !.reg = NextRegister(@)]
    <2>1. Signals /\ Pending' /\ SameCalls BY <1>0, <1>3, <1>5, RaisedShapes
    <2>2. PICK r : /\ dat[1] = "register" => r = dat[2]
                   /\ device' = IF ~ device.named
                                THEN [device EXCEPT !.named = TRUE, !.reg = r]
                                ELSE [device EXCEPT !.mem[device.addr][device.reg] = dat,
                                                    !.reg = NextRegister(@)]
      BY <1>5
    <2>3. /\ DeviceKept /\ device'.addr = device.addr
          /\ ~ device.named => /\ device'.named = TRUE /\ device'.reg = r /\ device'.mem = device.mem
          /\ device.named => /\ device'.named = device.named /\ device'.reg = NextRegister(device.reg)
                             /\ device'.mem = [device.mem EXCEPT ![device.addr][device.reg] = dat]
      BY <1>0, <2>2, Given
    <2>4. ASSUME NEW t \in Threads, thread[t].req \in Requests, Going(t) PROVE Going(t)'
      <3>1. /\ si' = TRUE /\ stat' = "dataAckedBySlave"
            /\ UNCHANGED <<thread, mTransferCompleteSignal, mTransaction>>
            /\ Owned(t) /\ ~ mTransferCompleteSignal /\ ~ sta'
        BY <1>1, <1>5, <2>4 DEF Raise, software, Going
      <3>2. Owned(t)' BY <3>1 DEF Owned
      <3>3. thread[t].req.size \in Nat BY <2>4, RequestIs
      <3>4. CASE stat = "slaveAddressAcked"
        <4>1. AtAddressed(t) BY <2>4, <3>4 DEF Going
        <4>2. dat[1] = "register" /\ dat[2] = thread[t].req.reg /\ thread[t].req.size # 0 /\ ~ device.named
          BY <1>1, <4>1 DEF AtAddressed, RegisterByte
        <4>3. device'.reg = thread[t].req.reg /\ device'.named = TRUE BY <2>2, <2>3, <4>2
        <4>4. Fresh(t)' /\ Addressed(t)' BY <2>3, <3>1, <4>1 DEF AtAddressed, Fresh, Addressed
        <4>5. 0 \in 0 .. thread[t].req.size /\ Left(t, 0)' /\ mTransaction'.pos = 0 + 1
          BY <3>3, <4>4, <3>1 DEF Fresh, Left
        <4>6. Reached(t, 0 + 1)'
          <5>1. At(thread[t].req, 1) = thread[t].req.reg
            <6>1. 1 \in 1 .. Registers BY <2>4, RequestAssumption
            <6> QED BY <2>4, <6>1, AtNext
          <5>2. 0 + 1 = 1 /\ 1 - 1 = 0 OBVIOUS
          <5>3. Copied(t, 0)' BY DEF Copied
          <5> QED BY <3>1, <4>3, <5>1, <5>2, <5>3 DEF Reached, At
        <4>7. AtAcked(t)'
          <5>1. CASE thread[t].req.read BY <3>1, <4>2, <4>3, <4>4, <5>1 DEF AtAcked
          <5>2. CASE ~ thread[t].req.read
            <6>1. device'.named BY <4>3
            <6> QED BY <3>1, <4>2, <4>4, <4>5, <4>6, <5>2, <6>1 DEF AtAcked
          <5> QED BY <5>1, <5>2
        <4> QED BY <3>1, <3>2, <4>7 DEF Going
      <3>5. CASE stat = "dataAckedBySlave"
        <4>1. AtAcked(t) BY <2>4, <3>5 DEF Going
        <4>2. ~ thread[t].req.read /\ device.named /\ Addressed(t) /\ thread[t].req.size # 0
          BY <1>1, <1>5, <4>1 DEF AtAcked
        <4>3. PICK n \in 0 .. thread[t].req.size :
                  /\ mTransaction.pos = n + 1 /\ Left(t, n)
                  /\ n > 0 /\ Reached(t, n) /\ dat = thread[t].buf[n]
          BY <1>1, <4>1, <4>2 DEF AtAcked
        <4>4. n \in Nat /\ n <= thread[t].req.size BY <3>3, <4>3
        <4>5. Reached(t, n + 1)'
          BY <1>0, <2>3, <2>4, <3>1, <4>2, <4>3, <4>4, WrittenNext DEF Addressed
        <4>6. Addressed(t)' /\ device'.named BY <2>3, <3>1, <4>2 DEF Addressed
        <4>7. mTransaction'.pos = n + 1 /\ Left(t, n)' BY <3>1, <4>3 DEF Left
        <4>8. AtAcked(t)' BY <3>1, <4>2, <4>3, <4>5, <4>6, <4>7 DEF AtAcked
        <4> QED BY <3>1, <3>2, <4>8 DEF Going
      <3> QED BY <1>1, <3>4, <3>5
    <2> QED BY <1>2, <2>1, <2>3, <2>4, BusKeeps
  <1>6. CASE Raise("dataNackedBySlave") /\ UNCHANGED device
    <2>1. Signals /\ Pending' /\ SameCalls BY <1>0, <1>3, <1>6, RaisedShapes
    <2>2. DeviceKept BY <1>0, <1>6, SameDevice
    <2>3. "dataNackedBySlave" \in Served \ {"dataAvailableNackSent"} BY DEF Served, NackStates
    <2>4. \A t \in Threads : Going(t) => Going(t)' BY <1>0, <1>1, <1>6, <2>3, FailureGoes
    <2> QED BY <1>2, <2>1, <2>2, <2>4, BusKeeps
  <1> QED BY <1>4, <1>5, <1>6 DEF Transmit

LEMMA ReceiveByteInv == IInv /\ ReceiveByte => IInv'
  <1> SUFFICES ASSUME IInv, ReceiveByte PROVE IInv'
    OBVIOUS
  <1>0. Shapes /\ Pending BY DEF IInv
  <1>1. /\ ~ si /\ stat \in {"readAckedBySlave", "dataAvailableAckSent"}
        /\ dat' = device.mem[device.addr][device.reg]
        /\ device' = [device EXCEPT !.reg = NextRegister(@)] /\ UNCHANGED sta
    BY DEF ReceiveByte
  <1>2. ~ BusIdle BY <1>1 DEF BusIdle
  <1>3. PICK s : s = IF ack THEN "dataAvailableAckSent" ELSE "dataAvailableNackSent" OBVIOUS
  <1>4. Raise(s) /\ s # "idle" BY <1>3 DEF ReceiveByte
  <1>5. Signals /\ Pending' /\ SameCalls BY <1>0, <1>1, <1>4, RaisedShapes DEF Shapes
  <1>6. /\ device'.addr = device.addr /\ device'.reg = NextRegister(device.reg)
        /\ device'.mem = device.mem /\ DOMAIN device' = DOMAIN device
    BY <1>0, <1>1 DEF Shapes
  <1>7. DeviceKept BY <1>0, <1>6 DEF DeviceKept, Shapes
  <1>8. ASSUME NEW t \in Threads, thread[t].req \in Requests, Going(t) PROVE Going(t)'
    <2> DEFINE r == thread[t].req
    <2>1. /\ si' = TRUE /\ stat' = s /\ UNCHANGED <<thread, mTransferCompleteSignal, mTransaction>>
          /\ Owned(t) /\ ~ mTransferCompleteSignal
      BY <1>1, <1>4, <1>8 DEF Raise, software, Going
    <2>2. Owned(t)' BY <2>1 DEF Owned
    <2>3. r.size \in Nat /\ r.size <= Registers /\ Registers \in Nat BY <1>8, RequestIs
    <2>4. /\ Addressed(t) /\ r.read
          /\ \E n \in 0 .. r.size - 1 :
                /\ mTransaction.pos = n + 1 /\ Left(t, n) /\ Copied(t, n)
                /\ device.reg = At(r, n + 1) /\ (ack <=> mTransaction.trxSize # 1)
      <3>1. CASE stat = "readAckedBySlave"
        <4>1. AtRead(t) /\ (ack <=> r.size > 1) BY <1>1, <1>8, <3>1 DEF Going, AtReadAcked
        <4>2. Fresh(t) /\ Addressed(t) /\ device.reg = r.reg /\ r.read /\ r.size # 0 BY <4>1 DEF AtRead
        <4>3. 0 \in 0 .. r.size - 1 /\ mTransaction.pos = 0 + 1 /\ Left(t, 0) /\ Copied(t, 0)
          BY <2>3, <4>2 DEF Fresh, Left, Copied
        <4>4. device.reg = At(r, 0 + 1)
          <5>1. 1 \in 1 .. Registers BY <2>3, <4>2
          <5>2. At(r, 1) = r.reg BY <1>8, <5>1, AtNext
          <5> QED BY <4>2, <5>2
        <4>5. ack <=> mTransaction.trxSize # 1 BY <2>3, <4>1, <4>2 DEF Fresh
        <4> QED BY <4>2, <4>3, <4>4, <4>5
      <3>2. CASE stat = "dataAvailableAckSent"
        <4>1. AtData(t) BY <1>8, <3>2 DEF Going
        <4> QED BY <1>1, <4>1 DEF AtData
      <3> QED BY <1>1, <3>1, <3>2
    <2>5. PICK n \in 0 .. r.size - 1 :
                /\ mTransaction.pos = n + 1 /\ Left(t, n) /\ Copied(t, n)
                /\ device.reg = At(r, n + 1) /\ (ack <=> mTransaction.trxSize # 1)
      BY <2>4
    <2>6. PICK k : k = n + 1 OBVIOUS
    <2>7. k \in 1 .. Registers /\ n + 2 = k + 1 BY <2>3, <2>5, <2>6
    <2>8. NextRegister(At(r, k)) = At(r, k + 1) BY <1>8, <2>7, AtNext
    <2>9. device'.reg = At(thread'[t].req, n + 2) BY <1>6, <2>1, <2>5, <2>6, <2>7, <2>8
    <2>10. dat' = device'.mem[thread'[t].req.device][At(thread'[t].req, n + 1)]
      BY <1>1, <1>6, <2>1, <2>4, <2>5 DEF Addressed
    <2>11. stat' = "dataAvailableAckSent" <=> mTransaction'.trxSize # 1
      BY <1>3, <2>1, <2>5
    <2>12. mTransaction'.pos = n + 1 /\ Left(t, n)' BY <2>1, <2>5 DEF Left
    <2>13. Copied(t, n)' BY <1>6, <2>1, <2>5, CopiedSame
    <2>14. Addressed(t)' /\ thread'[t].req.read BY <1>6, <2>1, <2>4 DEF Addressed
    <2>15. n \in 0 .. thread'[t].req.size - 1 BY <2>1, <2>5
    <2>16. AtData(t)' BY <2>1, <2>9, <2>10, <2>11, <2>12, <2>13, <2>14, <2>15 DEF AtData
    <2>17. stat' \in {"dataAvailableAckSent", "dataAvailableNackSent"} BY <1>3, <2>1
    <2> QED BY <2>1, <2>2, <2>16, <2>17 DEF Going
  <1> QED BY <1>2, <1>5, <1>7, <1>8, BusKeeps

LEMMA DisturbedInv == IInv /\ Disturbed => IInv'
  <1> SUFFICES ASSUME IInv, Disturbed PROVE IInv'
    OBVIOUS
  <1>0. Shapes /\ Pending BY DEF IInv
  <1>1. ~ si /\ stat # "idle" /\ UNCHANGED <<sta, dat, device>> BY DEF Disturbed
  <1>2. PICK s \in {"arbitrationLost", "busError"} : Raise(s) BY DEF Disturbed
  <1>3. ~ BusIdle BY <1>1 DEF BusIdle
  <1>4. Signals /\ Pending' /\ SameCalls
    <2>1. s # "idle" /\ sta' \in BOOLEAN BY <1>0, <1>1 DEF Shapes
    <2> QED BY <1>0, <1>2, <2>1, RaisedShapes
  <1>5. DeviceKept BY <1>0, <1>1, SameDevice
  <1>6. s \in Served \ {"dataAvailableNackSent"} BY DEF Served, NackStates
  <1>7. \A t \in Threads : Going(t) => Going(t)' BY <1>0, <1>1, <1>2, <1>6, FailureGoes
  <1> QED BY <1>3, <1>4, <1>5, <1>7, BusKeeps

LEMMA InitInv == Init => IInv
  <1> SUFFICES ASSUME Init PROVE IInv
    OBVIOUS
  <1>1. \A t \in Threads : thread[t] = Idle(0) BY DEF Init
  <1>2. Shapes BY DEF Init, Shapes, Idle, Bytes, Errors
  <1>3. OneUser BY <1>1, ThreadAssumption DEF Init, OneUser, Idle, Using, Threads
  <1>4. Pending BY DEF Init, Pending, Served, NackStates
  <1>5. \A t \in Threads : CleanInv(t) BY <1>1 DEF CleanInv, Idle
  <1> QED BY <1>2, <1>3, <1>4, <1>5 DEF IInv

LEMMA NextInv == IInv /\ [Next]_vars => IInv'
  <1> SUFFICES ASSUME IInv, [Next]_vars PROVE IInv'
    OBVIOUS
  <1>1. CASE StartKernel BY <1>1, StartKernelInv
  <1>2. ASSUME NEW t \in Threads, Transfer(t) PROVE IInv'
    BY <1>2, TakeMutexInv, LeaveInv, DrainInv, KickOffInv, CompleteInv, TimeOutInv DEF Transfer
  <1>3. ASSUME NEW t \in Threads, NEW r \in Requests, Call(t, r) PROVE IInv'
    BY <1>3, CallInv
  <1>4. CASE handleInterrupt
    BY <1>4, SendAddressInv, SlaveAddressAckedInv, DataAckedInv, ReadAckedInv, DataAvailableInv,
       NackedInv, ArbitrationLostInv DEF handleInterrupt
  <1>5. CASE Hardware
    BY <1>5, BusStartInv, AddressInv, TransmitInv, ReceiveByteInv DEF Hardware
  <1>6. CASE Disturbed BY <1>6, DisturbedInv
  <1>7. CASE UNCHANGED vars
    <2>1. /\ UNCHANGED <<thread, running, mI2CMutex, mTransferCompleteSignal, mTransaction, bus>>
          /\ UNCHANGED <<sta, si, stat, dat, ack, device>>
      BY <1>7 DEF vars, software, bus
    <2>2. Shapes' BY <2>1 DEF IInv, Shapes, Bytes
    <2>3. OneUser' BY <2>1 DEF IInv, OneUser
    <2>4. Pending' BY <2>1, PendingSame DEF IInv
    <2>5. \A t \in Threads : CleanInv(t)' BY <2>1, CleanSame DEF IInv
    <2> QED BY <2>2, <2>3, <2>4, <2>5 DEF IInv
  <1> QED BY <1>1, <1>2, <1>3, <1>4, <1>5, <1>6, <1>7 DEF Next

\* A transfer that began while the bus was free and no signal was left, that no bus
\* error ended and that returns true has moved the bytes it was asked to: for any
\* threads, devices and requests, whatever the devices answer, wherever the arbitration
\* is lost, and whatever earlier transfers that timed out have left behind.
THEOREM CleanTransfersAreExact == Spec => []CleanTransferExact
  <1>1. Init => IInv
    BY InitInv
  <1>2. IInv /\ [Next]_vars => IInv'
    BY NextInv
  <1>3. IInv => CleanTransferExact
    BY DEF IInv, CleanInv, CleanTransferExact, Succeeded
  <1> QED
    BY <1>1, <1>2, <1>3, PTL DEF Spec
=============================================================================
