----------------------------- MODULE FileLogger -----------------------------
(***************************************************************************)
(* The file logger (file_logger.c): tasks write their message into a       *)
(* buffer of a pool and hand it over through a queue; the logger task      *)
(* collects the messages in one large buffer, writes that to the file when *)
(* it is full, when nothing came for a while or when it is asked to, and   *)
(* gives the buffers back.                                                 *)
(*                                                                         *)
(* A step of a task is one call of the kernel with what the task does      *)
(* alone until the next.  The statistics (numbers of calls, of buffers and *)
(* the write time) and the printing of a message are left out.             *)
(***************************************************************************)
EXTENDS Naturals, FiniteSets, SequencesExt

CONSTANTS Tasks,
          Buffers,        \* the pool: FILE_LOGGER_NUM_BUFFERS buffers
          NoBuffer,       \* the NULL pointer, which asks for a flush
          Message, Length, \* messages with their length, the newline included
          BufferSize,     \* FILE_LOGGER_BUFFER_SIZE
          MaxCalls,       \* bound: calls of logger_log() and flush requests
          MaxFaults       \* bound: writes that fail

ASSUME BuffersAssumption == IsFiniteSet(Buffers) /\ NoBuffer \notin Buffers
ASSUME LengthAssumption  == BufferSize \in Nat /\ Length \in [Message -> 1 .. BufferSize]

VARIABLES phase,       \* "off", "initialised" or, with the kernel, "running"
          emptyQueue,  \* g_empty_buffer_queue
          writeQueue,  \* g_write_buffer_queue
          text,        \* of each buffer: the message in it
          caller,      \* of each task: where it is in a call, its buffer and message
          logMsg,      \* log_msg, the buffer the logger task works on
          cache,       \* gp_file_buffer up to write_ptr
          file,        \* the characters in the file
          calls, faults

vars == <<phase, emptyQueue, writeQueue, text, caller, logMsg, cache, file, calls, faults>>

NumBuffers == Cardinality(Buffers)

Chars(x) == [i \in 1 .. Length[x] |-> <<x, i>>]

Idle == [at |-> "idle", buffer |-> NoBuffer]

Init ==
    /\ phase = "off"
    /\ emptyQueue = << >> /\ writeQueue = << >>
    /\ text = [b \in Buffers |-> CHOOSE x \in Message : TRUE]
    /\ caller = [t \in Tasks |-> Idle]
    /\ logMsg = NoBuffer
    /\ cache = << >> /\ file = << >>
    /\ calls = 0 /\ faults = 0

\* logger_write_to_file: the file has grown by all the characters or, when
\* opening or writing it fails, by the first of them.  Nobody tries again.
WriteToFile(chars) ==
    \/ file' = file \o chars /\ UNCHANGED faults
    \/ /\ faults < MaxFaults
       /\ \E k \in 0 .. Len(chars) - 1 : file' = file \o SubSeq(chars, 1, k)
       /\ faults' = faults + 1

-----------------------------------------------------------------------------
(***************************************************************************)
(* Before the kernel runs.                                                 *)
(***************************************************************************)
\* logger_init: when it fails everything is freed, and no call does anything.
LoggerInit ==
    /\ phase = "off"
    /\ phase' = "initialised"
    /\ emptyQueue' = SetToSeq(Buffers)
    /\ UNCHANGED <<writeQueue, text, caller, logMsg, cache, file, calls, faults>>

StartKernel ==
    /\ phase = "initialised"
    /\ phase' = "running"
    /\ UNCHANGED <<emptyQueue, writeQueue, text, caller, logMsg, cache, file, calls, faults>>

\* The message is written at once and the buffer put back; there always is one.
LogDirect ==
    /\ phase = "initialised" /\ calls < MaxCalls /\ emptyQueue # << >>
    /\ \E x \in Message : /\ text' = [text EXCEPT ![Head(emptyQueue)] = x]
                          /\ WriteToFile(Chars(x))
    /\ emptyQueue' = Append(Tail(emptyQueue), Head(emptyQueue))
    /\ calls' = calls + 1
    /\ UNCHANGED <<phase, writeQueue, caller, logMsg, cache>>

-----------------------------------------------------------------------------
(***************************************************************************)
(* A task that logs.                                                       *)
(***************************************************************************)
GoTo(t, at, b) == caller' = [caller EXCEPT ![t] = [at |-> at, buffer |-> b]]

Call(t) ==
    /\ phase = "running" /\ calls < MaxCalls /\ caller[t].at = "idle"
    /\ \E at \in {"get", "flush"} : GoTo(t, at, NoBuffer)
    /\ calls' = calls + 1
    /\ UNCHANGED <<phase, emptyQueue, writeQueue, text, logMsg, cache, file, faults>>

\* logger_get_buffer_ptr: first with a time-out, then for as long as it takes.
WaitForBuffer(t) ==
    /\ caller[t].at = "get" /\ emptyQueue = << >>
    /\ GoTo(t, "getForever", NoBuffer)
    /\ UNCHANGED <<phase, emptyQueue, writeQueue, text, logMsg, cache, file, calls, faults>>

\* Mutant: the buffer is used and stays in the queue.
PeekBuffer(t) ==
    /\ caller[t].at \in {"get", "getForever"} /\ emptyQueue # << >>
    /\ \E x \in Message : text' = [text EXCEPT ![Head(emptyQueue)] = x]
    /\ GoTo(t, "handOver", Head(emptyQueue))
    /\ UNCHANGED <<phase, emptyQueue, writeQueue, logMsg, cache, file, calls, faults>>
GetBuffer(t) ==
    /\ caller[t].at \in {"get", "getForever"} /\ emptyQueue # << >>
    /\ \E x \in Message : text' = [text EXCEPT ![Head(emptyQueue)] = x]
    /\ GoTo(t, "handOver", Head(emptyQueue))
    /\ emptyQueue' = Tail(emptyQueue)
    /\ UNCHANGED <<phase, writeQueue, logMsg, cache, file, calls, faults>>

\* logger_write_log_message and logger_send_flush_request.
HandOver(t) ==
    /\ caller[t].at \in {"handOver", "flush"} /\ Len(writeQueue) < NumBuffers
    /\ writeQueue' = Append(writeQueue, caller[t].buffer)
    /\ GoTo(t, "idle", NoBuffer)
    /\ UNCHANGED <<phase, emptyQueue, text, logMsg, cache, file, calls, faults>>

-----------------------------------------------------------------------------
(***************************************************************************)
(* logger_task.                                                            *)
(***************************************************************************)
\* The message that is put in the cache: what is written first, if the cache
\* gets full, and what is then in the cache.
Full(chars) == Len(cache) + Len(chars) >= BufferSize
\* Mutant: what did not fit is taken from the start of the message.
RestFromStart(chars) == SubSeq(chars, 1, Len(cache) + Len(chars) - BufferSize)
Fit(chars)  == cache \o SubSeq(chars, 1, BufferSize - Len(cache))
Rest(chars) == SubSeq(chars, BufferSize - Len(cache) + 1, Len(chars))

Flush == WriteToFile(cache) /\ cache' = << >>

Take ==
    /\ phase = "running" /\ logMsg = NoBuffer /\ writeQueue # << >>
    /\ logMsg' = Head(writeQueue)
    /\ writeQueue' = Tail(writeQueue)
    /\ IF Head(writeQueue) = NoBuffer THEN Flush
       ELSE LET chars == Chars(text[Head(writeQueue)])
            IN  IF Full(chars) THEN WriteToFile(Fit(chars)) /\ cache' = Rest(chars)
                ELSE cache' = cache \o chars /\ UNCHANGED <<file, faults>>
    /\ UNCHANGED <<phase, emptyQueue, text, caller, calls>>

\* Nothing came for FILE_LOGGER_FLUSH_TIME_SEC.
TimeOut ==
    /\ phase = "running" /\ logMsg = NoBuffer /\ writeQueue = << >>
    /\ Flush
    /\ UNCHANGED <<phase, emptyQueue, writeQueue, text, caller, logMsg, calls>>

\* Mutant: a buffer is not given back when the queue of the others is empty.
GiveBackIfAny ==
    /\ logMsg # NoBuffer /\ Len(emptyQueue) < NumBuffers
    /\ emptyQueue' = IF emptyQueue = << >> THEN << >> ELSE Append(emptyQueue, logMsg)
    /\ logMsg' = NoBuffer
    /\ UNCHANGED <<phase, writeQueue, text, caller, cache, file, calls, faults>>
GiveBack ==
    /\ logMsg # NoBuffer /\ Len(emptyQueue) < NumBuffers
    /\ emptyQueue' = Append(emptyQueue, logMsg)
    /\ logMsg' = NoBuffer
    /\ UNCHANGED <<phase, writeQueue, text, caller, cache, file, calls, faults>>

LoggerTask == Take \/ TimeOut \/ GiveBack
Task(t) == WaitForBuffer(t) \/ GetBuffer(t) \/ HandOver(t)

Next == \/ LoggerInit \/ StartKernel \/ LogDirect \/ LoggerTask
        \/ \E t \in Tasks : Call(t) \/ Task(t)

Spec == Init /\ [][Next]_vars

\* The logger task waits for nothing but the queue, and a task that is ready runs.
FairSpec == /\ Spec
            /\ WF_vars(Take) /\ WF_vars(GiveBack)
            /\ \A t \in Tasks : WF_vars(GetBuffer(t)) /\ WF_vars(HandOver(t))

-----------------------------------------------------------------------------
(***************************************************************************)
(* Properties.                                                             *)
(***************************************************************************)
\* A buffer is in the hands of one party: in one place of one queue, with one
\* task or with the logger.  Between callers it travels as a bare pointer; a
\* buffer in two hands mixes messages, a lost one makes callers wait for ever.
Places(b) ==
    {<<"empty", i>> : i \in {i \in DOMAIN emptyQueue : emptyQueue[i] = b}}
    \cup {<<"write", i>> : i \in {i \in DOMAIN writeQueue : writeQueue[i] = b}}
    \cup {<<"task", t>> : t \in {t \in Tasks : caller[t].buffer = b}}
    \cup {<<"logger", 0>> : x \in {x \in {b} : logMsg = x}}
BuffersConserved ==
    phase # "off" => \A b \in Buffers : Cardinality(Places(b)) = 1

\* The file gets the messages whole and in the order in which they were handed
\* over, whatever the callers do meanwhile with other buffers and however the
\* messages are cut at the end of the large buffer; messages logged before the
\* kernel runs come first.  Only failed writes leave gaps.
PendingOf(txt, q) == FoldLeft(LAMBDA s, b : IF b = NoBuffer THEN s ELSE s \o Chars(txt[b]),
                              << >>, q)
Pending == PendingOf(text, writeQueue)
L == INSTANCE LogFile WITH Text <- {Chars(x) : x \in Message}, backlog <- cache \o Pending
WritesInOrder == L!Spec

\* Every call returns, though it may wait for buffers and for room in the
\* queue that flush requests share with messages.
LogReturns == \A t \in Tasks : caller[t].at # "idle" ~> caller[t].at = "idle"
=============================================================================
