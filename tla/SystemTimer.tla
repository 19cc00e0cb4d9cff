---------------------------- MODULE SystemTimer ----------------------------
(***************************************************************************)
(* The timer that counts microseconds (lpc_sys.cpp): its match registers,  *)
(* the interrupt that serves them one at a time, and sys_get_uptime_us(),  *)
(* which joins the timer with the count of its rollovers without a lock.   *)
(*                                                                         *)
(* A task reads the time, with the timer's interrupt held off (masked) if  *)
(* it is in a critical section, and so does the mesh when the interrupt    *)
(* itself services it.  The interrupt is taken before the task's next      *)
(* step, but may take any time.                                            *)
(***************************************************************************)
EXTENDS Integers

CONSTANTS Turn,                \* values of TC, 2^32
          Period,              \* LPC_SYS_TIME_FOR_BCKGND_TASK_US
          WatchdogTime,        \* LPC_SYS_WATCHDOG_RESET_TIME_US
          IrTimeout,           \* of the infrared receiver
          MaxTicks, MaxEdges   \* bounds: ticks, and edges of the infrared receiver

ASSUME SystemTimerAssumption ==
    /\ Turn \in Nat /\ {Period, WatchdogTime, IrTimeout} \subseteq 1 .. Turn - 2
    /\ {MaxTicks, MaxEdges} \subseteq Nat

VARIABLES tc,                  \* TC
          mr1, mr2, mr3,       \* match registers; MR0 is Turn - 1
          mr1On,               \* the bit of MCR
          ir,                  \* IR, what has matched or been captured
          isr,                 \* what the interrupt is serving
          rollovers,           \* g_timer_rollover_count
          masked,
          reading,             \* a call of sys_get_uptime_us() of a task and of the interrupt
          elapsed, edges       \* the true time, and edges so far

timerVars == <<tc, mr1, mr2, mr3, mr1On, ir, isr, rollovers, masked, reading, elapsed, edges>>

\* before is the true time when TC was read: TC is before % Turn.
NotReading == [at |-> "idle", before |-> 0, count |-> 0, off |-> 0, after |-> 0, late |-> FALSE]

TimerInit ==
    /\ tc = 0 /\ mr1 = Period /\ mr2 = 0 /\ mr3 = WatchdogTime /\ mr1On = TRUE
    /\ ir = {} /\ isr = "none" /\ rollovers = 0 /\ masked = FALSE
    /\ reading = [r \in {"task", "isr"} |-> NotReading]
    /\ elapsed = 0 /\ edges = 0

-----------------------------------------------------------------------------
(***************************************************************************)
(* The hardware.                                                           *)
(***************************************************************************)
Matches(now) ==
    (IF now = Turn - 1 THEN {"mr0"} ELSE {}) \union (IF now = mr1 /\ mr1On THEN {"mr1"} ELSE {})
    \union (IF now = mr2 THEN {"mr2"} ELSE {}) \union (IF now = mr3 THEN {"mr3"} ELSE {})

\* Nobody holds the interrupt off or takes to read the time for a whole turn, which is
\* over an hour.
Tick ==
    /\ elapsed < MaxTicks /\ elapsed' = elapsed + 1
    /\ tc' = (tc + 1) % Turn
    /\ ~ ("mr0" \in ir /\ tc' = Turn - 1)
    /\ \A r \in DOMAIN reading : reading[r].at \in {"count", "after"} => elapsed' < reading[r].before + Turn
    /\ ir' = ir \union Matches(tc')
    /\ UNCHANGED <<mr1, mr2, mr3, mr1On, isr, rollovers, masked, reading, edges>>

Edge ==
    /\ edges < MaxEdges /\ edges' = edges + 1
    /\ ir' = ir \union {"capt0"}
    /\ UNCHANGED <<tc, mr1, mr2, mr3, mr1On, isr, rollovers, masked, reading, elapsed>>

-----------------------------------------------------------------------------
(***************************************************************************)
(* The interrupt: TIMER1_IRQHandler().                                     *)
(***************************************************************************)
\* The order of its tests.
Reason ==
    IF "capt0" \in ir THEN "capt0" ELSE IF "mr2" \in ir THEN "mr2"
    ELSE IF "mr0" \in ir THEN "mr0" ELSE IF "mr1" \in ir THEN "mr1" ELSE "mr3"

IRQHandler ==
    /\ ir # {} /\ isr = "none" /\ ~ masked
    /\ isr' = Reason /\ ir' = ir \ {Reason}
    /\ UNCHANGED <<tc, mr1, mr2, mr3, mr1On, rollovers, masked, reading, elapsed, edges>>

Rollover ==
    /\ isr = "mr0" /\ isr' = "none" /\ rollovers' = rollovers + 1
    /\ UNCHANGED <<tc, mr1, mr2, mr3, mr1On, ir, masked, reading, elapsed, edges>>

StoreIrCode ==
    /\ isr = "capt0" /\ isr' = "none" /\ mr2' = (tc + IrTimeout) % Turn
    /\ UNCHANGED <<tc, mr1, mr3, mr1On, ir, rollovers, masked, reading, elapsed, edges>>

DecodeIrCode ==
    /\ isr = "mr2" /\ isr' = "none"
    /\ UNCHANGED <<tc, mr1, mr2, mr3, mr1On, ir, rollovers, masked, reading, elapsed, edges>>

FeedWatchdog ==
    /\ isr = "mr3" /\ isr' = "none" /\ mr3' = (tc + WatchdogTime) % Turn
    /\ UNCHANGED <<tc, mr1, mr2, mr1On, ir, rollovers, masked, reading, elapsed, edges>>

NextService == mr1' = (mr1 + tc + Period) % Turn

\* Mutant: the interrupt services the mesh always.
MeshServicingAlways(state) ==
    /\ isr = "mr1" /\ isr' = "service"
    /\ UNCHANGED <<tc, mr1, mr2, mr3, mr1On, ir, rollovers, masked, reading, elapsed, edges>>
\* The wireless task takes over when the kernel runs.
MeshServicing(state) ==
    /\ isr = "mr1"
    /\ IF state # "running" THEN isr' = "service" /\ UNCHANGED <<mr1, mr1On>>
                            ELSE isr' = "none" /\ mr1On' = FALSE /\ NextService
    /\ UNCHANGED <<tc, mr2, mr3, ir, rollovers, masked, reading, elapsed, edges>>

\* wireless_service() returns.
EndService ==
    /\ isr = "service" /\ isr' = "none" /\ NextService
    /\ reading' = [reading EXCEPT !["isr"] = NotReading]
    /\ UNCHANGED <<tc, mr2, mr3, mr1On, ir, rollovers, masked, elapsed, edges>>

-----------------------------------------------------------------------------
(***************************************************************************)
(* sys_get_uptime_us().                                                    *)
(***************************************************************************)
Quiet == isr = "none" /\ (masked \/ ir = {})
Runs(r) == IF r = "task" THEN Quiet ELSE isr = "service"

ReadBefore(r) ==
    /\ Runs(r) /\ reading[r].at \in {"idle", "before"}
    /\ reading' = [reading EXCEPT ![r].at = "count", ![r].before = elapsed]
    /\ UNCHANGED <<tc, mr1, mr2, mr3, mr1On, ir, isr, rollovers, masked, elapsed, edges>>

ReadRollovers(r) ==
    /\ Runs(r) /\ reading[r].at = "count"
    /\ reading' = [reading EXCEPT ![r].at = "after", ![r].count = rollovers]
    /\ UNCHANGED <<tc, mr1, mr2, mr3, mr1On, ir, isr, rollovers, masked, elapsed, edges>>

\* How far the time is off, and whether a rollover has not been counted yet.
Result(r) == [NotReading EXCEPT !.at = "done", !.after = tc, !.late = "mr0" \in ir,
                                !.off = reading[r].count * Turn + tc - elapsed]

\* Mutant: the timer is not compared with its value before.
ReadAfterOnce(r) ==
    /\ Runs(r) /\ reading[r].at = "after"
    /\ reading' = [reading EXCEPT ![r] = Result(r)]
    /\ UNCHANGED <<tc, mr1, mr2, mr3, mr1On, ir, isr, rollovers, masked, elapsed, edges>>
ReadAfter(r) ==
    /\ Runs(r) /\ reading[r].at = "after"
    /\ reading' = IF tc < reading[r].before % Turn THEN [reading EXCEPT ![r] = [NotReading EXCEPT !.at = "before"]]
                                            ELSE [reading EXCEPT ![r] = Result(r)]
    /\ UNCHANGED <<tc, mr1, mr2, mr3, mr1On, ir, isr, rollovers, masked, elapsed, edges>>

Return(r) ==
    /\ Runs(r) /\ reading[r].at = "done"
    /\ reading' = [reading EXCEPT ![r] = NotReading]
    /\ UNCHANGED <<tc, mr1, mr2, mr3, mr1On, ir, isr, rollovers, masked, elapsed, edges>>

\* A critical section begins or ends.
Mask ==
    /\ Quiet /\ reading["task"].at = "idle" /\ masked' = ~ masked
    /\ UNCHANGED <<tc, mr1, mr2, mr3, mr1On, ir, isr, rollovers, reading, elapsed, edges>>

TimerNext(state) ==
    \/ Tick \/ Edge \/ IRQHandler \/ Rollover \/ StoreIrCode \/ DecodeIrCode \/ FeedWatchdog
    \/ MeshServicing(state) \/ EndService \/ Mask
    \/ \E r \in {"task", "isr"} : ReadBefore(r) \/ ReadRollovers(r) \/ ReadAfter(r) \/ Return(r)

-----------------------------------------------------------------------------
\* sys_get_uptime_us() needs no critical section: the time that it returns is off by a
\* turn only when it is read in the last tick before the rollover, which is counted on the
\* match already, or when its caller holds off the interrupt that has yet to count one.
UptimeExact ==
    \A r \in {"task", "isr"} : reading[r].at = "done" =>
        \/ reading[r].off = 0
        \/ reading[r].off = Turn /\ reading[r].after = Turn - 1
        \/ reading[r].off = - Turn /\ reading[r].late

\* lpc_sys.cpp:193, "Setup the next periodic interrupt": it is due within a period.
NextServiceSoon ==
    isr \notin {"mr1", "service"} /\ "mr1" \notin ir /\ mr1On => (mr1 - tc) % Turn <= Period
=============================================================================
