------------------------------ MODULE MCKernel ------------------------------
EXTENDS Kernel

CONSTANTS high, mid, low, idle, one, two, m, a, b

MCTasks == {high, mid, low, idle}
MCPrio == (high :> 2) @@ (mid :> 1) @@ (low :> 1) @@ (idle :> 0)
MCLength == (one :> 1) @@ (two :> 2) @@ (m :> 1)

Op(op, object, ticks) == [op |-> op, q |-> object, ticks |-> ticks]
Program(h, i, l, isr, items) ==
    [calls |-> (high :> h) @@ (mid :> i) @@ (low :> l) @@ (idle :> {}), isr |-> isr,
     items |-> items]

\* Two receivers and an interrupt that sends; the mirror image; both.
Receive == Program({Op("receive", one, 2)}, {Op("receive", one, 3)}, {Op("back", one, 0)},
                   {Op("back", one, 0)}, {a})
Send == Program({Op("back", one, 2)}, {Op("back", one, 3)}, {Op("receive", one, 0)},
                {Op("receive", one, 0)}, {a})
Both == Program({Op("receive", one, 3)}, {Op("back", one, 2)}, {},
                {Op("back", one, 0), Op("receive", one, 0)}, {a})
\* All ways to put and get.
Order == Program({Op("receive", two, 1)}, {Op("peek", two, 3), Op("receive", one, 0)},
                 {Op("back", two, 1), Op("front", two, 0), Op("overwrite", one, 0)}, {}, {a, b})
\* A mutex.
Lock == Program({Op("receive", m, 3), Op("back", m, 0), Op("delay", m, 1)},
                {Op("receive", m, 3), Op("back", m, 0)},
                {Op("receive", m, 3), Op("back", m, 0), Op("delay", m, 2)}, {}, {a})
\* Delays and suspended tasks.
Sleep == Program({Op("delayUntil", high, 2), Op("suspend", low, 0)},
                 {Op("resume", low, 0), Op("delay", mid, 0), Op("delay", mid, 1)},
                 {Op("receive", one, 2), Op("delay", low, 2), Op("suspend", low, 0)},
                 {Op("back", one, 0)}, {a})

MCPrograms == {Receive, Send, Both, Order, Lock, Sleep}
\* A mutex that is given up by a time-out.
TimedLock == Program({Op("receive", m, 1), Op("back", m, 0), Op("delay", m, 1)},
                     {Op("receive", m, 3), Op("back", m, 0)},
                     {Op("receive", m, 3), Op("back", m, 0)}, {}, {a})
MCTimedLock == {TimedLock}
=============================================================================
