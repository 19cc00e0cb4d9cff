-------------------------------- MODULE Mesh --------------------------------
(***************************************************************************)
(* A network of mesh nodes (MeshNode) and the radio between them.          *)
(*                                                                         *)
(* Each node runs mesh_service() on the packets its radio received and on  *)
(* the expiry of its timers, and mesh_send() for its application.  A       *)
(* transmission reaches any subset of the neighbours: the radio is used    *)
(* without its own acknowledge.  Packets wait in the receive FIFO of the   *)
(* radio, three deep, and are dropped when it is full.                     *)
(***************************************************************************)
EXTENDS MeshNode, FiniteSets

CONSTANTS
    Node,        \* the addresses of the nodes
    Net,         \* networks: who can hear a node (near), which nodes take part in the mesh
                 \* (repeat), what mesh_set_retry_count() sets (retries) and what each
                 \* application sends (work)
    Fifo         \* depth of the radio's receive FIFO

ASSUME MeshAssumption ==
    /\ Node \subseteq Nat \ {Zero, Broadcast}
    /\ \A t \in Net : t.near \in [Node -> SUBSET Node] /\ t.repeat \subseteq Node /\ t.retries \in 0..7
    /\ Fifo \in Nat \ {0}

VARIABLES
    net,       \* the network this is
    node,      \* the state of mesh.c on every node
    fifo,      \* packets received by each node's radio and not yet read
    todo,      \* sends each application still has to make
    heard,     \* history: every packet an application was given, in order
    sent,      \* history: transmissions of each packet by its source, by number
    acked      \* history: own packets taken off the pending list by an answer

vars == <<net, node, fifo, todo, heard, sent, acked>>

Init ==
    /\ net \in Net
    /\ node = [n \in Node |-> NewNode(n, n \in net.repeat, net.retries)]
    /\ fifo = [n \in Node |-> <<>>]
    /\ todo = net.work
    /\ heard = [n \in Node |-> <<>>]
    /\ sent = [n \in Node |-> [i \in 0..SeqRange - 1 |-> 0]]
    /\ acked = [n \in Node |-> {}]

----------------------------------------------------------------------------
\* The packets of out that reach a node, lost ones left out: got[i] is who hears out[i].
Arriving(m, out, got) ==
    FoldLeft(LAMBDA q, i : IF m \in got[i] THEN Append(q, out[i]) ELSE q,
             << >>, [i \in 1 .. Len(out) |-> i])

Offer(q, new) == SubSeq(q \o new, 1, IF Len(q) + Len(new) > Fifo THEN Fifo ELSE Len(q) + Len(new))

\* How often a node has transmitted each packet it is the source of.  The count stops
\* just above the bound of mesh.h:143: the packet, its retries, once more to find a
\* route, and its retries again.
SendLimit == 2 * (1 + net.retries)
Transmitted(n, out) ==
    LET more(i) == sent[n][i] + Cardinality({j \in DOMAIN out : out[j].ns = n /\ out[j].id = i})
    IN  [i \in DOMAIN sent[n] |-> IF more(i) > SendLimit THEN SendLimit + 1 ELSE more(i)]

\* The own packets that p takes off the pending list, whatever the timers do.
Answered(n, p, k) ==
    LET c == Service(node[n], p, k, {}, {})
    IN  {node[n].own[i].pkt.id : i \in {i \in OwnPending(node[n]) :
            node[n].own[i].pkt.type \in {"ack", "ack_app"} /\ c.own[i].pkt.nd = Zero}}

(***************************************************************************)
(* A call of node n has led to c: its transmissions go on the air, what it *)
(* delivers goes to the application.  rest is what is left in its FIFO.    *)
(***************************************************************************)
Commit(n, c, rest) ==
    \E got \in [DOMAIN c.out -> SUBSET net.near[n]] :
        /\ net' = net
        /\ node' = [node EXCEPT ![n] = Done(c)]
        /\ fifo' = [m \in Node |-> Offer(IF m = n THEN rest ELSE fifo[m], Arriving(m, c.out, got))]
        /\ heard' = [heard EXCEPT ![n] = @ \o c.app]
        /\ sent' = [sent EXCEPT ![n] = Transmitted(n, c.out)]

\* The application calls mesh_send(), once it was given the packets it waits for.
AppSend(n) ==
    /\ todo[n] # <<>>
    /\ Len(heard[n]) >= Head(todo[n]).after
    /\ todo' = [todo EXCEPT ![n] = Tail(@)]
    /\ acked' = acked
    /\ LET w == Head(todo[n])
       IN  \E k \in 1..OwnPend :
              Commit(n, MeshSend(node[n], w.dst, w.type, w.data, w.max, k), fifo[n])

\* mesh_service() takes a packet from the radio; some timers may have run out.
ServicePacket(n) ==
    /\ fifo[n] # <<>>
    /\ todo' = todo
    /\ LET p == Head(fifo[n])
       IN  \E k \in 1..MeshPend, md \in SUBSET MeshPending(node[n]), od \in SUBSET OwnPending(node[n]) :
              /\ acked' = [acked EXCEPT ![n] = @ \cup Answered(n, p, k)]
              /\ Commit(n, Service(node[n], p, k, md, od), Tail(fifo[n]))

\* mesh_service() finds no packet and some timers have run out.
ServiceTimers(n) ==
    /\ fifo[n] = <<>>
    /\ UNCHANGED <<todo, acked>>
    /\ \E md \in SUBSET MeshPending(node[n]), od \in SUBSET OwnPending(node[n]) :
          /\ md \cup od # {}
          /\ Commit(n, ServiceIdle(node[n], md, od), <<>>)

Next == \E n \in Node : AppSend(n) \/ ServicePacket(n) \/ ServiceTimers(n)

Spec == Init /\ [][Next]_vars

\* Something is left to do on a node: exactly when Next is enabled.
Busy(n) ==
    \/ todo[n] # <<>> /\ Len(heard[n]) >= Head(todo[n]).after
    \/ fifo[n] # <<>>
    \/ MeshPending(node[n]) \cup OwnPending(node[n]) # {}

\* Weak fairness of Next, spelled out: the wireless task runs for every packet and, while
\* packets are pending, every tick.  Which node and which timer goes first is left open.
FairSpec == Spec /\ ([]<>(\A n \in Node : ~Busy(n)) \/ []<><<TRUE>>_vars)

----------------------------------------------------------------------------
(***************************************************************************)
(* Properties                                                              *)
(***************************************************************************)
\* A packet reaches its application once, however often it is retried or repeated.
DeliveredOnce ==
    \A n \in Node : \A i, j \in DOMAIN heard[n] :
        heard[n][i].ns = heard[n][j].ns /\ heard[n][i].id = heard[n][j].id => i = j

\* A packet that its source takes for answered was delivered.
AckedWasDelivered ==
    \A n \in Node : \A id \in acked[n] :
        \E m \in Node : \E i \in DOMAIN heard[m] : heard[m][i].ns = n /\ heard[m][i].id = id

\* The source transmits a packet at most six times with two retries, see mesh.h:143.
SendsBounded == \A n \in Node : \A i \in DOMAIN sent[n] : sent[n][i] <= SendLimit

\* No destination has two routes, no node a route to itself, and the next hop is a node
\* that can be reached directly.
RoutesSane ==
    \A n \in Node : \A i, j \in 1..RteSize :
        LET r == node[n].rte[i] IN
        r.dst # Zero =>
            /\ r.dst # n
            /\ r.dst = node[n].rte[j].dst => i = j
            /\ r.next \in net.near[n]
            /\ r.hops = 0 <=> r.next = r.dst

\* Every route is a way that packets of its destination can come: through the next hop,
\* and past as many repeaters as it counts, whichever packets it was learnt from.
Way(from, through, to, hops) ==
    \E w \in [0 .. hops -> Node] :
        /\ w[0] = from /\ w[hops] = through /\ to \in net.near[through]
        /\ \A i \in 0 .. hops - 1 : w[i + 1] \in net.near[w[i]]
RoutesAreWays ==
    \A n \in Node : \A i \in 1..RteSize :
        LET r == node[n].rte[i] IN r.dst # Zero => Way(r.dst, r.next, n, r.hops)

\* A slot marked as a route discovery holds a packet without a next hop.
DiscoveryMarked == \A n \in Node : \A i \in 1..MeshPend :
    node[n].mesh[i].disc => node[n].mesh[i].pkt.nd # Zero /\ node[n].mesh[i].pkt.md = Zero

\* Acknowledges and retries end: once the applications are done the network falls silent.
Silent == \A n \in Node : fifo[n] = <<>> /\ MeshPending(node[n]) \cup OwnPending(node[n]) = {}
Quiesces == <>[]Silent
=============================================================================
