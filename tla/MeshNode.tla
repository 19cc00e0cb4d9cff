------------------------------ MODULE MeshNode ------------------------------
(***************************************************************************)
(* One node of the wireless mesh, L4_IO/wireless/src/mesh.c: the routing   *)
(* table, the history of packets seen, the packets pending an answer and   *)
(* what mesh_send() and mesh_service() do with them.                       *)
(*                                                                         *)
(* The file's static variables are the fields of a record, a handler is an *)
(* operator from that record to the next one.  out and app collect what    *)
(* one call hands to the radio and to the application.                     *)
(*                                                                         *)
(* Abstractions: a payload is the Boolean "has data"; a soft timer is only *)
(* ever compared with its timeout, so a call is given the set of the slots *)
(* whose timer has run out; statistics are left out.                       *)
(***************************************************************************)
EXTENDS Naturals, Sequences, SequencesExt

CONSTANTS
    Broadcast,    \* MESH_BROADCAST_ADDR, 255
    RteSize,      \* entries of g_rte_table, MESH_MAX_NODES
    HistSize,     \* entries of g_pkt_hist, MESH_MAX_NODES
    MeshPend,     \* entries of g_mesh_pnd_pkts, MESH_MAX_NODES
    OwnPend,      \* entries of g_our_pnd_pkts, MESH_MAX_PEND_PKTS
    DiscHops,     \* MESH_RTE_DISCOVERY_HOPS, 3
    ScoreMax,     \* UINT8_MAX, where the routing scores are halved
    SeqRange      \* 2^8, the range of the sequence number

ASSUME MeshNodeAssumption ==
    /\ {RteSize, HistSize, MeshPend, OwnPend, ScoreMax, SeqRange} \subseteq Nat \ {0, 1}
    /\ Broadcast \in Nat \ {0}
    /\ DiscHops \in 0..15

Zero == 0   \* MESH_ZERO_ADDR: no node, or an unknown next hop

NoPkt == [nd |-> Zero, ns |-> Zero, md |-> Zero, ms |-> Zero, id |-> 0, type |-> "nack",
          rem |-> 0, hop |-> 0, max |-> 0, data |-> FALSE, ver |-> TRUE]
NoRoute == [dst |-> Zero, next |-> Zero, hops |-> 0, score |-> 0]
NoHist == [src |-> Zero, id |-> 0, rem |-> 0]
NoPending == [pkt |-> NoPkt, disc |-> FALSE]

\* mesh_init(): every table is cleared.
NewNode(id, repeats, retries) ==
    [me |-> id, rpt |-> repeats, retry |-> retries, seq |-> 0,
     rte |-> [i \in 1..RteSize |-> NoRoute],
     hist |-> [i \in 1..HistSize |-> NoHist], wptr |-> 1,
     mesh |-> [i \in 1..MeshPend |-> NoPending],
     own |-> [i \in 1..OwnPend |-> NoPending],
     out |-> <<>>, app |-> <<>>]

FirstOf(S) == IF S = {} THEN 0 ELSE CHOOSE i \in S : \A j \in S : i <= j
SamePacket(p, q) == p.nd = q.nd /\ p.ns = q.ns /\ p.id = q.id

----------------------------------------------------------------------------
(***************************************************************************)
(* The routing table.                                                      *)
(***************************************************************************)
FindRoute(rte, d) == FirstOf({i \in DOMAIN rte : rte[i].dst = d})

LeastUsed(rte) == FirstOf({i \in DOMAIN rte : \A j \in DOMAIN rte : rte[i].score <= rte[j].score})

\* mesh_get_rte_to_modify(): the entry of d, else a free one, else the least used, emptied.
RouteToModify(rte, d) ==
    LET found == FindRoute(rte, d)
        free == FindRoute(rte, Zero)
        least == LeastUsed(rte)
    IN  IF found # 0 THEN [at |-> found, rte |-> rte]
        ELSE IF free # 0 THEN [at |-> free, rte |-> rte]
        ELSE [at |-> least, rte |-> [rte EXCEPT ![least] = NoRoute]]

\* mesh_update_rte_scores(): when one score reaches the limit all are halved.
BumpScore(rte, i) ==
    LET up == [rte EXCEPT ![i].score = @ + 1]
    IN  IF up[i].score = ScoreMax
        THEN [j \in DOMAIN up |-> [up[j] EXCEPT !.score = @ \div 2]]
        ELSE up

\* Mutant: a longer way replaces the next hop but not the hop count.
LearnOriginNext(rte, p) ==
    LET m == RouteToModify(rte, p.ns)
        b == BumpScore(m.rte, m.at)
    IN  [b EXCEPT ![m.at].dst = p.ns, ![m.at].next = p.ms,
                  ![m.at].hops = IF b[m.at].dst = Zero \/ p.hop <= @ THEN p.hop ELSE @]

\* The route to the origin of a new packet, when it came through another node.
LearnOrigin(rte, p) ==
    LET m == RouteToModify(rte, p.ns)
        b == BumpScore(m.rte, m.at)
    IN  IF b[m.at].dst = Zero \/ p.hop <= b[m.at].hops
        THEN [b EXCEPT ![m.at].dst = p.ns, ![m.at].next = p.ms, ![m.at].hops = p.hop]
        ELSE b

\* Whoever transmitted the packet is 0 hops away.
LearnNeighbour(rte, p) ==
    LET m == RouteToModify(rte, p.ms)
        t == [m.rte EXCEPT ![m.at].dst = p.ms, ![m.at].next = p.ms, ![m.at].hops = 0]
    IN  BumpScore(t, m.at)

(***************************************************************************)
(* mesh_update_history_and_routing()                                       *)
(***************************************************************************)
SeenAt(c, p) == FirstOf({i \in DOMAIN c.hist : c.hist[i].src = p.ns /\ c.hist[i].id = p.id})
IsDuplicate(c, p) == SeenAt(c, p) # 0
IsRetry(c, p) == IsDuplicate(c, p) /\ c.hist[SeenAt(c, p)].rem # p.rem

HistoryOf(c, p) ==
    IF IsDuplicate(c, p)
    THEN [c EXCEPT !.hist[SeenAt(c, p)].rem = p.rem]
    ELSE [c EXCEPT !.hist[c.wptr] = [src |-> p.ns, id |-> p.id, rem |-> p.rem],
                   !.wptr = IF @ = HistSize THEN 1 ELSE @ + 1]

\* Mutant: a route is learnt from the node's own packets too.
HistoryAndRoutingOwn(c, p) ==
    LET learns == ~IsDuplicate(c, p) /\ p.ms # p.ns
        origin == IF learns THEN LearnOrigin(c.rte, p) ELSE c.rte
    IN  [HistoryOf(c, p) EXCEPT !.rte = LearnNeighbour(origin, p)]

HistoryAndRouting(c, p) ==
    LET learns == ~IsDuplicate(c, p) /\ p.ms # p.ns /\ p.ns # c.me
        origin == IF learns THEN LearnOrigin(c.rte, p) ELSE c.rte
    IN  [HistoryOf(c, p) EXCEPT !.rte = LearnNeighbour(origin, p)]

----------------------------------------------------------------------------
(***************************************************************************)
(* Sending, and the packets pending an answer.                             *)
(***************************************************************************)
\* mesh_send_packet(): the packet leaves with us as its MAC source.
SendPacket(c, p) == [c EXCEPT !.out = Append(@, [p EXCEPT !.ms = c.me])]

\* mesh_get_pnd_pkt_slot(): a free slot, else one of those with the most retries left.
\* Their timers decide between them; here k does.
PendingSlot(arr, k) ==
    LET free == FirstOf({i \in DOMAIN arr : arr[i].pkt.nd = Zero})
        most == {i \in DOMAIN arr : \A j \in DOMAIN arr : arr[j].pkt.rem <= arr[i].pkt.rem}
    IN  IF free # 0 THEN free ELSE IF k \in most THEN k ELSE FirstOf(most)

\* mesh_pending_packets_add(): the discovery flag of a reused slot is only ever set.
AddPending(c, p, k) ==
    LET held == [p EXCEPT !.rem = c.retry]
        o == PendingSlot(c.own, k)
        m == PendingSlot(c.mesh, k)
    IN  IF p.ns = c.me
        THEN [c EXCEPT !.own[o].pkt = held]
        ELSE [c EXCEPT !.mesh[m] = [pkt |-> held, disc |-> @.disc \/ p.md = Zero]]

NextSeq(c) == (c.seq + 1) % SeqRange

\* mesh_form_pkt(): the header, with the next hop when the route is known.
FormPacket(c, dst, type, maxhops, data) ==
    LET r == FindRoute(c.rte, dst)
    IN  [NoPkt EXCEPT !.nd = dst, !.ns = c.me, !.ms = c.me, !.id = NextSeq(c), !.rem = c.retry,
                      !.type = IF dst = Broadcast THEN "nack" ELSE type, !.data = data,
                      !.md = IF r = 0 THEN Zero ELSE c.rte[r].next,
                      !.max = IF r = 0 THEN maxhops ELSE c.rte[r].hops]

\* What mesh_form_pkt() changes in the node: the sequence number and the route's score.
FormEffect(c, dst) ==
    LET r == FindRoute(c.rte, dst)
    IN  [c EXCEPT !.seq = NextSeq(c), !.rte = IF r = 0 THEN @ ELSE BumpScore(@, r)]

\* mesh_send_formed_pkt(): acknowledged packets, and responses that travel through
\* another node, are kept until they are answered.
SendFormed(c, p, k) ==
    LET kept == \/ p.type \in {"ack", "ack_app"}
                \/ p.type = "ack_rsp" /\ p.md # Zero /\ p.nd # p.md
        sent == SendPacket(c, p)
    IN  IF kept THEN AddPending(sent, p, k) ELSE sent

\* mesh_send() and mesh_send_ack()
MeshSend(c, dst, type, data, maxhops, k) ==
    IF dst \in {Zero, c.me} THEN c
    ELSE SendFormed(FormEffect(c, dst), FormPacket(c, dst, type, maxhops, data), k)

SendAck(c, p, data, k) == MeshSend(c, p.ns, "ack_rsp", data, p.max, k)

(***************************************************************************)
(* mesh_handle_pnd_pkts_for_arr() on one entry e of a node c: what rx, the  *)
(* packet that came in (NoPkt if none), and an expired timer make of it.   *)
(* "out" is what is transmitted, "lost" the destination whose route goes.  *)
(***************************************************************************)
Keep(e) == [entry |-> e, out |-> <<>>, lost |-> Zero]
Clear == Keep(NoPending)
\* Mutant: the retries are not counted down.
RetransmitForever(c, p) == [p EXCEPT !.ms = c.me]

Retransmit(c, p) == [p EXCEPT !.rem = (@ + 7) % 8, !.ms = c.me]

\* Mutant: the slot of a repeated discovery packet keeps its flag.
PendingDiscoveryKept(c, e, rx, due) ==
    IF due THEN [Keep([e EXCEPT !.pkt = NoPkt]) EXCEPT !.out = <<[e.pkt EXCEPT !.ms = c.me]>>]
    ELSE Keep(e)

PendingDiscovery(c, e, rx, due) ==
    LET answered == rx.ns = e.pkt.nd /\ rx.nd = e.pkt.ns
        repeated == rx.md # Zero /\ SamePacket(rx, e.pkt)
    IN  IF rx # NoPkt /\ (answered \/ repeated) THEN Clear
        ELSE IF due THEN [Clear EXCEPT !.out = <<[e.pkt EXCEPT !.ms = c.me]>>]
        ELSE Keep(e)

\* Mutant: a new route is looked for even when the packet had none.
PendingExpiredAgain(c, e) ==
    LET again == Retransmit(c, e.pkt)
        unrouted == Retransmit(c, [e.pkt EXCEPT !.md = Zero, !.max = DiscHops])
        rediscover == e.pkt.type # "ack_rsp" /\ e.pkt.ns = c.me /\ e.pkt.md # e.pkt.nd
    IN  IF e.pkt.rem > 0
        THEN [Keep([e EXCEPT !.pkt = again]) EXCEPT !.out = <<again>>]
        ELSE IF rediscover
        THEN [entry |-> [e EXCEPT !.pkt = [unrouted EXCEPT !.rem = c.retry]],
              out |-> <<unrouted>>, lost |-> e.pkt.nd]
        ELSE [Clear EXCEPT !.lost = e.pkt.nd]

PendingExpired(c, e) ==
    LET again == Retransmit(c, e.pkt)
        unrouted == Retransmit(c, [e.pkt EXCEPT !.md = Zero, !.max = DiscHops])
        rediscover == /\ e.pkt.type # "ack_rsp" /\ e.pkt.ns = c.me
                      /\ e.pkt.md # e.pkt.nd /\ e.pkt.md # Zero
    IN  IF e.pkt.rem > 0
        THEN [Keep([e EXCEPT !.pkt = again]) EXCEPT !.out = <<again>>]
        ELSE IF rediscover
        THEN [entry |-> [e EXCEPT !.pkt = [unrouted EXCEPT !.rem = c.retry]],
              out |-> <<unrouted>>, lost |-> e.pkt.nd]
        ELSE [Clear EXCEPT !.lost = e.pkt.nd]

\* Mutant: hearing the next node pass the packet on counts as the answer.
PendingRoutedPassedOn(c, e, rx, due) ==
    LET answered == rx.type = "ack_rsp" /\ e.pkt.ns = rx.nd /\ e.pkt.nd = rx.ns
    IN  IF rx # NoPkt /\ (answered \/ SamePacket(e.pkt, rx)) THEN Clear
        ELSE IF due THEN PendingExpired(c, e)
        ELSE Keep(e)

PendingRouted(c, e, rx, due) ==
    LET answered == rx.type = "ack_rsp" /\ e.pkt.ns = rx.nd /\ e.pkt.nd = rx.ns
        passedOn == rx.ms = e.pkt.md /\ SamePacket(e.pkt, rx)
    IN  IF rx # NoPkt /\ (answered \/ (rx.type = "ack_rsp" /\ passedOn)) THEN Clear
        ELSE IF rx # NoPkt /\ rx.type # "nack" /\ passedOn
        THEN Keep([e EXCEPT !.pkt.rem = 0])
        ELSE IF due THEN PendingExpired(c, e)
        ELSE Keep(e)

PendingEntry(c, e, rx, due) ==
    IF e.disc THEN PendingDiscovery(c, e, rx, due)
    ELSE IF e.pkt.nd # Zero THEN PendingRouted(c, e, rx, due)
    ELSE Keep(e)

\* One array, every entry of it; the routes of the destinations given up are removed.
PendingArray(c, arr, rx, due) ==
    LET done == [i \in DOMAIN arr |-> PendingEntry(c, arr[i], rx, i \in due)]
        lost == {done[i].lost : i \in DOMAIN arr}
    IN  [arr |-> [i \in DOMAIN arr |-> done[i].entry],
         out |-> FoldLeft(LAMBDA q, e : q \o e.out, << >>, done),
         rte |-> [i \in DOMAIN c.rte |-> IF c.rte[i].dst \in lost \ {Zero} THEN NoRoute ELSE c.rte[i]]]

HandlePending(c, rx, meshDue, ownDue) ==
    LET m == PendingArray(c, c.mesh, rx, meshDue)
        o == PendingArray([c EXCEPT !.rte = m.rte], c.own, rx, ownDue)
    IN  [c EXCEPT !.mesh = m.arr, !.own = o.arr, !.rte = o.rte, !.out = @ \o m.out \o o.out]

----------------------------------------------------------------------------
(***************************************************************************)
(* mesh_handle_our_packet(): a packet for this node.                       *)
(***************************************************************************)
\* Mutant: a retried packet is given to the application again.
HandleOurPacketAgain(c, p, dup, k) ==
    LET d == IF p.data THEN [c EXCEPT !.app = Append(@, p)] ELSE c
    IN  IF p.type = "ack" THEN SendAck(d, p, TRUE, k)
        ELSE IF p.md = Zero THEN SendAck(d, p, FALSE, k)
        ELSE d

HandleOurPacket(c, p, dup, k) ==
    LET d == IF ~dup /\ p.data THEN [c EXCEPT !.app = Append(@, p)] ELSE c
    IN  IF p.type = "ack" THEN SendAck(d, p, TRUE, k)
        ELSE IF p.md = Zero THEN SendAck(d, p, FALSE, k)
        ELSE d

(***************************************************************************)
(* mesh_handle_mesh_packet(): a packet for another node.  The packet is    *)
(* changed in place and is what the pending packets are compared with.     *)
(***************************************************************************)
HandleMeshPacket(c, p, k) ==
    LET r == FindRoute(c.rte, p.nd)
        next == IF r = 0 THEN Zero ELSE c.rte[r].next
        hopped == [p EXCEPT !.hop = @ + 1]
        onward == [hopped EXCEPT !.md = next, !.ms = c.me]
        ensure == /\ p.md = c.me
                  /\ \/ p.type \in {"ack", "ack_app"}
                     \/ p.type = "ack_rsp" /\ p.nd # next /\ next # Zero
        sent == SendPacket(c, onward)
    IN  IF p.md = Zero /\ r = 0 THEN [node |-> AddPending(c, hopped, k), rx |-> hopped]
        ELSE IF p.md \notin {Zero, c.me} THEN [node |-> c, rx |-> hopped]
        ELSE [node |-> IF ensure THEN AddPending(sent, onward, k) ELSE sent, rx |-> onward]

\* A broadcast goes to the application and is repeated without any routing.
HandleBroadcast(c, p) ==
    LET d == [c EXCEPT !.app = Append(@, p)]
    IN  IF p.hop < p.max THEN SendPacket(d, [p EXCEPT !.hop = @ + 1]) ELSE d

(***************************************************************************)
(* mesh_service() after radio_recv() returned p: the node, and the packet  *)
(* the pending packets are to be compared with.                            *)
(***************************************************************************)
Received(c, p, k) ==
    LET h == HistoryAndRouting(c, p)
        dup == IsDuplicate(c, p)
    IN  IF ~p.ver \/ p.ms = c.me THEN [node |-> c, rx |-> NoPkt]
        ELSE IF dup /\ ~IsRetry(c, p) THEN [node |-> h, rx |-> NoPkt]
        ELSE IF p.ns = c.me THEN [node |-> h, rx |-> p]
        ELSE IF p.nd = Broadcast THEN [node |-> HandleBroadcast(h, p), rx |-> NoPkt]
        ELSE IF p.nd = c.me THEN [node |-> HandleOurPacket(h, p, dup, k), rx |-> p]
        ELSE IF c.rpt /\ p.hop < p.max THEN HandleMeshPacket(h, p, k)
        ELSE [node |-> h, rx |-> NoPkt]

\* The whole of mesh_service() with a packet p.  A timer that was started in this very
\* call has not run out.
Service(c, p, k, meshDue, ownDue) ==
    LET r == Received(c, p, k)
    IN  HandlePending(r.node, r.rx, {i \in meshDue : r.node.mesh[i] = c.mesh[i]},
                                    {i \in ownDue : r.node.own[i] = c.own[i]})

\* mesh_service() when the radio has nothing.
ServiceIdle(c, meshDue, ownDue) == HandlePending(c, NoPkt, meshDue, ownDue)

\* The effects of a call have been handed over.
Done(c) == [c EXCEPT !.out = <<>>, !.app = <<>>]

\* The slots of each array that hold a packet.
MeshPending(c) == {i \in DOMAIN c.mesh : c.mesh[i].pkt.nd # Zero}
OwnPending(c) == {i \in DOMAIN c.own : c.own[i].pkt.nd # Zero}
=============================================================================
