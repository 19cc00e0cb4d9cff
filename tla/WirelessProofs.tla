--------------------------- MODULE WirelessProofs ---------------------------
(***************************************************************************)
(* The tasks of one node (WirelessTask).  The flag g_locked is no lock:    *)
(* mesh_service() tests it once and goes on.  That the wireless task and a *)
(* sender still never use the radio and the tables together rests on the   *)
(* priorities: what is proved here for any number of packets, calls, slots *)
(* and retries.                                                            *)
(*                                                                         *)
(* The nodes of a network (Mesh).  The routing tables stay sane because of *)
(* what holds of every packet on the air: it names its transmitter, and it *)
(* has made a hop unless that is its origin.  Each function of mesh.c is   *)
(* shown to keep the table, the pending packets and what it transmits so.  *)
(* The transmissions of a packet by its source stay within the limit: what *)
(* it had and what it may still have are a budget of its slot.             *)
(* A slot marked as a route discovery holds a packet without a next hop,   *)
(* and an application is given a packet once while the history that tells  *)
(* it from a new one forgets nothing.                                      *)
(***************************************************************************)
EXTENDS Mesh, WirelessTask, FiniteSetTheorems, WellFoundedInduction, TLAPS

\* g_locked is set exactly in the sender's critical sections.
LockHeld == locked \in BOOLEAN /\ (locked <=> sender \in Sending)

\* While mesh_service() is at work the sender does not run and holds no lock.
ServiceAlone == task \in Serving => cpu = "wireless" /\ sender \notin Sending

\* A signal that comes after the line was looked at is in the semaphore.
SignalKept == task = "take" => (flag => sem)

IInv == LockHeld /\ ServiceAlone /\ SignalKept /\ SignalNoticed

LEMMA InitIInv == WirelessInit => IInv
  BY DEF WirelessInit, IInv, LockHeld, ServiceAlone, SignalKept, SignalNoticed, Sending, Serving

\* A step of the sender is taken only when mesh_service() is not at work.
LEMMA SenderStep == ASSUME IInv, Sender PROVE IInv'
<1>1. cpu = "sender" /\ cpu' = "sender" /\ flag' = flag
  BY DEF Sender, SenderAt, Begin, LoadNumber, StoreNumber, LockTable, LookUpRoute,
         LockSend, Transmit, MakePending, Unlock, radio
<1>2. task \notin Serving
  BY <1>1 DEF IInv, ServiceAlone
<1>3. \/ task' = task /\ sem' = sem
      \/ Give
  BY DEF Sender, Begin, LoadNumber, StoreNumber, LockTable, LookUpRoute,
         LockSend, Transmit, MakePending, Unlock
<1>4. task' \notin Serving
  BY <1>2, <1>3 DEF Give, Serving
<1>5. LockHeld'
  <2>1. locked \in BOOLEAN /\ (locked <=> sender \in Sending)
    BY DEF IInv, LockHeld
  <2>2. CASE Begin \/ LoadNumber \/ StoreNumber
    BY <2>1, <2>2 DEF Begin, LoadNumber, StoreNumber, SenderAt, LockHeld, Sending
  <2>3. CASE LockTable \/ LookUpRoute \/ Unlock
    BY <2>1, <2>3 DEF LockTable, LookUpRoute, Unlock, SenderAt, LockHeld, Sending
  <2>4. CASE LockSend \/ Transmit \/ MakePending
    BY <2>1, <2>4 DEF LockSend, Transmit, MakePending, SenderAt, LockHeld, Sending
  <2>. QED BY <2>2, <2>3, <2>4 DEF Sender
<1>6. ServiceAlone'
  BY <1>4 DEF ServiceAlone
<1>7. SignalKept' /\ SignalNoticed'
  BY <1>1, <1>3 DEF IInv, SignalKept, SignalNoticed, Give
<1>. QED BY <1>5, <1>6, <1>7 DEF IInv

\* A step of the wireless task leaves the sender where it is.
LEMMA ServiceStep == ASSUME IInv, ServiceLoop PROVE IInv'
<1>1. sender' = sender /\ cpu = "wireless"
  BY DEF ServiceLoop, TaskAt, CheckSignal, TakeSignal, Block, SkipService, ReadPacket, NoPacket,
         AnyMore, ClearFlag, HandlePacket, AnswerPacket, RetryPending
<1>2. locked \in BOOLEAN /\ (locked <=> sender \in Sending)
  BY DEF IInv, LockHeld
<1>3. LockHeld'
  <2>1. CASE AnswerPacket
    BY <2>1, <1>1, <1>2 DEF AnswerPacket, TaskAt, IInv, ServiceAlone, Serving, LockHeld
  <2>2. CASE ~AnswerPacket
    <3>1. locked' = locked
      BY <2>2 DEF ServiceLoop, CheckSignal, TakeSignal, Block, SkipService, ReadPacket, NoPacket,
         AnyMore, ClearFlag, HandlePacket, RetryPending
    <3>. QED BY <3>1, <1>1, <1>2 DEF LockHeld
  <2>. QED BY <2>1, <2>2
<1>4. ServiceAlone'
  <2>1. CASE CheckSignal \/ TakeSignal \/ Block \/ SkipService \/ RetryPending
    BY <2>1 DEF CheckSignal, TakeSignal, Block, SkipService, RetryPending, TaskAt, ServiceAlone, Serving
  <2>2. CASE ReadPacket \/ NoPacket
    BY <2>2, <1>1, <1>2 DEF ReadPacket, NoPacket, TaskAt, ServiceAlone, Serving
  <2>3. CASE AnyMore \/ ClearFlag \/ HandlePacket \/ AnswerPacket
    BY <2>3, <1>1 DEF AnyMore, ClearFlag, HandlePacket, AnswerPacket, TaskAt, IInv, ServiceAlone, Serving
  <2>. QED BY <2>1, <2>2, <2>3 DEF ServiceLoop
<1>5. SignalKept' /\ SignalNoticed'
  <2>1. CASE CheckSignal
    BY <2>1 DEF CheckSignal, TaskAt, radio, SignalKept, SignalNoticed
  <2>2. CASE Block
    BY <2>2 DEF Block, TaskAt, radio, IInv, SignalKept, SignalNoticed
  <2>3. CASE TakeSignal \/ SkipService \/ ReadPacket \/ NoPacket
    BY <2>3 DEF TakeSignal, SkipService, ReadPacket, NoPacket, TaskAt, SignalKept, SignalNoticed
  <2>4. CASE AnyMore \/ ClearFlag \/ HandlePacket \/ AnswerPacket \/ RetryPending
    BY <2>4 DEF AnyMore, ClearFlag, HandlePacket, AnswerPacket, RetryPending, TaskAt, SignalKept, SignalNoticed
  <2>. QED BY <2>1, <2>2, <2>3, <2>4 DEF ServiceLoop
<1>. QED BY <1>3, <1>4, <1>5 DEF IInv

\* The interrupts change neither the lock nor the sender.
LEMMA InterruptStep == ASSUME IInv, Arrive \/ Tick PROVE IInv'
<1>1. CASE Arrive
  <2>1. LockHeld'
    BY <1>1 DEF Arrive, IInv, LockHeld
  <2>2. ServiceAlone'
    BY <1>1 DEF Arrive, Give, IInv, ServiceAlone, Serving
  <2>3. SignalKept' /\ SignalNoticed'
    BY <1>1 DEF Arrive, Give, IInv, SignalKept, SignalNoticed
  <2>. QED BY <2>1, <2>2, <2>3 DEF IInv
<1>2. CASE Tick
  <2>1. LockHeld'
    BY <1>2 DEF Tick, IInv, LockHeld
  <2>2. ServiceAlone'
    BY <1>2 DEF Tick, IInv, ServiceAlone, Serving
  <2>3. SignalKept' /\ SignalNoticed'
    BY <1>2 DEF Tick, radio, IInv, SignalKept, SignalNoticed
  <2>. QED BY <2>1, <2>2, <2>3 DEF IInv
<1>. QED BY <1>1, <1>2

LEMMA Invariance == WirelessSpec => []IInv
<1>1. ASSUME IInv, [WirelessNext]_wirelessVars PROVE IInv'
  <2>1. CASE UNCHANGED wirelessVars
    BY <1>1, <2>1 DEF wirelessVars, radio, IInv, LockHeld, ServiceAlone, SignalKept, SignalNoticed
  <2>. QED BY <1>1, <2>1, SenderStep, ServiceStep, InterruptStep DEF WirelessNext
<1>. QED BY InitIInv, <1>1, PTL DEF WirelessSpec

\* mesh_service() and the critical sections of mesh_send() never overlap: the radio, the
\* routing table and the pending packets have one user at a time, whatever the load.
THEOREM RadioHasOneUser == WirelessSpec => []Exclusive
<1>1. IInv => Exclusive
  BY DEF IInv, ServiceAlone, Exclusive
<1>. QED BY <1>1, Invariance, PTL

\* The wireless task never blocks while the radio's interrupt line is active.
THEOREM NoSleepOverSignal == WirelessSpec => []SignalNoticed
<1>1. IInv => SignalNoticed
  BY DEF IInv
<1>. QED BY <1>1, Invariance, PTL

-----------------------------------------------------------------------------
(***************************************************************************)
(* Least numbers.                                                          *)
(***************************************************************************)
Less == OpToRel(<, Nat)

LEMMA LessDef == ASSUME NEW m \in Nat, NEW n \in Nat PROVE <<m, n>> \in Less <=> m < n
  BY DEF Less, OpToRel

\* Every set of numbers has a least one.
LEMMA LeastNumber == ASSUME NEW Z \in SUBSET Nat, Z # {} PROVE \E x \in Z : \A y \in Z : x <= y
<1>1. PICK x \in Z : \A y \in Z : ~ (<<y, x>> \in Less)
  <2>1. IsWellFoundedOn(Less, Nat)
    BY NatLessThanWellFounded DEF Less
  <2> QED
    BY <2>1, WFMin
<1>2. ASSUME NEW y \in Z PROVE x <= y
  <2>1. x \in Nat /\ y \in Nat /\ ~ (<<y, x>> \in Less)
    BY <1>1
  <2>2. ~ (y < x)
    BY <2>1, LessDef, Zenon
  <2> QED
    BY <2>1, <2>2
<1> QED
  BY <1>1, <1>2

LEMMA FirstOfIs == ASSUME NEW Z \in SUBSET Nat, Z # {} PROVE FirstOf(Z) \in Z
BY LeastNumber DEF FirstOf

-----------------------------------------------------------------------------
(***************************************************************************)
(* The routing table.                                                      *)
(***************************************************************************)
RouteFields == {"dst", "next", "hops", "score"}

\* Routes: a table of entries.  Sane: what RoutesSane says of the table of the node n whose
\* neighbours are near.
Routes(rte) ==
  /\ DOMAIN rte = 1 .. RteSize
  /\ \A i \in 1 .. RteSize : DOMAIN rte[i] = RouteFields /\ rte[i].score \in Nat

Sane(rte, n, near) ==
  \A i, j \in 1 .. RteSize :
    rte[i].dst # Zero =>
      /\ rte[i].dst # n
      /\ rte[i].dst = rte[j].dst => i = j
      /\ rte[i].next \in near
      /\ rte[i].hops = 0 <=> rte[i].next = rte[i].dst

LEMMA FindRouteIs ==
  ASSUME NEW rte, DOMAIN rte = 1 .. RteSize, NEW d, NEW r, r = FindRoute(rte, d)
  PROVE  \/ r = 0 /\ \A i \in 1 .. RteSize : rte[i].dst # d
         \/ r \in 1 .. RteSize /\ r # 0 /\ rte[r].dst = d
<1> DEFINE Z == {i \in DOMAIN rte : rte[i].dst = d}
<1>1. RteSize \in Nat /\ r = FirstOf(Z)
  BY MeshNodeAssumption DEF FindRoute
<1>2. Z \in SUBSET Nat
  BY <1>1
<1>3. CASE Z = {}
  BY <1>1, <1>3 DEF FirstOf
<1>4. CASE Z # {}
  <2>1. r \in Z
    <3> HIDE DEF Z
    <3> QED BY <1>1, <1>2, <1>4, FirstOfIs
  <2> QED
    BY <1>1, <2>1
<1> QED
  BY <1>3, <1>4

LEMMA LeastUsedIs ==
  ASSUME NEW rte, Routes(rte), NEW r, r = LeastUsed(rte)
  PROVE  r \in 1 .. RteSize
<1> DEFINE Z == {i \in DOMAIN rte : \A j \in DOMAIN rte : rte[i].score <= rte[j].score}
           S == {rte[i].score : i \in 1 .. RteSize}
<1>1. RteSize \in Nat /\ RteSize # 0 /\ r = FirstOf(Z)
  BY MeshNodeAssumption DEF LeastUsed
<1>2. Z \in SUBSET Nat
  BY <1>1 DEF Routes
<1>3. S \in SUBSET Nat /\ S # {}
  <2>1. 1 \in 1 .. RteSize
    BY <1>1
  <2> QED
    BY <2>1 DEF Routes
<1>4. PICK x \in S : \A y \in S : x <= y
  <2> HIDE DEF S
  <2> QED BY <1>3, LeastNumber
<1>5. Z # {}
  <2>1. PICK i \in 1 .. RteSize : x = rte[i].score
    BY <1>4
  <2>2. i \in Z
    BY <1>4, <2>1 DEF Routes
  <2> QED
    BY <2>2
<1>6. r \in Z
  <2> HIDE DEF Z
  <2> QED BY <1>1, <1>2, <1>5, FirstOfIs
<1> QED
  BY <1>6 DEF Routes

\* The entry for d: it names d or is empty, and no other entry names d.
ForRoute(rte, at, d) ==
  /\ at \in 1 .. RteSize /\ rte[at].dst \in {d, Zero}
  /\ \A i \in 1 .. RteSize : rte[i].dst = d /\ d # Zero => i = at

LEMMA RouteToModifyIs ==
  ASSUME NEW rte, NEW n, NEW near, Routes(rte), Sane(rte, n, near), NEW d, NEW m, m = RouteToModify(rte, d)
  PROVE  Routes(m.rte) /\ Sane(m.rte, n, near) /\ ForRoute(m.rte, m.at, d)
<1>1. PICK found : found = FindRoute(rte, d)
  OBVIOUS
<1>2. PICK free : free = FindRoute(rte, Zero)
  OBVIOUS
<1>3. PICK least : least = LeastUsed(rte)
  OBVIOUS
<1>4. /\ \/ found = 0 /\ \A i \in 1 .. RteSize : rte[i].dst # d
         \/ found \in 1 .. RteSize /\ found # 0 /\ rte[found].dst = d
      /\ \/ free = 0 /\ \A i \in 1 .. RteSize : rte[i].dst # Zero
         \/ free \in 1 .. RteSize /\ free # 0 /\ rte[free].dst = Zero
  <2>1. DOMAIN rte = 1 .. RteSize
    BY DEF Routes
  <2>2. \/ found = 0 /\ \A i \in 1 .. RteSize : rte[i].dst # d
        \/ found \in 1 .. RteSize /\ found # 0 /\ rte[found].dst = d
    BY ONLY <1>1, <2>1, FindRouteIs
  <2>3. \/ free = 0 /\ \A i \in 1 .. RteSize : rte[i].dst # Zero
        \/ free \in 1 .. RteSize /\ free # 0 /\ rte[free].dst = Zero
    BY ONLY <1>2, <2>1, FindRouteIs
  <2> QED
    BY <2>2, <2>3
<1>5. least \in 1 .. RteSize
  BY <1>3, LeastUsedIs
<1>6. CASE found # 0
  <2>1. m.rte = rte /\ m.at = found
    BY <1>1, <1>6 DEF RouteToModify
  <2> QED
    BY <1>4, <1>6, <2>1 DEF Sane, ForRoute
<1>7. CASE found = 0 /\ free # 0
  <2>1. m.rte = rte /\ m.at = free
    BY <1>1, <1>2, <1>7 DEF RouteToModify
  <2> QED
    BY <1>4, <1>7, <2>1 DEF ForRoute
<1>8. CASE found = 0 /\ free = 0
  <2>1. m.rte = [rte EXCEPT ![least] = NoRoute] /\ m.at = least
    BY <1>1, <1>2, <1>3, <1>8 DEF RouteToModify
  <2>2. PICK t : t = m.rte
    OBVIOUS
  <2>3. /\ DOMAIN t = 1 .. RteSize /\ t[least] = NoRoute
        /\ \A i \in 1 .. RteSize : i # least => t[i] = rte[i]
    BY <1>5, <2>1, <2>2 DEF Routes
  <2>4. DOMAIN NoRoute = RouteFields /\ NoRoute.score \in Nat /\ NoRoute.dst = Zero
    BY DEF NoRoute, RouteFields
  <2>5. Routes(t)
    BY <2>3, <2>4 DEF Routes
  <2>6. Sane(t, n, near)
    BY <2>3, <2>4, Zenon DEF Sane
  <2>7. ForRoute(t, least, d)
    BY <1>4, <1>5, <1>8, <2>3, <2>4 DEF ForRoute
  <2> QED
    BY <2>1, <2>2, <2>5, <2>6, <2>7
<1> QED
  BY <1>6, <1>7, <1>8

\* Only the scores differ.
SameWays(rte, b) ==
  \A i \in 1 .. RteSize : b[i].dst = rte[i].dst /\ b[i].next = rte[i].next /\ b[i].hops = rte[i].hops

LEMMA BumpScoreIs ==
  ASSUME NEW rte, Routes(rte), NEW i \in 1 .. RteSize, NEW b, b = BumpScore(rte, i)
  PROVE  Routes(b) /\ SameWays(rte, b)
<1>1. PICK up : up = [rte EXCEPT ![i].score = @ + 1]
  OBVIOUS
<1>2. Routes(up) /\ SameWays(rte, up)
  <2>0. PICK h : h = rte[i].score + 1
    OBVIOUS
  <2>1. /\ DOMAIN up = 1 .. RteSize
        /\ up[i] = [rte[i] EXCEPT !.score = h]
        /\ \A j \in 1 .. RteSize : j # i => up[j] = rte[j]
    BY <1>1, <2>0 DEF Routes
  <2>2. /\ DOMAIN up[i] = RouteFields /\ up[i].score = h /\ h \in Nat
        /\ up[i].dst = rte[i].dst /\ up[i].next = rte[i].next /\ up[i].hops = rte[i].hops
    BY <2>0, <2>1 DEF Routes, RouteFields
  <2>3. \A j \in 1 .. RteSize : DOMAIN up[j] = RouteFields /\ up[j].score \in Nat
    BY <2>1, <2>2 DEF Routes
  <2> QED
    BY <2>1, <2>2, <2>3 DEF Routes, SameWays
<1>3. CASE b = up
  BY <1>2, <1>3
<1>4. CASE b = [j \in DOMAIN up |-> [up[j] EXCEPT !.score = @ \div 2]]
  <2>1. DOMAIN b = 1 .. RteSize /\ \A j \in 1 .. RteSize : b[j] = [up[j] EXCEPT !.score = @ \div 2]
    BY <1>2, <1>4 DEF Routes
  <2>2. ASSUME NEW j \in 1 .. RteSize
        PROVE  /\ DOMAIN b[j] = RouteFields /\ b[j].score \in Nat
               /\ b[j].dst = up[j].dst /\ b[j].next = up[j].next /\ b[j].hops = up[j].hops
    <3>1. DOMAIN up[j] = RouteFields /\ up[j].score \in Nat
      BY <1>2 DEF Routes
    <3>2. PICK h : h = up[j].score \div 2
      OBVIOUS
    <3>3. h \in Nat
      BY <3>1, <3>2
    <3>4. b[j] = [up[j] EXCEPT !.score = h]
      BY <2>1, <3>2
    <3> QED
      BY <3>1, <3>3, <3>4 DEF RouteFields
  <2> QED
    BY <1>2, <2>1, <2>2 DEF Routes, SameWays
<1> QED
  BY <1>1, <1>3, <1>4 DEF BumpScore

LEMMA SameWaysSane ==
  ASSUME NEW rte, NEW b, SameWays(rte, b), NEW n, NEW near, Sane(rte, n, near)
  PROVE  Sane(b, n, near) /\ \A at, d : ForRoute(rte, at, d) => ForRoute(b, at, d)
BY DEF SameWays, Sane, ForRoute

\* An entry is filled in.
SetRoute(rte, at, d, x, h) == [rte EXCEPT ![at].dst = d, ![at].next = x, ![at].hops = h]

LEMMA SetRouteIs ==
  ASSUME NEW rte, NEW n, NEW near, Routes(rte), Sane(rte, n, near), NEW d, NEW at, ForRoute(rte, at, d),
         d # n, NEW x \in near, NEW h, d # Zero => (h = 0 <=> x = d),
         NEW t, t = SetRoute(rte, at, d, x, h)
  PROVE  Routes(t) /\ Sane(t, n, near)
<1>1. /\ DOMAIN t = 1 .. RteSize
      /\ \A j \in 1 .. RteSize : j # at => t[j] = rte[j]
  BY DEF Routes, SetRoute
<1>2. at \in 1 .. RteSize /\ DOMAIN rte[at] = RouteFields /\ rte[at].score \in Nat
  BY DEF ForRoute, Routes
<1>3. /\ DOMAIN t[at] = RouteFields /\ t[at].score = rte[at].score
      /\ t[at].dst = d /\ t[at].next = x /\ t[at].hops = h
  BY <1>2 DEF Routes, RouteFields, SetRoute
<1>4. Routes(t)
  BY <1>1, <1>2, <1>3 DEF Routes
<1>5. Sane(t, n, near)
  BY <1>1, <1>3 DEF Sane, ForRoute
<1> QED
  BY <1>4, <1>5

-----------------------------------------------------------------------------
(***************************************************************************)
(* Packets.  hop counts the nodes that passed a packet on: one that comes  *)
(* from its origin may have 0, one that comes from another node has more.  *)
(***************************************************************************)
PacketFields == {"nd", "ns", "md", "ms", "id", "type", "rem", "hop", "max", "data", "ver"}

\* A packet that a node with the neighbours near can hear.
Comes(p, near) ==
  /\ DOMAIN p = PacketFields /\ p.hop \in Nat
  /\ p.ms \in near
  /\ p.ms # p.ns /\ p.ns # Zero => p.hop > 0

LEMMA LearnOriginIs ==
  ASSUME NEW rte, NEW n, NEW near, Routes(rte), Sane(rte, n, near),
         NEW p, Comes(p, near), p.ms # p.ns, p.ns # n, NEW t, t = LearnOrigin(rte, p)
  PROVE  Routes(t) /\ Sane(t, n, near)
<1>1. PICK m : m = RouteToModify(rte, p.ns)
  OBVIOUS
<1>2. Routes(m.rte) /\ Sane(m.rte, n, near) /\ ForRoute(m.rte, m.at, p.ns)
  BY <1>1, RouteToModifyIs
<1>3. PICK b : b = BumpScore(m.rte, m.at)
  OBVIOUS
<1>4. Routes(b) /\ SameWays(m.rte, b)
  BY <1>2, <1>3, BumpScoreIs DEF ForRoute
<1>5. Sane(b, n, near) /\ ForRoute(b, m.at, p.ns)
  BY <1>2, <1>4, SameWaysSane
<1>6. CASE t = b
  BY <1>4, <1>5, <1>6
<1>7. CASE t = [b EXCEPT ![m.at].dst = p.ns, ![m.at].next = p.ms, ![m.at].hops = p.hop]
  <2>1. p.ns # Zero => (p.hop = 0 <=> p.ms = p.ns)
    BY DEF Comes
  <2>2. p.ms \in near
    BY DEF Comes
  <2>3. t = SetRoute(b, m.at, p.ns, p.ms, p.hop)
    BY <1>7 DEF SetRoute
  <2> QED
    BY <1>4, <1>5, <2>1, <2>2, <2>3, SetRouteIs
<1> QED
  BY <1>1, <1>3, <1>6, <1>7 DEF LearnOrigin

LEMMA LearnNeighbourIs ==
  ASSUME NEW rte, NEW n, NEW near, Routes(rte), Sane(rte, n, near),
         NEW p, p.ms \in near, p.ms # n, NEW t, t = LearnNeighbour(rte, p)
  PROVE  Routes(t) /\ Sane(t, n, near)
<1>1. PICK m : m = RouteToModify(rte, p.ms)
  OBVIOUS
<1>2. Routes(m.rte) /\ Sane(m.rte, n, near) /\ ForRoute(m.rte, m.at, p.ms)
  BY <1>1, RouteToModifyIs
<1>3. PICK b : b = [m.rte EXCEPT ![m.at].dst = p.ms, ![m.at].next = p.ms, ![m.at].hops = 0]
  OBVIOUS
<1>4. Routes(b) /\ Sane(b, n, near)
  <2>1. b = SetRoute(m.rte, m.at, p.ms, p.ms, 0)
    BY <1>3 DEF SetRoute
  <2>2. p.ms # Zero => (0 = 0 <=> p.ms = p.ms)
    OBVIOUS
  <2> QED
    BY <1>2, <2>1, <2>2, SetRouteIs
<1>5. m.at \in 1 .. RteSize
  BY <1>2 DEF ForRoute
<1>6. t = BumpScore(b, m.at)
  BY <1>1, <1>3 DEF LearnNeighbour
<1>7. Routes(t) /\ SameWays(b, t)
  BY <1>4, <1>5, <1>6, BumpScoreIs
<1> QED
  BY <1>4, <1>7, SameWaysSane

-----------------------------------------------------------------------------
(***************************************************************************)
(* A node.  Hopped: a packet of the node n or one that n was to pass on.   *)
(* Leaves: one that n transmits.  Held: an entry of a pending array.       *)
(***************************************************************************)
NodeFields == {"me", "rpt", "retry", "seq", "rte", "hist", "wptr", "mesh", "own", "out", "app"}

Hopped(p, n) == DOMAIN p = PacketFields /\ p.hop \in Nat /\ (p.ns \notin {n, Zero} => p.hop > 0)
Leaves(p, n) == Hopped(p, n) /\ p.ms = n
Held(e, n) == DOMAIN e = {"pkt", "disc"} /\ Hopped(e.pkt, n)
AllHeld(arr, n, size) == DOMAIN arr = 1 .. size /\ \A i \in 1 .. size : Held(arr[i], n)
AllLeave(q, n) == \E Z : q \in Seq(Z) /\ \A p \in Z : Leaves(p, n)

NodeOK(c, n, near) ==
  /\ DOMAIN c = NodeFields
  /\ c.me = n
  /\ Routes(c.rte) /\ Sane(c.rte, n, near)
  /\ AllHeld(c.mesh, n, MeshPend) /\ AllHeld(c.own, n, OwnPend)
  /\ AllLeave(c.out, n)

LEMMA NoneLeave == ASSUME NEW n PROVE AllLeave(<< >>, n)
<1>1. PICK Y : Y = {}
  OBVIOUS
<1>2. << >> \in Seq(Y) /\ \A x \in Y : Leaves(x, n)
  BY <1>1
<1> QED
  BY <1>2 DEF AllLeave

LEMMA OneMoreLeaves ==
  ASSUME NEW q, NEW n, AllLeave(q, n), NEW p, Leaves(p, n)
  PROVE  AllLeave(Append(q, p), n)
<1>1. PICK Z : q \in Seq(Z) /\ \A x \in Z : Leaves(x, n)
  BY DEF AllLeave
<1>2. q \in Seq(Z \cup {p})
  BY <1>1
<1>3. Append(q, p) \in Seq(Z \cup {p}) /\ \A x \in Z \cup {p} : Leaves(x, n)
  BY <1>1, <1>2
<1> QED
  BY <1>3 DEF AllLeave

LEMMA BothLeave ==
  ASSUME NEW q, NEW r, NEW n, AllLeave(q, n), AllLeave(r, n)
  PROVE  AllLeave(q \o r, n)
<1>1. PICK Y : q \in Seq(Y) /\ \A x \in Y : Leaves(x, n)
  BY DEF AllLeave
<1>2. PICK Z : r \in Seq(Z) /\ \A x \in Z : Leaves(x, n)
  BY DEF AllLeave
<1>3. q \in Seq(Y \cup Z) /\ r \in Seq(Y \cup Z)
  BY <1>1, <1>2
<1>4. q \o r \in Seq(Y \cup Z) /\ \A x \in Y \cup Z : Leaves(x, n)
  BY <1>1, <1>2, <1>3
<1> QED
  BY <1>4 DEF AllLeave

LEMMA HistoryOfIs ==
  ASSUME NEW c, DOMAIN c = NodeFields, NEW p, NEW h, h = HistoryOf(c, p)
  PROVE  /\ DOMAIN h = NodeFields
         /\ h.me = c.me /\ h.rte = c.rte /\ h.mesh = c.mesh /\ h.own = c.own /\ h.out = c.out
         /\ h.seq = c.seq /\ h.retry = c.retry
<1>1. CASE IsDuplicate(c, p)
  <2>1. h = [c EXCEPT !.hist[SeenAt(c, p)].rem = p.rem]
    BY <1>1 DEF HistoryOf
  <2> QED
    BY <2>1 DEF NodeFields
<1>2. CASE ~ IsDuplicate(c, p)
  <2>1. h = [c EXCEPT !.hist[c.wptr] = [src |-> p.ns, id |-> p.id, rem |-> p.rem],
                      !.wptr = IF @ = HistSize THEN 1 ELSE @ + 1]
    BY <1>2 DEF HistoryOf
  <2> QED
    BY <2>1 DEF NodeFields
<1> QED
  BY <1>1, <1>2

LEMMA HistoryAndRoutingIs ==
  ASSUME NEW c, NEW n, NEW near, NodeOK(c, n, near), NEW p, Comes(p, near), p.ms # n,
         NEW h, h = HistoryAndRouting(c, p)
  PROVE  /\ NodeOK(h, n, near)
         /\ h.mesh = c.mesh /\ h.own = c.own /\ h.out = c.out /\ h.seq = c.seq /\ h.retry = c.retry
<1>1. PICK origin : origin = IF ~ IsDuplicate(c, p) /\ p.ms # p.ns /\ p.ns # c.me THEN LearnOrigin(c.rte, p) ELSE c.rte
  OBVIOUS
<1>2. Routes(origin) /\ Sane(origin, n, near)
  <2>1. Routes(c.rte) /\ Sane(c.rte, n, near) /\ c.me = n
    BY DEF NodeOK
  <2>2. CASE origin = c.rte
    BY <2>1, <2>2
  <2>3. CASE p.ms # p.ns /\ p.ns # n /\ origin = LearnOrigin(c.rte, p)
    BY <2>1, <2>3, LearnOriginIs
  <2> QED
    BY <1>1, <2>1, <2>2, <2>3
<1>3. PICK t : t = LearnNeighbour(origin, p)
  OBVIOUS
<1>4. Routes(t) /\ Sane(t, n, near)
  BY <1>2, <1>3, LearnNeighbourIs DEF Comes
<1>5. PICK k : k = HistoryOf(c, p)
  OBVIOUS
<1>6. /\ DOMAIN k = NodeFields
      /\ k.me = c.me /\ k.mesh = c.mesh /\ k.own = c.own /\ k.out = c.out
      /\ k.seq = c.seq /\ k.retry = c.retry
  BY <1>5, HistoryOfIs DEF NodeOK
<1>7. h = [k EXCEPT !.rte = t]
  BY <1>1, <1>3, <1>5 DEF HistoryAndRouting
<1>8. /\ DOMAIN h = NodeFields /\ h.rte = t /\ h.me = c.me /\ h.mesh = c.mesh /\ h.own = c.own
      /\ h.out = c.out /\ h.seq = c.seq /\ h.retry = c.retry
  BY <1>6, <1>7 DEF NodeFields
<1> QED
  BY <1>4, <1>8 DEF NodeOK

-----------------------------------------------------------------------------
(***************************************************************************)
(* Each function of mesh.c keeps a node a node.                            *)
(***************************************************************************)
LEMMA SendPacketIs ==
  ASSUME NEW c, NEW n, NEW near, NodeOK(c, n, near), NEW p, Hopped(p, n), NEW d, d = SendPacket(c, p)
  PROVE  NodeOK(d, n, near)
<1>1. PICK q : q = [p EXCEPT !.ms = c.me]
  OBVIOUS
<1>2. Leaves(q, n)
  <2>1. c.me = n
    BY DEF NodeOK
  <2> QED
    BY <1>1, <2>1 DEF Hopped, Leaves, PacketFields
<1>3. PICK out : out = Append(c.out, q)
  OBVIOUS
<1>4. AllLeave(out, n)
  <2>1. AllLeave(c.out, n)
    BY DEF NodeOK
  <2> QED
    BY <1>2, <1>3, <2>1, OneMoreLeaves
<1>5. d = [c EXCEPT !.out = out]
  BY <1>1, <1>3 DEF SendPacket
<1>6. /\ DOMAIN d = NodeFields /\ d.out = out
      /\ d.me = c.me /\ d.rte = c.rte /\ d.mesh = c.mesh /\ d.own = c.own
  BY <1>5 DEF NodeOK, NodeFields
<1> QED
  BY <1>4, <1>6 DEF NodeOK

LEMMA AddPendingIs ==
  ASSUME NEW c, NEW n, NEW near, NodeOK(c, n, near), NEW p, Hopped(p, n), NEW k, NEW d, d = AddPending(c, p, k)
  PROVE  NodeOK(d, n, near)
<1>1. PICK held : held = [p EXCEPT !.rem = c.retry]
  OBVIOUS
<1>2. Hopped(held, n)
  BY <1>1 DEF Hopped, PacketFields
<1>3. DOMAIN c = NodeFields /\ AllHeld(c.mesh, n, MeshPend) /\ AllHeld(c.own, n, OwnPend)
  BY DEF NodeOK
<1>4. CASE p.ns = c.me
  <2>1. PICK o : o = PendingSlot(c.own, k)
    OBVIOUS
  <2>2. d = [c EXCEPT !.own[o].pkt = held]
    BY <1>1, <1>4, <2>1 DEF AddPending
  <2>3. PICK own : own = [c.own EXCEPT ![o].pkt = held]
    OBVIOUS
  <2>4. ASSUME NEW i \in 1 .. OwnPend PROVE Held(own[i], n)
    <3>1. Held(c.own[i], n) /\ DOMAIN c.own = 1 .. OwnPend
      BY <1>3 DEF AllHeld
    <3>2. CASE i = o
      <4>1. own[i] = [c.own[i] EXCEPT !.pkt = held]
        BY <2>3, <3>1, <3>2
      <4> QED
        BY <1>2, <3>1, <4>1 DEF Held
    <3>3. CASE i # o
      BY <2>3, <3>1, <3>3
    <3> QED
      BY <3>2, <3>3
  <2>5. AllHeld(own, n, OwnPend)
    BY <1>3, <2>3, <2>4 DEF AllHeld
  <2>6. /\ DOMAIN d = NodeFields /\ d.own = own
        /\ d.me = c.me /\ d.rte = c.rte /\ d.mesh = c.mesh /\ d.out = c.out
    BY <1>3, <2>2, <2>3 DEF NodeFields
  <2> QED
    BY <2>5, <2>6 DEF NodeOK
<1>5. CASE p.ns # c.me
  <2>1. PICK o : o = PendingSlot(c.mesh, k)
    OBVIOUS
  <2>2. PICK e : e = [pkt |-> held, disc |-> c.mesh[o].disc \/ p.md = Zero]
    OBVIOUS
  <2>3. d = [c EXCEPT !.mesh[o] = e]
    BY <1>1, <1>5, <2>1, <2>2 DEF AddPending
  <2>4. PICK mesh : mesh = [c.mesh EXCEPT ![o] = e]
    OBVIOUS
  <2>5. Held(e, n)
    BY <1>2, <2>2 DEF Held
  <2>6. AllHeld(mesh, n, MeshPend)
    BY <1>3, <2>4, <2>5 DEF AllHeld
  <2>7. /\ DOMAIN d = NodeFields /\ d.mesh = mesh
        /\ d.me = c.me /\ d.rte = c.rte /\ d.own = c.own /\ d.out = c.out
    BY <1>3, <2>3, <2>4 DEF NodeFields
  <2> QED
    BY <2>6, <2>7 DEF NodeOK
<1> QED
  BY <1>4, <1>5

LEMMA SendFormedIs ==
  ASSUME NEW c, NEW n, NEW near, NodeOK(c, n, near), NEW p, Hopped(p, n), NEW k, NEW d, d = SendFormed(c, p, k)
  PROVE  NodeOK(d, n, near)
<1>1. PICK sent1 : sent1 = SendPacket(c, p)
  OBVIOUS
<1>2. NodeOK(sent1, n, near)
  BY <1>1, SendPacketIs
<1>3. d = sent1 \/ d = AddPending(sent1, p, k)
  BY <1>1 DEF SendFormed
<1> QED
  BY <1>2, <1>3, AddPendingIs

LEMMA MeshSendIs ==
  ASSUME NEW c, NEW n, NEW near, NodeOK(c, n, near), NEW dst, NEW type, NEW data, NEW maxhops, NEW k,
         NEW d, d = MeshSend(c, dst, type, data, maxhops, k)
  PROVE  NodeOK(d, n, near)
<1>1. PICK p : p = FormPacket(c, dst, type, maxhops, data)
  OBVIOUS
<1>2. PICK f : f = FormEffect(c, dst)
  OBVIOUS
<1>3. Hopped(p, n)
  <2>1. c.me = n
    BY DEF NodeOK
  <2>2. DOMAIN p = PacketFields /\ p.ns = c.me /\ p.hop = 0
    BY <1>1 DEF FormPacket, NoPkt, PacketFields
  <2> QED
    BY <2>1, <2>2 DEF Hopped
<1>4. NodeOK(f, n, near)
  <2>1. PICK r : r = FindRoute(c.rte, dst)
    OBVIOUS
  <2>2. PICK t : t = IF r = 0 THEN c.rte ELSE BumpScore(c.rte, r)
    OBVIOUS
  <2>3. f = [c EXCEPT !.seq = NextSeq(c), !.rte = t]
    BY <1>2, <2>1, <2>2 DEF FormEffect
  <2>4. Routes(c.rte) /\ Sane(c.rte, n, near)
    BY DEF NodeOK
  <2>5. Routes(t) /\ Sane(t, n, near)
    <3>1. CASE r = 0
      BY <2>2, <2>4, <3>1
    <3>2. CASE r # 0
      <4>1. r \in 1 .. RteSize
        BY <2>1, <2>4, <3>2, FindRouteIs DEF Routes
      <4>2. t = BumpScore(c.rte, r)
        BY <2>2, <3>2
      <4>3. Routes(t) /\ SameWays(c.rte, t)
        BY <2>4, <4>1, <4>2, BumpScoreIs
      <4> QED
        BY <2>4, <4>3, SameWaysSane
    <3> QED
      BY <3>1, <3>2
  <2>6. /\ DOMAIN f = NodeFields /\ f.rte = t
        /\ f.me = c.me /\ f.mesh = c.mesh /\ f.own = c.own /\ f.out = c.out
    BY <2>3 DEF NodeOK, NodeFields
  <2> QED
    BY <2>5, <2>6 DEF NodeOK
<1>5. d = c \/ d = SendFormed(f, p, k)
  BY <1>1, <1>2 DEF MeshSend
<1> QED
  BY <1>3, <1>4, <1>5, SendFormedIs

\* What the application is given does not matter.
LEMMA ToApplicationIs ==
  ASSUME NEW c, NEW n, NEW near, NodeOK(c, n, near), NEW p, NEW d, d = [c EXCEPT !.app = Append(@, p)]
  PROVE  NodeOK(d, n, near)
<1>1. /\ DOMAIN d = NodeFields
      /\ d.me = c.me /\ d.rte = c.rte /\ d.mesh = c.mesh /\ d.own = c.own /\ d.out = c.out
  BY DEF NodeOK, NodeFields
<1> QED
  BY <1>1 DEF NodeOK

LEMMA HandleOurPacketIs ==
  ASSUME NEW c, NEW n, NEW near, NodeOK(c, n, near), NEW p, NEW dup, NEW k, NEW d, d = HandleOurPacket(c, p, dup, k)
  PROVE  NodeOK(d, n, near)
<1>1. PICK a : a = IF ~ dup /\ p.data THEN [c EXCEPT !.app = Append(@, p)] ELSE c
  OBVIOUS
<1>2. NodeOK(a, n, near)
  BY <1>1, ToApplicationIs
<1>3. \/ d = a
      \/ d = SendAck(a, p, TRUE, k)
      \/ d = SendAck(a, p, FALSE, k)
  BY <1>1 DEF HandleOurPacket
<1>4. CASE d = SendAck(a, p, TRUE, k)
  BY <1>2, <1>4, MeshSendIs DEF SendAck
<1>5. CASE d = SendAck(a, p, FALSE, k)
  BY <1>2, <1>5, MeshSendIs DEF SendAck
<1> QED
  BY <1>2, <1>3, <1>4, <1>5

\* What a received packet makes of a node: the node, and the packet that may be an answer.
LEMMA HandleMeshPacketIs ==
  ASSUME NEW c, NEW n, NEW near, NodeOK(c, n, near), NEW p, Comes(p, near), NEW k,
         NEW d, d = HandleMeshPacket(c, p, k).node
  PROVE  NodeOK(d, n, near)
<1>1. PICK next : next = IF FindRoute(c.rte, p.nd) = 0 THEN Zero ELSE c.rte[FindRoute(c.rte, p.nd)].next
  OBVIOUS
<1>2. PICK more : more = p.hop + 1
  OBVIOUS
<1>3. PICK hopped : hopped = [p EXCEPT !.hop = more]
  OBVIOUS
<1>4. PICK onward : onward = [hopped EXCEPT !.md = next, !.ms = c.me]
  OBVIOUS
<1>5. /\ DOMAIN hopped = PacketFields /\ hopped.hop = more /\ hopped.ns = p.ns
      /\ DOMAIN onward = PacketFields /\ onward.hop = more /\ onward.ns = p.ns
  BY <1>3, <1>4 DEF Comes, PacketFields
<1>6. more \in Nat /\ more > 0
  BY <1>2 DEF Comes
<1>7. Hopped(hopped, n) /\ Hopped(onward, n)
  BY <1>5, <1>6 DEF Hopped
<1>8. PICK sent1 : sent1 = SendPacket(c, onward)
  OBVIOUS
<1>9. NodeOK(sent1, n, near)
  BY <1>7, <1>8, SendPacketIs
<1>10. d = AddPending(c, hopped, k) \/ d = c \/ d = AddPending(sent1, onward, k) \/ d = sent1
  BY <1>1, <1>2, <1>3, <1>4, <1>8 DEF HandleMeshPacket
<1>11. CASE d = AddPending(c, hopped, k)
  BY <1>7, <1>11, AddPendingIs
<1>12. CASE d = AddPending(sent1, onward, k)
  BY <1>7, <1>9, <1>12, AddPendingIs
<1> QED
  BY <1>9, <1>10, <1>11, <1>12

LEMMA HandleBroadcastIs ==
  ASSUME NEW c, NEW n, NEW near, NodeOK(c, n, near), NEW p, Comes(p, near), NEW d, d = HandleBroadcast(c, p)
  PROVE  NodeOK(d, n, near)
<1>1. PICK a : a = [c EXCEPT !.app = Append(@, p)]
  OBVIOUS
<1>2. NodeOK(a, n, near)
  BY <1>1, ToApplicationIs
<1>3. PICK more : more = p.hop + 1
  OBVIOUS
<1>4. PICK hopped : hopped = [p EXCEPT !.hop = more]
  OBVIOUS
<1>5. DOMAIN hopped = PacketFields /\ hopped.hop = more /\ more \in Nat /\ more > 0
  BY <1>3, <1>4 DEF Comes, PacketFields
<1>6. Hopped(hopped, n)
  BY <1>5 DEF Hopped
<1>7. d = a \/ d = SendPacket(a, hopped)
  BY <1>1, <1>3, <1>4 DEF HandleBroadcast
<1> QED
  BY <1>2, <1>6, <1>7, SendPacketIs

LEMMA ReceivedIs ==
  ASSUME NEW c, NEW n, NEW near, NodeOK(c, n, near), NEW p, Comes(p, near), NEW k,
         NEW d, d = Received(c, p, k).node
  PROVE  NodeOK(d, n, near)
<1>1. PICK h : h = HistoryAndRouting(c, p)
  OBVIOUS
<1>2. c.me = n
  BY DEF NodeOK
<1>3. CASE ~ p.ver \/ p.ms = c.me
  <2>1. d = c
    BY <1>3 DEF Received
  <2> QED
    BY <2>1
<1>4. CASE p.ms # n /\ p.ver
  <2>1. NodeOK(h, n, near)
    BY <1>1, <1>4, HistoryAndRoutingIs
  <2>2. \/ d = h
        \/ d = HandleBroadcast(h, p)
        \/ d = HandleOurPacket(h, p, IsDuplicate(c, p), k)
        \/ d = HandleMeshPacket(h, p, k).node
    BY <1>1, <1>2, <1>4 DEF Received
  <2>3. CASE d = HandleBroadcast(h, p)
    BY <2>1, <2>3, HandleBroadcastIs
  <2>4. CASE d = HandleOurPacket(h, p, IsDuplicate(c, p), k)
    BY <2>1, <2>4, HandleOurPacketIs
  <2>5. CASE d = HandleMeshPacket(h, p, k).node
    BY <2>1, <2>5, HandleMeshPacketIs
  <2> QED
    BY <2>1, <2>2, <2>3, <2>4, <2>5
<1> QED
  BY <1>2, <1>3, <1>4

-----------------------------------------------------------------------------
\* What becomes of a pending packet.
Handled(r, n) == DOMAIN r = {"entry", "out", "lost"} /\ Held(r.entry, n) /\ AllLeave(r.out, n)

LEMMA KeepIs == ASSUME NEW e, NEW n, Held(e, n), NEW r, r = Keep(e) PROVE Handled(r, n)
<1>1. DOMAIN r = {"entry", "out", "lost"} /\ r.entry = e /\ r.out = << >>
  BY DEF Keep
<1> QED
  BY <1>1, NoneLeave DEF Handled

LEMMA EmptyIs == ASSUME NEW n PROVE Held(NoPending, n)
BY DEF Held, NoPending, NoPkt, Hopped, PacketFields, Zero

\* An entry keeps e and p is transmitted.
LEMMA SentIs ==
  ASSUME NEW e, NEW n, Held(e, n), NEW p, Leaves(p, n), NEW r, DOMAIN r = {"entry", "out", "lost"},
         r.entry = e, r.out = << p >>
  PROVE  Handled(r, n)
<1>1. << p >> = Append(<< >>, p)
  OBVIOUS
<1>2. AllLeave(<< p >>, n)
  BY <1>1, NoneLeave, OneMoreLeaves
<1> QED
  BY <1>2 DEF Handled

LEMMA RetransmitIs ==
  ASSUME NEW c, NEW n, c.me = n, NEW p, Hopped(p, n), NEW q, q = Retransmit(c, p)
  PROVE  Leaves(q, n)
<1>1. PICK x : x = (p.rem + 7) % 8
  OBVIOUS
<1>2. q = [p EXCEPT !.rem = x, !.ms = c.me]
  BY <1>1 DEF Retransmit
<1> QED
  BY <1>2 DEF Leaves, Hopped, PacketFields

LEMMA PutPacketIs ==
  ASSUME NEW e, NEW n, Held(e, n), NEW p, Hopped(p, n), NEW d, d = [e EXCEPT !.pkt = p]
  PROVE  Held(d, n)
BY DEF Held

LEMMA PendingDiscoveryIs ==
  ASSUME NEW c, NEW n, c.me = n, NEW e, Held(e, n), NEW rcv, NEW due,
         NEW r, r = PendingDiscovery(c, e, rcv, due)
  PROVE  Handled(r, n)
<1>1. CASE r = Clear
  BY <1>1, EmptyIs, KeepIs DEF Clear
<1>2. CASE r = Keep(e)
  BY <1>2, KeepIs
<1>3. CASE r = [Clear EXCEPT !.out = <<[e.pkt EXCEPT !.ms = c.me]>>]
  <2>1. PICK q : q = [e.pkt EXCEPT !.ms = c.me]
    OBVIOUS
  <2>2. Leaves(q, n)
    BY <2>1 DEF Held, Leaves, Hopped, PacketFields
  <2>3. DOMAIN r = {"entry", "out", "lost"} /\ r.entry = NoPending /\ r.out = << q >>
    BY <1>3, <2>1 DEF Clear, Keep
  <2> QED
    BY <2>2, <2>3, EmptyIs, SentIs
<1> QED
  BY <1>1, <1>2, <1>3 DEF PendingDiscovery

LEMMA PendingExpiredIs ==
  ASSUME NEW c, NEW n, c.me = n, NEW e, Held(e, n), NEW r, r = PendingExpired(c, e)
  PROVE  Handled(r, n)
<1>1. PICK again : again = Retransmit(c, e.pkt)
  OBVIOUS
<1>2. PICK off : off = [e.pkt EXCEPT !.md = Zero, !.max = DiscHops]
  OBVIOUS
<1>3. PICK unrouted : unrouted = Retransmit(c, off)
  OBVIOUS
<1>4. PICK held : held = [unrouted EXCEPT !.rem = c.retry]
  OBVIOUS
<1>5. Hopped(off, n)
  BY <1>2 DEF Held, Hopped, PacketFields
<1>6. Leaves(again, n) /\ Hopped(again, n)
  BY <1>1, RetransmitIs DEF Held, Leaves
<1>7. Leaves(unrouted, n) /\ Hopped(unrouted, n)
  BY <1>3, <1>5, RetransmitIs DEF Leaves
<1>8. Hopped(held, n)
  BY <1>4, <1>7 DEF Hopped, PacketFields
<1>9. \/ r = [Keep([e EXCEPT !.pkt = again]) EXCEPT !.out = << again >>]
      \/ r = [entry |-> [e EXCEPT !.pkt = held], out |-> << unrouted >>, lost |-> e.pkt.nd]
      \/ r = [Clear EXCEPT !.lost = e.pkt.nd]
  BY <1>1, <1>2, <1>3, <1>4 DEF PendingExpired
<1>10. CASE r = [Keep([e EXCEPT !.pkt = again]) EXCEPT !.out = << again >>]
  <2>1. PICK d : d = [e EXCEPT !.pkt = again]
    OBVIOUS
  <2>2. Held(d, n)
    BY <1>6, <2>1, PutPacketIs
  <2>3. DOMAIN r = {"entry", "out", "lost"} /\ r.entry = d /\ r.out = << again >>
    BY <1>10, <2>1 DEF Keep
  <2> QED
    BY <1>6, <2>2, <2>3, SentIs
<1>11. CASE r = [entry |-> [e EXCEPT !.pkt = held], out |-> << unrouted >>, lost |-> e.pkt.nd]
  <2>1. PICK d : d = [e EXCEPT !.pkt = held]
    OBVIOUS
  <2>2. Held(d, n)
    BY <1>8, <2>1, PutPacketIs
  <2>3. DOMAIN r = {"entry", "out", "lost"} /\ r.entry = d /\ r.out = << unrouted >>
    BY <1>11, <2>1
  <2> QED
    BY <1>7, <2>2, <2>3, SentIs
<1>12. CASE r = [Clear EXCEPT !.lost = e.pkt.nd]
  <2>1. DOMAIN r = {"entry", "out", "lost"} /\ r.entry = NoPending /\ r.out = << >>
    BY <1>12 DEF Clear, Keep
  <2> QED
    BY <2>1, EmptyIs, NoneLeave DEF Handled
<1> QED
  BY <1>9, <1>10, <1>11, <1>12

LEMMA PendingEntryIs ==
  ASSUME NEW c, NEW n, c.me = n, NEW e, Held(e, n), NEW rcv, NEW due, NEW r, r = PendingEntry(c, e, rcv, due)
  PROVE  Handled(r, n)
<1>1. CASE r = Keep(e)
  BY <1>1, KeepIs
<1>2. CASE r = PendingDiscovery(c, e, rcv, due)
  BY <1>2, PendingDiscoveryIs
<1>3. CASE r = PendingRouted(c, e, rcv, due)
  <2>1. CASE r = Clear
    BY <2>1, EmptyIs, KeepIs DEF Clear
  <2>2. CASE r = Keep([e EXCEPT !.pkt.rem = 0])
    <3>1. PICK p : p = [e.pkt EXCEPT !.rem = 0]
      OBVIOUS
    <3>2. PICK d : d = [e EXCEPT !.pkt = p]
      OBVIOUS
    <3>3. Hopped(p, n)
      BY <3>1 DEF Held, Hopped, PacketFields
    <3>4. Held(d, n)
      BY <3>2, <3>3, PutPacketIs
    <3>5. r = Keep(d)
      BY <2>2, <3>1, <3>2
    <3> QED
      BY <3>4, <3>5, KeepIs
  <2>3. CASE r = PendingExpired(c, e)
    BY <2>3, PendingExpiredIs
  <2> QED
    BY <1>1, <1>3, <2>1, <2>2, <2>3 DEF PendingRouted
<1> QED
  BY <1>1, <1>2, <1>3 DEF PendingEntry

-----------------------------------------------------------------------------
(***************************************************************************)
(* Folds over sequences.  The library defines a fold by a recursive        *)
(* function on sets of numbers, which has to be shown to exist; induction  *)
(* over its length is by the least number of which something is false.     *)
(***************************************************************************)
\* A set of numbers with 0 and the successor of each has them all: the least that it does
\* not have would be the successor of one that it has.
LEMMA Induct == ASSUME NEW Z, 0 \in Z, \A n \in Nat : n \in Z => n + 1 \in Z PROVE Nat \subseteq Z
  <1> DEFINE T == Nat \ Z
  <1>1. SUFFICES ASSUME T # {} PROVE FALSE
    OBVIOUS
  <1>2. PICK x \in T : \A y \in T : ~ (<<y, x>> \in Less)
    <2>1. IsWellFoundedOn(Less, Nat)
      BY NatLessThanWellFounded DEF Less
    <2> QED
      BY <1>1, <2>1, WFMin
  <1>3. x \in Nat /\ x # 0 /\ x \notin Z
    OBVIOUS
  <1>4. x - 1 \in Nat /\ x - 1 < x /\ (x - 1) + 1 = x
    BY <1>3
  <1>5. x - 1 \in T
    BY <1>3, <1>4
  <1>6. <<x - 1, x>> \in Less
    BY <1>3, <1>4, LessDef
  <1> QED
    BY <1>2, <1>5, <1>6

\* The largest of a set of numbers.
LEMMA MaxIs == ASSUME NEW Z \in SUBSET Nat, NEW x \in Z, \A y \in Z : x >= y PROVE Max(Z) = x
  <1>1. Max(Z) \in Z /\ \A y \in Z : Max(Z) >= y BY DEF Max
  <1>2. Max(Z) \in Nat /\ Max(Z) >= x /\ x >= Max(Z) /\ x \in Nat BY <1>1
  <1> QED BY <1>2

\* What the recursive function of a fold over 1 .. n computes, G being the step.
Iter(n, D, base, G, g) ==
  /\ g \in [SUBSET (1 .. n) -> D] /\ g[{}] = base
  /\ \A s \in SUBSET (1 .. n) : s # {} => Max(s) \in s /\ g[s] = G[<<Max(s), g[s \ {Max(s)}]>>]

LEMMA IterExists ==
  ASSUME NEW n \in Nat, NEW D, NEW base \in D, NEW G \in [(1 .. n) \X D -> D]
  PROVE  \E g : Iter(n, D, base, G, g)
  <1> DEFINE Z == {k \in Nat : k <= n => \E g : Iter(k, D, base, G, g)}
  <1>1. 0 \in Z
    <2> DEFINE g == [s \in SUBSET (1 .. 0) |-> base]
    <2>1. SUBSET (1 .. 0) = {{}} OBVIOUS
    <2>2. Iter(0, D, base, G, g) BY <2>1 DEF Iter
    <2> QED BY <2>2
  <1>2. ASSUME NEW k \in Nat, k \in Z, k + 1 <= n PROVE \E g : Iter(k + 1, D, base, G, g)
    <2>1. PICK f : Iter(k, D, base, G, f) BY <1>2
    <2> DEFINE g == [s \in SUBSET (1 .. k + 1) |-> IF k + 1 \in s THEN G[<<k + 1, f[s \ {k + 1}]>>] ELSE f[s]]
    <2>2. ASSUME NEW s \in SUBSET (1 .. k + 1), k + 1 \in s
          PROVE  /\ s \ {k + 1} \in SUBSET (1 .. k) /\ s \ {k + 1} \in SUBSET (1 .. k + 1)
                 /\ Max(s) = k + 1 /\ g[s] \in D /\ g[s] = G[<<k + 1, g[s \ {k + 1}]>>]
      <3>1. s \ {k + 1} \in SUBSET (1 .. k) BY <2>2
      <3>2. s \ {k + 1} \in SUBSET (1 .. k + 1) /\ k + 1 \notin s \ {k + 1} BY <2>2
      <3>3. Max(s) = k + 1
        <4>1. s \in SUBSET Nat /\ \A y \in s : k + 1 >= y OBVIOUS
        <4> QED BY <4>1, <2>2, MaxIs
      <3>4. f[s \ {k + 1}] \in D BY <2>1, <3>1 DEF Iter
      <3>5. g[s] = G[<<k + 1, f[s \ {k + 1}]>>] /\ g[s \ {k + 1}] = f[s \ {k + 1}] BY <2>2, <3>2
      <3>6. k + 1 \in 1 .. n BY <1>2
      <3>7. <<k + 1, f[s \ {k + 1}]>> \in (1 .. n) \X D BY <3>4, <3>6
      <3> QED BY <3>1, <3>2, <3>3, <3>5, <3>7
    <2>3. ASSUME NEW s \in SUBSET (1 .. k + 1), k + 1 \notin s
          PROVE  /\ s \in SUBSET (1 .. k) /\ g[s] = f[s] /\ g[s] \in D
      <3>1. s \in SUBSET (1 .. k) BY <2>3
      <3> QED BY <2>1, <3>1, <2>3 DEF Iter
    <2>4. g \in [SUBSET (1 .. k + 1) -> D]
      <3>1. \A s \in SUBSET (1 .. k + 1) : g[s] \in D BY <2>2, <2>3
      <3> QED BY <3>1
    <2>5. g[{}] = base
      <3>1. {} \in SUBSET (1 .. k + 1) /\ k + 1 \notin {} OBVIOUS
      <3> QED BY <2>1, <2>3, <3>1 DEF Iter
    <2>6. ASSUME NEW s \in SUBSET (1 .. k + 1), s # {}
          PROVE  Max(s) \in s /\ g[s] = G[<<Max(s), g[s \ {Max(s)}]>>]
      <3> HIDE DEF g
      <3>1. CASE k + 1 \in s BY <2>2, <3>1
      <3>2. CASE k + 1 \notin s
        <4>1. Max(s) \in s /\ f[s] = G[<<Max(s), f[s \ {Max(s)}]>>] /\ g[s] = f[s]
          BY <2>1, <2>3, <2>6, <3>2 DEF Iter
        <4>2. s \ {Max(s)} \in SUBSET (1 .. k + 1) /\ k + 1 \notin s \ {Max(s)} BY <3>2
        <4>3. g[s \ {Max(s)}] = f[s \ {Max(s)}] BY <2>3, <4>2
        <4> QED BY <4>1, <4>3
      <3> QED BY <3>1, <3>2
    <2> HIDE DEF g
    <2>7. Iter(k + 1, D, base, G, g) BY <2>4, <2>5, <2>6 DEF Iter
    <2> QED BY <2>7
  <1>3. \A k \in Nat : k \in Z => k + 1 \in Z
    <2> SUFFICES ASSUME NEW k \in Nat, k \in Z PROVE k + 1 \in Z OBVIOUS
    <2>1. k + 1 \in Nat OBVIOUS
    <2> QED BY <1>2, <2>1
  <1> HIDE DEF Z
  <1>4. n \in Z BY <1>1, <1>3, Induct
  <1> QED BY <1>4 DEF Z

\* Any function with the recursion equation stays in D.
Recurs(n, D, base, G, it) ==
  /\ it[{}] = base
  /\ \A s \in SUBSET (1 .. n) :
        s # {} /\ it[s \ {Max(s)}] \in D => it[s] = G[<<Max(s), it[s \ {Max(s)}]>>]

\* The values after each turn.
Along(n, D, G, it) ==
  /\ \A k \in 0 .. n : it[1 .. k] \in D
  /\ \A k \in 1 .. n : it[1 .. k] = G[<<k, it[1 .. k - 1]>>]

LEMMA RecursIn ==
  ASSUME NEW n \in Nat, NEW D, NEW base \in D, NEW G \in [(1 .. n) \X D -> D], NEW it,
         Recurs(n, D, base, G, it)
  PROVE  Along(n, D, G, it)
  <1> DEFINE Z == {j \in Nat : j <= n => it[1 .. j] \in D}
  <1>1. 0 \in Z
    <2>1. 1 .. 0 = {} OBVIOUS
    <2> QED BY <2>1 DEF Recurs
  <1>2. ASSUME NEW k \in 1 .. n, it[1 .. k - 1] \in D PROVE it[1 .. k] \in D /\ it[1 .. k] = G[<<k, it[1 .. k - 1]>>]
    <2>1. Max(1 .. k) = k
      <3>1. 1 .. k \in SUBSET Nat /\ k \in 1 .. k /\ \A y \in 1 .. k : k >= y OBVIOUS
      <3> QED BY <3>1, MaxIs
    <2>2. (1 .. k) \ {k} = 1 .. k - 1 /\ k \in 1 .. k
      <3>1. k \in Nat OBVIOUS
      <3> QED BY <3>1
    <2>3. 1 .. k \in SUBSET (1 .. n) OBVIOUS
    <2>4. it[1 .. k] = G[<<k, it[1 .. k - 1]>>] BY <1>2, <2>1, <2>2, <2>3 DEF Recurs
    <2>5. <<k, it[1 .. k - 1]>> \in (1 .. n) \X D BY <1>2
    <2> QED BY <2>4, <2>5
  <1>3. ASSUME NEW j \in Nat, j \in Z PROVE j + 1 \in Z
    <2>1. ASSUME j + 1 <= n PROVE it[1 .. j + 1] \in D
      <3>1. j + 1 \in 1 .. n /\ j + 1 - 1 = j /\ j <= n BY <2>1
      <3>2. it[1 .. j] \in D BY <1>3, <3>1
      <3>3. it[1 .. (j + 1) - 1] \in D BY <3>1, <3>2
      <3> QED BY <3>1, <3>3, <1>2
    <2> QED BY <2>1
  <1>4. Nat \subseteq Z
    <2> HIDE DEF Z
    <2> QED BY <1>1, <1>3, Induct
  <1>5. \A k \in 0 .. n : it[1 .. k] \in D BY <1>4
  <1>6. ASSUME NEW k \in 1 .. n PROVE it[1 .. k] = G[<<k, it[1 .. k - 1]>>]
    <2>1. k - 1 \in 0 .. n OBVIOUS
    <2> QED BY <1>2, <1>5, <2>1
  <1> QED BY <1>5, <1>6 DEF Along

\* The folds of the model, and one turn of each.
Hear(q, i, m, out, got) == IF m \in got[i] THEN Append(q, out[i]) ELSE q
HearAll(base, list, m, out, got) ==
  FoldLeft(LAMBDA q, i : IF m \in got[i] THEN Append(q, out[i]) ELSE q, base, list)

Joins(q, r) == q \o r.out
JoinAll(base, list) == FoldLeft(LAMBDA q, e : q \o e.out, base, list)

LEMMA ArrivingFold ==
  ASSUME NEW D, NEW base \in D, NEW m, NEW out, NEW got, NEW n \in Nat, NEW list, DOMAIN list = 1 .. n,
         \A x \in D : \A i \in 1 .. n : Hear(x, list[i], m, out, got) \in D
  PROVE  HearAll(base, list, m, out, got) \in D
  <1> DEFINE G == [p \in (1 .. n) \X D |-> Hear(p[2], list[p[1]], m, out, got)]
             F(iter) == [s \in SUBSET (1 .. n) |->
                           IF s = {} THEN base ELSE Hear(iter[s \ {Max(s)}], list[Max(s)], m, out, got)]
             it == CHOOSE iter : iter = F(iter)
  <1>1. n \in Nat /\ DOMAIN list = 1 .. n OBVIOUS
  <1>2. G \in [(1 .. n) \X D -> D] OBVIOUS
  <1>3. ASSUME NEW s \in SUBSET (1 .. n), NEW f, f[s \ {Max(s)}] \in D, Max(s) \in s
        PROVE  G[<<Max(s), f[s \ {Max(s)}]>>] = Hear(f[s \ {Max(s)}], list[Max(s)], m, out, got)
    BY <1>3
  <1>4. PICK g : Iter(n, D, base, G, g)
    <2> HIDE DEF G
    <2> QED BY <1>1, <1>2, IterExists
  <1>5. g = F(g)
    <2>1. ASSUME NEW s \in SUBSET (1 .. n), s # {} PROVE g[s] = Hear(g[s \ {Max(s)}], list[Max(s)], m, out, got)
      <3>1. Max(s) \in s /\ s \ {Max(s)} \in SUBSET (1 .. n) /\ g[s] = G[<<Max(s), g[s \ {Max(s)}]>>]
        BY <1>4, <2>1 DEF Iter
      <3>2. g[s \ {Max(s)}] \in D BY <1>4, <3>1 DEF Iter
      <3> HIDE DEF G
      <3> QED BY <3>1, <3>2, <1>3, <2>1
    <2> QED BY <1>4, <2>1 DEF Iter
  <1>6. it = F(it) BY <1>5
  <1>7. HearAll(base, list, m, out, got) = it[1 .. n]
    BY <1>1 DEF HearAll, Hear, FoldLeft, MapThenFoldSet
  <1> HIDE DEF it
  <1>8. Recurs(n, D, base, G, it)
    <2>1. it[{}] = base BY <1>6
    <2>2. ASSUME NEW s \in SUBSET (1 .. n), s # {}, it[s \ {Max(s)}] \in D
          PROVE  it[s] = G[<<Max(s), it[s \ {Max(s)}]>>]
      <3>1. it[s] = Hear(it[s \ {Max(s)}], list[Max(s)], m, out, got) BY <1>6, <2>2
      <3>2. Max(s) \in s BY <1>4, <2>2 DEF Iter
      <3> HIDE DEF G
      <3> QED BY <3>1, <3>2, <1>3, <2>2
    <2> HIDE DEF G
    <2> QED BY <2>1, <2>2 DEF Recurs
  <1>9. \A k \in 0 .. n : it[1 .. k] \in D
    <2> HIDE DEF G
    <2>1. Along(n, D, G, it) BY <1>1, <1>2, <1>8, RecursIn
    <2> QED BY <2>1 DEF Along
  <1>10. n \in 0 .. n OBVIOUS
  <1> QED BY <1>7, <1>9, <1>10

\* What such a fold has after each turn.
Turns(f, D, base, n, list) ==
  /\ f[0] = base /\ f[n] = JoinAll(base, list) /\ \A k \in 0 .. n : f[k] \in D
  /\ \A k \in 1 .. n : f[k] = Joins(f[k - 1], list[k])

LEMMA TransmitFold ==
  ASSUME NEW D, NEW base \in D, NEW n \in Nat, NEW list, DOMAIN list = 1 .. n,
         \A x \in D : \A i \in 1 .. n : Joins(x, list[i]) \in D
  PROVE  \E f : Turns(f, D, base, n, list)
  <1> DEFINE G == [p \in (1 .. n) \X D |-> Joins(p[2], list[p[1]])]
             F(iter) == [s \in SUBSET (1 .. n) |->
                           IF s = {} THEN base ELSE Joins(iter[s \ {Max(s)}], list[Max(s)])]
             it == CHOOSE iter : iter = F(iter)
  <1>1. n \in Nat /\ DOMAIN list = 1 .. n OBVIOUS
  <1>2. G \in [(1 .. n) \X D -> D] OBVIOUS
  <1>3. ASSUME NEW s \in SUBSET (1 .. n), NEW f, f[s \ {Max(s)}] \in D, Max(s) \in s
        PROVE  G[<<Max(s), f[s \ {Max(s)}]>>] = Joins(f[s \ {Max(s)}], list[Max(s)])
    BY <1>3
  <1>4. PICK g : Iter(n, D, base, G, g)
    <2> HIDE DEF G
    <2> QED BY <1>1, <1>2, IterExists
  <1>5. g = F(g)
    <2>1. ASSUME NEW s \in SUBSET (1 .. n), s # {} PROVE g[s] = Joins(g[s \ {Max(s)}], list[Max(s)])
      <3>1. Max(s) \in s /\ s \ {Max(s)} \in SUBSET (1 .. n) /\ g[s] = G[<<Max(s), g[s \ {Max(s)}]>>]
        BY <1>4, <2>1 DEF Iter
      <3>2. g[s \ {Max(s)}] \in D BY <1>4, <3>1 DEF Iter
      <3> HIDE DEF G
      <3> QED BY <3>1, <3>2, <1>3, <2>1
    <2> QED BY <1>4, <2>1 DEF Iter
  <1>6. it = F(it) BY <1>5
  <1>7. JoinAll(base, list) = it[1 .. n]
    BY <1>1 DEF JoinAll, Joins, FoldLeft, MapThenFoldSet
  <1> HIDE DEF it
  <1>8. Recurs(n, D, base, G, it)
    <2>1. it[{}] = base BY <1>6
    <2>2. ASSUME NEW s \in SUBSET (1 .. n), s # {}, it[s \ {Max(s)}] \in D
          PROVE  it[s] = G[<<Max(s), it[s \ {Max(s)}]>>]
      <3>1. it[s] = Joins(it[s \ {Max(s)}], list[Max(s)]) BY <1>6, <2>2
      <3>2. Max(s) \in s BY <1>4, <2>2 DEF Iter
      <3> HIDE DEF G
      <3> QED BY <3>1, <3>2, <1>3, <2>2
    <2> HIDE DEF G
    <2> QED BY <2>1, <2>2 DEF Recurs
  <1>9. /\ \A k \in 0 .. n : it[1 .. k] \in D
        /\ \A k \in 1 .. n : it[1 .. k] = G[<<k, it[1 .. k - 1]>>]
    <2> HIDE DEF G
    <2>1. Along(n, D, G, it) BY ONLY <1>1, <1>2, <1>8, RecursIn, base \in D
    <2> QED BY <2>1 DEF Along
  <1>10. ASSUME NEW k \in 1 .. n PROVE it[1 .. k] = Joins(it[1 .. k - 1], list[k])
    <2>1. k - 1 \in 0 .. n OBVIOUS
    <2>2. it[1 .. k - 1] \in D BY <1>9, <2>1
    <2> QED BY <1>9, <2>2
  <1>11. it[{}] = base /\ 1 .. 0 = {} BY <1>8 DEF Recurs
  <1> HIDE DEF G
  <1>12. PICK f : f = [k \in 0 .. n |-> it[1 .. k]] OBVIOUS
  <1>13. \A k \in 0 .. n : f[k] = it[1 .. k] BY <1>12
  <1>14. 0 \in 0 .. n /\ n \in 0 .. n /\ \A k \in 1 .. n : k \in 0 .. n /\ k - 1 \in 0 .. n OBVIOUS
  <1>15. f[0] = base BY <1>11, <1>13, <1>14
  <1>16. f[n] = JoinAll(base, list) BY <1>7, <1>13, <1>14
  <1>17. \A k \in 0 .. n : f[k] \in D BY <1>9, <1>13
  <1>18. \A k \in 1 .. n : f[k] = Joins(f[k - 1], list[k]) BY <1>10, <1>13, <1>14
  <1> QED BY <1>15, <1>16, <1>17, <1>18 DEF Turns

LEMMA OwnElements ==
  ASSUME NEW q, NEW n, AllLeave(q, n), NEW X, X = {q[j] : j \in 1 .. Len(q)}
  PROVE  q \in Seq(X) /\ \A x \in X : Leaves(x, n)
<1>1. PICK Z : q \in Seq(Z) /\ \A x \in Z : Leaves(x, n)
  BY DEF AllLeave
<1>2. q \in Seq(X)
  BY <1>1
<1>3. \A j \in 1 .. Len(q) : q[j] \in Z
  BY <1>1
<1> QED
  BY <1>1, <1>2, <1>3

LEMMA TransmissionsLeave ==
  ASSUME NEW n, NEW size \in Nat, NEW list, DOMAIN list = 1 .. size,
         \A i \in 1 .. size : AllLeave(list[i].out, n)
  PROVE  AllLeave(JoinAll(<< >>, list), n)
<1> DEFINE X(i) == {list[i].out[j] : j \in 1 .. Len(list[i].out)}
           Z == UNION {X(i) : i \in 1 .. size}
<1>1. ASSUME NEW i \in 1 .. size PROVE list[i].out \in Seq(X(i)) /\ \A x \in X(i) : Leaves(x, n)
  <2>1. PICK q : q = list[i].out
    OBVIOUS
  <2>2. PICK Y : Y = {q[j] : j \in 1 .. Len(q)}
    OBVIOUS
  <2>3. q \in Seq(Y) /\ \A x \in Y : Leaves(x, n)
    BY <2>1, <2>2, OwnElements
  <2> QED
    BY <2>1, <2>2, <2>3
<1>2. \A x \in Z : Leaves(x, n)
  <2> HIDE DEF X
  <2> QED BY <1>1
<1>3. ASSUME NEW q \in Seq(Z), NEW i \in 1 .. size PROVE Joins(q, list[i]) \in Seq(Z)
  <2>1. X(i) \subseteq Z
    <3> HIDE DEF X
    <3> QED OBVIOUS
  <2>2. list[i].out \in Seq(X(i))
    BY <1>1
  <2> HIDE DEF X, Z
  <2>3. list[i].out \in Seq(Z)
    BY <2>1, <2>2
  <2> QED
    BY <2>3 DEF Joins
<1>4. << >> \in Seq(Z)
  OBVIOUS
<1> HIDE DEF X, Z
<1>5. JoinAll(<< >>, list) \in Seq(Z)
  <2>1. PICK D : D = Seq(Z)
    OBVIOUS
  <2>2. << >> \in D /\ \A x \in D : \A i \in 1 .. size : Joins(x, list[i]) \in D
    BY <1>3, <1>4, <2>1
  <2>3. PICK f : Turns(f, D, << >>, size, list)
    BY ONLY <2>2, TransmitFold, size \in Nat, DOMAIN list = 1 .. size
  <2>4. size \in 0 .. size
    OBVIOUS
  <2> QED
    BY <2>1, <2>3, <2>4 DEF Turns
<1> QED
  BY <1>2, <1>5 DEF AllLeave

LEMMA PendingArrayIs ==
  ASSUME NEW c, NEW n, NEW near, c.me = n, Routes(c.rte), Sane(c.rte, n, near),
         NEW size \in Nat, NEW arr, AllHeld(arr, n, size), NEW rcv, NEW due,
         NEW r, r = PendingArray(c, arr, rcv, due)
  PROVE  /\ AllHeld(r.arr, n, size) /\ AllLeave(r.out, n)
         /\ Routes(r.rte) /\ Sane(r.rte, n, near)
<1>1. PICK done : done = [i \in DOMAIN arr |-> PendingEntry(c, arr[i], rcv, i \in due)]
  OBVIOUS
<1>2. DOMAIN arr = 1 .. size /\ DOMAIN done = 1 .. size
  BY <1>1 DEF AllHeld
<1>3. ASSUME NEW i \in 1 .. size PROVE Handled(done[i], n)
  <2>1. PICK late1 : late1 = (i \in due)
    OBVIOUS
  <2>2. done[i] = PendingEntry(c, arr[i], rcv, late1)
    BY <1>1, <1>2, <2>1
  <2>3. Held(arr[i], n)
    BY DEF AllHeld
  <2> QED
    BY <2>2, <2>3, PendingEntryIs
<1>4. PICK lost : lost = {done[i].lost : i \in DOMAIN arr}
  OBVIOUS
<1>5. /\ r.arr = [i \in DOMAIN arr |-> done[i].entry]
      /\ r.out = JoinAll(<< >>, done)
      /\ r.rte = [i \in DOMAIN c.rte |-> IF c.rte[i].dst \in lost \ {Zero} THEN NoRoute ELSE c.rte[i]]
  BY <1>1, <1>4 DEF PendingArray, JoinAll
<1>6. AllHeld(r.arr, n, size)
  BY <1>2, <1>3, <1>5 DEF AllHeld, Handled
<1>7. AllLeave(r.out, n)
  <2>1. \A i \in 1 .. size : AllLeave(done[i].out, n)
    BY <1>3 DEF Handled
  <2> QED
    BY <1>2, <1>5, <2>1, TransmissionsLeave
<1>8. PICK t : t = r.rte
  OBVIOUS
<1>9. /\ DOMAIN t = 1 .. RteSize
      /\ \A i \in 1 .. RteSize : t[i] = NoRoute \/ t[i] = c.rte[i]
  BY <1>5, <1>8 DEF Routes
<1>10. DOMAIN NoRoute = RouteFields /\ NoRoute.score \in Nat /\ NoRoute.dst = Zero
  BY DEF NoRoute, RouteFields
<1>11. Routes(t)
  BY <1>9, <1>10 DEF Routes
<1>12. Sane(t, n, near)
  BY <1>9, <1>10, Zenon DEF Sane
<1> QED
  BY <1>6, <1>7, <1>8, <1>11, <1>12

LEMMA HandlePendingIs ==
  ASSUME NEW c, NEW n, NEW near, NodeOK(c, n, near), NEW rcv, NEW meshDue, NEW ownDue,
         NEW d, d = HandlePending(c, rcv, meshDue, ownDue)
  PROVE  NodeOK(d, n, near)
<1>1. PICK m : m = PendingArray(c, c.mesh, rcv, meshDue)
  OBVIOUS
<1>2. PICK a : a = [c EXCEPT !.rte = m.rte]
  OBVIOUS
<1>3. PICK o : o = PendingArray(a, a.own, rcv, ownDue)
  OBVIOUS
<1>4. MeshPend \in Nat /\ OwnPend \in Nat
  BY MeshNodeAssumption
<1>5. /\ DOMAIN c = NodeFields /\ c.me = n /\ Routes(c.rte) /\ Sane(c.rte, n, near)
      /\ AllHeld(c.mesh, n, MeshPend) /\ AllHeld(c.own, n, OwnPend) /\ AllLeave(c.out, n)
  BY DEF NodeOK
<1>6. AllHeld(m.arr, n, MeshPend) /\ AllLeave(m.out, n) /\ Routes(m.rte) /\ Sane(m.rte, n, near)
  BY <1>1, <1>4, <1>5, PendingArrayIs
<1>7. a.me = n /\ a.rte = m.rte /\ a.own = c.own
  BY <1>2, <1>5 DEF NodeFields
<1>8. AllHeld(o.arr, n, OwnPend) /\ AllLeave(o.out, n) /\ Routes(o.rte) /\ Sane(o.rte, n, near)
  BY <1>3, <1>4, <1>5, <1>6, <1>7, PendingArrayIs
<1>9. PICK out : out = c.out \o m.out \o o.out
  OBVIOUS
<1>10. AllLeave(out, n)
  <2>1. PICK q : q = c.out \o m.out
    OBVIOUS
  <2>2. AllLeave(q, n)
    BY <1>5, <1>6, <2>1, BothLeave
  <2> QED
    BY <1>8, <1>9, <2>1, <2>2, BothLeave
<1>11. d = [c EXCEPT !.mesh = m.arr, !.own = o.arr, !.rte = o.rte, !.out = out]
  BY <1>1, <1>2, <1>3, <1>7, <1>9 DEF HandlePending
<1>12. /\ DOMAIN d = NodeFields /\ d.me = n
       /\ d.mesh = m.arr /\ d.own = o.arr /\ d.rte = o.rte /\ d.out = out
  BY <1>5, <1>11 DEF NodeFields
<1> QED
  BY <1>6, <1>8, <1>10, <1>12 DEF NodeOK

LEMMA ServiceIs ==
  ASSUME NEW c, NEW n, NEW near, NodeOK(c, n, near), NEW p, Comes(p, near), NEW k, NEW md, NEW od,
         NEW d, d = Service(c, p, k, md, od)
  PROVE  NodeOK(d, n, near)
<1>1. PICK r : r = Received(c, p, k)
  OBVIOUS
<1>2. NodeOK(r.node, n, near)
  BY <1>1, ReceivedIs
<1>3. d = HandlePending(r.node, r.rx, {i \in md : r.node.mesh[i] = c.mesh[i]},
                                      {i \in od : r.node.own[i] = c.own[i]})
  BY <1>1 DEF Service
<1> QED
  BY <1>2, <1>3, HandlePendingIs

LEMMA DoneIs ==
  ASSUME NEW c, NEW n, NEW near, NodeOK(c, n, near), NEW d, d = Done(c)
  PROVE  NodeOK(d, n, near) /\ d.out = << >>
<1>1. /\ DOMAIN d = NodeFields /\ d.out = << >>
      /\ d.me = c.me /\ d.rte = c.rte /\ d.mesh = c.mesh /\ d.own = c.own
  BY DEF NodeOK, NodeFields, Done
<1> QED
  BY <1>1, NoneLeave DEF NodeOK

-----------------------------------------------------------------------------
(***************************************************************************)
(* The network.                                                            *)
(***************************************************************************)
\* Whoever hears a node is heard by it: so it is in all the networks of MCMesh.
Symmetric == \A t \in Net : \A a, b \in Node : a \in t.near[b] <=> b \in t.near[a]

AllCome(q, near) == \E Z : q \in Seq(Z) /\ \A p \in Z : Comes(p, near)

\* The inductive invariant.
MeshInv ==
  /\ net \in Net
  /\ DOMAIN node = Node /\ \A n \in Node : NodeOK(node[n], n, net.near[n])
  /\ DOMAIN fifo = Node /\ \A n \in Node : AllCome(fifo[n], net.near[n])

LEMMA ArrivingIs ==
  ASSUME NEW out, NEW n, AllLeave(out, n), NEW m, NEW heardBy, NEW near, m \in heardBy => n \in near,
         NEW got \in [DOMAIN out -> SUBSET heardBy], NEW q, q = Arriving(m, out, got)
  PROVE  AllCome(q, near)
<1>1. PICK Z : out \in Seq(Z) /\ \A p \in Z : Leaves(p, n)
  BY DEF AllLeave
<1>2. PICK size : size = Len(out)
  OBVIOUS
<1>3. PICK list : list = [i \in 1 .. size |-> i]
  OBVIOUS
<1>4. PICK Y : Y = IF m \in heardBy THEN Z ELSE {}
  OBVIOUS
<1>5. PICK D : D = Seq(Y)
  OBVIOUS
<1>6. size \in Nat /\ DOMAIN list = 1 .. size /\ DOMAIN out = 1 .. size /\ \A i \in 1 .. size : list[i] = i
  BY <1>1, <1>2, <1>3
<1>7. << >> \in D
  BY <1>5
<1>8. ASSUME NEW x \in D, NEW i \in 1 .. size PROVE Hear(x, list[i], m, out, got) \in D
  <2>1. x \in Seq(Y) /\ list[i] = i
    BY <1>5, <1>6
  <2>2. CASE m \in got[i]
    <3>1. m \in heardBy
      BY <1>6, <2>2
    <3>2. out[i] \in Y
      BY <1>1, <1>2, <1>4, <3>1
    <3>3. Hear(x, list[i], m, out, got) = Append(x, out[i])
      BY <2>1, <2>2 DEF Hear
    <3> QED
      BY <1>5, <2>1, <3>2, <3>3
  <2>3. CASE m \notin got[i]
    BY <2>1, <2>3 DEF Hear
  <2> QED
    BY <2>2, <2>3
<1>9. HearAll(<< >>, list, m, out, got) \in D
  BY <1>6, <1>7, <1>8, ArrivingFold
<1>10. q = HearAll(<< >>, list, m, out, got)
  BY <1>2, <1>3 DEF Arriving, HearAll
<1>11. \A p \in Y : Comes(p, near)
  BY <1>1, <1>4 DEF Comes, Leaves, Hopped
<1> QED
  BY <1>5, <1>9, <1>10, <1>11 DEF AllCome

LEMMA OfferIs ==
  ASSUME NEW q, NEW new, NEW near, AllCome(q, near), AllCome(new, near), NEW r, r = Offer(q, new)
  PROVE  AllCome(r, near)
<1>1. PICK Y : q \in Seq(Y) /\ \A p \in Y : Comes(p, near)
  BY DEF AllCome
<1>2. PICK Z : new \in Seq(Z) /\ \A p \in Z : Comes(p, near)
  BY DEF AllCome
<1>3. PICK X : X = Y \cup Z
  OBVIOUS
<1>4. q \in Seq(X) /\ new \in Seq(X) /\ \A p \in X : Comes(p, near)
  BY <1>1, <1>2, <1>3
<1>5. PICK b : b = q \o new
  OBVIOUS
<1>6. b \in Seq(X) /\ Len(b) = Len(q) + Len(new) /\ Len(b) \in Nat
  BY <1>4, <1>5
<1>7. PICK k : k = IF Len(q) + Len(new) > Fifo THEN Fifo ELSE Len(q) + Len(new)
  OBVIOUS
<1>8. k \in 0 .. Len(b)
  BY <1>6, <1>7, MeshAssumption
<1>9. r = SubSeq(b, 1, k)
  BY <1>5, <1>7 DEF Offer
<1>10. r \in Seq(X)
  BY <1>6, <1>8, <1>9
<1> QED
  BY <1>4, <1>10 DEF AllCome

LEMMA CommitIs ==
  ASSUME Symmetric, MeshInv, NEW n \in Node, NEW c, NodeOK(c, n, net.near[n]),
         NEW rest, AllCome(rest, net.near[n]), Commit(n, c, rest)
  PROVE  MeshInv'
<1>1. PICK got \in [DOMAIN c.out -> SUBSET net.near[n]] :
        /\ net' = net
        /\ node' = [node EXCEPT ![n] = Done(c)]
        /\ fifo' = [m \in Node |-> Offer(IF m = n THEN rest ELSE fifo[m], Arriving(m, c.out, got))]
  BY DEF Commit
<1>2. AllLeave(c.out, n)
  BY DEF NodeOK
<1>3. ASSUME NEW m \in Node PROVE AllCome(fifo'[m], net.near[m])
  <2>1. PICK q : q = Arriving(m, c.out, got)
    OBVIOUS
  <2>2. m \in net.near[n] => n \in net.near[m]
    BY DEF MeshInv, Symmetric
  <2>3. AllCome(q, net.near[m])
    BY ONLY <1>1, <1>2, <2>1, <2>2, ArrivingIs
  <2>4. PICK b : b = IF m = n THEN rest ELSE fifo[m]
    OBVIOUS
  <2>5. AllCome(b, net.near[m])
    BY <2>4 DEF MeshInv
  <2>6. fifo'[m] = Offer(b, q)
    BY <1>1, <2>1, <2>4
  <2> QED
    BY <2>3, <2>5, <2>6, OfferIs
<1>4. PICK d : d = Done(c)
  OBVIOUS
<1>5. NodeOK(d, n, net.near[n])
  BY <1>4, DoneIs
<1>6. DOMAIN node = Node /\ \A m \in Node : NodeOK(node[m], m, net.near[m])
  BY DEF MeshInv
<1>7. DOMAIN node' = Node /\ \A m \in Node : NodeOK(node'[m], m, net.near[m])
  BY <1>1, <1>4, <1>5, <1>6
<1>8. net' \in Net /\ net' = net
  BY <1>1 DEF MeshInv
<1>9. DOMAIN fifo' = Node
  BY <1>1
<1> QED
  BY <1>3, <1>7, <1>8, <1>9 DEF MeshInv

LEMMA AppSendKeeps == ASSUME Symmetric, MeshInv, NEW n \in Node, AppSend(n) PROVE MeshInv'
<1>1. PICK w, k : Commit(n, MeshSend(node[n], w.dst, w.type, w.data, w.max, k), fifo[n])
  BY DEF AppSend
<1>2. PICK c : c = MeshSend(node[n], w.dst, w.type, w.data, w.max, k)
  OBVIOUS
<1>3. NodeOK(node[n], n, net.near[n]) /\ AllCome(fifo[n], net.near[n])
  BY DEF MeshInv
<1>4. NodeOK(c, n, net.near[n])
  BY <1>2, <1>3, MeshSendIs
<1> QED
  BY <1>1, <1>2, <1>3, <1>4, CommitIs

LEMMA ServicePacketKeeps == ASSUME Symmetric, MeshInv, NEW n \in Node, ServicePacket(n) PROVE MeshInv'
<1>1. PICK k, md, od : Commit(n, Service(node[n], Head(fifo[n]), k, md, od), Tail(fifo[n]))
  BY DEF ServicePacket
<1>2. fifo[n] # << >>
  BY DEF ServicePacket
<1>3. NodeOK(node[n], n, net.near[n]) /\ AllCome(fifo[n], net.near[n])
  BY DEF MeshInv
<1>4. PICK p : p = Head(fifo[n])
  OBVIOUS
<1>5. PICK rest : rest = Tail(fifo[n])
  OBVIOUS
<1>6. Comes(p, net.near[n]) /\ AllCome(rest, net.near[n])
  <2>1. PICK Z : fifo[n] \in Seq(Z) /\ \A x \in Z : Comes(x, net.near[n])
    BY <1>3 DEF AllCome
  <2>2. p \in Z /\ rest \in Seq(Z)
    BY <1>2, <1>4, <1>5, <2>1
  <2> QED
    BY <2>1, <2>2 DEF AllCome
<1>7. PICK c : c = Service(node[n], p, k, md, od)
  OBVIOUS
<1>8. NodeOK(c, n, net.near[n])
  BY <1>3, <1>6, <1>7, ServiceIs
<1>9. Commit(n, c, rest)
  BY <1>1, <1>4, <1>5, <1>7
<1> QED
  BY <1>6, <1>8, <1>9, CommitIs

LEMMA ServiceTimersKeeps == ASSUME Symmetric, MeshInv, NEW n \in Node, ServiceTimers(n) PROVE MeshInv'
<1>1. PICK md, od : Commit(n, ServiceIdle(node[n], md, od), << >>)
  BY DEF ServiceTimers
<1>2. PICK c : c = ServiceIdle(node[n], md, od)
  OBVIOUS
<1>3. NodeOK(node[n], n, net.near[n]) /\ AllCome(fifo[n], net.near[n]) /\ fifo[n] = << >>
  BY DEF MeshInv, ServiceTimers
<1>4. NodeOK(c, n, net.near[n])
  BY <1>2, <1>3, HandlePendingIs DEF ServiceIdle
<1>5. AllCome(<< >>, net.near[n])
  BY <1>3
<1> QED
  BY <1>1, <1>2, <1>4, <1>5, CommitIs

LEMMA MeshInit == Init => MeshInv
<1> SUFFICES ASSUME Init PROVE MeshInv
  OBVIOUS
<1>1. net \in Net /\ DOMAIN node = Node /\ DOMAIN fifo = Node
  BY DEF Init
<1>2. ASSUME NEW n \in Node PROVE NodeOK(node[n], n, net.near[n])
  <2>1. PICK repeats : repeats = (n \in net.repeat)
    OBVIOUS
  <2>2. PICK c : c = NewNode(n, repeats, net.retries)
    OBVIOUS
  <2>3. node[n] = c
    BY <2>1, <2>2 DEF Init
  <2>4. /\ DOMAIN c = NodeFields /\ c.me = n /\ c.out = << >>
        /\ c.rte = [i \in 1 .. RteSize |-> NoRoute]
        /\ c.mesh = [i \in 1 .. MeshPend |-> NoPending]
        /\ c.own = [i \in 1 .. OwnPend |-> NoPending]
    BY <2>2 DEF NewNode, NodeFields
  <2>5. DOMAIN NoRoute = RouteFields /\ NoRoute.score \in Nat /\ NoRoute.dst = Zero
    BY DEF NoRoute, RouteFields
  <2>6. Routes(c.rte) /\ Sane(c.rte, n, net.near[n])
    BY <2>4, <2>5 DEF Routes, Sane
  <2>7. AllHeld(c.mesh, n, MeshPend) /\ AllHeld(c.own, n, OwnPend)
    BY <2>4, EmptyIs DEF AllHeld
  <2> QED
    BY <2>3, <2>4, <2>6, <2>7, NoneLeave DEF NodeOK
<1>3. ASSUME NEW n \in Node PROVE AllCome(fifo[n], net.near[n])
  <2>1. PICK Y : Y = {}
    OBVIOUS
  <2>2. << >> \in Seq(Y) /\ \A x \in Y : Comes(x, net.near[n])
    BY <2>1
  <2>3. fifo[n] = << >>
    BY DEF Init
  <2> QED
    BY <2>2, <2>3 DEF AllCome
<1> QED
  BY <1>1, <1>2, <1>3 DEF MeshInv

\* However a network is laid out, as long as nodes hear each other, and whatever is sent,
\* lost or repeated: the routing table of every node has at most one route to a node, none
\* to itself, and sends each packet to a neighbour.
THEOREM RoutesAreSane == ASSUME Symmetric PROVE Spec => []RoutesSane
<1>1. ASSUME MeshInv, [Next]_vars PROVE MeshInv'
  <2>1. CASE UNCHANGED vars
    BY <1>1, <2>1 DEF vars, MeshInv
  <2>2. CASE Next
    BY <1>1, <2>2, AppSendKeeps, ServicePacketKeeps, ServiceTimersKeeps DEF Next
  <2> QED
    BY <1>1, <2>1, <2>2
<1>2. MeshInv => RoutesSane
  BY DEF MeshInv, NodeOK, Sane, RoutesSane
<1> QED
  BY <1>1, <1>2, MeshInit, PTL DEF Spec

-----------------------------------------------------------------------------
(***************************************************************************)
(* How often a packet is transmitted by its source.  As long as a node has *)
(* not come round to the number 0 again, each of its packets has a number  *)
(* of its own, and the transmissions it had and those it may still have    *)
(* are within the limit.                                                   *)
(***************************************************************************)
\* How often a pending packet may still be transmitted: its retries and, when it has a
\* route, once more to find another one and the retries of that.
Left(p, r) == p.rem + IF p.md # Zero THEN 1 + r ELSE 0

\* The slots of an array that hold a packet.
Used(own, i) == own[i].pkt.nd # Zero

Distinct(own) ==
  \A i, j \in 1 .. OwnPend : Used(own, i) /\ Used(own, j) /\ own[i].pkt.id = own[j].pkt.id => i = j

\* s[i] is how often the node has transmitted its packet number i.
Bounded(c, r, s) ==
  /\ c.seq \in 0 .. SeqRange - 1
  /\ \A i \in 0 .. SeqRange - 1 : s[i] <= 2 * (1 + r) /\ (i > c.seq => s[i] = 0)
  /\ \A i \in 1 .. OwnPend : Used(c.own, i) =>
        /\ c.own[i].pkt.id \in 1 .. c.seq
        /\ s[c.own[i].pkt.id] + Left(c.own[i].pkt, r) <= 2 * (1 + r)
  /\ Distinct(c.own)

OwnPlain(own) == \A i \in 1 .. OwnPend : own[i].disc = FALSE /\ own[i].pkt.rem \in 0 .. 7
Foreign(mesh, n) == \A i \in 1 .. MeshPend : mesh[i].pkt.ns # n

Counts(c, n, r, s) ==
  /\ c.retry = r /\ c.out = << >>
  /\ Foreign(c.mesh, n) /\ OwnPlain(c.own)
  /\ s \in [0 .. SeqRange - 1 -> Nat]
  /\ s[0] = 0 => Bounded(c, r, s)

(***************************************************************************)
(* What a call does before it looks at the pending packets: nothing of its *)
(* own (Listens), or it transmits one packet with the next number and may   *)
(* keep it (Speaks).                                                       *)
(***************************************************************************)
ForeignOut(q, n) == \E Z : q \in Seq(Z) /\ \A x \in Z : x.ns # n

Listens(c, d, n) == d.seq = c.seq /\ d.own = c.own /\ ForeignOut(d.out, n)

Kept(c, d, p) ==
  \/ d.own = c.own
  \/ \E o, h : /\ d.own = [c.own EXCEPT ![o].pkt = h]
               /\ h.id = p.id /\ h.rem = c.retry

Speaks(c, d, n) ==
  /\ d.seq = NextSeq(c)
  /\ \E p : p.ns = n /\ p.id = NextSeq(c) /\ d.out = << p >> /\ Kept(c, d, p)

Called(c, d, n) ==
  /\ d.retry = c.retry /\ Foreign(d.mesh, n)
  /\ Listens(c, d, n) \/ Speaks(c, d, n)

LEMMA NothingForeign == ASSUME NEW n PROVE ForeignOut(<< >>, n)
<1>1. PICK Y : Y = {}
  OBVIOUS
<1>2. << >> \in Seq(Y) /\ \A x \in Y : x.ns # n
  BY <1>1
<1> QED
  BY <1>2 DEF ForeignOut

LEMMA OneForeign == ASSUME NEW n, NEW p, p.ns # n PROVE ForeignOut(<< p >>, n)
<1>1. PICK Y : Y = {p}
  OBVIOUS
<1>2. << p >> \in Seq(Y) /\ \A x \in Y : x.ns # n
  BY <1>1
<1> QED
  BY <1>2 DEF ForeignOut

\* A call that does nothing, or something to the routes only.
LEMMA NothingCalled ==
  ASSUME NEW c, NEW n, c.out = << >>, Foreign(c.mesh, n), NEW d,
         d.retry = c.retry, d.seq = c.seq, d.mesh = c.mesh, d.own = c.own, d.out = c.out
  PROVE  Called(c, d, n)
<1>1. ForeignOut(d.out, n)
  BY NothingForeign
<1> QED
  BY <1>1 DEF Called, Listens

\* mesh_send(): a packet with the next number.
LEMMA MeshSendCalls ==
  ASSUME NEW c, NEW n, NEW near, NodeOK(c, n, near), c.out = << >>, Foreign(c.mesh, n),
         NEW dst, NEW type, NEW data, NEW maxhops, NEW k,
         NEW d, d = MeshSend(c, dst, type, data, maxhops, k)
  PROVE  Called(c, d, n)
<1>1. PICK p : p = FormPacket(c, dst, type, maxhops, data)
  OBVIOUS
<1>2. PICK f : f = FormEffect(c, dst)
  OBVIOUS
<1>3. DOMAIN c = NodeFields /\ c.me = n
  BY DEF NodeOK
<1>4. DOMAIN p = PacketFields /\ p.ns = n /\ p.id = NextSeq(c)
  <2>1. PICK nr : nr = NextSeq(c)
    OBVIOUS
  <2>2. DOMAIN p = PacketFields /\ p.ns = c.me
    BY ONLY <1>1 DEF FormPacket, NoPkt, PacketFields
  <2>3. p.id = nr
    BY <1>1, <2>1 DEF FormPacket, NoPkt
  <2> QED
    BY <1>3, <2>1, <2>2, <2>3
<1>5. /\ DOMAIN f = NodeFields /\ f.me = n /\ f.retry = c.retry /\ f.seq = NextSeq(c)
      /\ f.mesh = c.mesh /\ f.own = c.own /\ f.out = << >>
  <2>1. PICK t : t = IF FindRoute(c.rte, dst) = 0 THEN c.rte ELSE BumpScore(c.rte, FindRoute(c.rte, dst))
    OBVIOUS
  <2>2. f = [c EXCEPT !.seq = NextSeq(c), !.rte = t]
    BY <1>2, <2>1 DEF FormEffect
  <2> QED
    BY <1>3, <2>2 DEF NodeFields
<1>6. PICK q : q = [p EXCEPT !.ms = f.me]
  OBVIOUS
<1>7. q.ns = n /\ q.id = NextSeq(c)
  BY <1>4, <1>6 DEF PacketFields
<1>8. PICK s : s = SendPacket(f, p)
  OBVIOUS
<1>9. /\ DOMAIN s = NodeFields /\ s.me = n /\ s.retry = c.retry /\ s.seq = NextSeq(c)
      /\ s.mesh = c.mesh /\ s.own = c.own /\ s.out = << q >>
  <2>1. s = [f EXCEPT !.out = << q >>]
    BY <1>5, <1>6, <1>8 DEF SendPacket, NodeFields
  <2> QED
    BY <1>5, <2>1 DEF NodeFields
<1>10. d = c \/ d = s \/ d = AddPending(s, p, k)
  BY <1>1, <1>2, <1>8 DEF MeshSend, SendFormed
<1>11. CASE d = c
  BY <1>11, NothingCalled
<1>12. CASE d = s
  BY <1>7, <1>9, <1>12 DEF Called, Speaks, Kept
<1>13. CASE d = AddPending(s, p, k)
  <2>1. PICK h : h = [p EXCEPT !.rem = c.retry]
    OBVIOUS
  <2>2. PICK o : o = PendingSlot(s.own, k)
    OBVIOUS
  <2>3. d = [s EXCEPT !.own[o].pkt = h]
    BY <1>4, <1>9, <1>13, <2>1, <2>2 DEF AddPending
  <2>4. /\ d.retry = c.retry /\ d.seq = NextSeq(c) /\ d.mesh = c.mesh
        /\ d.own = [c.own EXCEPT ![o].pkt = h] /\ d.out = << q >>
    BY <1>9, <2>3 DEF NodeFields
  <2>5. h.id = q.id /\ h.rem = c.retry
    BY <1>4, <1>7, <2>1 DEF PacketFields
  <2>6. Kept(c, d, q)
    <3>1. d.own = [c.own EXCEPT ![o].pkt = h]
      BY <2>4
    <3> QED
      BY ONLY <2>5, <3>1, Zenon DEF Kept
  <2> QED
    BY <1>7, <2>4, <2>6 DEF Called, Speaks
<1> QED
  BY <1>10, <1>11, <1>12, <1>13

\* A packet of another node that is passed on, kept for it, or both.
LEMMA PassesOn ==
  ASSUME NEW c, NEW n, NEW near, NodeOK(c, n, near), c.out = << >>, Foreign(c.mesh, n),
         NEW p, DOMAIN p = PacketFields, p.ns # n, NEW d, d = SendPacket(c, p)
  PROVE  /\ Called(c, d, n) /\ Listens(c, d, n)
         /\ d.retry = c.retry /\ Foreign(d.mesh, n) /\ DOMAIN d = NodeFields /\ d.me = n
<1>1. PICK q : q = [p EXCEPT !.ms = c.me]
  OBVIOUS
<1>2. q.ns # n
  BY <1>1 DEF PacketFields
<1>3. DOMAIN c = NodeFields /\ c.me = n
  BY DEF NodeOK
<1>4. d = [c EXCEPT !.out = << q >>]
  BY <1>1, <1>3 DEF SendPacket, NodeFields
<1>5. /\ DOMAIN d = NodeFields /\ d.me = n /\ d.retry = c.retry /\ d.seq = c.seq
      /\ d.mesh = c.mesh /\ d.own = c.own /\ d.out = << q >>
  BY <1>3, <1>4 DEF NodeFields
<1>6. ForeignOut(d.out, n)
  BY <1>2, <1>5, OneForeign
<1> QED
  BY <1>5, <1>6 DEF Called, Listens

LEMMA KeepsForeign ==
  ASSUME NEW c, NEW n, NEW s, DOMAIN s = NodeFields, s.me = n, s.retry = c.retry, Foreign(s.mesh, n),
         DOMAIN s.mesh = 1 .. MeshPend, Listens(c, s, n),
         NEW p, DOMAIN p = PacketFields, p.ns # n, NEW k, NEW d, d = AddPending(s, p, k)
  PROVE  Called(c, d, n)
<1>1. PICK o : o = PendingSlot(s.mesh, k)
  OBVIOUS
<1>2. PICK h : h = [p EXCEPT !.rem = s.retry]
  OBVIOUS
<1>3. PICK e : e = [pkt |-> h, disc |-> s.mesh[o].disc \/ p.md = Zero]
  OBVIOUS
<1>4. d = [s EXCEPT !.mesh[o] = e]
  BY <1>1, <1>2, <1>3 DEF AddPending
<1>5. /\ d.retry = s.retry /\ d.seq = s.seq /\ d.own = s.own /\ d.out = s.out
      /\ d.mesh = [s.mesh EXCEPT ![o] = e]
  BY <1>4 DEF NodeFields
<1>6. e.pkt.ns # n
  BY <1>2, <1>3 DEF PacketFields
<1>7. Foreign(d.mesh, n)
  BY <1>5, <1>6 DEF Foreign
<1> QED
  BY <1>5, <1>7 DEF Called, Listens

\* What mesh_service() does with a packet before it looks at the pending ones.
LEMMA ReceivedCalls ==
  ASSUME NEW c, NEW n, NEW near, NodeOK(c, n, near), c.out = << >>, Foreign(c.mesh, n),
         NEW p, Comes(p, near), NEW k, NEW d, d = Received(c, p, k).node
  PROVE  Called(c, d, n)
<1>1. PICK h : h = HistoryAndRouting(c, p)
  OBVIOUS
<1>2. DOMAIN c = NodeFields /\ c.me = n
  BY DEF NodeOK
<1>3. CASE ~ p.ver \/ p.ms = c.me
  <2>1. d = c
    BY <1>3 DEF Received
  <2> QED
    BY <2>1, NothingCalled
<1>4. CASE p.ms # n /\ p.ver
  <2>1. /\ NodeOK(h, n, near)
        /\ h.mesh = c.mesh /\ h.own = c.own /\ h.out = c.out /\ h.seq = c.seq /\ h.retry = c.retry
    BY <1>1, <1>4, HistoryAndRoutingIs
  <2>2. DOMAIN h = NodeFields /\ h.me = n /\ Foreign(h.mesh, n) /\ h.out = << >>
    BY <2>1 DEF NodeOK
  <2>3. PICK a : a = [h EXCEPT !.app = Append(@, p)]
    OBVIOUS
  <2>4. /\ NodeOK(a, n, near)
        /\ a.mesh = c.mesh /\ a.own = c.own /\ a.out = << >> /\ a.seq = c.seq /\ a.retry = c.retry
    <3>1. NodeOK(a, n, near)
      BY <2>1, <2>3, ToApplicationIs
    <3>2. a.mesh = h.mesh /\ a.own = h.own /\ a.out = h.out /\ a.seq = h.seq /\ a.retry = h.retry
      BY <2>2, <2>3 DEF NodeFields
    <3> QED
      BY <2>1, <3>1, <3>2
  <2>5. ASSUME NEW b, b \in {h, a}, NEW e, Called(b, e, n) PROVE Called(c, e, n)
    <3>1. b.own = c.own /\ b.seq = c.seq /\ b.retry = c.retry
      BY <2>1, <2>4, <2>5
    <3>2. CASE Listens(b, e, n)
      BY <2>5, <3>1, <3>2 DEF Called, Listens
    <3>3. CASE Speaks(b, e, n)
      <4>1. NextSeq(b) = NextSeq(c)
        BY <3>1 DEF NextSeq
      <4>2. PICK q : q.ns = n /\ q.id = NextSeq(b) /\ e.out = << q >> /\ Kept(b, e, q)
        BY <3>3 DEF Speaks
      <4>3. Kept(c, e, q)
        <5>1. CASE e.own = b.own
          BY <3>1, <5>1 DEF Kept
        <5>2. CASE e.own # b.own
          <6>1. PICK o, m : e.own = [b.own EXCEPT ![o].pkt = m] /\ m.id = q.id /\ m.rem = b.retry
            BY <4>2, <5>2 DEF Kept
          <6>2. e.own = [c.own EXCEPT ![o].pkt = m] /\ m.rem = c.retry
            BY <3>1, <6>1
          <6> QED
            BY ONLY <6>1, <6>2, Zenon DEF Kept
        <5> QED
          BY <5>1, <5>2
      <4>4. Speaks(c, e, n)
        BY <3>3, <4>1, <4>2, <4>3 DEF Speaks
      <4> QED
        BY <2>5, <3>1, <4>4 DEF Called
    <3> QED
      BY <2>5, <3>2, <3>3 DEF Called
  <2>6. Called(c, h, n) /\ Called(c, a, n)
    BY <2>1, <2>4, NothingCalled
  <2>7. CASE d = h
    BY <2>6, <2>7
  <2>8. CASE d = HandleOurPacket(h, p, IsDuplicate(c, p), k)
    <3>1. PICK b : b = IF ~ IsDuplicate(c, p) /\ p.data THEN a ELSE h
      OBVIOUS
    <3>2. b \in {h, a}
      BY <3>1
    <3>3. NodeOK(b, n, near) /\ b.out = << >> /\ Foreign(b.mesh, n)
      BY <2>1, <2>2, <2>4, <3>2
    <3>4. d = b \/ d = SendAck(b, p, TRUE, k) \/ d = SendAck(b, p, FALSE, k)
      BY <2>3, <2>8, <3>1 DEF HandleOurPacket
    <3>5. CASE d = b
      BY <2>6, <3>2, <3>5
    <3>6. CASE d = SendAck(b, p, TRUE, k)
      <4>1. Called(b, d, n)
        BY <3>3, <3>6, MeshSendCalls DEF SendAck
      <4> QED
        BY <2>5, <3>2, <4>1
    <3>7. CASE d = SendAck(b, p, FALSE, k)
      <4>1. Called(b, d, n)
        BY <3>3, <3>7, MeshSendCalls DEF SendAck
      <4> QED
        BY <2>5, <3>2, <4>1
    <3> QED
      BY <3>4, <3>5, <3>6, <3>7
  <2>9. CASE p.ns # n /\ d = HandleBroadcast(h, p)
    <3>1. PICK hopped : hopped = [p EXCEPT !.hop = @ + 1]
      OBVIOUS
    <3>2. DOMAIN hopped = PacketFields /\ hopped.ns # n
      BY <2>9, <3>1 DEF Comes, PacketFields
    <3>3. d = a \/ d = SendPacket(a, hopped)
      BY <2>3, <2>9, <3>1 DEF HandleBroadcast
    <3>4. CASE d = SendPacket(a, hopped)
      <4>1. Foreign(a.mesh, n)
        BY <2>4
      <4>2. Called(a, d, n)
        BY ONLY <2>4, <3>2, <3>4, <4>1, PassesOn
      <4> QED
        BY <2>5, <4>2
    <3> QED
      BY <2>6, <3>3, <3>4
  <2>10. CASE p.ns # n /\ d = HandleMeshPacket(h, p, k).node
    <3>1. PICK next : next = IF FindRoute(h.rte, p.nd) = 0 THEN Zero ELSE h.rte[FindRoute(h.rte, p.nd)].next
      OBVIOUS
    <3>2. PICK hopped : hopped = [p EXCEPT !.hop = @ + 1]
      OBVIOUS
    <3>3. PICK onward : onward = [hopped EXCEPT !.md = next, !.ms = h.me]
      OBVIOUS
    <3>4. /\ DOMAIN hopped = PacketFields /\ hopped.ns # n
          /\ DOMAIN onward = PacketFields /\ onward.ns # n
      BY <2>10, <3>2, <3>3 DEF Comes, PacketFields
    <3>5. PICK s : s = SendPacket(h, onward)
      OBVIOUS
    <3>6. d = AddPending(h, hopped, k) \/ d = h \/ d = AddPending(s, onward, k) \/ d = s
      BY <2>10, <3>1, <3>2, <3>3, <3>5 DEF HandleMeshPacket
    <3>7. /\ Called(h, s, n) /\ Listens(h, s, n)
          /\ s.retry = h.retry /\ Foreign(s.mesh, n) /\ DOMAIN s = NodeFields /\ s.me = n
      BY ONLY <2>1, <2>2, <3>4, <3>5, PassesOn
    <3>8. DOMAIN s.mesh = 1 .. MeshPend /\ DOMAIN h.mesh = 1 .. MeshPend
      <4>1. DOMAIN onward = PacketFields
        BY <3>4
      <4>2. s.mesh = h.mesh
        BY <2>2, <3>5 DEF SendPacket, NodeFields
      <4> QED
        BY <2>1, <4>2 DEF NodeOK, AllHeld
    <3>9. CASE d = AddPending(h, hopped, k)
      <4>1. Listens(h, h, n)
        BY <2>2, NothingForeign DEF Listens
      <4>2. Called(h, d, n)
        BY ONLY <2>2, <3>4, <3>8, <3>9, <4>1, KeepsForeign
      <4> QED
        BY <2>5, <4>2
    <3>10. CASE d = AddPending(s, onward, k)
      <4>1. Called(h, d, n)
        BY ONLY <3>4, <3>7, <3>8, <3>10, KeepsForeign
      <4> QED
        BY <2>5, <4>1
    <3>11. CASE d = s
      BY <2>5, <3>7, <3>11
    <3> QED
      BY <2>6, <3>6, <3>9, <3>10, <3>11
  <2>11. \/ d = h
         \/ p.ns # n /\ d = HandleBroadcast(h, p)
         \/ d = HandleOurPacket(h, p, IsDuplicate(c, p), k)
         \/ p.ns # n /\ d = HandleMeshPacket(h, p, k).node
    BY <1>1, <1>2, <1>4 DEF Received
  <2> QED
    BY <2>7, <2>8, <2>9, <2>10, <2>11
<1> QED
  BY <1>2, <1>3, <1>4

-----------------------------------------------------------------------------
(***************************************************************************)
(* The pending packets: each entry transmits its packet at most once in a  *)
(* call and may then transmit it so many times less.                       *)
(***************************************************************************)
\* The own packet of entry e is still the one in entry f, or it is gone.
Lasts(e, f, r) ==
  /\ f.disc = FALSE /\ f.pkt.rem \in 0 .. 7
  /\ f.pkt.nd # Zero =>
        e.pkt.nd # Zero /\ f.pkt.id = e.pkt.id /\ Left(f.pkt, r) <= Left(e.pkt, r)

\* It was transmitted.
Spent(e, f, q, r) ==
  /\ \E p : q = << p >> /\ p.id = e.pkt.id
  /\ e.pkt.nd # Zero /\ Left(f.pkt, r) + 1 <= Left(e.pkt, r)

LEMMA LastsItself == ASSUME NEW e, e.disc = FALSE, e.pkt.rem \in 0 .. 7, NEW r \in 0 .. 7 PROVE Lasts(e, e, r)
<1>1. Left(e.pkt, r) \in Nat
  BY DEF Left
<1> QED
  BY <1>1 DEF Lasts

LEMMA GoneLasts == ASSUME NEW e, NEW r PROVE Lasts(e, NoPending, r)
BY DEF Lasts, NoPending, NoPkt, Zero

LEMMA OneFewer == ASSUME NEW x \in 1 .. 7 PROVE (x + 7) % 8 = x - 1
BY SMTT(30)

LEMMA ExpiredOwn ==
  ASSUME NEW c, NEW r \in 0 .. 7, c.retry = r, NEW n, NEW e, Held(e, n), e.disc = FALSE, e.pkt.rem \in 0 .. 7,
         e.pkt.nd # Zero, NEW d, d = PendingExpired(c, e)
  PROVE  /\ Lasts(e, d.entry, r)
         /\ d.out = << >> \/ Spent(e, d.entry, d.out, r)
<1>1. DOMAIN e = {"pkt", "disc"} /\ DOMAIN e.pkt = PacketFields
  BY DEF Held, Hopped
<1>2. PICK x : x = (e.pkt.rem + 7) % 8
  OBVIOUS
<1>3. CASE e.pkt.rem > 0
  <2>1. x = e.pkt.rem - 1
    <3>1. PICK y : y = e.pkt.rem
      OBVIOUS
    <3>2. y \in 1 .. 7
      BY <1>3, <3>1
    <3> QED
      BY <1>2, <3>1, <3>2, OneFewer
  <2>2. PICK q : q = [e.pkt EXCEPT !.rem = x, !.ms = c.me]
    OBVIOUS
  <2>3. q = Retransmit(c, e.pkt)
    BY <1>2, <2>2 DEF Retransmit
  <2>4. q.rem = x /\ q.md = e.pkt.md /\ q.nd = e.pkt.nd /\ q.id = e.pkt.id
    BY <1>1, <2>2 DEF PacketFields
  <2>5. PICK f : f = [e EXCEPT !.pkt = q]
    OBVIOUS
  <2>6. f.disc = FALSE /\ f.pkt = q
    BY <1>1, <2>5
  <2>7. d = [Keep(f) EXCEPT !.out = << q >>]
    BY <1>3, <2>3, <2>5 DEF PendingExpired
  <2>8. d.entry = f /\ d.out = << q >>
    BY <2>7 DEF Keep
  <2>9. q.rem \in 0 .. 7 /\ q.rem + 1 = e.pkt.rem
    BY <1>3, <2>1, <2>4
  <2>10. Left(q, r) + 1 = Left(e.pkt, r) /\ Left(q, r) \in Nat
    BY <2>4, <2>9 DEF Left
  <2> QED
    BY <2>4, <2>6, <2>8, <2>9, <2>10 DEF Lasts, Spent
<1>4. CASE ~ (e.pkt.rem > 0)
  <2>1. e.pkt.rem = 0
    BY <1>4
  <2>2. PICK away : away = [e.pkt EXCEPT !.md = Zero, !.max = DiscHops]
    OBVIOUS
  <2>3. PICK u : u = Retransmit(c, away)
    OBVIOUS
  <2>4. DOMAIN away = PacketFields /\ away.md = Zero /\ away.id = e.pkt.id /\ away.nd = e.pkt.nd
    BY <1>1, <2>2 DEF PacketFields
  <2>5. PICK y : u = [away EXCEPT !.rem = y, !.ms = c.me]
    BY <2>3 DEF Retransmit
  <2>6. PICK h : h = [u EXCEPT !.rem = c.retry]
    OBVIOUS
  <2>7. DOMAIN u = PacketFields /\ u.md = Zero /\ u.id = e.pkt.id /\ u.nd = e.pkt.nd
    BY <2>4, <2>5 DEF PacketFields
  <2>8. h.rem = r /\ h.md = Zero /\ h.id = e.pkt.id /\ h.nd = e.pkt.nd
    BY <2>6, <2>7 DEF PacketFields
  <2>9. \/ /\ e.pkt.md # Zero
           /\ d = [entry |-> [e EXCEPT !.pkt = h], out |-> << u >>, lost |-> e.pkt.nd]
        \/ d = [Clear EXCEPT !.lost = e.pkt.nd]
    BY <1>4, <2>2, <2>3, <2>6 DEF PendingExpired
  <2>10. CASE /\ e.pkt.md # Zero
              /\ d = [entry |-> [e EXCEPT !.pkt = h], out |-> << u >>, lost |-> e.pkt.nd]
    <3>1. PICK f : f = [e EXCEPT !.pkt = h]
      OBVIOUS
    <3>2. f.disc = FALSE /\ f.pkt = h
      BY <1>1, <3>1
    <3>3. d.entry = f /\ d.out = << u >>
      BY <2>10, <3>1
    <3>4. Left(h, r) = r /\ Left(e.pkt, r) = 1 + r
      BY <2>1, <2>8, <2>10 DEF Left
    <3> QED
      BY <2>7, <2>8, <3>2, <3>3, <3>4 DEF Lasts, Spent
  <2>11. CASE d = [Clear EXCEPT !.lost = e.pkt.nd]
    <3>1. d.entry = NoPending /\ d.out = << >>
      BY <2>11 DEF Clear, Keep
    <3> QED
      BY <3>1, GoneLasts
  <2> QED
    BY <2>9, <2>10, <2>11
<1> QED
  BY <1>3, <1>4

LEMMA OwnEntry ==
  ASSUME NEW c, NEW r \in 0 .. 7, c.retry = r, NEW n, NEW e, Held(e, n), e.disc = FALSE, e.pkt.rem \in 0 .. 7,
         NEW rcv, NEW due \in BOOLEAN, NEW d, d = PendingEntry(c, e, rcv, due)
  PROVE  /\ Lasts(e, d.entry, r)
         /\ d.out = << >> \/ (due /\ Spent(e, d.entry, d.out, r))
<1>1. CASE d = Keep(e)
  <2>1. d.entry = e /\ d.out = << >>
    BY <1>1 DEF Keep
  <2> QED
    BY <2>1, LastsItself
<1>2. CASE d = Clear
  <2>1. d.entry = NoPending /\ d.out = << >>
    BY <1>2 DEF Clear, Keep
  <2> QED
    BY <2>1, GoneLasts
<1>3. CASE d = Keep([e EXCEPT !.pkt.rem = 0])
  <2>1. PICK q : q = [e.pkt EXCEPT !.rem = 0]
    OBVIOUS
  <2>2. PICK f : f = [e EXCEPT !.pkt = q]
    OBVIOUS
  <2>3. d.entry = f /\ d.out = << >>
    BY <1>3, <2>1, <2>2 DEF Keep
  <2>4. DOMAIN e = {"pkt", "disc"} /\ DOMAIN e.pkt = PacketFields
    BY DEF Held, Hopped
  <2>5. f.disc = FALSE /\ f.pkt = q
    BY <2>2, <2>4
  <2>6. q.rem = 0 /\ q.nd = e.pkt.nd /\ q.md = e.pkt.md /\ q.id = e.pkt.id
    BY <2>1, <2>4 DEF PacketFields
  <2>7. Left(q, r) <= Left(e.pkt, r)
    BY <2>6 DEF Left
  <2> QED
    BY <2>3, <2>5, <2>6, <2>7 DEF Lasts
<1>4. CASE due /\ e.pkt.nd # Zero /\ d = PendingExpired(c, e)
  BY <1>4, ExpiredOwn
<1>5. \/ d = Keep(e) \/ d = Clear \/ d = Keep([e EXCEPT !.pkt.rem = 0])
      \/ due /\ e.pkt.nd # Zero /\ d = PendingExpired(c, e)
  BY DEF PendingEntry, PendingRouted
<1> QED
  BY <1>1, <1>2, <1>3, <1>4, <1>5

\* Nothing, or a packet of another node.
ForeignOne(q, n) == q = << >> \/ \E p : q = << p >> /\ p.ns # n

\* What is kept for other nodes stays theirs.
LEMMA ForeignEntry ==
  ASSUME NEW c, NEW n, n # Zero, NEW e, Held(e, n), e.pkt.ns # n, NEW rcv, NEW due,
         NEW d, d = PendingEntry(c, e, rcv, due)
  PROVE  d.entry.pkt.ns # n /\ ForeignOne(d.out, n)
<1> USE DEF ForeignOne
<1>1. DOMAIN e = {"pkt", "disc"} /\ DOMAIN e.pkt = PacketFields
  BY DEF Held, Hopped
<1>2. NoPending.pkt.ns # n
  BY DEF NoPending, NoPkt, Zero
<1>3. ASSUME NEW p, DOMAIN p = PacketFields, p.ns # n, NEW q, q = Retransmit(c, p)
      PROVE  DOMAIN q = PacketFields /\ q.ns # n
  <2>1. PICK x : q = [p EXCEPT !.rem = x, !.ms = c.me]
    BY <1>3 DEF Retransmit
  <2> QED
    BY <1>3, <2>1 DEF PacketFields
<1>4. CASE d = Keep(e)
  BY <1>4 DEF Keep
<1>5. CASE d = Clear
  BY <1>2, <1>5 DEF Clear, Keep
<1>6. CASE d = Keep([e EXCEPT !.pkt.rem = 0])
  <2>1. PICK q : q = [e.pkt EXCEPT !.rem = 0]
    OBVIOUS
  <2>2. PICK f : f = [e EXCEPT !.pkt = q]
    OBVIOUS
  <2>3. d.entry = f /\ d.out = << >>
    BY <1>6, <2>1, <2>2 DEF Keep
  <2>4. f.pkt = q /\ q.ns = e.pkt.ns
    BY <1>1, <2>1, <2>2 DEF PacketFields
  <2> QED
    BY <2>3, <2>4
<1>7. CASE d = [Clear EXCEPT !.out = <<[e.pkt EXCEPT !.ms = c.me]>>]
  <2>1. PICK q : q = [e.pkt EXCEPT !.ms = c.me]
    OBVIOUS
  <2>2. q.ns # n
    BY <1>1, <2>1 DEF PacketFields
  <2>3. d.entry = NoPending /\ d.out = << q >>
    BY <1>7, <2>1 DEF Clear, Keep
  <2> QED
    BY <1>2, <2>2, <2>3
<1>8. CASE d = PendingExpired(c, e)
  <2>1. PICK again : again = Retransmit(c, e.pkt)
    OBVIOUS
  <2>2. PICK away : away = [e.pkt EXCEPT !.md = Zero, !.max = DiscHops]
    OBVIOUS
  <2>3. PICK u : u = Retransmit(c, away)
    OBVIOUS
  <2>4. PICK h : h = [u EXCEPT !.rem = c.retry]
    OBVIOUS
  <2>5. again.ns # n
    BY <1>1, <1>3, <2>1
  <2>6. DOMAIN away = PacketFields /\ away.ns # n
    BY <1>1, <2>2 DEF PacketFields
  <2>7. DOMAIN u = PacketFields /\ u.ns # n
    BY <1>3, <2>3, <2>6
  <2>8. h.ns # n
    BY <2>4, <2>7 DEF PacketFields
  <2>9. \/ d = [Keep([e EXCEPT !.pkt = again]) EXCEPT !.out = << again >>]
        \/ d = [entry |-> [e EXCEPT !.pkt = h], out |-> << u >>, lost |-> e.pkt.nd]
        \/ d = [Clear EXCEPT !.lost = e.pkt.nd]
    BY <1>8, <2>1, <2>2, <2>3, <2>4 DEF PendingExpired
  <2>10. CASE d = [Keep([e EXCEPT !.pkt = again]) EXCEPT !.out = << again >>]
    <3>1. d.entry = [e EXCEPT !.pkt = again] /\ d.out = << again >>
      BY <2>10 DEF Keep
    <3> QED
      BY <1>1, <2>5, <3>1
  <2>11. CASE d = [entry |-> [e EXCEPT !.pkt = h], out |-> << u >>, lost |-> e.pkt.nd]
    <3>1. d.entry = [e EXCEPT !.pkt = h] /\ d.out = << u >>
      BY <2>11
    <3> QED
      BY <1>1, <2>7, <2>8, <3>1
  <2>12. CASE d = [Clear EXCEPT !.lost = e.pkt.nd]
    BY <1>2, <2>12 DEF Clear, Keep
  <2> QED
    BY <2>9, <2>10, <2>11, <2>12
<1>9. \/ d = Keep(e) \/ d = Clear \/ d = Keep([e EXCEPT !.pkt.rem = 0])
      \/ d = [Clear EXCEPT !.out = <<[e.pkt EXCEPT !.ms = c.me]>>]
      \/ d = PendingExpired(c, e)
  BY DEF PendingEntry, PendingRouted, PendingDiscovery
<1> QED
  BY <1>4, <1>5, <1>6, <1>7, <1>8, <1>9

-----------------------------------------------------------------------------
(***************************************************************************)
(* What an array transmits: a packet of one entry each.                    *)
(***************************************************************************)
OneAtMost(q) == q = << >> \/ \E p : q = << p >>

\* The packets in q come from entries of their own among the first k.
From(q, list, k) ==
  /\ \E Z : q \in Seq(Z)
  /\ \A x \in 1 .. Len(q) : \E i \in 1 .. k : list[i].out = << q[x] >>
Apart(list, k) ==
  \A i, j \in 1 .. k : \A p, q : list[i].out = << p >> /\ list[j].out = << q >> /\ p.id = q.id => i = j
Once(q) == \A x, y \in 1 .. Len(q) : q[x].id = q[y].id => x = y

LEMMA JoinedFrom ==
  ASSUME NEW size \in Nat, NEW list, DOMAIN list = 1 .. size, \A i \in 1 .. size : OneAtMost(list[i].out),
         NEW q, q = JoinAll(<< >>, list)
  PROVE  /\ From(q, list, size)
         /\ Apart(list, size) => Once(q)
<1> DEFINE Y == {p \in UNION {{list[i].out[1]} : i \in 1 .. size} : TRUE}
<1>1. ASSUME NEW i \in 1 .. size PROVE list[i].out = << >> \/ \E p \in Y : list[i].out = << p >>
  <2>1. OneAtMost(list[i].out)
    OBVIOUS
  <2>2. CASE list[i].out # << >>
    <3>1. PICK p : list[i].out = << p >>
      BY <2>1, <2>2 DEF OneAtMost
    <3>2. p = list[i].out[1]
      BY <3>1
    <3>3. p \in Y
      BY <3>2
    <3> QED
      BY <3>1, <3>3
  <2> QED
    BY <2>2
<1> HIDE DEF Y
<1>2. PICK D : D = Seq(Y)
  OBVIOUS
<1>3. << >> \in D
  BY <1>2
<1>4. ASSUME NEW x \in D, NEW i \in 1 .. size PROVE Joins(x, list[i]) \in D
  <2>1. list[i].out \in Seq(Y)
    <3>1. CASE list[i].out = << >>
      BY <3>1
    <3>2. CASE list[i].out # << >>
      <4>1. PICK p \in Y : list[i].out = << p >>
        BY <1>1, <3>2
      <4> QED
        BY <4>1
    <3> QED
      BY <3>1, <3>2
  <2>2. x \in Seq(Y)
    BY <1>2
  <2>3. x \o list[i].out \in Seq(Y)
    BY <2>1, <2>2
  <2> QED
    BY <1>2, <2>3 DEF Joins
<1>5. PICK f : Turns(f, D, << >>, size, list)
  <2>1. \A x \in D : \A i \in 1 .. size : Joins(x, list[i]) \in D
    BY <1>4
  <2> QED
    BY ONLY <1>3, <2>1, TransmitFold, size \in Nat, DOMAIN list = 1 .. size
<1> DEFINE Good(k) == From(f[k], list, k) /\ (Apart(list, k) => Once(f[k]))
           Z == {k \in Nat : k <= size => Good(k)}
<1>6. 0 \in Z
  <2>1. f[0] \in Seq(Y) /\ f[0] = << >> /\ Len(f[0]) = 0
    BY <1>2, <1>5 DEF Turns
  <2>2. \A x \in 1 .. Len(f[0]) : FALSE
    BY <2>1
  <2> QED
    BY <2>1, <2>2 DEF From, Once
<1>7. ASSUME NEW k \in Nat, k \in Z PROVE k + 1 \in Z
  <2> SUFFICES ASSUME k + 1 <= size PROVE Good(k + 1)
    OBVIOUS
  <2>1. k \in 0 .. size /\ k + 1 \in 1 .. size /\ (k + 1) - 1 = k /\ k <= size
    OBVIOUS
  <2>2. Good(k)
    BY <1>7, <2>1
  <2>3. PICK a : a = f[k]
    OBVIOUS
  <2>4. PICK b : b = f[k + 1]
    OBVIOUS
  <2>5. a \in Seq(Y) /\ b \in Seq(Y)
    <3>1. k + 1 \in 0 .. size
      BY <2>1
    <3> QED
      BY <1>2, <1>5, <2>1, <2>3, <2>4, <3>1 DEF Turns
  <2>6. b = a \o list[k + 1].out
    BY <1>5, <2>1, <2>3, <2>4 DEF Joins, Turns
  <2>7. /\ \A x \in 1 .. Len(a) : \E i \in 1 .. k : list[i].out = << a[x] >>
        /\ Apart(list, k) => Once(a)
    BY <2>2, <2>3 DEF From
  <2>8. Apart(list, k + 1) => Apart(list, k)
    <3>1. \A i \in 1 .. k : i \in 1 .. k + 1
      OBVIOUS
    <3> QED
      BY <3>1, Zenon DEF Apart
  <2>9. CASE list[k + 1].out = << >>
    <3>1. b = a
      BY <2>5, <2>6, <2>9
    <3>2. \A i \in 1 .. k : i \in 1 .. k + 1
      OBVIOUS
    <3>3. From(b, list, k + 1)
      BY <2>5, <2>7, <3>1, <3>2 DEF From
    <3> QED
      BY <2>4, <2>7, <2>8, <3>1, <3>3
  <2>10. CASE list[k + 1].out # << >>
    <3>1. PICK p \in Y : list[k + 1].out = << p >>
      BY <1>1, <2>1, <2>10
    <3>2. b = a \o << p >>
      BY <2>6, <3>1
    <3>3. /\ Len(a) \in Nat /\ Len(b) = Len(a) + 1 /\ b[Len(a) + 1] = p
          /\ \A x \in 1 .. Len(a) : b[x] = a[x]
      BY <2>5, <3>2
    <3>4. ASSUME NEW x \in 1 .. Len(b) PROVE x \in 1 .. Len(a) \/ x = Len(a) + 1
      BY <3>3
    <3>5. \A x \in 1 .. Len(b) : \E i \in 1 .. k + 1 : list[i].out = << b[x] >>
      <4> SUFFICES ASSUME NEW x \in 1 .. Len(b) PROVE \E i \in 1 .. k + 1 : list[i].out = << b[x] >>
        OBVIOUS
      <4>1. CASE x = Len(a) + 1
        BY <2>1, <3>1, <3>3, <4>1
      <4>2. CASE x \in 1 .. Len(a)
        <5>1. PICK i \in 1 .. k : list[i].out = << a[x] >>
          BY <2>7, <4>2
        <5>2. b[x] = a[x] /\ i \in 1 .. k + 1
          BY <3>3, <4>2
        <5> QED
          BY <5>1, <5>2
      <4> QED
        BY <3>4, <4>1, <4>2
    <3>6. From(b, list, k + 1)
      BY <2>5, <3>5 DEF From
    <3>7. ASSUME Apart(list, k + 1) PROVE Once(b)
      <4>1. \A x, y \in 1 .. Len(a) : a[x].id = a[y].id => x = y
        BY <2>7, <2>8, <3>7 DEF Once
      <4>2. ASSUME NEW x \in 1 .. Len(a) PROVE a[x].id # p.id
        <5>1. PICK i \in 1 .. k : list[i].out = << a[x] >>
          BY <2>7
        <5>2. i \in 1 .. k + 1 /\ k + 1 \in 1 .. k + 1 /\ i # k + 1
          OBVIOUS
        <5>3. PICK e : e = a[x]
          OBVIOUS
        <5>4. list[i].out = << e >>
          BY <5>1, <5>3
        <5>5. e.id # p.id
          BY ONLY <3>1, <3>7, <5>2, <5>4, Zenon DEF Apart
        <5> QED
          BY <5>3, <5>5
      <4>3. ASSUME NEW x \in 1 .. Len(b), NEW y \in 1 .. Len(b), b[x].id = b[y].id PROVE x = y
        BY <3>3, <3>4, <4>1, <4>2, <4>3
      <4> QED
        BY <4>3 DEF Once
    <3> QED
      BY <2>4, <3>6, <3>7
  <2> QED
    BY <2>9, <2>10
<1>8. Nat \subseteq Z
  <2> HIDE DEF Z
  <2> QED BY <1>6, <1>7, Induct
<1>9. Good(size)
  BY <1>8
<1> QED
  BY <1>5, <1>9 DEF Turns

\* The packets kept for other nodes.
LEMMA ForeignArray ==
  ASSUME NEW c, NEW n, n # Zero, NEW arr, AllHeld(arr, n, MeshPend), Foreign(arr, n), NEW rcv, NEW due,
         NEW r, r = PendingArray(c, arr, rcv, due)
  PROVE  Foreign(r.arr, n) /\ ForeignOut(r.out, n)
<1>1. PICK done : done = [i \in DOMAIN arr |-> PendingEntry(c, arr[i], rcv, i \in due)]
  OBVIOUS
<1>2. MeshPend \in Nat /\ DOMAIN arr = 1 .. MeshPend /\ DOMAIN done = 1 .. MeshPend
  BY <1>1, MeshNodeAssumption DEF AllHeld
<1>3. ASSUME NEW i \in 1 .. MeshPend
      PROVE  done[i].entry.pkt.ns # n /\ ForeignOne(done[i].out, n)
  <2>1. PICK ran : ran = (i \in due)
    OBVIOUS
  <2>2. PICK d : d = PendingEntry(c, arr[i], rcv, ran)
    OBVIOUS
  <2>3. done[i] = d
    BY <1>1, <1>2, <2>1, <2>2
  <2>4. PICK e : e = arr[i]
    OBVIOUS
  <2>5. Held(e, n) /\ e.pkt.ns # n /\ d = PendingEntry(c, e, rcv, ran)
    BY <2>2, <2>4 DEF AllHeld, Foreign
  <2>6. d.entry.pkt.ns # n /\ ForeignOne(d.out, n)
    BY ONLY <2>5, ForeignEntry, n # Zero
  <2> QED
    BY <2>3, <2>6
<1>4. r.arr = [i \in DOMAIN arr |-> done[i].entry] /\ r.out = JoinAll(<< >>, done)
  BY <1>1 DEF PendingArray, JoinAll
<1>5. Foreign(r.arr, n)
  BY <1>2, <1>3, <1>4 DEF Foreign
<1>6. \A i \in 1 .. MeshPend : OneAtMost(done[i].out)
  BY <1>3 DEF OneAtMost, ForeignOne
<1>7. PICK q : q = JoinAll(<< >>, done)
  OBVIOUS
<1>8. From(q, done, MeshPend)
  BY <1>2, <1>6, <1>7, JoinedFrom
<1>9. ASSUME NEW x \in 1 .. Len(q) PROVE q[x].ns # n
  <2>1. PICK i \in 1 .. MeshPend : done[i].out = << q[x] >>
    BY <1>8 DEF From
  <2>2. PICK e : e = q[x]
    OBVIOUS
  <2>3. done[i].out = << e >> /\ << e >> # << >>
    BY <2>1, <2>2
  <2>4. PICK p : done[i].out = << p >> /\ p.ns # n
    BY <1>3, <2>3 DEF ForeignOne
  <2>5. p = e
    BY <2>3, <2>4
  <2> QED
    BY <2>2, <2>4, <2>5
<1>10. PICK Y : Y = {q[x] : x \in 1 .. Len(q)}
  OBVIOUS
<1>11. q \in Seq(Y) /\ \A y \in Y : y.ns # n
  BY <1>8, <1>9, <1>10 DEF From
<1> QED
  BY <1>4, <1>5, <1>7, <1>11 DEF ForeignOut

DistinctOf(own, S) ==
  \A i, j \in 1 .. OwnPend : i \in S /\ j \in S /\ Used(own, i) /\ Used(own, j)
                              /\ own[i].pkt.id = own[j].pkt.id => i = j

\* The own packets: each is transmitted once at most, if its timer was due.
LEMMA OwnArray ==
  ASSUME NEW c, NEW r \in 0 .. 7, c.retry = r, NEW n, NEW arr, AllHeld(arr, n, OwnPend), OwnPlain(arr),
         NEW rcv, NEW due, NEW a, a = PendingArray(c, arr, rcv, due)
  PROVE  /\ \A i \in 1 .. OwnPend : Lasts(arr[i], a.arr[i], r)
         /\ \E Z : a.out \in Seq(Z)
         /\ \A x \in 1 .. Len(a.out) : \E i \in 1 .. OwnPend :
               i \in due /\ Spent(arr[i], a.arr[i], << a.out[x] >>, r)
         /\ DistinctOf(arr, due) => Once(a.out)
<1>1. PICK done : done = [i \in DOMAIN arr |-> PendingEntry(c, arr[i], rcv, i \in due)]
  OBVIOUS
<1>2. OwnPend \in Nat /\ DOMAIN arr = 1 .. OwnPend /\ DOMAIN done = 1 .. OwnPend
  BY <1>1, MeshNodeAssumption DEF AllHeld
<1>3. ASSUME NEW i \in 1 .. OwnPend
      PROVE  /\ Lasts(arr[i], done[i].entry, r)
             /\ done[i].out = << >> \/ (i \in due /\ Spent(arr[i], done[i].entry, done[i].out, r))
  <2>1. PICK ran : ran = (i \in due)
    OBVIOUS
  <2>2. PICK d : d = PendingEntry(c, arr[i], rcv, ran)
    OBVIOUS
  <2>3. done[i] = d
    BY <1>1, <1>2, <2>1, <2>2
  <2>4. Held(arr[i], n) /\ arr[i].disc = FALSE /\ arr[i].pkt.rem \in 0 .. 7
    BY DEF AllHeld, OwnPlain
  <2>5. ran \in BOOLEAN
    BY <2>1
  <2>6. /\ Lasts(arr[i], d.entry, r)
        /\ d.out = << >> \/ (ran /\ Spent(arr[i], d.entry, d.out, r))
    BY ONLY <2>2, <2>4, <2>5, OwnEntry, r \in 0 .. 7, c.retry = r
  <2> QED
    BY <2>1, <2>3, <2>6
<1>4. a.arr = [i \in DOMAIN arr |-> done[i].entry] /\ a.out = JoinAll(<< >>, done)
  BY <1>1 DEF PendingArray, JoinAll
<1>5. \A i \in 1 .. OwnPend : a.arr[i] = done[i].entry
  BY <1>2, <1>4
<1>6. \A i \in 1 .. OwnPend : OneAtMost(done[i].out)
  BY <1>3 DEF OneAtMost, Spent
<1>7. PICK q : q = JoinAll(<< >>, done)
  OBVIOUS
<1>8. From(q, done, OwnPend) /\ (Apart(done, OwnPend) => Once(q))
  BY ONLY <1>2, <1>6, <1>7, JoinedFrom
<1>9. ASSUME NEW x \in 1 .. Len(q)
      PROVE  \E i \in 1 .. OwnPend : i \in due /\ Spent(arr[i], a.arr[i], << q[x] >>, r)
  <2>1. PICK i \in 1 .. OwnPend : done[i].out = << q[x] >>
    BY <1>8 DEF From
  <2>2. << q[x] >> # << >>
    OBVIOUS
  <2> QED
    BY <1>3, <1>5, <2>1, <2>2
<1>10. ASSUME DistinctOf(arr, due) PROVE Apart(done, OwnPend)
  <2> SUFFICES ASSUME NEW i \in 1 .. OwnPend, NEW j \in 1 .. OwnPend, NEW x, NEW y,
                      done[i].out = << x >>, done[j].out = << y >>, x.id = y.id
               PROVE  i = j
    BY DEF Apart
  <2>1. << x >> # << >> /\ << y >> # << >>
    OBVIOUS
  <2>2. i \in due /\ Spent(arr[i], done[i].entry, << x >>, r)
    BY <1>3, <2>1
  <2>3. j \in due /\ Spent(arr[j], done[j].entry, << y >>, r)
    BY <1>3, <2>1
  <2>4. PICK p : << x >> = << p >> /\ p.id = arr[i].pkt.id
    BY <2>2 DEF Spent
  <2>5. PICK z : << y >> = << z >> /\ z.id = arr[j].pkt.id
    BY <2>3 DEF Spent
  <2>6. x = p /\ y = z
    BY <2>4, <2>5
  <2>7. Used(arr, i) /\ Used(arr, j)
    BY <2>2, <2>3 DEF Spent, Used
  <2> QED
    BY <1>10, <2>2, <2>3, <2>4, <2>5, <2>6, <2>7 DEF DistinctOf
<1>11. \A i \in 1 .. OwnPend : Lasts(arr[i], a.arr[i], r)
  BY <1>3, <1>5
<1>12. \E Z : q \in Seq(Z)
  BY <1>8 DEF From
<1>13. q = a.out
  BY <1>4, <1>7
<1> QED
  BY <1>8, <1>9, <1>10, <1>11, <1>12, <1>13

\* What a call does with the pending packets of a node d: S are the own ones that are due.
Spends(d, e, r, S, q) ==
  /\ \E Z : q \in Seq(Z)
  /\ \A x \in 1 .. Len(q) : \E i \in 1 .. OwnPend : i \in S /\ Spent(d.own[i], e.own[i], << q[x] >>, r)
  /\ DistinctOf(d.own, S) => Once(q)

Served(d, e, n, r, S) ==
  /\ e.retry = d.retry /\ e.seq = d.seq /\ Foreign(e.mesh, n)
  /\ \A i \in 1 .. OwnPend : Lasts(d.own[i], e.own[i], r)
  /\ \E m, q : e.out = d.out \o m \o q /\ ForeignOut(m, n) /\ Spends(d, e, r, S, q)

LEMMA HandlePendingServes ==
  ASSUME NEW d, NEW n, NEW near, NodeOK(d, n, near), n # Zero, NEW r \in 0 .. 7, d.retry = r,
         Foreign(d.mesh, n), OwnPlain(d.own), NEW rcv, NEW md, NEW od,
         NEW e, e = HandlePending(d, rcv, md, od)
  PROVE  Served(d, e, n, r, od)
<1>1. PICK m : m = PendingArray(d, d.mesh, rcv, md)
  OBVIOUS
<1>2. PICK a : a = [d EXCEPT !.rte = m.rte]
  OBVIOUS
<1>3. PICK o : o = PendingArray(a, d.own, rcv, od)
  OBVIOUS
<1>4. /\ DOMAIN d = NodeFields /\ AllHeld(d.mesh, n, MeshPend) /\ AllHeld(d.own, n, OwnPend)
  BY DEF NodeOK
<1>5. a.retry = r
  BY <1>2, <1>4 DEF NodeFields
<1>6. PICK out : out = d.out \o m.out \o o.out
  OBVIOUS
<1>7. e = [d EXCEPT !.mesh = m.arr, !.own = o.arr, !.rte = o.rte, !.out = out]
  BY <1>1, <1>2, <1>3, <1>6 DEF HandlePending
<1>8. /\ e.retry = d.retry /\ e.seq = d.seq /\ e.mesh = m.arr /\ e.own = o.arr
      /\ e.out = d.out \o m.out \o o.out
  BY <1>4, <1>6, <1>7 DEF NodeFields
<1>9. Foreign(m.arr, n) /\ ForeignOut(m.out, n)
  <2>1. PICK arr : arr = d.mesh
    OBVIOUS
  <2>2. AllHeld(arr, n, MeshPend) /\ Foreign(arr, n) /\ m = PendingArray(d, arr, rcv, md)
    BY <1>1, <1>4, <2>1
  <2> QED
    BY ONLY <2>2, ForeignArray, n # Zero
<1>10. /\ \A i \in 1 .. OwnPend : Lasts(d.own[i], o.arr[i], r)
       /\ \E Z : o.out \in Seq(Z)
       /\ \A x \in 1 .. Len(o.out) : \E i \in 1 .. OwnPend :
             i \in od /\ Spent(d.own[i], o.arr[i], << o.out[x] >>, r)
       /\ DistinctOf(d.own, od) => Once(o.out)
  <2>1. PICK arr : arr = d.own
    OBVIOUS
  <2>2. AllHeld(arr, n, OwnPend) /\ OwnPlain(arr) /\ o = PendingArray(a, arr, rcv, od)
    BY <1>3, <1>4, <2>1
  <2>3. /\ \A i \in 1 .. OwnPend : Lasts(arr[i], o.arr[i], r)
        /\ \E Z : o.out \in Seq(Z)
        /\ \A x \in 1 .. Len(o.out) : \E i \in 1 .. OwnPend :
              i \in od /\ Spent(arr[i], o.arr[i], << o.out[x] >>, r)
        /\ DistinctOf(arr, od) => Once(o.out)
    BY ONLY <1>5, <2>2, OwnArray, r \in 0 .. 7
  <2> QED
    BY <2>1, <2>3
<1>11. Spends(d, e, r, od, o.out)
  BY <1>8, <1>10 DEF Spends
<1> QED
  BY <1>8, <1>9, <1>10, <1>11 DEF Served

\* A call of mesh_send() leaves the pending packets as they are.
LEMMA NothingServed ==
  ASSUME NEW d, NEW n, NEW r \in 0 .. 7, Foreign(d.mesh, n), OwnPlain(d.own), NEW Z, d.out \in Seq(Z)
  PROVE  Served(d, d, n, r, {})
<1>1. d.out = d.out \o << >> \o << >>
  OBVIOUS
<1>2. Len(<< >>) = 0 /\ << >> \in Seq({})
  OBVIOUS
<1>3. \A x, y \in 1 .. Len(<< >>) : FALSE
  BY <1>2
<1>4. Spends(d, d, r, {}, << >>)
  BY <1>2, <1>3 DEF Spends, Once
<1>5. \A i \in 1 .. OwnPend : Lasts(d.own[i], d.own[i], r)
  BY LastsItself DEF OwnPlain
<1>6. ForeignOut(<< >>, n)
  BY NothingForeign
<1> QED
  BY ONLY <1>1, <1>4, <1>5, <1>6, Foreign(d.mesh, n) DEF Served

\* The slots after the first part of a call: as before, or one has the new packet.
SlotAfter(c, d, n, r, i) ==
  /\ d.own[i].disc = FALSE /\ d.own[i].pkt.rem \in 0 .. 7
  /\ \/ d.own[i] = c.own[i]
     \/ Speaks(c, d, n) /\ d.own[i].pkt.id = NextSeq(c) /\ Left(d.own[i].pkt, r) <= 1 + 2 * r

LEMMA CalledSlots ==
  ASSUME NEW c, NEW n, NEW near, NodeOK(c, n, near), NEW r \in 0 .. 7, c.retry = r, OwnPlain(c.own),
         NEW d, Called(c, d, n), NEW i \in 1 .. OwnPend
  PROVE  SlotAfter(c, d, n, r, i)
<1>1. c.own[i].disc = FALSE /\ c.own[i].pkt.rem \in 0 .. 7
  BY DEF OwnPlain
<1>2. CASE d.own[i] = c.own[i]
  BY <1>1, <1>2 DEF SlotAfter
<1>3. CASE d.own[i] # c.own[i]
  <2>1. Speaks(c, d, n)
    BY <1>3 DEF Called, Listens
  <2>2. PICK p : p.id = NextSeq(c) /\ Kept(c, d, p)
    BY <2>1 DEF Speaks
  <2>3. PICK o, h : d.own = [c.own EXCEPT ![o].pkt = h] /\ h.id = p.id /\ h.rem = c.retry
    BY <1>3, <2>2 DEF Kept
  <2>4. DOMAIN c.own = 1 .. OwnPend /\ DOMAIN c.own[i] = {"pkt", "disc"}
    BY DEF NodeOK, AllHeld, Held
  <2>5. i = o /\ d.own[i] = [c.own[i] EXCEPT !.pkt = h]
    BY <1>3, <2>3, <2>4
  <2>6. d.own[i].disc = FALSE /\ d.own[i].pkt = h
    BY <1>1, <2>4, <2>5
  <2>7. Left(h, r) <= 1 + 2 * r
    BY <2>3 DEF Left
  <2> QED
    BY <2>1, <2>2, <2>3, <2>6, <2>7 DEF SlotAfter
<1> QED
  BY <1>2, <1>3

-----------------------------------------------------------------------------
(***************************************************************************)
(* The transmissions of one call, by number.                               *)
(***************************************************************************)
LEMMA NextNumber ==
  ASSUME NEW m \in Nat, NEW x \in 0 .. m - 1
  PROVE  (x + 1) % m = 0 \/ ((x + 1) % m = x + 1 /\ x + 1 \in 1 .. m - 1)
<1>1. CASE x + 1 = m
  BY <1>1, SMTT(30)
<1>2. CASE x + 1 < m
  BY <1>2, SMTT(30)
<1> QED
  BY <1>1, <1>2

\* The places in out with a packet number i of node n.
Times(out, n, i) == {j \in DOMAIN out : out[j].ns = n /\ out[j].id = i}

LEMMA NoneOrOne ==
  ASSUME NEW Z, NEW out \in Seq(Z), NEW n, NEW i, NEW T, T = Times(out, n, i)
  PROVE  /\ Cardinality(T) \in Nat
         /\ Cardinality(T) = 0 <=> T = {}
         /\ (\A x, y \in T : x = y) => Cardinality(T) <= 1
<1>1. IsFiniteSet(1 .. Len(out))
  BY FS_Interval
<1>2. T \in SUBSET (1 .. Len(out))
  BY DEF Times
<1>3. IsFiniteSet(T)
  BY <1>1, <1>2, FS_Subset
<1>4. Cardinality(T) \in Nat /\ (Cardinality(T) = 0 <=> T = {})
  BY <1>3, FS_CardinalityType, FS_EmptySet
<1>5. ASSUME \A x, y \in T : x = y PROVE Cardinality(T) <= 1
  <2>1. ASSUME T # {} PROVE \E x : T = {x}
    <3>1. PICK x : x \in T
      BY <2>1
    <3>2. T = {x}
      BY <1>5, <3>1
    <3> QED
      BY <3>2
  <2>2. CASE T = {}
    BY <1>4, <2>2
  <2>3. CASE \E x : T = {x}
    <3>1. PICK x : T = {x}
      BY <2>3
    <3>2. Cardinality({x}) = 1
      BY FS_Singleton
    <3> QED
      BY <3>1, <3>2
  <2> QED
    BY <2>1, <2>2, <2>3
<1> QED
  BY <1>4, <1>5

\* What a node transmits of its own: what a call sends, and what the pending packets send.
Composed(out, a, m, q, n) ==
  /\ \E Y : out \in Seq(Y)
  /\ \A j \in DOMAIN out : out[j].ns = n =>
        \/ j \in 1 .. Len(a) /\ out[j] = a[j]
        \/ \E x \in 1 .. Len(q) : j = Len(a) + Len(m) + x /\ out[j] = q[x]
  /\ \A j \in 1 .. Len(a) : j \in DOMAIN out /\ out[j] = a[j]

LEMMA Joined ==
  ASSUME NEW A, NEW a \in Seq(A), NEW n, NEW m, ForeignOut(m, n), NEW Z, NEW q \in Seq(Z),
         NEW out, out = a \o m \o q
  PROVE  Composed(out, a, m, q, n)
<1>1. PICK B : m \in Seq(B) /\ \A x \in B : x.ns # n
  BY DEF ForeignOut
<1>2. PICK Y : Y = A \cup B \cup Z
  OBVIOUS
<1>3. a \in Seq(Y) /\ m \in Seq(Y) /\ q \in Seq(Y)
  BY <1>1, <1>2
<1>4. PICK b : b = a \o m
  OBVIOUS
<1>5. /\ b \in Seq(Y) /\ Len(b) = Len(a) + Len(m)
      /\ Len(a) \in Nat /\ Len(m) \in Nat /\ Len(q) \in Nat
      /\ \A j \in 1 .. Len(b) : b[j] = IF j <= Len(a) THEN a[j] ELSE m[j - Len(a)]
  BY <1>3, <1>4
<1>6. /\ out \in Seq(Y) /\ Len(out) = Len(b) + Len(q)
      /\ \A j \in 1 .. Len(out) : out[j] = IF j <= Len(b) THEN b[j] ELSE q[j - Len(b)]
  BY <1>3, <1>4, <1>5
<1>7. DOMAIN out = 1 .. Len(out)
  BY <1>6
<1>8. ASSUME NEW j \in DOMAIN out, out[j].ns = n
      PROVE  \/ j \in 1 .. Len(a) /\ out[j] = a[j]
             \/ \E x \in 1 .. Len(q) : j = Len(a) + Len(m) + x /\ out[j] = q[x]
  <2>1. j \in 1 .. Len(out)
    BY <1>7
  <2>2. CASE j <= Len(a)
    BY <1>5, <1>6, <2>1, <2>2
  <2>3. CASE j > Len(a) /\ j <= Len(a) + Len(m)
    <3>1. PICK x : x = j - Len(a) /\ x \in 1 .. Len(m)
      BY <1>5, <2>1, <2>3, Z3
    <3>2. out[j] = m[x]
      BY <1>5, <1>6, <2>1, <2>3, <3>1
    <3>3. m[x] \in B
      BY <1>1, <3>1
    <3> QED
      BY <1>1, <1>8, <3>2, <3>3
  <2>4. CASE j > Len(a) + Len(m)
    <3>1. PICK x : x = j - (Len(a) + Len(m)) /\ x \in 1 .. Len(q)
      BY <1>5, <1>6, <2>1, <2>4
    <3>2. out[j] = q[x] /\ j = Len(a) + Len(m) + x
      BY <1>5, <1>6, <2>1, <2>4, <3>1
    <3> QED
      BY <3>1, <3>2
  <2> QED
    BY <1>5, <2>1, <2>2, <2>3, <2>4
<1>9. \A j \in 1 .. Len(a) : j \in DOMAIN out /\ out[j] = a[j]
  BY <1>5, <1>6, <1>7
<1> QED
  BY <1>6, <1>8, <1>9 DEF Composed

\* Only one slot is given another packet.
LEMMA OneSlot ==
  ASSUME NEW c, NEW d, NEW n, DOMAIN c.own = 1 .. OwnPend, Called(c, d, n),
         NEW i \in 1 .. OwnPend, NEW j \in 1 .. OwnPend,
         d.own[i] # c.own[i], d.own[j] # c.own[j]
  PROVE  i = j
<1>1. Speaks(c, d, n)
  BY DEF Called, Listens
<1>2. PICK p : Kept(c, d, p)
  BY <1>1 DEF Speaks
<1>3. PICK o, h : d.own = [c.own EXCEPT ![o].pkt = h]
  BY <1>2 DEF Kept
<1>4. PICK f : f = [c.own[o] EXCEPT !.pkt = h]
  OBVIOUS
<1>5. d.own = [c.own EXCEPT ![o] = f]
  BY <1>3, <1>4
<1>6. \A x \in DOMAIN c.own : x # o => d.own[x] = c.own[x]
  BY <1>5
<1>7. DOMAIN d.own = DOMAIN c.own
  BY <1>5
<1> QED
  BY <1>6, <1>7

\* The slots due in a call: they hold what they held before it.
Due(c, d, S) == \A i \in S : i \in 1 .. OwnPend /\ Used(c.own, i) /\ d.own[i] = c.own[i]

\* Slot k transmits packet number i.
SlotSends(c, e, r, S, i, k) ==
  k \in S /\ c.own[k].pkt.id = i /\ Left(e.own[k].pkt, r) + 1 <= Left(c.own[k].pkt, r)

\* All transmissions of packet number i: by mesh_send(), or by one pending packet.
SentTimes(c, d, e, n, r, S, i, T) ==
  /\ \E Y : e.out \in Seq(Y)
  /\ Speaks(c, d, n) /\ i = NextSeq(c) => T # {}
  /\ T # {} => (Speaks(c, d, n) /\ i = NextSeq(c)) \/ \E k : SlotSends(c, e, r, S, i, k)
  /\ ~ (Speaks(c, d, n) /\ i = NextSeq(c) /\ \E k : SlotSends(c, e, r, S, i, k))
       => \A x, y \in T : x = y

LEMMA TimesAre ==
  ASSUME NEW c, NEW n, NEW d, Called(c, d, n), NEW r, NEW S, Due(c, d, S), Distinct(c.own),
         NEW e, Served(d, e, n, r, S), NEW i, NEW T, T = Times(e.out, n, i)
  PROVE  SentTimes(c, d, e, n, r, S, i, T)
<1>1. PICK m, q : e.out = d.out \o m \o q /\ ForeignOut(m, n) /\ Spends(d, e, r, S, q)
  BY DEF Served
<1>2. PICK Z : q \in Seq(Z)
  BY <1>1 DEF Spends
<1>3. PICK a : a = d.out
  OBVIOUS
<1>4. PICK out : out = e.out
  OBVIOUS
<1>5. \/ Listens(c, d, n) /\ ForeignOut(a, n)
      \/ Speaks(c, d, n) /\ \E p : p.ns = n /\ p.id = NextSeq(c) /\ a = << p >>
  BY <1>3 DEF Called, Listens, Speaks
<1>6. PICK A : a \in Seq(A)
  <2>1. CASE ForeignOut(a, n)
    BY <2>1 DEF ForeignOut
  <2>2. CASE \E p : a = << p >>
    <3>1. PICK p : a = << p >>
      BY <2>2
    <3>2. a \in Seq({p})
      BY <3>1
    <3> QED
      BY <3>2
  <2> QED
    BY <1>5, <2>1, <2>2
<1>7. /\ \E Y : out \in Seq(Y)
      /\ \A j \in DOMAIN out : out[j].ns = n =>
            \/ j \in 1 .. Len(a) /\ out[j] = a[j]
            \/ \E x \in 1 .. Len(q) : j = Len(a) + Len(m) + x /\ out[j] = q[x]
      /\ \A j \in 1 .. Len(a) : j \in DOMAIN out /\ out[j] = a[j]
  <2>1. out = a \o m \o q
    BY <1>1, <1>3, <1>4
  <2>2. Composed(out, a, m, q, n)
    BY ONLY <1>1, <1>2, <1>6, <2>1, Joined
  <2> QED
    BY ONLY <2>2 DEF Composed
<1>8. T = {j \in DOMAIN out : out[j].ns = n /\ out[j].id = i}
  BY <1>4 DEF Times
<1>9. ASSUME Speaks(c, d, n), i = NextSeq(c) PROVE T # {}
  <2>1. PICK p : p.ns = n /\ p.id = NextSeq(c) /\ a = << p >>
    BY <1>3, <1>9 DEF Speaks
  <2>2. 1 \in 1 .. Len(a) /\ a[1] = p
    BY <2>1
  <2>3. 1 \in T
    BY <1>7, <1>8, <1>9, <2>1, <2>2
  <2> QED
    BY <2>3
<1>10. ASSUME NEW j \in 1 .. Len(a), a[j].ns = n, a[j].id = i
       PROVE  j = 1 /\ Speaks(c, d, n) /\ i = NextSeq(c)
  <2>1. CASE ForeignOut(a, n)
    <3>1. PICK X : a \in Seq(X) /\ \A x \in X : x.ns # n
      BY <2>1 DEF ForeignOut
    <3>2. a[j] \in X
      BY <3>1
    <3> QED
      BY <1>10, <3>1, <3>2
  <2>2. CASE Speaks(c, d, n) /\ \E p : p.ns = n /\ p.id = NextSeq(c) /\ a = << p >>
    <3>1. PICK p : p.id = NextSeq(c) /\ a = << p >>
      BY <2>2
    <3>2. j = 1 /\ a[j] = p
      BY <3>1
    <3> QED
      BY <1>10, <2>2, <3>1, <3>2
  <2> QED
    BY <1>5, <2>1, <2>2
<1>11. ASSUME NEW x \in 1 .. Len(q), q[x].id = i PROVE \E k : SlotSends(c, e, r, S, i, k)
  <2>1. PICK k \in 1 .. OwnPend : k \in S /\ Spent(d.own[k], e.own[k], << q[x] >>, r)
    BY <1>1, <1>11 DEF Spends
  <2>2. PICK p : << q[x] >> = << p >> /\ p.id = d.own[k].pkt.id
    BY <2>1 DEF Spent
  <2>3. q[x] = p
    BY <2>2
  <2>4. d.own[k] = c.own[k]
    BY <2>1 DEF Due
  <2>5. Left(e.own[k].pkt, r) + 1 <= Left(d.own[k].pkt, r)
    BY <2>1 DEF Spent
  <2>6. SlotSends(c, e, r, S, i, k)
    BY <1>11, <2>1, <2>2, <2>3, <2>4, <2>5 DEF SlotSends
  <2> QED
    BY <2>6
<1>12. ASSUME NEW j \in T
       PROVE  \/ j = 1 /\ Speaks(c, d, n) /\ i = NextSeq(c)
              \/ \E x \in 1 .. Len(q) : j = Len(a) + Len(m) + x /\ q[x].id = i
  <2>1. j \in DOMAIN out /\ out[j].ns = n /\ out[j].id = i
    BY <1>8, <1>12
  <2>2. CASE j \in 1 .. Len(a) /\ out[j] = a[j]
    BY <1>10, <2>1, <2>2
  <2>3. CASE \E x \in 1 .. Len(q) : j = Len(a) + Len(m) + x /\ out[j] = q[x]
    BY <2>1, <2>3
  <2> QED
    BY <1>7, <2>1, <2>2, <2>3
<1>13. Once(q)
  <2>1. DistinctOf(d.own, S)
    BY DEF Due, Distinct, DistinctOf, Used
  <2> QED
    BY <1>1, <2>1 DEF Spends
<1>14. ASSUME ~ (Speaks(c, d, n) /\ i = NextSeq(c) /\ \E k : SlotSends(c, e, r, S, i, k)),
              NEW x \in T, NEW y \in T
       PROVE  x = y
  <2>1. CASE Speaks(c, d, n) /\ i = NextSeq(c)
    BY <1>11, <1>12, <1>14, <2>1
  <2>2. CASE ~ (Speaks(c, d, n) /\ i = NextSeq(c))
    <3>1. PICK v \in 1 .. Len(q) : x = Len(a) + Len(m) + v /\ q[v].id = i
      BY <1>12, <2>2
    <3>2. PICK w \in 1 .. Len(q) : y = Len(a) + Len(m) + w /\ q[w].id = i
      BY <1>12, <2>2
    <3>3. v = w
      BY <1>13, <3>1, <3>2 DEF Once
    <3> QED
      BY <3>1, <3>2, <3>3
  <2> QED
    BY <2>1, <2>2
<1>15. T # {} => (Speaks(c, d, n) /\ i = NextSeq(c)) \/ \E k : SlotSends(c, e, r, S, i, k)
  BY <1>11, <1>12
<1> QED
  BY <1>4, <1>7, <1>9, <1>14, <1>15 DEF SentTimes

LEMMA LeftIs == ASSUME NEW p, p.rem \in 0 .. 7, NEW r \in 0 .. 7 PROVE Left(p, r) \in Nat
BY DEF Left

\* The count of one number after a call: a new packet counts once, another packet counts
\* once more if the slot it waits in has transmitted it.
OneMore(c, d, e, n, r, s, S, i, x) ==
  /\ x \in Nat /\ x <= 2 * (1 + r)
  /\ Speaks(c, d, n) /\ i = c.seq + 1 => x = 1
  /\ ~ (Speaks(c, d, n) /\ i = c.seq + 1) =>
        \/ x = s[i]
        \/ i <= c.seq /\ x = s[i] + 1 /\ \E k : SlotSends(c, e, r, S, i, k)

LEMMA OneNumber ==
  ASSUME NEW c, NEW n, NEW r \in 0 .. 7, NEW s \in [0 .. SeqRange - 1 -> Nat], Bounded(c, r, s),
         OwnPlain(c.own), NEW d, Called(c, d, n), NEW S, Due(c, d, S),
         NEW e, Served(d, e, n, r, S), OwnPlain(e.own),
         Speaks(c, d, n) => NextSeq(c) = c.seq + 1,
         NEW i \in 0 .. SeqRange - 1, NEW x, x = s[i] + Cardinality(Times(e.out, n, i))
  PROVE  OneMore(c, d, e, n, r, s, S, i, x)
<1>1. PICK T : T = Times(e.out, n, i)
  OBVIOUS
<1>2. c.seq \in 0 .. SeqRange - 1 /\ s[i] \in Nat /\ s[i] <= 2 * (1 + r) /\ (i > c.seq => s[i] = 0)
  BY DEF Bounded
<1>3. Distinct(c.own)
  BY DEF Bounded
<1>4. /\ \E Y : e.out \in Seq(Y)
      /\ Speaks(c, d, n) /\ i = NextSeq(c) => T # {}
      /\ T # {} => (Speaks(c, d, n) /\ i = NextSeq(c)) \/ \E k : SlotSends(c, e, r, S, i, k)
      /\ ~ (Speaks(c, d, n) /\ i = NextSeq(c) /\ \E k : SlotSends(c, e, r, S, i, k))
           => \A v, w \in T : v = w
  <2>1. SentTimes(c, d, e, n, r, S, i, T)
    BY <1>1, <1>3, TimesAre
  <2> QED
    BY ONLY <2>1 DEF SentTimes
<1>5. /\ Cardinality(T) \in Nat /\ (Cardinality(T) = 0 <=> T = {})
      /\ (\A v, w \in T : v = w) => Cardinality(T) <= 1
  BY <1>1, <1>4, NoneOrOne
<1>6. ASSUME NEW k, SlotSends(c, e, r, S, i, k)
      PROVE  i \in 1 .. c.seq /\ s[i] + 1 <= 2 * (1 + r)
  <2>1. /\ k \in 1 .. OwnPend /\ Used(c.own, k) /\ c.own[k].pkt.id = i
        /\ Left(e.own[k].pkt, r) + 1 <= Left(c.own[k].pkt, r)
    BY <1>6 DEF SlotSends, Due
  <2>2. Left(e.own[k].pkt, r) \in Nat /\ Left(c.own[k].pkt, r) \in Nat
    BY <2>1, LeftIs DEF OwnPlain
  <2>3. i \in 1 .. c.seq /\ s[i] + Left(c.own[k].pkt, r) <= 2 * (1 + r)
    BY <2>1 DEF Bounded
  <2> QED
    BY <1>2, <2>1, <2>2, <2>3
<1>7. CASE Speaks(c, d, n) /\ i = c.seq + 1
  <2>1. i = NextSeq(c) /\ s[i] = 0
    BY <1>2, <1>7
  <2>2. ~ \E k : SlotSends(c, e, r, S, i, k)
    BY <1>2, <1>6, <1>7
  <2>3. Cardinality(T) = 1
    <3>1. T # {} /\ \A v, w \in T : v = w
      BY <1>4, <1>7, <2>1, <2>2
    <3>2. Cardinality(T) # 0 /\ Cardinality(T) <= 1
      BY <1>5, <3>1
    <3> QED
      BY <1>5, <3>2
  <2> QED
    BY <1>1, <1>7, <2>1, <2>3 DEF OneMore
<1>8. CASE ~ (Speaks(c, d, n) /\ i = c.seq + 1)
  <2>1. ~ (Speaks(c, d, n) /\ i = NextSeq(c))
    BY <1>8
  <2>2. CASE T = {}
    BY <1>1, <1>2, <1>5, <1>8, <2>2 DEF OneMore
  <2>3. CASE T # {}
    <3>1. PICK k : SlotSends(c, e, r, S, i, k)
      BY <1>4, <2>1, <2>3
    <3>2. \A v, w \in T : v = w
      BY <1>4, <2>1
    <3>3. Cardinality(T) = 1
      BY <1>5, <2>3, <3>2
    <3>4. x = s[i] + 1
      BY <1>1, <3>3
    <3>5. i \in 1 .. c.seq /\ s[i] + 1 <= 2 * (1 + r)
      BY <1>6, <3>1
    <3> QED
      BY <1>2, <1>8, <3>1, <3>4, <3>5 DEF OneMore
  <2> QED
    BY <2>2, <2>3
<1> QED
  BY <1>7, <1>8

\* The counts after a call, before they are cut off and as Transmitted() leaves them.
Totals(s, out, n) == [i \in 0 .. SeqRange - 1 |-> s[i] + Cardinality(Times(out, n, i))]
CutOff(x, r) == [i \in 0 .. SeqRange - 1 |-> IF x[i] > 2 * (1 + r) THEN 2 * (1 + r) + 1 ELSE x[i]]

LEMMA CountsAre ==
  ASSUME NEW c, NEW n, NEW near, NodeOK(c, n, near), NEW r \in 0 .. 7, NEW s, Counts(c, n, r, s),
         NEW d, Called(c, d, n), NEW S, Due(c, d, S),
         NEW e, NodeOK(e, n, near), Served(d, e, n, r, S),
         NEW x, x = Totals(s, e.out, n), NEW t, t = CutOff(x, r),
         NEW g, g = Done(e)
  PROVE  Counts(g, n, r, t)
<1>1. /\ g.retry = e.retry /\ g.seq = e.seq /\ g.mesh = e.mesh /\ g.own = e.own /\ g.out = << >>
  BY DEF NodeOK, NodeFields, Done
<1>2. /\ s \in [0 .. SeqRange - 1 -> Nat] /\ c.retry = r /\ OwnPlain(c.own)
      /\ SeqRange \in Nat /\ SeqRange > 1
  BY MeshNodeAssumption DEF Counts
<1>3. /\ g.retry = r /\ g.seq = d.seq /\ Foreign(g.mesh, n)
      /\ \A k \in 1 .. OwnPend : Lasts(d.own[k], g.own[k], r)
  BY <1>1, <1>2 DEF Served, Called
<1>4. OwnPlain(g.own) /\ OwnPlain(e.own)
  BY <1>1, <1>3 DEF Lasts, OwnPlain
<1>5. ASSUME NEW i \in 0 .. SeqRange - 1
      PROVE  /\ x[i] = s[i] + Cardinality(Times(e.out, n, i)) /\ x[i] \in Nat
             /\ Cardinality(Times(e.out, n, i)) \in Nat
             /\ Cardinality(Times(e.out, n, i)) = 0 <=> Times(e.out, n, i) = {}
             /\ t[i] \in Nat
  <2>1. PICK Y : e.out \in Seq(Y)
    BY DEF NodeOK, AllLeave
  <2>2. PICK T : T = Times(e.out, n, i)
    OBVIOUS
  <2>3. Cardinality(T) \in Nat /\ (Cardinality(T) = 0 <=> T = {})
    BY <2>1, <2>2, NoneOrOne
  <2> QED
    BY <1>2, <2>2, <2>3 DEF Totals, CutOff
<1>6. t \in [0 .. SeqRange - 1 -> Nat]
  BY <1>5 DEF CutOff
<1>7. ASSUME t[0] = 0 PROVE Bounded(g, r, t)
  <2>1. 0 \in 0 .. SeqRange - 1
    BY <1>2
  <2>2. x[0] = 0
    BY <1>2, <1>5, <1>7, <2>1 DEF CutOff
  <2>3. s[0] = 0 /\ Times(e.out, n, 0) = {}
    BY <1>2, <1>5, <2>1, <2>2
  <2>4. Bounded(c, r, s)
    BY <2>3 DEF Counts
  <2>5. c.seq \in 0 .. SeqRange - 1 /\ Distinct(c.own)
    BY <2>4 DEF Bounded
  <2>6. Speaks(c, d, n) => NextSeq(c) = c.seq + 1 /\ c.seq + 1 \in 1 .. SeqRange - 1
    <3>1. SUFFICES ASSUME Speaks(c, d, n)
                   PROVE  NextSeq(c) = c.seq + 1 /\ c.seq + 1 \in 1 .. SeqRange - 1
      OBVIOUS
    <3>2. PICK T : T = Times(e.out, n, 0)
      OBVIOUS
    <3>3. SentTimes(c, d, e, n, r, S, 0, T)
      BY <2>5, <3>2, TimesAre
    <3>4. NextSeq(c) # 0
      BY <2>3, <3>1, <3>2, <3>3 DEF SentTimes
    <3>5. NextSeq(c) = (c.seq + 1) % SeqRange
      BY DEF NextSeq
    <3> QED
      BY <1>2, <2>5, <3>4, <3>5, NextNumber
  <2>7. \/ g.seq = c.seq /\ ~ Speaks(c, d, n)
        \/ g.seq = c.seq + 1 /\ Speaks(c, d, n)
    BY <1>3, <2>6 DEF Called, Listens, Speaks
  <2>8. c.seq \in Nat /\ g.seq \in 0 .. SeqRange - 1 /\ c.seq <= g.seq
    BY <2>5, <2>6, <2>7
  <2>9. ASSUME NEW i \in 0 .. SeqRange - 1
        PROVE  /\ t[i] = x[i] /\ x[i] <= 2 * (1 + r)
               /\ Speaks(c, d, n) /\ i = c.seq + 1 => x[i] = 1
               /\ ~ (Speaks(c, d, n) /\ i = c.seq + 1) =>
                     \/ x[i] = s[i]
                     \/ i <= c.seq /\ x[i] = s[i] + 1 /\ \E k : SlotSends(c, e, r, S, i, k)
    <3>1. PICK y : y = x[i]
      OBVIOUS
    <3>2. y = s[i] + Cardinality(Times(e.out, n, i))
      BY <1>5, <3>1
    <3>3. OneMore(c, d, e, n, r, s, S, i, y)
      BY <1>2, <1>4, <2>4, <2>6, <3>2, OneNumber
    <3>4. t[i] = y
      BY <1>2, <3>1, <3>3 DEF OneMore, CutOff
    <3> QED
      BY ONLY <3>1, <3>3, <3>4 DEF OneMore
  <2>10. ASSUME NEW i \in 0 .. SeqRange - 1 PROVE t[i] <= 2 * (1 + r) /\ (i > g.seq => t[i] = 0)
    <3>1. ASSUME i > g.seq PROVE t[i] = 0
      <4>1. ~ (Speaks(c, d, n) /\ i = c.seq + 1) /\ ~ i <= c.seq
        BY <2>7, <2>8, <3>1
      <4>2. x[i] = s[i]
        BY <2>9, <4>1
      <4>3. s[i] = 0
        BY <2>4, <2>8, <4>1 DEF Bounded
      <4> QED
        BY <2>9, <4>2, <4>3
    <3> QED
      BY <2>9, <3>1
  <2>11. ASSUME NEW k \in 1 .. OwnPend, Used(g.own, k)
         PROVE  /\ Used(d.own, k) /\ g.own[k].pkt.id = d.own[k].pkt.id
                /\ Left(g.own[k].pkt, r) <= Left(d.own[k].pkt, r)
                /\ Left(g.own[k].pkt, r) \in Nat /\ Left(d.own[k].pkt, r) \in Nat
                /\ \/ d.own[k] = c.own[k]
                   \/ Speaks(c, d, n) /\ d.own[k].pkt.id = c.seq + 1 /\ Left(d.own[k].pkt, r) <= 1 + 2 * r
    <3>1. Lasts(d.own[k], g.own[k], r)
      BY <1>3
    <3>2. SlotAfter(c, d, n, r, k)
      BY ONLY <1>2, NodeOK(c, n, near), Called(c, d, n), r \in 0 .. 7, k \in 1 .. OwnPend, CalledSlots
    <3>3. Left(g.own[k].pkt, r) \in Nat /\ Left(d.own[k].pkt, r) \in Nat
      BY <3>1, <3>2, LeftIs DEF Lasts, SlotAfter
    <3> QED
      BY <2>6, <2>11, <3>1, <3>2, <3>3 DEF Lasts, Used, SlotAfter
  <2>12. ASSUME NEW k \in 1 .. OwnPend, Used(g.own, k), d.own[k] = c.own[k]
         PROVE  /\ c.own[k].pkt.id \in 1 .. c.seq
                /\ s[c.own[k].pkt.id] + Left(c.own[k].pkt, r) <= 2 * (1 + r)
    BY <2>4, <2>11, <2>12 DEF Bounded, Used
  <2>13. ASSUME NEW k \in 1 .. OwnPend, Used(g.own, k)
         PROVE  /\ g.own[k].pkt.id \in 1 .. g.seq
                /\ t[g.own[k].pkt.id] + Left(g.own[k].pkt, r) <= 2 * (1 + r)
    <3>1. CASE d.own[k] = c.own[k]
      <4>1. PICK i : i = c.own[k].pkt.id
        OBVIOUS
      <4>2. /\ i \in 1 .. c.seq /\ i \in 0 .. SeqRange - 1 /\ s[i] \in Nat
            /\ s[i] + Left(c.own[k].pkt, r) <= 2 * (1 + r)
        BY <1>2, <2>5, <2>12, <2>13, <3>1, <4>1
      <4>3. /\ g.own[k].pkt.id = i /\ Left(g.own[k].pkt, r) <= Left(c.own[k].pkt, r)
            /\ Left(g.own[k].pkt, r) \in Nat /\ Left(c.own[k].pkt, r) \in Nat
        BY <2>11, <2>13, <3>1, <4>1
      <4>4. i # c.seq + 1
        BY <2>8, <4>2
      <4>5. t[i] + Left(g.own[k].pkt, r) <= 2 * (1 + r)
        <5>1. t[i] = x[i] /\ (x[i] = s[i] \/ (x[i] = s[i] + 1 /\ \E j : SlotSends(c, e, r, S, i, j)))
          BY <2>9, <4>2, <4>4
        <5>2. CASE x[i] = s[i]
          BY <4>2, <4>3, <5>1, <5>2
        <5>3. CASE x[i] = s[i] + 1 /\ \E j : SlotSends(c, e, r, S, i, j)
          <6>1. PICK j : SlotSends(c, e, r, S, i, j)
            BY <5>3
          <6>2. /\ j \in 1 .. OwnPend /\ Used(c.own, j) /\ c.own[j].pkt.id = i
                /\ Left(e.own[j].pkt, r) + 1 <= Left(c.own[j].pkt, r)
            BY <6>1 DEF SlotSends, Due
          <6>3. Used(c.own, k)
            BY <2>11, <2>13, <3>1 DEF Used
          <6>4. j = k
            BY <2>5, <4>1, <6>2, <6>3 DEF Distinct
          <6>5. Left(g.own[k].pkt, r) + 1 <= Left(c.own[k].pkt, r)
            BY <1>1, <6>2, <6>4
          <6> QED
            BY <4>2, <4>3, <5>1, <5>3, <6>5
        <5> QED
          BY <5>1, <5>2, <5>3
      <4> QED
        BY <2>8, <4>2, <4>3, <4>5
    <3>2. CASE d.own[k] # c.own[k]
      <4>1. /\ Speaks(c, d, n) /\ g.own[k].pkt.id = c.seq + 1
            /\ Left(g.own[k].pkt, r) <= 1 + 2 * r /\ Left(g.own[k].pkt, r) \in Nat
        BY <2>11, <2>13, <3>2
      <4>2. c.seq + 1 \in 1 .. SeqRange - 1 /\ g.seq = c.seq + 1
        BY <2>6, <2>7, <4>1
      <4>3. t[c.seq + 1] = 1
        BY <2>9, <4>1, <4>2
      <4> QED
        BY <2>8, <4>1, <4>2, <4>3
    <3> QED
      BY <3>1, <3>2
  <2>14. Distinct(g.own)
    <3>1. SUFFICES ASSUME NEW i \in 1 .. OwnPend, NEW j \in 1 .. OwnPend, Used(g.own, i), Used(g.own, j),
                          g.own[i].pkt.id = g.own[j].pkt.id
                   PROVE  i = j
      BY DEF Distinct
    <3>2. d.own[i].pkt.id = d.own[j].pkt.id /\ Used(d.own, i) /\ Used(d.own, j)
      BY <2>11, <3>1
    <3>3. CASE d.own[i] = c.own[i] /\ d.own[j] = c.own[j]
      BY <2>5, <3>2, <3>3 DEF Distinct, Used
    <3>4. CASE d.own[i] # c.own[i] /\ d.own[j] # c.own[j]
      <4>1. DOMAIN c.own = 1 .. OwnPend
        BY DEF NodeOK, AllHeld
      <4> QED
        BY <3>4, <4>1, OneSlot
    <3>5. CASE d.own[i] = c.own[i] /\ d.own[j] # c.own[j]
      <4>1. c.own[i].pkt.id \in 1 .. c.seq /\ d.own[j].pkt.id = c.seq + 1
        BY <2>11, <2>12, <3>1, <3>5
      <4> QED
        BY <2>8, <3>2, <3>5, <4>1
    <3>6. CASE d.own[i] # c.own[i] /\ d.own[j] = c.own[j]
      <4>1. c.own[j].pkt.id \in 1 .. c.seq /\ d.own[i].pkt.id = c.seq + 1
        BY <2>11, <2>12, <3>1, <3>6
      <4> QED
        BY <2>8, <3>2, <3>6, <4>1
    <3> QED
      BY <3>3, <3>4, <3>5, <3>6
  <2> QED
    BY <2>8, <2>10, <2>13, <2>14 DEF Bounded
<1> QED
  BY <1>1, <1>3, <1>4, <1>6, <1>7 DEF Counts

-----------------------------------------------------------------------------
(***************************************************************************)
(* The counts of a network.                                                *)
(***************************************************************************)
\* No node has come round to the number 0 again.
NumbersFresh == \A n \in Node : sent[n][0] = 0

\* The inductive invariant.
SendInv ==
  /\ net \in Net
  /\ DOMAIN node = Node /\ \A n \in Node : NodeOK(node[n], n, Node)
  /\ DOMAIN fifo = Node /\ \A n \in Node : AllCome(fifo[n], Node)
  /\ DOMAIN sent = Node /\ \A n \in Node : Counts(node[n], n, net.retries, sent[n])

LEMMA TransmittedIs ==
  ASSUME NEW n, DOMAIN sent[n] = 0 .. SeqRange - 1, NEW out, NEW r, r = net.retries,
         NEW x, x = Totals(sent[n], out, n)
  PROVE  Transmitted(n, out) = CutOff(x, r)
<1>1. ASSUME NEW i \in 0 .. SeqRange - 1
      PROVE  sent[n][i] + Cardinality({j \in DOMAIN out : out[j].ns = n /\ out[j].id = i}) = x[i]
  BY DEF Times, Totals
<1> QED
  BY <1>1 DEF Transmitted, SendLimit, CutOff

\* A call of node n: what it does to its tables, and then with the pending packets due.
LEMMA CallCounts ==
  ASSUME SendInv, NEW n \in Node, NEW d, Called(node[n], d, n), NEW S, Due(node[n], d, S),
         NEW e, NodeOK(e, n, Node), Served(d, e, n, net.retries, S),
         NEW rest, AllCome(rest, Node), Commit(n, e, rest)
  PROVE  SendInv'
<1>1. PICK got \in [DOMAIN e.out -> SUBSET net.near[n]] :
        /\ net' = net
        /\ node' = [node EXCEPT ![n] = Done(e)]
        /\ fifo' = [m \in Node |-> Offer(IF m = n THEN rest ELSE fifo[m], Arriving(m, e.out, got))]
        /\ sent' = [sent EXCEPT ![n] = Transmitted(n, e.out)]
  BY DEF Commit
<1>2. /\ AllLeave(e.out, n) /\ net \in Net /\ DOMAIN node = Node /\ DOMAIN sent = Node
      /\ \A m \in Node : NodeOK(node[m], m, Node) /\ AllCome(fifo[m], Node)
                         /\ Counts(node[m], m, net.retries, sent[m])
  BY DEF SendInv, NodeOK
<1>3. ASSUME NEW m \in Node PROVE AllCome(fifo'[m], Node)
  <2>1. PICK q : q = Arriving(m, e.out, got)
    OBVIOUS
  <2>2. m \in net.near[n] => n \in Node
    OBVIOUS
  <2>3. AllCome(q, Node)
    BY ONLY <1>1, <1>2, <2>1, <2>2, ArrivingIs
  <2>4. PICK b : b = IF m = n THEN rest ELSE fifo[m]
    OBVIOUS
  <2>5. AllCome(b, Node)
    BY <1>2, <2>4
  <2>6. fifo'[m] = Offer(b, q)
    BY <1>1, <2>1, <2>4
  <2> QED
    BY <2>3, <2>5, <2>6, OfferIs
<1>4. PICK g : g = Done(e)
  OBVIOUS
<1>5. NodeOK(g, n, Node)
  BY <1>4, DoneIs
<1>6. PICK r : r = net.retries
  OBVIOUS
<1>7. r \in 0 .. 7
  BY <1>2, <1>6, MeshAssumption
<1>8. PICK s : s = sent[n]
  OBVIOUS
<1>9. PICK x : x = Totals(s, e.out, n)
  OBVIOUS
<1>10. PICK t : t = CutOff(x, r)
  OBVIOUS
<1>11. PICK c : c = node[n]
  OBVIOUS
<1>12. Counts(c, n, r, s) /\ NodeOK(c, n, Node)
  BY <1>2, <1>6, <1>8, <1>11
<1>13. Counts(g, n, r, t)
  <2>1. Called(c, d, n) /\ Due(c, d, S) /\ Served(d, e, n, r, S)
    BY <1>6, <1>11
  <2> QED
    BY ONLY <1>4, <1>7, <1>9, <1>10, <1>12, <2>1, NodeOK(e, n, Node), CountsAre
<1>14. Transmitted(n, e.out) = t
  <2>1. DOMAIN sent[n] = 0 .. SeqRange - 1
    BY <1>8, <1>12 DEF Counts
  <2> QED
    BY <1>6, <1>8, <1>9, <1>10, <2>1, TransmittedIs
<1>15. DOMAIN node' = Node /\ \A m \in Node : NodeOK(node'[m], m, Node)
  BY <1>1, <1>2, <1>4, <1>5
<1>16. DOMAIN sent' = Node /\ \A m \in Node : Counts(node'[m], m, net.retries, sent'[m])
  BY <1>1, <1>2, <1>4, <1>6, <1>13, <1>14
<1>17. net' \in Net /\ net'.retries = net.retries /\ DOMAIN fifo' = Node
  BY <1>1, <1>2
<1> QED
  BY <1>3, <1>15, <1>16, <1>17 DEF SendInv

LEMMA NodeCounts ==
  ASSUME SendInv, NEW n \in Node, NEW c, c = node[n]
  PROVE  /\ NodeOK(c, n, Node) /\ AllCome(fifo[n], Node) /\ n # Zero
         /\ net.retries \in 0 .. 7 /\ c.retry = net.retries
         /\ c.out = << >> /\ Foreign(c.mesh, n) /\ OwnPlain(c.own)
BY MeshAssumption DEF SendInv, Counts

LEMMA AppSendCounts == ASSUME SendInv, NEW n \in Node, AppSend(n) PROVE SendInv'
<1>1. PICK w, k : Commit(n, MeshSend(node[n], w.dst, w.type, w.data, w.max, k), fifo[n])
  BY DEF AppSend
<1>2. PICK c : c = node[n]
  OBVIOUS
<1>3. PICK d : d = MeshSend(c, w.dst, w.type, w.data, w.max, k)
  OBVIOUS
<1>4. /\ NodeOK(c, n, Node) /\ AllCome(fifo[n], Node) /\ n # Zero
      /\ net.retries \in 0 .. 7 /\ c.retry = net.retries
      /\ c.out = << >> /\ Foreign(c.mesh, n) /\ OwnPlain(c.own)
  BY <1>2, NodeCounts
<1>5. NodeOK(d, n, Node)
  BY <1>3, <1>4, MeshSendIs
<1>6. Called(c, d, n)
  BY <1>3, <1>4, MeshSendCalls
<1>7. PICK Z : d.out \in Seq(Z)
  BY <1>5 DEF NodeOK, AllLeave
<1>8. OwnPlain(d.own)
  <2>1. ASSUME NEW i \in 1 .. OwnPend PROVE d.own[i].disc = FALSE /\ d.own[i].pkt.rem \in 0 .. 7
    <3>1. SlotAfter(c, d, n, net.retries, i)
      BY ONLY <1>4, <1>6, i \in 1 .. OwnPend, CalledSlots
    <3> QED
      BY <3>1 DEF SlotAfter
  <2> QED
    BY <2>1 DEF OwnPlain
<1>9. Foreign(d.mesh, n)
  BY <1>6 DEF Called
<1>10. Served(d, d, n, net.retries, {})
  BY ONLY <1>4, <1>7, <1>8, <1>9, NothingServed
<1>11. Due(node[n], d, {})
  BY DEF Due
<1> QED
  BY <1>1, <1>2, <1>3, <1>4, <1>5, <1>6, <1>10, <1>11, CallCounts

LEMMA ServicePacketCounts == ASSUME SendInv, NEW n \in Node, ServicePacket(n) PROVE SendInv'
<1>1. PICK k, md, od : /\ od \in SUBSET OwnPending(node[n])
                       /\ Commit(n, Service(node[n], Head(fifo[n]), k, md, od), Tail(fifo[n]))
  BY DEF ServicePacket
<1>2. fifo[n] # << >>
  BY DEF ServicePacket
<1>3. PICK c : c = node[n]
  OBVIOUS
<1>4. /\ NodeOK(c, n, Node) /\ AllCome(fifo[n], Node) /\ n # Zero
      /\ net.retries \in 0 .. 7 /\ c.retry = net.retries
      /\ c.out = << >> /\ Foreign(c.mesh, n) /\ OwnPlain(c.own)
  BY <1>3, NodeCounts
<1>5. PICK p : p = Head(fifo[n])
  OBVIOUS
<1>6. PICK rest : rest = Tail(fifo[n])
  OBVIOUS
<1>7. Comes(p, Node) /\ AllCome(rest, Node)
  <2>1. PICK Z : fifo[n] \in Seq(Z) /\ \A x \in Z : Comes(x, Node)
    BY <1>4 DEF AllCome
  <2>2. p \in Z /\ rest \in Seq(Z)
    BY <1>2, <1>5, <1>6, <2>1
  <2> QED
    BY <2>1, <2>2 DEF AllCome
<1>8. PICK e : e = Service(c, p, k, md, od)
  OBVIOUS
<1>9. NodeOK(e, n, Node)
  BY <1>4, <1>7, <1>8, ServiceIs
<1>10. PICK rc : rc = Received(c, p, k)
  OBVIOUS
<1>11. PICK d : d = rc.node
  OBVIOUS
<1>12. d = Received(c, p, k).node
  BY <1>10, <1>11
<1>13. NodeOK(d, n, Node) /\ Called(c, d, n)
  BY <1>4, <1>7, <1>12, ReceivedIs, ReceivedCalls
<1>14. PICK S : S = {i \in od : d.own[i] = c.own[i]}
  OBVIOUS
<1>15. PICK M : M = {i \in md : d.mesh[i] = c.mesh[i]}
  OBVIOUS
<1>16. e = HandlePending(d, rc.rx, M, S)
  BY <1>8, <1>10, <1>11, <1>14, <1>15 DEF Service
<1>17. Due(node[n], d, S)
  <2>1. DOMAIN c.own = 1 .. OwnPend
    BY <1>4 DEF NodeOK, AllHeld
  <2> QED
    BY <1>1, <1>3, <1>14, <2>1 DEF Due, OwnPending, Used
<1>18. OwnPlain(d.own)
  <2>1. ASSUME NEW i \in 1 .. OwnPend PROVE d.own[i].disc = FALSE /\ d.own[i].pkt.rem \in 0 .. 7
    <3>1. SlotAfter(c, d, n, net.retries, i)
      BY ONLY <1>4, <1>13, i \in 1 .. OwnPend, CalledSlots
    <3> QED
      BY <3>1 DEF SlotAfter
  <2> QED
    BY <2>1 DEF OwnPlain
<1>19. Foreign(d.mesh, n) /\ d.retry = net.retries
  BY <1>4, <1>13 DEF Called
<1>20. Served(d, e, n, net.retries, S)
  BY ONLY <1>4, <1>13, <1>16, <1>18, <1>19, HandlePendingServes
<1>21. Commit(n, e, rest)
  BY <1>1, <1>3, <1>5, <1>6, <1>8
<1> QED
  BY <1>3, <1>7, <1>9, <1>13, <1>17, <1>20, <1>21, CallCounts

LEMMA ServiceTimersCounts == ASSUME SendInv, NEW n \in Node, ServiceTimers(n) PROVE SendInv'
<1>1. PICK md, od : /\ od \in SUBSET OwnPending(node[n])
                    /\ Commit(n, ServiceIdle(node[n], md, od), << >>)
  BY DEF ServiceTimers
<1>2. PICK c : c = node[n]
  OBVIOUS
<1>3. /\ NodeOK(c, n, Node) /\ AllCome(fifo[n], Node) /\ n # Zero /\ fifo[n] = << >>
      /\ net.retries \in 0 .. 7 /\ c.retry = net.retries
      /\ c.out = << >> /\ Foreign(c.mesh, n) /\ OwnPlain(c.own)
  BY <1>2, NodeCounts DEF ServiceTimers
<1>4. PICK e : e = HandlePending(c, NoPkt, md, od)
  OBVIOUS
<1>5. NodeOK(e, n, Node)
  BY <1>3, <1>4, HandlePendingIs
<1>6. Called(c, c, n)
  BY <1>3, NothingCalled
<1>7. Served(c, e, n, net.retries, od)
  BY ONLY <1>3, <1>4, HandlePendingServes
<1>8. Due(node[n], c, od)
  <2>1. DOMAIN c.own = 1 .. OwnPend
    BY <1>3 DEF NodeOK, AllHeld
  <2> QED
    BY <1>1, <1>2, <2>1 DEF Due, OwnPending, Used
<1>9. Commit(n, e, << >>) /\ AllCome(<< >>, Node)
  BY <1>1, <1>2, <1>3, <1>4 DEF ServiceIdle
<1> QED
  BY <1>2, <1>5, <1>6, <1>7, <1>8, <1>9, CallCounts

LEMMA NewNodeCounts ==
  ASSUME NEW n, n # Zero, NEW repeats, NEW r \in 0 .. 7, NEW c, c = NewNode(n, repeats, r),
         NEW s, s = [i \in 0 .. SeqRange - 1 |-> 0]
  PROVE  Counts(c, n, r, s)
<1>1. /\ c.retry = r /\ c.seq = 0 /\ c.out = << >>
      /\ c.mesh = [i \in 1 .. MeshPend |-> NoPending]
      /\ c.own = [i \in 1 .. OwnPend |-> NoPending]
  BY DEF NewNode
<1>2. NoPending.disc = FALSE /\ NoPending.pkt.rem = 0 /\ NoPending.pkt.ns = Zero /\ NoPending.pkt.nd = Zero
  BY DEF NoPending, NoPkt
<1>3. Foreign(c.mesh, n) /\ OwnPlain(c.own)
  BY <1>1, <1>2 DEF Foreign, OwnPlain
<1>4. \A i \in 1 .. OwnPend : ~ Used(c.own, i)
  BY <1>1, <1>2 DEF Used
<1>5. SeqRange \in Nat /\ SeqRange > 1
  BY MeshNodeAssumption
<1>6. s \in [0 .. SeqRange - 1 -> Nat]
  OBVIOUS
<1>7. Bounded(c, r, s)
  <2>1. c.seq \in 0 .. SeqRange - 1
    BY <1>1, <1>5
  <2>2. \A i \in 0 .. SeqRange - 1 : s[i] <= 2 * (1 + r) /\ (i > c.seq => s[i] = 0)
    OBVIOUS
  <2>3. Distinct(c.own)
    BY ONLY <1>4 DEF Distinct
  <2> QED
    BY ONLY <1>4, <2>1, <2>2, <2>3 DEF Bounded
<1> QED
  BY <1>1, <1>3, <1>6, <1>7 DEF Counts

LEMMA SendInit == Init => SendInv
<1> SUFFICES ASSUME Init PROVE SendInv
  OBVIOUS
<1>1. net \in Net /\ DOMAIN node = Node /\ DOMAIN fifo = Node /\ DOMAIN sent = Node
  BY DEF Init
<1>2. ASSUME NEW n \in Node PROVE NodeOK(node[n], n, Node) /\ Counts(node[n], n, net.retries, sent[n])
  <2>1. PICK repeats : repeats = (n \in net.repeat)
    OBVIOUS
  <2>2. PICK r : r = net.retries
    OBVIOUS
  <2>3. PICK c : c = NewNode(n, repeats, r)
    OBVIOUS
  <2>4. PICK s : s = [i \in 0 .. SeqRange - 1 |-> 0]
    OBVIOUS
  <2>5. node[n] = c /\ sent[n] = s
    BY <2>1, <2>2, <2>3, <2>4 DEF Init
  <2>6. n # Zero /\ r \in 0 .. 7
    BY <1>1, <2>2, MeshAssumption
  <2>7. Counts(c, n, r, s)
    BY ONLY <2>3, <2>4, <2>6, NewNodeCounts
  <2>8. /\ DOMAIN c = NodeFields /\ c.me = n /\ c.out = << >>
        /\ c.rte = [i \in 1 .. RteSize |-> NoRoute]
        /\ c.mesh = [i \in 1 .. MeshPend |-> NoPending]
        /\ c.own = [i \in 1 .. OwnPend |-> NoPending]
    BY <2>3 DEF NewNode, NodeFields
  <2>9. DOMAIN NoRoute = RouteFields /\ NoRoute.score \in Nat /\ NoRoute.dst = Zero
    BY DEF NoRoute, RouteFields
  <2>10. Routes(c.rte) /\ Sane(c.rte, n, Node)
    BY <2>8, <2>9 DEF Routes, Sane
  <2>11. AllHeld(c.mesh, n, MeshPend) /\ AllHeld(c.own, n, OwnPend)
    BY <2>8, EmptyIs DEF AllHeld
  <2>12. NodeOK(c, n, Node)
    BY <2>8, <2>10, <2>11, NoneLeave DEF NodeOK
  <2> QED
    BY <2>2, <2>5, <2>7, <2>12
<1>3. ASSUME NEW n \in Node PROVE AllCome(fifo[n], Node)
  <2>1. PICK Y : Y = {}
    OBVIOUS
  <2>2. << >> \in Seq(Y) /\ \A x \in Y : Comes(x, Node)
    BY <2>1
  <2>3. fifo[n] = << >>
    BY DEF Init
  <2> QED
    BY <2>2, <2>3 DEF AllCome
<1> QED
  BY <1>1, <1>2, <1>3 DEF SendInv

LEMMA SendStep == ASSUME SendInv, [Next]_vars PROVE SendInv'
<1>1. CASE UNCHANGED vars
  BY <1>1 DEF vars, SendInv
<1>2. CASE Next
  BY <1>2, AppSendCounts, ServicePacketCounts, ServiceTimersCounts DEF Next
<1> QED
  BY <1>1, <1>2

\* However a network is laid out, and whatever is sent, lost, late or answered: a packet is
\* transmitted by its source at most 2 * (1 + retries) times, once to find a route again
\* included.  A history counts by number, so this is about the packets sent until a number
\* comes round again.
THEOREM SendsAreBounded == Spec => [](NumbersFresh => SendsBounded)
<1>1. SendInv => (NumbersFresh => SendsBounded)
  <2>1. SUFFICES ASSUME SendInv, NumbersFresh, NEW n \in Node, NEW i \in DOMAIN sent[n]
                 PROVE  sent[n][i] <= SendLimit
    BY DEF SendsBounded
  <2>2. Counts(node[n], n, net.retries, sent[n])
    BY <2>1 DEF SendInv
  <2>3. Bounded(node[n], net.retries, sent[n]) /\ i \in 0 .. SeqRange - 1
    BY <2>1, <2>2 DEF Counts, NumbersFresh
  <2> QED
    BY <2>3 DEF Bounded, SendLimit
<1> QED
  BY <1>1, SendInit, SendStep, PTL DEF Spec

-----------------------------------------------------------------------------
(***************************************************************************)
(* Route discoveries.  The mark of a slot is never taken back when another *)
(* packet is put into it, so between the two halves of a call a packet     *)
(* with a next hop may carry the mark: but it is the very packet that came *)
(* in, and the look at the pending packets that follows removes it as one  *)
(* that somebody else has repeated.                                        *)
(***************************************************************************)
Discovers(e) == e.disc => e.pkt.nd # Zero /\ e.pkt.md = Zero
AllDiscover(mesh) == \A i \in 1 .. MeshPend : Discovers(mesh[i])

Settles(e, rcv) ==
  e.disc => /\ e.pkt.nd # Zero
            /\ e.pkt.md = Zero \/ (rcv # NoPkt /\ rcv.md # Zero /\ SamePacket(rcv, e.pkt))

\* Packets that are for somebody.
Addressed(q) == \E Z : q \in Seq(Z) /\ \A p \in Z : p.nd # Zero

LEMMA NoneAddressed == Addressed(<< >>)
<1>1. PICK Y : Y = {}
  OBVIOUS
<1>2. << >> \in Seq(Y) /\ \A x \in Y : x.nd # Zero
  BY <1>1
<1> QED
  BY <1>2 DEF Addressed

LEMMA OneAddressed == ASSUME NEW p, p.nd # Zero PROVE Addressed(<< p >>)
<1>1. PICK Y : Y = {p}
  OBVIOUS
<1>2. << p >> \in Seq(Y) /\ \A x \in Y : x.nd # Zero
  BY <1>1
<1> QED
  BY <1>2 DEF Addressed

LEMMA BothAddressed ==
  ASSUME NEW q, NEW r, Addressed(q), Addressed(r)
  PROVE  Addressed(q \o r)
<1>1. PICK Y : q \in Seq(Y) /\ \A x \in Y : x.nd # Zero
  BY DEF Addressed
<1>2. PICK Z : r \in Seq(Z) /\ \A x \in Z : x.nd # Zero
  BY DEF Addressed
<1>3. q \in Seq(Y \cup Z) /\ r \in Seq(Y \cup Z)
  BY <1>1, <1>2
<1>4. q \o r \in Seq(Y \cup Z) /\ \A x \in Y \cup Z : x.nd # Zero
  BY <1>1, <1>2, <1>3
<1> QED
  BY <1>4 DEF Addressed

\* What all the entries transmit: nothing but what one of them does.
IsSequence(q) == \E Y : q \in Seq(Y)
OneOf(z, list, size) == \E i \in 1 .. size : \E j \in 1 .. Len(list[i].out) : z = list[i].out[j]
Collected(q, list, size) == \E Z : q \in Seq(Z) /\ \A z \in Z : OneOf(z, list, size)

LEMMA JoinedElements ==
  ASSUME NEW size \in Nat, NEW list, DOMAIN list = 1 .. size, \A i \in 1 .. size : IsSequence(list[i].out)
  PROVE  Collected(JoinAll(<< >>, list), list, size)
<1> DEFINE X(i) == {list[i].out[j] : j \in 1 .. Len(list[i].out)}
           Z == UNION {X(i) : i \in 1 .. size}
<1>1. ASSUME NEW i \in 1 .. size PROVE list[i].out \in Seq(X(i))
  <2>1. PICK q : q = list[i].out
    OBVIOUS
  <2>2. PICK Y : q \in Seq(Y)
    BY <2>1 DEF IsSequence
  <2>3. q \in Seq({q[j] : j \in 1 .. Len(q)})
    BY <2>2
  <2> QED
    BY <2>1, <2>3
<1>2. ASSUME NEW z \in Z PROVE OneOf(z, list, size)
  <2>1. PICK i \in 1 .. size : z \in X(i)
    <3> HIDE DEF X
    <3> QED OBVIOUS
  <2> QED
    BY <2>1 DEF OneOf
<1>3. ASSUME NEW q \in Seq(Z), NEW i \in 1 .. size PROVE Joins(q, list[i]) \in Seq(Z)
  <2>1. X(i) \subseteq Z
    <3> HIDE DEF X
    <3> QED OBVIOUS
  <2>2. list[i].out \in Seq(X(i))
    BY <1>1
  <2> HIDE DEF X, Z
  <2>3. list[i].out \in Seq(Z)
    BY <2>1, <2>2
  <2> QED
    BY <2>3 DEF Joins
<1>4. << >> \in Seq(Z)
  OBVIOUS
<1> HIDE DEF X, Z
<1>5. JoinAll(<< >>, list) \in Seq(Z)
  <2>1. PICK D : D = Seq(Z)
    OBVIOUS
  <2>2. << >> \in D /\ \A x \in D : \A i \in 1 .. size : Joins(x, list[i]) \in D
    BY <1>3, <1>4, <2>1
  <2>3. PICK f : Turns(f, D, << >>, size, list)
    BY ONLY <2>2, TransmitFold, size \in Nat, DOMAIN list = 1 .. size
  <2>4. size \in 0 .. size
    OBVIOUS
  <2> QED
    BY <2>1, <2>3, <2>4 DEF Turns
<1> QED
  BY <1>2, <1>5 DEF Collected

LEMMA JoinedAddressed ==
  ASSUME NEW size \in Nat, NEW list, DOMAIN list = 1 .. size,
         \A i \in 1 .. size : Addressed(list[i].out)
  PROVE  Addressed(JoinAll(<< >>, list))
<1>1. PICK Z : JoinAll(<< >>, list) \in Seq(Z) /\ \A z \in Z : OneOf(z, list, size)
  <2>1. \A i \in 1 .. size : IsSequence(list[i].out)
    BY DEF Addressed, IsSequence
  <2>2. Collected(JoinAll(<< >>, list), list, size)
    BY ONLY <2>1, size \in Nat, DOMAIN list = 1 .. size, JoinedElements
  <2> QED
    BY <2>2 DEF Collected
<1>2. ASSUME NEW z \in Z PROVE z.nd # Zero
  <2>1. PICK i \in 1 .. size : \E j \in 1 .. Len(list[i].out) : z = list[i].out[j]
    BY <1>1 DEF OneOf
  <2>2. PICK q : q = list[i].out
    OBVIOUS
  <2>3. PICK Y : q \in Seq(Y) /\ \A x \in Y : x.nd # Zero
    BY <2>2 DEF Addressed
  <2>4. PICK j \in 1 .. Len(q) : z = q[j]
    BY <2>1, <2>2
  <2>5. z \in Y
    BY <2>3, <2>4
  <2> QED
    BY <2>3, <2>5
<1> QED
  BY <1>1, <1>2 DEF Addressed

\* A packet with its retries used up: the entry is not marked and does not become so.
LEMMA ExpiredUnmarked ==
  ASSUME NEW c, NEW n, NEW e, Held(e, n), ~ e.disc, e.pkt.nd # Zero, NEW r, r = PendingExpired(c, e)
  PROVE  Discovers(r.entry) /\ Addressed(r.out)
<1>1. PICK again : again = Retransmit(c, e.pkt)
  OBVIOUS
<1>2. PICK off : off = [e.pkt EXCEPT !.md = Zero, !.max = DiscHops]
  OBVIOUS
<1>3. PICK unrouted : unrouted = Retransmit(c, off)
  OBVIOUS
<1>4. PICK held : held = [unrouted EXCEPT !.rem = c.retry]
  OBVIOUS
<1>5. DOMAIN e = {"pkt", "disc"} /\ DOMAIN e.pkt = PacketFields
  BY DEF Held, Hopped
<1>6. ASSUME NEW p, DOMAIN p = PacketFields, NEW q, q = Retransmit(c, p)
      PROVE  DOMAIN q = PacketFields /\ q.nd = p.nd
  <2>1. PICK x : x = (p.rem + 7) % 8
    OBVIOUS
  <2>2. q = [p EXCEPT !.rem = x, !.ms = c.me]
    BY <1>6, <2>1 DEF Retransmit
  <2> QED
    BY <1>6, <2>2 DEF PacketFields
<1>7. DOMAIN off = PacketFields /\ off.nd = e.pkt.nd
  BY <1>2, <1>5 DEF PacketFields
<1>8. again.nd # Zero /\ unrouted.nd # Zero
  BY <1>1, <1>3, <1>5, <1>6, <1>7
<1>9. \/ r = [Keep([e EXCEPT !.pkt = again]) EXCEPT !.out = << again >>]
      \/ r = [entry |-> [e EXCEPT !.pkt = held], out |-> << unrouted >>, lost |-> e.pkt.nd]
      \/ r = [Clear EXCEPT !.lost = e.pkt.nd]
  BY <1>1, <1>2, <1>3, <1>4 DEF PendingExpired
<1>10. ASSUME NEW p, NEW d, d = [e EXCEPT !.pkt = p] PROVE Discovers(d)
  BY <1>5, <1>10 DEF Discovers
<1>11. CASE r = [Keep([e EXCEPT !.pkt = again]) EXCEPT !.out = << again >>]
  <2>1. PICK d : d = [e EXCEPT !.pkt = again]
    OBVIOUS
  <2>2. r.entry = d /\ r.out = << again >>
    BY <1>11, <2>1 DEF Keep
  <2> QED
    BY <1>8, <1>10, <2>1, <2>2, OneAddressed
<1>12. CASE r = [entry |-> [e EXCEPT !.pkt = held], out |-> << unrouted >>, lost |-> e.pkt.nd]
  <2>1. PICK d : d = [e EXCEPT !.pkt = held]
    OBVIOUS
  <2>2. r.entry = d /\ r.out = << unrouted >>
    BY <1>12, <2>1
  <2> QED
    BY <1>8, <1>10, <2>1, <2>2, OneAddressed
<1>13. CASE r = [Clear EXCEPT !.lost = e.pkt.nd]
  <2>1. r.entry = NoPending /\ r.out = << >>
    BY <1>13 DEF Clear, Keep
  <2>2. Discovers(NoPending)
    BY DEF Discovers, NoPending
  <2> QED
    BY <2>1, <2>2, NoneAddressed
<1> QED
  BY <1>9, <1>11, <1>12, <1>13

LEMMA DiscoveryEntry ==
  ASSUME NEW c, NEW n, NEW e, Held(e, n), NEW rcv, Settles(e, rcv), NEW due,
         NEW r, r = PendingEntry(c, e, rcv, due)
  PROVE  Discovers(r.entry) /\ Addressed(r.out)
<1>1. Discovers(NoPending)
  BY DEF Discovers, NoPending
<1>2. ASSUME r = Clear PROVE Discovers(r.entry) /\ Addressed(r.out)
  <2>1. r.entry = NoPending /\ r.out = << >>
    BY <1>2 DEF Clear, Keep
  <2> QED
    BY <1>1, <2>1, NoneAddressed
<1>3. ASSUME NEW d, r = Keep(d), Discovers(d) PROVE Discovers(r.entry) /\ Addressed(r.out)
  <2>1. r.entry = d /\ r.out = << >>
    BY <1>3 DEF Keep
  <2> QED
    BY <1>3, <2>1, NoneAddressed
<1>4. DOMAIN e = {"pkt", "disc"} /\ DOMAIN e.pkt = PacketFields
  BY DEF Held, Hopped
<1>5. CASE e.disc
  <2>1. r = PendingDiscovery(c, e, rcv, due)
    BY <1>5 DEF PendingEntry
  <2>2. CASE e.pkt.md # Zero
    <3>1. rcv # NoPkt /\ rcv.md # Zero /\ SamePacket(rcv, e.pkt)
      BY <1>5, <2>2 DEF Settles
    <3>2. r = Clear
      BY <2>1, <3>1 DEF PendingDiscovery
    <3> QED
      BY <1>2, <3>2
  <2>3. CASE e.pkt.md = Zero
    <3>1. Discovers(e) /\ e.pkt.nd # Zero
      BY <1>5, <2>3 DEF Settles, Discovers
    <3>2. CASE r = [Clear EXCEPT !.out = <<[e.pkt EXCEPT !.ms = c.me]>>]
      <4>1. PICK q : q = [e.pkt EXCEPT !.ms = c.me]
        OBVIOUS
      <4>2. q.nd # Zero
        BY <1>4, <3>1, <4>1 DEF PacketFields
      <4>3. r.entry = NoPending /\ r.out = << q >>
        BY <3>2, <4>1 DEF Clear, Keep
      <4> QED
        BY <1>1, <4>2, <4>3, OneAddressed
    <3> QED
      BY <1>2, <1>3, <2>1, <3>1, <3>2 DEF PendingDiscovery
  <2> QED
    BY <2>2, <2>3
<1>6. CASE ~ e.disc /\ e.pkt.nd # Zero
  <2>1. r = PendingRouted(c, e, rcv, due)
    BY <1>6 DEF PendingEntry
  <2>2. Discovers(e)
    BY <1>6 DEF Discovers
  <2>3. CASE r = Keep([e EXCEPT !.pkt.rem = 0])
    <3>1. PICK p : p = [e.pkt EXCEPT !.rem = 0]
      OBVIOUS
    <3>2. PICK d : d = [e EXCEPT !.pkt = p]
      OBVIOUS
    <3>3. Discovers(d)
      BY <1>4, <1>6, <3>2 DEF Discovers
    <3>4. r = Keep(d)
      BY <2>3, <3>1, <3>2
    <3> QED
      BY <1>3, <3>3, <3>4
  <2>4. CASE r = PendingExpired(c, e)
    BY <1>6, <2>4, ExpiredUnmarked
  <2> QED
    BY <1>2, <1>3, <2>1, <2>2, <2>3, <2>4 DEF PendingRouted
<1>7. CASE ~ e.disc /\ e.pkt.nd = Zero
  <2>1. r = Keep(e)
    BY <1>7 DEF PendingEntry
  <2>2. Discovers(e)
    BY <1>7 DEF Discovers
  <2> QED
    BY <1>3, <2>1, <2>2
<1> QED
  BY <1>5, <1>6, <1>7

LEMMA DiscoveryArray ==
  ASSUME NEW c, NEW n, NEW size \in Nat, NEW arr, AllHeld(arr, n, size), NEW rcv,
         \A i \in 1 .. size : Settles(arr[i], rcv), NEW due, NEW r, r = PendingArray(c, arr, rcv, due)
  PROVE  (\A i \in 1 .. size : Discovers(r.arr[i])) /\ Addressed(r.out)
<1>1. PICK done : done = [i \in DOMAIN arr |-> PendingEntry(c, arr[i], rcv, i \in due)]
  OBVIOUS
<1>2. DOMAIN arr = 1 .. size /\ DOMAIN done = 1 .. size
  BY <1>1 DEF AllHeld
<1>3. ASSUME NEW i \in 1 .. size PROVE Discovers(done[i].entry) /\ Addressed(done[i].out)
  <2>1. PICK late1 : late1 = (i \in due)
    OBVIOUS
  <2>2. PICK e : e = arr[i]
    OBVIOUS
  <2>3. PICK x : x = done[i]
    OBVIOUS
  <2>4. x = PendingEntry(c, e, rcv, late1)
    BY <1>1, <1>2, <2>1, <2>2, <2>3
  <2>5. Held(e, n) /\ Settles(e, rcv)
    BY <2>2 DEF AllHeld
  <2>6. Discovers(x.entry) /\ Addressed(x.out)
    BY ONLY <2>4, <2>5, DiscoveryEntry
  <2> QED
    BY <2>3, <2>6
<1>4. r.arr = [i \in DOMAIN arr |-> done[i].entry] /\ r.out = JoinAll(<< >>, done)
  BY <1>1 DEF PendingArray, JoinAll
<1>5. Addressed(r.out)
  BY <1>2, <1>3, <1>4, JoinedAddressed
<1> QED
  BY <1>2, <1>3, <1>4, <1>5

LEMMA DiscoveryPending ==
  ASSUME NEW d, NEW n, NEW near, NodeOK(d, n, near), NEW rcv,
         \A i \in 1 .. MeshPend : Settles(d.mesh[i], rcv),
         \A i \in 1 .. OwnPend : d.own[i].disc = FALSE, Addressed(d.out),
         NEW md, NEW od, NEW e, e = HandlePending(d, rcv, md, od)
  PROVE  AllDiscover(e.mesh) /\ Addressed(e.out)
<1>1. PICK m : m = PendingArray(d, d.mesh, rcv, md)
  OBVIOUS
<1>2. PICK a : a = [d EXCEPT !.rte = m.rte]
  OBVIOUS
<1>3. PICK o : o = PendingArray(a, d.own, rcv, od)
  OBVIOUS
<1>4. /\ DOMAIN d = NodeFields /\ AllHeld(d.mesh, n, MeshPend) /\ AllHeld(d.own, n, OwnPend)
      /\ MeshPend \in Nat /\ OwnPend \in Nat
  BY MeshNodeAssumption DEF NodeOK
<1>5. PICK out : out = d.out \o m.out \o o.out
  OBVIOUS
<1>6. e = [d EXCEPT !.mesh = m.arr, !.own = o.arr, !.rte = o.rte, !.out = out]
  BY <1>1, <1>2, <1>3, <1>5 DEF HandlePending
<1>7. e.mesh = m.arr /\ e.out = out
  BY <1>4, <1>6 DEF NodeFields
<1>8. (\A i \in 1 .. MeshPend : Discovers(m.arr[i])) /\ Addressed(m.out)
  <2>1. PICK arr : arr = d.mesh
    OBVIOUS
  <2>2. /\ AllHeld(arr, n, MeshPend) /\ m = PendingArray(d, arr, rcv, md)
        /\ \A i \in 1 .. MeshPend : Settles(arr[i], rcv)
    BY <1>1, <1>4, <2>1
  <2> QED
    BY ONLY <1>4, <2>2, DiscoveryArray
<1>9. Addressed(o.out)
  <2>1. PICK arr : arr = d.own
    OBVIOUS
  <2>2. \A i \in 1 .. OwnPend : Settles(arr[i], rcv)
    BY <2>1 DEF Settles
  <2>3. AllHeld(arr, n, OwnPend) /\ o = PendingArray(a, arr, rcv, od)
    BY <1>3, <1>4, <2>1
  <2> QED
    BY ONLY <1>4, <2>2, <2>3, DiscoveryArray
<1>10. Addressed(out)
  <2>1. PICK q : q = d.out \o m.out
    OBVIOUS
  <2>2. Addressed(q)
    BY <1>8, <2>1, BothAddressed
  <2> QED
    BY <1>5, <1>9, <2>1, <2>2, BothAddressed
<1> QED
  BY <1>7, <1>8, <1>10 DEF AllDiscover

\* A call of mesh_send() keeps its packet with the own ones.
LEMMA SendAddressed ==
  ASSUME NEW c, NEW n, NEW near, NodeOK(c, n, near), c.out = << >>,
         NEW dst, NEW type, NEW data, NEW maxhops, NEW k,
         NEW d, d = MeshSend(c, dst, type, data, maxhops, k)
  PROVE  d.mesh = c.mesh /\ Addressed(d.out)
<1>1. PICK p : p = FormPacket(c, dst, type, maxhops, data)
  OBVIOUS
<1>2. PICK f : f = FormEffect(c, dst)
  OBVIOUS
<1>3. DOMAIN c = NodeFields
  BY DEF NodeOK
<1>4. DOMAIN p = PacketFields /\ p.ns = c.me /\ p.nd = dst
  BY ONLY <1>1 DEF FormPacket, NoPkt, PacketFields
<1>5. DOMAIN f = NodeFields /\ f.me = c.me /\ f.mesh = c.mesh /\ f.out = << >>
  <2>1. PICK t : t = IF FindRoute(c.rte, dst) = 0 THEN c.rte ELSE BumpScore(c.rte, FindRoute(c.rte, dst))
    OBVIOUS
  <2>2. f = [c EXCEPT !.seq = NextSeq(c), !.rte = t]
    BY <1>2, <2>1 DEF FormEffect
  <2> QED
    BY <1>3, <2>2 DEF NodeFields
<1>6. PICK q : q = [p EXCEPT !.ms = f.me]
  OBVIOUS
<1>7. q.nd = dst
  BY <1>4, <1>6 DEF PacketFields
<1>8. PICK s : s = SendPacket(f, p)
  OBVIOUS
<1>9. DOMAIN s = NodeFields /\ s.me = c.me /\ s.mesh = c.mesh /\ s.out = << q >>
  <2>1. s = [f EXCEPT !.out = << q >>]
    BY <1>5, <1>6, <1>8 DEF SendPacket, NodeFields
  <2> QED
    BY <1>5, <2>1 DEF NodeFields
<1>10. d = c \/ (dst # Zero /\ (d = s \/ d = AddPending(s, p, k)))
  BY <1>1, <1>2, <1>8 DEF MeshSend, SendFormed
<1>11. CASE d = c
  BY <1>11, NoneAddressed
<1>12. CASE dst # Zero /\ d = s
  BY <1>7, <1>9, <1>12, OneAddressed
<1>13. CASE dst # Zero /\ d = AddPending(s, p, k)
  <2>1. PICK h : h = [p EXCEPT !.rem = s.retry]
    OBVIOUS
  <2>2. PICK o : o = PendingSlot(s.own, k)
    OBVIOUS
  <2>3. d = [s EXCEPT !.own[o].pkt = h]
    BY <1>4, <1>9, <1>13, <2>1, <2>2 DEF AddPending
  <2>4. d.mesh = c.mesh /\ d.out = << q >>
    BY <1>9, <2>3 DEF NodeFields
  <2> QED
    BY <1>7, <1>13, <2>4, OneAddressed
<1> QED
  BY <1>10, <1>11, <1>12, <1>13

\* A packet rcv of another node is kept: the slot it takes may have had the mark.
LEMMA AddSettles ==
  ASSUME NEW s, DOMAIN s = NodeFields, DOMAIN s.mesh = 1 .. MeshPend, AllDiscover(s.mesh),
         NEW rcv, DOMAIN rcv = PacketFields, rcv.nd # Zero, rcv.ns # s.me,
         NEW k, NEW d, d = AddPending(s, rcv, k)
  PROVE  (\A i \in 1 .. MeshPend : Settles(d.mesh[i], rcv)) /\ d.out = s.out
<1>1. PICK o : o = PendingSlot(s.mesh, k)
  OBVIOUS
<1>2. PICK h : h = [rcv EXCEPT !.rem = s.retry]
  OBVIOUS
<1>3. PICK e : e = [pkt |-> h, disc |-> s.mesh[o].disc \/ rcv.md = Zero]
  OBVIOUS
<1>4. d = [s EXCEPT !.mesh[o] = e]
  BY <1>1, <1>2, <1>3 DEF AddPending
<1>5. d.out = s.out /\ d.mesh = [s.mesh EXCEPT ![o] = e]
  BY <1>4 DEF NodeFields
<1>6. h.nd = rcv.nd /\ h.md = rcv.md /\ SamePacket(rcv, h)
  BY <1>2 DEF PacketFields, SamePacket
<1>7. rcv # NoPkt
  BY DEF NoPkt
<1>8. Settles(e, rcv)
  BY <1>3, <1>6, <1>7 DEF Settles
<1>9. ASSUME NEW i \in 1 .. MeshPend PROVE Settles(d.mesh[i], rcv)
  <2>1. CASE i = o
    BY <1>5, <1>8, <2>1
  <2>2. CASE i # o
    BY <1>5, <2>2 DEF AllDiscover, Discovers, Settles
  <2> QED
    BY <2>1, <2>2
<1> QED
  BY <1>5, <1>9

\* A packet of another node is transmitted.
LEMMA PassAddressed ==
  ASSUME NEW c, DOMAIN c = NodeFields, c.out = << >>, NEW p, DOMAIN p = PacketFields, p.nd # Zero,
         NEW d, d = SendPacket(c, p)
  PROVE  DOMAIN d = NodeFields /\ d.me = c.me /\ d.mesh = c.mesh /\ Addressed(d.out)
<1>1. PICK q : q = [p EXCEPT !.ms = c.me]
  OBVIOUS
<1>2. q.nd # Zero
  BY <1>1 DEF PacketFields
<1>3. d = [c EXCEPT !.out = << q >>]
  BY <1>1 DEF SendPacket, NodeFields
<1>4. DOMAIN d = NodeFields /\ d.me = c.me /\ d.mesh = c.mesh /\ d.out = << q >>
  BY <1>3 DEF NodeFields
<1> QED
  BY <1>2, <1>4, OneAddressed

LEMMA MeshPacketSettles ==
  ASSUME NEW h, NEW n, NEW near, NodeOK(h, n, near), h.out = << >>, AllDiscover(h.mesh),
         NEW p, Comes(p, near), p.nd # Zero, p.ns # n, NEW k, NEW rc, rc = HandleMeshPacket(h, p, k)
  PROVE  (\A i \in 1 .. MeshPend : Settles(rc.node.mesh[i], rc.rx)) /\ Addressed(rc.node.out)
<1>1. PICK next : next = IF FindRoute(h.rte, p.nd) = 0 THEN Zero ELSE h.rte[FindRoute(h.rte, p.nd)].next
  OBVIOUS
<1>2. PICK hopped : hopped = [p EXCEPT !.hop = @ + 1]
  OBVIOUS
<1>3. PICK onward : onward = [hopped EXCEPT !.md = next, !.ms = h.me]
  OBVIOUS
<1>4. /\ DOMAIN hopped = PacketFields /\ hopped.ns # n /\ hopped.nd # Zero
      /\ DOMAIN onward = PacketFields /\ onward.ns # n /\ onward.nd # Zero
  BY <1>2, <1>3 DEF Comes, PacketFields
<1>5. PICK s : s = SendPacket(h, onward)
  OBVIOUS
<1>6. DOMAIN h = NodeFields /\ h.me = n /\ DOMAIN h.mesh = 1 .. MeshPend
  BY DEF NodeOK, AllHeld
<1>7. DOMAIN s = NodeFields /\ s.me = n /\ s.mesh = h.mesh /\ Addressed(s.out)
  BY <1>4, <1>5, <1>6, PassAddressed
<1>8. \/ rc.node = AddPending(h, hopped, k) /\ rc.rx = hopped
      \/ rc.node = h
      \/ rc.node = AddPending(s, onward, k) /\ rc.rx = onward
      \/ rc.node = s
  BY <1>1, <1>2, <1>3, <1>5 DEF HandleMeshPacket
<1>9. ASSUME NEW x PROVE \A i \in 1 .. MeshPend : Settles(h.mesh[i], x)
  BY DEF AllDiscover, Discovers, Settles
<1>10. CASE rc.node = AddPending(h, hopped, k) /\ rc.rx = hopped
  <2>1. PICK d : d = AddPending(h, hopped, k)
    OBVIOUS
  <2>2. (\A i \in 1 .. MeshPend : Settles(d.mesh[i], hopped)) /\ d.out = h.out
    BY <1>4, <1>6, <2>1, AddSettles
  <2> QED
    BY <1>10, <2>1, <2>2, NoneAddressed
<1>11. CASE rc.node = AddPending(s, onward, k) /\ rc.rx = onward
  <2>1. PICK d : d = AddPending(s, onward, k)
    OBVIOUS
  <2>2. (\A i \in 1 .. MeshPend : Settles(d.mesh[i], onward)) /\ d.out = s.out
    BY <1>4, <1>6, <1>7, <2>1, AddSettles
  <2> QED
    BY <1>7, <1>11, <2>1, <2>2
<1>12. CASE rc.node = h
  BY <1>9, <1>12, NoneAddressed
<1>13. CASE rc.node = s
  BY <1>7, <1>9, <1>13
<1> QED
  BY <1>8, <1>10, <1>11, <1>12, <1>13

\* The first half of mesh_service(), with a packet.
LEMMA ReceivedSettles ==
  ASSUME NEW c, NEW n, NEW near, NodeOK(c, n, near), c.out = << >>, AllDiscover(c.mesh),
         NEW p, Comes(p, near), p.nd # Zero, NEW k, NEW rc, rc = Received(c, p, k)
  PROVE  (\A i \in 1 .. MeshPend : Settles(rc.node.mesh[i], rc.rx)) /\ Addressed(rc.node.out)
<1>1. PICK h : h = HistoryAndRouting(c, p)
  OBVIOUS
<1>2. c.me = n
  BY DEF NodeOK
<1>3. ASSUME NEW x PROVE \A i \in 1 .. MeshPend : Settles(c.mesh[i], x)
  BY DEF AllDiscover, Discovers, Settles
<1>4. CASE ~ p.ver \/ p.ms = c.me
  <2>1. rc.node = c
    BY <1>4 DEF Received
  <2> QED
    BY <1>3, <2>1, NoneAddressed
<1>5. CASE p.ms # n /\ p.ver
  <2>1. NodeOK(h, n, near) /\ h.mesh = c.mesh /\ h.out = << >>
    BY <1>1, <1>5, HistoryAndRoutingIs
  <2>2. PICK a : a = [h EXCEPT !.app = Append(@, p)]
    OBVIOUS
  <2>3. NodeOK(a, n, near) /\ DOMAIN a = NodeFields /\ a.mesh = c.mesh /\ a.out = << >>
    <3>1. NodeOK(a, n, near)
      BY <2>1, <2>2, ToApplicationIs
    <3>2. DOMAIN a = NodeFields /\ a.mesh = h.mesh /\ a.out = h.out
      BY <2>1, <2>2 DEF NodeOK, NodeFields
    <3> QED
      BY <2>1, <3>1, <3>2
  <2>4. \/ rc.node = h
        \/ rc.node = HandleBroadcast(h, p)
        \/ rc.node = HandleOurPacket(h, p, IsDuplicate(c, p), k)
        \/ p.ns # n /\ rc = HandleMeshPacket(h, p, k)
    BY <1>1, <1>2, <1>5 DEF Received
  <2>5. CASE rc.node = h
    BY <1>3, <2>1, <2>5, NoneAddressed
  <2>6. CASE rc.node = HandleBroadcast(h, p)
    <3>1. PICK hopped : hopped = [p EXCEPT !.hop = @ + 1]
      OBVIOUS
    <3>2. DOMAIN hopped = PacketFields /\ hopped.nd # Zero
      BY <3>1 DEF Comes, PacketFields
    <3>3. PICK d : d = rc.node
      OBVIOUS
    <3>4. d = a \/ d = SendPacket(a, hopped)
      BY <2>2, <2>6, <3>1, <3>3 DEF HandleBroadcast
    <3>5. d.mesh = c.mesh /\ Addressed(d.out)
      BY <2>3, <3>2, <3>4, NoneAddressed, PassAddressed
    <3> QED
      BY <1>3, <3>3, <3>5
  <2>7. CASE rc.node = HandleOurPacket(h, p, IsDuplicate(c, p), k)
    <3>1. PICK b : b = IF ~ IsDuplicate(c, p) /\ p.data THEN a ELSE h
      OBVIOUS
    <3>2. NodeOK(b, n, near) /\ b.mesh = c.mesh /\ b.out = << >>
      BY <2>1, <2>3, <3>1
    <3>3. PICK d : d = rc.node
      OBVIOUS
    <3>4. d = b \/ d = SendAck(b, p, TRUE, k) \/ d = SendAck(b, p, FALSE, k)
      BY <2>2, <2>7, <3>1, <3>3 DEF HandleOurPacket
    <3>5. d.mesh = c.mesh /\ Addressed(d.out)
      <4>1. CASE d = b
        BY <3>2, <4>1, NoneAddressed
      <4>2. CASE d = SendAck(b, p, TRUE, k)
        <5>1. PICK dst, type, data, hops : dst = p.ns /\ type = "ack_rsp" /\ data = TRUE /\ hops = p.max
          OBVIOUS
        <5>2. d = MeshSend(b, dst, type, data, hops, k)
          BY <4>2, <5>1 DEF SendAck
        <5>3. d.mesh = b.mesh /\ Addressed(d.out)
          BY ONLY <3>2, <5>2, SendAddressed
        <5> QED
          BY <3>2, <5>3
      <4>3. CASE d = SendAck(b, p, FALSE, k)
        <5>1. PICK dst, type, data, hops : dst = p.ns /\ type = "ack_rsp" /\ data = FALSE /\ hops = p.max
          OBVIOUS
        <5>2. d = MeshSend(b, dst, type, data, hops, k)
          BY <4>3, <5>1 DEF SendAck
        <5>3. d.mesh = b.mesh /\ Addressed(d.out)
          BY ONLY <3>2, <5>2, SendAddressed
        <5> QED
          BY <3>2, <5>3
      <4> QED
        BY <3>4, <4>1, <4>2, <4>3
    <3> QED
      BY <1>3, <3>3, <3>5
  <2>8. CASE p.ns # n /\ rc = HandleMeshPacket(h, p, k)
    <3>1. AllDiscover(h.mesh)
      BY <2>1
    <3> QED
      BY <2>1, <2>8, <3>1, MeshPacketSettles
  <2> QED
    BY <2>4, <2>5, <2>6, <2>7, <2>8
<1> QED
  BY <1>2, <1>4, <1>5

-----------------------------------------------------------------------------
(***************************************************************************)
(* The discoveries of a network.                                           *)
(***************************************************************************)
\* The inductive invariant, with SendInv.
DiscInv ==
  /\ \A n \in Node : AllDiscover(node[n].mesh)
  /\ \A n \in Node : Addressed(fifo[n])

\* What arrives is nothing but what was transmitted.
LEMMA ArrivingElements ==
  ASSUME NEW out, NEW Z, out \in Seq(Z), NEW m, NEW got, NEW q, q = Arriving(m, out, got)
  PROVE  q \in Seq(Z)
<1>1. PICK size : size = Len(out)
  OBVIOUS
<1>2. PICK list : list = [i \in 1 .. size |-> i]
  OBVIOUS
<1>3. PICK D : D = Seq(Z)
  OBVIOUS
<1>4. size \in Nat /\ DOMAIN list = 1 .. size /\ \A i \in 1 .. size : list[i] = i
  BY <1>1, <1>2
<1>5. << >> \in D
  BY <1>3
<1>6. ASSUME NEW x \in D, NEW i \in 1 .. size PROVE Hear(x, list[i], m, out, got) \in D
  <2>1. x \in Seq(Z) /\ list[i] = i /\ out[i] \in Z
    BY <1>1, <1>3, <1>4
  <2>2. Hear(x, list[i], m, out, got) = Append(x, out[i]) \/ Hear(x, list[i], m, out, got) = x
    BY <2>1 DEF Hear
  <2> QED
    BY <1>3, <2>1, <2>2
<1>7. HearAll(<< >>, list, m, out, got) \in D
  BY <1>4, <1>5, <1>6, ArrivingFold
<1>8. q = HearAll(<< >>, list, m, out, got)
  BY <1>1, <1>2 DEF Arriving, HearAll
<1> QED
  BY <1>3, <1>7, <1>8

LEMMA OfferElements ==
  ASSUME NEW X, NEW q \in Seq(X), NEW new \in Seq(X), NEW r, r = Offer(q, new)
  PROVE  r \in Seq(X)
<1>1. PICK b : b = q \o new
  OBVIOUS
<1>2. PICK k : k = IF Len(q) + Len(new) > Fifo THEN Fifo ELSE Len(q) + Len(new)
  OBVIOUS
<1>3. b \in Seq(X) /\ Len(b) = Len(q) + Len(new) /\ Len(b) \in Nat
  BY <1>1
<1>4. k \in 0 .. Len(b)
  BY <1>2, <1>3, MeshAssumption
<1>5. r = SubSeq(b, 1, k)
  BY <1>1, <1>2 DEF Offer
<1> QED
  BY <1>3, <1>4, <1>5

LEMMA ArrivingAddressed ==
  ASSUME NEW out, Addressed(out), NEW m, NEW got, NEW q, q = Arriving(m, out, got)
  PROVE  Addressed(q)
BY ArrivingElements DEF Addressed

LEMMA OfferAddressed ==
  ASSUME NEW q, NEW new, Addressed(q), Addressed(new), NEW r, r = Offer(q, new)
  PROVE  Addressed(r)
<1>1. PICK Y : q \in Seq(Y) /\ \A p \in Y : p.nd # Zero
  BY DEF Addressed
<1>2. PICK Z : new \in Seq(Z) /\ \A p \in Z : p.nd # Zero
  BY DEF Addressed
<1>3. PICK X : X = Y \cup Z
  OBVIOUS
<1>4. q \in Seq(X) /\ new \in Seq(X) /\ \A p \in X : p.nd # Zero
  BY <1>1, <1>2, <1>3
<1>5. r \in Seq(X)
  BY <1>4, OfferElements
<1> QED
  BY <1>4, <1>5 DEF Addressed

LEMMA CommitDiscovers ==
  ASSUME SendInv, DiscInv, NEW n \in Node, NEW c, NodeOK(c, n, Node), AllDiscover(c.mesh), Addressed(c.out),
         NEW rest, Addressed(rest), Commit(n, c, rest)
  PROVE  DiscInv'
<1>1. PICK got : /\ node' = [node EXCEPT ![n] = Done(c)]
                 /\ fifo' = [m \in Node |-> Offer(IF m = n THEN rest ELSE fifo[m], Arriving(m, c.out, got))]
  BY DEF Commit
<1>2. ASSUME NEW m \in Node PROVE Addressed(fifo'[m])
  <2>1. PICK q : q = Arriving(m, c.out, got)
    OBVIOUS
  <2>2. Addressed(q)
    BY <2>1, ArrivingAddressed
  <2>3. PICK b : b = IF m = n THEN rest ELSE fifo[m]
    OBVIOUS
  <2>4. Addressed(b)
    BY <2>3 DEF DiscInv
  <2>5. fifo'[m] = Offer(b, q)
    BY <1>1, <2>1, <2>3
  <2> QED
    BY <2>2, <2>4, <2>5, OfferAddressed
<1>3. PICK d : d = Done(c)
  OBVIOUS
<1>4. d.mesh = c.mesh
  BY <1>3 DEF NodeOK, NodeFields, Done
<1>5. DOMAIN node = Node /\ node' = [node EXCEPT ![n] = d]
  BY <1>1, <1>3 DEF SendInv
<1>6. ASSUME NEW m \in Node PROVE AllDiscover(node'[m].mesh)
  BY <1>4, <1>5 DEF DiscInv
<1> QED
  BY <1>2, <1>6 DEF DiscInv

LEMMA AppSendDiscovers == ASSUME SendInv, DiscInv, NEW n \in Node, AppSend(n) PROVE DiscInv'
<1>1. PICK w, k : Commit(n, MeshSend(node[n], w.dst, w.type, w.data, w.max, k), fifo[n])
  BY DEF AppSend
<1>2. PICK c : c = node[n]
  OBVIOUS
<1>3. PICK d : d = MeshSend(c, w.dst, w.type, w.data, w.max, k)
  OBVIOUS
<1>4. NodeOK(c, n, Node) /\ c.out = << >> /\ AllDiscover(c.mesh) /\ Addressed(fifo[n])
  BY <1>2, NodeCounts DEF DiscInv
<1>5. NodeOK(d, n, Node)
  BY <1>3, <1>4, MeshSendIs
<1>6. d.mesh = c.mesh /\ Addressed(d.out)
  BY <1>3, <1>4, SendAddressed
<1>7. AllDiscover(d.mesh)
  BY <1>4, <1>6
<1>8. Commit(n, d, fifo[n])
  BY <1>1, <1>2, <1>3
<1> QED
  BY <1>4, <1>5, <1>6, <1>7, <1>8, CommitDiscovers

LEMMA ServicePacketDiscovers == ASSUME SendInv, DiscInv, NEW n \in Node, ServicePacket(n) PROVE DiscInv'
<1>1. PICK k, md, od : Commit(n, Service(node[n], Head(fifo[n]), k, md, od), Tail(fifo[n]))
  BY DEF ServicePacket
<1>2. fifo[n] # << >>
  BY DEF ServicePacket
<1>3. PICK c : c = node[n]
  OBVIOUS
<1>4. /\ NodeOK(c, n, Node) /\ AllCome(fifo[n], Node) /\ n # Zero
      /\ net.retries \in 0 .. 7 /\ c.retry = net.retries
      /\ c.out = << >> /\ Foreign(c.mesh, n) /\ OwnPlain(c.own)
      /\ AllDiscover(c.mesh) /\ Addressed(fifo[n])
  BY <1>3, NodeCounts DEF DiscInv
<1>5. PICK p : p = Head(fifo[n])
  OBVIOUS
<1>6. PICK rest : rest = Tail(fifo[n])
  OBVIOUS
<1>7. Comes(p, Node)
  <2>1. PICK Z : fifo[n] \in Seq(Z) /\ \A x \in Z : Comes(x, Node)
    BY <1>4 DEF AllCome
  <2> QED
    BY <1>2, <1>5, <2>1
<1>8. p.nd # Zero /\ Addressed(rest)
  <2>1. PICK Z : fifo[n] \in Seq(Z) /\ \A x \in Z : x.nd # Zero
    BY <1>4 DEF Addressed
  <2>2. p \in Z /\ rest \in Seq(Z)
    BY <1>2, <1>5, <1>6, <2>1
  <2> QED
    BY <2>1, <2>2 DEF Addressed
<1>9. PICK e : e = Service(c, p, k, md, od)
  OBVIOUS
<1>10. NodeOK(e, n, Node)
  BY <1>4, <1>7, <1>9, ServiceIs
<1>11. PICK rc : rc = Received(c, p, k)
  OBVIOUS
<1>12. PICK d : d = rc.node
  OBVIOUS
<1>13. d = Received(c, p, k).node
  BY <1>11, <1>12
<1>14. NodeOK(d, n, Node) /\ Called(c, d, n)
  BY <1>4, <1>7, <1>13, ReceivedIs, ReceivedCalls
<1>15. (\A i \in 1 .. MeshPend : Settles(d.mesh[i], rc.rx)) /\ Addressed(d.out)
  <2>1. (\A i \in 1 .. MeshPend : Settles(rc.node.mesh[i], rc.rx)) /\ Addressed(rc.node.out)
    BY ONLY <1>4, <1>7, <1>8, <1>11, ReceivedSettles
  <2> QED
    BY <1>12, <2>1
<1>16. ASSUME NEW i \in 1 .. OwnPend PROVE d.own[i].disc = FALSE
  <2>1. SlotAfter(c, d, n, net.retries, i)
    BY ONLY <1>4, <1>14, i \in 1 .. OwnPend, CalledSlots
  <2> QED
    BY <2>1 DEF SlotAfter
<1>17. PICK S : S = {i \in od : d.own[i] = c.own[i]}
  OBVIOUS
<1>18. PICK M : M = {i \in md : d.mesh[i] = c.mesh[i]}
  OBVIOUS
<1>19. PICK rcv : rcv = rc.rx
  OBVIOUS
<1>20. e = HandlePending(d, rcv, M, S)
  BY <1>9, <1>11, <1>12, <1>17, <1>18, <1>19 DEF Service
<1>21. \A i \in 1 .. MeshPend : Settles(d.mesh[i], rcv)
  BY <1>15, <1>19
<1>22. \A i \in 1 .. OwnPend : d.own[i].disc = FALSE
  BY <1>16
<1>23. AllDiscover(e.mesh) /\ Addressed(e.out)
  BY ONLY <1>14, <1>15, <1>20, <1>21, <1>22, DiscoveryPending
<1>24. Commit(n, e, rest)
  BY <1>1, <1>3, <1>5, <1>6, <1>9
<1> QED
  BY <1>8, <1>10, <1>23, <1>24, CommitDiscovers

LEMMA ServiceTimersDiscovers == ASSUME SendInv, DiscInv, NEW n \in Node, ServiceTimers(n) PROVE DiscInv'
<1>1. PICK md, od : Commit(n, ServiceIdle(node[n], md, od), << >>)
  BY DEF ServiceTimers
<1>2. PICK c : c = node[n]
  OBVIOUS
<1>3. NodeOK(c, n, Node) /\ c.out = << >> /\ OwnPlain(c.own) /\ AllDiscover(c.mesh)
  BY <1>2, NodeCounts DEF DiscInv
<1>4. PICK e : e = HandlePending(c, NoPkt, md, od)
  OBVIOUS
<1>5. NodeOK(e, n, Node)
  BY <1>3, <1>4, HandlePendingIs
<1>6. PICK rcv : rcv = NoPkt
  OBVIOUS
<1>7. /\ \A i \in 1 .. MeshPend : Settles(c.mesh[i], rcv)
      /\ \A i \in 1 .. OwnPend : c.own[i].disc = FALSE
      /\ Addressed(c.out) /\ e = HandlePending(c, rcv, md, od)
  BY <1>3, <1>4, <1>6, NoneAddressed DEF AllDiscover, Discovers, Settles, OwnPlain
<1>8. AllDiscover(e.mesh) /\ Addressed(e.out)
  BY ONLY <1>3, <1>7, DiscoveryPending
<1>9. Commit(n, e, << >>)
  BY <1>1, <1>2, <1>4 DEF ServiceIdle
<1> QED
  BY <1>5, <1>8, <1>9, NoneAddressed, CommitDiscovers

LEMMA DiscInit == Init => DiscInv
<1> SUFFICES ASSUME Init PROVE DiscInv
  OBVIOUS
<1>1. ASSUME NEW n \in Node PROVE AllDiscover(node[n].mesh) /\ Addressed(fifo[n])
  <2>1. PICK c : c = NewNode(n, n \in net.repeat, net.retries)
    OBVIOUS
  <2>2. node[n] = c /\ fifo[n] = << >>
    BY <2>1 DEF Init
  <2>3. c.mesh = [i \in 1 .. MeshPend |-> NoPending]
    BY <2>1 DEF NewNode
  <2>4. ASSUME NEW i \in 1 .. MeshPend PROVE Discovers(c.mesh[i])
    BY <2>3 DEF Discovers, NoPending
  <2> QED
    BY <2>2, <2>4, NoneAddressed DEF AllDiscover
<1> QED
  BY <1>1 DEF DiscInv

\* However a network is laid out and whatever is sent, lost or repeated: a slot that is
\* marked as a route discovery holds a packet without a next hop, although the mark outlives
\* the packet when the slot is used again.
THEOREM DiscoveriesAreMarked == Spec => []DiscoveryMarked
<1>1. ASSUME SendInv, DiscInv, [Next]_vars PROVE DiscInv'
  <2>1. CASE UNCHANGED vars
    BY <1>1, <2>1 DEF vars, DiscInv
  <2>2. CASE Next
    BY <1>1, <2>2, AppSendDiscovers, ServicePacketDiscovers, ServiceTimersDiscovers DEF Next
  <2> QED
    BY <1>1, <2>1, <2>2
<1>2. DiscInv => DiscoveryMarked
  BY DEF DiscInv, AllDiscover, Discovers, DiscoveryMarked
<1> QED
  BY <1>1, <1>2, SendInit, SendStep, DiscInit, PTL DEF Spec

-----------------------------------------------------------------------------
(***************************************************************************)
(* Delivered once.  The history tells a packet that was delivered from a   *)
(* new one as long as no entry of it is overwritten and no node comes      *)
(* round to the number 0 again.                                            *)
(*                                                                         *)
(* w is what is known of the packets under way: their numbers (sq), which  *)
(* of them are broadcasts (b) and the retry count of all nodes (r).        *)
(* Broadcasts are never kept and repeated as they came, so that a second   *)
(* copy does not look like a retry.                                        *)
(***************************************************************************)
Known(p, w) ==
  /\ p.ns \in Node /\ p.id \in 0 .. w.sq[p.ns]
  /\ p.nd = Broadcast <=> <<p.ns, p.id>> \in w.b
  /\ p.nd = Broadcast => p.rem = w.r

AllKnown(q, w) == \E Z : q \in Seq(Z) /\ \A p \in Z : Known(p, w)

\* A slot: what it holds is known and for one node.
Waits(e, w) == e.disc \/ e.pkt.nd # Zero => Known(e.pkt, w) /\ e.pkt.nd # Broadcast
AllWait(arr, size, w) == \A i \in 1 .. size : Waits(arr[i], w)

\* An entry of the history.
Seen(h, w) ==
  h.src = Zero \/ (h.src \in Node /\ h.id \in 0 .. w.sq[h.src] /\ (<<h.src, h.id>> \in w.b => h.rem = w.r))

HistOK(hist, w) ==
  /\ DOMAIN hist = 1 .. HistSize
  /\ \A i \in 1 .. HistSize : DOMAIN hist[i] = {"src", "id", "rem"} /\ Seen(hist[i], w)

NodeKnows(c, w) ==
  /\ c.retry = w.r /\ c.wptr \in 1 .. HistSize
  /\ AllWait(c.mesh, MeshPend, w) /\ AllWait(c.own, OwnPend, w)
  /\ HistOK(c.hist, w)

HasKey(hist, s, i) == \E j \in 1 .. HistSize : hist[j].src = s /\ hist[j].id = i

LEMMA NoneKnown == ASSUME NEW w PROVE AllKnown(<< >>, w)
<1>1. PICK Y : Y = {}
  OBVIOUS
<1>2. << >> \in Seq(Y) /\ \A x \in Y : Known(x, w)
  BY <1>1
<1> QED
  BY <1>2 DEF AllKnown

LEMMA OneKnown == ASSUME NEW p, NEW w, Known(p, w) PROVE AllKnown(<< p >>, w)
<1>1. PICK Y : Y = {p}
  OBVIOUS
<1>2. << p >> \in Seq(Y) /\ \A x \in Y : Known(x, w)
  BY <1>1
<1> QED
  BY <1>2 DEF AllKnown

LEMMA BothKnown ==
  ASSUME NEW q, NEW r, NEW w, AllKnown(q, w), AllKnown(r, w)
  PROVE  AllKnown(q \o r, w)
<1>1. PICK Y : q \in Seq(Y) /\ \A x \in Y : Known(x, w)
  BY DEF AllKnown
<1>2. PICK Z : r \in Seq(Z) /\ \A x \in Z : Known(x, w)
  BY DEF AllKnown
<1>3. q \in Seq(Y \cup Z) /\ r \in Seq(Y \cup Z)
  BY <1>1, <1>2
<1>4. q \o r \in Seq(Y \cup Z) /\ \A x \in Y \cup Z : Known(x, w)
  BY <1>1, <1>2, <1>3
<1> QED
  BY <1>4 DEF AllKnown

\* What all the entries transmit.
LEMMA JoinedKnown ==
  ASSUME NEW size \in Nat, NEW list, DOMAIN list = 1 .. size, NEW w,
         \A i \in 1 .. size : AllKnown(list[i].out, w)
  PROVE  AllKnown(JoinAll(<< >>, list), w)
<1>1. PICK Z : JoinAll(<< >>, list) \in Seq(Z) /\ \A z \in Z : OneOf(z, list, size)
  <2>1. \A i \in 1 .. size : IsSequence(list[i].out)
    BY DEF AllKnown, IsSequence
  <2>2. Collected(JoinAll(<< >>, list), list, size)
    BY ONLY <2>1, size \in Nat, DOMAIN list = 1 .. size, JoinedElements
  <2> QED
    BY <2>2 DEF Collected
<1>2. ASSUME NEW z \in Z PROVE Known(z, w)
  <2>1. PICK i \in 1 .. size : \E j \in 1 .. Len(list[i].out) : z = list[i].out[j]
    BY <1>1 DEF OneOf
  <2>2. PICK q : q = list[i].out
    OBVIOUS
  <2>3. PICK Y : q \in Seq(Y) /\ \A x \in Y : Known(x, w)
    BY <2>2 DEF AllKnown
  <2>4. PICK j \in 1 .. Len(q) : z = q[j]
    BY <2>1, <2>2
  <2>5. z \in Y
    BY <2>3, <2>4
  <2> QED
    BY <2>3, <2>5
<1> QED
  BY <1>1, <1>2 DEF AllKnown

\* A packet with the same source, destination and number, when it is for one node.
LEMMA SameKnown ==
  ASSUME NEW p, NEW w, Known(p, w), p.nd # Broadcast, NEW q, q.ns = p.ns, q.nd = p.nd, q.id = p.id
  PROVE  Known(q, w) /\ q.nd # Broadcast
BY DEF Known

LEMMA NothingWaits == ASSUME NEW w PROVE Waits(NoPending, w)
BY DEF Waits, NoPending, NoPkt

LEMMA PutWaits ==
  ASSUME NEW e, DOMAIN e = {"pkt", "disc"}, NEW p, NEW w, Known(p, w), p.nd # Broadcast,
         NEW d, d = [e EXCEPT !.pkt = p]
  PROVE  Waits(d, w)
<1>1. d.pkt = p
  OBVIOUS
<1> QED
  BY <1>1 DEF Waits

LEMMA EntryExpiredKnows ==
  ASSUME NEW c, NEW n, NEW e, Held(e, n), NEW w, Known(e.pkt, w), e.pkt.nd # Broadcast,
         NEW r, r = PendingExpired(c, e)
  PROVE  Waits(r.entry, w) /\ AllKnown(r.out, w)
<1>1. PICK again : again = Retransmit(c, e.pkt)
  OBVIOUS
<1>2. PICK off : off = [e.pkt EXCEPT !.md = Zero, !.max = DiscHops]
  OBVIOUS
<1>3. PICK unrouted : unrouted = Retransmit(c, off)
  OBVIOUS
<1>4. PICK held : held = [unrouted EXCEPT !.rem = c.retry]
  OBVIOUS
<1>5. DOMAIN e = {"pkt", "disc"} /\ DOMAIN e.pkt = PacketFields
  BY DEF Held, Hopped
<1>6. ASSUME NEW p, DOMAIN p = PacketFields, NEW q, q = Retransmit(c, p)
      PROVE  DOMAIN q = PacketFields /\ q.nd = p.nd /\ q.ns = p.ns /\ q.id = p.id
  <2>1. PICK x : x = (p.rem + 7) % 8
    OBVIOUS
  <2>2. q = [p EXCEPT !.rem = x, !.ms = c.me]
    BY <1>6, <2>1 DEF Retransmit
  <2> QED
    BY <1>6, <2>2 DEF PacketFields
<1>7. DOMAIN off = PacketFields /\ off.nd = e.pkt.nd /\ off.ns = e.pkt.ns /\ off.id = e.pkt.id
  BY <1>2, <1>5 DEF PacketFields
<1>8. again.nd = e.pkt.nd /\ again.ns = e.pkt.ns /\ again.id = e.pkt.id
  BY <1>1, <1>5, <1>6
<1>9. DOMAIN unrouted = PacketFields /\ unrouted.nd = e.pkt.nd /\ unrouted.ns = e.pkt.ns /\ unrouted.id = e.pkt.id
  BY <1>3, <1>6, <1>7
<1>10. held.nd = e.pkt.nd /\ held.ns = e.pkt.ns /\ held.id = e.pkt.id
  BY <1>4, <1>9 DEF PacketFields
<1>11. PICK p : p = e.pkt
  OBVIOUS
<1>12. Known(again, w) /\ again.nd # Broadcast
  BY <1>8, <1>11, SameKnown
<1>13. Known(unrouted, w) /\ unrouted.nd # Broadcast
  BY <1>9, <1>11, SameKnown
<1>14. Known(held, w) /\ held.nd # Broadcast
  BY <1>10, <1>11, SameKnown
<1>15. \/ r = [Keep([e EXCEPT !.pkt = again]) EXCEPT !.out = << again >>]
       \/ r = [entry |-> [e EXCEPT !.pkt = held], out |-> << unrouted >>, lost |-> e.pkt.nd]
       \/ r = [Clear EXCEPT !.lost = e.pkt.nd]
  BY <1>1, <1>2, <1>3, <1>4 DEF PendingExpired
<1>16. CASE r = [Keep([e EXCEPT !.pkt = again]) EXCEPT !.out = << again >>]
  <2>1. PICK d : d = [e EXCEPT !.pkt = again]
    OBVIOUS
  <2>2. r.entry = d /\ r.out = << again >>
    BY <1>16, <2>1 DEF Keep
  <2> QED
    BY <1>5, <1>12, <2>1, <2>2, PutWaits, OneKnown
<1>17. CASE r = [entry |-> [e EXCEPT !.pkt = held], out |-> << unrouted >>, lost |-> e.pkt.nd]
  <2>1. PICK d : d = [e EXCEPT !.pkt = held]
    OBVIOUS
  <2>2. r.entry = d /\ r.out = << unrouted >>
    BY <1>17, <2>1
  <2> QED
    BY <1>5, <1>13, <1>14, <2>1, <2>2, PutWaits, OneKnown
<1>18. CASE r = [Clear EXCEPT !.lost = e.pkt.nd]
  <2>1. r.entry = NoPending /\ r.out = << >>
    BY <1>18 DEF Clear, Keep
  <2> QED
    BY <2>1, NothingWaits, NoneKnown
<1> QED
  BY <1>15, <1>16, <1>17, <1>18

LEMMA EntryKnows ==
  ASSUME NEW c, NEW n, NEW e, Held(e, n), NEW w, Waits(e, w), NEW rcv, NEW due,
         NEW r, r = PendingEntry(c, e, rcv, due)
  PROVE  Waits(r.entry, w) /\ AllKnown(r.out, w)
<1>1. DOMAIN e = {"pkt", "disc"} /\ DOMAIN e.pkt = PacketFields
  BY DEF Held, Hopped
<1>2. ASSUME NEW d, r = Keep(d), Waits(d, w) PROVE Waits(r.entry, w) /\ AllKnown(r.out, w)
  <2>1. r.entry = d /\ r.out = << >>
    BY <1>2 DEF Keep
  <2> QED
    BY <1>2, <2>1, NoneKnown
<1>3. CASE r = Keep(e)
  BY <1>2, <1>3
<1>4. CASE r = Clear
  BY <1>2, <1>4, NothingWaits DEF Clear
<1>5. CASE e.disc /\ r = [Clear EXCEPT !.out = <<[e.pkt EXCEPT !.ms = c.me]>>]
  <2>1. PICK p : p = e.pkt
    OBVIOUS
  <2>2. PICK q : q = [p EXCEPT !.ms = c.me]
    OBVIOUS
  <2>3. q.ns = p.ns /\ q.nd = p.nd /\ q.id = p.id
    BY <1>1, <2>1, <2>2 DEF PacketFields
  <2>4. Known(p, w) /\ p.nd # Broadcast
    BY <1>5, <2>1 DEF Waits
  <2>5. Known(q, w)
    BY ONLY <2>3, <2>4, SameKnown
  <2>6. r.entry = NoPending /\ r.out = << q >>
    BY <1>5, <2>1, <2>2 DEF Clear, Keep
  <2> QED
    BY <2>5, <2>6, NothingWaits, OneKnown
<1>6. CASE e.pkt.nd # Zero /\ r = Keep([e EXCEPT !.pkt.rem = 0])
  <2>1. PICK p : p = e.pkt
    OBVIOUS
  <2>2. PICK q : q = [p EXCEPT !.rem = 0]
    OBVIOUS
  <2>3. q.ns = p.ns /\ q.nd = p.nd /\ q.id = p.id
    BY <1>1, <2>1, <2>2 DEF PacketFields
  <2>4. Known(p, w) /\ p.nd # Broadcast
    BY <1>6, <2>1 DEF Waits
  <2>5. Known(q, w) /\ q.nd # Broadcast
    BY ONLY <2>3, <2>4, SameKnown
  <2>6. PICK d : d = [e EXCEPT !.pkt = q]
    OBVIOUS
  <2>7. r = Keep(d)
    BY <1>6, <2>1, <2>2, <2>6
  <2>8. Waits(d, w)
    BY <1>1, <2>5, <2>6, PutWaits
  <2> QED
    BY <1>2, <2>7, <2>8
<1>7. CASE e.pkt.nd # Zero /\ r = PendingExpired(c, e)
  <2>1. Known(e.pkt, w) /\ e.pkt.nd # Broadcast
    BY <1>7 DEF Waits
  <2> QED
    BY <1>7, <2>1, EntryExpiredKnows
<1> QED
  BY <1>3, <1>4, <1>5, <1>6, <1>7 DEF PendingEntry, PendingDiscovery, PendingRouted

LEMMA ArrayKnows ==
  ASSUME NEW c, NEW n, NEW size \in Nat, NEW arr, AllHeld(arr, n, size), NEW w, AllWait(arr, size, w),
         NEW rcv, NEW due, NEW r, r = PendingArray(c, arr, rcv, due)
  PROVE  AllWait(r.arr, size, w) /\ AllKnown(r.out, w)
<1>1. PICK done : done = [i \in DOMAIN arr |-> PendingEntry(c, arr[i], rcv, i \in due)]
  OBVIOUS
<1>2. DOMAIN arr = 1 .. size /\ DOMAIN done = 1 .. size
  BY <1>1 DEF AllHeld
<1>3. ASSUME NEW i \in 1 .. size PROVE Waits(done[i].entry, w) /\ AllKnown(done[i].out, w)
  <2>1. PICK late1 : late1 = (i \in due)
    OBVIOUS
  <2>2. PICK e : e = arr[i]
    OBVIOUS
  <2>3. PICK x : x = done[i]
    OBVIOUS
  <2>4. x = PendingEntry(c, e, rcv, late1)
    BY <1>1, <1>2, <2>1, <2>2, <2>3
  <2>5. Held(e, n) /\ Waits(e, w)
    BY <2>2 DEF AllHeld, AllWait
  <2>6. Waits(x.entry, w) /\ AllKnown(x.out, w)
    BY ONLY <2>4, <2>5, EntryKnows
  <2> QED
    BY <2>3, <2>6
<1>4. r.arr = [i \in DOMAIN arr |-> done[i].entry] /\ r.out = JoinAll(<< >>, done)
  BY <1>1 DEF PendingArray, JoinAll
<1>5. AllKnown(r.out, w)
  BY <1>2, <1>3, <1>4, JoinedKnown
<1> QED
  BY <1>2, <1>3, <1>4, <1>5 DEF AllWait

LEMMA PendingKnows ==
  ASSUME NEW d, NEW n, NEW near, NodeOK(d, n, near), NEW w, NodeKnows(d, w), AllKnown(d.out, w),
         NEW rcv, NEW md, NEW od, NEW e, e = HandlePending(d, rcv, md, od)
  PROVE  /\ NodeKnows(e, w) /\ AllKnown(e.out, w)
         /\ e.hist = d.hist /\ e.wptr = d.wptr /\ e.app = d.app /\ e.seq = d.seq
<1>1. PICK m : m = PendingArray(d, d.mesh, rcv, md)
  OBVIOUS
<1>2. PICK a : a = [d EXCEPT !.rte = m.rte]
  OBVIOUS
<1>3. PICK o : o = PendingArray(a, d.own, rcv, od)
  OBVIOUS
<1>4. /\ DOMAIN d = NodeFields /\ AllHeld(d.mesh, n, MeshPend) /\ AllHeld(d.own, n, OwnPend)
      /\ MeshPend \in Nat /\ OwnPend \in Nat
      /\ AllWait(d.mesh, MeshPend, w) /\ AllWait(d.own, OwnPend, w)
  BY MeshNodeAssumption DEF NodeOK, NodeKnows
<1>5. PICK out : out = d.out \o m.out \o o.out
  OBVIOUS
<1>6. e = [d EXCEPT !.mesh = m.arr, !.own = o.arr, !.rte = o.rte, !.out = out]
  BY <1>1, <1>2, <1>3, <1>5 DEF HandlePending
<1>7. /\ e.mesh = m.arr /\ e.own = o.arr /\ e.out = out
      /\ e.hist = d.hist /\ e.wptr = d.wptr /\ e.app = d.app /\ e.seq = d.seq /\ e.retry = d.retry
  BY <1>4, <1>6 DEF NodeFields
<1>8. AllWait(m.arr, MeshPend, w) /\ AllKnown(m.out, w)
  <2>1. PICK arr : arr = d.mesh
    OBVIOUS
  <2>2. AllHeld(arr, n, MeshPend) /\ m = PendingArray(d, arr, rcv, md) /\ AllWait(arr, MeshPend, w)
    BY <1>1, <1>4, <2>1
  <2> QED
    BY ONLY <1>4, <2>2, ArrayKnows
<1>9. AllWait(o.arr, OwnPend, w) /\ AllKnown(o.out, w)
  <2>1. PICK arr : arr = d.own
    OBVIOUS
  <2>2. AllHeld(arr, n, OwnPend) /\ o = PendingArray(a, arr, rcv, od) /\ AllWait(arr, OwnPend, w)
    BY <1>3, <1>4, <2>1
  <2> QED
    BY ONLY <1>4, <2>2, ArrayKnows
<1>10. AllKnown(out, w)
  <2>1. PICK q : q = d.out \o m.out
    OBVIOUS
  <2>2. AllKnown(q, w)
    BY <1>8, <2>1, BothKnown
  <2> QED
    BY <1>5, <1>9, <2>1, <2>2, BothKnown
<1> QED
  BY <1>7, <1>8, <1>9, <1>10 DEF NodeKnows

\* A packet that was changed on its way only.
LEMMA StillKnown ==
  ASSUME NEW p, NEW w, Known(p, w), NEW q, q.ns = p.ns, q.nd = p.nd, q.id = p.id, q.rem = p.rem
  PROVE  Known(q, w)
BY DEF Known

\* What a call leaves alone that does not receive anything.
SameMemory(c, d) == d.hist = c.hist /\ d.wptr = c.wptr /\ d.app = c.app /\ d.retry = c.retry

LEMMA AddKnows ==
  ASSUME NEW s, NEW n, DOMAIN s = NodeFields, AllHeld(s.mesh, n, MeshPend), AllHeld(s.own, n, OwnPend),
         NEW w, NodeKnows(s, w), NEW p, DOMAIN p = PacketFields, Known(p, w), p.nd # Broadcast,
         NEW k, NEW d, d = AddPending(s, p, k)
  PROVE  NodeKnows(d, w) /\ SameMemory(s, d) /\ d.out = s.out /\ d.seq = s.seq
<1>1. PICK held : held = [p EXCEPT !.rem = s.retry]
  OBVIOUS
<1>2. Known(held, w) /\ held.nd # Broadcast
  <2>1. held.ns = p.ns /\ held.nd = p.nd /\ held.id = p.id
    BY <1>1 DEF PacketFields
  <2> QED
    BY <2>1, SameKnown
<1>3. CASE p.ns = s.me
  <2>1. PICK o : o = PendingSlot(s.own, k)
    OBVIOUS
  <2>2. PICK own : own = [s.own EXCEPT ![o].pkt = held]
    OBVIOUS
  <2>3. d = [s EXCEPT !.own = own]
    BY <1>1, <1>3, <2>1, <2>2 DEF AddPending
  <2>4. /\ d.own = own /\ d.mesh = s.mesh /\ d.hist = s.hist /\ d.wptr = s.wptr /\ d.app = s.app
        /\ d.retry = s.retry /\ d.out = s.out /\ d.seq = s.seq
    BY <2>3 DEF NodeFields
  <2>5. ASSUME NEW i \in 1 .. OwnPend PROVE Waits(own[i], w)
    <3>1. DOMAIN s.own = 1 .. OwnPend /\ DOMAIN s.own[i] = {"pkt", "disc"} /\ Waits(s.own[i], w)
      BY DEF AllHeld, Held, NodeKnows, AllWait
    <3>2. CASE i = o
      <4>1. own[i] = [s.own[i] EXCEPT !.pkt = held]
        BY <2>2, <3>1, <3>2
      <4> QED
        BY <1>2, <3>1, <4>1, PutWaits
    <3>3. CASE i # o
      BY <2>2, <3>1, <3>3
    <3> QED
      BY <3>2, <3>3
  <2> QED
    BY <2>4, <2>5 DEF NodeKnows, AllWait, SameMemory
<1>4. CASE p.ns # s.me
  <2>1. PICK o : o = PendingSlot(s.mesh, k)
    OBVIOUS
  <2>2. PICK e : e = [pkt |-> held, disc |-> s.mesh[o].disc \/ p.md = Zero]
    OBVIOUS
  <2>3. PICK mesh : mesh = [s.mesh EXCEPT ![o] = e]
    OBVIOUS
  <2>4. d = [s EXCEPT !.mesh = mesh]
    BY <1>1, <1>4, <2>1, <2>2, <2>3 DEF AddPending
  <2>5. /\ d.own = s.own /\ d.mesh = mesh /\ d.hist = s.hist /\ d.wptr = s.wptr /\ d.app = s.app
        /\ d.retry = s.retry /\ d.out = s.out /\ d.seq = s.seq
    BY <2>4 DEF NodeFields
  <2>6. Waits(e, w)
    BY <1>2, <2>2 DEF Waits
  <2>7. ASSUME NEW i \in 1 .. MeshPend PROVE Waits(mesh[i], w)
    BY <2>3, <2>6 DEF AllHeld, NodeKnows, AllWait
  <2> QED
    BY <2>5, <2>7 DEF NodeKnows, AllWait, SameMemory
<1> QED
  BY <1>3, <1>4

LEMMA PassKnows ==
  ASSUME NEW c, NEW n, NEW near, NodeOK(c, n, near), c.out = << >>, NEW w, NodeKnows(c, w),
         NEW p, DOMAIN p = PacketFields, Known(p, w), NEW d, d = SendPacket(c, p)
  PROVE  /\ NodeKnows(d, w) /\ AllKnown(d.out, w) /\ SameMemory(c, d) /\ d.seq = c.seq
         /\ DOMAIN d = NodeFields /\ d.me = n /\ AllHeld(d.mesh, n, MeshPend) /\ AllHeld(d.own, n, OwnPend)
<1>1. PICK q : q = [p EXCEPT !.ms = c.me]
  OBVIOUS
<1>2. Known(q, w)
  <2>1. q.ns = p.ns /\ q.nd = p.nd /\ q.id = p.id /\ q.rem = p.rem
    BY <1>1 DEF PacketFields
  <2> QED
    BY <2>1, StillKnown
<1>3. DOMAIN c = NodeFields /\ c.me = n /\ AllHeld(c.mesh, n, MeshPend) /\ AllHeld(c.own, n, OwnPend)
  BY DEF NodeOK
<1>4. d = [c EXCEPT !.out = << q >>]
  BY <1>1, <1>3 DEF SendPacket, NodeFields
<1>5. /\ DOMAIN d = NodeFields /\ d.me = c.me /\ d.mesh = c.mesh /\ d.own = c.own /\ d.out = << q >>
      /\ d.hist = c.hist /\ d.wptr = c.wptr /\ d.app = c.app /\ d.retry = c.retry /\ d.seq = c.seq
  BY <1>3, <1>4 DEF NodeFields
<1> QED
  BY <1>2, <1>3, <1>5, OneKnown DEF NodeKnows, SameMemory

\* mesh_send(), in a world that knows the packet it forms.
LEMMA MeshSendKnows ==
  ASSUME NEW c, NEW n \in Node, NEW near, NodeOK(c, n, near), c.out = << >>, NEW w, NodeKnows(c, w),
         NEW dst, NEW type, NEW data, NEW maxhops, NEW k,
         dst \notin {Zero, n} => /\ NextSeq(c) \in 0 .. w.sq[n]
                                 /\ dst = Broadcast <=> <<n, NextSeq(c)>> \in w.b,
         NEW d, d = MeshSend(c, dst, type, data, maxhops, k)
  PROVE  NodeKnows(d, w) /\ AllKnown(d.out, w) /\ SameMemory(c, d)
<1>1. PICK p : p = FormPacket(c, dst, type, maxhops, data)
  OBVIOUS
<1>2. PICK f : f = FormEffect(c, dst)
  OBVIOUS
<1>3. DOMAIN c = NodeFields /\ c.me = n
  BY DEF NodeOK
<1>4. CASE dst \in {Zero, n}
  <2>1. d = c
    BY <1>3, <1>4 DEF MeshSend
  <2> QED
    BY <2>1, NoneKnown DEF SameMemory
<1>5. CASE dst \notin {Zero, n}
  <2>1. PICK nr : nr = NextSeq(c)
    OBVIOUS
  <2>2. DOMAIN p = PacketFields /\ p.ns = n /\ p.nd = dst /\ p.rem = c.retry
    BY ONLY <1>1, <1>3 DEF FormPacket, NoPkt, PacketFields
  <2>3. p.id = nr
    BY <1>1, <2>1 DEF FormPacket, NoPkt
  <2>4. dst = Broadcast => p.type = "nack"
    BY <1>1 DEF FormPacket, NoPkt
  <2>5. Known(p, w)
    BY <1>5, <2>1, <2>2, <2>3 DEF Known, NodeKnows
  <2>6. PICK t : t = IF FindRoute(c.rte, dst) = 0 THEN c.rte ELSE BumpScore(c.rte, FindRoute(c.rte, dst))
    OBVIOUS
  <2>7. f = [c EXCEPT !.seq = NextSeq(c), !.rte = t]
    BY <1>2, <2>6 DEF FormEffect
  <2>8. /\ DOMAIN f = NodeFields /\ f.me = n /\ f.mesh = c.mesh /\ f.own = c.own /\ f.out = << >>
        /\ f.hist = c.hist /\ f.wptr = c.wptr /\ f.app = c.app /\ f.retry = c.retry
    BY <1>3, <2>7 DEF NodeFields
  <2>9. NodeKnows(f, w)
    BY <2>8 DEF NodeKnows
  <2>10. PICK q : q = [p EXCEPT !.ms = f.me]
    OBVIOUS
  <2>11. Known(q, w)
    <3>1. q.ns = p.ns /\ q.nd = p.nd /\ q.id = p.id /\ q.rem = p.rem
      BY <2>2, <2>10 DEF PacketFields
    <3> QED
      BY <2>5, <3>1, StillKnown
  <2>12. PICK s : s = SendPacket(f, p)
    OBVIOUS
  <2>13. s = [f EXCEPT !.out = << q >>]
    BY <2>8, <2>10, <2>12 DEF SendPacket, NodeFields
  <2>14. /\ DOMAIN s = NodeFields /\ s.me = n /\ s.mesh = c.mesh /\ s.own = c.own /\ s.out = << q >>
         /\ s.hist = c.hist /\ s.wptr = c.wptr /\ s.app = c.app /\ s.retry = c.retry
    BY <2>8, <2>13 DEF NodeFields
  <2>15. NodeKnows(s, w) /\ AllKnown(s.out, w) /\ SameMemory(c, s)
    BY <2>11, <2>14, OneKnown DEF NodeKnows, SameMemory
  <2>16. AllHeld(s.mesh, n, MeshPend) /\ AllHeld(s.own, n, OwnPend)
    BY <2>14 DEF NodeOK
  <2>17. d = s \/ (p.type # "nack" /\ d = AddPending(s, p, k))
    BY <1>1, <1>2, <1>3, <1>5, <2>12 DEF MeshSend, SendFormed
  <2>18. CASE p.type # "nack" /\ d = AddPending(s, p, k)
    <3>1. p.nd # Broadcast
      BY <2>2, <2>4, <2>18
    <3>2. NodeKnows(d, w) /\ SameMemory(s, d) /\ d.out = s.out
      <4>1. DOMAIN s = NodeFields /\ DOMAIN p = PacketFields /\ NodeKnows(s, w) /\ d = AddPending(s, p, k)
        BY <2>2, <2>14, <2>15, <2>18
      <4>2. NodeKnows(d, w) /\ SameMemory(s, d) /\ d.out = s.out /\ d.seq = s.seq
        BY ONLY <2>5, <2>16, <3>1, <4>1, AddKnows
      <4> QED
        BY <4>2
    <3>3. SameMemory(c, d)
      <4>1. SameMemory(c, s) /\ SameMemory(s, d)
        BY <2>15, <3>2
      <4> QED
        BY ONLY <4>1 DEF SameMemory
    <3>4. AllKnown(d.out, w)
      BY <2>15, <3>2
    <3> QED
      BY <3>2, <3>3, <3>4
  <2> QED
    BY <2>15, <2>17, <2>18
<1> QED
  BY <1>4, <1>5

LEMMA MeshSendNumber ==
  ASSUME NEW c, NEW n, NEW near, NodeOK(c, n, near), NEW dst, NEW type, NEW data, NEW maxhops, NEW k,
         NEW d, d = MeshSend(c, dst, type, data, maxhops, k)
  PROVE  \/ dst \in {Zero, n} /\ d = c
         \/ dst \notin {Zero, n} /\ d.seq = NextSeq(c)
<1>1. PICK p : p = FormPacket(c, dst, type, maxhops, data)
  OBVIOUS
<1>2. PICK f : f = FormEffect(c, dst)
  OBVIOUS
<1>3. DOMAIN c = NodeFields /\ c.me = n
  BY DEF NodeOK
<1>4. CASE dst \in {Zero, n}
  BY <1>3, <1>4 DEF MeshSend
<1>5. CASE dst \notin {Zero, n}
  <2>1. PICK t : t = IF FindRoute(c.rte, dst) = 0 THEN c.rte ELSE BumpScore(c.rte, FindRoute(c.rte, dst))
    OBVIOUS
  <2>2. f = [c EXCEPT !.seq = NextSeq(c), !.rte = t]
    BY <1>2, <2>1 DEF FormEffect
  <2>3. DOMAIN f = NodeFields /\ f.seq = NextSeq(c)
    BY <1>3, <2>2 DEF NodeFields
  <2>4. PICK s : s = SendPacket(f, p)
    OBVIOUS
  <2>5. PICK out : s = [f EXCEPT !.out = out]
    BY <2>4 DEF SendPacket
  <2>6. DOMAIN s = NodeFields /\ s.seq = NextSeq(c)
    BY <2>3, <2>5 DEF NodeFields
  <2>7. d = s \/ d = AddPending(s, p, k)
    BY <1>1, <1>2, <1>3, <1>5, <2>4 DEF MeshSend, SendFormed
  <2>8. ASSUME d = AddPending(s, p, k) PROVE d.seq = s.seq
    <3>1. CASE p.ns = s.me
      <4>1. PICK own : d = [s EXCEPT !.own = own]
        BY <2>8, <3>1 DEF AddPending
      <4> QED
        BY <2>6, <4>1 DEF NodeFields
    <3>2. CASE p.ns # s.me
      <4>1. PICK mesh : d = [s EXCEPT !.mesh = mesh]
        BY <2>8, <3>2 DEF AddPending
      <4> QED
        BY <2>6, <4>1 DEF NodeFields
    <3> QED
      BY <3>1, <3>2
  <2> QED
    BY <1>5, <2>6, <2>7, <2>8
<1> QED
  BY <1>4, <1>5

-----------------------------------------------------------------------------
\* The history.
KeysKept(c, d) == d.wptr = c.wptr /\ \A i \in 1 .. HistSize : d.hist[i].src = c.hist[i].src /\ d.hist[i].id = c.hist[i].id

NewKey(c, d, p) ==
  /\ d.wptr # c.wptr /\ ~ HasKey(c.hist, p.ns, p.id)
  /\ d.hist[c.wptr].src = p.ns /\ d.hist[c.wptr].id = p.id
  /\ \A i \in 1 .. HistSize \ {c.wptr} : d.hist[i] = c.hist[i]

LEMMA SeenAtIs ==
  ASSUME NEW c, DOMAIN c.hist = 1 .. HistSize, NEW p
  PROVE  /\ IsDuplicate(c, p) => /\ SeenAt(c, p) \in 1 .. HistSize
                                 /\ c.hist[SeenAt(c, p)].src = p.ns /\ c.hist[SeenAt(c, p)].id = p.id
         /\ ~ IsDuplicate(c, p) => ~ HasKey(c.hist, p.ns, p.id)
<1>1. PICK Z : Z = {i \in DOMAIN c.hist : c.hist[i].src = p.ns /\ c.hist[i].id = p.id}
  OBVIOUS
<1>2. PICK at : at = SeenAt(c, p)
  OBVIOUS
<1>3. at = FirstOf(Z) /\ Z \in SUBSET (1 .. HistSize) /\ HistSize \in Nat
  BY <1>1, <1>2, MeshNodeAssumption DEF SeenAt
<1>4. CASE Z = {}
  <2>1. at = 0
    BY <1>3, <1>4 DEF FirstOf
  <2>2. ~ HasKey(c.hist, p.ns, p.id)
    BY <1>1, <1>4 DEF HasKey
  <2> QED
    BY <1>2, <2>1, <2>2 DEF IsDuplicate
<1>5. CASE Z # {}
  <2>1. Z \in SUBSET Nat
    BY <1>3
  <2>2. at \in Z
    BY <1>3, <1>5, <2>1, FirstOfIs
  <2>3. at \in 1 .. HistSize /\ at # 0 /\ c.hist[at].src = p.ns /\ c.hist[at].id = p.id
    BY <1>1, <1>3, <2>2
  <2> QED
    BY <1>2, <2>3 DEF IsDuplicate
<1> QED
  BY <1>4, <1>5

LEMMA HistoryKnows ==
  ASSUME NEW c, DOMAIN c = NodeFields, NEW w, NodeKnows(c, w), NEW p, Known(p, w),
         NEW h, h = HistoryAndRouting(c, p)
  PROVE  /\ NodeKnows(h, w) /\ h.app = c.app /\ h.retry = c.retry
         /\ IsDuplicate(c, p) => KeysKept(c, h)
         /\ ~ IsDuplicate(c, p) => NewKey(c, h, p)
<1>1. PICK g : g = HistoryOf(c, p)
  OBVIOUS
<1>2. PICK t : h = [g EXCEPT !.rte = t]
  BY <1>1 DEF HistoryAndRouting
<1>3. /\ c.wptr \in 1 .. HistSize /\ HistSize \in Nat /\ HistSize > 1
      /\ DOMAIN c.hist = 1 .. HistSize
      /\ \A i \in 1 .. HistSize : DOMAIN c.hist[i] = {"src", "id", "rem"} /\ Seen(c.hist[i], w)
  BY MeshNodeAssumption DEF NodeKnows, HistOK
<1>4. CASE IsDuplicate(c, p)
  <2>1. PICK at : at = SeenAt(c, p)
    OBVIOUS
  <2>2. at \in 1 .. HistSize /\ c.hist[at].src = p.ns /\ c.hist[at].id = p.id
    BY <1>3, <1>4, <2>1, SeenAtIs
  <2>3. PICK hist : hist = [c.hist EXCEPT ![at].rem = p.rem]
    OBVIOUS
  <2>4. g = [c EXCEPT !.hist = hist]
    BY <1>1, <1>4, <2>1, <2>3 DEF HistoryOf
  <2>5. /\ h.hist = hist /\ h.wptr = c.wptr /\ h.app = c.app /\ h.retry = c.retry
        /\ h.mesh = c.mesh /\ h.own = c.own
    BY <1>2, <2>4 DEF NodeFields
  <2>6. ASSUME NEW i \in 1 .. HistSize
        PROVE  /\ DOMAIN hist[i] = {"src", "id", "rem"} /\ Seen(hist[i], w)
               /\ hist[i].src = c.hist[i].src /\ hist[i].id = c.hist[i].id
    <3>1. CASE i # at
      BY <1>3, <2>3, <3>1
    <3>2. CASE i = at
      <4>1. PICK x : x = c.hist[i]
        OBVIOUS
      <4>2. PICK y : y = hist[i]
        OBVIOUS
      <4>3. y = [x EXCEPT !.rem = p.rem] /\ DOMAIN x = {"src", "id", "rem"} /\ Seen(x, w)
        BY <1>3, <2>3, <3>2, <4>1, <4>2
      <4>4. DOMAIN y = {"src", "id", "rem"} /\ y.src = x.src /\ y.id = x.id /\ y.rem = p.rem
        BY <4>3
      <4>5. x.src = p.ns /\ x.id = p.id
        BY <2>2, <3>2, <4>1
      <4>6. Seen(y, w)
        BY <4>3, <4>4, <4>5 DEF Seen, Known
      <4> QED
        BY <4>1, <4>2, <4>4, <4>6
    <3> QED
      BY <3>1, <3>2
  <2>7. DOMAIN hist = 1 .. HistSize
    BY <1>3, <2>3
  <2>8. HistOK(h.hist, w)
    BY <2>5, <2>6, <2>7 DEF HistOK
  <2>9. KeysKept(c, h)
    BY <2>5, <2>6 DEF KeysKept
  <2> QED
    BY <1>4, <2>5, <2>8, <2>9 DEF NodeKnows
<1>5. CASE ~ IsDuplicate(c, p)
  <2>1. PICK x : x = [src |-> p.ns, id |-> p.id, rem |-> p.rem]
    OBVIOUS
  <2>2. PICK hist : hist = [c.hist EXCEPT ![c.wptr] = x]
    OBVIOUS
  <2>3. PICK next : next = IF c.wptr = HistSize THEN 1 ELSE c.wptr + 1
    OBVIOUS
  <2>4. g = [c EXCEPT !.hist = hist, !.wptr = next]
    BY <1>1, <1>5, <2>1, <2>2, <2>3 DEF HistoryOf
  <2>5. /\ h.hist = hist /\ h.wptr = next /\ h.app = c.app /\ h.retry = c.retry
        /\ h.mesh = c.mesh /\ h.own = c.own
    BY <1>2, <2>4 DEF NodeFields
  <2>6. next \in 1 .. HistSize /\ next # c.wptr
    BY <1>3, <2>3
  <2>7. DOMAIN x = {"src", "id", "rem"} /\ Seen(x, w) /\ x.src = p.ns /\ x.id = p.id
    BY <2>1 DEF Seen, Known
  <2>8. DOMAIN hist = 1 .. HistSize /\ hist[c.wptr] = x /\ \A i \in 1 .. HistSize \ {c.wptr} : hist[i] = c.hist[i]
    BY <1>3, <2>2
  <2>9. HistOK(h.hist, w)
    BY <1>3, <2>5, <2>7, <2>8 DEF HistOK
  <2>10. ~ HasKey(c.hist, p.ns, p.id)
    BY <1>3, <1>5, SeenAtIs
  <2>11. NewKey(c, h, p)
    BY <2>5, <2>6, <2>7, <2>8, <2>10 DEF NewKey
  <2> QED
    BY <1>5, <2>5, <2>6, <2>9, <2>11 DEF NodeKnows
<1> QED
  BY <1>4, <1>5


\* What a call on a packet p does to the history and hands to the application.
Told(c, d, p) ==
  \/ KeysKept(c, d) /\ d.app = << >>
  \/ NewKey(c, d, p) /\ p.ns \in Node /\ d.app \in {<< >>, << p >>}

LEMMA ToldAfter ==
  ASSUME NEW c, NEW b, NEW p, Told(c, b, p), NEW d, d.hist = b.hist, d.wptr = b.wptr, d.app = b.app
  PROVE  Told(c, d, p)
BY DEF Told, KeysKept, NewKey

LEMMA NothingTold == ASSUME NEW c, NEW d, d.hist = c.hist, d.wptr = c.wptr, d.app = << >>, NEW p PROVE Told(c, d, p)
BY DEF Told, KeysKept

\* A packet that is passed on, or kept until its destination has a route.
LEMMA MeshPacketKnows ==
  ASSUME NEW h, NEW n, NEW near, NodeOK(h, n, near), h.out = << >>, NEW w, NodeKnows(h, w),
         NEW p, DOMAIN p = PacketFields, Known(p, w), p.nd # Broadcast, NEW k, NEW rc, rc = HandleMeshPacket(h, p, k),
         NEW d, d = rc.node
  PROVE  NodeKnows(d, w) /\ AllKnown(d.out, w) /\ SameMemory(h, d)
<1>1. PICK next : next = IF FindRoute(h.rte, p.nd) = 0 THEN Zero ELSE h.rte[FindRoute(h.rte, p.nd)].next
  OBVIOUS
<1>2. PICK hopped : hopped = [p EXCEPT !.hop = @ + 1]
  OBVIOUS
<1>3. PICK onward : onward = [hopped EXCEPT !.md = next, !.ms = h.me]
  OBVIOUS
<1>4. /\ DOMAIN hopped = PacketFields
      /\ hopped.ns = p.ns /\ hopped.nd = p.nd /\ hopped.id = p.id /\ hopped.rem = p.rem
  BY <1>2 DEF PacketFields
<1>5. /\ DOMAIN onward = PacketFields
      /\ onward.ns = p.ns /\ onward.nd = p.nd /\ onward.id = p.id /\ onward.rem = p.rem
  BY <1>3, <1>4 DEF PacketFields
<1>6. Known(hopped, w) /\ hopped.nd # Broadcast
  BY <1>4, StillKnown
<1>7. Known(onward, w) /\ onward.nd # Broadcast
  BY <1>5, StillKnown
<1>8. PICK s : s = SendPacket(h, onward)
  OBVIOUS
<1>9. /\ NodeKnows(s, w) /\ AllKnown(s.out, w) /\ SameMemory(h, s)
      /\ DOMAIN s = NodeFields /\ AllHeld(s.mesh, n, MeshPend) /\ AllHeld(s.own, n, OwnPend)
  <2>1. /\ NodeKnows(s, w) /\ AllKnown(s.out, w) /\ SameMemory(h, s) /\ s.seq = h.seq
        /\ DOMAIN s = NodeFields /\ s.me = n /\ AllHeld(s.mesh, n, MeshPend) /\ AllHeld(s.own, n, OwnPend)
    BY ONLY NodeOK(h, n, near), h.out = << >>, NodeKnows(h, w), <1>5, <1>7, <1>8, PassKnows
  <2> QED
    BY <2>1
<1>10. DOMAIN h = NodeFields /\ AllHeld(h.mesh, n, MeshPend) /\ AllHeld(h.own, n, OwnPend)
  BY DEF NodeOK
<1>11. \/ d = AddPending(h, hopped, k)
       \/ d = h
       \/ d = AddPending(s, onward, k)
       \/ d = s
  BY <1>1, <1>2, <1>3, <1>8 DEF HandleMeshPacket
<1>12. CASE d = AddPending(h, hopped, k)
  <2>1. NodeKnows(d, w) /\ SameMemory(h, d) /\ d.out = h.out /\ d.seq = h.seq
    BY ONLY NodeKnows(h, w), <1>4, <1>6, <1>10, <1>12, AddKnows
  <2> QED
    BY <2>1, NoneKnown
<1>13. CASE d = h
  BY <1>13, NoneKnown DEF SameMemory
<1>14. CASE d = AddPending(s, onward, k)
  <2>1. NodeKnows(d, w) /\ SameMemory(s, d) /\ d.out = s.out /\ d.seq = s.seq
    BY ONLY <1>5, <1>7, <1>9, <1>14, AddKnows
  <2>2. SameMemory(h, d)
    <3>1. SameMemory(h, s) /\ SameMemory(s, d)
      BY <1>9, <2>1
    <3> QED
      BY ONLY <3>1 DEF SameMemory
  <2> QED
    BY <1>9, <2>1, <2>2
<1>15. CASE d = s
  BY <1>9, <1>15
<1> QED
  BY <1>11, <1>12, <1>13, <1>14, <1>15

\* No copy of a broadcast looks like a retry.
LEMMA BroadcastOnce ==
  ASSUME NEW c, NEW w, NodeKnows(c, w), NEW p, Known(p, w), p.nd = Broadcast, ~ (IsDuplicate(c, p) /\ ~ IsRetry(c, p))
  PROVE  ~ IsDuplicate(c, p)
<1>1. SUFFICES ASSUME IsDuplicate(c, p) PROVE FALSE
  OBVIOUS
<1>2. PICK at : at = SeenAt(c, p)
  OBVIOUS
<1>3. DOMAIN c.hist = 1 .. HistSize /\ \A i \in 1 .. HistSize : Seen(c.hist[i], w)
  BY DEF NodeKnows, HistOK
<1>4. at \in 1 .. HistSize /\ c.hist[at].src = p.ns /\ c.hist[at].id = p.id
  BY <1>1, <1>2, <1>3, SeenAtIs
<1>5. PICK x : x = c.hist[at]
  OBVIOUS
<1>6. Seen(x, w) /\ x.src = p.ns /\ x.id = p.id
  BY <1>3, <1>4, <1>5
<1>7. p.ns # Zero
  BY MeshAssumption DEF Known
<1>8. x.rem = p.rem
  BY <1>6, <1>7 DEF Seen, Known
<1>9. ~ IsRetry(c, p)
  BY <1>2, <1>5, <1>8 DEF IsRetry
<1> QED
  BY <1>1, <1>9

\* The first half of mesh_service(), with a packet.
LEMMA ReceivedKnows ==
  ASSUME NEW c, NEW n \in Node, NEW near, NodeOK(c, n, near), c.out = << >>, c.app = << >>, NEW w, NodeKnows(c, w),
         NEW p, Comes(p, near), Known(p, w), NEW k, NEW rc, rc = Received(c, p, k), NEW d, d = rc.node,
         d.seq = NextSeq(c) => NextSeq(c) \in 0 .. w.sq[n] /\ <<n, NextSeq(c)>> \notin w.b
  PROVE  NodeKnows(d, w) /\ AllKnown(d.out, w) /\ Told(c, d, p)
<1>1. PICK h : h = HistoryAndRouting(c, p)
  OBVIOUS
<1>2. c.me = n /\ DOMAIN c = NodeFields
  BY DEF NodeOK
<1>3. p.ns \in Node /\ DOMAIN p = PacketFields
  BY DEF Known, Comes
<1>4. CASE ~ p.ver \/ p.ms = c.me
  <2>1. d = c
    BY <1>4 DEF Received
  <2> QED
    BY <2>1, NoneKnown, NothingTold
<1>5. CASE p.ver /\ p.ms # n
  <2>1. NodeOK(h, n, near) /\ h.out = << >> /\ h.seq = c.seq
    BY <1>1, <1>5, HistoryAndRoutingIs
  <2>2. NodeKnows(h, w) /\ h.app = << >> /\ Told(c, h, p)
    <3>1. /\ NodeKnows(h, w) /\ h.app = c.app /\ h.retry = c.retry
          /\ IsDuplicate(c, p) => KeysKept(c, h)
          /\ ~ IsDuplicate(c, p) => NewKey(c, h, p)
      BY <1>1, <1>2, HistoryKnows
    <3> QED
      BY <1>3, <3>1 DEF Told
  <2>3. ~ IsDuplicate(c, p) => NewKey(c, h, p)
    BY <1>1, <1>2, HistoryKnows
  <2>4. PICK a : a = [h EXCEPT !.app = Append(@, p)]
    OBVIOUS
  <2>5. /\ NodeOK(a, n, near) /\ a.out = << >> /\ a.seq = c.seq /\ NodeKnows(a, w)
        /\ ~ IsDuplicate(c, p) => Told(c, a, p)
    <3>1. NodeOK(a, n, near)
      BY <2>1, <2>4, ToApplicationIs
    <3>2. /\ a.out = h.out /\ a.seq = h.seq /\ a.hist = h.hist /\ a.wptr = h.wptr /\ a.retry = h.retry
          /\ a.mesh = h.mesh /\ a.own = h.own
      BY <2>1, <2>4 DEF NodeOK, NodeFields
    <3>3. a.app = << p >>
      BY <2>1, <2>2, <2>4 DEF NodeOK, NodeFields
    <3>4. NodeKnows(a, w)
      BY <2>2, <3>2 DEF NodeKnows
    <3>5. ASSUME ~ IsDuplicate(c, p) PROVE Told(c, a, p)
      <4>1. NewKey(c, a, p)
        BY <2>3, <3>2, <3>5 DEF NewKey
      <4> QED
        BY <1>3, <3>3, <4>1 DEF Told
    <3> QED
      BY <2>1, <3>1, <3>2, <3>4, <3>5
  <2>6. \/ d = h
        \/ p.nd = Broadcast /\ ~ (IsDuplicate(c, p) /\ ~ IsRetry(c, p)) /\ d = HandleBroadcast(h, p)
        \/ p.ns # n /\ d = HandleOurPacket(h, p, IsDuplicate(c, p), k)
        \/ p.nd # Broadcast /\ rc = HandleMeshPacket(h, p, k)
    BY <1>1, <1>2, <1>5 DEF Received
  <2>7. CASE d = h
    BY <2>1, <2>2, <2>7, NoneKnown
  <2>8. CASE p.nd = Broadcast /\ ~ (IsDuplicate(c, p) /\ ~ IsRetry(c, p)) /\ d = HandleBroadcast(h, p)
    <3>1. ~ IsDuplicate(c, p)
      BY <2>8, BroadcastOnce
    <3>2. PICK hopped : hopped = [p EXCEPT !.hop = @ + 1]
      OBVIOUS
    <3>3. DOMAIN hopped = PacketFields /\ Known(hopped, w)
      <4>1. /\ DOMAIN hopped = PacketFields
            /\ hopped.ns = p.ns /\ hopped.nd = p.nd /\ hopped.id = p.id /\ hopped.rem = p.rem
        BY <1>3, <3>2 DEF PacketFields
      <4> QED
        BY <4>1, StillKnown
    <3>4. d = a \/ d = SendPacket(a, hopped)
      BY <2>4, <2>8, <3>2 DEF HandleBroadcast
    <3>5. CASE d = a
      BY <2>5, <3>1, <3>5, NoneKnown
    <3>6. CASE d = SendPacket(a, hopped)
      <4>1. /\ NodeKnows(d, w) /\ AllKnown(d.out, w) /\ SameMemory(a, d) /\ d.seq = a.seq
            /\ DOMAIN d = NodeFields /\ d.me = n /\ AllHeld(d.mesh, n, MeshPend) /\ AllHeld(d.own, n, OwnPend)
        BY ONLY <2>5, <3>3, <3>6, PassKnows
      <4>2. Told(c, a, p) /\ d.hist = a.hist /\ d.wptr = a.wptr /\ d.app = a.app
        BY <2>5, <3>1, <4>1 DEF SameMemory
      <4>3. Told(c, d, p)
        BY ONLY <4>2, ToldAfter
      <4> QED
        BY <4>1, <4>3
    <3> QED
      BY <3>4, <3>5, <3>6
  <2>9. CASE p.ns # n /\ d = HandleOurPacket(h, p, IsDuplicate(c, p), k)
    <3>1. PICK b : b = IF ~ IsDuplicate(c, p) /\ p.data THEN a ELSE h
      OBVIOUS
    <3>2. NodeOK(b, n, near) /\ b.out = << >> /\ b.seq = c.seq /\ NodeKnows(b, w) /\ Told(c, b, p)
      BY <2>1, <2>2, <2>5, <3>1
    <3>3. d = b \/ d = SendAck(b, p, TRUE, k) \/ d = SendAck(b, p, FALSE, k)
      BY <2>4, <2>9, <3>1 DEF HandleOurPacket
    <3>4. ASSUME NEW type, NEW data, NEW hops, d = MeshSend(b, p.ns, type, data, hops, k)
          PROVE  NodeKnows(d, w) /\ AllKnown(d.out, w) /\ Told(c, d, p)
      <4>1. PICK dst : dst = p.ns
        OBVIOUS
      <4>2. d = MeshSend(b, dst, type, data, hops, k)
        BY <3>4, <4>1
      <4>3. dst # Zero /\ dst # Broadcast /\ dst # n
        BY <1>3, <2>9, <4>1, MeshAssumption
      <4>4. d.seq = NextSeq(b)
        <5>1. \/ dst \in {Zero, n} /\ d = b
              \/ dst \notin {Zero, n} /\ d.seq = NextSeq(b)
          BY ONLY <3>2, <4>2, MeshSendNumber
        <5> QED
          BY <4>3, <5>1
      <4>5. NextSeq(b) = NextSeq(c)
        BY <3>2 DEF NextSeq
      <4>6. dst \notin {Zero, n} => /\ NextSeq(b) \in 0 .. w.sq[n]
                                    /\ dst = Broadcast <=> <<n, NextSeq(b)>> \in w.b
        BY <4>3, <4>4, <4>5
      <4>7. NodeKnows(d, w) /\ AllKnown(d.out, w) /\ SameMemory(b, d)
        BY ONLY n \in Node, <3>2, <4>2, <4>6, MeshSendKnows
      <4>8. Told(c, b, p) /\ d.hist = b.hist /\ d.wptr = b.wptr /\ d.app = b.app
        BY <3>2, <4>7 DEF SameMemory
      <4>9. Told(c, d, p)
        BY ONLY <4>8, ToldAfter
      <4> QED
        BY <4>7, <4>9
    <3>5. CASE d = b
      BY <3>2, <3>5, NoneKnown
    <3>6. CASE d = SendAck(b, p, TRUE, k)
      <4>1. PICK type, data, hops : type = "ack_rsp" /\ data = TRUE /\ hops = p.max
        OBVIOUS
      <4>2. d = MeshSend(b, p.ns, type, data, hops, k)
        BY <3>6, <4>1 DEF SendAck
      <4> QED
        BY <3>4, <4>2
    <3>7. CASE d = SendAck(b, p, FALSE, k)
      <4>1. PICK type, data, hops : type = "ack_rsp" /\ data = FALSE /\ hops = p.max
        OBVIOUS
      <4>2. d = MeshSend(b, p.ns, type, data, hops, k)
        BY <3>7, <4>1 DEF SendAck
      <4> QED
        BY <3>4, <4>2
    <3> QED
      BY <3>3, <3>5, <3>6, <3>7
  <2>10. CASE p.nd # Broadcast /\ rc = HandleMeshPacket(h, p, k)
    <3>1. NodeKnows(d, w) /\ AllKnown(d.out, w) /\ SameMemory(h, d)
      BY <1>3, <2>1, <2>2, <2>10, MeshPacketKnows
    <3>2. Told(c, h, p) /\ d.hist = h.hist /\ d.wptr = h.wptr /\ d.app = h.app
      BY <2>2, <3>1 DEF SameMemory
    <3>3. Told(c, d, p)
      BY ONLY <3>2, ToldAfter
    <3> QED
      BY <3>1, <3>3
  <2> QED
    BY <2>6, <2>7, <2>8, <2>9, <2>10
<1> QED
  BY <1>2, <1>4, <1>5

-----------------------------------------------------------------------------
(***************************************************************************)
(* The deliveries of a network.                                            *)
(***************************************************************************)
\* A later world: more packets, the ones before as they were.
Grows(w, v) ==
  /\ v.r = w.r
  /\ \A m \in Node : w.sq[m] \in Nat /\ v.sq[m] \in Nat /\ w.sq[m] <= v.sq[m]
  /\ \A m \in Node : \A i \in 0 .. w.sq[m] : <<m, i>> \in v.b <=> <<m, i>> \in w.b

LEMMA KnownLater == ASSUME NEW w, NEW v, Grows(w, v), NEW p, Known(p, w) PROVE Known(p, v)
<1>1. PICK m, i : m = p.ns /\ i = p.id
  OBVIOUS
<1>2. m \in Node /\ i \in 0 .. w.sq[m] /\ (p.nd = Broadcast <=> <<m, i>> \in w.b) /\ (p.nd = Broadcast => p.rem = w.r)
  BY <1>1 DEF Known
<1>3. i \in 0 .. v.sq[m] /\ (<<m, i>> \in v.b <=> <<m, i>> \in w.b) /\ v.r = w.r
  BY <1>2 DEF Grows
<1> QED
  BY <1>1, <1>2, <1>3 DEF Known

LEMMA SeenLater == ASSUME NEW w, NEW v, Grows(w, v), NEW h, Seen(h, w) PROVE Seen(h, v)
<1>1. PICK m, i : m = h.src /\ i = h.id
  OBVIOUS
<1>2. CASE m = Zero
  BY <1>1, <1>2 DEF Seen
<1>3. CASE m # Zero
  <2>1. m \in Node /\ i \in 0 .. w.sq[m] /\ (<<m, i>> \in w.b => h.rem = w.r)
    BY <1>1, <1>3 DEF Seen
  <2>2. i \in 0 .. v.sq[m] /\ (<<m, i>> \in v.b <=> <<m, i>> \in w.b) /\ v.r = w.r
    BY <2>1 DEF Grows
  <2> QED
    BY <1>1, <2>1, <2>2 DEF Seen
<1> QED
  BY <1>2, <1>3

LEMMA AllKnownLater == ASSUME NEW w, NEW v, Grows(w, v), NEW q, AllKnown(q, w) PROVE AllKnown(q, v)
BY KnownLater DEF AllKnown

LEMMA NodeLater == ASSUME NEW w, NEW v, Grows(w, v), NEW c, NodeKnows(c, w) PROVE NodeKnows(c, v)
<1>1. c.retry = v.r /\ c.wptr \in 1 .. HistSize
  BY DEF NodeKnows, Grows
<1>2. ASSUME NEW e, Waits(e, w) PROVE Waits(e, v)
  BY <1>2, KnownLater DEF Waits
<1>3. AllWait(c.mesh, MeshPend, v) /\ AllWait(c.own, OwnPend, v)
  BY <1>2 DEF NodeKnows, AllWait
<1>4. HistOK(c.hist, v)
  BY SeenLater DEF NodeKnows, HistOK
<1> QED
  BY <1>1, <1>3, <1>4 DEF NodeKnows

\* What an application was given: each packet once, and the history has them all.
HeardOnce(q, hist) ==
  /\ \E Z : q \in Seq(Z)
  /\ \A i \in 1 .. Len(q) : q[i].ns \in Node /\ HasKey(hist, q[i].ns, q[i].id)
  /\ \A i, j \in 1 .. Len(q) : q[i].ns = q[j].ns /\ q[i].id = q[j].id => i = j

\* A node with the history of c has made room by forgetting nothing.
LEMMA HeardMore ==
  ASSUME NEW c, NEW d, NEW p, Told(c, d, p), d.wptr # c.wptr => c.hist[c.wptr] = NoHist,
         NEW q, HeardOnce(q, c.hist), NEW r, r = q \o d.app, c.wptr \in 1 .. HistSize
  PROVE  HeardOnce(r, d.hist)
<1>1. PICK Z : q \in Seq(Z)
  BY DEF HeardOnce
<1>2. CASE KeysKept(c, d) /\ d.app = << >>
  <2>1. r = q
    BY <1>1, <1>2
  <2>2. ASSUME NEW s, NEW i, HasKey(c.hist, s, i) PROVE HasKey(d.hist, s, i)
    BY <1>2, <2>2 DEF HasKey, KeysKept
  <2> QED
    BY <2>1, <2>2 DEF HeardOnce
<1>3. CASE NewKey(c, d, p) /\ p.ns \in Node /\ d.app \in {<< >>, << p >>}
  <2>1. c.hist[c.wptr].src = Zero
    BY <1>3 DEF NewKey, NoHist
  <2>2. ASSUME NEW s \in Node, NEW i, HasKey(c.hist, s, i) PROVE HasKey(d.hist, s, i)
    <3>1. PICK j \in 1 .. HistSize : c.hist[j].src = s /\ c.hist[j].id = i
      BY <2>2 DEF HasKey
    <3>2. j # c.wptr
      BY <2>1, <3>1, MeshAssumption
    <3>3. d.hist[j] = c.hist[j]
      BY <1>3, <3>2 DEF NewKey
    <3> QED
      BY <3>1, <3>3 DEF HasKey
  <2>3. HasKey(d.hist, p.ns, p.id)
    BY <1>3 DEF NewKey, HasKey
  <2>4. HeardOnce(q, d.hist)
    BY <2>2 DEF HeardOnce
  <2>5. CASE d.app = << >>
    <3>1. r = q
      BY <1>1, <2>5
    <3> QED
      BY <2>4, <3>1
  <2>6. CASE d.app = << p >>
    <3>1. q \in Seq(Z \cup {p})
      BY <1>1
    <3>2. /\ r \in Seq(Z \cup {p}) /\ Len(q) \in Nat /\ Len(r) = Len(q) + 1
          /\ r[Len(r)] = p /\ \A i \in 1 .. Len(q) : r[i] = q[i]
      BY <2>6, <3>1
    <3>3. ASSUME NEW i \in 1 .. Len(r) PROVE i \in 1 .. Len(q) \/ i = Len(r)
      BY <3>2
    <3>4. ASSUME NEW i \in 1 .. Len(r) PROVE r[i].ns \in Node /\ HasKey(d.hist, r[i].ns, r[i].id)
      <4>1. CASE i \in 1 .. Len(q)
        BY <2>4, <3>2, <4>1 DEF HeardOnce
      <4>2. CASE i = Len(r)
        BY <1>3, <2>3, <3>2, <4>2
      <4> QED
        BY <3>3, <4>1, <4>2
    <3>5. ASSUME NEW i \in 1 .. Len(q) PROVE ~ (q[i].ns = p.ns /\ q[i].id = p.id)
      BY <1>3 DEF HeardOnce, NewKey
    <3>6. ASSUME NEW i \in 1 .. Len(r), NEW j \in 1 .. Len(r), r[i].ns = r[j].ns /\ r[i].id = r[j].id PROVE i = j
      <4>1. CASE i \in 1 .. Len(q) /\ j \in 1 .. Len(q)
        BY <3>2, <3>6, <4>1 DEF HeardOnce
      <4>2. CASE i \in 1 .. Len(q) /\ j = Len(r)
        BY <3>2, <3>5, <3>6, <4>2
      <4>3. CASE i = Len(r) /\ j \in 1 .. Len(q)
        BY <3>2, <3>5, <3>6, <4>3
      <4>4. CASE i = Len(r) /\ j = Len(r)
        BY <4>4
      <4> QED
        BY <3>3, <4>1, <4>2, <4>3, <4>4
    <3> QED
      BY <3>2, <3>4, <3>6 DEF HeardOnce
  <2> QED
    BY <1>3, <2>5, <2>6
<1> QED
  BY <1>2, <1>3 DEF Told

\* The world w of a network: its packets, its nodes and what they have heard.
AllIs(w, r, nodes, ff, hd) ==
  /\ w.r = r /\ DOMAIN nodes = Node /\ DOMAIN hd = Node
  /\ \A m \in Node : /\ w.sq[m] = nodes[m].seq /\ nodes[m].seq \in 0 .. SeqRange - 1
                     /\ nodes[m].app = << >> /\ NodeKnows(nodes[m], w)
                     /\ AllKnown(ff[m], w)
                     /\ HeardOnce(hd[m], nodes[m].hist)
  /\ \A m \in Node : \A i \in Nat : <<m, i>> \in w.b => i <= w.sq[m]

\* The inductive invariant, with SendInv.
DeliverInv == \E w : AllIs(w, net.retries, node, fifo, heard)

\* A node comes round to the number 0 again, or overwrites an entry of its history.
Forgets ==
  \E n \in Node :
     \/ node'[n].seq < node[n].seq
     \/ node'[n].wptr # node[n].wptr /\ node[n].hist[node[n].wptr] # NoHist

LEMMA OneHigher ==
  ASSUME NEW m \in Nat, m > 1, NEW x \in 0 .. m - 1, NEW y, y = (x + 1) % m, ~ (y < x)
  PROVE  y = x + 1 /\ y \in 0 .. m - 1
<1>1. CASE x + 1 = m
  <2>1. y = 0
    BY <1>1, SMTT(30)
  <2> QED
    BY <1>1, <2>1
<1>2. CASE x + 1 < m
  BY <1>2, SMTT(30)
<1> QED
  BY <1>1, <1>2

LEMMA ArrivingKnown ==
  ASSUME NEW out, NEW w, AllKnown(out, w), NEW m, NEW got, NEW q, q = Arriving(m, out, got)
  PROVE  AllKnown(q, w)
BY ArrivingElements DEF AllKnown

LEMMA OfferKnown ==
  ASSUME NEW q, NEW new, NEW w, AllKnown(q, w), AllKnown(new, w), NEW r, r = Offer(q, new)
  PROVE  AllKnown(r, w)
<1>1. PICK Y : q \in Seq(Y) /\ \A p \in Y : Known(p, w)
  BY DEF AllKnown
<1>2. PICK Z : new \in Seq(Z) /\ \A p \in Z : Known(p, w)
  BY DEF AllKnown
<1>3. PICK X : X = Y \cup Z
  OBVIOUS
<1>4. q \in Seq(X) /\ new \in Seq(X) /\ \A p \in X : Known(p, w)
  BY <1>1, <1>2, <1>3
<1>5. r \in Seq(X)
  BY <1>4, OfferElements
<1> QED
  BY <1>4, <1>5 DEF AllKnown

\* The numbers of a call that does not come round.
LEMMA Numbered ==
  ASSUME NEW n \in Node, NEW e, NEW rest, Commit(n, e, rest), ~ Forgets, NEW c, c = node[n], DOMAIN node = Node,
         NodeOK(e, n, Node)
  PROVE  ~ (e.seq < c.seq) /\ (e.wptr # c.wptr => c.hist[c.wptr] = NoHist)
<1>1. PICK g : g = Done(e)
  OBVIOUS
<1>2. g.seq = e.seq /\ g.wptr = e.wptr
  BY <1>1 DEF Done, NodeOK, NodeFields
<1>3. node'[n] = g
  BY <1>1 DEF Commit
<1> QED
  BY <1>2, <1>3 DEF Forgets

\* The numbers of all nodes but n are those of their last packets.
Numbers(v, n) ==
  /\ \A m \in Node : m # n => v.sq[m] = node[m].seq
  /\ \A m \in Node : \A i \in Nat : <<m, i>> \in v.b => i <= v.sq[m]

LEMMA CommitDelivers ==
  ASSUME NEW w, AllIs(w, net.retries, node, fifo, heard), NEW n \in Node, NEW c, c = node[n],
         NEW v, Grows(w, v), Numbers(v, n),
         NEW e, NodeOK(e, n, Node), NodeKnows(e, v), AllKnown(e.out, v),
         e.seq = v.sq[n], e.seq \in 0 .. SeqRange - 1,
         NEW p, Told(c, e, p), e.wptr # c.wptr => c.hist[c.wptr] = NoHist,
         NEW rest, AllKnown(rest, v), Commit(n, e, rest)
  PROVE  AllIs(v, net'.retries, node', fifo', heard')
<1>1. PICK got : /\ net' = net
                 /\ node' = [node EXCEPT ![n] = Done(e)]
                 /\ fifo' = [m \in Node |-> Offer(IF m = n THEN rest ELSE fifo[m], Arriving(m, e.out, got))]
                 /\ heard' = [heard EXCEPT ![n] = @ \o e.app]
  BY DEF Commit
<1>2. /\ w.r = net.retries /\ DOMAIN node = Node /\ DOMAIN heard = Node
      /\ \A m \in Node : /\ w.sq[m] = node[m].seq /\ node[m].seq \in 0 .. SeqRange - 1
                         /\ node[m].app = << >> /\ NodeKnows(node[m], w)
                         /\ AllKnown(fifo[m], w) /\ HeardOnce(heard[m], node[m].hist)
  BY DEF AllIs
<1>3. PICK g : g = Done(e)
  OBVIOUS
<1>4. /\ g.seq = e.seq /\ g.app = << >> /\ g.hist = e.hist /\ g.wptr = e.wptr /\ g.retry = e.retry
      /\ g.mesh = e.mesh /\ g.own = e.own
  BY <1>3 DEF Done, NodeOK, NodeFields
<1>5. NodeKnows(g, v)
  BY <1>4 DEF NodeKnows
<1>6. PICK r : r = heard[n] \o e.app
  OBVIOUS
<1>7. HeardOnce(r, g.hist)
  <2>1. PICK q : q = heard[n]
    OBVIOUS
  <2>2. HeardOnce(q, c.hist) /\ c.wptr \in 1 .. HistSize /\ r = q \o e.app
    BY <1>2, <1>6, <2>1 DEF NodeKnows
  <2>3. HeardOnce(r, e.hist)
    BY ONLY <2>2, Told(c, e, p), e.wptr # c.wptr => c.hist[c.wptr] = NoHist, HeardMore
  <2> QED
    BY <1>4, <2>3
<1>8. ASSUME NEW m \in Node PROVE AllKnown(fifo'[m], v)
  <2>1. PICK q : q = Arriving(m, e.out, got)
    OBVIOUS
  <2>2. AllKnown(q, v)
    BY <2>1, ArrivingKnown
  <2>3. PICK b : b = IF m = n THEN rest ELSE fifo[m]
    OBVIOUS
  <2>4. AllKnown(fifo[m], v)
    BY <1>2, AllKnownLater
  <2>5. AllKnown(b, v)
    BY <2>3, <2>4
  <2>6. fifo'[m] = Offer(b, q)
    BY <1>1, <2>1, <2>3
  <2> QED
    BY <2>2, <2>5, <2>6, OfferKnown
<1>9. node' = [node EXCEPT ![n] = g] /\ heard' = [heard EXCEPT ![n] = r]
  BY <1>1, <1>3, <1>6
<1>10. DOMAIN node' = Node /\ DOMAIN heard' = Node /\ v.r = net'.retries
  BY <1>1, <1>2, <1>9 DEF Grows
<1>11. ASSUME NEW m \in Node
       PROVE  /\ v.sq[m] = node'[m].seq /\ node'[m].seq \in 0 .. SeqRange - 1
              /\ node'[m].app = << >> /\ NodeKnows(node'[m], v)
              /\ HeardOnce(heard'[m], node'[m].hist)
  <2>1. CASE m = n
    <3>1. node'[m] = g /\ heard'[m] = r
      BY <1>2, <1>9, <2>1
    <3> QED
      BY <1>4, <1>5, <1>7, <2>1, <3>1
  <2>2. CASE m # n
    <3>1. node'[m] = node[m] /\ heard'[m] = heard[m] /\ v.sq[m] = node[m].seq
      BY <1>2, <1>9, <2>2 DEF Numbers
    <3>2. NodeKnows(node[m], v)
      BY <1>2, NodeLater
    <3> QED
      BY <1>2, <3>1, <3>2
  <2> QED
    BY <2>1, <2>2
<1> QED
  BY <1>8, <1>10, <1>11 DEF AllIs, Numbers

\* The world with one more number of node n, that of a broadcast or not.
More(w, n, s, new) == [b |-> w.b \cup new, r |-> w.r, sq |-> [m \in Node |-> IF m = n THEN s ELSE node[m].seq]]

LEMMA MoreGrows ==
  ASSUME NEW w, AllIs(w, net.retries, node, fifo, heard), NEW n \in Node,
         NEW s, s = node[n].seq \/ s = node[n].seq + 1,
         NEW new, new = {} \/ (s = node[n].seq + 1 /\ new = {<<n, s>>}),
         NEW v, v = More(w, n, s, new)
  PROVE  Grows(w, v) /\ Numbers(v, n) /\ v.sq[n] = s
<1>1. /\ v.b = w.b \cup new /\ v.r = w.r /\ v.sq = [m \in Node |-> IF m = n THEN s ELSE node[m].seq]
  BY DEF More
<1>2. SeqRange \in Nat
  BY MeshNodeAssumption
<1>3. /\ \A m \in Node : w.sq[m] = node[m].seq /\ node[m].seq \in Nat
      /\ \A m \in Node : \A i \in Nat : <<m, i>> \in w.b => i <= w.sq[m]
  BY <1>2 DEF AllIs
<1>4. \A m \in Node : w.sq[m] \in Nat /\ v.sq[m] \in Nat /\ w.sq[m] <= v.sq[m]
  BY <1>1, <1>3
<1>5. ASSUME NEW m \in Node, NEW i \in 0 .. w.sq[m] PROVE <<m, i>> \in v.b <=> <<m, i>> \in w.b
  <2>1. <<m, i>> \notin new
    <3>1. CASE new = {}
      BY <3>1
    <3>2. CASE s = node[n].seq + 1 /\ new = {<<n, s>>}
      <4>1. m = n => i < s
        BY <1>3, <3>2
      <4> QED
        BY <1>3, <3>2, <4>1
    <3> QED
      BY <3>1, <3>2
  <2> QED
    BY <1>1, <2>1
<1>6. ASSUME NEW m \in Node, NEW i \in Nat, <<m, i>> \in v.b PROVE i <= v.sq[m]
  <2>1. CASE <<m, i>> \in w.b
    BY <1>3, <1>4, <2>1
  <2>2. CASE <<m, i>> \in new
    <3>1. m = n /\ i = s
      BY <2>2
    <3> QED
      BY <1>1, <1>3, <3>1
  <2> QED
    BY <1>1, <1>6, <2>1, <2>2
<1>7. Grows(w, v)
  BY <1>1, <1>4, <1>5 DEF Grows
<1> QED
  BY <1>1, <1>6, <1>7 DEF Numbers

LEMMA PendingSeq ==
  ASSUME NEW d, NEW n, NEW near, NodeOK(d, n, near), NEW rcv, NEW md, NEW od, NEW e, e = HandlePending(d, rcv, md, od)
  PROVE  e.seq = d.seq /\ e.wptr = d.wptr
<1>1. PICK a, b, c, f : e = [d EXCEPT !.mesh = a, !.own = b, !.rte = c, !.out = f]
  BY DEF HandlePending
<1> QED
  BY <1>1 DEF NodeOK, NodeFields

LEMMA AppSendDelivers ==
  ASSUME SendInv, NEW w, AllIs(w, net.retries, node, fifo, heard), NEW n \in Node, AppSend(n), ~ Forgets
  PROVE  \E v : AllIs(v, net'.retries, node', fifo', heard')
<1>1. PICK x, k : Commit(n, MeshSend(node[n], x.dst, x.type, x.data, x.max, k), fifo[n])
  BY DEF AppSend
<1>2. PICK c : c = node[n]
  OBVIOUS
<1>3. PICK dst, type, data, hops : dst = x.dst /\ type = x.type /\ data = x.data /\ hops = x.max
  OBVIOUS
<1>4. PICK d : d = MeshSend(c, dst, type, data, hops, k)
  OBVIOUS
<1>5. NodeOK(c, n, Node) /\ c.out = << >> /\ DOMAIN node = Node
  BY <1>2, NodeCounts DEF SendInv
<1>6. /\ NodeKnows(c, w) /\ c.app = << >> /\ c.seq \in 0 .. SeqRange - 1 /\ AllKnown(fifo[n], w)
      /\ \A i \in Nat : <<n, i>> \in w.b => i <= c.seq
  BY <1>2 DEF AllIs
<1>7. NodeOK(d, n, Node)
  BY <1>4, <1>5, MeshSendIs
<1>8. PICK rest : rest = fifo[n]
  OBVIOUS
<1>9. Commit(n, d, rest)
  BY <1>1, <1>2, <1>3, <1>4, <1>8
<1>10. ~ (d.seq < c.seq) /\ (d.wptr # c.wptr => c.hist[c.wptr] = NoHist)
  BY <1>2, <1>5, <1>7, <1>9, Numbered
<1>11. SeqRange \in Nat /\ SeqRange > 1 /\ n # Zero /\ n # Broadcast
  BY MeshNodeAssumption, MeshAssumption
<1>12. \/ dst \in {Zero, n} /\ d = c
       \/ dst \notin {Zero, n} /\ d.seq = NextSeq(c)
  BY ONLY <1>4, <1>5, MeshSendNumber
<1>13. dst \notin {Zero, n} => d.seq = c.seq + 1 /\ d.seq \in 0 .. SeqRange - 1
  <2>1. SUFFICES ASSUME dst \notin {Zero, n} PROVE d.seq = c.seq + 1 /\ d.seq \in 0 .. SeqRange - 1
    OBVIOUS
  <2>2. PICK s, m, y : s = c.seq /\ m = SeqRange /\ y = d.seq
    OBVIOUS
  <2>3. y = (s + 1) % m
    BY <1>12, <2>1, <2>2 DEF NextSeq
  <2>4. m \in Nat /\ m > 1 /\ s \in 0 .. m - 1 /\ ~ (y < s)
    BY <1>6, <1>10, <1>11, <2>2
  <2>5. y = s + 1 /\ y \in 0 .. m - 1
    BY ONLY <2>3, <2>4, OneHigher
  <2> QED
    BY <2>2, <2>5
<1>14. PICK new : new = IF dst = Broadcast /\ dst \notin {Zero, n} THEN {<<n, d.seq>>} ELSE {}
  OBVIOUS
<1>15. PICK s : s = d.seq
  OBVIOUS
<1>16. PICK v : v = More(w, n, s, new)
  OBVIOUS
<1>17. Grows(w, v) /\ Numbers(v, n) /\ v.sq[n] = s
  <2>1. s = node[n].seq \/ s = node[n].seq + 1
    BY <1>2, <1>12, <1>13, <1>15
  <2>2. new = {} \/ (s = node[n].seq + 1 /\ new = {<<n, s>>})
    BY <1>2, <1>13, <1>14, <1>15
  <2> QED
    BY ONLY AllIs(w, net.retries, node, fifo, heard), n \in Node, <1>16, <2>1, <2>2, MoreGrows
<1>18. s \in 0 .. SeqRange - 1
  BY <1>6, <1>12, <1>13, <1>15
<1>19. NodeKnows(c, v) /\ AllKnown(rest, v)
  BY <1>6, <1>8, <1>17, NodeLater, AllKnownLater
<1>20. dst \notin {Zero, n} => /\ NextSeq(c) \in 0 .. v.sq[n]
                               /\ dst = Broadcast <=> <<n, NextSeq(c)>> \in v.b
  <2>1. SUFFICES ASSUME dst \notin {Zero, n}
                 PROVE  NextSeq(c) \in 0 .. v.sq[n] /\ (dst = Broadcast <=> <<n, NextSeq(c)>> \in v.b)
    OBVIOUS
  <2>2. NextSeq(c) = s /\ s = c.seq + 1 /\ s \in Nat
    BY <1>6, <1>11, <1>12, <1>13, <1>15, <2>1
  <2>3. <<n, s>> \notin w.b
    BY <1>6, <1>11, <2>2
  <2>4. v.b = w.b \cup new
    BY <1>16 DEF More
  <2>5. <<n, s>> \in v.b <=> dst = Broadcast
    BY <1>14, <1>15, <2>1, <2>3, <2>4
  <2> QED
    BY <1>17, <2>2, <2>5
<1>21. NodeKnows(d, v) /\ AllKnown(d.out, v) /\ SameMemory(c, d)
  BY ONLY n \in Node, <1>4, <1>5, <1>19, <1>20, MeshSendKnows
<1>22. PICK p : p = NoPkt
  OBVIOUS
<1>23. Told(c, d, p)
  BY <1>6, <1>21, NothingTold DEF SameMemory
<1>24. d.seq = v.sq[n] /\ d.seq \in 0 .. SeqRange - 1
  BY <1>15, <1>17, <1>18
<1>25. AllIs(v, net'.retries, node', fifo', heard')
  BY ONLY AllIs(w, net.retries, node, fifo, heard), n \in Node, <1>2, <1>7, <1>9, <1>10, <1>17, <1>19, <1>21, <1>23, <1>24,
          CommitDelivers
<1> QED
  BY <1>25

LEMMA ServicePacketDelivers ==
  ASSUME SendInv, NEW w, AllIs(w, net.retries, node, fifo, heard), NEW n \in Node, ServicePacket(n), ~ Forgets
  PROVE  \E v : AllIs(v, net'.retries, node', fifo', heard')
<1>1. PICK k, md, od : Commit(n, Service(node[n], Head(fifo[n]), k, md, od), Tail(fifo[n]))
  BY DEF ServicePacket
<1>2. fifo[n] # << >>
  BY DEF ServicePacket
<1>3. PICK c : c = node[n]
  OBVIOUS
<1>4. /\ NodeOK(c, n, Node) /\ AllCome(fifo[n], Node) /\ c.out = << >> /\ Foreign(c.mesh, n) /\ DOMAIN node = Node
  BY <1>3, NodeCounts DEF SendInv
<1>5. /\ NodeKnows(c, w) /\ c.app = << >> /\ c.seq \in 0 .. SeqRange - 1 /\ AllKnown(fifo[n], w)
      /\ \A i \in Nat : <<n, i>> \in w.b => i <= c.seq
  BY <1>3 DEF AllIs
<1>6. PICK p : p = Head(fifo[n])
  OBVIOUS
<1>7. PICK rest : rest = Tail(fifo[n])
  OBVIOUS
<1>8. Comes(p, Node)
  <2>1. PICK Z : fifo[n] \in Seq(Z) /\ \A x \in Z : Comes(x, Node)
    BY <1>4 DEF AllCome
  <2> QED
    BY <1>2, <1>6, <2>1
<1>9. Known(p, w) /\ AllKnown(rest, w)
  <2>1. PICK Z : fifo[n] \in Seq(Z) /\ \A x \in Z : Known(x, w)
    BY <1>5 DEF AllKnown
  <2>2. p \in Z /\ rest \in Seq(Z)
    BY <1>2, <1>6, <1>7, <2>1
  <2> QED
    BY <2>1, <2>2 DEF AllKnown
<1>10. PICK e : e = Service(c, p, k, md, od)
  OBVIOUS
<1>11. NodeOK(e, n, Node)
  BY <1>4, <1>8, <1>10, ServiceIs
<1>12. PICK rc : rc = Received(c, p, k)
  OBVIOUS
<1>13. PICK d : d = rc.node
  OBVIOUS
<1>14. d = Received(c, p, k).node
  BY <1>12, <1>13
<1>15. NodeOK(d, n, Node) /\ Called(c, d, n)
  BY <1>4, <1>8, <1>14, ReceivedIs, ReceivedCalls
<1>16. PICK M, S, rcv : e = HandlePending(d, rcv, M, S)
  BY <1>10, <1>12, <1>13 DEF Service
<1>17. e.seq = d.seq /\ e.wptr = d.wptr
  BY <1>15, <1>16, PendingSeq
<1>18. Commit(n, e, rest)
  BY <1>1, <1>3, <1>6, <1>7, <1>10
<1>19. ~ (e.seq < c.seq) /\ (e.wptr # c.wptr => c.hist[c.wptr] = NoHist)
  BY <1>3, <1>4, <1>11, <1>18, Numbered
<1>20. SeqRange \in Nat /\ SeqRange > 1
  BY MeshNodeAssumption
<1>21. d.seq = NextSeq(c) => d.seq = c.seq + 1 /\ d.seq \in 0 .. SeqRange - 1
  <2>1. SUFFICES ASSUME d.seq = NextSeq(c) PROVE d.seq = c.seq + 1 /\ d.seq \in 0 .. SeqRange - 1
    OBVIOUS
  <2>2. PICK s, m, y : s = c.seq /\ m = SeqRange /\ y = d.seq
    OBVIOUS
  <2>3. y = (s + 1) % m
    BY <2>1, <2>2 DEF NextSeq
  <2>4. m \in Nat /\ m > 1 /\ s \in 0 .. m - 1 /\ ~ (y < s)
    BY <1>5, <1>17, <1>19, <1>20, <2>2
  <2>5. y = s + 1 /\ y \in 0 .. m - 1
    BY ONLY <2>3, <2>4, OneHigher
  <2> QED
    BY <2>2, <2>5
<1>22. PICK s, new : s = d.seq /\ new = {}
  OBVIOUS
<1>23. PICK v : v = More(w, n, s, new)
  OBVIOUS
<1>24. (d.seq = c.seq \/ d.seq = c.seq + 1) /\ d.seq \in 0 .. SeqRange - 1
  BY <1>5, <1>15, <1>21 DEF Called, Listens, Speaks
<1>25. Grows(w, v) /\ Numbers(v, n) /\ v.sq[n] = s
  <2>1. s = node[n].seq \/ s = node[n].seq + 1
    BY <1>3, <1>22, <1>24
  <2>2. new = {} \/ (s = node[n].seq + 1 /\ new = {<<n, s>>})
    BY <1>22
  <2> QED
    BY ONLY AllIs(w, net.retries, node, fifo, heard), n \in Node, <1>23, <2>1, <2>2, MoreGrows
<1>26. NodeKnows(c, v) /\ AllKnown(rest, v) /\ Known(p, v)
  BY <1>5, <1>9, <1>25, NodeLater, AllKnownLater, KnownLater
<1>27. d.seq = NextSeq(c) => NextSeq(c) \in 0 .. v.sq[n] /\ <<n, NextSeq(c)>> \notin v.b
  <2>1. SUFFICES ASSUME d.seq = NextSeq(c) PROVE NextSeq(c) \in 0 .. v.sq[n] /\ <<n, NextSeq(c)>> \notin v.b
    OBVIOUS
  <2>2. NextSeq(c) = s /\ s = c.seq + 1 /\ s \in Nat
    BY <1>5, <1>20, <1>21, <1>22, <2>1
  <2>3. v.b = w.b
    BY <1>22, <1>23 DEF More
  <2>4. <<n, s>> \notin w.b
    BY <1>5, <1>20, <2>2
  <2> QED
    BY <1>25, <2>2, <2>3, <2>4
<1>28. NodeKnows(d, v) /\ AllKnown(d.out, v) /\ Told(c, d, p)
  BY ONLY n \in Node, <1>4, <1>5, <1>8, <1>12, <1>13, <1>26, <1>27, ReceivedKnows
<1>29. /\ NodeKnows(e, v) /\ AllKnown(e.out, v)
       /\ e.hist = d.hist /\ e.wptr = d.wptr /\ e.app = d.app /\ e.seq = d.seq
  BY ONLY <1>15, <1>16, <1>28, PendingKnows
<1>30. Told(c, e, p)
  BY <1>28, <1>29, ToldAfter
<1>31. e.seq = v.sq[n] /\ e.seq \in 0 .. SeqRange - 1
  BY <1>22, <1>24, <1>25, <1>29
<1>32. AllIs(v, net'.retries, node', fifo', heard')
  BY ONLY AllIs(w, net.retries, node, fifo, heard), n \in Node, <1>3, <1>11, <1>18, <1>19, <1>25, <1>26, <1>29, <1>30, <1>31,
          CommitDelivers
<1> QED
  BY <1>32

LEMMA ServiceTimersDelivers ==
  ASSUME SendInv, NEW w, AllIs(w, net.retries, node, fifo, heard), NEW n \in Node, ServiceTimers(n), ~ Forgets
  PROVE  \E v : AllIs(v, net'.retries, node', fifo', heard')
<1>1. PICK md, od : Commit(n, ServiceIdle(node[n], md, od), << >>)
  BY DEF ServiceTimers
<1>2. PICK c : c = node[n]
  OBVIOUS
<1>3. NodeOK(c, n, Node) /\ c.out = << >> /\ DOMAIN node = Node
  BY <1>2, NodeCounts DEF SendInv
<1>4. NodeKnows(c, w) /\ c.app = << >> /\ c.seq \in 0 .. SeqRange - 1
  BY <1>2 DEF AllIs
<1>5. PICK rcv : rcv = NoPkt
  OBVIOUS
<1>6. PICK e : e = HandlePending(c, rcv, md, od)
  OBVIOUS
<1>7. NodeOK(e, n, Node)
  BY <1>3, <1>6, HandlePendingIs
<1>8. PICK rest : rest = << >>
  OBVIOUS
<1>9. Commit(n, e, rest)
  BY <1>1, <1>2, <1>5, <1>6, <1>8 DEF ServiceIdle
<1>10. ~ (e.seq < c.seq) /\ (e.wptr # c.wptr => c.hist[c.wptr] = NoHist)
  BY <1>2, <1>3, <1>7, <1>9, Numbered
<1>11. PICK s, new : s = c.seq /\ new = {}
  OBVIOUS
<1>12. PICK v : v = More(w, n, s, new)
  OBVIOUS
<1>13. Grows(w, v) /\ Numbers(v, n) /\ v.sq[n] = s
  <2>1. s = node[n].seq \/ s = node[n].seq + 1
    BY <1>2, <1>11
  <2>2. new = {} \/ (s = node[n].seq + 1 /\ new = {<<n, s>>})
    BY <1>11
  <2> QED
    BY ONLY AllIs(w, net.retries, node, fifo, heard), n \in Node, <1>12, <2>1, <2>2, MoreGrows
<1>14. NodeKnows(c, v) /\ AllKnown(rest, v) /\ AllKnown(c.out, v)
  BY <1>3, <1>4, <1>8, <1>13, NodeLater, NoneKnown
<1>15. /\ NodeKnows(e, v) /\ AllKnown(e.out, v)
       /\ e.hist = c.hist /\ e.wptr = c.wptr /\ e.app = c.app /\ e.seq = c.seq
  BY ONLY <1>3, <1>6, <1>14, PendingKnows
<1>16. Told(c, e, rcv)
  BY <1>4, <1>15, NothingTold
<1>17. e.seq = v.sq[n] /\ e.seq \in 0 .. SeqRange - 1
  BY <1>4, <1>11, <1>13, <1>15
<1>18. AllIs(v, net'.retries, node', fifo', heard')
  BY ONLY AllIs(w, net.retries, node, fifo, heard), n \in Node, <1>2, <1>7, <1>9, <1>10, <1>13, <1>14, <1>15, <1>16, <1>17,
          CommitDelivers
<1> QED
  BY <1>18

LEMMA DeliverInit == Init => DeliverInv
<1> SUFFICES ASSUME Init PROVE DeliverInv
  OBVIOUS
<1>1. PICK w : w = [b |-> {}, r |-> net.retries, sq |-> [m \in Node |-> 0]]
  OBVIOUS
<1>2. w.b = {} /\ w.r = net.retries /\ w.sq = [m \in Node |-> 0] /\ DOMAIN node = Node /\ DOMAIN heard = Node
  BY <1>1 DEF Init
<1>3. SeqRange \in Nat /\ SeqRange > 1 /\ HistSize \in Nat /\ HistSize > 1
  BY MeshNodeAssumption
<1>4. ASSUME NEW n \in Node
      PROVE  /\ w.sq[n] = node[n].seq /\ node[n].seq \in 0 .. SeqRange - 1
             /\ node[n].app = << >> /\ NodeKnows(node[n], w)
             /\ AllKnown(fifo[n], w) /\ HeardOnce(heard[n], node[n].hist)
  <2>1. PICK repeats, r : repeats = (n \in net.repeat) /\ r = net.retries
    OBVIOUS
  <2>2. PICK c : c = NewNode(n, repeats, r)
    OBVIOUS
  <2>3. node[n] = c /\ fifo[n] = << >> /\ heard[n] = << >>
    BY <2>1, <2>2 DEF Init
  <2>4. /\ c.seq = 0 /\ c.app = << >> /\ c.retry = r /\ c.wptr = 1
        /\ c.mesh = [i \in 1 .. MeshPend |-> NoPending]
        /\ c.own = [i \in 1 .. OwnPend |-> NoPending]
        /\ c.hist = [i \in 1 .. HistSize |-> NoHist]
    BY <2>2 DEF NewNode
  <2>5. AllWait(c.mesh, MeshPend, w) /\ AllWait(c.own, OwnPend, w)
    BY <2>4, NothingWaits DEF AllWait
  <2>6. DOMAIN NoHist = {"src", "id", "rem"} /\ Seen(NoHist, w)
    BY DEF NoHist, Seen
  <2>7. HistOK(c.hist, w)
    BY <2>4, <2>6 DEF HistOK
  <2>8. NodeKnows(c, w)
    BY <1>2, <1>3, <2>1, <2>4, <2>5, <2>7 DEF NodeKnows
  <2>9. HeardOnce(<< >>, c.hist)
    <3>1. PICK Y, q : Y = {} /\ q = << >>
      OBVIOUS
    <3>2. q \in Seq(Y) /\ Len(q) = 0
      BY <3>1
    <3> QED
      BY <3>1, <3>2 DEF HeardOnce
  <2> QED
    BY <1>2, <1>3, <2>3, <2>4, <2>8, <2>9, NoneKnown
<1>5. AllIs(w, net.retries, node, fifo, heard)
  BY <1>2, <1>4 DEF AllIs
<1> QED
  BY <1>5 DEF DeliverInv

\* However a network is laid out, and whatever is sent, lost, late, repeated or retried: as long
\* as no node comes round to the number 0 and no node overwrites an entry of its history, an
\* application is given each packet once.
THEOREM DeliveredOnceWhileRemembered == Spec /\ [][~ Forgets]_vars => []DeliveredOnce
<1>1. ASSUME SendInv, DeliverInv, [Next]_vars, [~ Forgets]_vars PROVE DeliverInv'
  <2>1. CASE UNCHANGED vars
    BY <1>1, <2>1 DEF vars, DeliverInv
  <2>2. CASE Next /\ ~ Forgets
    <3>1. PICK w : AllIs(w, net.retries, node, fifo, heard)
      BY <1>1 DEF DeliverInv
    <3>2. \E v : AllIs(v, net'.retries, node', fifo', heard')
      BY <1>1, <2>2, <3>1, AppSendDelivers, ServicePacketDelivers, ServiceTimersDelivers DEF Next
    <3> QED
      BY <3>2 DEF DeliverInv
  <2> QED
    BY <1>1, <2>1, <2>2
<1>2. DeliverInv => DeliveredOnce
  <2>1. SUFFICES ASSUME DeliverInv, NEW n \in Node, NEW i \in DOMAIN heard[n], NEW j \in DOMAIN heard[n],
                        heard[n][i].ns = heard[n][j].ns, heard[n][i].id = heard[n][j].id
                 PROVE  i = j
    BY DEF DeliveredOnce
  <2>2. PICK q : q = heard[n]
    OBVIOUS
  <2>3. PICK hist : HeardOnce(q, hist)
    BY <2>1, <2>2 DEF DeliverInv, AllIs
  <2>4. DOMAIN q = 1 .. Len(q)
    BY <2>3 DEF HeardOnce
  <2> QED
    BY <2>1, <2>2, <2>3, <2>4 DEF HeardOnce
<1> QED
  BY <1>1, <1>2, SendInit, SendStep, DeliverInit, PTL DEF Spec
=============================================================================
