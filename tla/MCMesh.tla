------------------------------- MODULE MCMesh -------------------------------
(* Networks of two to four nodes for TLC. *)
EXTENDS Mesh

Nodes == {1, 2, 3, 4}

\* Send a packet of type t to d, at most h hops, after a packets were received.
ToSend(d, t, h, a) == [dst |-> d, type |-> t, data |-> TRUE, max |-> h, after |-> a]
Network(near, repeat, retries, first, last) ==
    [near |-> near, repeat |-> repeat, retries |-> retries,
     work |-> (1 :> first) @@ (2 :> <<>>) @@ (3 :> last) @@ (4 :> <<>>)]

\* A line of three: 1 and 3 hear only 2, which repeats.  Node 1 looks for a route to 3.
LineNear == (1 :> {2}) @@ (2 :> {1, 3}) @@ (3 :> {2}) @@ (4 :> {})
Line == Network(LineNear, {2}, 1, <<ToSend(3, "ack", 3, 0)>>, <<>>)

\* Node 3 announces itself, node 1 sends along the route through 2, which it then knows.
Hello == Network(LineNear, {2}, 0, <<ToSend(3, "ack", 3, 1)>>, <<ToSend(Broadcast, "nack", 1, 0)>>)

\* Three repeaters that hear each other, and node 4 behind one of them: two broadcasts of
\* node 1 reach it over one repeater or two, in any order.
KiteNear == (1 :> {2, 3}) @@ (2 :> {1, 3}) @@ (3 :> {1, 2, 4}) @@ (4 :> {3})
Kite == Network(KiteNear, Nodes, 0,
                <<ToSend(Broadcast, "nack", 3, 0), ToSend(Broadcast, "nack", 3, 0)>>, <<>>)

Nets == {Line, Hello, Kite}

\* Two nodes in range: as many packets as the history holds after the one that is retried.
PairNear == (1 :> {2}) @@ (2 :> {1}) @@ (3 :> {}) @@ (4 :> {})
HistoryNets == {Network(PairNear, {}, 1, <<ToSend(2, "ack", 0, 0)>>
                                      \o [i \in 1..HistSize |-> ToSend(2, "nack", 0, 0)], <<>>)}
\* The second packet is sent when the first was answered.
LateNets == {Network(PairNear, {}, 1, <<ToSend(2, "ack", 0, 0), ToSend(2, "ack", 0, 1)>>, <<>>)}
=============================================================================
