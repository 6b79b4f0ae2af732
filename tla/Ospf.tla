-------------------------------- MODULE Ospf --------------------------------
(***************************************************************************)
(* Flooding of one LSA through an area whose routers hold a tpt-ospf       *)
(* LinkStateDatabase (database.rs) and do what receive tells them: install *)
(* and flood, acknowledge, or send the newer copy back.  The originating   *)
(* router raises the sequence number, flushes the LSA with MaxAge and may  *)
(* restart without its database.  Packets are reordered, repeated, lost.   *)
(*                                                                         *)
(* Sequence numbers are u32 with the code's wrap-around at 2^31 and half   *)
(* range 2^30, scaled to SeqSpan and SeqSpan \div 2.  The serial n counts  *)
(* originations; the code only ever sees the sequence number.              *)
(*                                                                         *)
(* Two more parts follow, each with its own variables: the state machine   *)
(* of a neighbour (neighbor.rs) and the shortest-path tree (spf.rs).       *)
(***************************************************************************)
EXTENDS Integers, Sequences, FiniteSets, SequencesExt

CONSTANTS Routers, Neighbours, Origin, \* the area, its adjacencies (pairs), who originates
          SeqSpan, FirstSeqs,          \* 2^31 scaled; first sequence numbers tried
          Checksums,                   \* the contents an origination may have
          MaxSerial, MaxRestarts, MaxPackets
VARIABLES db,        \* per router, the instance held or NoLsa
          packets,   \* LSAs under way: [from, to, lsa]
          first,     \* sequence number of serial 0
          restarts,
          lossless   \* no packet has been lost
floodVars == <<db, packets, first, restarts, lossless>>

NoLsa == [n |-> -1]
Lsas == [n : 0..MaxSerial, maxAge : BOOLEAN, checksum : Checksums]
Adjacent(r) == {s \in Routers : <<r, s>> \in Neighbours \/ <<s, r>> \in Neighbours}

FloodTypeOK ==
    /\ db \in [Routers -> Lsas \cup {NoLsa}]
    /\ packets \subseteq [from : Routers, to : Routers, lsa : Lsas]
    /\ Cardinality(packets) <= MaxPackets
    /\ first \in FirstSeqs /\ restarts \in 0..MaxRestarts /\ lossless \in BOOLEAN

(***************************************************************************)
(* The originator does not run out of sequence numbers, all numbers that   *)
(* are about at one time lie within half the range of the comparison, and  *)
(* the area is connected.                                                  *)
(***************************************************************************)
FloodConstants ==
    /\ Origin \in Routers /\ Checksums \subseteq Nat
    /\ SeqSpan \in Nat /\ MaxSerial \in Nat /\ MaxSerial <= SeqSpan \div 2
    /\ FirstSeqs \subseteq Nat /\ \A f \in FirstSeqs : f + MaxSerial < 2 * SeqSpan
    /\ \A S \in SUBSET Routers :
          S # {} /\ (\A r \in S : Adjacent(r) \subseteq S) => S = Routers

FloodInit ==
    /\ db = [r \in Routers |-> NoLsa] /\ packets = {}
    /\ first \in FirstSeqs /\ restarts = 0 /\ lossless = TRUE

-----------------------------------------------------------------------------
sequence_number(lsa) == (first + lsa.n) % (2 * SeqSpan)

\* Mutant: sequence numbers compared as signed integers.
seq_diff_Signed(a, b) ==
    LET signed(x) == IF x >= SeqSpan THEN x - 2 * SeqSpan ELSE x IN signed(a) - signed(b)

seq_diff(a, b) ==
    LET d == a - b
        half == SeqSpan \div 2
    IN IF d > half THEN d - SeqSpan ELSE IF d < -half THEN d + SeqSpan ELSE d

\* Mutant: MaxAge does not count.
compare_lsa_NoMaxAge(a, b) ==
    LET sa == sequence_number(a)
        sb == sequence_number(b)
    IN IF sa # sb THEN (IF seq_diff(sa, sb) > 0 THEN "Newer" ELSE "Older")
       ELSE IF a.checksum = b.checksum THEN "Equal"
       ELSE IF a.checksum > b.checksum THEN "Newer" ELSE "Older"

compare_lsa(a, b) ==
    LET sa == sequence_number(a)
        sb == sequence_number(b)
        newer == IF sa # sb THEN seq_diff(sa, sb) > 0
                 ELSE IF a.maxAge # b.maxAge THEN a.maxAge
                 ELSE a.checksum > b.checksum
    IN IF sa = sb /\ a.maxAge = b.maxAge /\ a.checksum = b.checksum THEN "Equal"
       ELSE IF newer THEN "Newer" ELSE "Older"

receive(r, lsa) ==
    IF db[r] = NoLsa THEN "InstallAndFlood"
    ELSE CASE compare_lsa(lsa, db[r]) = "Equal" -> "Duplicate"
           [] compare_lsa(lsa, db[r]) = "Newer" -> "InstallAndFlood"
           [] compare_lsa(lsa, db[r]) = "Older" -> "Reject"

-----------------------------------------------------------------------------
\* What the caller of the crate does with an LSA to flood.
Flooded(r, to, lsa) == {[from |-> r, to |-> s, lsa |-> lsa] : s \in to}

Send(P) == packets' = P /\ Cardinality(P) <= MaxPackets

\* The originator installs (insert) and floods an instance of its own.
Install(lsa, underWay) ==
    /\ db' = [db EXCEPT ![Origin] = lsa]
    /\ Send(underWay \cup Flooded(Origin, Adjacent(Origin), lsa))
    /\ UNCHANGED <<first, lossless>>

Originate ==
    /\ db[Origin].n < MaxSerial
    /\ \E c \in Checksums : Install([n |-> db[Origin].n + 1, maxAge |-> FALSE, checksum |-> c], packets)
    /\ UNCHANGED restarts

Flush ==
    /\ db[Origin] # NoLsa /\ ~db[Origin].maxAge
    /\ Install([db[Origin] EXCEPT !.maxAge = TRUE], packets)
    /\ UNCHANGED restarts

\* The originator starts over with an empty database and the first number;
\* what was under way on its adjacencies ends with them.
Restart ==
    /\ restarts < MaxRestarts /\ restarts' = restarts + 1
    /\ \E c \in Checksums :
          Install([n |-> 0, maxAge |-> FALSE, checksum |-> c],
                  {m \in packets : Origin \notin {m.from, m.to}})

\* A router receives a packet and does as receive says; a packet that stays
\* under way is delivered again.
Receive(m, again) ==
    LET left == IF again THEN packets ELSE packets \ {m}
        says == receive(m.to, m.lsa)
    IN /\ m \in packets
       /\ db' = IF says = "InstallAndFlood" THEN [db EXCEPT ![m.to] = m.lsa] ELSE db
       /\ Send(left \cup
            CASE says = "InstallAndFlood" -> Flooded(m.to, Adjacent(m.to) \ {m.from}, m.lsa)
              [] says = "Duplicate" -> {}
              [] says = "Reject" -> Flooded(m.to, {m.from}, db[m.to]))
       /\ UNCHANGED <<first, restarts, lossless>>

Lose(m) ==
    /\ m \in packets /\ packets' = packets \ {m} /\ lossless' = FALSE
    /\ UNCHANGED <<db, first, restarts>>

FloodNext ==
    \/ Originate \/ Flush \/ Restart
    \/ \E m \in packets : Lose(m) \/ \E again \in BOOLEAN : Receive(m, again)

FloodSpec == FloodInit /\ [][FloodNext]_floodVars

-----------------------------------------------------------------------------
\* The true order of the instances: by origination, then MaxAge, then checksum.
AtLeast(a, b) ==
    \/ a.n > b.n
    \/ a.n = b.n /\ a.maxAge /\ ~b.maxAge
    \/ a.n = b.n /\ a.maxAge = b.maxAge /\ a.checksum >= b.checksum

\* No packet, however late or repeated, takes a database back to an earlier
\* instance (only the originator's own restart does): the modular comparison
\* agrees with the order of origination, across 0x7FFFFFFF too.
NeverBackwards ==
    [][\A r \in Routers :
          db[r] # NoLsa /\ ~(r = Origin /\ restarts' # restarts) =>
              db'[r] # NoLsa /\ AtLeast(db'[r], db[r])]_floodVars

\* When nothing is under way and nothing was lost, all routers hold the same
\* instance: flooding, flushing and sending newer copies back leave no router
\* behind, the restarted originator included.
FloodConverges == packets = {} /\ lossless => \A r, s \in Routers : db[r] = db[s]

-----------------------------------------------------------------------------
(***************************************************************************)
(* The neighbour state machine of tpt-ospf (neighbor.rs): the table of     *)
(* neighbours, the transition function and the context of a database       *)
(* exchange, which the caller fills while one goes on.  exchange counts    *)
(* the exchanges begun with a neighbour, and told keeps the stages of the  *)
(* last one that the machine was told of.                                  *)
(***************************************************************************)
CONSTANTS Peers,         \* router ids of the neighbours
          MaxExchanges   \* bound on the exchanges begun with a neighbour

VARIABLES neighbors,   \* NeighborTable: router id -> Neighbor
          exchange,    \* how many exchanges were begun with each
          told         \* the events that completed a stage since then

neighborVars == <<neighbors, exchange, told>>

NeighborState == {"Down", "Attempt", "Init", "TwoWay", "ExStart", "Exchange", "Loading", "Full"}
\* An event is <<name, adjacency_eligible or ls_requests_pending>>.
NeighborEvent ==
    {"TwoWayReceived", "ExchangeDone"} \X BOOLEAN
      \union {"HelloReceived", "Start", "NegotiationDone", "LoadingDone", "SeqNumberMismatch", "BadLinkStateRequest",
              "OneWayReceived", "InactivityTimer", "KillNeighbor", "LinkDown"} \X {FALSE}

Synchronizing == {"ExStart", "Exchange", "Loading", "Full"}
Lost == {"InactivityTimer", "KillNeighbor", "LinkDown"}
Restarting == {"SeqNumberMismatch", "BadLinkStateRequest"}

\* RFC 2328, figure 11 as the code has it: an event that is not listed for a state leaves it.
transition(state, event) ==
    CASE state = "Down" /\ event[1] = "Start" -> "Attempt"
      [] state \in {"Down", "Attempt"} /\ event[1] = "HelloReceived" -> "Init"
      [] state = "Attempt" /\ event[1] \in Lost \ {"InactivityTimer"} -> "Down"
      [] state \notin {"Down", "Attempt"} /\ event[1] \in Lost -> "Down"
      [] state \in Synchronizing \union {"TwoWay"} /\ event[1] = "OneWayReceived" -> "Init"
      [] state \in {"Init", "TwoWay"} /\ event = <<"TwoWayReceived", TRUE>> -> "ExStart"
      [] state \in Synchronizing \union {"Init"} /\ event = <<"TwoWayReceived", FALSE>> -> "TwoWay"
      [] state = "ExStart" /\ event[1] = "NegotiationDone" -> "Exchange"
      [] state = "Exchange" /\ event[1] = "ExchangeDone" -> IF event[2] THEN "Loading" ELSE "Full"
      [] state = "Loading" /\ event[1] = "ExchangeDone" -> "Full"
      [] state \in {"Loading", "Full"} /\ event[1] \in Restarting -> "ExStart"
      [] OTHER -> state

Neighbor_new == [state |-> "Down", master |-> FALSE, dd_sequence |-> 0, last_dd |-> 0, pending_requests |-> 0]
\* A mutant: the context of the exchange before is kept.
on_event_KeepsContext(n, event) == [n EXCEPT !.state = transition(n.state, event)]
\* The requests of the exchange before are kept by the code as well.
on_event(n, event) ==
    LET next == transition(n.state, event)
    IN  IF next = "ExStart" /\ n.state # "ExStart"
        THEN [n EXCEPT !.state = next, !.master = FALSE, !.dd_sequence = 0, !.last_dd = 0]
        ELSE [n EXCEPT !.state = next]

NeighborInit ==
    neighbors = <<>> /\ exchange = [p \in Peers |-> 0] /\ told = [p \in Peers |-> {}]

Known(p) == IF p \in DOMAIN neighbors THEN neighbors[p] ELSE Neighbor_new
Tracked(p, n) == [q \in DOMAIN neighbors \union {p} |-> IF q = p THEN n ELSE neighbors[q]]

\* The descriptions are exchanged once the roles are negotiated.
Stage(event, before) ==
    {event[1]} \intersect ({"NegotiationDone"} \union (IF "NegotiationDone" \in before THEN {"ExchangeDone"} ELSE {}))

\* NeighborTable::process
process(p, event) ==
    LET old == Known(p)
        new == on_event(old, event)
        begins == new.state = "ExStart" /\ old.state # "ExStart"
    IN  /\ begins => exchange[p] < MaxExchanges
        /\ neighbors' = Tracked(p, new)
        /\ exchange' = [exchange EXCEPT ![p] = IF begins THEN @ + 1 ELSE @]
        /\ told' = [told EXCEPT ![p] = IF begins \/ event[1] \in Lost \union {"OneWayReceived"} \/ event = <<"TwoWayReceived", FALSE>>
                                       THEN {} ELSE @ \union Stage(event, @)]

\* The caller receives a Database Description of the exchange that goes on and records it, its sequence number and who
\* is the master.
RecordDbd(p, master) ==
    /\ p \in DOMAIN neighbors /\ neighbors[p].state \in {"ExStart", "Exchange"}
    /\ neighbors' = [neighbors EXCEPT ![p].master = master, ![p].dd_sequence = exchange[p], ![p].last_dd = exchange[p]]
    /\ UNCHANGED <<exchange, told>>

NeighborNext ==
    \E p \in Peers : \/ \E event \in NeighborEvent : process(p, event)
                     \/ \E master \in BOOLEAN : RecordDbd(p, master)

NeighborSpec == NeighborInit /\ [][NeighborNext]_neighborVars

----------------------------------------------------------------------------
NeighborTypeOK ==
    /\ DOMAIN neighbors \subseteq Peers
    /\ \A p \in DOMAIN neighbors : neighbors[p].state \in NeighborState

\* An adjacency is full only if, since its exchange began and with the neighbour heard both ways ever since, the roles
\* were negotiated and the descriptions exchanged; what is known of the exchange is of this one and never of an earlier
\* one, whatever the order of the events.
AdjacencyEarned ==
    \A p \in DOMAIN neighbors :
        LET n == neighbors[p]
        IN  /\ n.state \in {"Exchange", "Loading", "Full"} => "NegotiationDone" \in told[p]
            /\ n.state \in {"Loading", "Full"} => "ExchangeDone" \in told[p]
            /\ n.state \in Synchronizing =>
                   /\ exchange[p] > 0
                   /\ n.dd_sequence \in {0, exchange[p]} /\ n.last_dd = n.dd_sequence
                   /\ n.dd_sequence = 0 => ~n.master
-----------------------------------------------------------------------------
(***************************************************************************)
(* The shortest-path-first calculation of tpt-ospf (spf.rs, calculate):    *)
(* Dijkstra over the router and network LSAs of an area.  A step is one    *)
(* turn of the loop that pops the heap.  A node is <<0, r>> for a router   *)
(* and <<1, n>> for a network, as the code's Node orders them.             *)
(***************************************************************************)
CONSTANTS Root,    \* the router the calculation starts from
          Areas,   \* areas to try: [routers, networks], the LSAs by router and network
          Unreachable \* larger than every path cost
VARIABLES area,    \* the LSAs added to the builder
          spf      \* the local variables of calculate; failed: SpfRootMissing
spfVars == <<area, spf>>

Router(r) == <<0, r>>
Network(n) == <<1, n>>

\* The entry the heap gives: least cost, routers first, then the largest node.
First(e, heap) ==
    \A o \in heap : \/ e.cost < o.cost
                    \/ e.cost = o.cost /\ e.node[1] < o.node[1]
                    \/ e.cost = o.cost /\ e.node[1] = o.node[1] /\ e.node[2] >= o.node[2]

SpfInit ==
    /\ area \in Areas
    /\ spf = [failed |-> Root \notin DOMAIN area.routers,
              dist |-> Router(Root) :> 0, hop |-> Router(Root) :> Root,
              heap |-> {[cost |-> 0, node |-> Router(Root)]},
              in_tree |-> {}, tree_order |-> <<>>, stubs |-> {}]

\* A candidate at a lower cost than the one known, if any, is recorded.
Reach(s, v, cost, via) ==
    IF v \in s.in_tree \/ (v \in DOMAIN s.dist /\ cost >= s.dist[v]) THEN s
    ELSE [s EXCEPT !.dist = (v :> cost) @@ @, !.hop = (v :> via) @@ @,
                   !.heap = @ \cup {[cost |-> cost, node |-> v]}]

\* Mutant: the first hop is not set for the neighbours of the root.
FollowLink_NoHop(s, e, l) ==
    IF l.type = "stub" THEN [s EXCEPT !.stubs = @ \cup {[network |-> l.id, hop |-> s.hop[e.node],
                                                         cost |-> e.cost + l.metric]}]
    ELSE Reach(s, IF l.type = "p2p" THEN Router(l.id) ELSE Network(l.id),
               e.cost + l.metric, s.hop[e.node])

\* One link of the router that entry e put into the tree.
FollowLink(s, e, l) ==
    LET cost == e.cost + l.metric
    IN CASE l.type = "p2p" ->
              Reach(s, Router(l.id), cost, IF e.node = Router(Root) THEN l.id ELSE s.hop[e.node])
         [] l.type = "transit" -> Reach(s, Network(l.id), cost, s.hop[e.node])
         [] l.type = "stub" ->
              [s EXCEPT !.stubs = @ \cup {[network |-> l.id, hop |-> s.hop[e.node], cost |-> cost]}]
         [] l.type = "virtual" -> s

\* The node of entry e enters the tree and its links are followed.
Enter(s, e) ==
    LET id == e.node[2]
        in == [s EXCEPT !.in_tree = @ \cup {e.node},
                        !.tree_order = IF e.node[1] = 0 THEN Append(@, id) ELSE @]
        lsas == IF e.node[1] = 0 THEN area.routers ELSE area.networks
        follow(t, x) == IF e.node[1] = 0 THEN FollowLink(t, e, x)
                        ELSE Reach(t, Router(x), e.cost, t.hop[e.node])
    IN IF id \in DOMAIN lsas THEN FoldLeft(follow, in, lsas[id]) ELSE in

\* The least entry of the heap leaves it; its node is entered unless it was before.
Pop ==
    /\ ~spf.failed
    /\ \E e \in spf.heap :
          /\ First(e, spf.heap)
          /\ LET s == [spf EXCEPT !.heap = @ \ {e}]
             IN spf' = IF e.node \in s.in_tree THEN s ELSE Enter(s, e)
    /\ UNCHANGED area

SpfNext == Pop

Done == ~spf.failed /\ spf.heap = {}

\* The table that calculate returns.
router_routes ==
    [r \in {v[2] : v \in {u \in DOMAIN spf.hop : u[1] = 0}} |->
        [next_hop |-> spf.hop[Router(r)], cost |-> spf.dist[Router(r)]]]

-----------------------------------------------------------------------------
\* Reference: the area as a graph, and its cheapest paths by relaxation.
Edges ==
    UNION {{[from |-> Router(r), to |-> IF l.type = "p2p" THEN Router(l.id) ELSE Network(l.id),
             cost |-> l.metric] :
               l \in {k \in Range(area.routers[r]) : k.type \in {"p2p", "transit"}}} :
           r \in DOMAIN area.routers}
    \cup UNION {{[from |-> Network(n), to |-> Router(r), cost |-> 0] : r \in Range(area.networks[n])} :
                n \in DOMAIN area.networks}

Nodes == {Router(Root)} \cup {e.from : e \in Edges} \cup {e.to : e \in Edges}

LeastOf(S) == CHOOSE x \in S : \A y \in S : x <= y

\* The cost of the cheapest path from a node to each node.
Cheapest(src) ==
    LET within[k \in 0..Cardinality(Nodes)] ==
          IF k = 0 THEN [v \in Nodes |-> IF v = src THEN 0 ELSE Unreachable]
          ELSE [v \in Nodes |-> LeastOf({within[k-1][v]} \cup
                  {within[k-1][e.from] + e.cost : e \in {f \in Edges : f.to = v}})]
    IN within[Cardinality(Nodes)]

SpfTypeOK ==
    ~spf.failed =>
        /\ spf.in_tree \subseteq DOMAIN spf.dist /\ DOMAIN spf.dist = DOMAIN spf.hop
        /\ DOMAIN spf.dist \subseteq Nodes

\* A next hop other than the root is a neighbour of the root on a cheapest
\* path to the destination; the root itself stands for a cheapest path that
\* starts on a network the root is attached to.
FirstHop(r) ==
    \E e \in Edges :
        /\ e.from = Router(Root)
        /\ IF router_routes[r].next_hop = Root THEN e.to[1] = 1
           ELSE e.to = Router(router_routes[r].next_hop)
        /\ e.cost + Cheapest(e.to)[Router(r)] = router_routes[r].cost

\* The table has a route to exactly the routers that can be reached, at the
\* cost of a cheapest path, the stub routes cost what their router does plus
\* their metric, routers entered the tree in the order of their cost, and the
\* next hop starts a cheapest path.
ShortestPaths ==
    Done =>
        LET best == Cheapest(Router(Root))
            reach == {v \in Nodes : v[1] = 0 /\ best[v] < Unreachable}
            cost(r) == router_routes[r].cost
        IN /\ DOMAIN router_routes = {v[2] : v \in reach}
           /\ \A v \in reach : cost(v[2]) = best[v]
           /\ {[network |-> s.network, cost |-> s.cost] : s \in spf.stubs} =
                UNION {{[network |-> l.id, cost |-> cost(r) + l.metric] :
                           l \in {k \in Range(area.routers[r]) : k.type = "stub"}} :
                       r \in DOMAIN router_routes \cap DOMAIN area.routers}
           /\ \A i, j \in DOMAIN spf.tree_order :
                 i < j => cost(spf.tree_order[i]) <= cost(spf.tree_order[j])
           /\ \A r \in DOMAIN router_routes \ {Root} : FirstHop(r)
=============================================================================
