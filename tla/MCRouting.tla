----------------------------- MODULE MCRouting -----------------------------
(***************************************************************************)
(* TLC instance of the routing crates: the BGP route selection, a BGP      *)
(* peering, OSPF flooding, the OSPF neighbour state machine and the OSPF   *)
(* route calculation.  A behaviour is about one of the five.               *)
(***************************************************************************)
EXTENDS Ospf, Bgp, TLC

CONSTANT Parts
VARIABLE part

\* Three external peers of two neighbouring ASes, one of them also internal.
Offer(peer, ibgp, pref, segments, origin, neighbour, med) ==
    [peer |-> peer, is_ibgp |-> ibgp, local_pref |-> pref, segments |-> segments,
     origin |-> origin, neighbour |-> neighbour, med |-> med, denied |-> pref = 0]
MCOffers ==
    {Offer(p, FALSE, l, s, 0, 64, p) : p \in 1..2, l \in {0, 100}, s \in 1..2}
    \cup {Offer(3, FALSE, 100, 1, o, n, 0) : o \in {0, 3}, n \in {64, 65}}
    \cup {Offer(1, TRUE, 100, 1, 0, 64, 0)}

\* Routers in a triangle: an LSA reaches each of them along two ways.
Triangle == {<<1, 2>>, <<2, 3>>, <<1, 3>>}
ASSUME AreaAssumption == FloodConstants
\* What the peers advertise are routes.
ASSUME RibAssumption == RibConstants

\* Three routers with links of several costs in each direction or none (those
\* back to the root cost 1), attached or not to a network whose LSA may be
\* missing, with a stub on router 3.
Link(type, id, metric) == [type |-> type, id |-> id, metric |-> metric]
LinksOf(costs, r, attached) ==
    SelectSeq([s \in 1..3 |-> Link("p2p", s, costs[<<r, s>>])], LAMBDA l : l.metric > 0)
    \o (IF r \in attached THEN <<Link("transit", 9, 1)>> ELSE <<>>)
    \o (IF r = 3 THEN <<Link("stub", 8, 2), Link("virtual", 7, 1)>> ELSE <<>>)
Pairs == {<<1, 2>>, <<1, 3>>, <<2, 3>>, <<3, 2>>}
Cost(costs, x) == IF x \in Pairs THEN costs[x] ELSE IF x[1] = x[2] THEN 0 ELSE 1
Area(costs, attached, known, present) ==
    [routers |-> [r \in present |->
        LinksOf([x \in (1..3) \X (1..3) |-> Cost(costs, x)], r, attached)],
     networks |-> IF known THEN 9 :> SelectSeq(<<1, 2, 3>>, LAMBDA r : r \in attached)
                  ELSE <<>>]
MCAreas ==
    {Area(c, a, TRUE, 1..3) : c \in [Pairs -> {0, 1, 2, 4}], a \in SUBSET (1..3)}
    \cup {Area([x \in Pairs |-> 1], 1..3, k, r) : k \in BOOLEAN, r \in {{2, 3}, {1, 2}, 1..3}}

ribState == <<adj, loc>>
peeringState == <<fsm, timers, up, inbox, dialling, events>>
all == <<part, ribState, peeringState, floodVars, spfVars, neighborVars>>

\* The calculation is only started in the behaviours about it.
SpfIdle == SpfInit /\ DOMAIN area.routers = {2, 3} /\ DOMAIN area.networks = {9}

MCInit ==
    /\ part \in Parts
    /\ RibInit /\ PeeringInit /\ NeighborInit
    /\ IF part = "flood" THEN FloodInit
       ELSE FloodInit /\ first = CHOOSE f \in FirstSeqs : TRUE
    /\ IF part = "spf" THEN SpfInit ELSE SpfIdle

MCNext ==
    /\ UNCHANGED part
    /\ \/ part = "rib" /\ RibNext /\ UNCHANGED <<peeringState, floodVars, spfVars, neighborVars>>
       \/ part = "peering" /\ PeeringNext /\ UNCHANGED <<ribState, floodVars, spfVars, neighborVars>>
       \/ part = "flood" /\ FloodNext /\ UNCHANGED <<ribState, peeringState, spfVars, neighborVars>>
       \/ part = "spf" /\ SpfNext /\ UNCHANGED <<ribState, peeringState, floodVars, neighborVars>>
       \/ part = "neighbor" /\ NeighborNext /\ UNCHANGED <<ribState, peeringState, floodVars, spfVars>>

MCSpec == MCInit /\ [][MCNext]_all
=============================================================================
