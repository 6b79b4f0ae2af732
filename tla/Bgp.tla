-------------------------------- MODULE Bgp ---------------------------------
(***************************************************************************)
(* The routing information base of tpt-bgp (rib.rs): the Adj-RIB-In keeps  *)
(* the routes of every peer in arrival order, the Loc-RIB the one that a   *)
(* single pass of the pairwise decision process leaves standing.           *)
(*                                                                         *)
(* A route is a record of what the decision looks at: local_pref (0 when   *)
(* absent), segments (path_length), origin (3 when absent), neighbour (the *)
(* first AS of the path), med (0 when absent), is_ibgp and peer; denied    *)
(* stands for the attributes an import policy may look at.                 *)
(***************************************************************************)
EXTENDS Integers, Sequences, SequencesExt

CONSTANTS Destinations, \* destination prefixes
          Offers,       \* the routes peers may advertise
          PolicyPref    \* the LOCAL_PREF the import policy sets
VARIABLES adj,          \* Adj-RIB-In: per prefix, its routes in order
          loc           \* Loc-RIB: per prefix, the best route or NoRoute
ribVars == <<adj, loc>>

NoRoute == [peer |-> 0]
Routes == [peer : Nat, is_ibgp : BOOLEAN, local_pref : Nat, segments : Nat, origin : Nat, neighbour : Nat, med : Nat,
           denied : BOOLEAN]
\* What peers advertise, and what the policy makes of it, are routes.
RibConstants == Offers \subseteq Routes /\ PolicyPref \in Nat

\* The routes are among those advertised, a peer has at most one per prefix and
\* kind of session, so that a withdrawal or a replacement leaves nothing
\* behind, and the Loc-RIB has a route of the Adj-RIB-In.
RibTypeOK ==
    /\ \A p \in Destinations : \A i \in DOMAIN adj[p] :
          \E o \in Offers : adj[p][i] \in {o, [o EXCEPT !.local_pref = PolicyPref]}
    /\ \A p \in Destinations : \A i, j \in DOMAIN adj[p] :
          adj[p][i].peer = adj[p][j].peer /\ adj[p][i].is_ibgp = adj[p][j].is_ibgp => i = j
    /\ \A p \in Destinations : loc[p] = NoRoute \/ loc[p] \in Range(adj[p])

RibInit == adj = [p \in Destinations |-> <<>>] /\ loc = [p \in Destinations |-> NoRoute]

-----------------------------------------------------------------------------
\* Mutant: a lower LOCAL_PREF wins.
compare_LowPref(cur, can) == cur = NoRoute \/ can.local_pref < cur.local_pref

\* compare = Greater: the candidate takes the place of the current best.
compare(cur, can) ==
    \/ cur = NoRoute
    \/ /\ cur # NoRoute
       /\ LET same(f) == cur[f] = can[f]
              lower(f) == can[f] < cur[f]
              medSays == cur.neighbour = can.neighbour /\ cur.med # can.med
          IN \/ can.local_pref > cur.local_pref
             \/ /\ same("local_pref")
                /\ \/ lower("segments")
                   \/ same("segments") /\ lower("origin")
                   \/ /\ same("segments") /\ same("origin")
                      /\ IF medSays THEN lower("med")
                         ELSE IF same("is_ibgp") THEN lower("peer")
                         ELSE ~can.is_ibgp

\* The route left after one pass over the routes of a prefix.
Selected(routes) ==
    LET best[n \in 0 .. Len(routes)] ==
            IF n = 0 THEN NoRoute ELSE IF compare(best[n - 1], routes[n]) THEN routes[n] ELSE best[n - 1]
    IN  best[Len(routes)]

\* Every change of the Adj-RIB-In ends with a new selection for its prefix.
recompute(p, routes) ==
    /\ adj' = [adj EXCEPT ![p] = routes]
    /\ loc' = [loc EXCEPT ![p] = Selected(routes)]

SameSource(r, s) == r.peer = s.peer /\ r.is_ibgp = s.is_ibgp

\* Mutant: an advertisement never replaces the peer's earlier one.
insert_Append(p, r) == recompute(p, Append(adj[p], r))

insert(p, r) ==
    LET at == {i \in DOMAIN adj[p] : SameSource(adj[p][i], r)}
    IN recompute(p, IF at = {} THEN Append(adj[p], r)
                    ELSE [i \in DOMAIN adj[p] |-> IF i \in at THEN r ELSE adj[p][i]])

\* The policy of the caller: refuses some routes and marks the ones it takes.
apply(r) == [r EXCEPT !.local_pref = PolicyPref]

insert_with_policy(p, r) == ~r.denied /\ insert(p, apply(r))

\* The routes of the other peers, in their order.
retain(routes, peer) ==
    LET kept[n \in 0 .. Len(routes)] ==
            IF n = 0 THEN <<>> ELSE IF routes[n].peer # peer THEN Append(kept[n - 1], routes[n]) ELSE kept[n - 1]
    IN  kept[Len(routes)]

withdraw(p, peer) == recompute(p, retain(adj[p], peer))

RibNext ==
    \E p \in Destinations :
        \/ \E r \in Offers : insert(p, r) \/ insert_with_policy(p, r)
        \/ \E r \in Offers : withdraw(p, r.peer)

RibSpec == RibInit /\ [][RibNext]_ribVars

-----------------------------------------------------------------------------
\* The routes of R that have the least (greatest) value of a field.
Least(R, f) == {r \in R : \A s \in R : r[f] <= s[f]}
Greatest(R, f) == {r \in R : \A s \in R : r[f] >= s[f]}
External(R) == IF \E r \in R : ~r.is_ibgp THEN {r \in R : ~r.is_ibgp} ELSE R

(***************************************************************************)
(* The decision as successive elimination over the set of routes (RFC      *)
(* 4271 9.1.2.2), without any order of arrival.                            *)
(***************************************************************************)
Elected(R) ==
    LET short == Least(Least(Greatest(R, "local_pref"), "segments"), "origin")
        cheap == {r \in short : \A s \in short : s.neighbour = r.neighbour => r.med <= s.med}
    IN Least(External(cheap), "peer")

\* The MEDs of all routes can be compared with each other.
Comparable(R) == \A r, s \in R : r.neighbour = s.neighbour \/ r.med = s.med

\* The Loc-RIB entry is the route the elimination elects, whatever the order
\* in which peers advertised, replaced and withdrew their routes, as long as
\* the MEDs can be compared (otherwise one pairwise pass depends on the order).
BestIsElected ==
    \A p \in Destinations :
        LET R == Range(adj[p])
        IN /\ loc[p] = NoRoute <=> R = {}
           /\ R # {} /\ Comparable(R) => Elected(R) = {loc[p]}

-----------------------------------------------------------------------------
(***************************************************************************)
(* Two BGP speakers, each driven by the peer state machine of tpt-bgp      *)
(* (fsm.rs, on_event), over TCP.  The caller feeds events and performs the *)
(* actions returned; it keeps one connection to the peer, refuses incoming *)
(* ones while the machine is Idle, and closes a second connection once the *)
(* machine has been told of it.  Timers are never stopped by the machine,  *)
(* so a timer that was started may expire in any later state.              *)
(***************************************************************************)
CONSTANTS Speakers,    \* the two BGP identifiers, as numbers
          MaxEvents    \* administrative, timer and dialling events in a behaviour
ASSUME PeeringAssumption ==
    /\ Speakers \subseteq Nat \ {0}
    /\ \E a, b \in Speakers : a # b /\ Speakers = {a, b}
    /\ MaxEvents \in Nat
VARIABLES fsm,         \* per speaker: state and remote_bgp_id (0: none)
          timers,      \* per speaker: the timers running
          up,          \* per speaker: its end of the connection is open
          inbox,       \* per speaker: what its end has still to read, in order
          dialling,    \* per speaker: a connection attempt is under way
          events
peeringVars == <<fsm, timers, up, inbox, dialling, events>>

Other(p) == CHOOSE q \in Speakers : q # p

States == {"Idle", "Connect", "Active", "OpenSent", "OpenConfirm", "Established"}
Messages == {"SendOpen", "SendKeepalive", "SendNotification"}
Timers == {"StartConnectRetryTimer", "StartHoldTimer", "StartKeepaliveTimer",
           "StartDelayOpenTimer", "StartIdleHoldTimer"}
\* The timers whose expiry is an event of the machine.
Expiry == [StartHoldTimer |-> "HoldTimerExpired", StartKeepaliveTimer |-> "KeepaliveTimerExpired",
           StartDelayOpenTimer |-> "DelayOpenTimerExpired", StartIdleHoldTimer |-> "IdleHoldTimerExpired"]
Read == {"TcpConnectionValid", "TcpConnectionOpened", "TcpClose", "SendOpen", "SendKeepalive",
         "SendNotification"}

PeeringTypeOK ==
    /\ fsm \in [Speakers -> [state : States, remote : Speakers \cup {0}]]
    /\ timers \in [Speakers -> SUBSET Timers]
    /\ up \in [Speakers -> BOOLEAN] /\ dialling \in [Speakers -> BOOLEAN]
    /\ \A p \in Speakers : Range(inbox[p]) \subseteq Read /\ (inbox[p] # <<>> => up[p])
    /\ events \in 0..MaxEvents

PeeringInit ==
    /\ fsm = [p \in Speakers |-> [state |-> "Idle", remote |-> 0]]
    /\ timers = [p \in Speakers |-> {}]
    /\ up = [p \in Speakers |-> FALSE] /\ dialling = [p \in Speakers |-> FALSE]
    /\ inbox = [p \in Speakers |-> <<>>] /\ events = 0

-----------------------------------------------------------------------------
Row(in, on, next, do) == [in |-> in, on |-> on, next |-> next, do |-> do]

Dial == <<"InitiateTcpConnection", "StartConnectRetryTimer", "StartDelayOpenTimer">>
Greet == <<"SendOpen", "StartHoldTimer">>
Drop == <<"ReleaseTcpConnection", "StartIdleHoldTimer">>
Refuse == <<"SendNotification", "ReleaseTcpConnection", "StartIdleHoldTimer">>
Connected == {"TcpConnectionValid", "TcpConnectionOpened"}

\* The arms of on_event whose outcome depends on state and event alone.
Arms == {
    Row({"Idle"}, {"ManualStart", "IdleHoldTimerExpired"}, "Connect", Dial),
    Row({"Connect", "Active"}, {"ManualStop"}, "Idle", Drop),
    Row({"Connect", "Active"}, Connected \cup {"DelayOpenTimerExpired"}, "OpenSent", Greet),
    Row({"Connect"}, {"TcpConnectionFailed"}, "Idle",
        <<"StartConnectRetryTimer", "StartIdleHoldTimer">>),
    Row({"Connect"}, {"BgpOpenInvalid"}, "Idle", Refuse),
    Row({"Active"}, {"TcpConnectionFailed"}, "Connect", Dial),
    Row({"OpenSent"}, {"ManualStop", "BgpOpenInvalid", "HoldTimerExpired"}, "Idle", Refuse),
    Row({"OpenSent"}, {"NotificationReceived"}, "Idle", Drop),
    Row({"OpenSent"}, {"BgpOpenValid"}, "OpenConfirm", <<"SendKeepalive", "StartKeepaliveTimer">>),
    Row({"OpenSent"}, {"TcpClose"}, "Idle", <<"StartIdleHoldTimer">>),
    Row({"OpenConfirm"}, {"ManualStop", "BgpOpenInvalid"}, "Idle", Refuse),
    Row({"OpenConfirm"}, {"TcpClose", "HoldTimerExpired", "NotificationReceived"}, "Idle", Drop),
    Row({"OpenConfirm", "Established"}, {"KeepaliveReceived"}, "Established", <<"StartHoldTimer">>),
    Row({"Established"}, {"KeepaliveTimerExpired"}, "Established",
        <<"SendKeepalive", "StartKeepaliveTimer">>),
    Row({"Established"}, {"ManualStop", "TcpClose", "HoldTimerExpired", "BgpOpenInvalid",
                          "NotificationReceived"}, "Idle", Refuse)}

\* A further connection while one is being opened (section 6.8).
Collision(p) ==
    LET s == fsm[p].state
    IN IF fsm[p].remote = 0 THEN Row({s}, Connected, s, IF s = "OpenSent" THEN <<"SendOpen">> ELSE <<>>)
       ELSE IF p <= fsm[p].remote THEN Row({s}, Connected, s, <<"ReleaseTcpConnection">>)
       ELSE Row({s}, Connected, "Idle", IF s = "OpenConfirm" THEN Refuse ELSE Drop)

\* The arm taken; any other event leaves the machine as it is.
Arm(p, event) ==
    LET s == fsm[p].state
        taken == {a \in Arms : s \in a.in /\ event \in a.on}
    IN IF s \in {"OpenSent", "OpenConfirm"} /\ event \in Connected THEN Collision(p)
       ELSE IF taken # {} THEN CHOOSE a \in taken : TRUE
       ELSE Row({s}, {event}, s, <<>>)

\* Mutant: the hold timer ends the session without closing the connection.
fsm_on_event_HoldKeeps(p, event) ==
    LET a == Arm(p, event)
        do == IF event = "HoldTimerExpired" /\ fsm[p].state = "Established"
              THEN <<"StartIdleHoldTimer">> ELSE a.do
    IN [state |-> a.next, do |-> do,
        remote |-> IF a.next = "Idle" THEN 0
                   ELSE IF fsm[p].state = "OpenSent" /\ event = "BgpOpenValid" THEN Other(p)
                   ELSE fsm[p].remote]

fsm_on_event(p, event) ==
    LET a == Arm(p, event)
    IN [state |-> a.next, do |-> a.do,
        remote |-> IF a.next = "Idle" THEN 0
                   ELSE IF fsm[p].state = "OpenSent" /\ event = "BgpOpenValid" THEN Other(p)
                   ELSE fsm[p].remote]

-----------------------------------------------------------------------------
\* The caller feeds an event and performs the actions; unread is what p's end
\* has to read after it.  No arm sends more than one message.  The connection is
\* closed when the machine gives it up, not when it only refuses a second one.
Feed(p, event, unread) ==
    LET out == fsm_on_event(p, event)
        does == Range(out.do)
        q == Other(p)
        sends == IF does \intersect Messages = {} THEN <<>> ELSE <<CHOOSE m \in does : m \in Messages>>
        closes == event = "TcpClose" \/ ("ReleaseTcpConnection" \in does /\ out.state = "Idle")
    IN /\ fsm' = [fsm EXCEPT ![p] = [state |-> out.state, remote |-> out.remote]]
       /\ up' = [up EXCEPT ![p] = @ /\ ~closes]
       /\ inbox' = [inbox EXCEPT
             ![p] = IF closes THEN <<>> ELSE unread,
             ![q] = IF up[p] /\ up[q]
                    THEN @ \o sends \o (IF closes THEN <<"TcpClose">> ELSE <<>>) ELSE @]
       /\ dialling' = [dialling EXCEPT ![p] =
             "InitiateTcpConnection" \in does
             \/ (@ /\ ~closes /\ event # "TcpConnectionFailed")]
       /\ timers' = [timers EXCEPT ![p] =
             {t \in @ : t \notin DOMAIN Expiry \/ Expiry[t] # event} \cup (does \cap Timers)]

Spontaneous == events < MaxEvents /\ events' = events + 1

Admin(p, event) == Spontaneous /\ Feed(p, event, inbox[p])

Expires(p, t) == t \in timers[p] /\ Spontaneous /\ Feed(p, Expiry[t], inbox[p])

\* What p's end reads next, as an event; the caller's validation of an OPEN
\* may refuse it.
Reads(p) ==
    /\ inbox[p] # <<>>
    /\ LET m == Head(inbox[p])
           rest == Tail(inbox[p])
       IN \/ m = "SendOpen" /\ UNCHANGED events /\ Feed(p, "BgpOpenValid", rest)
          \/ m = "SendOpen" /\ Spontaneous /\ Feed(p, "BgpOpenInvalid", rest)
          \/ m = "SendKeepalive" /\ UNCHANGED events /\ Feed(p, "KeepaliveReceived", rest)
          \/ m = "SendNotification" /\ UNCHANGED events /\ Feed(p, "NotificationReceived", rest)
          \/ m \notin Messages /\ UNCHANGED events /\ Feed(p, m, rest)

\* The attempt of p succeeds: as the connection, or as a second one.
DialSucceeds(p) ==
    LET q == Other(p)
    IN /\ dialling[p] /\ Spontaneous
       /\ up[p] = up[q] /\ fsm[q].state # "Idle"
       /\ up' = [s \in Speakers |-> TRUE]
       /\ inbox' = [inbox EXCEPT ![p] = Append(@, "TcpConnectionValid"),
                                 ![q] = Append(@, "TcpConnectionOpened")]
       /\ dialling' = [dialling EXCEPT ![p] = FALSE]
       /\ UNCHANGED <<fsm, timers>>

DialFails(p) == dialling[p] /\ Spontaneous /\ Feed(p, "TcpConnectionFailed", inbox[p])

PeeringNext ==
    \E p \in Speakers :
        \/ \E e \in {"ManualStart", "ManualStop"} : Admin(p, e)
        \/ \E t \in DOMAIN Expiry : Expires(p, t)
        \/ Reads(p) \/ DialSucceeds(p) \/ DialFails(p)

PeeringSpec == PeeringInit /\ [][PeeringNext]_peeringVars

-----------------------------------------------------------------------------
\* A speaker that is Established on an open connection has a peer that
\* accepted its OPEN on that connection and has not given it up: no order of
\* stops, stale timers, refused OPENs, reconnections and second connections
\* leaves one side Established against a peer that is starting over.
EstablishedAgrees ==
    \A p \in Speakers :
        fsm[p].state = "Established" /\ up[Other(p)] =>
            fsm[Other(p)].state \in {"OpenConfirm", "Established"}
=============================================================================
