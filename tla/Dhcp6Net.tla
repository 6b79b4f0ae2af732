------------------------------ MODULE Dhcp6Net ------------------------------
(***************************************************************************)
(* DHCPv6 clients and one server (tpt-dhcpv6/src/client.rs, server.rs,     *)
(* memory.rs) on a network as in DhcpNet.  A client has one IA_NA, so its  *)
(* leases are told apart by the client alone; the addresses a client names *)
(* in a request are left out, since confirm goes by that key.  An IA in a  *)
(* reply is the set of its addresses, empty where it carries a status; it  *)
(* is not there in the replies to Release, Decline and Information-request.*)
(***************************************************************************)
EXTENDS Integers, FiniteSets

CONSTANTS Clients, Pool, LeaseDuration, Foreign, MaxXid, MaxTime, MaxNet, MayFail   \* as in DhcpNet

VARIABLES leases, declined,     \* MemoryLeaseStore: client -> lease, address -> end of its probation
          host,                 \* the Client of each host
          upward, downward,     \* messages to the server(s) and back
          clock
dhcp6Vars == <<leases, declined, host, upward, downward, clock>>
store6 == <<leases, declined>>

Nowhere == [a \in {} |-> 0]
NoLease == [addresses |-> {}, obtained_at |-> 0]

Dhcp6Init ==
    /\ leases = Nowhere /\ declined = Nowhere
    /\ host = [c \in Clients |-> [state |-> "Init", xid |-> 0, lease |-> NoLease]]
    /\ upward = {} /\ downward = {} /\ clock = 0

-----------------------------------------------------------------------------
(* The client. *)

is_expired(l) == clock - l.obtained_at >= LeaseDuration

\* The address is the client's by its own reckoning.
Uses(c, a) ==
    /\ host[c].state \in {"Bound", "Renewing", "Rebinding"}
    /\ a \in host[c].lease.addresses /\ ~is_expired(host[c].lease)

\* Whether the request is meant for the server it was selected from, and whether it has an IA.
base_request(c, type, sid, ia) == [type |-> type, client |-> c, xid |-> host'[c].xid, sid |-> sid, ia |-> ia]

Send(m) ==
    /\ Cardinality(upward) < MaxNet
    /\ \/ upward' = upward \union {m}
       \/ "lose" \in MayFail /\ upward' = upward

\* A call of the application opens a new exchange.
Call(c, state, lease, type, sid, ia) ==
    /\ host[c].xid < MaxXid
    /\ host' = [host EXCEPT ![c] = [state |-> state, xid |-> @.xid + 1, lease |-> lease]]
    /\ Send(base_request(c, type, sid, ia))
    /\ UNCHANGED <<store6, downward, clock>>

start_solicit(c) == Call(c, "Selecting", NoLease, "Solicit", FALSE, TRUE)
information_request(c) == Call(c, "Requesting", host[c].lease, "Information", FALSE, FALSE)

\* The caller gives back or declines an address only while its lease runs.
Running(c) == host[c].state = "Bound" /\ ~is_expired(host[c].lease)
start_renew(c) == host[c].state = "Bound" /\ Call(c, "Renewing", host[c].lease, "Request", FALSE, TRUE)
start_rebind(c) == host[c].state = "Bound" /\ Call(c, "Rebinding", host[c].lease, "Request", FALSE, TRUE)
release_call(c) == Running(c) /\ Call(c, "Releasing", host[c].lease, "Release", TRUE, TRUE)
decline_call(c) == Running(c) /\ Call(c, "Declining", host[c].lease, "Decline", TRUE, TRUE)

\* The REQUEST names the addresses of the ADVERTISE; without any it has no IA.
receive_advertise(c, m) ==
    /\ host[c].state = "Selecting" /\ m.type = "Advertise" /\ m.xid = host[c].xid
    /\ host' = [host EXCEPT ![c].state = "Requesting"]
    /\ Send(base_request(c, "Request", TRUE, m.addresses # {}))

Waiting == {"Requesting", "Renewing", "Rebinding", "Releasing", "Declining"}

\* Whatever the REPLY says of the IA the client is Bound, with the addresses there are.  A status of
\* failure outside of the IA, which would return it to Init, no server of the model sends.
receive_reply(c, m) ==
    /\ host[c].state \in Waiting /\ m.type = "Reply" /\ m.xid = host[c].xid
    /\ host' = [host EXCEPT ![c] =
          IF @.state \in {"Releasing", "Declining"}
          THEN [@ EXCEPT !.lease = NoLease, !.state = "Init"]
          ELSE [@ EXCEPT !.lease = [addresses |-> m.addresses, obtained_at |-> clock], !.state = "Bound"]]
    /\ UNCHANGED upward

Unexpected(c, m) ==
    \/ m.xid # host[c].xid
    \/ m.type = "Advertise" /\ host[c].state # "Selecting"
    \/ m.type = "Reply" /\ host[c].state \notin Waiting

\* Messages of one client arrive in the order of their exchanges unless reordering is allowed.
InOrder(net, m) == "reorder" \in MayFail \/ \A o \in net : o.client = m.client => m.xid <= o.xid
Left(net, m) == IF "duplicate" \in MayFail THEN {net, net \ {m}} ELSE {net \ {m}}

HostReceives(c) ==
    \E m \in downward :
        /\ m.client = c /\ InOrder(downward, m)
        /\ downward' \in Left(downward, m)
        /\ receive_advertise(c, m) \/ receive_reply(c, m) \/ (Unexpected(c, m) /\ UNCHANGED <<host, upward>>)
        /\ UNCHANGED <<store6, clock>>

-----------------------------------------------------------------------------
(* The server and its store. *)

Granted(a) == [address |-> a, expires_at |-> clock + LeaseDuration]

\* Mutant: the reply promises the whole duration, the store keeps the old end.
refresh_Unmoved(l) == l
refresh(l) == [l EXCEPT !.expires_at = clock + LeaseDuration]

prune(ls) == [c \in {d \in DOMAIN ls : clock < ls[d].expires_at} |-> ls[c]]

\* The addresses that can be picked, of which the first is.
pick_address(ls) ==
    LET used == {ls[c].address : c \in DOMAIN ls}
        probation == {a \in DOMAIN declined : declined[a] > clock}
    IN  {a \in Pool : a \notin used \union probation /\ \A b \in Pool : b < a => b \in used \union probation}

base_reply(type, m, addresses) == [type |-> type, client |-> m.client, xid |-> m.xid, addresses |-> addresses]
Answer(r) == downward' = downward \union {r}

Solicit(m) ==
    LET live == prune(leases)
        l == IF m.client \in DOMAIN live THEN {refresh(live[m.client])} ELSE {Granted(a) : a \in pick_address(live)}
    IN  /\ leases' = [c \in DOMAIN live \union {d \in {m.client} : l # {}} |->
                        IF c = m.client THEN CHOOSE x \in l : TRUE ELSE live[c]]
        /\ declined' = [a \in {b \in DOMAIN declined : declined[b] > clock} |-> declined[a]]
        /\ Answer(base_reply("Advertise", m, {x.address : x \in l}))

\* confirm does not look at the time.  Another server, which has no binding, answers a request without
\* a server identifier as well.
Request(m) ==
    LET has == m.client \in DOMAIN leases
        others == IF Foreign /\ ~m.sid THEN {base_reply("Reply", m, {})} ELSE {}
        own == base_reply("Reply", m, IF has THEN {leases[m.client].address} ELSE {})
    IN  /\ leases' = IF has THEN [leases EXCEPT ![m.client] = refresh(@)] ELSE leases
        /\ downward' = downward \union {own} \union others
        /\ UNCHANGED declined

Without(c) == [d \in DOMAIN leases \ {c} |-> leases[d]]

Release(m) ==
    /\ leases' = Without(m.client)
    /\ Answer(base_reply("Reply", m, {}))
    /\ UNCHANGED declined

Decline(m) ==
    /\ leases' = Without(m.client)
    /\ LET refused == {leases[c].address : c \in {m.client} \cap DOMAIN leases}
       IN  declined' = [a \in refused \union DOMAIN declined |->
                           IF a \in refused THEN clock + LeaseDuration ELSE declined[a]]
    /\ Answer(base_reply("Reply", m, {}))

Information(m) == Answer(base_reply("Reply", m, {})) /\ UNCHANGED store6

process(m) ==
    \/ m.type = "Solicit" /\ Solicit(m)
    \/ m.type = "Request" /\ m.ia /\ Request(m)
    \/ m.type = "Request" /\ ~m.ia /\ UNCHANGED <<store6, downward>>
    \/ m.type = "Release" /\ Release(m)
    \/ m.type = "Decline" /\ Decline(m)
    \/ m.type = "Information" /\ Information(m)

ServerReceives ==
    \E m \in upward :
        /\ InOrder(upward, m)
        /\ Cardinality(downward) < MaxNet
        /\ upward' \in Left(upward, m)
        /\ process(m)
        /\ UNCHANGED <<host, clock>>

LoseReply ==
    /\ "lose" \in MayFail
    /\ \E m \in downward : downward' = downward \ {m}
    /\ UNCHANGED <<store6, host, upward, clock>>

Tick ==
    /\ clock < MaxTime
    /\ "delay" \in MayFail \/ (upward = {} /\ downward = {})
    /\ clock' = clock + 1
    /\ UNCHANGED <<store6, host, upward, downward>>

Dhcp6Next ==
    \/ \E c \in Clients :
          \/ start_solicit(c) \/ information_request(c) \/ start_renew(c) \/ start_rebind(c)
          \/ release_call(c) \/ decline_call(c) \/ HostReceives(c)
    \/ ServerReceives \/ LoseReply \/ Tick

Dhcp6Spec == Dhcp6Init /\ [][Dhcp6Next]_dhcp6Vars

-----------------------------------------------------------------------------
\* The store, the clients and the clock have their types.
Dhcp6TypeOK ==
    /\ DOMAIN leases \subseteq Clients /\ \A c \in DOMAIN leases : leases[c].address \in Pool
    /\ DOMAIN declined \subseteq Pool
    /\ \A c \in Clients : host[c].state \in Waiting \union {"Init", "Selecting", "Bound"}
    /\ clock \in 0 .. MaxTime

\* A client that uses an address is the one the server's store has it leased to until a time that has not
\* passed, no two clients have leases of one address, and one that was declined is in nobody's lease
\* before its probation is over ("held out of allocation for a probation period", lease.rs).
LeasedToItsUser ==
    /\ \A c \in Clients, a \in Pool : Uses(c, a) =>
          c \in DOMAIN leases /\ leases[c].address = a /\ leases[c].expires_at > clock
    /\ \A c, d \in DOMAIN leases : leases[c].address = leases[d].address => c = d
    /\ \A c \in DOMAIN leases, a \in DOMAIN declined : leases[c].address = a => declined[a] <= clock
=============================================================================
