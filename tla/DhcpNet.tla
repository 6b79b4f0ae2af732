------------------------------ MODULE DhcpNet -------------------------------
(***************************************************************************)
(* The in-memory lease backend of a DHCP server (tpt-dhcp/src/lease.rs and *)
(* memory.rs).  A store is a record of two partial functions on the        *)
(* addresses: the leases and, for declined addresses, the end of their     *)
(* probation.  Each LeaseStore method is an operator on stores; client_id  *)
(* stands for the identity option 61 or the MAC gives, mac is left out.    *)
(***************************************************************************)
EXTENDS Integers, FiniteSets

CONSTANTS
    Clients,
    Pool,           \* pool_start..pool_end: the addresses one store manages
    LeaseDuration   \* PoolConfig::lease_duration

UNSPECIFIED == 0

ASSUME StoreAssumption ==
    /\ Pool \subseteq Nat \ {UNSPECIFIED}
    /\ LeaseDuration \in Nat \ {0}

Lease == [client_id : Clients, expires_at : Nat]

IsStore(st) ==
    /\ DOMAIN st.leases \subseteq Pool /\ \A i \in DOMAIN st.leases : st.leases[i] \in Lease
    /\ DOMAIN st.declined \subseteq Pool /\ \A i \in DOMAIN st.declined : st.declined[i] \in Nat

NewStore == [leases |-> [i \in {} |-> UNSPECIFIED], declined |-> [i \in {} |-> UNSPECIFIED]]

Put(f, k, v) == [i \in DOMAIN f \union {k} |-> IF i = k THEN v ELSE f[i]]
Keep(f, A) == [i \in DOMAIN f \intersect A |-> f[i]]

is_expired(l, now) == now >= l.expires_at

is_declined(st, ip, now) == ip \in DOMAIN st.declined /\ st.declined[ip] > now

prune_Early(st, now) ==
    [st EXCEPT !.leases = Keep(@, {i \in Pool : i \in DOMAIN @ => @[i].expires_at > now + 1})]

prune(st, now) ==
    [leases |-> Keep(st.leases, {i \in Pool : i \in DOMAIN st.leases => ~is_expired(st.leases[i], now)}),
     declined |-> Keep(st.declined, {i \in Pool : i \in DOMAIN st.declined => st.declined[i] > now})]

make_lease(c, now) == [client_id |-> c, expires_at |-> now + LeaseDuration]

\* The test both the requested address and the scan of the pool go through.
available_TookAny(st, ip, c, now) ==
    ip \in DOMAIN st.leases \/ ~is_declined(st, ip, now)

available(st, ip, c, now) ==
    IF ip \in DOMAIN st.leases THEN st.leases[ip].client_id = c
                               ELSE ~is_declined(st, ip, now)

\* acquire: the requested address if it is available, else the first available
\* one of the pool; {} is PoolExhausted.
chosen(st, c, requested, now) ==
    LET found == {i \in Pool : available(st, i, c, now)}
    IN  IF requested \in found THEN {requested}
        ELSE {i \in found : \A j \in found : i <= j}

granted(st, ip, c, now) ==
    [leases |-> Put(st.leases, ip, make_lease(c, now)), declined |-> st.declined]

\* The store acquire leaves behind: it is pruned also when the pool is exhausted.
acquire(st, c, requested, now) ==
    LET pruned == prune(st, now)
        ips    == chosen(pruned, c, requested, now)
    IN  IF ips = {} THEN pruned
        ELSE granted(pruned, CHOOSE i \in ips : TRUE, c, now)

\* confirm succeeds on a lease of this client, whether it has expired or not.
can_confirm(st, ip, c) == ip \in DOMAIN st.leases /\ st.leases[ip].client_id = c

confirm_NotRenewed(st, ip, c, now) == st

confirm(st, ip, c, now) == IF can_confirm(st, ip, c) THEN granted(st, ip, c, now) ELSE st

release(st, ip) == [leases |-> Keep(st.leases, Pool \ {ip}), declined |-> st.declined]

decline(st, ip, now) ==
    [leases   |-> Keep(st.leases, Pool \ {ip}),
     declined |-> Put(st.declined, ip, now + LeaseDuration)]

-----------------------------------------------------------------------------
(***************************************************************************)
(* DHCP clients and one server (tpt-dhcp/src/client.rs, server.rs) on a    *)
(* network that loses, delays, duplicates and reorders messages as far as  *)
(* MayFail allows.  A message keeps what the two state machines look at;   *)
(* xid is a pair of the client and a counter, because the generator of the *)
(* code is only meant to tell the exchanges of one client apart.           *)
(* The client's parameter request list names neither the lease time nor T1 *)
(* and T2, so no reply to it carries them and the client falls back on its *)
(* default of 3600 s: ClientLeaseTime here, in units of the model clock.   *)
(***************************************************************************)
CONSTANTS
    Foreign,            \* another server answers rebinding requests too
    ClientLeaseTime,    \* the 3600 s client.rs falls back on
    MaxXid, MaxTime, MaxNet,
    MayFail             \* a subset of Faults

Faults == {"lose", "delay", "duplicate", "reorder", "stale"}

ASSUME NetAssumption ==
    /\ Foreign \in BOOLEAN /\ ClientLeaseTime \in Nat \ {0}
    /\ MaxXid \in Nat /\ MaxTime \in Nat /\ MaxNet \in Nat
    /\ MayFail \subseteq Faults

VARIABLES
    store,      \* the server's LeaseStore
    client,     \* the Client of each host
    toServer,   \* messages on their way to the server(s)
    toClient,   \* replies on their way back
    now,        \* the clock all of them read
    ended,      \* history: <<client, address>> whose use the client ended itself
    acked       \* history: <<client, xid, address>> the server has confirmed

vars == <<store, client, toServer, toClient, now, ended, acked>>

States == {"Init", "Selecting", "Requesting", "Bound", "Renewing", "Rebinding"}

\* Who answers: the server of the model or, for a rebinding request, another one.
Server == "server"
OtherServer == "other"

\* The requests of DhcpMessage: client stands for chaddr and option 61, sid for
\* the presence of the Server Identifier option, requested and ciaddr are 0 when absent.
Requests == [type : {"Discover", "Request", "Release", "Decline"}, client : Clients, xid : 0..MaxXid,
             sid : BOOLEAN, requested : Pool \union {UNSPECIFIED}, ciaddr : Pool \union {UNSPECIFIED}]

Replies == [type : {"Offer", "Ack", "Nak"}, client : Clients, xid : 0..MaxXid,
            sid : {Server, OtherServer}, yiaddr : Pool \union {UNSPECIFIED}]

\* offered and ip are UNSPECIFIED for None.
ClientRec == [state : States, xid : 0..MaxXid, offered : Pool \union {UNSPECIFIED},
              ip : Pool \union {UNSPECIFIED}, obtained_at : Nat]

NewClient == [state |-> "Init", xid |-> 0, offered |-> UNSPECIFIED, ip |-> UNSPECIFIED, obtained_at |-> 0]

Init ==
    /\ store = NewStore
    /\ client = [c \in Clients |-> NewClient]
    /\ toServer = {} /\ toClient = {}
    /\ now = 0
    /\ ended = {} /\ acked = {}

-----------------------------------------------------------------------------
(* The client. *)

lease_expired(r) == now - r.obtained_at >= ClientLeaseTime

\* The client has an address it may still use by its own reckoning.
Uses(c, ip) ==
    /\ client[c].state \in {"Bound", "Renewing", "Rebinding"}
    /\ client[c].ip = ip /\ ip # UNSPECIFIED
    /\ ~lease_expired(client[c])

build_request(c, type, sid, requested, ciaddr) ==
    [type |-> type, client |-> c, xid |-> client'[c].xid, sid |-> sid,
     requested |-> requested, ciaddr |-> ciaddr]

Send(m) ==
    /\ Cardinality(toServer) < MaxNet
    /\ \/ toServer' = toServer \union {m}
       \/ "lose" \in MayFail /\ toServer' = toServer

\* A call that opens a new exchange takes a new xid and moves to state s.
Open(c, s) == client[c].xid < MaxXid /\ client' = [client EXCEPT ![c].state = s, ![c].xid = @ + 1]

start_discover(c) ==
    /\ client[c].xid < MaxXid
    /\ client' = [client EXCEPT ![c].state = "Selecting", ![c].xid = @ + 1, ![c].offered = UNSPECIFIED]
    /\ Send(build_request(c, "Discover", FALSE, UNSPECIFIED, UNSPECIFIED))
    /\ UNCHANGED <<store, toClient, now, ended, acked>>

start_renew(c) ==
    /\ client[c].state = "Bound"
    /\ Open(c, "Renewing")
    /\ Send(build_request(c, "Request", TRUE, UNSPECIFIED, client[c].ip))
    /\ UNCHANGED <<store, toClient, now, ended, acked>>

start_rebind(c) ==
    /\ client[c].state = "Bound"
    /\ Open(c, "Rebinding")
    /\ Send(build_request(c, "Request", FALSE, UNSPECIFIED, client[c].ip))
    /\ UNCHANGED <<store, toClient, now, ended, acked>>

\* The application gives an address back only while its lease runs, unless
\* the fault "stale" is allowed: Client itself does not look at the clock.
release_call(c) ==
    /\ client[c].state = "Bound"
    /\ "stale" \in MayFail \/ ~lease_expired(client[c])
    /\ client[c].xid < MaxXid
    /\ client' = [client EXCEPT ![c].state = "Init", ![c].xid = @ + 1, ![c].ip = UNSPECIFIED]
    /\ Send(build_request(c, "Release", FALSE, UNSPECIFIED, client[c].ip))
    /\ ended' = ended \union {<<c, client[c].ip>>}
    /\ UNCHANGED <<store, toClient, now, acked>>

\* A conflict is reported by the application, which builds the DECLINE itself
\* (as tests/dhcp_integration.rs does) and starts again.
decline_call(c) ==
    /\ client[c].state = "Bound" /\ ~lease_expired(client[c])
    /\ client[c].xid < MaxXid
    /\ client' = [client EXCEPT ![c] = [NewClient EXCEPT !.xid = client[c].xid + 1]]
    /\ Send(build_request(c, "Decline", FALSE, client[c].ip, UNSPECIFIED))
    /\ ended' = ended \union {<<c, client[c].ip>>}
    /\ UNCHANGED <<store, toClient, now, acked>>

\* Replies are delivered in order of their exchange unless reordering is allowed;
\* the copy stays when duplication is.
Deliver(net, m) ==
    /\ "reorder" \in MayFail \/ \A o \in net : o.client = m.client => m.xid <= o.xid

Taken(net, m) == IF "duplicate" \in MayFail THEN {net, net \ {m}} ELSE {net \ {m}}

receive_offer(c, m) ==
    /\ m.type = "Offer" /\ client[c].state = "Selecting" /\ m.xid = client[c].xid
    /\ m.yiaddr # UNSPECIFIED
    /\ client' = [client EXCEPT ![c].offered = m.yiaddr, ![c].state = "Requesting"]
    /\ Send(build_request(c, "Request", TRUE, m.yiaddr, UNSPECIFIED))
    /\ UNCHANGED ended

\* Mutant: a renewal ACK, which carries no yiaddr, overwrites the address.
Commit_Raw(c, m) ==
    /\ client' = [client EXCEPT ![c].ip = m.yiaddr,
                               ![c].obtained_at = now, ![c].offered = UNSPECIFIED, ![c].state = "Bound"]
    /\ ended' = ended \ {<<c, client'[c].ip>>}

\* An ACK commits the lease, a NAK returns the client to Init.
Commit(c, m) ==
    /\ client' = [client EXCEPT ![c].ip = IF m.yiaddr # UNSPECIFIED THEN m.yiaddr ELSE @,
                               ![c].obtained_at = now, ![c].offered = UNSPECIFIED, ![c].state = "Bound"]
    /\ ended' = ended \ {<<c, client'[c].ip>>}

GiveUp(c) ==
    /\ client' = [client EXCEPT ![c] = [NewClient EXCEPT !.xid = client[c].xid]]
    /\ UNCHANGED ended

receive_ack(c, m) ==
    /\ client[c].state \in {"Requesting", "Renewing", "Rebinding"}
    /\ m.xid = client[c].xid
    /\ \/ m.type = "Ack" /\ Commit(c, m)
       \/ m.type = "Nak" /\ GiveUp(c)
    /\ UNCHANGED toServer

\* A message neither call accepts is dropped (None or UnexpectedMessage).
Unexpected(c, m) ==
    \/ m.xid # client[c].xid
    \/ m.type = "Offer" /\ (client[c].state # "Selecting" \/ m.yiaddr = UNSPECIFIED)
    \/ m.type # "Offer" /\ client[c].state \notin {"Requesting", "Renewing", "Rebinding"}

ClientReceives(c) ==
    \E m \in toClient :
        /\ m.client = c /\ Deliver(toClient, m)
        /\ toClient' \in Taken(toClient, m)
        /\ \/ receive_offer(c, m)
           \/ receive_ack(c, m)
           \/ Unexpected(c, m) /\ UNCHANGED <<client, toServer, ended>>
        /\ UNCHANGED <<store, now, acked>>

-----------------------------------------------------------------------------
(* The server. *)

\* build_reply sends yiaddr only to a client that names no address of its own.
build_reply(type, m, from, ip) ==
    [type |-> type, client |-> m.client, xid |-> m.xid, sid |-> from,
     yiaddr |-> IF m.ciaddr = UNSPECIFIED THEN ip ELSE UNSPECIFIED]

\* Server::process: the store afterwards and the replies, for each message type.
Discover(m) ==
    LET ips == chosen(prune(store, now), m.client, m.requested, now)
    IN  /\ store' = acquire(store, m.client, m.requested, now)
        /\ toClient' = toClient \union {build_reply("Offer", m, Server, ip) : ip \in ips}
        /\ UNCHANGED acked

\* A request without a server identifier reaches the other server as well, which
\* has no such lease and answers with a NAK.
Request(m) ==
    LET ip == IF m.requested # UNSPECIFIED THEN m.requested ELSE m.ciaddr
        own == IF can_confirm(store, ip, m.client) THEN build_reply("Ack", m, Server, ip)
                                                   ELSE build_reply("Nak", m, Server, UNSPECIFIED)
        naks == IF Foreign /\ ~m.sid THEN {build_reply("Nak", m, OtherServer, UNSPECIFIED)} ELSE {}
    IN  /\ store' = confirm(store, ip, m.client, now)
        /\ acked' = IF own.type = "Ack" THEN acked \union {<<m.client, m.xid, ip>>} ELSE acked
        /\ toClient' = toClient \union {own} \union naks

Decline(m) ==
    /\ store' = decline(store, m.requested, now)
    /\ UNCHANGED <<toClient, acked>>

Release(m) ==
    /\ store' = release(store, m.ciaddr)
    /\ UNCHANGED <<toClient, acked>>

process(m) ==
    \/ m.type = "Discover" /\ Discover(m)
    \/ m.type = "Request" /\ Request(m)
    \/ m.type = "Decline" /\ Decline(m)
    \/ m.type = "Release" /\ Release(m)

ServerReceives ==
    \E m \in toServer :
        /\ Deliver(toServer, m)
        /\ Cardinality(toClient) < MaxNet
        /\ toServer' \in Taken(toServer, m)
        /\ process(m)
        /\ UNCHANGED <<client, now, ended>>

\* A reply the network drops.
LoseReply ==
    /\ "lose" \in MayFail
    /\ \E m \in toClient : toClient' = toClient \ {m}
    /\ UNCHANGED <<store, client, toServer, now, ended, acked>>

\* Time passes; without the fault "delay" every message arrives within the tick.
Tick ==
    /\ now < MaxTime
    /\ "delay" \in MayFail \/ (toServer = {} /\ toClient = {})
    /\ now' = now + 1
    /\ UNCHANGED <<store, client, toServer, toClient, ended, acked>>

Next ==
    \/ \E c \in Clients :
        \/ start_discover(c) \/ start_renew(c) \/ start_rebind(c)
        \/ release_call(c) \/ decline_call(c) \/ ClientReceives(c)
    \/ ServerReceives \/ LoseReply \/ Tick

Spec == Init /\ [][Next]_vars

-----------------------------------------------------------------------------
(* Properties. *)

\* Store, clients, network and clock have their types.
TypeOK ==
    /\ IsStore(store)
    /\ client \in [Clients -> ClientRec]
    /\ toServer \subseteq Requests /\ toClient \subseteq Replies
    /\ now \in 0..MaxTime
    /\ ended \subseteq Clients \X Pool
    /\ acked \subseteq Clients \X (0..MaxXid) \X Pool

\* No address is in use by two clients at once: what acquire, confirm, release
\* and the expiry of leases on both sides are for.
AddressExclusive ==
    \A c, d \in Clients, ip \in Pool : Uses(c, ip) /\ Uses(d, ip) => c = d

\* A client that uses an address is the one the server's store has it leased to,
\* until a time that has not passed.  It implies AddressExclusive.
ServerAgrees ==
    \A c \in Clients, ip \in Pool : Uses(c, ip) =>
        /\ ip \in DOMAIN store.leases
        /\ store.leases[ip].client_id = c /\ store.leases[ip].expires_at > now

\* A client is Bound only to an address the server confirmed to this client in
\* the exchange the client is in, whatever the network does to the messages:
\* receive_offer and receive_ack look at the state and the xid only.
BoundIsConfirmed ==
    \A c \in Clients : client[c].state = "Bound" =>
        <<c, client[c].xid, client[c].ip>> \in acked

\* A lease that runs never passes directly from one client to another: acquire
\* prunes what has expired and takes what is free or the client's own.
NoTakeover ==
    [][\A ip \in DOMAIN store.leases \intersect DOMAIN store'.leases :
        store.leases[ip].expires_at > now =>
            store'.leases[ip].client_id = store.leases[ip].client_id]_vars

\* The refinement mapping: an address is held by the client it is leased to while that lease runs by
\* the server's clock, and used by a client while the lease runs by the client's own reckoning.
NoClient == "nobody"
Holder == [ip \in Pool |-> IF ip \in DOMAIN store.leases /\ ~is_expired(store.leases[ip], now)
                           THEN store.leases[ip].client_id ELSE NoClient]
InUse == [c \in Clients |-> IF Uses(c, client[c].ip) THEN client[c].ip ELSE UNSPECIFIED]

Service == INSTANCE LeaseService
    WITH Nobody <- NoClient, Nothing <- UNSPECIFIED, holder <- Holder, using <- InUse

\* Server, clients and network implement the service: a lease passes from one client to another only
\* by way of nobody, and it is only ended, by a message or by the clock of the server, when no client
\* uses the address any more by its own reckoning.
Implements == Service!ServiceSpec

\* A lease that runs is removed from the store only if its own client has
\* released or declined the address ("A granted lease: an address bound to a
\* client for a limited time", lease.rs).
LeaseKept ==
    [][\A ip \in DOMAIN store.leases :
        store.leases[ip].expires_at > now /\ ip \notin DOMAIN store'.leases =>
            <<store.leases[ip].client_id, ip>> \in ended]_vars
=============================================================================
