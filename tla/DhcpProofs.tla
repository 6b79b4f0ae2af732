----------------------------- MODULE DhcpProofs -----------------------------
(***************************************************************************)
(* What DhcpNet promises for every set of clients, pool, lease time and    *)
(* pattern of network faults: types, confirmed bindings and no takeover of *)
(* a running lease.  And what it promises while datagrams are only lost    *)
(* and leases are not shorter than clients believe: server and clients     *)
(* agree, no address has two users, running leases are kept, and the whole *)
(* implements LeaseService.  The last part is the same for DHCPv6.         *)
(***************************************************************************)
EXTENDS MCDhcp, TLAPS

\* A request of the exchange its client is in names the address that exchange is
\* about: none as ciaddr while the client selects, its own while it renews.
RequestCurrent(m) ==
    LET r == client[m.client]
    IN  /\ m.xid <= r.xid
        /\ m.type = "Decline" => m.requested \in Pool
        /\ m.type = "Request" /\ m.xid = r.xid =>
            /\ r.state \in {"Selecting", "Requesting"} => m.ciaddr = UNSPECIFIED
            /\ r.state \in {"Renewing", "Rebinding"} =>
                m.requested = UNSPECIFIED /\ m.ciaddr = r.ip

\* An ACK stands for a confirmation of the address it carries or, without one, of
\* the address its client is renewing.
AckCurrent(m) ==
    LET r == client[m.client]
    IN  /\ m.xid <= r.xid
        /\ m.type = "Ack" /\ m.yiaddr # UNSPECIFIED => <<m.client, m.xid, m.yiaddr>> \in acked
        /\ m.type = "Ack" /\ m.yiaddr = UNSPECIFIED /\ m.xid = r.xid =>
            /\ r.state \notin {"Selecting", "Requesting"}
            /\ r.state \in {"Renewing", "Rebinding"} => <<m.client, m.xid, r.ip>> \in acked

IInv ==
    /\ TypeOK
    /\ BoundIsConfirmed
    /\ \A m \in toServer : RequestCurrent(m)
    /\ \A m \in toClient : AckCurrent(m)

-----------------------------------------------------------------------------
(* The methods of MemoryLeaseStore map stores to stores. *)

\* Addresses differ from the unspecified address, and so do what is put and kept.
LEMMA PoolFacts == Pool \subseteq Nat /\ UNSPECIFIED \notin Pool /\ UNSPECIFIED \in Nat /\ LeaseDuration \in Nat
  BY StoreAssumption DEF UNSPECIFIED

\* granted, which acquire and confirm insert a lease with, keeps a store a store.
LEMMA GrantedStore ==
    ASSUME NEW st, IsStore(st),
           NEW ip \in Pool, NEW c \in Clients, NEW t \in Nat
    PROVE  IsStore(granted(st, ip, c, t))
  <1>1. make_lease(c, t) \in Lease
    BY PoolFacts DEF make_lease, Lease
  <1> DEFINE f == Put(st.leases, ip, make_lease(c, t))
  <1>2. granted(st, ip, c, t) = [leases |-> f, declined |-> st.declined]
    BY DEF granted
  <1>3. DOMAIN f \subseteq Pool /\ \A i \in DOMAIN f : f[i] \in Lease
    BY <1>1 DEF Put, IsStore
  <1> HIDE DEF f
  <1> QED BY <1>2, <1>3 DEF IsStore

\* prune, release and decline keep a store a store.
LEMMA KeptStore ==
    ASSUME NEW st, IsStore(st),
           NEW t \in Nat
    PROVE  /\ IsStore(prune(st, t))
           /\ \A ip : IsStore(release(st, ip))
           /\ \A ip \in Pool : IsStore(decline(st, ip, t))
  <1>1. \A A : /\ DOMAIN Keep(st.leases, A) \subseteq Pool
               /\ \A i \in DOMAIN Keep(st.leases, A) : Keep(st.leases, A)[i] \in Lease
    BY DEF Keep, IsStore
  <1>2. \A A : /\ DOMAIN Keep(st.declined, A) \subseteq Pool
               /\ \A i \in DOMAIN Keep(st.declined, A) : Keep(st.declined, A)[i] \in Nat
    BY DEF Keep, IsStore
  <1>3. \A ip \in Pool, v \in Nat : /\ DOMAIN Put(st.declined, ip, v) \subseteq Pool
               /\ \A i \in DOMAIN Put(st.declined, ip, v) : Put(st.declined, ip, v)[i] \in Nat
    BY DEF Put, IsStore
  <1>4. IsStore(prune(st, t))
    BY <1>1, <1>2 DEF IsStore, prune
  <1>5. ASSUME NEW ip PROVE IsStore(release(st, ip))
    BY <1>1 DEF IsStore, release
  <1>6. ASSUME NEW ip \in Pool PROVE IsStore(decline(st, ip, t))
    <2>1. t + LeaseDuration \in Nat
      BY PoolFacts
    <2> QED BY <2>1, <1>1, <1>3 DEF IsStore, decline
  <1> QED BY <1>4, <1>5, <1>6

\* acquire and confirm keep a store a store, and what acquire chooses is in the pool.
LEMMA AcquireStore ==
    ASSUME NEW st, IsStore(st), NEW c \in Clients, NEW req, NEW t \in Nat
    PROVE  /\ IsStore(acquire(st, c, req, t))
           /\ \A ip : IsStore(confirm(st, ip, c, t))
           /\ chosen(prune(st, t), c, req, t) \subseteq Pool
  <1>1. IsStore(prune(st, t))
    BY KeptStore
  <1>2. chosen(prune(st, t), c, req, t) \subseteq Pool
    BY DEF chosen
  <1>3. IsStore(acquire(st, c, req, t))
    BY <1>1, <1>2, GrantedStore DEF acquire
  <1>4. ASSUME NEW ip PROVE IsStore(confirm(st, ip, c, t))
    BY GrantedStore DEF confirm, can_confirm, IsStore
  <1> QED BY <1>2, <1>3, <1>4

\* acquire leaves a lease that still runs with its client.
LEMMA AcquireNoTakeover ==
    ASSUME NEW st, IsStore(st), NEW c \in Clients, NEW req, NEW t \in Nat,
           NEW ip \in DOMAIN st.leases, st.leases[ip].expires_at > t
    PROVE  /\ ip \in DOMAIN acquire(st, c, req, t).leases
           /\ acquire(st, c, req, t).leases[ip].client_id = st.leases[ip].client_id
  <1> DEFINE pr == prune(st, t)
             ips == chosen(pr, c, req, t)
  <1>1. ip \in Pool /\ st.leases[ip].expires_at \in Nat
    BY DEF IsStore, Lease
  <1>2. ip \in DOMAIN pr.leases /\ pr.leases[ip] = st.leases[ip]
    BY <1>1 DEF prune, Keep, is_expired
  <1>3. CASE ips = {}
    BY <1>2, <1>3 DEF acquire
  <1>4. CASE ips # {}
    <2> DEFINE j == CHOOSE i \in ips : TRUE
    <2>1. j \in ips
      BY <1>4
    <2>2. available(pr, j, c, t)
      BY <2>1 DEF chosen
    <2>3. acquire(st, c, req, t) = granted(pr, j, c, t)
      BY <1>4 DEF acquire
    <2>4. j = ip => c = st.leases[ip].client_id
      BY <2>2, <1>2 DEF available
    <2> HIDE DEF j, pr
    <2> QED BY <2>3, <2>4, <1>2 DEF granted, Put, make_lease
  <1> QED BY <1>3, <1>4

-----------------------------------------------------------------------------
(* The system. *)

\* What a call of a client that opens a new exchange preserves: the new xid is
\* above every xid in the network.
LEMMA OpenInv ==
    ASSUME IInv, NEW c \in Clients, NEW r \in ClientRec, NEW m \in Requests,
           client[c].xid < MaxXid, r.xid = client[c].xid + 1, r.state # "Bound",
           client' = [client EXCEPT ![c] = r],
           m.client = c, m.xid = r.xid,
           m.type = "Decline" => m.requested \in Pool,
           m.type = "Request" => r.state \in {"Renewing", "Rebinding"} /\ m.requested = UNSPECIFIED /\ m.ciaddr = r.ip,
           toServer' = toServer \union {m} \/ toServer' = toServer,
           ended' \subseteq Clients \X Pool,
           UNCHANGED <<store, toClient, now, acked>>
    PROVE  IInv'
  <1> USE NetAssumption, PoolFacts
  <1>0. client[c] \in ClientRec /\ client[c].xid \in Nat /\ MaxXid \in Nat
    BY DEF IInv, TypeOK, ClientRec
  <1>1. TypeOK'
    BY DEF IInv, TypeOK
  <1>2. BoundIsConfirmed'
    BY DEF IInv, TypeOK, BoundIsConfirmed
  <1>3. ASSUME NEW n \in toServer' PROVE RequestCurrent(n)'
    <2>1. CASE n = m
      BY <2>1, <1>0 DEF IInv, TypeOK, RequestCurrent, Requests, ClientRec
    <2>2. CASE n \in toServer
      <3>1. RequestCurrent(n) /\ n \in Requests
        BY <2>2 DEF IInv, TypeOK
      <3>2. CASE n.client = c
        <4>1. n.xid <= client[c].xid /\ n.xid \in Nat
          BY <3>1, <3>2 DEF RequestCurrent, Requests
        <4> QED BY <4>1, <3>1, <3>2, <1>0 DEF IInv, TypeOK, RequestCurrent
      <3>3. CASE n.client # c
        <4>1. client'[n.client] = client[n.client]
          BY <3>3, <3>1 DEF IInv, TypeOK, Requests
        <4> QED BY <4>1, <3>1 DEF RequestCurrent
      <3> QED BY <3>2, <3>3
    <2> QED BY <2>1, <2>2
  <1>4. ASSUME NEW n \in toClient' PROVE AckCurrent(n)'
    <2>1. n \in toClient /\ AckCurrent(n) /\ n \in Replies
      BY DEF IInv, TypeOK
    <2>2. CASE n.client = c
      <3>1. n.xid <= client[c].xid /\ n.xid \in Nat
        BY <2>1, <2>2 DEF AckCurrent, Replies
      <3> QED BY <3>1, <2>1, <2>2, <1>0 DEF IInv, TypeOK, AckCurrent
    <2>3. CASE n.client # c
      <3>1. client'[n.client] = client[n.client]
        BY <2>3, <2>1 DEF IInv, TypeOK, Replies
      <3> QED BY <3>1, <2>1 DEF AckCurrent
    <2> QED BY <2>2, <2>3
  <1> QED BY <1>1, <1>2, <1>3, <1>4 DEF IInv

\* The calls that open an exchange: each satisfies what OpenInv asks for.
LEMMA CallsInv ==
    ASSUME IInv, NEW c \in Clients,
           \/ start_discover(c) \/ start_renew(c) \/ start_rebind(c)
           \/ release_call(c) \/ decline_call(c)
    PROVE  IInv'
  <1> USE NetAssumption, PoolFacts
  <1>0. /\ client[c] \in ClientRec /\ client \in [Clients -> ClientRec]
        /\ client[c].xid \in Nat /\ MaxXid \in Nat /\ ended \subseteq Clients \X Pool
    BY DEF IInv, TypeOK, ClientRec
  <1>1. client[c].state = "Bound" => client[c].ip \in Pool
    BY DEF IInv, TypeOK, BoundIsConfirmed
  <1> DEFINE R(st, f, i) == [client[c] EXCEPT !.state = st, !.xid = client[c].xid + 1, !.offered = f, !.ip = i]
             M(t, s, q, i) == [type |-> t, client |-> c, xid |-> client[c].xid + 1, sid |-> s, requested |-> q, ciaddr |-> i]
  <1>2. CASE start_discover(c)
    <2>1. client' = [client EXCEPT ![c] = R("Selecting", UNSPECIFIED, client[c].ip)]
      BY <1>2, <1>0 DEF start_discover, ClientRec
    <2>2. R("Selecting", UNSPECIFIED, client[c].ip) \in ClientRec /\ client[c].xid < MaxXid
      BY <1>0, <1>2 DEF ClientRec, States, start_discover
    <2>3. M("Discover", FALSE, UNSPECIFIED, UNSPECIFIED) \in Requests
      BY <1>0, <2>2 DEF Requests
    <2>4. client'[c].xid = client[c].xid + 1
      BY <2>1, <1>0 DEF ClientRec
    <2>5. toServer' = toServer \union {M("Discover", FALSE, UNSPECIFIED, UNSPECIFIED)} \/ toServer' = toServer
      BY <1>2, <2>4 DEF start_discover, Send, build_request
    <2>6. ended' = ended /\ UNCHANGED <<store, toClient, now, acked>>
      BY <1>2 DEF start_discover
    <2> QED BY <2>1, <2>2, <2>3, <2>5, <2>6, <1>0, OpenInv DEF ClientRec
  <1>3. ASSUME NEW st \in {"Renewing", "Rebinding"}, NEW s \in BOOLEAN,
               client[c].state = "Bound", Open(c, st),
               Send(build_request(c, "Request", s, UNSPECIFIED, client[c].ip)),
               UNCHANGED <<store, toClient, now, ended, acked>>
        PROVE  IInv'
    <2>1. client' = [client EXCEPT ![c] = R(st, client[c].offered, client[c].ip)]
      BY <1>3, <1>0 DEF Open, ClientRec
    <2>2. R(st, client[c].offered, client[c].ip) \in ClientRec /\ client[c].xid < MaxXid
      BY <1>0, <1>3 DEF ClientRec, States, Open
    <2>3. M("Request", s, UNSPECIFIED, client[c].ip) \in Requests
      BY <1>0, <1>1, <1>3, <2>2 DEF Requests
    <2>4. client'[c].xid = client[c].xid + 1
      BY <2>1, <1>0 DEF ClientRec
    <2>5. toServer' = toServer \union {M("Request", s, UNSPECIFIED, client[c].ip)} \/ toServer' = toServer
      BY <1>3, <2>4 DEF Send, build_request
    <2> QED BY <2>1, <2>2, <2>3, <2>5, <1>3, <1>0, OpenInv DEF ClientRec
  <1>4. CASE start_renew(c)
    BY <1>3, <1>4 DEF start_renew
  <1>5. CASE start_rebind(c)
    BY <1>3, <1>5 DEF start_rebind
  <1>6. CASE release_call(c)
    <2>1. client' = [client EXCEPT ![c] = R("Init", client[c].offered, UNSPECIFIED)]
      BY <1>6, <1>0 DEF release_call, ClientRec
    <2>2. R("Init", client[c].offered, UNSPECIFIED) \in ClientRec /\ client[c].xid < MaxXid
      BY <1>0, <1>6 DEF ClientRec, States, release_call
    <2>3. M("Release", FALSE, UNSPECIFIED, client[c].ip) \in Requests
      BY <1>0, <1>1, <1>6, <2>2 DEF Requests, release_call
    <2>4. client'[c].xid = client[c].xid + 1
      BY <2>1, <1>0 DEF ClientRec
    <2>5. toServer' = toServer \union {M("Release", FALSE, UNSPECIFIED, client[c].ip)} \/ toServer' = toServer
      BY <1>6, <2>4 DEF release_call, Send, build_request
    <2>6. ended' \subseteq Clients \X Pool /\ UNCHANGED <<store, toClient, now, acked>>
      BY <1>6, <1>0, <1>1 DEF release_call
    <2> QED BY <2>1, <2>2, <2>3, <2>5, <2>6, <1>0, OpenInv DEF ClientRec
  <1>7. CASE decline_call(c)
    <2> DEFINE r == [NewClient EXCEPT !.xid = client[c].xid + 1]
    <2>1. client' = [client EXCEPT ![c] = r]
      BY <1>7 DEF decline_call
    <2>2. r \in ClientRec /\ client[c].xid < MaxXid /\ r.xid = client[c].xid + 1 /\ r.state = "Init"
      BY <1>0, <1>7 DEF ClientRec, States, decline_call, NewClient
    <2>3. M("Decline", FALSE, client[c].ip, UNSPECIFIED) \in Requests /\ client[c].ip \in Pool
      BY <1>0, <1>1, <1>7, <2>2 DEF Requests, decline_call
    <2>4. client'[c].xid = client[c].xid + 1
      BY <2>1, <2>2, <1>0
    <2>5. toServer' = toServer \union {M("Decline", FALSE, client[c].ip, UNSPECIFIED)} \/ toServer' = toServer
      BY <1>7, <2>4 DEF decline_call, Send, build_request
    <2>6. ended' \subseteq Clients \X Pool /\ UNCHANGED <<store, toClient, now, acked>>
      BY <1>7, <1>0, <1>1 DEF decline_call
    <2> HIDE DEF r
    <2> QED BY <2>1, <2>2, <2>3, <2>5, <2>6, <1>0, OpenInv
  <1> QED BY <1>2, <1>4, <1>5, <1>6, <1>7

\* A client takes a reply: within an exchange only the state moves on, and an ACK
\* binds the client to an address AckCurrent knows to be confirmed.
LEMMA ClientInv ==
    ASSUME IInv, NEW c \in Clients, ClientReceives(c)
    PROVE  IInv'
  <1> USE NetAssumption, PoolFacts
  <1>0. /\ client[c] \in ClientRec /\ client \in [Clients -> ClientRec]
        /\ client[c].xid \in Nat /\ MaxXid \in Nat /\ now \in Nat
    BY DEF IInv, TypeOK, ClientRec
  <1>1. PICK m \in toClient : /\ m.client = c
                              /\ toClient' \in Taken(toClient, m)
                              /\ \/ receive_offer(c, m) \/ receive_ack(c, m)
                                 \/ UNCHANGED <<client, toServer, ended>>
                              /\ UNCHANGED <<store, now, acked>>
    BY DEF ClientReceives
  <1>2. toClient' \subseteq toClient
    BY <1>1 DEF Taken
  <1>3. m \in Replies /\ AckCurrent(m)
    BY DEF IInv, TypeOK
  <1>4. CASE receive_offer(c, m)
    <2> DEFINE r == [client[c] EXCEPT !.offered = m.yiaddr, !.state = "Requesting"]
               q == [type |-> "Request", client |-> c, xid |-> client[c].xid, sid |-> TRUE,
                     requested |-> m.yiaddr, ciaddr |-> UNSPECIFIED]
    <2>1. client' = [client EXCEPT ![c] = r] /\ ended' = ended
      BY <1>4, <1>0 DEF receive_offer, ClientRec
    <2>2. r \in ClientRec /\ r.xid = client[c].xid /\ r.state = "Requesting" /\ client[c].state = "Selecting"
      BY <1>0, <1>3, <1>4 DEF ClientRec, States, Replies, receive_offer
    <2>3. q \in Requests
      BY <1>0, <1>3 DEF Requests, Replies, ClientRec
    <2>4. client'[c].xid = client[c].xid
      BY <2>1, <2>2, <1>0
    <2>5. toServer' = toServer \union {q} \/ toServer' = toServer
      BY <1>4, <2>4 DEF receive_offer, Send, build_request
    <2> HIDE DEF r
    <2>6. TypeOK'
      BY <2>1, <2>2, <2>3, <2>5, <1>1, <1>2, <1>0 DEF IInv, TypeOK
    <2>7. BoundIsConfirmed'
      BY <2>1, <2>2, <1>1, <1>0 DEF IInv, BoundIsConfirmed
    <2>8. ASSUME NEW n \in toServer' PROVE RequestCurrent(n)'
      <3>1. CASE n = q
        BY <3>1, <2>1, <2>2, <1>0 DEF RequestCurrent
      <3>2. CASE n \in toServer
        <4>1. RequestCurrent(n) /\ n \in Requests
          BY <3>2 DEF IInv, TypeOK
        <4> QED BY <4>1, <2>1, <2>2, <1>0 DEF RequestCurrent, Requests
      <3> QED BY <3>1, <3>2, <2>5
    <2>9. ASSUME NEW n \in toClient' PROVE AckCurrent(n)'
      <3>1. AckCurrent(n) /\ n \in Replies
        BY <1>2 DEF IInv, TypeOK
      <3> QED BY <3>1, <2>1, <2>2, <1>0, <1>1 DEF AckCurrent, Replies
    <2> QED BY <2>6, <2>7, <2>8, <2>9 DEF IInv
  <1>5. CASE receive_ack(c, m)
    <2>1. PICK r \in ClientRec :
            /\ client' = [client EXCEPT ![c] = r]
            /\ r.xid = client[c].xid
            /\ r.state = "Init" \/ (r.state = "Bound" /\ <<c, r.xid, r.ip>> \in acked)
            /\ ended' \subseteq ended
      <3>1. CASE m.type = "Ack" /\ Commit(c, m)
        <4> DEFINE r == [client[c] EXCEPT !.ip = IF m.yiaddr # UNSPECIFIED THEN m.yiaddr ELSE client[c].ip,
                               !.obtained_at = now, !.offered = UNSPECIFIED, !.state = "Bound"]
        <4>1. client' = [client EXCEPT ![c] = r] /\ ended' \subseteq ended
          BY <3>1, <1>0 DEF Commit, ClientRec
        <4>2. r \in ClientRec /\ r.xid = client[c].xid /\ r.state = "Bound"
          BY <1>0, <1>3 DEF ClientRec, States, Replies
        <4>3. <<c, r.xid, r.ip>> \in acked
          <5>1. CASE m.yiaddr # UNSPECIFIED
            BY <5>1, <4>2, <3>1, <1>1, <1>3, <1>5, <1>0 DEF AckCurrent, receive_ack, ClientRec
          <5>2. CASE m.yiaddr = UNSPECIFIED
            BY <5>2, <4>2, <3>1, <1>1, <1>3, <1>5, <1>0 DEF AckCurrent, receive_ack, ClientRec
          <5> QED BY <5>1, <5>2
        <4> HIDE DEF r
        <4> QED BY <4>1, <4>2, <4>3
      <3>2. CASE GiveUp(c)
        <4> DEFINE r == [NewClient EXCEPT !.xid = client[c].xid]
        <4>1. client' = [client EXCEPT ![c] = r] /\ ended' \subseteq ended
          BY <3>2 DEF GiveUp
        <4>2. r \in ClientRec /\ r.xid = client[c].xid /\ r.state = "Init"
          BY <1>0 DEF ClientRec, States, NewClient
        <4> HIDE DEF r
        <4> QED BY <4>1, <4>2
      <3> QED BY <1>5, <3>1, <3>2 DEF receive_ack
    <2>2. toServer' = toServer
      BY <1>5 DEF receive_ack
    <2>3. TypeOK'
      BY <2>1, <2>2, <1>1, <1>2, <1>0 DEF IInv, TypeOK
    <2>4. BoundIsConfirmed'
      BY <2>1, <1>1, <1>0 DEF IInv, BoundIsConfirmed
    <2>5. ASSUME NEW n \in toServer' PROVE RequestCurrent(n)'
      <3>1. RequestCurrent(n) /\ n \in Requests
        BY <2>2 DEF IInv, TypeOK
      <3> QED BY <3>1, <2>1, <1>0 DEF RequestCurrent, Requests
    <2>6. ASSUME NEW n \in toClient' PROVE AckCurrent(n)'
      <3>1. AckCurrent(n) /\ n \in Replies
        BY <1>2 DEF IInv, TypeOK
      <3> QED BY <3>1, <2>1, <1>0, <1>1 DEF AckCurrent, Replies
    <2> QED BY <2>3, <2>4, <2>5, <2>6 DEF IInv
  <1>6. CASE UNCHANGED <<client, toServer, ended>>
    BY <1>1, <1>2, <1>6 DEF IInv, TypeOK, BoundIsConfirmed, RequestCurrent, AckCurrent
  <1> QED BY <1>1, <1>4, <1>5, <1>6

\* The server takes a message: the store stays a store and every ACK it sends is
\* for what it has just confirmed.
LEMMA ServerInv ==
    ASSUME IInv, ServerReceives
    PROVE  IInv'
  <1> USE NetAssumption, PoolFacts
  <1>1. PICK m \in toServer : /\ toServer' \in Taken(toServer, m)
                              /\ process(m)
                              /\ UNCHANGED <<client, now, ended>>
    BY DEF ServerReceives
  <1>2. toServer' \subseteq toServer
    BY <1>1 DEF Taken
  <1>3. /\ m \in Requests /\ RequestCurrent(m) /\ m.client \in Clients /\ m.xid \in 0..MaxXid
        /\ now \in Nat /\ IsStore(store) /\ client[m.client] \in ClientRec
    BY DEF IInv, TypeOK, Requests
  <1>4. SUFFICES /\ IsStore(store') /\ acked' \subseteq Clients \X (0..MaxXid) \X Pool
                 /\ acked \subseteq acked'
                 /\ toClient' \subseteq Replies
                 /\ \A n \in toClient' \ toClient : AckCurrent(n)'
    <2>1. TypeOK'
      BY <1>1, <1>2, <1>4 DEF IInv, TypeOK
    <2>2. BoundIsConfirmed'
      BY <1>1, <1>4 DEF IInv, BoundIsConfirmed
    <2>3. \A n \in toServer' : RequestCurrent(n)'
      BY <1>1, <1>2 DEF IInv, RequestCurrent
    <2>4. ASSUME NEW n \in toClient' PROVE AckCurrent(n)'
      <3>1. CASE n \in toClient
        BY <3>1, <1>1, <1>4 DEF IInv, AckCurrent
      <3> QED BY <3>1, <1>4
    <2> QED BY <2>1, <2>2, <2>3, <2>4 DEF IInv
  <1>5. CASE m.type = "Discover" /\ Discover(m)
    <2> DEFINE ips == chosen(prune(store, now), m.client, m.requested, now)
    <2>1. IsStore(store') /\ ips \subseteq Pool
      BY <1>5, <1>3, AcquireStore DEF Discover
    <2>2. acked' = acked /\ toClient' = toClient \union {build_reply("Offer", m, Server, ip) : ip \in ips}
      BY <1>5 DEF Discover
    <2> HIDE DEF ips
    <2>3. \A ip \in ips : build_reply("Offer", m, Server, ip) \in Replies
      BY <2>1, <1>3 DEF build_reply, Replies
    <2>4. \A ip \in ips : AckCurrent(build_reply("Offer", m, Server, ip))'
      BY <1>1, <1>3 DEF build_reply, AckCurrent, RequestCurrent
    <2> QED BY <2>1, <2>2, <2>3, <2>4 DEF IInv, TypeOK
  <1>6. CASE m.type = "Request" /\ Request(m)
    <2> DEFINE ip == IF m.requested # UNSPECIFIED THEN m.requested ELSE m.ciaddr
               nak(from) == build_reply("Nak", m, from, UNSPECIFIED)
               ack == build_reply("Ack", m, Server, ip)
    <2>1. IsStore(store')
      BY <1>6, <1>3, AcquireStore DEF Request
    <2>2. \A from \in {Server, OtherServer} : nak(from) \in Replies /\ nak(from).type = "Nak"
                                             /\ nak(from).client = m.client /\ nak(from).xid = m.xid
      BY <1>3 DEF build_reply, Replies
    <2>3. \A from \in {Server, OtherServer} : AckCurrent(nak(from))'
      BY <2>2, <1>1, <1>3 DEF AckCurrent, RequestCurrent
    <2>4. CASE can_confirm(store, ip, m.client)
      <3>1. ip \in Pool
        BY <2>4, <1>3 DEF can_confirm, IsStore
      <3>2. ack \in Replies /\ ack.client = m.client /\ ack.xid = m.xid /\ ack.type = "Ack"
            /\ ack.yiaddr = IF m.ciaddr = UNSPECIFIED THEN ip ELSE UNSPECIFIED
        BY <3>1, <1>3 DEF build_reply, Replies
      <3>3. /\ acked' = acked \union {<<m.client, m.xid, ip>>}
            /\ toClient' \subseteq toClient \union {ack} \union {nak(from) : from \in {Server, OtherServer}}
        BY <1>6, <2>4 DEF Request, build_reply
      <3>4. AckCurrent(ack)'
        <4>1. client' = client /\ <<m.client, m.xid, ip>> \in acked'
          BY <3>3, <1>1
        <4>2. m.xid = client[m.client].xid /\ m.ciaddr # UNSPECIFIED =>
                /\ client[m.client].state \notin {"Selecting", "Requesting"}
                /\ client[m.client].state \in {"Renewing", "Rebinding"} => ip = client[m.client].ip
          BY <1>6, <1>3 DEF RequestCurrent
        <4>3. m.xid <= client[m.client].xid
          BY <1>3 DEF RequestCurrent
        <4> HIDE DEF ack, ip
        <4> QED BY <4>1, <4>2, <4>3, <3>1, <3>2 DEF AckCurrent
      <3> HIDE DEF ack, nak, ip
      <3>5. toClient' \subseteq Replies
        BY <3>2, <3>3, <2>2 DEF IInv, TypeOK
      <3> QED BY <3>1, <3>3, <3>4, <3>5, <2>1, <2>3, <1>3 DEF IInv, TypeOK
    <2>5. CASE ~can_confirm(store, ip, m.client)
      <3>1. /\ acked' = acked
            /\ toClient' \subseteq toClient \union {nak(from) : from \in {Server, OtherServer}}
        BY <1>6, <2>5 DEF Request, build_reply
      <3> HIDE DEF nak
      <3> QED BY <3>1, <2>1, <2>2, <2>3 DEF IInv, TypeOK
    <2> QED BY <2>4, <2>5
  <1>7. CASE m.type = "Decline" /\ Decline(m)
    BY <1>7, <1>3, KeptStore DEF Decline, RequestCurrent, IInv, TypeOK
  <1>8. CASE m.type = "Release" /\ Release(m)
    BY <1>8, <1>3, KeptStore DEF Release, IInv, TypeOK
  <1> QED BY <1>1, <1>5, <1>6, <1>7, <1>8 DEF process

-----------------------------------------------------------------------------
(* The theorems. *)

\* The initial states satisfy the invariant and every step preserves it.
LEMMA Inductive == (Init => IInv) /\ (IInv /\ [Next]_vars => IInv')
  <1> USE NetAssumption, PoolFacts
  <1>1. ASSUME Init PROVE IInv
    <2>1. NewClient \in ClientRec
      BY DEF NewClient, ClientRec, States
    <2>2. TypeOK
      BY <1>1, <2>1 DEF Init, TypeOK, IsStore, NewStore
    <2>3. BoundIsConfirmed
      BY <1>1 DEF Init, BoundIsConfirmed, NewClient
    <2> QED BY <1>1, <2>2, <2>3 DEF Init, IInv
  <1>2. ASSUME IInv, [Next]_vars PROVE IInv'
    <2>1. ASSUME NEW c \in Clients,
                 \/ start_discover(c) \/ start_renew(c) \/ start_rebind(c)
                 \/ release_call(c) \/ decline_call(c)
          PROVE IInv'
      BY <1>2, <2>1, CallsInv
    <2>2. ASSUME NEW c \in Clients, ClientReceives(c) PROVE IInv'
      BY <1>2, <2>2, ClientInv
    <2>3. CASE ServerReceives
      BY <1>2, <2>3, ServerInv
    <2>4. CASE LoseReply
      BY <1>2, <2>4 DEF LoseReply, IInv, TypeOK, BoundIsConfirmed, RequestCurrent, AckCurrent
    <2>5. CASE Tick
      BY <1>2, <2>5 DEF Tick, IInv, TypeOK, BoundIsConfirmed, RequestCurrent, AckCurrent
    <2>6. CASE UNCHANGED vars
      BY <1>2, <2>6 DEF vars, IInv, TypeOK, BoundIsConfirmed, RequestCurrent, AckCurrent
    <2> QED BY <1>2, <2>1, <2>2, <2>3, <2>4, <2>5, <2>6 DEF Next
  <1> QED BY <1>1, <1>2

\* The invariant holds in every reachable state.
THEOREM Invariance == Spec => []IInv
  <1>1. Init => IInv
    BY Inductive
  <1>2. IInv /\ [Next]_vars => IInv'
    BY Inductive
  <1> QED BY <1>1, <1>2, PTL DEF Spec

\* Store, clients, network and clock keep their types.
THEOREM TypeCorrect == Spec => []TypeOK
  <1>1. IInv => TypeOK
    BY DEF IInv
  <1> QED BY <1>1, Invariance, PTL

\* Whatever the network loses, delays, duplicates and reorders, a client is Bound
\* only to an address the server confirmed to it in the exchange it is in.
THEOREM ConfirmedBinding == Spec => []BoundIsConfirmed
  <1>1. IInv => BoundIsConfirmed
    BY DEF IInv
  <1> QED BY <1>1, Invariance, PTL

\* No lease that still runs passes from one client directly to another.
THEOREM NoLeaseTakeover == Spec => NoTakeover
  <1> DEFINE Kept == \A ip \in DOMAIN store.leases \intersect DOMAIN store'.leases :
                        store.leases[ip].expires_at > now =>
                            store'.leases[ip].client_id = store.leases[ip].client_id
  <1>1. IInv /\ [Next]_vars => [Kept]_vars
    <2> SUFFICES ASSUME IInv, Next PROVE Kept
      OBVIOUS
    <2>1. CASE store' = store
      BY <2>1
    <2>2. CASE ServerReceives
      <3>1. PICK m \in toServer : process(m)
        BY <2>2 DEF ServerReceives
      <3>2. m.client \in Clients /\ IsStore(store) /\ now \in Nat
        BY NetAssumption DEF IInv, TypeOK, Requests
      <3>3. CASE Discover(m)
        BY <3>2, <3>3, AcquireNoTakeover DEF Discover
      <3>4. CASE Request(m)
        <4> DEFINE ip == IF m.requested # UNSPECIFIED THEN m.requested ELSE m.ciaddr
        <4>1. store' = confirm(store, ip, m.client, now)
          BY <3>4 DEF Request
        <4> HIDE DEF ip
        <4> QED BY <4>1 DEF confirm, can_confirm, granted, Put, make_lease
      <3>5. CASE Decline(m)
        BY <3>5 DEF Decline, decline, Keep
      <3>6. CASE Release(m)
        BY <3>6 DEF Release, release, Keep
      <3> QED BY <3>1, <3>3, <3>4, <3>5, <3>6 DEF process
    <2> QED BY <2>1, <2>2 DEF Next, start_discover, start_renew, start_rebind, release_call,
                              decline_call, ClientReceives, LoseReply, Tick
  <1>2. NoTakeover <=> [][Kept]_vars
    BY DEF NoTakeover
  <1> QED BY <1>1, <1>2, Invariance, PTL DEF Spec

-----------------------------------------------------------------------------
(* Agreement of the server and its clients, on a network that loses messages *)
(* but neither delays, duplicates nor reorders them, for a server that grants *)
(* leases at least as long as the 3600 s its clients count with.             *)

Reliable == MayFail \subseteq {"lose"} /\ LeaseDuration >= ClientLeaseTime

\* The store has ip leased to c at least until time t.
LeasedTo(st, c, ip, t) ==
    /\ ip \in DOMAIN st.leases
    /\ st.leases[ip].client_id = c /\ st.leases[ip].expires_at >= t

\* The address a RELEASE or a DECLINE gives up.
Ending(m) == m.type \in {"Release", "Decline"}
Ends(m) == IF m.type = "Release" THEN m.ciaddr ELSE m.requested

\* Exchanges are answered in order: a reply under way belongs to an earlier
\* exchange than every request under way of its client, an exchange has one request
\* under way at a time, and an OFFER is the only reply of its exchange.
InOrder ==
    /\ \A m \in toClient, o \in toServer : o.client = m.client => m.xid < o.xid
    /\ \A o, p \in toServer : o.client = p.client /\ o.xid = p.xid => o = p
    /\ \A m, n \in toClient : m.type = "Offer" /\ n.client = m.client /\ n.xid = m.xid => n = m

\* What a client has sent fits its state: nothing while it is Bound, the request of
\* its exchange while it renews.
SentFits(o) ==
    LET r == client[o.client]
    IN  /\ r.state # "Bound"
        /\ r.state \in {"Renewing", "Rebinding"} => o.type = "Request" /\ o.xid = r.xid

\* A RELEASE or DECLINE is the first thing the server will hear of its client, and gives
\* up an address that is still leased to this client.
EndingFits(o) ==
    /\ LeasedTo(store, o.client, Ends(o), now + 1)
    /\ <<o.client, Ends(o)>> \in ended
    /\ \A p \in toServer : p.client = o.client => o.xid <= p.xid

\* An ACK its client waits for stands for a lease granted at this very time.
AckFits(m) ==
    LET r == client[m.client]
    IN  m.type = "Ack" /\ m.xid = r.xid /\ r.state \in {"Requesting", "Renewing", "Rebinding"} =>
            LeasedTo(store, m.client, IF m.yiaddr # UNSPECIFIED THEN m.yiaddr ELSE r.ip, now + LeaseDuration)

\* A client's own reckoning of its lease never runs past the server's.
HoldsLease(c) ==
    LET r == client[c]
    IN  /\ r.obtained_at <= now
        /\ r.state \in {"Bound", "Renewing", "Rebinding"} /\ ~lease_expired(r) =>
            LeasedTo(store, c, r.ip, r.obtained_at + ClientLeaseTime)

AgreeInv ==
    /\ InOrder
    /\ \A o \in toServer : SentFits(o) /\ (Ending(o) => EndingFits(o))
    /\ \A m \in toClient : AckFits(m)
    /\ \A c \in Clients : HoldsLease(c)

\* acquire leaves another client's running lease exactly as it is.
LEMMA AcquireKeeps ==
    ASSUME NEW st, IsStore(st), NEW c \in Clients, NEW req, NEW t \in Nat,
           NEW ip \in DOMAIN st.leases, st.leases[ip].expires_at > t, st.leases[ip].client_id # c
    PROVE  /\ ip \in DOMAIN acquire(st, c, req, t).leases
           /\ acquire(st, c, req, t).leases[ip] = st.leases[ip]
  <1> DEFINE pr == prune(st, t)
             ips == chosen(pr, c, req, t)
  <1>1. ip \in Pool /\ st.leases[ip].expires_at \in Nat
    BY DEF IsStore, Lease
  <1>2. ip \in DOMAIN pr.leases /\ pr.leases[ip] = st.leases[ip]
    BY <1>1 DEF prune, Keep, is_expired
  <1>3. CASE ips = {}
    BY <1>2, <1>3 DEF acquire
  <1>4. CASE ips # {}
    <2> DEFINE j == CHOOSE i \in ips : TRUE
    <2>1. j \in ips
      BY <1>4
    <2>2. available(pr, j, c, t)
      BY <2>1 DEF chosen
    <2>3. acquire(st, c, req, t) = granted(pr, j, c, t)
      BY <1>4 DEF acquire
    <2>4. j # ip
      BY <2>2, <1>2 DEF available
    <2> HIDE DEF j, pr
    <2> QED BY <2>3, <2>4, <1>2 DEF granted, Put
  <1> QED BY <1>3, <1>4

\* A message of one client leaves the running leases of every other client alone.
LEMMA OthersKeepLeases ==
    ASSUME IInv, AgreeInv, NEW m \in toServer, process(m),
           NEW c \in Clients, c # m.client, NEW ip, NEW t \in Nat, t > now, LeasedTo(store, c, ip, t)
    PROVE  LeasedTo(store', c, ip, t)
  <1> USE NetAssumption
  <1>1. m.client \in Clients /\ IsStore(store) /\ now \in Nat
    BY DEF IInv, TypeOK, Requests
  <1>2. ip \in DOMAIN store.leases /\ store.leases[ip].client_id = c /\ store.leases[ip].expires_at >= t
    BY DEF LeasedTo
  <1>3. ip \in Pool /\ store.leases[ip].expires_at \in Nat
    BY <1>1, <1>2 DEF IsStore, Lease
  <1>4. store.leases[ip].expires_at > now
    BY <1>1, <1>2, <1>3
  <1>5. SUFFICES ip \in DOMAIN store'.leases /\ store'.leases[ip] = store.leases[ip]
    BY <1>2 DEF LeasedTo
  <1>6. CASE Discover(m)
    BY <1>6, <1>1, <1>2, <1>4, AcquireKeeps DEF Discover
  <1>7. CASE Request(m)
    <2> DEFINE j == IF m.requested # UNSPECIFIED THEN m.requested ELSE m.ciaddr
    <2>1. store' = confirm(store, j, m.client, now)
      BY <1>7 DEF Request
    <2> HIDE DEF j
    <2> QED BY <2>1, <1>2 DEF confirm, can_confirm, granted, Put
  <1>8. Ending(m) => Ends(m) # ip
    <2>1. Ending(m) => LeasedTo(store, m.client, Ends(m), now + 1)
      BY DEF AgreeInv, EndingFits
    <2> QED BY <2>1, <1>2 DEF LeasedTo
  <1>9. CASE m.type = "Release" /\ Release(m)
    BY <1>9, <1>2, <1>3, <1>8 DEF Ending, Ends, Release, release, Keep
  <1>10. CASE m.type = "Decline" /\ Decline(m)
    BY <1>10, <1>2, <1>3, <1>8 DEF Ending, Ends, Decline, decline, Keep
  <1> QED BY <1>6, <1>7, <1>9, <1>10 DEF process

\* A call that opens an exchange: its xid is above every other, so its message comes
\* last, and only a Bound client, which has nothing under way, renews or gives up.
LEMMA OpenAgree ==
    ASSUME IInv, AgreeInv, NEW c \in Clients, NEW r \in ClientRec, NEW m \in Requests,
           r.xid = client[c].xid + 1, r.state # "Bound", r.obtained_at <= now,
           r.state \in {"Renewing", "Rebinding"} =>
              /\ client[c].state = "Bound" /\ m.type = "Request"
              /\ r.ip = client[c].ip /\ r.obtained_at = client[c].obtained_at,
           Ending(m) =>
              /\ client[c].state = "Bound" /\ <<c, Ends(m)>> \in ended'
              /\ LeasedTo(store, c, Ends(m), now + 1),
           client' = [client EXCEPT ![c] = r],
           m.client = c, m.xid = r.xid,
           toServer' = toServer \union {m} \/ toServer' = toServer,
           ended \subseteq ended',
           UNCHANGED <<store, toClient, now>>
    PROVE  AgreeInv'
  <1> USE NetAssumption, PoolFacts
  <1>0. /\ client \in [Clients -> ClientRec] /\ client[c] \in ClientRec /\ client[c].xid \in Nat
        /\ toServer \subseteq Requests /\ toClient \subseteq Replies
    BY DEF IInv, TypeOK, ClientRec
  <1>1. ASSUME NEW o \in toServer PROVE o.xid \in Nat /\ o.client \in Clients /\ (o.client = c => o.xid < m.xid)
    <2>1. o.xid \in Nat /\ o.client \in Clients
      BY <1>0 DEF Requests
    <2>2. o.xid <= client[o.client].xid
      BY DEF IInv, RequestCurrent
    <2> QED BY <2>1, <2>2, <1>0
  <1>2. ASSUME NEW n \in toClient PROVE n.xid \in Nat /\ n.client \in Clients /\ (n.client = c => n.xid < m.xid)
    <2>1. n.xid \in Nat /\ n.client \in Clients
      BY <1>0 DEF Replies
    <2>2. n.xid <= client[n.client].xid
      BY DEF IInv, AckCurrent
    <2> QED BY <2>1, <2>2, <1>0
  <1>3. client[c].state = "Bound" => \A o \in toServer : o.client # c
    BY DEF AgreeInv, SentFits
  <1>4. InOrder'
    BY <1>1, <1>2 DEF AgreeInv, InOrder
  <1>5. ASSUME NEW o \in toServer' PROVE SentFits(o)'
    <2>1. CASE o = m
      BY <2>1, <1>0 DEF SentFits
    <2>2. CASE o \in toServer
      BY <2>2, <1>0, <1>1, <1>3 DEF SentFits, AgreeInv
    <2> QED BY <2>1, <2>2
  <1>6. ASSUME NEW o \in toServer', Ending(o) PROVE EndingFits(o)'
    <2>1. CASE o = m
      <3>1. \A p \in toServer' : p.client = c => p = m
        BY <1>3, <1>6, <2>1
      <3>2. m.xid \in Nat
        BY <1>0
      <3> QED BY <1>6, <2>1, <3>1, <3>2 DEF EndingFits
    <2>2. CASE o \in toServer
      <3>1. EndingFits(o)
        BY <2>2, <1>6 DEF AgreeInv
      <3> QED BY <2>2, <3>1, <1>0, <1>1 DEF EndingFits
    <2> QED BY <2>1, <2>2
  <1>7. ASSUME NEW n \in toClient' PROVE AckFits(n)'
    <2>1. n \in toClient /\ AckFits(n)
      BY DEF AgreeInv
    <2>2. CASE n.client = c
      BY <2>1, <2>2, <1>0, <1>2 DEF AckFits
    <2>3. CASE n.client # c
      BY <2>1, <2>3, <1>0, <1>2 DEF AckFits
    <2> QED BY <2>2, <2>3
  <1>8. ASSUME NEW d \in Clients PROVE HoldsLease(d)'
    <2>1. HoldsLease(d)
      BY DEF AgreeInv
    <2>2. CASE d = c
      <3>1. client'[d] = r /\ now' = now /\ store' = store
        BY <2>2, <1>0
      <3>2. CASE r.state \in {"Renewing", "Rebinding"}
        BY <3>1, <3>2, <2>1, <2>2 DEF HoldsLease, lease_expired
      <3>3. CASE r.state \notin {"Renewing", "Rebinding"}
        BY <3>1, <3>3 DEF HoldsLease
      <3> QED BY <3>2, <3>3
    <2>3. CASE d # c
      BY <2>1, <2>3, <1>0 DEF HoldsLease, lease_expired
    <2> QED BY <2>2, <2>3
  <1> QED BY <1>4, <1>5, <1>6, <1>7, <1>8 DEF AgreeInv

\* The calls that open an exchange satisfy what OpenAgree asks for.
LEMMA CallsAgree ==
    ASSUME Reliable, IInv, AgreeInv, NEW c \in Clients,
           \/ start_discover(c) \/ start_renew(c) \/ start_rebind(c)
           \/ release_call(c) \/ decline_call(c)
    PROVE  AgreeInv'
  <1> USE NetAssumption, PoolFacts
  <1>0. /\ client[c] \in ClientRec /\ client \in [Clients -> ClientRec]
        /\ client[c].xid \in Nat /\ MaxXid \in Nat /\ now \in Nat /\ client[c].obtained_at \in Nat
    BY DEF IInv, TypeOK, ClientRec
  <1>1. client[c].state = "Bound" => client[c].ip \in Pool
    BY DEF IInv, TypeOK, BoundIsConfirmed
  <1>2. client[c].obtained_at <= now
    BY DEF AgreeInv, HoldsLease
  <1>3. client[c].state = "Bound" /\ ~lease_expired(client[c]) => LeasedTo(store, c, client[c].ip, now + 1)
    <2> SUFFICES ASSUME client[c].state = "Bound", ~lease_expired(client[c])
                 PROVE  LeasedTo(store, c, client[c].ip, now + 1)
      OBVIOUS
    <2>1. LeasedTo(store, c, client[c].ip, client[c].obtained_at + ClientLeaseTime)
      BY DEF AgreeInv, HoldsLease
    <2>2. client[c].obtained_at + ClientLeaseTime >= now + 1
      BY <1>0, <1>2 DEF lease_expired
    <2>3. client[c].ip \in DOMAIN store.leases /\ store.leases[client[c].ip].expires_at \in Nat
      BY <2>1 DEF LeasedTo, IInv, TypeOK, IsStore, Lease
    <2> QED BY <2>1, <2>2, <2>3, <1>0 DEF LeasedTo
  <1> DEFINE R(st, f, i) == [client[c] EXCEPT !.state = st, !.xid = client[c].xid + 1, !.offered = f, !.ip = i]
             M(t, s, q, i) == [type |-> t, client |-> c, xid |-> client[c].xid + 1, sid |-> s, requested |-> q, ciaddr |-> i]
  <1>4. CASE start_discover(c)
    <2>1. client' = [client EXCEPT ![c] = R("Selecting", UNSPECIFIED, client[c].ip)]
      BY <1>4, <1>0 DEF start_discover, ClientRec
    <2>2. R("Selecting", UNSPECIFIED, client[c].ip) \in ClientRec /\ client[c].xid < MaxXid
      BY <1>0, <1>4 DEF ClientRec, States, start_discover
    <2>3. M("Discover", FALSE, UNSPECIFIED, UNSPECIFIED) \in Requests
      BY <1>0, <2>2 DEF Requests
    <2>4. client'[c].xid = client[c].xid + 1
      BY <2>1, <1>0 DEF ClientRec
    <2>5. toServer' = toServer \union {M("Discover", FALSE, UNSPECIFIED, UNSPECIFIED)} \/ toServer' = toServer
      BY <1>4, <2>4 DEF start_discover, Send, build_request
    <2>6. ended' = ended /\ UNCHANGED <<store, toClient, now>>
      BY <1>4 DEF start_discover
    <2> QED BY <2>1, <2>2, <2>3, <2>5, <2>6, <1>0, <1>2, OpenAgree DEF ClientRec, Ending
  <1>5. ASSUME NEW st \in {"Renewing", "Rebinding"}, NEW s \in BOOLEAN,
               client[c].state = "Bound", Open(c, st),
               Send(build_request(c, "Request", s, UNSPECIFIED, client[c].ip)),
               UNCHANGED <<store, toClient, now, ended, acked>>
        PROVE  AgreeInv'
    <2>1. client' = [client EXCEPT ![c] = R(st, client[c].offered, client[c].ip)]
      BY <1>5, <1>0 DEF Open, ClientRec
    <2>2. R(st, client[c].offered, client[c].ip) \in ClientRec /\ client[c].xid < MaxXid
      BY <1>0, <1>5 DEF ClientRec, States, Open
    <2>3. M("Request", s, UNSPECIFIED, client[c].ip) \in Requests
      BY <1>0, <1>1, <1>5, <2>2 DEF Requests
    <2>4. client'[c].xid = client[c].xid + 1
      BY <2>1, <1>0 DEF ClientRec
    <2>5. toServer' = toServer \union {M("Request", s, UNSPECIFIED, client[c].ip)} \/ toServer' = toServer
      BY <1>5, <2>4 DEF Send, build_request
    <2> QED BY <2>1, <2>2, <2>3, <2>5, <1>5, <1>0, <1>2, OpenAgree DEF ClientRec, Ending
  <1>6. CASE start_renew(c)
    BY <1>5, <1>6 DEF start_renew
  <1>7. CASE start_rebind(c)
    BY <1>5, <1>7 DEF start_rebind
  <1>8. CASE release_call(c)
    <2> DEFINE m == M("Release", FALSE, UNSPECIFIED, client[c].ip)
               r == R("Init", client[c].offered, UNSPECIFIED)
    <2>1. client' = [client EXCEPT ![c] = r]
      BY <1>8, <1>0 DEF release_call, ClientRec
    <2>2. r \in ClientRec /\ client[c].xid < MaxXid
      BY <1>0, <1>8 DEF ClientRec, States, release_call
    <2>3. m \in Requests
      BY <1>0, <1>1, <1>8, <2>2 DEF Requests, release_call
    <2>4. client'[c].xid = client[c].xid + 1
      BY <2>1, <1>0 DEF ClientRec
    <2>5. toServer' = toServer \union {m} \/ toServer' = toServer
      BY <1>8, <2>4 DEF release_call, Send, build_request
    <2>6. /\ ended' = ended \union {<<c, client[c].ip>>} /\ UNCHANGED <<store, toClient, now>>
          /\ client[c].state = "Bound"
      BY <1>8 DEF release_call
    <2>7. LeasedTo(store, c, client[c].ip, now + 1)
      BY <1>8, <1>3 DEF release_call, Reliable
    <2>8. Ends(m) = client[c].ip /\ m.client = c /\ m.xid = r.xid
      BY <1>0 DEF Ends, ClientRec
    <2>9. r.xid = client[c].xid + 1 /\ r.state = "Init" /\ r.obtained_at <= now
      BY <1>0, <1>2 DEF ClientRec
    <2> HIDE DEF m, r
    <2> QED BY <2>1, <2>2, <2>3, <2>5, <2>6, <2>7, <2>8, <2>9, OpenAgree
  <1>9. CASE decline_call(c)
    <2> DEFINE m == M("Decline", FALSE, client[c].ip, UNSPECIFIED)
               r == [NewClient EXCEPT !.xid = client[c].xid + 1]
    <2>1. client' = [client EXCEPT ![c] = r]
      BY <1>9 DEF decline_call
    <2>2. r \in ClientRec /\ client[c].xid < MaxXid /\ r.xid = client[c].xid + 1 /\ r.state = "Init"
      BY <1>0, <1>9 DEF ClientRec, States, decline_call, NewClient
    <2>3. m \in Requests
      BY <1>0, <1>1, <1>9, <2>2 DEF Requests, decline_call
    <2>4. client'[c].xid = client[c].xid + 1
      BY <2>1, <2>2, <1>0
    <2>5. toServer' = toServer \union {m} \/ toServer' = toServer
      BY <1>9, <2>4 DEF decline_call, Send, build_request
    <2>6. /\ ended' = ended \union {<<c, client[c].ip>>} /\ UNCHANGED <<store, toClient, now>>
          /\ client[c].state = "Bound"
      BY <1>9 DEF decline_call
    <2>7. LeasedTo(store, c, client[c].ip, now + 1)
      BY <1>9, <1>3 DEF decline_call
    <2>8. Ends(m) = client[c].ip /\ m.client = c /\ m.xid = r.xid
      BY <2>2 DEF Ends
    <2>9. r.obtained_at <= now
      BY <1>0 DEF NewClient
    <2> HIDE DEF m, r
    <2> QED BY <2>1, <2>2, <2>3, <2>5, <2>6, <2>7, <2>8, <2>9, OpenAgree
  <1> QED BY <1>4, <1>6, <1>7, <1>8, <1>9

\* A client takes a reply of the exchange it is in: it has nothing under way to the
\* server then, an OFFER leaves no other reply behind, and an ACK finds its lease in the store.
LEMMA ClientAgree ==
    ASSUME Reliable, IInv, AgreeInv, NEW c \in Clients, ClientReceives(c)
    PROVE  AgreeInv'
  <1> USE NetAssumption, PoolFacts
  <1>0. /\ client[c] \in ClientRec /\ client \in [Clients -> ClientRec]
        /\ client[c].xid \in Nat /\ MaxXid \in Nat /\ now \in Nat
        /\ toServer \subseteq Requests /\ toClient \subseteq Replies
    BY DEF IInv, TypeOK, ClientRec
  <1>1. PICK m \in toClient : /\ m.client = c
                              /\ toClient' \in Taken(toClient, m)
                              /\ \/ receive_offer(c, m) \/ receive_ack(c, m)
                                 \/ UNCHANGED <<client, toServer, ended>>
                              /\ UNCHANGED <<store, now, acked>>
    BY DEF ClientReceives
  <1>2. toClient' = toClient \ {m}
    BY <1>1 DEF Taken, Reliable
  <1>3. \A o \in toServer : o.client \in Clients /\ o.xid \in Nat
    BY <1>0 DEF Requests
  <1>4. \A n \in toClient : n.client \in Clients /\ n.xid \in Nat
    BY <1>0 DEF Replies
  <1>5. ASSUME m.xid = client[c].xid, NEW o \in toServer PROVE o.client # c
    <2>1. o.client = c => m.xid < o.xid
      BY <1>1 DEF AgreeInv, InOrder
    <2>2. o.xid <= client[o.client].xid
      BY DEF IInv, RequestCurrent
    <2> QED BY <2>1, <2>2, <1>3, <1>4, <1>5
  <1>6. ASSUME NEW r \in ClientRec, client' = [client EXCEPT ![c] = r],
               \A n \in toClient' : n.client = c /\ n.type = "Ack" /\ n.xid = r.xid =>
                    r.state \notin {"Requesting", "Renewing", "Rebinding"}
        PROVE  \A n \in toClient' : AckFits(n)'
    <2> TAKE n \in toClient'
    <2>1. n \in toClient /\ AckFits(n) /\ n.client \in Clients
      BY <1>2, <1>4 DEF AgreeInv
    <2>2. CASE n.client = c
      BY <1>6, <2>2, <1>0 DEF AckFits
    <2>3. CASE n.client # c
      BY <1>6, <2>1, <2>3, <1>0, <1>1 DEF AckFits
    <2> QED BY <2>2, <2>3
  <1>7. ASSUME NEW r \in ClientRec, client' = [client EXCEPT ![c] = r], r.obtained_at <= now,
               r.state \in {"Bound", "Renewing", "Rebinding"} =>
                    LeasedTo(store, c, r.ip, r.obtained_at + ClientLeaseTime)
        PROVE  \A d \in Clients : HoldsLease(d)'
    <2> TAKE d \in Clients
    <2>1. HoldsLease(d)
      BY DEF AgreeInv
    <2>2. CASE d = c
      BY <1>7, <2>2, <1>0, <1>1 DEF HoldsLease
    <2>3. CASE d # c
      BY <1>7, <2>1, <2>3, <1>0, <1>1 DEF HoldsLease, lease_expired
    <2> QED BY <2>2, <2>3
  <1>8. CASE receive_offer(c, m)
    <2> DEFINE r == [client[c] EXCEPT !.offered = m.yiaddr, !.state = "Requesting"]
               q == [type |-> "Request", client |-> c, xid |-> client[c].xid, sid |-> TRUE,
                     requested |-> m.yiaddr, ciaddr |-> UNSPECIFIED]
    <2>1. client' = [client EXCEPT ![c] = r] /\ ended' = ended /\ m.xid = client[c].xid /\ m.type = "Offer"
      BY <1>8, <1>0 DEF receive_offer, ClientRec
    <2>2. r \in ClientRec /\ r.xid = client[c].xid /\ r.state = "Requesting" /\ r.obtained_at = client[c].obtained_at
      BY <1>0, <1>8 DEF ClientRec, States, Replies, receive_offer
    <2>3. client'[c].xid = client[c].xid /\ client'[c].state = "Requesting"
      BY <2>1, <2>2, <1>0
    <2>4. toServer' = toServer \union {q} \/ toServer' = toServer
      BY <1>8, <2>3 DEF receive_offer, Send, build_request
    <2>5. q.client = c /\ q.xid = client[c].xid /\ q.type = "Request"
      OBVIOUS
    <2> HIDE DEF r, q
    <2>6. \A o \in toServer : o.client # c
      BY <1>5, <2>1
    <2>7. ASSUME NEW n \in toClient', n.client = c PROVE n.xid < client[c].xid
      <3>1. n.xid <= client[c].xid
        BY <2>7, <1>2 DEF IInv, AckCurrent
      <3>2. n.xid = m.xid => n = m
        BY <2>1, <2>7, <1>1, <1>2 DEF AgreeInv, InOrder
      <3> QED BY <3>1, <3>2, <2>1, <2>7, <1>0, <1>2, <1>4
    <2>8. InOrder'
      <3>1. \A n \in toClient', o \in toServer' : o.client = n.client => n.xid < o.xid
        BY <1>2, <2>4, <2>5, <2>7 DEF AgreeInv, InOrder
      <3>2. \A o, p \in toServer' : o.client = p.client /\ o.xid = p.xid => o = p
        BY <2>4, <2>5, <2>6 DEF AgreeInv, InOrder
      <3>3. \A n, k \in toClient' : n.type = "Offer" /\ k.client = n.client /\ k.xid = n.xid => k = n
        BY <1>2 DEF AgreeInv, InOrder
      <3> QED BY <3>1, <3>2, <3>3 DEF InOrder
    <2>9. ASSUME NEW o \in toServer' PROVE SentFits(o)' /\ (Ending(o) => EndingFits(o)')
      <3>1. CASE o = q
        BY <3>1, <2>3, <2>5 DEF SentFits, Ending
      <3>2. CASE o \in toServer
        <4>1. o.client # c /\ client'[o.client] = client[o.client]
          BY <3>2, <2>1, <2>6, <1>0, <1>3
        <4>2. \A p \in toServer' : p.client = o.client => p \in toServer
          BY <4>1, <2>4, <2>5
        <4>3. SentFits(o) /\ (Ending(o) => EndingFits(o))
          BY <3>2 DEF AgreeInv
        <4> QED BY <4>1, <4>2, <4>3, <2>1, <1>1 DEF SentFits, EndingFits
      <3> QED BY <3>1, <3>2, <2>4
    <2>10. \A n \in toClient' : n.client = c => n.xid # r.xid
      BY <2>2, <2>7, <1>0, <1>2, <1>4
    <2>11. r.obtained_at <= now
      BY <2>2 DEF AgreeInv, HoldsLease
    <2> QED BY <1>6, <1>7, <2>1, <2>2, <2>8, <2>9, <2>10, <2>11 DEF AgreeInv
  <1>9. CASE receive_ack(c, m)
    <2>1. /\ m.xid = client[c].xid /\ client[c].state \in {"Requesting", "Renewing", "Rebinding"}
          /\ toServer' = toServer
      BY <1>9 DEF receive_ack
    <2>2. PICK r \in ClientRec :
            /\ client' = [client EXCEPT ![c] = r]
            /\ r.state \in {"Init", "Bound"} /\ r.obtained_at <= now
            /\ r.state = "Bound" => LeasedTo(store, c, r.ip, r.obtained_at + ClientLeaseTime)
            /\ \A d \in Clients \ {c} : \A ip : <<d, ip>> \in ended => <<d, ip>> \in ended'
      <3>1. CASE m.type = "Ack" /\ Commit(c, m)
        <4> DEFINE i == IF m.yiaddr # UNSPECIFIED THEN m.yiaddr ELSE client[c].ip
                   r == [client[c] EXCEPT !.ip = i, !.obtained_at = now, !.offered = UNSPECIFIED, !.state = "Bound"]
        <4>1. client' = [client EXCEPT ![c] = r]
          BY <3>1, <1>0 DEF Commit, ClientRec
        <4>2. r \in ClientRec /\ r.state = "Bound" /\ r.obtained_at = now /\ r.ip = i
          BY <1>0 DEF ClientRec, States, Replies
        <4>3. LeasedTo(store, c, i, now + LeaseDuration)
          BY <3>1, <2>1, <1>1 DEF AgreeInv, AckFits
        <4>4. \A d \in Clients \ {c} : \A ip : <<d, ip>> \in ended => <<d, ip>> \in ended'
          BY <3>1 DEF Commit
        <4> HIDE DEF r, i
        <4>5. i \in DOMAIN store.leases /\ store.leases[i].expires_at \in Nat
          BY <4>3 DEF LeasedTo, IInv, TypeOK, IsStore, Lease
        <4>6. LeasedTo(store, c, r.ip, r.obtained_at + ClientLeaseTime)
          BY <4>2, <4>3, <4>5, <1>0 DEF LeasedTo, Reliable
        <4>7. r.obtained_at <= now
          BY <4>2, <1>0
        <4> QED BY <4>1, <4>2, <4>4, <4>6, <4>7
      <3>2. CASE GiveUp(c)
        <4> DEFINE r == [NewClient EXCEPT !.xid = client[c].xid]
        <4>1. client' = [client EXCEPT ![c] = r] /\ ended' = ended
          BY <3>2 DEF GiveUp
        <4>2. r \in ClientRec /\ r.state = "Init" /\ r.obtained_at = 0
          BY <1>0 DEF ClientRec, States, NewClient
        <4> HIDE DEF r
        <4>3. r.obtained_at <= now
          BY <4>2, <1>0
        <4> QED BY <4>1, <4>2, <4>3
      <3> QED BY <1>9, <3>1, <3>2 DEF receive_ack
    <2>3. \A o \in toServer : o.client # c
      BY <1>5, <2>1
    <2>4. InOrder'
      BY <1>2, <2>1 DEF AgreeInv, InOrder
    <2>5. ASSUME NEW o \in toServer' PROVE SentFits(o)' /\ (Ending(o) => EndingFits(o)')
      <3>1. o \in toServer /\ o.client # c /\ client'[o.client] = client[o.client]
        BY <2>1, <2>2, <2>3, <1>0, <1>3
      <3>2. SentFits(o) /\ (Ending(o) => EndingFits(o))
        BY <3>1 DEF AgreeInv
      <3> QED BY <3>1, <3>2, <2>1, <2>2, <1>1, <1>3 DEF SentFits, EndingFits
    <2> QED BY <1>6, <1>7, <2>2, <2>4, <2>5 DEF AgreeInv
  <1>10. CASE UNCHANGED <<client, toServer, ended>>
    <2>1. InOrder'
      BY <1>2, <1>10 DEF AgreeInv, InOrder
    <2>2. \A o \in toServer' : SentFits(o)' /\ (Ending(o) => EndingFits(o)')
      BY <1>1, <1>10 DEF AgreeInv, SentFits, EndingFits
    <2>3. \A n \in toClient' : AckFits(n)'
      BY <1>1, <1>2, <1>10 DEF AgreeInv, AckFits
    <2>4. \A d \in Clients : HoldsLease(d)'
      BY <1>1, <1>10 DEF AgreeInv, HoldsLease, lease_expired
    <2> QED BY <2>1, <2>2, <2>3, <2>4 DEF AgreeInv
  <1> QED BY <1>1, <1>8, <1>9, <1>10

\* What the server answers: replies of the exchange of the request, one OFFER or none,
\* and an ACK only for an address it has confirmed at this time.
LEMMA ServerReplies ==
    ASSUME IInv, NEW m \in toServer, process(m)
    PROVE  /\ \A n \in toClient' \ toClient : n.client = m.client /\ n.xid = m.xid
           /\ \A n, k \in toClient' \ toClient : n.type = "Offer" => k = n
           /\ \A n \in toClient' \ toClient : n.type = "Ack" =>
                \E ip \in Pool : /\ m.type = "Request"
                                 /\ ip = IF m.requested # UNSPECIFIED THEN m.requested ELSE m.ciaddr
                                 /\ n.yiaddr = IF m.ciaddr = UNSPECIFIED THEN ip ELSE UNSPECIFIED
                                 /\ LeasedTo(store', m.client, ip, now + LeaseDuration)
  <1> USE NetAssumption, PoolFacts
  <1>1. m.client \in Clients /\ now \in Nat /\ IsStore(store)
    BY DEF IInv, TypeOK, Requests
  <1>2. CASE m.type = "Discover" /\ Discover(m)
    <2> DEFINE ips == chosen(prune(store, now), m.client, m.requested, now)
    <2>1. toClient' = toClient \union {build_reply("Offer", m, Server, ip) : ip \in ips}
      BY <1>2 DEF Discover
    <2>2. ASSUME NEW i \in ips, NEW j \in ips PROVE i = j
      <3>1. i \in Nat /\ j \in Nat
        BY DEF chosen
      <3>2. i = j \/ (i <= j /\ j <= i)
        BY DEF chosen
      <3> QED BY <3>1, <3>2
    <2> HIDE DEF ips
    <2> QED BY <2>1, <2>2 DEF build_reply
  <1>3. CASE m.type = "Request" /\ Request(m)
    <2> DEFINE ip == IF m.requested # UNSPECIFIED THEN m.requested ELSE m.ciaddr
               nak(from) == build_reply("Nak", m, from, UNSPECIFIED)
               ack == build_reply("Ack", m, Server, ip)
    <2>1. \A from : nak(from).type = "Nak" /\ nak(from).client = m.client /\ nak(from).xid = m.xid
      BY DEF build_reply
    <2>2. /\ ack.type = "Ack" /\ ack.client = m.client /\ ack.xid = m.xid
          /\ ack.yiaddr = IF m.ciaddr = UNSPECIFIED THEN ip ELSE UNSPECIFIED
      BY DEF build_reply
    <2>3. CASE can_confirm(store, ip, m.client)
      <3>1. ip \in Pool /\ store' = granted(store, ip, m.client, now)
        BY <1>1, <1>3, <2>3 DEF Request, confirm, can_confirm, IsStore
      <3>2. toClient' \subseteq toClient \union {ack} \union {nak(from) : from \in {Server, OtherServer}}
        BY <1>3, <2>3 DEF Request, build_reply
      <3>3. LeasedTo(store', m.client, ip, now + LeaseDuration)
        BY <3>1, <1>1 DEF LeasedTo, granted, Put, make_lease
      <3>4. \A n \in toClient' \ toClient : n = ack \/ \E from \in {Server, OtherServer} : n = nak(from)
        BY <3>2
      <3> HIDE DEF nak, ack
      <3>5. \A n \in toClient' \ toClient : n.client = m.client /\ n.xid = m.xid /\ n.type # "Offer" /\ (n.type = "Ack" => n = ack)
        BY <3>4, <2>1, <2>2
      <3> QED BY <3>1, <3>3, <3>5, <2>2, <1>3
    <2>4. CASE ~can_confirm(store, ip, m.client)
      <3>1. toClient' \subseteq toClient \union {nak(from) : from \in {Server, OtherServer}}
        BY <1>3, <2>4 DEF Request, build_reply
      <3>2. \A n \in toClient' \ toClient : \E from \in {Server, OtherServer} : n = nak(from)
        BY <3>1
      <3> HIDE DEF nak
      <3>3. \A n \in toClient' \ toClient : n.client = m.client /\ n.xid = m.xid /\ n.type = "Nak"
        BY <3>2, <2>1
      <3> QED BY <3>3
    <2> QED BY <2>3, <2>4
  <1>4. CASE toClient' = toClient
    BY <1>4
  <1> QED BY <1>2, <1>3, <1>4 DEF process, Decline, Release

\* The server takes a message: it comes in its client's order, touches no lease of
\* another client, and renews the one its own client may be counting on.
LEMMA ServerAgree ==
    ASSUME Reliable, IInv, AgreeInv, ServerReceives
    PROVE  AgreeInv'
  <1> USE NetAssumption, PoolFacts
  <1>1. PICK m \in toServer : /\ Deliver(toServer, m)
                              /\ toServer' \in Taken(toServer, m)
                              /\ process(m)
                              /\ UNCHANGED <<client, now, ended>>
    BY DEF ServerReceives
  <1>2. toServer' = toServer \ {m}
    BY <1>1 DEF Taken, Reliable
  <1>0. /\ m \in Requests /\ RequestCurrent(m) /\ m.client \in Clients /\ m.xid \in Nat
        /\ now \in Nat /\ client \in [Clients -> ClientRec] /\ client[m.client] \in ClientRec
        /\ toServer \subseteq Requests /\ toClient \subseteq Replies
    BY DEF IInv, TypeOK, Requests
  <1>3. \A o \in toServer : o.client \in Clients /\ o.xid \in Nat
    BY <1>0 DEF Requests
  <1>4. \A n \in toClient : n.client \in Clients /\ n.xid \in Nat
    BY <1>0 DEF Replies
  <1>5. ASSUME NEW o \in toServer', o.client = m.client PROVE m.xid < o.xid
    <2>1. m.xid <= o.xid
      BY <1>1, <1>2, <1>5 DEF Deliver, Reliable
    <2>2. m.xid # o.xid
      BY <1>2, <1>5 DEF AgreeInv, InOrder
    <2> QED BY <2>1, <2>2, <1>0, <1>2, <1>3
  <1>6. \A n \in toClient : n.client = m.client => n.xid < m.xid
    BY DEF AgreeInv, InOrder
  <1>7. InOrder'
    <2>1. \A n \in toClient', o \in toServer' : o.client = n.client => n.xid < o.xid
      <3> TAKE n \in toClient', o \in toServer'
      <3> HAVE o.client = n.client
      <3>1. CASE n \in toClient
        BY <3>1, <1>2 DEF AgreeInv, InOrder
      <3>2. CASE n \notin toClient
        <4>1. n.client = m.client /\ n.xid = m.xid
          BY <3>2, <1>1, ServerReplies
        <4> QED BY <4>1, <1>5
      <3> QED BY <3>1, <3>2
    <2>2. \A o, p \in toServer' : o.client = p.client /\ o.xid = p.xid => o = p
      BY <1>2 DEF AgreeInv, InOrder
    <2>3. ASSUME NEW n \in toClient', NEW k \in toClient', n.type = "Offer", k.client = n.client, k.xid = n.xid
          PROVE  k = n
      <3>1. CASE n \in toClient /\ k \in toClient
        BY <2>3, <3>1 DEF AgreeInv, InOrder
      <3>2. CASE n \notin toClient /\ k \notin toClient
        BY <2>3, <3>2, <1>1, ServerReplies
      <3>3. ASSUME NEW i \in toClient, NEW j \in toClient' \ toClient PROVE ~(i.client = j.client /\ i.xid = j.xid)
        <4>1. j.client = m.client /\ j.xid = m.xid
          BY <1>1, ServerReplies
        <4> QED BY <4>1, <1>0, <1>4, <1>6
      <3> QED BY <2>3, <3>1, <3>2, <3>3
    <2> QED BY <2>1, <2>2, <2>3 DEF InOrder
  <1>8. ASSUME NEW o \in toServer' PROVE SentFits(o)' /\ (Ending(o) => EndingFits(o)')
    <2>1. o \in toServer /\ SentFits(o) /\ (Ending(o) => EndingFits(o))
      BY <1>2 DEF AgreeInv
    <2>2. ASSUME Ending(o) PROVE EndingFits(o)'
      <3>1. o.xid <= m.xid \/ o.client # m.client
        BY <2>1, <2>2 DEF EndingFits
      <3>2. o.client # m.client
        BY <3>1, <1>0, <1>3, <1>5, <2>1
      <3>3. LeasedTo(store', o.client, Ends(o), now + 1)
        BY <3>2, <2>1, <2>2, <1>0, <1>1, <1>3, OthersKeepLeases DEF EndingFits
      <3> QED BY <3>3, <2>1, <2>2, <1>1, <1>2 DEF EndingFits
    <2> QED BY <2>1, <2>2, <1>1 DEF SentFits
  <1>9. ASSUME NEW n \in toClient' PROVE AckFits(n)'
    <2> DEFINE r == client[n.client]
    <2>1. SUFFICES ASSUME n.type = "Ack", n.xid = r.xid, r.state \in {"Requesting", "Renewing", "Rebinding"}
                   PROVE  LeasedTo(store', n.client, IF n.yiaddr # UNSPECIFIED THEN n.yiaddr ELSE r.ip, now + LeaseDuration)
      BY <1>1 DEF AckFits
    <2>2. CASE n \in toClient
      <3>1. n.client # m.client
        BY <2>1, <2>2, <1>0, <1>4, <1>6 DEF RequestCurrent, ClientRec
      <3>2. LeasedTo(store, n.client, IF n.yiaddr # UNSPECIFIED THEN n.yiaddr ELSE r.ip, now + LeaseDuration)
        BY <2>1, <2>2 DEF AgreeInv, AckFits
      <3>3. now + LeaseDuration \in Nat /\ now + LeaseDuration > now
        BY <1>0, StoreAssumption
      <3> QED BY <3>1, <3>2, <3>3, <2>2, <1>1, <1>4, OthersKeepLeases
    <2>3. CASE n \notin toClient
      <3>1. n.client = m.client /\ n.xid = m.xid
        BY <2>3, <1>1, ServerReplies
      <3>2. PICK ip \in Pool : /\ m.type = "Request"
                               /\ ip = IF m.requested # UNSPECIFIED THEN m.requested ELSE m.ciaddr
                               /\ n.yiaddr = IF m.ciaddr = UNSPECIFIED THEN ip ELSE UNSPECIFIED
                               /\ LeasedTo(store', m.client, ip, now + LeaseDuration)
        BY <2>1, <2>3, <1>1, ServerReplies
      <3>3. (IF n.yiaddr # UNSPECIFIED THEN n.yiaddr ELSE r.ip) = ip
        <4>1. CASE r.state = "Requesting"
          BY <4>1, <3>1, <3>2, <2>1, <1>0 DEF RequestCurrent
        <4>2. CASE r.state \in {"Renewing", "Rebinding"}
          BY <4>2, <3>1, <3>2, <2>1, <1>0 DEF RequestCurrent
        <4> QED BY <4>1, <4>2, <2>1
      <3> QED BY <3>1, <3>2, <3>3
    <2> QED BY <2>2, <2>3
  <1>10. ASSUME NEW d \in Clients PROVE HoldsLease(d)'
    <2> DEFINE r == client[d]
    <2>1. HoldsLease(d) /\ r.obtained_at \in Nat /\ r.obtained_at <= now /\ r.xid \in Nat
      BY <1>0 DEF AgreeInv, HoldsLease, ClientRec
    <2>2. SUFFICES ASSUME r.state \in {"Bound", "Renewing", "Rebinding"}, ~lease_expired(r)
                   PROVE  LeasedTo(store', d, r.ip, r.obtained_at + ClientLeaseTime)
      BY <2>1, <1>1 DEF HoldsLease, lease_expired
    <2>3. LeasedTo(store, d, r.ip, r.obtained_at + ClientLeaseTime)
      BY <2>1, <2>2 DEF HoldsLease
    <2>4. CASE d # m.client
      <3>1. r.obtained_at + ClientLeaseTime \in Nat /\ r.obtained_at + ClientLeaseTime > now
        BY <2>1, <2>2, <1>0 DEF lease_expired
      <3> QED BY <2>3, <2>4, <3>1, <1>1, OthersKeepLeases
    <2>5. CASE d = m.client
      <3>1. m.type = "Request" /\ m.xid = r.xid /\ r.state \in {"Renewing", "Rebinding"}
        BY <2>2, <2>5 DEF AgreeInv, SentFits
      <3>2. m.requested = UNSPECIFIED /\ m.ciaddr = r.ip
        BY <3>1, <2>5, <1>0 DEF RequestCurrent
      <3>3. can_confirm(store, r.ip, d)
        BY <2>3 DEF LeasedTo, can_confirm
      <3>4. store' = granted(store, r.ip, d, now)
        BY <3>1, <3>2, <3>3, <2>5, <1>1 DEF process, Request, confirm
      <3>5. r.ip \in DOMAIN store'.leases /\ store'.leases[r.ip] = make_lease(d, now)
        BY <3>4 DEF granted, Put
      <3>6. now + LeaseDuration >= r.obtained_at + ClientLeaseTime
        BY <2>1, <1>0 DEF Reliable
      <3> QED BY <3>5, <3>6 DEF LeasedTo, make_lease
    <2> QED BY <2>4, <2>5
  <1> QED BY <1>7, <1>8, <1>9, <1>10 DEF AgreeInv

\* The agreement holds at the start and every step of a reliable network preserves it.
LEMMA AgreeInductive ==
    ASSUME Reliable
    PROVE  (Init => AgreeInv) /\ (IInv /\ AgreeInv /\ [Next]_vars => AgreeInv')
  <1> USE NetAssumption, PoolFacts
  <1>1. ASSUME Init PROVE AgreeInv
    BY <1>1 DEF Init, AgreeInv, InOrder, HoldsLease, NewClient
  <1>2. ASSUME IInv, AgreeInv, [Next]_vars PROVE AgreeInv'
    <2>1. ASSUME NEW c \in Clients,
                 \/ start_discover(c) \/ start_renew(c) \/ start_rebind(c)
                 \/ release_call(c) \/ decline_call(c)
          PROVE AgreeInv'
      BY <1>2, <2>1, CallsAgree
    <2>2. ASSUME NEW c \in Clients, ClientReceives(c) PROVE AgreeInv'
      BY <1>2, <2>2, ClientAgree
    <2>3. CASE ServerReceives
      BY <1>2, <2>3, ServerAgree
    <2>4. CASE UNCHANGED <<store, client, toServer, now, ended, acked>> /\ toClient' \subseteq toClient
      <3>1. InOrder'
        BY <1>2, <2>4 DEF AgreeInv, InOrder
      <3>2. \A o \in toServer' : SentFits(o)' /\ (Ending(o) => EndingFits(o)')
        BY <1>2, <2>4 DEF AgreeInv, SentFits, EndingFits
      <3>3. \A n \in toClient' : AckFits(n)'
        BY <1>2, <2>4 DEF AgreeInv, AckFits
      <3>4. \A d \in Clients : HoldsLease(d)'
        BY <1>2, <2>4 DEF AgreeInv, HoldsLease, lease_expired
      <3> QED BY <3>1, <3>2, <3>3, <3>4 DEF AgreeInv
    <2>5. CASE Tick
      <3>1. toServer' = {} /\ toClient' = {} /\ now' = now + 1 /\ client' = client /\ store' = store /\ now \in Nat
        BY <1>2, <2>5 DEF Tick, Reliable, IInv, TypeOK
      <3>2. ASSUME NEW d \in Clients PROVE HoldsLease(d)'
        <4>1. HoldsLease(d) /\ client[d].obtained_at \in Nat
          BY <1>2 DEF AgreeInv, IInv, TypeOK, ClientRec
        <4> QED BY <4>1, <3>1 DEF HoldsLease, lease_expired
      <3> QED BY <3>1, <3>2 DEF AgreeInv, InOrder
    <2>6. LoseReply \/ UNCHANGED vars => UNCHANGED <<store, client, toServer, now, ended, acked>> /\ toClient' \subseteq toClient
      BY DEF LoseReply, vars
    <2> QED BY <1>2, <2>1, <2>2, <2>3, <2>4, <2>5, <2>6 DEF Next
  <1> QED BY <1>1, <1>2

\* The agreement in every reachable state.
LEMMA AgreeInvariance == ASSUME Reliable PROVE Spec => [](IInv /\ AgreeInv)
  <1>1. Init => IInv /\ AgreeInv
    BY Inductive, AgreeInductive
  <1>2. IInv /\ AgreeInv /\ [Next]_vars => (IInv /\ AgreeInv)'
    BY Inductive, AgreeInductive
  <1> QED BY <1>1, <1>2, PTL DEF Spec

\* Whatever the network loses, a client that uses an address by its own clock is the
\* one the store has it leased to, until a time that has not come: acquire, confirm,
\* release, expiry and the two state machines fit together.
THEOREM LeasesAgree == ASSUME Reliable PROVE Spec => []ServerAgrees
  <1>1. IInv /\ AgreeInv => ServerAgrees
    <2> SUFFICES ASSUME IInv, AgreeInv, NEW c \in Clients, NEW ip \in Pool, Uses(c, ip)
                 PROVE  /\ ip \in DOMAIN store.leases
                        /\ store.leases[ip].client_id = c /\ store.leases[ip].expires_at > now
      BY DEF ServerAgrees
    <2>1. /\ client[c].ip = ip /\ ~lease_expired(client[c])
          /\ LeasedTo(store, c, ip, client[c].obtained_at + ClientLeaseTime)
      BY DEF Uses, AgreeInv, HoldsLease
    <2>2. ip \in DOMAIN store.leases /\ store.leases[ip].expires_at \in Nat
      BY <2>1 DEF LeasedTo, IInv, TypeOK, IsStore, Lease
    <2>3. client[c].obtained_at \in Nat /\ now \in Nat
      BY NetAssumption DEF IInv, TypeOK, ClientRec
    <2> QED BY <2>1, <2>2, <2>3, NetAssumption DEF LeasedTo, lease_expired
  <1> QED BY <1>1, AgreeInvariance, PTL

\* No address is in use by two clients at once.
THEOREM AddressesExclusive == ASSUME Reliable PROVE Spec => []AddressExclusive
  <1>1. ServerAgrees => AddressExclusive
    BY DEF ServerAgrees, AddressExclusive
  <1> QED BY <1>1, LeasesAgree, PTL

\* A lease that runs leaves the store only because its own client has released or
\* declined it: prune removes what has expired, and no other message removes any.
THEOREM LeasesKept == ASSUME Reliable PROVE Spec => LeaseKept
  <1> DEFINE Kept == \A ip \in DOMAIN store.leases :
                        store.leases[ip].expires_at > now /\ ip \notin DOMAIN store'.leases =>
                            <<store.leases[ip].client_id, ip>> \in ended
  <1>1. IInv /\ AgreeInv /\ [Next]_vars => [Kept]_vars
    <2> SUFFICES ASSUME IInv, AgreeInv, Next PROVE Kept
      OBVIOUS
    <2>1. CASE store' = store
      BY <2>1
    <2>2. CASE ServerReceives
      <3>1. PICK m \in toServer : process(m)
        BY <2>2 DEF ServerReceives
      <3>2. m.client \in Clients /\ IsStore(store) /\ now \in Nat
        BY NetAssumption DEF IInv, TypeOK, Requests
      <3>3. CASE Discover(m)
        BY <3>2, <3>3, AcquireNoTakeover DEF Discover
      <3>4. CASE Request(m)
        <4> DEFINE ip == IF m.requested # UNSPECIFIED THEN m.requested ELSE m.ciaddr
        <4>1. store' = confirm(store, ip, m.client, now)
          BY <3>4 DEF Request
        <4> HIDE DEF ip
        <4> QED BY <4>1 DEF confirm, can_confirm, granted, Put
      <3>5. CASE Ending(m)
        <4>1. LeasedTo(store, m.client, Ends(m), now + 1) /\ <<m.client, Ends(m)>> \in ended
          BY <3>5 DEF AgreeInv, EndingFits
        <4>2. store'.leases = Keep(store.leases, Pool \ {Ends(m)})
          BY <3>1, <3>5 DEF process, Ending, Ends, Release, Decline, release, decline
        <4> QED BY <4>1, <4>2, <3>2 DEF Keep, LeasedTo, IsStore
      <3> QED BY <3>1, <3>3, <3>4, <3>5 DEF process, Ending
    <2> QED BY <2>1, <2>2 DEF Next, start_discover, start_renew, start_rebind, release_call,
                              decline_call, ClientReceives, LoseReply, Tick
  <1>2. LeaseKept <=> [][Kept]_vars
    BY DEF LeaseKept
  <1> QED BY <1>1, <1>2, AgreeInvariance, PTL DEF Spec

-----------------------------------------------------------------------------
(* The refinement of LeaseService, on the same network. *)

\* The lease of ip runs at time t.
Runs(st, ip, t) == ip \in DOMAIN st.leases /\ ~is_expired(st.leases[ip], t)

\* Whoever uses an address has a lease of it that runs.
UseBacked == \A c \in Clients : InUse[c] # UNSPECIFIED =>
    InUse[c] \in Pool /\ Runs(store, InUse[c], now) /\ store.leases[InUse[c]].client_id = c

\* Who uses an address is backed by the lease he has been given.
LEMMA Backed == IInv /\ ServerAgrees => UseBacked
  <1> SUFFICES ASSUME IInv, ServerAgrees, NEW c \in Clients, InUse[c] # UNSPECIFIED
               PROVE  InUse[c] \in Pool /\ Runs(store, InUse[c], now) /\ store.leases[InUse[c]].client_id = c
    BY DEF UseBacked
  <1>1. Uses(c, client[c].ip) /\ InUse[c] = client[c].ip /\ client[c].ip # UNSPECIFIED
    BY DEF InUse
  <1>2. client[c].ip \in Pool
    BY <1>1 DEF IInv, TypeOK, ClientRec
  <1>3. now \in Nat /\ \A ip \in DOMAIN store.leases : store.leases[ip].expires_at \in Nat
    BY NetAssumption DEF IInv, TypeOK, IsStore, Lease
  <1> QED BY <1>1, <1>2, <1>3 DEF ServerAgrees, Runs, is_expired

\* A step of one client, while store and clock stay: it begins to use what it holds, stops, or neither.
LEMMA ClientServes ==
    ASSUME UseBacked', NEW c \in Clients, UNCHANGED <<store, now>>,
           \A d \in Clients \ {c} : client'[d] = client[d]
    PROVE  Service!ServiceNext \/ UNCHANGED Service!serviceVars
  <1>1. Holder' = Holder
    BY DEF Holder
  <1>2. \A d \in Clients \ {c} : InUse'[d] = InUse[d]
    BY DEF InUse, Uses, lease_expired
  <1>3. InUse' = [InUse EXCEPT ![c] = InUse'[c]]
    BY <1>2 DEF InUse
  <1>4. CASE InUse'[c] = InUse[c]
    <2>1. InUse' = InUse
      BY <1>3, <1>4 DEF InUse
    <2> QED BY <1>1, <2>1 DEF Service!serviceVars
  <1>5. CASE InUse'[c] = UNSPECIFIED
    <2>1. Service!Leave(c)
      BY <1>1, <1>3, <1>5 DEF Service!Leave
    <2> QED BY <2>1 DEF Service!ServiceNext
  <1>6. CASE InUse'[c] # UNSPECIFIED
    <2>1. InUse'[c] \in Pool /\ Holder'[InUse'[c]] = c
      BY <1>6 DEF UseBacked, Holder, Runs
    <2>2. Service!Begin(c, InUse'[c])
      BY <1>1, <1>3, <2>1 DEF Service!Begin
    <2> QED BY <2>1, <2>2 DEF Service!ServiceNext
  <1> QED BY <1>4, <1>5, <1>6

\* A step of the server that changes at most who holds ip.
LEMMA ServerServes ==
    ASSUME UseBacked', UNCHANGED <<client, now>>, NEW ip \in Pool, NEW c \in Clients,
           \A j \in Pool \ {ip} : Holder'[j] = Holder[j],
           \/ ~Runs(store', ip, now)
           \/ Holder'[ip] = c /\ (Holder[ip] = c \/ ~Runs(store, ip, now))
    PROVE  Service!ServiceNext \/ UNCHANGED Service!serviceVars
  <1>1. InUse' = InUse
    BY DEF InUse, Uses, lease_expired
  <1>2. Holder' = [Holder EXCEPT ![ip] = Holder'[ip]]
    BY DEF Holder
  <1>3. CASE ~Runs(store', ip, now)
    <2>1. Holder'[ip] = NoClient
      BY <1>3 DEF Holder, Runs
    <2>2. \A d \in Clients : InUse[d] # ip
      BY <1>1, <1>3, StoreAssumption DEF UseBacked, UNSPECIFIED
    <2>3. Service!Return(ip)
      BY <1>1, <1>2, <2>1, <2>2 DEF Service!Return
    <2> QED BY <2>3 DEF Service!ServiceNext
  <1>4. CASE Holder'[ip] = c /\ Holder[ip] = c
    <2>1. Holder' = Holder
      BY <1>2, <1>4 DEF Holder
    <2> QED BY <1>1, <2>1 DEF Service!serviceVars
  <1>5. CASE Holder'[ip] = c /\ ~Runs(store, ip, now)
    <2>1. Holder[ip] = NoClient
      BY <1>5 DEF Holder, Runs
    <2>2. Service!Grant(c, ip)
      BY <1>1, <1>2, <1>5, <2>1 DEF Service!Grant
    <2> QED BY <2>2 DEF Service!ServiceNext
  <1> QED BY <1>3, <1>4, <1>5

\* Whom a store has ip leased to at time t.
HeldBy(st, ip, t) == IF Runs(st, ip, t) THEN st.leases[ip].client_id ELSE NoClient

\* The mapped holder of an address, from the lease store.
LEMMA HolderIs == \A ip \in Pool : Holder[ip] = HeldBy(store, ip, now)
  BY DEF Holder, HeldBy, Runs

\* prune removes no lease that runs, and granted changes the lease of one address.
LEMMA StoreHolds ==
    ASSUME NEW st, NEW t \in Nat, NEW c \in Clients
    PROVE  /\ \A j \in Pool : /\ Runs(prune(st, t), j, t) <=> Runs(st, j, t)
                              /\ j \in DOMAIN prune(st, t).leases <=> Runs(st, j, t)
                              /\ HeldBy(prune(st, t), j, t) = HeldBy(st, j, t)
           /\ \A ip \in Pool : /\ Runs(granted(st, ip, c, t), ip, t) /\ HeldBy(granted(st, ip, c, t), ip, t) = c
                               /\ \A j \in Pool \ {ip} : HeldBy(granted(st, ip, c, t), j, t) = HeldBy(st, j, t)
  <1>1. ASSUME NEW j \in Pool
        PROVE  /\ Runs(prune(st, t), j, t) <=> Runs(st, j, t)
               /\ j \in DOMAIN prune(st, t).leases <=> Runs(st, j, t)
               /\ HeldBy(prune(st, t), j, t) = HeldBy(st, j, t)
    BY DEF prune, Keep, Runs, HeldBy
  <1>2. ASSUME NEW ip \in Pool
        PROVE  Runs(granted(st, ip, c, t), ip, t) /\ HeldBy(granted(st, ip, c, t), ip, t) = c
    BY StoreAssumption DEF granted, Put, make_lease, Runs, HeldBy, is_expired
  <1>3. ASSUME NEW ip \in Pool, NEW j \in Pool \ {ip}
        PROVE  HeldBy(granted(st, ip, c, t), j, t) = HeldBy(st, j, t)
    BY DEF granted, Put, Runs, HeldBy
  <1> QED BY <1>1, <1>2, <1>3

\* handle_discover is a step of the lease service, or none.
LEMMA DiscoverServes ==
    ASSUME IInv, UseBacked', UNCHANGED <<client, now>>, NEW m \in toServer, Discover(m)
    PROVE  Service!ServiceNext \/ UNCHANGED Service!serviceVars
  <1> DEFINE c == m.client
             pr == prune(store, now)
             ips == chosen(pr, c, m.requested, now)
             j == CHOOSE i \in ips : TRUE
  <1>1. c \in Clients /\ now \in Nat
    BY NetAssumption DEF IInv, TypeOK, Requests
  <1>2. store' = acquire(store, c, m.requested, now)
    BY DEF Discover
  <1>3. CASE ips = {}
    <2>1. store' = pr
      BY <1>2, <1>3 DEF acquire
    <2>2. \A i \in Pool : HeldBy(store', i, now) = HeldBy(store, i, now)
      BY <1>1, <2>1, StoreHolds
    <2>3. Holder' = Holder /\ InUse' = InUse
      BY <2>2, HolderIs DEF Holder, InUse, Uses, lease_expired, HeldBy, Runs
    <2> QED BY <2>3 DEF Service!serviceVars
  <1>4. CASE ips # {}
    <2>1. j \in ips /\ store' = granted(pr, j, c, now)
      BY <1>2, <1>4 DEF acquire
    <2>2. j \in Pool /\ available(pr, j, c, now)
      BY <2>1 DEF chosen
    <2> HIDE DEF j
    <2>3. /\ HeldBy(store', j, now) = c
          /\ \A i \in Pool \ {j} : HeldBy(store', i, now) = HeldBy(store, i, now)
      <3>1. \A i \in Pool : HeldBy(pr, i, now) = HeldBy(store, i, now)
        BY <1>1, StoreHolds
      <3> HIDE DEF pr, c
      <3> QED BY <1>1, <2>1, <2>2, <3>1, StoreHolds
    <2>4. HeldBy(store, j, now) = c \/ ~Runs(store, j, now)
      <3>1. CASE Runs(store, j, now)
        <4>1. j \in DOMAIN pr.leases /\ Runs(pr, j, now) /\ HeldBy(pr, j, now) = HeldBy(store, j, now)
          BY <1>1, <2>2, <3>1, StoreHolds
        <4> QED BY <2>2, <4>1 DEF available, HeldBy
      <3> QED BY <3>1
    <2>5. Holder'[j] = c /\ \A i \in Pool \ {j} : Holder'[i] = Holder[i]
      BY <2>2, <2>3, HolderIs DEF Holder, HeldBy, Runs
    <2>6. Holder[j] = c \/ ~Runs(store, j, now)
      BY <2>2, <2>4, HolderIs
    <2> QED BY <1>1, <2>2, <2>5, <2>6, ServerServes
  <1> QED BY <1>3, <1>4

\* handle_request is a step of the lease service, or none.
LEMMA RequestServes ==
    ASSUME IInv, UseBacked', UNCHANGED <<client, now>>, NEW m \in toServer, Request(m)
    PROVE  Service!ServiceNext \/ UNCHANGED Service!serviceVars
  <1> DEFINE c == m.client
             ip == IF m.requested # UNSPECIFIED THEN m.requested ELSE m.ciaddr
  <1>1. c \in Clients /\ now \in Nat /\ IsStore(store)
    BY NetAssumption DEF IInv, TypeOK, Requests
  <1>2. store' = confirm(store, ip, c, now)
    BY DEF Request
  <1> HIDE DEF c, ip
  <1>3. CASE ~can_confirm(store, ip, c)
    <2>1. store' = store
      BY <1>2, <1>3 DEF confirm
    <2>2. Holder' = Holder /\ InUse' = InUse
      BY <2>1 DEF Holder, InUse, Uses, lease_expired
    <2> QED BY <2>2 DEF Service!serviceVars
  <1>4. CASE can_confirm(store, ip, c)
    <2>1. store' = granted(store, ip, c, now) /\ ip \in Pool /\ store.leases[ip].client_id = c
      BY <1>1, <1>2, <1>4 DEF confirm, can_confirm, IsStore
    <2>2. HeldBy(store', ip, now) = c /\ \A i \in Pool \ {ip} : HeldBy(store', i, now) = HeldBy(store, i, now)
      <3>1. HeldBy(store', ip, now) = c
        BY <1>1, <2>1, StoreAssumption DEF granted, Put, make_lease, Runs, HeldBy, is_expired
      <3>2. \A i \in Pool \ {ip} : HeldBy(store', i, now) = HeldBy(store, i, now)
        BY <2>1 DEF granted, Put, Runs, HeldBy
      <3> QED BY <3>1, <3>2
    <2>3. Holder'[ip] = c /\ \A i \in Pool \ {ip} : Holder'[i] = Holder[i]
      BY <2>1, <2>2, HolderIs DEF Holder, HeldBy, Runs
    <2>4. Holder[ip] = c \/ ~Runs(store, ip, now)
      BY <2>1, HolderIs DEF HeldBy
    <2> QED BY <1>1, <2>1, <2>3, <2>4, ServerServes
  <1> QED BY <1>3, <1>4

\* handle_release and handle_decline are steps of the lease service.
LEMMA EndingServes ==
    ASSUME IInv, AgreeInv, UseBacked', UNCHANGED <<client, now>>, NEW m \in toServer, Ending(m), process(m)
    PROVE  Service!ServiceNext \/ UNCHANGED Service!serviceVars
  <1> DEFINE ip == Ends(m)
  <1>1. m.client \in Clients /\ IsStore(store)
    BY DEF IInv, TypeOK, Requests
  <1>2. LeasedTo(store, m.client, ip, now + 1)
    BY DEF AgreeInv, EndingFits
  <1>3. store'.leases = Keep(store.leases, Pool \ {ip})
    BY DEF process, Ending, Ends, Release, Decline, release, decline
  <1> HIDE DEF ip
  <1>4. ip \in Pool /\ ~Runs(store', ip, now)
    BY <1>1, <1>2, <1>3 DEF LeasedTo, IsStore, Keep, Runs
  <1>5. \A j \in Pool \ {ip} : Holder'[j] = Holder[j]
    BY <1>1, <1>3 DEF Holder, Keep
  <1> QED BY <1>1, <1>4, <1>5, ServerServes

\* The expiry of leases is a step of the lease service.
LEMMA TickServes ==
    ASSUME IInv, UseBacked', Tick
    PROVE  Service!ServiceNext
  <1> DEFINE stopping == {c \in Clients : InUse'[c] # InUse[c]}
             freed == {ip \in Pool : Holder'[ip] # Holder[ip]}
  <1>1. UNCHANGED <<store, client>> /\ now \in Nat /\ now' = now + 1 /\ IsStore(store)
    BY NetAssumption DEF Tick, IInv, TypeOK
  <1>2. \A c \in Clients : client[c].obtained_at \in Nat
    BY DEF IInv, TypeOK, ClientRec
  <1>3. \A c \in stopping : InUse'[c] = UNSPECIFIED
    BY <1>1, <1>2, NetAssumption DEF InUse, Uses, lease_expired
  <1>4. \A ip \in freed : ~Runs(store', ip, now')
    BY <1>1 DEF Holder, Runs, is_expired, IsStore, Lease
  <1>5. \A ip \in freed : Holder'[ip] = NoClient
    BY <1>4 DEF Holder, Runs
  <1>6. \A ip \in freed, c \in Clients : InUse'[c] # ip
    BY <1>4, StoreAssumption DEF UseBacked, UNSPECIFIED
  <1>7. InUse' = [c \in Clients |-> IF c \in stopping THEN UNSPECIFIED ELSE InUse[c]]
    BY <1>3 DEF InUse
  <1>8. Holder' = [ip \in Pool |-> IF ip \in freed THEN NoClient ELSE Holder[ip]]
    BY <1>5 DEF Holder
  <1>9. stopping \in SUBSET Clients /\ freed \in SUBSET Pool
    OBVIOUS
  <1> HIDE DEF stopping, freed
  <1>10. Service!Lapse(stopping, freed)
    BY <1>6, <1>7, <1>8 DEF Service!Lapse
  <1> QED BY <1>9, <1>10 DEF Service!ServiceNext

\* The service is implemented: whatever the network loses, every step of a client, of the server, of the
\* network and of the clock is a step of LeaseService, in which an address changes hands only by way of
\* nobody and after its use has ended, or none at all.
THEOREM ServiceImplemented == ASSUME Reliable PROVE Spec => Implements
  <1>1. Init => Service!ServiceInit
    <2> SUFFICES ASSUME Init PROVE Service!ServiceInit
      OBVIOUS
    <2>1. Holder = [ip \in Pool |-> NoClient]
      BY DEF Init, NewStore, Holder
    <2>2. InUse = [c \in Clients |-> UNSPECIFIED]
      BY DEF Init, NewClient, InUse, Uses
    <2> QED BY <2>1, <2>2 DEF Service!ServiceInit
  <1>2. IInv /\ AgreeInv /\ UseBacked' /\ [Next]_vars => [Service!ServiceNext]_Service!serviceVars
    <2> SUFFICES ASSUME IInv, AgreeInv, UseBacked', [Next]_vars
                 PROVE  Service!ServiceNext \/ UNCHANGED Service!serviceVars
      OBVIOUS
    <2>1. ASSUME NEW c \in Clients,
                 \/ start_discover(c) \/ start_renew(c) \/ start_rebind(c)
                 \/ release_call(c) \/ decline_call(c) \/ ClientReceives(c)
          PROVE  Service!ServiceNext \/ UNCHANGED Service!serviceVars
      <3>1. UNCHANGED <<store, now>>
        BY <2>1 DEF start_discover, start_renew, start_rebind, release_call, decline_call, ClientReceives
      <3>2. client \in [Clients -> ClientRec]
        BY DEF IInv, TypeOK
      <3>3. \A d \in Clients \ {c} : client'[d] = client[d]
        BY <2>1, <3>2 DEF start_discover, start_renew, start_rebind, Open, release_call, decline_call,
                          ClientReceives, receive_offer, receive_ack, Commit, GiveUp
      <3> QED BY <3>1, <3>3, ClientServes
    <2>2. CASE ServerReceives
      <3>1. UNCHANGED <<client, now>> /\ \E m \in toServer : process(m)
        BY <2>2 DEF ServerReceives
      <3> QED BY <3>1, DiscoverServes, RequestServes, EndingServes DEF process, Ending
    <2>3. CASE Tick
      BY <2>3, TickServes
    <2>4. CASE UNCHANGED <<store, client, now>>
      <3>1. Holder' = Holder /\ InUse' = InUse
        BY <2>4 DEF Holder, InUse, Uses, lease_expired
      <3> QED BY <3>1 DEF Service!serviceVars
    <2>5. LoseReply \/ UNCHANGED vars => UNCHANGED <<store, client, now>>
      BY DEF LoseReply, vars
    <2> QED BY <2>1, <2>2, <2>3, <2>4, <2>5 DEF Next
  <1>3. Spec => []UseBacked
    BY Backed, Invariance, LeasesAgree, PTL
  <1> QED BY <1>1, <1>2, <1>3, AgreeInvariance, PTL DEF Spec, Implements, Service!ServiceSpec

\* What the service is worth to its clients: whoever uses an address holds it, so that no two use the
\* same, in every behaviour of LeaseService.
THEOREM ServicePromise == ASSUME NoClient \notin Clients PROVE Implements => []Service!OnlyHoldersUse
  <1> DEFINE Inv == (\A c \in Clients : InUse[c] \in Pool \union {UNSPECIFIED}) /\ Service!OnlyHoldersUse
  <1>1. Service!ServiceInit => Inv
    BY DEF Service!ServiceInit, Service!OnlyHoldersUse
  <1>2. Inv /\ [Service!ServiceNext]_Service!serviceVars => Inv'
    <2> SUFFICES ASSUME Inv, [Service!ServiceNext]_Service!serviceVars PROVE Inv'
      OBVIOUS
    <2>1. DOMAIN Holder = Pool /\ DOMAIN InUse = Clients
      BY DEF Holder, InUse
    <2>2. ASSUME NEW c \in Clients, NEW ip \in Pool, Service!Grant(c, ip) PROVE Inv'
      BY <2>1, <2>2 DEF Service!Grant, Service!OnlyHoldersUse
    <2>3. ASSUME NEW c \in Clients, NEW ip \in Pool, Service!Begin(c, ip) PROVE Inv'
      BY <2>1, <2>3 DEF Service!Begin, Service!OnlyHoldersUse
    <2>4. ASSUME NEW c \in Clients, Service!Leave(c) PROVE Inv'
      BY <2>1, <2>4 DEF Service!Leave, Service!OnlyHoldersUse
    <2>5. ASSUME NEW ip \in Pool, Service!Return(ip) PROVE Inv'
      BY <2>1, <2>5 DEF Service!Return, Service!OnlyHoldersUse
    <2>6. ASSUME NEW stopping, NEW freed, Service!Lapse(stopping, freed) PROVE Inv'
      BY <2>1, <2>6 DEF Service!Lapse, Service!OnlyHoldersUse
    <2>7. CASE UNCHANGED Service!serviceVars
      BY <2>7 DEF Service!serviceVars, Service!OnlyHoldersUse
    <2> QED BY <2>2, <2>3, <2>4, <2>5, <2>6, <2>7 DEF Service!ServiceNext
  <1>3. Inv => Service!OnlyHoldersUse
    OBVIOUS
  <1> QED BY <1>1, <1>2, <1>3, PTL DEF Implements, Service!ServiceSpec

-----------------------------------------------------------------------------
(* DHCPv6, on a network that loses messages but neither delays, duplicates *)
(* nor reorders them.                                                      *)


Terms == [addresses : SUBSET Pool, obtained_at : Nat]
Host == [state : Six!Waiting \union {"Init", "Selecting", "Bound"}, xid : Nat, lease : Terms]
Up == [type : {"Solicit", "Request", "Release", "Decline", "Information"}, client : Clients, xid : Nat,
       sid : BOOLEAN, ia : BOOLEAN]
Down == [type : {"Advertise", "Reply"}, client : Clients, xid : Nat, addresses : SUBSET Pool]
Binding == [address : Pool, expires_at : Nat]

\* The store of the server: at most one binding of an address, and none of one on probation.
StoreOK ==
    /\ DOMAIN leases \subseteq Clients /\ \A c \in DOMAIN leases : leases[c] \in Binding
    /\ DOMAIN declined \subseteq Pool /\ \A a \in DOMAIN declined : declined[a] \in Nat
    /\ \A c, d \in DOMAIN leases : leases[c].address = leases[d].address => c = d
    /\ \A c \in DOMAIN leases, a \in DOMAIN declined : leases[c].address = a => declined[a] <= clock

NetOK ==
    /\ host \in [Clients -> Host] /\ upward \subseteq Up /\ downward \subseteq Down /\ clock \in 0 .. MaxTime
    /\ \A c \in Clients : host[c].lease.obtained_at <= clock
    /\ \A o \in upward \union downward : o.xid <= host[o.client].xid

\* As InOrder: exchanges are answered one after the other, and an ADVERTISE is the only answer of its own.
Sequenced ==
    /\ \A m \in downward, o \in upward : o.client = m.client => m.xid < o.xid
    /\ \A o, p \in upward : o.client = p.client /\ o.xid = p.xid => o = p
    /\ \A m, n \in downward : m.type = "Advertise" /\ n.client = m.client /\ n.xid = m.xid => n = m

\* The binding of c is of a, until t or later.
BoundTo(c, a, t) == c \in DOMAIN leases /\ leases[c].address = a /\ leases[c].expires_at >= t

\* As SentFits, AckFits and HoldsLease.
UpFits(o) ==
    /\ host[o.client].state # "Bound"
    /\ host[o.client].state \in {"Renewing", "Rebinding"} => o.type = "Request" /\ o.xid = host[o.client].xid

DownFits(m) ==
    /\ m.type = "Reply" /\ m.xid = host[m.client].xid
    /\ host[m.client].state \in {"Requesting", "Renewing", "Rebinding"}
    => \A a \in m.addresses : BoundTo(m.client, a, clock + LeaseDuration)

HostFits(c) ==
    host[c].state \in {"Bound", "Renewing", "Rebinding"} /\ ~Six!is_expired(host[c].lease) =>
        \A a \in host[c].lease.addresses : BoundTo(c, a, host[c].lease.obtained_at + LeaseDuration)

Inv6 ==
    /\ StoreOK /\ NetOK /\ Sequenced
    /\ \A o \in upward : UpFits(o)
    /\ \A m \in downward : DownFits(m)
    /\ \A c \in Clients : HostFits(c)

\* Nothing is leased at the start.
LEMMA Start6 == Six!Dhcp6Init => Inv6
  <1> SUFFICES ASSUME Six!Dhcp6Init PROVE Inv6
    OBVIOUS
  <1>1. \A c \in Clients : host[c] \in Host /\ host[c].state = "Init" /\ host[c].lease.obtained_at = 0
    BY DEF Six!Dhcp6Init, Six!NoLease, Host, Terms
  <1>2. host \in [Clients -> Host]
    BY <1>1 DEF Six!Dhcp6Init
  <1> QED BY <1>1, <1>2, NetAssumption DEF Inv6, StoreOK, NetOK, Sequenced, HostFits, Six!Dhcp6Init, Six!Nowhere

\* A call of the application: its xid is above every other, and only a Bound host, which has nothing under
\* way, renews.
LEMMA Call6 ==
    ASSUME Inv6, NEW c \in Clients, NEW state \in Six!Waiting \union {"Init", "Selecting"}, NEW lease \in Terms,
           lease.obtained_at <= clock, NEW type \in {"Solicit", "Request", "Release", "Decline", "Information"},
           NEW sid \in BOOLEAN, NEW ia \in BOOLEAN,
           state \in {"Renewing", "Rebinding"} =>
              host[c].state = "Bound" /\ type = "Request" /\ lease = host[c].lease,
           Six!Call(c, state, lease, type, sid, ia)
    PROVE  Inv6'
  <1> DEFINE r == [state |-> state, xid |-> host[c].xid + 1, lease |-> lease]
             m == [type |-> type, client |-> c, xid |-> r.xid, sid |-> sid, ia |-> ia]
  <1>0. /\ host \in [Clients -> Host] /\ host[c] \in Host /\ host[c].xid \in Nat /\ clock \in Nat
        /\ upward \subseteq Up /\ downward \subseteq Down
    BY NetAssumption DEF Inv6, NetOK, Host
  <1>1. r \in Host /\ r.xid = host[c].xid + 1 /\ r.state = state /\ r.lease = lease /\ state # "Bound"
    BY <1>0 DEF Host, Six!Waiting
  <1>2. host' = [host EXCEPT ![c] = r] /\ UNCHANGED <<leases, declined, downward, clock>>
    BY <1>0 DEF Six!Call, Six!store6
  <1>3. host'[c] = r /\ \A d \in Clients \ {c} : host'[d] = host[d]
    BY <1>0, <1>2
  <1>4. m \in Up /\ m.client = c /\ m.xid = r.xid /\ m.type = type
    BY <1>1, <1>0 DEF Up
  <1>5. upward' = upward \union {m} \/ upward' = upward
    BY <1>3 DEF Six!Call, Six!Send, Six!base_request
  <1> HIDE DEF r, m
  <1>6. \A o \in upward : o.xid \in Nat /\ o.client \in Clients /\ (o.client = c => o.xid < m.xid)
    BY <1>0, <1>1, <1>4 DEF Inv6, NetOK, Up
  <1>7. \A n \in downward : n.xid \in Nat /\ n.client \in Clients /\ (n.client = c => n.xid < m.xid)
    BY <1>0, <1>1, <1>4 DEF Inv6, NetOK, Down
  <1>8. StoreOK'
    BY <1>2 DEF Inv6, StoreOK
  <1>9. NetOK'
    <2>1. host' \in [Clients -> Host] /\ upward' \subseteq Up /\ downward' \subseteq Down /\ clock' \in 0 .. MaxTime
      BY <1>0, <1>1, <1>2, <1>4, <1>5 DEF Inv6, NetOK
    <2>2. \A d \in Clients : host'[d].lease.obtained_at <= clock'
      BY <1>1, <1>2, <1>3 DEF Inv6, NetOK
    <2>3. ASSUME NEW o \in upward' \union downward' PROVE o.xid <= host'[o.client].xid
      <3>1. CASE o = m
        BY <3>1, <1>0, <1>1, <1>3, <1>4
      <3>2. CASE o \in upward \union downward
        <4>1. o.xid <= host[o.client].xid /\ o.client \in Clients /\ o.xid \in Nat
          BY <3>2, <1>6, <1>7 DEF Inv6, NetOK
        <4> QED BY <4>1, <1>0, <1>1, <1>3
      <3> QED BY <3>1, <3>2, <1>2, <1>5
    <2> QED BY <2>1, <2>2, <2>3 DEF NetOK
  <1>10. Sequenced'
    BY <1>2, <1>4, <1>5, <1>6, <1>7 DEF Inv6, Sequenced
  <1>11. ASSUME NEW o \in upward' PROVE UpFits(o)'
    <2>1. CASE o = m
      BY <2>1, <1>1, <1>3, <1>4 DEF UpFits
    <2>2. CASE o \in upward /\ o.client = c
      BY <2>2, <1>1, <1>3, <1>6 DEF Inv6, UpFits
    <2>3. CASE o \in upward /\ o.client # c
      BY <2>3, <1>3, <1>6 DEF Inv6, UpFits
    <2> QED BY <2>1, <2>2, <2>3, <1>5
  <1>12. ASSUME NEW n \in downward' PROVE DownFits(n)'
    <2>1. n \in downward /\ DownFits(n)
      BY <1>2 DEF Inv6
    <2>2. CASE n.client = c
      BY <2>1, <2>2, <1>3, <1>4, <1>7 DEF DownFits
    <2>3. CASE n.client # c
      BY <2>1, <2>3, <1>2, <1>3, <1>7 DEF DownFits, BoundTo
    <2> QED BY <2>2, <2>3
  <1>13. ASSUME NEW d \in Clients PROVE HostFits(d)'
    <2>1. HostFits(d)
      BY DEF Inv6
    <2>2. CASE d = c
      BY <2>1, <2>2, <1>1, <1>2, <1>3 DEF HostFits, BoundTo, Six!is_expired
    <2>3. CASE d # c
      BY <2>1, <2>3, <1>2, <1>3 DEF HostFits, BoundTo, Six!is_expired
    <2> QED BY <2>2, <2>3
  <1> QED BY <1>8, <1>9, <1>10, <1>11, <1>12, <1>13 DEF Inv6

\* The calls of a client program keep the invariant.
LEMMA Calls6 ==
    ASSUME Inv6, NEW c \in Clients,
           \/ Six!start_solicit(c) \/ Six!information_request(c) \/ Six!start_renew(c) \/ Six!start_rebind(c)
           \/ Six!release_call(c) \/ Six!decline_call(c)
    PROVE  Inv6'
  <1>1. host[c].lease \in Terms /\ host[c].lease.obtained_at <= clock /\ clock \in Nat
    BY NetAssumption DEF Inv6, NetOK, Host
  <1>2. Six!NoLease \in Terms /\ Six!NoLease.obtained_at <= clock
    BY <1>1 DEF Six!NoLease, Terms
  <1>3. \A s \in {"Requesting", "Renewing", "Rebinding", "Releasing", "Declining", "Selecting"} :
           s \in Six!Waiting \union {"Init", "Selecting"}
    BY DEF Six!Waiting
  <1>4. CASE Six!start_solicit(c)
    BY <1>2, <1>3, <1>4, Call6 DEF Six!start_solicit
  <1>5. CASE Six!information_request(c)
    BY <1>1, <1>3, <1>5, Call6 DEF Six!information_request
  <1>6. CASE Six!start_renew(c)
    BY <1>1, <1>3, <1>6, Call6 DEF Six!start_renew
  <1>7. CASE Six!start_rebind(c)
    BY <1>1, <1>3, <1>7, Call6 DEF Six!start_rebind
  <1>8. CASE Six!release_call(c)
    BY <1>1, <1>3, <1>8, Call6 DEF Six!release_call
  <1>9. CASE Six!decline_call(c)
    BY <1>1, <1>3, <1>9, Call6 DEF Six!decline_call
  <1> QED BY <1>4, <1>5, <1>6, <1>7, <1>8, <1>9

Reliable6 == MayFail \subseteq {"lose"}

\* A host takes a message and becomes r, in the same exchange: Bound with what the message says, or not
\* using any address.
LEMMA Host6 ==
    ASSUME Inv6, NEW c \in Clients, NEW m \in downward, m.client = c, NEW r \in Host,
           downward' = downward \ {m}, host' = [host EXCEPT ![c] = r], r.xid = host[c].xid,
           r.lease.obtained_at <= clock,
           r.state \notin {"Renewing", "Rebinding"},
           r.state = "Bound" =>
              /\ m.type = "Reply" /\ m.xid = host[c].xid
              /\ host[c].state \in {"Requesting", "Renewing", "Rebinding"}
              /\ r.lease.addresses = m.addresses /\ r.lease.obtained_at = clock,
           r.state = "Requesting" => m.type = "Advertise" /\ m.xid = host[c].xid,
           NEW q \in Up, q.client = c, q.xid = host[c].xid,
           \/ upward' = upward
           \/ upward' = upward \union {q} /\ r.state = "Requesting",
           UNCHANGED <<leases, declined, clock>>
    PROVE  Inv6'
  <1>0. /\ host \in [Clients -> Host] /\ host[c].xid \in Nat /\ clock \in Nat
        /\ upward \subseteq Up /\ downward \subseteq Down
    BY NetAssumption DEF Inv6, NetOK, Host
  <1>1. host'[c] = r /\ \A d \in Clients \ {c} : host'[d] = host[d]
    BY <1>0
  <1>2. \A o \in upward : o.xid \in Nat /\ o.client \in Clients /\ o.xid <= host[o.client].xid
    BY <1>0 DEF Inv6, NetOK, Up
  <1>3. \A n \in downward : n.xid \in Nat /\ n.client \in Clients /\ n.xid <= host[n.client].xid
    BY <1>0 DEF Inv6, NetOK, Down
  <1>4. m.xid = host[c].xid => \A o \in upward : o.client # c
    BY <1>0, <1>2, <1>3 DEF Inv6, Sequenced
  <1>5. r.state = "Requesting" => \A n \in downward' : n.client = c => n.xid < host[c].xid
    <2> SUFFICES ASSUME r.state = "Requesting", NEW n \in downward', n.client = c PROVE n.xid < host[c].xid
      OBVIOUS
    <2>1. n # m /\ n \in downward /\ n.xid # m.xid
      BY DEF Inv6, Sequenced
    <2> QED BY <1>0, <1>3, <2>1
  <1>6. StoreOK'
    BY DEF Inv6, StoreOK
  <1>7. NetOK'
    <2>1. host' \in [Clients -> Host] /\ upward' \subseteq Up /\ downward' \subseteq Down /\ clock' \in 0 .. MaxTime
      BY <1>0 DEF Inv6, NetOK
    <2>2. \A d \in Clients : host'[d].lease.obtained_at <= clock'
      BY <1>1 DEF Inv6, NetOK
    <2>3. ASSUME NEW o \in upward' \union downward' PROVE o.xid <= host'[o.client].xid
      <3>1. CASE o = q
        BY <3>1, <1>0, <1>1
      <3>2. CASE o \in upward \union downward
        BY <3>2, <1>0, <1>1, <1>2, <1>3
      <3> QED BY <3>1, <3>2
    <2> QED BY <2>1, <2>2, <2>3 DEF NetOK
  <1>8. Sequenced'
    <2>1. ASSUME NEW n \in downward', NEW o \in upward', o.client = n.client PROVE n.xid < o.xid
      <3>1. n \in downward
        OBVIOUS
      <3>2. CASE o \in upward
        BY <2>1, <3>1, <3>2 DEF Inv6, Sequenced
      <3>3. CASE o = q /\ r.state = "Requesting"
        BY <2>1, <3>3, <1>5
      <3> QED BY <3>2, <3>3
    <2>2. ASSUME NEW o \in upward', NEW p \in upward', o.client = p.client, o.xid = p.xid PROVE o = p
      <3>1. CASE upward' = upward
        BY <2>2, <3>1 DEF Inv6, Sequenced
      <3>2. CASE upward' = upward \union {q} /\ r.state = "Requesting"
        BY <2>2, <3>2, <1>4 DEF Inv6, Sequenced
      <3> QED BY <3>1, <3>2
    <2>3. ASSUME NEW n \in downward', NEW k \in downward', n.type = "Advertise", k.client = n.client, k.xid = n.xid
          PROVE  k = n
      BY <2>3 DEF Inv6, Sequenced
    <2> QED BY <2>1, <2>2, <2>3 DEF Sequenced
  <1>9. ASSUME NEW o \in upward' PROVE UpFits(o)'
    <2>1. CASE o = q /\ r.state = "Requesting"
      BY <2>1, <1>1 DEF UpFits
    <2>2. CASE o \in upward /\ o.client = c
      BY <2>2, <1>1, <1>4 DEF UpFits
    <2>3. CASE o \in upward /\ o.client # c
      BY <2>3, <1>1, <1>2 DEF Inv6, UpFits
    <2> QED BY <2>1, <2>2, <2>3
  <1>10. ASSUME NEW n \in downward' PROVE DownFits(n)'
    <2>1. n \in downward /\ DownFits(n)
      BY DEF Inv6
    <2>2. CASE n.client = c
      BY <2>1, <2>2, <1>0, <1>1, <1>3, <1>5 DEF DownFits
    <2>3. CASE n.client # c
      BY <2>1, <2>3, <1>1, <1>3 DEF DownFits, BoundTo
    <2> QED BY <2>2, <2>3
  <1>11. ASSUME NEW d \in Clients PROVE HostFits(d)'
    <2>1. CASE d = c /\ r.state = "Bound"
      <3>1. \A a \in m.addresses : BoundTo(c, a, clock + LeaseDuration)
        BY <2>1 DEF Inv6, DownFits
      <3>2. \A a \in m.addresses : BoundTo(c, a, clock + LeaseDuration)'
        BY <3>1 DEF BoundTo
      <3> QED BY <2>1, <3>2, <1>1 DEF HostFits, BoundTo
    <2>2. CASE d = c /\ r.state # "Bound"
      BY <2>2, <1>1 DEF HostFits
    <2>3. CASE d # c
      BY <2>3, <1>1 DEF Inv6, HostFits, BoundTo, Six!is_expired
    <2> QED BY <2>1, <2>2, <2>3
  <1> QED BY <1>6, <1>7, <1>8, <1>9, <1>10, <1>11 DEF Inv6

\* A message that is dropped, by a host that does not expect it or by the network.
LEMMA Drop6 ==
    ASSUME Inv6, NEW lost, downward' = downward \ lost, UNCHANGED <<leases, declined, host, upward, clock>>
    PROVE  Inv6'
  <1>1. StoreOK' /\ NetOK'
    BY DEF Inv6, StoreOK, NetOK
  <1>2. Sequenced'
    BY DEF Inv6, Sequenced
  <1>3. (\A o \in upward : UpFits(o))' /\ (\A m \in downward : DownFits(m))'
    BY DEF Inv6, UpFits, DownFits, BoundTo
  <1>4. (\A c \in Clients : HostFits(c))'
    BY DEF Inv6, HostFits, BoundTo, Six!is_expired
  <1> QED BY <1>1, <1>2, <1>3, <1>4 DEF Inv6

\* What a client does with a reply keeps the invariant.
LEMMA Receives6 ==
    ASSUME Reliable6, Inv6, NEW c \in Clients, Six!HostReceives(c)
    PROVE  Inv6'
  <1>0. /\ host \in [Clients -> Host] /\ host[c] \in Host /\ host[c].xid \in Nat /\ clock \in Nat
        /\ host[c].lease.obtained_at <= clock /\ downward \subseteq Down
    BY NetAssumption DEF Inv6, NetOK, Host
  <1>1. PICK m \in downward : /\ m.client = c /\ downward' \in Six!Left(downward, m)
                              /\ \/ Six!receive_advertise(c, m) \/ Six!receive_reply(c, m)
                                 \/ UNCHANGED <<host, upward>>
                              /\ UNCHANGED <<leases, declined, clock>>
    BY DEF Six!HostReceives, Six!store6
  <1>2. downward' = downward \ {m}
    BY <1>1 DEF Six!Left, Reliable6
  <1>3. CASE UNCHANGED <<host, upward>>
    BY <1>1, <1>2, <1>3, Drop6
  <1> DEFINE q == [type |-> "Request", client |-> c, xid |-> host[c].xid, sid |-> TRUE, ia |-> m.addresses # {}]
  <1>4. q \in Up /\ q.client = c /\ q.xid = host[c].xid
    BY <1>0 DEF Up
  <1>5. CASE Six!receive_advertise(c, m)
    <2> DEFINE r == [host[c] EXCEPT !.state = "Requesting"]
    <2>1. r \in Host /\ r.xid = host[c].xid /\ r.lease = host[c].lease /\ r.state = "Requesting"
      BY <1>0 DEF Host, Six!Waiting
    <2>2. host' = [host EXCEPT ![c] = r] /\ m.type = "Advertise" /\ m.xid = host[c].xid
      BY <1>5 DEF Six!receive_advertise
    <2>3. upward' = upward \union {q} \/ upward' = upward
      BY <1>0, <1>5, <2>1, <2>2 DEF Six!receive_advertise, Six!Send, Six!base_request
    <2> HIDE DEF r, q
    <2> QED BY <1>0, <1>1, <1>2, <1>4, <2>1, <2>2, <2>3, Host6
  <1>6. CASE Six!receive_reply(c, m)
    <2>1. /\ host[c].state \in Six!Waiting /\ m.type = "Reply" /\ m.xid = host[c].xid /\ upward' = upward
          /\ m.addresses \in SUBSET Pool
      BY <1>0, <1>6 DEF Six!receive_reply, Down
    <2>2. CASE host[c].state \in {"Releasing", "Declining"}
      <3> DEFINE r == [host[c] EXCEPT !.lease = Six!NoLease, !.state = "Init"]
      <3>1. r \in Host /\ r.xid = host[c].xid /\ r.lease.obtained_at <= clock /\ r.state = "Init"
        <4>1. Six!NoLease \in Terms /\ Six!NoLease.obtained_at = 0
          BY DEF Terms, Six!NoLease
        <4>2. r \in Host /\ r.xid = host[c].xid /\ r.lease = Six!NoLease /\ r.state = "Init"
          BY <1>0, <4>1 DEF Host
        <4> QED BY <1>0, <4>1, <4>2
      <3>2. host' = [host EXCEPT ![c] = r]
        BY <1>6, <2>2 DEF Six!receive_reply
      <3> HIDE DEF r, q
      <3> QED BY <1>0, <1>1, <1>2, <1>4, <2>1, <3>1, <3>2, Host6
    <2>3. CASE host[c].state \notin {"Releasing", "Declining"}
      <3> DEFINE t == [addresses |-> m.addresses, obtained_at |-> clock]
                 r == [host[c] EXCEPT !.lease = t, !.state = "Bound"]
      <3>1. t \in Terms /\ t.addresses = m.addresses /\ t.obtained_at = clock
        BY <1>0, <2>1 DEF Terms
      <3>2. r \in Host /\ r.xid = host[c].xid /\ r.lease = t /\ r.state = "Bound"
        BY <1>0, <3>1 DEF Host
      <3>3. host' = [host EXCEPT ![c] = r] /\ host[c].state \in {"Requesting", "Renewing", "Rebinding"}
        BY <1>6, <2>1, <2>3 DEF Six!receive_reply, Six!Waiting
      <3>4. r.lease.addresses = m.addresses /\ r.lease.obtained_at = clock /\ r.lease.obtained_at <= clock
        BY <1>0, <3>1, <3>2
      <3> HIDE DEF r, q, t
      <3> QED BY <1>1, <1>2, <1>4, <2>1, <3>2, <3>3, <3>4, Host6
    <2> QED BY <2>2, <2>3
  <1> QED BY <1>1, <1>3, <1>5, <1>6

\* What the server makes of a message of c: the binding of c is l afterwards, if it has one, and the
\* others of ls stay.
Bind(ls, c, l) == [d \in DOMAIN ls \union {c} |-> IF d = c THEN l ELSE ls[d]]

\* prune leaves bindings that run; refresh and Granted make them last for LeaseDuration from now.
LEMMA Live6 ==
    ASSUME StoreOK, clock \in Nat
    PROVE  LET live == Six!prune(leases)
           IN  /\ DOMAIN live \subseteq DOMAIN leases /\ \A d \in DOMAIN live : live[d] = leases[d]
               /\ \A d \in DOMAIN leases : leases[d].expires_at > clock => d \in DOMAIN live
               /\ \A d \in DOMAIN leases : /\ Six!refresh(leases[d]) \in Binding
                                           /\ Six!refresh(leases[d]).address = leases[d].address
                                           /\ Six!refresh(leases[d]).expires_at = clock + LeaseDuration
               /\ \A a \in Pool : Six!Granted(a) \in Binding /\ Six!Granted(a).address = a
                                  /\ Six!Granted(a).expires_at = clock + LeaseDuration
  <1>1. \A d \in DOMAIN leases : leases[d] \in Binding
    BY DEF StoreOK
  <1>2. ASSUME NEW l \in Binding
        PROVE  Six!refresh(l) \in Binding /\ Six!refresh(l).address = l.address
               /\ Six!refresh(l).expires_at = clock + LeaseDuration
    BY PoolFacts DEF Six!refresh, Binding
  <1>3. \A a \in Pool : Six!Granted(a) \in Binding /\ Six!Granted(a).address = a
                        /\ Six!Granted(a).expires_at = clock + LeaseDuration
    BY PoolFacts DEF Six!Granted, Binding
  <1>4. \A d \in DOMAIN leases : leases[d].expires_at > clock => clock < leases[d].expires_at
    BY <1>1 DEF Binding
  <1> QED BY <1>1, <1>2, <1>3, <1>4 DEF Six!prune

\* Bindings of ls, some of the store's, with that of c made l: the store is sound if no other has the
\* address and it is not on probation.
LEMMA Bind6 ==
    ASSUME StoreOK, UNCHANGED clock, NEW c \in Clients, NEW l \in Binding, NEW ls,
           DOMAIN ls \subseteq DOMAIN leases, \A d \in DOMAIN ls : ls[d] = leases[d],
           \A d \in DOMAIN ls \ {c} : leases[d].address # l.address,
           l.address \in DOMAIN declined => declined[l.address] <= clock,
           leases' = Bind(ls, c, l),
           DOMAIN declined' \subseteq DOMAIN declined, \A a \in DOMAIN declined' : declined'[a] = declined[a]
    PROVE  /\ StoreOK'
           /\ c \in DOMAIN leases' /\ leases'[c] = l
           /\ \A d \in DOMAIN ls \ {c} : d \in DOMAIN leases' /\ leases'[d] = leases[d]
  <1>1. DOMAIN leases' = DOMAIN ls \union {c} /\ leases'[c] = l /\ \A d \in DOMAIN ls \ {c} : leases'[d] = leases[d]
    BY DEF Bind
  <1>2. DOMAIN leases' \subseteq Clients /\ \A d \in DOMAIN leases' : leases'[d] \in Binding
    BY <1>1 DEF StoreOK
  <1>3. DOMAIN declined' \subseteq Pool /\ \A a \in DOMAIN declined' : declined'[a] \in Nat
    BY DEF StoreOK
  <1>4. ASSUME NEW d \in DOMAIN leases', NEW b \in DOMAIN leases', leases'[d].address = leases'[b].address PROVE d = b
    BY <1>1, <1>4 DEF StoreOK
  <1>5. ASSUME NEW d \in DOMAIN leases', NEW a \in DOMAIN declined', leases'[d].address = a PROVE declined'[a] <= clock
    BY <1>1, <1>5 DEF StoreOK
  <1> QED BY <1>1, <1>2, <1>3, <1>4, <1>5 DEF StoreOK

\* Without the binding of c, or with those only that run.
LEMMA Fewer6 ==
    ASSUME StoreOK, UNCHANGED clock,
           DOMAIN leases' \subseteq DOMAIN leases, \A d \in DOMAIN leases' : leases'[d] = leases[d],
           DOMAIN declined' \subseteq Pool, \A a \in DOMAIN declined' : declined'[a] \in Nat,
           \A a \in DOMAIN declined' :
              \/ a \in DOMAIN declined /\ declined'[a] = declined[a]
              \/ \A d \in DOMAIN leases' : leases[d].address # a
    PROVE  StoreOK'
  <1>1. DOMAIN leases' \subseteq Clients /\ \A d \in DOMAIN leases' : leases'[d] \in Binding
    BY DEF StoreOK
  <1>2. \A d, b \in DOMAIN leases' : leases'[d].address = leases'[b].address => d = b
    BY DEF StoreOK
  <1>3. \A d \in DOMAIN leases', a \in DOMAIN declined' : leases'[d].address = a => declined'[a] <= clock'
    BY DEF StoreOK
  <1> QED BY <1>1, <1>2, <1>3 DEF StoreOK

\* What a message of c does to the store and which answers it has.
Served(m) ==
    /\ StoreOK'
    /\ \A d \in Clients \ {m.client}, a \in Pool, t \in Nat : t > clock /\ BoundTo(d, a, t) => BoundTo(d, a, t)'
    /\ m.type = "Request" =>
          \A a \in Pool, t \in Nat : t <= clock + LeaseDuration /\ BoundTo(m.client, a, t) => BoundTo(m.client, a, t)'
    /\ downward \subseteq downward'
    /\ \A n \in downward' \ downward :
          /\ n \in Down /\ n.client = m.client /\ n.xid = m.xid
          /\ n.type = "Reply" => \A a \in n.addresses : BoundTo(m.client, a, clock + LeaseDuration)'
          /\ n.type = "Advertise" => \A k \in downward' \ downward : k = n

\* What a reply carries.
LEMMA Reply6 ==
    ASSUME NEW m \in Up, NEW type \in {"Advertise", "Reply"}, NEW as \in SUBSET Pool
    PROVE  LET n == Six!base_reply(type, m, as)
           IN  n \in Down /\ n.client = m.client /\ n.xid = m.xid /\ n.type = type /\ n.addresses = as
  BY DEF Six!base_reply, Up, Down

\* A SOLICIT is served.
LEMMA Solicit6 ==
    ASSUME StoreOK, clock \in Nat, UNCHANGED clock, NEW m \in Up, m.type = "Solicit", Six!Solicit(m)
    PROVE  Served(m)
  <1> DEFINE c == m.client
             live == Six!prune(leases)
             picked == Six!pick_address(live)
             l == IF c \in DOMAIN live THEN {Six!refresh(live[c])} ELSE {Six!Granted(a) : a \in picked}
             n == Six!base_reply("Advertise", m, {x.address : x \in l})
  <1>1. c \in Clients
    BY DEF Up
  <1>2. /\ leases' = [d \in DOMAIN live \union {e \in {c} : l # {}} |-> IF d = c THEN CHOOSE x \in l : TRUE ELSE live[d]]
        /\ downward' = downward \union {n}
    BY DEF Six!Solicit, Six!Answer
  <1>3. DOMAIN declined' \subseteq DOMAIN declined /\ \A a \in DOMAIN declined' : declined'[a] = declined[a]
    BY DEF Six!Solicit
  <1>4. /\ DOMAIN live \subseteq DOMAIN leases /\ \A d \in DOMAIN live : live[d] = leases[d]
        /\ \A d \in DOMAIN leases : leases[d].expires_at > clock => d \in DOMAIN live
        /\ \A d \in DOMAIN live : Six!refresh(live[d]) \in Binding /\ Six!refresh(live[d]).address = leases[d].address
        /\ \A a \in Pool : Six!Granted(a) \in Binding /\ Six!Granted(a).address = a
    BY Live6
  <1>5. \A a \in picked : /\ a \in Pool /\ (\A d \in DOMAIN live : live[d].address # a)
                          /\ (a \in DOMAIN declined => ~(declined[a] > clock))
    BY DEF Six!pick_address
  <1>6. \A a, b \in picked : a = b
    <2>1. \A a, b \in picked : ~(b < a)
      BY DEF Six!pick_address
    <2>2. \A a \in picked : a \in Nat
      BY <1>5, PoolFacts
    <2> HIDE DEF picked
    <2> QED BY <2>1, <2>2
  <1>7. {x.address : x \in l} \in SUBSET Pool
    <2>1. \A x \in l : x \in Binding
      BY <1>4, <1>5
    <2> QED BY <2>1 DEF Binding
  <1>8. n \in Down /\ n.client = c /\ n.xid = m.xid /\ n.type = "Advertise"
    BY <1>7, Reply6
  <1> HIDE DEF n, live, picked
  <1>9. StoreOK' /\ \A d \in DOMAIN live \ {c} : d \in DOMAIN leases' /\ leases'[d] = leases[d]
    <2>1. CASE l = {}
      <3>1. leases' = [d \in DOMAIN live |-> live[d]]
        <4>1. c \notin DOMAIN live /\ {e \in {c} : l # {}} = {}
          BY <2>1
        <4> QED BY <1>2, <2>1, <4>1
      <3>2. DOMAIN declined' \subseteq Pool /\ \A a \in DOMAIN declined' : declined'[a] \in Nat
        BY <1>3 DEF StoreOK
      <3> QED BY <1>3, <1>4, <3>1, <3>2, Fewer6
    <2>2. ASSUME NEW x \in Binding, l = {x}, \A d \in DOMAIN live \ {c} : leases[d].address # x.address,
                 x.address \in DOMAIN declined => declined[x.address] <= clock
          PROVE  StoreOK' /\ \A d \in DOMAIN live \ {c} : d \in DOMAIN leases' /\ leases'[d] = leases[d]
      <3>1. (CHOOSE y \in l : TRUE) = x /\ {e \in {c} : l # {}} = {c}
        BY <2>2
      <3> HIDE DEF l
      <3>2. leases' = Bind(live, c, x)
        BY <1>2, <3>1 DEF Bind
      <3> HIDE DEF c
      <3> QED BY <1>1, <1>3, <1>4, <2>2, <3>2, Bind6
    <2>3. CASE c \in DOMAIN live
      <3> DEFINE x == Six!refresh(live[c])
      <3>1. x \in Binding /\ x.address = leases[c].address /\ l = {x} /\ c \in DOMAIN leases
        BY <1>4, <2>3
      <3> HIDE DEF x, l
      <3>2. \A d \in DOMAIN live \ {c} : leases[d].address # x.address
        BY <1>4, <3>1 DEF StoreOK
      <3>3. x.address \in DOMAIN declined => declined[x.address] <= clock
        BY <3>1 DEF StoreOK
      <3> QED BY <2>2, <3>1, <3>2, <3>3
    <2>4. CASE c \notin DOMAIN live /\ picked # {}
      <3>1. PICK a \in picked : TRUE
        BY <2>4
      <3> DEFINE x == Six!Granted(a)
      <3>2. l = {x}
        BY <1>6, <2>4, <3>1
      <3>3. x \in Binding /\ x.address = a
        BY <1>4, <1>5
      <3> HIDE DEF x, l
      <3>4. \A d \in DOMAIN live \ {c} : leases[d].address # x.address
        BY <1>4, <1>5, <3>3
      <3>5. x.address \in DOMAIN declined => declined[x.address] <= clock
        BY <1>5, <3>3 DEF StoreOK
      <3> QED BY <2>2, <3>2, <3>3, <3>4, <3>5
    <2> QED BY <2>1, <2>3, <2>4
  <1>10. ASSUME NEW d \in Clients \ {c}, NEW a \in Pool, NEW t \in Nat, t > clock, BoundTo(d, a, t)
         PROVE  BoundTo(d, a, t)'
    <2>1. leases[d].expires_at > clock
      BY <1>10 DEF BoundTo, StoreOK, Binding
    <2> QED BY <1>4, <1>9, <1>10, <2>1 DEF BoundTo
  <1> QED BY <1>2, <1>8, <1>9, <1>10 DEF Served

\* A REQUEST is served.
LEMMA Request6 ==
    ASSUME StoreOK, clock \in Nat, UNCHANGED clock, NEW m \in Up, m.type = "Request", Six!Request(m)
    PROVE  Served(m)
  <1> DEFINE c == m.client
             has == c \in DOMAIN leases
             others == IF Foreign /\ ~m.sid THEN {Six!base_reply("Reply", m, {})} ELSE {}
             as == IF has THEN {leases[c].address} ELSE {}
             own == Six!base_reply("Reply", m, as)
  <1>1. c \in Clients
    BY DEF Up
  <1>2. /\ leases' = IF has THEN [leases EXCEPT ![c] = Six!refresh(@)] ELSE leases
        /\ downward' = downward \union {own} \union others /\ UNCHANGED declined
    BY DEF Six!Request
  <1>3. as \in SUBSET Pool /\ {} \in SUBSET Pool
    BY DEF StoreOK, Binding
  <1>4. \A n \in downward' \ downward :
           /\ n \in Down /\ n.client = c /\ n.xid = m.xid /\ n.type = "Reply"
           /\ n.addresses = as \/ n.addresses = {}
    <2>1. own \in Down /\ own.client = c /\ own.xid = m.xid /\ own.type = "Reply" /\ own.addresses = as
      BY <1>3, Reply6
    <2> DEFINE k == Six!base_reply("Reply", m, {})
    <2>2. k \in Down /\ k.client = c /\ k.xid = m.xid /\ k.type = "Reply" /\ k.addresses = {}
      BY <1>3, Reply6
    <2>3. \A n \in downward' \ downward : n = own \/ n = k
      BY <1>2
    <2> HIDE DEF own, k
    <2> QED BY <2>1, <2>2, <2>3
  <1>5. CASE ~has
    <2>1. as = {} /\ leases' = leases
      BY <1>2, <1>5
    <2>2. StoreOK'
      BY <1>2, <2>1 DEF StoreOK
    <2>3. \A d, a, t : BoundTo(d, a, t)' <=> BoundTo(d, a, t)
      BY <2>1 DEF BoundTo
    <2> HIDE DEF as, own, others
    <2> QED BY <1>2, <1>4, <2>1, <2>2, <2>3 DEF Served
  <1>6. CASE has
    <2> DEFINE l == Six!refresh(leases[c])
    <2>1. l \in Binding /\ l.address = leases[c].address /\ l.expires_at = clock + LeaseDuration
      BY <1>6, Live6
    <2>2. leases' = Bind(leases, c, l)
      BY <1>2, <1>6 DEF Bind
    <2> HIDE DEF l
    <2>3. \A d \in DOMAIN leases \ {c} : leases[d].address # l.address
      BY <1>6, <2>1 DEF StoreOK
    <2>4. l.address \in DOMAIN declined => declined[l.address] <= clock
      BY <1>6, <2>1 DEF StoreOK
    <2>5. /\ StoreOK' /\ c \in DOMAIN leases' /\ leases'[c] = l
          /\ \A d \in DOMAIN leases \ {c} : d \in DOMAIN leases' /\ leases'[d] = leases[d]
      BY <1>1, <1>2, <2>1, <2>2, <2>3, <2>4, Bind6
    <2>6. \A d \in Clients \ {c} : \A a, t : BoundTo(d, a, t) => BoundTo(d, a, t)'
      BY <2>5 DEF BoundTo
    <2>7. as = {leases[c].address} /\ \A a \in as : BoundTo(c, a, clock + LeaseDuration)'
      BY <1>6, <2>1, <2>5, PoolFacts DEF BoundTo
    <2>8. \A a \in Pool, t \in Nat : t <= clock + LeaseDuration /\ BoundTo(c, a, t) => BoundTo(c, a, t)'
      BY <2>1, <2>5, PoolFacts DEF BoundTo
    <2> HIDE DEF as, own, others
    <2> QED BY <1>2, <1>4, <2>5, <2>6, <2>7, <2>8 DEF Served
  <1> QED BY <1>5, <1>6

\* A RELEASE or a DECLINE is served.
LEMMA Ending6 ==
    ASSUME StoreOK, clock \in Nat, UNCHANGED clock, NEW m \in Up, m.type # "Request",
           Six!Release(m) \/ Six!Decline(m)
    PROVE  Served(m)
  <1> DEFINE c == m.client
             n == Six!base_reply("Reply", m, {})
             refused == {leases[d].address : d \in {c} \cap DOMAIN leases}
  <1>1. DOMAIN leases' = DOMAIN leases \ {c} /\ \A d \in DOMAIN leases' : leases'[d] = leases[d]
    BY DEF Six!Release, Six!Decline, Six!Without
  <1>2. downward' = downward \union {n}
    BY DEF Six!Release, Six!Decline, Six!Answer
  <1>3. \/ declined' = declined
        \/ declined' = [a \in refused \union DOMAIN declined |->
                           IF a \in refused THEN clock + LeaseDuration ELSE declined[a]]
    BY DEF Six!Release, Six!Decline
  <1>4. refused \subseteq Pool /\ \A a \in refused : \A d \in DOMAIN leases' : leases[d].address # a
    BY <1>1 DEF StoreOK, Binding
  <1> HIDE DEF refused
  <1>5. /\ DOMAIN declined' \subseteq Pool /\ \A a \in DOMAIN declined' : declined'[a] \in Nat
        /\ \A a \in DOMAIN declined' : a \in refused \/ (a \in DOMAIN declined /\ declined'[a] = declined[a])
    <2>1. /\ DOMAIN declined \subseteq Pool /\ \A a \in DOMAIN declined : declined[a] \in Nat
          /\ clock + LeaseDuration \in Nat
      BY PoolFacts DEF StoreOK
    <2> QED BY <1>3, <1>4, <2>1
  <1>6. StoreOK'
    BY <1>1, <1>4, <1>5, Fewer6
  <1>7. n \in Down /\ n.client = c /\ n.xid = m.xid /\ n.type = "Reply" /\ n.addresses = {}
    BY Reply6
  <1>8. \A d \in Clients \ {c} : \A a, t : BoundTo(d, a, t) => BoundTo(d, a, t)'
    BY <1>1 DEF BoundTo
  <1> HIDE DEF n
  <1> QED BY <1>2, <1>6, <1>7, <1>8 DEF Served

\* The answer to any message keeps the invariant.
LEMMA Process6 ==
    ASSUME StoreOK, clock \in Nat, UNCHANGED clock, NEW m \in Up, Six!process(m)
    PROVE  Served(m)
  <1>1. CASE /\ UNCHANGED <<leases, declined>>
             /\ downward' = downward \/ downward' = downward \union {Six!base_reply("Reply", m, {})}
    <2> DEFINE n == Six!base_reply("Reply", m, {})
    <2>1. StoreOK' /\ \A d, a, t : BoundTo(d, a, t)' <=> BoundTo(d, a, t)
      BY <1>1 DEF StoreOK, BoundTo
    <2>2. n \in Down /\ n.client = m.client /\ n.xid = m.xid /\ n.type = "Reply" /\ n.addresses = {}
      BY Reply6
    <2>3. downward' = downward \/ downward' = downward \union {n}
      BY <1>1
    <2> HIDE DEF n
    <2> QED BY <2>1, <2>2, <2>3 DEF Served
  <1>2. CASE m.type = "Solicit" /\ Six!Solicit(m)
    BY <1>2, Solicit6
  <1>3. CASE m.type = "Request" /\ Six!Request(m)
    BY <1>3, Request6
  <1>4. CASE m.type # "Request" /\ (Six!Release(m) \/ Six!Decline(m))
    BY <1>4, Ending6
  <1> QED BY <1>1, <1>2, <1>3, <1>4 DEF Six!process, Six!Information, Six!Answer, Six!store6

\* Every step of the server keeps the invariant.
LEMMA Server6 ==
    ASSUME Reliable6, Inv6, Six!ServerReceives
    PROVE  Inv6'
  <1>0. /\ host \in [Clients -> Host] /\ clock \in Nat
        /\ upward \subseteq Up /\ downward \subseteq Down /\ StoreOK
        /\ \A d \in Clients : host[d].xid \in Nat /\ host[d].lease.obtained_at \in Nat
                              /\ host[d].lease.addresses \in SUBSET Pool /\ host[d].lease.obtained_at <= clock
    BY NetAssumption DEF Inv6, NetOK, Host, Terms
  <1>1. PICK m \in upward : /\ Six!InOrder(upward, m) /\ upward' \in Six!Left(upward, m)
                            /\ Six!process(m) /\ UNCHANGED <<host, clock>>
    BY DEF Six!ServerReceives
  <1>2. upward' = upward \ {m} /\ \A o \in upward : o.client = m.client => m.xid <= o.xid
    BY <1>1 DEF Six!Left, Six!InOrder, Reliable6
  <1>3. Served(m)
    BY <1>0, <1>1, Process6
  <1> DEFINE c == m.client
  <1>4. c \in Clients /\ m.xid \in Nat /\ m.xid <= host[c].xid
    BY <1>0 DEF Up, Inv6, NetOK
  <1>5. \A n \in downward : n.xid \in Nat /\ n.client \in Clients /\ (n.client = c => n.xid < m.xid)
    BY <1>0 DEF Down, Inv6, Sequenced
  <1>6. \A o \in upward' : o \in upward /\ o.xid \in Nat /\ (o.client = c => m.xid < o.xid)
    BY <1>0, <1>2, <1>4 DEF Up, Inv6, Sequenced
  <1>7. \A n \in downward' \ downward : n \in Down /\ n.client = c /\ n.xid = m.xid
    BY <1>3 DEF Served
  <1>8. NetOK'
    BY <1>0, <1>1, <1>2, <1>4, <1>7 DEF Inv6, NetOK
  <1>9. Sequenced'
    <2>1. ASSUME NEW n \in downward', NEW o \in upward', o.client = n.client PROVE n.xid < o.xid
      <3>1. CASE n \in downward
        BY <2>1, <3>1, <1>6 DEF Inv6, Sequenced
      <3>2. CASE n \notin downward
        BY <2>1, <3>2, <1>6, <1>7
      <3> QED BY <3>1, <3>2
    <2>2. ASSUME NEW o \in upward', NEW p \in upward', o.client = p.client, o.xid = p.xid PROVE o = p
      BY <2>2, <1>6 DEF Inv6, Sequenced
    <2>3. ASSUME NEW n \in downward', NEW k \in downward', n.type = "Advertise", k.client = n.client, k.xid = n.xid
          PROVE  k = n
      <3>1. CASE n \in downward /\ k \in downward
        BY <2>3, <3>1 DEF Inv6, Sequenced
      <3>2. CASE n \notin downward /\ k \notin downward
        BY <2>3, <3>2, <1>3 DEF Served
      <3>3. CASE n \in downward /\ k \notin downward
        BY <2>3, <3>3, <1>4, <1>5, <1>7
      <3>4. CASE n \notin downward /\ k \in downward
        BY <2>3, <3>4, <1>4, <1>5, <1>7
      <3> QED BY <3>1, <3>2, <3>3, <3>4
    <2> QED BY <2>1, <2>2, <2>3 DEF Sequenced
  <1>10. \A o \in upward' : UpFits(o)'
    BY <1>1, <1>6 DEF Inv6, UpFits
  <1>11. ASSUME NEW n \in downward' PROVE DownFits(n)'
    <2> SUFFICES ASSUME n.type = "Reply", n.xid = host[n.client].xid,
                        host[n.client].state \in {"Requesting", "Renewing", "Rebinding"},
                        NEW a \in n.addresses
                 PROVE  BoundTo(n.client, a, clock + LeaseDuration)'
      BY <1>1 DEF DownFits, BoundTo
    <2>1. CASE n \notin downward
      BY <1>3, <1>7, <2>1 DEF Served
    <2>2. CASE n \in downward /\ n.client = c
      BY <2>2, <1>4, <1>5
    <2>3. CASE n \in downward /\ n.client # c
      <3>1. BoundTo(n.client, a, clock + LeaseDuration) /\ a \in Pool /\ n.client \in Clients \ {c}
        BY <1>0, <1>5, <2>3 DEF Inv6, DownFits, Down
      <3>2. clock + LeaseDuration \in Nat /\ clock + LeaseDuration > clock
        BY <1>0, StoreAssumption
      <3> HIDE DEF c
      <3>3. \A t \in Nat : t > clock /\ BoundTo(n.client, a, t) => BoundTo(n.client, a, t)'
        BY <1>3, <3>1 DEF Served, c
      <3>4. BoundTo(n.client, a, clock + LeaseDuration)' <=> (n.client \in DOMAIN leases' /\ leases'[n.client].address = a /\ leases'[n.client].expires_at >= clock + LeaseDuration)
        BY <1>1 DEF BoundTo
      <3> QED BY <3>1, <3>2, <3>3, <3>4 DEF BoundTo
    <2> QED BY <2>1, <2>2, <2>3
  <1>12. ASSUME NEW d \in Clients PROVE HostFits(d)'
    <2> DEFINE t == host[d].lease.obtained_at + LeaseDuration
    <2> SUFFICES ASSUME host[d].state \in {"Bound", "Renewing", "Rebinding"}, ~Six!is_expired(host[d].lease),
                        NEW a \in host[d].lease.addresses
                 PROVE  d \in DOMAIN leases' /\ leases'[d].address = a /\ leases'[d].expires_at >= t
      BY <1>1 DEF HostFits, BoundTo, Six!is_expired
    <2>1. BoundTo(d, a, t) /\ a \in Pool
      BY <1>0 DEF Inv6, HostFits
    <2>2. t \in Nat /\ t > clock /\ t <= clock + LeaseDuration
      BY <1>0, PoolFacts DEF Six!is_expired
    <2> HIDE DEF t
    <2>3. CASE d # c
      BY <1>3, <2>1, <2>2, <2>3 DEF Served, BoundTo
    <2>4. CASE d = c
      <3>1. m.type = "Request"
        BY <2>4 DEF Inv6, UpFits
      <3> QED BY <1>3, <2>1, <2>2, <2>4, <3>1 DEF Served, BoundTo
    <2> QED BY <2>3, <2>4
  <1> QED BY <1>3, <1>8, <1>9, <1>10, <1>11, <1>12 DEF Inv6, Served

\* The invariant is inductive.
LEMMA Inductive6 == ASSUME Reliable6 PROVE Inv6 /\ [Six!Dhcp6Next]_Six!dhcp6Vars => Inv6'
  <1> SUFFICES ASSUME Inv6, [Six!Dhcp6Next]_Six!dhcp6Vars PROVE Inv6'
    OBVIOUS
  <1>1. ASSUME NEW c \in Clients,
               \/ Six!start_solicit(c) \/ Six!information_request(c) \/ Six!start_renew(c) \/ Six!start_rebind(c)
               \/ Six!release_call(c) \/ Six!decline_call(c)
        PROVE  Inv6'
    BY <1>1, Calls6
  <1>2. ASSUME NEW c \in Clients, Six!HostReceives(c) PROVE Inv6'
    BY <1>2, Receives6
  <1>3. CASE Six!ServerReceives
    BY <1>3, Server6
  <1>4. CASE Six!LoseReply
    BY <1>4, Drop6 DEF Six!LoseReply, Six!store6
  <1>5. CASE Six!Tick
    <2>1. /\ upward' = {} /\ downward' = {} /\ clock' = clock + 1 /\ clock \in 0 .. MaxTime /\ clock < MaxTime
          /\ UNCHANGED <<leases, declined, host>> /\ MaxTime \in Nat
      BY <1>5, NetAssumption DEF Six!Tick, Six!store6, Reliable6, Inv6, NetOK
    <2>2. \A c \in Clients : host[c].lease.obtained_at \in Nat /\ host[c].lease.obtained_at <= clock
      BY DEF Inv6, NetOK, Host, Terms
    <2>3. StoreOK'
      BY <2>1 DEF Inv6, StoreOK
    <2>4. NetOK'
      BY <2>1, <2>2 DEF Inv6, NetOK
    <2>5. ASSUME NEW c \in Clients PROVE HostFits(c)'
      BY <2>1, <2>2, PoolFacts DEF Inv6, HostFits, BoundTo, Six!is_expired
    <2> QED BY <2>1, <2>3, <2>4, <2>5 DEF Inv6, Sequenced
  <1>6. CASE UNCHANGED Six!dhcp6Vars
    <2>1. UNCHANGED <<leases, declined, host, upward, clock>> /\ downward' = downward \ {}
      BY <1>6 DEF Six!dhcp6Vars
    <2> QED BY <2>1, Drop6
  <1> QED BY <1>1, <1>2, <1>3, <1>4, <1>5, <1>6 DEF Six!Dhcp6Next

\* For every number of clients, addresses and exchanges, while messages are lost but handled in time and in
\* order: the binding the store of the DHCPv6 server has of a client outlives the client's use of the
\* address, and neither a second client nor one that comes before the probation of a declined address is
\* over is given it (memory.rs, acquire, confirm, decline; client.rs, receive_reply).
THEOREM Leases6Agree == ASSUME Reliable6 PROVE Six!Dhcp6Spec => []LeasedToItsUser
  <1>1. Inv6 => LeasedToItsUser
    <2> SUFFICES ASSUME Inv6 PROVE LeasedToItsUser
      OBVIOUS
    <2>1. Six!Dhcp6TypeOK
      BY DEF Inv6, StoreOK, NetOK, Host, Binding, Six!Dhcp6TypeOK
    <2>2. ASSUME NEW c \in Clients, NEW a \in Pool, Six!Uses(c, a)
          PROVE  c \in DOMAIN leases /\ leases[c].address = a /\ leases[c].expires_at > clock
      <3>1. BoundTo(c, a, host[c].lease.obtained_at + LeaseDuration)
        BY <2>2 DEF Inv6, HostFits, Six!Uses
      <3>2. host[c].lease.obtained_at \in Nat /\ clock \in Nat
        BY NetAssumption DEF Inv6, NetOK, Host, Terms
      <3>3. host[c].lease.obtained_at + LeaseDuration > clock
        BY <2>2, <3>2, PoolFacts DEF Six!Uses, Six!is_expired
      <3>4. leases[c].expires_at \in Nat
        BY <3>1 DEF BoundTo, Inv6, StoreOK, Binding
      <3> QED BY <3>1, <3>2, <3>3, <3>4, PoolFacts DEF BoundTo
    <2> QED BY <2>1, <2>2 DEF LeasedToItsUser, Six!LeasedToItsUser, Inv6, StoreOK
  <1> QED BY <1>1, Start6, Inductive6, PTL DEF Six!Dhcp6Spec
=============================================================================
