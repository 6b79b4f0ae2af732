------------------------------ MODULE Kerberos ------------------------------
(***************************************************************************)
(* tpt-kerberos: clients, the in-memory KDC and services of one realm.     *)
(*                                                                         *)
(* Encryption is ideal: a cipher is the key, the usage and the plaintext   *)
(* that went into it, and only that key and usage give the plaintext.  The *)
(* client calls the KDC in its own process, so an exchange with it is one  *)
(* step; an AP-REQ travels, late, never or more than once.  Passwords and  *)
(* service keys may be registered anew at any time; each client's clock is *)
(* off by its Drift.  The DER form of the messages is KrbTypes'.           *)
(***************************************************************************)
EXTENDS Integers, FiniteSets, TLAPS

CONSTANTS Clients, Services,
          KrbPasswords,     \* passwords that are registered and tried
          Drift,            \* how far the clock of a client is off
          DEFAULT_LIFETIME, CLOCK_SKEW,
          MaxTime, MaxKeys, \* bounds on the clock and on the session keys
          MaxRekey          \* bound on the times a principal is registered anew

ASSUME KrbAssumption == DEFAULT_LIFETIME \in Nat /\ CLOCK_SKEW \in Nat

VARIABLES now,
          principals,   \* long-term key of each principal in the KDC
          services,     \* the key each Service was made with
          clients,      \* tgt and service tickets of each client
          keys,         \* session keys made
          apreqs,       \* AP-REQs on the way
          accepted,     \* what accept has returned, with the service and the time
          proved,       \* who gave the registered password, and when
          rekeyed       \* times a principal was registered anew
krbVars == <<now, principals, services, clients, keys, apreqs, accepted, proved, rekeyed>>

PA_ENC_TIMESTAMP == 1
TICKET == 2
AS_REP == 3
AP_REQ_AUTH == 7
TGS_REP == 8
Principals == Clients \union Services
Realm == "EXAMPLE.COM"
NoTicket == [cipher |-> "none"]

string2key(password, salt) == <<"key", password, salt>>
long_term_key(p, password) == string2key(password, <<Realm, p>>)
krbtgt == <<"krbtgt", Realm>>
encrypt(key, usage, plain) == [key |-> key, usage |-> usage, plain |-> plain]
decrypt(key, usage, cipher) == {c.plain : c \in {x \in {cipher} : x.key = key /\ x.usage = usage}}
WithinSkew(t) == t <= now + CLOCK_SKEW /\ t + CLOCK_SKEW >= now
ClientNow(c) == now + Drift[c]
random_session_key == keys + 1

\* The replies of the KDC as sets, empty where it returns an error: the ticket
\* and the part encrypted for the client.
as_req(cname, padata) ==
    {[cname |-> cname,
      ticket |-> [sname |-> "krbtgt",
                  cipher |-> encrypt(krbtgt, TICKET, [key |-> random_session_key, cname |-> cname, authtime |-> now,
                                                      endtime |-> now + DEFAULT_LIFETIME])],
      enc_part |-> encrypt(principals[cname], AS_REP, [key |-> random_session_key, sname |-> "krbtgt",
                                                       authtime |-> now, endtime |-> now + DEFAULT_LIFETIME])] :
        ts \in {t \in decrypt(principals[cname], PA_ENC_TIMESTAMP, padata) : WithinSkew(t)}}

\* Mutant: a service ticket lives as long as a new one would.
ServiceEnd_Full(etp) == now + DEFAULT_LIFETIME
ServiceEnd(etp) == etp.endtime
tgs_req(sname, ap) ==
    {[cname |-> etp.cname,
      ticket |-> [sname |-> sname,
                  cipher |-> encrypt(principals[sname], TICKET, [key |-> random_session_key, cname |-> etp.cname,
                                                                 authtime |-> etp.authtime, endtime |-> ServiceEnd(etp)])],
      enc_part |-> encrypt(etp.key, TGS_REP, [key |-> random_session_key, sname |-> sname,
                                              authtime |-> etp.authtime, endtime |-> ServiceEnd(etp)])] :
        etp \in {e \in decrypt(krbtgt, TICKET, ap.ticket.cipher) :
                    /\ e.endtime >= now
                    /\ \E auth \in decrypt(e.key, AP_REQ_AUTH, ap.authenticator) :
                            WithinSkew(auth.ctime) /\ auth.cname = e.cname}}

CachedTicket(rep, ek) ==
    [ticket |-> rep.ticket, session_key |-> ek.key, cname |-> rep.cname, sname |-> ek.sname,
     authtime |-> ek.authtime, endtime |-> ek.endtime]

\* Client::authenticate: a wrong password, or one the KDC no longer has, is an error and keeps what was cached.
authenticate(c, password) ==
    LET ltk == long_term_key(c, password)
        reps == as_req(c, encrypt(ltk, PA_ENC_TIMESTAMP, ClientNow(c)))
    IN  /\ keys < MaxKeys
        /\ \E rep \in reps : \E ek \in decrypt(ltk, AS_REP, rep.enc_part) :
                /\ clients' = [clients EXCEPT ![c].tgt = CachedTicket(rep, ek)]
                /\ proved' = IF ltk = principals[c] THEN proved \union {<<c, now>>} ELSE proved
        /\ keys' = keys + 1
        /\ UNCHANGED <<now, principals, services, apreqs, accepted, rekeyed>>

ApReq(cached, ctime) ==
    [ticket |-> cached.ticket, authenticator |-> encrypt(cached.session_key, AP_REQ_AUTH, [cname |-> cached.cname, ctime |-> ctime])]

\* Client::service_ticket: the new ticket takes the place of the cached one.
service_ticket(c, s) ==
    LET tgt == clients[c].tgt
    IN  /\ tgt # NoTicket /\ keys < MaxKeys
        /\ \E rep \in tgs_req(s, ApReq(tgt, ClientNow(c))) : \E ek \in decrypt(tgt.session_key, TGS_REP, rep.enc_part) :
                clients' = [clients EXCEPT ![c].svc_tickets[s] = CachedTicket(rep, ek)]
        /\ keys' = keys + 1
        /\ UNCHANGED <<now, principals, services, apreqs, accepted, proved, rekeyed>>

\* Client::make_ap_req: the ticket is used as it is, expired or not.
make_ap_req(c, s) ==
    /\ clients[c].svc_tickets[s] # NoTicket
    /\ apreqs' = apreqs \union {ApReq(clients[c].svc_tickets[s], ClientNow(c))}
    /\ UNCHANGED <<now, principals, services, clients, keys, accepted, proved, rekeyed>>

\* Service::accept: it keeps nothing, so a second copy is taken like the first.
accept(s, ap) ==
    /\ ap.ticket.sname = s
    /\ \E etp \in decrypt(services[s], TICKET, ap.ticket.cipher) :
            /\ etp.endtime >= now
            /\ \E auth \in decrypt(etp.key, AP_REQ_AUTH, ap.authenticator) :
                    /\ WithinSkew(auth.ctime)
                    /\ accepted' = accepted \union {[client |-> auth.cname, session_key |-> etp.key, auth_time |-> etp.authtime,
                                                     end_time |-> etp.endtime, service |-> s, at |-> now]}
    /\ UNCHANGED <<now, principals, services, clients, keys, apreqs, proved, rekeyed>>

\* MemoryKdc::add_principal and add_service on a name that is there; a Service has its key from its caller.
add_principal(p, password) ==
    /\ rekeyed < MaxRekey
    /\ principals' = [principals EXCEPT ![p] = long_term_key(p, password)]
    /\ principals' # principals
    /\ rekeyed' = rekeyed + 1
    /\ UNCHANGED <<now, services, clients, keys, apreqs, accepted, proved>>
renew_service(s) ==
    /\ services[s] # principals[s]
    /\ services' = [services EXCEPT ![s] = principals[s]]
    /\ UNCHANGED <<now, principals, clients, keys, apreqs, accepted, proved, rekeyed>>

TimePasses ==
    /\ now < MaxTime /\ now' = now + 1
    /\ UNCHANGED <<principals, services, clients, keys, apreqs, accepted, proved, rekeyed>>

KrbInit ==
    LET w == CHOOSE x \in KrbPasswords : TRUE
    IN  /\ now = CLOCK_SKEW /\ keys = 0 /\ apreqs = {} /\ accepted = {} /\ proved = {} /\ rekeyed = 0
        /\ principals = [p \in Principals |-> long_term_key(p, w)]
        /\ services = [s \in Services |-> long_term_key(s, w)]
        /\ clients = [c \in Clients |-> [tgt |-> NoTicket, svc_tickets |-> [s \in Services |-> NoTicket]]]

KrbNext ==
    \/ \E c \in Clients, w \in KrbPasswords : authenticate(c, w)
    \/ \E c \in Clients, s \in Services : service_ticket(c, s) \/ make_ap_req(c, s)
    \/ \E s \in Services : (\E ap \in apreqs : accept(s, ap)) \/ renew_service(s)
    \/ \E p \in Principals, w \in KrbPasswords : add_principal(p, w)
    \/ TimePasses

KrbSpec == KrbInit /\ [][KrbNext]_krbVars

KrbTypeOK ==
    /\ now \in 0 .. MaxTime /\ keys \in 0 .. MaxKeys /\ rekeyed \in 0 .. MaxRekey
    /\ \A c \in Clients : clients[c].tgt = NoTicket \/ clients[c].tgt.cname = c

\* Whom a service accepts gave the registered password no longer ago than a ticket lives, however often tickets
\* were traded, late the AP-REQ came and keys were changed meanwhile; the service then shares the key with that
\* client alone.
KrbAuthentic ==
    \A a \in accepted :
        /\ <<a.client, a.auth_time>> \in proved
        /\ a.at <= a.auth_time + DEFAULT_LIFETIME
        /\ \A b \in accepted : a.session_key = b.session_key => a.client = b.client /\ a.service = b.service

-----------------------------------------------------------------------------
(***************************************************************************)
(* Whom a Kerberos service accepts gave the registered password, no longer *)
(* ago than a ticket lives: for any number of clients, services, session   *)
(* keys and changes of keys, and any clocks.                               *)
(*                                                                         *)
(* The argument follows a ticket from the proof of the password to accept. *)
(* Every ticket a client holds or has sent names that client, the time of  *)
(* a proof it gave, and an end that is one lifetime after that proof (KDC  *)
(* and client copy these, MemoryKdc::tgs_req too); the authenticator with  *)
(* it names the same client (Carried).  A session key is made once, so all *)
(* that carries it is about one client and one service (OneOwner).         *)
(***************************************************************************)
\* A ticket is about c and rests on a proof that c gave.
Rests(proofs, cipher, c) ==
    LET p == cipher.plain
    IN  /\ p.cname = c /\ <<c, p.authtime>> \in proofs
        /\ p.authtime \in Int /\ p.endtime = p.authtime + DEFAULT_LIFETIME

\* What a client keeps of a ticket: the name and the key that are in it.
Cached(proofs, t, c) ==
    /\ t.cname = c /\ t.session_key = t.ticket.cipher.plain.key
    /\ Rests(proofs, t.ticket.cipher, c)

Carried ==
    /\ \A c \in Clients :
        /\ clients[c].tgt # NoTicket => Cached(proved, clients[c].tgt, c)
        /\ \A s \in Services : clients[c].svc_tickets[s] # NoTicket =>
              Cached(proved, clients[c].svc_tickets[s], c) /\ clients[c].svc_tickets[s].ticket.sname = s
    /\ \A ap \in apreqs : Rests(proved, ap.ticket.cipher, ap.authenticator.plain.cname)

\* The session keys in use with a service: key, client, service.
OfClient(c, s) == <<clients[c].svc_tickets[s].session_key, c, s>>
Uses ==
    {u \in {OfClient(c, s) : c \in Clients, s \in Services} : clients[u[2]].svc_tickets[u[3]] # NoTicket}
      \union {<<ap.ticket.cipher.plain.key, ap.ticket.cipher.plain.cname, ap.ticket.sname>> : ap \in apreqs}
      \union {<<a.session_key, a.client, a.service>> : a \in accepted}

OneOwner ==
    /\ \A u \in Uses : u[1] \in 1..keys
    /\ \A u, v \in Uses : u[1] = v[1] => u = v

Fresh ==
    \A a \in accepted : <<a.client, a.auth_time>> \in proved /\ a.at <= a.auth_time + DEFAULT_LIFETIME

Formed ==
    /\ now \in Int /\ keys \in Nat
    /\ DOMAIN clients = Clients
    /\ \A c \in Clients : /\ clients[c] = [tgt |-> clients[c].tgt, svc_tickets |-> clients[c].svc_tickets]
                          /\ DOMAIN clients[c].svc_tickets = Services

KrbInv == Formed /\ Carried /\ OneOwner /\ Fresh

-----------------------------------------------------------------------------
\* What the uses of a ticket are.
LEMMA UsesAre ==
    /\ \A u : u \in Uses <=>
          \/ \E c \in Clients, s \in Services : clients[c].svc_tickets[s] # NoTicket /\ u = OfClient(c, s)
          \/ \E ap \in apreqs : u = <<ap.ticket.cipher.plain.key, ap.ticket.cipher.plain.cname, ap.ticket.sname>>
          \/ \E a \in accepted : u = <<a.session_key, a.client, a.service>>
    /\ \A u : u \in Uses' <=>
          \/ \E c \in Clients, s \in Services : clients'[c].svc_tickets[s] # NoTicket
                                                /\ u = <<clients'[c].svc_tickets[s].session_key, c, s>>
          \/ \E ap \in apreqs' : u = <<ap.ticket.cipher.plain.key, ap.ticket.cipher.plain.cname, ap.ticket.sname>>
          \/ \E a \in accepted' : u = <<a.session_key, a.client, a.service>>
<1>1. \A c \in Clients, s \in Services : OfClient(c, s)[2] = c /\ OfClient(c, s)[3] = s
  BY DEF OfClient
<1>2. ASSUME NEW u
      PROVE  u \in {v \in {OfClient(c, s) : c \in Clients, s \in Services} : clients[v[2]].svc_tickets[v[3]] # NoTicket} <=>
             \E c \in Clients, s \in Services : clients[c].svc_tickets[s] # NoTicket /\ u = OfClient(c, s)
  BY <1>1
<1>3. ASSUME NEW u
      PROVE  u \in {v \in {<<clients'[c].svc_tickets[s].session_key, c, s>> : c \in Clients, s \in Services} :
                        clients'[v[2]].svc_tickets[v[3]] # NoTicket} <=>
             \E c \in Clients, s \in Services : clients'[c].svc_tickets[s] # NoTicket
                                               /\ u = <<clients'[c].svc_tickets[s].session_key, c, s>>
  OBVIOUS
<1>4. \A u : u \in Uses <=>
          \/ \E c \in Clients, s \in Services : clients[c].svc_tickets[s] # NoTicket /\ u = OfClient(c, s)
          \/ \E ap \in apreqs : u = <<ap.ticket.cipher.plain.key, ap.ticket.cipher.plain.cname, ap.ticket.sname>>
          \/ \E a \in accepted : u = <<a.session_key, a.client, a.service>>
  BY <1>2 DEF Uses
<1>5. \A u : u \in Uses' <=>
          \/ \E c \in Clients, s \in Services : clients'[c].svc_tickets[s] # NoTicket
                                                /\ u = <<clients'[c].svc_tickets[s].session_key, c, s>>
          \/ \E ap \in apreqs' : u = <<ap.ticket.cipher.plain.key, ap.ticket.cipher.plain.cname, ap.ticket.sname>>
          \/ \E a \in accepted' : u = <<a.session_key, a.client, a.service>>
  BY <1>3 DEF Uses, OfClient, NoTicket
<1> QED BY <1>4, <1>5

\* A key is made with the number after the last.
LEMMA OwnersKept ==
    ASSUME Formed, OneOwner, keys' \in Nat,
           \/ Uses' \subseteq Uses /\ keys' >= keys
           \/ keys' = keys + 1 /\ \E c, s : Uses' \subseteq Uses \union {<<keys + 1, c, s>>}
    PROVE  OneOwner'
<1>1. CASE Uses' \subseteq Uses /\ keys' >= keys
  BY <1>1 DEF OneOwner, Formed
<1>2. ASSUME keys' = keys + 1, NEW c, NEW s, Uses' \subseteq Uses \union {<<keys + 1, c, s>>}
      PROVE  OneOwner'
  BY <1>2 DEF OneOwner, Formed
<1> QED BY <1>1, <1>2

\* What was proved stays proved, so what rests on it does.
LEMMA StillRests ==
    ASSUME NEW P, NEW Q, P \subseteq Q, NEW x, NEW c
    PROVE  (Rests(P, x, c) => Rests(Q, x, c)) /\ (Cached(P, x, c) => Cached(Q, x, c))
<1> QED BY DEF Rests, Cached

\* A client that authenticates itself to the KDC keeps the invariant.
LEMMA AuthenticateKeeps ==
    ASSUME KrbInv, NEW c \in Clients, NEW w \in KrbPasswords, authenticate(c, w)
    PROVE  KrbInv'
<1> DEFINE ltk == long_term_key(c, w)
           padata == encrypt(ltk, PA_ENC_TIMESTAMP, ClientNow(c))
<1>1. PICK rep \in as_req(c, padata) : \E ek \in decrypt(ltk, AS_REP, rep.enc_part) :
        /\ clients' = [clients EXCEPT ![c].tgt = CachedTicket(rep, ek)]
        /\ proved' = IF ltk = principals[c] THEN proved \union {<<c, now>>} ELSE proved
  BY DEF authenticate
<1>2. PICK ek \in decrypt(ltk, AS_REP, rep.enc_part) :
        /\ clients' = [clients EXCEPT ![c].tgt = CachedTicket(rep, ek)]
        /\ proved' = IF ltk = principals[c] THEN proved \union {<<c, now>>} ELSE proved
  BY <1>1
<1>3. keys' = keys + 1 /\ UNCHANGED <<now, principals, services, apreqs, accepted, rekeyed>>
  BY DEF authenticate
<1>4. /\ decrypt(principals[c], PA_ENC_TIMESTAMP, padata) # {}
      /\ rep = [cname |-> c,
                ticket |-> [sname |-> "krbtgt",
                            cipher |-> encrypt(krbtgt, TICKET, [key |-> random_session_key, cname |-> c, authtime |-> now,
                                                                endtime |-> now + DEFAULT_LIFETIME])],
                enc_part |-> encrypt(principals[c], AS_REP, [key |-> random_session_key, sname |-> "krbtgt",
                                                             authtime |-> now, endtime |-> now + DEFAULT_LIFETIME])]
  BY DEF as_req
<1>5. ltk = principals[c]
  BY <1>4 DEF decrypt, encrypt
<1>6. ek = rep.enc_part.plain
  BY DEF decrypt
<1>7. proved' = proved \union {<<c, now>>}
  BY <1>2, <1>5
<1> DEFINE t == CachedTicket(rep, ek)
<1>8. Cached(proved', t, c)
  <2>1. /\ t.cname = c /\ t.session_key = random_session_key
        /\ t.ticket.cipher.plain = [key |-> random_session_key, cname |-> c, authtime |-> now,
                                    endtime |-> now + DEFAULT_LIFETIME]
    BY <1>4, <1>6 DEF CachedTicket, encrypt
  <2> QED BY <2>1, <1>7 DEF Cached, Rests, KrbInv, Formed
<1> HIDE DEF t, ltk, padata
<1>9. clients' = [clients EXCEPT ![c] = [clients[c] EXCEPT !.tgt = t]]
  BY <1>2 DEF t
<1>10. /\ clients'[c].tgt = t
       /\ \A d \in Clients : clients'[d].svc_tickets = clients[d].svc_tickets
       /\ \A d \in Clients \ {c} : clients'[d] = clients[d]
       /\ DOMAIN clients' = Clients
       /\ clients'[c] = [tgt |-> t, svc_tickets |-> clients[c].svc_tickets]
  BY <1>9 DEF KrbInv, Formed
<1>11. Formed'
  BY <1>3, <1>10 DEF KrbInv, Formed
<1>12. Uses' \subseteq Uses
  BY <1>3, <1>10, UsesAre DEF OfClient
<1>13. OneOwner'
  BY <1>3, <1>12, OwnersKept DEF KrbInv, Formed
<1>14. Carried'
  <2>1. proved \subseteq proved'
    BY <1>7
  <2>2. ASSUME NEW d \in Clients, clients'[d].tgt # NoTicket
        PROVE  Cached(proved', clients'[d].tgt, d)
    <3>1. CASE d = c
      BY <3>1, <1>8, <1>10
    <3>2. CASE d # c
      BY <3>2, <2>1, <2>2, <1>10, StillRests DEF KrbInv, Carried
    <3> QED BY <3>1, <3>2
  <2>3. ASSUME NEW d \in Clients, NEW s \in Services, clients'[d].svc_tickets[s] # NoTicket
        PROVE  Cached(proved', clients'[d].svc_tickets[s], d) /\ clients'[d].svc_tickets[s].ticket.sname = s
    BY <2>1, <2>3, <1>10, StillRests DEF KrbInv, Carried
  <2>4. \A ap \in apreqs' : Rests(proved', ap.ticket.cipher, ap.authenticator.plain.cname)
    BY <2>1, <1>3, StillRests DEF KrbInv, Carried
  <2> QED BY <2>2, <2>3, <2>4 DEF Carried, NoTicket
<1>15. Fresh'
  BY <1>3, <1>7 DEF KrbInv, Fresh
<1> QED BY <1>11, <1>13, <1>14, <1>15 DEF KrbInv

\* The KDC copies the name, the proof and the end of the ticket it was given.
LEMMA ServiceTicketKeeps ==
    ASSUME KrbInv, NEW c \in Clients, NEW s \in Services, service_ticket(c, s)
    PROVE  KrbInv'
<1> DEFINE tgt == clients[c].tgt
           ap == ApReq(tgt, ClientNow(c))
<1>1. PICK rep \in tgs_req(s, ap) : \E ek \in decrypt(tgt.session_key, TGS_REP, rep.enc_part) :
        clients' = [clients EXCEPT ![c].svc_tickets[s] = CachedTicket(rep, ek)]
  BY DEF service_ticket
<1>2. PICK ek \in decrypt(tgt.session_key, TGS_REP, rep.enc_part) :
        clients' = [clients EXCEPT ![c].svc_tickets[s] = CachedTicket(rep, ek)]
  BY <1>1
<1>3. tgt # NoTicket /\ keys' = keys + 1 /\ UNCHANGED <<now, principals, services, apreqs, accepted, proved, rekeyed>>
  BY DEF service_ticket
<1>4. PICK etp \in decrypt(krbtgt, TICKET, ap.ticket.cipher) :
        rep = [cname |-> etp.cname,
               ticket |-> [sname |-> s,
                           cipher |-> encrypt(principals[s], TICKET, [key |-> random_session_key, cname |-> etp.cname,
                                                                      authtime |-> etp.authtime, endtime |-> ServiceEnd(etp)])],
               enc_part |-> encrypt(etp.key, TGS_REP, [key |-> random_session_key, sname |-> s,
                                                       authtime |-> etp.authtime, endtime |-> ServiceEnd(etp)])]
  BY DEF tgs_req
<1>5. etp = tgt.ticket.cipher.plain
  BY DEF decrypt, ApReq
<1>6. etp.cname = c /\ Rests(proved, tgt.ticket.cipher, c)
  BY <1>3, <1>5 DEF KrbInv, Carried, Cached, Rests
<1>7. ek = rep.enc_part.plain
  BY DEF decrypt
<1> DEFINE t == CachedTicket(rep, ek)
<1>8. Cached(proved', t, c) /\ t.ticket.sname = s /\ t.session_key = keys + 1
  <2>1. /\ t.cname = c /\ t.session_key = random_session_key /\ t.ticket.sname = s
        /\ t.ticket.cipher.plain = [key |-> random_session_key, cname |-> c, authtime |-> etp.authtime,
                                    endtime |-> etp.endtime]
    BY <1>4, <1>6, <1>7 DEF CachedTicket, encrypt, ServiceEnd
  <2> QED BY <2>1, <1>3, <1>5, <1>6 DEF Cached, Rests, random_session_key
<1> HIDE DEF t, tgt, ap
<1>9. clients' = [clients EXCEPT ![c] = [clients[c] EXCEPT !.svc_tickets = [clients[c].svc_tickets EXCEPT ![s] = t]]]
  BY <1>2 DEF t
<1>10. /\ clients'[c].svc_tickets = [clients[c].svc_tickets EXCEPT ![s] = t] /\ clients'[c].tgt = clients[c].tgt
       /\ \A d \in Clients \ {c} : clients'[d] = clients[d]
       /\ DOMAIN clients' = Clients
       /\ clients'[c] = [tgt |-> clients'[c].tgt, svc_tickets |-> clients'[c].svc_tickets]
  BY <1>9 DEF KrbInv, Formed
<1>11. Formed'
  BY <1>3, <1>10 DEF KrbInv, Formed
<1>12. /\ clients'[c].svc_tickets[s] = t
       /\ \A r \in Services \ {s} : clients'[c].svc_tickets[r] = clients[c].svc_tickets[r]
  BY <1>10 DEF KrbInv, Formed
<1>13. Uses' \subseteq Uses \union {<<keys + 1, c, s>>}
  <2> SUFFICES ASSUME NEW u \in Uses' PROVE u \in Uses \union {<<keys + 1, c, s>>}
    OBVIOUS
  <2>1. ASSUME NEW d \in Clients, NEW r \in Services, clients'[d].svc_tickets[r] # NoTicket,
               u = <<clients'[d].svc_tickets[r].session_key, d, r>>
        PROVE  u \in Uses \union {<<keys + 1, c, s>>}
    <3>1. CASE d = c /\ r = s
      BY <2>1, <3>1, <1>8, <1>12
    <3>2. CASE ~(d = c /\ r = s)
      <4>1. clients'[d].svc_tickets[r] = clients[d].svc_tickets[r]
        BY <3>2, <1>10, <1>12
      <4> QED BY <4>1, <2>1, UsesAre DEF OfClient
    <3> QED BY <3>1, <3>2
  <2> QED BY <2>1, <1>3, UsesAre
<1>14. OneOwner'
  BY <1>3, <1>13, OwnersKept DEF KrbInv, Formed
<1>15. Carried'
  <2>1. \A d \in Clients : clients'[d].tgt = clients[d].tgt
    BY <1>10
  <2>2. ASSUME NEW d \in Clients, NEW r \in Services, clients'[d].svc_tickets[r] # NoTicket
        PROVE  Cached(proved', clients'[d].svc_tickets[r], d) /\ clients'[d].svc_tickets[r].ticket.sname = r
    <3>1. CASE d = c /\ r = s
      BY <3>1, <1>8, <1>12
    <3>2. CASE ~(d = c /\ r = s)
      <4>1. clients'[d].svc_tickets[r] = clients[d].svc_tickets[r]
        BY <3>2, <1>10, <1>12
      <4> QED BY <4>1, <2>2, <1>3 DEF KrbInv, Carried
    <3> QED BY <3>1, <3>2
  <2> QED BY <2>1, <2>2, <1>3 DEF KrbInv, Carried
<1>16. Fresh'
  BY <1>3 DEF KrbInv, Fresh
<1> QED BY <1>11, <1>14, <1>15, <1>16 DEF KrbInv

\* A client that makes a request keeps the invariant.
LEMMA MakeApReqKeeps ==
    ASSUME KrbInv, NEW c \in Clients, NEW s \in Services, make_ap_req(c, s)
    PROVE  KrbInv'
<1> DEFINE t == clients[c].svc_tickets[s]
           ap == ApReq(t, ClientNow(c))
<1>1. /\ t # NoTicket /\ apreqs' = apreqs \union {ap}
      /\ UNCHANGED <<now, principals, services, clients, keys, accepted, proved, rekeyed>>
  BY DEF make_ap_req
<1>2. Cached(proved, t, c) /\ t.ticket.sname = s
  BY <1>1 DEF KrbInv, Carried
<1>3. ap.ticket = t.ticket /\ ap.authenticator.plain.cname = c
  BY <1>2 DEF ApReq, encrypt, Cached
<1> HIDE DEF ap
<1>4. Uses' \subseteq Uses
  <2>1. <<ap.ticket.cipher.plain.key, ap.ticket.cipher.plain.cname, ap.ticket.sname>> = OfClient(c, s)
    BY <1>2, <1>3 DEF OfClient, Cached, Rests
  <2>2. OfClient(c, s) \in Uses
    BY <1>1, UsesAre
  <2> QED BY <1>1, <2>1, <2>2, UsesAre DEF OfClient
<1>5. OneOwner'
  BY <1>1, <1>4, OwnersKept DEF KrbInv, Formed
<1>6. Carried'
  <2>1. Rests(proved, ap.ticket.cipher, ap.authenticator.plain.cname)
    BY <1>2, <1>3 DEF Cached
  <2> QED BY <1>1, <2>1 DEF KrbInv, Carried
<1> QED BY <1>1, <1>5, <1>6 DEF KrbInv, Formed, Fresh

\* accept believes the authenticator's name, which is the ticket's.
LEMMA AcceptKeeps ==
    ASSUME KrbInv, NEW s \in Services, NEW ap \in apreqs, accept(s, ap)
    PROVE  KrbInv'
<1>1. ap.ticket.sname = s /\ UNCHANGED <<now, principals, services, clients, keys, apreqs, proved, rekeyed>>
  BY DEF accept
<1>2. PICK etp \in decrypt(services[s], TICKET, ap.ticket.cipher) :
        /\ etp.endtime >= now
        /\ \E auth \in decrypt(etp.key, AP_REQ_AUTH, ap.authenticator) :
              accepted' = accepted \union {[client |-> auth.cname, session_key |-> etp.key, auth_time |-> etp.authtime,
                                            end_time |-> etp.endtime, service |-> s, at |-> now]}
  BY DEF accept
<1>3. PICK auth \in decrypt(etp.key, AP_REQ_AUTH, ap.authenticator) :
              accepted' = accepted \union {[client |-> auth.cname, session_key |-> etp.key, auth_time |-> etp.authtime,
                                            end_time |-> etp.endtime, service |-> s, at |-> now]}
  BY <1>2
<1>4. etp = ap.ticket.cipher.plain /\ auth = ap.authenticator.plain
  BY DEF decrypt
<1>5. /\ etp.cname = auth.cname /\ <<auth.cname, etp.authtime>> \in proved
      /\ etp.authtime \in Int /\ etp.endtime = etp.authtime + DEFAULT_LIFETIME
  BY <1>4 DEF KrbInv, Carried, Rests
<1>6. Uses' \subseteq Uses
  <2>1. <<etp.key, auth.cname, s>> \in Uses
    BY <1>1, <1>4, <1>5, UsesAre
  <2> QED BY <1>1, <1>3, <2>1, UsesAre DEF OfClient
<1>7. OneOwner'
  BY <1>1, <1>6, OwnersKept DEF KrbInv, Formed
<1>8. Fresh'
  <2> DEFINE new == [client |-> auth.cname, session_key |-> etp.key, auth_time |-> etp.authtime,
                     end_time |-> etp.endtime, service |-> s, at |-> now]
  <2>1. <<new.client, new.auth_time>> \in proved /\ new.at <= new.auth_time + DEFAULT_LIFETIME
    BY <1>2, <1>5
  <2> HIDE DEF new
  <2>2. accepted' = accepted \union {new} /\ proved' = proved
    BY <1>1, <1>3 DEF new
  <2> QED BY <2>1, <2>2 DEF KrbInv, Fresh
<1>9. Carried'
  BY <1>1 DEF KrbInv, Carried
<1> QED BY <1>1, <1>7, <1>8, <1>9 DEF KrbInv, Formed

\* The other steps touch no ticket.
LEMMA OthersKeep ==
    ASSUME KrbInv, UNCHANGED <<clients, keys, apreqs, accepted, proved>>, now' \in Int
    PROVE  KrbInv'
<1>1. Uses' \subseteq Uses
  BY UsesAre DEF OfClient
<1>2. OneOwner'
  BY <1>1, OwnersKept DEF KrbInv, Formed
<1>3. Carried'
  BY DEF KrbInv, Carried
<1> QED BY <1>2, <1>3 DEF KrbInv, Formed, Fresh

\* The invariant holds at the start.
LEMMA KrbStart == KrbInit => KrbInv
<1> SUFFICES ASSUME KrbInit PROVE KrbInv
  OBVIOUS
<1>1. /\ now \in Int /\ keys = 0 /\ apreqs = {} /\ accepted = {}
      /\ clients = [c \in Clients |-> [tgt |-> NoTicket, svc_tickets |-> [s \in Services |-> NoTicket]]]
  BY KrbAssumption DEF KrbInit
<1>2. Uses = {}
  BY <1>1, UsesAre
<1> QED BY <1>1, <1>2 DEF KrbInv, Formed, Carried, OneOwner, Fresh

\* The invariant is inductive.
LEMMA KrbStep == KrbInv /\ [KrbNext]_krbVars => KrbInv'
<1> SUFFICES ASSUME KrbInv, [KrbNext]_krbVars PROVE KrbInv'
  OBVIOUS
<1>1. ASSUME NEW s \in Services, renew_service(s) PROVE KrbInv'
  BY <1>1, OthersKeep DEF renew_service, KrbInv, Formed
<1>2. ASSUME NEW p \in Principals, NEW w \in KrbPasswords, add_principal(p, w) PROVE KrbInv'
  BY <1>2, OthersKeep DEF add_principal, KrbInv, Formed
<1>3. CASE TimePasses
  BY <1>3, OthersKeep DEF TimePasses, KrbInv, Formed
<1>4. CASE UNCHANGED krbVars
  BY <1>4, OthersKeep DEF krbVars, KrbInv, Formed
<1> QED BY <1>1, <1>2, <1>3, <1>4, AuthenticateKeeps, ServiceTicketKeeps, MakeApReqKeeps, AcceptKeeps DEF KrbNext

\* Service::accept returns a client only within the lifetime of a proof of its
\* password, and a session key that it shares with no other client.
THEOREM AcceptedIsAuthentic == KrbSpec => []KrbAuthentic
<1>1. KrbInv => KrbAuthentic
  <2> SUFFICES ASSUME KrbInv, NEW a \in accepted
               PROVE  /\ <<a.client, a.auth_time>> \in proved
                      /\ a.at <= a.auth_time + DEFAULT_LIFETIME
                      /\ \A b \in accepted : a.session_key = b.session_key => a.client = b.client /\ a.service = b.service
    BY DEF KrbAuthentic
  <2>1. ASSUME NEW b \in accepted, a.session_key = b.session_key
        PROVE  a.client = b.client /\ a.service = b.service
    <3> DEFINE u == <<a.session_key, a.client, a.service>>
               v == <<b.session_key, b.client, b.service>>
    <3>1. u \in Uses /\ v \in Uses
      BY UsesAre
    <3>2. u[1] = v[1]
      BY <2>1
    <3>3. u = v
      <4> HIDE DEF u, v
      <4> QED BY <3>1, <3>2 DEF KrbInv, OneOwner
    <3> QED BY <3>3
  <2> QED BY <2>1 DEF KrbInv, Fresh
<1> QED BY <1>1, KrbStart, KrbStep, PTL DEF KrbSpec
=============================================================================
