------------------------------- MODULE Radius -------------------------------
(***************************************************************************)
(* tpt-radius: a client and a server with the in-memory backend over       *)
(* datagrams that are lost, repeated and late.  The caller of the client   *)
(* sends a request again when it likes and gives any datagram it receives  *)
(* to verify_response.  Digests are tuples of what went into them.         *)
(***************************************************************************)
EXTENDS Integers, FiniteSets, SequencesExt

CONSTANTS RadUsers, RadPasswords, \* a password is a sequence of characters
          Secrets,                \* shared secrets; the server has ServerSecret
          ServerSecret,
          IdModulus,              \* identifiers: 256 in the code
          Block,                  \* octets of a digest: 16 in the code
          MaxRequests,            \* bound on the requests of the client
          MaxChanges              \* bound on add_user for a user that is there

VARIABLES secret,      \* of the client
          next_id,
          requests,    \* packets the client has made
          datagrams,   \* packets sent by either side
          users,       \* the backend's passwords, in the order they were set
          accounted,   \* requests the backend was told of
          verified     \* pairs of a request and a response that were found to match
radVars == <<secret, next_id, requests, datagrams, users, accounted, verified>>

HEADER_LEN == 20
MAX_ATTR_VALUE_LEN == 253
USER_NAME == 1
USER_PASSWORD == 2
REPLY_MESSAGE == 18
PROXY_STATE == 33
ACCT_STATUS_TYPE == 40
ACCT_SESSION_ID == 44
EAP_MESSAGE == 79
MESSAGE_AUTHENTICATOR == 80
AccessRequest == 1
AccessAccept == 2
AccessReject == 3
AccountingRequest == 4
AccountingResponse == 5

attribute(p, type) == SelectSeq(p.attributes, LAMBDA a : a[1] = type)
Packet(code, id, auth, attributes) == [code |-> code, identifier |-> id, authenticator |-> auth, attributes |-> attributes]

-----------------------------------------------------------------------------
(* The octets of a packet.  Here an authenticator is sixteen octets. *)

encode(p) ==
    LET body == FlattenSeq([i \in DOMAIN p.attributes |->
                    <<p.attributes[i][1], (Len(p.attributes[i][2]) + 2) % 256>> \o p.attributes[i][2]])
        len == HEADER_LEN + Len(body)
    IN  <<p.code, p.identifier, (len \div 256) % 256, len % 256>> \o p.authenticator \o body

\* The attributes from an offset on, as a set, empty where they do not fit.
Fits(offset, len, declared) == offset + len <= declared
decode(buf) ==
    LET declared == buf[3] * 256 + buf[4]
        attrs[offset \in 0 .. declared] ==
            IF offset >= declared THEN {<<>>}
            ELSE IF ~Fits(offset, 2, declared) \/ buf[offset + 2] < 2 \/ ~Fits(offset, buf[offset + 2], declared) THEN {}
            ELSE {<<<<buf[offset + 1], SubSeq(buf, offset + 3, offset + buf[offset + 2])>>>> \o rest :
                        rest \in attrs[offset + buf[offset + 2]]}
    IN  IF Len(buf) < HEADER_LEN \/ declared < HEADER_LEN \/ declared > Len(buf) THEN {}
        ELSE {Packet(buf[1], buf[2], SubSeq(buf, 5, HEADER_LEN), a) : a \in attrs[HEADER_LEN]}

chunks(s, n) == [i \in 1 .. (Len(s) + n - 1) \div n |-> SubSeq(s, (i - 1) * n + 1, IF i * n < Len(s) THEN i * n ELSE Len(s))]
\* Mutant: a chunk fills the attribute with its header counted in.
add_eap_message_Long(p, data) ==
    [p EXCEPT !.attributes = @ \o [i \in DOMAIN chunks(data, MAX_ATTR_VALUE_LEN + 2) |-> <<EAP_MESSAGE, chunks(data, MAX_ATTR_VALUE_LEN + 2)[i]>>]]
add_eap_message(p, data) ==
    [p EXCEPT !.attributes = @ \o [i \in DOMAIN chunks(data, MAX_ATTR_VALUE_LEN) |-> <<EAP_MESSAGE, chunks(data, MAX_ATTR_VALUE_LEN)[i]>>]]
eap_message(p) == FlattenSeq([i \in DOMAIN attribute(p, EAP_MESSAGE) |-> attribute(p, EAP_MESSAGE)[i][2]])

Ones(n) == [i \in 1 .. n |-> 1 + (i % 200)]
EapLengths == {0, 1, 252, 253, 254, 506, 507, 800}
\* EAP data of any length comes out of the packet's octets as it was put in, and a packet cut anywhere is refused.
EapReads(n) ==
    LET p == add_eap_message(Packet(AccessRequest, 255, Ones(16), <<<<USER_NAME, <<7>>>>, <<PROXY_STATE, <<>>>>>>), Ones(n))
        buf == encode(p)
    IN  /\ decode(buf) = {p} /\ \A q \in decode(buf) : eap_message(q) = Ones(n)
        /\ \A k \in {0, 19, 20, 21, Len(buf) - 1} : k < Len(buf) => decode(SubSeq(buf, 1, k)) = {}
        /\ \A d \in 0 .. 1 : \* a declared length that ends inside an attribute
            n > 0 => decode([buf EXCEPT ![3] = (Len(buf) - 1 - d) \div 256, ![4] = (Len(buf) - 1 - d) % 256]) = {}

-----------------------------------------------------------------------------
(* Passwords and authenticators. *)

md5_concat(s, prev) == <<"md5", s, prev>>
Zero == "\\0"
Padded(pw) == pw \o [i \in 1 .. (Block - (Len(pw) % Block)) % Block |-> Zero]
\* Each block is hidden with the digest of the secret and the block before.
hide_user_password(s, auth, pw) ==
    LET c == chunks(Padded(pw), Block)
        block[i \in 0 .. Len(c)] == IF i = 0 THEN auth ELSE [text |-> c[i], mask |-> md5_concat(s, block[i - 1])]
    IN  [i \in DOMAIN c |-> block[i]]
Trim(pw) ==
    LET used == {i \in DOMAIN pw : pw[i] # Zero}
    IN  SubSeq(pw, 1, IF used = {} THEN 0 ELSE CHOOSE i \in used : \A j \in used : j <= i)
\* Another secret gives octets that are no password of anybody.
user_password(p, s) ==
    LET c == attribute(p, USER_PASSWORD)[1][2]
        prev(i) == IF i = 1 THEN p.authenticator ELSE c[i - 1]
        plain(i) == IF c[i].mask = md5_concat(s, prev(i)) THEN c[i].text ELSE <<"?">>
    IN  IF c = <<>> THEN {} ELSE {Trim(FlattenSeq([i \in DOMAIN c |-> plain(i)]))}

md5_authenticator(p, s, ra) == <<"md5", p.code, p.identifier, ra, p.attributes, s>>
\* Mutant: the request is left out of the digest of its response.
response_authenticator_Free(p, ra, s) == md5_authenticator(p, s, 0)
response_authenticator(p, ra, s) == md5_authenticator(p, s, ra)
accounting_request_authenticator(p, s) == md5_authenticator(p, s, 0)
zero_message_authenticator(p) ==
    [p EXCEPT !.attributes = [i \in DOMAIN @ |-> IF @[i][1] = MESSAGE_AUTHENTICATOR THEN <<MESSAGE_AUTHENTICATOR, 0>> ELSE @[i]]]
compute_message_authenticator(p, s) == <<"hmac", s, zero_message_authenticator(p)>>
set_message_authenticator(p, s) ==
    LET q == IF attribute(p, MESSAGE_AUTHENTICATOR) = <<>> THEN [p EXCEPT !.attributes = Append(@, <<MESSAGE_AUTHENTICATOR, 0>>)] ELSE p
    IN  [q EXCEPT !.attributes = [i \in DOMAIN @ |-> IF @[i][1] = MESSAGE_AUTHENTICATOR
                                                    THEN <<MESSAGE_AUTHENTICATOR, compute_message_authenticator(q, s)>> ELSE @[i]]]
verify_message_authenticator(p, s) ==
    attribute(p, MESSAGE_AUTHENTICATOR) # <<>> /\ attribute(p, MESSAGE_AUTHENTICATOR)[1][2] = compute_message_authenticator(p, s)

-----------------------------------------------------------------------------
(* The client. *)

Room == Cardinality(requests) < MaxRequests
random_authenticator == <<"random", Cardinality(requests)>>
next_identifier == (next_id + 1) % IdModulus
Made(p) ==
    /\ requests' = requests \union {p} /\ datagrams' = datagrams \union {p} /\ next_id' = next_identifier
    /\ UNCHANGED <<secret, users, accounted, verified>>
access_request(user, password) ==
    /\ Room
    /\ Made(Packet(AccessRequest, next_id, random_authenticator,
                   <<<<USER_NAME, user>>, <<USER_PASSWORD, hide_user_password(secret, random_authenticator, password)>>>>))
\* With EAP and the Message-Authenticator of the client's secret.
access_request_with(user) ==
    /\ Room
    /\ Made(set_message_authenticator(Packet(AccessRequest, next_id, random_authenticator,
                                             <<<<USER_NAME, user>>, <<EAP_MESSAGE, "eap">>, <<PROXY_STATE, "proxy">>>>), secret))
\* A session id per request: the authenticator of an accounting request is made of its content alone.
accounting_request(status) ==
    LET p == Packet(AccountingRequest, next_id, 0, <<<<ACCT_STATUS_TYPE, status>>, <<ACCT_SESSION_ID, Cardinality(requests)>>>>)
    IN  /\ Room
        /\ Made([p EXCEPT !.authenticator = accounting_request_authenticator(p, secret)])

verify_response(request, response) ==
    /\ response.code \in {AccessAccept, AccessReject} /\ request.code = AccessRequest
    /\ response.authenticator = response_authenticator(response, request.authenticator, secret)
verify_accounting_response(request, response) ==
    /\ response.code = AccountingResponse /\ request.code = AccountingRequest
    /\ response.authenticator = response_authenticator(response, request.authenticator, secret)
client_receives(request, response) ==
    /\ verify_response(request, response) \/ verify_accounting_response(request, response)
    /\ verified' = verified \union {<<request, response>>}
    /\ UNCHANGED <<secret, next_id, requests, datagrams, users, accounted>>

-----------------------------------------------------------------------------
(* The server. *)

\* MemoryBackend::authenticate with the password that was set last.
authenticate(user, passwords) ==
    IF passwords # {} /\ user \in RadUsers /\ users[user][Len(users[user])] \in passwords THEN "Accept" ELSE "Reject"

Reply(request, code, attributes) ==
    LET p == Packet(code, request.identifier, request.authenticator, attributes \o attribute(request, PROXY_STATE))
    IN  [p EXCEPT !.authenticator = response_authenticator(p, request.authenticator, ServerSecret)]

\* process: the reply as a set, empty where the packet is dropped or cannot be read.
process_access_request(p) ==
    LET has == attribute(p, USER_PASSWORD) # <<>>
        passwords == IF has THEN user_password(p, ServerSecret) ELSE {}
    IN  IF attribute(p, EAP_MESSAGE) # <<>> /\ ~verify_message_authenticator(p, ServerSecret) THEN {}
        ELSE IF has /\ passwords = {} THEN {}
        ELSE {IF authenticate(attribute(p, USER_NAME)[1][2], passwords) = "Accept" THEN Reply(p, AccessAccept, <<>>)
              ELSE Reply(p, AccessReject, <<<<REPLY_MESSAGE, "invalid">>>>)}
process_accounting(p) ==
    IF p.authenticator # accounting_request_authenticator(p, ServerSecret) THEN {}
    ELSE {Reply(p, AccountingResponse, <<>>)}
process(p) ==
    /\ p.code \in {AccessRequest, AccountingRequest}
    /\ \/ /\ p.code = AccessRequest
          /\ datagrams' = datagrams \union process_access_request(p) /\ UNCHANGED accounted
       \/ /\ p.code = AccountingRequest /\ process_accounting(p) # {}
          /\ datagrams' = datagrams \union process_accounting(p) /\ accounted' = accounted \union {p}
    /\ UNCHANGED <<secret, next_id, requests, users, verified>>
\* MemoryBackend::add_user for a user that is there.
add_user(user, password) ==
    /\ Len(users[user]) <= MaxChanges
    /\ users' = [users EXCEPT ![user] = Append(@, password)]
    /\ UNCHANGED <<secret, next_id, requests, datagrams, accounted, verified>>

RadInit ==
    /\ secret \in Secrets /\ next_id = 0 /\ requests = {} /\ datagrams = {} /\ accounted = {} /\ verified = {}
    /\ users = [u \in RadUsers |-> <<CHOOSE w \in RadPasswords : TRUE>>]
RadNext ==
    \/ \E u \in RadUsers : access_request_with(u) \/ \E w \in RadPasswords : access_request(u, w) \/ add_user(u, w)
    \/ \E status \in {1, 2} : accounting_request(status)
    \/ \E p \in datagrams : process(p)
    \/ \E q \in requests, r \in datagrams : client_receives(q, r)

RadTypeOK ==
    /\ secret \in Secrets /\ next_id \in 0 .. IdModulus - 1 /\ accounted \subseteq requests
    /\ \A u \in RadUsers : Len(users[u]) \in 1 .. MaxChanges + 1

\* A response the client finds to match a request is the server's answer to that very request, identifiers coming
\* round and passwords changing meanwhile: it accepts a password that was the user's, rejects one that was not
\* always, and says of an accounting request that the backend has it.
Password(q) == {w \in RadPasswords : attribute(q, USER_PASSWORD) # <<>>
                    /\ attribute(q, USER_PASSWORD)[1][2] = hide_user_password(secret, q.authenticator, w)}
RadAuthentic ==
    \A v \in verified :
        LET q == v[1]
            held == IF q.code = AccessRequest THEN Range(users[attribute(q, USER_NAME)[1][2]]) ELSE {}
        IN  /\ secret = ServerSecret
            /\ v[2].code = AccessAccept => Password(q) \intersect held # {}
            /\ v[2].code = AccessReject => Cardinality(held) > 1 \/ Password(q) \intersect held = {}
            /\ v[2].code = AccountingResponse => q \in accounted
=============================================================================
