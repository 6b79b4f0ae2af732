-------------------------------- MODULE Ssh --------------------------------
(***************************************************************************)
(* tpt-ssh: the handshake, user authentication and one exec command on a   *)
(* session channel, between a client and a server over a byte stream that  *)
(* is cut anywhere.                                                        *)
(*                                                                         *)
(* A payload is the sequence of its fields, each with the way it was       *)
(* written: a reader that takes a field for another kind fails.  Ephemeral *)
(* keys, secrets, hashes and signatures are records of what went into      *)
(* them.  Every send of the code is followed by a pump before anything     *)
(* else is read, so a payload is put on the wire where it is sent.         *)
(***************************************************************************)
EXTENDS Integers, FiniteSets, SequencesExt

CONSTANTS Commands,    \* commands the client may run
          Outputs,     \* what they print
          Passwords,   \* passwords that are tried; Password is the right one
          Password,
          MaxSessions, \* bound on the connections of the client
          MaxTries     \* bound on the authentication requests of a connection

VARIABLES session,     \* the keys of the connection and its number
          conn,        \* EncryptedConn of each role: sequence numbers and receive buffer
          stream,      \* octets each role has sent that the other has not taken
          client,      \* where the client is, and what run_client_exec has gathered
          server,      \* where the server is, and what the handler returned
          signed       \* publickey requests the client has made, in any connection
sshVars == <<session, conn, stream, client, server, signed>>

Roles == {"Client", "Server"}
Peer(r) == CHOOSE p \in Roles : p # r
byte(x) == <<"byte", x>>
u32(x) == <<"u32", x>>
bool(x) == <<"bool", x>>
string(x) == <<"string", x>>
NONE_BLOCK_SIZE == 8
DEFAULT_WINDOW == 1000
DEFAULT_MAX_PACKET == 100
ClientChan == 0
User == "alice"
UserKey == "alice's key"
Nothing == <<>>

\* The Reader: the payload begins with fields of these kinds.
Reads(payload, kinds) ==
    /\ Len(payload) >= Len(kinds)
    /\ \A i \in DOMAIN kinds : payload[i][1] = kinds[i]
FieldSize(f) == CASE f[1] \in {"byte", "bool"} -> 1 [] f[1] = "u32" -> 4 [] OTHER -> 5
SizeOf(payload) == FoldLeft(LAMBDA n, f : n + FieldSize(f), 0, payload)

-----------------------------------------------------------------------------
(* Key exchange. *)

KexLists == <<"curve25519-sha256", "ssh-ed25519", "chacha20-poly1305@openssh.com",
              "chacha20-poly1305@openssh.com", "none", "none", "none", "none">>
make_kexinit == <<byte(20), <<"cookie", 0>>>> \o [i \in 1 .. 8 |-> string(<<KexLists[i]>>)] \o <<bool(FALSE), u32(0)>>

\* The name lists of a KEXINIT, or nothing where it does not parse.
KexInit_parse(payload) ==
    {[i \in 1 .. 8 |-> payload[i + 2][2]] :
        x \in {p \in {payload} : /\ Reads(p, <<"byte", "cookie">> \o [i \in 1 .. 8 |-> "string"] \o <<"bool", "u32">>)
                                 /\ p[1] = byte(20)}}

Preferences == <<{"curve25519-sha256"}, {"ssh-ed25519"}, {"chacha20-poly1305@openssh.com"}, {}, {"none"}, {}, {"none"}>>
select(prefs, ours, theirs) == {p \in prefs : p \in Range(ours) /\ p \in Range(theirs)}

\* Kex, host key and the client's cipher, MAC and compression are looked at, of both sides.
negotiate(i_c, i_s) ==
    \E c \in KexInit_parse(i_c), s \in KexInit_parse(i_s) :
        \A n \in {1, 2, 3, 5, 7} : select(Preferences[n], c[n], s[n]) # {}

shared_secret(priv, public) == {priv, public}
\* The version lines and the KEXINITs, whose cookie is 0, are the same in every connection.
exchange_hash(k_s, e, f, k) == <<k_s, e, f, k>>
Sign(key, data) == [key |-> key, over |-> data]
\* HostKey::verify: the blob and the signature are of Ed25519 and the signature is of the data.
verify(blob, sig, data) == sig.key = blob /\ sig.over = data
\* Mutant: the letters of the two directions are the same.
session_keys_OneLetter(k, h) == [Client |-> <<k, h, "C">>, Server |-> <<k, h, "C">>]
session_keys(k, h) == [Client |-> <<k, h, "C">>, Server |-> <<k, h, "D">>]

NewConn == [out |-> 0, in |-> 0, buf |-> <<>>]

\* The handshake of the two ends, one after the other: version lines, KEXINIT, ECDH, NEWKEYS.
handshake(e, f) ==
    LET i_c == make_kexinit
        i_s == make_kexinit
        k_s == "host key"
        k == shared_secret(f, e)
        h == exchange_hash(k_s, e, f, k)
        sig == Sign(k_s, h)
        k_client == shared_secret(e, f)
        h_client == exchange_hash(k_s, e, f, k_client)
    IN  /\ client.at = "start" /\ session.n < MaxSessions
        /\ negotiate(i_c, i_s) /\ k_client = k /\ verify(k_s, sig, h_client)
        /\ session' = [n |-> session.n + 1, keys |-> session_keys(k_client, h_client), id |-> h_client]
        /\ conn' = [r \in Roles |-> NewConn] /\ stream' = [r \in Roles |-> <<>>]
        /\ client' = [client EXCEPT !.at = "auth"]
        /\ server' = [server EXCEPT !.at = "auth"]
        /\ UNCHANGED signed

-----------------------------------------------------------------------------
(* Encrypted packets: a length, the padded content and a tag, under the key and number of the packet. *)

padding_for(n) ==
    LET pad == (NONE_BLOCK_SIZE - (n % NONE_BLOCK_SIZE)) % NONE_BLOCK_SIZE
    IN  IF pad < 4 THEN pad + NONE_BLOCK_SIZE ELSE pad
frame_content(payload) ==
    LET pad == padding_for(1 + SizeOf(payload))
    IN  [pad |-> pad, size |-> 1 + SizeOf(payload) + pad, payload |-> payload]
unpack_content(c) == {p \in {c.payload} : c.pad + 1 <= c.size /\ SizeOf(p) = c.size - c.pad - 1}

encrypt_packet(key, seq, content) ==
    LET seal(part) == [part |-> part, key |-> key, seq |-> seq]
    IN  <<seal("length"), [part |-> "content", key |-> key, seq |-> seq, content |-> content], seal("tag")>>
Total == 3
peek_content_len(key, seq, octet) == octet.part = "length" /\ octet.key = key /\ octet.seq = seq
decrypt_packet(key, seq, packet) ==
    {packet[2].content : x \in {p \in {packet} : \A i \in 1 .. Total : p[i].key = key /\ p[i].seq = seq}}

\* Mutant: the receiver's number stays.
advance_incoming_seq_Stays(n) == n
advance_incoming_seq(n) == n + 1
advance_outgoing_seq(n) == n + 1

\* Payloads that r sends, one packet each.
Packets(r, payloads) ==
    FlattenSeq([i \in DOMAIN payloads |->
        encrypt_packet(session.keys[r], conn[r].out + i - 1, frame_content(payloads[i]))])
Sent(r, payloads) ==
    stream' = [stream EXCEPT ![r] = @ \o Packets(r, payloads)]

\* What recv makes of the buffer with k more octets: "more", "error" or the payload.
recv(r, k) ==
    LET buf == conn[r].buf \o SubSeq(stream[Peer(r)], 1, k)
        key == session.keys[Peer(r)]
        seq == conn[r].in
        packet == SubSeq(buf, 1, Total)
    IN  IF buf = <<>> THEN [got |-> "more", buf |-> buf]
        ELSE IF ~peek_content_len(key, seq, buf[1]) THEN [got |-> "error", buf |-> buf]
        ELSE IF Len(buf) < Total THEN [got |-> "more", buf |-> buf]
        ELSE LET rest == SubSeq(buf, Total + 1, Len(buf))
                 opened == UNION {unpack_content(c) : c \in decrypt_packet(key, seq, packet)}
             IN  IF opened = {} THEN [got |-> "error", buf |-> rest]
                 ELSE [got |-> "payload", buf |-> rest, payload |-> CHOOSE p \in opened : TRUE]

\* r pumps k octets in, takes what recv gives and answers with the payloads out.
Exchange(r, k, x, out) ==
    /\ conn' = [conn EXCEPT ![r] = [out |-> FoldLeft(LAMBDA n, p : advance_outgoing_seq(n), @.out, out),
                                    in |-> IF x.got = "payload" THEN advance_incoming_seq(@.in) ELSE @.in,
                                    buf |-> x.buf]]
    /\ stream' = [stream EXCEPT ![r] = @ \o Packets(r, out),
                                ![Peer(r)] = SubSeq(@, k + 1, Len(@))]

-----------------------------------------------------------------------------
(* User authentication. *)

SERVICE_SSH_USERAUTH == "ssh-userauth"
encode_request_none(user, service) == <<byte(50), string(user), string(service), string("none")>>
encode_request_password(user, service, password) ==
    <<byte(50), string(user), string(service), string("password"), bool(FALSE), string(password)>>
\* Mutant: what is signed does not name the connection.
publickey_signature_data_NoSession(id, user, service, alg, blob) ==
    <<string(<<>>), byte(50), string(user), string(service), string("publickey"), bool(TRUE), string(alg), string(blob)>>
publickey_signature_data(id, user, service, alg, blob) ==
    <<string(id), byte(50), string(user), string(service), string("publickey"), bool(TRUE), string(alg), string(blob)>>
encode_request_publickey(user, service, alg, blob, signature) ==
    <<byte(50), string(user), string(service), string("publickey"), bool(signature # <<>>), string(alg), string(blob)>>
        \o signature

Success == <<byte(52)>>
Fail == <<byte(51), string(<<"password", "publickey">>), bool(FALSE)>>
PkOk(alg, blob) == <<byte(60), string(alg), string(blob)>>

\* The answer to a request as a set, empty where the request cannot be read.
server_handle(p, id) ==
    LET user == p[2][2]
        service == p[3][2]
        method == p[4][2]
        verdict(ok) == {IF ok THEN Success ELSE Fail}
        alg == p[6][2]
        blob == p[7][2]
        publickey ==
            IF ~Reads(p, <<"byte", "string", "string", "string", "bool", "string", "string">>) THEN {}
            ELSE IF ~p[5][2] THEN {IF user = User /\ blob = UserKey THEN PkOk(alg, blob) ELSE Fail}
            ELSE IF Len(p) < 8 THEN {}
            ELSE verdict(/\ alg = "ssh-ed25519"
                         /\ verify(blob, p[8][2], publickey_signature_data(id, user, service, alg, blob))
                         /\ user = User /\ blob = UserKey)
    IN  IF ~Reads(p, <<"byte", "string", "string", "string">>) \/ p[1] # byte(50) THEN {}
        ELSE IF service # SERVICE_SSH_USERAUTH THEN {Fail}
        ELSE CASE method = "none" -> {Fail}
               [] method = "password" ->
                    IF Reads(p, <<"byte", "string", "string", "string", "bool", "string">>)
                    THEN verdict(user = User /\ p[6][2] = Password) ELSE {}
               [] method = "publickey" -> publickey
               [] OTHER -> {Fail}

\* AuthResult of an answer.
parse_response(p) ==
    CASE p = Success -> "Success"
      [] Reads(p, <<"byte", "string", "bool">>) /\ p[1] = byte(51) -> "Failure"
      [] Reads(p, <<"byte", "string", "string">>) /\ p[1] = byte(60) -> "PkOk"
      [] Reads(p, <<"byte", "string", "string">>) /\ p[1] = byte(53) -> "Banner"
      [] OTHER -> "error"

SignedRequest(key) ==
    LET data == publickey_signature_data(session.id, User, SERVICE_SSH_USERAUTH, "ssh-ed25519", key)
    IN  encode_request_publickey(User, SERVICE_SSH_USERAUTH, "ssh-ed25519", key, <<string(Sign(key, data))>>)

Requests ==
    {encode_request_none(User, SERVICE_SSH_USERAUTH)}
      \union {encode_request_password(User, SERVICE_SSH_USERAUTH, w) : w \in Passwords}
      \union {encode_request_publickey(User, SERVICE_SSH_USERAUTH, "ssh-ed25519", k, <<>>) : k \in {UserKey, "a key"}}

\* Ways a request proves who its sender is, whatever server_handle does.
Proves(p, id) ==
    \/ p[4][2] = "password" /\ p[6][2] = Password
    \/ p[4][2] = "publickey" /\ p[8][2].key = UserKey /\ p[8][2].over[1] = string(id)

\* The client asks: a request of this connection, or one it made for an earlier one.
client_request(p) ==
    /\ client.at = "auth" /\ client.tries < MaxTries
    /\ p \in Requests \union signed \union {SignedRequest(UserKey), SignedRequest("a key")}
    /\ client' = [client EXCEPT !.at = "asked", !.tries = @ + 1]
    /\ Sent("Client", <<p>>)
    /\ conn' = [conn EXCEPT !["Client"].out = advance_outgoing_seq(@)]
    /\ signed' = signed \union {q \in {p} : Len(q) = 8}
    /\ UNCHANGED <<session, server>>

-----------------------------------------------------------------------------
(* Channels. *)

encode_open_session(sender, window, max) == <<byte(90), string("session"), u32(sender), u32(window), u32(max)>>
encode_open_confirm(recipient, sender, window, max) == <<byte(91), u32(recipient), u32(sender), u32(window), u32(max)>>
encode_channel_data(recipient, data) == <<byte(94), u32(recipient), string(data)>>
encode_channel_eof(recipient) == <<byte(96), u32(recipient)>>
encode_channel_close(recipient) == <<byte(97), u32(recipient)>>
encode_request_exec(recipient, command, reply) ==
    <<byte(98), u32(recipient), string("exec"), bool(reply), string(command)>>
encode_request_exit_status(recipient, code) ==
    <<byte(98), u32(recipient), string("exit-status"), bool(FALSE), u32(code)>>
encode_channel_success(recipient) == <<byte(99), u32(recipient)>>
encode_channel_failure(recipient) == <<byte(100), u32(recipient)>>
encode_open_failure(recipient, reason, desc) == <<byte(92), u32(recipient), u32(reason), string(desc)>>
encode_window_adjust(recipient, n) == <<byte(93), u32(recipient), u32(n)>>
encode_channel_extended_data(recipient, type, data) == <<byte(95), u32(recipient), u32(type), string(data)>>
encode_request_subsystem(recipient, subsystem, reply) ==
    <<byte(98), u32(recipient), string("subsystem"), bool(reply), string(subsystem)>>

\* The message of a payload; its recipient is the channel it is for.
parse_channel_message(p) ==
    LET is(code, kinds) == p[1] = byte(code) /\ Reads(p, <<"byte">> \o kinds)
        to(kind, what) == [kind |-> kind, recipient |-> p[2][2], what |-> what]
    IN  CASE is(90, <<"string", "u32", "u32", "u32">>) /\ p[2][2] = "session" ->
                [kind |-> "OpenSession", recipient |-> p[3][2], what |-> <<p[4][2], p[5][2]>>]
          [] is(91, <<"u32", "u32", "u32", "u32">>) -> to("OpenConfirm", <<p[3][2], p[4][2], p[5][2]>>)
          [] is(92, <<"u32", "u32", "string">>) -> to("OpenFailure", <<p[3][2], p[4][2]>>)
          [] is(93, <<"u32", "u32">>) -> to("WindowAdjust", p[3][2])
          [] is(94, <<"u32", "string">>) -> to("Data", p[3][2])
          [] is(95, <<"u32", "u32", "string">>) -> to("ExtendedData", <<p[3][2], p[4][2]>>)
          [] is(96, <<"u32">>) -> to("Eof", Nothing)
          [] is(97, <<"u32">>) -> to("Close", Nothing)
          [] is(98, <<"u32", "string", "bool", "string">>) /\ p[3][2] \in {"exec", "shell", "subsystem"} ->
                to(p[3][2], <<p[4][2], p[5][2]>>)
          [] is(98, <<"u32", "string", "bool", "u32">>) /\ p[3][2] = "exit-status" -> to("exit-status", p[5][2])
          [] is(98, <<"u32", "string", "bool">>) /\ p[3][2] \notin {"exec", "shell", "subsystem", "exit-status"} ->
                to(p[3][2], Nothing)
          [] is(99, <<"u32">>) -> to("Success", Nothing)
          [] is(100, <<"u32">>) -> to("Failure", Nothing)
          [] OTHER -> [kind |-> "error", recipient |-> ClientChan, what |-> Nothing]

\* One turn of the client: the answer to its request, the open, or the loop of run_client_exec.
client_turn(k) ==
    \E x \in {recv("Client", k)} :
    LET m == parse_channel_message(x.payload)
        r == parse_response(x.payload)
        turn(c, out) == client' = c /\ Exchange("Client", k, x, out)
    IN  /\ k \in 1 .. Len(stream["Server"]) \/ (k = 0 /\ Len(conn["Client"].buf) >= Total)
        /\ \/ x.got = "more" /\ turn(client, <<>>)
           \/ x.got = "error" /\ turn([client EXCEPT !.at = "failed"], <<>>)
           \/ /\ x.got = "payload" /\ client.at = "asked"
              /\ \/ r = "Success" /\ turn([client EXCEPT !.at = "opening"],
                                          <<encode_open_session(ClientChan, DEFAULT_WINDOW, DEFAULT_MAX_PACKET)>>)
                 \/ r # "Success" /\ turn([client EXCEPT !.at = IF r = "error" THEN "failed" ELSE "auth"], <<>>)
           \/ /\ x.got = "payload" /\ client.at = "opening"
              /\ IF m.kind = "OpenConfirm" /\ m.recipient = ClientChan
                 THEN \E c \in Commands : turn([client EXCEPT !.at = "running", !.command = c],
                                               <<encode_request_exec(ClientChan, c, TRUE)>>)
                 ELSE turn([client EXCEPT !.at = IF m.kind \in {"error", "OpenFailure"} THEN "failed" ELSE @], <<>>)
           \/ /\ x.got = "payload" /\ client.at = "running"
              /\ CASE m.kind = "Data" /\ m.recipient = ClientChan -> turn([client EXCEPT !.stdout = @ \o m.what], <<>>)
                   [] m.kind = "exit-status" /\ m.recipient = ClientChan -> turn([client EXCEPT !.status = m.what], <<>>)
                   [] m.kind = "Close" /\ m.recipient = ClientChan ->
                        turn([client EXCEPT !.at = "done"], <<encode_channel_close(ClientChan)>>)
                   [] OTHER -> turn([client EXCEPT !.at = IF m.kind = "error" THEN "failed" ELSE @], <<>>)
        /\ UNCHANGED <<session, server, signed>>

\* One turn of the server: the caller of server_handle, then the loop of run_server_session.
server_turn(k) ==
    \E x \in {recv("Server", k)} :
    LET m == parse_channel_message(x.payload)
        turn(s, out) == server' = s /\ Exchange("Server", k, x, out)
    IN  /\ server.at \in {"auth", "session"}
        /\ k \in 1 .. Len(stream["Client"]) \/ (k = 0 /\ Len(conn["Server"].buf) >= Total)
        /\ \/ x.got = "more" /\ turn(server, <<>>)
           \/ x.got = "error" /\ turn([server EXCEPT !.at = "failed"], <<>>)
           \/ /\ x.got = "payload" /\ server.at = "auth"
              /\ \E a \in server_handle(x.payload, session.id) :
                    turn([server EXCEPT !.at = IF a = Success THEN "session" ELSE @,
                                        !.proved = IF a = Success THEN Proves(x.payload, session.id) ELSE @], <<a>>)
           \/ /\ x.got = "payload" /\ server.at = "session"
              /\ CASE m.kind = "OpenSession" ->
                        turn(server, <<encode_open_confirm(m.recipient, 0, DEFAULT_WINDOW, DEFAULT_MAX_PACKET)>>)
                   [] m.kind = "exec" ->
                        \E o \in Outputs, code \in {0, 1} :
                            turn([server EXCEPT !.sent_close = TRUE, !.ran = <<m.what[2], o, code>>],
                                 <<encode_channel_data(m.recipient, o), encode_request_exit_status(m.recipient, code)>>
                                   \o (IF m.what[1] THEN <<encode_channel_success(m.recipient)>> ELSE <<>>)
                                   \o <<encode_channel_eof(m.recipient), encode_channel_close(m.recipient)>>)
                   [] m.kind = "Close" ->
                        turn([server EXCEPT !.at = "done"],
                             IF server.sent_close THEN <<>> ELSE <<encode_channel_close(m.recipient)>>)
                   [] OTHER -> turn([server EXCEPT !.at = IF m.kind = "error" THEN "failed" ELSE @], <<>>)
        /\ UNCHANGED <<session, client, signed>>

\* The client gives up and connects again.
NewClient == [at |-> "start", tries |-> 0, command |-> "none", stdout |-> <<>>, status |-> 0]
NewServer == [at |-> "start", sent_close |-> FALSE, proved |-> TRUE, ran |-> <<"none", <<>>, 0>>]
reconnect ==
    /\ client.at = "auth" /\ session.n < MaxSessions
    /\ client' = NewClient /\ server' = NewServer
    /\ UNCHANGED <<session, conn, stream, signed>>

SshInit ==
    /\ session = [n |-> 0, keys |-> [r \in Roles |-> Nothing], id |-> Nothing]
    /\ conn = [r \in Roles |-> NewConn] /\ stream = [r \in Roles |-> <<>>]
    /\ client = NewClient /\ server = NewServer /\ signed = {}

Ephemerals(r) == {2 * session.n + (IF r = "Client" THEN 0 ELSE 1)}
\* The pieces the stream comes in: one octet, two or all that is there.
Cuts(r) == {0, 1, 2, Len(stream[r])} \cap (0 .. Len(stream[r]))
SshNext ==
    \/ \E e \in Ephemerals("Client"), f \in Ephemerals("Server") : handshake(e, f)
    \/ \E p \in Requests \union signed \union {SignedRequest(UserKey), SignedRequest("a key")} : client_request(p)
    \/ \E k \in Cuts("Server") : client_turn(k)
    \/ \E k \in Cuts("Client") : server_turn(k)
    \/ reconnect

SshSpec == SshInit /\ [][SshNext]_sshVars

\* The loops of the two ends never stop pumping.
SshFairness ==
    /\ WF_sshVars(\E k \in Cuts("Server") : client_turn(k))
    /\ WF_sshVars(\E k \in Cuts("Client") : server_turn(k))

SshTypeOK ==
    /\ session.n \in 0 .. MaxSessions
    /\ client.at \in {"start", "auth", "asked", "opening", "running", "done", "failed"}
    /\ server.at \in {"start", "auth", "session", "done", "failed"}
    /\ client.tries \in 0 .. MaxTries /\ client.stdout \in {<<>>} \union Outputs /\ client.status \in {0, 1}

\* The server lets in only a sender that proved to be the user: with the password, or with a signature of
\* the user's key made for this connection and no earlier one.
OnlyTheUser == server.at \in {"session", "done"} => server.proved

\* No packet of the two directions and of no connection is sealed with a key and number that another one was.
Sealed == UNION {{stream[r][i] : i \in DOMAIN stream[r]} \union Range(conn[Peer(r)].buf) : r \in Roles}
SealedOnce ==
    /\ \A x, y \in Sealed : x.part = "content" /\ y.part = "content" /\ x.key = y.key /\ x.seq = y.seq => x = y
    /\ session.n > 0 => session.keys["Client"] # session.keys["Server"]
    /\ client.at # "failed" /\ server.at # "failed"

\* Every channel message reads as what was written.
ChannelMessagesRead ==
    \A r \in {0, 7}, x \in {"a", "b"}, b \in BOOLEAN, n \in {0, 1} :
        LET reads(p, kind, to, what) == parse_channel_message(p) = [kind |-> kind, recipient |-> to, what |-> what]
        IN  /\ reads(encode_open_session(r, n, 1), "OpenSession", r, <<n, 1>>)
            /\ reads(encode_open_confirm(r, 3, n, 1), "OpenConfirm", r, <<3, n, 1>>)
            /\ reads(encode_open_failure(r, n, x), "OpenFailure", r, <<n, x>>)
            /\ reads(encode_window_adjust(r, n), "WindowAdjust", r, n)
            /\ reads(encode_channel_data(r, x), "Data", r, x)
            /\ reads(encode_channel_extended_data(r, n, x), "ExtendedData", r, <<n, x>>)
            /\ reads(encode_channel_eof(r), "Eof", r, Nothing)
            /\ reads(encode_channel_close(r), "Close", r, Nothing)
            /\ reads(encode_request_exec(r, x, b), "exec", r, <<b, x>>)
            /\ reads(encode_request_subsystem(r, x, b), "subsystem", r, <<b, x>>)
            /\ reads(encode_request_exit_status(r, n), "exit-status", r, n)
            /\ reads(encode_channel_success(r), "Success", r, Nothing)
            /\ reads(encode_channel_failure(r), "Failure", r, Nothing)

\* A command that was begun ends on both sides, and run_client_exec returns the output and the status of that
\* command, whatever way the stream is cut.
ExecEnds ==
    (client.at = "opening") ~>
        (/\ client.at = "done" /\ server.at = "done"
         /\ server.ran = <<client.command, client.stdout, client.status>>)
=============================================================================
