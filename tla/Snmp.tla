-------------------------------- MODULE Snmp --------------------------------
(***************************************************************************)
(* tpt-snmp: BER, values, PDUs and messages of SNMP v1, v2c and v3, and    *)
(* the agent and the manager as functions of their state and a datagram.   *)
(* A datagram is a sequence of octets; a decoder gives a set, empty where  *)
(* the code returns an error.  Words(v) is the 32-bit number v as two      *)
(* halves, for numbers TLC cannot hold.  The hash and the block cipher are *)
(* external: any function of the key and the octets, the cipher with its   *)
(* inverse, serves.                                                        *)
(***************************************************************************)
EXTENDS Integers, FiniteSets, SequencesExt, Bitwise

TAG_OCTET_STRING == 4
TAG_SEQUENCE == 48
SnmpValue ==
    [Integer |-> 2, OctetString |-> 4, ObjectId |-> 6, IpAddress |-> 64, Counter32 |-> 65, Gauge32 |-> 66,
     TimeTicks |-> 67, Opaque |-> 68, Counter64 |-> 70, NoSuchObject |-> 128, NoSuchInstance |-> 129, EndOfMibView |-> 130]
SnmpVersion == [V1 |-> 0, V2c |-> 1, V3 |-> 3]
PduType ==
    [GetRequest |-> 160, GetNextRequest |-> 161, GetResponse |-> 162, SetRequest |-> 163, GetBulkRequest |-> 165,
     InformRequest |-> 166, SnmpV2Trap |-> 167, Report |-> 168]
TRAP_V1 == 164
\* The one element of a set that has at most one.
OnlyOr(S, default) == IF S = {} THEN default ELSE CHOOSE x \in S : TRUE
NamesOf(n, table) == {k \in DOMAIN table : table[k] = n}

-----------------------------------------------------------------------------
(* BER. *)

RECURSIVE Octets(_, _)
Octets(v, n) == IF n = 0 THEN <<>> ELSE Append(Octets(v \div 256, n - 1), v % 256)
RECURSIVE Groups(_)
Groups(n) == IF n = 0 THEN <<>> ELSE Append(Groups(n \div 256), n % 256)
RECURSIVE ReadOn(_, _)
ReadOn(n, octets) == IF octets = <<>> THEN n ELSE ReadOn(n * 256 + Head(octets), Tail(octets))
Number(octets) == ReadOn(0, octets)
Words(v) == <<(v \div 65536) % 65536, v % 65536>>
From(b, starts) == SubSeq(b, Min(starts \union {Len(b)}), Len(b))

write_tlv(tag, content) ==
    <<tag>> \o (IF Len(content) < 128 THEN <<Len(content)>> ELSE <<128 + Len(Groups(Len(content)))>> \o Groups(Len(content)))
      \o content
write_octet_string(s) == write_tlv(TAG_OCTET_STRING, s)
write_sequence(content) == write_tlv(TAG_SEQUENCE, content)
encode_signed(v) ==
    LET b == Octets(v, 5)
    IN  From(b, {i \in 1 .. Len(b) - 1 : ~(b[i] = (IF v < 0 THEN 255 ELSE 0) /\ (b[i + 1] >= 128 <=> v < 0))})
encode_unsigned(w) == LET b == Octets(w[1], 2) \o Octets(w[2], 2) IN From(b, {i \in DOMAIN b : b[i] # 0})
write_integer(v) == write_tlv(SnmpValue.Integer, encode_signed(v))
\* Of at most four octets, the width of the numbers here; the code reads eight.
decode_signed(c) ==
    IF c = <<>> \/ Len(c) > 4 THEN {}
    ELSE {ReadOn(IF c[1] >= 128 THEN c[1] - 256 ELSE c[1], Tail(c))}
decode_unsigned(c) == {v \in decode_signed(c) : v >= 0}

read_length(buf, pos) ==
    IF pos > Len(buf) THEN {}
    ELSE LET n == buf[pos] - 128
         IN  IF n < 0 THEN {<<buf[pos], pos + 1>>}
             ELSE IF n = 0 \/ pos + n > Len(buf) THEN {}
             ELSE {<<Number(SubSeq(buf, pos + 1, pos + n)), pos + 1 + n>>}
read_tlv(buf, pos) ==
    IF pos > Len(buf) THEN {}
    ELSE {<<buf[pos], SubSeq(buf, l[2], l[2] + l[1] - 1), l[2] + l[1]>>
             : l \in {x \in read_length(buf, pos + 1) : x[2] + x[1] <= Len(buf) + 1}}
\* The first n elements, what follows them ignored; all of them for n = -1.
RECURSIVE read_tlvs(_, _, _)
read_tlvs(buf, pos, n) ==
    IF n = 0 \/ (n = -1 /\ pos > Len(buf)) THEN {<<>>}
    ELSE UNION {{<<<<t[1], t[2]>>>> \o r : r \in read_tlvs(buf, t[3], IF n = -1 THEN n ELSE n - 1)} : t \in read_tlv(buf, pos)}
Fields(buf, n) == read_tlvs(buf, 1, n)
\* The fields of a sequence that is the first element of a buffer.
InSequence(buf, n) == UNION {IF t[1] # TAG_SEQUENCE THEN {} ELSE Fields(t[2], n) : t \in read_tlv(buf, 1)}

-----------------------------------------------------------------------------
(* Object identifiers, values and bindings. *)

RECURSIVE Sevens(_)
Sevens(v) == IF v = 0 THEN <<>> ELSE Append(Sevens(v \div 128), v % 128)
\* Mutant: no mark on the groups before the last.
base128_Unmarked(v) == IF v = 0 THEN <<0>> ELSE Sevens(v)
base128(v) ==
    IF v = 0 THEN <<0>> ELSE LET g == Sevens(v) IN [i \in DOMAIN g |-> IF i < Len(g) THEN g[i] + 128 ELSE g[i]]
Oid_encode(o) == base128(o[1] * 40 + o[2]) \o FlattenSeq([i \in 1 .. Len(o) - 2 |-> base128(o[i + 2])])
\* The numbers of seven bits an octet, v the octets read of the first of them; an unfinished one at the end is dropped.
RECURSIVE Subidentifiers(_, _)
Subidentifiers(v, content) ==
    IF content = <<>> THEN <<>>
    ELSE LET b == Head(content)
         IN  IF b >= 128 THEN Subidentifiers(v * 128 + b - 128, Tail(content))
             ELSE <<v * 128 + b>> \o Subidentifiers(0, Tail(content))
Oid_decode(content) ==
    LET named(subs, a) == IF subs = <<>> THEN {} ELSE {<<a, subs[1] - a * 40>> \o Tail(subs)}
        arcs(subs) == named(subs, IF subs # <<>> /\ subs[1] \div 40 < 2 THEN subs[1] \div 40 ELSE 2)
    IN  arcs(Subidentifiers(0, content))
write_oid(o) == write_tlv(SnmpValue.ObjectId, Oid_encode(o))
read_oid(t) == IF t[1] = SnmpValue.ObjectId THEN Oid_decode(t[2]) ELSE {}

Value_encode(v) ==
    write_tlv(SnmpValue[v[1]],
        CASE v[1] = "Integer" -> encode_signed(v[2])
          [] v[1] = "ObjectId" -> Oid_encode(v[2])
          [] v[1] \in {"Counter32", "Gauge32", "TimeTicks", "Counter64"} -> encode_unsigned(v[2])
          [] v[1] \in {"OctetString", "IpAddress", "Opaque"} -> v[2]
          [] OTHER -> <<>>)
\* Unsigned numbers are read as signed ones, then cut to their width.
decode_int(c) == decode_signed(c)
Value_decode(tag, c) ==
    UNION {CASE k = "Integer" -> {<<k, v>> : v \in decode_int(c)}
             [] k = "ObjectId" -> {<<k, o>> : o \in Oid_decode(c)}
             [] k = "IpAddress" -> {<<k, a>> : a \in {x \in {c} : Len(x) = 4}}
             [] k \in {"Counter32", "Gauge32", "TimeTicks", "Counter64"} -> {<<k, Words(v)>> : v \in decode_int(c)}
             [] k \in {"OctetString", "Opaque"} -> {<<k, c>>}
             [] OTHER -> {<<k, <<>>>>} : k \in NamesOf(tag, SnmpValue)}
VarBind_encode(vb) == write_sequence(write_oid(vb[1]) \o Value_encode(vb[2]))
VarBind_decode(t) ==
    IF t[1] # TAG_SEQUENCE THEN {}
    ELSE UNION {read_oid(f[1]) \X Value_decode(f[2][1], f[2][2]) : f \in Fields(t[2], 2)}
VarBindList_encode(list) == write_sequence(FlattenSeq([i \in DOMAIN list |-> VarBind_encode(list[i])]))
VarBindList_decode(t) ==
    IF t[1] # TAG_SEQUENCE THEN {}
    ELSE UNION {IF \E i \in DOMAIN f : VarBind_decode(f[i]) = {} THEN {}
                ELSE {[i \in DOMAIN f |-> CHOOSE vb \in VarBind_decode(f[i]) : TRUE]} : f \in Fields(t[2], -1)}

-----------------------------------------------------------------------------
(* PDUs and messages. *)

Pdu(type, id, status, index, binds) ==
    [pdu_type |-> type, request_id |-> id, error_status |-> status, error_index |-> index, varbinds |-> binds]
Pdu_encode(p) ==
    write_tlv(PduType[p.pdu_type],
        write_integer(p.request_id) \o write_integer(p.error_status) \o write_integer(p.error_index)
          \o VarBindList_encode(p.varbinds))
Pdu_decode(t) ==
    UNION {{Pdu(k, x[1], x[2], x[3], x[4])
               : x \in decode_signed(f[1][2]) \X decode_signed(f[2][2]) \X decode_signed(f[3][2]) \X VarBindList_decode(f[4])}
           : <<k, f>> \in NamesOf(t[1], PduType) \X Fields(t[2], 4)}
TrapV1_encode(p) ==
    write_tlv(TRAP_V1,
        write_oid(p.enterprise) \o write_tlv(SnmpValue.IpAddress, p.agent_address) \o write_integer(p.generic_trap)
          \o write_integer(p.specific_trap) \o write_tlv(SnmpValue.TimeTicks, encode_unsigned(p.time_stamp))
          \o VarBindList_encode(p.varbinds))
TrapV1_decode(t) ==
    UNION {IF f[2][1] # SnmpValue.IpAddress \/ Len(f[2][2]) # 4 THEN {}
           ELSE {[enterprise |-> x[1], agent_address |-> f[2][2], generic_trap |-> x[2], specific_trap |-> x[3],
                  time_stamp |-> Words(x[4]), varbinds |-> x[5]]
                    : x \in read_oid(f[1]) \X decode_signed(f[3][2]) \X decode_signed(f[4][2]) \X decode_unsigned(f[5][2])
                              \X VarBindList_decode(f[6])}
           : f \in Fields(t[2], 6)}
Message_encode(m) ==
    write_sequence(write_integer(SnmpVersion[m.version]) \o write_octet_string(m.community)
                     \o (IF m.kind = "Pdu" THEN Pdu_encode(m.data) ELSE TrapV1_encode(m.data)))
Message_decode(bytes) ==
    UNION {{[version |-> v, community |-> f[2][2], kind |-> IF f[3][1] = TRAP_V1 THEN "TrapV1" ELSE "Pdu", data |-> d]
               : v \in UNION {NamesOf(n, SnmpVersion) : n \in decode_signed(f[1][2])} \ {"V3"},
                 d \in IF f[3][1] = TRAP_V1 THEN TrapV1_decode(f[3]) ELSE Pdu_decode(f[3])}
           : f \in InSequence(bytes, 3)}

encode_usm(u) ==
    write_sequence(write_octet_string(u.engine_id) \o write_integer(u.boots) \o write_integer(u.time)
                     \o write_octet_string(u.user_name) \o write_octet_string(u.auth_parameters)
                     \o write_octet_string(u.priv_parameters))
decode_usm(content) ==
    UNION {IF Len(f[5][2]) # 12 \/ Len(f[6][2]) # 8 THEN {}
           ELSE {[engine_id |-> f[1][2], boots |-> x[1], time |-> x[2], user_name |-> f[4][2],
                  auth_parameters |-> f[5][2], priv_parameters |-> f[6][2]]
                    : x \in decode_unsigned(f[2][2]) \X decode_unsigned(f[3][2])}
           : f \in InSequence(content, 6)}
encode_scoped(s) ==
    write_sequence(write_octet_string(s.context_engine_id) \o write_octet_string(s.context_name) \o Pdu_encode(s.pdu))
decode_scoped(content) ==
    UNION {{[context_engine_id |-> f[1][2], context_name |-> f[2][2], pdu |-> p] : p \in Pdu_decode(f[3])}
           : f \in InSequence(content, 3)}
V3Message_encode(m) ==
    write_sequence(
        write_integer(3)
          \o write_sequence(write_integer(m.msg_id) \o write_integer(m.msg_max_size) \o write_octet_string(<<m.msg_flags>>)
                              \o write_integer(3))
          \o write_octet_string(encode_usm(m.usm))
          \o (IF m.kind = "Plain" THEN encode_scoped(m.data) ELSE write_octet_string(m.data)))
V3Message_decode(bytes) ==
    UNION {UNION {IF decode_signed(f[1][2]) # {3} \/ Len(g[3][2]) # 1 \/ decode_signed(g[4][2]) # {3} THEN {}
                  ELSE {[msg_id |-> x[1], msg_max_size |-> x[2], msg_flags |-> g[3][2][1], usm |-> x[3],
                         kind |-> IF f[4][1] = TAG_SEQUENCE THEN "Plain" ELSE "Encrypted", data |-> x[4]]
                           : x \in decode_signed(g[1][2]) \X decode_signed(g[2][2]) \X decode_usm(f[3][2])
                                     \X (IF f[4][1] = TAG_SEQUENCE THEN decode_scoped(write_tlv(f[4][1], f[4][2])) ELSE {f[4][2]})}
                  : g \in Fields(f[2][2], 4)}
           : f \in InSequence(bytes, 4)}

-----------------------------------------------------------------------------
(* User-based security. *)

\* The sequence f, its elements evaluated once.
Tuple(f) == SubSeq(f, 1, Len(f))
RECURSIVE Mixed(_, _, _)
Mixed(s, lo, hi) ==
    IF lo > hi THEN 1
    ELSE IF lo = hi THEN s[lo] + 1
    ELSE (Mixed(s, lo, (lo + hi) \div 2) * 31 + Mixed(s, (lo + hi) \div 2 + 1, hi) * 17 + hi) % 65521
Hash(s, n) == CHOOSE d \in {Tuple([i \in 1 .. n |-> (h * (i + 2) + i) % 256]) : h \in {Mixed(t, 1, Len(t)) : t \in {s}}} : TRUE
Encipher(key, b) == Tuple([i \in DOMAIN b |-> (b[Len(b) + 1 - i] + key[i] + i) % 256])
Decipher(key, b) == Tuple([i \in DOMAIN b |-> (b[Len(b) + 1 - i] - key[Len(b) + 1 - i] - (Len(b) + 1 - i)) % 256])
XorOctets(a, b) == Tuple([i \in DOMAIN a |-> a[i] ^^ b[i]])

\* The octets a password is repeated to; 2^20 in the code.
EXPANDED == 8
DigestOf == [None |-> 0, Md5 |-> 16, Sha1 |-> 20]
expand_password(p) == IF p = <<>> THEN <<>> ELSE [i \in 1 .. EXPANDED |-> p[((i - 1) % Len(p)) + 1]]
password_to_auth_key(proto, p) == Hash(expand_password(p), DigestOf[proto])
localize_key(key, engine_id) == LET d == key \o engine_id \o key IN IF Len(key) \in {16, 20} THEN Hash(d, Len(key)) ELSE d
localize_priv_key(key, engine_id) == SubSeq(localize_key(key, engine_id), 1, 16)
auth_mac(proto, key, message) == IF proto = "None" THEN [i \in 1 .. 12 |-> 0] ELSE Hash(key \o message \o key, 12)

RECURSIVE Padded(_)
Padded(s) == IF Len(s) % 8 = 0 THEN s ELSE Padded(Append(s, 0))
RECURSIVE des_cbc_encrypt(_, _, _)
des_cbc_encrypt(s, key, iv) ==
    IF s = <<>> THEN <<>>
    ELSE LET c == Encipher(key, XorOctets(SubSeq(s, 1, 8), iv)) IN c \o des_cbc_encrypt(SubSeq(s, 9, Len(s)), key, c)
RECURSIVE des_cbc_decrypt(_, _, _)
des_cbc_decrypt(s, key, iv) ==
    IF s = <<>> \/ Len(s) % 8 # 0 THEN <<>>
    ELSE LET c == SubSeq(s, 1, 8) IN XorOctets(Decipher(key, c), iv) \o des_cbc_decrypt(SubSeq(s, 9, Len(s)), key, c)
RECURSIVE aes_cfb128(_, _, _, _)
aes_cfb128(input, key, reg, encrypt) ==
    IF input = <<>> THEN <<>>
    ELSE LET n == IF Len(input) < 16 THEN Len(input) ELSE 16
             block == SubSeq(input, 1, n)
             out == XorOctets(block, Encipher(key, reg))
         IN  out \o aes_cfb128(SubSeq(input, n + 1, Len(input)), key,
                               SubSeq(reg, n + 1, 16) \o (IF encrypt THEN out ELSE block), encrypt)
DesIv(key, salt) == XorOctets(SubSeq(key, 9, 16), salt)
AesIv(boots, time, salt) == Octets(boots, 4) \o Octets(time, 4) \o salt
encrypt_scoped(s, key, proto, boots, time, salt) ==
    CASE proto = "None" -> s
      [] proto = "Des" -> des_cbc_encrypt(Padded(s), SubSeq(key, 1, 8), DesIv(key, salt))
      [] proto = "Aes" -> aes_cfb128(s, key, AesIv(boots, time, salt), TRUE)
decrypt_scoped(s, key, proto, boots, time, salt) ==
    CASE proto = "None" -> {s}
      [] proto = "Des" -> {p \in {des_cbc_decrypt(s, SubSeq(key, 1, 8), DesIv(key, salt))} : p # <<>> \/ s = <<>>}
      [] proto = "Aes" -> {aes_cfb128(s, key, AesIv(boots, time, salt), FALSE)}

\* The authentication parameters are found by the octets around them.
find_auth_offset(b) ==
    LET at == {i \in 1 .. Len(b) - 15 : b[i] = 4 /\ b[i + 1] = 12 /\ b[i + 14] = 4 /\ b[i + 15] = 8}
    IN  IF at = {} THEN {} ELSE {Min(at) + 2}
With(b, off, mac) == SubSeq(b, 1, off - 1) \o mac \o SubSeq(b, off + 12, Len(b))
Zeros(n) == [i \in 1 .. n |-> 0]
V3Message_encode_signed(m, keys, proto) ==
    LET signed(bytes) ==
            OnlyOr({With(bytes, off, auth_mac(proto, key, bytes)) : key \in keys, off \in find_auth_offset(bytes)}, bytes)
    IN  signed(V3Message_encode(IF keys = {} THEN m ELSE [m EXCEPT !.usm.auth_parameters = Zeros(12)]))
verify_auth(bytes, key, proto) ==
    \E off \in find_auth_offset(bytes) :
        SubSeq(bytes, off, off + 11) = auth_mac(proto, key, With(bytes, off, Zeros(12)))
auth(m) == m.msg_flags % 2 = 1
is_priv(m) == (m.msg_flags \div 2) % 2 = 1

-----------------------------------------------------------------------------
(* The agent. *)

Less(o, p) ==
    \/ \E i \in DOMAIN o \intersect DOMAIN p : o[i] < p[i] /\ \A j \in 1 .. i - 1 : o[j] = p[j]
    \/ Len(o) < Len(p) /\ \A i \in DOMAIN o : o[i] = p[i]
get(mib, oid) == {<<o, mib[o]>> : o \in {oid} \intersect DOMAIN mib}
\* Mutant: the range is taken from the name itself.
get_next_Same(mib, oid) ==
    {<<o, mib[o]>> : o \in {x \in DOMAIN mib : ~Less(x, oid) /\ \A y \in DOMAIN mib : Less(y, x) => Less(y, oid)}}
get_next(mib, oid) ==
    {<<o, mib[o]>> : o \in {x \in DOMAIN mib : Less(oid, x) /\ \A y \in DOMAIN mib : Less(oid, y) => ~Less(y, x)}}
set(mib, vb) == (vb[1] :> vb[2]) @@ mib
missing_binding(oid) == <<oid, <<"NoSuchObject", <<>>>>>>
OrMissing(found, oid) == OnlyOr(found, missing_binding(oid))
RECURSIVE Repeated(_, _, _)
Repeated(mib, oid, n) ==
    IF n = 0 \/ get_next(mib, oid) = {} THEN <<>>
    ELSE LET b == CHOOSE x \in get_next(mib, oid) : TRUE IN <<b>> \o Repeated(mib, b[1], n - 1)

AgentUser(engine_id, u) ==
    [auth_proto |-> u.auth_proto, priv_proto |-> u.priv_proto,
     auth_key |-> IF u.auth_proto = "None" THEN <<>> ELSE localize_key(password_to_auth_key(u.auth_proto, u.auth_password), engine_id),
     priv_key |-> IF u.priv_proto = "None" THEN Zeros(16)
                  ELSE localize_priv_key(password_to_auth_key(u.auth_proto, u.priv_password), engine_id)]
Agent_new(mib, engine_id) == [mib |-> mib, engine_id |-> engine_id, boots |-> 0, time |-> 0, users |-> <<>>, salt |-> 0]
set_engine_time(a, boots, time) == [a EXCEPT !.boots = boots, !.time = time]
add_user(a, name, u) ==
    [a EXCEPT !.users = (name :> AgentUser(a.engine_id, u)) @@ @]
Salt(n) == Octets(n, 8)

\* The values bound in the answer, and the objects afterwards.
process_request(mib, req) ==
    LET binds == req.varbinds
        repeaters == IF req.error_status < 0 THEN 1 ELSE req.error_status + 1
        looked(Look(_, _), list) == [i \in DOMAIN list |-> OrMissing(Look(mib, list[i][1]), list[i][1])]
    IN  CASE req.pdu_type = "GetRequest" -> <<mib, looked(get, binds)>>
          [] req.pdu_type = "GetNextRequest" -> <<mib, looked(get_next, binds)>>
          [] req.pdu_type = "SetRequest" -> <<FoldLeft(set, mib, binds), binds>>
          [] req.pdu_type = "GetBulkRequest" ->
                <<mib, looked(get, SubSeq(binds, 1, repeaters - 1))
                         \o FlattenSeq([i \in 1 .. Len(binds) - repeaters + 1 |->
                                Repeated(mib, binds[repeaters + i - 1][1], IF req.error_index < 0 THEN 0 ELSE req.error_index)])>>
          [] OTHER -> <<mib, binds>>
response_for(req, binds) == Pdu("GetResponse", req.request_id, 0, 0, binds)
Header(id, size, flags, usm, kind, data) ==
    [msg_id |-> id, msg_max_size |-> size, msg_flags |-> flags, usm |-> usm, kind |-> kind, data |-> data]
Usm(engine_id, boots, time, name, priv) ==
    [engine_id |-> engine_id, boots |-> boots, time |-> time, user_name |-> name, auth_parameters |-> Zeros(12),
     priv_parameters |-> priv]
Scoped(engine_id, name, pdu) == [context_engine_id |-> engine_id, context_name |-> name, pdu |-> pdu]

OID_USM_UNKNOWN_ENGINE == <<1, 3, 6, 1, 6, 3, 15, 1, 1, 4, 0>>
build_discovery(a, m, req) ==
    V3Message_encode(
        Header(m.msg_id, m.msg_max_size, 4, Usm(a.engine_id, a.boots, a.time, <<>>, Zeros(8)), "Plain",
               Scoped(a.engine_id, <<>>, Pdu("Report", req.request_id, 0, 0, <<<<OID_USM_UNKNOWN_ENGINE, <<"Counter32", <<0, 1>>>>>>>>))))
process_community(a, m) ==
    IF m.kind # "Pdu" THEN <<a, {}>>
    ELSE LET done == process_request(a.mib, m.data)
         IN  <<[a EXCEPT !.mib = done[1]], {Message_encode([m EXCEPT !.data = response_for(m.data, done[2])])}>>
\* What the agent reads of a v3 message; nothing where it drops it.
Opened(a, m, raw) ==
    LET known == {a.users[n] : n \in {m.usm.user_name} \intersect DOMAIN a.users}
    IN  IF auth(m) /\ ~\E u \in known : u.auth_proto # "None" /\ verify_auth(raw, u.auth_key, u.auth_proto) THEN {}
        ELSE IF m.kind = "Plain" THEN {m.data}
        ELSE UNION {IF ~is_priv(m) \/ u.priv_proto = "None" THEN {}
                    ELSE UNION {decode_scoped(p) : p \in decrypt_scoped(m.data, u.priv_key, u.priv_proto, m.usm.boots,
                                                                        m.usm.time, m.usm.priv_parameters)} : u \in known}
process_v3(a, m, raw) ==
    LET known == {a.users[n] : n \in {m.usm.user_name} \intersect DOMAIN a.users}
        answer(s, done) ==
            LET scoped == Scoped(a.engine_id, s.context_name, response_for(s.pdu, done[2]))
                flags == (IF auth(m) THEN 1 ELSE 0) + (IF is_priv(m) THEN 2 ELSE 0)
                usm == Usm(a.engine_id, a.boots, a.time, m.usm.user_name, IF is_priv(m) THEN Salt(a.salt) ELSE Zeros(8))
                keys == IF auth(m) THEN {u.auth_key : u \in known} ELSE {}
                proto == IF auth(m) /\ known # {} THEN (CHOOSE u \in known : TRUE).auth_proto ELSE "None"
                data == IF is_priv(m)
                        THEN {encrypt_scoped(encode_scoped(scoped), u.priv_key, u.priv_proto, a.boots, a.time, Salt(a.salt)) : u \in known}
                        ELSE {scoped}
            IN  <<[a EXCEPT !.mib = done[1], !.salt = IF is_priv(m) /\ known # {} THEN @ + 1 ELSE @],
                  {V3Message_encode_signed(Header(m.msg_id, m.msg_max_size, flags, usm, IF is_priv(m) THEN "Encrypted" ELSE "Plain", d),
                                           keys, proto) : d \in data}>>
    IN  {IF ~auth(m) /\ (m.usm.engine_id = <<>> \/ known = {}) THEN <<a, {build_discovery(a, m, s.pdu)}>>
         ELSE answer(s, process_request(a.mib, s.pdu)) : s \in Opened(a, m, raw)}
process(a, bytes) ==
    OnlyOr({process_community(a, m) : m \in Message_decode(bytes)},
           OnlyOr(UNION {process_v3(a, m, bytes) : m \in V3Message_decode(bytes)}, <<a, {}>>))

-----------------------------------------------------------------------------
(* The manager. *)

Manager_v2c(community) ==
    [community |-> {community}, username |-> <<>>, engine_id |-> <<>>, boots |-> 0, time |-> 0,
     keys |-> AgentUser(<<>>, [auth_proto |-> "None", priv_proto |-> "None"]), salt |-> 0, msg_id |-> 1, request_id |-> 1]
Manager_v3(name, engine_id, u) ==
    [Manager_v2c(<<>>) EXCEPT !.community = {}, !.username = name, !.engine_id = engine_id, !.keys = AgentUser(engine_id, u)]
MAX_SIZE == 65507
\* The datagram of a request, with the manager that sent it.
encode_request(g, req) ==
    LET private == g.keys.priv_proto # "None"
        scoped == Scoped(g.engine_id, <<>>, req)
        flags == (IF g.keys.auth_proto # "None" THEN 1 ELSE 0) + (IF private THEN 2 ELSE 0)
        m == Header(g.msg_id, MAX_SIZE, flags,
                    Usm(g.engine_id, g.boots, g.time, g.username, IF private THEN Salt(g.salt) ELSE Zeros(8)),
                    IF private THEN "Encrypted" ELSE "Plain",
                    IF private THEN encrypt_scoped(encode_scoped(scoped), g.keys.priv_key, g.keys.priv_proto, g.boots, g.time, Salt(g.salt))
                    ELSE scoped)
    IN  IF g.community # {}
        THEN <<g, Message_encode([version |-> "V2c", community |-> CHOOSE c \in g.community : TRUE, kind |-> "Pdu", data |-> req])>>
        ELSE <<[g EXCEPT !.msg_id = @ + 1, !.salt = IF private THEN @ + 1 ELSE @],
               V3Message_encode_signed(m, IF g.keys.auth_proto = "None" THEN {} ELSE {g.keys.auth_key}, g.keys.auth_proto)>>
Request(g, type, status, index, binds) ==
    encode_request([g EXCEPT !.request_id = @ + 1], Pdu(type, g.request_id, status, index, binds))
Asked(oid) == <<oid, <<"Integer", 0>>>>
build_get(g, oid) == Request(g, "GetRequest", 0, 0, <<Asked(oid)>>)
build_get_next(g, oid) == Request(g, "GetNextRequest", 0, 0, <<Asked(oid)>>)
build_set(g, vb) == Request(g, "SetRequest", 0, 0, <<vb>>)
build_get_bulk(g, repeaters, others, n) ==
    LET oids == others \o repeaters
    IN  Request(g, "GetBulkRequest", Len(others), n, [i \in DOMAIN oids |-> Asked(oids[i])])
build_discovery_request(g, oid) ==
    <<[g EXCEPT !.request_id = @ + 1, !.msg_id = @ + 1],
      V3Message_encode(Header(g.msg_id, MAX_SIZE, 4, Usm(<<>>, 0, 0, <<>>, Zeros(8)), "Plain",
                              Scoped(<<>>, <<>>, Pdu("GetRequest", g.request_id, 0, 0, <<Asked(oid)>>))))>>
\* The manager afterwards and the bindings of the answer.
parse_response(g, bytes) ==
    LET v3(m) ==
            LET synced == IF m.usm.engine_id = <<>> THEN g
                          ELSE [g EXCEPT !.boots = m.usm.boots, !.time = m.usm.time, !.engine_id = m.usm.engine_id]
                plain == IF m.kind = "Plain" THEN {m.data}
                         ELSE UNION {decode_scoped(p) : p \in decrypt_scoped(m.data, g.keys.priv_key, g.keys.priv_proto, m.usm.boots,
                                                                             m.usm.time, m.usm.priv_parameters)}
            IN  IF auth(m) /\ ~verify_auth(bytes, g.keys.auth_key, g.keys.auth_proto) THEN <<g, {}>>
                ELSE <<synced, {s.pdu.varbinds : s \in plain}>>
    IN  OnlyOr({<<g, IF m.kind = "Pdu" THEN {m.data.varbinds} ELSE {}>> : m \in Message_decode(bytes)},
               OnlyOr({v3(m) : m \in V3Message_decode(bytes)}, <<g, {}>>))

-----------------------------------------------------------------------------
(* What is written is read; a walk lists the objects. *)

Oids == {<<1, 3, 6, 1>>, <<0, 39, 127, 128>>, <<2, 47, 16383, 16384>>, <<2, 999, 0>>, <<1, 0, 268435455, 268435456>>}
Numbers == {0, 1, -1, 127, 128, -128, -129, 32767, 32768, -32768, -32769, 2147483647, -2147483647}
\* Every unsigned number whose first octet leaves the sign bit free, and the whole range from 2^31 on.
SoundWords == {Words(n) : n \in {0, 127, 256, 32767, 65536, 8388607, 16777216, 2147483647}} \union {<<32768, 0>>, <<65535, 65535>>}
AllWords == SoundWords \union {Words(n) : n \in {128, 200, 32768, 65535, 8388608}}
ValuesWith(words) ==
    {<<"Integer", n>> : n \in Numbers} \union {<<"ObjectId", o>> : o \in Oids}
      \union {<<k, [i \in 1 .. n |-> 7]>> : k \in {"OctetString", "Opaque"}, n \in {0, 1, 127, 128, 256}}
      \union {<<"IpAddress", <<192, 0, 2, 1>>>>} \union {<<k, <<>>>> : k \in {"NoSuchObject", "NoSuchInstance", "EndOfMibView"}}
      \union {<<k, w>> : k \in {"Counter32", "Gauge32", "TimeTicks"}, w \in words}
ValueReads(v) ==
    /\ UNION {Value_decode(t[1], t[2]) : t \in read_tlv(Value_encode(v), 1)} = {v}
    /\ Message_decode(Message_encode([version |-> "V1", community |-> <<1>>, kind |-> "Pdu",
            data |-> Pdu("Report", 1, 0, 0, <<<<<<1, 3>>, v>>>>)])) # {}
Binds == <<<<<<1, 3, 6>>, <<"Integer", 128>>>>, <<<<2, 999>>, <<"NoSuchObject", <<>>>>>>>>
Pdus == {Pdu(k, n, 0, 1, b) : k \in DOMAIN PduType, n \in {0, -129}, b \in {<<>>, Binds}}
Trap == [enterprise |-> <<1, 3, 6>>, agent_address |-> <<10, 0, 0, 1>>, generic_trap |-> 6, specific_trap |-> 1,
         time_stamp |-> <<1, 2>>, varbinds |-> Binds]
V3Samples ==
    {Header(n, MAX_SIZE, 4, Usm(<<1, 2>>, 128, n, <<5>>, Salt(n)), "Plain", Scoped(<<1>>, <<>>, p))
        : n \in {0, 65536}, p \in {x \in Pdus : x.request_id = 0}}
      \union {Header(7, 484, 3, Usm(<<>>, 0, 0, <<>>, Salt(1)), "Encrypted", [i \in 1 .. n |-> 48]) : n \in {0, 300}}
SnmpSamples ==
    {<<"value", v>> : v \in ValuesWith(SoundWords)} \union {<<"v3", m>> : m \in V3Samples}
      \union {<<"message", [version |-> v, community |-> <<9, 9>>, kind |-> "Pdu", data |-> p]>> : v \in {"V1", "V2c"}, p \in Pdus}
      \union {<<"message", [version |-> "V1", community |-> <<>>, kind |-> "TrapV1", data |-> Trap]>>}
\* What is written as a value or a message is read as that value or message.
SnmpReads(s) ==
    CASE s[1] = "value" -> ValueReads(s[2])
      [] s[1] = "message" -> Message_decode(Message_encode(s[2])) = {s[2]}
      [] s[1] = "v3" -> V3Message_decode(V3Message_encode(s[2])) = {s[2]}
\* Every number: TLC refutes ValueReads for the words whose first octet has the sign bit.
CounterSamples == ValuesWith(AllWords)

\* One request and its answer: the manager, the agent and the bindings afterwards.
Exchange(sent, a) ==
    CHOOSE e \in UNION {IF done[2] = {} THEN {<<sent[1], done[1], {}>>}
                         ELSE {<<r[1], done[1], r[2]>> : r \in {parse_response(sent[1], b) : b \in done[2]}}
                         : done \in {process(a, sent[2])}} : TRUE
\* A manager lists the objects of an agent one name after another.
RECURSIVE Walk(_, _, _, _)
Walk(g, a, oid, n) ==
    IF n = 0 THEN {<<>>}
    ELSE UNION {IF e[3] = {} THEN {<<"refused">>}
                ELSE UNION {IF b[1][2][1] = "NoSuchObject" THEN {<<>>}
                            ELSE {<<b[1]>> \o rest : rest \in Walk(e[1], e[2], b[1][1], n - 1)} : b \in e[3]}
                : e \in {Exchange(build_get_next(g, oid), a)}}
Engine == <<128, 0, 4, 12, 5>>
UserName == <<97>>
Objects == {<<1, 3, 6, 1>>, <<1, 3, 6, 1, 0>>, <<1, 3, 6, 128>>, <<1, 4>>}
Users ==
    {[auth_proto |-> x[1], priv_proto |-> x[2], auth_password |-> <<1, 2, 3>>, priv_password |-> <<4, 5>>]
        : x \in {<<"None", "None">>, <<"Md5", "None">>, <<"Md5", "Des">>, <<"Sha1", "Aes">>}}
Listed(mib) == SortSeq(SetToSeq({<<o, mib[o]>> : o \in DOMAIN mib}), LAMBDA x, y : Less(x[1], y[1]))
MibOf(names) == [o \in names |-> <<"OctetString", o>>]
\* After an engine discovery and a Set, by a user of any kind and by a community.
WalkSamples == {<<names, u>> : names \in SUBSET Objects, u \in {<<x>> : x \in Users} \union {<<>>}}
Change == <<<<1, 3, 6, 1, 0>>, <<"Integer", 300>>>>
AgentOf(s) ==
    LET a == set_engine_time(Agent_new(MibOf(s[1]), Engine), 1, 200) IN IF s[2] = <<>> THEN a ELSE add_user(a, UserName, s[2][1])
ManagerOf(s) == IF s[2] = <<>> THEN Manager_v2c(<<112>>) ELSE Manager_v3(UserName, Engine, s[2][1])
Built(g, step) ==
    CASE step = "discover" -> build_discovery_request(g, <<1, 3>>)
      [] step = "set" -> build_set(g, Change)
      [] step = "bulk" -> build_get_bulk(g, <<<<1, 0>>>>, <<Change[1]>>, 2)
      [] step = "get" -> build_get(g, Change[1])
\* The manager and the agent after some requests, with the answers.
Told(e, answers) == <<e[1], e[2], Append(answers, e[3])>>
Talk(g, a, steps) == FoldLeft(LAMBDA t, step : Told(Exchange(Built(t[1], step), t[2]), t[3]), <<g, a, <<>>>>, steps)
\* After these requests a walk names every object of the agent once and in order, and the Set is seen by a Get and a
\* GetBulk (manager.rs, agent.rs).
WalkLists(s) ==
    LET list == Listed(set(MibOf(s[1]), Change))
        steps == (IF s[2] = <<>> THEN <<>> ELSE <<"discover">>) \o <<"set", "bulk", "get">>
    IN  \E t \in {Talk(ManagerOf(s), AgentOf(s), steps)} :
            /\ s[2] # <<>> => t[1].engine_id = Engine /\ t[1].boots = 1 /\ t[1].time = 200
            /\ t[3][Len(steps) - 1] = {<<Change>> \o SubSeq(list, 1, IF Len(list) < 2 THEN Len(list) ELSE 2)}
            /\ t[3][Len(steps)] = {<<Change>>}
            /\ Walk(t[1], t[2], <<1, 0>>, Len(list) + 1) = {list}
=============================================================================
