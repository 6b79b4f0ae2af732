------------------------------ MODULE KrbTypes ------------------------------
(***************************************************************************)
(* tpt-kerberos: the DER form of the protocol's messages.  A TLV is a pair *)
(* of its tag octet and its content: octets, characters and times of a     *)
(* primitive value are kept as they are, a constructed or implicitly       *)
(* tagged value holds the sequence of its TLVs.  An i32 or a u32 is the    *)
(* tuple of its four octets.  A decoder gives a set: of the one value it   *)
(* reads, or empty where the code returns an error.  An optional field is  *)
(* a sequence of at most one value.                                        *)
(***************************************************************************)
EXTENDS Integers, FiniteSets, SequencesExt

SEQUENCE == 48
SET == 49
INTEGER == 2
BIT_STRING == 3
OCTET_STRING == 4
OID == 6
ENUMERATED == 10
GENERALIZED_TIME == 24
GENERAL_STRING == 27
app_tag(n) == 96 + n
ctx_primitive(n) == 128 + n
ctx_constructed(n) == 160 + n

\* enc_len: short form, or the number of octets and the length without leading zeros.
enc_len(n) ==
    LET bytes == IF n < 256 THEN <<n>> ELSE IF n < 65536 THEN <<n \div 256, n % 256>>
                 ELSE <<n \div 65536, (n \div 256) % 256, n % 256>>
    IN  IF n < 128 THEN <<n>> ELSE <<128 + Len(bytes)>> \o bytes
\* The length a DER reader (the der crate) takes from octets, as a set.
der_len(s) ==
    CASE s[1] < 128 -> {s[1]}
      [] s[1] \in 129 .. 131 ->
            LET n == FoldLeft(LAMBDA a, b : 256 * a + b, 0, SubSeq(s, 2, s[1] - 127))
            IN  {x \in {n} : x >= 128 /\ s[2] # 0}
      [] OTHER -> {}

tlv(tag, content) == <<tag, content>>
ctx(n, x) == tlv(ctx_constructed(n), <<x>>)
implicit_octet_string(n, x) == tlv(ctx_primitive(n), <<x>>)
sequence(parts) == tlv(SEQUENCE, parts)
octet_string(x) == tlv(OCTET_STRING, x)
kerberos_string(x) == tlv(GENERAL_STRING, x)

\* Leading zeros go, and one comes back before an octet that would read as a sign.
Stripped(b) == SelectSeq([i \in 1 .. 4 |-> <<i, b[i]>>], LAMBDA x : x[1] = 4 \/ \E j \in 1 .. x[1] : b[j] # 0)
\* Mutant: a high first octet is written as it is.
integer_be_NoSign(b) == tlv(INTEGER, [i \in DOMAIN Stripped(b) |-> Stripped(b)[i][2]])
integer_be(b) ==
    LET v == [i \in DOMAIN Stripped(b) |-> Stripped(b)[i][2]]
    IN  tlv(INTEGER, IF v[1] >= 128 THEN <<0>> \o v ELSE v)

\* from_der of a value, and the readers of the primitive types.
One(tlvs) == {tlvs[i] : i \in {j \in DOMAIN tlvs : Len(tlvs) = 1}}
peel_explicit(a) == IF a[1] \in 160 .. 191 THEN One(a[2]) ELSE {a}
Tagged(tag, a) == {x \in {a} : x[1] = tag}
Contents(tag, a) == {x[2] : x \in Tagged(tag, a)}
read_kerberos_string(a) == UNION {Contents(GENERAL_STRING, x) : x \in peel_explicit(a)}
read_bit_string_u32(a) == UNION {Contents(BIT_STRING, x) : x \in peel_explicit(a)}
Filled(v, with) == [i \in 1 .. 4 |-> IF i <= 4 - Len(v) THEN with ELSE v[i - (4 - Len(v))]]
decode_int32(a) ==
    UNION {{Filled(v, IF v[1] >= 128 THEN 255 ELSE 0) : v \in {w \in Contents(INTEGER, x) : Len(w) <= 4}} : x \in peel_explicit(a)}
decode_u32(a) ==
    LET cut(v) == IF Len(v) = 5 /\ v[1] = 0 THEN Tail(v) ELSE v
    IN  UNION {{Filled(cut(v), 0) : v \in {w \in Contents(INTEGER, x) : Len(cut(w)) <= 4}} : x \in peel_explicit(a)}

-----------------------------------------------------------------------------
(* Times: seconds of the epoch as a calendar date. *)

\* Mutant: the year of January and February is the one the March-based count gives.
days_to_ymd_NoCarry(days) ==
    LET z == days + 719468
        era == z \div 146097
        doe == z - era * 146097
        yoe == (doe - doe \div 1460 + doe \div 36524 - doe \div 146096) \div 365
        doy == doe - (365 * yoe + yoe \div 4 - yoe \div 100)
        mp == (5 * doy + 2) \div 153
    IN  <<yoe + era * 400, IF mp < 10 THEN mp + 3 ELSE mp - 9, doy - (153 * mp + 2) \div 5 + 1>>
days_to_ymd(days) ==
    LET z == days + 719468
        era == z \div 146097
        doe == z - era * 146097
        yoe == (doe - doe \div 1460 + doe \div 36524 - doe \div 146096) \div 365
        y == yoe + era * 400
        doy == doe - (365 * yoe + yoe \div 4 - yoe \div 100)
        mp == (5 * doy + 2) \div 153
        d == doy - (153 * mp + 2) \div 5 + 1
        m == IF mp < 10 THEN mp + 3 ELSE mp - 9
    IN  <<IF m <= 2 THEN y + 1 ELSE y, m, d>>
epoch_to_ymdhms(t) == days_to_ymd(t \div 86400) \o <<(t % 86400) \div 3600, (t % 3600) \div 60, t % 60>>
kerberos_time(t) == tlv(GENERALIZED_TIME, epoch_to_ymdhms(t))

is_leap(y) == (y % 4 = 0 /\ y % 100 # 0) \/ y % 400 = 0
MonthDays == <<31, 28, 31, 30, 31, 30, 31, 31, 30, 31, 30, 31>>
ymd_to_days(year, month, day) ==
    LET days == 365 * (year - 1970) + Cardinality({y \in 1970 .. year - 1 : is_leap(y)})
        md == FoldLeft(+, 0, SubSeq(MonthDays, 1, month - 1)) + (IF month > 2 /\ is_leap(year) THEN 1 ELSE 0)
    IN  days + md + day - 1
\* Four digits of the year are read; a longer text is refused.
read_kerberos_time(a) ==
    UNION {{ymd_to_days(d[1], d[2], d[3]) * 86400 + d[4] * 3600 + d[5] * 60 + d[6] :
                d \in {e \in Contents(GENERALIZED_TIME, x) : e[1] <= 9999}} : x \in peel_explicit(a)}

-----------------------------------------------------------------------------
(* The parts messages are made of. *)

\* PrincipalName::decode of the first of the TLVs.
PrincipalName_encode(p) ==
    sequence(<<integer_be(p.name_type), sequence([i \in DOMAIN p.name_string |-> kerberos_string(p.name_string[i])])>>)
\* Strings that are all read, in order.
AllOf(tlvs, Read(_)) ==
    {[i \in DOMAIN tlvs |-> CHOOSE x \in Read(tlvs[i]) : TRUE] :
        u \in {t \in {tlvs} : \A i \in DOMAIN t : Read(t[i]) # {}}}
PrincipalName_decode(tlvs) ==
    UNION {{[name_type |-> t, name_string |-> s] :
                t \in decode_int32(q[1]), s \in UNION {AllOf(ns, read_kerberos_string) : ns \in Contents(SEQUENCE, q[2])}} :
           q \in UNION {{s \in Contents(SEQUENCE, tlvs[i]) : Len(s) >= 2} : i \in {j \in DOMAIN tlvs : j = 1}}}

\* A type and octets: PA-DATA, addresses, authorization data, keys, checksums, transited encodings.
Pair_encode(p) == sequence(<<integer_be(p[1]), octet_string(p[2])>>)
Pair_decode(a) ==
    UNION {{<<t, v>> : t \in decode_int32(q[1]), v \in Contents(OCTET_STRING, q[2])} :
           q \in {s \in Contents(SEQUENCE, a) : Len(s) >= 2}}
Pairs_encode(list) == [i \in DOMAIN list |-> Pair_encode(list[i])]

\* A SET OF is written in the order of its encodings: here of types, of one octet.
set_of(list) == tlv(SET, SortSeq(Pairs_encode(list), LAMBDA x, y : x[2][1][2][1] < y[2][1][2][1]))
decode_pa_data(a) == UNION {AllOf(c, Pair_decode) : c \in Contents(SET, a)}

EncryptedData_encode(d) ==
    sequence(<<integer_be(d.etype)>> \o [i \in DOMAIN d.kvno |-> integer_be(d.kvno[i])] \o <<octet_string(d.cipher)>>)
\* The last of the integers and of the octet strings that follow count; an empty cipher is refused.
EncryptedData_decode(a) ==
    LET last(q, tag, else) == LET is == {i \in 2 .. Len(q) : q[i][1] = tag}
                              IN  IF is = {} THEN else ELSE q[CHOOSE i \in is : \A j \in is : j <= i]
        kvno(q) == LET k == last(q, INTEGER, <<>>) IN IF k = <<>> THEN {<<>>} ELSE {<<v>> : v \in decode_u32(k)}
    IN  UNION {{[etype |-> t, kvno |-> k, cipher |-> c] :
                    t \in decode_int32(q[1]), k \in kvno(q), c \in {last(q, OCTET_STRING, octet_string(<<>>))[2]} \ {<<>>}} :
               q \in {s \in UNION {Contents(SEQUENCE, x) : x \in One(a[2])} :
                        Len(s) > 0 /\ \A i \in 2 .. Len(s) : s[i][1] \in {INTEGER, OCTET_STRING}}}

Ticket_encode(t) ==
    tlv(app_tag(1), <<sequence(<<integer_be(t.tkt_vno), kerberos_string(t.realm), PrincipalName_encode(t.sname),
                                 implicit_octet_string(3, EncryptedData_encode(t.enc_part))>>)>>)
decode_ticket_value(value) ==
    UNION {{[tkt_vno |-> v, realm |-> r, sname |-> n, enc_part |-> e] :
                v \in decode_int32(q[1]), r \in read_kerberos_string(q[2]), n \in PrincipalName_decode(<<q[3]>>),
                e \in UNION {EncryptedData_decode(x) : x \in Tagged(ctx_primitive(3), q[4])}} :
           q \in {s \in UNION {Contents(SEQUENCE, x) : x \in One(value)} : Len(s) >= 4}}
decode_ticket(a) == UNION {decode_ticket_value(v) : v \in Contents(app_tag(1), a)}
\* decode_tickets is handed the field [11] and expects [0].
decode_tickets(a) ==
    UNION {UNION {AllOf(s, decode_ticket) : s \in Contents(SEQUENCE, x)} : x \in UNION {One(v) : v \in Contents(ctx_constructed(0), a)}}

-----------------------------------------------------------------------------
(* Messages: a table gives the fields in the order they are written, the   *)
(* tag and the kind of each.                                               *)

Write(kind, v) ==
    CASE kind \in {"flags", "reqFlags"} -> tlv(BIT_STRING, v)
      [] kind = "string" -> kerberos_string(v)
      [] kind = "time" -> kerberos_time(v)
      [] kind \in {"i32", "u32"} -> integer_be(v)
      [] kind = "octets" -> octet_string(v)
      [] kind = "name" -> PrincipalName_encode(v)
      [] kind \in {"key", "checksum", "plain key", "transited"} -> Pair_encode(v)
      [] kind = "pairs" -> sequence(Pairs_encode(v))
      [] kind = "encrypted" -> EncryptedData_encode(v)
      [] kind = "ticket" -> Ticket_encode(v)[2][1]
      [] kind = "etypes" -> sequence([i \in DOMAIN v |-> integer_be(v[i])])
      [] kind = "tickets" -> sequence([i \in DOMAIN v |-> Ticket_encode(v[i])])
      [] kind = "last_req" -> sequence([i \in DOMAIN v |-> sequence(<<integer_be(v[i][1]), kerberos_time(v[i][2])>>)])
      [] kind = "padata" -> set_of(v)
      [] kind = "oid" -> tlv(OID, v)
      [] kind = "oids" -> sequence([i \in DOMAIN v |-> tlv(OID, v[i])])
      [] kind = "enum" -> tlv(ENUMERATED, v)

\* The value of a field whose TLV is a.  The etypes of a request are read from inside the field's tag.
Read(kind, a) ==
    LET inner(tag) == UNION {Contents(tag, x) : x \in One(a[2])}
        lr(s) == UNION {{<<t, v>> : t \in decode_int32(q[1]), v \in read_kerberos_time(q[2])} :
                        q \in {c \in Contents(SEQUENCE, s) : Len(c) >= 2}}
    IN  CASE kind = "flags" -> read_bit_string_u32(a)
          [] kind = "reqFlags" -> {a[2][1][2]}
          [] kind = "string" -> read_kerberos_string(a)
          [] kind = "time" -> read_kerberos_time(a)
          [] kind = "i32" -> decode_int32(a)
          [] kind = "u32" -> decode_u32(a)
          [] kind = "octets" -> Contents(OCTET_STRING, a[2][1])
          [] kind = "name" -> PrincipalName_decode(a[2])
          [] kind \in {"key", "checksum", "transited"} -> UNION {Pair_decode(x) : x \in One(a[2])}
          [] kind = "plain key" -> Pair_decode(a)
          [] kind = "pairs" -> UNION {AllOf(s, Pair_decode) : s \in inner(SEQUENCE)}
          [] kind = "encrypted" -> EncryptedData_decode(a)
          [] kind = "ticket" -> decode_ticket_value(a[2])
          [] kind = "etypes" -> AllOf(a[2], decode_int32)
          [] kind = "tickets" -> decode_tickets(a)
          [] kind = "last_req" -> UNION {AllOf(s, lr) : s \in inner(SEQUENCE)}
          [] kind = "padata" -> decode_pa_data(a)
          [] kind = "oid" -> inner(OID)
          [] kind = "oids" -> UNION {AllOf(s, LAMBDA o : Contents(OID, o)) : s \in inner(SEQUENCE)}
          [] kind = "enum" -> {v \in {a[2][1][2]} : v \in 0 .. 3}

Req(f, t, k) == [f |-> f, t |-> t, k |-> k, opt |-> FALSE]
Opt(f, t, k) == [f |-> f, t |-> t, k |-> k, opt |-> TRUE]
Encode(table, r) ==
    FlattenSeq([i \in DOMAIN table |->
        LET e == table[i]
            put(v) == IF e.t >= app_tag(1) THEN tlv(e.t, <<Write(e.k, v)>>) ELSE Write(e.k, v)
        IN  IF e.opt THEN [j \in DOMAIN r[e.f] |-> put(r[e.f][j])] ELSE <<put(r[e.f])>>])
\* The loop over the fields: one whose tag the table lacks is an error, the last of a tag counts.
Decode(table, tlvs, blank) ==
    FoldLeft(LAMBDA acc, a :
                UNION {{[r EXCEPT ![e.f] = IF e.opt THEN <<v>> ELSE v] : r \in acc, v \in Read(e.k, a)} :
                       e \in {x \in Range(table) : x.t = a[1]}},
             {blank}, tlvs)

NoName == [name_type |-> <<0, 0, 0, 0>>, name_string |-> <<>>]
Zero == <<0, 0, 0, 0>>
\* The value a decoder starts from.
Blank(table) ==
    [f \in {table[i].f : i \in DOMAIN table} |->
        LET e == CHOOSE x \in Range(table) : x.f = f
        IN  IF e.opt THEN <<>>
            ELSE CASE e.k \in {"flags", "u32", "i32"} -> Zero
                   [] e.k = "time" -> 0
                   [] e.k = "name" -> NoName
                   [] e.k \in {"key", "plain key", "transited"} -> <<Zero, <<>>>>
                   [] OTHER -> <<>>]

KdcReqBody ==
    <<Req("kdc_options", ctx_constructed(0), "flags"), Opt("cname", ctx_constructed(1), "name"),
      Req("realm", ctx_constructed(2), "string"), Opt("sname", ctx_constructed(3), "name"),
      Opt("from", ctx_constructed(4), "time"), Req("till", ctx_constructed(5), "time"),
      Opt("rtime", ctx_constructed(6), "time"), Req("nonce", ctx_constructed(7), "u32"),
      Req("etype", ctx_constructed(8), "etypes"), Opt("addresses", ctx_constructed(9), "pairs"),
      Opt("enc_authorization_data", ctx_primitive(10), "encrypted"), Opt("additional_tickets", ctx_constructed(11), "tickets")>>
EncTicketPart ==
    <<Req("flags", BIT_STRING, "flags"), Req("key", ctx_primitive(0), "key"), Req("crealm", ctx_constructed(1), "string"),
      Req("cname", ctx_constructed(2), "name"), Req("transited", ctx_constructed(3), "transited"),
      Req("authtime", ctx_constructed(4), "time"), Opt("starttime", ctx_constructed(5), "time"),
      Req("endtime", ctx_constructed(6), "time"), Opt("renew_till", ctx_constructed(7), "time"),
      Opt("caddr", ctx_constructed(8), "pairs"), Opt("authorization_data", ctx_constructed(9), "pairs")>>
EncKdcRepPart ==
    <<Req("key", SEQUENCE, "plain key"), Req("last_req", ctx_constructed(0), "last_req"), Req("nonce", ctx_constructed(1), "u32"),
      Opt("key_expiration", ctx_constructed(2), "time"), Req("flags", ctx_constructed(3), "flags"),
      Req("authtime", ctx_constructed(4), "time"), Opt("starttime", ctx_constructed(5), "time"),
      Req("endtime", ctx_constructed(6), "time"), Opt("renew_till", ctx_constructed(7), "time"),
      Req("srealm", ctx_constructed(8), "string"), Req("sname", ctx_constructed(9), "name"), Opt("caddr", ctx_constructed(10), "pairs")>>
AuthenticatorFields ==
    <<Opt("checksum", ctx_primitive(3), "checksum"), Req("cusec", ctx_constructed(4), "u32"), Req("ctime", ctx_constructed(5), "time"),
      Opt("subkey", ctx_primitive(6), "key"), Opt("seq_number", ctx_constructed(7), "u32"),
      Opt("authorization_data", ctx_constructed(8), "pairs")>>
KdcRepFields ==
    <<Opt("padata", SET, "padata"), Req("crealm", ctx_constructed(1), "string"), Opt("cname", ctx_constructed(2), "name"),
      Opt("ticket", app_tag(1), "ticket"), Opt("enc_part", ctx_primitive(6), "encrypted")>>
ApReqFields ==
    <<Req("ap_options", ctx_constructed(0), "flags"), Opt("ticket", app_tag(1), "ticket"),
      Opt("authenticator", ctx_primitive(2), "encrypted")>>
EncApRepPart ==
    <<Req("ctime", ctx_constructed(0), "time"), Req("cusec", ctx_constructed(1), "u32"), Opt("subkey", ctx_primitive(2), "key"),
      Opt("seq_number", ctx_constructed(3), "u32")>>
NegTokenInit ==
    <<Req("mech_types", ctx_constructed(0), "oids"), Opt("req_flags", ctx_constructed(1), "reqFlags"),
      Opt("mech_token", ctx_constructed(2), "octets"), Opt("mech_list_mic", ctx_constructed(3), "octets")>>
NegTokenResp ==
    <<Opt("neg_state", ctx_constructed(0), "enum"), Opt("supported_mech", ctx_constructed(1), "oid"),
      Opt("response_token", ctx_constructed(2), "octets"), Opt("mech_list_mic", ctx_constructed(3), "octets")>>

\* A SEQUENCE of the fields of a table, and its decoder on a cursor's TLVs.
Record_encode(table, r) == sequence(Encode(table, r))
Record_decode(table, tlvs) ==
    UNION {Decode(table, s, Blank(table)) : s \in UNION {Contents(SEQUENCE, tlvs[i]) : i \in {j \in DOMAIN tlvs : j = 1}}}

\* An APPLICATION message: two integers, then the fields.
Message(app, x, y, rest) == tlv(app_tag(app), <<sequence(<<integer_be(x), integer_be(y)>> \o rest)>>)
\* The SEQUENCE in an APPLICATION message, of at least two TLVs, as a set.
Opened(app, a) ==
    {s \in UNION {Contents(SEQUENCE, x) : x \in UNION {One(v) : v \in Contents(app_tag(app), a)}} : Len(s) >= 2}
After(s, n) == SubSeq(s, n + 1, Len(s))

KdcReq_encode(app, r) ==
    Message(app, r.pvno, r.msg_type, [i \in DOMAIN r.padata |-> set_of(r.padata[i])] \o <<Record_encode(KdcReqBody, r.req_body)>>)
\* The body's decoder is given the content of the SEQUENCE it looks for.
KdcReq_decode(app, a) ==
    LET read(r, x) ==
            CASE x[1] = SET -> {[r EXCEPT !.padata = <<p>>] : p \in decode_pa_data(x)}
              [] x[1] = SEQUENCE -> {[r EXCEPT !.req_body = <<b>>] : b \in Record_decode(KdcReqBody, x[2])}
              [] OTHER -> {}
    IN  UNION {{[q EXCEPT !.req_body = q.req_body[1]] :
                    q \in {p \in FoldLeft(LAMBDA acc, x : UNION {read(r, x) : r \in acc},
                                          {[pvno |-> v, msg_type |-> t, padata |-> <<>>, req_body |-> <<>>] :
                                              v \in decode_int32(s[1]), t \in decode_int32(s[2])}, After(s, 2)) : p.req_body # <<>>}} :
               s \in Opened(app, a)}

KdcRep_encode(app, r) == Message(app, r.pvno, r.msg_type, Encode(KdcRepFields, r.fields))
KdcRep_decode(app, a) ==
    UNION {{[pvno |-> v, msg_type |-> t, fields |-> f] :
                v \in decode_int32(s[1]), t \in decode_int32(s[2]),
                f \in {g \in Decode(KdcRepFields, After(s, 2), Blank(KdcRepFields)) :
                            g.cname # <<>> /\ g.ticket # <<>> /\ g.enc_part # <<>>}} : s \in Opened(app, a)}
ApReq_encode(r) == Message(14, r.pvno, r.msg_type, Encode(ApReqFields, r.fields))
ApReq_decode(a) ==
    UNION {{[pvno |-> v, msg_type |-> t, fields |-> f] :
                v \in decode_int32(s[1]), t \in decode_int32(s[2]),
                f \in {g \in Decode(ApReqFields, After(s, 2), Blank(ApReqFields)) : g.ticket # <<>> /\ g.authenticator # <<>>}} :
           s \in Opened(14, a)}
ApRep_encode(r) == Message(15, r.pvno, r.msg_type, <<implicit_octet_string(0, EncryptedData_encode(r.enc_part))>>)
ApRep_decode(a) ==
    UNION {{[pvno |-> v, msg_type |-> t, enc_part |-> e] :
                v \in decode_int32(s[1]), t \in decode_int32(s[2]),
                e \in UNION {EncryptedData_decode(x) : x \in Tagged(ctx_primitive(0), s[3])}} :
           s \in {q \in Opened(15, a) : Len(q) >= 3}}

Authenticator_encode(r) ==
    sequence(<<integer_be(r.vno), kerberos_string(r.crealm), PrincipalName_encode(r.cname)>> \o Encode(AuthenticatorFields, r.fields))
Authenticator_decode(tlvs) ==
    UNION {{[vno |-> v, crealm |-> c, cname |-> n, fields |-> f] :
                v \in decode_int32(s[1]), c \in read_kerberos_string(s[2]), n \in PrincipalName_decode(<<s[3]>>),
                f \in Decode(AuthenticatorFields, After(s, 3), Blank(AuthenticatorFields))} :
           s \in {q \in Contents(SEQUENCE, tlvs[1]) : Len(q) >= 3}}

PaEncTsEnc_encode(r) == sequence(<<kerberos_time(r.patimestamp)>> \o [i \in DOMAIN r.pausec |-> integer_be(r.pausec[i])])
PaEncTsEnc_decode(a) ==
    UNION {{[patimestamp |-> t, pausec |-> u] :
                t \in read_kerberos_time(s[1]), u \in IF Len(s) = 1 THEN {<<>>} ELSE {<<v>> : v \in decode_u32(s[2])}} :
           s \in {q \in Contents(SEQUENCE, a) : Len(q) >= 1}}

\* The first octet string of an entry is the salt, whichever it was written as.
EtypeInfo2_encode(list) ==
    sequence([i \in DOMAIN list |-> sequence(<<integer_be(list[i].etype)>>
        \o [j \in DOMAIN list[i].salt |-> octet_string(list[i].salt[j])]
        \o [j \in DOMAIN list[i].s2kparams |-> octet_string(list[i].s2kparams[j])])])
EtypeInfo2_decode(a) ==
    LET entry(x) == UNION {{[etype |-> t, salt |-> IF Len(s) > 1 THEN <<s[2][2]>> ELSE <<>>,
                             s2kparams |-> IF Len(s) > 2 THEN <<s[Len(s)][2]>> ELSE <<>>] : t \in decode_int32(s[1])} :
                           s \in {q \in Contents(SEQUENCE, x) : Len(q) >= 1 /\ \A i \in 2 .. Len(q) : q[i][1] = OCTET_STRING}}
    IN  UNION {AllOf(s, entry) : s \in Contents(SEQUENCE, a)}

\* SPNEGO: the token in its GSS-API frame, whose tags are not looked at.
to_token(table, r) == tlv(app_tag(0), <<tlv(OID, "spnego"), octet_string(<<Record_encode(table, r)>>)>>)
from_token(table, a) == UNION {Record_decode(table, s[2][2]) : s \in {q \in {a[2]} : Len(q) >= 2}}

-----------------------------------------------------------------------------
(* What the codec promises. *)

U32s == {Zero, <<0, 0, 0, 1>>, <<0, 0, 0, 128>>, <<0, 1, 0, 0>>, <<154, 188, 222, 240>>, <<255, 255, 255, 255>>}
I32s == {x \in U32s : x[1] < 128}
Days == {0, 30, 58, 59, 364, 365, 789, 790, 11015, 11016, 11017, 20000, 47540, 47541, 2932896}
Lengths == {0, 1, 127, 128, 255, 256, 65535, 65536}
Names == {NoName, [name_type |-> <<0, 0, 0, 2>>, name_string |-> <<"host", "a">>]}
Maybe(S) == {<<>>} \union {<<x>> : x \in S}
PairsOf == {<<>>, <<<<<<0, 0, 0, 2>>, <<"x">>>>>>, <<<<<<0, 0, 0, 2>>, <<"x">>>>, <<<<0, 0, 0, 19>>, <<"y">>>>>>}
Sealed == [etype : {<<0, 0, 0, 18>>}, kvno : Maybe({<<0, 0, 0, 1>>, <<255, 0, 0, 0>>}), cipher : {<<"c">>}]
Tickets == [tkt_vno : {<<0, 0, 0, 5>>}, realm : {"R"}, sname : Names, enc_part : Sealed]
T == 1700000000

KrbSamples == [n : Names, s : Sealed, k : Maybe({<<<<0, 0, 0, 18>>, <<"k">>>>}), o : Maybe({T}), p : PairsOf, u : U32s]

\* Lengths, integers and dates at the edges of the octets, of the sign and of the calendar.
KerberosNumbers ==
    /\ \A n \in Lengths : der_len(enc_len(n)) = {n}
    /\ \A x \in U32s : decode_u32(integer_be(x)) = {x}
    /\ \A x \in I32s : decode_int32(integer_be(x)) = {x}
    /\ \A d \in Days : LET y == days_to_ymd(d) IN ymd_to_days(y[1], y[2], y[3]) = d
    /\ \A t \in {0, 86399, 86400, 951782400, T} : read_kerberos_time(kerberos_time(t)) = {t}

\* Every message that the client, the KDC and a service exchange is read as it was written, with its optional
\* fields present or not.
KerberosReads(x) ==
    LET n == x.n
        s == x.s
        k == x.k
        o == x.o
        p == x.p
        u == x.u
        etp == [flags |-> u, key |-> <<<<0, 0, 0, 18>>, <<"k">>>>, crealm |-> "R", cname |-> n,
                transited |-> <<<<0, 0, 0, 1>>, <<>>>>, authtime |-> T, starttime |-> o, endtime |-> T, renew_till |-> o,
                caddr |-> <<p>>, authorization_data |-> <<p>>]
        ek == [key |-> <<<<0, 0, 0, 18>>, <<"k">>>>, last_req |-> [i \in DOMAIN o |-> <<<<0, 0, 0, 1>>, T>>], nonce |-> u,
               key_expiration |-> o, flags |-> u, authtime |-> T, starttime |-> o, endtime |-> T, renew_till |-> o,
               srealm |-> "R", sname |-> n, caddr |-> <<p>>]
        au == [vno |-> <<0, 0, 0, 5>>, crealm |-> "R", cname |-> n,
               fields |-> [checksum |-> k, cusec |-> u, ctime |-> T, subkey |-> k, seq_number |-> <<u>>, authorization_data |-> <<p>>]]
        earp == [ctime |-> T, cusec |-> u, subkey |-> k, seq_number |-> <<u>>]
        t == [tkt_vno |-> <<0, 0, 0, 5>>, realm |-> "R", sname |-> n, enc_part |-> s]
        rep == [pvno |-> <<0, 0, 0, 5>>, msg_type |-> <<0, 0, 0, 11>>,
                fields |-> [padata |-> <<p>>, crealm |-> "R", cname |-> <<n>>, ticket |-> <<t>>, enc_part |-> <<s>>]]
        ap == [pvno |-> <<0, 0, 0, 5>>, msg_type |-> <<0, 0, 0, 14>>,
               fields |-> [ap_options |-> u, ticket |-> <<t>>, authenticator |-> <<s>>]]
        aprep == [pvno |-> <<0, 0, 0, 5>>, msg_type |-> <<0, 0, 0, 15>>, enc_part |-> s]
        init == [mech_types |-> <<"krb5">>, req_flags |-> <<u>>, mech_token |-> <<p>>, mech_list_mic |-> <<>>]
        resp == [neg_state |-> <<0>>, supported_mech |-> <<"krb5">>, response_token |-> <<p>>, mech_list_mic |-> <<>>]
    IN  /\ Record_decode(EncTicketPart, <<Record_encode(EncTicketPart, etp)>>) = {etp}
        /\ Record_decode(EncKdcRepPart, <<Record_encode(EncKdcRepPart, ek)>>) = {ek}
        /\ Authenticator_decode(<<Authenticator_encode(au)>>) = {au}
        /\ Record_decode(EncApRepPart, <<Record_encode(EncApRepPart, earp)>>) = {earp}
        /\ KdcRep_decode(11, KdcRep_encode(11, rep)) = {rep}
        /\ ApReq_decode(ApReq_encode(ap)) = {ap}
        /\ ApRep_decode(ApRep_encode(aprep)) = {aprep}
        /\ PaEncTsEnc_decode(PaEncTsEnc_encode([patimestamp |-> T, pausec |-> <<u>>])) = {[patimestamp |-> T, pausec |-> <<u>>]}
        /\ from_token(NegTokenInit, to_token(NegTokenInit, init)) = {init}
        /\ from_token(NegTokenResp, to_token(NegTokenResp, resp)) = {resp}

\* An AS-REQ or TGS-REQ is read as it was written; TLC refutes it, decode_application (types.rs) reads none.
KdcReqReads ==
    \A n \in Maybe(Names), o \in Maybe({T}) :
        LET r == [pvno |-> <<0, 0, 0, 5>>, msg_type |-> <<0, 0, 0, 10>>, padata |-> <<>>,
                  req_body |-> [kdc_options |-> Zero, cname |-> n, realm |-> "R", sname |-> n, from |-> o, till |-> T, rtime |-> o,
                                nonce |-> <<18, 52, 86, 120>>, etype |-> <<<<0, 0, 0, 18>>>>, addresses |-> <<>>,
                                enc_authorization_data |-> <<>>, additional_tickets |-> <<>>]]
        IN  KdcReq_decode(10, KdcReq_encode(10, r)) = {r}
=============================================================================
