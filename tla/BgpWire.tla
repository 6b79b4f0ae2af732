------------------------------ MODULE BgpWire -------------------------------
(***************************************************************************)
(* The messages of tpt-bgp (wire.rs, attributes.rs), octet by octet.  A    *)
(* 32-bit number, an AS number among them, is its four octets.  A reader   *)
(* is a set of <<value, octets left>> pairs, the empty set being an error; *)
(* as4 says whether AS numbers take four octets on the session.            *)
(***************************************************************************)
EXTENDS WireOctets

BGP_MARKER == SubSeq([i \in 1..16 |-> 255], 1, 16)
BGP_HEADER_LEN == 19
msg_type == [Open |-> 1, Update |-> 2, Notification |-> 3, Keepalive |-> 4]
AS_TRANS == <<91, 160>>

from16(b, i) == 256 * b[i] + b[i + 1]
take(b, n) == IF Len(b) < n THEN {} ELSE {<<SubSeq(b, 1, n), From(b, n + 1)>>}

----------------------------------------------------------------------------
(* attributes.rs: AS numbers and prefixes                                  *)

fits_16bit(asn) == asn[1] = 0 /\ asn[2] = 0
to_16bit(asn) == SubSeq(asn, 3, 4)
Asn_encode(asn, as4) == IF as4 THEN asn ELSE to_16bit(asn)
Asn_decode(b, as4) == IF as4 THEN take(b, 4)
                      ELSE {<<<<0, 0>> \o r[1], r[2]>> : r \in take(b, 2)}

div_ceil8(len) == (len + 7) \div 8
\* A prefix is <<address, length in bits>>.  A mutant: a last octet in part is left out.
encode_prefix_bits_Floor(p) == <<p[2]>> \o SubSeq(p[1], 1, p[2] \div 8)
encode_prefix_bits(p) == <<p[2]>> \o SubSeq(p[1], 1, div_ceil8(p[2]))
decode_prefix(b, addr_len) ==
  IF b = <<>> \/ b[1] > 8 * addr_len THEN {}
  ELSE LET n == div_ceil8(b[1])
       IN  {<<<<r[1] \o Zeros(addr_len - n), b[1]>>, r[2]>>
            : r \in take(Tail(b), n)}
RECURSIVE Prefixes(_, _)
Prefixes(b, addr_len) ==
  IF b = <<>> THEN {<<>>}
  ELSE UNION {{<<r[1]>> \o q : q \in Prefixes(r[2], addr_len)} : r \in decode_prefix(b, addr_len)}
\* Ipv4Prefix::new: b bits of an octet in part stay, and the mask is 255 << b.
mask_in_place(addr, len) ==
  Mapped(LAMBDA i : CASE 8 * (i - 1) >= len -> 0
                      [] 8 * i > len -> LET b == len - 8 * (i - 1)
                                        IN  addr[i] - (addr[i] % 2^b)
                      [] OTHER -> addr[i],
         SubSeq([i \in 1..Len(addr) |-> i], 1, Len(addr)))

----------------------------------------------------------------------------
(* attributes.rs: AS paths, next hops, reachability                        *)

SegmentType == [Set |-> 1, Sequence |-> 2]
AsPath_encode(segments, as4) ==
  LET One(a) == Asn_encode(a, as4)
      Seg(s) == <<SegmentType[s[1]], Len(s[2])>> \o Flat(Mapped(One, s[2]))
  IN  Flat(Mapped(Seg, segments))
RECURSIVE Asns(_, _, _), AsPath_decode(_, _)
Asns(b, n, as4) ==
  IF n = 0 THEN {<<<<>>, b>>}
  ELSE UNION {{<<<<a[1]>> \o r[1], r[2]>> : r \in Asns(a[2], n - 1, as4)} : a \in Asn_decode(b, as4)}
AsPath_decode(b, as4) ==
  CASE b = <<>> -> {<<>>}
    [] Len(b) >= 2 /\ b[1] \in {1, 2} ->
         UNION {{<<<<IF b[1] = 1 THEN "Set" ELSE "Sequence", r[1]>>>> \o q : q \in AsPath_decode(r[2], as4)}
                : r \in Asns(From(b, 3), b[2], as4)}
    [] OTHER -> {}

NextHop_encode(nh) == IF nh[1] = "Ipv6LinkLocal" THEN nh[2] \o nh[3] ELSE nh[2]
NextHop_decode(b) ==
  CASE Len(b) = 4 -> <<"Ipv4", b>>
    [] Len(b) = 16 -> <<"Ipv6", b>>
    [] Len(b) = 32 -> <<"Ipv6LinkLocal", SubSeq(b, 1, 16), From(b, 17)>>
    [] OTHER -> <<"Other", b>>
AddrLen(afi) == IF afi = 2 THEN 16 ELSE 4
\* m = <<afi, safi, next hop, prefixes>>
encode_mp_reach(m) ==
  LET nh == NextHop_encode(m[3])
  IN  be16(m[1]) \o <<m[2], Len(nh)>> \o nh \o <<0>> \o Flat(Mapped(encode_prefix_bits, m[4]))
decode_mp_reach(b) ==
  IF Len(b) < 4 THEN {}
  ELSE UNION {IF r[2] = <<>> THEN {}
              ELSE {<<from16(b, 1), b[3], NextHop_decode(r[1]), q>>
                    : q \in Prefixes(Tail(r[2]), AddrLen(from16(b, 1)))}
              : r \in take(From(b, 5), b[4])}
\* m = <<afi, safi, prefixes>>
encode_mp_unreach(m) == be16(m[1]) \o <<m[2]>> \o Flat(Mapped(encode_prefix_bits, m[3]))
decode_mp_unreach(b) ==
  IF Len(b) < 3 THEN {}
  ELSE {<<from16(b, 1), b[3], q>> : q \in Prefixes(From(b, 4), AddrLen(from16(b, 1)))}

----------------------------------------------------------------------------
(* attributes.rs: path attributes, <<kind, value>>; an unknown one is      *)
(* <<"Unknown", <<type code, transitive, octets>>>>                        *)

type_code == [Origin |-> 1, AsPath |-> 2, NextHop |-> 3, MultiExitDisc |-> 4, LocalPref |-> 5,
              AtomicAggregate |-> 6, Aggregator |-> 7, Community |-> 8, OriginatorId |-> 9,
              ClusterList |-> 10, MpReachNlri |-> 14, MpUnreachNlri |-> 15]
OPTIONAL == 128
TRANSITIVE == 64
EXTENDED == 16
default_flags(a) ==
  CASE a[1] \in {"Origin", "AsPath", "NextHop", "LocalPref", "AtomicAggregate"} -> TRANSITIVE
    [] a[1] \in {"Aggregator", "Community"} -> OPTIONAL + TRANSITIVE
    [] a[1] = "Unknown" /\ a[2][2] -> OPTIONAL + TRANSITIVE
    [] OTHER -> OPTIONAL
Origins == [Igp |-> 0, Egp |-> 1, Incomplete |-> 2]
Value_encode(a, as4) ==
  LET v == a[2]
  IN  CASE a[1] = "Origin" -> <<Origins[v]>>
        [] a[1] = "AsPath" -> AsPath_encode(v, as4)
        [] a[1] = "AtomicAggregate" -> <<>>
        [] a[1] = "Aggregator" -> Asn_encode(v[1], as4) \o v[2]
        [] a[1] = "ClusterList" -> Flat(v)
        [] a[1] = "MpReachNlri" -> encode_mp_reach(v)
        [] a[1] = "MpUnreachNlri" -> encode_mp_unreach(v)
        [] a[1] = "Unknown" -> v[3]
        [] OTHER -> v
\* A mutant: the long form of the length begins one octet too late.
PathAttribute_encode_LongAt(a, as4) ==
  LET value == Value_encode(a, as4)
      code == IF a[1] = "Unknown" THEN a[2][1] ELSE type_code[a[1]]
  IN  (IF Len(value) > 256 THEN <<default_flags(a) + EXTENDED, code>> \o be16(Len(value))
       ELSE <<default_flags(a), code, Len(value) % 256>>) \o value
PathAttribute_encode(a, as4) ==
  LET value == Value_encode(a, as4)
      code == IF a[1] = "Unknown" THEN a[2][1] ELSE type_code[a[1]]
  IN  (IF Len(value) > 255 THEN <<default_flags(a) + EXTENDED, code>> \o be16(Len(value))
       ELSE <<default_flags(a), code, Len(value)>>) \o value

RECURSIVE Fours(_)
Fours(b) == IF Len(b) < 4 THEN <<>> ELSE <<SubSeq(b, 1, 4)>> \o Fours(From(b, 5))
KindOf(code) == IF \E k \in DOMAIN type_code : type_code[k] = code
                  THEN CHOOSE k \in DOMAIN type_code : type_code[k] = code ELSE "Unknown"
Value_decode(code, flags, b, as4) ==
  LET k == KindOf(code)
  IN  CASE k = "Origin" -> {o \in DOMAIN Origins : b # <<>> /\ Origins[o] = b[1]}
        [] k = "AsPath" -> AsPath_decode(b, as4)
        [] k = "AtomicAggregate" -> {<<>>}
        [] k = "Aggregator" -> UNION {{<<a[1], r[1]>> : r \in take(a[2], 4)} : a \in Asn_decode(b, as4)}
        [] k = "ClusterList" -> {Fours(b)}
        [] k = "MpReachNlri" -> decode_mp_reach(b)
        [] k = "MpUnreachNlri" -> decode_mp_unreach(b)
        [] k = "Unknown" -> {<<code, (flags \div TRANSITIVE) % 2 = 1, b>>}
        [] OTHER -> {r[1] : r \in take(b, 4)}
PathAttribute_decode(b, as4) ==
  LET extended == (b[1] \div EXTENDED) % 2 = 1
      h == IF extended THEN 4 ELSE 3
  IN  IF Len(b) < 3 \/ Len(b) < h THEN {}
      ELSE UNION {{<<<<KindOf(b[2]), v>>, r[2]>> : v \in Value_decode(b[2], b[1], r[1], as4)}
                  : r \in take(From(b, h + 1), IF extended THEN from16(b, 3) ELSE b[3])}

----------------------------------------------------------------------------
(* wire.rs: OPEN.  o = [my_asn, hold_time, bgp_id, capabilities]           *)

encode_capability(c) ==
  CASE c[1] = "MultiProtocol" -> <<1, 4>> \o be16(c[2]) \o <<0, c[3]>>
    [] c[1] = "As4" -> <<65, 4>> \o c[2]
    [] OTHER -> <<c[2], Len(c[3])>> \o c[3]
HasAs4(caps) == \E i \in DOMAIN caps : caps[i][1] = "As4"
encode_open(o, as4) ==
  LET wants_as4 == as4 \/ HasAs4(o.capabilities)
      two_byte_as == IF fits_16bit(o.my_asn) /\ ~wants_as4 THEN to_16bit(o.my_asn) ELSE AS_TRANS
      sent == IF wants_as4 /\ ~HasAs4(o.capabilities)
                THEN Append(o.capabilities, <<"As4", o.my_asn>>) ELSE o.capabilities
      caps == Flat(Mapped(encode_capability, sent))
  IN  <<4>> \o two_byte_as \o be16(o.hold_time) \o o.bgp_id \o <<Len(caps) % 256>> \o caps
Capability_decode(code, value) ==
  CASE code \in {1, 65} /\ Len(value) < 4 -> {}
    [] code = 1 -> {<<"MultiProtocol", from16(value, 1), value[4]>>}
    [] code = 65 -> {<<"As4", SubSeq(value, 1, 4)>>}
    [] OTHER -> {<<"Unknown", code, value>>}
RECURSIVE Capabilities(_)
Capabilities(b) ==
  CASE b = <<>> -> {<<>>}
    [] Len(b) < 2 -> {}
    [] OTHER -> UNION {UNION {{<<c>> \o q : q \in Capabilities(r[2])}
                              : c \in Capability_decode(b[1], r[1])} : r \in take(From(b, 3), b[2])}
\* The AS number a peer has: of the first As4 capability, else the two-octet field.
\* A mutant: the two-octet field stands for the AS whatever the capabilities say.
RealAsn_TwoOctets(two, caps) == <<0, 0>> \o two
RealAsn(two, caps) ==
  IF HasAs4(caps)
    THEN caps[CHOOSE i \in DOMAIN caps : /\ caps[i][1] = "As4"
                                         /\ \A j \in 1..(i - 1) : caps[j][1] # "As4"][2]
    ELSE <<0, 0>> \o two
decode_open(b) ==
  IF Len(b) < 10 \/ b[1] # 4 THEN {}
  ELSE UNION {{[my_asn |-> RealAsn(SubSeq(b, 2, 3), caps), hold_time |-> from16(b, 4),
                bgp_id |-> SubSeq(b, 6, 9), capabilities |-> caps] : caps \in Capabilities(r[1])}
              : r \in take(From(b, 11), b[10])}

----------------------------------------------------------------------------
(* wire.rs: UPDATE, <<withdrawn, attributes, nlri>>, and messages          *)

encode_update(u, as4) ==
  LET Attr(a) == PathAttribute_encode(a, as4)
      withdrawn == Flat(Mapped(encode_prefix_bits, u[1]))
      attrs == Flat(Mapped(Attr, u[2]))
  IN  be16(Len(withdrawn)) \o withdrawn \o be16(Len(attrs)) \o attrs
      \o Flat(Mapped(encode_prefix_bits, u[3]))
RECURSIVE Attributes(_, _)
Attributes(b, as4) ==
  IF b = <<>> THEN {<<>>}
  ELSE UNION {{<<a[1]>> \o q : q \in Attributes(a[2], as4)} : a \in PathAttribute_decode(b, as4)}
\* A field behind its length in two octets.
Field(b) == IF Len(b) < 2 THEN {} ELSE take(From(b, 3), from16(b, 1))
decode_update(b, as4) ==
  UNION {UNION {{<<p[1], p[2], p[3]>> : p \in Prefixes(w[1], 4) \X Attributes(a[1], as4) \X Prefixes(a[2], 4)}
                : a \in Field(w[2])} : w \in Field(b)}

Message_encode(m, as4) ==
  LET body == CASE m[1] = "Open" -> encode_open(m[2], as4)
                [] m[1] = "Update" -> encode_update(m[2], as4)
                [] m[1] = "Notification" -> <<m[2][1], m[2][2]>> \o m[2][3]
                [] OTHER -> <<>>
  IN  BGP_MARKER \o be16(BGP_HEADER_LEN + Len(body)) \o <<msg_type[m[1]]>> \o body
Message_decode(b, as4) ==
  IF Len(b) < BGP_HEADER_LEN \/ from16(b, 17) # Len(b) THEN {}
  ELSE LET body == From(b, BGP_HEADER_LEN + 1)
       IN  CASE b[19] = msg_type.Open -> {<<"Open", o>> : o \in decode_open(body)}
             [] b[19] = msg_type.Update -> {<<"Update", u>> : u \in decode_update(body, as4)}
             [] b[19] = msg_type.Notification ->
                  IF Len(body) < 2 THEN {} ELSE {<<"Notification", <<body[1], body[2], From(body, 3)>>>>}
             [] b[19] = msg_type.Keepalive -> {<<"Keepalive", <<>>>>}
             [] OTHER -> {}

----------------------------------------------------------------------------
(* Messages at the limits of every field                                   *)

Run(n) == SubSeq([i \in 1..n |-> i % 256], 1, n)
Keep4(n) == SubSeq(<<203, 0, 113, 255>>, 1, div_ceil8(n)) \o Zeros(4 - div_ceil8(n))
Prefixes4 == {<<Keep4(n), n>> : n \in {0, 1, 8, 9, 24, 31, 32}}
Prefixes6 == {<<Run(div_ceil8(n)) \o Zeros(16 - div_ceil8(n)), n>> : n \in {0, 47, 128}}
Low == <<0, 0, 255, 255>>
High == <<0, 1, 0, 0>>
Asn4s(as4) == IF as4 THEN {Low, High} ELSE {Low, <<0, 0, 91, 160>>}
AttributesOf(as4) ==
  {<<"Origin", o>> : o \in DOMAIN Origins}
  \union {<<"AsPath", p>> : p \in {<<>>, <<<<"Set", <<>>>>>>}
            \union {<<<<"Sequence", <<a, b>>>>, <<"Set", <<b>>>>>> : a \in Asn4s(as4), b \in Asn4s(as4)}}
  \union {<<k, <<255, 0, 1, 2>>>> : k \in {"NextHop", "MultiExitDisc", "LocalPref", "Community", "OriginatorId"}}
  \union {<<"AtomicAggregate", <<>>>>}
  \union {<<"Aggregator", <<a, <<10, 0, 0, 1>>>>>> : a \in Asn4s(as4)}
  \union {<<"ClusterList", q>> : q \in {<<>>, <<Low, High>>}}
  \union {<<"MpReachNlri", <<2, 1, nh, <<p, q>>>>>> : p \in Prefixes6, q \in Prefixes6,
            nh \in {<<"Ipv4", Run(4)>>, <<"Ipv6", Run(16)>>, <<"Ipv6LinkLocal", Run(16), Run(16)>>, <<"Other", Run(5)>>}}
  \union {<<"MpUnreachNlri", <<1, 1, <<p>>>>>> : p \in Prefixes4}
  \union {<<"Unknown", <<32, t, Run(n)>>>> : t \in BOOLEAN, n \in {0, 255, 256, 257}}
MessagesOf(as4) ==
  {<<"Keepalive", <<>>>>, <<"Notification", <<6, 0, <<>>>>>>, <<"Notification", <<3, 11, Run(9)>>>>}
  \union {<<"Open", [my_asn |-> a, hold_time |-> h, bgp_id |-> Low, capabilities |-> c]>> :
            a \in Asn4s(as4), h \in {0, 90, 65535},
            c \in {<<>>, <<<<"MultiProtocol", 2, 1>>, <<"Unknown", 2, <<>>>>>>, <<<<"Unknown", 70, Run(3)>>>>}}
  \union {<<"Update", <<<<>>, <<a>>, <<>>>>>> : a \in AttributesOf(as4)}
  \union {<<"Update", <<w, <<<<"Origin", "Igp">>, <<"NextHop", Low>>>>, <<p>>>>>> :
            w \in {<<>>} \union {<<q>> : q \in Prefixes4} \union {<<q, q>> : q \in Prefixes4}, p \in Prefixes4}
BgpSamples == {<<as4, m>> : as4 \in {TRUE}, m \in MessagesOf(TRUE)}
              \union {<<as4, m>> : as4 \in {FALSE}, m \in MessagesOf(FALSE)}
\* A message is read as it was written, but for the capability a speaker with
\* four-octet AS numbers adds to its OPEN: whatever the two-octet field holds, the
\* peer learns the real AS number.
BgpReads(x) ==
  LET m == x[2]
      got == Message_decode(Message_encode(m, x[1]), x[1])
  IN  IF m[1] = "Open" /\ x[1]
        THEN got = {<<"Open", [m[2] EXCEPT !.capabilities = Append(@, <<"As4", m[2].my_asn>>)]>>}
        ELSE got = {m}

MaskSamples == {<<<<255, a, 255, 255>>, n>> : a \in {0, 85, 170, 255}, n \in 0..32}
\* Ipv4Prefix::new, attributes.rs: no bit beyond the length of a prefix is left set.
HostBitsMasked(x) ==
  LET masked == mask_in_place(x[1], x[2])
  IN  \A i \in 1..4 : \A k \in 0..7 :
        LET bit(v) == (v \div 2^(7 - k)) % 2
        IN  bit(masked[i]) = IF 8 * (i - 1) + k < x[2] THEN bit(x[1][i]) ELSE 0
=============================================================================
