------------------------------ MODULE OspfWire ------------------------------
(***************************************************************************)
(* The packets of tpt-ospf (wire.rs, lsa.rs), octet by octet, for OSPFv2   *)
(* and OSPFv3.  A 32-bit number or address is its four octets.  A reader   *)
(* is a set with what it reads, the empty set being an error; decoding     *)
(* takes the fields of a body by their places.                             *)
(***************************************************************************)
EXTENDS WireOctets

V2 == 2
V3 == 3
header_len(version) == IF version = V2 THEN 24 ELSE 16
PacketType == [Hello |-> 1, Dbd |-> 2, Lsr |-> 3, Lsu |-> 4, LsAck |-> 5]
LSA_HEADER_LEN == 20

u16(b, i) == 256 * b[i] + b[i + 1]
ip(b, i) == SubSeq(b, i, i + 3)
be32(n) == <<0, 0>> \o be16(n)

----------------------------------------------------------------------------
(* The Internet checksum                                                   *)

RECURSIVE Words(_), Fold(_)
Words(b) == IF Len(b) < 2 THEN (IF b = <<>> THEN 0 ELSE 256 * b[1]) ELSE u16(b, 1) + Words(From(b, 3))
Fold(sum) == IF sum < 65536 THEN sum ELSE Fold((sum % 65536) + (sum \div 65536))
\* A mutant: the carries out of the sixteen bits are dropped.
internet_checksum_NoCarry(b) == 65535 - (Words(b) % 65536)
internet_checksum(b) == 65535 - Fold(Words(b))
\* first and last are places from 0, last excluded
internet_checksum_skip(b, first, last) == internet_checksum(SubSeq(b, 1, first) \o From(b, last + 1))

----------------------------------------------------------------------------
(* lsa.rs: headers, links, the LSAs                                        *)

LsaHeader_new(version, advertising, options, lsa_type) ==
  [version |-> version, age |-> 0, options |-> options, lsa_type |-> lsa_type, link_state_id |-> Zeros(4),
   advertising_router |-> advertising, sequence_number |-> <<128, 0, 0, 1>>, checksum |-> 0, length |-> 0]
\* OSPFv3 writes an octet of options after the type: 21 octets.
LsaHeader_encode(h) ==
  be16(h.age)
    \o (IF h.version = V2 THEN <<h.options, h.lsa_type % 256>> ELSE be16(h.lsa_type) \o <<h.options>>)
    \o h.link_state_id \o h.advertising_router \o h.sequence_number \o be16(h.checksum) \o be16(h.length)
\* OSPFv3 reads the options where the Link State Id begins.
LsaHeader_decode(version, b) ==
  IF Len(b) < LSA_HEADER_LEN THEN {}
  ELSE {[version |-> version, age |-> u16(b, 1),
         options |-> IF version = V2 THEN b[3] ELSE b[5], lsa_type |-> IF version = V2 THEN b[4] ELSE u16(b, 3),
         link_state_id |-> ip(b, 5), advertising_router |-> ip(b, 9), sequence_number |-> ip(b, 13),
         checksum |-> u16(b, 17), length |-> u16(b, 19)]}
\* A mutant: the length of the body alone.
encode_with_body_BodyOnly(h, body) == LsaHeader_encode([h EXCEPT !.length = Len(body)]) \o body
encode_with_body(h, body) == LsaHeader_encode([h EXCEPT !.length = LSA_HEADER_LEN + Len(body)]) \o body
Headers_decode(version, b) ==
  Mapped(LAMBDA e : CHOOSE h \in LsaHeader_decode(version, e) : TRUE, Entries(b, LSA_HEADER_LEN))

is_router(h) == h.lsa_type = (IF h.version = V2 THEN 1 ELSE 8193)
is_network(h) == h.lsa_type = (IF h.version = V2 THEN 2 ELSE 8194)

\* A link is <<type, id, data, metric>>.
RouterLink_encode(l) == l[2] \o l[3] \o <<l[1], 0>> \o be16(l[4])
RouterLink_decode(b) == <<b[9], ip(b, 1), ip(b, 5), u16(b, 11)>>
\* An LSA is <<"Router", header, <<v, e, b>>, links>>, <<"Network", header, mask, attached>> or <<"Raw", header, octets>>.
RouterLsa_encode(l) ==
  encode_with_body(l[2], <<Bit(l[3][1], 0) + Bit(l[3][2], 1) + Bit(l[3][3], 2), Len(l[4]) % 256>>
                           \o Flat(Mapped(RouterLink_encode, l[4])))
RouterLsa_decode(h, body) ==
  IF Len(body) < 2 \/ Len(body) < 2 + 12 * body[2] THEN {}
  ELSE {<<"Router", h, <<HasBit(body[1], 0), HasBit(body[1], 1), HasBit(body[1], 2)>>,
          Mapped(RouterLink_decode, Entries(SubSeq(body, 3, 2 + 12 * body[2]), 12))>>}
NetworkLsa_encode(l) == encode_with_body(l[2], l[3] \o Flat(l[4]))
NetworkLsa_decode(h, body) ==
  IF Len(body) < 4 THEN {} ELSE {<<"Network", h, ip(body, 1), Entries(From(body, 5), 4)>>}
Lsa_encode(l) ==
  CASE l[1] = "Router" -> RouterLsa_encode(l)
    [] l[1] = "Network" -> NetworkLsa_encode(l)
    [] l[1] = "Raw" -> encode_with_body(l[2], l[3])
Lsa_decode(version, b) ==
  UNION {LET body == From(b, LSA_HEADER_LEN + 1)
         IN  CASE is_router(h) -> RouterLsa_decode(h, body)
               [] is_network(h) -> NetworkLsa_decode(h, body)
               [] OTHER -> {<<"Raw", h, body>>}
         : h \in LsaHeader_decode(version, b)}

----------------------------------------------------------------------------
(* wire.rs: the bodies                                                     *)

encode_hello(version, h) ==
  IF version = V2
  THEN h.network_mask \o be16(h.hello_interval) \o <<h.options, h.router_priority>> \o h.router_dead_interval
         \o h.designated_router \o h.backup_designated_router \o Flat(h.neighbors)
  ELSE h.interface_id \o <<h.router_priority, h.options, 0, 0>> \o be16(h.hello_interval) \o h.router_dead_interval
         \o h.designated_router \o h.backup_designated_router \o be32(Len(h.neighbors)) \o Flat(h.neighbors)
\* A count of neighbours above 65 535 is more than a packet holds.
decode_hello(version, b) ==
  IF version = V2
  THEN IF Len(b) < 20 THEN {}
       ELSE {[network_mask |-> ip(b, 1), interface_id |-> Zeros(4), hello_interval |-> u16(b, 5), options |-> b[7],
              router_priority |-> b[8], router_dead_interval |-> ip(b, 9), designated_router |-> ip(b, 13),
              backup_designated_router |-> ip(b, 17), neighbors |-> Entries(From(b, 21), 4)]}
  ELSE IF Len(b) < 26 \/ SubSeq(b, 23, 24) # <<0, 0>> \/ Len(b) < 26 + 4 * u16(b, 25) THEN {}
       ELSE {[network_mask |-> Zeros(4), interface_id |-> ip(b, 1), hello_interval |-> u16(b, 9), options |-> b[6],
              router_priority |-> b[5], router_dead_interval |-> ip(b, 11), designated_router |-> ip(b, 15),
              backup_designated_router |-> ip(b, 19), neighbors |-> Entries(SubSeq(b, 27, 26 + 4 * u16(b, 25)), 4)]}

encode_dbd(version, d) ==
  be16(d.interface_mtu) \o (IF version = V2 THEN <<d.options>> ELSE <<d.options, 0, 0>>)
    \o <<Bit(d.init, 2) + Bit(d.more, 1) + Bit(d.master, 0)>> \o d.dd_sequence \o Flat(Mapped(LsaHeader_encode, d.lsas))
decode_dbd(version, b) ==
  LET at == IF version = V2 THEN 4 ELSE 6
  IN  IF Len(b) < at + 4 THEN {}
      ELSE {[interface_mtu |-> u16(b, 1), options |-> b[3], init |-> HasBit(b[at], 2), more |-> HasBit(b[at], 1),
             master |-> HasBit(b[at], 0), dd_sequence |-> ip(b, at + 1),
             lsas |-> Headers_decode(version, From(b, at + 5))]}

\* A request is <<LSA type, Link State Id, advertising router>>; both versions write twelve octets.
encode_lsr(reqs) == Flat(Mapped(LAMBDA r : be32(r[1]) \o r[2] \o r[3], reqs))
\* OSPFv3 goes on only while sixteen octets remain.
RECURSIVE decode_lsr(_, _)
decode_lsr(version, b) ==
  IF Len(b) < (IF version = V2 THEN 12 ELSE 16) THEN <<>>
  ELSE <<<<u16(b, 3), ip(b, 5), ip(b, 9)>>>> \o decode_lsr(version, From(b, 13))

encode_lsu(lsas) == be32(Len(lsas)) \o Flat(Mapped(Lsa_encode, lsas))
RECURSIVE Lsas(_, _, _)
Lsas(version, b, n) ==
  IF n = 0 THEN {<<>>}
  ELSE UNION {IF h.length < LSA_HEADER_LEN \/ h.length > Len(b) THEN {}
              ELSE {<<l>> \o q : l \in Lsa_decode(version, SubSeq(b, 1, h.length)),
                                 q \in Lsas(version, From(b, h.length + 1), n - 1)}
              : h \in LsaHeader_decode(version, b)}
decode_lsu(version, b) ==
  IF Len(b) < 4 \/ SubSeq(b, 1, 2) # <<0, 0>> THEN {} ELSE Lsas(version, From(b, 5), u16(b, 3))

----------------------------------------------------------------------------
(* wire.rs: the packets.  A body is <<packet type, content>>.              *)

encode_body(version, body) ==
  CASE body[1] = "Hello" -> encode_hello(version, body[2])
    [] body[1] = "Dbd" -> encode_dbd(version, body[2])
    [] body[1] = "Lsr" -> encode_lsr(body[2])
    [] body[1] = "Lsu" -> encode_lsu(body[2])
    [] body[1] = "LsAck" -> Flat(Mapped(LsaHeader_encode, body[2]))
decode_body(version, type, b) ==
  CASE type = 1 -> {<<"Hello", h>> : h \in decode_hello(version, b)}
    [] type = 2 -> {<<"Dbd", d>> : d \in decode_dbd(version, b)}
    [] type = 3 -> {<<"Lsr", decode_lsr(version, b)>>}
    [] type = 4 -> {<<"Lsu", l>> : l \in decode_lsu(version, b)}
    [] type = 5 -> {<<"LsAck", Headers_decode(version, b)>>}
    [] OTHER -> {}

Packet_Header(p, total, checksum) ==
  <<p.version, PacketType[p.body[1]]>> \o be16(total) \o p.router_id \o p.area_id
    \o (IF p.version = V2 THEN be16(checksum) \o be16(p.auth_type) \o p.auth ELSE <<p.instance_id, 0>> \o be16(checksum))
Packet_checksum(version, b) == IF version = V2 THEN internet_checksum_skip(b, 16, 24) ELSE internet_checksum(b)
to_bytes(p) ==
  LET body == encode_body(p.version, p.body)
      total == header_len(p.version) + Len(body)
  IN  Packet_Header(p, total, Packet_checksum(p.version, Packet_Header(p, total, 0) \o body)) \o body
\* The checksum is not looked at.  A mutant: a packet may be longer than it says.
from_bytes_Longer(b) ==
  IF b = <<>> \/ b[1] \notin {V2, V3} \/ Len(b) < header_len(b[1]) \/ u16(b, 3) > Len(b) THEN {}
  ELSE {[version |-> b[1], router_id |-> ip(b, 5), area_id |-> ip(b, 9), auth_type |-> IF b[1] = V2 THEN u16(b, 15) ELSE 0,
         auth |-> IF b[1] = V2 THEN SubSeq(b, 17, 24) ELSE Zeros(8), instance_id |-> IF b[1] = V2 THEN 0 ELSE b[13],
         body |-> body] : body \in decode_body(b[1], b[2], From(b, header_len(b[1]) + 1))}
from_bytes(b) ==
  IF b = <<>> \/ b[1] \notin {V2, V3} \/ Len(b) < header_len(b[1]) \/ u16(b, 3) # Len(b) THEN {}
  ELSE {[version |-> b[1], router_id |-> ip(b, 5), area_id |-> ip(b, 9), auth_type |-> IF b[1] = V2 THEN u16(b, 15) ELSE 0,
         auth |-> IF b[1] = V2 THEN SubSeq(b, 17, 24) ELSE Zeros(8), instance_id |-> IF b[1] = V2 THEN 0 ELSE b[13],
         body |-> body] : body \in decode_body(b[1], b[2], From(b, header_len(b[1]) + 1))}

----------------------------------------------------------------------------
(* Samples                                                                 *)

R1 == <<1, 1, 1, 1>>
R2 == <<255, 255, 255, 254>>
HelloSample(version, neighbors) ==
  <<"Hello", [network_mask |-> IF version = V2 THEN <<255, 255, 255, 0>> ELSE Zeros(4),
              interface_id |-> IF version = V2 THEN Zeros(4) ELSE <<0, 0, 1, 0>>, hello_interval |-> 10, options |-> 2,
              router_priority |-> 1, router_dead_interval |-> <<0, 0, 0, 40>>, designated_router |-> R1,
              backup_designated_router |-> R2, neighbors |-> neighbors]>>
DbdSample(flags, headers) ==
  <<"Dbd", [interface_mtu |-> 1500, options |-> 66, init |-> 1 \in flags, more |-> 2 \in flags, master |-> 3 \in flags,
            dd_sequence |-> <<255, 255, 255, 255>>, lsas |-> headers]>>
HeaderSample(t) == [LsaHeader_new(V2, R1, 2, t) EXCEPT !.link_state_id = R2, !.age = 65535, !.checksum = 4660]
Router_LSA(flags, links) == <<"Router", HeaderSample(1), <<1 \in flags, 2 \in flags, 3 \in flags>>, links>>
LinkSamples == <<<<1, R2, R1, 10>>, <<3, <<10, 0, 0, 0>>, <<255, 0, 0, 0>>, 65535>>>>
LsaSamples ==
  {Router_LSA(flags, links) : flags \in SUBSET (1..3), links \in {<<>>, LinkSamples, LinkSamples \o LinkSamples}}
    \union {<<"Network", HeaderSample(2), <<255, 255, 255, 0>>, a>> : a \in {<<>>, <<R1>>, <<R1, R2>>}}
    \union {<<"Raw", HeaderSample(5), b>> : b \in {<<>>, <<7>>, <<1, 2, 3>>}}
PacketOf(version, body) ==
  [version |-> version, router_id |-> R1, area_id |-> R2, auth_type |-> IF version = V2 THEN 1 ELSE 0,
   auth |-> IF version = V2 THEN <<255, 255, 255, 255, 1, 2, 3, 4>> ELSE Zeros(8),
   instance_id |-> IF version = V2 THEN 0 ELSE 255, body |-> body]
\* What holds no LSA in OSPFv3; everything in OSPFv2.
OspfSamples ==
  {PacketOf(v, HelloSample(v, n)) : v \in {V2, V3}, n \in {<<>>, <<R1>>, <<R1, R2, R2>>}}
    \union {PacketOf(v, DbdSample(f, <<>>)) : v \in {V2, V3}, f \in SUBSET (1..3)}
    \union {PacketOf(v, <<"Lsu", <<>>>>) : v \in {V2, V3}}
    \union {PacketOf(V2, DbdSample({2}, h)) : h \in {<<HeaderSample(1)>>, <<HeaderSample(5), HeaderSample(2)>>}}
    \union {PacketOf(V2, <<"Lsr", q>>) : q \in {<<>>, <<<<1, R1, R2>>>>, <<<<5, R2, R1>>, <<255, R1, R1>>>>}}
    \union {PacketOf(V2, <<"Lsu", <<l>>>>) : l \in LsaSamples}
    \union {PacketOf(V2, <<"Lsu", <<Router_LSA({2}, LinkSamples), l, Router_LSA({}, <<>>)>>>>) : l \in LsaSamples}
    \union {PacketOf(v, <<"LsAck", <<>>>>) : v \in {V2, V3}}
    \union {PacketOf(V2, <<"LsAck", <<HeaderSample(1), HeaderSample(2)>>>>)}

\* The length of an LSA is set when it is written.
Lengthened(l) == [l EXCEPT ![2].length = Len(Lsa_encode(l))]
Written(p) == IF p.body[1] = "Lsu" THEN [p EXCEPT !.body = <<"Lsu", Mapped(Lengthened, p.body[2])>>] ELSE p
\* A packet is read back as it was sent, to the last LSA; a part of one, or one with octets after it, is refused.
OspfReads(p) ==
  \A b \in {to_bytes(p)} :
      /\ from_bytes(b) = {Written(p)}
      /\ from_bytes(SubSeq(b, 1, Len(b) - 1)) = {}
      /\ from_bytes(b \o <<0>>) = {}
\* The words of a packet as sent, the authentication of OSPFv2 left out, add up to all ones.
ChecksumHolds(p) ==
  \A b \in {to_bytes(p)} : Fold(Words(IF p.version = V2 THEN SubSeq(b, 1, 16) \o From(b, 25) ELSE b)) = 65535
=============================================================================
