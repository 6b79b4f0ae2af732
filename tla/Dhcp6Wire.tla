----------------------------- MODULE Dhcp6Wire ------------------------------
(***************************************************************************)
(* The messages of tpt-dhcpv6 (options.rs, message.rs), octet by octet.    *)
(* A 32-bit number is its four octets, a domain name its labels.  An       *)
(* option is <<kind, ...>>; a value a known code cannot have makes an      *)
(* option of the kind Other, and nothing is an error but a bad header.     *)
(***************************************************************************)
EXTENDS WireOctets

OPTION == [ClientId |-> 1, ServerId |-> 2, IaNa |-> 3, IaTa |-> 4, IaAddr |-> 5, Oro |-> 6, Preference |-> 7,
           ElapsedTime |-> 8, Unicast |-> 12, StatusCode |-> 13, RapidCommit |-> 14, ReconfMsg |-> 19, ReconfAccept |-> 20,
           DnsServers |-> 23, DomainSearch |-> 24, IaPd |-> 25, IaPrefix |-> 26]
DUID == [Llt |-> 1, En |-> 2, Ll |-> 3, Uuid |-> 4]
MessageTypes == 1..13

u16(b, i) == 256 * b[i] + b[i + 1]
u32(b, i) == SubSeq(b, i, i + 3)
TLV(code, data) == be16(code) \o be16(Len(data)) \o data

----------------------------------------------------------------------------
(* DUIDs and domain names                                                  *)

\* A DUID is <<"Llt", hardware type, time, address>>, <<"En", number, identifier>>, <<"Ll", hardware type, address>>,
\* <<"Uuid", octets>> or <<"Other", type, octets>>.
Duid_encode(d) ==
  CASE d[1] = "Llt" -> TLV(DUID.Llt, be16(d[2]) \o d[3] \o d[4])
    [] d[1] = "En" -> TLV(DUID.En, d[2] \o d[3])
    [] d[1] = "Ll" -> TLV(DUID.Ll, be16(d[2]) \o d[3])
    [] d[1] = "Uuid" -> TLV(DUID.Uuid, d[2])
    [] d[1] = "Other" -> TLV(d[2], d[3])
\* None is the empty set.
Duid_decode(b) ==
  IF Len(b) < 4 \/ Len(b) < 4 + u16(b, 3) THEN {}
  ELSE LET t == u16(b, 1)
           d == SubSeq(b, 5, 4 + u16(b, 3))
           least == CASE t = DUID.Llt -> 6 [] t = DUID.En -> 4 [] t = DUID.Ll -> 2 [] t = DUID.Uuid -> 16 [] OTHER -> 0
       IN  CASE Len(d) < least -> {}
             [] t = DUID.Llt -> {<<"Llt", u16(d, 1), u32(d, 3), From(d, 7)>>}
             [] t = DUID.En -> {<<"En", u32(d, 1), From(d, 5)>>}
             [] t = DUID.Ll -> {<<"Ll", u16(d, 1), From(d, 3)>>}
             [] t = DUID.Uuid -> {<<"Uuid", SubSeq(d, 1, 16)>>}
             [] OTHER -> {<<"Other", t, d>>}

encode_domain_name(name) == Flat(Mapped(LAMBDA l : IF l = <<>> THEN <<>> ELSE <<Len(l) % 256>> \o l, name)) \o <<0>>
\* One name: <<its labels, the octets taken>>.  A name that is cut off is taken as far as its labels are whole.
RECURSIVE Name(_, _, _), decode_domain_names(_)
Name(b, labels, consumed) ==
  CASE b = <<>> -> <<labels, consumed>>
    [] b[1] = 0 -> <<labels, consumed + 1>>
    [] b[1] > 63 \/ 1 + b[1] > Len(b) -> <<labels, consumed>>
    [] OTHER -> Name(From(b, b[1] + 2), Append(labels, SubSeq(b, 2, 1 + b[1])), consumed + 1 + b[1])
decode_domain_names(b) ==
  LET n == Name(b, <<>>, 0)
  IN  IF b = <<>> \/ n[1] = <<>> THEN <<>> ELSE <<n[1]>> \o decode_domain_names(From(b, n[2] + 1))

----------------------------------------------------------------------------
(* Options, which may hold options                                         *)

code(o) == IF o[1] = "Other" THEN o[2] ELSE OPTION[o[1]]
RECURSIVE Option_encode(_), encode_options(_), Option_decode(_, _), parse_options(_), parse_options_Strict(_)
Option_encode(o) ==
  TLV(code(o),
      CASE o[1] \in {"ClientId", "ServerId"} -> Duid_encode(o[2])
        [] o[1] \in {"IaNa", "IaPd"} -> o[2] \o o[3] \o o[4] \o encode_options(o[5])
        [] o[1] = "IaTa" -> o[2] \o encode_options(o[3])
        [] o[1] = "IaAddr" -> o[2] \o o[3] \o o[4] \o encode_options(o[5])
        [] o[1] = "IaPrefix" -> o[2] \o o[3] \o <<o[4]>> \o o[5] \o encode_options(o[6])
        [] o[1] = "Oro" -> Flat(Mapped(be16, o[2]))
        [] o[1] \in {"Preference", "ReconfMsg"} -> <<o[2]>>
        [] o[1] = "ElapsedTime" -> be16(o[2])
        [] o[1] = "Unicast" -> o[2]
        [] o[1] = "StatusCode" -> be16(o[2]) \o o[3]
        [] o[1] \in {"RapidCommit", "ReconfAccept"} -> <<>>
        [] o[1] = "DnsServers" -> Flat(o[2])
        [] o[1] = "DomainSearch" -> Flat(Mapped(encode_domain_name, o[2]))
        [] o[1] = "Other" -> o[3])
encode_options(opts) == IF opts = <<>> THEN <<>> ELSE Option_encode(Head(opts)) \o encode_options(Tail(opts))
Duid_option(kind, c, d) == IF Duid_decode(d) = {} THEN <<"Other", c, d>> ELSE <<kind, CHOOSE x \in Duid_decode(d) : TRUE>>
Option_decode(c, d) ==
  CASE c = OPTION.ClientId -> Duid_option("ClientId", c, d)
    [] c = OPTION.ServerId -> Duid_option("ServerId", c, d)
    [] c = OPTION.IaNa /\ Len(d) >= 12 -> <<"IaNa", u32(d, 1), u32(d, 5), u32(d, 9), parse_options(From(d, 13))>>
    [] c = OPTION.IaTa /\ Len(d) >= 4 -> <<"IaTa", u32(d, 1), parse_options(From(d, 5))>>
    [] c = OPTION.IaAddr /\ Len(d) >= 24 -> <<"IaAddr", SubSeq(d, 1, 16), u32(d, 17), u32(d, 21), parse_options(From(d, 25))>>
    [] c = OPTION.Oro /\ Len(d) % 2 = 0 -> <<"Oro", Mapped(LAMBDA e : u16(e, 1), Entries(d, 2))>>
    [] c = OPTION.Preference /\ Len(d) = 1 -> <<"Preference", d[1]>>
    [] c = OPTION.ElapsedTime /\ Len(d) = 2 -> <<"ElapsedTime", u16(d, 1)>>
    [] c = OPTION.Unicast /\ Len(d) = 16 -> <<"Unicast", d>>
    [] c = OPTION.StatusCode /\ Len(d) >= 2 -> <<"StatusCode", u16(d, 1), From(d, 3)>>
    [] c = OPTION.RapidCommit -> <<"RapidCommit">>
    [] c = OPTION.ReconfAccept -> <<"ReconfAccept">>
    [] c = OPTION.ReconfMsg /\ Len(d) = 1 /\ d[1] \in MessageTypes -> <<"ReconfMsg", d[1]>>
    [] c = OPTION.DnsServers /\ Len(d) % 16 = 0 -> <<"DnsServers", Entries(d, 16)>>
    [] c = OPTION.DomainSearch -> <<"DomainSearch", decode_domain_names(d)>>
    [] c = OPTION.IaPd /\ Len(d) >= 12 -> <<"IaPd", u32(d, 1), u32(d, 5), u32(d, 9), parse_options(From(d, 13))>>
    [] c = OPTION.IaPrefix /\ Len(d) >= 25 ->
         <<"IaPrefix", u32(d, 1), u32(d, 5), d[9], SubSeq(d, 10, 25), parse_options(From(d, 26))>>
    [] OTHER -> <<"Other", c, d>>
\* A mutant: an option that ends with the message is taken for one that is cut off.
parse_options_Strict(b) ==
  IF Len(b) < 4 \/ Len(b) <= 4 + u16(b, 3) THEN <<>>
  ELSE <<Option_decode(u16(b, 1), SubSeq(b, 5, 4 + u16(b, 3)))>> \o parse_options_Strict(From(b, 5 + u16(b, 3)))
\* Reading ends, without an error, at an option that is cut off.
parse_options(b) ==
  IF Len(b) < 4 \/ Len(b) < 4 + u16(b, 3) THEN <<>>
  ELSE <<Option_decode(u16(b, 1), SubSeq(b, 5, 4 + u16(b, 3)))>> \o parse_options(From(b, 5 + u16(b, 3)))

----------------------------------------------------------------------------
(* Messages: <<type, transaction id, options>>                             *)

HEADER_LEN == 4
to_bytes(msg) == <<msg[1]>> \o msg[2] \o encode_options(msg[3])
from_bytes(b) ==
  IF Len(b) < HEADER_LEN \/ b[1] \notin MessageTypes THEN {} ELSE {<<b[1], SubSeq(b, 2, 4), parse_options(From(b, 5))>>}
find_option(options, c) == SelectSeq(options, LAMBDA o : code(o) = c)
\* A mutant: an option is added to those of its code.
set_option_Adds(options, opt) == Append(options, opt)
set_option(options, opt) == Append(SelectSeq(options, LAMBDA o : code(o) # code(opt)), opt)

----------------------------------------------------------------------------
(* Samples                                                                 *)

N(x) == <<x, 0, 255, x>>
Address(x) == SubSeq([i \in 1..16 |-> (x * i) % 256], 1, 16)
Status(message) == <<"StatusCode", 2, message>>
DuidSamples ==
  {<<"Llt", 1, N(7), <<1, 2, 3, 4, 5, 6>>>>, <<"Llt", 65535, N(255), <<>>>>, <<"En", N(9), <<1>>>>, <<"Ll", 1, <<>>>>,
   <<"Uuid", Address(3)>>, <<"Other", 0, <<>>>>, <<"Other", 256, <<9, 9>>>>}
Simple ==
  {<<"ClientId", d>> : d \in DuidSamples} \union {<<"ServerId", d>> : d \in DuidSamples}
    \union {<<"Oro", q>> : q \in {<<>>, <<23, 24>>, <<65535>>}} \union {<<"Preference", p>> : p \in {0, 255}}
    \union {<<"ElapsedTime", t>> : t \in {0, 65535}} \union {<<"ReconfMsg", t>> : t \in {5, 11}}
    \union {<<"Unicast", Address(1)>>, <<"RapidCommit">>, <<"ReconfAccept">>, Status(<<>>), Status(<<110, 111>>)}
    \union {<<"DnsServers", q>> : q \in {<<>>, <<Address(1), Address(255)>>}}
    \union {<<"DomainSearch", q>> : q \in {<<>>, <<<<<<97>>>>>>, <<<<<<97>>, <<98, 99>>>>, <<<<100>>>>>>}}
    \union {<<"Other", c, d>> : c \in {0, 9, 39, 65535}, d \in {<<>>, <<1, 2, 3>>}}
Leaves == {<<>>, <<Status(<<>>)>>, <<Status(<<110>>), <<"Other", 39, <<>>>>>>}
Bound == {<<"IaAddr", Address(2), N(1), N(2), q>> : q \in Leaves} \union {<<"IaPrefix", N(1), N(2), 56, Address(2), q>> : q \in Leaves}
Associations ==
  UNION {{<<"IaNa", N(1), N(2), N(3), q>>, <<"IaTa", N(4), q>>, <<"IaPd", N(5), N(6), N(7), q>>}
         : q \in Leaves \union {<<x, y>> : x, y \in Bound}}
\* Whole messages; and messages cut off somewhere, or with a length that is wrong.
Dhcp6Samples ==
  {<<t, <<1, 2, 255>>, q>> : t \in {1, 13}, q \in {<<>>} \union {<<o>> : o \in Simple \union Associations}}
    \union {<<7, <<0, 0, 0>>, <<<<"ClientId", <<"Ll", 1, <<6>>>>>>, o, p>>>> : o \in Simple, p \in Simple}
\* A message is read as it was written, options in options included.  Cut off anywhere behind its header it is read as a
\* message too, and what was read is written and read again without a change.
Dhcp6Reads(msg) ==
  \A b \in {to_bytes(msg)} :
      /\ from_bytes(b) = {msg}
      /\ \A n \in {3, 4, Len(b) - 1, Len(b) - 3} :
             \A s \in {SubSeq(b, 1, n)} :
                 IF n < 4 THEN from_bytes(s) = {}
                 ELSE \A x \in from_bytes(s) : from_bytes(to_bytes(x)) = {x} /\ Len(to_bytes(x)) <= n
      /\ \A o \in {Status(<<7>>), <<"Oro", <<1>>>>} : find_option(set_option(msg[3], o), code(o)) = <<o>>
=============================================================================
