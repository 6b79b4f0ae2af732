------------------------------ MODULE RtpWire -------------------------------
(***************************************************************************)
(* tpt-rtp: the packets of RTP and RTCP octet by octet, as they are        *)
(* written and read, alone and compound.  A number of 32 bits is a pair of *)
(* halves.  A decoder gives a set, empty where the code returns an error.  *)
(***************************************************************************)
EXTENDS Integers, SequencesExt

-----------------------------------------------------------------------------
(* Octets. *)

be16(n) == <<(n \div 256) % 256, n % 256>>
be32(w) == be16(w[1]) \o be16(w[2])
be32s(list) == FlattenSeq([i \in DOMAIN list |-> be32(list[i])])
from16(b, i) == b[i] * 256 + b[i + 1]
from32(b, i) == <<from16(b, i), from16(b, i + 2)>>
from32s(b, i, n) == [k \in 1 .. n |-> from32(b, i + 4 * (k - 1))]
Bit(b, x) == IF b THEN x ELSE 0
HasBit(octet, x) == (octet \div x) % 2 = 1
Zeros(n) == [i \in 1 .. n |-> 0]
Word(n) == ((n + 3) \div 4) * 4
PadWord(s) == s \o Zeros(Word(Len(s)) - Len(s))

-----------------------------------------------------------------------------
(* RTP packets. *)

RTP_VERSION == 2
MAX_CSRC == 15
set_padding(p, n) == IF n = 0 THEN {} ELSE {[p EXCEPT !.padded = TRUE, !.padding = Append(Zeros(n - 1), n)]}
encode_to_slice(p) ==
    LET ext == p.extension /\ p.extension_words # <<>>
    IN  IF \/ Len(p.csrc) > MAX_CSRC \/ p.payload_type > 127
           \/ p.padded /\ (p.padding = <<>> \/ p.padding[Len(p.padding)] # Len(p.padding))
        THEN {}
        ELSE {<<RTP_VERSION * 64 + Bit(p.padded, 32) + Bit(ext, 16) + Len(p.csrc), Bit(p.marker, 128) + p.payload_type>>
                \o be16(p.sequence_number) \o be32(p.timestamp) \o be32(p.ssrc) \o be32s(p.csrc)
                \o (IF ext THEN be16(p.extension_profile) \o be16(Len(p.extension_words)) \o be32s(p.extension_words) ELSE <<>>)
                \o p.payload \o (IF p.padded THEN p.padding ELSE <<>>)}
\* Mutant: the padding is taken to begin one octet later.
Split_Late(tail, padded) ==
    IF ~padded THEN {<<tail, <<>>>>}
    ELSE LET n == IF tail = <<>> THEN 0 ELSE tail[Len(tail)]
         IN  IF n = 0 \/ n > Len(tail) THEN {}
             ELSE {<<SubSeq(tail, 1, Len(tail) - n + 1), SubSeq(tail, Len(tail) - n + 2, Len(tail))>>}
\* The payload and the padding, whose last octet is its length.
Split(tail, padded) ==
    IF ~padded THEN {<<tail, <<>>>>}
    ELSE LET n == IF tail = <<>> THEN 0 ELSE tail[Len(tail)]
         IN  IF n = 0 \/ n > Len(tail) THEN {}
             ELSE {<<SubSeq(tail, 1, Len(tail) - n), SubSeq(tail, Len(tail) - n + 1, Len(tail))>>}
decode_from_slice(b) ==
    LET cc == b[1] % 16
        pos == 13 + 4 * cc
        ext == HasBit(b[1], 16)
        words == IF ext THEN from16(b, pos + 2) ELSE 0
        body == IF ext THEN pos + 4 + 4 * words ELSE pos
    IN  IF Len(b) < 12 THEN {}
        ELSE IF b[1] \div 64 # RTP_VERSION \/ Len(b) < pos - 1 THEN {}
        ELSE IF ext /\ Len(b) < pos + 3 THEN {}
        ELSE IF Len(b) < body - 1 THEN {}
        ELSE {[padded |-> HasBit(b[1], 32), extension |-> ext, csrc |-> from32s(b, 13, cc), marker |-> HasBit(b[2], 128),
               payload_type |-> b[2] % 128, sequence_number |-> from16(b, 3), timestamp |-> from32(b, 5), ssrc |-> from32(b, 9),
               extension_profile |-> IF ext THEN from16(b, pos) ELSE 0,
               extension_words |-> IF ext THEN from32s(b, pos + 4, words) ELSE <<>>, payload |-> s[1], padding |-> s[2]]
                 : s \in Split(SubSeq(b, body, Len(b)), HasBit(b[1], 32))}
peek_header(b) ==
    IF Len(b) < 12 THEN {}
    ELSE IF b[1] \div 64 # RTP_VERSION THEN {}
    ELSE {[padded |-> HasBit(b[1], 32), extension |-> HasBit(b[1], 16), csrc_count |-> b[1] % 16, marker |-> HasBit(b[2], 128),
           payload_type |-> b[2] % 128, sequence_number |-> from16(b, 3), timestamp |-> from32(b, 5), ssrc |-> from32(b, 9)]}

-----------------------------------------------------------------------------
(* RTCP packets. *)

RTCP_VERSION == 2
RtcpType == [Sr |-> 200, Rr |-> 201, Sdes |-> 202, Bye |-> 203, App |-> 204]
SdesItemType == 0 .. 8
End == 0
WIRE_LEN == 24
ReceptionReport_encode(r) ==
    be32(r.ssrc) \o <<r.fraction_lost>> \o SubSeq(be32(r.cumulative_lost), 2, 4) \o be32(r.extended_seq)
      \o be32(r.interarrival_jitter) \o be32(r.last_sr) \o be32(r.delay_since_last_sr)
ReceptionReport_decode(b, i) ==
    [ssrc |-> from32(b, i), fraction_lost |-> b[i + 4], cumulative_lost |-> <<b[i + 5], from16(b, i + 6)>>,
     extended_seq |-> from32(b, i + 8), interarrival_jitter |-> from32(b, i + 12), last_sr |-> from32(b, i + 16),
     delay_since_last_sr |-> from32(b, i + 20)]
Reports_encode(list) == FlattenSeq([i \in DOMAIN list |-> ReceptionReport_encode(list[i])])
Reports_decode(b, i, n) == [k \in 1 .. n |-> ReceptionReport_decode(b, i + WIRE_LEN * (k - 1))]

Sdes_item(item) == <<item[1], Len(item[2]) % 256>> \o item[2]
Sdes_chunk(c) == PadWord(be32(c.ssrc) \o FlattenSeq([i \in DOMAIN c.items |-> Sdes_item(c.items[i])]) \o <<End>>)
\* The name of an application is moved three bits to the right behind the subtype; its last five bits fall off.
App_name(subtype, name) ==
    LET low(i) == (name[i] * 8) % 256
        high(i) == name[i] \div 32
    IN  <<(subtype % 32) * 8 + high(1), low(1) + high(2), low(2) + high(3), low(3) + high(4)>>
Body(p) ==
    CASE p.kind = "Sr" -> be32(p.ssrc) \o be32s(p.ntp_timestamp) \o be32(p.rtp_timestamp) \o be32(p.senders_packet_count)
                            \o be32(p.senders_octet_count) \o Reports_encode(p.reports)
      [] p.kind = "Rr" -> be32(p.ssrc) \o Reports_encode(p.reports)
      [] p.kind = "Sdes" -> FlattenSeq([i \in DOMAIN p.chunks |-> Sdes_chunk(p.chunks[i])])
      [] p.kind = "Bye" -> PadWord(be32s(p.sources) \o FlattenSeq([i \in DOMAIN p.reason |-> <<Len(p.reason[i]) % 256>> \o p.reason[i]]))
      [] p.kind = "App" -> PadWord(be32(p.ssrc) \o App_name(p.subtype, p.name) \o p.data)
Count(p) ==
    CASE p.kind \in {"Sr", "Rr"} -> Len(p.reports)
      [] p.kind = "Sdes" -> Len(p.chunks)
      [] p.kind = "Bye" -> Len(p.sources)
      [] p.kind = "App" -> 0
\* The version and the count, of which the code keeps eight bits and not the five of the field.
FirstOctet(n) == IF n % 256 >= RTCP_VERSION * 64 THEN n % 256 ELSE RTCP_VERSION * 64 + (n % 256)
encode_into(p) == <<FirstOctet(Count(p)), RtcpType[p.kind]>> \o be16(Len(Body(p)) \div 4) \o Body(p)

RECURSIVE decode_items(_, _)
decode_items(b, pos) ==
    IF pos > Len(b) THEN {}
    ELSE IF b[pos] = End THEN {<<<<>>, pos + 1>>}
    ELSE IF b[pos] \notin SdesItemType \/ pos + 1 > Len(b) THEN {}
    ELSE IF pos + 1 + b[pos + 1] > Len(b) THEN {}
    ELSE {<<<<<<b[pos], SubSeq(b, pos + 2, pos + 1 + b[pos + 1])>>>> \o r[1], r[2]>> : r \in decode_items(b, pos + 2 + b[pos + 1])}
\* Mutant: a chunk ends where its items end.
After_Unaligned(start, pos) == pos
\* The 32-bit boundary after the items of a chunk.
After(start, pos) == start + Word(pos - start)
RECURSIVE decode_sdes(_, _, _)
decode_sdes(b, pos, n) ==
    IF n = 0 THEN {<<>>}
    ELSE IF Len(b) < pos + 3 THEN {}
    ELSE UNION {{<<[ssrc |-> from32(b, pos), items |-> i[1]]>> \o r : r \in decode_sdes(b, After(pos + 4, i[2]), n - 1)}
                : i \in decode_items(b, pos + 4)}
decode_bye(b, n) ==
    LET pos == 1 + 4 * n
    IN  IF Len(b) < pos - 1 THEN {}
        ELSE IF pos > Len(b) THEN {<<from32s(b, 1, n), <<>>>>}
        ELSE IF pos + b[pos] > Len(b) THEN {}
        ELSE {<<from32s(b, 1, n), <<SubSeq(b, pos + 1, pos + b[pos])>>>>}
parse_common(b) ==
    IF Len(b) < 4 THEN {}
    ELSE LET end == (from16(b, 3) + 1) * 4
         IN  IF b[1] \div 64 # RTCP_VERSION \/ Len(b) < end THEN {}
             ELSE {<<HasBit(b[1], 32), b[1] % 32, b[2], end>>}
decode_body(kind, b, n) ==
    CASE kind = "Sr" -> IF Len(b) < 24 + n * WIRE_LEN THEN {}
                        ELSE {[kind |-> kind, ssrc |-> from32(b, 1), ntp_timestamp |-> from32s(b, 5, 2), rtp_timestamp |-> from32(b, 13),
                               senders_packet_count |-> from32(b, 17), senders_octet_count |-> from32(b, 21),
                               reports |-> Reports_decode(b, 25, n)]}
      [] kind = "Rr" -> IF Len(b) < 4 + n * WIRE_LEN THEN {}
                        ELSE {[kind |-> kind, ssrc |-> from32(b, 1), reports |-> Reports_decode(b, 5, n)]}
      [] kind = "Sdes" -> {[kind |-> kind, chunks |-> c] : c \in decode_sdes(b, 1, n)}
      [] kind = "Bye" -> {[kind |-> kind, sources |-> x[1], reason |-> x[2]] : x \in decode_bye(b, n)}
      [] kind = "App" -> IF Len(b) < 8 THEN {}
                         ELSE {[kind |-> kind, ssrc |-> from32(b, 1), subtype |-> b[5] \div 8,
                                name |-> [i \in 1 .. 4 |-> (b[4 + i] % 8) * 32 + (IF i < 4 THEN b[5 + i] \div 8 ELSE 0)],
                                data |-> SubSeq(b, 9, Len(b))]}
\* The packet at the head of a buffer, and the octets it takes.  Padding that reaches into the header is refused only
\* where it is longer than the packet; up to four octets less the code panics on the slice, and gives no packet either.
decode_one(b) ==
    UNION {LET end == h[4]
               pad == IF h[1] THEN b[end] ELSE 0
           IN  IF h[1] /\ (pad = 0 \/ pad > end - 4) THEN {}
               ELSE UNION {{<<p, end>> : p \in decode_body(k, SubSeq(b, 5, end - pad), h[2])}
                           : k \in {x \in DOMAIN RtcpType : RtcpType[x] = h[3]}}
           : h \in parse_common(b)}
decode(b) == {d[1] : d \in {x \in decode_one(b) : x[2] = Len(b)}}
RECURSIVE decode_compound(_)
decode_compound(b) ==
    IF b = <<>> THEN {<<>>}
    ELSE UNION {{<<d[1]>> \o r : r \in decode_compound(SubSeq(b, d[2] + 1, Len(b)))} : d \in decode_one(b)}
encode_compound(list) == FlattenSeq([i \in DOMAIN list |-> encode_into(list[i])])

-----------------------------------------------------------------------------
(* Samples. *)

Packet ==
    [padded |-> FALSE, extension |-> FALSE, csrc |-> <<>>, marker |-> FALSE, payload_type |-> 0, sequence_number |-> 65535,
     timestamp |-> <<32768, 0>>, ssrc |-> <<1, 65535>>, extension_profile |-> 0, extension_words |-> <<>>, payload |-> <<>>,
     padding |-> <<>>]
ABlock == [ssrc |-> <<0, 1>>, fraction_lost |-> 255, cumulative_lost |-> <<255, 65535>>, extended_seq |-> <<1, 0>>,
           interarrival_jitter |-> <<0, 256>>, last_sr |-> <<65535, 1>>, delay_since_last_sr |-> <<2, 3>>]
Repeat(x, n) == [i \in 1 .. n |-> x]
RtpPackets ==
    LET bare == {[Packet EXCEPT !.csrc = Repeat(<<i, 1>>, i), !.payload = Repeat(9, n), !.marker = (n = 0)] : i \in {0, 1, 15}, n \in 0 .. 2}
        extended == {[p EXCEPT !.extension = TRUE, !.extension_profile = 48862, !.extension_words = Repeat(<<i, i>>, i), !.payload_type = 127]
                        : p \in bare, i \in {1, 2}}
    IN  bare \union extended \union UNION {set_padding(p, n) : p \in bare \union extended, n \in {1, 4, 255}}
RtcpPackets ==
    {[kind |-> "Rr", ssrc |-> <<7, 8>>, reports |-> Repeat(ABlock, n)] : n \in {0, 1, 31}}
      \union {[kind |-> "Sr", ssrc |-> <<7, 8>>, ntp_timestamp |-> <<<<1, 2>>, <<3, 4>>>>, rtp_timestamp |-> <<5, 6>>,
               senders_packet_count |-> <<0, 1>>, senders_octet_count |-> <<0, 160>>, reports |-> Repeat(ABlock, n)] : n \in {0, 2}}
      \union {[kind |-> "Sdes", chunks |-> Repeat([ssrc |-> <<9, 9>>, items |-> <<<<1, Repeat(65, n)>>, <<8, Repeat(0, k)>>>>], c)]
                 : n \in 0 .. 4, k \in {0, 1, 255}, c \in 0 .. 2}
      \union {[kind |-> "Bye", sources |-> Repeat(<<1, 1>>, n), reason |-> r]
                 : n \in 0 .. 2, r \in {<<>>, <<<<>>>>, <<<<65>>>>, <<<<65, 66, 67>>>>, <<Repeat(66, 255)>>}}
      \union {[kind |-> "App", ssrc |-> <<0, 3>>, subtype |-> t, name |-> name, data |-> Repeat(5, n)]
                 : t \in {0, 31}, n \in {0, 3, 4}, name \in {<<80, 255, 1, 96>>, <<82, 84, 80, 88>>}}
RtpSamples == {<<"rtp", p>> : p \in RtpPackets} \union {<<"rtcp", p>> : p \in RtcpPackets}
Summary(p) ==
    [padded |-> p.padded, extension |-> p.extension, csrc_count |-> Len(p.csrc), marker |-> p.marker, payload_type |-> p.payload_type,
     sequence_number |-> p.sequence_number, timestamp |-> p.timestamp, ssrc |-> p.ssrc]
\* What of a packet goes over the wire: of a name in an App packet all but the last five bits, its data in whole words.
Carried(p) == IF p.kind = "App" THEN [p EXCEPT !.name[4] = (@ \div 32) * 32, !.data = PadWord(@)] ELSE p
\* A packet is read as it was written, alone and between others.
RtpReads(s) ==
    IF s[1] = "rtp"
    THEN \E b \in encode_to_slice(s[2]) : decode_from_slice(b) = {s[2]} /\ peek_header(b) = {Summary(s[2])}
    ELSE \A other \in {p \in RtcpPackets : p.kind = "Bye" /\ Len(p.sources) = 1} :
             LET list == <<other, s[2], other>>
             IN  /\ decode_compound(encode_compound(list)) = {[i \in 1 .. 3 |-> Carried(list[i])]}
                 /\ decode(encode_into(s[2])) = {Carried(s[2])}
=============================================================================
