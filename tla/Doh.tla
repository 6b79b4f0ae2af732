-------------------------------- MODULE Doh --------------------------------
(***************************************************************************)
(* tpt-doh: the DNS messages octet by octet (dns.rs), base64url as the     *)
(* numbers of its alphabet (base64.rs), and the client with its cache      *)
(* under threads that share it (client.rs, cache.rs).  A domain name is    *)
(* its labels; a reader is a set, the empty set being an error.  The       *)
(* resolver and the clock are external; a unit of the clock is a day.      *)
(***************************************************************************)
EXTENDS WireOctets, TLC

CONSTANTS Threads, DohQueries, DohAnswers, DohMaxTime
VARIABLES clock,     \* SystemTime::now()
          entries,   \* Cache::entries: key -> [body, expires_at]
          calls,     \* query_raw under way, thread -> [at, query, response]
          given      \* <<query, body>> of the call that just returned
dohVars == <<clock, entries, calls, given>>

\* data is read at places from 0, as the code counts them
u16(b, pos) == 256 * b[pos + 1] + b[pos + 2]
lower(o) == IF o \in 65..90 THEN o + 32 ELSE o

----------------------------------------------------------------------------
(* base64.rs.  A character is its place in the alphabet, "=" is PAD.       *)

PAD == 64
Number(c) == 65536 * c[1] + 256 * c[2] + c[3]
Chars(n) == <<n \div 262144, (n \div 4096) % 64, (n \div 64) % 64, n % 64>>
\* A mutant: a last group of one octet is written with the four characters of a whole one.
RECURSIVE encode_nopad_Whole(_), encode_nopad(_)
encode_nopad_Whole(b) ==
    IF b = <<>> THEN <<>>
    ELSE Chars(Number(SubSeq(b \o <<0, 0>>, 1, 3))) \o encode_nopad_Whole(From(b, 4))
encode_nopad(b) ==
    IF b = <<>> THEN <<>>
    ELSE LET n == IF Len(b) > 3 THEN 3 ELSE Len(b)
         IN  SubSeq(Chars(Number(SubSeq(b \o <<0, 0>>, 1, 3))), 1, n + 1) \o encode_nopad(From(b, 4))
RECURSIVE Groups(_), Padded(_)
Padded(s) == IF Len(s) % 4 = 0 THEN s ELSE Padded(s \o <<PAD>>)
Groups(s) ==
    IF s = <<>> \/ s[1] = PAD THEN <<>>
    ELSE LET v == Mapped(LAMBDA c : c % 64, SubSeq(s, 1, 4))
             pad == Len(SelectSeq(SubSeq(s, 1, 4), LAMBDA c : c = PAD))
             high == 4 * v[1] + (v[2] \div 16)
             mid == 16 * (v[2] % 16) + (v[3] \div 4)
             low == 64 * (v[3] % 4) + v[4]
         IN  <<high>> \o (IF pad < 2 THEN <<mid>> ELSE <<>>) \o (IF pad < 1 THEN <<low>> ELSE <<>>) \o Groups(From(s, 5))
decode_nopad(s) == Groups(Padded(s))

----------------------------------------------------------------------------
(* dns.rs: flags and names                                                 *)

CLASS_IN == 1
rtype == [A |-> 1, NS |-> 2, CNAME |-> 5, PTR |-> 12, MX |-> 15, TXT |-> 16, AAAA |-> 28, OPT |-> 41]
FlagBits == [qr |-> 15, authoritative |-> 10, truncated |-> 9, recursion_desired |-> 8, recursion_available |-> 7,
             authenticated |-> 5, checking_disabled |-> 4]
\* Flags are <<the flags that are set, opcode, rcode>>.
RECURSIVE Sum(_)
Sum(S) == IF S = {} THEN 0 ELSE LET x == CHOOSE y \in S : TRUE IN x + Sum(S \ {x})
Flags_to_u16(f) == Sum({2^FlagBits[x] : x \in f[1]}) + 2048 * (f[2] % 16) + (f[3] % 16)
Flags_from_u16(v) == <<{x \in DOMAIN FlagBits : HasBit(v, FlagBits[x])}, (v \div 2048) % 16, v % 16>>

write_name(name) == Flat(Mapped(LAMBDA l : IF l = <<>> THEN <<>> ELSE <<Len(l) % 256>> \o l, name)) \o <<0>>
\* The turns a name may take: 255 in the code, a bound here that no name of the samples reaches.
MaxTurns == 15
\* {<<labels, place after the terminator, whether a pointer was followed>>}
RECURSIVE Labels(_, _, _, _)
Labels(b, pos, jumped, iterations) ==
    CASE iterations > MaxTurns \/ pos >= Len(b) -> {}
      [] OTHER ->
         LET len == b[pos + 1]
         IN  CASE len >= 192 -> IF pos + 1 >= Len(b) THEN {}
                                ELSE Labels(b, 256 * (len % 64) + b[pos + 2], TRUE, iterations + 1)
               [] len = 0 -> {<<<<>>, pos + 1, jumped>>}
               [] pos + 1 + len > Len(b) -> {}
               [] OTHER -> {<<<<Mapped(lower, SubSeq(b, pos + 2, pos + 1 + len))>> \o r[1], r[2], r[3]>>
                            : r \in Labels(b, pos + 1 + len, jumped, iterations + 1)}
\* A mutant: after a pointer the reader goes on behind the name it points to.
read_name_Follows(b, pos) == {<<r[1], r[2] - pos>> : r \in Labels(b, pos, FALSE, 0)}
\* Two octets are taken for a name with a pointer, whatever labels come before the pointer.
read_name(b, pos) == {<<r[1], IF r[3] THEN 2 ELSE r[2] - pos>> : r \in Labels(b, pos, FALSE, 0)}

----------------------------------------------------------------------------
(* dns.rs: records and messages                                            *)

RECURSIVE Texts(_), Options(_)
Texts(d) == IF d = <<>> THEN {<<>>}
            ELSE IF 1 + d[1] > Len(d) THEN {} ELSE {<<SubSeq(d, 2, 1 + d[1])>> \o q : q \in Texts(From(d, d[1] + 2))}
Options(d) == IF Len(d) < 4 THEN {<<>>}
              ELSE IF 4 + u16(d, 2) > Len(d) THEN {}
                   ELSE {SubSeq(d, 5, 4 + u16(d, 2)) \o q : q \in Options(From(d, 5 + u16(d, 2)))}
\* Pointers in the data of a record are followed from the beginning of that data.
parse_rdata(t, d) ==
    CASE t = rtype.A -> IF Len(d) < 4 THEN {} ELSE {<<"A", SubSeq(d, 1, 4)>>}
      [] t = rtype.AAAA -> IF Len(d) < 16 THEN {} ELSE {<<"Aaaa", SubSeq(d, 1, 16)>>}
      [] t \in {rtype.CNAME, rtype.NS, rtype.PTR} ->
             {<<CASE t = rtype.CNAME -> "Cname" [] t = rtype.NS -> "Ns" [] OTHER -> "Ptr", n[1]>> : n \in read_name(d, 0)}
      [] t = rtype.MX -> IF Len(d) < 3 THEN {} ELSE {<<"Mx", u16(d, 0), n[1]>> : n \in read_name(d, 2)}
      [] t = rtype.TXT -> {<<"Txt", x>> : x \in Texts(d)}
      [] t = rtype.OPT -> {<<"Opt", x>> : x \in Options(d)}
      [] OTHER -> {<<"Other", d>>}
\* A record is <<name, type, class, ttl, data>>; {<<records, place after them>>}
RECURSIVE read_records(_, _, _), Questions(_, _, _)
read_records(b, pos, count) ==
    IF count = 0 THEN {<<<<>>, pos>>}
    ELSE UNION {LET at == pos + n[2]
                IN  IF at + 10 > Len(b) \/ at + 10 + u16(b, at + 8) > Len(b) THEN {}
                    ELSE {<<<<<<n[1], u16(b, at), u16(b, at + 2), SubSeq(b, at + 5, at + 8), d>>>> \o r[1], r[2]>>
                          : d \in parse_rdata(u16(b, at), SubSeq(b, at + 11, at + 10 + u16(b, at + 8))),
                            r \in read_records(b, at + 10 + u16(b, at + 8), count - 1)}
                : n \in read_name(b, pos)}
Questions(b, pos, count) ==
    IF count = 0 THEN {<<<<>>, pos>>}
    ELSE UNION {LET at == pos + n[2]
                IN  IF at + 4 > Len(b) THEN {}
                    ELSE {<<<<<<n[1], u16(b, at), u16(b, at + 2)>>>> \o r[1], r[2]>> : r \in Questions(b, at + 4, count - 1)}
                : n \in read_name(b, pos)}

Message_query(name, qtype) ==
    [id |-> 0, flags |-> <<{"recursion_desired"}, 0, 0>>,
     questions |-> <<<<Mapped(LAMBDA l : Mapped(lower, l), name), qtype, CLASS_IN>>>>,
     answers |-> <<>>, authorities |-> <<>>, additionals |-> <<>>]
Header(msg, counts) == be16(msg.id) \o be16(Flags_to_u16(msg.flags)) \o Flat(Mapped(be16, counts))
Question_bytes(q) == write_name(q[1]) \o be16(q[2]) \o be16(q[3])
to_bytes(msg) == Header(msg, <<Len(msg.questions), 0, 0, 0>>) \o Flat(Mapped(Question_bytes, msg.questions))
\* The three sections are read one after the other.
from_bytes(b) ==
    IF Len(b) < 12 THEN {}
    ELSE LET an == u16(b, 6)
             ns == u16(b, 8)
         IN  UNION {{[id |-> u16(b, 0), flags |-> Flags_from_u16(u16(b, 2)), questions |-> q[1],
                      answers |-> SubSeq(r[1], 1, an), authorities |-> SubSeq(r[1], an + 1, an + ns),
                      additionals |-> From(r[1], an + ns + 1)] : r \in read_records(b, q[2], an + ns + u16(b, 10))}
                    : q \in Questions(b, 12, u16(b, 4))}

----------------------------------------------------------------------------
(* cache.rs: dates and the lifetime of a response                          *)

\* A mutant: every fourth year is a leap year.
parse_days_Julian(year, month, day) ==
    LET y == IF month <= 2 THEN year - 1 ELSE year
        m == IF month <= 2 THEN month + 12 ELSE month
    IN  365 * y + (y \div 4) + ((367 * m - 362) \div 12) + day - 719163
\* The days since 1970 of a date, as parse_http_date counts them.
parse_days(year, month, day) ==
    LET y == IF month <= 2 THEN year - 1 ELSE year
        m == IF month <= 2 THEN month + 12 ELSE month
    IN  365 * y + (y \div 4) - (y \div 100) + (y \div 400) + ((367 * m - 362) \div 12) + day - 719163
\* The day 2006-01-02 of the comment in the code, the 13 150th, is read as a day a year later, and so is every other.
parse_http_date(date) == date + (parse_days(2006, 1, 2) - 13150)

\* A response is [status, cc, date, expires, body]: cc its directives in order, each <<name, value or -1>>, and -1 for
\* a header that is missing.  -1 is also "not cacheable".  The directives are looked at in order.
RECURSIVE Directives(_, _, _)
Directives(cc, date, now) ==
    IF cc = <<>> THEN <<"none">>
    ELSE CASE Head(cc)[1] \in {"no-store", "no-cache"} -> <<"until", -1>>
           [] Head(cc)[1] = "max-age" /\ Head(cc)[2] >= 0 ->
                <<"until", (IF date = -1 THEN now ELSE parse_http_date(date)) + Head(cc)[2]>>
           [] OTHER -> Directives(Tail(cc), date, now)
freshness_lifetime(response, now) ==
    LET d == Directives(response.cc, response.date, now)
    IN  CASE d[1] = "until" -> d[2]
          [] response.expires # -1 /\ parse_http_date(response.expires) > now -> parse_http_date(response.expires)
          [] OTHER -> -1

----------------------------------------------------------------------------
(* client.rs: query_raw, step by step, on threads that share a client      *)

\* A key tells method, address and message apart; the fingerprint of a body is taken to be without collisions.
\* A mutant: the body is left out.
key_NoBody(query) == "POST"
key(query) == query
\* What Cache::get returns: the body, if one is fresh.
Cache_get(k, now) == IF k \in DOMAIN entries /\ entries[k].expires_at > now THEN {entries[k].body} ELSE {}
Cache_store(k, response, now) ==
    LET until == freshness_lifetime(response, now)
    IN  IF until = -1 \/ until <= now THEN entries
        ELSE (k :> [body |-> response.body, expires_at |-> until]) @@ entries

NoCall == [at |-> "idle", query |-> "", response |-> <<>>]
NoAnswer == <<"", <<>>>>
DohInit ==
    /\ clock = 0 /\ entries = <<>> /\ given = NoAnswer
    /\ calls = [t \in Threads |-> NoCall]

Give(t, query, body) == calls' = [calls EXCEPT ![t] = NoCall] /\ given' = <<query, body>>
\* query_raw up to the request: from the cache, or on to the server.
Ask(t, query) ==
    /\ calls[t].at = "idle"
    /\ \/ \E body \in Cache_get(key(query), clock) : Give(t, query, body)
       \/ /\ Cache_get(key(query), clock) = {}
          /\ calls' = [calls EXCEPT ![t] = [NoCall EXCEPT !.at = "sent", !.query = query]]
          /\ given' = NoAnswer
    /\ UNCHANGED <<clock, entries>>
\* The resolver answers, with the date of this day and an expiry one day on where the answer has them.
Respond(t, answer) ==
    /\ calls[t].at = "sent"
    /\ calls' = [calls EXCEPT ![t].at = "answered",
                              ![t].response = [answer EXCEPT !.date = IF answer.date = -1 THEN -1 ELSE clock,
                                                             !.expires = IF answer.expires = -1 THEN -1 ELSE clock + 1,
                                                             !.body = [query |-> calls[t].query, of |-> answer]]]
    /\ given' = NoAnswer /\ UNCHANGED <<clock, entries>>
\* The rest of query_raw; any other status is an error and nothing is stored.
Finish(t) ==
    /\ calls[t].at = "answered"
    /\ IF calls[t].response.status # 200
       THEN calls' = [calls EXCEPT ![t] = NoCall] /\ given' = NoAnswer /\ UNCHANGED entries
       ELSE /\ entries' = Cache_store(key(calls[t].query), calls[t].response, clock)
            /\ Give(t, calls[t].query, calls[t].response.body)
    /\ UNCHANGED clock
Tick == clock < DohMaxTime /\ clock' = clock + 1 /\ given' = NoAnswer /\ UNCHANGED <<entries, calls>>
DohNext ==
    \/ \E t \in Threads : \/ \E q \in DohQueries : Ask(t, q)
                          \/ \E a \in DohAnswers : Respond(t, a)
                          \/ Finish(t)
    \/ Tick

----------------------------------------------------------------------------
(* Properties and samples                                                  *)

MaxAgeOf(cc) == LET m == SelectSeq(cc, LAMBDA d : d[1] = "max-age" /\ d[2] >= 0) IN IF m = <<>> THEN -1 ELSE m[1][2]
\* What a call returns answers its own query, whoever else uses the client; and an answer that is kept was a success, was
\* not marked as not to be kept, and is kept no longer than its max-age after the day it was stored.  (Of answers with a
\* date, or with no-store behind max-age, the code keeps too much: see parse_http_date and Directives.)
DohHonest ==
    /\ given # NoAnswer => given[2].query = given[1]
    /\ \A k \in DOMAIN entries :
          LET b == entries[k].body.of
          IN  /\ b.status = 200
              /\ b.cc # <<>> => b.cc[1][1] \notin {"no-store", "no-cache"}
              /\ b.date = -1 /\ MaxAgeOf(b.cc) >= 0 => entries[k].expires_at <= clock + MaxAgeOf(b.cc)
              /\ MaxAgeOf(b.cc) = -1 => b.expires # -1

OctetStrings == {<<>>, <<255>>, <<0>>, <<102, 111>>, <<1, 2, 3>>, <<255, 254, 253, 252>>, <<0, 0, 0, 0, 0>>, <<251, 239, 190, 62, 63, 191>>}
\* What is written for the address of a GET is read back, padded or not; and four characters stand for three octets.
Base64Reads(b) ==
    \A s \in {encode_nopad(b)} :
        /\ decode_nopad(s) = b /\ decode_nopad(Padded(s)) = b
        /\ \A i \in 1..Len(s) : s[i] # PAD
        /\ 3 * Len(s) <= 4 * Len(b) + 2

Www == <<119, 119, 119>>
Example == <<101, 120>>
Upper == <<69, 88>>
NameSamples == {<<>>, <<Example>>, <<Www, Upper>>, <<Www, <<>>, Example>>}
RecordSamples(name) ==
    {<<name, 1, 1, <<0, 0, 0, 60>>, <<"A", <<93, 184, 216, 34>>>>>>, <<name, 28, 1, <<127, 255, 255, 255>>, <<"Aaaa", Zeros(16)>>>>,
     <<name, 5, 1, Zeros(4), <<"Cname", <<Www, Example>>>>>>, <<name, 2, 1, Zeros(4), <<"Ns", <<>>>>>>,
     <<name, 12, 1, Zeros(4), <<"Ptr", <<Example>>>>>>, <<name, 15, 1, Zeros(4), <<"Mx", 256, <<Example>>>>>>,
     <<name, 16, 1, Zeros(4), <<"Txt", <<<<>>, <<65, 66>>>>>>>>, <<name, 99, 255, Zeros(4), <<"Other", <<1, 2>>>>>>}
RData_bytes(d) ==
    CASE d[1] \in {"A", "Aaaa", "Other"} -> d[2]
      [] d[1] \in {"Cname", "Ns", "Ptr"} -> write_name(d[2])
      [] d[1] = "Mx" -> be16(d[2]) \o write_name(d[3])
      [] d[1] = "Txt" -> Flat(Mapped(LAMBDA x : <<Len(x)>> \o x, d[2]))
\* The resolver writes the name of a record in full or as a pointer to that of the question.
Record_bytes(r, pointed) ==
    (IF pointed THEN <<192, 12>> ELSE write_name(r[1])) \o be16(r[2]) \o be16(r[3]) \o r[4]
      \o be16(Len(RData_bytes(r[5]))) \o RData_bytes(r[5])
Replying(msg, flags, an, ns, ar) == [msg EXCEPT !.flags = flags, !.answers = an, !.authorities = ns, !.additionals = ar, !.id = 65535]
ReplySamples ==
    UNION {{Replying(Message_query(n, 1), <<{"qr", "recursion_available", "authenticated"}, 4, 3>>, <<r, s>>, <<s>>, <<r>>)
            : r, s \in RecordSamples(n)} : n \in {<<Example>>, <<Www, Example>>}}
Reply_bytes(msg, pointed) ==
    Header(msg, <<1, Len(msg.answers), Len(msg.authorities), Len(msg.additionals)>>) \o Question_bytes(msg.questions[1])
      \o Flat(Mapped(LAMBDA r : Record_bytes(r, pointed), msg.answers \o msg.authorities \o msg.additionals))
DnsSamples == {<<"query", Message_query(n, t)>> : n \in NameSamples, t \in {1, 28, 65535}} \union {<<"reply", x>> : x \in ReplySamples}
NoEmpty(msg) == [msg EXCEPT !.questions[1][1] = SelectSeq(@, LAMBDA l : l # <<>>)]
\* A query is read as it was asked, in small letters and without empty labels; a reply as the resolver wrote it, names in
\* full or as pointers; a part of a message, and a name that points to itself, are refused.
DnsReads(x) ==
    IF x[1] = "query"
    THEN \A b \in {to_bytes(x[2])} : from_bytes(b) = {NoEmpty(x[2])} /\ from_bytes(SubSeq(b, 1, Len(b) - 1)) = {}
    ELSE /\ \A p \in BOOLEAN : from_bytes(Reply_bytes(x[2], p)) = {x[2]}
         /\ read_name(<<1, 97, 192, 0>>, 0) = {}
Dates == (1999..2001 \union {2099, 2100, 2101}) \X (1..12)
DaysIn(y, m) == IF m = 2 THEN (IF y % 4 = 0 /\ (y % 100 # 0 \/ y % 400 = 0) THEN 29 ELSE 28) ELSE IF m \in {4, 6, 9, 11} THEN 30 ELSE 31
\* The day after the last of a month is read as one day later: dates are in their order and as far apart as they are.
DaysFollow(d) ==
    parse_days(d[1] + (IF d[2] = 12 THEN 1 ELSE 0), (d[2] % 12) + 1, 1) = parse_days(d[1], d[2], DaysIn(d[1], d[2])) + 1
=============================================================================
