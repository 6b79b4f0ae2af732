----------------------------- MODULE SipMessage -----------------------------
(***************************************************************************)
(* tpt-sip: URIs, header fields, messages, their builders, dialogs and     *)
(* session descriptions.  A text is a sequence of words and of the         *)
(* characters the parsers look for, each of them a string; an escaped      *)
(* character (%40) is one element.  A parser gives a set, empty where the  *)
(* code returns an error; an option is a sequence of at most one element.  *)
(***************************************************************************)
EXTENDS Integers, FiniteSetsExt, SequencesExt, TLC

-----------------------------------------------------------------------------
(* Texts. *)

SP == " "
DQ == "\""
TAB == "tab"
Escapes == "@" :> "%40" @@ ":" :> "%3A" @@ ";" :> "%3B" @@ "=" :> "%3D" @@ " " :> "%20" @@ "?" :> "%3F" @@ "<" :> "%3C"
\* An escape that is no character of its own.
BadEscape == "%FF"
\* The numbers that occur; a numeral is one word.
Numbers == (0 .. 3) \union {5, 70, 100, 180, 183, 200, 404, 486, 487, 5060, 8000, 65535, 65536}
parse_number(t, max) == {n \in Numbers : n <= max /\ t = <<ToString(n)>>}

Index(t, c) == {i \in DOMAIN t : t[i] = c}
\* The parts before and after the first c, as an option.
split_once(t, c) ==
    IF Index(t, c) = {} THEN <<>>
    ELSE LET i == Min(Index(t, c)) IN <<<<SubSeq(t, 1, i - 1), SubSeq(t, i + 1, Len(t))>>>>
\* t, or the parts before and after the first c.
cut(t, c) ==
    IF Index(t, c) = {} THEN <<t>>
    ELSE LET i == Min(Index(t, c)) IN <<SubSeq(t, 1, i - 1), SubSeq(t, i + 1, Len(t))>>
\* The parts between all the c.
RECURSIVE split(_, _)
split(t, c) == LET parts(s) == IF Len(s) = 1 THEN s ELSE <<s[1]>> \o split(s[2], c) IN parts(cut(t, c))
Blanks == {SP, TAB}
Solid(t) == {i \in DOMAIN t : t[i] \notin Blanks}
trim(t) == IF Solid(t) = {} THEN <<>> ELSE SubSeq(t, Min(Solid(t)), Max(Solid(t)))
trim_start(t) == IF Solid(t) = {} THEN <<>> ELSE SubSeq(t, Min(Solid(t)), Len(t))
trim_end(t) == IF Solid(t) = {} THEN <<>> ELSE SubSeq(t, 1, Max(Solid(t)))
split_whitespace(t) == SelectSeq(split([i \in DOMAIN t |-> IF t[i] = TAB THEN SP ELSE t[i]], SP), LAMBDA p : p # <<>>)
starts_with(t, c) == t # <<>> /\ t[1] = c
\* Names are compared without regard to case: these are the spellings that occur.
Canonical == "VIA" :> "Via" @@ "cseq" :> "CSeq" @@ "content-length" :> "Content-Length" @@ "TAG" :> "tag" @@ "LR" :> "lr"
eq_ignore_ascii_case(a, b) ==
    LET canon(t) == [i \in DOMAIN t |-> IF t[i] \in DOMAIN Canonical THEN Canonical[t[i]] ELSE t[i]]
    IN  canon(a) = canon(b)

-----------------------------------------------------------------------------
(* URIs. *)

escape(t) == [i \in DOMAIN t |-> IF t[i] \in DOMAIN Escapes THEN Escapes[t[i]] ELSE t[i]]
unescape(t) ==
    IF BadEscape \in Range(t) THEN {}
    ELSE {[i \in DOMAIN t |-> IF t[i] \in Range(Escapes) THEN CHOOSE c \in DOMAIN Escapes : Escapes[c] = t[i] ELSE t[i]]}
\* Parameters: a name and, as an option, a value.
flag(name) == [name |-> name, value |-> <<>>]
with_value(name, value) == [name |-> name, value |-> <<value>>]
parse_param(part) ==
    LET s == split_once(part, "=")
    IN  IF s = <<>> THEN {flag(part)} ELSE {with_value(s[1][1], v) : v \in unescape(s[1][2])}
\* All the results of a list of parsers, or none where one fails.
Collect(results) ==
    IF \E i \in DOMAIN results : results[i] = {} THEN {}
    ELSE {[i \in DOMAIN results |-> CHOOSE x \in results[i] : TRUE]}
parse_params(t, sep) ==
    LET parts == SelectSeq(split(t, sep), LAMBDA p : p # <<>>)
    IN  Collect([i \in DOMAIN parts |-> parse_param(parts[i])])
\* The value of the first parameter of that name: a flag hides a value behind it.
param(params, name) ==
    LET found == SelectSeq(params, LAMBDA p : eq_ignore_ascii_case(p.name, name))
    IN  IF found = <<>> THEN <<>> ELSE found[1].value
Param_text(p) == p.name \o (IF p.value = <<>> THEN <<>> ELSE <<"=">> \o p.value[1])
Params_text(params) == FlattenSeq([i \in DOMAIN params |-> <<";">> \o Param_text(params[i])])
is_lr(u) == \E i \in DOMAIN u.params : eq_ignore_ascii_case(u.params[i].name, <<"lr">>)

Port_text(port) == IF port = <<>> THEN <<>> ELSE <<":", ToString(port[1])>>
\* An IPv6 address is kept without its brackets and written without them.
split_host_port(t) ==
    IF starts_with(t, "[")
    THEN LET s == split_once(Tail(t), "]")
         IN  IF s = <<>> THEN {}
             ELSE IF starts_with(s[1][2], ":") THEN {<<s[1][1], <<p>>>> : p \in parse_number(Tail(s[1][2]), 65535)}
             ELSE {<<s[1][1], <<>>>>}
    ELSE LET colons == Index(t, ":")
             last == Max(colons)
             port == parse_number(SubSeq(t, last + 1, Len(t)), 65535)
         IN  IF Cardinality(colons) = 1 /\ last > 1 /\ port # {}
             THEN {<<SubSeq(t, 1, last - 1), <<p>>>> : p \in port}
             ELSE {<<t, <<>>>>}
Uri_text(u) ==
    <<u.scheme, ":">>
      \o (IF u.user = <<>> THEN <<>>
          ELSE escape(u.user[1]) \o (IF u.password = <<>> THEN <<>> ELSE <<":">> \o escape(u.password[1])) \o <<"@">>)
      \o u.host \o Port_text(u.port) \o Params_text(u.params)
      \o (IF u.headers = <<>> THEN <<>>
          ELSE <<"?">> \o FlattenSeq([i \in DOMAIN u.headers |->
                                        (IF i = 1 THEN <<>> ELSE <<"&">>) \o Param_text(u.headers[i])]))
Uri_parse(t) ==
    LET optional(parts, sep) == IF Len(parts) = 1 THEN {<<>>} ELSE parse_params(parts[2], sep)
        userinfo(parts) == {<<<<u>>, p>> : u \in unescape(parts[1]),
                                           p \in IF Len(parts) = 1 THEN {<<>>} ELSE {<<x>> : x \in unescape(parts[2])}}
        authority(a, ps, hs) ==
            {[scheme |-> t[1], user |-> u[1], password |-> u[2], host |-> h[1], port |-> h[2], params |-> ps, headers |-> hs] :
             u \in IF Len(a) = 1 THEN {<<<<>>, <<>>>>} ELSE userinfo(cut(a[1], ":")),
             h \in {x \in split_host_port(a[Len(a)]) : x[1] # <<>>}}
        with_params(s, hs) == UNION {authority(cut(s[1], "@"), ps, hs) : ps \in optional(s, ";")}
        with_headers(q) == UNION {with_params(cut(q[1], ";"), hs) : hs \in optional(q, "&")}
    IN  IF Len(t) < 2 THEN {}
        ELSE IF t[1] \notin {"sip", "sips"} \/ t[2] # ":" THEN {}
        ELSE with_headers(cut(SubSeq(t, 3, Len(t)), "?"))

-----------------------------------------------------------------------------
(* Methods and header values. *)

Methods == {"INVITE", "ACK", "BYE", "CANCEL", "REGISTER", "OPTIONS"}
Upper == "invite" :> "INVITE" @@ "Bye" :> "BYE"
\* Other methods are kept as they are spelt.
Method_parse(t) ==
    IF t = <<>> THEN {}
    ELSE {IF Len(t) = 1 /\ t[1] \in DOMAIN Upper THEN <<Upper[t[1]]>> ELSE t}

Via_text(v) == v.protocol \o <<SP>> \o v.host \o Port_text(v.port) \o Params_text(v.params)
Via_parse(entry) ==
    LET sent_by(protocol, p) ==
            {[protocol |-> protocol, host |-> h[1], port |-> h[2], params |-> ps] :
             h \in split_host_port(trim(p[1])), ps \in IF Len(p) = 1 THEN {<<>>} ELSE parse_params(p[2], ";")}
        parts(s) == sent_by(s[1], cut(IF Len(s) = 1 THEN <<>> ELSE s[2], ";"))
    IN  parts(cut(entry, SP))
parse_via(value) ==
    LET parts == split(value, ",")
        entries == SelectSeq([i \in DOMAIN parts |-> trim(parts[i])], LAMBDA e : e # <<>>)
    IN  IF entries = <<>> THEN {} ELSE Collect([i \in DOMAIN entries |-> Via_parse(entries[i])])
branch(v) == param(v.params, <<"branch">>)

\* A display name of several words is quoted.
NameAddr_text(na) ==
    (IF na.display = <<>> THEN <<>>
     ELSE IF SP \in Range(na.display[1]) THEN <<DQ>> \o na.display[1] \o <<DQ, SP>> ELSE na.display[1] \o <<SP>>)
      \o <<"<">> \o Uri_text(na.uri) \o <<">">> \o Params_text(na.params)
\* The display name, as an option, and what follows it.
Display(value) ==
    LET closed == split_once(Tail(value), DQ)
        opened == Index(value, "<")
        word == trim(SubSeq(value, 1, Min(opened) - 1))
    IN  IF starts_with(value, DQ)
        THEN {<<<<c[1]>>, trim_start(c[2])>> : c \in Range(closed)}
        ELSE IF opened = {} THEN {<<<<>>, value>>}
        ELSE {<<IF word = <<>> THEN <<>> ELSE <<word>>, SubSeq(value, Min(opened), Len(value))>>}
\* The URI, in brackets or up to the first semicolon, and the parameters behind it.
Enclosed(after) ==
    IF starts_with(after, "<") THEN {<<trim(e[1]), e[2]>> : e \in Range(split_once(Tail(after), ">"))}
    ELSE LET s == split_once(after, ";")
         IN  IF s = <<>> THEN {<<trim(after), <<>>>>} ELSE {<<trim(s[1][1]), s[1][2]>>}
parse_name_addr(raw) ==
    UNION {UNION {{[display |-> d[1], uri |-> u, params |-> ps] : u \in Uri_parse(e[1]),
                                                               ps \in IF trim(e[2]) = <<>> THEN {<<>>} ELSE parse_params(e[2], ";")} :
                  e \in Enclosed(d[2])} : d \in Display(trim(raw))}
tag(na) == param(na.params, <<"tag">>)
with_tag(na, t) == [na EXCEPT !.params = Append(@, with_value(<<"tag">>, t))]
named(u) == [display |-> <<>>, uri |-> u, params |-> <<>>]

CSeq_text(seq, method) == <<ToString(seq), SP>> \o method
parse_cseq(value) ==
    LET it == split_whitespace(value)
    IN  IF Len(it) < 2 THEN {}
        ELSE {[seq |-> n, method |-> m] : n \in parse_number(it[1], 65536), m \in Method_parse(it[2])}

-----------------------------------------------------------------------------
(* Messages.  On the wire a message is its lines up to the empty one and   *)
(* its body, a sequence of characters; "e'" takes two octets.              *)

Header(name, value) == [name |-> <<name>>, value |-> value]
is_request(m) == m.start.kind = "Request"
Request_line(method, uri) == [kind |-> "Request", method |-> method, uri |-> uri]
reason_phrase == [c \in Numbers |-> CASE c = 100 -> <<"Trying">> [] c = 180 -> <<"Ringing">> [] c = 200 -> <<"OK">>
                                      [] c = 404 -> <<"Not", SP, "Found">> [] c = 486 -> <<"Busy", SP, "Here">>
                                      [] c = 487 -> <<"Request", SP, "Terminated">> [] OTHER -> <<"Unknown">>]
Status_line(code, reason) ==
    [kind |-> "Status", code |-> code, reason |-> IF reason = <<>> THEN reason_phrase[code] ELSE reason]

headers_for(m, name) == SelectSeq(m.headers, LAMBDA h : eq_ignore_ascii_case(h.name, <<name>>))
\* The value of the first field of that name, as an option.
header_value(m, name) == LET hs == headers_for(m, name) IN IF hs = <<>> THEN <<>> ELSE <<hs[1].value>>
remove_header(m, name) == [m EXCEPT !.headers = SelectSeq(@, LAMBDA h : ~eq_ignore_ascii_case(h.name, <<name>>))]
add_header(m, h) == [m EXCEPT !.headers = Append(@, h)]
set_header(m, h) == add_header(remove_header(m, h.name[1]), h)
call_id(m) == IF header_value(m, "Call-ID") = <<>> THEN header_value(m, "CallId") ELSE header_value(m, "Call-ID")
\* Fields that cannot be read are passed over, among several, or are as good as absent.
OptionOf(results) == IF results = {} THEN <<>> ELSE <<CHOOSE x \in results : TRUE>>
Readable(m, name, Parse(_)) ==
    LET hs == headers_for(m, name) IN FlattenSeq([i \in DOMAIN hs |-> OptionOf(Parse(hs[i].value))])
First(m, name, Parse(_)) == LET v == header_value(m, name) IN IF v = <<>> THEN <<>> ELSE OptionOf(Parse(v[1]))
via(m) == FlattenSeq(Readable(m, "Via", parse_via))
top_via(m) == LET first(vs) == IF vs = <<>> THEN <<>> ELSE <<vs[1]>> IN first(via(m))
from(m) == First(m, "From", parse_name_addr)
to(m) == First(m, "To", parse_name_addr)
contact(m) == Readable(m, "Contact", parse_name_addr)
cseq(m) == First(m, "CSeq", parse_cseq)
parse_length(value) == parse_number(trim(value), 65536)
content_length(m) == First(m, "Content-Length", parse_length)
max_forwards(m) == First(m, "Max-Forwards", parse_length)
method(m) == IF is_request(m) THEN <<m.start.method>> ELSE LET c == cseq(m) IN IF c = <<>> THEN <<>> ELSE <<c[1].method>>

Octets(body) == FoldLeft(LAMBDA n, c : n + (IF c = "e'" THEN 2 ELSE 1), 0, body)
Start_text(s) ==
    IF s.kind = "Request" THEN s.method \o <<SP>> \o Uri_text(s.uri) \o <<SP, "SIP/2.0">>
    ELSE <<"SIP/2.0", SP, ToString(s.code), SP>> \o s.reason
\* The length is counted in octets, and given only where there is a body.
to_bytes(m) ==
    LET line(h) == h.name \o <<":", SP>> \o h.value
        need == headers_for(m, "Content-Length") = <<>> /\ m.body # <<>>
    IN  [lines |-> <<Start_text(m.start)>> \o [i \in DOMAIN m.headers |-> line(m.headers[i])]
                     \o (IF need THEN <<line(Header("Content-Length", <<ToString(Octets(m.body))>>))>> ELSE <<>>),
         body |-> m.body]
\* A mutant: the continuation is joined without a blank.
Unfolded_Joined(lines) ==
    FoldLeft(LAMBDA acc, l : IF acc # <<>> /\ l # <<>> /\ l[1] \in Blanks
                             THEN [acc EXCEPT ![Len(acc)] = @ \o Tail(l)] ELSE Append(acc, l), <<>>, lines)
\* A line that begins with a blank goes on with the one before.
Unfolded(lines) ==
    FoldLeft(LAMBDA acc, l : IF acc # <<>> /\ l # <<>> /\ l[1] \in Blanks
                             THEN [acc EXCEPT ![Len(acc)] = @ \o <<SP>> \o Tail(l)] ELSE Append(acc, l), <<>>, lines)
parse_start_line(raw) ==
    LET status(r) == {Status_line(c, IF Len(r) = 1 THEN <<>> ELSE r[2]) : c \in parse_number(r[1], 65535)}
        request(m, r) == {Request_line(x, u) : x \in Method_parse(m), u \in Uri_parse(r[1])}
        words(s) == IF Len(s) = 1 THEN {}
                    ELSE IF starts_with(s[1], "SIP/2.0") THEN status(cut(s[2], SP)) ELSE request(s[1], cut(s[2], SP))
    IN  words(cut(trim_end(raw), SP))
parse_header(line) == {[name |-> trim(s[1]), value |-> trim(s[2])] : s \in Range(split_once(line, ":"))}
\* The body is cut at as many characters as the length says.
Message_parse(w) ==
    LET lines == Unfolded(w.lines)
        fields == SelectSeq(Tail(lines), LAMBDA l : l # <<>>)
        read(st, hs) ==
            LET m == [start |-> st, headers |-> hs, body |-> w.body]
                n == content_length(m)
            IN  IF n = <<>> THEN {m} ELSE IF Len(w.body) < n[1] THEN {} ELSE {[m EXCEPT !.body = SubSeq(@, 1, n[1])]}
    IN  UNION {read(st, hs) : st \in parse_start_line(lines[1]),
                              hs \in Collect([i \in DOMAIN fields |-> parse_header(fields[i])])}

-----------------------------------------------------------------------------
(* Builders of requests and responses. *)

RequestBuilder(m, uri, fr) ==
    [method |-> m, uri |-> uri, from |-> fr, to |-> [display |-> fr.display, uri |-> uri, params |-> <<>>],
     call_id |-> <<"id">>, cseq |-> 1, cseq_method |-> m, protocol |-> <<"SIP/2.0/UDP">>, host |-> <<"localhost">>,
     port |-> 5060, branch |-> <<"b1">>, contact |-> <<>>, max_forwards |-> 70, extra |-> <<>>, body |-> <<>>]
OrEmpty(option) == IF option = <<>> THEN <<>> ELSE option[1]
Contacts(list) == [i \in DOMAIN list |-> Header("Contact", NameAddr_text(list[i]))]
RequestBuilder_build(b) ==
    [start |-> Request_line(b.method, b.uri),
     headers |-> <<Header("Via", b.protocol \o <<SP>> \o b.host \o <<":", ToString(b.port), ";", "branch", "=">> \o b.branch),
                   Header("Max-Forwards", <<ToString(b.max_forwards)>>),
                   Header("From", NameAddr_text(b.from)), Header("To", NameAddr_text(b.to)),
                   Header("Call-ID", b.call_id), Header("CSeq", CSeq_text(b.cseq, b.cseq_method))>>
                 \o Contacts(b.contact) \o b.extra,
     body |-> b.body]
register(uri, fr, c) == [RequestBuilder(<<"REGISTER">>, uri, fr) EXCEPT !.contact = <<c>>]
invite(uri, fr, c) == [RequestBuilder(<<"INVITE">>, uri, fr) EXCEPT !.contact = <<c>>]
options(uri, fr) == RequestBuilder(<<"OPTIONS">>, uri, fr)
bye(uri, fr) == RequestBuilder(<<"BYE">>, uri, fr)
ack(uri, fr, t, id, seq, br) ==
    RequestBuilder_build([RequestBuilder(<<"ACK">>, uri, fr) EXCEPT !.to = t, !.call_id = id, !.cseq = seq, !.branch = br])
\* CANCEL repeats what names the request it is about.
cancel(m, br) ==
    LET of(fr, t, c) ==
            IF fr = <<>> \/ t = <<>> \/ ~is_request(m) THEN {}
            ELSE {RequestBuilder_build([RequestBuilder(<<"CANCEL">>, m.start.uri, fr[1])
                                          EXCEPT !.to = t[1], !.branch = br, !.call_id = OrEmpty(call_id(m)),
                                                 !.cseq = IF c = <<>> THEN 1 ELSE c[1].seq])}
    IN  of(from(m), to(m), cseq(m))

\* The text "tag=t" occurs, be it as the beginning of a longer tag: 7 begins 7a.
begins(word, t) == word = t \/ <<word, t>> = <<"7a", "7">>
contains_tag(text, t) ==
    \E i \in 1 .. Len(text) - 2 : text[i] = "tag" /\ text[i + 1] = "=" /\ begins(text[i + 2], t[1])
\* A response to request req; tg, the tag to be given to the To field, is an option.
ResponseBuilder_build(req, code, reason, tg, ct, extra, body) ==
    LET vias == headers_for(req, "Via")
        value(name) == OrEmpty(header_value(req, name))
        toValue == value("To")
    IN  [start |-> Status_line(code, reason),
         headers |-> [i \in DOMAIN vias |-> Header("Via", vias[i].value)]
                       \o <<Header("From", value("From")),
                            Header("To", IF tg = <<>> \/ (tg # <<>> /\ contains_tag(toValue, tg[1])) THEN toValue
                                         ELSE toValue \o <<";", "tag", "=">> \o tg[1]),
                            Header("Call-ID", OrEmpty(call_id(req))), Header("CSeq", value("CSeq"))>>
                       \o Contacts(ct) \o extra,
         body |-> body]

-----------------------------------------------------------------------------
(* Dialogs. *)

Record_routes(m) == LET nas == Readable(m, "Record-Route", parse_name_addr) IN [i \in DOMAIN nas |-> nas[i].uri]
\* A mutant: in the order they were recorded.
Uac_routes_Forward(m) == Record_routes(m)
\* The caller sends along them in the opposite order.
Uac_routes(m) == Reverse(Record_routes(m))
Secure(a, b) == "sips" \in {a.uri.scheme, b.uri.scheme}
\* The remote URI of the caller's dialog is the one of the From field.
from_uac_response(m, localUri, localTag) ==
    LET code == IF is_request(m) THEN 0 ELSE m.start.code
        of(id, t, fr, c) ==
            IF code \notin 100 .. 699 \/ <<>> \in {id, t, fr, c} THEN {}
            ELSE IF code \notin 200 .. 299 /\ tag(t[1]) = <<>> THEN {}
            ELSE {[call_id |-> id[1], local_uri |-> localUri, remote_uri |-> fr[1].uri,
                   remote_tag |-> tag(t[1]), local_tag |-> localTag, route_set |-> Uac_routes(m),
                   remote_target |-> c[1].uri, secure |-> Secure(t[1], fr[1]),
                   state |-> IF code \in 200 .. 299 THEN "Confirmed" ELSE "Early", local_cseq |-> 1]}
    IN  of(call_id(m), to(m), from(m), contact(m))
from_uas_request(m, localTag) ==
    LET of(id, t, fr, c) ==
            IF <<>> \in {id, t, fr, c} THEN {}
            ELSE {[call_id |-> id[1], local_uri |-> t[1].uri, remote_uri |-> fr[1].uri,
                   remote_tag |-> tag(fr[1]), local_tag |-> localTag, route_set |-> Record_routes(m),
                   remote_target |-> c[1].uri, secure |-> Secure(t[1], fr[1]),
                   state |-> "Early", local_cseq |-> 1]}
    IN  of(call_id(m), to(m), from(m), contact(m))
confirm(d) == [d EXCEPT !.state = "Confirmed"]

-----------------------------------------------------------------------------
(* Session descriptions: lines of a letter, "=" and a text. *)

NoSdp == [version |-> 0, origin |-> <<>>, session_name |-> <<>>, connection |-> <<>>, timing |-> <<>>,
          attributes |-> <<>>, media |-> <<>>]
Media_parse(val) ==
    LET it == split_whitespace(val)
    IN  IF Len(it) < 3 THEN {}
        ELSE {[media |-> it[1], port |-> p, proto |-> it[3], formats |-> SubSeq(it, 4, Len(it)), attributes |-> <<>>] :
              p \in parse_number(it[2], 65536)}
\* One line read into the description d, whether a version was seen; the media are added as they begin,
\* so that an attribute belongs to the last of them.
Sdp_line(d, line) ==
    LET s == split_once(line, "=")
        typ == s[1][1]
        val == s[1][2]
    IN  IF s = <<>> THEN {}
        ELSE CASE typ = <<"v">> -> {[d EXCEPT !.sdp.version = n, !.seen = TRUE] : n \in parse_number(val, 65536)}
               [] typ = <<"o">> -> {[d EXCEPT !.sdp.origin = val]}
               [] typ = <<"s">> -> {[d EXCEPT !.sdp.session_name = val]}
               [] typ = <<"c">> -> {[d EXCEPT !.sdp.connection = <<val>>]}
               [] typ = <<"t">> -> {[d EXCEPT !.sdp.timing = val]}
               [] typ = <<"a">> /\ d.sdp.media = <<>> -> {[d EXCEPT !.sdp.attributes = Append(@, val)]}
               [] typ = <<"a">> /\ d.sdp.media # <<>> ->
                    {[d EXCEPT !.sdp.media[Len(d.sdp.media)].attributes = Append(@, val)]}
               [] typ = <<"m">> -> {[d EXCEPT !.sdp.media = Append(@, m)] : m \in Media_parse(val)}
               [] OTHER -> {d}
Sdp_parse(lines) ==
    LET solid == SelectSeq([i \in DOMAIN lines |-> trim_end(lines[i])], LAMBDA l : l # <<>>)
        end == FoldLeft(LAMBDA ds, l : UNION {Sdp_line(d, l) : d \in ds}, {[sdp |-> NoSdp, seen |-> FALSE]}, solid)
    IN  {d.sdp : d \in {x \in end : x.seen}}
Joined(words) == FlattenSeq([i \in DOMAIN words |-> (IF i = 1 THEN <<>> ELSE <<SP>>) \o words[i]])
Lines(c, values) == [i \in DOMAIN values |-> <<c, "=">> \o values[i]]
Media_text(m) ==
    Lines("m", <<Joined(<<m.media, <<ToString(m.port)>>, m.proto>>) \o <<SP>> \o Joined(m.formats)>>) \o Lines("a", m.attributes)
Sdp_text(d) ==
    Lines("v", <<<<ToString(d.version)>>>>) \o Lines("o", <<d.origin>>) \o Lines("s", <<d.session_name>>)
      \o Lines("c", d.connection) \o Lines("t", <<IF d.timing = <<>> THEN <<"0", SP, "0">> ELSE d.timing>>)
      \o Lines("a", d.attributes) \o FlattenSeq([i \in DOMAIN d.media |-> Media_text(d.media[i])])
audio_offer(origin, port, payloads, codecs) ==
    [NoSdp EXCEPT !.origin = origin, !.session_name = <<"tpt-sip">>, !.connection = <<<<"IN", SP, "IP4", SP, "0.0.0.0">>>>,
                  !.timing = <<"0", SP, "0">>, !.attributes = <<<<"sendrecv">>>>,
                  !.media = <<[media |-> <<"audio">>, port |-> port, proto |-> <<"RTP/AVP">>,
                               formats |-> [i \in DOMAIN payloads |-> <<ToString(payloads[i])>>],
                               attributes |-> [i \in DOMAIN codecs |-> <<"rtpmap", ":", ToString(payloads[i]), SP, codecs[i]>>]]>>]

-----------------------------------------------------------------------------
(* What the codec and the dialogs promise. *)

Plain(user, host) == [scheme |-> "sip", user |-> <<<<user>>>>, password |-> <<>>, host |-> <<host>>, port |-> <<>>,
                      params |-> <<>>, headers |-> <<>>]
Alice == Plain("alice", "example.com")
Bob == [Plain("bob", "example.org") EXCEPT !.port = <<5060>>]
Proxy(h) == [Plain("p", h) EXCEPT !.user = <<>>, !.params = <<flag(<<"lr">>)>>]
Uris == {Alice, Bob, Proxy("p1"), [Alice EXCEPT !.scheme = "sips", !.port = <<65535>>],
         [Alice EXCEPT !.user = <<<<"a", "@", "b", ";", "c">>>>, !.password = <<<<"p", ":", "?">>>>],
         [Alice EXCEPT !.host = <<":", ":", "1">>],
         [Bob EXCEPT !.params = <<with_value(<<"transport">>, <<"udp">>), flag(<<"LR">>)>>,
                     !.headers = <<with_value(<<"subject">>, <<"x">>), flag(<<"y">>)>>]}
Displays == {<<>>, <<<<"Bob">>>>, <<<<"Bob", SP, "B">>>>}
Names == {[display |-> d, uri |-> u, params |-> ps] :
          d \in Displays, u \in Uris, ps \in {<<>>, <<with_value(<<"tag">>, <<"7a">>)>>, <<flag(<<"q">>), flag(<<"tag">>)>>}}
Vias == {[protocol |-> <<"SIP/2.0/TCP">>, host |-> h, port |-> p, params |-> <<with_value(<<"branch">>, <<"b1">>), flag(<<"rport">>)>>] :
         h \in {<<"h">>, <<":", ":", "1">>}, p \in {<<>>}} \union
        {[protocol |-> <<"SIP/2.0/UDP">>, host |-> <<"h">>, port |-> <<0>>, params |-> <<>>]}
Routes == <<Header("Record-Route", NameAddr_text(named(Proxy("p1")))), Header("Record-Route", NameAddr_text(named(Proxy("p2"))))>>
Callers == {with_tag([named(Alice) EXCEPT !.display = d], <<"7">>) : d \in Displays}
Builders == {invite(Bob, fr, named(Alice)) : fr \in Callers}
              \union {[invite([Bob EXCEPT !.scheme = "sips"], fr, named(Bob)) EXCEPT !.extra = Routes, !.body = <<"x", "y">>] : fr \in Callers}
              \union {[register(Bob, fr, named(Alice)) EXCEPT !.cseq = 3, !.branch = <<"b2">>] : fr \in Callers}
              \union {options(Bob, named(Alice)), bye(Bob, named(Alice))}
Requests == {RequestBuilder_build(b) : b \in Builders}
              \union {ack(Bob, named(Alice), with_tag(named(Bob), <<"7a">>), <<"id">>, 2, <<"b3">>)}
Renumbered(reqs) == {set_header(r, Header("cseq", CSeq_text(2, r.start.method))) : r \in reqs}
Answers(reqs) == {ResponseBuilder_build(r, c, <<>>, t, <<named(Bob)>>, headers_for(r, "Record-Route"), <<>>) :
            r \in reqs, c \in {100, 180, 200, 486}, t \in {<<>>, <<<<"7">>>>, <<<<"7a">>>>}}
Offers == {audio_offer(<<"o">>, 8000, <<0>>, <<"PCMU">>), audio_offer(<<"o">>, 5060, <<0, 3>>, <<"PCMU", "GSM">>),
           [audio_offer(<<"o">>, 1, <<0>>, <<>>) EXCEPT !.connection = <<>>, !.media = Append(@, [@[1] EXCEPT !.media = <<"video">>])]}
Messages(reqs) == reqs \union Renumbered(reqs) \union Answers(reqs)
SipSamples == {[kind |-> "uri", of |-> u] : u \in Uris} \union {[kind |-> "name", of |-> n] : n \in Names}
                \union {[kind |-> "via", of |-> v] : v \in Vias} \union {[kind |-> "message", of |-> m] : m \in Messages(Requests)}
                \union {[kind |-> "sdp", of |-> d] : d \in Offers}

\* The message as it is read again: with the length that was added.
WithLength(m) ==
    IF m.body = <<>> \/ content_length(m) # <<>> THEN m
    ELSE add_header(m, Header("Content-Length", <<ToString(Octets(m.body))>>))
\* The ways to fold a line of the message at a blank inside a value.
Folds(w) ==
    UNION {{[w EXCEPT !.lines = SubSeq(@, 1, i - 1) \o <<SubSeq(@[i], 1, k - 1), <<TAB>> \o SubSeq(@[i], k + 1, Len(@[i]))>>
                                  \o SubSeq(@, i + 1, Len(@))] :
            k \in {j \in DOMAIN w.lines[i] : j > 3 /\ w.lines[i][j] = SP}} : i \in 2 .. Len(w.lines)}
\* Every URI, name, Via entry, message and description is read as it was written, a message also when its lines
\* are folded at blanks; the names and values of a parameter hold no reserved characters, an IPv6 host comes
\* without a port and a body has characters of one octet (uri.rs, headers.rs, message.rs, sdp.rs).
SipReads(s) ==
    CASE s.kind = "uri" -> Uri_parse(Uri_text(s.of)) = {s.of}
      [] s.kind = "name" -> parse_name_addr(NameAddr_text(s.of)) = {s.of}
      [] s.kind = "via" -> parse_via(Via_text(s.of)) = {<<s.of>>}
      [] s.kind = "sdp" -> Sdp_parse(Sdp_text(s.of)) = {s.of}
      [] s.kind = "message" ->
           LET folded(w) == {w} \union Folds(w)
           IN  \A w \in folded(to_bytes(s.of)) : Message_parse(w) = {WithLength(s.of)}

\* The two ends of a call agree on the dialog: a caller that hears the answer and the callee that gave it hold the same
\* Call-ID, each other's tags and contacts, and the routes in opposite order; the answer names the request's
\* transaction, and so does a CANCEL of it (methods.rs, dialog.rs).
DialogsMirror(s) ==
    s.kind = "message" /\ is_request(s.of) =>
    \A code \in {180, 200}, t \in {<<"9">>, <<"7a">>} : \A req \in Message_parse(to_bytes(s.of)) :
        LET sent == ResponseBuilder_build(req, code, <<>>, <<t>>, <<named(Bob)>>, headers_for(req, "Record-Route"), <<>>)
        IN  \A heard \in Message_parse(to_bytes(sent)) :
              /\ top_via(heard) = top_via(req) /\ cseq(heard) = cseq(req) /\ method(heard) = method(req)
              /\ \A uas \in from_uas_request(req, t) :
                   \E uac \in from_uac_response(heard, Alice, OrEmpty(tag(from(req)[1]))) :
                     /\ uac.call_id = uas.call_id /\ uac.secure = uas.secure
                     /\ uac.remote_tag = <<uas.local_tag>> /\ uas.remote_tag = <<uac.local_tag>>
                     /\ uac.remote_target = Bob /\ uas.remote_target = contact(req)[1].uri
                     /\ uac.route_set = Reverse(uas.route_set)
                     /\ uac.state = (IF code = 200 THEN confirm(uas) ELSE uas).state
                     /\ \A u \in Range(uac.route_set) : is_lr(u)
              /\ \A c \in cancel(req, branch(top_via(req)[1])[1]) :
                   /\ \A v \in {"Call-ID", "From", "To"} : header_value(c, v) = header_value(req, v)
                   /\ branch(top_via(c)[1]) = branch(top_via(req)[1]) /\ cseq(c)[1].seq = cseq(req)[1].seq
                   /\ c.start.uri = req.start.uri /\ max_forwards(c) = max_forwards(req)
=============================================================================
