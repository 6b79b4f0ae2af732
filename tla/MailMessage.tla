----------------------------- MODULE MailMessage -----------------------------
(***************************************************************************)
(* tpt-smtp message.rs and reply.rs: messages of the Internet Message      *)
(* Format, built, read, and taken apart into the parts of their MIME       *)
(* structure, and the replies of a server.  A text                         *)
(* is a sequence of words and of the characters the parsers look for, each *)
(* of them a string; CR and LF are characters like others.  An option is a *)
(* sequence of at most one element.                                        *)
(***************************************************************************)
EXTENDS Integers, FiniteSetsExt, SequencesExt, TLC

CR == "cr"
LF == "lf"
CRLF == <<CR, LF>>
SP == " "
DQ == "\""
Blanks == {SP, "tab", CR, LF}

Index(t, c) == {i \in DOMAIN t : t[i] = c}
\* The parts between all the c.
split(t, c) ==
    FoldLeft(LAMBDA parts, x : IF x = c THEN Append(parts, <<>>)
                               ELSE [parts EXCEPT ![Len(parts)] = Append(@, x)], <<<<>>>>, t)
From(t, i) == SubSeq(t, i, Len(t))
\* The parts before and after the first c, as an option.
split_once(t, c) == IF Index(t, c) = {} THEN <<>> ELSE LET i == Min(Index(t, c)) IN <<<<SubSeq(t, 1, i - 1), From(t, i + 1)>>>>
Solid(t) == {i \in DOMAIN t : t[i] \notin Blanks}
trim(t) == IF Solid(t) = {} THEN <<>> ELSE SubSeq(t, Min(Solid(t)), Max(Solid(t)))
trim_start(t) == IF Solid(t) = {} THEN <<>> ELSE From(t, Min(Solid(t)))
strip_suffix(t, c) == IF t # <<>> /\ Last(t) = c THEN Front(t) ELSE t
\* The lines of a text, without their LF or CRLF.
split_lines(t) == LET parts == split(t, LF) IN FoldLeft(LAMBDA ls, p : Append(ls, strip_suffix(p, CR)), <<>>, parts)
join(parts, sep) == FoldLeft(LAMBDA t, p : IF t = <<>> THEN p ELSE t \o sep \o p, <<>>, parts)
\* Where the text s begins in t.
PlacesOf(t, s) == {i \in 1 .. Len(t) - Len(s) + 1 : SubSeq(t, i, i + Len(s) - 1) = s}
\* The spellings that occur of words compared without regard to case.
Lowercase == "TO" :> "To" @@ "Multipart/" :> "multipart/" @@ "BOUNDARY=" :> "boundary=" @@ "b" :> "B" @@ "q" :> "Q"
lower(t) == [i \in DOMAIN t |-> IF t[i] \in DOMAIN Lowercase THEN Lowercase[t[i]] ELSE t[i]]

\* Words with characters beyond ASCII, and base64: texts and what they are encoded as.
NonAscii == {"gruen", "ae"}
Base64 == (<<"gruen">> :> <<"Z3LD", "vG4=">>) @@ (<<"gruen", SP, "x">> :> <<"Z3LD", "vG4g", "eA==">>)
            @@ (<<"ae">> :> <<"w6Q=">>) @@ (<<"x">> :> <<"eA==">>) @@ (<<>> :> <<>>)
BASE64_decode(code) == SetToSeq({t \in DOMAIN Base64 : Base64[t] = code})

-----------------------------------------------------------------------------
(* The header. *)

Header(name, value) == [name |-> name, value |-> value]
\* Where the header ends: at the first empty line between CRLFs wherever one is, else at the first between bare LFs.
find_separator(t) ==
    LET first(long, short) == IF long # {} THEN <<[pos |-> Min(long), len |-> 4]>>
                              ELSE IF short # {} THEN <<[pos |-> Min(short), len |-> 2]>> ELSE <<>>
    IN  first(PlacesOf(t, CRLF \o CRLF), PlacesOf(t, <<LF, LF>>))
\* Mutant: a folded line is joined with no blank.
unfolded_Joined(value, line) == value \o trim_start(line)
unfolded(value, line) == value \o (IF value = <<>> THEN <<>> ELSE <<SP>>) \o trim_start(line)
\* The lines up to the first empty one; a line that is no field ends the field before it and is dropped.
parse_headers(t) ==
    LET field(s) == IF s = <<>> THEN <<>> ELSE <<Header(trim(s[1][1]), trim(s[1][2]))>>
        take(a, line) ==
            IF line[1] \in {SP, "tab"}
            THEN [a EXCEPT !.current = [i \in DOMAIN @ |-> [@[i] EXCEPT !.value = unfolded(@, line)]]]
            ELSE [done |-> a.done \o a.current, current |-> field(split_once(line, ":"))]
        upto_empty(lines) == SubSeq(lines, 1, Min({i \in DOMAIN lines : lines[i] = <<>>} \union {Len(lines) + 1}) - 1)
        all(end) == end.done \o end.current
    IN  all(FoldLeft(take, [done |-> <<>>, current |-> <<>>], upto_empty(split_lines(t))))
\* The message of a text; without an empty line it is all header.
Message_parse(t) ==
    LET cut_at(sep) == [headers |-> parse_headers(IF sep = <<>> THEN t ELSE SubSeq(t, 1, sep[1].pos - 1)),
                        body |-> IF sep = <<>> THEN <<>> ELSE From(t, sep[1].pos + sep[1].len)]
    IN  cut_at(find_separator(t))
header_values(headers, name) ==
    LET found == SelectSeq(headers, LAMBDA h : lower(h.name) = lower(name)) IN [i \in DOMAIN found |-> found[i].value]
First(values) == IF values = <<>> THEN <<>> ELSE <<values[1]>>

-----------------------------------------------------------------------------
(* Encoded words. *)

Hex == "0" :> 0 @@ "3" :> 3 @@ "4" :> 4 @@ "9" :> 9 @@ "A" :> 10 @@ "C" :> 12 @@ "D" :> 13 @@ "F" :> 15
Chars == 61 :> "=" @@ 32 :> SP @@ 9 :> "tab" @@ 195 :> "xC3" @@ 164 :> "xA4" @@ 63 :> "?"
Escaped(t, i) == i + 2 <= Len(t) /\ t[i] = "=" /\ t[i + 1] \in DOMAIN Hex /\ t[i + 2] \in DOMAIN Hex
Char(t, i) == Chars[16 * Hex[t[i + 1]] + Hex[t[i + 2]]]
RECURSIVE decode_q(_)
decode_q(t) ==
    IF t = <<>> THEN <<>>
    ELSE IF Escaped(t, 1) THEN <<Char(t, 1)>> \o decode_q(From(t, 4))
    ELSE <<IF t[1] = "_" THEN SP ELSE t[1]>> \o decode_q(Tail(t))
\* =?charset?encoding?text?= at the beginning of t: its text and what follows it.
decode_encoded_word(t) ==
    LET word(encoding, text) == CASE encoding = <<"B">> -> BASE64_decode(SelectSeq(text, LAMBDA c : c # SP))
                                  [] encoding = <<"Q">> -> <<decode_q(text)>>
                                  [] OTHER -> <<>>
        upto(encoding, text, ends) ==
            IF ends = {} THEN <<>>
            ELSE LET w == word(encoding, SubSeq(text, 1, Min(ends) - 1))
                 IN  [i \in DOMAIN w |-> [word |-> w[i], rest |-> From(text, Min(ends) + 2)]]
        coded(b) == IF b = <<>> THEN <<>> ELSE upto(lower(b[1][1]), b[1][2], PlacesOf(b[1][2], <<"?", "=">>))
        behind(a) == IF a = <<>> THEN <<>> ELSE coded(split_once(a[1][2], "?"))
    IN  behind(split_once(From(t, 3), "?"))
\* Mutant: the blanks between two encoded words stay.
between_Kept(literal, after_word) == literal
\* Behind an encoded word the blanks before the next are dropped, with text between the two as well.
between(literal, after_word) == IF after_word THEN trim_start(literal) ELSE literal
RECURSIVE decode_from(_, _)
decode_from(t, after_word) ==
    LET at == PlacesOf(t, <<"=", "?">>)
        behind(word) == IF word # <<>> THEN word[1].word \o decode_from(word[1].rest, TRUE)
                        ELSE <<t[1]>> \o decode_from(Tail(t), FALSE)
    IN  IF at = {} THEN t
        ELSE between(SubSeq(t, 1, Min(at) - 1), after_word) \o behind(decode_encoded_word(From(t, Min(at))))
decode_header(t) == decode_from(t, FALSE)
header(headers, name) ==
    LET decoded(values) == [i \in DOMAIN values |-> decode_header(values[i])] IN decoded(First(header_values(headers, name)))

-----------------------------------------------------------------------------
(* Addresses. *)

Address(display, local, domain) == [display_name |-> display, local_part |-> local, domain |-> domain]
address(a) == IF a.domain = <<>> THEN a.local_part ELSE a.local_part \o <<"@">> \o a.domain

\* The place of the quote that closes a quoted string whose text begins at j; a backslash takes the next character with it.
RECURSIVE quote_end(_, _)
quote_end(t, j) == IF j > Len(t) \/ t[j] = DQ THEN j ELSE quote_end(t, IF t[j] = "\\" THEN j + 2 ELSE j + 1)
\* The colon of a group: outside angles and quotes, behind a label that is no address.
RECURSIVE group_colon_from(_, _, _)
group_colon_from(t, j, depth) ==
    IF j > Len(t) THEN <<>>
    ELSE IF t[j] = ":" /\ depth = 0 /\ {"@", "<"} \intersect Range(SubSeq(t, 1, j - 1)) = {} THEN <<j>>
    ELSE group_colon_from(t, IF t[j] = DQ THEN quote_end(t, j + 1) + 1 ELSE j + 1,
                          IF t[j] = "<" THEN depth + 1 ELSE IF t[j] = ">" THEN depth - 1 ELSE depth)
find_group_colon(t) == group_colon_from(t, 1, 0)
find_matching_semicolon(t, start) == {j \in Index(t, ";") : j >= start}
FirstOf(S, else) == IF S = {} THEN else ELSE Min(S)
\* The name before an address and where the address begins.  A name in quotes is not decoded.
display_name(t) ==
    IF t[1] = DQ
    THEN LET end == FirstOf({j \in Index(t, DQ) : j > 1}, 0)
         IN  IF end = 0 THEN [name |-> <<>>, at |-> 1] ELSE [name |-> <<SubSeq(t, 2, end - 1)>>, at |-> end + 1]
    ELSE LET stop == FirstOf({j \in DOMAIN t : t[j] \in {"<", ",", ";"}}, Len(t) + 1)
             name == trim(SubSeq(t, 1, stop - 1))
         IN  IF stop > Len(t) \/ t[stop] # "<" THEN [name |-> <<>>, at |-> 1]
             ELSE [name |-> IF name = <<>> \/ "@" \in Range(name) THEN <<>> ELSE <<decode_header(name)>>, at |-> stop]
\* The mailbox at the beginning of t and the place behind it.  A blank between a quoted name and the angle is not skipped.
parse_one_mailbox(t) ==
    LET parts(name, text, s) == IF s = <<>> THEN Address(name, text, <<>>) ELSE Address(name, s[1][1], s[1][2])
        box(name, text, next) == <<[addr |-> parts(name, text, split_once(text, "@")), next |-> next]>>
        angled(d, close) == IF close = {} THEN <<>> ELSE box(d.name, trim(SubSeq(t, d.at + 1, Min(close) - 1)), Min(close) + 1)
        plain(d, stop) == IF stop = d.at THEN <<>> ELSE box(d.name, trim(SubSeq(t, d.at, stop - 1)), stop)
        behind(d) == IF d.at <= Len(t) /\ t[d.at] = "<" THEN angled(d, {j \in Index(t, ">") : j > d.at})
                     ELSE plain(d, FirstOf({j \in d.at .. Len(t) : t[j] \in Blanks \union {",", ";"}}, Len(t) + 1))
    IN  behind(display_name(t))
\* Mutant: what follows a group is not read.
behind_group_Dropped(t, end) == <<>>
behind_group(t, end) == From(t, end + 1)
RECURSIVE parse_addresses(_)
parse_addresses(t) ==
    LET colon == find_group_colon(t)
        ends == find_matching_semicolon(t, colon[1] + 1)
        mailbox(box) ==
            IF box # <<>> THEN <<box[1].addr>> \o parse_addresses(From(t, box[1].next))
            ELSE IF Index(t, ",") = {} THEN <<>> ELSE parse_addresses(From(t, Min(Index(t, ",")) + 1))
    IN  IF t = <<>> THEN <<>>
        ELSE IF t[1] \in Blanks \union {","} THEN parse_addresses(Tail(t))
        ELSE IF colon # <<>> /\ ends # {}
             THEN parse_addresses(SubSeq(t, colon[1] + 1, Min(ends) - 1)) \o parse_addresses(behind_group(t, Min(ends)))
        ELSE mailbox(parse_one_mailbox(t))
addresses(headers, name) ==
    LET listed(v) == IF v = <<>> THEN <<>> ELSE parse_addresses(v[1]) IN listed(header_values(headers, name))

-----------------------------------------------------------------------------
(* MIME parts: [headers, content, children, content_type]. *)

MimePart(headers, content, children, type) == [headers |-> headers, content |-> content, children |-> children, content_type |-> type]
strip_quotes(t) == IF Len(t) >= 2 /\ t[1] = DQ /\ Last(t) = DQ THEN SubSeq(t, 2, Len(t) - 1) ELSE t
boundary(content_type) ==
    LET value(found) == IF found = <<>> THEN <<>> ELSE strip_quotes(Tail(trim(found[1])))
    IN  value(SelectSeq(Tail(split(content_type, ";")), LAMBDA p : trim(p) # <<>> /\ lower(trim(p))[1] = "boundary="))
\* A soft line break is taken away only with text behind it.
RECURSIVE decode_quoted_printable(_)
decode_quoted_printable(t) ==
    IF t = <<>> THEN <<>>
    ELSE IF Escaped(t, 1) THEN <<Char(t, 1)>> \o decode_quoted_printable(From(t, 4))
    ELSE IF t[1] = "=" /\ Len(t) > 2 /\ t[2] = LF THEN decode_quoted_printable(From(t, 3))
    ELSE IF t[1] = "=" /\ Len(t) > 2 /\ SubSeq(t, 2, 3) = CRLF THEN decode_quoted_printable(From(t, 4))
    ELSE <<t[1]>> \o decode_quoted_printable(Tail(t))
decode_transfer_encoding(body, cte) ==
    CASE cte = <<"base64">> -> LET d == BASE64_decode(SelectSeq(body, LAMBDA c : c \notin Blanks)) IN IF d = <<>> THEN body ELSE d[1]
      [] cte = <<"quoted-printable">> -> decode_quoted_printable(body)
      [] OTHER -> body
\* The texts between the lines of a boundary: up to the closing one, and what an unclosed part holds.
raw_parts(body, b) ==
    LET delim == <<"-", "-">> \o b
        close == delim \o <<"-", "-">>
        step(a, line) ==
            IF line = delim \/ IsPrefix(close, line)
            THEN [parts |-> a.parts \o (IF a.in_part THEN <<a.current>> ELSE <<>>), current |-> <<>>,
                  in_part |-> ~IsSuffix(<<"-", "-">>, line)]
            ELSE IF a.in_part THEN [a EXCEPT !.current = @ \o line \o <<LF>>] ELSE a
        end == FoldLeft(step, [parts |-> <<>>, current |-> <<>>, in_part |-> FALSE], split_lines(body))
    IN  end.parts \o (IF end.in_part /\ end.current # <<>> THEN <<end.current>> ELSE <<>>)
RECURSIVE parse_mime(_, _)
parse_mime(headers, body) ==
    LET stated(name, default) == LET v == header_values(headers, name) IN IF v = <<>> THEN default ELSE v[1]
        \* A text without an empty line is all header.
        parse_part(raw, sep) ==
            IF sep = <<>> THEN MimePart(parse_headers(raw), <<>>, <<>>, <<"text/", "plain">>)
            ELSE parse_mime(parse_headers(SubSeq(raw, 1, sep[1].pos - 1)), From(raw, sep[1].pos + sep[1].len))
        kept(raws) == SelectSeq([i \in DOMAIN raws |-> parse_part(raws[i], find_separator(raws[i]))],
                                LAMBDA p : p.headers # <<>> \/ p.content # <<>> \/ p.children # <<>>)
        children(b) == IF b = <<>> THEN <<>> ELSE kept(raw_parts(body, b))
        part(content_type, mtype) ==
            IF mtype # <<>> /\ mtype[1] = "multipart/" THEN MimePart(headers, <<>>, children(boundary(content_type)), mtype)
            ELSE MimePart(headers, decode_transfer_encoding(body, trim(stated(<<"Content-Transfer-Encoding">>, <<"7bit">>))), <<>>, mtype)
        typed(content_type) == part(content_type, lower(trim(split(content_type, ";")[1])))
    IN  typed(stated(<<"Content-Type">>, <<"text/", "plain">>))
mime(msg) == parse_mime(msg.headers, msg.body)

-----------------------------------------------------------------------------
(* Building a message. *)

encode_header_if_needed(t) ==
    IF Range(t) \intersect NonAscii = {} THEN t ELSE <<"=", "?", "UTF-8", "?", "B", "?">> \o Base64[t] \o <<"?", "=">>
encode_address_header(a) ==
    IF a.display_name \in {<<>>, <<<<>>>>} THEN address(a)
    ELSE encode_header_if_needed(a.display_name[1]) \o <<SP, "<">> \o address(a) \o <<">">>
\* A field's value has no line ends.
with_header(h, name, value) == Append(h, Header(name, [i \in DOMAIN value |-> IF value[i] \in {CR, LF} THEN SP ELSE value[i]]))
from_mailbox(h, a) == with_header(h, <<"From">>, encode_address_header(a))
to_mailboxes(h, list) == with_header(h, <<"To">>, join([i \in DOMAIN list |-> encode_address_header(list[i])], <<",", SP>>))
subject(h, t) == with_header(h, <<"Subject">>, encode_header_if_needed(t))
\* Mutant: an existing CR is doubled.
normalized_Doubled(t) == FlattenSeq([i \in DOMAIN t |-> IF t[i] = LF THEN CRLF ELSE <<t[i]>>])
\* A bare LF becomes CRLF; a bare CR stays.
normalized(t) ==
    LET lfs == FlattenSeq([i \in DOMAIN t |-> IF t[i] = CR /\ i < Len(t) /\ t[i + 1] = LF THEN <<>> ELSE <<t[i]>>])
    IN  FlattenSeq([i \in DOMAIN lfs |-> IF lfs[i] = LF THEN CRLF ELSE <<lfs[i]>>])
Postmaster == Header(<<"From">>, <<"postmaster", "@", "localhost">>)
Has(headers, name) == \E i \in DOMAIN headers : lower(headers[i].name) = name
\* From and Date are filled in behind the other fields where they are missing; the text ends with a line end.
build(headers, body, now) ==
    LET filled == headers \o (IF Has(headers, <<"From">>) THEN <<>> ELSE <<Postmaster>>)
                    \o (IF Has(headers, <<"Date">>) THEN <<>> ELSE <<Header(<<"Date">>, now)>>)
        written(hs) == FlattenSeq([i \in DOMAIN hs |-> hs[i].name \o <<":", SP>> \o hs[i].value \o CRLF])
        ended(text) == IF IsSuffix(CRLF, text) THEN text ELSE text \o CRLF
    IN  ended(written(filled) \o CRLF \o normalized(body))

\* The date of a day since 1970: years are taken off while they fit, then months.
\* Mutant: every fourth year is a leap year.
is_leap_Julian(y) == y % 4 = 0
is_leap(y) == (y % 4 = 0 /\ y % 100 # 0) \/ y % 400 = 0
month_days(y, m) == IF m = 2 /\ is_leap(y) THEN 29 ELSE <<31, 28, 31, 30, 31, 30, 31, 31, 30, 31, 30, 31>>[m]
RECURSIVE year_from(_, _)
year_from(y, rem) == LET n == IF is_leap(y) THEN 366 ELSE 365 IN IF rem < n THEN <<y, rem>> ELSE year_from(y + 1, rem - n)
RECURSIVE month_from(_, _, _)
month_from(y, m, d) == IF m = 13 \/ d < month_days(y, m) THEN <<y, m, d + 1>> ELSE month_from(y, m + 1, d - month_days(y, m))
format_rfc5322_date(days) ==
    LET y == year_from(1970, days) d == month_from(y[1], 1, y[2])
    IN  [weekday |-> (days + 4) % 7, day |-> d[3], month |-> d[2], year |-> d[1]]

-----------------------------------------------------------------------------
(* Replies of a server: [code, lines], on the wire as lines of a code, a separator and text. *)

Reply(code, lines) == [code |-> code, lines |-> lines]
is_positive(reply) == reply.code \in 200 .. 399
is_success(reply) == reply.code \in 200 .. 299
\* Mutant: every line but the first is a last one.
to_wire_First(reply) == [i \in DOMAIN reply.lines |-> [code |-> reply.code, sep |-> IF i = 1 /\ Len(reply.lines) > 1 THEN "-" ELSE SP, text |-> reply.lines[i]]]
to_wire(reply) == [i \in DOMAIN reply.lines |-> [code |-> reply.code, sep |-> IF i = Len(reply.lines) THEN SP ELSE "-", text |-> reply.lines[i]]]
\* The reply at the beginning of the wire and what is left of it: up to a line with a blank, or up to and with a line of
\* another code, which is lost.
Reply_parse(wire) ==
    LET other == {i \in 2 .. Len(wire) : wire[i].code # wire[1].code}
        last == {i \in 2 .. Len(wire) : wire[i].sep = SP}
        stop == IF wire[1].sep # "-" THEN 1 ELSE FirstOf(other \union last, Len(wire))
        taken == IF stop \in other THEN stop - 1 ELSE stop
    IN  IF wire = <<>> THEN <<>>
        ELSE <<[reply |-> Reply(wire[1].code, [i \in 1 .. taken |-> wire[i].text]), rest |-> From(wire, stop + 1)]>>

-----------------------------------------------------------------------------
(* Samples. *)

Ann == Address(<<>>, <<"ann">>, <<"a">>)
Boxes == {Ann, Address(<<>>, <<"root">>, <<>>), Address(<<<<"Bob", SP, "B">>>>, <<"bob">>, <<"b">>), Address(<<<<"gruen", SP, "x">>>>, <<"g">>, <<"c">>)}
Lists == {<<>>} \union {<<a, b>> : a, b \in Boxes} \union {<<a>> : a \in Boxes}
Bodies == {<<>>, <<"x">>, <<"x", LF, LF, "y">>, <<"x", CR, LF, ".", LF>>, <<CR, "x", CR, LF, CR, LF, ":", "y">>, <<LF>>}
Subjects == {<<>>, <<"x", SP, "y">>, <<"gruen", SP, "x">>, <<"ae">>, <<"re", ":", SP, "x", CR, LF, "To", ":", SP, "y">>, <<"a", "=", "?", "b">>}
Built == [kind : {"built"}, subject : Subjects, from : {<<>>} \union {<<a>> : a \in Boxes}, to : Lists, body : Bodies]

\* Written by others: parts that hold a content, sent as it is or encoded, and parts that hold parts.
Leaf(cte, content) == [cte |-> cte, content |-> content, boundary |-> <<>>, parts |-> <<>>]
Node(b, parts) == [cte |-> <<>>, content |-> <<>>, boundary |-> b, parts |-> parts]
Contents == {<<"x">>, <<"gruen", SP, "x">>, <<"x", CR, LF, CR, LF, "y", "=", "tab">>, <<"-", "-", "B1", "x", CR, LF, "-", "-">>, <<"xC3", "xA4">>}
Leaves == {Leaf(c, t) : c \in {<<>>, <<"quoted-printable">>}, t \in Contents} \union {Leaf(<<"base64">>, t) : t \in DOMAIN Base64 \ {<<>>}}
Trees == Leaves \union {Node(<<"B1">>, <<a, b>>) : a, b \in Leaves} \union {Node(<<"B1">>, <<Node(<<"B1", "2">>, <<a>>), b>>) : a, b \in Leaves}
EscapeOf(c) == CASE c = "=" -> <<"=", "3", "D">> [] c = "tab" -> <<"=", "0", "9">> [] c = "?" -> <<"=", "3", "F">>
                 [] c = "xC3" -> <<"=", "C", "3">> [] c = "xA4" -> <<"=", "A", "4">> [] OTHER -> <<c>>
\* Quoted-printable, with a soft line break between every two characters of a line.
QuotedPrintable(t) ==
    FlattenSeq([i \in DOMAIN t |-> EscapeOf(t[i]) \o (IF i < Len(t) /\ {t[i], t[i + 1]} \intersect {CR, LF} = {} THEN <<"=">> \o CRLF ELSE <<>>)])
RECURSIVE Text(_)
Text(p) ==
    IF p.parts = <<>>
    THEN <<"Content-Type", ":", "text/", "plain">> \o CRLF
           \o (IF p.cte = <<>> THEN <<>> ELSE <<"Content-Transfer-Encoding", ":", SP>> \o p.cte \o CRLF) \o CRLF
           \o CASE p.cte = <<"base64">> -> join([i \in DOMAIN Base64[p.content] |-> <<Base64[p.content][i]>>], CRLF)
                [] p.cte = <<"quoted-printable">> -> QuotedPrintable(p.content)
                [] OTHER -> p.content
    ELSE <<"Content-Type", ":", SP, "Multipart/", "mixed", ";", SP, "BOUNDARY=", DQ>> \o p.boundary \o <<DQ>> \o CRLF \o CRLF \o <<"preamble">> \o CRLF
           \o FlattenSeq([i \in DOMAIN p.parts |-> <<"-", "-">> \o p.boundary \o CRLF \o Text(p.parts[i]) \o CRLF])
           \o <<"-", "-">> \o p.boundary \o <<"-", "-">> \o CRLF \o <<"epilogue">>
\* Inside a multipart lines end with LF, the last one too; base64 is free of that.
InLines(p) == IF p.cte = <<"base64">> THEN p.content ELSE SelectSeq(p.content, LAMBDA c : c # CR) \o <<LF>>
RECURSIVE SameParts(_, _, _)
SameParts(got, p, nested) ==
    /\ Len(got.children) = Len(p.parts)
    /\ \A i \in DOMAIN p.parts : SameParts(got.children[i], p.parts[i], TRUE)
    /\ p.parts = <<>> => got.content = IF nested THEN InLines(p) ELSE p.content

Plain(t) == <<"=", "?", "UTF-8", "?", "b", "?">> \o Base64[t] \o <<"?", "=">>
Quoted(t) == <<"=", "?", "UTF-8", "?", "Q", "?">> \o FlattenSeq([i \in DOMAIN t |-> IF t[i] = SP THEN <<"_">> ELSE EscapeOf(t[i])]) \o <<"?", "=">>
Words == {[text |-> Plain(t), of |-> t] : t \in DOMAIN Base64} \union {[text |-> Quoted(t), of |-> t] : t \in {<<"x", SP, "y">>, <<"=", "?">>, <<"xC3", "xA4">>}}
Replies == {Reply(c, l) : c \in {250, 354, 550}, l \in {<<"x">>, <<"">>, <<"x", "y">>, <<"x", "", "z">>}}
MailSamples ==
    {s \in Built : s.subject \in {<<>>, <<"x", SP, "y">>} \/ s.to = <<Ann>>}
      \union [kind : {"tree"}, of : Trees] \union [kind : {"words"}, a : Words, b : Words] \union [kind : {"list"}, of : Lists, grouped : Lists]
      \union [kind : {"replies"}, a : Replies, b : Replies]
      \union {[kind |-> "day", day |-> d] : d \in {0, 30, 31, 58, 59, 364, 365, 789, 790, 1095, 10956, 11015, 11016, 11017, 11322, 47540, 47541, 47542}}

\* The lines of a text folded at one of its blanks.
Folded(t) == {SubSeq(t, 1, i - 1) \o CRLF \o <<c>> \o From(t, i + 1) : i \in Index(t, SP), c \in {SP, "tab"}}
\* A message that was built is read with its fields in order, its subject and addresses as they were given and its body
\* to the last line, also when a field is folded at a blank; a subject holds no broken encoded word behind other text,
\* names hold none of the characters of an address list.  Parts within parts come out with their contents, encoded
\* words without the blanks between them and members of a group as addresses like the others.  Replies in a row are read
\* one by one (message.rs, reply.rs).
MailReads(s) ==
    LET clean == SelectSeq(s.subject, LAMBDA c : c \notin {CR, LF})
        dense(t) == SelectSeq(t, LAMBDA c : c # SP)
        titled(got) ==
            /\ "b" \notin Range(s.subject) => dense(got[1]) = dense(clean)
            /\ CR \notin Range(s.subject) /\ "b" \notin Range(s.subject) => got = <<s.subject>>
        read(head, msg) ==
            /\ Len(msg.headers) = Len(head) + (IF s.from = <<>> THEN 2 ELSE 1)
            /\ \A i \in DOMAIN head : msg.headers[i].name = head[i].name
            /\ titled(header(msg.headers, <<"Subject">>))
            /\ \A f \in {<<<<"To">>, s.to>>,
                          <<<<"From">>, IF s.from = <<>> THEN <<Address(<<>>, <<"postmaster">>, <<"localhost">>)>> ELSE s.from>>} :
                  addresses(msg.headers, f[1]) = f[2]
            /\ \E end \in {<<>>, <<<<>>>>} : split_lines(msg.body) = split_lines(s.body) \o end
            /\ \A i \in Index(msg.body, LF) : i > 1 /\ msg.body[i - 1] = CR
            /\ LET field == head[Len(head)]
                   unfold(value) == parse_headers(field.name \o <<":">> \o value)
               IN  field.value # <<>> => \A f \in Folded(field.value) : unfold(f) = unfold(field.value)
        built(head) == read(head, Message_parse(build(head, s.body, <<"now">>)))
        addressed(head) == IF s.to = <<>> THEN head ELSE to_mailboxes(head, s.to)
    IN  CASE s.kind = "built" -> built(addressed(subject(IF s.from = <<>> THEN <<>> ELSE from_mailbox(<<>>, s.from[1]), s.subject)))
          [] s.kind = "tree" -> SameParts(mime(Message_parse(Text(s.of))), s.of, FALSE)
          [] s.kind = "words" -> /\ decode_header(s.a.text \o <<SP>> \o s.b.text \o <<SP, "x">>) = s.a.of \o s.b.of \o <<SP, "x">>
                                 /\ decode_header(<<"x", SP>> \o s.b.text) = <<"x", SP>> \o s.b.of
          [] s.kind = "replies" ->
                \A first \in Range(Reply_parse(to_wire(s.a) \o to_wire(s.b))) :
                    /\ first.reply = s.a /\ Reply_parse(first.rest) = <<[reply |-> s.b, rest |-> <<>>]>>
          [] s.kind = "list" ->
                LET written(l) == join([i \in DOMAIN l |-> encode_address_header(l[i])], <<",", SP>>)
                IN  parse_addresses(<<"G", ":">> \o written(s.grouped) \o <<";", ",", SP>> \o written(s.of)) = s.grouped \o s.of
          [] OTHER -> TRUE
\* Every day has the date that follows the date of the day before it, and the weekday (format_rfc5322_date).
MailDates(s) ==
    s.kind = "day" =>
      LET a == format_rfc5322_date(s.day) b == format_rfc5322_date(s.day + 1)
          leap == a.year % 400 = 0 \/ (a.year % 4 = 0 /\ a.year % 100 # 0)
          long == CASE a.month = 2 -> IF leap THEN 29 ELSE 28 [] a.month \in {4, 6, 9, 11} -> 30 [] OTHER -> 31
      IN  /\ b.weekday = (a.weekday + 1) % 7 /\ a.day \in 1 .. long
          /\ IF a.day < long THEN <<b.year, b.month, b.day>> = <<a.year, a.month, a.day + 1>>
             ELSE IF a.month < 12 THEN <<b.year, b.month, b.day>> = <<a.year, a.month + 1, 1>>
             ELSE <<b.year, b.month, b.day>> = <<a.year + 1, 1, 1>>
=============================================================================
