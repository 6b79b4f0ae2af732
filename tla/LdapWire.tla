------------------------------ MODULE LdapWire ------------------------------
(***************************************************************************)
(* tpt-ldap-server: BER and the messages of LDAP.  An element is <<class,  *)
(* constructed, number, content>>, the content octets or elements; strings *)
(* are sequences of octets.  A decoder gives a set: of what it reads, or   *)
(* empty where the code returns an error.  An optional field is a sequence *)
(* of at most one value.                                                   *)
(***************************************************************************)
EXTENDS Integers, FiniteSets, SequencesExt

CLASS_UNIVERSAL == 0
CLASS_APPLICATION == 1
CLASS_CONTEXT == 2
INTEGER == 2
OCTET_STRING == 4
ENUMERATED == 10
BOOLEAN_TAG == 1
SEQUENCE_TAG == 16
SET_TAG == 17
universal(n, content) == <<CLASS_UNIVERSAL, FALSE, n, content>>
sequence(kids) == <<CLASS_UNIVERSAL, TRUE, SEQUENCE_TAG, kids>>
set(kids) == <<CLASS_UNIVERSAL, TRUE, SET_TAG, kids>>
octet_string(s) == universal(OCTET_STRING, s)
boolean(b) == universal(BOOLEAN_TAG, IF b THEN <<255>> ELSE <<0>>)
application_sequence(n, kids) == <<CLASS_APPLICATION, TRUE, n, kids>>
application_primitive(n, s) == <<CLASS_APPLICATION, FALSE, n, s>>
context_sequence(n, kids) == <<CLASS_CONTEXT, TRUE, n, kids>>
context_primitive(n, s) == <<CLASS_CONTEXT, FALSE, n, s>>

-----------------------------------------------------------------------------
(* Octets. *)

\* The octets of a number, the last first, until only the sign is left.
RECURSIVE Low(_)
Low(v) == IF v \in {0, -1} THEN <<>> ELSE <<v % 256>> \o Low(v \div 256)
\* Mutant: no octet is added for the sign.
int_to_bytes_NoSign(v) == IF v = 0 THEN <<0>> ELSE IF v = -1 THEN <<255>> ELSE Reverse(Low(v))
int_to_bytes(v) ==
    LET b == Low(v)
        sign == IF b[Len(b)] >= 128 THEN IF v >= 0 THEN <<0>> ELSE <<>> ELSE IF v < 0 THEN <<255>> ELSE <<>>
    IN  IF v = 0 THEN <<0>> ELSE IF v = -1 THEN <<255>> ELSE sign \o Reverse(b)
\* Of at most four octets, the width of the numbers here; the code reads eight.
bytes_to_int(b) ==
    IF b = <<>> THEN {} ELSE {FoldLeft(LAMBDA a, x : a * 256 + x, IF b[1] >= 128 THEN b[1] - 256 ELSE b[1], Tail(b))}
integer(v) == universal(INTEGER, int_to_bytes(v))
enumerated(v) == universal(ENUMERATED, int_to_bytes(v))

RECURSIVE Base128(_)
Base128(n) == IF n = 0 THEN <<>> ELSE Append(Base128(n \div 128), 128 + (n % 128))
first_byte(t) == t[1] * 64 + (IF t[2] THEN 32 ELSE 0) + (IF t[3] < 31 THEN t[3] ELSE 31)
encode_length(n) == IF n < 128 THEN <<n>> ELSE LET b == Reverse(Low(n)) IN <<128 + Len(b)>> \o b
encode_tlv(t, content) ==
    <<first_byte(t)>> \o (IF t[3] < 31 THEN <<>> ELSE Append(Base128(t[3] \div 128), t[3] % 128))
      \o encode_length(Len(content)) \o content
RECURSIVE encode(_)
encode(t) == encode_tlv(t, IF t[2] THEN FlattenSeq([i \in DOMAIN t[4] |-> encode(t[4][i])]) ELSE t[4])

\* Readers give the values read with the position after them.
RECURSIVE read_number(_, _, _, _)
read_number(buf, pos, number, shift) ==
    IF pos > Len(buf) \/ shift > 28 THEN {}
    ELSE LET n == number * 128 + (buf[pos] % 128)
         IN  IF buf[pos] < 128 THEN {<<n, pos + 1>>} ELSE read_number(buf, pos + 1, n, shift + 7)
read_tag(buf, pos) ==
    IF pos > Len(buf) THEN {}
    ELSE LET b == buf[pos]
             numbers == IF b % 32 = 31 THEN read_number(buf, pos + 1, 0, 0) ELSE {<<b % 32, pos + 1>>}
         IN  {<<<<b \div 64, (b \div 32) % 2 = 1, n[1]>>, n[2]>> : n \in numbers}
INDEFINITE == -1
read_length(buf, pos) ==
    IF pos > Len(buf) THEN {}
    ELSE LET n == buf[pos] - 128
         IN  IF n < 0 THEN {<<buf[pos], pos + 1>>}
             ELSE IF n = 0 THEN {<<INDEFINITE, pos + 1>>}
             ELSE IF n > 8 \/ pos + n > Len(buf) THEN {}
             ELSE {<<FoldLeft(LAMBDA a, x : a * 256 + x, 0, SubSeq(buf, pos + 1, pos + n)), pos + 1 + n>>}
is_eoc(el) == el = <<CLASS_UNIVERSAL, FALSE, 0, <<>>>>
RECURSIVE read_element(_, _)
RECURSIVE read_children(_, _, _)
\* Children up to an end; of an indefinite length, up to the end-of-contents element.
read_children(buf, pos, end) ==
    IF end # INDEFINITE /\ pos >= end THEN {<<<<>>, pos>>}
    ELSE UNION {IF end = INDEFINITE /\ is_eoc(e[1]) THEN {<<<<>>, e[2]>>}
                ELSE {<<<<e[1]>> \o r[1], r[2]>> : r \in read_children(buf, e[2], end)} : e \in read_element(buf, pos)}
read_element(buf, pos) ==
    UNION {LET tag == t[1]
               len == l[1]
               end == l[2] + len
           IN  IF len = INDEFINITE
               THEN IF ~tag[2] THEN {} ELSE {<<tag \o <<r[1]>>, r[2]>> : r \in read_children(buf, l[2], INDEFINITE)}
               ELSE IF end > Len(buf) + 1 THEN {}
               ELSE IF tag[2] THEN {<<tag \o <<r[1]>>, end>> : r \in read_children(buf, l[2], end)}
               ELSE {<<tag \o <<SubSeq(buf, l[2], end - 1)>>, end>>}
           : <<t, l>> \in UNION {{<<t, l>> : l \in read_length(buf, t[2])} : t \in read_tag(buf, pos)}}
decode_partial(buf) == read_element(buf, 1)

-----------------------------------------------------------------------------
(* Filters, and the values they match. *)

Kids(el) == IF el[2] THEN {el[4]} ELSE {}
as_bytes(el) == IF el[2] THEN {} ELSE {el[4]}
as_int(el) == IF el[2] THEN {} ELSE bytes_to_int(el[4])
as_bool(el) == IF el[2] \/ Len(el[4]) # 1 THEN {} ELSE {el[4][1] # 0}
\* All of a sequence of readings, or nothing.
All(sets) == IF \E i \in DOMAIN sets : sets[i] = {} THEN {} ELSE {[i \in DOMAIN sets |-> CHOOSE x \in sets[i] : TRUE]}

Ava == [Equality |-> 3, GreaterOrEqual |-> 5, LessOrEqual |-> 6, ApproxMatch |-> 8]
ava_element(n, desc, value) == context_sequence(n, <<octet_string(desc), octet_string(value)>>)
SubstringKind == [Initial |-> 0, Any |-> 1, Final |-> 2]
RECURSIVE encode_filter(_)
encode_filter(f) ==
    LET kind == f[1]
        subs == [i \in DOMAIN f[2] |-> encode_filter(f[2][i])]
    IN  CASE kind = "And" -> context_sequence(0, subs)
          [] kind = "Or" -> context_sequence(1, subs)
          [] kind = "Not" -> context_sequence(2, <<encode_filter(f[2])>>)
          [] kind \in DOMAIN Ava -> ava_element(Ava[kind], f[2], f[3])
          [] kind = "Present" -> context_primitive(7, f[2])
          [] kind = "Substrings" ->
                context_sequence(4, <<octet_string(f[2]),
                    sequence([i \in DOMAIN f[3] |-> context_primitive(SubstringKind[f[3][i][1]], f[3][i][2])])>>)
          [] kind = "Extensible" ->
                context_sequence(9, [i \in DOMAIN f[2] |-> context_primitive(1, f[2][i])]
                                      \o [i \in DOMAIN f[3] |-> context_primitive(2, f[3][i])] \o <<context_primitive(3, f[4])>>
                                      \o (IF f[5] THEN <<context_primitive(4, <<>>)>> ELSE <<>>))

decode_ava(el) == UNION {IF Len(k) # 2 THEN {} ELSE All(<<as_bytes(k[1]), as_bytes(k[2])>>) : k \in Kids(el)}
Tagged(kids, n) == SelectSeq(kids, LAMBDA k : k[1] = CLASS_CONTEXT /\ ~k[2] /\ k[3] = n)
KindOf(n, kinds) == {k \in DOMAIN kinds : kinds[k] = n}
decode_substring(s) ==
    IF s[1] # CLASS_CONTEXT THEN {} ELSE {<<k, v>> : k \in KindOf(s[3], SubstringKind), v \in as_bytes(s)}
RECURSIVE decode_filter(_)
decode_filter(el) ==
    LET n == el[3]
        subs(k) == All([i \in DOMAIN k |-> decode_filter(k[i])])
    IN  IF el[1] # CLASS_CONTEXT THEN {}
        ELSE CASE n \in {0, 1} -> UNION {{<<IF n = 0 THEN "And" ELSE "Or", s>> : s \in subs(k)} : k \in Kids(el)}
               [] n = 2 -> UNION {IF Len(k) # 1 THEN {} ELSE {<<"Not", s>> : s \in decode_filter(k[1])} : k \in Kids(el)}
               [] n \in Range(Ava) -> {<<k, a[1], a[2]>> : k \in KindOf(n, Ava), a \in decode_ava(el)}
               [] n = 4 -> UNION {IF Len(k) # 2 THEN {}
                                  ELSE {<<"Substrings", t, s>> : t \in as_bytes(k[1]),
                                            s \in UNION {All([i \in DOMAIN q |-> decode_substring(q[i])]) : q \in Kids(k[2])}}
                                  : k \in Kids(el)}
               [] n = 7 -> {<<"Present", s>> : s \in as_bytes(el)}
               [] n = 9 -> {<<"Extensible", [i \in DOMAIN Tagged(k, 1) |-> Tagged(k, 1)[i][4]],
                                            [i \in DOMAIN Tagged(k, 2) |-> Tagged(k, 2)[i][4]], Tagged(k, 3)[1][4], b>>
                                : k \in Kids(el), b \in UNION {IF Tagged(k, 4) = <<>> THEN {FALSE} ELSE as_bool(Tagged(k, 4)[1]) : k \in Kids(el)}}
               [] OTHER -> {}

\* Mutant: a middle string may begin in what the string before it has taken.
After_Overlap(value, from, s) ==
    LET at == {i \in (IF from > 1 THEN from - 1 ELSE 1) .. Len(value) - Len(s) + 1 : SubSeq(value, i, i + Len(s) - 1) = s}
    IN  IF at = {} THEN {} ELSE {(CHOOSE i \in at : \A j \in at : i <= j) + Len(s)}
\* The position after the first occurrence, as a set.
After(value, from, s) ==
    LET at == {i \in from .. Len(value) - Len(s) + 1 : SubSeq(value, i, i + Len(s) - 1) = s}
    IN  IF at = {} THEN {} ELSE {(CHOOSE i \in at : \A j \in at : i <= j) + Len(s)}
IsPrefixAt(value, from, s) == from + Len(s) - 1 <= Len(value) /\ SubSeq(value, from, from + Len(s) - 1) = s
Advance(value, from, sub) ==
    CASE sub[1] = "Initial" -> IF IsPrefixAt(value, from, sub[2]) THEN {from + Len(sub[2])} ELSE {}
      [] sub[1] = "Any" -> After(value, from, sub[2])
      [] sub[1] = "Final" -> LET at == Len(value) - Len(sub[2]) + 1
                             IN  IF at >= from /\ IsPrefixAt(value, at, sub[2]) THEN {from} ELSE {}
substring_match(value, subs) ==
    FoldLeft(LAMBDA cursor, sub : UNION {Advance(value, c, sub) : c \in cursor}, {1}, subs) # {}

-----------------------------------------------------------------------------
(* Requests: <<kind, fields...>>. *)

attribute_element(a) == sequence(<<octet_string(a[1]), set([i \in DOMAIN a[2] |-> octet_string(a[2][i])])>>)
encode_request_op(op) ==
    LET strings(s) == sequence([i \in DOMAIN s |-> octet_string(s[i])])
        optional(s) == [i \in DOMAIN s |-> octet_string(s[i])]
    IN  CASE op[1] = "BindSimple" -> application_sequence(0, <<integer(op[2]), octet_string(op[3]), context_primitive(0, op[4])>>)
          [] op[1] = "BindSasl" ->
                application_sequence(0, <<integer(op[2]), octet_string(op[3]),
                    context_sequence(3, <<octet_string(op[4])>> \o (IF op[5] = <<>> THEN <<>> ELSE <<octet_string(op[5])>>))>>)
          [] op[1] = "Unbind" -> application_primitive(2, <<>>)
          [] op[1] = "Search" ->
                application_sequence(3, <<octet_string(op[2]), enumerated(op[3]), enumerated(op[4]), integer(op[5]), integer(op[6]),
                                          boolean(op[7]), encode_filter(op[8]), strings(op[9])>>)
          [] op[1] = "Modify" ->
                application_sequence(6, <<octet_string(op[2]),
                    sequence([i \in DOMAIN op[3] |-> sequence(<<enumerated(op[3][i][1]), attribute_element(op[3][i][2])>>)])>>)
          [] op[1] = "Add" -> application_sequence(8, <<octet_string(op[2]), sequence([i \in DOMAIN op[3] |-> attribute_element(op[3][i])])>>)
          [] op[1] = "Delete" -> application_primitive(10, op[2])
          [] op[1] = "ModifyDn" ->
                application_sequence(12, <<octet_string(op[2]), octet_string(op[3]), boolean(op[4])>>
                                           \o [i \in DOMAIN op[5] |-> context_primitive(0, op[5][i])])
          [] op[1] = "Compare" -> application_sequence(14, <<octet_string(op[2]), sequence(<<octet_string(op[3]), octet_string(op[4])>>)>>)
          [] op[1] = "Abandon" -> application_primitive(16, int_to_bytes(op[2]))
          [] op[1] = "Extended" -> application_sequence(23, <<octet_string(op[2])>> \o optional(op[3]))
controls_element(controls) ==
    IF controls = <<>> THEN <<>>
    ELSE <<context_sequence(0, [i \in DOMAIN controls |->
            LET c == controls[i]
            IN  sequence(<<octet_string(c[1])>> \o (IF c[2] THEN <<boolean(TRUE)>> ELSE <<>>)
                           \o [j \in DOMAIN c[3] |-> octet_string(c[3][j])])])>>
LdapRequest_encode(r) == encode(sequence(<<integer(r.id), encode_request_op(r.op)>> \o controls_element(r.controls)))

\* Readings of a fixed number of fields at the front.
Fields(k, reads) == IF Len(k) < Len(reads) THEN {} ELSE All(reads)
At(k, i) == IF i \in DOMAIN k THEN k[i] ELSE universal(0, <<>>)
decode_partial_attribute(el) ==
    UNION {IF Len(k) # 2 THEN {}
           ELSE All(<<as_bytes(k[1]), UNION {All([i \in DOMAIN v |-> as_bytes(v[i])]) : v \in Kids(k[2])}>>) : k \in Kids(el)}
decode_attribute_selection(el) == UNION {All([i \in DOMAIN k |-> as_bytes(k[i])]) : k \in Kids(el)}
decode_bind_request(k) ==
    LET auth == At(k, 3)
        who == Fields(k, <<as_int(At(k, 1)), as_bytes(At(k, 2)), {auth}>>)
    IN  IF auth[1] # CLASS_CONTEXT THEN {}
        ELSE CASE auth[3] = 0 -> {<<"BindSimple", w[1], w[2], p>> : w \in who, p \in as_bytes(auth)}
               [] auth[3] = 3 -> UNION {IF s = <<>> THEN {}
                                        ELSE {<<"BindSasl", w[1], w[2], x, c>> : w \in who, x \in as_bytes(s[1]),
                                                c \in IF Len(s) > 1 THEN as_bytes(s[2]) ELSE {<<>>}} : s \in Kids(auth)}
               [] OTHER -> {}
decode_search_request(k) ==
    {<<"Search">> \o f : f \in {x \in Fields(k, <<as_bytes(At(k, 1)), as_int(At(k, 2)), as_int(At(k, 3)), as_int(At(k, 4)),
                                     as_int(At(k, 5)), as_bool(At(k, 6)), decode_filter(At(k, 7)),
                                     decode_attribute_selection(At(k, 8))>>) : x[2] \in 0 .. 2}}
decode_change(c) ==
    UNION {IF Len(k) # 2 THEN {} ELSE {x \in All(<<as_int(k[1]), decode_partial_attribute(k[2])>>) : x[1] \in 0 .. 2} : k \in Kids(c)}
decode_modify_request(k) ==
    {<<"Modify">> \o f : f \in Fields(k, <<as_bytes(At(k, 1)),
                                           UNION {All([i \in DOMAIN c |-> decode_change(c[i])]) : c \in Kids(At(k, 2))}>>)}
decode_add_request(k) ==
    {<<"Add">> \o f : f \in Fields(k, <<as_bytes(At(k, 1)),
                                        UNION {All([i \in DOMAIN a |-> decode_partial_attribute(a[i])]) : a \in Kids(At(k, 2))}>>)}
decode_modify_dn_request(k) ==
    {<<"ModifyDn", f[1], f[2], f[3], up>> :
        f \in Fields(k, <<as_bytes(At(k, 1)), as_bytes(At(k, 2)), as_bool(At(k, 3))>>),
        up \in IF Len(k) > 3 /\ k[4][1] = CLASS_CONTEXT /\ ~k[4][2] /\ k[4][3] = 0 THEN {<<s>> : s \in as_bytes(k[4])} ELSE {<<>>}}
decode_compare_request(k) == {<<"Compare", f[1], f[2][1], f[2][2]>> : f \in Fields(k, <<as_bytes(At(k, 1)), decode_ava(At(k, 2))>>)}
decode_extended_request(k) ==
    IF k = <<>> THEN {} ELSE {<<"Extended", n, v>> : n \in as_bytes(k[1]),
                                v \in IF Len(k) > 1 THEN {<<s>> : s \in as_bytes(k[2])} ELSE {<<>>}}
decode_request_op(el) ==
    LET n == el[3]
    IN  IF el[1] # CLASS_APPLICATION THEN {}
        ELSE CASE n = 2 -> {<<"Unbind">>}
               [] n = 10 -> {<<"Delete", s>> : s \in as_bytes(el)}
               [] n = 16 -> {<<"Abandon", i>> : i \in as_int(el)}
               [] OTHER -> UNION {CASE n = 0 -> decode_bind_request(k) [] n = 3 -> decode_search_request(k)
                                    [] n = 6 -> decode_modify_request(k) [] n = 8 -> decode_add_request(k)
                                    [] n = 12 -> decode_modify_dn_request(k) [] n = 14 -> decode_compare_request(k)
                                    [] n = 23 -> decode_extended_request(k) [] OTHER -> {} : k \in Kids(el)}
decode_control(c) ==
    UNION {IF k = <<>> THEN {}
           ELSE LET of(t) == SelectSeq(Tail(k), LAMBDA e : <<e[1], e[2], e[3]>> = <<CLASS_UNIVERSAL, FALSE, t>>)
                IN  {<<oid, of(BOOLEAN_TAG) # <<>> /\ TRUE \in as_bool(Last(of(BOOLEAN_TAG))),
                       IF of(OCTET_STRING) = <<>> THEN <<>> ELSE <<Last(of(OCTET_STRING))[4]>>>> : oid \in as_bytes(k[1])} : k \in Kids(c)}
parse_controls(el) ==
    IF <<el[1], el[2], el[3]>> # <<CLASS_CONTEXT, TRUE, 0>> THEN {} ELSE All([i \in DOMAIN el[4] |-> decode_control(el[4][i])])
decode_request(buf) ==
    UNION {UNION {IF Len(k) < 2 THEN {}
                  ELSE {[id |-> f[1], op |-> f[2], controls |-> f[3]] :
                            f \in All(<<as_int(k[1]), decode_request_op(k[2]), IF Len(k) > 2 THEN parse_controls(k[3]) ELSE {<<>>}>>)}
                  : k \in Kids(e[1])} : e \in decode_partial(buf)}

\* Results, and what a search returns of an entry.
ldap_result_children(code, dn, text) == <<enumerated(code), octet_string(dn), octet_string(text)>>
search_entry_children(dn, attrs) == <<octet_string(dn), sequence([i \in DOMAIN attrs |-> attribute_element(attrs[i])])>>
LdapResponse_encode(id, n, kids) == sequence(<<integer(id), application_sequence(n, kids)>>)
entry_to_result(attrs, types_only, selected) ==
    LET kept == SelectSeq(attrs, LAMBDA a : selected = <<>> \/ a[1] \in Range(selected))
    IN  [i \in DOMAIN kept |-> <<kept[i][1], IF types_only THEN <<>> ELSE kept[i][2]>>]

-----------------------------------------------------------------------------
(* Samples. *)

S == <<97>>
Long(n) == [i \in 1 .. n |-> 97]
LdapInts == {0, 1, 127, 128, 255, 256, 32767, 32768, 65535, 8388608, 2147483647, -1, -128, -129, -256, -32768, -32769, -2147483647 - 1}
\* Without dnAttributes, which encode_filter writes with no octet and decode_filter refuses.
LdapFilters ==
    LET leaves == {<<k, S, Long(2)>> : k \in DOMAIN Ava}
                    \union {<<"Present", S>>, <<"Extensible", <<S>>, <<>>, S, FALSE>>, <<"Extensible", <<>>, <<S>>, <<>>, FALSE>>,
                            <<"Substrings", S, <<<<"Initial", S>>, <<"Any", Long(3)>>, <<"Final", S>>>>>>, <<"Substrings", S, <<>>>>}
    IN  leaves \union {<<"Not", f>> : f \in leaves}
               \union {<<k, s>> : k \in {"And", "Or"}, s \in {<<>>, <<<<"Present", S>>, <<"Not", <<"Equality", S, S>>>>>>}}
LdapOps ==
    {<<"BindSimple", 3, S, p>> : p \in {<<>>, Long(126), Long(200)}}
      \union {<<"BindSasl", 3, S, S, c>> : c \in {<<>>, S}} \union {<<"Unbind">>, <<"Delete", S>>, <<"Compare", S, S, Long(2)>>}
      \union {<<"Search", S, sc, 3, n, 0, b, <<"Present", S>>, <<S, <<42>>>>>> : sc \in 0 .. 2, n \in {0, 128}, b \in BOOLEAN}
      \union {<<"Search", <<>>, 2, 0, 0, 0, FALSE, f, <<>>>> : f \in LdapFilters}
      \union {<<"Modify", S, <<<<0, <<S, <<S>>>>>>, <<1, <<S, <<>>>>>>, <<2, <<S, <<S, Long(130)>>>>>>>>>>, <<"Modify", S, <<>>>>}
      \union {<<"Add", S, <<<<S, <<S, <<>>>>>>, <<S, <<>>>>>>>>, <<"Extended", S, <<>>>>, <<"Extended", S, <<S>>>>}
      \union {<<"ModifyDn", S, S, b, up>> : b \in BOOLEAN, up \in {<<>>, <<S>>, <<<<>>>>}}
      \union {<<"Abandon", i>> : i \in LdapInts}
LdapSamples ==
    {[id |-> 1, op |-> op, controls |-> <<>>] : op \in LdapOps}
      \union {[id |-> i, op |-> <<"Unbind">>, controls |-> c] : i \in LdapInts,
                c \in {<<>>, <<<<S, FALSE, <<>>>>, <<S, TRUE, <<S>>>>, <<S, FALSE, <<S>>>>>>}}
\* A request is read as it was written, and refused when its last octet is missing.
LdapReads(r) ==
    LET buf == LdapRequest_encode(r)
    IN  decode_request(buf) = {r} /\ decode_request(SubSeq(buf, 1, Len(buf) - 1)) = {}

\* Tags of any number, lengths of either form, an indefinite length and a response read as their elements.
LdapElements ==
    /\ \A n \in {0, 30, 31, 127, 128, 16383, 16384}, k \in {0, 127, 128, 255, 256, 300} :
            decode_partial(encode(context_primitive(n, Long(k)))) = {<<context_primitive(n, Long(k)), Len(encode(context_primitive(n, Long(k)))) + 1>>}
    /\ decode_partial(<<48, 128, 4, 1, 97, 0, 0>>) = {<<sequence(<<octet_string(S)>>), 8>>}
    /\ decode_partial(<<4, 128, 97, 0, 0>>) = {}
    /\ \A t \in BOOLEAN, sel \in {<<>>, <<S>>, <<<<98>>>>} :
        LET el == LdapResponse_encode(7, 4, search_entry_children(S, entry_to_result(<<<<S, <<S, S>>>>, <<<<98>>, <<>>>>>>, t, sel)))
        IN  {e[1] : e \in decode_partial(encode(el))} = {el}
    /\ LET el == LdapResponse_encode(7, 24, ldap_result_children(80, <<>>, Long(200)))
       IN  {e[1] : e \in decode_partial(encode(el))} = {el}

\* A substring filter matches exactly the values that are made of its strings in their order with anything between.
Words(n) == UNION {[1 .. k -> {97, 98}] : k \in 0 .. n}
SubstringLists ==
    {[i \in DOMAIN x |-> <<"Initial", x[i]>>] \o [i \in DOMAIN y |-> <<"Any", y[i]>>] \o [i \in DOMAIN z |-> <<"Final", z[i]>>] :
        x \in {<<>>, <<<<97>>>>, <<<<97, 98>>>>}, y \in {<<>>, <<<<97>>>>, <<<<98>>, <<97, 97>>>>, <<<<97, 97>>, <<97>>>>, <<<<97, 98>>, <<98>>, <<97>>>>},
        z \in {<<>>, <<<<97>>>>, <<<<98, 97>>>>}}
Made(value, subs) ==
    \E at \in [DOMAIN subs -> 1 .. Len(value) + 1] :
        \A i \in DOMAIN subs :
            /\ IsPrefixAt(value, at[i], subs[i][2])
            /\ subs[i][1] = "Initial" => at[i] = 1
            /\ subs[i][1] = "Final" => at[i] + Len(subs[i][2]) = Len(value) + 1
            /\ i > 1 => at[i] >= at[i - 1] + Len(subs[i - 1][2])
SubstringsMatch(subs) == \A v \in Words(5) : substring_match(v, subs) <=> Made(v, subs)
=============================================================================
