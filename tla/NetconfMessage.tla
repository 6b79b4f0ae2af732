--------------------------- MODULE NetconfMessage ---------------------------
(***************************************************************************)
(* tpt-netconf: the XML documents of a session and the messages in them.   *)
(* What a client asks is written as a document, read by the server,        *)
(* answered in a document, and read by the client.                         *)
(*                                                                         *)
(* A document is a sequence of tokens: a name, a word or a number is one   *)
(* token, every mark and blank is one; "--" and "CDATA[" are one as well.  *)
(* Where reading can fail it gives the set of what is read, {} or {x}.     *)
(***************************************************************************)
EXTENDS Integers, FiniteSetsExt, SequencesExt, TLC

Blanks == {" ", "nl"}
Marks == {"<", ">", "/", "?", "!", "[", "]", "=", "&", ";", "#", "'", "\"", "--"} \union Blanks
local_name(n) ==
    CASE n = "nc:rpc" -> "rpc" [] n = "nc:lock" -> "lock" [] n = "nc:target" -> "target" [] n = "nc:running" -> "running"
      [] n = "x:message-id" -> "message-id" [] OTHER -> n

Xml(name) == [name |-> name, attributes |-> <<>>, children |-> <<>>, text |-> <<>>]
attr(el, n, v) == [el EXCEPT !.attributes = Append(@, <<n, v>>)]
child(el, c) == [el EXCEPT !.children = Append(@, c)]
text(el, t) == [el EXCEPT !.text = t]
FirstOf(s) == IF s = <<>> THEN <<>> ELSE <<Head(s)>>
attribute(el, n) == {a[2] : a \in Range(FirstOf(SelectSeq(el.attributes, LAMBDA a : local_name(a[1]) = n)))}
children_named(el, n) == SelectSeq(el.children, LAMBDA c : local_name(c.name) = n)
\* The first child of that name, as a sequence of at most one.
child_named(el, n) == FirstOf(children_named(el, n))

-----------------------------------------------------------------------------
(* Reading *)

peek(s, p) == IF p <= Len(s) THEN s[p] ELSE "eof"
First(s, p, T) == Min({i \in p .. Len(s) : s[i] \in T} \union {Len(s) + 1})
skip_ws(s, p) == Min({i \in p .. Len(s) : s[i] \notin Blanks} \union {Max({Len(s) + 1, p})})
skip_until(s, p, needle) ==
    Min({i \in p .. Len(s) - Len(needle) + 1 : SubSeq(s, i, i + Len(needle) - 1) = needle} \union {Len(s) + 1})
read_name(s, p) ==
    LET q == skip_ws(s, p) IN IF peek(s, q) \in Marks \union {"eof"} THEN {} ELSE {[name |-> s[q], pos |-> q + 1]}

RECURSIVE skip_markup_and_ws(_, _)
skip_markup_and_ws(s, p) ==
    LET q == skip_ws(s, p)
    IN  CASE peek(s, q) = "<" /\ peek(s, q + 1) = "?" -> skip_markup_and_ws(s, skip_until(s, q, <<"?", ">">>) + 2)
          [] peek(s, q) = "<" /\ peek(s, q + 1) = "!" /\ peek(s, q + 2) = "--" ->
                skip_markup_and_ws(s, skip_until(s, q, <<"--", ">">>) + 2)
          [] OTHER -> q

\* A decimal character reference gives its character, a hexadecimal one nothing.
Character(n) == CASE n = <<"38">> -> <<"&">> [] n = <<"60">> -> <<"<">> [] OTHER -> <<>>
Entity(e) ==
    CASE e = <<"amp">> -> <<"&">> [] e = <<"lt">> -> <<"<">> [] e = <<"gt">> -> <<">">>
      [] e = <<"quot">> -> <<"\"">> [] e = <<"apos">> -> <<"'">>
      [] e # <<>> /\ Head(e) = "#" -> Character(Tail(e))
      [] OTHER -> <<"&">>
RECURSIVE decode_entities(_)
decode_entities(t) ==
    LET amp == First(t, 1, {"&"})
        end == First(t, amp + 1, {";"})
    IN  IF amp > Len(t) THEN t
        ELSE SubSeq(t, 1, amp - 1) \o Entity(SubSeq(t, amp + 1, end - 1)) \o decode_entities(SubSeq(t, end + 1, Len(t)))

trim(t) ==
    LET black == {i \in DOMAIN t : t[i] \notin Blanks} IN IF black = {} THEN <<>> ELSE SubSeq(t, Min(black), Max(black))

RECURSIVE parse_attributes(_, _, _)
parse_attributes(s, p, el) ==
    LET value(n, quote, end) ==
            IF peek(s, quote) \notin {"\"", "'"} \/ end > Len(s) THEN {}
            ELSE parse_attributes(s, end + 1, attr(el, n.name, decode_entities(SubSeq(s, quote + 1, end - 1))))
        quoted(n, quote) == value(n, quote, First(s, quote + 1, {peek(s, quote)}))
        given(n, eq) == IF peek(s, eq) # "=" THEN {} ELSE quoted(n, skip_ws(s, eq + 1))
        next(q) == IF peek(s, q) \in {">", "/"} THEN {[el |-> el, pos |-> q]}
                   ELSE UNION {given(n, skip_ws(s, n.pos)) : n \in read_name(s, q)}
    IN  next(skip_ws(s, p))

RECURSIVE parse_element(_, _), parse_content(_, _, _, _)
\* From a tag's attributes on: markup other than a comment or an instruction is never got past, and no document has any.
parse_content(s, p, el, heard) ==
    LET closed(n, e, said) ==
            IF peek(s, e) # ">" \/ n.name # el.name THEN {} ELSE {[el |-> text(el, trim(said)), pos |-> e + 1]}
        markup(q, said) ==
            CASE q > Len(s) -> {}
              [] peek(s, q + 1) = "/" -> UNION {closed(n, skip_ws(s, n.pos), said) : n \in read_name(s, q + 2)}
              [] peek(s, q + 1) \in {"!", "?"} -> parse_content(s, skip_markup_and_ws(s, q), el, said)
              [] OTHER -> UNION {parse_content(s, r.pos, child(el, r.el), said) : r \in parse_element(s, q)}
        until(q) == markup(q, heard \o decode_entities(SubSeq(s, p, q - 1)))
    IN  until(First(s, p, {"<"}))

\* A CDATA section in the place of the root loses its first character.
parse_element(s, p) ==
    LET open(r) ==
            CASE peek(s, r.pos) = "/" /\ peek(s, r.pos + 1) = ">" -> {[r EXCEPT !.pos = @ + 2]}
              [] peek(s, r.pos) = ">" -> parse_content(s, r.pos + 1, r.el, <<>>)
              [] OTHER -> {}
        cdata(start, end) == {[el |-> text(Xml("#cdata"), decode_entities(SubSeq(s, start, end - 1))), pos |-> end + 3]}
        section(start) == cdata(start, skip_until(s, start, <<"]", "]", ">">>))
    IN  CASE peek(s, p) # "<" -> {}
          [] peek(s, p) = "<" /\ peek(s, p + 1) = "!" /\ peek(s, p + 2) = "[" ->
                section(skip_until(s, p + 3, <<"CDATA[">>) + 2)
          [] OTHER -> UNION {open(r) : r \in UNION {parse_attributes(s, n.pos, Xml(n.name)) : n \in read_name(s, p + 1)}}

parse_root(s) == {r.el : r \in parse_element(s, skip_markup_and_ws(s, 1))}

-----------------------------------------------------------------------------
(* Writing *)

RECURSIVE Replaced(_, _, _)
Replaced(t, c, by) == IF t = <<>> THEN <<>> ELSE (IF Head(t) = c THEN by ELSE <<Head(t)>>) \o Replaced(Tail(t), c, by)

\* Mutant: the ampersand is escaped last.
escape_text_Last(t) == Replaced(Replaced(Replaced(t, "<", <<"&", "lt", ";">>), ">", <<"&", "gt", ";">>), "&", <<"&", "amp", ";">>)
escape_text(t) == Replaced(Replaced(Replaced(t, "&", <<"&", "amp", ";">>), "<", <<"&", "lt", ";">>), ">", <<"&", "gt", ";">>)
\* Mutant: an attribute is escaped as text is.
escape_attr_Text(t) == escape_text(t)
escape_attr(t) == Replaced(escape_text(t), "\"", <<"&", "quot", ";">>)

RECURSIVE write_element(_, _)
write_element(el, indent) ==
    LET pad == [i \in 1 .. 2 * indent |-> " "]
        attribute_text(a) == <<" ", a[1], "=", "\"">> \o escape_attr(a[2]) \o <<"\"">>
        end == <<"<", "/", el.name, ">", "nl">>
    IN  pad \o <<"<", el.name>> \o FlattenSeq([i \in DOMAIN el.attributes |-> attribute_text(el.attributes[i])])
          \o (CASE el.children = <<>> /\ el.text = <<>> -> <<"/", ">", "nl">>
                [] el.children = <<>> /\ el.text # <<>> -> <<">">> \o escape_text(el.text) \o end
                [] OTHER -> <<">", "nl">>
                              \o FlattenSeq([i \in DOMAIN el.children |-> write_element(el.children[i], indent + 1)]) \o pad \o end)

to_string(el) == <<"<", "?", "xml", " ", "version", "?", ">", "nl">> \o write_element(el, 0)

-----------------------------------------------------------------------------
(* Messages.  An option is a sequence of at most one. *)

NETCONF_BASE_NS_1_0 == <<"base:1.0">>
NETCONF_BASE_NS_1_1 == <<"base:1.1">>
Plain(name) == [name |-> name, url |-> <<>>]
NoStore == Plain("-")
Numerals == {<<"1">>, <<"7">>, <<"4294967295">>}   \* what parses as a u32, of the numbers that occur

from_target_element(el) ==
    IF el.children = <<>> THEN {}
    ELSE LET c == Head(el.children)
         IN  CASE local_name(c.name) \in {"running", "startup", "candidate"} -> {Plain(local_name(c.name))}
               [] local_name(c.name) = "url" -> {[name |-> "url", url |-> c.text]}
               [] OTHER -> {}
to_target_element(d, parent) == child(Xml(parent), IF d.name = "url" THEN text(Xml("url"), d.url) ELSE Xml(d.name))

\* Mutant: "none" is left out.
from_str_None(t) == IF t \in {<<"replace">>, <<"create">>, <<"delete">>} THEN t[1] ELSE "merge"
from_str(t) == IF t \in {<<"replace">>, <<"create">>, <<"delete">>, <<"none">>} THEN t[1] ELSE "merge"

Op(op) == [op |-> op, target |-> NoStore, source |-> NoStore, default_op |-> "", element |-> <<>>, session_id |-> <<>>]
Stored(el, n) == UNION {from_target_element(c) : c \in Range(child_named(el, n))}

parse_operation(el) ==
    LET name == local_name(el.name)
        o == Op(name)
        mode == child_named(el, "default-operation")
        sid == child_named(el, "session-id")
    IN  CASE name = "get-config" -> {[o EXCEPT !.source = d] : d \in Stored(el, "source")}
          [] name = "get" -> {[o EXCEPT !.element = child_named(el, "filter")]}
          [] name = "edit-config" ->
                {[o EXCEPT !.target = d, !.element = <<c>>,
                           !.default_op = IF mode = <<>> THEN "merge" ELSE from_str(trim(mode[1].text))] :
                    d \in Stored(el, "target"), c \in Range(child_named(el, "config"))}
          [] name = "copy-config" ->
                {[o EXCEPT !.target = d, !.source = e] : d \in Stored(el, "target"), e \in Stored(el, "source")}
          [] name \in {"delete-config", "lock", "unlock"} -> {[o EXCEPT !.target = d] : d \in Stored(el, "target")}
          [] name = "kill-session" ->
                {[o EXCEPT !.session_id = trim(n.text)] : n \in {x \in Range(sid) : trim(x.text) \in Numerals}}
          [] name \in {"close-session", "discard-changes"} -> {o}
          [] OTHER -> {[Op("other") EXCEPT !.element = <<el>>]}

operation_to_xml(o) ==
    CASE o.op = "get-config" -> child(Xml(o.op), to_target_element(o.source, "source"))
      [] o.op = "get" -> [Xml(o.op) EXCEPT !.children = o.element]
      [] o.op = "edit-config" ->
            [Xml(o.op) EXCEPT !.children = <<to_target_element(o.target, "target"),
                                             text(Xml("default-operation"), <<o.default_op>>)>> \o o.element]
      [] o.op = "copy-config" ->
            child(child(Xml(o.op), to_target_element(o.target, "target")), to_target_element(o.source, "source"))
      [] o.op \in {"delete-config", "lock", "unlock"} -> child(Xml(o.op), to_target_element(o.target, "target"))
      [] o.op = "kill-session" -> child(Xml(o.op), text(Xml("session-id"), o.session_id))
      [] o.op \in {"close-session", "discard-changes"} -> Xml(o.op)
      [] o.op = "other" -> o.element[1]

Rpc(id, o) == [message_id |-> id, operation |-> o]
parse_rpc(s) ==
    UNION {UNION {{Rpc(id, o) : o \in parse_operation(Head(root.children))} : id \in attribute(root, "message-id")} :
              root \in {r \in parse_root(s) : local_name(r.name) = "rpc" /\ r.children # <<>>}}
rpc_to_xml(r) ==
    child(attr(attr(Xml("rpc"), "message-id", r.message_id), "xmlns", NETCONF_BASE_NS_1_0), operation_to_xml(r.operation))

Hello(capabilities, sid) == [capabilities |-> capabilities, session_id |-> sid]
server_default(sid) == Hello(<<NETCONF_BASE_NS_1_0, NETCONF_BASE_NS_1_1, <<"writable-running">>, <<"url:1.0">>>>, <<sid>>)
parse_hello(s) ==
    {LET caps == child_named(root, "capabilities")
         named == IF caps = <<>> THEN <<>> ELSE children_named(caps[1], "capability")
         sid == child_named(root, "session-id")
     IN  Hello([i \in DOMAIN named |-> named[i].text],
               SelectSeq([i \in DOMAIN sid |-> trim(sid[i].text)], LAMBDA t : t \in Numerals)) :
        root \in {r \in parse_root(s) : local_name(r.name) = "hello"}}
hello_to_xml(h) ==
    LET caps == [i \in DOMAIN h.capabilities |-> text(Xml("capability"), h.capabilities[i])]
    IN  [attr(Xml("hello"), "xmlns", NETCONF_BASE_NS_1_0) EXCEPT
            !.children = <<[Xml("capabilities") EXCEPT !.children = caps]>>
                           \o [i \in DOMAIN h.session_id |-> text(Xml("session-id"), h.session_id[i])]]

RpcError(type, tag, severity, message) ==
    [type |-> type, tag |-> tag, severity |-> severity, message |-> message, app_tag |-> <<>>, path |-> <<>>, info |-> <<>>]
NoError == RpcError(<<>>, <<>>, <<>>, <<>>)
Reply(id, kind, data, err) == [message_id |-> id, kind |-> kind, data |-> data, error |-> err]

parse_rpc_error(el) ==
    LET texts(found) == [i \in DOMAIN found |-> found[i].text]
        said(n) == texts(child_named(el, n))
        first(t, default) == IF t = <<>> THEN default ELSE trim(t[1])
        or(n, default) == first(said(n), default)
    IN  [type |-> or("error-type", <<"application">>), tag |-> or("error-tag", <<"operation-failed">>),
         severity |-> or("error-severity", <<"error">>), message |-> said("error-message"),
         app_tag |-> said("error-app-tag"), path |-> said("error-path"), info |-> child_named(el, "error-info")]
rpc_error_to_xml(e) ==
    LET option(n, o) == [i \in DOMAIN o |-> text(Xml(n), o[i])]
    IN  [Xml("rpc-error") EXCEPT !.children =
            option("error-type", <<e.type>>) \o option("error-tag", <<e.tag>>) \o option("error-severity", <<e.severity>>)
              \o option("error-message", e.message) \o option("error-app-tag", e.app_tag) \o option("error-path", e.path) \o e.info]

parse_rpc_reply(s) ==
    LET result(root, id) ==
            LET of(ok, data) ==
                    CASE ok # <<>> -> {Reply(id, "ok", <<>>, NoError)}
                      [] ok = <<>> /\ data # <<>> -> {Reply(id, "data", data, NoError)}
                      [] ok = <<>> /\ data = <<>> ->
                            {Reply(id, "error", <<>>, parse_rpc_error(e)) : e \in Range(child_named(root, "rpc-error"))}
            IN  of(child_named(root, "ok"), child_named(root, "data"))
    IN  UNION {UNION {result(root, id) : id \in attribute(root, "message-id")} :
                  root \in {r \in parse_root(s) : local_name(r.name) = "rpc-reply"}}
rpc_reply_to_xml(r) ==
    child(attr(attr(Xml("rpc-reply"), "message-id", r.message_id), "xmlns", NETCONF_BASE_NS_1_0),
          CASE r.kind = "ok" -> Xml("ok") [] r.kind = "data" -> r.data[1] [] r.kind = "error" -> rpc_error_to_xml(r.error))

-----------------------------------------------------------------------------
(* One request and its answer.  The datastore's outcome is given: <<"ok">>, <<"data", element>> or <<"failed", error>>. *)

error_to_reply(e, id) ==
    Reply(id, "error", <<>>,
          CASE e = "UnknownDatastore" -> RpcError(<<"protocol">>, <<"invalid-value">>, <<"error">>, <<<<"unknown", " ", "datastore">>>>)
            [] e = "XmlParse" -> RpcError(<<"rpc">>, <<"malformed-message">>, <<"error">>, <<<<"xml">>>>)
            [] e = "MissingMessageId" -> RpcError(<<"rpc">>, <<"missing-attribute">>, <<"error">>, <<<<"id">>>>)
            [] OTHER -> RpcError(<<"application">>, <<"operation-failed">>, <<"error">>, <<<<"<", "x", ">">>>>))
Unsupported == {"kill-session", "discard-changes", "other"}
dispatch(r, outcome) ==
    CASE r.operation.op \in Unsupported -> error_to_reply("Rpc", r.message_id)
      [] r.operation.op \notin Unsupported /\ outcome[1] = "failed" -> error_to_reply(outcome[2], r.message_id)
      [] r.operation.op \notin Unsupported /\ outcome[1] # "failed" ->
            IF r.operation.op \in {"get", "get-config"} THEN Reply(r.message_id, "data", <<outcome[2]>>, NoError)
            ELSE Reply(r.message_id, "ok", <<>>, NoError)

\* What the server sends for a document, and whether the session ends; a document without an <rpc> is ignored, an <rpc>
\* that cannot be read is answered under the id 0.
handle_message(s, outcome) ==
    LET send(reply, close) == [sent |-> <<to_string(rpc_reply_to_xml(reply))>>, close |-> close]
        serve(r) == send(dispatch(r, outcome), r.operation.op = "close-session")
        answer(rpcs) == IF rpcs # {} THEN serve(CHOOSE r \in rpcs : TRUE)
                        ELSE send([error_to_reply("XmlParse", <<"0">>) EXCEPT !.error.message = <<<<"bad">>>>], FALSE)
    IN  IF \E x \in parse_root(s) : local_name(x.name) = "rpc" THEN answer(parse_rpc(s)) ELSE [sent |-> <<>>, close |-> FALSE]

\* The first of a sequence of options that has a value.
FirstFound(options) ==
    LET found == {i \in DOMAIN options : options[i] # {}} IN IF found = {} THEN {} ELSE options[Min(found)]
\* Mutant: any reply is taken.
rpc_Any(id, documents) == FirstFound([i \in DOMAIN documents |-> parse_rpc_reply(documents[i])])
\* The first of the documents that is a reply with the client's id, other documents passed over.
rpc(id, documents) == FirstFound([i \in DOMAIN documents |-> {r \in parse_rpc_reply(documents[i]) : r.message_id = id}])

\* Both ends accept a hello that has a base capability.
hello_accepted(s) ==
    \E h \in parse_hello(s) : \E c \in Range(h.capabilities) : c \in {NETCONF_BASE_NS_1_0, NETCONF_BASE_NS_1_1}

-----------------------------------------------------------------------------
Said == {<<>>, <<"a">>, <<"a", " ", "b">>, <<"&">>, <<"&", "lt", ";">>, <<"<", "\"", ">">>, <<"'", "a">>, <<" ", "a", "nl">>}
Ids == {<<"1">>, <<"7">>, <<"\"", "&", "<">>, <<" ", "nl">>, <<"'">>}
Leaves == {text(Xml("leaf"), t) : t \in Said}
Trees == Leaves \union {attr(child(Xml("list"), l), "key", t) : l \in Leaves, t \in Said}
           \union {text(child(child(Xml("list"), l), Xml("leaf")), <<"a">>) : l \in Leaves}
In(name, S) == {child(Xml(name), x) : x \in S} \union {Xml(name)}
Datastores == {Plain("running"), Plain("startup"), Plain("candidate"), [name |-> "url", url |-> <<"a", "&", "b">>]}
Config == child(Xml("config"), attr(Xml("leaf"), "key", <<"\"">>))
Operations ==
    {[Op("get-config") EXCEPT !.source = d] : d \in Datastores}
      \union {[Op("get") EXCEPT !.element = e] : e \in {<<>>, <<attr(Xml("filter"), "type", <<"subtree">>)>>}}
      \union {[Op("edit-config") EXCEPT !.target = Plain("candidate"), !.default_op = m, !.element = <<Config>>] :
                 m \in {"merge", "replace", "create", "delete", "none"}}
      \union {[Op("copy-config") EXCEPT !.target = d, !.source = Plain("startup")] : d \in Datastores}
      \union {[Op(n) EXCEPT !.target = d] : n \in {"delete-config", "lock", "unlock"}, d \in Datastores}
      \union {[Op("kill-session") EXCEPT !.session_id = n] : n \in Numerals}
      \union {Op("close-session"), Op("discard-changes"), [Op("other") EXCEPT !.element = <<text(Xml("leaf"), <<"a">>)>>]}
Errors ==
    {[RpcError(<<"rpc">>, <<"in-use">>, <<"warning">>, m) EXCEPT !.app_tag = a, !.info = i] :
        m \in {<<>>, <<<<"<", "a">>>>}, a \in {<<>>, <<<<"a">>>>}, i \in {<<>>, <<child(Xml("error-info"), Xml("leaf"))>>}}
Outcomes == {<<"ok">>, <<"data", child(Xml("data"), Xml("leaf"))>>, <<"failed", "UnknownDatastore">>, <<"failed", "Locked">>}
\* A <lock> as other programs write it.
Foreign ==
    LET id == <<"message-id", " ", "=", "'", "7", "'">>
        body == <<"<", "nc:lock", ">", "<", "!", "--", "a", "--", ">", "<", "nc:target", ">", "nl", "<", "nc:running", " ", "/", ">",
                  "<", "/", "nc:target", ">", "<", "/", "nc:lock", " ", ">">>
    IN  {pro \o <<"<", "nc:rpc", " ">> \o id \o <<" ", ">">> \o body \o <<"<", "/", "nc:rpc", ">">> \o after :
            pro \in {<<>>, <<"nl", "<", "?", "xml", "?", ">", " ">>, <<"<", "!", "--", "<", "a", ">", "--", ">">>},
            after \in {<<>>, <<"nl">>, <<"<", "leaf">>}}
\* Documents that are no <rpc>, or one that says nothing the server can do.
Unread == {<<>>, <<"<", "rpc", ">">>, <<"<", "rpc", "/", ">">>, <<"<", "rpc", ">", "<", "/", "leaf", ">">>,
           <<"<", "!", "[", "CDATA[", "a", "b", "]", "]", ">">>, to_string(hello_to_xml(server_default(<<"7">>))),
           to_string(rpc_to_xml(Rpc(<<"1">>, [Op("lock") EXCEPT !.target = [name |-> "leaf", url |-> <<>>]]))),
           to_string(rpc_to_xml(Rpc(<<"1">>, [Op("kill-session") EXCEPT !.session_id = <<"4294967296">>])))}
NetconfSamples ==
    {<<"tree", t>> : t \in Trees} \union {<<"rpc", Rpc(i, o)>> : i \in Ids, o \in Operations}
      \union {<<"reply", Reply(<<"1">>, "error", <<>>, e)>> : e \in Errors}
      \union {<<"reply", Reply(i, "data", <<d>>, NoError)>> : i \in Ids, d \in In("data", {Xml("leaf"), text(Xml("ok"), <<"&">>)})}
      \union {<<"hello", Hello(c, n)>> : c \in {<<>>, <<NETCONF_BASE_NS_1_1>>, server_default(<<"1">>).capabilities},
                                         n \in {<<>>, <<<<"7">>>>}}
      \union {<<"foreign", f>> : f \in Foreign} \union {<<"unread", u>> : u \in Unread}
      \union {<<"call", Rpc(<<"7">>, o), c>> : o \in Operations, c \in Outcomes}

RECURSIVE Kept(_)
\* What a document keeps of a tree: text without the blanks around it, and none beside child elements.
Kept(el) == [el EXCEPT !.children = [i \in DOMAIN el.children |-> Kept(el.children[i])],
                       !.text = IF el.children = <<>> THEN trim(el.text) ELSE <<>>]

\* "Re-parse to confirm well-formedness" (xml.rs, message.rs tests): an element, a request, a reply and a hello are read
\* from their document as they were written, whatever marks are in a text, an id or an attribute; a request written by
\* another program with a prolog, comments, prefixes and blanks is read alike; what is no request is not taken for one;
\* and a client gets from the server, among other documents, the one reply to its own request, which says what the
\* datastore said, and the session ends with <close-session> alone.
NetconfReads(x) ==
    LET m == x[2]
        asks == m.operation.op \in {"get", "get-config"}
        fits == m.operation.op \in Unsupported \/ x[3][1] = "failed" \/ (asks <=> x[3][1] = "data")
        stray == to_string(rpc_reply_to_xml(Reply(<<"0">>, "ok", <<>>, NoError)))
        answered(asked, done) ==
            /\ done.close <=> m.operation.op = "close-session"
            /\ \A before \in {<<>>, <<stray>>, <<asked>>} :
                  \E r \in rpc(m.message_id, before \o done.sent) :
                      /\ r.kind = "error" <=> (m.operation.op \in Unsupported \/ x[3][1] = "failed")
                      /\ r.kind = "data" => r.data = <<x[3][2]>>
        called(asked) == answered(asked, handle_message(asked, x[3]))
        passed(done) == ~done.close /\ rpc(<<"1">>, done.sent) = {}
        greeted(hello) == parse_hello(hello) = {m} /\ (hello_accepted(hello) <=> m.capabilities # <<>>)
    IN  CASE x[1] = "tree" -> parse_root(to_string(m)) = {Kept(m)}
          [] x[1] = "rpc" -> parse_rpc(to_string(rpc_to_xml(m))) = {m}
          [] x[1] = "reply" -> parse_rpc_reply(to_string(rpc_reply_to_xml(m))) = {m}
          [] x[1] = "hello" -> greeted(to_string(hello_to_xml(m)))
          [] x[1] = "foreign" -> parse_rpc(m) = {Rpc(<<"7">>, [Op("lock") EXCEPT !.target = Plain("running")])}
          [] x[1] = "unread" -> parse_rpc(m) = {} /\ passed(handle_message(m, <<"ok">>))
          [] x[1] = "call" -> fits => called(to_string(rpc_to_xml(m)))
=============================================================================
