------------------------------- MODULE Sieve -------------------------------
(***************************************************************************)
(* tpt-sieve: mail filtering scripts (RFC 5228).  The lexer reads a        *)
(* sequence of symbols (a character, or a whole keyword), the parser reads *)
(* tokens, the evaluator walks the command tree and collects actions, and  *)
(* finalize decides what becomes of the message.  A reader is a set of     *)
(* <<value, next position>> pairs, the empty set being an error; a string  *)
(* is a sequence of characters.                                            *)
(***************************************************************************)
EXTENDS Integers, Sequences, FiniteSets, TLC, SequencesExt

None == ""
Upper == ("A" :> "a") @@ ("B" :> "b") @@ ("IF" :> "if") @@ ("Keep" :> "keep")
LowerOf(c) == IF c \in DOMAIN Upper THEN Upper[c] ELSE c
to_ascii_lowercase(s) == SubSeq([i \in 1..Len(s) |-> LowerOf(s[i])], 1, Len(s))
Peek(q, p) == IF p <= Len(q) THEN q[p] ELSE None

----------------------------------------------------------------------------
(* lexer.rs                                                                *)

Punctuation == {"[", "]", "{", "}", ",", ";", "(", ")"}
Digits == [d \in {"0", "1", "2", "9"} |-> CASE d = "0" -> 0 [] d = "1" -> 1
                                            [] d = "2" -> 2 [] OTHER -> 9]
Keywords == {"require", "if", "IF", "elsif", "else", "keep", "Keep", "discard",
             "stop", "redirect", "fileinto", "allof", "anyof", "not", "exists",
             "true", "false", "size", "header", "address", "envelope", "over",
             "under", "is", "contains", "matches", "comparator", "localpart",
             "domain", "all", "text"}
Words == Keywords \union {"a", "b", "A", "B", "K", "M", "G"}
Blank == {" ", "\t", "\r", "\n"}
\* The largest number, u64::MAX in the code, scaled to TLC's integers.
NumberMax == 2147483647
checked_mul(a, b) == IF a > NumberMax \div b THEN {} ELSE {a * b}
checked_add(a, b) == IF a > NumberMax - b THEN {} ELSE {a + b}

RECURSIVE LineEnd(_, _), BlockEnd(_, _), skip_ws_and_comments(_, _)
LineEnd(cs, p) == IF Peek(cs, p) \in {None, "\n"} THEN p ELSE LineEnd(cs, p + 1)
BlockEnd(cs, p) ==
  IF Peek(cs, p) = None THEN p
  ELSE IF cs[p] = "*" /\ Peek(cs, p + 1) = "/" THEN p + 2 ELSE BlockEnd(cs, p + 1)
skip_ws_and_comments(cs, p) ==
  CASE Peek(cs, p) \in Blank -> skip_ws_and_comments(cs, p + 1)
    [] Peek(cs, p) = "#" -> skip_ws_and_comments(cs, LineEnd(cs, p))
    [] Peek(cs, p) = "/" /\ Peek(cs, p + 1) = "*" ->
         skip_ws_and_comments(cs, BlockEnd(cs, p + 2))
    [] OTHER -> p

Past(cs, p, S) == IF Peek(cs, p) \in S THEN p + 1 ELSE p
NewLine(cs, p) == Past(cs, Past(cs, p, {"\r"}), {"\n"})
RECURSIVE lex_quoted(_, _, _)
lex_quoted(cs, p, s) ==
  CASE Peek(cs, p) = None -> {}
    [] Peek(cs, p) = "\"" -> {<<s, p + 1>>}
    [] Peek(cs, p) = "\\" ->
         LET c == Peek(cs, p + 1)
         IN  CASE c = None -> {}
               [] c \in {"\"", "\\"} -> lex_quoted(cs, p + 2, Append(s, c))
               [] c \in Blank -> lex_quoted(cs, NewLine(cs, p + 2), s)
               [] OTHER -> lex_quoted(cs, p + 2, s \o <<"\\", c>>)
    [] OTHER -> lex_quoted(cs, p + 1, Append(s, cs[p]))

RECURSIVE EndOf(_, _, _)
EndOf(cs, p, S) == IF Peek(cs, p) \in S THEN p ELSE EndOf(cs, p + 1, S)
\* A mutant: a line keeps the dot it was stuffed with.
Unstuffed_Not(line) == line
Unstuffed(line) == IF line # <<>> /\ Head(line) = "." THEN Tail(line) ELSE line
RECURSIVE TextLines(_, _, _)
TextLines(cs, p, out) ==
  LET e == EndOf(cs, p, {None, "\r", "\n"})
      line == SubSeq(cs, p, e - 1)
  IN  IF Peek(cs, e) = None THEN {}
      ELSE IF line = <<".">> THEN {<<out, NewLine(cs, e)>>}
      ELSE TextLines(cs, NewLine(cs, e), out \o Unstuffed(line) \o <<"\n">>)
RECURSIVE Spaces(_, _)
Spaces(cs, p) == IF Peek(cs, p) \in {" ", "\t"} THEN Spaces(cs, p + 1) ELSE p
lex_multiline(cs, p) ==
  LET q == Spaces(cs, p + 2)
  IN  IF Peek(cs, q) \in {"\r", "\n"} THEN TextLines(cs, NewLine(cs, q), <<>>) ELSE {}

RECURSIVE Decimal(_, _, _)
Decimal(cs, p, n) ==
  IF Peek(cs, p) \notin DOMAIN Digits THEN {<<n, p>>}
  ELSE UNION {UNION {Decimal(cs, p + 1, v) : v \in checked_add(t, Digits[cs[p]])}
              : t \in checked_mul(n, 10)}
Quantifier(c) == CASE c = "K" -> 1024 [] c = "M" -> 1048576 [] c = "G" -> 1073741824
                   [] OTHER -> 1
lex_number(cs, p) ==
  UNION {{<<v, Past(cs, d[2], {"K", "M", "G"})>> :
            v \in checked_mul(d[1], Quantifier(Peek(cs, d[2])))} : d \in Decimal(cs, p, 0)}
lex_ident(cs, p) == IF Peek(cs, p) \in Words THEN <<cs[p], p + 1>> ELSE <<"", p>>
lex_tag(cs, p) == lex_ident(cs, p + 1)

Punct(c) == <<"Punct", c>>
Token(cs, p) ==
  LET As(k, S) == {<<<<k, r[1]>>, r[2]>> : r \in S}
      c == cs[p]
  IN  CASE c = "text" /\ Peek(cs, p + 1) = ":" -> As("String", lex_multiline(cs, p))
        [] c = "\"" -> As("String", lex_quoted(cs, p + 1, <<>>))
        [] c \in Punctuation -> {<<Punct(c), p + 1>>}
        [] c = ":" -> As("Tag", {lex_tag(cs, p)})
        [] c \in DOMAIN Digits -> As("Number", lex_number(cs, p))
        [] c \in Words -> As("Ident", {lex_ident(cs, p)})
        [] OTHER -> {}
RECURSIVE tokenize(_, _)
tokenize(cs, p) ==
  LET q == skip_ws_and_comments(cs, p)
  IN  IF Peek(cs, q) = None THEN {<<>>}
      ELSE UNION {{<<t[1]>> \o r : r \in tokenize(cs, t[2])} : t \in Token(cs, q)}

----------------------------------------------------------------------------
(* parser.rs                                                               *)

Kind(ts, p) == IF p <= Len(ts) THEN ts[p][1] ELSE None
Is(ts, p, c) == p <= Len(ts) /\ ts[p] = Punct(c)
Named(ts, p, name) == Kind(ts, p) = "Ident" /\ LowerOf(ts[p][2]) = name
Close(ts, S, c) == {<<r[1], r[2] + 1>> : r \in {x \in S : Is(ts, x[2], c)}}

RECURSIVE ListItems(_, _, _)
ListItems(ts, p, v) ==
  IF Kind(ts, p) = "String"
    THEN LET w == Append(v, ts[p][2])
         IN  CASE Is(ts, p + 1, ",") -> ListItems(ts, p + 2, w)
               [] Is(ts, p + 1, "]") -> {<<w, p + 2>>}
               [] OTHER -> {}
  ELSE Close(ts, {<<v, IF p <= Len(ts) THEN p + 1 ELSE p>>}, "]")
parse_string_list(ts, p) ==
  CASE Is(ts, p, "[") -> ListItems(ts, p + 1, <<>>)
    [] Kind(ts, p) = "String" -> {<<<<ts[p][2]>>, p + 1>>}
    [] OTHER -> {}
parse_require(ts, p) == Close(ts, parse_string_list(ts, p + 1), ";")
One(S) == {<<r[1][1], r[2]>> : r \in {x \in S : Len(x[1]) = 1}}
parse_action(ts, p, lower) ==
  CASE lower = "keep" -> {<<<<"Keep">>, p>>}
    [] lower = "discard" -> {<<<<"Discard">>, p>>}
    [] lower = "stop" -> {<<<<"Stop">>, p>>}
    [] lower = "redirect" -> {<<<<"Redirect", r[1]>>, r[2]>> : r \in One(parse_string_list(ts, p))}
    [] lower = "fileinto" -> {<<<<"FileInto", r[1]>>, r[2]>> : r \in One(parse_string_list(ts, p))}
    [] OTHER -> {}

\* The two comparators' names, i;ascii-casemap and i;octet.
CasemapName == <<"a">>
OctetName == <<"b">>
parse_comparator(list) ==
  CASE list = <<CasemapName>> -> {"AsciiCasemap"}
    [] list = <<OctetName>> -> {"Octet"}
    [] OTHER -> {}
MatchTags == [is |-> "Is", contains |-> "Contains", matches |-> "Matches"]
PartTags == [localpart |-> "LocalPart", domain |-> "DomainPart", all |-> "All"]
\* g = <<address part, comparator, match type>>; only an address test has parts.
RECURSIVE parse_tags(_, _, _, _)
parse_tags(ts, p, g, parts) ==
  IF Kind(ts, p) # "Tag" THEN {<<g, p>>}
  ELSE LET t == ts[p][2]
       IN  CASE parts /\ t \in DOMAIN PartTags ->
                  parse_tags(ts, p + 1, <<PartTags[t], g[2], g[3]>>, parts)
             [] t \in DOMAIN MatchTags ->
                  parse_tags(ts, p + 1, <<g[1], g[2], MatchTags[t]>>, parts)
             [] t = "comparator" ->
                  UNION {UNION {parse_tags(ts, l[2], <<g[1], c, g[3]>>, parts)
                                : c \in parse_comparator(l[1])}
                         : l \in parse_string_list(ts, p + 1)}
             [] OTHER -> {}
DefaultTags == <<"All", "AsciiCasemap", "Is">>
parse_common_tags(ts, p) == parse_tags(ts, p, DefaultTags, FALSE)
parse_address_tags(ts, p) == parse_tags(ts, p, DefaultTags, TRUE)
\* The tags, the list of names and the list of keys of a string test.
StringTest(ts, tags) ==
  UNION {UNION {{<<g[1], n[1], k[1], k[2]>> : k \in parse_string_list(ts, n[2])}
                : n \in parse_string_list(ts, g[2])} : g \in tags}

is_test_name(w) == LowerOf(w) \in {"allof", "anyof", "not", "exists", "true", "false",
                                   "size", "header", "address", "envelope"}
parse_size(ts, p) ==
  IF /\ Kind(ts, p) = "Tag" /\ ts[p][2] \in {"over", "under"}
     /\ Kind(ts, p + 1) = "Number"
    THEN {<<<<"Size", ts[p][2] = "over", ts[p + 1][2]>>, p + 2>>} ELSE {}
RECURSIVE parse_test(_, _), TestItems(_, _, _, _)
parse_test(ts, p) ==
  LET lower == IF Kind(ts, p) = "Ident" THEN LowerOf(ts[p][2]) ELSE None
      q == p + 1
      paren == Is(ts, q, "(")
      List(k) == {<<<<k, r[1]>>, r[2]>> :
                    r \in {x \in TestItems(ts, IF paren THEN q + 1 ELSE q, <<>>, paren) :
                             x[1] # <<>>}}
  IN  CASE lower = "allof" -> List("AllOf")
        [] lower = "anyof" -> List("AnyOf")
        [] lower = "not" -> {<<<<"Not", r[1]>>, r[2]>> : r \in parse_test(ts, q)}
        [] lower = "exists" -> {<<<<"Exists", r[1]>>, r[2]>> : r \in parse_string_list(ts, q)}
        [] lower = "true" -> {<<<<"True">>, q>>}
        [] lower = "false" -> {<<<<"False">>, q>>}
        [] lower = "size" -> parse_size(ts, q)
        [] lower = "header" -> {<<<<"Header", r[1], r[2], r[3]>>, r[4]>> :
                                  r \in StringTest(ts, parse_common_tags(ts, q))}
        [] lower = "address" -> {<<<<"Address", r[1], r[2], r[3]>>, r[4]>> :
                                   r \in StringTest(ts, parse_address_tags(ts, q))}
        [] lower = "envelope" -> {<<<<"Envelope", r[1], r[2], r[3]>>, r[4]>> :
                                    r \in StringTest(ts, parse_common_tags(ts, q))}
        [] OTHER -> {}
\* parse_test_list: after a comma the next word decides whether the list goes on.
TestItems(ts, p, v, paren) ==
  IF ~(Kind(ts, p) = "Ident" /\ is_test_name(ts[p][2])) THEN {<<v, p>>}
  ELSE UNION {CASE Is(ts, t[2], ",") -> TestItems(ts, t[2] + 1, Append(v, t[1]), paren)
                [] Is(ts, t[2], ")") -> IF paren THEN {<<Append(v, t[1]), t[2] + 1>>} ELSE {}
                [] OTHER -> IF paren THEN {} ELSE {<<Append(v, t[1]), t[2]>>}
              : t \in parse_test(ts, p)}

RECURSIVE parse_if(_, _), parse_block(_, _), BlockItems(_, _, _), Branches(_, _, _)
parse_top_command(ts, p) ==
  IF Named(ts, p, "if") THEN parse_if(ts, p + 1)
  ELSE {<<<<"Action", r[1]>>, r[2]>> :
          r \in Close(ts, parse_action(ts, p + 1, LowerOf(ts[p][2])), ";")}
parse_if(ts, p) ==
  UNION {UNION {Branches(ts, b[2], <<"If", t[1], b[1], <<>>, <<>>>>)
                : b \in parse_block(ts, t[2])} : t \in parse_test(ts, p)}
Branches(ts, p, c) ==
  CASE Named(ts, p, "elsif") ->
         UNION {UNION {Branches(ts, b[2], [c EXCEPT ![4] = Append(@, <<t[1], b[1]>>)])
                       : b \in parse_block(ts, t[2])} : t \in parse_test(ts, p + 1)}
    [] Named(ts, p, "else") ->
         UNION {Branches(ts, b[2], [c EXCEPT ![5] = <<b[1]>>]) : b \in parse_block(ts, p + 1)}
    [] OTHER -> {<<c, p>>}
parse_block(ts, p) == IF Is(ts, p, "{") THEN BlockItems(ts, p + 1, <<>>) ELSE {}
BlockItems(ts, p, v) ==
  CASE Is(ts, p, "}") -> {<<v, p + 1>>}
    [] Kind(ts, p) = "Ident" /\ \A w \in {"require", "elsif", "else"} : ~Named(ts, p, w) ->
         UNION {BlockItems(ts, c[2], Append(v, c[1])) : c \in parse_top_command(ts, p)}
    [] OTHER -> {}
RECURSIVE parse_script(_, _, _, _)
parse_script(ts, p, cmds, caps) ==
  CASE p > Len(ts) -> {[commands |-> cmds, capabilities |-> caps]}
    [] Named(ts, p, "require") ->
         IF \E i \in 1..Len(cmds) : cmds[i][1] # "Require" THEN {}
         ELSE UNION {parse_script(ts, r[2], Append(cmds, <<"Require", r[1]>>),
                                  caps \union ToSet(r[1])) : r \in parse_require(ts, p)}
    [] Kind(ts, p) = "Ident" ->
         UNION {parse_script(ts, c[2], Append(cmds, c[1]), caps)
                : c \in parse_top_command(ts, p)}
    [] OTHER -> {}
parse(cs) == UNION {parse_script(ts, 1, <<>>, {}) : ts \in tokenize(cs, 1)}

----------------------------------------------------------------------------
(* context.rs: a message is its headers, its envelope and its size         *)

Message(size) == [headers |-> <<>>, envelope |-> <<>>, size |-> size]
Values(f, name) == LET k == to_ascii_lowercase(name) IN IF k \in DOMAIN f THEN f[k] ELSE <<>>
Added(f, name, v) == (to_ascii_lowercase(name) :> Append(Values(f, name), v)) @@ f
add_header(ctx, name, v) == [ctx EXCEPT !.headers = Added(@, name, v)]
add_envelope(ctx, part, v) == [ctx EXCEPT !.envelope = Added(@, part, v)]
header_values(ctx, name) == Values(ctx.headers, name)
envelope_values(ctx, part) == Values(ctx.envelope, part)

----------------------------------------------------------------------------
(* evaluator.rs: comparing strings                                         *)

\* sp, st: the last star of the pattern and the text it has absorbed, 0 at first.
\* A mutant: the text is taken up after the mismatch, not after the last start.
Retry_Ahead(ti, st) == ti + 1
Retry(ti, st) == st + 1
RECURSIVE GlobFrom(_, _, _, _, _, _)
GlobFrom(t, p, ti, pi, sp, st) ==
  IF ti > Len(t) THEN \A i \in pi..Len(p) : p[i] = "*"
  ELSE CASE Peek(p, pi) = "*" -> GlobFrom(t, p, ti, pi + 1, pi, ti)
         [] Peek(p, pi) # None /\ p[pi] \in {"?", t[ti]} -> GlobFrom(t, p, ti + 1, pi + 1, sp, st)
         [] OTHER -> sp # 0 /\ GlobFrom(t, p, Retry(ti, st), sp + 1, sp, Retry(ti, st))
glob_match(text, pattern) == GlobFrom(text, pattern, 1, 1, 0, 0)

Includes(s, k) == \E i \in 0..(Len(s) - Len(k)) : SubSeq(s, i + 1, i + Len(k)) = k
string_matches(comparator, mt, value, key) ==
  LET v == IF comparator = "AsciiCasemap" THEN to_ascii_lowercase(value) ELSE value
      k == IF comparator = "AsciiCasemap" THEN to_ascii_lowercase(key) ELSE key
  IN  CASE mt = "Is" -> v = k
        [] mt = "Contains" -> Includes(v, k)
        [] OTHER -> glob_match(v, k)
any_match(sources, keys, g) ==
  \E i \in DOMAIN sources, j \in DOMAIN keys : string_matches(g[2], g[3], sources[i], keys[j])

Find(s, c) == IF \E i \in DOMAIN s : s[i] = c
                THEN {CHOOSE i \in DOMAIN s : s[i] = c /\ \A j \in 1..(i - 1) : s[j] # c} ELSE {}
RECURSIVE trim(_), split(_), Angles(_)
trim(s) == CASE s # <<>> /\ Head(s) \in Blank -> trim(Tail(s))
             [] s # <<>> /\ s[Len(s)] \in Blank -> trim(Front(s))
             [] OTHER -> s
split(s) == IF Find(s, ",") = {} THEN <<s>>
            ELSE LET i == CHOOSE x \in Find(s, ",") : TRUE
                 IN  <<SubSeq(s, 1, i - 1)>> \o split(SubSeq(s, i + 1, Len(s)))
Angles(s) ==
  UNION {LET after == SubSeq(s, o + 1, Len(s))
         IN  {<<SubSeq(after, 1, c - 1), SubSeq(after, c + 1, Len(after))>> : c \in Find(after, ">")}
         : o \in Find(s, "<")}
RECURSIVE AngleParts(_)
AngleParts(s) == IF Angles(s) = {} THEN <<>>
                 ELSE LET a == CHOOSE x \in Angles(s) : TRUE IN <<a[1]>> \o AngleParts(a[2])
NotEmpty(s) == s # <<>>
\* A mutant: the quotes of a local part stay.
normalize_addr_Quoted(local, domain) ==
  LET l == trim(local) d == trim(domain)
  IN  IF l = <<>> \/ d = <<>> \/ ~Includes(d, <<".">>) THEN <<>> ELSE <<<<l, d>>>>
normalize_addr(local, domain) ==
  LET l == trim(local)
      d == trim(domain)
      quoted == Len(l) >= 2 /\ l[1] = "\"" /\ l[Len(l)] = "\""
      n == IF quoted THEN SubSeq(l, 2, Len(l) - 1) ELSE l
  IN  IF n = <<>> \/ d = <<>> \/ ~Includes(d, <<".">>) THEN <<>> ELSE <<<<n, d>>>>
Addr(cand) ==
  IF Find(cand, "@") = {} THEN <<>>
  ELSE LET i == CHOOSE x \in Find(cand, "@") : TRUE
       IN  normalize_addr(SubSeq(cand, 1, i - 1), SubSeq(cand, i + 1, Len(cand)))
RECURSIVE Joined(_)
Joined(q) == IF q = <<>> THEN <<>> ELSE Head(q) \o Joined(Tail(q))
Each(Op(_), q) == Joined(SubSeq([i \in 1..Len(q) |-> Op(q[i])], 1, Len(q)))
extract_addresses(value) ==
  LET trimmed(part) == <<trim(part)>>
      candidates == IF AngleParts(value) # <<>> THEN AngleParts(value)
                    ELSE SelectSeq(Each(trimmed, split(value)), NotEmpty)
  IN  Each(Addr, candidates)

eval_header(ctx, t) ==
  LET V(n) == header_values(ctx, n) IN any_match(Each(V, t[3]), t[4], t[2])
eval_address(ctx, t) ==
  LET Part(a) == <<CASE t[2][1] = "All" -> a[1] \o <<"@">> \o a[2]
                     [] t[2][1] = "LocalPart" -> a[1]
                     [] OTHER -> a[2]>>
      Of(v) == Each(Part, extract_addresses(v))
      V(n) == Each(Of, header_values(ctx, n))
  IN  any_match(Each(V, t[3]), t[4], t[2])
eval_envelope(ctx, t) ==
  LET V(n) == envelope_values(ctx, n) IN any_match(Each(V, t[3]), t[4], t[2])

----------------------------------------------------------------------------
(* evaluator.rs: running a script.  A test is {TRUE}, {FALSE} or, in error,*)
(* {}; the capabilities "fileinto" and "envelope" are one-letter strings.  *)

FileIntoCap == <<"a">>
EnvelopeCap == <<"b">>
RECURSIVE eval_test(_, _, _), EvalList(_, _, _, _)
eval_test(script, ctx, t) ==
  CASE t[1] = "AllOf" -> EvalList(script, ctx, t[2], FALSE)
    [] t[1] = "AnyOf" -> EvalList(script, ctx, t[2], TRUE)
    [] t[1] = "Not" -> {~b : b \in eval_test(script, ctx, t[2])}
    [] t[1] = "Exists" -> {\A i \in DOMAIN t[2] : header_values(ctx, t[2][i]) # <<>>}
    [] t[1] = "True" -> {TRUE}
    [] t[1] = "False" -> {FALSE}
    [] t[1] = "Size" -> {IF t[2] THEN ctx.size > t[3] ELSE ctx.size < t[3]}
    [] t[1] = "Header" -> {eval_header(ctx, t)}
    [] t[1] = "Address" -> {eval_address(ctx, t)}
    [] OTHER -> IF EnvelopeCap \in script.capabilities THEN {eval_envelope(ctx, t)} ELSE {}
\* The first sub-test that decides ends the list.
EvalList(script, ctx, subs, decides) ==
  IF subs = <<>> THEN {~decides}
  ELSE UNION {IF b = decides THEN {b} ELSE EvalList(script, ctx, Tail(subs), decides)
              : b \in eval_test(script, ctx, Head(subs))}

ActionSet == [keep_explicit |-> FALSE, fileinto |-> <<>>, redirect |-> <<>>,
              discard |-> FALSE, stopped |-> FALSE]
exec_action(script, st, a) ==
  CASE a[1] = "Keep" -> {[st EXCEPT !.keep_explicit = TRUE]}
    [] a[1] = "Discard" -> {[st EXCEPT !.discard = TRUE]}
    [] a[1] = "Stop" -> {[st EXCEPT !.stopped = TRUE]}
    [] a[1] = "Redirect" -> {[st EXCEPT !.redirect = Append(@, a[2])]}
    [] OTHER -> IF FileIntoCap \in script.capabilities
                  THEN {[st EXCEPT !.fileinto = Append(@, a[2])]} ELSE {}
RECURSIVE run_block(_, _, _, _), Otherwise(_, _, _, _, _)
RunCommand(script, ctx, st, c) ==
  CASE c[1] = "Require" -> {st}
    [] c[1] = "Action" -> exec_action(script, st, c[2])
    [] OTHER -> UNION {IF b THEN run_block(script, ctx, st, c[3])
                       ELSE Otherwise(script, ctx, st, c[4], c[5])
                       : b \in eval_test(script, ctx, c[2])}
\* A mutant: a stop ends the block it stands in and no other.
run_block_StopIsLocal(script, ctx, st, cmds) ==
  IF cmds = <<>> \/ st.stopped THEN {[st EXCEPT !.stopped = FALSE]}
  ELSE UNION {run_block(script, ctx, s, Tail(cmds)) : s \in RunCommand(script, ctx, st, Head(cmds))}
run_block(script, ctx, st, cmds) ==
  IF cmds = <<>> \/ st.stopped THEN {st}
  ELSE UNION {run_block(script, ctx, s, Tail(cmds)) : s \in RunCommand(script, ctx, st, Head(cmds))}
Otherwise(script, ctx, st, elsif, else_block) ==
  IF elsif = <<>> THEN IF else_block = <<>> THEN {st} ELSE run_block(script, ctx, st, else_block[1])
  ELSE UNION {IF b THEN run_block(script, ctx, st, elsif[1][2])
              ELSE Otherwise(script, ctx, st, Tail(elsif), else_block)
              : b \in eval_test(script, ctx, elsif[1][1])}
evaluate(script, ctx) == run_block(script, ctx, ActionSet, script.commands)

\* actions.rs: what becomes of the message.
finalize(st) ==
  LET has_delivery == st.fileinto # <<>> \/ st.redirect # <<>>
  IN  CASE st.keep_explicit /\ ~has_delivery -> <<"Keep">>
        [] st.keep_explicit \/ has_delivery ->
             <<"Deliver", st.keep_explicit, st.fileinto, st.redirect>>
        [] st.discard -> <<"Discard">>
        [] OTHER -> <<"Keep">>

----------------------------------------------------------------------------
(* What the functions above are to compute, and inputs small enough for TLC*)

\* A script written down: q tells whether strings are quoted or multi-line.
Escape(s) == Joined(SubSeq([i \in 1..Len(s) |->
                      IF s[i] \in {"\"", "\\"} THEN <<"\\", s[i]>> ELSE <<s[i]>>], 1, Len(s)))
RECURSIVE Stuffed(_)
Stuffed(s) ==
  IF s = <<>> THEN <<>>
  ELSE LET e == CHOOSE i \in Find(s, "\n") : TRUE
       IN  (IF s[1] = "." THEN <<".">> ELSE <<>>) \o SubSeq(s, 1, e) \o Stuffed(SubSeq(s, e + 1, Len(s)))
WriteString(s) ==
  IF s # <<>> /\ s[Len(s)] = "\n"
    THEN <<"text", ":", " ", "\r", "\n">> \o Stuffed(s) \o <<".", "\r", "\n">>
    ELSE <<"\"">> \o Escape(s) \o <<"\"">>
RECURSIVE Commas(_)
Commas(q) == CASE q = <<>> -> <<>>
               [] Len(q) = 1 -> q[1]
               [] OTHER -> Head(q) \o <<",", " ">> \o Commas(Tail(q))
MapTo(Op(_), q) == SubSeq([i \in 1..Len(q) |-> Op(q[i])], 1, Len(q))
WriteList(q) == IF Len(q) = 1 THEN WriteString(q[1])
                ELSE <<"[">> \o Commas(MapTo(WriteString, q)) \o <<"]">>
WriteTags(g) ==
  LET Tag(f, v) == CHOOSE t \in DOMAIN f : f[t] = v
  IN  (IF g[1] = "All" THEN <<>> ELSE <<":", Tag(PartTags, g[1]), " ">>)
      \o (IF g[2] = "Octet" THEN <<":", "comparator", " ">> \o WriteString(OctetName) ELSE <<>>)
      \o <<":", Tag(MatchTags, g[3]), " ">>
RECURSIVE WriteTest(_), WriteCommands(_)
WriteTest(t) ==
  CASE t[1] = "AllOf" -> <<"allof", "(">> \o Commas(MapTo(WriteTest, t[2])) \o <<")">>
    [] t[1] = "AnyOf" -> <<"anyof", " ">> \o Commas(MapTo(WriteTest, t[2]))
    [] t[1] = "Not" -> <<"not", "\t">> \o WriteTest(t[2])
    [] t[1] = "Exists" -> <<"exists">> \o WriteList(t[2])
    [] t[1] = "True" -> <<"true">>
    [] t[1] = "False" -> <<"false">>
    [] t[1] = "Size" -> <<"size", ":", IF t[2] THEN "over" ELSE "under", " ">>
                        \o (IF t[3] % 1024 = 0 /\ t[3] # 0 THEN <<"2", "K">> ELSE <<"1", "0">>)
    [] OTHER -> <<IF t[1] = "Header" THEN "header" ELSE IF t[1] = "Address" THEN "address" ELSE "envelope">>
                \o WriteTags(t[2]) \o WriteList(t[3]) \o WriteList(t[4])
WriteBlock(b) == <<"{">> \o WriteCommands(b) \o <<"}", "\r", "\n">>
WriteAction(a) ==
  CASE a[1] = "Keep" -> <<"Keep">>
    [] a[1] = "Discard" -> <<"discard">>
    [] a[1] = "Stop" -> <<"stop", "/", "*", "\"", "*", "/">>
    [] a[1] = "Redirect" -> <<"redirect">> \o WriteString(a[2])
    [] OTHER -> <<"fileinto">> \o WriteString(a[2])
WriteElsif(e) == <<"elsif", " ">> \o WriteTest(e[1]) \o WriteBlock(e[2])
WriteElse(b) == <<"else">> \o WriteBlock(b)
WriteCommand(c) ==
  CASE c[1] = "Require" -> <<"require">> \o WriteList(c[2]) \o <<";", "#", "\"", "\n">>
    [] c[1] = "Action" -> WriteAction(c[2]) \o <<";">>
    [] OTHER -> <<"IF", " ">> \o WriteTest(c[2]) \o WriteBlock(c[3])
                \o Joined(MapTo(WriteElsif, c[4])) \o Joined(MapTo(WriteElse, c[5]))
WriteCommands(b) == Joined(MapTo(WriteCommand, b))

Word == <<"a">>
Actions == {<<"Keep">>, <<"Discard">>, <<"Stop">>, <<"Redirect", <<"a", "\"", "\\", "b">>>>,
            <<"FileInto", <<".", "a", "\n", ".", "\n", "b", "\n">>>>}
Casemap == <<"All", "AsciiCasemap", "Is">>
Tests == {<<"True">>, <<"False">>, <<"Exists", <<Word, <<"b">>>>>>, <<"Exists", <<<<"A">>>>>>,
          <<"Size", TRUE, 10>>, <<"Size", FALSE, 10>>, <<"Size", TRUE, 2048>>,
          <<"Header", <<"All", "Octet", "Matches">>, <<Word>>, <<<<"*", "B">>>>>>,
          <<"Header", Casemap, <<Word>>, <<<<>>, <<"A", "B">>>>>>,
          <<"Address", <<"LocalPart", "AsciiCasemap", "Contains">>, <<<<"b">>>>, <<<<"a">>>>>>,
          <<"Address", <<"DomainPart", "Octet", "Is">>, <<<<"b">>>>, <<<<"b", ".", "b">>>>>>,
          <<"Envelope", Casemap, <<Word>>, <<Word>>>>}
Deciders == {<<"True">>, <<"False">>, <<"Envelope", Casemap, <<Word>>, <<Word>>>>}
Nested == {<<"Not", t>> : t \in Tests}
          \union {<<k, <<t, u>>>> : k \in {"AllOf", "AnyOf"}, t \in Deciders, u \in Deciders}
Alone(a) == <<<<"Action", a>>>>
Branching(T, A) ==
  {<<"If", t, <<<<"If", <<"True">>, Alone(a), <<>>, <<>>>>, <<"Action", <<"Discard">>>>>>, e, f>> :
     t \in T, a \in A,
     e \in {<<>>, <<<<<<"False">>, Alone(<<"Keep">>)>>, <<<<"True">>, Alone(<<"Stop">>)>>>>},
     f \in {<<>>, <<Alone(<<"Stop">>)>>}}
Declared == {{}, {FileIntoCap}, {FileIntoCap, EnvelopeCap}}
Script(caps, cmds) ==
  [commands |-> (IF caps = {} THEN <<>> ELSE <<<<"Require", SetToSortSeq(caps, LAMBDA x, y : x[1] = "a")>>>>)
                \o cmds,
   capabilities |-> caps]
Contexts == {Message(10),
             add_header(add_header(add_envelope(Message(2049), <<"A">>, <<"A">>), <<"A">>, <<"A", "B">>),
                        <<"b">>, <<"\"", "a", "\"", "@", "b", ".", "b">>)}
ScriptSamples ==
  {<<Script(caps, <<c, d>>), ctx>> :
     caps \in Declared, ctx \in Contexts,
     c \in Branching({<<"True">>, <<"False">>}, Actions) \union Branching(Tests \union Nested, {<<"Stop">>}),
     d \in {<<"Action", a>> : a \in Actions}}

\* Whatever a script says is what is read of its text: quotes, escapes, stuffed
\* dots, comments and nested lists take nothing away and add nothing.
ScriptReads(x) == parse(WriteCommands(x[1].commands)) = {x[1]}

\* What a script is to do: the actions whose conditions hold, in the order of the
\* text, up to the first stop or the first use of an undeclared capability.
RECURSIVE Holds(_, _, _), Doings(_, _, _)
Holds(script, ctx, t) ==
  CASE t[1] \in {"AllOf", "AnyOf"} ->
         LET of == SubSeq([i \in 1..Len(t[2]) |-> Holds(script, ctx, t[2][i])], 1, Len(t[2]))
             d == IF t[1] = "AnyOf" THEN "yes" ELSE "no"
             F == {i \in DOMAIN of : of[i] \in {d, "error"}}
         IN  IF F = {} THEN IF d = "yes" THEN "no" ELSE "yes"
             ELSE of[CHOOSE i \in F : \A j \in F : i <= j]
    [] t[1] = "Not" -> LET h == Holds(script, ctx, t[2])
                       IN  CASE h = "yes" -> "no" [] h = "no" -> "yes" [] OTHER -> h
    [] t[1] = "Envelope" /\ EnvelopeCap \notin script.capabilities -> "error"
    [] OTHER -> IF TRUE \in eval_test(script, ctx, t) THEN "yes" ELSE "no"
Doings(script, ctx, cmds) ==
  IF cmds = <<>> THEN <<>>
  ELSE LET c == Head(cmds)
           all == <<<<c[2], c[3]>>>> \o c[4] \o (IF c[5] = <<>> THEN <<>> ELSE <<<<<<"True">>, c[5][1]>>>>)
           F == {i \in DOMAIN all : Holds(script, ctx, all[i][1]) # "no"}
           i == CHOOSE j \in F : \A k \in F : j <= k
           here == CASE c[1] = "Require" -> <<>>
                     [] c[1] = "Action" ->
                          IF c[2][1] = "FileInto" /\ FileIntoCap \notin script.capabilities
                            THEN <<<<"Error">>>> ELSE <<c[2]>>
                     [] OTHER -> IF F = {} THEN <<>>
                                 ELSE IF Holds(script, ctx, all[i][1]) = "error" THEN <<<<"Error">>>>
                                 ELSE Doings(script, ctx, all[i][2])
       IN  here \o Doings(script, ctx, Tail(cmds))
Done(q) == LET E == {i \in DOMAIN q : q[i][1] \in {"Stop", "Error"}}
           IN  IF E = {} THEN q ELSE SubSeq(q, 1, CHOOSE i \in E : \A j \in E : i <= j)
Args(q, k) == LET P(a) == a[1] = k A(a) == a[2] IN MapTo(A, SelectSeq(q, P))
Fate(q) ==
  LET Has(k) == \E i \in DOMAIN q : q[i][1] = k
      to == <<Args(q, "FileInto"), Args(q, "Redirect")>>
  IN  CASE Has("Error") -> {}
        [] ~Has("Error") /\ to # <<<<>>, <<>>>> -> {<<"Deliver", Has("Keep"), to[1], to[2]>>}
        [] OTHER -> {IF Has("Discard") /\ ~Has("Keep") THEN <<"Discard">> ELSE <<"Keep">>}
\* The message meets the fate its script decides: nothing after a stop, however
\* deep the stop stands, changes it, no error is passed over, and a message is
\* discarded only when nothing the script did keeps or delivers it.
ScriptRuns(x) == {finalize(st) : st \in evaluate(x[1], x[2])} = Fate(Done(Doings(x[1], x[2], x[1].commands)))

\* The patterns and texts :matches is tried on.
GlobSamples == {<<t, p>> : t \in UNION {[1..n -> {"a", "b"}] : n \in 0..4},
                           p \in UNION {[1..n -> {"a", "b", "*", "?"}] : n \in 0..4}}
RECURSIVE Fits(_, _)
Fits(t, p) ==
  CASE p = <<>> -> t = <<>>
    [] p # <<>> /\ Head(p) = "*" -> \E n \in 0..Len(t) : Fits(SubSeq(t, n + 1, Len(t)), Tail(p))
    [] OTHER -> /\ t # <<>> /\ Head(p) \in {"?", Head(t)}
                /\ Fits(Tail(t), Tail(p))
\* The matcher that keeps a single star to return to finds what trying every
\* length for every star would.
GlobFits(x) == glob_match(x[1], x[2]) <=> Fits(x[1], x[2])

\* The addresses of a header, in angle brackets or between commas.
Locals == {<<"a">>, <<"a", " ", "b">>, <<"A", ".", "b">>}
WriteAddr(a, angle) ==
  LET l == IF Includes(a[1], <<" ">>) THEN <<"\"">> \o a[1] \o <<"\"">> ELSE a[1]
      spec == l \o <<"@">> \o a[2]
  IN  IF angle THEN <<"B", " ", "<">> \o spec \o <<">">> ELSE spec
AddressSamples ==
  {<<angle, q>> : angle \in BOOLEAN,
     q \in UNION {[1..n -> {<<l, d>> : l \in Locals, d \in {<<"b", ".", "a">>, <<"a", ".", "B", ".", "b">>}}] : n \in 1..2}}
\* The addresses written into a header are the ones an address test compares.
AddressesFound(x) ==
  LET W(a) == WriteAddr(a, x[1])
  IN  extract_addresses(Commas(MapTo(W, x[2]))) = x[2]
=============================================================================
