-------------------------------- MODULE Cbor --------------------------------
(***************************************************************************)
(* tpt-cbor: the data items of RFC 8949, octet by octet.  A number of any  *)
(* width is its big-endian octets without leading zeros, so u64 and i128   *)
(* keep their limits; an f64 is <<sign, exponent, the 52 bits of the       *)
(* mantissa>>.  A decoder is a set of <<value, next position>> pairs, the  *)
(* empty set being an error.                                               *)
(***************************************************************************)
EXTENDS Integers, Sequences, TLC, SequencesExt

Tuple(f) == SubSeq(f, 1, Len(f))
Zeros(n) == Tuple([i \in 1..n |-> 0])
RECURSIVE trim_be(_), Join(_), Number(_)
trim_be(b) == IF Len(b) > 1 /\ b[1] = 0 THEN trim_be(Tail(b)) ELSE b
Join(q) == IF q = <<>> THEN <<>> ELSE Head(q) \o Join(Tail(q))
Number(b) == IF b = <<>> THEN 0 ELSE 256 * Number(Front(b)) + b[Len(b)]
Octets(n) == trim_be(<<n \div 65536, (n \div 256) % 256, n % 256>>)
Padded(b, n) == Zeros(n - Len(b)) \o b
Fits(b, n) == Len(b) <= n

RECURSIVE BitsToInt(_)
BitsToInt(q) == IF q = <<>> THEN 0 ELSE 2 * BitsToInt(Front(q)) + q[Len(q)]
IntToBits(n, w) == Tuple([i \in 1..w |-> (n \div 2^(w - i)) % 2])
ToBits(b) == Join(Tuple([i \in 1..Len(b) |-> IntToBits(b[i], 8)]))
ToOctets(q) == Tuple([i \in 1..(Len(q) \div 8) |-> BitsToInt(SubSeq(q, 8 * i - 7, 8 * i))])
AllZero(q) == \A i \in DOMAIN q : q[i] = 0

----------------------------------------------------------------------------
(* value.rs: floats                                                        *)

NaN == <<"NaN">>
\* A narrower float widened: em is its largest exponent, off the difference of the biases.
Widen(s, e, m, em, off) ==
  CASE e = em -> IF AllZero(m) THEN <<s, 2047, Zeros(52)>> ELSE NaN
    [] e = 0 /\ AllZero(m) -> <<s, 0, Zeros(52)>>
    [] e = 0 -> LET k == CHOOSE i \in DOMAIN m : m[i] = 1 /\ \A j \in 1..(i - 1) : m[j] = 0
                IN  <<s, off + 1 - k, SubSeq(m, k + 1, Len(m)) \o Zeros(52 - Len(m) + k)>>
    [] OTHER -> <<s, e + off, m \o Zeros(52 - Len(m))>>
f16_to_f64(h) == LET b == IntToBits(h, 16)
                 IN  Widen(b[1], BitsToInt(SubSeq(b, 2, 6)), SubSeq(b, 7, 16), 31, 1008)
f32_to_f64(b) == Widen(b[1], BitsToInt(SubSeq(b, 2, 9)), SubSeq(b, 10, 32), 255, 896)

\* To the nearest, ties to even: rem are the bits dropped from the odd or even n.
RoundsUp(n, rem) == /\ rem # <<>> /\ rem[1] = 1
                    /\ ~AllZero(Tail(rem)) \/ n % 2 = 1
\* A mutant: what is too small for a normal half is the smallest half.
f64_to_f16_Clamped(f) ==
  IF f[2] > 1038 THEN f[1] * 32768 + 31 * 1024
  ELSE IF f[2] > 1008 THEN f[1] * 32768 + (f[2] - 1008) * 1024 + BitsToInt(SubSeq(f[3], 1, 10))
  ELSE f[1] * 32768 + 1
f64_to_f16(f) ==
  LET sign == f[1] * 32768
      m == <<1>> \o f[3]
      e == f[2] - 1008
      h == e * 1024 + BitsToInt(SubSeq(f[3], 1, 10))
      shift == 1051 - f[2]
      \* m has 53 bits: a shift beyond them leaves nothing, and all of m as the rest.
      s == BitsToInt(SubSeq(m, 1, 53 - shift))
      rem == IF shift > 53 THEN Zeros(shift - 53) \o m ELSE SubSeq(m, 54 - shift, 53)
      sub == IF RoundsUp(s, rem) THEN s + 1 ELSE s
  IN  CASE f[2] = 2047 \/ e >= 31 -> sign + 31744
        [] e \in 1..30 -> sign + (IF RoundsUp(h, SubSeq(f[3], 11, 52)) THEN h + 1 ELSE h)
        [] shift >= 64 -> sign
        [] OTHER -> sign + (IF sub > 1023 THEN 1024 ELSE sub)

\* The f32 equal to f, if there is one.
As32(f) ==
  LET n == 897 - f[2]
      m == Zeros(n) \o <<1>> \o f[3]
      bits == CASE f[2] \in 897..1150 -> f[3]
                [] f[2] \in 874..896 -> Tail(m)
                [] OTHER -> <<>>
  IN  IF bits # <<>> /\ AllZero(SubSeq(bits, 24, Len(bits)))
        THEN {<<f[1]>> \o IntToBits(IF f[2] > 896 THEN f[2] - 896 ELSE 0, 8) \o SubSeq(bits, 1, 23)}
        ELSE {}
encode_float(f) ==
  IF f = NaN THEN <<249, 126, 0>>
  ELSE LET half == f64_to_f16(f)
       IN  IF f16_to_f64(half) = f THEN <<249, half \div 256, half % 256>>
           ELSE IF As32(f) # {} THEN <<250>> \o ToOctets(CHOOSE b \in As32(f) : TRUE)
           ELSE <<251>> \o ToOctets(<<f[1]>> \o IntToBits(f[2], 11) \o f[3])

----------------------------------------------------------------------------
(* value.rs: encoding                                                      *)

write_type_number(major, b) ==
  LET w == CASE Fits(b, 1) /\ b[1] < 24 -> <<0, b[1]>>
             [] Fits(b, 1) -> <<1, 24>>
             [] Fits(b, 2) -> <<2, 25>>
             [] Fits(b, 4) -> <<4, 26>>
             [] OTHER -> <<8, 27>>
  IN  <<32 * major + w[2]>> \o (IF w[1] = 0 THEN <<>> ELSE Padded(b, w[1]))
\* An integer is <<"Integer", sign, n>>: n itself, or -1 - n.
encode_integer(neg, b) ==
  IF Fits(b, 8) THEN write_type_number(IF neg THEN 1 ELSE 0, b)
  ELSE write_type_number(6, <<IF neg THEN 3 ELSE 2>>) \o write_type_number(2, Octets(Len(b))) \o b
encode_simple(s) == IF s <= 23 THEN <<224 + s>> ELSE <<248, s>>

RECURSIVE Before(_, _), encode_value(_, _)
Before(a, b) == CASE b = <<>> -> FALSE
                  [] a = <<>> -> TRUE
                  [] OTHER -> Head(a) < Head(b) \/ (Head(a) = Head(b) /\ Before(Tail(a), Tail(b)))
canonical_key_lt(x, y) ==
  LET ea == encode_value(x, FALSE)
      eb == encode_value(y, FALSE)
  IN  Len(ea) < Len(eb) \/ (Len(ea) = Len(eb) /\ Before(ea, eb))
\* A mutant: keys are ordered by their octets alone.
canonical_key_cmp_Bytewise(p, q) == Before(encode_value(p[1], FALSE), encode_value(q[1], FALSE))
canonical_key_cmp(p, q) == canonical_key_lt(p[1], q[1])
RECURSIVE sort_by(_)
sort_by(pairs) ==
  IF pairs = <<>> THEN <<>>
  ELSE LET i == CHOOSE x \in DOMAIN pairs :
                  /\ \A j \in DOMAIN pairs : ~canonical_key_cmp(pairs[j], pairs[x])
                  /\ \A j \in 1..(x - 1) : canonical_key_cmp(pairs[x], pairs[j])
       IN  <<pairs[i]>> \o sort_by(RemoveAt(pairs, i))
encode_value(v, canonical) ==
  LET Item(x) == encode_value(x, canonical)
      Pair(p) == Item(p[1]) \o Item(p[2])
      Count(major, q) == write_type_number(major, Octets(Len(q)))
      All(Op(_), q) == Join(Tuple([i \in 1..Len(q) |-> Op(q[i])]))
  IN  CASE v[1] = "Integer" -> encode_integer(v[2], v[3])
        [] v[1] = "Float" -> encode_float(v[2])
        [] v[1] = "Bool" -> <<IF v[2] THEN 245 ELSE 244>>
        [] v[1] = "Null" -> <<246>>
        [] v[1] = "Undefined" -> <<247>>
        [] v[1] = "Simple" -> encode_simple(v[2])
        [] v[1] = "Bytes" -> Count(2, v[2]) \o v[2]
        [] v[1] = "Text" -> Count(3, v[2]) \o v[2]
        [] v[1] = "Array" -> Count(4, v[2]) \o All(Item, v[2])
        [] v[1] = "Map" -> Count(5, v[2]) \o All(Pair, IF canonical THEN sort_by(v[2]) ELSE v[2])
        [] OTHER -> write_type_number(6, v[2]) \o Item(v[3])

----------------------------------------------------------------------------
(* decoder.rs.  o: the options.                                            *)

Lenient == [reject_indefinite |-> FALSE, reject_duplicate_keys |-> FALSE, canonical |-> FALSE]
strict == [Lenient EXCEPT !.reject_indefinite = TRUE, !.reject_duplicate_keys = TRUE]
canonical_options == [strict EXCEPT !.canonical = TRUE]

remaining(d, p) == Len(d) - p + 1
read_exact(d, p, n) == IF remaining(d, p) < n THEN {} ELSE {<<SubSeq(d, p, p + n - 1), p + n>>}
Width(ai) == CASE ai < 24 -> 0 [] ai = 24 -> 1 [] ai = 25 -> 2 [] ai = 26 -> 4 [] OTHER -> 8
\* <<number, next position, octets it took>>; the indefinite marker, 31, is not read here.
read_len(d, p, ai) ==
  CASE ai < 24 -> {<<<<ai>>, p, 0>>}
    [] ai \in 24..27 -> {<<trim_be(r[1]), r[2], Width(ai)>> : r \in read_exact(d, p, Width(ai))}
    [] OTHER -> {}
\* A length that cannot be held in the octets left ends in UnexpectedEof.
Lengths(d, p, ai) == {<<Number(r[1]), r[2]>> : r \in {x \in read_len(d, p, ai) : Fits(x[1], 3)}}
check_shortest_int(b, nbytes) ==
  nbytes = CASE Fits(b, 1) -> (IF b[1] < 24 THEN 0 ELSE 1)
             [] Fits(b, 2) -> 2 [] Fits(b, 4) -> 4 [] OTHER -> 8
\* A mutant: a negative number is read as its magnitude.
bignum_to_i128_NoSign(tag, b) == IF Len(b) > 16 THEN {} ELSE {<<"Integer", FALSE, trim_be(b)>>}
\* The 16 octets are read as an i128: a first bit set makes the magnitude negative.
bignum_to_i128(tag, b) ==
  IF Len(b) > 16 THEN {}
  ELSE LET low == Tuple([i \in 1..Len(b) |-> 255 - b[i]])
           negative == Len(b) = 16 /\ b[1] >= 128
       IN  {<<"Integer", (tag = 3) # negative, trim_be(IF negative THEN low ELSE Padded(b, Len(b) + 1))>>}

RECURSIVE Utf8(_)
Utf8(b) == CASE b = <<>> -> TRUE
             [] Head(b) < 128 -> Utf8(Tail(b))
             [] Head(b) \in 194..223 -> Len(b) > 1 /\ b[2] \in 128..191 /\ Utf8(SubSeq(b, 3, Len(b)))
             [] OTHER -> FALSE
materialize_string(b, is_text) ==
  IF is_text THEN IF Utf8(b) THEN {<<"Text", b>>} ELSE {} ELSE {<<"Bytes", b>>}
RECURSIVE Chunks(_, _, _, _)
Chunks(d, p, is_text, acc) ==
  IF remaining(d, p) < 1 THEN {}
  ELSE IF d[p] = 255 THEN {<<acc, p + 1>>}
  ELSE IF d[p] \div 32 # (IF is_text THEN 3 ELSE 2) THEN {}
  ELSE UNION {UNION {Chunks(d, r[2], is_text, acc \o r[1]) : r \in read_exact(d, n[2], n[1])}
              : n \in Lengths(d, p + 1, d[p] % 32)}
decode_bytes(d, p, ai, is_text, o) ==
  UNION {{<<v, r[2]>> : v \in materialize_string(r[1], is_text)} :
         r \in IF ai = 31 THEN IF o.reject_indefinite THEN {} ELSE Chunks(d, p, is_text, <<>>)
               ELSE UNION {read_exact(d, n[2], n[1]) : n \in Lengths(d, p, ai)}}

decode_simple(d, p, ai) ==
  CASE ai < 20 -> {<<<<"Simple", ai>>, p>>}
    [] ai \in {20, 21} -> {<<<<"Bool", ai = 21>>, p>>}
    [] ai = 22 -> {<<<<"Null">>, p>>}
    [] ai = 23 -> {<<<<"Undefined">>, p>>}
    [] ai = 24 -> {<<<<"Simple", r[1][1]>>, r[2]>> : r \in {x \in read_exact(d, p, 1) : x[1][1] > 31}}
    [] ai = 25 -> {<<<<"Float", f16_to_f64(256 * r[1][1] + r[1][2])>>, r[2]>> : r \in read_exact(d, p, 2)}
    [] ai = 26 -> {<<<<"Float", f32_to_f64(ToBits(r[1]))>>, r[2]>> : r \in read_exact(d, p, 4)}
    [] ai = 27 -> {<<<<"Float", LET b == ToBits(r[1])
                                    f == <<b[1], BitsToInt(SubSeq(b, 2, 12)), SubSeq(b, 13, 64)>>
                                IN  IF f[2] = 2047 /\ ~AllZero(f[3]) THEN NaN ELSE f>>, r[2]>> :
                     r \in read_exact(d, p, 8)}
    [] OTHER -> {}

RECURSIVE decode_item(_, _, _), Items(_, _, _, _, _), decode_map_body(_, _, _, _, _)
\* n items, or as many as there are before the break when n is -1.
Ended(d, p, q, n) == IF n < 0 THEN remaining(d, p) > 0 /\ d[p] = 255 ELSE Len(q) = n
After(p, n) == IF n < 0 THEN p + 1 ELSE p
Items(d, p, n, q, o) ==
  IF Ended(d, p, q, n) THEN {<<q, After(p, n)>>}
  ELSE UNION {Items(d, r[2], n, Append(q, r[1]), o) : r \in decode_item(d, p, o)}
KeyAllowed(q, key, o) ==
  /\ (o.reject_duplicate_keys \/ o.canonical) => \A i \in DOMAIN q : q[i][1] # key
  /\ o.canonical /\ q # <<>> => canonical_key_lt(q[Len(q)][1], key)
decode_map_body(d, p, n, q, o) ==
  IF Ended(d, p, q, n) THEN {<<q, After(p, n)>>}
  ELSE UNION {UNION {decode_map_body(d, v[2], n, Append(q, <<k[1], v[1]>>), o)
                     : v \in {x \in decode_item(d, k[2], o) : KeyAllowed(q, k[1], o)}}
              : k \in decode_item(d, p, o)}
Counted(d, p, ai, o) == IF ai = 31 THEN IF o.reject_indefinite THEN {} ELSE {<<-1, p>>}
                        ELSE Lengths(d, p, ai)
decode_array(d, p, ai, o) ==
  UNION {{<<<<"Array", r[1]>>, r[2]>> : r \in Items(d, n[2], n[1], <<>>, o)} : n \in Counted(d, p, ai, o)}
decode_map(d, p, ai, o) ==
  UNION {{<<<<"Map", r[1]>>, r[2]>> : r \in decode_map_body(d, n[2], n[1], <<>>, o)}
         : n \in Counted(d, p, ai, o)}
decode_tag(d, p, ai, o) ==
  UNION {{LET tag == t[1]
              big == IF tag \in {<<2>>, <<3>>} /\ r[1][1] = "Bytes"
                       THEN bignum_to_i128(tag[1], r[1][2]) ELSE {}
          IN  <<IF big # {} THEN CHOOSE v \in big : TRUE ELSE <<"Tag", tag, r[1]>>, r[2]>>
          : r \in decode_item(d, t[2], o)} : t \in read_len(d, p, ai)}
decode_item(d, p, o) ==
  IF remaining(d, p) < 1 THEN {}
  ELSE LET major == d[p] \div 32
           ai == d[p] % 32
           q == p + 1
       IN  CASE major \in {0, 1} ->
                  {<<<<"Integer", major = 1, r[1]>>, r[2]>> :
                     r \in {x \in read_len(d, q, ai) : o.canonical => check_shortest_int(x[1], x[3])}}
             [] major \in {2, 3} -> decode_bytes(d, q, ai, major = 3, o)
             [] major = 4 -> decode_array(d, q, ai, o)
             [] major = 5 -> decode_map(d, q, ai, o)
             [] major = 6 -> decode_tag(d, q, ai, o)
             [] OTHER -> decode_simple(d, q, ai)
decode_value(d, o) ==
  {r[1] : r \in {x \in decode_item(d, 1, o) : x[2] = Len(d) + 1 \/ ~o.canonical}}

----------------------------------------------------------------------------
(* Items at the limits of every form                                       *)

FF(n) == Tuple([i \in 1..n |-> 255])
Numbers == {<<0>>, <<1>>, <<23>>, <<24>>, <<255>>, <<1, 0>>, <<255, 255>>, <<1, 0, 0>>, FF(4),
            <<1>> \o Zeros(4), FF(8), <<1>> \o Zeros(8), <<1>> \o Zeros(12), <<127>> \o FF(15)}
Mantissas == {Zeros(52), Zeros(51) \o <<1>>, Zeros(9) \o <<1>> \o Zeros(42), Zeros(10) \o <<1>> \o Zeros(41),
              Zeros(22) \o <<1>> \o Zeros(29), Zeros(23) \o <<1>> \o Zeros(28),
              <<1>> \o Zeros(51), <<1, 1, 1, 1, 1, 1, 1, 1, 1, 1>> \o Zeros(42), Tuple([i \in 1..52 |-> 1])}
Exponents == {0, 1, 873, 874, 896, 897, 987, 988, 997, 998, 999, 1007, 1008, 1009, 1023, 1038, 1039, 1150, 1151, 2046}
Floats == {<<s, e, m>> : s \in {0, 1}, e \in Exponents, m \in Mantissas}
          \union {<<0, 2047, Zeros(52)>>, <<1, 2047, Zeros(52)>>, NaN}
Small(n) == <<"Integer", FALSE, <<n>>>>
Long(n) == Tuple([i \in 1..n |-> i % 128])
Keys == {Small(1), <<"Integer", TRUE, <<24>>>>, <<"Text", <<97>>>>, <<"Text", <<97, 98>>>>, <<"Bool", FALSE>>, Small(200)}
Plain == {<<"Integer", neg, n>> : neg \in BOOLEAN, n \in Numbers}
         \union {<<"Float", f>> : f \in Floats}
         \union {<<"Bool", TRUE>>, <<"Null">>, <<"Undefined">>, <<"Simple", 0>>, <<"Simple", 19>>,
                 <<"Simple", 32>>, <<"Simple", 255>>}
         \union {<<k, Long(n)>> : k \in {"Bytes", "Text"}, n \in {0, 23, 24, 255, 256}}
         \union {<<"Text", <<194, 128>>>>, <<"Tag", <<24>>, <<"Null">>>>, <<"Tag", FF(8), Small(1)>>,
                 <<"Tag", <<2>>, <<"Text", <<97>>>>>>, <<"Tag", <<3>>, <<"Bytes", FF(17)>>>>}
ItemSamples ==
  Plain \union {<<"Array", q>> : q \in {<<>>, <<Small(1), <<"Array", <<<<"Null">>>>>>>>, Tuple([i \in 1..24 |-> Small(i)])}}
        \union {<<"Map", <<<<k, Small(1)>>, <<l, <<"Map", <<<<Small(2), <<"Null">>>>, <<Small(1), <<"Null">>>>>>>>>>>>>> :
                  k \in Keys, l \in Keys}
\* The item with the maps in it sorted, as a canonical encoder writes them.
RECURSIVE Sorted(_)
Sorted(v) ==
  CASE v[1] = "Array" -> <<"Array", Tuple([i \in 1..Len(v[2]) |-> Sorted(v[2][i])])>>
    [] v[1] = "Map" ->
         LET q == Tuple([i \in 1..Len(v[2]) |-> <<v[2][i][1], Sorted(v[2][i][2])>>])
         IN  <<"Map", IF canonical_key_lt(q[2][1], q[1][1]) THEN <<q[2], q[1]>> ELSE q>>
    [] v[1] = "Tag" -> <<"Tag", v[2], Sorted(v[3])>>
    [] OTHER -> v
Twice(v) == v[1] = "Map" /\ v[2][1][1] = v[2][2][1]
\* An item is read as it was written, by every decoder the options allow, and the
\* decoders that refuse a repeated key refuse just that.
ItemReads(v) ==
  /\ decode_value(encode_value(v, FALSE), Lenient) = {v}
  /\ decode_value(encode_value(v, FALSE), strict) = IF Twice(v) THEN {} ELSE {v}
  /\ decode_value(encode_value(v, TRUE), canonical_options) = IF Twice(v) THEN {} ELSE {Sorted(v)}

\* f is a whole multiple of the unit a float of w mantissa bits has at its exponent.
Exact(f, w, low, high) ==
  \/ f[2] = 0 /\ AllZero(f[3])
  \/ f[2] = 2047
  \/ /\ f[2] <= high
     /\ LET keep == IF f[2] >= low THEN w ELSE w - (low - f[2])
        IN  keep >= 0 /\ AllZero(SubSeq(f[3], keep + 1, 52))
\* A float is written in the shortest of the three forms that holds it exactly.
FloatShort(f) ==
  Len(encode_float(f)) = IF f = NaN \/ Exact(f, 10, 1009, 1038) THEN 3
                         ELSE IF Exact(f, 23, 897, 1150) THEN 5 ELSE 9

\* Octets a canonical decoder may meet: numbers, strings and floats longer than need be.
OctetSamples == {encode_value(v, c) : v \in {x \in ItemSamples : x[1] # "Float"}, c \in BOOLEAN}
                \union {<<24, 5>>, <<25, 0, 5>>, <<88, 1, 7>>, <<152, 0>>, <<249, 60, 0>>, <<250, 63, 128, 0, 0>>}
\* DecodeOptions::canonical, value.rs: what it accepts is the one encoding of its value.
OneEncoding(d) == \A v \in decode_value(d, canonical_options) : encode_value(v, TRUE) = d
=============================================================================
