-------------------------------- MODULE Hotp --------------------------------
(***************************************************************************)
(* tpt-hotp: the code of a counter (hotp), and verify_with_counter as a    *)
(* service uses it that keeps the counter and advances it as the crate     *)
(* asks it to.  HMAC-SHA-1 and the service are external; a token shows     *)
(* codes that may be typed late, twice, out of order or not at all.        *)
(***************************************************************************)
EXTENDS Integers, Sequences

CONSTANTS Window,       \* the look-ahead of the service
          HotpMax,      \* the last counter: 2^64 - 1 in the code
          HotpDigits    \* the digits of a code

VARIABLES token,    \* the counter of the token
          stored,   \* the counter the service keeps
          taken     \* counters of the codes that were accepted, in order
hotpVars == <<token, stored, taken>>

MIN_DIGITS == 1
MAX_DIGITS == 10
\* A digest of the HMAC of a counter: some octets, the last of which says where the code is taken from.
Digest(counter) ==
    SubSeq([i \in 1..20 |-> IF i = 20 THEN 16 * counter + ((15 * counter) % 16) ELSE (67 * i + 101 * counter) % 256], 1, 20)

RECURSIVE Decimal(_, _)
Decimal(value, width) == IF width = 0 THEN <<>> ELSE Decimal(value \div 10, width - 1) \o <<value % 10>>
\* Ten digits hold every number of 31 bits.
Modulo(n, digits) == IF digits = 10 THEN n ELSE n % 10^digits
\* The place 0..15 in the digest, the number there without its first bit, its last digits.
Truncated(hs) ==
    LET offset == hs[20] % 16
    IN  (hs[offset + 1] % 128) * 16777216 + hs[offset + 2] * 65536 + hs[offset + 3] * 256 + hs[offset + 4]
\* A mutant: the number is not filled up with zeros.
RECURSIVE Bare(_)
Bare(value) == IF value < 10 THEN <<value>> ELSE Bare(value \div 10) \o <<value % 10>>
hotp_Bare(hs, digits) == Bare(Modulo(Truncated(hs), digits))
hotp(hs, digits) == Decimal(Modulo(Truncated(hs), digits), digits)
generate(counter) == hotp(Digest(counter), HotpDigits)

saturating_add(n, k) == IF n + k > HotpMax THEN HotpMax ELSE n + k
constant_time_eq(a, b) == Len(a) = Len(b) /\ \A i \in 1..Len(a) : a[i] = b[i]
\* The first counter of the window whose code it is; {} is None.  A mutant: the window reaches back.
verify_with_counter_Back(code, counter, window) ==
    LET S == {c \in (counter - 1)..saturating_add(counter, window) : c >= 0 /\ constant_time_eq(code, generate(c))}
    IN  {c \in S : \A d \in S : c <= d}
verify_with_counter(code, counter, window) ==
    LET S == {c \in counter..saturating_add(counter, window) : constant_time_eq(code, generate(c))}
    IN  {c \in S : \A d \in S : c <= d}

HotpInit == token = 0 /\ stored = 0 /\ taken = <<>>
\* The token shows the code of its counter and moves on.
Press == token < HotpMax /\ token' = token + 1 /\ UNCHANGED <<stored, taken>>
\* A code that was shown is typed; on success the service keeps the counter after the one returned.
Type(counter) ==
    \E c \in verify_with_counter(generate(counter), stored, Window) :
        /\ counter < token
        /\ taken' = Append(taken, c) /\ stored' = c + 1 /\ UNCHANGED token
HotpNext == Press \/ \E counter \in 0..HotpMax : Type(counter)

----------------------------------------------------------------------------
\* The codes are accepted in the order they were shown and none of them twice, however they are typed; none is accepted
\* that was not shown; and while the service is at most a window behind, the token's last code is accepted.
CodesOnce ==
    /\ \A i, j \in 1..Len(taken) : i < j => taken[i] < taken[j]
    /\ \A i \in 1..Len(taken) : taken[i] < token
    /\ token > 0 /\ token - 1 \in stored..(stored + Window) =>
           verify_with_counter(generate(token - 1), stored, Window) = {token - 1}

DigestSamples == {[i \in 1..20 |-> IF i = 20 THEN o ELSE x] : o \in {0, 15, 240, 255}, x \in {0, 1, 127, 128, 255}} \X (MIN_DIGITS..MAX_DIGITS)
RECURSIVE Value(_)
Value(s) == IF s = <<>> THEN 0 ELSE 10 * Value(SubSeq(s, 1, Len(s) - 1)) + s[Len(s)]
\* A code has its digits, the zeros in front included, and they are the last ones of a number of 31 bits of the digest.
CodeIsTruncation(x) ==
    \A s \in {hotp(x[1], x[2])} :
        /\ Len(s) = x[2]
        /\ \E i \in 0..15 : Value(s) = Modulo((x[1][i + 1] % 128) * 16777216 + x[1][i + 2] * 65536 + x[1][i + 3] * 256 + x[1][i + 4], x[2])
=============================================================================
