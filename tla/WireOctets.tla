---------------------------- MODULE WireOctets ----------------------------
(***************************************************************************)
(* Octet strings as sequences of 0..255: the helpers the codecs of the     *)
(* crates share.                                                           *)
(***************************************************************************)
EXTENDS Integers, Sequences

be16(n) == <<n \div 256, n % 256>>
From(b, i) == SubSeq(b, i, Len(b))
Zeros(n) == SubSeq([i \in 1..n |-> 0], 1, n)
RECURSIVE Flat(_)
Flat(q) == IF q = <<>> THEN <<>> ELSE Head(q) \o Flat(Tail(q))
\* The sequence of Op(x); SubSeq makes TLC compute its elements once.
Mapped(Op(_), q) == SubSeq([i \in 1..Len(q) |-> Op(q[i])], 1, Len(q))
Bit(b, n) == IF b THEN 2^n ELSE 0
HasBit(v, n) == (v \div 2^n) % 2 = 1
\* The whole entries of n octets in b; a rest that is shorter is left.
Entries(b, n) == Mapped(LAMBDA i : SubSeq(b, n * (i - 1) + 1, n * i), SubSeq([i \in 1..(Len(b) \div n) |-> i], 1, Len(b) \div n))
=============================================================================
