----------------------------- MODULE DtlsProofs -----------------------------
(***************************************************************************)
(* The anti-replay window of tpt-dtls is exact for every width of a word   *)
(* and every number of words, in particular for the 64-bit words and the   *)
(* default window of the code; the two connections that use it take a      *)
(* record number once on either side; and they agree on transcript and     *)
(* keys, whatever the network does to their datagrams.                     *)
(*                                                                         *)
(* The first is arithmetic on bit positions.  The second follows a         *)
(* Connection through every handler as a value: a handler only adds        *)
(* records under numbers it takes from send_seq (Goes), and one turn of    *)
(* process_datagram adds to the inbox only a number that the window did    *)
(* not know and then knows (Reading).  The third adds what a side knows of *)
(* the other's transcript (Agreed): the records that can still be read say *)
(* over which transcript they were sent, and the client's certificate,     *)
(* over which nothing is computed, is read once because of the window.     *)
(***************************************************************************)
EXTENDS DtlsConnection, SequenceTheorems, WellFoundedInduction, TLAPS

-----------------------------------------------------------------------------
(* Positions of a bitmap of words. *)

\* Bit p of a bitmap, counted over all its words as check does.
BitAt(words, p) == (p % WordBits) \in words[p \div WordBits]

Bitmap == [0 .. Words - 1 -> Word]

\* The window is a positive number of words of a positive number of bits.
LEMMA Sizes == WordBits \in Nat \ {0} /\ Words \in Nat \ {0} /\ window \in Nat \ {0} /\ window = WordBits * Words
  BY ReplayAssumption DEF window

\* A position is a word and a bit of it.
LEMMA Divided ==
    ASSUME NEW p \in Nat
    PROVE  /\ p \div WordBits \in Nat /\ p % WordBits \in 0 .. WordBits - 1
           /\ p = WordBits * (p \div WordBits) + (p % WordBits)
  BY Sizes

\* A word and a bit of it are one position.
LEMMA Undivided ==
    ASSUME NEW q \in Nat, NEW r \in 0 .. WordBits - 1
    PROVE  (WordBits * q + r) \div WordBits = q /\ (WordBits * q + r) % WordBits = r /\ WordBits * q + r \in Nat
  BY Sizes

\* The positions of the window are those of its words.
LEMMA Within ==
    ASSUME NEW q \in Nat, NEW r \in 0 .. WordBits - 1
    PROVE  WordBits * q + r < window <=> q < Words
  <1> USE Sizes
  <1>1. ASSUME q < Words PROVE WordBits * q + r < window
    <2>1. Words = q + 1 + (Words - q - 1) /\ Words - q - 1 \in Nat
      BY <1>1
    <2>2. window = WordBits * q + WordBits + WordBits * (Words - q - 1)
      BY <2>1
    <2>3. WordBits * (Words - q - 1) >= 0
      BY <2>1
    <2> QED BY <2>2, <2>3
  <1>2. ASSUME q >= Words PROVE WordBits * q >= window
    <2>1. q = Words + (q - Words) /\ q - Words \in Nat
      BY <1>2
    <2>2. WordBits * q = window + WordBits * (q - Words)
      BY <2>1
    <2>3. WordBits * (q - Words) >= 0
      BY <2>1
    <2> QED BY <2>2, <2>3
  <1> QED BY <1>1, <1>2

\* A position of the window is a bit of one of its words.
LEMMA InWindow ==
    ASSUME NEW p \in 0 .. window - 1
    PROVE  /\ p \div WordBits \in 0 .. Words - 1 /\ p % WordBits \in 0 .. WordBits - 1
           /\ p = WordBits * (p \div WordBits) + (p % WordBits)
  <1>1. p \in Nat /\ p < window
    BY Sizes
  <1> DEFINE q == p \div WordBits
             r == p % WordBits
  <1>2. q \in Nat /\ r \in 0 .. WordBits - 1 /\ p = WordBits * q + r
    BY <1>1, Divided
  <1> HIDE DEF q, r
  <1>3. q < Words
    BY <1>1, <1>2, Within
  <1>4. q \in 0 .. Words - 1
    BY <1>2, <1>3, Sizes
  <1> QED BY <1>2, <1>4 DEF q, r

\* window_slide moves every bit n positions down, across the borders of the words,
\* and drops what falls off: the carry between neighbouring words is right.
LEMMA SlideBits ==
    ASSUME NEW words \in Bitmap, NEW n \in Nat
    PROVE  /\ window_slide(words, n) \in Bitmap
           /\ \A p \in 0 .. window - 1 :
                BitAt(window_slide(words, n), p) <=> p + n < window /\ BitAt(words, p + n)
  <1> USE Sizes
  <1> DEFINE ws == n \div WordBits
             bs == n % WordBits
             low(i)  == IF i + ws < Words THEN ShiftRight(words[i + ws], bs) ELSE {}
             high(i) == IF bs # 0 /\ i + ws + 1 < Words
                        THEN ShiftLeft(words[i + ws + 1], WordBits - bs) ELSE {}
  <1>1. ws \in Nat /\ bs \in 0 .. WordBits - 1 /\ n = WordBits * ws + bs
    BY Divided
  <1>2. window_slide(words, n) = [i \in 0 .. Words - 1 |-> low(i) \union high(i)]
    BY DEF window_slide
  <1>3. \A i \in 0 .. Words - 1 : words[i] \subseteq 0 .. WordBits - 1
    BY DEF Bitmap, Word
  <1> HIDE DEF ws, bs
  <1>4. ASSUME NEW i \in 0 .. Words - 1, NEW b \in Int
        PROVE  b \in low(i) <=> i + ws < Words /\ b + bs \in words[i + ws] /\ b >= 0
    <2>1. CASE i + ws < Words
      <3>1. words[i + ws] \subseteq 0 .. WordBits - 1
        BY <2>1, <1>1, <1>3
      <3>2. low(i) = {x - bs : x \in {y \in words[i + ws] : y >= bs}}
        BY <2>1 DEF ShiftRight
      <3>3. ASSUME b \in low(i) PROVE b + bs \in words[i + ws] /\ b >= 0
        <4>1. PICK x \in words[i + ws] : x >= bs /\ b = x - bs
          BY <3>2, <3>3
        <4> QED BY <4>1, <3>1, <1>1
      <3>4. ASSUME b + bs \in words[i + ws], b >= 0 PROVE b \in low(i)
        <4>1. b + bs >= bs /\ b = (b + bs) - bs
          BY <3>4, <1>1
        <4> HIDE DEF low
        <4> QED BY <4>1, <3>2, <3>4
      <3> QED BY <2>1, <3>3, <3>4
    <2>2. CASE ~(i + ws < Words)
      BY <2>2
    <2> QED BY <2>1, <2>2
  <1>5. ASSUME NEW i \in 0 .. Words - 1, NEW b \in Int
        PROVE  b \in high(i) <=> bs # 0 /\ i + ws + 1 < Words /\ b + bs - WordBits \in words[i + ws + 1] /\ b < WordBits
    <2>1. CASE bs # 0 /\ i + ws + 1 < Words
      <3>1. words[i + ws + 1] \subseteq 0 .. WordBits - 1
        BY <2>1, <1>1, <1>3
      <3> QED BY <2>1, <3>1, <1>1 DEF ShiftLeft
    <2>2. CASE ~(bs # 0 /\ i + ws + 1 < Words)
      BY <2>2
    <2> QED BY <2>1, <2>2
  <1>6. window_slide(words, n) \in Bitmap
    <2>1. ASSUME NEW i \in 0 .. Words - 1 PROVE low(i) \union high(i) \subseteq 0 .. WordBits - 1
      <3>1. low(i) \subseteq 0 .. WordBits - 1
        <4>1. i + ws < Words => words[i + ws] \subseteq 0 .. WordBits - 1
          BY <1>1, <1>3
        <4> QED BY <4>1, <1>1 DEF ShiftRight
      <3>2. high(i) \subseteq 0 .. WordBits - 1
        <4>1. i + ws + 1 < Words => words[i + ws + 1] \subseteq 0 .. WordBits - 1
          BY <1>1, <1>3
        <4> QED BY <4>1, <1>1 DEF ShiftLeft
      <3> QED BY <3>1, <3>2
    <2> HIDE DEF low, high
    <2> QED BY <1>2, <2>1 DEF Bitmap, Word
  <1>7. ASSUME NEW p \in 0 .. window - 1
        PROVE  BitAt(window_slide(words, n), p) <=> p + n < window /\ BitAt(words, p + n)
    <2> DEFINE i == p \div WordBits
               b == p % WordBits
    <2>1. i \in Nat /\ b \in 0 .. WordBits - 1 /\ p = WordBits * i + b
      BY Divided
    <2>2. i \in 0 .. Words - 1
      BY <2>1, Within
    <2>3. BitAt(window_slide(words, n), p) <=> b \in low(i) \union high(i)
      BY <1>2, <2>2 DEF BitAt
    <2> HIDE DEF i, b, low, high
    <2>4. p + n = WordBits * (i + ws) + (b + bs)
      BY <1>1, <2>1
    <2>5. CASE b + bs < WordBits
      <3>1. b + bs \in 0 .. WordBits - 1 /\ i + ws \in Nat
        BY <2>5, <2>1, <1>1
      <3>2. (p + n) \div WordBits = i + ws /\ (p + n) % WordBits = b + bs
        BY <2>4, <3>1, Undivided
      <3>3. p + n < window <=> i + ws < Words
        BY <2>4, <3>1, Within
      <3>4. i + ws + 1 < Words => b + bs - WordBits \notin words[i + ws + 1]
        <4>1. i + ws + 1 < Words => words[i + ws + 1] \subseteq 0 .. WordBits - 1
          BY <3>1, <1>3
        <4> QED BY <4>1, <2>5, <2>1, <1>1
      <3>5. b \in low(i) <=> i + ws < Words /\ b + bs \in words[i + ws]
        BY <1>4, <2>1, <2>2
      <3>6. b \notin high(i)
        BY <1>5, <2>1, <2>2, <3>4
      <3> QED BY <2>3, <3>2, <3>3, <3>5, <3>6 DEF BitAt
    <2>6. CASE b + bs >= WordBits
      <3>1. b + bs - WordBits \in 0 .. WordBits - 1 /\ i + ws + 1 \in Nat /\ bs # 0 /\ i + ws \in Nat
        BY <2>6, <2>1, <1>1
      <3>2. p + n = WordBits * (i + ws + 1) + (b + bs - WordBits)
        BY <2>4, <2>1, <1>1
      <3>3. (p + n) \div WordBits = i + ws + 1 /\ (p + n) % WordBits = b + bs - WordBits
        BY <3>1, <3>2, Undivided, SMTT(30)
      <3>4. p + n < window <=> i + ws + 1 < Words
        BY <3>1, <3>2, Within
      <3>5. i + ws < Words => b + bs \notin words[i + ws]
        <4>1. i + ws < Words => words[i + ws] \subseteq 0 .. WordBits - 1
          BY <3>1, <1>3
        <4> QED BY <4>1, <2>6, <2>1, <1>1
      <3>6. b \notin low(i)
        BY <1>4, <2>1, <2>2, <3>5
      <3>7. b \in high(i) <=> i + ws + 1 < Words /\ b + bs - WordBits \in words[i + ws + 1]
        BY <1>5, <2>1, <2>2, <3>1
      <3> QED BY <2>3, <3>3, <3>4, <3>6, <3>7 DEF BitAt
    <2> QED BY <2>5, <2>6, <2>1, <1>1
  <1> QED BY <1>6, <1>7

-----------------------------------------------------------------------------
(* The window. *)

\* The numbers a window remembers are those of its bits that are 1.
LEMMA RememberedBits ==
    ASSUME NEW w \in ReplayWindow, NEW s \in Int
    PROVE  s \in Remembered(w) <=> s - w.base \in 0 .. window - 1 /\ BitAt(w.words, s - w.base)
  <1> USE Sizes
  <1>1. w.base \in Nat /\ w.words \in Bitmap /\ \A i \in 0 .. Words - 1 : w.words[i] \subseteq 0 .. WordBits - 1
    BY DEF ReplayWindow, Bitmap, Word
  <1>2. ASSUME s \in Remembered(w) PROVE s - w.base \in 0 .. window - 1 /\ BitAt(w.words, s - w.base)
    <2>1. PICK i \in 0 .. Words - 1 : \E b \in w.words[i] : s = w.base + i * WordBits + b
      BY <1>2 DEF Remembered
    <2>2. PICK b \in w.words[i] : s = w.base + i * WordBits + b
      BY <2>1
    <2>3. b \in 0 .. WordBits - 1 /\ i \in Nat
      BY <1>1
    <2>4. s - w.base = WordBits * i + b
      BY <2>2, <2>3, <1>1
    <2>5. s - w.base < window /\ s - w.base \in Nat
      BY <2>3, <2>4, Within, Undivided
    <2>6. (s - w.base) \div WordBits = i /\ (s - w.base) % WordBits = b
      BY <2>3, <2>4, Undivided
    <2> QED BY <2>5, <2>6 DEF BitAt
  <1>3. ASSUME s - w.base \in 0 .. window - 1, BitAt(w.words, s - w.base) PROVE s \in Remembered(w)
    <2> DEFINE p == s - w.base
               i == p \div WordBits
               b == p % WordBits
    <2>1. i \in 0 .. Words - 1 /\ b \in 0 .. WordBits - 1 /\ p = WordBits * i + b
      BY <1>3, InWindow
    <2>2. i \in 0 .. Words - 1
      BY <2>1
    <2>3. b \in w.words[i]
      BY <1>3 DEF BitAt
    <2> HIDE DEF i, b
    <2>4. s = w.base + i * WordBits + b
      BY <2>1, <2>2, <1>1
    <2> QED BY <2>2, <2>3, <2>4 DEF Remembered
  <1> QED BY <1>2, <1>3

\* Remembered numbers are natural numbers.
LEMMA RememberedNat ==
    ASSUME NEW w \in ReplayWindow
    PROVE  Remembered(w) \subseteq Nat
  <1>1. w.base \in Nat /\ \A i \in 0 .. Words - 1 : w.words[i] \subseteq 0 .. WordBits - 1
    BY DEF ReplayWindow, Word
  <1> SUFFICES ASSUME NEW s \in Remembered(w) PROVE s \in Nat
    OBVIOUS
  <1>2. PICK i \in 0 .. Words - 1 : \E b \in w.words[i] : s = w.base + i * WordBits + b
    BY DEF Remembered
  <1>3. PICK b \in w.words[i] : s = w.base + i * WordBits + b
    BY <1>2
  <1>4. b \in Nat /\ i * WordBits \in Nat
    BY <1>1, Sizes
  <1> QED BY <1>1, <1>3, <1>4

\* Sliding makes room for seq and forgets what is below the new base, nothing else.
LEMMA Slid ==
    ASSUME NEW w \in ReplayWindow, NEW seq \in Nat, seq >= w.base
    PROVE  LET v == slid(w, seq)
           IN  /\ v \in ReplayWindow
               /\ v.base >= w.base /\ seq - v.base \in 0 .. window - 1
               /\ Remembered(v) = {s \in Remembered(w) : s >= v.base}
  <1> USE Sizes
  <1> DEFINE v == slid(w, seq)
             nb == seq + 1 - window
             n == Smaller(nb - w.base, window)
  <1>0. w.base \in Nat /\ w.words \in Bitmap
    BY DEF ReplayWindow, Bitmap
  <1>1. CASE seq < w.base + window
    <2>1. v = w
      BY <1>0, <1>1 DEF slid
    <2>2. \A s \in Remembered(w) : s >= w.base
      <3> TAKE s \in Remembered(w)
      <3>1. s \in Nat
        BY RememberedNat
      <3> QED BY <3>1, <1>0, RememberedBits
    <2> HIDE DEF v
    <2>3. Remembered(v) = {s \in Remembered(w) : s >= v.base}
      BY <2>1, <2>2
    <2>4. v \in ReplayWindow /\ v.base >= w.base /\ seq - v.base \in 0 .. window - 1
      BY <1>0, <1>1, <2>1
    <2> QED BY <2>3, <2>4 DEF v
  <1>2. CASE seq >= w.base + window
    <2>1. v = [base |-> nb, words |-> window_slide(w.words, n)]
      BY <1>2 DEF slid
    <2>2. nb \in Nat /\ nb > w.base /\ n \in Nat /\ n <= window /\ (n < window => n = nb - w.base) /\ (n = window => nb - w.base >= window)
      BY <1>0, <1>2 DEF Smaller
    <2>3. window_slide(w.words, n) \in Bitmap
      BY <1>0, <2>2, SlideBits
    <2>4. v \in ReplayWindow /\ v.base = nb /\ v.words = window_slide(w.words, n)
      BY <2>1, <2>2, <2>3 DEF ReplayWindow, Bitmap
    <2>5. seq - nb \in 0 .. window - 1
      OBVIOUS
    <2> HIDE DEF v, nb, n
    <2>6. ASSUME NEW s \in Int PROVE s \in Remembered(v) <=> s \in Remembered(w) /\ s >= nb
      <3>1. s \in Remembered(v) <=> s - nb \in 0 .. window - 1 /\ BitAt(v.words, s - nb)
        BY <2>4, RememberedBits
      <3>2. s - nb \in 0 .. window - 1 => (BitAt(v.words, s - nb) <=> s - nb + n < window /\ BitAt(w.words, s - nb + n))
        BY <2>2, <2>4, <1>0, SlideBits
      <3>3. s \in Remembered(w) <=> s - w.base \in 0 .. window - 1 /\ BitAt(w.words, s - w.base)
        BY RememberedBits
      <3>4. CASE n = window
        BY <3>1, <3>2, <3>3, <3>4, <2>2, <1>0
      <3>5. CASE n < window
        <4>1. s - nb + n = s - w.base
          BY <3>5, <2>2, <1>0
        <4>2. s - nb \in 0 .. window - 1 /\ s - w.base < window <=> s >= nb /\ s - w.base \in 0 .. window - 1
          BY <2>2, <1>0
        <4> QED BY <3>1, <3>2, <3>3, <4>1, <4>2, <2>2, <1>0
      <3> QED BY <3>4, <3>5, <2>2
    <2>7. Remembered(v) \subseteq Int /\ Remembered(w) \subseteq Int
      BY <2>4, RememberedNat
    <2>8. Remembered(v) = {s \in Remembered(w) : s >= nb}
      BY <2>6, <2>7
    <2>9. /\ v \in ReplayWindow /\ v.base >= w.base /\ seq - v.base \in 0 .. window - 1
          /\ Remembered(v) = {s \in Remembered(w) : s >= v.base}
      BY <2>2, <2>4, <2>5, <2>8, <1>0
    <2> QED BY <2>9 DEF v
  <1> QED BY <1>1, <1>2, <1>0

\* What check does with a number it may accept.
LEMMA Checked ==
    ASSUME NEW w \in ReplayWindow, NEW seq \in Nat, seq >= w.base, seq <= SeqLimit
    PROVE  LET r == check(w, seq)
           IN  /\ r.w \in ReplayWindow /\ r.w.base >= w.base /\ seq >= r.w.base
               /\ r.answer = IF seq \in Remembered(w) THEN "replay" ELSE "new"
               /\ Remembered(r.w) = {s \in Remembered(w) \union {seq} : s >= r.w.base}
  <1> USE Sizes, ReplayAssumption
  <1> DEFINE v == slid(w, seq)
             p == seq - v.base
             wd == p \div WordBits
             b == p % WordBits
             u == [v EXCEPT !.words[wd] = @ \union {b}]
  <1>1. /\ v \in ReplayWindow /\ v.base >= w.base /\ p \in 0 .. window - 1
        /\ Remembered(v) = {s \in Remembered(w) : s >= v.base}
    BY Slid
  <1>2. check(w, seq) = IF b \in v.words[wd] THEN [w |-> v, answer |-> "replay"] ELSE [w |-> u, answer |-> "new"]
    BY DEF check, ReplayWindow
  <1>3. w.base \in Nat /\ v.base \in Nat /\ v.words \in Bitmap
    BY <1>1 DEF ReplayWindow, Bitmap
  <1>4. wd \in 0 .. Words - 1 /\ b \in 0 .. WordBits - 1 /\ p = WordBits * wd + b
    BY <1>1, InWindow
  <1>5. wd \in 0 .. Words - 1
    BY <1>4
  <1>6. b \in v.words[wd] <=> BitAt(v.words, p)
    BY DEF BitAt
  <1>7. seq >= v.base
    BY <1>1, <1>3
  <1> HIDE DEF v
  <1>8. BitAt(v.words, p) <=> seq \in Remembered(v)
    BY <1>1, RememberedBits
  <1>9. seq \in Remembered(v) <=> seq \in Remembered(w)
    BY <1>1, <1>7
  <1>10. CASE b \in v.words[wd]
    <2>1. seq \in Remembered(w)
      BY <1>10, <1>6, <1>8, <1>9
    <2> QED BY <1>1, <1>2, <1>7, <1>10, <2>1
  <1>11. CASE b \notin v.words[wd]
    <2>1. seq \notin Remembered(w)
      BY <1>11, <1>6, <1>8, <1>9
    <2>2. u = [v EXCEPT !.words = [v.words EXCEPT ![wd] = v.words[wd] \union {b}]]
      BY <1>1 DEF ReplayWindow
    <2>3. [v.words EXCEPT ![wd] = v.words[wd] \union {b}] \in Bitmap
      BY <1>3, <1>4, <1>5 DEF Bitmap, Word
    <2>4. u \in ReplayWindow /\ u.base = v.base /\ u.words = [v.words EXCEPT ![wd] = v.words[wd] \union {b}]
      BY <2>2, <2>3, <1>1 DEF ReplayWindow, Bitmap
    <2> HIDE DEF u
    <2>5. ASSUME NEW s \in Int PROVE s \in Remembered(u) <=> s \in Remembered(v) \/ s = seq
      <3> DEFINE t == s - v.base
      <3>1. s \in Remembered(u) <=> t \in 0 .. window - 1 /\ BitAt(u.words, t)
        BY <2>4, RememberedBits
      <3>2. s \in Remembered(v) <=> t \in 0 .. window - 1 /\ BitAt(v.words, t)
        BY <1>1, RememberedBits
      <3>3. CASE s = seq
        <4>1. BitAt(u.words, p)
          BY <2>4, <1>3, <1>5 DEF BitAt, Bitmap
        <4> QED BY <3>1, <3>3, <4>1, <1>1
      <3>4. CASE s # seq /\ t \in 0 .. window - 1
        <4>1. t # p /\ t \in Nat
          BY <3>4, <1>3
        <4>2. /\ t \div WordBits \in 0 .. Words - 1 /\ t % WordBits \in 0 .. WordBits - 1
              /\ t = WordBits * (t \div WordBits) + (t % WordBits)
          BY <3>4, InWindow
        <4>3. t \div WordBits \in 0 .. Words - 1
          BY <4>2
        <4>4. t \div WordBits # wd \/ t % WordBits # b
          BY <4>1, <4>2, <1>4
        <4>5. BitAt(u.words, t) <=> BitAt(v.words, t)
          <5> HIDE DEF t, wd, b
          <5> QED BY <2>4, <4>3, <4>4, <1>3, <1>5 DEF BitAt, Bitmap
        <4> QED BY <3>1, <3>2, <3>4, <4>5
      <3>5. CASE s # seq /\ t \notin 0 .. window - 1
        BY <3>1, <3>2, <3>5
      <3> QED BY <3>3, <3>4, <3>5
    <2>6. Remembered(u) \subseteq Int /\ Remembered(v) \subseteq Int /\ Remembered(w) \subseteq Int
      BY <2>4, <1>1, RememberedNat
    <2>7. Remembered(u) = {s \in Remembered(w) \union {seq} : s >= u.base}
      BY <2>4, <2>5, <2>6, <1>1, <1>7
    <2> QED BY <1>1, <1>2, <1>7, <1>11, <2>1, <2>4, <2>7
  <1> QED BY <1>10, <1>11

-----------------------------------------------------------------------------
(* The theorem. *)

WinInv ==
    /\ win \in ReplayWindow /\ winAccepted \subseteq Nat
    /\ Faithful /\ ReplayExact

\* check answers "new" exactly for the numbers up to the limit that it has not accepted
\* before and that are not below the window, in whatever order they come and however far
\* they jump: no replay is let in and no fresh record inside the window is refused.
THEOREM ReplayIsExact == WinSpec => []ReplayExact
  <1> USE Sizes, ReplayAssumption, WindowAssumption
  <1>1. WinInit => WinInv
    <2> SUFFICES ASSUME WinInit PROVE WinInv
      OBVIOUS
    <2>1. win \in ReplayWindow
      BY DEF WinInit, NewWindow, ReplayWindow, Word
    <2>2. Remembered(win) = {}
      BY DEF WinInit, NewWindow, Remembered
    <2> QED BY <2>1, <2>2 DEF WinInit, WinInv, Faithful, ReplayExact
  <1>2. WinInv /\ [WinNext]_winVars => WinInv'
    <2> SUFFICES ASSUME WinInv, [WinNext]_winVars PROVE WinInv'
      OBVIOUS
    <2>1. CASE UNCHANGED winVars
      BY <2>1 DEF WinInv, Faithful, ReplayExact, winVars
    <2>2. ASSUME NEW seq \in 0 .. MaxSeq, Check(seq) PROVE WinInv'
      <3> DEFINE r == check(win, seq)
      <3>1. /\ win' = r.w
            /\ winAccepted' = IF r.answer = "new" THEN winAccepted \union {seq} ELSE winAccepted
            /\ winLast' = [seq |-> seq, answer |-> r.answer, known |-> seq \in winAccepted, old |-> seq < win.base]
        BY <2>2 DEF Check
      <3>2. seq \in Nat /\ win.base \in Nat /\ win \in ReplayWindow
        BY DEF WinInv, ReplayWindow
      <3>3. CASE seq > SeqLimit
        <4>1. r = [w |-> win, answer |-> "overflow"]
          BY <3>3 DEF check
        <4>2. win' = win /\ winAccepted' = winAccepted /\ winLast'.answer = "overflow" /\ winLast'.seq = seq
          BY <3>1, <4>1
        <4> QED BY <3>2, <3>3, <4>2 DEF WinInv, Faithful, ReplayExact
      <3>4. CASE seq <= SeqLimit /\ seq < win.base
        <4>1. r = [w |-> win, answer |-> "replay"]
          BY <3>2, <3>4 DEF check
        <4>2. /\ win' = win /\ winAccepted' = winAccepted /\ winLast'.answer = "replay" /\ winLast'.seq = seq
              /\ winLast'.old = (seq < win.base)
          BY <3>1, <4>1
        <4>3. ~(seq > SeqLimit)
          BY <3>2, <3>4
        <4>4. winLast'.old
          BY <3>4, <4>2, Zenon
        <4> QED BY <4>2, <4>3, <4>4 DEF WinInv, Faithful, ReplayExact
      <3>5. CASE seq <= SeqLimit /\ seq >= win.base
        <4>1. /\ r.w \in ReplayWindow /\ r.w.base >= win.base /\ seq >= r.w.base
              /\ r.answer = IF seq \in Remembered(win) THEN "replay" ELSE "new"
              /\ Remembered(r.w) = {s \in Remembered(win) \union {seq} : s >= r.w.base}
          BY <3>2, <3>5, Checked
        <4>2. seq \in Remembered(win) <=> seq \in winAccepted
          BY <3>5 DEF WinInv, Faithful
        <4> HIDE DEF r
        <4>3. win' \in ReplayWindow /\ win'.base \in Nat
          BY <3>1, <4>1 DEF ReplayWindow
        <4>4. winAccepted' = winAccepted \union {seq}
          BY <3>1, <4>1, <4>2
        <4>5. Faithful'
          <5>1. Remembered(win') = {s \in Remembered(win) \union {seq} : s >= win'.base}
            BY <3>1, <4>1
          <5>2. Remembered(win) = {s \in winAccepted : s >= win.base}
            BY DEF WinInv, Faithful
          <5>3. \A s \in winAccepted : s \in Nat /\ (s >= win'.base => s >= win.base)
            BY <3>1, <3>2, <4>1, <4>3 DEF WinInv
          <5> QED BY <5>1, <5>2, <5>3, <4>4 DEF Faithful
        <4>6. ReplayExact'
          <5>1. winLast'.seq = seq /\ winLast'.known = (seq \in winAccepted) /\ winLast'.old = (seq < win.base) /\ winLast'.answer = r.answer
            BY <3>1
          <5>2. ~(seq < win.base) /\ ~(seq > SeqLimit)
            BY <3>2, <3>5
          <5>3. r.answer = "new" <=> seq \notin winAccepted
            BY <4>1, <4>2
          <5>4. r.answer # "overflow"
            BY <4>1
          <5> QED BY <5>1, <5>2, <5>3, <5>4, <4>5, <3>5 DEF ReplayExact
        <4> QED BY <4>3, <4>4, <4>5, <4>6, <3>2 DEF WinInv
      <3> QED BY <3>2, <3>3, <3>4, <3>5
    <2> QED BY <2>1, <2>2 DEF WinNext
  <1>3. WinInv => ReplayExact
    BY DEF WinInv
  <1> QED BY <1>1, <1>2, <1>3, PTL DEF WinSpec

-----------------------------------------------------------------------------
(* Records on their way. *)

Msgs == [from : Roles, type : Types, n : Nat]
Records == [epoch : 0 .. 2, seq : Nat, key : Seq(Msgs), msg : Msgs, over : Seq(Msgs)]

\* What the argument needs of the fields of a Connection.
Formed(c) ==
    /\ DOMAIN c = {"state", "transcript", "send_seq", "msg_seq", "hs", "app", "peer_key", "connected", "out", "flight",
                   "armed", "retries", "recv_replay", "app_inbox"}
    /\ c.transcript \in Seq(Msgs) /\ c.hs \in Seq(Msgs) /\ c.app \in Seq(Msgs) /\ c.app_inbox \in Seq(Msgs)
    /\ c.send_seq \in [0 .. 2 -> Nat] /\ c.msg_seq \in Nat
    /\ c.out \in Seq(Records) /\ c.flight \in Seq(Records)
    /\ c.recv_replay \in [1 .. 2 -> ReplayWindow]

\* The records R of r on the network, and those it keeps: each has a number that r has given out, to it
\* alone, and a record of data says so.
Mine(c, R) == Range(c.out) \union Range(c.flight) \union R
Numbered(r, x) == x.msg.type = "data" => x.epoch = 2 /\ x.msg.from = r /\ x.msg.n = x.seq
Sealed(r, c, R) ==
    /\ \A x \in Mine(c, R) : x \in Records /\ x.seq < c.send_seq[x.epoch] /\ Numbered(r, x)
    /\ \A x, y \in Mine(c, R) : x.epoch = y.epoch /\ x.seq = y.seq => x = y

\* Numbers for data are given out upwards.
Further(c, d) == \A n \in Nat : n < c.send_seq[2] => n < d.send_seq[2]

\* From c to d r has done nothing but send records.
Goes(r, c, d) ==
    /\ Formed(d) /\ Further(c, d)
    /\ \A R : Sealed(r, c, R) => Sealed(r, d, R)
    /\ d.app_inbox = c.app_inbox /\ d.recv_replay = c.recv_replay

\* Sending composes.
LEMMA GoesOn == ASSUME NEW r, NEW c, NEW d, NEW e, Goes(r, c, d), Goes(r, d, e) PROVE Goes(r, c, e)
  BY DEF Goes, Further

\* The elements of a sequence.
LEMMA Ranges ==
    /\ \A S : \A s \in Seq(S) : Range(s) \subseteq S /\ \A x : x \in Range(s) <=> \E i \in 1 .. Len(s) : x = s[i]
    /\ \A S : \A s \in Seq(S), x \in S : Range(Append(s, x)) = Range(s) \union {x}
    /\ \A S : \A s, t \in Seq(S) : Range(s \o t) = Range(s) \union Range(t)
    /\ Range(<<>>) = {}
<1>1. ASSUME NEW S, NEW s \in Seq(S)
      PROVE  Range(s) \subseteq S /\ \A x : x \in Range(s) <=> \E i \in 1 .. Len(s) : x = s[i]
  BY DEF Range
<1>2. ASSUME NEW S, NEW s \in Seq(S), NEW x \in S PROVE Range(Append(s, x)) = Range(s) \union {x}
  <2> DEFINE a == Append(s, x)
  <2>1. /\ Len(s) \in Nat /\ Len(a) = Len(s) + 1 /\ a[Len(s) + 1] = x
        /\ \A i \in 1 .. Len(s) : a[i] = s[i]
        /\ a \in Seq(S)
    OBVIOUS
  <2> HIDE DEF a
  <2>2. \A i : i \in 1 .. Len(s) + 1 <=> i \in 1 .. Len(s) \/ i = Len(s) + 1
    BY <2>1
  <2>3. \A y : y \in Range(a) <=> \E i \in 1 .. Len(a) : y = a[i]
    BY <1>1, <2>1
  <2>4. \A y : y \in Range(s) <=> \E i \in 1 .. Len(s) : y = s[i]
    BY <1>1
  <2>5. \A y : y \in Range(a) <=> y \in Range(s) \/ y = x
    BY <2>1, <2>2, <2>3, <2>4
  <2>6. Range(a) = Range(s) \union {x}
    BY <2>5
  <2> QED
    BY <2>6 DEF a
<1>3. ASSUME NEW S, NEW s \in Seq(S), NEW t \in Seq(S) PROVE Range(s \o t) = Range(s) \union Range(t)
  <2>1. Range(s \o t) \subseteq Range(s) \union Range(t)
    BY DEF Range
  <2>2. Range(s) \subseteq Range(s \o t)
    BY DEF Range
  <2>3. ASSUME NEW x \in Range(t) PROVE x \in Range(s \o t)
    <3>1. PICK i \in 1 .. Len(t) : x = t[i]
      BY DEF Range
    <3>2. Len(s) + i \in 1 .. Len(s \o t) /\ (s \o t)[Len(s) + i] = t[i]
      OBVIOUS
    <3> QED
      BY <3>1, <3>2 DEF Range
  <2> QED
    BY <2>1, <2>2, <2>3
<1>4. Range(<<>>) = {}
  BY DEF Range
<1> QED
  BY <1>1, <1>2, <1>3, <1>4

\* A change of fields that are not about records.
LEMMA Quietly ==
    ASSUME NEW r, NEW c, Formed(c), NEW d, Formed(d), d.out = c.out, d.flight \in {c.flight, c.out, <<>>},
           d.send_seq = c.send_seq, d.app_inbox = c.app_inbox, d.recv_replay = c.recv_replay
    PROVE  Goes(r, c, d)
<1>1. Range(d.flight) \subseteq Range(c.flight) \union Range(c.out)
  BY Ranges
<1>2. \A R : Mine(d, R) \subseteq Mine(c, R)
  BY <1>1 DEF Mine
<1>3. \A R : Sealed(r, c, R) => Sealed(r, d, R)
  BY <1>2 DEF Sealed
<1> QED
  BY <1>3 DEF Goes, Further

\* A record takes a number of its own.
LEMMA EncryptGoes ==
    ASSUME NEW r, NEW c, Formed(c), NEW epoch \in 0 .. 2, NEW msg \in Msgs,
           msg.type = "data" => epoch = 2 /\ msg.from = r /\ msg.n = c.send_seq[2]
    PROVE  Goes(r, c, encrypt(r, c, epoch, msg)) /\ encrypt(r, c, epoch, msg).msg_seq = c.msg_seq
                                                 /\ encrypt(r, c, epoch, msg).transcript = c.transcript
<1> DEFINE d == encrypt(r, c, epoch, msg)
           x == [epoch |-> epoch, seq |-> c.send_seq[epoch], key |-> keys(c, epoch), msg |-> msg, over |-> c.transcript]
<1>1. x \in Records
  <2>1. keys(c, epoch) \in Seq(Msgs)
    BY DEF keys, None, Formed
  <2> QED
    BY <2>1 DEF Records, Formed
<1>2. x.epoch = epoch /\ x.seq = c.send_seq[epoch] /\ x.msg = msg
  OBVIOUS
<1> HIDE DEF x
<1>3. d = [c EXCEPT !.send_seq = [c.send_seq EXCEPT ![epoch] = c.send_seq[epoch] + 1], !.out = Append(c.out, x)]
  BY DEF encrypt, x, Formed
<1>4. /\ Formed(d) /\ d.out = Append(c.out, x) /\ d.flight = c.flight /\ d.send_seq = [c.send_seq EXCEPT ![epoch] = @ + 1]
      /\ d.app_inbox = c.app_inbox /\ d.recv_replay = c.recv_replay /\ d.msg_seq = c.msg_seq /\ d.transcript = c.transcript
  BY <1>1, <1>3, SMTT(30) DEF Formed
<1> HIDE DEF d
<1>5. ASSUME NEW R, Sealed(r, c, R) PROVE Sealed(r, d, R)
  <2>1. Mine(d, R) = Mine(c, R) \union {x}
    BY <1>1, <1>4, Ranges, SMTT(30) DEF Mine, Formed
  <2>2. \A e \in 0 .. 2 : c.send_seq[e] \in Nat /\ d.send_seq[e] = IF e = epoch THEN c.send_seq[e] + 1 ELSE c.send_seq[e]
    BY <1>4 DEF Formed
  <2>3. Numbered(r, x)
    BY <1>2 DEF Numbered
  <2>4. ASSUME NEW y \in Mine(c, R)
        PROVE  y \in Records /\ y.seq < d.send_seq[y.epoch] /\ Numbered(r, y) /\ (y.epoch = epoch => y.seq # x.seq)
    <3>1. y \in Records /\ y.seq < c.send_seq[y.epoch] /\ Numbered(r, y)
      BY <1>5 DEF Sealed
    <3>2. y.seq \in Nat /\ y.epoch \in 0 .. 2
      BY <3>1 DEF Records
    <3> QED
      BY <1>2, <2>2, <3>1, <3>2
  <2>5. x.seq < d.send_seq[x.epoch]
    BY <1>2, <2>2
  <2> QED
    BY <1>1, <1>2, <1>5, <2>1, <2>3, <2>4, <2>5 DEF Sealed
<1>6. Further(c, d)
  BY <1>4 DEF Formed, Further
<1> QED
  BY <1>4, <1>5, <1>6 DEF Goes, d

\* A handshake message is sent and noted.
LEMMA HandshakeGoes ==
    ASSUME NEW r \in Roles, NEW c, Formed(c), NEW type \in Types \ {"data"}
    PROVE  Goes(r, c, send_handshake(r, c, type))
<1> DEFINE msg == [from |-> r, type |-> type, n |-> c.msg_seq]
           epoch == IF c.connected THEN 2 ELSE handshake_epoch(c)
           e == encrypt(r, c, epoch, msg)
           d == send_handshake(r, c, type)
<1>1. msg \in Msgs /\ msg.type # "data"
  BY DEF Msgs, Formed
<1>2. epoch \in 0 .. 2
  BY DEF handshake_epoch
<1>3. Goes(r, c, e) /\ e.msg_seq = c.msg_seq /\ e.transcript = c.transcript
  BY <1>1, <1>2, EncryptGoes
<1>4. Formed(e)
  BY <1>3 DEF Goes
<1>5. d = [e EXCEPT !.msg_seq = e.msg_seq + 1, !.transcript = Append(e.transcript, msg)]
  BY DEF send_handshake
<1> HIDE DEF e, msg
<1> DEFINE n == e.msg_seq + 1
           tr == Append(e.transcript, msg)
<1>6. n \in Nat /\ tr \in Seq(Msgs)
  <2>1. e.msg_seq \in Nat /\ e.transcript \in Seq(Msgs)
    BY <1>4 DEF Formed
  <2> QED
    BY <1>1, <2>1
<1>7. d = [e EXCEPT !.msg_seq = n, !.transcript = tr]
  BY <1>5
<1> HIDE DEF n, tr, d
<1>8. /\ Formed(d) /\ d.out = e.out /\ d.flight = e.flight /\ d.send_seq = e.send_seq
      /\ d.app_inbox = e.app_inbox /\ d.recv_replay = e.recv_replay
  BY <1>4, <1>6, <1>7 DEF Formed
<1>9. Goes(r, e, d)
  BY <1>4, <1>8, Quietly
<1> QED
  BY <1>3, <1>9, GoesOn DEF d

\* The steps of a handler that send nothing.
LEMMA QuietSteps ==
    ASSUME NEW r, NEW c, Formed(c), NEW msg \in Msgs, NEW state, NEW b
    PROVE  /\ Goes(r, c, noted(c, msg)) /\ Goes(r, c, derive_handshake_secrets(c)) /\ Goes(r, c, derive_app_secrets(c))
           /\ Goes(r, c, arm_flight(c)) /\ Goes(r, c, clear_flight(c))
           /\ Goes(r, c, [c EXCEPT !.state = state]) /\ Goes(r, c, [c EXCEPT !.peer_key = b])
           /\ Goes(r, c, [c EXCEPT !.connected = b, !.state = state])
<1>1. Goes(r, c, noted(c, msg))
  <2> DEFINE d == noted(c, msg)
  <2>1. /\ Formed(d) /\ d.out = c.out /\ d.flight = c.flight /\ d.send_seq = c.send_seq
        /\ d.app_inbox = c.app_inbox /\ d.recv_replay = c.recv_replay
    BY DEF noted, Formed
  <2> HIDE DEF d
  <2> QED
    BY <2>1, Quietly DEF d
<1>2. Goes(r, c, derive_handshake_secrets(c))
  <2> DEFINE d == derive_handshake_secrets(c)
  <2>1. /\ Formed(d) /\ d.out = c.out /\ d.flight = c.flight /\ d.send_seq = c.send_seq
        /\ d.app_inbox = c.app_inbox /\ d.recv_replay = c.recv_replay
    BY DEF derive_handshake_secrets, Formed
  <2> HIDE DEF d
  <2> QED
    BY <2>1, Quietly DEF d
<1>3. Goes(r, c, derive_app_secrets(c))
  <2> DEFINE d == derive_app_secrets(c)
  <2>1. /\ Formed(d) /\ d.out = c.out /\ d.flight = c.flight /\ d.send_seq = c.send_seq
        /\ d.app_inbox = c.app_inbox /\ d.recv_replay = c.recv_replay
    BY DEF derive_app_secrets, Formed
  <2> HIDE DEF d
  <2> QED
    BY <2>1, Quietly DEF d
<1>4. Goes(r, c, arm_flight(c))
  <2> DEFINE d == arm_flight(c)
  <2>1. /\ Formed(d) /\ d.out = c.out /\ d.flight = c.out /\ d.send_seq = c.send_seq
        /\ d.app_inbox = c.app_inbox /\ d.recv_replay = c.recv_replay
    BY DEF arm_flight, Formed
  <2> HIDE DEF d
  <2> QED
    BY <2>1, Quietly DEF d
<1>5. Goes(r, c, clear_flight(c))
  <2> DEFINE d == clear_flight(c)
  <2>1. /\ Formed(d) /\ d.out = c.out /\ d.flight = <<>> /\ d.send_seq = c.send_seq
        /\ d.app_inbox = c.app_inbox /\ d.recv_replay = c.recv_replay
    BY DEF clear_flight, Formed, None
  <2> HIDE DEF d
  <2> QED
    BY <2>1, Quietly DEF d
<1>6. Goes(r, c, [c EXCEPT !.state = state])
  <2> DEFINE d == [c EXCEPT !.state = state]
  <2>1. /\ Formed(d) /\ d.out = c.out /\ d.flight = c.flight /\ d.send_seq = c.send_seq
        /\ d.app_inbox = c.app_inbox /\ d.recv_replay = c.recv_replay
    BY DEF Formed
  <2> HIDE DEF d
  <2> QED
    BY <2>1, Quietly DEF d
<1>7. Goes(r, c, [c EXCEPT !.peer_key = b])
  <2> DEFINE d == [c EXCEPT !.peer_key = b]
  <2>1. /\ Formed(d) /\ d.out = c.out /\ d.flight = c.flight /\ d.send_seq = c.send_seq
        /\ d.app_inbox = c.app_inbox /\ d.recv_replay = c.recv_replay
    BY DEF Formed
  <2> HIDE DEF d
  <2> QED
    BY <2>1, Quietly DEF d
<1>8. Goes(r, c, [c EXCEPT !.connected = b, !.state = state])
  <2> DEFINE d == [c EXCEPT !.connected = b, !.state = state]
  <2>1. /\ Formed(d) /\ d.out = c.out /\ d.flight = c.flight /\ d.send_seq = c.send_seq
        /\ d.app_inbox = c.app_inbox /\ d.recv_replay = c.recv_replay
    BY DEF Formed
  <2> HIDE DEF d
  <2> QED
    BY <2>1, Quietly DEF d
<1> QED
  BY <1>1, <1>2, <1>3, <1>4, <1>5, <1>6, <1>7, <1>8

\* Nothing at all.
LEMMA GoesNowhere == ASSUME NEW r, NEW c, Formed(c) PROVE Goes(r, c, c)
  BY DEF Goes, Further

\* The handlers of the server.
LEMMA ServerGoes ==
    ASSUME NEW c, Formed(c), NEW rec \in Records
    PROVE  Goes("server", c, server_on_message(c, rec).c)
<1> DEFINE r == "server"
           msg == rec.msg
           hello == noted(c, msg)
<1>1. msg \in Msgs /\ r \in Roles
  BY DEF Records, Roles
<1>2. \A d : Goes(r, c, d) => Formed(d)
  BY DEF Goes
<1>3. Goes(r, c, hello)
  BY <1>1, QuietSteps
<1>4. Goes(r, c, handle_client_hello(c, msg).c)
  <2> DEFINE s1 == send_handshake(r, hello, "HRR")
             hrr == [s1 EXCEPT !.state = "ServerWaitClientHelloCookie"]
             h1 == send_handshake(r, hello, "SH")
             h2 == derive_handshake_secrets(h1)
             h3 == send_handshake(r, h2, "EE")
             h4 == send_handshake(r, h3, "Cert")
             h5 == send_handshake(r, h4, "CV")
             h6 == send_handshake(r, h5, "Fin")
             sh == [h6 EXCEPT !.state = "ServerWaitClientFlight"]
             d == IF msg.type = "CH1" THEN hrr ELSE sh
             f == clear_flight(d)
             g == arm_flight(f)
  <2>1. handle_client_hello(c, msg).c = g
    BY DEF handle_client_hello, send_server_flight, Ok
  <2>2. {"HRR", "SH", "EE", "Cert", "CV", "Fin"} \subseteq Types \ {"data"}
    BY DEF Types
  <2> HIDE DEF r, msg, hello
  <2>3. Goes(r, c, s1)
    BY <1>1, <1>2, <1>3, <2>2, HandshakeGoes, GoesOn
  <2>4. Goes(r, c, hrr)
    <3> HIDE DEF s1
    <3> QED
      BY <1>1, <1>2, <2>3, QuietSteps, GoesOn
  <2>5. Goes(r, c, h1)
    BY <1>1, <1>2, <1>3, <2>2, HandshakeGoes, GoesOn
  <2> HIDE DEF h1
  <2>6. Goes(r, c, h2)
    BY <1>1, <1>2, <2>5, QuietSteps, GoesOn
  <2> HIDE DEF h2
  <2>7. Goes(r, c, h3)
    BY <1>1, <1>2, <2>2, <2>6, HandshakeGoes, GoesOn
  <2> HIDE DEF h3
  <2>8. Goes(r, c, h4)
    BY <1>1, <1>2, <2>2, <2>7, HandshakeGoes, GoesOn
  <2> HIDE DEF h4
  <2>9. Goes(r, c, h5)
    BY <1>1, <1>2, <2>2, <2>8, HandshakeGoes, GoesOn
  <2> HIDE DEF h5
  <2>10. Goes(r, c, h6)
    BY <1>1, <1>2, <2>2, <2>9, HandshakeGoes, GoesOn
  <2> HIDE DEF h6
  <2>11. Goes(r, c, sh)
    BY <1>1, <1>2, <2>10, QuietSteps, GoesOn
  <2> HIDE DEF hrr, sh
  <2>12. Goes(r, c, d)
    BY <2>4, <2>11
  <2> HIDE DEF d
  <2>13. Goes(r, c, f)
    BY <1>1, <1>2, <2>12, QuietSteps, GoesOn
  <2> HIDE DEF f
  <2>14. Goes(r, c, g)
    BY <1>1, <1>2, <2>13, QuietSteps, GoesOn
  <2> QED
    BY <2>1, <2>14
<1>5. Goes(r, c, authenticate(r, c, rec).c)
  <2> DEFINE d == [hello EXCEPT !.peer_key = TRUE]
  <2>1. authenticate(r, c, rec).c \in {c, hello, d}
    BY DEF authenticate, Ok, Err
  <2> HIDE DEF r, hello
  <2>2. Goes(r, c, d)
    BY <1>1, <1>2, <1>3, QuietSteps, GoesOn
  <2> HIDE DEF d
  <2> QED
    BY <1>3, <2>1, <2>2, GoesNowhere
<1>6. Goes(r, c, handle_client_flight_message(c, rec).c)
  <2> DEFINE d == derive_app_secrets(hello)
             e == [d EXCEPT !.connected = TRUE, !.state = "ServerConnected"]
             f == clear_flight(e)
  <2>1. handle_client_flight_message(c, rec).c \in {c, f, authenticate(r, c, rec).c}
    BY DEF handle_client_flight_message, Ok, Err
  <2> HIDE DEF r, hello
  <2>2. Goes(r, c, d)
    BY <1>1, <1>2, <1>3, QuietSteps, GoesOn
  <2> HIDE DEF d
  <2>3. Goes(r, c, e)
    BY <1>1, <1>2, <2>2, QuietSteps, GoesOn
  <2> HIDE DEF e
  <2>4. Goes(r, c, f)
    BY <1>1, <1>2, <2>3, QuietSteps, GoesOn
  <2> HIDE DEF f
  <2> QED
    BY <1>5, <2>1, <2>4, GoesNowhere
<1>7. server_on_message(c, rec).c \in {c, handle_client_hello(c, msg).c, handle_client_flight_message(c, rec).c}
  BY DEF server_on_message, Err
<1> QED
  BY <1>4, <1>6, <1>7, GoesNowhere

\* The handlers of the client.
LEMMA ClientGoes ==
    ASSUME NEW c, Formed(c), NEW rec \in Records
    PROVE  Goes("client", c, client_on_message(c, rec).c)
<1> DEFINE r == "client"
           msg == rec.msg
           heard == noted(c, msg)
<1>1. msg \in Msgs /\ r \in Roles
  BY DEF Records, Roles
<1>2. \A d : Goes(r, c, d) => Formed(d)
  BY DEF Goes
<1>3. Goes(r, c, heard)
  BY <1>1, QuietSteps
<1>4. {"CH2", "Cert", "CV", "Fin"} \subseteq Types \ {"data"}
  BY DEF Types
<1>5. Goes(r, c, handle_hrr(c, msg).c)
  <2> DEFINE d == send_handshake(r, heard, "CH2")
             e == arm_flight(d)
  <2>1. handle_hrr(c, msg).c = e
    BY DEF handle_hrr, Ok
  <2> HIDE DEF r, msg, heard
  <2>2. Goes(r, c, d)
    BY <1>1, <1>2, <1>3, <1>4, HandshakeGoes, GoesOn
  <2> HIDE DEF d
  <2>3. Goes(r, c, e)
    BY <1>1, <1>2, <2>2, QuietSteps, GoesOn
  <2> QED
    BY <2>1, <2>3
<1>6. Goes(r, c, handle_server_hello(c, msg).c)
  <2> DEFINE d == derive_handshake_secrets(heard)
             e == [d EXCEPT !.state = "ClientWaitServerFlight"]
             f == clear_flight(e)
  <2>1. handle_server_hello(c, msg).c = f
    BY DEF handle_server_hello, Ok
  <2> HIDE DEF r, msg, heard
  <2>2. Goes(r, c, d)
    BY <1>1, <1>2, <1>3, QuietSteps, GoesOn
  <2> HIDE DEF d
  <2>3. Goes(r, c, e)
    BY <1>1, <1>2, <2>2, QuietSteps, GoesOn
  <2> HIDE DEF e
  <2>4. Goes(r, c, f)
    BY <1>1, <1>2, <2>3, QuietSteps, GoesOn
  <2> QED
    BY <2>1, <2>4
<1>7. Goes(r, c, send_client_flight(heard))
  <2> DEFINE h1 == send_handshake(r, heard, "Cert")
             h2 == send_handshake(r, h1, "CV")
             h3 == send_handshake(r, h2, "Fin")
             h4 == derive_app_secrets(h3)
             h5 == [h4 EXCEPT !.connected = TRUE, !.state = "ClientConnected"]
             h6 == arm_flight(h5)
  <2>1. send_client_flight(heard) = h6
    BY DEF send_client_flight
  <2> HIDE DEF r, msg, heard
  <2>2. Goes(r, c, h1)
    BY <1>1, <1>2, <1>3, <1>4, HandshakeGoes, GoesOn
  <2> HIDE DEF h1
  <2>3. Goes(r, c, h2)
    BY <1>1, <1>2, <1>4, <2>2, HandshakeGoes, GoesOn
  <2> HIDE DEF h2
  <2>4. Goes(r, c, h3)
    BY <1>1, <1>2, <1>4, <2>3, HandshakeGoes, GoesOn
  <2> HIDE DEF h3
  <2>5. Goes(r, c, h4)
    BY <1>1, <1>2, <2>4, QuietSteps, GoesOn
  <2> HIDE DEF h4
  <2>6. Goes(r, c, h5)
    BY <1>1, <1>2, <2>5, QuietSteps, GoesOn, ZenonT(40)
  <2> HIDE DEF h5
  <2>7. Goes(r, c, h6)
    BY <1>1, <1>2, <2>6, QuietSteps, GoesOn
  <2> QED
    BY <2>1, <2>7
<1>8. Goes(r, c, authenticate(r, c, rec).c)
  <2> DEFINE d == [heard EXCEPT !.peer_key = TRUE]
  <2>1. authenticate(r, c, rec).c \in {c, heard, d}
    BY DEF authenticate, Ok, Err
  <2> HIDE DEF r, heard
  <2>2. Goes(r, c, d)
    BY <1>1, <1>2, <1>3, QuietSteps, GoesOn
  <2> HIDE DEF d
  <2> QED
    BY <1>3, <2>1, <2>2, GoesNowhere
<1>9. Goes(r, c, handle_server_flight_message(c, rec).c)
  <2>1. handle_server_flight_message(c, rec).c \in {c, heard, send_client_flight(heard), authenticate(r, c, rec).c}
    BY DEF handle_server_flight_message, Ok, Err
  <2> QED
    BY <1>3, <1>7, <1>8, <2>1, GoesNowhere
<1>10. client_on_message(c, rec).c \in
         {c, handle_hrr(c, msg).c, handle_server_hello(c, msg).c, handle_server_flight_message(c, rec).c}
  BY DEF client_on_message, Err
<1> QED
  BY <1>5, <1>6, <1>9, <1>10, GoesNowhere

\* A number is known to a window: it was accepted, or is older than the window.
Known(w, n) == n < w.base \/ n \in Remembered(w)

\* check knows what it knew, and the number it accepts, which it did not know.
LEMMA CheckKnows ==
    ASSUME NEW w \in ReplayWindow, NEW seq \in Nat
    PROVE  LET k == check(w, seq)
           IN  /\ k.w \in ReplayWindow
               /\ \A n \in Nat : Known(w, n) => Known(k.w, n)
               /\ k.answer = "new" => ~Known(w, seq) /\ Known(k.w, seq)
<1> DEFINE k == check(w, seq)
<1>1. w.base \in Nat /\ SeqLimit \in Nat
  BY ReplayAssumption DEF ReplayWindow
<1>2. CASE seq > SeqLimit
  <2>1. k.w = w /\ k.answer = "overflow"
    BY <1>2 DEF check
  <2> QED
    BY <2>1
<1>3. CASE seq <= SeqLimit /\ seq < w.base
  <2>1. k.w = w /\ k.answer = "replay"
    BY <1>1, <1>3 DEF check
  <2> QED
    BY <2>1
<1>4. CASE seq <= SeqLimit /\ seq >= w.base
  <2>1. /\ k.w \in ReplayWindow /\ k.w.base >= w.base /\ seq >= k.w.base
        /\ k.answer = IF seq \in Remembered(w) THEN "replay" ELSE "new"
        /\ Remembered(k.w) = {s \in Remembered(w) \union {seq} : s >= k.w.base}
    BY <1>4, Checked
  <2> HIDE DEF k
  <2>2. k.w.base \in Nat
    BY <2>1 DEF ReplayWindow
  <2>3. ASSUME NEW n \in Nat, Known(w, n) PROVE Known(k.w, n)
    BY <1>1, <2>1, <2>2, <2>3 DEF Known
  <2>4. k.answer = "new" => ~Known(w, seq) /\ Known(k.w, seq)
    BY <1>1, <1>4, <2>1, <2>2 DEF Known
  <2> QED
    BY <2>1, <2>3, <2>4 DEF k
<1> QED
  BY <1>1, <1>2, <1>3, <1>4

\* What the application of r has got or will get: data of its peer, which has given out s numbers for
\* data, each number once and known to the window.
Once(r, got, s, w) ==
    /\ got \in Seq(Msgs)
    /\ \A i \in 1 .. Len(got) : /\ got[i].from = Peer(r) /\ got[i].type = "data"
                                /\ got[i].n < s /\ Known(w, got[i].n)
    /\ \A i, j \in 1 .. Len(got) : got[i].n = got[j].n => i = j

\* The state of process_datagram, begun with the connection b, after some of the records.
Reading(r, b, acc, R, rd, s) ==
    /\ DOMAIN acc = {"c", "in", "skip", "stop"}
    /\ Formed(acc.c) /\ Further(b, acc.c) /\ Sealed(r, acc.c, R)
    /\ Once(r, rd \o acc.c.app_inbox, s, acc.c.recv_replay[2])

\* One more record.
LEMMA RecordRead ==
    ASSUME NEW r \in Roles, NEW aligned, NEW acc, NEW R, NEW rd \in Seq(Msgs), NEW s \in Nat, NEW b, Reading(r, b, acc, R, rd, s),
           NEW rec \in Records, Numbered(Peer(r), rec), rec.epoch = 2 => rec.seq < s
    PROVE  Reading(r, b, process_record(r, aligned, acc, rec), R, rd, s)
<1> DEFINE c == acc.c
           e == rec.epoch
           k == check(c.recv_replay[e], rec.seq)
           seen == [c EXCEPT !.recv_replay[e] = k.w]
           told(d) == on_handshake_message(r, d, rec)
           a == process_record(r, aligned, acc, rec)
           full == [seen EXCEPT !.app_inbox = Append(@, rec.msg)]
<1>1. e \in 0 .. 2 /\ rec.seq \in Nat /\ rec.msg \in Msgs /\ Formed(c) /\ Further(b, c) /\ Sealed(r, c, R)
      /\ Once(r, rd \o c.app_inbox, s, c.recv_replay[2])
  BY DEF Records, Reading
<1>2. ASSUME NEW d, Formed(d) PROVE Goes(r, d, told(d).c)
  BY <1>2, ServerGoes, ClientGoes DEF on_handshake_message, Roles
<1>3. /\ DOMAIN a = {"c", "in", "skip", "stop"}
      /\ \/ a.c = c
         \/ a.c = told(c).c
         \/ e # 0 /\ a.c = seen
         \/ e # 0 /\ k.answer = "new" /\ rec.msg.type = "data" /\ a.c = full
         \/ e # 0 /\ a.c = told(seen).c
  <2> DEFINE through == [acc EXCEPT !.in = @ \union {<<rec.epoch, rec.seq>>}]
  <2>1. DOMAIN acc = {"c", "in", "skip", "stop"} /\ DOMAIN through = {"c", "in", "skip", "stop"}
    BY DEF Reading
  <2>2. \/ a = acc
        \/ a = [acc EXCEPT !.skip = FALSE]
        \/ a = [acc EXCEPT !.c = told(c).c, !.stop = told(c).err]
        \/ e # 0 /\ a = [acc EXCEPT !.c = seen, !.skip = aligned, !.stop = ~aligned]
        \/ e # 0 /\ a = [through EXCEPT !.c = seen, !.stop = TRUE]
        \/ e # 0 /\ k.answer = "new" /\ rec.msg.type = "data" /\ a = [through EXCEPT !.c = full]
        \/ e # 0 /\ a = [through EXCEPT !.c = told(seen).c, !.stop = told(seen).err]
    BY Zenon DEF process_record, fresh
  <2> HIDE DEF a, c, e, k, seen, told, through, full
  <2>3. a = acc => a.c = c
    BY DEF c
  <2> QED
    BY <2>1, <2>2, <2>3 DEF c
<1>4. ASSUME NEW d, Goes(r, c, d)
      PROVE  Formed(d) /\ Further(b, d) /\ Sealed(r, d, R) /\ Once(r, rd \o d.app_inbox, s, d.recv_replay[2])
  BY <1>1, <1>4 DEF Goes, Further
<1> DEFINE Fine(d) == Formed(d) /\ Further(b, d) /\ Sealed(r, d, R) /\ Once(r, rd \o d.app_inbox, s, d.recv_replay[2])
<1>5. Fine(c) /\ Fine(told(c).c)
  <2>1. Goes(r, c, c) /\ Goes(r, c, told(c).c)
    BY <1>1, <1>2, GoesNowhere
  <2> HIDE DEF c, told
  <2> QED
    BY <1>4, <2>1
<1> HIDE DEF told
<1>6. ASSUME e # 0
      PROVE  /\ Fine(seen)
             /\ k.answer = "new" /\ rec.msg.type = "data" => Fine(full)
  <2> DEFINE w == c.recv_replay[e]
  <2>1. e \in 1 .. 2 /\ c.recv_replay \in [1 .. 2 -> ReplayWindow] /\ w \in ReplayWindow
        /\ c.app_inbox \in Seq(Msgs)
    BY <1>1, <1>6, SMTT(30) DEF Formed
  <2>2. /\ k.w \in ReplayWindow
        /\ \A n \in Nat : Known(w, n) => Known(k.w, n)
        /\ k.answer = "new" => ~Known(w, rec.seq) /\ Known(k.w, rec.seq)
    BY <1>1, <2>1, CheckKnows
  <2> DEFINE p == [c.recv_replay EXCEPT ![e] = k.w]
             box == Append(c.app_inbox, rec.msg)
  <2>3. /\ p \in [1 .. 2 -> ReplayWindow]
        /\ p[2] = IF e = 2 THEN k.w ELSE c.recv_replay[2]
        /\ box \in Seq(Msgs)
    BY <1>1, <2>1, <2>2
  <2>4. DOMAIN c = {"state", "transcript", "send_seq", "msg_seq", "hs", "app", "peer_key", "connected", "out", "flight",
                    "armed", "retries", "recv_replay", "app_inbox"}
    BY <1>1 DEF Formed
  <2>5. seen = [c EXCEPT !.recv_replay = p] /\ full = [c EXCEPT !.recv_replay = p, !.app_inbox = box]
    <3> HIDE DEF c, e, k
    <3> QED
      BY <2>4
  <2> HIDE DEF c, e, k, w, p, box, seen, full
  <2>6. /\ Formed(seen) /\ seen.out = c.out /\ seen.flight = c.flight /\ seen.send_seq = c.send_seq
        /\ seen.app_inbox = c.app_inbox /\ seen.recv_replay = p
    BY <1>1, <2>3, <2>4, <2>5 DEF Formed
  <2>7. /\ Formed(full) /\ full.out = c.out /\ full.flight = c.flight /\ full.send_seq = c.send_seq
        /\ full.app_inbox = box /\ full.recv_replay = p
    BY <1>1, <2>3, <2>4, <2>5 DEF Formed
  <2>8. Sealed(r, seen, R) /\ Sealed(r, full, R) /\ Further(b, seen) /\ Further(b, full)
    BY <1>1, <2>6, <2>7 DEF Sealed, Mine, Further
  <2>9. \A n \in Nat : Known(c.recv_replay[2], n) => Known(p[2], n)
    BY <2>2, <2>3 DEF w
  <2> DEFINE got == rd \o c.app_inbox
  <2>10. /\ got \in Seq(Msgs) /\ Len(got) \in Nat
         /\ \A i \in 1 .. Len(got) : /\ got[i].from = Peer(r) /\ got[i].type = "data" /\ got[i].n < s
                                     /\ Known(c.recv_replay[2], got[i].n) /\ got[i].n \in Nat
         /\ \A i, j \in 1 .. Len(got) : got[i].n = got[j].n => i = j
    <3> HIDE DEF got
    <3>1. Once(r, got, s, c.recv_replay[2])
      BY <1>1 DEF got
    <3>2. \A m \in Msgs : m.n \in Nat
      BY DEF Msgs
    <3>3. got \in Seq(Msgs) /\ \A i \in 1 .. Len(got) : got[i] \in Msgs
      BY <3>1 DEF Once
    <3> QED
      BY <3>1, <3>2, <3>3 DEF Once
  <2>11. Once(r, rd \o seen.app_inbox, s, seen.recv_replay[2])
    <3> HIDE DEF got
    <3>1. Once(r, got, s, p[2])
      BY <2>9, <2>10 DEF Once
    <3> QED
      BY <2>6, <3>1 DEF got
  <2>12. ASSUME k.answer = "new", rec.msg.type = "data" PROVE Once(r, rd \o full.app_inbox, s, full.recv_replay[2])
    <3>1. e = 2 /\ rec.msg.from = Peer(r) /\ rec.msg.n = rec.seq /\ rec.seq < s
      BY <2>12 DEF Numbered, e
    <3>2. rd \o box = Append(got, rec.msg)
      BY <1>1, <2>1, <2>10, SMTT(30) DEF box
    <3> HIDE DEF got
    <3> DEFINE more == Append(got, rec.msg)
    <3>3. /\ more \in Seq(Msgs) /\ Len(more) = Len(got) + 1 /\ more[Len(got) + 1] = rec.msg
          /\ \A i \in 1 .. Len(got) : more[i] = got[i]
      BY <1>1, <2>10
    <3> HIDE DEF more
    <3>4. ~Known(c.recv_replay[2], rec.seq) /\ Known(p[2], rec.seq)
      BY <2>2, <2>3, <2>12, <3>1 DEF w
    <3>5. \A i : i \in 1 .. Len(more) <=> i \in 1 .. Len(got) \/ i = Len(got) + 1
      BY <2>10, <3>3
    <3>6. ASSUME NEW i \in 1 .. Len(more)
          PROVE  /\ more[i].from = Peer(r) /\ more[i].type = "data"
                 /\ more[i].n < s /\ Known(p[2], more[i].n)
      <4>1. CASE i \in 1 .. Len(got)
        BY <2>9, <2>10, <3>3, <4>1, SMTT(30)
      <4>2. CASE i = Len(got) + 1
        BY <2>12, <3>1, <3>3, <3>4, <4>2
      <4> QED
        BY <3>5, <4>1, <4>2
    <3>7. ASSUME NEW i \in 1 .. Len(more), NEW j \in 1 .. Len(more), more[i].n = more[j].n PROVE i = j
      <4>1. \A h \in 1 .. Len(got) : got[h].n # rec.msg.n
        BY <2>10, <3>1, <3>4
      <4> QED
        BY <2>10, <3>3, <3>5, <3>7, <4>1, SMTT(30)
    <3>8. Once(r, more, s, p[2])
      BY <3>3, <3>6, <3>7 DEF Once
    <3> QED
      BY <2>7, <3>2, <3>8 DEF more
  <2> QED
    BY <2>6, <2>7, <2>8, <2>11, <2>12
<1>7. ASSUME e # 0 PROVE Fine(told(seen).c)
  <2>1. Fine(seen)
    BY <1>6, <1>7
  <2>2. Goes(r, seen, told(seen).c)
    BY <1>2, <2>1
  <2> HIDE DEF seen, told
  <2> QED
    BY <2>1, <2>2 DEF Goes, Further
<1>8. Fine(a.c)
  <2> HIDE DEF Fine, a, c, e, k, seen, told, full
  <2> QED
    BY <1>3, <1>5, <1>6, <1>7
<1> HIDE DEF a
<1>9. Reading(r, b, a, R, rd, s)
  BY <1>3, <1>8 DEF Reading
<1> QED
  BY <1>9 DEF a

\* Induction up to N, in the form of a set that contains 0 and is closed under successor below N.
LEMMA Reaches ==
    ASSUME NEW N \in Nat, NEW T, 0 \in T, \A n \in 0 .. N : n \in T /\ n < N => n + 1 \in T
    PROVE  N \in T
<1> DEFINE R == {n \in 0 .. N : n \notin T}
<1>1. SUFFICES ASSUME N \notin T PROVE FALSE
  OBVIOUS
<1>2. R # {} /\ R \subseteq Nat
  BY <1>1
<1>3. \E x \in R : \A y \in R : ~(y < x)
  <2>1. PICK x \in R : \A y \in R : ~(<<y, x>> \in OpToRel(<, Nat))
    BY <1>2, WFMin, NatLessThanWellFounded
  <2>2. \A a, b \in Nat : a < b => <<a, b>> \in OpToRel(<, Nat)
    BY Zenon DEF OpToRel
  <2> HIDE DEF R
  <2> QED
    BY <1>2, <2>1, <2>2, Zenon
<1>4. PICK x \in R : \A y \in R : ~(y < x)
  BY <1>3
<1>5. x \in 1 .. N /\ x - 1 \in 0 .. N /\ x - 1 < N /\ x \notin T /\ x - 1 \notin R
  BY <1>4
<1>6. x - 1 \in T
  BY <1>5
<1>7. (x - 1) + 1 \in T
  BY <1>5, <1>6
<1> QED
  BY <1>5, <1>7

\* process_datagram begins with the connection as it is.
Opening(r) == [c |-> conn[r], in |-> accepted[r], skip |-> FALSE, stop |-> FALSE]

\* g is the record of the loop of process_datagram over the first N records of d.
Loops(g, r, aligned, d, N) ==
    g = [n \in 0 .. N |->
            IF n = 0 THEN Opening(r) ELSE process_record(r, aligned, g[n - 1], d[n])]

\* The loop is defined.
LEMMA LoopsExist ==
    ASSUME NEW r, NEW aligned, NEW d, NEW N \in Nat
    PROVE  \E g : Loops(g, r, aligned, d, N)
<1> DEFINE Step(acc, x) == process_record(r, aligned, acc, x)
           Begin == Opening(r)
<1> HIDE DEF Step, Begin
<1> DEFINE Made(g, n) == g = [m \in 0 .. n |-> IF m = 0 THEN Begin ELSE Step(g[m - 1], d[m])]
           T == {n \in 0 .. N : \E g : Made(g, n)}
<1>1. 0 \in T
  <2>1. Made([m \in 0 .. 0 |-> Begin], 0)
    OBVIOUS
  <2> HIDE DEF Made
  <2> QED
    BY <2>1
<1>2. ASSUME NEW n \in 0 .. N, n \in T, n < N PROVE n + 1 \in T
  <2>1. PICK g : Made(g, n)
    BY <1>2
  <2> DEFINE h == [m \in 0 .. n + 1 |-> IF m <= n THEN g[m] ELSE Step(g[n], d[n + 1])]
  <2>2. ASSUME NEW m \in 0 .. n + 1
        PROVE  h[m] = IF m = 0 THEN Begin ELSE Step(h[m - 1], d[m])
    <3>1. CASE m <= n
      BY <2>1, <3>1
    <3>2. CASE m = n + 1
      BY <2>1, <3>2
    <3> QED
      BY <3>1, <3>2
  <2>3. Made(h, n + 1)
    <3> DEFINE w == [m \in 0 .. n + 1 |-> IF m = 0 THEN Begin ELSE Step(h[m - 1], d[m])]
    <3>1. h = w
      BY <2>2
    <3> QED
      BY <3>1
  <2>4. n + 1 \in 0 .. N
    BY <1>2
  <2> HIDE DEF Made, h
  <2> QED
    BY <2>3, <2>4
<1> HIDE DEF T
<1>3. N \in T
  BY <1>1, <1>2, Reaches
<1> QED
  BY <1>3 DEF T, Step, Begin, Loops

\* The loop begins with the connection and takes one record at a time.
LEMMA LoopsOn ==
    ASSUME NEW r, NEW aligned, NEW d, NEW N \in Nat, NEW g, Loops(g, r, aligned, d, N)
    PROVE  /\ g[0] = Opening(r)
           /\ \A n \in 1 .. N : g[n] = process_record(r, aligned, g[n - 1], d[n])
<1> DEFINE Step(acc, x) == process_record(r, aligned, acc, x)
           Begin == Opening(r)
<1>1. g = [n \in 0 .. N |-> IF n = 0 THEN Begin ELSE Step(g[n - 1], d[n])]
  BY Zenon DEF Loops
<1> HIDE DEF Step, Begin
<1>2. \A n \in 0 .. N : g[n] = IF n = 0 THEN Begin ELSE Step(g[n - 1], d[n])
  BY <1>1, Zenon
<1>3. g[0] = Begin /\ \A n \in 1 .. N : g[n] = Step(g[n - 1], d[n])
  BY <1>2
<1> QED
  BY <1>3 DEF Step, Begin

\* A whole datagram of the peer's records.
LEMMA DatagramRead ==
    ASSUME NEW r \in Roles, NEW aligned, NEW R, NEW rd \in Seq(Msgs), NEW s \in Nat,
           Formed(conn[r]), Sealed(r, conn[r], R), Once(r, rd \o conn[r].app_inbox, s, conn[r].recv_replay[2]),
           NEW d \in Seq(Records),
           \A i \in 1 .. Len(d) : Numbered(Peer(r), d[i]) /\ (d[i].epoch = 2 => d[i].seq < s)
    PROVE  Reading(r, conn[r], process_datagram(r, aligned, d), R, rd, s)
<1> DEFINE N == Len(d)
           after == CHOOSE g : Loops(g, r, aligned, d, N)
           Begin == Opening(r)
<1>1. process_datagram(r, aligned, d) = after[N]
  BY DEF process_datagram, Loops, Opening
<1>2. N \in Nat
  OBVIOUS
<1>3. Loops(after, r, aligned, d, N)
  BY <1>2, LoopsExist
<1> HIDE DEF after, N
<1>4. after[0] = Begin /\ \A n \in 1 .. N : after[n] = process_record(r, aligned, after[n - 1], d[n])
  <2>1. after[0] = Begin
    BY <1>2, <1>3, LoopsOn
  <2>2. ASSUME NEW n \in 1 .. N PROVE after[n] = process_record(r, aligned, after[n - 1], d[n])
    BY <1>2, <1>3, LoopsOn
  <2> QED
    BY <2>1, <2>2
<1> DEFINE T == {n \in 0 .. N : Reading(r, conn[r], after[n], R, rd, s)}
<1>5. 0 \in T
  <2>1. DOMAIN Begin = {"c", "in", "skip", "stop"} /\ Begin.c = conn[r]
    BY DEF Opening
  <2> HIDE DEF Begin
  <2>2. Reading(r, conn[r], Begin, R, rd, s)
    BY <2>1 DEF Reading, Further
  <2> QED
    BY <1>2, <1>4, <2>2
<1>6. ASSUME NEW n \in 0 .. N, n \in T, n < N PROVE n + 1 \in T
  <2>1. n + 1 \in 1 .. N /\ n + 1 \in 0 .. N /\ (n + 1) - 1 = n
    BY <1>2, <1>6
  <2>2. after[n + 1] = process_record(r, aligned, after[n], d[n + 1])
    BY <1>4, <2>1
  <2>3. d[n + 1] \in Records /\ Numbered(Peer(r), d[n + 1]) /\ (d[n + 1].epoch = 2 => d[n + 1].seq < s)
    BY <2>1 DEF N
  <2>4. Reading(r, conn[r], after[n + 1], R, rd, s)
    BY <1>6, <2>2, <2>3, RecordRead
  <2> QED
    BY <2>1, <2>4
<1> HIDE DEF T
<1>7. N \in T
  BY <1>2, <1>5, <1>6, Reaches
<1> QED
  BY <1>1, <1>7 DEF T

-----------------------------------------------------------------------------
(* The connections and the network. *)

\* The records in the datagrams of q.
Carried(q) == UNION {Range(d) : d \in Range(q)}

\* On both sides: the records of r are sealed under numbers of their own, wherever they are, and what
\* its application gets are records of the peer's data that its window knows.
RecordInv ==
    /\ DOMAIN conn = Roles /\ net \in [Roles -> Seq(Seq(Records))] /\ read \in [Roles -> Seq(Msgs)]
    /\ \A r \in Roles :
        /\ Formed(conn[r]) /\ Sealed(r, conn[r], Carried(net[Peer(r)]))
        /\ Once(r, read[r] \o conn[r].app_inbox, conn[Peer(r)].send_seq[2], conn[r].recv_replay[2])

\* The invariant gives the property.
LEMMA RecordInvSuffices == RecordInv => RecordsOnce
<1> SUFFICES ASSUME RecordInv, NEW r \in Roles
             PROVE  /\ LET q == Peer(r)
                           records == Range(conn[r].out) \union Range(conn[r].flight)
                                      \union UNION {Range(d) : d \in Range(net[q])}
                       IN  /\ \A x, y \in records :
                               x.epoch = y.epoch /\ x.seq = y.seq /\ x.key = y.key => x = y
                           /\ \A x \in records : x.seq < conn[r].send_seq[x.epoch]
                    /\ LET got == read[r] \o conn[r].app_inbox
                       IN  /\ IsInjective(got)
                           /\ \A x \in Range(got) : x.from = Peer(r) /\ x.n < conn[Peer(r)].send_seq[2]
  BY DEF RecordsOnce, NonceUnique, DataOnce
<1> DEFINE records == Range(conn[r].out) \union Range(conn[r].flight) \union UNION {Range(d) : d \in Range(net[Peer(r)])}
           got == read[r] \o conn[r].app_inbox
<1>1. records = Mine(conn[r], Carried(net[Peer(r)]))
  BY DEF Mine, Carried
<1>2. Sealed(r, conn[r], records)
  <2>1. Mine(conn[r], records) = Mine(conn[r], Carried(net[Peer(r)]))
    BY <1>1 DEF Mine
  <2>2. Sealed(r, conn[r], Carried(net[Peer(r)]))
    BY DEF RecordInv
  <2> HIDE DEF records
  <2> QED
    BY <2>1, <2>2 DEF Sealed
<1>3. Once(r, got, conn[Peer(r)].send_seq[2], conn[r].recv_replay[2])
  BY DEF RecordInv
<1> HIDE DEF got, records
<1>4. IsInjective(got)
  BY <1>3 DEF Once, IsInjective
<1>5. \A x \in Range(got) : x.from = Peer(r) /\ x.n < conn[Peer(r)].send_seq[2]
  BY <1>3 DEF Once, Range
<1>6. records \subseteq Mine(conn[r], records)
  BY DEF Mine
<1> QED
  BY <1>2, <1>4, <1>5, <1>6 DEF Sealed, records, got

\* A sender with fewer records, and a number given out beyond those before.
LEMMA FewerSealed ==
    ASSUME NEW r, NEW c, NEW R, NEW S, Sealed(r, c, R), S \subseteq R
    PROVE  Sealed(r, c, S)
<1>1. Mine(c, S) \subseteq Mine(c, R)
  BY DEF Mine
<1> QED
  BY <1>1 DEF Sealed

\* A step of one side.
LEMMA OneSideMoves ==
    ASSUME RecordInv, NEW r \in Roles, NEW d, conn' = [conn EXCEPT ![r] = d], Formed(d), Further(conn[r], d),
           net' \in [Roles -> Seq(Seq(Records))], read' \in [Roles -> Seq(Msgs)],
           Sealed(r, d, Carried(net'[Peer(r)])), Carried(net'[r]) \subseteq Carried(net[r]),
           read'[Peer(r)] = read[Peer(r)],
           Once(r, read'[r] \o d.app_inbox, conn[Peer(r)].send_seq[2], d.recv_replay[2])
    PROVE  RecordInv'
<1> DEFINE q == Peer(r)
<1>1. /\ q \in Roles /\ q # r /\ Peer(q) = r /\ \A x \in Roles : x = r \/ x = q
  BY DEF Roles, Peer
<1>2. DOMAIN conn' = Roles /\ conn'[r] = d /\ conn'[q] = conn[q]
  BY <1>1 DEF RecordInv
<1>3. /\ Formed(conn[q]) /\ Sealed(q, conn[q], Carried(net[r]))
      /\ Once(q, read[q] \o conn[q].app_inbox, conn[r].send_seq[2], conn[q].recv_replay[2])
  BY <1>1 DEF RecordInv
<1>4. Sealed(q, conn[q], Carried(net'[r]))
  BY <1>3, FewerSealed
<1>5. Once(q, read[q] \o conn[q].app_inbox, d.send_seq[2], conn[q].recv_replay[2])
  <2> DEFINE got == read[q] \o conn[q].app_inbox
  <2>1. Once(q, got, conn[r].send_seq[2], conn[q].recv_replay[2])
    BY <1>3
  <2> HIDE DEF got
  <2>2. \A m \in Msgs : m.n \in Nat
    BY DEF Msgs
  <2>3. \A i \in 1 .. Len(got) : got[i].n \in Nat
    BY <2>1, <2>2 DEF Once
  <2>4. Once(q, got, d.send_seq[2], conn[q].recv_replay[2])
    BY <2>1, <2>3 DEF Once, Further
  <2> QED
    BY <2>4 DEF got
<1>6. Formed(conn[q])
  BY <1>3
<1>7. ASSUME NEW x \in Roles
      PROVE  /\ Formed(conn'[x]) /\ Sealed(x, conn'[x], Carried(net'[Peer(x)]))
             /\ Once(x, read'[x] \o conn'[x].app_inbox, conn'[Peer(x)].send_seq[2], conn'[x].recv_replay[2])
  <2>1. CASE x = r
    BY <1>2, <2>1
  <2>2. CASE x = q
    <3> HIDE DEF q
    <3>1. read'[q] = read[q]
      BY DEF q
    <3> QED
      BY <1>1, <1>2, <1>3, <1>4, <1>5, <2>2, <3>1
  <2> QED
    BY <1>1, <2>1, <2>2
<1> QED
  BY <1>2, <1>7 DEF RecordInv, Carried

\* A side that only sends records.
LEMMA OneSideSends ==
    ASSUME RecordInv, NEW r \in Roles, NEW d, conn' = [conn EXCEPT ![r] = d], Goes(r, conn[r], d), UNCHANGED <<net, read>>
    PROVE  RecordInv'
<1>1. /\ net \in [Roles -> Seq(Seq(Records))] /\ read \in [Roles -> Seq(Msgs)]
      /\ Formed(conn[r]) /\ Sealed(r, conn[r], Carried(net[Peer(r)]))
      /\ Once(r, read[r] \o conn[r].app_inbox, conn[Peer(r)].send_seq[2], conn[r].recv_replay[2])
  BY DEF RecordInv
<1>2. /\ Formed(d) /\ Further(conn[r], d) /\ Sealed(r, d, Carried(net[Peer(r)]))
      /\ Once(r, read[r] \o d.app_inbox, conn[Peer(r)].send_seq[2], d.recv_replay[2])
  BY <1>1 DEF Goes
<1> QED
  BY <1>1, <1>2, OneSideMoves

\* The client's first flight.
LEMMA StartKeeps == RecordInv /\ Start => RecordInv'
<1> SUFFICES ASSUME RecordInv, Start PROVE RecordInv'
  OBVIOUS
<1> DEFINE r == "client"
           c == conn[r]
           d == [c EXCEPT !.state = "ClientWaitServerHello"]
           e == send_handshake(r, d, "CH1")
           f == arm_flight(e)
<1>1. conn' = [conn EXCEPT ![r] = f] /\ UNCHANGED <<net, read>>
  BY DEF Start
<1>2. r \in Roles /\ "CH1" \in Types \ {"data"}
  BY DEF Roles, Types
<1> HIDE DEF r
<1>3. Formed(c)
  BY <1>2 DEF RecordInv
<1> DEFINE msg == [from |-> r, type |-> "CH1", n |-> 0]
<1>4. msg \in Msgs
  BY <1>2 DEF Msgs
<1> HIDE DEF msg
<1>5. Goes(r, c, d)
  BY <1>2, <1>3, <1>4, QuietSteps
<1> HIDE DEF d
<1>6. Goes(r, c, e)
  <2>1. Formed(d)
    BY <1>5 DEF Goes
  <2> QED
    BY <1>2, <1>5, <2>1, HandshakeGoes, GoesOn
<1> HIDE DEF e
<1>7. Goes(r, c, f)
  <2>1. Formed(e)
    BY <1>6 DEF Goes
  <2>2. Goes(r, e, f)
    BY <1>4, <2>1, QuietSteps
  <2> QED
    BY <1>6, <2>2, GoesOn
<1> QED
  BY <1>1, <1>2, <1>7, OneSideSends

\* A retransmission repeats records, with the numbers they have.
LEMMA TickKeeps == ASSUME RecordInv, NEW r \in Roles, Tick(r) PROVE RecordInv'
<1> DEFINE c == conn[r]
           both == c.out \o c.flight
           d == IF c.retries < MaxRetries
                THEN [c EXCEPT !.retries = @ + 1, !.out = both]
                ELSE [c EXCEPT !.retries = @ + 1, !.armed = FALSE]
<1>1. Formed(c)
  BY DEF RecordInv
<1>2. conn' = [conn EXCEPT ![r] = d] /\ UNCHANGED <<net, read>>
  BY <1>1 DEF Tick, Formed
<1>3. both \in Seq(Records) /\ Range(both) = Range(c.out) \union Range(c.flight)
  BY <1>1, Ranges DEF Formed
<1> HIDE DEF both, c
<1>4. /\ Formed(d) /\ d.out \in {c.out, both} /\ d.flight = c.flight /\ d.send_seq = c.send_seq
      /\ d.app_inbox = c.app_inbox /\ d.recv_replay = c.recv_replay
  <2>1. CASE c.retries < MaxRetries
    <3> DEFINE n == c.retries + 1
    <3>1. d = [c EXCEPT !.retries = n, !.out = both]
      BY <2>1
    <3> HIDE DEF n, d
    <3> QED
      BY <1>1, <1>3, <3>1 DEF Formed
  <2>2. CASE ~(c.retries < MaxRetries)
    <3> DEFINE n == c.retries + 1
    <3>1. d = [c EXCEPT !.retries = n, !.armed = FALSE]
      BY <2>2
    <3> HIDE DEF n, d
    <3> QED
      BY <1>1, <1>3, <3>1 DEF Formed
  <2> QED
    BY <2>1, <2>2
<1> HIDE DEF d
<1>5. \A R : Mine(d, R) = Mine(c, R)
  BY <1>3, <1>4 DEF Mine
<1>6. \A R : Sealed(r, c, R) => Sealed(r, d, R)
  BY <1>4, <1>5 DEF Sealed
<1>7. Goes(r, conn[r], d)
  BY <1>4, <1>6 DEF Goes, Further, c
<1> QED
  BY <1>2, <1>7, OneSideSends

\* Data takes the next number of epoch 2.
LEMMA SendKeeps == ASSUME RecordInv, NEW r \in Roles, send_app_data(r) PROVE RecordInv'
<1> DEFINE c == conn[r]
           msg == [from |-> r, type |-> "data", n |-> c.send_seq[2]]
           d == encrypt(r, c, 2, msg)
<1>1. Formed(c) /\ DOMAIN conn = Roles
  BY DEF RecordInv
<1>2. conn' = [conn EXCEPT ![r] = d] /\ UNCHANGED <<net, read>>
  BY <1>1 DEF send_app_data
<1>3. msg \in Msgs /\ msg.from = r /\ msg.n = c.send_seq[2]
  BY <1>1 DEF Msgs, Types, Formed
<1> HIDE DEF msg
<1>4. Goes(r, c, d)
  BY <1>1, <1>3, EncryptGoes
<1> HIDE DEF d
<1> QED
  BY <1>2, <1>4, OneSideSends

\* What leaves goes from the output to the network, or is lost.
LEMMA TakeOutputKeeps == ASSUME RecordInv, NEW r \in Roles, TakeOutput(r) PROVE RecordInv'
<1> DEFINE c == conn[r]
           q == Peer(r)
           d == [c EXCEPT !.out = <<>>]
<1>1. /\ Formed(c) /\ Sealed(r, c, Carried(net[q])) /\ DOMAIN conn = Roles
      /\ net \in [Roles -> Seq(Seq(Records))] /\ read \in [Roles -> Seq(Msgs)]
      /\ Once(r, read[r] \o c.app_inbox, conn[q].send_seq[2], c.recv_replay[2])
  BY DEF RecordInv
<1>2. q \in Roles /\ q # r
  BY DEF Roles, Peer
<1>3. /\ conn' = [conn EXCEPT ![r] = d] /\ read' = read
      /\ net' = [net EXCEPT ![q] = Append(net[q], c.out)] \/ net' = net
  BY <1>1, <1>2 DEF TakeOutput
<1>4. /\ Formed(d) /\ d.out = <<>> /\ d.flight = c.flight /\ d.send_seq = c.send_seq
      /\ d.app_inbox = c.app_inbox /\ d.recv_replay = c.recv_replay
  BY <1>1 DEF Formed
<1>5. c.out \in Seq(Records)
  BY <1>1 DEF Formed
<1> HIDE DEF c, d, q
<1>6. /\ net' \in [Roles -> Seq(Seq(Records))] /\ net'[r] = net[r]
      /\ net'[q] = net[q] \/ net'[q] = Append(net[q], c.out)
  <2> DEFINE u == Append(net[q], c.out)
  <2>1. u \in Seq(Seq(Records))
    BY <1>1, <1>2, <1>5
  <2>2. net' = [net EXCEPT ![q] = u] \/ net' = net
    BY <1>3
  <2> HIDE DEF u
  <2>3. net' \in [Roles -> Seq(Seq(Records))] /\ net'[r] = net[r] /\ (net'[q] = net[q] \/ net'[q] = u)
    BY <1>1, <1>2, <2>1, <2>2
  <2> QED
    BY <2>3 DEF u
<1>7. Mine(d, Carried(net'[q])) \subseteq Mine(c, Carried(net[q]))
  <2>1. Carried(net'[q]) \subseteq Carried(net[q]) \union Range(c.out)
    <3>1. net[q] \in Seq(Seq(Records))
      BY <1>1, <1>2
    <3>2. Range(net'[q]) \subseteq Range(net[q]) \union {c.out}
      <4>1. Range(Append(net[q], c.out)) = Range(net[q]) \union {c.out}
        BY <1>5, <3>1, Ranges
      <4> QED
        BY <1>6, <4>1
    <3> QED
      BY <3>2 DEF Carried
  <2>2. Range(d.out) = {}
    BY <1>4, Ranges
  <2> QED
    BY <1>4, <2>1, <2>2 DEF Mine
<1>8. Sealed(r, d, Carried(net'[q]))
  BY <1>1, <1>4, <1>7 DEF Sealed
<1>9. Further(c, d) /\ Once(r, read'[r] \o d.app_inbox, conn[q].send_seq[2], d.recv_replay[2])
  BY <1>1, <1>3, <1>4 DEF Further
<1> QED
  BY <1>1, <1>3, <1>4, <1>6, <1>8, <1>9, OneSideMoves DEF c, q

\* What a datagram that is read leaves on the network.
LEMMA Leaves ==
    ASSUME net \in [Roles -> Seq(Seq(Records))], NEW r \in Roles, NEW q \in Roles, q # r,
           NEW i \in 1 .. Len(net[r]), NEW copy \in BOOLEAN,
           net' = [net EXCEPT ![r] = IF copy THEN @ ELSE RemoveAt(@, i)]
    PROVE  /\ net' \in [Roles -> Seq(Seq(Records))] /\ net'[q] = net[q]
           /\ Carried(net'[r]) \subseteq Carried(net[r])
<1>1. CASE copy
  BY <1>1
<1>2. CASE ~copy
  <2> DEFINE u == net[r]
             lo == SubSeq(u, 1, i - 1)
             hi == SubSeq(u, i + 1, Len(u))
  <2>1. u \in Seq(Seq(Records)) /\ i \in 1 .. Len(u) /\ Len(u) \in Nat
    OBVIOUS
  <2>2. net' = [net EXCEPT ![r] = lo \o hi]
    BY <1>2 DEF RemoveAt
  <2> HIDE DEF u
  <2>3. lo \in Seq(Seq(Records)) /\ \A k \in 1 .. Len(lo) : k \in 1 .. Len(u) /\ lo[k] = u[k]
    BY <2>1
  <2>4. hi \in Seq(Seq(Records)) /\ \A k \in 1 .. Len(hi) : k + i \in 1 .. Len(u) /\ hi[k] = u[k + i]
    <3>1. hi \in Seq(Seq(Records)) /\ Len(hi) = Len(u) - i
      BY <2>1, SubSeqProperties
    <3>2. \A k \in 1 .. Len(u) - i : hi[k] = u[i + 1 + k - 1]
      BY <2>1, SubSeqProperties
    <3> HIDE DEF hi
    <3>3. \A k \in 1 .. Len(u) - i : i + 1 + k - 1 = k + i /\ k + i \in 1 .. Len(u)
      BY <2>1
    <3> QED
      BY <3>1, <3>2, <3>3
  <2> HIDE DEF lo, hi
  <2>5. Range(lo) \subseteq Range(u)
    <3>1. ASSUME NEW x \in Range(lo) PROVE x \in Range(u)
      <4>1. PICK k \in 1 .. Len(lo) : x = lo[k]
        BY <2>3, Ranges
      <4>2. k \in 1 .. Len(u) /\ x = u[k]
        BY <2>3, <4>1
      <4> QED
        BY <2>1, <4>2, Ranges
    <3> QED
      BY <3>1
  <2>6. Range(hi) \subseteq Range(u)
    <3>1. ASSUME NEW x \in Range(hi) PROVE x \in Range(u)
      <4>1. PICK k \in 1 .. Len(hi) : x = hi[k]
        BY <2>4, Ranges
      <4>2. k + i \in 1 .. Len(u) /\ x = u[k + i]
        BY <2>4, <4>1
      <4> QED
        BY <2>1, <4>2, Ranges
    <3> QED
      BY <3>1
  <2>7. lo \o hi \in Seq(Seq(Records)) /\ Range(lo \o hi) \subseteq Range(u)
    BY <2>3, <2>4, <2>5, <2>6, Ranges
  <2> DEFINE rest == lo \o hi
  <2> HIDE DEF rest
  <2>8. net' = [net EXCEPT ![r] = rest] /\ rest \in Seq(Seq(Records)) /\ Range(rest) \subseteq Range(u)
    BY <2>2, <2>7 DEF rest
  <2>9. net' \in [Roles -> Seq(Seq(Records))] /\ net'[q] = net[q] /\ net'[r] = rest
    BY <2>8
  <2> QED
    BY <2>8, <2>9 DEF u, Carried
<1> QED
  BY <1>1, <1>2

\* A datagram of the peer is read, once or once more.
LEMMA ReceiveKeeps == ASSUME RecordInv, NEW r \in Roles, Receive(r) PROVE RecordInv'
<1> DEFINE c == conn[r]
           q == Peer(r)
           s == conn[q].send_seq[2]
<1>1. /\ Formed(c) /\ Sealed(r, c, Carried(net[q])) /\ DOMAIN conn = Roles
      /\ net \in [Roles -> Seq(Seq(Records))] /\ read \in [Roles -> Seq(Msgs)]
      /\ Once(r, read[r] \o c.app_inbox, s, c.recv_replay[2])
  BY DEF RecordInv
<1>2. q \in Roles /\ q # r /\ Peer(q) = r
  BY DEF Roles, Peer
<1>3. s \in Nat /\ Sealed(q, conn[q], Carried(net[r]))
  BY <1>2 DEF RecordInv, Formed
<1>4. PICK i \in 1 .. Len(net[r]), aligned \in BOOLEAN, copy \in BOOLEAN :
        /\ conn' = [conn EXCEPT ![r] = process_datagram(r, aligned, net[r][i]).c]
        /\ net' = [net EXCEPT ![r] = IF copy THEN @ ELSE RemoveAt(@, i)]
        /\ read' = read
  BY DEF Receive
<1> DEFINE dg == net[r][i]
           a == process_datagram(r, aligned, dg)
           d == a.c
<1>5. net[r] \in Seq(Seq(Records)) /\ dg \in Seq(Records)
  BY <1>1
<1>6. ASSUME NEW j \in 1 .. Len(dg) PROVE Numbered(q, dg[j]) /\ (dg[j].epoch = 2 => dg[j].seq < s)
  <2> HIDE DEF dg, q
  <2>1. dg[j] \in Range(dg) /\ dg \in Range(net[r])
    BY <1>5, Ranges DEF dg
  <2>2. dg[j] \in Mine(conn[q], Carried(net[r]))
    BY <2>1 DEF Mine, Carried
  <2> QED
    BY <1>3, <2>2 DEF Sealed, q
<1>7. Reading(r, c, a, Carried(net[q]), read[r], s)
  <2> HIDE DEF s, q, dg
  <2>1. read[r] \in Seq(Msgs)
    BY <1>1
  <2> QED
    BY <1>1, <1>3, <1>5, <1>6, <2>1, DatagramRead DEF q
<1> HIDE DEF a, dg
<1>8. /\ Formed(d) /\ Further(c, d) /\ Sealed(r, d, Carried(net[q]))
      /\ Once(r, read[r] \o d.app_inbox, s, d.recv_replay[2])
  BY <1>7 DEF Reading
<1>9. conn' = [conn EXCEPT ![r] = d]
  BY <1>4 DEF a, dg
<1> HIDE DEF d
<1>10. /\ net' \in [Roles -> Seq(Seq(Records))] /\ net'[q] = net[q]
       /\ Carried(net'[r]) \subseteq Carried(net[r])
  BY <1>1, <1>2, <1>4, Leaves
<1>11. /\ Sealed(r, d, Carried(net'[q])) /\ read' \in [Roles -> Seq(Msgs)] /\ read' = read
       /\ Once(r, read'[r] \o d.app_inbox, conn[q].send_seq[2], d.recv_replay[2])
  BY <1>1, <1>4, <1>8, <1>10
<1> QED
  BY <1>8, <1>9, <1>10, <1>11, OneSideMoves

\* The application takes the oldest of its inbox.
LEMMA RecvKeeps == ASSUME RecordInv, NEW r \in Roles, recv_app_data(r) PROVE RecordInv'
<1> DEFINE c == conn[r]
           q == Peer(r)
           box == c.app_inbox
           d == [c EXCEPT !.app_inbox = Tail(box)]
<1>1. /\ Formed(c) /\ Sealed(r, c, Carried(net[q])) /\ DOMAIN conn = Roles
      /\ net \in [Roles -> Seq(Seq(Records))] /\ read \in [Roles -> Seq(Msgs)]
      /\ Once(r, read[r] \o box, conn[q].send_seq[2], c.recv_replay[2])
      /\ box \in Seq(Msgs)
  BY DEF RecordInv, Formed
<1>2. q \in Roles /\ q # r
  BY DEF Roles, Peer
<1>3. /\ conn' = [conn EXCEPT ![r] = d] /\ read' = [read EXCEPT ![r] = Append(read[r], Head(box))]
      /\ net' = net /\ box # <<>>
  BY <1>1 DEF recv_app_data
<1>4. Head(box) \in Msgs /\ Tail(box) \in Seq(Msgs)
  BY <1>1, <1>3
<1>5. Append(read[r], Head(box)) \o Tail(box) = read[r] \o box
  <2> DEFINE rd == read[r]
             x == Append(rd, Head(box)) \o Tail(box)
             y == rd \o box
  <2>1. rd \in Seq(Msgs)
    BY <1>1
  <2> HIDE DEF rd, box
  <2>2. x \in Seq(Msgs) /\ y \in Seq(Msgs) /\ Len(x) = Len(y)
    BY <1>1, <1>3, <1>4, <2>1
  <2>3. \A j \in 1 .. Len(x) : x[j] = y[j]
    BY <1>1, <1>3, <1>4, <2>1, SMTT(30)
  <2>4. x = y
    BY <2>2, <2>3
  <2> QED
    BY <2>4 DEF rd
<1>6. /\ Formed(d) /\ d.out = c.out /\ d.flight = c.flight /\ d.send_seq = c.send_seq
      /\ d.app_inbox = Tail(box) /\ d.recv_replay = c.recv_replay
  <2> DEFINE t == Tail(box)
  <2>1. d = [c EXCEPT !.app_inbox = t] /\ t \in Seq(Msgs)
    BY <1>4
  <2> HIDE DEF c, d, t
  <2> QED
    BY <1>1, <2>1 DEF Formed, t
<1>7. read' \in [Roles -> Seq(Msgs)] /\ read'[q] = read[q] /\ read'[r] = Append(read[r], Head(box))
  BY <1>1, <1>2, <1>3, <1>4
<1> HIDE DEF c, d, box
<1>8. Once(r, read'[r] \o d.app_inbox, conn[q].send_seq[2], d.recv_replay[2])
  BY <1>1, <1>5, <1>6, <1>7
<1>9. Sealed(r, d, Carried(net'[q])) /\ Further(c, d)
  BY <1>1, <1>3, <1>6 DEF Sealed, Mine, Further
<1> QED
  BY <1>1, <1>3, <1>6, <1>7, <1>8, <1>9, OneSideMoves DEF c, q

\* Nothing is sent at the start.
LEMMA RecordInit == Init => RecordInv
<1> SUFFICES ASSUME Init PROVE RecordInv
  OBVIOUS
<1>1. NewWindow \in ReplayWindow
  BY ReplayAssumption DEF NewWindow, ReplayWindow, Word
<1>2. /\ conn = [r \in Roles |-> blank(r)] /\ net = [r \in Roles |-> <<>>] /\ read = [r \in Roles |-> <<>>]
  BY DEF Init
<1>3. Carried(<<>>) = {}
  BY Ranges DEF Carried
<1>4. ASSUME NEW r \in Roles
      PROVE  /\ Formed(conn[r]) /\ Sealed(r, conn[r], Carried(net[Peer(r)]))
             /\ Once(r, read[r] \o conn[r].app_inbox, conn[Peer(r)].send_seq[2], conn[r].recv_replay[2])
  <2> DEFINE c == blank(r)
  <2>1. conn[r] = c /\ net[Peer(r)] = <<>> /\ read[r] = <<>>
    BY <1>2 DEF Roles, Peer
  <2>2. Formed(c) /\ c.out = <<>> /\ c.flight = <<>> /\ c.app_inbox = <<>>
    BY <1>1 DEF blank, Formed, None
  <2> HIDE DEF c
  <2>3. Mine(c, {}) = {}
    BY <2>2, Ranges DEF Mine
  <2>4. Sealed(r, c, {})
    BY <2>3 DEF Sealed
  <2>5. read[r] \o c.app_inbox = <<>>
    BY <2>1, <2>2
  <2> DEFINE got == read[r] \o c.app_inbox
  <2>6. got \in Seq(Msgs) /\ 1 .. Len(got) = {}
    BY <2>5
  <2> HIDE DEF got
  <2>7. \A s, w : Once(r, got, s, w)
    BY <2>6 DEF Once
  <2> QED
    BY <1>3, <2>1, <2>2, <2>4, <2>7 DEF got
<1> QED
  BY <1>2, <1>4, SMTT(30) DEF RecordInv

\* A record number is used once on both sides, for every window, however often datagrams are repeated,
\* reordered or lost and flights sent again, and whichever certificates are trusted: a number of an epoch
\* seals one record (encrypt), and no data of the peer is read twice (process_datagram, recv_app_data).
THEOREM NumbersUsedOnce == Spec => []RecordsOnce
<1>1. RecordInv /\ [Next]_vars => RecordInv'
  <2> SUFFICES ASSUME RecordInv, [Next]_vars PROVE RecordInv'
    OBVIOUS
  <2>1. CASE UNCHANGED vars
    BY <2>1 DEF vars, RecordInv, Carried
  <2>2. ASSUME NEW r \in Roles, TakeOutput(r) \/ Receive(r) \/ Tick(r) \/ recv_app_data(r) \/ send_app_data(r)
        PROVE  RecordInv'
    BY <2>2, TakeOutputKeeps, ReceiveKeeps, TickKeeps, RecvKeeps, SendKeeps
  <2> QED
    BY <2>1, <2>2, StartKeeps DEF Next, Drive
<1> QED
  BY <1>1, RecordInit, RecordInvSuffices, PTL DEF Spec

-----------------------------------------------------------------------------
(* What the two sides agree on. *)

\* The server has sent its flight.
Later == {"ServerWaitClientFlight", "ServerConnected"}
Proofs == {"Cert", "CV", "Fin"}

\* The client c, which sent its flight m1, m2, m3 on the transcript B, and the server s, which has read
\* some of it.  The certificate m1 is the one message that no signature and no MAC puts in its place: it is
\* read once because its record number is known to the window from then on.
Meets(c, s, C, B, m1, m2, m3) ==
    LET B1 == Append(B, m1)
        B2 == Append(B1, m2)
        B3 == Append(B2, m3)
    IN  /\ s.state \in Later /\ c.hs = s.hs /\ c.transcript = B3 /\ c.app = B3
        /\ \A x \in C : /\ x.msg.type = "Cert" => x.epoch = 1 /\ x.msg = m1
                        /\ x.msg.type = "CV" => x.over = B1 /\ x.msg = m2
                        /\ x.msg.type = "Fin" => x.over = B2 /\ x.msg = m3
        /\ \A x, y \in C : x.msg.type = "Cert" /\ y.msg.type = "Cert" => x.seq = y.seq
        /\ \/ s.transcript = B /\ ~s.connected
           \/ /\ s.transcript = B1 \/ s.transcript = B2
              /\ ~s.connected
              /\ \A x \in C : x.msg.type = "Cert" => Known(s.recv_replay[1], x.seq)
           \/ s.transcript = B3 /\ s.connected /\ s.app = B3

\* The client c and the server s, and the records C and S that they have sent and that may still be read.
Agreed(c, s, C, S) ==
    /\ c.connected <=> c.state = "ClientConnected"
    /\ s.connected <=> s.state = "ServerConnected"
    /\ s.connected => c.connected
    /\ \A x \in S : x.msg.type = "Fin" =>
          /\ s.state \in Later /\ x.epoch = 1 /\ x.key = s.hs
          /\ c.connected \/ s.transcript = Append(x.over, x.msg)
    /\ \A x \in C : x.msg.type \in Proofs => c.connected
    /\ c.connected => \E B \in Seq(Msgs), m1, m2, m3 \in Msgs : Meets(c, s, C, B, m1, m2, m3)

\* What agreement is about is the same in c and d.
Same(c, d) ==
    /\ d.state = c.state /\ d.connected = c.connected /\ d.transcript = c.transcript
    /\ d.hs = c.hs /\ d.app = c.app

\* Nothing that agreement is about has happened.
LEMMA Unmoved ==
    ASSUME NEW c, NEW s, NEW C, NEW S, Agreed(c, s, C, S),
           NEW d, NEW t, NEW D, NEW T, Same(c, d), Same(s, t),
           \A x \in D : x \in C \/ x.msg.type \notin Proofs, \A x \in T : x \in S \/ x.msg.type \notin Proofs,
           \A x \in C : Known(s.recv_replay[1], x.seq) => Known(t.recv_replay[1], x.seq)
    PROVE  Agreed(d, t, D, T)
<1>1. ASSUME NEW B, NEW m1, NEW m2, NEW m3, Meets(c, s, C, B, m1, m2, m3) PROVE Meets(d, t, D, B, m1, m2, m3)
  <2> DEFINE B1 == Append(B, m1)
             B2 == Append(B1, m2)
             B3 == Append(B2, m3)
  <2>1. /\ s.state \in Later /\ c.hs = s.hs /\ c.transcript = B3 /\ c.app = B3
        /\ \A x \in C : /\ x.msg.type = "Cert" => x.epoch = 1 /\ x.msg = m1
                        /\ x.msg.type = "CV" => x.over = B1 /\ x.msg = m2
                        /\ x.msg.type = "Fin" => x.over = B2 /\ x.msg = m3
        /\ \A x, y \in C : x.msg.type = "Cert" /\ y.msg.type = "Cert" => x.seq = y.seq
        /\ \/ s.transcript = B /\ ~s.connected
           \/ /\ s.transcript = B1 \/ s.transcript = B2
              /\ ~s.connected
              /\ \A x \in C : x.msg.type = "Cert" => Known(s.recv_replay[1], x.seq)
           \/ s.transcript = B3 /\ s.connected /\ s.app = B3
    BY <1>1, Zenon DEF Meets
  <2> HIDE DEF B1, B2, B3
  <2>2. \A x \in D : x.msg.type \in Proofs => x \in C
    OBVIOUS
  <2>3. "Cert" \in Proofs /\ "CV" \in Proofs /\ "Fin" \in Proofs
    BY DEF Proofs
  <2>4. /\ t.state \in Later /\ d.hs = t.hs /\ d.transcript = B3 /\ d.app = B3
        /\ \A x \in D : /\ x.msg.type = "Cert" => x.epoch = 1 /\ x.msg = m1
                        /\ x.msg.type = "CV" => x.over = B1 /\ x.msg = m2
                        /\ x.msg.type = "Fin" => x.over = B2 /\ x.msg = m3
        /\ \A x, y \in D : x.msg.type = "Cert" /\ y.msg.type = "Cert" => x.seq = y.seq
    BY <2>1, <2>2, <2>3 DEF Same
  <2>5. \/ t.transcript = B /\ ~t.connected
        \/ /\ t.transcript = B1 \/ t.transcript = B2
           /\ ~t.connected
           /\ \A x \in D : x.msg.type = "Cert" => Known(t.recv_replay[1], x.seq)
        \/ t.transcript = B3 /\ t.connected /\ t.app = B3
    BY <2>1, <2>2, <2>3 DEF Same
  <2> QED
    BY <2>4, <2>5, Zenon DEF Meets, B1, B2, B3
<1>2. d.connected => \E B \in Seq(Msgs), m1, m2, m3 \in Msgs : Meets(d, t, D, B, m1, m2, m3)
  BY <1>1 DEF Agreed, Same
<1>3. "Fin" \in Proofs
  BY DEF Proofs
<1> QED
  BY <1>2, <1>3 DEF Agreed, Same

\* A handshake message goes out as the record x, under the keys of its epoch and over the transcript so far.
Sent(c, d, x, type) ==
    /\ x \in Records /\ x.msg.type = type /\ x.over = c.transcript
    /\ x.epoch = (IF c.connected THEN 2 ELSE handshake_epoch(c)) /\ x.key = keys(c, x.epoch)
    /\ Formed(d) /\ d.transcript = Append(c.transcript, x.msg) /\ d.out = Append(c.out, x) /\ d.flight = c.flight
    /\ d.state = c.state /\ d.connected = c.connected /\ d.hs = c.hs /\ d.app = c.app /\ d.recv_replay = c.recv_replay

\* send_handshake.
LEMMA HandshakeSent ==
    ASSUME NEW r \in Roles, NEW c, Formed(c), NEW type \in Types \ {"data"}
    PROVE  \E x : Sent(c, send_handshake(r, c, type), x, type)
<1> DEFINE msg == [from |-> r, type |-> type, n |-> c.msg_seq]
           epoch == IF c.connected THEN 2 ELSE handshake_epoch(c)
           x == [epoch |-> epoch, seq |-> c.send_seq[epoch], key |-> keys(c, epoch), msg |-> msg, over |-> c.transcript]
           d == send_handshake(r, c, type)
           n == c.msg_seq + 1
           seqs == [c.send_seq EXCEPT ![epoch] = @ + 1]
           out == Append(c.out, x)
           tr == Append(c.transcript, msg)
<1>1. msg \in Msgs /\ msg.type = type
  BY DEF Msgs, Formed
<1>2. epoch \in 0 .. 2
  BY DEF handshake_epoch
<1>3. x \in Records /\ x.epoch = epoch /\ x.key = keys(c, epoch) /\ x.msg = msg /\ x.over = c.transcript
  <2> HIDE DEF msg, epoch
  <2>1. keys(c, epoch) \in Seq(Msgs)
    BY <1>2 DEF keys, None, Formed
  <2> QED
    BY <1>1, <1>2, <2>1 DEF Records, Formed
<1>4. Formed(d)
  BY HandshakeGoes DEF Goes
<1>5. d = [c EXCEPT !.send_seq = seqs, !.out = out, !.msg_seq = n, !.transcript = tr]
  <2>1. DOMAIN c = {"state", "transcript", "send_seq", "msg_seq", "hs", "app", "peer_key", "connected", "out", "flight",
                    "armed", "retries", "recv_replay", "app_inbox"}
    BY DEF Formed
  <2> HIDE DEF msg, epoch
  <2>2. encrypt(r, c, epoch, msg) = [c EXCEPT !.send_seq = seqs, !.out = out]
    BY <2>1 DEF encrypt
  <2>3. d = [encrypt(r, c, epoch, msg) EXCEPT !.msg_seq = @ + 1, !.transcript = Append(@, msg)]
    BY Zenon DEF send_handshake, msg, epoch
  <2> HIDE DEF seqs, out, d
  <2> QED
    BY <2>1, <2>2, <2>3
<1>6. /\ d.transcript = tr /\ d.out = out /\ d.flight = c.flight /\ d.state = c.state /\ d.connected = c.connected
      /\ d.hs = c.hs /\ d.app = c.app /\ d.recv_replay = c.recv_replay
  <2> HIDE DEF seqs, out, tr, n, d
  <2> QED
    BY <1>5 DEF Formed
<1> HIDE DEF d, x, msg
<1>7. Sent(c, d, x, type)
  BY <1>1, <1>3, <1>4, <1>6 DEF Sent
<1> QED
  BY <1>7 DEF d

\* The records of a side that has sent one more.
LEMMA SentMine ==
    ASSUME NEW c, Formed(c), NEW d, NEW x, NEW type, Sent(c, d, x, type), NEW R
    PROVE  Mine(d, R) = Mine(c, R) \union {x}
<1>1. Range(Append(c.out, x)) = Range(c.out) \union {x}
  BY Ranges, SMTT(30) DEF Sent, Formed
<1> QED
  BY <1>1 DEF Sent, Mine

\* The fields of a connection after the steps that send nothing.
LEMMA QuietFields ==
    ASSUME NEW c, Formed(c), NEW msg \in Msgs, NEW state, NEW b
    PROVE  /\ LET d == noted(c, msg)
              IN  /\ d.transcript = Append(c.transcript, msg) /\ d.out = c.out /\ d.flight = c.flight
                  /\ d.state = c.state /\ d.connected = c.connected /\ d.hs = c.hs /\ d.app = c.app
                  /\ d.recv_replay = c.recv_replay
           /\ LET d == derive_handshake_secrets(c)
              IN  /\ d.transcript = c.transcript /\ d.out = c.out /\ d.flight = c.flight
                  /\ d.state = c.state /\ d.connected = c.connected /\ d.hs = c.transcript /\ d.app = c.app
                  /\ d.recv_replay = c.recv_replay
           /\ LET d == derive_app_secrets(c)
              IN  /\ d.transcript = c.transcript /\ d.out = c.out /\ d.flight = c.flight
                  /\ d.state = c.state /\ d.connected = c.connected /\ d.hs = c.hs /\ d.app = c.transcript
                  /\ d.recv_replay = c.recv_replay
           /\ Same(c, arm_flight(c)) /\ arm_flight(c).out = c.out /\ arm_flight(c).flight = c.out
                                     /\ arm_flight(c).recv_replay = c.recv_replay
           /\ Same(c, clear_flight(c)) /\ clear_flight(c).out = c.out /\ clear_flight(c).flight = <<>>
                                       /\ clear_flight(c).recv_replay = c.recv_replay
           /\ LET d == [c EXCEPT !.state = state]
              IN  /\ d.transcript = c.transcript /\ d.out = c.out /\ d.flight = c.flight
                  /\ d.state = state /\ d.connected = c.connected /\ d.hs = c.hs /\ d.app = c.app
                  /\ d.recv_replay = c.recv_replay
           /\ LET d == [c EXCEPT !.peer_key = b]
              IN  Same(c, d) /\ d.out = c.out /\ d.flight = c.flight /\ d.recv_replay = c.recv_replay
           /\ LET d == [c EXCEPT !.connected = b, !.state = state]
              IN  /\ d.transcript = c.transcript /\ d.out = c.out /\ d.flight = c.flight
                  /\ d.state = state /\ d.connected = b /\ d.hs = c.hs /\ d.app = c.app
                  /\ d.recv_replay = c.recv_replay
  BY DEF Formed, noted, derive_handshake_secrets, derive_app_secrets, arm_flight, clear_flight, Same, None

\* The records a side keeps after the steps that send nothing.
LEMMA QuietMine ==
    ASSUME NEW c, NEW d, d.out = c.out, d.flight \in {c.flight, c.out, <<>>}, NEW R
    PROVE  Mine(d, R) \subseteq Mine(c, R)
  BY Ranges DEF Mine

\* A client that is not connected may do anything but connect or send its flight.
LEMMA ClientStays ==
    ASSUME NEW c, NEW s, NEW C, NEW S, Agreed(c, s, C, S), ~c.connected,
           NEW d, NEW D, ~d.connected, d.state # "ClientConnected", \A x \in D : x \in C \/ x.msg.type \notin Proofs
    PROVE  Agreed(d, s, D, S)
  BY DEF Agreed

\* The client answers the server's Finished with its flight.
LEMMA ClientConnects ==
    ASSUME NEW c, Formed(c), NEW s, NEW R, NEW S, Agreed(c, s, Mine(c, R), S), NEW rec \in Records, rec \in S,
           rec.msg.type = "Fin", open_protected(c, rec), c.state = "ClientWaitServerFlight", rec.over = c.transcript
    PROVE  LET d == send_client_flight(noted(c, rec.msg)) IN Agreed(d, s, Mine(d, R), S)
<1> DEFINE r == "client"
           msg == rec.msg
           h0 == noted(c, msg)
           h1 == send_handshake(r, h0, "Cert")
           h2 == send_handshake(r, h1, "CV")
           h3 == send_handshake(r, h2, "Fin")
           h4 == derive_app_secrets(h3)
           h5 == [h4 EXCEPT !.connected = TRUE, !.state = "ClientConnected"]
           h6 == arm_flight(h5)
<1>1. send_client_flight(noted(c, rec.msg)) = h6
  BY DEF send_client_flight
<1>2. r \in Roles /\ msg \in Msgs /\ {"Cert", "CV", "Fin"} \subseteq Types \ {"data"}
  BY DEF Records, Roles, Types
<1>3. ~c.connected /\ rec.epoch = 1 /\ rec.key = s.hs /\ s.state \in Later /\ s.transcript = Append(rec.over, rec.msg)
  BY DEF Agreed
<1>4. c.hs = s.hs /\ c.hs # None
  BY <1>3 DEF open_protected, keys
<1> HIDE DEF r
<1>5. /\ Formed(h0) /\ h0.transcript = s.transcript /\ h0.connected = c.connected /\ h0.hs = c.hs
      /\ h0.out = c.out /\ h0.flight = c.flight
  <2> HIDE DEF msg
  <2>1. /\ h0.transcript = Append(c.transcript, msg) /\ h0.connected = c.connected /\ h0.hs = c.hs
        /\ h0.out = c.out /\ h0.flight = c.flight
    BY <1>2, QuietFields, ZenonT(40)
  <2>2. Formed(h0)
    BY <1>2, QuietSteps DEF Goes
  <2> QED
    BY <1>3, <2>1, <2>2 DEF msg
<1> HIDE DEF h0
<1>6. PICK x1 : Sent(h0, h1, x1, "Cert")
  BY <1>2, <1>5, HandshakeSent
<1>7. Formed(h1) /\ h1.connected = h0.connected /\ Mine(h1, R) = Mine(h0, R) \union {x1}
  <2>1. Mine(h1, R) = Mine(h0, R) \union {x1}
    BY <1>5, <1>6, SentMine
  <2>2. Formed(h1) /\ h1.connected = h0.connected
    BY <1>6 DEF Sent
  <2> QED
    BY <2>1, <2>2
<1> HIDE DEF h1
<1>8. PICK x2 : Sent(h1, h2, x2, "CV")
  BY <1>2, <1>7, HandshakeSent
<1>9. Formed(h2) /\ h2.connected = h1.connected /\ Mine(h2, R) = Mine(h1, R) \union {x2}
  <2>1. Mine(h2, R) = Mine(h1, R) \union {x2}
    BY <1>7, <1>8, SentMine
  <2>2. Formed(h2) /\ h2.connected = h1.connected
    BY <1>8 DEF Sent
  <2> QED
    BY <2>1, <2>2
<1> HIDE DEF h2
<1>10. PICK x3 : Sent(h2, h3, x3, "Fin")
  BY <1>2, <1>9, HandshakeSent
<1>11. Formed(h3) /\ h3.connected = h2.connected /\ Mine(h3, R) = Mine(h2, R) \union {x3}
  <2>1. Mine(h3, R) = Mine(h2, R) \union {x3}
    BY <1>9, <1>10, SentMine
  <2>2. Formed(h3) /\ h3.connected = h2.connected
    BY <1>10 DEF Sent
  <2> QED
    BY <2>1, <2>2
<1> HIDE DEF h3
<1> DEFINE B == s.transcript
           m1 == x1.msg
           m2 == x2.msg
           m3 == x3.msg
           B1 == Append(B, m1)
           B2 == Append(B1, m2)
           B3 == Append(B2, m3)
<1>12. /\ x1.over = B /\ x1.epoch = 1 /\ x2.over = B1 /\ x3.over = B2
       /\ x1.msg.type = "Cert" /\ x2.msg.type = "CV" /\ x3.msg.type = "Fin"
       /\ m1 \in Msgs /\ m2 \in Msgs /\ m3 \in Msgs
       /\ h3.transcript = B3 /\ h3.hs = s.hs
  BY <1>3, <1>4, <1>5, <1>6, <1>8, <1>10 DEF Sent, handshake_epoch, Records
<1>13. /\ Formed(h4) /\ h4.transcript = h3.transcript /\ h4.app = h3.transcript /\ h4.hs = h3.hs
       /\ h4.out = h3.out /\ h4.flight = h3.flight
  <2> HIDE DEF msg
  <2>1. Formed(h4)
    BY <1>2, <1>11, QuietSteps DEF Goes
  <2>2. /\ h4.transcript = h3.transcript /\ h4.app = h3.transcript /\ h4.hs = h3.hs
        /\ h4.out = h3.out /\ h4.flight = h3.flight
    BY <1>2, <1>11, QuietFields
  <2> QED
    BY <2>1, <2>2
<1> HIDE DEF h4
<1>14. /\ Formed(h5) /\ h5.transcript = h4.transcript /\ h5.app = h4.app /\ h5.hs = h4.hs
       /\ h5.connected = TRUE /\ h5.state = "ClientConnected"
       /\ h5.out = h4.out /\ h5.flight = h4.flight
  <2> HIDE DEF msg
  <2>1. Formed(h5)
    BY <1>2, <1>13, QuietSteps DEF Goes
  <2>2. /\ h5.transcript = h4.transcript /\ h5.app = h4.app /\ h5.hs = h4.hs
        /\ h5.connected = TRUE /\ h5.state = "ClientConnected"
        /\ h5.out = h4.out /\ h5.flight = h4.flight
    BY <1>2, <1>13, QuietFields
  <2> QED
    BY <2>1, <2>2
<1> HIDE DEF h5
<1>15. Same(h5, h6) /\ h6.out = h5.out /\ h6.flight = h5.out
  BY <1>2, <1>14, QuietFields, ZenonT(40)
<1> HIDE DEF h6
<1>16. /\ h6.connected = TRUE /\ h6.state = "ClientConnected" /\ h6.transcript = B3 /\ h6.app = B3 /\ h6.hs = s.hs
  BY <1>12, <1>13, <1>14, <1>15 DEF Same
<1>17. Mine(h6, R) \subseteq Mine(c, R) \union {x1, x2, x3}
  <2>1. Mine(h6, R) \subseteq Mine(h5, R) /\ Mine(h5, R) \subseteq Mine(h4, R) /\ Mine(h4, R) \subseteq Mine(h3, R)
        /\ Mine(h0, R) \subseteq Mine(c, R)
    BY <1>5, <1>13, <1>14, <1>15, QuietMine
  <2> QED
    BY <1>7, <1>9, <1>11, <2>1
<1>18. \A x \in Mine(c, R) : x.msg.type \notin Proofs
  BY <1>3 DEF Agreed
<1>19. ASSUME NEW x \in Mine(h6, R)
       PROVE  /\ x.msg.type = "Cert" => x = x1
              /\ x.msg.type = "CV" => x = x2
              /\ x.msg.type = "Fin" => x = x3
  BY <1>12, <1>17, <1>18 DEF Proofs
<1>20. B \in Seq(Msgs)
  BY <1>5 DEF Formed
<1>21. Meets(h6, s, Mine(h6, R), B, m1, m2, m3)
  <2>1. ~s.connected
    BY <1>3 DEF Agreed
  <2> HIDE DEF B, m1, m2, m3
  <2>2. \A x \in Mine(h6, R) : /\ x.msg.type = "Cert" => x.epoch = 1 /\ x.msg = m1
                               /\ x.msg.type = "CV" => x.over = B1 /\ x.msg = m2
                               /\ x.msg.type = "Fin" => x.over = B2 /\ x.msg = m3
    BY <1>12, <1>19 DEF m1, m2, m3
  <2>3. \A x, y \in Mine(h6, R) : x.msg.type = "Cert" /\ y.msg.type = "Cert" => x.seq = y.seq
    BY <1>19
  <2>4. s.transcript = B /\ s.state \in Later
    BY <1>3 DEF B
  <2> HIDE DEF B1, B2, B3
  <2>5. /\ s.state \in Later /\ h6.hs = s.hs /\ h6.transcript = B3 /\ h6.app = B3
        /\ \A x \in Mine(h6, R) : /\ x.msg.type = "Cert" => x.epoch = 1 /\ x.msg = m1
                                  /\ x.msg.type = "CV" => x.over = B1 /\ x.msg = m2
                                  /\ x.msg.type = "Fin" => x.over = B2 /\ x.msg = m3
        /\ \A x, y \in Mine(h6, R) : x.msg.type = "Cert" /\ y.msg.type = "Cert" => x.seq = y.seq
        /\ s.transcript = B /\ ~s.connected
    BY <1>16, <2>1, <2>2, <2>3, <2>4
  <2> QED
    BY <2>5, Zenon DEF Meets, B1, B2, B3
<1> HIDE DEF B, m1, m2, m3
<1>22. Agreed(h6, s, Mine(h6, R), S)
  BY <1>12, <1>16, <1>20, <1>21 DEF Agreed
<1> QED
  BY <1>1, <1>22

\* The client hears a record of the server.
LEMMA ClientHears ==
    ASSUME NEW c, Formed(c), NEW s, NEW R, NEW S, Agreed(c, s, Mine(c, R), S), NEW rec \in Records, rec \in S,
           rec.epoch # 0 => open_protected(c, rec)
    PROVE  LET d == client_on_message(c, rec).c IN Agreed(d, s, Mine(d, R), S)
<1> DEFINE r == "client"
           msg == rec.msg
           h0 == noted(c, msg)
           d == client_on_message(c, rec).c
           h1 == send_handshake(r, h0, "CH2")
           h2 == arm_flight(h1)
           k1 == derive_handshake_secrets(h0)
           k2 == [k1 EXCEPT !.state = "ClientWaitServerFlight"]
           k3 == clear_flight(k2)
           p1 == [h0 EXCEPT !.peer_key = TRUE]
           f == send_client_flight(h0)
<1>1. r \in Roles /\ msg \in Msgs /\ "CH2" \in Types \ {"data"} /\ "CH2" \notin Proofs
  BY DEF Records, Roles, Types, Proofs
<1>2. \/ d = c
      \/ c.state = "ClientWaitServerHello" /\ (d = h2 \/ d = k3)
      \/ c.state = "ClientWaitServerFlight" /\ (d = h0 \/ d = p1)
      \/ c.state = "ClientWaitServerFlight" /\ msg.type = "Fin" /\ rec.over = c.transcript /\ d = f
  BY DEF client_on_message, handle_hrr, handle_server_hello, handle_server_flight_message, authenticate,
         finished_matches, Ok, Err
<1>3. Formed(h0) /\ h0.connected = c.connected /\ h0.state = c.state /\ h0.out = c.out /\ h0.flight = c.flight
  <2> HIDE DEF msg
  <2>1. Formed(h0)
    BY <1>1, QuietSteps DEF Goes
  <2>2. h0.connected = c.connected /\ h0.state = c.state /\ h0.out = c.out /\ h0.flight = c.flight
    BY <1>1, QuietFields
  <2> QED
    BY <2>1, <2>2
<1>4. CASE d = c
  BY <1>4
<1>5. ASSUME c.state = "ClientWaitServerHello", d = h2 PROVE Agreed(h2, s, Mine(h2, R), S)
  <2> HIDE DEF r, msg, h0
  <2>1. PICK x : Sent(h0, h1, x, "CH2")
    BY <1>1, <1>3, HandshakeSent
  <2>2. Mine(h1, R) = Mine(h0, R) \union {x}
    <3> HIDE DEF h1
    <3> QED
      BY <1>3, <2>1, SentMine
  <2>3. Formed(h1) /\ h1.connected = c.connected /\ h1.state = c.state /\ x.msg.type \notin Proofs
    BY <1>1, <1>3, <2>1 DEF Sent
  <2> HIDE DEF h1
  <2>4. Same(h1, h2) /\ h2.out = h1.out /\ h2.flight = h1.out
    BY <1>1, <2>3, QuietFields
  <2> HIDE DEF h2
  <2>5. Mine(h2, R) \subseteq Mine(c, R) \union {x}
    <3>1. Mine(h2, R) \subseteq Mine(h1, R) /\ Mine(h0, R) \subseteq Mine(c, R)
      BY <1>3, <2>4, QuietMine
    <3> QED
      BY <2>2, <3>1
  <2>6. ~c.connected
    BY <1>5 DEF Agreed
  <2>7. ~h2.connected /\ h2.state # "ClientConnected"
    BY <1>5, <2>3, <2>4, <2>6 DEF Same
  <2>8. \A y \in Mine(h2, R) : y \in Mine(c, R) \/ y.msg.type \notin Proofs
    BY <2>3, <2>5
  <2> QED
    BY <2>6, <2>7, <2>8, ClientStays
<1>6. ASSUME c.state = "ClientWaitServerHello", d = k3 PROVE Agreed(k3, s, Mine(k3, R), S)
  <2> HIDE DEF r, msg, h0
  <2>1. Formed(k1) /\ k1.connected = c.connected /\ k1.out = c.out /\ k1.flight = c.flight
    <3>1. Formed(k1)
      BY <1>1, <1>3, QuietSteps DEF Goes
    <3> QED
      BY <1>1, <1>3, <3>1, QuietFields
  <2> HIDE DEF k1
  <2>2. Formed(k2) /\ k2.connected = c.connected /\ k2.state = "ClientWaitServerFlight" /\ k2.out = c.out /\ k2.flight = c.flight
    <3>1. Formed(k2)
      BY <1>1, <2>1, QuietSteps DEF Goes
    <3> QED
      BY <1>1, <2>1, <3>1, QuietFields
  <2> HIDE DEF k2
  <2>3. Same(k2, k3) /\ k3.out = c.out /\ k3.flight = <<>>
    BY <1>1, <2>2, QuietFields
  <2> HIDE DEF k3
  <2>4. Mine(k3, R) \subseteq Mine(c, R)
    BY <2>3, QuietMine
  <2>5. ~c.connected
    BY <1>6 DEF Agreed
  <2>6. ~k3.connected /\ k3.state # "ClientConnected"
    BY <2>2, <2>3, <2>5 DEF Same
  <2> QED
    BY <2>4, <2>5, <2>6, ClientStays
<1>7. ASSUME c.state = "ClientWaitServerFlight", d = h0 \/ d = p1 PROVE Agreed(d, s, Mine(d, R), S)
  <2> HIDE DEF r, msg, h0
  <2>1. Same(h0, p1) /\ p1.out = h0.out /\ p1.flight = h0.flight
    BY <1>1, <1>3, QuietFields
  <2> HIDE DEF p1
  <2>2. d.connected = c.connected /\ d.state = c.state /\ d.out = c.out /\ d.flight = c.flight
    BY <1>3, <1>7, <2>1 DEF Same
  <2> HIDE DEF d
  <2>3. Mine(d, R) \subseteq Mine(c, R)
    BY <2>2, QuietMine
  <2>4. ~c.connected
    BY <1>7 DEF Agreed
  <2> QED
    BY <1>7, <2>2, <2>3, <2>4, ClientStays
<1>8. ASSUME c.state = "ClientWaitServerFlight", msg.type = "Fin", rec.over = c.transcript, d = f
      PROVE  Agreed(f, s, Mine(f, R), S)
  <2>1. open_protected(c, rec)
    BY <1>8 DEF Agreed
  <2> QED
    BY <1>8, <2>1, ClientConnects
<1>9. Agreed(d, s, Mine(d, R), S)
  <2> HIDE DEF d, h0, h2, k3, p1, f, msg
  <2> QED
    BY <1>2, <1>4, <1>5, <1>6, <1>7, <1>8
<1> QED
  BY <1>9

\* The server's flight.
LEMMA ServerAnswers ==
    ASSUME NEW c, NEW s, Formed(s), NEW C, NEW R, Agreed(c, s, C, Mine(s, R)), NEW msg \in Msgs, s.state \notin Later
    PROVE  LET d == handle_client_hello(s, msg).c IN Agreed(c, d, C, Mine(d, R))
<1> DEFINE r == "server"
           h0 == noted(s, msg)
           g1 == send_handshake(r, h0, "HRR")
           g2 == [g1 EXCEPT !.state = "ServerWaitClientHelloCookie"]
           h1 == send_handshake(r, h0, "SH")
           h2 == derive_handshake_secrets(h1)
           h3 == send_handshake(r, h2, "EE")
           h4 == send_handshake(r, h3, "Cert")
           h5 == send_handshake(r, h4, "CV")
           h6 == send_handshake(r, h5, "Fin")
           h7 == [h6 EXCEPT !.state = "ServerWaitClientFlight"]
           p == IF msg.type = "CH1" THEN g2 ELSE h7
           q == clear_flight(p)
           d == arm_flight(q)
<1>1. handle_client_hello(s, msg).c = d
  BY DEF handle_client_hello, send_server_flight, Ok
<1>2. r \in Roles /\ {"HRR", "SH", "EE", "Cert", "CV", "Fin"} \subseteq Types \ {"data"}
  BY DEF Roles, Types
<1>3. ~s.connected /\ ~c.connected /\ \A x \in Mine(s, R) : x.msg.type # "Fin"
  <2>1. c.connected => s.state \in Later
    <3>1. c.connected => \E B, m1, m2, m3 : Meets(c, s, C, B, m1, m2, m3)
      BY DEF Agreed
    <3>2. \A B, m1, m2, m3 : Meets(c, s, C, B, m1, m2, m3) => s.state \in Later
      BY ZenonT(60) DEF Meets
    <3> QED
      BY <3>1, <3>2
  <2> QED
    BY <2>1 DEF Agreed
<1> HIDE DEF r
\* What holds of the server until it has sent its Finished.
<1> DEFINE Before(e) == /\ Formed(e) /\ ~e.connected
                        /\ \A x \in Mine(e, R) : x.msg.type # "Fin"
<1>4. Before(h0)
  <2>1. Formed(h0)
    BY QuietSteps DEF Goes
  <2>2. h0.connected = s.connected /\ h0.out = s.out /\ h0.flight = s.flight
    BY QuietFields
  <2> HIDE DEF h0
  <2>3. Mine(h0, R) \subseteq Mine(s, R)
    BY <2>2, QuietMine
  <2> QED
    BY <1>3, <2>1, <2>2, <2>3
<1>5. ASSUME NEW e, Before(e), NEW type \in Types \ {"data", "Fin"} PROVE Before(send_handshake(r, e, type))
  <2> DEFINE g == send_handshake(r, e, type)
  <2>1. PICK x : Sent(e, g, x, type)
    BY <1>2, <1>5, HandshakeSent
  <2>2. Mine(g, R) = Mine(e, R) \union {x}
    BY <1>5, <2>1, SentMine
  <2> HIDE DEF g
  <2>3. Before(g)
    BY <1>5, <2>1, <2>2 DEF Sent
  <2> QED
    BY <2>3 DEF g
<1> HIDE DEF h0
<1>6. Before(g1) /\ Before(h1)
  <2> HIDE DEF Before
  <2>1. {"HRR", "SH"} \subseteq Types \ {"data", "Fin"}
    BY DEF Types
  <2> QED
    BY <1>4, <1>5, <2>1
<1> HIDE DEF g1, h1
<1>7. Formed(g2) /\ ~g2.connected /\ g2.state = "ServerWaitClientHelloCookie" /\ \A x \in Mine(g2, R) : x.msg.type # "Fin"
  <2>1. Formed(g2)
    BY <1>6, QuietSteps DEF Goes
  <2>2. g2.connected = g1.connected /\ g2.out = g1.out /\ g2.flight = g1.flight /\ g2.state = "ServerWaitClientHelloCookie"
    BY <1>6, QuietFields
  <2> HIDE DEF g2
  <2>3. Mine(g2, R) \subseteq Mine(g1, R)
    BY <2>2, QuietMine
  <2> QED
    BY <1>6, <2>1, <2>2, <2>3
<1> HIDE DEF g2
<1>8. Before(h2) /\ h2.hs = h1.transcript
  <2>1. Formed(h2)
    BY <1>6, QuietSteps DEF Goes
  <2>2. h2.connected = h1.connected /\ h2.out = h1.out /\ h2.flight = h1.flight /\ h2.hs = h1.transcript
    BY <1>6, QuietFields
  <2> HIDE DEF h2
  <2>3. Mine(h2, R) \subseteq Mine(h1, R)
    BY <2>2, QuietMine
  <2> QED
    BY <1>6, <2>1, <2>2, <2>3
<1>9. h2.hs # None
  <2>1. PICK x : Sent(h0, h1, x, "SH")
    <3>1. Formed(h0)
      BY <1>4
    <3> QED
      BY <1>2, <3>1, HandshakeSent DEF h1
  <2>2. h1.transcript = Append(h0.transcript, x.msg) /\ h0.transcript \in Seq(Msgs) /\ x.msg \in Msgs
    BY <1>4, <2>1 DEF Sent, Formed, Records
  <2>3. h1.transcript # <<>>
    BY <2>2
  <2> QED
    BY <1>8, <2>3 DEF None
<1> HIDE DEF h2
<1>10. ASSUME NEW e, Before(e), e.hs = h2.hs, NEW type \in Types \ {"data", "Fin"}
       PROVE  Before(send_handshake(r, e, type)) /\ send_handshake(r, e, type).hs = h2.hs
  <2>1. PICK x : Sent(e, send_handshake(r, e, type), x, type)
    BY <1>2, <1>10, HandshakeSent
  <2>2. send_handshake(r, e, type).hs = h2.hs
    BY <1>10, <2>1 DEF Sent
  <2> HIDE DEF Before
  <2> QED
    BY <1>5, <1>10, <2>2
<1>11. Before(h5) /\ h5.hs = h2.hs
  <2> HIDE DEF Before
  <2>1. "EE" \in Types \ {"data", "Fin"} /\ "Cert" \in Types \ {"data", "Fin"} /\ "CV" \in Types \ {"data", "Fin"}
    BY DEF Types
  <2>2. Before(h3) /\ h3.hs = h2.hs
    BY <1>8, <1>10, <2>1
  <2> HIDE DEF h3
  <2>3. Before(h4) /\ h4.hs = h2.hs
    BY <1>10, <2>1, <2>2
  <2> HIDE DEF h4
  <2> QED
    BY <1>10, <2>1, <2>3
<1> HIDE DEF h5
<1>12. PICK x : Sent(h5, h6, x, "Fin")
  BY <1>2, <1>11, HandshakeSent
<1>13. Mine(h6, R) = Mine(h5, R) \union {x}
  BY <1>11, <1>12, SentMine
<1>14. /\ x.epoch = 1 /\ x.key = h6.hs /\ h6.transcript = Append(x.over, x.msg)
       /\ Formed(h6) /\ ~h6.connected /\ \A y \in Mine(h6, R) : y.msg.type = "Fin" => y = x
  <2> HIDE DEF h6
  <2>1. x.epoch = 1
    BY <1>9, <1>11, <1>12 DEF Sent, handshake_epoch
  <2> QED
    BY <1>11, <1>12, <1>13, <2>1 DEF Sent, keys
<1> HIDE DEF h6
<1>15. /\ Formed(h7) /\ h7.state = "ServerWaitClientFlight" /\ ~h7.connected /\ h7.hs = h6.hs /\ h7.transcript = h6.transcript
       /\ \A y \in Mine(h7, R) : y.msg.type = "Fin" => y = x
  <2>1. Formed(h7)
    BY <1>14, QuietSteps DEF Goes
  <2>2. /\ h7.connected = h6.connected /\ h7.out = h6.out /\ h7.flight = h6.flight /\ h7.hs = h6.hs
        /\ h7.transcript = h6.transcript /\ h7.state = "ServerWaitClientFlight"
    BY <1>14, QuietFields
  <2> HIDE DEF h7
  <2>3. Mine(h7, R) \subseteq Mine(h6, R)
    BY <2>2, QuietMine
  <2> QED
    BY <1>14, <2>1, <2>2, <2>3
<1> HIDE DEF h7
<1>16. /\ Formed(p) /\ ~p.connected /\ p.state # "ServerConnected"
       /\ \A y \in Mine(p, R) : y.msg.type = "Fin" =>
            p.state \in Later /\ y.epoch = 1 /\ y.key = p.hs /\ p.transcript = Append(y.over, y.msg)
  BY <1>7, <1>14, <1>15 DEF Later
<1> HIDE DEF p
<1>17. Formed(q) /\ Same(p, q) /\ q.out = p.out /\ q.flight = <<>>
  <2>1. Formed(q)
    BY <1>16, QuietSteps DEF Goes
  <2> QED
    BY <1>16, <2>1, QuietFields
<1> HIDE DEF q
<1>18. Same(q, d) /\ d.out = q.out /\ d.flight = q.out
  BY <1>17, QuietFields
<1> HIDE DEF d
<1>19. Mine(d, R) \subseteq Mine(p, R)
  <2>1. Mine(q, R) \subseteq Mine(p, R)
    BY <1>17, QuietMine
  <2>2. Mine(d, R) \subseteq Mine(q, R)
    BY <1>18, QuietMine
  <2> QED
    BY <2>1, <2>2
<1>20. Same(p, d)
  BY <1>17, <1>18 DEF Same
<1>21. Agreed(c, d, C, Mine(d, R))
  BY <1>3, <1>16, <1>19, <1>20 DEF Same, Agreed
<1> QED
  BY <1>1, <1>21

\* The server has read one more message of the client's flight.
LEMMA ServerReads ==
    ASSUME NEW c, NEW s, NEW C, NEW S, Agreed(c, s, C, S), C \subseteq Records,
           NEW rec \in C, rec.msg.type \in Proofs, s.state = "ServerWaitClientFlight",
           NEW g, NEW T, T \subseteq S, g.transcript = Append(s.transcript, rec.msg), g.hs = s.hs,
           \A n \in Nat : Known(s.recv_replay[1], n) => Known(g.recv_replay[1], n),
           \/ /\ rec.msg.type = "Cert" /\ g.state = s.state /\ g.connected = s.connected
              /\ ~Known(s.recv_replay[1], rec.seq) /\ Known(g.recv_replay[1], rec.seq)
           \/ rec.msg.type = "CV" /\ rec.over = s.transcript /\ g.state = s.state /\ g.connected = s.connected
           \/ /\ rec.msg.type = "Fin" /\ rec.over = s.transcript
              /\ g.state = "ServerConnected" /\ g.connected = TRUE /\ g.app = g.transcript
    PROVE  Agreed(c, g, C, T)
<1>1. c.connected /\ ~s.connected /\ c.state = "ClientConnected"
  BY DEF Agreed
<1>2. PICK B \in Seq(Msgs), m1 \in Msgs, m2 \in Msgs, m3 \in Msgs : Meets(c, s, C, B, m1, m2, m3)
  BY <1>1 DEF Agreed
<1> DEFINE B1 == Append(B, m1)
           B2 == Append(B1, m2)
           B3 == Append(B2, m3)
<1>3. /\ s.state \in Later /\ c.hs = s.hs /\ c.transcript = B3 /\ c.app = B3
      /\ \A x \in C : /\ x.msg.type = "Cert" => x.epoch = 1 /\ x.msg = m1
                      /\ x.msg.type = "CV" => x.over = B1 /\ x.msg = m2
                      /\ x.msg.type = "Fin" => x.over = B2 /\ x.msg = m3
      /\ \A x, y \in C : x.msg.type = "Cert" /\ y.msg.type = "Cert" => x.seq = y.seq
      /\ \/ s.transcript = B /\ ~s.connected
         \/ /\ s.transcript = B1 \/ s.transcript = B2
            /\ ~s.connected
            /\ \A x \in C : x.msg.type = "Cert" => Known(s.recv_replay[1], x.seq)
         \/ s.transcript = B3 /\ s.connected /\ s.app = B3
  BY <1>2, Zenon DEF Meets
<1>4. B1 # B /\ B2 # B
  <2>1. Len(B1) = Len(B) + 1 /\ Len(B2) = Len(B) + 2 /\ Len(B) \in Nat
    OBVIOUS
  <2> HIDE DEF B1, B2
  <2> QED
    BY <2>1
<1>5. \A x \in C : x.seq \in Nat
  BY DEF Records
<1>6. g.state \in Later /\ (g.connected <=> g.state = "ServerConnected")
  BY <1>1, <1>3 DEF Later
<1>7. \/ /\ g.transcript = B1 \/ g.transcript = B2
         /\ ~g.connected
         /\ \A x \in C : x.msg.type = "Cert" => Known(g.recv_replay[1], x.seq)
      \/ g.transcript = B3 /\ g.connected /\ g.app = B3
  <2>1. CASE /\ rec.msg.type = "Cert" /\ g.state = s.state /\ g.connected = s.connected
             /\ ~Known(s.recv_replay[1], rec.seq) /\ Known(g.recv_replay[1], rec.seq)
    <3>1. s.transcript = B /\ rec.msg = m1
      BY <1>1, <1>3, <2>1
    <3>2. \A x \in C : x.msg.type = "Cert" => x.seq = rec.seq
      BY <1>3, <2>1
    <3>3. g.transcript = B1
      BY <3>1
    <3> HIDE DEF B1, B2, B3
    <3> QED
      BY <1>1, <2>1, <3>2, <3>3
  <2>2. CASE rec.msg.type = "CV" /\ rec.over = s.transcript /\ g.state = s.state /\ g.connected = s.connected
    <3>1. s.transcript = B1 /\ rec.msg = m2
      BY <1>3, <2>2
    <3>2. g.transcript = B2
      BY <3>1
    <3> HIDE DEF B1, B2, B3
    <3>3. \A x \in C : x.msg.type = "Cert" => Known(s.recv_replay[1], x.seq)
      BY <1>1, <1>3, <1>4, <3>1
    <3> QED
      BY <1>1, <1>5, <2>2, <3>2, <3>3
  <2>3. CASE /\ rec.msg.type = "Fin" /\ rec.over = s.transcript
             /\ g.state = "ServerConnected" /\ g.connected = TRUE /\ g.app = g.transcript
    <3>1. s.transcript = B2 /\ rec.msg = m3
      BY <1>3, <2>3
    <3>2. g.transcript = B3
      BY <3>1
    <3> HIDE DEF B1, B2, B3
    <3> QED
      BY <2>3, <3>2
  <2> QED
    BY <2>1, <2>2, <2>3
<1> HIDE DEF B1, B2, B3
<1>8. /\ g.state \in Later /\ c.hs = g.hs /\ c.transcript = B3 /\ c.app = B3
      /\ \A x \in C : /\ x.msg.type = "Cert" => x.epoch = 1 /\ x.msg = m1
                      /\ x.msg.type = "CV" => x.over = B1 /\ x.msg = m2
                      /\ x.msg.type = "Fin" => x.over = B2 /\ x.msg = m3
      /\ \A x, y \in C : x.msg.type = "Cert" /\ y.msg.type = "Cert" => x.seq = y.seq
  BY <1>3, <1>6
<1>9. Meets(c, g, C, B, m1, m2, m3)
  BY <1>7, <1>8, Zenon DEF Meets, B1, B2, B3
<1> QED
  BY <1>1, <1>6, <1>9 DEF Agreed

\* The server hears a record of the client; d is the server s whose window has taken note of it.
LEMMA ServerHears ==
    ASSUME NEW c, NEW s, NEW C, NEW R, Agreed(c, s, C, Mine(s, R)), C \subseteq Records,
           NEW d, Formed(d), Same(s, d), d.out = s.out, d.flight = s.flight,
           \A n \in Nat : Known(s.recv_replay[1], n) => Known(d.recv_replay[1], n),
           NEW rec \in C,
           rec.epoch = 1 => ~Known(s.recv_replay[1], rec.seq) /\ Known(d.recv_replay[1], rec.seq)
    PROVE  LET g == server_on_message(d, rec).c IN Agreed(c, g, C, Mine(g, R))
<1> DEFINE msg == rec.msg
           h0 == noted(d, msg)
           g == server_on_message(d, rec).c
           p == [h0 EXCEPT !.peer_key = TRUE]
           f1 == derive_app_secrets(h0)
           f2 == [f1 EXCEPT !.connected = TRUE, !.state = "ServerConnected"]
           f3 == clear_flight(f2)
           a == handle_client_hello(d, msg).c
<1>1. msg \in Msgs /\ rec \in Records /\ rec.seq \in Nat
  BY DEF Records
<1>2. \/ g = d
      \/ d.state \notin Later /\ g = a
      \/ /\ d.state = "ServerWaitClientFlight"
         /\ \/ msg.type = "Cert" /\ g = p
            \/ msg.type = "CV" /\ rec.over = d.transcript /\ g = h0
            \/ msg.type = "Fin" /\ rec.over = d.transcript /\ g = f3
  BY DEF server_on_message, handle_client_flight_message, authenticate, finished_matches, verify_cv, Ok, Err, Later
<1>3. Mine(d, R) = Mine(s, R)
  BY DEF Mine
<1>4. Agreed(c, d, C, Mine(d, R))
  <2>1. Same(c, c) /\ \A x \in C : Known(s.recv_replay[1], x.seq) => Known(d.recv_replay[1], x.seq)
    BY DEF Same, Records
  <2> QED
    BY <1>3, <2>1, Unmoved
<1>5. ASSUME d.state \notin Later PROVE Agreed(c, a, C, Mine(a, R))
  <2> HIDE DEF msg
  <2> QED
    BY <1>1, <1>4, <1>5, ServerAnswers
<1>6. /\ Formed(h0) /\ h0.transcript = Append(d.transcript, msg) /\ h0.out = d.out /\ h0.flight = d.flight
      /\ h0.state = d.state /\ h0.connected = d.connected /\ h0.hs = d.hs /\ h0.recv_replay = d.recv_replay
  <2> HIDE DEF msg
  <2>1. Formed(h0)
    BY <1>1, QuietSteps DEF Goes
  <2> QED
    BY <1>1, <2>1, QuietFields, ZenonT(40)
<1> HIDE DEF h0
<1>7. ASSUME d.state = "ServerWaitClientFlight", msg.type = "Cert" PROVE Agreed(c, p, C, Mine(p, R))
  <2>1. /\ p.transcript = h0.transcript /\ p.state = h0.state /\ p.connected = h0.connected /\ p.hs = h0.hs
        /\ p.out = h0.out /\ p.flight = h0.flight /\ p.recv_replay = h0.recv_replay
    <3> HIDE DEF msg
    <3> QED
      BY <1>1, <1>6, QuietFields DEF Same
  <2> HIDE DEF p
  <2>2. Mine(p, R) \subseteq Mine(s, R)
    BY <1>6, <2>1 DEF Mine
  <2>3. rec.epoch = 1
    <3>1. c.connected
      BY <1>7 DEF Agreed, Proofs
    <3>2. PICK B \in Seq(Msgs), m1 \in Msgs, m2 \in Msgs, m3 \in Msgs : Meets(c, s, C, B, m1, m2, m3)
      BY <3>1 DEF Agreed
    <3>3. \A x \in C : x.msg.type = "Cert" => x.epoch = 1
      BY <3>2, Zenon DEF Meets
    <3> QED
      BY <1>7, <3>3
  <2>4. rec.msg.type \in Proofs
    BY <1>7 DEF Proofs
  <2>5. /\ s.state = "ServerWaitClientFlight" /\ p.transcript = Append(s.transcript, rec.msg) /\ p.hs = s.hs
        /\ p.state = s.state /\ p.connected = s.connected /\ p.recv_replay = d.recv_replay
    BY <1>6, <1>7, <2>1 DEF Same
  <2> QED
    BY <1>7, <2>2, <2>3, <2>4, <2>5, ServerReads
<1>8. ASSUME d.state = "ServerWaitClientFlight", msg.type = "CV", rec.over = d.transcript PROVE Agreed(c, h0, C, Mine(h0, R))
  <2>1. Mine(h0, R) \subseteq Mine(s, R)
    BY <1>6 DEF Mine
  <2>2. rec.msg.type \in Proofs
    BY <1>8 DEF Proofs
  <2>3. /\ s.state = "ServerWaitClientFlight" /\ h0.transcript = Append(s.transcript, rec.msg) /\ h0.hs = s.hs
        /\ h0.state = s.state /\ h0.connected = s.connected /\ h0.recv_replay = d.recv_replay /\ rec.over = s.transcript
    BY <1>6, <1>8 DEF Same
  <2> QED
    BY <1>8, <2>1, <2>2, <2>3, ServerReads
<1>9. ASSUME d.state = "ServerWaitClientFlight", msg.type = "Fin", rec.over = d.transcript PROVE Agreed(c, f3, C, Mine(f3, R))
  <2>1. /\ Formed(f1) /\ f1.transcript = h0.transcript /\ f1.app = h0.transcript /\ f1.hs = h0.hs
        /\ f1.out = h0.out /\ f1.flight = h0.flight /\ f1.recv_replay = h0.recv_replay
    <3>1. Formed(f1)
      BY <1>1, <1>6, QuietSteps DEF Goes
    <3> HIDE DEF msg
    <3> QED
      BY <1>1, <1>6, <3>1, QuietFields
  <2> HIDE DEF f1
  <2>2. /\ Formed(f2) /\ f2.transcript = f1.transcript /\ f2.app = f1.app /\ f2.hs = f1.hs
        /\ f2.out = f1.out /\ f2.flight = f1.flight /\ f2.recv_replay = f1.recv_replay
        /\ f2.connected = TRUE /\ f2.state = "ServerConnected"
    <3>1. Formed(f2)
      BY <1>1, <2>1, QuietSteps DEF Goes
    <3> HIDE DEF msg
    <3> QED
      BY <1>1, <2>1, <3>1, QuietFields
  <2> HIDE DEF f2
  <2>3. Same(f2, f3) /\ f3.out = f2.out /\ f3.flight = <<>> /\ f3.recv_replay = f2.recv_replay
    <3> HIDE DEF msg
    <3> QED
      BY <1>1, <2>2, QuietFields
  <2> HIDE DEF f3
  <2>4. Mine(f3, R) \subseteq Mine(s, R)
    <3>1. Mine(f3, R) \subseteq Mine(f2, R)
      BY <2>3, QuietMine
    <3>2. Mine(f2, R) = Mine(s, R)
      BY <1>6, <2>1, <2>2 DEF Mine
    <3> QED
      BY <3>1, <3>2
  <2>5. rec.msg.type \in Proofs
    BY <1>9 DEF Proofs
  <2>6. /\ s.state = "ServerWaitClientFlight" /\ f3.transcript = Append(s.transcript, rec.msg) /\ f3.hs = s.hs
        /\ f3.app = f3.transcript /\ f3.state = "ServerConnected" /\ f3.connected = TRUE
        /\ f3.recv_replay = d.recv_replay /\ rec.over = s.transcript
    BY <1>6, <1>9, <2>1, <2>2, <2>3 DEF Same
  <2> QED
    BY <1>9, <2>4, <2>5, <2>6, ServerReads
<1>10. Agreed(c, g, C, Mine(g, R))
  <2> HIDE DEF g, a, p, f3, msg
  <2>1. CASE g = d
    BY <1>4, <2>1
  <2> QED
    BY <1>2, <2>1, <1>5, <1>7, <1>8, <1>9
<1> QED
  BY <1>10

\* r as a, with the records R of r on the network, agrees with its peer as o and the peer's records O.
Agrees(r, a, o, R, O) ==
    /\ r = "client" => Agreed(a, o, Mine(a, R), O)
    /\ r = "server" => Agreed(o, a, O, Mine(a, R))

\* One more record.
LEMMA RecordAgrees ==
    ASSUME NEW r \in Roles, NEW aligned, NEW acc, Formed(acc.c), DOMAIN acc = {"c", "in", "skip", "stop"},
           NEW o, NEW R, NEW O, O \subseteq Records, Agrees(r, acc.c, o, R, O), NEW rec \in O
    PROVE  Agrees(r, process_record(r, aligned, acc, rec).c, o, R, O)
<1> DEFINE c == acc.c
           e == rec.epoch
           k == check(c.recv_replay[e], rec.seq)
           seen == [c EXCEPT !.recv_replay[e] = k.w]
           told(d) == on_handshake_message(r, d, rec)
           a == process_record(r, aligned, acc, rec)
           full == [seen EXCEPT !.app_inbox = Append(@, rec.msg)]
<1>1. e \in 0 .. 2 /\ rec.seq \in Nat /\ rec.msg \in Msgs /\ rec \in Records
  BY DEF Records
<1>2. \/ a.c = c
      \/ e = 0 /\ a.c = told(c).c
      \/ e # 0 /\ a.c = seen
      \/ e # 0 /\ a.c = full
      \/ e # 0 /\ k.answer = "new" /\ open_protected(seen, rec) /\ a.c = told(seen).c
  <2> DEFINE through == [acc EXCEPT !.in = @ \union {<<rec.epoch, rec.seq>>}]
  <2>1. DOMAIN through = {"c", "in", "skip", "stop"}
    OBVIOUS
  <2>2. \/ a = acc
        \/ a = [acc EXCEPT !.skip = FALSE]
        \/ e = 0 /\ a = [acc EXCEPT !.c = told(c).c, !.stop = told(c).err]
        \/ e # 0 /\ a = [acc EXCEPT !.c = seen, !.skip = aligned, !.stop = ~aligned]
        \/ e # 0 /\ a = [through EXCEPT !.c = seen, !.stop = TRUE]
        \/ e # 0 /\ a = [through EXCEPT !.c = full]
        \/ e # 0 /\ k.answer = "new" /\ open_protected(seen, rec)
           /\ a = [through EXCEPT !.c = told(seen).c, !.stop = told(seen).err]
    BY Zenon DEF process_record, fresh
  <2> HIDE DEF a, c, e, k, seen, told, through, full
  <2>3. a = acc => a.c = c
    BY DEF c
  <2> QED
    BY <2>1, <2>2, <2>3 DEF c
<1>3. ASSUME e # 0
      PROVE  /\ Formed(seen) /\ Same(c, seen) /\ seen.out = c.out /\ seen.flight = c.flight
             /\ Same(c, full) /\ full.out = c.out /\ full.flight = c.flight /\ full.recv_replay = seen.recv_replay
             /\ \A n \in Nat : Known(c.recv_replay[1], n) => Known(seen.recv_replay[1], n)
             /\ k.answer = "new" /\ e = 1 => ~Known(c.recv_replay[1], rec.seq) /\ Known(seen.recv_replay[1], rec.seq)
  <2> DEFINE w == c.recv_replay[e]
             p == [c.recv_replay EXCEPT ![e] = k.w]
             box == Append(c.app_inbox, rec.msg)
  <2>1. e \in 1 .. 2 /\ c.recv_replay \in [1 .. 2 -> ReplayWindow] /\ w \in ReplayWindow
        /\ c.app_inbox \in Seq(Msgs)
    BY <1>1, <1>3 DEF Formed
  <2>2. /\ k.w \in ReplayWindow
        /\ \A n \in Nat : Known(w, n) => Known(k.w, n)
        /\ k.answer = "new" => ~Known(w, rec.seq) /\ Known(k.w, rec.seq)
    BY <1>1, <2>1, CheckKnows
  <2>3. /\ p \in [1 .. 2 -> ReplayWindow]
        /\ p[1] = IF e = 1 THEN k.w ELSE c.recv_replay[1]
        /\ box \in Seq(Msgs)
    BY <1>1, <2>1, <2>2
  <2>4. DOMAIN c = {"state", "transcript", "send_seq", "msg_seq", "hs", "app", "peer_key", "connected", "out", "flight",
                    "armed", "retries", "recv_replay", "app_inbox"}
    BY DEF Formed
  <2>5. seen = [c EXCEPT !.recv_replay = p] /\ full = [c EXCEPT !.recv_replay = p, !.app_inbox = box]
    <3> HIDE DEF c, e, k
    <3> QED
      BY <2>4
  <2>6. Formed(c)
    OBVIOUS
  <2> HIDE DEF c, e, k, w, p, box, seen, full
  <2>7. Formed(seen) /\ Same(c, seen) /\ seen.out = c.out /\ seen.flight = c.flight /\ seen.recv_replay = p
    BY <2>3, <2>4, <2>5, <2>6 DEF Formed, Same
  <2>8. Same(c, full) /\ full.out = c.out /\ full.flight = c.flight /\ full.recv_replay = p
    BY <2>4, <2>5 DEF Same
  <2> QED
    BY <2>2, <2>3, <2>7, <2>8 DEF w
<1>4. Agrees(r, c, o, R, O) /\ Formed(c)
  OBVIOUS
<1>5. \A n \in Nat, x \in O : x.seq \in Nat
  BY DEF Records
<1>6. ASSUME NEW d, Same(c, d), d.out = c.out, d.flight = c.flight,
             \A n \in Nat : Known(c.recv_replay[1], n) => Known(d.recv_replay[1], n)
      PROVE  Agrees(r, d, o, R, O)
  <2> HIDE DEF c
  <2>1. Mine(d, R) = Mine(c, R) /\ Same(o, o)
    BY <1>6 DEF Mine, Same
  <2>2. CASE r = "client"
    <3>1. Agreed(c, o, Mine(c, R), O)
      BY <1>4, <2>2 DEF Agrees
    <3>2. Agreed(d, o, Mine(d, R), O)
      BY <1>6, <2>1, <3>1, Unmoved
    <3> QED
      BY <2>2, <3>2 DEF Agrees
  <2>3. CASE r = "server"
    <3>1. Agreed(o, c, O, Mine(c, R))
      BY <1>4, <2>3 DEF Agrees
    <3>2. \A x \in O : Known(c.recv_replay[1], x.seq) => Known(d.recv_replay[1], x.seq)
      BY <1>5, <1>6
    <3>3. Agreed(o, d, O, Mine(d, R))
      BY <1>6, <2>1, <3>1, <3>2, Unmoved
    <3> QED
      BY <2>3, <3>3 DEF Agrees
  <2> QED
    BY <2>2, <2>3 DEF Roles
<1>7. ASSUME NEW d, Formed(d), Same(c, d), d.out = c.out, d.flight = c.flight,
             \A n \in Nat : Known(c.recv_replay[1], n) => Known(d.recv_replay[1], n),
             e # 0 => open_protected(d, rec),
             e = 1 => ~Known(c.recv_replay[1], rec.seq) /\ Known(d.recv_replay[1], rec.seq)
      PROVE  Agrees(r, told(d).c, o, R, O)
  <2> HIDE DEF c
  <2>1. CASE r = "client"
    <3>1. Agreed(d, o, Mine(d, R), O)
      BY <1>6, <1>7, <2>1 DEF Agrees
    <3>2. told(d) = client_on_message(d, rec)
      BY <2>1 DEF on_handshake_message
    <3> DEFINE g == client_on_message(d, rec).c
    <3>3. Agreed(g, o, Mine(g, R), O)
      BY <1>1, <1>7, <3>1, ClientHears
    <3> QED
      BY <2>1, <3>2, <3>3 DEF Agrees
  <2>2. CASE r = "server"
    <3>1. Agreed(o, c, O, Mine(c, R))
      BY <1>4, <2>2 DEF Agrees
    <3>2. told(d) = server_on_message(d, rec)
      BY <2>2 DEF on_handshake_message
    <3> DEFINE g == server_on_message(d, rec).c
    <3>3. Agreed(o, g, O, Mine(g, R))
      BY <1>7, <3>1, ServerHears
    <3> QED
      BY <2>2, <3>2, <3>3 DEF Agrees
  <2> QED
    BY <2>1, <2>2 DEF Roles
<1>8. e = 0 => Agrees(r, told(c).c, o, R, O)
  <2>1. Same(c, c)
    BY DEF Same
  <2> HIDE DEF c, told
  <2> QED
    BY <1>4, <1>7, <2>1
<1>9. e # 0 /\ k.answer = "new" /\ open_protected(seen, rec) => Agrees(r, told(seen).c, o, R, O)
  <2> HIDE DEF c, told, seen
  <2> QED
    BY <1>3, <1>7
<1>10. e # 0 => Agrees(r, seen, o, R, O) /\ Agrees(r, full, o, R, O)
  <2> HIDE DEF c, seen, full
  <2> QED
    BY <1>3, <1>6
<1>11. Agrees(r, a.c, o, R, O)
  <2> HIDE DEF a, c, e, k, told, seen, full
  <2> QED
    BY <1>2, <1>4, <1>8, <1>9, <1>10
<1> QED
  BY <1>11

\* A whole datagram of the peer's records.
LEMMA DatagramAgrees ==
    ASSUME NEW r \in Roles, NEW aligned, NEW R, NEW rd \in Seq(Msgs), NEW s \in Nat,
           Formed(conn[r]), Sealed(r, conn[r], R), Once(r, rd \o conn[r].app_inbox, s, conn[r].recv_replay[2]),
           NEW o, NEW O, O \subseteq Records, Agrees(r, conn[r], o, R, O),
           NEW d \in Seq(Records),
           \A i \in 1 .. Len(d) : d[i] \in O /\ Numbered(Peer(r), d[i]) /\ (d[i].epoch = 2 => d[i].seq < s)
    PROVE  Agrees(r, process_datagram(r, aligned, d).c, o, R, O)
<1> DEFINE N == Len(d)
           after == CHOOSE g : Loops(g, r, aligned, d, N)
           Begin == Opening(r)
<1>1. process_datagram(r, aligned, d) = after[N]
  BY DEF process_datagram, Loops, Opening
<1>2. N \in Nat
  OBVIOUS
<1>3. Loops(after, r, aligned, d, N)
  BY <1>2, LoopsExist
<1> HIDE DEF after, N
<1>4. after[0] = Begin /\ \A n \in 1 .. N : after[n] = process_record(r, aligned, after[n - 1], d[n])
  <2>1. after[0] = Begin
    BY <1>2, <1>3, LoopsOn
  <2>2. ASSUME NEW n \in 1 .. N PROVE after[n] = process_record(r, aligned, after[n - 1], d[n])
    BY <1>2, <1>3, LoopsOn
  <2> QED
    BY <2>1, <2>2
<1> DEFINE T == {n \in 0 .. N : Reading(r, conn[r], after[n], R, rd, s) /\ Agrees(r, after[n].c, o, R, O)}
<1>5. 0 \in T
  <2>1. DOMAIN Begin = {"c", "in", "skip", "stop"} /\ Begin.c = conn[r]
    BY DEF Opening
  <2> HIDE DEF Begin
  <2>2. Reading(r, conn[r], Begin, R, rd, s) /\ Agrees(r, Begin.c, o, R, O)
    BY <2>1 DEF Reading, Further
  <2> QED
    BY <1>2, <1>4, <2>2
<1>6. ASSUME NEW n \in 0 .. N, n \in T, n < N PROVE n + 1 \in T
  <2>1. n + 1 \in 1 .. N /\ n + 1 \in 0 .. N /\ (n + 1) - 1 = n
    BY <1>2, <1>6
  <2>2. after[n + 1] = process_record(r, aligned, after[n], d[n + 1])
    BY <1>4, <2>1
  <2>3. /\ d[n + 1] \in Records /\ d[n + 1] \in O
        /\ Numbered(Peer(r), d[n + 1]) /\ (d[n + 1].epoch = 2 => d[n + 1].seq < s)
    BY <2>1 DEF N
  <2>4. Reading(r, conn[r], after[n + 1], R, rd, s)
    BY <1>6, <2>2, <2>3, RecordRead
  <2>5. Formed(after[n].c) /\ DOMAIN after[n] = {"c", "in", "skip", "stop"}
    BY <1>6 DEF Reading
  <2>6. Agrees(r, after[n + 1].c, o, R, O)
    BY <1>6, <2>2, <2>3, <2>5, RecordAgrees
  <2> QED
    BY <2>1, <2>4, <2>6
<1> HIDE DEF T
<1>7. N \in T
  BY <1>2, <1>5, <1>6, Reaches
<1> QED
  BY <1>1, <1>7 DEF T

\* Agreement of a side whose messages and keys stay as they are.
LEMMA AgreesStill ==
    ASSUME NEW r \in Roles, NEW c, NEW o, NEW R, NEW O, Agrees(r, c, o, R, O),
           NEW d, Same(c, d), d.recv_replay = c.recv_replay,
           NEW Q, \A x \in Mine(d, Q) : x \in Mine(c, R) \/ x.msg.type \notin Proofs,
           NEW P, P \subseteq O
    PROVE  Agrees(r, d, o, Q, P)
<1>1. Same(o, o)
  BY DEF Same
<1>2. CASE r = "client"
  <2>1. Agreed(c, o, Mine(c, R), O)
    BY <1>2 DEF Agrees
  <2>2. Agreed(d, o, Mine(d, Q), P)
    BY <1>1, <2>1, Unmoved
  <2> QED
    BY <1>2, <2>2 DEF Agrees
<1>3. CASE r = "server"
  <2>1. Agreed(o, c, O, Mine(c, R))
    BY <1>3 DEF Agrees
  <2>2. Agreed(o, d, P, Mine(d, Q))
    BY <1>1, <2>1, Unmoved
  <2> QED
    BY <1>3, <2>2 DEF Agrees
<1> QED
  BY <1>2, <1>3 DEF Roles

\* The records of r that may still be read.
Live(r) == Mine(conn[r], Carried(net[Peer(r)]))

\* The two sides agree.
AgreeInv == RecordInv /\ Agreed(conn["client"], conn["server"], Live("client"), Live("server"))

\* The same from the side of r.
LEMMA AgreeSides ==
    ASSUME AgreeInv, NEW r \in Roles
    PROVE  /\ Agrees(r, conn[r], conn[Peer(r)], Carried(net[Peer(r)]), Live(Peer(r)))
           /\ Live(Peer(r)) = Mine(conn[Peer(r)], Carried(net[r])) /\ Live(Peer(r)) \subseteq Records
           /\ Peer(r) \in Roles /\ Peer(r) # r /\ Peer(Peer(r)) = r
<1>1. Peer(r) \in Roles /\ Peer(r) # r /\ Peer(Peer(r)) = r
  BY DEF Roles, Peer
<1>2. Live(Peer(r)) = Mine(conn[Peer(r)], Carried(net[r]))
  BY <1>1 DEF Live
<1>3. Sealed(Peer(r), conn[Peer(r)], Carried(net[r]))
  BY <1>1 DEF AgreeInv, RecordInv
<1>4. Agrees(r, conn[r], conn[Peer(r)], Carried(net[Peer(r)]), Live(Peer(r)))
  <2>1. Live(r) = Mine(conn[r], Carried(net[Peer(r)]))
    BY DEF Live
  <2>2. r = "client" => Peer(r) = "server"
    BY DEF Peer
  <2>3. r = "server" => Peer(r) = "client"
    BY DEF Peer
  <2> QED
    BY <2>1, <2>2, <2>3 DEF Agrees, AgreeInv
<1> QED
  BY <1>1, <1>2, <1>3, <1>4 DEF Sealed

\* A step of one side.
LEMMA AgreeMoves ==
    ASSUME AgreeInv, RecordInv', NEW r \in Roles, NEW d, conn' = [conn EXCEPT ![r] = d],
           Agrees(r, d, conn[Peer(r)], Carried(net'[Peer(r)]), Mine(conn[Peer(r)], Carried(net'[r])))
    PROVE  AgreeInv'
<1>1. Peer(r) \in Roles /\ Peer(r) # r /\ Peer(Peer(r)) = r
  BY DEF Roles, Peer
<1>2. conn'[r] = d /\ conn'[Peer(r)] = conn[Peer(r)]
  BY <1>1 DEF AgreeInv, RecordInv
<1>3. Live(r)' = Mine(d, Carried(net'[Peer(r)])) /\ Live(Peer(r))' = Mine(conn[Peer(r)], Carried(net'[r]))
  BY <1>1, <1>2 DEF Live, Mine, Carried
<1>4. CASE r = "client"
  <2>1. Peer(r) = "server"
    BY <1>4 DEF Peer
  <2>2. Agreed(conn'["client"], conn'["server"], Live("client")', Live("server")')
    BY <1>2, <1>3, <1>4, <2>1 DEF Agrees
  <2> QED
    BY <2>2 DEF AgreeInv, Agreed, Meets, Known, Remembered
<1>5. CASE r = "server"
  <2>1. Peer(r) = "client"
    BY <1>5 DEF Peer
  <2>2. Agreed(conn'["client"], conn'["server"], Live("client")', Live("server")')
    BY <1>2, <1>3, <1>5, <2>1 DEF Agrees
  <2> QED
    BY <2>2 DEF AgreeInv, Agreed, Meets, Known, Remembered
<1> QED
  BY <1>4, <1>5 DEF Roles

\* A prefix of a transcript.
LEMMA PrefixOfMore ==
    ASSUME NEW B \in Seq(Msgs), NEW t \in Seq(Msgs), IsPrefix(t, B), NEW m \in Msgs
    PROVE  IsPrefix(t, Append(B, m)) /\ IsPrefix(Append(B, m), Append(B, m)) /\ Append(B, m) \in Seq(Msgs)
<1> DEFINE A == Append(B, m)
<1>1. A \in Seq(Msgs) /\ Len(A) = Len(B) + 1 /\ \A i \in 1 .. Len(B) : A[i] = B[i]
  OBVIOUS
<1>2. Len(t) <= Len(B) /\ SubSeq(t, 1, Len(t)) = SubSeq(B, 1, Len(t))
  BY DEF IsPrefix
<1> HIDE DEF A
<1>3. SubSeq(A, 1, Len(t)) = SubSeq(B, 1, Len(t))
  BY <1>1, <1>2
<1>4. IsPrefix(t, A) /\ IsPrefix(A, A)
  BY <1>1, <1>2, <1>3 DEF IsPrefix
<1> QED
  BY <1>1, <1>4 DEF A

\* The invariant gives the property.
LEMMA AgreeInvSuffices == AgreeInv => Agreement
<1> SUFFICES ASSUME AgreeInv PROVE Agreement
  OBVIOUS
<1> DEFINE c == conn["client"]
           s == conn["server"]
<1>1. Agreed(c, s, Live("client"), Live("server"))
  BY DEF AgreeInv
<1>2. s.connected => c.connected
  BY <1>1 DEF Agreed
<1>3. ASSUME c.connected
      PROVE  /\ c.hs = s.hs /\ IsPrefix(s.transcript, c.transcript)
             /\ s.connected => s.app = c.app /\ s.transcript = c.transcript
  <2>1. PICK B \in Seq(Msgs), m1 \in Msgs, m2 \in Msgs, m3 \in Msgs : Meets(c, s, Live("client"), B, m1, m2, m3)
    BY <1>1, <1>3 DEF Agreed
  <2> DEFINE B1 == Append(B, m1)
             B2 == Append(B1, m2)
             B3 == Append(B2, m3)
  <2>2. /\ c.hs = s.hs /\ c.transcript = B3 /\ c.app = B3
        /\ \/ s.transcript = B /\ ~s.connected
           \/ (s.transcript = B1 \/ s.transcript = B2) /\ ~s.connected
           \/ s.transcript = B3 /\ s.connected /\ s.app = B3
    BY <2>1, Zenon DEF Meets
  <2>3. IsPrefix(B, B)
    BY DEF IsPrefix
  <2>4. IsPrefix(B, B1) /\ IsPrefix(B1, B1) /\ B1 \in Seq(Msgs)
    BY <2>3, PrefixOfMore
  <2> HIDE DEF B1
  <2>5. IsPrefix(B, B2) /\ IsPrefix(B1, B2) /\ IsPrefix(B2, B2) /\ B2 \in Seq(Msgs)
    BY <2>4, PrefixOfMore
  <2> HIDE DEF B2
  <2>6. IsPrefix(B, B3) /\ IsPrefix(B1, B3) /\ IsPrefix(B2, B3) /\ IsPrefix(B3, B3)
    BY <2>4, <2>5, PrefixOfMore
  <2> HIDE DEF B3
  <2> QED
    BY <2>2, <2>6
<1> QED
  BY <1>2, <1>3 DEF Agreement

\* A side whose messages and keys stay as they are, and that sends none of its flight.
LEMMA AgreeStays ==
    ASSUME AgreeInv, RecordInv', NEW r \in Roles, NEW d, conn' = [conn EXCEPT ![r] = d],
           Same(conn[r], d), d.recv_replay = conn[r].recv_replay,
           \A x \in Mine(d, Carried(net'[Peer(r)])) : x \in Live(r) \/ x.msg.type \notin Proofs,
           Carried(net'[r]) \subseteq Carried(net[r])
    PROVE  AgreeInv'
<1> DEFINE q == Peer(r)
<1>1. /\ Agrees(r, conn[r], conn[q], Carried(net[q]), Live(q)) /\ Live(q) = Mine(conn[q], Carried(net[r]))
      /\ Live(r) = Mine(conn[r], Carried(net[q]))
  BY AgreeSides DEF Live
<1>2. Mine(conn[q], Carried(net'[r])) \subseteq Live(q)
  BY <1>1 DEF Mine
<1>3. Agrees(r, d, conn[q], Carried(net'[q]), Mine(conn[q], Carried(net'[r])))
  <2> DEFINE Q == Carried(net'[q])
             P == Mine(conn[q], Carried(net'[r]))
  <2>1. \A x \in Mine(d, Q) : x \in Mine(conn[r], Carried(net[q])) \/ x.msg.type \notin Proofs
    BY <1>1
  <2>2. P \subseteq Live(q)
    BY <1>2
  <2> HIDE DEF Q, P, q
  <2>3. Agrees(r, d, conn[q], Q, P)
    BY <1>1, <2>1, <2>2, AgreesStill
  <2> QED
    BY <2>3 DEF Q, P
<1> QED
  BY <1>3, AgreeMoves

\* The client begins: it is not connected, and its ClientHello is not of its flight.
LEMMA StartAgrees == AgreeInv /\ Start => AgreeInv'
<1> SUFFICES ASSUME AgreeInv, Start PROVE AgreeInv'
  OBVIOUS
<1> DEFINE r == "client"
           c == conn[r]
           d == [c EXCEPT !.state = "ClientWaitServerHello"]
           e == send_handshake(r, d, "CH1")
           f == arm_flight(e)
           R == Carried(net["server"])
           msg == [from |-> r, type |-> "CH1", n |-> 0]
<1>1. conn' = [conn EXCEPT ![r] = f] /\ net' = net /\ c.state = "ClientStart"
  BY DEF Start
<1>2. r \in Roles /\ "CH1" \in Types \ {"data"} /\ "CH1" \notin Proofs /\ msg \in Msgs /\ Peer(r) = "server"
  BY DEF Roles, Types, Msgs, Proofs, Peer
<1>3. RecordInv'
  BY StartKeeps DEF AgreeInv
<1> HIDE DEF r, msg
<1>4. Formed(c) /\ Agreed(c, conn["server"], Mine(c, R), Live("server"))
  BY <1>2 DEF AgreeInv, RecordInv, Live, r
<1> HIDE DEF c
<1>5. ~c.connected
  BY <1>1, <1>4 DEF Agreed
<1>6. Formed(d) /\ d.state = "ClientWaitServerHello" /\ d.connected = c.connected /\ d.out = c.out /\ d.flight = c.flight
  <2>1. Formed(d)
    BY <1>2, <1>4, QuietSteps DEF Goes
  <2> QED
    BY <1>2, <1>4, <2>1, QuietFields
<1> HIDE DEF d
<1>7. PICK x : Sent(d, e, x, "CH1")
  BY <1>2, <1>6, HandshakeSent
<1> HIDE DEF e
<1>8. Formed(e) /\ e.state = d.state /\ e.connected = d.connected /\ Mine(e, R) = Mine(d, R) \union {x} /\ x.msg.type = "CH1"
  <2>1. Mine(e, R) = Mine(d, R) \union {x}
    BY <1>6, <1>7, SentMine
  <2> QED
    BY <1>7, <2>1 DEF Sent
<1>9. Same(e, f) /\ f.out = e.out /\ f.flight = e.out
  BY <1>2, <1>8, QuietFields
<1> HIDE DEF f
<1>10. \A y \in Mine(f, R) : y \in Mine(c, R) \/ y.msg.type \notin Proofs
  <2>1. Mine(f, R) \subseteq Mine(e, R) /\ Mine(d, R) \subseteq Mine(c, R)
    BY <1>6, <1>9, QuietMine
  <2> QED
    BY <1>2, <1>8, <2>1
<1>11. ~f.connected /\ f.state # "ClientConnected"
  BY <1>5, <1>6, <1>8, <1>9 DEF Same
<1>12. Agreed(f, conn["server"], Mine(f, R), Live("server"))
  BY <1>4, <1>5, <1>10, <1>11, ClientStays
<1>13. Live("server") = Mine(conn[Peer(r)], Carried(net[r]))
  BY DEF Live, Peer, r
<1>14. Agrees(r, f, conn[Peer(r)], Carried(net'[Peer(r)]), Mine(conn[Peer(r)], Carried(net'[r])))
  <2>1. Agrees(r, f, conn["server"], R, Live("server"))
    BY <1>12 DEF Agrees, r
  <2> QED
    BY <1>1, <1>2, <1>13, <2>1
<1> QED
  BY <1>1, <1>2, <1>3, <1>14, AgreeMoves

\* A retransmission.
LEMMA TickAgrees == ASSUME AgreeInv, NEW r \in Roles, Tick(r) PROVE AgreeInv'
<1> DEFINE c == conn[r]
           both == c.out \o c.flight
           d == IF c.retries < MaxRetries
                THEN [c EXCEPT !.retries = @ + 1, !.out = both]
                ELSE [c EXCEPT !.retries = @ + 1, !.armed = FALSE]
<1>1. Formed(c) /\ RecordInv /\ RecordInv'
  BY TickKeeps DEF AgreeInv, RecordInv
<1>2. conn' = [conn EXCEPT ![r] = d] /\ net' = net
  BY <1>1 DEF Tick, Formed
<1>3. Range(both) = Range(c.out) \union Range(c.flight)
  BY <1>1, Ranges DEF Formed
<1>4. /\ Same(c, d) /\ d.recv_replay = c.recv_replay /\ d.flight = c.flight
      /\ d.out = c.out \/ d.out = both
  <2> HIDE DEF both, c
  <2>1. CASE c.retries < MaxRetries
    <3> DEFINE n == c.retries + 1
    <3>1. d = [c EXCEPT !.retries = n, !.out = both]
      BY <2>1
    <3> HIDE DEF n, d
    <3> QED
      BY <1>1, <3>1 DEF Formed, Same
  <2>2. CASE ~(c.retries < MaxRetries)
    <3> DEFINE n == c.retries + 1
    <3>1. d = [c EXCEPT !.retries = n, !.armed = FALSE]
      BY <2>2
    <3> HIDE DEF n, d
    <3> QED
      BY <1>1, <3>1 DEF Formed, Same
  <2> QED
    BY <2>1, <2>2
<1> HIDE DEF both, d
<1>5. Mine(d, Carried(net'[Peer(r)])) \subseteq Live(r)
  BY <1>2, <1>3, <1>4 DEF Mine, Live
<1> QED
  BY <1>1, <1>2, <1>4, <1>5, AgreeStays

\* Application data.
LEMMA SendAgrees == ASSUME AgreeInv, NEW r \in Roles, send_app_data(r) PROVE AgreeInv'
<1> DEFINE c == conn[r]
           msg == [from |-> r, type |-> "data", n |-> c.send_seq[2]]
           x == [epoch |-> 2, seq |-> c.send_seq[2], key |-> keys(c, 2), msg |-> msg, over |-> c.transcript]
           seqs == [c.send_seq EXCEPT ![2] = @ + 1]
           out == Append(c.out, x)
           d == [c EXCEPT !.send_seq = seqs, !.out = out]
<1>1. Formed(c) /\ DOMAIN conn = Roles /\ RecordInv'
  BY SendKeeps DEF AgreeInv, RecordInv
<1>2. conn' = [conn EXCEPT ![r] = d] /\ net' = net
  <2>1. conn' = [conn EXCEPT ![r] = encrypt(r, c, 2, msg)] /\ net' = net
    BY <1>1 DEF send_app_data
  <2>2. DOMAIN c = {"state", "transcript", "send_seq", "msg_seq", "hs", "app", "peer_key", "connected", "out", "flight",
                    "armed", "retries", "recv_replay", "app_inbox"}
    BY <1>1 DEF Formed
  <2>3. encrypt(r, c, 2, msg) = d
    <3> HIDE DEF c, msg
    <3> QED
      BY <2>2 DEF encrypt
  <2> QED
    BY <2>1, <2>3
<1>3. x \in Records /\ x.msg.type = "data" /\ "data" \notin Proofs
  <2>1. msg \in Msgs
    BY <1>1 DEF Msgs, Types, Formed
  <2>2. keys(c, 2) \in Seq(Msgs)
    BY <1>1 DEF keys, Formed
  <2>3. x.msg.type = "data"
    OBVIOUS
  <2> HIDE DEF msg
  <2> QED
    BY <1>1, <2>1, <2>2, <2>3 DEF Records, Formed, Proofs
<1> HIDE DEF x
<1>4. Range(out) = Range(c.out) \union {x}
  BY <1>1, <1>3, Ranges DEF Formed
<1>5. Same(c, d) /\ d.recv_replay = c.recv_replay /\ d.flight = c.flight /\ d.out = out
  <2> HIDE DEF seqs, out
  <2> QED
    BY <1>1 DEF Formed, Same
<1> HIDE DEF out, d
<1>6. \A y \in Mine(d, Carried(net'[Peer(r)])) : y \in Live(r) \/ y.msg.type \notin Proofs
  BY <1>2, <1>3, <1>4, <1>5 DEF Mine, Live
<1> QED
  BY <1>1, <1>2, <1>5, <1>6, AgreeStays

\* The application reads.
LEMMA RecvAgrees == ASSUME AgreeInv, NEW r \in Roles, recv_app_data(r) PROVE AgreeInv'
<1> DEFINE c == conn[r]
           t == Tail(c.app_inbox)
           d == [c EXCEPT !.app_inbox = t]
<1>1. Formed(c) /\ DOMAIN conn = Roles /\ RecordInv'
  BY RecvKeeps DEF AgreeInv, RecordInv
<1>2. conn' = [conn EXCEPT ![r] = d] /\ net' = net
  BY <1>1 DEF recv_app_data
<1>3. Same(c, d) /\ d.recv_replay = c.recv_replay /\ d.out = c.out /\ d.flight = c.flight
  <2> HIDE DEF t
  <2> QED
    BY <1>1 DEF Formed, Same
<1> HIDE DEF d
<1>4. Mine(d, Carried(net'[Peer(r)])) \subseteq Live(r)
  BY <1>2, <1>3 DEF Mine, Live
<1> QED
  BY <1>1, <1>2, <1>3, <1>4, AgreeStays

\* A datagram leaves.
LEMMA TakeOutputAgrees == ASSUME AgreeInv, NEW r \in Roles, TakeOutput(r) PROVE AgreeInv'
<1> DEFINE c == conn[r]
           q == Peer(r)
           d == [c EXCEPT !.out = <<>>]
<1>1. Formed(c) /\ DOMAIN conn = Roles /\ net \in [Roles -> Seq(Seq(Records))] /\ RecordInv'
  BY TakeOutputKeeps DEF AgreeInv, RecordInv
<1>2. q \in Roles /\ q # r
  BY DEF Roles, Peer
<1>3. /\ conn' = [conn EXCEPT ![r] = d]
      /\ net' = [net EXCEPT ![q] = Append(net[q], c.out)] \/ net' = net
  BY <1>1, <1>2 DEF TakeOutput
<1>4. Same(c, d) /\ d.recv_replay = c.recv_replay /\ d.out = <<>> /\ d.flight = c.flight
  BY <1>1 DEF Formed, Same
<1>5. c.out \in Seq(Records) /\ net[q] \in Seq(Seq(Records))
  BY <1>1, <1>2 DEF Formed
<1> HIDE DEF c, d, q
<1>6. net'[r] = net[r] /\ (net'[q] = net[q] \/ net'[q] = Append(net[q], c.out))
  <2> DEFINE u == Append(net[q], c.out)
  <2> HIDE DEF u
  <2>1. net' = [net EXCEPT ![q] = u] \/ net' = net
    BY <1>3 DEF u
  <2>2. net'[r] = net[r] /\ (net'[q] = net[q] \/ net'[q] = u)
    BY <1>1, <1>2, <2>1
  <2> QED
    BY <2>2 DEF u
<1>7. Range(net'[q]) \subseteq Range(net[q]) \union {c.out}
  <2>1. Range(Append(net[q], c.out)) = Range(net[q]) \union {c.out}
    BY <1>5, Ranges
  <2> QED
    BY <1>6, <2>1
<1>8. Carried(net'[q]) \subseteq Carried(net[q]) \union Range(c.out)
  BY <1>7 DEF Carried
<1>9. Range(d.out) = {}
  BY <1>4, Ranges
<1>10. Mine(d, Carried(net'[q])) \subseteq Live(r)
  BY <1>4, <1>8, <1>9 DEF Mine, Live, c, q
<1> QED
  BY <1>1, <1>3, <1>4, <1>6, <1>10, AgreeStays DEF c, q

\* A datagram of the peer is read.
LEMMA ReceiveAgrees == ASSUME AgreeInv, NEW r \in Roles, Receive(r) PROVE AgreeInv'
<1> DEFINE c == conn[r]
           q == Peer(r)
           s == conn[q].send_seq[2]
           R == Carried(net[q])
           O == Live(q)
<1>1. /\ Formed(c) /\ Sealed(r, c, R) /\ DOMAIN conn = Roles
      /\ net \in [Roles -> Seq(Seq(Records))] /\ read[r] \in Seq(Msgs)
      /\ Once(r, read[r] \o c.app_inbox, s, c.recv_replay[2])
  BY DEF AgreeInv, RecordInv
<1>2. q \in Roles /\ q # r /\ O = Mine(conn[q], Carried(net[r])) /\ O \subseteq Records /\ Agrees(r, c, conn[q], R, O)
  BY AgreeSides
<1>3. s \in Nat /\ Sealed(q, conn[q], Carried(net[r]))
  <2>1. RecordInv /\ Peer(q) = r
    BY AgreeSides DEF AgreeInv
  <2> QED
    BY <1>2, <2>1 DEF RecordInv, Formed
<1>4. RecordInv'
  BY ReceiveKeeps DEF AgreeInv
<1>5. PICK i \in 1 .. Len(net[r]), aligned \in BOOLEAN, copy \in BOOLEAN :
        /\ conn' = [conn EXCEPT ![r] = process_datagram(r, aligned, net[r][i]).c]
        /\ net' = [net EXCEPT ![r] = IF copy THEN @ ELSE RemoveAt(@, i)]
  BY DEF Receive
<1> DEFINE dg == net[r][i]
           d == process_datagram(r, aligned, dg).c
<1>6. net[r] \in Seq(Seq(Records)) /\ dg \in Seq(Records)
  BY <1>1
<1>7. ASSUME NEW j \in 1 .. Len(dg)
      PROVE  dg[j] \in O /\ Numbered(q, dg[j]) /\ (dg[j].epoch = 2 => dg[j].seq < s)
  <2> HIDE DEF dg, q
  <2>1. dg[j] \in Range(dg) /\ dg \in Range(net[r])
    BY <1>6, Ranges DEF dg
  <2>2. dg[j] \in Mine(conn[q], Carried(net[r]))
    BY <2>1 DEF Mine, Carried
  <2> QED
    BY <1>2, <1>3, <2>2 DEF Sealed, q
<1>8. Agrees(r, d, conn[q], R, O)
  <2> HIDE DEF s, q, dg, R, O
  <2> QED
    BY <1>1, <1>2, <1>3, <1>6, <1>7, DatagramAgrees DEF q
<1>9. conn' = [conn EXCEPT ![r] = d]
  BY <1>5
<1> HIDE DEF d, dg
<1>10. net'[q] = net[q] /\ Carried(net'[r]) \subseteq Carried(net[r])
  BY <1>1, <1>2, <1>5, Leaves
<1>11. Agrees(r, d, conn[q], Carried(net'[q]), Mine(conn[q], Carried(net'[r])))
  <2> DEFINE P == Mine(conn[q], Carried(net'[r]))
  <2>1. P \subseteq O
    BY <1>2, <1>10 DEF Mine
  <2>2. Same(d, d)
    BY DEF Same
  <2> HIDE DEF P, q, O
  <2>3. Agrees(r, d, conn[q], R, P)
    BY <1>8, <2>1, <2>2, AgreesStill
  <2> QED
    BY <1>10, <2>3 DEF P
<1> QED
  BY <1>4, <1>9, <1>11, AgreeMoves

\* At the start there is nothing to agree on.
LEMMA AgreeInit == Init => AgreeInv
<1> SUFFICES ASSUME Init PROVE AgreeInv
  OBVIOUS
<1> DEFINE c == conn["client"]
           s == conn["server"]
<1>1. /\ ~c.connected /\ ~s.connected /\ c.state = "ClientStart" /\ s.state = "ServerWaitClientHello"
      /\ c.out = <<>> /\ c.flight = <<>> /\ s.out = <<>> /\ s.flight = <<>>
      /\ net["client"] = <<>> /\ net["server"] = <<>>
  BY DEF Init, blank, Roles, None
<1>2. Carried(<<>>) = {} /\ Range(<<>>) = {}
  BY Ranges DEF Carried
<1> HIDE DEF c, s
<1>3. Mine(c, Carried(net["server"])) = {} /\ Mine(s, Carried(net["client"])) = {}
  BY <1>1, <1>2 DEF Mine
<1>4. Agreed(c, s, {}, {})
  BY <1>1 DEF Agreed
<1>5. Live("client") = {} /\ Live("server") = {}
  BY <1>3 DEF Live, Peer, c, s
<1> QED
  BY <1>4, <1>5, RecordInit DEF AgreeInv, c, s

\* The two sides agree whatever is lost, repeated or reordered, for every number of retries, every replay
\* window and every choice of trusted certificates: a connected client shares the handshake keys with the
\* server and its transcript extends the server's, and a server that connects (handle_client_flight_message)
\* has a connected client with the same transcript and the same application keys.
THEOREM TheSidesAgree == Spec => []Agreement
<1>1. AgreeInv /\ [Next]_vars => AgreeInv'
  <2> SUFFICES ASSUME AgreeInv, [Next]_vars PROVE AgreeInv'
    OBVIOUS
  <2>1. CASE UNCHANGED vars
    <3>1. RecordInv'
      BY <2>1 DEF vars, AgreeInv, RecordInv, Carried
    <3>2. conn' = conn /\ net' = net
      BY <2>1 DEF vars
    <3>3. Live("client")' = Live("client") /\ Live("server")' = Live("server")
      BY <3>2 DEF Live, Mine, Carried
    <3>4. Agreed(conn'["client"], conn'["server"], Live("client")', Live("server")')
      BY <3>2, <3>3 DEF AgreeInv
    <3> QED
      BY <3>1, <3>4 DEF AgreeInv, Agreed, Meets, Known, Remembered
  <2>2. ASSUME NEW r \in Roles, TakeOutput(r) \/ Receive(r) \/ Tick(r) \/ recv_app_data(r) \/ send_app_data(r)
        PROVE  AgreeInv'
    BY <2>2, TakeOutputAgrees, ReceiveAgrees, TickAgrees, RecvAgrees, SendAgrees
  <2> QED
    BY <2>1, <2>2, StartAgrees DEF Next, Drive
<1> QED
  BY <1>1, AgreeInit, AgreeInvSuffices, PTL DEF Spec
=============================================================================
