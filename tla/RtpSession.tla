----------------------------- MODULE RtpSession -----------------------------
(***************************************************************************)
(* tpt-rtp: what a receiver learns of one stream of RTP packets that are   *)
(* lost, repeated and overtaken on the way, while their sequence numbers   *)
(* turn over.  The stream numbers its packets 0, 1, 2, ...; the wire       *)
(* carries the number modulo RTP_SEQ_MOD.                                  *)
(*                                                                         *)
(* SessionStatistics keeps such a record for every source; sources do not  *)
(* share state, and one of them is modelled.  The difference between the   *)
(* arrival and the timestamp of a packet is one of Transits.               *)
(***************************************************************************)
EXTENDS Integers, FiniteSets, FiniteSetTheorems, TLAPS

CONSTANTS RTP_SEQ_MOD, MAX_DROPOUT, U32,
          Starts,        \* where the stream may begin: its first sequence number
          MaxPackets,    \* packets of the stream
          MaxFlight,     \* packets on the way at a time
          Transits, Spread,
          SenderReports  \* <<ntp_mid, dlsr>>

ASSUME RtpAssumption ==
    /\ RTP_SEQ_MOD \in Nat /\ MAX_DROPOUT \in 1 .. RTP_SEQ_MOD
    /\ Starts \subseteq 0 .. RTP_SEQ_MOD - 1 /\ MaxPackets \in Nat
    /\ U32 \in Nat /\ MaxPackets + 2 * RTP_SEQ_MOD <= U32
    /\ Transits \subseteq Int /\ Spread \in Nat /\ \A a, b \in Transits : a - b <= Spread

VARIABLES start, sent, flight, stats, arrived, first, overtaken
rtpVars == <<start, sent, flight, stats, arrived, first, overtaken>>

-----------------------------------------------------------------------------
ReceiverStats_new ==
    [init |-> FALSE, base_seq |-> 0, prev_seq |-> 0, cycles |-> 0, max_seq_ext |-> 0, received |-> 0,
     jitter |-> 0, prev_transit |-> 0, has_prev_transit |-> FALSE, last_expected |-> 0, last_lost |-> 0, sr |-> <<0, 0>>]
\* Mutant: a sequence number below the last one is always a new cycle.
update_seq_NoMisorder(s, seq) ==
    LET cycles == IF seq < s.prev_seq THEN s.cycles + RTP_SEQ_MOD ELSE s.cycles
    IN  IF ~s.init THEN [s EXCEPT !.init = TRUE, !.base_seq = seq, !.prev_seq = seq, !.max_seq_ext = seq, !.received = 1]
        ELSE IF seq = s.prev_seq THEN s
        ELSE [s EXCEPT !.cycles = cycles, !.max_seq_ext = cycles + seq, !.received = @ + 1, !.prev_seq = seq]
\* A number a little ahead of the last one is an advance, over a turn if it is the smaller one.  One that is far ahead is
\* one behind: it is ignored, however far (both branches on MAX_MISORDER do nothing).
update_seq(s, seq) ==
    LET udelta == (seq - s.prev_seq) % RTP_SEQ_MOD
        cycles == IF seq < s.prev_seq THEN s.cycles + RTP_SEQ_MOD ELSE s.cycles
    IN  IF ~s.init THEN [s EXCEPT !.init = TRUE, !.base_seq = seq, !.prev_seq = seq, !.max_seq_ext = seq, !.received = 1]
        ELSE IF udelta = 0 \/ udelta >= MAX_DROPOUT THEN s
        ELSE [s EXCEPT !.cycles = cycles, !.max_seq_ext = cycles + seq, !.received = @ + 1, !.prev_seq = seq]

abs(n) == IF n < 0 THEN -n ELSE n
\* Division that drops the fraction, towards zero.
Quotient(a, b) == IF a < 0 THEN -((-a) \div b) ELSE a \div b
update_jitter(s, transit) ==
    [s EXCEPT !.jitter = IF s.has_prev_transit THEN @ + Quotient(abs(transit - s.prev_transit) - @, 16) ELSE @,
              !.prev_transit = transit, !.has_prev_transit = TRUE]
update(s, seq, transit) == update_jitter(update_seq(s, seq), transit)

expected(s) == IF s.init THEN s.max_seq_ext - s.base_seq + 1 ELSE 0
cumulative_lost(s) == expected(s) - s.received
\* The 256ths lost since the last report.
fraction_lost(s) ==
    LET exp_interval == IF expected(s) > s.last_expected THEN expected(s) - s.last_expected ELSE 0
        lost_interval == IF cumulative_lost(s) > s.last_lost THEN cumulative_lost(s) - s.last_lost ELSE 0
        fraction == IF exp_interval = 0 THEN 0 ELSE (lost_interval * 256) \div exp_interval
    IN  IF fraction > 255 THEN 255 ELSE fraction
\* What fraction_lost leaves behind.
interval_closed(s) == [s EXCEPT !.last_expected = expected(s), !.last_lost = cumulative_lost(s)]
Clamp(n, high) == IF n < 0 THEN 0 ELSE IF n > high THEN high ELSE n
build_reception_report(s) ==
    [fraction_lost |-> fraction_lost(s), cumulative_lost |-> Clamp(cumulative_lost(s), 16777215), extended_seq |-> s.max_seq_ext,
     interarrival_jitter |-> IF s.jitter < 0 THEN 0 ELSE s.jitter, last_sr |-> s.sr[1], delay_since_last_sr |-> s.sr[2]]
note_sender_report(s, sr) == [s EXCEPT !.sr = sr]

-----------------------------------------------------------------------------
RtpInit ==
    /\ start \in Starts /\ sent = start /\ flight = {} /\ stats = ReceiverStats_new /\ arrived = {} /\ first = -1 /\ overtaken = 0
SendPacket ==
    /\ sent < start + MaxPackets /\ Cardinality(flight) < MaxFlight
    /\ sent' = sent + 1 /\ flight' = flight \union {sent}
    /\ UNCHANGED <<start, stats, arrived, first, overtaken>>
LosePacket(n) == flight' = flight \ {n} /\ UNCHANGED <<start, sent, stats, arrived, first, overtaken>>
Highest == CHOOSE n \in arrived : \A other \in arrived : other <= n
\* A packet arrives, and may arrive again.  Of the network: fewer than MAX_DROPOUT packets in a row are lost, and no packet
\* is overtaken by so many that its number means a later one.
Arrive(n, transit) ==
    /\ arrived # {} => Highest - n <= RTP_SEQ_MOD - MAX_DROPOUT /\ n - Highest < MAX_DROPOUT
    /\ flight' \in {flight, flight \ {n}}
    /\ stats' = update(stats, n % RTP_SEQ_MOD, transit)
    /\ arrived' = arrived \union {n}
    /\ first' = IF arrived = {} THEN n ELSE first
    /\ overtaken' = IF arrived # {} /\ n \notin arrived /\ first <= n /\ n < Highest THEN overtaken + 1 ELSE overtaken
    /\ UNCHANGED <<start, sent>>
\* The report itself is what build_reception_report says in the state before.
Report == stats.init /\ stats' = interval_closed(stats) /\ UNCHANGED <<start, sent, flight, arrived, first, overtaken>>
NoteSenderReport(sr) ==
    stats.init /\ stats' = note_sender_report(stats, sr) /\ UNCHANGED <<start, sent, flight, arrived, first, overtaken>>
RtpNext ==
    \/ SendPacket \/ Report
    \/ \E n \in flight : LosePacket(n) \/ \E t \in Transits : Arrive(n, t)
    \/ \E sr \in SenderReports : NoteSenderReport(sr)
RtpSpec == RtpInit /\ [][RtpNext]_rtpVars

\* Packets between the first and the highest one that did not arrive.
Missing == {n \in first .. Highest : n \notin arrived}
\* A report at any time tells the true highest sequence number over every turn of the sequence space, and for losses the
\* packets that did not arrive, with those that others overtook; a fraction is reported only of losses; the jitter is
\* within the spread of the transit times.  Nothing outgrows its 32 bits.
ReportsTrue ==
    stats.init =>
        LET report == build_reception_report(stats)
        IN  /\ report.extended_seq = (first % RTP_SEQ_MOD) + (Highest - first) /\ report.extended_seq < U32
            /\ report.cumulative_lost = Clamp(Cardinality(Missing) + overtaken, 16777215)
            /\ report.fraction_lost > 0 => Cardinality(Missing) + overtaken > 0
            /\ report.fraction_lost \in 0 .. 255 /\ report.interarrival_jitter \in 0 .. Spread

-----------------------------------------------------------------------------
(***************************************************************************)
(* tpt-rtp: the time between the reports of one participant, and how it is *)
(* reconsidered.  The floating-point numbers of the code are rational      *)
(* numbers <<numerator, denominator>>.                                     *)
(***************************************************************************)
AtLeast(n, least) == IF n < least THEN least ELSE n
Times(x, y) == <<x[1] * y[1], x[2] * y[2]>>
Plus(n, x) == <<n * x[2] + x[1], x[2]>>
Leq(x, y) == x[1] * y[2] <= y[1] * x[2]

\* Five of a hundred of the bandwidth; sizes in octets, times in seconds.
DEFAULT_RTCP_FRACTION == <<1, 20>>
DEFAULT_MIN_INTERVAL == 5
DEFAULT_AVG_RTCP_SIZE == 128
RtcpScheduler_new(bandwidth) ==
    [session_bandwidth |-> bandwidth, members |-> 1, senders |-> 0, we_sent |-> FALSE, initial |-> TRUE,
     avg_rtcp_size |-> DEFAULT_AVG_RTCP_SIZE, min_interval |-> DEFAULT_MIN_INTERVAL, random_factor |-> <<1, 1>>]
rtcp_bandwidth(s) == Times(<<s.session_bandwidth, 1>>, DEFAULT_RTCP_FRACTION)
set_members(s, n) == [s EXCEPT !.members = AtLeast(n, 1)]
set_senders(s, n) == [s EXCEPT !.senders = n]
set_we_sent(s, b) == [s EXCEPT !.we_sent = b]
set_avg_rtcp_size(s, n) == [s EXCEPT !.avg_rtcp_size = AtLeast(n, 1)]
set_min_interval(s, n) == [s EXCEPT !.min_interval = AtLeast(n, 0)]
set_random_factor(s, f) == [s EXCEPT !.random_factor = f]
mark_sent(s) == [s EXCEPT !.initial = FALSE]

\* The first report comes after half of the least interval.  Then a quarter of the bandwidth is the senders', three
\* quarters are for everybody else; the share is divided among those it is for.
interval(s) ==
    LET sending == s.senders > 0 /\ s.we_sent
        bw == Times(rtcp_bandwidth(s), <<IF sending THEN 1 ELSE 3, 4>>)
        n == IF sending THEN s.senders ELSE s.members
    IN  Times(IF s.initial THEN <<s.min_interval, 2>> ELSE <<n * s.avg_rtcp_size * bw[2], bw[1]>>, s.random_factor)
next_time(s, now) == Plus(now, interval(s))
forward_reconsideration(s, now) == next_time(mark_sent(s), now)
\* The time of the next report, due at tn, once members have left at tc.
reverse_reconsideration(s, tc, tn, new_members) ==
    LET new == AtLeast(new_members, 1)
        old == AtLeast(s.members, 1)
    IN  IF new >= old \/ tn - tc <= 0 THEN <<tn, 1>> ELSE Plus(tc, <<new * (tn - tc), old>>)

-----------------------------------------------------------------------------
ReportSamples ==
    {<<"budget", n, k, bw>> : n \in 0 .. 4, k \in 0 .. 4, bw \in {20, 60}} \union {<<"leave", n, k, t>> : n \in 0 .. 4, k \in 0 .. 4, t \in -1 .. 3}
Session(x, we_sent) ==
    mark_sent(set_we_sent(set_senders(set_avg_rtcp_size(set_members(RtcpScheduler_new(x[4]), x[2]), 0), x[3]), we_sent))
\* Octets of reports in a second.
Rate(s) == LET t == interval(s) IN <<s.avg_rtcp_size * t[2], t[1]>>
\* The reports of all members together stay within their share of the bandwidth; a departure never delays a report, nor
\* sends it at once.
ReportsScheduled(x) ==
    CASE x[1] = "budget" ->
            LET senders == Rate(Session(x, TRUE))
                others == Rate(Session(x, FALSE))
            IN  x[3] <= x[2] => Leq(<<x[3] * senders[1] * others[2] + (x[2] - x[3]) * others[1] * senders[2], senders[2] * others[2]>>,
                                    rtcp_bandwidth(Session(x, TRUE)))
      [] x[1] = "leave" ->
            LET t == reverse_reconsideration(set_members(RtcpScheduler_new(1), x[2]), 0, x[4], x[3])
            IN  Leq(t, <<x[4], 1>>) /\ (x[4] > 0 => t[1] > 0)

-----------------------------------------------------------------------------
(***************************************************************************)
(* The reports of tpt-rtp/src/session.rs are true for every size of the    *)
(* sequence space and every tolerated dropout, in particular for the 16    *)
(* bits and the 3000 packets of the code.                                  *)
(***************************************************************************)
-----------------------------------------------------------------------------
(* Sequence numbers modulo the size of their space. *)

\* The sequence number space and the dropout within it.
LEMMA Space == RTP_SEQ_MOD \in Nat \ {0} /\ MAX_DROPOUT \in 1 .. RTP_SEQ_MOD
  BY RtpAssumption

\* Quotient and remainder of a number.
LEMMA Divided ==
    ASSUME NEW x \in Nat
    PROVE  /\ x \div RTP_SEQ_MOD \in Nat /\ x % RTP_SEQ_MOD \in 0 .. RTP_SEQ_MOD - 1
           /\ x = RTP_SEQ_MOD * (x \div RTP_SEQ_MOD) + (x % RTP_SEQ_MOD)
  BY Space

\* A remainder is the only one.
LEMMA Remainder ==
    ASSUME NEW k \in Int, NEW r \in 0 .. RTP_SEQ_MOD - 1
    PROVE  (RTP_SEQ_MOD * k + r) % RTP_SEQ_MOD = r
  BY Space

\* A multiple that is smaller than the size is none.
LEMMA NoMultiple ==
    ASSUME NEW k \in Int, RTP_SEQ_MOD * k < RTP_SEQ_MOD, RTP_SEQ_MOD * k > -RTP_SEQ_MOD
    PROVE  k = 0
  <1> USE Space
  <1>1. ASSUME k >= 1 PROVE FALSE
    <2>1. RTP_SEQ_MOD * k = RTP_SEQ_MOD + RTP_SEQ_MOD * (k - 1)
      OBVIOUS
    <2>2. RTP_SEQ_MOD * (k - 1) >= 0
      BY <1>1
    <2> QED BY <2>1, <2>2
  <1>2. ASSUME k <= -1 PROVE FALSE
    <2>1. RTP_SEQ_MOD * k = -RTP_SEQ_MOD - RTP_SEQ_MOD * (-k - 1)
      OBVIOUS
    <2>2. RTP_SEQ_MOD * (-k - 1) >= 0
      BY <1>2
    <2> QED BY <2>1, <2>2
  <1> QED BY <1>1, <1>2

\* What udelta of update_seq is for two packets n and h of a stream, and when the number of n is below that of h.
LEMMA Distance ==
    ASSUME NEW n \in Nat, NEW h \in Nat
    PROVE  LET a == n % RTP_SEQ_MOD
               b == h % RTP_SEQ_MOD
               M == RTP_SEQ_MOD
           IN  /\ a \in 0 .. M - 1 /\ b \in 0 .. M - 1
               /\ n - h \in 0 .. M - 1 => (a - b) % M = n - h
               /\ h - n \in 1 .. M - 1 => (a - b) % M = M - (h - n)
               /\ n - h \in 0 .. M - 1 => (n - a) - (h - b) = IF a < b THEN M ELSE 0
  <1> USE Space
  <1> DEFINE M == RTP_SEQ_MOD
             a == n % M
             b == h % M
             q == n \div M
             p == h \div M
  <1>1. a \in 0 .. M - 1 /\ b \in 0 .. M - 1 /\ q \in Nat /\ p \in Nat /\ n = M * q + a /\ h = M * p + b
    BY Divided
  <1> HIDE DEF a, b, q, p
  <1>2. a - b = M * (p - q) + (n - h) /\ p - q \in Int
    BY <1>1
  <1>3. ASSUME n - h \in 0 .. M - 1 PROVE (a - b) % M = n - h
    <2>1. (M * (p - q) + (n - h)) % M = n - h
      BY <1>2, <1>3, Remainder
    <2> QED BY <2>1, <1>2
  <1>4. ASSUME h - n \in 1 .. M - 1 PROVE (a - b) % M = M - (h - n)
    <2>1. M * (p - q) + (n - h) = M * (p - q - 1) + (M - (h - n))
      BY <1>1
    <2>2. M - (h - n) \in 0 .. M - 1 /\ p - q - 1 \in Int
      BY <1>1, <1>4
    <2>3. (M * (p - q - 1) + (M - (h - n))) % M = M - (h - n)
      BY <2>2, Remainder
    <2> QED BY <2>1, <2>3, <1>2
  <1>5. ASSUME n - h \in 0 .. M - 1 PROVE (n - a) - (h - b) = IF a < b THEN M ELSE 0
    <2>1. (n - a) - (h - b) = M * (q - p)
      BY <1>1
    <2>2. CASE a < b
      <3>1. M * (q - p) = M + M * (q - p - 1) /\ q - p - 1 \in Int
        BY <1>1
      <3>2. M * (q - p) >= 2 - M + M - 1 /\ M * (q - p) < 2 * M
        BY <1>1, <1>5, <2>1, <2>2
      <3>3. M * (q - p - 1) < M /\ M * (q - p - 1) > -M
        BY <3>1, <3>2, <1>1
      <3>4. q - p - 1 = 0
        BY <3>1, <3>3, NoMultiple
      <3>5. M * (q - p) = M
        BY <3>1, <3>4
      <3> QED BY <2>1, <2>2, <3>5
    <2>3. CASE ~(a < b)
      <3>1. M * (q - p) < M /\ M * (q - p) > -M
        BY <1>1, <1>5, <2>1, <2>3
      <3>2. q - p = 0
        BY <3>1, <1>1, NoMultiple
      <3>3. M * (q - p) = 0
        BY <3>2
      <3> QED BY <2>1, <2>3, <3>3
    <2> QED BY <2>2, <2>3
  <1> QED BY <1>1, <1>3, <1>4, <1>5 DEF a, b

-----------------------------------------------------------------------------
(* The packets that arrived. *)

\* The highest packet of a set that has one.
LEMMA HighestOf ==
    ASSUME NEW S \in SUBSET Int, NEW h \in S, \A other \in S : other <= h
    PROVE  (CHOOSE n \in S : \A other \in S : other <= n) = h
  <1> DEFINE P(n) == n \in S /\ \A other \in S : other <= n
  <1>1. P(h)
    OBVIOUS
  <1>2. \A n \in S : P(n) => n = h
    OBVIOUS
  <1> QED BY <1>1, <1>2

\* Packets ahead of all others: those passed over are missing.
LEMMA MissingAhead ==
    ASSUME NEW S \in SUBSET Int, NEW f \in S, NEW h \in S, NEW n \in Int, n > h, \A other \in S : other <= h
    PROVE  Cardinality({x \in f .. n : x \notin S \union {n}}) = Cardinality({x \in f .. h : x \notin S}) + (n - h - 1)
  <1> DEFINE A == {x \in f .. h : x \notin S}
             B == h + 1 .. n - 1
  <1>1. {x \in f .. n : x \notin S \union {n}} = A \union B /\ A \cap B = {}
    OBVIOUS
  <1>2. IsFiniteSet(B) /\ Cardinality(B) = n - h - 1
    BY FS_Interval
  <1>3. IsFiniteSet(f .. h) /\ A \in SUBSET (f .. h)
    BY FS_Interval
  <1>4. IsFiniteSet(A) /\ Cardinality(A) \in Nat
    BY <1>3, FS_Subset, FS_CardinalityType
  <1> HIDE DEF A, B
  <1>5. Cardinality(A \union B) = Cardinality(A) + Cardinality(B) - Cardinality(A \cap B)
    BY <1>2, <1>4, FS_Union
  <1>6. Cardinality(A \cap B) = 0
    BY <1>1, FS_EmptySet
  <1>7. Cardinality(A \union B) = Cardinality(A) + (n - h - 1)
    BY <1>2, <1>4, <1>5, <1>6
  <1> QED BY <1>1, <1>7 DEF A

\* A packet behind the highest one: it is missing no longer.
LEMMA MissingBehind ==
    ASSUME NEW S \in SUBSET Int, NEW f \in S, NEW h \in S, NEW n \in Int, n <= h
    PROVE  Cardinality({x \in f .. h : x \notin S \union {n}}) =
             Cardinality({x \in f .. h : x \notin S}) - (IF n \notin S /\ f <= n THEN 1 ELSE 0)
  <1> DEFINE A == {x \in f .. h : x \notin S}
  <1>1. {x \in f .. h : x \notin S \union {n}} = A \ {n}
    OBVIOUS
  <1>2. n \in A <=> n \notin S /\ f <= n
    OBVIOUS
  <1>3. IsFiniteSet(f .. h) /\ A \in SUBSET (f .. h)
    BY FS_Interval
  <1>4. IsFiniteSet(A) /\ Cardinality(A) \in Nat
    BY <1>3, FS_Subset, FS_CardinalityType
  <1> HIDE DEF A
  <1>5. Cardinality(A \ {n}) = IF n \in A THEN Cardinality(A) - 1 ELSE Cardinality(A)
    BY <1>4, FS_RemoveElement
  <1> QED BY <1>1, <1>2, <1>4, <1>5 DEF A

-----------------------------------------------------------------------------
(* The inductive invariant. *)

SrType == SenderReports \union {<<0, 0>>}
StatsType ==
    [init : BOOLEAN, base_seq : Int, prev_seq : Int, cycles : Int, max_seq_ext : Int, received : Int, jitter : Int,
     prev_transit : Int, has_prev_transit : BOOLEAN, last_expected : Int, last_lost : Int, sr : SrType]

RtpTypeOK ==
    /\ start \in Starts /\ sent \in start .. start + MaxPackets
    /\ flight \subseteq start .. sent - 1 /\ arrived \subseteq start .. sent - 1
    /\ stats \in StatsType /\ first \in Int /\ overtaken \in Nat

\* The jitter is a mean of differences of transit times.
JitterMean ==
    /\ stats.jitter \in 0 .. Spread
    /\ stats.has_prev_transit => stats.prev_transit \in Transits

\* Before the first packet nothing is counted.
Untouched == stats.cycles = 0 /\ stats.last_lost = 0 /\ overtaken = 0

\* What the numbers of the record mean of the packets that arrived, h the highest of them: the last number is that of h,
\* the cycles are the turns between the first packet and h, and every packet from the first to h was counted, is missing,
\* or came too late to be counted.
Tracked(h) ==
    /\ h \in arrived /\ \A other \in arrived : other <= h
    /\ first \in arrived
    /\ stats.base_seq = first % RTP_SEQ_MOD /\ stats.prev_seq = h % RTP_SEQ_MOD
    /\ stats.cycles = (h - stats.prev_seq) - (first - stats.base_seq)
    /\ stats.max_seq_ext = stats.base_seq + (h - first)
    /\ stats.received + Cardinality({n \in first .. h : n \notin arrived}) + overtaken = h - first + 1
    /\ stats.last_lost >= 0

RtpInv ==
    /\ RtpTypeOK /\ JitterMean
    /\ stats.init <=> arrived # {}
    /\ ~stats.init => Untouched
    /\ stats.init => \E h \in arrived : Tracked(h)


-----------------------------------------------------------------------------
(* The operations on the record. *)

\* update_jitter keeps the mean within the spread, and leaves what update_seq keeps.
LEMMA JitterUpdated ==
    ASSUME NEW s \in StatsType, NEW t \in Transits, s.jitter \in 0 .. Spread,
           s.has_prev_transit => s.prev_transit \in Transits
    PROVE  LET u == update_jitter(s, t)
           IN  /\ u \in StatsType /\ u.jitter \in 0 .. Spread /\ u.prev_transit \in Transits
               /\ u.init = s.init /\ u.base_seq = s.base_seq /\ u.prev_seq = s.prev_seq /\ u.cycles = s.cycles
               /\ u.max_seq_ext = s.max_seq_ext /\ u.received = s.received /\ u.last_lost = s.last_lost
  <1> USE RtpAssumption
  <1> DEFINE d == abs(t - s.prev_transit)
             j == IF s.has_prev_transit THEN s.jitter + Quotient(d - s.jitter, 16) ELSE s.jitter
  <1>1. j \in 0 .. Spread
    <2>1. CASE s.has_prev_transit
      <3>1. t \in Int /\ s.prev_transit \in Int /\ t - s.prev_transit <= Spread /\ s.prev_transit - t <= Spread
        BY <2>1
      <3>2. d \in 0 .. Spread
        BY <3>1 DEF abs
      <3>3. ASSUME d - s.jitter < 0
            PROVE  Quotient(d - s.jitter, 16) <= 0 /\ Quotient(d - s.jitter, 16) >= d - s.jitter /\ Quotient(d - s.jitter, 16) \in Int
        <4> DEFINE x == s.jitter - d
        <4>1. x \in Nat /\ -(d - s.jitter) = x
          BY <3>2, <3>3
        <4> HIDE DEF x, d
        <4>2. x \div 16 \in 0 .. x
          BY <4>1
        <4>3. Quotient(d - s.jitter, 16) = -(x \div 16)
          BY <3>3, <4>1 DEF Quotient
        <4>4. d - s.jitter = -x /\ -(x \div 16) >= -x /\ -(x \div 16) <= 0 /\ -(x \div 16) \in Int
          <5>1. d - s.jitter = -x
            BY <3>2, <3>3 DEF x, StatsType
          <5> QED BY <5>1, <4>1, <4>2
        <4> QED BY <4>3, <4>4
      <3>4. ASSUME ~(d - s.jitter < 0)
            PROVE  Quotient(d - s.jitter, 16) >= 0 /\ Quotient(d - s.jitter, 16) <= d - s.jitter /\ Quotient(d - s.jitter, 16) \in Int
        <4> HIDE DEF d
        <4>1. d - s.jitter \in Nat
          BY <3>2, <3>4
        <4>2. (d - s.jitter) \div 16 \in 0 .. d - s.jitter
          BY <4>1
        <4> QED BY <3>4, <4>1, <4>2 DEF Quotient
      <3> HIDE DEF d
      <3>5. s.jitter + Quotient(d - s.jitter, 16) \in 0 .. Spread
        BY <3>2, <3>3, <3>4
      <3> QED BY <2>1, <3>5
    <2>2. CASE ~s.has_prev_transit
      BY <2>2
    <2> QED BY <2>1, <2>2
  <1>2. update_jitter(s, t) = [s EXCEPT !.jitter = j, !.prev_transit = t, !.has_prev_transit = TRUE]
    BY DEF update_jitter
  <1> HIDE DEF j
  <1>3. t \in Int /\ j \in Int
    BY <1>1
  <1> QED BY <1>1, <1>2, <1>3, ZenonT(40) DEF StatsType

\* What update_seq leaves to others.
SameRest(s, u) ==
    /\ u.jitter = s.jitter /\ u.has_prev_transit = s.has_prev_transit /\ u.prev_transit = s.prev_transit
    /\ u.last_lost = s.last_lost

\* The first packet.
LEMMA FirstCounted ==
    ASSUME NEW s \in StatsType, NEW seq \in Int, ~s.init
    PROVE  LET u == update_seq(s, seq)
           IN  /\ u \in StatsType /\ u.init /\ SameRest(s, u)
               /\ u.base_seq = seq /\ u.prev_seq = seq /\ u.max_seq_ext = seq /\ u.received = 1 /\ u.cycles = s.cycles
  <1> DEFINE u == update_seq(s, seq)
  <1>1. u = [s EXCEPT !.init = TRUE, !.base_seq = seq, !.prev_seq = seq, !.max_seq_ext = seq, !.received = 1]
    BY DEF update_seq
  <1> HIDE DEF u
  <1>2. u.base_seq = seq /\ u.prev_seq = seq /\ u.max_seq_ext = seq /\ u.received = 1 /\ u.cycles = s.cycles
    BY <1>1 DEF StatsType
  <1>a. u \in StatsType
    <2> DEFINE v == [s EXCEPT !.init = TRUE]
    <2>1. v \in StatsType
      BY Zenon DEF StatsType
    <2>2. PICK one \in Int : one = 1
      OBVIOUS
    <2>3. u = [v EXCEPT !.base_seq = seq, !.prev_seq = seq, !.max_seq_ext = seq, !.received = one]
      BY <1>1, <2>2
    <2> HIDE DEF v
    <2> QED BY <2>1, <2>3 DEF StatsType
  <1>3. u.init = TRUE
    BY <1>1 DEF StatsType
  <1>4. SameRest(s, u)
    BY <1>1 DEF StatsType, SameRest
  <1> QED BY <1>2, <1>3, <1>4, <1>a DEF u

\* Where a packet n stands to the last one that was counted, h.
At(s, h) == s.init /\ s.prev_seq = h % RTP_SEQ_MOD
Ahead(n, h) == n > h /\ n - h < MAX_DROPOUT
Behind(n, h) == n <= h /\ h - n <= RTP_SEQ_MOD - MAX_DROPOUT

\* A packet ahead of the last one by less than MAX_DROPOUT is counted, and a turn with it.
Counted(s, u, n, h) ==
    /\ u.prev_seq = n % RTP_SEQ_MOD /\ u.base_seq = s.base_seq /\ u.received = s.received + 1
    /\ u.cycles = s.cycles + ((n - u.prev_seq) - (h - s.prev_seq)) /\ u.max_seq_ext = u.cycles + u.prev_seq
\* A packet ahead of the greatest number is counted.
LEMMA AheadCounted ==
    ASSUME NEW s \in StatsType, NEW n \in Nat, NEW h \in Nat, Ahead(n, h), At(s, h)
    PROVE  LET u == update_seq(s, n % RTP_SEQ_MOD)
           IN  u \in StatsType /\ u.init /\ SameRest(s, u) /\ Counted(s, u, n, h)
  <1> DEFINE seq == n % RTP_SEQ_MOD
             b == h % RTP_SEQ_MOD
             c == s.cycles + ((n - seq) - (h - b))
             u == update_seq(s, seq)
  <1>1. n - h \in 1 .. MAX_DROPOUT - 1 /\ n - h \in 0 .. RTP_SEQ_MOD - 1 /\ MAX_DROPOUT \in Nat
    BY Space DEF Ahead
  <1>2. /\ seq \in Int /\ b \in Int /\ (seq - b) % RTP_SEQ_MOD = n - h
        /\ (n - seq) - (h - b) = IF seq < b THEN RTP_SEQ_MOD ELSE 0
    BY <1>1, Distance
  <1>3. s.prev_seq = b /\ s.init
    BY DEF At
  <1> HIDE DEF seq, b
  <1>4. c \in Int /\ c = IF seq < s.prev_seq THEN s.cycles + RTP_SEQ_MOD ELSE s.cycles
    BY <1>2, <1>3, Space DEF StatsType
  <1> HIDE DEF c
  <1>5. (seq - s.prev_seq) % RTP_SEQ_MOD # 0 /\ ~((seq - s.prev_seq) % RTP_SEQ_MOD >= MAX_DROPOUT)
    BY <1>1, <1>2, <1>3
  <1>6. u = [s EXCEPT !.cycles = c, !.max_seq_ext = c + seq, !.received = s.received + 1, !.prev_seq = seq]
    BY <1>3, <1>4, <1>5 DEF update_seq
  <1> HIDE DEF u
  <1>a. c + seq \in Int /\ s.received + 1 \in Int
    BY <1>2, <1>4 DEF StatsType
  <1>b. u \in StatsType
    BY <1>2, <1>4, <1>6, <1>a DEF StatsType
  <1>7. /\ u.prev_seq = seq /\ u.base_seq = s.base_seq /\ u.received = s.received + 1
        /\ u.cycles = c /\ u.max_seq_ext = c + seq
    BY <1>2, <1>4, <1>6 DEF StatsType
  <1>8. u.init = s.init
    BY <1>6 DEF StatsType
  <1>9. SameRest(s, u)
    BY <1>6 DEF StatsType, SameRest
  <1>10. Counted(s, u, n, h)
    BY <1>3, <1>7 DEF Counted, c, seq
  <1> QED BY <1>3, <1>b, <1>8, <1>9, <1>10 DEF u, seq

\* The last packet again, or one behind it, is not counted.
LEMMA BehindIgnored ==
    ASSUME NEW s \in StatsType, NEW n \in Nat, NEW h \in Nat, Behind(n, h), At(s, h)
    PROVE  update_seq(s, n % RTP_SEQ_MOD) = s
  <1> USE DEF Behind, At
  <1> DEFINE udelta == ((n % RTP_SEQ_MOD) - (h % RTP_SEQ_MOD)) % RTP_SEQ_MOD
  <1>1. CASE n = h
    <2>1. n - h = 0 /\ n - h \in 0 .. RTP_SEQ_MOD - 1
      BY <1>1, Space
    <2>2. udelta = 0
      BY <2>1, Distance
    <2> QED BY <2>2 DEF update_seq
  <1>2. CASE n # h
    <2>1. h - n \in 1 .. RTP_SEQ_MOD - 1
      BY <1>2, Space
    <2>2. udelta = RTP_SEQ_MOD - (h - n)
      BY <2>1, Distance
    <2>3. udelta >= MAX_DROPOUT
      BY <2>1, <2>2, Space
    <2> QED BY <2>3 DEF update_seq
  <1> QED BY <1>1, <1>2


-----------------------------------------------------------------------------
(* The steps. *)

\* The invariant holds at the start.
LEMMA RtpInitial == RtpInit => RtpInv
  BY RtpAssumption DEF RtpInit, RtpInv, RtpTypeOK, JitterMean, Untouched, StatsType, SrType, ReceiverStats_new

\* Steps of the network, and of a stream that goes on.
LEMMA NetworkKeeps ==
    ASSUME RtpInv, SendPacket \/ (\E n \in flight : LosePacket(n))
    PROVE  RtpInv'
  <1>1. UNCHANGED <<start, stats, arrived, first, overtaken>> /\ sent' \in start .. start + MaxPackets /\ sent' >= sent
    BY RtpAssumption DEF RtpInv, RtpTypeOK, SendPacket, LosePacket
  <1>a. start \in Int /\ sent \in Int /\ start <= sent
    BY RtpAssumption DEF RtpInv, RtpTypeOK
  <1>2. flight' \subseteq start .. sent' - 1
    <2>1. flight \subseteq start .. sent - 1
      BY DEF RtpInv, RtpTypeOK
    <2>2. CASE SendPacket
      <3>1. sent' = sent + 1 /\ flight' = flight \union {sent}
        BY <2>2 DEF SendPacket
      <3> QED BY <1>a, <2>1, <3>1
    <2>3. CASE \E n \in flight : LosePacket(n)
      <3>1. sent' = sent /\ flight' \subseteq flight
        BY <2>3 DEF LosePacket
      <3> QED BY <2>1, <3>1
    <2> QED BY <2>2, <2>3
  <1>3. arrived' \subseteq start' .. sent' - 1
    <2>1. arrived \subseteq start .. sent - 1
      BY DEF RtpInv, RtpTypeOK
    <2>2. arrived' = arrived /\ start' = start
      BY <1>1, <1>a
    <2>3. sent' = sent \/ sent' = sent + 1
      BY DEF SendPacket, LosePacket
    <2>4. CASE sent' = sent
      BY <2>1, <2>2, <2>4
    <2>5. CASE sent' = sent + 1
      BY <1>a, <2>1, <2>2, <2>5
    <2> QED BY <2>3, <2>4, <2>5
  <1>4. RtpTypeOK'
    BY <1>1, <1>2, <1>3 DEF RtpInv, RtpTypeOK
  <1>5. \A h : Tracked(h) => Tracked(h)'
    BY <1>1 DEF Tracked
  <1> QED BY <1>1, <1>4, <1>5 DEF RtpInv, JitterMean, Untouched

\* The first packet of a stream to arrive.
LEMMA ArriveFirst ==
    ASSUME RtpInv, NEW n \in flight, NEW t \in Transits, Arrive(n, t), arrived = {}
    PROVE  RtpInv'
  <1> DEFINE seq == n % RTP_SEQ_MOD
             s1 == update_seq(stats, seq)
  <1>1. n \in Nat /\ seq \in Int /\ n \in start .. sent - 1
    BY Distance, RtpAssumption DEF RtpInv, RtpTypeOK
  <1>2. stats \in StatsType /\ ~stats.init /\ Untouched /\ JitterMean
    BY DEF RtpInv, RtpTypeOK
  <1> HIDE DEF seq
  <1>4. /\ s1 \in StatsType /\ s1.init /\ s1.base_seq = seq /\ s1.prev_seq = seq /\ s1.max_seq_ext = seq /\ s1.received = 1
        /\ s1.cycles = stats.cycles /\ SameRest(stats, s1)
    BY <1>1, <1>2, FirstCounted
  <1> HIDE DEF s1
  <1>a. s1.cycles = 0 /\ s1.last_lost = 0
    BY <1>2, <1>4 DEF Untouched, SameRest
  <1>5. stats' = update_jitter(s1, t)
    BY DEF Arrive, update, s1, seq
  <1>6. /\ stats' \in StatsType /\ stats'.jitter \in 0 .. Spread /\ stats'.prev_transit \in Transits
        /\ stats'.init = s1.init /\ stats'.base_seq = s1.base_seq /\ stats'.prev_seq = s1.prev_seq /\ stats'.cycles = s1.cycles
        /\ stats'.max_seq_ext = s1.max_seq_ext /\ stats'.received = s1.received /\ stats'.last_lost = s1.last_lost
    BY <1>2, <1>4, <1>5, JitterUpdated, ZenonT(40) DEF JitterMean, SameRest
  <1>7. arrived' = {n} /\ first' = n /\ overtaken' = 0 /\ UNCHANGED <<start, sent>> /\ flight' \subseteq flight
    BY <1>2 DEF Arrive, Untouched
  <1>8. Cardinality({x \in n .. n : x \notin {n}}) = 0
    <2>1. {x \in n .. n : x \notin {n}} = {}
      BY <1>1
    <2> QED BY <2>1, FS_EmptySet
  <1>9. Tracked(n)'
    <2>1. n \in arrived' /\ (\A other \in arrived' : other <= n) /\ first' \in arrived'
      BY <1>1, <1>7
    <2>2. stats'.base_seq = first' % RTP_SEQ_MOD /\ stats'.prev_seq = n % RTP_SEQ_MOD
      BY <1>4, <1>6, <1>7 DEF seq
    <2>3. stats'.cycles = (n - stats'.prev_seq) - (first' - stats'.base_seq) /\ stats'.max_seq_ext = stats'.base_seq + (n - first')
      BY <1>1, <1>4, <1>a, <1>6, <1>7
    <2>4. stats'.received + Cardinality({x \in first' .. n : x \notin arrived'}) + overtaken' = n - first' + 1
      BY <1>1, <1>4, <1>6, <1>7, <1>8
    <2> QED BY <2>1, <2>2, <2>3, <2>4, <1>a, <1>6 DEF Tracked
  <1>10. RtpTypeOK'
    BY <1>1, <1>6, <1>7 DEF RtpInv, RtpTypeOK
  <1> QED BY <1>4, <1>6, <1>7, <1>9, <1>10 DEF RtpInv, JitterMean

\* A packet arrives after others.
LEMMA ArriveLater ==
    ASSUME RtpInv, NEW n \in flight, NEW t \in Transits, Arrive(n, t), arrived # {}
    PROVE  RtpInv'
  <1> DEFINE seq == n % RTP_SEQ_MOD
             s1 == update_seq(stats, seq)
  <1>1. PICK h \in arrived : Tracked(h)
    BY DEF RtpInv
  <1>2. n \in Nat /\ h \in Nat /\ first \in Nat /\ n \in start .. sent - 1 /\ arrived \subseteq Int
    BY <1>1, RtpAssumption DEF RtpInv, RtpTypeOK, Tracked
  <1>3. seq \in Int /\ h % RTP_SEQ_MOD \in Int /\ first % RTP_SEQ_MOD \in Int
    BY <1>2, Distance
  <1>4. Highest = h
    BY <1>1, <1>2, HighestOf DEF Highest, Tracked
  <1>5. stats \in StatsType /\ stats.init /\ JitterMean /\ overtaken \in Nat
    BY DEF RtpInv, RtpTypeOK
  <1>6. h - n <= RTP_SEQ_MOD - MAX_DROPOUT /\ n - h < MAX_DROPOUT
    BY <1>4 DEF Arrive
  <1>7. /\ arrived' = arrived \union {n} /\ first' = first /\ UNCHANGED <<start, sent>> /\ flight' \subseteq flight
        /\ overtaken' = IF n \notin arrived /\ first <= n /\ n < h THEN overtaken + 1 ELSE overtaken
    BY <1>4 DEF Arrive
  <1>8. stats' = update_jitter(s1, t)
    BY DEF Arrive, update
  <1>b. overtaken' \in Nat /\ first' \in Int /\ arrived' \subseteq start' .. sent' - 1 /\ flight' \subseteq start' .. sent' - 1
    <2>1. arrived \subseteq start .. sent - 1 /\ flight \subseteq start .. sent - 1
      BY DEF RtpInv, RtpTypeOK
    <2> QED BY <1>2, <1>5, <1>7, <2>1
  <1> DEFINE missing == Cardinality({x \in first .. h : x \notin arrived})
  <1>9. missing \in Nat
    <2>1. IsFiniteSet(first .. h)
      BY <1>2, FS_Interval
    <2>2. {x \in first .. h : x \notin arrived} \in SUBSET (first .. h)
      OBVIOUS
    <2> QED BY <2>1, <2>2, FS_Subset, FS_CardinalityType
  <1>10. CASE n > h
    <2>1. Ahead(n, h) /\ At(stats, h)
      BY <1>10, <1>1, <1>5, <1>6 DEF Ahead, At, Tracked
    <2>2. s1 \in StatsType /\ s1.init /\ SameRest(stats, s1) /\ Counted(stats, s1, n, h)
      BY <1>2, <1>5, <2>1, AheadCounted
    <2> HIDE DEF s1, seq
    <2>3. /\ stats' \in StatsType /\ stats'.jitter \in 0 .. Spread /\ stats'.prev_transit \in Transits
          /\ stats'.init = s1.init /\ stats'.base_seq = s1.base_seq /\ stats'.prev_seq = s1.prev_seq /\ stats'.cycles = s1.cycles
          /\ stats'.max_seq_ext = s1.max_seq_ext /\ stats'.received = s1.received /\ stats'.last_lost = s1.last_lost
      BY <1>5, <1>8, <2>2, JitterUpdated DEF JitterMean, SameRest
    <2>4. Cardinality({x \in first .. n : x \notin arrived \union {n}}) = missing + (n - h - 1)
      BY <1>10, <1>1, <1>2, MissingAhead DEF Tracked
    <2>5. Tracked(n)'
      <3>1. n \in arrived' /\ (\A other \in arrived' : other <= n) /\ first' \in arrived'
        BY <1>1, <1>2, <1>7, <1>10 DEF Tracked
      <3>2. stats'.base_seq = first' % RTP_SEQ_MOD /\ stats'.prev_seq = n % RTP_SEQ_MOD
        BY <1>1, <1>7, <2>2, <2>3 DEF Tracked, Counted
      <3> HIDE DEF missing
      <3>3. stats'.cycles = (n - stats'.prev_seq) - (first' - stats'.base_seq) /\ stats'.max_seq_ext = stats'.base_seq + (n - first')
        BY <1>1, <1>2, <1>3, <1>5, <1>7, <2>2, <2>3 DEF Tracked, Counted, StatsType
      <3>4. stats.received + missing + overtaken = h - first + 1
        BY <1>1 DEF Tracked, missing
      <3>5. stats'.received + Cardinality({x \in first' .. n : x \notin arrived'}) + overtaken' = n - first' + 1
        BY <1>2, <1>5, <1>7, <1>9, <1>10, <2>2, <2>3, <2>4, <3>4 DEF StatsType, Counted
      <3>6. stats'.last_lost >= 0
        BY <1>1, <2>2, <2>3 DEF Tracked, SameRest
      <3> QED BY <3>1, <3>2, <3>3, <3>5, <3>6 DEF Tracked
    <2>6. RtpTypeOK'
      BY <1>2, <1>5, <1>7, <1>b, <2>3 DEF RtpInv, RtpTypeOK
    <2> QED BY <1>5, <1>7, <2>2, <2>3, <2>5, <2>6 DEF RtpInv, JitterMean
  <1>11. CASE n <= h
    <2>1. s1 = stats
      <3>1. Behind(n, h) /\ At(stats, h)
        BY <1>11, <1>1, <1>5, <1>6 DEF Behind, At, Tracked
      <3> QED BY <1>2, <1>5, <3>1, BehindIgnored
    <2> HIDE DEF s1
    <2>2. /\ stats' \in StatsType /\ stats'.jitter \in 0 .. Spread /\ stats'.prev_transit \in Transits
          /\ stats'.init = stats.init /\ stats'.base_seq = stats.base_seq /\ stats'.prev_seq = stats.prev_seq /\ stats'.cycles = stats.cycles
          /\ stats'.max_seq_ext = stats.max_seq_ext /\ stats'.received = stats.received /\ stats'.last_lost = stats.last_lost
      BY <1>5, <1>8, <2>1, JitterUpdated DEF JitterMean
    <2>3. Cardinality({x \in first .. h : x \notin arrived \union {n}}) = missing - (IF n \notin arrived /\ first <= n THEN 1 ELSE 0)
      BY <1>11, <1>1, <1>2, MissingBehind DEF Tracked
    <2>4. n # h \/ n \in arrived
      BY <1>1
    <2>5. Tracked(h)'
      <3>1. h \in arrived' /\ (\A other \in arrived' : other <= h) /\ first' \in arrived'
        BY <1>1, <1>2, <1>7, <1>11 DEF Tracked
      <3> HIDE DEF missing
      <3>2. stats.received + missing + overtaken = h - first + 1
        BY <1>1 DEF Tracked, missing
      <3>3. stats'.received + Cardinality({x \in first' .. h : x \notin arrived'}) + overtaken' = h - first' + 1
        BY <1>2, <1>5, <1>7, <1>9, <1>11, <2>2, <2>3, <2>4, <3>2 DEF StatsType
      <3> QED BY <1>1, <1>7, <2>2, <3>1, <3>3 DEF Tracked
    <2>6. RtpTypeOK'
      BY <1>2, <1>5, <1>7, <1>b, <2>2 DEF RtpInv, RtpTypeOK
    <2>7. h \in arrived'
      BY <1>7
    <2> QED BY <1>5, <1>7, <2>2, <2>5, <2>6, <2>7 DEF RtpInv, JitterMean
  <1> QED BY <1>2, <1>10, <1>11

\* A report closes the interval it is about.
LEMMA ReportKeeps ==
    ASSUME RtpInv, Report \/ (\E sr \in SenderReports : NoteSenderReport(sr))
    PROVE  RtpInv'
  <1>1. PICK h \in arrived : Tracked(h)
    BY DEF RtpInv, Report, NoteSenderReport
  <1>2. h \in Int /\ first \in Int /\ stats \in StatsType /\ stats.init /\ overtaken \in Nat /\ arrived \subseteq Int
    BY <1>1, RtpAssumption DEF RtpInv, RtpTypeOK, Tracked, Report, NoteSenderReport
  <1>3. Cardinality({x \in first .. h : x \notin arrived}) \in Nat
    <2>1. IsFiniteSet(first .. h)
      BY <1>2, FS_Interval
    <2>2. {x \in first .. h : x \notin arrived} \in SUBSET (first .. h)
      OBVIOUS
    <2> QED BY <2>1, <2>2, FS_Subset, FS_CardinalityType
  <1>4. expected(stats) \in Int /\ cumulative_lost(stats) \in Int /\ cumulative_lost(stats) >= 0
    BY <1>1, <1>2, <1>3 DEF Tracked, expected, cumulative_lost, StatsType
  <1>5. UNCHANGED <<start, sent, flight, arrived, first, overtaken>>
    BY DEF Report, NoteSenderReport
  <1>6. /\ stats' \in StatsType /\ stats'.jitter = stats.jitter /\ stats'.prev_transit = stats.prev_transit
        /\ stats'.has_prev_transit = stats.has_prev_transit
        /\ stats'.init = stats.init /\ stats'.base_seq = stats.base_seq /\ stats'.prev_seq = stats.prev_seq /\ stats'.cycles = stats.cycles
        /\ stats'.max_seq_ext = stats.max_seq_ext /\ stats'.received = stats.received /\ stats'.last_lost >= 0
    <2>1. CASE Report
      <3> HIDE DEF expected, cumulative_lost
      <3>1. stats' = [stats EXCEPT !.last_expected = expected(stats), !.last_lost = cumulative_lost(stats)]
        BY <2>1 DEF Report, interval_closed
      <3> QED BY <1>2, <1>4, <3>1 DEF StatsType
    <2>2. CASE \E sr \in SenderReports : NoteSenderReport(sr)
      <3>1. PICK sr \in SenderReports : stats' = [stats EXCEPT !.sr = sr]
        BY <2>2 DEF NoteSenderReport, note_sender_report
      <3>2. stats.last_lost >= 0
        BY <1>1 DEF Tracked
      <3> QED BY <1>2, <3>1, <3>2 DEF StatsType, SrType
    <2> QED BY <2>1, <2>2
  <1>7. Tracked(h)'
    BY <1>1, <1>5, <1>6 DEF Tracked
  <1>8. RtpTypeOK'
    BY <1>5, <1>6 DEF RtpInv, RtpTypeOK
  <1> QED BY <1>1, <1>2, <1>5, <1>6, <1>7, <1>8 DEF RtpInv, JitterMean


-----------------------------------------------------------------------------
(* The theorems. *)

\* The invariant is inductive.
LEMMA RtpInductive == RtpInv /\ [RtpNext]_rtpVars => RtpInv'
  <1> SUFFICES ASSUME RtpInv, [RtpNext]_rtpVars PROVE RtpInv'
    OBVIOUS
  <1>1. CASE SendPacket \/ (\E n \in flight : LosePacket(n))
    BY <1>1, NetworkKeeps
  <1>2. CASE \E n \in flight, t \in Transits : Arrive(n, t)
    <2>1. PICK n \in flight, t \in Transits : Arrive(n, t)
      BY <1>2
    <2> QED BY <2>1, ArriveFirst, ArriveLater
  <1>3. CASE Report \/ (\E sr \in SenderReports : NoteSenderReport(sr))
    BY <1>3, ReportKeeps
  <1>4. CASE UNCHANGED rtpVars
    <2>1. \A h : Tracked(h) => Tracked(h)'
      BY <1>4 DEF Tracked, rtpVars
    <2> QED BY <1>4, <2>1 DEF RtpInv, RtpTypeOK, JitterMean, Untouched, rtpVars
  <1> QED BY <1>1, <1>2, <1>3, <1>4 DEF RtpNext

\* The invariant holds throughout.
LEMMA RtpInvariance == RtpSpec => []RtpInv
  BY RtpInitial, RtpInductive, PTL DEF RtpSpec

\* A fraction in 256ths is one octet, and there is none where nothing was lost since the last report.
LEMMA Fraction ==
    ASSUME NEW s \in StatsType, s.last_lost >= 0, expected(s) \in Int, cumulative_lost(s) \in Int
    PROVE  fraction_lost(s) \in 0 .. 255 /\ (fraction_lost(s) > 0 => cumulative_lost(s) > 0)
  <1> DEFINE e == IF expected(s) > s.last_expected THEN expected(s) - s.last_expected ELSE 0
             l == IF cumulative_lost(s) > s.last_lost THEN cumulative_lost(s) - s.last_lost ELSE 0
             f == IF e = 0 THEN 0 ELSE (l * 256) \div e
  <1>1. e \in Nat /\ l \in Nat /\ (l > 0 => cumulative_lost(s) > 0)
    BY DEF StatsType
  <1>2. fraction_lost(s) = IF f > 255 THEN 255 ELSE f
    BY DEF fraction_lost
  <1> HIDE DEF e, l
  <1>3. f \in Nat /\ (f > 0 => l > 0)
    <2>1. CASE e = 0
      BY <2>1
    <2>2. CASE e # 0
      <3>1. l * 256 \in Nat /\ e \in Nat \ {0}
        BY <1>1, <2>2
      <3>2. (l * 256) \div e \in Nat
        BY <3>1
      <3>3. l = 0 => (l * 256) \div e = 0
        <4> HAVE l = 0
        <4>1. l * 256 = 0
          OBVIOUS
        <4>2. 0 \div e = 0
          BY <3>1
        <4> QED BY <4>1, <4>2
      <3> QED BY <1>1, <2>2, <3>2, <3>3
    <2> QED BY <2>1, <2>2
  <1> HIDE DEF f
  <1> QED BY <1>1, <1>2, <1>3

\* A report of build_reception_report tells the true highest sequence number and the true losses, for every size of the
\* sequence space, every tolerated dropout and every spread of the transit times; no counter outgrows its 32 bits.
THEOREM ReportsAreTrue == RtpSpec => []ReportsTrue
  <1>1. RtpInv => ReportsTrue
    <2> SUFFICES ASSUME RtpInv, stats.init PROVE ReportsTrue
      BY DEF ReportsTrue
    <2>1. PICK h \in arrived : Tracked(h)
      BY DEF RtpInv
    <2>2. h \in Int /\ first \in Nat /\ stats \in StatsType /\ overtaken \in Nat /\ arrived \subseteq Int
      BY <2>1, RtpAssumption DEF RtpInv, RtpTypeOK, Tracked
    <2>3. Highest = h
      BY <2>1, <2>2, HighestOf DEF Highest, Tracked
    <2> DEFINE lost == Cardinality(Missing) + overtaken
    <2>4. Cardinality(Missing) \in Nat /\ Missing = {n \in first .. h : n \notin arrived}
      <3>1. IsFiniteSet(first .. h)
        BY <2>2, FS_Interval
      <3>2. Missing = {n \in first .. h : n \notin arrived} /\ Missing \in SUBSET (first .. h)
        BY <2>3 DEF Missing
      <3> QED BY <3>1, <3>2, FS_Subset, FS_CardinalityType
    <2>5. cumulative_lost(stats) = lost /\ expected(stats) \in Int /\ lost \in Nat
      BY <2>1, <2>2, <2>4 DEF Tracked, expected, cumulative_lost, StatsType
    <2>6. stats.max_seq_ext = (first % RTP_SEQ_MOD) + (Highest - first)
      BY <2>1, <2>3 DEF Tracked
    <2>7. stats.max_seq_ext < U32
      <3>1. start \in 0 .. RTP_SEQ_MOD - 1 /\ sent \in start .. start + MaxPackets /\ first \in start .. sent - 1 /\ h \in start .. sent - 1
        BY <2>1, RtpAssumption DEF RtpInv, RtpTypeOK, Tracked
      <3>2. first % RTP_SEQ_MOD \in 0 .. RTP_SEQ_MOD - 1
        BY <2>2, Divided
      <3>3. h - first <= MaxPackets
        BY <3>1, RtpAssumption
      <3>4. (first % RTP_SEQ_MOD) + (h - first) < U32
        BY <2>2, <3>2, <3>3, RtpAssumption
      <3> QED BY <2>3, <2>6, <3>4
    <2>8. fraction_lost(stats) \in 0 .. 255 /\ (fraction_lost(stats) > 0 => lost > 0)
      BY <2>1, <2>2, <2>5, Fraction DEF Tracked
    <2>9. stats.jitter \in 0 .. Spread
      BY DEF RtpInv, JitterMean
    <2> HIDE DEF lost
    <2>10. /\ build_reception_report(stats).fraction_lost = fraction_lost(stats)
           /\ build_reception_report(stats).cumulative_lost = Clamp(lost, 16777215)
           /\ build_reception_report(stats).extended_seq = stats.max_seq_ext
           /\ build_reception_report(stats).interarrival_jitter = stats.jitter
      BY <2>5, <2>9, RtpAssumption DEF build_reception_report
    <2> QED BY <2>6, <2>7, <2>8, <2>9, <2>10 DEF ReportsTrue, lost
  <1> QED BY <1>1, RtpInvariance, PTL
=============================================================================
