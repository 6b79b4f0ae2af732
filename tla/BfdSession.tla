----------------------------- MODULE BfdSession -----------------------------
(***************************************************************************)
(* One endpoint of a BFD session (tpt-bfd/src/session.rs): the record kept *)
(* by `Session`, and its methods as operators from a record to a record.   *)
(* The endpoint p is a parameter of every operator because its             *)
(* configuration (SessionConfig) is a constant function of the endpoint.   *)
(*                                                                         *)
(* Time is counted in ticks.  An `Option<Instant>` is the number of ticks  *)
(* elapsed since it was set (`elapsed()`), or None; ages saturate at       *)
(* MaxAge, the largest value any comparison in the code can distinguish.   *)
(* `poll_sequence` and `poll_start` are always set and cleared together,   *)
(* so pollStart # None stands for both.                                    *)
(***************************************************************************)
EXTENDS Integers, FiniteSets, TLAPS

CONSTANTS
    Peers,          \* the two systems; a peer is its own discriminator
    Passive,        \* the peers whose Role is Passive
    DemandMode,     \* the peers configured with demand_mode
    DesiredMinTx,   \* desired_min_tx_interval of each peer, in ticks
    RequiredMinRx,  \* required_min_rx_interval of each peer, in ticks
    DetectMult,     \* detect_mult of each peer
    SlowTx,         \* the one-second floor of the interval when not Up
    Auth,           \* auth_type of each peer, "none" when unconfigured
    Key,            \* the shared secret each peer is configured with
    SeqMod,         \* sequence numbers are u32: arithmetic modulo SeqMod
    MaxAge          \* saturation of elapsed times

AuthTypes == {"none", "simple", "keyed", "meticulous"}

Zero == "discr0"    \* discriminator 0: not known

ASSUME PeersAssumption ==
    /\ Zero \notin Peers
    /\ Passive \subseteq Peers
    /\ DemandMode \subseteq Peers

ASSUME ConfigAssumption ==
    /\ DesiredMinTx \in [Peers -> Nat]
    /\ RequiredMinRx \in [Peers -> Nat]
    /\ DetectMult \in [Peers -> Nat \ {0}]
    /\ SlowTx \in Nat
    /\ Auth \in [Peers -> AuthTypes]
    /\ SeqMod \in Nat \ {0}
    /\ MaxAge \in Nat

None == -1

States == {"AdminDown", "Down", "Init", "Up"}

Diagnostics == {"NoDiag", "DetectionTimeExpired", "NeighborSignaledDown",
                "AdminDown"}

Seqs == 0 .. SeqMod - 1

Ages == 0 .. MaxAge

Larger(a, b) == IF a >= b THEN a ELSE b

(***************************************************************************)
(* The fields a receiver reads of a ControlPacket.  `diagnostic`, the C    *)
(* bit and the echo interval are carried and never read, and no builder    *)
(* sets the M bit or another version.  sum is the simple password or the   *)
(* keyed digest: what only a holder of that key can produce.               *)
(***************************************************************************)
Packet ==
    [st : States, poll : BOOLEAN, final : BOOLEAN, demand : BOOLEAN,
     mult : Nat, my : Peers, your : Peers \union {Zero},
     dtx : Nat, minrx : Nat, auth : AuthTypes, sum : {Key[p] : p \in Peers},
     seq : Seqs]

Session ==
    [st : States, diag : Diagnostics,
     rdiscr : Peers \union {Zero}, rst : States, rdemand : BOOLEAN,
     rminrx : Nat, rdtx : Nat, rmult : Nat,
     lastRx : Ages \union {None}, pollStart : Ages \union {None},
     xseq : Seqs, rseq : Seqs, seqKnown : BOOLEAN]

\* Session::new: the transmit sequence number is seeded from the clock.
NewSession(seed) ==
    [st |-> "Down", diag |-> "NoDiag",
     rdiscr |-> Zero, rst |-> "Down", rdemand |-> FALSE,
     rminrx |-> 1, rdtx |-> 0, rmult |-> 0,
     lastRx |-> None, pollStart |-> None,
     xseq |-> seed, rseq |-> 0, seqKnown |-> FALSE]

-----------------------------------------------------------------------------
(* Timers and transmission rules. *)

remote_demand_active(s) == s.rdemand /\ s.st = "Up" /\ s.rst = "Up"

demand_bit(p, s) == p \in DemandMode /\ s.st = "Up" /\ s.rst = "Up"

effective_desired_min_tx(p, s) ==
    IF s.st = "Up" THEN DesiredMinTx[p] ELSE Larger(DesiredMinTx[p], SlowTx)

transmit_interval(p, s) == Larger(effective_desired_min_tx(p, s), s.rminrx)

\* Mutant: the detection multiplier is forgotten.
detection_time_Unmultiplied(p, s) == Larger(RequiredMinRx[p], s.rdtx)

detection_time(p, s) ==
    IF remote_demand_active(s)
    THEN Larger(effective_desired_min_tx(p, s), s.rminrx) * DetectMult[p]
    ELSE Larger(RequiredMinRx[p], s.rdtx) * s.rmult

should_send_periodic(p, s) ==
    /\ ~(p \in Passive /\ s.rdiscr = Zero)
    /\ s.rminrx # 0
    /\ ~(remote_demand_active(s) /\ s.pollStart = None)

keyed(p) == Auth[p] \in {"keyed", "meticulous"}

\* build_packet increments the transmit sequence number of a keyed session ...
after_build(p, s) ==
    IF keyed(p) THEN [s EXCEPT !.xseq = (@ + 1) % SeqMod] ELSE s

\* ... and the packet carries the incremented number; encode_packet then adds
\* the password or the digest.
build_packet(p, s, poll, final) ==
    [st |-> s.st, poll |-> poll, final |-> final, demand |-> demand_bit(p, s),
     mult |-> DetectMult[p], my |-> p, your |-> s.rdiscr,
     dtx |-> effective_desired_min_tx(p, s), minrx |-> RequiredMinRx[p],
     auth |-> Auth[p], sum |-> Key[p],
     seq |-> IF keyed(p) THEN (s.xseq + 1) % SeqMod ELSE 0]

-----------------------------------------------------------------------------
(* Reception. *)

\* verify_auth without its sequence-number rule.
auth_ok(p, pkt) == pkt.auth = Auth[p] /\ (Auth[p] # "none" => pkt.sum = Key[p])

\* The sequence-number rule of verify_auth: what it answers with AuthSeqReplay.
seq_replay(p, s, pkt) ==
    /\ keyed(p) /\ s.seqKnown
    /\ IF Auth[p] = "meticulous"
       THEN pkt.seq # (s.rseq + 1) % SeqMod
       ELSE pkt.seq < s.rseq

note_seq(p, s, pkt) ==
    IF keyed(p) THEN [s EXCEPT !.rseq = pkt.seq, !.seqKnown = TRUE] ELSE s

\* The reception checks of process_packet that a decoded packet can fail.
acceptable(p, pkt) ==
    /\ pkt.mult # 0
    /\ pkt.my # Zero
    /\ pkt.your \in {Zero, p}
    /\ pkt.your = Zero => pkt.st \in {"Down", "AdminDown"}

\* Mutant: the remote discriminator is learned only once ours is echoed.
learn_EchoedOnly(s, pkt) ==
    [s EXCEPT !.rdiscr = IF pkt.your = Zero THEN @ ELSE pkt.my,
              !.rst = pkt.st, !.rdemand = pkt.demand,
              !.rminrx = pkt.minrx, !.rdtx = pkt.dtx, !.rmult = pkt.mult,
              !.pollStart = IF pkt.final THEN None ELSE @,
              !.lastRx = 0]

\* Mutant: a Final does not end the poll.
learn_KeepPoll(s, pkt) ==
    [s EXCEPT !.rdiscr = pkt.my, !.rst = pkt.st, !.rdemand = pkt.demand,
              !.rminrx = pkt.minrx, !.rdtx = pkt.dtx, !.rmult = pkt.mult,
              !.lastRx = 0]

\* Learning the remote parameters, ending a poll answered by a Final.
learn(s, pkt) ==
    [s EXCEPT !.rdiscr = pkt.my, !.rst = pkt.st, !.rdemand = pkt.demand,
              !.rminrx = pkt.minrx, !.rdtx = pkt.dtx, !.rmult = pkt.mult,
              !.pollStart = IF pkt.final THEN None ELSE @,
              !.lastRx = 0]

\* Mutant: any packet at all takes Init to Up.
next_state_Eager(st, ps) ==
    CASE ps = "AdminDown"               -> "Down"
      [] st = "Down" /\ ps = "Down"     -> "Init"
      [] st = "Down" /\ ps = "Init"     -> "Up"
      [] st = "Init"                    -> "Up"
      [] st = "Up"   /\ ps = "Down"     -> "Down"
      [] OTHER                          -> st

\* Mutant: the transition from Down on a packet in Init is missing.
next_state_NoDownInit(st, ps) ==
    CASE ps = "AdminDown"                        -> "Down"
      [] st = "Down" /\ ps = "Down"              -> "Init"
      [] st = "Init" /\ ps \in {"Init", "Up"}    -> "Up"
      [] st = "Up"   /\ ps = "Down"              -> "Down"
      [] OTHER                                   -> st

\* The transition of session_state on a packet in state ps.
next_state(st, ps) ==
    CASE ps = "AdminDown"                            -> "Down"
      [] st = "Down" /\ ps = "Down"                  -> "Init"
      [] st = "Down" /\ ps = "Init"                  -> "Up"
      [] st = "Init" /\ ps \in {"Init", "Up"}        -> "Up"
      [] st = "Up"   /\ ps = "Down"                  -> "Down"
      [] OTHER                                       -> st

process_packet(s, pkt) ==
    LET new == next_state(s.st, pkt.st) IN
    IF s.st = "AdminDown"
    THEN learn(s, pkt)
    ELSE [learn(s, pkt) EXCEPT
            !.st   = new,
            !.diag = IF new = "Down" /\ s.st # "Down"
                     THEN "NeighborSignaledDown" ELSE @]

\* An accepted Poll is answered at once, except in AdminDown.
must_respond(s, pkt) == pkt.poll /\ s.st # "AdminDown"

\* process_bytes: the session afterwards, whether it answers with an error
\* (AuthSeqReplay), whether the packet was accepted, and whether a Final is due.
\* A packet discarded after verify_auth has still moved the sequence number.
process_bytes(p, s, pkt) ==
    LET checked  == note_seq(p, s, pkt)
        discard(t, e) == [s |-> t, err |-> e, accepted |-> FALSE, respond |-> FALSE]
    IN  IF ~auth_ok(p, pkt)            THEN discard(s, FALSE)
        ELSE IF seq_replay(p, s, pkt)  THEN discard(s, TRUE)
        ELSE IF ~acceptable(p, pkt)    THEN discard(checked, FALSE)
        ELSE [s |-> process_packet(checked, pkt), err |-> FALSE,
              accepted |-> TRUE, respond |-> must_respond(checked, pkt)]

-----------------------------------------------------------------------------
(* Detection timer and administration. *)

\* Mutant: the remote discriminator is reset to a value that is not one.
declare_down_Sentinel(s) ==
    [s EXCEPT !.st = "Down", !.diag = "DetectionTimeExpired", !.rdiscr = "unknown"]

declare_down(s) ==
    [s EXCEPT !.st = "Down", !.diag = "DetectionTimeExpired", !.rdiscr = Zero]

poll_expired(p, s) ==
    s.pollStart # None /\ s.pollStart >= detection_time(p, s)

\* Mutant: the timer is checked during initialization only.
rx_expired_InitOnly(p, s) ==
    s.st = "Init" /\ s.lastRx # None /\ s.lastRx >= detection_time(p, s)

rx_expired(p, s) ==
    /\ s.st \in {"Init", "Up"}
    /\ s.lastRx # None
    /\ s.lastRx >= detection_time(p, s)

check_timeout(p, s) ==
    IF remote_demand_active(s)
    THEN IF poll_expired(p, s)
         THEN [declare_down(s) EXCEPT !.pollStart = None]
         ELSE s
    ELSE IF rx_expired(p, s) THEN declare_down(s) ELSE s

admin_down(s) == [s EXCEPT !.st = "AdminDown", !.diag = "AdminDown"]

admin_up(s) ==
    IF s.st = "AdminDown" THEN [s EXCEPT !.st = "Down", !.diag = "NoDiag"] ELSE s

start_poll(s) == [s EXCEPT !.pollStart = 0]

\* One tick of the clock as the Instants of a session see it.
OlderBy1(a) == IF a \in {None, MaxAge} THEN a ELSE a + 1

aged(s) == [s EXCEPT !.lastRx = OlderBy1(@), !.pollStart = OlderBy1(@)]

-----------------------------------------------------------------------------
(***************************************************************************)
(* Two BFD sessions, each driven by a UdpTransport                         *)
(* (tpt-bfd/src/transport.rs), over a network that loses, duplicates and   *)
(* reorders packets.  One action is one call of `step` (receive, transmit  *)
(* when due, check the detection timer) or one call the application makes  *)
(* on the session.  Faults draw on a budget: FaultCost = 0 leaves them     *)
(* unbounded, FaultCost = 1 lets at most MaxFaults of them happen, so that *)
(* a liveness property can speak of what follows the last one.             *)
(***************************************************************************)
CONSTANTS
    Seeds,      \* the sequence numbers the clock may seed a session with
    MaxNet,     \* packets in flight in one direction
    MaxFaults, FaultCost,
    MayFail,    \* kinds of fault that happen: a subset of Faults
    MaxPolls,   \* poll sequences the application starts
    Urgent      \* a tick waits until every delivery and transmission due is done

Faults == {"lose", "duplicate", "crash", "admin"}

ASSUME LinkAssumption ==
    /\ \A p \in Peers : \E q \in Peers \ {p} : Peers = {p, q}
    /\ Seeds \subseteq Seqs /\ Seeds # {}
    /\ MaxNet \in Nat /\ MaxFaults \in Nat /\ FaultCost \in {0, 1}
    /\ MayFail \subseteq Faults
    /\ Urgent \in BOOLEAN /\ MaxPolls \in Nat

VARIABLES
    sess,       \* the Session of each peer
    sendAge,    \* last_send.elapsed() of each transport
    mode,       \* the run loop: running, ended by an error, or crashed
    net,        \* the packets on their way to each peer
    heard,      \* history: the peers that have accepted a packet
    faults,     \* faults left in the budget
    polls       \* poll sequences the application may still start

vars == <<sess, sendAge, mode, net, heard, faults, polls>>

Other(p) == CHOOSE q \in Peers : q # p

Init ==
    /\ sess \in [Peers -> {NewSession(n) : n \in Seeds}]
    /\ sendAge = [p \in Peers |-> MaxAge]
    /\ mode = [p \in Peers |-> "running"]
    /\ net = [p \in Peers |-> {}]
    /\ heard = {}
    /\ faults = MaxFaults
    /\ polls = MaxPolls

SomeFault ==
    /\ faults > 0
    /\ faults' = faults - FaultCost
    /\ UNCHANGED polls

Fault(kind) == kind \in MayFail /\ SomeFault

NoFault == UNCHANGED <<faults, polls>>

-----------------------------------------------------------------------------
(* The transport. *)

\* UdpTransport::step sends a periodic packet when the interval has elapsed.
send_due(p, s, age) == should_send_periodic(p, s) /\ age >= transmit_interval(p, s)

\* p takes the packets got from the network and puts pkts on it.  A fault may
\* lose some of pkts, or leave a copy of got to be delivered again.
Transmit(p, got, pkts) ==
    \E kept \in SUBSET pkts, gone \in SUBSET got :
        /\ Cardinality(net[Other(p)] \union kept) <= MaxNet
        /\ kept # pkts => "lose" \in MayFail
        /\ gone # got => "duplicate" \in MayFail
        /\ IF kept = pkts /\ gone = got THEN NoFault ELSE SomeFault
        /\ net' = [net EXCEPT ![p] = @ \ gone, ![Other(p)] = @ \union kept]

\* The rest of `step` after recv_packet has left the session in state s, taken
\* the packets got and sent the packets out.
FinishStep(p, s, age, got, out) ==
    LET due  == send_due(p, s, age)
        beat == IF due THEN {build_packet(p, s, s.pollStart # None, FALSE)} ELSE {}
        sent == IF due THEN after_build(p, s) ELSE s
    IN  /\ sess' = [sess EXCEPT ![p] = check_timeout(p, sent)]
        /\ sendAge' = [sendAge EXCEPT ![p] = IF due THEN 0 ELSE age]
        /\ Transmit(p, got, out \union beat)

\* `step` when no packet arrived before the read timeout.
StepIdle(p) ==
    /\ mode[p] = "running"
    /\ FinishStep(p, sess[p], sendAge[p], {}, {})
    /\ UNCHANGED <<mode, heard>>

\* `step` when pkt arrived: recv_packet answers a Poll before the rest.
StepReceive(p, pkt) ==
    LET r == process_bytes(p, sess[p], pkt) IN
    /\ mode[p] = "running"
    /\ pkt \in net[p]
    /\ ~r.err
    /\ heard' = IF r.accepted THEN heard \union {p} ELSE heard
    /\ FinishStep(p, IF r.respond THEN after_build(p, r.s) ELSE r.s,
                  IF r.respond THEN 0 ELSE sendAge[p], {pkt},
                  IF r.respond THEN {build_packet(p, r.s, FALSE, TRUE)} ELSE {})
    /\ UNCHANGED mode

\* `step` when process_bytes fails: `?` carries the error out of `run`.
StepError(p, pkt) ==
    /\ mode[p] = "running"
    /\ pkt \in net[p]
    /\ process_bytes(p, sess[p], pkt).err
    /\ mode' = [mode EXCEPT ![p] = "failed"]
    /\ net' = [net EXCEPT ![p] = @ \ {pkt}]
    /\ NoFault
    /\ UNCHANGED <<sess, sendAge, heard>>

Step(p) ==
    \/ StepIdle(p)
    \/ \E pkt \in net[p] : StepReceive(p, pkt) \/ StepError(p, pkt)

-----------------------------------------------------------------------------
(* The application and the environment. *)

AdminDown(p) ==
    /\ mode[p] = "running"
    /\ Fault("admin")
    /\ sess' = [sess EXCEPT ![p] = admin_down(@)]
    /\ UNCHANGED <<sendAge, mode, net, heard>>

AdminUp(p) ==
    /\ mode[p] = "running"
    /\ sess[p].st = "AdminDown"
    /\ sess' = [sess EXCEPT ![p] = admin_up(@)]
    /\ NoFault
    /\ UNCHANGED <<sendAge, mode, net, heard>>

StartPoll(p) ==
    /\ mode[p] = "running"
    /\ polls > 0
    /\ polls' = polls - 1
    /\ sess' = [sess EXCEPT ![p] = start_poll(@)]
    /\ UNCHANGED <<sendAge, mode, net, heard, faults>>

\* The process dies: its socket and its session are gone.
Crash(p) ==
    /\ mode[p] = "running"
    /\ Fault("crash")
    /\ mode' = [mode EXCEPT ![p] = "crashed"]
    /\ net' = [net EXCEPT ![p] = {}]
    /\ UNCHANGED <<sess, sendAge, heard>>

\* A new process builds the session again from the same configuration.
Restart(p) ==
    /\ mode[p] # "running"
    /\ mode' = [mode EXCEPT ![p] = "running"]
    /\ \E n \in Seeds : sess' = [sess EXCEPT ![p] = NewSession(n)]
    /\ sendAge' = [sendAge EXCEPT ![p] = MaxAge]
    /\ NoFault
    /\ UNCHANGED <<net, heard>>

\* Nothing that p must do at this instant is left undone.
Settled(p) ==
    mode[p] = "running" =>
        /\ net[p] = {}
        /\ ~send_due(p, sess[p], sendAge[p])
        /\ check_timeout(p, sess[p]) = sess[p]

Tick ==
    /\ Urgent => \A p \in Peers : Settled(p)
    /\ sess' = [p \in Peers |-> aged(sess[p])]
    /\ sendAge' = [p \in Peers |-> OlderBy1(sendAge[p])]
    /\ NoFault
    /\ UNCHANGED <<mode, net, heard>>

Next ==
    \/ \E p \in Peers :
        \/ Step(p)
        \/ AdminDown(p) \/ AdminUp(p) \/ StartPoll(p)
        \/ Crash(p) \/ Restart(p)
    \/ Tick

Spec == Init /\ [][Next]_vars

(***************************************************************************)
(* `run` calls `step` for ever, each call taking a packet that has arrived,*)
(* and time passes.  Nothing obliges anyone to restart a process or to     *)
(* lift AdminDown.                                                         *)
(***************************************************************************)
Fairness == WF_vars(Tick) /\ \A p \in Peers : WF_vars(Step(p))

LiveSpec == Spec /\ Fairness

-----------------------------------------------------------------------------
(* Properties. *)

TypeOK ==
    /\ sess \in [Peers -> Session]
    /\ sendAge \in [Peers -> Ages]
    /\ mode \in [Peers -> {"running", "failed", "crashed"}]
    /\ net \in [Peers -> SUBSET Packet]
    /\ heard \subseteq Peers
    /\ faults \in 0 .. MaxFaults
    /\ polls \in 0 .. MaxPolls

\* No packet a session builds is ever refused by the discriminator rules of
\* process_packet at the other end, whatever was lost, repeated, timed out or
\* restarted in between: only Down and AdminDown packets leave without the
\* remote discriminator, although declare_down forgets it.
NeverRefused == \A p \in Peers : \A pkt \in net[p] : acceptable(p, pkt)

\* The three-way handshake: a session that is Up has been heard by its peer.
UpMeansHeard == \A p \in Peers : sess[p].st = "Up" => Other(p) \in heard

\* The detection timer drives the session Down on packet loss (lib.rs) only:
\* until a first fault the timer never expires, although the intervals change
\* with the state, poll sequences come and go and one end is passive.
DetectionMeansLoss ==
    faults = MaxFaults => \A p \in Peers : sess[p].diag # "DetectionTimeExpired"

\* A peer that has gone for good is noticed, in whatever state it left the
\* session: check_timeout must cover them all.
FailureDetected ==
    \A p \in Peers :
        <>[](mode[p] = "running" /\ mode[Other(p)] # "running")
            => <>[](sess[p].st # "Up")

\* Once faults cease and the operator has restarted what crashed and lifted
\* AdminDown, both ends come Up and stay Up, whatever state they were left in.
Recovers ==
    <>[](\A p \in Peers : mode[p] = "running" /\ sess[p].st # "AdminDown")
        => <>[](\A p \in Peers : sess[p].st = "Up")

\* Every poll sequence ends, although the Poll, its Final or the peer is lost,
\* unless the peer is gone for good or is held down.
PollsEnd ==
    <>[](\A p \in Peers : mode[p] = "running" /\ sess[p].st # "AdminDown")
        => <>[](\A p \in Peers : sess[p].pollStart = None)

-----------------------------------------------------------------------------
(***************************************************************************)
(* The handshake is sound for every configuration, network bound and       *)
(* pattern of faults.  The inductive invariant says of a session that what *)
(* it knows of its peer it was told by its peer, and of a packet that it   *)
(* reveals what its sender had heard.                                      *)
(***************************************************************************)
\* p's session s, when H is the set of peers that have accepted a packet.
GoodSession(p, s, H) ==
    /\ s \in Session
    /\ s.st \in {"Init", "Up"} => s.rdiscr # Zero
    /\ s.rdiscr # Zero => s.rdiscr = Other(p) /\ p \in H
    /\ s.st = "Up" => Other(p) \in H

\* A packet on its way to p.
GoodPacket(p, pkt, H) ==
    /\ pkt \in Packet
    /\ pkt.my = Other(p)
    /\ pkt.mult # 0
    /\ pkt.your \in {Zero, p}
    /\ pkt.your = Zero => pkt.st \in {"Down", "AdminDown"}
    /\ pkt.your = p => Other(p) \in H

IInv ==
    /\ TypeOK
    /\ \A p \in Peers : GoodSession(p, sess[p], heard)
    /\ \A p \in Peers : \A pkt \in net[p] : GoodPacket(p, pkt, heard)

-----------------------------------------------------------------------------

\* There are exactly two peers, each the other's Other.
LEMMA OtherPeer ==
    ASSUME NEW p \in Peers
    PROVE  /\ Other(p) \in Peers /\ Other(p) # p
           /\ Other(Other(p)) = p
           /\ Peers = {p, Other(p)}
<1>1. PICK q \in Peers \ {p} : Peers = {p, q}
  BY LinkAssumption
<1>2. Other(p) = q
  BY <1>1 DEF Other
<1>3. Other(q) = p
  BY <1>1 DEF Other
<1> QED BY <1>1, <1>2, <1>3

\* What is known stays known when more peers have been heard.
LEMMA GoodMonotone ==
    ASSUME NEW p, NEW s, NEW pkt, NEW H, NEW G, H \subseteq G
    PROVE  /\ GoodSession(p, s, H) => GoodSession(p, s, G)
           /\ GoodPacket(p, pkt, H) => GoodPacket(p, pkt, G)
BY DEF GoodSession, GoodPacket

\* A session built by Session::new is good: it knows nothing.
LEMMA NewGood ==
    ASSUME NEW p \in Peers, NEW n \in Seqs, NEW H
    PROVE  GoodSession(p, NewSession(n), H)
BY ConfigAssumption
   DEF GoodSession, NewSession, Session, States, Diagnostics, None, Seqs, Ages

\* The interval a packet advertises is a natural number.
LEMMA TxNat ==
    ASSUME NEW p \in Peers, NEW s
    PROVE  effective_desired_min_tx(p, s) \in Nat
BY ConfigAssumption DEF effective_desired_min_tx, Larger

\* A good session builds good packets, and stays good.
LEMMA BuildGood ==
    ASSUME NEW p \in Peers, NEW H, NEW s, GoodSession(p, s, H),
           NEW poll \in BOOLEAN, NEW final \in BOOLEAN
    PROVE  /\ GoodPacket(Other(p), build_packet(p, s, poll, final), H)
           /\ GoodSession(p, after_build(p, s), H)
<1> DEFINE pkt == build_packet(p, s, poll, final)
<1>1. (s.xseq + 1) % SeqMod \in Seqs /\ 0 \in Seqs
  BY ConfigAssumption DEF GoodSession, Session, Seqs
<1>2. pkt \in Packet
  <2>1. demand_bit(p, s) \in BOOLEAN
    BY DEF demand_bit
  <2>2. s.st \in States /\ s.rdiscr \in Peers \union {Zero}
    BY DEF GoodSession, Session
  <2>3. DetectMult[p] \in Nat /\ RequiredMinRx[p] \in Nat /\ Auth[p] \in AuthTypes
    BY ConfigAssumption
  <2> QED BY <1>1, <2>1, <2>2, <2>3, TxNat DEF build_packet, Packet
<1>3. /\ pkt.my = p /\ pkt.your = s.rdiscr /\ pkt.st = s.st
      /\ pkt.mult = DetectMult[p]
  BY DEF build_packet
<1>4. GoodPacket(Other(p), pkt, H)
  BY <1>2, <1>3, OtherPeer, ConfigAssumption, PeersAssumption
     DEF GoodPacket, GoodSession, Session, States
<1>5. GoodSession(p, after_build(p, s), H)
  BY <1>1 DEF after_build, GoodSession, Session
<1> QED BY <1>4, <1>5

\* Processing a good packet leaves a good session; an accepted packet puts its
\* receiver among those who have heard their peer.
LEMMA ProcessGood ==
    ASSUME NEW p \in Peers, NEW H, NEW s, GoodSession(p, s, H),
           NEW pkt, GoodPacket(p, pkt, H)
    PROVE  LET r == process_bytes(p, s, pkt) IN
           /\ GoodSession(p, r.s, H \union {p})
           /\ ~r.accepted => GoodSession(p, r.s, H)
           /\ r.respond => r.accepted
<1> DEFINE c == note_seq(p, s, pkt)
<1>1. GoodSession(p, c, H) /\ c.st = s.st
  BY DEF note_seq, GoodSession, Session, GoodPacket, Packet
<1>2. learn(c, pkt) \in Session /\ learn(c, pkt).rdiscr = Other(p)
      /\ learn(c, pkt).st = c.st
  <2>1. c \in Session
    BY <1>1 DEF GoodSession
  <2>2. pkt \in Packet /\ pkt.my = Other(p)
    BY DEF GoodPacket
  <2>3. None \in Ages \union {None} /\ 0 \in Ages \union {None}
    BY ConfigAssumption DEF Ages, None
  <2>4. /\ pkt.my \in Peers /\ pkt.st \in States /\ pkt.demand \in BOOLEAN
        /\ pkt.minrx \in Nat /\ pkt.dtx \in Nat /\ pkt.mult \in Nat
    BY <2>2 DEF Packet
  <2> QED BY <2>1, <2>2, <2>3, <2>4 DEF learn, Session
<1>3. next_state(c.st, pkt.st) \in States
  BY <1>1 DEF next_state, GoodSession, Session, States
<1>4. next_state(c.st, pkt.st) = "Up" => c.st = "Up" \/ pkt.st \in {"Init", "Up"}
  BY DEF next_state
<1>5. Other(p) # Zero
  BY OtherPeer, PeersAssumption
<1>6. GoodSession(p, process_packet(c, pkt), H \union {p})
  <2> DEFINE t == process_packet(c, pkt)
  <2>1. t \in Session /\ t.rdiscr = Other(p)
    BY <1>2, <1>3 DEF process_packet, Session, Diagnostics
  <2>2. t.st = "Up" => c.st = "Up" \/ pkt.st \in {"Init", "Up"}
    <3>1. t.st = c.st \/ t.st = next_state(c.st, pkt.st)
      BY <1>2 DEF process_packet, Session
    <3> QED BY <3>1, <1>4
  <2>3. pkt.st \in {"Init", "Up"} => Other(p) \in H
    BY DEF GoodPacket
  <2>4. c.st = "Up" => Other(p) \in H
    BY <1>1 DEF GoodSession
  <2> QED BY <2>1, <2>2, <2>3, <2>4, <1>5 DEF GoodSession
<1>7. \A t : GoodSession(p, t, H) => GoodSession(p, t, H \union {p})
  BY GoodMonotone
<1> QED BY <1>1, <1>6, <1>7 DEF process_bytes

\* The detection timer, the operator and the clock keep a session good.
LEMMA LocalGood ==
    ASSUME NEW p \in Peers, NEW H, NEW s, GoodSession(p, s, H)
    PROVE  /\ GoodSession(p, check_timeout(p, s), H)
           /\ GoodSession(p, admin_down(s), H)
           /\ GoodSession(p, admin_up(s), H)
           /\ GoodSession(p, start_poll(s), H)
           /\ GoodSession(p, aged(s), H)
<1>1. GoodSession(p, declare_down(s), H)
  BY ZenonT(40) DEF declare_down, GoodSession, Session, States, Diagnostics
<1>2. GoodSession(p, [declare_down(s) EXCEPT !.pollStart = None], H)
  BY <1>1 DEF GoodSession, Session
<1>3. GoodSession(p, check_timeout(p, s), H)
  BY <1>1, <1>2 DEF check_timeout
<1>4. GoodSession(p, admin_down(s), H)
  BY ZenonT(40) DEF admin_down, GoodSession, Session, States, Diagnostics
<1>5. GoodSession(p, admin_up(s), H)
  BY ZenonT(40) DEF admin_up, GoodSession, Session, States, Diagnostics
<1>6. GoodSession(p, start_poll(s), H)
  BY ConfigAssumption DEF start_poll, GoodSession, Session, Ages
<1>7. \A a \in Ages \union {None} : OlderBy1(a) \in Ages \union {None}
  BY ConfigAssumption DEF OlderBy1, Ages, None
<1>8. GoodSession(p, aged(s), H)
  BY <1>7 DEF aged, GoodSession, Session
<1> QED BY <1>3, <1>4, <1>5, <1>6, <1>8

\* FinishStep, the common end of every `step`, preserves IInv when the session
\* it continues from and the packets already sent are good.
LEMMA FinishStepGood ==
    ASSUME IInv, NEW p \in Peers, NEW s, NEW age \in Ages,
           NEW got \in SUBSET net[p], NEW out,
           FinishStep(p, s, age, got, out),
           heard \subseteq heard', heard' \subseteq Peers,
           mode' = mode,
           GoodSession(p, s, heard'),
           \A pkt \in out : GoodPacket(Other(p), pkt, heard')
    PROVE  IInv'
<1> DEFINE q    == Other(p)
           due  == send_due(p, s, age)
           beat == IF due THEN {build_packet(p, s, s.pollStart # None, FALSE)} ELSE {}
           sent == IF due THEN after_build(p, s) ELSE s
<1>1. q \in Peers /\ q # p /\ Peers = {p, q}
  BY OtherPeer
<1>2. GoodSession(p, check_timeout(p, sent), heard')
  <2>1. GoodSession(p, sent, heard')
    BY BuildGood
  <2> QED BY <2>1, LocalGood
<1>3. \A pkt \in out \union beat : GoodPacket(q, pkt, heard')
  BY BuildGood
<1>4. /\ sess' = [sess EXCEPT ![p] = check_timeout(p, sent)]
      /\ sendAge' = [sendAge EXCEPT ![p] = IF due THEN 0 ELSE age]
      /\ Transmit(p, got, out \union beat)
  BY DEF FinishStep
<1>5. PICK kept \in SUBSET (out \union beat), gone \in SUBSET got :
        /\ net' = [net EXCEPT ![p] = @ \ gone, ![q] = @ \union kept]
        /\ faults' = faults \/ (faults > 0 /\ faults' = faults - FaultCost)
        /\ polls' = polls
  BY <1>4 DEF Transmit, NoFault, SomeFault
<1>6. \A r \in Peers : GoodSession(r, sess'[r], heard')
  <2>1. sess \in [Peers -> Session]
    BY DEF IInv, TypeOK
  <2>2. GoodSession(q, sess[q], heard')
    BY <1>1, GoodMonotone DEF IInv
  <2> QED BY <1>1, <1>2, <1>4, <2>1, <2>2
<1>7. \A r \in Peers : \A pkt \in net'[r] : GoodPacket(r, pkt, heard')
  <2>1. net \in [Peers -> SUBSET Packet]
    BY DEF IInv, TypeOK
  <2>2. net'[p] \subseteq net[p] /\ net'[q] \subseteq net[q] \union (out \union beat)
    BY <1>1, <1>5, <2>1
  <2>3. \A r \in Peers : \A pkt \in net[r] : GoodPacket(r, pkt, heard')
    BY GoodMonotone DEF IInv
  <2> QED BY <1>1, <1>3, <2>2, <2>3
<1>8. TypeOK'
  <2>1. sess' \in [Peers -> Session]
    BY <1>2, <1>4 DEF IInv, TypeOK, GoodSession
  <2>2. sendAge' \in [Peers -> Ages]
    BY <1>4, ConfigAssumption DEF IInv, TypeOK, Ages
  <2>3. net' \in [Peers -> SUBSET Packet]
    <3>1. kept \subseteq Packet
      BY <1>3 DEF GoodPacket
    <3> QED BY <1>1, <1>5, <3>1 DEF IInv, TypeOK
  <2>4. faults' \in 0 .. MaxFaults
    BY <1>5, LinkAssumption DEF IInv, TypeOK
  <2> QED BY <1>5, <2>1, <2>2, <2>3, <2>4 DEF IInv, TypeOK
<1> QED BY <1>6, <1>7, <1>8 DEF IInv

\* A step that only replaces one session by a good one preserves IInv.
LEMMA OneSessionGood ==
    ASSUME IInv, NEW p \in Peers, NEW s, GoodSession(p, s, heard),
           sess' = [sess EXCEPT ![p] = s],
           faults' = faults \/ (faults > 0 /\ faults' = faults - FaultCost),
           polls' = polls \/ (polls > 0 /\ polls' = polls - 1),
           UNCHANGED <<net, heard>>,
           mode' \in [Peers -> {"running", "failed", "crashed"}],
           sendAge' \in [Peers -> Ages]
    PROVE  IInv'
<1>1. faults' \in 0 .. MaxFaults /\ polls' \in 0 .. MaxPolls
  BY LinkAssumption DEF IInv, TypeOK
<1>2. sess' \in [Peers -> Session] /\ \A r \in Peers : GoodSession(r, sess'[r], heard)
  BY DEF IInv, TypeOK, GoodSession
<1> QED BY <1>1, <1>2 DEF IInv, TypeOK

\* IInv is inductive.
LEMMA Inductive == IInv /\ [Next]_vars => IInv'
<1> SUFFICES ASSUME IInv, [Next]_vars PROVE IInv'
  OBVIOUS
<1>0. \A p \in Peers : /\ GoodSession(p, sess[p], heard) /\ sendAge[p] \in Ages
                        /\ net[p] \subseteq Packet
  BY DEF IInv, TypeOK
<1>1. ASSUME NEW p \in Peers, StepIdle(p) PROVE IInv'
  <2>1. heard' = heard /\ mode' = mode /\ heard' \subseteq Peers
    BY <1>1 DEF StepIdle, IInv, TypeOK
  <2>2. FinishStep(p, sess[p], sendAge[p], {}, {})
    BY <1>1 DEF StepIdle
  <2> QED BY <1>0, <2>1, <2>2, FinishStepGood
<1>2. ASSUME NEW p \in Peers, NEW pkt \in net[p], StepReceive(p, pkt) PROVE IInv'
  <2> DEFINE r == process_bytes(p, sess[p], pkt)
             s == IF r.respond THEN after_build(p, r.s) ELSE r.s
             out == IF r.respond THEN {build_packet(p, r.s, FALSE, TRUE)} ELSE {}
  <2>1. /\ FinishStep(p, s, IF r.respond THEN 0 ELSE sendAge[p], {pkt}, out)
        /\ heard' = IF r.accepted THEN heard \union {p} ELSE heard
        /\ mode' = mode
    BY <1>2 DEF StepReceive
  <2>2. GoodPacket(p, pkt, heard)
    BY <1>2 DEF IInv
  <2>3. GoodSession(p, r.s, heard')
    BY <1>0, <2>1, <2>2, ProcessGood
  <2>4. GoodSession(p, s, heard') /\ \A x \in out : GoodPacket(Other(p), x, heard')
    BY <2>3, BuildGood
  <2>5. heard \subseteq heard' /\ heard' \subseteq Peers
    BY <2>1 DEF IInv, TypeOK
  <2>6. (IF r.respond THEN 0 ELSE sendAge[p]) \in Ages /\ {pkt} \in SUBSET net[p]
    BY <1>0, ConfigAssumption DEF Ages
  <2> HIDE DEF s, out, r
  <2> QED BY <2>1, <2>4, <2>5, <2>6, FinishStepGood
<1>3. ASSUME NEW p \in Peers, NEW pkt \in net[p], StepError(p, pkt) PROVE IInv'
  <2>1. \A q \in Peers : net'[q] \subseteq net[q]
    BY <1>3 DEF StepError, IInv, TypeOK
  <2>2. TypeOK'
    BY <1>3 DEF StepError, NoFault, IInv, TypeOK
  <2> QED BY <1>3, <2>1, <2>2 DEF StepError, IInv
<1>4. ASSUME NEW p \in Peers, AdminDown(p) PROVE IInv'
  BY <1>0, <1>4, OneSessionGood, LocalGood
     DEF AdminDown, Fault, SomeFault, IInv, TypeOK
<1>5. ASSUME NEW p \in Peers, AdminUp(p) PROVE IInv'
  BY <1>0, <1>5, OneSessionGood, LocalGood DEF AdminUp, NoFault, IInv, TypeOK
<1>6. ASSUME NEW p \in Peers, StartPoll(p) PROVE IInv'
  BY <1>0, <1>6, OneSessionGood, LocalGood
     DEF StartPoll, IInv, TypeOK
<1>7. ASSUME NEW p \in Peers, Crash(p) PROVE IInv'
  <2>1. \A q \in Peers : net'[q] \subseteq net[q]
    BY <1>7 DEF Crash, IInv, TypeOK
  <2>2. TypeOK'
    BY <1>7, LinkAssumption DEF Crash, Fault, SomeFault, IInv, TypeOK
  <2> QED BY <1>7, <2>1, <2>2 DEF Crash, IInv
<1>8. ASSUME NEW p \in Peers, Restart(p) PROVE IInv'
  <2>1. PICK n \in Seeds : sess' = [sess EXCEPT ![p] = NewSession(n)]
    BY <1>8 DEF Restart
  <2>2. GoodSession(p, NewSession(n), heard)
    BY NewGood, LinkAssumption
  <2>3. MaxAge \in Ages
    BY ConfigAssumption DEF Ages
  <2> QED BY <1>8, <2>1, <2>2, <2>3, OneSessionGood DEF Restart, NoFault, IInv, TypeOK
<1>9. CASE Tick
  <2>1. \A q \in Peers : GoodSession(q, aged(sess[q]), heard)
    BY <1>0, LocalGood
  <2>2. \A q \in Peers : OlderBy1(sendAge[q]) \in Ages
    BY <1>0, ConfigAssumption DEF OlderBy1, Ages, None
  <2>3. TypeOK'
    BY <1>9, <2>1, <2>2 DEF Tick, NoFault, IInv, TypeOK, GoodSession
  <2> QED BY <1>9, <2>1, <2>3 DEF Tick, IInv
<1>10. CASE UNCHANGED vars
  BY <1>10 DEF vars, IInv, TypeOK
<1> QED BY <1>1, <1>2, <1>3, <1>4, <1>5, <1>6, <1>7, <1>8, <1>9, <1>10 DEF Next, Step

\* Every reachable state of the two transports satisfies IInv.
THEOREM Invariance == Spec => []IInv
<1>1. Init => IInv
  <2> SUFFICES ASSUME Init PROVE IInv
    OBVIOUS
  <2>1. ASSUME NEW p \in Peers PROVE GoodSession(p, sess[p], heard)
    <3>1. sess[p] \in {NewSession(n) : n \in Seeds}
      BY DEF Init
    <3>2. PICK n \in Seeds : sess[p] = NewSession(n)
      BY <3>1
    <3>3. n \in Seqs
      BY LinkAssumption
    <3> QED BY <3>2, <3>3, NewGood
  <2>2. TypeOK
    <3>1. sess \in [Peers -> Session]
      <4>1. \A p \in Peers : sess[p] \in Session
        BY <2>1 DEF GoodSession
      <4>2. sess = [p \in Peers |-> sess[p]]
        BY Zenon DEF Init
      <4> QED BY <4>1, <4>2
    <3>2. MaxAge \in Ages /\ MaxFaults \in 0 .. MaxFaults /\ MaxPolls \in 0 .. MaxPolls
      <4>1. MaxFaults \in Nat /\ MaxPolls \in Nat
        BY LinkAssumption
      <4> QED BY <4>1, ConfigAssumption DEF Ages
    <3>3. sendAge \in [Peers -> Ages]
      BY <3>2 DEF Init
    <3>4. mode \in [Peers -> {"running", "failed", "crashed"}]
      BY DEF Init
    <3> QED BY <3>1, <3>2, <3>3, <3>4 DEF Init, TypeOK
  <2> QED BY <2>1, <2>2 DEF Init, IInv
<1> QED BY <1>1, Inductive, PTL DEF Spec

\* The sessions, the transports and the network keep their types.
THEOREM TypeCorrect == Spec => []TypeOK
<1>1. IInv => TypeOK
  BY DEF IInv
<1> QED BY <1>1, Invariance, PTL

\* No packet a session sends is refused by the reception rules of its peer's
\* process_packet, in any configuration and whatever faults occur.
THEOREM PacketsAcceptable == Spec => []NeverRefused
<1>1. IInv => NeverRefused
  BY OtherPeer, PeersAssumption DEF IInv, NeverRefused, GoodPacket, acceptable
<1> QED BY <1>1, Invariance, PTL

\* The handshake is sound: whoever is Up has been heard by its peer.
THEOREM HandshakeSound == Spec => []UpMeansHeard
<1>1. IInv => UpMeansHeard
  BY DEF IInv, UpMeansHeard, GoodSession
<1> QED BY <1>1, Invariance, PTL

-----------------------------------------------------------------------------
(***************************************************************************)
(* The detection timer, for prompt transports without demand mode that     *)
(* share their authentication.  Intervals are positive and more than one   *)
(* may pass (a multiplier of 1 lets the packet and the timer meet).  With  *)
(* a poll sequence a Final may overtake a packet sent before it, so that a *)
(* session goes Down again and back to its slow interval; then the         *)
(* detection time at the fast one has to cover it.                         *)
(***************************************************************************)
SlowInterval(p) == Larger(DesiredMinTx[p], SlowTx)

Steady ==
    /\ Urgent /\ FaultCost = 1 /\ DemandMode = {}
    /\ \A p \in Peers : /\ Auth[p] \in {"none", "simple"}
                        /\ Auth[p] = Auth[Other(p)] /\ Key[p] = Key[Other(p)]
                        /\ RequiredMinRx[p] > 0 /\ DetectMult[p] > 1
    /\ \/ MaxPolls = 0
       \/ \A p \in Peers : LET rx == RequiredMinRx[Other(p)]
                           IN  Larger(rx, DesiredMinTx[p]) * DetectMult[p] > Larger(SlowInterval(p), rx)

\* A packet on its way to p, and a session of p: what it carries is what its
\* sender is configured with, and the detection timer has not run down.
SteadyPacket(p, pkt) ==
    /\ pkt.st # "AdminDown" /\ ~pkt.demand
    /\ pkt.mult = DetectMult[Other(p)] /\ pkt.minrx = RequiredMinRx[Other(p)]
    /\ DesiredMinTx[Other(p)] <= pkt.dtx
    /\ pkt.auth = Auth[Other(p)] /\ pkt.sum = Key[Other(p)]

SteadySession(p, s) ==
    /\ s.st # "AdminDown" /\ s.diag # "DetectionTimeExpired" /\ ~s.rdemand
    /\ s.rminrx \in {1, RequiredMinRx[Other(p)]}
    /\ s.lastRx # None => /\ s.rmult = DetectMult[Other(p)] /\ DesiredMinTx[Other(p)] <= s.rdtx
                          /\ s.lastRx < detection_time(p, s)

\* p last heard its peer q no longer ago than q last sent, and q goes on sending.
InTime(p) ==
    LET q == Other(p)
    IN  /\ net[p] # {} \/ sess[p].lastRx # None => (q \in Passive => sess[q].rdiscr # Zero)
        /\ net[p] = {} /\ sess[p].lastRx # None => sess[p].lastRx <= sendAge[q]

\* Without poll sequences one packet at most is on its way to p, what it says of
\* its sender q is not too much, and whoever is Up stays so.
InOrder(p) ==
    LET q == Other(p)
    IN  /\ sess[p].pollStart = None
        /\ net[p] # {} => sendAge[q] = 0
        /\ \A x, y \in net[p] : x = y
        /\ \A x \in net[p] : /\ ~x.poll /\ effective_desired_min_tx(q, sess[q]) <= x.dtx
                             /\ x.st \in {"Init", "Up"} => sess[q].st \in {"Init", "Up"}
        /\ net[p] = {} /\ sess[p].lastRx # None => effective_desired_min_tx(q, sess[q]) <= sess[p].rdtx
        /\ sess[p].st = "Up" => /\ sess[q].st \in {"Init", "Up"}
                                /\ \A x \in net[p] : x.st # "Down"

Undisturbed ==
    faults = MaxFaults =>
        \A p \in Peers : /\ mode[p] = "running"
                         /\ SteadySession(p, sess[p])
                         /\ \A pkt \in net[p] : SteadyPacket(p, pkt)
                         /\ InTime(p)
                         /\ MaxPolls = 0 => InOrder(p)

\* A product with a factor above 1, and the greater of two products.
LEMMA Products ==
    /\ \A m, k \in Nat : m > 0 /\ k > 1 => m * k > m
    /\ \A m, n, k \in Nat : m <= n => m * k <= n * k
<1>1. ASSUME NEW m \in Nat, NEW k \in Nat, m > 0, k > 1 PROVE m * k > m
  <2>1. m * k = m + m * (k - 1) /\ k - 1 \in Nat /\ k - 1 >= 1
    BY <1>1
  <2>2. m * (k - 1) >= 1
    BY <1>1, <2>1
  <2> QED
    BY <2>1, <2>2
<1>2. ASSUME NEW m \in Nat, NEW n \in Nat, NEW k \in Nat, m <= n PROVE m * k <= n * k
  <2>1. n * k = m * k + (n - m) * k /\ n - m \in Nat
    BY <1>2
  <2>2. (n - m) * k >= 0
    BY <2>1
  <2> QED
    BY <2>1, <2>2
<1> QED
  BY <1>1, <1>2

\* What Steady says of a peer.
LEMMA SteadyPeer ==
    ASSUME Steady, NEW p \in Peers
    PROVE  /\ Other(p) \in Peers /\ Other(p) # p /\ Other(Other(p)) = p /\ Peers = {p, Other(p)} /\ Other(p) # Zero
           /\ Auth[p] = Auth[Other(p)] /\ Key[p] = Key[Other(p)] /\ ~keyed(p) /\ p \notin DemandMode
           /\ RequiredMinRx[p] \in Nat /\ RequiredMinRx[p] > 0 /\ DetectMult[p] \in Nat /\ DetectMult[p] > 1
           /\ DesiredMinTx[p] \in Nat /\ SlowTx \in Nat /\ SlowInterval(p) \in Nat
<1>1. /\ Other(p) \in Peers /\ Other(p) # p /\ Other(Other(p)) = p /\ Peers = {p, Other(p)} /\ Other(p) # Zero
  BY OtherPeer, PeersAssumption
<1>2. RequiredMinRx[p] \in Nat /\ DetectMult[p] \in Nat /\ DesiredMinTx[p] \in Nat /\ SlowTx \in Nat
  BY ConfigAssumption
<1>3. SlowInterval(p) \in Nat
  BY <1>2 DEF SlowInterval, Larger
<1> QED
  BY <1>1, <1>2, <1>3 DEF Steady, keyed

\* The intervals of a session.
LEMMA Intervals ==
    ASSUME Steady, NEW p \in Peers, NEW s \in Session, SteadySession(p, s)
    PROVE  /\ effective_desired_min_tx(p, s) \in Nat
           /\ DesiredMinTx[p] <= effective_desired_min_tx(p, s) /\ effective_desired_min_tx(p, s) <= SlowInterval(p)
           /\ s.rminrx \in Nat /\ 1 <= s.rminrx /\ s.rminrx <= RequiredMinRx[Other(p)]
           /\ transmit_interval(p, s) \in Nat /\ 1 <= transmit_interval(p, s)
           /\ ~remote_demand_active(s)
           /\ detection_time(p, s) = Larger(RequiredMinRx[p], s.rdtx) * s.rmult
<1>1. /\ effective_desired_min_tx(p, s) \in Nat
      /\ DesiredMinTx[p] <= effective_desired_min_tx(p, s) /\ effective_desired_min_tx(p, s) <= SlowInterval(p)
  BY SteadyPeer DEF effective_desired_min_tx, SlowInterval, Larger
<1>2. s.rminrx \in Nat /\ 1 <= s.rminrx /\ s.rminrx <= RequiredMinRx[Other(p)]
  <2>1. RequiredMinRx[Other(p)] \in Nat /\ RequiredMinRx[Other(p)] > 0
    BY SteadyPeer
  <2> QED
    BY <2>1 DEF SteadySession
<1>3. transmit_interval(p, s) \in Nat /\ 1 <= transmit_interval(p, s)
  BY <1>1, <1>2 DEF transmit_interval, Larger
<1>4. ~remote_demand_active(s)
  BY DEF SteadySession, remote_demand_active
<1> QED
  BY <1>1, <1>2, <1>3, <1>4 DEF detection_time

\* A session whose timer has not run down is left alone, and is not counted on.
LEMMA LeftAlone ==
    ASSUME Steady, NEW p \in Peers, NEW s \in Session, SteadySession(p, s)
    PROVE  check_timeout(p, s) = s /\ after_build(p, s) = s
<1>1. ~remote_demand_active(s) /\ ~keyed(p)
  BY Intervals, SteadyPeer
<1>2. ~rx_expired(p, s)
  <2>1. SUFFICES ASSUME s.lastRx # None PROVE ~(s.lastRx >= detection_time(p, s))
    BY DEF rx_expired
  <2>2. s.lastRx < detection_time(p, s) /\ s.lastRx \in Nat
    BY <2>1, ConfigAssumption DEF SteadySession, Session, Ages
  <2>3. detection_time(p, s) \in Nat
    <3>1. s.rdtx \in Nat /\ s.rmult \in Nat /\ RequiredMinRx[p] \in Nat
      BY SteadyPeer DEF Session
    <3> QED
      BY <3>1, Intervals DEF Larger
  <2> QED
    BY <2>2, <2>3
<1> QED
  BY <1>1, <1>2 DEF check_timeout, after_build

\* What a steady session sends.
LEMMA SteadySends ==
    ASSUME Steady, NEW p \in Peers, NEW s \in Session, SteadySession(p, s), NEW poll, NEW final
    PROVE  LET x == build_packet(p, s, poll, final)
           IN  /\ SteadyPacket(Other(p), x)
               /\ x.st = s.st /\ x.poll = poll /\ x.dtx = effective_desired_min_tx(p, s)
<1> DEFINE x == build_packet(p, s, poll, final)
<1>1. /\ x.st = s.st /\ x.poll = poll /\ x.dtx = effective_desired_min_tx(p, s) /\ x.demand = demand_bit(p, s)
      /\ x.mult = DetectMult[p] /\ x.minrx = RequiredMinRx[p] /\ x.auth = Auth[p] /\ x.sum = Key[p]
  BY DEF build_packet
<1>2. ~demand_bit(p, s) /\ Other(Other(p)) = p /\ s.st # "AdminDown"
  BY SteadyPeer DEF demand_bit, SteadySession
<1>3. DesiredMinTx[p] <= effective_desired_min_tx(p, s)
  BY Intervals
<1> HIDE DEF x
<1>4. SteadyPacket(Other(p), x)
  BY <1>1, <1>2, <1>3 DEF SteadyPacket
<1> QED
  BY <1>1, <1>4 DEF x

\* What a steady session makes of a packet: it accepts it, and starts its timer again.
LEMMA SteadyLearns ==
    ASSUME Steady, NEW p \in Peers, NEW s \in Session, SteadySession(p, s),
           NEW pkt \in Packet, SteadyPacket(p, pkt), acceptable(p, pkt), pkt.my = Other(p)
    PROVE  LET r == process_bytes(p, s, pkt)
           IN  /\ ~r.err /\ r.accepted /\ r.respond = pkt.poll
               /\ SteadySession(p, r.s)
               /\ r.s.lastRx = 0 /\ r.s.rdtx = pkt.dtx /\ r.s.rdiscr = Other(p)
               /\ r.s.st = next_state(s.st, pkt.st)
               /\ s.pollStart = None => r.s.pollStart = None
<1> DEFINE r == process_bytes(p, s, pkt)
           t == process_packet(s, pkt)
           q == Other(p)
<1>1. /\ ~keyed(p) /\ pkt.auth = Auth[p] /\ pkt.sum = Key[p]
  BY SteadyPeer DEF SteadyPacket
<1>2. auth_ok(p, pkt) /\ ~seq_replay(p, s, pkt) /\ note_seq(p, s, pkt) = s
  BY <1>1 DEF auth_ok, seq_replay, note_seq
<1>3. s.st # "AdminDown" /\ pkt.poll \in BOOLEAN
  BY DEF SteadySession, Packet
<1>4. r.s = t /\ ~r.err /\ r.accepted /\ r.respond = pkt.poll
  BY <1>2, <1>3 DEF process_bytes, must_respond
<1>5. /\ t.lastRx = 0 /\ t.rdtx = pkt.dtx /\ t.rmult = pkt.mult /\ t.rdemand = pkt.demand /\ t.rminrx = pkt.minrx
      /\ t.rdiscr = pkt.my /\ t.rst = pkt.st
      /\ t.st = next_state(s.st, pkt.st)
      /\ t.diag \in {s.diag, "NeighborSignaledDown"}
      /\ t.pollStart \in {None, s.pollStart}
  BY <1>3 DEF process_packet, learn, Session
<1>6. next_state(s.st, pkt.st) # "AdminDown"
  BY <1>3 DEF next_state, SteadyPacket, Packet, States
<1>7. /\ pkt.mult = DetectMult[q] /\ pkt.minrx = RequiredMinRx[q] /\ ~pkt.demand /\ DesiredMinTx[q] <= pkt.dtx
      /\ pkt.dtx \in Nat
  BY DEF SteadyPacket, Packet
<1> HIDE DEF t, r
<1>8. 0 < detection_time(p, t)
  <2>1. detection_time(p, t) = Larger(RequiredMinRx[p], pkt.dtx) * DetectMult[q]
    BY <1>5, <1>7 DEF detection_time, remote_demand_active
  <2>2. Larger(RequiredMinRx[p], pkt.dtx) \in Nat /\ Larger(RequiredMinRx[p], pkt.dtx) > 0
    BY <1>7, SteadyPeer DEF Larger
  <2>3. DetectMult[q] \in Nat /\ DetectMult[q] > 1
    BY SteadyPeer
  <2> QED
    BY <2>1, <2>2, <2>3, Products
<1>9. SteadySession(p, t)
  BY <1>5, <1>6, <1>7, <1>8 DEF SteadySession
<1> QED
  BY <1>4, <1>5, <1>9 DEF r

\* Before the first fault nothing is lost or repeated.
LEMMA NothingLost ==
    ASSUME Steady, IInv, NEW p \in Peers, NEW got, NEW pkts, Transmit(p, got, pkts), faults' = MaxFaults
    PROVE  /\ faults = MaxFaults /\ polls' = polls
           /\ net' = [net EXCEPT ![p] = @ \ got, ![Other(p)] = @ \union pkts]
<1>1. FaultCost = 1 /\ faults \in 0 .. MaxFaults /\ MaxFaults \in Nat
  BY LinkAssumption DEF Steady, IInv, TypeOK
<1>2. ~SomeFault
  BY <1>1 DEF SomeFault
<1>3. PICK kept \in SUBSET pkts, gone \in SUBSET got :
        /\ IF kept = pkts /\ gone = got THEN NoFault ELSE SomeFault
        /\ net' = [net EXCEPT ![p] = @ \ gone, ![Other(p)] = @ \union kept]
  BY Zenon DEF Transmit
<1>4. kept = pkts /\ gone = got /\ NoFault
  BY <1>2, <1>3
<1> QED
  BY <1>3, <1>4 DEF NoFault

\* The session s that p goes on with, which has taken the packets got: what the rest of `step` and the
\* other end need of it.
Continues(p, s, got) ==
    LET old == sess[p]
    IN  /\ s \in Session /\ SteadySession(p, s)
        /\ \/ got = {} /\ s = old
           \/ \E pkt \in net[p] : /\ got = {pkt} /\ s.lastRx = 0 /\ s.rdtx = pkt.dtx /\ s.rdiscr = Other(p)
                                  /\ s.st = next_state(old.st, pkt.st)
                                  /\ old.pollStart = None => s.pollStart = None

\* What p sends with its session s.
Sends(p, s, new) ==
    /\ \A x \in new : SteadyPacket(Other(p), x) /\ x.st = s.st /\ x.dtx = effective_desired_min_tx(p, s)
    /\ new # {} => (p \in Passive => s.rdiscr # Zero)

\* Without poll sequences: one packet, when its time has come.
SendsAlone(p, s, new) ==
    /\ \A x, y \in new : x = y
    /\ \A x \in new : ~x.poll
    /\ new # {} => sendAge[p] # 0

\* Who is Up stays Up, and who is not Down does not go Down.
LEMMA StaysUp ==
    ASSUME NEW p \in Peers, NEW s, NEW got, Continues(p, s, got), InOrder(p),
           \A x \in net[p] : x.st # "AdminDown" /\ x.st \in States
    PROVE  /\ sess[p].st = "Up" => s.st = "Up"
           /\ sess[p].st \in {"Init", "Up"} => s.st \in {"Init", "Up"}
           /\ s.st = "Up" => sess[p].st = "Up" \/ \E x \in got : x.st \in {"Init", "Up"}
<1>1. CASE got = {} /\ s = sess[p]
  BY <1>1
<1>2. ASSUME NEW pkt \in net[p], got = {pkt}, s.st = next_state(sess[p].st, pkt.st)
      PROVE  /\ sess[p].st = "Up" => s.st = "Up"
             /\ sess[p].st \in {"Init", "Up"} => s.st \in {"Init", "Up"}
             /\ s.st = "Up" => sess[p].st = "Up" \/ \E x \in got : x.st \in {"Init", "Up"}
  <2>1. pkt.st # "AdminDown" /\ (sess[p].st = "Up" => pkt.st # "Down")
    BY DEF InOrder
  <2> QED
    BY <1>2, <2>1 DEF next_state
<1> QED
  BY <1>1, <1>2 DEF Continues

\* The interval of a session that stays Up does not grow.
LEMMA NoSlower ==
    ASSUME Steady, NEW p \in Peers, NEW s, NEW t, t.st = "Up" => s.st = "Up"
    PROVE  effective_desired_min_tx(p, s) <= effective_desired_min_tx(p, t)
<1> QED
  BY SteadyPeer DEF effective_desired_min_tx, Larger

\* A step of p that goes on with s, takes got and sends new: both ends stay in time.
LEMMA StepInTime ==
    ASSUME Steady, IInv, NEW p \in Peers, NEW s, NEW got, NEW new, Continues(p, s, got), Sends(p, s, new),
           InTime(p), InTime(Other(p)),
           sess' = [sess EXCEPT ![p] = s],
           sendAge'[Other(p)] = sendAge[Other(p)],
           new = {} => sendAge'[p] = sendAge[p],
           net' = [net EXCEPT ![p] = @ \ got, ![Other(p)] = @ \union new]
    PROVE  InTime(p)' /\ InTime(Other(p))'
<1> DEFINE q == Other(p)
<1>1. q \in Peers /\ q # p /\ Other(q) = p /\ q # Zero
  BY SteadyPeer
<1>2. sess'[p] = s /\ sess'[q] = sess[q] /\ net'[p] = net[p] \ got /\ net'[q] = net[q] \union new
  BY <1>1 DEF IInv, TypeOK
<1>3. \/ got = {} /\ s = sess[p]
      \/ got # {} /\ net[p] # {} /\ s.lastRx = 0 /\ s.rdiscr = q
  <2>1. ASSUME NEW pkt \in net[p], got = {pkt}, s.lastRx = 0, s.rdiscr = q
        PROVE  got # {} /\ net[p] # {} /\ s.lastRx = 0 /\ s.rdiscr = q
    BY <2>1
  <2>2. \/ got = {} /\ s = sess[p]
        \/ \E pkt \in net[p] : got = {pkt} /\ s.lastRx = 0 /\ s.rdiscr = q
    BY DEF Continues
  <2> HIDE DEF q
  <2> QED
    BY <2>1, <2>2
<1>4. sendAge[q] \in Nat /\ sendAge[p] \in Nat /\ 0 # None
  BY <1>1, ConfigAssumption DEF IInv, TypeOK, Ages, None
<1> HIDE DEF q
<1>5. InTime(p)'
  <2>1. /\ net[p] # {} \/ sess[p].lastRx # None => (q \in Passive => sess[q].rdiscr # Zero)
        /\ net[p] = {} /\ sess[p].lastRx # None => sess[p].lastRx <= sendAge[q]
    BY DEF InTime, q
  <2>2. /\ net'[p] # {} \/ sess'[p].lastRx # None => (q \in Passive => sess'[q].rdiscr # Zero)
        /\ net'[p] = {} /\ sess'[p].lastRx # None => sess'[p].lastRx <= sendAge'[q]
    <3>1. CASE got = {} /\ s = sess[p]
      BY <1>2, <2>1, <3>1 DEF q
    <3>2. CASE got # {} /\ net[p] # {} /\ s.lastRx = 0 /\ s.rdiscr = q
      BY <1>2, <1>4, <2>1, <3>2 DEF q
    <3> QED
      BY <1>3, <3>1, <3>2
  <2> QED
    BY <2>2 DEF InTime, q
<1>6. InTime(q)'
  <2>1. /\ net[q] # {} \/ sess[q].lastRx # None => (p \in Passive => sess[p].rdiscr # Zero)
        /\ net[q] = {} /\ sess[q].lastRx # None => sess[q].lastRx <= sendAge[p]
    BY <1>1 DEF InTime, q
  <2>2. sess[p].rdiscr # Zero => s.rdiscr # Zero
    BY <1>1, <1>3
  <2>3. new # {} => (p \in Passive => s.rdiscr # Zero)
    BY DEF Sends
  <2>4. /\ net'[q] # {} \/ sess'[q].lastRx # None => (p \in Passive => sess'[p].rdiscr # Zero)
        /\ net'[q] = {} /\ sess'[q].lastRx # None => sess'[q].lastRx <= sendAge'[p]
    BY <1>2, <2>1, <2>2, <2>3
  <2> QED
    BY <1>1, <2>4 DEF InTime
<1> QED
  BY <1>5, <1>6 DEF q

\* And so they stay in order, without poll sequences.
LEMMA StepInOrder ==
    ASSUME Steady, IInv, NEW p \in Peers, NEW s, NEW got, NEW new, Continues(p, s, got), Sends(p, s, new),
           SendsAlone(p, s, new), InOrder(p), InOrder(Other(p)),
           \A x \in net[p] : x.st # "AdminDown",
           sess' = [sess EXCEPT ![p] = s],
           sendAge'[Other(p)] = sendAge[Other(p)],
           sendAge'[p] = IF new = {} THEN sendAge[p] ELSE 0,
           net' = [net EXCEPT ![p] = @ \ got, ![Other(p)] = @ \union new]
    PROVE  InOrder(p)' /\ InOrder(Other(p))'
<1> DEFINE q == Other(p)
           tx(o) == effective_desired_min_tx(p, o)
           txq == effective_desired_min_tx(q, sess[q])
<1>1. q \in Peers /\ q # p /\ Other(q) = p
  BY SteadyPeer
<1>2. sess'[p] = s /\ sess'[q] = sess[q] /\ net'[p] = net[p] \ got /\ net'[q] = net[q] \union new
  BY <1>1 DEF IInv, TypeOK
<1>3. /\ sess[p].st = "Up" => s.st = "Up"
      /\ sess[p].st \in {"Init", "Up"} => s.st \in {"Init", "Up"}
      /\ s.st = "Up" => sess[p].st = "Up" \/ \E x \in got : x.st \in {"Init", "Up"}
  <2>1. \A x \in net[p] : x.st \in States
    BY DEF IInv, TypeOK, Packet
  <2> QED
    BY <2>1, StaysUp
<1>4. \/ got = {} /\ s = sess[p]
      \/ /\ got # {} /\ got \subseteq net[p] /\ s.lastRx = 0
         /\ \A x \in got : s.rdtx = x.dtx
         /\ sess[p].pollStart = None => s.pollStart = None
  BY DEF Continues
<1>5. tx(s) <= tx(sess[p]) /\ tx(s) \in Nat /\ tx(sess[p]) \in Nat
  BY <1>3, NoSlower, TxNat
<1>6. /\ sess[p].pollStart = None
      /\ net[p] # {} => sendAge[q] = 0
      /\ \A x, y \in net[p] : x = y
      /\ \A x \in net[p] : /\ ~x.poll /\ txq <= x.dtx
                           /\ x.st \in {"Init", "Up"} => sess[q].st \in {"Init", "Up"}
      /\ net[p] = {} /\ sess[p].lastRx # None => txq <= sess[p].rdtx
      /\ sess[p].st = "Up" => sess[q].st \in {"Init", "Up"} /\ \A x \in net[p] : x.st # "Down"
  BY DEF InOrder
<1>7. /\ sess[q].pollStart = None
      /\ net[q] # {} => sendAge[p] = 0
      /\ \A x, y \in net[q] : x = y
      /\ \A x \in net[q] : /\ ~x.poll /\ tx(sess[p]) <= x.dtx
                           /\ x.st \in {"Init", "Up"} => sess[p].st \in {"Init", "Up"}
      /\ net[q] = {} /\ sess[q].lastRx # None => tx(sess[p]) <= sess[q].rdtx
      /\ sess[q].st = "Up" => sess[p].st \in {"Init", "Up"} /\ \A x \in net[q] : x.st # "Down"
  BY <1>1 DEF InOrder
<1>8. /\ \A x \in new : x.st = s.st /\ x.dtx = tx(s) /\ ~x.poll
      /\ \A x, y \in new : x = y
      /\ new # {} => sendAge[p] # 0
  BY DEF Sends, SendsAlone
<1>9. /\ \A x \in net[q] : x.dtx \in Nat
      /\ sess[q].rdtx \in Nat
  BY <1>1 DEF IInv, TypeOK, Packet, Session
<1>10. effective_desired_min_tx(q, sess'[q]) = txq /\ effective_desired_min_tx(p, sess'[p]) = tx(s)
  BY <1>2
<1>11. InOrder(p)'
  <2> HIDE DEF q, tx, txq
  <2>1. /\ s.pollStart = None
        /\ net'[p] # {} => sendAge[q] = 0
        /\ \A x, y \in net'[p] : x = y
        /\ \A x \in net'[p] : /\ ~x.poll /\ txq <= x.dtx
                              /\ x.st \in {"Init", "Up"} => sess[q].st \in {"Init", "Up"}
    BY <1>2, <1>4, <1>6
  <2>2. net'[p] = {} /\ s.lastRx # None => txq <= s.rdtx
    BY <1>2, <1>4, <1>6
  <2>3. s.st = "Up" => sess[q].st \in {"Init", "Up"}
    BY <1>3, <1>4, <1>6
  <2>4. s.st = "Up" => \A x \in net'[p] : x.st # "Down"
    BY <1>2, <1>3, <1>4, <1>6
  <2> QED
    BY <1>2, <1>10, <2>1, <2>2, <2>3, <2>4 DEF InOrder, q
<1>12. InOrder(q)'
  <2> HIDE DEF q, tx, txq
  <2>1. net'[q] # {} => sendAge'[p] = 0
    BY <1>2, <1>7, <1>8
  <2>2. \A x, y \in net'[q] : x = y
    BY <1>2, <1>7, <1>8
  <2>3. \A x \in net'[q] : /\ ~x.poll /\ tx(s) <= x.dtx
                           /\ x.st \in {"Init", "Up"} => s.st \in {"Init", "Up"}
    BY <1>2, <1>3, <1>5, <1>7, <1>8, <1>9
  <2>4. net'[q] = {} /\ sess[q].lastRx # None => tx(s) <= sess[q].rdtx
    <3>1. net'[q] = {} => net[q] = {}
      BY <1>2
    <3>2. ASSUME net[q] = {}, sess[q].lastRx # None PROVE tx(s) <= sess[q].rdtx
      <4>1. tx(sess[p]) <= sess[q].rdtx
        BY <1>7, <3>2
      <4> QED
        BY <1>5, <1>9, <4>1
    <3> QED
      BY <3>1, <3>2
  <2>5. sess[q].st = "Up" => s.st \in {"Init", "Up"} /\ \A x \in net'[q] : x.st # "Down"
    BY <1>2, <1>3, <1>7, <1>8
  <2> QED
    BY <1>1, <1>2, <1>7, <1>10, <2>1, <2>2, <2>3, <2>4, <2>5, ZenonT(40) DEF InOrder
<1> QED
  BY <1>11, <1>12 DEF q

\* The interval of the peer is shorter than the detection time.
LEMMA Covered ==
    ASSUME Steady, IInv, NEW p \in Peers, SteadySession(p, sess[p]), SteadySession(Other(p), sess[Other(p)]),
           sess[p].lastRx # None, net[p] = {}, MaxPolls = 0 => InOrder(p)
    PROVE  transmit_interval(Other(p), sess[Other(p)]) < detection_time(p, sess[p])
<1> DEFINE q == Other(p)
           s == sess[p]
           t == sess[q]
           tx == effective_desired_min_tx(q, t)
           rx == RequiredMinRx[p]
           m == DetectMult[q]
           l == Larger(rx, s.rdtx)
           f == Larger(rx, DesiredMinTx[q])
<1>1. /\ q \in Peers /\ Other(q) = p /\ s \in Session /\ t \in Session
      /\ rx \in Nat /\ rx > 0 /\ m \in Nat /\ m > 1 /\ DesiredMinTx[q] \in Nat /\ SlowInterval(q) \in Nat
  BY SteadyPeer DEF IInv, TypeOK
<1>2. s.rdtx \in Nat /\ s.rmult = m /\ DesiredMinTx[q] <= s.rdtx
  BY <1>1 DEF SteadySession, Session
<1>3. detection_time(p, s) = l * m
  BY <1>1, <1>2, Intervals
<1>4. tx \in Nat /\ tx <= SlowInterval(q) /\ t.rminrx \in Nat /\ t.rminrx <= rx
  BY <1>1, Intervals
<1>5. transmit_interval(q, t) = Larger(tx, t.rminrx)
  BY DEF transmit_interval
<1> HIDE DEF q, s, t, tx, rx, m
<1>6. l \in Nat /\ l > 0 /\ rx <= l /\ s.rdtx <= l /\ f \in Nat /\ f <= l
  BY <1>1, <1>2 DEF Larger
<1>7. CASE MaxPolls = 0
  <2>1. tx <= s.rdtx
    BY <1>7 DEF InOrder, q, s, t, tx
  <2>2. Larger(tx, t.rminrx) <= l
    BY <1>1, <1>2, <1>4, <1>6, <2>1 DEF Larger
  <2>3. l * m > l /\ l * m \in Nat
    BY <1>1, <1>6, Products
  <2>4. Larger(tx, t.rminrx) \in Nat
    BY <1>4 DEF Larger
  <2> HIDE DEF l
  <2>5. Larger(tx, t.rminrx) < l * m
    BY <1>6, <2>2, <2>3, <2>4
  <2> QED
    BY <1>3, <1>5, <2>5 DEF q, s, t
<1>8. CASE \A o \in Peers : LET r == RequiredMinRx[Other(o)]
                            IN  Larger(r, DesiredMinTx[o]) * DetectMult[o] > Larger(SlowInterval(o), r)
  <2>1. f * m > Larger(SlowInterval(q), rx)
    BY <1>1, <1>8 DEF rx, m
  <2>2. f * m <= l * m /\ f * m \in Nat /\ l * m \in Nat
    BY <1>1, <1>6, Products
  <2>3. Larger(tx, t.rminrx) <= Larger(SlowInterval(q), rx) /\ Larger(tx, t.rminrx) \in Nat
        /\ Larger(SlowInterval(q), rx) \in Nat
    BY <1>1, <1>4 DEF Larger
  <2> HIDE DEF l, f
  <2>4. Larger(tx, t.rminrx) < l * m
    BY <2>1, <2>2, <2>3
  <2> QED
    BY <1>3, <1>5, <2>4 DEF q, s, t
<1> QED
  BY <1>7, <1>8 DEF Steady

\* A step of p before the first fault that goes on with s, having taken got and answered with out.
LEMMA StepSteady ==
    ASSUME Steady, IInv, NEW p \in Peers, NEW s, NEW age, NEW got, NEW out,
           FinishStep(p, s, age, got, out), faults' = MaxFaults, mode' = mode,
           faults = MaxFaults => Continues(p, s, got),
           age = IF out = {} THEN sendAge[p] ELSE 0,
           \A x \in out : \E final : x = build_packet(p, s, FALSE, final),
           out # {} => s.rdiscr # Zero,
           faults = MaxFaults /\ MaxPolls = 0 => out = {},
           Undisturbed
    PROVE  Undisturbed'
<1> DEFINE q == Other(p)
           due == send_due(p, s, age)
           pulse == build_packet(p, s, s.pollStart # None, FALSE)
           beat == IF due THEN {pulse} ELSE {}
           sent == IF due THEN after_build(p, s) ELSE s
           new  == out \union beat
<1>1. /\ sess' = [sess EXCEPT ![p] = check_timeout(p, sent)]
      /\ sendAge' = [sendAge EXCEPT ![p] = IF due THEN 0 ELSE age]
      /\ Transmit(p, got, new)
  BY DEF FinishStep
<1> HIDE DEF new
<1>2. /\ faults = MaxFaults
      /\ net' = [net EXCEPT ![p] = @ \ got, ![q] = @ \union new]
  BY <1>1, NothingLost
<1>3. Continues(p, s, got) /\ s \in Session /\ SteadySession(p, s)
  BY <1>2 DEF Continues
<1>4. sess' = [sess EXCEPT ![p] = s]
  BY <1>1, <1>3, LeftAlone
<1>5. /\ q \in Peers /\ q # p /\ Other(q) = p /\ Peers = {p, q}
  BY SteadyPeer
<1>6. \A o \in Peers : /\ mode[o] = "running" /\ SteadySession(o, sess[o]) /\ InTime(o)
                       /\ \A x \in net[o] : SteadyPacket(o, x)
                       /\ MaxPolls = 0 => InOrder(o)
  BY <1>2 DEF Undisturbed
<1>7. \A x \in new : \E poll, final : x = build_packet(p, s, poll, final)
  BY DEF new
<1>8. Sends(p, s, new)
  <2>1. \A x \in new : SteadyPacket(Other(p), x) /\ x.st = s.st /\ x.dtx = effective_desired_min_tx(p, s)
    BY <1>3, <1>7, SteadySends
  <2>2. due => (p \in Passive => s.rdiscr # Zero)
    BY DEF send_due, should_send_periodic
  <2>3. new # {} => out # {} \/ due
    BY DEF new
  <2> QED
    BY <2>1, <2>2, <2>3 DEF Sends
<1>9. DOMAIN sendAge = Peers /\ DOMAIN sess = Peers /\ DOMAIN net = Peers
  BY DEF IInv, TypeOK
<1>10. /\ sendAge'[q] = sendAge[q]
       /\ sendAge'[p] = IF new = {} THEN sendAge[p] ELSE 0
  <2>1. sendAge'[q] = sendAge[q] /\ sendAge'[p] = IF due THEN 0 ELSE age
    BY <1>1, <1>5, <1>9
  <2>2. new = {} <=> out = {} /\ ~due
    BY DEF new
  <2> HIDE DEF due
  <2> QED
    BY <2>1, <2>2
<1>11. InTime(p)' /\ InTime(q)'
  BY <1>2, <1>3, <1>4, <1>5, <1>6, <1>8, <1>10, StepInTime
<1>12. ASSUME MaxPolls = 0 PROVE InOrder(p)' /\ InOrder(q)'
  <2>1. out = {} /\ age = sendAge[p] /\ InOrder(p) /\ InOrder(q)
    BY <1>2, <1>5, <1>6, <1>12
  <2>2. s.pollStart = None
    BY <1>3, <2>1 DEF Continues, InOrder
  <2>3. \A x \in new : due /\ x = pulse
    BY <2>1 DEF new
  <2>4. due => sendAge[p] # 0
    <3>1. transmit_interval(p, s) \in Nat /\ 1 <= transmit_interval(p, s)
      BY <1>3, Intervals
    <3> QED
      BY <2>1, <3>1 DEF send_due
  <2>5. pulse.poll = FALSE
    BY <2>2 DEF build_packet
  <2> HIDE DEF due, pulse
  <2>6. SendsAlone(p, s, new)
    BY <2>3, <2>4, <2>5 DEF SendsAlone
  <2>7. \A x \in net[p] : x.st # "AdminDown"
    BY <1>6 DEF SteadyPacket
  <2> QED
    BY <1>2, <1>3, <1>4, <1>5, <1>8, <1>10, <2>1, <2>6, <2>7, StepInOrder
<1>13. SteadySession(p, sess'[p]) /\ SteadySession(q, sess'[q])
  BY <1>3, <1>4, <1>5, <1>6, <1>9
<1>14. \A o \in Peers : \A x \in net'[o] : SteadyPacket(o, x)
  <2>1. net'[p] \subseteq net[p] /\ net'[q] = net[q] \union new
    BY <1>2, <1>5, <1>9
  <2> QED
    BY <1>5, <1>6, <1>8, <2>1 DEF Sends
<1> HIDE DEF q
<1>15. \A o \in Peers : /\ mode'[o] = "running" /\ SteadySession(o, sess'[o]) /\ InTime(o)'
                        /\ \A x \in net'[o] : SteadyPacket(o, x)
                        /\ MaxPolls = 0 => InOrder(o)'
  BY <1>5, <1>6, <1>11, <1>12, <1>13, <1>14
<1> QED
  BY <1>15 DEF Undisturbed

\* A tick of the clock before the first fault.
LEMMA TickSteady ==
    ASSUME Steady, IInv, Tick, Undisturbed, faults' = MaxFaults
    PROVE  Undisturbed'
<1>1. /\ faults = MaxFaults
      /\ sess' = [p \in Peers |-> aged(sess[p])] /\ sendAge' = [p \in Peers |-> OlderBy1(sendAge[p])]
      /\ UNCHANGED <<mode, net>>
      /\ \A p \in Peers : Settled(p)
  BY DEF Tick, NoFault, Steady
<1>2. \A o \in Peers : /\ mode[o] = "running" /\ SteadySession(o, sess[o]) /\ InTime(o)
                       /\ \A x \in net[o] : SteadyPacket(o, x)
                       /\ MaxPolls = 0 => InOrder(o)
  BY <1>1 DEF Undisturbed
<1>3. SUFFICES ASSUME NEW p \in Peers
               PROVE  /\ mode'[p] = "running" /\ SteadySession(p, sess'[p]) /\ InTime(p)'
                      /\ \A x \in net'[p] : SteadyPacket(p, x)
                      /\ MaxPolls = 0 => InOrder(p)'
  BY DEF Undisturbed
<1> DEFINE q == Other(p)
           s == sess[p]
           t == sess[q]
<1>4. q \in Peers /\ Other(q) = p /\ s \in Session /\ t \in Session /\ sendAge[q] \in Ages /\ MaxAge \in Nat
  BY SteadyPeer, ConfigAssumption DEF IInv, TypeOK
<1>5. net[p] = {} /\ ~send_due(q, t, sendAge[q])
  BY <1>1, <1>2, <1>4 DEF Settled
<1>6. sess'[p] = aged(s) /\ sess'[q] = aged(t) /\ sendAge'[q] = OlderBy1(sendAge[q])
  BY <1>1, <1>4
<1>7. \A r \in Session : /\ aged(r).st = r.st /\ aged(r).diag = r.diag /\ aged(r).rdiscr = r.rdiscr /\ aged(r).rst = r.rst
                         /\ aged(r).rdemand = r.rdemand /\ aged(r).rminrx = r.rminrx /\ aged(r).rdtx = r.rdtx
                         /\ aged(r).rmult = r.rmult
                         /\ aged(r).lastRx = OlderBy1(r.lastRx) /\ aged(r).pollStart = OlderBy1(r.pollStart)
  BY DEF aged, Session
<1>8. /\ \A a \in Ages \union {None} : OlderBy1(a) = None <=> a = None
      /\ \A a \in Ages : OlderBy1(a) \in Ages /\ a <= OlderBy1(a) /\ OlderBy1(a) <= a + 1
      /\ \A a, b \in Ages : a <= b => OlderBy1(a) <= OlderBy1(b)
      /\ Ages \subseteq Nat /\ None \notin Ages
  BY <1>4 DEF OlderBy1, Ages, None
<1>9. s.lastRx \in Ages \union {None} /\ s.pollStart \in Ages \union {None}
  BY <1>4 DEF Session
<1>10. effective_desired_min_tx(q, aged(t)) = effective_desired_min_tx(q, t)
  BY <1>4, <1>7 DEF effective_desired_min_tx
<1>11. detection_time(p, aged(s)) = detection_time(p, s)
  BY <1>4, <1>7 DEF detection_time, remote_demand_active, effective_desired_min_tx
<1> HIDE DEF q, s, t
<1>12. ASSUME s.lastRx # None PROVE OlderBy1(s.lastRx) <= OlderBy1(sendAge[q]) /\ OlderBy1(s.lastRx) < detection_time(p, s)
  <2>1. s.lastRx <= sendAge[q] /\ (q \in Passive => t.rdiscr # Zero)
    BY <1>2, <1>5, <1>12 DEF InTime, q, s, t
  <2>2. /\ ~remote_demand_active(t) /\ t.rminrx \in Nat /\ 1 <= t.rminrx /\ transmit_interval(q, t) \in Nat
    BY <1>2, <1>4, Intervals DEF t
  <2>3. should_send_periodic(q, t)
    BY <2>1, <2>2 DEF should_send_periodic
  <2>4. sendAge[q] < transmit_interval(q, t)
    <3>1. sendAge[q] \in Nat /\ ~(sendAge[q] >= transmit_interval(q, t))
      BY <1>4, <1>5, <1>8, <2>3 DEF send_due
    <3> QED
      BY <2>2, <3>1
  <2>5. transmit_interval(q, t) < detection_time(p, s)
    BY <1>2, <1>4, <1>5, <1>12, Covered DEF q, s, t
  <2>6. detection_time(p, s) \in Nat
    <3>1. s.rdtx \in Nat /\ s.rmult \in Nat /\ RequiredMinRx[p] \in Nat
      BY <1>4, SteadyPeer DEF Session
    <3>2. detection_time(p, s) = Larger(RequiredMinRx[p], s.rdtx) * s.rmult
      BY <1>2, <1>4, Intervals DEF s
    <3> QED
      BY <3>1, <3>2 DEF Larger
  <2>7. s.lastRx \in Ages
    BY <1>9, <1>12
  <2>8. OlderBy1(s.lastRx) <= OlderBy1(sendAge[q]) /\ OlderBy1(s.lastRx) <= s.lastRx + 1 /\ OlderBy1(s.lastRx) \in Nat
        /\ s.lastRx \in Nat /\ sendAge[q] \in Nat
    BY <1>4, <1>8, <2>1, <2>7
  <2> QED
    BY <2>1, <2>2, <2>4, <2>5, <2>6, <2>8
<1>13. /\ aged(s).lastRx = OlderBy1(s.lastRx) /\ aged(s).pollStart = OlderBy1(s.pollStart)
       /\ aged(s).rdtx = s.rdtx /\ aged(s).st = s.st
       /\ aged(t).rdiscr = t.rdiscr /\ aged(t).st = t.st
       /\ OlderBy1(s.lastRx) = None <=> s.lastRx = None
       /\ s.pollStart = None => OlderBy1(s.pollStart) = None
  BY <1>4, <1>7, <1>8, <1>9
<1>14. SteadySession(p, s) /\ SteadySession(q, t) /\ InTime(p)
  BY <1>2, <1>4 DEF s, t
<1>15. SteadySession(p, sess'[p])
  BY <1>4, <1>6, <1>7, <1>8, <1>9, <1>11, <1>12, <1>14, ZenonT(40) DEF SteadySession
<1>16. InTime(p)'
  <2>1. s.lastRx # None => (q \in Passive => t.rdiscr # Zero)
    BY <1>14 DEF InTime, q, s, t
  <2>2. /\ net'[p] = {}
        /\ sess'[p].lastRx # None => (q \in Passive => sess'[q].rdiscr # Zero)
        /\ sess'[p].lastRx # None => sess'[p].lastRx <= sendAge'[q]
    BY <1>1, <1>5, <1>6, <1>12, <1>13, <2>1
  <2> QED
    BY <2>2 DEF InTime, q
<1>17. ASSUME MaxPolls = 0 PROVE InOrder(p)'
  <2>1. InOrder(p)
    BY <1>2, <1>17
  <2>2. /\ s.pollStart = None
        /\ s.lastRx # None => effective_desired_min_tx(q, t) <= s.rdtx
        /\ s.st = "Up" => t.st \in {"Init", "Up"}
    BY <1>5, <2>1 DEF InOrder, q, s, t
  <2>3. /\ net'[p] = {} /\ sess'[p].pollStart = None
        /\ sess'[p].lastRx # None => effective_desired_min_tx(q, sess'[q]) <= sess'[p].rdtx
        /\ sess'[p].st = "Up" => sess'[q].st \in {"Init", "Up"}
    BY <1>1, <1>5, <1>6, <1>10, <1>13, <2>2
  <2> QED
    BY <2>3 DEF InOrder, q
<1> QED
  BY <1>1, <1>2, <1>5, <1>15, <1>16, <1>17

\* Nothing disturbs the timers before the first fault.
LEMMA SteadyStep == ASSUME Steady, IInv, Undisturbed, [Next]_vars PROVE Undisturbed'
<1>1. /\ FaultCost = 1 /\ faults \in 0 .. MaxFaults /\ MaxFaults \in Nat
      /\ \A p \in Peers : sess[p] \in Session /\ GoodSession(p, sess[p], heard)
  BY LinkAssumption DEF Steady, IInv, TypeOK
<1>2. SUFFICES ASSUME faults' = MaxFaults PROVE Undisturbed'
  BY DEF Undisturbed
<1>3. ~SomeFault
  BY <1>1, <1>2 DEF SomeFault
<1>4. ASSUME faults = MaxFaults, NEW p \in Peers
      PROVE  /\ mode[p] = "running" /\ SteadySession(p, sess[p])
             /\ \A x \in net[p] : SteadyPacket(p, x) /\ x \in Packet /\ acceptable(p, x) /\ x.my = Other(p)
             /\ MaxPolls = 0 => InOrder(p)
  <2>1. \A x \in net[p] : x \in Packet /\ acceptable(p, x) /\ x.my = Other(p)
    BY OtherPeer, PeersAssumption DEF IInv, GoodPacket, acceptable
  <2> QED
    BY <1>4, <2>1 DEF Undisturbed
<1>5. ASSUME NEW p \in Peers, StepIdle(p) PROVE Undisturbed'
  <2>1. FinishStep(p, sess[p], sendAge[p], {}, {}) /\ mode' = mode
    BY <1>5 DEF StepIdle
  <2>2. faults = MaxFaults => Continues(p, sess[p], {})
    BY <1>1, <1>4 DEF Continues
  <2> DEFINE none == {}
  <2>3. /\ sendAge[p] = IF none = {} THEN sendAge[p] ELSE 0
        /\ \A x \in none : \E final : x = build_packet(p, sess[p], FALSE, final)
        /\ none # {} => sess[p].rdiscr # Zero
    OBVIOUS
  <2>4. /\ FinishStep(p, sess[p], sendAge[p], none, none) /\ none = {}
        /\ faults = MaxFaults => Continues(p, sess[p], none)
    BY <2>1, <2>2
  <2> HIDE DEF none
  <2> QED
    BY <1>2, <2>1, <2>3, <2>4, StepSteady
<1>6. ASSUME NEW p \in Peers, NEW pkt \in net[p], StepReceive(p, pkt) PROVE Undisturbed'
  <2> DEFINE r == process_bytes(p, sess[p], pkt)
             s == IF r.respond THEN after_build(p, r.s) ELSE r.s
             out == IF r.respond THEN {build_packet(p, r.s, FALSE, TRUE)} ELSE {}
  <2>1. /\ FinishStep(p, s, IF r.respond THEN 0 ELSE sendAge[p], {pkt}, out)
        /\ mode' = mode
    BY <1>6 DEF StepReceive
  <2>2. Transmit(p, {pkt}, out \union (IF send_due(p, s, IF r.respond THEN 0 ELSE sendAge[p])
                                       THEN {build_packet(p, s, s.pollStart # None, FALSE)} ELSE {}))
    BY <2>1 DEF FinishStep
  <2>3. faults = MaxFaults
    BY <1>2, <2>2, NothingLost
  <2>4. /\ ~r.err /\ r.accepted /\ r.respond = pkt.poll
        /\ SteadySession(p, r.s)
        /\ r.s.lastRx = 0 /\ r.s.rdtx = pkt.dtx /\ r.s.rdiscr = Other(p)
        /\ r.s.st = next_state(sess[p].st, pkt.st)
        /\ sess[p].pollStart = None => r.s.pollStart = None
    BY <1>1, <1>4, <1>6, <2>3, SteadyLearns
  <2>5. r.s \in Session
    <3>1. GoodPacket(p, pkt, heard)
      BY <1>6 DEF IInv
    <3> QED
      BY <1>1, <3>1, ProcessGood DEF GoodSession
  <2> HIDE DEF r
  <2>6. s = r.s
    BY <2>4, <2>5, LeftAlone
  <2>7. Continues(p, s, {pkt})
    BY <1>6, <2>4, <2>5, <2>6 DEF Continues
  <2>8. MaxPolls = 0 => out = {}
    BY <1>4, <1>6, <2>3, <2>4 DEF InOrder
  <2>9. \A x \in out : \E final : x = build_packet(p, s, FALSE, final)
    BY <2>6
  <2>10. (IF r.respond THEN 0 ELSE sendAge[p]) = IF out = {} THEN sendAge[p] ELSE 0
    BY <2>4
  <2>11. s.rdiscr # Zero
    BY <2>4, <2>6, SteadyPeer
  <2> HIDE DEF s, out
  <2> QED
    BY <1>2, <2>1, <2>7, <2>8, <2>9, <2>10, <2>11, StepSteady
<1>7. ASSUME NEW p \in Peers, NEW pkt \in net[p], StepError(p, pkt) PROVE FALSE
  <2>1. faults = MaxFaults
    BY <1>2, <1>7 DEF StepError, NoFault
  <2>2. ~process_bytes(p, sess[p], pkt).err
    BY <1>1, <1>4, <1>7, <2>1, SteadyLearns
  <2> QED
    BY <1>7, <2>2 DEF StepError
<1>8. ASSUME NEW p \in Peers, AdminDown(p) \/ Crash(p) PROVE FALSE
  BY <1>3, <1>8 DEF AdminDown, Crash, Fault
<1>9. ASSUME NEW p \in Peers, AdminUp(p) \/ Restart(p) PROVE FALSE
  <2>1. faults = MaxFaults
    BY <1>2, <1>9 DEF AdminUp, Restart, NoFault
  <2>2. mode[p] = "running" /\ sess[p].st # "AdminDown"
    BY <1>4, <2>1 DEF SteadySession
  <2> QED
    BY <1>9, <2>2 DEF AdminUp, Restart
<1>10. ASSUME NEW p \in Peers, StartPoll(p) PROVE Undisturbed'
  <2>1. /\ polls > 0 /\ sess' = [sess EXCEPT ![p] = start_poll(sess[p])]
        /\ UNCHANGED <<sendAge, mode, net, faults>>
    BY <1>10 DEF StartPoll
  <2>2. MaxPolls # 0
    BY <2>1 DEF IInv, TypeOK
  <2>3. DOMAIN sess = Peers
    BY DEF IInv, TypeOK
  <2> DEFINE s == start_poll(sess[p])
  <2>4. \A o \in Peers : /\ sess'[o].st = sess[o].st /\ sess'[o].diag = sess[o].diag /\ sess'[o].rdiscr = sess[o].rdiscr
                         /\ sess'[o].rst = sess[o].rst /\ sess'[o].rdemand = sess[o].rdemand
                         /\ sess'[o].rminrx = sess[o].rminrx /\ sess'[o].rdtx = sess[o].rdtx
                         /\ sess'[o].rmult = sess[o].rmult /\ sess'[o].lastRx = sess[o].lastRx
    <3>1. /\ s.st = sess[p].st /\ s.diag = sess[p].diag /\ s.rdiscr = sess[p].rdiscr
          /\ s.rst = sess[p].rst /\ s.rdemand = sess[p].rdemand /\ s.rminrx = sess[p].rminrx
          /\ s.rdtx = sess[p].rdtx /\ s.rmult = sess[p].rmult /\ s.lastRx = sess[p].lastRx
      BY <1>1 DEF start_poll, Session
    <3> HIDE DEF s
    <3> QED
      BY <2>1, <2>3, <3>1 DEF s
  <2>5. \A o \in Peers : detection_time(o, sess'[o]) = detection_time(o, sess[o])
    BY <2>4 DEF detection_time, remote_demand_active, effective_desired_min_tx
  <2>6. faults = MaxFaults
    BY <1>2, <2>1
  <2>7. ASSUME NEW o \in Peers
        PROVE  /\ mode'[o] = "running" /\ SteadySession(o, sess'[o]) /\ InTime(o)'
               /\ \A x \in net'[o] : SteadyPacket(o, x)
    <3>1. /\ mode[o] = "running" /\ SteadySession(o, sess[o]) /\ InTime(o)
          /\ \A x \in net[o] : SteadyPacket(o, x)
      BY <2>6 DEF Undisturbed
    <3>2. SteadySession(o, sess'[o])
      BY <2>4, <2>5, <3>1 DEF SteadySession
    <3>3. Other(o) \in Peers
      BY OtherPeer
    <3>4. InTime(o)'
      BY <2>1, <2>4, <3>1, <3>3 DEF InTime
    <3> QED
      BY <2>1, <3>1, <3>2, <3>4
  <2> QED
    BY <2>2, <2>7 DEF Undisturbed
<1>11. CASE Tick
  BY <1>2, <1>11, TickSteady
<1>12. CASE UNCHANGED vars
  BY <1>12 DEF vars, Undisturbed, InTime, InOrder
<1> QED
  BY <1>5, <1>6, <1>7, <1>8, <1>9, <1>10, <1>11, <1>12 DEF Next, Step

\* The detection timer of check_timeout never expires before the first fault, for every configuration,
\* any number of poll sequences and every interleaving of the two ends, under the conditions of Steady.
THEOREM OnlyLossIsDetected == ASSUME Steady PROVE Spec => []DetectionMeansLoss
<1>1. Init => Undisturbed
  <2> SUFFICES ASSUME Init, NEW p \in Peers
               PROVE  /\ mode[p] = "running" /\ SteadySession(p, sess[p])
                      /\ \A pkt \in net[p] : SteadyPacket(p, pkt)
                      /\ InTime(p) /\ InOrder(p)
    BY DEF Undisturbed
  <2>1. mode[p] = "running" /\ net[p] = {} /\ Other(p) \in Peers
    BY OtherPeer DEF Init
  <2>2. \A o \in Peers : \E n \in Seeds : sess[o] = NewSession(n)
    BY DEF Init
  <2>3. \A o \in Peers : /\ sess[o].st = "Down" /\ sess[o].diag = "NoDiag" /\ sess[o].rdemand = FALSE /\ sess[o].rminrx = 1
                         /\ sess[o].lastRx = None /\ sess[o].pollStart = None
    <3> TAKE o \in Peers
    <3>1. PICK n \in Seeds : sess[o] = NewSession(n)
      BY <2>2
    <3> QED
      BY <3>1 DEF NewSession
  <2>4. SteadySession(p, sess[p])
    BY <2>3 DEF SteadySession
  <2> QED
    BY <2>1, <2>3, <2>4 DEF InTime, InOrder
<1>2. IInv /\ Undisturbed /\ [Next]_vars => Undisturbed'
  BY SteadyStep
<1>3. Undisturbed => DetectionMeansLoss
  BY DEF Undisturbed, DetectionMeansLoss, SteadySession
<1> QED
  BY <1>1, <1>2, <1>3, Invariance, PTL DEF Spec
=============================================================================
