--------------------------- MODULE DtlsConnection ---------------------------
(***************************************************************************)
(* A DTLS 1.3 client and server (tpt-dtls/src/connection.rs) whose         *)
(* applications exchange datagrams over a network that may lose, duplicate *)
(* and reorder them, with the retransmission timer of retransmit.rs and    *)
(* the replay window of replay.rs.                                         *)
(*                                                                         *)
(* A handshake message is named by its sender, type and message_seq, which *)
(* determine its bytes: a sender builds each once and then repeats it.     *)
(* Hashes, key derivation, signatures and AEAD are ideal: a transcript is  *)
(* its own hash, the keys of an epoch are the transcript they were derived *)
(* from, CertificateVerify and Finished carry the transcript they cover,   *)
(* and a record opens only under the keys that sealed it.                  *)
(***************************************************************************)
EXTENDS Integers, Sequences, SequencesExt

-----------------------------------------------------------------------------
(***************************************************************************)
(* The anti-replay window (replay.rs).  A word is the set of its bits that *)
(* are 1, so that a shift is arithmetic on bit numbers; the 64 bits of a   *)
(* word and the number of words are parameters.                            *)
(***************************************************************************)
CONSTANTS
    WordBits,   \* 64 in the code
    Words,      \* window / WordBits
    SeqLimit    \* the largest sequence number check accepts

ASSUME ReplayAssumption ==
    /\ WordBits \in Nat \ {0} /\ Words \in Nat \ {0} /\ SeqLimit \in Nat

window == WordBits * Words

Word == SUBSET (0 .. WordBits - 1)

ReplayWindow == [base : Nat, words : [0 .. Words - 1 -> Word]]

NewWindow == [base |-> 0, words |-> [i \in 0 .. Words - 1 |-> {}]]

ShiftRight(w, n) == {b - n : b \in {x \in w : x >= n}}

ShiftLeft(w, n) == {b + n : b \in {x \in w : x + n < WordBits}}

\* Mutant: the bits that cross from a word to the one below it are dropped.
window_slide_NoCarry(words, n) ==
    LET ws == n \div WordBits
        bs == n % WordBits
    IN  [i \in 0 .. Words - 1 |-> IF i + ws < Words THEN ShiftRight(words[i + ws], bs) ELSE {}]

\* The bitmap moves towards bit 0 by n positions: each word takes the high part of
\* the word ws above it and the low part of the one after that.
window_slide(words, n) ==
    LET ws == n \div WordBits
        bs == n % WordBits
        low(i)  == IF i + ws < Words THEN ShiftRight(words[i + ws], bs) ELSE {}
        high(i) == IF bs # 0 /\ i + ws + 1 < Words
                   THEN ShiftLeft(words[i + ws + 1], WordBits - bs) ELSE {}
    IN  [i \in 0 .. Words - 1 |-> low(i) \union high(i)]

Smaller(a, b) == IF a <= b THEN a ELSE b

\* A number beyond the top slides the window until it is the highest one.
slid(w, seq) ==
    LET new_base == seq + 1 - window
    IN  IF seq >= w.base + window
        THEN [base |-> new_base, words |-> window_slide(w.words, Smaller(new_base - w.base, window))]
        ELSE w

\* check: the window afterwards, and whether the record is new, a replay or refused.
check(w, seq) ==
    LET s   == slid(w, seq)
        bit == seq - s.base
        wd  == bit \div WordBits
        b   == bit % WordBits
    IN  IF seq > SeqLimit THEN [w |-> w, answer |-> "overflow"]
        ELSE IF seq < w.base THEN [w |-> w, answer |-> "replay"]
        ELSE IF b \in s.words[wd] THEN [w |-> s, answer |-> "replay"]
        ELSE [w |-> [s EXCEPT !.words[wd] = @ \union {b}], answer |-> "new"]

\* The sequence numbers a window remembers.
Remembered(w) ==
    UNION {{w.base + i * WordBits + b : b \in w.words[i]} : i \in 0 .. Words - 1}

-----------------------------------------------------------------------------
(***************************************************************************)
(* A ReplayWindow asked about sequence numbers in any order.               *)
(***************************************************************************)
CONSTANT MaxSeq     \* the sequence numbers that arrive

ASSUME WindowAssumption == MaxSeq \in Nat

VARIABLES win, winAccepted, winLast

winVars == <<win, winAccepted, winLast>>

WinInit ==
    /\ win = NewWindow
    /\ winAccepted = {}             \* history: the numbers check has accepted
    /\ winLast = [seq |-> 0, answer |-> "none", known |-> FALSE, old |-> FALSE]

\* One call of check; winLast says what was asked, answered and true before.
Check(seq) ==
    LET r == check(win, seq)
    IN  /\ win' = r.w
        /\ winAccepted' = IF r.answer = "new" THEN winAccepted \union {seq} ELSE winAccepted
        /\ winLast' = [seq |-> seq, answer |-> r.answer,
                       known |-> seq \in winAccepted, old |-> seq < win.base]

WinNext == \E seq \in 0 .. MaxSeq : Check(seq)

WinSpec == WinInit /\ [][WinNext]_winVars

-----------------------------------------------------------------------------

\* However the numbers arrive and however far the window is moved, its bits are
\* the accepted numbers that are not below its base.
Faithful == Remembered(win) = {s \in winAccepted : s >= win.base}

\* check refuses exactly the numbers it accepted before and those that are older than the window,
\* and accepts every other up to SeqLimit ("A record whose sequence is older than the bottom of the
\* window, or whose sequence has already been accepted within the window", replay.rs), and the window
\* stays faithful however it is moved.
ReplayExact ==
    winLast.answer # "none" =>
        /\ winLast.answer = "new" <=> winLast.seq <= SeqLimit /\ ~winLast.known /\ ~winLast.old
        /\ winLast.answer = "overflow" <=> winLast.seq > SeqLimit
        /\ Faithful

-----------------------------------------------------------------------------
(***************************************************************************)
(* The connections.                                                        *)
(***************************************************************************)
CONSTANTS
    Trusted,        \* the roles whose raw public key the other's CertVerifier accepts
    MaxRetries,     \* 10 in the code
    MaxData,        \* application records each side sends
    MaxNet,         \* datagrams in flight in one direction
    MaxFaults, MayFail

Faults == {"lose", "duplicate", "reorder", "early"}

ASSUME ConnectionAssumption ==
    /\ Trusted \subseteq {"client", "server"}
    /\ MaxRetries \in Nat /\ MaxData \in Nat /\ MaxNet \in Nat /\ MaxFaults \in Nat
    /\ MayFail \subseteq Faults

VARIABLES
    conn,       \* the Connection of each role
    net,        \* the datagrams on their way to each role, oldest first
    read,       \* history: what each application has got from recv_app_data
    accepted,   \* history: <<epoch, sequence>> of the records each side let in
    faults,     \* faults left
    spoilt      \* history: a fault other than the loss of a first flight happened

vars == <<conn, net, read, accepted, faults, spoilt>>

Roles == {"client", "server"}
Peer(r) == IF r = "client" THEN "server" ELSE "client"

None == <<>>    \* Option::None, for keys and flights: a transcript is never empty

States == {"ClientStart", "ClientWaitServerHello", "ClientWaitServerFlight", "ClientConnected",
           "ServerWaitClientHello", "ServerWaitClientHelloCookie", "ServerWaitClientFlight",
           "ServerConnected"}

\* CH1 and CH2 are the ClientHello without and with the cookie, HRR the ServerHello
\* with the retry random; "data" is application data.
Types == {"CH1", "HRR", "CH2", "SH", "EE", "Cert", "CV", "Fin", "data"}

blank(role) ==
    [state |-> IF role = "client" THEN "ClientStart" ELSE "ServerWaitClientHello",
     transcript |-> <<>>, send_seq |-> [e \in 0 .. 2 |-> 0], msg_seq |-> 0,
     hs |-> None, app |-> None, peer_key |-> FALSE, connected |-> FALSE,
     out |-> <<>>, flight |-> None, armed |-> FALSE, retries |-> 0,
     recv_replay |-> [e \in 1 .. 2 |-> NewWindow], app_inbox |-> <<>>]

Init ==
    /\ conn = [r \in Roles |-> blank(r)]
    /\ net = [r \in Roles |-> <<>>]
    /\ read = [r \in Roles |-> <<>>]
    /\ accepted = [r \in Roles |-> {}]
    /\ faults = MaxFaults /\ spoilt = FALSE

-----------------------------------------------------------------------------
(* Sending. *)

\* outgoing_keys and incoming_keys: the two directions are told apart by the sender.
keys(c, epoch) == CASE epoch = 0 -> None [] epoch = 1 -> c.hs [] epoch = 2 -> c.app

handshake_epoch(c) == IF c.hs # None THEN 1 ELSE 0

\* Mutant: application data does not advance the sequence number.
encrypt_SameNonce(r, c, epoch, msg) ==
    [c EXCEPT !.send_seq[epoch] = IF msg.type = "data" THEN @ ELSE @ + 1,
              !.out = Append(@, [epoch |-> epoch, seq |-> c.send_seq[epoch], key |-> keys(c, epoch),
                                 msg |-> msg, over |-> c.transcript])]

\* A record takes the next sequence number of its epoch and joins the output.
encrypt(r, c, epoch, msg) ==
    [c EXCEPT !.send_seq[epoch] = @ + 1,
              !.out = Append(@, [epoch |-> epoch, seq |-> c.send_seq[epoch], key |-> keys(c, epoch),
                                 msg |-> msg, over |-> c.transcript])]

send_handshake(r, c, type) ==
    LET msg == [from |-> r, type |-> type, n |-> c.msg_seq]
    IN  [encrypt(r, c, IF c.connected THEN 2 ELSE handshake_epoch(c), msg) EXCEPT
            !.msg_seq = @ + 1, !.transcript = Append(@, msg)]

\* The flight is whatever waits in the output at that moment.
arm_flight(c) == [c EXCEPT !.flight = c.out, !.armed = TRUE, !.retries = 0]

clear_flight(c) == [c EXCEPT !.flight = None, !.armed = FALSE, !.retries = 0]

-----------------------------------------------------------------------------
(* Handshake messages: the connection afterwards and whether it is an Err. *)

Ok(c) == [c |-> c, err |-> FALSE]
Err(c) == [c |-> c, err |-> TRUE]

noted(c, msg) == [c EXCEPT !.transcript = Append(@, msg)]

\* The secrets of an epoch are bound to the transcript at that moment.
derive_handshake_secrets(c) == [c EXCEPT !.hs = c.transcript]

derive_app_secrets(c) == [c EXCEPT !.app = c.transcript]

\* A signature or MAC over the transcript verifies against the receiver's own.
verify_cv(c, rec) == c.peer_key /\ rec.over = c.transcript

finished_matches(c, rec) == rec.over = c.transcript

\* The server's flight under the handshake keys.
send_server_flight(c) ==
    LET send(d, type) == send_handshake("server", d, type)
    IN  send(send(send(send(c, "EE"), "Cert"), "CV"), "Fin")

\* A ClientHello without a cookie is answered with one; with the cookie, which the
\* client only echoes, it gets the ServerHello and the rest of the flight.
handle_client_hello(c, msg) ==
    LET hello == noted(c, msg)
        hrr == [send_handshake("server", hello, "HRR") EXCEPT !.state = "ServerWaitClientHelloCookie"]
        sh == [send_server_flight(derive_handshake_secrets(send_handshake("server", hello, "SH")))
                  EXCEPT !.state = "ServerWaitClientFlight"]
    IN  Ok(arm_flight(clear_flight(IF msg.type = "CH1" THEN hrr ELSE sh)))

handle_hrr(c, msg) ==
    Ok(arm_flight(send_handshake("client", noted(c, msg), "CH2")))

\* Mutant: the handshake keys are derived before the ServerHello is recorded.
handle_server_hello_EarlyKeys(c, msg) ==
    Ok(clear_flight([noted(derive_handshake_secrets(c), msg) EXCEPT !.state = "ClientWaitServerFlight"]))

handle_server_hello(c, msg) ==
    Ok(clear_flight([derive_handshake_secrets(noted(c, msg)) EXCEPT !.state = "ClientWaitServerFlight"]))

\* The client's Certificate, CertificateVerify and Finished; it is then connected.
send_client_flight(c) ==
    LET send(d, type) == send_handshake("client", d, type)
        sent == send(send(send(c, "Cert"), "CV"), "Fin")
    IN  arm_flight([derive_app_secrets(sent) EXCEPT !.connected = TRUE, !.state = "ClientConnected"])

\* What both sides do with the certificate and the signature of the other.
authenticate(r, c, rec) ==
    CASE rec.msg.type = "Cert" /\ Peer(r) \in Trusted -> Ok([noted(c, rec.msg) EXCEPT !.peer_key = TRUE])
      [] rec.msg.type = "CV" /\ verify_cv(c, rec) -> Ok(noted(c, rec.msg))
      [] OTHER -> Err(c)

handle_server_flight_message(c, rec) ==
    CASE rec.msg.type = "EE" -> Ok(noted(c, rec.msg))
      [] rec.msg.type = "Fin" -> IF finished_matches(c, rec)
                                 THEN Ok(send_client_flight(noted(c, rec.msg))) ELSE Err(c)
      [] OTHER -> authenticate("client", c, rec)

\* Mutant: the application keys are derived before the Finished is recorded.
handle_client_flight_message_AppEarly(c, rec) ==
    CASE rec.msg.type = "Fin" ->
            IF finished_matches(c, rec)
            THEN Ok(clear_flight([noted(derive_app_secrets(c), rec.msg) EXCEPT
                        !.connected = TRUE, !.state = "ServerConnected"]))
            ELSE Err(c)
      [] OTHER -> authenticate("server", c, rec)

handle_client_flight_message(c, rec) ==
    CASE rec.msg.type = "Fin" ->
            IF finished_matches(c, rec)
            THEN Ok(clear_flight([derive_app_secrets(noted(c, rec.msg)) EXCEPT
                        !.connected = TRUE, !.state = "ServerConnected"]))
            ELSE Err(c)
      [] OTHER -> authenticate("server", c, rec)

client_on_message(c, rec) ==
    CASE rec.msg.type = "HRR" /\ c.state = "ClientWaitServerHello" -> handle_hrr(c, rec.msg)
      [] rec.msg.type = "SH" /\ c.state = "ClientWaitServerHello" -> handle_server_hello(c, rec.msg)
      [] rec.msg.type \in {"EE", "Cert", "CV", "Fin"} /\ c.state = "ClientWaitServerFlight" ->
            handle_server_flight_message(c, rec)
      [] OTHER -> Err(c)

server_on_message(c, rec) ==
    CASE rec.msg.type \in {"CH1", "CH2"}
         /\ c.state \in {"ServerWaitClientHello", "ServerWaitClientHelloCookie"} ->
            handle_client_hello(c, rec.msg)
      [] rec.msg.type \in {"Cert", "CV", "Fin"} /\ c.state = "ServerWaitClientFlight" ->
            handle_client_flight_message(c, rec)
      [] OTHER -> Err(c)

on_handshake_message(r, c, rec) ==
    IF r = "client" THEN client_on_message(c, rec) ELSE server_on_message(c, rec)

-----------------------------------------------------------------------------
(* Receiving. *)

\* Mutant: the replay window is consulted for handshake records only.
fresh_NoAppReplay(c, rec) ==
    IF rec.epoch = 2 THEN [w |-> c.recv_replay[2], answer |-> "new"]
    ELSE check(c.recv_replay[rec.epoch], rec.seq)

\* The replay check of a protected record; it comes before the keys are looked up.
fresh(c, rec) == check(c.recv_replay[rec.epoch], rec.seq)

\* A record opens under the keys that sealed it.
open_protected(c, rec) == rec.key # None /\ keys(c, rec.epoch) = rec.key

\* One turn of the loop of process_datagram.  After a replay the position is moved
\* on twice: with records of one length the next record is passed over (aligned),
\* otherwise what follows no longer parses.  An Err leaves the rest unread.
process_record(r, aligned, acc, rec) ==
    LET k == fresh(acc.c, rec)
        seen == [acc.c EXCEPT !.recv_replay[rec.epoch] = k.w]
        through == [acc EXCEPT !.in = @ \union {<<rec.epoch, rec.seq>>}]
        handled(a, h) == [a EXCEPT !.c = h.c, !.stop = h.err]
    IN  IF acc.stop THEN acc
        ELSE IF acc.skip THEN [acc EXCEPT !.skip = FALSE]
        ELSE IF rec.epoch = 0 THEN handled(acc, on_handshake_message(r, acc.c, rec))
        ELSE IF k.answer # "new" THEN [acc EXCEPT !.c = seen, !.skip = aligned, !.stop = ~aligned]
        ELSE IF ~open_protected(seen, rec)
             THEN [through EXCEPT !.c = seen, !.stop = TRUE]
        ELSE IF rec.msg.type = "data"
             THEN [through EXCEPT !.c = [seen EXCEPT !.app_inbox = Append(@, rec.msg)]]
        ELSE handled(through, on_handshake_message(r, seen, rec))

process_datagram(r, aligned, datagram) ==
    LET after[n \in 0 .. Len(datagram)] ==
            IF n = 0 THEN [c |-> conn[r], in |-> accepted[r], skip |-> FALSE, stop |-> FALSE]
            ELSE process_record(r, aligned, after[n - 1], datagram[n])
    IN  after[Len(datagram)]

-----------------------------------------------------------------------------
(* The applications, the network and the clock. *)

Fault(kind) == kind \in MayFail /\ faults > 0 /\ faults' = faults - 1

NoFault == UNCHANGED <<faults, spoilt>>

Start ==
    /\ conn["client"].state = "ClientStart"
    /\ conn' = [conn EXCEPT !["client"] =
                    arm_flight(send_handshake("client", [@ EXCEPT !.state = "ClientWaitServerHello"], "CH1"))]
    /\ NoFault
    /\ UNCHANGED <<net, read, accepted>>

\* take_output: everything queued leaves in one datagram, which may be lost.  The
\* loss of a first flight is the one the handshake is said to survive.
TakeOutput(r) ==
    LET q == Peer(r)
        datagram == conn[r].out
    IN  /\ datagram # <<>> /\ Len(net[q]) < MaxNet
        /\ conn' = [conn EXCEPT ![r].out = <<>>]
        /\ \/ net' = [net EXCEPT ![q] = Append(@, datagram)] /\ NoFault
           \/ /\ Fault("lose") /\ UNCHANGED net
              /\ spoilt' = (spoilt \/ conn["server"].state # "ServerWaitClientHello")
        /\ UNCHANGED <<read, accepted>>

\* A datagram arrives: the oldest, or with a fault another one, or a copy of it.
\* The application goes on after an Err.
Receive(r) ==
    \E i \in 1 .. Len(net[r]), aligned \in BOOLEAN, copy \in BOOLEAN :
        LET result == process_datagram(r, aligned, net[r][i])
        IN  /\ conn' = [conn EXCEPT ![r] = result.c]
            /\ accepted' = [accepted EXCEPT ![r] = result.in]
            /\ net' = [net EXCEPT ![r] = IF copy THEN @ ELSE RemoveAt(@, i)]
            /\ IF i > 1 \/ copy
               THEN /\ Fault(IF i > 1 THEN "reorder" ELSE "duplicate") /\ ~(i > 1 /\ copy)
                    /\ spoilt' = TRUE
               ELSE NoFault
            /\ UNCHANGED read

\* The timer runs out in time: nothing is on its way and nothing is waiting to go.
InTime == \A r \in Roles : net[r] = <<>> /\ conn[r].out = <<>>

\* Mutant: retries are not counted.
Tick_Endless(r) ==
    /\ conn[r].armed
    /\ \/ InTime /\ NoFault
       \/ ~InTime /\ Fault("early") /\ spoilt' = TRUE
    /\ conn' = [conn EXCEPT ![r].out = @ \o conn[r].flight]
    /\ UNCHANGED <<net, read, accepted>>

\* tick when the timeout has elapsed: Retransmit or, after MaxRetries, Abort.
Tick(r) ==
    LET c == conn[r]
    IN  /\ c.armed
        /\ \/ InTime /\ NoFault
           \/ ~InTime /\ Fault("early") /\ spoilt' = TRUE
        /\ conn' = [conn EXCEPT ![r] =
                        IF c.retries < MaxRetries
                        THEN [c EXCEPT !.retries = @ + 1, !.out = @ \o c.flight]
                        ELSE [c EXCEPT !.retries = @ + 1, !.armed = FALSE]]
        /\ UNCHANGED <<net, read, accepted>>

send_app_data(r) ==
    /\ conn[r].connected /\ conn[r].send_seq[2] < MaxData
    /\ conn' = [conn EXCEPT ![r] = encrypt(r, @, 2, [from |-> r, type |-> "data", n |-> @.send_seq[2]])]
    /\ NoFault
    /\ UNCHANGED <<net, read, accepted>>

recv_app_data(r) ==
    /\ conn[r].app_inbox # <<>>
    /\ read' = [read EXCEPT ![r] = Append(@, Head(conn[r].app_inbox))]
    /\ conn' = [conn EXCEPT ![r].app_inbox = Tail(@)]
    /\ NoFault
    /\ UNCHANGED <<net, accepted>>

\* What the driver of a connection does of its own accord.
Drive ==
    \/ Start
    \/ \E r \in Roles : TakeOutput(r) \/ Receive(r) \/ Tick(r) \/ recv_app_data(r)

Next == Drive \/ \E r \in Roles : send_app_data(r)

Spec == Init /\ [][Next]_vars

\* ENABLED Drive, spelled out.
Pending ==
    \/ conn["client"].state = "ClientStart"
    \/ \E r \in Roles :
        \/ net[r] # <<>> \/ conn[r].app_inbox # <<>>
        \/ conn[r].out # <<>> /\ Len(net[Peer(r)]) < MaxNet
        \/ conn[r].armed /\ (InTime \/ ("early" \in MayFail /\ faults > 0))

\* Weak fairness of Drive: the drivers do not stop while there is something to send,
\* to receive or to wait for.  Faults, retries and data are bounded, so nothing else
\* can keep them busy for ever.
Fairness == []<>(~Pending) \/ []<><<Drive>>_vars

-----------------------------------------------------------------------------
(* Properties. *)

IsRecord(x) == /\ x.epoch \in 0 .. 2 /\ x.seq \in Nat /\ x.msg.type \in Types
               /\ (x.epoch = 0) = (x.key = None)

\* Connections and datagrams have their types, and only cleartext records have no key.
TypeOK ==
    /\ \A r \in Roles :
        /\ conn[r].state \in States /\ conn[r].retries \in 0 .. MaxRetries + 1
        /\ \A e \in 1 .. 2 : conn[r].recv_replay[e] \in ReplayWindow
        /\ \A x \in Range(conn[r].out) \union Range(conn[r].flight) : IsRecord(x)
        /\ \A d \in Range(net[r]) : \A x \in Range(d) : IsRecord(x)
    /\ faults \in 0 .. MaxFaults /\ spoilt \in BOOLEAN

\* Whatever is lost, repeated or reordered: a connected client shares the handshake
\* keys with the server and its transcript extends the server's, and a connected
\* server has a connected client with the same transcript and application keys.
Agreement ==
    LET c == conn["client"]
        s == conn["server"]
    IN  /\ c.connected => c.hs = s.hs /\ IsPrefix(s.transcript, c.transcript)
        /\ s.connected => c.connected /\ s.app = c.app /\ s.transcript = c.transcript

\* Records in the system that carry the same epoch, sequence number and keys of one
\* sender are the same record: no nonce seals two plaintexts, although flights are repeated.
NonceUnique ==
    \A r \in Roles :
        LET q == Peer(r)
            records == Range(conn[r].out) \union Range(conn[r].flight)
                       \union UNION {Range(d) : d \in Range(net[q])}
        IN  /\ \A x, y \in records :
                x.epoch = y.epoch /\ x.seq = y.seq /\ x.key = y.key => x = y
            /\ \A x \in records : x.seq < conn[r].send_seq[x.epoch]

\* An application reads each record its peer sent at most once, duplicated and
\* retransmitted datagrams notwithstanding.
DataOnce ==
    \A r \in Roles :
        LET got == read[r] \o conn[r].app_inbox
        IN  /\ IsInjective(got)
            /\ \A x \in Range(got) : x.from = Peer(r) /\ x.n < conn[Peer(r)].send_seq[2]

\* A record number is used once on both sides: it seals one plaintext, and its data is read at most once.
RecordsOnce == NonceUnique /\ DataOnce

\* The exchange settles: retransmission stops on both sides for good, neither keeping the other's timer
\* alive, and the handshake is then complete if at most a first flight was lost ("Handshake survives loss
\* of the first client flight (retransmission)", SPEC-NOTES.md).
Settles == <>[](/\ \A r \in Roles : ~conn[r].armed
                /\ spoilt \/ \A r \in Roles : conn[r].connected)

\* process_datagram "parses each record": a protected record that is new to the
\* receiver is let in, unless one before it in the datagram was an error.
FreshKept ==
    [][\A r \in Roles :
        Len(net'[r]) < Len(net[r]) /\ conn[r].connected /\ ~spoilt =>
            \E i \in 1 .. Len(net[r]) : net'[r] = RemoveAt(net[r], i)
                /\ \A x \in Range(net[r][i]) : x.epoch = 2 => <<2, x.seq>> \in accepted'[r]]_vars
=============================================================================
