--------------------------- MODULE SipTransaction ---------------------------
(***************************************************************************)
(* One SIP request and its responses: the client transaction and the       *)
(* server transaction of tpt-sip/src/transaction.rs with their drivers,    *)
(* over a transport that may lose messages.  Each action is an arm of one  *)
(* of the four event handlers.  A driver keeps the set of timers it was    *)
(* told to start; a fired timer is an event.  Responses are abstracted to  *)
(* their class.  Timers A, E and G are short; the others last much longer  *)
(* (64 T1, 32 s, T4): with Patient one fires only when nothing is in       *)
(* flight and the short ones have run out, without it at any time.         *)
(***************************************************************************)
EXTENDS Naturals, FiniteSets, TLAPS

CONSTANTS
    Scenarios,      \* the exchanges to consider, one of which the behaviour is about
    MaxRetransmit   \* how often a short timer fires before the long one is due

(***************************************************************************)
(* invite: TransactionKind is INVITE-class; reliable: the transport;       *)
(* provisional: the server's TU sends a 1xx before the final response;     *)
(* losses: messages the network may lose; patient: long timers wait until  *)
(* the exchange has come to rest.                                          *)
(***************************************************************************)
Scenario == [invite : BOOLEAN, reliable : BOOLEAN, provisional : BOOLEAN,
             losses : Nat, patient : BOOLEAN]

ASSUME SipAssumption == Scenarios \subseteq Scenario /\ MaxRetransmit \in Nat

VARIABLES
    sc,         \* the scenario
    cli,        \* the client transaction and its driver's timers
    srv,        \* the server transaction and its driver's timers
    toCli, toSrv,   \* messages in flight
    told,       \* responses delivered to the client's TU
    final,      \* the final response the server's TU has submitted, or "none"
    loss        \* losses left

vars == <<sc, cli, srv, toCli, toSrv, told, final, loss>>

Invite == sc.invite
Reliable == sc.reliable
Provisional == sc.provisional
Patient == sc.patient

Finals == {"2xx", "failure"}
Responses == Finals \union {"1xx"}
Short == {"A", "E", "G"}

ClientStates == IF Invite THEN {"ProceedingInvite", "Accepted", "CompletedInvite", "Terminated"}
                          ELSE {"Proceeding", "Completed", "Terminated"}
ServerStates == IF Invite THEN {"none", "ProceedingServer", "CompletedServer", "ConfirmedServer", "Terminated"}
                          ELSE {"none", "TryingServer", "ProceedingServerNonInvite", "CompletedServerNonInvite", "Terminated"}

\* start_timer ignores a zero duration, which D, I, J, K and M have on a reliable transport.
start_timer(name) == IF Reliable /\ name \in {"D", "I", "J", "K", "M"} THEN {} ELSE {name}

Retransmitter(name) == IF Reliable THEN {} ELSE {name}

\* client_invite and client_non_invite send the request on creation.
Init ==
    /\ sc \in Scenarios
    /\ cli = IF Invite
             THEN [state |-> "ProceedingInvite", count |-> 0, timers |-> Retransmitter("A") \union start_timer("B")]
             ELSE [state |-> "Proceeding", count |-> 0, timers |-> Retransmitter("E") \union start_timer("F")]
    /\ srv = [state |-> "none", count |-> 0, timers |-> {}, last_response |-> "none"]
    /\ toCli = {} /\ toSrv = {"request"}
    /\ told = {} /\ final = "none" /\ loss = sc.losses

-----------------------------------------------------------------------------
(* The drivers: what they do with the actions of one event. *)

\* The messages reach the network, or are lost.
Put(net, netNext, msgs) ==
    \/ netNext = net \union msgs /\ UNCHANGED loss
    \/ loss > 0 /\ msgs # {} /\ netNext = net /\ loss' = loss - 1

\* The client goes to state st, its driver stops and starts timers, sends and delivers.
ClientDo(st, stopped, started, send, deliver) ==
    /\ cli' = [cli EXCEPT !.state = st,
                          !.timers = IF st = "Terminated" THEN {} ELSE (@ \ stopped) \union started]
    /\ Put(toSrv, toSrv', send)
    /\ told' = told \union deliver
    /\ UNCHANGED <<sc, srv, final>>

ServerDo(st, stopped, started, send) ==
    /\ srv' = [srv EXCEPT !.state = st,
                          !.timers = IF st = "Terminated" THEN {} ELSE (@ \ stopped) \union started]
    /\ Put(toCli, toCli', send)
    /\ UNCHANGED <<sc, cli, told, final>>

MayFire(side, name) ==
    /\ name \in side.timers
    /\ Patient /\ name \notin Short =>
        /\ toCli = {} /\ toSrv = {}
        /\ \A t \in {cli, srv} : t.timers \intersect Short # {} => t.count >= MaxRetransmit

-----------------------------------------------------------------------------
(* client_invite_evt *)

\* The ACK to a failure, made from the request and the response.
build_ack == {"ACK"}

ClientInviteResponse_Untold(m) ==
    \/ /\ cli.state = "ProceedingInvite"
       /\ \/ m = "1xx" /\ ClientDo(cli.state, {}, {}, {}, {m})
          \/ m = "2xx" /\ ClientDo("Accepted", {}, start_timer("M"), {}, {m})
          \/ m = "failure" /\ ClientDo("CompletedInvite", {}, start_timer("D"), build_ack, {})
    \/ cli.state # "ProceedingInvite" /\ ClientDo(cli.state, {}, {}, {}, {})

ClientInviteResponse(m) ==
    \/ /\ cli.state = "ProceedingInvite"
       /\ \/ m = "1xx" /\ ClientDo(cli.state, {}, {}, {}, {m})
          \/ m = "2xx" /\ ClientDo("Accepted", {}, start_timer("M"), {}, {m})
          \/ /\ m = "failure"
             /\ IF Reliable THEN ClientDo("Terminated", {}, {}, build_ack, {m})
                ELSE ClientDo("CompletedInvite", {}, start_timer("D"), build_ack, {m})
    \/ cli.state = "Accepted" /\ ClientDo(cli.state, {}, start_timer("M"), {}, {m})
    \/ cli.state = "CompletedInvite" /\ ClientDo(cli.state, {}, {}, build_ack, {})
    \/ cli.state = "Terminated" /\ ClientDo(cli.state, {}, {}, {}, {})

(* client_non_invite_evt: every response completes the transaction, a 1xx too. *)

ClientOtherResponse(m) ==
    \/ cli.state = "Proceeding" /\ ClientDo("Completed", {}, start_timer("K"), {}, {m})
    \/ cli.state # "Proceeding" /\ ClientDo(cli.state, {}, {}, {}, {})

ClientReceives ==
    \E m \in toCli :
        /\ toCli' = toCli \ {m}
        /\ IF Invite THEN ClientInviteResponse(m) ELSE ClientOtherResponse(m)

\* Timers A and E retransmit the request while no final response has come.
ClientRetransmits(name) ==
    /\ MayFire(cli, name) /\ cli.count < MaxRetransmit
    /\ IF cli.state \in {"ProceedingInvite", "Proceeding"}
       THEN /\ cli' = [cli EXCEPT !.count = @ + 1]
            /\ Put(toSrv, toSrv', {"request"})
       ELSE /\ cli' = [cli EXCEPT !.timers = @ \ {name}]
            /\ UNCHANGED <<toSrv, loss>>
    /\ UNCHANGED <<sc, srv, toCli, told, final>>

\* The states in which each long timer ends the transaction; elsewhere it is ignored.
EndsIn_NoM(name) ==
    CASE name = "B" -> "ProceedingInvite"       [] name = "F" -> "Proceeding"
      [] name = "M" -> "CompletedInvite"        [] name = "D" -> "CompletedInvite"
      [] name = "K" -> "Completed"              [] name = "H" -> "CompletedServer"
      [] name = "I" -> "ConfirmedServer"        [] name = "J" -> "CompletedServerNonInvite"
      [] OTHER -> "none"

EndsIn(name) ==
    CASE name = "B" -> "ProceedingInvite"       [] name = "F" -> "Proceeding"
      [] name = "M" -> "Accepted"               [] name = "D" -> "CompletedInvite"
      [] name = "K" -> "Completed"              [] name = "H" -> "CompletedServer"
      [] name = "I" -> "ConfirmedServer"        [] name = "J" -> "CompletedServerNonInvite"
      [] OTHER -> "none"

ClientTimer(name) ==
    /\ name \notin Short /\ MayFire(cli, name)
    /\ ClientDo(IF cli.state = EndsIn(name) THEN "Terminated" ELSE cli.state, {name}, {}, {}, {})
    /\ UNCHANGED toCli

-----------------------------------------------------------------------------
(* server_invite_evt, server_non_invite_evt *)

LastResponse == {srv.last_response} \ {"none"}

\* A request without a transaction creates one (server_invite, server_non_invite);
\* a retransmission gets the last response again; an ACK confirms a failure.
ServerRequest_AnyAck(m) ==
    \/ srv.state = "none" /\ m = "request"
       /\ ServerDo(IF Invite THEN "ProceedingServer" ELSE "TryingServer", {}, {}, {})
    \/ srv.state = "CompletedServer" /\ ServerDo("ConfirmedServer", {}, start_timer("I"), {})
    \/ srv.state \notin {"none", "CompletedServer"} /\ ServerDo(srv.state, {}, {}, {})
    \/ srv.state = "none" /\ m # "request" /\ ServerDo(srv.state, {}, {}, {})

ServerRequest(m) ==
    \/ srv.state = "none" /\ m = "request"
       /\ ServerDo(IF Invite THEN "ProceedingServer" ELSE "TryingServer", {}, {}, {})
    \/ srv.state = "CompletedServer" /\ m = "ACK" /\ ServerDo("ConfirmedServer", {}, start_timer("I"), {})
    \/ /\ \/ srv.state \in {"ProceedingServer", "ConfirmedServer",
                            "ProceedingServerNonInvite", "CompletedServerNonInvite"}
          \/ srv.state = "CompletedServer" /\ m # "ACK"
       /\ ServerDo(srv.state, {}, {}, LastResponse)
    \/ /\ \/ srv.state \in {"TryingServer", "Terminated"}
          \/ srv.state = "none" /\ m # "request"
       /\ ServerDo(srv.state, {}, {}, {})

ServerReceives ==
    \E m \in toSrv :
        /\ toSrv' = toSrv \ {m}
        /\ ServerRequest(m)

\* What a response of the TU does to the state and the timers of the transaction.
RespondInvite(m) ==
    /\ srv.state = "ProceedingServer"
    /\ srv' = [srv EXCEPT
        !.last_response = m,
        !.state = CASE m = "1xx" -> @
                    [] m = "2xx" \/ Reliable -> "Terminated"
                    [] OTHER -> "CompletedServer",
        !.timers = CASE m = "1xx" -> @ \union Retransmitter("G")
                     [] m = "2xx" \/ Reliable -> {}
                     [] OTHER -> (@ \ {"G"}) \union start_timer("H")]

RespondOther(m) ==
    /\ srv.state \in {"TryingServer", "ProceedingServerNonInvite"}
    /\ srv' = [srv EXCEPT
        !.last_response = m,
        !.state = CASE m = "1xx" -> "ProceedingServerNonInvite"
                    [] m # "1xx" /\ Reliable /\ srv.state = "TryingServer" -> "Terminated"
                    [] OTHER -> "CompletedServerNonInvite",
        !.timers = IF m = "1xx" \/ Reliable THEN {} ELSE start_timer("J")]

\* The server's TU answers; a provisional response at most once.
Respond(m) ==
    /\ m = "1xx" => Provisional /\ srv.last_response = "none"
    /\ IF Invite THEN RespondInvite(m) ELSE m # "failure" /\ RespondOther(m)
    /\ Put(toCli, toCli', {m})
    /\ final' = IF m \in Finals THEN m ELSE final
    /\ UNCHANGED <<sc, cli, toSrv, told>>

\* Timer G retransmits the last response in ProceedingServer; it is stopped by a failure.
ServerRetransmits ==
    /\ MayFire(srv, "G") /\ srv.count < MaxRetransmit
    /\ srv' = [srv EXCEPT !.count = @ + 1]
    /\ Put(toCli, toCli', LastResponse)
    /\ UNCHANGED <<sc, cli, toSrv, told, final>>

ServerTimer(name) ==
    /\ name \notin Short /\ MayFire(srv, name)
    /\ ServerDo(IF srv.state = EndsIn(name) THEN "Terminated" ELSE srv.state, {name}, {}, {})
    /\ UNCHANGED toSrv

Drivers ==
    \/ ClientReceives \/ ServerReceives
    \/ \E name \in {"A", "E"} : ClientRetransmits(name)
    \/ ServerRetransmits
    \/ \E name \in {"B", "D", "F", "K", "M"} : ClientTimer(name)
    \/ \E name \in {"H", "I", "J"} : ServerTimer(name)

Answer == \E m \in Responses : Respond(m)

Next == Drivers \/ Answer

Spec == Init /\ [][Next]_vars

\* The drivers handle what arrives and what fires; the TU answers in the end.
LiveSpec == Spec /\ WF_vars(Drivers) /\ WF_vars(\E m \in Finals : Respond(m))

\* Each end of the exchange is driven on its own and no timer is forgotten.
TimedSpec ==
    /\ LiveSpec /\ WF_vars(ClientReceives) /\ WF_vars(ServerReceives)
    /\ \A name \in {"B", "D", "F", "K", "M"} : WF_vars(ClientTimer(name))
    /\ \A name \in {"H", "I", "J"} : WF_vars(ServerTimer(name))

-----------------------------------------------------------------------------
(* Properties. *)

\* Both transactions are in a state of their kind and hold only their own timers.
TypeOK ==
    /\ cli.state \in ClientStates /\ cli.count \in 0..MaxRetransmit
    /\ cli.timers \subseteq (IF Invite THEN {"A", "B", "D", "M"} ELSE {"E", "F", "K"})
    /\ srv.state \in ServerStates /\ srv.count \in 0..MaxRetransmit
    /\ srv.timers \subseteq (IF Invite THEN {"G", "H", "I"} ELSE {"J"})
    /\ srv.last_response \in Responses \union {"none"}
    /\ toCli \subseteq Responses /\ toSrv \subseteq {"request", "ACK"}
    /\ told \subseteq Responses /\ final \in Finals \union {"none"} /\ loss \in 0..sc.losses

\* The two ends agree on the outcome: the client has accepted or completed only what
\* the server's TU submitted, and the server takes a failure for confirmed only
\* when the client's TU has been told of it.
OutcomeAgreed ==
    /\ told \intersect Finals \subseteq {final}
    /\ cli.state = "Accepted" => final = "2xx"
    /\ cli.state = "CompletedInvite" => final = "failure"
    /\ srv.state = "ConfirmedServer" => "failure" \in told

\* When long timers do last longer than the exchange,
\* a final response is delivered to the client's TU if nothing more is lost, or if
\* the transaction repeats the response (all but a 2xx to an INVITE) and the client
\* has more retransmissions left than the network has losses.
FinalHeard ==
    \A m \in Finals :
        /\ Patient /\ final = m /\ cli.state # "Terminated"
        /\ \/ loss = 0 /\ sc.losses = 0
           \/ (m = "failure" \/ ~Invite) /\ loss < MaxRetransmit - cli.count
        ~> (m \in told)

\* Both transactions end ("-> Terminated", the last state of each of the four
\* machines in transaction.rs) when every timer that was started fires sooner
\* or later: no waiting state is entered without one, and no exchange of
\* repeated messages goes on for ever.
BothEnd == ~Patient => <>[](cli.state = "Terminated" /\ srv.state = "Terminated")

-----------------------------------------------------------------------------
(***************************************************************************)
(* The two ends of a SIP exchange agree on its outcome, for every set of   *)
(* scenarios (either kind of request, either transport, any number of      *)
(* losses and of retransmissions).                                         *)
(*                                                                         *)
(* OutcomeAgreed is not inductive: the client believes what is in flight,  *)
(* the server repeats what it remembers and takes any ACK for the client's *)
(* word.  AgreeInv says of each of these that it has one source: the final *)
(* response the server's TU submitted, and it submits only one.            *)
(***************************************************************************)

Timers == {"A", "B", "D", "E", "F", "G", "H", "I", "J", "K", "M"}

Shape ==
    /\ sc \in Scenario
    /\ cli \in [state : ClientStates, count : Nat, timers : SUBSET Timers]
    /\ srv \in [state : ServerStates, count : Nat, timers : SUBSET Timers, last_response : Responses \union {"none"}]

\* The server's TU has not submitted a final response yet.
Open == {"none", "ProceedingServer", "TryingServer", "ProceedingServerNonInvite"}

AgreeInv ==
    /\ OutcomeAgreed
    /\ toCli \intersect Finals \subseteq {final}
    /\ srv.last_response \in Finals => srv.last_response = final
    /\ srv.state \in Open => final = "none"
    /\ "ACK" \in toSrv => "failure" \in told
    /\ cli.state = "CompletedInvite" => "failure" \in told

SipInv == Shape /\ TypeOK /\ AgreeInv

-----------------------------------------------------------------------------
\* What a driver hands to the transport reaches it or is lost.
LEMMA PutIs ==
    ASSUME SipInv, NEW net, NEW netNext, NEW msgs, Put(net, netNext, msgs)
    PROVE  netNext \subseteq net \union msgs /\ loss' \in 0..sc.losses
<1>1. loss \in 0..sc.losses /\ sc.losses \in Nat
  BY DEF SipInv, TypeOK, Shape, Scenario
<1> QED BY <1>1 DEF Put

\* A step of the client: what has to hold of the state it goes to, the timers
\* it starts, what it sends and what it delivers.
LEMMA ClientDoKeeps ==
    ASSUME SipInv, NEW st \in ClientStates, NEW stopped, NEW send, NEW deliver \in SUBSET toCli,
           NEW started \in SUBSET (IF Invite THEN {"A", "B", "D", "M"} ELSE {"E", "F", "K"}),
           ClientDo(st, stopped, started, send, deliver), toCli' \subseteq toCli,
           send \subseteq {"ACK"}, send # {} => "failure" \in told \union deliver,
           st = "Accepted" => final = "2xx",
           st = "CompletedInvite" => "failure" \in told \union deliver
    PROVE  SipInv'
<1> USE DEF SipInv
<1>1. /\ cli' = [cli EXCEPT !.state = st,
                            !.timers = IF st = "Terminated" THEN {} ELSE (cli.timers \ stopped) \union started]
      /\ told' = told \union deliver /\ UNCHANGED <<sc, srv, final>>
      /\ toSrv' \subseteq toSrv \union send /\ loss' \in 0..sc.losses
  BY PutIs DEF ClientDo
<1>2. /\ cli'.state = st /\ cli'.count = cli.count
      /\ cli'.timers \subseteq cli.timers \union started
      /\ cli' \in [state : ClientStates, count : Nat, timers : SUBSET Timers]
  <2>1. started \subseteq Timers
    BY DEF Timers
  <2> QED BY <1>1, <2>1 DEF Shape
<1>3. Shape'
  BY <1>1, <1>2 DEF Shape, ClientStates, ServerStates, Invite
<1>4. TypeOK'
  BY <1>1, <1>2 DEF TypeOK, ClientStates, ServerStates, Invite
<1>5. AgreeInv'
  BY <1>1, <1>2 DEF AgreeInv, OutcomeAgreed, TypeOK, Finals, Open
<1> QED BY <1>3, <1>4, <1>5

\* A step of the server that submits nothing: it repeats what it remembers.
LEMMA ServerDoKeeps ==
    ASSUME SipInv, NEW st \in ServerStates, NEW stopped, NEW send \in SUBSET LastResponse,
           NEW started \in SUBSET (IF Invite THEN {"G", "H", "I"} ELSE {"J"}),
           ServerDo(st, stopped, started, send), toSrv' \subseteq toSrv,
           st \in Open => srv.state \in Open,
           st = "ConfirmedServer" => "failure" \in told
    PROVE  SipInv'
<1> USE DEF SipInv
<1>1. /\ srv' = [srv EXCEPT !.state = st,
                            !.timers = IF st = "Terminated" THEN {} ELSE (srv.timers \ stopped) \union started]
      /\ UNCHANGED <<sc, cli, told, final>>
      /\ toCli' \subseteq toCli \union send /\ loss' \in 0..sc.losses
  BY PutIs DEF ServerDo
<1>2. /\ srv'.state = st /\ srv'.count = srv.count /\ srv'.last_response = srv.last_response
      /\ srv'.timers \subseteq srv.timers \union started
      /\ srv' \in [state : ServerStates, count : Nat, timers : SUBSET Timers, last_response : Responses \union {"none"}]
  <2>1. started \subseteq Timers
    BY DEF Timers
  <2> QED BY <1>1, <2>1 DEF Shape
<1>3. Shape'
  BY <1>1, <1>2 DEF Shape, ClientStates, ServerStates, Invite
<1>4. toCli' \subseteq toCli \union ({srv.last_response} \ {"none"})
  BY <1>1 DEF LastResponse
<1>5. TypeOK'
  BY <1>1, <1>2, <1>4 DEF TypeOK, ClientStates, ServerStates, Invite
<1>6. AgreeInv'
  BY <1>1, <1>2, <1>4 DEF AgreeInv, OutcomeAgreed, TypeOK, Finals, Responses
<1> QED BY <1>3, <1>5, <1>6

-----------------------------------------------------------------------------
\* The invariant holds at the start.
LEMMA SipStart == Init => SipInv
<1> SUFFICES ASSUME Init PROVE SipInv
  OBVIOUS
<1>1. sc \in Scenario /\ sc.losses \in Nat /\ MaxRetransmit \in Nat
  BY SipAssumption DEF Init, Scenario
<1>2. start_timer("B") \subseteq {"B"} /\ start_timer("F") \subseteq {"F"}
  BY DEF start_timer
<1>3. Retransmitter("A") \subseteq {"A"} /\ Retransmitter("E") \subseteq {"E"}
  BY DEF Retransmitter
<1>4. Shape
  BY <1>1, <1>2, <1>3 DEF Init, Shape, ClientStates, ServerStates, Timers, Responses
<1>5. TypeOK
  BY <1>1, <1>2, <1>3 DEF Init, TypeOK, ClientStates, ServerStates, Responses, Finals
<1>6. AgreeInv
  BY DEF Init, AgreeInv, OutcomeAgreed, Finals, Open
<1> QED BY <1>4, <1>5, <1>6 DEF SipInv

\* A message received by the client transaction keeps the invariant.
LEMMA ClientReceivesKeeps == ASSUME SipInv, ClientReceives PROVE SipInv'
<1>1. PICK m \in toCli : /\ toCli' = toCli \ {m}
                         /\ IF Invite THEN ClientInviteResponse(m) ELSE ClientOtherResponse(m)
  BY DEF ClientReceives
<1>2. /\ m \in Responses /\ (m \in Finals => m = final) /\ toCli' \subseteq toCli
      /\ {m} \in SUBSET toCli /\ {} \in SUBSET toCli
  BY <1>1 DEF SipInv, TypeOK, AgreeInv
<1>3. \A t \in {"D", "K", "M"} : start_timer(t) \subseteq {t}
  BY DEF start_timer
<1>4. CASE Invite
  <2>1. cli.state \in ClientStates /\ ClientStates = {"ProceedingInvite", "Accepted", "CompletedInvite", "Terminated"}
    BY <1>4 DEF ClientStates, SipInv, TypeOK
  <2>2. \A t \in {"D", "M"} : start_timer(t) \in SUBSET (IF Invite THEN {"A", "B", "D", "M"} ELSE {"E", "F", "K"})
    BY <1>3, <1>4
  <2>3. {} \in SUBSET (IF Invite THEN {"A", "B", "D", "M"} ELSE {"E", "F", "K"})
    OBVIOUS
  <2>4. cli.state = "CompletedInvite" => "failure" \in told
    BY DEF SipInv, AgreeInv
  <2>5. cli.state = "Accepted" => final = "2xx"
    BY DEF SipInv, AgreeInv, OutcomeAgreed
  <2>6. CASE cli.state = "ProceedingInvite" /\ m = "1xx" /\ ClientDo(cli.state, {}, {}, {}, {m})
    BY <2>6, <2>1, <2>3, <1>2, ClientDoKeeps
  <2>7. CASE cli.state = "ProceedingInvite" /\ m = "2xx" /\ ClientDo("Accepted", {}, start_timer("M"), {}, {m})
    BY <2>7, <2>1, <2>2, <1>2, ClientDoKeeps DEF Finals
  <2>8. CASE m = "failure" /\ ClientDo("Terminated", {}, {}, build_ack, {m})
    BY <2>8, <2>1, <2>3, <1>2, ClientDoKeeps DEF build_ack
  <2>9. CASE m = "failure" /\ ClientDo("CompletedInvite", {}, start_timer("D"), build_ack, {m})
    BY <2>9, <2>1, <2>2, <1>2, ClientDoKeeps DEF build_ack
  <2>10. CASE cli.state = "Accepted" /\ ClientDo(cli.state, {}, start_timer("M"), {}, {m})
    BY <2>10, <2>1, <2>2, <2>5, <1>2, ClientDoKeeps
  <2>11. CASE cli.state = "CompletedInvite" /\ ClientDo(cli.state, {}, {}, build_ack, {})
    BY <2>11, <2>1, <2>3, <2>4, <1>2, ClientDoKeeps DEF build_ack
  <2>12. CASE cli.state = "Terminated" /\ ClientDo(cli.state, {}, {}, {}, {})
    BY <2>12, <2>1, <2>3, <1>2, ClientDoKeeps
  <2> QED BY <1>1, <1>4, <2>6, <2>7, <2>8, <2>9, <2>10, <2>11, <2>12 DEF ClientInviteResponse
<1>5. CASE ~Invite
  <2>1. cli.state \in ClientStates /\ ClientStates = {"Proceeding", "Completed", "Terminated"}
    BY <1>5 DEF ClientStates, SipInv, TypeOK
  <2>2. start_timer("K") \in SUBSET (IF Invite THEN {"A", "B", "D", "M"} ELSE {"E", "F", "K"})
    BY <1>3, <1>5
  <2>3. {} \in SUBSET (IF Invite THEN {"A", "B", "D", "M"} ELSE {"E", "F", "K"})
    OBVIOUS
  <2>4. CASE ClientDo("Completed", {}, start_timer("K"), {}, {m})
    BY <2>4, <2>1, <2>2, <1>2, ClientDoKeeps
  <2>5. CASE ClientDo(cli.state, {}, {}, {}, {})
    BY <2>5, <2>1, <2>3, <1>2, ClientDoKeeps
  <2> QED BY <1>1, <1>5, <2>4, <2>5 DEF ClientOtherResponse
<1> QED BY <1>4, <1>5

\* A message received by the server transaction keeps the invariant.
LEMMA ServerReceivesKeeps == ASSUME SipInv, ServerReceives PROVE SipInv'
<1>1. PICK m \in toSrv : toSrv' = toSrv \ {m} /\ ServerRequest(m)
  BY DEF ServerReceives
<1>2. /\ srv.state \in ServerStates /\ toSrv' \subseteq toSrv
      /\ m = "ACK" => "failure" \in told
      /\ srv.state = "ConfirmedServer" => "failure" \in told
  BY <1>1 DEF SipInv, TypeOK, AgreeInv, OutcomeAgreed
<1>3. /\ {} \in SUBSET (IF Invite THEN {"G", "H", "I"} ELSE {"J"})
      /\ {} \in SUBSET LastResponse /\ LastResponse \in SUBSET LastResponse
  OBVIOUS
<1>4. CASE srv.state = "none" /\ ServerDo(IF Invite THEN "ProceedingServer" ELSE "TryingServer", {}, {}, {})
  <2>1. (IF Invite THEN "ProceedingServer" ELSE "TryingServer") \in ServerStates
    BY DEF ServerStates
  <2> QED BY <1>4, <2>1, <1>2, <1>3, ServerDoKeeps DEF Open
<1>5. CASE srv.state = "CompletedServer" /\ m = "ACK" /\ ServerDo("ConfirmedServer", {}, start_timer("I"), {})
  <2>1. Invite
    BY <1>2, <1>5 DEF ServerStates
  <2>2. "ConfirmedServer" \in ServerStates /\ start_timer("I") \in SUBSET (IF Invite THEN {"G", "H", "I"} ELSE {"J"})
    BY <2>1 DEF ServerStates, start_timer
  <2> QED BY <1>5, <2>2, <1>2, <1>3, ServerDoKeeps DEF Open
<1>6. CASE ServerDo(srv.state, {}, {}, LastResponse)
  BY <1>6, <1>2, <1>3, ServerDoKeeps
<1>7. CASE ServerDo(srv.state, {}, {}, {})
  BY <1>7, <1>2, <1>3, ServerDoKeeps
<1> QED BY <1>1, <1>4, <1>5, <1>6, <1>7 DEF ServerRequest
\* A retransmission of the client keeps the invariant.
LEMMA ClientRetransmitsKeeps ==
    ASSUME SipInv, NEW name \in {"A", "E"}, ClientRetransmits(name) PROVE SipInv'
<1> USE DEF SipInv
<1>1. CASE cli.state \in {"ProceedingInvite", "Proceeding"}
  <2>1. /\ cli' = [cli EXCEPT !.count = cli.count + 1] /\ UNCHANGED <<sc, srv, toCli, told, final>>
        /\ toSrv' \subseteq toSrv \union {"request"} /\ loss' \in 0..sc.losses
    BY <1>1, PutIs DEF ClientRetransmits
  <2>2. cli.count \in Nat /\ cli.count < MaxRetransmit /\ MaxRetransmit \in Nat
    BY SipAssumption DEF ClientRetransmits, Shape
  <2>3. /\ cli'.state = cli.state /\ cli'.count \in 0..MaxRetransmit /\ cli'.timers = cli.timers
        /\ cli' \in [state : ClientStates, count : Nat, timers : SUBSET Timers]
    BY <2>1, <2>2 DEF Shape
  <2>4. Shape'
    BY <2>1, <2>3 DEF Shape, ClientStates, ServerStates, Invite
  <2>5. TypeOK'
    BY <2>1, <2>3 DEF TypeOK, ClientStates, ServerStates, Invite
  <2>6. AgreeInv'
    BY <2>1, <2>3 DEF AgreeInv, OutcomeAgreed
  <2> QED BY <2>4, <2>5, <2>6
<1>2. CASE cli.state \notin {"ProceedingInvite", "Proceeding"}
  <2>1. cli' = [cli EXCEPT !.timers = cli.timers \ {name}] /\ UNCHANGED <<sc, srv, toCli, toSrv, told, final, loss>>
    BY <1>2 DEF ClientRetransmits
  <2>2. /\ cli'.state = cli.state /\ cli'.count = cli.count /\ cli'.timers \subseteq cli.timers
        /\ cli' \in [state : ClientStates, count : Nat, timers : SUBSET Timers]
    BY <2>1 DEF Shape
  <2>3. Shape'
    BY <2>1, <2>2 DEF Shape, ClientStates, ServerStates, Invite
  <2>4. TypeOK'
    BY <2>1, <2>2 DEF TypeOK, ClientStates, ServerStates, Invite
  <2>5. AgreeInv'
    BY <2>1, <2>2 DEF AgreeInv, OutcomeAgreed
  <2> QED BY <2>3, <2>4, <2>5
<1> QED BY <1>1, <1>2

\* A retransmission of the server keeps the invariant.
LEMMA ServerRetransmitsKeeps == ASSUME SipInv, ServerRetransmits PROVE SipInv'
<1> USE DEF SipInv
<1>1. /\ srv' = [srv EXCEPT !.count = srv.count + 1] /\ UNCHANGED <<sc, cli, toSrv, told, final>>
      /\ toCli' \subseteq toCli \union LastResponse /\ loss' \in 0..sc.losses
  BY PutIs DEF ServerRetransmits
<1>2. srv.count \in Nat /\ srv.count < MaxRetransmit /\ MaxRetransmit \in Nat
  BY SipAssumption DEF ServerRetransmits, Shape
<1>3. /\ srv'.state = srv.state /\ srv'.count \in 0..MaxRetransmit /\ srv'.timers = srv.timers
      /\ srv'.last_response = srv.last_response
      /\ srv' \in [state : ServerStates, count : Nat, timers : SUBSET Timers, last_response : Responses \union {"none"}]
  BY <1>1, <1>2 DEF Shape
<1>4. Shape'
  BY <1>1, <1>3 DEF Shape, ClientStates, ServerStates, Invite
<1>5. TypeOK'
  BY <1>1, <1>3 DEF TypeOK, ClientStates, ServerStates, Invite, LastResponse
<1>6. AgreeInv'
  BY <1>1, <1>3 DEF AgreeInv, OutcomeAgreed, TypeOK, LastResponse, Finals, Responses
<1> QED BY <1>4, <1>5, <1>6

\* A timer of the client that ends a state keeps the invariant.
LEMMA ClientTimerKeeps ==
    ASSUME SipInv, NEW name \in {"B", "D", "F", "K", "M"}, ClientTimer(name) PROVE SipInv'
<1> DEFINE st == IF cli.state = EndsIn(name) THEN "Terminated" ELSE cli.state
<1>1. /\ st \in ClientStates /\ st \in {"Terminated", cli.state}
      /\ {} \in SUBSET (IF Invite THEN {"A", "B", "D", "M"} ELSE {"E", "F", "K"})
      /\ {} \in SUBSET toCli /\ toCli' \subseteq toCli
      /\ ClientDo(st, {name}, {}, {}, {})
  BY DEF ClientTimer, SipInv, TypeOK, ClientStates
<1>2. /\ cli.state = "Accepted" => final = "2xx"
      /\ cli.state = "CompletedInvite" => "failure" \in told
  BY DEF SipInv, AgreeInv, OutcomeAgreed
<1> QED BY <1>1, <1>2, ClientDoKeeps

\* A timer of the server that ends a state keeps the invariant.
LEMMA ServerTimerKeeps ==
    ASSUME SipInv, NEW name \in {"H", "I", "J"}, ServerTimer(name) PROVE SipInv'
<1> DEFINE st == IF srv.state = EndsIn(name) THEN "Terminated" ELSE srv.state
<1>1. /\ st \in ServerStates /\ st \in {"Terminated", srv.state}
      /\ {} \in SUBSET (IF Invite THEN {"G", "H", "I"} ELSE {"J"})
      /\ {} \in SUBSET LastResponse /\ toSrv' \subseteq toSrv
      /\ ServerDo(st, {name}, {}, {})
  BY DEF ServerTimer, SipInv, TypeOK, ServerStates
<1>2. srv.state = "ConfirmedServer" => "failure" \in told
  BY DEF SipInv, AgreeInv, OutcomeAgreed
<1> QED BY <1>1, <1>2, ServerDoKeeps DEF Open

\* The TU submits a final response in an open transaction, which it closes.
LEMMA RespondKeeps == ASSUME SipInv, NEW m \in Responses, Respond(m) PROVE SipInv'
<1> USE DEF SipInv
<1>1. /\ UNCHANGED <<sc, cli, toSrv, told>> /\ final' = (IF m \in Finals THEN m ELSE final)
      /\ toCli' \subseteq toCli \union {m} /\ loss' \in 0..sc.losses
  BY PutIs DEF Respond
<1>2. /\ srv.state \in Open /\ srv'.last_response = m /\ srv'.count = srv.count
      /\ srv'.state \in ServerStates /\ (m \in Finals => srv'.state \notin Open)
      /\ srv'.state # "ConfirmedServer"
      /\ srv'.timers \subseteq (IF Invite THEN {"G", "H", "I"} ELSE {"J"})
      /\ srv' \in [state : ServerStates, count : Nat, timers : SUBSET Timers, last_response : Responses \union {"none"}]
  <2>1. CASE Invite
    <3>1. RespondInvite(m) /\ srv.timers \subseteq {"G", "H", "I"}
      BY <2>1 DEF Respond, TypeOK
    <3>2. start_timer("H") \subseteq {"H"} /\ Retransmitter("G") \subseteq {"G"}
      BY DEF start_timer, Retransmitter
    <3> QED BY <2>1, <3>1, <3>2 DEF RespondInvite, Shape, Open, ServerStates, Timers, Responses, Finals
  <2>2. CASE ~Invite
    <3>1. RespondOther(m)
      BY <2>2 DEF Respond
    <3>2. start_timer("J") \subseteq {"J"}
      BY DEF start_timer
    <3> QED BY <2>2, <3>1, <3>2 DEF RespondOther, Shape, Open, ServerStates, Timers, Responses, Finals
  <2> QED BY <2>1, <2>2
<1>3. final = "none" /\ told \intersect Finals = {} /\ toCli \intersect Finals = {}
  BY <1>2 DEF AgreeInv, OutcomeAgreed, Finals
<1>4. Shape'
  BY <1>1, <1>2 DEF Shape, ClientStates, ServerStates, Invite
<1>5. TypeOK'
  BY <1>1, <1>2 DEF TypeOK, ClientStates, ServerStates, Invite, Responses
<1>6. AgreeInv'
  BY <1>1, <1>2, <1>3 DEF AgreeInv, OutcomeAgreed, Finals
<1> QED BY <1>4, <1>5, <1>6

\* The invariant is inductive.
LEMMA SipStep == SipInv /\ [Next]_vars => SipInv'
<1> SUFFICES ASSUME SipInv, [Next]_vars PROVE SipInv'
  OBVIOUS
<1>1. CASE Drivers
  BY <1>1, ClientReceivesKeeps, ServerReceivesKeeps, ClientRetransmitsKeeps, ServerRetransmitsKeeps,
     ClientTimerKeeps, ServerTimerKeeps DEF Drivers
<1>2. CASE Answer
  BY <1>2, RespondKeeps DEF Answer
<1>3. CASE UNCHANGED vars
  BY <1>3 DEF vars, SipInv, Shape, TypeOK, AgreeInv, OutcomeAgreed, ClientStates, ServerStates, Invite
<1> QED BY <1>1, <1>2, <1>3 DEF Next

\* Both transactions stay in states of their kind and their drivers hold only
\* timers of theirs.
THEOREM TypeCorrect == Spec => []TypeOK
<1>1. SipInv => TypeOK
  BY DEF SipInv
<1> QED BY <1>1, SipStart, SipStep, PTL DEF Spec

\* Whatever is lost, repeated and timed out, the client's TU hears no final
\* response but the one the server's TU submitted, and the server's INVITE
\* transaction is confirmed only when the client's TU has heard the failure.
THEOREM OutcomesAgree == Spec => []OutcomeAgreed
<1>1. SipInv => OutcomeAgreed
  BY DEF SipInv, AgreeInv
<1> QED BY <1>1, SipStart, SipStep, PTL DEF Spec
=============================================================================
