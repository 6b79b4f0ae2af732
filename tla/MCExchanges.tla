----------------------------- MODULE MCExchanges -----------------------------
(***************************************************************************)
(* TLC instance of the exchanges between two ends that must come to an     *)
(* end: a SIP request with its responses and an SSH connection that runs   *)
(* a command.  A behaviour is about one of them.                           *)
(***************************************************************************)
EXTENDS SipTransaction, Ssh

CONSTANT Parts
VARIABLE part

Case(invite, provisional, losses, patient) ==
    [invite |-> invite, reliable |-> FALSE, provisional |-> provisional,
     losses |-> losses, patient |-> patient]

\* Either kind of request with two losses and timers that fire at any time; an
\* INVITE with no loss; another request, answered with a final response only,
\* with one loss.
Unreliable == {Case(TRUE, TRUE, 2, FALSE), Case(FALSE, TRUE, 2, FALSE),
               Case(TRUE, TRUE, 0, TRUE), Case(FALSE, FALSE, 1, TRUE)}
\* A command that prints nothing, and one that prints two pieces.
TwoOutputs == {<<>>, <<"x", "y">>}

all == <<part, vars, sshVars>>

MCInit == Init /\ SshInit /\ part \in Parts /\ (part = "ssh" => sc = Case(TRUE, TRUE, 0, TRUE))
MCNext ==
    /\ UNCHANGED part
    /\ \/ part = "sip" /\ Next /\ UNCHANGED sshVars
       \/ part = "ssh" /\ SshNext /\ UNCHANGED vars

\* The drivers of SIP and the loops of SSH keep going, each timer that was started fires.
Sip(A) == part = "sip" /\ A /\ UNCHANGED <<part, sshVars>>
SshDoes(A) == part = "ssh" /\ A /\ UNCHANGED <<part, vars>>
MCFairness ==
    /\ WF_all(Sip(Drivers)) /\ WF_all(Sip(\E m \in Finals : Respond(m)))
    /\ WF_all(Sip(ClientReceives)) /\ WF_all(Sip(ServerReceives))
    /\ \A name \in {"B", "D", "F", "K", "M"} : WF_all(Sip(ClientTimer(name)))
    /\ \A name \in {"H", "I", "J"} : WF_all(Sip(ServerTimer(name)))
    /\ WF_all(SshDoes(\E k \in Cuts("Server") : client_turn(k)))
    /\ WF_all(SshDoes(\E k \in Cuts("Client") : server_turn(k)))
MCSpec == MCInit /\ [][MCNext]_all /\ MCFairness

\* Both SIP transactions end in every case and the final response reaches the client; an SSH command ends on both sides with its own output and status.
ExchangesEnd == BothEnd /\ FinalHeard /\ ExecEnds
=============================================================================
