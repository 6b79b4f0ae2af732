---------------------------- MODULE LeaseService ----------------------------
(***************************************************************************)
(* What a DHCP server and its clients promise together: an address is      *)
(* granted to one client at a time, only its holder uses it, and it is     *)
(* granted to another client only after its use has ended.  Messages,      *)
(* exchanges and the two clocks that each side counts with are details of  *)
(* DhcpNet, which implements this specification.                           *)
(***************************************************************************)
CONSTANTS
    Clients,
    Pool,       \* the addresses
    Nobody,     \* the holder of an address that is not leased
    Nothing     \* what a client without an address uses

VARIABLES
    holder,     \* the client each address is leased to
    using       \* the address each client uses

serviceVars == <<holder, using>>

ServiceInit ==
    /\ holder = [ip \in Pool |-> Nobody]
    /\ using = [c \in Clients |-> Nothing]

\* An address that nobody holds is leased to c.
Grant(c, ip) ==
    /\ holder[ip] = Nobody
    /\ holder' = [holder EXCEPT ![ip] = c]
    /\ UNCHANGED using

\* The holder of an address begins to use it.
Begin(c, ip) ==
    /\ holder[ip] = c
    /\ using' = [using EXCEPT ![c] = ip]
    /\ UNCHANGED holder

\* A client uses no address from now on; the lease is still its own.
Leave(c) ==
    /\ using' = [using EXCEPT ![c] = Nothing]
    /\ UNCHANGED holder

\* A lease ends because its holder gave the address up, who no longer uses it.
Return(ip) ==
    /\ \A c \in Clients : using[c] # ip
    /\ holder' = [holder EXCEPT ![ip] = Nobody]
    /\ UNCHANGED using

\* Time passes: clients stop using what they think has run out, and leases run out that are then
\* used by nobody.
Lapse(stopping, freed) ==
    /\ using' = [c \in Clients |-> IF c \in stopping THEN Nothing ELSE using[c]]
    /\ holder' = [ip \in Pool |-> IF ip \in freed THEN Nobody ELSE holder[ip]]
    /\ \A ip \in freed, c \in Clients : using'[c] # ip

ServiceNext ==
    \/ \E c \in Clients, ip \in Pool : Grant(c, ip) \/ Begin(c, ip)
    \/ \E c \in Clients : Leave(c)
    \/ \E ip \in Pool : Return(ip)
    \/ \E stopping \in SUBSET Clients, freed \in SUBSET Pool : Lapse(stopping, freed)

ServiceSpec == ServiceInit /\ [][ServiceNext]_serviceVars

\* The promise: whoever uses an address holds it.
OnlyHoldersUse == \A c \in Clients : using[c] # Nothing => holder[using[c]] = c
=============================================================================
