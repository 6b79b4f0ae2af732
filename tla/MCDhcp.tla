------------------------------- MODULE MCDhcp -------------------------------
(***************************************************************************)
(* Both versions of DHCP for TLC, and for the theorems about them: DhcpNet *)
(* and, beside it, Dhcp6Net.  A behaviour of a run is about one of the two *)
(* (part); the configurations have two clients and one or two addresses.   *)
(***************************************************************************)
EXTENDS DhcpNet, TLC

CONSTANT Parts
VARIABLES part, leases, declined, host, upward, downward, clock

Six == INSTANCE Dhcp6Net
dhcp6State == <<leases, declined, host, upward, downward, clock>>

\* Clients are interchangeable.
ClientSymmetry == Permutations(Clients)

MCInit == Init /\ Six!Dhcp6Init /\ part \in Parts

MCNext ==
    \/ part = "dhcp" /\ Next /\ UNCHANGED <<part, dhcp6State>>
    \/ part = "dhcpv6" /\ Six!Dhcp6Next /\ UNCHANGED <<part, vars>>

MCSpec == MCInit /\ [][MCNext]_<<part, vars, dhcp6State>>

\* DHCPv6: a used address is leased to its user and to no other client, and none that was declined is
\* leased before its probation is over; and the store, the clients and the clock have their types.
LeasedToItsUser == Six!Dhcp6TypeOK /\ Six!LeasedToItsUser
=============================================================================
