------------------------------- MODULE MCDtls -------------------------------
(***************************************************************************)
(* TLC instance of the DTLS crate: a connection between two peers and,     *)
(* apart from it, a replay window of several words.  A behaviour is about  *)
(* one of the two parts.                                                   *)
(***************************************************************************)
EXTENDS DtlsConnection

VARIABLE part

MCInit == Init /\ WinInit /\ part \in {"connection", "window"}

MCNext ==
    \/ part = "connection" /\ Next /\ UNCHANGED <<part, winVars>>
    \/ part = "window" /\ WinNext /\ UNCHANGED <<part, vars>>

MCSpec == MCInit /\ [][MCNext]_<<vars, part, winVars>> /\ Fairness
=============================================================================
