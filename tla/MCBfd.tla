------------------------------- MODULE MCBfd -------------------------------
(* Small instances of BfdSession. *)
EXTENDS BfdSession, TLC

CONSTANTS a, b

Uniform(v) == [p \in Peers |-> v]

Unit == Uniform(1)
Two == Uniform(2)
Three == Uniform(3)
SameKey == Uniform("k")
OtherKeys == (a :> "k") @@ (b :> "j")
NoAuth == Uniform("none")
Keyed == Uniform("keyed")
Meticulous == Uniform("meticulous")
Simple == Uniform("simple")

Symmetry == Permutations(Peers)
=============================================================================
