------------------------------ MODULE MCRelay ------------------------------
(* Values for the relay: u1 alone serves the primary model, with two        *)
(* credentials; the chain names the primary again before the fallback that  *)
(* u2 serves with one credential.                                           *)
EXTENDS Relay, TLC
CONSTANTS u1, u2, c1, c2, c3
MCChain == <<"primary", "fallback">>
MCServes == [m \in {"primary", "fallback"} |-> IF m = "primary" THEN <<u1>> ELSE <<u2>>]
MCRing == [u \in {u1, u2} |-> IF u = u1 THEN {c1, c2} ELSE {c3}]

CredentialSymmetry == Permutations({c1, c2})
=============================================================================
