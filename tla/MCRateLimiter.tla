----------------------------- MODULE MCRateLimiter -----------------------------
(***************************************************************************)
(* A small instance of RateLimiter for TLC.                                *)
(***************************************************************************)
EXTENDS RateLimiter

CONSTANTS alice, bob, carol

\* Two clients whose address is not known, and one with an address.
ThreeClients == {alice, bob, carol}
TwoAddresses == {"unknown", "10.0.0.1"}
TheAddresses == [c \in ThreeClients |-> IF c = carol THEN "10.0.0.1" ELSE "unknown"]
===============================================================================
