----------------------------- MODULE MCAddresses -----------------------------
(* Addresses for four devices and three hosts, and one octet that is no host's. *)
EXTENDS Addresses, TLC

CONSTANTS a, b, c, d, k

ByteOrder == (a :> 2) @@ (b :> 4) @@ (c :> 1) @@ (d :> 3)
=============================================================================
