---------------------------- MODULE MCMembership ----------------------------
(* Instances of Membership.  The master is a, the joiner c; no deputies.       *)
EXTENDS Membership, TLC

CONSTANTS a, c, home

NoDeputies == << >>

\* The oldest member is not the first in key order.
ByteOrder == [d \in Node |-> IF d = a THEN 2 ELSE 1]

\* A fast clock runs ahead by more than one entry.
FastJoiner == [d \in Node |-> IF d = c THEN 3 ELSE 0]

Moments == 0 .. 2 * MaxEntries + 3
HostRange == 2 .. LastHost
=============================================================================
