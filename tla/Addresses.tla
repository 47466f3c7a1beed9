------------------------------ MODULE Addresses ------------------------------
(***************************************************************************)
(* The static virtual addresses of a network over its life: the members    *)
(* the fold arrives at, each with the octet its Add records, and what      *)
(* assign_ips makes of them (ipn-core/src/roster.rs).                      *)
(*                                                                         *)
(* Who may admit or remove is RosterFold's subject, so entries here are    *)
(* the originator's.  What an Add records is up to its signer: the lowest  *)
(* address free in its view if that view is current, else any octet, since *)
(* two approvals may not know of each other.                               *)
(***************************************************************************)
EXTENDS RosterBuild

VARIABLES
    recorded,  \* the accumulator of the fold: recorded addresses
    lastTs     \* the timestamp of its last entry

addressVars == <<recorded, lastTs>>

Resolved == AssignIps(recorded)

AddressInit ==
    /\ recorded = EmptyRoster
    /\ lastTs = 0

Admit(n, host, nonce, ts) ==
    /\ ts >= lastTs
    /\ lastTs' = ts
    /\ recorded' = AfterAdd(recorded, [op |-> "Add", signer |-> Originator, node |-> n,
                                       role |-> "peer", host |-> host, nonce |-> nonce,
                                       ts |-> ts])

\* The approver has the current roster (admit_member).
JoinInformed(n, nonce, ts) == Admit(n, LowestFreeHost(Resolved), nonce, ts)

\* The approver's view is behind, or it records what it likes.
JoinBlindly(n, host, nonce, ts) == Admit(n, host, nonce, ts)

Leave(n) ==
    /\ IsMember(recorded, n)
    /\ recorded' = AfterRemove(recorded, [op |-> "Remove", signer |-> Originator,
                                          node |-> n, ts |-> lastTs])
    /\ UNCHANGED lastTs

AddressNext ==
    \/ \E n \in Node, nonce \in Nonce, ts \in Time : JoinInformed(n, nonce, ts)
    \/ \E n \in Node, host \in Host, nonce \in Nonce, ts \in Time :
           JoinBlindly(n, host, nonce, ts)
    \/ \E n \in Node : Leave(n)

AddressSpec == AddressInit /\ [][AddressNext]_addressVars
-----------------------------------------------------------------------------
AddressTypeOK == recorded \in Roster /\ lastTs \in Time \union {0}

\* Whatever was recorded, by however many approvers at once, valid or not, no two
\* members are routed at one address, and every address is one of the subnet's
\* hosts, as long as the subnet has room.
AddressesDistinct ==
    Cardinality(Members(recorded)) <= HostCount =>
        \A m, n \in Members(recorded) :
            /\ Resolved.host[m] \in Hosts
            /\ m # n => Resolved.host[m] # Resolved.host[n]

Newcomer(n) == ~IsMember(recorded, n) /\ IsMember(recorded', n)
OthersStay(n) ==
    \A m \in Members(recorded) \ {n} : Resolved'.host[m] = Resolved.host[m]

\* roster.rs: "a later join never displaces an earlier member's IP", whatever it records
\* and however the earlier members' addresses collided.  And a newcomer admitted from a
\* current view gets the address it was promised, and moves nobody even if others were
\* admitted at the same instant.
LaterJoinDisplacesNobody ==
    [][\A n \in Node : Newcomer(n) =>
          /\ lastTs' > lastTs => OthersStay(n)
          /\ /\ recorded'.host[n] = LowestFreeHost(Resolved)
             /\ Cardinality(Members(recorded')) <= HostCount
             => Resolved'.host[n] = recorded'.host[n] /\ OthersStay(n)]_addressVars
=============================================================================
