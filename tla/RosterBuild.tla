------------------------------ MODULE RosterBuild ------------------------------
(***************************************************************************)
(* Roster::build as a function of a set of entries, and the static virtual *)
(* addresses it resolves at the end (ipn-core/src/roster.rs).              *)
(*                                                                         *)
(* RosterFold studies the fold entry by entry; this module is the whole of *)
(* it, for the modules in which devices hold different sets of entries.    *)
(* The entries of a set have distinct timestamps: the tie-break by content *)
(* id is left to RosterFold, where entries of one timestamp come in any    *)
(* order.                                                                  *)
(***************************************************************************)
EXTENDS RosterRules, FiniteSetsExt, Functions

CONSTANTS
    NodeOrder,   \* the byte order of device keys: an injection Node -> Nat
    FirstHost,   \* 2 in the code
    LastHost     \* 254 in the code

ASSUME NodeOrderAssumption ==
    /\ NodeOrder \in [Node -> Nat]
    /\ \A m, n \in Node : NodeOrder[m] = NodeOrder[n] => m = n
ASSUME KeysAssumption == IsFiniteSet(Node)
ASSUME HostRangeAssumption ==
    /\ FirstHost \in Nat /\ LastHost \in Nat /\ 0 < FirstHost /\ FirstHost <= LastHost
    /\ FirstHost .. LastHost \subseteq Host

Hosts == FirstHost .. LastHost
HostCount == LastHost - FirstHost + 1

\* Mutant: probing runs off the end of the subnet.
ProbeNoWrap(taken, recorded) ==
    LET start == IF recorded \in Hosts THEN recorded ELSE FirstHost
        free == {i \in 0 .. HostCount - 1 : start + i \notin taken}
    IN  IF free = {} THEN start ELSE start + Min(free)

\* Mutant: the recorded address is ignored.
ProbeFromFirst(taken, recorded) ==
    IF Hosts \subseteq taken THEN FirstHost ELSE Min(Hosts \ taken)

\* The address a member gets: the recorded one if it is a valid free host, else
\* the next free one upwards, wrapping round; the recorded one when none is free.
Probe(taken, recorded) ==
    LET start == IF recorded \in Hosts THEN recorded ELSE FirstHost
        after(i) == FirstHost + ((start - FirstHost + i) % HostCount)
        free == {i \in 0 .. HostCount - 1 : after(i) \notin taken}
    IN  IF free = {} THEN start ELSE after(Min(free))

\* Mutant: members take their addresses in key order.
KeyBefore(r, m, n) == NodeOrder[m] < NodeOrder[n]

AdmittedBefore(r, m, n) ==
    \/ r.since[m] < r.since[n]
    \/ r.since[m] = r.since[n] /\ NodeOrder[m] < NodeOrder[n]

LastAdmitted(r, M) == CHOOSE n \in M : \A m \in M \ {n} : AdmittedBefore(r, m, n)

\* One turn of the loop: n takes its address.
Settle(r, n) ==
    [host \in [Node -> Nat] |-> [host EXCEPT ![n] = Probe(Range(host), r.host[n])]]

\* The loop over any of the devices, in admission order.
Placement(r) ==
    LET placed[M \in SUBSET Node] ==
            IF M = {} THEN [n \in Node |-> 0]
            ELSE LET n == LastAdmitted(r, M) IN Settle(r, n)[placed[M \ {n}]]
    IN  placed

\* assign_ips
AssignIps(r) == [r EXCEPT !.host = Placement(r)[Members(r)]]

Latest(S) == CHOOSE e \in S : \A f \in S : f.ts <= e.ts

\* The loop of Roster::build over any of the entries, in timestamp order.
Fold(entries) ==
    LET fold[S \in SUBSET entries] ==
            IF S = {} THEN EmptyRoster
            ELSE Apply(fold[S \ {Latest(S)}], Latest(S))
    IN  fold

\* Roster::build: the entries folded, then the addresses.
Build(entries) == AssignIps(Fold(entries)[entries])

\* lowest_free_host: what an admitter records in the Add it signs.
LowestFreeHost(r) ==
    LET free == Hosts \ {r.host[m] : m \in Members(r)}
    IN  IF free = {} THEN LastHost ELSE Min(free)
=============================================================================
