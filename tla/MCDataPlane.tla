------------------------------ MODULE MCDataPlane ------------------------------
(* A phone with neither flows nor clients, a desktop with one flow of either   *)
(* kind and one client, and one with two clients: entries of the table do not  *)
(* meet, and what becomes of a packet does not depend on how the device came.  *)
EXTENDS DataPlane

CONSTANTS ssh, dns, gui, cli

Scopes == {
    [platform |-> "android", flows |-> {}, clients |-> {}],
    [platform |-> "desktop", flows |-> {ssh}, clients |-> {gui}],
    [platform |-> "desktop", flows |-> {dns}, clients |-> {gui}],
    [platform |-> "desktop", flows |-> {}, clients |-> {gui, cli}]}

\* The phone by itself: the only platform on which a device is attached and detached.
PhoneOnly == {s \in Scopes : s.platform = "android"}

\* There is more to fail on the phone.
Faults == [p \in {"android", "desktop"} |-> IF p = "android" THEN 2 ELSE 1]
=============================================================================
