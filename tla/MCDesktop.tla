------------------------------- MODULE MCDesktop -------------------------------
(* The processes by themselves on each system; then the parts with one process *)
(* that comes and goes, and by themselves with all that the daemon may do to   *)
(* them.  Two devices have one name, so that each may silence the other.       *)
EXTENDS Desktop

CONSTANTS pc, nas

Names == [p \in {pc, nas} |-> "box"]

Case(s, r, roles, ps) == [system |-> s, room |-> r, roles |-> roles, parts |-> ps]
Scopes ==
    {Case("linux", 3, Role, {"instances", "update"}),
     Case("macos", 3, Role, {"instances"}), Case("macos", 2, Role, {"instances", "update"}),
     Case("windows", 3, Role, {"instances"}),
     Case("macos", 1, {"agent"}, {"instances", "power"}),
     Case("linux", 1, {"agent"}, {"instances", "menu"}),
     Case("macos", 0, {}, {"power"}), Case("linux", 0, {}, {"toasts"}),
     Case("windows", 0, {}, {"menu"})}
=============================================================================
