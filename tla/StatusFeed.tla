------------------------------ MODULE StatusFeed ------------------------------
(***************************************************************************)
(* What the desktop window promises about the status it shows, without the *)
(* daemon's event bus, the connection and the window's message queue that  *)
(* bring it there (ipn-daemon/src/main.rs: subscribe_loop;                 *)
(* ipn-gui/src/main.rs: stream_events, the receiver loop of build_ui).     *)
(***************************************************************************)
EXTENDS Naturals

CONSTANT Blank  \* a placeholder instead of a status, and no number

VARIABLES
    version,    \* counts the changes of what the daemon would answer
    shown,      \* the version on the page
    last,       \* the last one that was on it
    reachable,  \* the window is open, and the daemon runs and speaks its protocol
    beating     \* the device is connected to its network, so the daemon ticks

vars == <<version, shown, last, reachable, beating>>

Init ==
    /\ version = 0
    /\ shown = Blank /\ last = 0
    /\ reachable \in BOOLEAN /\ beating \in BOOLEAN

\* The daemon's status changes, the daemon comes or goes, or the window does.
Environment ==
    /\ version' \in {version, version + 1}
    /\ reachable' \in BOOLEAN /\ beating' \in BOOLEAN
    /\ shown' \in {shown, Blank}
    /\ UNCHANGED last

\* The page never goes back to an older status than one it has shown.
Show ==
    /\ shown' \in last .. version
    /\ last' = shown'
    /\ UNCHANGED <<version, reachable, beating>>

ShowLatest ==
    /\ reachable /\ beating
    /\ shown # version
    /\ shown' = version /\ last' = version
    /\ UNCHANGED <<version, reachable, beating>>

\* A page whose daemon is gone does not stay.
GoBlank ==
    /\ ~reachable /\ shown # Blank
    /\ shown' = Blank
    /\ UNCHANGED <<version, last, reachable, beating>>

Next == Environment \/ Show \/ ShowLatest \/ GoBlank

Spec == Init /\ [][Next]_vars /\ WF_vars(ShowLatest) /\ WF_vars(GoBlank)
=============================================================================
