------------------------------- MODULE Instances -------------------------------
(***************************************************************************)
(* The processes of the one desktop binary (ipn-gui/src/main.rs, agent.rs): *)
(* the window and the tray agent, each of which is to run once.  A process  *)
(* claims its role with a file lock (macOS), a named mutex (Windows) or its *)
(* application's bus name (Linux); one that comes second asks the first to  *)
(* present its window and exits.  Starting a window starts an agent, and    *)
(* after an update both replace themselves.                                 *)
(***************************************************************************)
EXTENDS Naturals, FiniteSets

CONSTANTS
    MaxProcs,    \* bound: processes at a time
    MaxFailures  \* bound: crashes, and locks and channels that cannot be had

ASSUME InstanceBounds == MaxProcs \in Nat \ {0} /\ MaxFailures \in Nat

Proc == 1..MaxProcs
NoProc == 0
Role == {"gui", "agent"}

VARIABLES
    system,     \* "linux", "macos" or "windows"
    room,       \* how many processes can be made
    procs,      \* what each process is and how far it has come
    channel,    \* whose socket, event or bus name takes presents
    poked,      \* a present was asked for on it
    disk,       \* is the binary on disk the new one?
    daemon,     \* is the running daemon?
    \* History
    waiting,    \* a launch was handed to a window that is to come forward
    unguarded,  \* a process ran without its lock
    tray,       \* an agent came up that has neither been quit nor crashed
    failures

procVars == <<system, room, procs, channel, poked, disk, daemon, waiting, unguarded, tray, failures>>

\* A shim "waits" for a process; "started", "spawned" its agent, "claimed" its role and
\* "opened" its channel are the steps to "up"; "leaving" is past the main loop.
Stage == {"none", "waits", "started", "spawned", "claimed", "opened", "up", "leaving"}
Process == [role : Role, at : Stage, new : BOOLEAN, holds : BOOLEAN, for : Proc \union {NoProc}]
Gone == [role |-> "gui", at |-> "none", new |-> FALSE, holds |-> FALSE, for |-> NoProc]
Fresh(role) == [role |-> role, at |-> "started", new |-> disk, holds |-> FALSE, for |-> NoProc]
Shim(p) == [role |-> procs[p].role, at |-> "waits", new |-> FALSE, holds |-> FALSE, for |-> p]

Is(p, role, at) == procs[p].role = role /\ procs[p].at = at
Holders(role) == {p \in Proc : procs[p].role = role /\ procs[p].holds}
\* No process identifier is used again while a shim waits for it.
Free == {p \in 1..room : procs[p].at = "none" /\ \A q \in Proc : procs[q].for # p}
Unused(p) == p \in Free /\ \A q \in Free : p <= q
Linux == system = "linux"
\* A window that is past making its channel and has none.
Mute(p) == procs[p].at \in {"opened", "spawned", "up"} /\ channel # p
Failure == failures < MaxFailures /\ failures' = failures + 1

InitInstances ==
    /\ procs = [p \in Proc |-> Gone]
    /\ channel = NoProc /\ poked = FALSE /\ disk = FALSE /\ daemon = FALSE
    /\ waiting = FALSE /\ unguarded = FALSE /\ tray = FALSE /\ failures = 0

Moves(p, at) == procs' = [procs EXCEPT ![p].at = at]

\* Process p is gone, with its lock and its channel.
Ends(p) ==
    /\ procs' = [procs EXCEPT ![p] = Gone]
    /\ channel' = IF channel = p THEN NoProc ELSE channel
    /\ poked' = (poked /\ channel # p)
-----------------------------------------------------------------------------
(***************************************************************************)
(* Starting.                                                               *)
(***************************************************************************)
\* By hand, at login, from the tray's menu or a notification.
Launch(role) ==
    /\ \E p \in Proc : Unused(p) /\ procs' = [procs EXCEPT ![p] = Fresh(role)]
    /\ UNCHANGED <<system, room, channel, poked, disk, daemon, waiting, unguarded, tray, failures>>

\* spawn_agent: on Linux before the role is claimed, elsewhere after.  If no process can be
\* made, as when the bound is reached, the window does without.
SpawnAgent(p) ==
    /\ Is(p, "gui", IF Linux THEN "started" ELSE "opened")
    /\ IF Free = {} THEN Moves(p, "spawned")
       ELSE \E a \in Proc : Unused(a) /\
              procs' = [procs EXCEPT ![p].at = "spawned", ![a] = Fresh("agent")]
    /\ UNCHANGED <<system, room, channel, poked, disk, daemon, waiting, unguarded, tray, failures>>

AtClaim(p) == procs[p].at = IF Linux /\ procs[p].role = "gui" THEN "spawned" ELSE "started"

\* Mutant: the lock is dropped at the end of claim_agent_slot, not forgotten.
ClaimDropped(p) ==
    /\ AtClaim(p) /\ Holders(procs[p].role) = {}
    /\ Moves(p, "claimed")
    /\ IF Linux /\ procs[p].role = "gui"
       THEN channel' = p /\ poked' = FALSE
       ELSE UNCHANGED <<channel, poked>>
    /\ UNCHANGED <<system, room, disk, daemon, waiting, unguarded, tray, failures>>

\* A bus name comes with its channel; a lock is held for as long as the process lives.
Claim(p) ==
    /\ AtClaim(p) /\ Holders(procs[p].role) = {}
    /\ procs' = [procs EXCEPT ![p].at = "claimed", ![p].holds = TRUE]
    /\ IF Linux /\ procs[p].role = "gui"
       THEN channel' = p /\ poked' = FALSE
       ELSE UNCHANGED <<channel, poked>>
    /\ UNCHANGED <<system, room, disk, daemon, waiting, unguarded, tray, failures>>

\* The lock cannot be had at all: that must not cost the user the window, or the icon.
RunUnguarded(p) ==
    /\ ~Linux /\ AtClaim(p) /\ Failure
    /\ Moves(p, IF procs[p].role = "gui" THEN "opened" ELSE "claimed")
    /\ unguarded' = TRUE
    /\ UNCHANGED <<system, room, channel, poked, disk, daemon, waiting, tray>>

\* Mutant: the socket is removed before the lock is tried, not by the process that got it.
HandOffUnlinking(p) ==
    /\ AtClaim(p) /\ Holders(procs[p].role) # {}
    /\ procs' = [procs EXCEPT ![p] = Gone]
    /\ IF procs[p].role = "gui"
       THEN /\ poked' = FALSE /\ channel' = NoProc
            /\ waiting' = (waiting \/ \E h \in Holders("gui") : procs[h].at # "leaving" /\ ~Mute(h))
       ELSE UNCHANGED <<channel, poked, waiting>>
    /\ UNCHANGED <<system, room, disk, daemon, unguarded, tray, failures>>

\* Another process has the role.  A window is asked to come forward, if it can hear.
HandOff(p) ==
    /\ AtClaim(p) /\ Holders(procs[p].role) # {}
    /\ procs' = [procs EXCEPT ![p] = Gone]
    /\ IF procs[p].role = "gui"
       THEN /\ poked' = (poked \/ channel # NoProc)
            /\ waiting' = (waiting \/ \E h \in Holders("gui") : procs[h].at # "leaving" /\ ~Mute(h))
       ELSE UNCHANGED <<poked, waiting>>
    /\ UNCHANGED <<system, room, channel, disk, daemon, unguarded, tray, failures>>

\* A socket that is there already is a dead window's.
OpenChannel(p) ==
    /\ ~Linux /\ Is(p, "gui", "claimed")
    /\ Moves(p, "opened")
    /\ channel' = p /\ poked' = FALSE
    /\ UNCHANGED <<system, room, disk, daemon, waiting, unguarded, tray, failures>>

OpenFails(p) ==
    /\ ~Linux /\ Is(p, "gui", "claimed") /\ Failure
    /\ Moves(p, "opened")
    /\ waiting' = FALSE
    /\ UNCHANGED <<system, room, channel, poked, disk, daemon, unguarded, tray>>

\* activate: build_ui presents the window it has built.
BuildUi(p) ==
    /\ Is(p, "gui", IF Linux THEN "claimed" ELSE "spawned")
    /\ Moves(p, "up")
    /\ waiting' = FALSE
    /\ UNCHANGED <<system, room, channel, poked, disk, daemon, unguarded, tray, failures>>

BuildAgent(p) ==
    /\ Is(p, "agent", "claimed")
    /\ Moves(p, "up")
    /\ tray' = TRUE
    /\ UNCHANGED <<system, room, channel, poked, disk, daemon, waiting, unguarded, failures>>

\* A second activation, or serve_present_requests.
Present ==
    /\ poked /\ procs[channel].at = "up"
    /\ poked' = FALSE /\ waiting' = FALSE
    /\ UNCHANGED <<system, room, procs, channel, disk, daemon, unguarded, tray, failures>>
-----------------------------------------------------------------------------
(***************************************************************************)
(* Ending.                                                                 *)
(***************************************************************************)
\* The last window closes, which ends the main loop: whoever counts on it is let down.
Close(p) ==
    /\ Is(p, "gui", "up")
    /\ Moves(p, "leaving")
    /\ waiting' = (waiting /\ ~procs[p].holds)
    /\ UNCHANGED <<system, room, channel, poked, disk, daemon, unguarded, tray, failures>>

\* "Quit Nullgate".
Quit(p) ==
    /\ Is(p, "agent", "up")
    /\ Moves(p, "leaving")
    /\ tray' = FALSE
    /\ UNCHANGED <<system, room, channel, poked, disk, daemon, waiting, unguarded, failures>>

Exit(p) ==
    /\ procs[p].at = "leaving"
    /\ Ends(p)
    /\ UNCHANGED <<system, room, disk, daemon, waiting, unguarded, tray, failures>>

Crash(p) ==
    /\ procs[p].at \notin {"none", "waits", "leaving"} /\ Failure
    /\ Ends(p)
    /\ IF procs[p].role = "gui"
       THEN waiting' = FALSE /\ UNCHANGED tray
       ELSE tray' = FALSE /\ UNCHANGED waiting
    /\ UNCHANGED <<system, room, disk, daemon, unguarded>>
-----------------------------------------------------------------------------
(***************************************************************************)
(* An update, which on Windows an installer outside the program carries    *)
(* through.                                                                *)
(***************************************************************************)
ReplaceBinary ==
    /\ system # "windows" /\ ~disk
    /\ disk' = TRUE
    /\ UNCHANGED <<system, room, procs, channel, poked, daemon, waiting, unguarded, tray, failures>>

UpdateDaemon ==
    /\ daemon # disk
    /\ daemon' = disk
    /\ UNCHANGED <<system, room, procs, channel, poked, disk, waiting, unguarded, tray, failures>>

\* The handshake shows a daemon of another version: a shim will start what is on disk once
\* this process is gone, if one can be made.  The agent leaves its main loop, the window
\* exits on the spot.
Relaunch(p) ==
    /\ system # "windows" /\ procs[p].at = "up" /\ procs[p].new # daemon
    /\ LET after == IF procs[p].role = "agent" THEN [procs[p] EXCEPT !.at = "leaving"] ELSE Gone
       IN IF Free = {} THEN procs' = [procs EXCEPT ![p] = after]
          ELSE \E q \in Proc : Unused(q) /\
                 procs' = [procs EXCEPT ![p] = after, ![q] = Shim(p)]
    /\ IF procs[p].role = "gui" /\ channel = p
       THEN channel' = NoProc /\ poked' = FALSE
       ELSE UNCHANGED <<channel, poked>>
    /\ tray' = (tray /\ (procs[p].role = "agent" => Free # {}))
    /\ waiting' = (waiting /\ (procs[p].role = "gui" => Free # {}))
    /\ UNCHANGED <<system, room, disk, daemon, unguarded, failures>>

\* Mutant: the new process is started at once.
ShimHurries(q) ==
    /\ procs[q].at = "waits"
    /\ procs' = [procs EXCEPT ![q] = Fresh(procs[q].role)]
    /\ UNCHANGED <<system, room, channel, poked, disk, daemon, waiting, unguarded, tray, failures>>

\* kill -0 fails.
ShimStarts(q) ==
    /\ procs[q].at = "waits" /\ procs[procs[q].for].at = "none"
    /\ procs' = [procs EXCEPT ![q] = Fresh(procs[q].role)]
    /\ UNCHANGED <<system, room, channel, poked, disk, daemon, waiting, unguarded, tray, failures>>
=============================================================================
