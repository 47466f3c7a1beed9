--------------------------------- MODULE Power ---------------------------------
(***************************************************************************)
(* Sleep and wake (ipn-daemon/src/power.rs, power/macos.rs): the daemon     *)
(* leaves the network before the machine sleeps and rejoins on a full wake. *)
(* powerd calls back on one thread, which holds the sleep back for as long  *)
(* as on_sleep takes, but only spawns on_wake; joining takes a while, and   *)
(* the user connects, disconnects and edits relay tokens meanwhile.  The    *)
(* engine is reduced to whether it is on the network, and to the rebuild of *)
(* its node that a token makes it do: rebuild_node activates the network    *)
(* that it has, whether the device was on it or not.                        *)
(***************************************************************************)
EXTENDS Naturals

CONSTANTS
    MaxTasks,     \* bound: on_wake tasks not begun and joins under way
    MaxMishaps    \* bound: timeouts, failed joins and restarts of the daemon

ASSUME PowerBounds == MaxTasks \in Nat \ {0} /\ MaxMishaps \in Nat

VARIABLES
    watched,    \* does powerd call back at all?
    machine,    \* "awake", "sleeping" until the callback acknowledges, "asleep", "dark"
    callback,   \* on_sleep: "idle", at its "check", or "leaving" the network
    resume,     \* PowerHandler::resume_on_wake
    wakes,      \* on_wake tasks that have not run
    joins,      \* set_online(true) calls that are activating the network
    net,        \* "up", "down", or "half": closed, but its document still open
    rebuild,    \* rebuild_node: "idle", "due", "binding" a new node, or "broken": it has none
    \* History
    spoiled,    \* something was joining, failing or cut short as the machine went to sleep
    owed,       \* the daemon left for the sleep and nobody has undone that since
    off,        \* the user disconnected while nothing was joining, and edited no token since
    mishaps

powerVars == <<watched, machine, callback, resume, wakes, joins, net, rebuild, spoiled, owed, off,
               mishaps>>

InitPower ==
    /\ watched \in BOOLEAN
    /\ machine = "awake" /\ callback = "idle" /\ net \in {"up", "down"}
    /\ resume = FALSE /\ wakes = 0 /\ joins = 0 /\ rebuild = "idle"
    /\ spoiled = FALSE /\ owed = FALSE /\ off = FALSE /\ mishaps = 0

Running == machine # "asleep"
Mishap == mishaps < MaxMishaps /\ mishaps' = mishaps + 1
Joining == wakes + joins > 0 \/ rebuild \in {"due", "binding"}
Room == wakes + joins < MaxTasks
-----------------------------------------------------------------------------
(***************************************************************************)
(* The machine, and the callback.                                          *)
(***************************************************************************)
\* powerd announces a sleep, to a daemon that watches.
FallAsleep ==
    /\ machine \in {"awake", "dark"} /\ callback = "idle"
    /\ machine' = "sleeping"
    /\ callback' = IF watched THEN "check" ELSE "idle"
    /\ spoiled' = (spoiled \/ Joining)
    /\ UNCHANGED <<watched, rebuild, resume, wakes, joins, net, owed, off, mishaps>>

\* on_sleep: status() says offline, or there is no network.
NothingToLeave ==
    /\ callback = "check" /\ net = "down"
    /\ callback' = "idle"
    /\ UNCHANGED <<watched, rebuild, machine, resume, wakes, joins, net, spoiled, owed, off, mishaps>>

\* Mutant: the intent is recorded after the network is gone, if the timeout leaves time for it.
LeaveUnrecorded ==
    /\ callback = "check" /\ net # "down"
    /\ callback' = "leaving"
    /\ owed' = (net = "up")
    /\ UNCHANGED <<watched, rebuild, machine, resume, wakes, joins, net, spoiled, off, mishaps>>

\* It is online: the intent to resume is recorded before the network goes.
Leave ==
    /\ callback = "check" /\ net # "down"
    /\ callback' = "leaving" /\ resume' = TRUE
    /\ owed' = (net = "up")
    /\ UNCHANGED <<watched, rebuild, machine, wakes, joins, net, spoiled, off, mishaps>>

Left ==
    /\ callback = "leaving"
    /\ callback' = "idle" /\ net' = "down"
    /\ UNCHANGED <<watched, rebuild, machine, resume, wakes, joins, spoiled, owed, off, mishaps>>

\* SLEEP_DISCONNECT_TIMEOUT drops on_sleep where it waits: for the state, before it has
\* done anything, or after soft_disconnect has closed what needs no lock.
TimesOut ==
    /\ callback # "idle" /\ Mishap
    /\ callback' = "idle" /\ spoiled' = TRUE
    /\ IF callback = "leaving" /\ net # "down"
       THEN net' \in {net, "half"} /\ owed' = FALSE
       ELSE UNCHANGED <<net, owed>>
    /\ UNCHANGED <<watched, rebuild, machine, resume, wakes, joins, off>>

\* The acknowledgement, or nobody to wait for.
Sleep ==
    /\ machine = "sleeping" /\ callback = "idle"
    /\ machine' = "asleep"
    /\ UNCHANGED <<watched, rebuild, callback, resume, wakes, joins, net, spoiled, owed, off, mishaps>>

\* Mutant: every wake is a full wake.
DarkWakeTasks ==
    /\ machine = "asleep"
    /\ machine' = "dark"
    /\ IF watched THEN Room /\ wakes' = wakes + 1 ELSE UNCHANGED wakes
    /\ UNCHANGED <<watched, rebuild, callback, resume, joins, net, spoiled, owed, off, mishaps>>

\* classify: the CPU without graphics, for which there is nothing to do.
DarkWake ==
    /\ machine = "asleep"
    /\ machine' = "dark"
    /\ UNCHANGED <<watched, rebuild, callback, resume, wakes, joins, net, spoiled, owed, off, mishaps>>

\* Graphics: on_wake is spawned, for every change of capabilities while awake as well.
FullWake ==
    /\ machine # "sleeping"
    /\ machine' = "awake" /\ spoiled' = FALSE
    /\ IF watched THEN Room /\ wakes' = wakes + 1 ELSE UNCHANGED wakes
    /\ UNCHANGED <<watched, rebuild, callback, resume, joins, net, owed, off, mishaps>>

\* on_wake takes the flag, and joins if it was up and the network is not there already: the
\* task of an earlier wake may take that of a sleep which has only begun, and nobody rejoins.
OnWake ==
    /\ Running /\ wakes > 0
    /\ wakes' = wakes - 1 /\ resume' = FALSE
    /\ IF resume /\ net = "down" THEN joins' = joins + 1 ELSE UNCHANGED joins
    /\ owed' = (owed /\ (resume => net = "down"))
    /\ UNCHANGED <<watched, rebuild, machine, callback, net, spoiled, off, mishaps>>
-----------------------------------------------------------------------------
(***************************************************************************)
(* The engine and the user.                                                *)
(***************************************************************************)
NoNode == rebuild \in {"binding", "broken"}

Joined ==
    /\ Running /\ joins > 0 /\ ~NoNode
    /\ joins' = joins - 1 /\ net' = "up"
    /\ owed' = FALSE
    /\ UNCHANGED <<watched, rebuild, machine, callback, resume, wakes, spoiled, off, mishaps>>

\* activate finds the node closed, or fails otherwise.
JoinFails ==
    /\ Running /\ joins > 0
    /\ IF NoNode THEN UNCHANGED mishaps ELSE Mishap
    /\ joins' = joins - 1 /\ owed' = FALSE
    /\ UNCHANGED <<watched, rebuild, machine, callback, resume, wakes, net, spoiled, off>>

\* set_relay_settings with a token that is new: rebind_for_relay_tokens is spawned.  Bound: one
\* at a time.
EditTokens ==
    /\ machine \in {"awake", "sleeping"} /\ rebuild \in {"idle", "broken"}
    /\ rebuild' = "due"
    /\ spoiled' = (spoiled \/ machine = "sleeping")
    /\ off' = FALSE
    /\ UNCHANGED <<watched, machine, callback, resume, wakes, joins, net, owed, mishaps>>

\* rebuild_node goes offline and closes the node ...
RebuildBegins ==
    /\ Running /\ rebuild = "due"
    /\ rebuild' = "binding" /\ net' = "down"
    /\ UNCHANGED <<watched, machine, callback, resume, wakes, joins, spoiled, owed, off, mishaps>>

\* ... and activates the configuration it has read, which going offline keeps,
RebuildEnds ==
    /\ Running /\ rebuild = "binding"
    /\ rebuild' = "idle" /\ net' = "up"
    /\ owed' = FALSE
    /\ UNCHANGED <<watched, machine, callback, resume, wakes, joins, spoiled, off, mishaps>>

\* unless there is no new node.
RebuildFails ==
    /\ Running /\ rebuild = "binding" /\ Mishap
    /\ rebuild' = "broken"
    /\ UNCHANGED <<watched, machine, callback, resume, wakes, joins, net, spoiled, owed, off>>

\* set_online(true) for the user, who is there until the machine sleeps.
UserConnects ==
    /\ machine \in {"awake", "sleeping"}
    /\ IF net = "down" THEN Room /\ joins' = joins + 1 ELSE UNCHANGED joins
    /\ spoiled' = (spoiled \/ machine = "sleeping")
    /\ off' = FALSE
    /\ UNCHANGED <<watched, rebuild, machine, callback, resume, wakes, net, owed, mishaps>>

UserDisconnects ==
    /\ machine \in {"awake", "sleeping"}
    /\ net' = "down"
    /\ owed' = FALSE
    /\ off' = (machine = "awake" /\ ~Joining)
    /\ UNCHANGED <<watched, rebuild, machine, callback, resume, wakes, joins, spoiled, mishaps>>

\* The watchdog finds too much memory in use, or the daemon crashes: the service manager
\* starts it again, and Engine::start activates the stored network.
RestartPower ==
    /\ Running
    /\ callback' = "idle" /\ resume' = FALSE /\ wakes' = 0
    /\ joins' = 1 /\ net' = "down" /\ rebuild' = "idle"
    /\ spoiled' = (spoiled \/ machine # "awake")
    /\ owed' = FALSE /\ off' = FALSE
    /\ UNCHANGED <<watched, machine>>
=============================================================================
