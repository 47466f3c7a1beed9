------------------------------- MODULE Recovery -------------------------------
(***************************************************************************)
(* How a device gets back to a member it has lost (ipn-core/src/engine.rs: *)
(* tick, spawn_dials and the dial backoff, doc_reseed_targets, set_pace,   *)
(* network_changed, the demand dial of spawn_tun_pump).                    *)
(*                                                                         *)
(* The tick dials members it has no connection to, one dial at a time, and *)
(* after each failure leaves the member alone for longer.  A heartbeat, a  *)
(* packet for the member or a changed network ends the wait.  The tick     *)
(* also seeds the document's swarm, at times with the reachable members    *)
(* only.  Time passes in units of DIAL_TIMEOUT; a pass, and the wait for a *)
(* lock, take less.  Presence has the connection and the rest of the tick. *)
(***************************************************************************)
EXTENDS Naturals

CONSTANTS
    NoDial,
    DialTimeout,  \* DIAL_TIMEOUT
    MaxBackoff,   \* DIAL_BACKOFF_MAX_MS
    Cooldown,     \* RECOVERY_BURST_COOLDOWN_MS
    Resync,       \* DOC_RESYNC_MS
    Fresh,        \* PRESENCE_FRESH_MS
    Every,        \* the tick's interval at each pace
    MaxFails,     \* bound: failures that are counted
    MaxMishaps    \* bound: passes that fail

Pace == {"interactive", "background"}

ASSUME RecoveryAssumptions ==
    /\ {DialTimeout, MaxBackoff, Cooldown, Resync, Fresh, MaxFails, MaxMishaps} \subseteq Nat
    /\ DialTimeout # 0 /\ MaxBackoff # 0
    /\ Every \in [Pace -> Nat \ {0}]
    /\ NoDial \notin [left : Nat, clean : BOOLEAN]

VARIABLES
    active,     \* State::doc: this device is connected to its network
    linked,     \* is the member in conns?
    path,       \* would a dial get through, and be admitted?
    dial,       \* the dial in flight, of which clean says that nothing has stood in its way
    fails,      \* BackoffEntry::failures, of which 0 is no entry
    wait,       \* how long until BackoffEntry::next_ok_ms
    force,      \* force_recover
    synced,     \* is doc_sync_set the roster's member set?
    resync,     \* how long ago last_doc_sync was, up to Resync + 1
    cool,       \* how long until the next burst may be
    heard,      \* how old the last heartbeat is, up to Fresh + 1
    pass,       \* the tick: "idle", "begun", or with the member "missing" or "connected"
    carry,      \* the pass's force
    pace, woken,
    rest,       \* how long ago the last pass was
    \* History
    up,         \* for how long a dial would have got through and there was no connection
    hinted,     \* the same, and one more, since a hint with no dial in flight; else 0
    unseeded,   \* for how long the member has been connected and not been seeded
    mishaps

backoff == <<fails, wait>>
swarm == <<synced, resync, heard>>
loop == <<pass, carry, pace, woken, rest>>
world == <<active, linked, path, mishaps>>
history == <<up, hinted, unseeded>>
recoveryVars == <<world, dial, backoff, force, swarm, cool, loop, history>>

Least(a, b) == IF a < b THEN a ELSE b
Less(n) == IF n = 0 THEN 0 ELSE n - 1

RecoveryInit ==
    /\ active = FALSE /\ linked = FALSE
    /\ path \in BOOLEAN /\ dial = NoDial /\ fails = 0 /\ wait = 0
    /\ force = FALSE /\ synced = FALSE /\ resync = Resync + 1
    /\ cool = 0 /\ heard \in {0, Fresh + 1}
    /\ pass = "idle" /\ carry = FALSE /\ pace = "interactive" /\ woken = TRUE /\ rest = 0
    /\ up = 0 /\ hinted = 0 /\ unseeded = 0 /\ mishaps = 0
-----------------------------------------------------------------------------
(***************************************************************************)
(* The backoff.                                                            *)
(***************************************************************************)
\* Mutant: no upper bound.
BackoffUncapped(n) == DialTimeout * 2^n

Backoff(n) ==
    LET delay == DialTimeout * 2^n
    IN  IF delay \in 0 .. MaxBackoff THEN delay ELSE MaxBackoff

RecordDialFailure ==
    /\ fails' = Least(fails + 1, MaxFails)
    /\ wait' = Backoff(fails + 1)

ResetDialBackoff == fails' = 0 /\ wait' = 0

\* The wait is over, the count stays.
ExpireDialBackoff == wait' = 0 /\ UNCHANGED fails

\* register_mesh of a connection of either end's, which resets the backoff.
Link ==
    /\ active /\ path
    /\ linked' = TRUE /\ ResetDialBackoff
    /\ UNCHANGED <<active, path, force, swarm, cool, loop, mishaps>>

Accepted == ~linked /\ Link /\ UNCHANGED dial

\* Also if the member has connected by itself: on_outcome is told of success all the same.
DialSucceeds == dial # NoDial /\ Link /\ dial' = NoDial

LinkEnds ==
    /\ linked /\ linked' = FALSE
    /\ UNCHANGED <<active, path, dial, backoff, force, swarm, cool, loop, mishaps>>

\* An error, or the timeout: also of a dial that was begun before the network changed, or
\* while the member connected by itself.
DialFails ==
    /\ dial # NoDial /\ ~(active /\ path /\ dial.clean)
    /\ dial' = NoDial /\ RecordDialFailure
    /\ UNCHANGED <<world, force, swarm, cool, loop>>

\* A heartbeat proves that the member is reachable; an old one does not make it fresh.
Heard ==
    /\ active
    /\ ResetDialBackoff /\ woken' = (woken \/ fails > 0)
    /\ heard' \in {0, heard}
    /\ UNCHANGED <<world, dial, force, synced, resync, cool, pass, carry, pace, rest>>

\* A packet wants the member, and no other has had the kick since the tick's last clock.
DemandDial ==
    /\ active /\ ~linked /\ fails > 0
    /\ ResetDialBackoff /\ woken' = TRUE
    /\ UNCHANGED <<world, dial, force, swarm, cool, pass, carry, pace, rest>>
-----------------------------------------------------------------------------
(***************************************************************************)
(* The platform.                                                           *)
(***************************************************************************)
SetPace(p) ==
    /\ pace' = p /\ woken' = TRUE
    /\ UNCHANGED <<world, dial, backoff, force, swarm, cool, pass, carry, rest>>

\* Mutant: a burst does not make the backoff due.
BurstKeepingBackoff ==
    /\ cool = 0
    /\ cool' = Cooldown /\ force' = TRUE /\ resync' = Resync + 1
    /\ UNCHANGED backoff

Burst ==
    /\ cool = 0
    /\ cool' = Cooldown /\ force' = TRUE /\ resync' = Resync + 1
    /\ ExpireDialBackoff

\* One burst per cooldown: a second change of the network within it only wakes the loop.
NetworkChanged ==
    /\ Burst \/ (cool > 0 /\ UNCHANGED <<cool, force, resync, backoff>>)
    /\ woken' = TRUE
    /\ UNCHANGED <<world, dial, synced, heard, pass, carry, pace, rest>>

Hindered == IF dial = NoDial THEN NoDial ELSE [dial EXCEPT !.clean = FALSE]

PathMoves ==
    /\ path' = ~path /\ dial' = Hindered
    /\ UNCHANGED <<active, linked, mishaps, backoff, force, swarm, cool, loop>>
-----------------------------------------------------------------------------
(***************************************************************************)
(* The tick.                                                               *)
(***************************************************************************)
\* The one-shot flag is consumed; without a network that is all.
PassBegins ==
    /\ pass = "idle"
    /\ rest' = 0 /\ woken' = FALSE
    /\ IF active THEN pass' = "begun" /\ carry' = force /\ force' = FALSE
                 ELSE UNCHANGED <<pass, carry, force>>
    /\ UNCHANGED <<world, dial, backoff, swarm, cool, pace>>

\* build_roster: the pass is over, the flag is not put back.
PassFails ==
    /\ pass = "begun" /\ mishaps < MaxMishaps
    /\ pass' = "idle" /\ mishaps' = mishaps + 1
    /\ UNCHANGED <<active, linked, path, dial, backoff, force, swarm, cool, carry, pace,
                   woken, rest>>

\* The connections are looked at; the State lock is awaited.  Other members may have changed.
PassLooks ==
    /\ pass = "begun"
    /\ pass' = IF linked THEN "connected" ELSE "missing"
    /\ synced' \in {synced, FALSE}
    /\ UNCHANGED <<world, dial, backoff, force, resync, heard, cool, carry, pace,
                   woken, rest>>

\* Mutant: connected members are not taken to be reachable.
SeedsHeard ==
    ~synced \/ carry \/ (resync > Resync /\ heard <= Fresh)

\* doc_reseed_targets: everyone after a change or a burst, else who is reachable, now and then.
Seeds ==
    ~synced \/ carry \/ (resync > Resync /\ (pass = "connected" \/ heard <= Fresh))

\* dial_backoff_filter and spawn_dials, the seeding, and on with the rest of the tick.
PassDials ==
    /\ pass \in {"missing", "connected"}
    /\ dial' = IF pass = "missing" /\ wait = 0 /\ dial = NoDial
               THEN [left |-> DialTimeout, clean |-> path] ELSE dial
    /\ resync' = IF Seeds THEN 0 ELSE resync
    /\ synced' = TRUE /\ pass' = "idle"
    /\ UNCHANGED <<world, backoff, force, heard, cool, carry, pace, woken, rest>>

\* The loop sleeps for no longer than its pace, and a dial is given up in time.
TimePasses ==
    /\ pass = "idle" /\ ~woken /\ rest < Every[pace]
    /\ dial # NoDial => dial.left > 0
    /\ dial' = IF dial = NoDial THEN NoDial ELSE [dial EXCEPT !.left = @ - 1]
    /\ wait' = Less(wait) /\ cool' = Less(cool)
    /\ resync' = Least(resync + 1, Resync + 1) /\ heard' = Least(heard + 1, Fresh + 1)
    /\ rest' = rest + 1
    /\ UNCHANGED <<world, fails, force, synced, pass, carry, pace, woken>>
-----------------------------------------------------------------------------
Connect ==
    /\ ~active /\ active' = TRUE
    /\ UNCHANGED <<linked, path, dial, backoff, force, swarm, cool, loop, mishaps>>

\* soft_disconnect: the dial in flight and the pass go on.
Disconnect ==
    /\ active /\ active' = FALSE /\ linked' = FALSE
    /\ ResetDialBackoff /\ force' = FALSE /\ synced' = FALSE /\ resync' = Resync + 1
    /\ dial' = Hindered
    /\ UNCHANGED <<path, heard, cool, loop, mishaps>>

\* The process starts again, and the loop begins with a pass.
Starts ==
    /\ active' \in BOOLEAN /\ linked' = FALSE
    /\ dial' = NoDial /\ ResetDialBackoff /\ force' = FALSE /\ synced' = FALSE
    /\ resync' = Resync + 1 /\ cool' = 0
    /\ pass' = "idle" /\ carry' = FALSE /\ pace' = "interactive" /\ woken' = TRUE /\ rest' = 0
    /\ UNCHANGED <<path, heard, mishaps>>

Waits == active /\ path /\ ~linked

\* The clocks of the history: what the step has done to them.
Clocks(time, hint, seed) ==
    /\ up' = IF Waits' THEN up + time ELSE 0
    /\ hinted' = IF ~Waits' THEN 0
                 ELSE IF hint THEN 1 ELSE IF hinted = 0 THEN 0 ELSE hinted + time
    /\ unseeded' = IF seed \/ ~active' \/ ~linked'
                   THEN 0 ELSE unseeded + time

RecoveryNext ==
    \/ /\ \/ Accepted \/ DialSucceeds \/ DialFails \/ LinkEnds \/ Heard \/ DemandDial
          \/ \E p \in Pace : SetPace(p)
          \/ PathMoves \/ PassBegins \/ PassFails \/ PassLooks
          \/ Connect \/ Disconnect
       /\ Clocks(0, FALSE, FALSE)
    \/ Starts /\ up' = 0 /\ hinted' = 0 /\ unseeded' = 0
    \/ NetworkChanged /\ Clocks(0, cool = 0 /\ dial = NoDial, FALSE)
    \/ PassDials /\ Clocks(0, FALSE, Seeds)
    \/ TimePasses /\ Clocks(1, FALSE, FALSE)

-----------------------------------------------------------------------------
Slowest == IF Every["interactive"] > Every["background"] THEN Every["interactive"]
           ELSE Every["background"]

\* A member that can be reached is connected again before long, whatever was begun in vain
\* before: after a dial, the longest wait, a pass and another dial.  A hint that the network
\* has changed ("retry now") has it dialed at once, unless it was throttled or found a dial in
\* flight.  One that is connected is seeded as often as it should be.  Only failing passes
\* delay that.
BackInTime ==
    /\ up < 2 * DialTimeout + MaxBackoff + (1 + mishaps) * Slowest
    /\ hinted <= 1 + DialTimeout + mishaps * Slowest
    /\ unseeded <= Resync + (1 + mishaps) * Slowest
=============================================================================
