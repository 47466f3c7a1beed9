---------------------------- MODULE EngineLifecycle ----------------------------
(***************************************************************************)
(* One device's engine over its life (ipn-core/src/engine.rs): entering    *)
(* and leaving networks, going offline and back, the maintenance tick, the *)
(* connections of the mesh, self-eviction, and the replacement of the iroh *)
(* node.                                                                   *)
(*                                                                         *)
(* All of it shares one Inner whose fields are locked one at a time, never *)
(* across an await.  So an operation that waits (for the network, for a    *)
(* document, for another device) runs in several steps here, and continues *)
(* with what it read in an earlier one.  Lock acquisitions in a row, and   *)
(* the awaits inside activate and soft_disconnect, are one step.           *)
(*                                                                         *)
(* The roster is reduced to its members: roll[n] is what this device's     *)
(* replica of network n folds to, and the environment changes it.          *)
(***************************************************************************)
EXTENDS Naturals, FiniteSets

CONSTANTS
    Self,        \* this device: my_id
    Peer,        \* the other devices
    Net,         \* networks this device may enter
    None,        \* no network
    Failed,      \* an interface that could not be opened
    StrikeLimit, \* REBUILD_AFTER_STRIKES
    RelayChanges, \* environment: relay tokens change while the engine runs
    MaxBusy      \* bound: operations of users and recovery under way at once

ASSUME NamesAssumption ==
    Self \notin Peer /\ None \notin Net /\ Failed \notin Net /\ None # Failed
ASSUME BoundsAssumption == StrikeLimit \in Nat \ {0} /\ MaxBusy \in Nat /\ RelayChanges \in BOOLEAN

VARIABLES
    \* State and Inner
    config,     \* State::config
    disk,       \* network.cbor
    doc,        \* State::doc (with author and gossip_sender)
    view,       \* State::roster: its members
    dirty,      \* Inner::docs_dirty
    wasMember,  \* Inner::was_member
    conns,      \* Inner::conns: peers with a mesh connection
    tun,        \* Inner::tun and tun_attempted: the network it was opened for
    strikes,    \* Inner::unhealthy_checks
    node,       \* the iroh node: "up" or "closed"
    \* Operations between two steps, with what they hold
    tick,       \* the maintenance tick: [pc, net, members]
    dialing,    \* Inner::dialing
    incoming,   \* peers past the roster gate of handle_mesh_incoming
    creating,   \* create_network: [pc, net]
    joining,    \* join_network: [pc, net]
    onlining,   \* set_online(true): the config it read
    rebuild,    \* rebuild_node: [pc, net]
    \* The environment
    roll        \* members of each network in this device's replica

netVars == <<config, disk, doc>>
liveVars == <<view, dirty, wasMember, conns, tun>>
nodeVars == <<strikes, node>>
userVars == <<creating, joining, onlining>>
meshVars == <<dialing, incoming>>
vars == <<netVars, liveVars, nodeVars, userVars, meshVars, tick, rebuild, roll>>

Device == Peer \union {Self}
NoTick == [pc |-> "idle", net |-> None, members |-> {}]
Idle == [pc |-> "idle", net |-> None]

Busy == Cardinality({op \in {"create", "join", "online", "rebuild"} :
                        \/ op = "create" /\ creating # Idle
                        \/ op = "join" /\ joining # Idle
                        \/ op = "online" /\ onlining # None
                        \/ op = "rebuild" /\ rebuild # Idle})

Init ==
    /\ config = None /\ disk = None /\ doc = None
    /\ view = {} /\ dirty = FALSE /\ wasMember = FALSE /\ conns = {} /\ tun = None
    /\ strikes = 0 /\ node = "up"
    /\ tick = NoTick /\ dialing = {} /\ incoming = {}
    /\ creating = Idle /\ joining = Idle /\ onlining = None /\ rebuild = Idle
    /\ roll = [n \in Net |-> {}]
-----------------------------------------------------------------------------
(***************************************************************************)
(* Bringing a network up and down.                                         *)
(***************************************************************************)
\* activate opens the document and the gossip topic on the node it finds; on a
\* closed one it fails and changes nothing.
Activate(n) ==
    /\ config' = IF node = "up" THEN n ELSE config
    /\ doc' = IF node = "up" THEN n ELSE doc
    /\ dirty' = (dirty \/ node = "up")

\* What soft_disconnect clears.  A tick, dials and incoming handshakes under way
\* are not among the tasks it aborts.
Disconnect ==
    /\ doc' = None
    /\ view' = {} /\ dirty' = FALSE /\ wasMember' = FALSE /\ conns' = {} /\ tun' = None

Teardown == Disconnect /\ config' = None /\ disk' = None

\* create_network saves the configuration, activates it, and publishes the genesis
\* entry that makes this device a member, each after an await.
CreateSave(n) ==
    /\ config = None /\ creating = Idle /\ Busy < MaxBusy
    /\ disk' = n
    /\ creating' = [pc |-> "saved", net |-> n]
    /\ UNCHANGED <<config, doc, liveVars, nodeVars, joining, onlining, meshVars, tick, rebuild,
                   roll>>

CreateActivate ==
    /\ creating.pc = "saved"
    /\ Activate(creating.net)
    /\ creating' = IF node = "up" THEN [creating EXCEPT !.pc = "active"] ELSE Idle
    /\ UNCHANGED <<disk, view, wasMember, conns, tun, nodeVars, joining, onlining, meshVars,
                   tick, rebuild, roll>>

\* publish writes to whatever document is open, if any; refresh_roster then folds it
\* and latches the membership.
CreatePublish ==
    /\ creating.pc = "active"
    /\ creating' = Idle
    /\ IF doc = None
       THEN UNCHANGED <<roll, view, dirty, wasMember>>
       ELSE /\ roll' = IF doc = creating.net
                       THEN [roll EXCEPT ![doc] = @ \union {Self}]
                       ELSE roll
            /\ view' = roll'[doc]
            /\ dirty' = TRUE
            /\ wasMember' = (wasMember \/ Self \in view')
    /\ UNCHANGED <<netVars, conns, tun, nodeVars, joining, onlining, meshVars, tick,
                   rebuild>>

LeaveNetwork ==
    /\ config # None
    /\ Teardown
    /\ UNCHANGED <<nodeVars, userVars, meshVars, tick, rebuild, roll>>

GoOffline ==
    /\ Disconnect
    /\ UNCHANGED <<config, disk, nodeVars, userVars, meshVars, tick, rebuild, roll>>

\* set_online(true) reads the config first and activates it afterwards.
GoOnline ==
    /\ doc = None /\ onlining = None /\ Busy < MaxBusy
    /\ config # None \/ disk # None
    /\ onlining' = IF config # None THEN config ELSE disk
    /\ UNCHANGED <<netVars, liveVars, nodeVars, creating, joining, meshVars, tick, rebuild, roll>>

Online ==
    /\ onlining # None
    /\ Activate(onlining)
    /\ onlining' = None
    /\ UNCHANGED <<disk, view, wasMember, conns, tun, nodeVars, creating, joining, meshVars,
                   tick, rebuild, roll>>

\* The process dies; Engine::start activates what the disk holds.
Crash ==
    /\ config' = disk /\ doc' = disk /\ dirty' = (disk # None)
    /\ view' = {} /\ wasMember' = FALSE /\ conns' = {} /\ tun' = None
    /\ strikes' = 0 /\ node' = "up"
    /\ tick' = NoTick /\ dialing' = {} /\ incoming' = {}
    /\ creating' = Idle /\ joining' = Idle /\ onlining' = None /\ rebuild' = Idle
    /\ UNCHANGED <<disk, roll>>
-----------------------------------------------------------------------------
(***************************************************************************)
(* join_network: nothing is opened until a member has approved; then the   *)
(* device waits to see itself in the roster, and otherwise forgets all.    *)
(***************************************************************************)
JoinAsk(n) ==
    /\ config = None /\ joining = Idle /\ Busy < MaxBusy
    /\ joining' = [pc |-> "asking", net |-> n]
    /\ UNCHANGED <<netVars, liveVars, nodeVars, creating, onlining, meshVars, tick, rebuild, roll>>

JoinApproved ==
    /\ joining.pc = "asking" /\ node = "up"
    /\ Activate(joining.net)
    /\ disk' = joining.net
    /\ joining' = [joining EXCEPT !.pc = "polling"]
    /\ UNCHANGED <<view, wasMember, conns, tun, nodeVars, creating, onlining, meshVars, tick,
                   rebuild, roll>>

JoinConfirmed ==
    /\ joining.pc = "polling"
    /\ doc = joining.net /\ Self \in roll[doc]
    /\ joining' = Idle
    /\ UNCHANGED <<netVars, liveVars, nodeVars, creating, onlining, meshVars, tick, rebuild, roll>>

\* Declined, unreachable, unable to activate, or never seen in the roster.
JoinFails ==
    /\ joining # Idle
    /\ Teardown
    /\ joining' = Idle
    /\ UNCHANGED <<nodeVars, creating, onlining, meshVars, tick, rebuild, roll>>

\* The client hangs up and the daemon drops the request where it stands.
JoinDropped ==
    /\ joining # Idle
    /\ joining' = Idle
    /\ UNCHANGED <<netVars, liveVars, nodeVars, creating, onlining, meshVars, tick, rebuild, roll>>
-----------------------------------------------------------------------------
(***************************************************************************)
(* The maintenance tick.                                                   *)
(***************************************************************************)
\* The document, and whether to fold it: the mark is taken, and when there was none and the
\* catch-all is not due the roster is the one in the State.
TickBegin ==
    /\ tick = NoTick
    /\ doc # None /\ config # None
    /\ \/ tick' = [pc |-> "read", net |-> doc, members |-> {}]
       \/ ~dirty /\ tick' = [pc |-> "apply", net |-> doc, members |-> view]
    /\ dirty' = FALSE
    /\ UNCHANGED <<netVars, view, wasMember, conns, tun, nodeVars, userVars, meshVars, rebuild,
                   roll>>

\* build_roster, of the document as it is by now.
TickRead ==
    /\ tick.pc = "read"
    /\ tick' = [tick EXCEPT !.pc = "apply", !.members = roll[tick.net]]
    /\ UNCHANGED <<netVars, liveVars, nodeVars, userVars, meshVars, rebuild, roll>>

\* Mutant: connections to devices that are no longer members are left alone.
TickApplyNoSweep ==
    /\ tick.pc = "apply"
    /\ Self \in tick.members \/ ~wasMember
    /\ wasMember' = (Self \in tick.members)
    /\ IF Self \in tick.members /\ tun = None
       THEN tun' \in {tick.net, Failed}
       ELSE tun' = tun
    /\ tick' = [tick EXCEPT !.pc = "store"]
    /\ UNCHANGED <<netVars, view, dirty, conns, nodeVars, userVars, meshVars, rebuild, roll>>

\* Mutant: the mark is taken once the roster is there, not before it is read.
TickApplyUnmarking ==
    /\ tick.pc = "apply"
    /\ Self \in tick.members \/ ~wasMember
    /\ wasMember' = (Self \in tick.members)
    /\ conns' = conns \intersect tick.members
    /\ dirty' = FALSE
    /\ IF Self \in tick.members /\ tun = None
       THEN tun' \in {tick.net, Failed}
       ELSE tun' = tun
    /\ tick' = [tick EXCEPT !.pc = "store"]
    /\ UNCHANGED <<netVars, view, nodeVars, userVars, meshVars, rebuild, roll>>

\* Membership latched, ghosts closed, the interface opened once for this device's
\* address.  Whether the network is still the open one is not asked again.
TickApply ==
    /\ tick.pc = "apply"
    /\ Self \in tick.members \/ ~wasMember
    /\ wasMember' = (Self \in tick.members)
    /\ conns' = conns \intersect tick.members
    /\ IF Self \in tick.members /\ tun = None
       THEN tun' \in {tick.net, Failed}
       ELSE tun' = tun
    /\ tick' = [tick EXCEPT !.pc = "store"]
    /\ UNCHANGED <<netVars, view, dirty, nodeVars, userVars, meshVars, rebuild, roll>>

\* Self-eviction: once a member, no longer one.
TickEvict ==
    /\ tick.pc = "apply"
    /\ Self \notin tick.members /\ wasMember
    /\ Teardown
    /\ tick' = NoTick
    /\ UNCHANGED <<nodeVars, userVars, meshVars, rebuild, roll>>

\* Mutant: only members new to the roster are dialed.
TickStoreDialNew ==
    /\ tick.pc = "store"
    /\ view' = tick.members
    /\ dialing' = dialing \union (tick.members \ (view \union {Self}))
    /\ tick' = NoTick
    /\ UNCHANGED <<netVars, dirty, wasMember, conns, tun, nodeVars, userVars, incoming, rebuild,
                   roll>>

\* The roster is published in the State and the missing members are dialed.
TickStore ==
    /\ tick.pc = "store"
    /\ view' = tick.members
    /\ dialing' = dialing \union (tick.members \ (conns \union {Self}))
    /\ tick' = NoTick
    /\ UNCHANGED <<netVars, dirty, wasMember, conns, tun, nodeVars, userVars, incoming, rebuild,
                   roll>>
-----------------------------------------------------------------------------
(***************************************************************************)
(* The mesh: dials and incoming handshakes end in register_mesh.           *)
(***************************************************************************)
DialSucceeds(p) ==
    /\ p \in dialing /\ node = "up"
    /\ dialing' = dialing \ {p}
    /\ conns' = conns \union {p}
    /\ UNCHANGED <<netVars, view, dirty, wasMember, tun, nodeVars, userVars, incoming, tick,
                   rebuild, roll>>

\* An error or DIAL_TIMEOUT; the slot is freed either way.
DialFails(p) ==
    /\ p \in dialing
    /\ dialing' = dialing \ {p}
    /\ UNCHANGED <<netVars, liveVars, nodeVars, userVars, incoming, tick, rebuild, roll>>

Incoming(p) ==
    /\ config # None /\ node = "up"
    /\ p \in view
    /\ incoming' = incoming \union {p}
    /\ UNCHANGED <<netVars, liveVars, nodeVars, userVars, dialing, tick, rebuild, roll>>

Register(p) ==
    /\ p \in incoming
    /\ incoming' = incoming \ {p}
    /\ conns' = conns \union {p}
    /\ UNCHANGED <<netVars, view, dirty, wasMember, tun, nodeVars, userVars, dialing, tick,
                   rebuild, roll>>

ConnLost(p) ==
    /\ p \in conns
    /\ conns' = conns \ {p}
    /\ UNCHANGED <<netVars, view, dirty, wasMember, tun, nodeVars, userVars, meshVars, tick,
                   rebuild, roll>>
-----------------------------------------------------------------------------
(***************************************************************************)
(* Recovery: health checks, and the replacement of the node.               *)
(***************************************************************************)
Healthy == doc = None \/ view \subseteq {Self} \/ conns # {}

HealthyCheck ==
    /\ Healthy
    /\ strikes' = 0
    /\ UNCHANGED <<netVars, liveVars, node, userVars, meshVars, tick, rebuild, roll>>

\* Below the limit, or too soon after the last rebuild: a recovery burst.  Strikes
\* beyond the limit are not told apart.
Burst ==
    /\ ~Healthy
    /\ strikes' = IF strikes < StrikeLimit THEN strikes + 1 ELSE strikes
    /\ dirty' = TRUE
    /\ UNCHANGED <<netVars, view, wasMember, conns, tun, node, userVars, meshVars, tick,
                   rebuild, roll>>

HealthRebuild ==
    /\ ~Healthy /\ strikes + 1 >= StrikeLimit
    /\ rebuild = Idle /\ Busy < MaxBusy
    /\ strikes' = 0
    /\ rebuild' = [pc |-> "close", net |-> config]
    /\ UNCHANGED <<netVars, liveVars, node, userVars, meshVars, tick, roll>>

\* rebind_for_relay_tokens: new relay settings need a new endpoint.
RelayRebuild ==
    /\ RelayChanges
    /\ rebuild = Idle /\ Busy < MaxBusy
    /\ rebuild' = [pc |-> "close", net |-> config]
    /\ UNCHANGED <<netVars, liveVars, nodeVars, userVars, meshVars, tick, roll>>

\* A roster read that the closing node interrupts makes its tick return early.
RebuildClose ==
    /\ rebuild.pc = "close"
    /\ Disconnect
    /\ node' = "closed"
    /\ tick' \in IF tick.pc = "read" THEN {tick, NoTick} ELSE {tick}
    /\ rebuild' = [rebuild EXCEPT !.pc = "spawn"]
    /\ UNCHANGED <<config, disk, strikes, userVars, meshVars, roll>>

\* Without a new node, rebuild_node returns the error and nothing is activated.
RebuildFails ==
    /\ rebuild.pc = "spawn"
    /\ rebuild' = Idle
    /\ UNCHANGED <<netVars, liveVars, nodeVars, userVars, meshVars, tick, roll>>

RebuildSpawn ==
    /\ rebuild.pc = "spawn"
    /\ node' = "up"
    /\ rebuild' = [rebuild EXCEPT !.pc = "activate"]
    /\ UNCHANGED <<netVars, liveVars, strikes, userVars, meshVars, tick, roll>>

RebuildActivate ==
    /\ rebuild.pc = "activate"
    /\ IF rebuild.net = None THEN UNCHANGED <<config, doc, dirty>> ELSE Activate(rebuild.net)
    /\ rebuild' = Idle
    /\ UNCHANGED <<disk, view, wasMember, conns, tun, nodeVars, userVars, meshVars, tick, roll>>
-----------------------------------------------------------------------------
\* The document syncs: an entry arrives that adds or removes d.
SyncAdd(d) ==
    /\ doc # None /\ d \notin roll[doc]
    /\ roll' = [roll EXCEPT ![doc] = @ \union {d}]
    /\ dirty' = TRUE
    /\ UNCHANGED <<netVars, view, wasMember, conns, tun, nodeVars, userVars, meshVars, tick,
                   rebuild>>

\* Mutant: a removal does not mark the document dirty.
SyncRemoveSilently(d) ==
    /\ doc # None /\ d \in roll[doc]
    /\ roll' = [roll EXCEPT ![doc] = @ \ {d}]
    /\ UNCHANGED <<netVars, liveVars, nodeVars, userVars, meshVars, tick, rebuild>>

SyncRemove(d) ==
    /\ doc # None /\ d \in roll[doc]
    /\ roll' = [roll EXCEPT ![doc] = @ \ {d}]
    /\ dirty' = TRUE
    /\ UNCHANGED <<netVars, view, wasMember, conns, tun, nodeVars, userVars, meshVars, tick,
                   rebuild>>

User ==
    \/ \E n \in Net : CreateSave(n) \/ JoinAsk(n)
    \/ CreateActivate \/ CreatePublish
    \/ JoinApproved \/ JoinConfirmed \/ JoinFails \/ JoinDropped
    \/ LeaveNetwork \/ GoOffline \/ GoOnline \/ Online \/ Crash

Tick == TickBegin \/ TickRead \/ TickApply \/ TickEvict \/ TickStore

Mesh == \E p \in Peer :
    DialSucceeds(p) \/ DialFails(p) \/ Incoming(p) \/ Register(p) \/ ConnLost(p)

Recovery ==
    \/ HealthyCheck \/ Burst \/ HealthRebuild \/ RelayRebuild
    \/ RebuildClose \/ RebuildFails \/ RebuildSpawn \/ RebuildActivate

Next ==
    \/ User \/ Tick \/ Mesh \/ Recovery
    \/ \E d \in Device : SyncAdd(d) \/ SyncRemove(d)

(***************************************************************************)
(* Fairness.  The tick loop never stops, and its steps end (WF).  A dial   *)
(* ends by DIAL_TIMEOUT at the latest (WF), and one to a peer that can be  *)
(* reached succeeds if it is tried again and again (SF).  The health       *)
(* checks come from a repeating alarm (WF).  Nothing else is promised.     *)
(***************************************************************************)
Fairness ==
    /\ WF_vars(Tick)
    /\ \A p \in Peer : WF_vars(DialFails(p)) /\ SF_vars(DialSucceeds(p))
    /\ WF_vars(HealthyCheck \/ Burst)

Spec == Init /\ [][Next]_vars
FairSpec == Spec /\ Fairness
-----------------------------------------------------------------------------
\* Every field and every operation under way has its type.
TypeOK ==
    /\ {config, disk, doc, onlining} \subseteq Net \union {None}
    /\ view \subseteq Device /\ conns \subseteq Peer
    /\ {dirty, wasMember} \subseteq BOOLEAN
    /\ tun \in Net \union {None, Failed}
    /\ strikes \in 0 .. StrikeLimit
    /\ node \in {"up", "closed"}
    /\ tick \in [pc : {"idle", "read", "apply", "store"}, net : Net \union {None},
                 members : SUBSET Device]
    /\ dialing \subseteq Peer /\ incoming \subseteq Peer
    /\ creating \in [pc : {"idle", "saved", "active"}, net : Net \union {None}]
    /\ joining \in [pc : {"idle", "asking", "polling"}, net : Net \union {None}]
    /\ rebuild \in [pc : {"idle", "close", "spawn", "activate"}, net : Net \union {None}]
    /\ roll \in [Net -> SUBSET Device]

\* A removed device leaves by itself: once the tick has seen this device in the
\* roster, a removal that reaches its replica ends its stay, whatever tick was under
\* way with the old roster.  (Going offline or dying loses the latch.)
RemovedDeviceLeaves ==
    \A n \in Net :
        (doc = n /\ wasMember /\ Self \notin roll[n])
            ~> (config # n \/ ~wasMember \/ Self \in roll[n])

\* No ghost stays: a connection to a device that is no longer a member is closed,
\* including the one a dial or a handshake begun before the removal brings back.
GhostsClosed ==
    \A n \in Net, p \in Peer :
        (doc = n /\ p \in conns /\ p \notin roll[n])
            ~> (doc # n \/ p \notin conns \/ p \in roll[n])

\* The mesh heals: a member that can be reached gets connected, however many dials
\* failed or connections were lost before.  No dial slot is leaked.  (A process that
\* dies again and again connects nobody.)
MembersReconnect ==
    <>[][~Crash]_vars => \A n \in Net, p \in Peer :
        (doc = n /\ p \in roll[n]) ~> (doc # n \/ p \in conns \/ p \notin roll[n])
=============================================================================
