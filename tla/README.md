# A specification of Nullgate in TLA+

Nullgate is a peer-to-peer mesh VPN written in Rust. These modules model the parts of it whose
correctness depends on order, concurrency and failure: the signed membership log and the roster
folded from it; the protocol by which devices join, administer and leave a network over replicas
that drift apart; the life of one device's engine, its connections, relays, presence, interface
and files; and the programs around it on a desktop, which follow it over a socket, run once each,
sleep and wake. TLC checks small instances of them; TLAPS proves the central claims about the
log, and about the entries of a mesh link, for every instance. Paths below are relative to
`src/`; `core` is `crates/ipn-core/src`, `gui` is `crates/ipn-gui/src`.

## 1. The system

### Components

| component | code | state it keeps | operations |
|---|---|---|---|
| roster fold | `core/roster.rs` | a set of signed entries; while folding: members, admission times, current invites, spent nonces, freeze flag | `Roster::build`, `check_invite` |
| virtual addresses | `core/roster.rs` | the octet each Add records | `assign_ips`, `lowest_free_host` |
| membership protocol | `core/engine.rs`, `core/admission.rs` | per device: document replica, `State::roster`, `State::pending`, `was_member`, the master key in the config | join, approve or deny, remove, roles, freeze, invites, key import, leave |
| engine lifecycle | `core/engine.rs` | `State`, and the `Inner` fields beside it: `conns`, `tun`, `docs_dirty`, `dialing`, `unhealthy_checks`, the iroh node | `create_network`, `join_network`, `leave_network`, `set_online`, `tick`, `health_check`, `rebuild_node` |
| mesh connections | `core/engine.rs` | `conns`, `dialing`, `dial_backoff`, `force_recover`, `last_recovery_burst` | `dial_member`, `handle_mesh_incoming`, `register_mesh`, `spawn_dials`, `network_changed`, `set_pace` |
| relay settings | `core/relays.rs`, `engine.rs`, `node.rs` | settings, generation, relay map, tokens, preferred relays | `set_relay_settings`, `apply_relay_map`, `rebind_for_relay_tokens`, `settle_home_relay` |
| presence and gossip | `core/presence.rs`, `engine.rs` | online, last seen, blocks and location per member | `record_connection`, `record_heartbeat`, `set_location` |
| conntrack and one-way block | `core/conntrack.rs`, `engine.rs` | flows with their last use, coarse clock, two switches and their file | `record_outbound`, `allows_inbound`, `sweep`, `set_hidden`, `set_remote_access_disabled` |
| packet routing | `core/router.rs`, `tun_device.rs`, `engine.rs` | the TUN device, its pump, `tun_attempted` | `enable_tun`, `spawn_tun_pump`, `attach_tun_fd`, `detach_tun`; parse, clamp, forward |
| secrets and configuration | `core/secrets.rs`, `node.rs`, `engine.rs` | `network.cbor`, the OS keystore, markers, key files | `save_config`, `load_config`, `store`, `load`, `delete` |
| network secret, ticket, recovery key | `core/network.rs`, `membership.rs` | none | derivations, encodings |
| geo lookup | `core/geo.rs` | a database file | download, look up |
| daemon IPC server | `crates/ipn-daemon`, `crates/ipn-ipc` | requests and subscriptions | `handle_conn`, `subscribe_loop` |
| power events | `crates/ipn-daemon/src/power.rs`, `power/macos.rs` | `resume_on_wake` | `on_sleep`, `on_wake`, `on_power_event` |
| watchdog, logging, service | `crates/ipn-daemon` | - | platform I/O |
| desktop GUI and tray agent | `gui` | lock, socket; last status, request cards; `offline_since`, actions, menu | claims and hand-offs, `stream_events`, `apply_status`, notifications, `tray_items` |
| command line | `crates/ipn-cli` | none | one request per call |
| Android app | `android`, `crates/ipn-mobile` | engine holder, consent, pending tunnel | `onTunSetup`, `establishTun`, `onRevoke`, alarms |
| packaging and scripts | `packaging`, `scripts`, `wix` | - | - |

### How they interact

Every device of a network holds a replica of one iroh document of signed entries. Whoever is, or
ever was, a member can write to it, so authority lies only in the fold: `Roster::build` sorts the
entries by (timestamp, content id) and applies the rules, and every device folds its own replica.
The maintenance loop (`tick`) does that whenever the document was marked dirty, publishes the
result in `State::roster`, leaves the network when the device itself has dropped out, closes
connections to devices that are no longer members, opens the interface and dials the missing
members. Everything else (approvals, incoming connections, health checks, the IPC server) decides
on that last fold. A joining device asks a member over a separate connection; the member's user
approves; the member publishes an Add; the joiner then polls its own replica until it sees itself.
The GUI, the CLI, the tray agent and the phone app reach the engine through the IPC server or a
facade, and the server drops a request whose client hangs up.

### What is hard

- **Order.** Entries arrive in any order, and each is stamped by its publisher's clock. A late or
  skewed entry rewrites history a device has acted on.
- **Stale reads.** The joiner reads its replica, the approver its last fold, the tick the document
  handle it cloned some awaits ago. The state mutex is never held across an await.
- **Incomplete cancellation.** Taking a network down aborts the network's tasks, but not the
  tick, the dials and the handshakes in progress.
- **The latch.** `was_member` decides between "not admitted yet" and "removed": lost, a removed
  device stays; kept too long, a device throws itself out.
- **Recovery.** The node is closed and replaced beneath all of that, and the replacement may fail.
- **Separate code that must agree.** The pre-check of an invite, the engine's own permission
  gates and the fold's rules are written three times.

- **Several writes, no transaction.** A configuration is a file and up to two secrets, each in a
  keystore or a file with a marker. Any write may fail, and the process may die between two.
- **Latches and generations.** `tun_attempted`, `force_recover`, `resume_on_wake` and
  `relay_apply_gen` are set in one task and consumed in another; what stands between must not
  swallow them.
- **Lossy streams.** The event bus drops what a slow receiver did not fetch, and the session
  merges what it forwards. The window must end at the truth all the same.
- **Processes.** A window and an agent, each meant to run once, start, hand over, are replaced on
  disk and crash; a file that one writes is polled by the other.

`PROJECT.json` lists the hazards at their lines, the ones no property covers yet included.

### What makes each component correct

- Roster fold: power flows from the originator only; a single-use invite admits once; the pre-check
  agrees with the fold.
- Addresses: distinct while there is room, stable under joins, as promised to an informed joiner.
- Membership: the gates let through nothing the fold refuses; a device evicts itself only when it
  was dismissed; removed devices go.
- Lifecycle: a removal ends the stay, ghost connections close, reachable members are connected,
  an offline engine is quiet, a failed recovery is tried again.
- Mesh: both ends keep the same connection, a superseded one never evicts its successor, and a
  member that can be reached is dialed again before long.
- Relays: the map and the endpoint end up at the last settings; no edit stays "pending".
- Presence: a member is shown online iff a connection to it exists, and clients need not poll.
- Data plane: routing comes up whenever it may and goes with the network; under the block a packet
  comes in exactly on a flow this device opened.
- Secrets: no single mishap mixes two networks, loses the identity, or brings a network back.
- Daemon: the window ends at the last status, and keeps each join request it was told of.
- Desktop: one window and one agent, through crashes and updates; off while asleep, back on wake;
  devices that return are announced, and the menu follows the actions file.

## 2. The modules

    RosterRules          entries, authorization, effects, check_invite
     |- RosterFold         the fold, entry by entry     MCRosterFold    \
     `- RosterBuild        the whole fold; addresses                     | RosterFoldProofs
         |- Addresses        a network's addresses        MCAddresses    |
         `- Membership       many devices, one network    MCMembership  /
    EngineLifecycle      one device, any networks       MCEngineLifecycle
    Mesh                 two devices, one link          MCMesh, MeshProofs
    Presence, Recovery   one device, one other member   MCPresence (both), PresenceProofs (both)
    Relays               one device's relay servers     MCRelays, RelaysProofs
    Storage              one device's files, keystore   MCStorage, StorageProofs
    DataPlane                                           MCDataPlane, DataPlaneProofs
     |- Tunnel             TUN device, pump, VPN service
     `- OneWayBlock        flows, switches, their file
    Feed                 a window, its daemon           MCFeed, FeedProofs
     `. StatusFeed         what the page promises (refined by Feed)
    Desktop                                             MCDesktop, DesktopProofs
     |- Instances          processes: window and agent
     |- Power              sleep and wake
     `- Tray               notifications, actions, menu

**RosterRules** holds the rules of `Roster::build`, one operator per arm of its match
(`AddAllowed`, `RemoveAllowed`, ...), one per effect (`AfterAdd`, ...), and `CheckInvite`. An
entry is any record anybody can sign. What is checked before the fold (signature, network id, the
ceiling on future timestamps) is taken as passed. `members` and `admitted_ts`, which have
the same keys, are total functions with a "none" role.

**RosterFold** is the fold as a state machine: each step accepts the next entry of the order, and
refused entries (every `continue` of the loop) stutter. Entries of one timestamp come in any
order, since the tie-break is a hash. Four history variables record who was appointed by whom and
what each nonce was spent on; no guard reads them.

**RosterBuild** is the same fold as a function of a *set* of entries (`Fold`, in timestamp order),
followed by `assign_ips` (`Placement`, in admission order). Both are recursive functions on the subsets of
the entries or devices, the last one last. **Addresses** runs it over a network's life: approvers with
the current roster record the lowest free host, others record anything at all.

**Membership** has many devices and one network. `log` is everything published, `replica[d]` what
`d`'s document holds, `view[d]` its `State::roster`, `latched` its `was_member`, `open` the
devices with an active network, `masters` those whose config holds the master key, and `pending`,
`asking` and `polling` the three stages of a join. There is an action for each operation of the
engine. Devices stamp entries with their own clocks, ahead by `Skew`. A tick takes the steps between
its awaits: it clones the document (`TickBegin`), folds it (`TickFold`), latches, passes or leaves
(`TickLatch`, `TickOutside`, `SelfEvict`) and stores the roster (`TickStore`), and the network may go, and
come back, between any two. `sighting`, `cut` and `overtaken` are history: what the device last saw
itself in, and the ticks under which its network went down. A network deletion and a secret
rotation are not in it yet.

**EngineLifecycle** has one device. Its operations are cut into steps where the code awaits
something outside (network, document, another device, node start), and each continues with what it read
in an earlier step, as the code does. Awaits inside `activate`, `soft_disconnect` and `teardown`
are merged into one step. The roster is reduced to its set of members, `roll[n]`, which the
environment changes. Dial backoff and other delays are left out: a dial may start whenever the
tick asks. `RelayChanges` lets the environment change relay tokens, which rebuilds the node too; Relays and
Recovery have what is left out.

**Mesh** has two members of a network and the connections between them, with both ends. A
connection has an initiator, the ends at which it is `open` (no `close_reason`), and at each end
a task: in the admission handshake, past it, entered in `conns` and waiting for the state mutex,
or watched. A close reaches the other end in a step of its own. `TickRead` and `TickDial` are the
two halves of the tick (it snapshots `conns`, and dials later), `KeepNew` is `resolve_duplicate`,
and `DialTimeout` is `DIAL_TIMEOUT` striking inside `register_mesh`. `GoOffline` stands for going
offline and coming back; `Crash` for dying silently and starting again. Dial backoff is in
Recovery, what is recorded of the peer in Presence.

**Presence** is what one device knows and shows of one member: `entry` is `conns`, `peer` the
member's `PeerStatus`, and the connection tasks, the gossip receiver, the tick and going offline
write it under the state lock in steps of their own. `owed` becomes true when what clients see
changes and false with a `Changed` event; `ghost` records that a connection was recorded after it
had gone. **Recovery** is the other half of the same tick: `dial_backoff`, `force_recover`,
`doc_sync_set`, paces and network-change hints, with time in units of `DIAL_TIMEOUT`.

**Relays** has the settings, the relay map and the actors behind it. Each edit has an applier,
which waits its turn, checks that its generation is the last, pushes to the map with a timeout and
retries, or rebinds the endpoint under `rebuild_lock`. The health check replaces the node too.
`unremoved` and `undelivered` record what an applier that gave up was to do.

**Storage** takes each operation of the engine as a list of primitive writes and deletes
(`SaveConfig`, `Store`, `Teardown`, ...) performed one by one, with failures, crashes, torn files and a
keystore that locks. `Loaded` is what `load_config` would answer.

**Tunnel** follows the TUN device from the latch to the pump. On a desktop the pass opens it;
on Android an event asks the app, which may need the user's consent, establishes the service's
tunnel and hands the descriptor in. `pumps` are the devices that have a pump task. **OneWayBlock**
has flows, both switches and the file, with `table` as the age of each entry on the coarse
clock. **DataPlane** joins them where the code does: in the pass, the pump and `soft_disconnect`.

**Feed** has the engine's bus, the session that forwards it, the connection, the window's queue
and the handlers of the window, up to the cards of join requests. **StatusFeed** is the abstract
specification of the page, over five variables: it never goes back, becomes the latest while the
daemon is reachable and ticks, and goes blank when it is not. `PageFollows` is the refinement,
`INSTANCE StatusFeed WITH` a mapping that hides every buffer.

**Instances** has processes with a role and how far they have come, for the locks and channels of
macOS, Windows and Linux; shims that relaunch after an update are processes too. **Power** is the
daemon's callback for sleep and wake beside the user's own connects and edits of relay tokens, which
rebuild the node and activate the network. **Tray** is the agent:
snapshots and what is announced of them, the actions file and the menu. **Desktop** composes the
three where they meet: opening a window connects, quitting the agent disconnects, a process takes
its part of the tray along, a restarted daemon ends the sessions.

Operators with the comment "Mutant" are deliberately wrong variants of the definition below them. They
take part in no specification. `PROJECT.json` names the property each of them must break, and
TLC does break it when the variant is put in place.

## 3. The runs

| run | question | instance | result |
|---|---|---|---|
| `roster_fold` | can any log break single use, the blast radius, or the agreement of pre-check and fold? | 3 devices, 2 nonces, 2 times, symmetric | holds |
| `addresses` | are addresses distinct, and stable under joins? | 4 devices, 3 hosts, 3 times, records may be invalid | holds |
| `membership` | is every self-eviction earned, and do gates and fold agree, under drift and skew? | master and a joiner with a fast clock and the recovery key, 5 entries | holds |
| `engine` | do removals end the stay, ghosts close, members reconnect? | 1 network, 1 peer, recovery and relay changes | holds |
| `mesh` | do both ends settle on one connection, and is a superseded one harmless? | 2 devices, 2 connections at a time | holds |
| `relays` | do map, tokens and preference end at the last edit, and is each reported? | 3 relays, 5 settings, 2 edits, 2 attempts | holds |
| `storage` | can one mishap mix networks, bring one back or lose the identity? | 3 networks, 3 keys, 2 mishaps | holds |
| `presence` | is what is shown true and announced, and is a member back in time? | 2 connections, 3 heartbeat times; backoff up to 4 units | holds |
| `feed` | does the page implement StatusFeed, and is no request lost? | 1 device that asks twice, 2 changes, a bus of 2, a queue of 2 | holds |
| `dataplane` | does routing come up and go with the network, and does the block keep to the flows? | a phone, two desktops with a flow each, one with two clients | holds |
| `desktop` | one window and agent; off while asleep; returns announced; menu up to date? | 9 scopes, see below | holds |
| `dataplane_pump` | does detaching the TUN stop its pump? | the phone of `dataplane` | **violated** |

### Bounds, and why they are enough

- **Devices, nonces, times (`roster_fold`).** Two nonces distinguish reuse from replacement, three
  devices give a chain of promotion, two times give "same moment" and "later". The length of the
  log is *not* bounded. The proofs remove all these bounds.
- **Hosts.** `FirstHost = 2, LastHost = 4` is a subnet of three: with four devices it fills and
  overflows. Host 1 is one outside the subnet that an admitter may still record. The
  properties say what they say only while members fit.
- **`MaxEntries`** bounds `log`. Three entries found the network, so 5 leaves two: an Add and a
  Remove of it, or an Add and a change of invite. Everything that happens without publishing
  (arrival, ticks, restarts, cancellations, key import) is unbounded. Five is the most that lets
  all interleavings of these finish; longer logs are left to `RosterFold`.
- **`Roaming`** says which devices go offline, leave and restart: the joiner. With the master among
  them the run does not finish in time; the theorems hold for any set of devices.
- **`Skew`.** One clock is ahead by more than one entry, the least that reorders entries. Odd
  steps keep stamps distinct; entries of one moment are RosterFold's.
- **`MaxBusy`** bounds how many user and recovery operations overlap; it is 1. Ticks, dials,
  handshakes, crashes, leaving and going offline are never counted and interleave with everything.
- **`StrikeLimit`** is 2 in the code and 1 in `engine`, where the count changes only how soon a
  rebuild may come, and a smaller limit allows more.
- **One network and one peer in `engine`.** Its properties quantify over networks and peers one by
  one, and peers interact only through the health check. Tearing down one network while another
  is joined is not covered by that run.
- **Two connections at a time in `mesh` and `presence`.** Two is what crossing dials, a re-dial
  beside a connection whose close is on its way, and the flap of ends that keep different ones
  need. An end can have one dial under way, so there could be three or more with closing ones; a
  search of `mesh` with three found nothing in its first 13 million states and is too long to
  finish here. A connection is used again when no end, task or entry refers to it.
- **`relays`.** Two edits are what one applier overtaking another needs, and a third would differ
  only in its plan. The five settings differ in a relay, a token and the policy, one at a time and
  together. Two attempts stand for all of `ATTEMPTS`: one that fails and one that may not.
- **`storage`.** Three networks: one left, one entered, one rotated to. Two mishaps, since each
  property speaks of at most one, and the second must be free to happen without making it true.
- **`presence`.** Its two parts, Presence and Recovery, are checked in one run where a behaviour
  moves one of them (`scope`); they share no variable. Heartbeats bear one of three times, which gives
  newer, older and a jump over `LAST_SEEN_JUMP_MS`. In Recovery time is counted in dial timeouts:
  the longest backoff takes two failures to reach, the bounds in `BackInTime` are sums of these
  constants, and the slower pace is twice the faster one.
- **`feed`.** A bus of two overflows with three events; two changes are what "never back" needs,
  two requests of one device what a replaced one needs. Requests of different devices do not meet.
- **`dataplane`.** `Scope` pairs platforms with flows and clients: table entries do not meet, and
  what becomes of a packet does not depend on how its device came. A time to live of two with one
  late pass puts each boundary at a different age. `MaxFaults` is two on the phone, one elsewhere.
- **`desktop`.** Each scope names a system, how many processes there may be, and the parts that
  move: three processes by themselves on each system (one with updates, where a second system needs two);
  a process that comes and goes with sleep, or with the menu; and each part by itself, with all
  the daemon may do to it. The parts meet only in the actions of Desktop, which those pairs
  exercise. Two devices bear one name, so that each may silence the other. One crash or failure,
  one mishap around sleep, two edits of the actions; one edit of relay tokens at a time, since the
  appliers of several exclude one another by a lock, and what becomes of them is Relays' subject.
- Deadlock is checked in every run but `membership`, where the devices may all leave or publish
  all they can, and nothing is left to do.

### What the passing runs show

- `SingleUseAdmitsOnce`, `BlastRadius`, `PowerStartsWithOriginator`: no sequence of entries by anybody,
  Controllers promoted and demoted included, yields a second use of a single-use nonce or a
  Controller the originator did not provide for.
- `CheckInviteAgreesWithFold`: on an unfrozen roster, what the join path calls a good invite is exactly
  what the fold accepts from a current Controller.
- `AddressesDistinct`, `LaterJoinDisplacesNobody`: collisions and invalid records are resolved
  within the subnet, earlier members stay put, and a joiner approved from a current roster gets
  the address it was told.
- `EvictionIsEarned`: on no path of leaving, rejoining, restarting and cancelling, with entries in any
  order, does a device throw itself out that has not seen itself in the roster since its network
  last came up, and has not been dismissed since: by a Remove of it, or by an entry that came in later
  and sorts before what it had seen. The exception is `overtaken`: a tick that went on while the network
  went down has set the latch, which the next membership inherits (item 5 below).
- `GatesAgreeWithFold`: an operation the engine lets through, on a view that is all the earlier
  entries, is not thrown away by the fold. The exceptions are named in `Excepted`, and each is an
  operation of the engine that publishes for nothing: the approval by a recovered originator (item 4), an
  invite replaced while its request waited, which the code accepts in a comment, a Controller removing
  another or a change of role of no member, which need the originator, and a new name
  from anybody who is not a Controller, which no gate stops (item 17).
- `RemovedDeviceLeaves`, `GhostsClosed`, `MembersReconnect`: liveness of the tick and the dials
  against everything else in the module.
- `EndsAgree`: two ends with nothing under way hold the same connection. `LiveEntryIsKept`: an open entry
  goes only by the tie-break, by going offline or by a crash. `EntriesAreWatched`: only `DIAL_TIMEOUT`
  leaves an entry without a watcher.
- `MeshConverges`: once refusals, losses, timeouts and restarts stop, both ends hold one open connection
  for good. Two things are excluded: a tick that dials although a connection was
  entered since it looked (again and again, that replaces each connection by another), and
  the unwatched entries described below.
- `NothingIsMissing`, `OldIsLeftBySkips`, `PendingEnds`: a superseded applier never costs the last
  edit anything; what it leaves is a relay it was to remove, or a token it was to replace, and
  "pending" ends.
- `NoSingleMishapMixes`, `LeavingNeedsNoLuck`: file and secrets name their network twice over, so
  one failure or crash is not enough. `IdentityIsKept`: a device key is made anew only when the
  marker itself could not be written.
- `ShownIsTrue`, `DotComesOn`: although the watcher of an earlier connection may record "offline" after its
  successor was recorded "online", the tick corrects it, and each change is announced.
- `BackInTime`: a bound on how long a reachable member waits, whatever failures, hints and demands
  came before; and on how long a connected one goes without being seeded.
- `HeardIsListed`: a request the window was told of stays listed and on a card, with the code of that
  very request, until it is decided. The exception is `masked`: a request that arrives while an
  earlier one of its device is on the list or on a card keeps the device listed, but with the code of
  the earlier one (item 19). `PageFollows`: coalescing, lag, lost connections and restarts of either
  side are invisible in the end.
- `LatchIsBacked`, `RoutingComesUp`, `TunnelGoesWithNetwork`: no refusal, failure or revocation
  leaves the latch up with nothing to follow, and going offline stops all pumps. `mishap` names
  what is excepted: a request lost on the way to the app, and a device that arrives late.
- `AnswersComeIn`: the coarse clock errs by one late pass and no more. `PrefsAreStored`: the file
  has both switches when nobody is setting one, except after overlapping calls.
- `OneOfEach`, `WaitingIsAnswered`, `AgentCatchesUp`, `OffStaysOff`, `RejoinsOnWake`,
  `ReturnsAreAnnounced`, `MenuFollows`: as their comments say. Their exceptions are history
  variables (`unguarded`, `spoiled`, `owed`, `missed`) whose settings are commented where they are made.
  `OffStaysOff` has two more: a node that is being rebuilt as the machine goes to sleep counts as
  something that was joining (`spoiled`), and an edit of the relay tokens ends the user's disconnect
  (`off`, item 20).

The runs check a TypeOK only in `roster_fold` and `mesh`. Type correctness is a theorem of these and
of every other module but three (section 4); Recovery's is the type part of its inductive invariant,
and EngineLifecycle's and Desktop's document the ranges of their variables.

### Fairness

`Spec` alone states none. In EngineLifecycle:

- `WF(Tick)`: the maintenance loop is a spawned task that never ends; it wakes by interval or by
  notification, and its awaits end.
- `WF(DialFails(p))`: `DIAL_TIMEOUT` bounds every dial and `DialSlot` frees the slot on drop.
- `SF(DialSucceeds(p))`: a reachable peer is reached eventually when it is dialed over and over. Strong,
  because a node being replaced disables dials now and then. This is an assumption about the
  network, not about the code.
- `WF(HealthyCheck \/ Burst)`: health checks come from a repeating alarm. Rebuilds, users, peers
  and the document get no fairness at all.
- `MembersReconnect` also assumes that crashes stop at some point: a process that dies before each
  dial ends connects nobody.

Elsewhere:

- **Mesh**: `WF(TickRead \/ TickDial)` at each end: the maintenance loop, as above, of a device that is
  online. `WF(Progress(e, c))`: spawned tasks are polled, a handshake ends (`Refuse`, the other way it
  may end, is counted as a disturbance), and a close is noticed at the other end, by the idle timeout
  of the connection if its frame is lost. Nothing fair requires a disturbance.
- **Presence**: the tick, going offline and each connection's task. Recovery needs none: its
  property is a bound, and time cannot pass a deadline.
- **Relays**: appliers are spawned tasks whose every wait has a timeout; `SF(RebuildClose(g))`
  because tokio hands a contended mutex on in order.
- **Feed**: the beat of a connected daemon, its session, the client's and the window's loop. That
  the quiet window of the session ends is an assumption: beats are half a minute apart.
- **DataPlane**: passes, the app's threads, and pumps whose device has died. `Consent` is the
  user's, and gets none; nor does anything that fails.
- **Desktop**: every process that can go on does, and so do the daemon's and the agent's tasks.
  Users, crashes, sleep and wake get none.

### What the repository says and the code does not do

`dataplane_pump` shows one: `detach_tun` promises to "drop the TUN [...] and stop the pump". It
empties `Inner::tun` only; the pump holds the device by a reference of its own and ends when a read
fails or when the device goes offline (`TunnelGoesWithNetwork`). In the trace a phone asks for a tunnel,
goes offline and online, and asks again; the device of the first request is attached; the second cannot be
established, so the app detaches (`NullgateVpnService.kt`, `establishTun`). The phone is online with no device
in `Inner::tun`, and the first pump reads the interface the system still routes to. `attach_tun_fd`
leaves the earlier pump in the same way, though it says it "replaces any existing device and pump";
there the system takes the earlier interface down, and the pump ends by itself (`PumpEnds`).

The models contain the following as well. Each is a behaviour of the modules listed here, by the
actions named, and the exceptions of the properties above are what keeps them apart:

1. The comment on `assign_ips` and `docs/architecture.md` say a removal never shifts another
   member. A member that probed past a collision moves back when the other goes (Addresses, `Leave`).
2. The tick takes dropping out of the roster for removal. An entry that arrives late and sorts early
   invalidates a past Add, and the device tears down its network without any Remove (Membership,
   `SelfEvict`).
3. A device removed before a tick has folded it in, or after a restart cleared the latch, never drops off
   (Membership, `Restart`).
4. `admit_member` lets the holder of the master key approve but signs with the device key, so a Peer that
   imported the key publishes an Add the fold refuses (Membership, `Approve`, `Excepted`).
5. A tick in progress when the network goes down stores its roster, opens the interface and latches
   afterwards; a dial or handshake in progress registers a connection (EngineLifecycle, `TickStore`,
   `Register`; Membership, `TickLatch`, `overtaken`; Tunnel, `OpenTun`). A device that has just joined
   again may so be thrown out before its own admission has reached it.
6. A failed `rebuild_node` leaves no document, which later health checks take for being offline
   on purpose (EngineLifecycle, `RebuildFails`, `HealthyCheck`).
7. `DIAL_TIMEOUT` also covers `register_mesh`, which enters the connection, awaits the state mutex
   and then spawns the watcher. A dial dropped at that await leaves an entry nobody removes; with
   one at each end the two never connect again (Mesh, `DialTimeout`).
8. A dial in flight when a network-change hint comes fails later and records its backoff all the
   same, up to five minutes; and a comment says a connected peer has no backoff entry, which a dial
   that fails after an incoming connection refutes (Recovery, `DialFails`).
9. `force_recover` is consumed before `build_roster`: when that fails, the reseed waits for the next
   interval (Recovery, `PassFails`).
10. A connection that closes between the tick's collecting and its recording is shown online until
    the next pass (Presence, `TickRecords`, `ghost`).
11. An applier that gives up leaves a relay in the map that "only" was to exclude, or an actor
    with an old token (Relays, `GiveUp`, `unremoved`, `undelivered`).
12. Two mishaps, such as a crash between two writes and another in the repair, leave the name of one network
    with the secret of another; a marker that could not be written makes a new device identity
    when the keystore is away (Storage, `mishaps`, `unmarked`).
13. Overlapping toggles of the two switches, or a failed write, leave a file without the block, which
    a restart reads (OneWayBlock, `unsaved`).
14. An `on_wake` spawned for an earlier wake consumes the flag of a sleep that has just begun, and
    the machine stays off the network when it wakes (Power, `OnWake`, `owed`); a join under way when sleep begins
    completes in the dark (`Joined`, `spoiled`).
15. An edit of the actions between the agent's load and its first look at the file's time, or a read of a
    torn file, is missed until the next edit (Tray, `AgentArms`, `missed`).
16. Two devices of one name share the notification throttle, so one silences the other (Tray,
    `Shown`).
17. The doc of `set_network_name` (`core/engine.rs:1607`) says "any current member may set it". Nothing
    gates it, and the fold takes a `SetName` from the originator's key or a Controller only
    (`core/roster.rs:336`): what a Peer publishes, or a holder of the imported master key, which it
    does not sign with, is thrown away without a word (Membership, `SetNetworkName`, `Excepted`).
18. The doc of `remove_member` (`core/engine.rs:985`) says that a Peer's attempt "is signed but rejected
    by the fold". `admin_signer` refuses it before anything is signed (Membership, `CanAdmin`).
19. A second request of one device is ignored by a window that lists the first (`gui/main.rs:1621`), and
    its card is not drawn anew, since `admin_signature` knows devices and not codes. The card keeps the code of
    the replaced request, while the joiner shows that of the new one; `core/admission.rs:9` says of
    the code that it is "identical on both ends" (Feed, `Added`, `Meets`, `masked`).
20. `rebuild_node` activates the configuration it finds, which `soft_disconnect` keeps, and
    `set_relay_settings` calls it for a new token whether the device is online or not. So an edit of
    a token connects a device whose user had disconnected it; `power.rs:52` and `docs/architecture.md:265`
    say such a device is left alone, which holds of sleep and wake only (Power, `EditTokens`, `RebuildEnds`).

Three simplifications bear on the properties. In Relays, `SetRelaySettings` is one step, although two
clients' calls could interleave between storing the settings, the state "pending" and the generation; and
`crossed` leaves out edits that land while a bind is reading the settings. In Power the device has a network
throughout, so that each rebuild has one to activate. And a read of the document
fails in EngineLifecycle only when the node is closed under it; Recovery has failing passes.

## 4. The proofs

Eight modules hold the theorems. Each holds for every value of the constants that meets the named
assumptions of its modules, where a run of section 3 shows the property on one instance. A theorem whose
name is in *italics* states no property of a run.

| module | theorem | statement |
|---|---|---|
| RosterFoldProofs | *TypeCorrect* | `Spec => []TypeOK` (RosterFold) |
| | SingleUse | `Spec => []SingleUseAdmitsOnce` |
| | BlastRadiusBounded | `Spec => []BlastRadius` |
| | OriginatorIsTheRoot | `Spec => []PowerStartsWithOriginator` |
| | PrecheckIsExact | `Spec => []CheckInviteAgreesWithFold` |
| | *AddressTypeCorrect* | `AddressSpec => []AddressTypeOK` |
| | AddressesAreDistinct | `AddressSpec => []AddressesDistinct` |
| | LaterJoinsDisplaceNobody | `AddressSpec => LaterJoinDisplacesNobody` |
| | *BuildPlacesApart* | any finite set of entries builds a roster without address collisions |
| | *MembershipTypeCorrect* | `MembershipSpec => []MembershipTypeOK` |
| | EvictionIsAlwaysEarned | `MembershipSpec => []EvictionIsEarned` |
| | GatesAndFoldAgree | `MembershipSpec => GatesAgreeWithFold` |
| MeshProofs | *TypeCorrect* | `Spec => []TypeOK`, one dial at a time included |
| | WatchersLast | `Spec => EntriesAreWatched` |
| | LiveEntriesStay | `Spec => LiveEntryIsKept` |
| | EndsHoldTheSame | `Spec => []EndsAgree` |
| DataPlaneProofs | *TypeCorrect* | `Spec => []TypeOK` |
| | TunnelIsGone | `Spec => []TunnelGoesWithNetwork` |
| | LatchIsNeverForNothing | `Spec => []LatchIsBacked` |
| | BlockIsOneWay | `Spec => []AnswersComeIn` |
| | SwitchesAreStored | `Spec => []PrefsAreStored` |
| DesktopProofs | RolesAreSingle | `Spec => []OneOfEach` |
| | SleepIsOffline | `Spec => []OffStaysOff` |
| | ReturnsAreTold | `Spec => ReturnsAreAnnounced` |
| RelaysProofs | *TypeCorrect* | `Spec => []TypeOK` |
| | NothingGoesMissing | `Spec => []NothingIsMissing` |
| | OnlySkipsLeave | `Spec => []OldIsLeftBySkips` |
| PresenceProofs | *TypeCorrect* | `Spec => []TypeOK` (Presence) |
| | DotIsTrue | `Spec => []ShownIsTrue` |
| | BackBeforeLong | `RecoverySpec => []BackInTime` |
| StorageProofs | *TypeCorrect* | `Spec => []TypeOK` |
| | IdentityIsAlwaysKept | `Spec => IdentityIsKept` |
| | LeavingLasts | `Spec => []LeavingNeedsNoLuck` |
| | NetworksNeverMix | `Spec => []NoSingleMishapMixes` |
| FeedProofs | *TypeCorrect* | `Spec => []TypeOK` |
| | RequestsAreListed | `Spec => []HeardIsListed` |
| | *PageStepsAreStatusFeeds* | Feed implements the safety part of StatusFeed |

So every safety property a run checks, invariant or action property, is a theorem too, and the safety
half of the refinement.

### The roster

*RosterFold.* The properties are not inductive by themselves. `IInv` conjoins them with three facts:
`SpentIsConsumed` (what the history says was spent is in `consumed`, so the gate refuses it; this is what
carries single use over an invite published again), `ControllerInviteIsIssued` (the current
Controller invite is one the originator published, and is single-use, which makes an admission to
Controller traceable) and `AdmittedBeforeNow` (nobody was admitted later than the entry being folded,
which makes the clause "not signed before the signer's own admission" of the Add rule true of every
current Controller: why the pre-check, which has no such clause, is exact). The Add is the only hard
case. Assumed: the originator's key is no device key, `NoInvite` is no nonce, `NoLabel` no label, hosts and
times are natural numbers.

*RosterBuild.* `Placement` and `Fold` are recursive functions on the subsets of a finite set: the value
for a set comes from that for all but its last element. Induction over them is done by the smallest
counterexample (`SmallestSet`, from the well-foundedness of strict inclusion), and that such a
function exists by the smallest number of elements on which none does (`SetRecursion`). Then:

- `ProbeEnds`: a probe ends at a host, at a free one if there is one, at the recorded one if that
  is free; and an address it does not end at may as well have been taken. The arithmetic of wrapping round
  is in `TriesGoRound`.
- `AllWellPlaced`: in any set of devices each has a host, and its own while there is room.
- `LastComerDisplacesNobody`, and `PromiseIsKept`: a device that records an address none of the others
  ends at gets it and moves nobody, *whenever* it was admitted. The last clause of `ProbeEnds` is
  what the second needs.
- `FoldType`: the fold of any entries is a roster in which whoever is a member was admitted at the time of
  one of them.

*Addresses.* `AddressInv` adds to the types that nobody was admitted after the last entry
(`AdmittedByNow`), by which a newcomer with a later stamp is the last in admission order. Assumed: keys are
ordered by an injection to the naturals, devices are finitely many, hosts are `FirstHost .. LastHost` with
`0 < FirstHost <= LastHost`, and an Add can record each of them.

*Membership.* `MembershipTypeOK` holds the published entries, the replicas' share of them and the
folded views together. `SightingInv` is what makes `EvictionIsEarned` inductive: what a device last saw
itself in is part of its replica and a roster that has it; a latched device has such a sighting, or was
latched by a tick the network went down under; and what a tick has folded since contains it. When the
fold then lacks the device some entry undid what was seen, and an entry that sorts after all of that and
removes nobody cannot. The initial case is the fold of the founding entries, which for any list
of deputies is an induction over them (`FoundingStep`: the master is still the
Controller it was made first, and no invite but the deputies' is spent). `GatesAgreeWithFold` needs
besides that the publisher is the one device that has a new entry, and that a device whose view is the fold
of all earlier entries was admitted before it signs (`AdmittedBeforeSigning`, from `FoldType`).
Assumed: the master is none of its deputies, devices whose clocks could stamp alike have the same clock,
`MaxEntries` leaves room for the founding entries, and stamps are times and nonces.

### The other components

*Mesh*, for any two devices and any connections. `EnteredByItsTask`: a connection in its handshake, or
still to be reconciled, is not the entry; so a handshake that fails or a duplicate that is dropped leaves
no entry behind, and a dial, which takes a connection nobody refers to, never takes one away.
`OpenIsHeld`, for `EndsAgree`: what is open at an end is its entry, or still with a task that makes it
one or closes it. Settled ends have no such tasks, so a connection open at both is the entry of both.
Assumed: the devices differ, and `NoConn` is no connection.

*DataPlane*, for any address, peers, ages and set of scopes. `TunnelGoesWithNetwork` and `AnswersComeIn`
are nearly what they need; `LatchHolds` adds that the device that carries packets is the one the
system routes to, so that a pump that ends for a device that is gone is not the one behind the latch.
`AgesAgree` bounds how far the coarse clock's age of a flow and its real silence are apart by one late pass.
`FileFollows`: without an overlap or a failed write one client at most is setting a switch, what it is
about to write is what the switches are, and the file is right when nobody is.

*Desktop*, for any number of processes, mishaps and members. `Guarded`: who is past its claim holds the lock
of its role, and one process does. `PowerInv`: the flag a sleep leaves is taken by the task of the next
full wake; nothing that could join, a rebuild included, is left when the machine goes down in good
order; and after the user's own disconnect nothing is under way that undoes it. `StampsAreHonest`: the agent's stamp of a peer is
no older than its silence and no younger than what the agent knows.

*Relays*, for any relays, tokens and number of edits. One applier holds the lock, and while one of an
older edit does, that of the last edit waits (`Orderly`). What is in the map and should not be, or is
not and should be, is in the plan of an applier that will still act, or in the record of one that gave
up (`MapFollows`, `ExtrasGo`, `TokensCome`); `OldPushes` is what an older edit's push can undo of
that, and who will put it right.

*Presence*, for any connections. `DotHasCause`: a member shown online has an entry, a ghost, or a task that
is still to say it has gone; `TickOwes`: a change clients have not been told of is that of a tick under
way. *Recovery*, for any dial timeout, backoff cap, paces and number of failing passes: `UpInTime`,
`HintInTime` and `SeedInTime` give each stage of a dial, a wait or a pass the time that may have gone by
when it is reached, a failed pass costing one more of the slowest pace. Time is counted in the
model's own units, so `BackInTime` is an invariant, with no fairness.

*Storage*, for any number of networks, keys and mishaps (the properties speak of at most one mishap where they
say so). The invariants speak of the disk together with the writes still to be made (`Todo`), which
come in one order (`Orderly`, `JobInv`). `Keyed`: how far the storing of the device key has come,
and that a reader finds it. `Leaving`: a secret is stored after its config and goes before it.
`One`: after one mishap at most there is one network that all of disk, memory and the writes to come
are of; `Whole`: until then a network is stored as a whole or not at all.

*Feed*, for any devices, codes, queue lengths and versions. `Reaches`: a request the window was told of
is on the bus (`Carried`), in the window's queue with nothing behind it that disturbs it (`Arrives`), or on
the list and the card with its own code, unless it is `masked` (`Shows`; `StillShows` carries this over the
handlers). `Drawn`: the cards are those of the list, or a repaint is queued. `InOrder`: what is queued is
no older than what was shown, which is what makes every step of Feed one StatusFeed may take.

**Assumptions on values.** Where a model value stands beside records, numbers or sets (no dial, no config,
no request, a builder that is none of the edits), an assumption says that they differ, as the variants of the
code's enums do: `ValueAssumption` in Storage and Feed, `RecoveryAssumptions`, `TunnelBounds`,
`BlockBounds`, `TrayAssumptions`, `TokenAssumption`. `ScopeAssumption` in DataPlane and Desktop
says what a scope is. The rest says that bounds are natural numbers, and positive where zero would
mean nothing. TLC evaluates all of them on every run.

**Model-checked only.** Liveness and `ENABLED` are out of the prover's reach: `RemovedDeviceLeaves`,
`GhostsClosed` and `MembersReconnect` (all that `engine` checks, so that EngineLifecycle has no proofs), `MeshConverges`,
`PendingEnds`, `DotComesOn`, `RoutingComesUp`, `WaitingIsAnswered`, `AgentCatchesUp`, `RejoinsOnWake`,
`MenuFollows`, and the half of `PageFollows` that says the page comes to show the latest status. So are,
by their nature, the properties the code violates (section 3).

## 5. What is not modelled

- Cryptography and encodings (signatures, PSK tag, SAS, tickets, recovery code): taken to work.
- Packet parsing, MSS clamping and checksums: byte-level functions with unit tests. iroh's choice among
  paths, its sockets and its document sync are external.
- Geo lookup, the CLI (one request per call), logging, the service wrapper, installers: platform
  I/O without order to get wrong. A watchdog exit is `Crash` in EngineLifecycle, `DaemonStops` in Feed
  and `Restarted` in Desktop.
- Layout, dialogs and wording of the GUI and the Android screens.
- IPC requests other than those that decide joins and set switches: each is a call into an engine operation
  that is modelled.
- The state machine of a rotation across devices, and the awaits inside `activate`.

## 6. Plan

In this order:

1. **EngineLifecycle**: a property that what the user asked for last is what the engine does
   (networks brought back by a rebuild, by going online or by a key import), against a small
   abstract specification of the user's intent, and its type correctness as a theorem.
2. **Mesh**: an abstract link that is up or down, refined by the two ends, its safety half proved as
   Feed's is.
3. **RosterBuild** as a refinement: that `Build` of the entries so far is a state of RosterFold, so that the role
   rules are theorems about what every device of Membership folds.
4. **Membership**: rotation, deletion; a deputy in the passing run.
5. **Feed**: a second client.
