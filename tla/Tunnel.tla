-------------------------------- MODULE Tunnel --------------------------------
(***************************************************************************)
(* The TUN device and the pump that reads it (engine.rs: enable_tun,        *)
(* spawn_tun_pump, attach_tun_fd, detach_tun and what soft_disconnect does  *)
(* to them; tun_device.rs), on a desktop, where the engine opens the device *)
(* itself, and on a phone, where it asks the app for one over the event     *)
(* channel and the app's VpnService answers with a file descriptor          *)
(* (ipn-mobile/src/lib.rs; EngineHolder.kt; NullgateVpnService.kt).         *)
(*                                                                         *)
(* A device stays open while Inner::tun, a pump or a descriptor on its way  *)
(* to the engine holds it.  A maintenance pass, the event bridge, the app's *)
(* main thread and each of its coroutines move on their own.  The actions   *)
(* here leave the one-way block alone: DataPlane puts the two together.     *)
(***************************************************************************)
EXTENDS Naturals, Sequences

CONSTANTS
    Addr,       \* virtual addresses the roster may give this device
    None,
    Other,      \* an event that is not a request for a tunnel
    MaxDevices, \* bound: devices open at a time
    MaxBus,     \* events the channel keeps for a receiver that is behind
    MaxAsked,   \* bound: requests for a tunnel the main thread has not come to
    MaxFaults   \* bound, by platform: failures of the system below, restarts, revocations

ASSUME TunnelBounds ==
    /\ None \notin Addr /\ None \notin Nat /\ Other \notin Addr \union {None}
    /\ {MaxDevices, MaxBus, MaxAsked} \subseteq Nat \ {0} /\ MaxFaults \in [{"android", "desktop"} -> Nat]

Device == 1..MaxDevices

VARIABLES
    platform,   \* "desktop" or "android"
    \* Inner
    live,       \* the network is active: State::doc is there
    address,    \* the roster's address for this device, if it is in the roster
    attempted,  \* tun_attempted
    assigned,   \* assigned_ip
    tun,        \* tun: the device inbound packets are written to
    pumps,      \* devices a pump task reads
    pass,       \* the maintenance pass: "idle", "building" or "opening"
    \* The app
    bridged,    \* event_bridge receives
    bus,        \* events it has not received yet
    pending,    \* EngineHolder.pendingTun
    prompt,     \* needsVpnConsent: the app offers the consent dialog
    consent,    \* VpnService.prepare has nothing to ask
    revoked,    \* EngineHolder.revokedByOtherVpn
    wanted,     \* EngineHolder.userWantsOnline
    asked,      \* ACTION_ESTABLISH intents
    calls,      \* engine calls launched and not made
    interface,  \* the device the system routes to
    \* History
    mishap,     \* since the latch was last down, a request was lost, a device came
                \* late, or the system below failed for good
    faults

engineVars == <<live, address, attempted, assigned, tun, pumps, pass>>
appVars == <<bridged, bus, pending, prompt, consent, revoked, wanted, asked, calls, interface>>
tunnelVars == <<platform, engineVars, appVars, mishap, faults>>

Android == platform = "android"
Call == {[op |-> "attach", dev |-> d] : d \in Device} \union
        {[op |-> op, dev |-> None] : op \in {"detach", "offline"}}
Attaching == {d \in Device : [op |-> "attach", dev |-> d] \in calls}
Open == pumps \union Attaching \union ({tun} \intersect Device)
Free == Device \ Open
Fault == faults < MaxFaults[platform] /\ faults' = faults + 1

InitTunnel ==
    /\ live = TRUE /\ address \in Addr \union {None}
    /\ attempted = FALSE /\ assigned = None /\ tun = None /\ pumps = {} /\ pass = "idle"
    /\ bridged = FALSE /\ bus = <<>> /\ pending = None /\ prompt = FALSE
    /\ consent \in (IF Android THEN BOOLEAN ELSE {FALSE})
    /\ revoked = FALSE /\ wanted = TRUE /\ asked = <<>> /\ calls = {} /\ interface = None
    /\ mishap = FALSE /\ faults = 0
-----------------------------------------------------------------------------
(***************************************************************************)
(* Events: a channel that forgets the oldest for a receiver that is behind. *)
(***************************************************************************)
Sent(e) ==
    IF ~bridged THEN <<>>
    ELSE IF Len(bus) < MaxBus THEN Append(bus, e) ELSE Append(Tail(bus), e)

\* The request of the latch that is up now goes when e is sent.
Forgets(e) ==
    \/ e # Other /\ ~bridged
    \/ attempted /\ bridged /\ Len(bus) = MaxBus /\ Head(bus) # Other

\* Any of the engine's other events: MobileEngine::init's bridge reports it, or the gap it
\* leaves, as on_changed.
Announce ==
    /\ Android
    /\ bus' = Sent(Other)
    /\ mishap' = (mishap \/ Forgets(Other))
    /\ UNCHANGED <<platform, engineVars, bridged, pending, prompt, consent, revoked, wanted, asked,
                   calls, interface, faults>>

\* init subscribes once Engine::start, with its first pass under way, has returned.
Subscribe ==
    /\ Android /\ ~bridged
    /\ bridged' = TRUE
    /\ UNCHANGED <<platform, engineVars, bus, pending, prompt, consent, revoked, wanted, asked, calls,
                   interface, mishap, faults>>
-----------------------------------------------------------------------------
(***************************************************************************)
(* The network comes and goes.                                             *)
(***************************************************************************)
\* Mutant: the pumps are left to run.
SoftDisconnectPumping ==
    /\ live' = FALSE
    /\ tun' = None /\ attempted' = FALSE /\ assigned' = None
    /\ bus' = IF Android THEN Sent(Other) ELSE bus
    /\ mishap' = FALSE
    /\ UNCHANGED pumps

\* soft_disconnect; the event is TunTeardownRequired, for which the app does nothing.
SoftDisconnect ==
    /\ live' = FALSE
    /\ pumps' = {}
    /\ tun' = None /\ attempted' = FALSE /\ assigned' = None
    /\ bus' = IF Android THEN Sent(Other) ELSE bus
    /\ mishap' = FALSE

\* set_online(false), leave_network, and the eviction a pass finds.
GoOffline ==
    /\ SoftDisconnect
    /\ wanted' = FALSE
    /\ UNCHANGED <<platform, address, pass, bridged, pending, prompt, consent, revoked, asked, calls,
                   interface, faults>>

\* set_online(true), up to the end of activate.
GoOnline ==
    /\ ~live /\ live' = TRUE
    /\ wanted' = TRUE
    /\ UNCHANGED <<platform, address, attempted, assigned, tun, pumps, pass, bridged, bus, pending, prompt,
                   consent, revoked, asked, calls, interface, mishap, faults>>

\* The fold gives this device another address, its first or none.
RosterMoves ==
    /\ address' \in (Addr \union {None}) \ {address}
    /\ UNCHANGED <<platform, live, attempted, assigned, tun, pumps, pass, appVars, mishap, faults>>

\* The process ends, in whatever state, and another is started.
RestartTunnel ==
    /\ live' = TRUE
    /\ attempted' = FALSE /\ assigned' = None /\ tun' = None /\ pumps' = {} /\ pass' = "idle"
    /\ bridged' = FALSE /\ bus' = <<>> /\ pending' = None /\ prompt' = FALSE /\ asked' = <<>> /\ calls' = {}
    /\ revoked' = FALSE /\ wanted' = TRUE /\ interface' = None
    /\ mishap' = FALSE
    /\ UNCHANGED <<platform, address, consent>>
-----------------------------------------------------------------------------
(***************************************************************************)
(* The maintenance pass.                                                   *)
(***************************************************************************)
\* tick reads the document, and waits for the roster it builds from it.
PassBegins ==
    /\ pass = "idle" /\ live
    /\ pass' = "building"
    /\ UNCHANGED <<platform, live, address, attempted, assigned, tun, pumps, appVars, mishap, faults>>

PassFails ==
    /\ pass = "building" /\ Fault
    /\ pass' = "idle"
    /\ UNCHANGED <<platform, live, address, attempted, assigned, tun, pumps, appVars, mishap>>

\* enable_tun up to the open.  On a phone the rest is up to the app.
EnableTun ==
    /\ pass = "building"
    /\ IF address = None \/ attempted
       THEN /\ pass' = "idle"
            /\ UNCHANGED <<attempted, assigned, bus, mishap>>
       ELSE /\ attempted' = TRUE /\ assigned' = address
            /\ pass' = IF Android THEN "idle" ELSE "opening"
            /\ bus' = IF Android THEN Sent(address) ELSE bus
            /\ mishap' = (mishap \/ (Android /\ Forgets(address)))
    /\ UNCHANGED <<platform, live, address, tun, pumps, bridged, pending, prompt, consent, revoked, wanted,
                   asked, calls, interface, faults>>

\* RealTun::open and the pump, also for a network that has gone offline under the pass.
OpenTun ==
    /\ pass = "opening" /\ Free # {}
    /\ pass' = "idle"
    /\ tun' = CHOOSE d \in Free : TRUE
    /\ pumps' = pumps \union {tun'}
    /\ interface' = tun'
    /\ mishap' = (mishap \/ ~attempted \/ ~live)
    /\ UNCHANGED <<platform, live, address, attempted, assigned, bridged, bus, pending, prompt, consent,
                   revoked, wanted, asked, calls, faults>>

\* No elevation, no driver: logged, and the latch stays up.
OpenTunFails ==
    /\ pass = "opening" /\ Fault
    /\ pass' = "idle"
    /\ mishap' = (mishap \/ attempted)
    /\ UNCHANGED <<platform, live, address, attempted, assigned, tun, pumps, appVars>>

\* A pump reads an error from a device that is gone, and ends; nothing else is told.
PumpEnds ==
    \E d \in pumps \ {interface} :
        /\ Android
        /\ pumps' = pumps \ {d}
        /\ UNCHANGED <<platform, live, address, attempted, assigned, tun, pass, appVars, mishap, faults>>

\* The device goes, and its pump with it.
DeviceDies ==
    /\ interface \in pumps /\ Fault
    /\ pumps' = pumps \ {interface}
    /\ interface' = None
    /\ mishap' = TRUE
    /\ UNCHANGED <<platform, live, address, attempted, assigned, tun, pass, bridged, bus, pending,
                   prompt, consent, revoked, wanted, asked, calls>>
-----------------------------------------------------------------------------
(***************************************************************************)
(* The app.                                                                *)
(***************************************************************************)
\* event_bridge to onTunSetup: established at once if the user has consented.
Deliver ==
    /\ bus # <<>> /\ Len(asked) < MaxAsked
    /\ bus' = Tail(bus)
    /\ IF Head(bus) = Other
       THEN UNCHANGED <<pending, prompt, asked>>
       ELSE /\ pending' = Head(bus) /\ prompt' = ~consent
            /\ asked' = IF consent THEN Append(asked, Head(bus)) ELSE asked
    /\ UNCHANGED <<platform, engineVars, bridged, consent, revoked, wanted, calls, interface,
                   mishap, faults>>

\* onVpnConsentGranted
Consent ==
    /\ prompt /\ Len(asked) < MaxAsked
    /\ consent' = TRUE /\ prompt' = FALSE
    /\ asked' = Append(asked, pending)
    /\ UNCHANGED <<platform, engineVars, bridged, bus, pending, revoked, wanted, calls, interface,
                   mishap, faults>>

\* Mutant: a tunnel that cannot be established is only logged.
EstablishFailsLogged ==
    /\ asked # <<>>
    /\ IF consent THEN Fault ELSE UNCHANGED faults
    /\ asked' = Tail(asked)
    /\ UNCHANGED <<platform, engineVars, bridged, bus, pending, prompt, consent, revoked, wanted, calls,
                   interface, mishap>>

\* establishTun: Builder.establish answers null, or throws.
EstablishFails ==
    /\ asked # <<>>
    /\ IF consent THEN Fault ELSE UNCHANGED faults
    /\ asked' = Tail(asked)
    /\ calls' = calls \union {[op |-> "detach", dev |-> None]}
    /\ UNCHANGED <<platform, engineVars, bridged, bus, pending, prompt, consent, revoked, wanted,
                   interface, mishap>>

\* The system takes down the interface it had for the new one.
Establish ==
    /\ asked # <<>> /\ consent /\ Free # {}
    /\ asked' = Tail(asked)
    /\ interface' = CHOOSE d \in Free : TRUE
    /\ calls' = calls \union {[op |-> "attach", dev |-> interface']}
    /\ UNCHANGED <<platform, engineVars, bridged, bus, pending, prompt, consent, revoked, wanted, mishap,
                   faults>>

\* attach_tun_fd, whatever has become of the network and of the interface meanwhile.
Attach ==
    \E d \in Attaching :
        /\ calls' = calls \ {[op |-> "attach", dev |-> d]}
        /\ attempted' = TRUE
        /\ tun' = d /\ pumps' = pumps \union {d}
        /\ mishap' = (mishap \/ ~live \/ d # interface)
        /\ bus' = Sent(Other)
        /\ UNCHANGED <<platform, live, address, assigned, pass, bridged, pending, prompt, consent, revoked,
                       wanted, asked, interface, faults>>

\* The descriptor is not one the runtime can use: the app shows the error.
AttachFails ==
    \E d \in Attaching :
        /\ Fault
        /\ calls' = calls \ {[op |-> "attach", dev |-> d]}
        /\ mishap' = (mishap \/ attempted)
        /\ UNCHANGED <<platform, engineVars, bridged, bus, pending, prompt, consent, revoked, wanted, asked,
                       interface>>

\* Mutant: the latch stays up.
DetachLatched ==
    /\ [op |-> "detach", dev |-> None] \in calls
    /\ calls' = calls \ {[op |-> "detach", dev |-> None]}
    /\ tun' = None
    /\ mishap' = (mishap /\ ~live)
    /\ bus' = Sent(Other)
    /\ UNCHANGED <<platform, live, address, attempted, assigned, pumps, pass, bridged, pending, prompt,
                   consent, revoked, wanted, asked, interface, faults>>

\* detach_tun; a pump keeps its own reference to the device.
Detach ==
    /\ [op |-> "detach", dev |-> None] \in calls
    /\ calls' = calls \ {[op |-> "detach", dev |-> None]}
    /\ tun' = None /\ attempted' = FALSE
    /\ mishap' = (mishap /\ ~live)
    /\ bus' = Sent(Other)
    /\ UNCHANGED <<platform, live, address, assigned, pumps, pass, bridged, pending, prompt, consent,
                   revoked, wanted, asked, interface, faults>>

\* onRevoke: another app's VPN takes over.
Revoke ==
    /\ Android /\ consent /\ Fault
    /\ consent' = FALSE /\ interface' = None /\ revoked' = TRUE
    /\ calls' = calls \union {[op |-> "offline", dev |-> None]}
    /\ UNCHANGED <<platform, engineVars, bridged, bus, pending, prompt, wanted, asked, mishap>>

\* The set_online(false) it launched; the user still wants to be online.
QuiesceRevoked ==
    /\ [op |-> "offline", dev |-> None] \in calls
    /\ SoftDisconnect
    /\ calls' = calls \ {[op |-> "offline", dev |-> None]}
    /\ UNCHANGED <<platform, address, pass, bridged, pending, prompt, consent, revoked, wanted, asked,
                   interface, faults>>

\* The other VPN is gone.
Released ==
    /\ revoked /\ ~consent
    /\ consent' = TRUE
    /\ UNCHANGED <<platform, engineVars, bridged, bus, pending, prompt, revoked, wanted, asked, calls,
                   interface, mishap, faults>>

\* onNetworkChanged
ResumeRevoked ==
    /\ revoked /\ wanted /\ consent
    /\ live' = TRUE /\ revoked' = FALSE
    /\ UNCHANGED <<platform, address, attempted, assigned, tun, pumps, pass, bridged, bus, pending, prompt,
                   consent, wanted, asked, calls, interface, mishap, faults>>
-----------------------------------------------------------------------------
EngineTypeOK ==
    /\ live \in BOOLEAN /\ attempted \in BOOLEAN
    /\ address \in Addr \union {None} /\ assigned \in Addr \union {None}
    /\ tun \in Device \union {None} /\ pumps \subseteq Device
    /\ pass \in {"idle", "building", "opening"}

BusTypeOK ==
    /\ bridged \in BOOLEAN
    /\ bus \in Seq(Addr \union {Other}) /\ Len(bus) <= MaxBus /\ (bridged \/ bus = <<>>)

AppTypeOK ==
    /\ pending \in Addr \union {None} /\ prompt \in BOOLEAN /\ (prompt => pending \in Addr)
    /\ consent \in BOOLEAN /\ revoked \in BOOLEAN /\ wanted \in BOOLEAN
    /\ asked \in Seq(Addr) /\ Len(asked) <= MaxAsked
    /\ calls \subseteq Call /\ interface \in Device \union {None}

TunnelTypeOK ==
    /\ platform \in {"desktop", "android"}
    /\ EngineTypeOK /\ BusTypeOK /\ AppTypeOK
    /\ Android \/ (bus = <<>> /\ asked = <<>> /\ calls = {} /\ ~prompt)
    /\ mishap \in BOOLEAN /\ faults \in 0..MaxFaults[platform]
=============================================================================
