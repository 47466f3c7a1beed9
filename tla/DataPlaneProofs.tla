------------------------------ MODULE DataPlaneProofs ------------------------------
(***************************************************************************)
(* Proofs about DataPlane, for any addresses, flows, clients and bounds:    *)
(* the latch of the tunnel, the end of the pumps, the one-way block and the *)
(* stored switches.                                                         *)
(***************************************************************************)
EXTENDS DataPlane, TLAPS

-----------------------------------------------------------------------------
(***************************************************************************)
(* The event channel.                                                      *)
(***************************************************************************)
LEMMA Bounds ==
    /\ MaxBus \in Nat /\ MaxBus > 0 /\ MaxAsked \in Nat /\ MaxAsked > 0
    /\ \A a \in Addr : a # Other /\ a # None
    /\ Other # None
BY TunnelBounds

LEMMA SentType ==
    ASSUME NEW E, bus \in Seq(E), Len(bus) <= MaxBus, NEW e \in E
    PROVE  Sent(e) \in Seq(E) /\ Len(Sent(e)) <= MaxBus
<1>1. CASE Len(bus) < MaxBus
  BY <1>1, Bounds DEF Sent
<1>2. CASE Len(bus) = MaxBus
  <2>1. bus # <<>> /\ Tail(bus) \in Seq(E) /\ Len(Tail(bus)) = MaxBus - 1
    BY <1>2, Bounds
  <2> QED BY <1>2, <2>1, Bounds DEF Sent
<1> QED BY <1>1, <1>2, Bounds

LEMMA SentIsThere ==
    ASSUME NEW E, bus \in Seq(E), Len(bus) <= MaxBus, NEW e \in E, bridged
    PROVE  \E i \in DOMAIN Sent(e) : Sent(e)[i] = e
<1>1. CASE Len(bus) < MaxBus
  <2>1. Sent(e) = Append(bus, e)
    BY <1>1 DEF Sent
  <2>2. Len(bus) + 1 \in DOMAIN Append(bus, e) /\ Append(bus, e)[Len(bus) + 1] = e
    OBVIOUS
  <2> QED BY <2>1, <2>2
<1>2. CASE Len(bus) = MaxBus
  <2>1. bus # <<>> /\ Tail(bus) \in Seq(E)
    BY <1>2, Bounds
  <2>2. Sent(e) = Append(Tail(bus), e)
    BY <1>2, Bounds DEF Sent
  <2>3. /\ Len(Tail(bus)) + 1 \in DOMAIN Append(Tail(bus), e)
        /\ Append(Tail(bus), e)[Len(Tail(bus)) + 1] = e
    BY <2>1
  <2> QED BY <2>2, <2>3
<1> QED BY <1>1, <1>2, Bounds

\* An event that does not push a request out leaves the requests in the channel.
LEMMA SentKeepsRequests ==
    ASSUME NEW E, bus \in Seq(E), Len(bus) <= MaxBus, NEW e \in E,
           bridged \/ bus = <<>>, attempted, ~Forgets(e),
           NEW i \in DOMAIN bus, bus[i] # Other
    PROVE  \E j \in DOMAIN Sent(e) : Sent(e)[j] # Other
<1>0. i \in 1..Len(bus) /\ bridged
  OBVIOUS
<1>1. CASE Len(bus) < MaxBus
  <2>1. Sent(e) = Append(bus, e)
    BY <1>0, <1>1 DEF Sent
  <2>2. i \in DOMAIN Append(bus, e) /\ Append(bus, e)[i] = bus[i]
    BY <1>0
  <2> QED BY <2>1, <2>2
<1>2. CASE Len(bus) = MaxBus
  <2>1. bus # <<>> /\ Tail(bus) \in Seq(E)
    BY <1>2, Bounds
  <2>2. Sent(e) = Append(Tail(bus), e)
    BY <1>0, <1>2, Bounds DEF Sent
  <2>3. i # 1
    BY <1>0, <1>2, <2>1 DEF Forgets
  <2>4. i - 1 \in 1..Len(Tail(bus)) /\ Tail(bus)[i - 1] = bus[i]
    BY <1>0, <2>1, <2>3
  <2>5. i - 1 \in DOMAIN Append(Tail(bus), e) /\ Append(Tail(bus), e)[i - 1] = bus[i]
    BY <2>1, <2>4
  <2> QED BY <2>2, <2>5
<1> QED BY <1>1, <1>2, Bounds

-----------------------------------------------------------------------------
(***************************************************************************)
(* Types: the engine, the channel, the app, and what ties them together.   *)
(***************************************************************************)
\* What a step of the tunnel does to the channel.
LEMMA BusStep ==
    ASSUME BusTypeOK, bridged' = bridged,
           \/ bus' = bus
           \/ bus' = <<>>
           \/ bus # <<>> /\ bus' = Tail(bus)
           \/ \E e \in Addr \union {Other} : bus' = Sent(e)
    PROVE  BusTypeOK'
<1>1. bus' \in Seq(Addr \union {Other}) /\ Len(bus') <= MaxBus
  <2>1. CASE bus # <<>> /\ bus' = Tail(bus)
    <3>1. bus' \in Seq(Addr \union {Other}) /\ Len(bus') = Len(bus) - 1
      BY <2>1 DEF BusTypeOK
    <3> QED BY <3>1, Bounds DEF BusTypeOK
  <2>2. CASE bus' = bus
    BY <2>2 DEF BusTypeOK
  <2>3. CASE bus' = <<>>
    BY <2>3, Bounds, Len(<<>>) = 0
  <2>4. ASSUME NEW e \in Addr \union {Other}, bus' = Sent(e)
        PROVE  bus' \in Seq(Addr \union {Other}) /\ Len(bus') <= MaxBus
    BY <2>4, SentType DEF BusTypeOK
  <2> QED BY <2>1, <2>2, <2>3, <2>4
<1>2. bridged \/ bus' = <<>>
  BY DEF BusTypeOK, Sent
<1> QED BY <1>1, <1>2 DEF BusTypeOK

LEMMA EngineTypes ==
    ASSUME TunnelTypeOK, Routing
    PROVE  EngineTypeOK'
<1> USE DEF TunnelTypeOK, EngineTypeOK, BusTypeOK, AppTypeOK, engineVars, appVars, Device
<1>1. CASE Announce \/ Subscribe \/ Deliver \/ Consent \/ Establish \/ EstablishFails
  BY <1>1 DEF Announce, Subscribe, Deliver, Consent, Establish, EstablishFails
<1>2. CASE GoOnline \/ RosterMoves \/ PassFails \/ EnableTun
  BY <1>2 DEF GoOnline, RosterMoves, PassFails, EnableTun
<1>3. CASE OpenTun
  BY <1>3 DEF OpenTun, Free
<1>4. CASE OpenTunFails \/ PumpEnds \/ DeviceDies \/ Detach
  BY <1>4 DEF OpenTunFails, PumpEnds, DeviceDies, Detach
<1>5. CASE Attach
  BY <1>5 DEF Attach, Attaching
<1>6. CASE AttachFails \/ Revoke \/ Released \/ ResumeRevoked
  BY <1>6 DEF AttachFails, Revoke, Released, ResumeRevoked
<1> QED BY <1>1, <1>2, <1>3, <1>4, <1>5, <1>6 DEF Routing

LEMMA BusTypes ==
    ASSUME TunnelTypeOK, Routing
    PROVE  BusTypeOK'
<1> USE DEF TunnelTypeOK, engineVars, appVars
<1>1. CASE Announce \/ Attach \/ Detach
  BY <1>1, BusStep DEF Announce, Attach, Detach
<1>2. CASE Subscribe
  BY <1>2 DEF Subscribe, BusTypeOK
<1>3. CASE EnableTun
  <2>1. bridged' = bridged /\ (bus' = bus \/ (address \in Addr /\ bus' = Sent(address)))
    BY <1>3 DEF EnableTun, EngineTypeOK
  <2> QED BY <2>1, BusStep
<1>4. CASE Deliver
  <2>1. bus # <<>> /\ bus' = Tail(bus) /\ bridged' = bridged
    BY <1>4 DEF Deliver
  <2> QED BY <2>1, BusStep
<1>5. CASE GoOnline \/ RosterMoves \/ PassFails \/ OpenTun \/ OpenTunFails \/ PumpEnds \/ DeviceDies
  BY <1>5, BusStep DEF GoOnline, RosterMoves, PassFails, OpenTun, OpenTunFails, PumpEnds, DeviceDies
<1>6. CASE Consent \/ Establish \/ EstablishFails \/ AttachFails \/ Revoke \/ Released \/ ResumeRevoked
  BY <1>6, BusStep DEF Consent, Establish, EstablishFails, AttachFails, Revoke, Released, ResumeRevoked
<1> QED BY <1>1, <1>2, <1>3, <1>4, <1>5, <1>6 DEF Routing

LEMMA AppTypes ==
    ASSUME TunnelTypeOK, Routing
    PROVE  AppTypeOK'
<1> USE DEF TunnelTypeOK, AppTypeOK, engineVars, appVars, Device, Call
<1>1. CASE Announce \/ Subscribe \/ GoOnline \/ RosterMoves \/ PassFails \/ EnableTun \/ Detach
  <2>1. CASE Announce \/ Subscribe \/ RosterMoves
    BY <2>1 DEF Announce, Subscribe, RosterMoves
  <2>2. CASE GoOnline
    BY <2>2 DEF GoOnline
  <2>3. CASE PassFails \/ EnableTun \/ Detach
    BY <2>3 DEF PassFails, EnableTun, Detach
  <2> QED BY <1>1, <2>1, <2>2, <2>3
<1>2. CASE OpenTunFails \/ PumpEnds \/ DeviceDies
  BY <1>2 DEF OpenTunFails, PumpEnds, DeviceDies
<1>3. CASE OpenTun
  BY <1>3 DEF OpenTun, Free
<1>4. CASE Deliver
  <2>1. bus \in Seq(Addr \union {Other}) /\ bus # <<>> /\ Len(asked) < MaxAsked
    BY <1>4 DEF Deliver, BusTypeOK
  <2>2. Head(bus) = Other \/ Head(bus) \in Addr
    BY <2>1
  <2>3. CASE Head(bus) = Other
    BY <1>4, <2>3 DEF Deliver
  <2>4. CASE Head(bus) # Other
    <3>1. asked' = asked \/ asked' = Append(asked, Head(bus))
      BY <1>4, <2>4 DEF Deliver
    <3>2. asked' \in Seq(Addr) /\ Len(asked') <= MaxAsked
      BY <2>1, <2>2, <2>4, <3>1, Bounds
    <3>3. prompt' \in BOOLEAN /\ pending' \in Addr
      BY <1>4, <2>2, <2>4 DEF Deliver
    <3>4. UNCHANGED <<consent, revoked, wanted, calls, interface>>
      BY <1>4 DEF Deliver
    <3> QED BY <3>2, <3>3, <3>4
  <2> QED BY <2>3, <2>4
<1>5. CASE Consent
  <2>1. asked' \in Seq(Addr) /\ Len(asked') <= MaxAsked
    BY <1>5, Bounds DEF Consent
  <2>2. consent' = TRUE /\ prompt' = FALSE /\ UNCHANGED <<pending, revoked, wanted, calls, interface>>
    BY <1>5 DEF Consent
  <2> QED BY <2>1, <2>2
<1>6. CASE Establish
  <2>1. asked' \in Seq(Addr) /\ Len(asked') <= MaxAsked
    BY <1>6, Bounds DEF Establish
  <2>2. interface' \in Device
    BY <1>6 DEF Establish, Free
  <2>3. [op |-> "attach", dev |-> interface'] \in Call
    BY <2>2
  <2>4. calls' \subseteq Call
    BY <1>6, <2>3 DEF Establish
  <2>5. UNCHANGED <<pending, prompt, consent, revoked, wanted>>
    BY <1>6 DEF Establish
  <2> QED BY <2>1, <2>2, <2>4, <2>5
<1>7. CASE EstablishFails
  <2>1. asked' \in Seq(Addr) /\ Len(asked') <= MaxAsked
    BY <1>7, Bounds DEF EstablishFails
  <2>2. calls' \subseteq Call
    BY <1>7 DEF EstablishFails
  <2>3. UNCHANGED <<pending, prompt, consent, revoked, wanted, interface>>
    BY <1>7 DEF EstablishFails
  <2> QED BY <2>1, <2>2, <2>3
<1>8. CASE Attach
  BY <1>8 DEF Attach
<1>9. CASE AttachFails
  BY <1>9 DEF AttachFails
<1>10. CASE Revoke
  BY <1>10 DEF Revoke
<1>11. CASE Released
  BY <1>11 DEF Released
<1>12. CASE ResumeRevoked
  BY <1>12 DEF ResumeRevoked
<1> QED BY <1>1, <1>2, <1>3, <1>4, <1>5, <1>6, <1>7, <1>8, <1>9, <1>10, <1>11, <1>12
  DEF Routing

\* What the events and the calls wait for is a phone's.
LEMMA PhoneOnly ==
    ASSUME TunnelTypeOK, Routing
    PROVE  /\ platform' = platform
           /\ (Android \/ (bus = <<>> /\ asked = <<>> /\ calls = {} /\ ~prompt))'
<1> USE DEF TunnelTypeOK, Android, engineVars, appVars
<1>1. CASE Announce \/ Subscribe \/ GoOnline \/ RosterMoves \/ PassFails \/ EnableTun
  BY <1>1 DEF Announce, Subscribe, GoOnline, RosterMoves, PassFails, EnableTun
<1>2. CASE OpenTun \/ OpenTunFails \/ PumpEnds \/ DeviceDies \/ Deliver \/ Consent
  BY <1>2 DEF OpenTun, OpenTunFails, PumpEnds, DeviceDies, Deliver, Consent
<1>3. CASE Establish \/ EstablishFails
  BY <1>3 DEF Establish, EstablishFails
<1>4. CASE Attach \/ AttachFails \/ Detach
  BY <1>4 DEF Attach, AttachFails, Detach, Attaching
<1>5. CASE Revoke \/ Released \/ ResumeRevoked
  BY <1>5 DEF Revoke, Released, ResumeRevoked
<1> QED BY <1>1, <1>2, <1>3, <1>4, <1>5 DEF Routing

LEMMA FaultTypes ==
    ASSUME TunnelTypeOK, Routing
    PROVE  mishap' \in BOOLEAN /\ faults' \in 0..MaxFaults[platform]
<1> USE DEF engineVars, appVars
<1>1. mishap \in BOOLEAN /\ live \in BOOLEAN /\ attempted \in BOOLEAN
  BY DEF TunnelTypeOK, EngineTypeOK
<1>2. mishap' \in BOOLEAN
  <2>1. CASE Announce \/ Subscribe \/ GoOnline \/ RosterMoves \/ PassFails \/ EnableTun
    BY <1>1, <2>1 DEF Announce, Subscribe, GoOnline, RosterMoves, PassFails, EnableTun
  <2>2. CASE OpenTun \/ OpenTunFails \/ PumpEnds \/ DeviceDies \/ Deliver \/ Consent
    BY <1>1, <2>2 DEF OpenTun, OpenTunFails, PumpEnds, DeviceDies, Deliver, Consent
  <2>3. CASE Establish \/ EstablishFails \/ Attach \/ AttachFails \/ Detach
    BY <1>1, <2>3 DEF Establish, EstablishFails, Attach, AttachFails, Detach
  <2>4. CASE Revoke \/ Released \/ ResumeRevoked
    BY <1>1, <2>4 DEF Revoke, Released, ResumeRevoked
  <2> QED BY <2>1, <2>2, <2>3, <2>4 DEF Routing
<1>3. faults' = faults \/ Fault
  <2>1. CASE Announce \/ Subscribe \/ GoOnline \/ RosterMoves \/ PassFails \/ EnableTun
    BY <2>1 DEF Announce, Subscribe, GoOnline, RosterMoves, PassFails, EnableTun
  <2>2. CASE OpenTun \/ OpenTunFails \/ PumpEnds \/ DeviceDies \/ Deliver \/ Consent
    BY <2>2 DEF OpenTun, OpenTunFails, PumpEnds, DeviceDies, Deliver, Consent
  <2>3. CASE Establish \/ EstablishFails \/ Attach \/ AttachFails \/ Detach
    BY <2>3 DEF Establish, EstablishFails, Attach, AttachFails, Detach
  <2>4. CASE Revoke \/ Released \/ ResumeRevoked
    BY <2>4 DEF Revoke, Released, ResumeRevoked
  <2> QED BY <2>1, <2>2, <2>3, <2>4 DEF Routing
<1>4. MaxFaults[platform] \in Nat /\ faults \in 0..MaxFaults[platform]
  BY TunnelBounds DEF TunnelTypeOK
<1> QED BY <1>2, <1>3, <1>4 DEF Fault

LEMMA DisconnectTypes ==
    ASSUME TunnelTypeOK, GoOffline \/ QuiesceRevoked
    PROVE  TunnelTypeOK'
<1> USE DEF TunnelTypeOK, GoOffline, QuiesceRevoked, SoftDisconnect
<1>1. bridged' = bridged /\ (bus' = bus \/ bus' = Sent(Other)) /\ (Android \/ bus' = bus)
  OBVIOUS
<1>2. BusTypeOK'
  BY <1>1, BusStep
<1>3. EngineTypeOK'
  BY DEF EngineTypeOK
<1>4. AppTypeOK'
  <2>1. wanted' \in BOOLEAN /\ calls' \subseteq calls
    BY DEF AppTypeOK
  <2>2. UNCHANGED <<pending, prompt, consent, revoked, asked, interface>>
    OBVIOUS
  <2> QED BY <2>1, <2>2 DEF AppTypeOK, Call, Device
<1>5. platform' = platform /\ (Android \/ (bus = <<>> /\ asked = <<>> /\ calls = {} /\ ~prompt))'
  BY <1>1 DEF Android
<1> QED BY <1>2, <1>3, <1>4, <1>5

LEMMA PassBeginsTypes ==
    ASSUME TunnelTypeOK, PassBegins
    PROVE  TunnelTypeOK'
<1> USE DEF TunnelTypeOK, PassBegins, appVars
<1>1. BusTypeOK'
  BY BusStep
<1>2. EngineTypeOK'
  BY DEF EngineTypeOK
<1>3. AppTypeOK'
  BY DEF AppTypeOK
<1> QED BY <1>1, <1>2, <1>3 DEF Android

LEMMA RestartTypes ==
    ASSUME TunnelTypeOK, Fault, RestartTunnel
    PROVE  TunnelTypeOK'
<1>1. BusTypeOK'
  <2>1. bus' = <<>> /\ bridged' = FALSE
    BY DEF RestartTunnel
  <2>2. bus' \in Seq(Addr \union {Other}) /\ Len(bus') <= MaxBus
    BY <2>1, Bounds
  <2> QED BY <2>1, <2>2 DEF BusTypeOK
<1>2. EngineTypeOK'
  BY DEF TunnelTypeOK, RestartTunnel, EngineTypeOK
<1>3. asked' = <<>> /\ calls' = {} /\ prompt' = FALSE /\ bus' = <<>>
  BY DEF RestartTunnel
<1>4. AppTypeOK'
  <2>1. pending' = None /\ revoked' = FALSE /\ wanted' = TRUE /\ interface' = None
    BY DEF RestartTunnel
  <2>2. consent' \in BOOLEAN
    BY DEF TunnelTypeOK, RestartTunnel, AppTypeOK
  <2>3. asked' \in Seq(Addr) /\ Len(asked') <= MaxAsked
    BY <1>3, Bounds
  <2> QED BY <1>3, <2>1, <2>2, <2>3 DEF AppTypeOK
<1>5. platform' \in {"desktop", "android"} /\ mishap' \in BOOLEAN
  BY DEF TunnelTypeOK, RestartTunnel
<1>6. (faults \in 0..MaxFaults[platform])'
  <2>1. platform' = platform /\ faults \in 0..MaxFaults[platform] /\ MaxFaults[platform] \in Nat
    BY TunnelBounds DEF TunnelTypeOK, RestartTunnel
  <2> QED BY <2>1 DEF Fault
<1> QED BY <1>1, <1>2, <1>3, <1>4, <1>5, <1>6 DEF TunnelTypeOK

LEMMA TunnelTypes ==
    ASSUME TunnelTypeOK, [Next]_vars
    PROVE  TunnelTypeOK'
<1>1. CASE Routing
  <2>1. EngineTypeOK' /\ BusTypeOK' /\ AppTypeOK'
    BY <1>1, EngineTypes, BusTypes, AppTypes
  <2> QED BY <1>1, <2>1, PhoneOnly, FaultTypes DEF TunnelTypeOK
<1>2. CASE Disconnect
  BY <1>2, DisconnectTypes DEF Disconnect
<1>3. CASE PassBegins
  BY <1>3, PassBeginsTypes
<1>4. CASE Restart
  BY <1>4, RestartTypes DEF Restart
<1>5. CASE UNCHANGED tunnelVars
  BY <1>5 DEF tunnelVars, engineVars, appVars, TunnelTypeOK, EngineTypeOK, BusTypeOK, AppTypeOK, Android
<1> QED
  BY <1>1, <1>2, <1>3, <1>4, <1>5 DEF Next, vars, Tick, Send, Switch

LEMMA BlockTypes ==
    ASSUME BlockTypeOK, [Next]_vars
    PROVE  BlockTypeOK' /\ scope' = scope
<1> USE DEF BlockTypeOK
<1>1. CASE UNCHANGED blockVars
  BY <1>1 DEF blockVars
<1>2. CASE Clear
  BY <1>2 DEF Clear
<1>3. CASE PassReadsClock
  <2>1. /\ DOMAIN Sweep \subseteq DOMAIN table /\ Sweep \in [DOMAIN Sweep -> 0..FlowTtl]
    BY BlockBounds DEF Sweep
  <2>2. table' = Sweep /\ late' = 0 /\ UNCHANGED <<scope, switches, prefs, setting, silence, ours, kept, unsaved>>
    BY <1>3 DEF PassReadsClock
  <2> QED BY <2>1, <2>2, BlockBounds
<1>4. CASE TimePasses
  <2>1. late' \in 0..MaxLate /\ kept' \subseteq ours
    BY <1>4, BlockBounds DEF TimePasses
  <2>2. silence' \in [scope.flows -> 0..Silent]
    BY <1>4, BlockBounds DEF TimePasses, Silent
  <2> QED BY <1>4, <2>1, <2>2 DEF TimePasses
<1>5. ASSUME NEW f \in scope.flows, NEW opens \in BOOLEAN, Outbound(f, opens)
      PROVE  BlockTypeOK' /\ scope' = scope
  <2>1. DOMAIN table' \subseteq scope.flows /\ table' \in [DOMAIN table' -> 0..FlowTtl]
    BY <1>5, BlockBounds DEF Outbound, RecordOutbound, Stamped
  <2>2. silence' \in [scope.flows -> 0..Silent]
    BY <1>5, BlockBounds DEF Outbound, Silent
  <2>3. kept' \subseteq ours' /\ ours' \subseteq scope.flows
    BY <1>5 DEF Outbound
  <2> QED BY <1>5, <2>1, <2>2, <2>3 DEF Outbound
<1>6. ASSUME NEW r \in scope.clients, Switch(r)
      PROVE  BlockTypeOK' /\ scope' = scope
  <2>1. ASSUME NEW s \in {"disabled", "hidden"}, NEW on \in BOOLEAN, SetSwitch(r, s, on)
        PROVE  BlockTypeOK' /\ scope' = scope
    BY <2>1 DEF SetSwitch, Settled, Switches
  <2>2. CASE ReadSwitches(r)
    BY <2>2 DEF ReadSwitches
  <2>3. CASE SavePrefs(r)
    BY <2>3 DEF SavePrefs
  <2> QED BY <1>6, <2>1, <2>2, <2>3 DEF Switch
<1>7. CASE RestartBlock
  <2>1. switches' \in Switches /\ prefs' \in Switches \union {Absent}
    BY <1>7 DEF RestartBlock, Off, Switches
  <2>2. DOMAIN table' = {} /\ table' \in [DOMAIN table' -> 0..FlowTtl] /\ late' \in 0..MaxLate
    BY <1>7, BlockBounds DEF RestartBlock
  <2>3. setting' \in [scope.clients -> {Idle, Stored} \union Switches]
    BY <1>7 DEF RestartBlock
  <2> QED BY <1>7, <2>1, <2>2, <2>3 DEF RestartBlock
<1> QED
  BY <1>1, <1>2, <1>3, <1>4, <1>5, <1>6, <1>7
  DEF Next, vars, Disconnect, Tick, Send, Restart

\* In every reachable state the tunnel, the app, the table of flows and the switches are of
\* the types the engine and the app give them, and the phone's events are only on a phone.
THEOREM TypeCorrect == Spec => []TypeOK
<1>1. Init => TypeOK
  <2> SUFFICES ASSUME Init PROVE TypeOK
    OBVIOUS
  <2>1. scope \in Scope /\ platform \in {"desktop", "android"}
    BY ScopeAssumption DEF Init
  <2>2. BusTypeOK
    <3>1. bus = <<>>
      BY DEF Init, InitTunnel
    <3>2. bus \in Seq(Addr \union {Other}) /\ Len(bus) <= MaxBus
      BY <3>1, Bounds
    <3> QED BY <3>1, <3>2 DEF Init, InitTunnel, BusTypeOK
  <2>3. AppTypeOK
    <3>1. asked = <<>>
      BY DEF Init, InitTunnel
    <3>2. asked \in Seq(Addr) /\ Len(asked) <= MaxAsked
      BY <3>1, Bounds
    <3> QED BY <3>2 DEF Init, InitTunnel, AppTypeOK
  <2>4. EngineTypeOK
    BY DEF Init, InitTunnel, EngineTypeOK
  <2>5. faults \in 0..MaxFaults[platform]
    BY <2>1, TunnelBounds DEF Init, InitTunnel
  <2>6. TunnelTypeOK
    BY <2>1, <2>2, <2>3, <2>4, <2>5 DEF Init, InitTunnel, TunnelTypeOK, Android
  <2>7. BlockTypeOK
    <3>1. switches \in Switches /\ prefs \in Switches \union {Absent}
      BY DEF Init, InitBlock, Off, Switches
    <3>2. DOMAIN table = {} /\ table \in [DOMAIN table -> 0..FlowTtl] /\ late \in 0..MaxLate
      BY BlockBounds DEF Init, InitBlock
    <3>3. silence \in [scope.flows -> 0..Silent]
      BY BlockBounds DEF Init, InitBlock, Silent
    <3> QED BY <3>1, <3>2, <3>3 DEF Init, InitBlock, BlockTypeOK
  <2> QED BY <2>1, <2>6, <2>7 DEF TypeOK
<1>2. TypeOK /\ [Next]_vars => TypeOK'
  BY TunnelTypes, BlockTypes DEF TypeOK
<1> QED BY <1>1, <1>2, PTL DEF Spec

-----------------------------------------------------------------------------
(***************************************************************************)
(* The tunnel.                                                             *)
(***************************************************************************)
\* Only a late device or a lost request leaves a device behind when the network goes: on a
\* network that has gone, an engine without a mishap holds no device and pumps none.
THEOREM TunnelIsGone == Spec => []TunnelGoesWithNetwork
<1> USE DEF TunnelGoesWithNetwork
<1>1. Init => TunnelGoesWithNetwork
  BY DEF Init, InitTunnel
<1>2. TypeOK /\ TunnelGoesWithNetwork /\ [Next]_vars => TunnelGoesWithNetwork'
  <2> SUFFICES ASSUME TypeOK, TunnelGoesWithNetwork, [Next]_vars
               PROVE  TunnelGoesWithNetwork'
    OBVIOUS
  <2> USE DEF engineVars, appVars
  <2>1. CASE Announce \/ Subscribe \/ GoOnline \/ RosterMoves \/ PassFails \/ EnableTun
    BY <2>1 DEF Announce, Subscribe, GoOnline, RosterMoves, PassFails, EnableTun
  <2>2. CASE OpenTun
    <3>1. live' = live /\ mishap' = (mishap \/ ~attempted \/ ~live)
      BY <2>2 DEF OpenTun
    <3> QED BY <3>1
  <2>3. CASE OpenTunFails
    BY <2>3 DEF OpenTunFails
  <2>4. CASE PumpEnds \/ DeviceDies
    BY <2>4 DEF PumpEnds, DeviceDies
  <2>5. CASE Deliver \/ Consent \/ Establish \/ EstablishFails
    BY <2>5 DEF Deliver, Consent, Establish, EstablishFails
  <2>6. CASE Attach
    <3>1. PICK d \in Attaching : live' = live /\ mishap' = (mishap \/ ~live \/ d # interface)
      BY <2>6 DEF Attach
    <3> QED BY <3>1
  <2>7. CASE AttachFails
    <3>1. UNCHANGED <<live, tun, pumps>> /\ mishap' = (mishap \/ attempted)
      BY <2>7 DEF AttachFails
    <3> QED BY <3>1
  <2>8. CASE Detach
    BY <2>8 DEF Detach
  <2>9. CASE Revoke \/ Released \/ ResumeRevoked
    BY <2>9 DEF Revoke, Released, ResumeRevoked
  <2>10. CASE Disconnect
    BY <2>10 DEF Disconnect, GoOffline, QuiesceRevoked, SoftDisconnect
  <2>11. CASE PassBegins \/ RestartTunnel
    BY <2>11 DEF PassBegins, RestartTunnel
  <2>12. CASE UNCHANGED tunnelVars
    BY <2>12 DEF tunnelVars
  <2> QED
    BY <2>1, <2>2, <2>3, <2>4, <2>5, <2>6, <2>7, <2>8, <2>9, <2>10, <2>11, <2>12
    DEF Next, Routing, vars, Tick, Send, Switch, Restart
<1> QED BY <1>1, <1>2, TypeCorrect, PTL DEF Spec

\* The latch with a little more than LatchIsBacked says: the device that carries packets is
\* the one the system routes to, so that a pump that ends for a device that is gone is not
\* the one behind the latch.
LatchHolds == attempted /\ ~mishap => (tun \in pumps /\ tun = interface) \/ OnItsWay

\* What is on its way stays so when nothing of it is taken.
LEMMA StillOnItsWay ==
    ASSUME OnItsWay, UNCHANGED <<pass, prompt, asked, calls, bus>>
    PROVE  OnItsWay'
BY DEF OnItsWay

LEMMA LatchInit == Init => LatchHolds
BY DEF Init, InitTunnel, LatchHolds

\* Announcing anything loses a request only with a mishap.
LEMMA LatchSurvivesEvents ==
    ASSUME TunnelTypeOK, LatchHolds, attempted, ~mishap, NEW e \in Addr \union {Other}, ~Forgets(e),
           bus' = Sent(e), UNCHANGED <<tun, pumps, interface, prompt, asked, calls>>,
           pass = "opening" => pass' = "opening"
    PROVE  (tun' \in pumps' /\ tun' = interface') \/ OnItsWay'
<1>1. CASE \E i \in DOMAIN bus : bus[i] # Other
  <2>1. \E j \in DOMAIN bus' : bus'[j] # Other
    BY <1>1, SentKeepsRequests DEF TunnelTypeOK, BusTypeOK
  <2> QED BY <2>1 DEF OnItsWay
<1>2. CASE ~\E i \in DOMAIN bus : bus[i] # Other
  BY <1>2 DEF LatchHolds, OnItsWay
<1> QED BY <1>1, <1>2

LEMMA LatchOfThePass ==
    ASSUME TunnelTypeOK, LatchHolds,
           EnableTun \/ PassFails \/ OpenTun \/ OpenTunFails \/ PassBegins
    PROVE  LatchHolds'
<1>1. CASE PassFails \/ PassBegins
  <2>1. /\ pass # "opening"
        /\ UNCHANGED <<attempted, tun, pumps, prompt, asked, calls, bus, interface, mishap>>
    BY <1>1 DEF PassFails, PassBegins, appVars
  <2> QED BY <2>1 DEF LatchHolds, OnItsWay
<1>2. CASE OpenTun
  BY <1>2 DEF OpenTun, LatchHolds
<1>3. CASE OpenTunFails
  BY <1>3 DEF OpenTunFails, LatchHolds
<1>4. CASE EnableTun
  <2>1. CASE address = None \/ attempted
    BY <1>4, <2>1 DEF EnableTun, LatchHolds, OnItsWay
  <2>2. CASE address # None /\ ~attempted /\ ~Android
    BY <1>4, <2>2 DEF EnableTun, LatchHolds, OnItsWay
  <2>3. CASE address # None /\ ~attempted /\ Android
    <3>1. address \in Addr \union {Other} /\ address # Other
      BY <2>3, Bounds DEF TunnelTypeOK, EngineTypeOK
    <3>2. bus' = Sent(address) /\ (mishap' \/ ~Forgets(address))
      BY <1>4, <2>3 DEF EnableTun
    <3>3. ~mishap' => \E i \in DOMAIN bus' : bus'[i] # Other
      BY <3>1, <3>2, SentIsThere DEF Forgets, TunnelTypeOK, BusTypeOK
    <3> QED BY <3>3 DEF LatchHolds, OnItsWay
  <2> QED BY <2>1, <2>2, <2>3
<1> QED BY <1>1, <1>2, <1>3, <1>4

\* The app passes what it has taken from the channel on, until an engine call is made of it.
LEMMA LatchOfTheApp ==
    ASSUME TunnelTypeOK, LatchHolds, Deliver \/ Consent \/ Establish \/ EstablishFails \/ Revoke
    PROVE  LatchHolds'
<1>1. attempted' = attempted /\ mishap' = mishap
  BY DEF Deliver, Consent, Establish, EstablishFails, Revoke, engineVars
<1>2. CASE Deliver
  <2>1. bus \in Seq(Addr \union {Other}) /\ bus # <<>> /\ bus' = Tail(bus) /\ asked \in Seq(Addr)
    BY <1>2 DEF Deliver, TunnelTypeOK, BusTypeOK, AppTypeOK
  <2>2. UNCHANGED <<tun, pumps, pass, calls, interface>>
    BY <1>2 DEF Deliver, engineVars
  <2>3. CASE Head(bus) = Other
    <3>1. UNCHANGED <<prompt, asked>>
      BY <1>2, <2>3 DEF Deliver
    <3>2. ASSUME NEW i \in DOMAIN bus, bus[i] # Other
          PROVE  \E j \in DOMAIN bus' : bus'[j] # Other
      <4>1. i \in 1..Len(bus) /\ i # 1
        BY <2>1, <2>3, <3>2
      <4>2. i - 1 \in DOMAIN bus' /\ bus'[i - 1] = bus[i]
        BY <2>1, <4>1
      <4> QED BY <3>2, <4>2
    <3> QED BY <1>1, <2>2, <3>1, <3>2 DEF LatchHolds, OnItsWay
  <2>4. CASE Head(bus) # Other
    <3>1. prompt' \/ asked' # <<>>
      <4>1. CASE consent
        <5>1. asked' = Append(asked, Head(bus))
          BY <1>2, <2>4, <4>1 DEF Deliver
        <5> QED BY <2>1, <5>1
      <4>2. CASE ~consent
        BY <1>2, <2>4, <4>2 DEF Deliver
      <4> QED BY <4>1, <4>2
    <3> QED BY <3>1 DEF LatchHolds, OnItsWay
  <2> QED BY <2>3, <2>4
<1>3. CASE Consent
  <2>1. asked' = Append(asked, pending) /\ asked \in Seq(Addr)
    BY <1>3 DEF Consent, TunnelTypeOK, AppTypeOK
  <2>2. asked' # <<>>
    BY <2>1
  <2> QED BY <2>2 DEF LatchHolds, OnItsWay
<1>4. CASE Establish
  BY <1>4 DEF Establish, LatchHolds, OnItsWay
<1>5. CASE EstablishFails
  BY <1>5 DEF EstablishFails, LatchHolds, OnItsWay
<1>6. CASE Revoke
  BY <1>6 DEF Revoke, LatchHolds, OnItsWay
<1> QED BY <1>2, <1>3, <1>4, <1>5, <1>6

LEMMA LatchStep ==
    ASSUME TypeOK, LatchHolds, [Next]_vars
    PROVE  LatchHolds'
<1> USE DEF engineVars, appVars, TypeOK
<1>1. CASE Announce
  <2>1. /\ bus' = Sent(Other) /\ mishap' = (mishap \/ Forgets(Other))
        /\ UNCHANGED <<attempted, tun, pumps, pass, interface, prompt, asked, calls>>
    BY <1>1 DEF Announce
  <2> QED BY <2>1, LatchSurvivesEvents DEF LatchHolds
<1>2. CASE EnableTun \/ PassFails \/ OpenTun \/ OpenTunFails \/ PassBegins
  BY <1>2, LatchOfThePass
<1>3. CASE Deliver \/ Consent \/ Establish \/ EstablishFails \/ Revoke
  BY <1>3, LatchOfTheApp
<1>4. CASE PumpEnds
  <2>1. PICK d \in pumps \ {interface} : pumps' = pumps \ {d}
    BY <1>4 DEF PumpEnds
  <2>2. UNCHANGED <<attempted, mishap, tun, interface, pass, prompt, asked, calls, bus>>
    BY <1>4 DEF PumpEnds
  <2> QED BY <2>1, <2>2 DEF LatchHolds, OnItsWay
<1>5. CASE DeviceDies \/ Detach \/ Disconnect \/ RestartTunnel
  BY <1>5 DEF DeviceDies, Detach, Disconnect, GoOffline, QuiesceRevoked, SoftDisconnect, RestartTunnel,
              LatchHolds
<1>6. CASE Attach
  <2>1. PICK d \in Attaching : tun' = d /\ pumps' = pumps \union {d} /\ interface' = interface
                               /\ mishap' = (mishap \/ ~live \/ d # interface)
    BY <1>6 DEF Attach
  <2> QED BY <2>1 DEF LatchHolds
<1>7. CASE AttachFails
  <2>1. attempted' = attempted /\ mishap' = (mishap \/ attempted)
    BY <1>7 DEF AttachFails
  <2> QED BY <2>1 DEF LatchHolds
<1>8. CASE Subscribe \/ GoOnline \/ RosterMoves \/ Released \/ ResumeRevoked \/ UNCHANGED tunnelVars
  <2>1. UNCHANGED <<attempted, mishap, tun, pumps, interface, pass, prompt, asked, calls, bus>>
    BY <1>8 DEF Subscribe, GoOnline, RosterMoves, Released, ResumeRevoked, tunnelVars
  <2> QED BY <2>1, StillOnItsWay DEF LatchHolds
<1> QED
  BY <1>1, <1>2, <1>3, <1>4, <1>5, <1>6, <1>7, <1>8
  DEF Next, Routing, vars, Tick, Send, Switch, Restart

\* The latch that keeps later passes from asking again is never up for nothing: there is a
\* device that carries packets, or something on its way that puts one up or the latch down.
THEOREM LatchIsNeverForNothing == Spec => []LatchIsBacked
<1>1. Init => LatchHolds
  BY LatchInit
<1>2. TypeOK /\ LatchHolds /\ [Next]_vars => LatchHolds'
  BY LatchStep
<1>3. LatchHolds => LatchIsBacked
  BY DEF LatchHolds, LatchIsBacked
<1> QED BY <1>1, <1>2, <1>3, TypeCorrect, PTL DEF Spec

-----------------------------------------------------------------------------
(***************************************************************************)
(* The one-way block.                                                      *)
(***************************************************************************)
\* How far the age of an entry by the coarse clock and the real silence of its flow can be
\* apart: an entry is never younger than its flow's silence, nor older by more than one late
\* pass.  So a flow kept from falling silent for longer than FlowTtl - MaxLate is never swept.
AgesAgree ==
    /\ DOMAIN table \subseteq ours
    /\ kept \subseteq DOMAIN table
    /\ \A f \in DOMAIN table : /\ silence[f] <= table[f] + late
                               /\ table[f] + late <= silence[f] + MaxLate
    /\ \A f \in kept : silence[f] <= FlowTtl - MaxLate

LEMMA AgesStep ==
    ASSUME BlockTypeOK, AgesAgree, [Next]_vars
    PROVE  AgesAgree'
<1> USE BlockBounds DEF BlockTypeOK, AgesAgree
<1>1. CASE UNCHANGED <<table, late, silence, ours, kept>>
  BY <1>1
<1>2. CASE Clear \/ RestartBlock
  <2>1. DOMAIN table' = {} /\ kept' = {}
    BY <1>2 DEF Clear, RestartBlock
  <2> QED BY <2>1
<1>3. CASE PassReadsClock
  <2>1. table' = Sweep /\ late' = 0 /\ UNCHANGED <<silence, ours, kept>>
    BY <1>3 DEF PassReadsClock
  <2>2. DOMAIN Sweep \subseteq DOMAIN table /\ \A f \in DOMAIN Sweep : Sweep[f] = table[f] + late
    BY DEF Sweep
  <2>3. ASSUME NEW f \in kept
        PROVE  f \in DOMAIN Sweep
    <3>1. f \in DOMAIN table /\ table[f] + late <= silence[f] + MaxLate /\ silence[f] <= FlowTtl - MaxLate
      OBVIOUS
    <3>2. table[f] \in Nat /\ late \in Nat /\ silence[f] \in Nat
      BY <3>1
    <3>3. table[f] + late <= FlowTtl
      BY <3>1, <3>2
    <3> QED BY <3>1, <3>3 DEF Sweep
  <2> QED BY <2>1, <2>2, <2>3
<1>4. CASE TimePasses
  <2>1. /\ late' = late + 1 /\ UNCHANGED <<table, ours>> /\ late < MaxLate
        /\ kept' = {f \in kept : silence'[f] <= FlowTtl - MaxLate}
    BY <1>4 DEF TimePasses
  <2>2. ASSUME NEW f \in DOMAIN table
        PROVE  silence'[f] = silence[f] + 1
    <3>1. silence[f] <= table[f] + late /\ table[f] \in 0..FlowTtl /\ late \in 0..MaxLate
      OBVIOUS
    <3>2. silence[f] < Silent
      BY <2>1, <3>1 DEF Silent
    <3> QED BY <1>4, <3>2 DEF TimePasses
  <2> QED BY <2>1, <2>2
<1>5. ASSUME NEW f \in scope.flows, NEW opens \in BOOLEAN, Outbound(f, opens)
      PROVE  AgesAgree'
  <2>1. late' = late /\ \A g \in scope.flows : silence'[g] = IF g = f THEN 0 ELSE silence[g]
    BY <1>5 DEF Outbound
  <2>2. CASE Initiates(f, opens)
    <3>1. /\ DOMAIN table' = DOMAIN table \union {f}
          /\ \A g \in DOMAIN table' : table'[g] = IF g = f THEN 0 ELSE table[g]
          /\ ours' = ours \union {f} /\ kept' = kept \union {f}
      BY <1>5, <2>2 DEF Outbound, RecordOutbound, Stamped
    <3> QED BY <2>1, <3>1
  <2>3. CASE ~Initiates(f, opens)
    <3>1. UNCHANGED <<ours, kept>>
      BY <1>5, <2>3 DEF Outbound
    <3>2. CASE f \in DOMAIN table
      <4>1. /\ DOMAIN table' = DOMAIN table
            /\ \A g \in DOMAIN table' : table'[g] = IF g = f THEN 0 ELSE table[g]
        BY <1>5, <2>3, <3>2 DEF Outbound, RecordOutbound, Stamped
      <4> QED BY <2>1, <3>1, <4>1
    <3>3. CASE f \notin DOMAIN table
      <4>1. table' = table
        BY <1>5, <2>3, <3>3 DEF Outbound, RecordOutbound
      <4> QED BY <2>1, <3>1, <3>3, <4>1
    <3> QED BY <3>2, <3>3
  <2> QED BY <2>2, <2>3
<1> QED
  BY <1>1, <1>2, <1>3, <1>4, <1>5
  DEF Next, vars, blockVars, Disconnect, Tick, Send, Switch, SetSwitch, ReadSwitches, SavePrefs, Restart

\* While remote access is disabled, or the device hidden, what comes in answers a flow this
\* device opened and used lately; and the block never cuts one it opened and keeps using.
THEOREM BlockIsOneWay == Spec => []AnswersComeIn
<1>1. Init => AgesAgree
  BY DEF Init, InitBlock, AgesAgree
<1>2. TypeOK /\ AgesAgree /\ [Next]_vars => AgesAgree'
  BY AgesStep DEF TypeOK
<1>3. TypeOK /\ AgesAgree => AnswersComeIn
  <2> SUFFICES ASSUME BlockTypeOK, AgesAgree
               PROVE  AnswersComeIn
    BY DEF TypeOK
  <2>1. ASSUME NEW f \in DOMAIN table
        PROVE  f \in ours /\ table[f] <= FlowTtl /\ silence[f] <= FlowTtl + MaxLate
    BY BlockBounds DEF BlockTypeOK, AgesAgree
  <2> QED BY <2>1 DEF AnswersComeIn, AgesAgree, Admits, AllowsInbound
<1> QED BY <1>1, <1>2, <1>3, TypeCorrect, PTL DEF Spec

\* With neither an overlap nor a failed write, at most one client is setting a switch, what it
\* is about to write is what the switches are, and the file is right when nobody is.
FileFollows ==
    ~unsaved =>
        /\ \A r, q \in scope.clients : setting[r] # Idle /\ setting[q] # Idle => r = q
        /\ \A r \in scope.clients : setting[r] \in {Idle, Stored, switches}
        /\ Settled => Loaded = switches

LEMMA FileStep ==
    ASSUME BlockTypeOK, FileFollows, [Next]_vars
    PROVE  FileFollows'
<1> USE DEF BlockTypeOK, FileFollows
<1>0. Idle # Stored /\ Idle \notin Switches /\ Stored \notin Switches /\ Absent \notin Switches
  BY BlockBounds
<1>1. CASE UNCHANGED <<scope, switches, prefs, setting, unsaved>>
  BY <1>1 DEF Settled, Loaded
<1>2. ASSUME NEW r \in scope.clients, NEW s \in {"disabled", "hidden"}, NEW on \in BOOLEAN,
             SetSwitch(r, s, on)
      PROVE  FileFollows'
  <2>1. /\ setting' = [setting EXCEPT ![r] = Stored] /\ unsaved' = ~Settled /\ scope' = scope
    BY <1>2 DEF SetSwitch
  <2> QED BY <1>0, <2>1 DEF Settled
<1>3. ASSUME NEW r \in scope.clients, ReadSwitches(r)
      PROVE  FileFollows'
  <2>1. /\ setting[r] = Stored /\ setting' = [setting EXCEPT ![r] = switches]
        /\ UNCHANGED <<scope, switches, unsaved>>
    BY <1>3 DEF ReadSwitches
  <2> QED BY <1>0, <2>1 DEF Settled
<1>4. ASSUME NEW r \in scope.clients, SavePrefs(r)
      PROVE  FileFollows'
  <2>1. /\ setting[r] \notin {Idle, Stored} /\ setting' = [setting EXCEPT ![r] = Idle]
        /\ UNCHANGED <<scope, switches>>
    BY <1>4 DEF SavePrefs
  <2>2. CASE prefs' = setting[r] /\ unsaved' = unsaved
    BY <1>0, <2>1, <2>2 DEF Loaded
  <2>3. CASE unsaved' = TRUE
    BY <2>3
  <2> QED BY <1>4, <2>2, <2>3 DEF SavePrefs
<1>5. CASE RestartBlock
  <2>1. /\ setting' = [r \in scope.clients |-> Idle] /\ scope' = scope
        /\ switches' = IF prefs' = Absent THEN Off ELSE prefs'
    BY <1>5 DEF RestartBlock
  <2> QED BY <1>0, <2>1 DEF Loaded
<1> QED
  BY <1>1, <1>2, <1>3, <1>4, <1>5
  DEF Next, vars, blockVars, Disconnect, Clear, Tick, PassReadsClock, TimePasses, Send, Outbound, Switch,
      Restart

\* A restart brings both switches back as they were, whatever the order in which clients set
\* them, unless two calls overlapped or a write failed.
THEOREM SwitchesAreStored == Spec => []PrefsAreStored
<1>1. Init => FileFollows
  BY DEF Init, InitBlock, FileFollows, Loaded
<1>2. TypeOK /\ FileFollows /\ [Next]_vars => FileFollows'
  BY FileStep DEF TypeOK
<1>3. FileFollows => PrefsAreStored
  BY DEF FileFollows, PrefsAreStored
<1> QED BY <1>1, <1>2, <1>3, TypeCorrect, PTL DEF Spec

=============================================================================
