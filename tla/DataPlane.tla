------------------------------- MODULE DataPlane -------------------------------
(***************************************************************************)
(* What carries packets between the system and the mesh: the tunnel and the *)
(* one-way block, which meet in the maintenance pass (its clock), in the    *)
(* pump (a packet needs a device to come from) and in soft_disconnect.      *)
(***************************************************************************)
EXTENDS Tunnel, OneWayBlock

CONSTANT Scope  \* bound: which platform goes with which flows and which clients

ASSUME ScopeAssumption == \A s \in Scope : s.platform \in {"desktop", "android"}

vars == <<tunnelVars, blockVars>>

Init ==
    /\ \E s \in Scope : scope = s /\ platform = s.platform
    /\ InitTunnel /\ InitBlock

Disconnect == (GoOffline \/ QuiesceRevoked) /\ Clear

\* A pass begins with the clock, whether or not there is a network to work on.
Tick ==
    /\ \/ PassBegins
       \/ pass = "idle" /\ ~live /\ UNCHANGED tunnelVars
    /\ PassReadsClock

Send(f, opens) ==
    /\ pumps # {}
    /\ Outbound(f, opens)
    /\ UNCHANGED tunnelVars

Switch(r) ==
    /\ \/ \E s \in {"disabled", "hidden"}, on \in BOOLEAN : SetSwitch(r, s, on)
       \/ ReadSwitches(r)
       \/ SavePrefs(r)
    /\ UNCHANGED tunnelVars

Restart == Fault /\ RestartTunnel /\ RestartBlock

Routing ==
    \/ Announce \/ Subscribe
    \/ GoOnline \/ RosterMoves
    \/ PassFails \/ EnableTun \/ OpenTun \/ OpenTunFails \/ PumpEnds \/ DeviceDies
    \/ Deliver \/ Consent \/ Establish \/ EstablishFails
    \/ Attach \/ AttachFails \/ Detach
    \/ Revoke \/ Released \/ ResumeRevoked

Next ==
    \/ Routing /\ UNCHANGED blockVars
    \/ Disconnect
    \/ Tick
    \/ TimePasses /\ UNCHANGED tunnelVars
    \/ \E f \in scope.flows, opens \in BOOLEAN : (opens => f \in Tcp) /\ Send(f, opens)
    \/ \E r \in scope.clients : Switch(r)
    \/ Restart

\* The runtime runs every task, the system the app's threads, and a pass that can end ends.
Fairness ==
    /\ WF_vars(Tick)
    /\ WF_vars(EnableTun /\ UNCHANGED blockVars)
    /\ WF_vars((OpenTun \/ OpenTunFails) /\ UNCHANGED blockVars)
    /\ WF_vars(PumpEnds /\ UNCHANGED blockVars)
    /\ WF_vars(Subscribe /\ UNCHANGED blockVars)
    /\ WF_vars(Deliver /\ UNCHANGED blockVars)
    /\ WF_vars((Establish \/ EstablishFails) /\ UNCHANGED blockVars)
    /\ WF_vars((Attach \/ AttachFails) /\ UNCHANGED blockVars)
    /\ WF_vars(Detach /\ UNCHANGED blockVars)
    /\ WF_vars(QuiesceRevoked /\ Clear)

Spec == Init /\ [][Next]_vars
FairSpec == Spec /\ Fairness
-----------------------------------------------------------------------------
(***************************************************************************)
(* Properties.                                                             *)
(***************************************************************************)
TypeOK == TunnelTypeOK /\ BlockTypeOK /\ scope \in Scope

\* Something will put the latch down, or a device up, or the user is being asked.
OnItsWay ==
    \/ pass = "opening" \/ prompt \/ asked # <<>> \/ calls # {}
    \/ \E i \in DOMAIN bus : bus[i] # Other

\* tun_attempted stops every later pass from asking again, so it is never up without a
\* device that carries packets or something that leads to one: unless a request was lost on
\* the way or a device came late, no failure, consent or revocation leaves routing off.
LatchIsBacked == attempted /\ ~mishap => tun \in pumps \/ OnItsWay

\* Going offline takes the device and every pump with it, of which a phone may have several;
\* only a device that was on its way when the network went is there afterwards.
TunnelGoesWithNetwork == ~live /\ ~mishap => tun = None /\ pumps = {}

\* On an active network whose roster has an address for this device, routing comes up and
\* comes back, whatever was refused, revoked or detached before.
RoutingComesUp ==
    <>[](live /\ address # None /\ ~prompt /\ ~mishap) => []<>(tun \in pumps)

\* While the block is on, a packet comes in only on a flow this device opened since it last
\* connected and sent on not longer ago than the time to live and one late pass.  And a flow
\* this device opened and kept from falling silent is not cut by the block, however late the
\* passes that keep its clock and sweep its table are.
AnswersComeIn ==
    /\ Blocked => \A f \in scope.flows :
                     Admits(f) => f \in ours /\ silence[f] <= FlowTtl + MaxLate
    /\ \A f \in kept : Admits(f)

\* When no client is setting a switch the file has both as they are, so that a restart keeps
\* the block: unless two calls overlapped, or the write failed.
PrefsAreStored == Settled /\ ~unsaved => Loaded = switches

\* detach_tun: "drop the TUN (VPN revoked / stopping) and stop the pump".  While the network is
\* active a device the system still routes to is not pumped once Inner::tun has let go of it.
OnePump == live /\ ~mishap => pumps \intersect {interface} \subseteq {tun}
=============================================================================
