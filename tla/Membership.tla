------------------------------ MODULE Membership ------------------------------
(***************************************************************************)
(* Joining, administering and leaving a network (ipn-core/src/engine.rs).  *)
(*                                                                         *)
(* Every device of a network holds a replica of one document of signed     *)
(* entries, and every device folds its own replica into the roster it acts *)
(* on (State::roster, "view" here) once per maintenance tick.  So three    *)
(* things drift apart: what has been published, what a device has          *)
(* received, and what it last folded; and an operation decides on the view *)
(* while the joiner's confirmation reads the replica.  A tick awaits in    *)
(* between, so the network may go, and come back, under it.                *)
(*                                                                         *)
(* An entry is stamped with its publisher's clock.  Clocks advance with    *)
(* every entry published anywhere, and a device's clock may be off by      *)
(* Skew.  A nonce is named by the stamp of the SetInvite that mints it.    *)
(* One network is modelled: creating and joining are those of that network.*)
(***************************************************************************)
EXTENDS RosterBuild, Sequences

CONSTANTS
    Master,      \* the device that creates the network, holding the master key
    Deputies,    \* Controllers the master admits before the model starts
    RecoveryHolders, \* devices whose user has the exported master key
    Roaming,     \* bound: devices that go offline, leave or restart
    Skew,        \* how far each device's clock is ahead
    MaxEntries   \* bound: entries published in all

ASSUME PlayersAssumption ==
    /\ Master \in Node
    /\ Deputies \in Seq(Node \ {Master})
    /\ RecoveryHolders \subseteq Node
    /\ Roaming \subseteq Node
ASSUME SkewAssumption ==
    /\ Skew \in [Node -> Nat]
    /\ \A m, n \in Node : (Skew[m] - Skew[n]) % 2 = 0 => Skew[m] = Skew[n]

VARIABLES
    log,       \* every entry ever published
    replica,   \* the entries each device's document holds; kept on disk
    view,      \* State::roster, the last fold
    open,      \* devices with an active network (doc and config are Some)
    latched,   \* Inner::was_member
    masters,   \* devices whose config holds the originator secret
    pending,   \* State::pending: join requests awaiting a decision
    asking,    \* <<j, d>>: j's join_network awaits the answer of d
    polling,   \* approved joiners polling for their own admission
    tick,      \* the maintenance loop: where its tick is, and what it has folded
    \* History, for the properties only:
    sighting,  \* the entries in which d last saw itself, since it went up
    cut,       \* devices whose network went down under the tick now running
    overtaken  \* devices latched by such a tick

tickHistory == <<sighting, cut, overtaken>>
memberVars == <<log, replica, view, open, latched, masters, pending, asking, polling,
                tick, tickHistory>>
-----------------------------------------------------------------------------
\* now_ms() on device d for the i-th entry of the network; no two are equal.
Stamp(d, i) == 2 * i + Skew[d]
Now(d) == Stamp(d, Cardinality(log) + 1)

AddOf(key, n, role, host, nonce, ts) ==
    [op |-> "Add", signer |-> key, node |-> n, role |-> role,
     host |-> host, nonce |-> nonce, ts |-> ts]
RemoveOf(key, n, ts) == [op |-> "Remove", signer |-> key, node |-> n, ts |-> ts]
InviteOf(key, kind, single, ts) ==
    [op |-> "SetInvite", signer |-> key, kind |-> kind, nonce |-> ts,
     single |-> single, ts |-> ts]

ZeroNonce == 0

\* What create_network publishes, the Controller tickets the master has shown, and the
\* deputies it has admitted by them.
Genesis == AddOf(Originator, Master, "controller", FirstHost, ZeroNonce, Stamp(Master, 1))
FirstInvite == InviteOf(Originator, "peer", FALSE, Stamp(Master, 2))
ShownTicket(i) == InviteOf(Originator, "controller", TRUE, Stamp(Master, 2 * i + 1))
Appointment(i) ==
    AddOf(Master, Deputies[i], "controller", FirstHost + i,
          Stamp(Master, 2 * i + 1), Stamp(Master, 2 * i + 2))

Founding ==
    {Genesis, FirstInvite}
    \union {ShownTicket(i) : i \in 1 .. Len(Deputies) + 1}
    \union {Appointment(i) : i \in DOMAIN Deputies}

ASSUME FoundingAssumption ==
    /\ MaxEntries \in Nat /\ 2 * Len(Deputies) + 3 <= MaxEntries
    /\ \A i \in DOMAIN Deputies : FirstHost + i \in Host
ASSUME StampAssumption ==
    /\ ZeroNonce \in Nonce
    /\ \A d \in Node, i \in 1 .. MaxEntries : Stamp(d, i) \in Time \intersect Nonce

Founders == {Master} \union {Deputies[i] : i \in DOMAIN Deputies}

NoTick == [at |-> "idle", entries |-> {}]

MembershipInit ==
    /\ log = Founding
    /\ replica = [d \in Node |-> IF d \in Founders THEN Founding ELSE {}]
    /\ view = [d \in Node |-> IF d \in Founders THEN Build(Founding) ELSE EmptyRoster]
    /\ open = Founders
    /\ latched = Founders
    /\ masters = {Master}
    /\ pending = {}
    /\ asking = {}
    /\ polling = {}
    /\ tick = [d \in Node |-> NoTick]
    /\ sighting = [d \in Node |-> IF d \in Founders THEN Founding ELSE {}]
    /\ cut = {}
    /\ overtaken = {}
-----------------------------------------------------------------------------
(***************************************************************************)
(* Publishing.                                                             *)
(***************************************************************************)
Publish(d, e) ==
    /\ d \in open
    /\ Cardinality(log) < MaxEntries
    /\ log' = log \union {e}
    /\ replica' = [replica EXCEPT ![d] = @ \union {e}]

CanAdmin(d) == d \in masters \/ view[d].role[d] = "controller"

\* Mutant: a device signs with its own key, imported master key or not.
AdminKeyOwn(d) == d

\* admin_signer
AdminKey(d) == IF d \in masters THEN Originator ELSE d

joinState == <<pending, asking, polling>>
loopState == <<tick, tickHistory>>
localState == <<view, open, latched, masters>>

RemoveMember(d, n) ==
    /\ CanAdmin(d)
    /\ Publish(d, RemoveOf(AdminKey(d), n, Now(d)))
    /\ UNCHANGED <<localState, joinState, loopState>>

RegeneratePeerInvite(d, single) ==
    /\ CanAdmin(d)
    /\ Publish(d, InviteOf(AdminKey(d), "peer", single, Now(d)))
    /\ UNCHANGED <<localState, joinState, loopState>>

ControllerTicket(d) ==
    /\ d \in masters
    /\ Publish(d, InviteOf(Originator, "controller", TRUE, Now(d)))
    /\ UNCHANGED <<localState, joinState, loopState>>

SetMemberRole(d, n, role) ==
    /\ d \in masters
    /\ Publish(d, [op |-> "SetRole", signer |-> Originator, node |-> n,
                   role |-> role, ts |-> Now(d)])
    /\ UNCHANGED <<localState, joinState, loopState>>

SetFrozen(d, frozen) ==
    /\ d \in masters
    /\ Publish(d, [op |-> "Freeze", signer |-> Originator, frozen |-> frozen,
                   ts |-> Now(d)])
    /\ UNCHANGED <<localState, joinState, loopState>>

\* set_network_name asks nothing of its caller, and signs with the device's own key.
SetNetworkName(d, name) ==
    /\ Publish(d, [op |-> "SetName", signer |-> d, name |-> name, ts |-> Now(d)])
    /\ UNCHANGED <<localState, joinState, loopState>>

ImportOriginatorKey(d) ==
    /\ d \in open \intersect RecoveryHolders
    /\ masters' = masters \union {d}
    /\ UNCHANGED <<log, replica, view, open, latched, joinState, loopState>>
-----------------------------------------------------------------------------
(***************************************************************************)
(* The document: entries reach a device from another that has them, later  *)
(* ones in any order; what the network was founded with comes in one sync. *)
(***************************************************************************)
Arrive(d, e) ==
    /\ d \in open
    /\ e \notin replica[d]
    /\ \E s \in open \ {d} :
          /\ e \in replica[s]
          /\ replica' = [replica EXCEPT ![d] = @ \union {e} \union (Founding \intersect replica[s])]
    /\ UNCHANGED <<log, localState, joinState, loopState>>

\* Mutant: going offline keeps the latch.
DisconnectLatched(d) ==
    /\ view' = [view EXCEPT ![d] = EmptyRoster]
    /\ pending' = {p \in pending : p.at # d}
    /\ asking' = {a \in asking : a[2] # d}
    /\ sighting' = [sighting EXCEPT ![d] = {}]
    /\ overtaken' = overtaken \ {d}
    /\ UNCHANGED latched

\* soft_disconnect: the live state of d goes, and those who wait for d's answer
\* are told no.
Disconnect(d) ==
    /\ view' = [view EXCEPT ![d] = EmptyRoster]
    /\ latched' = latched \ {d}
    /\ pending' = {p \in pending : p.at # d}
    /\ asking' = {a \in asking : a[2] # d}
    /\ sighting' = [sighting EXCEPT ![d] = {}]
    /\ overtaken' = overtaken \ {d}

Teardown(d) ==
    /\ Disconnect(d)
    /\ open' = open \ {d}
    /\ masters' = masters \ {d}

\* A tick under way does not notice that the network goes.
UnderTick(d) ==
    /\ cut' = IF tick[d].at = "idle" THEN cut ELSE cut \union {d}
    /\ UNCHANGED tick

TickEnds(d) ==
    /\ tick' = [tick EXCEPT ![d] = NoTick]
    /\ cut' = cut \ {d}

LeaveNetwork(d) ==
    /\ d \in open \intersect Roaming
    /\ Teardown(d)
    /\ UnderTick(d)
    /\ UNCHANGED <<log, replica, polling>>

\* The user goes offline and back, or the node is rebuilt: the network is activated
\* again from the kept config.
Reconnect(d) ==
    /\ d \in open \intersect Roaming
    /\ Disconnect(d)
    /\ UnderTick(d)
    /\ UNCHANGED <<log, replica, open, masters, polling>>

\* The daemon dies and starts again: its tick and a running join call die with it.
Restart(d) ==
    /\ d \in open \intersect Roaming
    /\ Disconnect(d)
    /\ TickEnds(d)
    /\ polling' = polling \ {d}
    /\ UNCHANGED <<log, replica, open, masters>>
-----------------------------------------------------------------------------
(***************************************************************************)
(* The roster part of tick, from one await to the next.  There is one tick *)
(* at a time.  After the first stage the network may be gone, and back.    *)
(* A tick that finds nothing changed takes the stored roster, which is     *)
(* that of an earlier fold.                                                *)
(***************************************************************************)
tickKeeps == <<log, replica, open, masters, joinState>>

\* The doc and the config are cloned.
TickBegin(d) ==
    /\ d \in open /\ tick[d].at = "idle"
    /\ tick' = [tick EXCEPT ![d].at = "begun"]
    /\ UNCHANGED <<tickKeeps, view, latched, tickHistory>>

\* build_roster has read the document.
TickFold(d) ==
    /\ tick[d].at = "begun"
    /\ tick' = [tick EXCEPT ![d] = [at |-> "folded", entries |-> replica[d]]]
    /\ UNCHANGED <<tickKeeps, view, latched, tickHistory>>

\* The roster the tick of d goes by.
Folded(d) == Build(tick[d].entries)

\* Membership is latched ...
TickLatch(d) ==
    /\ tick[d].at = "folded" /\ IsMember(Folded(d), d)
    /\ latched' = latched \union {d}
    /\ IF d \in cut
       THEN overtaken' = overtaken \union {d} /\ UNCHANGED sighting
       ELSE /\ sighting' = [sighting EXCEPT ![d] = tick[d].entries]
            /\ overtaken' = overtaken \ {d}
    /\ tick' = [tick EXCEPT ![d].at = "passed"]
    /\ UNCHANGED <<tickKeeps, view, cut>>

\* ... or was never seen ...
TickOutside(d) ==
    /\ tick[d].at = "folded" /\ d \notin latched /\ ~IsMember(Folded(d), d)
    /\ tick' = [tick EXCEPT ![d].at = "passed"]
    /\ UNCHANGED <<tickKeeps, view, latched, tickHistory>>

\* ... or, once seen, is gone: d leaves.
Evicting(d) == tick[d].at = "folded" /\ d \in latched /\ ~IsMember(Folded(d), d)

SelfEvict(d) ==
    /\ Evicting(d)
    /\ Teardown(d)
    /\ TickEnds(d)
    /\ UNCHANGED <<log, replica, polling>>

\* The roster is stored, whatever has become of the network.
TickStore(d) ==
    /\ tick[d].at = "passed"
    /\ view' = [view EXCEPT ![d] = Folded(d)]
    /\ TickEnds(d)
    /\ UNCHANGED <<tickKeeps, latched, sighting, overtaken>>

Tick(d) ==
    \/ TickBegin(d)
    \/ TickFold(d)
    \/ TickLatch(d)
    \/ TickOutside(d)
    \/ SelfEvict(d)
    \/ TickStore(d)
-----------------------------------------------------------------------------
(***************************************************************************)
(* Joining.                                                                *)
(***************************************************************************)
Joining(j) == j \in polling \/ \E d \in Node : <<j, d>> \in asking

\* join_network with a ticket minted from the SetInvite entry "inv", dialled at d,
\* up to the request waiting at d.  A second request replaces the first.  A
\* request check_invite refuses leaves no trace.
Ask(j, d, inv) ==
    /\ j \notin open /\ ~Joining(j)
    /\ d \in open
    /\ inv.op = "SetInvite"
    /\ CheckInvite(view[d], inv.kind, inv.nonce) = "ok"
    /\ pending' = {p \in pending : p.at # d \/ p.from # j}
                  \union {[at |-> d, from |-> j, kind |-> inv.kind, nonce |-> inv.nonce]}
    /\ asking' = asking \union {<<j, d>>}
    /\ UNCHANGED <<log, replica, localState, polling, loopState>>

\* The client of the join call hangs up, which drops the call where it stands.
Cancel(j) ==
    /\ Joining(j)
    /\ asking' = {a \in asking : a[1] # j}
    /\ polling' = polling \ {j}
    /\ UNCHANGED <<log, replica, localState, pending, loopState>>

Answered(p) == asking' = asking \ {<<p.from, p.at>>}

\* decide_join(true) and admit_member.  The view is read now, the invite is not
\* checked again, and the joiner may be gone: the Add is published all the same.
Approve(p) ==
    LET d == p.at
        j == p.from
    IN  /\ p \in pending
        /\ ~view[d].frozen /\ CanAdmin(d)
        /\ Publish(d, AddOf(d, j, p.kind, LowestFreeHost(view[d]), p.nonce, Now(d)))
        /\ pending' = pending \ {p}
        /\ Answered(p)
        /\ LET admitted == {j} \intersect {a[1] : a \in asking \intersect {<<j, d>>}}
           IN  /\ polling' = polling \union admitted
               /\ open' = open \union admitted
        /\ UNCHANGED <<view, latched, masters, loopState>>

\* Denied, or approved by a device that may not admit now.
Refuse(p) ==
    /\ p \in pending
    /\ pending' = pending \ {p}
    /\ Answered(p)
    /\ UNCHANGED <<log, replica, localState, polling, loopState>>

\* The approved joiner finds itself in its document.  The poll does not latch.
PollConfirm(j) ==
    /\ j \in polling /\ j \in open
    /\ IsMember(Build(replica[j]), j)
    /\ polling' = polling \ {j}
    /\ UNCHANGED <<log, replica, localState, pending, asking, loopState>>

\* Thirty polls without a membership.
PollGiveUp(j) ==
    /\ j \in polling
    /\ Teardown(j)
    /\ UnderTick(j)
    /\ polling' = polling \ {j}
    /\ UNCHANGED <<log, replica>>
-----------------------------------------------------------------------------
Administer(d) ==
    \/ \E n \in Node : RemoveMember(d, n)
    \/ \E single \in BOOLEAN : RegeneratePeerInvite(d, single)
    \/ ControllerTicket(d)
    \/ \E n \in Node, role \in Role : SetMemberRole(d, n, role)
    \/ \E frozen \in BOOLEAN : SetFrozen(d, frozen)
    \/ \E name \in Label : SetNetworkName(d, name)
    \/ ImportOriginatorKey(d)

Join(j) ==
    \/ \E d \in Node, inv \in log : Ask(j, d, inv)
    \/ Cancel(j)
    \/ PollConfirm(j)
    \/ PollGiveUp(j)

MembershipNext ==
    \/ \E d \in Node : Administer(d)
    \/ \E d \in Node, e \in log : Arrive(d, e)
    \/ \E d \in Node : Tick(d)
    \/ \E d \in Node : LeaveNetwork(d)
    \/ \E d \in Node : Reconnect(d)
    \/ \E d \in Node : Restart(d)
    \/ \E j \in Node : Join(j)
    \/ \E p \in pending : Approve(p)
    \/ \E p \in pending : Refuse(p)

MembershipSpec == MembershipInit /\ [][MembershipNext]_memberVars
-----------------------------------------------------------------------------
Request == [at : Node, from : Node, kind : Role, nonce : Nonce]

\* Every device holds only published entries, and each part of the state is in its
\* type.
MembershipTypeOK ==
    /\ log \subseteq Entry /\ IsFiniteSet(log) /\ Cardinality(log) <= MaxEntries
    /\ replica \in [Node -> SUBSET log]
    /\ view \in [Node -> Roster]
    /\ open \subseteq Node /\ latched \subseteq Node /\ masters \subseteq open
    /\ pending \subseteq Request
    /\ asking \subseteq Node \X Node
    /\ polling \subseteq Node
    /\ tick \in [Node -> [at : {"idle", "begun", "folded", "passed"}, entries : SUBSET log]]
    /\ sighting \in [Node -> SUBSET log]
    /\ cut \subseteq Node /\ overtaken \subseteq Node

\* What the tick of d has read undoes the membership d last saw: a removal of d came
\* in since, or an entry that sorts before one d had then.
Dismissed(d) ==
    LET seen == sighting[d]
    IN  /\ seen # {}
        /\ \E e \in tick[d].entries \ seen :
              \/ e.op = "Remove" /\ e.node = d
              \/ \E f \in seen : e.ts <= f.ts

\* "Once we've appeared in the roster, dropping out of it means we were removed"
\* (tick).  A device about to leave by itself has seen itself since its network last
\* went up, and was dismissed since.  The exception: it was latched by a tick under
\* which the network went down, and whose latch outlived that.
EvictionIsEarned == \A d \in Node : Evicting(d) => d \in overtaken \/ Dismissed(d)

\* What the fold of everything comes to where it meets e.
Before(e) == Build({f \in log : f.ts < e.ts})

\* The exceptions: an approval whose invite was replaced or spent while the request
\* waited, or one by a holder of the master key, whose Add the fold refuses; a
\* Controller removing another; a change of role of no member; a new name from
\* whoever is not a Controller, the holder of the master key included.
Excepted(d, e) ==
    \/ /\ e.op = "Add"
       /\ d \in masters \/ CheckInvite(view[d], e.role, e.nonce) # "ok"
    \/ e.op \in {"Remove", "SetRole"} /\ view[d].role[e.node] # "peer"
    \/ e.op = "SetName" /\ view[d].role[d] # "controller"

\* The engine's own gates (admin_signer, originator_key, the checks of admit_member)
\* and the fold's rules are separate code.  What a device publishes whose view is
\* that of all earlier entries is not thrown away by the fold.
GatesAgreeWithFold ==
    [][\A e \in log' \ log, d \in Node :
          e \in replica'[d] /\ ~Excepted(d, e) /\ view[d] = Before(e)
              => EntryAllowed(view[d], e)]_memberVars
=============================================================================
