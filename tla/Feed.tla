--------------------------------- MODULE Feed ---------------------------------
(***************************************************************************)
(* How the desktop window learns of its daemon's state and of devices that *)
(* ask to join (ipn-daemon/src/main.rs: handle_conn, subscribe_loop;       *)
(* ipn-gui/src/main.rs: Net::subscribe_loop, stream_events, the receiver   *)
(* loop of build_ui, apply_status, request_card; engine.rs: handle_join up *)
(* to the decision, decide_join, the events the engine sends).             *)
(*                                                                         *)
(* The engine broadcasts events; the session of one connection turns them  *)
(* into messages; the window handles these one by one.  The socket and the *)
(* window's channel are one queue here: the client reads to the end before *)
(* it notices that the connection is gone.  The user may approve, and the  *)
(* rest of what the admin flyout shows does not change.  Telemetry that    *)
(* changes without an event is Drift.                                      *)
(***************************************************************************)
EXTENDS Naturals, Sequences

CONSTANTS
    Device,      \* devices that may ask to join
    None,
    Blank,       \* a placeholder instead of a status
    MaxVersion,  \* bound: changes of the status
    MaxAsks,     \* bound: join requests
    Capacity,    \* events the bus keeps for a slow subscriber (64)
    MaxInbox     \* bound: messages on their way to the window

ASSUME ValueAssumption ==
    /\ None \notin Nat /\ Blank \notin Nat
    /\ None \notin Device /\ \A S \in SUBSET Device : None # S
ASSUME BoundAssumption ==
    MaxVersion \in Nat /\ MaxAsks \in Nat /\ Capacity \in Nat \ {0} /\ MaxInbox \in Nat \ {0}

VARIABLES
    up,         \* the daemon runs
    speaks,     \* its answer to Hello while it does, as the window's build takes it
    version,    \* counts the changes of the status
    joined,     \* the device is in a network
    ticking,    \* and connected to it
    members,    \* devices of Device in the roster
    request,    \* State::pending: the request, by the number of its code
    asks,       \* join requests so far
    session,    \* the daemon's end of the window's connection
    bus,        \* events the session has not received
    stale,      \* pending_status
    window,     \* the window's process runs
    client,     \* the window's end
    showing,    \* the condition subscribe_loop has reported
    inbox,      \* messages on their way to the receiver loop
    page,       \* what the window shows
    shown,      \* the version of the last status it showed
    pending,    \* its list of requests
    cards,      \* the cards of the admin flyout
    drawn,      \* the devices in last_admin_sig
    sent,       \* decisions on their way to the daemon
    heard,      \* history: requests, of no member, that were put on the bus for the window
    masked      \* history: devices whose request of heard, when the window took it, met an
                \* earlier one of theirs on the list or on a card

engine == <<version, joined, ticking, members, request, asks>>
stream == <<session, bus, stale>>
view == <<page, shown, pending, cards, drawn>>
history == <<heard, masked>>
vars == <<up, speaks, engine, stream, window, client, showing, inbox, view, sent, history>>

Nothing == [d \in Device |-> None]
Listed(list) == {d \in Device : list[d] # None}

Changed == [kind |-> "changed", device |-> None, code |-> None]
Lagged == [kind |-> "lagged", device |-> None, code |-> None]
JoinRequest(d, c) == [kind |-> "join", device |-> d, code |-> c]

Status(v, j, m) == [kind |-> IF j THEN "status" ELSE "none", version |-> v, members |-> m]
Snapshot == Status(version, joined, members)
Plain(kind) == [kind |-> kind]

Disconnected(wasLive) == IF wasLive THEN "lost" ELSE "unreachable"

Init ==
    /\ up \in BOOLEAN /\ speaks = "same"
    /\ version = 0 /\ joined \in BOOLEAN /\ ticking = joined
    /\ members = {} /\ request = Nothing /\ asks = 0
    /\ session = "none" /\ bus = <<>> /\ stale = FALSE
    /\ window = FALSE /\ client = "asleep" /\ showing = None /\ inbox = <<>>
    /\ page = "blank" /\ shown = 0
    /\ pending = Nothing /\ cards = Nothing /\ drawn = None
    /\ sent = {}
    /\ heard = Nothing /\ masked = {}
-----------------------------------------------------------------------------
(***************************************************************************)
(* The engine.                                                             *)
(***************************************************************************)
\* A full bus forgets its oldest event, and tells the subscriber so.
Queued(e) ==
    LET whole == IF bus # <<>> /\ Head(bus) = Lagged THEN Tail(bus) ELSE bus
    IN  IF Len(whole) = Capacity THEN <<Lagged>> \o Append(Tail(whole), e) ELSE Append(bus, e)

OnBus(d) == \E i \in DOMAIN bus : bus[i].device = d

\* events.send: only a session that has subscribed gets it.
Emit(e) ==
    /\ bus' = IF session = "live" THEN Queued(e) ELSE bus
    /\ heard' = [d \in Device |->
                    IF e.device = d
                    THEN IF session = "live" /\ d \notin members THEN e.code ELSE None
                    ELSE IF request'[d] = None \/ (OnBus(d) /\ ~OnBus(d)') THEN None
                    ELSE heard[d]]
    /\ masked' = {d \in masked : heard'[d] = heard[d]}

Outside == <<up, speaks, session, stale, window, client, showing, inbox, view>>

Step == version < MaxVersion /\ version' = version + 1

\* Create or join a network, connect, disconnect, leave: activate, soft_disconnect, teardown.
Move(inNetwork, connected) ==
    /\ up /\ Step
    /\ <<inNetwork, connected>> # <<joined, ticking>>
    /\ connected => inNetwork
    /\ joined' = inNetwork /\ ticking' = connected
    /\ members' = IF inNetwork = joined THEN members ELSE {}
    /\ request' = IF connected THEN request ELSE Nothing
    /\ Emit(Changed)
    /\ UNCHANGED <<asks, sent, Outside>>

\* A change that marks the tick dirty: here, a member that is removed, or anything else.
Change(m) ==
    /\ up /\ ticking /\ Step
    /\ m \subseteq members /\ members' = m
    /\ UNCHANGED <<joined, ticking, request, asks, sent, Outside>>
    /\ Emit(Changed)

\* What status() reads live.
Drift ==
    /\ up /\ ticking /\ Step
    /\ UNCHANGED <<joined, ticking, members, request, asks, sent, bus, history, Outside>>

\* Mutant: a tick that has found nothing dirty says nothing.
BeatDirty == up /\ ticking /\ UNCHANGED vars

\* Every tenth tick, half a minute after the one before: the session has had it.
Beat ==
    /\ up /\ ticking
    /\ session = "live" => bus = <<>> /\ ~stale
    /\ UNCHANGED <<engine, sent, Outside>>
    /\ Emit(Changed)

\* handle_join: the device's earlier request, if any, is replaced, whether it is a member or not.
Ask(d) ==
    /\ up /\ ticking /\ asks < MaxAsks
    /\ asks' = asks + 1
    /\ request' = [request EXCEPT ![d] = asks']
    /\ Emit(JoinRequest(d, asks'))
    /\ UNCHANGED <<version, joined, ticking, members, sent, Outside>>

\* decide_join, by the device alone, and what handle_join then does: admit_member may fail.
Decided(d, approve) ==
    /\ request[d] # None /\ Step
    /\ request' = [request EXCEPT ![d] = None]
    /\ members' \in IF approve THEN {members, members \union {d}} ELSE {members}
    /\ Emit(Changed)
    /\ UNCHANGED <<joined, ticking, asks, Outside>>

\* From the window.  Without a request, or a daemon, the answer is an error.
Decide(d, approve) ==
    /\ <<d, approve>> \in sent
    /\ sent' = sent \ {<<d, approve>>}
    /\ IF up /\ request[d] # None
       THEN Decided(d, approve)
       ELSE UNCHANGED <<engine, bus, history, Outside>>

\* From the command line.
DecideElsewhere(d, approve) == up /\ Decided(d, approve) /\ UNCHANGED sent

DaemonStops ==
    /\ up
    /\ up' = FALSE /\ speaks' = "same"
    /\ session' = "none" /\ bus' = <<>> /\ stale' = FALSE
    /\ request' = Nothing /\ heard' = Nothing /\ masked' = {}
    /\ UNCHANGED <<version, joined, ticking, members, asks, window, client, showing,
                   inbox, view, sent>>

\* Perhaps another build of it.
DaemonStarts(build) ==
    /\ ~up
    /\ up' = TRUE /\ speaks' = build
    /\ ticking' = joined
    /\ UNCHANGED <<version, joined, members, request, asks, stream, window, client, showing,
                   inbox, view, sent, history>>
-----------------------------------------------------------------------------
(***************************************************************************)
(* The session: handle_conn and subscribe_loop of the daemon.              *)
(***************************************************************************)
Room == Len(inbox) < MaxInbox
Tell(m) == Room /\ inbox' = Append(inbox, m)

Elsewhere == <<up, speaks, engine, window, client, showing, view, sent, history>>

\* The first status is read and sent before the session subscribes.
Answer ==
    /\ session = "greeted"
    /\ session' = "answered"
    /\ Tell(Snapshot)
    /\ UNCHANGED <<bus, stale, Elsewhere>>

Subscribe ==
    /\ session = "answered"
    /\ session' = "live"
    /\ UNCHANGED <<bus, stale, inbox, Elsewhere>>

\* Mutant: whatever comes in the quiet window only prolongs it.
ForwardCoalescing ==
    /\ session = "live" /\ bus # <<>>
    /\ bus' = Tail(bus)
    /\ IF Head(bus).kind = "join" /\ ~stale
       THEN Tell(Head(bus)) /\ UNCHANGED stale
       ELSE stale' = TRUE /\ UNCHANGED inbox
    /\ UNCHANGED <<session, Elsewhere>>

\* A join request goes out at once; anything else asks for a status.
Forward ==
    /\ session = "live" /\ bus # <<>>
    /\ bus' = Tail(bus)
    /\ IF Head(bus).kind = "join"
       THEN Tell(Head(bus)) /\ UNCHANGED stale
       ELSE stale' = TRUE /\ UNCHANGED inbox
    /\ UNCHANGED <<session, Elsewhere>>

\* STATUS_QUIET_MS without an event.
Flush ==
    /\ session = "live" /\ stale /\ bus = <<>>
    /\ stale' = FALSE
    /\ Tell(Snapshot)
    /\ UNCHANGED <<session, bus, Elsewhere>>
-----------------------------------------------------------------------------
(***************************************************************************)
(* The client: Net::subscribe_loop and stream_events of the window.        *)
(***************************************************************************)
\* Nothing is said twice, unless a session was live since.
Announced(end) == end # "lost" /\ showing = end

\* stream_events has ended this way, and its caller reports it.
Ends(end) ==
    /\ client' = "asleep"
    /\ showing' = end
    /\ IF Announced(end) THEN UNCHANGED inbox
       ELSE Tell(Plain(IF end \in {"lost", "unreachable"} THEN "down" ELSE end))
    /\ UNCHANGED <<up, speaks, engine, window, view, sent, history>>

Connect ==
    /\ window /\ client = "asleep"
    /\ IF up
       THEN /\ client' = "greeting" /\ session' = "open"
            /\ UNCHANGED <<up, speaks, engine, bus, stale, window, showing, inbox, view,
                           sent, history>>
       ELSE Ends(Disconnected(FALSE)) /\ UNCHANGED stream

\* The answer to Hello: another protocol, a newer application, or the client subscribes.
Greeted ==
    /\ client = "greeting" /\ session = "open"
    /\ IF speaks = "same"
       THEN /\ client' = "subscribed" /\ session' = "greeted"
            /\ UNCHANGED <<up, speaks, engine, bus, stale, window, showing, inbox, view,
                           sent, history>>
       ELSE /\ Ends(IF speaks = "other" THEN "mismatch" ELSE "update")
            /\ session' = "none"
            /\ UNCHANGED <<bus, stale>>

\* The connection is gone.
HangUp ==
    /\ client # "asleep" /\ session = "none"
    /\ Ends(Disconnected(client = "subscribed"))
    /\ UNCHANGED stream
-----------------------------------------------------------------------------
(***************************************************************************)
(* The window: the receiver loop of build_ui, and the user.                *)
(***************************************************************************)
\* The end of apply_status: the flyout is drawn anew if its signature has changed.
Draw(list) ==
    IF drawn = Listed(list)
    THEN UNCHANGED <<cards, drawn>>
    ELSE cards' = list /\ drawn' = Listed(list)

Apply(list) ==
    /\ pending' = list
    /\ IF page' = "status" THEN Draw(list) ELSE UNCHANGED <<cards, drawn>>

\* MainPage::reset; the list of requests stays.
Placeholder(p) ==
    /\ page' = p
    /\ drawn' = None
    /\ UNCHANGED <<pending, cards>>

\* A process that starts.
Fresh ==
    /\ client' = "asleep" /\ showing' = None /\ inbox' = <<>>
    /\ page' = "blank" /\ pending' = Nothing /\ cards' = Nothing /\ drawn' = None
    /\ session' = "none" /\ bus' = <<>> /\ stale' = FALSE
    /\ heard' = Nothing /\ masked' = {}

Receives(kind) == window /\ inbox # <<>> /\ Head(inbox).kind = kind

Behind == <<up, engine, window, sent>>
AsideFromPage == <<speaks, stream, client, showing, heard, Behind>>

HandleStatus ==
    /\ Receives("status")
    /\ LET s == Head(inbox)
       IN  /\ page' = "status" /\ shown' = s.version
           /\ Apply([d \in Device |-> IF d \in s.members THEN None ELSE pending[d]])
    /\ inbox' = Tail(inbox)
    /\ UNCHANGED <<masked, AsideFromPage>>

HandleNone ==
    /\ Receives("none")
    /\ Placeholder("none")
    /\ shown' = Head(inbox).version
    /\ inbox' = Tail(inbox)
    /\ UNCHANGED <<masked, AsideFromPage>>

HandleEnd ==
    /\ \E p \in {"down", "mismatch"} : Receives(p) /\ Placeholder(p)
    /\ inbox' = Tail(inbox)
    /\ UNCHANGED <<shown, masked, AsideFromPage>>

\* A device that is on the list stays there as it is: with the code of its earlier request.
Added(d, c) == [pending EXCEPT ![d] = IF @ = None THEN c ELSE @]

\* So does its card, which is drawn anew only when other devices are listed.
Meets(d, c) == pending[d] \notin {None, c} \/ (drawn # None /\ cards[d] \notin {None, c})

HandleJoinRequest ==
    /\ Receives("join")
    /\ UNCHANGED <<page, shown>>
    /\ LET d == Head(inbox).device
           c == Head(inbox).code
       IN  /\ Apply(Added(d, c))
           /\ masked' = IF heard[d] = c /\ Meets(d, c) THEN masked \union {d} ELSE masked \ {d}
    /\ inbox' = Tail(inbox)
    /\ UNCHANGED AsideFromPage

HandleRefresh ==
    /\ Receives("refresh")
    /\ UNCHANGED <<page, shown, masked>>
    /\ Apply(pending)
    /\ inbox' = Tail(inbox)
    /\ UNCHANGED AsideFromPage

\* The timer that keeps "last seen" current.
TimedRefresh ==
    /\ window
    /\ UNCHANGED <<page, shown, masked>>
    /\ Apply(pending)
    /\ UNCHANGED <<inbox, AsideFromPage>>

\* restart_self: the new process is of the daemon's build.
HandleUpdate ==
    /\ Receives("update")
    /\ Fresh
    /\ speaks' = IF speaks = "newer" THEN "same" ELSE speaks
    /\ UNCHANGED <<shown, Behind>>

\* Approve or Deny on a card; bound: one decision under way at a time.
Click(d, approve) ==
    /\ window /\ page = "status" /\ cards[d] # None /\ Room /\ sent = {}
    /\ pending' = [pending EXCEPT ![d] = None]
    /\ sent' = sent \union {<<d, approve>>}
    /\ inbox' = Append(inbox, Plain("refresh"))
    /\ UNCHANGED <<up, speaks, engine, stream, window, client, showing, page, shown, cards,
                   drawn, history>>

OpenWindow ==
    /\ ~window
    /\ window' = TRUE
    /\ Fresh
    /\ UNCHANGED <<up, speaks, engine, shown, sent>>

CloseWindow ==
    /\ window
    /\ window' = FALSE
    /\ Fresh
    /\ UNCHANGED <<up, speaks, engine, shown, sent>>
-----------------------------------------------------------------------------
Network ==
    \/ \E j, t \in BOOLEAN : Move(j, t)
    \/ \E m \in SUBSET members : Change(m)
    \/ Drift
    \/ \E d \in Device : Ask(d)
    \/ \E d \in Device, a \in BOOLEAN : DecideElsewhere(d, a)

Daemon == DaemonStops \/ \E b \in {"same", "other", "newer"} : DaemonStarts(b)

Session == Answer \/ Subscribe \/ Forward \/ Flush
Client == Connect \/ Greeted \/ HangUp
Handle ==
    HandleStatus \/ HandleNone \/ HandleEnd \/ HandleJoinRequest \/ HandleRefresh \/ HandleUpdate

User == OpenWindow \/ CloseWindow \/ TimedRefresh \/ \E d \in Device, a \in BOOLEAN : Click(d, a)
Request == \E d \in Device, a \in BOOLEAN : Decide(d, a)

Next == Network \/ Daemon \/ Beat \/ Session \/ Client \/ Handle \/ User \/ Request

(***************************************************************************)
(* Fairness.  Tasks are polled, the main loop of the window runs, and the  *)
(* daemon ticks while it is connected.  The quiet window ends, as what     *)
(* makes it start again is bounded here or, as the beats, half a minute    *)
(* apart.                                                                  *)
(***************************************************************************)
Fairness == WF_vars(Beat) /\ WF_vars(Session) /\ WF_vars(Client) /\ WF_vars(Handle)

Spec == Init /\ [][Next]_vars
FairSpec == Spec /\ Fairness
-----------------------------------------------------------------------------
Code == 1 .. MaxAsks

EngineTypeOK ==
    /\ version \in 0 .. MaxVersion
    /\ joined \in BOOLEAN /\ ticking \in BOOLEAN /\ (ticking => joined)
    /\ members \subseteq Device /\ asks \in 0 .. MaxAsks
    /\ request \in [Device -> Code \union {None}]

LinkTypeOK ==
    /\ up \in BOOLEAN /\ speaks \in {"same", "other", "newer"}
    /\ session \in {"none", "open", "greeted", "answered", "live"}
    /\ session # "none" => up /\ window
    /\ Len(bus) <= Capacity + 1 /\ stale \in BOOLEAN
    /\ window \in BOOLEAN /\ client \in {"asleep", "greeting", "subscribed"}
    /\ showing \in {None, "lost", "unreachable", "mismatch", "update"}
    /\ Len(inbox) <= MaxInbox

ViewTypeOK ==
    /\ page \in {"blank", "status", "none", "down", "mismatch"}
    /\ shown \in 0 .. version
    /\ {pending, cards} \subseteq [Device -> Code \union {None}]
    /\ drawn \in (SUBSET Device) \union {None}

TypeOK ==
    /\ EngineTypeOK /\ LinkTypeOK /\ ViewTypeOK
    /\ sent \subseteq Device \X BOOLEAN
    /\ heard \in [Device -> Code \union {None}] /\ masked \subseteq Device

\* The page follows the daemon's status: never back, to the latest while the device is
\* connected, and to a placeholder when the daemon is gone or speaks another protocol.
Page == INSTANCE StatusFeed WITH
    shown <- IF page \in {"status", "none"} THEN shown ELSE Blank,
    last <- shown,
    reachable <- window /\ up /\ speaks = "same",
    beating <- ticking

PageFollows == Page!Spec

\* Nothing is on its way to or from the window, which shows the network.
AtRest ==
    /\ window /\ page = "status"
    /\ session = "live" /\ bus = <<>> /\ ~stale /\ inbox = <<>> /\ sent = {}

\* A request the window was told of stays on its list, and on a card, with the code by which the
\* two people recognise it, until it is decided: unless it came from a device that the roster
\* still had as a member.  A request that met an earlier one of its device is the exception: its
\* device is listed, with the code of the earlier one.
HeardIsListed ==
    AtRest => \A d \in Device :
        request[d] # None /\ heard[d] = request[d] =>
            /\ pending[d] # None /\ cards[d] # None
            /\ d \in masked \/ {pending[d], cards[d]} = {request[d]}
=============================================================================
