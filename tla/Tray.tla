---------------------------------- MODULE Tray ----------------------------------
(***************************************************************************)
(* What the tray agent tells the user (ipn-gui/src/agent.rs, notify.rs,     *)
(* actions.rs, tray.rs): which devices came online, from the snapshots of   *)
(* the daemon's status it receives, and a menu with the devices that have   *)
(* an action.  The actions are in a file the window's process writes and    *)
(* the agent looks at once a second.  Time passes in units of the throttle. *)
(***************************************************************************)
EXTENDS Naturals, Sequences, FiniteSets, SequencesExt

CONSTANTS
    Peer,      \* the other devices
    Name,      \* the name each is shown under
    NoStatus,
    Torn,      \* a file of actions that does not parse
    Debounce,  \* online_notify_debounce
    Throttle,  \* how long the same title is not shown again
    MaxEdits,  \* bound: edits of the actions
    MaxChurn   \* bound: peers that come to the network or leave it, and sessions that end

ASSUME TrayAssumptions ==
    /\ Debounce \in Nat \ {0} /\ Throttle \in Nat \ {0} /\ {MaxEdits, MaxChurn} \subseteq Nat
    /\ DOMAIN Name = Peer

Title == {Name[p] : p \in Peer}
NoStamp == Debounce + 1

VARIABLES
    \* The daemon's status
    members, online,
    \* The agent: "off", "loading" up to its first look at the file's time, "running"
    agent,
    last,       \* state: the last snapshot of the session
    since,      \* offline_since: how long ago, up to the debounce
    throttled,  \* notify's LAST: how long ago each title was shown, up to the throttle
    toast,      \* the titles shown in this step
    \* The actions, reduced to the devices that have one
    mine,       \* in the window's process
    saving,     \* is it writing them?
    file,       \* actions.json
    changed,    \* is its time another than the agent has seen?
    actions,    \* in the agent
    pushed,     \* push_items' last
    items,      \* lists on the way to the tray's backend
    coalesces,  \* does the backend take the newest list only?
    menu,       \* the devices in the menu
    \* History
    quiet,      \* for how long no snapshot has had the peer online
    dark,       \* how long ago this agent first heard that it is offline
    missed,     \* a write the agent could not notice
    edits, churn

daemonVars == <<members, online>>
toastVars == <<last, since, throttled, quiet, dark>>
fileVars == <<mine, saving, file>>
menuVars == <<pushed, items, menu>>
trayVars == <<daemonVars, agent, toastVars, toast, fileVars, changed, actions, menuVars,
              coalesces, missed, edits, churn>>

Snapshot == [members |-> members, online |-> online]

InitTray ==
    /\ members = Peer /\ online \in SUBSET Peer
    /\ agent = "off" /\ last = NoStatus
    /\ since = [p \in Peer |-> NoStamp] /\ throttled = [t \in Title |-> Throttle]
    /\ toast = {}
    /\ mine = {} /\ saving = FALSE /\ file = {}
    /\ changed = FALSE /\ actions = {} /\ pushed = {} /\ items = <<>> /\ menu = {}
    /\ coalesces \in BOOLEAN
    /\ quiet = [p \in Peer |-> Debounce] /\ dark = [p \in Peer |-> 0]
    /\ missed = FALSE /\ edits = 0 /\ churn = 0

\* tray_items, and push_items, which sends them when they are not what was sent last.
Listed(status, acts) == IF status = NoStatus THEN {} ELSE status.members \intersect acts
Push(wanted) ==
    IF wanted = pushed THEN UNCHANGED <<pushed, items>>
    ELSE pushed' = wanted /\ items' = Append(items, wanted)
-----------------------------------------------------------------------------
(***************************************************************************)
(* Notifications.                                                          *)
(***************************************************************************)
\* online_transition_notifies: there is a baseline in which the peer was not online, and it
\* has been away for the debounce or was never seen offline.
Returned(p) ==
    /\ p \in online /\ last # NoStatus
    /\ p \notin last.online
    /\ since[p] >= Debounce

\* Mutant: every snapshot sets the stamp, as with insert in place of or_insert.
StampAnew(p) == IF p \notin members \ online THEN NoStamp ELSE 0

\* The earliest stamp is kept, that of a peer which is online or gone forgotten.
Stamp(p) ==
    IF p \notin members \ online THEN NoStamp
    ELSE IF since[p] = NoStamp THEN 0 ELSE since[p]

\* notify: titles shown within the throttle are not shown again.
Shown == {t \in {Name[p] : p \in {q \in Peer : Returned(q)}} : throttled[t] >= Throttle}

\* AgentMsg::Status(Some): notify_newly_online, the new baseline, the new menu.
Receive ==
    /\ agent = "running" /\ last # Snapshot
    /\ toast' = Shown
    /\ throttled' = [t \in Title |-> IF t \in Shown THEN 0 ELSE throttled[t]]
    /\ since' = [p \in Peer |-> Stamp(p)]
    /\ last' = Snapshot
    /\ Push(Listed(Snapshot, actions))
    /\ quiet' = [p \in Peer |->
                    IF p \notin members THEN Debounce ELSE IF p \in online THEN 0 ELSE quiet[p]]
    /\ dark' = [p \in Peer |->
                   IF p \in members \ online /\ since[p] # NoStamp THEN dark[p] ELSE 0]
    /\ UNCHANGED <<daemonVars, agent, fileVars, changed, actions, menu, coalesces, missed,
                   edits, churn>>

\* AgentMsg::DaemonDown or Status(None): no baseline.  The stamps stay.
SessionEnds ==
    /\ agent = "running" /\ last # NoStatus
    /\ last' = NoStatus /\ toast' = {}
    /\ churn' = IF churn < MaxChurn THEN churn + 1 ELSE churn
    /\ Push({})
    /\ UNCHANGED <<daemonVars, agent, since, throttled, quiet, dark, fileVars, changed,
                   actions, menu, coalesces, missed, edits>>

\* Instants grow old.
TimePasses ==
    /\ LET Older(f, top, S) == [x \in DOMAIN f |-> IF x \in S /\ f[x] < top THEN f[x] + 1 ELSE f[x]]
       IN /\ since' = Older(since, Debounce, Peer)
          /\ quiet' = Older(quiet, Debounce, {p \in Peer : last = NoStatus \/ p \notin last.online})
          /\ dark' = Older(dark, Debounce, Peer)
          /\ throttled' = Older(throttled, Throttle, Title)
    /\ toast' = {}
    /\ UNCHANGED <<daemonVars, agent, last, fileVars, changed, actions, menuVars, coalesces,
                   missed, edits, churn>>

\* The daemon's view of a peer changes.
PeerMoves(p) ==
    /\ p \in members
    /\ online' = IF p \in online THEN online \ {p} ELSE online \union {p}
    /\ toast' = {}
    /\ UNCHANGED <<members, agent, toastVars, fileVars, changed, actions, menuVars, coalesces,
                   missed, edits, churn>>

\* A peer is removed, or joins.
MemberMoves(p) ==
    /\ churn < MaxChurn /\ churn' = churn + 1
    /\ members' = IF p \in members THEN members \ {p} ELSE members \union {p}
    /\ online' = online \ {p}
    /\ toast' = {}
    /\ UNCHANGED <<agent, toastVars, fileVars, changed, actions, menuVars, coalesces, missed,
                   edits>>
-----------------------------------------------------------------------------
(***************************************************************************)
(* The actions and the menu.                                               *)
(***************************************************************************)
Parsed == IF file = Torn THEN {} ELSE file

\* build_agent reads the actions first ...
AgentStarts ==
    /\ agent = "off"
    /\ agent' = "loading" /\ actions' = Parsed /\ changed' = FALSE
    /\ toast' = {}
    /\ UNCHANGED <<daemonVars, toastVars, fileVars, menuVars, coalesces, missed, edits, churn>>

\* ... and the file's time when the tray is there: a write in between goes unnoticed.
AgentArms ==
    /\ agent = "loading"
    /\ agent' = "running"
    /\ missed' = (missed \/ changed) /\ changed' = FALSE
    /\ toast' = {}
    /\ UNCHANGED <<daemonVars, toastVars, fileVars, actions, menuVars, coalesces, edits, churn>>

\* Mutant: the actions are read anew, the menu is not sent.
PollSilently ==
    /\ agent = "running" /\ changed
    /\ changed' = FALSE /\ actions' = Parsed
    /\ toast' = {}
    /\ UNCHANGED <<daemonVars, agent, toastVars, fileVars, menuVars, coalesces, missed, edits, churn>>

\* The poll: the time has changed.
Poll ==
    /\ agent = "running" /\ changed
    /\ changed' = FALSE /\ actions' = Parsed
    /\ toast' = {}
    /\ Push(Listed(last, Parsed))
    /\ UNCHANGED <<daemonVars, agent, toastVars, fileVars, menu, coalesces, missed, edits, churn>>

\* The editor's Save and Remove: the window's own copy first, then the file, which fs::write
\* makes empty before it fills it.
SaveAction(p) ==
    /\ ~saving /\ edits < MaxEdits /\ edits' = edits + 1
    /\ mine' = IF p \in mine THEN mine \ {p} ELSE mine \union {p}
    /\ saving' = TRUE
    /\ file' = Torn /\ changed' = TRUE
    /\ toast' = {}
    /\ UNCHANGED <<daemonVars, agent, toastVars, actions, menuVars, coalesces, missed, churn>>

\* The time has milliseconds: a poll that falls into the one in which the write both begins
\* and ends has seen the last of it.
Saved ==
    /\ saving /\ saving' = FALSE
    /\ file' = mine
    /\ \/ changed' = TRUE /\ UNCHANGED missed
       \/ changed' = changed /\ missed' = (missed \/ ~changed)
    /\ toast' = {}
    /\ UNCHANGED <<daemonVars, agent, toastVars, mine, actions, menuVars, coalesces, edits, churn>>

\* It cannot be opened, or not written: a toast, the window's copy, and the file as it is.
SaveRefused(p) ==
    /\ ~saving /\ edits < MaxEdits /\ edits' = edits + 1
    /\ mine' = IF p \in mine THEN mine \ {p} ELSE mine \union {p}
    /\ toast' = {}
    /\ UNCHANGED <<daemonVars, agent, toastVars, saving, file, changed, actions, menuVars,
                   coalesces, missed, churn>>

SaveFails ==
    /\ saving /\ saving' = FALSE
    /\ toast' = {}
    /\ UNCHANGED <<daemonVars, agent, toastVars, mine, file, changed, actions, menuVars,
                   coalesces, missed, edits, churn>>

\* Another window, after the last one was closed or died.
EditorStarts ==
    /\ mine' = Parsed /\ saving' = FALSE
    /\ toast' = {}
    /\ UNCHANGED <<daemonVars, agent, toastVars, file, changed, actions, menuVars, coalesces,
                   missed, edits, churn>>

MenuBecomes(list) ==
    /\ items # <<>>
    /\ menu' = list
    /\ toast' = {}
    /\ UNCHANGED <<daemonVars, agent, toastVars, fileVars, changed, actions, pushed, coalesces,
                   missed, edits, churn>>

\* The backend of Linux: one list after the other.
ShowNext == ~coalesces /\ MenuBecomes(Head(items)) /\ items' = Tail(items)

\* That of Windows and macOS: what is newest, every 250 ms.
ShowNewest == coalesces /\ MenuBecomes(Last(items)) /\ items' = <<>>

\* The process ends, and the menu with it.
AgentEnds ==
    /\ agent # "off"
    /\ agent' = "off" /\ last' = NoStatus
    /\ since' = [p \in Peer |-> NoStamp] /\ throttled' = [t \in Title |-> Throttle]
    /\ dark' = [p \in Peer |-> 0]
    /\ toast' = {} /\ changed' = FALSE /\ missed' = FALSE /\ actions' = {}
    /\ pushed' = {} /\ items' = <<>> /\ menu' = {}
    /\ UNCHANGED <<daemonVars, quiet, fileVars, coalesces, edits, churn>>
=============================================================================
