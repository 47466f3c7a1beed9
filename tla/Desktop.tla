-------------------------------- MODULE Desktop --------------------------------
(***************************************************************************)
(* The program on a desktop around the engine: the window and the agent as  *)
(* processes, the daemon's sleep and wake, and the tray.  They meet where   *)
(* opening a window connects, quitting the agent disconnects, a process     *)
(* that comes or goes takes its part of the tray along, and a daemon that   *)
(* restarts ends the sessions and joins on its own.                         *)
(***************************************************************************)
EXTENDS Instances, Power, Tray

CONSTANT Scope  \* bound: the system, the roles, the room for processes and the parts that go together

ASSUME ScopeAssumption == \A s \in Scope : s.room \in 0..MaxProcs /\ s.roles \subseteq Role

VARIABLE scope

vars == <<procVars, powerVars, trayVars, scope>>

In(part) == part \in scope.parts
WithPower(A) == IF In("power") THEN A ELSE UNCHANGED powerVars
HasTray == In("toasts") \/ In("menu")
WithTray(A) == IF HasTray THEN A ELSE UNCHANGED trayVars

Init ==
    /\ scope \in Scope /\ system = scope.system /\ room = scope.room
    /\ InitInstances /\ InitPower /\ InitTray
    /\ coalesces = ~Linux
    /\ In("power") \/ (watched /\ net = "down")
    /\ In("toasts") \/ online = {}
-----------------------------------------------------------------------------
\* build_ui ends with a Connect request, and reads the actions.
OpenWindow(p) == BuildUi(p) /\ WithPower(UserConnects) /\ WithTray(EditorStarts)

\* A second agent, without its lock, does what the first one does.
StartTray(p) ==
    /\ BuildAgent(p)
    /\ WithTray(IF agent = "off" THEN AgentStarts ELSE UNCHANGED trayVars)
    /\ UNCHANGED powerVars

\* "Quit Nullgate" disconnects before it ends the main loop.
QuitAgent(p) == Quit(p) /\ WithPower(UserDisconnects) /\ UNCHANGED trayVars

Shows(p) == procs[p].role = "agent" /\ procs[p].at \in {"up", "leaving"}

Vanish(p) ==
    /\ Exit(p) \/ Crash(p)
    /\ WithTray(IF Shows(p) /\ agent # "off" /\ \A q \in Proc \ {p} : ~Shows(q)
                THEN AgentEnds ELSE UNCHANGED trayVars)
    /\ UNCHANGED powerVars

SessionLost == WithTray(IF agent = "running" /\ last # NoStatus
                        THEN SessionEnds ELSE UNCHANGED trayVars)

\* The package restarts the daemon, or the watchdog does.
Updated == UpdateDaemon /\ WithPower(RestartPower /\ UNCHANGED mishaps) /\ SessionLost
Restarted == In("power") /\ Mishap /\ RestartPower /\ SessionLost /\ UNCHANGED procVars

Processes ==
    \/ \E role \in scope.roles : Launch(role)
    \/ In("update") /\ ReplaceBinary
    \/ \E p \in Proc :
         \/ SpawnAgent(p) \/ Claim(p) \/ RunUnguarded(p) \/ HandOff(p)
         \/ OpenChannel(p) \/ OpenFails(p) \/ Relaunch(p) \/ ShimStarts(p) \/ Close(p)
    \/ Present

Nights ==
    \/ FallAsleep \/ NothingToLeave \/ Leave \/ Left \/ TimesOut \/ Sleep
    \/ DarkWake \/ FullWake \/ OnWake \/ Joined \/ JoinFails
    \/ UserConnects \/ UserDisconnects
    \/ EditTokens \/ RebuildBegins \/ RebuildEnds \/ RebuildFails

Toasts ==
    \/ TimePasses
    \/ \E p \in Peer : PeerMoves(p)

Menus ==
    \/ \E p \in Peer : SaveAction(p) \/ SaveRefused(p)
    \/ Saved \/ SaveFails \/ Poll

Telling ==
    \/ Receive \/ ShowNext \/ ShowNewest \/ AgentArms
    \/ churn < MaxChurn /\ SessionEnds
    \/ \E p \in Peer : MemberMoves(p)
    \/ ~In("instances") /\ (AgentStarts \/ AgentEnds \/ EditorStarts)

\* What a step of one part leaves alone.
ByProcess(A) == A /\ UNCHANGED <<powerVars, trayVars, scope>>
ByDaemon(A) == A /\ UNCHANGED <<procVars, trayVars, scope>>
ByTray(A) == A /\ UNCHANGED <<procVars, powerVars, scope>>

Next ==
    \/ In("instances") /\ ByProcess(Processes)
    \/ In("instances") /\ \E p \in Proc :
         (OpenWindow(p) \/ StartTray(p) \/ QuitAgent(p) \/ Vanish(p)) /\ UNCHANGED scope
    \/ In("instances") /\ Updated /\ UNCHANGED scope
    \/ In("power") /\ ByDaemon(Nights)
    \/ Restarted /\ UNCHANGED scope
    \/ In("toasts") /\ ByTray(Toasts)
    \/ In("menu") /\ ByTray(Menus)
    \/ HasTray /\ ByTray(Telling)

\* What process p does next on its own, up to its main loop and out of it.
Proceeds(p) ==
    \/ ByProcess(SpawnAgent(p) \/ Claim(p) \/ RunUnguarded(p) \/ HandOff(p)
                    \/ OpenChannel(p) \/ OpenFails(p) \/ Relaunch(p) \/ ShimStarts(p))
    \/ (OpenWindow(p) \/ StartTray(p)) /\ UNCHANGED scope
    \/ procs[p].at = "leaving" /\ Vanish(p) /\ UNCHANGED scope

\* The system runs every process, the main loops and runtimes run every task, the package
\* restarts the daemon.
Fairness ==
    /\ \A p \in Proc : WF_vars(Proceeds(p))
    /\ WF_vars(ByProcess(Present))
    /\ WF_vars(Updated /\ UNCHANGED scope)
    /\ WF_vars(ByDaemon(NothingToLeave \/ Leave \/ Left \/ OnWake))
    /\ WF_vars(ByDaemon(Joined \/ JoinFails))
    /\ WF_vars(ByTray(Receive \/ AgentArms \/ Saved \/ SaveFails \/ Poll \/ ShowNext \/ ShowNewest))

Spec == Init /\ [][Next]_vars
FairSpec == Spec /\ Fairness
-----------------------------------------------------------------------------
(***************************************************************************)
(* Properties.                                                             *)
(***************************************************************************)
TypeOK ==
    /\ scope \in Scope /\ procs \in [Proc -> Process] /\ channel \in Proc \union {NoProc}
    /\ {poked, disk, daemon, waiting, unguarded, tray} \subseteq BOOLEAN
    /\ channel # NoProc => procs[channel].role = "gui" /\ procs[channel].holds
    /\ machine \in {"awake", "sleeping", "asleep", "dark"}
    /\ callback \in {"idle", "check", "leaving"} /\ (callback # "idle" => machine = "sleeping")
    /\ {watched, resume, spoiled, owed, off} \subseteq BOOLEAN
    /\ wakes \in 0..MaxTasks /\ joins \in 0..MaxTasks /\ net \in {"up", "down", "half"}
    /\ rebuild \in {"idle", "due", "binding", "broken"}
    /\ online \subseteq members /\ members \subseteq Peer
    /\ agent \in {"off", "loading", "running"} /\ (agent # "running" => last = NoStatus)
    /\ since \in [Peer -> 0..NoStamp] /\ throttled \in [Title -> 0..Throttle]
    /\ toast \subseteq Title /\ mine \subseteq Peer /\ (file = Torn \/ file \subseteq Peer)
    /\ actions \subseteq Peer /\ pushed \subseteq Peer /\ menu \subseteq Peer
    /\ \A i \in DOMAIN items : items[i] \subseteq Peer

\* There is one window and one agent: of the processes of a role at most one is past its claim,
\* through crashes, hand-offs and relaunches, as long as locks can be had.
OneOfEach ==
    unguarded \/ \A role \in Role :
        Cardinality({p \in Proc : procs[p].role = role
                         /\ procs[p].at \in {"claimed", "opened", "up", "leaving"}}) <= 1

\* Opening the program always gets the user a window: a launch that stood aside for another
\* window is answered by that one coming forward, unless it was on its way out or is deaf.
WaitingIsAnswered == waiting ~> ~waiting

\* An update reaches the agent: a tray icon that was there is there again, of the daemon's
\* version, and the relaunch is not lost to the lock the old agent still holds, if locks could be had.
AgentCatchesUp ==
    tray ~> (~tray \/ unguarded \/ \E p \in Proc : Is(p, "agent", "up") /\ procs[p].new = daemon)

\* A machine that sleeps, or wakes without its user, is not on the network, unless a join or a
\* rebuild was under way as it fell asleep or leaving was cut short; and sleeping does not undo
\* what the user did, who is off the network after a disconnect, until they edit a relay token.
OffStaysOff ==
    /\ watched /\ machine \in {"asleep", "dark"} /\ ~spoiled => net = "down"
    /\ off => net = "down"

\* The daemon that left for a sleep is back when the machine stays awake, unless the user
\* disconnected, the join failed or an earlier wake's task had taken the flag.
RejoinsOnWake == <>[](machine = "awake") => []<>(net = "up" \/ ~owed)

\* A title is shown when a device comes back that no snapshot has had online for the debounce,
\* and is shown when one comes back that the agent has known to be offline for so long; only a
\* first snapshot and the throttle are silent.
ReturnsAreAnnounced ==
    [][/\ \A t \in toast' : \E p \in online : Name[p] = t /\ quiet[p] >= Debounce
       /\ last # NoStatus /\ last' # NoStatus /\ last' # last =>
            \A p \in online : p \notin last.online /\ dark[p] >= Debounce =>
                Name[p] \in toast' \/ throttled[Name[p]] < Throttle]_trayVars

\* The menu comes to list the devices of the network that have an action, whatever order edits,
\* snapshots and restarts come in, unless a write was such that the agent could not notice it.
MenuFollows ==
    <>[](agent = "running" /\ ~missed /\ ~saving) => <>[](menu = Listed(Snapshot, Parsed))
=============================================================================
