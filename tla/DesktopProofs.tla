------------------------------- MODULE DesktopProofs -------------------------------
(***************************************************************************)
(* Proofs about Desktop, for any number of processes, tasks and failures    *)
(* and any choice of its parts: the processes that run once, and the        *)
(* network that sleep and the user take down.                               *)
(***************************************************************************)
EXTENDS Desktop, FiniteSetTheorems, TLAPS

-----------------------------------------------------------------------------
(***************************************************************************)
(* The processes.                                                          *)
(***************************************************************************)
ProcTypeOK ==
    /\ procs \in [Proc -> Process] /\ unguarded \in BOOLEAN /\ disk \in BOOLEAN
    /\ room \in 0..MaxProcs /\ scope.roles \subseteq Role

\* A process past its claim.  Outside Linux a window claims its role before it starts the agent.
Past(p) == \/ procs[p].at \in {"claimed", "opened", "up", "leaving"}
           \/ procs[p].at = "spawned" /\ ~Linux

\* Who is past its claim holds the lock of its role, and one process does.
Guarded ==
    ~unguarded =>
        /\ \A p \in Proc : Past(p) => procs[p].holds
        /\ \A p, q \in Proc : procs[p].holds /\ procs[q].holds /\ procs[p].role = procs[q].role => p = q

LEMMA ProcessTypes ==
    ASSUME ProcTypeOK
    PROVE  /\ Gone \in Process /\ Gone.at = "none" /\ ~Gone.holds
           /\ \A role \in Role : /\ Fresh(role) \in Process
                                 /\ Fresh(role).at = "started" /\ ~Fresh(role).holds
           /\ \A p \in Proc : Shim(p) \in Process /\ Shim(p).at = "waits" /\ ~Shim(p).holds
           /\ Free \subseteq Proc /\ \A p \in Free : procs[p].at = "none"
<1>1. \A p \in Proc : procs[p].role \in Role
  BY DEF ProcTypeOK, Process
<1>2. Free \subseteq Proc /\ \A p \in Free : procs[p].at = "none"
  BY InstanceBounds DEF Free, Proc, ProcTypeOK
<1>3. Gone \in Process /\ Gone.at = "none" /\ ~Gone.holds
  BY DEF Gone, Process, Role, Stage
<1>4. ASSUME NEW role \in Role
      PROVE  Fresh(role) \in Process /\ Fresh(role).at = "started" /\ ~Fresh(role).holds
  BY DEF Fresh, Process, Stage, ProcTypeOK
<1>5. ASSUME NEW p \in Proc
      PROVE  Shim(p) \in Process /\ Shim(p).at = "waits" /\ ~Shim(p).holds
  BY <1>1 DEF Shim, Process, Stage
<1> QED BY <1>2, <1>3, <1>4, <1>5

\* A step in which nobody takes a lock, and nobody gets past a claim without one.
LEMMA NobodyClaims ==
    ASSUME ProcTypeOK, Guarded, unguarded' = unguarded, system' = system,
           \A q \in Proc : /\ procs'[q].holds => procs[q].holds /\ procs'[q].role = procs[q].role
                           /\ Past(q)' => Past(q) /\ procs'[q].holds = procs[q].holds
    PROVE  Guarded'
BY DEF Guarded

\* A process that moves on keeps its role and its lock.
LEMMA MoveStep ==
    ASSUME ProcTypeOK, NEW p \in Proc, NEW at \in Stage, Moves(p, at)
    PROVE  /\ procs' \in [Proc -> Process]
           /\ \A q \in Proc : /\ procs'[q].holds = procs[q].holds /\ procs'[q].role = procs[q].role
                              /\ procs'[q].at = IF q = p THEN at ELSE procs[q].at
BY DEF ProcTypeOK, Moves, Process

\* A process that is replaced, by none or by one that has not claimed its role yet.
LEMMA ReplaceStep ==
    ASSUME ProcTypeOK, Guarded, unguarded' = unguarded, system' = system,
           NEW p \in Proc, NEW new \in Process, procs' = [procs EXCEPT ![p] = new],
           ~new.holds, new.at \in {"none", "waits", "started"}
    PROVE  procs' \in [Proc -> Process] /\ Guarded'
<1>1. \A q \in Proc : procs'[q] = IF q = p THEN new ELSE procs[q]
  BY DEF ProcTypeOK
<1>2. \A q \in Proc : /\ procs'[q].holds => procs[q].holds /\ procs'[q].role = procs[q].role
                      /\ Past(q)' => Past(q) /\ procs'[q].holds = procs[q].holds
  BY <1>1 DEF Past, Linux
<1> QED BY <1>2, NobodyClaims DEF ProcTypeOK

\* Two processes at once: the one that starts takes a place where there was none.
LEMMA StartStep ==
    ASSUME ProcTypeOK, Guarded, unguarded' = unguarded, system' = system,
           NEW p \in Proc, NEW q \in Proc, p # q, procs[q].at = "none",
           NEW old \in Process, old.holds = procs[p].holds \/ ~old.holds, old.role = procs[p].role \/ ~old.holds,
           old.at \in {"none", "spawned", "leaving"},
           old.at = "spawned" => old.holds = procs[p].holds /\ (~Linux => Past(p)),
           old.at = "leaving" => old.holds = procs[p].holds /\ Past(p),
           NEW new \in Process, ~new.holds, new.at \in {"waits", "started"},
           procs' = [procs EXCEPT ![p] = old, ![q] = new]
    PROVE  procs' \in [Proc -> Process] /\ Guarded'
<1>1. \A x \in Proc : procs'[x] = IF x = q THEN new ELSE IF x = p THEN old ELSE procs[x]
  BY DEF ProcTypeOK
<1>2. \A x \in Proc : /\ procs'[x].holds => procs[x].holds /\ procs'[x].role = procs[x].role
                      /\ Past(x)' => Past(x) /\ procs'[x].holds = procs[x].holds
  BY <1>1 DEF Past, Linux
<1> QED BY <1>1, <1>2, NobodyClaims DEF ProcTypeOK

LEMMA GuardedProcesses ==
    ASSUME ProcTypeOK, Guarded, Processes
    PROVE  procs' \in [Proc -> Process] /\ unguarded' \in BOOLEAN /\ disk' \in BOOLEAN /\ Guarded'
<1>1. ASSUME NEW role \in Role, Launch(role)
      PROVE  procs' \in [Proc -> Process] /\ UNCHANGED <<unguarded, disk>> /\ Guarded'
  <2>1. PICK p \in Proc : procs' = [procs EXCEPT ![p] = Fresh(role)]
    BY <1>1 DEF Launch
  <2> QED BY <1>1, <2>1, ProcessTypes, ReplaceStep DEF Launch
<1>2. ASSUME NEW p \in Proc, SpawnAgent(p)
      PROVE  procs' \in [Proc -> Process] /\ UNCHANGED <<unguarded, disk>> /\ Guarded'
  <2>1. UNCHANGED <<system, unguarded, disk>> /\ procs[p].at = IF Linux THEN "started" ELSE "opened"
    BY <1>2 DEF SpawnAgent, Is
  <2>2. CASE Moves(p, "spawned")
    BY <2>1, <2>2, MoveStep, NobodyClaims DEF Past, Linux, Stage
  <2>3. ASSUME NEW a \in Proc, Unused(a),
               procs' = [procs EXCEPT ![p].at = "spawned", ![a] = Fresh("agent")]
        PROVE  procs' \in [Proc -> Process] /\ Guarded'
    <3>1. a # p /\ procs[a].at = "none"
      BY <2>1, <2>3, ProcessTypes DEF Unused
    <3> DEFINE old == [procs[p] EXCEPT !.at = "spawned"]
    <3>2. old \in Process /\ old.at = "spawned" /\ old.holds = procs[p].holds /\ old.role = procs[p].role
      BY DEF ProcTypeOK, Process, Stage
    <3>3. procs' = [procs EXCEPT ![p] = old, ![a] = Fresh("agent")]
      BY <2>3
    <3>4. ~Linux => Past(p)
      BY <2>1 DEF Past
    <3> HIDE DEF old
    <3> QED BY <2>1, <3>1, <3>2, <3>3, <3>4, ProcessTypes, StartStep DEF Role
  <2> QED BY <1>2, <2>1, <2>2, <2>3 DEF SpawnAgent
<1>3. ASSUME NEW p \in Proc, Claim(p)
      PROVE  procs' \in [Proc -> Process] /\ UNCHANGED <<unguarded, disk>> /\ Guarded'
  <2>1. \A q \in Proc : procs'[q] = IF q = p THEN [[procs[p] EXCEPT !.at = "claimed"] EXCEPT !.holds = TRUE]
                                    ELSE procs[q]
    BY <1>3 DEF Claim, ProcTypeOK
  <2>2. procs' \in [Proc -> Process]
    BY <1>3 DEF Claim, ProcTypeOK, Process, Stage
  <2>3. UNCHANGED <<system, unguarded, disk>>
    BY <1>3 DEF Claim
  <2>4. procs'[p].holds /\ procs'[p].role = procs[p].role
    BY <2>1 DEF ProcTypeOK, Process
  <2>5. \A q \in Proc : procs[q].holds => procs[q].role # procs[p].role
    BY <1>3 DEF Claim, Holders
  <2>6. \A q \in Proc : Past(q)' => q = p \/ Past(q)
    BY <2>1, <2>3 DEF Past, Linux
  <2> QED BY <2>1, <2>2, <2>3, <2>4, <2>5, <2>6 DEF Guarded
<1>4. ASSUME NEW p \in Proc, RunUnguarded(p)
      PROVE  procs' \in [Proc -> Process] /\ unguarded' \in BOOLEAN /\ disk' = disk /\ Guarded'
  BY <1>4, MoveStep DEF RunUnguarded, Guarded, Stage
<1>5. ASSUME NEW p \in Proc, HandOff(p)
      PROVE  procs' \in [Proc -> Process] /\ UNCHANGED <<unguarded, disk>> /\ Guarded'
  BY <1>5, ProcessTypes, ReplaceStep DEF HandOff
<1>6. ASSUME NEW p \in Proc, OpenChannel(p) \/ OpenFails(p) \/ Close(p)
      PROVE  procs' \in [Proc -> Process] /\ UNCHANGED <<unguarded, disk>> /\ Guarded'
  <2>1. PICK at \in {"opened", "leaving"} : Moves(p, at)
    BY <1>6 DEF OpenChannel, OpenFails, Close
  <2>2. Past(p) /\ UNCHANGED <<system, unguarded, disk>>
    BY <1>6 DEF OpenChannel, OpenFails, Close, Is, Past
  <2> QED BY <2>1, <2>2, MoveStep, NobodyClaims DEF Past, Linux, Stage
<1>7. ASSUME NEW p \in Proc, Relaunch(p)
      PROVE  procs' \in [Proc -> Process] /\ UNCHANGED <<unguarded, disk>> /\ Guarded'
  <2> DEFINE after == IF procs[p].role = "agent" THEN [procs[p] EXCEPT !.at = "leaving"] ELSE Gone
  <2>1. UNCHANGED <<system, unguarded, disk>> /\ procs[p].at = "up" /\ Past(p)
    BY <1>7 DEF Relaunch, Past
  <2>2. \/ procs' = [procs EXCEPT ![p] = after]
        \/ \E q \in Proc : Unused(q) /\ procs' = [procs EXCEPT ![p] = after, ![q] = Shim(p)]
    BY <1>7 DEF Relaunch
  <2>3. /\ after \in Process
        /\ \/ after.at = "leaving" /\ after.holds = procs[p].holds /\ after.role = procs[p].role
           \/ after.at = "none" /\ ~after.holds
    BY ProcessTypes DEF ProcTypeOK, Process, Stage
  <2> HIDE DEF after
  <2>4. CASE procs' = [procs EXCEPT ![p] = after]
    <3>1. \A q \in Proc : procs'[q] = IF q = p THEN after ELSE procs[q]
      BY <2>4 DEF ProcTypeOK
    <3> QED BY <2>1, <2>3, <2>4, <3>1, NobodyClaims DEF Past, Linux, ProcTypeOK
  <2>5. ASSUME NEW q \in Proc, Unused(q), procs' = [procs EXCEPT ![p] = after, ![q] = Shim(p)]
        PROVE  procs' \in [Proc -> Process] /\ Guarded'
    BY <2>1, <2>3, <2>5, ProcessTypes, StartStep DEF Unused
  <2> QED BY <2>1, <2>2, <2>4, <2>5
<1>8. ASSUME NEW q \in Proc, ShimStarts(q)
      PROVE  procs' \in [Proc -> Process] /\ UNCHANGED <<unguarded, disk>> /\ Guarded'
  <2>1. procs[q].role \in Role
    BY DEF ProcTypeOK, Process
  <2> QED BY <1>8, <2>1, ProcessTypes, ReplaceStep DEF ShimStarts
<1>9. CASE ReplaceBinary \/ Present
  BY <1>9 DEF ReplaceBinary, Present, Guarded, Past, Linux, ProcTypeOK
<1> QED
  BY <1>1, <1>2, <1>3, <1>4, <1>5, <1>6, <1>7, <1>8, <1>9 DEF Processes, ProcTypeOK

\* The steps of a process that concern the daemon or the tray too.
LEMMA GuardedEncounters ==
    ASSUME ProcTypeOK, Guarded, NEW p \in Proc, OpenWindow(p) \/ StartTray(p) \/ QuitAgent(p) \/ Vanish(p)
    PROVE  procs' \in [Proc -> Process] /\ UNCHANGED <<unguarded, disk>> /\ Guarded'
<1>1. CASE BuildUi(p) \/ BuildAgent(p) \/ Quit(p)
  <2>1. PICK at \in {"up", "leaving"} : Moves(p, at)
    BY <1>1 DEF BuildUi, BuildAgent, Quit
  <2>2. Past(p) /\ UNCHANGED <<system, unguarded, disk>>
    BY <1>1 DEF BuildUi, BuildAgent, Quit, Is, Past
  <2> QED BY <2>1, <2>2, MoveStep, NobodyClaims DEF Past, Linux, Stage
<1>2. CASE Exit(p) \/ Crash(p)
  BY <1>2, ProcessTypes, ReplaceStep DEF Exit, Crash, Ends
<1> QED BY <1>1, <1>2 DEF OpenWindow, StartTray, QuitAgent, Vanish

LEMMA GuardedStep ==
    ASSUME ProcTypeOK, Guarded, [Next]_vars
    PROVE  ProcTypeOK' /\ Guarded'
<1>1. CASE Processes /\ UNCHANGED scope
  <2>1. room' = room
    BY <1>1 DEF Processes, Launch, ReplaceBinary, SpawnAgent, Claim, RunUnguarded, HandOff, OpenChannel,
                OpenFails, Relaunch, ShimStarts, Close, Present
  <2> QED BY <1>1, <2>1, GuardedProcesses DEF ProcTypeOK
<1>2. ASSUME NEW p \in Proc, OpenWindow(p) \/ StartTray(p) \/ QuitAgent(p) \/ Vanish(p), scope' = scope
      PROVE  ProcTypeOK' /\ Guarded'
  <2>1. room' = room
    BY <1>2 DEF OpenWindow, StartTray, QuitAgent, Vanish, BuildUi, BuildAgent, Quit, Exit, Crash
  <2> QED BY <1>2, <2>1, GuardedEncounters DEF ProcTypeOK
<1>3. CASE UpdateDaemon /\ UNCHANGED scope
  BY <1>3 DEF UpdateDaemon, ProcTypeOK, Guarded, Past, Linux
<1>4. CASE UNCHANGED procVars /\ UNCHANGED scope
  BY <1>4 DEF procVars, ProcTypeOK, Guarded, Past, Linux
<1> QED
  BY <1>1, <1>2, <1>3, <1>4 DEF Next, vars, ByProcess, ByDaemon, ByTray, Updated, Restarted

LEMMA GuardedInit == Init => ProcTypeOK /\ Guarded
<1> SUFFICES ASSUME Init PROVE ProcTypeOK /\ Guarded
  OBVIOUS
<1>1. room \in 0..MaxProcs /\ scope.roles \subseteq Role
  BY ScopeAssumption DEF Init
<1>2. procs \in [Proc -> Process] /\ \A p \in Proc : procs[p] = Gone
  BY DEF Init, InitInstances, Gone, Process, Role, Stage
<1> QED BY <1>1, <1>2 DEF Init, InitInstances, ProcTypeOK, Guarded, Past, Gone

\* Whatever processes are started, handed off, updated, closed and killed, there is one window
\* and one agent past its claim, unless a lock could not be had.
THEOREM RolesAreSingle == Spec => []OneOfEach
<1>1. Init => ProcTypeOK /\ Guarded
  BY GuardedInit
<1>2. (ProcTypeOK /\ Guarded) /\ [Next]_vars => (ProcTypeOK /\ Guarded)'
  BY GuardedStep
<1>3. ProcTypeOK /\ Guarded => OneOfEach
  <2> SUFFICES ASSUME ProcTypeOK, Guarded, ~unguarded, NEW role \in Role
               PROVE  Cardinality({p \in Proc : procs[p].role = role
                          /\ procs[p].at \in {"claimed", "opened", "up", "leaving"}}) <= 1
    BY DEF OneOfEach
  <2> DEFINE S == {p \in Proc : procs[p].role = role
                      /\ procs[p].at \in {"claimed", "opened", "up", "leaving"}}
  <2>1. \A p, q \in S : p = q
    BY DEF Guarded, Past
  <2> SUFFICES Cardinality(S) <= 1
    OBVIOUS
  <2> HIDE DEF S
  <2>2. CASE S = {}
    BY <2>2, FS_EmptySet
  <2>3. CASE S # {}
    <3>1. PICK p \in S : S = {p}
      BY <2>1, <2>3
    <3> QED BY <3>1, FS_Singleton
  <2> QED BY <2>2, <2>3
<1> QED BY <1>1, <1>2, <1>3, PTL DEF Spec

-----------------------------------------------------------------------------
(***************************************************************************)
(* Sleep, wake and the user.                                               *)
(***************************************************************************)
PowerTypeOK ==
    /\ machine \in {"awake", "sleeping", "asleep", "dark"} /\ callback \in {"idle", "check", "leaving"}
    /\ wakes \in Nat /\ joins \in Nat /\ rebuild \in {"idle", "due", "binding", "broken"}
    /\ watched \in BOOLEAN /\ resume \in BOOLEAN /\ spoiled \in BOOLEAN /\ off \in BOOLEAN

\* The callback runs while the machine is held back; the flag it leaves is taken by the task
\* of the next full wake, which is there by the time the machine is awake.
FlagIsTaken ==
    /\ callback # "idle" => watched /\ machine = "sleeping"
    /\ resume => watched
    /\ resume /\ machine = "awake" => wakes > 0

\* Nothing that could join is left when the machine goes down in good order, and the callback
\* does not end while the network is up.
GoesDownInOrder ==
    watched /\ ~spoiled /\ machine # "awake" =>
        /\ wakes = 0 /\ joins = 0 /\ rebuild \notin {"due", "binding"}
        /\ callback = "idle" => net = "down"

\* After the user's own disconnect nothing is under way that undoes it, nor will a wake find the flag.
OffIsFinal ==
    off => /\ net = "down" /\ joins = 0 /\ ~resume /\ callback # "leaving"
           /\ rebuild \notin {"due", "binding"}

PowerInv == PowerTypeOK /\ FlagIsTaken /\ GoesDownInOrder /\ OffIsFinal

LEMMA CallbackStep ==
    ASSUME PowerInv, FallAsleep \/ NothingToLeave \/ Leave \/ Left \/ TimesOut \/ Sleep
    PROVE  PowerInv'
<1> USE DEF PowerInv, PowerTypeOK, FlagIsTaken, GoesDownInOrder, OffIsFinal
<1>1. CASE FallAsleep
  BY <1>1 DEF FallAsleep, Joining
<1>2. CASE NothingToLeave
  BY <1>2 DEF NothingToLeave
<1>3. CASE Leave
  BY <1>3 DEF Leave
<1>4. CASE Left
  BY <1>4 DEF Left
<1>5. CASE TimesOut
  BY <1>5 DEF TimesOut
<1>6. CASE Sleep
  BY <1>6 DEF Sleep
<1> QED BY <1>1, <1>2, <1>3, <1>4, <1>5, <1>6

LEMMA WakeStep ==
    ASSUME PowerInv, DarkWake \/ FullWake \/ OnWake \/ Joined \/ JoinFails
    PROVE  PowerInv'
<1> USE DEF PowerInv, PowerTypeOK, FlagIsTaken, GoesDownInOrder, OffIsFinal
<1>1. CASE DarkWake
  BY <1>1 DEF DarkWake
<1>2. CASE FullWake
  <2>1. /\ machine # "sleeping" /\ machine' = "awake"
        /\ IF watched THEN wakes' = wakes + 1 ELSE wakes' = wakes
        /\ UNCHANGED <<watched, rebuild, callback, resume, joins, net, off>> /\ spoiled' = FALSE
    BY <1>2 DEF FullWake
  <2>2. wakes' \in Nat /\ (watched => wakes' > 0)
    BY <2>1
  <2> QED BY <2>1, <2>2
<1>3. CASE OnWake
  <2>1. /\ wakes > 0 /\ wakes' = wakes - 1 /\ resume' = FALSE
        /\ IF resume /\ net = "down" THEN joins' = joins + 1 ELSE joins' = joins
        /\ UNCHANGED <<watched, rebuild, machine, callback, net, spoiled, off>>
    BY <1>3 DEF OnWake
  <2>2. wakes' \in Nat /\ joins' \in Nat
    BY <2>1
  <2>3. GoesDownInOrder'
    BY <2>1
  <2> QED BY <2>1, <2>2, <2>3
<1>4. CASE Joined
  BY <1>4 DEF Joined
<1>5. CASE JoinFails
  BY <1>5 DEF JoinFails
<1> QED BY <1>1, <1>2, <1>3, <1>4, <1>5

LEMMA RebuildStep ==
    ASSUME PowerInv, EditTokens \/ RebuildBegins \/ RebuildEnds \/ RebuildFails
    PROVE  PowerInv'
<1> USE DEF PowerInv, PowerTypeOK, FlagIsTaken, GoesDownInOrder, OffIsFinal
<1>1. CASE EditTokens
  BY <1>1 DEF EditTokens
<1>2. CASE RebuildBegins
  BY <1>2 DEF RebuildBegins
<1>3. CASE RebuildEnds
  BY <1>3 DEF RebuildEnds
<1>4. CASE RebuildFails
  BY <1>4 DEF RebuildFails
<1> QED BY <1>1, <1>2, <1>3, <1>4

LEMMA UserStep ==
    ASSUME PowerInv, UserConnects \/ UserDisconnects \/ RestartPower
    PROVE  PowerInv'
<1> USE DEF PowerInv, PowerTypeOK, FlagIsTaken, GoesDownInOrder, OffIsFinal
<1>1. CASE UserConnects
  <2>1. /\ machine \in {"awake", "sleeping"} /\ off' = FALSE
        /\ joins' = joins + 1 \/ joins' = joins
        /\ spoiled' = (spoiled \/ machine = "sleeping")
        /\ UNCHANGED <<watched, rebuild, machine, callback, resume, wakes, net>>
    BY <1>1 DEF UserConnects
  <2>2. joins' \in Nat
    BY <2>1
  <2>3. GoesDownInOrder'
    BY <2>1
  <2> QED BY <2>1, <2>2, <2>3
<1>2. CASE UserDisconnects
  BY <1>2 DEF UserDisconnects, Joining
<1>3. CASE RestartPower
  BY <1>3 DEF RestartPower
<1> QED BY <1>1, <1>2, <1>3

\* A machine that went down in good order stays off the network until it is fully awake, and a
\* user who disconnected stays off it until they connect, edit a relay token or the daemon
\* restarts.
THEOREM SleepIsOffline == Spec => []OffStaysOff
<1>1. Init => PowerInv
  <2> SUFFICES ASSUME InitPower PROVE PowerInv
    BY DEF Init
  <2> QED BY DEF InitPower, PowerInv, PowerTypeOK, FlagIsTaken, GoesDownInOrder, OffIsFinal
<1>2. PowerInv /\ [Next]_vars => PowerInv'
  <2> SUFFICES ASSUME PowerInv, [Next]_vars PROVE PowerInv'
    OBVIOUS
  <2>1. CASE UNCHANGED powerVars
    BY <2>1 DEF powerVars, PowerInv, PowerTypeOK, FlagIsTaken, GoesDownInOrder, OffIsFinal
  <2>2. CASE Nights
    BY <2>2, CallbackStep, WakeStep, RebuildStep, UserStep DEF Nights
  <2>3. CASE UserConnects \/ UserDisconnects \/ RestartPower
    BY <2>3, UserStep
  <2> QED
    BY <2>1, <2>2, <2>3
    DEF Next, vars, ByProcess, ByDaemon, ByTray, OpenWindow, StartTray, QuitAgent, Vanish, Updated,
        Restarted, WithPower
<1>3. PowerInv => OffStaysOff
  BY DEF PowerInv, PowerTypeOK, FlagIsTaken, GoesDownInOrder, OffIsFinal, OffStaysOff
<1> QED BY <1>1, <1>2, <1>3, PTL DEF Spec

-----------------------------------------------------------------------------
(***************************************************************************)
(* The tray's notifications.                                               *)
(***************************************************************************)
ToastTypeOK ==
    /\ online \subseteq Peer
    /\ since \in [Peer -> 0..NoStamp] /\ quiet \in [Peer -> 0..Debounce] /\ dark \in [Peer -> 0..Debounce]
    /\ throttled \in [Title -> 0..Throttle]

\* The agent's stamp of a peer and how long it was really quiet, or known to be offline, agree: the
\* stamp is no older than the silence, nor younger than what the agent knows; a peer without one is
\* online in the baseline, or has been quiet for the debounce.
StampsAreHonest ==
    \A p \in Peer :
        /\ since[p] = NoStamp \/ since[p] <= quiet[p]
        /\ dark[p] <= since[p]
        /\ last # NoStatus /\ p \in last.online => since[p] = NoStamp
        /\ last # NoStatus /\ p \notin last.online /\ since[p] = NoStamp => quiet[p] >= Debounce

ToastInv == ToastTypeOK /\ StampsAreHonest

LEMMA ToastBounds ==
    /\ Throttle \in Nat /\ 0 \in 0..Throttle /\ Throttle \in 0..Throttle
    /\ \A n \in 0..Throttle : n + 1 \in 0..Throttle \/ n >= Throttle
    /\ Debounce \in Nat /\ Debounce # 0 /\ NoStamp = Debounce + 1
    /\ 0..NoStamp \subseteq Nat /\ 0..Debounce \subseteq 0..NoStamp
    /\ 0 \in 0..Debounce /\ Debounce \in 0..Debounce /\ NoStamp \in 0..NoStamp
BY TrayAssumptions DEF NoStamp

\* What one snapshot does to one peer.
LEMMA ReceiveStep ==
    ASSUME ToastInv, Receive
    PROVE  ToastInv'
<1>1. /\ online' = online
      /\ since' = [p \in Peer |-> Stamp(p)]
      /\ last' = [members |-> members, online |-> online]
      /\ quiet' = [p \in Peer |->
                      IF p \notin members THEN Debounce ELSE IF p \in online THEN 0 ELSE quiet[p]]
      /\ dark' = [p \in Peer |->
                     IF p \in members \ online /\ since[p] # NoStamp THEN dark[p] ELSE 0]
  BY DEF Receive, Snapshot, daemonVars
<1>2. last'.online = online
  BY <1>1
<1>3. ASSUME NEW p \in Peer
      PROVE  since'[p] = (IF p \notin members \ online THEN NoStamp
                          ELSE IF since[p] = NoStamp THEN 0 ELSE since[p])
  BY <1>1 DEF Stamp
<1>4. \A p \in Peer : since[p] \in 0..NoStamp /\ quiet[p] \in 0..Debounce /\ dark[p] \in 0..Debounce
  BY DEF ToastInv, ToastTypeOK
<1>5. since' \in [Peer -> 0..NoStamp]
  BY <1>1, <1>4, ToastBounds DEF Stamp
<1>6. quiet' \in [Peer -> 0..Debounce] /\ dark' \in [Peer -> 0..Debounce]
  BY <1>1, <1>4, ToastBounds
<1>7. throttled' \in [Title -> 0..Throttle]
  BY ToastBounds DEF Receive, ToastInv, ToastTypeOK
<1>8. ASSUME NEW p \in Peer
      PROVE  /\ since'[p] = NoStamp \/ since'[p] <= quiet'[p]
             /\ dark'[p] <= since'[p]
             /\ p \in last'.online => since'[p] = NoStamp
             /\ p \notin last'.online /\ since'[p] = NoStamp => quiet'[p] >= Debounce
  <2>1. /\ quiet'[p] = (IF p \notin members THEN Debounce ELSE IF p \in online THEN 0 ELSE quiet[p])
        /\ dark'[p] = (IF p \in members \ online /\ since[p] # NoStamp THEN dark[p] ELSE 0)
    BY <1>1
  <2>2. /\ since[p] = NoStamp \/ since[p] <= quiet[p]
        /\ dark[p] <= since[p]
    BY DEF ToastInv, StampsAreHonest
  <2>3. CASE p \notin members \/ p \in online
    BY <1>2, <1>3, <2>1, <2>3, ToastBounds
  <2>4. CASE p \in members \ online /\ since[p] = NoStamp
    BY <1>2, <1>3, <1>4, <2>1, <2>4, ToastBounds
  <2>5. CASE p \in members \ online /\ since[p] # NoStamp
    BY <1>2, <1>3, <1>4, <2>1, <2>2, <2>5, ToastBounds
  <2> QED BY <2>3, <2>4, <2>5
<1> QED BY <1>1, <1>5, <1>6, <1>8, <1>7 DEF ToastInv, ToastTypeOK, StampsAreHonest, NoStamp, Title

LEMMA AgingStep ==
    ASSUME ToastInv, TimePasses
    PROVE  ToastInv'
<1>1. /\ online' = online /\ last' = last
      /\ \A p \in Peer :
           /\ since'[p] = IF since[p] < Debounce THEN since[p] + 1 ELSE since[p]
           /\ dark'[p] = IF dark[p] < Debounce THEN dark[p] + 1 ELSE dark[p]
           /\ quiet'[p] = IF (last = NoStatus \/ p \notin last.online) /\ quiet[p] < Debounce
                          THEN quiet[p] + 1 ELSE quiet[p]
      /\ DOMAIN since' = Peer /\ DOMAIN dark' = Peer /\ DOMAIN quiet' = Peer
      /\ since' = [p \in Peer |-> since'[p]] /\ dark' = [p \in Peer |-> dark'[p]]
      /\ quiet' = [p \in Peer |-> quiet'[p]]
  BY DEF TimePasses, ToastInv, ToastTypeOK, daemonVars
<1>2. \A p \in Peer : since[p] \in 0..NoStamp /\ quiet[p] \in 0..Debounce /\ dark[p] \in 0..Debounce
  BY DEF ToastInv, ToastTypeOK
<1>3. ASSUME NEW p \in Peer
      PROVE  since'[p] \in 0..NoStamp /\ quiet'[p] \in 0..Debounce /\ dark'[p] \in 0..Debounce
  BY <1>1, <1>2, ToastBounds
<1>4. throttled' \in [Title -> 0..Throttle]
  <2>1. throttled' = [t \in Title |-> IF throttled[t] < Throttle THEN throttled[t] + 1 ELSE throttled[t]]
    BY DEF TimePasses, ToastInv, ToastTypeOK
  <2>2. \A t \in Title : throttled[t] \in 0..Throttle
    BY DEF ToastInv, ToastTypeOK
  <2> QED BY <2>1, <2>2, ToastBounds
<1>5. ToastTypeOK'
  BY <1>1, <1>3, <1>4 DEF ToastInv, ToastTypeOK, NoStamp, Title
<1>6. ASSUME NEW p \in Peer
      PROVE  /\ since'[p] = NoStamp \/ since'[p] <= quiet'[p]
             /\ dark'[p] <= since'[p]
             /\ last # NoStatus /\ p \in last.online => since'[p] = NoStamp
             /\ last # NoStatus /\ p \notin last.online /\ since'[p] = NoStamp => quiet'[p] >= Debounce
  <2>1. /\ since[p] = NoStamp \/ since[p] <= quiet[p]
        /\ dark[p] <= since[p]
        /\ last # NoStatus /\ p \in last.online => since[p] = NoStamp
        /\ last # NoStatus /\ p \notin last.online /\ since[p] = NoStamp => quiet[p] >= Debounce
    BY DEF ToastInv, StampsAreHonest
  <2>2. dark'[p] <= since'[p]
    BY <1>1, <1>2, <2>1, ToastBounds
  <2>3. since'[p] = NoStamp <=> since[p] = NoStamp
    BY <1>1, <1>2, ToastBounds
  <2>4. since'[p] = NoStamp \/ since'[p] <= quiet'[p]
    BY <1>1, <1>2, <2>1, ToastBounds
  <2>5. quiet'[p] >= quiet[p]
    BY <1>1, <1>2, ToastBounds
  <2> QED BY <1>2, <1>3, <2>1, <2>2, <2>3, <2>4, <2>5, ToastBounds
<1> QED BY <1>1, <1>5, <1>6 DEF ToastInv, StampsAreHonest, NoStamp

LEMMA EndStep ==
    ASSUME ToastInv, AgentEnds \/ SessionEnds
    PROVE  ToastInv'
<1>1. CASE SessionEnds
  BY <1>1 DEF SessionEnds, ToastInv, ToastTypeOK, StampsAreHonest, daemonVars, NoStamp, Title
<1>2. CASE AgentEnds
  <2>1. /\ online' = online /\ quiet' = quiet /\ last' = NoStatus
        /\ since' = [p \in Peer |-> NoStamp] /\ dark' = [p \in Peer |-> 0]
    BY <1>2 DEF AgentEnds, daemonVars
  <2>2. ToastTypeOK'
    BY <1>2, <2>1, ToastBounds DEF AgentEnds, ToastInv, ToastTypeOK, NoStamp, Title
  <2>3. \A p \in Peer : since'[p] = NoStamp /\ dark'[p] = 0 /\ 0 <= NoStamp
    BY <2>1, ToastBounds
  <2> QED BY <2>1, <2>2, <2>3 DEF ToastInv, StampsAreHonest, NoStamp
<1> QED BY <1>1, <1>2

\* What changes none of the notifications' own variables.
LEMMA ElsewhereStep ==
    ASSUME ToastInv, UNCHANGED toastVars, online' \subseteq Peer
    PROVE  ToastInv'
BY DEF ToastInv, ToastTypeOK, StampsAreHonest, toastVars, NoStamp, Title

\* Every step of the tray: a snapshot, time, an end, or nothing but what the daemon knows or the menu shows.
LEMMA TraySteps ==
    ASSUME [Next]_vars
    PROVE  \/ Receive \/ TimePasses
           \/ AgentEnds \/ SessionEnds
           \/ /\ UNCHANGED toastVars /\ toast' = {}
              /\ online' = online \/ (\E p \in Peer : PeerMoves(p) \/ MemberMoves(p))
           \/ UNCHANGED trayVars
<1>1. CASE Telling
  BY <1>1 DEF Telling, ShowNext, ShowNewest, MenuBecomes, AgentArms, AgentStarts, EditorStarts, MemberMoves,
     daemonVars
<1>2. CASE Menus
  BY <1>2 DEF Menus, SaveAction, SaveRefused, Saved, SaveFails, Poll, daemonVars
<1>3. CASE Toasts
  BY <1>3 DEF Toasts, PeerMoves
<1>4. CASE AgentStarts \/ EditorStarts
  BY <1>4 DEF AgentStarts, EditorStarts, daemonVars
<1> QED
  BY <1>1, <1>2, <1>3, <1>4
  DEF Next, vars, ByProcess, ByDaemon, ByTray, OpenWindow, StartTray, QuitAgent, Vanish, Updated,
      Restarted, WithTray, SessionLost

LEMMA ToastStep ==
    ASSUME ToastInv, [Next]_vars
    PROVE  ToastInv'
<1>1. ASSUME NEW p \in Peer, PeerMoves(p) \/ MemberMoves(p)
      PROVE  online' \subseteq Peer
  BY <1>1 DEF PeerMoves, MemberMoves, ToastInv, ToastTypeOK
<1>2. CASE UNCHANGED trayVars
  BY <1>2, ElsewhereStep DEF trayVars, daemonVars, ToastInv, ToastTypeOK
<1>3. CASE UNCHANGED toastVars /\ (online' = online \/ \E p \in Peer : PeerMoves(p) \/ MemberMoves(p))
  BY <1>1, <1>3, ElsewhereStep DEF ToastInv, ToastTypeOK
<1> QED BY <1>2, <1>3, ReceiveStep, AgingStep, EndStep, TraySteps

\* A title is shown for a device that has been away for the debounce, and for every one the agent
\* knew to be offline that long, whatever sessions, members and time did in between.
THEOREM ReturnsAreTold == Spec => ReturnsAreAnnounced
<1> DEFINE
      Truly == \A t \in toast' : \E p \in online : Name[p] = t /\ quiet[p] >= Debounce
      Always == last # NoStatus /\ last' # NoStatus /\ last' # last =>
                    \A p \in online : p \notin last.online /\ dark[p] >= Debounce =>
                        Name[p] \in toast' \/ throttled[Name[p]] < Throttle
<1>1. Init => ToastInv
  <2> SUFFICES ASSUME InitTray PROVE ToastInv
    BY DEF Init
  <2>1. /\ online \subseteq Peer /\ last = NoStatus /\ throttled = [t \in Title |-> Throttle]
        /\ since = [p \in Peer |-> NoStamp]
        /\ quiet = [p \in Peer |-> Debounce] /\ dark = [p \in Peer |-> 0]
    BY DEF InitTray
  <2>2. \A p \in Peer : since[p] = NoStamp /\ dark[p] = 0 /\ 0 <= NoStamp
    BY <2>1, ToastBounds
  <2> QED BY <2>1, <2>2, ToastBounds DEF ToastInv, ToastTypeOK, StampsAreHonest
<1>2. ToastInv /\ [Next]_vars => ToastInv'
  BY ToastStep
<1>3. ToastInv /\ [Next]_vars => [Truly /\ Always]_trayVars
  <2> SUFFICES ASSUME ToastInv, [Next]_vars, ~UNCHANGED trayVars PROVE Truly /\ Always
    BY Zenon
  <2>1. CASE Receive
    <3>1. toast' = Shown /\ online \subseteq Peer
      BY <2>1 DEF Receive, ToastInv, ToastTypeOK
    <3>2. ASSUME NEW p \in Peer, Returned(p)
          PROVE  p \in online /\ quiet[p] >= Debounce
      <4>1. p \in online /\ last # NoStatus /\ p \notin last.online /\ since[p] >= Debounce
        BY <3>2 DEF Returned
      <4>2. /\ since[p] = NoStamp \/ since[p] <= quiet[p]
            /\ since[p] = NoStamp => quiet[p] >= Debounce
            /\ since[p] \in 0..NoStamp /\ quiet[p] \in 0..Debounce
        BY <4>1 DEF ToastInv, ToastTypeOK, StampsAreHonest
      <4> QED BY <4>1, <4>2, ToastBounds
    <3>3. Truly
      BY <3>1, <3>2 DEF Shown
    <3>4. ASSUME NEW p \in online, last # NoStatus, p \notin last.online, dark[p] >= Debounce
          PROVE  Name[p] \in toast' \/ throttled[Name[p]] < Throttle
      <4>1. p \in Peer
        BY <3>1
      <4>2. dark[p] <= since[p] /\ since[p] \in 0..NoStamp /\ dark[p] \in 0..Debounce
        BY <4>1 DEF ToastInv, ToastTypeOK, StampsAreHonest
      <4>3. Returned(p)
        BY <3>4, <4>2, ToastBounds DEF Returned
      <4>4. Name[p] \in Title /\ throttled[Name[p]] \in 0..Throttle
        BY <4>1 DEF Title, ToastInv, ToastTypeOK
      <4> QED BY <3>1, <4>1, <4>3, <4>4, ToastBounds DEF Shown
    <3> QED BY <3>3, <3>4
  <2>2. CASE TimePasses \/ SessionEnds \/ AgentEnds
    BY <2>2 DEF TimePasses, SessionEnds, AgentEnds
  <2>3. CASE UNCHANGED toastVars /\ toast' = {}
    BY <2>3 DEF toastVars
  <2> QED BY <2>1, <2>2, <2>3, TraySteps
<1> QED BY <1>1, <1>2, <1>3, PTL DEF Spec, ReturnsAreAnnounced

=============================================================================
