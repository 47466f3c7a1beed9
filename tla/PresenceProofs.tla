----------------------------- MODULE PresenceProofs -----------------------------
(***************************************************************************)
(* Proofs about Presence, for any connections and clock, and about          *)
(* Recovery, for any timeouts and intervals: what is shown of a member is   *)
(* true, and a member is back in time.                                     *)
(***************************************************************************)
EXTENDS Presence, Recovery, TLAPS

-----------------------------------------------------------------------------
(***************************************************************************)
(* Presence.                                                               *)
(***************************************************************************)
\* Clients are told of what has changed by the tick that has changed it, which is under way.
TickOwes == owed => dirty /\ tick \notin {"idle", "begun"}

\* A member shown online has an entry, or the task that removed it is still to say so.
DotHasCause ==
    peer.online => entry # NoConn \/ ghost \/ quitting \/ \E c \in Conn : stage[c] = "evicted"

PresenceInv == TypeOK /\ TickOwes /\ DotHasCause

LEMMA PeerTypes ==
    ASSUME peer \in Status
    PROVE  /\ Default \in Status /\ ~Default.online
           /\ SetLocation \in Status /\ SetLocation.online = peer.online
           /\ \A on \in BOOLEAN : RecordConnection(on) \in Status /\ RecordConnection(on).online = on
           /\ \A n \in 0 .. MaxTime : /\ [Default EXCEPT !.seen = n] \in Status
                                      /\ ~[Default EXCEPT !.seen = n].online
           /\ \A b \in Heartbeat : /\ [peer EXCEPT !.seen = b.ts, !.blocks = b.blocks] \in Status
                                   /\ [peer EXCEPT !.seen = b.ts, !.blocks = b.blocks].online = peer.online
<1>1. 0 \in 0 .. MaxTime
  BY TimeAssumption
<1>2. Default \in Status /\ ~Default.online
  BY <1>1 DEF Default, Status
<1>3. SetLocation \in Status /\ SetLocation.online = peer.online
  BY DEF SetLocation, Status
<1>4. \A on \in BOOLEAN : RecordConnection(on) \in Status /\ RecordConnection(on).online = on
  BY DEF RecordConnection, Status
<1>5. \A n \in 0 .. MaxTime : [Default EXCEPT !.seen = n] \in Status /\ ~[Default EXCEPT !.seen = n].online
  BY DEF Default, Status
<1>6. \A b \in Heartbeat : /\ [peer EXCEPT !.seen = b.ts, !.blocks = b.blocks] \in Status
                           /\ [peer EXCEPT !.seen = b.ts, !.blocks = b.blocks].online = peer.online
  <2> SUFFICES ASSUME NEW b \in Heartbeat
               PROVE  /\ [peer EXCEPT !.seen = b.ts, !.blocks = b.blocks] \in Status
                      /\ [peer EXCEPT !.seen = b.ts, !.blocks = b.blocks].online = peer.online
    OBVIOUS
  <2> DEFINE ts == b.ts  blocks == b.blocks
  <2>1. ts \in 0 .. MaxTime /\ blocks \in BOOLEAN
    BY TimeAssumption DEF Heartbeat
  <2> HIDE DEF ts, blocks
  <2>2. /\ [peer EXCEPT !.seen = ts, !.blocks = blocks] \in Status
        /\ [peer EXCEPT !.seen = ts, !.blocks = blocks].online = peer.online
    BY <2>1 DEF Status
  <2> QED BY <2>2 DEF ts, blocks
<1> QED BY <1>2, <1>3, <1>4, <1>5, <1>6

LEMMA InitPresence == Init => PresenceInv
<1> SUFFICES ASSUME Init PROVE PresenceInv
  OBVIOUS
<1>1. disk \in 0 .. MaxTime /\ peer = [Default EXCEPT !.seen = disk]
  BY DEF Init
<1>2. peer \in Status /\ ~peer.online
  <2>1. 0 \in 0 .. MaxTime
    BY TimeAssumption
  <2> QED BY <1>1, <2>1 DEF Default, Status
<1>3. TypeOK
  BY <1>1, <1>2 DEF Init, TypeOK
<1>4. TickOwes /\ DotHasCause
  BY <1>2 DEF Init, TickOwes, DotHasCause
<1> QED BY <1>3, <1>4 DEF PresenceInv

\* Heartbeats and locations.
LEMMA WordStep ==
    ASSUME PresenceInv, Locate \/ \E b \in Heartbeat : Receive(b)
    PROVE  PresenceInv'
<1>1. UNCHANGED <<online, quitting, conn, tick, dirty, disk, ghost>>
  BY DEF Locate, Receive
<1>2. peer' \in Status /\ peer'.online = peer.online
  BY PeerTypes DEF PresenceInv, TypeOK, Locate, Receive
<1>3. owed' \in BOOLEAN /\ (owed' => owed)
  BY DEF PresenceInv, TypeOK, Locate, Receive, Changed, HeartbeatChanges, Status
<1>4. TypeOK'
  BY <1>1, <1>2, <1>3 DEF PresenceInv, TypeOK, conn
<1>5. TickOwes' /\ DotHasCause'
  BY <1>1, <1>2, <1>3 DEF PresenceInv, TickOwes, DotHasCause, conn
<1> QED BY <1>4, <1>5 DEF PresenceInv

LEMMA ConnectionStep ==
    ASSUME PresenceInv, NEW c \in Conn, Enter(c) \/ Task(c) \/ Closes(c)
    PROVE  PresenceInv'
<1>1. CASE Enter(c)
  <2>1. TypeOK'
    BY <1>1, ConnAssumption DEF PresenceInv, TypeOK, Enter
  <2> QED BY <1>1, <2>1, ConnAssumption DEF PresenceInv, TickOwes, DotHasCause, Enter
<1>2. CASE Recorded(c)
  <2>1. peer' \in Status /\ ghost' = (entry = NoConn)
    BY <1>2, PeerTypes DEF PresenceInv, TypeOK, Recorded
  <2>2. TypeOK'
    BY <1>2, <2>1 DEF PresenceInv, TypeOK, Recorded, Changed
  <2> QED BY <1>2, <2>1, <2>2 DEF PresenceInv, TickOwes, DotHasCause, Recorded, Changed
<1>3. CASE Evict(c)
  <2>1. TypeOK'
    BY <1>3, ConnAssumption DEF PresenceInv, TypeOK, Evict
  <2>2. DotHasCause'
    <3> SUFFICES ASSUME peer.online, entry' = NoConn, ~ghost, ~quitting
                 PROVE  \E d \in Conn : stage'[d] = "evicted"
      BY <1>3 DEF DotHasCause, Evict
    <3>1. CASE entry = c
      BY <1>3, <3>1 DEF Evict, PresenceInv, TypeOK
    <3>2. CASE entry # c
      <4>1. PICK d \in Conn : stage[d] = "evicted"
        BY <1>3, <3>2 DEF Evict, PresenceInv, DotHasCause
      <4> QED BY <1>3, <3>2, <4>1 DEF Evict, PresenceInv, TypeOK
    <3> QED BY <3>1, <3>2
  <2> QED BY <1>3, <2>1, <2>2 DEF PresenceInv, TickOwes, Evict
<1>4. CASE Unrecorded(c)
  <2>1. peer' \in Status /\ ~peer'.online
    BY <1>4, PeerTypes DEF PresenceInv, TypeOK, Unrecorded
  <2>2. TypeOK'
    BY <1>4, <2>1 DEF PresenceInv, TypeOK, Unrecorded, Changed
  <2> QED BY <1>4, <2>1, <2>2 DEF PresenceInv, TickOwes, DotHasCause, Unrecorded, Changed
<1>5. CASE Closes(c)
  <2>1. TypeOK'
    BY <1>5 DEF PresenceInv, TypeOK, Closes
  <2> QED BY <1>5, <2>1 DEF PresenceInv, TickOwes, DotHasCause, Closes
<1> QED BY <1>1, <1>2, <1>3, <1>4, <1>5 DEF Task

LEMMA TickStep ==
    ASSUME PresenceInv, Tick
    PROVE  PresenceInv'
<1>1. UNCHANGED <<online, quitting, entry, open, stage>>
  BY DEF Tick, TickBegins, TickLocates, TickCollects, TickRecords, TickSaves, TickEnds, conn
<1>2. /\ peer' \in Status /\ ghost' \in BOOLEAN
      /\ \/ (peer'.online => peer.online) /\ ghost' = ghost
         \/ ghost' = (entry = NoConn)
  BY PeerTypes
     DEF PresenceInv, TypeOK, Tick, TickBegins, TickLocates, TickCollects, TickRecords, TickSaves, TickEnds
<1>3. tick' \in {"idle", "begun", "located", "collected", "recorded", "saved"} /\ disk' \in 0 .. MaxTime
  BY DEF PresenceInv, TypeOK, Status,
         Tick, TickBegins, TickLocates, TickCollects, TickRecords, TickSaves, TickEnds
<1>4. dirty' \in BOOLEAN /\ owed' \in BOOLEAN /\ TickOwes'
  <2>1. owed \in BOOLEAN /\ dirty \in BOOLEAN /\ (owed => dirty /\ tick \notin {"idle", "begun"})
    BY DEF PresenceInv, TypeOK, TickOwes
  <2>2. CASE TickBegins
    BY <2>1, <2>2 DEF TickBegins, TickOwes
  <2>3. CASE TickLocates
    <3>1. peer.located \in BOOLEAN
      BY DEF PresenceInv, TypeOK, Status
    <3> QED BY <2>1, <2>3, <3>1 DEF TickLocates, TickOwes
  <2>4. CASE TickCollects
    BY <2>1, <2>4 DEF TickCollects, TickOwes
  <2>5. CASE TickRecords
    BY <2>1, <2>5 DEF TickRecords, TickOwes, ConnectionChanges
  <2>6. CASE TickSaves
    BY <2>1, <2>6 DEF TickSaves, TickOwes
  <2>7. CASE TickEnds
    <3>1. dirty' = FALSE /\ (owed' = FALSE \/ (~dirty /\ owed' = owed))
      BY <2>7 DEF TickEnds, Changed
    <3>2. owed' = FALSE
      BY <2>1, <3>1, Zenon
    <3> QED BY <3>1, <3>2 DEF TickOwes
  <2> QED BY <2>2, <2>3, <2>4, <2>5, <2>6, <2>7 DEF Tick
<1>5. TypeOK'
  BY <1>1, <1>2, <1>3, <1>4 DEF PresenceInv, TypeOK
<1>6. DotHasCause'
  BY <1>1, <1>2 DEF PresenceInv, DotHasCause
<1> QED BY <1>4, <1>5, <1>6 DEF PresenceInv

LEMMA NetworkStep ==
    ASSUME PresenceInv, GoOnline \/ GoOffline \/ Offline \/ Restart
    PROVE  PresenceInv'
<1>1. CASE GoOnline
  <2>1. TypeOK'
    BY <1>1 DEF PresenceInv, TypeOK, GoOnline, conn, Changed
  <2> QED BY <1>1, <2>1 DEF PresenceInv, TickOwes, DotHasCause, GoOnline, conn, Changed
<1>2. CASE GoOffline
  <2>1. TypeOK'
    BY <1>2 DEF PresenceInv, TypeOK, GoOffline
  <2> QED BY <1>2, <2>1 DEF PresenceInv, TickOwes, DotHasCause, GoOffline
<1>3. CASE Offline
  <2>1. peer' \in Status /\ ~peer'.online
    BY <1>3, PeerTypes DEF PresenceInv, TypeOK, Offline
  <2>2. TypeOK'
    BY <1>3, <2>1 DEF PresenceInv, TypeOK, Offline, conn, Changed
  <2> QED BY <1>3, <2>1, <2>2 DEF PresenceInv, TickOwes, DotHasCause, Offline, Changed
<1>4. CASE Restart
  <2>1. peer' \in Status /\ ~peer'.online
    BY <1>4, PeerTypes DEF PresenceInv, TypeOK, Restart
  <2>2. TypeOK'
    BY <1>4, <2>1 DEF PresenceInv, TypeOK, Restart, Changed
  <2> QED BY <1>4, <2>1, <2>2 DEF PresenceInv, TickOwes, DotHasCause, Restart, Changed
<1> QED BY <1>1, <1>2, <1>3, <1>4

LEMMA PresenceStep == PresenceInv /\ [Next]_vars => PresenceInv'
<1> SUFFICES ASSUME PresenceInv, [Next]_vars PROVE PresenceInv'
  OBVIOUS
<1>1. CASE UNCHANGED vars
  BY <1>1 DEF PresenceInv, TypeOK, TickOwes, DotHasCause, vars, conn
<1>2. CASE Next
  BY <1>2, WordStep, ConnectionStep, TickStep, NetworkStep DEF Next
<1> QED BY <1>1, <1>2

\* Every variable of Presence has its type, and the entry is of a connection whose task lives.
THEOREM TypeCorrect == Spec => []TypeOK
<1>1. PresenceInv => TypeOK
  BY DEF PresenceInv
<1> QED BY <1>1, InitPresence, PresenceStep, PTL DEF Spec

\* With the tasks through, a member shown online is connected, unless it was recorded after it had
\* gone, and clients were told of all they would see (presence.rs; engine.rs: register_mesh, tick).
THEOREM DotIsTrue == Spec => []ShownIsTrue
<1>1. PresenceInv => ShownIsTrue
  BY DEF PresenceInv, TickOwes, DotHasCause, ShownIsTrue, AtRest
<1> QED BY <1>1, InitPresence, PresenceStep, PTL DEF Spec

-----------------------------------------------------------------------------
(***************************************************************************)
(* Recovery.                                                               *)
(***************************************************************************)
RecoverySpec == RecoveryInit /\ [][RecoveryNext]_recoveryVars

LEMMA RecoveryBounds ==
    /\ DialTimeout \in Nat /\ DialTimeout > 0 /\ MaxBackoff \in Nat /\ MaxBackoff > 0
    /\ Resync \in Nat /\ Cooldown \in Nat /\ Fresh \in Nat /\ MaxFails \in Nat /\ MaxMishaps \in Nat
    /\ Slowest \in Nat /\ \A p \in Pace : Every[p] \in Nat /\ Every[p] > 0 /\ Every[p] <= Slowest
    /\ \A l \in Nat, c \in BOOLEAN : [left |-> l, clean |-> c] # NoDial
<1>1. /\ DialTimeout \in Nat /\ DialTimeout > 0 /\ MaxBackoff \in Nat /\ MaxBackoff > 0
      /\ Resync \in Nat /\ Cooldown \in Nat /\ Fresh \in Nat /\ MaxFails \in Nat /\ MaxMishaps \in Nat
  BY RecoveryAssumptions
<1>2. \A p \in Pace : Every[p] \in Nat /\ Every[p] > 0
  BY RecoveryAssumptions
<1>3. Slowest \in Nat /\ \A p \in Pace : Every[p] <= Slowest
  BY <1>2 DEF Slowest, Pace
<1>4. \A l \in Nat, c \in BOOLEAN : [left |-> l, clean |-> c] # NoDial
  BY RecoveryAssumptions
<1> QED BY <1>1, <1>2, <1>3, <1>4

\* What the passes that failed have cost.
Slack == mishaps * Slowest

LEMMA Slacks ==
    ASSUME mishaps \in Nat
    PROVE  /\ Slack \in Nat /\ (1 + mishaps) * Slowest = Slowest + Slack
           /\ mishaps' = mishaps => Slack' = Slack
           /\ mishaps' = mishaps + 1 => Slack' = Slowest + Slack
BY RecoveryBounds DEF Slack, Slowest

\* How long until a pass is at one of these stages, unless it fails.
Soon(stages) == IF woken \/ pass \in stages THEN 0 ELSE Every[pace] - rest

WorldTypeOK ==
    /\ active \in BOOLEAN /\ linked \in BOOLEAN /\ path \in BOOLEAN
    /\ mishaps \in 0 .. MaxMishaps
DialTypeOK ==
    /\ dial \in [left : 0 .. DialTimeout, clean : BOOLEAN] \union {NoDial}
    /\ wait \in 0 .. MaxBackoff
LoopTypeOK ==
    /\ resync \in 0 .. Resync + 1 /\ pass \in {"idle", "begun", "missing", "connected"}
    /\ pace \in Pace /\ woken \in BOOLEAN /\ rest \in Nat
    /\ ~woken => rest <= Every[pace]
ClockTypeOK == up \in Nat /\ hinted \in Nat /\ unseeded \in Nat

\* A dial that nothing stands in the way of succeeds; one that is in vain was begun before the
\* member could be reached; the wait after it ends; and the pass that dials then comes.
UpInTime ==
    /\ ~Waits => up = 0
    /\ Waits =>
          /\ dial # NoDial /\ dial.clean
                => up < 2 * DialTimeout + MaxBackoff + Slowest + Slack - dial.left
          /\ dial # NoDial /\ ~dial.clean => up <= DialTimeout - dial.left
          /\ dial = NoDial /\ wait > 0 => up <= DialTimeout + MaxBackoff - wait
          /\ dial = NoDial /\ wait = 0
                => up < DialTimeout + MaxBackoff + Slowest + Slack - Soon({"begun", "missing"})

\* After a hint there is no wait, and a dial is one that nothing stands in the way of.
HintInTime ==
    hinted > 0 =>
        /\ Waits
        /\ dial # NoDial => dial.clean /\ hinted <= 1 + DialTimeout + Slack - dial.left
        /\ dial = NoDial => wait = 0 /\ hinted <= 1 + Slack - Soon({"begun", "missing"})

\* The member was seeded when resync began, or a pass that seeds it comes.
SeedInTime ==
    /\ ~(active /\ linked) => unseeded = 0
    /\ active /\ linked =>
          /\ resync <= Resync => unseeded <= resync
          /\ resync > Resync => unseeded <= Resync + Slowest + Slack - Soon({"begun", "connected"})

RecoveryTypeOK == WorldTypeOK /\ DialTypeOK /\ LoopTypeOK /\ ClockTypeOK
RecoveryInv == RecoveryTypeOK /\ UpInTime /\ HintInTime /\ SeedInTime

LEMMA Soonest ==
    ASSUME LoopTypeOK, NEW stages
    PROVE  /\ Soon(stages) \in Nat /\ Soon(stages) <= Slowest
           /\ woken \/ pass \in stages => Soon(stages) = 0
           /\ ~woken /\ pass \notin stages => Soon(stages) = Every[pace] - rest
BY RecoveryBounds DEF LoopTypeOK, Soon

LEMMA SoonestNext ==
    ASSUME LoopTypeOK', NEW stages
    PROVE  /\ Soon(stages)' \in Nat /\ Soon(stages)' <= Slowest
           /\ woken' \/ pass' \in stages => Soon(stages)' = 0
           /\ ~woken' /\ pass' \notin stages => Soon(stages)' = Every[pace'] - rest'
BY RecoveryBounds DEF LoopTypeOK, Soon, Pace

\* A clock that has just begun leaves all the time there is.
TimeLeft ==
    RecoveryTypeOK => /\ up = 0 => UpInTime
                      /\ hinted = 0 => HintInTime
                      /\ unseeded = 0 => SeedInTime

LEMMA FreshClocks == TimeLeft
<1> SUFFICES ASSUME RecoveryTypeOK
             PROVE  /\ up = 0 => UpInTime
                    /\ hinted = 0 => HintInTime
                    /\ unseeded = 0 => SeedInTime
  BY DEF TimeLeft
<1>1. /\ Soon({"begun", "missing"}) \in Nat /\ Soon({"begun", "missing"}) <= Slowest
      /\ Soon({"begun", "connected"}) \in Nat /\ Soon({"begun", "connected"}) <= Slowest
  BY Soonest DEF RecoveryTypeOK
<1>2. Slack \in Nat
  BY RecoveryBounds, Slacks DEF RecoveryTypeOK, WorldTypeOK
<1>3. wait \in 0 .. MaxBackoff /\ resync \in Nat /\ (dial # NoDial => dial.left \in 0 .. DialTimeout)
  BY RecoveryBounds DEF RecoveryTypeOK, DialTypeOK, LoopTypeOK
<1>4. up = 0 => UpInTime
  BY <1>1, <1>2, <1>3, RecoveryBounds DEF UpInTime
<1>5. hinted = 0 => HintInTime
  BY DEF HintInTime
<1>6. unseeded = 0 => SeedInTime
  BY <1>1, <1>2, <1>3, RecoveryBounds DEF SeedInTime
<1> QED BY <1>4, <1>5, <1>6

LEMMA FreshClocksNext == TimeLeft'
BY FreshClocks, PTL

LEMMA InitRecovery == RecoveryInit => RecoveryInv
<1> SUFFICES ASSUME RecoveryInit PROVE RecoveryInv
  OBVIOUS
<1>1. WorldTypeOK
  <2>1. mishaps \in 0 .. MaxMishaps
    BY RecoveryBounds DEF RecoveryInit
  <2> QED BY <2>1 DEF RecoveryInit, WorldTypeOK
<1>2. DialTypeOK
  BY RecoveryBounds DEF RecoveryInit, DialTypeOK
<1>3. LoopTypeOK
  BY RecoveryBounds DEF RecoveryInit, LoopTypeOK, Pace
<1>4. ClockTypeOK
  BY DEF RecoveryInit, ClockTypeOK
<1>5. UpInTime /\ HintInTime /\ SeedInTime
  BY DEF RecoveryInit, UpInTime, HintInTime, SeedInTime, Waits
<1> QED BY <1>1, <1>2, <1>3, <1>4, <1>5 DEF RecoveryInv, RecoveryTypeOK

-----------------------------------------------------------------------------
(***************************************************************************)
(* Steps that take no time.                                                *)
(***************************************************************************)
Dials == {"begun", "missing"}
Seeding == {"begun", "connected"}

LEMMA Instant ==
    ASSUME RecoveryInv, NEW seed \in BOOLEAN, Clocks(0, FALSE, seed),
           WorldTypeOK', DialTypeOK', LoopTypeOK'
    PROVE  /\ RecoveryTypeOK'
           /\ UpInTime' \/ (Waits /\ Waits' /\ up' = up)
           /\ HintInTime' \/ (hinted > 0 /\ Waits' /\ hinted' = hinted)
           /\ SeedInTime' \/ (active /\ linked /\ active' /\ linked' /\ ~seed /\ unseeded' = unseeded)
<1>1. up \in Nat /\ hinted \in Nat /\ unseeded \in Nat
  BY DEF RecoveryInv, RecoveryTypeOK, ClockTypeOK
<1>2. /\ up' = (IF Waits' THEN up ELSE 0)
      /\ hinted' = (IF Waits' THEN hinted ELSE 0)
      /\ unseeded' = (IF seed \/ ~active' \/ ~linked' THEN 0 ELSE unseeded)
  BY <1>1 DEF Clocks
<1>3. RecoveryTypeOK'
  BY <1>1, <1>2 DEF RecoveryTypeOK, ClockTypeOK
<1>4. /\ up' = 0 => UpInTime'
      /\ hinted' = 0 => HintInTime'
      /\ unseeded' = 0 => SeedInTime'
  BY <1>3, FreshClocksNext DEF TimeLeft
<1>5. /\ ~Waits => up = 0
      /\ ~(active /\ linked) => unseeded = 0
  BY DEF RecoveryInv, UpInTime, SeedInTime
<1>6. UpInTime' \/ (Waits /\ Waits' /\ up' = up)
  BY <1>2, <1>4, <1>5
<1>7. HintInTime' \/ (hinted > 0 /\ Waits' /\ hinted' = hinted)
  BY <1>1, <1>2, <1>4
<1>8. SeedInTime' \/ (active /\ linked /\ active' /\ linked' /\ ~seed /\ unseeded' = unseeded)
  BY <1>2, <1>4, <1>5
<1> QED BY <1>3, <1>6, <1>7, <1>8

\* A step that takes no time, and after which no dial or pass that matters comes later.
LEMMA NothingLater ==
    ASSUME RecoveryInv, Clocks(0, FALSE, FALSE), WorldTypeOK', DialTypeOK', LoopTypeOK',
           mishaps' = mishaps,
           Waits /\ Waits' => /\ dial' = dial /\ (wait' = wait \/ wait' = 0)
                              /\ Soon(Dials)' <= Soon(Dials),
           active /\ linked /\ active' /\ linked' =>
               /\ resync' = resync \/ (resync' = Resync + 1 /\ woken')
               /\ Soon(Seeding)' <= Soon(Seeding)
    PROVE  RecoveryInv'
<1>1. /\ RecoveryTypeOK'
      /\ UpInTime' \/ (Waits /\ Waits' /\ up' = up)
      /\ HintInTime' \/ (hinted > 0 /\ Waits' /\ hinted' = hinted)
      /\ SeedInTime' \/ (active /\ linked /\ active' /\ linked' /\ unseeded' = unseeded)
  BY Instant
<1>2. /\ Slack \in Nat /\ Slack' = Slack /\ Soon(Dials) \in Nat /\ Soon(Dials)' \in Nat
      /\ Soon(Seeding) \in Nat /\ Soon(Seeding)' \in Nat
      /\ Soon(Dials) <= Slowest /\ (woken' => Soon(Seeding)' = 0)
  BY Slacks, Soonest, SoonestNext, RecoveryBounds DEF RecoveryInv, RecoveryTypeOK, WorldTypeOK
<1>3. UpInTime'
  <2> SUFFICES ASSUME Waits, Waits', up' = up PROVE UpInTime'
    BY <1>1
  <2>1. /\ dial' = dial /\ (wait' = wait \/ wait' = 0)
        /\ Soon(Dials)' <= Soon(Dials) /\ up \in Nat /\ wait \in Nat
    BY RecoveryBounds DEF RecoveryInv, RecoveryTypeOK, ClockTypeOK, DialTypeOK
  <2>2. dial # NoDial /\ dial.clean => up < 2 * DialTimeout + MaxBackoff + Slowest + Slack - dial.left
    BY DEF RecoveryInv, UpInTime
  <2>3. dial # NoDial /\ ~dial.clean => up <= DialTimeout - dial.left
    BY DEF RecoveryInv, UpInTime
  <2>4. dial = NoDial /\ wait > 0 => up <= DialTimeout + MaxBackoff - wait
    BY DEF RecoveryInv, UpInTime
  <2>5. dial = NoDial /\ wait = 0 => up < DialTimeout + MaxBackoff + Slowest + Slack - Soon(Dials)'
    BY <1>2, <2>1, RecoveryBounds DEF RecoveryInv, UpInTime, Dials
  <2>6. dial = NoDial /\ wait > 0 => up < DialTimeout + MaxBackoff + Slowest + Slack - Soon(Dials)'
    BY <1>2, <2>1, <2>4, RecoveryBounds
  <2>7. dial = NoDial => up < DialTimeout + MaxBackoff + Slowest + Slack - Soon(Dials)'
    BY <2>1, <2>5, <2>6
  <2> QED BY <1>2, <2>1, <2>2, <2>3, <2>4, <2>7 DEF UpInTime, Dials
<1>4. HintInTime'
  <2> SUFFICES ASSUME hinted > 0, Waits', hinted' = hinted PROVE HintInTime'
    BY <1>1
  <2>1. /\ Waits /\ hinted \in Nat
        /\ dial # NoDial => dial.clean /\ hinted <= 1 + DialTimeout + Slack - dial.left
        /\ dial = NoDial => wait = 0 /\ hinted <= 1 + Slack - Soon(Dials)
    BY DEF RecoveryInv, RecoveryTypeOK, ClockTypeOK, HintInTime, Dials
  <2>2. dial' = dial /\ (wait' = wait \/ wait' = 0) /\ Soon(Dials)' <= Soon(Dials)
    BY <2>1
  <2>3. dial = NoDial => hinted <= 1 + Slack - Soon(Dials)'
    BY <1>2, <2>1, <2>2
  <2> QED BY <1>2, <2>1, <2>2, <2>3 DEF HintInTime, Dials
<1>5. SeedInTime'
  <2> SUFFICES ASSUME active, linked, active', linked', unseeded' = unseeded PROVE SeedInTime'
    BY <1>1
  <2>1. /\ resync' = resync \/ (resync' = Resync + 1 /\ Soon(Seeding)' = 0)
        /\ Soon(Seeding)' <= Soon(Seeding) /\ unseeded \in Nat /\ resync \in 0 .. Resync + 1
    BY <1>2 DEF RecoveryInv, RecoveryTypeOK, ClockTypeOK, LoopTypeOK
  <2>2. /\ resync <= Resync => unseeded <= resync
        /\ resync > Resync => unseeded <= Resync + Slowest + Slack - Soon(Seeding)
    BY DEF RecoveryInv, SeedInTime, Seeding
  <2>3. CASE resync' = resync
    <3>1. resync > Resync => unseeded <= Resync + Slowest + Slack - Soon(Seeding)'
      BY <1>2, <2>1, <2>2, RecoveryBounds
    <3> QED BY <1>2, <2>2, <2>3, <3>1 DEF SeedInTime, Seeding
  <2>4. CASE resync' = Resync + 1 /\ Soon(Seeding)' = 0
    <3>1. unseeded <= Resync + Slowest + Slack - Soon(Seeding)'
      BY <1>2, <2>1, <2>2, <2>4, RecoveryBounds
    <3>2. ~(Resync + 1 <= Resync)
      BY RecoveryBounds
    <3> QED BY <1>2, <2>4, <3>1, <3>2 DEF SeedInTime, Seeding
  <2> QED BY <2>1, <2>3, <2>4
<1> QED BY <1>1, <1>3, <1>4, <1>5 DEF RecoveryInv

\* The connection comes or goes, by either end.
LEMMA LinkStep ==
    ASSUME RecoveryInv, Accepted \/ DialSucceeds \/ LinkEnds, Clocks(0, FALSE, FALSE)
    PROVE  RecoveryInv'
<1>1. /\ UNCHANGED <<active, path, resync, pass, pace, woken, rest, mishaps>>
      /\ linked' \in BOOLEAN /\ (dial' = dial \/ dial' = NoDial) /\ (wait' = wait \/ wait' = 0)
      /\ ~(Waits /\ Waits')
  BY DEF Accepted, DialSucceeds, LinkEnds, Link, ResetDialBackoff, backoff, swarm, loop, Waits
<1>2. WorldTypeOK' /\ DialTypeOK'
  BY <1>1, RecoveryBounds DEF RecoveryInv, RecoveryTypeOK, WorldTypeOK, DialTypeOK
<1>3. LoopTypeOK' /\ Soon(Seeding)' = Soon(Seeding)
  BY <1>1 DEF RecoveryInv, RecoveryTypeOK, LoopTypeOK, Soon, Pace
<1>4. Soon(Seeding)' <= Soon(Seeding)
  BY <1>3, Soonest DEF RecoveryInv, RecoveryTypeOK
<1> QED BY <1>1, <1>2, <1>3, <1>4, NothingLater

\* A hint that ends the wait, or the pace, and at most wakes the loop.
LEMMA WakeStep ==
    ASSUME RecoveryInv, Clocks(0, FALSE, FALSE), Heard \/ DemandDial \/ \E p \in Pace : SetPace(p)
    PROVE  RecoveryInv'
<1>1. /\ UNCHANGED <<active, linked, path, mishaps, dial, resync, pass, rest>>
      /\ (wait' = wait \/ wait' = 0) /\ pace' \in Pace /\ woken' \in BOOLEAN
      /\ woken => woken'
      /\ woken' \/ pace' = pace
  BY DEF Heard, DemandDial, SetPace, ResetDialBackoff, world, backoff, swarm, loop,
         RecoveryInv, RecoveryTypeOK, LoopTypeOK
<1>2. WorldTypeOK' /\ DialTypeOK'
  BY <1>1, RecoveryBounds DEF RecoveryInv, RecoveryTypeOK, WorldTypeOK, DialTypeOK
<1>3. LoopTypeOK'
  BY <1>1 DEF RecoveryInv, RecoveryTypeOK, LoopTypeOK, Pace
<1>4. \A stages : Soon(stages)' <= Soon(stages)
  <2> SUFFICES ASSUME NEW stages PROVE Soon(stages)' <= Soon(stages)
    OBVIOUS
  <2>1. LoopTypeOK
    BY DEF RecoveryInv, RecoveryTypeOK
  <2>2. Soon(stages)' = 0 \/ Soon(stages)' = Soon(stages)
    BY <1>1 DEF Soon
  <2>3. Soon(stages) \in Nat
    BY <2>1, Soonest
  <2> QED BY <2>2, <2>3
<1> QED BY <1>1, <1>2, <1>3, <1>4, NothingLater

LEMMA ChangedNetworkStep ==
    ASSUME RecoveryInv, NetworkChanged, Clocks(0, cool = 0 /\ dial = NoDial, FALSE)
    PROVE  RecoveryInv'
<1>1. /\ UNCHANGED <<active, linked, path, mishaps, dial, pass, rest, pace>>
      /\ woken' = TRUE
      /\ \/ cool = 0 /\ resync' = Resync + 1 /\ wait' = 0
         \/ cool # 0 /\ resync' = resync /\ wait' = wait
  BY DEF NetworkChanged, Burst, ExpireDialBackoff, world, loop, backoff
<1>2. WorldTypeOK' /\ DialTypeOK'
  BY <1>1, RecoveryBounds DEF RecoveryInv, RecoveryTypeOK, WorldTypeOK, DialTypeOK
<1>3. LoopTypeOK'
  BY <1>1, RecoveryBounds DEF RecoveryInv, RecoveryTypeOK, LoopTypeOK, Pace
<1>4. Soon(Dials)' = 0 /\ Soon(Seeding)' = 0 /\ Soon(Dials) \in Nat /\ Soon(Seeding) \in Nat
  BY <1>1, Soonest DEF RecoveryInv, RecoveryTypeOK, Soon
<1>5. /\ Slack \in Nat /\ Slack' = Slack
  BY <1>1, Slacks, RecoveryBounds DEF RecoveryInv, RecoveryTypeOK, WorldTypeOK
<1>6. CASE Clocks(0, FALSE, FALSE)
  BY <1>1, <1>2, <1>3, <1>4, <1>6, NothingLater
<1>7. CASE cool = 0 /\ dial = NoDial /\ Waits'
  <2>1. /\ Waits /\ wait' = 0 /\ dial' = NoDial /\ resync' = Resync + 1 /\ ~linked'
        /\ hinted' = 1 /\ up' = up + 0 /\ unseeded' = 0
    BY <1>1, <1>7 DEF Clocks, Waits
  <2>2. up \in Nat /\ up' = up
    BY <2>1 DEF RecoveryInv, RecoveryTypeOK, ClockTypeOK
  <2>3. RecoveryTypeOK'
    BY <1>2, <1>3, <2>1, <2>2 DEF RecoveryTypeOK, ClockTypeOK
  <2>4. up < DialTimeout + MaxBackoff + Slowest + Slack
    <3>1. up <= DialTimeout + MaxBackoff \/ up < DialTimeout + MaxBackoff + Slowest + Slack
      BY <1>4, <1>5, <1>7, <2>1, <2>2, RecoveryBounds
         DEF RecoveryInv, UpInTime, RecoveryTypeOK, DialTypeOK, Dials
    <3> QED BY <1>5, <2>2, <3>1, RecoveryBounds, Soonest DEF Slowest, Pace
  <2>5. UpInTime'
    BY <1>4, <1>5, <1>7, <2>1, <2>2, <2>4, RecoveryBounds DEF UpInTime, Dials
  <2>6. HintInTime'
    BY <1>4, <1>5, <1>7, <2>1 DEF HintInTime, Dials
  <2>7. SeedInTime'
    BY <2>1, <2>3, FreshClocksNext DEF TimeLeft
  <2> QED BY <2>3, <2>5, <2>6, <2>7 DEF RecoveryInv
<1> QED BY <1>6, <1>7 DEF Clocks

LEMMA PathStep ==
    ASSUME RecoveryInv, PathMoves, Clocks(0, FALSE, FALSE)
    PROVE  RecoveryInv'
<1>1. /\ UNCHANGED <<active, linked, mishaps, wait, resync, pass, pace, woken, rest>>
      /\ path' = ~path /\ dial' = Hindered
  BY DEF PathMoves, backoff, swarm, loop
<1>2. WorldTypeOK' /\ ~(Waits /\ Waits')
  BY <1>1 DEF RecoveryInv, RecoveryTypeOK, WorldTypeOK, Waits
<1>3. DialTypeOK'
  BY <1>1 DEF RecoveryInv, RecoveryTypeOK, DialTypeOK, Hindered
<1>4. LoopTypeOK' /\ Soon(Seeding)' = Soon(Seeding)
  BY <1>1 DEF RecoveryInv, RecoveryTypeOK, LoopTypeOK, Soon, Pace
<1>5. Soon(Seeding)' <= Soon(Seeding)
  BY <1>4, Soonest DEF RecoveryInv, RecoveryTypeOK
<1> QED BY <1>1, <1>2, <1>3, <1>4, <1>5, NothingLater

LEMMA NetStep ==
    ASSUME RecoveryInv, Connect \/ Disconnect, Clocks(0, FALSE, FALSE)
    PROVE  RecoveryInv'
<1>1. /\ UNCHANGED <<path, mishaps, pass, pace, woken, rest>>
      /\ active' = ~active /\ linked' \in BOOLEAN /\ (dial' = dial \/ dial' = Hindered)
      /\ (wait' = wait \/ wait' = 0) /\ (resync' = resync \/ resync' = Resync + 1)
  BY DEF Connect, Disconnect, ResetDialBackoff, RecoveryInv, RecoveryTypeOK, WorldTypeOK, backoff, swarm, loop
<1>2. WorldTypeOK' /\ ~(Waits /\ Waits') /\ ~(active /\ active')
  BY <1>1 DEF RecoveryInv, RecoveryTypeOK, WorldTypeOK, Waits
<1>3. DialTypeOK'
  <2>1. {dial, Hindered} \subseteq [left : 0 .. DialTimeout, clean : BOOLEAN] \union {NoDial}
    BY DEF RecoveryInv, RecoveryTypeOK, DialTypeOK, Hindered
  <2>2. wait' \in 0 .. MaxBackoff
    BY <1>1, RecoveryBounds DEF RecoveryInv, RecoveryTypeOK, DialTypeOK
  <2> QED BY <1>1, <2>1, <2>2 DEF DialTypeOK
<1>4. LoopTypeOK'
  BY <1>1, RecoveryBounds DEF RecoveryInv, RecoveryTypeOK, LoopTypeOK, Pace
<1> QED BY <1>1, <1>2, <1>3, <1>4, NothingLater

\* A pass begins, and looks at the connections.
LEMMA LookStep ==
    ASSUME RecoveryInv, PassBegins \/ PassLooks, Clocks(0, FALSE, FALSE)
    PROVE  RecoveryInv'
<1>1. UNCHANGED <<active, linked, path, mishaps, dial, wait, resync, pace>>
  BY DEF PassBegins, PassLooks, world, backoff, swarm
<1>2. WorldTypeOK' /\ DialTypeOK'
  BY <1>1, RecoveryBounds DEF RecoveryInv, RecoveryTypeOK, WorldTypeOK, DialTypeOK
<1>3. LoopTypeOK'
  <2>1. pass' \in {"idle", "begun", "missing", "connected"} /\ rest' \in {0, rest} /\ woken' \in BOOLEAN
    BY DEF PassBegins, PassLooks, RecoveryInv, RecoveryTypeOK, LoopTypeOK
  <2>2. ~woken' => rest' <= Every[pace]
    <3>1. 0 <= Every[pace] /\ (~woken => rest <= Every[pace])
      BY RecoveryBounds DEF RecoveryInv, RecoveryTypeOK, LoopTypeOK
    <3>2. rest' = 0 \/ (rest' = rest /\ woken' = woken)
      BY DEF PassBegins, PassLooks
    <3> QED BY <3>1, <3>2
  <2> QED BY <1>1, <2>1, <2>2 DEF RecoveryInv, RecoveryTypeOK, LoopTypeOK, Pace
<1>4. /\ Soon(Dials) \in Nat /\ Soon(Seeding) \in Nat
      /\ active /\ ~linked => Soon(Dials)' = 0
      /\ active /\ linked => Soon(Seeding)' = 0
  BY <1>1, Soonest DEF PassBegins, PassLooks, RecoveryInv, RecoveryTypeOK, Soon, Dials, Seeding
<1> QED BY <1>1, <1>2, <1>3, <1>4, NothingLater DEF Waits

\* A pass that fails puts everything off until the next one.
LEMMA FailedPassStep ==
    ASSUME RecoveryInv, PassFails, Clocks(0, FALSE, FALSE)
    PROVE  RecoveryInv'
<1>1. /\ UNCHANGED <<active, linked, path, dial, wait, resync, pace, woken, rest>>
      /\ pass = "begun" /\ pass' = "idle" /\ mishaps < MaxMishaps /\ mishaps' = mishaps + 1
  BY DEF PassFails, backoff, swarm
<1>2. WorldTypeOK' /\ DialTypeOK'
  <2>1. mishaps' \in 0 .. MaxMishaps
    BY <1>1, RecoveryBounds DEF RecoveryInv, RecoveryTypeOK, WorldTypeOK
  <2> QED BY <1>1, <2>1, RecoveryBounds DEF RecoveryInv, RecoveryTypeOK, WorldTypeOK, DialTypeOK
<1>3. LoopTypeOK'
  BY <1>1 DEF RecoveryInv, RecoveryTypeOK, LoopTypeOK, Pace
<1>4. /\ RecoveryTypeOK'
      /\ UpInTime' \/ (Waits /\ Waits' /\ up' = up)
      /\ HintInTime' \/ (hinted > 0 /\ Waits' /\ hinted' = hinted)
      /\ SeedInTime' \/ (active /\ linked /\ active' /\ linked' /\ unseeded' = unseeded)
  BY <1>2, <1>3, Instant
<1>5. /\ Slack \in Nat /\ Slack' = Slowest + Slack /\ Slowest \in Nat
      /\ Soon(Dials) = 0 /\ Soon(Seeding) = 0
      /\ Soon(Dials)' \in Nat /\ Soon(Dials)' <= Slowest
      /\ Soon(Seeding)' \in Nat /\ Soon(Seeding)' <= Slowest
  BY <1>1, <1>3, Slacks, Soonest, SoonestNext, RecoveryBounds
     DEF RecoveryInv, RecoveryTypeOK, WorldTypeOK, Dials, Seeding
<1>6. UpInTime'
  <2> SUFFICES ASSUME Waits, Waits', up' = up PROVE UpInTime'
    BY <1>4
  <2>1. up \in Nat /\ (dial # NoDial => dial.left \in Nat)
    BY RecoveryBounds DEF RecoveryInv, RecoveryTypeOK, ClockTypeOK, DialTypeOK
  <2>2. dial # NoDial /\ dial.clean => up < 2 * DialTimeout + MaxBackoff + Slowest + (Slowest + Slack) - dial.left
    BY <1>5, <2>1, RecoveryBounds DEF RecoveryInv, UpInTime
  <2>3. dial # NoDial /\ ~dial.clean => up <= DialTimeout - dial.left
    BY DEF RecoveryInv, UpInTime
  <2>4. dial = NoDial /\ wait > 0 => up <= DialTimeout + MaxBackoff - wait
    BY DEF RecoveryInv, UpInTime
  <2>5. dial = NoDial /\ wait = 0
            => up < DialTimeout + MaxBackoff + Slowest + (Slowest + Slack) - Soon(Dials)'
    BY <1>5, <2>1, RecoveryBounds DEF RecoveryInv, UpInTime, Dials
  <2> QED BY <1>1, <1>5, <2>2, <2>3, <2>4, <2>5 DEF UpInTime, Dials
<1>7. HintInTime'
  <2> SUFFICES ASSUME hinted > 0, Waits', hinted' = hinted PROVE HintInTime'
    BY <1>4
  <2>1. /\ hinted \in Nat /\ (dial # NoDial => dial.left \in Nat)
        /\ dial # NoDial => dial.clean /\ hinted <= 1 + DialTimeout + Slack - dial.left
        /\ dial = NoDial => wait = 0 /\ hinted <= 1 + Slack - Soon(Dials)
    BY RecoveryBounds DEF RecoveryInv, RecoveryTypeOK, ClockTypeOK, DialTypeOK, HintInTime, Dials
  <2>2. dial # NoDial => hinted <= 1 + DialTimeout + (Slowest + Slack) - dial.left
    BY <1>5, <2>1, RecoveryBounds
  <2>3. dial = NoDial => hinted <= 1 + (Slowest + Slack) - Soon(Dials)'
    BY <1>5, <2>1
  <2> QED BY <1>1, <1>5, <2>1, <2>2, <2>3 DEF HintInTime, Dials
<1>8. SeedInTime'
  <2> SUFFICES ASSUME active, linked, active', linked', unseeded' = unseeded PROVE SeedInTime'
    BY <1>4
  <2>1. /\ resync <= Resync => unseeded <= resync
        /\ resync > Resync => unseeded <= Resync + Slowest + Slack - Soon(Seeding)
        /\ unseeded \in Nat
    BY DEF RecoveryInv, RecoveryTypeOK, ClockTypeOK, SeedInTime, Seeding
  <2>2. resync > Resync => unseeded <= Resync + Slowest + (Slowest + Slack) - Soon(Seeding)'
    BY <1>5, <2>1, RecoveryBounds
  <2> QED BY <1>1, <1>5, <2>1, <2>2 DEF SeedInTime, Seeding
<1> QED BY <1>4, <1>6, <1>7, <1>8 DEF RecoveryInv

\* A dial that fails while the member could be reached was begun in vain, before that.
LEMMA FailedDialStep ==
    ASSUME RecoveryInv, DialFails, Clocks(0, FALSE, FALSE)
    PROVE  RecoveryInv'
<1>1. /\ UNCHANGED <<active, linked, path, mishaps, resync, pass, pace, woken, rest>>
      /\ dial # NoDial /\ dial' = NoDial /\ wait' \in 0 .. MaxBackoff
      /\ Waits => ~dial.clean
  BY RecoveryBounds DEF DialFails, RecordDialFailure, Backoff, Waits, world, swarm, loop
<1>2. WorldTypeOK' /\ DialTypeOK'
  BY <1>1 DEF RecoveryInv, RecoveryTypeOK, WorldTypeOK, DialTypeOK
<1>3. LoopTypeOK'
  BY <1>1 DEF RecoveryInv, RecoveryTypeOK, LoopTypeOK, Pace
<1>4. /\ RecoveryTypeOK'
      /\ UpInTime' \/ (Waits /\ Waits' /\ up' = up)
      /\ HintInTime' \/ (hinted > 0 /\ Waits' /\ hinted' = hinted)
      /\ SeedInTime' \/ (active /\ linked /\ active' /\ linked' /\ unseeded' = unseeded)
  BY <1>2, <1>3, Instant
<1>5. /\ Slack \in Nat /\ Slack' = Slack
      /\ Soon(Dials) \in Nat /\ Soon(Dials) <= Slowest
      /\ Soon(Dials)' = Soon(Dials) /\ Soon(Seeding)' = Soon(Seeding)
  BY <1>1, Slacks, Soonest, RecoveryBounds DEF RecoveryInv, RecoveryTypeOK, WorldTypeOK, Soon
<1>6. UpInTime'
  <2> SUFFICES ASSUME Waits, Waits', up' = up PROVE UpInTime'
    BY <1>4
  <2>1. up \in Nat /\ up <= DialTimeout
    <3>1. dial.left \in Nat /\ up \in Nat /\ up <= DialTimeout - dial.left
      BY <1>1, RecoveryBounds DEF RecoveryInv, RecoveryTypeOK, ClockTypeOK, DialTypeOK, UpInTime
    <3> QED BY <3>1, RecoveryBounds
  <2>2. \A w \in 0 .. MaxBackoff : up <= DialTimeout + MaxBackoff - w
    BY <2>1, RecoveryBounds
  <2>3. up < DialTimeout + MaxBackoff + Slowest + Slack - Soon(Dials)
    BY <1>5, <2>1, RecoveryBounds
  <2> QED BY <1>1, <1>5, <2>2, <2>3 DEF UpInTime, Dials
<1>7. HintInTime'
  BY <1>1, <1>4 DEF RecoveryInv, HintInTime
<1>8. SeedInTime'
  <2> SUFFICES ASSUME active, linked, active', linked', unseeded' = unseeded PROVE SeedInTime'
    BY <1>4
  <2> QED BY <1>1, <1>5 DEF RecoveryInv, SeedInTime, Seeding
<1> QED BY <1>4, <1>6, <1>7, <1>8 DEF RecoveryInv

\* A pass dials, if there is nothing to wait for, and seeds, if it is time.
LEMMA DialStep ==
    ASSUME RecoveryInv, PassDials, Clocks(0, FALSE, Seeds)
    PROVE  RecoveryInv'
<1>1. /\ UNCHANGED <<active, linked, path, mishaps, wait, pace, woken, rest>>
      /\ pass \in {"missing", "connected"} /\ pass' = "idle"
      /\ dial' = IF pass = "missing" /\ wait = 0 /\ dial = NoDial
                 THEN [left |-> DialTimeout, clean |-> path] ELSE dial
      /\ resync' = IF Seeds THEN 0 ELSE resync
  BY DEF PassDials, world, backoff
<1>2. WorldTypeOK'
  BY <1>1 DEF RecoveryInv, RecoveryTypeOK, WorldTypeOK
<1>3. DialTypeOK'
  <2>1. [left |-> DialTimeout, clean |-> path] \in [left : 0 .. DialTimeout, clean : BOOLEAN]
    BY RecoveryBounds DEF RecoveryInv, RecoveryTypeOK, WorldTypeOK
  <2> QED BY <1>1, <2>1 DEF RecoveryInv, RecoveryTypeOK, DialTypeOK
<1>4. LoopTypeOK'
  BY <1>1, RecoveryBounds DEF RecoveryInv, RecoveryTypeOK, LoopTypeOK, Pace
<1>5. /\ RecoveryTypeOK'
      /\ UpInTime' \/ (Waits /\ Waits' /\ up' = up)
      /\ HintInTime' \/ (hinted > 0 /\ Waits' /\ hinted' = hinted)
      /\ SeedInTime' \/ (active /\ linked /\ active' /\ linked' /\ ~Seeds /\ unseeded' = unseeded)
  <2>1. PICK seed \in BOOLEAN : seed = (Seeds = TRUE) /\ Clocks(0, FALSE, seed)
    BY DEF Clocks
  <2> QED BY <1>2, <1>3, <1>4, <2>1, Instant
<1>6. /\ Slack \in Nat /\ Slack' = Slack
      /\ Soon(Dials) \in Nat /\ Soon(Dials)' \in Nat
      /\ pass = "connected" => Soon(Dials)' = Soon(Dials)
      /\ pass = "missing" => Soon(Dials) = 0 /\ Soon(Seeding)' = Soon(Seeding)
      /\ pass = "connected" => Soon(Seeding) = 0
  <2>1. Slack \in Nat /\ Slack' = Slack
    BY <1>1, Slacks, RecoveryBounds DEF RecoveryInv, RecoveryTypeOK, WorldTypeOK
  <2>2. Soon(Dials) \in Nat /\ Soon(Dials)' \in Nat
    BY <1>4, Soonest, SoonestNext DEF RecoveryInv, RecoveryTypeOK
  <2>3. pass = "connected" => Soon(Dials)' = Soon(Dials) /\ Soon(Seeding) = 0
    BY <1>1 DEF Soon, Dials, Seeding
  <2>4. pass = "missing" => Soon(Dials) = 0 /\ Soon(Seeding)' = Soon(Seeding)
    BY <1>1 DEF Soon, Dials, Seeding
  <2> QED BY <2>1, <2>2, <2>3, <2>4
<1>7. UpInTime'
  <2> SUFFICES ASSUME Waits, Waits', up' = up PROVE UpInTime'
    BY <1>5
  <2>1. up \in Nat /\ (dial # NoDial => dial.left \in Nat)
    BY RecoveryBounds DEF RecoveryInv, RecoveryTypeOK, ClockTypeOK, DialTypeOK
  <2>2. CASE pass = "missing" /\ wait = 0 /\ dial = NoDial
    <3>1. up < DialTimeout + MaxBackoff + Slowest + Slack
      BY <1>6, <2>1, <2>2, RecoveryBounds DEF RecoveryInv, UpInTime, Dials
    <3>2. up < 2 * DialTimeout + MaxBackoff + Slowest + Slack - DialTimeout
      BY <1>6, <2>1, <3>1, RecoveryBounds
    <3>3. dial' # NoDial /\ dial'.clean /\ dial'.left = DialTimeout
      BY <1>1, <2>2, RecoveryBounds DEF Waits
    <3> QED BY <1>6, <3>2, <3>3 DEF UpInTime
  <2>3. CASE ~(pass = "missing" /\ wait = 0 /\ dial = NoDial)
    <3>1. /\ dial # NoDial /\ dial.clean => up < 2 * DialTimeout + MaxBackoff + Slowest + Slack - dial.left
          /\ dial # NoDial /\ ~dial.clean => up <= DialTimeout - dial.left
          /\ dial = NoDial /\ wait > 0 => up <= DialTimeout + MaxBackoff - wait
          /\ dial = NoDial /\ wait = 0
                => up < DialTimeout + MaxBackoff + Slowest + Slack - Soon(Dials)
      BY DEF RecoveryInv, UpInTime, Dials
    <3>2. dial = NoDial /\ wait = 0 => Soon(Dials)' = Soon(Dials)
      BY <1>1, <1>6, <2>3
    <3>3. dial' = dial /\ wait' = wait
      BY <1>1, <2>3
    <3>4. dial = NoDial /\ wait = 0 => up < DialTimeout + MaxBackoff + Slowest + Slack - Soon(Dials)'
      BY <3>1, <3>2
    <3> QED BY <1>6, <3>1, <3>3, <3>4 DEF UpInTime, Dials
  <2> QED BY <2>2, <2>3
<1>8. HintInTime'
  <2> SUFFICES ASSUME hinted > 0, Waits', hinted' = hinted PROVE HintInTime'
    BY <1>5
  <2>1. /\ hinted \in Nat /\ Waits
        /\ dial # NoDial => dial.clean /\ hinted <= 1 + DialTimeout + Slack - dial.left
        /\ dial = NoDial => wait = 0 /\ hinted <= 1 + Slack - Soon(Dials)
    BY DEF RecoveryInv, RecoveryTypeOK, ClockTypeOK, HintInTime, Dials
  <2>2. CASE pass = "missing" /\ dial = NoDial
    <3>1. hinted <= 1 + DialTimeout + Slack - DialTimeout
      BY <1>6, <2>1, <2>2, RecoveryBounds
    <3>2. dial' # NoDial /\ dial'.clean /\ dial'.left = DialTimeout
      BY <1>1, <2>1, <2>2, RecoveryBounds DEF Waits
    <3> QED BY <1>6, <3>1, <3>2 DEF HintInTime
  <2>3. CASE ~(pass = "missing" /\ dial = NoDial)
    <3>1. dial' = dial /\ wait' = wait /\ (dial = NoDial => Soon(Dials)' = Soon(Dials))
      BY <1>1, <1>6, <2>3
    <3>2. dial = NoDial => hinted <= 1 + Slack - Soon(Dials)'
      BY <2>1, <3>1
    <3> QED BY <1>6, <2>1, <3>1, <3>2 DEF HintInTime, Dials
  <2> QED BY <2>2, <2>3
<1>9. SeedInTime'
  <2> SUFFICES ASSUME active, linked, active', linked', ~Seeds, unseeded' = unseeded PROVE SeedInTime'
    BY <1>5
  <2>1. /\ resync' = resync
        /\ pass = "connected" => ~(resync > Resync)
    BY <1>1 DEF Seeds
  <2>2. /\ resync <= Resync => unseeded <= resync
        /\ resync > Resync => unseeded <= Resync + Slowest + Slack - Soon(Seeding)
    BY DEF RecoveryInv, SeedInTime, Seeding
  <2>3. resync > Resync => unseeded <= Resync + Slowest + Slack - Soon(Seeding)'
    BY <1>1, <1>6, <2>1, <2>2
  <2> QED BY <1>6, <2>1, <2>2, <2>3 DEF SeedInTime, Seeding
<1> QED BY <1>5, <1>7, <1>8, <1>9 DEF RecoveryInv

-----------------------------------------------------------------------------
(***************************************************************************)
(* The step that takes time, and the restart.                              *)
(***************************************************************************)
LEMMA TimeStep ==
    ASSUME RecoveryInv, TimePasses, Clocks(1, FALSE, FALSE)
    PROVE  RecoveryInv'
<1>1. /\ UNCHANGED <<active, linked, path, mishaps, pass, pace, woken>>
      /\ pass = "idle" /\ ~woken /\ rest < Every[pace] /\ rest' = rest + 1
      /\ dial # NoDial => dial.left > 0
      /\ dial' = IF dial = NoDial THEN NoDial ELSE [dial EXCEPT !.left = @ - 1]
      /\ wait' = (IF wait = 0 THEN 0 ELSE wait - 1)
      /\ resync' = (IF resync + 1 < Resync + 1 THEN resync + 1 ELSE Resync + 1)
  BY DEF TimePasses, world, Less, Least
<1>2. /\ WorldTypeOK /\ DialTypeOK /\ LoopTypeOK /\ up \in Nat /\ hinted \in Nat /\ unseeded \in Nat
      /\ wait \in 0 .. MaxBackoff /\ resync \in 0 .. Resync + 1 /\ rest \in Nat
      /\ Every[pace] \in Nat
  BY RecoveryBounds DEF RecoveryInv, RecoveryTypeOK, DialTypeOK, LoopTypeOK, ClockTypeOK
<1>3. /\ up' = (IF Waits THEN up + 1 ELSE 0)
      /\ hinted' = (IF ~Waits \/ hinted = 0 THEN 0 ELSE hinted + 1)
      /\ unseeded' = (IF ~active \/ ~linked THEN 0 ELSE unseeded + 1)
      /\ Waits' = Waits
  BY <1>1 DEF Clocks, Waits
<1>4. /\ dial = NoDial => dial' = NoDial
      /\ dial # NoDial => /\ dial.left \in 1 .. DialTimeout /\ dial.clean \in BOOLEAN
                          /\ dial' = [left |-> dial.left - 1, clean |-> dial.clean]
                          /\ dial' # NoDial /\ dial'.left = dial.left - 1 /\ dial'.clean = dial.clean
  BY <1>1, <1>2, RecoveryBounds DEF DialTypeOK
<1>5. WorldTypeOK'
  BY <1>1, <1>2 DEF WorldTypeOK
<1>6. DialTypeOK'
  <2>1. dial' \in [left : 0 .. DialTimeout, clean : BOOLEAN] \union {NoDial}
    BY <1>4, RecoveryBounds
  <2>2. wait' \in 0 .. MaxBackoff
    BY <1>1, <1>2, RecoveryBounds
  <2> QED BY <2>1, <2>2 DEF DialTypeOK
<1>7. LoopTypeOK'
  <2>1. resync' \in 0 .. Resync + 1
    BY <1>1, <1>2, RecoveryBounds
  <2>2. rest' \in Nat /\ rest' <= Every[pace]
    BY <1>1, <1>2
  <2> QED BY <1>1, <1>2, <2>1, <2>2 DEF LoopTypeOK, Pace
<1>8. ClockTypeOK'
  BY <1>2, <1>3 DEF ClockTypeOK
<1>9. RecoveryTypeOK'
  BY <1>5, <1>6, <1>7, <1>8 DEF RecoveryTypeOK
<1>10. /\ up' = 0 => UpInTime'
       /\ hinted' = 0 => HintInTime'
       /\ unseeded' = 0 => SeedInTime'
  BY <1>9, FreshClocksNext DEF TimeLeft
<1>11. /\ Slack \in Nat /\ Slack' = Slack /\ Slowest \in Nat
       /\ \A stages \in {Dials, Seeding} :
             /\ Soon(stages) \in 1 .. Slowest /\ Soon(stages)' = Soon(stages) - 1
  <2>1. Slack \in Nat /\ Slack' = Slack /\ Slowest \in Nat
    BY <1>1, <1>2, Slacks, RecoveryBounds DEF WorldTypeOK
  <2>2. ASSUME NEW stages \in {Dials, Seeding}
        PROVE  Soon(stages) \in 1 .. Slowest /\ Soon(stages)' = Soon(stages) - 1
    <3>1. pass \notin stages
      BY <1>1 DEF Dials, Seeding
    <3>2. Soon(stages) = Every[pace] - rest /\ Soon(stages) <= Slowest
      BY <1>1, <1>2, <3>1, Soonest
    <3>3. Soon(stages)' = Every[pace] - (rest + 1)
      BY <1>1, <3>1 DEF Soon
    <3> QED BY <1>1, <1>2, <2>1, <3>2, <3>3
  <2> QED BY <2>1, <2>2
<1>12. UpInTime'
  <2> SUFFICES ASSUME Waits, up' = up + 1 PROVE UpInTime'
    BY <1>3, <1>10
  <2> DEFINE now == up + 1
  <2>1. CASE dial # NoDial /\ dial.clean
    <3>1. now < 2 * DialTimeout + MaxBackoff + Slowest + Slack - (dial.left - 1)
      BY <1>2, <1>4, <1>11, <2>1, RecoveryBounds DEF RecoveryInv, UpInTime
    <3> QED BY <1>3, <1>4, <1>11, <2>1, <3>1 DEF UpInTime
  <2>2. CASE dial # NoDial /\ ~dial.clean
    <3>1. now <= DialTimeout - (dial.left - 1)
      BY <1>2, <1>4, <2>2, RecoveryBounds DEF RecoveryInv, UpInTime
    <3> QED BY <1>3, <1>4, <1>11, <2>2, <3>1 DEF UpInTime
  <2>3. CASE dial = NoDial /\ wait > 0
    <3>1. up <= DialTimeout + MaxBackoff - wait
      BY <2>3 DEF RecoveryInv, UpInTime
    <3>2. now <= DialTimeout + MaxBackoff - (wait - 1)
      BY <1>2, <3>1, RecoveryBounds
    <3>3. wait = 1 => now < DialTimeout + MaxBackoff + Slowest + Slack - (Soon(Dials) - 1)
      BY <1>2, <1>11, <3>1, RecoveryBounds
    <3>4. wait' = wait - 1 /\ (wait' = 0 => wait = 1)
      BY <1>1, <1>2, <2>3
    <3>5. Soon(Dials)' = Soon(Dials) - 1
      BY <1>11
    <3> QED BY <1>3, <1>4, <1>11, <2>3, <3>2, <3>3, <3>4, <3>5 DEF UpInTime, Dials
  <2>4. CASE dial = NoDial /\ wait = 0
    <3>1. up < DialTimeout + MaxBackoff + Slowest + Slack - Soon(Dials)
      BY <2>4 DEF RecoveryInv, UpInTime, Dials
    <3>2. now < DialTimeout + MaxBackoff + Slowest + Slack - (Soon(Dials) - 1)
      BY <1>2, <1>11, <3>1, RecoveryBounds
    <3>3. wait' = 0 /\ Soon(Dials)' = Soon(Dials) - 1
      BY <1>1, <1>11, <2>4
    <3> QED BY <1>3, <1>4, <1>11, <2>4, <3>2, <3>3 DEF UpInTime, Dials
  <2>5. wait \in Nat
    BY <1>2
  <2> QED BY <1>4, <2>1, <2>2, <2>3, <2>4, <2>5
<1>13. HintInTime'
  <2> SUFFICES ASSUME Waits, hinted > 0, hinted' = hinted + 1 PROVE HintInTime'
    BY <1>2, <1>3, <1>10
  <2> DEFINE now == hinted + 1
  <2>1. /\ dial # NoDial => dial.clean /\ hinted <= 1 + DialTimeout + Slack - dial.left
        /\ dial = NoDial => wait = 0 /\ hinted <= 1 + Slack - Soon(Dials)
    BY DEF RecoveryInv, HintInTime, Dials
  <2>2. dial # NoDial => now <= 1 + DialTimeout + Slack - (dial.left - 1)
    BY <1>2, <1>4, <1>11, <2>1, RecoveryBounds
  <2>3. dial = NoDial => now <= 1 + Slack - (Soon(Dials) - 1)
    BY <1>2, <1>11, <2>1
  <2>4. Soon(Dials)' = Soon(Dials) - 1
    BY <1>11
  <2> QED BY <1>1, <1>3, <1>4, <1>11, <2>1, <2>2, <2>3, <2>4 DEF HintInTime, Dials
<1>14. SeedInTime'
  <2> SUFFICES ASSUME active, linked, unseeded' = unseeded + 1 PROVE SeedInTime'
    BY <1>3, <1>10
  <2> DEFINE now == unseeded + 1
  <2>1. /\ resync <= Resync => unseeded <= resync
        /\ resync > Resync => unseeded <= Resync + Slowest + Slack - Soon(Seeding)
    BY DEF RecoveryInv, SeedInTime, Seeding
  <2>2. Soon(Seeding)' = Soon(Seeding) - 1 /\ Soon(Seeding) \in 1 .. Slowest
    BY <1>11
  <2>3. CASE resync < Resync
    <3>1. resync' = resync + 1 /\ now <= resync + 1 /\ ~(resync + 1 > Resync)
      BY <1>1, <1>2, <2>1, <2>3, RecoveryBounds
    <3> QED BY <1>1, <3>1 DEF SeedInTime
  <2>4. CASE ~(resync < Resync)
    <3>1. resync' = Resync + 1 /\ ~(Resync + 1 <= Resync)
      BY <1>1, <1>2, <2>4, RecoveryBounds
    <3>2. now <= Resync + Slowest + Slack - (Soon(Seeding) - 1)
      BY <1>2, <1>11, <2>1, <2>2, <2>4, RecoveryBounds
    <3> QED BY <1>1, <1>11, <2>2, <3>1, <3>2 DEF SeedInTime, Seeding
  <2> QED BY <2>3, <2>4
<1> QED BY <1>9, <1>12, <1>13, <1>14 DEF RecoveryInv

LEMMA RestartStep ==
    ASSUME RecoveryInv, Starts, up' = 0, hinted' = 0, unseeded' = 0
    PROVE  RecoveryInv'
<1>1. /\ active' \in BOOLEAN /\ linked' = FALSE /\ dial' = NoDial /\ wait' = 0
      /\ resync' = Resync + 1 /\ pass' = "idle" /\ pace' = "interactive" /\ woken' = TRUE /\ rest' = 0
      /\ UNCHANGED <<path, mishaps>>
  BY DEF Starts, ResetDialBackoff
<1>2. WorldTypeOK'
  BY <1>1 DEF RecoveryInv, RecoveryTypeOK, WorldTypeOK
<1>3. DialTypeOK'
  BY <1>1, RecoveryBounds DEF DialTypeOK
<1>4. LoopTypeOK'
  BY <1>1, RecoveryBounds DEF LoopTypeOK, Pace
<1>5. ClockTypeOK'
  BY DEF ClockTypeOK
<1>6. RecoveryTypeOK'
  BY <1>2, <1>3, <1>4, <1>5 DEF RecoveryTypeOK
<1> QED BY <1>6, FreshClocksNext DEF TimeLeft, RecoveryInv

LEMMA RecoveryStep == RecoveryInv /\ [RecoveryNext]_recoveryVars => RecoveryInv'
<1> SUFFICES ASSUME RecoveryInv, [RecoveryNext]_recoveryVars PROVE RecoveryInv'
  OBVIOUS
<1>1. CASE Starts /\ up' = 0 /\ hinted' = 0 /\ unseeded' = 0
  BY <1>1, RestartStep
<1>2. CASE NetworkChanged /\ Clocks(0, cool = 0 /\ dial = NoDial, FALSE)
  BY <1>2, ChangedNetworkStep
<1>3. CASE PassDials /\ Clocks(0, FALSE, Seeds)
  BY <1>3, DialStep
<1>4. CASE TimePasses /\ Clocks(1, FALSE, FALSE)
  BY <1>4, TimeStep
<1>5. CASE /\ \/ Accepted \/ DialSucceeds \/ DialFails \/ LinkEnds \/ Heard \/ DemandDial
              \/ \E p \in Pace : SetPace(p)
              \/ PathMoves \/ PassBegins \/ PassFails \/ PassLooks
              \/ Connect \/ Disconnect
           /\ Clocks(0, FALSE, FALSE)
  BY <1>5, LinkStep, FailedDialStep, WakeStep, PathStep, LookStep, FailedPassStep, NetStep
<1>6. CASE UNCHANGED recoveryVars
  BY <1>6 DEF recoveryVars, world, backoff, swarm, loop, history, RecoveryInv, RecoveryTypeOK,
              WorldTypeOK, DialTypeOK, LoopTypeOK, ClockTypeOK, UpInTime, HintInTime, SeedInTime,
              Waits, Slack, Soon, Pace, Slowest
<1> QED BY <1>1, <1>2, <1>3, <1>4, <1>5, <1>6 DEF RecoveryNext

\* A member that can be reached is connected again, a hint has it dialed, and a connected one is
\* seeded, within the times BackInTime states: whatever the timeout, the cap of the backoff, the
\* paces and the number of failing passes are.
THEOREM BackBeforeLong == RecoverySpec => []BackInTime
<1>1. RecoveryInv => BackInTime
  <2> SUFFICES ASSUME RecoveryInv PROVE BackInTime
    OBVIOUS
  <2>1. /\ Slack \in Nat /\ (1 + mishaps) * Slowest = Slowest + Slack /\ Slowest \in Nat
        /\ Soon(Dials) \in Nat /\ Soon(Seeding) \in Nat
        /\ up \in Nat /\ hinted \in Nat /\ unseeded \in Nat /\ wait \in Nat /\ resync \in Nat
        /\ dial # NoDial => dial.left \in Nat /\ dial.clean \in BOOLEAN
    BY Slacks, Soonest, RecoveryBounds
       DEF RecoveryInv, RecoveryTypeOK, WorldTypeOK, DialTypeOK, LoopTypeOK, ClockTypeOK
  <2>2. Slowest > 0
    BY RecoveryBounds DEF Pace
  <2>3. up < 2 * DialTimeout + MaxBackoff + (Slowest + Slack)
    BY <2>1, <2>2, RecoveryBounds DEF RecoveryInv, UpInTime, Dials
  <2>4. hinted <= 1 + DialTimeout + Slack
    BY <2>1, RecoveryBounds DEF RecoveryInv, HintInTime, Dials
  <2>5. unseeded <= Resync + (Slowest + Slack)
    BY <2>1, RecoveryBounds DEF RecoveryInv, SeedInTime, Seeding
  <2> QED BY <2>1, <2>3, <2>4, <2>5 DEF BackInTime, Slack
<1> QED BY <1>1, InitRecovery, RecoveryStep, PTL DEF RecoverySpec
=============================================================================
