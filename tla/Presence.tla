-------------------------------- MODULE Presence --------------------------------
(***************************************************************************)
(* What one device knows and shows of one other member (ipn-core/src/      *)
(* presence.rs: Presence, PresenceTracker; engine.rs: register_mesh and    *)
(* its watcher, the gossip receiver of activate, tick, soft_disconnect,    *)
(* status).                                                                *)
(*                                                                         *)
(* The tracker is fed by the tasks of the mesh connections, by heartbeats, *)
(* which gossip may lose, repeat and reorder, by the originator's word of  *)
(* where members are, and by the tick.  They share conns and the State     *)
(* lock, and wait between the two.  A Changed event tells the clients to   *)
(* ask again.  The roster is taken to keep the member, and Mesh has how    *)
(* the two ends choose between connections.                                *)
(***************************************************************************)
EXTENDS Naturals

CONSTANTS
    Conn,       \* bound: connections that exist at a time
    NoConn,
    MaxTime,    \* bound: the member's clock, which stamps its heartbeats
    Jump        \* LAST_SEEN_JUMP_MS

ASSUME ConnAssumption == NoConn \notin Conn
ASSUME TimeAssumption == MaxTime \in Nat /\ Jump \in Nat

VARIABLES
    online,     \* State::doc: this device is connected
    quitting,   \* soft_disconnect has drained conns, and waits for the State lock
    entry,      \* Inner::conns for the member
    open,       \* connections without a close_reason
    stage,      \* how far the task of each connection is
    peer,       \* PresenceTracker::peers for the member
    tick,       \* how far the tick is
    dirty,      \* the tick is to emit Changed
    disk,       \* last_seen.cbor
    owed,       \* history: what is shown has changed since the last Changed
    ghost       \* history: a connection was recorded after it had gone

conn == <<entry, open, stage>>
vars == <<online, quitting, conn, peer, tick, dirty, disk, owed, ghost>>

\* PeerStatus, of which seen = 0 is "never"; is it known where the member is?
Status == [online : BOOLEAN, seen : 0 .. MaxTime, blocks : BOOLEAN, located : BOOLEAN]
Default == [online |-> FALSE, seen |-> 0, blocks |-> FALSE, located |-> FALSE]

\* Any may arrive at any time: the member chooses what it signs, its clock may be set, and
\* gossip loses, repeats and reorders.
Heartbeat == [ts : 1 .. MaxTime, blocks : BOOLEAN]

Init ==
    /\ online = FALSE /\ quitting = FALSE
    /\ entry = NoConn /\ open = {} /\ stage = [c \in Conn |-> "none"]
    /\ disk \in 0 .. MaxTime
    /\ peer = [Default EXCEPT !.seen = disk]
    /\ tick = "idle" /\ dirty = FALSE
    /\ owed = FALSE /\ ghost = FALSE
-----------------------------------------------------------------------------
(***************************************************************************)
(* The tracker.                                                            *)
(***************************************************************************)
\* record_connection: the tracker, and whether what is shown changes.
RecordConnection(on) == [peer EXCEPT !.online = on]
ConnectionChanges(on) == peer.online # on

\* record_heartbeat
HeartbeatChanges(b) ==
    peer.seen = 0 \/ b.ts > peer.seen + Jump \/ peer.blocks # b.blocks

\* set_location
SetLocation == [peer EXCEPT !.located = TRUE]

\* Changed: clients read the status after it.
Changed == owed' = FALSE
-----------------------------------------------------------------------------
\* The receiver lives while the network is active.
Receive(b) ==
    /\ online /\ ~quitting
    /\ IF b.ts < peer.seen
       THEN UNCHANGED <<peer, owed>>
       ELSE /\ peer' = [peer EXCEPT !.seen = b.ts, !.blocks = b.blocks]
            /\ IF HeartbeatChanges(b)
               THEN Changed
               ELSE owed' = (owed \/ peer.seen = 0 \/ peer.blocks # b.blocks)
    /\ UNCHANGED <<online, quitting, conn, tick, dirty, disk, ghost>>

\* Locations the originator has signed: of members only it can place, and of any time.
Locate ==
    /\ online /\ ~quitting
    /\ peer' = SetLocation
    /\ Changed \/ (peer.located /\ UNCHANGED owed)
    /\ UNCHANGED <<online, quitting, conn, tick, dirty, disk, ghost>>
-----------------------------------------------------------------------------
(***************************************************************************)
(* The connections.                                                        *)
(***************************************************************************)
\* A new connection becomes the entry, and closes the one it supersedes.
Enter(c) ==
    /\ stage[c] = "none" /\ c \notin open /\ c # entry
    /\ stage' = [stage EXCEPT ![c] = "entered"]
    /\ open' = (open \union {c}) \ {entry}
    /\ entry' = c
    /\ UNCHANGED <<online, quitting, peer, tick, dirty, disk, owed, ghost>>

\* The State lock is had: the member is online.  The watcher is spawned.
Recorded(c) ==
    /\ stage[c] = "entered"
    /\ stage' = [stage EXCEPT ![c] = "watched"]
    /\ peer' = RecordConnection(TRUE) /\ Changed
    /\ ghost' = (entry = NoConn)
    /\ UNCHANGED <<online, quitting, entry, open, tick, dirty, disk>>

Closes(c) ==
    /\ c \in open
    /\ open' = open \ {c}
    /\ UNCHANGED <<online, quitting, entry, stage, peer, tick, dirty, disk, owed, ghost>>

\* Mutant: an entry is removed without the tracker being told.
EvictSilently(c) ==
    /\ stage[c] = "watched" /\ c \notin open
    /\ entry' = IF entry = c THEN NoConn ELSE entry
    /\ stage' = [stage EXCEPT ![c] = "none"]
    /\ UNCHANGED <<online, quitting, open, peer, tick, dirty, disk, owed, ghost>>

\* The watcher removes the entry if it is its own.
Evict(c) ==
    /\ stage[c] = "watched" /\ c \notin open
    /\ IF entry = c
       THEN entry' = NoConn /\ stage' = [stage EXCEPT ![c] = "evicted"]
       ELSE stage' = [stage EXCEPT ![c] = "none"] /\ UNCHANGED entry
    /\ UNCHANGED <<online, quitting, open, peer, tick, dirty, disk, owed, ghost>>

\* The State lock is had: the member is offline.
Unrecorded(c) ==
    /\ stage[c] = "evicted"
    /\ stage' = [stage EXCEPT ![c] = "none"]
    /\ peer' = RecordConnection(FALSE) /\ Changed
    /\ ghost' = FALSE
    /\ UNCHANGED <<online, quitting, entry, open, tick, dirty, disk>>
-----------------------------------------------------------------------------
(***************************************************************************)
(* The tick, once it has found a network.                                  *)
(***************************************************************************)
TickBegins ==
    /\ online /\ tick = "idle"
    /\ tick' = "begun" /\ dirty' = FALSE
    /\ UNCHANGED <<online, quitting, conn, peer, disk, owed, ghost>>

\* The originator's tick: it has placed the member, and sends Locations.
TickLocates ==
    /\ tick = "begun" /\ tick' = "located"
    /\ peer' = SetLocation
    /\ dirty' = ~peer.located /\ owed' = (owed \/ ~peer.located)
    /\ UNCHANGED <<online, quitting, conn, disk, ghost>>

\* Mutant: only members that are shown online are refreshed.
TickCollectsOnline ==
    /\ tick \in {"begun", "located"}
    /\ tick' = IF entry = NoConn \/ ~peer.online THEN "recorded" ELSE "collected"
    /\ UNCHANGED <<online, quitting, conn, peer, dirty, disk, owed, ghost>>

\* The live connections are collected; what is known of each is awaited.
TickCollects ==
    /\ tick \in {"begun", "located"}
    /\ tick' = IF entry = NoConn THEN "recorded" ELSE "collected"
    /\ UNCHANGED <<online, quitting, conn, peer, dirty, disk, owed, ghost>>

\* Mutant: what the tick has recorded does not make it announce anything.
TickRecordsQuietly ==
    /\ tick = "collected"
    /\ tick' = "recorded"
    /\ peer' = RecordConnection(TRUE)
    /\ owed' = (owed \/ ConnectionChanges(TRUE))
    /\ ghost' = (entry = NoConn)
    /\ UNCHANGED <<online, quitting, conn, disk, dirty>>

TickRecords ==
    /\ tick = "collected"
    /\ tick' = "recorded"
    /\ peer' = RecordConnection(TRUE)
    /\ dirty' = (dirty \/ ConnectionChanges(TRUE))
    /\ owed' = (owed \/ ConnectionChanges(TRUE))
    /\ ghost' = (entry = NoConn)
    /\ UNCHANGED <<online, quitting, conn, disk>>

\* Last-seen times are saved every 30 s or so; what is not known is not kept.
TickSaves ==
    /\ tick = "recorded"
    /\ tick' = "saved"
    /\ disk' \in {disk, peer.seen}
    /\ UNCHANGED <<online, quitting, conn, peer, dirty, owed, ghost>>

\* Changed, if something has, or at every tenth tick.
TickEnds ==
    /\ tick = "saved"
    /\ tick' = "idle"
    /\ Changed \/ (~dirty /\ UNCHANGED owed)
    /\ dirty' = FALSE
    /\ UNCHANGED <<online, quitting, conn, peer, disk, ghost>>
-----------------------------------------------------------------------------
GoOnline ==
    /\ ~online /\ ~quitting
    /\ online' = TRUE /\ Changed
    /\ UNCHANGED <<quitting, conn, peer, tick, dirty, disk, ghost>>

GoOffline ==
    /\ online /\ ~quitting
    /\ quitting' = TRUE
    /\ entry' = NoConn /\ open' = open \ {entry}
    /\ UNCHANGED <<online, stage, peer, tick, dirty, disk, owed, ghost>>

\* The State lock is had.  Last-seen times go with the rest of the tracker.
Offline ==
    /\ quitting
    /\ quitting' = FALSE /\ online' = FALSE
    /\ peer' = Default /\ Changed
    /\ ghost' = FALSE
    /\ UNCHANGED <<conn, tick, dirty, disk>>

\* The process ends, and starts again with what is on disk.
Restart ==
    /\ online' \in BOOLEAN /\ quitting' = FALSE
    /\ entry' = NoConn /\ open' = {} /\ stage' = [c \in Conn |-> "none"]
    /\ peer' = [Default EXCEPT !.seen = disk]
    /\ tick' = "idle" /\ dirty' = FALSE
    /\ Changed /\ ghost' = FALSE
    /\ UNCHANGED disk

Task(c) == Recorded(c) \/ Evict(c) \/ Unrecorded(c)
Tick == TickBegins \/ TickLocates \/ TickCollects \/ TickRecords \/ TickSaves \/ TickEnds

Next ==
    \/ \E b \in Heartbeat : Receive(b)
    \/ Locate
    \/ \E c \in Conn : Enter(c) \/ Task(c) \/ Closes(c)
    \/ Tick
    \/ GoOnline \/ GoOffline \/ Offline \/ Restart

(***************************************************************************)
(* Fairness.  Tasks are polled, the State lock is handed on in order, and  *)
(* the tick runs every few seconds.                                        *)
(***************************************************************************)
Spec == Init /\ [][Next]_vars
FairSpec == Spec /\ WF_vars(Tick) /\ WF_vars(Offline) /\ \A c \in Conn : WF_vars(Task(c))
-----------------------------------------------------------------------------
TypeOK ==
    /\ online \in BOOLEAN /\ quitting \in BOOLEAN
    /\ entry \in Conn \union {NoConn} /\ open \subseteq Conn
    /\ stage \in [Conn -> {"none", "entered", "watched", "evicted"}]
    /\ entry # NoConn => stage[entry] \in {"entered", "watched"}
    /\ peer \in Status
    /\ tick \in {"idle", "begun", "located", "collected", "recorded", "saved"}
    /\ dirty \in BOOLEAN
    /\ disk \in 0 .. MaxTime
    /\ owed \in BOOLEAN /\ ghost \in BOOLEAN

AtRest == tick = "idle" /\ ~quitting /\ \A c \in Conn : stage[c] \in {"none", "watched"}

\* architecture.md: a peer is "online" iff a live mesh connection exists.  Once the tasks
\* are through, a member shown online is in conns, whatever superseded connections did,
\* unless a connection was recorded after it had gone; and nothing that clients show has
\* changed without a Changed event, so that they need not poll.
ShownIsTrue ==
    AtRest => /\ ~owed
              /\ online /\ peer.online => entry # NoConn \/ ghost

\* A member that stays connected is shown online, even where the record of an earlier
\* connection's end comes last.
DotComesOn ==
    (online /\ entry # NoConn) ~> (peer.online \/ entry = NoConn \/ ~online)
=============================================================================
