---------------------------------- MODULE Mesh ----------------------------------
(***************************************************************************)
(* The mesh connection between two members, with both of its ends          *)
(* (ipn-core/src/engine.rs: spawn_dials, dial_member, handle_mesh_incoming,*)
(* register_mesh, resolve_duplicate).                                      *)
(*                                                                         *)
(* Either end dials when its tick finds no connection, so two connections  *)
(* may come up at once, and each end decides by itself which one to keep.  *)
(* A task that handles a connection waits between its steps, and a close   *)
(* made at one end is noticed at the other some time later: everything     *)
(* that awaits is a step of its own.  Both devices are members of the      *)
(* network and stay so; EngineLifecycle has what becomes of a removed one. *)
(* Dial backoff is left out, as it only delays a dial, and so is what is   *)
(* shown of the peer.                                                      *)
(***************************************************************************)
CONSTANTS
    Lower, Higher,  \* the two devices, in the order of their ids
    Conn,           \* bound: connections that exist at a time
    NoConn

ASSUME EndsAssumption == Lower # Higher
ASSUME ConnAssumption == NoConn \notin Conn

End == {Lower, Higher}
Other(e) == IF e = Lower THEN Higher ELSE Lower

VARIABLES
    initiator,  \* who dialed a connection: conn.side() at either end
    open,       \* ends at which a connection has no close_reason
    task,       \* how far each end's task for a connection is
    conns,      \* Inner::conns of each end: its entry for the other
    missing     \* ends whose tick has found no connection and is to dial

vars == <<initiator, open, task, conns, missing>>

(***************************************************************************)
(* A task is in its admission handshake; past it ("verified"); has entered *)
(* its connection in conns and awaits the State to record it ("entered");  *)
(* or has spawned the watcher for the close ("watched").                   *)
(***************************************************************************)
Stage == {"none", "handshake", "verified", "entered", "watched"}

Unused == {c \in Conn : open[c] = {} /\ \A e \in End : task[c][e] = "none" /\ conns[e] # c}

Dials(e, c) == initiator[c] = e /\ task[c][e] \in {"handshake", "verified", "entered"}

\* Mutant: a peer that is being dialed is dialed again.
DialingUnnoticed(e) == FALSE

\* The dialing set: a slot is taken by spawn_dials and freed by DialSlot.
Dialing(e) == \E c \in Conn : Dials(e, c)

Init ==
    /\ initiator = [c \in Conn |-> Lower]
    /\ open = [c \in Conn |-> {}]
    /\ task = [c \in Conn |-> [e \in End |-> "none"]]
    /\ conns = [e \in End |-> NoConn]
    /\ missing = {}

Close(e, c) == [open EXCEPT ![c] = @ \ {e}]
-----------------------------------------------------------------------------
(***************************************************************************)
(* Dialing.                                                                *)
(***************************************************************************)
\* The tick reads conns once, and acts on it later.
TickRead(e) ==
    /\ e \notin missing /\ conns[e] = NoConn
    /\ missing' = missing \union {e}
    /\ UNCHANGED <<initiator, open, task, conns>>

\* spawn_dials skips a peer that is being dialed.
TickDial(e) ==
    /\ e \in missing
    /\ missing' = missing \ {e}
    /\ IF Dialing(e)
       THEN UNCHANGED <<initiator, open, task>>
       ELSE /\ Unused # {}
            /\ LET c == CHOOSE c \in Unused : TRUE
               IN  /\ initiator' = [initiator EXCEPT ![c] = e]
                   /\ open' = [open EXCEPT ![c] = End]
                   /\ task' = [task EXCEPT ![c] = [x \in End |-> "handshake"]]
    /\ UNCHANGED conns

\* admission::dial or admission::accept, and the roster gate of the accepting end.
\* The other end may have failed after sending its part.
Verify(e, c) ==
    /\ task[c][e] = "handshake" /\ e \in open[c]
    /\ task' = [task EXCEPT ![c][e] = "verified"]
    /\ UNCHANGED <<initiator, open, conns, missing>>

\* The handshake fails, is refused by the gate, or runs into DIAL_TIMEOUT; dropping
\* the last handle closes the connection.
Refuse(e, c) ==
    /\ task[c][e] = "handshake" /\ e \in open[c]
    /\ task' = [task EXCEPT ![c][e] = "none"]
    /\ open' = Close(e, c)
    /\ UNCHANGED <<initiator, conns, missing>>

\* The connection was closed under the handshake.
Broken(e, c) ==
    /\ task[c][e] = "handshake" /\ e \notin open[c]
    /\ task' = [task EXCEPT ![c][e] = "none"]
    /\ UNCHANGED <<initiator, open, conns, missing>>
-----------------------------------------------------------------------------
(***************************************************************************)
(* register_mesh.                                                          *)
(***************************************************************************)
\* Mutant: each end keeps the connection it dialed.
KeepNewOwnOutbound(e, old, new) ==
    e \notin open[old] \/ initiator[old] = initiator[new] \/ initiator[new] = e

\* resolve_duplicate at end e: whether the new connection replaces the old one.
KeepNew(e, old, new) ==
    \/ e \notin open[old]
    \/ initiator[old] = initiator[new]
    \/ (initiator[new] = e) = (e = Lower)

Adopts(e, c) == IF conns[e] = NoConn THEN TRUE ELSE KeepNew(e, conns[e], c)

\* Mutant: the superseded connection is not closed.
EnterBeside(e, c) ==
    /\ task[c][e] = "verified" /\ Adopts(e, c)
    /\ conns' = [conns EXCEPT ![e] = c]
    /\ task' = [task EXCEPT ![c][e] = "entered"]
    /\ UNCHANGED <<initiator, open, missing>>

\* The entry is made, and the connection it replaces is closed.
Enter(e, c) ==
    /\ task[c][e] = "verified" /\ Adopts(e, c)
    /\ conns' = [conns EXCEPT ![e] = c]
    /\ open' = IF conns[e] = NoConn THEN open ELSE Close(e, conns[e])
    /\ task' = [task EXCEPT ![c][e] = "entered"]
    /\ UNCHANGED <<initiator, missing>>

DropDuplicate(e, c) ==
    /\ task[c][e] = "verified" /\ ~Adopts(e, c)
    /\ open' = Close(e, c)
    /\ task' = [task EXCEPT ![c][e] = "none"]
    /\ UNCHANGED <<initiator, conns, missing>>

\* Mutant: a connection closed by now gets no watcher.
WatchIfOpen(e, c) ==
    /\ task[c][e] = "entered"
    /\ task' = [task EXCEPT ![c][e] = IF e \in open[c] THEN "watched" ELSE "none"]
    /\ UNCHANGED <<initiator, open, conns, missing>>

\* Recorded; the watcher is spawned.
Watch(e, c) ==
    /\ task[c][e] = "entered"
    /\ task' = [task EXCEPT ![c][e] = "watched"]
    /\ UNCHANGED <<initiator, open, conns, missing>>

\* DIAL_TIMEOUT drops the dialing task while it awaits the State.  The entry stays,
\* and nobody watches it.
DialTimeout(e, c) ==
    /\ task[c][e] = "entered" /\ initiator[c] = e
    /\ task' = [task EXCEPT ![c][e] = "none"]
    /\ UNCHANGED <<initiator, open, conns, missing>>

\* Mutant: whatever the entry is, it is removed.
UnregisterAny(e, c) ==
    /\ task[c][e] = "watched" /\ e \notin open[c]
    /\ conns' = [conns EXCEPT ![e] = NoConn]
    /\ task' = [task EXCEPT ![c][e] = "none"]
    /\ UNCHANGED <<initiator, open, missing>>

\* The watcher notices the close, and removes the entry if it is still its own.
Unregister(e, c) ==
    /\ task[c][e] = "watched" /\ e \notin open[c]
    /\ conns' = IF conns[e] = c THEN [conns EXCEPT ![e] = NoConn] ELSE conns
    /\ task' = [task EXCEPT ![c][e] = "none"]
    /\ UNCHANGED <<initiator, open, missing>>
-----------------------------------------------------------------------------
(***************************************************************************)
(* The connection, and the devices.                                        *)
(***************************************************************************)
\* What the other end closed is closed here too, by its close frame or by timeout.
CloseArrives(e, c) ==
    /\ e \in open[c] /\ Other(e) \notin open[c]
    /\ open' = Close(e, c)
    /\ UNCHANGED <<initiator, task, conns, missing>>

\* An end gives up a connection that does not get through.
Loss(e, c) ==
    /\ open[c] = End
    /\ open' = Close(e, c)
    /\ UNCHANGED <<initiator, task, conns, missing>>

\* soft_disconnect closes the entry; tasks and the tick go on.  Back online, the next
\* tick dials.
GoOffline(e) ==
    /\ conns[e] # NoConn
    /\ conns' = [conns EXCEPT ![e] = NoConn]
    /\ open' = Close(e, conns[e])
    /\ UNCHANGED <<initiator, task, missing>>

\* The process dies without closing anything, and starts again.
Crash(e) ==
    /\ conns' = [conns EXCEPT ![e] = NoConn]
    /\ open' = [c \in Conn |-> open[c] \ {e}]
    /\ task' = [c \in Conn |-> [task[c] EXCEPT ![e] = "none"]]
    /\ missing' = missing \ {e}
    /\ UNCHANGED initiator
-----------------------------------------------------------------------------
Progress(e, c) ==
    \/ Verify(e, c) \/ Broken(e, c) \/ Enter(e, c) \/ DropDuplicate(e, c)
    \/ Watch(e, c) \/ Unregister(e, c) \/ CloseArrives(e, c)

Disturbance ==
    \/ \E e \in End, c \in Conn : Refuse(e, c) \/ DialTimeout(e, c) \/ Loss(e, c)
    \/ \E e \in End : GoOffline(e) \/ Crash(e)

Next ==
    \/ \E e \in End : TickRead(e) \/ TickDial(e)
    \/ \E e \in End, c \in Conn : Progress(e, c)
    \/ Disturbance

(***************************************************************************)
(* Fairness.  The tick loop goes on; every spawned task is polled; a close *)
(* gets to the other end, by idle timeout if nothing else.                 *)
(***************************************************************************)
Fairness ==
    \A e \in End :
        /\ WF_vars(TickRead(e) \/ TickDial(e))
        /\ \A c \in Conn : WF_vars(Progress(e, c))

Spec == Init /\ [][Next]_vars
FairSpec == Spec /\ Fairness
-----------------------------------------------------------------------------
\* Types, and the point of the dialing set: no end has two dials under way.
TypeOK ==
    /\ initiator \in [Conn -> End]
    /\ open \in [Conn -> SUBSET End]
    /\ task \in [Conn -> [End -> Stage]]
    /\ conns \in [End -> Conn \union {NoConn}]
    /\ missing \subseteq End
    /\ \A e \in End, c, d \in Conn : Dials(e, c) /\ Dials(e, d) => c = d

\* Nothing is under way: no handshake, no close on its way or unnoticed.
Settled ==
    \A c \in Conn :
        /\ open[c] \in {{}, End}
        /\ \A e \in End : task[c][e] = "none" \/ (task[c][e] = "watched" /\ open[c] = End)

Unwatched(e) == conns[e] # NoConn /\ \A c \in Conn : conns[e] = c => task[c][e] = "none"

\* resolve_duplicate: "makes both endpoints converge on the same physical connection".
\* However dials cross, connections drop and devices restart, two ends with nothing
\* under way hold the same connection, or none.  (The entry of a dial that timed out
\* at the last moment may be left over.)
EndsAgree ==
    (Settled /\ \A e \in End : ~Unwatched(e)) => conns[Lower] = conns[Higher]

\* Every entry has a task that removes it when it closes.  Only a dial that times out
\* at the last moment leaves one without.
EntriesAreWatched ==
    [][\A e \in End : (Unwatched(e)' /\ ~Unwatched(e)) => \E c \in Conn : DialTimeout(e, c)]_vars

\* "A superseded duplicate closing must not evict the live one": an entry that is open
\* goes only by the tie-break, by going offline or by a restart.
LiveEntryIsKept ==
    [][\A e \in End :
          (conns[e] # NoConn /\ conns'[e] # conns[e] /\ e \in open[conns[e]])
             => (\E c \in Conn : Enter(e, c)) \/ GoOffline(e) \/ Crash(e)]_vars

\* A dial to a peer that connected after the tick had looked.
StaleDial == \E e \in End : TickDial(e) /\ conns[e] # NoConn

\* The mesh heals: once nothing disturbs it any more, whatever happened before, both
\* ends come to hold one open connection for good.  (Ticks that go on to look just
\* before a connection is entered, and dial after, would replace each by another; an
\* entry that nobody watches keeps its end from dialing.)
MeshConverges ==
    (<>[][~Disturbance /\ ~StaleDial]_vars /\ <>[](\A e \in End : ~Unwatched(e)))
        => <>[](\E c \in Conn : open[c] = End /\ \A e \in End : conns[e] = c)
=============================================================================
