------------------------------- MODULE MeshProofs -------------------------------
(***************************************************************************)
(* Proofs about Mesh, for any two devices and any connections: types and   *)
(* the one dial at a time, and what becomes of an entry of conns.          *)
(***************************************************************************)
EXTENDS Mesh, TLAPS

\* A connection whose handshake is still to end, or that is still to be reconciled, is
\* not the entry: whatever fails before Enter leaves conns as it is.
EnteredByItsTask ==
    \A e \in End, c \in Conn : task[c][e] \in {"handshake", "verified"} => conns[e] # c

IInv == TypeOK /\ EnteredByItsTask

LEMMA Ends == Lower \in End /\ Higher \in End /\ \A e \in End : Other(e) \in End
BY DEF End, Other

LEMMA InitInvariant == Init => IInv
BY ConnAssumption, Ends DEF Init, IInv, TypeOK, EnteredByItsTask, Stage, Dials

\* A dial takes a connection nobody refers to, at an end that has no other dial.
LEMMA DialInvariant ==
    ASSUME IInv, NEW e \in End, TickDial(e)
    PROVE  IInv'
<1> USE DEF IInv, TypeOK, EnteredByItsTask
<1>1. CASE Dialing(e)
  BY <1>1 DEF TickDial, Dials
<1>2. CASE ~Dialing(e)
  <2>1. PICK c \in Unused : /\ initiator' = [initiator EXCEPT ![c] = e]
                            /\ open' = [open EXCEPT ![c] = End]
                            /\ task' = [task EXCEPT ![c] = [x \in End |-> "handshake"]]
    BY <1>2 DEF TickDial
  <2>2. c \in Conn /\ \A x \in End : task[c][x] = "none" /\ conns[x] # c
    BY <2>1 DEF Unused
  <2>3. conns' = conns /\ missing' = missing \ {e}
    BY DEF TickDial
  <2>4. TypeOK' 
    <3>1. task' \in [Conn -> [End -> Stage]]
      BY <2>1, <2>2 DEF Stage
    <3>2. \A x \in End, d, f \in Conn : Dials(x, d)' /\ Dials(x, f)' => d = f
      BY <1>2, <2>1, <2>2, <3>1 DEF Dialing, Dials
    <3> QED BY <2>1, <2>2, <2>3, <3>1, <3>2
  <2>5. EnteredByItsTask'
    BY <2>1, <2>2, <2>3
  <2> QED BY <2>4, <2>5
<1> QED BY <1>1, <1>2

LEMMA TaskStep ==
    ASSUME task \in [Conn -> [End -> Stage]], NEW e \in End, NEW c \in Conn, NEW s \in Stage,
           task' = [task EXCEPT ![c][e] = s]
    PROVE  /\ task' \in [Conn -> [End -> Stage]]
           /\ \A x \in End, d \in Conn :
                 task'[d][x] = IF d = c /\ x = e THEN s ELSE task[d][x]
<1>1. task[c] \in [End -> Stage]
  OBVIOUS
<1>2. [task[c] EXCEPT ![e] = s] \in [End -> Stage]
  BY <1>1
<1>3. task' = [task EXCEPT ![c] = [task[c] EXCEPT ![e] = s]]
  OBVIOUS
<1> QED BY <1>1, <1>2, <1>3

\* A step that begins no dial, and makes no connection the entry but one past its
\* reconciliation, preserves the invariant.
LEMMA StageStep ==
    ASSUME IInv,
           initiator' = initiator,
           open' \in [Conn -> SUBSET End],
           task' \in [Conn -> [End -> Stage]],
           conns' \in [End -> Conn \union {NoConn}],
           missing' \subseteq End,
           \A x \in End, d \in Conn :
               /\ task'[d][x] \in {"handshake", "verified", "entered"}
                      => task[d][x] \in {"handshake", "verified", "entered"}
               /\ task'[d][x] \in {"handshake", "verified"}
                      => task[d][x] \in {"handshake", "verified"}
               /\ conns'[x] = d /\ conns[x] # d
                      => task'[d][x] \notin {"handshake", "verified"}
    PROVE  IInv'
BY DEF IInv, TypeOK, EnteredByItsTask, Dials

\* The steps of one end's task for one connection, and of the connection.
LEMMA ConnInvariant ==
    ASSUME IInv, NEW e \in End, NEW c \in Conn,
           Progress(e, c) \/ Refuse(e, c) \/ DialTimeout(e, c) \/ Loss(e, c)
    PROVE  IInv'
<1>1. Close(e, c) \in [Conn -> SUBSET End]
  BY DEF IInv, TypeOK, Close
<1>2. "none" \in Stage /\ "verified" \in Stage /\ "entered" \in Stage /\ "watched" \in Stage
  BY DEF Stage
<1>3. CASE Verify(e, c)
  BY <1>2, <1>3, TaskStep, StageStep DEF Verify, IInv, TypeOK
<1>4. CASE Refuse(e, c) \/ Broken(e, c)
  <2>1. task' = [task EXCEPT ![c][e] = "none"] /\ open' \in [Conn -> SUBSET End]
    BY <1>1, <1>4 DEF Refuse, Broken, IInv, TypeOK
  <2>2. UNCHANGED <<initiator, conns, missing>>
    BY <1>4 DEF Refuse, Broken
  <2> QED BY <1>2, <2>1, <2>2, TaskStep, StageStep DEF IInv, TypeOK
<1>5. CASE Enter(e, c)
  <2>1. conns' \in [End -> Conn \union {NoConn}]
    BY <1>5 DEF Enter, IInv, TypeOK
  <2>2. open' \in [Conn -> SUBSET End]
    BY <1>5 DEF Enter, Close, IInv, TypeOK
  <2> QED BY <1>2, <1>5, <2>1, <2>2, TaskStep, StageStep DEF Enter, IInv, TypeOK
<1>6. CASE DropDuplicate(e, c)
  BY <1>1, <1>2, <1>6, TaskStep, StageStep DEF DropDuplicate, IInv, TypeOK
<1>7. CASE Watch(e, c) \/ DialTimeout(e, c)
  <2>1. PICK s \in {"watched", "none"} : task' = [task EXCEPT ![c][e] = s]
    BY <1>7 DEF Watch, DialTimeout
  <2>2. UNCHANGED <<initiator, open, conns, missing>>
    BY <1>7 DEF Watch, DialTimeout
  <2> QED BY <1>2, <2>1, <2>2, TaskStep, StageStep DEF IInv, TypeOK
<1>8. CASE Unregister(e, c)
  <2>1. conns' \in [End -> Conn \union {NoConn}] /\ \A x \in End : conns'[x] \in {conns[x], NoConn}
    BY <1>8 DEF Unregister, IInv, TypeOK
  <2> QED BY <1>2, <1>8, <2>1, ConnAssumption, TaskStep, StageStep DEF Unregister, IInv, TypeOK
<1>9. CASE CloseArrives(e, c) \/ Loss(e, c)
  BY <1>1, <1>9, StageStep DEF CloseArrives, Loss, IInv, TypeOK
<1> QED BY <1>3, <1>4, <1>5, <1>6, <1>7, <1>8, <1>9 DEF Progress

\* The steps of an end.
LEMMA EndInvariant ==
    ASSUME IInv, NEW e \in End, TickRead(e) \/ GoOffline(e) \/ Crash(e)
    PROVE  IInv'
<1>1. CASE TickRead(e)
  BY <1>1, StageStep DEF TickRead, IInv, TypeOK
<1>2. CASE GoOffline(e)
  <2>1. conns' \in [End -> Conn \union {NoConn}] /\ \A x \in End : conns'[x] \in {conns[x], NoConn}
    BY <1>2 DEF GoOffline, IInv, TypeOK
  <2>2. open' \in [Conn -> SUBSET End]
    BY <1>2 DEF GoOffline, Close, IInv, TypeOK
  <2> QED BY <1>2, <2>1, <2>2, ConnAssumption, StageStep DEF GoOffline, IInv, TypeOK
<1>3. CASE Crash(e)
  <2>1. conns' \in [End -> Conn \union {NoConn}] /\ \A x \in End : conns'[x] \in {conns[x], NoConn}
    BY <1>3 DEF Crash, IInv, TypeOK
  <2>2. open' \in [Conn -> SUBSET End] /\ missing' \subseteq End
    BY <1>3 DEF Crash, IInv, TypeOK
  <2>3. \A d \in Conn : task[d] \in [End -> Stage]
    BY DEF IInv, TypeOK
  <2>4. task' = [d \in Conn |-> [task[d] EXCEPT ![e] = "none"]] /\ "none" \in Stage
    BY <1>3 DEF Crash, Stage
  <2>5. task' \in [Conn -> [End -> Stage]]
    BY <2>3, <2>4
  <2>6. \A x \in End, d \in Conn : task'[d][x] \in {task[d][x], "none"}
    BY <2>3, <2>4
  <2>7. initiator' = initiator
    BY <1>3 DEF Crash
  <2> QED BY <2>1, <2>2, <2>5, <2>6, <2>7, ConnAssumption, StageStep
<1> QED BY <1>1, <1>2, <1>3

LEMMA NextInvariant == IInv /\ [Next]_vars => IInv'
<1>1. CASE UNCHANGED vars
  BY <1>1 DEF IInv, TypeOK, EnteredByItsTask, Dials, vars
<1>2. ASSUME IInv, Next PROVE IInv'
  BY <1>2, DialInvariant, ConnInvariant, EndInvariant DEF Next, Disturbance
<1> QED BY <1>1, <1>2

LEMMA Invariance == Spec => []IInv
BY InitInvariant, NextInvariant, PTL DEF Spec

\* Every state is typed, and no end ever has two dials to the other under way.
THEOREM TypeCorrect == Spec => []TypeOK
BY Invariance, PTL DEF IInv
-----------------------------------------------------------------------------
\* The task of a connection, moved by one step, is not "none" afterwards, or is that
\* of a connection which is no entry.
LEMMA TaskWatches ==
    ASSUME IInv, NEW e \in End, NEW c \in Conn, Progress(e, c) \/ Refuse(e, c) \/ Loss(e, c),
           NEW x \in End, ~Unwatched(x)
    PROVE  ~Unwatched(x)'
<1> USE DEF IInv, TypeOK
<1>1. "none" \in Stage /\ "verified" \in Stage /\ "entered" \in Stage /\ "watched" \in Stage
  BY DEF Stage
<1>2. CASE Verify(e, c)
  BY <1>1, <1>2, TaskStep DEF Verify, Unwatched
<1>3. CASE Refuse(e, c) \/ Broken(e, c)
  <2>1. /\ task' = [task EXCEPT ![c][e] = "none"] /\ conns' = conns
        /\ conns[e] # c
    BY <1>3 DEF Refuse, Broken, EnteredByItsTask
  <2> QED BY <1>1, <2>1, TaskStep DEF Unwatched
<1>4. CASE Enter(e, c)
  <2>1. conns' = [conns EXCEPT ![e] = c] /\ task' = [task EXCEPT ![c][e] = "entered"]
    BY <1>4 DEF Enter
  <2> QED BY <1>1, <2>1, TaskStep DEF Unwatched
<1>5. CASE DropDuplicate(e, c)
  <2>1. /\ task' = [task EXCEPT ![c][e] = "none"] /\ conns' = conns
        /\ conns[e] # c
    BY <1>5 DEF DropDuplicate, EnteredByItsTask
  <2> QED BY <1>1, <2>1, TaskStep DEF Unwatched
<1>6. CASE Watch(e, c)
  BY <1>1, <1>6, TaskStep DEF Watch, Unwatched
<1>7. CASE Unregister(e, c)
  <2>1. /\ conns' = IF conns[e] = c THEN [conns EXCEPT ![e] = NoConn] ELSE conns
        /\ task' = [task EXCEPT ![c][e] = "none"]
    BY <1>7 DEF Unregister
  <2> QED BY <1>1, <2>1, TaskStep DEF Unwatched
<1>8. CASE CloseArrives(e, c) \/ Loss(e, c)
  BY <1>8 DEF CloseArrives, Loss, Unwatched
<1> QED BY <1>2, <1>3, <1>4, <1>5, <1>6, <1>7, <1>8 DEF Progress

\* The tick makes no entry, and dials over a connection that is none; going offline
\* and a crash remove the entry.
LEMMA EndWatches ==
    ASSUME IInv, NEW e \in End, TickRead(e) \/ TickDial(e) \/ GoOffline(e) \/ Crash(e),
           NEW x \in End, ~Unwatched(x)
    PROVE  ~Unwatched(x)'
<1> USE DEF IInv, TypeOK
<1>1. CASE TickRead(e)
  BY <1>1 DEF TickRead, Unwatched
<1>2. CASE TickDial(e)
  <2>1. CASE Dialing(e)
    BY <1>2, <2>1 DEF TickDial, Unwatched
  <2>2. CASE ~Dialing(e)
    <3>1. PICK c \in Unused : task' = [task EXCEPT ![c] = [y \in End |-> "handshake"]]
      BY <1>2, <2>2 DEF TickDial
    <3>2. c \in Conn /\ conns[x] # c /\ conns' = conns
      BY <1>2, <3>1 DEF TickDial, Unused
    <3> QED BY <3>1, <3>2 DEF Unwatched
  <2> QED BY <2>1, <2>2
<1>3. CASE GoOffline(e)
  BY <1>3 DEF GoOffline, Unwatched
<1>4. CASE Crash(e)
  <2>1. conns' = [conns EXCEPT ![e] = NoConn]
        /\ task' = [d \in Conn |-> [task[d] EXCEPT ![e] = "none"]]
    BY <1>4 DEF Crash
  <2>2. \A d \in Conn : task[d] \in [End -> Stage]
    OBVIOUS
  <2>3. x # e => \A d \in Conn : task'[d][x] = task[d][x]
    BY <2>1, <2>2
  <2> QED BY <2>1, <2>3 DEF Unwatched
<1> QED BY <1>1, <1>2, <1>3, <1>4

\* An entry without a watcher to remove it comes only from a dial that timed out in
\* register_mesh, however many connections there are.
THEOREM WatchersLast == Spec => EntriesAreWatched
<1> DEFINE A == \A e \in End : (Unwatched(e)' /\ ~Unwatched(e)) => \E c \in Conn : DialTimeout(e, c)
<1>1. ASSUME IInv, Next PROVE A
  <2> SUFFICES ASSUME NEW x \in End, Unwatched(x)', ~Unwatched(x)
               PROVE  \E c \in Conn : DialTimeout(x, c)
    OBVIOUS
  <2>1. PICK e \in End, c \in Conn : DialTimeout(e, c)
    BY <1>1, TaskWatches, EndWatches DEF Next, Disturbance
  <2>2. CASE x = e
    BY <2>1, <2>2
  <2>3. CASE x # e
    <3>1. \A d \in Conn : task'[d][x] = task[d][x]
      BY <1>1, <2>1, <2>3, TaskStep DEF DialTimeout, IInv, TypeOK, Stage
    <3> QED BY <2>1, <3>1 DEF DialTimeout, Unwatched
  <2> QED BY <2>2, <2>3
<1>2. IInv /\ [Next]_vars => [A]_vars
  BY <1>1
<1> QED BY <1>2, Invariance, PTL DEF Spec, EntriesAreWatched

\* No watcher of a superseded connection, failed handshake or late close takes an open
\* entry away: only the tie-break, going offline and a crash do.
THEOREM LiveEntriesStay == Spec => LiveEntryIsKept
<1> DEFINE A == \A e \in End :
                   (conns[e] # NoConn /\ conns'[e] # conns[e] /\ e \in open[conns[e]])
                      => (\E c \in Conn : Enter(e, c)) \/ GoOffline(e) \/ Crash(e)
<1>1. ASSUME IInv, Next PROVE A
  <2> SUFFICES ASSUME NEW x \in End, conns[x] # NoConn, conns'[x] # conns[x], x \in open[conns[x]]
               PROVE  (\E c \in Conn : Enter(x, c)) \/ GoOffline(x) \/ Crash(x)
    OBVIOUS
  <2> USE DEF IInv, TypeOK
  <2>1. ASSUME NEW e \in End, NEW c \in Conn, Enter(e, c) PROVE x = e
    BY <1>1, <2>1 DEF Enter
  <2>2. ASSUME NEW e \in End, GoOffline(e) \/ Crash(e) PROVE x = e
    BY <1>1, <2>2 DEF GoOffline, Crash
  <2>3. ASSUME NEW e \in End, NEW c \in Conn, Unregister(e, c) PROVE FALSE
    BY <1>1, <2>3 DEF Unregister
  <2>4. ASSUME NEW e \in End PROVE ~TickRead(e) /\ ~TickDial(e)
    BY DEF TickRead, TickDial
  <2>5. ASSUME NEW e \in End, NEW c \in Conn
        PROVE  /\ ~Verify(e, c) /\ ~Broken(e, c) /\ ~DropDuplicate(e, c) /\ ~Watch(e, c)
               /\ ~CloseArrives(e, c) /\ ~Refuse(e, c) /\ ~DialTimeout(e, c) /\ ~Loss(e, c)
    BY DEF Verify, Broken, DropDuplicate, Watch, CloseArrives, Refuse, DialTimeout, Loss
  <2> QED BY <1>1, <2>1, <2>2, <2>3, <2>4, <2>5 DEF Next, Progress, Disturbance
<1>2. IInv /\ [Next]_vars => [A]_vars
  BY <1>1
<1> QED BY <1>2, Invariance, PTL DEF Spec, LiveEntryIsKept

-----------------------------------------------------------------------------
\* What is open at an end is its entry, or still in the hands of the task that will make it
\* one or close it: whatever loses or fails is closed.
OpenIsHeld ==
    \A e \in End, c \in Conn :
        e \in open[c] => conns[e] = c \/ task[c][e] \in {"handshake", "verified"}

LEMMA DialHeld ==
    ASSUME IInv, OpenIsHeld, NEW e \in End, TickDial(e)
    PROVE  OpenIsHeld'
<1> USE DEF IInv, TypeOK
<1>1. CASE Dialing(e)
  BY <1>1 DEF TickDial, OpenIsHeld
<1>2. CASE ~Dialing(e)
  <2>1. PICK c \in Unused : /\ open' = [open EXCEPT ![c] = End]
                            /\ task' = [task EXCEPT ![c] = [x \in End |-> "handshake"]]
    BY <1>2 DEF TickDial
  <2>2. c \in Conn /\ conns' = conns
    BY <2>1 DEF Unused, TickDial
  <2> QED BY <2>1, <2>2 DEF OpenIsHeld
<1> QED BY <1>1, <1>2

LEMMA ConnHeld ==
    ASSUME IInv, OpenIsHeld, NEW e \in End, NEW c \in Conn,
           Progress(e, c) \/ Refuse(e, c) \/ DialTimeout(e, c) \/ Loss(e, c)
    PROVE  OpenIsHeld'
<1> USE DEF IInv, TypeOK
<1>1. "none" \in Stage /\ "verified" \in Stage /\ "entered" \in Stage /\ "watched" \in Stage
  BY DEF Stage
<1>2. CASE Verify(e, c)
  BY <1>1, <1>2, TaskStep DEF Verify, OpenIsHeld
<1>3. CASE Refuse(e, c) \/ Broken(e, c) \/ DropDuplicate(e, c)
  <2>1. /\ task' = [task EXCEPT ![c][e] = "none"] /\ conns' = conns
        /\ \A d \in Conn : open'[d] \subseteq open[d]
        /\ e \notin open'[c]
    BY <1>3 DEF Refuse, Broken, DropDuplicate, Close
  <2> QED BY <1>1, <2>1, TaskStep DEF OpenIsHeld
<1>4. CASE Enter(e, c)
  <2>1. /\ task' = [task EXCEPT ![c][e] = "entered"] /\ conns' = [conns EXCEPT ![e] = c]
        /\ \A d \in Conn : open'[d] \subseteq open[d] /\ (conns[e] = d => e \notin open'[d])
    BY <1>4, ConnAssumption DEF Enter, Close
  <2> QED BY <1>1, <2>1, TaskStep DEF OpenIsHeld
<1>5. CASE Watch(e, c) \/ DialTimeout(e, c)
  <2>1. PICK s \in {"watched", "none"} : task' = [task EXCEPT ![c][e] = s]
    BY <1>5 DEF Watch, DialTimeout
  <2>2. open' = open /\ conns' = conns /\ task[c][e] = "entered"
    BY <1>5 DEF Watch, DialTimeout
  <2> QED BY <1>1, <2>1, <2>2, TaskStep DEF OpenIsHeld
<1>6. CASE Unregister(e, c)
  <2>1. /\ task' = [task EXCEPT ![c][e] = "none"] /\ open' = open /\ e \notin open[c]
        /\ \A x \in End : conns'[x] = conns[x] \/ (x = e /\ conns[x] = c)
    BY <1>6 DEF Unregister
  <2> QED BY <1>1, <2>1, TaskStep DEF OpenIsHeld
<1>7. CASE CloseArrives(e, c) \/ Loss(e, c)
  <2>1. UNCHANGED <<task, conns>> /\ \A d \in Conn : open'[d] \subseteq open[d]
    BY <1>7 DEF CloseArrives, Loss, Close
  <2> QED BY <2>1 DEF OpenIsHeld
<1> QED BY <1>2, <1>3, <1>4, <1>5, <1>6, <1>7 DEF Progress

LEMMA EndHeld ==
    ASSUME IInv, OpenIsHeld, NEW e \in End, TickRead(e) \/ GoOffline(e) \/ Crash(e)
    PROVE  OpenIsHeld'
<1> USE DEF IInv, TypeOK
<1>1. CASE TickRead(e)
  BY <1>1 DEF TickRead, OpenIsHeld
<1>2. CASE GoOffline(e)
  <2>1. /\ task' = task /\ conns' = [conns EXCEPT ![e] = NoConn]
        /\ \A d \in Conn : open'[d] \subseteq open[d] /\ (conns[e] = d => e \notin open'[d])
    BY <1>2 DEF GoOffline, Close
  <2> QED BY <2>1 DEF OpenIsHeld
<1>3. CASE Crash(e)
  <2>1. /\ conns' = [conns EXCEPT ![e] = NoConn]
        /\ \A d \in Conn : open'[d] = open[d] \ {e}
        /\ task' = [d \in Conn |-> [task[d] EXCEPT ![e] = "none"]]
    BY <1>3 DEF Crash
  <2>2. \A d \in Conn : task[d] \in [End -> Stage]
    OBVIOUS
  <2>3. \A d \in Conn, x \in End : x # e => task'[d][x] = task[d][x]
    BY <2>1, <2>2
  <2> QED BY <2>1, <2>3 DEF OpenIsHeld
<1> QED BY <1>1, <1>2, <1>3

\* resolve_duplicate "makes both endpoints converge on the same physical connection": however
\* many connections there are, and however dials cross and fail, two ends with nothing under way
\* hold the same one, or none.
THEOREM EndsHoldTheSame == Spec => []EndsAgree
<1>1. Init => OpenIsHeld
  BY DEF Init, OpenIsHeld
<1>2. IInv /\ OpenIsHeld /\ [Next]_vars => OpenIsHeld'
  <2>1. CASE UNCHANGED vars
    BY <2>1 DEF vars, OpenIsHeld
  <2>2. ASSUME IInv, OpenIsHeld, Next PROVE OpenIsHeld'
    BY <2>2, DialHeld, ConnHeld, EndHeld DEF Next, Disturbance
  <2> QED BY <2>1, <2>2
<1>3. IInv /\ OpenIsHeld => EndsAgree
  <2> SUFFICES ASSUME IInv, OpenIsHeld, Settled, \A e \in End : ~Unwatched(e)
               PROVE  conns[Lower] = conns[Higher]
    BY DEF EndsAgree
  <2>1. ASSUME NEW e \in End, NEW x \in End, conns[e] # NoConn PROVE conns[x] = conns[e]
    <3>1. PICK c \in Conn : conns[e] = c
      BY <2>1 DEF IInv, TypeOK
    <3>2. open[c] = End
      BY <2>1, <3>1 DEF Unwatched, Settled
    <3>3. task[c][x] \notin {"handshake", "verified"}
      BY DEF Settled
    <3> QED BY <3>1, <3>2, <3>3 DEF OpenIsHeld
  <2> QED BY <2>1, Ends
<1> QED BY <1>1, <1>2, <1>3, Invariance, PTL DEF Spec
=============================================================================
