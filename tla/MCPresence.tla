------------------------------ MODULE MCPresence ------------------------------
(* Presence with two connections and heartbeats from three moments, and Recovery *)
(* with a longest backoff that takes two failures.  One run checks both: they  *)
(* read the same connection in two ways and change nothing of each other's, so   *)
(* that in a behaviour one of the two moves and the other stays as it began.     *)
EXTENDS Presence, Recovery

CONSTANTS c1, c2

Intervals == [p \in Pace |-> IF p = "interactive" THEN 1 ELSE 2]

VARIABLE scope  \* which of the two moves
memberVars == <<vars, recoveryVars, scope>>

Shows == scope = "presence" /\ UNCHANGED <<recoveryVars, scope>>

MemberInit ==
    /\ Init /\ RecoveryInit
    /\ \/ scope = "presence" /\ path /\ heard = 0
       \/ scope = "recovery" /\ disk = 0

MemberNext ==
    \/ Next /\ Shows
    \/ RecoveryNext /\ scope = "recovery" /\ UNCHANGED <<vars, scope>>

MemberSpec ==
    /\ MemberInit /\ [][MemberNext]_memberVars
    /\ WF_memberVars(Tick /\ Shows)
    /\ WF_memberVars(Offline /\ Shows)
    /\ \A c \in Conn : WF_memberVars(Task(c) /\ Shows)
=============================================================================
