------------------------------ MODULE RosterFold ------------------------------
(***************************************************************************)
(* The fold of Roster::build (ipn-core/src/roster.rs) as a state machine.  *)
(*                                                                         *)
(* Roster::build sorts the authentic entries of a network by (ts, id) and  *)
(* folds them, one authorization decision per entry.  Here "roster" is the *)
(* accumulator, each step accepts the next entry of the order, and "now"   *)
(* is that entry's timestamp, which never decreases.  Entries of one       *)
(* timestamp come in any order: the tie-break is a content hash, which is  *)
(* arbitrary to the rules.  An entry the rules refuse changes nothing in   *)
(* the code (each `continue`), so it is a stuttering step here.            *)
(***************************************************************************)
EXTENDS RosterRules

-----------------------------------------------------------------------------
VARIABLES
    roster,     \* the accumulator
    now,        \* the timestamp of the last entry accepted
    \* History, for the properties only:
    appointed,  \* devices the originator made Controller
    issued,     \* Controller nonces the originator published
    redeemed,   \* <<nonce, device>>: a Controller admitted by a Controller
    uses        \* admissions that spent a single-use nonce, per nonce

history == <<appointed, issued, redeemed, uses>>
vars == <<roster, now, history>>

Init ==
    /\ roster = EmptyRoster
    /\ now = 0
    /\ appointed = {}
    /\ issued = {}
    /\ redeemed = {}
    /\ uses = [n \in Nonce |-> 0]

\* e can come next in (ts, id) order.
Follows(e) == e.ts >= now /\ now' = e.ts

Add(e) ==
    /\ Follows(e)
    /\ AddAllowed(roster, e)
    /\ roster' = AfterAdd(roster, e)
    /\ appointed' = IF IsOrig(e) /\ e.role = "controller"
                    THEN appointed \union {e.node} ELSE appointed
    /\ redeemed' = IF ~IsOrig(e) /\ e.role = "controller"
                   THEN redeemed \union {<<e.nonce, e.node>>} ELSE redeemed
    /\ uses' = IF SpendsInvite(roster, e)
               THEN [uses EXCEPT ![e.nonce] = @ + 1] ELSE uses
    /\ UNCHANGED issued

Remove(e) ==
    /\ Follows(e)
    /\ RemoveAllowed(roster, e)
    /\ roster' = AfterRemove(roster, e)
    /\ UNCHANGED history

SetRole(e) ==
    /\ Follows(e)
    /\ SetRoleAllowed(roster, e)
    /\ roster' = AfterSetRole(roster, e)
    /\ appointed' = IF e.role = "controller" THEN appointed \union {e.node}
                    ELSE appointed
    /\ UNCHANGED <<issued, redeemed, uses>>

SetInvite(e) ==
    /\ Follows(e)
    /\ SetInviteAllowed(roster, e)
    /\ roster' = AfterSetInvite(roster, e)
    /\ issued' = IF IsOrig(e) /\ e.kind = "controller"
                 THEN issued \union {e.nonce} ELSE issued
    /\ UNCHANGED <<appointed, redeemed, uses>>

Freeze(e) ==
    /\ Follows(e)
    /\ FreezeAllowed(roster, e)
    /\ roster' = AfterFreeze(roster, e)
    /\ UNCHANGED history

SetName(e) ==
    /\ Follows(e)
    /\ SetNameAllowed(roster, e)
    /\ roster' = AfterSetName(roster, e)
    /\ UNCHANGED history

Next ==
    \/ \E e \in AddEntry : Add(e)
    \/ \E e \in RemoveEntry : Remove(e)
    \/ \E e \in SetRoleEntry : SetRole(e)
    \/ \E e \in SetInviteEntry : SetInvite(e)
    \/ \E e \in FreezeEntry : Freeze(e)
    \/ \E e \in SetNameEntry : SetName(e)

Spec == Init /\ [][Next]_vars
-----------------------------------------------------------------------------
\* The accumulator and the history stay within their types.
TypeOK ==
    /\ roster \in Roster
    /\ now \in Time \union {0}
    /\ appointed \subseteq Node
    /\ issued \subseteq Nonce
    /\ redeemed \subseteq Nonce \X Node
    /\ uses \in [Nonce -> Nat]

\* "A single-use invite admits exactly once" (roster.rs, module comment): over a
\* whole log, in any order, with nonces re-published under another kind or as
\* multi-use in between, at most one Controller-signed Add is accepted while
\* spending a given nonce.
SingleUseAdmitsOnce == \A n \in Nonce : uses[n] <= 1

\* The blast radius docs/security.md states: whoever is a Controller was made one
\* by the originator, or came in on a Controller nonce the originator published,
\* and each such nonce made one device a Controller.  No chain of
\* promotions, removals and re-admissions among Controllers yields another.
ControllersTraceToOriginator ==
    \A c \in Controllers(roster) :
        c \in appointed \/ \E n \in issued : <<n, c>> \in redeemed

OneControllerPerInvite ==
    \A p, q \in redeemed :
        /\ p[1] \in issued
        /\ p[1] = q[1] => p[2] = q[2]

BlastRadius == ControllersTraceToOriginator /\ OneControllerPerInvite

\* Until the originator appoints a Controller nobody else has any power: no
\* admission spends an invite and no Controller exists, whatever is signed.
PowerStartsWithOriginator ==
    appointed = {} =>
        /\ Controllers(roster) = {}
        /\ redeemed = {}
        /\ \A n \in Nonce : uses[n] = 0

\* The join path's pre-check and the fold's rule are two pieces of code that must
\* agree: on an unfrozen roster, check_invite answers "ok" exactly for the nonces
\* an Add signed now by any current Controller would be accepted with.
CheckInviteAgreesWithFold ==
    ~roster.frozen =>
        \A e \in AddEntry :
            e.signer \in Controllers(roster) /\ e.ts >= now =>
                (CheckInvite(roster, e.role, e.nonce) = "ok"
                    <=> AddAllowed(roster, e))
=============================================================================
