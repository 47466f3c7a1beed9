--------------------------- MODULE RosterFoldProofs ---------------------------
(***************************************************************************)
(* The roster: the role rules of the fold (RosterFold), the addresses it   *)
(* resolves (RosterBuild, Addresses), and the protocol built on it         *)
(* (Membership), for every set of devices, nonces, labels, hosts and       *)
(* timestamps, and for logs of every length.                               *)
(***************************************************************************)
EXTENDS RosterFold, Addresses, Membership, FiniteSetTheorems, WellFoundedInduction, TLAPS

(***************************************************************************)
(* Type correctness: one lemma per kind of entry.                          *)
(***************************************************************************)
LEMMA AddType ==
    ASSUME TypeOK, NEW e \in AddEntry, Add(e)
    PROVE  TypeOK'
  <1>1. roster' \in Roster
    BY DEF TypeOK, Add, AfterAdd, AddEntry, Roster, SpendsInvite
  <1>2. now' \in Time \union {0}
    BY DEF Add, Follows, AddEntry
  <1>3. appointed' \subseteq Node /\ issued' \subseteq Nonce
    BY DEF TypeOK, Add, AddEntry
  <1>4. redeemed' \subseteq Nonce \X Node
    BY DEF TypeOK, Add, AddEntry
  <1>5. uses' \in [Nonce -> Nat]
    BY DEF TypeOK, Add, AddEntry
  <1>. QED  BY <1>1, <1>2, <1>3, <1>4, <1>5 DEF TypeOK

LEMMA RemoveType ==
    ASSUME TypeOK, NEW e \in RemoveEntry, Remove(e)
    PROVE  TypeOK'
  <1>1. roster' \in Roster
    BY DEF TypeOK, Remove, AfterRemove, RemoveEntry, Roster
  <1>. QED
    BY <1>1 DEF TypeOK, Remove, Follows, RemoveEntry, history

LEMMA SetRoleType ==
    ASSUME TypeOK, NEW e \in SetRoleEntry, SetRole(e)
    PROVE  TypeOK'
  <1>1. roster' \in Roster
    BY DEF TypeOK, SetRole, AfterSetRole, SetRoleEntry, Roster
  <1>. QED
    BY <1>1 DEF TypeOK, SetRole, Follows, SetRoleEntry

LEMMA SetInviteType ==
    ASSUME TypeOK, NEW e \in SetInviteEntry, SetInvite(e)
    PROVE  TypeOK'
  <1>1. roster' \in Roster
    BY DEF TypeOK, SetInvite, AfterSetInvite, SetInviteEntry, Roster, Role
  <1>. QED
    BY <1>1 DEF TypeOK, SetInvite, Follows, SetInviteEntry

LEMMA FreezeType ==
    ASSUME TypeOK, NEW e \in FreezeEntry, Freeze(e)
    PROVE  TypeOK'
  <1>1. roster' \in Roster
    BY DEF TypeOK, Freeze, AfterFreeze, FreezeEntry, Roster
  <1>. QED
    BY <1>1 DEF TypeOK, Freeze, Follows, FreezeEntry, history

LEMMA SetNameType ==
    ASSUME TypeOK, NEW e \in SetNameEntry, SetName(e)
    PROVE  TypeOK'
  <1>1. roster' \in Roster
    BY DEF TypeOK, SetName, AfterSetName, SetNameEntry, Roster
  <1>. QED
    BY <1>1 DEF TypeOK, SetName, Follows, SetNameEntry, history

\* The accumulator and its history keep their types, for every log.
THEOREM TypeCorrect == Spec => []TypeOK
  <1>1. Init => TypeOK
    BY DEF Init, TypeOK, EmptyRoster, Roster
  <1>2. TypeOK /\ [Next]_vars => TypeOK'
    <2>1. CASE UNCHANGED vars
      BY <2>1 DEF TypeOK, vars, history
    <2>2. ASSUME TypeOK, Next PROVE TypeOK'
      BY <2>2, AddType, RemoveType, SetRoleType, SetInviteType, FreezeType,
         SetNameType DEF Next
    <2>. QED  BY <2>1, <2>2
  <1>. QED  BY <1>1, <1>2, PTL DEF Spec

-----------------------------------------------------------------------------
(***************************************************************************)
(* The inductive invariant.  The invariants of RosterFold speak of the     *)
(* history; what makes them inductive is how the history is tied to the    *)
(* accumulator: a nonce that was spent stays in "consumed" for ever, and a *)
(* Controller invite is always one the originator issued, single-use.      *)
(***************************************************************************)
SpentIsConsumed ==
    /\ \A n \in Nonce : uses[n] # 0 => n \in roster.consumed
    /\ \A p \in redeemed : p[1] \in roster.consumed

ControllerInviteIsIssued ==
    roster.invite["controller"] # NoInvite =>
        /\ roster.invite["controller"] \in issued
        /\ roster.single["controller"]

AdmittedBeforeNow == \A n \in Node : roster.since[n] <= now

IInv ==
    /\ TypeOK
    /\ SingleUseAdmitsOnce
    /\ BlastRadius
    /\ PowerStartsWithOriginator
    /\ SpentIsConsumed
    /\ ControllerInviteIsIssued
    /\ AdmittedBeforeNow

\* Timestamps and admission times are numbers, so the fold's order compares them.
LEMMA TimeIsNat == \A t \in Time \union {0} : t \in Nat
  BY NumbersAssumption

LEMMA SinceIsNat ==
    ASSUME TypeOK
    PROVE  \A n \in Node : roster.since[n] \in Nat
  <1>1. \A n \in Node : roster.since[n] \in Time \union {0}
    BY DEF TypeOK, Roster
  <1>. QED  BY <1>1, TimeIsNat, Zenon

\* An accepted Add of a signer that is not the originator meets every clause of
\* the Controller's branch.
LEMMA ControllerAdd ==
    ASSUME TypeOK, NEW e \in AddEntry, AddAllowed(roster, e), ~IsOrig(e)
    PROVE  /\ e.signer \in Controllers(roster)
           /\ e.nonce = roster.invite[e.role]
           /\ roster.single[e.role] => e.nonce \notin roster.consumed
  BY DEF AddAllowed, IsController, InviteGate

\* What an accepted Add does to the accumulator, field by field.
LEMMA AddEffect ==
    ASSUME TypeOK, NEW e \in AddEntry, Add(e)
    PROVE  /\ roster'.role = [roster.role EXCEPT ![e.node] = e.role]
           /\ roster'.since = [roster.since EXCEPT ![e.node] = e.ts]
           /\ roster'.invite = roster.invite
           /\ roster'.single = roster.single
           /\ roster'.frozen = roster.frozen
           /\ roster'.consumed = IF SpendsInvite(roster, e)
                                 THEN roster.consumed \union {e.nonce}
                                 ELSE roster.consumed
  BY DEF TypeOK, Roster, Add, AfterAdd

LEMMA AddInvariant ==
    ASSUME IInv, NEW e \in AddEntry, Add(e)
    PROVE  IInv'
  <1>. USE DEF IInv
  <1>1. TypeOK'
    BY AddType
  <1>2. /\ e.node \in Node /\ e.nonce \in Nonce /\ e.role \in Role /\ e.ts \in Time
        /\ AddAllowed(roster, e)
        /\ issued' = issued
    BY DEF AddEntry, Add
  <1>3. roster.consumed \subseteq roster'.consumed
    BY AddEffect
  <1>4. \* A Controller that admits a Controller spends an issued nonce.
        ASSUME ~IsOrig(e), e.role = "controller"
        PROVE  /\ e.nonce \in issued
               /\ e.nonce \notin roster.consumed
               /\ SpendsInvite(roster, e)
    <2>1. e.nonce = roster.invite["controller"] /\ e.nonce # NoInvite
      BY <1>2, <1>4, ControllerAdd, NonceAssumption
    <2>2. e.nonce \in issued /\ roster.single["controller"]
      BY <2>1 DEF ControllerInviteIsIssued
    <2>. QED
      BY <1>2, <1>4, <2>2, ControllerAdd DEF SpendsInvite
  <1>5. SingleUseAdmitsOnce'
    <2>1. CASE SpendsInvite(roster, e)
      <3>1. e.nonce \notin roster.consumed
        BY <1>2, <2>1, ControllerAdd DEF SpendsInvite
      <3>2. uses[e.nonce] = 0
        BY <1>2, <3>1 DEF SpentIsConsumed
      <3>3. uses' = [uses EXCEPT ![e.nonce] = @ + 1] /\ uses \in [Nonce -> Nat]
        BY <2>1 DEF Add, TypeOK
      <3>. QED
        BY <1>2, <3>2, <3>3 DEF SingleUseAdmitsOnce
    <2>2. CASE ~SpendsInvite(roster, e)
      BY <2>2 DEF Add, SingleUseAdmitsOnce
    <2>. QED  BY <2>1, <2>2
  <1>6. BlastRadius'
    <2>1. ControllersTraceToOriginator'
      <3>. SUFFICES ASSUME NEW c \in Controllers(roster')
                    PROVE  c \in appointed' \/ \E n \in issued' : <<n, c>> \in redeemed'
        BY DEF ControllersTraceToOriginator
      <3>1. CASE c # e.node
        <4>1. c \in Controllers(roster)
          BY <3>1, AddEffect DEF Controllers, TypeOK, Roster
        <4>2. appointed \subseteq appointed' /\ redeemed \subseteq redeemed'
          BY DEF Add
        <4>. QED
          BY <4>1, <4>2, <1>2 DEF BlastRadius, ControllersTraceToOriginator
      <3>2. CASE c = e.node
        <4>1. e.role = "controller"
          BY <3>2, <1>2, AddEffect DEF Controllers, TypeOK, Roster
        <4>2. CASE IsOrig(e)
          BY <4>1, <4>2, <3>2 DEF Add
        <4>3. CASE ~IsOrig(e)
          <5>1. e.nonce \in issued /\ <<e.nonce, c>> \in redeemed'
            BY <4>1, <4>3, <3>2, <1>4 DEF Add
          <5>. QED  BY <5>1, <1>2
        <4>. QED  BY <4>2, <4>3
      <3>. QED  BY <3>1, <3>2
    <2>2. OneControllerPerInvite'
      <3>1. CASE IsOrig(e) \/ e.role # "controller"
        BY <3>1, <1>2 DEF Add, BlastRadius, OneControllerPerInvite
      <3>2. CASE ~IsOrig(e) /\ e.role = "controller"
        <4>1. redeemed' = redeemed \union {<<e.nonce, e.node>>}
          BY <3>2 DEF Add
        <4>2. \A p \in redeemed : p[1] # e.nonce
          BY <1>4, <3>2 DEF SpentIsConsumed
        <4>. QED
          BY <4>1, <4>2, <1>2, <1>4, <3>2 DEF BlastRadius, OneControllerPerInvite
      <3>. QED  BY <3>1, <3>2
    <2>. QED  BY <2>1, <2>2 DEF BlastRadius
  <1>7. PowerStartsWithOriginator'
    <2>. SUFFICES ASSUME appointed' = {}
                  PROVE  /\ Controllers(roster') = {}
                         /\ redeemed' = {}
                         /\ \A n \in Nonce : uses'[n] = 0
      BY DEF PowerStartsWithOriginator
    <2>1. appointed = {} /\ ~(IsOrig(e) /\ e.role = "controller")
      BY DEF Add
    <2>2. Controllers(roster) = {} /\ redeemed = {} /\ \A n \in Nonce : uses[n] = 0
      BY <2>1 DEF PowerStartsWithOriginator
    <2>3. IsOrig(e) /\ e.role # "controller"
      BY <2>1, <2>2, <1>2, ControllerAdd
    <2>4. Controllers(roster') = {}
      <3>1. roster'.role = [roster.role EXCEPT ![e.node] = e.role]
        BY AddEffect
      <3>2. \A n \in Node : roster'.role[n] = e.role \/ roster'.role[n] = roster.role[n]
        BY <3>1, <1>2 DEF TypeOK, Roster
      <3>. QED  BY <2>2, <2>3, <3>2 DEF Controllers
    <2>5. uses' = uses /\ redeemed' = redeemed
      BY <2>3 DEF Add, SpendsInvite
    <2>. QED  BY <2>2, <2>4, <2>5
  <1>8. SpentIsConsumed'
    <2>1. \A n \in Nonce : uses'[n] # 0 => n \in roster'.consumed
      <3>1. CASE SpendsInvite(roster, e)
        <4>1. roster'.consumed = roster.consumed \union {e.nonce}
          BY <3>1, AddEffect
        <4>2. \A n \in Nonce : n # e.nonce => uses'[n] = uses[n]
          BY <3>1 DEF Add, TypeOK
        <4>. QED  BY <4>1, <4>2 DEF SpentIsConsumed
      <3>2. CASE ~SpendsInvite(roster, e)
        BY <3>2, <1>3 DEF Add, SpentIsConsumed
      <3>. QED  BY <3>1, <3>2
    <2>2. \A p \in redeemed' : p[1] \in roster'.consumed
      <3>1. CASE IsOrig(e) \/ e.role # "controller"
        BY <3>1, <1>3 DEF Add, SpentIsConsumed
      <3>2. CASE ~IsOrig(e) /\ e.role = "controller"
        <4>1. redeemed' = redeemed \union {<<e.nonce, e.node>>}
          BY <3>2 DEF Add
        <4>2. e.nonce \in roster'.consumed
          BY <3>2, <1>4, AddEffect
        <4>. QED  BY <4>1, <4>2, <1>3 DEF SpentIsConsumed
      <3>. QED  BY <3>1, <3>2
    <2>. QED  BY <2>1, <2>2 DEF SpentIsConsumed
  <1>9. ControllerInviteIsIssued'
    BY <1>2, AddEffect DEF ControllerInviteIsIssued
  <1>10. AdmittedBeforeNow'
    <2>1. now' = e.ts /\ now <= now'
      BY <1>2 DEF Add, Follows
    <2>2. \A n \in Node : roster'.since[n] = IF n = e.node THEN e.ts ELSE roster.since[n]
      BY <1>2, AddEffect DEF TypeOK, Roster
    <2>3. now \in Nat /\ now' \in Nat
      BY <1>1, NumbersAssumption DEF TypeOK
    <2>4. \A n \in Node : roster.since[n] \in Nat
      BY SinceIsNat
    <2>. QED  BY <2>1, <2>2, <2>3, <2>4 DEF AdmittedBeforeNow
  <1>. QED
    BY <1>1, <1>5, <1>6, <1>7, <1>8, <1>9, <1>10

\* Remove and SetRole: the originator's SetRole is the one step outside Add that
\* makes a Controller, and it is recorded in "appointed".
LEMMA RoleInvariant ==
    ASSUME IInv,
           \/ \E e \in RemoveEntry : Remove(e)
           \/ \E e \in SetRoleEntry : SetRole(e)
    PROVE  IInv'
  <1>. USE DEF IInv
  <1>1. TypeOK'
    BY RemoveType, SetRoleType
  <1>2. /\ UNCHANGED <<issued, redeemed, uses>>
        /\ appointed \subseteq appointed'
        /\ roster'.invite = roster.invite
        /\ roster'.single = roster.single
        /\ roster'.consumed = roster.consumed
    BY DEF TypeOK, Roster, Remove, AfterRemove, SetRole, AfterSetRole, history
  <1>3. SingleUseAdmitsOnce' /\ OneControllerPerInvite'
    BY <1>2 DEF SingleUseAdmitsOnce, BlastRadius, OneControllerPerInvite
  <1>4. SpentIsConsumed' /\ ControllerInviteIsIssued'
    BY <1>2 DEF SpentIsConsumed, ControllerInviteIsIssued
  <1>5. Controllers(roster') \subseteq Controllers(roster) \union appointed'
    <2>1. ASSUME NEW e \in RemoveEntry, Remove(e)
          PROVE  Controllers(roster') \subseteq Controllers(roster)
      BY <2>1 DEF Remove, AfterRemove, RemoveEntry, Controllers, TypeOK, Roster
    <2>2. ASSUME NEW e \in SetRoleEntry, SetRole(e)
          PROVE  Controllers(roster') \subseteq Controllers(roster) \union appointed'
      BY <2>2 DEF SetRole, AfterSetRole, SetRoleEntry, Controllers, TypeOK, Roster
    <2>. QED  BY <2>1, <2>2
  <1>6. ControllersTraceToOriginator'
    BY <1>2, <1>5 DEF BlastRadius, ControllersTraceToOriginator
  <1>7. PowerStartsWithOriginator'
    BY <1>2, <1>5 DEF PowerStartsWithOriginator
  <1>8. AdmittedBeforeNow'
    <2>1. /\ now \in Nat /\ now' \in Nat /\ now <= now'
      BY <1>1, NumbersAssumption
         DEF TypeOK, Remove, SetRole, Follows, RemoveEntry, SetRoleEntry
    <2>2. \A n \in Node : roster.since[n] \in Nat
      BY SinceIsNat
    <2>3. \A n \in Node : roster'.since[n] = roster.since[n] \/ roster'.since[n] = 0
      <3>1. ASSUME NEW e \in RemoveEntry, Remove(e)
            PROVE  roster'.since = [roster.since EXCEPT ![e.node] = 0]
        BY <3>1 DEF Remove, AfterRemove, TypeOK, Roster
      <3>2. ASSUME NEW e \in SetRoleEntry, SetRole(e)
            PROVE  roster'.since = roster.since
        BY <3>2 DEF SetRole, AfterSetRole, TypeOK, Roster
      <3>. QED  BY <3>1, <3>2 DEF TypeOK, Roster
    <2>. QED  BY <2>1, <2>2, <2>3 DEF AdmittedBeforeNow
  <1>. QED
    BY <1>1, <1>3, <1>4, <1>6, <1>7, <1>8 DEF BlastRadius

\* SetInvite, Freeze and SetName admit nobody; the rules let the originator alone
\* set a Controller invite, and what it sets enters "issued".
LEMMA OtherInvariant ==
    ASSUME IInv,
           \/ \E e \in SetInviteEntry : SetInvite(e)
           \/ \E e \in FreezeEntry : Freeze(e)
           \/ \E e \in SetNameEntry : SetName(e)
    PROVE  IInv'
  <1>. USE DEF IInv
  <1>1. TypeOK'
    BY SetInviteType, FreezeType, SetNameType
  <1>2. /\ UNCHANGED <<appointed, redeemed, uses>>
        /\ issued \subseteq issued'
        /\ roster'.role = roster.role
        /\ roster'.since = roster.since
        /\ roster'.consumed = roster.consumed
    BY DEF TypeOK, Roster, SetInvite, AfterSetInvite, Freeze, AfterFreeze,
           SetName, AfterSetName, history
  <1>3. SingleUseAdmitsOnce' /\ SpentIsConsumed'
    BY <1>2 DEF SingleUseAdmitsOnce, SpentIsConsumed
  <1>4. Controllers(roster') = Controllers(roster)
    BY <1>2 DEF Controllers
  <1>5. BlastRadius'
    BY <1>2, <1>4 DEF BlastRadius, ControllersTraceToOriginator, OneControllerPerInvite
  <1>6. PowerStartsWithOriginator'
    BY <1>2, <1>4 DEF PowerStartsWithOriginator
  <1>7. ControllerInviteIsIssued'
    <2>1. ASSUME NEW e \in SetInviteEntry, SetInvite(e)
          PROVE  ControllerInviteIsIssued'
      <3>1. /\ roster'.invite = [roster.invite EXCEPT ![e.kind] = e.nonce]
            /\ roster'.single =
                 [roster.single EXCEPT ![e.kind] = e.single \/ e.kind = "controller"]
        BY <2>1 DEF SetInvite, AfterSetInvite, TypeOK, Roster
      <3>2. CASE e.kind = "controller"
        <4>1. roster'.invite["controller"] = e.nonce /\ roster'.single["controller"]
          BY <3>1, <3>2 DEF TypeOK, Roster, Role
        <4>2. IsOrig(e)
          BY <2>1, <3>2 DEF SetInvite, SetInviteAllowed
        <4>3. issued' = issued \union {e.nonce}
          BY <2>1, <3>2, <4>2 DEF SetInvite
        <4>. QED  BY <4>1, <4>3 DEF ControllerInviteIsIssued
      <3>3. CASE e.kind # "controller"
        <4>1. /\ roster'.invite["controller"] = roster.invite["controller"]
              /\ roster'.single["controller"] = roster.single["controller"]
          BY <3>1, <3>3 DEF TypeOK, Roster, Role
        <4>. QED  BY <1>2, <4>1 DEF ControllerInviteIsIssued
      <3>. QED  BY <3>2, <3>3
    <2>2. ASSUME \/ \E e \in FreezeEntry : Freeze(e)
                 \/ \E e \in SetNameEntry : SetName(e)
          PROVE  ControllerInviteIsIssued'
      BY <2>2, <1>2 DEF Freeze, AfterFreeze, SetName, AfterSetName, history,
                   TypeOK, Roster, ControllerInviteIsIssued
    <2>. QED  BY <2>1, <2>2
  <1>8. AdmittedBeforeNow'
    <2>1. /\ now \in Nat /\ now' \in Nat /\ now <= now'
      BY <1>1, NumbersAssumption
         DEF TypeOK, SetInvite, Freeze, SetName, Follows, SetInviteEntry,
             FreezeEntry, SetNameEntry
    <2>2. \A n \in Node : roster.since[n] \in Nat
      BY SinceIsNat
    <2>. QED  BY <1>2, <2>1, <2>2 DEF AdmittedBeforeNow
  <1>. QED
    BY <1>1, <1>3, <1>5, <1>6, <1>7, <1>8

LEMMA Invariance == Spec => []IInv
  <1>1. Init => IInv
    <2>. SUFFICES ASSUME Init PROVE IInv
      OBVIOUS
    <2>1. TypeOK
      BY DEF Init, TypeOK, EmptyRoster, Roster
    <2>2. Controllers(roster) = {}
      BY DEF Init, EmptyRoster, Controllers
    <2>3. SingleUseAdmitsOnce /\ SpentIsConsumed /\ AdmittedBeforeNow
      BY DEF Init, EmptyRoster, SingleUseAdmitsOnce, SpentIsConsumed, AdmittedBeforeNow
    <2>4. BlastRadius /\ PowerStartsWithOriginator
      BY <2>2 DEF Init, BlastRadius, ControllersTraceToOriginator,
                  OneControllerPerInvite, PowerStartsWithOriginator
    <2>5. ControllerInviteIsIssued
      BY DEF Init, EmptyRoster, ControllerInviteIsIssued, Role
    <2>. QED  BY <2>1, <2>3, <2>4, <2>5 DEF IInv
  <1>2. IInv /\ [Next]_vars => IInv'
    <2>1. ASSUME IInv, UNCHANGED vars PROVE IInv'
      BY <2>1 DEF vars, history, IInv, TypeOK, SingleUseAdmitsOnce, BlastRadius,
                  ControllersTraceToOriginator, OneControllerPerInvite,
                  PowerStartsWithOriginator, SpentIsConsumed,
                  ControllerInviteIsIssued, AdmittedBeforeNow
    <2>2. ASSUME IInv, Next PROVE IInv'
      BY <2>2, AddInvariant, RoleInvariant, OtherInvariant DEF Next
    <2>. QED  BY <2>1, <2>2
  <1>. QED  BY <1>1, <1>2, PTL DEF Spec

\* For every log, a nonce spent once never admits again (roster.rs, "a single-use
\* invite admits exactly once").
THEOREM SingleUse == Spec => []SingleUseAdmitsOnce
  BY Invariance, PTL DEF IInv

\* For every log, each Controller traces to an act of the originator, and each
\* Controller invite the originator issues makes at most one Controller
\* (docs/security.md, "one Controller per originator-issued invite").
THEOREM BlastRadiusBounded == Spec => []BlastRadius
  BY Invariance, PTL DEF IInv

\* For every log, nobody but the originator has power before the originator
\* appoints a first Controller.
THEOREM OriginatorIsTheRoot == Spec => []PowerStartsWithOriginator
  BY Invariance, PTL DEF IInv

\* For every log, the join path's answer "ok" and the fold's acceptance of a
\* current Controller's Add are the same condition.  The clause that compares an
\* Add's timestamp with its signer's own admission never decides: entries are
\* folded in timestamp order, so AdmittedBeforeNow makes it true.
THEOREM PrecheckIsExact == Spec => []CheckInviteAgreesWithFold
  <1>1. IInv => CheckInviteAgreesWithFold
    <2>. SUFFICES ASSUME IInv, ~roster.frozen,
                         NEW e \in AddEntry,
                         e.signer \in Controllers(roster), e.ts >= now
                  PROVE  CheckInvite(roster, e.role, e.nonce) = "ok"
                            <=> AddAllowed(roster, e)
      BY DEF CheckInviteAgreesWithFold
    <2>1. e.signer \in Node /\ ~IsOrig(e) /\ IsController(roster, e)
      BY OriginatorAssumption DEF Controllers, IsOrig, IsController
    <2>2. e.ts >= roster.since[e.signer]
      <3>1. e.ts \in Nat /\ now \in Nat
        <4>1. e.ts \in Time /\ now \in Time \union {0}
          BY DEF AddEntry, IInv, TypeOK
        <4>. QED  BY <4>1, TimeIsNat, Zenon
      <3>2. roster.since[e.signer] \in Nat
        BY <2>1, SinceIsNat DEF IInv
      <3>3. roster.since[e.signer] <= now
        BY <2>1 DEF IInv, AdmittedBeforeNow
      <3>. QED  BY <3>1, <3>2, <3>3
    <2>3. AddAllowed(roster, e) <=> InviteGate(roster, e)
      BY <2>1, <2>2 DEF AddAllowed
    <2>4. CheckInvite(roster, e.role, e.nonce) = "ok" <=> InviteGate(roster, e)
      BY DEF CheckInvite, InviteSpent, InviteGate
    <2>. QED  BY <2>3, <2>4
  <1>. QED  BY <1>1, Invariance, PTL

-----------------------------------------------------------------------------
(***************************************************************************)
(* Induction over finite sets, in the form of a smallest counterexample.   *)
(***************************************************************************)
LEMMA SmallestSet ==
    ASSUME NEW U, IsFiniteSet(U), NEW C \in SUBSET (SUBSET U), C # {}
    PROVE  \E S \in C : \A T \in C : T \subseteq S => T = S
<1>1. C \subseteq FiniteSubsetsOf(U)
  BY FS_Subset DEF FiniteSubsetsOf
<1>2. IsWellFoundedOn(StrictSubsetOrdering(U), FiniteSubsetsOf(U))
  BY FS_StrictSubsetOrderingWellFounded
<1>3. PICK S \in C : \A T \in C : <<T, S>> \notin StrictSubsetOrdering(U)
  BY <1>1, <1>2, WFMin
<1>4. \A T \in C : T \subseteq S => T = S
  BY <1>3 DEF StrictSubsetOrdering
<1> QED BY <1>4

\* A set of numbers has a least one.
LEMMA LeastNumber ==
    ASSUME NEW S \in SUBSET Nat, S # {}
    PROVE  \E m \in S : \A k \in S : m <= k
<1>1. PICK b \in S : TRUE
  OBVIOUS
<1> DEFINE U == {k \in S : k <= b}
           UpTo(m) == {k \in S : k <= m}
           C == {UpTo(m) : m \in U}
<1>2. IsFiniteSet(U)
  BY FS_BoundedSetOfNaturals
<1>3. \A k \in S : k \in Nat
  OBVIOUS
<1>4. b \in U
  BY <1>3
<1>5. ASSUME NEW m \in U, NEW k \in UpTo(m)
      PROVE  k \in U
  <2>1. k \in S /\ k <= m /\ m <= b /\ k \in Nat /\ m \in Nat /\ b \in Nat
    BY <1>3
  <2> QED BY <2>1
<1>6. PICK T \in C : \A R \in C : R \subseteq T => R = T
  <2> HIDE DEF U, UpTo
  <2>1. C \in SUBSET (SUBSET U) /\ C # {}
    BY <1>4, <1>5
  <2> HIDE DEF C
  <2> QED BY <1>2, <2>1, SmallestSet
<1>7. PICK m \in U : T = UpTo(m)
  OBVIOUS
<1>8. ASSUME NEW k \in S, k < m
      PROVE  FALSE
  <2>1. k \in U
    BY <1>3, <1>8
  <2>2. ASSUME NEW j \in UpTo(k)
        PROVE  j \in UpTo(m)
    <3>1. j \in S /\ j <= k /\ j \in Nat /\ k \in Nat /\ m \in Nat
      BY <1>3
    <3> QED BY <1>8, <3>1
  <2>3. m \in UpTo(m) /\ m \notin UpTo(k)
    BY <1>3, <1>8
  <2> QED BY <1>6, <1>7, <2>1, <2>2, <2>3
<1> QED BY <1>3, <1>8

LEMMA MinOf ==
    ASSUME NEW S \in SUBSET Nat, S # {}
    PROVE  Min(S) \in S /\ \A k \in S : Min(S) <= k
BY LeastNumber DEF Min

(***************************************************************************)
(* A function on the subsets of a finite set may be defined by what it     *)
(* does with one element of each and the value for the others.             *)
(***************************************************************************)
Solves(f, U, last, base, step) ==
    /\ f = [S \in SUBSET U |-> f[S]]
    /\ \A S \in SUBSET U : f[S] = IF S = {} THEN base ELSE step[S][f[S \ {last[S]}]]

LEMMA SetRecursion ==
    ASSUME NEW U, IsFiniteSet(U), NEW last, \A S \in SUBSET U : S # {} => last[S] \in S,
           NEW base, NEW step
    PROVE  \E f : Solves(f, U, last, base, step)
<1> DEFINE Body(f, S) == IF S = {} THEN base ELSE step[S][f[S \ {last[S]}]]
           Serves(f, k) == \A S \in SUBSET U : Cardinality(S) <= k => f[S] = Body(f, S)
           Bad == {k \in Nat : ~ \E f : Serves(f, k)}
<1>1. \A S \in SUBSET U : IsFiniteSet(S) /\ Cardinality(S) \in Nat /\ (Cardinality(S) = 0 <=> S = {})
  BY FS_Subset, FS_CardinalityType, FS_EmptySet
<1>2. \A S \in SUBSET U : S # {} =>
         S \ {last[S]} \in SUBSET U /\ Cardinality(S \ {last[S]}) = Cardinality(S) - 1
  BY <1>1, FS_RemoveElement
<1>3. Bad = {}
  <2> SUFFICES ASSUME Bad # {} PROVE FALSE
    OBVIOUS
  <2>1. PICK k \in Bad : \A j \in Bad : k <= j
    <3> HIDE DEF Bad
    <3> SUFFICES Bad \in SUBSET Nat
      BY LeastNumber
    <3> QED BY DEF Bad
  <2>2. CASE k = 0
    <3> DEFINE f == [S \in SUBSET U |-> base]
    <3>1. Serves(f, 0)
      BY <1>1
    <3> QED BY <2>2, <3>1
  <2>3. CASE k # 0
    <3>1. k - 1 \in Nat /\ k - 1 \notin Bad
      <4>1. k \in Nat /\ k - 1 \in Nat /\ ~(k <= k - 1)
        BY <2>3
      <4> HIDE DEF Bad
      <4> QED BY <2>1, <4>1
    <3>2. PICK f : Serves(f, k - 1)
      BY <3>1
    <3> DEFINE g == [S \in SUBSET U |-> Body(f, S)]
    <3>3. ASSUME NEW S \in SUBSET U, Cardinality(S) <= k
          PROVE  g[S] = Body(g, S)
      <4>1. CASE S = {}
        BY <4>1
      <4>2. CASE S # {}
        <5> DEFINE N == S \ {last[S]}
        <5>1. N \in SUBSET U /\ Cardinality(N) <= k - 1
          BY <1>1, <1>2, <3>3, <4>2
        <5>2. g[N] = f[N]
          <6> HIDE DEF N
          <6> QED BY <3>2, <5>1
        <5> QED BY <4>2, <5>2
      <4> QED BY <4>1, <4>2
    <3> HIDE DEF g
    <3> QED BY <3>3
  <2> QED BY <2>2, <2>3
<1>4. Cardinality(U) \in Nat /\ \A S \in SUBSET U : Cardinality(S) <= Cardinality(U)
  BY FS_Subset, FS_CardinalityType
<1>5. PICK f : Serves(f, Cardinality(U))
  BY <1>3, <1>4
<1> DEFINE g == [S \in SUBSET U |-> Body(f, S)]
<1>6. \A S \in SUBSET U : g[S] = f[S]
  BY <1>4, <1>5
<1>7. \A S \in SUBSET U : Body(g, S) = Body(f, S)
  <2> SUFFICES ASSUME NEW S \in SUBSET U, S # {}
               PROVE  g[S \ {last[S]}] = f[S \ {last[S]}]
    OBVIOUS
  <2> HIDE DEF g
  <2> QED BY <1>2, <1>6
<1>8. g = [S \in SUBSET U |-> g[S]] /\ \A S \in SUBSET U : g[S] = Body(g, S)
  BY <1>7
<1> HIDE DEF g
<1> QED BY <1>8 DEF Solves

-----------------------------------------------------------------------------
(***************************************************************************)
(* The addresses.                                                          *)
(***************************************************************************)
\* What the placement needs of a roster.
Dated(r) == r.since \in [Node -> Nat] /\ r.host \in [Node -> Nat]

\* Admission order is total ...
LEMMA AdmissionOrder ==
    ASSUME NEW r, Dated(r)
    PROVE  /\ \A m, n \in Node : m # n => AdmittedBefore(r, m, n) \/ AdmittedBefore(r, n, m)
           /\ \A m, n \in Node : ~ (AdmittedBefore(r, m, n) /\ AdmittedBefore(r, n, m))
           /\ \A l, m, n \in Node : AdmittedBefore(r, l, m) /\ AdmittedBefore(r, m, n) => AdmittedBefore(r, l, n)
<1>1. \A n \in Node : r.since[n] \in Nat /\ NodeOrder[n] \in Nat
  BY NodeOrderAssumption DEF Dated
<1>2. \A m, n \in Node : m # n => NodeOrder[m] # NodeOrder[n]
  BY NodeOrderAssumption
<1>3. \A m, n \in Node : m # n => AdmittedBefore(r, m, n) \/ AdmittedBefore(r, n, m)
  BY <1>1, <1>2 DEF AdmittedBefore
<1>4. ASSUME NEW m \in Node, NEW n \in Node, AdmittedBefore(r, m, n)
      PROVE  ~AdmittedBefore(r, n, m)
  <2>1. r.since[m] \in Nat /\ r.since[n] \in Nat /\ NodeOrder[m] \in Nat /\ NodeOrder[n] \in Nat
    BY <1>1
  <2> QED BY <1>4, <2>1 DEF AdmittedBefore
<1>5. \A l, m, n \in Node : AdmittedBefore(r, l, m) /\ AdmittedBefore(r, m, n) => AdmittedBefore(r, l, n)
  BY <1>1 DEF AdmittedBefore
<1> QED BY <1>3, <1>4, <1>5

\* ... so of any devices one is the last.
LEMMA LastOf ==
    ASSUME NEW r, Dated(r), NEW M \in SUBSET Node, M # {}
    PROVE  /\ LastAdmitted(r, M) \in M
           /\ \A m \in M \ {LastAdmitted(r, M)} : AdmittedBefore(r, m, LastAdmitted(r, M))
<1> DEFINE Last(S, n) == \A m \in S \ {n} : AdmittedBefore(r, m, n)
           C == {S \in SUBSET Node : S # {} /\ \A n \in S : ~Last(S, n)}
<1>1. C = {}
  <2> SUFFICES ASSUME C # {} PROVE FALSE
    OBVIOUS
  <2>1. PICK S \in C : \A T \in C : T \subseteq S => T = S
    <3> HIDE DEF C
    <3> SUFFICES C \in SUBSET (SUBSET Node)
      BY KeysAssumption, SmallestSet
    <3> QED BY DEF C
  <2>2. PICK n \in S : TRUE
    OBVIOUS
  <2>3. S \ {n} \notin C
    BY <2>1, <2>2
  <2>4. CASE S = {n}
    BY <2>4
  <2>5. ASSUME NEW k \in S \ {n}, Last(S \ {n}, k)
        PROVE  FALSE
    <3>1. CASE AdmittedBefore(r, n, k)
      <4>1. Last(S, k)
        BY <2>5, <3>1
      <4> QED BY <4>1
    <3>2. CASE AdmittedBefore(r, k, n)
      <4>1. Last(S, n)
        BY <2>5, <3>2, AdmissionOrder
      <4> QED BY <4>1
    <3> QED BY <3>1, <3>2, AdmissionOrder
  <2> QED BY <2>3, <2>4, <2>5
<1>2. \E n \in M : Last(M, n)
  BY <1>1
<1> QED BY <1>2 DEF LastAdmitted

\* A device after all others of a set is its last one.
LEMMA LastIs ==
    ASSUME NEW r, Dated(r), NEW M \in SUBSET Node, NEW n \in M, \A m \in M \ {n} : AdmittedBefore(r, m, n)
    PROVE  LastAdmitted(r, M) = n
BY LastOf, AdmissionOrder

-----------------------------------------------------------------------------
\* The placement of a set of devices follows from that of all but the last.
LEMMA PlacementIs ==
    ASSUME NEW r, Dated(r)
    PROVE  \A M \in SUBSET Node :
              Placement(r)[M] = IF M = {} THEN [n \in Node |-> 0]
                                ELSE Settle(r, LastAdmitted(r, M))[Placement(r)[M \ {LastAdmitted(r, M)}]]
<1> DEFINE Body(f, M) == IF M = {} THEN [n \in Node |-> 0]
                         ELSE Settle(r, LastAdmitted(r, M))[f[M \ {LastAdmitted(r, M)}]]
           last == [M \in SUBSET Node |-> LastAdmitted(r, M)]
           step == [M \in SUBSET Node |-> Settle(r, LastAdmitted(r, M))]
           base == [n \in Node |-> 0]
<1>1. \A M \in SUBSET Node : M # {} => last[M] \in M
  BY LastOf
<1>2. PICK f : Solves(f, Node, last, base, step)
  <2> HIDE DEF last, step, base
  <2> QED BY <1>1, KeysAssumption, SetRecursion
<1>3. f = [M \in SUBSET Node |-> Body(f, M)]
  BY <1>2 DEF Solves
<1>4. Placement(r) = CHOOSE g : g = [M \in SUBSET Node |-> Body(g, M)]
  BY DEF Placement
<1>5. Placement(r) = [M \in SUBSET Node |-> Body(Placement(r), M)]
  <2> HIDE DEF Body
  <2> QED BY <1>3, <1>4
<1> QED BY <1>5

LEMMA SettleIs ==
    ASSUME NEW r, NEW n, NEW h \in [Node -> Nat]
    PROVE  Settle(r, n)[h] = [h EXCEPT ![n] = Probe(Range(h), r.host[n])]
BY DEF Settle

-----------------------------------------------------------------------------
(***************************************************************************)
(* Probing.                                                                *)
(***************************************************************************)
\* The address the i-th try looks at, and the tries that find a free one.
Start(recordedHost) == IF recordedHost \in Hosts THEN recordedHost ELSE FirstHost
After(recordedHost, i) == FirstHost + ((Start(recordedHost) - FirstHost + i) % HostCount)
FreeTries(taken, recordedHost) == {i \in 0 .. HostCount - 1 : After(recordedHost, i) \notin taken}

LEMMA ProbeIs ==
    ASSUME NEW taken, NEW recordedHost
    PROVE  Probe(taken, recordedHost) =
              IF FreeTries(taken, recordedHost) = {} THEN Start(recordedHost)
              ELSE After(recordedHost, Min(FreeTries(taken, recordedHost)))
BY DEF Probe, Start, After, FreeTries

LEMMA HostBounds ==
    /\ FirstHost \in Nat /\ LastHost \in Nat /\ 0 < FirstHost /\ FirstHost <= LastHost
    /\ HostCount \in Nat /\ HostCount > 0 /\ LastHost = FirstHost + HostCount - 1
    /\ \A h \in Hosts : h \in Nat /\ h # 0
    /\ \A h \in Nat : h \in Hosts <=> FirstHost <= h /\ h <= LastHost
BY HostRangeAssumption DEF Hosts, HostCount

\* The tries go round the subnet: all of them are hosts, each host is tried, the first is the start.
LEMMA TriesGoRound ==
    ASSUME NEW recordedHost
    PROVE  /\ Start(recordedHost) \in Hosts
           /\ \A i \in 0 .. HostCount - 1 : After(recordedHost, i) \in Hosts
           /\ \A h \in Hosts : \E i \in 0 .. HostCount - 1 : After(recordedHost, i) = h
           /\ After(recordedHost, 0) = Start(recordedHost)
<1>1. Start(recordedHost) \in Hosts
  BY HostBounds DEF Start, Hosts
<1> DEFINE s == Start(recordedHost) - FirstHost
<1>2. s \in Nat /\ s < HostCount /\ FirstHost + s = Start(recordedHost) /\ Start(recordedHost) \in Nat
  BY <1>1, HostBounds
<1>3. \A i \in Nat : After(recordedHost, i) = FirstHost + ((s + i) % HostCount)
  BY DEF After
<1> HIDE DEF s
<1>4. ASSUME NEW i \in 0 .. HostCount - 1
      PROVE  After(recordedHost, i) \in Hosts
  <2>1. s + i \in Nat /\ i \in Nat
    BY <1>2, HostBounds
  <2>2. (s + i) % HostCount \in 0 .. HostCount - 1
    BY <2>1, HostBounds
  <2> QED BY <1>3, <2>1, <2>2, HostBounds
<1>5. \A a \in Nat, c \in Nat : a < c => a % c = a /\ (a + c) % c = a
  OBVIOUS
<1>6. ASSUME NEW h \in Hosts
      PROVE  \E i \in 0 .. HostCount - 1 : After(recordedHost, i) = h
  <2> DEFINE t == h - FirstHost
  <2>1. t \in Nat /\ t < HostCount /\ h = FirstHost + t
    BY HostBounds
  <2> HIDE DEF t
  <2>2. CASE t >= s
    <3>1. t - s \in 0 .. HostCount - 1 /\ t - s \in Nat /\ s + (t - s) = t
      BY <1>2, <2>1, <2>2, HostBounds
    <3>2. After(recordedHost, t - s) = FirstHost + (t % HostCount)
      BY <1>3, <3>1
    <3> QED BY <1>5, <2>1, <3>1, <3>2, HostBounds
  <2>3. CASE t < s
    <3>1. t + HostCount - s \in 0 .. HostCount - 1 /\ t + HostCount - s \in Nat
          /\ s + (t + HostCount - s) = t + HostCount
      BY <1>2, <2>1, <2>3, HostBounds
    <3>2. After(recordedHost, t + HostCount - s) = FirstHost + ((t + HostCount) % HostCount)
      BY <1>3, <3>1
    <3> QED BY <1>5, <2>1, <3>1, <3>2, HostBounds
  <2> QED BY <1>2, <2>1, <2>2, <2>3
<1>7. After(recordedHost, 0) = Start(recordedHost)
  <2>1. s + 0 = s /\ s % HostCount = s
    BY <1>2, <1>5, HostBounds
  <2> QED BY <1>2, <1>3, <2>1
<1> QED BY <1>1, <1>4, <1>6, <1>7

\* A probe ends at a host, at a free one if there is one, at the recorded one if that is free;
\* and an address it does not end at may as well be taken.
LEMMA ProbeEnds ==
    ASSUME NEW taken, NEW recordedHost
    PROVE  /\ Probe(taken, recordedHost) \in Hosts
           /\ ~ (Hosts \subseteq taken) => Probe(taken, recordedHost) \notin taken
           /\ recordedHost \in Hosts \ taken => Probe(taken, recordedHost) = recordedHost
           /\ \A h : h # Probe(taken, recordedHost) =>
                        Probe(taken \union {h}, recordedHost) = Probe(taken, recordedHost)
<1> DEFINE F(t) == FreeTries(t, recordedHost)
<1>1. \A t : F(t) \subseteq 0 .. HostCount - 1 /\ F(t) \in SUBSET Nat
  BY DEF FreeTries
<1>2. \A t : F(t) # {} => Min(F(t)) \in F(t) /\ \A k \in F(t) : Min(F(t)) <= k
  BY <1>1, MinOf
<1>3. \A t, i : i \in F(t) <=> i \in 0 .. HostCount - 1 /\ After(recordedHost, i) \notin t
  BY DEF FreeTries
<1>4. \A t : Probe(t, recordedHost) = IF F(t) = {} THEN Start(recordedHost)
                                     ELSE After(recordedHost, Min(F(t)))
  BY ProbeIs
<1> HIDE DEF F
<1>5. Probe(taken, recordedHost) \in Hosts
  BY <1>2, <1>3, <1>4, TriesGoRound
<1>6. ~ (Hosts \subseteq taken) => F(taken) # {} /\ Probe(taken, recordedHost) \notin taken
  BY <1>2, <1>3, <1>4, TriesGoRound
<1>7. ASSUME recordedHost \in Hosts, recordedHost \notin taken
      PROVE  Probe(taken, recordedHost) = recordedHost
  <2>1. Start(recordedHost) = recordedHost
    BY <1>7 DEF Start
  <2>2. 0 \in F(taken)
    BY <1>3, <1>7, <2>1, TriesGoRound, HostBounds
  <2>3. Min(F(taken)) = 0
    BY <1>1, <1>2, <2>2
  <2> QED BY <1>4, <2>1, <2>2, <2>3, TriesGoRound
<1>8. ASSUME NEW h, h # Probe(taken, recordedHost)
      PROVE  Probe(taken \union {h}, recordedHost) = Probe(taken, recordedHost)
  <2>1. F(taken \union {h}) \subseteq F(taken)
    BY <1>3
  <2>2. CASE F(taken) = {}
    BY <1>4, <2>1, <2>2
  <2>3. CASE F(taken) # {}
    <3>1. Min(F(taken)) \in F(taken \union {h})
      BY <1>2, <1>3, <1>4, <1>8, <2>3
    <3>2. Min(F(taken \union {h})) = Min(F(taken))
      <4>1. Min(F(taken \union {h})) \in F(taken) /\ Min(F(taken \union {h})) <= Min(F(taken))
        BY <1>2, <2>1, <3>1
      <4>2. Min(F(taken)) <= Min(F(taken \union {h}))
        BY <1>2, <2>3, <4>1
      <4>3. Min(F(taken)) \in Nat /\ Min(F(taken \union {h})) \in Nat
        BY <1>1, <1>2, <2>3, <4>1
      <4> QED BY <4>1, <4>2, <4>3
    <3> QED BY <1>4, <2>3, <3>1, <3>2
  <2> QED BY <2>2, <2>3
<1> QED BY <1>5, <1>6, <1>7, <1>8

-----------------------------------------------------------------------------
(***************************************************************************)
(* Where the devices of a set are placed.                                  *)
(***************************************************************************)
\* Outside the set nobody has an address, in it each has one of the subnet's hosts, and as long as
\* there is room each its own.
WellPlaced(h, M) ==
    /\ h \in [Node -> Nat]
    /\ \A n \in Node \ M : h[n] = 0
    /\ \A n \in M : h[n] \in Hosts
    /\ Cardinality(M) <= HostCount => \A m, n \in M : m # n => h[m] # h[n]

\* Fewer devices than hosts leave a host free.
LEMMA RoomLeft ==
    ASSUME NEW M \in SUBSET Node, Cardinality(M) < HostCount, NEW h \in [Node -> Nat],
           \A n \in Node \ M : h[n] = 0
    PROVE  ~ (Hosts \subseteq Range(h))
<1> DEFINE f == [n \in M |-> h[n]]
           R == {h[n] : n \in M}
<1>1. IsFiniteSet(M) /\ Cardinality(M) \in Nat
  BY KeysAssumption, FS_Subset, FS_CardinalityType
<1>2. f \in Surjection(M, R)
  BY DEF Surjection
<1>3. IsFiniteSet(R) /\ Cardinality(R) <= Cardinality(M) /\ Cardinality(R) \in Nat
  <2> HIDE DEF f, R
  <2> QED BY <1>1, <1>2, FS_Surjection, FS_CardinalityType
<1>4. IsFiniteSet(Hosts) /\ Cardinality(Hosts) = HostCount
  BY FS_Interval, HostBounds DEF Hosts, HostCount
<1>5. ~ (Hosts \subseteq R)
  <2> HIDE DEF R
  <2> SUFFICES ASSUME Hosts \subseteq R PROVE FALSE
    OBVIOUS
  <2>1. Cardinality(Hosts) <= Cardinality(R)
    BY <1>3, FS_Subset
  <2> QED BY <1>1, <1>3, <1>4, <2>1, HostBounds
<1>6. \A a \in Hosts : a \in Range(h) => a \in R
  BY HostBounds DEF Range
<1> QED BY <1>5, <1>6

LEMMA AllWellPlaced ==
    ASSUME NEW r, Dated(r)
    PROVE  \A M \in SUBSET Node : WellPlaced(Placement(r)[M], M)
<1> DEFINE C == {M \in SUBSET Node : ~ WellPlaced(Placement(r)[M], M)}
<1> SUFFICES ASSUME C # {} PROVE FALSE
  OBVIOUS
<1>1. PICK M \in C : \A T \in C : T \subseteq M => T = M
  <2> HIDE DEF C
  <2> SUFFICES C \in SUBSET (SUBSET Node)
    BY KeysAssumption, SmallestSet
  <2> QED BY DEF C
<1>2. M \in SUBSET Node /\ ~ WellPlaced(Placement(r)[M], M)
  OBVIOUS
<1>3. IsFiniteSet(M) /\ Cardinality(M) \in Nat
  BY <1>2, KeysAssumption, FS_Subset, FS_CardinalityType
<1>4. M # {}
  BY <1>2, PlacementIs DEF WellPlaced
<1> DEFINE n == LastAdmitted(r, M)
           N == M \ {n}
           h == Placement(r)[N]
<1>5. n \in M /\ n \in Node /\ N \in SUBSET Node /\ N # M
  BY <1>2, <1>4, LastOf
<1>6. WellPlaced(h, N)
  <2> HIDE DEF h
  <2>1. N \notin C
    BY <1>1, <1>5
  <2> QED BY <1>5, <2>1 DEF h
<1>7. Placement(r)[M] = [h EXCEPT ![n] = Probe(Range(h), r.host[n])]
  BY <1>2, <1>4, <1>5, <1>6, PlacementIs DEF Settle, WellPlaced
<1>8. Probe(Range(h), r.host[n]) \in Hosts
  BY ProbeEnds
<1>9. Cardinality(N) = Cardinality(M) - 1
  BY <1>3, <1>5, FS_RemoveElement
<1>10. Cardinality(M) <= HostCount => \A m \in N : h[m] # Probe(Range(h), r.host[n])
  <2> SUFFICES ASSUME Cardinality(M) <= HostCount PROVE Probe(Range(h), r.host[n]) \notin Range(h)
    <3> HIDE DEF h, n
    <3> QED BY <1>2, <1>6 DEF Range, WellPlaced
  <2>1. Cardinality(N) < HostCount
    BY <1>3, <1>9, HostBounds
  <2> HIDE DEF h, N
  <2>2. ~ (Hosts \subseteq Range(h))
    BY <1>5, <1>6, <2>1, RoomLeft DEF WellPlaced
  <2> QED BY <2>2, ProbeEnds
<1>11. Cardinality(M) <= HostCount => Cardinality(N) <= HostCount
  BY <1>3, <1>9, HostBounds
<1> HIDE DEF h, n
<1>12. WellPlaced(Placement(r)[M], M)
  BY <1>2, <1>5, <1>6, <1>7, <1>8, <1>10, <1>11, HostBounds DEF WellPlaced
<1> QED BY <1>2, <1>12

-----------------------------------------------------------------------------
(***************************************************************************)
(* A device joins: q is roster r with device n added or moved.             *)
(***************************************************************************)
SameBut(r, q, n) ==
    \A m \in Node \ {n} : q.since[m] = r.since[m] /\ q.host[m] = r.host[m]

\* Devices other than n are placed as before.
LEMMA OthersArePlacedAlike ==
    ASSUME NEW r, NEW q, Dated(r), Dated(q), NEW n \in Node, SameBut(r, q, n)
    PROVE  \A M \in SUBSET (Node \ {n}) :
              /\ M # {} => LastAdmitted(q, M) = LastAdmitted(r, M)
              /\ Placement(q)[M] = Placement(r)[M]
<1>1. ASSUME NEW M \in SUBSET (Node \ {n}), M # {}
      PROVE  LastAdmitted(q, M) = LastAdmitted(r, M)
  <2>1. \A a, b \in Node \ {n} : AdmittedBefore(r, a, b) <=> AdmittedBefore(q, a, b)
    BY DEF SameBut, AdmittedBefore
  <2>2. LastAdmitted(r, M) \in M /\ \A m \in M \ {LastAdmitted(r, M)} : AdmittedBefore(q, m, LastAdmitted(r, M))
    BY <1>1, <2>1, LastOf
  <2> QED BY <1>1, <2>2, LastIs
<1> DEFINE C == {M \in SUBSET (Node \ {n}) : Placement(q)[M] # Placement(r)[M]}
<1>2. C = {}
  <2> SUFFICES ASSUME C # {} PROVE FALSE
    OBVIOUS
  <2>1. PICK M \in C : \A T \in C : T \subseteq M => T = M
    <3> HIDE DEF C
    <3> SUFFICES C \in SUBSET (SUBSET Node)
      BY KeysAssumption, SmallestSet
    <3> QED BY DEF C
  <2>2. M \in SUBSET (Node \ {n}) /\ M # {}
    BY PlacementIs
  <2> DEFINE l == LastAdmitted(r, M)
  <2>3. l \in M /\ l = LastAdmitted(q, M) /\ q.host[l] = r.host[l]
    BY <1>1, <2>2, LastOf DEF SameBut
  <2> HIDE DEF l
  <2>4. Placement(q)[M \ {l}] = Placement(r)[M \ {l}]
    BY <2>1, <2>2, <2>3
  <2>5. M \ {l} \in SUBSET Node /\ Placement(r)[M \ {l}] \in [Node -> Nat]
    BY <2>2, AllWellPlaced DEF WellPlaced
  <2>6. Placement(q)[M] = Settle(q, l)[Placement(q)[M \ {l}]] /\ Placement(r)[M] = Settle(r, l)[Placement(r)[M \ {l}]]
    BY <2>2, <2>3, PlacementIs DEF l
  <2>7. Placement(q)[M] = Placement(r)[M]
    <3> DEFINE h == Placement(r)[M \ {l}]
    <3>1. h \in [Node -> Nat] /\ Placement(q)[M \ {l}] = h
      BY <2>4, <2>5
    <3>2. Placement(q)[M] = Settle(q, l)[h] /\ Placement(r)[M] = Settle(r, l)[h]
      BY <2>6, <3>1
    <3> HIDE DEF h
    <3>3. Settle(q, l)[h] = [h EXCEPT ![l] = Probe(Range(h), q.host[l])]
      BY <3>1, SettleIs
    <3>4. Settle(r, l)[h] = [h EXCEPT ![l] = Probe(Range(h), r.host[l])]
      BY <3>1, SettleIs
    <3> QED BY <2>3, <3>2, <3>3, <3>4
  <2> QED BY <2>2, <2>7
<1> QED BY <1>1, <1>2

\* A device that is admitted last finds the others where they are.
LEMMA LastComerDisplacesNobody ==
    ASSUME NEW r, NEW q, Dated(r), Dated(q), NEW n \in Node, SameBut(r, q, n),
           NEW M \in SUBSET (Node \ {n}), \A m \in M : r.since[m] < q.since[n]
    PROVE  \A m \in M : Placement(q)[M \union {n}][m] = Placement(r)[M][m]
<1>1. \A m \in M : AdmittedBefore(q, m, n)
  BY DEF SameBut, AdmittedBefore
<1>2. LastAdmitted(q, M \union {n}) = n
  BY <1>1, LastIs
<1>3. (M \union {n}) \ {n} = M
  OBVIOUS
<1>4. Placement(q)[M \union {n}] = Settle(q, n)[Placement(q)[M]]
  BY <1>2, <1>3, PlacementIs
<1>5. Placement(q)[M] = Placement(r)[M] /\ Placement(q)[M] \in [Node -> Nat]
  BY OthersArePlacedAlike, AllWellPlaced DEF WellPlaced
<1> QED BY <1>4, <1>5 DEF Settle

\* A device that records an address none of the others ends at gets it, and moves nobody, whenever
\* it was admitted.
LEMMA PromiseIsKept ==
    ASSUME NEW r, NEW q, Dated(r), Dated(q), NEW n \in Node, SameBut(r, q, n),
           NEW A \in SUBSET (Node \ {n}), q.host[n] \in Hosts \ Range(Placement(r)[A])
    PROVE  Placement(q)[A \union {n}] = [Placement(r)[A] EXCEPT ![n] = q.host[n]]
<1> DEFINE p == q.host[n]
           C == {M \in SUBSET (Node \ {n}) :
                    /\ p \notin Range(Placement(r)[M])
                    /\ Placement(q)[M \union {n}] # [Placement(r)[M] EXCEPT ![n] = p]}
<1> SUFFICES ASSUME C # {} PROVE FALSE
  OBVIOUS
<1>1. PICK M \in C : \A T \in C : T \subseteq M => T = M
  <2> HIDE DEF C
  <2> SUFFICES C \in SUBSET (SUBSET Node)
    BY KeysAssumption, SmallestSet
  <2> QED BY DEF C
<1> HIDE DEF p
<1>2. p \in Hosts /\ p \in Nat /\ p # 0
  BY HostBounds DEF p
<1> DEFINE g == Placement(r)[M]
           l == LastAdmitted(q, M \union {n})
<1>3. /\ M \in SUBSET (Node \ {n}) /\ p \notin Range(g)
      /\ Placement(q)[M \union {n}] # [g EXCEPT ![n] = p]
      /\ g \in [Node -> Nat] /\ g[n] = 0 /\ Placement(q)[M] = g
  BY OthersArePlacedAlike, AllWellPlaced DEF WellPlaced
<1>4. l \in M \union {n} /\ \A m \in (M \union {n}) \ {l} : AdmittedBefore(q, m, l)
  BY <1>3, LastOf
<1> HIDE DEF g, l
<1>5. Placement(q)[M \union {n}] = Settle(q, l)[Placement(q)[(M \union {n}) \ {l}]]
  BY <1>3, PlacementIs DEF l
<1>6. CASE l = n
  <2>1. (M \union {n}) \ {l} = M
    BY <1>3, <1>6
  <2>2. Placement(q)[M \union {n}] = [g EXCEPT ![n] = Probe(Range(g), p)]
    <3>1. Settle(q, n)[g] = [g EXCEPT ![n] = Probe(Range(g), q.host[n])]
      BY <1>3, SettleIs
    <3> QED BY <1>3, <1>5, <1>6, <2>1, <3>1 DEF p
  <2> QED BY <1>2, <1>3, <2>2, ProbeEnds
<1>7. CASE l # n
  <2> DEFINE h == Placement(r)[M \ {l}]
             x == Probe(Range(h), r.host[l])
             k == [h EXCEPT ![n] = p]
  <2>1. l \in M /\ (M \union {n}) \ {l} = (M \ {l}) \union {n} /\ q.host[l] = r.host[l] /\ l \in Node
    BY <1>3, <1>4, <1>7 DEF SameBut
  <2>2. l = LastAdmitted(r, M)
    <3>1. l = LastAdmitted(q, M)
      BY <1>3, <1>4, <2>1, LastIs
    <3> QED BY <1>3, <2>1, <3>1, OthersArePlacedAlike
  <2>3. h \in [Node -> Nat] /\ h[l] = 0 /\ h[n] = 0
    <3>1. M \ {l} \in SUBSET Node /\ l \in Node \ (M \ {l}) /\ n \in Node \ (M \ {l})
      BY <1>3, <2>1
    <3>2. WellPlaced(Placement(r)[M \ {l}], M \ {l})
      BY <3>1, AllWellPlaced
    <3> QED BY <3>1, <3>2 DEF WellPlaced
  <2> HIDE DEF h
  <2>4. g = [h EXCEPT ![l] = x]
    <3>1. g = Settle(r, l)[h]
      BY <1>3, <2>1, <2>2, PlacementIs DEF g, h
    <3> QED BY <2>3, <3>1, SettleIs
  <2> HIDE DEF x
  <2>5. p \notin Range(h) /\ x # p
    <3>1. g[l] = x
      BY <2>1, <2>3, <2>4
    <3>2. x # p
      BY <1>3, <2>1, <3>1 DEF Range
    <3>3. ASSUME NEW m \in Node, h[m] = p
          PROVE  FALSE
      <4>1. m # l
        BY <1>2, <2>3, <3>3
      <4>2. g[m] = p
        BY <2>3, <2>4, <3>3, <4>1
      <4> QED BY <1>3, <4>2 DEF Range
    <3> QED BY <2>3, <3>2, <3>3 DEF Range
  <2>6. Placement(q)[(M \ {l}) \union {n}] = k
    <3>1. M \ {l} \notin C
      BY <1>1, <2>1
    <3> QED BY <1>3, <2>5, <3>1 DEF h
  <2>7. k \in [Node -> Nat]
    BY <1>2, <2>3
  <2>8. Probe(Range(k), r.host[l]) = x
    <3>1. k[n] = p /\ \A m \in Node \ {n} : k[m] = h[m]
      BY <2>3
    <3>2. Range(k) = Range(h) \union {p}
      <4> HIDE DEF k
      <4>1. DOMAIN k = Node /\ DOMAIN h = Node /\ k[l] = h[l] /\ h[l] = h[n]
        BY <1>7, <2>1, <2>3, <2>7, <3>1
      <4> QED BY <2>1, <3>1, <4>1 DEF Range
    <3>3. Probe(Range(h) \union {p}, r.host[l]) = Probe(Range(h), r.host[l])
      <4>1. p # Probe(Range(h), r.host[l])
        BY <2>5 DEF x
      <4>2. \A t, o : p # Probe(t, o) => Probe(t \union {p}, o) = Probe(t, o)
        BY ProbeEnds
      <4> QED BY <4>1, <4>2
    <3> QED BY <3>2, <3>3 DEF x
  <2> HIDE DEF k
  <2>9. Placement(q)[M \union {n}] = [k EXCEPT ![l] = x]
    <3>1. Placement(q)[M \union {n}] = Settle(q, l)[k]
      BY <1>5, <2>1, <2>6
    <3>2. Settle(q, l)[k] = [k EXCEPT ![l] = Probe(Range(k), q.host[l])]
      BY <2>7, SettleIs
    <3> QED BY <2>1, <2>8, <3>1, <3>2
  <2>10. [k EXCEPT ![l] = x] = [g EXCEPT ![n] = p]
    BY <1>7, <2>1, <2>3, <2>4 DEF k
  <2> QED BY <1>3, <2>9, <2>10
<1> QED BY <1>6, <1>7

-----------------------------------------------------------------------------
(***************************************************************************)
(* The addresses of a network over its life.                               *)
(***************************************************************************)
\* No member is admitted later than the last entry.
AdmittedByNow == \A n \in Node : recorded.since[n] <= lastTs

AddressInv == AddressTypeOK /\ AdmittedByNow

LEMMA RosterIsDated ==
    ASSUME NEW r \in Roster
    PROVE  Dated(r)
<1>1. (Host \union {0}) \subseteq Nat /\ (Time \union {0}) \subseteq Nat
  BY NumbersAssumption
<1>2. r.host \in [Node -> Host \union {0}] /\ r.since \in [Node -> Time \union {0}]
  BY DEF Roster
<1> QED BY <1>1, <1>2 DEF Dated

LEMMA LowestFreeIsHost ==
    ASSUME NEW r
    PROVE  /\ LowestFreeHost(r) \in Hosts
           /\ ~ (Hosts \subseteq {r.host[m] : m \in Members(r)}) =>
                 LowestFreeHost(r) \notin {r.host[m] : m \in Members(r)}
<1> DEFINE free == Hosts \ {r.host[m] : m \in Members(r)}
<1>1. free \in SUBSET Nat /\ LastHost \in Hosts
  BY HostBounds
<1>2. free # {} => Min(free) \in free
  BY <1>1, MinOf
<1>3. LowestFreeHost(r) = IF free = {} THEN LastHost ELSE Min(free)
  BY DEF LowestFreeHost
<1> QED BY <1>1, <1>2, <1>3

\* Who is admitted, with what address, and when.
LEMMA AdmitInv ==
    ASSUME AddressInv, NEW n \in Node, NEW host \in Host, NEW nonce \in Nonce, NEW ts \in Time,
           Admit(n, host, nonce, ts)
    PROVE  /\ AddressInv'
           /\ lastTs' = ts /\ ts \in Nat /\ lastTs \in Nat /\ ts >= lastTs
           /\ recorded'.since = [recorded.since EXCEPT ![n] = ts]
           /\ recorded'.host = [recorded.host EXCEPT ![n] = host]
           /\ Members(recorded') = Members(recorded) \union {n}
<1> DEFINE e == [op |-> "Add", signer |-> Originator, node |-> n, role |-> "peer",
                 host |-> host, nonce |-> nonce, ts |-> ts]
<1>1. recorded' = AfterAdd(recorded, e) /\ lastTs' = ts /\ ts >= lastTs
  BY DEF Admit
<1>2. recorded \in Roster /\ lastTs \in Nat /\ ts \in Nat
  BY NumbersAssumption DEF AddressInv, AddressTypeOK
<1>3. recorded' = [recorded EXCEPT !.role[n] = "peer", !.host[n] = host, !.since[n] = ts]
  BY <1>1, <1>2 DEF AfterAdd, SpendsInvite, IsOrig, Roster
<1>4. recorded'.role = [recorded.role EXCEPT ![n] = "peer"]
  BY <1>2, <1>3 DEF Roster
<1>5. recorded'.since = [recorded.since EXCEPT ![n] = ts]
  BY <1>2, <1>3 DEF Roster
<1>6. recorded'.host = [recorded.host EXCEPT ![n] = host]
  BY <1>2, <1>3 DEF Roster
<1>7. recorded' \in Roster
  BY <1>2, <1>3 DEF Roster, Role
<1>8. Members(recorded') = Members(recorded) \union {n}
  BY <1>2, <1>4 DEF Members, IsMember, Roster
<1>9. AdmittedByNow'
  <2>1. \A m \in Node : recorded.since[m] <= lastTs /\ recorded.since[m] \in Nat
    BY <1>2, RosterIsDated DEF AddressInv, AdmittedByNow, Dated
  <2>2. recorded.since \in [Node -> Nat]
    BY <1>2, RosterIsDated DEF Dated
  <2> SUFFICES ASSUME NEW m \in Node PROVE recorded'.since[m] <= lastTs'
    BY DEF AdmittedByNow
  <2> QED BY <1>1, <1>2, <1>5, <2>1, <2>2
<1> QED BY <1>1, <1>2, <1>5, <1>6, <1>7, <1>8, <1>9 DEF AddressInv, AddressTypeOK

LEMMA AddressInvariance == AddressSpec => []AddressInv
<1>1. AddressInit => AddressInv
  BY NumbersAssumption DEF AddressInit, AddressInv, AddressTypeOK, AdmittedByNow, EmptyRoster, Roster, Role
<1>2. AddressInv /\ [AddressNext]_addressVars => AddressInv'
  <2> SUFFICES ASSUME AddressInv, [AddressNext]_addressVars PROVE AddressInv'
    OBVIOUS
  <2>1. ASSUME NEW n \in Node, NEW nonce \in Nonce, NEW ts \in Time, JoinInformed(n, nonce, ts)
        PROVE  AddressInv'
    <3>1. LowestFreeHost(Resolved) \in Host
      BY LowestFreeIsHost, HostRangeAssumption DEF Hosts
    <3> QED BY <2>1, <3>1, AdmitInv DEF JoinInformed
  <2>2. ASSUME NEW n \in Node, NEW host \in Host, NEW nonce \in Nonce, NEW ts \in Time,
               JoinBlindly(n, host, nonce, ts)
        PROVE  AddressInv'
    BY <2>2, AdmitInv DEF JoinBlindly
  <2>3. ASSUME NEW n \in Node, Leave(n)
        PROVE  AddressInv'
    <3>1. recorded \in Roster /\ lastTs' = lastTs /\ lastTs \in Nat
      BY <2>3, NumbersAssumption DEF AddressInv, AddressTypeOK, Leave
    <3>2. recorded' = [recorded EXCEPT !.role[n] = "none", !.host[n] = 0, !.since[n] = 0]
      BY <2>3 DEF Leave, AfterRemove
    <3>3. recorded' \in Roster
      BY <3>1, <3>2 DEF Roster
    <3>4. recorded'.since = [recorded.since EXCEPT ![n] = 0] /\ recorded.since \in [Node -> Nat]
      BY <3>1, <3>2, RosterIsDated DEF Roster, Dated
    <3>5. AdmittedByNow'
      BY <3>1, <3>4 DEF AddressInv, AdmittedByNow
    <3> QED BY <3>1, <3>3, <3>5 DEF AddressInv, AddressTypeOK
  <2>4. CASE UNCHANGED addressVars
    BY <2>4 DEF AddressInv, AddressTypeOK, AdmittedByNow, addressVars
  <2> QED BY <2>1, <2>2, <2>3, <2>4 DEF AddressNext
<1> QED BY <1>1, <1>2, PTL DEF AddressSpec

\* Type correctness of Addresses: an admitter's choice is always one of the octets an Add can hold.
THEOREM AddressTypeCorrect == AddressSpec => []AddressTypeOK
<1>1. AddressInv => AddressTypeOK
  BY DEF AddressInv
<1> QED BY <1>1, AddressInvariance, PTL

LEMMA ResolvedIs ==
    ASSUME NEW r \in Roster
    PROVE  /\ AssignIps(r).host = Placement(r)[Members(r)]
           /\ Members(AssignIps(r)) = Members(r)
BY DEF AssignIps, Roster, Members, IsMember

\* Whatever was recorded for them, by however many approvers at once, no two members are routed at
\* one address and each has a host of the subnet, as long as the subnet has room (assign_ips).
THEOREM AddressesAreDistinct == AddressSpec => []AddressesDistinct
<1>1. ASSUME AddressInv
      PROVE  AddressesDistinct
  <2>1. recorded \in Roster /\ Members(recorded) \in SUBSET Node
    BY <1>1 DEF AddressInv, AddressTypeOK, Members
  <2>2. Resolved.host = Placement(recorded)[Members(recorded)]
    BY <2>1, ResolvedIs DEF Resolved
  <2>3. WellPlaced(Placement(recorded)[Members(recorded)], Members(recorded))
    BY <2>1, RosterIsDated, AllWellPlaced
  <2> QED BY <2>2, <2>3 DEF AddressesDistinct, WellPlaced
<1> QED BY <1>1, AddressInvariance, PTL

\* A newcomer's step is an admission.
LEMMA NewcomerIsAdmitted ==
    ASSUME AddressInv, [AddressNext]_addressVars, NEW n \in Node, Newcomer(n)
    PROVE  \E host \in Host, nonce \in Nonce, ts \in Time : Admit(n, host, nonce, ts)
<1>1. ASSUME NEW m \in Node, NEW host \in Host, NEW nonce \in Nonce, NEW ts \in Time,
             Admit(m, host, nonce, ts)
      PROVE  m = n
  BY <1>1, AdmitInv DEF Newcomer, Members
<1>2. LowestFreeHost(Resolved) \in Host
  BY LowestFreeIsHost, HostRangeAssumption DEF Hosts
<1>3. ASSUME NEW m \in Node, NEW nonce \in Nonce, NEW ts \in Time, JoinInformed(m, nonce, ts)
      PROVE  Admit(n, LowestFreeHost(Resolved), nonce, ts)
  <2>1. Admit(m, LowestFreeHost(Resolved), nonce, ts)
    BY <1>3 DEF JoinInformed
  <2> QED BY <1>1, <1>2, <2>1
<1>4. ASSUME NEW m \in Node, NEW host \in Host, NEW nonce \in Nonce, NEW ts \in Time,
             JoinBlindly(m, host, nonce, ts)
      PROVE  Admit(n, host, nonce, ts)
  BY <1>1, <1>4 DEF JoinBlindly
<1>5. ASSUME NEW m \in Node, Leave(m)
      PROVE  FALSE
  <2>1. recorded \in Roster
    BY DEF AddressInv, AddressTypeOK
  <2>2. recorded'.role = [recorded.role EXCEPT ![m] = "none"]
    BY <1>5, <2>1 DEF Leave, AfterRemove, Roster
  <2> QED BY <2>1, <2>2 DEF Newcomer, IsMember, Roster
<1>6. CASE UNCHANGED addressVars
  BY <1>6 DEF Newcomer, addressVars
<1> QED BY <1>2, <1>3, <1>4, <1>5, <1>6 DEF AddressNext

\* "A later join never displaces an earlier member's IP": a newcomer stamped after all that came
\* before moves nobody, whatever it records; and one that records the lowest address free in the
\* roster gets it and moves nobody, even when its clock ties with a member's (assign_ips,
\* lowest_free_host).
THEOREM LaterJoinsDisplaceNobody == AddressSpec => LaterJoinDisplacesNobody
<1>1. ASSUME AddressInv, [AddressNext]_addressVars, NEW n \in Node, Newcomer(n)
      PROVE  /\ lastTs' > lastTs => OthersStay(n)
             /\ /\ recorded'.host[n] = LowestFreeHost(Resolved)
                /\ Cardinality(Members(recorded')) <= HostCount
                => Resolved'.host[n] = recorded'.host[n] /\ OthersStay(n)
  <2>1. PICK host \in Host, nonce \in Nonce, ts \in Time : Admit(n, host, nonce, ts)
    BY <1>1, NewcomerIsAdmitted
  <2> DEFINE M == Members(recorded)
  <2>2. /\ recorded \in Roster /\ recorded' \in Roster
        /\ M \in SUBSET (Node \ {n}) /\ M \in SUBSET Node
        /\ Members(recorded') = M \union {n}
    BY <1>1, <2>1, AdmitInv DEF AddressInv, AddressTypeOK, Newcomer, Members
  <2>3. Dated(recorded) /\ Dated(recorded')
    BY <2>2, RosterIsDated
  <2>4. /\ recorded'.since = [recorded.since EXCEPT ![n] = ts]
         /\ recorded'.host = [recorded.host EXCEPT ![n] = host]
         /\ lastTs' = ts /\ ts \in Nat /\ lastTs \in Nat
    BY <1>1, <2>1, AdmitInv
  <2>5. SameBut(recorded, recorded', n)
    BY <2>3, <2>4 DEF SameBut, Dated
  <2>6. Resolved.host = Placement(recorded)[M] /\ Members(Resolved) = M
    BY <2>2, ResolvedIs DEF Resolved
  <2>7. Resolved'.host = Placement(recorded')[M \union {n}]
    BY <2>2, ResolvedIs DEF Resolved
  <2> HIDE DEF M
  <2>8. M \ {n} = M /\ Members(recorded) = M
    BY <2>2 DEF M
  <2>9. ASSUME lastTs' > lastTs
        PROVE  OthersStay(n)
    <3>1. lastTs \in Nat /\ recorded'.since[n] = lastTs' /\ lastTs' \in Nat
      BY <2>3, <2>4 DEF Dated
    <3>2. \A m \in M : recorded.since[m] < recorded'.since[n]
      <4> SUFFICES ASSUME NEW m \in M PROVE recorded.since[m] < recorded'.since[n]
        OBVIOUS
      <4>1. m \in Node /\ recorded.since[m] \in Nat /\ recorded.since[m] <= lastTs
        BY <1>1, <2>2, <2>3 DEF AddressInv, AdmittedByNow, Dated
      <4> QED BY <2>9, <3>1, <4>1
    <3>3. \A m \in M : Placement(recorded')[M \union {n}][m] = Placement(recorded)[M][m]
      BY <2>2, <2>3, <2>5, <3>2, LastComerDisplacesNobody
    <3> QED BY <2>6, <2>7, <2>8, <3>3 DEF OthersStay
  <2>10. ASSUME recorded'.host[n] = LowestFreeHost(Resolved),
               Cardinality(Members(recorded')) <= HostCount
        PROVE  Resolved'.host[n] = recorded'.host[n] /\ OthersStay(n)
    <3> DEFINE h == Placement(recorded)[M]
               p == recorded'.host[n]
    <3>1. h \in [Node -> Nat] /\ \A m \in Node \ M : h[m] = 0
      BY <2>2, <2>3, AllWellPlaced DEF WellPlaced
    <3>2. Cardinality(M) < HostCount
      <4>1. IsFiniteSet(M) /\ Cardinality(M) \in Nat /\ n \notin M
        BY <2>2, KeysAssumption, FS_Subset, FS_CardinalityType
      <4>2. Cardinality(M \union {n}) = Cardinality(M) + 1
        BY <4>1, FS_AddElement
      <4> QED BY <2>2, <2>10, <4>1, <4>2, HostBounds
    <3> HIDE DEF h
    <3>3. ~ (Hosts \subseteq Range(h))
      BY <2>2, <3>1, <3>2, RoomLeft
    <3> DEFINE Used == {Resolved.host[m] : m \in Members(Resolved)}
    <3>4. Used = {h[m] : m \in M}
      BY <2>6 DEF h
    <3> HIDE DEF Used
    <3>5. \A a \in Range(h) : a \in Used \/ a = 0
      BY <3>1, <3>4 DEF Range
    <3>6. \A a \in Used : a \in Range(h)
      BY <2>2, <3>1, <3>4 DEF Range
    <3>7. p \in Hosts /\ p \notin Used
      BY <2>10, <3>3, <3>6, LowestFreeIsHost DEF Used
    <3>8. p \in Hosts \ Range(h)
      BY <3>5, <3>7, HostBounds
    <3>9. Placement(recorded')[M \union {n}] = [h EXCEPT ![n] = p]
      BY <2>2, <2>3, <2>5, <3>8, PromiseIsKept DEF h
    <3> HIDE DEF p
    <3>10. Resolved'.host[n] = p /\ \A m \in M : Resolved'.host[m] = h[m]
      BY <2>2, <2>7, <3>1, <3>9
    <3> QED BY <2>6, <2>8, <3>10 DEF OthersStay, h, p
  <2> QED BY <2>9, <2>10
<1>2. AddressInv /\ [AddressNext]_addressVars =>
        [\A n \in Node : Newcomer(n) =>
            /\ lastTs' > lastTs => OthersStay(n)
            /\ /\ recorded'.host[n] = LowestFreeHost(Resolved)
               /\ Cardinality(Members(recorded')) <= HostCount
               => Resolved'.host[n] = recorded'.host[n] /\ OthersStay(n)]_addressVars
  BY <1>1
<1> QED BY <1>2, AddressInvariance, PTL DEF AddressSpec, LaterJoinDisplacesNobody

-----------------------------------------------------------------------------
(***************************************************************************)
(* The whole fold.                                                         *)
(***************************************************************************)
LEMMA KindOfEntry ==
    ASSUME NEW e \in Entry
    PROVE  /\ e.op = "Add" => e \in AddEntry
           /\ e.op = "Remove" => e \in RemoveEntry
           /\ e.op = "SetRole" => e \in SetRoleEntry
           /\ e.op = "SetInvite" => e \in SetInviteEntry
           /\ e.op = "Freeze" => e \in FreezeEntry
           /\ e.op = "SetName" => e \in SetNameEntry
           /\ e.op \in {"Add", "Remove", "SetRole", "SetInvite", "Freeze", "SetName"}
           /\ e.ts \in Time /\ e.ts \in Nat
<1>1. CASE e \in AddEntry
  BY <1>1, NumbersAssumption DEF AddEntry
<1>2. CASE e \in RemoveEntry
  BY <1>2, NumbersAssumption DEF RemoveEntry
<1>3. CASE e \in SetRoleEntry
  BY <1>3, NumbersAssumption DEF SetRoleEntry
<1>4. CASE e \in SetInviteEntry
  BY <1>4, NumbersAssumption DEF SetInviteEntry
<1>5. CASE e \in FreezeEntry
  BY <1>5, NumbersAssumption DEF FreezeEntry
<1>6. CASE e \in SetNameEntry
  BY <1>6, NumbersAssumption DEF SetNameEntry
<1> QED BY <1>1, <1>2, <1>3, <1>4, <1>5, <1>6 DEF Entry

\* An entry leaves a roster a roster, and admits nobody at a time other than its own.
LEMMA ApplyType ==
    ASSUME NEW r \in Roster, NEW e \in Entry
    PROVE  /\ Apply(r, e) \in Roster
           /\ \A n \in Node : Apply(r, e).since[n] \in {r.since[n], 0, e.ts}
<1>1. CASE ~ EntryAllowed(r, e)
  BY <1>1 DEF Apply
<1>2. CASE EntryAllowed(r, e) /\ e.op = "Add"
  <2>1. e \in AddEntry /\ Apply(r, e) = AfterAdd(r, e)
    BY <1>2, KindOfEntry DEF Apply
  <2>2. AfterAdd(r, e) \in Roster
    BY <2>1 DEF AfterAdd, AddEntry, Roster, SpendsInvite
  <2>3. AfterAdd(r, e).since = [r.since EXCEPT ![e.node] = e.ts]
    BY DEF AfterAdd, Roster
  <2> QED BY <2>1, <2>2, <2>3 DEF Roster
<1>3. CASE EntryAllowed(r, e) /\ e.op = "Remove"
  <2>1. e \in RemoveEntry /\ Apply(r, e) = AfterRemove(r, e)
    BY <1>3, KindOfEntry DEF Apply
  <2>2. AfterRemove(r, e) \in Roster
    BY <2>1 DEF AfterRemove, RemoveEntry, Roster
  <2>3. AfterRemove(r, e).since = [r.since EXCEPT ![e.node] = 0]
    BY DEF AfterRemove, Roster
  <2> QED BY <2>1, <2>2, <2>3 DEF Roster
<1>4. CASE EntryAllowed(r, e) /\ e.op = "SetRole"
  <2>1. e \in SetRoleEntry /\ Apply(r, e) = AfterSetRole(r, e)
    BY <1>4, KindOfEntry DEF Apply
  <2>2. AfterSetRole(r, e) \in Roster /\ AfterSetRole(r, e).since = r.since
    BY <2>1 DEF AfterSetRole, SetRoleEntry, Roster
  <2> QED BY <2>1, <2>2
<1>5. CASE EntryAllowed(r, e) /\ e.op = "SetInvite"
  <2>1. e \in SetInviteEntry /\ Apply(r, e) = AfterSetInvite(r, e)
    BY <1>5, KindOfEntry DEF Apply
  <2>2. AfterSetInvite(r, e) \in Roster /\ AfterSetInvite(r, e).since = r.since
    BY <2>1 DEF AfterSetInvite, SetInviteEntry, Roster, Role
  <2> QED BY <2>1, <2>2
<1>6. CASE EntryAllowed(r, e) /\ e.op = "Freeze"
  <2>1. e \in FreezeEntry /\ Apply(r, e) = AfterFreeze(r, e)
    BY <1>6, KindOfEntry DEF Apply
  <2>2. AfterFreeze(r, e) \in Roster /\ AfterFreeze(r, e).since = r.since
    BY <2>1 DEF AfterFreeze, FreezeEntry, Roster
  <2> QED BY <2>1, <2>2
<1>7. CASE EntryAllowed(r, e) /\ e.op = "SetName"
  <2>1. e \in SetNameEntry /\ Apply(r, e) = AfterSetName(r, e)
    BY <1>7, KindOfEntry DEF Apply
  <2>2. AfterSetName(r, e) \in Roster /\ AfterSetName(r, e).since = r.since
    BY <2>1 DEF AfterSetName, SetNameEntry, Roster
  <2> QED BY <2>1, <2>2
<1> QED BY <1>1, <1>2, <1>3, <1>4, <1>5, <1>6, <1>7, KindOfEntry

LEMMA EmptyRosterType == EmptyRoster \in Roster
BY DEF EmptyRoster, Roster, Role

\* Of finitely many entries one is the latest.
LEMMA LatestOf ==
    ASSUME NEW E \in SUBSET Entry, IsFiniteSet(E), NEW S \in SUBSET E, S # {}
    PROVE  /\ Latest(S) \in S
           /\ \A e \in S : e.ts <= Latest(S).ts
<1> DEFINE Bad(T) == T # {} /\ ~ \E e \in T : \A f \in T : f.ts <= e.ts
           C == {T \in SUBSET E : Bad(T)}
<1>1. \A e \in E : e.ts \in Nat
  BY KindOfEntry
<1>2. C = {}
  <2> SUFFICES ASSUME C # {} PROVE FALSE
    OBVIOUS
  <2>1. PICK T \in C : \A R \in C : R \subseteq T => R = T
    <3> HIDE DEF C
    <3> SUFFICES C \in SUBSET (SUBSET E)
      BY SmallestSet
    <3> QED BY DEF C
  <2>2. T \in SUBSET E /\ T # {}
    OBVIOUS
  <2>3. PICK e \in T : TRUE
    BY <2>2
  <2>4. T \ {e} \notin C
    BY <2>1, <2>3
  <2>5. CASE T = {e}
    BY <1>1, <2>2, <2>5
  <2>6. ASSUME NEW g \in T \ {e}, \A f \in T \ {e} : f.ts <= g.ts
        PROVE  FALSE
    <3>1. e.ts \in Nat /\ g.ts \in Nat /\ \A f \in T : f.ts \in Nat
      BY <1>1, <2>2
    <3>2. CASE e.ts <= g.ts
      BY <2>6, <3>2
    <3>3. CASE g.ts < e.ts
      <4>1. \A f \in T : f.ts <= e.ts
        BY <2>6, <3>1, <3>3
      <4> QED BY <4>1
    <3> QED BY <3>1, <3>2, <3>3
  <2> QED BY <2>2, <2>4, <2>5, <2>6
<1>3. \E e \in S : \A f \in S : f.ts <= e.ts
  BY <1>2
<1> QED BY <1>3 DEF Latest

LEMMA FoldIs ==
    ASSUME NEW E \in SUBSET Entry, IsFiniteSet(E)
    PROVE  \A S \in SUBSET E :
              Fold(E)[S] = IF S = {} THEN EmptyRoster
                           ELSE Apply(Fold(E)[S \ {Latest(S)}], Latest(S))
<1> DEFINE last == [S \in SUBSET E |-> Latest(S)]
           step == [S \in SUBSET E |-> [r \in Roster |-> Apply(r, Latest(S))]]
           Body(f, S) == IF S = {} THEN EmptyRoster ELSE Apply(f[S \ {Latest(S)}], Latest(S))
<1>1. \A S \in SUBSET E : S # {} => last[S] \in S
  BY LatestOf
<1>2. PICK f : Solves(f, E, last, EmptyRoster, step)
  <2> HIDE DEF last, step
  <2> QED BY <1>1, SetRecursion
<1>3. f = [S \in SUBSET E |-> f[S]]
  BY <1>2 DEF Solves
<1>4. \A S \in SUBSET E : f[S] = IF S = {} THEN EmptyRoster
                                ELSE [r \in Roster |-> Apply(r, Latest(S))][f[S \ {Latest(S)}]]
  BY <1>2 DEF Solves
<1> DEFINE C == {S \in SUBSET E : f[S] \notin Roster}
<1>5. C = {}
  <2> SUFFICES ASSUME C # {} PROVE FALSE
    OBVIOUS
  <2>1. PICK S \in C : \A R \in C : R \subseteq S => R = S
    <3> HIDE DEF C
    <3> SUFFICES C \in SUBSET (SUBSET E)
      BY SmallestSet
    <3> QED BY DEF C
  <2>2. S \in SUBSET E /\ S # {} /\ f[S] \notin Roster
    BY <1>4, EmptyRosterType
  <2>3. Latest(S) \in S /\ Latest(S) \in Entry
    BY <2>2, LatestOf
  <2>4. f[S \ {Latest(S)}] \in Roster
    BY <2>1, <2>2, <2>3
  <2>5. f[S] = Apply(f[S \ {Latest(S)}], Latest(S))
    BY <1>4, <2>2, <2>4
  <2> QED BY <2>2, <2>3, <2>4, <2>5, ApplyType
<1>6. \A S \in SUBSET E : f[S] = Body(f, S)
  <2> SUFFICES ASSUME NEW S \in SUBSET E, S # {} PROVE f[S] = Body(f, S)
    BY <1>4
  <2>1. S \ {Latest(S)} \in SUBSET E /\ f[S \ {Latest(S)}] \in Roster
    BY <1>5
  <2> QED BY <1>4, <2>1
<1>7. f = [S \in SUBSET E |-> Body(f, S)]
  <2> HIDE DEF Body
  <2> QED BY <1>3, <1>6
<1>8. Fold(E) = CHOOSE g : g = [S \in SUBSET E |-> Body(g, S)]
  BY DEF Fold
<1>9. Fold(E) = [S \in SUBSET E |-> Body(Fold(E), S)]
  <2> HIDE DEF Body
  <2> QED BY <1>7, <1>8
<1> QED BY <1>9

\* The fold of any of the entries is a roster, whose members were admitted by some of them.
FoldedFrom(r, S) ==
    r \in Roster /\ \A n \in Node : r.since[n] = 0 \/ \E e \in S : r.since[n] = e.ts

LEMMA FoldType ==
    ASSUME NEW E \in SUBSET Entry, IsFiniteSet(E)
    PROVE  \A S \in SUBSET E : FoldedFrom(Fold(E)[S], S)
<1> DEFINE C == {S \in SUBSET E : ~ FoldedFrom(Fold(E)[S], S)}
<1> SUFFICES ASSUME C # {} PROVE FALSE
  OBVIOUS
<1>1. PICK S \in C : \A R \in C : R \subseteq S => R = S
  <2> HIDE DEF C
  <2> SUFFICES C \in SUBSET (SUBSET E)
    BY SmallestSet
  <2> QED BY DEF C
<1>2. S \in SUBSET E /\ ~ FoldedFrom(Fold(E)[S], S)
  OBVIOUS
<1>3. S # {}
  <2>1. S = {} => Fold(E)[S] = EmptyRoster
    BY <1>2, FoldIs
  <2>2. \A n \in Node : EmptyRoster.since[n] = 0
    BY DEF EmptyRoster
  <2> QED BY <1>2, <2>1, <2>2, EmptyRosterType DEF FoldedFrom
<1> DEFINE e == Latest(S)
           r == Fold(E)[S \ {e}]
<1>4. e \in S /\ e \in Entry /\ S \ {e} \in SUBSET E
  BY <1>2, <1>3, LatestOf
<1>5. FoldedFrom(r, S \ {e})
  <2>1. S \ {e} \notin C
    BY <1>1, <1>4
  <2> QED BY <1>4, <2>1
<1>6. Fold(E)[S] = Apply(r, e)
  BY <1>2, <1>3, FoldIs
<1> HIDE DEF r, e
<1>7. Apply(r, e) \in Roster /\ \A n \in Node : Apply(r, e).since[n] \in {r.since[n], 0, e.ts}
  BY <1>4, <1>5, ApplyType DEF FoldedFrom
<1> QED BY <1>2, <1>4, <1>5, <1>6, <1>7 DEF FoldedFrom

\* Resolving the addresses leaves a roster a roster, with the same members, roles and invites.
LEMMA AssignIpsType ==
    ASSUME NEW r \in Roster
    PROVE  AssignIps(r) \in Roster
<1>1. WellPlaced(Placement(r)[Members(r)], Members(r))
  BY RosterIsDated, AllWellPlaced DEF Members
<1>2. Placement(r)[Members(r)] \in [Node -> Host \union {0}]
  <2> DEFINE h == Placement(r)[Members(r)]
  <2>1. h \in [Node -> Nat] /\ \A n \in Node : h[n] = 0 \/ h[n] \in Hosts
    BY <1>1 DEF WellPlaced
  <2>2. Hosts \subseteq Host
    BY HostRangeAssumption DEF Hosts
  <2> HIDE DEF h
  <2>3. h \in [Node -> Host \union {0}]
    BY <2>1, <2>2
  <2> QED BY <2>3 DEF h
<1>3. AssignIps(r) = [r EXCEPT !.host = Placement(r)[Members(r)]]
  BY DEF AssignIps
<1> QED BY <1>2, <1>3 DEF Roster

LEMMA BuildType ==
    ASSUME NEW E \in SUBSET Entry, IsFiniteSet(E)
    PROVE  FoldedFrom(Build(E), E)
<1>1. FoldedFrom(Fold(E)[E], E)
  BY FoldType
<1>2. AssignIps(Fold(E)[E]) \in Roster
  BY <1>1, AssignIpsType DEF FoldedFrom
<1>3. AssignIps(Fold(E)[E]).since = Fold(E)[E].since
  BY <1>1 DEF AssignIps, FoldedFrom, Roster
<1> QED BY <1>1, <1>2, <1>3 DEF Build, FoldedFrom

\* What Roster::build makes of any finite set of entries, signed by whomever, is a roster in which
\* each member has a host of the subnet, and a host of its own as long as the subnet has room.
THEOREM BuildPlacesApart ==
    ASSUME NEW E \in SUBSET Entry, IsFiniteSet(E)
    PROVE  /\ Build(E) \in Roster
           /\ \A n \in Members(Build(E)) : Build(E).host[n] \in Hosts
           /\ Cardinality(Members(Build(E))) <= HostCount =>
                 \A m, n \in Members(Build(E)) : m # n => Build(E).host[m] # Build(E).host[n]
<1> DEFINE r == Fold(E)[E]
<1>1. r \in Roster /\ Build(E) \in Roster
  BY FoldType, BuildType DEF FoldedFrom
<1>2. Build(E) = AssignIps(r)
  BY DEF Build
<1> HIDE DEF r
<1>3. Build(E).host = Placement(r)[Members(r)] /\ Members(Build(E)) = Members(r)
  BY <1>1, <1>2, ResolvedIs
<1>4. WellPlaced(Placement(r)[Members(r)], Members(r))
  BY <1>1, RosterIsDated, AllWellPlaced DEF Members
<1> QED BY <1>1, <1>3, <1>4 DEF WellPlaced

\* An entry later than the others is applied last.
LEMMA FoldLast ==
    ASSUME NEW E \in SUBSET Entry, IsFiniteSet(E), NEW T \in SUBSET E, NEW e \in E,
           \A f \in T : f.ts < e.ts
    PROVE  Fold(E)[T \union {e}] = Apply(Fold(E)[T], e)
<1> DEFINE S == T \union {e}
<1>1. S \in SUBSET E /\ S # {} /\ e \in S
  OBVIOUS
<1>2. Latest(S) \in S /\ e.ts <= Latest(S).ts
  BY <1>1, LatestOf
<1>3. \A f \in E : f.ts \in Nat
  BY KindOfEntry
<1>4. Latest(S) = e
  <2> SUFFICES ASSUME Latest(S) \in T PROVE FALSE
    BY <1>2
  <2>1. Latest(S).ts < e.ts /\ Latest(S).ts \in Nat /\ e.ts \in Nat
    BY <1>3
  <2> QED BY <1>2, <2>1
<1>5. e \notin T
  BY <1>3
<1>6. S \ {e} = T
  BY <1>5
<1> HIDE DEF S
<1>7. Fold(E)[S] = Apply(Fold(E)[S \ {Latest(S)}], Latest(S))
  BY <1>1, FoldIs
<1>8. Fold(E)[S] = Apply(Fold(E)[T], e)
  BY <1>4, <1>6, <1>7
<1> QED BY <1>8 DEF S

\* What some of the entries fold to does not depend on the others.
LEMMA FoldIsLocal ==
    ASSUME NEW E \in SUBSET Entry, IsFiniteSet(E), NEW S \in SUBSET E
    PROVE  Fold(E)[S] = Fold(S)[S]
<1> DEFINE C == {T \in SUBSET S : Fold(E)[T] # Fold(S)[T]}
<1> SUFFICES ASSUME C # {} PROVE FALSE
  OBVIOUS
<1>1. IsFiniteSet(S) /\ S \in SUBSET Entry
  BY FS_Subset
<1>2. PICK T \in C : \A R \in C : R \subseteq T => R = T
  <2> HIDE DEF C
  <2> SUFFICES C \in SUBSET (SUBSET S)
    BY <1>1, SmallestSet
  <2> QED BY DEF C
<1>3. T \in SUBSET S /\ T \in SUBSET E /\ Fold(E)[T] # Fold(S)[T]
  OBVIOUS
<1>4. T # {}
  BY <1>1, <1>3, FoldIs
<1>5. Latest(T) \in T
  BY <1>1, <1>3, <1>4, LatestOf
<1>6. T \ {Latest(T)} \in SUBSET S /\ T \ {Latest(T)} \notin C
  BY <1>2, <1>3, <1>5
<1>7. Fold(E)[T \ {Latest(T)}] = Fold(S)[T \ {Latest(T)}]
  BY <1>6
<1>8. /\ Fold(E)[T] = Apply(Fold(E)[T \ {Latest(T)}], Latest(T))
      /\ Fold(S)[T] = Apply(Fold(S)[T \ {Latest(T)}], Latest(T))
  BY <1>1, <1>3, <1>4, FoldIs
<1> QED BY <1>3, <1>7, <1>8

\* Resolving the addresses admits and removes nobody.
LEMMA BuildMembers ==
    ASSUME NEW E \in SUBSET Entry, IsFiniteSet(E), NEW d \in Node
    PROVE  IsMember(Build(E), d) <=> IsMember(Fold(E)[E], d)
<1>1. Fold(E)[E] \in Roster
  BY FoldType DEF FoldedFrom
<1> QED BY <1>1 DEF Build, AssignIps, IsMember, Roster

LEMMA NobodyAtFirst ==
    ASSUME NEW d \in Node
    PROVE  ~IsMember(Build({}), d)
<1>1. {} \in SUBSET Entry /\ IsFiniteSet({})
  BY FS_EmptySet
<1>2. Fold({})[{}] = EmptyRoster
  BY <1>1, FoldIs
<1> QED BY <1>1, <1>2, BuildMembers DEF EmptyRoster, IsMember

\* Only a removal of it takes a member out of the roster.
LEMMA OnlyRemovalRemoves ==
    ASSUME NEW r \in Roster, NEW e \in Entry, NEW d \in Node, IsMember(r, d),
           ~(e.op = "Remove" /\ e.node = d)
    PROVE  IsMember(Apply(r, e), d)
<1>1. CASE ~EntryAllowed(r, e)
  BY <1>1 DEF Apply
<1>2. CASE EntryAllowed(r, e) /\ e.op = "Add"
  <2>1. e \in AddEntry
    BY <1>2, KindOfEntry
  <2>2. Apply(r, e) = AfterAdd(r, e)
    BY <1>2 DEF Apply
  <2> QED BY <2>1, <2>2 DEF AfterAdd, IsMember, Roster, AddEntry, Role
<1>3. CASE EntryAllowed(r, e) /\ e.op = "Remove"
  <2>1. Apply(r, e) = AfterRemove(r, e)
    BY <1>3 DEF Apply
  <2> QED BY <1>3, <2>1 DEF AfterRemove, IsMember, Roster
<1>4. CASE EntryAllowed(r, e) /\ e.op = "SetRole"
  <2>1. e \in SetRoleEntry
    BY <1>4, KindOfEntry
  <2>2. Apply(r, e) = AfterSetRole(r, e)
    BY <1>4 DEF Apply
  <2> QED BY <2>1, <2>2 DEF AfterSetRole, IsMember, Roster, SetRoleEntry, Role
<1>5. CASE EntryAllowed(r, e) /\ e.op \in {"SetInvite", "Freeze", "SetName"}
  <2>1. Apply(r, e) \in {AfterSetInvite(r, e), AfterFreeze(r, e), AfterSetName(r, e)}
    BY <1>5 DEF Apply
  <2>2. Apply(r, e).role = r.role
    BY <2>1 DEF AfterSetInvite, AfterFreeze, AfterSetName, Roster
  <2> QED BY <2>2 DEF IsMember
<1> QED BY <1>1, <1>2, <1>3, <1>4, <1>5, KindOfEntry

\* Who is a member by some of the entries is one by all, if the others are later and none of them
\* removes it.
LEMMA MemberStays ==
    ASSUME NEW E \in SUBSET Entry, IsFiniteSet(E), NEW S \in SUBSET E, NEW d \in Node,
           IsMember(Build(S), d),
           \A e \in E \ S : /\ ~(e.op = "Remove" /\ e.node = d)
                            /\ \A f \in S : ~(e.ts <= f.ts)
    PROVE  IsMember(Build(E), d)
<1> DEFINE C == {T \in SUBSET E : S \subseteq T /\ ~IsMember(Fold(E)[T], d)}
<1>1. IsMember(Fold(E)[S], d)
  <2>1. IsFiniteSet(S) /\ S \in SUBSET Entry
    BY FS_Subset
  <2> QED BY <2>1, BuildMembers, FoldIsLocal
<1>2. C = {}
  <2> SUFFICES ASSUME C # {} PROVE FALSE
    OBVIOUS
  <2>1. PICK T \in C : \A R \in C : R \subseteq T => R = T
    <3> HIDE DEF C
    <3> SUFFICES C \in SUBSET (SUBSET E)
      BY SmallestSet
    <3> QED BY DEF C
  <2>2. T \in SUBSET E /\ S \subseteq T /\ ~IsMember(Fold(E)[T], d) /\ T # S
    BY <1>1
  <2>3. PICK g \in T : g \notin S
    BY <2>2
  <2> DEFINE e == Latest(T)
  <2>4. e \in T /\ g.ts <= e.ts /\ T # {}
    BY <2>2, <2>3, LatestOf
  <2>5. e \notin S
    BY <2>2, <2>3, <2>4
  <2>6. T \ {e} \notin C /\ T \ {e} \in SUBSET E /\ S \subseteq T \ {e}
    BY <2>1, <2>2, <2>4, <2>5
  <2>7. IsMember(Fold(E)[T \ {e}], d)
    BY <2>6
  <2>8. Fold(E)[T] = Apply(Fold(E)[T \ {e}], e)
    BY <2>2, <2>4, FoldIs
  <2>9. Fold(E)[T \ {e}] \in Roster
    BY <2>6, FoldType DEF FoldedFrom
  <2>10. e \in Entry /\ ~(e.op = "Remove" /\ e.node = d)
    BY <2>2, <2>4, <2>5
  <2> HIDE DEF e
  <2> QED BY <2>2, <2>7, <2>8, <2>9, <2>10, OnlyRemovalRemoves
<1>3. IsMember(Fold(E)[E], d)
  BY <1>2
<1> QED BY <1>3, BuildMembers

-----------------------------------------------------------------------------
(***************************************************************************)
(* The founding of a network.                                              *)
(***************************************************************************)
LEMMA Players ==
    /\ Master \in Node /\ Master # Originator
    /\ Len(Deputies) \in Nat /\ DOMAIN Deputies = 1 .. Len(Deputies)
    /\ \A i \in 1 .. Len(Deputies) : Deputies[i] \in Node /\ Deputies[i] # Master
BY PlayersAssumption, OriginatorAssumption

\* Stamps of the founding entries grow.
LEMMA MasterStamps ==
    /\ \A i \in Nat : Stamp(Master, i) \in Nat
    /\ \A i, j \in Nat : i < j => Stamp(Master, i) < Stamp(Master, j)
<1>1. Skew[Master] \in Nat
  BY SkewAssumption, Players
<1> QED BY <1>1 DEF Stamp

LEMMA FoundingType ==
    /\ Founding \subseteq Entry /\ IsFiniteSet(Founding)
    /\ Cardinality(Founding) <= MaxEntries
<1> DEFINE L == Len(Deputies)
           A == {Genesis, FirstInvite}
           B == {ShownTicket(i) : i \in 1 .. L + 1}
           C == {Appointment(i) : i \in 1 .. L}
<1>1. L \in Nat /\ 2 * L + 3 <= MaxEntries /\ MaxEntries \in Nat
  BY Players, FoundingAssumption
<1>2. \A i \in 1 .. MaxEntries : Stamp(Master, i) \in Time /\ Stamp(Master, i) \in Nonce
  BY Players, StampAssumption
<1> HIDE DEF L
<1>3. FirstHost \in Host /\ ZeroNonce \in Nonce
  BY HostRangeAssumption, StampAssumption
<1>4. Genesis \in Entry
  <2>1. 1 \in 1 .. MaxEntries
    BY <1>1
  <2> QED BY <1>2, <1>3, <2>1, Players DEF Genesis, AddOf, Entry, AddEntry, Signer, Role
<1>5. FirstInvite \in Entry
  <2>1. 2 \in 1 .. MaxEntries
    BY <1>1
  <2> QED BY <1>2, <2>1 DEF FirstInvite, InviteOf, Entry, SetInviteEntry, Signer, Role
<1>6. ASSUME NEW i \in 1 .. L + 1
      PROVE  ShownTicket(i) \in Entry
  <2>1. 2 * i + 1 \in 1 .. MaxEntries
    BY <1>1
  <2> QED BY <1>2, <2>1 DEF ShownTicket, InviteOf, Entry, SetInviteEntry, Signer, Role
<1>7. ASSUME NEW i \in 1 .. L
      PROVE  Appointment(i) \in Entry
  <2>1. 2 * i + 1 \in 1 .. MaxEntries /\ 2 * i + 2 \in 1 .. MaxEntries
    BY <1>1
  <2>2. FirstHost + i \in Host /\ Deputies[i] \in Node
    BY Players, FoundingAssumption DEF L
  <2> QED BY <1>2, <2>1, <2>2, Players DEF Appointment, AddOf, Entry, AddEntry, Signer, Role
<1>8. Founding = A \union B \union C
  BY Players DEF Founding, L
<1>9. IsFiniteSet(A) /\ Cardinality(A) <= 2 /\ Cardinality(A) \in Nat
  <2>1. IsFiniteSet({Genesis}) /\ Cardinality({Genesis}) = 1
    BY FS_Singleton
  <2>2. A = {Genesis} \union {FirstInvite}
    OBVIOUS
  <2>3. IsFiniteSet(A) /\ (Cardinality(A) = 1 \/ Cardinality(A) = 2)
    <3> HIDE DEF A
    <3> QED BY <2>1, <2>2, FS_AddElement
  <2> QED BY <2>3
<1>10. IsFiniteSet(B) /\ Cardinality(B) <= L + 1 /\ Cardinality(B) \in Nat
  <2> DEFINE f == [i \in 1 .. L + 1 |-> ShownTicket(i)]
  <2>1. f \in Surjection(1 .. L + 1, B)
    BY DEF Surjection
  <2>2. IsFiniteSet(1 .. L + 1) /\ Cardinality(1 .. L + 1) = L + 1
    BY <1>1, FS_Interval
  <2> HIDE DEF f, B
  <2> QED BY <2>1, <2>2, FS_Surjection, FS_CardinalityType
<1>11. IsFiniteSet(C) /\ Cardinality(C) <= L /\ Cardinality(C) \in Nat
  <2> DEFINE f == [i \in 1 .. L |-> Appointment(i)]
  <2>1. f \in Surjection(1 .. L, C)
    BY DEF Surjection
  <2>2. IsFiniteSet(1 .. L) /\ Cardinality(1 .. L) = L
    BY <1>1, FS_Interval
  <2> HIDE DEF f, C
  <2> QED BY <2>1, <2>2, FS_Surjection, FS_CardinalityType
<1>12. A \union B \union C \subseteq Entry
  BY <1>4, <1>5, <1>6, <1>7
<1> HIDE DEF A, B, C
<1>13. IsFiniteSet(A \union B) /\ Cardinality(A \union B) <= L + 3 /\ Cardinality(A \union B) \in Nat
  <2>1. IsFiniteSet(A \union B) /\ IsFiniteSet(A \intersect B)
    BY <1>9, <1>10, FS_Union, FS_Intersection
  <2>2. Cardinality(A \union B) = Cardinality(A) + Cardinality(B) - Cardinality(A \intersect B)
    BY <1>9, <1>10, FS_Union
  <2>3. Cardinality(A \union B) \in Nat /\ Cardinality(A \intersect B) \in Nat
    BY <2>1, FS_CardinalityType
  <2> QED BY <1>1, <1>9, <1>10, <2>1, <2>2, <2>3
<1>14. IsFiniteSet(A \union B \union C) /\ Cardinality(A \union B \union C) <= 2 * L + 3
  <2> DEFINE D == A \union B
  <2> HIDE DEF D
  <2>1. IsFiniteSet(D \union C) /\ IsFiniteSet(D \intersect C)
    BY <1>11, <1>13, FS_Union, FS_Intersection DEF D
  <2>2. Cardinality(D \union C) = Cardinality(D) + Cardinality(C) - Cardinality(D \intersect C)
    BY <1>11, <1>13, FS_Union DEF D
  <2>3. Cardinality(D \union C) \in Nat /\ Cardinality(D \intersect C) \in Nat
    BY <2>1, FS_CardinalityType
  <2>4. Cardinality(D) <= L + 3 /\ Cardinality(D) \in Nat
    BY <1>13 DEF D
  <2>5. IsFiniteSet(D \union C) /\ Cardinality(D \union C) <= 2 * L + 3
    BY <1>1, <1>11, <2>1, <2>2, <2>3, <2>4
  <2> QED BY <2>5 DEF D
<1>15. Cardinality(A \union B \union C) \in Nat
  BY <1>14, FS_CardinalityType
<1> QED BY <1>1, <1>8, <1>12, <1>14, <1>15

\* What is so once the first m deputies are admitted: the master is the Controller it was made
\* first, they are members, and no invite but theirs is spent.
FoundedUpTo(m) ==
    {Genesis, FirstInvite} \union {ShownTicket(i) : i \in 1 .. m} \union {Appointment(i) : i \in 1 .. m}

Founded(r, m) ==
    /\ r \in Roster
    /\ ~ r.frozen
    /\ r.role[Master] = "controller"
    /\ r.since[Master] = Stamp(Master, 1)
    /\ \A i \in 1 .. m : IsMember(r, Deputies[i])
    /\ \A x \in r.consumed : \E i \in 1 .. m : x = Stamp(Master, 2 * i + 1)

LEMMA FoundingStart == Founded(Fold(Founding)[FoundedUpTo(0)], 0)
<1> DEFINE r1 == Apply(EmptyRoster, Genesis)
           r2 == Apply(r1, FirstInvite)
<1>1. Founding \in SUBSET Entry /\ IsFiniteSet(Founding)
  BY FoundingType
<1>2. Genesis \in Founding /\ FirstInvite \in Founding /\ Genesis \in Entry /\ FirstInvite \in Entry
  BY <1>1 DEF Founding
<1>3. Fold(Founding)[{}] = EmptyRoster
  BY <1>1, FoldIs
<1>4. Fold(Founding)[{} \union {Genesis}] = r1
  <2>1. {} \in SUBSET Founding /\ \A f \in {} : f.ts < Genesis.ts
    OBVIOUS
  <2> QED BY <1>1, <1>2, <1>3, <2>1, FoldLast
<1>5. Fold(Founding)[{Genesis} \union {FirstInvite}] = r2
  <2>1. Genesis.ts = Stamp(Master, 1) /\ FirstInvite.ts = Stamp(Master, 2)
    BY DEF Genesis, FirstInvite, AddOf, InviteOf
  <2>2. Genesis.ts < FirstInvite.ts
    BY <2>1, MasterStamps
  <2>3. {Genesis} \in SUBSET Founding /\ {} \union {Genesis} = {Genesis}
    BY <1>2
  <2>4. Fold(Founding)[{Genesis}] = r1
    BY <1>4, <2>3
  <2> HIDE DEF r1
  <2> QED BY <1>1, <1>2, <2>2, <2>3, <2>4, FoldLast
<1>6. FoundedUpTo(0) = {Genesis} \union {FirstInvite}
  <2>1. 1 .. 0 = {}
    OBVIOUS
  <2> QED BY <2>1 DEF FoundedUpTo
<1>7. r1 = AfterAdd(EmptyRoster, Genesis) /\ r1 \in Roster
  <2>1. IsOrig(Genesis) /\ Genesis.op = "Add"
    BY DEF IsOrig, Genesis, AddOf
  <2>2. EntryAllowed(EmptyRoster, Genesis)
    BY <2>1 DEF EntryAllowed, AddAllowed, EmptyRoster
  <2>3. r1 = AfterAdd(EmptyRoster, Genesis)
    BY <2>1, <2>2 DEF Apply
  <2> QED BY <1>2, <2>3, EmptyRosterType, ApplyType
<1>8. /\ ~ r1.frozen /\ r1.role[Master] = "controller" /\ r1.since[Master] = Stamp(Master, 1)
      /\ r1.consumed = {}
  <2>1. /\ Genesis.signer = Originator /\ Genesis.node = Master /\ Genesis.role = "controller"
        /\ Genesis.ts = Stamp(Master, 1)
    BY DEF Genesis, AddOf
  <2> HIDE DEF r1
  <2> QED BY <1>7, <2>1, Players DEF AfterAdd, EmptyRoster, SpendsInvite, IsOrig
<1> HIDE DEF r1
<1>9. r2 = AfterSetInvite(r1, FirstInvite) /\ r2 \in Roster
  <2>1. IsOrig(FirstInvite) /\ FirstInvite.op = "SetInvite"
    BY DEF IsOrig, FirstInvite, InviteOf
  <2>2. EntryAllowed(r1, FirstInvite)
    BY <2>1 DEF EntryAllowed, SetInviteAllowed
  <2>3. r2 = AfterSetInvite(r1, FirstInvite)
    BY <2>1, <2>2 DEF Apply
  <2> QED BY <1>2, <1>7, <2>3, ApplyType
<1>10. /\ r2.frozen = r1.frozen /\ r2.role = r1.role /\ r2.since = r1.since /\ r2.consumed = r1.consumed
  <2> HIDE DEF r2
  <2> QED BY <1>7, <1>9 DEF AfterSetInvite, Roster
<1> HIDE DEF r2
<1>11. Founded(r2, 0)
  BY <1>8, <1>9, <1>10 DEF Founded
<1> QED BY <1>5, <1>6, <1>11

LEMMA FoundingStep ==
    ASSUME NEW m \in Nat, m < Len(Deputies), Founded(Fold(Founding)[FoundedUpTo(m)], m)
    PROVE  Founded(Fold(Founding)[FoundedUpTo(m + 1)], m + 1)
<1> DEFINE T == FoundedUpTo(m)
           inv == ShownTicket(m + 1)
           add == Appointment(m + 1)
           r == Fold(Founding)[T]
           r1 == Apply(r, inv)
           r2 == Apply(r1, add)
           n == Deputies[m + 1]
<1>1. Founding \in SUBSET Entry /\ IsFiniteSet(Founding)
  BY FoundingType
<1>2. /\ m + 1 \in 1 .. Len(Deputies) /\ m + 1 \in 1 .. Len(Deputies) + 1
      /\ n \in Node /\ n # Master
  BY Players
<1>3. T \in SUBSET Founding /\ inv \in Founding /\ add \in Founding
  <2>1. \A i \in 1 .. m : i \in 1 .. Len(Deputies) /\ i \in 1 .. Len(Deputies) + 1
    BY Players
  <2> QED BY <1>2, <2>1, Players DEF Founding, FoundedUpTo
<1>4. inv.ts = Stamp(Master, 2 * m + 3) /\ add.ts = Stamp(Master, 2 * m + 4)
  <2>1. 2 * (m + 1) + 1 = 2 * m + 3 /\ 2 * (m + 1) + 2 = 2 * m + 4
    OBVIOUS
  <2> QED BY <2>1 DEF ShownTicket, Appointment, InviteOf, AddOf
<1>5. \A f \in T : f.ts < inv.ts
  <2>1. Genesis.ts = Stamp(Master, 1) /\ FirstInvite.ts = Stamp(Master, 2)
    BY DEF Genesis, FirstInvite, AddOf, InviteOf
  <2>2. 1 < 2 * m + 3 /\ 2 < 2 * m + 3 /\ 2 * m + 3 \in Nat
    OBVIOUS
  <2>3. Genesis.ts < inv.ts /\ FirstInvite.ts < inv.ts
    BY <1>4, <2>1, <2>2, MasterStamps
  <2>4. ASSUME NEW i \in 1 .. m
        PROVE  ShownTicket(i).ts < inv.ts /\ Appointment(i).ts < inv.ts
    <3>1. ShownTicket(i).ts = Stamp(Master, 2 * i + 1) /\ Appointment(i).ts = Stamp(Master, 2 * i + 2)
      BY DEF ShownTicket, Appointment, InviteOf, AddOf
    <3>2. /\ 2 * i + 1 \in Nat /\ 2 * i + 2 \in Nat /\ 2 * m + 3 \in Nat
          /\ 2 * i + 1 < 2 * m + 3 /\ 2 * i + 2 < 2 * m + 3
      OBVIOUS
    <3> QED BY <1>4, <3>1, <3>2, MasterStamps
  <2> QED BY <2>3, <2>4 DEF FoundedUpTo
<1>6. inv.ts < add.ts /\ inv.ts \in Nat /\ add.ts \in Nat
  <2>1. 2 * m + 3 \in Nat /\ 2 * m + 4 \in Nat /\ 2 * m + 3 < 2 * m + 4
    OBVIOUS
  <2> QED BY <1>4, <2>1, MasterStamps
<1>7. \A f \in T \union {inv} : f.ts < add.ts
  <2>1. \A f \in T : f.ts \in Nat
    BY <1>1, <1>3, KindOfEntry
  <2> HIDE DEF T, inv, add
  <2> QED BY <1>5, <1>6, <2>1
<1>8. FoundedUpTo(m + 1) = (T \union {inv}) \union {add}
  <2>1. 1 .. m + 1 = (1 .. m) \union {m + 1}
    OBVIOUS
  <2> QED BY <2>1 DEF FoundedUpTo
<1> HIDE DEF T
<1>9. Fold(Founding)[FoundedUpTo(m + 1)] = r2
  <2> HIDE DEF inv, add
  <2>1. Fold(Founding)[T \union {inv}] = r1
    BY <1>1, <1>3, <1>5, FoldLast
  <2>2. T \union {inv} \in SUBSET Founding
    BY <1>3
  <2>3. Fold(Founding)[(T \union {inv}) \union {add}] = Apply(Fold(Founding)[T \union {inv}], add)
    BY <1>1, <1>3, <1>7, <2>2, FoldLast
  <2> QED BY <1>8, <2>1, <2>3
<1>10. Founded(r, m)
  BY DEF T
<1>11. inv \in Entry /\ add \in Entry
  BY <1>1, <1>3
<1> HIDE DEF r
<1>12. r1 = AfterSetInvite(r, inv) /\ r1 \in Roster
  <2>1. IsOrig(inv) /\ inv.op = "SetInvite"
    BY DEF IsOrig, ShownTicket, InviteOf
  <2>2. EntryAllowed(r, inv)
    BY <2>1 DEF EntryAllowed, SetInviteAllowed
  <2>3. r1 = AfterSetInvite(r, inv)
    BY <2>1, <2>2 DEF Apply
  <2> QED BY <1>10, <1>11, <2>3, ApplyType DEF Founded
<1>13. /\ r1.frozen = r.frozen /\ r1.role = r.role /\ r1.since = r.since /\ r1.consumed = r.consumed
       /\ r1.invite["controller"] = inv.ts /\ r1.single["controller"]
  <2>1. inv.kind = "controller" /\ inv.nonce = inv.ts /\ inv.single
    BY DEF ShownTicket, InviteOf
  <2> HIDE DEF r1, inv
  <2> QED BY <1>10, <1>12, <2>1 DEF Founded, AfterSetInvite, Roster, Role
<1>14. /\ add.op = "Add" /\ add.signer = Master /\ add.node = n /\ add.role = "controller"
       /\ add.nonce = inv.ts
  BY <1>4 DEF Appointment, AddOf, ShownTicket, InviteOf
<1> HIDE DEF r1, inv, add
<1>15. AddAllowed(r1, add)
  <2>1. ~ r1.frozen /\ IsController(r1, add)
    BY <1>10, <1>13, <1>14, Players DEF Founded, IsController, Controllers
  <2>2. add.ts >= r1.since[add.signer]
    <3>1. r1.since[add.signer] = Stamp(Master, 1)
      BY <1>10, <1>13, <1>14 DEF Founded
    <3>2. 2 * m + 4 \in Nat /\ 1 < 2 * m + 4
      OBVIOUS
    <3>3. Stamp(Master, 1) < add.ts /\ Stamp(Master, 1) \in Nat
      BY <1>4, <3>2, MasterStamps
    <3> QED BY <1>6, <3>1, <3>3
  <2>3. inv.ts \notin r1.consumed
    <3> SUFFICES ASSUME NEW i \in 1 .. m, inv.ts = Stamp(Master, 2 * i + 1) PROVE FALSE
      BY <1>10, <1>13 DEF Founded
    <3>1. 2 * i + 1 \in Nat /\ 2 * m + 3 \in Nat /\ 2 * i + 1 < 2 * m + 3
      OBVIOUS
    <3>2. Stamp(Master, 2 * i + 1) < Stamp(Master, 2 * m + 3) /\ Stamp(Master, 2 * i + 1) \in Nat
      BY <3>1, MasterStamps
    <3> QED BY <1>4, <3>2
  <2>4. InviteGate(r1, add)
    BY <1>13, <1>14, <2>3 DEF InviteGate
  <2> QED BY <2>1, <2>2, <2>4 DEF AddAllowed
<1>16. r2 = AfterAdd(r1, add) /\ r2 \in Roster
  <2>1. EntryAllowed(r1, add)
    BY <1>14, <1>15 DEF EntryAllowed
  <2>2. r2 = AfterAdd(r1, add)
    BY <1>14, <2>1 DEF Apply
  <2> QED BY <1>11, <1>12, <2>2, ApplyType
<1> HIDE DEF r2, n
<1>17. /\ r2.frozen = r1.frozen /\ r2.role = [r1.role EXCEPT ![n] = "controller"]
       /\ r2.since = [r1.since EXCEPT ![n] = add.ts]
       /\ r2.consumed \subseteq r1.consumed \union {inv.ts}
  BY <1>12, <1>14, <1>16 DEF AfterAdd, Roster
<1>18. Founded(r2, m + 1)
  <2>1. r1.role \in [Node -> Role \union {"none"}] /\ r1.since \in [Node -> Time \union {0}]
    BY <1>12 DEF Roster
  <2>2. ~ r2.frozen /\ r2.role[Master] = "controller" /\ r2.since[Master] = Stamp(Master, 1)
    BY <1>2, <1>10, <1>13, <1>17, <2>1, Players DEF Founded
  <2>3. ASSUME NEW i \in 1 .. m + 1
        PROVE  IsMember(r2, Deputies[i])
    <3>1. CASE i = m + 1
      BY <1>2, <1>17, <2>1, <3>1 DEF IsMember, n
    <3>2. CASE i # m + 1
      <4>1. i \in 1 .. m /\ i \in 1 .. Len(Deputies)
        BY <3>2, Players
      <4>2. r1.role[Deputies[i]] # "none" /\ Deputies[i] \in Node
        BY <1>10, <1>13, <4>1, Players DEF Founded, IsMember
      <4> QED BY <1>17, <2>1, <4>2 DEF IsMember
    <3> QED BY <3>1, <3>2
  <2>4. ASSUME NEW x \in r2.consumed
        PROVE  \E i \in 1 .. m + 1 : x = Stamp(Master, 2 * i + 1)
    <3>1. CASE x = inv.ts
      <4>1. 2 * (m + 1) + 1 = 2 * m + 3 /\ m + 1 \in 1 .. m + 1
        OBVIOUS
      <4> QED BY <1>4, <3>1, <4>1
    <3>2. CASE x \in r1.consumed
      <4>1. PICK i \in 1 .. m : x = Stamp(Master, 2 * i + 1)
        BY <1>10, <1>13, <3>2 DEF Founded
      <4>2. i \in 1 .. m + 1
        OBVIOUS
      <4> QED BY <4>1, <4>2
    <3> QED BY <1>17, <3>1, <3>2
  <2> QED BY <1>16, <2>2, <2>3, <2>4 DEF Founded
<1> QED BY <1>9, <1>18

\* Every founder is in the roster the founding entries come to.
LEMMA FoundersAreMembers ==
    ASSUME NEW d \in Founders
    PROVE  IsMember(Build(Founding), d)
<1> DEFINE L == Len(Deputies)
           Good(m) == Founded(Fold(Founding)[FoundedUpTo(m)], m)
           Bad == {m \in Nat : m <= L /\ ~ Good(m)}
<1>1. L \in Nat
  BY Players
<1>2. Bad = {}
  <2> SUFFICES ASSUME Bad # {} PROVE FALSE
    OBVIOUS
  <2>1. PICK m \in Bad : \A k \in Bad : m <= k
    <3>1. Bad \in SUBSET Nat
      OBVIOUS
    <3> HIDE DEF Bad
    <3> QED BY <3>1, LeastNumber
  <2>2. m \in Nat /\ m <= L /\ ~ Good(m)
    OBVIOUS
  <2>3. m # 0
    BY <2>2, FoundingStart
  <2>4. m - 1 \in Nat /\ m - 1 < L /\ m - 1 <= L /\ ~ (m <= m - 1) /\ (m - 1) + 1 = m
    BY <1>1, <2>2, <2>3
  <2>5. m - 1 \notin Bad
    <3> HIDE DEF Bad
    <3> QED BY <2>1, <2>4
  <2>6. Good(m - 1)
    BY <2>4, <2>5
  <2>7. Good((m - 1) + 1)
    BY <2>4, <2>6, FoundingStep
  <2> QED BY <2>2, <2>4, <2>7
<1> DEFINE r == Fold(Founding)[FoundedUpTo(L)]
           inv == ShownTicket(L + 1)
           q == Apply(r, inv)
<1>3. Founded(r, L)
  <2>1. L \notin Bad /\ L <= L
    BY <1>1, <1>2
  <2> QED BY <1>1, <2>1
<1>4. Founding \in SUBSET Entry /\ IsFiniteSet(Founding)
  BY FoundingType
<1>5. FoundedUpTo(L) \union {inv} = Founding
  <2>1. 1 .. L + 1 = (1 .. L) \union {L + 1}
    BY <1>1
  <2> QED BY <2>1, Players DEF Founding, FoundedUpTo
<1>6. FoundedUpTo(L) \in SUBSET Founding /\ inv \in Founding
  BY <1>5
<1>7. \A f \in FoundedUpTo(L) : f.ts < inv.ts
  <2>1. 2 * (L + 1) + 1 = 2 * L + 3 /\ 1 < 2 * L + 3 /\ 2 < 2 * L + 3 /\ 2 * L + 3 \in Nat
    BY <1>1
  <2>2. inv.ts = Stamp(Master, 2 * L + 3)
    BY <2>1 DEF ShownTicket, InviteOf
  <2>3. Genesis.ts = Stamp(Master, 1) /\ FirstInvite.ts = Stamp(Master, 2)
    BY DEF Genesis, FirstInvite, AddOf, InviteOf
  <2>4. Genesis.ts < inv.ts /\ FirstInvite.ts < inv.ts
    BY <2>1, <2>2, <2>3, MasterStamps
  <2>5. ASSUME NEW i \in 1 .. L
        PROVE  ShownTicket(i).ts < inv.ts /\ Appointment(i).ts < inv.ts
    <3>1. ShownTicket(i).ts = Stamp(Master, 2 * i + 1) /\ Appointment(i).ts = Stamp(Master, 2 * i + 2)
      BY DEF ShownTicket, Appointment, InviteOf, AddOf
    <3>2. /\ 2 * i + 1 \in Nat /\ 2 * i + 2 \in Nat
          /\ 2 * i + 1 < 2 * L + 3 /\ 2 * i + 2 < 2 * L + 3
      BY <1>1
    <3> QED BY <2>1, <2>2, <3>1, <3>2, MasterStamps
  <2> QED BY <2>4, <2>5 DEF FoundedUpTo
<1> HIDE DEF L
<1>8. Fold(Founding)[Founding] = q
  <2> HIDE DEF inv
  <2>1. Fold(Founding)[FoundedUpTo(L) \union {inv}] = q
    BY <1>4, <1>6, <1>7, FoldLast
  <2> QED BY <1>5, <2>1
<1> HIDE DEF r
<1>9. q = AfterSetInvite(r, inv)
  <2>1. IsOrig(inv) /\ inv.op = "SetInvite"
    BY DEF IsOrig, ShownTicket, InviteOf
  <2>2. EntryAllowed(r, inv)
    BY <2>1 DEF EntryAllowed, SetInviteAllowed
  <2> QED BY <2>1, <2>2 DEF Apply
<1> HIDE DEF q, inv
<1>10. q.role = r.role
  BY <1>3, <1>9 DEF AfterSetInvite, Founded, Roster
<1>11. r.role[d] # "none"
  <2>1. r.role[Master] # "none"
    BY <1>3 DEF Founded
  <2>2. \A i \in DOMAIN Deputies : r.role[Deputies[i]] # "none"
    BY <1>3, Players DEF Founded, IsMember, L
  <2> QED BY <2>1, <2>2 DEF Founders
<1>12. Build(Founding).role = q.role
  <2>1. FoldedFrom(Fold(Founding)[Founding], Founding)
    BY <1>4, FoldType
  <2> QED BY <1>8, <2>1 DEF Build, AssignIps, FoldedFrom, Roster
<1> QED BY <1>10, <1>11, <1>12 DEF IsMember

-----------------------------------------------------------------------------
(***************************************************************************)
(* Type correctness of the membership protocol, in four parts.             *)
(***************************************************************************)
LogType ==
    /\ log \subseteq Entry /\ IsFiniteSet(log) /\ Cardinality(log) <= MaxEntries
    /\ replica \in [Node -> SUBSET log]

DeviceType ==
    /\ view \in [Node -> Roster]
    /\ open \subseteq Node /\ latched \subseteq Node /\ masters \subseteq open

JoinType == pending \subseteq Request /\ asking \subseteq Node \X Node /\ polling \subseteq Node

TickAt == [at : {"idle", "begun", "folded", "passed"}, entries : SUBSET log]

LoopType ==
    /\ tick \in [Node -> TickAt]
    /\ sighting \in [Node -> SUBSET log]
    /\ cut \subseteq Node /\ overtaken \subseteq Node

LEMMA MembershipTypeParts == MembershipTypeOK <=> LogType /\ DeviceType /\ JoinType /\ LoopType
BY DEF MembershipTypeOK, LogType, DeviceType, JoinType, LoopType, TickAt

\* New entries leave what ticks have read within its type.
LEMMA LoopTypeGrows ==
    ASSUME LoopType, log \subseteq log', UNCHANGED loopState
    PROVE  LoopType'
BY DEF LoopType, TickAt, loopState, tickHistory

LEMMA NowType ==
    ASSUME LogType, NEW d \in Node, Cardinality(log) < MaxEntries
    PROVE  Now(d) \in Time /\ Now(d) \in Nonce /\ Now(d) \in Nat
<1>1. Cardinality(log) \in Nat /\ MaxEntries \in Nat
  BY FS_CardinalityType, FoundingAssumption DEF LogType
<1>2. Cardinality(log) + 1 \in 1 .. MaxEntries
  BY <1>1
<1>3. Now(d) \in Time /\ Now(d) \in Nonce
  BY <1>2, StampAssumption DEF Now
<1> QED BY <1>3, NumbersAssumption

LEMMA PublishType ==
    ASSUME LogType, NEW d \in Node, NEW e \in Entry, Publish(d, e)
    PROVE  LogType'
<1>1. Cardinality(log) \in Nat /\ MaxEntries \in Nat /\ Cardinality(log) < MaxEntries /\ IsFiniteSet(log)
  BY FS_CardinalityType, FoundingAssumption DEF LogType, Publish
<1>2. log' = log \union {e}
  BY DEF Publish
<1>3. IsFiniteSet(log') /\ Cardinality(log') <= MaxEntries
  <2>1. /\ IsFiniteSet(log \union {e})
        /\ Cardinality(log \union {e}) = IF e \in log THEN Cardinality(log) ELSE Cardinality(log) + 1
    BY <1>1, FS_AddElement
  <2> QED BY <1>1, <1>2, <2>1
<1>4. replica' \in [Node -> SUBSET log']
  BY <1>2 DEF LogType, Publish
<1> QED BY <1>2, <1>3, <1>4 DEF LogType

LEMMA ReplicaFold ==
    ASSUME LogType, NEW d \in Node
    PROVE  Build(replica[d]) \in Roster
<1>1. replica[d] \in SUBSET Entry /\ IsFiniteSet(replica[d])
  BY FS_Subset DEF LogType
<1> QED BY <1>1, BuildType DEF FoldedFrom

\* What a device signs is an entry, and nothing else of the state changes but the master key a
\* device may import.
LEMMA AdministerType ==
    ASSUME LogType, DeviceType, NEW d \in Node, Administer(d)
    PROVE  /\ LogType' /\ DeviceType' /\ log \subseteq log'
           /\ UNCHANGED <<view, latched, pending, asking, polling, loopState>>
<1>1. AdminKey(d) \in Signer /\ Originator \in Signer
  BY DEF AdminKey, Signer
<1>2. ASSUME NEW e \in Entry, Publish(d, e), UNCHANGED <<localState, joinState, loopState>>
      PROVE  /\ LogType' /\ DeviceType' /\ log \subseteq log'
             /\ UNCHANGED <<view, latched, pending, asking, polling, loopState>>
  <2>1. LogType' /\ log \subseteq log'
    BY <1>2, PublishType DEF Publish
  <2>2. UNCHANGED <<view, open, latched, masters, pending, asking, polling, loopState>>
    BY <1>2 DEF localState, joinState
  <2> QED BY <2>1, <2>2 DEF DeviceType
<1>3. ASSUME NEW n \in Node, RemoveMember(d, n)
      PROVE  /\ LogType' /\ DeviceType' /\ log \subseteq log'
             /\ UNCHANGED <<view, latched, pending, asking, polling, loopState>>
  <2>1. RemoveOf(AdminKey(d), n, Now(d)) \in Entry
    BY <1>1, <1>3, NowType DEF RemoveMember, Publish, RemoveOf, Entry, RemoveEntry
  <2> QED BY <1>2, <1>3, <2>1 DEF RemoveMember
<1>4. ASSUME NEW single \in BOOLEAN, RegeneratePeerInvite(d, single)
      PROVE  /\ LogType' /\ DeviceType' /\ log \subseteq log'
             /\ UNCHANGED <<view, latched, pending, asking, polling, loopState>>
  <2>1. InviteOf(AdminKey(d), "peer", single, Now(d)) \in Entry
    BY <1>1, <1>4, NowType DEF RegeneratePeerInvite, Publish, InviteOf, Entry, SetInviteEntry, Role
  <2> QED BY <1>2, <1>4, <2>1 DEF RegeneratePeerInvite
<1>5. ASSUME ControllerTicket(d)
      PROVE  /\ LogType' /\ DeviceType' /\ log \subseteq log'
             /\ UNCHANGED <<view, latched, pending, asking, polling, loopState>>
  <2>1. InviteOf(Originator, "controller", TRUE, Now(d)) \in Entry
    BY <1>1, <1>5, NowType DEF ControllerTicket, Publish, InviteOf, Entry, SetInviteEntry, Role
  <2> QED BY <1>2, <1>5, <2>1 DEF ControllerTicket
<1>6. ASSUME NEW n \in Node, NEW role \in Role, SetMemberRole(d, n, role)
      PROVE  /\ LogType' /\ DeviceType' /\ log \subseteq log'
             /\ UNCHANGED <<view, latched, pending, asking, polling, loopState>>
  <2> DEFINE e == [op |-> "SetRole", signer |-> Originator, node |-> n, role |-> role, ts |-> Now(d)]
  <2>1. e \in Entry
    BY <1>1, <1>6, NowType DEF SetMemberRole, Publish, Entry, SetRoleEntry
  <2> QED BY <1>2, <1>6, <2>1 DEF SetMemberRole
<1>7. ASSUME NEW frozen \in BOOLEAN, SetFrozen(d, frozen)
      PROVE  /\ LogType' /\ DeviceType' /\ log \subseteq log'
             /\ UNCHANGED <<view, latched, pending, asking, polling, loopState>>
  <2> DEFINE e == [op |-> "Freeze", signer |-> Originator, frozen |-> frozen, ts |-> Now(d)]
  <2>1. e \in Entry
    BY <1>1, <1>7, NowType DEF SetFrozen, Publish, Entry, FreezeEntry
  <2> QED BY <1>2, <1>7, <2>1 DEF SetFrozen
<1>8. ASSUME ImportOriginatorKey(d)
      PROVE  /\ LogType' /\ DeviceType' /\ log \subseteq log'
             /\ UNCHANGED <<view, latched, pending, asking, polling, loopState>>
  BY <1>8 DEF ImportOriginatorKey, LogType, DeviceType, joinState
<1>9. ASSUME NEW name \in Label, SetNetworkName(d, name)
      PROVE  /\ LogType' /\ DeviceType' /\ log \subseteq log'
             /\ UNCHANGED <<view, latched, pending, asking, polling, loopState>>
  <2> DEFINE e == [op |-> "SetName", signer |-> d, name |-> name, ts |-> Now(d)]
  <2>1. e \in Entry
    BY <1>9, NowType DEF SetNetworkName, Publish, Entry, SetNameEntry, Signer
  <2> QED BY <1>2, <1>9, <2>1 DEF SetNetworkName
<1> QED BY <1>3, <1>4, <1>5, <1>6, <1>7, <1>8, <1>9 DEF Administer

\* Going offline, and leaving.
LEMMA DisconnectType ==
    ASSUME DeviceType, JoinType, LoopType, NEW d \in Node, Disconnect(d)
    PROVE  /\ view' \in [Node -> Roster] /\ latched' \subseteq Node
           /\ pending' \subseteq Request /\ asking' \subseteq Node \X Node
           /\ sighting' \in [Node -> SUBSET log] /\ overtaken' \subseteq Node
BY EmptyRosterType DEF DeviceType, JoinType, LoopType, Disconnect

LEMMA TeardownType ==
    ASSUME DeviceType, JoinType, LoopType, NEW d \in Node, Teardown(d), polling' \subseteq polling
    PROVE  /\ DeviceType' /\ JoinType'
           /\ sighting' \in [Node -> SUBSET log] /\ overtaken' \subseteq Node
BY DisconnectType DEF DeviceType, JoinType, Teardown

LEMMA TickBoundaryType ==
    ASSUME LoopType, NEW d \in Node, UnderTick(d) \/ TickEnds(d), log' = log
    PROVE  tick' \in [Node -> TickAt'] /\ cut' \subseteq Node
BY DEF LoopType, TickAt, UnderTick, TickEnds, NoTick

LEMMA TickStepType ==
    ASSUME LogType, DeviceType, JoinType, LoopType, NEW d \in Node, Tick(d)
    PROVE  LogType' /\ DeviceType' /\ JoinType' /\ LoopType'
<1>1. ASSUME TickBegin(d) \/ TickFold(d) \/ TickLatch(d) \/ TickOutside(d) \/ TickStore(d)
      PROVE  LogType' /\ DeviceType' /\ JoinType' /\ LoopType'
  <2>1. UNCHANGED <<log, replica, open, masters, pending, asking, polling>>
    BY <1>1 DEF TickBegin, TickFold, TickLatch, TickOutside, TickStore, tickKeeps, joinState
  <2>2. LogType' /\ JoinType'
    BY <2>1 DEF LogType, JoinType
  <2>3. view' \in [Node -> Roster] /\ latched' \subseteq Node
    <3>1. Folded(d) \in Roster
      <4>1. tick[d].entries \in SUBSET Entry /\ IsFiniteSet(tick[d].entries)
        BY FS_Subset DEF LogType, LoopType, TickAt
      <4> QED BY <4>1, BuildType DEF Folded, FoldedFrom
    <3> QED BY <1>1, <3>1 DEF TickBegin, TickFold, TickLatch, TickOutside, TickStore, DeviceType
  <2>4. LoopType'
    <3>1. replica[d] \in SUBSET log /\ tick[d] \in TickAt
      BY DEF LogType, LoopType
    <3>2. tick' \in [Node -> TickAt] /\ cut' \subseteq Node
      <4>1. CASE TickStore(d)
        BY <2>1, <4>1, TickBoundaryType DEF TickStore, TickAt
      <4>2. CASE TickBegin(d)
        BY <3>1, <4>2 DEF TickBegin, LoopType, TickAt, tickHistory
      <4>3. CASE TickFold(d)
        BY <3>1, <4>3 DEF TickFold, LoopType, TickAt, tickHistory
      <4>4. CASE TickLatch(d)
        BY <3>1, <4>4 DEF TickLatch, LoopType, TickAt
      <4>5. CASE TickOutside(d)
        BY <3>1, <4>5 DEF TickOutside, LoopType, TickAt, tickHistory
      <4> QED BY <1>1, <4>1, <4>2, <4>3, <4>4, <4>5
    <3>3. sighting' \in [Node -> SUBSET log] /\ overtaken' \subseteq Node
      <4>1. tick[d].entries \in SUBSET log
        BY <3>1 DEF TickAt
      <4> QED BY <1>1, <4>1 DEF TickBegin, TickFold, TickLatch, TickOutside, TickStore, LoopType, tickHistory
    <3> QED BY <2>1, <3>2, <3>3 DEF LoopType, TickAt
  <2> QED BY <2>1, <2>2, <2>3, <2>4 DEF DeviceType
<1>2. CASE SelfEvict(d)
  <2>1. Teardown(d) /\ TickEnds(d) /\ UNCHANGED <<log, replica, polling>>
    BY <1>2 DEF SelfEvict
  <2>2. DeviceType' /\ JoinType' /\ sighting' \in [Node -> SUBSET log] /\ overtaken' \subseteq Node
    BY <2>1, TeardownType
  <2>3. tick' \in [Node -> TickAt'] /\ cut' \subseteq Node
    BY <2>1, TickBoundaryType
  <2> QED BY <2>1, <2>2, <2>3 DEF LogType, LoopType
<1> QED BY <1>1, <1>2 DEF Tick

LEMMA JoinStepType ==
    ASSUME LogType, DeviceType, JoinType, LoopType, NEW j \in Node, Join(j)
    PROVE  LogType' /\ DeviceType' /\ JoinType' /\ LoopType'
<1>1. ASSUME NEW d \in Node, NEW inv \in log, Ask(j, d, inv)
      PROVE  LogType' /\ DeviceType' /\ JoinType' /\ LoopType'
  <2>1. inv \in SetInviteEntry
    BY <1>1, KindOfEntry DEF Ask, LogType
  <2>2. pending' \subseteq Request /\ asking' \subseteq Node \X Node /\ polling' = polling
    BY <1>1, <2>1 DEF Ask, JoinType, Request, SetInviteEntry
  <2> QED BY <1>1, <2>2, LoopTypeGrows DEF Ask, LogType, DeviceType, JoinType, localState
<1>2. CASE Cancel(j)
  BY <1>2, LoopTypeGrows DEF Cancel, LogType, DeviceType, JoinType, localState
<1>3. CASE PollConfirm(j)
  BY <1>3, LoopTypeGrows DEF PollConfirm, LogType, DeviceType, JoinType, localState
<1>4. CASE PollGiveUp(j)
  <2>1. Teardown(j) /\ UnderTick(j) /\ polling' \subseteq polling /\ UNCHANGED <<log, replica>>
    BY <1>4 DEF PollGiveUp
  <2>2. DeviceType' /\ JoinType' /\ sighting' \in [Node -> SUBSET log] /\ overtaken' \subseteq Node
    BY <2>1, TeardownType
  <2>3. tick' \in [Node -> TickAt'] /\ cut' \subseteq Node
    BY <2>1, TickBoundaryType
  <2> QED BY <2>1, <2>2, <2>3 DEF LogType, LoopType
<1> QED BY <1>1, <1>2, <1>3, <1>4 DEF Join

LEMMA MembershipInvariance == MembershipSpec => []MembershipTypeOK
<1>1. MembershipInit => MembershipTypeOK
  <2> SUFFICES ASSUME MembershipInit PROVE MembershipTypeOK
    OBVIOUS
  <2>1. LogType
    BY FoundingType DEF MembershipInit, LogType
  <2>2. Build(Founding) \in Roster
    BY FoundingType, BuildType DEF FoldedFrom
  <2>3. Founders \subseteq Node /\ Master \in Founders
    BY Players DEF Founders
  <2>4. DeviceType
    BY <2>2, <2>3, EmptyRosterType DEF MembershipInit, DeviceType
  <2>5. JoinType
    BY DEF MembershipInit, JoinType
  <2>6. LoopType
    BY DEF MembershipInit, LoopType, TickAt, NoTick
  <2> QED BY <2>1, <2>4, <2>5, <2>6, MembershipTypeParts
<1>2. MembershipTypeOK /\ [MembershipNext]_memberVars => MembershipTypeOK'
  <2> SUFFICES ASSUME LogType, DeviceType, JoinType, LoopType, [MembershipNext]_memberVars
               PROVE  LogType' /\ DeviceType' /\ JoinType' /\ LoopType'
    BY MembershipTypeParts DEF MembershipTypeOK, LogType, DeviceType, JoinType, LoopType, TickAt
  <2>1. ASSUME NEW d \in Node, Administer(d)
        PROVE  LogType' /\ DeviceType' /\ JoinType' /\ LoopType'
    BY <2>1, AdministerType, LoopTypeGrows DEF JoinType
  <2>2. ASSUME NEW d \in Node, NEW e \in log, Arrive(d, e)
        PROVE  LogType' /\ DeviceType' /\ JoinType' /\ LoopType'
    <3>1. PICK s \in open \ {d} :
            /\ e \in replica[s]
            /\ replica' = [replica EXCEPT ![d] = @ \union {e} \union (Founding \intersect replica[s])]
      BY <2>2 DEF Arrive
    <3>2. replica' \in [Node -> SUBSET log] /\ log' = log
      BY <2>2, <3>1 DEF Arrive, LogType, DeviceType
    <3> QED BY <2>2, <3>2, LoopTypeGrows DEF Arrive, LogType, DeviceType, JoinType, localState, joinState
  <2>3. ASSUME NEW d \in Node, Tick(d)
        PROVE  LogType' /\ DeviceType' /\ JoinType' /\ LoopType'
    BY <2>3, TickStepType
  <2>4. ASSUME NEW d \in Node, LeaveNetwork(d)
        PROVE  LogType' /\ DeviceType' /\ JoinType' /\ LoopType'
    <3>1. Teardown(d) /\ UnderTick(d) /\ polling' \subseteq polling /\ UNCHANGED <<log, replica>>
      BY <2>4 DEF LeaveNetwork
    <3>2. DeviceType' /\ JoinType' /\ sighting' \in [Node -> SUBSET log] /\ overtaken' \subseteq Node
      BY <3>1, TeardownType
    <3>3. tick' \in [Node -> TickAt'] /\ cut' \subseteq Node
      BY <3>1, TickBoundaryType
    <3> QED BY <3>1, <3>2, <3>3 DEF LogType, LoopType
  <2>5. ASSUME NEW d \in Node, Reconnect(d) \/ Restart(d)
        PROVE  LogType' /\ DeviceType' /\ JoinType' /\ LoopType'
    <3>1. /\ Disconnect(d) /\ (UnderTick(d) \/ TickEnds(d))
          /\ polling' \subseteq polling /\ UNCHANGED <<log, replica, open, masters>>
      BY <2>5 DEF Reconnect, Restart
    <3>2. /\ view' \in [Node -> Roster] /\ latched' \subseteq Node
          /\ pending' \subseteq Request /\ asking' \subseteq Node \X Node
          /\ sighting' \in [Node -> SUBSET log] /\ overtaken' \subseteq Node
      BY <3>1, DisconnectType
    <3>3. tick' \in [Node -> TickAt'] /\ cut' \subseteq Node
      BY <3>1, TickBoundaryType
    <3> QED BY <3>1, <3>2, <3>3 DEF LogType, DeviceType, JoinType, LoopType
  <2>6. ASSUME NEW j \in Node, Join(j)
        PROVE  LogType' /\ DeviceType' /\ JoinType' /\ LoopType'
    BY <2>6, JoinStepType
  <2>7. ASSUME NEW p \in pending, Approve(p)
        PROVE  LogType' /\ DeviceType' /\ JoinType' /\ LoopType'
    <3> DEFINE e == AddOf(p.at, p.from, p.kind, LowestFreeHost(view[p.at]), p.nonce, Now(p.at))
    <3>1. p.at \in Node /\ p.from \in Node /\ p.kind \in Role /\ p.nonce \in Nonce
      BY DEF JoinType, Request
    <3>2. LowestFreeHost(view[p.at]) \in Host
      BY LowestFreeIsHost, HostRangeAssumption DEF Hosts
    <3>3. Publish(p.at, e)
      BY <2>7 DEF Approve
    <3>4. Now(p.at) \in Time
      BY <3>1, <3>3, NowType DEF Publish
    <3>5. e \in Entry
      BY <3>1, <3>2, <3>4 DEF AddOf, Entry, AddEntry, Signer
    <3> HIDE DEF e
    <3>6. LogType' /\ log \subseteq log'
      BY <3>1, <3>3, <3>5, PublishType DEF Publish
    <3>7. /\ pending' \subseteq pending /\ asking' \subseteq asking
          /\ polling' \subseteq polling \union {p.from} /\ open \subseteq open'
          /\ open' \subseteq open \union {p.from} /\ UNCHANGED <<view, latched, masters, loopState>>
      BY <2>7 DEF Approve, Answered
    <3>8. LoopType'
      BY <3>6, <3>7, LoopTypeGrows
    <3> QED BY <3>1, <3>6, <3>7, <3>8 DEF DeviceType, JoinType
  <2>8. ASSUME NEW p \in pending, Refuse(p)
        PROVE  LogType' /\ DeviceType' /\ JoinType' /\ LoopType'
    BY <2>8, LoopTypeGrows DEF Refuse, Answered, LogType, DeviceType, JoinType, localState
  <2>9. CASE UNCHANGED memberVars
    BY <2>9, LoopTypeGrows DEF memberVars, loopState, LogType, DeviceType, JoinType
  <2> QED BY <2>1, <2>2, <2>3, <2>4, <2>5, <2>6, <2>7, <2>8, <2>9 DEF MembershipNext
<1> QED BY <1>1, <1>2, PTL DEF MembershipSpec

\* Type correctness of Membership: whatever devices publish, receive, fold and forget, each holds
\* published entries only, folds them to a roster, and has a latch or a master key only while it
\* has the network.
THEOREM MembershipTypeCorrect == MembershipSpec => []MembershipTypeOK
BY MembershipInvariance

(***************************************************************************)
(* Why a device leaves by itself.  A latch that no outage has overtaken is *)
(* backed by a sighting, and what the tick has read since holds it.        *)
(***************************************************************************)
SightingHolds(d) ==
    /\ sighting[d] # {} /\ sighting[d] \subseteq replica[d]
    /\ IsMember(Build(sighting[d]), d)

LatchIsBackedAt(d) ==
    /\ tick[d].at = "folded" => tick[d].entries \subseteq replica[d]
    /\ d \in latched /\ d \notin overtaken =>
          /\ SightingHolds(d)
          /\ tick[d].at = "folded" => sighting[d] \subseteq tick[d].entries

SightingInv == \A d \in Node : LatchIsBackedAt(d)

\* Entries only come in.
LEMMA SightingLasts ==
    ASSUME SightingInv, NEW d \in Node, replica[d] \subseteq replica'[d],
           tick'[d] = tick[d], sighting'[d] = sighting[d],
           d \in latched' => d \in latched, d \in overtaken => d \in overtaken'
    PROVE  LatchIsBackedAt(d)'
BY DEF SightingInv, LatchIsBackedAt, SightingHolds

\* A device that is down is not latched.
LEMMA SightingEnds ==
    ASSUME SightingInv, LogType, DeviceType, LoopType, NEW d \in Node, Disconnect(d),
           UnderTick(d) \/ TickEnds(d), replica' = replica
    PROVE  SightingInv'
<1> SUFFICES ASSUME NEW x \in Node PROVE LatchIsBackedAt(x)'
  BY DEF SightingInv
<1>1. CASE x # d
  BY <1>1, SightingLasts DEF Disconnect, UnderTick, TickEnds, LoopType
<1>2. CASE x = d
  <2>1. d \notin latched'
    BY DEF Disconnect
  <2>2. tick'[d] = tick[d] \/ tick'[d].at = "idle"
    BY DEF UnderTick, TickEnds, NoTick, LoopType
  <2> QED BY <1>2, <2>1, <2>2 DEF SightingInv, LatchIsBackedAt
<1> QED BY <1>1, <1>2

\* A step that only adds entries.
LEMMA SightingGrows ==
    ASSUME SightingInv, UNCHANGED <<latched, loopState>>,
           \A d \in Node : replica[d] \subseteq replica'[d]
    PROVE  SightingInv'
BY SightingLasts DEF SightingInv, loopState, tickHistory

LEMMA SightingByTick ==
    ASSUME SightingInv, LogType, DeviceType, LoopType, NEW d \in Node, Tick(d)
    PROVE  SightingInv'
<1>1. CASE SelfEvict(d)
  BY <1>1, SightingEnds DEF SelfEvict, Teardown
<1>2. ASSUME TickBegin(d) \/ TickFold(d) \/ TickLatch(d) \/ TickOutside(d) \/ TickStore(d)
      PROVE  SightingInv'
  <2> SUFFICES ASSUME NEW x \in Node PROVE LatchIsBackedAt(x)'
    BY DEF SightingInv
  <2>1. replica' = replica
    BY <1>2 DEF TickBegin, TickFold, TickLatch, TickOutside, TickStore, tickKeeps
  <2>2. CASE x # d
    <3>1. tick'[x] = tick[x]
      BY <1>2, <2>2 DEF TickBegin, TickFold, TickLatch, TickOutside, TickStore, TickEnds, LoopType
    <3>2. sighting'[x] = sighting[x] /\ (x \in latched' <=> x \in latched)
          /\ (x \in overtaken' <=> x \in overtaken)
      BY <1>2, <2>2 DEF TickBegin, TickFold, TickLatch, TickOutside, TickStore, tickHistory, LoopType
    <3> QED BY <2>1, <3>1, <3>2, SightingLasts
  <2>3. CASE x = d
    <3>1. LatchIsBackedAt(d)
      BY DEF SightingInv
    <3>2. tick[d] \in TickAt
      BY DEF LoopType
    <3>3. CASE TickBegin(d) \/ TickOutside(d) \/ TickStore(d)
      <4>1. tick'[d].at # "folded" /\ UNCHANGED <<latched, sighting, overtaken>>
        BY <3>2, <3>3 DEF TickBegin, TickOutside, TickStore, TickEnds, NoTick, tickHistory, LoopType, TickAt
      <4> QED BY <2>1, <2>3, <3>1, <4>1 DEF LatchIsBackedAt, SightingHolds
    <3>4. CASE TickFold(d)
      <4>1. tick'[d].entries = replica[d] /\ UNCHANGED <<latched, sighting, overtaken>>
        BY <3>4 DEF TickFold, tickHistory, LoopType
      <4> QED BY <2>1, <2>3, <3>1, <4>1 DEF LatchIsBackedAt, SightingHolds
    <3>5. CASE TickLatch(d)
      <4>1. tick'[d].at = "passed" /\ tick[d].at = "folded" /\ tick[d].entries \subseteq replica[d]
        BY <3>1, <3>2, <3>5 DEF TickLatch, LoopType, TickAt, LatchIsBackedAt
      <4>2. CASE d \in cut
        BY <2>3, <3>5, <4>1, <4>2 DEF TickLatch, LatchIsBackedAt
      <4>3. CASE d \notin cut
        <5>1. sighting'[d] = tick[d].entries
          BY <3>5, <4>3 DEF TickLatch, LoopType
        <5>2. IsMember(Build(tick[d].entries), d)
          BY <3>5 DEF TickLatch, Folded
        <5>3. tick[d].entries # {}
          BY <5>2, NobodyAtFirst
        <5> QED BY <2>1, <2>3, <4>1, <5>1, <5>2, <5>3 DEF LatchIsBackedAt, SightingHolds
      <4> QED BY <4>2, <4>3
    <3> QED BY <1>2, <3>3, <3>4, <3>5
  <2> QED BY <2>2, <2>3
<1> QED BY <1>1, <1>2 DEF Tick

\* While the latch is backed, a device about to leave was overtaken or dismissed.
LEMMA BackedMeansEarned ==
    ASSUME LogType, LoopType, SightingInv
    PROVE  EvictionIsEarned
<1> SUFFICES ASSUME NEW d \in Node, Evicting(d), d \notin overtaken, ~Dismissed(d)
             PROVE  FALSE
  BY DEF EvictionIsEarned
<1> DEFINE E == tick[d].entries
           S == sighting[d]
<1>1. S # {} /\ S \subseteq E /\ IsMember(Build(S), d) /\ ~IsMember(Build(E), d)
  BY DEF Evicting, Folded, SightingInv, LatchIsBackedAt, SightingHolds
<1>2. E \in SUBSET Entry /\ IsFiniteSet(E)
  BY FS_Subset DEF LogType, LoopType, TickAt
<1>3. \A e \in E \ S : ~(e.op = "Remove" /\ e.node = d) /\ \A f \in S : ~(e.ts <= f.ts)
  BY <1>1 DEF Dismissed
<1> HIDE DEF E, S
<1> QED BY <1>1, <1>2, <1>3, MemberStays

\* "Once we've appeared in the roster, dropping out of it means we were removed" (tick): whatever
\* the order of leaving, joining, going offline and restarting, and however a tick is cut, a device
\* about to leave by itself saw itself since its network went up and was dismissed since, or was
\* latched by a tick its network went down under.
THEOREM EvictionIsAlwaysEarned == MembershipSpec => []EvictionIsEarned
<1>1. MembershipInit => SightingInv
  <2> SUFFICES ASSUME MembershipInit, NEW d \in Node PROVE LatchIsBackedAt(d)
    BY DEF SightingInv
  <2>1. tick[d].at = "idle"
    BY DEF MembershipInit, NoTick
  <2>2. ASSUME d \in Founders PROVE SightingHolds(d)
    <3>1. sighting[d] = Founding /\ replica[d] = Founding /\ Founding # {}
      BY <2>2 DEF MembershipInit, Founding
    <3> QED BY <2>2, <3>1, FoundersAreMembers DEF SightingHolds
  <2>3. latched = Founders
    BY DEF MembershipInit
  <2> QED BY <2>1, <2>2, <2>3 DEF LatchIsBackedAt
<1>2. MembershipTypeOK /\ SightingInv /\ [MembershipNext]_memberVars => SightingInv'
  <2> SUFFICES ASSUME LogType, DeviceType, JoinType, LoopType, SightingInv, [MembershipNext]_memberVars
               PROVE  SightingInv'
    BY MembershipTypeParts
  <2>1. ASSUME NEW d \in Node, NEW e, Publish(d, e), UNCHANGED <<latched, loopState>>
        PROVE  SightingInv'
    BY <2>1, SightingGrows DEF Publish, LogType
  <2>2. ASSUME UNCHANGED <<replica, latched, loopState>>
        PROVE  SightingInv'
    BY <2>2, SightingGrows
  <2>3. ASSUME NEW d \in Node, Administer(d)
        PROVE  SightingInv'
    BY <2>1, <2>2, <2>3 DEF Administer, RemoveMember, RegeneratePeerInvite, ControllerTicket,
       SetMemberRole, SetFrozen, SetNetworkName, ImportOriginatorKey, localState
  <2>4. ASSUME NEW d \in Node, NEW e \in log, Arrive(d, e)
        PROVE  SightingInv'
    <3>1. \A x \in Node : replica[x] \subseteq replica'[x]
      BY <2>4 DEF Arrive, LogType
    <3> QED BY <2>4, <3>1, SightingGrows DEF Arrive, localState
  <2>5. ASSUME NEW d \in Node, Tick(d)
        PROVE  SightingInv'
    BY <2>5, SightingByTick
  <2>6. ASSUME NEW d \in Node, LeaveNetwork(d) \/ Reconnect(d) \/ Restart(d) \/ PollGiveUp(d)
        PROVE  SightingInv'
    BY <2>6, SightingEnds DEF LeaveNetwork, Reconnect, Restart, PollGiveUp, Teardown
  <2>7. ASSUME NEW j \in Node, Join(j)
        PROVE  SightingInv'
    BY <2>2, <2>6, <2>7 DEF Join, Ask, Cancel, PollConfirm, localState
  <2>8. ASSUME NEW p \in pending, Approve(p)
        PROVE  SightingInv'
    <3>1. p.at \in Node
      BY DEF JoinType, Request
    <3> QED BY <2>1, <2>8, <3>1 DEF Approve
  <2>9. ASSUME NEW p \in pending, Refuse(p)
        PROVE  SightingInv'
    BY <2>2, <2>9 DEF Refuse, localState
  <2>10. CASE UNCHANGED memberVars
    BY <2>2, <2>10 DEF memberVars, loopState
  <2> QED BY <2>3, <2>4, <2>5, <2>6, <2>7, <2>8, <2>9, <2>10 DEF MembershipNext
<1>3. MembershipTypeOK /\ SightingInv => EvictionIsEarned
  BY MembershipTypeParts, BackedMeansEarned
<1> QED BY <1>1, <1>2, <1>3, MembershipInvariance, PTL DEF MembershipSpec

\* The publisher of a new entry is the one device that has it.
LEMMA OnlyPublisherHasIt ==
    ASSUME LogType, NEW d \in Node, NEW x \in Node, NEW e, NEW f, Publish(d, e),
           f \in log' \ log, f \in replica'[x]
    PROVE  f = e /\ x = d
BY DEF LogType, Publish

\* A device whose view is the fold of the earlier entries was admitted before now.
LEMMA AdmittedBeforeSigning ==
    ASSUME LogType, NEW d \in Node, NEW e, e.ts \in Nat, view[d] = Before(e)
    PROVE  e.ts >= view[d].since[d]
<1> DEFINE E == {f \in log : f.ts < e.ts}
<1>1. E \in SUBSET Entry /\ IsFiniteSet(E)
  BY FS_Subset DEF LogType
<1>2. FoldedFrom(view[d], E)
  <2> HIDE DEF E
  <2>1. FoldedFrom(Build(E), E)
    BY <1>1, BuildType
  <2> QED BY <2>1 DEF Before, E
<1>3. view[d].since[d] = 0 \/ \E f \in E : view[d].since[d] = f.ts
  BY <1>2 DEF FoldedFrom
<1>4. \A f \in E : f.ts \in Nat /\ f.ts < e.ts
  BY <1>1, KindOfEntry
<1> HIDE DEF E
<1> QED BY <1>3, <1>4

\* The engine's gates and the fold's rules agree: what a device publishes whose view is that of
\* all earlier entries is never thrown away by the fold, but for the exceptions Excepted names
\* (admin_signer, originator_key, admit_member against Roster::build).
THEOREM GatesAndFoldAgree == MembershipSpec => GatesAgreeWithFold
<1>1. ASSUME MembershipTypeOK, [MembershipNext]_memberVars, NEW e \in log' \ log, NEW d \in Node,
             e \in replica'[d], ~ Excepted(d, e), view[d] = Before(e)
      PROVE  EntryAllowed(view[d], e)
  <2>1. LogType /\ DeviceType /\ JoinType
    BY <1>1, MembershipTypeParts
  <2>2. ASSUME NEW x \in Node, Administer(x)
        PROVE  EntryAllowed(view[d], e)
    <3>1. ASSUME NEW n \in Node, RemoveMember(x, n)
          PROVE  EntryAllowed(view[d], e)
      <4>1. e = RemoveOf(AdminKey(d), n, Now(d)) /\ CanAdmin(d)
        BY <1>1, <2>1, <3>1, OnlyPublisherHasIt DEF RemoveMember
      <4>2. e.op = "Remove" /\ e.signer = AdminKey(d)
        BY <4>1 DEF RemoveOf
      <4>3. view[d].role[e.node] = "peer"
        BY <1>1, <4>2 DEF Excepted
      <4>4. RemoveAllowed(view[d], e)
        BY <4>1, <4>2, <4>3 DEF RemoveAllowed, IsOrig, IsController, Controllers, AdminKey, CanAdmin
      <4> QED BY <4>2, <4>4 DEF EntryAllowed
    <3>2. ASSUME NEW single \in BOOLEAN, RegeneratePeerInvite(x, single)
          PROVE  EntryAllowed(view[d], e)
      <4>1. e = InviteOf(AdminKey(d), "peer", single, Now(d)) /\ CanAdmin(d)
        BY <1>1, <2>1, <3>2, OnlyPublisherHasIt DEF RegeneratePeerInvite
      <4>2. e.op = "SetInvite" /\ e.signer = AdminKey(d) /\ e.kind = "peer"
        BY <4>1 DEF InviteOf
      <4>3. SetInviteAllowed(view[d], e)
        BY <4>1, <4>2 DEF SetInviteAllowed, IsOrig, IsController, Controllers, AdminKey, CanAdmin
      <4> QED BY <4>2, <4>3 DEF EntryAllowed
    <3>3. ASSUME ControllerTicket(x)
          PROVE  EntryAllowed(view[d], e)
      <4>1. e = InviteOf(Originator, "controller", TRUE, Now(x))
        BY <1>1, <2>1, <3>3, OnlyPublisherHasIt DEF ControllerTicket
      <4>2. e.op = "SetInvite" /\ IsOrig(e)
        BY <4>1 DEF InviteOf, IsOrig
      <4> QED BY <4>2 DEF EntryAllowed, SetInviteAllowed
    <3>4. ASSUME NEW n \in Node, NEW role \in Role, SetMemberRole(x, n, role)
          PROVE  EntryAllowed(view[d], e)
      <4>1. e = [op |-> "SetRole", signer |-> Originator, node |-> n, role |-> role, ts |-> Now(x)]
        BY <1>1, <2>1, <3>4, OnlyPublisherHasIt DEF SetMemberRole
      <4>2. e.op = "SetRole" /\ IsOrig(e)
        BY <4>1 DEF IsOrig
      <4>3. view[d].role[e.node] = "peer"
        BY <1>1, <4>2 DEF Excepted
      <4> QED BY <4>2, <4>3 DEF EntryAllowed, SetRoleAllowed, IsMember
    <3>5. ASSUME NEW frozen \in BOOLEAN, SetFrozen(x, frozen)
          PROVE  EntryAllowed(view[d], e)
      <4>1. e = [op |-> "Freeze", signer |-> Originator, frozen |-> frozen, ts |-> Now(x)]
        BY <1>1, <2>1, <3>5, OnlyPublisherHasIt DEF SetFrozen
      <4> QED BY <4>1 DEF EntryAllowed, FreezeAllowed, IsOrig
    <3>6. CASE ImportOriginatorKey(x)
      BY <1>1, <3>6 DEF ImportOriginatorKey
    <3>7. ASSUME NEW name \in Label, SetNetworkName(x, name)
          PROVE  EntryAllowed(view[d], e)
      <4>1. e = [op |-> "SetName", signer |-> d, name |-> name, ts |-> Now(d)]
        BY <1>1, <2>1, <3>7, OnlyPublisherHasIt DEF SetNetworkName
      <4>2. view[d].role[d] = "controller"
        BY <1>1, <4>1 DEF Excepted
      <4> QED BY <4>1, <4>2 DEF EntryAllowed, SetNameAllowed, IsController, Controllers
    <3> QED BY <2>2, <3>1, <3>2, <3>3, <3>4, <3>5, <3>6, <3>7 DEF Administer
  <2>3. ASSUME NEW p \in pending, Approve(p)
        PROVE  EntryAllowed(view[d], e)
    <3>1. p.at \in Node
      BY <2>1 DEF JoinType, Request
    <3>2. /\ e = AddOf(d, p.from, p.kind, LowestFreeHost(view[d]), p.nonce, Now(d))
          /\ ~ view[d].frozen /\ CanAdmin(d) /\ Cardinality(log) < MaxEntries
      BY <1>1, <2>1, <2>3, <3>1, OnlyPublisherHasIt DEF Approve, Publish
    <3>3. e.op = "Add" /\ e.signer = d /\ e.ts = Now(d)
      BY <3>2 DEF AddOf
    <3>4. d \notin masters /\ CheckInvite(view[d], e.role, e.nonce) = "ok"
      BY <1>1, <3>3 DEF Excepted
    <3>5. IsController(view[d], e)
      BY <3>2, <3>3, <3>4 DEF CanAdmin, IsController, Controllers
    <3>6. e.ts >= view[d].since[e.signer]
      BY <1>1, <2>1, <3>2, <3>3, NowType, AdmittedBeforeSigning
    <3>7. InviteGate(view[d], e)
      BY <3>4 DEF CheckInvite, InviteSpent, InviteGate
    <3>8. AddAllowed(view[d], e)
      BY <3>2, <3>5, <3>6, <3>7 DEF AddAllowed
    <3> QED BY <3>3, <3>8 DEF EntryAllowed
  <2>4. ASSUME log' = log
        PROVE  FALSE
    BY <1>1, <2>4
  <2>5. ASSUME NEW x \in Node
        PROVE  /\ Tick(x) \/ LeaveNetwork(x) \/ Reconnect(x) \/ Restart(x) => log' = log
               /\ \A f \in log : Arrive(x, f) => log' = log
               /\ Join(x) => log' = log
    <3>1. Tick(x) => log' = log
      BY DEF Tick, TickBegin, TickFold, TickLatch, TickOutside, SelfEvict, TickStore, tickKeeps
    <3> QED BY <3>1 DEF LeaveNetwork, Reconnect, Restart, Arrive, Join, Ask, Cancel, PollConfirm, PollGiveUp
  <2>6. ASSUME NEW p \in pending, Refuse(p)
        PROVE  log' = log
    BY <2>6 DEF Refuse
  <2>7. CASE UNCHANGED memberVars
    BY <2>4, <2>7 DEF memberVars
  <2> QED BY <1>1, <2>2, <2>3, <2>4, <2>5, <2>6, <2>7 DEF MembershipNext
<1>2. MembershipTypeOK /\ [MembershipNext]_memberVars =>
        [\A e \in log' \ log, d \in Node :
            e \in replica'[d] /\ ~Excepted(d, e) /\ view[d] = Before(e)
                => EntryAllowed(view[d], e)]_memberVars
  BY <1>1
<1> QED BY <1>2, MembershipInvariance, PTL DEF MembershipSpec, GatesAgreeWithFold
=============================================================================
