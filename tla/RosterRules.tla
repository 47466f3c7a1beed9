------------------------------ MODULE RosterRules ------------------------------
(***************************************************************************)
(* The role rules of the signed membership log (ipn-core/src/roster.rs):   *)
(* what an entry is, when it is authorized, and what it then does to the   *)
(* roster.                                                                 *)
(*                                                                         *)
(* An entry is any record a holder of some key can sign: every member, and *)
(* every former member, holds the document's write capability, so nothing  *)
(* is assumed of what is signed.  Signatures, the network id and the       *)
(* far-future ceiling, which are checked before the fold, are abstracted:  *)
(* the entries here are the ones that pass.                                *)
(***************************************************************************)
EXTENDS Integers

CONSTANTS
    Node,        \* device keys, of members and of outsiders
    Originator,  \* the exportable master key, never a device key
    Nonce,       \* invite nonces
    NoInvite,    \* no SetInvite of a kind has been accepted yet
    Label,       \* network display names
    NoLabel,
    Host,        \* last octets an admitter may record for a member
    Time         \* timestamps, milliseconds in the code

ASSUME OriginatorAssumption == Originator \notin Node
ASSUME NonceAssumption == NoInvite \notin Nonce
ASSUME LabelAssumption == NoLabel \notin Label
ASSUME NumbersAssumption == Host \subseteq Nat /\ Time \subseteq Nat

Role == {"peer", "controller"}
Signer == Node \union {Originator}

(***************************************************************************)
(* Entries, one record type per variant of Op.  An invite has a kind, and  *)
(* the kinds are the roles they admit to.                                  *)
(***************************************************************************)
AddEntry == [op: {"Add"}, signer: Signer, node: Node, role: Role,
             host: Host, nonce: Nonce, ts: Time]
RemoveEntry == [op: {"Remove"}, signer: Signer, node: Node, ts: Time]
SetRoleEntry == [op: {"SetRole"}, signer: Signer, node: Node, role: Role, ts: Time]
SetInviteEntry == [op: {"SetInvite"}, signer: Signer, kind: Role, nonce: Nonce,
                   single: BOOLEAN, ts: Time]
FreezeEntry == [op: {"Freeze"}, signer: Signer, frozen: BOOLEAN, ts: Time]
SetNameEntry == [op: {"SetName"}, signer: Signer, name: Label, ts: Time]

Entry == UNION {AddEntry, RemoveEntry, SetRoleEntry, SetInviteEntry,
                FreezeEntry, SetNameEntry}

(***************************************************************************)
(* The accumulator.  members and admitted_ts always have the same keys in  *)
(* the code, so both are total functions here: role "none" is an absent    *)
(* key, and "host" and "since" (the admitted_ts map) are then 0.           *)
(***************************************************************************)
Roster == [role: [Node -> Role \union {"none"}],
           host: [Node -> Host \union {0}],
           since: [Node -> Time \union {0}],
           frozen: BOOLEAN,
           name: Label \union {NoLabel},
           invite: [Role -> Nonce \union {NoInvite}],
           single: [Role -> BOOLEAN],
           consumed: SUBSET Nonce]

EmptyRoster == [role |-> [n \in Node |-> "none"],
                host |-> [n \in Node |-> 0],
                since |-> [n \in Node |-> 0],
                frozen |-> FALSE,
                name |-> NoLabel,
                invite |-> [k \in Role |-> NoInvite],
                single |-> [k \in Role |-> FALSE],
                consumed |-> {}]

IsMember(r, n) == r.role[n] # "none"
Members(r) == {n \in Node : IsMember(r, n)}
Controllers(r) == {n \in Node : r.role[n] = "controller"}

IsOrig(e) == e.signer = Originator
IsController(r, e) == e.signer \in Controllers(r)

(***************************************************************************)
(* Authorization, one operator per arm of the match.                       *)
(***************************************************************************)
FreezeAllowed(r, e) == IsOrig(e)

RemoveAllowed(r, e) ==
    IsOrig(e) \/ (IsController(r, e) /\ r.role[e.node] = "peer")

SetRoleAllowed(r, e) == IsOrig(e) /\ IsMember(r, e.node)

\* Mutant: a Controller may publish Controller invites too.
SetInviteAllowedAnyKind(r, e) == IsOrig(e) \/ IsController(r, e)

SetInviteAllowed(r, e) ==
    IsOrig(e) \/ (e.kind = "peer" /\ IsController(r, e))

SetNameAllowed(r, e) == IsOrig(e) \/ IsController(r, e)

\* Mutant: a spent single-use nonce still admits.
InviteGateUnspent(r, e) == e.nonce = r.invite[e.role]

\* A Controller cites the current nonce of the role it grants, unspent if that
\* invite is single-use.
InviteGate(r, e) ==
    /\ e.nonce = r.invite[e.role]
    /\ r.single[e.role] => e.nonce \notin r.consumed

\* Mutant: whoever knows the nonce may sign the Add.
AddAllowedAnySigner(r, e) ==
    ~r.frozen /\ (IsOrig(e) \/ InviteGate(r, e))

AddAllowed(r, e) ==
    /\ ~r.frozen
    /\ \/ IsOrig(e)
       \/ /\ IsController(r, e)
          /\ e.ts >= r.since[e.signer]
          /\ InviteGate(r, e)

(***************************************************************************)
(* Effects of an accepted entry.                                           *)
(***************************************************************************)
SpendsInvite(r, e) == ~IsOrig(e) /\ r.single[e.role]

AfterFreeze(r, e) == [r EXCEPT !.frozen = e.frozen]

AfterRemove(r, e) == [r EXCEPT !.role[e.node] = "none",
                               !.host[e.node] = 0,
                               !.since[e.node] = 0]

AfterSetRole(r, e) == [r EXCEPT !.role[e.node] = e.role]

\* A Controller invite is single-use whatever the entry says.
AfterSetInvite(r, e) ==
    [r EXCEPT !.invite[e.kind] = e.nonce,
              !.single[e.kind] = e.single \/ e.kind = "controller"]

AfterSetName(r, e) == [r EXCEPT !.name = e.name]

\* Mutant: a device counts as admitted from the next moment on.
AfterAddNextMoment(r, e) ==
    [r EXCEPT !.role[e.node] = e.role,
              !.host[e.node] = e.host,
              !.since[e.node] = e.ts + 1,
              !.consumed = IF SpendsInvite(r, e) THEN @ \union {e.nonce} ELSE @]

\* The entry of a current member is overwritten: its role, address and
\* admission time are those of the new Add.
AfterAdd(r, e) ==
    [r EXCEPT !.role[e.node] = e.role,
              !.host[e.node] = e.host,
              !.since[e.node] = e.ts,
              !.consumed = IF SpendsInvite(r, e) THEN @ \union {e.nonce} ELSE @]

EntryAllowed(r, e) ==
    \/ e.op = "Add" /\ AddAllowed(r, e)
    \/ e.op = "Remove" /\ RemoveAllowed(r, e)
    \/ e.op = "SetRole" /\ SetRoleAllowed(r, e)
    \/ e.op = "SetInvite" /\ SetInviteAllowed(r, e)
    \/ e.op = "Freeze" /\ FreezeAllowed(r, e)
    \/ e.op = "SetName" /\ SetNameAllowed(r, e)

\* One iteration of the fold as a function: a refused entry changes nothing.
Apply(r, e) ==
    IF ~EntryAllowed(r, e) THEN r
    ELSE CASE e.op = "Add" -> AfterAdd(r, e)
           [] e.op = "Remove" -> AfterRemove(r, e)
           [] e.op = "SetRole" -> AfterSetRole(r, e)
           [] e.op = "SetInvite" -> AfterSetInvite(r, e)
           [] e.op = "Freeze" -> AfterFreeze(r, e)
           [] OTHER -> AfterSetName(r, e)

(***************************************************************************)
(* check_invite: what the join path tells an applicant before anyone is    *)
(* asked to approve, from the *_invite_spent flags of the finished fold.   *)
(***************************************************************************)
InviteSpent(r, kind) == r.invite[kind] \in r.consumed

\* Mutant: a nonce once spent stays spent when it is published again as multi-use.
CheckInviteEverSpent(r, kind, nonce) ==
    IF nonce # r.invite[kind] THEN "stale"
    ELSE IF InviteSpent(r, kind) THEN "spent"
    ELSE "ok"

CheckInvite(r, kind, nonce) ==
    IF nonce # r.invite[kind] THEN "stale"
    ELSE IF r.single[kind] /\ InviteSpent(r, kind) THEN "spent"
    ELSE "ok"
=============================================================================
