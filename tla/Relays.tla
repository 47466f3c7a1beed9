--------------------------------- MODULE Relays ---------------------------------
(***************************************************************************)
(* The custom relay servers of one device (ipn-core/src/relays.rs,         *)
(* engine.rs: set_relay_settings, apply_relay_map, rebind_for_relay_tokens,*)
(* settle_home_relay; node.rs: IrohNode::spawn_with).                      *)
(*                                                                         *)
(* An edit is saved and shown at once; a task of its own, the applier,     *)
(* then brings it to the running endpoint, by changing its relay map or,   *)
(* for a token, by replacing the node.  Appliers run one at a time, and    *)
(* one whose edit is no longer the last gives up.  Meanwhile the health    *)
(* check may replace the node too.  An edit is one step, as it never       *)
(* awaits; edits that the settings' own validation refuses are left out.   *)
(***************************************************************************)
EXTENDS Naturals

CONSTANTS
    Url,        \* relay URLs
    Public,     \* those of the default relays
    Token,
    NoToken,
    Settings,   \* the settings the user may ask for
    None,       \* no settings; no actor; nobody
    Recovery,   \* the health check, as the one who replaces the node
    MaxEdits,   \* bound: edits, at the same time the last generation
    Attempts    \* ATTEMPTS

Default == [servers |-> [u \in {} |-> NoToken], mode |-> "preferred"]

ASSUME PublicAssumption == Public \subseteq Url
ASSUME SettingsAssumption ==
    /\ Default \in Settings
    /\ \A s \in Settings :
          /\ DOMAIN s.servers \subseteq Url
          /\ \A u \in DOMAIN s.servers : s.servers[u] \in Token \union {NoToken}
ASSUME TokenAssumption == NoToken \notin Token /\ None \notin Token \union {NoToken} \union Settings
ASSUME BoundAssumption ==
    /\ MaxEdits \in Nat /\ Attempts \in Nat \ {0}
    /\ {Recovery, None} \intersect Nat = {} /\ Recovery # None

Edit == 1 .. MaxEdits

VARIABLES
    settings,   \* relays.cbor and Inner::relay_settings
    apply,      \* Inner::relay_apply
    generation, \* Inner::relay_apply_gen
    stage,      \* how far the applier of each edit is
    plan,       \* what the task of each applier holds
    tries,      \* attempts the running applier has made
    onOld,      \* appliers that hold a node replaced since
    builder,    \* who holds rebuild_lock
    fresh,      \* the settings the node being bound has read
    alive,      \* the node in Inner::node is not closed
    relayMap,   \* its relay map: token by URL
    preferred,  \* the URLs its path selector prefers
    actor,      \* the token each of its relay actors was spawned with
    crossed,    \* history: an edit came after the node being bound had read the file
    unremoved,  \* history: URLs an applier that gave up was to remove
    undelivered \* history: URLs whose token an applier that gave up was to bring

node == <<alive, relayMap, preferred, actor>>
history == <<crossed, unremoved, undelivered>>
vars == <<settings, apply, generation, stage, plan, tries, onOld, builder, fresh, node, history>>

Urls(s) == DOMAIN s.servers

\* desired_relay_configs
Desired(s) ==
    [u \in Urls(s) \union (IF Urls(s) = {} \/ s.mode = "preferred" THEN Public ELSE {}) |->
        IF u \in Urls(s) THEN s.servers[u] ELSE NoToken]

\* Mutant: what the new settings keep is removed all the same.
StaleKeepingNone(old, new) == Public \union Urls(old)

\* Mutant: only what the user had configured may have to go.
StaleOldOnly(old, new) == Urls(old) \ DOMAIN Desired(new)

\* What set_relay_settings has removed from the map.
Stale(old, new) == (Public \union Urls(old)) \ DOMAIN Desired(new)

\* token_change_needs_rebind: the relays whose token is new.
TokenChanges(old, new) ==
    {u \in Urls(new) :
        new.servers[u] # NoToken /\ (u \in Urls(old) => old.servers[u] # new.servers[u])}

\* What an applier is spawned with, and drops when it ends.
Plan == [rebind : BOOLEAN, new : Settings, stale : SUBSET Url, tokens : SUBSET Url]
NoPlan == [rebind |-> FALSE, new |-> Default, stale |-> {}, tokens |-> {}]

Init ==
    /\ settings \in Settings
    /\ apply = "applied"
    /\ generation = 0
    /\ stage = [g \in Edit |-> "none"]
    /\ plan = [g \in Edit |-> NoPlan]
    /\ tries = 0 /\ onOld = {}
    /\ builder = None /\ fresh = None
    /\ alive = TRUE
    /\ relayMap = Desired(settings) /\ preferred = Urls(settings)
    /\ actor = [u \in Url |-> None]
    /\ crossed = FALSE /\ unremoved = {} /\ undelivered = {}
-----------------------------------------------------------------------------
(***************************************************************************)
(* The edit.                                                               *)
(***************************************************************************)
SetRelaySettings(s) ==
    /\ generation < MaxEdits
    /\ settings' = s
    /\ preferred' = Urls(s)
    /\ apply' = "pending"
    /\ generation' = generation + 1
    /\ LET tokens == TokenChanges(settings, s)
       IN  plan' = [plan EXCEPT ![generation'] =
                        [rebind |-> tokens # {}, new |-> s, stale |-> Stale(settings, s), tokens |-> tokens]]
    /\ stage' = [stage EXCEPT ![generation'] = "waiting"]
    /\ crossed' = (crossed \/ fresh # None)
    /\ UNCHANGED <<tries, onOld, builder, fresh, alive, relayMap, actor, unremoved, undelivered>>
-----------------------------------------------------------------------------
(***************************************************************************)
(* The appliers.                                                           *)
(***************************************************************************)
\* Mutant: fetch_add returns the value before, and the one is not added.
SupersededOffByOne(g) == generation # g - 1

\* A newer edit has come since.
Superseded(g) == generation # g

\* relay_apply_lock
LockFree == \A g \in Edit : stage[g] \notin {"pushing", "settling", "rebinding"}

\* The task of an applier returns.
Ends(g) ==
    /\ stage' = [stage EXCEPT ![g] = "done"]
    /\ plan' = [plan EXCEPT ![g] = NoPlan]

\* The lock is had, and a newer edit has landed.
GiveUp(g) ==
    /\ stage[g] = "waiting" /\ LockFree /\ Superseded(g)
    /\ Ends(g)
    /\ unremoved' = unremoved \union plan[g].stale
    /\ undelivered' = undelivered \union plan[g].tokens
    /\ UNCHANGED <<settings, apply, generation, tries, onOld, builder, fresh, node, crossed>>

Begin(g) ==
    /\ stage[g] = "waiting" /\ LockFree /\ ~Superseded(g)
    /\ stage' = [stage EXCEPT ![g] = IF plan[g].rebind THEN "rebinding" ELSE "pushing"]
    /\ tries' = 0 /\ onOld' = onOld \ {g}
    /\ UNCHANGED <<settings, apply, generation, plan, builder, fresh, node, history>>

\* One attempt of apply_relay_map.  Every call changes the map, acknowledged or not.
Pushed(g) ==
    IF g \in onOld
    THEN UNCHANGED <<relayMap, unremoved>>
    ELSE LET want == Desired(plan[g].new)
         IN  /\ relayMap' = [u \in (DOMAIN relayMap \union DOMAIN want) \ plan[g].stale |->
                                IF u \in DOMAIN want THEN want[u] ELSE relayMap[u]]
             /\ unremoved' = unremoved \ (plan[g].stale \union DOMAIN want)

PushAcknowledged(g) ==
    /\ stage[g] = "pushing" /\ Pushed(g)
    /\ stage' = [stage EXCEPT ![g] = "settling"]
    /\ UNCHANGED <<settings, apply, generation, plan, tries, onOld, builder, fresh,
                   alive, preferred, actor, crossed, undelivered>>

\* A call has timed out: again, unless a newer edit has landed or this was the last try.
PushStuck(g) ==
    /\ stage[g] = "pushing" /\ Pushed(g)
    /\ tries' = tries + 1
    /\ IF Superseded(g) \/ tries' = Attempts THEN Ends(g) ELSE UNCHANGED <<stage, plan>>
    /\ apply' = IF ~Superseded(g) /\ tries' = Attempts THEN "failed" ELSE apply
    /\ UNCHANGED <<settings, generation, onOld, builder, fresh,
                   alive, preferred, actor, crossed, undelivered>>

\* settle_home_relay: superseded; or the home relay, which iroh chooses, has come to be
\* one of the map or none; or it has not in time.
Settle(g) ==
    /\ stage[g] = "settling"
    /\ Ends(g)
    /\ IF Superseded(g) THEN UNCHANGED apply ELSE apply' \in {"applied", "failed"}
    /\ UNCHANGED <<settings, generation, tries, onOld, builder, fresh, node, history>>
-----------------------------------------------------------------------------
(***************************************************************************)
(* rebuild_node, for an applier or for the health check.                   *)
(***************************************************************************)
RebuildClose(w) ==
    /\ builder = None
    /\ w # Recovery => stage[w] = "rebinding"
    /\ builder' = w
    /\ alive' = FALSE
    /\ UNCHANGED <<settings, apply, generation, stage, plan, tries, onOld, fresh,
                   relayMap, preferred, actor, history>>

\* spawn_with loads relays.cbor, and binds.
RebuildRead ==
    /\ builder # None /\ fresh = None
    /\ fresh' = settings
    /\ UNCHANGED <<settings, apply, generation, stage, plan, tries, onOld, builder, node, history>>

\* The rebuild ends with this result, and so does the applier it was for.
RebuildEnds(result) ==
    /\ builder' = None /\ fresh' = None
    /\ IF builder = Recovery
       THEN UNCHANGED <<stage, plan, apply>>
       ELSE /\ Ends(builder)
            /\ apply' = IF Superseded(builder) THEN apply ELSE result

RebuildInstall ==
    /\ fresh # None
    /\ RebuildEnds("applied")
    /\ alive' = TRUE
    /\ relayMap' = Desired(fresh) /\ preferred' = Urls(fresh)
    /\ actor' = [u \in Url |-> None]
    /\ onOld' = {g \in Edit : stage[g] = "pushing"}
    /\ crossed' = (fresh # settings)
    /\ unremoved' = {} /\ undelivered' = {}
    /\ UNCHANGED <<settings, generation, tries>>

RebuildFails ==
    /\ builder # None
    /\ RebuildEnds("failed")
    /\ UNCHANGED <<settings, generation, tries, onOld, node, history>>
-----------------------------------------------------------------------------
(***************************************************************************)
(* iroh: the actor of a relay reads its token when it is spawned, whether  *)
(* for the map or for a peer that advertises the relay; an idle one exits. *)
(***************************************************************************)
ActorStarts(u) ==
    /\ alive /\ actor[u] = None
    /\ actor' = [actor EXCEPT ![u] = IF u \in DOMAIN relayMap THEN relayMap[u] ELSE NoToken]
    /\ UNCHANGED <<settings, apply, generation, stage, plan, tries, onOld, builder, fresh,
                   alive, relayMap, preferred, history>>

ActorExits(u) ==
    /\ actor[u] # None
    /\ actor' = [actor EXCEPT ![u] = None]
    /\ UNCHANGED <<settings, apply, generation, stage, plan, tries, onOld, builder, fresh,
                   alive, relayMap, preferred, history>>

\* The process dies, and starts again from the file.
Restart ==
    /\ apply' = "applied"
    /\ stage' = [g \in Edit |-> IF stage[g] = "none" THEN "none" ELSE "done"]
    /\ plan' = [g \in Edit |-> NoPlan]
    /\ tries' = 0 /\ onOld' = {}
    /\ builder' = None /\ fresh' = None
    /\ alive' = TRUE
    /\ relayMap' = Desired(settings) /\ preferred' = Urls(settings)
    /\ actor' = [u \in Url |-> None]
    /\ crossed' = FALSE /\ unremoved' = {} /\ undelivered' = {}
    /\ UNCHANGED <<settings, generation>>
-----------------------------------------------------------------------------
Applier(g) == GiveUp(g) \/ Begin(g) \/ PushAcknowledged(g) \/ PushStuck(g) \/ Settle(g)

RebuildStep == RebuildRead \/ RebuildInstall \/ RebuildFails

Next ==
    \/ \E s \in Settings : SetRelaySettings(s)
    \/ \E g \in Edit : Applier(g)
    \/ \E w \in Edit \union {Recovery} : RebuildClose(w)
    \/ RebuildStep
    \/ \E u \in Url : ActorStarts(u) \/ ActorExits(u)
    \/ Restart

(***************************************************************************)
(* Fairness.  A spawned task is polled, every call of apply_relay_map has  *)
(* a timeout, and settling a deadline.  rebuild_lock is fair (tokio hands  *)
(* a mutex on in order), hence SF for the applier waiting for it.          *)
(***************************************************************************)
Fairness ==
    /\ \A g \in Edit : WF_vars(Applier(g)) /\ SF_vars(RebuildClose(g))
    /\ WF_vars(RebuildStep)

Spec == Init /\ [][Next]_vars
FairSpec == Spec /\ Fairness
-----------------------------------------------------------------------------
Map == UNION {[D -> Token \union {NoToken}] : D \in SUBSET Url}

TypeOK ==
    /\ settings \in Settings
    /\ apply \in {"applied", "pending", "failed"}
    /\ generation \in 0 .. MaxEdits
    /\ stage \in [Edit -> {"none", "waiting", "pushing", "settling", "rebinding", "done"}]
    /\ plan \in [Edit -> Plan]
    /\ tries \in 0 .. Attempts
    /\ onOld \subseteq Edit
    /\ builder \in Edit \union {Recovery, None}
    /\ fresh \in Settings \union {None}
    /\ alive \in BOOLEAN /\ crossed \in BOOLEAN
    /\ relayMap \in Map
    /\ preferred \subseteq Url /\ unremoved \subseteq Url /\ undelivered \subseteq Url
    /\ actor \in [Url -> Token \union {NoToken, None}]
    /\ \A g, h \in Edit :
          {stage[g], stage[h]} \subseteq {"pushing", "settling", "rebinding"} => g = h

AtRest == builder = None /\ \A g \in Edit : stage[g] \in {"none", "done"}

\* A node that serves, and that did not miss an edit while it was being bound.
Serving == AtRest /\ alive /\ ~crossed

\* However edits follow one another, appliers give up, time out or fail, and nodes are
\* replaced: in the end every relay of the last edit is in the map with its token, and the
\* selector prefers the user's own.
NothingIsMissing ==
    Serving =>
        /\ \A u \in DOMAIN Desired(settings) :
              u \in DOMAIN relayMap /\ relayMap[u] = Desired(settings)[u]
        /\ preferred = Urls(settings)

\* What is in the map beyond the settings ("only": never contact a public relay), and an actor
\* that goes on with another token than the user's, are left from an applier that was to remove
\* the one or rebind the endpoint for the other, and gave up before it began.
OldIsLeftBySkips ==
    Serving =>
        /\ DOMAIN relayMap \ DOMAIN Desired(settings) \subseteq unremoved
        /\ \A u \in Urls(settings) :
              settings.servers[u] # NoToken /\ actor[u] \notin {None, settings.servers[u]}
                  => u \in undelivered

\* "Pending" does not stay: each edit is reported as applied or failed, or a later one is.
PendingEnds == (apply = "pending") ~> (apply # "pending")
=============================================================================
