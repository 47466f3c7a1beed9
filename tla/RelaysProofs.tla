------------------------------- MODULE RelaysProofs -------------------------------
(***************************************************************************)
(* Proofs about Relays, for any relays, settings, edits and attempts: what  *)
(* the node has in the end is what the last edit asked for.                *)
(***************************************************************************)
EXTENDS Relays, TLAPS

LEMMA Bounds ==
    /\ MaxEdits \in Nat /\ Attempts \in Nat /\ Attempts # 0
    /\ Recovery \notin Nat /\ None \notin Nat /\ Recovery # None
    /\ Recovery \notin Edit /\ None \notin Edit /\ Edit \subseteq Nat
    /\ None \notin Token /\ None # NoToken /\ None \notin Settings /\ Default \in Settings
BY BoundAssumption, TokenAssumption, SettingsAssumption DEF Edit

-----------------------------------------------------------------------------
(***************************************************************************)
(* The relay map that settings ask for.                                    *)
(***************************************************************************)
LEMMA DesiredMap ==
    ASSUME NEW s \in Settings
    PROVE  /\ Desired(s) \in Map
           /\ DOMAIN Desired(s) \subseteq Public \union Urls(s) /\ Urls(s) \subseteq DOMAIN Desired(s)
           /\ DOMAIN Desired(s) \subseteq Url /\ Urls(s) \subseteq Url
           /\ \A u \in Urls(s) : Desired(s)[u] = s.servers[u]
<1>1. Urls(s) \subseteq Url /\ \A u \in Urls(s) : s.servers[u] \in Token \union {NoToken}
  BY SettingsAssumption DEF Urls
<1> DEFINE D == Urls(s) \union (IF Urls(s) = {} \/ s.mode = "preferred" THEN Public ELSE {})
<1>2. D \subseteq Public \union Urls(s) /\ Urls(s) \subseteq D /\ D \in SUBSET Url
  BY <1>1, PublicAssumption
<1>3. Desired(s) = [u \in D |-> IF u \in Urls(s) THEN s.servers[u] ELSE NoToken]
  BY DEF Desired
<1> HIDE DEF D
<1>4. Desired(s) \in [D -> Token \union {NoToken}]
  BY <1>1, <1>3
<1>5. Desired(s) \in Map
  BY <1>2, <1>4 DEF Map
<1> QED BY <1>1, <1>2, <1>3, <1>5

LEMMA MapTypes ==
    ASSUME NEW m \in Map
    PROVE  DOMAIN m \subseteq Url /\ \A u \in DOMAIN m : m[u] \in Token \union {NoToken}
BY DEF Map

\* What an edit has removed was of the public relays or of the old settings; what it does not
\* remove, and no token it brings, is as before.
LEMMA ChangesAreCovered ==
    ASSUME NEW old \in Settings, NEW new \in Settings
    PROVE  /\ Stale(old, new) \subseteq Url /\ Stale(old, new) \intersect DOMAIN Desired(new) = {}
           /\ DOMAIN Desired(old) \ DOMAIN Desired(new) \subseteq Stale(old, new)
           /\ TokenChanges(old, new) \subseteq Url
           /\ \A u \in Urls(new) \ TokenChanges(old, new) : new.servers[u] # NoToken =>
                  u \in Urls(old) /\ old.servers[u] = new.servers[u]
BY DesiredMap, PublicAssumption DEF Stale, TokenChanges

\* One attempt to change the map.
LEMMA PushedMap ==
    ASSUME TypeOK, NEW g \in Edit, Pushed(g)
    PROVE  /\ relayMap' \in Map /\ unremoved' \subseteq Url
           /\ g \in onOld => UNCHANGED <<relayMap, unremoved>>
           /\ g \notin onOld =>
                 /\ DOMAIN relayMap' = (DOMAIN relayMap \union DOMAIN Desired(plan[g].new)) \ plan[g].stale
                 /\ \A u \in DOMAIN relayMap' : relayMap'[u] =
                        IF u \in DOMAIN Desired(plan[g].new) THEN Desired(plan[g].new)[u] ELSE relayMap[u]
                 /\ unremoved' = unremoved \ (plan[g].stale \union DOMAIN Desired(plan[g].new))
<1>1. plan[g].new \in Settings /\ relayMap \in Map /\ unremoved \subseteq Url
  BY DEF TypeOK, Plan
<1>2. CASE g \in onOld
  BY <1>1, <1>2 DEF Pushed
<1>3. CASE g \notin onOld
  <2> DEFINE want == Desired(plan[g].new)
             D == (DOMAIN relayMap \union DOMAIN want) \ plan[g].stale
  <2>1. want \in Map
    BY <1>1, DesiredMap
  <2>2. D \in SUBSET Url /\ \A u \in D :
            (IF u \in DOMAIN want THEN want[u] ELSE relayMap[u]) \in Token \union {NoToken}
    BY <1>1, <2>1, MapTypes
  <2>3. /\ relayMap' = [u \in D |-> IF u \in DOMAIN want THEN want[u] ELSE relayMap[u]]
        /\ unremoved' = unremoved \ (plan[g].stale \union DOMAIN want)
    BY <1>3 DEF Pushed
  <2> HIDE DEF want, D
  <2>4. relayMap' \in [D -> Token \union {NoToken}]
    BY <2>2, <2>3
  <2>5. relayMap' \in Map
    BY <2>2, <2>4 DEF Map
  <2> QED BY <1>1, <1>3, <2>3, <2>5 DEF want, D
<1> QED BY <1>2, <1>3

-----------------------------------------------------------------------------
(***************************************************************************)
(* The inductive invariant.                                                *)
(***************************************************************************)
Held == {"pushing", "settling", "rebinding"}

\* The applier of edit g has still to change the map, or to have the node replaced.
WillApply(g) == stage[g] \in {"waiting", "rebinding"} \/ (stage[g] = "pushing" /\ g \notin onOld)

\* Only the applier of the last edit begins, so that one which is superseded while it holds the
\* lock has the last one waiting behind it; and a node is closed for as long as one is bound.
Orderly ==
    /\ \A g \in Edit : g > generation => stage[g] = "none"
    /\ \A g \in Edit : stage[g] \in Held /\ g # generation => stage[generation] = "waiting"
    /\ generation \in Edit /\ stage[generation] \in {"waiting"} \union Held
          => plan[generation].new = settings
    /\ \A g \in Edit : /\ plan[g].stale \intersect DOMAIN Desired(plan[g].new) = {}
                       /\ plan[g].rebind <=> plan[g].tokens # {}
                       /\ stage[g] = "pushing" => ~plan[g].rebind /\ tries < Attempts
    /\ builder # None => ~alive
    /\ builder \in Edit => stage[builder] = "rebinding"
    /\ fresh # None => builder # None

\* What a superseded applier still pushes is undone by one that waits: what it adds is stale
\* for a later edit, and a token it brings is the last one or has an edit of its own.
OldPushes ==
    \A g \in Edit : stage[g] = "pushing" /\ g # generation =>
        /\ \A u \in DOMAIN Desired(plan[g].new) \ DOMAIN Desired(settings) :
              \E h \in Edit : stage[h] = "waiting" /\ u \in plan[h].stale
        /\ \A u \in Urls(settings) : settings.servers[u] # NoToken =>
              \/ u \in Urls(plan[g].new) /\ plan[g].new.servers[u] = settings.servers[u]
              \/ \E h \in Edit : stage[h] = "waiting" /\ u \in plan[h].tokens

\* The map has what the settings ask for, or the last applier brings it.
MapFollows ==
    /\ ~crossed => preferred = Urls(settings)
    /\ alive /\ ~crossed =>
          \/ \A u \in DOMAIN Desired(settings) : u \in DOMAIN relayMap /\ relayMap[u] = Desired(settings)[u]
          \/ generation \in Edit /\ WillApply(generation)

\* What is too much in the map was left by one that gave up, or there is one to remove it.
ExtrasGo ==
    alive /\ ~crossed =>
        \A u \in DOMAIN relayMap \ DOMAIN Desired(settings) :
            u \in unremoved \/ \E h \in Edit : WillApply(h) /\ u \in plan[h].stale

\* A token of the settings is in the map, and with the actor, or left by one that gave up, or
\* there is one to bring it.
TokensCome ==
    alive /\ ~crossed =>
        \A u \in Urls(settings) : settings.servers[u] # NoToken =>
            \/ /\ u \in DOMAIN relayMap /\ relayMap[u] = settings.servers[u]
               /\ actor[u] \in {None, settings.servers[u]}
            \/ u \in undelivered
            \/ \E h \in Edit : WillApply(h) /\ u \in plan[h].tokens

\* TypeOK in parts.
EditTypeOK ==
    /\ settings \in Settings /\ apply \in {"applied", "pending", "failed"}
    /\ generation \in 0 .. MaxEdits /\ tries \in 0 .. Attempts
ApplierTypeOK ==
    /\ stage \in [Edit -> {"none", "waiting", "pushing", "settling", "rebinding", "done"}]
    /\ plan \in [Edit -> Plan]
NodeTypeOK ==
    /\ builder \in Edit \union {Recovery, None} /\ fresh \in Settings \union {None}
    /\ alive \in BOOLEAN /\ relayMap \in Map /\ preferred \subseteq Url
    /\ actor \in [Url -> Token \union {NoToken, None}]
HistoryTypeOK ==
    onOld \subseteq Edit /\ crossed \in BOOLEAN /\ unremoved \subseteq Url /\ undelivered \subseteq Url
OneHolder == \A g, h \in Edit : stage[g] \in Held /\ stage[h] \in Held => g = h

Types == EditTypeOK /\ ApplierTypeOK /\ NodeTypeOK /\ HistoryTypeOK /\ OneHolder

IInv == Types /\ Orderly /\ OldPushes /\ MapFollows /\ ExtrasGo /\ TokensCome

LEMMA TypeParts == Types <=> TypeOK
BY DEF Types, TypeOK, EditTypeOK, ApplierTypeOK, NodeTypeOK, HistoryTypeOK, OneHolder, Held

LEMMA NoPlanIsEmpty == NoPlan \in Plan /\ NoPlan.stale = {} /\ NoPlan.tokens = {} /\ ~NoPlan.rebind
BY Bounds DEF NoPlan, Plan

LEMMA InitIInv == Init => IInv
<1> SUFFICES ASSUME Init PROVE IInv
  OBVIOUS
<1>1. settings \in Settings /\ Desired(settings) \in Map /\ Urls(settings) \subseteq Url
  BY DesiredMap DEF Init
<1>2. EditTypeOK /\ ApplierTypeOK
  BY <1>1, NoPlanIsEmpty, Bounds DEF EditTypeOK, ApplierTypeOK, Init
<1>3. NodeTypeOK /\ HistoryTypeOK /\ OneHolder
  BY <1>1 DEF NodeTypeOK, HistoryTypeOK, OneHolder, Held, Init
<1>4. Orderly /\ OldPushes
  BY NoPlanIsEmpty, Bounds DEF Orderly, OldPushes, Init, Held, Edit
<1>5. MapFollows /\ ExtrasGo /\ TokensCome
  BY <1>1, DesiredMap DEF MapFollows, ExtrasGo, TokensCome, Init
<1> QED BY <1>2, <1>3, <1>4, <1>5 DEF IInv, Types

-----------------------------------------------------------------------------
(***************************************************************************)
(* An edit.                                                                *)
(***************************************************************************)
\* The appliers of the earlier edits are where they were, and the new one waits.
LEMMA EditLeaves ==
    ASSUME IInv, NEW s \in Settings, SetRelaySettings(s)
    PROVE  /\ generation' \in Edit /\ generation' = generation + 1 /\ stage[generation'] = "none"
           /\ stage' \in [Edit -> {"none", "waiting", "pushing", "settling", "rebinding", "done"}]
           /\ plan' \in [Edit -> Plan]
           /\ stage'[generation'] = "waiting"
           /\ plan'[generation'].new = s /\ plan'[generation'].stale = Stale(settings, s)
           /\ plan'[generation'].tokens = TokenChanges(settings, s)
           /\ plan'[generation'].rebind <=> TokenChanges(settings, s) # {}
           /\ \A g \in Edit : g # generation' => stage'[g] = stage[g] /\ plan'[g] = plan[g]
<1>1. ApplierTypeOK /\ EditTypeOK
  BY DEF IInv, Types
<1>2. /\ generation' \in Edit /\ generation' = generation + 1 /\ stage[generation'] = "none"
      /\ \A g \in Edit : generation' # generation
  BY <1>1, Bounds DEF SetRelaySettings, EditTypeOK, Edit, IInv, Orderly
<1> DEFINE tokens == TokenChanges(settings, s)
           new == [rebind |-> tokens # {}, new |-> s, stale |-> Stale(settings, s), tokens |-> tokens]
<1>3. /\ new \in Plan /\ new.new = s /\ new.stale = Stale(settings, s) /\ new.tokens = TokenChanges(settings, s)
      /\ new.rebind <=> TokenChanges(settings, s) # {}
  <2>1. settings \in Settings /\ Stale(settings, s) \subseteq Url /\ tokens \subseteq Url
    BY <1>1, ChangesAreCovered DEF EditTypeOK
  <2> QED BY <2>1 DEF Plan
<1>4. plan' = [plan EXCEPT ![generation'] = new] /\ stage' = [stage EXCEPT ![generation'] = "waiting"]
  BY DEF SetRelaySettings
<1> HIDE DEF new
<1> QED BY <1>1, <1>2, <1>3, <1>4 DEF ApplierTypeOK

LEMMA EditStep ==
    ASSUME IInv, NEW s \in Settings, SetRelaySettings(s)
    PROVE  IInv'
<1>1. settings \in Settings /\ Types
  BY DEF IInv, Types, EditTypeOK
<1> DEFINE G == generation'
<1>2. /\ generation' \in Edit /\ generation' = generation + 1 /\ stage[generation'] = "none"
      /\ stage'[G] = "waiting" /\ plan'[G].new = s /\ plan'[G].stale = Stale(settings, s)
      /\ plan'[G].tokens = TokenChanges(settings, s)
      /\ plan'[G].rebind <=> TokenChanges(settings, s) # {}
      /\ \A g \in Edit : g # G => stage'[g] = stage[g] /\ plan'[g] = plan[g]
  BY EditLeaves
<1>3. /\ settings' = s /\ preferred' = Urls(s) /\ crossed' = (crossed \/ fresh # None)
      /\ UNCHANGED <<tries, onOld, builder, fresh, alive, relayMap, actor, unremoved, undelivered>>
  BY DEF SetRelaySettings
<1>4. /\ DOMAIN Desired(settings) \ DOMAIN Desired(s) \subseteq Stale(settings, s)
      /\ \A u \in Urls(s) \ TokenChanges(settings, s) : s.servers[u] # NoToken =>
             u \in Urls(settings) /\ settings.servers[u] = s.servers[u]
      /\ Stale(settings, s) \intersect DOMAIN Desired(s) = {}
  BY <1>1, ChangesAreCovered
<1>5. EditTypeOK' /\ ApplierTypeOK'
  <2>1. apply' = "pending" /\ generation' \in 0 .. MaxEdits
    BY <1>2 DEF SetRelaySettings, Edit
  <2>2. EditTypeOK'
    BY <1>1, <1>3, <2>1 DEF Types, EditTypeOK
  <2> QED BY <2>2, EditLeaves DEF ApplierTypeOK, Edit
<1>6. NodeTypeOK'
  BY <1>1, <1>3, DesiredMap DEF Types, NodeTypeOK, Edit
<1>7. HistoryTypeOK' /\ OneHolder'
  BY <1>1, <1>2, <1>3 DEF Types, HistoryTypeOK, OneHolder, Held, Edit
<1>8. Orderly'
  <2>1. \A g \in Edit : g > generation' => stage'[g] = "none"
    BY <1>1, <1>2, Bounds DEF Types, IInv, Orderly, EditTypeOK
  <2>2. builder \in Edit => stage'[builder] = "rebinding"
    BY <1>2 DEF IInv, Orderly
  <2> QED BY <1>2, <1>3, <1>4, <2>1, <2>2 DEF IInv, Orderly, Held, Edit
<1>9. OldPushes'
  <2> SUFFICES ASSUME NEW g \in Edit, stage'[g] = "pushing", g # G
               PROVE  /\ \A u \in DOMAIN Desired(plan[g].new) \ DOMAIN Desired(s) :
                             \E h \in Edit : stage'[h] = "waiting" /\ u \in plan'[h].stale
                      /\ \A u \in Urls(s) : s.servers[u] # NoToken =>
                             \/ u \in Urls(plan[g].new) /\ plan[g].new.servers[u] = s.servers[u]
                             \/ \E h \in Edit : stage'[h] = "waiting" /\ u \in plan'[h].tokens
    BY <1>2, <1>3 DEF OldPushes, Edit
  <2>1. \A h \in Edit : stage[h] = "waiting" => stage'[h] = "waiting" /\ plan'[h] = plan[h]
    BY <1>2
  <2>2. CASE g = generation
    BY <1>2, <1>4, <2>1, <2>2 DEF IInv, Orderly, Held
  <2>3. CASE g # generation
    BY <1>2, <1>4, <2>1, <2>3 DEF IInv, OldPushes
  <2> QED BY <2>2, <2>3
<1>10. \A h \in Edit : WillApply(h) => h # G /\ WillApply(h)' /\ plan'[h] = plan[h]
  BY <1>2, <1>3 DEF WillApply, Edit
<1>11. WillApply(generation)'
  BY <1>2 DEF WillApply
<1>12. MapFollows'
  BY <1>2, <1>3, <1>11 DEF MapFollows, Edit
<1>13. ExtrasGo'
  <2> SUFFICES ASSUME alive, ~crossed, NEW u \in DOMAIN relayMap \ DOMAIN Desired(s), u \notin unremoved
               PROVE  \E h \in Edit : WillApply(h)' /\ u \in plan'[h].stale
    BY <1>3 DEF ExtrasGo, Edit
  <2>1. CASE u \in DOMAIN Desired(settings)
    BY <1>2, <1>4, <2>1 DEF WillApply
  <2>2. CASE u \notin DOMAIN Desired(settings)
    BY <1>10, <2>2 DEF IInv, ExtrasGo
  <2> QED BY <2>1, <2>2
<1>14. TokensCome'
  <2> SUFFICES ASSUME alive, ~crossed, NEW u \in Urls(s), s.servers[u] # NoToken, u \notin undelivered,
                      ~(/\ u \in DOMAIN relayMap /\ relayMap[u] = s.servers[u]
                        /\ actor[u] \in {None, s.servers[u]})
               PROVE  \E h \in Edit : WillApply(h)' /\ u \in plan'[h].tokens
    BY <1>3 DEF TokensCome, Edit
  <2>1. CASE u \in TokenChanges(settings, s)
    BY <1>2, <2>1 DEF WillApply
  <2>2. CASE u \notin TokenChanges(settings, s)
    BY <1>4, <1>10, <2>2 DEF IInv, TokensCome
  <2> QED BY <2>1, <2>2
<1> QED BY <1>5, <1>6, <1>7, <1>8, <1>9, <1>12, <1>13, <1>14 DEF IInv, Types

-----------------------------------------------------------------------------
(***************************************************************************)
(* The appliers.                                                           *)
(***************************************************************************)
LEMMA EndsLeaves ==
    ASSUME ApplierTypeOK, NEW g \in Edit, Ends(g)
    PROVE  /\ ApplierTypeOK'
           /\ stage'[g] = "done" /\ plan'[g] = NoPlan
           /\ \A h \in Edit : h # g => stage'[h] = stage[h] /\ plan'[h] = plan[h]
BY NoPlanIsEmpty DEF ApplierTypeOK, Ends, Edit

\* The order of the appliers, and what the superseded ones still push, when one moves on or ends.
LEMMA ApplierMoves ==
    ASSUME IInv, NEW g \in Edit,
           UNCHANGED <<settings, generation, builder, fresh, alive>>,
           \A h \in Edit : h # g => stage'[h] = stage[h] /\ plan'[h] = plan[h],
           \/ plan'[g] = plan[g] /\ stage'[g] \in Held
           \/ plan'[g] = NoPlan /\ stage'[g] = "done",
           stage[g] \in {"waiting", "pushing", "settling"}, stage[g] = "waiting" => LockFree,
           g # generation /\ stage'[g] \in Held => stage[g] = "pushing",
           stage'[g] = "pushing" => ~plan[g].rebind /\ tries' < Attempts
    PROVE  OneHolder' /\ Orderly' /\ OldPushes'
<1>1. \A h \in Edit : stage[h] \in Held /\ h # g => FALSE
  BY DEF LockFree, Held, IInv, Types, OneHolder
<1>2. OneHolder'
  BY <1>1 DEF OneHolder, Edit
<1>3. Orderly'
  <2>1. \A h \in Edit : h > generation => stage'[h] = "none"
    BY DEF IInv, Orderly
  <2>2. \A h \in Edit : stage'[h] \in Held /\ h # generation => stage'[generation] = "waiting"
    <3> SUFFICES ASSUME stage'[g] \in Held, g # generation PROVE stage'[generation] = "waiting"
      BY <1>1
    <3>1. generation \in Edit /\ stage[generation] = "waiting"
      BY Bounds DEF IInv, Orderly, Held, Types, EditTypeOK, Edit
    <3> QED BY <3>1
  <2>3. generation \in Edit /\ stage'[generation] \in {"waiting"} \union Held
           => plan'[generation].new = settings
    BY DEF IInv, Orderly, Held
  <2>4. \A h \in Edit : /\ plan'[h].stale \intersect DOMAIN Desired(plan'[h].new) = {}
                        /\ plan'[h].rebind <=> plan'[h].tokens # {}
                        /\ stage'[h] = "pushing" => ~plan'[h].rebind /\ tries' < Attempts
    BY <1>1, NoPlanIsEmpty DEF IInv, Orderly, Held
  <2>5. builder \in Edit => stage'[builder] = "rebinding"
    BY DEF IInv, Orderly
  <2>6. /\ builder # None => ~alive
        /\ fresh # None => builder # None
    BY DEF IInv, Orderly
  <2> QED BY <2>1, <2>2, <2>3, <2>4, <2>5, <2>6 DEF Orderly, Held, Edit
<1>4. OldPushes'
  <2> SUFFICES ASSUME NEW h \in Edit, stage'[h] = "pushing", h # generation
               PROVE  /\ plan'[h] = plan[h] /\ stage[h] = "pushing"
                      /\ \A i \in Edit : stage[i] = "waiting" => stage'[i] = "waiting" /\ plan'[i] = plan[i]
    BY DEF IInv, OldPushes, Edit
  <2>1. h = g
    BY <1>1 DEF Held
  <2>2. stage[g] = "pushing" /\ plan'[g] = plan[g]
    BY <2>1 DEF Held
  <2> QED BY <2>1, <2>2
<1> QED BY <1>2, <1>3, <1>4

\* A step that leaves the node, and takes no work from an applier that had it.
LEMMA NodeIsLeft ==
    ASSUME IInv, UNCHANGED <<settings, generation, node, crossed>>,
           unremoved \subseteq unremoved', undelivered \subseteq undelivered',
           \A h \in Edit : WillApply(h) =>
               \/ WillApply(h)' /\ plan'[h] = plan[h]
               \/ h # generation /\ plan[h].stale \subseteq unremoved' /\ plan[h].tokens \subseteq undelivered'
    PROVE  MapFollows' /\ ExtrasGo' /\ TokensCome'
<1>1. UNCHANGED <<alive, relayMap, preferred, actor>>
  BY DEF node
<1>2. MapFollows'
  BY <1>1 DEF IInv, MapFollows, Edit
<1>3. ExtrasGo'
  BY <1>1 DEF IInv, ExtrasGo, Edit
<1>4. TokensCome'
  BY <1>1 DEF IInv, TokensCome, Edit
<1> QED BY <1>2, <1>3, <1>4

LEMMA GiveUpStep ==
    ASSUME IInv, NEW g \in Edit, GiveUp(g)
    PROVE  IInv'
<1>1. /\ stage[g] = "waiting" /\ LockFree /\ g # generation
      /\ unremoved' = unremoved \union plan[g].stale /\ undelivered' = undelivered \union plan[g].tokens
      /\ UNCHANGED <<settings, apply, generation, tries, onOld, builder, fresh, node, crossed>>
  BY DEF GiveUp, Superseded
<1>2. /\ ApplierTypeOK' /\ stage'[g] = "done" /\ plan'[g] = NoPlan
      /\ \A h \in Edit : h # g => stage'[h] = stage[h] /\ plan'[h] = plan[h]
  BY EndsLeaves DEF GiveUp, IInv, Types
<1>3. EditTypeOK' /\ NodeTypeOK'
  BY <1>1 DEF IInv, Types, EditTypeOK, NodeTypeOK, node, Edit
<1>4. HistoryTypeOK'
  <2>1. plan[g].stale \subseteq Url /\ plan[g].tokens \subseteq Url
    BY DEF IInv, Types, ApplierTypeOK, Plan
  <2> QED BY <1>1, <2>1 DEF IInv, Types, HistoryTypeOK, Edit
<1>5. OneHolder' /\ Orderly' /\ OldPushes'
  BY <1>1, <1>2, ApplierMoves DEF node, Held
<1>6. MapFollows' /\ ExtrasGo' /\ TokensCome'
  <2>1. \A h \in Edit : h # g /\ WillApply(h) => WillApply(h)' /\ plan'[h] = plan[h]
    BY <1>1, <1>2 DEF WillApply
  <2> QED BY <1>1, <2>1, NodeIsLeft
<1> QED BY <1>2, <1>3, <1>4, <1>5, <1>6 DEF IInv, Types

LEMMA BeginStep ==
    ASSUME IInv, NEW g \in Edit, Begin(g)
    PROVE  IInv'
<1>1. /\ stage[g] = "waiting" /\ LockFree /\ g = generation
      /\ tries' = 0 /\ onOld' = onOld \ {g}
      /\ UNCHANGED <<settings, apply, generation, plan, builder, fresh, node, history>>
  BY DEF Begin, Superseded
<1>2. /\ ApplierTypeOK' /\ stage'[g] = IF plan[g].rebind THEN "rebinding" ELSE "pushing"
      /\ \A h \in Edit : h # g => stage'[h] = stage[h]
  BY <1>1 DEF Begin, IInv, Types, ApplierTypeOK, Edit, Plan
<1>3. EditTypeOK' /\ NodeTypeOK' /\ HistoryTypeOK'
  BY <1>1, Bounds DEF IInv, Types, EditTypeOK, NodeTypeOK, HistoryTypeOK, node, history, Edit
<1>4. OneHolder' /\ Orderly' /\ OldPushes'
  BY <1>1, <1>2, ApplierMoves, Bounds DEF node, Held
<1>5. MapFollows' /\ ExtrasGo' /\ TokensCome'
  <2>1. \A h \in Edit : WillApply(h) => WillApply(h)' /\ plan'[h] = plan[h]
    BY <1>1, <1>2 DEF WillApply
  <2> QED BY <1>1, <2>1, NodeIsLeft DEF history
<1> QED BY <1>2, <1>3, <1>4, <1>5 DEF IInv, Types

LEMMA SettleStep ==
    ASSUME IInv, NEW g \in Edit, Settle(g)
    PROVE  IInv'
<1>1. /\ stage[g] = "settling" /\ apply' \in {apply, "applied", "failed"}
      /\ UNCHANGED <<settings, generation, tries, onOld, builder, fresh, node, history>>
  BY DEF Settle
<1>2. /\ ApplierTypeOK' /\ stage'[g] = "done" /\ plan'[g] = NoPlan
      /\ \A h \in Edit : h # g => stage'[h] = stage[h] /\ plan'[h] = plan[h]
  BY EndsLeaves DEF Settle, IInv, Types
<1>3. EditTypeOK' /\ NodeTypeOK' /\ HistoryTypeOK'
  BY <1>1 DEF IInv, Types, EditTypeOK, NodeTypeOK, HistoryTypeOK, node, history, Edit
<1>4. OneHolder' /\ Orderly' /\ OldPushes'
  BY <1>1, <1>2, ApplierMoves DEF node, Held
<1>5. MapFollows' /\ ExtrasGo' /\ TokensCome'
  <2>1. \A h \in Edit : WillApply(h) => WillApply(h)' /\ plan'[h] = plan[h]
    BY <1>1, <1>2 DEF WillApply
  <2> QED BY <1>1, <2>1, NodeIsLeft DEF history
<1> QED BY <1>2, <1>3, <1>4, <1>5 DEF IInv, Types

\* The last applier makes the map what the settings ask for; an earlier one adds to it only what
\* an applier that waits takes away again.
LEMMA MapAfterPush ==
    ASSUME IInv, NEW g \in Edit, stage[g] = "pushing", g \notin onOld, Pushed(g)
    PROVE  /\ g = generation => \A u \in DOMAIN Desired(settings) :
                  u \in DOMAIN relayMap' /\ relayMap'[u] = Desired(settings)[u]
           /\ \A u \in DOMAIN relayMap' \ DOMAIN Desired(settings) :
                  \/ u \in DOMAIN relayMap /\ u \notin plan[g].stale
                     /\ (u \in unremoved => u \in unremoved')
                  \/ \E h \in Edit : stage[h] = "waiting" /\ u \in plan[h].stale
           /\ \A u \in Urls(settings) : settings.servers[u] # NoToken =>
                  \/ u \in DOMAIN relayMap' /\ relayMap'[u] = settings.servers[u]
                  \/ \E h \in Edit : stage[h] = "waiting" /\ u \in plan[h].tokens
<1> DEFINE want == Desired(plan[g].new)
<1>1. settings \in Settings /\ plan[g].new \in Settings /\ TypeOK
  BY TypeParts DEF IInv, Types, EditTypeOK, ApplierTypeOK, Plan
<1>2. /\ DOMAIN relayMap' = (DOMAIN relayMap \union DOMAIN want) \ plan[g].stale
      /\ \A u \in DOMAIN relayMap' : relayMap'[u] = IF u \in DOMAIN want THEN want[u] ELSE relayMap[u]
      /\ unremoved' = unremoved \ (plan[g].stale \union DOMAIN want)
  BY <1>1, PushedMap
<1>3. plan[g].stale \intersect DOMAIN want = {}
  BY DEF IInv, Orderly
<1>4. \A u \in DOMAIN want : u \in DOMAIN relayMap' /\ relayMap'[u] = want[u]
  BY <1>2, <1>3
<1>5. g = generation => plan[g].new = settings
  BY DEF IInv, Orderly, Held
<1>6. \A s \in Settings : Urls(s) \subseteq DOMAIN Desired(s) /\ \A u \in Urls(s) : Desired(s)[u] = s.servers[u]
  BY DesiredMap
<1> HIDE DEF want
<1>7. CASE g = generation
  <2>1. want = Desired(settings)
    BY <1>5, <1>7 DEF want
  <2> QED BY <1>1, <1>2, <1>4, <1>6, <2>1
<1>8. CASE g # generation
  <2>1. /\ \A u \in DOMAIN want \ DOMAIN Desired(settings) :
               \E h \in Edit : stage[h] = "waiting" /\ u \in plan[h].stale
        /\ \A u \in Urls(settings) : settings.servers[u] # NoToken =>
               \/ u \in Urls(plan[g].new) /\ plan[g].new.servers[u] = settings.servers[u]
               \/ \E h \in Edit : stage[h] = "waiting" /\ u \in plan[h].tokens
    BY <1>8 DEF IInv, OldPushes, want
  <2>2. \A u \in Urls(plan[g].new) : u \in DOMAIN want /\ want[u] = plan[g].new.servers[u]
    BY <1>1, <1>6 DEF want
  <2> QED BY <1>2, <1>4, <1>8, <2>1, <2>2
<1> QED BY <1>7, <1>8

LEMMA PushStep ==
    ASSUME IInv, NEW g \in Edit, PushAcknowledged(g) \/ PushStuck(g)
    PROVE  IInv'
<1>1. /\ stage[g] = "pushing" /\ Pushed(g)
      /\ UNCHANGED <<settings, generation, onOld, builder, fresh, alive, preferred, actor, crossed, undelivered>>
  BY DEF PushAcknowledged, PushStuck
<1>2. ~plan[g].rebind /\ plan[g].tokens = {}
  BY <1>1 DEF IInv, Orderly
<1>3. /\ ApplierTypeOK'
      /\ \/ plan'[g] = plan[g] /\ stage'[g] \in Held
         \/ plan'[g] = NoPlan /\ stage'[g] = "done"
      /\ \A h \in Edit : h # g => stage'[h] = stage[h] /\ plan'[h] = plan[h]
  <2>1. CASE PushAcknowledged(g)
    BY <1>1, <2>1 DEF PushAcknowledged, IInv, Types, ApplierTypeOK, Held, Edit
  <2>2. CASE PushStuck(g) /\ Ends(g)
    BY <2>2, EndsLeaves DEF IInv, Types
  <2>3. CASE PushStuck(g) /\ UNCHANGED <<stage, plan>>
    BY <1>1, <2>3 DEF IInv, Types, ApplierTypeOK, Held, Edit
  <2> QED BY <2>1, <2>2, <2>3 DEF PushStuck
<1>4. EditTypeOK'
  <2>1. apply' \in {apply, "failed"} /\ tries' \in 0 .. Attempts
    BY <1>1, Bounds DEF PushAcknowledged, PushStuck, IInv, Types, EditTypeOK, Orderly
  <2> QED BY <1>1, <2>1 DEF IInv, Types, EditTypeOK
<1>5. NodeTypeOK' /\ HistoryTypeOK'
  BY <1>1, PushedMap, TypeParts DEF IInv, Types, NodeTypeOK, HistoryTypeOK, Edit
<1>6. OneHolder' /\ Orderly' /\ OldPushes'
  <2>1. stage'[g] = "pushing" => tries' < Attempts
    <3>1. Ends(g) => stage'[g] = "done"
      BY EndsLeaves DEF IInv, Types
    <3>2. tries \in 0 .. Attempts /\ tries < Attempts
      BY <1>1 DEF IInv, Types, EditTypeOK, Orderly
    <3>3. PushAcknowledged(g) => stage'[g] = "settling"
      BY DEF PushAcknowledged, IInv, Types, ApplierTypeOK
    <3> QED BY <3>1, <3>2, <3>3, Bounds DEF PushStuck
  <2> QED BY <1>1, <1>2, <1>3, <2>1, ApplierMoves
<1>7. CASE g \in onOld
  <2>1. UNCHANGED <<node, unremoved>>
    BY <1>1, <1>7 DEF Pushed, node
  <2>2. \A h \in Edit : WillApply(h) => WillApply(h)' /\ plan'[h] = plan[h]
    BY <1>1, <1>3, <1>7 DEF WillApply
  <2> QED BY <1>1, <1>3, <1>4, <1>5, <1>6, <2>1, <2>2, NodeIsLeft DEF IInv, Types
<1>8. CASE g \notin onOld
  <2>1. \A h \in Edit : h # g /\ WillApply(h) => WillApply(h)' /\ plan'[h] = plan[h]
    BY <1>1, <1>3 DEF WillApply
  <2>2. \A h \in Edit : stage[h] = "waiting" => WillApply(h) /\ h # g
    BY <1>1 DEF WillApply
  <2>3. MapFollows'
    <3>1. g # generation => generation \in Edit /\ stage[generation] = "waiting"
      BY <1>1, Bounds DEF IInv, Types, EditTypeOK, Orderly, Held, Edit
    <3>2. g # generation => generation \in Edit /\ WillApply(generation)'
      BY <1>1, <1>3, <3>1 DEF WillApply
    <3> QED BY <1>1, <1>8, <3>2, MapAfterPush DEF IInv, MapFollows, Edit
  <2>4. ExtrasGo'
    <3> SUFFICES ASSUME alive, ~crossed, NEW u \in DOMAIN relayMap' \ DOMAIN Desired(settings), u \notin unremoved'
                 PROVE  \E h \in Edit : WillApply(h)' /\ u \in plan'[h].stale
      BY <1>1 DEF ExtrasGo, Edit
    <3>1. \/ u \in DOMAIN relayMap /\ u \notin plan[g].stale /\ u \notin unremoved
          \/ \E h \in Edit : stage[h] = "waiting" /\ u \in plan[h].stale
      BY <1>1, <1>8, MapAfterPush
    <3>2. \E h \in Edit : h # g /\ WillApply(h) /\ u \in plan[h].stale
      BY <2>2, <3>1 DEF IInv, ExtrasGo
    <3> QED BY <2>1, <3>2
  <2>5. TokensCome'
    <3> SUFFICES ASSUME alive, ~crossed, NEW u \in Urls(settings), settings.servers[u] # NoToken,
                        u \notin undelivered,
                        ~(/\ u \in DOMAIN relayMap' /\ relayMap'[u] = settings.servers[u]
                          /\ actor[u] \in {None, settings.servers[u]})
                 PROVE  \E h \in Edit : WillApply(h)' /\ u \in plan'[h].tokens
      BY <1>1 DEF TokensCome, Edit
    <3>1. \E h \in Edit : WillApply(h) /\ u \in plan[h].tokens
      BY <1>1, <1>8, <2>2, MapAfterPush DEF IInv, TokensCome
    <3>2. \E h \in Edit : h # g /\ WillApply(h) /\ u \in plan[h].tokens
      BY <1>2, <3>1
    <3> QED BY <2>1, <3>2
  <2> QED BY <1>3, <1>4, <1>5, <1>6, <2>3, <2>4, <2>5 DEF IInv, Types
<1> QED BY <1>7, <1>8

-----------------------------------------------------------------------------
(***************************************************************************)
(* The node.                                                               *)
(***************************************************************************)
\* Nothing is asked of the map of a node that is closed.
LEMMA Closed ==
    ASSUME ~alive', UNCHANGED <<settings, preferred, crossed>>, MapFollows
    PROVE  MapFollows' /\ ExtrasGo' /\ TokensCome'
BY DEF MapFollows, ExtrasGo, TokensCome

LEMMA RebuildCloseStep ==
    ASSUME IInv, NEW w \in Edit \union {Recovery}, RebuildClose(w)
    PROVE  IInv'
<1>1. /\ builder = None /\ (w # Recovery => stage[w] = "rebinding") /\ builder' = w /\ alive' = FALSE
      /\ UNCHANGED <<settings, apply, generation, stage, plan, tries, onOld, fresh,
                     relayMap, preferred, actor, history>>
  BY DEF RebuildClose
<1>2. EditTypeOK' /\ ApplierTypeOK' /\ OneHolder'
  BY <1>1 DEF IInv, Types, EditTypeOK, ApplierTypeOK, OneHolder, Edit
<1>3. NodeTypeOK' /\ HistoryTypeOK'
  BY <1>1 DEF IInv, Types, NodeTypeOK, HistoryTypeOK, history, Edit
<1>4. Orderly'
  BY <1>1, Bounds DEF IInv, Orderly, Edit
<1>5. OldPushes'
  BY <1>1 DEF IInv, OldPushes, Edit
<1>6. MapFollows' /\ ExtrasGo' /\ TokensCome'
  BY <1>1, Closed DEF IInv, history
<1> QED BY <1>2, <1>3, <1>4, <1>5, <1>6 DEF IInv, Types

LEMMA RebuildReadStep ==
    ASSUME IInv, RebuildRead
    PROVE  IInv'
<1>1. /\ builder # None /\ fresh' = settings
      /\ UNCHANGED <<settings, apply, generation, stage, plan, tries, onOld, builder, node, history>>
  BY DEF RebuildRead
<1>2. EditTypeOK' /\ ApplierTypeOK' /\ OneHolder'
  BY <1>1 DEF IInv, Types, EditTypeOK, ApplierTypeOK, OneHolder, Edit
<1>3. NodeTypeOK' /\ HistoryTypeOK'
  BY <1>1 DEF IInv, Types, EditTypeOK, NodeTypeOK, HistoryTypeOK, history, node, Edit
<1>4. Orderly'
  BY <1>1, Bounds DEF IInv, Orderly, Edit, node
<1>5. OldPushes'
  BY <1>1 DEF IInv, OldPushes, Edit
<1>6. MapFollows' /\ ExtrasGo' /\ TokensCome'
  BY <1>1, Closed DEF IInv, Orderly, history, node
<1> QED BY <1>2, <1>3, <1>4, <1>5, <1>6 DEF IInv, Types

\* A rebuild ends, and the applier it was for.
LEMMA RebuildEndsLeaves ==
    ASSUME IInv, builder # None, NEW result \in {"applied", "failed"}, RebuildEnds(result),
           UNCHANGED <<settings, generation, tries>>
    PROVE  /\ builder' = None /\ fresh' = None
           /\ EditTypeOK' /\ ApplierTypeOK' /\ OneHolder' /\ Orderly'
           /\ \A h \in Edit : \/ stage'[h] = stage[h] /\ plan'[h] = plan[h]
                              \/ stage[h] = "rebinding" /\ stage'[h] = "done" /\ plan'[h] = NoPlan
<1>1. builder' = None /\ fresh' = None /\ apply' \in {apply, "applied", "failed"}
  BY DEF RebuildEnds
<1>2. EditTypeOK'
  BY <1>1 DEF IInv, Types, EditTypeOK
<1>3. /\ ApplierTypeOK'
      /\ \A h \in Edit : \/ stage'[h] = stage[h] /\ plan'[h] = plan[h]
                         \/ stage[h] = "rebinding" /\ stage'[h] = "done" /\ plan'[h] = NoPlan
  <2>1. CASE builder = Recovery
    BY <2>1 DEF RebuildEnds, IInv, Types, ApplierTypeOK, Edit
  <2>2. CASE builder # Recovery
    <3>1. builder \in Edit /\ Ends(builder) /\ stage[builder] = "rebinding"
      BY <2>2 DEF RebuildEnds, IInv, Types, NodeTypeOK, Orderly
    <3> QED BY <3>1, EndsLeaves DEF IInv, Types
  <2> QED BY <2>1, <2>2
<1>4. OneHolder'
  BY <1>3 DEF IInv, Types, OneHolder, Held, Edit
<1>5. Orderly'
  <2>1. \A g \in Edit : g > generation => stage'[g] = "none"
    BY <1>3 DEF IInv, Orderly
  <2>2. \A g \in Edit : stage'[g] \in Held /\ g # generation => stage'[generation] = "waiting"
    <3> SUFFICES ASSUME NEW g \in Edit, stage'[g] \in Held, g # generation
                 PROVE  stage'[generation] = "waiting"
      OBVIOUS
    <3>1. stage[g] \in Held /\ stage[generation] = "waiting" /\ generation \in Edit
      BY <1>3, Bounds DEF IInv, Types, EditTypeOK, Orderly, Held, Edit
    <3> QED BY <1>3, <3>1
  <2>3. generation \in Edit /\ stage'[generation] \in {"waiting"} \union Held
           => plan'[generation].new = settings
    BY <1>3 DEF IInv, Orderly, Held
  <2>4. \A h \in Edit : /\ plan'[h].stale \intersect DOMAIN Desired(plan'[h].new) = {}
                        /\ plan'[h].rebind <=> plan'[h].tokens # {}
                        /\ stage'[h] = "pushing" => ~plan'[h].rebind /\ tries < Attempts
    BY <1>3, NoPlanIsEmpty DEF IInv, Orderly
  <2> QED BY <1>1, <2>1, <2>2, <2>3, <2>4, Bounds DEF Orderly, Held, Edit
<1> QED BY <1>1, <1>2, <1>3, <1>4, <1>5

LEMMA EndOldPushes ==
    ASSUME IInv, UNCHANGED <<settings, generation>>,
           \A h \in Edit : \/ stage'[h] = stage[h] /\ plan'[h] = plan[h]
                           \/ stage[h] = "rebinding" /\ stage'[h] = "done" /\ plan'[h] = NoPlan
    PROVE  OldPushes'
<1>1. \A h \in Edit : stage[h] = "waiting" => stage'[h] = "waiting" /\ plan'[h] = plan[h]
  OBVIOUS
<1>2. \A h \in Edit : stage'[h] = "pushing" => stage[h] = "pushing" /\ plan'[h] = plan[h]
  OBVIOUS
<1> QED BY <1>1, <1>2 DEF IInv, OldPushes, Edit

LEMMA RebuildFailsStep ==
    ASSUME IInv, RebuildFails
    PROVE  IInv'
<1>1. /\ builder # None /\ RebuildEnds("failed")
      /\ UNCHANGED <<settings, generation, tries, onOld, node, history>>
  BY DEF RebuildFails
<1>2. /\ builder' = None /\ fresh' = None
      /\ EditTypeOK' /\ ApplierTypeOK' /\ OneHolder' /\ Orderly' /\ OldPushes'
  BY <1>1, RebuildEndsLeaves, EndOldPushes
<1>3. NodeTypeOK' /\ HistoryTypeOK'
  BY <1>1, <1>2 DEF IInv, Types, NodeTypeOK, HistoryTypeOK, node, history, Edit
<1>4. MapFollows' /\ ExtrasGo' /\ TokensCome'
  BY <1>1, Closed DEF IInv, Orderly, history, node
<1> QED BY <1>2, <1>3, <1>4 DEF IInv, Types

\* A node has the map and the preference of the settings it was bound with.
LEMMA NewNode ==
    ASSUME settings \in Settings, UNCHANGED settings,
           ~crossed' => /\ relayMap' = Desired(settings) /\ preferred' = Urls(settings)
                        /\ actor' = [u \in Url |-> None]
    PROVE  MapFollows' /\ ExtrasGo' /\ TokensCome'
<1>1. /\ \A u \in Urls(settings) : u \in Url /\ u \in DOMAIN Desired(settings)
      /\ \A u \in Urls(settings) : Desired(settings)[u] = settings.servers[u]
  BY DesiredMap
<1>2. MapFollows' /\ ExtrasGo'
  BY DEF MapFollows, ExtrasGo
<1>3. TokensCome'
  BY <1>1 DEF TokensCome
<1> QED BY <1>2, <1>3

LEMMA RebuildInstallStep ==
    ASSUME IInv, RebuildInstall
    PROVE  IInv'
<1>1. /\ fresh # None /\ RebuildEnds("applied") /\ alive' = TRUE
      /\ relayMap' = Desired(fresh) /\ preferred' = Urls(fresh) /\ actor' = [u \in Url |-> None]
      /\ onOld' = {g \in Edit : stage[g] = "pushing"} /\ crossed' = (fresh # settings)
      /\ unremoved' = {} /\ undelivered' = {}
      /\ UNCHANGED <<settings, generation, tries>>
  BY DEF RebuildInstall
<1>2. builder # None /\ fresh \in Settings /\ settings \in Settings
  BY <1>1 DEF IInv, Orderly, Types, NodeTypeOK, EditTypeOK
<1>3. /\ builder' = None /\ fresh' = None
      /\ EditTypeOK' /\ ApplierTypeOK' /\ OneHolder' /\ Orderly' /\ OldPushes'
  BY <1>1, <1>2, RebuildEndsLeaves, EndOldPushes
<1>4. NodeTypeOK' /\ HistoryTypeOK'
  BY <1>1, <1>2, <1>3, DesiredMap DEF NodeTypeOK, HistoryTypeOK, Edit
<1>5. MapFollows' /\ ExtrasGo' /\ TokensCome'
  BY <1>1, <1>2, NewNode
<1> QED BY <1>3, <1>4, <1>5 DEF IInv, Types

LEMMA RestartStep ==
    ASSUME IInv, Restart
    PROVE  IInv'
<1>1. /\ apply' = "applied" /\ plan' = [g \in Edit |-> NoPlan]
      /\ stage' = [g \in Edit |-> IF stage[g] = "none" THEN "none" ELSE "done"]
      /\ tries' = 0 /\ onOld' = {} /\ builder' = None /\ fresh' = None /\ alive' = TRUE
      /\ relayMap' = Desired(settings) /\ preferred' = Urls(settings) /\ actor' = [u \in Url |-> None]
      /\ crossed' = FALSE /\ unremoved' = {} /\ undelivered' = {}
      /\ UNCHANGED <<settings, generation>>
  BY DEF Restart
<1>2. settings \in Settings
  BY DEF IInv, Types, EditTypeOK
<1>3. EditTypeOK' /\ ApplierTypeOK'
  BY <1>1, NoPlanIsEmpty, Bounds DEF IInv, Types, EditTypeOK, ApplierTypeOK, Edit
<1>4. NodeTypeOK' /\ HistoryTypeOK'
  BY <1>1, <1>2, DesiredMap DEF NodeTypeOK, HistoryTypeOK, Edit
<1>5. OneHolder' /\ Orderly' /\ OldPushes'
  <2>1. \A g \in Edit : stage'[g] \in {"none", "done"} /\ (stage[g] = "none" => stage'[g] = "none") /\ plan'[g] = NoPlan
    BY <1>1
  <2>2. OneHolder' /\ OldPushes'
    BY <2>1 DEF OneHolder, OldPushes, Held, Edit
  <2>3. Orderly'
    BY <1>1, <2>1, NoPlanIsEmpty, Bounds DEF IInv, Orderly, Held, Edit
  <2> QED BY <2>2, <2>3
<1>6. MapFollows' /\ ExtrasGo' /\ TokensCome'
  BY <1>1, <1>2, NewNode
<1> QED BY <1>3, <1>4, <1>5, <1>6 DEF IInv, Types

LEMMA ActorStep ==
    ASSUME IInv, NEW u \in Url, ActorStarts(u) \/ ActorExits(u)
    PROVE  IInv'
<1>1. UNCHANGED <<settings, apply, generation, stage, plan, tries, onOld, builder, fresh,
                  alive, relayMap, preferred, history>>
  BY DEF ActorStarts, ActorExits
<1>2. /\ actor' \in [Url -> Token \union {NoToken, None}]
      /\ \A v \in Url : \/ actor'[v] = actor[v] \/ actor'[v] = None
                        \/ v \in DOMAIN relayMap /\ actor'[v] = relayMap[v]
                        \/ v \notin DOMAIN relayMap
  <2>1. \A v \in DOMAIN relayMap : relayMap[v] \in Token \union {NoToken}
    BY MapTypes DEF IInv, Types, NodeTypeOK
  <2> QED BY <2>1 DEF ActorStarts, ActorExits, IInv, Types, NodeTypeOK
<1>3. EditTypeOK' /\ ApplierTypeOK' /\ OneHolder'
  BY <1>1 DEF IInv, Types, EditTypeOK, ApplierTypeOK, OneHolder, Edit
<1>4. NodeTypeOK' /\ HistoryTypeOK'
  BY <1>1, <1>2 DEF IInv, Types, NodeTypeOK, HistoryTypeOK, history, Edit
<1>5. Orderly' /\ OldPushes' /\ MapFollows' /\ ExtrasGo'
  BY <1>1 DEF IInv, Orderly, OldPushes, MapFollows, ExtrasGo, WillApply, history, Edit
<1>6. TokensCome'
  <2>1. \A v \in Urls(settings) : v \in Url
    BY DesiredMap DEF IInv, Types, EditTypeOK
  <2>2. \A h \in Edit : WillApply(h) => WillApply(h)'
    BY <1>1 DEF WillApply
  <2> QED BY <1>1, <1>2, <2>1, <2>2 DEF IInv, TokensCome, history, Edit
<1> QED BY <1>3, <1>4, <1>5, <1>6 DEF IInv, Types

-----------------------------------------------------------------------------
LEMMA IInvStep == IInv /\ [Next]_vars => IInv'
<1> SUFFICES ASSUME IInv, [Next]_vars PROVE IInv'
  OBVIOUS
<1>1. ASSUME NEW s \in Settings, SetRelaySettings(s) PROVE IInv'
  BY <1>1, EditStep
<1>2. ASSUME NEW g \in Edit, Applier(g) PROVE IInv'
  BY <1>2, GiveUpStep, BeginStep, PushStep, SettleStep DEF Applier
<1>3. ASSUME NEW w \in Edit \union {Recovery}, RebuildClose(w) PROVE IInv'
  BY <1>3, RebuildCloseStep
<1>4. CASE RebuildStep
  BY <1>4, RebuildReadStep, RebuildInstallStep, RebuildFailsStep DEF RebuildStep
<1>5. ASSUME NEW u \in Url, ActorStarts(u) \/ ActorExits(u) PROVE IInv'
  BY <1>5, ActorStep
<1>6. CASE Restart
  BY <1>6, RestartStep
<1>7. CASE UNCHANGED vars
  <2>1. UNCHANGED <<settings, apply, generation, stage, plan, tries, onOld, builder, fresh,
                    alive, relayMap, preferred, actor, crossed, unremoved, undelivered>>
    BY <1>7 DEF vars, node, history
  <2>2. Types'
    BY <2>1 DEF IInv, Types, EditTypeOK, ApplierTypeOK, NodeTypeOK, HistoryTypeOK, OneHolder, Edit
  <2>3. Orderly' /\ OldPushes' /\ MapFollows' /\ ExtrasGo' /\ TokensCome'
    BY <2>1 DEF IInv, Orderly, OldPushes, MapFollows, ExtrasGo, TokensCome, WillApply, Edit
  <2> QED BY <2>2, <2>3 DEF IInv
<1> QED BY <1>1, <1>2, <1>3, <1>4, <1>5, <1>6, <1>7 DEF Next

LEMMA Invariance == Spec => []IInv
BY InitIInv, IInvStep, PTL DEF Spec

\* Every variable has its type, and one applier at a time holds relay_apply_lock.
THEOREM TypeCorrect == Spec => []TypeOK
<1>1. IInv => TypeOK
  BY TypeParts DEF IInv
<1> QED BY <1>1, Invariance, PTL

\* Nobody is at work any more.
LEMMA NobodyWillApply ==
    ASSUME Serving
    PROVE  alive /\ ~crossed /\ \A g \in Edit : ~WillApply(g)
BY DEF Serving, AtRest, WillApply

\* Whatever appliers were given up, cut short or failed, and however often the node was replaced
\* meanwhile: when all is at rest, the last edit's relays are in the map with their tokens, and
\* the path selector prefers the user's own (engine.rs: apply_relay_map; relays.rs).
THEOREM NothingGoesMissing == Spec => []NothingIsMissing
<1>1. IInv => NothingIsMissing
  BY NobodyWillApply DEF IInv, MapFollows, NothingIsMissing
<1> QED BY <1>1, Invariance, PTL

\* What is left over, a relay beyond the settings or an actor with an old token, was left by an
\* applier that gave up before it began (engine.rs: "A newer edit landed while we waited").
THEOREM OnlySkipsLeave == Spec => []OldIsLeftBySkips
<1>1. IInv => OldIsLeftBySkips
  BY NobodyWillApply DEF IInv, ExtrasGo, TokensCome, OldIsLeftBySkips
<1> QED BY <1>1, Invariance, PTL
=============================================================================
