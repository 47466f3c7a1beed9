-------------------------------- MODULE Storage --------------------------------
(***************************************************************************)
(* What a device keeps on disk and in the OS keystore (ipn-core/src/       *)
(* secrets.rs; node.rs: load_or_create_secret_key; engine.rs: load_config, *)
(* save_config, teardown and the operations that call them).               *)
(*                                                                         *)
(* An operation is a list of primitive writes.  The process may die        *)
(* between any two, or in one, which tears the file; a file operation may  *)
(* fail; and the keystore locks and unlocks.  A torn file is one whose     *)
(* content does not decode, as the truncated one std::fs::write leaves.    *)
(* Requests are taken one at a time here, which the engine does not see to: *)
(* EngineLifecycle has them interleave.                                    *)
(***************************************************************************)
EXTENDS Naturals, Sequences

CONSTANTS
    None,       \* nothing there
    Torn,       \* something there that does not decode
    Refused,    \* an error instead of an answer
    MaxNets,    \* bound: networks created, joined or rotated to
    MaxKeys,    \* bound: device keys generated
    MaxMishaps  \* bound: failing file operations and operations cut short

Name == {"node-key", "network", "originator"}

ASSUME ValueAssumption ==
    /\ None # Torn /\ None # Refused /\ Torn # Refused
    /\ {None, Torn, Refused} \intersect Nat = {}
    /\ None \notin Name
    /\ None \notin [owner : Nat, secret : Nat, master : Nat \union {None}]
ASSUME BoundAssumption == MaxNets \in Nat /\ MaxKeys \in Nat /\ MaxMishaps \in Nat

VARIABLES
    config,     \* network.cbor: the originator it names
    keystore,   \* the OS keystore, by name
    marker,     \* names that have an .in-keystore file
    file,       \* the key files, by name
    unlocked,   \* the keystore answers
    running,    \* "down", "booting" or "up"
    identity,   \* Inner::device_key
    memory,     \* State::config
    job,        \* the writes that the request under way still has to make
    owner,      \* originator of each network secret generated so far, here or elsewhere
    keys,       \* device keys generated
    left,       \* history: nothing was opened since the last teardown
    known,      \* history: the device key this device has run with
    unmarked,   \* history: a marker of the device key could not be written
    mishaps     \* history: how much went wrong

disk == <<config, keystore, marker, file>>
history == <<left, known, unmarked, mishaps>>
vars == <<disk, unlocked, running, identity, memory, job, owner, keys, history>>

\* What the file, OnDiskConfig, and the secrets that are stored apart from it say together.
StoredConfig(o, s, m) == [owner |-> o, secret |-> s, master |-> m]

Idle == job = <<>>
-----------------------------------------------------------------------------
(***************************************************************************)
(* Reading.                                                                *)
(***************************************************************************)
\* secrets::load
Load(n) ==
    IF n \in marker
    THEN IF unlocked /\ keystore[n] # None THEN keystore[n] ELSE Refused
    ELSE IF file[n] = Torn THEN Refused ELSE file[n]

\* load_config
Loaded ==
    LET secret == Load("network")  master == Load("originator")
    IN  IF config = None THEN None
        ELSE IF config = Torn \/ secret = Refused THEN Refused
        ELSE IF secret = None THEN None
        ELSE IF master = Refused THEN Refused
        ELSE StoredConfig(config, secret, master)
-----------------------------------------------------------------------------
(***************************************************************************)
(* Writing: the operations as lists of writes.                             *)
(***************************************************************************)
Do(what, name, val) == [do |-> what, name |-> name, val |-> val]

\* Mutant: the marker is not written.
KeepInKeystoreUnmarked(n) == <<Do("remove file", n, None)>>

\* secrets::store once the keystore has taken the secret.
KeepInKeystore(n) == <<Do("mark", n, None), Do("remove file", n, None)>>

\* secrets::store when the keystore does not answer.
KeepInFile(n, v) == <<Do("unmark", n, None), Do("write file", n, v)>>

Store(n, v) == <<Do("put", n, v)>>

\* secrets::delete
Delete(n) == <<Do("take out", n, None), Do("unmark", n, None), Do("remove file", n, None)>>

SaveConfig(c) ==
    <<Do("write config", None, c.owner)>> \o Store("network", c.secret)
        \o IF c.master = None THEN Delete("originator") ELSE Store("originator", c.master)

Remember(c) == <<Do("remember", None, c)>>

\* Mutant: the config file is gone, so the network secret may stay.
TeardownFileOnly == <<Do("forget", None, None), Do("remove config", None, None)>> \o Delete("originator")

\* Mutant: the master key is kept for the next network.
TeardownKeepingMaster == <<Do("forget", None, None), Do("remove config", None, None)>> \o Delete("network")

\* teardown, past soft_disconnect
Teardown ==
    <<Do("forget", None, None), Do("remove config", None, None)>>
        \o Delete("network") \o Delete("originator")

Init ==
    /\ config = None /\ keystore = [n \in Name |-> None]
    /\ marker = {} /\ file = [n \in Name |-> None]
    /\ unlocked \in BOOLEAN
    /\ running = "down" /\ identity = None /\ memory = None
    /\ job = <<>>
    /\ owner = <<>> /\ keys = 0
    /\ left = TRUE /\ known = None /\ unmarked = FALSE
    /\ mishaps = 0
-----------------------------------------------------------------------------
(***************************************************************************)
(* Requests.                                                               *)
(***************************************************************************)
\* One more thing that should not happen.
Stuck == mishaps < MaxMishaps /\ mishaps' = mishaps + 1

Begin(writes) ==
    /\ running = "up" /\ Idle
    /\ job' = writes
    /\ UNCHANGED <<disk, unlocked, running, identity, memory, keys, history>>

CreateNetwork ==
    /\ memory = None /\ Len(owner) < MaxNets
    /\ LET n == Len(owner) + 1
           c == StoredConfig(n, n, n)
       IN  /\ owner' = Append(owner, n)
           /\ Begin(SaveConfig(c) \o Remember(c))

\* join_network with a ticket of a network made elsewhere: approved, it is activated,
\* saved, and confirmed by the roster or torn down.
JoinNetwork ==
    /\ memory = None /\ Len(owner) < MaxNets
    /\ LET n == Len(owner) + 1
           c == StoredConfig(n, n, None)
       IN  /\ owner' = Append(owner, n)
           /\ Begin(Remember(c) \o SaveConfig(c) \o <<Do("confirm", None, None)>>)

\* leave_network; delete_network and the self-eviction end in the same teardown.
LeaveNetwork == memory # None /\ Begin(Teardown) /\ UNCHANGED owner

RotateNetwork ==
    /\ memory # None /\ Len(owner) < MaxNets
    /\ memory.master # None
    /\ LET c == [memory EXCEPT !.secret = Len(owner) + 1]
       IN  /\ owner' = Append(owner, memory.owner)
           /\ Begin(Teardown \o SaveConfig(c) \o Remember(c))

\* The code must be the one of the network's originator.
ImportOriginatorKey ==
    /\ memory # None
    /\ LET c == [memory EXCEPT !.master = memory.owner]
       IN  Begin(SaveConfig(c) \o <<Do("replace", None, c)>>)
    /\ UNCHANGED owner

\* set_online(true), and rebuild_node: what they have read of the configuration is activated.
Reconnect ==
    LET c == IF memory = None THEN Loaded ELSE memory
    IN  /\ c \notin {None, Refused}
        /\ Begin(Remember(c))
        /\ UNCHANGED owner
-----------------------------------------------------------------------------
(***************************************************************************)
(* The writes.                                                             *)
(***************************************************************************)
Now(what) == job # <<>> /\ Head(job).do = what
Target == Head(job).name
Value == Head(job).val
Advance == job' = Tail(job)

\* An error ends the request; a join then tears down what it has opened.
Abort ==
    LET joining == \E i \in DOMAIN job : job[i].do = "confirm"
    IN  /\ job' = IF joining THEN Teardown ELSE <<>>
        /\ running' = IF running = "booting" THEN "down" ELSE running

\* activate sets State::config last, and may fail before that.
Activate ==
    /\ \/ /\ Now("remember") \/ Now("replace")
          /\ memory' = Value /\ left' = FALSE
          /\ Advance
          /\ UNCHANGED <<running, mishaps>>
       \/ Now("remember") /\ Stuck /\ Abort /\ UNCHANGED <<memory, left>>
    /\ UNCHANGED <<disk, unlocked, identity, owner, keys, known, unmarked>>

\* The new member is in the roster, or it never appears.
Confirm ==
    /\ Now("confirm")
    /\ job' \in {<<>>, Teardown}
    /\ UNCHANGED <<disk, unlocked, running, identity, memory, owner, keys, history>>

Forget ==
    /\ Now("forget")
    /\ memory' = None /\ left' = TRUE
    /\ Advance
    /\ UNCHANGED <<disk, unlocked, running, identity, owner, keys, known, unmarked, mishaps>>

\* A keystore that does not answer sends the secret to the file.
Put ==
    /\ Now("put")
    /\ LET n == Target  v == Value
       IN  /\ keystore' = IF unlocked THEN [keystore EXCEPT ![n] = v] ELSE keystore
           /\ job' = (IF unlocked THEN KeepInKeystore(n) ELSE KeepInFile(n, v)) \o Tail(job)
    /\ UNCHANGED <<config, marker, file, unlocked, running, identity, memory, owner, keys, history>>

TakeOut ==
    /\ Now("take out")
    /\ keystore' = IF unlocked THEN [keystore EXCEPT ![Target] = None] ELSE keystore
    /\ Advance
    /\ UNCHANGED <<config, marker, file, unlocked, running, identity, memory, owner, keys, history>>

\* The operations whose failure nobody looks at.
Unheeded ==
    /\ \/ Now("mark") /\ marker' = marker \union {Target} /\ UNCHANGED <<config, file>>
       \/ Now("unmark") /\ marker' = marker \ {Target} /\ UNCHANGED <<config, file>>
       \/ Now("remove file") /\ file' = [file EXCEPT ![Target] = None] /\ UNCHANGED <<config, marker>>
       \/ Now("remove config") /\ config' = None /\ UNCHANGED <<marker, file>>
    /\ Advance
    /\ UNCHANGED <<keystore, unlocked, running, identity, memory, owner, keys, history>>

UnheededFails ==
    /\ \E what \in {"mark", "unmark", "remove file", "remove config"} : Now(what)
    /\ Stuck /\ Advance
    /\ unmarked' = (unmarked \/ (Now("mark") /\ Target = "node-key"))
    /\ UNCHANGED <<disk, unlocked, running, identity, memory, owner, keys, left, known>>

\* What a file write leaves, and may leave torn.
Written(whole) ==
    \/ /\ Now("write config")
       /\ config' = IF whole THEN Value ELSE Torn
       /\ UNCHANGED file
    \/ /\ Now("write file")
       /\ file' = [file EXCEPT ![Target] = IF whole THEN Value ELSE Torn]
       /\ UNCHANGED config

Write ==
    /\ Written(TRUE) /\ Advance
    /\ left' = (left /\ ~Now("write config"))
    /\ UNCHANGED <<keystore, marker, unlocked, running, identity, memory, owner, keys,
                   known, unmarked, mishaps>>

WriteFails ==
    /\ \/ Written(FALSE)
       \/ (Now("write config") \/ Now("write file")) /\ UNCHANGED <<config, file>>
    /\ Stuck /\ Abort
    /\ left' = (left /\ ~Now("write config"))
    /\ UNCHANGED <<keystore, marker, unlocked, identity, memory, owner, keys, known, unmarked>>
-----------------------------------------------------------------------------
(***************************************************************************)
(* The process.                                                            *)
(***************************************************************************)
\* spawn_with: the device key is loaded, or made and stored.
Start ==
    /\ running = "down"
    /\ Load("node-key") # Refused
    /\ IF Load("node-key") = None
       THEN /\ keys < MaxKeys
            /\ keys' = keys + 1
            /\ identity' = keys + 1
            /\ job' = Store("node-key", keys + 1)
       ELSE identity' = Load("node-key") /\ UNCHANGED <<keys, job>>
    /\ running' = "booting"
    /\ UNCHANGED <<disk, unlocked, memory, owner, history>>

\* The stored network is activated; one that cannot be read keeps the engine from starting.
Started ==
    /\ running = "booting" /\ Idle
    /\ IF Loaded = Refused
       THEN running' = "down" /\ identity' = None /\ UNCHANGED <<memory, known>>
       ELSE running' = "up" /\ memory' = Loaded /\ known' = identity /\ UNCHANGED identity
    /\ UNCHANGED <<disk, unlocked, job, owner, keys, left, unmarked, mishaps>>

\* The process ends, perhaps in the middle of a request or of a write.
Crash ==
    /\ running # "down"
    /\ running' = "down" /\ identity' = None /\ memory' = None
    /\ job' = <<>>
    /\ IF Idle
       THEN UNCHANGED <<disk, left, mishaps>>
       ELSE /\ Stuck /\ left' = FALSE
            /\ UNCHANGED <<keystore, marker>>
            /\ UNCHANGED <<config, file>> \/ Written(FALSE)
    /\ UNCHANGED <<unlocked, owner, keys, known, unmarked>>

Keystore ==
    /\ unlocked' = ~unlocked
    /\ UNCHANGED <<disk, running, identity, memory, job, owner, keys, history>>

Request ==
    \/ CreateNetwork \/ JoinNetwork \/ LeaveNetwork \/ RotateNetwork
    \/ ImportOriginatorKey \/ Reconnect

Continue ==
    \/ Activate \/ Confirm \/ Forget \/ Put \/ TakeOut
    \/ Unheeded \/ UnheededFails \/ Write \/ WriteFails

Next ==
    \/ Request \/ Continue
    \/ Start \/ Started \/ Crash \/ Keystore

Spec == Init /\ [][Next]_vars
-----------------------------------------------------------------------------
Net == 1 .. MaxNets
Config == [owner : Net, secret : Net, master : Net \union {None}]

TypeOK ==
    /\ config \in Net \union {None, Torn}
    /\ keystore \in [Name -> Nat \union {None}]
    /\ marker \subseteq Name
    /\ file \in [Name -> Nat \union {None, Torn}]
    /\ unlocked \in BOOLEAN
    /\ running \in {"down", "booting", "up"}
    /\ identity \in 1 .. MaxKeys \union {None}
    /\ memory \in Config \union {None}
    /\ Len(owner) <= MaxNets /\ \A n \in DOMAIN owner : owner[n] \in 1 .. n
    /\ keys \in 0 .. MaxKeys /\ mishaps \in 0 .. MaxMishaps
    /\ running = "down" => Idle /\ memory = None

OneNetwork(c) ==
    c \notin {None, Refused} =>
        owner[c.secret] = c.owner /\ (c.master # None => c.master = c.owner)

\* No single failure, crash or torn file has a device run the name and originator of one
\* network with the secret, or the master key, of another.
NoSingleMishapMixes ==
    mishaps <= 1 => OneNetwork(memory) /\ (Idle => OneNetwork(Loaded))

\* secrets.rs: a secret is never silently made anew.  A device that has run keeps its
\* identity through crashes and a keystore that is away, unless the marker was not written.
IdentityIsKept ==
    [][(running' = "up" /\ known # None /\ ~unmarked) => identity' = known]_vars

\* Config file and network secret each suffice to forget a network: one of them that cannot
\* be deleted does not bring it back, at a start or when going online.
LeavingNeedsNoLuck ==
    (left /\ Idle /\ mishaps <= 1) => memory = None /\ Loaded = None
=============================================================================
