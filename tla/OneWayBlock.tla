------------------------------ MODULE OneWayBlock ------------------------------
(***************************************************************************)
(* "Disable remote access" (ipn-core/src/conntrack.rs; router.rs: FlowKey,  *)
(* flow_key, is_tcp_initiation; engine.rs: set_remote_access_disabled,      *)
(* set_hidden, persist_prefs, the device prefs file and the inbound loop of *)
(* register_mesh).  A flow stands for the pair of keys of its two           *)
(* directions.  The clock the data plane reads is the maintenance pass's,   *)
(* so the age of a table entry and the real silence of its flow differ by   *)
(* as much as the pass is late.  The actions leave the tunnel alone.        *)
(***************************************************************************)
EXTENDS Naturals, FiniteSets

CONSTANTS
    Absent,     \* no prefs file, or no pair of values in it
    Idle,       \* a client that is setting no switch
    Stored,     \* one that has stored its switch and not yet read both
    Tcp,        \* flows of TCP
    Datagram,   \* flows of other protocols, where the first packet opens
    FlowTtl,    \* FLOW_TTL_MS, in passes of the slowest pace
    MaxLate     \* bound: how late a pass is, in the same unit

Switches == [disabled : BOOLEAN, hidden : BOOLEAN]

ASSUME BlockBounds ==
    /\ FlowTtl \in Nat /\ MaxLate \in Nat /\ MaxLate <= FlowTtl
    /\ Tcp \intersect Datagram = {}
    /\ Idle # Stored /\ {Absent, Idle, Stored} \intersect Switches = {}

Off == [disabled |-> FALSE, hidden |-> FALSE]
Silent == FlowTtl + MaxLate + 1   \* silence is not told apart past this

VARIABLES
    scope,      \* what this behaviour exercises: its flows and its clients
    switches,   \* remote_access_disabled and hidden
    prefs,      \* device_prefs.cbor
    setting,    \* what each client's call is about to do: Idle, Stored or the pair to write
    table,      \* Conntrack::flows: how old an entry is by the coarse clock
    late,       \* how far coarse_now is behind
    silence,    \* how long ago this device last sent on a flow
    ours,       \* history: flows this device opened since it last connected
    kept,       \* history: those of them it never let fall silent for long
    unsaved     \* history: calls overlapped, or a write failed, since the file was right

blockVars == <<scope, switches, prefs, setting, table, late, silence, ours, kept, unsaved>>

Settled == \A r \in scope.clients : setting[r] = Idle
Blocked == switches.disabled \/ switches.hidden

\* load_device_prefs
Loaded == IF prefs = Absent THEN Off ELSE prefs

InitBlock ==
    /\ switches = Off /\ prefs = Absent /\ setting = [r \in scope.clients |-> Idle]
    /\ table = [f \in {} |-> 0] /\ late = 0
    /\ silence = [f \in scope.flows |-> Silent]
    /\ ours = {} /\ kept = {} /\ unsaved = FALSE
-----------------------------------------------------------------------------
(***************************************************************************)
(* The switches: stored, then both read back, then written.                *)
(***************************************************************************)
\* Mutant: the pair is read before the switch is stored.
SetSwitchLate(r, s, on) ==
    /\ setting[r] = Idle
    /\ switches' = [switches EXCEPT ![s] = on]
    /\ setting' = [setting EXCEPT ![r] = switches]
    /\ unsaved' = ~Settled
    /\ UNCHANGED <<scope, prefs, table, late, silence, ours, kept>>

\* set_remote_access_disabled and set_hidden
SetSwitch(r, s, on) ==
    /\ setting[r] = Idle
    /\ switches' = [switches EXCEPT ![s] = on]
    /\ setting' = [setting EXCEPT ![r] = Stored]
    /\ unsaved' = ~Settled
    /\ UNCHANGED <<scope, prefs, table, late, silence, ours, kept>>

ReadSwitches(r) ==
    /\ setting[r] = Stored
    /\ setting' = [setting EXCEPT ![r] = switches]
    /\ UNCHANGED <<scope, switches, prefs, table, late, silence, ours, kept, unsaved>>

\* save_device_prefs, which nobody hears of when it fails.
SavePrefs(r) ==
    /\ setting[r] \notin {Idle, Stored}
    /\ setting' = [setting EXCEPT ![r] = Idle]
    /\ \/ prefs' = setting[r] /\ UNCHANGED unsaved
       \/ unsaved' = TRUE /\ prefs' \in {prefs, Absent}
    /\ UNCHANGED <<scope, switches, table, late, silence, ours, kept>>

\* A process that ends in the middle of a write leaves a file that does not decode.
RestartBlock ==
    /\ prefs' \in {prefs} \union (IF \A r \in scope.clients : setting[r] \in {Idle, Stored}
                                  THEN {} ELSE {Absent})
    /\ switches' = IF prefs' = Absent THEN Off ELSE prefs'
    /\ setting' = [r \in scope.clients |-> Idle]
    /\ table' = [f \in {} |-> 0] /\ late' = 0
    /\ ours' = {} /\ kept' = {} /\ unsaved' = FALSE
    /\ UNCHANGED <<scope, silence>>
-----------------------------------------------------------------------------
(***************************************************************************)
(* The flows.                                                              *)
(***************************************************************************)
\* A packet that opens a flow: the SYN of a TCP client, or any packet of another protocol.
Initiates(f, opens) == opens \/ f \in Datagram

Stamped(f) == [g \in DOMAIN table \union {f} |-> IF g = f THEN 0 ELSE table[g]]

\* Mutant: only what opens a flow is recorded.
RecordOpening(f, opens) == IF Initiates(f, opens) THEN Stamped(f) ELSE table

\* record_outbound: a SYN, or any packet of a protocol without one, makes an entry; the
\* other packets of a connection only refresh it.
RecordOutbound(f, opens) ==
    IF Initiates(f, opens) \/ f \in DOMAIN table THEN Stamped(f) ELSE table

\* The pump, on a packet of a member's flow; opens is is_tcp_initiation.
Outbound(f, opens) ==
    /\ table' = RecordOutbound(f, opens)
    /\ silence' = [silence EXCEPT ![f] = 0]
    /\ ours' = IF Initiates(f, opens) THEN ours \union {f} ELSE ours
    /\ kept' = IF Initiates(f, opens) THEN kept \union {f} ELSE kept
    /\ UNCHANGED <<scope, switches, prefs, setting, late, unsaved>>

\* allows_inbound, and the inbound loop's use of it.
AllowsInbound(f) == f \in DOMAIN table /\ table[f] <= FlowTtl
Admits(f) == ~Blocked \/ AllowsInbound(f)

\* Time goes by.  A pass keeps the clock from falling further behind.
TimePasses ==
    /\ scope.flows # {} /\ late < MaxLate
    /\ late' = late + 1
    /\ silence' = [f \in scope.flows |-> IF silence[f] < Silent THEN silence[f] + 1 ELSE Silent]
    /\ kept' = {f \in kept : silence'[f] <= FlowTtl - MaxLate}
    /\ UNCHANGED <<scope, switches, prefs, setting, table, ours, unsaved>>

\* Conntrack::sweep, by the clock the pass has just set.
Sweep == [f \in {g \in DOMAIN table : table[g] + late <= FlowTtl} |-> table[f] + late]

\* The start of tick.
PassReadsClock ==
    /\ table' = Sweep /\ late' = 0
    /\ UNCHANGED <<scope, switches, prefs, setting, silence, ours, kept, unsaved>>

\* Conntrack::clear, at the end of a connection.
Clear ==
    /\ table' = [f \in {} |-> 0]
    /\ ours' = {} /\ kept' = {}
    /\ UNCHANGED <<scope, switches, prefs, setting, late, silence, unsaved>>
-----------------------------------------------------------------------------
BlockTypeOK ==
    /\ switches \in Switches /\ prefs \in Switches \union {Absent} /\ unsaved \in BOOLEAN
    /\ setting \in [scope.clients -> {Idle, Stored} \union Switches]
    /\ DOMAIN table \subseteq scope.flows /\ table \in [DOMAIN table -> 0..FlowTtl]
    /\ late \in 0..MaxLate /\ silence \in [scope.flows -> 0..Silent]
    /\ kept \subseteq ours /\ ours \subseteq scope.flows
=============================================================================
