---------------------------- MODULE SqliteStore -----------------------------
(***************************************************************************)
(* edge-store: concurrent callers (handlers of the agent and runs of the   *)
(* CLI, each with its own connection) of the operations of SqliteStore.    *)
(*                                                                         *)
(* Every SQL statement is one atomic step.  No operation opens a           *)
(* transaction, so between two statements of one call any statement of     *)
(* another may run.  What a call keeps between its statements is its       *)
(* record in calls; pc names the statement it is about to run.             *)
(***************************************************************************)
EXTENDS Mapping, FiniteSets

CONSTANTS
    Caller,      \* concurrent callers
    Requests,    \* mappings that create requests ask for
    Allocations, \* address pairs OCI hands out
    Configs      \* configurations that processes start with

ASSUME RequestsAssumption == Requests \subseteq MappingType

ASSUME AllocationsAssumption ==
    Allocations \subseteq [edge_private_ip: Ip, public_ip: Ip,
                           oci_public_ip_ocid: Ocid, oci_private_ip_ocid: Ocid]

ASSUME ConfigsAssumption == Configs \subseteq EdgeConfigType

VARIABLES
    rows,     \* the mappings table
    config,   \* the row of edge_config, or None
    calls,    \* what each caller's operation holds between statements
    deleted   \* history: the ids of the rows that were removed

vars == <<rows, config, calls, deleted>>

Call == [op: {"idle", "insert", "update", "delete", "ensure"},
         pc: {"idle", "edge_config", "reject_duplicates", "write"},
         id: Id \cup {None}, m: MappingType \cup {None},
         config: EdgeConfigType \cup {None}]

Idle == [op |-> "idle", pc |-> "idle", id |-> None, m |-> None, config |-> None]

TypeOK ==
    /\ rows \in Table
    /\ config \in EdgeConfigType \cup {None}
    /\ calls \in [Caller -> Call]
    /\ deleted \subseteq Id

Init ==
    /\ rows = EmptyTable
    /\ config = None
    /\ calls = [c \in Caller |-> Idle]
    /\ deleted = {}

\* MappingId::new draws a UUID no other mapping has or had.
Fresh(id) ==
    /\ rows[id] = None /\ id \notin deleted
    /\ \A c \in Caller : calls[c].id # id

Begin(c, call) == calls[c] = Idle /\ calls' = [calls EXCEPT ![c] = call]

Goto(c, pc) == calls' = [calls EXCEPT ![c].pc = pc]

Return(c) == calls' = [calls EXCEPT ![c] = Idle]

-----------------------------------------------------------------------------
(* The operations: how each begins, up to its first write. *)

insert_mapping(c, id, request) ==
    /\ Fresh(id)
    /\ Begin(c, [Idle EXCEPT !.op = "insert", !.pc = "edge_config", !.id = id,
                             !.m = MappingNew(request)])
    /\ UNCHANGED <<rows, config, deleted>>

\* update_mapping has two callers: both read the row, talk to OCI, and hand
\* the edited copy of the whole row to update_mapping.
BeginUpdate(c, id, m) ==
    /\ Begin(c, [Idle EXCEPT !.op = "update", !.pc = "edge_config", !.id = id, !.m = m])
    /\ UNCHANGED <<rows, config, deleted>>

oci_allocate(c, id, a) ==
    /\ rows[id] # None /\ ~HasAllocation(rows[id])
    /\ BeginUpdate(c, id, Allocated(rows[id], a))

oci_release(c, id) ==
    /\ rows[id] # None
    /\ rows[id].oci_public_ip_ocid # None \/ rows[id].oci_private_ip_ocid # None
    /\ BeginUpdate(c, id, Released(rows[id]))

\* delete_mapping reads the row first and is done when there is none.
delete_mapping(c, id) ==
    /\ rows[id] # None
    /\ Begin(c, [Idle EXCEPT !.op = "delete", !.pc = "write", !.id = id])
    /\ UNCHANGED <<rows, config, deleted>>

\* ensure_edge_config: a configuration is stored unless one was read.
ensure_edge_config(c, cfg) ==
    /\ config = None
    /\ validate_edge_config(cfg)
    /\ Begin(c, [Idle EXCEPT !.op = "ensure", !.pc = "write", !.config = cfg])
    /\ UNCHANGED <<rows, config, deleted>>

-----------------------------------------------------------------------------
(* The operations that are one statement. *)

set_edge_config(c, cfg) ==
    /\ calls[c] = Idle
    /\ validate_edge_config(cfg)
    /\ config' = cfg
    /\ UNCHANGED <<rows, calls, deleted>>

set_mapping_enabled(c, id, b) ==
    /\ calls[c] = Idle
    /\ rows[id] # None
    /\ DbAccepts(rows, id, SetEnabled(rows[id], b))
    /\ rows' = [rows EXCEPT ![id] = SetEnabled(rows[id], b)]
    /\ UNCHANGED <<config, calls, deleted>>

\* The update trigger does not watch status, and no index is on it.
set_mapping_health(c, id, s) ==
    /\ calls[c] = Idle
    /\ rows[id] # None
    /\ rows' = [rows EXCEPT ![id] = MarkStatus(rows[id], s)]
    /\ UNCHANGED <<config, calls, deleted>>

-----------------------------------------------------------------------------
(* The statements of insert_mapping, update_mapping and delete_mapping. *)

\* Mutant of ReadEdgeConfig: of the mapping, only its target is validated.
ReadEdgeConfigTarget(c) ==
    /\ calls[c].pc = "edge_config"
    /\ IF config # None /\ validate_target_ip(calls[c].m.target_ip, config.target_cidrs)
       THEN Goto(c, "reject_duplicates")
       ELSE Return(c)
    /\ UNCHANGED <<rows, config, deleted>>

\* SELECT the configuration, then validate_mapping.
ReadEdgeConfig(c) ==
    /\ calls[c].pc = "edge_config"
    /\ IF config # None /\ validate_mapping(calls[c].m, config)
       THEN Goto(c, "reject_duplicates")
       ELSE Return(c)
    /\ UNCHANGED <<rows, config, deleted>>

\* SELECT every other row, then compare.
ReadDuplicates(c) ==
    /\ calls[c].pc = "reject_duplicates"
    /\ IF reject_duplicates(rows, calls[c].id, calls[c].m)
       THEN Return(c)
       ELSE Goto(c, "write")
    /\ UNCHANGED <<rows, config, deleted>>

InsertRow(c) ==
    /\ calls[c].op = "insert" /\ calls[c].pc = "write"
    /\ rows' = IF DbAccepts(rows, calls[c].id, calls[c].m)
               THEN [rows EXCEPT ![calls[c].id] = calls[c].m] ELSE rows
    /\ Return(c)
    /\ UNCHANGED <<config, deleted>>

\* Mutant of UpdateRow: an upsert.
UpsertRow(c) ==
    /\ calls[c].op = "update" /\ calls[c].pc = "write"
    /\ rows' = IF DbAccepts(rows, calls[c].id, calls[c].m)
               THEN [rows EXCEPT ![calls[c].id] = calls[c].m] ELSE rows
    /\ Return(c)
    /\ UNCHANGED <<config, deleted>>

\* An UPDATE that matches no row changes none; the caller gets NotFound.
UpdateRow(c) ==
    /\ calls[c].op = "update" /\ calls[c].pc = "write"
    /\ rows' = IF rows[calls[c].id] # None /\ DbAccepts(rows, calls[c].id, calls[c].m)
               THEN [rows EXCEPT ![calls[c].id] = calls[c].m] ELSE rows
    /\ Return(c)
    /\ UNCHANGED <<config, deleted>>

DeleteRow(c) ==
    /\ calls[c].op = "delete" /\ calls[c].pc = "write"
    /\ rows' = [rows EXCEPT ![calls[c].id] = None]
    /\ deleted' = deleted \cup {calls[c].id}
    /\ Return(c)
    /\ UNCHANGED config

WriteEdgeConfig(c) ==
    /\ calls[c].op = "ensure" /\ calls[c].pc = "write"
    /\ config' = calls[c].config
    /\ Return(c)
    /\ UNCHANGED <<rows, deleted>>

\* A statement fails, the client disconnects, or the process is restarted:
\* the rest of the call does not happen.
Abort(c) ==
    /\ calls[c] # Idle
    /\ Return(c)
    /\ UNCHANGED <<rows, config, deleted>>

-----------------------------------------------------------------------------
Start(c) ==
    \/ \E id \in Id :
         \/ \E request \in Requests : insert_mapping(c, id, request)
         \/ \E a \in Allocations : oci_allocate(c, id, a)
         \/ oci_release(c, id)
         \/ delete_mapping(c, id)
    \/ \E cfg \in Configs : ensure_edge_config(c, cfg)

Single(c) ==
    \/ \E cfg \in Configs : set_edge_config(c, cfg)
    \/ \E id \in Id :
         \/ \E b \in BOOLEAN : set_mapping_enabled(c, id, b)
         \/ \E s \in {"active", "degraded"} : set_mapping_health(c, id, s)

Statement(c) ==
    \/ ReadEdgeConfig(c) \/ ReadDuplicates(c)
    \/ InsertRow(c) \/ UpdateRow(c) \/ DeleteRow(c) \/ WriteEdgeConfig(c)

Next == \E c \in Caller : Start(c) \/ Single(c) \/ Statement(c) \/ Abort(c)

Spec == Init /\ [][Next]_vars

-----------------------------------------------------------------------------
(* Properties *)

TableView == INSTANCE MappingTable WITH rows <- rows, deleted <- deleted

Memory == INSTANCE InMemoryStore

Planner == INSTANCE Xdp

(***************************************************************************)
(* Whatever the interleaving of checks and writes, two enabled rows never  *)
(* claim the same traffic: `conflicts` of edge-core is false of them, and  *)
(* a one-to-one row shares its public address with none.  The duplicate    *)
(* check of insert_mapping and update_mapping reads a state that may be    *)
(* gone when the row is written, so this rests on the indexes and triggers *)
(* alone; they agree with `conflicts` only on well-formed rows, because a  *)
(* port forward without a port escapes the unique index.                   *)
(***************************************************************************)
EnabledRowsDisjoint == TableView!ConflictFree(rows)

(***************************************************************************)
(* Every stored row passes the tests of validate_mapping that do not       *)
(* depend on the configuration.  In particular no port is 0, which         *)
(* row_to_mapping would refuse, and with it every list_mappings and every  *)
(* reconcile.                                                              *)
(***************************************************************************)
RowsWellFormed == \A i \in Stored(rows) : WellFormed(rows[i])

(***************************************************************************)
(* The concurrent store implements the atomic table.  An UPDATE that read  *)
(* its row before a DELETE does not bring the row back, a row written from *)
(* a stale copy keeps its identity, and every write leaves the table       *)
(* without conflicts.                                                      *)
(***************************************************************************)
ImplementsTable == TableView!Spec

(***************************************************************************)
(* Every table the store accepts can be rendered: validate_mappings, which *)
(* render_nftables applies to all rows, disabled ones included, passes     *)
(* under the stored configuration.  When it does not, no reconcile gets    *)
(* past its first step.  (For callers that do not overlap, and a           *)
(* configuration that does not change.)                                    *)
(***************************************************************************)
Renderable == config # None => validate_mappings(rows, config)

(***************************************************************************)
(* nftables and XDP share the traffic out between them.  For any table the *)
(* store accepts, a plan for XDP with a sound configuration does not fail, *)
(* although plan_entry makes tests of its own; no two entries have the     *)
(* same map key; and the packets an entry takes are not those of a rule of *)
(* the ruleset rendered from the same rows.  So every enabled row has one  *)
(* rule or one entry.  And an apply refuses a table, whatever the          *)
(* configuration of XDP, exactly when XdpBlocks of Ruleset says so.        *)
(***************************************************************************)
BackendsShare ==
    config # None =>
        LET xdp  == Planner!plan(rows, config, [enabled |-> TRUE, valid |-> TRUE])
            off  == Planner!plan(rows, config, [enabled |-> FALSE, valid |-> TRUE])
            nft  == Planner!render_nftables(rows, config)
            Key(f) == <<f.daddr, f.dport, Planner!protocol_number(f.protocol)>>
        IN
        /\ xdp.ok
        /\ \A a, b \in xdp.entries : a.key = b.key => a = b
        /\ \A a \in xdp.entries :
             /\ \A f \in nft.prerouting : Key(f) # a.key
             /\ \A g \in nft.edge_to_target : g.daddr # a.key[1]
        /\ Cardinality(xdp.entries) + Cardinality(nft.prerouting)
             + Cardinality(nft.edge_to_target)
           = Cardinality({i \in Stored(rows) : rows[i].enabled})
        /\ Planner!XdpBlocks(rows) <=> xdp.entries # {}
        /\ Planner!XdpBlocks(rows) <=> ~off.ok

(***************************************************************************)
(* The two stores of the StateStore operations decide alike.  For callers  *)
(* that do not overlap, a write the SQLite store makes is the one the      *)
(* in-memory store makes in the same state, and a write it refuses is one  *)
(* the other refuses: its duplicate check is a copy of that of edge-core,  *)
(* and no index or trigger refuses what both accept.  Enabling is compared *)
(* only when SQLite accepts it, and a configuration is never changed under *)
(* stored mappings here: the in-memory store enables a mapping whatever it *)
(* conflicts with, and refuses a configuration that a mapping violates.    *)
(***************************************************************************)
StoresAgree ==
    [][\A c \in Caller :
         LET call == calls[c] IN
         /\ InsertRow(c) => rows' = Memory!insert_mapping(rows, config, call.id, call.m)
         /\ UpdateRow(c) => rows' = Memory!update_mapping(rows, config, call.id, call.m)
         /\ ((ReadEdgeConfig(c) \/ ReadDuplicates(c)) /\ calls'[c] = Idle) =>
              ~Memory!validate_mapping_for_write(rows, config, call.id, call.m)
         /\ DeleteRow(c) => rows' = Memory!delete_mapping(rows, call.id)
         /\ \A id \in Id, b \in BOOLEAN :
              set_mapping_enabled(c, id, b) => rows' = Memory!set_mapping_enabled(rows, id, b)
         /\ config' # config => config' = Memory!set_edge_config(rows, config, config')]_vars

(***************************************************************************)
(* The test rejects_duplicate_static_targets: a second one-to-one mapping  *)
(* of a target is refused, whether or not the first is enabled.            *)
(***************************************************************************)
StaticTargetsUnique ==
    \A i, j \in Stored(rows) :
        (i # j /\ rows[i].mode = OneToOneSnat /\ rows[j].mode = OneToOneSnat)
            => rows[i].target_ip # rows[j].target_ip

(***************************************************************************)
(* What a call knows between its statements, whatever the other callers    *)
(* have done since: a mapping about to be written was validated; the id of *)
(* an insert is still its own; the copy an update writes still has the     *)
(* identity of its row, unless the row is gone for good.                   *)
(***************************************************************************)
CallSound(c) ==
    LET call == calls[c] IN
    /\ call.op = "idle" => call = Idle
    /\ call.pc \in {"edge_config", "reject_duplicates"} => call.op \in {"insert", "update"}
    /\ call.op \in {"insert", "update"} =>
         /\ call.id \in Id /\ call.m \in MappingType
         /\ call.pc # "edge_config" => WellFormed(call.m)
    /\ call.op = "insert" =>
         /\ rows[call.id] = None /\ call.id \notin deleted
         /\ \A d \in Caller \ {c} : calls[d].id # call.id
    /\ call.op = "update" =>
         IF rows[call.id] # None
         THEN TableView!Identity(call.m) = TableView!Identity(rows[call.id])
         ELSE call.id \in deleted
    /\ call.op = "delete" =>
         call.id \in Id /\ (rows[call.id] # None \/ call.id \in deleted)
    /\ call.op = "ensure" => call.config \in EdgeConfigType

\* The inductive invariant of SqliteStoreProofs.
IInv ==
    /\ TypeOK /\ EnabledRowsDisjoint /\ RowsWellFormed
    /\ \A c \in Caller : CallSound(c)
    /\ \A i \in deleted : rows[i] = None
=============================================================================
