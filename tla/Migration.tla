------------------------------ MODULE Migration -----------------------------
(***************************************************************************)
(* SqliteStore::connect: every process that opens the database, the agent  *)
(* and each run of the CLI, brings its schema up to date first, whatever   *)
(* version wrote it and while others do the same.                          *)
(*                                                                         *)
(* Every statement is a step, the rebuild of a legacy table one            *)
(* transaction: its first statement takes the write lock.                  *)
(***************************************************************************)
EXTENDS Mapping

CONSTANTS
    Process,     \* processes that open the database
    Rows,        \* the mappings that are stored
    Databases,   \* the tables that versions of the program have left behind
    MaxCrashes   \* bound on the processes that stop half-way

\* The columns that came after the first version, in the order of migrate.
Added == <<"public_port", "backend", "health_status", "last_checked_at">>

Column == {Added[i] : i \in 1 .. Len(Added)}

\* UNIQUE in its SQL is what makes a table a legacy one.
TableType == [unique: BOOLEAN, columns: SUBSET Column]

\* MAPPING_CONSTRAINTS: four unique indexes, and the triggers for INSERT and
\* UPDATE.
Index == 1 .. 4
Trigger == {5, 6}
Constraint == Index \cup Trigger

\* Both rows are in the partial index k, with the same key.
SameKey(k, m, r) ==
    /\ m.enabled /\ r.enabled /\ m.mode = r.mode
    /\ m.mode = IF k = 4 THEN PortForwardSnat ELSE OneToOneSnat
    /\ k \in {1, 4} => m.edge_private_ip = r.edge_private_ip
    /\ k = 2 => m.public_ip # None /\ m.public_ip = r.public_ip
    /\ k = 3 => m.target_ip = r.target_ip
    /\ k = 4 => /\ m.protocol = r.protocol
                /\ m.public_port # None /\ m.public_port = r.public_port

ASSUME RowsAssumption == Rows \subseteq MappingType

ASSUME DatabaseAssumption == Databases \subseteq TableType \cup {None}

\* The versions whose table had UNIQUE constraints had neither column: this is
\* why the rebuild writes NULL and 'nft' for them.
ASSUME LegacyAssumption ==
    \A t \in Databases \ {None} :
        t.unique => t.columns \cap {"public_port", "backend"} = {}

ASSUME NoneIsNoTable == None \notin TableType

ASSUME CrashAssumption == MaxCrashes \in Nat

VARIABLES
    table,     \* the schema of mappings, or None
    rows,      \* its rows
    made,      \* the indexes and triggers it has
    procs,     \* where each process is
    crashes,   \* number of crashes
    abandoned  \* history: the process that rebuilt the table last ended before it
               \* had made the constraints again, and they are not complete since

vars == <<table, rows, made, procs, crashes, abandoned>>

ProcState ==
    [pc: {"down", "schema", "test", "rebuild", "table_info", "alter", "constraints", "ready"},
     column: 1 .. Len(Added),
     statement: Constraint,
     legacy: BOOLEAN,   \* whether the SQL it has read was of a legacy table
     rebuilt: BOOLEAN]  \* history: it has rebuilt the table, and is not ready yet

TypeOK ==
    /\ table \in TableType \cup {None}
    /\ rows \in Table
    /\ made \subseteq Constraint
    /\ procs \in [Process -> ProcState]
    /\ crashes \in 0 .. MaxCrashes
    /\ abandoned \in BOOLEAN

Down == [pc |-> "down", column |-> 1, statement |-> 1, legacy |-> FALSE, rebuilt |-> FALSE]

Current == [unique |-> FALSE, columns |-> Column]

\* What the rebuild makes of a row: it does not copy these two.
Rebuilt(m) == [m EXCEPT !.public_port = None, !.backend = "nft"]

Violated(k) == \E i, j \in Stored(rows) : i # j /\ SameKey(k, rows[i], rows[j])

\* A row of a table without a column reads as if it had its default; a legacy
\* table has no address twice.  The statements that make the constraints may
\* have been cut short anywhere.  Rows of older tables may violate the indexes.
Init ==
    /\ table \in Databases
    /\ rows \in [Id -> Rows \cup {None}]
    /\ \A i \in Stored(rows) :
         /\ table # None
         /\ "public_port" \notin table.columns => rows[i].public_port = None
         /\ "backend" \notin table.columns => rows[i].backend = "nft"
         /\ table.unique => \A j \in Stored(rows) \ {i} :
              /\ rows[i].edge_private_ip # rows[j].edge_private_ip
              /\ rows[i].public_ip # None => rows[i].public_ip # rows[j].public_ip
    /\ made \in {1 .. k : k \in IF table = Current THEN 0 .. 6 ELSE {0}}
    /\ \A k \in made \cap Index : ~Violated(k)
    /\ procs = [p \in Process |-> Down]
    /\ crashes = 0
    /\ abandoned = FALSE

Goto(p, pc) == procs' = [procs EXCEPT ![p].pc = pc]

\* connect returns an error, or the process ends otherwise.
Exit(p) ==
    /\ procs' = [procs EXCEPT ![p] = Down]
    /\ abandoned' = (abandoned \/ procs[p].rebuilt)

-----------------------------------------------------------------------------
(* migrate *)

connect(p) ==
    /\ procs[p].pc = "down"
    /\ Goto(p, "schema")
    /\ UNCHANGED <<table, rows, made, crashes, abandoned>>

\* CREATE TABLE IF NOT EXISTS.
CreateSchema(p) ==
    /\ procs[p].pc = "schema"
    /\ table' = IF table = None THEN Current ELSE table
    /\ Goto(p, "test")
    /\ UNCHANGED <<rows, made, crashes, abandoned>>

Tested(p, rebuild) ==
    procs' = [procs EXCEPT ![p].legacy = table.unique,
                           ![p].pc = IF rebuild THEN "rebuild" ELSE "table_info"]

\* Mutant: the indexes that CREATE INDEX made are not passed over.
has_any_unique_constraints(p) ==
    /\ procs[p].pc = "test"
    /\ Tested(p, table.unique \/ made # {})
    /\ UNCHANGED <<table, rows, made, crashes, abandoned>>

\* Outside the transaction of the rebuild.
has_legacy_mapping_unique_constraints(p) ==
    /\ procs[p].pc = "test"
    /\ Tested(p, table.unique)
    /\ UNCHANGED <<table, rows, made, crashes, abandoned>>

\* INSERT ... SELECT names these columns of the old table.
Copied == {"health_status", "last_checked_at"}

\* Mutant: the statements are not a transaction, and the old table is dropped
\* though the copy failed.
RebuildUnchecked(p) ==
    /\ procs[p].pc = "rebuild"
    /\ table' = Current
    /\ rows' = [i \in Id |->
                 IF rows[i] # None /\ Copied \subseteq table.columns
                 THEN Rebuilt(rows[i]) ELSE None]
    /\ made' = {} /\ abandoned' = FALSE
    /\ procs' = [procs EXCEPT ![p].pc = "table_info", ![p].rebuilt = TRUE]
    /\ UNCHANGED crashes

\* Mutant: a process that has rebuilt the table takes it for complete.
RebuildReady(p) ==
    /\ procs[p].pc = "rebuild"
    /\ IF Copied \subseteq table.columns
       THEN /\ table' = Current
            /\ rows' = [i \in Id |-> IF rows[i] = None THEN None ELSE Rebuilt(rows[i])]
            /\ made' = {} /\ abandoned' = FALSE
            /\ Goto(p, "ready")
       ELSE UNCHANGED <<table, rows, made>> /\ Exit(p)
    /\ UNCHANGED crashes

\* ensure_port_forward_schema: what depended on the old table goes with it.
Rebuild(p) ==
    /\ procs[p].pc = "rebuild"
    /\ IF Copied \subseteq table.columns
       THEN /\ table' = Current
            /\ rows' = [i \in Id |-> IF rows[i] = None THEN None ELSE Rebuilt(rows[i])]
            /\ made' = {} /\ abandoned' = FALSE
            /\ procs' = [procs EXCEPT ![p].pc = "table_info", ![p].rebuilt = TRUE]
       ELSE UNCHANGED <<table, rows, made>> /\ Exit(p)
    /\ UNCHANGED crashes

\* Mutant: the loop runs past its last column.
NextColumnPast(p) ==
    IF procs[p].column <= Len(Added)
    THEN procs' = [procs EXCEPT ![p].pc = "table_info", ![p].column = @ + 1]
    ELSE procs' = [procs EXCEPT ![p].pc = "constraints", ![p].column = 1]

NextColumn(p) ==
    IF procs[p].column < Len(Added)
    THEN procs' = [procs EXCEPT ![p].pc = "table_info", ![p].column = @ + 1]
    ELSE procs' = [procs EXCEPT ![p].pc = "constraints", ![p].column = 1]

\* Mutant: the first column tells for all.
TableInfoFirst(p) ==
    /\ procs[p].pc = "table_info"
    /\ IF Added[1] \in table.columns THEN NextColumn(p) ELSE Goto(p, "alter")
    /\ UNCHANGED <<table, rows, made, crashes, abandoned>>

\* ensure_column asks for the columns ...
TableInfo(p) ==
    /\ procs[p].pc = "table_info"
    /\ IF Added[procs[p].column] \in table.columns THEN NextColumn(p) ELSE Goto(p, "alter")
    /\ UNCHANGED <<table, rows, made, crashes, abandoned>>

\* ... and adds one: an error when another process was faster.
AlterTable(p) ==
    /\ procs[p].pc = "alter"
    /\ IF Added[procs[p].column] \in table.columns
       THEN UNCHANGED table /\ Exit(p)
       ELSE /\ table' = [table EXCEPT !.columns = @ \cup {Added[procs[p].column]}]
            /\ NextColumn(p) /\ UNCHANGED abandoned
    /\ UNCHANGED <<rows, made, crashes>>

\* The process has made constraint k, or found it.
Made(p, k) ==
    /\ made' = made \cup {k}
    /\ abandoned' = (abandoned /\ made' # Constraint)
    /\ IF k < 6
       THEN procs' = [procs EXCEPT ![p].statement = k + 1]
       ELSE procs' = [procs EXCEPT ![p] = [Down EXCEPT !.pc = "ready"]]

\* Mutant: CREATE without IF NOT EXISTS.
create_mapping_constraints(p) ==
    LET k == procs[p].statement IN
    /\ procs[p].pc = "constraints"
    /\ IF k \in made \/ (k \in Index /\ Violated(k))
       THEN UNCHANGED made /\ Exit(p)
       ELSE Made(p, k)
    /\ UNCHANGED <<table, rows, crashes>>

\* Every statement is CREATE ... IF NOT EXISTS, so that a series of them cut
\* short is completed by the next process.  An index cannot be made on rows that
\* violate it: connect fails with the error.
ensure_mapping_constraints(p) ==
    LET k == procs[p].statement IN
    /\ procs[p].pc = "constraints"
    /\ IF k \in Index \ made /\ Violated(k)
       THEN UNCHANGED made /\ Exit(p)
       ELSE Made(p, k)
    /\ UNCHANGED <<table, rows, crashes>>

-----------------------------------------------------------------------------
(* A process at work, and its end. *)

\* The constraints that exist accept m as a new row.  The check for duplicates
\* is no guard: the table it read may be gone (see SqliteStore).
Accepts(id, m) ==
    /\ \A k \in made \cap Index, r \in Others(rows, id) : ~SameKey(k, m, r)
    /\ 5 \in made => TriggerAccepts(rows, id, m)

insert_mapping(p, id, m) ==
    /\ procs[p].pc = "ready" /\ rows[id] = None
    /\ Accepts(id, m)
    /\ rows' = [rows EXCEPT ![id] = m]
    /\ UNCHANGED <<table, made, procs, crashes, abandoned>>

delete_mapping(p, id) ==
    /\ procs[p].pc = "ready" /\ rows[id] # None
    /\ rows' = [rows EXCEPT ![id] = None]
    /\ UNCHANGED <<table, made, procs, crashes, abandoned>>

Crash(p) ==
    /\ procs[p].pc # "down" /\ crashes < MaxCrashes
    /\ crashes' = crashes + 1
    /\ Exit(p)
    /\ UNCHANGED <<table, rows, made>>

-----------------------------------------------------------------------------
Migrate(p) ==
    \/ connect(p) \/ CreateSchema(p) \/ has_legacy_mapping_unique_constraints(p)
    \/ Rebuild(p) \/ TableInfo(p) \/ AlterTable(p) \/ ensure_mapping_constraints(p)

Work(p) ==
    \E id \in Id :
        delete_mapping(p, id) \/ \E m \in Rows : insert_mapping(p, id, m)

Next == \E p \in Process : Migrate(p) \/ Work(p) \/ Crash(p)

Spec == Init /\ [][Next]_vars

\* A process that runs goes on, and systemd starts the agent again.
FairSpec == Spec /\ \A p \in Process : WF_vars(Migrate(p))

-----------------------------------------------------------------------------
(* Properties *)

(***************************************************************************)
(* A process that is ready has the schema its statements name, however     *)
(* many processes rebuild and alter the table at the same time and         *)
(* wherever they stop: all columns are there, and no legacy constraint.    *)
(***************************************************************************)
ReadySchema == (\E p \in Process : procs[p].pc = "ready") => table = Current

\* The process has put statement k behind it.
Passed(p, k) ==
    procs[p].pc = "ready" \/ (procs[p].pc = "constraints" /\ k < procs[p].statement)

\* It has rebuilt the table, and statement k is still before it.
Restores(q, k) ==
    procs[q].rebuilt /\ procs[q].pc \in {"table_info", "constraints"} /\ ~Passed(q, k)

(***************************************************************************)
(* The indexes and triggers are the only guard against conflicting rows    *)
(* when checks are stale.  A process that is ready works without one of    *)
(* them only while a process that has rebuilt the table once more is on    *)
(* its way to make it, or after that process ended before it did (it       *)
(* crashed, or rows stored meanwhile violate an index), until some process *)
(* completes them.                                                         *)
(***************************************************************************)
ReadyConstrained ==
    \A p \in Process, k \in Constraint :
        (procs[p].pc = "ready" /\ k \notin made) =>
            abandoned \/ \E q \in Process : Restores(q, k)

(***************************************************************************)
(* Migration loses no mapping and invents none: rows come and go only by   *)
(* the requests of processes that are ready, also when the table is        *)
(* rebuilt twice or the rebuild fails.                                     *)
(***************************************************************************)
RowsSurvive ==
    [][procs' # procs => \A id \in Id : (rows'[id] = None) = (rows[id] = None)]_vars

(***************************************************************************)
(* The rebuild writes NULL and 'nft' for every row's public_port and       *)
(* backend, as a legacy table has neither.  A stored port or backend is    *)
(* lost by it only in a race: the process found a legacy table, and        *)
(* another rebuilt it before, took up work and stored the row.  Opening a  *)
(* database that is up to date never costs a port forward its port.        *)
(***************************************************************************)
PortsLostOnlyByRace ==
    [][\A id \in Id :
         rows[id] # None /\ rows'[id] \notin {None, rows[id]} =>
            \E p \in Process :
                /\ procs[p].pc = "rebuild" /\ procs'[p].pc # "rebuild"
                /\ procs[p].legacy /\ ~table.unique]_vars

(***************************************************************************)
(* Every process that is started (again) gets ready in the end, though it  *)
(* may fail when another adds a column before it, unless the database is   *)
(* not fit for it: a legacy table without the columns the rebuild reads,   *)
(* or rows that violate an index, left by an older version or stored while *)
(* the index was missing.                                                  *)
(***************************************************************************)
Fit ==
    /\ table # None /\ table.unique => Copied \subseteq table.columns
    /\ \A k \in Index : ~Violated(k)

StartsUp == \A p \in Process : procs[p].pc = "down" ~> (procs[p].pc = "ready" \/ ~Fit)

(***************************************************************************)
(* What a process knows of the table at each step of migrate, whatever the *)
(* others have done to it since: it exists once the schema was executed;   *)
(* it is no legacy table once the test was passed or the rebuild done; the *)
(* columns asked for so far are there; and only a process that has read    *)
(* the SQL of a legacy table rebuilds.                                     *)
(***************************************************************************)
Knows(p) ==
    LET pc == procs[p].pc IN
    /\ pc \notin {"down", "schema"} => table # None
    /\ pc \in {"table_info", "alter", "constraints", "ready"} => ~table.unique
    /\ pc \in {"table_info", "alter"} =>
         \A i \in 1 .. (procs[p].column - 1) : Added[i] \in table.columns
    /\ pc \in {"constraints", "ready"} => table.columns = Column
    /\ pc \in {"down", "schema", "test", "rebuild"} => procs[p].column = 1
    /\ pc # "constraints" => procs[p].statement = 1
    /\ pc = "rebuild" => procs[p].legacy

\* In a legacy table every row has the port and the backend the rebuild gives it.
LegacyRows ==
    (table # None /\ table.unique) => \A i \in Stored(rows) : rows[i] = Rebuilt(rows[i])

\* ReadyConstrained, for every process that has put a statement behind it.
Guarded ==
    \A p \in Process, k \in Constraint :
        (Passed(p, k) /\ k \notin made) => abandoned \/ \E q \in Process : Restores(q, k)

\* The inductive invariant of MigrationProofs.
IInv ==
    /\ TypeOK /\ Guarded /\ LegacyRows
    /\ \A p \in Process : Knows(p)
=============================================================================
