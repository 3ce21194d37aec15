-------------------------- MODULE MigrationProofs ---------------------------
(***************************************************************************)
(* Proofs about Migration, for any number of processes, mappings and       *)
(* crashes, and any databases with the schemas the code provides for.      *)
(***************************************************************************)
EXTENDS Migration, TLAPS

\* The columns migrate adds, one by one.
LEMMA Columns ==
    /\ Len(Added) = 4
    /\ Added[1] = "public_port" /\ Added[2] = "backend"
    /\ Added[3] = "health_status" /\ Added[4] = "last_checked_at"
    /\ Column = {"public_port", "backend", "health_status", "last_checked_at"}
<1>1. /\ Len(Added) = 4
      /\ Added[1] = "public_port" /\ Added[2] = "backend"
      /\ Added[3] = "health_status" /\ Added[4] = "last_checked_at"
  BY DEF Added
<1>2. Column = {Added[i] : i \in 1 .. 4}
  BY <1>1 DEF Column
<1>3. 1 .. 4 = {1, 2, 3, 4}
  OBVIOUS
<1> QED
  BY <1>1, <1>2, <1>3

\* The table CREATE TABLE makes, and a process that is not running.
LEMMA CurrentType ==
    /\ Current \in TableType /\ Current # None
    /\ Current.unique = FALSE /\ Current.columns = Column
    /\ Down \in ProcState
<1>1. Current \in TableType /\ Current.unique = FALSE /\ Current.columns = Column
  BY DEF Current, TableType
<1>2. Down \in ProcState
  BY Columns DEF Down, ProcState, Constraint, Index
<1> QED
  BY <1>1, <1>2, NoneIsNoTable

\* A row stays a row when the table is rebuilt.
LEMMA RebuiltType == \A m \in MappingType : Rebuilt(m) \in MappingType /\ Rebuilt(m) # None
<1> TAKE m \in MappingType
<1>1. Rebuilt(m) \in MappingType
  BY DEF Rebuilt, MappingType, MappingBackend
<1> QED
  BY <1>1, NoneIsNoRecord

(***************************************************************************)
(* The four indexes together are what edge-store's checks are compared     *)
(* with elsewhere: a row with no key in common with another is one that    *)
(* UniqueIndexesHold of Mapping accepts.                                   *)
(***************************************************************************)
LEMMA IndexesAgree ==
    ASSUME NEW t \in Table, NEW id \in Id, NEW m \in MappingType
    PROVE  UniqueIndexesHold(t, id, m) <=>
             \A k \in Index, r \in Others(t, id) : ~SameKey(k, m, r)
<1>1. Index = {1, 2, 3, 4}
  BY DEF Index
<1>2. \A r \in Others(t, id) : r \in MappingType
  BY DEF Others, Stored, Table
<1>3. ASSUME NEW r \in Others(t, id)
      PROVE (\A k \in Index : ~SameKey(k, m, r)) <=>
              ((m.enabled /\ r.enabled) =>
                 /\ (m.mode = OneToOneSnat /\ r.mode = OneToOneSnat) =>
                      /\ r.edge_private_ip # m.edge_private_ip
                      /\ r.target_ip # m.target_ip
                      /\ m.public_ip # None => r.public_ip # m.public_ip
                 /\ (m.mode = PortForwardSnat /\ r.mode = PortForwardSnat) =>
                      \/ r.edge_private_ip # m.edge_private_ip
                      \/ r.protocol # m.protocol
                      \/ m.public_port = None
                      \/ r.public_port # m.public_port)
  BY <1>1, <1>2 DEF SameKey, OneToOneSnat, PortForwardSnat, MappingType, MappingMode
<1> QED
  BY <1>2, <1>3 DEF UniqueIndexesHold, EnabledOthers

\* The databases that the program finds satisfy the inductive invariant.
LEMMA IInvInit == Init => IInv
<1> SUFFICES ASSUME Init PROVE IInv
  OBVIOUS
<1>1. TypeOK
  <2>1. rows \in Table
    BY RowsAssumption DEF Init, Table
  <2>2. made \subseteq Constraint
    BY DEF Init, Constraint, Index, Trigger
  <2>3. table \in TableType \cup {None}
    BY DatabaseAssumption DEF Init
  <2>4. procs \in [Process -> ProcState] /\ crashes \in 0 .. MaxCrashes
    BY CrashAssumption, CurrentType DEF Init
  <2>5. abandoned \in BOOLEAN
    BY Zenon DEF Init
  <2> QED
    BY <2>1, <2>2, <2>3, <2>4, <2>5, Zenon DEF TypeOK
<1>2. \A p \in Process : procs[p].pc = "down" /\ procs[p].column = 1 /\ procs[p].statement = 1
  BY DEF Init, Down
<1>3. Guarded
  BY <1>2 DEF Guarded, Passed
<1>4. LegacyRows
  <2> SUFFICES ASSUME table # None, table.unique, NEW i \in Stored(rows)
               PROVE  rows[i] = Rebuilt(rows[i])
    BY DEF LegacyRows
  <2>1. "public_port" \notin table.columns /\ "backend" \notin table.columns
    BY LegacyAssumption DEF Init
  <2>2. rows[i] \in MappingType /\ rows[i].public_port = None /\ rows[i].backend = "nft"
    BY <1>1, <2>1 DEF Init, TypeOK, Table, Stored
  <2> QED
    BY <2>2 DEF Rebuilt, MappingType
<1>5. \A p \in Process : Knows(p)
  BY <1>2 DEF Knows
<1> QED
  BY <1>1, <1>3, <1>4, <1>5 DEF IInv

-----------------------------------------------------------------------------
(***************************************************************************)
(* No step takes a column away or brings a legacy constraint back, so what *)
(* the processes other than p know of the table stays true.                *)
(***************************************************************************)
LEMMA OthersKnow ==
    ASSUME IInv, NEW p \in Process, table' \in TableType \cup {None},
           table # None => /\ table' # None
                           /\ table'.unique => table.unique
                           /\ table.columns \subseteq table'.columns,
           \A q \in Process \ {p} : procs'[q] = procs[q]
    PROVE  \A q \in Process \ {p} : Knows(q)'
<1> TAKE q \in Process \ {p}
<1>1. Knows(q) /\ procs'[q] = procs[q] /\ table \in TableType \cup {None}
  BY DEF IInv, TypeOK
<1>2. CASE table = None
  BY <1>1, <1>2 DEF Knows
<1>3. CASE table # None
  <2>1. /\ table' # None /\ table'.unique => table.unique
        /\ table.columns \subseteq table'.columns
        /\ table'.columns \subseteq Column
    BY <1>3 DEF TableType
  <2> QED
    BY <1>1, <1>3, <2>1 DEF Knows
<1> QED
  BY <1>2, <1>3

(***************************************************************************)
(* A process is ready only if the schema is complete: all columns, and no  *)
(* legacy constraint.                                                      *)
(***************************************************************************)
LEMMA ReadyTable == IInv => ReadySchema
<1> SUFFICES ASSUME IInv, NEW p \in Process, procs[p].pc = "ready" PROVE table = Current
  BY DEF ReadySchema
<1>1. table \in TableType /\ table.unique = FALSE /\ table.columns = Column
  BY DEF IInv, TypeOK, Knows, TableType
<1> QED
  BY <1>1 DEF TableType, Current

(***************************************************************************)
(* A step of process p on its way to the constraints, or back to the       *)
(* start, keeps the invariant, if it leaves rows and constraints alone,    *)
(* the table only grows, p knows what it must at its new place, and if it  *)
(* had rebuilt a table that is complete it goes on or is missed.           *)
(***************************************************************************)
LEMMA MigrateStep ==
    ASSUME IInv, NEW p \in Process, NEW proc \in ProcState,
           procs' = [procs EXCEPT ![p] = proc],
           table' \in TableType \cup {None},
           table # None => /\ table' # None
                           /\ table'.unique => table.unique
                           /\ table.columns \subseteq table'.columns,
           table = None => table' \in {None, Current},
           UNCHANGED <<rows, made, crashes>>,
           abandoned' \in BOOLEAN, abandoned => abandoned',
           proc.pc # "ready", proc.statement = 1,
           (procs[p].rebuilt /\ procs[p].pc \in {"table_info", "constraints"} /\ table = Current) =>
               abandoned' \/ (proc.rebuilt /\ proc.pc \in {"table_info", "constraints"}),
           Knows(p)'
    PROVE  IInv'
<1>1. /\ procs \in [Process -> ProcState] /\ procs'[p] = proc
      /\ \A q \in Process \ {p} : procs'[q] = procs[q]
  BY DEF IInv, TypeOK
<1>2. TypeOK'
  BY <1>1 DEF IInv, TypeOK
<1>3. \A q \in Process : Knows(q)'
  BY <1>1, OthersKnow
<1>4. LegacyRows'
  <2>1. (table' # None /\ table'.unique) => (table # None /\ table.unique)
    BY CurrentType
  <2> QED
    BY <2>1 DEF IInv, LegacyRows
<1>5. Guarded'
  <2> SUFFICES ASSUME NEW r \in Process, NEW k \in Constraint, Passed(r, k)', k \notin made',
                      ~abandoned'
               PROVE  \E q \in Process : Restores(q, k)'
    BY DEF Guarded
  <2>1. ~Passed(p, k)'
    BY <1>1 DEF Passed, Constraint, Index, Trigger
  <2>2. r # p /\ Passed(r, k) /\ procs[r].pc \in {"constraints", "ready"}
    BY <1>1, <2>1 DEF Passed
  <2>3. table = Current
    <3>1. table \in TableType /\ table.unique = FALSE /\ table.columns = Column
      BY <2>2 DEF IInv, TypeOK, Knows, TableType
    <3> QED
      BY <3>1 DEF TableType, Current
  <2>4. PICK q \in Process : Restores(q, k)
    BY <2>2 DEF IInv, Guarded
  <2>5. CASE q # p
    BY <1>1, <2>4, <2>5 DEF Restores, Passed
  <2>6. CASE q = p
    BY <1>1, <2>1, <2>3, <2>4, <2>6 DEF Restores
  <2> QED
    BY <2>5, <2>6
<1> QED
  BY <1>2, <1>3, <1>4, <1>5 DEF IInv

\* connect preserves it.
LEMMA IInvConnect == ASSUME IInv, NEW p \in Process, connect(p) PROVE IInv'
<1> DEFINE proc == [procs[p] EXCEPT !.pc = "schema"]
<1>1. /\ procs[p] \in ProcState /\ procs[p].pc = "down" /\ procs \in [Process -> ProcState]
      /\ procs[p].statement = 1
  BY DEF IInv, TypeOK, connect, Knows
<1>2. /\ proc \in ProcState /\ proc.pc = "schema" /\ proc.column = procs[p].column
      /\ proc.statement = 1
  BY <1>1 DEF ProcState
<1>3. procs' = [procs EXCEPT ![p] = proc] /\ procs'[p] = proc
  BY <1>1 DEF connect, Goto
<1>4. Knows(p)'
  BY <1>1, <1>2, <1>3 DEF IInv, Knows
<1>5. /\ UNCHANGED <<table, rows, made, crashes, abandoned>> /\ table \in TableType \cup {None}
      /\ abandoned' \in BOOLEAN
  BY DEF connect, IInv, TypeOK
<1> QED
  BY <1>1, <1>2, <1>3, <1>4, <1>5, MigrateStep

\* CREATE TABLE IF NOT EXISTS preserves it.
LEMMA IInvCreateSchema == ASSUME IInv, NEW p \in Process, CreateSchema(p) PROVE IInv'
<1> DEFINE proc == [procs[p] EXCEPT !.pc = "test"]
<1>1. /\ procs[p] \in ProcState /\ procs[p].pc = "schema" /\ procs \in [Process -> ProcState]
      /\ procs[p].statement = 1
  BY DEF IInv, TypeOK, CreateSchema, Knows
<1>2. /\ proc \in ProcState /\ proc.pc = "test" /\ proc.column = procs[p].column
      /\ proc.statement = 1
  BY <1>1 DEF ProcState
<1>3. procs' = [procs EXCEPT ![p] = proc] /\ procs'[p] = proc
  BY <1>1 DEF CreateSchema, Goto
<1>4. /\ table \in TableType \cup {None} /\ table' \in TableType
      /\ table = None => table' = Current
      /\ table # None => table' = table
      /\ UNCHANGED <<rows, made, crashes, abandoned>> /\ abandoned' \in BOOLEAN
  BY CurrentType DEF CreateSchema, IInv, TypeOK
<1>5. table' # None
  BY <1>4, NoneIsNoTable
<1>6. Knows(p)'
  BY <1>1, <1>2, <1>3, <1>5 DEF IInv, Knows
<1> QED
  BY <1>1, <1>2, <1>3, <1>4, <1>6, CurrentType, MigrateStep

\* The test for a legacy table preserves it.
LEMMA IInvTest ==
    ASSUME IInv, NEW p \in Process, has_legacy_mapping_unique_constraints(p) PROVE IInv'
<1> DEFINE proc == [procs[p] EXCEPT !.legacy = table.unique,
                       !.pc = IF table.unique THEN "rebuild" ELSE "table_info"]
<1>1. /\ procs[p] \in ProcState /\ procs[p].pc = "test" /\ procs \in [Process -> ProcState]
      /\ table # None /\ procs[p].column = 1 /\ procs[p].statement = 1
  BY DEF IInv, TypeOK, has_legacy_mapping_unique_constraints, Knows
<1>2. table \in TableType /\ table.unique \in BOOLEAN
  BY <1>1 DEF IInv, TypeOK, TableType
<1>3. /\ proc \in ProcState /\ proc.column = 1 /\ proc.legacy = table.unique
      /\ proc.pc = IF table.unique THEN "rebuild" ELSE "table_info"
      /\ proc.statement = 1
  BY <1>1, <1>2 DEF ProcState
<1>4. procs' = [procs EXCEPT ![p] = proc] /\ procs'[p] = proc
  BY <1>1 DEF has_legacy_mapping_unique_constraints, Tested
<1>5. UNCHANGED <<table, rows, made, crashes, abandoned>> /\ abandoned' \in BOOLEAN
  BY DEF has_legacy_mapping_unique_constraints, IInv, TypeOK
<1>6. Knows(p)'
  <2>1. CASE table.unique
    BY <1>1, <1>2, <1>3, <1>4, <1>5, <2>1 DEF Knows
  <2>2. CASE ~table.unique
    BY <1>1, <1>2, <1>3, <1>4, <1>5, <2>2 DEF Knows
  <2> QED
    BY <2>1, <2>2
<1>7. proc.pc \in {"rebuild", "table_info"}
  BY <1>3
<1> HIDE DEF proc
<1> QED
  BY <1>1, <1>2, <1>3, <1>4, <1>5, <1>6, <1>7, MigrateStep

(***************************************************************************)
(* A process that goes on to the next column, or from the last one to the  *)
(* constraints, knows what it must there, once this column exists.         *)
(***************************************************************************)
LEMMA NextColumnKnows ==
    ASSUME IInv, NEW p \in Process, NextColumn(p), procs[p].pc \in {"table_info", "alter"},
           table' \in TableType, table'.unique => table.unique,
           table.columns \subseteq table'.columns, Added[procs[p].column] \in table'.columns
    PROVE  \E proc \in ProcState : /\ procs' = [procs EXCEPT ![p] = proc]
                                   /\ proc.pc \in {"table_info", "constraints"}
                                   /\ proc.statement = 1
                                   /\ proc.rebuilt = procs[p].rebuilt
                                   /\ Knows(p)'
<1> DEFINE c == procs[p].column
           proc == IF c < Len(Added)
                   THEN [procs[p] EXCEPT !.pc = "table_info", !.column = c + 1]
                   ELSE [procs[p] EXCEPT !.pc = "constraints", !.column = 1]
<1>1. /\ procs \in [Process -> ProcState] /\ procs[p] \in ProcState /\ c \in 1 .. 4
      /\ procs[p].statement = 1
  BY Columns DEF IInv, TypeOK, ProcState, Knows
<1>2. /\ proc \in ProcState /\ proc.pc \in {"table_info", "constraints"}
      /\ proc.statement = 1 /\ proc.rebuilt = procs[p].rebuilt
  <2>1. CASE c < 4
    <3>1. proc = [procs[p] EXCEPT !.pc = "table_info", !.column = c + 1] /\ c + 1 \in 1 .. 4
      BY <1>1, <2>1, Columns
    <3> HIDE DEF proc
    <3> QED
      BY <1>1, <3>1, Columns DEF ProcState
  <2>2. CASE c = 4
    <3>1. proc = [procs[p] EXCEPT !.pc = "constraints", !.column = 1]
      BY <1>1, <2>2, Columns
    <3>2. 1 \in 1 .. Len(Added)
      BY Columns
    <3> HIDE DEF proc
    <3> QED
      BY <1>1, <3>1, <3>2 DEF ProcState
  <2> QED
    BY <1>1, <2>1, <2>2
<1>3. procs' = [procs EXCEPT ![p] = proc] /\ procs'[p] = proc
  BY <1>1 DEF NextColumn
<1>4. ~table'.unique /\ table' # None
  BY NoneIsNoTable DEF IInv, Knows
<1>5. \A i \in 1 .. c : Added[i] \in table'.columns
  <2>1. \A i \in 1 .. (c - 1) : Added[i] \in table.columns
    BY DEF IInv, Knows
  <2> QED
    BY <1>1, <2>1
<1>6. Knows(p)'
  <2>1. CASE c < 4
    <3>1. proc.pc = "table_info" /\ proc.column = c + 1
      BY <1>1, <2>1, Columns DEF ProcState
    <3> HIDE DEF proc
    <3> QED
      BY <1>1, <1>2, <1>3, <1>4, <1>5, <3>1 DEF Knows
  <2>2. CASE c = 4
    <3>1. proc.pc = "constraints"
      BY <1>1, <2>2, Columns DEF ProcState
    <3>2. Column \subseteq table'.columns
      BY <1>5, <2>2, Columns
    <3>3. table'.columns = Column
      BY <3>2 DEF TableType
    <3> HIDE DEF proc
    <3> QED
      BY <1>3, <1>4, <3>1, <3>3 DEF Knows
  <2> QED
    BY <1>1, <2>1, <2>2
<1> HIDE DEF proc
<1> QED
  BY <1>2, <1>3, <1>6

\* Asking for a column preserves it.
LEMMA IInvTableInfo == ASSUME IInv, NEW p \in Process, TableInfo(p) PROVE IInv'
<1>1. /\ procs[p] \in ProcState /\ procs[p].pc = "table_info"
      /\ procs \in [Process -> ProcState] /\ procs[p].column \in 1 .. 4
      /\ procs[p].statement = 1
  BY Columns DEF IInv, TypeOK, TableInfo, ProcState, Knows
<1>2. /\ table \in TableType /\ table # None
      /\ UNCHANGED <<table, rows, made, crashes, abandoned>> /\ abandoned' \in BOOLEAN
  BY <1>1 DEF IInv, TypeOK, TableInfo, Knows
<1>3. CASE Added[procs[p].column] \in table.columns
  <2>1. NextColumn(p)
    BY <1>3 DEF TableInfo
  <2>2. PICK proc \in ProcState : /\ procs' = [procs EXCEPT ![p] = proc]
                                  /\ proc.pc \in {"table_info", "constraints"}
                                  /\ proc.statement = 1
                                  /\ proc.rebuilt = procs[p].rebuilt
                                  /\ Knows(p)'
    BY <1>1, <1>2, <1>3, <2>1, NextColumnKnows
  <2> QED
    BY <1>1, <1>2, <2>2, MigrateStep
<1>4. CASE Added[procs[p].column] \notin table.columns
  <2> DEFINE proc == [procs[p] EXCEPT !.pc = "alter"]
  <2>1. /\ proc \in ProcState /\ proc.pc = "alter" /\ proc.column = procs[p].column
        /\ proc.statement = 1
    BY <1>1 DEF ProcState
  <2>2. procs' = [procs EXCEPT ![p] = proc] /\ procs'[p] = proc
    BY <1>1, <1>4 DEF TableInfo, Goto
  <2>3. Knows(p)'
    BY <1>1, <1>2, <2>1, <2>2 DEF IInv, Knows
  <2>4. table # Current
    BY <1>1, <1>4, Columns, CurrentType
  <2> HIDE DEF proc
  <2> QED
    BY <1>1, <1>2, <2>1, <2>2, <2>3, <2>4, MigrateStep
<1> QED
  BY <1>3, <1>4

\* A process that ends knows nothing, and is missed if it had rebuilt the table.
LEMMA ExitStep ==
    ASSUME IInv, NEW p \in Process, Exit(p)
    PROVE  /\ procs' = [procs EXCEPT ![p] = Down] /\ procs'[p] = Down
           /\ Down.pc = "down" /\ Down.statement = 1 /\ Knows(p)'
           /\ abandoned' \in BOOLEAN /\ (abandoned => abandoned')
           /\ procs[p].rebuilt => abandoned'
<1>1. procs' = [procs EXCEPT ![p] = Down] /\ procs'[p] = Down
  BY DEF IInv, TypeOK, Exit
<1>2. Down.pc = "down" /\ Down.column = 1 /\ Down.statement = 1
  BY DEF Down
<1>3. Knows(p)'
  BY <1>1, <1>2 DEF Knows
<1>4. abandoned \in BOOLEAN /\ procs[p].rebuilt \in BOOLEAN
  BY DEF IInv, TypeOK, ProcState
<1>5. abandoned' \in BOOLEAN /\ (abandoned => abandoned') /\ (procs[p].rebuilt => abandoned')
  BY <1>4, Zenon DEF Exit
<1> QED
  BY <1>1, <1>2, <1>3, <1>5

\* A process whose statement fails preserves it.
LEMMA ExitIInv ==
    ASSUME IInv, NEW p \in Process, Exit(p), UNCHANGED <<table, rows, made, crashes>>
    PROVE  IInv'
<1>1. /\ procs' = [procs EXCEPT ![p] = Down] /\ Down.pc = "down" /\ Down.statement = 1
      /\ Knows(p)' /\ abandoned' \in BOOLEAN /\ (abandoned => abandoned')
      /\ (procs[p].rebuilt => abandoned')
  BY ExitStep
<1>2. table \in TableType \cup {None} /\ Down \in ProcState
  BY CurrentType DEF IInv, TypeOK
<1> QED
  BY <1>1, <1>2, MigrateStep

\* Adding a column preserves it.
LEMMA IInvAlterTable == ASSUME IInv, NEW p \in Process, AlterTable(p) PROVE IInv'
<1>1. /\ procs[p] \in ProcState /\ procs[p].pc = "alter" /\ procs[p].column \in 1 .. 4
  BY Columns DEF IInv, TypeOK, AlterTable, ProcState
<1>2. table \in TableType /\ table # None /\ UNCHANGED <<rows, made, crashes>>
  BY <1>1 DEF IInv, TypeOK, AlterTable, Knows
<1>3. CASE Added[procs[p].column] \in table.columns
  <2>1. Exit(p) /\ table' = table
    BY <1>3 DEF AlterTable
  <2> QED
    BY <1>1, <1>2, <2>1, ExitIInv
<1>4. CASE Added[procs[p].column] \notin table.columns
  <2>1. /\ table' = [table EXCEPT !.columns = @ \cup {Added[procs[p].column]}]
        /\ NextColumn(p) /\ abandoned' = abandoned /\ abandoned' \in BOOLEAN
    BY <1>4 DEF AlterTable, IInv, TypeOK
  <2>2. /\ Added[procs[p].column] \in Column
    BY <1>1, Columns
  <2>3. /\ table' \in TableType /\ table'.unique = table.unique
        /\ table'.columns = table.columns \cup {Added[procs[p].column]}
    BY <1>2, <2>1, <2>2 DEF TableType
  <2>4. PICK proc \in ProcState : /\ procs' = [procs EXCEPT ![p] = proc]
                                  /\ proc.pc \in {"table_info", "constraints"}
                                  /\ proc.statement = 1
                                  /\ proc.rebuilt = procs[p].rebuilt
                                  /\ Knows(p)'
    BY <1>1, <2>1, <2>3, NextColumnKnows
  <2> QED
    BY <1>1, <1>2, <2>1, <2>3, <2>4, NoneIsNoTable, MigrateStep
<1> QED
  BY <1>3, <1>4

\* So does the rebuild, whose process is from then on on its way to the
\* constraints; when it fails nothing has changed.
LEMMA IInvRebuild == ASSUME IInv, NEW p \in Process, Rebuild(p) PROVE IInv'
<1>1. /\ procs \in [Process -> ProcState] /\ procs[p] \in ProcState
      /\ procs[p].pc = "rebuild" /\ procs[p].column = 1 /\ procs[p].statement = 1
      /\ rows \in Table /\ table \in TableType /\ UNCHANGED crashes
  BY DEF IInv, TypeOK, Rebuild, Knows
<1>2. CASE Copied \subseteq table.columns
  <2> DEFINE proc == [procs[p] EXCEPT !.pc = "table_info", !.rebuilt = TRUE]
  <2>1. /\ proc \in ProcState /\ proc.pc = "table_info" /\ proc.column = 1
        /\ proc.statement = 1 /\ proc.rebuilt = TRUE
    BY <1>1 DEF ProcState
  <2>2. /\ procs' = [procs EXCEPT ![p] = proc] /\ procs'[p] = proc
        /\ \A q \in Process \ {p} : procs'[q] = procs[q]
    BY <1>1, <1>2 DEF Rebuild
  <2>3. /\ table' = Current /\ made' = {} /\ abandoned' = FALSE
        /\ rows' = [i \in Id |-> IF rows[i] = None THEN None ELSE Rebuilt(rows[i])]
    BY <1>2 DEF Rebuild
  <2> HIDE DEF proc
  <2>4. TypeOK'
    <3>1. rows' \in Table
      BY <1>1, <2>3, RebuiltType DEF Table
    <3>2. procs' \in [Process -> ProcState]
      BY <1>1, <2>1, <2>2
    <3> QED
      BY <1>1, <2>3, <3>1, <3>2, CurrentType DEF IInv, TypeOK
  <2>5. Guarded'
    <3>1. \A k \in Constraint : Restores(p, k)'
      BY <2>1, <2>2 DEF Restores, Passed
    <3> QED
      BY <3>1 DEF Guarded
  <2>6. LegacyRows'
    BY <2>3, CurrentType DEF LegacyRows
  <2>7. Knows(p)'
    <3>1. procs'[p].pc = "table_info" /\ procs'[p].column = 1 /\ procs'[p].statement = 1
      BY <2>1, <2>2
    <3>2. table' # None /\ table'.unique = FALSE /\ table'.columns = Column
      BY <2>3, CurrentType
    <3>3. \A i \in 1 .. (procs'[p].column - 1) : Added[i] \in table'.columns
      BY <3>1
    <3> QED
      BY <3>1, <3>2, <3>3 DEF Knows
  <2>8. \A q \in Process \ {p} : Knows(q)'
    <3>1. table.columns \subseteq Current.columns
      BY <1>1, CurrentType DEF TableType
    <3> QED
      BY <2>2, <2>3, <3>1, CurrentType, OthersKnow
  <2> QED
    BY <2>4, <2>5, <2>6, <2>7, <2>8 DEF IInv
<1>3. CASE ~(Copied \subseteq table.columns)
  <2>1. UNCHANGED <<table, rows, made>> /\ Exit(p)
    BY <1>3 DEF Rebuild
  <2> QED
    BY <1>1, <2>1, ExitIInv
<1> QED
  BY <1>2, <1>3

(***************************************************************************)
(* A statement that makes a constraint or finds it preserves the           *)
(* invariant: what it puts behind itself exists.  When an index cannot be  *)
(* made, the process ends.                                                 *)
(***************************************************************************)
LEMMA IInvConstraints ==
    ASSUME IInv, NEW p \in Process, ensure_mapping_constraints(p) PROVE IInv'
<1> DEFINE k == procs[p].statement
<1>1. /\ procs \in [Process -> ProcState] /\ procs[p] \in ProcState
      /\ procs[p].pc = "constraints" /\ k \in Constraint
      /\ made \subseteq Constraint /\ abandoned \in BOOLEAN
      /\ UNCHANGED <<table, rows, crashes>>
      /\ table \in TableType /\ table # None
  BY DEF IInv, TypeOK, ensure_mapping_constraints, ProcState, Knows
<1>2. CASE UNCHANGED made /\ Exit(p)
  BY <1>1, <1>2, ExitIInv
<1>3. CASE Made(p, k)
  <2> DEFINE proc == IF k < 6 THEN [procs[p] EXCEPT !.statement = k + 1]
                              ELSE [Down EXCEPT !.pc = "ready"]
  <2>1. /\ proc \in ProcState
        /\ k < 6 => /\ proc.pc = "constraints" /\ proc.statement = k + 1
                    /\ proc.rebuilt = procs[p].rebuilt
        /\ k = 6 => proc.pc = "ready" /\ proc.statement = 1
    <3>1. k \in {1, 2, 3, 4, 5, 6}
      BY <1>1 DEF Constraint, Index, Trigger
    <3>2. CASE k < 6
      <4>1. k + 1 \in Constraint
        BY <3>1, <3>2 DEF Constraint, Index, Trigger
      <4>2. proc = [procs[p] EXCEPT !.statement = k + 1]
        BY <3>2
      <4>3. ~(k = 6)
        BY <3>1, <3>2
      <4> HIDE DEF proc
      <4> QED
        BY <1>1, <4>1, <4>2, <4>3 DEF ProcState
    <3>3. CASE k = 6
      <4>1. proc = [Down EXCEPT !.pc = "ready"] /\ ~(k < 6)
        BY <3>3
      <4>2. [Down EXCEPT !.pc = "ready"] \in ProcState
        BY CurrentType DEF ProcState
      <4>3. /\ [Down EXCEPT !.pc = "ready"].pc = "ready"
            /\ [Down EXCEPT !.pc = "ready"].statement = 1
        BY DEF Down
      <4> HIDE DEF proc
      <4> QED
        BY <3>3, <4>1, <4>2, <4>3
    <3> QED
      BY <3>1, <3>2, <3>3
  <2>2. /\ procs' = [procs EXCEPT ![p] = proc] /\ procs'[p] = proc
        /\ \A q \in Process \ {p} : procs'[q] = procs[q]
    BY <1>1, <1>3 DEF Made
  <2>3. made' = made \cup {k} /\ made' \subseteq Constraint /\ abandoned' \in BOOLEAN
    BY <1>1, <1>3 DEF Made
  <2>4. made' # Constraint => abandoned' = abandoned
    BY <1>1, <1>3 DEF Made
  <2>5. k \in 1 .. 6
    BY <1>1 DEF Constraint, Index, Trigger
  <2> HIDE DEF proc
  <2>6. TypeOK'
    BY <1>1, <2>1, <2>2, <2>3 DEF IInv, TypeOK
  <2>7. \A q \in Process : Knows(q)'
    <3>1. ~table.unique /\ table.columns = Column
      BY <1>1 DEF IInv, Knows
    <3>2. procs'[p].pc = "constraints" \/ (procs'[p].pc = "ready" /\ procs'[p].statement = 1)
      BY <2>1, <2>2, <2>5
    <3>3. Knows(p)'
      BY <1>1, <3>1, <3>2 DEF Knows
    <3>4. \A q \in Process \ {p} : Knows(q)'
      BY <1>1, <2>2 DEF IInv, Knows
    <3> QED
      BY <3>3, <3>4
  <2>8. Guarded'
    <3> SUFFICES ASSUME NEW r \in Process, NEW j \in Constraint, Passed(r, j)', j \notin made'
                 PROVE  abandoned' \/ \E q \in Process : Restores(q, j)'
      BY DEF Guarded
    <3>1. j # k /\ j \notin made /\ abandoned' = abandoned /\ j \in 1 .. 6
      BY <2>3, <2>4 DEF Constraint, Index, Trigger
    <3>2. (Passed(p, j)' => Passed(p, j)) \/ k = 6
      BY <1>1, <2>1, <2>2, <2>5, <3>1 DEF Passed
    <3>3. k = 6 => Passed(p, j)
      BY <1>1, <3>1 DEF Passed
    <3>4. Passed(r, j)
      BY <2>2, <3>2, <3>3 DEF Passed
    <3>5. CASE abandoned
      BY <3>1, <3>5
    <3>6. ASSUME NEW q \in Process, Restores(q, j) PROVE Restores(q, j)'
      <4>1. CASE q # p
        BY <2>2, <3>6, <4>1 DEF Restores, Passed
      <4>2. CASE q = p
        <5>1. ~Passed(p, j) /\ procs[p].rebuilt /\ k < 6
          BY <2>5, <3>3, <3>6, <4>2 DEF Restores
        <5>2. procs'[p].pc = "constraints" /\ procs'[p].statement = k + 1 /\ procs'[p].rebuilt
          BY <2>1, <2>2, <5>1
        <5>3. ~Passed(p, j)'
          BY <1>1, <2>5, <3>1, <5>1, <5>2 DEF Passed
        <5> QED
          BY <4>2, <5>2, <5>3 DEF Restores
      <4> QED
        BY <4>1, <4>2
    <3> QED
      BY <3>1, <3>4, <3>5, <3>6 DEF IInv, Guarded
  <2>9. LegacyRows'
    BY <1>1 DEF IInv, LegacyRows
  <2> QED
    BY <2>6, <2>7, <2>8, <2>9 DEF IInv
<1> QED
  BY <1>2, <1>3 DEF ensure_mapping_constraints

\* The work of a process that is ready preserves it: the table is no legacy one.
LEMMA IInvWork == ASSUME IInv, NEW p \in Process, Work(p) PROVE IInv'
<1>1. /\ rows \in Table /\ procs[p].pc = "ready"
      /\ UNCHANGED <<table, made, procs, crashes, abandoned>>
      /\ rows' \in Table
  BY RowsAssumption DEF IInv, TypeOK, Work, insert_mapping, delete_mapping, Table
<1>2. TypeOK' /\ Guarded'
  BY <1>1 DEF IInv, TypeOK, Guarded, Passed, Restores
<1>3. ~table.unique
  BY <1>1 DEF IInv, Knows
<1>4. LegacyRows'
  BY <1>1, <1>3 DEF LegacyRows
<1>5. \A q \in Process : Knows(q)'
  BY <1>1 DEF IInv, Knows
<1> QED
  BY <1>2, <1>4, <1>5 DEF IInv

\* A crash preserves it.
LEMMA IInvCrash == ASSUME IInv, NEW p \in Process, Crash(p) PROVE IInv'
<1>1. /\ UNCHANGED <<table, rows, made>>
      /\ crashes' \in 0 .. MaxCrashes
  BY CrashAssumption DEF Crash, IInv, TypeOK
<1>2. /\ procs' = [procs EXCEPT ![p] = Down] /\ procs'[p] = Down
      /\ Down.pc = "down" /\ Down.statement = 1 /\ Knows(p)'
      /\ abandoned' \in BOOLEAN /\ (abandoned => abandoned')
      /\ procs[p].rebuilt => abandoned'
  BY ExitStep DEF Crash
<1>3. TypeOK' /\ \A q \in Process \ {p} : procs'[q] = procs[q]
  <2>1. procs \in [Process -> ProcState]
    BY DEF IInv, TypeOK
  <2>2. procs' \in [Process -> ProcState] /\ \A q \in Process \ {p} : procs'[q] = procs[q]
    BY <1>2, <2>1, CurrentType
  <2> QED
    BY <1>1, <1>2, <2>2 DEF IInv, TypeOK
<1>4. \A q \in Process : Knows(q)'
  BY <1>1, <1>2, <1>3 DEF IInv, Knows
<1>5. LegacyRows'
  BY <1>1 DEF IInv, LegacyRows
<1>6. Guarded'
  <2> SUFFICES ASSUME NEW r \in Process, NEW k \in Constraint, Passed(r, k)', k \notin made',
                      ~abandoned'
               PROVE  \E q \in Process : Restores(q, k)'
    BY DEF Guarded
  <2>1. r # p /\ Passed(r, k)
    BY <1>2, <1>3 DEF Passed
  <2>2. PICK q \in Process : Restores(q, k)
    BY <1>1, <1>2, <2>1 DEF IInv, Guarded
  <2>3. q # p
    BY <1>2, <2>2 DEF Restores
  <2> QED
    BY <1>3, <2>2, <2>3 DEF Restores, Passed
<1> QED
  BY <1>3, <1>4, <1>5, <1>6 DEF IInv

(***************************************************************************)
(* Every step of every process preserves the inductive invariant.          *)
(***************************************************************************)
LEMMA IInvNext == IInv /\ [Next]_vars => IInv'
<1> SUFFICES ASSUME IInv, [Next]_vars PROVE IInv'
  OBVIOUS
<1>1. ASSUME NEW p \in Process, Migrate(p) PROVE IInv'
  BY <1>1, IInvConnect, IInvCreateSchema, IInvTest, IInvRebuild, IInvTableInfo,
     IInvAlterTable, IInvConstraints DEF Migrate
<1>2. CASE UNCHANGED vars
  BY <1>2 DEF vars, IInv, TypeOK, Guarded, Passed, Restores, LegacyRows, Knows
<1> QED
  BY <1>1, <1>2, IInvWork, IInvCrash DEF Next

\* The inductive invariant holds in every reachable state.
LEMMA IInvAlways == Spec => []IInv
  BY IInvInit, IInvNext, PTL DEF Spec

-----------------------------------------------------------------------------
(***************************************************************************)
(* Type correctness of migrate, run by any number of processes.            *)
(***************************************************************************)
THEOREM TypeCorrect == Spec => []TypeOK
<1>1. IInv => TypeOK
  BY DEF IInv
<1> QED
  BY <1>1, IInvAlways, PTL

(***************************************************************************)
(* However many processes create, rebuild and alter the table at once, and *)
(* wherever they stop: a process for which connect returned has all        *)
(* columns and no legacy constraint, and keeps them.                       *)
(***************************************************************************)
THEOREM ReadyHasSchema == Spec => []ReadySchema
  BY IInvAlways, ReadyTable, PTL

(***************************************************************************)
(* A process that is ready lacks an index or a trigger only while a        *)
(* process that has rebuilt the table is on its way to make it, or after   *)
(* that one ended before (by a crash, or because rows violate an index)    *)
(* and until the constraints are completed.                                *)
(***************************************************************************)
THEOREM ReadyIsConstrained == Spec => []ReadyConstrained
<1>1. IInv => ReadyConstrained
  BY DEF IInv, Guarded, ReadyConstrained, Passed
<1> QED
  BY <1>1, IInvAlways, PTL

(***************************************************************************)
(* migrate loses no mapping and invents none, also when a table is rebuilt *)
(* twice or a rebuild fails.                                               *)
(***************************************************************************)
THEOREM RowsAlwaysSurvive == Spec => RowsSurvive
<1>1. IInv /\ [Next]_vars =>
        [procs' # procs => \A id \in Id : (rows'[id] = None) = (rows[id] = None)]_vars
  <2> SUFFICES ASSUME IInv, NEW p \in Process, Migrate(p) \/ Work(p) \/ Crash(p),
                      procs' # procs, NEW id \in Id
               PROVE  (rows'[id] = None) = (rows[id] = None)
    BY DEF Next
  <2>1. CASE Rebuild(p)
    BY <2>1, RebuiltType DEF Rebuild, IInv, TypeOK, Table
  <2>2. CASE UNCHANGED rows
    BY <2>2
  <2>3. ~Work(p)
    BY DEF Work, insert_mapping, delete_mapping
  <2> QED
    BY <2>1, <2>2, <2>3 DEF Migrate, connect, CreateSchema,
       has_legacy_mapping_unique_constraints, TableInfo, AlterTable,
       ensure_mapping_constraints, Crash
<1> QED
  BY <1>1, IInvAlways, PTL DEF Spec, RowsSurvive

(***************************************************************************)
(* The rebuild costs a row its port or backend only in the race of two     *)
(* processes: it was made by one that found a legacy table after another   *)
(* had already replaced that table.                                        *)
(***************************************************************************)
THEOREM PortsSurvive == Spec => PortsLostOnlyByRace
<1> DEFINE Excused ==
        \A id \in Id :
           rows[id] # None /\ rows'[id] \notin {None, rows[id]} =>
              \E p \in Process :
                  /\ procs[p].pc = "rebuild" /\ procs'[p].pc # "rebuild"
                  /\ procs[p].legacy /\ ~table.unique
<1>1. IInv /\ [Next]_vars => [Excused]_vars
  <2> SUFFICES ASSUME IInv, NEW p \in Process, Migrate(p) \/ Work(p) \/ Crash(p),
                      NEW id \in Id, rows[id] # None, rows'[id] \notin {None, rows[id]}
               PROVE  /\ procs[p].pc = "rebuild" /\ procs'[p].pc # "rebuild"
                      /\ procs[p].legacy /\ ~table.unique
    BY DEF Next
  <2>1. ~Work(p)
    <3>1. rows \in [Id -> MappingType \cup {None}]
      BY DEF IInv, TypeOK, Table
    <3>2. ASSUME NEW i \in Id, delete_mapping(p, i) PROVE FALSE
      BY <3>1, <3>2 DEF delete_mapping
    <3>3. ASSUME NEW i \in Id, NEW m \in Rows, insert_mapping(p, i, m) PROVE FALSE
      BY <3>1, <3>3 DEF insert_mapping
    <3> QED
      BY <3>2, <3>3 DEF Work
  <2>2. Rebuild(p) /\ rows' # rows
    BY <2>1 DEF Migrate, connect, CreateSchema, has_legacy_mapping_unique_constraints,
       TableInfo, AlterTable, ensure_mapping_constraints, Crash
  <2>3. procs[p].pc = "rebuild" /\ procs[p].legacy /\ table # None
    BY <2>2 DEF Rebuild, IInv, Knows
  <2>4. /\ rows'[id] = Rebuilt(rows[id])
        /\ procs' = [procs EXCEPT ![p].pc = "table_info", ![p].rebuilt = TRUE]
    BY <2>2 DEF Rebuild
  <2>5. procs'[p].pc # "rebuild"
    BY <2>4 DEF IInv, TypeOK, ProcState
  <2>6. ~table.unique
    BY <2>3, <2>4 DEF IInv, LegacyRows, Stored
  <2> QED
    BY <2>3, <2>5, <2>6
<1> QED
  BY <1>1, IInvAlways, PTL DEF Spec, PortsLostOnlyByRace
=============================================================================
