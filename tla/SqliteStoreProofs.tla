------------------------- MODULE SqliteStoreProofs --------------------------
(***************************************************************************)
(* Proofs about SqliteStore, for any number of callers and mappings and    *)
(* any sets of requests, allocations and configurations.                   *)
(***************************************************************************)
EXTENDS SqliteStore, TLAPS

(***************************************************************************)
(* The indexes and triggers of the database imply the `conflicts` test of  *)
(* edge-core, in both directions, for well-formed rows.                    *)
(***************************************************************************)
LEMMA DisjointWrite ==
    ASSUME NEW t \in Table, NEW id \in Id, NEW m \in MappingType,
           WellFormed(m), \A i \in Stored(t) : WellFormed(t[i]),
           DbAccepts(t, id, m)
    PROVE  \A j \in Stored(t) \ {id} :
              TableView!Disjoint(m, t[j]) /\ TableView!Disjoint(t[j], m)
<1> TAKE j \in Stored(t) \ {id}
<1>1. t[j] \in MappingType /\ WellFormed(t[j])
  BY DEF Stored, Table
<1>2. CASE ~(m.enabled /\ t[j].enabled)
  BY <1>2 DEF TableView!Disjoint, TableView!conflicts
<1>3. CASE m.enabled /\ t[j].enabled
  <2>1. t[j] \in EnabledOthers(t, id)
    BY <1>3 DEF EnabledOthers, Others
  <2> QED
    BY <1>1, <1>3, <2>1
    DEF DbAccepts, UniqueIndexesHold, TriggerAccepts, WellFormed, MappingType, MappingMode,
        OneToOneSnat, PortForwardSnat, TableView!OneToOneSnat, TableView!PortForwardSnat,
        TableView!Disjoint, TableView!conflicts, TableView!SharesPublicIp
<1> QED
  BY <1>2, <1>3

(***************************************************************************)
(* The edits of a row keep its type and its identity, and the switch and   *)
(* the status keep it well-formed.                                         *)
(***************************************************************************)
LEMMA Edits ==
    ASSUME NEW m \in MappingType
    PROVE  /\ \A b \in BOOLEAN : /\ SetEnabled(m, b) \in MappingType
                                 /\ TableView!Identity(SetEnabled(m, b)) = TableView!Identity(m)
                                 /\ WellFormed(m) => WellFormed(SetEnabled(m, b))
           /\ \A s \in MappingStatus :
                 /\ MarkStatus(m, s) \in MappingType
                 /\ TableView!Identity(MarkStatus(m, s)) = TableView!Identity(m)
                 /\ WellFormed(m) => WellFormed(MarkStatus(m, s))
           /\ MappingNew(m) \in MappingType
           /\ Released(m) \in MappingType
           /\ TableView!Identity(Released(m)) = TableView!Identity(m)
           /\ \A a \in Allocations :
                 /\ Allocated(m, a) \in MappingType
                 /\ TableView!Identity(Allocated(m, a)) = TableView!Identity(m)
<1>1. \A b \in BOOLEAN : /\ SetEnabled(m, b) \in MappingType
                         /\ TableView!Identity(SetEnabled(m, b)) = TableView!Identity(m)
                         /\ WellFormed(m) => WellFormed(SetEnabled(m, b))
  BY DEF SetEnabled, MappingType, MappingStatus, WellFormed, TableView!Identity
<1>2. \A s \in MappingStatus :
         /\ MarkStatus(m, s) \in MappingType
         /\ TableView!Identity(MarkStatus(m, s)) = TableView!Identity(m)
         /\ WellFormed(m) => WellFormed(MarkStatus(m, s))
  BY DEF MarkStatus, MappingType, WellFormed, TableView!Identity
<1>3. MappingNew(m) \in MappingType
  BY DEF MappingNew, MappingType, MappingStatus
<1>4. Released(m) \in MappingType /\ TableView!Identity(Released(m)) = TableView!Identity(m)
  BY DEF Released, MarkStatus, MappingType, MappingStatus, TableView!Identity
<1>5. \A a \in Allocations : /\ Allocated(m, a) \in MappingType
                             /\ TableView!Identity(Allocated(m, a)) = TableView!Identity(m)
  BY AllocationsAssumption
  DEF Allocated, MarkStatus, MappingType, MappingStatus, TableView!Identity
<1> QED
  BY <1>1, <1>2, <1>3, <1>4, <1>5

-----------------------------------------------------------------------------
(* The inductive invariant. *)

\* The empty store satisfies the inductive invariant.
LEMMA IInvInit == Init => IInv
<1> SUFFICES ASSUME Init PROVE IInv
  OBVIOUS
<1>1. TypeOK
  BY DEF Init, TypeOK, Table, EmptyTable, Call, Idle
<1>2. Stored(rows) = {}
  BY DEF Init, Stored, EmptyTable
<1>3. EnabledRowsDisjoint /\ RowsWellFormed
  BY <1>2 DEF EnabledRowsDisjoint, RowsWellFormed, TableView!ConflictFree, TableView!Stored, Stored
<1>4. \A c \in Caller : CallSound(c)
  BY DEF Init, CallSound, Idle
<1>5. \A i \in deleted : rows[i] = None
  BY DEF Init
<1> QED
  BY <1>1, <1>3, <1>4, <1>5 DEF IInv

(***************************************************************************)
(* A step of caller c that leaves the table and the configuration alone    *)
(* keeps the invariant, if the call c is left with is sound and does not   *)
(* take the id of an insert under way.                                     *)
(***************************************************************************)
LEMMA OnlyCall ==
    ASSUME IInv, NEW c \in Caller, NEW call \in Call,
           UNCHANGED <<rows, config, deleted>>,
           calls' = [calls EXCEPT ![c] = call],
           CallSound(c)',
           \A d \in Caller \ {c} : calls[d].op = "insert" => calls[d].id # call.id
    PROVE  IInv'
<1>1. TypeOK'
  BY DEF IInv, TypeOK
<1>2. EnabledRowsDisjoint' /\ RowsWellFormed' /\ \A i \in deleted' : rows'[i] = None
  BY DEF IInv, EnabledRowsDisjoint, RowsWellFormed, TableView!ConflictFree,
         TableView!Stored, Stored
<1>3. ASSUME NEW d \in Caller \ {c} PROVE CallSound(d)'
  <2>1. calls'[d] = calls[d] /\ calls'[c] = call /\ CallSound(d)
    BY DEF IInv, TypeOK
  <2>2. \A e \in Caller \ {d} : calls[d].op = "insert" => calls'[e].id # calls[d].id
    BY <2>1 DEF IInv, TypeOK, CallSound
  <2> QED
    BY <2>1, <2>2 DEF CallSound
<1> QED
  BY <1>1, <1>2, <1>3 DEF IInv

(***************************************************************************)
(* So does a step that writes the row with some id, disjoint from the      *)
(* others, and ends or leaves alone the call of its caller, if the row     *)
(* keeps its identity, or is inserted by the caller who owns the id.       *)
(***************************************************************************)
LEMMA WriteRow ==
    ASSUME IInv, NEW c \in Caller, NEW id \in Id, NEW m \in MappingType,
           WellFormed(m),
           \A j \in Stored(rows) \ {id} :
              TableView!Disjoint(m, rows[j]) /\ TableView!Disjoint(rows[j], m),
           \/ rows[id] # None /\ TableView!Identity(m) = TableView!Identity(rows[id])
           \/ rows[id] = None /\ calls[c].op = "insert" /\ calls[c].id = id,
           rows' = [rows EXCEPT ![id] = m],
           \/ calls' = [calls EXCEPT ![c] = Idle]
           \/ UNCHANGED calls /\ rows[id] # None,
           UNCHANGED <<config, deleted>>
    PROVE  IInv'
<1>0. rows \in Table /\ calls \in [Caller -> Call] /\ Idle \in Call
  BY DEF IInv, TypeOK, Call, Idle
<1>1. rows' \in Table /\ rows'[id] = m /\ \A j \in Id \ {id} : rows'[j] = rows[j]
  BY <1>0 DEF Table
<1>2. m # None
  BY NoneIsNoRecord
<1>3. /\ \A i \in Stored(rows) : WellFormed(rows[i])
      /\ Stored(rows)' = Stored(rows) \cup {id}
  BY <1>1, <1>2 DEF Stored, IInv, RowsWellFormed
<1>4. \A i \in Stored(rows)' : WellFormed(rows'[i])
  BY <1>1, <1>3 DEF Stored
<1>5. ASSUME NEW i \in Stored(rows)', NEW j \in Stored(rows)', i # j
      PROVE  TableView!Disjoint(rows'[i], rows'[j])
  <2>1. CASE i # id /\ j # id
    BY <2>1, <1>3, <1>1, <1>5
    DEF IInv, EnabledRowsDisjoint, TableView!ConflictFree, TableView!Stored, Stored
  <2> QED
    BY <2>1, <1>1, <1>3, <1>5 DEF Stored
<1>6. TypeOK'
  BY <1>0, <1>1 DEF IInv, TypeOK
<1>7. EnabledRowsDisjoint' /\ RowsWellFormed'
  BY <1>4, <1>5 DEF EnabledRowsDisjoint, RowsWellFormed, TableView!ConflictFree,
                    TableView!Stored, Stored
<1>8. id \notin deleted
  BY DEF IInv, CallSound
<1>9. \A i \in deleted' : rows'[i] = None
  BY <1>1, <1>8 DEF IInv, TypeOK
<1>10. ASSUME NEW d \in Caller PROVE CallSound(d)'
  <2>1. CASE calls'[d] = Idle
    BY <2>1 DEF CallSound, Idle
  <2>2. CASE calls'[d] = calls[d] /\ ~(calls[d].op = "insert" /\ calls[d].id = id)
    <3>1. CallSound(d)
      BY DEF IInv
    <3>2. \A e \in Caller \ {d} : calls[d].op = "insert" => calls'[e].id # calls[d].id
      BY <3>1, <1>0, NoneAssumption DEF CallSound, Idle
    <3>3. calls[d].op \in {"update", "delete"} /\ calls[d].id = id => rows[id] # None
      BY <3>1, <1>8, <1>0 DEF CallSound, IInv
    <3> QED
      BY <2>2, <3>1, <3>2, <3>3, <1>1, <1>2 DEF CallSound
  <2>3. calls'[d] = Idle \/ (calls'[d] = calls[d] /\ ~(calls[d].op = "insert" /\ calls[d].id = id))
    BY <1>0 DEF IInv, CallSound
  <2> QED
    BY <2>1, <2>2, <2>3
<1> QED
  BY <1>6, <1>7, <1>9, <1>10 DEF IInv

(***************************************************************************)
(* A change of status can not make two rows conflict.                      *)
(***************************************************************************)
LEMMA StatusWrite ==
    ASSUME NEW t \in Table, NEW id \in Stored(t), NEW s \in MappingStatus,
           TableView!ConflictFree(t), NEW j \in Stored(t) \ {id}
    PROVE  /\ TableView!Disjoint(MarkStatus(t[id], s), t[j])
           /\ TableView!Disjoint(t[j], MarkStatus(t[id], s))
<1>1. t[id] \in MappingType
  BY DEF Table, Stored
<1>2. TableView!Disjoint(t[id], t[j]) /\ TableView!Disjoint(t[j], t[id])
  BY DEF TableView!ConflictFree, TableView!Stored, Stored
<1> QED
  BY <1>1, <1>2 DEF MarkStatus, MappingType, TableView!Disjoint, TableView!conflicts,
                    TableView!SharesPublicIp

\* Every statement of every caller preserves it.
LEMMA IInvNext == IInv /\ [Next]_vars => IInv'
<1> SUFFICES ASSUME IInv, [Next]_vars PROVE IInv'
  OBVIOUS
<1>0. rows \in Table /\ calls \in [Caller -> Call] /\ Idle \in Call
  BY DEF IInv, TypeOK, Call, Idle
<1>1. CASE UNCHANGED vars
  BY <1>1 DEF vars, IInv, TypeOK, EnabledRowsDisjoint, RowsWellFormed, CallSound,
              TableView!ConflictFree, TableView!Stored, Stored
<1>2. ASSUME NEW c \in Caller, NEW id \in Id, NEW request \in Requests,
             insert_mapping(c, id, request)
      PROVE  IInv'
  <2> DEFINE call == [Idle EXCEPT !.op = "insert", !.pc = "edge_config", !.id = id,
                                  !.m = MappingNew(request)]
  <2>1. call \in Call /\ MappingNew(request) \in MappingType
    BY Edits, RequestsAssumption DEF Call, Idle
  <2>2. calls' = [calls EXCEPT ![c] = call] /\ UNCHANGED <<rows, config, deleted>> /\ Fresh(id)
    BY <1>2 DEF insert_mapping, Begin
  <2>3. CallSound(c)'
    BY <1>0, <2>1, <2>2 DEF CallSound, Fresh, Idle
  <2>4. \A d \in Caller \ {c} : calls[d].op = "insert" => calls[d].id # call.id
    BY <2>2 DEF Fresh, Idle
  <2> QED
    BY <2>1, <2>2, <2>3, <2>4, OnlyCall
<1>3. ASSUME NEW c \in Caller, NEW id \in Id, NEW m \in MappingType,
             rows[id] # None, TableView!Identity(m) = TableView!Identity(rows[id]),
             BeginUpdate(c, id, m)
      PROVE  IInv'
  <2> DEFINE call == [Idle EXCEPT !.op = "update", !.pc = "edge_config", !.id = id, !.m = m]
  <2>1. call \in Call
    BY DEF Call, Idle
  <2>2. calls' = [calls EXCEPT ![c] = call] /\ UNCHANGED <<rows, config, deleted>>
    BY <1>3 DEF BeginUpdate, Begin
  <2>3. CallSound(c)'
    BY <1>0, <1>3, <2>2 DEF CallSound, Idle
  <2>4. \A d \in Caller \ {c} : calls[d].op = "insert" => calls[d].id # call.id
    BY <1>3 DEF IInv, CallSound, Idle
  <2> QED
    BY <2>1, <2>2, <2>3, <2>4, OnlyCall
<1>4. ASSUME NEW c \in Caller, NEW id \in Id, delete_mapping(c, id)
      PROVE  IInv'
  <2> DEFINE call == [Idle EXCEPT !.op = "delete", !.pc = "write", !.id = id]
  <2>1. call \in Call
    BY DEF Call, Idle
  <2>2. calls' = [calls EXCEPT ![c] = call] /\ UNCHANGED <<rows, config, deleted>>
    BY <1>4 DEF delete_mapping, Begin
  <2>3. CallSound(c)'
    BY <1>0, <1>4, <2>2 DEF CallSound, Idle, delete_mapping
  <2>4. \A d \in Caller \ {c} : calls[d].op = "insert" => calls[d].id # call.id
    BY <1>4 DEF IInv, CallSound, Idle, delete_mapping
  <2> QED
    BY <2>1, <2>2, <2>3, <2>4, OnlyCall
<1>5. ASSUME NEW c \in Caller, NEW cfg \in Configs, ensure_edge_config(c, cfg)
      PROVE  IInv'
  <2> DEFINE call == [Idle EXCEPT !.op = "ensure", !.pc = "write", !.config = cfg]
  <2>1. call \in Call
    BY ConfigsAssumption DEF Call, Idle
  <2>2. calls' = [calls EXCEPT ![c] = call] /\ UNCHANGED <<rows, config, deleted>>
    BY <1>5 DEF ensure_edge_config, Begin
  <2>3. CallSound(c)'
    BY <1>0, <2>2, ConfigsAssumption DEF CallSound, Idle
  <2>4. \A d \in Caller \ {c} : calls[d].op = "insert" => calls[d].id # call.id
    BY NoneAssumption DEF IInv, CallSound, Idle
  <2> QED
    BY <2>1, <2>2, <2>3, <2>4, OnlyCall
<1>6. ASSUME NEW c \in Caller, Return(c), UNCHANGED <<rows, config, deleted>>
      PROVE  IInv'
  <2>1. CallSound(c)'
    BY <1>0, <1>6 DEF CallSound, Return, Idle
  <2>2. \A d \in Caller \ {c} : calls[d].op = "insert" => calls[d].id # Idle.id
    BY NoneAssumption DEF IInv, CallSound, Idle
  <2> QED
    BY <1>0, <1>6, <2>1, <2>2, OnlyCall DEF Return
<1>7. ASSUME NEW c \in Caller, ReadEdgeConfig(c) \/ ReadDuplicates(c)
      PROVE  IInv'
  <2>0. calls[c].op \in {"insert", "update"} /\ UNCHANGED <<rows, config, deleted>>
    BY <1>7 DEF IInv, CallSound, ReadEdgeConfig, ReadDuplicates
  <2>1. CASE Return(c)
    BY <2>0, <2>1, <1>6
  <2>2. ASSUME NEW pc \in {"reject_duplicates", "write"}, Goto(c, pc), WellFormed(calls[c].m)
        PROVE  IInv'
    <3> DEFINE call == [calls[c] EXCEPT !.pc = pc]
    <3>1. call \in Call
      BY <1>0 DEF Call
    <3>2. calls' = [calls EXCEPT ![c] = call]
      BY <2>2, <1>0 DEF Goto
    <3>3. call.op = calls[c].op /\ call.id = calls[c].id /\ call.m = calls[c].m
          /\ call.pc = pc /\ calls'[c] = call
      BY <1>0, <3>2 DEF Call
    <3>4. \A d \in Caller \ {c} : calls'[d] = calls[d]
      BY <1>0, <3>2
    <3>5. CallSound(c)'
      BY <2>0, <2>2, <3>3, <3>4 DEF IInv, CallSound
    <3>6. \A d \in Caller \ {c} : calls[d].op = "insert" => calls[d].id # call.id
      BY <3>3 DEF IInv, CallSound
    <3> QED
      BY <2>0, <3>1, <3>2, <3>5, <3>6, OnlyCall
  <2>3. CASE ReadEdgeConfig(c)
    BY <2>1, <2>2, <2>3 DEF ReadEdgeConfig, validate_mapping
  <2>4. CASE ReadDuplicates(c)
    <3>1. WellFormed(calls[c].m)
      BY <2>0, <2>4 DEF IInv, CallSound, ReadDuplicates
    <3> QED
      BY <2>1, <2>2, <2>4, <3>1 DEF ReadDuplicates
  <2> QED
    BY <1>7, <2>3, <2>4
<1>8. ASSUME NEW c \in Caller, InsertRow(c) \/ UpdateRow(c)
      PROVE  IInv'
  <2>1. CASE rows' = rows
    BY <1>6, <1>8, <2>1 DEF InsertRow, UpdateRow
  <2>2. CASE rows' # rows
    <3> DEFINE id == calls[c].id  m == calls[c].m
    <3>1. /\ id \in Id /\ m \in MappingType /\ WellFormed(m)
          /\ \/ rows[id] # None /\ TableView!Identity(m) = TableView!Identity(rows[id])
             \/ rows[id] = None /\ calls[c].op = "insert"
      BY <1>8, <2>2 DEF IInv, CallSound, InsertRow, UpdateRow
    <3>2. /\ DbAccepts(rows, id, m)
          /\ rows' = [rows EXCEPT ![id] = m]
          /\ calls' = [calls EXCEPT ![c] = Idle]
          /\ UNCHANGED <<config, deleted>>
      BY <1>8, <2>2 DEF InsertRow, UpdateRow, Return
    <3>3. \A i \in Stored(rows) : WellFormed(rows[i])
      BY DEF IInv, RowsWellFormed
    <3>4. \A j \in Stored(rows) \ {id} :
             TableView!Disjoint(m, rows[j]) /\ TableView!Disjoint(rows[j], m)
      BY <1>0, <3>1, <3>2, <3>3, DisjointWrite
    <3> HIDE DEF id, m
    <3> QED
      BY <3>1, <3>2, <3>4, WriteRow DEF id
  <2> QED
    BY <2>1, <2>2
<1>9. ASSUME NEW c \in Caller, NEW id \in Id, NEW b \in BOOLEAN, set_mapping_enabled(c, id, b)
      PROVE  IInv'
  <2> DEFINE m == SetEnabled(rows[id], b)
  <2>1. rows[id] \in MappingType /\ WellFormed(rows[id]) /\ rows[id] # None
    BY <1>0, <1>9 DEF IInv, RowsWellFormed, Stored, Table, set_mapping_enabled
  <2>2. m \in MappingType /\ WellFormed(m) /\ TableView!Identity(m) = TableView!Identity(rows[id])
    BY <2>1, Edits
  <2>3. /\ DbAccepts(rows, id, m)
        /\ rows' = [rows EXCEPT ![id] = m]
        /\ UNCHANGED <<calls, config, deleted>>
    BY <1>9 DEF set_mapping_enabled
  <2>4. \A i \in Stored(rows) : WellFormed(rows[i])
    BY DEF IInv, RowsWellFormed
  <2> HIDE DEF m
  <2>5. \A j \in Stored(rows) \ {id} :
           TableView!Disjoint(m, rows[j]) /\ TableView!Disjoint(rows[j], m)
    BY <1>0, <2>2, <2>3, <2>4, DisjointWrite
  <2> QED
    BY <2>1, <2>2, <2>3, <2>5, WriteRow
<1>10. ASSUME NEW c \in Caller, NEW id \in Id, NEW s \in MappingStatus, set_mapping_health(c, id, s)
       PROVE  IInv'
  <2> DEFINE m == MarkStatus(rows[id], s)
  <2>1. /\ rows[id] \in MappingType /\ WellFormed(rows[id])
        /\ id \in Stored(rows) /\ rows[id] # None
    BY <1>0, <1>10 DEF IInv, RowsWellFormed, Stored, Table, set_mapping_health
  <2>2. m \in MappingType /\ WellFormed(m) /\ TableView!Identity(m) = TableView!Identity(rows[id])
    BY <2>1, Edits
  <2>3. rows' = [rows EXCEPT ![id] = m] /\ UNCHANGED <<calls, config, deleted>>
    BY <1>10 DEF set_mapping_health
  <2>4. \A j \in Stored(rows) \ {id} :
           TableView!Disjoint(m, rows[j]) /\ TableView!Disjoint(rows[j], m)
    BY <1>0, <2>1, StatusWrite DEF IInv, EnabledRowsDisjoint
  <2> HIDE DEF m
  <2> QED
    BY <2>1, <2>2, <2>3, <2>4, WriteRow
<1>11. ASSUME NEW c \in Caller, DeleteRow(c)
       PROVE  IInv'
  <2>1. calls[c].id \in Id
    BY <1>11 DEF DeleteRow, IInv, CallSound
  <2>2. /\ rows' \in Table /\ rows'[calls[c].id] = None
        /\ \A j \in Id \ {calls[c].id} : rows'[j] = rows[j]
        /\ deleted' = deleted \cup {calls[c].id} /\ config' = config
        /\ calls' = [calls EXCEPT ![c] = Idle]
    BY <1>0, <1>11, <2>1 DEF DeleteRow, Table, Return
  <2>3. TypeOK'
    BY <1>0, <2>1, <2>2 DEF IInv, TypeOK
  <2>4. EnabledRowsDisjoint' /\ RowsWellFormed'
    BY <2>2 DEF IInv, EnabledRowsDisjoint, RowsWellFormed, TableView!ConflictFree,
                TableView!Stored, Stored
  <2>5. \A i \in deleted' : rows'[i] = None
    BY <2>1, <2>2 DEF IInv, TypeOK
  <2>6. ASSUME NEW d \in Caller PROVE CallSound(d)'
    <3>1. CASE calls'[d] = Idle
      BY <3>1 DEF CallSound, Idle
    <3>2. CASE d # c
      <4>1. CallSound(d) /\ CallSound(c) /\ calls'[d] = calls[d]
        BY <1>0, <2>2, <3>2 DEF IInv
      <4>2. calls[d].op = "insert" => calls[d].id # calls[c].id
        BY <4>1, <3>2 DEF CallSound
      <4>3. \A e \in Caller \ {d} : calls[d].op = "insert" => calls'[e].id # calls[d].id
        BY <1>0, <2>2, <4>1, NoneAssumption DEF CallSound, Idle
      <4> QED
        BY <2>1, <2>2, <4>1, <4>2, <4>3 DEF CallSound
    <3> QED
      BY <1>0, <2>2, <3>1, <3>2
  <2> QED
    BY <2>3, <2>4, <2>5, <2>6 DEF IInv
<1>12. ASSUME NEW c \in Caller, NEW cfg \in EdgeConfigType, config' = cfg,
              UNCHANGED <<rows, deleted>>, Return(c) \/ UNCHANGED calls
       PROVE  IInv'
  <2>1. TypeOK'
    BY <1>0, <1>12 DEF IInv, TypeOK, Return
  <2>2. EnabledRowsDisjoint' /\ RowsWellFormed' /\ \A i \in deleted' : rows'[i] = None
    BY <1>12 DEF IInv, EnabledRowsDisjoint, RowsWellFormed, TableView!ConflictFree,
                 TableView!Stored, Stored
  <2>3. ASSUME NEW d \in Caller PROVE CallSound(d)'
    <3>1. CASE calls'[d] = Idle
      BY <3>1 DEF CallSound, Idle
    <3>2. CASE calls'[d] = calls[d]
      BY <1>0, <1>12, <3>2, NoneAssumption DEF IInv, CallSound, Return, Idle
    <3> QED
      BY <1>0, <1>12, <3>1, <3>2 DEF Return
  <2> QED
    BY <2>1, <2>2, <2>3 DEF IInv
<1>13. ASSUME NEW c \in Caller, Start(c) PROVE IInv'
  <2>1. ASSUME NEW id \in Id, NEW a \in Allocations, oci_allocate(c, id, a) PROVE IInv'
    <3>1. rows[id] \in MappingType
      BY <1>0, <2>1 DEF oci_allocate, Table
    <3> QED
      BY <1>3, <2>1, <3>1, Edits DEF oci_allocate
  <2>2. ASSUME NEW id \in Id, oci_release(c, id) PROVE IInv'
    <3>1. rows[id] \in MappingType
      BY <1>0, <2>2 DEF oci_release, Table
    <3> QED
      BY <1>3, <2>2, <3>1, Edits DEF oci_release
  <2> QED
    BY <1>2, <1>4, <1>5, <1>13, <2>1, <2>2 DEF Start
<1>14. ASSUME NEW c \in Caller, Single(c) PROVE IInv'
  <2>1. ASSUME NEW cfg \in Configs, set_edge_config(c, cfg) PROVE IInv'
    BY <1>12, <2>1, ConfigsAssumption DEF set_edge_config
  <2> QED
    BY <1>9, <1>10, <1>14, <2>1 DEF Single, MappingStatus
<1>15. ASSUME NEW c \in Caller, Statement(c) PROVE IInv'
  <2>1. CASE WriteEdgeConfig(c)
    <3>1. calls[c].config \in EdgeConfigType
      BY <2>1 DEF WriteEdgeConfig, IInv, CallSound
    <3> QED
      BY <1>12, <2>1, <3>1 DEF WriteEdgeConfig
  <2> QED
    BY <1>7, <1>8, <1>11, <1>15, <2>1 DEF Statement
<1>16. ASSUME NEW c \in Caller, Abort(c) PROVE IInv'
  BY <1>6, <1>16 DEF Abort
<1> QED
  BY <1>1, <1>13, <1>14, <1>15, <1>16 DEF Next

(***************************************************************************)
(* Invariance: every reachable state of the store satisfies IInv.          *)
(***************************************************************************)
THEOREM Invariance == Spec => []IInv
  BY IInvInit, IInvNext, PTL DEF Spec

(***************************************************************************)
(* Type correctness of the store and of what its calls hold.               *)
(***************************************************************************)
THEOREM TypeCorrect == Spec => []TypeOK
<1>1. IInv => TypeOK
  BY DEF IInv
<1> QED
  BY <1>1, Invariance, PTL

(***************************************************************************)
(* Whatever the interleaving of the duplicate checks and the writes of any *)
(* number of callers, two enabled rows never claim the same traffic.       *)
(***************************************************************************)
THEOREM EnabledRowsStayDisjoint == Spec => []EnabledRowsDisjoint
<1>1. IInv => EnabledRowsDisjoint
  BY DEF IInv
<1> QED
  BY <1>1, Invariance, PTL

(***************************************************************************)
(* Every row the store holds passed the tests of validate_mapping, however *)
(* many edits it went through and however stale the copies they wrote.     *)
(***************************************************************************)
THEOREM RowsStayWellFormed == Spec => []RowsWellFormed
<1>1. IInv => RowsWellFormed
  BY DEF IInv
<1> QED
  BY <1>1, Invariance, PTL

-----------------------------------------------------------------------------
(* Refinement. *)

(***************************************************************************)
(* A step that writes one row is a step of the table, given the invariant  *)
(* before and after it.                                                    *)
(***************************************************************************)
LEMMA RowWriteRefines ==
    ASSUME IInv, IInv', NEW id \in Id, NEW m \in MappingType,
           rows' = [rows EXCEPT ![id] = m], UNCHANGED deleted,
           \/ rows[id] # None /\ TableView!Identity(m) = TableView!Identity(rows[id])
           \/ rows[id] = None /\ id \notin deleted
    PROVE  TableView!Insert(id) \/ TableView!Replace(id)
<1>1. rows'[id] = m /\ m # None /\ \A j \in Id \ {id} : rows'[j] = rows[j]
  BY NoneIsNoRecord DEF IInv, TypeOK, Table
<1>2. TableView!ConflictFree(rows')
  BY DEF IInv, EnabledRowsDisjoint, TableView!ConflictFree, TableView!Stored
<1>3. WellFormed(m)
  BY <1>1 DEF IInv, RowsWellFormed, Stored
<1>4. TableView!OnlyRow(id) /\ TableView!WellFormed(rows'[id])
  BY <1>1, <1>3 DEF TableView!OnlyRow, TableView!WellFormed, WellFormed,
                    TableView!OneToOneSnat, TableView!PortForwardSnat, OneToOneSnat, PortForwardSnat
<1> QED
  BY <1>1, <1>2, <1>4 DEF TableView!Insert, TableView!Replace

\* Every step of the store is a step of the atomic table, or leaves it alone.
LEMMA NextRefines ==
    IInv /\ IInv' /\ [Next]_vars => [TableView!Next]_(TableView!vars)
<1> SUFFICES ASSUME IInv, IInv', [Next]_vars, ~UNCHANGED <<rows, deleted>>
             PROVE  TableView!Next
  BY DEF TableView!vars
<1>0. rows \in Table
  BY DEF IInv, TypeOK
<1>1. PICK c \in Caller : Start(c) \/ Single(c) \/ Statement(c) \/ Abort(c)
  BY DEF Next, vars
<1>2. CASE Single(c)
  <2>1. PICK id \in Id : \/ \E b \in BOOLEAN : set_mapping_enabled(c, id, b)
                         \/ \E s \in MappingStatus : set_mapping_health(c, id, s)
    BY <1>2 DEF Single, set_edge_config, MappingStatus
  <2>2. rows[id] # None /\ rows[id] \in MappingType
    BY <1>0, <2>1 DEF set_mapping_enabled, set_mapping_health, Table
  <2>3. PICK m \in MappingType : /\ TableView!Identity(m) = TableView!Identity(rows[id])
                                 /\ rows' = [rows EXCEPT ![id] = m] /\ UNCHANGED deleted
    <3>1. ASSUME NEW b \in BOOLEAN, set_mapping_enabled(c, id, b)
          PROVE  /\ SetEnabled(rows[id], b) \in MappingType
                 /\ TableView!Identity(SetEnabled(rows[id], b)) = TableView!Identity(rows[id])
                 /\ rows' = [rows EXCEPT ![id] = SetEnabled(rows[id], b)] /\ UNCHANGED deleted
      BY <2>2, <3>1, Edits DEF set_mapping_enabled
    <3>2. ASSUME NEW s \in MappingStatus, set_mapping_health(c, id, s)
          PROVE  /\ MarkStatus(rows[id], s) \in MappingType
                 /\ TableView!Identity(MarkStatus(rows[id], s)) = TableView!Identity(rows[id])
                 /\ rows' = [rows EXCEPT ![id] = MarkStatus(rows[id], s)] /\ UNCHANGED deleted
      BY <2>2, <3>2, Edits DEF set_mapping_health
    <3> QED
      BY <2>1, <3>1, <3>2
  <2> QED
    BY <2>2, <2>3, RowWriteRefines DEF TableView!Next
<1>3. CASE InsertRow(c) \/ UpdateRow(c)
  <2> DEFINE id == calls[c].id  m == calls[c].m
  <2>1. rows' = [rows EXCEPT ![id] = m] /\ UNCHANGED deleted
    BY <1>3 DEF InsertRow, UpdateRow
  <2>2. /\ id \in Id /\ m \in MappingType
        /\ \/ rows[id] # None /\ TableView!Identity(m) = TableView!Identity(rows[id])
           \/ rows[id] = None /\ id \notin deleted
    BY <1>3, <2>1 DEF InsertRow, UpdateRow, IInv, CallSound
  <2> HIDE DEF id, m
  <2> QED
    BY <2>1, <2>2, RowWriteRefines DEF TableView!Next
<1>4. CASE DeleteRow(c)
  <2> DEFINE id == calls[c].id
  <2>1. /\ id \in Id /\ (rows[id] # None \/ id \in deleted)
        /\ rows' = [rows EXCEPT ![id] = None] /\ deleted' = deleted \cup {id}
    BY <1>4 DEF DeleteRow, IInv, CallSound
  <2> HIDE DEF id
  <2>2. CASE id \in deleted
    <3>1. rows[id] = None
      BY <2>2 DEF IInv
    <3>2. rows' = rows /\ deleted' = deleted
      BY <1>0, <2>1, <2>2, <3>1 DEF Table
    <3> QED
      BY <3>2
  <2>3. CASE id \notin deleted
    BY <1>0, <2>1, <2>3 DEF Table, TableView!Remove, TableView!OnlyRow, TableView!Next
  <2> QED
    BY <2>2, <2>3
<1> QED
  BY <1>1, <1>2, <1>3, <1>4
  DEF Start, insert_mapping, oci_allocate, oci_release, BeginUpdate, delete_mapping,
      ensure_edge_config, Statement, ReadEdgeConfig, ReadDuplicates, WriteEdgeConfig, Abort

(***************************************************************************)
(* The concurrent store implements the atomic table: identities are kept,  *)
(* removed rows stay removed, and every write leaves the table without     *)
(* conflicts.                                                              *)
(***************************************************************************)
THEOREM StoreImplementsTable == Spec => ImplementsTable
<1>1. Init => TableView!Init
  BY DEF Init, TableView!Init, EmptyTable, TableView!EmptyTable
<1> QED
  BY <1>1, NextRefines, Invariance, PTL DEF Spec, ImplementsTable, TableView!Spec
=============================================================================
