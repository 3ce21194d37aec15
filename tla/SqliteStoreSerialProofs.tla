----------------------- MODULE SqliteStoreSerialProofs ----------------------
(***************************************************************************)
(* Proofs about SqliteStore when every process is started with the same    *)
(* configuration (OneConfig), and when calls do not overlap (OneCaller):   *)
(* each hypothesis where it is needed and nowhere else.  For any mappings, *)
(* requests and allocations, and any failures.                             *)
(***************************************************************************)
EXTENDS SqliteStoreProofs, FiniteSetTheorems

OneConfig == \A x, y \in Configs : x = y

OneCaller == \A c, d \in Caller : c = d

\* The call is about to write a mapping that it has validated.
Validated(call) == call.op \in {"insert", "update"} /\ call.pc # "edge_config"

(***************************************************************************)
(* With one configuration, a mapping that was valid when it was checked is *)
(* valid when it is written, and for as long as it is stored.              *)
(***************************************************************************)
ConfigCall(cfg, call) ==
    /\ call.op = "ensure" => call.config \in Configs /\ validate_edge_config(call.config)
    /\ Validated(call) => cfg # None /\ validate_mapping(call.m, cfg)

ConfigInv ==
    /\ config # None => config \in Configs
    /\ \A i \in Stored(rows) : config # None /\ validate_mapping(rows[i], config)
    /\ \A c \in Caller : ConfigCall(config, calls[c])

\* There are finitely many rows.
FiniteInv == IsFiniteSet(Stored(rows))

(***************************************************************************)
(* With one caller, what the duplicate check has read is still so when the *)
(* row is written: no two rows share a public address with a one-to-one    *)
(* mapping, disabled or not.                                               *)
(***************************************************************************)
PublicCall(t, call) ==
    /\ call.op = "update" => t[call.id] # None
    /\ (call.op \in {"insert", "update"} /\ call.pc = "write") =>
         ~reject_duplicates(t, call.id, call.m)

PublicInv ==
    /\ \A i, j \in Stored(rows) : i # j => ~SharesPublicIp(rows[i], rows[j])
    /\ \A c \in Caller : PublicCall(rows, calls[c])

-----------------------------------------------------------------------------
(* One configuration *)

\* The switch and the status have no part in what validation looks at.
LEMMA ValidEdits ==
    ASSUME NEW m \in MappingType, NEW n,
           (\E b \in BOOLEAN : n = SetEnabled(m, b)) \/ (\E s \in MappingStatus : n = MarkStatus(m, s))
    PROVE  /\ n \in MappingType
           /\ \A cfg : validate_mapping(m, cfg) => validate_mapping(n, cfg)
           /\ \A r : SharesPublicIp(n, r) <=> SharesPublicIp(m, r)
           /\ \A r : SharesPublicIp(r, n) <=> SharesPublicIp(r, m)
<1> DEFINE Same == /\ n \in MappingType /\ n.name = m.name /\ n.public_ip = m.public_ip
                   /\ n.edge_private_ip = m.edge_private_ip /\ n.target_ip = m.target_ip
                   /\ n.public_port = m.public_port /\ n.target_port = m.target_port
                   /\ n.protocol = m.protocol /\ n.mode = m.mode /\ n.backend = m.backend
<1>1. Same
  <2>1. ASSUME NEW b \in BOOLEAN, n = SetEnabled(m, b) PROVE Same
    BY <2>1 DEF SetEnabled, MappingType, MappingStatus
  <2>2. ASSUME NEW s \in MappingStatus, n = MarkStatus(m, s) PROVE Same
    BY <2>2 DEF MarkStatus, MappingType
  <2> QED
    BY <2>1, <2>2
<1> QED
  BY <1>1 DEF validate_mapping, WellFormed, SharesPublicIp

\* What a step of caller c does to the calls: it begins one, takes one to its
\* next statement, ends it, or leaves it alone.
LEMMA CallSteps ==
    ASSUME IInv, NEW c \in Caller, Start(c) \/ Single(c) \/ Statement(c) \/ Abort(c)
    PROVE  \A d \in Caller \ {c} : calls'[d] = calls[d]
<1>1. calls \in [Caller -> Call]
  BY DEF IInv, TypeOK
<1> QED
  BY <1>1 DEF Start, insert_mapping, oci_allocate, oci_release, BeginUpdate, delete_mapping,
      ensure_edge_config, Begin, Single, set_edge_config, set_mapping_enabled,
      set_mapping_health, Statement, ReadEdgeConfig, ReadDuplicates, InsertRow, UpdateRow,
      DeleteRow, WriteEdgeConfig, Abort, Goto, Return

\* A call that starts has validated nothing yet.
LEMMA CallStarts ==
    ASSUME IInv, NEW c \in Caller, Start(c)
    PROVE  /\ UNCHANGED <<rows, config, deleted>> /\ calls[c] = Idle
           /\ \/ calls'[c].op = "insert" /\ calls'[c].pc = "edge_config"
              \/ /\ calls'[c].op = "update" /\ calls'[c].pc = "edge_config"
                 /\ rows[calls'[c].id] # None
              \/ calls'[c].op = "delete"
              \/ /\ calls'[c].op = "ensure" /\ calls'[c].config \in Configs
                 /\ validate_edge_config(calls'[c].config)
<1>0. calls \in [Caller -> Call]
  BY DEF IInv, TypeOK
<1>1. ASSUME NEW id \in Id, NEW request \in Requests, insert_mapping(c, id, request)
      PROVE  /\ UNCHANGED <<rows, config, deleted>> /\ calls[c] = Idle
             /\ calls'[c].op = "insert" /\ calls'[c].pc = "edge_config"
  BY <1>0, <1>1 DEF insert_mapping, Begin, Idle
<1>2. ASSUME NEW id \in Id, NEW m, rows[id] # None, BeginUpdate(c, id, m)
      PROVE  /\ UNCHANGED <<rows, config, deleted>> /\ calls[c] = Idle
             /\ calls'[c].op = "update" /\ calls'[c].pc = "edge_config"
             /\ rows[calls'[c].id] # None
  BY <1>0, <1>2 DEF BeginUpdate, Begin, Idle
<1>3. ASSUME NEW id \in Id, delete_mapping(c, id)
      PROVE  /\ UNCHANGED <<rows, config, deleted>> /\ calls[c] = Idle
             /\ calls'[c].op = "delete"
  BY <1>0, <1>3 DEF delete_mapping, Begin, Idle
<1>4. ASSUME NEW cfg \in Configs, ensure_edge_config(c, cfg)
      PROVE  /\ UNCHANGED <<rows, config, deleted>> /\ calls[c] = Idle
             /\ calls'[c].op = "ensure" /\ calls'[c].config \in Configs
             /\ validate_edge_config(calls'[c].config)
  BY <1>0, <1>4 DEF ensure_edge_config, Begin, Idle
<1>5. ASSUME NEW id \in Id, NEW a \in Allocations, oci_allocate(c, id, a)
      PROVE  \E m : rows[id] # None /\ BeginUpdate(c, id, m)
  BY <1>5 DEF oci_allocate
<1>6. ASSUME NEW id \in Id, oci_release(c, id)
      PROVE  \E m : rows[id] # None /\ BeginUpdate(c, id, m)
  BY <1>6 DEF oci_release
<1> QED
  BY <1>1, <1>2, <1>3, <1>4, <1>5, <1>6 DEF Start

\* What the table becomes in a step of caller c.
LEMMA RowSteps ==
    ASSUME IInv, NEW c \in Caller, Start(c) \/ Single(c) \/ Statement(c) \/ Abort(c)
    PROVE  \/ rows' = rows
           \/ /\ InsertRow(c) \/ UpdateRow(c)
              /\ calls[c].id \in Id /\ calls[c].m \in MappingType /\ calls'[c] = Idle
              /\ rows'[calls[c].id] = calls[c].m
              /\ \A j \in Id \ {calls[c].id} : rows'[j] = rows[j]
           \/ \E id \in Stored(rows), n \in MappingType :
                 /\ \/ \E b \in BOOLEAN : n = SetEnabled(rows[id], b)
                    \/ \E s \in MappingStatus : n = MarkStatus(rows[id], s)
                 /\ rows'[id] = n /\ \A j \in Id \ {id} : rows'[j] = rows[j]
                 /\ calls[c] = Idle /\ calls' = calls /\ config' = config
           \/ /\ DeleteRow(c) /\ calls[c].id \in Id /\ calls'[c] = Idle
              /\ rows'[calls[c].id] = None
              /\ \A j \in Id \ {calls[c].id} : rows'[j] = rows[j]
<1>0. rows \in Table /\ calls \in [Caller -> Call]
  BY DEF IInv, TypeOK
<1>1. CASE Start(c)
  BY <1>1, CallStarts
<1>2. CASE Single(c)
  <2>1. ASSUME NEW cfg \in Configs, set_edge_config(c, cfg) PROVE rows' = rows
    BY <2>1 DEF set_edge_config
  <2>2. ASSUME NEW id \in Id, NEW n, rows[id] # None, rows' = [rows EXCEPT ![id] = n],
               (\E b \in BOOLEAN : n = SetEnabled(rows[id], b))
               \/ (\E s \in MappingStatus : n = MarkStatus(rows[id], s))
        PROVE  /\ id \in Stored(rows) /\ n \in MappingType
               /\ rows'[id] = n /\ \A j \in Id \ {id} : rows'[j] = rows[j]
    <3>1. rows[id] \in MappingType /\ id \in Stored(rows)
      BY <1>0, <2>2 DEF Table, Stored
    <3>2. n \in MappingType
      BY <2>2, <3>1, ValidEdits
    <3> QED
      BY <1>0, <2>2, <3>1, <3>2 DEF Table
  <2>3. ASSUME NEW id \in Id, NEW b \in BOOLEAN, set_mapping_enabled(c, id, b)
        PROVE  \E n \in MappingType :
                 /\ id \in Stored(rows) /\ n = SetEnabled(rows[id], b)
                 /\ rows'[id] = n /\ \A j \in Id \ {id} : rows'[j] = rows[j]
                 /\ calls[c] = Idle /\ calls' = calls /\ config' = config
    <3>1. /\ rows[id] # None /\ rows' = [rows EXCEPT ![id] = SetEnabled(rows[id], b)]
          /\ calls[c] = Idle /\ calls' = calls /\ config' = config
      BY <2>3 DEF set_mapping_enabled
    <3> QED
      BY <2>2, <3>1
  <2>4. ASSUME NEW id \in Id, NEW s \in MappingStatus, set_mapping_health(c, id, s)
        PROVE  \E n \in MappingType :
                 /\ id \in Stored(rows) /\ n = MarkStatus(rows[id], s)
                 /\ rows'[id] = n /\ \A j \in Id \ {id} : rows'[j] = rows[j]
                 /\ calls[c] = Idle /\ calls' = calls /\ config' = config
    <3>1. /\ rows[id] # None /\ rows' = [rows EXCEPT ![id] = MarkStatus(rows[id], s)]
          /\ calls[c] = Idle /\ calls' = calls /\ config' = config
      BY <2>4 DEF set_mapping_health
    <3> QED
      BY <2>2, <3>1
  <2>5. {"active", "degraded"} \subseteq MappingStatus
    BY DEF MappingStatus
  <2>6. \/ \E cfg \in Configs : set_edge_config(c, cfg)
        \/ \E id \in Id, b \in BOOLEAN : set_mapping_enabled(c, id, b)
        \/ \E id \in Id, s \in MappingStatus : set_mapping_health(c, id, s)
    BY <1>2, <2>5 DEF Single
  <2> QED
    BY <2>1, <2>3, <2>4, <2>6
<1>3. CASE ReadEdgeConfig(c) \/ ReadDuplicates(c) \/ WriteEdgeConfig(c) \/ Abort(c)
  BY <1>3 DEF ReadEdgeConfig, ReadDuplicates, WriteEdgeConfig, Abort
<1>4. CASE (InsertRow(c) \/ UpdateRow(c)) /\ rows' # rows
  <2> DEFINE id == calls[c].id
             m == calls[c].m
  <2>1. /\ rows' = [rows EXCEPT ![id] = m] /\ calls' = [calls EXCEPT ![c] = Idle]
        /\ calls[c].op \in {"insert", "update"}
    BY <1>4 DEF InsertRow, UpdateRow, Return
  <2>2. id \in Id /\ m \in MappingType
    BY <2>1 DEF IInv, CallSound
  <2> HIDE DEF id, m
  <2>3. calls'[c] = Idle /\ rows'[id] = m /\ \A j \in Id \ {id} : rows'[j] = rows[j]
    BY <1>0, <2>1, <2>2 DEF Table
  <2> QED
    BY <1>4, <2>2, <2>3 DEF id, m
<1>5. CASE DeleteRow(c)
  <2> DEFINE id == calls[c].id
  <2>1. id \in Id
    BY <1>5 DEF DeleteRow, IInv, CallSound
  <2>2. rows' = [rows EXCEPT ![id] = None] /\ calls' = [calls EXCEPT ![c] = Idle]
    BY <1>5 DEF DeleteRow, Return
  <2> HIDE DEF id
  <2>3. calls'[c] = Idle /\ rows'[id] = None /\ \A j \in Id \ {id} : rows'[j] = rows[j]
    BY <1>0, <2>1, <2>2 DEF Table
  <2> QED
    BY <1>5, <2>1, <2>3 DEF id
<1> QED
  BY <1>1, <1>2, <1>3, <1>4, <1>5 DEF Statement

\* Every step keeps stored and validated mappings valid.
LEMMA ConfigNext ==
    ASSUME OneConfig, IInv, ConfigInv, [Next]_vars
    PROVE  ConfigInv'
<1>0. rows \in Table /\ calls \in [Caller -> Call]
  BY DEF IInv, TypeOK
<1>1. ASSUME config' = config,
             \A i \in Stored(rows') : rows'[i] = rows[i] \/
                (config # None /\ validate_mapping(rows'[i], config)),
             \A d \in Caller : calls'[d] = calls[d] \/ ConfigCall(config, calls'[d])
      PROVE  ConfigInv'
  BY <1>1 DEF ConfigInv, Stored
<1>2. CASE UNCHANGED vars
  BY <1>1, <1>2 DEF vars
<1>3. ConfigCall(config, Idle)
  BY DEF ConfigCall, Validated, Idle
<1>4. ASSUME NEW c \in Caller, Start(c) \/ Single(c) \/ Statement(c) \/ Abort(c)
      PROVE  ConfigInv'
  <2>1. \A d \in Caller \ {c} : calls'[d] = calls[d]
    BY <1>4, CallSteps
  <2>2. ASSUME NEW cfg \in Configs, config' = cfg, rows' = rows,
               calls'[c] = calls[c] \/ calls'[c] = Idle
        PROVE  ConfigInv'
    <3>1. CASE config # None
      <4>1. config' = config
        BY <2>2, <3>1 DEF ConfigInv, OneConfig
      <4> QED
        BY <1>1, <1>3, <2>1, <2>2, <4>1
    <3>2. CASE config = None
      <4>1. Stored(rows) = {} /\ \A d \in Caller : ~Validated(calls[d])
        BY <3>2 DEF ConfigInv, ConfigCall
      <4>2. \A d \in Caller : ConfigCall(config', calls'[d])
        BY <2>1, <2>2, <4>1 DEF ConfigInv, ConfigCall, Validated, Idle
      <4> QED
        BY <2>2, <4>1, <4>2 DEF ConfigInv, Stored
    <3> QED
      BY <3>1, <3>2
  <2>3. CASE Start(c)
    <3>1. ConfigCall(config, calls'[c]) /\ config' = config /\ rows' = rows
      BY <2>3, CallStarts DEF ConfigCall, Validated
    <3> QED
      BY <1>1, <2>1, <3>1
  <2>4. CASE WriteEdgeConfig(c)
    <3>1. /\ calls[c].op = "ensure" /\ config' = calls[c].config /\ rows' = rows
          /\ calls' = [calls EXCEPT ![c] = Idle]
      BY <2>4 DEF WriteEdgeConfig, Return
    <3>2. calls[c].config \in Configs /\ calls'[c] = Idle
      BY <1>0, <3>1 DEF ConfigInv, ConfigCall
    <3> QED
      BY <2>2, <3>1, <3>2
  <2>5. ASSUME NEW cfg \in Configs, set_edge_config(c, cfg) PROVE ConfigInv'
    BY <2>2, <2>5 DEF set_edge_config
  <2>6. ASSUME Return(c), rows' = rows, config' = config PROVE ConfigInv'
    <3>1. calls'[c] = Idle
      BY <1>0, <2>6 DEF Return
    <3> QED
      BY <1>1, <1>3, <2>1, <2>6, <3>1
  <2>7. CASE Abort(c)
    BY <2>6, <2>7 DEF Abort
  <2>8. CASE ReadEdgeConfig(c) /\ ~Return(c)
    <3>1. /\ config # None /\ validate_mapping(calls[c].m, config)
          /\ calls' = [calls EXCEPT ![c].pc = "reject_duplicates"]
          /\ rows' = rows /\ config' = config /\ calls[c].pc = "edge_config"
      BY <2>8 DEF ReadEdgeConfig, Goto
    <3>2. calls'[c].op = calls[c].op /\ calls'[c].m = calls[c].m
      BY <1>0, <3>1 DEF Call
    <3>3. calls[c].op \in {"insert", "update"}
      BY <3>1 DEF IInv, CallSound
    <3>4. ConfigCall(config, calls'[c])
      BY <3>1, <3>2, <3>3 DEF ConfigCall
    <3> QED
      BY <1>1, <2>1, <3>1, <3>4
  <2>9. CASE ReadDuplicates(c) /\ ~Return(c)
    <3>1. /\ calls' = [calls EXCEPT ![c].pc = "write"]
          /\ rows' = rows /\ config' = config /\ calls[c].pc = "reject_duplicates"
      BY <2>9 DEF ReadDuplicates, Goto
    <3>2. calls'[c].op = calls[c].op /\ calls'[c].m = calls[c].m
      BY <1>0, <3>1 DEF Call
    <3>3. calls[c].op \in {"insert", "update"}
      BY <3>1 DEF IInv, CallSound
    <3>4. ConfigCall(config, calls[c])
      BY DEF ConfigInv
    <3>5. ConfigCall(config, calls'[c])
      BY <3>1, <3>2, <3>3, <3>4 DEF ConfigCall, Validated
    <3> QED
      BY <1>1, <2>1, <3>1, <3>5
  <2>10. CASE ReadEdgeConfig(c) \/ ReadDuplicates(c)
    BY <2>6, <2>8, <2>9, <2>10 DEF ReadEdgeConfig, ReadDuplicates
  <2>11. CASE (InsertRow(c) \/ UpdateRow(c)) /\ rows' = rows
    BY <2>6, <2>11 DEF InsertRow, UpdateRow
  <2>12. CASE (InsertRow(c) \/ UpdateRow(c)) /\ rows' # rows
    <3>0. calls[c].op \in {"insert", "update"} /\ calls[c].pc = "write" /\ config' = config
      BY <2>12 DEF InsertRow, UpdateRow
    <3>1. /\ calls[c].id \in Id /\ calls'[c] = Idle /\ rows'[calls[c].id] = calls[c].m
          /\ \A j \in Id \ {calls[c].id} : rows'[j] = rows[j]
      BY <1>4, <2>12, <3>0, RowSteps DEF DeleteRow, Idle
    <3>2. config # None /\ validate_mapping(calls[c].m, config)
      BY <3>0 DEF ConfigInv, ConfigCall, Validated
    <3> QED
      BY <1>1, <1>3, <2>1, <3>0, <3>1, <3>2 DEF Stored
  <2>13. CASE DeleteRow(c)
    <3>0. calls[c].op = "delete" /\ config' = config
      BY <2>13 DEF DeleteRow
    <3>1. calls[c].id \in Id /\ Return(c) /\ rows' = [rows EXCEPT ![calls[c].id] = None]
      BY <2>13, <3>0 DEF DeleteRow, IInv, CallSound
    <3>2. calls'[c] = Idle /\ rows'[calls[c].id] = None
          /\ \A j \in Id \ {calls[c].id} : rows'[j] = rows[j]
      BY <1>0, <3>1 DEF Return, Table
    <3> QED
      BY <1>1, <1>3, <2>1, <3>0, <3>2 DEF Stored
  <2>14. CASE Single(c) /\ ~\E cfg \in Configs : set_edge_config(c, cfg)
    <3>0. calls[c] = Idle /\ config' = config /\ calls' = calls
      BY <2>14 DEF Single, set_mapping_enabled, set_mapping_health
    <3>1. CASE rows' = rows
      BY <1>1, <3>0, <3>1
    <3>2. CASE rows' # rows
      <4>1. PICK id \in Stored(rows), n \in MappingType :
                 /\ \/ \E b \in BOOLEAN : n = SetEnabled(rows[id], b)
                    \/ \E s \in MappingStatus : n = MarkStatus(rows[id], s)
                 /\ rows'[id] = n /\ \A j \in Id \ {id} : rows'[j] = rows[j]
        BY <2>14, <3>0, <3>2, RowSteps DEF InsertRow, UpdateRow, DeleteRow, Idle
      <4>2. rows[id] \in MappingType /\ config # None /\ validate_mapping(rows[id], config)
        BY <1>0 DEF ConfigInv, Stored, Table
      <4>3. validate_mapping(n, config)
        BY <4>1, <4>2, ValidEdits
      <4> QED
        BY <1>1, <3>0, <4>1, <4>2, <4>3 DEF Stored
    <3> QED
      BY <3>1, <3>2
  <2> QED
    BY <1>4, <2>3, <2>4, <2>5, <2>7, <2>10, <2>11, <2>12, <2>13, <2>14 DEF Single, Statement
<1> QED
  BY <1>2, <1>4 DEF Next

\* With one configuration it is an invariant.
LEMMA ConfigAlways == OneConfig => (Spec => []ConfigInv)
<1> SUFFICES ASSUME OneConfig PROVE Spec => []ConfigInv
  OBVIOUS
<1>1. Init => ConfigInv
  BY DEF Init, ConfigInv, ConfigCall, Validated, Idle, Stored, EmptyTable
<1>2. IInv /\ ConfigInv /\ [Next]_vars => ConfigInv'
  BY ConfigNext
<1> QED
  BY <1>1, <1>2, Invariance, PTL DEF Spec

\* A step adds one row at most.
LEMMA FiniteNext ==
    ASSUME IInv, FiniteInv, [Next]_vars PROVE FiniteInv'
<1>1. CASE rows' = rows
  BY <1>1 DEF FiniteInv
<1>2. ASSUME NEW id \in Id, \A j \in Id \ {id} : rows'[j] = rows[j] PROVE FiniteInv'
  <2>1. IsFiniteSet(Stored(rows) \cup {id})
    BY FS_AddElement DEF FiniteInv
  <2>2. Stored(rows') \subseteq Stored(rows) \cup {id}
    BY <1>2 DEF Stored
  <2>3. IsFiniteSet(Stored(rows'))
    BY <2>1, <2>2, FS_Subset
  <2> QED
    BY <2>3 DEF FiniteInv, Stored
<1>3. ASSUME NEW c \in Caller, Start(c) \/ Single(c) \/ Statement(c) \/ Abort(c), rows' # rows
      PROVE  \E id \in Id : \A j \in Id \ {id} : rows'[j] = rows[j]
  BY <1>3, RowSteps DEF Stored
<1> QED
  BY <1>1, <1>2, <1>3 DEF Next, vars

\* There are always finitely many rows.
LEMMA FiniteAlways == Spec => []FiniteInv
<1>1. Init => FiniteInv
  <2>1. Init => Stored(rows) = {}
    BY DEF Init, Stored, EmptyTable
  <2> QED
    BY <2>1, FS_EmptySet DEF FiniteInv
<1>2. IInv /\ FiniteInv /\ [Next]_vars => FiniteInv'
  BY FiniteNext
<1> QED
  BY <1>1, <1>2, Invariance, PTL DEF Spec

-----------------------------------------------------------------------------
(* One caller *)

\* Sharing a public address is symmetric.
LEMMA SharingSymmetric == \A m, n : SharesPublicIp(m, n) <=> SharesPublicIp(n, m)
  BY DEF SharesPublicIp

\* Every step of the one caller keeps what its checks found.
LEMMA PublicNext ==
    ASSUME OneCaller, IInv, PublicInv, [Next]_vars
    PROVE  PublicInv'
<1>0. rows \in Table /\ calls \in [Caller -> Call]
  BY DEF IInv, TypeOK
<1>1. \A t : PublicCall(t, Idle)
  BY DEF PublicCall, Idle
<1>2. CASE UNCHANGED vars
  BY <1>2 DEF vars, PublicInv, Stored
<1>3. ASSUME NEW c \in Caller, Start(c) \/ Single(c) \/ Statement(c) \/ Abort(c)
      PROVE  PublicInv'
  <2>1. ASSUME rows' = rows, PublicCall(rows, calls'[c]) PROVE PublicInv'
    BY <2>1 DEF PublicInv, OneCaller, Stored
  <2>2. ASSUME NEW id \in Id, \A j \in Id \ {id} : rows'[j] = rows[j], calls'[c] = Idle,
               rows'[id] # None => \A j \in Stored(rows) \ {id} : ~SharesPublicIp(rows'[id], rows[j])
        PROVE  PublicInv'
    <3>1. ASSUME NEW i \in Stored(rows)', NEW j \in Stored(rows)', i # j
          PROVE  ~SharesPublicIp(rows'[i], rows'[j])
      <4>1. i \in Id /\ j \in Id /\ rows'[i] # None /\ rows'[j] # None
        BY DEF Stored
      <4>2. CASE i # id /\ j # id
        BY <2>2, <3>1, <4>1, <4>2 DEF PublicInv, Stored
      <4>3. CASE i = id
        BY <2>2, <3>1, <4>1, <4>3 DEF Stored
      <4>4. CASE j = id
        <5>1. ~SharesPublicIp(rows'[j], rows'[i])
          BY <2>2, <3>1, <4>1, <4>4 DEF Stored
        <5> QED
          BY <5>1, SharingSymmetric
      <4> QED
        BY <4>2, <4>3, <4>4
    <3>2. \A d \in Caller : PublicCall(rows', calls'[d])
      BY <1>1, <2>2 DEF OneCaller
    <3> QED
      BY <3>1, <3>2 DEF PublicInv
  <2>3. ASSUME Return(c), rows' = rows PROVE PublicInv'
    BY <1>0, <1>1, <2>1, <2>3 DEF Return
  <2>4. CASE Start(c)
    <3>1. rows' = rows /\ PublicCall(rows, calls'[c])
      BY <2>4, CallStarts DEF PublicCall
    <3> QED
      BY <2>1, <3>1
  <2>5. CASE ReadEdgeConfig(c) /\ ~Return(c)
    <3>1. rows' = rows /\ calls' = [calls EXCEPT ![c].pc = "reject_duplicates"]
      BY <2>5 DEF ReadEdgeConfig, Goto
    <3>2. /\ calls'[c].op = calls[c].op /\ calls'[c].id = calls[c].id
          /\ calls'[c].pc = "reject_duplicates"
      BY <1>0, <3>1 DEF Call
    <3>3. PublicCall(rows, calls'[c])
      BY <3>2 DEF PublicInv, PublicCall
    <3> QED
      BY <2>1, <3>1, <3>3
  <2>6. CASE ReadDuplicates(c) /\ ~Return(c)
    <3>1. /\ rows' = rows /\ calls' = [calls EXCEPT ![c].pc = "write"]
          /\ ~reject_duplicates(rows, calls[c].id, calls[c].m)
      BY <2>6 DEF ReadDuplicates, Goto
    <3>2. /\ calls'[c].op = calls[c].op /\ calls'[c].id = calls[c].id /\ calls'[c].m = calls[c].m
      BY <1>0, <3>1 DEF Call
    <3>3. PublicCall(rows, calls'[c])
      BY <3>1, <3>2 DEF PublicInv, PublicCall
    <3> QED
      BY <2>1, <3>1, <3>3
  <2>7. CASE ReadEdgeConfig(c) \/ ReadDuplicates(c) \/ WriteEdgeConfig(c) \/ Abort(c)
    BY <2>3, <2>5, <2>6, <2>7 DEF ReadEdgeConfig, ReadDuplicates, WriteEdgeConfig, Abort
  <2>8. CASE (InsertRow(c) \/ UpdateRow(c)) /\ rows' = rows
    BY <2>3, <2>8 DEF InsertRow, UpdateRow
  <2>9. CASE (InsertRow(c) \/ UpdateRow(c)) /\ rows' # rows
    <3>0. calls[c].op \in {"insert", "update"} /\ calls[c].pc = "write"
      BY <2>9 DEF InsertRow, UpdateRow
    <3>1. /\ calls[c].id \in Id /\ calls'[c] = Idle /\ rows'[calls[c].id] = calls[c].m
          /\ \A j \in Id \ {calls[c].id} : rows'[j] = rows[j]
      BY <1>3, <2>9, <3>0, RowSteps DEF DeleteRow, Idle
    <3>2. ~reject_duplicates(rows, calls[c].id, calls[c].m)
      BY <3>0 DEF PublicInv, PublicCall
    <3>3. \A j \in Stored(rows) \ {calls[c].id} : ~SharesPublicIp(calls[c].m, rows[j])
      BY <3>2 DEF reject_duplicates, Others
    <3> QED
      BY <2>2, <3>1, <3>3
  <2>10. CASE DeleteRow(c)
    <3>1. calls[c].id \in Id /\ Return(c) /\ rows' = [rows EXCEPT ![calls[c].id] = None]
      BY <2>10 DEF DeleteRow, IInv, CallSound
    <3>2. calls'[c] = Idle /\ rows'[calls[c].id] = None
          /\ \A j \in Id \ {calls[c].id} : rows'[j] = rows[j]
      BY <1>0, <3>1 DEF Return, Table
    <3> QED
      BY <2>2, <3>1, <3>2
  <2>11. CASE Single(c)
    <3>0. calls[c] = Idle /\ calls' = calls
      BY <2>11 DEF Single, set_edge_config, set_mapping_enabled, set_mapping_health
    <3>1. CASE rows' = rows
      BY <1>1, <2>1, <3>0, <3>1
    <3>2. CASE rows' # rows
      <4>1. PICK id \in Stored(rows), n \in MappingType :
                 /\ \/ \E b \in BOOLEAN : n = SetEnabled(rows[id], b)
                    \/ \E s \in MappingStatus : n = MarkStatus(rows[id], s)
                 /\ rows'[id] = n /\ \A j \in Id \ {id} : rows'[j] = rows[j]
        BY <2>11, <3>0, <3>2, RowSteps DEF InsertRow, UpdateRow, DeleteRow, Idle
      <4>2. rows[id] \in MappingType /\ id \in Id
        BY <1>0 DEF Stored, Table
      <4>3. \A j \in Stored(rows) \ {id} : ~SharesPublicIp(n, rows[j])
        BY <4>1, <4>2, ValidEdits DEF PublicInv
      <4> QED
        BY <2>2, <3>0, <4>1, <4>2, <4>3
    <3> QED
      BY <3>1, <3>2
  <2> QED
    BY <1>3, <2>4, <2>7, <2>8, <2>9, <2>10, <2>11 DEF Statement
<1> QED
  BY <1>2, <1>3 DEF Next

\* With one caller it is an invariant.
LEMMA PublicAlways == OneCaller => (Spec => []PublicInv)
<1> SUFFICES ASSUME OneCaller PROVE Spec => []PublicInv
  OBVIOUS
<1>1. Init => PublicInv
  BY DEF Init, PublicInv, PublicCall, Idle, Stored, EmptyTable
<1>2. IInv /\ PublicInv /\ [Next]_vars => PublicInv'
  BY PublicNext
<1> QED
  BY <1>1, <1>2, Invariance, PTL DEF Spec

(***************************************************************************)
(* When calls do not overlap and the configuration does not change, every  *)
(* table the store accepts can be rendered, disabled rows included: no     *)
(* sequence of legal calls leads to a table that stops every reconcile.    *)
(***************************************************************************)
THEOREM AlwaysRenderable == OneCaller /\ OneConfig => (Spec => []Renderable)
<1> SUFFICES ASSUME OneCaller, OneConfig PROVE Spec => []Renderable
  OBVIOUS
<1>1. IInv /\ ConfigInv /\ PublicInv => Renderable
  <2> SUFFICES ASSUME IInv, ConfigInv, PublicInv, config # None
               PROVE  validate_mappings(rows, config)
    BY DEF Renderable
  <2>1. \A i \in Stored(rows) : validate_mapping(rows[i], config)
    BY DEF ConfigInv
  <2>2. ASSUME NEW i \in Stored(rows), NEW j \in Stored(rows), i # j
        PROVE  ~conflicts(rows[i], rows[j])
    BY <2>2 DEF IInv, EnabledRowsDisjoint, TableView!ConflictFree, TableView!Stored, Stored,
                TableView!Disjoint, TableView!conflicts, conflicts, OneToOneSnat,
                PortForwardSnat, TableView!OneToOneSnat, TableView!PortForwardSnat
  <2>3. \A i, j \in Stored(rows) : i # j => ~SharesPublicIp(rows[i], rows[j])
    BY DEF PublicInv
  <2> QED
    BY <2>1, <2>2, <2>3 DEF validate_mappings
<1> QED
  BY <1>1, Invariance, ConfigAlways, PublicAlways, PTL

-----------------------------------------------------------------------------
(* The two stores *)

(***************************************************************************)
(* No index or trigger refuses a mapping that the duplicate check accepts. *)
(***************************************************************************)
LEMMA ChecksImplyConstraints ==
    ASSUME NEW t \in Table, NEW id, NEW m \in MappingType, ~reject_duplicates(t, id, m)
    PROVE  DbAccepts(t, id, m)
<1> SUFFICES ASSUME m.enabled, NEW r \in EnabledOthers(t, id)
             PROVE  /\ (m.mode = OneToOneSnat /\ r.mode = OneToOneSnat) =>
                         /\ r.edge_private_ip # m.edge_private_ip
                         /\ r.target_ip # m.target_ip
                         /\ m.public_ip # None => r.public_ip # m.public_ip
                    /\ (m.mode = PortForwardSnat /\ r.mode = PortForwardSnat) =>
                         \/ r.edge_private_ip # m.edge_private_ip
                         \/ r.protocol # m.protocol
                         \/ m.public_port = None
                         \/ r.public_port # m.public_port
                    /\ r.mode # m.mode => r.edge_private_ip # m.edge_private_ip
                    /\ (m.mode = PortForwardSnat /\ r.mode = OneToOneSnat /\ m.public_ip # None)
                         => r.public_ip # m.public_ip
                    /\ (m.mode = OneToOneSnat /\ m.public_ip # None)
                         => r.public_ip # m.public_ip
  BY DEF DbAccepts, UniqueIndexesHold, TriggerAccepts
<1>1. r \in Others(t, id) /\ r.enabled
  BY DEF EnabledOthers
<1>2. ~SharesPublicIp(m, r) /\ ~conflicts(r, m)
  BY <1>1 DEF reject_duplicates
<1> QED
  BY <1>1, <1>2 DEF SharesPublicIp, conflicts

\* The validation of the in-memory store is the sum of the two checks.
LEMMA SameChecks ==
    ASSUME NEW t, NEW cfg, NEW id, NEW m
    PROVE  Memory!validate_mapping_for_write(t, cfg, id, m) <=>
             cfg # None /\ validate_mapping(m, cfg) /\ ~reject_duplicates(t, id, m)
<1>1. Memory!validate_mapping(m, cfg) <=> validate_mapping(m, cfg)
  BY DEF Memory!validate_mapping, validate_mapping, Memory!WellFormed, WellFormed,
         Memory!validate_target_ip, validate_target_ip, Memory!OneToOneSnat, OneToOneSnat,
         Memory!PortForwardSnat, PortForwardSnat
<1>2. Memory!Others(t, id) = Others(t, id)
  BY DEF Memory!Others, Others, Memory!Stored, Stored
<1>3. ASSUME NEW r
      PROVE  /\ Memory!SharesPublicIp(m, r) <=> SharesPublicIp(m, r)
             /\ Memory!conflicts(r, m) <=> conflicts(r, m)
  BY DEF Memory!SharesPublicIp, SharesPublicIp, Memory!conflicts, conflicts,
         Memory!OneToOneSnat, OneToOneSnat, Memory!PortForwardSnat, PortForwardSnat
<1> QED
  BY <1>1, <1>2, <1>3 DEF Memory!validate_mapping_for_write, reject_duplicates,
                          Memory!OneToOneSnat, OneToOneSnat

(***************************************************************************)
(* When calls do not overlap and the configuration does not change, the    *)
(* SQLite store and the in-memory store make and refuse the same writes.   *)
(***************************************************************************)
THEOREM StoresAlwaysAgree == OneCaller /\ OneConfig => (Spec => StoresAgree)
<1> SUFFICES ASSUME OneCaller, OneConfig PROVE Spec => StoresAgree
  OBVIOUS
<1> DEFINE Agree(c) ==
         LET call == calls[c] IN
         /\ InsertRow(c) => rows' = Memory!insert_mapping(rows, config, call.id, call.m)
         /\ UpdateRow(c) => rows' = Memory!update_mapping(rows, config, call.id, call.m)
         /\ ((ReadEdgeConfig(c) \/ ReadDuplicates(c)) /\ calls'[c] = Idle) =>
              ~Memory!validate_mapping_for_write(rows, config, call.id, call.m)
         /\ DeleteRow(c) => rows' = Memory!delete_mapping(rows, call.id)
         /\ \A id \in Id, b \in BOOLEAN :
              set_mapping_enabled(c, id, b) => rows' = Memory!set_mapping_enabled(rows, id, b)
         /\ config' # config => config' = Memory!set_edge_config(rows, config, config')
<1>1. ASSUME IInv, ConfigInv, PublicInv, [Next]_vars, NEW c \in Caller PROVE Agree(c)
  <2> DEFINE id == calls[c].id
             m == calls[c].m
  <2>0. rows \in Table /\ calls \in [Caller -> Call]
    BY <1>1 DEF IInv, TypeOK
  <2>1. ASSUME InsertRow(c) \/ UpdateRow(c)
        PROVE  /\ id \in Id /\ m \in MappingType
               /\ DbAccepts(rows, id, m)
               /\ Memory!validate_mapping_for_write(rows, config, id, m)
               /\ InsertRow(c) => rows[id] = None
               /\ UpdateRow(c) => rows[id] # None
    <3>1. calls[c].op \in {"insert", "update"} /\ calls[c].pc = "write"
      BY <2>1 DEF InsertRow, UpdateRow
    <3>2. id \in Id /\ m \in MappingType
      BY <1>1, <3>1 DEF IInv, CallSound
    <3>3. ~reject_duplicates(rows, id, m) /\ (UpdateRow(c) => rows[id] # None)
      BY <1>1, <3>1 DEF PublicInv, PublicCall, UpdateRow
    <3>4. config # None /\ validate_mapping(m, config)
      BY <1>1, <3>1 DEF ConfigInv, ConfigCall, Validated
    <3>5. InsertRow(c) => rows[id] = None
      BY <1>1 DEF InsertRow, IInv, CallSound
    <3> QED
      BY <2>0, <3>2, <3>3, <3>4, <3>5, ChecksImplyConstraints, SameChecks
  <2>2. ASSUME InsertRow(c) PROVE rows' = Memory!insert_mapping(rows, config, id, m)
    BY <2>1, <2>2 DEF InsertRow, Memory!insert_mapping
  <2>3. ASSUME UpdateRow(c) PROVE rows' = Memory!update_mapping(rows, config, id, m)
    BY <2>1, <2>3 DEF UpdateRow, Memory!update_mapping
  <2>4. ASSUME ReadEdgeConfig(c) \/ ReadDuplicates(c), calls'[c] = Idle
        PROVE  ~Memory!validate_mapping_for_write(rows, config, id, m)
    <3>1. ASSUME NEW pc, pc # "idle" PROVE ~Goto(c, pc)
      <4>1. Goto(c, pc) => calls'[c].pc = pc
        BY <2>0 DEF Goto, Call
      <4> QED
        BY <2>4, <3>1, <4>1 DEF Idle
    <3> QED
      BY <2>4, <3>1, SameChecks DEF ReadEdgeConfig, ReadDuplicates
  <2>5. ASSUME DeleteRow(c) PROVE rows' = Memory!delete_mapping(rows, id)
    BY <2>5 DEF DeleteRow, Memory!delete_mapping
  <2>6. ASSUME NEW i \in Id, NEW b \in BOOLEAN, set_mapping_enabled(c, i, b)
        PROVE  rows' = Memory!set_mapping_enabled(rows, i, b)
    BY <2>0, <2>6 DEF set_mapping_enabled, Memory!set_mapping_enabled, Memory!SetEnabled, SetEnabled
  <2>7. ASSUME config' # config PROVE config' = Memory!set_edge_config(rows, config, config')
    <3>1. PICK d \in Caller : Start(d) \/ Single(d) \/ Statement(d) \/ Abort(d)
      BY <1>1, <2>7 DEF Next, vars
    <3>2. ~Start(d)
      BY <1>1, <2>7, CallStarts
    <3>3. WriteEdgeConfig(d) \/ \E cfg \in Configs : set_edge_config(d, cfg)
      BY <2>7, <3>1, <3>2 DEF Single, set_mapping_enabled, set_mapping_health, Statement,
              ReadEdgeConfig, ReadDuplicates, InsertRow, UpdateRow, DeleteRow, Abort
    <3>4. config' \in Configs /\ validate_edge_config(config')
      BY <1>1, <3>3 DEF WriteEdgeConfig, set_edge_config, ConfigInv, ConfigCall
    <3>5. config = None
      BY <1>1, <2>7, <3>4 DEF ConfigInv, OneConfig
    <3>6. Stored(rows) = {}
      BY <1>1, <3>5 DEF ConfigInv
    <3> QED
      BY <3>4, <3>6 DEF Memory!set_edge_config, Memory!validate_edge_config,
                        validate_edge_config, Memory!Stored, Stored
  <2> HIDE DEF id, m
  <2> QED
    BY <2>2, <2>3, <2>4, <2>5, <2>6, <2>7 DEF id, m
<1> HIDE DEF Agree
<1>2. IInv /\ ConfigInv /\ PublicInv /\ [Next]_vars => [\A c \in Caller : Agree(c)]_vars
  BY <1>1
<1> USE DEF Agree
<1> QED
  BY <1>2, Invariance, ConfigAlways, PublicAlways, PTL DEF Spec, StoresAgree

-----------------------------------------------------------------------------
(* nftables and XDP *)

\* What is made from distinct rows, and distinctly, has as many elements.
LEMMA DistinctImages ==
    ASSUME NEW S, IsFiniteSet(S), NEW f, \A i, j \in S : f[i] = f[j] => i = j
    PROVE  /\ IsFiniteSet({f[i] : i \in S})
           /\ Cardinality({f[i] : i \in S}) = Cardinality(S)
<1> DEFINE T == {f[i] : i \in S}
           g == [i \in S |-> f[i]]
<1>1. g \in [S -> T] /\ \A i \in S : g[i] = f[i]
  OBVIOUS
<1> HIDE DEF g
<1>2. g \in Injection(S, T)
  BY <1>1 DEF Injection, IsInjective
<1>3. g \in Surjection(S, T)
  BY <1>1 DEF Surjection
<1>4. ExistsBijection(S, T)
  BY <1>2, <1>3 DEF ExistsBijection, Bijection
<1> HIDE DEF T
<1>5. IsFiniteSet(T) /\ Cardinality(T) = Cardinality(S)
  BY <1>4, FS_Bijection
<1> QED
  BY <1>5 DEF T

\* Three sets without common elements.
LEMMA CountThree ==
    ASSUME NEW A, NEW B, NEW C, IsFiniteSet(A), IsFiniteSet(B), IsFiniteSet(C),
           A \cap B = {}, (A \cup B) \cap C = {}
    PROVE  Cardinality(A) + Cardinality(B) + Cardinality(C) = Cardinality(A \cup B \cup C)
<1> DEFINE D == A \cup B
<1>1. Cardinality(A \cap B) = 0
  BY FS_EmptySet, Zenon
<1>2. Cardinality(D \cap C) = 0
  BY FS_EmptySet, Zenon
<1>3. Cardinality(A) \in Nat /\ Cardinality(B) \in Nat /\ Cardinality(C) \in Nat
  BY FS_CardinalityType
<1>4. /\ IsFiniteSet(D)
      /\ Cardinality(D) = Cardinality(A) + Cardinality(B) - Cardinality(A \cap B)
  BY FS_Union
<1> HIDE DEF D
<1>5. Cardinality(D \cup C) = Cardinality(D) + Cardinality(C) - Cardinality(D \cap C)
  BY <1>4, FS_Union
<1>6. Cardinality(D \cup C) = Cardinality(A) + Cardinality(B) + Cardinality(C)
  BY <1>1, <1>2, <1>3, <1>4, <1>5
<1> QED
  BY <1>6 DEF D

\* A mapping that validation accepts passes the tests of plan_entry.
LEMMA ValidHasEntry ==
    ASSUME NEW m \in MappingType, NEW cfg, validate_mapping(m, cfg), m.backend = "xdp"
    PROVE  Planner!HasEntry(m, cfg)
<1>1. WellFormed(m) /\ m.mode = PortForwardSnat
  BY DEF validate_mapping, WellFormed
<1>2. PICK k \in 1 .. Len(cfg.target_cidrs) : m.target_ip \in cfg.target_cidrs[k].contains
  BY DEF validate_mapping, validate_target_ip
<1>3. Planner!contains_target(cfg, m.target_ip)
  BY <1>2 DEF Planner!contains_target
<1>4. m.protocol # "all" /\ m.public_port # None /\ m.target_port # None
  BY <1>1 DEF WellFormed
<1> QED
  BY <1>1, <1>3, <1>4 DEF Planner!HasEntry, Planner!PortForwardSnat, PortForwardSnat

\* The protocols of port forwards have distinct numbers.
LEMMA ProtocolNumbers ==
    \A a, b \in {"tcp", "udp"} : Planner!protocol_number(a) = Planner!protocol_number(b) => a = b
<1>1. Planner!protocol_number("tcp") = 6 /\ Planner!protocol_number("udp") = 17
  BY DEF Planner!protocol_number
<1> QED
  BY <1>1

(***************************************************************************)
(* When the configuration does not change, and for any number of callers   *)
(* at the same time: every enabled row has one nftables rule or one XDP    *)
(* entry, no two of them take the same packets, a plan does not fail, and  *)
(* an apply refuses exactly the tables with an enabled XDP mapping.        *)
(***************************************************************************)
THEOREM BackendsAlwaysShare == OneConfig => (Spec => []BackendsShare)
<1> SUFFICES ASSUME OneConfig PROVE Spec => []BackendsShare
  OBVIOUS
<1>1. IInv /\ ConfigInv /\ FiniteInv => BackendsShare
  <2> SUFFICES ASSUME IInv, ConfigInv, FiniteInv, config # None PROVE BackendsShare
    BY DEF BackendsShare
  <2> DEFINE xdp == Planner!plan(rows, config, [enabled |-> TRUE, valid |-> TRUE])
             off == Planner!plan(rows, config, [enabled |-> FALSE, valid |-> TRUE])
             nft == Planner!render_nftables(rows, config)
             Key(f) == <<f.daddr, f.dport, Planner!protocol_number(f.protocol)>>
             X == {i \in Stored(rows) : rows[i].enabled /\ rows[i].backend = "xdp"}
             P == {i \in Stored(rows) : /\ rows[i].enabled /\ rows[i].backend = "nft"
                                        /\ rows[i].mode = PortForwardSnat}
             O == {i \in Stored(rows) : /\ rows[i].enabled /\ rows[i].backend = "nft"
                                        /\ rows[i].mode = OneToOneSnat}
             entry == [i \in X |-> Planner!plan_entry(i, rows[i])]
             rule == [i \in P |-> Planner!ForwardRule(rows[i], config)]
             element == [i \in O |-> Planner!MapElement(rows[i])]
             PacketKey(m) == <<m.edge_private_ip, m.public_port,
                               Planner!protocol_number(m.protocol)>>
  <2>1. ASSUME NEW i \in Stored(rows)
        PROVE  /\ rows[i] \in MappingType /\ WellFormed(rows[i])
               /\ validate_mapping(rows[i], config) /\ rows[i].enabled \in BOOLEAN
    BY DEF IInv, TypeOK, RowsWellFormed, ConfigInv, Stored, Table, MappingType
  <2>2. /\ \A i \in X \cup P : rows[i].mode = PortForwardSnat /\ rows[i].protocol \in {"tcp", "udp"}
        /\ \A i \in O : rows[i].mode = OneToOneSnat
        /\ X \cap P = {} /\ (X \cup P) \cap O = {}
        /\ X \cup P \cup O = {i \in Stored(rows) : rows[i].enabled}
    BY <2>1 DEF WellFormed, MappingType, MappingMode, MappingBackend, Protocol,
                OneToOneSnat, PortForwardSnat
  <2>3. IsFiniteSet(X) /\ IsFiniteSet(P) /\ IsFiniteSet(O)
    BY FS_Subset DEF FiniteInv
  <2>4. ASSUME NEW i \in Stored(rows), NEW j \in Stored(rows), i # j,
               rows[i].enabled, rows[j].enabled
        PROVE  /\ (rows[i].mode = PortForwardSnat /\ rows[j].mode = PortForwardSnat) =>
                    \/ rows[i].edge_private_ip # rows[j].edge_private_ip
                    \/ rows[i].protocol # rows[j].protocol
                    \/ rows[i].public_port # rows[j].public_port
               /\ ~(rows[i].mode = PortForwardSnat /\ rows[j].mode = PortForwardSnat) =>
                    rows[i].edge_private_ip # rows[j].edge_private_ip
    <3>1. ~TableView!conflicts(rows[i], rows[j])
      BY <2>4 DEF IInv, EnabledRowsDisjoint, TableView!ConflictFree, TableView!Stored, Stored,
                  TableView!Disjoint
    <3> QED
      BY <2>1, <2>4, <3>1 DEF TableView!conflicts, MappingType, MappingMode, OneToOneSnat,
                  PortForwardSnat, TableView!OneToOneSnat, TableView!PortForwardSnat
  <2>5. \A i, j \in X \cup P : i # j => PacketKey(rows[i]) # PacketKey(rows[j])
    BY <2>2, <2>4, ProtocolNumbers
  <2>6. \A i \in O, j \in X \cup P : rows[i].edge_private_ip # rows[j].edge_private_ip
    BY <2>2, <2>4 DEF OneToOneSnat, PortForwardSnat
  <2>7. \A i, j \in O : i # j => rows[i].edge_private_ip # rows[j].edge_private_ip
    BY <2>2, <2>4 DEF OneToOneSnat, PortForwardSnat
  <2>8. Planner!XdpMappings(rows) = X
    BY DEF Planner!XdpMappings, Planner!Stored, Stored
  <2>9. \A i \in X : Planner!HasEntry(rows[i], config)
    BY <2>1, ValidHasEntry
  <2>10. xdp.ok = TRUE /\ xdp.entries = {entry[i] : i \in X}
    BY <2>8, <2>9 DEF Planner!plan, Planner!validate_config
  <2>11. off.ok <=> X = {}
    BY <2>8, <2>9 DEF Planner!plan, Planner!validate_config
  <2>12. Planner!XdpBlocks(rows) <=> X # {}
    BY DEF Planner!XdpBlocks, Planner!Stored, Stored
  <2>13. nft.prerouting = {rule[i] : i \in P}
    BY DEF Planner!render_nftables, Planner!InForceOf, Planner!InForce, Planner!Stored, Stored,
           Planner!PortForwardSnat, PortForwardSnat
  <2>14. nft.edge_to_target = {element[i] : i \in O}
    BY DEF Planner!render_nftables, Planner!InForceOf, Planner!InForce, Planner!Stored, Stored,
           Planner!OneToOneSnat, OneToOneSnat
  <2>15. \A i \in X : entry[i].key = PacketKey(rows[i])
    BY DEF Planner!plan_entry, Planner!XdpMapKey
  <2>16. \A i \in P : Key(rule[i]) = PacketKey(rows[i])
    BY DEF Planner!ForwardRule
  <2>17. \A i \in O : element[i].daddr = rows[i].edge_private_ip
    BY DEF Planner!MapElement
  <2> HIDE DEF xdp, off, nft, X, P, O, entry, rule, element
  <2>18. \A a, b \in xdp.entries : a.key = b.key => a = b
    BY <2>5, <2>10, <2>15
  <2>19. \A a \in xdp.entries : \A f \in nft.prerouting : Key(f) # a.key
    <3> SUFFICES ASSUME NEW i \in X, NEW j \in P PROVE Key(rule[j]) # entry[i].key
      BY <2>10, <2>13
    <3>1. i # j
      BY <2>2
    <3> QED
      BY <2>5, <2>15, <2>16, <3>1
  <2>20. \A a \in xdp.entries : \A g \in nft.edge_to_target : g.daddr # a.key[1]
    <3> SUFFICES ASSUME NEW i \in X, NEW j \in O PROVE element[j].daddr # entry[i].key[1]
      BY <2>10, <2>14
    <3>1. entry[i].key[1] = rows[i].edge_private_ip
      BY <2>15
    <3> QED
      BY <2>6, <2>17, <3>1
  <2>21. /\ Cardinality(xdp.entries) = Cardinality(X)
         /\ Cardinality(nft.prerouting) = Cardinality(P)
         /\ Cardinality(nft.edge_to_target) = Cardinality(O)
    <3>1. \A i, j \in X : entry[i] = entry[j] => i = j
      BY <2>5, <2>15
    <3>2. \A i, j \in P : rule[i] = rule[j] => i = j
      BY <2>5, <2>16
    <3>3. \A i, j \in O : element[i] = element[j] => i = j
      BY <2>7, <2>17
    <3> QED
      BY <2>3, <2>10, <2>13, <2>14, <3>1, <3>2, <3>3, DistinctImages
  <2>22. Cardinality(xdp.entries) + Cardinality(nft.prerouting) + Cardinality(nft.edge_to_target)
           = Cardinality({i \in Stored(rows) : rows[i].enabled})
    BY <2>2, <2>3, <2>21, CountThree
  <2>23. X # {} <=> xdp.entries # {}
    BY <2>10
  <2> QED
    BY <2>10, <2>11, <2>12, <2>18, <2>19, <2>20, <2>22, <2>23
       DEF BackendsShare, xdp, off, nft
<1> QED
  BY <1>1, Invariance, ConfigAlways, FiniteAlways, PTL
=============================================================================
