----------------------- MODULE ReconcilerSerialProofs -----------------------
(***************************************************************************)
(* Proofs about Reconciler when the jobs take turns (Overlap is FALSE): no *)
(* request is made while a job runs.  For any number of jobs and requests, *)
(* any rows, options and failures.  Three more hypotheses, each where it   *)
(* is needed and nowhere else: no nft child outlives its timeout           *)
(* (MaxLate = 0), there are no rollbacks, and the processes agree on the   *)
(* WAN interface.  Late ip children are always allowed.                    *)
(***************************************************************************)
EXTENDS ReconcilerApplyProofs, FiniteSetTheorems

\* Nobody runs beside a running job.
Turns == \A p, q \in Job : (jobs[p] # Idle /\ jobs[q] # Idle) => p = q

\* Two rows that differ in their status at most, or no rows.
SameRow(m, n) ==
    \/ m = None /\ n = None
    \/ /\ m \in MappingType /\ n \in MappingType
       /\ m.edge_private_ip = n.edge_private_ip /\ m.target_ip = n.target_ip
       /\ m.public_port = n.public_port /\ m.target_port = n.target_port
       /\ m.protocol = n.protocol /\ m.mode = n.mode /\ m.backend = n.backend
       /\ m.enabled = n.enabled

(***************************************************************************)
(* What a job knows when nobody runs beside it: the table t is still the   *)
(* one it read.                                                            *)
(***************************************************************************)
SerialJob(config, job, t) ==
    /\ (job.kind = "delete" /\ job.pc # "disable") =>
         t[job.id] # None /\ t[job.id].enabled = FALSE
    /\ (job.kind # "rollback" /\ job.pc \notin {"idle", "disable", "list"}) =>
         /\ job.text = render_nftables(job.snap, config)
         /\ \A i \in Id : SameRow(t[i], job.snap[i])
    /\ job.pc = "delete_row" => job.kind = "delete"

SerialInv ==
    /\ Turns
    /\ \A p \in Job : SerialJob(ConfigOf[p], jobs[p], rows)

\* Nobody comes between a job and its nft.
UntouchedInv == late = {} /\ \A p \in Job : ~meddled[p].nft

\* An address that somebody else changed under a job and that is present was
\* added by a late ip child, or by the job itself for an enabled row.
TouchedJob(p) ==
    /\ (jobs[p] # Idle /\ jobs[p].pc \notin Applied) => meddled[p].addrs = {}
    /\ jobs[p].pc \in Applied =>
         \A a \in meddled[p].addrs \cap addrs :
            \/ a \in stray
            \/ \E i \in NftRows(jobs[p].snap) : jobs[p].snap[i].enabled /\ AddrOf(p, i) = a

TouchedInv == \A p \in Job : TouchedJob(p)

\* The addresses are those of rows, on the one WAN interface, and strays.
AddressInv ==
    /\ AddressesAccounted
    /\ \A a \in addrs, p \in Job : a \in stray \/ a[1] = ConfigOf[p].wan_interface

-----------------------------------------------------------------------------
(* Taking turns *)

\* A job that runs is alone, and the others know nothing.
LEMMA Alone ==
    ASSUME IInv, SerialInv, NEW p \in Job, jobs[p] # Idle
    PROVE  \A q \in Job \ {p} : jobs[q] = Idle
  BY DEF SerialInv, Turns

\* A job that does not run knows nothing.
LEMMA IdleKnows == \A config, t : SerialJob(config, Idle, t)
  BY DEF SerialJob, Idle

\* A step of p leaves the others idle.
LEMMA SerialStep ==
    ASSUME IInv, IInv', SerialInv, NEW p \in Job, jobs[p] # Idle,
           \A q \in Job \ {p} : jobs'[q] = jobs[q],
           SerialJob(ConfigOf[p], jobs'[p], rows')
    PROVE  SerialInv'
<1>1. \A q \in Job \ {p} : jobs'[q] = Idle
  BY Alone
<1>2. Turns'
  BY <1>1 DEF Turns
<1> QED
  BY <1>1, <1>2, IdleKnows DEF SerialInv

\* A job that ends knows nothing.
LEMMA SerialReturn ==
    ASSUME IInv, IInv', SerialInv, NEW p \in Job, jobs[p] # Idle, Return(p)
    PROVE  SerialInv'
<1>1. jobs'[p] = Idle /\ \A q \in Job \ {p} : jobs'[q] = jobs[q]
  BY DEF Return, IInv, TypeOK
<1> QED
  BY <1>1, IdleKnows, SerialStep

\* Every step of a job keeps what it knows.
LEMMA SerialSteps ==
    ASSUME IInv, IInv', SerialInv, NEW p \in Job, Step(p)
    PROVE  SerialInv'
<1> DEFINE config == ConfigOf[p]
<1>1. /\ jobs \in [Job -> JobState] /\ jobs[p] \in JobState /\ rows \in Table /\ rows' \in Table
      /\ JobSound(p) /\ SerialJob(config, jobs[p], rows)
  BY DEF IInv, TypeOK, SerialInv
<1>2. jobs[p] # Idle
  BY Running
<1>3. CASE Return(p)
  BY <1>2, <1>3, SerialReturn
<1> SUFFICES ASSUME ~Return(p) PROVE SerialInv'
  BY <1>3
<1>4. ASSUME SerialJob(config, jobs'[p], rows'),
             \A q \in Job \ {p} : jobs'[q] = jobs[q]
      PROVE  SerialInv'
  BY <1>2, <1>4, SerialStep
<1>5. CASE Disable(p)
  <2> DEFINE id == jobs[p].id
  <2>1. /\ jobs[p].pc = "disable" /\ rows[id] # None
        /\ rows' = [rows EXCEPT ![id] = SetEnabled(rows[id], FALSE)] /\ Goto(p, "list")
    BY <1>5 DEF Disable, set_mapping_enabled
  <2>2. id \in Id
    BY <1>1, <2>1 DEF JobSound
  <2>3. rows[id] \in MappingType
    BY <1>1, <2>1, <2>2 DEF Table
  <2>4. SetEnabled(rows[id], FALSE).enabled = FALSE /\ SetEnabled(rows[id], FALSE) \in MappingType
    BY <2>3 DEF SetEnabled, MappingType, MappingStatus
  <2>5. rows'[id] # None /\ rows'[id].enabled = FALSE
    BY <1>1, <2>1, <2>2, <2>4, NoneIsNoRecord DEF Table
  <2> HIDE DEF id
  <2>6. /\ jobs'[p].pc = "list" /\ jobs'[p].id = id /\ \A q \in Job \ {p} : jobs'[q] = jobs[q]
    BY <2>1, GotoFields DEF id
  <2>7. SerialJob(config, jobs'[p], rows')
    BY <2>5, <2>6 DEF SerialJob
  <2> QED
    BY <1>4, <2>6, <2>7
<1>6. ASSUME NEW m \in MappingType \cup {None} PROVE SameRow(m, m)
  BY <1>6 DEF SameRow
<1>7. CASE List(p)
  <2> DEFINE text == render_nftables(rows, ConfigOf[p])
             job == [jobs[p] EXCEPT !.pc = "record_rendered", !.snap = rows, !.text = text]
  <2>1. /\ jobs[p].pc = "list" /\ rows' = rows
        /\ jobs' = [jobs EXCEPT ![p].pc = "record_rendered", ![p].snap = rows,
                                ![p].text = render_nftables(rows, ConfigOf[p])]
    BY <1>7 DEF List, table
  <2>2. jobs'[p] = job /\ \A q \in Job \ {p} : jobs'[q] = jobs[q]
    BY <1>1, <2>1
  <2>3. /\ job.pc = "record_rendered" /\ job.snap = rows /\ job.text = text
        /\ job.kind = jobs[p].kind /\ job.id = jobs[p].id
    BY <1>1 DEF JobState
  <2> HIDE DEF job
  <2>4. \A i \in Id : SameRow(rows[i], rows[i])
    BY <1>1, <1>6 DEF Table
  <2>5. SerialJob(config, job, rows)
    BY <1>1, <2>1, <2>3, <2>4 DEF SerialJob
  <2> QED
    BY <1>4, <2>1, <2>2, <2>5
<1>8. CASE RecordRendered(p)
  <2>1. jobs[p].pc = "record_rendered" /\ Goto(p, "write") /\ UNCHANGED rows
    BY <1>8 DEF RecordRendered, table, machine
  <2>2. SerialJob(config, jobs'[p], rows)
    BY <1>1, <2>1, GotoFields DEF SerialJob
  <2> QED
    BY <1>4, <2>1, <2>2, GotoFields
<1>9. CASE AtomicWrite(p)
  <2>1. jobs[p].pc = "write" /\ Goto(p, "check") /\ UNCHANGED rows
    BY <1>9 DEF AtomicWrite, table
  <2>2. SerialJob(config, jobs'[p], rows)
    BY <1>1, <2>1, GotoFields DEF SerialJob
  <2> QED
    BY <1>4, <2>1, <2>2, GotoFields
<1>10. CASE CheckFile(p)
  <2> DEFINE pc == IF jobs[p].kind = "rollback" THEN "nft_read" ELSE "record_validated"
  <2>1. jobs[p].pc = "check" /\ Goto(p, pc) /\ UNCHANGED rows
    BY <1>10 DEF CheckFile, table, machine
  <2>2. SerialJob(config, jobs'[p], rows)
    BY <1>1, <2>1, GotoFields DEF SerialJob
  <2> QED
    BY <1>4, <2>1, <2>2, GotoFields
<1>13. CASE RecordValidated(p)
  <2> DEFINE pc == IF jobs[p].apply_nft THEN "nft_read" ELSE AfterNft(jobs[p])
             job == [jobs[p] EXCEPT !.pc = pc, !.todo = NftRows(jobs[p].snap)]
  <2>1. /\ jobs[p].pc = "record_validated" /\ UNCHANGED rows
        /\ jobs' = [jobs EXCEPT ![p].pc = pc, ![p].todo = NftRows(jobs[p].snap)]
    BY <1>13 DEF RecordValidated, table, machine
  <2>2. pc \in {"nft_read", "addr_list", "finish"} /\ (pc = "finish" => ~jobs[p].apply_linux)
    BY DEF AfterNft
  <2> HIDE DEF pc
  <2>3. jobs'[p] = job /\ \A q \in Job \ {p} : jobs'[q] = jobs[q]
    BY <1>1, <2>1
  <2>4. /\ job.pc = pc /\ job.todo = NftRows(job.snap) /\ job.snap = jobs[p].snap
        /\ job.kind = jobs[p].kind /\ job.id = jobs[p].id /\ job.text = jobs[p].text
        /\ job.apply_linux = jobs[p].apply_linux
    BY <1>1 DEF JobState
  <2> HIDE DEF job
  <2>6. SerialJob(config, job, rows)
    BY <1>1, <2>1, <2>2, <2>4 DEF SerialJob
  <2> QED
    BY <1>4, <2>1, <2>3, <2>6
<1>14. CASE NftRead(p)
  <2> DEFINE job == [jobs[p] EXCEPT !.pc = "nft_commit", !.loaded = file]
  <2>1. /\ jobs[p].pc = "nft_read" /\ UNCHANGED rows
        /\ jobs' = [jobs EXCEPT ![p].pc = "nft_commit", ![p].loaded = file]
    BY <1>14 DEF NftRead, table, machine
  <2>2. jobs'[p] = job /\ \A q \in Job \ {p} : jobs'[q] = jobs[q]
    BY <1>1, <2>1
  <2>3. /\ job.pc = "nft_commit" /\ job.todo = jobs[p].todo /\ job.snap = jobs[p].snap
        /\ job.kind = jobs[p].kind /\ job.id = jobs[p].id /\ job.text = jobs[p].text
    BY <1>1 DEF JobState
  <2> HIDE DEF job
  <2>4. SerialJob(config, job, rows)
    BY <1>1, <2>1, <2>3 DEF SerialJob
  <2> QED
    BY <1>4, <2>1, <2>2, <2>4
<1>15. CASE NftCommit(p)
  <2>1. /\ jobs[p].pc = "nft_commit" /\ jobs[p].kind # "rollback"
        /\ Goto(p, AfterNft(jobs[p])) /\ UNCHANGED rows
    BY <1>15 DEF NftCommit, table
  <2>2. /\ AfterNft(jobs[p]) \in {"addr_list", "finish"}
        /\ AfterNft(jobs[p]) = "finish" => ~jobs[p].apply_linux
    BY DEF AfterNft
  <2>5. SerialJob(config, jobs'[p], rows)
    BY <1>1, <2>1, <2>2, GotoFields DEF SerialJob
  <2> QED
    BY <1>4, <2>1, <2>5, GotoFields

<1>16. CASE AddrList(p) \/ AddrChange(p)
  <2>1. /\ jobs[p].pc \in {"addr_list", "addr_change"} /\ UNCHANGED rows
        /\ \E pc \in {"addr_list", "addr_change", "finish"} : \E todo :
              jobs' = [jobs EXCEPT ![p].pc = pc, ![p].todo = todo]
    <3>1. CASE AddrList(p)
      <4>1. jobs[p].pc = "addr_list" /\ UNCHANGED rows
        BY <3>1 DEF AddrList, table
      <4>2. ASSUME NEW pc, Goto(p, pc) PROVE jobs' = [jobs EXCEPT ![p].pc = pc, ![p].todo = jobs[p].todo]
        BY <1>1, <4>2 DEF Goto, JobState
      <4>3. ASSUME NEW i, jobs' = [jobs EXCEPT ![p].todo = @ \ {i}]
            PROVE  jobs' = [jobs EXCEPT ![p].pc = "addr_list", ![p].todo = jobs[p].todo \ {i}]
        BY <1>1, <4>1, <4>3 DEF JobState
      <4> QED
        BY <3>1, <4>1, <4>2, <4>3 DEF AddrList
    <3>2. CASE AddrChange(p)
      <4>1. jobs[p].pc = "addr_change" /\ UNCHANGED rows
        BY <3>2 DEF AddrChange, table
      <4>2. PICK i \in jobs[p].todo :
               jobs' = [jobs EXCEPT ![p].pc = "addr_list", ![p].todo = @ \ {i}]
        BY <3>2 DEF AddrChange
      <4> QED
        BY <4>1, <4>2
    <3> QED
      BY <1>16, <3>1, <3>2
  <2>6. PICK pc \in {"addr_list", "addr_change", "finish"} :
           \E todo : jobs' = [jobs EXCEPT ![p].pc = pc, ![p].todo = todo]
    BY <2>1
  <2>2. PICK todo : jobs' = [jobs EXCEPT ![p].pc = pc, ![p].todo = todo]
    BY <2>6
  <2> DEFINE job == [jobs[p] EXCEPT !.pc = pc, !.todo = todo]
  <2>3. jobs'[p] = job /\ \A q \in Job \ {p} : jobs'[q] = jobs[q]
    BY <1>1, <2>2
  <2>4. /\ job.pc = pc /\ job.snap = jobs[p].snap /\ job.kind = jobs[p].kind
        /\ job.id = jobs[p].id /\ job.text = jobs[p].text
    BY <1>1 DEF JobState
  <2> HIDE DEF job
  <2>5. SerialJob(config, job, rows)
    BY <1>1, <2>1, <2>4 DEF SerialJob
  <2> QED
    BY <1>4, <2>1, <2>3, <2>5
<1>20. CASE Finish(p)
  <2> DEFINE todo == {i \in NftRows(jobs[p].snap) : jobs[p].snap[i].enabled}
             job == [jobs[p] EXCEPT !.pc = "health", !.todo = todo]
  <2>1. /\ jobs[p].pc = "finish" /\ jobs[p].apply_linux /\ UNCHANGED rows
        /\ jobs' = [jobs EXCEPT ![p].pc = "health", ![p].todo = todo]
    BY <1>20 DEF Finish, table, machine
  <2> HIDE DEF todo
  <2>2. jobs'[p] = job /\ \A q \in Job \ {p} : jobs'[q] = jobs[q]
    BY <1>1, <2>1
  <2>3. /\ job.pc = "health" /\ job.snap = jobs[p].snap /\ job.kind = jobs[p].kind
        /\ job.id = jobs[p].id /\ job.text = jobs[p].text
    BY <1>1 DEF JobState
  <2> HIDE DEF job
  <2>4. SerialJob(config, job, rows)
    BY <1>1, <2>1, <2>3 DEF SerialJob
  <2> QED
    BY <1>4, <2>1, <2>2, <2>4
<1>21. CASE Health(p)
  <2>1. PICK i \in jobs[p].todo :
           /\ rows[i] # None
           /\ \E s \in HealthOf(jobs[p].snap[i]) :
                 rows' = [rows EXCEPT ![i] = MarkStatus(rows[i], s)]
           /\ jobs' = [jobs EXCEPT ![p].todo = @ \ {i}]
    BY <1>21 DEF Health
  <2>2. jobs[p].pc = "health"
    BY <1>21 DEF Health
  <2> DEFINE job == [jobs[p] EXCEPT !.todo = @ \ {i}]
  <2>3. jobs'[p] = job /\ \A q \in Job \ {p} : jobs'[q] = jobs[q]
    BY <1>1, <2>1
  <2>4. /\ job.pc = "health" /\ job.snap = jobs[p].snap /\ job.kind = jobs[p].kind
        /\ job.id = jobs[p].id /\ job.text = jobs[p].text
    BY <1>1, <2>2 DEF JobState
  <2> HIDE DEF job
  <2>5. PICK s \in MappingStatus : rows' = [rows EXCEPT ![i] = MarkStatus(rows[i], s)]
    BY <2>1 DEF HealthOf, MappingStatus
  <2>6. i \in Id /\ rows[i] \in MappingType
    BY <1>1, <2>1 DEF JobState, Table
  <2>7. /\ MarkStatus(rows[i], s) \in MappingType
        /\ \A n : SameRow(rows[i], n) => SameRow(MarkStatus(rows[i], s), n)
        /\ MarkStatus(rows[i], s).enabled = rows[i].enabled
    <3> DEFINE m == MarkStatus(rows[i], s)
    <3>1. /\ m \in MappingType /\ m.target_ip = rows[i].target_ip
          /\ m.edge_private_ip = rows[i].edge_private_ip /\ m.public_port = rows[i].public_port
          /\ m.target_port = rows[i].target_port /\ m.protocol = rows[i].protocol
          /\ m.mode = rows[i].mode /\ m.backend = rows[i].backend /\ m.enabled = rows[i].enabled
      BY <2>6 DEF MarkStatus, MappingType
    <3> HIDE DEF m
    <3>2. \A n : SameRow(rows[i], n) => SameRow(m, n)
      BY <2>1, <3>1 DEF SameRow
    <3> QED
      BY <3>1, <3>2 DEF m
  <2>8. /\ rows'[i] = MarkStatus(rows[i], s) /\ rows'[i] # None
        /\ \A j \in Id \ {i} : rows'[j] = rows[j]
    BY <1>1, <2>5, <2>6, <2>7, NoneIsNoRecord DEF Table
  <2>9. /\ \A j \in Id : \A n : SameRow(rows[j], n) => SameRow(rows'[j], n)
        /\ \A j \in Id : rows[j] # None /\ rows[j].enabled = FALSE =>
              rows'[j] # None /\ rows'[j].enabled = FALSE
    BY <2>7, <2>8
  <2>10. jobs[p].kind = "delete" => jobs[p].id \in Id
    BY <1>1 DEF JobSound
  <2>11. SerialJob(config, job, rows')
    BY <1>1, <2>2, <2>4, <2>9, <2>10 DEF SerialJob
  <2> QED
    BY <1>4, <2>2, <2>3, <2>11
<1>22. CASE Complete(p)
  <2>1. /\ jobs[p].pc = "health" /\ jobs[p].kind = "delete" /\ Goto(p, "delete_row")
        /\ UNCHANGED rows
    BY <1>22 DEF Complete, table, machine
  <2>2. SerialJob(config, jobs'[p], rows)
    BY <1>1, <2>1, GotoFields DEF SerialJob
  <2> QED
    BY <1>4, <2>1, <2>2, GotoFields
<1> QED
  BY <1>5, <1>7, <1>8, <1>9, <1>10, <1>13, <1>14, <1>15, <1>16, <1>20, <1>21, <1>22
  DEF Step, DeleteRow

\* The whole system, when jobs take turns.
LEMMA SerialNext ==
    ASSUME Overlap = FALSE, IInv, IInv', SerialInv, [Next]_vars
    PROVE  SerialInv'
<1>1. ASSUME Quiet, UNCHANGED jobs PROVE SerialInv'
  BY <1>1, IdleKnows DEF Quiet, SerialInv, Turns
<1>2. CASE Request
  <2>1. Quiet /\ UNCHANGED jobs
    BY <1>2 DEF Request, create_mapping, enable_mapping, oci_allocate, Ask
  <2> QED
    BY <1>1, <2>1
<1>3. ASSUME NEW p \in Job, Start(p) PROVE SerialInv'
  <2>1. PICK job : /\ Begin(p, job)
                   /\ \/ job.kind = "reconcile" /\ job.pc = "list"
                      \/ job.kind = "delete" /\ job.pc = "disable"
                      \/ job.kind = "rollback" /\ job.pc = "write"
    BY <1>3, Begins
  <2>2. /\ Quiet /\ jobs'[p] = job /\ \A q \in Job \ {p} : jobs'[q] = Idle
    BY <2>1 DEF Begin, Ask, Quiet, IInv, TypeOK
  <2>3. SerialJob(ConfigOf[p], job, rows')
    BY <2>1 DEF SerialJob
  <2>4. Turns'
    BY <2>2 DEF Turns
  <2> QED
    BY <2>2, <2>3, <2>4, IdleKnows DEF SerialInv
<1>4. ASSUME NEW p \in Job, Step(p) PROVE SerialInv'
  BY <1>4, SerialSteps
<1>5. ASSUME NEW p \in Job, Failure(p) PROVE SerialInv'
  <2>1. jobs[p] # Idle /\ Return(p)
    BY <1>5 DEF Failure, Fail, FailRecorded, NftTimeout, AddrTimeout, Idle
  <2> QED
    BY <2>1, SerialReturn
<1>6. ASSUME UNCHANGED <<jobs, rows>> PROVE SerialInv'
  BY <1>6 DEF SerialInv, Turns
<1>7. CASE LateRead \/ (\E t \in late \ {None} : LateCommit(t)) \/ \E c \in lateAddr : LateAddr(c)
  BY <1>6, <1>7 DEF LateRead, LateCommit, LateAddr, table
<1>8. CASE UNCHANGED vars
  BY <1>6, <1>8 DEF vars
<1> QED
  BY <1>2, <1>3, <1>4, <1>5, <1>7, <1>8 DEF Next

\* What a job knows holds in every state, when jobs take turns.
LEMMA SerialAlways == Overlap = FALSE => (Spec => []SerialInv)
<1> SUFFICES ASSUME Overlap = FALSE PROVE Spec => []SerialInv
  OBVIOUS
<1>1. Init => SerialInv
  BY IdleKnows DEF Init, SerialInv, Turns
<1>2. IInv /\ IInv' /\ SerialInv /\ [Next]_vars => SerialInv'
  BY SerialNext
<1> QED
  BY <1>1, <1>2, Invariance, PTL DEF Spec

-----------------------------------------------------------------------------
(* Who comes between a job and the machine *)

\* When jobs take turns and no nft child outlives its timeout, nobody comes
\* between a job and its nft.
LEMMA UntouchedNext ==
    ASSUME Overlap = FALSE, MaxLate = 0, IInv, SerialInv, UntouchedInv, [Next]_vars
    PROVE  UntouchedInv'
<1>1. late = {} /\ (\A p \in Job : ~meddled[p].nft) /\ meddled \in [Job -> Meddling]
  BY DEF UntouchedInv, IInv, TypeOK, HistoryOK
<1>2. ASSUME UNCHANGED <<late, meddled>> PROVE UntouchedInv'
  BY <1>2 DEF UntouchedInv
<1>3. ASSUME NEW p \in Job, jobs[p] # Idle, Meddle(Job \ {p}), UNCHANGED late
      PROVE  UntouchedInv'
  <2>1. ASSUME NEW q \in Job \ {p} PROVE ~meddled'[q].nft
    <3>0. jobs[q] = Idle
      BY <1>3, Alone
    <3>1. jobs[q].pc = "idle"
      BY <3>0 DEF Idle
    <3>2. meddled'[q].nft = (\/ meddled[q].nft
                             \/ jobs[q].pc \in Unread /\ file' # file
                             \/ jobs[q].pc \in Applied /\ live' # live)
      BY <1>3 DEF Meddle
    <3>3. jobs[q].pc \notin Unread /\ jobs[q].pc \notin Applied
      BY <3>1 DEF Unread, Applied
    <3> QED
      BY <1>1, <3>2, <3>3, Zenon
  <2>2. meddled'[p] = meddled[p]
    BY <1>3 DEF Meddle
  <2> QED
    BY <1>1, <1>3, <2>1, <2>2 DEF UntouchedInv
<1>4. CASE Request \/ UNCHANGED vars
  BY <1>2, <1>4 DEF Request, create_mapping, enable_mapping, oci_allocate, machine, vars
<1>5. ASSUME NEW p \in Job, Start(p) PROVE UntouchedInv'
  <2>1. meddled' = [meddled EXCEPT ![p] = Unmeddled] /\ late' = late
    BY <1>5 DEF Start, reconcile, delete_mapping, rollback, Begin
  <2>2. Unmeddled.nft = FALSE
    BY DEF Unmeddled
  <2>3. ASSUME NEW q \in Job PROVE ~meddled'[q].nft
    <3>1. meddled'[q] = Unmeddled \/ meddled'[q] = meddled[q]
      BY <1>1, <2>1
    <3> QED
      BY <1>1, <2>2, <3>1
  <2> QED
    BY <1>1, <2>1, <2>3 DEF UntouchedInv
<1>6. ASSUME NEW p \in Job, Step(p) PROVE UntouchedInv'
  <2>1. late' = late /\ (meddled' = meddled \/ Meddle(Job \ {p}))
    BY <1>6 DEF Step, Disable, List, RecordRendered, AtomicWrite, CheckFile, RecordValidated,
                NftRead, NftCommit, AddrList, AddrChange, Finish, Health, Complete, DeleteRow,
                machine
  <2> QED
    BY <1>2, <1>3, <1>6, <2>1, Running
<1>7. ASSUME NEW p \in Job, Failure(p) PROVE UntouchedInv'
  <2>1. ~NftTimeout(p)
    BY <1>1, FS_EmptySet DEF NftTimeout
  <2> QED
    BY <1>2, <1>7, <2>1 DEF Failure, Fail, FailRecorded, AddrTimeout, machine
<1>8. CASE LateRead \/ \E t \in late \ {None} : LateCommit(t)
  BY <1>1, <1>8 DEF LateRead
<1>9. ASSUME NEW c \in lateAddr, LateAddr(c) PROVE UntouchedInv'
  <2>1. UNCHANGED <<file, live, late>> /\ Meddle(Job)
    BY <1>9 DEF LateAddr
  <2>2. ASSUME NEW q \in Job PROVE ~meddled'[q].nft
    <3>1. meddled'[q].nft = (\/ meddled[q].nft
                             \/ jobs[q].pc \in Unread /\ file' # file
                             \/ jobs[q].pc \in Applied /\ live' # live)
      BY <2>1 DEF Meddle
    <3> QED
      BY <1>1, <2>1, <3>1, Zenon
  <2> QED
    BY <1>1, <2>1, <2>2 DEF UntouchedInv
<1> QED
  BY <1>4, <1>5, <1>6, <1>7, <1>8, <1>9 DEF Next

LEMMA UntouchedAlways == Overlap = FALSE /\ MaxLate = 0 => (Spec => []UntouchedInv)
<1> SUFFICES ASSUME Overlap = FALSE, MaxLate = 0 PROVE Spec => []UntouchedInv
  OBVIOUS
<1>1. Init => UntouchedInv
  <2> SUFFICES ASSUME Init PROVE UntouchedInv
    OBVIOUS
  <2>1. late = {} /\ \A p \in Job : meddled[p] = Unmeddled
    BY DEF Init
  <2>2. Unmeddled.nft = FALSE
    BY DEF Unmeddled
  <2> QED
    BY <2>1, <2>2 DEF UntouchedInv
<1>2. IInv /\ SerialInv /\ UntouchedInv /\ [Next]_vars => UntouchedInv'
  BY UntouchedNext
<1> QED
  BY <1>1, <1>2, Invariance, SerialAlways, PTL DEF Spec

\* A job that has come to its loop keeps its snapshot to the end.
LEMMA LoopKeeps ==
    ASSUME IInv, NEW p \in Job, Step(p), jobs[p].pc \in Applied
    PROVE  Return(p) \/ (jobs'[p].pc \in Applied /\ jobs'[p].snap = jobs[p].snap)
<1>1. jobs \in [Job -> JobState] /\ jobs[p] \in JobState
  BY DEF IInv, TypeOK
<1>2. ASSUME NEW pc \in Applied, Goto(p, pc)
      PROVE  jobs'[p].pc \in Applied /\ jobs'[p].snap = jobs[p].snap
  BY <1>2, GotoFields
<1>3. CASE AddrList(p)
  <2>1. ASSUME NEW i, jobs' = [jobs EXCEPT ![p].todo = @ \ {i}]
        PROVE  jobs'[p].pc = jobs[p].pc /\ jobs'[p].snap = jobs[p].snap
    BY <1>1, <2>1 DEF JobState
  <2> QED
    BY <1>2, <1>3, <2>1 DEF AddrList, Applied
<1>4. CASE AddrChange(p)
  <2>1. ASSUME NEW i, jobs' = [jobs EXCEPT ![p].pc = "addr_list", ![p].todo = @ \ {i}]
        PROVE  jobs'[p].pc = "addr_list" /\ jobs'[p].snap = jobs[p].snap
    BY <1>1, <2>1 DEF JobState
  <2> QED
    BY <1>4, <2>1 DEF AddrChange, Applied
<1>5. CASE Finish(p)
  <2>1. ASSUME NEW todo, jobs' = [jobs EXCEPT ![p].pc = "health", ![p].todo = todo]
        PROVE  jobs'[p].pc = "health" /\ jobs'[p].snap = jobs[p].snap
    BY <1>1, <2>1 DEF JobState
  <2> QED
    BY <1>5, <2>1 DEF Finish, Applied
<1>6. CASE Health(p)
  <2>1. ASSUME NEW i, jobs' = [jobs EXCEPT ![p].todo = @ \ {i}]
        PROVE  jobs'[p].pc = jobs[p].pc /\ jobs'[p].snap = jobs[p].snap
    BY <1>1, <2>1 DEF JobState
  <2> QED
    BY <1>6, <2>1 DEF Health
<1>7. CASE Complete(p) \/ DeleteRow(p)
  BY <1>2, <1>7 DEF Complete, DeleteRow, Applied
<1> QED
  BY <1>3, <1>4, <1>5, <1>6, <1>7
  DEF Step, Applied, Disable, List, RecordRendered, AtomicWrite, CheckFile, RecordValidated,
      NftRead, NftCommit

\* The addresses a job does not recognize are strays.
LEMMA TouchedNext ==
    ASSUME Overlap = FALSE, IInv, SerialInv, ApplyInv, TouchedInv, [Next]_vars
    PROVE  TouchedInv'
<1>1. ASSUME NEW q \in Job, jobs'[q] = Idle PROVE TouchedJob(q)'
  BY <1>1 DEF TouchedJob, Idle, Applied
<1>2. ASSUME UNCHANGED <<jobs, addrs, meddled, stray>> PROVE TouchedInv'
  BY <1>2 DEF TouchedInv, TouchedJob, AddrOf
<1>3. ASSUME NEW p \in Job, jobs[p] # Idle, \A q \in Job \ {p} : jobs'[q] = jobs[q], TouchedJob(p)'
      PROVE  TouchedInv'
  BY <1>1, <1>3, Alone DEF TouchedInv
<1>4. CASE Request \/ LateRead \/ UNCHANGED vars
  BY <1>2, <1>4
  DEF Request, create_mapping, enable_mapping, oci_allocate, LateRead, machine, vars
<1>5. ASSUME NEW p \in Job, Start(p) PROVE TouchedInv'
  <2>1. PICK job : Begin(p, job) /\ job.pc \in {"list", "disable", "write"}
    BY <1>5, Begins
  <2>2. /\ jobs'[p] = job /\ (\A q \in Job \ {p} : jobs'[q] = Idle) /\ meddled'[p] = Unmeddled
    BY <2>1 DEF Begin, Ask, Quiet, IInv, TypeOK, HistoryOK
  <2>3. TouchedJob(p)'
    BY <2>1, <2>2 DEF TouchedJob, Unmeddled, Applied
  <2> QED
    BY <1>1, <2>2, <2>3 DEF TouchedInv
<1>6. ASSUME NEW p \in Job, Step(p) PROVE TouchedInv'
  <2>1. /\ \A q \in Job \ {p} : jobs'[q] = jobs[q]
        /\ stray' = stray \cap addrs' \/ (stray' = stray /\ addrs' = addrs)
    <3>1. jobs \in [Job -> JobState]
      BY DEF IInv, TypeOK
    <3>2. \A q \in Job \ {p} : jobs'[q] = jobs[q]
      BY <1>6, <3>1
      DEF Step, Disable, List, RecordRendered, AtomicWrite, CheckFile,
          RecordValidated, NftRead, NftCommit, AddrList, AddrChange, Finish, Health,
          Complete, DeleteRow, Goto, Return
    <3>3. stray' = stray \cap addrs' \/ (stray' = stray /\ addrs' = addrs)
      BY <1>6 DEF Step, Disable, List, RecordRendered, AtomicWrite, CheckFile,
          RecordValidated, NftRead, NftCommit, AddrList, AddrChange, Finish, Health,
          Complete, DeleteRow, machine
    <3> QED
      BY <3>2, <3>3
  <2>2. meddled'[p] = meddled[p]
    BY <1>6 DEF Step, Disable, List, RecordRendered, AtomicWrite, CheckFile,
          RecordValidated, NftRead, NftCommit, AddrList, AddrChange, Finish, Health,
          Complete, DeleteRow, machine, Meddle
  <2>3. jobs[p] # Idle /\ TouchedJob(p)
    BY <1>6, Running DEF TouchedInv
  <2>4. CASE Return(p)
    <3>1. jobs'[p] = Idle
      BY <2>4 DEF Return, IInv, TypeOK
    <3> QED
      BY <1>1, <1>3, <2>1, <2>3, <3>1
  <2>5. CASE jobs[p].pc \notin Applied
    <3>1. meddled'[p].addrs = {}
      BY <2>2, <2>3, <2>5 DEF TouchedJob
    <3>2. TouchedJob(p)'
      BY <3>1 DEF TouchedJob
    <3> QED
      BY <1>3, <2>1, <2>3, <3>2
  <2>6. CASE jobs[p].pc \in Applied /\ ~Return(p)
    <3>1. jobs'[p].pc \in Applied /\ jobs'[p].snap = jobs[p].snap
      BY <1>6, <2>6, LoopKeeps
    <3>2. \A i \in NftRows(jobs[p].snap) : AddrOf(p, i)' = AddrOf(p, i)
      BY <3>1 DEF AddrOf
    <3>3. ASSUME NEW a \in addrs', a \notin addrs
          PROVE  \E i \in NftRows(jobs[p].snap) : jobs[p].snap[i].enabled /\ AddrOf(p, i) = a
      <4>1. AddrChange(p)
        BY <1>6, <3>3
        DEF Step, Disable, List, RecordRendered, AtomicWrite, CheckFile, RecordValidated,
            NftRead, NftCommit, AddrList, Finish, Health, Complete, DeleteRow, machine
      <4>2. PICK i \in jobs[p].todo : AddrToggle(p, i)
        BY <4>1 DEF AddrChange
      <4>3. i \in NftRows(jobs[p].snap)
        BY <4>1, <4>2 DEF AddrChange, ApplyInv, ApplyJob, Visiting
      <4> QED
        BY <3>3, <4>2, <4>3 DEF AddrToggle
    <3>4. ASSUME NEW a \in meddled'[p].addrs \cap addrs'
          PROVE  \/ a \in stray'
                 \/ \E i \in NftRows(jobs[p].snap) : jobs[p].snap[i].enabled /\ AddrOf(p, i) = a
      <4>1. CASE a \in addrs
        BY <2>1, <2>2, <2>3, <2>6, <4>1 DEF TouchedJob
      <4> QED
        BY <3>3, <4>1
    <3>5. TouchedJob(p)'
      <4>1. \A a \in meddled'[p].addrs \cap addrs' :
               \/ a \in stray'
               \/ \E i \in NftRows(jobs'[p].snap) : jobs'[p].snap[i].enabled /\ AddrOf(p, i)' = a
        BY <3>1, <3>2, <3>4
      <4> QED
        BY <3>1, <4>1 DEF TouchedJob
    <3> QED
      BY <1>3, <2>1, <2>3, <3>5
  <2> QED
    BY <2>4, <2>5, <2>6
<1>7. ASSUME NEW p \in Job, Failure(p) PROVE TouchedInv'
  <2>1. jobs[p] # Idle /\ Return(p)
    BY <1>7 DEF Failure, Fail, FailRecorded, NftTimeout, AddrTimeout, Idle
  <2>2. jobs'[p] = Idle /\ \A q \in Job \ {p} : jobs'[q] = jobs[q]
    BY <2>1 DEF Return, IInv, TypeOK
  <2> QED
    BY <1>1, <1>3, <2>1, <2>2
<1>8. ASSUME UNCHANGED jobs, Meddle(Job), addrs' \cap (stray \cup (addrs' \ addrs)) \subseteq stray'
      PROVE  TouchedInv'
  <2> SUFFICES ASSUME NEW p \in Job, jobs[p] # Idle PROVE TouchedJob(p)'
    BY <1>1, <1>8 DEF TouchedInv
  <2>1. meddled'[p].addrs = meddled[p].addrs \cup
           {a \in addrs \cup addrs' : jobs[p].pc \in Applied /\ (a \in addrs) # (a \in addrs')}
    BY <1>8 DEF Meddle
  <2>2. TouchedJob(p) /\ jobs'[p] = jobs[p] /\ \A i : AddrOf(p, i)' = AddrOf(p, i)
    BY <1>8 DEF TouchedInv, AddrOf
  <2>3. CASE jobs[p].pc \notin Applied
    BY <2>1, <2>2, <2>3 DEF TouchedJob
  <2>4. CASE jobs[p].pc \in Applied
    <3>1. ASSUME NEW a \in meddled'[p].addrs \cap addrs'
          PROVE  \/ a \in stray'
                 \/ \E i \in NftRows(jobs[p].snap) : jobs[p].snap[i].enabled /\ AddrOf(p, i) = a
      <4>1. CASE a \in addrs
        <5>1. a \in meddled[p].addrs
          BY <2>1, <4>1
        <5> QED
          BY <1>8, <2>2, <2>4, <4>1, <5>1 DEF TouchedJob
      <4>2. CASE a \notin addrs
        BY <1>8, <4>2
      <4> QED
        BY <4>1, <4>2
    <3> QED
      BY <2>2, <2>4, <3>1 DEF TouchedJob
  <2> QED
    BY <2>3, <2>4
<1>9. ASSUME NEW t \in late \ {None}, LateCommit(t) PROVE TouchedInv'
  BY <1>8, <1>9 DEF LateCommit
<1>10. ASSUME NEW c \in lateAddr, LateAddr(c) PROVE TouchedInv'
  BY <1>8, <1>10 DEF LateAddr
<1> QED
  BY <1>4, <1>5, <1>6, <1>7, <1>9, <1>10 DEF Next

LEMMA TouchedAlways == Overlap = FALSE => (Spec => []TouchedInv)
<1> SUFFICES ASSUME Overlap = FALSE PROVE Spec => []TouchedInv
  OBVIOUS
<1>1. Init => TouchedInv
  BY DEF Init, TouchedInv, TouchedJob, Idle, Applied
<1>2. IInv /\ SerialInv /\ ApplyInv /\ TouchedInv /\ [Next]_vars => TouchedInv'
  BY TouchedNext
<1> QED
  BY <1>1, <1>2, Invariance, SerialAlways, ApplyAlways, PTL DEF Spec

-----------------------------------------------------------------------------
(* Rules and addresses belong to rows *)

\* A row n that is the row m after an edit, under the address it had or one of
\* those an allocation took.
Kept(m, n) ==
    /\ n \in MappingType
    /\ n.target_ip = m.target_ip /\ n.public_port = m.public_port
    /\ n.target_port = m.target_port /\ n.protocol = m.protocol /\ n.backend = m.backend

\* Only the end of a delete takes a row away; a row that loses its address is
\* remembered with it.
LEMMA RowsKept ==
    ASSUME IInv, [Next]_vars, ~\E p \in Job : DeleteRow(p)
    PROVE  /\ moved \subseteq moved'
           /\ \A i \in Stored(rows) :
                 /\ Kept(rows[i], rows'[i])
                 /\ \/ rows'[i].edge_private_ip = rows[i].edge_private_ip
                    \/ <<i, rows[i].edge_private_ip>> \in moved'
<1> DEFINE Good(i) == /\ Kept(rows[i], rows'[i])
                      /\ \/ rows'[i].edge_private_ip = rows[i].edge_private_ip
                         \/ <<i, rows[i].edge_private_ip>> \in moved'
           Goal == moved \subseteq moved' /\ \A i \in Stored(rows) : Good(i)
<1>1. rows \in Table /\ \A i \in Stored(rows) : i \in Id /\ rows[i] \in MappingType
  BY DEF IInv, TypeOK, Table, Stored
<1>2. ASSUME NEW m \in MappingType PROVE Kept(m, m)
  BY DEF Kept
<1>3. ASSUME UNCHANGED <<rows, moved>> PROVE Goal
  BY <1>1, <1>2, <1>3
<1>4. ASSUME NEW id \in Id, NEW m \in MappingType, rows' = [rows EXCEPT ![id] = m],
             moved \subseteq moved',
             rows[id] # None => /\ Kept(rows[id], m)
                                /\ \/ m.edge_private_ip = rows[id].edge_private_ip
                                   \/ <<id, rows[id].edge_private_ip>> \in moved'
      PROVE  Goal
  <2>1. rows'[id] = m /\ \A i \in Id \ {id} : rows'[i] = rows[i]
    BY <1>1, <1>4 DEF Table
  <2>2. ASSUME NEW i \in Stored(rows) PROVE Good(i)
    <3>1. CASE i = id
      BY <1>4, <2>1, <3>1 DEF Stored
    <3>2. CASE i # id
      BY <1>1, <1>2, <2>1, <3>2
    <3> QED
      BY <3>1, <3>2
  <2> QED
    BY <1>4, <2>2
<1>5. ASSUME NEW id \in Id, NEW b \in BOOLEAN, set_mapping_enabled(id, b), moved' = moved
      PROVE  Goal
  <2>1. rows[id] \in MappingType
    BY <1>1, <1>5 DEF set_mapping_enabled, Stored
  <2> DEFINE m == SetEnabled(rows[id], b)
  <2>2. m \in MappingType /\ Kept(rows[id], m) /\ m.edge_private_ip = rows[id].edge_private_ip
    BY <2>1 DEF SetEnabled, Kept, MappingType, MappingStatus
  <2>3. rows' = [rows EXCEPT ![id] = m]
    BY <1>5 DEF set_mapping_enabled
  <2> HIDE DEF m
  <2> QED
    BY <1>4, <1>5, <2>2, <2>3
<1>6. CASE Request
  <2>1. ASSUME NEW id \in Id, NEW request \in Requests, NEW p \in Job,
               create_mapping(id, request, ConfigOf[p])
        PROVE  Goal
    <3>1. PICK m \in MappingType : m = MappingNew(request)
      BY RowTypes
    <3>2. rows' = [rows EXCEPT ![id] = m] /\ rows[id] = None /\ moved' = moved
      BY <2>1, <3>1 DEF create_mapping
    <3> QED
      BY <1>4, <3>2
  <2>2. ASSUME NEW id \in Id, NEW b \in BOOLEAN, enable_mapping(id, b) PROVE Goal
    BY <1>5, <2>2 DEF enable_mapping
  <2>3. ASSUME NEW id \in Id, NEW a \in Allocations, NEW b \in BOOLEAN, NEW p \in Job,
               oci_allocate(id, a, b, ConfigOf[p])
        PROVE  Goal
    <3>1. rows[id] # None /\ rows[id] \in MappingType
      BY <1>1, <2>3 DEF oci_allocate, Stored
    <3> DEFINE m == Allocated([rows[id] EXCEPT !.enabled = b], a)
    <3>2. m \in MappingType
      BY <3>1, RowTypes
    <3>3. /\ m.target_ip = rows[id].target_ip /\ m.public_port = rows[id].public_port
          /\ m.target_port = rows[id].target_port /\ m.protocol = rows[id].protocol
          /\ m.backend = rows[id].backend
      BY <3>1 DEF Allocated, MarkStatus, MappingType
    <3>4. /\ rows' = [rows EXCEPT ![id] = m]
          /\ moved' = moved \cup {<<id, rows[id].edge_private_ip>>}
      BY <2>3 DEF oci_allocate
    <3> HIDE DEF m
    <3> QED
      BY <1>4, <3>2, <3>3, <3>4 DEF Kept
  <2> QED
    BY <1>6, <2>1, <2>2, <2>3 DEF Request
<1>7. ASSUME NEW p \in Job, Disable(p) PROVE Goal
  <2>1. jobs[p].id \in Id
    BY <1>7 DEF Disable, IInv, JobSound
  <2> QED
    BY <1>3, <1>5, <1>7, <2>1 DEF Disable
<1>8. ASSUME NEW p \in Job, Health(p) PROVE Goal
  <2>1. PICK i \in jobs[p].todo :
           IF rows[i] # None
           THEN \E s \in HealthOf(jobs[p].snap[i]) :
                   rows' = [rows EXCEPT ![i] = MarkStatus(rows[i], s)]
           ELSE UNCHANGED rows
    BY <1>8 DEF Health
  <2>2. i \in Id /\ moved' = moved
    BY <1>8 DEF Health, IInv, TypeOK, JobState
  <2>3. CASE rows[i] # None
    <3>1. PICK s \in MappingStatus : rows' = [rows EXCEPT ![i] = MarkStatus(rows[i], s)]
      BY <2>1, <2>3 DEF HealthOf, MappingStatus
    <3>2. rows[i] \in MappingType
      BY <1>1, <2>2, <2>3 DEF Stored
    <3> DEFINE m == MarkStatus(rows[i], s)
    <3>3. m \in MappingType /\ Kept(rows[i], m) /\ m.edge_private_ip = rows[i].edge_private_ip
      BY <3>2 DEF MarkStatus, Kept, MappingType
    <3>4. rows' = [rows EXCEPT ![i] = m]
      BY <3>1
    <3> HIDE DEF m
    <3> QED
      BY <1>4, <2>2, <3>3, <3>4
  <2> QED
    BY <1>3, <2>1, <2>2, <2>3
<1>9. CASE ~Request /\ ~\E p \in Job : Disable(p) \/ Health(p)
  <2>1. UNCHANGED table
    <3>1. CASE UNCHANGED vars
      BY <3>1 DEF vars, table
    <3>2. ASSUME NEW p \in Job, Start(p) PROVE UNCHANGED table
      BY <3>2 DEF Start, reconcile, delete_mapping, rollback, Begin
    <3>3. ASSUME NEW p \in Job, Step(p) PROVE UNCHANGED table
      BY <1>9, <3>3 DEF Step, List, RecordRendered, AtomicWrite, CheckFile, RecordValidated,
                         NftRead, NftCommit, AddrList, AddrChange, Finish, Complete
    <3>4. ASSUME NEW p \in Job, Failure(p) PROVE UNCHANGED table
      BY <3>4 DEF Failure, Fail, FailRecorded, NftTimeout, AddrTimeout
    <3>5. CASE LateRead \/ (\E t : LateCommit(t)) \/ \E c : LateAddr(c)
      BY <3>5 DEF LateRead, LateCommit, LateAddr
    <3> QED
      BY <1>9, <3>1, <3>2, <3>3, <3>4, <3>5 DEF Next
  <2> QED
    BY <1>3, <2>1 DEF table
<1> QED
  BY <1>6, <1>7, <1>8, <1>9

\* What a delete knows when it removes the row: no other row has gone, and the
\* row was disabled when it rendered.
LEMMA Deleting ==
    ASSUME IInv, SerialInv, NEW p \in Job, DeleteRow(p)
    PROVE  LET id == jobs[p].id
               snap == jobs[p].snap IN
           /\ id \in Id /\ snap \in Table
           /\ rows' = [rows EXCEPT ![id] = None] /\ \A i \in Id \ {id} : rows'[i] = rows[i]
           /\ UNCHANGED <<moved, live, addrs>>
           /\ \A i \in Id : SameRow(rows[i], snap[i])
           /\ snap[id].enabled = FALSE
           /\ jobs[p].text = render_nftables(snap, ConfigOf[p])
<1> DEFINE id == jobs[p].id
           snap == jobs[p].snap
<1>1. /\ jobs[p].pc = "delete_row" /\ rows' = [rows EXCEPT ![id] = None]
      /\ UNCHANGED <<moved, live, addrs>>
  BY DEF DeleteRow, machine
<1>2. /\ rows \in Table /\ JobSound(p)
      /\ SerialJob(ConfigOf[p], jobs[p], rows)
  BY DEF IInv, TypeOK, SerialInv
<1>3. id \in Id /\ jobs[p].kind = "delete" /\ snap \in Table
  BY <1>1, <1>2 DEF JobSound, SerialJob
<1>4. \A i \in Id \ {id} : rows'[i] = rows[i]
  BY <1>1, <1>2, <1>3 DEF Table
<1>5. /\ \A i \in Id : SameRow(rows[i], snap[i])
      /\ jobs[p].text = render_nftables(snap, ConfigOf[p])
      /\ rows[id] # None /\ rows[id].enabled = FALSE
  BY <1>1, <1>2, <1>3 DEF SerialJob
<1>6. snap[id].enabled = FALSE
  BY <1>3, <1>5 DEF SameRow
<1> QED
  BY <1>1, <1>3, <1>4, <1>5, <1>6

(***************************************************************************)
(* Who owns what the kernel runs, in a table t with the addresses gone     *)
(* that allocations took from its rows.                                    *)
(***************************************************************************)
IpsOf(t, gone, i) == {t[i].edge_private_ip} \cup {x \in Ip : <<i, x>> \in gone}

ElementOwned(t, gone, e) ==
    \E i \in Stored(t) : \E ip \in IpsOf(t, gone, i) :
        e = [daddr |-> ip, to |-> t[i].target_ip]

RuleOwned(t, gone, f) ==
    \E i \in Stored(t), p \in Job : \E ip \in IpsOf(t, gone, i) :
        f = [iifname |-> ConfigOf[p].wan_interface, daddr |-> ip, protocol |-> t[i].protocol,
             dport |-> t[i].public_port, to |-> t[i].target_ip, to_port |-> t[i].target_port]

RulesOwned(t, gone, ruleset) ==
    /\ \A e \in ruleset.edge_to_target : ElementOwned(t, gone, e)
    /\ \A f \in ruleset.prerouting : RuleOwned(t, gone, f)

OwnedInv ==
    /\ live # None => RulesOwned(rows, moved, live)
    /\ \A p \in Job : jobs[p].kind # "rollback"

\* Edits of rows take no rule from its row.
LEMMA OwnedGrows ==
    ASSUME NEW t \in Table, NEW u, NEW gone, NEW later, gone \subseteq later,
           \A i \in Stored(t) :
               /\ Kept(t[i], u[i])
               /\ \/ u[i].edge_private_ip = t[i].edge_private_ip
                  \/ <<i, t[i].edge_private_ip>> \in later,
           NEW ruleset, RulesOwned(t, gone, ruleset)
    PROVE  RulesOwned(u, later, ruleset)
<1>1. ASSUME NEW i \in Stored(t)
      PROVE  /\ i \in Stored(u) /\ IpsOf(t, gone, i) \subseteq IpsOf(u, later, i)
             /\ u[i].target_ip = t[i].target_ip /\ u[i].public_port = t[i].public_port
             /\ u[i].target_port = t[i].target_port /\ u[i].protocol = t[i].protocol
  <2>1. t[i].edge_private_ip \in Ip /\ i \in Id
    BY DEF Stored, Table, MappingType
  <2>2. i \in Stored(u)
    BY <2>1, NoneIsNoRecord DEF Kept, Stored
  <2>3. IpsOf(t, gone, i) \subseteq IpsOf(u, later, i)
    BY <2>1 DEF IpsOf
  <2> QED
    BY <2>2, <2>3 DEF Kept
<1>2. ASSUME NEW e \in ruleset.edge_to_target PROVE ElementOwned(u, later, e)
  BY <1>1 DEF RulesOwned, ElementOwned
<1>3. ASSUME NEW f \in ruleset.prerouting PROVE RuleOwned(u, later, f)
  BY <1>1 DEF RulesOwned, RuleOwned
<1> QED
  BY <1>2, <1>3 DEF RulesOwned

\* What is rendered from a snapshot belongs to the rows in force in it.
LEMMA RenderedOwned ==
    ASSUME NEW snap \in Table, NEW u, NEW gone, NEW p \in Job,
           \A i \in Stored(snap) : InForce(snap[i]) => SameRow(u[i], snap[i])
    PROVE  RulesOwned(u, gone, render_nftables(snap, ConfigOf[p]))
<1> DEFINE ruleset == render_nftables(snap, ConfigOf[p])
<1>1. ASSUME NEW i \in Stored(snap), InForce(snap[i])
      PROVE  /\ i \in Stored(u) /\ snap[i].edge_private_ip \in IpsOf(u, gone, i)
             /\ u[i].target_ip = snap[i].target_ip /\ u[i].public_port = snap[i].public_port
             /\ u[i].target_port = snap[i].target_port /\ u[i].protocol = snap[i].protocol
  <2>1. i \in Id /\ snap[i] # None
    BY DEF Stored
  <2>2. SameRow(u[i], snap[i]) /\ u[i] \in MappingType
    BY <1>1, <2>1 DEF SameRow
  <2> QED
    BY <2>1, <2>2, NoneIsNoRecord DEF SameRow, Stored, IpsOf
<1>2. ASSUME NEW e \in ruleset.edge_to_target PROVE ElementOwned(u, gone, e)
  <2>1. PICK i \in Stored(snap) : InForce(snap[i]) /\ e = MapElement(snap[i])
    BY <1>2 DEF render_nftables, InForceOf
  <2> QED
    BY <1>1, <2>1 DEF ElementOwned, MapElement
<1>3. ASSUME NEW f \in ruleset.prerouting PROVE RuleOwned(u, gone, f)
  <2>1. PICK i \in Stored(snap) : InForce(snap[i]) /\ f = ForwardRule(snap[i], ConfigOf[p])
    BY <1>3 DEF render_nftables, InForceOf
  <2> QED
    BY <1>1, <2>1 DEF RuleOwned, ForwardRule
<1> QED
  BY <1>2, <1>3 DEF RulesOwned

\* Without rollbacks nobody begins one.
LEMMA NoRollbacks ==
    ASSUME Rollback = FALSE, IInv, \A p \in Job : jobs[p].kind # "rollback", [Next]_vars
    PROVE  \A p \in Job : jobs'[p].kind # "rollback"
<1>1. jobs \in [Job -> JobState] /\ \A p \in Job : jobs[p] \in JobState
  BY DEF IInv, TypeOK
<1>2. ASSUME NEW p \in Job, NEW job, jobs' = [jobs EXCEPT ![p] = job], job.kind # "rollback"
      PROVE  \A q \in Job : jobs'[q].kind # "rollback"
  <2>1. \A q \in Job : jobs'[q] = job \/ jobs'[q] = jobs[q]
    BY <1>1, <1>2
  <2> QED
    BY <1>2, <2>1
<1>3. ASSUME NEW p \in Job, Return(p) PROVE \A q \in Job : jobs'[q].kind # "rollback"
  <2>1. Idle.kind # "rollback"
    BY DEF Idle
  <2> QED
    BY <1>2, <1>3, <2>1 DEF Return
<1>4. ASSUME NEW p \in Job, NEW pc, Goto(p, pc) PROVE \A q \in Job : jobs'[q].kind # "rollback"
  BY <1>1, <1>4, GotoFields
<1>5. ASSUME NEW p \in Job, Start(p) PROVE \A q \in Job : jobs'[q].kind # "rollback"
  <2>1. ASSUME NEW opts \in Options, reconcile(p, opts)
        PROVE  \A q \in Job : jobs'[q].kind # "rollback"
    <3> DEFINE job == [Idle EXCEPT !.kind = "reconcile", !.pc = "list",
                                   !.apply_nft = opts.apply_nft, !.apply_linux = opts.apply_linux]
    <3>1. jobs' = [jobs EXCEPT ![p] = job] /\ job.kind = "reconcile"
      BY <2>1 DEF reconcile, Begin, Idle
    <3> HIDE DEF job
    <3> QED
      BY <1>2, <3>1
  <2>2. ASSUME NEW id \in Id, delete_mapping(p, id)
        PROVE  \A q \in Job : jobs'[q].kind # "rollback"
    <3> DEFINE job == [Idle EXCEPT !.kind = "delete", !.pc = "disable", !.id = id]
    <3>1. jobs' = [jobs EXCEPT ![p] = job] /\ job.kind = "delete"
      BY <2>2 DEF delete_mapping, Begin, Idle
    <3> HIDE DEF job
    <3> QED
      BY <1>2, <3>1
  <2> QED
    BY <1>5, <2>1, <2>2 DEF Start, rollback
<1>6. ASSUME NEW p \in Job, Step(p) PROVE \A q \in Job : jobs'[q].kind # "rollback"
  <2>1. \A q \in Job \ {p} : jobs'[q] = jobs[q]
    BY <1>1, <1>6 DEF Step, Disable, List, RecordRendered, AtomicWrite, CheckFile,
                      RecordValidated, NftRead, NftCommit, AddrList, AddrChange, Finish, Health,
                      Complete, DeleteRow, Goto, Return
  <2>2. Return(p) \/ jobs'[p].kind = jobs[p].kind
    <3>1. CASE Disable(p) \/ RecordRendered(p) \/ AtomicWrite(p) \/ CheckFile(p)
               \/ NftCommit(p) \/ Complete(p)
      BY <3>1, GotoFields DEF Disable, RecordRendered, AtomicWrite, CheckFile, NftCommit, Complete
    <3>2. CASE List(p) \/ RecordValidated(p) \/ NftRead(p)
      BY <1>1, <3>2 DEF List, RecordValidated, NftRead, JobState
    <3>3. CASE AddrList(p)
      BY <1>1, <3>3, GotoFields DEF AddrList, JobState
    <3>4. CASE AddrChange(p) \/ Health(p)
      BY <1>1, <3>4 DEF AddrChange, Health, JobState
    <3>5. CASE Finish(p)
      BY <1>1, <3>5 DEF Finish, JobState
    <3>6. CASE DeleteRow(p)
      BY <3>6 DEF DeleteRow
    <3> QED
      BY <1>6, <3>1, <3>2, <3>3, <3>4, <3>5, <3>6 DEF Step
  <2> QED
    BY <1>3, <2>1, <2>2
<1>7. ASSUME NEW p \in Job, Failure(p) PROVE \A q \in Job : jobs'[q].kind # "rollback"
  BY <1>3, <1>7 DEF Failure, Fail, FailRecorded, NftTimeout, AddrTimeout
<1>8. CASE Request
  BY <1>8 DEF Request, create_mapping, enable_mapping, oci_allocate
<1>9. CASE LateRead \/ (\E t : LateCommit(t)) \/ \E c : LateAddr(c)
  BY <1>9 DEF LateRead, LateCommit, LateAddr
<1>10. CASE UNCHANGED vars
  BY <1>10 DEF vars
<1> QED
  BY <1>5, <1>6, <1>7, <1>8, <1>9, <1>10 DEF Next

\* Every step keeps rules and their rows together.
LEMMA OwnedNext ==
    ASSUME Rollback = FALSE, IInv, SerialInv, ApplyInv, UntouchedInv, OwnedInv, [Next]_vars
    PROVE  OwnedInv'
<1>1. \A p \in Job : jobs'[p].kind # "rollback"
  BY NoRollbacks DEF OwnedInv
<1>2. rows \in Table
  BY DEF IInv, TypeOK
<1>3. ASSUME NEW p \in Job, NftCommit(p) PROVE OwnedInv'
  <2> DEFINE snap == jobs[p].snap
  <2>1. jobs[p].pc = "nft_commit" /\ live' = jobs[p].loaded /\ UNCHANGED <<rows, moved>>
    BY <1>3 DEF NftCommit, table
  <2>2. /\ SerialJob(ConfigOf[p], jobs[p], rows) /\ JobSound(p)
        /\ jobs[p].kind # "rollback"
    BY DEF SerialInv, IInv, OwnedInv
  <2>3. /\ jobs[p].loaded = render_nftables(snap, ConfigOf[p]) /\ snap \in Table
        /\ \A i \in Id : SameRow(rows[i], snap[i])
    BY <2>1, <2>2 DEF SerialJob, JobSound, ApplyInv, ApplyJob, UntouchedInv
  <2>4. RulesOwned(rows, moved, live')
    BY <2>1, <2>3, RenderedOwned DEF Stored
  <2> QED
    BY <1>1, <2>1, <2>4 DEF OwnedInv
<1>4. ASSUME NEW p \in Job, DeleteRow(p) PROVE OwnedInv'
  <2> DEFINE snap == jobs[p].snap
             id == jobs[p].id
  <2>1. /\ snap \in Table /\ \A i \in Id \ {id} : rows'[i] = rows[i]
        /\ UNCHANGED <<moved, live>> /\ \A i \in Id : SameRow(rows[i], snap[i])
        /\ snap[id].enabled = FALSE /\ jobs[p].text = render_nftables(snap, ConfigOf[p])
    BY <1>4, Deleting
  <2>2. live = jobs[p].text
    BY <1>4 DEF DeleteRow, ApplyInv, ApplyJob, PastNft, UntouchedInv
  <2>3. ASSUME NEW i \in Stored(snap), InForce(snap[i]) PROVE SameRow(rows'[i], snap[i])
    BY <2>1, <2>3 DEF InForce, Stored
  <2>4. RulesOwned(rows', moved', live')
    BY <2>1, <2>2, <2>3, RenderedOwned
  <2> QED
    BY <1>1, <2>4 DEF OwnedInv
<1>5. CASE ~\E p \in Job : NftCommit(p) \/ DeleteRow(p)
  <2>1. live' = live
    <3>1. CASE Request \/ UNCHANGED vars
      BY <3>1 DEF Request, create_mapping, enable_mapping, oci_allocate, machine, vars
    <3>2. ASSUME NEW p \in Job, Start(p) PROVE live' = live
      BY <3>2 DEF Start, reconcile, delete_mapping, rollback, Begin, machine
    <3>3. ASSUME NEW p \in Job, Step(p) PROVE live' = live
      BY <1>5, <3>3 DEF Step, Disable, List, RecordRendered, AtomicWrite, CheckFile,
                         RecordValidated, NftRead, AddrList, AddrChange, Finish, Health,
                         Complete, machine
    <3>4. ASSUME NEW p \in Job, Failure(p) PROVE live' = live
      BY <3>4 DEF Failure, Fail, FailRecorded, NftTimeout, AddrTimeout, machine
    <3>5. CASE LateRead \/ (\E t \in late \ {None} : LateCommit(t)) \/ \E c \in lateAddr : LateAddr(c)
      BY <3>5 DEF LateRead, LateAddr, UntouchedInv
    <3> QED
      BY <3>1, <3>2, <3>3, <3>4, <3>5 DEF Next
  <2>2. /\ moved \subseteq moved'
        /\ \A i \in Stored(rows) :
              /\ Kept(rows[i], rows'[i])
              /\ \/ rows'[i].edge_private_ip = rows[i].edge_private_ip
                 \/ <<i, rows[i].edge_private_ip>> \in moved'
    BY <1>5, RowsKept
  <2>3. live' # None => RulesOwned(rows', moved', live')
    BY <1>2, <2>1, <2>2, OwnedGrows DEF OwnedInv
  <2> QED
    BY <1>1, <2>3 DEF OwnedInv
<1> QED
  BY <1>3, <1>4, <1>5

(***************************************************************************)
(* When jobs take turns, there are no rollbacks and no nft child outlives  *)
(* its timeout, every rule in the kernel belongs to a stored row, whatever *)
(* fails on the way: a delete removes a row only after a reconcile without *)
(* it reached the kernel.                                                  *)
(***************************************************************************)
THEOREM NoRuleIsOrphaned ==
    Overlap = FALSE /\ MaxLate = 0 /\ Rollback = FALSE => (Spec => []NoOrphanRules)
<1> SUFFICES ASSUME Overlap = FALSE, MaxLate = 0, Rollback = FALSE
             PROVE  Spec => []NoOrphanRules
  OBVIOUS
<1>1. Init => OwnedInv
  BY DEF Init, OwnedInv, Idle
<1>2. IInv /\ SerialInv /\ ApplyInv /\ UntouchedInv /\ OwnedInv /\ [Next]_vars => OwnedInv'
  BY OwnedNext
<1>3. IInv /\ OwnedInv => NoOrphanRules
  <2> SUFFICES ASSUME IInv, OwnedInv, live # None PROVE NoOrphanRules
    BY DEF NoOrphanRules
  <2>1. \A i \in Stored(rows) : rows[i] \in MappingType
    BY DEF IInv, TypeOK, Table, Stored
  <2>2. ASSUME NEW i \in Stored(rows), NEW ip \in IpsOf(rows, moved, i)
        PROVE  \E m \in Versions(i) :
                 /\ m.edge_private_ip = ip /\ m.target_ip = rows[i].target_ip
                 /\ m.protocol = rows[i].protocol /\ m.public_port = rows[i].public_port
                 /\ m.target_port = rows[i].target_port
    <3>1. CASE ip = rows[i].edge_private_ip
      BY <3>1 DEF Versions
    <3>2. CASE ip # rows[i].edge_private_ip
      <4> DEFINE m == [rows[i] EXCEPT !.edge_private_ip = ip]
      <4>1. ip \in Ip /\ <<i, ip>> \in moved
        BY <3>2 DEF IpsOf
      <4>2. m \in Versions(i)
        BY <4>1 DEF Versions
      <4>3. /\ m.edge_private_ip = ip /\ m.target_ip = rows[i].target_ip
            /\ m.protocol = rows[i].protocol /\ m.public_port = rows[i].public_port
            /\ m.target_port = rows[i].target_port
        BY <2>1 DEF MappingType
      <4> QED
        BY <4>2, <4>3
    <3> QED
      BY <3>1, <3>2
  <2>3. ASSUME NEW e \in live.edge_to_target
        PROVE  \E i \in Stored(rows) : \E m \in Versions(i) : e = MapElement(m)
    BY <2>2 DEF OwnedInv, RulesOwned, ElementOwned, MapElement
  <2>4. ASSUME NEW f \in live.prerouting
        PROVE  \E i \in Stored(rows), p \in Job : \E m \in Versions(i) :
                  f = ForwardRule(m, ConfigOf[p])
    BY <2>2 DEF OwnedInv, RulesOwned, RuleOwned, ForwardRule
  <2> QED
    BY <2>3, <2>4 DEF NoOrphanRules
<1> QED
  BY <1>1, <1>2, <1>3, Invariance, SerialAlways, ApplyAlways, UntouchedAlways, PTL DEF Spec

-----------------------------------------------------------------------------
(* Addresses belong to rows *)

\* The processes use the same WAN interface.
OneWan == \A p, q \in Job : ConfigOf[p].wan_interface = ConfigOf[q].wan_interface

\* A step of the loop adds no address but that of an nft row of the table.
LEMMA AddressAdded ==
    ASSUME IInv, SerialInv, ApplyInv, NEW p \in Job, AddrChange(p)
    PROVE  \A a \in addrs' : a \in addrs \/
             \E i \in NftRows(rows) : a = <<ConfigOf[p].wan_interface, rows[i].edge_private_ip>>
<1>1. jobs[p].pc = "addr_change" /\ \E i \in jobs[p].todo : AddrToggle(p, i)
  BY DEF AddrChange
<1>2. PICK i \in jobs[p].todo : AddrToggle(p, i)
  BY <1>1
<1>3. SerialJob(ConfigOf[p], jobs[p], rows) /\ JobSound(p)
  BY DEF SerialInv, IInv
<1>4. /\ jobs[p].snap \in Table /\ \A j \in Id : SameRow(rows[j], jobs[p].snap[j])
  BY <1>1, <1>3 DEF SerialJob, JobSound
<1>5. i \in NftRows(jobs[p].snap)
  BY <1>1, <1>2 DEF ApplyInv, ApplyJob, Visiting
<1>6. i \in Id /\ SameRow(rows[i], jobs[p].snap[i]) /\ jobs[p].snap[i] # None
  BY <1>4, <1>5 DEF NftRows, Stored
<1>7. i \in NftRows(rows) /\ rows[i].edge_private_ip = jobs[p].snap[i].edge_private_ip
  BY <1>5, <1>6, NoneIsNoRecord DEF SameRow, NftRows, Stored
<1>8. \A a \in addrs' : a \in addrs \/ a = AddrOf(p, i)
  BY <1>2 DEF AddrToggle
<1> QED
  BY <1>7, <1>8 DEF AddrOf

\* Every step leaves the addresses with rows.
LEMMA AddressNext ==
    ASSUME OneWan, IInv, SerialInv, ApplyInv, TouchedInv, AddressInv, [Next]_vars
    PROVE  AddressInv'
<1> DEFINE Accounted(t, gone, ip) ==
             \/ \E i \in NftRows(t) : t[i].edge_private_ip = ip
             \/ \E i \in Id : <<i, ip>> \in gone
           OnWan(a) == \A q \in Job : a[1] = ConfigOf[q].wan_interface
<1>1. \A a \in addrs : a \in stray \/ (Accounted(rows, moved, a[2]) /\ OnWan(a))
  BY DEF AddressInv, AddressesAccounted
<1>2. ASSUME ~\E p \in Job : DeleteRow(p), NEW ip, Accounted(rows, moved, ip)
      PROVE  Accounted(rows', moved', ip)
  <2>1. /\ moved \subseteq moved'
        /\ \A i \in Stored(rows) :
              /\ Kept(rows[i], rows'[i])
              /\ \/ rows'[i].edge_private_ip = rows[i].edge_private_ip
                 \/ <<i, rows[i].edge_private_ip>> \in moved'
    BY <1>2, RowsKept
  <2>2. CASE \E i \in Id : <<i, ip>> \in moved
    BY <2>1, <2>2
  <2>3. CASE \E i \in NftRows(rows) : rows[i].edge_private_ip = ip
    <3>1. PICK i \in NftRows(rows) : rows[i].edge_private_ip = ip
      BY <2>3
    <3>2. i \in Stored(rows) /\ i \in Id /\ rows[i].backend = "nft"
      BY DEF NftRows, Stored
    <3>3. rows'[i] # None /\ rows'[i].backend = "nft"
      BY <2>1, <3>2, NoneIsNoRecord DEF Kept
    <3>4. i \in NftRows(rows')
      BY <3>2, <3>3 DEF NftRows, Stored
    <3> QED
      BY <2>1, <3>1, <3>2, <3>4
  <2> QED
    BY <1>2, <2>2, <2>3
<1>3. ASSUME \A a \in addrs' : a \in stray' \/ (Accounted(rows', moved', a[2]) /\ OnWan(a))
      PROVE  AddressInv'
  BY <1>3 DEF AddressInv, AddressesAccounted
<1>4. ASSUME NEW p \in Job, DeleteRow(p) PROVE AddressInv'
  <2> DEFINE snap == jobs[p].snap
             id == jobs[p].id
             wan == ConfigOf[p].wan_interface
  <2>1. /\ id \in Id /\ snap \in Table /\ \A i \in Id \ {id} : rows'[i] = rows[i]
        /\ UNCHANGED <<moved, addrs>> /\ \A i \in Id : SameRow(rows[i], snap[i])
        /\ snap[id].enabled = FALSE
    BY <1>4, Deleting
  <2>2. stray' = stray /\ jobs[p].pc = "delete_row"
    BY <1>4 DEF DeleteRow, machine
  <2>3. ASSUME NEW i \in NftRows(rows), NEW ip, i # id, rows[i].edge_private_ip = ip
        PROVE  Accounted(rows', moved', ip)
    <3>1. i \in Id /\ rows'[i] = rows[i]
      BY <2>1, <2>3 DEF NftRows, Stored
    <3>2. i \in NftRows(rows')
      BY <2>3, <3>1 DEF NftRows, Stored
    <3> QED
      BY <2>3, <3>1, <3>2
  <2>4. ASSUME NEW i \in NftRows(snap)
        PROVE  i \in NftRows(rows) /\ rows[i].edge_private_ip = snap[i].edge_private_ip
    <3>1. i \in Id /\ snap[i] # None /\ snap[i].backend = "nft"
      BY DEF NftRows, Stored
    <3> QED
      BY <2>1, <3>1, NoneIsNoRecord DEF SameRow, NftRows, Stored
  <2>5. ASSUME NEW a \in addrs, a \notin stray PROVE Accounted(rows', moved', a[2]) /\ OnWan(a)
    <3>1. Accounted(rows, moved, a[2]) /\ OnWan(a)
      BY <1>1, <2>5
    <3>2. CASE \E i \in Id : <<i, a[2]>> \in moved
      BY <2>1, <3>1, <3>2
    <3>3. CASE \E i \in NftRows(rows) : i # id /\ rows[i].edge_private_ip = a[2]
      BY <2>3, <3>1, <3>3
    <3>4. CASE /\ \A i \in NftRows(rows) : i # id => rows[i].edge_private_ip # a[2]
               /\ id \in NftRows(rows) /\ rows[id].edge_private_ip = a[2]
      <4>1. id \in NftRows(snap) /\ snap[id].edge_private_ip = a[2]
        BY <2>1, <3>4, NoneIsNoRecord DEF SameRow, NftRows, Stored
      <4>2. \A j \in NftRows(snap) : snap[j].edge_private_ip = a[2] => j = id
        BY <2>4, <3>4
      <4>3. Agreed(snap, id)
        BY <4>1, <4>2 DEF Agreed
      <4>4. a = <<wan, a[2]>> /\ a = AddrOf(p, id)
        <5>1. a \in AddrType /\ a[1] = wan
          BY <3>1 DEF IInv, TypeOK
        <5>2. a = <<wan, a[2]>>
          BY <5>1 DEF AddrType
        <5> QED
          BY <4>1, <5>2 DEF AddrOf
      <4>5. CASE a \notin meddled[p].addrs
        <5>1. Followed(wan, snap, NftRows(snap), addrs, meddled[p].addrs)
          BY <2>2 DEF ApplyInv, ApplyJob
        <5>2. <<wan, snap[id].edge_private_ip>> \in addrs <=> snap[id].enabled
          BY <4>1, <4>3, <4>4, <4>5, <5>1 DEF Followed
        <5> QED
          BY <2>1, <4>1, <4>4, <5>2
      <4>6. CASE a \in meddled[p].addrs
        <5>1. jobs[p].pc \in Applied /\ TouchedJob(p)
          BY <2>2 DEF Applied, TouchedInv
        <5>2. PICK i \in NftRows(snap) : snap[i].enabled /\ AddrOf(p, i) = a
          BY <2>5, <4>6, <5>1 DEF TouchedJob
        <5>3. snap[i].edge_private_ip = a[2]
          BY <4>4, <5>2 DEF AddrOf
        <5> QED
          BY <2>1, <4>2, <5>2, <5>3
      <4> QED
        BY <4>5, <4>6
    <3> QED
      BY <3>1, <3>2, <3>3, <3>4
  <2> HIDE DEF Accounted, OnWan
  <2> QED
    BY <1>3, <2>1, <2>2, <2>5
<1>5. ASSUME NEW p \in Job, AddrChange(p), ~\E q \in Job : DeleteRow(q)
      PROVE  AddressInv'
  <2>1. ASSUME NEW a \in addrs', a \notin stray
        PROVE  Accounted(rows, moved, a[2]) /\ OnWan(a)
    <3>1. CASE a \in addrs
      BY <1>1, <2>1, <3>1
    <3>2. ASSUME NEW i \in NftRows(rows),
                 a = <<ConfigOf[p].wan_interface, rows[i].edge_private_ip>>
          PROVE  Accounted(rows, moved, a[2]) /\ OnWan(a)
      <4>1. a[1] = ConfigOf[p].wan_interface /\ a[2] = rows[i].edge_private_ip
        BY <3>2
      <4> QED
        BY <4>1 DEF OneWan
    <3> QED
      BY <1>5, <3>1, <3>2, AddressAdded
  <2>2. stray' = stray \cap addrs'
    BY <1>5 DEF AddrChange
  <2> HIDE DEF Accounted, OnWan
  <2> QED
    BY <1>2, <1>3, <1>5, <2>1, <2>2
<1>6. ASSUME NEW c \in lateAddr, LateAddr(c), ~\E q \in Job : DeleteRow(q)
      PROVE  AddressInv'
  <2>1. stray' = (stray \cup (addrs' \ addrs)) \cap addrs'
    BY <1>6 DEF LateAddr
  <2> HIDE DEF Accounted, OnWan
  <2> QED
    BY <1>1, <1>2, <1>3, <1>6, <2>1
<1>7. ASSUME UNCHANGED <<addrs, stray>>, ~\E p \in Job : DeleteRow(p) PROVE AddressInv'
  <2> HIDE DEF Accounted, OnWan
  <2> QED
    BY <1>1, <1>2, <1>3, <1>7
<1>8. CASE /\ ~\E p \in Job : DeleteRow(p)
           /\ ~\E p \in Job : AddrChange(p)
           /\ ~\E c \in lateAddr : LateAddr(c)
  <2>1. ASSUME Request \/ UNCHANGED vars PROVE UNCHANGED <<addrs, stray>>
    BY <2>1 DEF Request, create_mapping, enable_mapping, oci_allocate, machine, vars
  <2>2. ASSUME NEW p \in Job, Start(p) PROVE UNCHANGED <<addrs, stray>>
    BY <2>2 DEF Start, reconcile, delete_mapping, rollback, Begin
  <2>3. ASSUME NEW p \in Job, Step(p) PROVE UNCHANGED <<addrs, stray>>
    BY <1>8, <2>3 DEF Step, Disable, List, RecordRendered, AtomicWrite, CheckFile,
                       RecordValidated, NftRead, NftCommit, AddrList, Finish, Health,
                       Complete, machine
  <2>4. ASSUME NEW p \in Job, Failure(p) PROVE UNCHANGED <<addrs, stray>>
    BY <2>4 DEF Failure, Fail, FailRecorded, NftTimeout, AddrTimeout, machine
  <2>5. ASSUME LateRead \/ \E t \in late \ {None} : LateCommit(t)
        PROVE  UNCHANGED <<addrs, stray>>
    BY <2>5 DEF LateRead, LateCommit
  <2>6. UNCHANGED <<addrs, stray>>
    BY <1>8, <2>1, <2>2, <2>3, <2>4, <2>5 DEF Next
  <2> QED
    BY <1>7, <1>8, <2>6
<1> QED
  BY <1>4, <1>5, <1>6, <1>8

(***************************************************************************)
(* When jobs take turns and use one WAN interface, every address on it is  *)
(* the edge address of a stored nft row, or one an allocation took from a  *)
(* row, or one that an ip child added after its job had given up on it:    *)
(* whatever jobs failed, timed out or rolled back, and whenever the        *)
(* children that outlived them got to their work.                          *)
(***************************************************************************)
THEOREM AddressesAlwaysAccounted ==
    Overlap = FALSE /\ OneWan => (Spec => []AddressesAccounted)
<1> SUFFICES ASSUME Overlap = FALSE, OneWan PROVE Spec => []AddressesAccounted
  OBVIOUS
<1>1. Init => AddressInv
  BY DEF Init, AddressInv, AddressesAccounted
<1>2. IInv /\ SerialInv /\ ApplyInv /\ TouchedInv /\ AddressInv /\ [Next]_vars => AddressInv'
  BY AddressNext
<1>3. AddressInv => AddressesAccounted
  BY DEF AddressInv
<1> QED
  BY <1>1, <1>2, <1>3, Invariance, SerialAlways, ApplyAlways, TouchedAlways, PTL DEF Spec
=============================================================================
