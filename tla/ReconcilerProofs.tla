-------------------------- MODULE ReconcilerProofs --------------------------
(***************************************************************************)
(* Proofs about Reconciler, for any number of jobs, mappings and requests, *)
(* any configurations, and any failures and timeouts.                      *)
(***************************************************************************)
EXTENDS Reconciler, TLAPS

(***************************************************************************)
(* What render_nftables makes of a table that validate_mappings accepts    *)
(* sends no packet to two destinations.                                    *)
(***************************************************************************)
LEMMA RenderUnambiguous ==
    ASSUME NEW t \in Table, NEW config \in EdgeConfigType, validate_mappings(t, config)
    PROVE  /\ render_nftables(t, config) \in RulesetType
           /\ Unambiguous(render_nftables(t, config))
<1> DEFINE text == render_nftables(t, config)
           O == {i \in Stored(t) : InForce(t[i]) /\ t[i].mode = OneToOneSnat}
           F == {i \in Stored(t) : InForce(t[i]) /\ t[i].mode = PortForwardSnat}
<1>1. \A i \in Stored(t) : t[i] \in MappingType
  BY DEF Stored, Table
<1>2. /\ InForceOf(t, OneToOneSnat) = {t[i] : i \in O}
      /\ InForceOf(t, PortForwardSnat) = {t[i] : i \in F}
  BY DEF InForceOf
<1>3. /\ text.edge_to_target = {MapElement(t[i]) : i \in O}
      /\ text.prerouting = {ForwardRule(t[i], config) : i \in F}
      /\ text.postrouting = config.target_cidrs
  BY <1>2 DEF render_nftables
<1>4. \A i \in O : MapElement(t[i]) \in [daddr: Ip, to: Ip]
  BY <1>1 DEF MapElement, MappingType
<1>5. \A i \in F : ForwardRule(t[i], config) \in
         [iifname: Interface, daddr: Ip, protocol: Protocol,
          dport: Port \cup {None}, to: Ip, to_port: Port \cup {None}]
  BY <1>1 DEF ForwardRule, MappingType, EdgeConfigType
<1>6. text \in RulesetType
  BY <1>2, <1>4, <1>5 DEF render_nftables, RulesetType, EdgeConfigType
<1>7. \A i, j \in Stored(t) : i # j => ~conflicts(t[i], t[j])
  BY DEF validate_mappings
<1>8. \A i, j \in O : t[i].edge_private_ip = t[j].edge_private_ip => i = j
  BY <1>1, <1>7 DEF conflicts, InForce, MappingType
<1>9. \A i, j \in F : (/\ t[i].edge_private_ip = t[j].edge_private_ip
                       /\ t[i].protocol = t[j].protocol
                       /\ t[i].public_port = t[j].public_port) => i = j
  BY <1>1, <1>7 DEF conflicts, InForce, MappingType
<1>10. \A i \in O, j \in F : t[i].edge_private_ip # t[j].edge_private_ip
  BY <1>1, <1>7 DEF conflicts, InForce, MappingType, OneToOneSnat, PortForwardSnat
<1>11. \A a, b \in text.edge_to_target : a.daddr = b.daddr => a = b
  BY <1>3, <1>8 DEF MapElement
<1>12. \A f, g \in text.prerouting :
          (f.daddr = g.daddr /\ f.protocol = g.protocol /\ f.dport = g.dport) => f = g
  BY <1>3, <1>9 DEF ForwardRule
<1>13. \A a \in text.edge_to_target, f \in text.prerouting : a.daddr # f.daddr
  BY <1>3, <1>10 DEF MapElement, ForwardRule
<1> QED
  BY <1>6, <1>11, <1>12, <1>13 DEF Unambiguous

\* The state before the first request satisfies the inductive invariant.
LEMMA IInvInit == Init => IInv
<1> SUFFICES ASSUME Init PROVE IInv
  OBVIOUS
<1>1. HistoryOK
  BY DEF Init, HistoryOK, Meddling, Unmeddled
<1> QED
  BY <1>1, BoundsAssumption
  DEF Init, IInv, TypeOK, Table, EmptyTable, JobState, Label, Idle, JobSound

\* The address a loop is at.
LEMMA AddrTyped ==
    ASSUME IInv, NEW p \in Job, NEW i \in jobs[p].todo
    PROVE  /\ jobs[p].snap \in Table /\ i \in Id
           /\ jobs[p].snap[i] \in MappingType /\ AddrOf(p, i) \in AddrType
<1>1. jobs[p].snap \in Table /\ i \in Stored(jobs[p].snap)
  BY DEF IInv, JobSound
<1>2. i \in Id /\ jobs[p].snap[i] \in MappingType
  BY <1>1 DEF Stored, Table
<1> QED
  BY <1>1, <1>2, JobAssumption DEF AddrOf, AddrType, MappingType, EdgeConfigType

\* The record of what others do to a job is one.
LEMMA MeddleType ==
    ASSUME IInv, NEW Q, Meddle(Q), addrs' \subseteq AddrType
    PROVE  meddled' \in [Job -> Meddling]
<1> DEFINE seen(q) ==
        [nft |-> \/ meddled[q].nft
                 \/ jobs[q].pc \in Unread /\ file' # file
                 \/ jobs[q].pc \in Applied /\ live' # live,
         addrs |-> meddled[q].addrs \cup
                     {a \in addrs \cup addrs' :
                        jobs[q].pc \in Applied /\ (a \in addrs) # (a \in addrs')}]
<1>1. meddled \in [Job -> Meddling] /\ addrs \subseteq AddrType
  BY DEF IInv, TypeOK, HistoryOK
<1>2. ASSUME NEW q \in Job PROVE seen(q) \in Meddling
  <2>1. meddled[q].nft \in BOOLEAN /\ meddled[q].addrs \subseteq AddrType
    BY <1>1 DEF Meddling
  <2>2. (\/ meddled[q].nft
         \/ jobs[q].pc \in Unread /\ file' # file
         \/ jobs[q].pc \in Applied /\ live' # live) \in BOOLEAN
    OBVIOUS
  <2>3. meddled[q].addrs \cup {a \in addrs \cup addrs' :
           jobs[q].pc \in Applied /\ (a \in addrs) # (a \in addrs')} \in SUBSET AddrType
    BY <1>1, <2>1
  <2> QED
    BY <2>2, <2>3, Zenon DEF Meddling
<1>3. meddled' = [q \in Job |-> IF q \notin Q THEN meddled[q] ELSE seen(q)]
  BY DEF Meddle
<1> HIDE DEF seen
<1> QED
  BY <1>1, <1>2, <1>3

\* No step spoils the types of the late ip children and of the history.
LEMMA HistoryStep == ASSUME IInv, Next PROVE HistoryOK'
<1>0. HistoryOK /\ addrs \subseteq AddrType
  BY DEF IInv, TypeOK
<1>1. CASE UNCHANGED <<lateAddr, meddled, stray>>
  BY <1>0, <1>1 DEF HistoryOK
<1>2. ASSUME NEW p \in Job, Start(p) PROVE HistoryOK'
  <2>1. meddled' = [meddled EXCEPT ![p] = Unmeddled] /\ UNCHANGED <<lateAddr, stray>>
    BY <1>2 DEF Start, reconcile, delete_mapping, rollback, Begin
  <2>2. Unmeddled \in Meddling
    BY DEF Unmeddled, Meddling
  <2> QED
    BY <1>0, <2>1, <2>2 DEF HistoryOK
<1>3. ASSUME NEW p \in Job, AtomicWrite(p) \/ NftCommit(p) PROVE HistoryOK'
  <2>1. UNCHANGED <<lateAddr, stray, addrs>> /\ Meddle(Job \ {p})
    BY <1>3 DEF AtomicWrite, NftCommit
  <2> QED
    BY <1>0, <2>1, MeddleType DEF HistoryOK
<1>4. ASSUME NEW p \in Job, AddrChange(p) PROVE HistoryOK'
  <2>1. PICK i \in jobs[p].todo : AddrToggle(p, i)
    BY <1>4 DEF AddrChange
  <2>2. addrs' \subseteq AddrType
    BY <1>0, <2>1, AddrTyped DEF AddrToggle
  <2>3. UNCHANGED lateAddr /\ stray' = stray \cap addrs' /\ Meddle(Job \ {p})
    BY <1>4 DEF AddrChange
  <2> QED
    BY <1>0, <2>2, <2>3, MeddleType DEF HistoryOK
<1>5. ASSUME NEW p \in Job, AddrTimeout(p) PROVE HistoryOK'
  <2>1. PICK i \in jobs[p].todo :
           lateAddr' = lateAddr \cup {[add |-> jobs[p].snap[i].enabled, at |-> AddrOf(p, i)]}
    BY <1>5 DEF AddrTimeout
  <2>2. jobs[p].snap[i].enabled \in BOOLEAN /\ AddrOf(p, i) \in AddrType
    BY <2>1, AddrTyped DEF MappingType
  <2>3. UNCHANGED <<meddled, stray>>
    BY <1>5 DEF AddrTimeout
  <2> QED
    BY <1>0, <2>1, <2>2, <2>3 DEF HistoryOK
<1>6. ASSUME NEW t, LateCommit(t) PROVE HistoryOK'
  <2>1. UNCHANGED <<lateAddr, stray, addrs>> /\ Meddle(Job)
    BY <1>6 DEF LateCommit
  <2> QED
    BY <1>0, <2>1, MeddleType DEF HistoryOK
<1>7. ASSUME NEW c \in lateAddr, LateAddr(c) PROVE HistoryOK'
  <2>1. addrs' \subseteq AddrType
    BY <1>0, <1>7 DEF LateAddr, HistoryOK
  <2>2. /\ lateAddr' \subseteq lateAddr /\ Meddle(Job)
        /\ stray' = (stray \cup (addrs' \ addrs)) \cap addrs'
    BY <1>7 DEF LateAddr
  <2> QED
    BY <1>0, <2>1, <2>2, MeddleType DEF HistoryOK
<1>8. ASSUME NEW p \in Job,
             \/ Disable(p) \/ List(p) \/ RecordRendered(p) \/ CheckFile(p) \/ RecordValidated(p)
             \/ NftRead(p) \/ AddrList(p) \/ Finish(p) \/ Health(p) \/ Complete(p)
             \/ DeleteRow(p) \/ Fail(p) \/ FailRecorded(p) \/ NftTimeout(p)
      PROVE  HistoryOK'
  BY <1>1, <1>8 DEF Disable, List, RecordRendered, CheckFile, RecordValidated, NftRead, AddrList,
     Finish, Health, Complete, DeleteRow, Fail, FailRecorded, NftTimeout, machine
<1>9. CASE Request \/ LateRead
  BY <1>1, <1>9 DEF Request, create_mapping, enable_mapping, oci_allocate, LateRead, machine
<1> QED
  BY <1>2, <1>3, <1>4, <1>5, <1>6, <1>7, <1>8, <1>9 DEF Next, Step, Failure

(***************************************************************************)
(* A step of job p leaves the others sound, if no generation is removed    *)
(* and no file disappears.                                                 *)
(***************************************************************************)
LEMMA OtherJobs ==
    ASSUME IInv, NEW p \in Job, recorded \subseteq recorded', file # None => file' # None,
           \A q \in Job \ {p} : jobs'[q] = jobs[q], NEW q \in Job \ {p}
    PROVE  JobSound(q)'
<1>1. JobSound(q) /\ jobs'[q] = jobs[q]
  BY DEF IInv
<1>2. \A t : Sound(t) => Sound(t)'
  BY DEF Sound, Backed
<1> QED
  BY <1>1, <1>2 DEF JobSound

(***************************************************************************)
(* A step of job p keeps the invariant, if the rulesets it puts into the   *)
(* generations table, the file, the kernel or a late child are sound, and  *)
(* p is sound after it.                                                    *)
(***************************************************************************)
LEMMA JobStep ==
    ASSUME IInv, NEW p \in Job, NEW job \in JobState, jobs' = [jobs EXCEPT ![p] = job],
           rows' \in Table, deleted' \subseteq Id /\ moved' \subseteq Id \X Ip, asked' \in 0 .. MaxRequests,
           addrs' \subseteq AddrType,
           recorded \subseteq recorded', recorded' \subseteq Generation,
           \A g \in recorded' \ recorded : Sound(g.config)',
           file' = file \/ (file' \in RulesetType /\ Sound(file)'),
           live' = live \/ (live' \in RulesetType /\ Sound(live)'),
           \A t \in late' \ late :
              (t = None /\ file # None) \/ (t \in RulesetType /\ Sound(t)'),
           HistoryOK', JobSound(p)'
    PROVE  IInv'
<1>1. TypeOK'
  BY DEF IInv, TypeOK
<1>2. \A t : Sound(t) => Sound(t)'
  BY DEF Sound, Backed
<1>4. file # None => file' # None
  BY NoneIsNoRuleset
<1>3. /\ \A g \in recorded' : Sound(g.config)'
      /\ file' # None => Sound(file)'
      /\ live' # None => Sound(live)'
      /\ None \in late' => file' # None
      /\ \A t \in late' \ {None} : Sound(t)'
  BY <1>2, <1>4, NoneIsNoRuleset DEF IInv
<1>5. \A q \in Job \ {p} : jobs'[q] = jobs[q]
  BY DEF IInv, TypeOK
<1>6. \A q \in Job : JobSound(q)'
  BY <1>4, <1>5, OtherJobs
<1> QED
  BY <1>1, <1>3, <1>6 DEF IInv

(***************************************************************************)
(* The same for a step that only moves the job on.                         *)
(***************************************************************************)
LEMMA JobOnly ==
    ASSUME IInv, NEW p \in Job, NEW job \in JobState, jobs' = [jobs EXCEPT ![p] = job],
           UNCHANGED <<table, recorded, file, live, addrs, late>>, asked' \in 0 .. MaxRequests,
           HistoryOK', JobSound(p)'
    PROVE  IInv'
<1>1. /\ rows' \in Table /\ deleted' \subseteq Id /\ moved' \subseteq Id \X Ip /\ addrs' \subseteq AddrType
      /\ recorded' = recorded /\ recorded' \subseteq Generation
      /\ file' = file /\ live' = live /\ late' = late
  BY DEF IInv, TypeOK, table
<1> QED
  BY <1>1, JobStep

(***************************************************************************)
(* Ending a job is always sound.                                           *)
(***************************************************************************)
LEMMA IdleJob ==
    ASSUME IInv, NEW p \in Job, Return(p)
    PROVE  /\ Idle \in JobState /\ jobs' = [jobs EXCEPT ![p] = Idle] /\ jobs'[p] = Idle
           /\ JobSound(p)'
<1>1. Idle \in JobState
  BY DEF Idle, JobState, Label
<1>2. jobs' = [jobs EXCEPT ![p] = Idle] /\ jobs'[p] = Idle
  BY DEF Return, IInv, TypeOK
<1> QED
  BY <1>1, <1>2 DEF JobSound, Idle

(***************************************************************************)
(* A job that goes on to another step keeps what it holds.                 *)
(***************************************************************************)
LEMMA GotoJob ==
    ASSUME IInv, NEW p \in Job, NEW pc \in Label, Goto(p, pc)
    PROVE  \E job \in JobState :
              /\ jobs' = [jobs EXCEPT ![p] = job] /\ jobs'[p] = job
              /\ job.pc = pc /\ job.kind = jobs[p].kind /\ job.id = jobs[p].id
              /\ job.snap = jobs[p].snap /\ job.text = jobs[p].text
              /\ job.loaded = jobs[p].loaded /\ job.todo = jobs[p].todo
<1> DEFINE job == [jobs[p] EXCEPT !.pc = pc]
<1>1. jobs[p] \in JobState
  BY DEF IInv, TypeOK
<1>2. /\ job \in JobState
      /\ job.pc = pc /\ job.kind = jobs[p].kind /\ job.id = jobs[p].id
      /\ job.snap = jobs[p].snap /\ job.text = jobs[p].text
      /\ job.loaded = jobs[p].loaded /\ job.todo = jobs[p].todo
  BY <1>1 DEF JobState
<1>3. jobs' = [jobs EXCEPT ![p] = job] /\ jobs'[p] = job
  BY DEF Goto, IInv, TypeOK
<1> QED
  BY <1>2, <1>3

(***************************************************************************)
(* Recording the text of a job adds a generation of it, and loses none.    *)
(***************************************************************************)
LEMMA RecordGeneration ==
    ASSUME IInv, NEW text \in RulesetType, Unambiguous(text),
           NEW status \in {"rendered", "validated", "active", "failed"}, Record(status, text),
           status # "rendered" => Sound(text)
    PROVE  /\ recorded \subseteq recorded' /\ recorded' \subseteq Generation
           /\ \A g \in recorded' \ recorded : Sound(g.config)'
           /\ Sound(text)'
           /\ \A t : Sound(t) => Sound(t)'
<1>1. recorded \subseteq recorded' /\ recorded' \subseteq Generation
  BY DEF IInv, TypeOK, Record, Generation
<1>2. \A t : Sound(t) => Sound(t)'
  BY <1>1 DEF Sound, Backed
<1>3. Sound(text)'
  BY <1>2 DEF Record, Sound, Backed
<1>4. \A g \in recorded' \ recorded : g.config = text
  BY DEF Record
<1> QED
  BY <1>1, <1>2, <1>3, <1>4

(***************************************************************************)
(* A write of one row keeps the table a table.                             *)
(***************************************************************************)
LEMMA RowTypes ==
    ASSUME IInv, NEW id \in Id
    PROVE  /\ \A m \in MappingType \cup {None} : [rows EXCEPT ![id] = m] \in Table
           /\ rows[id] # None =>
                /\ \A b \in BOOLEAN : SetEnabled(rows[id], b) \in MappingType
                /\ \A s \in MappingStatus : MarkStatus(rows[id], s) \in MappingType
           /\ \A m \in Requests : MappingNew(m) \in MappingType
           /\ rows[id] # None =>
                /\ <<id, rows[id].edge_private_ip>> \in Id \X Ip
                /\ \A a \in Allocations, b \in BOOLEAN :
                      Allocated([rows[id] EXCEPT !.enabled = b], a) \in MappingType
<1>1. rows \in Table
  BY DEF IInv, TypeOK
<1>2. rows[id] # None => rows[id] \in MappingType
  BY <1>1 DEF Table
<1>3. \A m \in MappingType : /\ \A b \in BOOLEAN : SetEnabled(m, b) \in MappingType
                             /\ \A s \in MappingStatus : MarkStatus(m, s) \in MappingType
                             /\ MappingNew(m) \in MappingType
  <2> TAKE m \in MappingType
  <2>1. \A b \in BOOLEAN : SetEnabled(m, b) \in MappingType
    BY DEF MappingType, MappingStatus, SetEnabled
  <2>2. \A s \in MappingStatus : MarkStatus(m, s) \in MappingType
    BY DEF MappingType, MarkStatus
  <2>3. MappingNew(m) \in MappingType
    BY DEF MappingType, MappingStatus, MappingNew
  <2> QED
    BY <2>1, <2>2, <2>3
<1>4. rows[id] # None => rows[id].edge_private_ip \in Ip
  BY <1>2 DEF MappingType
<1>5. ASSUME rows[id] # None, NEW a \in Allocations, NEW b \in BOOLEAN
      PROVE  Allocated([rows[id] EXCEPT !.enabled = b], a) \in MappingType
  <2>1. [rows[id] EXCEPT !.enabled = b] \in MappingType
    BY <1>2, <1>5 DEF MappingType
  <2> QED
    BY <2>1, AllocationsAssumption DEF Allocated, MarkStatus, MappingType, MappingStatus
<1> QED
  BY <1>1, <1>2, <1>3, <1>4, <1>5, RequestsAssumption DEF Table

\* Requests that only change the table preserve it.
LEMMA IInvRequest == IInv /\ Request => IInv'
<1> SUFFICES ASSUME IInv, Request PROVE IInv'
  OBVIOUS
<1>1. /\ rows' \in Table /\ asked' \in 0 .. MaxRequests /\ moved' \subseteq Id \X Ip
      /\ UNCHANGED <<deleted, recorded, machine, jobs>>
  <2>1. PICK id \in Id :
           \/ \E request \in Requests, p \in Job : create_mapping(id, request, ConfigOf[p])
           \/ \E b \in BOOLEAN : enable_mapping(id, b)
           \/ \E a \in Allocations, b \in BOOLEAN, p \in Job : oci_allocate(id, a, b, ConfigOf[p])
    BY DEF Request
  <2>2. asked' \in 0 .. MaxRequests
    <3>1. Ask
      BY <2>1 DEF create_mapping, enable_mapping, oci_allocate
    <3> QED
      BY <3>1, BoundsAssumption DEF Ask, IInv, TypeOK
  <2>3. moved \subseteq Id \X Ip
    BY DEF IInv, TypeOK
  <2>4. CASE \E request \in Requests, p \in Job : create_mapping(id, request, ConfigOf[p])
    <3>1. /\ \E request \in Requests : rows' = [rows EXCEPT ![id] = MappingNew(request)]
          /\ UNCHANGED <<deleted, moved, recorded, machine, jobs>>
      BY <2>4 DEF create_mapping
    <3>2. PICK m \in MappingType : rows' = [rows EXCEPT ![id] = m]
      <4>1. \A request \in Requests : MappingNew(request) \in MappingType
        BY RowTypes
      <4> QED
        BY <3>1, <4>1
    <3>3. rows' \in Table
      <4>1. \A n \in MappingType \cup {None} : [rows EXCEPT ![id] = n] \in Table
        BY RowTypes
      <4> QED
        BY <3>2, <4>1
    <3> QED
      BY <2>2, <2>3, <3>1, <3>3
  <2>5. CASE \E b \in BOOLEAN : enable_mapping(id, b)
    <3>1. /\ rows[id] # None
          /\ \E b \in BOOLEAN : rows' = [rows EXCEPT ![id] = SetEnabled(rows[id], b)]
          /\ UNCHANGED <<deleted, moved, recorded, machine, jobs>>
      BY <2>5 DEF enable_mapping, set_mapping_enabled
    <3>2. rows' \in Table
      BY <3>1, RowTypes
    <3> QED
      BY <2>2, <2>3, <3>1, <3>2
  <2>6. CASE \E a \in Allocations, b \in BOOLEAN, p \in Job : oci_allocate(id, a, b, ConfigOf[p])
    <3>1. /\ rows[id] # None
          /\ \E a \in Allocations, b \in BOOLEAN :
                rows' = [rows EXCEPT ![id] = Allocated([rows[id] EXCEPT !.enabled = b], a)]
          /\ moved' = moved \cup {<<id, rows[id].edge_private_ip>>}
          /\ UNCHANGED <<deleted, recorded, machine, jobs>>
      BY <2>6 DEF oci_allocate
    <3>2. rows' \in Table
      <4>1. \A n \in MappingType \cup {None} : [rows EXCEPT ![id] = n] \in Table
        BY RowTypes
      <4>2. PICK a \in Allocations, b \in BOOLEAN :
               rows' = [rows EXCEPT ![id] = Allocated([rows[id] EXCEPT !.enabled = b], a)]
        BY <3>1
      <4>3. Allocated([rows[id] EXCEPT !.enabled = b], a) \in MappingType
        BY <3>1, RowTypes
      <4> QED
        BY <4>1, <4>2, <4>3
    <3>3. moved' \subseteq Id \X Ip
      BY <2>3, <3>1, RowTypes
    <3> QED
      BY <2>2, <3>1, <3>2, <3>3
  <2> QED
    BY <2>1, <2>4, <2>5, <2>6
<1>2. TypeOK'
  BY <1>1 DEF IInv, TypeOK, HistoryOK, machine
<1>3. \A p \in Job : JobSound(p)'
  BY <1>1 DEF IInv, JobSound, Sound, Backed, machine
<1> QED
  BY <1>1, <1>2, <1>3 DEF IInv, Sound, Backed, machine

\* So does the start of a job: a rollback begins from a recorded ruleset.
LEMMA IInvStart == ASSUME IInv, NEW p \in Job, Start(p) PROVE IInv'
<1>0. HistoryOK'
  BY HistoryStep DEF Next
<1>1. ASSUME NEW job \in JobState, Begin(p, job), job.loaded = None, job.todo = {},
             \/ job.kind = "reconcile" /\ job.pc = "list"
             \/ job.kind = "delete" /\ job.pc = "disable" /\ job.id \in Id
             \/ /\ job.kind = "rollback" /\ job.pc = "write"
                /\ job.text \in RulesetType /\ Sound(job.text)
      PROVE  IInv'
  <2>1. /\ jobs' = [jobs EXCEPT ![p] = job] /\ jobs'[p] = job
        /\ UNCHANGED <<table, recorded, file, live, addrs, late>> /\ asked' \in 0 .. MaxRequests
    BY <1>1, BoundsAssumption DEF Begin, Ask, IInv, TypeOK
  <2>2. JobSound(p)'
    BY <1>1, <2>1 DEF JobSound, Sound, Backed
  <2> QED
    BY <1>0, <2>1, <2>2, JobOnly
<1>2. ASSUME NEW opts \in Options, reconcile(p, opts) PROVE IInv'
  <2> DEFINE job == [Idle EXCEPT !.kind = "reconcile", !.pc = "list",
                          !.apply_nft = opts.apply_nft, !.apply_linux = opts.apply_linux]
  <2>1. job \in JobState /\ job.kind = "reconcile" /\ job.pc = "list"
        /\ job.loaded = None /\ job.todo = {}
    BY OptionsAssumption DEF Idle, JobState, Label
  <2> QED
    BY <1>1, <1>2, <2>1 DEF reconcile
<1>3. ASSUME NEW id \in Id, delete_mapping(p, id) PROVE IInv'
  <2> DEFINE job == [Idle EXCEPT !.kind = "delete", !.pc = "disable", !.id = id]
  <2>1. job \in JobState /\ job.kind = "delete" /\ job.pc = "disable" /\ job.id = id
        /\ job.loaded = None /\ job.todo = {}
    BY DEF Idle, JobState, Label
  <2> QED
    BY <1>1, <1>3, <2>1 DEF delete_mapping
<1>4. ASSUME NEW g \in recorded, rollback(p, g) PROVE IInv'
  <2> DEFINE job == [Idle EXCEPT !.kind = "rollback", !.pc = "write", !.text = g.config]
  <2>1. g.config \in RulesetType /\ Sound(g.config)
    BY DEF IInv, TypeOK, Generation
  <2>2. job \in JobState /\ job.kind = "rollback" /\ job.pc = "write" /\ job.text = g.config
        /\ job.loaded = None /\ job.todo = {}
    BY <2>1 DEF Idle, JobState, Label
  <2>3. Begin(p, job)
    BY <1>4 DEF rollback
  <2> HIDE DEF job
  <2> QED
    BY <1>1, <2>1, <2>2, <2>3
<1> QED
  BY <1>2, <1>3, <1>4 DEF Start

(***************************************************************************)
(* The steps that end the job, whatever they do to the table, a loop's     *)
(* address or a late child.                                                *)
(***************************************************************************)
LEMMA IInvReturn ==
    ASSUME IInv, NEW p \in Job, Return(p), rows' \in Table, deleted' \subseteq Id /\ moved' \subseteq Id \X Ip,
           addrs' \subseteq AddrType, UNCHANGED <<recorded, file, asked>>,
           live' = live \/ (live' \in RulesetType /\ Sound(live)'), HistoryOK',
           \A t \in late' \ late :
              (t = None /\ file # None) \/ (t \in RulesetType /\ Sound(t)')
    PROVE  IInv'
<1>1. recorded' \subseteq Generation /\ asked' \in 0 .. MaxRequests
  BY DEF IInv, TypeOK
<1> QED
  BY <1>1, IdleJob, JobStep

\* So does every way a job can fail, timeouts included.
LEMMA IInvFailure == ASSUME IInv, NEW p \in Job, Failure(p) PROVE IInv'
<1>0. rows \in Table /\ deleted \subseteq Id /\ moved \subseteq Id \X Ip /\ addrs \subseteq AddrType /\ JobSound(p)
      /\ jobs[p] \in JobState /\ HistoryOK'
  BY HistoryStep DEF IInv, TypeOK, Next
<1>1. CASE Fail(p)
  BY <1>0, <1>1, IInvReturn DEF Fail, table, machine
<1>2. CASE FailRecorded(p)
  <2>1. jobs[p].text \in RulesetType /\ Sound(jobs[p].text)
    BY <1>0, <1>2 DEF FailRecorded, JobSound
  <2>2. /\ recorded \subseteq recorded' /\ recorded' \subseteq Generation
        /\ \A g \in recorded' \ recorded : Sound(g.config)'
    BY <1>2, <2>1, RecordGeneration DEF FailRecorded, Sound
  <2>3. rows' \in Table /\ deleted' \subseteq Id /\ moved' \subseteq Id \X Ip /\ addrs' \subseteq AddrType
        /\ file' = file /\ live' = live /\ late' = late /\ asked' \in 0 .. MaxRequests
    BY <1>2 DEF FailRecorded, table, machine, IInv, TypeOK
  <2> QED
    BY <1>0, <1>2, <2>2, <2>3, IdleJob, JobStep DEF FailRecorded
<1>3. CASE NftTimeout(p)
  <2>1. CASE jobs[p].pc = "nft_read"
    <3>1. file # None /\ late' = late \cup {None}
      BY <1>0, <1>3, <2>1 DEF NftTimeout, JobSound
    <3> QED
      BY <1>0, <1>3, <3>1, IInvReturn DEF NftTimeout, table
  <2>2. CASE jobs[p].pc = "nft_commit"
    <3>1. jobs[p].loaded \in RulesetType /\ Sound(jobs[p].loaded)
      BY <1>0, <2>2, NoneIsNoRuleset DEF JobSound
    <3>2. \A t : Sound(t) => Sound(t)'
      BY <1>3 DEF NftTimeout, Sound, Backed
    <3>3. \A t \in late' \ late : t \in RulesetType /\ Sound(t)'
      BY <1>3, <2>2, <3>1, <3>2 DEF NftTimeout
    <3> QED
      BY <1>0, <1>3, <3>3, IInvReturn DEF NftTimeout, table
  <2> QED
    BY <1>3, <2>1, <2>2 DEF NftTimeout
<1>4. CASE AddrTimeout(p)
  BY <1>0, <1>4, IInvReturn DEF AddrTimeout, table
<1> QED
  BY <1>1, <1>2, <1>3, <1>4 DEF Failure

\* So do late children: the ruleset nft commits was sound when it read it.
LEMMA IInvLate ==
    ASSUME IInv,
           LateRead \/ (\E t \in late \ {None} : LateCommit(t)) \/ \E c \in lateAddr : LateAddr(c)
    PROVE  IInv'
<1>0. HistoryOK'
  BY HistoryStep DEF Next
<1>1. /\ UNCHANGED <<rows, deleted, moved, recorded, file, jobs, asked>>
      /\ live' = live \/ (live' \in RulesetType /\ Sound(live'))
      /\ late' \subseteq RulesetType \cup {None}
      /\ None \in late' => file # None
      /\ \A t \in late' \ {None} : Sound(t)
      /\ addrs' \subseteq AddrType
  <2>1. CASE LateRead
    BY <2>1, NoneIsNoRuleset DEF LateRead, table, IInv, TypeOK
  <2>2. ASSUME NEW t \in late \ {None}, LateCommit(t) PROVE <1>1!:
    BY <2>2 DEF LateCommit, table, IInv, TypeOK
  <2>3. ASSUME NEW c \in lateAddr, LateAddr(c) PROVE <1>1!:
    BY <2>3 DEF LateAddr, table, IInv, TypeOK, HistoryOK
  <2> QED
    BY <2>1, <2>2, <2>3
<1>2. TypeOK'
  BY <1>0, <1>1 DEF IInv, TypeOK
<1>3. \A p \in Job : JobSound(p)'
  BY <1>1 DEF IInv, JobSound, Sound, Backed
<1> QED
  BY <1>1, <1>2, <1>3, NoneIsNoRuleset DEF IInv, Sound, Backed

\* So does every step of a running job.
LEMMA IInvStep == ASSUME IInv, NEW p \in Job, Step(p) PROVE IInv'
<1>0. /\ rows \in Table /\ deleted \subseteq Id /\ moved \subseteq Id \X Ip /\ addrs \subseteq AddrType
      /\ recorded \subseteq Generation /\ asked \in 0 .. MaxRequests
      /\ jobs \in [Job -> JobState] /\ jobs[p] \in JobState /\ JobSound(p) /\ HistoryOK'
  BY HistoryStep DEF IInv, TypeOK, Next
<1>1. ASSUME Return(p), UNCHANGED <<table, recorded, machine, asked>> PROVE IInv'
  BY <1>0, <1>1, IInvReturn DEF table, machine
<1>2. ASSUME NEW pc \in Label, Goto(p, pc), UNCHANGED <<table, recorded, machine, asked>>,
             \/ jobs[p].pc = "check" /\ pc \in {"nft_read", "record_validated"}
                /\ (jobs[p].kind = "rollback" => pc = "nft_read")
             \/ jobs[p].pc \in {"nft_commit", "addr_list"} /\ jobs[p].kind # "rollback"
                /\ pc \in {"addr_list", "addr_change", "finish"}
             \/ jobs[p].pc = "health" /\ jobs[p].kind = "delete" /\ pc = "delete_row"
      PROVE  IInv'
  <2>1. PICK job \in JobState :
           /\ jobs' = [jobs EXCEPT ![p] = job] /\ jobs'[p] = job
           /\ job.pc = pc /\ job.kind = jobs[p].kind /\ job.id = jobs[p].id
           /\ job.snap = jobs[p].snap /\ job.text = jobs[p].text
           /\ job.loaded = jobs[p].loaded /\ job.todo = jobs[p].todo
    BY <1>2, GotoJob
  <2>2. file' = file /\ recorded' = recorded
    BY <1>2 DEF machine
  <2>3. JobSound(p)'
    BY <1>0, <1>2, <2>1, <2>2 DEF JobSound, Sound, Backed
  <2> QED
    BY <1>0, <1>2, <2>1, <2>3, JobOnly DEF machine
<1>3. CASE Disable(p)
  <2>1. CASE rows[jobs[p].id] = None
    BY <1>1, <1>3, <2>1 DEF Disable, table
  <2>2. CASE rows[jobs[p].id] # None
    <3>1. jobs[p].id \in Id
      BY <1>0, <1>3 DEF Disable, JobSound
    <3>2. rows' \in Table
      BY <1>3, <2>2, <3>1, RowTypes DEF Disable, set_mapping_enabled
    <3>3. /\ Goto(p, "list")
          /\ UNCHANGED <<deleted, moved, recorded, file, live, addrs, late, asked>>
      BY <1>3, <2>2 DEF Disable, machine
    <3>4. PICK job \in JobState :
             /\ jobs' = [jobs EXCEPT ![p] = job] /\ jobs'[p] = job
             /\ job.pc = "list" /\ job.kind = jobs[p].kind /\ job.id = jobs[p].id
             /\ job.snap = jobs[p].snap /\ job.text = jobs[p].text
             /\ job.loaded = jobs[p].loaded /\ job.todo = jobs[p].todo
      BY <3>3, GotoJob DEF Label
    <3>5. JobSound(p)'
      BY <1>0, <1>3, <3>1, <3>3, <3>4 DEF Disable, JobSound, Sound, Backed
    <3> QED
      BY <1>0, <3>2, <3>3, <3>4, <3>5, JobStep
  <2> QED
    BY <2>1, <2>2
<1>4. CASE List(p)
  <2>1. CASE Return(p)
    BY <1>1, <1>4, <2>1 DEF List
  <2>2. CASE ~Return(p)
    <3> DEFINE text == render_nftables(rows, ConfigOf[p])
               job == [jobs[p] EXCEPT !.pc = "record_rendered", !.snap = rows, !.text = text]
    <3>1. text \in RulesetType /\ Unambiguous(text)
      BY <1>0, <1>4, <2>2, RenderUnambiguous, JobAssumption DEF List
    <3> HIDE DEF text
    <3>2. /\ job \in JobState /\ job.pc = "record_rendered" /\ job.snap = rows /\ job.text = text
          /\ job.kind = jobs[p].kind /\ job.id = jobs[p].id /\ job.loaded = jobs[p].loaded
          /\ job.todo = jobs[p].todo
      BY <1>0, <3>1 DEF JobState, Label
    <3>3. /\ jobs' = [jobs EXCEPT ![p] = job] /\ jobs'[p] = job
          /\ UNCHANGED <<table, recorded, machine, asked>>
      BY <1>0, <1>4, <2>2 DEF List, text
    <3> HIDE DEF job
    <3>4. jobs[p].todo = {}
      BY <1>0, <1>4 DEF JobSound, List
    <3>5. JobSound(p)'
      BY <1>0, <1>4, <3>1, <3>2, <3>3, <3>4 DEF List, JobSound, Sound, Backed, machine
    <3> QED
      BY <1>0, <3>2, <3>3, <3>5, JobOnly DEF machine
  <2> QED
    BY <2>1, <2>2
<1>5. CASE RecordRendered(p)
  <2>1. PICK text \in RulesetType : text = jobs[p].text /\ Unambiguous(text)
    BY <1>0, <1>5 DEF RecordRendered, JobSound
  <2>2. /\ recorded \subseteq recorded' /\ recorded' \subseteq Generation
        /\ \A g \in recorded' \ recorded : Sound(g.config)'
        /\ Sound(text)' /\ \A t : Sound(t) => Sound(t)'
    BY <1>5, <2>1, RecordGeneration DEF RecordRendered, Sound
  <2>3. Goto(p, "write") /\ UNCHANGED <<rows, deleted, moved, file, live, addrs, late, asked>>
    BY <1>5 DEF RecordRendered, table, machine
  <2>4. PICK job \in JobState :
           /\ jobs' = [jobs EXCEPT ![p] = job] /\ jobs'[p] = job
           /\ job.pc = "write" /\ job.kind = jobs[p].kind /\ job.id = jobs[p].id
           /\ job.snap = jobs[p].snap /\ job.text = jobs[p].text
           /\ job.loaded = jobs[p].loaded /\ job.todo = jobs[p].todo
    BY <2>3, GotoJob DEF Label
  <2>5. JobSound(p)'
    BY <1>0, <1>5, <2>1, <2>2, <2>3, <2>4 DEF RecordRendered, JobSound
  <2> QED
    BY <1>0, <2>2, <2>3, <2>4, <2>5, JobStep
<1>6. CASE AtomicWrite(p)
  <2>1. jobs[p].text \in RulesetType /\ Sound(jobs[p].text)
    BY <1>0, <1>6 DEF AtomicWrite, JobSound
  <2>2. /\ Goto(p, "check") /\ file' = jobs[p].text
        /\ UNCHANGED <<rows, deleted, moved, recorded, live, addrs, late, asked>>
    BY <1>6 DEF AtomicWrite, table
  <2>3. \A t : Sound(t) => Sound(t)'
    BY <2>2 DEF Sound, Backed
  <2>4. PICK job \in JobState :
           /\ jobs' = [jobs EXCEPT ![p] = job] /\ jobs'[p] = job
           /\ job.pc = "check" /\ job.kind = jobs[p].kind /\ job.id = jobs[p].id
           /\ job.snap = jobs[p].snap /\ job.text = jobs[p].text
           /\ job.loaded = jobs[p].loaded /\ job.todo = jobs[p].todo
    BY <2>2, GotoJob DEF Label
  <2>5. file' \in RulesetType /\ file' # None /\ Sound(file)'
    BY <2>1, <2>2, <2>3, NoneIsNoRuleset DEF Sound, Backed
  <2>6. JobSound(p)'
    BY <1>0, <1>6, <2>1, <2>2, <2>3, <2>4, <2>5 DEF AtomicWrite, JobSound
  <2> QED
    BY <1>0, <2>2, <2>4, <2>5, <2>6, JobStep
<1>7. CASE CheckFile(p)
  BY <1>2, <1>7 DEF CheckFile, Label
<1>8. CASE RecordValidated(p)
  <2> DEFINE pc == IF jobs[p].apply_nft THEN "nft_read" ELSE AfterNft(jobs[p])
             job == [jobs[p] EXCEPT !.pc = pc, !.todo = NftRows(jobs[p].snap)]
  <2>1. /\ jobs[p].text \in RulesetType /\ Sound(jobs[p].text)
        /\ jobs[p].snap \in Table /\ jobs[p].kind # "rollback" /\ file # None
    BY <1>0, <1>8 DEF RecordValidated, JobSound
  <2>2. pc \in {"nft_read", "addr_list", "finish"}
    BY DEF AfterNft
  <2>3. NftRows(jobs[p].snap) \subseteq Stored(jobs[p].snap) /\ NftRows(jobs[p].snap) \subseteq Id
    BY DEF NftRows, Stored
  <2> HIDE DEF pc
  <2>4. /\ job \in JobState /\ job.pc = pc /\ job.todo = NftRows(jobs[p].snap)
        /\ job.kind = jobs[p].kind /\ job.id = jobs[p].id /\ job.snap = jobs[p].snap
        /\ job.text = jobs[p].text /\ job.loaded = jobs[p].loaded
    BY <1>0, <2>2, <2>3 DEF JobState, Label
  <2>5. /\ recorded \subseteq recorded' /\ recorded' \subseteq Generation
        /\ \A g \in recorded' \ recorded : Sound(g.config)'
        /\ \A t : Sound(t) => Sound(t)'
    BY <1>8, <2>1, RecordGeneration DEF RecordValidated, Sound
  <2>6. /\ jobs' = [jobs EXCEPT ![p] = job] /\ jobs'[p] = job
        /\ UNCHANGED <<rows, deleted, moved, file, live, addrs, late, asked>>
    BY <1>0, <1>8 DEF RecordValidated, pc, table, machine
  <2> HIDE DEF job
  <2>7. JobSound(p)'
    BY <1>0, <1>8, <2>1, <2>2, <2>3, <2>4, <2>5, <2>6 DEF RecordValidated, JobSound
  <2> QED
    BY <1>0, <2>4, <2>5, <2>6, <2>7, JobStep
<1>9. CASE NftRead(p)
  <2> DEFINE job == [jobs[p] EXCEPT !.pc = "nft_commit", !.loaded = file]
  <2>1. file \in RulesetType /\ Sound(file)
    BY <1>0, <1>9 DEF NftRead, JobSound, IInv, TypeOK
  <2>2. /\ job \in JobState /\ job.pc = "nft_commit" /\ job.loaded = file
        /\ job.todo = jobs[p].todo /\ job.kind = jobs[p].kind /\ job.id = jobs[p].id
        /\ job.snap = jobs[p].snap /\ job.text = jobs[p].text
    BY <1>0, <2>1 DEF JobState, Label
  <2>3. /\ jobs' = [jobs EXCEPT ![p] = job] /\ jobs'[p] = job
        /\ UNCHANGED <<table, recorded, machine, asked>>
    BY <1>0, <1>9 DEF NftRead
  <2> HIDE DEF job
  <2>4. JobSound(p)'
    BY <1>0, <1>9, <2>1, <2>2, <2>3 DEF NftRead, JobSound, Sound, Backed
  <2> QED
    BY <1>0, <2>2, <2>3, <2>4, JobOnly DEF machine
<1>10. CASE NftCommit(p)
  <2>1. PICK text \in RulesetType : text = jobs[p].loaded /\ Sound(text)
    BY <1>0, <1>10, NoneIsNoRuleset DEF NftCommit, JobSound
  <2>2. live' = text /\ UNCHANGED <<rows, deleted, moved, recorded, file, addrs, late, asked>>
    BY <1>10, <2>1 DEF NftCommit, table
  <2>3. \A t : Sound(t) => Sound(t)'
    BY <2>2 DEF Sound, Backed
  <2>4. live' \in RulesetType /\ Sound(live)'
    BY <2>1, <2>2 DEF Sound, Backed
  <2>5. CASE Return(p)
    BY <1>0, <2>2, <2>4, <2>5, IInvReturn
  <2>6. CASE ~Return(p)
    <3>1. /\ Goto(p, AfterNft(jobs[p])) /\ AfterNft(jobs[p]) \in {"addr_list", "finish"}
          /\ jobs[p].kind # "rollback"
      BY <1>10, <2>6 DEF NftCommit, AfterNft
    <3>2. PICK job \in JobState :
             /\ jobs' = [jobs EXCEPT ![p] = job] /\ jobs'[p] = job
             /\ job.pc \in {"addr_list", "finish"}
             /\ job.kind = jobs[p].kind /\ job.id = jobs[p].id
             /\ job.snap = jobs[p].snap /\ job.text = jobs[p].text
             /\ job.loaded = jobs[p].loaded /\ job.todo = jobs[p].todo
      BY <3>1, GotoJob DEF Label
    <3>3. JobSound(p)'
      BY <1>0, <1>10, <2>2, <2>3, <3>1, <3>2 DEF NftCommit, JobSound
    <3> QED
      BY <1>0, <2>2, <2>4, <3>2, <3>3, JobStep
  <2> QED
    BY <2>5, <2>6
<1>11. ASSUME NEW i \in jobs[p].todo,
              jobs[p].pc \in {"addr_list", "addr_change", "health"}
       PROVE  /\ jobs[p].kind # "rollback" /\ i \in Id
              /\ jobs[p].snap[i] \in MappingType /\ AddrOf(p, i) \in AddrType
  BY <1>0, <1>11, AddrTyped DEF JobSound
<1>12. ASSUME NEW i \in jobs[p].todo, NEW job \in JobState,
              jobs' = [jobs EXCEPT ![p] = job],
              \/ jobs[p].pc \in {"addr_list", "addr_change"} /\ job.pc = "addr_list"
              \/ jobs[p].pc = "health" /\ job.pc = "health",
              job.todo = jobs[p].todo \ {i}, job.kind = jobs[p].kind, job.id = jobs[p].id,
              job.snap = jobs[p].snap, job.text = jobs[p].text, job.loaded = jobs[p].loaded,
              rows' \in Table, addrs' \subseteq AddrType,
              UNCHANGED <<deleted, moved, recorded, file, live, late, asked>>
       PROVE  IInv'
  <2>1. jobs'[p] = job
    BY <1>0, <1>12
  <2>2. \A t : Sound(t) => Sound(t)'
    BY <1>12 DEF Sound, Backed
  <2>3. JobSound(p)'
    BY <1>0, <1>12, <2>1, <2>2 DEF JobSound
  <2> QED
    BY <1>0, <1>12, <2>3, JobStep
<1>13. CASE AddrList(p)
  <2>1. jobs[p].pc = "addr_list" /\ jobs[p].kind # "rollback"
    BY <1>0, <1>13 DEF AddrList, JobSound
  <2>2. CASE jobs[p].todo = {}
    BY <1>2, <1>13, <2>1, <2>2 DEF AddrList, Label
  <2>3. ASSUME NEW i \in jobs[p].todo, jobs' = [jobs EXCEPT ![p].todo = @ \ {i}]
        PROVE  IInv'
    <3> DEFINE job == [jobs[p] EXCEPT !.todo = @ \ {i}]
    <3>1. /\ job \in JobState /\ job.pc = "addr_list" /\ job.todo = jobs[p].todo \ {i}
          /\ job.kind = jobs[p].kind /\ job.id = jobs[p].id /\ job.loaded = jobs[p].loaded
          /\ job.snap = jobs[p].snap /\ job.text = jobs[p].text
      BY <1>0, <2>1 DEF JobState
    <3>2. jobs' = [jobs EXCEPT ![p] = job]
      BY <2>3
    <3>3. UNCHANGED <<rows, deleted, moved, recorded, file, live, addrs, late, asked>>
      BY <1>13 DEF AddrList, table, machine
    <3> HIDE DEF job
    <3> QED
      BY <1>0, <1>12, <2>1, <3>1, <3>2, <3>3
  <2>4. CASE Goto(p, "addr_change")
    BY <1>2, <1>13, <2>1, <2>4 DEF AddrList, Label
  <2> QED
    BY <1>13, <2>2, <2>3, <2>4 DEF AddrList
<1>14. CASE AddrChange(p)
  <2>1. PICK i \in jobs[p].todo :
           /\ AddrToggle(p, i)
           /\ IF addrs' # addrs
              THEN jobs' = [jobs EXCEPT ![p].pc = "addr_list", ![p].todo = @ \ {i}]
              ELSE Return(p)
    BY <1>14 DEF AddrChange
  <2>2. jobs[p].pc = "addr_change" /\ UNCHANGED <<rows, deleted, moved, recorded, file, live, late, asked>>
    BY <1>14 DEF AddrChange, table
  <2>3. addrs' \subseteq AddrType
    BY <1>0, <1>11, <2>1, <2>2 DEF AddrToggle
  <2>4. CASE Return(p)
    BY <1>0, <2>2, <2>3, <2>4, IInvReturn
  <2>5. CASE ~Return(p)
    <3> DEFINE job == [jobs[p] EXCEPT !.pc = "addr_list", !.todo = @ \ {i}]
    <3>1. /\ job \in JobState /\ job.pc = "addr_list" /\ job.todo = jobs[p].todo \ {i}
          /\ job.kind = jobs[p].kind /\ job.id = jobs[p].id /\ job.loaded = jobs[p].loaded
          /\ job.snap = jobs[p].snap /\ job.text = jobs[p].text
      BY <1>0 DEF JobState, Label
    <3>2. jobs' = [jobs EXCEPT ![p] = job]
      BY <1>0, <2>1, <2>5
    <3> HIDE DEF job
    <3> QED
      BY <1>0, <1>12, <2>2, <2>3, <3>1, <3>2
  <2> QED
    BY <2>4, <2>5
<1>15. CASE Finish(p)
  <2>1. CASE ~(jobs[p].apply_nft /\ jobs[p].apply_linux)
    BY <1>1, <1>15, <2>1 DEF Finish
  <2>2. CASE jobs[p].apply_nft /\ jobs[p].apply_linux
    <3> DEFINE todo == {i \in NftRows(jobs[p].snap) : jobs[p].snap[i].enabled}
               job == [jobs[p] EXCEPT !.pc = "health", !.todo = todo]
    <3>1. /\ jobs[p].text \in RulesetType /\ Sound(jobs[p].text)
          /\ jobs[p].snap \in Table /\ jobs[p].kind # "rollback"
      BY <1>0, <1>15 DEF Finish, JobSound
    <3>2. todo \subseteq Stored(jobs[p].snap) /\ todo \subseteq Id
      BY DEF NftRows, Stored
    <3> HIDE DEF todo
    <3>3. /\ job \in JobState /\ job.pc = "health" /\ job.todo = todo
          /\ job.kind = jobs[p].kind /\ job.id = jobs[p].id /\ job.snap = jobs[p].snap
          /\ job.text = jobs[p].text /\ job.loaded = jobs[p].loaded
      BY <1>0, <3>2 DEF JobState, Label
    <3>4. /\ recorded \subseteq recorded' /\ recorded' \subseteq Generation
          /\ \A g \in recorded' \ recorded : Sound(g.config)'
          /\ \A t : Sound(t) => Sound(t)'
      BY <1>15, <2>2, <3>1, RecordGeneration DEF Finish, Sound
    <3>5. /\ jobs' = [jobs EXCEPT ![p] = job] /\ jobs'[p] = job
          /\ UNCHANGED <<rows, deleted, moved, file, live, addrs, late, asked>>
      BY <1>0, <1>15, <2>2 DEF Finish, todo, table, machine
    <3> HIDE DEF job
    <3>6. JobSound(p)'
      BY <1>0, <1>15, <3>1, <3>2, <3>3, <3>4, <3>5 DEF Finish, JobSound
    <3> QED
      BY <1>0, <3>3, <3>4, <3>5, <3>6, JobStep
  <2> QED
    BY <2>1, <2>2
<1>16. CASE Health(p)
  <2>1. PICK i \in jobs[p].todo :
           IF rows[i] # None
           THEN /\ \E s \in HealthOf(jobs[p].snap[i]) :
                     rows' = [rows EXCEPT ![i] = MarkStatus(rows[i], s)]
                /\ jobs' = [jobs EXCEPT ![p].todo = @ \ {i}]
           ELSE UNCHANGED rows /\ Return(p)
    BY <1>16 DEF Health
  <2>2. jobs[p].pc = "health" /\ UNCHANGED <<deleted, moved, recorded, file, live, addrs, late, asked>>
    BY <1>16 DEF Health, machine
  <2>3. CASE rows[i] = None
    BY <1>0, <2>1, <2>2, <2>3, IInvReturn
  <2>4. CASE rows[i] # None
    <3> DEFINE job == [jobs[p] EXCEPT !.todo = @ \ {i}]
    <3>1. /\ job \in JobState /\ job.pc = "health" /\ job.todo = jobs[p].todo \ {i}
          /\ job.kind = jobs[p].kind /\ job.id = jobs[p].id /\ job.loaded = jobs[p].loaded
          /\ job.snap = jobs[p].snap /\ job.text = jobs[p].text
      BY <1>0, <2>2 DEF JobState
    <3>2. jobs' = [jobs EXCEPT ![p] = job]
      BY <2>1, <2>4
    <3>3. i \in Id
      BY <1>11, <2>2
    <3>4. PICK s \in MappingStatus : rows' = [rows EXCEPT ![i] = MarkStatus(rows[i], s)]
      BY <2>1, <2>4 DEF HealthOf, MappingStatus
    <3>5. rows' \in Table
      BY <2>4, <3>3, <3>4, RowTypes
    <3> HIDE DEF job
    <3> QED
      BY <1>0, <1>12, <2>2, <3>1, <3>2, <3>5
  <2> QED
    BY <2>3, <2>4
<1>17. CASE Complete(p)
  BY <1>1, <1>2, <1>17 DEF Complete, Label
<1>18. CASE DeleteRow(p)
  <2>1. jobs[p].id \in Id
    BY <1>0, <1>18 DEF DeleteRow, JobSound
  <2>2. rows' \in Table /\ deleted' \subseteq Id /\ moved' \subseteq Id \X Ip
    BY <1>0, <1>18, <2>1, RowTypes DEF DeleteRow
  <2> QED
    BY <1>0, <1>18, <2>2, IInvReturn DEF DeleteRow, machine
<1> QED
  BY <1>3, <1>4, <1>5, <1>6, <1>7, <1>8, <1>9, <1>10, <1>13, <1>14, <1>15, <1>16, <1>17, <1>18
  DEF Step

\* Every step of the system preserves the inductive invariant.
LEMMA IInvNext == IInv /\ [Next]_vars => IInv'
<1> SUFFICES ASSUME IInv, [Next]_vars PROVE IInv'
  OBVIOUS
<1>1. CASE UNCHANGED vars
  BY <1>1 DEF vars, IInv, TypeOK, HistoryOK, JobSound, Sound, Backed
<1> QED
  BY <1>1, IInvRequest, IInvStart, IInvStep, IInvFailure, IInvLate DEF Next

(***************************************************************************)
(* Every reachable state satisfies the inductive invariant.                *)
(***************************************************************************)
THEOREM Invariance == Spec => []IInv
  BY IInvInit, IInvNext, PTL DEF Spec

(***************************************************************************)
(* Type correctness of the table, the machine and the jobs.                *)
(***************************************************************************)
THEOREM TypeCorrect == Spec => []TypeOK
<1>1. IInv => TypeOK
  BY DEF IInv
<1> QED
  BY <1>1, Invariance, PTL

(***************************************************************************)
(* Any number of reconciles, deletes and rollbacks over one file, with     *)
(* failures and late children: what the kernel runs was recorded before.   *)
(***************************************************************************)
THEOREM LiveStaysRecorded == Spec => []LiveRecorded
<1>1. IInv => LiveRecorded
  BY DEF IInv, LiveRecorded, Sound
<1> QED
  BY <1>1, Invariance, PTL

(***************************************************************************)
(* And it sends no packet to two destinations, whatever the table became   *)
(* since it was rendered.                                                  *)
(***************************************************************************)
THEOREM LiveStaysUnambiguous == Spec => []LiveUnambiguous
<1>1. IInv => LiveUnambiguous
  BY DEF IInv, LiveUnambiguous, Sound
<1> QED
  BY <1>1, Invariance, PTL

-----------------------------------------------------------------------------
(* Refinement of the atomic table. *)

\* The table holds well-formed rows that claim no traffic twice.
TableSound ==
    /\ \A i \in Stored(rows) : WellFormed(rows[i])
    /\ TableView!ConflictFree(rows)

(***************************************************************************)
(* The indexes and triggers of the database keep a well-formed row apart   *)
(* from the others.                                                        *)
(***************************************************************************)
LEMMA DisjointWrite ==
    ASSUME NEW t \in Table, NEW id \in Id, NEW m \in MappingType,
           WellFormed(m), \A i \in Stored(t) : WellFormed(t[i]),
           DbAccepts(t, id, m)
    PROVE  \A j \in Stored(t) \ {id} :
              TableView!Disjoint(m, t[j]) /\ TableView!Disjoint(t[j], m)
<1> TAKE j \in Stored(t) \ {id}
<1>1. t[j] \in MappingType /\ WellFormed(t[j])
  BY DEF Stored, Table
<1>2. CASE ~(m.enabled /\ t[j].enabled)
  BY <1>2 DEF TableView!Disjoint, TableView!conflicts
<1>3. CASE m.enabled /\ t[j].enabled
  <2>1. t[j] \in EnabledOthers(t, id)
    BY <1>3 DEF EnabledOthers, Others
  <2> QED
    BY <1>1, <1>3, <2>1
    DEF DbAccepts, UniqueIndexesHold, TriggerAccepts, WellFormed, MappingType, MappingMode,
        OneToOneSnat, PortForwardSnat, TableView!OneToOneSnat, TableView!PortForwardSnat,
        TableView!Disjoint, TableView!conflicts, TableView!SharesPublicIp
<1> QED
  BY <1>2, <1>3

\* The edits of a row keep the fields that identify it.
LEMMA EditsKeepIdentity ==
    ASSUME NEW m \in MappingType
    PROVE  /\ \A b \in BOOLEAN :
                 /\ TableView!Identity(SetEnabled(m, b)) = TableView!Identity(m)
                 /\ WellFormed(m) => WellFormed(SetEnabled(m, b))
           /\ \A s \in MappingStatus :
                 /\ TableView!Identity(MarkStatus(m, s)) = TableView!Identity(m)
                 /\ WellFormed(m) => WellFormed(MarkStatus(m, s))
                 /\ \A n : /\ TableView!Disjoint(m, n) => TableView!Disjoint(MarkStatus(m, s), n)
                           /\ TableView!Disjoint(n, m) => TableView!Disjoint(n, MarkStatus(m, s))
           /\ \A a \in Allocations, b \in BOOLEAN :
                 TableView!Identity(Allocated([m EXCEPT !.enabled = b], a)) = TableView!Identity(m)
<1>1. \A b \in BOOLEAN : /\ TableView!Identity(SetEnabled(m, b)) = TableView!Identity(m)
                         /\ WellFormed(m) => WellFormed(SetEnabled(m, b))
  BY DEF SetEnabled, MappingType, MappingStatus, WellFormed, TableView!Identity
<1>2. ASSUME NEW s \in MappingStatus
      PROVE  /\ TableView!Identity(MarkStatus(m, s)) = TableView!Identity(m)
             /\ WellFormed(m) => WellFormed(MarkStatus(m, s))
             /\ \A n : /\ TableView!Disjoint(m, n) => TableView!Disjoint(MarkStatus(m, s), n)
                       /\ TableView!Disjoint(n, m) => TableView!Disjoint(n, MarkStatus(m, s))
  <2> DEFINE w == MarkStatus(m, s)
  <2>1. /\ w.name = m.name /\ w.public_ip = m.public_ip /\ w.target_ip = m.target_ip
        /\ w.edge_private_ip = m.edge_private_ip /\ w.public_port = m.public_port
        /\ w.target_port = m.target_port /\ w.protocol = m.protocol /\ w.mode = m.mode
        /\ w.backend = m.backend /\ w.enabled = m.enabled
    BY DEF MarkStatus, MappingType
  <2> HIDE DEF w
  <2>2. TableView!Identity(w) = TableView!Identity(m) /\ (WellFormed(m) => WellFormed(w))
    BY <2>1 DEF WellFormed, TableView!Identity
  <2>3. \A n : /\ TableView!Disjoint(m, n) => TableView!Disjoint(w, n)
               /\ TableView!Disjoint(n, m) => TableView!Disjoint(n, w)
    BY <2>1 DEF TableView!Disjoint, TableView!conflicts, TableView!SharesPublicIp
  <2> QED
    BY <2>2, <2>3 DEF w
<1>3. \A a \in Allocations, b \in BOOLEAN :
         TableView!Identity(Allocated([m EXCEPT !.enabled = b], a)) = TableView!Identity(m)
  BY DEF Allocated, MarkStatus, MappingType, TableView!Identity
<1> QED
  BY <1>1, <1>2, <1>3

\* m is written to the row of id: a new one, or one that keeps its identity.
Written(id, m) ==
    /\ rows' = [rows EXCEPT ![id] = m] /\ UNCHANGED deleted
    /\ WellFormed(m)
    /\ \A j \in Stored(rows) \ {id} :
          TableView!Disjoint(m, rows[j]) /\ TableView!Disjoint(rows[j], m)
    /\ \/ rows[id] # None /\ TableView!Identity(m) = TableView!Identity(rows[id])
       \/ rows[id] = None /\ id \notin deleted

Removed(id) ==
    /\ rows[id] # None
    /\ rows' = [rows EXCEPT ![id] = None] /\ deleted' = deleted \cup {id}

\* What a step does to the table, if anything: a late health result only marks
\* a row that is there.
LEMMA TableEffect ==
    ASSUME IInv, TableSound, [Next]_vars
    PROVE  \/ UNCHANGED <<rows, deleted>>
           \/ \E id \in Id, m \in MappingType : Written(id, m)
           \/ \E id \in Id : Removed(id)
<1>1. rows \in Table /\ \A i \in Stored(rows) : WellFormed(rows[i])
  BY DEF IInv, TypeOK, TableSound
<1>2. ASSUME NEW id \in Id, rows[id] # None
      PROVE  rows[id] \in MappingType /\ WellFormed(rows[id])
  BY <1>1, <1>2 DEF Table, Stored
<1>3. ASSUME NEW id \in Id, NEW m \in MappingType, rows' = [rows EXCEPT ![id] = m],
             UNCHANGED deleted, WellFormed(m), DbAccepts(rows, id, m),
             \/ rows[id] # None /\ TableView!Identity(m) = TableView!Identity(rows[id])
             \/ rows[id] = None /\ id \notin deleted
      PROVE  Written(id, m)
  BY <1>1, <1>3, DisjointWrite DEF Written
<1>4. ASSUME NEW id \in Id, NEW b \in BOOLEAN, set_mapping_enabled(id, b), UNCHANGED deleted
      PROVE  \E m \in MappingType : Written(id, m)
  <2>1. rows[id] # None /\ rows[id] \in MappingType /\ WellFormed(rows[id])
    BY <1>2, <1>4 DEF set_mapping_enabled
  <2>2. PICK m \in MappingType : /\ m = SetEnabled(rows[id], b) /\ WellFormed(m)
                                 /\ TableView!Identity(m) = TableView!Identity(rows[id])
    BY <2>1, RowTypes, EditsKeepIdentity
  <2>3. rows' = [rows EXCEPT ![id] = m] /\ DbAccepts(rows, id, m)
    BY <1>4, <2>2 DEF set_mapping_enabled
  <2> QED
    BY <1>3, <1>4, <2>1, <2>2, <2>3
<1>5. ASSUME NEW id \in Id, NEW request \in Requests, NEW p \in Job,
             create_mapping(id, request, ConfigOf[p])
      PROVE  \E m \in MappingType : Written(id, m)
  <2>1. PICK m \in MappingType : m = MappingNew(request)
    BY RowTypes
  <2>2. /\ rows' = [rows EXCEPT ![id] = m] /\ DbAccepts(rows, id, m) /\ WellFormed(m)
        /\ rows[id] = None /\ id \notin deleted /\ UNCHANGED deleted
    BY <1>5, <2>1 DEF create_mapping, validate_mapping
  <2> QED
    BY <1>3, <2>2
<1>6. ASSUME NEW id \in Id, NEW a \in Allocations, NEW b \in BOOLEAN, NEW p \in Job,
             oci_allocate(id, a, b, ConfigOf[p])
      PROVE  \E m \in MappingType : Written(id, m)
  <2>1. rows[id] # None /\ rows[id] \in MappingType
    BY <1>2, <1>6 DEF oci_allocate
  <2>2. PICK m \in MappingType : /\ m = Allocated([rows[id] EXCEPT !.enabled = b], a)
                                 /\ TableView!Identity(m) = TableView!Identity(rows[id])
    <3>1. Allocated([rows[id] EXCEPT !.enabled = b], a) \in MappingType
      BY <2>1, RowTypes
    <3>2. TableView!Identity(Allocated([rows[id] EXCEPT !.enabled = b], a))
            = TableView!Identity(rows[id])
      BY <2>1, EditsKeepIdentity
    <3> QED
      BY <3>1, <3>2
  <2>3. /\ rows' = [rows EXCEPT ![id] = m] /\ DbAccepts(rows, id, m) /\ WellFormed(m)
        /\ UNCHANGED deleted
    BY <1>6, <2>2 DEF oci_allocate, validate_mapping
  <2> QED
    BY <1>3, <2>1, <2>2, <2>3
<1>7. CASE Request
  BY <1>4, <1>5, <1>6, <1>7 DEF Request, enable_mapping
<1>8. ASSUME NEW p \in Job, Disable(p)
      PROVE  UNCHANGED <<rows, deleted>> \/ \E id \in Id, m \in MappingType : Written(id, m)
  <2>1. jobs[p].id \in Id
    BY <1>8 DEF Disable, IInv, JobSound
  <2> QED
    BY <1>4, <1>8, <2>1 DEF Disable
<1>9. ASSUME NEW p \in Job, Health(p)
      PROVE  UNCHANGED <<rows, deleted>> \/ \E id \in Id, m \in MappingType : Written(id, m)
  <2>1. PICK i \in jobs[p].todo :
           IF rows[i] # None
           THEN \E s \in HealthOf(jobs[p].snap[i]) :
                   rows' = [rows EXCEPT ![i] = MarkStatus(rows[i], s)]
           ELSE UNCHANGED rows
    BY <1>9 DEF Health
  <2>2. i \in Id /\ deleted' = deleted
    BY <1>9 DEF Health, IInv, TypeOK, JobState
  <2>3. CASE rows[i] # None
    <3>1. PICK s \in MappingStatus : rows' = [rows EXCEPT ![i] = MarkStatus(rows[i], s)]
      BY <2>1, <2>3 DEF HealthOf, MappingStatus
    <3>2. rows[i] \in MappingType /\ WellFormed(rows[i])
      BY <1>2, <2>2, <2>3
    <3>3. \A j \in Stored(rows) \ {i} :
             TableView!Disjoint(rows[i], rows[j]) /\ TableView!Disjoint(rows[j], rows[i])
      BY <2>2, <2>3 DEF TableSound, TableView!ConflictFree, TableView!Stored, Stored
    <3>4. PICK m \in MappingType :
             /\ m = MarkStatus(rows[i], s) /\ WellFormed(m)
             /\ TableView!Identity(m) = TableView!Identity(rows[i])
             /\ \A n : /\ TableView!Disjoint(rows[i], n) => TableView!Disjoint(m, n)
                       /\ TableView!Disjoint(n, rows[i]) => TableView!Disjoint(n, m)
      BY <2>2, <2>3, <3>2, RowTypes, EditsKeepIdentity
    <3>5. Written(i, m)
      BY <2>2, <2>3, <3>1, <3>3, <3>4 DEF Written
    <3> QED
      BY <2>2, <3>5
  <2> QED
    BY <2>1, <2>2, <2>3
<1>10. ASSUME NEW p \in Job, DeleteRow(p)
       PROVE  UNCHANGED <<rows, deleted>> \/ \E id \in Id : Removed(id)
  <2>1. jobs[p].id \in Id
    BY <1>10 DEF DeleteRow, IInv, JobSound
  <2> QED
    BY <1>1, <1>10, <2>1 DEF DeleteRow, Removed, Table
<1>11. CASE ~Request /\ ~\E p \in Job : Disable(p) \/ Health(p) \/ DeleteRow(p)
  <2>1. UNCHANGED table
    <3>1. CASE UNCHANGED vars
      BY <3>1 DEF vars, table
    <3>2. ASSUME NEW p \in Job, Start(p) PROVE UNCHANGED table
      BY <3>2 DEF Start, reconcile, delete_mapping, rollback, Begin
    <3>3. ASSUME NEW p \in Job, Step(p) PROVE UNCHANGED table
      BY <1>11, <3>3 DEF Step, List, RecordRendered, AtomicWrite, CheckFile, RecordValidated,
                         NftRead, NftCommit, AddrList, AddrChange, Finish, Complete
    <3>4. ASSUME NEW p \in Job, Failure(p) PROVE UNCHANGED table
      BY <3>4 DEF Failure, Fail, FailRecorded, NftTimeout, AddrTimeout
    <3>5. ASSUME LateRead \/ (\E t : LateCommit(t)) \/ \E c : LateAddr(c) PROVE UNCHANGED table
      BY <3>5 DEF LateRead, LateCommit, LateAddr
    <3> QED
      BY <1>11, <3>1, <3>2, <3>3, <3>4, <3>5 DEF Next
  <2> QED
    BY <2>1 DEF table
<1> QED
  BY <1>7, <1>8, <1>9, <1>10, <1>11

\* The table stays sound.
LEMMA TableNext ==
    ASSUME IInv, TableSound, [Next]_vars
    PROVE  TableSound'
<1>1. /\ rows \in Table
      /\ \A i \in Stored(rows) : WellFormed(rows[i])
      /\ \A i, j \in Stored(rows) : i # j => TableView!Disjoint(rows[i], rows[j])
  BY DEF IInv, TypeOK, TableSound, TableView!ConflictFree, TableView!Stored, Stored
<1>2. CASE UNCHANGED <<rows, deleted>>
  BY <1>1, <1>2 DEF TableSound, TableView!ConflictFree, TableView!Stored, Stored
<1>3. ASSUME NEW id \in Id, NEW m \in MappingType, Written(id, m)
      PROVE  TableSound'
  <2>1. rows'[id] = m /\ (\A j \in Id \ {id} : rows'[j] = rows[j])
    BY <1>1, <1>3 DEF Written, Table
  <2>2. \A i \in Stored(rows') : WellFormed(rows'[i])
    BY <1>1, <1>3, <2>1 DEF Stored, Written
  <2>3. ASSUME NEW i \in Stored(rows'), NEW j \in Stored(rows'), i # j
        PROVE  TableView!Disjoint(rows'[i], rows'[j])
    <3>1. i \in Stored(rows) \ {id} \/ i = id
      BY <2>1 DEF Stored
    <3>2. j \in Stored(rows) \ {id} \/ j = id
      BY <2>1 DEF Stored
    <3> QED
      BY <1>1, <1>3, <2>1, <2>3, <3>1, <3>2 DEF Stored, Written
  <2> QED
    BY <2>2, <2>3 DEF TableSound, TableView!ConflictFree, TableView!Stored, Stored
<1>4. ASSUME NEW id \in Id, Removed(id) PROVE TableSound'
  <2>1. rows'[id] = None /\ (\A j \in Id \ {id} : rows'[j] = rows[j])
    BY <1>1, <1>4 DEF Removed, Table
  <2>2. Stored(rows') \subseteq Stored(rows) /\ \A i \in Stored(rows') : rows'[i] = rows[i]
    BY <2>1 DEF Stored
  <2>3. /\ \A i \in Stored(rows') : WellFormed(rows'[i])
        /\ \A i, j \in Stored(rows') : i # j => TableView!Disjoint(rows'[i], rows'[j])
    BY <1>1, <2>2
  <2> QED
    BY <2>3 DEF TableSound, TableView!ConflictFree, TableView!Stored, Stored
<1> QED
  BY <1>2, <1>3, <1>4, TableEffect

\* Every step of the jobs and operators is a step of the atomic table, or none.
LEMMA NextRefines ==
    IInv /\ TableSound /\ TableSound' /\ [Next]_vars => [TableView!Next]_(TableView!vars)
<1> SUFFICES ASSUME IInv, TableSound, TableSound', [Next]_vars, ~UNCHANGED <<rows, deleted>>
             PROVE  TableView!Next
  BY DEF TableView!vars
<1>1. rows \in Table /\ TableView!ConflictFree(rows')
  BY DEF IInv, TypeOK, TableSound, TableView!ConflictFree, TableView!Stored
<1>2. ASSUME NEW id \in Id, NEW m \in MappingType, Written(id, m) PROVE TableView!Next
  <2>1. /\ rows'[id] = m /\ m # None /\ \A j \in Id \ {id} : rows'[j] = rows[j]
        /\ deleted' = deleted
    BY <1>1, <1>2, NoneIsNoRecord DEF Written, Table
  <2>2. TableView!OnlyRow(id) /\ TableView!WellFormed(rows'[id])
    BY <1>2, <2>1 DEF Written, TableView!OnlyRow, TableView!WellFormed, WellFormed,
                      TableView!OneToOneSnat, TableView!PortForwardSnat, OneToOneSnat,
                      PortForwardSnat
  <2>3. TableView!Insert(id) \/ TableView!Replace(id)
    BY <1>1, <1>2, <2>1, <2>2 DEF Written, TableView!Insert, TableView!Replace
  <2> QED
    BY <2>3 DEF TableView!Next
<1>3. ASSUME NEW id \in Id, Removed(id) PROVE TableView!Next
  BY <1>1, <1>3 DEF Removed, Table, TableView!Remove, TableView!OnlyRow, TableView!Next
<1> QED
  BY <1>2, <1>3, TableEffect

(***************************************************************************)
(* Jobs and operators implement the atomic table, whatever they read       *)
(* before: a health result that comes late marks a row that is there and   *)
(* brings none back, and a removed row stays removed.                      *)
(***************************************************************************)
THEOREM JobsImplementTable == Spec => ImplementsTable
<1>1. Init => TableView!Init /\ TableSound
  BY DEF Init, TableView!Init, EmptyTable, TableView!EmptyTable, TableSound,
         TableView!ConflictFree, TableView!Stored, Stored
<1>2. IInv /\ TableSound /\ [Next]_vars => TableSound'
  BY TableNext
<1> QED
  BY <1>1, <1>2, NextRefines, Invariance, PTL DEF Spec, ImplementsTable, TableView!Spec
=============================================================================
