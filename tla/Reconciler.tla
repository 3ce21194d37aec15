----------------------------- MODULE Reconciler -----------------------------
(***************************************************************************)
(* edge-reconcile and its callers: the handlers of the agent and the runs  *)
(* of the CLI that apply the mappings table to the machine, at the same    *)
(* time and without a lock.  A job is a reconcile, a delete (disable the   *)
(* row, reconcile, delete the row) or a rollback to a recorded generation. *)
(* All of them write the same generated.nft, load it with nft, and add and *)
(* remove addresses of the WAN interface.                                  *)
(*                                                                         *)
(* A step is one statement, system call or child process.  The table is    *)
(* the one of MappingTable: edge-store gives the jobs and the operators    *)
(* atomic steps on it (SqliteStore shows that it does).                    *)
(***************************************************************************)
EXTENDS Ruleset, FiniteSets

CONSTANTS
    Job,        \* jobs that may run at the same time
    ConfigOf,   \* the configuration the process of each job has in memory
    Requests,   \* mappings that create requests ask for
    Allocations, \* address pairs OCI hands out
    Options,    \* values of ReconcileOptions.apply_nft and apply_linux
    Rollback,   \* BOOLEAN: rollbacks happen
    Overlap,    \* BOOLEAN: requests are made while a job runs
    MaxLate,    \* bound on the nft children that outlive their timeout
    MaxLateAddr, \* the same for the ip children
    MaxRequests \* bound on the requests: rows created or switched, jobs begun

ASSUME JobAssumption == ConfigOf \in [Job -> EdgeConfigType]

ASSUME RequestsAssumption == Requests \subseteq MappingType

ASSUME AllocationsAssumption ==
    Allocations \subseteq [edge_private_ip: Ip, public_ip: Ip,
                          oci_public_ip_ocid: Ocid, oci_private_ip_ocid: Ocid]

ASSUME OptionsAssumption == Options \subseteq [apply_nft: BOOLEAN, apply_linux: BOOLEAN]

ASSUME BoundsAssumption ==
    /\ Rollback \in BOOLEAN /\ Overlap \in BOOLEAN
    /\ MaxLate \in Nat /\ MaxLateAddr \in Nat /\ MaxRequests \in Nat

VARIABLES
    rows, deleted,  \* the mappings table, and the ids that were removed from it
    moved,          \* history: the edge addresses allocations took from rows, with their ids
    recorded,       \* the generations table: rulesets and their status
    file,           \* the ruleset in generated.nft, or None
    live,           \* the ruleset in the kernel, or None
    addrs,          \* addresses present, as interface and address
    jobs,           \* what each running job holds
    late,           \* nft children that outlive their timeout: the ruleset one has
                    \* read, or None
    lateAddr,       \* ip children that do, as the changes they are to make
    meddled,        \* history: what others did to the machine under each job's hands
    stray,          \* history: addresses that a late ip child added, and no job removed
    asked           \* number of requests made

vars == <<rows, deleted, moved, recorded, file, live, addrs, jobs, late, lateAddr, meddled,
          stray, asked>>

Generation == [status: {"rendered", "validated", "active", "failed"}, config: RulesetType]

Label == {"idle", "disable", "list", "record_rendered", "write", "check",
          "record_validated", "nft_read", "nft_commit", "addr_list", "addr_change",
          "finish", "health", "delete_row"}

JobState ==
    [kind: {"idle", "reconcile", "delete", "rollback"},
     pc: Label,                        \* the step it takes next
     apply_nft: BOOLEAN, apply_linux: BOOLEAN,
     id: Id \cup {None},               \* the row a delete is about
     snap: Table \cup {None},          \* what list_mappings returned
     text: RulesetType \cup {None},    \* what the job renders or rolls back to
     loaded: RulesetType \cup {None},  \* what its nft child read from the file
     todo: SUBSET Id]                  \* rows its current loop has yet to visit

AddrType == Interface \X Ip

\* nft: the file before the job's nft read it, or the ruleset afterwards;
\* addrs: the addresses since the job's loop over them began.
Meddling == [nft: BOOLEAN, addrs: SUBSET AddrType]

Unmeddled == [nft |-> FALSE, addrs |-> {}]

Idle == [kind |-> "idle", pc |-> "idle", apply_nft |-> TRUE, apply_linux |-> TRUE,
         id |-> None, snap |-> None, text |-> None, loaded |-> None, todo |-> {}]

HistoryOK ==
    /\ lateAddr \subseteq [add: BOOLEAN, at: AddrType]
    /\ meddled \in [Job -> Meddling]
    /\ stray \subseteq AddrType

TypeOK ==
    /\ rows \in Table /\ deleted \subseteq Id /\ moved \subseteq Id \X Ip
    /\ recorded \subseteq Generation
    /\ file \in RulesetType \cup {None} /\ live \in RulesetType \cup {None}
    /\ addrs \subseteq AddrType
    /\ jobs \in [Job -> JobState]
    /\ late \subseteq RulesetType \cup {None}
    /\ HistoryOK
    /\ asked \in 0 .. MaxRequests

Init ==
    /\ rows = EmptyTable /\ deleted = {} /\ moved = {}
    /\ recorded = {} /\ file = None /\ live = None /\ addrs = {}
    /\ jobs = [p \in Job |-> Idle] /\ late = {} /\ lateAddr = {} /\ asked = 0
    /\ meddled = [p \in Job |-> Unmeddled] /\ stray = {}

table == <<rows, deleted, moved>>
machine == <<file, live, addrs, late, lateAddr, meddled, stray>>

Record(status, text) == recorded' = recorded \cup {[status |-> status, config |-> text]}

Goto(p, pc) == jobs' = [jobs EXCEPT ![p].pc = pc]

Return(p) == jobs' = [jobs EXCEPT ![p] = Idle]

Quiet == \A p \in Job : jobs[p] = Idle

\* A job between its write of the file and its nft -f, and one after that.
Unread == {"check", "record_validated", "nft_read"}
Applied == {"addr_list", "addr_change", "finish", "health", "delete_row"}

\* History: the jobs in Q are affected by what someone else's step changes.
Meddle(Q) ==
    meddled' = [q \in Job |->
        IF q \notin Q THEN meddled[q] ELSE
        [nft |-> \/ meddled[q].nft
                 \/ jobs[q].pc \in Unread /\ file' # file
                 \/ jobs[q].pc \in Applied /\ live' # live,
         addrs |-> meddled[q].addrs \cup
                     {a \in addrs \cup addrs' :
                        jobs[q].pc \in Applied /\ (a \in addrs) # (a \in addrs')}]]

\* One more request reaches a handler.
Ask ==
    /\ Overlap \/ Quiet
    /\ asked < MaxRequests
    /\ asked' = asked + 1

-----------------------------------------------------------------------------
(* Operators: the requests that only change the table. *)

\* insert_mapping as seen from outside: the row it writes is validated under
\* the stored configuration, and the database accepts it.  The duplicate check
\* is no guard: the table it read may be gone (see SqliteStore).
create_mapping(id, request, config) ==
    /\ Ask
    /\ rows[id] = None /\ id \notin deleted
    /\ validate_mapping(MappingNew(request), config)
    /\ DbAccepts(rows, id, MappingNew(request))
    /\ rows' = [rows EXCEPT ![id] = MappingNew(request)]
    /\ UNCHANGED <<deleted, moved, recorded, machine, jobs>>

set_mapping_enabled(id, b) ==
    /\ rows[id] # None
    /\ DbAccepts(rows, id, SetEnabled(rows[id], b))
    /\ rows' = [rows EXCEPT ![id] = SetEnabled(rows[id], b)]

enable_mapping(id, b) ==
    /\ Ask
    /\ set_mapping_enabled(id, b)
    /\ UNCHANGED <<deleted, moved, recorded, machine, jobs>>

\* oci_allocate writes back the copy of the row that it read before it asked
\* Oracle: when requests overlap, enabled may have changed since, and another
\* allocation may have come first.  Nobody takes the address it replaces off the
\* interface.
oci_allocate(id, a, enabled, config) ==
    /\ Ask
    /\ rows[id] # None
    /\ Overlap \/ (enabled = rows[id].enabled /\ ~HasAllocation(rows[id]))
    /\ LET m == Allocated([rows[id] EXCEPT !.enabled = enabled], a)
       IN  /\ validate_mapping(m, config) /\ DbAccepts(rows, id, m)
           /\ rows' = [rows EXCEPT ![id] = m]
    /\ moved' = moved \cup {<<id, rows[id].edge_private_ip>>}
    /\ UNCHANGED <<deleted, recorded, machine, jobs>>

-----------------------------------------------------------------------------
(* How a job begins. *)

Begin(p, job) ==
    /\ Ask
    /\ jobs[p] = Idle
    /\ jobs' = [jobs EXCEPT ![p] = job]
    /\ meddled' = [meddled EXCEPT ![p] = Unmeddled]
    /\ UNCHANGED <<table, recorded, file, live, addrs, late, lateAddr, stray>>

reconcile(p, opts) ==
    Begin(p, [Idle EXCEPT !.kind = "reconcile", !.pc = "list",
                          !.apply_nft = opts.apply_nft, !.apply_linux = opts.apply_linux])

delete_mapping(p, id) ==
    Begin(p, [Idle EXCEPT !.kind = "delete", !.pc = "disable", !.id = id])

\* Mutant of rollback: takes the generation for its ruleset.
rollback_record(p, generation) ==
    /\ Rollback
    /\ Begin(p, [Idle EXCEPT !.kind = "rollback", !.pc = "write", !.text = generation])

rollback(p, generation) ==
    /\ Rollback
    /\ Begin(p, [Idle EXCEPT !.kind = "rollback", !.pc = "write",
                             !.text = generation.config])

-----------------------------------------------------------------------------
(* The steps of a job. *)

\* Mutant of Disable: only makes sure that there is a row.
DisableSkipped(p) ==
    /\ jobs[p].pc = "disable"
    /\ IF rows[jobs[p].id] # None THEN Goto(p, "list") ELSE Return(p)
    /\ UNCHANGED <<table, recorded, machine, asked>>

Disable(p) ==
    /\ jobs[p].pc = "disable"
    /\ IF rows[jobs[p].id] # None
       THEN set_mapping_enabled(jobs[p].id, FALSE) /\ Goto(p, "list")
       ELSE UNCHANGED rows /\ Return(p)
    /\ UNCHANGED <<deleted, moved, recorded, machine, asked>>

\* Mutant of List: goes on to the file without the rendered generation.
ListUnrecorded(p) ==
    /\ jobs[p].pc = "list"
    /\ IF validate_mappings(rows, ConfigOf[p]) /\ ~XdpBlocks(rows)
       THEN jobs' = [jobs EXCEPT ![p].pc = "write", ![p].snap = rows,
                                 ![p].text = render_nftables(rows, ConfigOf[p])]
       ELSE Return(p)
    /\ UNCHANGED <<table, recorded, machine, asked>>

\* list_mappings, render_nftables and the XDP plan.
List(p) ==
    /\ jobs[p].pc = "list"
    /\ IF validate_mappings(rows, ConfigOf[p]) /\ ~XdpBlocks(rows)
       THEN jobs' = [jobs EXCEPT ![p].pc = "record_rendered", ![p].snap = rows,
                                 ![p].text = render_nftables(rows, ConfigOf[p])]
       ELSE Return(p)
    /\ UNCHANGED <<table, recorded, machine, asked>>

RecordRendered(p) ==
    /\ jobs[p].pc = "record_rendered"
    /\ Record("rendered", jobs[p].text)
    /\ Goto(p, "write")
    /\ UNCHANGED <<table, machine, asked>>

\* Mutant of AtomicWrite: opens the file with create_new.
WriteOnce(p) ==
    /\ jobs[p].pc = "write"
    /\ file' = IF file = None THEN jobs[p].text ELSE file
    /\ Goto(p, "check")
    /\ UNCHANGED <<table, recorded, live, addrs, late, lateAddr, stray, asked>>
    /\ Meddle(Job \ {p})

\* atomic_write: the rename replaces the file.
AtomicWrite(p) ==
    /\ jobs[p].pc = "write"
    /\ file' = jobs[p].text
    /\ Goto(p, "check")
    /\ UNCHANGED <<table, recorded, live, addrs, late, lateAddr, stray, asked>>
    /\ Meddle(Job \ {p})

\* nft -c -f: what it checks is whatever the file then holds.
CheckFile(p) ==
    /\ jobs[p].pc = "check"
    /\ Goto(p, IF jobs[p].kind = "rollback" THEN "nft_read" ELSE "record_validated")
    /\ UNCHANGED <<table, recorded, machine, asked>>

\* Where a job goes once the kernel has the ruleset, or need not have it.
AfterNft(job) == IF job.apply_linux THEN "addr_list" ELSE "finish"

\* The rows whose addresses the loop of reconcile looks at.
NftRows(snap) == {i \in Stored(snap) : snap[i].backend = "nft"}

RecordValidated(p) ==
    /\ jobs[p].pc = "record_validated"
    /\ Record("validated", jobs[p].text)
    /\ jobs' = [jobs EXCEPT
                  ![p].pc = IF jobs[p].apply_nft THEN "nft_read" ELSE AfterNft(jobs[p]),
                  ![p].todo = NftRows(jobs[p].snap)]
    /\ UNCHANGED <<table, machine, asked>>

\* nft -f reads the file, and then replaces the table in one transaction.
NftRead(p) ==
    /\ jobs[p].pc = "nft_read"
    /\ jobs' = [jobs EXCEPT ![p].pc = "nft_commit", ![p].loaded = file]
    /\ UNCHANGED <<table, recorded, machine, asked>>

NftCommit(p) ==
    /\ jobs[p].pc = "nft_commit"
    /\ live' = jobs[p].loaded
    /\ IF jobs[p].kind = "rollback" THEN Return(p) ELSE Goto(p, AfterNft(jobs[p]))
    /\ UNCHANGED <<table, recorded, file, addrs, late, lateAddr, stray, asked>>
    /\ Meddle(Job \ {p})

\* The row a loop over the rows visits next: they are in id order.
NextOf(job, i) == i \in job.todo /\ \A j \in job.todo : i <= j

AddrOf(p, i) == <<ConfigOf[p].wan_interface, jobs[p].snap[i].edge_private_ip>>

\* Mutant of AddrList: addresses are added and never removed.
AddrListEnsure(p) ==
    /\ jobs[p].pc = "addr_list"
    /\ IF jobs[p].todo = {}
       THEN Goto(p, "finish")
       ELSE \E i \in jobs[p].todo :
              /\ NextOf(jobs[p], i)
              /\ IF jobs[p].snap[i].enabled => AddrOf(p, i) \in addrs
                 THEN jobs' = [jobs EXCEPT ![p].todo = @ \ {i}]
                 ELSE Goto(p, "addr_change")
    /\ UNCHANGED <<table, recorded, machine, asked>>

\* ensure_addr and delete_addr_if_present list the addresses first.
AddrList(p) ==
    /\ jobs[p].pc = "addr_list"
    /\ IF jobs[p].todo = {}
       THEN Goto(p, "finish")
       ELSE \E i \in jobs[p].todo :
              /\ NextOf(jobs[p], i)
              /\ IF (AddrOf(p, i) \in addrs) = jobs[p].snap[i].enabled
                 THEN jobs' = [jobs EXCEPT ![p].todo = @ \ {i}]
                 ELSE Goto(p, "addr_change")
    /\ UNCHANGED <<table, recorded, machine, asked>>

\* ip addr add and ip addr del.
AddrToggle(p, i) ==
    addrs' = IF jobs[p].snap[i].enabled THEN addrs \cup {AddrOf(p, i)}
                                        ELSE addrs \ {AddrOf(p, i)}

\* They fail when another job was faster, and the whole reconcile with them.
AddrChange(p) ==
    /\ jobs[p].pc = "addr_change"
    /\ \E i \in jobs[p].todo :
         /\ NextOf(jobs[p], i)
         /\ AddrToggle(p, i)
         /\ IF addrs' # addrs
            THEN jobs' = [jobs EXCEPT ![p].pc = "addr_list", ![p].todo = @ \ {i}]
            ELSE Return(p)
    /\ stray' = stray \cap addrs'
    /\ UNCHANGED <<table, recorded, file, live, late, lateAddr, asked>>
    /\ Meddle(Job \ {p})

Finish(p) ==
    /\ jobs[p].pc = "finish"
    /\ IF jobs[p].apply_nft /\ jobs[p].apply_linux
       THEN /\ Record("active", jobs[p].text)
            /\ jobs' = [jobs EXCEPT ![p].pc = "health",
                          ![p].todo = {i \in NftRows(jobs[p].snap) : jobs[p].snap[i].enabled}]
       ELSE UNCHANGED recorded /\ Return(p)
    /\ UNCHANGED <<table, machine, asked>>

\* health_check: only a TCP connection to a port can fail.
HealthOf(m) ==
    IF m.protocol = "udp" \/ m.target_port = None THEN {"active"} ELSE {"active", "degraded"}

\* Mutant of Health: writes back the row as the reconcile had read it.
HealthUpsert(p) ==
    /\ jobs[p].pc = "health" /\ jobs[p].todo # {}
    /\ \E i \in jobs[p].todo :
         /\ NextOf(jobs[p], i)
         /\ \E s \in HealthOf(jobs[p].snap[i]) :
              rows' = [rows EXCEPT ![i] = MarkStatus(jobs[p].snap[i], s)]
         /\ jobs' = [jobs EXCEPT ![p].todo = @ \ {i}]
    /\ UNCHANGED <<deleted, moved, recorded, machine, asked>>

\* Mutant of Health: tries again until there is a row to update.
HealthRetry(p) ==
    /\ jobs[p].pc = "health" /\ jobs[p].todo # {}
    /\ \E i \in jobs[p].todo :
         /\ NextOf(jobs[p], i) /\ rows[i] # None
         /\ \E s \in HealthOf(jobs[p].snap[i]) :
              rows' = [rows EXCEPT ![i] = MarkStatus(rows[i], s)]
         /\ jobs' = [jobs EXCEPT ![p].todo = @ \ {i}]
    /\ UNCHANGED <<deleted, moved, recorded, machine, asked>>

\* set_mapping_health writes the status whatever the row has become, and
\* fails the reconcile when there is no row.
Health(p) ==
    /\ jobs[p].pc = "health" /\ jobs[p].todo # {}
    /\ \E i \in jobs[p].todo :
         /\ NextOf(jobs[p], i)
         /\ IF rows[i] # None
            THEN /\ \E s \in HealthOf(jobs[p].snap[i]) :
                      rows' = [rows EXCEPT ![i] = MarkStatus(rows[i], s)]
                 /\ jobs' = [jobs EXCEPT ![p].todo = @ \ {i}]
            ELSE UNCHANGED rows /\ Return(p)
    /\ UNCHANGED <<deleted, moved, recorded, machine, asked>>

Complete(p) ==
    /\ jobs[p].pc = "health" /\ jobs[p].todo = {}
    /\ IF jobs[p].kind = "delete" THEN Goto(p, "delete_row") ELSE Return(p)
    /\ UNCHANGED <<table, recorded, machine, asked>>

DeleteRow(p) ==
    /\ jobs[p].pc = "delete_row"
    /\ rows' = [rows EXCEPT ![jobs[p].id] = None]
    /\ deleted' = IF rows[jobs[p].id] # None THEN deleted \cup {jobs[p].id} ELSE deleted
    /\ Return(p)
    /\ UNCHANGED <<moved, recorded, machine, asked>>

-----------------------------------------------------------------------------
(* Failures. *)

\* Mutant of Fail: a delete goes on when its reconcile fails.
FailButDelete(p) ==
    /\ jobs[p] # Idle
    /\ IF jobs[p].kind = "delete" /\ jobs[p].pc \notin {"disable", "delete_row"}
       THEN Goto(p, "delete_row") ELSE Return(p)
    /\ UNCHANGED <<table, recorded, machine, asked>>

\* A statement or command fails, times out, or the process is restarted; the
\* error is returned and nothing is undone.
Fail(p) ==
    /\ jobs[p] # Idle
    /\ Return(p)
    /\ UNCHANGED <<table, recorded, machine, asked>>

\* The failures that reconcile records as a generation.
FailRecorded(p) ==
    /\ jobs[p].pc \in {"write", "check", "nft_commit"} /\ jobs[p].kind # "rollback"
    /\ Record("failed", jobs[p].text)
    /\ Return(p)
    /\ UNCHANGED <<table, machine, asked>>

\* The timeout (or a client that hangs up) drops the future, not the child: nft
\* may still read the file and commit.
NftTimeout(p) ==
    /\ jobs[p].pc \in {"nft_read", "nft_commit"} /\ Cardinality(late) < MaxLate
    /\ late' = late \cup {IF jobs[p].pc = "nft_read" THEN None ELSE jobs[p].loaded}
    /\ Return(p)
    /\ UNCHANGED <<table, recorded, file, live, addrs, lateAddr, meddled, stray, asked>>

LateRead ==
    /\ None \in late
    /\ late' = (late \ {None}) \cup {file}
    /\ UNCHANGED <<table, recorded, file, live, addrs, lateAddr, meddled, stray, jobs, asked>>

LateCommit(t) ==
    /\ live' = t
    /\ late' = late \ {t}
    /\ UNCHANGED <<table, recorded, file, addrs, lateAddr, stray, jobs, asked>>
    /\ Meddle(Job)

\* The same for ip: the address may change long after the job has failed.
AddrTimeout(p) ==
    /\ jobs[p].pc = "addr_change" /\ Cardinality(lateAddr) < MaxLateAddr
    /\ \E i \in jobs[p].todo :
         /\ NextOf(jobs[p], i)
         /\ lateAddr' = lateAddr \cup {[add |-> jobs[p].snap[i].enabled, at |-> AddrOf(p, i)]}
    /\ Return(p)
    /\ UNCHANGED <<table, recorded, file, live, addrs, late, meddled, stray, asked>>

LateAddr(c) ==
    /\ addrs' = IF c.add THEN addrs \cup {c.at} ELSE addrs \ {c.at}
    /\ lateAddr' = lateAddr \ {c}
    /\ stray' = (stray \cup (addrs' \ addrs)) \cap addrs'
    /\ UNCHANGED <<table, recorded, file, live, late, jobs, asked>>
    /\ Meddle(Job)

-----------------------------------------------------------------------------
Step(p) ==
    \/ Disable(p) \/ List(p) \/ RecordRendered(p) \/ AtomicWrite(p) \/ CheckFile(p)
    \/ RecordValidated(p) \/ NftRead(p) \/ NftCommit(p) \/ AddrList(p) \/ AddrChange(p)
    \/ Finish(p) \/ Health(p) \/ Complete(p) \/ DeleteRow(p)

Failure(p) == Fail(p) \/ FailRecorded(p) \/ NftTimeout(p) \/ AddrTimeout(p)

Request ==
    \E id \in Id :
        \/ \E request \in Requests, p \in Job : create_mapping(id, request, ConfigOf[p])
        \/ \E b \in BOOLEAN : enable_mapping(id, b)
        \/ \E a \in Allocations, b \in BOOLEAN, p \in Job : oci_allocate(id, a, b, ConfigOf[p])

Start(p) ==
    \/ \E opts \in Options : reconcile(p, opts)
    \/ \E id \in Id : delete_mapping(p, id)
    \/ \E g \in recorded : rollback(p, g)

Next ==
    \/ Request
    \/ \E p \in Job : Start(p) \/ Step(p) \/ Failure(p)
    \/ LateRead
    \/ \E t \in late \ {None} : LateCommit(t)
    \/ \E c \in lateAddr : LateAddr(c)

Spec == Init /\ [][Next]_vars

\* A running job goes on: tokio polls its task, and every wait in it has an
\* end (the statements of SQLite, the timeouts of nft, ip and health_check).
FairSpec == Spec /\ \A p \in Job : WF_vars(Step(p))

-----------------------------------------------------------------------------
(* Properties *)

TableView == INSTANCE MappingTable

Backed(t) == [status |-> "rendered", config |-> t] \in recorded

(***************************************************************************)
(* Whatever ruleset the kernel runs, the generations table has it, so that *)
(* a rollback can return to it: also after a job applied the file another  *)
(* job had just replaced, after crashes, and after an nft child that       *)
(* outlived its timeout committed what it once read.                       *)
(***************************************************************************)
LiveRecorded == live # None => Backed(live)

(***************************************************************************)
(* No packet has two destinations under the ruleset the kernel runs, even  *)
(* though the table changes while jobs render, and rulesets of different   *)
(* jobs and times replace each other in any order.                         *)
(***************************************************************************)
LiveUnambiguous == live # None => Unambiguous(live)

(***************************************************************************)
(* What jobs do to the mappings table (disable, health, delete) is what    *)
(* the atomic table allows: a health result written late does not bring    *)
(* back a deleted row.                                                     *)
(***************************************************************************)
ImplementsTable == TableView!Spec

(***************************************************************************)
(* A generation is recorded as active only when the kernel runs exactly    *)
(* it, and a delete takes its row away only under the ruleset without it,  *)
(* unless somebody else's step is to blame: another job's write between    *)
(* this one's and its nft -f, or another job's or a late child's commit    *)
(* after it.  Whatever overlaps otherwise, fails, times out or rolls back  *)
(* does not come between.                                                  *)
(***************************************************************************)
ActiveIsLive ==
    \A p \in Job :
        jobs[p].pc \in {"health", "delete_row"} => live = jobs[p].text \/ meddled[p].nft

(***************************************************************************)
(* Jobs that take turns, no rollback: every rule in the kernel belongs to  *)
(* a stored row, under the address it has or an address an allocation took *)
(* from it, because a delete removes a row only after a reconcile without  *)
(* it succeeded.                                                           *)
(***************************************************************************)
Versions(i) ==
    {rows[i]} \cup {[rows[i] EXCEPT !.edge_private_ip = ip] : ip \in {x \in Ip : <<i, x>> \in moved}}

NoOrphanRules ==
    live # None =>
        /\ \A e \in live.edge_to_target :
              \E i \in Stored(rows) : \E m \in Versions(i) : e = MapElement(m)
        /\ \A f \in live.prerouting :
              \E i \in Stored(rows), p \in Job :
                  \E m \in Versions(i) : f = ForwardRule(m, ConfigOf[p])

(***************************************************************************)
(* Jobs that take turns: every address the jobs left on the interface is   *)
(* the edge address of a stored row; or one that an allocation took from a *)
(* row while it was present, which stays for good, since a reconcile looks *)
(* at the addresses of rows only; or one that an ip child added after its  *)
(* job had timed out, and no job removed since.  Nothing else, no failure  *)
(* or delete, leaves one behind.                                           *)
(***************************************************************************)
AddressesAccounted ==
    \A a \in addrs :
        \/ \E i \in NftRows(rows) : rows[i].edge_private_ip = a[2]
        \/ \E i \in Id : <<i, a[2]>> \in moved
        \/ a \in stray

\* The nft rows that share the address of row i are all enabled, or none is.
Agreed(snap, i) ==
    \A j \in NftRows(snap) :
        snap[j].edge_private_ip = snap[i].edge_private_ip => snap[j].enabled = snap[i].enabled

(***************************************************************************)
(* A reconcile that comes to the end of its loop leaves an address present *)
(* exactly if its rows are enabled, where rows that share it agree         *)
(* (AddressesServed is about those that do not), whatever the jobs before  *)
(* it left behind, unless another job or a late ip child changed that very *)
(* address meanwhile.                                                      *)
(***************************************************************************)
AddressesFollowRows ==
    \A p \in Job : jobs[p].pc \in {"health", "delete_row"} =>
        \A i \in NftRows(jobs[p].snap) :
            (Agreed(jobs[p].snap, i) /\ AddrOf(p, i) \notin meddled[p].addrs)
            => (AddrOf(p, i) \in addrs) = jobs[p].snap[i].enabled

(***************************************************************************)
(* docs/deployment.md: port forwards share one private address.  A         *)
(* reconcile that succeeds leaves the address of every row it put in force *)
(* on the WAN interface.                                                   *)
(***************************************************************************)
AddressesServed ==
    \A p \in Job : jobs[p].pc = "health" =>
        \A i \in NftRows(jobs[p].snap) :
            jobs[p].snap[i].enabled => AddrOf(p, i) \in addrs

(***************************************************************************)
(* The test disabling_mapping_updates_status: a row that is not enabled    *)
(* has status disabled.                                                    *)
(***************************************************************************)
DisabledStatus ==
    \A i \in Stored(rows) : ~rows[i].enabled => rows[i].status = "disabled"

(***************************************************************************)
(* Every job ends: no loop over the rows runs forever, and no step waits   *)
(* for something another job holds.                                        *)
(***************************************************************************)
JobsEnd == \A p \in Job : jobs[p] # Idle ~> jobs[p] = Idle

-----------------------------------------------------------------------------
(* The inductive invariant of ReconcilerProofs. *)

Sound(t) == Backed(t) /\ Unambiguous(t)

(***************************************************************************)
(* What a job knows at each of its steps, whatever the others do: its text *)
(* is unambiguous once rendered and recorded once past record_rendered;    *)
(* from its check on there is a file to load; its loop only visits rows of *)
(* its snapshot.                                                           *)
(***************************************************************************)
JobSound(p) ==
    LET job == jobs[p] IN
    /\ job.pc \in {"disable", "delete_row"} => job.id \in Id
    /\ job.kind = "delete" => job.id \in Id
    /\ job.kind = "rollback" => job.pc \in {"write", "check", "nft_read", "nft_commit"}
    /\ job.pc = "record_rendered" => job.text \in RulesetType /\ Unambiguous(job.text)
    /\ job.pc \notin {"idle", "disable", "list", "record_rendered"} =>
         job.text \in RulesetType /\ Sound(job.text)
    /\ (job.pc \notin {"idle", "disable", "list"} /\ job.kind # "rollback") => job.snap \in Table
    /\ job.pc \in {"check", "record_validated", "nft_read"} => file # None
    /\ job.pc = "nft_commit" => job.loaded \in RulesetType
    /\ job.loaded # None => Sound(job.loaded)
    /\ job.pc \in {"disable", "list", "record_rendered", "write", "check", "record_validated"} =>
         job.todo = {}
    /\ job.todo # {} => job.snap \in Table /\ job.todo \subseteq Stored(job.snap)

IInv ==
    /\ TypeOK
    /\ \A g \in recorded : Sound(g.config)
    /\ file # None => Sound(file)
    /\ live # None => Sound(live)
    /\ None \in late => file # None
    /\ \A t \in late \ {None} : Sound(t)
    /\ \A p \in Job : JobSound(p)
=============================================================================
