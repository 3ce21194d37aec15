---------------------------- MODULE OciLifecycle ----------------------------
(***************************************************************************)
(* edge-oci and the operations that use it: the allocate and release of    *)
(* the agent and of the CLI, and the deletes of mappings with and without  *)
(* cleanup_mapping_oci.  An operation is a series of `oci` commands with   *)
(* a read of the mapping before and a write of it after them; operations   *)
(* of different processes interleave between the commands.                 *)
(*                                                                         *)
(* Of a mapping only the fields HasAllocation looks at are kept.  Whether  *)
(* update_mapping accepts the edited row is a choice: SqliteStore has the  *)
(* conditions.                                                             *)
(***************************************************************************)
EXTENDS Naturals, FiniteSets

CONSTANTS
    Task,      \* operations that may run at the same time
    Id,        \* mapping ids
    Pub,       \* OCIDs of public addresses OCI will hand out: bounds the allocations
    Priv,      \* OCIDs of private addresses
    Cleanup,   \* whether deletes clean up: the agent's do not, nor does
               \* `edge map delete --keep-oci-resources`
    MaxLate,   \* bound on the `oci` children that outlive their timeout
    None

ASSUME OcidAssumption == Pub \cap Priv = {} /\ None \notin Pub \cup Priv \cup Id

ASSUME CleanupAssumption == Cleanup \subseteq BOOLEAN /\ MaxLate \in Nat

VARIABLES
    rows,       \* the mappings
    deleted,    \* history: the ids of the mappings that were deleted
    cloud,      \* the OCI resources that exist
    tasks,      \* what each operation holds
    late,       \* commands whose child still runs after the timeout
    created,    \* history: the resources that were ever created
    condemned,  \* history: the resources a release or delete began to delete
    excused,    \* history: the resources lost by a command or process that failed,
                \* with no row to tell of them
    unread      \* history: the resources a row named when it was overwritten or
                \* deleted by an operation that had not read them there

vars == <<rows, deleted, cloud, tasks, late, created, condemned, excused, unread>>

Ocid == Pub \cup Priv

\* public_ip: one was given when the mapping was created, or allocated.
Row == [public_ip: BOOLEAN, pub: Pub \cup {None}, priv: Priv \cup {None}]

Named(m) == IF m = None THEN {} ELSE {m.pub, m.priv} \ {None}

TaskState ==
    [op: {"idle", "allocate", "release", "delete"},
     pc: {"idle", "create_private", "create_public", "update", "undo_public", "undo_private",
          "delete_public", "delete_private", "released", "cleanup_public", "cleanup_private",
          "delete_row"},
     id: Id \cup {None},
     pub: Pub \cup {None}, priv: Priv \cup {None},  \* the resources it works on
     failed: BOOLEAN]                               \* a cleanup command failed

ASSUME NoneAssumption == None \notin Row \cup TaskState

Idle == [op |-> "idle", pc |-> "idle", id |-> None, pub |-> None, priv |-> None, failed |-> FALSE]

LateCommand ==
    [op: {"create_private"}, on: {None}] \cup [op: {"create_public"}, on: Priv]
        \cup [op: {"delete"}, on: Ocid]

TypeOK ==
    /\ rows \in [Id -> Row \cup {None}] /\ deleted \subseteq Id
    /\ cloud \subseteq created /\ created \subseteq Ocid
    /\ tasks \in [Task -> TaskState]
    /\ late \subseteq LateCommand
    /\ condemned \subseteq Ocid /\ excused \subseteq Ocid /\ unread \subseteq Ocid

Init ==
    /\ rows = [i \in Id |-> None] /\ deleted = {}
    /\ cloud = {} /\ created = {} /\ condemned = {} /\ excused = {} /\ unread = {}
    /\ late = {}
    /\ tasks = [p \in Task |-> Idle]

Goto(p, pc) == tasks' = [tasks EXCEPT ![p].pc = pc]

Return(p) == tasks' = [tasks EXCEPT ![p] = Idle]

-----------------------------------------------------------------------------
(* The `oci` commands. *)

Command(op, on) == [op |-> op, on |-> on]

\* run_owned gives up after 12 seconds; the child goes on.
TimeOut(command) == late' = late \cup {command} /\ Cardinality(late') <= MaxLate

\* A new resource r exists.
Create(r) ==
    /\ r \notin created
    /\ created' = created \cup {r}
    /\ cloud' = cloud \cup {r}

\* A delete of r succeeds: OCI refuses what is not there.
Deletes(r) ==
    /\ r \in cloud
    /\ cloud' = cloud \ {r}
    /\ UNCHANGED late

\* It fails: OCI answers that there is no such resource ...
NotFound(r) == r \notin cloud /\ UNCHANGED <<cloud, late>>

\* ... or with another error, or not in time.
DeleteFails(r) ==
    /\ UNCHANGED late \/ TimeOut(Command("delete", r))
    /\ UNCHANGED cloud

\* The row with this id is written or deleted by operation p.
Overwrite(p, id) == unread' = unread \cup (Named(rows[id]) \ Named(tasks[p]))

\* From now on nothing but OCI itself knows of r, if it exists.
Lose(r) == excused' = excused \cup ({r} \cap cloud')

-----------------------------------------------------------------------------
(* How an operation begins. *)

create_mapping(id, b) ==
    /\ rows[id] = None /\ id \notin deleted
    /\ rows' = [rows EXCEPT ![id] = [public_ip |-> b, pub |-> None, priv |-> None]]
    /\ UNCHANGED <<deleted, cloud, tasks, late, created, condemned, excused, unread>>

Begin(p, task) ==
    /\ tasks[p] = Idle
    /\ tasks' = [tasks EXCEPT ![p] = task]
    /\ UNCHANGED <<rows, deleted, cloud, late, created, condemned, excused, unread>>

\* The mapping must be free of allocation fields, the VNIC checked.
oci_allocate(p, id) ==
    /\ rows[id] # None /\ ~rows[id].public_ip /\ Named(rows[id]) = {}
    /\ Begin(p, [Idle EXCEPT !.op = "allocate", !.pc = "create_private", !.id = id])

\* A release of a mapping, or of the resources by their ids alone (id = None):
\* an operator takes the ids from a mapping.
oci_release(p, id, of) ==
    /\ id \in {of, None}
    /\ rows[of] # None /\ Named(rows[of]) # {}
    /\ Begin(p, [Idle EXCEPT !.op = "release", !.pc = "delete_public", !.id = id,
                             !.pub = rows[of].pub, !.priv = rows[of].priv])

\* The row is read first, disabled and reconciled; with cleanup its OCIDs are
\* those read, without nobody looks at them.
delete_mapping(p, id, cleanup) ==
    /\ rows[id] # None
    /\ Begin(p, IF cleanup
                THEN [Idle EXCEPT !.op = "delete", !.id = id, !.pc = "cleanup_public",
                                  !.pub = rows[id].pub, !.priv = rows[id].priv]
                ELSE [Idle EXCEPT !.op = "delete", !.id = id, !.pc = "delete_row"])

-----------------------------------------------------------------------------
(* allocate_forwarding_ip, then update_mapping. *)

create_private_ip(p) ==
    /\ tasks[p].pc = "create_private"
    /\ \/ \E r \in Priv : /\ Create(r)
                          /\ tasks' = [tasks EXCEPT ![p].pc = "create_public", ![p].priv = r]
                          /\ UNCHANGED late
       \/ /\ UNCHANGED late \/ TimeOut(Command("create_private", None))
          /\ Return(p)
          /\ UNCHANGED <<cloud, created>>
    /\ UNCHANGED <<rows, deleted, condemned, excused, unread>>

\* Mutant: `?` on the second command, no undo of the first.
create_public_no_undo(p) ==
    /\ tasks[p].pc = "create_public"
    /\ \/ \E r \in Pub : /\ Create(r)
                         /\ tasks' = [tasks EXCEPT ![p].pc = "update", ![p].pub = r]
                         /\ UNCHANGED late
       \/ Return(p) /\ UNCHANGED <<cloud, created, late>>
    /\ UNCHANGED <<rows, deleted, condemned, excused, unread>>

create_reserved_public_ip(p) ==
    /\ tasks[p].pc = "create_public"
    /\ \/ \E r \in Pub : /\ Create(r)
                         /\ tasks' = [tasks EXCEPT ![p].pc = "update", ![p].pub = r]
                         /\ UNCHANGED late
       \/ /\ UNCHANGED late \/ TimeOut(Command("create_public", tasks[p].priv))
          /\ Goto(p, "undo_private")
          /\ UNCHANGED <<cloud, created>>
    /\ UNCHANGED <<rows, deleted, condemned, excused, unread>>

\* Mutant: the two OCIDs of the allocation swapped.
update_mapping_swapped(p) ==
    /\ tasks[p].pc = "update"
    /\ \/ /\ rows[tasks[p].id] # None
          /\ rows' = [rows EXCEPT ![tasks[p].id] = [public_ip |-> TRUE, pub |-> tasks[p].priv,
                                                    priv |-> tasks[p].pub]]
          /\ Overwrite(p, tasks[p].id)
          /\ Return(p)
       \/ UNCHANGED <<rows, unread>> /\ Goto(p, "undo_public")
    /\ UNCHANGED <<deleted, cloud, late, created, condemned, excused>>

\* Writes the copy of the row with the allocation, or fails: validation, a
\* duplicate, a database error, or no row any more.
update_mapping(p) ==
    /\ tasks[p].pc = "update"
    /\ \/ /\ rows[tasks[p].id] # None
          /\ rows' = [rows EXCEPT ![tasks[p].id] = [public_ip |-> TRUE, pub |-> tasks[p].pub,
                                                    priv |-> tasks[p].priv]]
          /\ Overwrite(p, tasks[p].id)
          /\ Return(p)
       \/ UNCHANGED <<rows, unread>> /\ Goto(p, "undo_public")
    /\ UNCHANGED <<deleted, cloud, late, created, condemned, excused>>

\* Mutant: the undo deletes what the row names, not what it allocated.
UndoPublicOfRow(p) ==
    /\ tasks[p].pc = "undo_public"
    /\ \E r \in Named(rows[tasks[p].id]) \cap Pub : Deletes(r)
    /\ Lose(tasks[p].pub)
    /\ Goto(p, "undo_private")
    /\ UNCHANGED <<rows, deleted, created, condemned, unread>>

\* The undo goes on whether or not its deletes succeed.
UndoPublic(p) ==
    /\ tasks[p].pc = "undo_public"
    /\ Deletes(tasks[p].pub) \/ DeleteFails(tasks[p].pub)
    /\ Lose(tasks[p].pub)
    /\ Goto(p, "undo_private")
    /\ UNCHANGED <<rows, deleted, created, condemned, unread>>

UndoPrivate(p) ==
    /\ tasks[p].pc = "undo_private"
    /\ Deletes(tasks[p].priv) \/ DeleteFails(tasks[p].priv)
    /\ Lose(tasks[p].priv)
    /\ Return(p)
    /\ UNCHANGED <<rows, deleted, created, condemned, unread>>

-----------------------------------------------------------------------------
(* oci_release: the first command that fails ends it. *)

ReleasePublic(p) ==
    /\ tasks[p].pc = "delete_public"
    /\ LET r == tasks[p].pub IN
       \/ /\ r = None /\ Goto(p, "delete_private")
          /\ UNCHANGED <<cloud, late>>
       \/ r # None /\ Deletes(r) /\ Goto(p, "delete_private")
       \/ r # None /\ (NotFound(r) \/ DeleteFails(r)) /\ Return(p)
    /\ condemned' = condemned \cup ({tasks[p].pub} \ {None})
    /\ UNCHANGED <<rows, deleted, created, excused, unread>>

ReleasePrivate(p) ==
    /\ tasks[p].pc = "delete_private"
    /\ LET r == tasks[p].priv
           Done == IF tasks[p].id = None THEN Return(p) ELSE Goto(p, "released") IN
       \/ r = None /\ Done /\ UNCHANGED <<cloud, late>>
       \/ r # None /\ Deletes(r) /\ Done
       \/ r # None /\ (NotFound(r) \/ DeleteFails(r)) /\ Return(p)
    /\ condemned' = condemned \cup ({tasks[p].priv} \ {None})
    /\ UNCHANGED <<rows, deleted, created, excused, unread>>

\* Writes the copy of the row without the allocation.
UpdateReleased(p) ==
    /\ tasks[p].pc = "released"
    /\ \/ /\ rows[tasks[p].id] # None
          /\ rows' = [rows EXCEPT ![tasks[p].id] =
                        [public_ip |-> FALSE, pub |-> None, priv |-> None]]
          /\ Overwrite(p, tasks[p].id)
       \/ UNCHANGED <<rows, unread>>
    /\ Return(p)
    /\ UNCHANGED <<deleted, cloud, late, created, condemned, excused>>

-----------------------------------------------------------------------------
(* cleanup_mapping_oci, then delete_mapping of the store. *)

\* Mutant: "not found" is a failure like any other.
CleanupStrict(p, r, pc) ==
    \/ r = None /\ Goto(p, pc) /\ UNCHANGED <<cloud, late, excused>>
    \/ r # None /\ Deletes(r) /\ Goto(p, pc) /\ UNCHANGED excused
    \/ /\ r # None /\ (NotFound(r) \/ DeleteFails(r))
       /\ tasks' = [tasks EXCEPT ![p].pc = pc, ![p].failed = TRUE]
       /\ UNCHANGED excused

\* A resource that is not found is as good as deleted.  is_oci_not_found
\* searches the text of the error, so another error may pass for "not found".
CleanupOutcome(p, r, pc) ==
    \/ (r = None \/ r \notin cloud) /\ Goto(p, pc) /\ UNCHANGED <<cloud, late, excused>>
    \/ r # None /\ Deletes(r) /\ Goto(p, pc) /\ UNCHANGED excused
    \/ /\ r # None /\ DeleteFails(r)
       /\ \/ tasks' = [tasks EXCEPT ![p].pc = pc, ![p].failed = TRUE] /\ UNCHANGED excused
          \/ Goto(p, pc) /\ Lose(r)

CleanupPublic(p) ==
    /\ tasks[p].pc = "cleanup_public"
    /\ CleanupOutcome(p, tasks[p].pub, "cleanup_private")
    /\ condemned' = condemned \cup ({tasks[p].pub} \ {None})
    /\ UNCHANGED <<rows, deleted, created, unread>>

CleanupPrivate(p) ==
    /\ tasks[p].pc = "cleanup_private"
    /\ CleanupOutcome(p, tasks[p].priv, "delete_row")
    /\ condemned' = condemned \cup ({tasks[p].priv} \ {None})
    /\ UNCHANGED <<rows, deleted, created, unread>>

\* Mutant of DeleteRow: a failed cleanup does not keep the row.
DeleteRowAnyway(p) ==
    /\ tasks[p].pc = "delete_row"
    /\ rows' = [rows EXCEPT ![tasks[p].id] = None]
    /\ deleted' = deleted \cup {tasks[p].id}
    /\ Overwrite(p, tasks[p].id)
    /\ Return(p)
    /\ UNCHANGED <<cloud, late, created, condemned, excused>>

\* Both commands were tried; any failure keeps the row.
DeleteRow(p) ==
    /\ tasks[p].pc = "delete_row"
    /\ IF tasks[p].failed
       THEN UNCHANGED <<rows, deleted, unread>>
       ELSE /\ rows' = [rows EXCEPT ![tasks[p].id] = None]
            /\ deleted' = deleted \cup {tasks[p].id}
            /\ Overwrite(p, tasks[p].id)
    /\ Return(p)
    /\ UNCHANGED <<cloud, late, created, condemned, excused>>

-----------------------------------------------------------------------------
\* A process stops, or a statement fails where that ends the operation.
Crash(p) ==
    /\ tasks[p] # Idle
    /\ excused' = IF tasks[p].op = "allocate"
                  THEN excused \cup (Named(tasks[p]) \cap cloud) ELSE excused
    /\ Return(p)
    /\ UNCHANGED <<rows, deleted, cloud, late, created, condemned, unread>>

\* A child that outlived its timeout carries out its command; nobody learns
\* the id of what it created.
LateEffect(command) ==
    /\ \/ /\ command.op = "create_private"
          /\ \E r \in Priv : Create(r) /\ excused' = excused \cup {r}
       \/ /\ command.op = "create_public" /\ command.on \in cloud
          /\ \E r \in Pub : Create(r) /\ excused' = excused \cup {r}
       \/ /\ command.op = "delete"
          /\ cloud' = cloud \ {command.on}
          /\ UNCHANGED <<created, excused>>
    /\ late' = late \ {command}
    /\ UNCHANGED <<rows, deleted, tasks, condemned, unread>>

LateFailure(command) ==
    /\ late' = late \ {command}
    /\ UNCHANGED <<rows, deleted, cloud, tasks, created, condemned, excused, unread>>

Start(p) ==
    \E id \in Id :
        \/ oci_allocate(p, id)
        \/ oci_release(p, id, id)
        \/ oci_release(p, None, id)
        \/ \E cleanup \in Cleanup : delete_mapping(p, id, cleanup)

Step(p) ==
    \/ create_private_ip(p) \/ create_reserved_public_ip(p) \/ update_mapping(p)
    \/ UndoPublic(p) \/ UndoPrivate(p)
    \/ ReleasePublic(p) \/ ReleasePrivate(p) \/ UpdateReleased(p)
    \/ CleanupPublic(p) \/ CleanupPrivate(p) \/ DeleteRow(p)

Next ==
    \/ \E id \in Id, b \in BOOLEAN : create_mapping(id, b)
    \/ \E p \in Task : Start(p) \/ Step(p) \/ Crash(p)
    \/ \E command \in late : LateEffect(command) \/ LateFailure(command)

Spec == Init /\ [][Next]_vars

(***************************************************************************)
(* For what must happen in the end: operations that run go on, an operator *)
(* repeats the delete of a mapping until it is gone, and of the commands   *)
(* that are tried again and again not all fail.                            *)
(***************************************************************************)
Succeeds(p, A) == A /\ ~tasks[p].failed /\ ~tasks'[p].failed

Fairness ==
    \A p \in Task :
        /\ WF_vars(Step(p))
        /\ \A id \in Id : SF_vars(delete_mapping(p, id, TRUE))
        /\ SF_vars(Succeeds(p, CleanupPublic(p)))
        /\ SF_vars(Succeeds(p, CleanupPrivate(p)))
        /\ SF_vars(Succeeds(p, DeleteRow(p)))

FairSpec == Spec /\ Fairness

-----------------------------------------------------------------------------
(* Properties *)

(***************************************************************************)
(* A mapping never names an OCI resource that does not exist, unless a     *)
(* release or delete set out to delete it: whatever two allocations of one *)
(* mapping, their undo steps, late children and deletes do to each other,  *)
(* no undo deletes what a row was given.                                   *)
(***************************************************************************)
NamedExists == \A id \in Id : Named(rows[id]) \ condemned \subseteq cloud

(***************************************************************************)
(* Operations that take turns lose no resource unnoticed: what exists in   *)
(* OCI is named by a mapping or held by the operation under way, unless a  *)
(* delete command on it failed with no row to tell of it, the process      *)
(* stopped, or a child created it after its timeout.                       *)
(***************************************************************************)
NoSilentLeak ==
    cloud \subseteq (UNION {Named(rows[id]) : id \in Id})
                   \cup (UNION {Named(tasks[p]) : p \in Task}) \cup excused

(***************************************************************************)
(* Operations that overlap lose only one thing more: what a row named when *)
(* another operation wrote or deleted it that had not read it there.  A    *)
(* second allocation replaces the OCIDs of the first, a release or delete  *)
(* that began before an allocation removes them with the row, a delete     *)
(* without cleanup forgets them.  In every other order undo and cleanup    *)
(* leave a row that names what is left.                                    *)
(***************************************************************************)
LeaksOnlyUnread ==
    cloud \subseteq (UNION {Named(rows[id]) : id \in Id})
                   \cup (UNION {Named(tasks[p]) : p \in Task}) \cup excused \cup unread

(***************************************************************************)
(* A delete with cleanup that is repeated gets rid of the mapping, though  *)
(* its commands fail, time out or are done half: what an earlier attempt   *)
(* or a release deleted already does not stop it.                          *)
(***************************************************************************)
DeleteConverges == \A id \in Id : rows[id] # None ~> rows[id] = None

-----------------------------------------------------------------------------
(* The inductive invariant of OciLifecycleProofs. *)

InRow(r) == \E id \in Id : r \in Named(rows[id])

\* No later step can find r in the cloud without a trace.
Gone(r) == r \notin cloud \/ r \in excused

\* What an operation has done at each of its steps.
Progress(p) ==
    LET t == tasks[p] IN
    /\ t.op \in {"allocate", "delete"} => t.id \in Id
    /\ t.pc = "idle" => t.op = "idle" /\ Named(t) = {}
    /\ t.pc \in {"create_private", "create_public", "update", "undo_public", "undo_private"} =>
         t.op = "allocate"
    /\ t.pc \in {"delete_public", "delete_private", "released"} => t.op = "release"
    /\ t.pc \in {"cleanup_public", "cleanup_private", "delete_row"} => t.op = "delete"
    /\ t.pc = "create_private" => Named(t) = {}
    /\ t.pc = "create_public" => t.pub = None
    /\ t.pc \in {"create_public", "update", "undo_public", "undo_private"} => t.priv # None
    /\ t.pc \in {"update", "undo_public"} => t.pub # None
    /\ t.pc \in {"undo_private", "delete_private", "released"} => Gone(t.pub)
    /\ t.pc = "released" => t.id \in Id /\ Gone(t.priv)
    /\ t.pc \in {"cleanup_private", "delete_row"} /\ ~t.failed => Gone(t.pub)
    /\ t.pc = "delete_row" /\ ~t.failed => Gone(t.priv)

\* What an allocation holds is in no row; until it undoes it, it exists, no other
\* operation holds it and none has set out to delete it.
Exclusive(p) ==
    /\ tasks[p].op = "allocate" => \A r \in Named(tasks[p]) : ~InRow(r)
    /\ tasks[p].pc \in {"create_public", "update"} =>
         /\ Named(tasks[p]) \subseteq cloud \ condemned
         /\ \A q \in Task \ {p} : Named(tasks[q]) \cap Named(tasks[p]) = {}

\* A delete of r, whenever it happens, takes nothing a row counts on or will
\* count on.
Doomed(r) ==
    \/ r \in condemned
    \/ /\ ~InRow(r)
       /\ \A p \in Task :
            tasks[p].pc \in {"create_public", "update"} => r \notin Named(tasks[p])

\* Who knows of a resource that exists: a row, an allocation, or a history variable.
Known(r) ==
    \/ InRow(r) \/ r \in excused \cup unread
    \/ \E p \in Task : tasks[p].op = "allocate" /\ r \in Named(tasks[p])

IInv ==
    /\ TypeOK /\ NamedExists
    /\ condemned \subseteq created
    /\ \A r \in Ocid : InRow(r) => r \in created
    /\ \A p \in Task : Named(tasks[p]) \subseteq created /\ Progress(p) /\ Exclusive(p)
    /\ \A command \in late :
         command.op = "delete" => command.on \in created /\ Doomed(command.on)
    /\ \A r \in cloud : Known(r)

\* With one operation at a time, none writes over what it has not read.
ReadFirst ==
    /\ unread = {}
    /\ \A p \in Task : tasks[p].id # None => Named(rows[tasks[p].id]) \subseteq Named(tasks[p])
=============================================================================
