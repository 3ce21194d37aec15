------------------------- MODULE OciLifecycleProofs -------------------------
(***************************************************************************)
(* Proofs about OciLifecycle, for any number of operations, mappings and   *)
(* OCIDs: what rows name exists, and what exists is known to someone.      *)
(*                                                                         *)
(* The actions fall into three kinds, each with a lemma: those that change *)
(* what an operation knows and take resources away (CommandStep), those    *)
(* that create a resource (CreateStep), and those that write a row         *)
(* (RowStep).                                                              *)
(***************************************************************************)
EXTENDS OciLifecycle, TLAPS

-----------------------------------------------------------------------------
(* Operators *)

\* What a row or an operation names are the OCIDs in its two fields.
LEMMA NamedFields ==
    /\ \A m \in Row \cup TaskState : /\ Named(m) = {m.pub, m.priv} \ {None}
                                     /\ Named(m) \subseteq Ocid
    /\ Named(None) = {}
  BY NoneAssumption DEF Named, Row, TaskState, Ocid

\* An operation that has returned names nothing.
LEMMA IdleTask ==
    /\ Idle \in TaskState /\ Named(Idle) = {}
    /\ Idle.pc = "idle" /\ Idle.op = "idle" /\ Idle.id = None
<1>1. Idle \in TaskState /\ Idle.pub = None /\ Idle.priv = None
  BY DEF Idle, TaskState
<1>2. Idle.pc = "idle" /\ Idle.op = "idle" /\ Idle.id = None
  BY DEF Idle
<1> QED
  BY <1>1, <1>2, NamedFields

\* The specification starts in it.
LEMMA IInvInit == Init => IInv
<1> SUFFICES ASSUME Init PROVE IInv
  OBVIOUS
<1>1. /\ \A id \in Id : rows[id] = None
      /\ \A p \in Task : tasks[p] = Idle
      /\ late = {} /\ cloud = {}
  BY DEF Init
<1>2. TypeOK
  BY IdleTask DEF Init, TypeOK
<1>3. \A r : ~InRow(r)
  BY <1>1, NamedFields DEF InRow
<1>4. NamedExists
  BY <1>1, NamedFields DEF NamedExists
<1>5. \A p \in Task : Named(tasks[p]) \subseteq created /\ Progress(p) /\ Exclusive(p)
  BY <1>1, IdleTask DEF Progress, Exclusive
<1> QED
  BY <1>1, <1>2, <1>3, <1>4, <1>5 DEF Init, IInv

-----------------------------------------------------------------------------
(* The three kinds of steps *)

\* An operation goes on to t.  What it takes away, now or by a child that is
\* late, it has named before: as something condemned, or as an allocation that
\* undoes its work.
LEMMA CommandStep ==
    ASSUME IInv, NEW p \in Task, NEW t \in TaskState,
           tasks' = [tasks EXCEPT ![p] = t],
           UNCHANGED <<rows, deleted, created, unread>>,
           Progress(p)',
           t.pc \notin {"create_public", "update"},
           \A r \in Named(t) :
              \/ r \in Named(tasks[p]) /\ (t.op = "allocate" => tasks[p].op = "allocate")
              \/ InRow(r) /\ t.op # "allocate",
           tasks[p].op = "allocate" =>
              \A r \in Named(tasks[p]) : (t.op = "allocate" /\ r \in Named(t)) \/ Gone(r)',
           condemned \subseteq condemned', condemned' \subseteq condemned \cup Named(tasks[p]),
           excused \subseteq excused', excused' \subseteq Ocid,
           cloud' \subseteq cloud,
           late' \subseteq LateCommand,
           \A r \in Ocid : (r \in cloud /\ r \notin cloud')
                              \/ (Command("delete", r) \in late' /\ Command("delete", r) \notin late)
              => /\ r \in Named(tasks[p])
                 /\ r \in condemned' \/ tasks[p].op = "allocate"
    PROVE  IInv'
<1>1. TypeOK /\ tasks'[p] = t /\ \A q \in Task \ {p} : tasks'[q] = tasks[q]
  BY DEF IInv, TypeOK
<1>2. Named(tasks[p]) \subseteq created /\ Named(tasks[p]) \subseteq Ocid
  BY <1>1, NamedFields DEF IInv, TypeOK
<1>3. TypeOK'
  BY <1>1, <1>2 DEF TypeOK
<1>4. \A r : InRow(r)' <=> InRow(r)
  BY DEF InRow
<1>5. \A q \in Task \ {p} : tasks[q].pc \in {"create_public", "update"} =>
         Named(tasks[q]) \cap Named(tasks[p]) = {}
  BY DEF IInv, Exclusive
<1>6. \A r \in Named(tasks[p]) :
         r \in condemned' \/ tasks[p].op = "allocate" => Doomed(r)'
  <2>1. tasks[p].op = "allocate" => \A r \in Named(tasks[p]) : ~InRow(r)
    BY DEF IInv, Exclusive
  <2> QED
    BY <1>1, <1>4, <1>5, <2>1 DEF Doomed
<1>7. \A r \in cloud : r \notin cloud' => r \in Named(tasks[p]) /\ Doomed(r)'
  BY <1>1, <1>6 DEF TypeOK
<1>8. NamedExists'
  BY <1>4, <1>7 DEF IInv, NamedExists, Doomed, InRow
<1>9. \A q \in Task : Named(tasks'[q]) \subseteq created'
  BY <1>1, <1>2, NamedFields DEF IInv
<1>10. \A q \in Task \ {p} : Progress(q)'
  <2>1. \A r : Gone(r) => Gone(r)'
    BY DEF Gone
  <2> QED
    BY <1>1, <2>1 DEF IInv, Progress
<1>11. \A q \in Task : Exclusive(q)'
  <2>1. Exclusive(p)'
    BY <1>1, <1>4 DEF IInv, Exclusive
  <2> SUFFICES ASSUME NEW q \in Task \ {p} PROVE Exclusive(q)'
    BY <2>1
  <2>2. tasks[q].op = "allocate" => \A r \in Named(tasks[q]) : ~InRow(r)
    BY DEF IInv, Exclusive
  <2>3. ASSUME tasks[q].pc \in {"create_public", "update"}
        PROVE  /\ Named(tasks[q]) \subseteq cloud' \ condemned'
               /\ \A o \in Task \ {q} : Named(tasks'[o]) \cap Named(tasks[q]) = {}
    <3>1. tasks[q].op = "allocate"
      BY <2>3 DEF IInv, Progress
    <3>2. Named(tasks[q]) \subseteq cloud \ condemned
      BY <2>3 DEF IInv, Exclusive
    <3>3. \A o \in Task \ {q} : Named(tasks[o]) \cap Named(tasks[q]) = {}
      BY <2>3 DEF IInv, Exclusive
    <3>4. Named(t) \cap Named(tasks[q]) = {}
      BY <2>2, <3>1, <3>3
    <3> QED
      BY <1>1, <1>7, <3>2, <3>3, <3>4
  <2> QED
    BY <1>1, <1>4, <2>2, <2>3 DEF Exclusive
<1>12. \A command \in late' :
         command.op = "delete" => command.on \in created' /\ Doomed(command.on)'
  <2> SUFFICES ASSUME NEW command \in late', command.op = "delete"
               PROVE  command.on \in created /\ Doomed(command.on)'
    OBVIOUS
  <2>1. command.on \in Ocid /\ command = Command("delete", command.on)
    BY DEF LateCommand, Command, Ocid
  <2>2. CASE command \in late
    <3>1. command.on \in created /\ Doomed(command.on)
      BY <2>2 DEF IInv
    <3> QED
      BY <1>1, <1>4, <3>1 DEF Doomed
  <2>3. CASE command \notin late
    BY <1>2, <1>6, <2>1, <2>3
  <2> QED
    BY <2>2, <2>3
<1>13. \A r \in cloud' : Known(r)'
  <2> SUFFICES ASSUME NEW r \in cloud' PROVE Known(r)'
    OBVIOUS
  <2>1. Known(r)
    BY DEF IInv
  <2>2. ASSUME NEW q \in Task, tasks[q].op = "allocate", r \in Named(tasks[q])
        PROVE  Known(r)'
    <3>1. CASE q = p
      BY <1>1, <2>2, <3>1 DEF Known, Gone
    <3>2. CASE q # p
      BY <1>1, <2>2, <3>2 DEF Known
    <3> QED
      BY <3>1, <3>2
  <2> QED
    BY <1>4, <2>1, <2>2 DEF Known
<1> QED
  BY <1>3, <1>4, <1>8, <1>9, <1>10, <1>11, <1>12, <1>13 DEF IInv

\* An allocation gets the new resource r.
LEMMA CreateStep ==
    ASSUME IInv, NEW p \in Task, NEW t \in TaskState, NEW r \in Ocid, Create(r),
           tasks' = [tasks EXCEPT ![p] = t],
           UNCHANGED <<rows, deleted, late, condemned, excused, unread>>,
           Progress(p)',
           tasks[p].pc \in {"create_private", "create_public"},
           t.pc \in {"create_public", "update"},
           Named(t) = Named(tasks[p]) \cup {r}
    PROVE  IInv'
<1>1. TypeOK /\ tasks'[p] = t /\ \A q \in Task \ {p} : tasks'[q] = tasks[q]
  BY DEF IInv, TypeOK
<1>2. r \notin created /\ created' = created \cup {r} /\ cloud' = cloud \cup {r}
  BY DEF Create
<1>3. TypeOK'
  BY <1>1, <1>2 DEF TypeOK
<1>4. (\A x : InRow(x)' <=> InRow(x)) /\ ~InRow(r)
  BY <1>2 DEF InRow, IInv
<1>5. \A q \in Task : Named(tasks[q]) \subseteq created /\ r \notin Named(tasks[q])
  BY <1>2 DEF IInv
<1>6. tasks[p].op = "allocate" /\ t.op = "allocate"
  BY <1>1 DEF IInv, Progress
<1>7. /\ Named(tasks[p]) \subseteq cloud \ condemned
      /\ \A x \in Named(tasks[p]) : ~InRow(x)
      /\ \A q \in Task \ {p} : Named(tasks[q]) \cap Named(tasks[p]) = {}
  <2>1. CASE tasks[p].pc = "create_private"
    BY <2>1 DEF IInv, Progress
  <2>2. CASE tasks[p].pc = "create_public"
    BY <1>6, <2>2 DEF IInv, Exclusive
  <2> QED
    BY <2>1, <2>2
<1>8. NamedExists' /\ condemned' \subseteq created'
  BY <1>2 DEF IInv, NamedExists
<1>9. \A q \in Task : Named(tasks'[q]) \subseteq created'
  BY <1>1, <1>2, <1>5
<1>10. \A q \in Task \ {p} : Progress(q)'
  <2> SUFFICES ASSUME NEW q \in Task \ {p} PROVE Progress(q)'
    OBVIOUS
  <2>1. tasks[q] \in TaskState /\ tasks[q].pub # r /\ tasks[q].priv # r
    BY <1>1, <1>5, NamedFields, OcidAssumption DEF TypeOK, Ocid
  <2>2. /\ Gone(tasks[q].pub) => Gone(tasks[q].pub)'
        /\ Gone(tasks[q].priv) => Gone(tasks[q].priv)'
    BY <1>1, <1>2, <2>1 DEF Gone
  <2> QED
    BY <1>1, <2>2 DEF IInv, Progress
<1>11. \A q \in Task : Exclusive(q)'
  <2>1. r \notin condemned
    BY <1>2 DEF IInv
  <2>2. Exclusive(p)'
    BY <1>1, <1>2, <1>4, <1>5, <1>7, <2>1 DEF Exclusive
  <2>3. ASSUME NEW q \in Task \ {p} PROVE Exclusive(q)'
    <3>1. Exclusive(q)
      BY DEF IInv
    <3> QED
      BY <1>1, <1>2, <1>4, <1>5, <3>1 DEF Exclusive
  <2> QED
    BY <2>2, <2>3
<1>12. \A command \in late' :
         command.op = "delete" => command.on \in created' /\ Doomed(command.on)'
  <2> SUFFICES ASSUME NEW command \in late, command.op = "delete"
               PROVE  command.on \in created' /\ Doomed(command.on)'
    OBVIOUS
  <2>1. command.on \in created /\ Doomed(command.on)
    BY DEF IInv
  <2>2. CASE command.on \in condemned
    BY <1>2, <2>1, <2>2 DEF Doomed
  <2>3. CASE command.on \notin condemned
    <3>1. command.on \notin Named(tasks[p])
      <4>1. CASE tasks[p].pc = "create_private"
        BY <4>1 DEF IInv, Progress
      <4>2. CASE tasks[p].pc = "create_public"
        BY <2>1, <2>3, <4>2 DEF Doomed
      <4> QED
        BY <4>1, <4>2
    <3> QED
      BY <1>1, <1>2, <1>4, <2>1, <2>3, <3>1 DEF Doomed
  <2> QED
    BY <2>2, <2>3
<1>13. \A x \in cloud' : Known(x)'
  <2>1. Known(r)'
    BY <1>1, <1>6 DEF Known
  <2>2. ASSUME NEW x \in cloud PROVE Known(x)'
    <3>1. Known(x)
      BY DEF IInv
    <3> QED
      BY <1>1, <1>4, <1>6, <3>1 DEF Known
  <2> QED
    BY <1>2, <2>1, <2>2
<1> QED
  BY <1>2, <1>3, <1>4, <1>8, <1>9, <1>10, <1>11, <1>12, <1>13 DEF IInv

\* Operation p writes m to the row of id, or deletes it, and returns.  m names
\* what p has allocated, or nothing when p has released what it names.
LEMMA RowStep ==
    ASSUME IInv, NEW p \in Task, NEW id \in Id, NEW m \in Row \cup {None},
           rows' = [rows EXCEPT ![id] = m], deleted' \subseteq Id,
           Overwrite(p, id), Return(p),
           UNCHANGED <<cloud, late, created, condemned, excused>>,
           \/ tasks[p].pc = "update" /\ Named(m) = Named(tasks[p])
           \/ /\ Named(m) = {} /\ tasks[p].op # "allocate"
              /\ \A r \in Named(tasks[p]) : Gone(r)
    PROVE  IInv'
<1>1. /\ TypeOK /\ tasks' = [tasks EXCEPT ![p] = Idle] /\ tasks'[p] = Idle
      /\ \A q \in Task \ {p} : tasks'[q] = tasks[q]
      /\ rows'[id] = m /\ \A i \in Id \ {id} : rows'[i] = rows[i]
  BY DEF IInv, TypeOK, Return
<1>2. /\ Named(rows[id]) \subseteq Ocid
      /\ unread' = unread \cup (Named(rows[id]) \ Named(tasks[p]))
      /\ Named(m) \subseteq Named(tasks[p]) /\ Named(tasks[p]) \subseteq created
  BY <1>1, NamedFields DEF TypeOK, Overwrite, IInv
<1>3. TypeOK'
  BY <1>1, <1>2, IdleTask DEF TypeOK
<1>4. \A r : InRow(r)' => InRow(r) \/ r \in Named(m)
  BY <1>1 DEF InRow
<1>5. \A r : InRow(r) => InRow(r)' \/ r \in Named(rows[id])
  BY <1>1 DEF InRow
<1>6. tasks[p].pc = "update" =>
        /\ tasks[p].op = "allocate"
        /\ Named(tasks[p]) \subseteq cloud \ condemned
        /\ \A q \in Task \ {p} : Named(tasks[q]) \cap Named(tasks[p]) = {}
  BY DEF IInv, Exclusive, Progress
<1>7. \A r \in Named(m) : /\ r \in cloud /\ r \notin condemned
                          /\ \A q \in Task \ {p} : r \notin Named(tasks[q])
  BY <1>6
<1>8. NamedExists'
  <2> SUFFICES ASSUME NEW i \in Id PROVE Named(rows'[i]) \ condemned \subseteq cloud
    BY DEF NamedExists
  <2>1. CASE i = id
    BY <1>1, <1>7, <2>1
  <2>2. CASE i # id
    BY <1>1, <2>2 DEF IInv, NamedExists
  <2> QED
    BY <2>1, <2>2
<1>9. /\ \A q \in Task : Named(tasks'[q]) \subseteq created
      /\ \A r \in Ocid : InRow(r)' => r \in created
  BY <1>1, <1>2, <1>4, IdleTask DEF IInv
<1>10. \A q \in Task : Progress(q)'
  <2>1. \A r : Gone(r)' <=> Gone(r)
    BY DEF Gone
  <2>2. Progress(p)'
    BY <1>1, IdleTask DEF Progress
  <2>3. \A q \in Task \ {p} : Progress(q)'
    BY <1>1, <2>1 DEF IInv, Progress
  <2> QED
    BY <2>2, <2>3
<1>11. \A q \in Task : Exclusive(q)'
  <2>1. Exclusive(p)'
    BY <1>1, IdleTask DEF Exclusive
  <2>2. ASSUME NEW q \in Task \ {p} PROVE Exclusive(q)'
    <3>1. Exclusive(q)
      BY DEF IInv
    <3>2. \A r \in Named(tasks[q]) : InRow(r)' => InRow(r)
      BY <1>4, <1>7
    <3> QED
      BY <1>1, <3>1, <3>2, IdleTask DEF Exclusive
  <2> QED
    BY <2>1, <2>2
<1>12. \A command \in late' :
         command.op = "delete" => command.on \in created' /\ Doomed(command.on)'
  <2> SUFFICES ASSUME NEW command \in late, command.op = "delete"
               PROVE  command.on \in created /\ Doomed(command.on)'
    OBVIOUS
  <2>1. command.on \in created /\ Doomed(command.on)
    BY DEF IInv
  <2>2. command.on \in Named(m) => command.on \in condemned
    BY <2>1 DEF Doomed
  <2> QED
    BY <1>1, <1>4, <2>1, <2>2, IdleTask DEF Doomed
<1>13. \A r \in cloud' : Known(r)'
  <2> SUFFICES ASSUME NEW r \in cloud PROVE Known(r)'
    OBVIOUS
  <2>1. Known(r)
    BY DEF IInv
  <2>2. CASE r \in Named(tasks[p])
    <3>1. CASE tasks[p].pc = "update" /\ Named(m) = Named(tasks[p])
      BY <1>1, <2>2, <3>1 DEF Known, InRow
    <3>2. CASE \A x \in Named(tasks[p]) : Gone(x)
      BY <2>2, <3>2 DEF Known, Gone
    <3> QED
      BY <3>1, <3>2
  <2>3. CASE r \notin Named(tasks[p])
    <3>1. CASE InRow(r)
      BY <1>2, <1>5, <2>3, <3>1 DEF Known
    <3>2. CASE r \in excused \cup unread
      BY <1>2, <3>2 DEF Known
    <3>3. ASSUME NEW q \in Task, tasks[q].op = "allocate", r \in Named(tasks[q])
          PROVE  Known(r)'
      BY <1>1, <2>3, <3>3 DEF Known
    <3> QED
      BY <2>1, <3>1, <3>2, <3>3 DEF Known
  <2> QED
    BY <2>2, <2>3
<1> QED
  BY <1>3, <1>8, <1>9, <1>10, <1>11, <1>12, <1>13 DEF IInv

-----------------------------------------------------------------------------
(* How an operation begins *)

Pc == {"idle", "create_private", "create_public", "update", "undo_public", "undo_private",
       "delete_public", "delete_private", "released", "cleanup_public", "cleanup_private",
       "delete_row"}

\* The operation p at another step.
At(p, pc) == [tasks[p] EXCEPT !.pc = pc]

\* Goto changes nothing but the step.
LEMMA GotoStep ==
    ASSUME IInv, NEW p \in Task, NEW pc \in Pc
    PROVE  /\ At(p, pc) \in TaskState /\ Named(At(p, pc)) = Named(tasks[p])
           /\ At(p, pc).pc = pc /\ At(p, pc).op = tasks[p].op /\ At(p, pc).id = tasks[p].id
           /\ At(p, pc).pub = tasks[p].pub /\ At(p, pc).priv = tasks[p].priv
           /\ At(p, pc).failed = tasks[p].failed
           /\ Goto(p, pc) => /\ tasks' = [tasks EXCEPT ![p] = At(p, pc)]
                             /\ tasks'[p] = At(p, pc)
<1>1. tasks \in [Task -> TaskState] /\ tasks[p] \in TaskState
  BY DEF IInv, TypeOK
<1>2. /\ At(p, pc) \in TaskState
      /\ At(p, pc).pc = pc /\ At(p, pc).op = tasks[p].op /\ At(p, pc).id = tasks[p].id
      /\ At(p, pc).pub = tasks[p].pub /\ At(p, pc).priv = tasks[p].priv
      /\ At(p, pc).failed = tasks[p].failed
  BY <1>1 DEF At, TaskState, Pc
<1>3. Goto(p, pc) => tasks' = [tasks EXCEPT ![p] = At(p, pc)]
  BY <1>1 DEF At, Goto
<1> QED
  BY <1>1, <1>2, <1>3, NamedFields

\* An operation that returns leaves what it named to the others, except an
\* allocation, whose resources must be gone.
LEMMA ReturnStep ==
    ASSUME IInv, NEW p \in Task, Return(p),
           UNCHANGED <<rows, deleted, created, unread>>,
           tasks[p].op = "allocate" => \A r \in Named(tasks[p]) : Gone(r)',
           condemned \subseteq condemned', condemned' \subseteq condemned \cup Named(tasks[p]),
           excused \subseteq excused', excused' \subseteq Ocid,
           cloud' \subseteq cloud,
           late' \subseteq LateCommand,
           \A r \in Ocid : (r \in cloud /\ r \notin cloud')
                              \/ (Command("delete", r) \in late' /\ Command("delete", r) \notin late)
              => /\ r \in Named(tasks[p])
                 /\ r \in condemned' \/ tasks[p].op = "allocate"
    PROVE  IInv'
<1>1. tasks' = [tasks EXCEPT ![p] = Idle] /\ tasks'[p] = Idle
  BY DEF IInv, TypeOK, Return
<1>2. Progress(p)'
  BY <1>1, IdleTask DEF Progress
<1> QED
  BY <1>1, <1>2, IdleTask, CommandStep

\* An operation that begins holds nothing, or what a row names.
LEMMA BeginStep ==
    ASSUME IInv, NEW p \in Task, NEW t \in TaskState, Begin(p, t),
           t.op = "allocate" => t.id \in Id /\ t.pc = "create_private" /\ Named(t) = {},
           t.op = "release" => t.pc = "delete_public",
           t.op = "delete" => /\ t.id \in Id
                              /\ \/ t.pc = "cleanup_public"
                                 \/ t.pc = "delete_row" /\ t.pub = None /\ t.priv = None,
           t.op # "idle",
           \A r \in Named(t) : InRow(r)
    PROVE  IInv'
<1>1. /\ tasks[p] = Idle /\ tasks' = [tasks EXCEPT ![p] = t] /\ tasks'[p] = t
      /\ UNCHANGED <<rows, deleted, cloud, late, created, condemned, excused, unread>>
  BY DEF IInv, TypeOK, Begin
<1>2. t.op \in {"allocate", "release", "delete"}
  BY DEF TaskState
<1>3. None \notin cloud'
  BY <1>1, OcidAssumption DEF IInv, TypeOK, Ocid
<1>4. Progress(p)'
  BY <1>1, <1>2, <1>3 DEF Progress, Gone
<1> QED
  BY <1>1, <1>2, <1>4, IdleTask, CommandStep DEF IInv, TypeOK

\* Creating a mapping preserves the invariant.
LEMMA IInvCreateMapping ==
    ASSUME IInv, NEW id \in Id, NEW b \in BOOLEAN, create_mapping(id, b) PROVE IInv'
<1> DEFINE m == [public_ip |-> b, pub |-> None, priv |-> None]
<1>1. m \in Row /\ Named(m) = {}
  BY NamedFields DEF Row
<1>2. /\ rows \in [Id -> Row \cup {None}] /\ rows[id] = None /\ rows' = [rows EXCEPT ![id] = m]
      /\ UNCHANGED <<deleted, cloud, tasks, late, created, condemned, excused, unread>>
  BY DEF create_mapping, IInv, TypeOK
<1> HIDE DEF m
<1>3. \A i \in Id : Named(rows'[i]) = Named(rows[i])
  BY <1>1, <1>2, NamedFields
<1>4. \A r : InRow(r)' <=> InRow(r)
  BY <1>3 DEF InRow
<1>5. TypeOK' /\ NamedExists'
  BY <1>1, <1>2, <1>3 DEF IInv, TypeOK, NamedExists
<1>6. \A p \in Task : Progress(p)' /\ Exclusive(p)'
  <2> SUFFICES ASSUME NEW p \in Task PROVE Progress(p)' /\ Exclusive(p)'
    OBVIOUS
  <2>1. Progress(p)'
    BY <1>2 DEF IInv, Progress, Gone
  <2>2. Exclusive(p)
    BY DEF IInv
  <2> QED
    BY <1>2, <1>4, <2>1, <2>2 DEF Exclusive
<1>7. \A r : (Doomed(r) => Doomed(r)') /\ (Known(r) => Known(r)')
  BY <1>2, <1>4 DEF Doomed, Known
<1> QED
  BY <1>2, <1>4, <1>5, <1>6, <1>7 DEF IInv

\* So does the begin of every operation.
LEMMA IInvStart == ASSUME IInv, NEW p \in Task, Start(p) PROVE IInv'
<1> PICK id \in Id :
      \/ oci_allocate(p, id) \/ oci_release(p, id, id) \/ oci_release(p, None, id)
      \/ \E cleanup \in Cleanup : delete_mapping(p, id, cleanup)
  BY DEF Start
<1>1. CASE oci_allocate(p, id)
  <2> DEFINE t == [Idle EXCEPT !.op = "allocate", !.pc = "create_private", !.id = id]
  <2>1. /\ t \in TaskState /\ t.op = "allocate" /\ t.pc = "create_private" /\ t.id = id
        /\ t.pub = None /\ t.priv = None
    BY DEF Idle, TaskState
  <2>2. Begin(p, t)
    BY <1>1 DEF oci_allocate
  <2> HIDE DEF t
  <2>3. Named(t) = {}
    BY <2>1, NamedFields
  <2> QED
    BY <2>1, <2>2, <2>3, BeginStep
<1>2. ASSUME NEW i \in {id, None}, oci_release(p, i, id) PROVE IInv'
  <2> DEFINE t == [Idle EXCEPT !.op = "release", !.pc = "delete_public", !.id = i,
                               !.pub = rows[id].pub, !.priv = rows[id].priv]
  <2>1. rows[id] # None /\ Begin(p, t)
    BY <1>2 DEF oci_release
  <2>2. rows[id] \in Row
    BY <2>1 DEF IInv, TypeOK
  <2>3. /\ t \in TaskState /\ t.op = "release" /\ t.pc = "delete_public"
        /\ t.pub = rows[id].pub /\ t.priv = rows[id].priv
    BY <2>2 DEF Idle, TaskState, Row
  <2> HIDE DEF t
  <2>4. \A r \in Named(t) : InRow(r)
    BY <2>2, <2>3, NamedFields DEF InRow
  <2> QED
    BY <2>1, <2>3, <2>4, BeginStep
<1>3. ASSUME NEW cleanup \in Cleanup, delete_mapping(p, id, cleanup) PROVE IInv'
  <2>1. rows[id] # None /\ rows[id] \in Row
    BY <1>3 DEF delete_mapping, IInv, TypeOK
  <2>2. CASE cleanup
    <3> DEFINE t == [Idle EXCEPT !.op = "delete", !.id = id, !.pc = "cleanup_public",
                                 !.pub = rows[id].pub, !.priv = rows[id].priv]
    <3>1. Begin(p, t)
      BY <1>3, <2>2 DEF delete_mapping
    <3>2. /\ t \in TaskState /\ t.op = "delete" /\ t.pc = "cleanup_public" /\ t.id = id
          /\ t.pub = rows[id].pub /\ t.priv = rows[id].priv
      BY <2>1 DEF Idle, TaskState, Row
    <3> HIDE DEF t
    <3>3. \A r \in Named(t) : InRow(r)
      BY <2>1, <3>2, NamedFields DEF InRow
    <3> QED
      BY <3>1, <3>2, <3>3, BeginStep
  <2>3. CASE ~cleanup
    <3> DEFINE t == [Idle EXCEPT !.op = "delete", !.id = id, !.pc = "delete_row"]
    <3>1. Begin(p, t)
      BY <1>3, <2>3 DEF delete_mapping
    <3>2. /\ t \in TaskState /\ t.op = "delete" /\ t.pc = "delete_row" /\ t.id = id
          /\ t.pub = None /\ t.priv = None
      BY DEF Idle, TaskState
    <3> HIDE DEF t
    <3>3. Named(t) = {}
      BY <3>2, NamedFields
    <3> QED
      BY <3>1, <3>2, <3>3, BeginStep
  <2> QED
    BY <2>2, <2>3
<1> QED
  BY <1>1, <1>2, <1>3

-----------------------------------------------------------------------------
(* Allocation *)

\* A delete command on r, whatever comes of it, takes nothing away but r.
LEMMA DeleteOutcome ==
    ASSUME IInv, NEW r \in Ocid, Deletes(r) \/ NotFound(r) \/ DeleteFails(r)
    PROVE  /\ cloud' \subseteq cloud /\ late' \subseteq LateCommand
           /\ \A x \in Ocid : (x \in cloud /\ x \notin cloud')
                                \/ (Command("delete", x) \in late' /\ Command("delete", x) \notin late)
                => x = r
<1>1. Command("delete", r) \in LateCommand
  BY DEF Command, LateCommand
<1>2. \A x : Command("delete", x) = Command("delete", r) => x = r
  BY DEF Command
<1>3. cloud' \subseteq cloud /\ \A x \in cloud : x \notin cloud' => x = r
  BY DEF Deletes, NotFound, DeleteFails
<1>4. late' \subseteq late \cup {Command("delete", r)}
  BY DEF Deletes, NotFound, DeleteFails, TimeOut
<1> QED
  BY <1>1, <1>2, <1>3, <1>4 DEF IInv, TypeOK

\* A create command that fails adds no delete.
LEMMA CreateTimeOut ==
    ASSUME IInv, NEW command \in LateCommand, command.op # "delete",
           UNCHANGED late \/ TimeOut(command)
    PROVE  /\ late' \subseteq LateCommand
           /\ \A x \in Ocid : Command("delete", x) \in late' => Command("delete", x) \in late
<1>1. late' \subseteq late \cup {command}
  BY DEF TimeOut
<1>2. \A x \in Ocid : Command("delete", x) # command
  BY DEF Command
<1> QED
  BY <1>1, <1>2 DEF IInv, TypeOK

\* The private address.
LEMMA IInvCreatePrivate == ASSUME IInv, NEW p \in Task, create_private_ip(p) PROVE IInv'
<1>1. /\ tasks \in [Task -> TaskState] /\ tasks[p] \in TaskState
      /\ tasks[p].pc = "create_private" /\ tasks[p].op = "allocate" /\ Named(tasks[p]) = {}
      /\ tasks[p].id \in Id
      /\ UNCHANGED <<rows, deleted, condemned, excused, unread>>
  BY DEF IInv, TypeOK, Progress, create_private_ip
<1>2. tasks[p].pub = None /\ tasks[p].priv = None
  BY <1>1, NamedFields
<1>3. ASSUME NEW r \in Priv, Create(r), UNCHANGED late,
             tasks' = [tasks EXCEPT ![p].pc = "create_public", ![p].priv = r]
      PROVE  IInv'
  <2> DEFINE t == [tasks[p] EXCEPT !.pc = "create_public", !.priv = r]
  <2>1. /\ t \in TaskState /\ t.pc = "create_public" /\ t.op = "allocate"
        /\ t.id = tasks[p].id /\ t.pub = None /\ t.priv = r
    BY <1>1, <1>2 DEF TaskState
  <2>2. tasks' = [tasks EXCEPT ![p] = t] /\ tasks'[p] = t
    BY <1>1, <1>3
  <2> HIDE DEF t
  <2>3. r # None /\ r \in Ocid
    BY OcidAssumption DEF Ocid
  <2>4. Named(t) = Named(tasks[p]) \cup {r}
    BY <1>1, <2>1, <2>3, NamedFields
  <2>5. Progress(p)'
    BY <1>1, <2>1, <2>2, <2>3 DEF Progress
  <2> QED
    BY <1>1, <1>3, <2>1, <2>2, <2>3, <2>4, <2>5, CreateStep
<1>4. ASSUME UNCHANGED late \/ TimeOut(Command("create_private", None)), Return(p),
             UNCHANGED <<cloud, created>>
      PROVE  IInv'
  <2>1. /\ Command("create_private", None) \in LateCommand
        /\ Command("create_private", None).op # "delete"
    BY DEF Command, LateCommand
  <2>2. /\ late' \subseteq LateCommand
        /\ \A x \in Ocid : Command("delete", x) \in late' => Command("delete", x) \in late
    BY <1>4, <2>1, CreateTimeOut
  <2> QED
    BY <1>1, <1>4, <2>2, ReturnStep DEF IInv, TypeOK
<1> QED
  BY <1>3, <1>4 DEF create_private_ip

\* The public address; when it fails the undo of the private one follows.
LEMMA IInvCreatePublic ==
    ASSUME IInv, NEW p \in Task, create_reserved_public_ip(p) PROVE IInv'
<1>1. /\ tasks \in [Task -> TaskState] /\ tasks[p] \in TaskState
      /\ tasks[p].pc = "create_public" /\ tasks[p].op = "allocate"
      /\ tasks[p].pub = None /\ tasks[p].priv # None /\ tasks[p].id \in Id
      /\ UNCHANGED <<rows, deleted, condemned, excused, unread>>
  BY DEF IInv, TypeOK, Progress, create_reserved_public_ip
<1>2. ASSUME NEW r \in Pub, Create(r), UNCHANGED late,
             tasks' = [tasks EXCEPT ![p].pc = "update", ![p].pub = r]
      PROVE  IInv'
  <2> DEFINE t == [tasks[p] EXCEPT !.pc = "update", !.pub = r]
  <2>1. /\ t \in TaskState /\ t.pc = "update" /\ t.op = "allocate"
        /\ t.id = tasks[p].id /\ t.pub = r /\ t.priv = tasks[p].priv
    BY <1>1 DEF TaskState
  <2>2. tasks' = [tasks EXCEPT ![p] = t] /\ tasks'[p] = t
    BY <1>1, <1>2
  <2> HIDE DEF t
  <2>3. r # None /\ r \in Ocid
    BY OcidAssumption DEF Ocid
  <2>4. Named(t) = Named(tasks[p]) \cup {r}
    BY <1>1, <2>1, <2>3, NamedFields
  <2>5. Progress(p)'
    BY <1>1, <2>1, <2>2, <2>3 DEF Progress
  <2> QED
    BY <1>1, <1>2, <2>1, <2>2, <2>3, <2>4, <2>5, CreateStep
<1>3. ASSUME UNCHANGED late \/ TimeOut(Command("create_public", tasks[p].priv)),
             Goto(p, "undo_private"), UNCHANGED <<cloud, created>>
      PROVE  IInv'
  <2>1. tasks[p].priv \in Priv
    BY <1>1 DEF TaskState
  <2>2. /\ Command("create_public", tasks[p].priv) \in LateCommand
        /\ Command("create_public", tasks[p].priv).op # "delete"
    BY <2>1 DEF Command, LateCommand
  <2>3. /\ late' \subseteq LateCommand
        /\ \A x \in Ocid : Command("delete", x) \in late' => Command("delete", x) \in late
    BY <1>3, <2>2, CreateTimeOut
  <2> DEFINE t == At(p, "undo_private")
  <2>4. "undo_private" \in Pc
    BY DEF Pc
  <2>5. /\ t \in TaskState /\ Named(t) = Named(tasks[p]) /\ t.pc = "undo_private"
        /\ t.op = "allocate" /\ t.id \in Id /\ t.pub = None /\ t.priv # None
        /\ tasks' = [tasks EXCEPT ![p] = t] /\ tasks'[p] = t
    BY <1>1, <1>3, <2>4, GotoStep
  <2> HIDE DEF t
  <2>6. Gone(None)'
    BY <1>3, OcidAssumption DEF IInv, TypeOK, Ocid, Gone
  <2>7. Progress(p)'
    BY <2>5, <2>6 DEF Progress
  <2> QED
    BY <1>1, <1>3, <2>3, <2>5, <2>7, CommandStep DEF IInv, TypeOK
<1> QED
  BY <1>2, <1>3 DEF create_reserved_public_ip

\* The row is given the allocation, or the allocation is undone.
LEMMA IInvUpdateMapping == ASSUME IInv, NEW p \in Task, update_mapping(p) PROVE IInv'
<1>1. /\ tasks[p] \in TaskState /\ tasks[p].pc = "update" /\ tasks[p].op = "allocate"
      /\ tasks[p].pub # None /\ tasks[p].priv # None /\ tasks[p].id \in Id
      /\ UNCHANGED <<deleted, cloud, late, created, condemned, excused>>
  BY DEF IInv, TypeOK, Progress, update_mapping
<1>2. ASSUME rows' = [rows EXCEPT ![tasks[p].id] = [public_ip |-> TRUE, pub |-> tasks[p].pub,
                                                    priv |-> tasks[p].priv]],
             Overwrite(p, tasks[p].id), Return(p)
      PROVE  IInv'
  <2> DEFINE m == [public_ip |-> TRUE, pub |-> tasks[p].pub, priv |-> tasks[p].priv]
  <2>1. m \in Row /\ m.pub = tasks[p].pub /\ m.priv = tasks[p].priv
    BY <1>1 DEF Row, TaskState
  <2>2. rows' = [rows EXCEPT ![tasks[p].id] = m]
    BY <1>2
  <2> HIDE DEF m
  <2>3. Named(m) = Named(tasks[p])
    BY <1>1, <2>1, NamedFields
  <2> QED
    BY <1>1, <1>2, <2>1, <2>2, <2>3, RowStep DEF IInv, TypeOK
<1>3. ASSUME UNCHANGED <<rows, unread>>, Goto(p, "undo_public") PROVE IInv'
  <2> DEFINE t == At(p, "undo_public")
  <2>1. "undo_public" \in Pc
    BY DEF Pc
  <2>2. /\ t \in TaskState /\ Named(t) = Named(tasks[p]) /\ t.pc = "undo_public"
        /\ t.op = "allocate" /\ t.id \in Id /\ t.pub # None /\ t.priv # None
        /\ tasks' = [tasks EXCEPT ![p] = t] /\ tasks'[p] = t
    BY <1>1, <1>3, <2>1, GotoStep
  <2> HIDE DEF t
  <2>3. Progress(p)'
    BY <2>2 DEF Progress
  <2> QED
    BY <1>1, <1>3, <2>2, <2>3, CommandStep DEF IInv, TypeOK
<1> QED
  BY <1>2, <1>3 DEF update_mapping

\* Lose only adds to the resources that are excused.
LEMMA LoseExcused ==
    ASSUME IInv, NEW r \in Ocid, Lose(r)
    PROVE  excused \subseteq excused' /\ excused' \subseteq Ocid
  BY DEF IInv, TypeOK, Lose

\* The undo of the public address.
LEMMA IInvUndoPublic == ASSUME IInv, NEW p \in Task, UndoPublic(p) PROVE IInv'
<1>1. /\ tasks[p] \in TaskState /\ tasks[p].pc = "undo_public" /\ tasks[p].op = "allocate"
      /\ tasks[p].pub # None /\ tasks[p].priv # None /\ tasks[p].id \in Id
      /\ Goto(p, "undo_private") /\ Lose(tasks[p].pub)
      /\ UNCHANGED <<rows, deleted, created, condemned, unread>>
  BY DEF IInv, TypeOK, Progress, UndoPublic
<1>2. tasks[p].pub \in Ocid /\ tasks[p].pub \in Named(tasks[p])
  BY <1>1, NamedFields DEF TaskState, Ocid
<1>3. /\ cloud' \subseteq cloud /\ late' \subseteq LateCommand
      /\ \A x \in Ocid : (x \in cloud /\ x \notin cloud')
                           \/ (Command("delete", x) \in late' /\ Command("delete", x) \notin late)
           => x = tasks[p].pub
  BY <1>2, DeleteOutcome DEF UndoPublic
<1>4. excused \subseteq excused' /\ excused' \subseteq Ocid
  BY <1>1, <1>2, LoseExcused
<1> DEFINE t == At(p, "undo_private")
<1>5. "undo_private" \in Pc
  BY DEF Pc
<1>6. /\ t \in TaskState /\ Named(t) = Named(tasks[p]) /\ t.pc = "undo_private"
      /\ t.op = "allocate" /\ t.id \in Id /\ t.pub = tasks[p].pub /\ t.priv # None
      /\ tasks' = [tasks EXCEPT ![p] = t] /\ tasks'[p] = t
  BY <1>1, <1>5, GotoStep
<1> HIDE DEF t
<1>7. Progress(p)'
  <2>1. tasks[p].pub \notin cloud' \/ tasks[p].pub \in excused'
    BY <1>1 DEF Lose
  <2> QED
    BY <1>6, <2>1 DEF Progress, Gone
<1> QED
  BY <1>1, <1>2, <1>3, <1>4, <1>6, <1>7, CommandStep

\* The undo of the private address, the end of an allocation that failed.
LEMMA IInvUndoPrivate == ASSUME IInv, NEW p \in Task, UndoPrivate(p) PROVE IInv'
<1>1. /\ tasks[p] \in TaskState /\ tasks[p].op = "allocate" /\ tasks[p].priv # None
      /\ Gone(tasks[p].pub) /\ Return(p) /\ Lose(tasks[p].priv)
      /\ UNCHANGED <<rows, deleted, created, condemned, unread>>
  BY DEF IInv, TypeOK, Progress, UndoPrivate
<1>2. tasks[p].priv \in Ocid /\ tasks[p].priv \in Named(tasks[p])
  BY <1>1, NamedFields DEF TaskState, Ocid
<1>3. /\ cloud' \subseteq cloud /\ late' \subseteq LateCommand
      /\ \A x \in Ocid : (x \in cloud /\ x \notin cloud')
                           \/ (Command("delete", x) \in late' /\ Command("delete", x) \notin late)
           => x = tasks[p].priv
  BY <1>2, DeleteOutcome DEF UndoPrivate
<1>4. excused \subseteq excused' /\ excused' \subseteq Ocid
  BY <1>1, <1>2, LoseExcused
<1>5. \A r \in Named(tasks[p]) : Gone(r)'
  BY <1>1, <1>3, <1>4, NamedFields DEF Gone, Lose
<1> QED
  BY <1>1, <1>2, <1>3, <1>4, <1>5, ReturnStep

-----------------------------------------------------------------------------
(* Release *)

\* The first delete of a release.
LEMMA IInvReleasePublic == ASSUME IInv, NEW p \in Task, ReleasePublic(p) PROVE IInv'
<1>1. /\ tasks[p] \in TaskState /\ tasks[p].pc = "delete_public" /\ tasks[p].op = "release"
      /\ condemned' = condemned \cup ({tasks[p].pub} \ {None})
      /\ UNCHANGED <<rows, deleted, created, excused, unread>>
  BY DEF IInv, TypeOK, Progress, ReleasePublic
<1>2. /\ tasks[p].pub # None => tasks[p].pub \in Ocid /\ tasks[p].pub \in Named(tasks[p])
      /\ condemned' \subseteq condemned \cup Named(tasks[p])
      /\ tasks[p].pub # None => tasks[p].pub \in condemned'
  BY <1>1, NamedFields DEF TaskState, Ocid
<1>3. /\ cloud' \subseteq cloud /\ late' \subseteq LateCommand
      /\ \A x \in Ocid : (x \in cloud /\ x \notin cloud')
                           \/ (Command("delete", x) \in late' /\ Command("delete", x) \notin late)
           => x = tasks[p].pub /\ tasks[p].pub # None
  <2>1. CASE tasks[p].pub = None
    BY <2>1 DEF ReleasePublic, IInv, TypeOK
  <2>2. CASE tasks[p].pub # None
    BY <1>2, <2>2, DeleteOutcome DEF ReleasePublic
  <2> QED
    BY <2>1, <2>2
<1>4. CASE Return(p)
  BY <1>1, <1>2, <1>3, <1>4, ReturnStep DEF IInv, TypeOK
<1>5. CASE Goto(p, "delete_private") /\ (tasks[p].pub = None \/ Deletes(tasks[p].pub))
  <2> DEFINE t == At(p, "delete_private")
  <2>1. "delete_private" \in Pc
    BY DEF Pc
  <2>2. /\ t \in TaskState /\ Named(t) = Named(tasks[p]) /\ t.pc = "delete_private"
        /\ t.op = "release" /\ t.pub = tasks[p].pub
        /\ tasks' = [tasks EXCEPT ![p] = t] /\ tasks'[p] = t
    BY <1>1, <1>5, <2>1, GotoStep
  <2> HIDE DEF t
  <2>3. tasks[p].pub \notin cloud'
    BY <1>3, <1>5, OcidAssumption DEF Deletes, IInv, TypeOK, Ocid
  <2>4. Progress(p)'
    BY <2>2, <2>3 DEF Progress, Gone
  <2> QED
    BY <1>1, <1>2, <1>3, <2>2, <2>4, CommandStep DEF IInv, TypeOK
<1> QED
  BY <1>4, <1>5 DEF ReleasePublic

\* The second one.
LEMMA IInvReleasePrivate == ASSUME IInv, NEW p \in Task, ReleasePrivate(p) PROVE IInv'
<1>1. /\ tasks[p] \in TaskState /\ tasks[p].pc = "delete_private" /\ tasks[p].op = "release"
      /\ Gone(tasks[p].pub)
      /\ condemned' = condemned \cup ({tasks[p].priv} \ {None})
      /\ UNCHANGED <<rows, deleted, created, excused, unread>>
  BY DEF IInv, TypeOK, Progress, ReleasePrivate
<1>2. /\ tasks[p].priv # None => tasks[p].priv \in Ocid /\ tasks[p].priv \in Named(tasks[p])
      /\ condemned' \subseteq condemned \cup Named(tasks[p])
      /\ tasks[p].priv # None => tasks[p].priv \in condemned'
  BY <1>1, NamedFields DEF TaskState, Ocid
<1>3. /\ cloud' \subseteq cloud /\ late' \subseteq LateCommand
      /\ \A x \in Ocid : (x \in cloud /\ x \notin cloud')
                           \/ (Command("delete", x) \in late' /\ Command("delete", x) \notin late)
           => x = tasks[p].priv /\ tasks[p].priv # None
  <2>1. CASE tasks[p].priv = None
    BY <2>1 DEF ReleasePrivate, IInv, TypeOK
  <2>2. CASE tasks[p].priv # None
    BY <1>2, <2>2, DeleteOutcome DEF ReleasePrivate
  <2> QED
    BY <2>1, <2>2
<1>4. CASE Return(p)
  BY <1>1, <1>2, <1>3, <1>4, ReturnStep DEF IInv, TypeOK
<1>5. CASE /\ Goto(p, "released") /\ tasks[p].id # None
           /\ tasks[p].priv = None \/ Deletes(tasks[p].priv)
  <2> DEFINE t == At(p, "released")
  <2>1. "released" \in Pc
    BY DEF Pc
  <2>2. /\ t \in TaskState /\ Named(t) = Named(tasks[p]) /\ t.pc = "released"
        /\ t.op = "release" /\ t.pub = tasks[p].pub /\ t.priv = tasks[p].priv
        /\ t.id = tasks[p].id
        /\ tasks' = [tasks EXCEPT ![p] = t] /\ tasks'[p] = t
    BY <1>1, <1>5, <2>1, GotoStep
  <2> HIDE DEF t
  <2>3. tasks[p].priv \notin cloud' /\ (tasks[p].pub \notin cloud' \/ tasks[p].pub \in excused')
    BY <1>1, <1>3, <1>5, OcidAssumption DEF Deletes, Gone, IInv, TypeOK, Ocid
  <2>4. tasks[p].id \in Id
    BY <1>1, <1>5 DEF TaskState
  <2>5. Progress(p)'
    BY <2>2, <2>3, <2>4 DEF Progress, Gone
  <2> QED
    BY <1>1, <1>2, <1>3, <2>2, <2>5, CommandStep DEF IInv, TypeOK
<1> QED
  BY <1>4, <1>5 DEF ReleasePrivate

\* The write of the row a release has emptied.
LEMMA IInvUpdateReleased == ASSUME IInv, NEW p \in Task, UpdateReleased(p) PROVE IInv'
<1>1. /\ tasks[p] \in TaskState /\ tasks[p].pc = "released" /\ tasks[p].op = "release"
      /\ tasks[p].id \in Id /\ Gone(tasks[p].pub) /\ Gone(tasks[p].priv)
      /\ Return(p) /\ UNCHANGED <<deleted, cloud, late, created, condemned, excused>>
  BY DEF IInv, TypeOK, Progress, UpdateReleased
<1> DEFINE m == [public_ip |-> FALSE, pub |-> None, priv |-> None]
<1>2. m \in Row /\ Named(m) = {}
  BY NamedFields DEF Row
<1>3. CASE rows' = [rows EXCEPT ![tasks[p].id] = m] /\ Overwrite(p, tasks[p].id)
  <2> HIDE DEF m
  <2>1. \A r \in Named(tasks[p]) : Gone(r)
    BY <1>1, NamedFields
  <2> QED
    BY <1>1, <1>2, <1>3, <2>1, RowStep DEF IInv, TypeOK
<1>4. CASE UNCHANGED <<rows, unread>>
  BY <1>1, <1>4, ReturnStep DEF IInv, TypeOK
<1> QED
  BY <1>3, <1>4 DEF UpdateReleased

-----------------------------------------------------------------------------
(* Delete *)

\* A command of cleanup_mapping_oci on r leads to a task t that goes on at pc,
\* and has failed unless r is gone.
LEMMA CleanupStep ==
    ASSUME IInv, NEW p \in Task, NEW pc \in {"cleanup_private", "delete_row"},
           NEW r \in Named(tasks[p]) \cup {None}, CleanupOutcome(p, r, pc),
           UNCHANGED <<rows, deleted, created, unread>>,
           condemned' = condemned \cup ({r} \ {None}),
           tasks[p].op = "delete",
           r = tasks[p].pub \/ r = tasks[p].priv,
           pc = "cleanup_private" => r = tasks[p].pub,
           pc = "delete_row" =>
              /\ r = tasks[p].priv
              /\ ~tasks[p].failed => Gone(tasks[p].pub)
    PROVE  IInv'
<1>1. /\ tasks \in [Task -> TaskState] /\ tasks[p] \in TaskState /\ tasks[p].id \in Id
      /\ Named(tasks[p]) \subseteq Ocid
  BY NamedFields DEF IInv, TypeOK, Progress
<1>2. PICK t \in TaskState :
        /\ tasks' = [tasks EXCEPT ![p] = t] /\ tasks'[p] = t
        /\ Named(t) = Named(tasks[p]) /\ t.pc = pc /\ t.op = "delete" /\ t.id = tasks[p].id
        /\ t.pub = tasks[p].pub /\ t.priv = tasks[p].priv
        /\ ~t.failed => ~tasks[p].failed /\ (r \notin cloud' \/ r \in excused')
  <2>1. CASE Goto(p, pc) /\ (r \notin cloud' \/ r \in excused')
    <3>1. pc \in Pc
      BY DEF Pc
    <3>2. /\ At(p, pc) \in TaskState /\ Named(At(p, pc)) = Named(tasks[p])
          /\ At(p, pc).pc = pc /\ At(p, pc).op = tasks[p].op /\ At(p, pc).id = tasks[p].id
          /\ At(p, pc).pub = tasks[p].pub /\ At(p, pc).priv = tasks[p].priv
          /\ At(p, pc).failed = tasks[p].failed
          /\ tasks' = [tasks EXCEPT ![p] = At(p, pc)] /\ tasks'[p] = At(p, pc)
      BY <2>1, <3>1, GotoStep
    <3> QED
      BY <2>1, <3>2
  <2>2. CASE tasks' = [tasks EXCEPT ![p].pc = pc, ![p].failed = TRUE]
    <3> DEFINE t == [tasks[p] EXCEPT !.pc = pc, !.failed = TRUE]
    <3>1. /\ t \in TaskState /\ t.pc = pc /\ t.op = tasks[p].op /\ t.id = tasks[p].id
          /\ t.pub = tasks[p].pub /\ t.priv = tasks[p].priv /\ t.failed = TRUE
      BY <1>1 DEF TaskState
    <3>2. tasks' = [tasks EXCEPT ![p] = t] /\ tasks'[p] = t
      BY <1>1, <2>2
    <3> HIDE DEF t
    <3>3. Named(t) = Named(tasks[p])
      <4>1. Named(t) = {t.pub, t.priv} \ {None}
        BY <3>1, NamedFields
      <4>2. Named(tasks[p]) = {tasks[p].pub, tasks[p].priv} \ {None}
        BY <1>1, NamedFields
      <4> QED
        BY <3>1, <4>1, <4>2
    <3> QED
      BY <3>1, <3>2, <3>3
  <2>3. r = None => r \notin cloud
    BY OcidAssumption DEF IInv, TypeOK, Ocid
  <2>4. CASE (r = None \/ r \notin cloud) /\ Goto(p, pc) /\ UNCHANGED <<cloud, late, excused>>
    BY <2>1, <2>3, <2>4
  <2>5. CASE Deletes(r) /\ Goto(p, pc)
    BY <2>1, <2>5 DEF Deletes
  <2>6. CASE Goto(p, pc) /\ Lose(r)
    BY <2>1, <2>6 DEF Lose
  <2> QED
    BY <2>2, <2>4, <2>5, <2>6 DEF CleanupOutcome
<1>3. /\ cloud' \subseteq cloud /\ late' \subseteq LateCommand
      /\ \A x \in Ocid : (x \in cloud /\ x \notin cloud')
                           \/ (Command("delete", x) \in late' /\ Command("delete", x) \notin late)
           => x = r /\ r # None
  <2>1. CASE UNCHANGED <<cloud, late>>
    BY <2>1 DEF IInv, TypeOK
  <2>2. CASE r # None /\ (Deletes(r) \/ DeleteFails(r))
    BY <1>1, <2>2, DeleteOutcome
  <2> QED
    BY <2>1, <2>2 DEF CleanupOutcome
<1>4. excused \subseteq excused' /\ excused' \subseteq Ocid
  BY <1>1, LoseExcused DEF CleanupOutcome, IInv, TypeOK
<1>5. Progress(p)'
  <2>1. Gone(tasks[p].pub) => tasks[p].pub \notin cloud' \/ tasks[p].pub \in excused'
    BY <1>3, <1>4 DEF Gone
  <2> QED
    BY <1>1, <1>2, <2>1 DEF Progress, Gone
<1>6. /\ condemned' \subseteq condemned \cup Named(tasks[p])
      /\ r # None => r \in condemned' /\ r \in Named(tasks[p])
  OBVIOUS
<1> QED
  BY <1>2, <1>3, <1>4, <1>5, <1>6, CommandStep

\* Both commands of cleanup_mapping_oci.
LEMMA IInvCleanup ==
    ASSUME IInv, NEW p \in Task, CleanupPublic(p) \/ CleanupPrivate(p) PROVE IInv'
<1>1. tasks[p] \in TaskState
  BY DEF IInv, TypeOK
<1>2. {tasks[p].pub, tasks[p].priv} \subseteq Named(tasks[p]) \cup {None}
  BY <1>1, NamedFields
<1>3. CASE CleanupPublic(p)
  <2>1. tasks[p].op = "delete"
    BY <1>3 DEF CleanupPublic, IInv, Progress
  <2> QED
    BY <1>2, <1>3, <2>1, CleanupStep DEF CleanupPublic
<1>4. CASE CleanupPrivate(p)
  <2>1. tasks[p].op = "delete" /\ (~tasks[p].failed => Gone(tasks[p].pub))
    BY <1>4 DEF CleanupPrivate, IInv, Progress
  <2> QED
    BY <1>2, <1>4, <2>1, CleanupStep DEF CleanupPrivate
<1> QED
  BY <1>3, <1>4

\* The row is deleted when the cleanup has not failed.
LEMMA IInvDeleteRow == ASSUME IInv, NEW p \in Task, DeleteRow(p) PROVE IInv'
<1>1. /\ tasks[p] \in TaskState /\ tasks[p].pc = "delete_row" /\ tasks[p].op = "delete"
      /\ tasks[p].id \in Id
      /\ ~tasks[p].failed => Gone(tasks[p].pub) /\ Gone(tasks[p].priv)
      /\ Return(p) /\ UNCHANGED <<cloud, late, created, condemned, excused>>
  BY DEF IInv, TypeOK, Progress, DeleteRow
<1>2. CASE tasks[p].failed
  BY <1>1, <1>2, ReturnStep DEF DeleteRow, IInv, TypeOK
<1>3. CASE ~tasks[p].failed
  <2>1. \A r \in Named(tasks[p]) : Gone(r)
    BY <1>1, <1>3, NamedFields
  <2>2. /\ rows' = [rows EXCEPT ![tasks[p].id] = None] /\ deleted' \subseteq Id
        /\ Overwrite(p, tasks[p].id)
    BY <1>1, <1>3 DEF DeleteRow, IInv, TypeOK
  <2> QED
    BY <1>1, <2>1, <2>2, NamedFields, RowStep
<1> QED
  BY <1>2, <1>3

-----------------------------------------------------------------------------
(* Crashes, and children that are late *)

\* What an allocation holds when its process stops is excused.
LEMMA IInvCrash == ASSUME IInv, NEW p \in Task, Crash(p) PROVE IInv'
<1>1. /\ tasks[p] \in TaskState /\ Named(tasks[p]) \subseteq Ocid /\ Return(p)
      /\ UNCHANGED <<rows, deleted, cloud, late, created, condemned, unread>>
  BY NamedFields DEF IInv, TypeOK, Crash
<1>2. /\ excused \subseteq excused' /\ excused' \subseteq Ocid
      /\ tasks[p].op = "allocate" => Named(tasks[p]) \cap cloud \subseteq excused'
  BY <1>1 DEF Crash, IInv, TypeOK
<1> QED
  BY <1>1, <1>2, ReturnStep DEF Gone, IInv, TypeOK

\* A child that was given up deletes something that is doomed.
LEMMA IInvLateDelete ==
    ASSUME IInv, NEW command \in late, command.op = "delete" \/ cloud' = cloud,
           cloud' \in {cloud, cloud \ {command.on}}, late' = late \ {command},
           UNCHANGED <<rows, deleted, tasks, created, condemned, excused, unread>>
    PROVE  IInv'
<1>1. \A r \in cloud : r \notin cloud' => Doomed(r)
  BY DEF IInv
<1>2. \A r : /\ InRow(r)' <=> InRow(r)
             /\ Doomed(r)' <=> Doomed(r)
             /\ Known(r)' <=> Known(r)
             /\ Gone(r) => Gone(r)'
  BY DEF InRow, Doomed, Known, Gone
<1>3. TypeOK' /\ NamedExists'
  BY <1>1 DEF IInv, TypeOK, NamedExists, Doomed, InRow
<1>4. \A p \in Task : Progress(p)'
  BY <1>2 DEF IInv, Progress
<1>5. ASSUME NEW p \in Task PROVE Exclusive(p)'
  <2>1. Exclusive(p)
    BY DEF IInv
  <2> QED
    BY <1>1, <1>2, <2>1 DEF Exclusive, Doomed
<1> QED
  BY <1>2, <1>3, <1>4, <1>5 DEF IInv

\* Or it creates something that nobody learns of.
LEMMA IInvLateCreate ==
    ASSUME IInv, NEW r \in Ocid, Create(r), excused' = excused \cup {r}, late' \subseteq late,
           UNCHANGED <<rows, deleted, tasks, condemned, unread>>
    PROVE  IInv'
<1>1. r \notin created /\ created' = created \cup {r} /\ cloud' = cloud \cup {r}
  BY DEF Create
<1>2. \A x : /\ InRow(x)' <=> InRow(x)
             /\ Doomed(x)' <=> Doomed(x)
             /\ Known(x) => Known(x)'
             /\ Gone(x) => Gone(x)'
  BY <1>1 DEF InRow, Doomed, Known, Gone
<1>3. TypeOK' /\ NamedExists'
  BY <1>1 DEF IInv, TypeOK, NamedExists
<1>4. \A p \in Task : Progress(p)'
  BY <1>2 DEF IInv, Progress
<1>5. ASSUME NEW p \in Task PROVE Exclusive(p)'
  <2>1. Exclusive(p)
    BY DEF IInv
  <2> QED
    BY <1>1, <1>2, <2>1 DEF Exclusive
<1>6. Known(r)'
  BY DEF Known
<1> QED
  BY <1>1, <1>2, <1>3, <1>4, <1>5, <1>6 DEF IInv

\* Both, and the child that fails.
LEMMA IInvLate ==
    ASSUME IInv, NEW command \in late, LateEffect(command) \/ LateFailure(command)
    PROVE  IInv'
<1>1. CASE LateFailure(command)
  BY <1>1, IInvLateDelete DEF LateFailure
<1>2. CASE LateEffect(command) /\ command.op = "delete"
  BY <1>2, IInvLateDelete DEF LateEffect
<1>3. CASE LateEffect(command) /\ command.op # "delete"
  <2>1. PICK r \in Ocid : Create(r) /\ excused' = excused \cup {r}
    BY <1>3 DEF LateEffect, Ocid
  <2> QED
    BY <1>3, <2>1, IInvLateCreate DEF LateEffect
<1> QED
  BY <1>1, <1>2, <1>3

-----------------------------------------------------------------------------
(* Theorems *)

\* Every step preserves the invariant.
LEMMA IInvNext == IInv /\ [Next]_vars => IInv'
<1> SUFFICES ASSUME IInv, [Next]_vars PROVE IInv'
  OBVIOUS
<1>1. CASE UNCHANGED vars
  BY <1>1 DEF vars, IInv, TypeOK, NamedExists, InRow, Gone, Progress, Exclusive, Doomed, Known
<1>2. ASSUME NEW id \in Id, NEW b \in BOOLEAN, create_mapping(id, b) PROVE IInv'
  BY <1>2, IInvCreateMapping
<1>3. ASSUME NEW p \in Task, Start(p) \/ Step(p) \/ Crash(p) PROVE IInv'
  BY <1>3, IInvStart, IInvCreatePrivate, IInvCreatePublic, IInvUpdateMapping, IInvUndoPublic,
     IInvUndoPrivate, IInvReleasePublic, IInvReleasePrivate, IInvUpdateReleased, IInvCleanup,
     IInvDeleteRow, IInvCrash
     DEF Step
<1>4. ASSUME NEW command \in late, LateEffect(command) \/ LateFailure(command) PROVE IInv'
  BY <1>4, IInvLate
<1> QED
  BY <1>1, <1>2, <1>3, <1>4 DEF Next

\* It always holds.
LEMMA IInvAlways == Spec => []IInv
  BY IInvInit, IInvNext, PTL DEF Spec

\* Every variable keeps its type: an OCID of a public address is never taken
\* for one of a private address, and only what was created is in the cloud.
THEOREM TypeCorrect == Spec => []TypeOK
<1>1. IInv => TypeOK
  BY DEF IInv
<1> QED
  BY <1>1, IInvAlways, PTL

\* A mapping never names a resource that does not exist, unless a release or
\* delete set out to delete it, for any number of overlapping operations and
\* late children of oci commands.
THEOREM NamedResourcesExist == Spec => []NamedExists
<1>1. IInv => NamedExists
  BY DEF IInv
<1> QED
  BY <1>1, IInvAlways, PTL

\* Operations that overlap leak a resource only where an operation writes over
\* an OCID it has not read, or a command or process fails with no row to tell.
THEOREM LeakOnlyWhatIsUnread == Spec => []LeaksOnlyUnread
<1>1. IInv => LeaksOnlyUnread
  <2> SUFFICES ASSUME IInv, NEW r \in cloud
               PROVE  r \in (UNION {Named(rows[id]) : id \in Id})
                               \cup (UNION {Named(tasks[p]) : p \in Task}) \cup excused \cup unread
    BY DEF LeaksOnlyUnread
  <2>1. Known(r)
    BY DEF IInv
  <2>2. CASE InRow(r)
    BY <2>2 DEF InRow
  <2>3. CASE \E p \in Task : r \in Named(tasks[p])
    BY <2>3
  <2> QED
    BY <2>1, <2>2, <2>3 DEF Known
<1> QED
  BY <1>1, IInvAlways, PTL

-----------------------------------------------------------------------------
(* Operations that take turns *)

\* A command does not change which mapping an operation is about, nor forget
\* what it has read of it; or it ends the operation.
LEMMA CommandKeeps ==
    ASSUME IInv, NEW p \in Task,
           \/ create_private_ip(p) \/ create_reserved_public_ip(p)
           \/ UndoPublic(p) \/ UndoPrivate(p) \/ ReleasePublic(p) \/ ReleasePrivate(p)
           \/ CleanupPublic(p) \/ CleanupPrivate(p) \/ Crash(p)
    PROVE  /\ UNCHANGED <<rows, unread>>
           /\ \/ tasks'[p].id = None
              \/ tasks'[p].id = tasks[p].id /\ Named(tasks[p]) \subseteq Named(tasks'[p])
<1>1. tasks \in [Task -> TaskState] /\ tasks[p] \in TaskState
  BY DEF IInv, TypeOK
<1>2. Return(p) => tasks'[p].id = None
  BY <1>1, IdleTask DEF Return
<1>3. \A pc \in Pc : Goto(p, pc) => /\ tasks'[p].id = tasks[p].id
                                    /\ Named(tasks[p]) = Named(tasks'[p])
  BY GotoStep
<1>4. {"create_public", "undo_private", "delete_private", "released", "cleanup_private",
       "delete_row"} \subseteq Pc
  BY DEF Pc
<1>5. CASE create_private_ip(p)
  <2>1. Named(tasks[p]) = {} /\ UNCHANGED <<rows, unread>>
    BY <1>5 DEF create_private_ip, IInv, Progress
  <2>2. ASSUME NEW r \in Priv,
               tasks' = [tasks EXCEPT ![p].pc = "create_public", ![p].priv = r]
        PROVE  tasks'[p].id = tasks[p].id
    BY <1>1, <2>2 DEF TaskState
  <2> QED
    BY <1>2, <1>5, <2>1, <2>2 DEF create_private_ip
<1>6. CASE create_reserved_public_ip(p)
  <2>1. tasks[p].pub = None /\ UNCHANGED <<rows, unread>>
    BY <1>6 DEF create_reserved_public_ip, IInv, Progress
  <2>2. ASSUME NEW r \in Pub,
               tasks' = [tasks EXCEPT ![p].pc = "update", ![p].pub = r]
        PROVE  tasks'[p].id = tasks[p].id /\ Named(tasks[p]) \subseteq Named(tasks'[p])
    <3>1. /\ tasks'[p] \in TaskState /\ tasks'[p].id = tasks[p].id
          /\ tasks'[p].priv = tasks[p].priv
      BY <1>1, <2>2 DEF TaskState
    <3>2. Named(tasks[p]) = {tasks[p].pub, tasks[p].priv} \ {None}
      BY <1>1, NamedFields
    <3>3. Named(tasks'[p]) = {tasks'[p].pub, tasks'[p].priv} \ {None}
      BY <3>1, NamedFields
    <3> QED
      BY <2>1, <3>1, <3>2, <3>3
  <2> QED
    BY <1>3, <1>4, <1>6, <2>1, <2>2 DEF create_reserved_public_ip
<1>7. CASE CleanupPublic(p) \/ CleanupPrivate(p)
  <2>1. PICK pc \in {"cleanup_private", "delete_row"}, r \in {tasks[p].pub, tasks[p].priv} :
          CleanupOutcome(p, r, pc)
    BY <1>7 DEF CleanupPublic, CleanupPrivate
  <2>2. ASSUME tasks' = [tasks EXCEPT ![p].pc = pc, ![p].failed = TRUE]
        PROVE  tasks'[p].id = tasks[p].id /\ Named(tasks[p]) = Named(tasks'[p])
    <3>1. /\ tasks'[p] \in TaskState /\ tasks'[p].id = tasks[p].id
          /\ tasks'[p].priv = tasks[p].priv /\ tasks'[p].pub = tasks[p].pub
      BY <1>1, <2>2 DEF TaskState
    <3>2. Named(tasks[p]) = {tasks[p].pub, tasks[p].priv} \ {None}
      BY <1>1, NamedFields
    <3>3. Named(tasks'[p]) = {tasks'[p].pub, tasks'[p].priv} \ {None}
      BY <3>1, NamedFields
    <3> QED
      BY <3>1, <3>2, <3>3
  <2>3. Goto(p, pc) \/ tasks' = [tasks EXCEPT ![p].pc = pc, ![p].failed = TRUE]
    BY <2>1 DEF CleanupOutcome
  <2>4. UNCHANGED <<rows, unread>>
    BY <1>7 DEF CleanupPublic, CleanupPrivate
  <2> QED
    BY <1>3, <1>4, <2>2, <2>3, <2>4
<1>8. CASE UndoPublic(p) \/ UndoPrivate(p) \/ ReleasePublic(p) \/ ReleasePrivate(p) \/ Crash(p)
  <2>1. /\ Goto(p, "undo_private") \/ Goto(p, "delete_private") \/ Goto(p, "released") \/ Return(p)
        /\ UNCHANGED <<rows, unread>>
    BY <1>8 DEF UndoPublic, UndoPrivate, ReleasePublic, ReleasePrivate, Crash
  <2> QED
    BY <1>2, <1>3, <1>4, <2>1
<1> QED
  BY <1>5, <1>6, <1>7, <1>8

\* An operation that begins has read the row it is about.
LEMMA StartReads ==
    ASSUME IInv, NEW p \in Task, Start(p), Cleanup \subseteq {TRUE}
    PROVE  /\ UNCHANGED <<rows, unread>>
           /\ tasks'[p].id # None => Named(rows[tasks'[p].id]) \subseteq Named(tasks'[p])
<1>1. tasks \in [Task -> TaskState] /\ rows \in [Id -> Row \cup {None}]
  BY DEF IInv, TypeOK
<1> PICK id \in Id :
      \/ oci_allocate(p, id) \/ oci_release(p, id, id) \/ oci_release(p, None, id)
      \/ delete_mapping(p, id, TRUE)
  BY DEF Start
<1>2. \A t : Begin(p, t) => tasks'[p] = t /\ UNCHANGED <<rows, unread>>
  BY <1>1 DEF Begin
<1>3. CASE oci_allocate(p, id)
  <2>1. Named(rows[id]) = {}
    BY <1>3 DEF oci_allocate
  <2> DEFINE t == [Idle EXCEPT !.op = "allocate", !.pc = "create_private", !.id = id]
  <2>2. Begin(p, t) /\ t.id = id
    BY <1>3 DEF oci_allocate, Idle
  <2> HIDE DEF t
  <2> QED
    BY <1>2, <2>1, <2>2
<1>4. CASE oci_release(p, None, id)
  <2> DEFINE t == [Idle EXCEPT !.op = "release", !.pc = "delete_public", !.id = None,
                               !.pub = rows[id].pub, !.priv = rows[id].priv]
  <2>1. Begin(p, t) /\ t.id = None
    BY <1>4 DEF oci_release, Idle
  <2> HIDE DEF t
  <2> QED
    BY <1>2, <2>1
<1>5. CASE oci_release(p, id, id) \/ delete_mapping(p, id, TRUE)
  <2>1. rows[id] \in Row
    BY <1>1, <1>5 DEF oci_release, delete_mapping
  <2>2. PICK op \in {"release", "delete"}, pc \in {"delete_public", "cleanup_public"} :
          Begin(p, [Idle EXCEPT !.op = op, !.pc = pc, !.id = id,
                                !.pub = rows[id].pub, !.priv = rows[id].priv])
    BY <1>5 DEF oci_release, delete_mapping, Idle
  <2> DEFINE t == [Idle EXCEPT !.op = op, !.pc = pc, !.id = id,
                               !.pub = rows[id].pub, !.priv = rows[id].priv]
  <2>3. t \in TaskState /\ t.id = id /\ t.pub = rows[id].pub /\ t.priv = rows[id].priv
    BY <2>1 DEF Idle, TaskState, Row
  <2>4. tasks'[p] = t /\ UNCHANGED <<rows, unread>>
    BY <1>2, <2>2
  <2> HIDE DEF t
  <2>5. Named(rows[id]) = {rows[id].pub, rows[id].priv} \ {None}
    BY <2>1, NamedFields
  <2>6. Named(t) = {t.pub, t.priv} \ {None}
    BY <2>3, NamedFields
  <2> QED
    BY <2>3, <2>4, <2>5, <2>6
<1> QED
  BY <1>3, <1>4, <1>5

\* One operation at a time writes only over what it has read.
LEMMA ReadFirstNext ==
    ASSUME \A p, q \in Task : p = q, Cleanup \subseteq {TRUE}
    PROVE  IInv /\ ReadFirst /\ [Next]_vars => ReadFirst'
<1> SUFFICES ASSUME IInv, ReadFirst, [Next]_vars PROVE ReadFirst'
  OBVIOUS
<1>1. tasks \in [Task -> TaskState] /\ rows \in [Id -> Row \cup {None}]
  BY DEF IInv, TypeOK
<1>2. CASE UNCHANGED <<rows, tasks, unread>>
  BY <1>2 DEF ReadFirst
<1>3. ASSUME NEW id \in Id, NEW b \in BOOLEAN, create_mapping(id, b) PROVE ReadFirst'
  <2> DEFINE m == [public_ip |-> b, pub |-> None, priv |-> None]
  <2>1. Named(m) = {}
    BY NamedFields DEF Row
  <2>2. rows' = [rows EXCEPT ![id] = m] /\ UNCHANGED <<tasks, unread>> /\ rows[id] = None
    BY <1>3 DEF create_mapping
  <2> HIDE DEF m
  <2>3. \A i \in Id : Named(rows'[i]) = Named(rows[i])
    BY <1>1, <2>1, <2>2, NamedFields
  <2>4. \A p \in Task : tasks[p].id # None => tasks[p].id \in Id
    BY <1>1 DEF TaskState
  <2> QED
    BY <2>2, <2>3, <2>4 DEF ReadFirst
<1>4. ASSUME NEW p \in Task, Start(p) PROVE ReadFirst'
  BY <1>4, StartReads DEF ReadFirst
<1>5. ASSUME NEW p \in Task,
             UNCHANGED <<rows, unread>>,
             \/ tasks'[p].id = None
             \/ tasks'[p].id = tasks[p].id /\ Named(tasks[p]) \subseteq Named(tasks'[p])
      PROVE  ReadFirst'
  BY <1>5 DEF ReadFirst
<1>6. ASSUME NEW p \in Task, update_mapping(p) \/ UpdateReleased(p) \/ DeleteRow(p)
      PROVE  ReadFirst'
  <2>1. CASE UNCHANGED <<rows, unread>> /\ (Return(p) \/ Goto(p, "undo_public"))
    <3>1. "undo_public" \in Pc
      BY DEF Pc
    <3>2. CASE Return(p)
      BY <1>1, <1>5, <2>1, <3>2, IdleTask DEF Return
    <3>3. CASE Goto(p, "undo_public")
      BY <1>5, <2>1, <3>1, <3>3, GotoStep
    <3> QED
      BY <2>1, <3>2, <3>3
  <2>2. CASE Overwrite(p, tasks[p].id) /\ Return(p)
    <3>1. tasks[p].id # None
      BY <1>6, OcidAssumption DEF IInv, Progress, update_mapping, UpdateReleased, DeleteRow
    <3>2. unread' = {}
      BY <2>2, <3>1 DEF Overwrite, ReadFirst
    <3>3. tasks'[p].id = None
      BY <1>1, <2>2, IdleTask DEF Return
    <3> QED
      BY <3>2, <3>3 DEF ReadFirst
  <2> QED
    BY <1>6, <2>1, <2>2 DEF update_mapping, UpdateReleased, DeleteRow
<1>7. ASSUME NEW p \in Task, Step(p) \/ Crash(p) PROVE ReadFirst'
  BY <1>5, <1>6, <1>7, CommandKeeps DEF Step
<1>8. ASSUME NEW command \in late, LateEffect(command) \/ LateFailure(command)
      PROVE  ReadFirst'
  BY <1>2, <1>8 DEF LateEffect, LateFailure
<1> QED
  BY <1>2, <1>3, <1>4, <1>7, <1>8 DEF Next, vars

\* Operations that take turns, and deletes that clean up, lose no resource
\* unnoticed: what exists is named by a row, held by the operation under way, or
\* lost by a command or process that failed.
THEOREM NoSilentLeakSerially ==
    ASSUME \A p, q \in Task : p = q, Cleanup \subseteq {TRUE}
    PROVE  Spec => []NoSilentLeak
<1>1. Init => ReadFirst
  BY IdleTask DEF Init, ReadFirst
<1>2. IInv /\ ReadFirst /\ [Next]_vars => ReadFirst'
  BY ReadFirstNext
<1>3. LeaksOnlyUnread /\ ReadFirst => NoSilentLeak
  BY DEF LeaksOnlyUnread, ReadFirst, NoSilentLeak
<1> QED
  BY <1>1, <1>2, <1>3, IInvAlways, LeakOnlyWhatIsUnread, PTL DEF Spec
=============================================================================
