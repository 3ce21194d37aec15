------------------------ MODULE ReconcilerApplyProofs ------------------------
(***************************************************************************)
(* Proofs about Reconciler that hold while jobs overlap, fail, time out    *)
(* and leave nft and ip children behind: what a job that got to the end of *)
(* its work has done to the machine, except where the history says that    *)
(* somebody else changed the same thing in the meantime.  For any number   *)
(* of jobs, requests and late children, any rows and configurations.       *)
(***************************************************************************)
EXTENDS ReconcilerProofs

\* The job is past an nft that succeeded.
PastNft(job) ==
    \/ job.pc \in {"addr_list", "addr_change", "finish"} /\ job.apply_nft
    \/ job.pc \in {"health", "delete_row"}

\* Of the rows the loop has visited, those that agree with all nft rows of their
\* address have it as they want it, unless it is among those touched by others.
Followed(interface, snap, visited, present, touched) ==
    \A i \in visited :
        (Agreed(snap, i) /\ <<interface, snap[i].edge_private_ip>> \notin touched)
        => (<<interface, snap[i].edge_private_ip>> \in present <=> snap[i].enabled)

\* The loop has some nft rows of its snapshot to visit, and has visited the others.
Visiting(interface, job, present, touched) ==
    /\ job.todo \subseteq NftRows(job.snap)
    /\ Followed(interface, job.snap, NftRows(job.snap) \ job.todo, present, touched)

(***************************************************************************)
(* What a job knows of the file f, the kernel's ruleset l and the          *)
(* addresses present, whoever runs beside it, given what they did (m).     *)
(***************************************************************************)
ApplyJob(interface, job, f, l, present, m) ==
    /\ (job.pc \in Unread /\ ~m.nft) => f = job.text
    /\ (job.pc = "nft_commit" /\ ~m.nft) => job.loaded = job.text
    /\ (PastNft(job) /\ ~m.nft) => l = job.text
    /\ (job.pc \in {"nft_read", "nft_commit"} /\ job.kind # "rollback") =>
         job.todo = NftRows(job.snap)
    /\ job.pc \in {"addr_list", "addr_change"} => Visiting(interface, job, present, m.addrs)
    /\ ((job.pc = "finish" /\ job.apply_linux) \/ job.pc \in {"health", "delete_row"}) =>
         Followed(interface, job.snap, NftRows(job.snap), present, m.addrs)

ApplyInv ==
    \A p \in Job : ApplyJob(ConfigOf[p].wan_interface, jobs[p], file, live, addrs, meddled[p])

-----------------------------------------------------------------------------
(* Jobs *)

\* A job begins with its first statement.
LEMMA Begins ==
    ASSUME NEW p \in Job, Start(p)
    PROVE  \E job : /\ Begin(p, job)
                    /\ \/ job.kind = "reconcile" /\ job.pc = "list"
                       \/ job.kind = "delete" /\ job.pc = "disable"
                       \/ job.kind = "rollback" /\ job.pc = "write"
<1>1. ASSUME NEW opts \in Options, reconcile(p, opts)
      PROVE  \E job : Begin(p, job) /\ job.kind = "reconcile" /\ job.pc = "list"
  <2> DEFINE job == [Idle EXCEPT !.kind = "reconcile", !.pc = "list",
                                 !.apply_nft = opts.apply_nft, !.apply_linux = opts.apply_linux]
  <2>1. Begin(p, job) /\ job.kind = "reconcile" /\ job.pc = "list"
    BY <1>1 DEF reconcile, Idle
  <2> QED
    BY <2>1
<1>2. ASSUME NEW id \in Id, delete_mapping(p, id)
      PROVE  \E job : Begin(p, job) /\ job.kind = "delete" /\ job.pc = "disable"
  <2> DEFINE job == [Idle EXCEPT !.kind = "delete", !.pc = "disable", !.id = id]
  <2>1. Begin(p, job) /\ job.kind = "delete" /\ job.pc = "disable"
    BY <1>2 DEF delete_mapping, Idle
  <2> QED
    BY <2>1
<1>3. ASSUME NEW g \in recorded, rollback(p, g)
      PROVE  \E job : Begin(p, job) /\ job.kind = "rollback" /\ job.pc = "write"
  <2> DEFINE job == [Idle EXCEPT !.kind = "rollback", !.pc = "write", !.text = g.config]
  <2>1. Begin(p, job) /\ job.kind = "rollback" /\ job.pc = "write"
    BY <1>3 DEF rollback, Idle
  <2> QED
    BY <2>1
<1> QED
  BY <1>1, <1>2, <1>3 DEF Start

\* Only a running job takes steps.
LEMMA Running == ASSUME NEW p \in Job, Step(p) PROVE jobs[p] # Idle
<1>1. jobs[p].pc # "idle"
  BY DEF Step, Disable, List, RecordRendered, AtomicWrite, CheckFile, RecordValidated, NftRead,
         NftCommit, AddrList, AddrChange, Finish, Health, Complete, DeleteRow
<1> QED
  BY <1>1 DEF Idle

\* A job that goes on keeps what it holds.
LEMMA GotoFields ==
    ASSUME IInv, NEW p \in Job, NEW pc, Goto(p, pc)
    PROVE  /\ jobs'[p].pc = pc /\ jobs'[p].kind = jobs[p].kind /\ jobs'[p].id = jobs[p].id
           /\ jobs'[p].apply_nft = jobs[p].apply_nft /\ jobs'[p].apply_linux = jobs[p].apply_linux
           /\ jobs'[p].snap = jobs[p].snap /\ jobs'[p].text = jobs[p].text
           /\ jobs'[p].loaded = jobs[p].loaded /\ jobs'[p].todo = jobs[p].todo
           /\ \A q \in Job \ {p} : jobs'[q] = jobs[q]
<1>1. jobs \in [Job -> JobState] /\ jobs[p] \in JobState
  BY DEF IInv, TypeOK
<1>2. /\ jobs'[p] = [jobs[p] EXCEPT !.pc = pc] /\ \A q \in Job \ {p} : jobs'[q] = jobs[q]
  BY <1>1 DEF Goto
<1> QED
  BY <1>1, <1>2 DEF JobState

\* A job that does not run knows nothing.
LEMMA IdleApplied ==
    \A interface, f, l, present, m : ApplyJob(interface, Idle, f, l, present, m)
  BY DEF ApplyJob, Idle, Unread, PastNft

\* What others do to the machine takes nothing from what a job knows, since the
\* history keeps it.
LEMMA MeddledApplied ==
    ASSUME IInv, ApplyInv, NEW Q, Meddle(Q), NEW q \in Job, q \in Q, jobs'[q] = jobs[q]
    PROVE  ApplyJob(ConfigOf[q].wan_interface, jobs'[q], file', live', addrs', meddled'[q])
<1> DEFINE wan == ConfigOf[q].wan_interface
           touched == {a \in addrs \cup addrs' :
                         jobs[q].pc \in Applied /\ (a \in addrs) # (a \in addrs')}
<1>1. meddled'[q] = [nft |-> \/ meddled[q].nft
                             \/ jobs[q].pc \in Unread /\ file' # file
                             \/ jobs[q].pc \in Applied /\ live' # live,
                     addrs |-> meddled[q].addrs \cup touched]
  BY DEF Meddle
<1>2. /\ meddled'[q].nft = (\/ meddled[q].nft
                            \/ jobs[q].pc \in Unread /\ file' # file
                            \/ jobs[q].pc \in Applied /\ live' # live)
      /\ meddled'[q].addrs = meddled[q].addrs \cup touched
  BY <1>1
<1>3. ASSUME ~meddled'[q].nft
      PROVE  /\ ~meddled[q].nft
             /\ jobs[q].pc \in Unread => file' = file
             /\ jobs[q].pc \in Applied => live' = live
  BY <1>2, <1>3, Zenon
<1>4. ASSUME NEW a, a \notin meddled'[q].addrs, jobs[q].pc \in Applied
      PROVE  a \notin meddled[q].addrs /\ (a \in addrs' <=> a \in addrs)
  BY <1>2, <1>4
<1>5. ApplyJob(wan, jobs[q], file, live, addrs, meddled[q])
  BY DEF ApplyInv
<1> HIDE DEF touched, wan
<1>6. ASSUME jobs[q].pc \in Applied, NEW visited,
             Followed(wan, jobs[q].snap, visited, addrs, meddled[q].addrs)
      PROVE  Followed(wan, jobs[q].snap, visited, addrs', meddled'[q].addrs)
  BY <1>4, <1>6 DEF Followed
<1>7. /\ (jobs[q].pc \in Unread /\ ~meddled'[q].nft) => file' = jobs[q].text
      /\ (jobs[q].pc = "nft_commit" /\ ~meddled'[q].nft) => jobs[q].loaded = jobs[q].text
      /\ (PastNft(jobs[q]) /\ ~meddled'[q].nft) => live' = jobs[q].text
  <2>1. PastNft(jobs[q]) => jobs[q].pc \in Applied
    BY DEF PastNft, Applied
  <2> QED
    BY <1>3, <1>5, <2>1 DEF ApplyJob
<1>8. /\ jobs[q].pc \in {"addr_list", "addr_change"} =>
            Visiting(wan, jobs[q], addrs', meddled'[q].addrs)
      /\ ((jobs[q].pc = "finish" /\ jobs[q].apply_linux) \/ jobs[q].pc \in {"health", "delete_row"})
         => Followed(wan, jobs[q].snap, NftRows(jobs[q].snap), addrs', meddled'[q].addrs)
  BY <1>5, <1>6 DEF ApplyJob, Visiting, Applied
<1> QED
  BY <1>5, <1>7, <1>8 DEF ApplyJob, wan

\* A step of p keeps what the others know: it leaves the machine alone, or the
\* history of the others has what it did.
LEMMA ApplyStep ==
    ASSUME IInv, ApplyInv, NEW p \in Job, \A q \in Job \ {p} : jobs'[q] = jobs[q],
           \/ UNCHANGED <<file, live, addrs, meddled>>
           \/ Meddle(Job \ {p}),
           ApplyJob(ConfigOf[p].wan_interface, jobs'[p], file', live', addrs', meddled[p])
    PROVE  ApplyInv'
<1>1. meddled'[p] = meddled[p]
  BY DEF Meddle
<1>2. ASSUME NEW q \in Job \ {p}
      PROVE  ApplyJob(ConfigOf[q].wan_interface, jobs'[q], file', live', addrs', meddled'[q])
  <2>1. CASE UNCHANGED <<file, live, addrs, meddled>>
    BY <2>1 DEF ApplyInv
  <2>2. CASE Meddle(Job \ {p})
    BY <2>2, MeddledApplied
  <2> QED
    BY <2>1, <2>2
<1> QED
  BY <1>1, <1>2 DEF ApplyInv

\* A job that ends knows nothing.
LEMMA ApplyReturn ==
    ASSUME IInv, ApplyInv, NEW p \in Job, Return(p),
           UNCHANGED <<file, live, addrs, meddled>> \/ Meddle(Job \ {p})
    PROVE  ApplyInv'
<1>1. jobs'[p] = Idle /\ \A q \in Job \ {p} : jobs'[q] = jobs[q]
  BY DEF Return, IInv, TypeOK
<1> QED
  BY <1>1, IdleApplied, ApplyStep

\* The address of the row the loop is at is set; a row visited before that
\* agrees with the rows of its address wants the same.
LEMMA VisitNext ==
    ASSUME NEW interface, NEW snap, NEW todo, todo \subseteq NftRows(snap), NEW i \in todo,
           NEW present, NEW later, NEW touched,
           Followed(interface, snap, NftRows(snap) \ todo, present, touched),
           <<interface, snap[i].edge_private_ip>> \in later <=> snap[i].enabled,
           \A a : a # <<interface, snap[i].edge_private_ip>> => (a \in later <=> a \in present)
    PROVE  Followed(interface, snap, NftRows(snap) \ (todo \ {i}), later, touched)
<1> SUFFICES ASSUME NEW k \in NftRows(snap) \ (todo \ {i}), Agreed(snap, k),
                    <<interface, snap[k].edge_private_ip>> \notin touched
             PROVE  <<interface, snap[k].edge_private_ip>> \in later <=> snap[k].enabled
  BY DEF Followed
<1>1. CASE snap[k].edge_private_ip = snap[i].edge_private_ip
  BY <1>1 DEF Agreed
<1>2. CASE snap[k].edge_private_ip # snap[i].edge_private_ip
  <2>1. k \in NftRows(snap) \ todo
    BY <1>2
  <2>2. <<interface, snap[k].edge_private_ip>> # <<interface, snap[i].edge_private_ip>>
    BY <1>2
  <2> QED
    BY <2>1, <2>2 DEF Followed
<1> QED
  BY <1>1, <1>2

\* Every step of a job keeps what it knows.
LEMMA ApplySteps ==
    ASSUME IInv, ApplyInv, NEW p \in Job, Step(p)
    PROVE  ApplyInv'
<1> DEFINE wan == ConfigOf[p].wan_interface
           m == meddled[p]
           Alone == UNCHANGED <<file, live, addrs, meddled>> \/ Meddle(Job \ {p})
<1>1. /\ jobs \in [Job -> JobState] /\ jobs[p] \in JobState /\ JobSound(p)
      /\ ApplyJob(wan, jobs[p], file, live, addrs, m)
  BY DEF IInv, TypeOK, ApplyInv
<1>2. Alone
  BY DEF Step, Disable, List, RecordRendered, AtomicWrite, CheckFile, RecordValidated, NftRead,
         NftCommit, AddrList, AddrChange, Finish, Health, Complete, DeleteRow, machine
<1>3. CASE Return(p)
  BY <1>2, <1>3, ApplyReturn
<1> SUFFICES ASSUME ~Return(p) PROVE ApplyInv'
  BY <1>3
<1>4. ASSUME ApplyJob(wan, jobs'[p], file', live', addrs', m),
             \A q \in Job \ {p} : jobs'[q] = jobs[q]
      PROVE  ApplyInv'
  BY <1>2, <1>4, ApplyStep
<1>5. CASE Disable(p)
  <2>1. Goto(p, "list")
    BY <1>5 DEF Disable
  <2>2. ApplyJob(wan, jobs'[p], file', live', addrs', m)
    BY <2>1, GotoFields DEF ApplyJob, Unread, PastNft
  <2> QED
    BY <1>4, <2>1, <2>2, GotoFields
<1>6. CASE List(p)
  <2> DEFINE job == [jobs[p] EXCEPT !.pc = "record_rendered", !.snap = rows,
                                    !.text = render_nftables(rows, ConfigOf[p])]
  <2>1. jobs'[p] = job /\ \A q \in Job \ {p} : jobs'[q] = jobs[q]
    BY <1>1, <1>6 DEF List
  <2>2. job.pc = "record_rendered"
    BY <1>1 DEF JobState
  <2> HIDE DEF job
  <2>3. ApplyJob(wan, job, file', live', addrs', m)
    BY <2>2 DEF ApplyJob, Unread, PastNft
  <2> QED
    BY <1>4, <2>1, <2>3
<1>7. CASE RecordRendered(p)
  <2>1. Goto(p, "write")
    BY <1>7 DEF RecordRendered
  <2>2. ApplyJob(wan, jobs'[p], file', live', addrs', m)
    BY <2>1, GotoFields DEF ApplyJob, Unread, PastNft
  <2> QED
    BY <1>4, <2>1, <2>2, GotoFields
<1>8. CASE AtomicWrite(p)
  <2>1. Goto(p, "check") /\ file' = jobs[p].text
    BY <1>8 DEF AtomicWrite
  <2>2. ApplyJob(wan, jobs'[p], file', live', addrs', m)
    BY <2>1, GotoFields DEF ApplyJob, Unread, PastNft
  <2> QED
    BY <1>4, <2>1, <2>2, GotoFields
<1>9. CASE CheckFile(p)
  <2> DEFINE pc == IF jobs[p].kind = "rollback" THEN "nft_read" ELSE "record_validated"
  <2>1. jobs[p].pc = "check" /\ Goto(p, pc) /\ UNCHANGED file
    BY <1>9 DEF CheckFile, machine
  <2>2. ApplyJob(wan, jobs'[p], file', live', addrs', m)
    BY <1>1, <2>1, GotoFields DEF ApplyJob, Unread, PastNft
  <2> QED
    BY <1>4, <2>1, <2>2, GotoFields
<1>10. ASSUME NEW job, job.todo = NftRows(job.snap), NEW present, NEW touched
       PROVE  Visiting(wan, job, present, touched)
  BY <1>10 DEF Visiting, Followed
<1>11. CASE RecordValidated(p)
  <2> DEFINE pc == IF jobs[p].apply_nft THEN "nft_read" ELSE AfterNft(jobs[p])
             job == [jobs[p] EXCEPT !.pc = pc, !.todo = NftRows(jobs[p].snap)]
  <2>1. /\ jobs[p].pc = "record_validated" /\ UNCHANGED file
        /\ jobs' = [jobs EXCEPT ![p].pc = pc, ![p].todo = NftRows(jobs[p].snap)]
    BY <1>11 DEF RecordValidated, machine
  <2>2. /\ pc \in {"nft_read", "addr_list", "finish"} /\ (pc = "finish" => ~jobs[p].apply_linux)
        /\ pc # "nft_read" => ~jobs[p].apply_nft
    BY DEF AfterNft
  <2> HIDE DEF pc
  <2>3. jobs'[p] = job /\ \A q \in Job \ {p} : jobs'[q] = jobs[q]
    BY <1>1, <2>1
  <2>4. /\ job.pc = pc /\ job.todo = NftRows(job.snap) /\ job.text = jobs[p].text
        /\ job.apply_linux = jobs[p].apply_linux /\ job.apply_nft = jobs[p].apply_nft
    BY <1>1 DEF JobState
  <2> HIDE DEF job
  <2>5. Visiting(wan, job, addrs', m.addrs)
    BY <1>10, <2>4
  <2>6. ApplyJob(wan, job, file', live', addrs', m)
    BY <1>1, <2>1, <2>2, <2>4, <2>5 DEF ApplyJob, Unread, PastNft
  <2> QED
    BY <1>4, <2>3, <2>6
<1>12. CASE NftRead(p)
  <2> DEFINE job == [jobs[p] EXCEPT !.pc = "nft_commit", !.loaded = file]
  <2>1. /\ jobs[p].pc = "nft_read"
        /\ jobs' = [jobs EXCEPT ![p].pc = "nft_commit", ![p].loaded = file]
    BY <1>12 DEF NftRead
  <2>2. jobs'[p] = job /\ \A q \in Job \ {p} : jobs'[q] = jobs[q]
    BY <1>1, <2>1
  <2>3. /\ job.pc = "nft_commit" /\ job.todo = jobs[p].todo /\ job.snap = jobs[p].snap
        /\ job.kind = jobs[p].kind /\ job.text = jobs[p].text /\ job.loaded = file
    BY <1>1 DEF JobState
  <2> HIDE DEF job
  <2>4. ApplyJob(wan, job, file', live', addrs', m)
    BY <1>1, <2>1, <2>3 DEF ApplyJob, Unread, PastNft
  <2> QED
    BY <1>4, <2>2, <2>4
<1>13. CASE NftCommit(p)
  <2>1. /\ jobs[p].pc = "nft_commit" /\ jobs[p].kind # "rollback" /\ live' = jobs[p].loaded
        /\ Goto(p, AfterNft(jobs[p]))
    BY <1>13 DEF NftCommit
  <2>2. /\ AfterNft(jobs[p]) \in {"addr_list", "finish"}
        /\ AfterNft(jobs[p]) = "finish" => ~jobs[p].apply_linux
    BY DEF AfterNft
  <2>3. jobs[p].todo = NftRows(jobs[p].snap)
    BY <1>1, <2>1 DEF ApplyJob
  <2>4. Visiting(wan, jobs'[p], addrs', m.addrs)
    BY <1>10, <2>1, <2>3, GotoFields
  <2>5. ApplyJob(wan, jobs'[p], file', live', addrs', m)
    BY <1>1, <2>1, <2>2, <2>4, GotoFields DEF ApplyJob, Unread, PastNft
  <2> QED
    BY <1>4, <2>1, <2>5, GotoFields

<1>14. ASSUME jobs[p].pc \in {"addr_list", "addr_change"}
       PROVE  /\ Visiting(wan, jobs[p], addrs, m.addrs)
              /\ \A i \in jobs[p].todo : jobs[p].snap[i].enabled \in BOOLEAN
  <2>1. Visiting(wan, jobs[p], addrs, m.addrs)
    BY <1>1, <1>14 DEF ApplyJob
  <2>2. \A i \in jobs[p].todo : jobs[p].snap[i] \in MappingType
    BY AddrTyped
  <2> QED
    BY <2>1, <2>2 DEF MappingType
<1>15. ASSUME jobs[p].pc \in {"addr_list", "addr_change"}, NEW i \in jobs[p].todo,
              NEW job \in JobState, jobs' = [jobs EXCEPT ![p] = job], job.pc = "addr_list",
              job.todo = jobs[p].todo \ {i}, job.apply_nft = jobs[p].apply_nft,
              job.snap = jobs[p].snap, job.text = jobs[p].text, UNCHANGED live,
              AddrOf(p, i) \in addrs' <=> jobs[p].snap[i].enabled,
              \A a : a # AddrOf(p, i) => (a \in addrs' <=> a \in addrs)
       PROVE  ApplyInv'
  <2>1. jobs'[p] = job /\ \A q \in Job \ {p} : jobs'[q] = jobs[q]
    BY <1>1, <1>15
  <2> DEFINE snap == jobs[p].snap
             todo == jobs[p].todo
             touched == m.addrs
  <2>2. todo \subseteq NftRows(snap) /\ Followed(wan, snap, NftRows(snap) \ todo, addrs, touched)
    BY <1>14, <1>15 DEF Visiting
  <2>3. AddrOf(p, i) = <<wan, snap[i].edge_private_ip>>
    BY DEF AddrOf
  <2>4. <<wan, snap[i].edge_private_ip>> \in addrs' <=> snap[i].enabled
    BY <1>15, <2>3
  <2>5. \A a : a # <<wan, snap[i].edge_private_ip>> => (a \in addrs' <=> a \in addrs)
    BY <1>15, <2>3
  <2>6. i \in todo
    OBVIOUS
  <2> HIDE DEF wan, snap, todo, touched
  <2>7. Followed(wan, snap, NftRows(snap) \ (todo \ {i}), addrs', touched)
    BY <2>2, <2>4, <2>5, <2>6, VisitNext
  <2>8. Visiting(wan, job, addrs', touched)
    BY <1>15, <2>2, <2>7 DEF Visiting, snap, todo
  <2>9. ApplyJob(wan, job, file', live', addrs', m)
    BY <1>1, <1>15, <2>8 DEF ApplyJob, Unread, PastNft, touched
  <2> QED
    BY <1>4, <2>1, <2>9 DEF wan
<1>16. CASE AddrList(p)
  <2>1. jobs[p].pc = "addr_list" /\ UNCHANGED <<live, addrs>>
    BY <1>16 DEF AddrList, machine
  <2>2. Visiting(wan, jobs[p], addrs, m.addrs)
    BY <1>14, <2>1
  <2>3. CASE jobs[p].todo = {}
    <3>1. Goto(p, "finish")
      BY <1>16, <2>3 DEF AddrList
    <3>2. Followed(wan, jobs[p].snap, NftRows(jobs[p].snap), addrs, m.addrs)
      <4>1. NftRows(jobs[p].snap) \ jobs[p].todo = NftRows(jobs[p].snap)
        BY <2>3
      <4> QED
        BY <2>2, <4>1 DEF Visiting
    <3>3. ApplyJob(wan, jobs'[p], file', live', addrs', m)
      BY <1>1, <2>1, <3>1, <3>2, GotoFields DEF ApplyJob, Unread, PastNft
    <3> QED
      BY <1>4, <3>1, <3>3, GotoFields
  <2>4. CASE Goto(p, "addr_change")
    <3>1. Visiting(wan, jobs'[p], addrs, m.addrs)
      BY <2>2, <2>4, GotoFields DEF Visiting
    <3>2. ApplyJob(wan, jobs'[p], file', live', addrs', m)
      BY <1>1, <2>1, <2>4, <3>1, GotoFields DEF ApplyJob, Unread, PastNft
    <3> QED
      BY <1>4, <2>4, <3>2, GotoFields
  <2>5. ASSUME NEW i \in jobs[p].todo,
               (AddrOf(p, i) \in addrs) = jobs[p].snap[i].enabled,
               jobs' = [jobs EXCEPT ![p].todo = @ \ {i}]
        PROVE  ApplyInv'
    <3> DEFINE job == [jobs[p] EXCEPT !.todo = @ \ {i}]
    <3>1. /\ job \in JobState /\ job.pc = "addr_list" /\ job.todo = jobs[p].todo \ {i}
          /\ job.apply_nft = jobs[p].apply_nft
          /\ job.snap = jobs[p].snap /\ job.text = jobs[p].text
      BY <1>1, <2>1 DEF JobState
    <3>2. jobs' = [jobs EXCEPT ![p] = job]
      BY <2>5
    <3>3. AddrOf(p, i) \in addrs <=> jobs[p].snap[i].enabled
      BY <2>5, Zenon
    <3> HIDE DEF job
    <3> QED
      BY <1>15, <2>1, <3>1, <3>2, <3>3
  <2> QED
    BY <1>16, <2>3, <2>4, <2>5 DEF AddrList
<1>17. CASE AddrChange(p)
  <2>1. jobs[p].pc = "addr_change" /\ UNCHANGED live
    BY <1>17 DEF AddrChange
  <2>2. PICK i \in jobs[p].todo :
           /\ AddrToggle(p, i)
           /\ jobs' = [jobs EXCEPT ![p].pc = "addr_list", ![p].todo = @ \ {i}]
    BY <1>17 DEF AddrChange
  <2> DEFINE job == [jobs[p] EXCEPT !.pc = "addr_list", !.todo = @ \ {i}]
  <2>3. /\ job \in JobState /\ job.pc = "addr_list" /\ job.todo = jobs[p].todo \ {i}
        /\ job.apply_nft = jobs[p].apply_nft
        /\ job.snap = jobs[p].snap /\ job.text = jobs[p].text
    BY <1>1 DEF JobState, Label
  <2>4. jobs' = [jobs EXCEPT ![p] = job]
    BY <2>2
  <2> HIDE DEF job
  <2>5. AddrOf(p, i) \in addrs' <=> jobs[p].snap[i].enabled
    BY <2>2 DEF AddrToggle
  <2>6. \A a : a # AddrOf(p, i) => (a \in addrs' <=> a \in addrs)
    BY <2>2 DEF AddrToggle
  <2> QED
    BY <1>15, <2>1, <2>3, <2>4, <2>5, <2>6
<1>18. CASE Finish(p)
  <2> DEFINE todo == {i \in NftRows(jobs[p].snap) : jobs[p].snap[i].enabled}
             job == [jobs[p] EXCEPT !.pc = "health", !.todo = todo]
  <2>1. /\ jobs[p].pc = "finish" /\ jobs[p].apply_linux /\ jobs[p].apply_nft
        /\ UNCHANGED <<live, addrs>>
        /\ jobs' = [jobs EXCEPT ![p].pc = "health", ![p].todo = todo]
    BY <1>18 DEF Finish, machine
  <2> HIDE DEF todo
  <2>2. jobs'[p] = job /\ \A q \in Job \ {p} : jobs'[q] = jobs[q]
    BY <1>1, <2>1
  <2>3. job.pc = "health" /\ job.snap = jobs[p].snap /\ job.text = jobs[p].text
    BY <1>1 DEF JobState
  <2> HIDE DEF job
  <2>4. ApplyJob(wan, job, file', live', addrs', m)
    BY <1>1, <2>1, <2>3 DEF ApplyJob, Unread, PastNft
  <2> QED
    BY <1>4, <2>2, <2>4
<1>19. CASE Health(p)
  <2>1. PICK i \in jobs[p].todo : jobs' = [jobs EXCEPT ![p].todo = @ \ {i}]
    BY <1>19 DEF Health
  <2>2. jobs[p].pc = "health" /\ UNCHANGED <<live, addrs>>
    BY <1>19 DEF Health, machine
  <2> DEFINE job == [jobs[p] EXCEPT !.todo = @ \ {i}]
  <2>3. jobs'[p] = job /\ \A q \in Job \ {p} : jobs'[q] = jobs[q]
    BY <1>1, <2>1
  <2>4. job.pc = "health" /\ job.snap = jobs[p].snap /\ job.text = jobs[p].text
    BY <1>1, <2>2 DEF JobState
  <2> HIDE DEF job
  <2>5. ApplyJob(wan, job, file', live', addrs', m)
    BY <1>1, <2>2, <2>4 DEF ApplyJob, Unread, PastNft
  <2> QED
    BY <1>4, <2>3, <2>5
<1>20. CASE Complete(p)
  <2>1. jobs[p].pc = "health" /\ Goto(p, "delete_row") /\ UNCHANGED <<live, addrs>>
    BY <1>20 DEF Complete, machine
  <2>2. ApplyJob(wan, jobs'[p], file', live', addrs', m)
    BY <1>1, <2>1, GotoFields DEF ApplyJob, Unread, PastNft
  <2> QED
    BY <1>4, <2>1, <2>2, GotoFields
<1> QED
  BY <1>5, <1>6, <1>7, <1>8, <1>9, <1>11, <1>12, <1>13, <1>16, <1>17, <1>18, <1>19, <1>20
  DEF Step, DeleteRow

\* So does everything else that happens.
LEMMA ApplyNext == ASSUME IInv, ApplyInv, [Next]_vars PROVE ApplyInv'
<1>1. ASSUME UNCHANGED <<jobs, file, live, addrs, meddled>> PROVE ApplyInv'
  BY <1>1 DEF ApplyInv
<1>2. CASE Request
  BY <1>1, <1>2 DEF Request, create_mapping, enable_mapping, oci_allocate, machine
<1>3. ASSUME NEW p \in Job, Start(p) PROVE ApplyInv'
  <2>1. PICK job : Begin(p, job) /\ job.pc \in {"list", "disable", "write"}
    BY <1>3, Begins
  <2>2. /\ jobs'[p] = job /\ UNCHANGED <<file, live, addrs>>
        /\ \A q \in Job \ {p} : jobs'[q] = jobs[q] /\ meddled'[q] = meddled[q]
    BY <2>1 DEF Begin, IInv, TypeOK, HistoryOK
  <2>3. ApplyJob(ConfigOf[p].wan_interface, job, file, live, addrs, meddled'[p])
    BY <2>1 DEF ApplyJob, Unread, PastNft
  <2>4. \A q \in Job \ {p} : ApplyJob(ConfigOf[q].wan_interface, jobs'[q], file', live', addrs', meddled'[q])
    BY <2>2 DEF ApplyInv
  <2> QED
    BY <2>2, <2>3, <2>4 DEF ApplyInv
<1>4. ASSUME NEW p \in Job, Step(p) PROVE ApplyInv'
  BY <1>4, ApplySteps
<1>5. ASSUME NEW p \in Job, Failure(p) PROVE ApplyInv'
  <2>1. Return(p) /\ UNCHANGED <<file, live, addrs, meddled>>
    BY <1>5 DEF Failure, Fail, FailRecorded, NftTimeout, AddrTimeout, machine
  <2> QED
    BY <2>1, ApplyReturn
<1>6. CASE LateRead
  BY <1>1, <1>6 DEF LateRead
<1>7. ASSUME UNCHANGED jobs, Meddle(Job) PROVE ApplyInv'
  BY <1>7, MeddledApplied DEF ApplyInv
<1>8. CASE (\E t \in late \ {None} : LateCommit(t)) \/ \E c \in lateAddr : LateAddr(c)
  BY <1>7, <1>8 DEF LateCommit, LateAddr
<1>9. CASE UNCHANGED vars
  BY <1>1, <1>9 DEF vars
<1> QED
  BY <1>2, <1>3, <1>4, <1>5, <1>6, <1>8, <1>9 DEF Next

\* What a job knows holds in every state.
LEMMA ApplyAlways == Spec => []ApplyInv
<1>1. Init => ApplyInv
  BY IdleApplied DEF Init, ApplyInv
<1>2. IInv /\ ApplyInv /\ [Next]_vars => ApplyInv'
  BY ApplyNext
<1> QED
  BY <1>1, <1>2, Invariance, PTL DEF Spec

-----------------------------------------------------------------------------
(* What a job that got to its end has done *)

(***************************************************************************)
(* Whatever else runs, fails, times out or rolls back: when a job records  *)
(* its generation as active, and when a delete takes its row away, the     *)
(* kernel runs the ruleset the job rendered, unless another job's write    *)
(* came between its own and its nft -f, or a commit of another job or of a *)
(* late nft child came after it.                                           *)
(***************************************************************************)
THEOREM ActiveIsAlwaysLive == Spec => []ActiveIsLive
<1>1. ApplyInv => ActiveIsLive
  BY DEF ApplyInv, ApplyJob, PastNft, ActiveIsLive
<1> QED
  BY <1>1, ApplyAlways, PTL

(***************************************************************************)
(* Whatever else runs, fails or times out: a reconcile that comes to the   *)
(* end of its loop leaves an address as the rows with that address say,    *)
(* where they agree, unless another job or a late ip child changed that    *)
(* same address since the loop began.                                      *)
(***************************************************************************)
THEOREM AddressesAlwaysFollowRows == Spec => []AddressesFollowRows
<1>1. IInv /\ ApplyInv => AddressesFollowRows
  <2> SUFFICES ASSUME IInv, ApplyInv, NEW p \in Job, jobs[p].pc \in {"health", "delete_row"},
                      NEW i \in NftRows(jobs[p].snap), Agreed(jobs[p].snap, i),
                      AddrOf(p, i) \notin meddled[p].addrs
               PROVE  (AddrOf(p, i) \in addrs) = jobs[p].snap[i].enabled
    BY DEF AddressesFollowRows
  <2>1. jobs[p].snap \in Table
    BY DEF IInv, JobSound
  <2>2. jobs[p].snap[i].enabled \in BOOLEAN
    BY <2>1 DEF NftRows, Stored, Table, MappingType
  <2>3. AddrOf(p, i) \in addrs <=> jobs[p].snap[i].enabled
    BY DEF ApplyInv, ApplyJob, Followed, AddrOf
  <2>4. CASE jobs[p].snap[i].enabled = TRUE
    BY <2>3, <2>4, Zenon
  <2>5. CASE jobs[p].snap[i].enabled = FALSE
    <3>1. (AddrOf(p, i) \in addrs) = FALSE
      BY <2>3, <2>5
    <3> QED
      BY <2>5, <3>1
  <2> QED
    BY <2>2, <2>4, <2>5
<1> QED
  BY <1>1, ApplyAlways, Invariance, PTL
=============================================================================
