# A verification project for edge-route

edge-route turns a VM in Oracle Cloud (OCI) into a router for machines behind a
NetBird overlay. An operator stores *mappings* (public address or port to internal
target) in a SQLite database; a *reconcile* renders them to nftables rules, loads the
rules and puts the needed addresses on the WAN interface; OCI addresses are allocated
and released for a mapping. The agent (HTTP handlers, concurrent) and the CLI (any
number of processes) do all of this on the same database, file, kernel and cloud
account, and **no lock is shared between them**. A *gateway* turns forms and raw HTTP
requests into requests to the agent's Unix socket; either of the two processes, or a
client, may stop at any moment. That is where this project looks.

All paths below are relative to `src/crates/`.

## 1. Inventory

| Component | State | Operations | Correct when |
|---|---|---|---|
| Mapping, validation (`edge-core/src/mapping.rs`, `validation.rs`) | none (pure) | `validate_mapping`, `validate_mappings`, `conflicts`, `set_enabled`, ... | the store's own checks and the database's constraints agree with them |
| In-memory store (`edge-core/src/state.rs`) | config, mappings, generations, events | the `StateStore` trait | it accepts and refuses what the SQLite store does |
| SQLite store (`edge-store`) | tables `mappings`, `edge_config`, `generations`, `events` | insert, update, delete, enable, health, config, record | enabled rows never claim the same traffic; rows are well formed and renderable; a deleted row stays deleted |
| Migration (`edge-store`) | the schema | `connect`, `migrate` at every start | rows survive it; columns and constraints are there afterwards |
| Reconciler (`edge-reconcile`) | `generated.nft`, generations, statuses | `reconcile`, `rollback` | what the kernel runs is recorded, unambiguous, and belongs to stored rows |
| nft, ip (`edge-nft`, `edge-linux`) | kernel ruleset, interface addresses | render, check, apply; add, delete | the addresses of rows in force are present |
| XDP (`edge-xdp`) | none | `plan` | plans every mapping the store accepts for it, and no traffic that nftables has |
| OCI (`edge-oci`) | cloud resources | create, delete addresses | no resource is lost unnoticed; no row names what is not there |
| NetBird (`edge-netbird`) | none | status, route checks | parsing only (but it may hang) |
| Agent, CLI (`edge-agent`, `edge-cli`) | the config read at start | the requests | the sequences of the above they run |
| Gateway (`edge-gateway`) | the tokens; a mock store in development builds | proxy, forms, pages, tools, mock agent | a request is carried out at most once; what it reports is true; only requests with its own token reach the agent |

**How they interact.** Agent handlers and CLI commands call the store, then
`Reconciler::reconcile` with the configuration they had in memory when they started,
then perhaps OCI. The reconciler reads all rows, renders, and spawns `nft` and `ip`;
at the end it writes health back to the rows it read. OCI operations read a row, run
two or three `oci` commands and write the whole row back. A form of the gateway is
one request for the action and then one for each part of the page, each answered by the
agent (or, in a development build without a token, by the mock store).

**What is hard.** No operation of the store opens a transaction, so its checks and its
writes interleave with other callers. Reconciles share one file and one kernel table.
The timeouts of `nft`, `ip` and `oci` drop the future and not the child: a command can
take effect after its caller has failed (`netbird` has no timeout at all). An operation may stop between any two
steps and nothing is undone. Rows are written from copies read seconds earlier. A
request of the gateway may be carried out and its answer lost, or the client may leave
and the request take effect later. The full list, with lines, is under `hazards` in `PROJECT.json`.

## 2. Modules

| Module | Models | State |
|---|---|---|
| `Mapping` | the record, `validation.rs`, the indexes and triggers of `MAPPING_CONSTRAINTS`, the edits of a row | constant level |
| `MappingTable` | abstract: the mappings table with atomic operations | `rows`, `deleted` |
| `SqliteStore` | the store's operations, one action per SQL statement, any number of callers | `rows`, `config`, `calls`, history `deleted` |
| `InMemoryStore` | the in-memory store's operations, as functions on the table | constant level |
| `Ruleset` | what `render_nftables` produces, as rules; `Unambiguous` | constant level |
| `Xdp` | what `XdpPlugin::plan` accepts and produces | constant level |
| `Reconciler` | reconcile, delete and rollback jobs, and allocations that change rows, over table, generations, file, kernel, addresses | `rows`, `recorded`, `file`, `live`, `addrs`, `jobs`, `late`, `lateAddr`, histories |
| `OciLifecycle` | allocate, release and delete as series of `oci` commands over the cloud | `rows`, `cloud`, `tasks`, `late`, histories |
| `Migration` | `connect` and `migrate` by several processes at once, with crashes and restarts | `table`, `rows`, `made`, `procs`, `crashes`, history `abandoned` |
| `Gateway` | clients, the gateway's handlers, the socket, the agent's handlers as seen from it, the mock store | `gateway`, `up`, `handlers`, `wire`, `restarts`, histories `begun`, `finished` |
| `SqliteStoreProofs`, `ReconcilerProofs`, `MigrationProofs`, `OciLifecycleProofs`, `GatewayProofs` | theorems and proofs about the module of that name | |
| `ReconcilerApplyProofs` | theorems about what a job has done to the machine while others run beside it | |
| `SqliteStoreSerialProofs`, `ReconcilerSerialProofs` | theorems that need operations to take turns, or one configuration | |
| `MC*` | instances for TLC | |

`MappingTable` is what a user of the store may assume. `SqliteStore` and `Reconciler`
implement it (checked and proved). `SqliteStore` takes `InMemoryStore` and `Xdp` with
`INSTANCE`, to compare the two stores and to ask what a plan makes of its table.

**Actions and code.** In `SqliteStore`, an operation's first action (`insert_mapping`,
`oci_allocate`, ...) puts what it holds into `calls[c]`; `ReadEdgeConfig`,
`ReadDuplicates`, `InsertRow`, `UpdateRow`, `DeleteRow` are its statements, in program
order. `DbAccepts` is the verdict of indexes and triggers on one write.
`set_mapping_enabled` and `set_mapping_health` are one statement each. `Abort` ends a
call between statements. In `Reconciler` a job's `pc` names its next step; the labels
follow `reconcile` from top to bottom (`list`, `record_rendered`, `write`, `check`,
`record_validated`, `nft_read`, `nft_commit`, `addr_list`, `addr_change`, `finish`,
`health`), with `disable` before and `delete_row` after it for a delete. `nft -f` is two
steps, because it reads the file before its transaction commits. A child that outlives
its timeout waits in `late` (nft, with what it has read) or `lateAddr` (ip, with the
change it is to make) and takes effect at any later moment (`LateRead`, `LateCommit`,
`LateAddr`). The history `meddled[p]` keeps what others did under a job's hands: to the
file between its write and its `nft -f`, to the ruleset afterwards, to which addresses
since its loop began; `stray` keeps the addresses a late child added. In `OciLifecycle` a
step is one `oci` command or one write of the row. In `Migration` a step is one statement
of `migrate`, the rebuild of a legacy table one transaction, and each of the six
statements of `MAPPING_CONSTRAINTS` a step of its own that fails, with `connect`, when
rows violate the index it would make.

In `Gateway` what clients ask for is numbered and followed to its end. A step of a
handler is what it does between two awaits: `submit`, `open_page`, `run_tool` and `proxy`
begin it, `after_action` and `after_get` take an answer and send the next request of the
page (`markup`: the first is necessary, `?`; the others may fail), `deliver` ends it.
`wire[n]` is its exchange with the agent, which a handler that is dropped may leave
behind (`Drop`): the agent then goes on with it or stops where it is (`cancel`). Of a
handler of the agent three moments are seen: it begins to change something (`carry_out`),
it has made its last change and answers (`complete`), it fails before or in between
(`api_error`); what happens between these is step by step in `SqliteStore`, `Reconciler`
and `OciLifecycle`. A confirmation that is missing, a mapping that is unknown or a command
that fails are ways to refuse, and not told apart. The histories `begun` and `finished`
count what became of each request; a fixture of the mock store changes nothing and counts
as nothing. `decode_json` may fail on a body after a successful status. `Leave`,
`GatewayCrash`, `AgentCrash` and `connect_fails` are what can go wrong.

**Abstractions.** Addresses, names, interfaces and OCIDs are opaque values. What the
standard library and `ipnet` decide about an address is given by the constants
`Routable` and `Rfc1918` and by the record `Cidr`. Names and interface names are
legal or not (`ValidName`). The text of a ruleset is the set of its rules; their order
matters only when two match one packet, which `LiveUnambiguous` excludes. The
generations table is a set: ids and times play no part in any decision except the
argument of a rollback, which may be any generation. Ids of mappings are numbered in
the order `list_mappings` returns them. Timestamps, `last_error`, `health_status`,
events and the netbird interface are left out: nothing reads them back.
`generated.nft` is the one default path, `--output` elsewhere is not modelled.
Dry runs change nothing and are left out. In `Gateway` a page is the list of its
requests, an answer is whether it reports success and whether a list of mappings in it
was read before or after the client's own request took effect; a header is one of the
classes `rewrite_headers` tells apart.

## 3. Runs

| Run | Instance | Shows |
|---|---|---|
| `store_concurrent` | 2 callers, 2 ids, 5 requests that conflict pairwise or are invalid, 3 configurations (one empty, one with overlapping CIDRs) | `TypeOK`, `EnabledRowsDisjoint`, `RowsWellFormed`, `ImplementsTable` |
| `store_serial` | 1 caller, 3 ids, 7 requests incl. three for XDP, 1 configuration | `Renderable`: what the store accepts, `render_nftables` accepts; `BackendsShare`: XDP plans it, and takes no traffic from nftables; `StoresAgree`: the in-memory store decides alike |
| `store_duplicate_targets` | 2 callers | **violation** of `StaticTargetsUnique` |
| `reconcile_concurrent` | 2 interchangeable jobs (symmetry), 2 ids, 4 requests, an allocation, 1 late nft and 1 late ip child, rollbacks | `TypeOK`, `LiveRecorded`, `LiveUnambiguous`, `ActiveIsLive`, `AddressesFollowRows`, `ImplementsTable` (962,000 states) |
| `reconcile_serial` | 1 job, 2 ids, 5 kinds of rows incl. XDP and UDP, partial applies, an allocation, 1 late ip child, 5 requests | `NoOrphanRules`, `AddressesAccounted` (2.2 million states) |
| `reconcile_liveness` | 2 jobs with different CIDRs, 3 requests, weak fairness | `JobsEnd` |
| `reconcile_shared_address` | 1 job | **violation** of `AddressesServed` |
| `reconcile_disabled_status` | 1 job, a request during it | **violation** of `DisabledStatus` |
| `oci_concurrent` | 2 operations on 1 mapping, 2 OCIDs of each kind, 1 late child | `TypeOK`, `NamedExists`, `LeaksOnlyUnread` |
| `oci_cleanup` | 1 operation at a time, crashes, failures, 1 late child, fairness | `NoSilentLeak`, `DeleteConverges` |
| `migration` | 2 processes, 2 ids, 3 kinds of rows that violate indexes and triggers in pairs, 6 databases (none, two legacy, two with columns missing, current with any number of its constraints made), 1 crash, weak fairness | `TypeOK`, `ReadySchema`, `ReadyConstrained`, `RowsSurvive`, `PortsLostOnlyByRace`, `StartsUp` |
| `gateway` | 2 requests among 2 forms, a page that runs netbird, tools and a raw delete with a right and a wrong token; 3 ways to start it (environment before file, file alone, mock), 2 ends of a process, weak fairness | `TypeOK`, `AtMostOnce`, `SuccessIsReal`, `ListingFresh`, `UpstreamHeaders`, `ProxyGated`, `NothingAfterAnswer`, `Answered` (114,000 states) |

**Why the bounds are enough.** A conflict is between two rows, and a race between two
callers; a third row or caller repeats the roles of the first two (and for the proved
properties the theorems cover any number). Four requests let two rows be created while
two jobs begin; five let two rows be created, one be switched or moved by an allocation
and two jobs follow each other. One late child is enough to overtake a job that began after it. Two OCIDs of a
kind are two competing allocations. In `migration` two rows are the
least that can conflict, and the rows include a pair that a legacy table can hold and the
new indexes refuse. In `gateway` requests meet only through the processes that stop, and
two of them with two ends are a request cut off by either process, left behind, and
another one of the same or a new gateway; an action that is one change and one that is
many, a page, and a raw request are the ways a handler can go on. Named bounds: `MaxRequests`,
`MaxLate`, `MaxLateAddr`, `MaxCrashes`, `MaxRestarts`, and the sizes of `Id`, `Pub` and `Priv` (identifiers are not reused, so those also bound how
many rows and resources there ever are). The runs of `Reconciler`, `OciLifecycle` and
`Gateway` do not check for deadlock: when the bounded requests or identifiers are used up
and nothing is under way, the model has nothing left to do.
The other runs check for deadlock.

**Serial runs.** Two properties hold only when jobs take turns; the code does not claim
more, and the concurrent counterexamples are easy to find: a reconcile that listed its
rows before another one deleted a row loads the deleted row's rule, or adds its address,
afterwards. `NoOrphanRules` and `AddressesAccounted` are checked for one job at a time
(`Overlap = FALSE`), with all failures in place, and proved for any number of jobs that
take turns.

**Overlapping jobs and late children.** `ActiveIsLive` and `AddressesFollowRows` do not
ask for turns: they hold of every job, whoever runs beside it, *unless* the history shows
that somebody else changed the very thing in question meanwhile (`meddled`). The excuse is
narrow: the file counts only between the job's write and its `nft -f`, the ruleset only
after that, an address only by itself and only since the loop began. `AddressesFollowRows`
is about rows that agree on their address; what happens to rows that do not is finding 2.

**Fairness.** `reconcile_liveness` assumes that a job that runs takes its next step:
tokio polls it, and every wait in it is bounded (SQLite's busy timeout, the timeouts of
`nft`, `ip` and `health_check`). No fairness is assumed of requests or failures.
`oci_cleanup` assumes in addition that an operator repeats a delete until the mapping
is gone, and that a command tried again and again does not fail forever (strong
fairness); without either the statement is plainly false of any program that calls a
remote service.

`migration` assumes that a process that runs goes on and that one that ended is started
again (systemd restarts the agent, the operator repeats a command).

`gateway` assumes that the task of a client's request goes on, in the gateway (the
runtime polls it) or in the agent, for the handlers whose commands (`nft`, `ip`, `oci`, the
health checks) have timeouts. `netbird` is run without one, so nothing is assumed of the
two handlers that run it (`Untimed`), and `Answered` says what the code can promise: a
client is answered unless its handler waits for netbird for ever (`Hangs`); `send_raw` has
no timeout of its own. Nothing is assumed of restarts: `Answered` holds also when the agent
stays down, because a request to it then fails.

**What is allowed and what is not.** Some hazards do happen in this code, and nothing in
the repository says they may not. Their properties draw the line around them:
`LeaksOnlyUnread` (a cloud resource is forgotten by overlapping operations only when one
wrote over what it had not read), `AddressesAccounted` (an address nobody uses stays on
the interface only after an allocation moved a row away from it or a late ip child added
it), `PortsLostOnlyByRace`
(a rebuild erases a port only if the table was rebuilt by another process after the
test), `ReadyConstrained` (a running process is without an index only while the table is
being rebuilt, or after the process that rebuilt it stopped or failed on conflicting
rows), `SuccessIsReal` (an error card may hide an action that succeeded, never the
reverse), `NothingAfterAnswer` (and then the repeated form does not race the first). Each names the one way in which it may go wrong and excludes every other.

**Disagreements found** (details under `findings`):
1. A duplicate target can be stored, because the duplicate check is not atomic with
   the write and the unique index only covers enabled rows.
2. A disabled port forward takes the shared address away from an enabled one.
3. A health result that arrives after a disable marks the disabled row active.

## 4. Proofs

Every invariant, action property and refinement that a run checks is also proved, for
every value of the constants that meets the named assumptions. What the runs of one
instance cannot say (any number of callers, jobs, rows, processes, clients) the theorems
do. Each proof module follows the same plan: an inductive invariant, one lemma per group
of actions, the invariant for every state, and the properties from it.

*SqliteStoreProofs* (for any set of callers, requests, configurations, ids and
addresses): `TypeCorrect`, `EnabledRowsStayDisjoint`, `RowsStayWellFormed`,
`StoreImplementsTable`. The inductive invariant `IInv` of `SqliteStore` adds to the
properties themselves `CallSound`: what a call still knows between its statements. It
is needed because the row an `UpdateRow` writes was composed many steps earlier: the
copy must have been validated, must still have the identity of the row it replaces, or
the row must be gone for good, and the id of an insert must belong to no one else.
The heart is a lemma that indexes and triggers together (`DbAccepts`) imply
disjointness from every other enabled row *provided the rows are well formed*; a port
forward without a port would slip through the unique index, since NULLs are distinct.
The stale duplicate check plays no part in the argument.

*SqliteStoreSerialProofs*. Two hypotheses, each only where it is needed: `OneConfig`
(processes start with the same configuration) and `OneCaller` (calls do not overlap).
- `BackendsAlwaysShare` needs `OneConfig` only, so it says more than its run: for any
  number of concurrent callers. `ConfigInv` says that what a call has validated is still
  valid when it is written and for as long as it is stored; `FiniteInv` that the table
  is finite, without which counting rules and rows means nothing. From there: a valid
  mapping passes the weaker tests of `plan_entry`, disjoint rows have distinct keys, and
  rules, elements and entries are in bijection with the enabled rows.
- `AlwaysRenderable` and `StoresAlwaysAgree` need both. `PublicInv` says that the
  duplicate check is still true when the row is written, which is what one caller buys.
  Two lemmas carry `StoresAlwaysAgree`: the in-memory validation is exactly the
  conjunction of the two checks of the SQLite store, and no index or trigger refuses a
  row that passed them.
Without `OneConfig` a stored target may lie outside the new CIDRs; without `OneCaller`
two disabled rows may share a public address. Both happen in this code.

*ReconcilerProofs* (for any jobs, configurations and requests): `TypeCorrect`,
`LiveStaysRecorded`, `LiveStaysUnambiguous`, `JobsImplementTable`. `LiveRecorded` is not
inductive: the live
ruleset may come from the file, from what an nft child read earlier, or from a child
that outlived its job. `IInv` of `Reconciler` therefore says `Sound` (recorded as
rendered, and unambiguous) of every place a ruleset can be: generations, file, kernel,
late children, and the `text` and `loaded` of each job past the step that records it
(`JobSound`). A lemma shows that a table `validate_mappings` accepts renders to an
unambiguous ruleset. The refinement has an invariant of its own (`TableSound`: rows are
well formed and free of conflicts).

*ReconcilerApplyProofs* (any jobs, overlapping, with rollbacks and late children):
`ActiveIsAlwaysLive`, `AddressesAlwaysFollowRows`. `ApplyInv` says of each job, as long as
`meddled` does not excuse it: the file is its text until `nft -f` has read it, its child has
read its text, the kernel runs it afterwards, and the addresses of the rows its loop has
visited are as these rows want them (`Visiting`, `Followed`). The lemma `MeddledApplied`
shows that a step of anybody else either leaves these alone or is recorded in `meddled`.

*ReconcilerSerialProofs* (`Overlap = FALSE`: no request while a job runs). `SerialInv`
says what a job knows when nobody runs beside it: the table is the one it read, up to
statuses (`SameRow`), and its text is what its configuration makes of that table. That
nobody meddled with file and ruleset (`UntouchedInv`), and how an address that a late ip
child changed can be present (`TouchedInv`), connect it with `ApplyInv`.
- `NoRuleIsOrphaned` needs `MaxLate = 0` (an nft child that outlives its timeout may
  commit the rules of a row that is gone by then) and `Rollback = FALSE` (a rollback loads
  them by design). Its invariant `OwnedInv` follows every rule to the row,
  and to the address, it came from; `Deleting` is the lemma that a delete removes a row
  only when the kernel already runs a ruleset without it.
- `AddressesAlwaysAccounted` needs `OneWan`: a process with another WAN interface looks
  for the address of the row it deletes on its own interface only. Rollbacks and late
  children of both kinds are included; what a late ip child added is in `stray` until a
  job removes it.

*MigrationProofs* (any processes, initial databases and number of crashes): `TypeCorrect`,
`ReadyHasSchema`, `ReadyIsConstrained`, `RowsAlwaysSurvive`, `PortsSurvive`. `Guarded` is
`ReadyConstrained` for every process that has put a statement behind it, which is what
makes it inductive. `Knows` says what a process has established at each step of `migrate` and what no other process can
undo: once a table is not legacy it never is again, and columns are never dropped.
`LegacyRows` (the rows of a legacy table have no port and the backend nft) is needed for
`PortsSurvive`; it rests on `LegacyAssumption`: a table with the old constraints has
neither column. The rebuild itself assumes this, since it writes NULL and 'nft' for both.

*OciLifecycleProofs* (any operations, mappings and OCIDs, late commands): `TypeCorrect`,
`NamedResourcesExist`, `LeakOnlyWhatIsUnread`, and `NoSilentLeakSerially` for one
operation at a time and deletes with cleanup. The invariant says which steps of an
operation imply that a resource is gone (`Progress`), that what an allocation holds is in
no row and nobody else's until it writes or undoes (`Exclusive`), that a delete command
which is still to come takes nothing a row counts on (`Doomed`), and that every resource
in the cloud is known to a row, an allocation or a history variable (`Known`).
For the serial theorem `ReadFirst` adds that no operation writes over what it has not
read. Without cleanup a delete forgets the OCIDs by design.

*GatewayProofs* (any number of requests, forms, raw requests, ways to start, crashes):
`TypeCorrect`, `CarriedOutAtMostOnce`, `SuccessIsAlwaysReal`, `ListingAlwaysFresh`,
`UpstreamAlwaysRewritten`, `ProxyAlwaysGated`, `NothingFollowsAnAnswer`. `ExchangeSound`
relates an exchange to what became of its request: on its way it was not begun, at work it
was begun once, and a handler that answers or has answered has no exchange any more.
`HandlerSound` relates a handler to both: an answer that reports success means finished, and
every later request of the handler is a GET. Only that makes `AtMostOnce` inductive: a crash
of the agent ends the exchange and not the handler. The tokens in `UpstreamHeaders` and
`ProxyGated` (`TokenForAgent`, `GateToken`) are stated independently of `load_tokens`.

Assumptions: those named in the modules (types of the constants, `None` is not one of
the values) and, beyond types, `LegacyAssumption` above; `RequestsAssumption` of
`Gateway` (forms are routes of the agent that act, raw requests any of its routes); and `PagesAssumption` (a raw
request is no page to open). TLC evaluates them in every run of a module that extends
these.

*Only model-checked*: liveness (`JobsEnd`, `DeleteConverges`, `StartsUp`, `Answered`),
since the prover does not handle fairness and ENABLED.

## 5. Not modelled

NetBird parsing, the gateway's HTML, static files, `/status` and `/healthz`, the OCI
request builders and the listing of addresses, the order of bytes in XDP's maps, the
contents of read-only answers, installation files: pure functions or I/O without state
that the properties could see. NSG rules are only the requests of the gateway for them.
The generations and events of the in-memory store only grow and decide nothing. A
`tcpdump` or `ping` that outlives its timeout changes nothing the model keeps.

`map delete --skip-reconcile` deletes a row without removing its rules by design; it is
left out of `Reconciler`, whose `NoOrphanRules` it would defeat. In
`Reconciler` an allocation is one step that writes back a stale copy when requests
overlap, since its commands are in `OciLifecycle`;
releases, which leave the edge address alone, are not there. Two processes that start
together may store defaults over a configuration (`ensure_edge_config` is two steps in
`SqliteStore`); no property is stated of who wins.

`validate_edge_config` leaves out the tests of interface names and of unspecified CIDRs:
the model accepts configurations the code refuses, so that what holds in it holds in the
code. In `OciLifecycle` the reconcile in the middle of a delete is only a point at which it
may end: an XDP row that makes every reconcile refuse is in `Reconciler` (`XdpBlocks`), and
`DeleteConverges` does not speak of it. Commands that outlive the agent's handler that
started them are in `Reconciler` and `OciLifecycle`; `NothingAfterAnswer` is about the
handlers themselves. In `Gateway` what is stored is left out, the mock's mappings included:
whether a list is older or newer than a form is all its pages are asked for.

## 6. Plan

Done: the modules and proofs above. Next, in this order:

1. Proofs: what the liveness properties rest on, as invariants (a step of a job that runs
   can always be taken; the number of rows a loop has yet to visit falls with each step).
2. `Startup`: `load_config`, `resolve_edge_config` and the agent's stale configuration.
3. Pure modules checked against reference definitions: CIDR tests of `validation.rs`,
   `parse_route_interface`.
