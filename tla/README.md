# pgshard: TLA+ specifications

pgshard runs sharded PostgreSQL on Kubernetes. A Go operator (`operator/`)
reconciles custom resources (clusters, nodes, shards, reshards, routing); Rust
programs (`crates/`) do the work next to the data: an agent in every PostgreSQL
pod, routers in front of the clients, a replication library that seeds reshards.
This directory models the system, model-checks it with TLC on small instances
and proves theorems about it with TLAPS. `PROJECT.json` maps every definition to
the source lines it stands for, and lists the hazards each property is about.

## The system and its modules

A *reshard* replaces a source shard by target shards. The agent of each target
runs a *workflow* that copies its key range from the source and then follows the
source's logical replication stream. When the targets have caught up, the
operator *cuts over*: it gates writes to the range, waits for the routers'
write leases to run out, has the source's agent fence the database and write a
*journal* (the barrier) into its WAL, waits until every target's workflow has
reported the barrier, commits, and publishes a routing that names the targets.
Routers follow the published topology, plan each statement against it, dispatch
it to shards, and take the ids of global sequences from blocks they reserve.

| Part of the code | Modules |
|---|---|
| Reshard controller from `CatchingUp` on, routing controller, as they use the agent | `Cutover`, `CutoverInvariant` |
| Agent: write fence (`pg.rs`) | `WriteFence` |
| Agent: journals and restore points (`service.rs`) | `Journal` |
| Agent: decision epochs and schema log (`epoch.rs`, `schema.rs`, `service.rs`) | `Commands` |
| Agent: databases and their provenance (`pg.rs`) | `Provision` |
| Agent: workflow registry and worker, applier, checkpoint (`workflow.rs`, `apply.rs`, `copy.rs`) | `Seeding`, and `Replica`, which it implements |
| What one run does to rows: specification, preflight, publication, filter, statements | `Apply` |
| Replication protocol: pgoutput, handshake, COPY text | `Wire` |
| Router: topology watcher, snapshot swap, write lease | `Lease` |
| Router: building a snapshot, dispatching a statement | `Router` |
| Router: collecting, merging and forwarding answers | `Scatter` |
| Planner and SQL classification | `Planner` |
| Key ranges, shard catalog | `Keyspace` |
| Router: sequence blocks | `Sequence` |
| Router: buffering gate engine | `Gate` |

`MCCutover`, `MCRouter`, `MCLive`, `MCSeeding` and `MCAgent` are the instances
for TLC; `CutoverProofs`, `BarrierProofs`, `FenceProofs`, `SeedingProofs`,
`AgentProofs`, `RouterProofs`, `GateProofs` and `KeyspaceProofs` the proofs.
An operator introduced as "a plausible slip", and the like-named variants in
`Cutover` and `Gate`, is a wrong version of the definition after it, which
`PROJECT.json` uses to show that a property can fail; no specification uses it.

The modules meet at named points. `Cutover` takes a fence, a journal and an
acknowledgement as one step each. `WriteFence` and `Journal` are the detailed
behaviour of the first two: the fence's outcome in `Cutover` is what `FenceHolds`
and `UnfenceHolds` promise, and a journal's what `JournalOnce` and
`AnswersAgree` do. `Replica` is the promise behind the third: a target that
acknowledges a journal holds the source's rows up to it. `Lease` bounds how long
a router goes on writing by an old routing, and `Cutover` does not even rely on
that: it lets a client's write arrive until the fence.

### The cutover (`Cutover`)

A reshard that has caught up *claims* the source (an annotation), opens a
*window* by asking for a write gate with a deadline, waits until it sees the
gate in the published routing and the routers' write leases have run out,
records that it owes an un-fence, *fences* the source, emits a *barrier*, waits
until every target has decoded it, and *commits*. Then it flips the targets to
serving, hides the source, waits for the routing that says so, releases the
claim and withdraws the gate. A deadline that passes before the commit rolls
back to catching up with a new attempt; a replaced cluster, a foreign target or
a rejected barrier fails the cutover; a deletion cleans up, or completes a
committed switch first.

- `rs`, `src`, `tgt`, `routing` are the API objects. Status, finalizers and
  deletion mark of a reshard are the record `ReshardObject`; `exists` turns
  false when a deleted object loses its last finalizer.
- `seenRs`, `seenSrc`, `seenTgt`, `seenRouting` are the operator's informer
  caches, one per kind, each behind by any amount. A write succeeds only if the
  object is the one that was read: `Current` for a reconcile in one step,
  `Unchanged` for one in several. `unfenceSource` alone reads the live objects.
- A reconcile that changes one object is one action (`ObserveGate`,
  `RecordFence`, `CommitSwitch`, ...). One with several external effects keeps
  its place and what it has read in `op`, and takes one step per effect
  (`FenceSource`, `EmitBarrier`, `RecordBarrier`); `AbortReconcile` stops it
  between any two, as a failed call, a hold or a crash of the operator does.
- The routing controller syncs finalizers (`SyncGateFinalizer`) and compiles and
  writes (`PublishRouting`); with the event `slowCompile` the two halves are
  separate (`CompileRouting`, `WriteRouting`).
- `db` is the source database, `journal` the agent's recorded ids, `ack` what a
  reshard's targets have decoded. `ClientWrite` may happen whenever the database
  takes writes.
- `Events` selects which faults a run has: deletion, replaced cluster, foreign
  targets (and their return), half-failed fences, timeouts, restarts of agent
  and workflows, slow compiles, any number of aborted reconciles.

### The agent

`WriteFence` runs `fence_writes` statement by statement: close admissions, check
for prepared transactions, drain writers (`DrainRound`: one look at
`pg_stat_activity` and the terminations that follow), check again, set the
read-only default (`DoSeal`); and the un-fence the other way. Backends connect,
are admitted, load the default, write, prepare and exit in between. A call may
fail anywhere or be given up, and then the statement it had sent may still land
(`inFlight`). The model assumes that sessions do not override
`default_transaction_read_only` themselves; `pgshard_` readers are spared by
the drain and are not among `Sessions`.

`Journal` has one journal id and one restore point, each with its single-flight
slot, asked for by several tasks; `Commands` the handlers of decisions and
schema changes under the guard and the log that make them run once; `Provision`
the three statements of `CreateDatabase` against other callers and drops.

`Seeding` is the workflow registry and `run_workflow`. An LSN is the number of a
transaction. `pc` is the place of a worker, one action per external effect: drop
and create the slot, clear the checkpoint, truncate, copy, attach, take the
stream lease, receive, commit (`Commit`, `Durable`), report. `Lose` breaks a
connection, `Crash` restarts the agent; the sessions of a dead worker stay until
the server notices and may leave a COMMIT in flight (`ghost`). `Alter` changes
the publication; `Omit` passes over a change that was not published.

`Apply` and `Wire` are functions. `Apply` compares, for every specification,
pair of catalogs and change it enumerates, the rows a run leaves in the target
with the rows of the range; `Wire` compares the decoder with the frames
PostgreSQL writes, whose cells are abstract, and walks the handshake.

### The router

`Lease` interleaves the poller, the start of the process, the watch loop and one
request. The snapshot and its announcement travel on two channels; time is a
boot clock and a wall clock that can be set; an epoch may not build.

`Planner` works on parse trees cut down to what the planner looks at, and
`Scatter` on messages and result sets. Their reference definitions are what
PostgreSQL would do: which rows a predicate selects, which names a query
resolves, how an `ORDER BY` orders. A text literal carries what the router's
parser and PostgreSQL's input function read in it, because they differ.
`Router` builds a snapshot and dispatches; `Keyspace` has `Width` digits in base
`Base` instead of 8 in base 256.

`Sequence` has the row of the system database, one block cache per router and
the threads that use it. `Gate` has the engine's operations, each under its
mutex, and sessions that follow its recheck contract. The router does not use
the engine yet: `Router::build` refuses a topology that has gates.

## Runs

Parts that share no state are checked in one run: `focus` picks the one that
moves, so each is explored completely, but not their product. Functions are
evaluated on one input per initial state (`input`).

| Run | Instance | Shows |
|---|---|---|
| `cutover_faults` | 1 reshard, 2 targets, 2 attempts; aborts, deletion, foreign target, replaced cluster, half-failed fence | `NoWriteAfterBarrier`: no write after the barrier of a committed switch; `NoStrandedFence`: a closed source has somebody who owes its opening; `NoSplitBrain`; `NeverReadmitted`: no ungated routing names a committed source; `TypeOK` |
| `cutover_transient` | 1 reshard, 1 target, 2 attempts; aborts, timeouts, restarts, foreign and back, slow compiles | `BarrierExists`: a recorded barrier was written |
| `cutover_pair` | 2 symmetric reshards, 1 attempt; aborts, foreign targets | `AtMostOneSwitch`, and the inductive `CutoverInv` |
| `cutover_live` | 1 reshard, 2 attempts; deletion, one abort; `FairSpec` | `GateWindowBounded`, `SwitchCompletes`, `DeletionCompletes` |
| `router` | 3 shards over 8 ids; 13,000 statements, 800 scattered reads, 3,400 topologies, 50,000 lists of ranges; 2 routers with 3 threads, 4 ids, blocks of 0 to 2; 2 epochs, 3 ticks | `StatementsPlanned`, `DispatchesSafe`, `AnswersExact`, `EveryIdOwned`; `UniqueIds`, `SingleFlight`; `LeaseHonest`, `AnnouncementsCount`, `AdmittedWithinLease` |
| `router_live` | 3 sessions, 2 gates asserted twice, room for 2; 3 epochs, 2 ticks; fairness | `WithinLimits`, `ReplaysOnNewTopology`, `Fifo`, `RefusedOnlyWhenFull`, `NobodyStranded`; `RouterFollows` |
| `seeding` | 2 symmetric workflows on one target, 2 keys (one kept), 2 values, 2 transactions, 2 starts, 1 fault, 1 ALTER | `Replicates`: `Seeding` implements `Replica`; `DivergenceIsReal`, `PositionsHonest` |
| `agent` | each part small (below); fairness for the workflow | `FenceHolds`, `UnfenceHolds`; `JournalOnce`, `AnswersAgree`; `NoPhantomSuccess`, `RecordsHonest`; `ProvenanceHolds`; `RunsExact`, `WireExact`; `CatchesUp`, `StreamsEnd` |
| `refence`, `restored`, `failed_gate`, `collected` | as the finding needs | expected violations, below |

Deadlock is checked where the parts cannot stop (`router`, `router_live`: a
function's input stays put and a clock goes on); the others end when a reshard,
a call or a bound has.

Bounds and why they are enough. *Cutover*: two attempts make a rollback and
whatever the second finds left by the first; two WAL positions are a barrier and
a write on either side; two targets can be half flipped; two reshards compete.
*Sequence*: two threads share a router and one has its own; four ids let blocks
of two sizes meet and run into the end of bigint; one lost UPDATE suffices to
lose a block. *Lease*: two epochs are a swap, a lease of 1 in 3 ticks expires,
and two wall clocks let it be set either way; `router_live` has a third epoch,
so that one is skipped. *Gate*: three sessions against room for two fill a queue
with one left over; a gate on writes of a range and one on everything overlap;
the time after `LastArrival` is long enough for every wait to run out. *Seeding*:
one key inside and one outside the range are enough for a row to move in or out;
two transactions are a change and a journal after it, in either order; two
starts and one fault are a failed seed and its successor. *Agent*: two sessions,
one prepared transaction and four calls give a fence, its failure, a retry and
an un-fence; two tasks and two payloads a race and a conflict on a journal id;
two handlers over two epochs and one schema id the same for commands; two
callers with two markers and two drops for databases; in `agent` the workflow
has one transaction and two ALTERs, so that a publication is changed and
restored. *Functions*: each edit of a good input is one that a check of the code
looks at, taken alone, and in pairs for the two catalogs.

Fairness. `cutover_live`: the work queue retries a reshard until its reconcile
succeeds and a reconcile goes through its steps, informers catch up, deadlines
pass, and the routing controller runs again. The last one is weaker in the code
than it looks: the controller does not watch `PgShardRouting`, and `Write` skips
a routing that equals the cached one, so after a skip against a stale cache it
takes another event on a shard, node, pod, reshard or the cluster to run it
again; these are frequent. Nothing is assumed of users, faults, clients and the
targets' acknowledgements. `GateWindowBounded` is stated for attempts below the
bound, since the last one cannot roll back. `router_live`: the clock advances
and the gate engine's timer calls both clean-ups; the poll interval fires and
the process schedules its tasks (poller, main, watch loop). Nothing is assumed
of the operator, the sessions or the file. `agent`: a worker's next step is
taken (its statements answer or fail), and the source's server ends the sessions
of clients that are gone. Nothing is assumed of writes, ALTERs, stops and faults.

The refinement. `Replica` says what the cutover needs from a target: it is
being seeded and promises nothing, or holds exactly its range of a prefix of the
source's transactions; the prefix grows; a journal is acknowledged when the
prefix has reached it. `Seeding` implements it with `pos` and `rows` taken from
the target's table and `held`, a history variable for the prefix, and `acked`
the greatest journal a streaming workflow reports. A target is mapped to
"being seeded" while it is not `Whole`: after the truncation, or `tainted` by a
change the publication left out. The second is a real limit of the code: between
two polls of the publication an omission is unnoticed, and a journal may be
reported over it. `StreamsEnd` shows that the poll ends such a workflow, also
when the publication was changed back.

### Where the code departs from what it says

Four runs are expected to be violated; each checks a sentence of the code's own
comments (quoted in `PROJECT.json`).

- `failed_gate`: `failCutover` leaves `CutoverGateDeadline` set, and the gate
  follows that field: the source's range refuses writes until the reshard is
  deleted.
- `collected`: targets stay owned by the reshard after the switch, so deleting a
  reshard that has switched deletes the shards that serve.
- `refence`: a reconcile from a cached reshard that predates the last status
  write fences a source that was just un-fenced; the stored status no longer
  owes an un-fence.
- `restored`: `failCutover` un-fences before it persists anything; if the
  operator stops there and the target is no longer foreign afterwards, the
  barrier commits although writes followed it.

More departures, without a run of their own:

- `ClaimHolderExists` (`Cutover`) is violated under the constants of
  `MCCutoverFaults.cfg`. A reconcile that overlaps the deletion writes the claim
  (`ClaimSource`, `DeleteReshard`); the clean-up reads the source from a cache
  that does not show it, finds nothing to release (`NothingToRelease`) and
  removes the finalizer. The claim stays, and no other reshard can take it.
- `NoWriteAfterBarrier` also fails with `timeout` and `agentRestart` together
  (`MaxLsn = 3`): a stale reconcile repeats the freeze, finds its id poisoned and
  un-fences an attempt that has its barrier. `NeverReadmitted` fails with
  `slowCompile`: the gate is recognised by its id, so the second attempt accepts
  the gate of the first, which a compile already under way then withdraws. The
  runs that check these properties leave those events out, and the theorems
  assume their absence where they matter.
- A COMMIT of a journal that succeeds while its connection breaks is reported as
  an error and leaves its slot empty, so that a retry writes a second record for
  one cutover, which the comment of `emit_journal` rules out. `JournalOnce`
  excludes it (`lostReply`).
- `pgshard-plan/src/lib.rs` says that a relation the schema does not know is
  `42P01` wherever it appears; an INSERT, UPDATE or DELETE of one is refused as
  not supported (`0A000`).
- A given-up un-fence whose statement lands during a later fence undoes that
  fence, and the reverse; nothing orders the statements of two calls.
  `FenceHolds` and `UnfenceHolds` exclude it (`clean`).

## Proofs

Each theorem holds for every value of the constants, under the named
assumptions of the module that declares them.

`TypeCorrect` (`CutoverProofs`) proves `TypeOK` of `Cutover`.
`RecordedBarrierExists` proves `BarrierExists` for every choice of events. A
position reaches a status through the agent's journal and the reconcile that
carries it, so the invariant (`BarriersWritten`) says of both what is wanted of
the status: what they hold, if not zero, is a barrier of the database.

`BarrierInvariant` (`BarrierProofs`) proves `BarrierInv`, and from it
`BarrierIsFinal` (no write after the barrier of a committed switch),
`OneSwitch` (at most one reshard commits) and `NoTwoWriters` (routers are sent
to targets only after the commit, with the source closed), for any number of
reshards, targets and attempts and every fault except `timeout` and `restore`
(`PermanentCauses`), which the violations above show to be necessary.
What authorises an un-fence is the live claim and an uncommitted live reshard,
so a committed switch is safe as soon as nobody else can hold the claim
(`CommittedSealed`), and a window that may still commit is safe if every
reconcile able to un-fence it is *doomed* to end its attempt. That is where
permanence is needed: the causes of a failing cutover (`FailSound`), of a
rollback (`RollbackSound`) and of a clean-up (`CleanupSound`) are facts about
the environment that cannot become false, so the attempt they concern can never
commit, whatever its status still says; `LiveSealed` is stated only for
attempts that are not doomed. Reconciles work from old copies, so the invariant
says how old objects and present ones are related (`Earlier`, `CachesEarlier`,
`ViewSound`): an earlier attempt cannot come back, and an object committed since
was at least fenced when it was read. `ClaimHeld` says that whoever believes to
hold the claim does, unless it is finished; `AttemptPristine`, that an attempt
that has not opened its window has left no barrier. The proof has a frame lemma
for each conjunct, a lemma for each group of actions that disturb the same ones,
and `BarrierStep` that puts the groups together.

`FenceNeverStranded` (`FenceProofs`) proves `NoStrandedFence` under the same
assumption; `refence` shows that a time-out breaks it. `FenceInv`, inductive
relative to `BarrierInv`, follows the fence from the one who asks for it to the
one who takes it back. A reshard can fence only from a cached version that is in
its window, records the fence and has not expired; such a reshard holds the
claim and its finalizer, and the stored object records the fence too (`Lapsed`
or `Owes`). While the source is closed, somebody owes the un-fence and its
cached version says so (`FenceOwed`), so whatever handler runs next sees it. A
handler that is about to forget a fence or to release a claim has opened the
source before (`ReleaseSound`), and by then the cached version is one that
cannot fence again (`Over`): this is the point where a stale reconcile would
strand the source.

`CommittedNeverReadmitted` proves the action property `NeverReadmitted`, assuming
besides that a routing is written in the step that compiles it (`PromptCompile`;
with `slowCompile` it fails, above). By `AdmitInv`, every version of a committed
reshard, cached or stored, has the commit, which makes a compile refuse to drop
the gate while it sees the source serving, or still has the gate; and nobody
sees a source hidden that still serves. `CutoverInvHolds` puts the three parts
together as `CutoverInv`, which the run `cutover_pair` checks.

`SeedingReplicates` (`SeedingProofs`) proves the refinement, for any number of
workflows, keys, values, transactions and faults: initial states map to initial
states of `Replica`, and each step to a step or a stutter. `DivergencesAreReal`
and `PositionsAreHonest` prove the two safety properties of the run. The
invariant (`SeedInv`) says what each place of a worker has established: which
slot it holds, where its copy and its stream begin and how the target's table,
checkpoint and history relate to that point, also for the commit that a dead
worker left in flight. The copy's snapshot and the slot's start are the same
transaction, so the stream neither repeats nor omits one; the target's table is
the range of its prefix as long as it is `Whole`; and a position is reported
after the commit that made it durable. The registry runs one worker at a time
(`OneWorker`), and a COMMIT in doubt keeps its successors from the table or from
the stream lease until it is decided (`GhostSound`).

`FenceIsSound` and `UnfenceIsSound` (`AgentProofs`) prove `FenceHolds` and
`UnfenceHolds` for any number of sessions, calls and prepared transactions. The
invariant says what a call has established before each statement
(`FenceProgress`): while admissions are closed nobody new gets the read-write
default, a drain that saw no writer leaves none, and a second check finds the
transactions prepared during the drain; with no opposite statement on its way,
nothing undoes it (`Fenced`, `Unfenced`).

`IdsAreUnique` (`RouterProofs`) proves `UniqueIds` for any number of routers
and threads: all blocks, cached or granted, are disjoint, below the row and
unused (`BlocksUnused`, `BlocksApart`). `ReservationsSingleFlight` proves
`SingleFlight`: the claim is set exactly while one thread works on it.

`StampIsHonest`, `WritesWithinLease` and `AnnouncementsRenew` (`RouterProofs`)
prove `LeaseHonest`, `AdmittedWithinLease` and `AnnouncementsCount`. Epochs are
published in order (`EpochsInOrder`), and every stamp on its way, in the
poller, in the channel, in the router or in a request, was taken while the
source held its epoch (`StampsHonest`, `RequestHonest`).

`SuccessIsReal`, `RecordsAreHonest`, `AnswersAreOne` and `JournalWrittenOnce`
(`AgentProofs`) prove the properties of `Commands` and `Journal`. For the first
two, whatever is on record or about to be was executed, and a schema id is in
flight for exactly one call (`Honest`). For the others, one task at a time works
on a slot and only while it is empty (`SlotLocked`, `SlotHonest`), and unless a
reply was lost an empty slot means that nothing was or will be written
(`OnceInv`).

`ProvenanceKept` (`AgentProofs`) proves `ProvenanceHolds` of `Provision`: only
the call whose CREATE succeeded is about to stamp a database, and nobody else
has stamped it (`OneStamper`).

`LimitsHold`, `ReplaysAreNew`, `ReleasesInOrder` and `RefusalsAreFull`
(`GateProofs`) prove `WithinLimits`, `ReplaysOnNewTopology`, `Fifo` and
`RefusedOnlyWhenFull`, for any number of sessions, gates, limits and
generations. `GateInv` says that the list of gates is sane (an id once, the
queues disjoint and without repetitions) and relates each session to the queue
it waits in. The engine counts waiters by adding up the queues' lengths; with
the invariant that is the number of sessions in them, which is how the limits are
proved. Every clean-up keeps a part of a queue in its order (`Retain`), so its
result is an order-preserving embedding; the sweep over all gates is taken turn
by turn.

`PartitionExact`, `SplitExact` and `TextReadsBack` (`KeyspaceProofs`) prove the
three statements about ranges that `EveryIdOwned` evaluates on small instances,
for every base and width (8 digits in base 256 in the code), every list of
ranges and every number of parts. A list that `validate_partition` accepts is a
chain of adjacent intervals, and an id is in the first that ends after it; a
list that owns every id once begins at 0, since 0 is owned, and each range's end
is owned by the next. A split's cuts are `i * width` divided by `parts`, rounded
down, so no part is an id or more away from its exact width. The text of a bound
is read back by following the leading digits of the number, which the digits
spell one by one; those that were trimmed are zero.

Recursive functions (`Power`, `FromRadix`, the folds of `Gate`) are handled by
proving that a function with the defining equation exists, and then arguing from
the least argument at which the claim fails.

Only model-checked: everything about liveness, which is beyond the prover; the
functions of the planner, the answers, the seeding run and the protocol, and
that a snapshot routes as its topology says (the rest of `EveryIdOwned`), which
recurse over trees, rows and messages with recursive operators and are compared
with reference definitions on enumerated inputs.

## Abstractions

- The source shard always exists and is never replaced by a namesake; the
  reconcile's `SourceReplaced` and `source == nil` branches are not modelled.
- A cache catches up with an object in one step; it never shows an intermediate
  version after a later one has been written.
- The cluster's identity and a target's foreignness are read fresh.
- The quiesce wait and its margin are not timed: a client's write may arrive
  until the fence.
- In `Cutover` a `FenceWrites` call that the operator has given up does not take
  effect later; `WriteFence` has those calls.
- A workflow has one table and one source; a transaction of the source has one
  change. A statement of a dead agent other than a COMMIT (its TRUNCATE, for
  one) is not executed later.
- The replication client delivers whole messages: whether dropping a read in
  `select!` while a standby status is half written can cut it is below the model.
- The hash is any function of the key's canonical value, and texts, collations
  and number formats are a few representatives with the orders they have.
- The sequence reserver's endpoint is that of the one system shard; a router
  builds it once from its first topology and does not follow a move.
- A schema change cancelled between claim and mark stays in flight until the
  agent restarts, and every retry is refused: this is in `Commands`, and no
  property asks for more.

## Not modelled

- Failover (election, identity latch) and the node, shard and cluster
  controllers. An election reads the state of every pod, volume and instance
  that the node controller makes; a faithful model has to begin there. The
  agent's side of a decision is `Commands`.
- The phases of a reshard before `CatchingUp`: validation, targets, seeding
  requests. Their effect on the cutover is its initial state.
- The backup catalog and resolver.
- Agent: `instance.rs` and `status.rs` (an interface and status reports),
  `GetStatus`, `SwitchWal`, `WatchWorkflows`, process start-up. They read, or
  hand on, state that other modules own.
- Router and replication client: sockets, TLS, authentication arithmetic,
  keep-alives, the JSON encoder of `stream.rs`, LSN text. Pure I/O or formats
  no property depends on.
- Parsing and deparsing of SQL, which belong to `pg_query`; generated code and
  configuration.
