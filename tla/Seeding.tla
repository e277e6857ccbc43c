------------------------------ MODULE Seeding -------------------------------
(***************************************************************************)
(* The target's seeding workflow: the agent's workflow registry and        *)
(* run_workflow (crates/pgshard-agent/src/workflow.rs), the filtered copy  *)
(* and the applier it drives (crates/pgshard-repl/src/copy.rs, apply.rs),  *)
(* and what it reports to the operator.                                    *)
(*                                                                         *)
(* Every workflow here seeds one target database, from a slot of its own   *)
(* on one source. An LSN is the number of a transaction of the source. A   *)
(* transaction changes one row of one table, truncates it, or carries a    *)
(* journal. Row contents, types and catalogs are the matter of Apply.      *)
(*                                                                         *)
(* A session outlives the worker that opened it until the server notices:  *)
(* it keeps the slot active, the stream lease held, and may still finish a *)
(* COMMIT that was on its way (a ghost).                                   *)
(***************************************************************************)
EXTENDS Integers, Sequences, FiniteSets

CONSTANTS Workflows, Keys, Kept, Vals, Base,
          MaxTxns,   \* bounds the source's transactions
          MaxAlters, \* bounds ALTER PUBLICATION
          MaxStarts, \* bounds StartWorkflow
          MaxFaults  \* bounds crashes and lost connections

ASSUME SeedingAssumption ==
    /\ Kept \subseteq Keys
    /\ Base \subseteq Keys \X Vals
    /\ {MaxTxns, MaxAlters, MaxStarts, MaxFaults} \subseteq Nat

VARIABLES
    log, pubVersion, pubAll,       \* the source and its publication
    slot, active,                  \* each workflow's slot (-1: none), in use?
    table, progress, lease, ghost, \* the target database
    pc, stop, phase, applied, journal, error, \* handles, workers, statuses
    from, at, seen, got, checkpoint,          \* locals of run_workflow
    held, tainted,                 \* history: what the target's table holds
    starts, faults

source == <<log, pubVersion, pubAll>>
target == <<table, progress, lease, ghost>>
status == <<phase, applied, journal, error>>
locals == <<from, at, seen, got, checkpoint>>
history == <<held, tainted>>
counts == <<starts, faults>>
seedVars == <<source, slot, active, target, pc, stop, status, locals, history, counts>>

None == -1
All(v) == [w \in Workflows |-> v]
NoGhost == [by |-> None, touches |-> FALSE, rows |-> {}, lsn |-> None, held |-> None]

-----------------------------------------------------------------------------
\* The source's transactions.
Change(op, k, k2, v) == [op |-> op, k |-> k, k2 |-> k2, v |-> v, pub |-> pubAll]

HasKey(rows, k) == \E v \in Vals : <<k, v>> \in rows
Without(rows, k) == {r \in rows : r[1] # k}

\* A row is inserted, updated (in place when k2 = k) or deleted.
Row(rows, c) ==
    CASE c.op = "insert"   -> rows \cup {<<c.k, c.v>>}
      [] c.op = "update"   -> Without(rows, c.k) \cup {<<c.k2, c.v>>}
      [] c.op = "delete"   -> Without(rows, c.k)
      [] c.op = "truncate" -> {}
      [] c.op = "journal"  -> rows

Legal(rows, c) ==
    CASE c.op = "insert" -> ~HasKey(rows, c.k)
      [] c.op = "update" -> HasKey(rows, c.k) /\ (c.k2 = c.k \/ ~HasKey(rows, c.k2))
      [] c.op = "delete" -> HasKey(rows, c.k)
      [] OTHER -> TRUE

InTarget(rows) == {r \in rows : r[1] \in Kept}

IsJournal(c) == c.op = "journal"

SourceAt(n) ==
    LET after[i \in 0 .. Len(log)] == IF i = 0 THEN Base ELSE Row(after[i - 1], log[i])
    IN  after[n]

Transactions ==
    {Change("insert", k, k, v) : k \in Keys, v \in Vals} \cup
    {Change("update", k, k2, v) : k \in Keys, k2 \in Keys, v \in Vals} \cup
    {Change("delete", k, k, 0) : k \in Keys} \cup
    {Change("truncate", 0, 0, 0)} \cup
    {[Change("journal", 0, 0, 0) EXCEPT !.pub = TRUE]}

\* A transaction commits. Whether pgoutput will ship it is decided by the
\* publication as it stands then; journals are shipped whatever it says.
Write ==
    /\ Len(log) < MaxTxns
    /\ \E c \in Transactions :
        /\ Legal(SourceAt(Len(log)), c)
        /\ log' = Append(log, c)
    /\ UNCHANGED <<pubVersion, pubAll, slot, active, target, pc, stop, status, locals,
                   history, counts>>

\* ALTER PUBLICATION: it stops publishing everything, or does so again.
Alter ==
    /\ pubVersion < MaxAlters
    /\ pubVersion' = pubVersion + 1
    /\ pubAll' = ~pubAll
    /\ UNCHANGED <<log, slot, active, target, pc, stop, status, locals, history, counts>>

-----------------------------------------------------------------------------
\* The registry: StartWorkflow, StopWorkflow.
Finished(w) == pc[w] = "finished"

\* start(): a worker that has not finished keeps its claims; an identical spec
\* is acknowledged without another worker, anything else is refused.
Start(w) ==
    /\ starts < MaxStarts
    /\ \A u \in Workflows : Finished(u)
    /\ starts' = starts + 1
    /\ pc' = [pc EXCEPT ![w] = "preflight"]
    /\ stop' = [stop EXCEPT ![w] = FALSE]
    /\ phase' = [phase EXCEPT ![w] = "Init"]
    /\ applied' = [applied EXCEPT ![w] = 0]
    /\ journal' = [journal EXCEPT ![w] = 0]
    /\ error' = [error EXCEPT ![w] = "none"]
    /\ UNCHANGED <<source, slot, active, target, locals, history, faults>>

Stop(w) ==
    /\ phase[w] # "None" /\ ~stop[w]
    /\ stop' = [stop EXCEPT ![w] = TRUE]
    /\ UNCHANGED <<source, slot, active, target, pc, status, locals, history, counts>>

-----------------------------------------------------------------------------
\* run_workflow, one step per statement that another session could observe.
Goto(w, next) == pc' = [pc EXCEPT ![w] = next]

\* run_workflow returns, its locals go: the status turns terminal first, the
\* task's handle finishes later (Finish).
End(w, final, e) ==
    /\ Goto(w, "ending")
    /\ phase' = [phase EXCEPT ![w] = final]
    /\ error' = [error EXCEPT ![w] = e]
    /\ from' = [from EXCEPT ![w] = 0]
    /\ at' = [at EXCEPT ![w] = 1]
    /\ seen' = [seen EXCEPT ![w] = 0]
    /\ got' = [got EXCEPT ![w] = FALSE]
    /\ checkpoint' = [checkpoint EXCEPT ![w] = None]
    /\ UNCHANGED <<applied, journal>>

Finish(w) ==
    /\ pc[w] = "ending"
    /\ Goto(w, "finished")
    /\ UNCHANGED <<source, slot, active, target, stop, status, locals, history, counts>>

\* Connect and preflight: nothing is touched yet; the publication must publish
\* everything, and its version is remembered.
Preflight(w) ==
    /\ pc[w] = "preflight"
    /\ IF pubAll
       THEN /\ Goto(w, "slot")
            /\ seen' = [seen EXCEPT ![w] = pubVersion]
            /\ UNCHANGED <<status, from, at, got, checkpoint>>
       ELSE End(w, "Error", "publication")
    /\ UNCHANGED <<source, slot, active, target, stop, history, counts>>

\* A slot left by an earlier attempt is dropped, unless a session uses it.
DropSlot(w) ==
    /\ pc[w] = "slot"
    /\ IF active[w]
       THEN End(w, "Error", "slot") /\ UNCHANGED slot
       ELSE /\ Goto(w, "create")
            /\ slot' = [slot EXCEPT ![w] = None]
            /\ UNCHANGED <<status, locals>>
    /\ UNCHANGED <<source, active, target, stop, history, counts>>

\* The slot's consistent point is the snapshot it exports. The slot is not in
\* use by this session until START_REPLICATION.
CreateSlot(w) ==
    /\ pc[w] = "create"
    /\ Goto(w, "clear")
    /\ slot' = [slot EXCEPT ![w] = Len(log)]
    /\ from' = [from EXCEPT ![w] = Len(log)]
    /\ phase' = [phase EXCEPT ![w] = "Copy"]
    /\ UNCHANGED <<source, active, target, stop, applied, journal, error, at, seen, got,
                   checkpoint, history, counts>>

\* The locks a ghost's session holds until its COMMIT is carried out or not.
LocksTable == ghost.touches
LocksProgress(w) == ghost.by = w /\ ghost.lsn # None /\ progress[w] # None

\* The consumer's old checkpoint is deleted. A row a ghost is updating is
\* waited for; a row it is inserting cannot be seen.
ClearCheckpoint(w) ==
    /\ pc[w] = "clear" /\ ~LocksProgress(w)
    /\ Goto(w, "truncate")
    /\ progress' = [progress EXCEPT ![w] = None]
    /\ UNCHANGED <<source, slot, active, table, lease, ghost, stop, status, locals, history,
                   counts>>

\* A stop is honoured between tables. TRUNCATE waits for the table's lock.
Truncate(w) ==
    /\ pc[w] = "truncate"
    /\ IF stop[w]
       THEN End(w, "Stopped", "none") /\ UNCHANGED <<table, history>>
       ELSE /\ ~LocksTable
            /\ Goto(w, "copy")
            /\ table' = {} /\ held' = None /\ tainted' = FALSE
            /\ UNCHANGED <<status, locals>>
    /\ UNCHANGED <<source, slot, active, progress, lease, ghost, stop, counts>>

\* A plausible slip: the copy reads the source's rows of the moment.
CopiedNow(w) == table \cup InTarget(SourceAt(Len(log)))

\* copy_filtered: the snapshot's rows that fall in the range, in one
\* transaction of the target.
Copied(w) == table \cup InTarget(SourceAt(from[w]))

Copy(w) ==
    /\ pc[w] = "copy"
    /\ Goto(w, "attach")
    /\ table' = Copied(w) /\ held' = from[w]
    /\ UNCHANGED <<source, slot, active, progress, lease, ghost, stop, status, locals, tainted,
                   counts>>

\* A plausible slip: the stream is asked to start at the slot's position, so
\* that its last transaction comes again.
AttachInclusive(w) ==
    /\ pc[w] = "attach"
    /\ Goto(w, "lease")
    /\ active' = [active EXCEPT ![w] = TRUE]
    /\ at' = [at EXCEPT ![w] = IF slot[w] = 0 THEN 1 ELSE slot[w]]
    /\ UNCHANGED <<source, slot, target, stop, status, from, seen, got, checkpoint, history,
                   counts>>

\* START_REPLICATION resumes the slot where it was confirmed last.
Attach(w) ==
    /\ pc[w] = "attach"
    /\ Goto(w, "lease")
    /\ active' = [active EXCEPT ![w] = TRUE]
    /\ at' = [at EXCEPT ![w] = slot[w] + 1]
    /\ UNCHANGED <<source, slot, target, stop, status, from, seen, got, checkpoint, history,
                   counts>>

\* Applier::new: take the stream lease, or give up after the lock timeout;
\* load the checkpoint. Only then is the workflow reported as streaming.
Lease(w) ==
    /\ pc[w] = "lease"
    /\ IF lease[w]
       THEN End(w, "Error", "fenced") /\ UNCHANGED lease
       ELSE /\ Goto(w, "stream")
            /\ lease' = [lease EXCEPT ![w] = TRUE]
            /\ checkpoint' = [checkpoint EXCEPT ![w] = progress[w]]
            /\ phase' = [phase EXCEPT ![w] = "Streaming"]
            /\ applied' = [applied EXCEPT ![w] = from[w]]
            /\ UNCHANGED <<journal, error, from, at, seen, got>>
    /\ UNCHANGED <<source, slot, active, table, progress, ghost, stop, history, counts>>

-----------------------------------------------------------------------------
\* The streaming loop.
Streaming(w) == pc[w] = "stream"

\* pgoutput ships nothing of a transaction the publication left out.
Omit(w) ==
    /\ Streaming(w) /\ at[w] <= Len(log) /\ ~log[at[w]].pub
    /\ at' = [at EXCEPT ![w] = @ + 1]
    /\ tainted' = TRUE
    /\ UNCHANGED <<source, slot, active, target, pc, stop, status, from, seen, got, checkpoint,
                   held, counts>>

\* A row crosses the boundary of the range when only one of its keys is kept.
Crosses(c) == c.op = "update" /\ (c.k \in Kept) # (c.k2 \in Kept)

\* The change of a transaction arrives and is buffered, if it can be.
Receive(w) ==
    /\ Streaming(w) /\ at[w] <= Len(log) /\ log[at[w]].pub /\ ~got[w]
    /\ LET c == log[at[w]] IN
        IF c.op = "truncate" THEN End(w, "Error", "truncate")
        ELSE IF Crosses(c) THEN End(w, "Error", "boundary")
        ELSE /\ got' = [got EXCEPT ![w] = TRUE]
             /\ UNCHANGED <<pc, status, from, at, seen, checkpoint>>
    /\ UNCHANGED <<source, slot, active, target, stop, history, counts>>

\* What the applier does with the transaction: rows outside the range were
\* not handed to it.
Concerns(c) == ~IsJournal(c) /\ c.k \in Kept
Applied(w) == LET c == log[at[w]] IN IF Concerns(c) THEN Row(table, c) ELSE table

\* A plausible slip: the position is acknowledged when the commit arrives,
\* before the target made it durable.
CommitAcknowledged(w) ==
    /\ Streaming(w) /\ got[w]
    /\ Goto(w, "apply")
    /\ slot' = [slot EXCEPT ![w] = at[w]]
    /\ UNCHANGED <<source, active, target, stop, status, locals, history, counts>>

\* The commit arrives. A transaction at or before the checkpoint is skipped;
\* every statement must affect one row, and the checkpoint must move forward;
\* then COMMIT is sent.
Commit(w) ==
    /\ Streaming(w) /\ got[w]
    /\ LET c == log[at[w]] IN
        IF at[w] <= checkpoint[w]
        THEN Goto(w, "report") /\ UNCHANGED <<status, locals>>
        ELSE IF Concerns(c) /\ ~Legal(table, c) THEN End(w, "Error", "diverged")
        ELSE IF progress[w] >= at[w] THEN End(w, "Error", "fenced")
        ELSE Goto(w, "apply") /\ UNCHANGED <<status, locals>>
    /\ UNCHANGED <<source, slot, active, target, stop, history, counts>>

\* The target commits the rows and the checkpoint together.
Durable(w) ==
    /\ pc[w] = "apply"
    /\ Goto(w, "report")
    /\ table' = Applied(w) /\ held' = at[w]
    /\ progress' = [progress EXCEPT ![w] = at[w]]
    /\ checkpoint' = [checkpoint EXCEPT ![w] = at[w]]
    /\ UNCHANGED <<source, slot, active, lease, ghost, stop, status, from, at, seen, got,
                   tainted, counts>>

\* A plausible slip: the operator hears of journals only.
ReportJournals(w) ==
    /\ pc[w] = "report"
    /\ Goto(w, "stream")
    /\ slot' = [slot EXCEPT ![w] = at[w]]
    /\ IF IsJournal(log[at[w]])
       THEN applied' = [applied EXCEPT ![w] = at[w]] /\ journal' = [journal EXCEPT ![w] = at[w]]
       ELSE UNCHANGED <<applied, journal>>
    /\ got' = [got EXCEPT ![w] = FALSE]
    /\ at' = [at EXCEPT ![w] = @ + 1]
    /\ UNCHANGED <<source, active, target, stop, phase, error, from, seen, checkpoint, history,
                   counts>>

\* The position is confirmed to the source and reported to the operator, with
\* the journal the transaction carried.
Report(w) ==
    /\ pc[w] = "report"
    /\ Goto(w, "stream")
    /\ slot' = [slot EXCEPT ![w] = at[w]]
    /\ applied' = [applied EXCEPT ![w] = at[w]]
    /\ journal' = IF IsJournal(log[at[w]]) THEN [journal EXCEPT ![w] = at[w]] ELSE journal
    /\ got' = [got EXCEPT ![w] = FALSE]
    /\ at' = [at EXCEPT ![w] = @ + 1]
    /\ UNCHANGED <<source, active, target, stop, phase, error, from, seen, checkpoint, history,
                   counts>>

\* A plausible slip: what the publication publishes now is compared, not the
\* versions of its catalog rows.
RecheckShape(w) ==
    /\ Streaming(w) /\ ~pubAll
    /\ End(w, "Error", "drift")
    /\ UNCHANGED <<source, slot, active, target, stop, history, counts>>

\* The publication is polled, and any change of it fails the workflow.
Recheck(w) ==
    /\ Streaming(w) /\ pubVersion # seen[w]
    /\ End(w, "Error", "drift")
    /\ UNCHANGED <<source, slot, active, target, stop, history, counts>>

StopStream(w) ==
    /\ Streaming(w) /\ stop[w]
    /\ End(w, "Stopped", "none")
    /\ UNCHANGED <<source, slot, active, target, stop, history, counts>>

-----------------------------------------------------------------------------
\* Faults. A COMMIT that was sent may still be carried out.
Live(w) == pc[w] \notin {"finished", "ending"}

InDoubt(w) ==
    CASE pc[w] = "copy"  -> {[by |-> w, touches |-> TRUE, rows |-> Copied(w),
                              lsn |-> None, held |-> from[w]]}
      [] pc[w] = "apply" -> {[by |-> w, touches |-> Concerns(log[at[w]]), rows |-> Applied(w),
                              lsn |-> at[w], held |-> at[w]]}
      [] OTHER -> {}

\* A connection of the worker breaks: run_workflow fails.
Lose(w) ==
    /\ faults < MaxFaults /\ Live(w)
    /\ faults' = faults + 1
    /\ End(w, "Error", "lost")
    /\ ghost' \in IF ghost = NoGhost THEN {NoGhost} \cup InDoubt(w) ELSE {ghost}
    /\ UNCHANGED <<source, slot, active, table, progress, lease, stop, history, starts>>

\* The agent restarts: workers, handles and statuses are gone.
Crash ==
    /\ faults < MaxFaults /\ \E w \in Workflows : phase[w] # "None"
    /\ faults' = faults + 1
    /\ pc' = All("finished")
    /\ stop' = All(FALSE)
    /\ phase' = All("None")
    /\ applied' = All(0)
    /\ journal' = All(0)
    /\ error' = All("none")
    /\ from' = All(0) /\ at' = All(1) /\ seen' = All(0) /\ got' = All(FALSE)
    /\ checkpoint' = All(None)
    /\ ghost' \in IF ghost = NoGhost THEN {NoGhost} \cup UNION {InDoubt(w) : w \in Workflows}
                  ELSE {ghost}
    /\ UNCHANGED <<source, slot, active, table, progress, lease, history, starts>>

\* The server ends the sessions of a worker that is gone.
WalsenderGone(w) ==
    /\ active[w] /\ pc[w] \notin {"lease", "stream", "apply", "report"}
    /\ active' = [active EXCEPT ![w] = FALSE]
    /\ UNCHANGED <<source, slot, target, pc, stop, status, locals, history, counts>>

ApplierGone(w) ==
    /\ lease[w] /\ pc[w] \notin {"stream", "apply", "report"} /\ ghost.by # w
    /\ lease' = [lease EXCEPT ![w] = FALSE]
    /\ UNCHANGED <<source, slot, active, table, progress, ghost, pc, stop, status, locals,
                   history, counts>>

GhostEnds ==
    /\ ghost # NoGhost
    /\ ghost' = NoGhost
    /\ \/ UNCHANGED <<table, progress, held>>
       \/ /\ IF ghost.touches THEN table' = ghost.rows /\ held' = ghost.held
             ELSE UNCHANGED <<table, held>>
          /\ progress' = IF ghost.lsn = None THEN progress
                         ELSE [progress EXCEPT ![ghost.by] = ghost.lsn]
    /\ UNCHANGED <<source, slot, active, lease, pc, stop, status, locals, tainted, counts>>

-----------------------------------------------------------------------------
SeedInit ==
    /\ log = <<>> /\ pubVersion = 0 /\ pubAll = TRUE
    /\ slot = All(None)
    /\ active = All(FALSE)
    /\ table = {} /\ progress = All(None)
    /\ lease = All(FALSE) /\ ghost = NoGhost
    /\ pc = All("finished")
    /\ stop = All(FALSE)
    /\ phase = All("None")
    /\ applied = All(0)
    /\ journal = All(0)
    /\ error = All("none")
    /\ from = All(0) /\ at = All(1) /\ seen = All(0) /\ got = All(FALSE)
    /\ checkpoint = All(None)
    /\ held = None /\ tainted = FALSE
    /\ starts = 0 /\ faults = 0

Worker(w) ==
    \/ Preflight(w) \/ DropSlot(w) \/ CreateSlot(w) \/ ClearCheckpoint(w) \/ Truncate(w)
    \/ Copy(w) \/ Attach(w) \/ Lease(w) \/ Omit(w) \/ Receive(w) \/ Commit(w) \/ Durable(w)
    \/ Report(w) \/ Recheck(w) \/ StopStream(w) \/ Finish(w)

Server == GhostEnds \/ \E w \in Workflows : WalsenderGone(w) \/ ApplierGone(w)

SeedNext ==
    \/ Write \/ Alter \/ Crash \/ Server
    \/ \E w \in Workflows : Start(w) \/ Stop(w) \/ Worker(w) \/ Lose(w)

SeedSpec == SeedInit /\ [][SeedNext]_seedVars

-----------------------------------------------------------------------------
\* The journal the operator reads, while its workflow is reported as streaming.
Acked ==
    LET heard == {journal[w] : w \in {u \in Workflows : phase[u] = "Streaming"}} \cup {0}
    IN  CHOOSE j \in heard : \A i \in heard : i <= j

Whole == held # None /\ ~tainted

R == INSTANCE Replica WITH
        Step <- Row, Keep <- InTarget,
        pos <- IF Whole THEN held ELSE None,
        rows <- IF Whole THEN table ELSE {},
        acked <- IF Whole THEN Acked ELSE 0

\* Seeding keeps its promise (Replica) as long as the publication the worker
\* started from still publishes everything: through crashes, lost connections,
\* commits in doubt and re-seeds, the target holds exactly its range of some
\* prefix of the source's transactions, the prefix never shrinks except for a
\* new seed, and a journal is reported only once that prefix reaches it.
Replicates == R!Spec

\* A statement that affects no row, or a duplicate key (RowCountMismatch), is
\* met only when a change was left out of the stream: the copy and the stream
\* neither overlap nor leave a gap.
DivergenceIsReal == 
    \A w \in Workflows : pc[w] = "ending" /\ error[w] = "diverged" => tainted

\* A slot is never confirmed past what its target made durable, and the
\* operator never reads a position the target does not hold.
PositionsHonest ==
    \A w \in Workflows :
        /\ pc[w] \in {"stream", "apply", "report"} => slot[w] <= from[w] \/ slot[w] <= progress[w]
        /\ phase[w] = "Streaming" => applied[w] <= held

\* A workflow that streams comes to apply everything the source committed, or
\* ends, unless the publication leaves something out.
CatchesUp ==
    \A w \in Workflows :
        phase[w] = "Streaming" ~> phase[w] # "Streaming" \/ applied[w] = Len(log) \/ tainted

\* What must end a worker ends it: ALTER PUBLICATION, even undone at once, ends
\* every workflow that streams (its poll compares row versions), and StopWorkflow
\* the worker it finds, at whatever step that is.
StreamsEnd ==
    \A w \in Workflows :
        /\ phase[w] = "Streaming" /\ pubVersion # seen[w] ~> phase[w] # "Streaming"
        /\ stop[w] ~> Finished(w)
=============================================================================
