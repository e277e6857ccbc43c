------------------------------ MODULE Cutover ------------------------------
(***************************************************************************)
(* The cutover of one source shard by the PgShardReshards that target it:  *)
(* the reshard controller (reshard_cutover.go), the routing controller     *)
(* that publishes its write gate (pgshardrouting_controller.go), the       *)
(* source agent's write fence and journal barrier (pg.rs, service.rs) and  *)
(* the source database whose writes the whole protocol has to stop.        *)
(*                                                                         *)
(* Both controllers run one worker, read the API server through informer   *)
(* caches (the seen* variables) that may lag by any amount, and write with *)
(* optimistic concurrency: an update succeeds only if the object still is  *)
(* the one that was read.  A reconcile with several external effects is    *)
(* spread over several steps and kept in op; AbortReconcile is a failed    *)
(* write or call, a hold, or a crash of the operator, between any two.     *)
(***************************************************************************)
EXTENDS Integers, FiniteSets

CONSTANTS
    Reshards,       \* the PgShardReshards of this source shard
    NoReshard,      \* no claim holder
    NTargets,       \* target shards per reshard
    MaxAttempt,     \* bound on CutoverAttempt
    MaxLsn,         \* bound on the source's WAL position
    MaxAborts,      \* bound on aborted reconciles, without the event "abort"
    Events          \* which of the optional events below may happen

\* A user deletes a reshard, the cluster is replaced, a target turns foreign, a
\* foreign target turns back, FenceWrites fails half-way, EmitJournal times out,
\* the source agent or a target workflow restarts, a compile of the routing
\* controller takes long between its reads and its write, any number of
\* reconciles are aborted.
EventKinds == {"abort", "delete", "replace", "foreign", "restore", "fenceFailure",
               "timeout", "agentRestart", "workflowRestart", "slowCompile"}

ASSUME ReshardsAssumption ==
    /\ IsFiniteSet(Reshards)
    /\ NoReshard \notin Reshards
ASSUME BoundsAssumption ==
    /\ NTargets \in Nat \ {0}
    /\ MaxAttempt \in Nat
    /\ MaxLsn \in Nat
    /\ MaxAborts \in Nat
    /\ Events \subseteq EventKinds

VARIABLES
    rs,          \* the PgShardReshard objects: metadata and status
    src,         \* the source PgShardShard: claim annotation and spec.serving
    tgt,         \* how many of a reshard's targets are flipped to serving
    routing,     \* the published PgShardRouting
    seenRs,      \* informer caches of the operator process
    seenSrc,
    seenTgt,
    seenRouting,
    op,          \* the reconcile of the reshard controller in flight
    aborts,      \* how many reconciles may still be aborted
    plan,        \* at most one routing compiled but not yet written
    db,          \* the source database
    journal,     \* the source agent's recorded barriers, per id
    ack,         \* journal position decoded by a reshard's target workflows
    expired,     \* <<reshard, attempt>> whose gate deadline has passed
    foreign,     \* reshards one of whose targets fails foreignTarget
    replaced     \* the cluster object was deleted and recreated

apiVars == <<rs, src, tgt, routing>>
seenVars == <<seenRs, seenSrc, seenTgt, seenRouting>>
envVars == <<expired, foreign, replaced>>
vars == <<apiVars, seenVars, op, aborts, plan, db, journal, ack, envVars>>

Phases == {"CatchingUp", "ReadyToCutover", "CuttingOver",
           "SwitchedForward", "Failed"}
Attempts == 0 .. MaxAttempt

ReshardObject ==
    [exists : BOOLEAN, deleting : BOOLEAN,
     claimFin : BOOLEAN, gateFin : BOOLEAN,
     phase : Phases, attempt : Attempts,
     gate : BOOLEAN, observed : BOOLEAN,
     fenced : BOOLEAN, frozen : Nat, committed : BOOLEAN]

FreshReshard ==
    [exists |-> TRUE, deleting |-> FALSE,
     claimFin |-> FALSE, gateFin |-> FALSE,
     phase |-> "CatchingUp", attempt |-> 0,
     gate |-> FALSE, observed |-> FALSE,
     fenced |-> FALSE, frozen |-> 0, committed |-> FALSE]

SourceShard == [claim : Reshards \cup {NoReshard}, serving : BOOLEAN]
FreshSource == [claim |-> NoReshard, serving |-> TRUE]

\* serving = NoReshard: the source serves its range; = r: the targets of r do.
Routing == [gates : SUBSET Reshards, serving : Reshards \cup {NoReshard}]
FreshRouting == [gates |-> {}, serving |-> NoReshard]

\* The source database.  writes: "open", "closed" to sessions by a fence that
\* failed half-way, or "readOnly" with every writer gone; lsn: WAL position;
\* last: position of the last committed write; barriers: journal positions.
Database == [writes : {"open", "closed", "readOnly"},
             lsn : Nat, last : Nat, barriers : SUBSET Nat]

\* A journal id's slot in the agent: unused, recorded at a position, or
\* poisoned by a call whose outcome is unknown.
Unused == 0
Poisoned == -1

Kinds == {"open", "freeze", "fail", "rollback", "cleanup",
          "switch", "cleanupSwitch"}
PCs == {"status", "emit", "ungate", "unfence", "unfenced",
        "flip", "compiled", "release"}
Reconciles == [kind : Kinds, pc : PCs, r : Reshards,
               v : ReshardObject, s : SourceShard, lsn : Nat]
Idle == [kind |-> "none", pc |-> "idle", r |-> NoReshard,
         v |-> FreshReshard, s |-> FreshSource, lsn |-> 0]

TypeOK ==
    /\ rs \in [Reshards -> ReshardObject]
    /\ seenRs \in [Reshards -> ReshardObject]
    /\ src \in SourceShard
    /\ seenSrc \in SourceShard
    /\ tgt \in [Reshards -> 0 .. NTargets]
    /\ seenTgt \in [Reshards -> 0 .. NTargets]
    /\ routing \in Routing
    /\ seenRouting \in Routing
    /\ op \in Reconciles \cup {Idle}
    /\ aborts \in Nat
    /\ plan \subseteq Routing
    /\ db \in Database
    /\ journal \in [Reshards -> [Attempts -> Int]]
    /\ ack \in [Reshards -> Nat]
    /\ expired \subseteq Reshards \X Attempts
    /\ foreign \subseteq Reshards
    /\ replaced \in BOOLEAN

Init ==
    /\ rs = [r \in Reshards |-> FreshReshard]
    /\ src = FreshSource
    /\ tgt = [r \in Reshards |-> 0]
    /\ routing = FreshRouting
    /\ seenRs = rs
    /\ seenSrc = src
    /\ seenTgt = tgt
    /\ seenRouting = routing
    /\ op = Idle
    /\ aborts = MaxAborts
    /\ plan = {}
    /\ db = [writes |-> "open", lsn |-> 0, last |-> 0, barriers |-> {}]
    /\ journal = [r \in Reshards |-> [a \in Attempts |-> Unused]]
    /\ ack = [r \in Reshards |-> 0]
    /\ expired = {}
    /\ foreign = {}
    /\ replaced = FALSE

-----------------------------------------------------------------------------
(***************************************************************************)
(* Reconcile of one reshard.                                               *)
(***************************************************************************)

\* A worker picks r up: its cached object exists, is not being deleted and is
\* in phase p (Reconcile's dispatch).
Reconciling(r, p) ==
    /\ op = Idle
    /\ seenRs[r].exists
    /\ ~ seenRs[r].deleting
    /\ seenRs[r].phase = p

\* A write of r from the cached object: it conflicts unless the cache is current.
Current(r) == seenRs[r] = rs[r]

Starting(r, kind, pc) ==
    op' = [kind |-> kind, pc |-> pc, r |-> r,
           v |-> seenRs[r], s |-> seenSrc, lsn |-> 0]

\* gateCatchup: every target streams within the lag bound.
ReachReady(r) ==
    /\ Reconciling(r, "CatchingUp")
    /\ seenSrc.serving
    /\ ~ replaced
    /\ r \notin foreign
    /\ Current(r)
    /\ rs' = [rs EXCEPT ![r].phase = "ReadyToCutover"]
    /\ UNCHANGED <<src, tgt, routing, seenVars, op, aborts, plan, db, journal, ack, envVars>>

\* fail() outside the cutover: the source no longer serves or, while catching
\* up, the cluster was replaced or a target is foreign.  The claim is not
\* released here.
FailSeeding(r) ==
    /\ \/ Reconciling(r, "CatchingUp") /\ (replaced \/ r \in foreign \/ ~ seenSrc.serving)
       \/ Reconciling(r, "ReadyToCutover") /\ ~ seenSrc.serving
    /\ Current(r)
    /\ rs' = [rs EXCEPT ![r].phase = "Failed"]
    /\ UNCHANGED <<src, tgt, routing, seenVars, op, aborts, plan, db, journal, ack, envVars>>

\* reconcileReadyToCutover with a free source: first the finalizer that will
\* clean the claim up, alone in its reconcile.
AddClaimFinalizer(r) ==
    /\ Reconciling(r, "ReadyToCutover")
    /\ seenSrc.serving
    /\ seenSrc.claim = NoReshard
    /\ ~ seenRs[r].claimFin
    /\ Current(r)
    /\ rs' = [rs EXCEPT ![r].claimFin = TRUE]
    /\ UNCHANGED <<src, tgt, routing, seenVars, op, aborts, plan, db, journal, ack, envVars>>

\* Mutant: the claim is written whatever the source has become since the read.
ClaimSourceOverwrites(r) ==
    /\ Reconciling(r, "ReadyToCutover")
    /\ seenSrc.serving
    /\ seenSrc.claim = NoReshard
    /\ seenRs[r].claimFin
    /\ src' = [src EXCEPT !.claim = r]
    /\ Starting(r, "open", "status")
    /\ UNCHANGED <<rs, tgt, routing, seenVars, aborts, plan, db, journal, ack, envVars>>

\* claimSource: the claim annotation on the source; the reconcile goes on to
\* open the window.
ClaimSource(r) ==
    /\ Reconciling(r, "ReadyToCutover")
    /\ seenSrc.serving
    /\ seenSrc.claim = NoReshard
    /\ seenRs[r].claimFin
    /\ seenSrc = src
    /\ src' = [src EXCEPT !.claim = r]
    /\ Starting(r, "open", "status")
    /\ UNCHANGED <<rs, tgt, routing, seenVars, aborts, plan, db, journal, ack, envVars>>

\* The claim is already ours: open the window directly.
ConfirmClaim(r) ==
    /\ Reconciling(r, "ReadyToCutover")
    /\ seenSrc.serving
    /\ seenSrc.claim = r
    /\ Starting(r, "open", "status")
    /\ UNCHANGED <<apiVars, seenVars, aborts, plan, db, journal, ack, envVars>>

\* A step of the reconcile in flight, at pc; the writes of its reshard that it
\* makes conflict unless the object still is the one it read.
At(pc) == op.pc = pc
Unchanged(r) == op.v = rs[r]

\* The write that ends reconcileReadyToCutover: gate deadline and CuttingOver.
OpenWindow ==
    /\ At("status")
    /\ op.kind = "open"
    /\ Unchanged(op.r)
    /\ rs' = [rs EXCEPT ![op.r] = [@ EXCEPT !.gate = TRUE, !.phase = "CuttingOver"]]
    /\ op' = Idle
    /\ UNCHANGED <<src, tgt, routing, seenVars, aborts, plan, db, journal, ack, envVars>>

-----------------------------------------------------------------------------
(***************************************************************************)
(* reconcileCuttingOver: one action per early return.                      *)
(***************************************************************************)

Past(r) == seenRs[r].gate /\ <<r, seenRs[r].attempt>> \in expired

\* The common guard of the steps that need the window: identities hold, not
\* committed, deadline not passed, and our gate stands in the routing we see.
InWindow(r) ==
    /\ Reconciling(r, "CuttingOver")
    /\ ~ replaced
    /\ ~ seenRs[r].committed
    /\ ~ Past(r)
    /\ r \in seenRouting.gates

ObserveGate(r) ==
    /\ InWindow(r)
    /\ ~ seenRs[r].observed
    /\ Current(r)
    /\ rs' = [rs EXCEPT ![r].observed = TRUE]
    /\ UNCHANGED <<src, tgt, routing, seenVars, op, aborts, plan, db, journal, ack, envVars>>

\* After the quiesce wait: record that a fence is owed, before fencing.
RecordFence(r) ==
    /\ InWindow(r)
    /\ seenRs[r].observed
    /\ seenRs[r].frozen = 0
    /\ ~ seenRs[r].fenced
    /\ Current(r)
    /\ rs' = [rs EXCEPT ![r].fenced = TRUE]
    /\ UNCHANGED <<src, tgt, routing, seenVars, op, aborts, plan, db, journal, ack, envVars>>

Freezing(r) ==
    /\ InWindow(r)
    /\ seenRs[r].observed
    /\ seenRs[r].frozen = 0
    /\ seenRs[r].fenced

\* Mutant: the barrier is emitted without fencing the source first.
EmitUnfenced(r) ==
    /\ Freezing(r)
    /\ Starting(r, "freeze", "emit")
    /\ UNCHANGED <<apiVars, seenVars, aborts, plan, db, journal, ack, envVars>>

\* freezeSource, first call: FenceWrites closes the database to new sessions,
\* terminates the running ones, sets it read-only and reopens it.
FenceSource(r) ==
    /\ Freezing(r)
    /\ db' = [db EXCEPT !.writes = "readOnly"]
    /\ Starting(r, "freeze", "emit")
    /\ UNCHANGED <<apiVars, seenVars, aborts, plan, journal, ack, envVars>>

\* FenceWrites fails while draining: the database stays closed to sessions.
FenceSourceFails(r) ==
    /\ "fenceFailure" \in Events
    /\ Freezing(r)
    /\ db' = [db EXCEPT !.writes = "closed"]
    /\ UNCHANGED <<apiVars, seenVars, op, aborts, plan, journal, ack, envVars>>

Slot == journal[op.r][op.v.attempt]

\* EmitJournal writes the barrier and records its position under the id.
EmitBarrier ==
    /\ At("emit")
    /\ Slot = Unused
    /\ db.lsn < MaxLsn
    /\ db' = [db EXCEPT !.lsn = db.lsn + 1, !.barriers = db.barriers \cup {db.lsn + 1}]
    /\ journal' = [journal EXCEPT ![op.r][op.v.attempt] = db.lsn + 1]
    /\ op' = [op EXCEPT !.pc = "status", !.lsn = db.lsn + 1]
    /\ UNCHANGED <<apiVars, seenVars, aborts, plan, ack, envVars>>

\* A repeated id replays the recorded position.
ReplayBarrier ==
    /\ At("emit")
    /\ Slot > 0
    /\ op' = [op EXCEPT !.pc = "status", !.lsn = Slot]
    /\ UNCHANGED <<apiVars, seenVars, aborts, plan, db, journal, ack, envVars>>

\* Mutant: the agent records the position although the outcome is unknown.
TimeoutRecordsPosition ==
    /\ "timeout" \in Events
    /\ At("emit")
    /\ Slot = Unused
    /\ db.lsn < MaxLsn
    /\ \E emitted \in BOOLEAN :
          db' = IF emitted
                THEN [db EXCEPT !.lsn = db.lsn + 1, !.barriers = db.barriers \cup {db.lsn + 1}]
                ELSE db
    /\ journal' = [journal EXCEPT ![op.r][op.v.attempt] = db.lsn + 1]
    /\ op' = Idle
    /\ UNCHANGED <<apiVars, seenVars, aborts, plan, ack, envVars>>

\* The emission times out: it may have committed, and the id is poisoned.
EmitTimesOut ==
    /\ "timeout" \in Events
    /\ At("emit")
    /\ Slot = Unused
    /\ db.lsn < MaxLsn
    /\ \E emitted \in BOOLEAN :
          db' = IF emitted
                THEN [db EXCEPT !.lsn = db.lsn + 1, !.barriers = db.barriers \cup {db.lsn + 1}]
                ELSE db
    /\ journal' = [journal EXCEPT ![op.r][op.v.attempt] = Poisoned]
    /\ op' = Idle
    /\ UNCHANGED <<apiVars, seenVars, aborts, plan, ack, envVars>>

\* The position is persisted, once the source primary is re-confirmed.
RecordBarrier ==
    /\ At("status")
    /\ op.kind = "freeze"
    /\ Unchanged(op.r)
    /\ rs' = [rs EXCEPT ![op.r].frozen = op.lsn]
    /\ op' = Idle
    /\ UNCHANGED <<src, tgt, routing, seenVars, aborts, plan, db, journal, ack, envVars>>

\* Every target decoded the barrier: the point of no return.
CommitSwitch(r) ==
    /\ InWindow(r)
    /\ seenRs[r].observed
    /\ seenRs[r].frozen > 0
    /\ r \notin foreign
    /\ ack[r] >= seenRs[r].frozen
    /\ Current(r)
    /\ rs' = [rs EXCEPT ![r].committed = TRUE]
    /\ UNCHANGED <<src, tgt, routing, seenVars, op, aborts, plan, db, journal, ack, envVars>>

-----------------------------------------------------------------------------
(***************************************************************************)
(* failCutover, rollBackCutover, cleanupCutoverClaim: un-fence, release.   *)
(***************************************************************************)

UnfenceOwed(v) == v.fenced /\ ~ v.committed

\* failCutover touches neither fence nor claim of a committed switch.
FailEntry(v) ==
    IF v.committed THEN "status" ELSE IF v.fenced THEN "unfence" ELSE "release"

FailReplaced(r) ==
    /\ Reconciling(r, "CuttingOver")
    /\ replaced
    /\ Starting(r, "fail", FailEntry(seenRs[r]))
    /\ UNCHANGED <<apiVars, seenVars, aborts, plan, db, journal, ack, envVars>>

\* barrierAcknowledged: a target is no longer this reshard's hidden target.
FailForeign(r) ==
    /\ InWindow(r)
    /\ seenRs[r].observed
    /\ seenRs[r].frozen > 0
    /\ r \in foreign
    /\ Starting(r, "fail", FailEntry(seenRs[r]))
    /\ UNCHANGED <<apiVars, seenVars, aborts, plan, db, journal, ack, envVars>>

\* Mutant: the rollback does not un-fence.
RollBackFenced(r) ==
    /\ Reconciling(r, "CuttingOver")
    /\ ~ replaced
    /\ ~ seenRs[r].committed
    /\ Past(r)
    /\ Starting(r, "rollback", "status")
    /\ UNCHANGED <<apiVars, seenVars, aborts, plan, db, journal, ack, envVars>>

\* EmitJournal rejects a poisoned id.
FailFreeze ==
    /\ At("emit")
    /\ Slot = Poisoned
    /\ op' = [op EXCEPT !.kind = "fail", !.pc = FailEntry(op.v)]
    /\ UNCHANGED <<apiVars, seenVars, aborts, plan, db, journal, ack, envVars>>

RollBack(r) ==
    /\ Reconciling(r, "CuttingOver")
    /\ ~ replaced
    /\ ~ seenRs[r].committed
    /\ Past(r)
    /\ Starting(r, "rollback", IF UnfenceOwed(seenRs[r]) THEN "unfence" ELSE "status")
    /\ UNCHANGED <<apiVars, seenVars, aborts, plan, db, journal, ack, envVars>>

\* Mutant: a committed switch is cleaned up like any other reshard.
CleanupCommitted(r) ==
    /\ op = Idle
    /\ seenRs[r].exists
    /\ seenRs[r].deleting
    /\ seenRs[r].claimFin
    /\ Starting(r, "cleanup",
                IF seenRs[r].gate THEN "ungate"
                ELSE IF UnfenceOwed(seenRs[r]) THEN "unfence" ELSE "release")
    /\ UNCHANGED <<apiVars, seenVars, aborts, plan, db, journal, ack, envVars>>

\* A reshard being deleted, unless its switch is committed and the source
\* still serves (CleanupSwitch).
Cleanup(r) ==
    /\ op = Idle
    /\ seenRs[r].exists
    /\ seenRs[r].deleting
    /\ seenRs[r].claimFin
    /\ ~ (seenRs[r].committed /\ seenSrc.serving)
    /\ Starting(r, "cleanup",
                IF seenRs[r].gate THEN "ungate"
                ELSE IF UnfenceOwed(seenRs[r]) THEN "unfence" ELSE "release")
    /\ UNCHANGED <<apiVars, seenVars, aborts, plan, db, journal, ack, envVars>>

\* cleanupCutoverClaim withdraws the gate request first.
ClearGate ==
    /\ At("ungate")
    /\ Unchanged(op.r)
    /\ rs' = [rs EXCEPT ![op.r].gate = FALSE]
    /\ op' = [op EXCEPT !.v.gate = FALSE,
                        !.pc = IF UnfenceOwed(op.v) THEN "unfence" ELSE "release"]
    /\ UNCHANGED <<src, tgt, routing, seenVars, aborts, plan, db, journal, ack, envVars>>

AfterUnfence == IF op.kind = "rollback" THEN "status" ELSE "unfenced"

\* Mutant: the live claim is not re-read, only the reshard.
UnfenceUnclaimed ==
    /\ At("unfence")
    /\ rs[op.r].exists
    /\ ~ rs[op.r].committed
    /\ db' = [db EXCEPT !.writes = "open"]
    /\ op' = [op EXCEPT !.pc = AfterUnfence]
    /\ UNCHANGED <<apiVars, seenVars, aborts, plan, journal, ack, envVars>>

\* unfenceSource: live reads of the claim and of the reshard authorize it.
UnfenceSource ==
    /\ At("unfence")
    /\ src.claim = op.r
    /\ rs[op.r].exists
    /\ ~ rs[op.r].committed
    /\ db' = [db EXCEPT !.writes = "open"]
    /\ op' = [op EXCEPT !.pc = AfterUnfence]
    /\ UNCHANGED <<apiVars, seenVars, aborts, plan, journal, ack, envVars>>

\* The live claim is not ours: reported as success, the fence is left alone.
SkipUnfence ==
    /\ At("unfence")
    /\ src.claim # op.r
    /\ op' = [op EXCEPT !.pc = AfterUnfence]
    /\ UNCHANGED <<apiVars, seenVars, aborts, plan, db, journal, ack, envVars>>

\* SourceFenced=false is persisted before the claim is released.
RecordUnfence ==
    /\ At("unfenced")
    /\ Unchanged(op.r)
    /\ rs' = [rs EXCEPT ![op.r].fenced = FALSE]
    /\ op' = [op EXCEPT !.v.fenced = FALSE, !.pc = "release"]
    /\ UNCHANGED <<src, tgt, routing, seenVars, aborts, plan, db, journal, ack, envVars>>

\* releaseSourceClaim, from the source as this reconcile holds it.
ReleaseClaim ==
    /\ At("release")
    /\ op.s.claim = op.r
    /\ op.s = src
    /\ src' = [src EXCEPT !.claim = NoReshard]
    /\ op' = [op EXCEPT !.s.claim = NoReshard, !.pc = "status"]
    /\ UNCHANGED <<rs, tgt, routing, seenVars, aborts, plan, db, journal, ack, envVars>>

NothingToRelease ==
    /\ At("release")
    /\ op.s.claim # op.r
    /\ op' = [op EXCEPT !.pc = "status"]
    /\ UNCHANGED <<apiVars, seenVars, aborts, plan, db, journal, ack, envVars>>

RecordFailed ==
    /\ At("status")
    /\ op.kind = "fail"
    /\ Unchanged(op.r)
    /\ rs' = [rs EXCEPT ![op.r].phase = "Failed"]
    /\ op' = Idle
    /\ UNCHANGED <<src, tgt, routing, seenVars, aborts, plan, db, journal, ack, envVars>>

\* Mutant: the rollback leaves the gate deadline set.
RollBackGated ==
    /\ At("status")
    /\ op.kind = "rollback"
    /\ Unchanged(op.r)
    /\ rs[op.r].attempt < MaxAttempt
    /\ rs' = [rs EXCEPT ![op.r] = [@ EXCEPT
                 !.fenced = FALSE, !.observed = FALSE,
                 !.frozen = 0, !.attempt = rs[op.r].attempt + 1, !.phase = "CatchingUp"]]
    /\ op' = Idle
    /\ UNCHANGED <<src, tgt, routing, seenVars, aborts, plan, db, journal, ack, envVars>>

\* The claim is kept; a new attempt gets a new journal id.
RecordRollBack ==
    /\ At("status")
    /\ op.kind = "rollback"
    /\ Unchanged(op.r)
    /\ rs[op.r].attempt < MaxAttempt
    /\ rs' = [rs EXCEPT ![op.r] = [@ EXCEPT
                 !.fenced = FALSE, !.gate = FALSE, !.observed = FALSE,
                 !.frozen = 0, !.attempt = rs[op.r].attempt + 1, !.phase = "CatchingUp"]]
    /\ op' = Idle
    /\ UNCHANGED <<src, tgt, routing, seenVars, aborts, plan, db, journal, ack, envVars>>

\* The object goes with its last finalizer.
RemoveClaimFinalizer ==
    /\ At("status")
    /\ op.kind = "cleanup"
    /\ Unchanged(op.r)
    /\ rs' = [rs EXCEPT ![op.r] = [@ EXCEPT !.claimFin = FALSE, !.exists = rs[op.r].gateFin]]
    /\ op' = Idle
    /\ UNCHANGED <<src, tgt, routing, seenVars, aborts, plan, db, journal, ack, envVars>>

\* A call fails, or the operator stops.
AbortReconcile ==
    /\ op # Idle
    /\ op' = Idle
    /\ \/ "abort" \in Events /\ UNCHANGED aborts
       \/ aborts > 0 /\ aborts' = aborts - 1
    /\ UNCHANGED <<apiVars, seenVars, plan, db, journal, ack, envVars>>

\* Mutant: the switch starts with the barrier instead of the commit.
SwitchUncommitted(r) ==
    /\ Reconciling(r, "CuttingOver")
    /\ ~ replaced
    /\ seenRs[r].frozen > 0
    /\ Starting(r, "switch", "flip")
    /\ UNCHANGED <<apiVars, seenVars, aborts, plan, db, journal, ack, envVars>>

-----------------------------------------------------------------------------
(***************************************************************************)
(* completeSwitch, after the commit.                                       *)
(***************************************************************************)

StartSwitch(r) ==
    /\ Reconciling(r, "CuttingOver")
    /\ ~ replaced
    /\ seenRs[r].committed
    /\ Starting(r, "switch", "flip")
    /\ UNCHANGED <<apiVars, seenVars, aborts, plan, db, journal, ack, envVars>>

\* Mutant: targets that serve already are flipped again.
FlipAgain ==
    /\ At("flip")
    /\ tgt' = [tgt EXCEPT ![op.r] = @ + 1]
    /\ UNCHANGED <<rs, src, routing, seenVars, op, aborts, plan, db, journal, ack, envVars>>

\* A deleted reshard completes its committed switch before it may go.
CleanupSwitch(r) ==
    /\ op = Idle
    /\ seenRs[r].exists
    /\ seenRs[r].deleting
    /\ seenRs[r].claimFin
    /\ seenRs[r].committed
    /\ seenSrc.serving
    /\ Starting(r, "cleanupSwitch", "flip")
    /\ UNCHANGED <<apiVars, seenVars, aborts, plan, db, journal, ack, envVars>>

FlipTarget ==
    /\ At("flip")
    /\ tgt[op.r] < NTargets
    /\ tgt' = [tgt EXCEPT ![op.r] = @ + 1]
    /\ UNCHANGED <<rs, src, routing, seenVars, op, aborts, plan, db, journal, ack, envVars>>

\* Mutant: the source is left serving.
HideNothing ==
    /\ At("flip")
    /\ tgt[op.r] = NTargets
    /\ op' = [op EXCEPT !.s.serving = FALSE, !.pc = "compiled"]
    /\ UNCHANGED <<apiVars, seenVars, aborts, plan, db, journal, ack, envVars>>

\* The source is hidden after all targets serve.
HideSource ==
    /\ At("flip")
    /\ tgt[op.r] = NTargets
    /\ op.s.serving => op.s = src
    /\ src' = IF op.s.serving THEN [src EXCEPT !.serving = FALSE] ELSE src
    /\ op' = [op EXCEPT !.s.serving = FALSE, !.pc = "compiled"]
    /\ UNCHANGED <<rs, tgt, routing, seenVars, aborts, plan, db, journal, ack, envVars>>

\* switchedSetCompiled holds in the routing we see.
SwitchCompiled ==
    /\ At("compiled")
    /\ seenRouting.serving = op.r
    /\ op' = [op EXCEPT !.pc = "release"]
    /\ UNCHANGED <<apiVars, seenVars, aborts, plan, db, journal, ack, envVars>>

RecordSwitched ==
    /\ At("status")
    /\ op.kind = "switch"
    /\ Unchanged(op.r)
    /\ rs' = [rs EXCEPT ![op.r] = [@ EXCEPT !.gate = FALSE, !.phase = "SwitchedForward"]]
    /\ op' = Idle
    /\ UNCHANGED <<src, tgt, routing, seenVars, aborts, plan, db, journal, ack, envVars>>

\* Reconcile returns cleanupCutoverClaim's result without a status write.
EndCleanupSwitch ==
    /\ At("status")
    /\ op.kind = "cleanupSwitch"
    /\ op' = Idle
    /\ UNCHANGED <<apiVars, seenVars, aborts, plan, db, journal, ack, envVars>>

\* What ends a reconcile for good: a write conflicts, unfenceSource sees the
\* switch committed or the reshard gone, the switched set is not compiled yet,
\* or a bound of the model is reached.
Blocked ==
    \/ At("ungate") /\ ~ Unchanged(op.r)
    \/ At("unfenced") /\ ~ Unchanged(op.r)
    \/ At("status") /\ op.kind # "cleanupSwitch" /\ ~ Unchanged(op.r)
    \/ At("unfence") /\ src.claim = op.r /\ (rs[op.r].committed \/ ~ rs[op.r].exists)
    \/ At("release") /\ op.s.claim = op.r /\ op.s # src
    \/ At("flip") /\ tgt[op.r] = NTargets /\ op.s.serving /\ op.s # src
    \/ At("compiled") /\ seenRouting.serving # op.r
    \/ At("emit") /\ Slot = Unused /\ db.lsn >= MaxLsn
    \/ At("status") /\ op.kind = "rollback" /\ rs[op.r].attempt >= MaxAttempt

EndBlocked ==
    /\ Blocked
    /\ op' = Idle
    /\ UNCHANGED <<apiVars, seenVars, aborts, plan, db, journal, ack, envVars>>

-----------------------------------------------------------------------------
(***************************************************************************)
(* The routing controller.                                                 *)
(***************************************************************************)

\* Mutant: a committed switch is pinned even after the source is hidden.
HoldingForever(r) == seenRs[r].gate \/ seenRs[r].committed

\* syncGateFinalizers: the gate finalizer pins a reshard whose gate stands or
\* whose committed switch has not yet hidden the source.
Holding(r) == seenRs[r].gate \/ (seenRs[r].committed /\ seenSrc.serving)

SyncGateFinalizer(r) ==
    /\ plan = {}
    /\ seenRs[r].exists
    /\ seenRs[r].gateFin # Holding(r)
    /\ Current(r)
    /\ Holding(r) => ~ rs[r].deleting
    /\ rs' = [rs EXCEPT ![r] = [@ EXCEPT
                 !.gateFin = Holding(r),
                 !.exists = ~ rs[r].deleting \/ rs[r].claimFin \/ Holding(r)]]
    /\ UNCHANGED <<src, tgt, routing, seenVars, op, aborts, plan, db, journal, ack, envVars>>

\* cutoverGates refuses to compile without the gate of a committed switch
\* whose source still serves.
Refused == \E r \in Reshards :
    seenRs[r].exists /\ ~ seenRs[r].gate /\ seenRs[r].committed /\ seenSrc.serving

\* Compile: the serving shards must partition the keyspace, so either the
\* source serves and no target does, or exactly one reshard's targets serve.
Partition(who) ==
    /\ seenSrc.serving <=> who = NoReshard
    /\ \A r \in Reshards : seenTgt[r] = IF r = who THEN NTargets ELSE 0

\* x is what compileAndWrite compiles from the caches, once the finalizers are
\* in place.
Compiled(x) ==
    /\ \A r \in Reshards :
          seenRs[r].exists => Holding(r) \in {seenRs[r].gateFin, rs[r].gateFin}
    /\ ~ Refused
    /\ x.gates = {r \in Reshards : seenRs[r].exists /\ seenRs[r].gate}
    /\ Partition(x.serving)
    /\ x # routing

\* Write starts from the cached routing: it does nothing if that is already
\* what was compiled, and conflicts, and tries again, until it is current.
PublishRouting ==
    /\ plan = {}
    /\ seenRouting = routing
    /\ \E x \in Routing : Compiled(x) /\ routing' = x
    /\ UNCHANGED <<rs, src, tgt, seenVars, op, aborts, plan, db, journal, ack, envVars>>

\* The same with time between the reads and the write, as when Write conflicts.
CompileRouting ==
    /\ "slowCompile" \in Events
    /\ plan = {}
    /\ \E x \in Routing : Compiled(x) /\ plan' = {x}
    /\ UNCHANGED <<apiVars, seenVars, op, aborts, db, journal, ack, envVars>>

WriteRouting ==
    /\ seenRouting \in plan \cup {routing}
    /\ \E x \in plan : routing' = IF seenRouting = x THEN routing ELSE x
    /\ plan' = {}
    /\ UNCHANGED <<rs, src, tgt, seenVars, op, aborts, db, journal, ack, envVars>>

-----------------------------------------------------------------------------
(***************************************************************************)
(* The environment: informers, time, users, agents and client writes.      *)
(***************************************************************************)

SeeReshard(r) ==
    /\ seenRs[r] # rs[r]
    /\ seenRs' = [seenRs EXCEPT ![r] = rs[r]]
    /\ UNCHANGED <<apiVars, seenSrc, seenTgt, seenRouting, op, aborts, plan, db, journal, ack, envVars>>

SeeShards ==
    /\ <<seenSrc, seenTgt>> # <<src, tgt>>
    /\ seenSrc' = src
    /\ seenTgt' = tgt
    /\ UNCHANGED <<apiVars, seenRs, seenRouting, op, aborts, plan, db, journal, ack, envVars>>

SeeRouting ==
    /\ seenRouting # routing
    /\ seenRouting' = routing
    /\ UNCHANGED <<apiVars, seenRs, seenSrc, seenTgt, op, aborts, plan, db, journal, ack, envVars>>

DeadlinePasses(r) ==
    /\ rs[r].gate
    /\ <<r, rs[r].attempt>> \notin expired
    /\ expired' = expired \cup {<<r, rs[r].attempt>>}
    /\ UNCHANGED <<apiVars, seenVars, op, aborts, plan, db, journal, ack, foreign, replaced>>

DeleteReshard(r) ==
    /\ "delete" \in Events
    /\ rs[r].exists
    /\ ~ rs[r].deleting
    /\ rs' = [rs EXCEPT ![r] = [@ EXCEPT
                 !.deleting = TRUE, !.exists = rs[r].claimFin \/ rs[r].gateFin]]
    /\ UNCHANGED <<src, tgt, routing, seenVars, op, aborts, plan, db, journal, ack, envVars>>

ReplaceCluster ==
    /\ "replace" \in Events
    /\ ~ replaced
    /\ replaced' = TRUE
    /\ UNCHANGED <<apiVars, seenVars, op, aborts, plan, db, journal, ack, expired, foreign>>

TargetTurnsForeign(r) ==
    /\ "foreign" \in Events
    /\ r \notin foreign
    /\ foreign' = foreign \cup {r}
    /\ UNCHANGED <<apiVars, seenVars, op, aborts, plan, db, journal, ack, expired, replaced>>

TargetRestored(r) ==
    /\ "restore" \in Events
    /\ r \in foreign
    /\ foreign' = foreign \ {r}
    /\ UNCHANGED <<apiVars, seenVars, op, aborts, plan, db, journal, ack, expired, replaced>>

\* The garbage collector deletes the targets with the reshard that owns them.
CollectTargets(r) ==
    /\ ~ rs[r].exists
    /\ tgt[r] > 0
    /\ tgt' = [tgt EXCEPT ![r] = 0]
    /\ UNCHANGED <<rs, src, routing, seenVars, op, aborts, plan, db, journal, ack, envVars>>

\* The barriers an agent recorded live in its memory.
AgentRestarts ==
    /\ "agentRestart" \in Events
    /\ journal # [r \in Reshards |-> [a \in Attempts |-> Unused]]
    /\ journal' = [r \in Reshards |-> [a \in Attempts |-> Unused]]
    /\ UNCHANGED <<apiVars, seenVars, op, aborts, plan, db, ack, envVars>>

\* The target workflows decode a journal message of the source, in WAL order.
DecodeBarrier(r) ==
    /\ \E b \in db.barriers :
          /\ b > ack[r]
          /\ ack' = [ack EXCEPT ![r] = b]
    /\ UNCHANGED <<apiVars, seenVars, op, aborts, plan, db, journal, envVars>>

\* A workflow that starts over has decoded nothing.
WorkflowRestarts(r) ==
    /\ "workflowRestart" \in Events
    /\ ack[r] > 0
    /\ ack' = [ack EXCEPT ![r] = 0]
    /\ UNCHANGED <<apiVars, seenVars, op, aborts, plan, db, journal, envVars>>

\* A client commits a write on the source: any client, since a write a router
\* dispatched under a live lease may reach the database at any later time.
ClientWrite ==
    /\ db.writes = "open"
    /\ db.lsn < MaxLsn
    /\ db' = [db EXCEPT !.lsn = db.lsn + 1, !.last = db.lsn + 1]
    /\ UNCHANGED <<apiVars, seenVars, op, aborts, plan, journal, ack, envVars>>

-----------------------------------------------------------------------------
ReshardStep(r) ==
    \/ ReachReady(r) \/ FailSeeding(r) \/ AddClaimFinalizer(r)
    \/ ClaimSource(r) \/ ConfirmClaim(r)
    \/ ObserveGate(r) \/ RecordFence(r) \/ FenceSource(r) \/ FenceSourceFails(r)
    \/ CommitSwitch(r) \/ FailReplaced(r) \/ FailForeign(r) \/ RollBack(r)
    \/ Cleanup(r) \/ StartSwitch(r) \/ CleanupSwitch(r)

OpStep ==
    \/ OpenWindow \/ EmitBarrier \/ ReplayBarrier \/ EmitTimesOut
    \/ RecordBarrier \/ FailFreeze \/ ClearGate \/ UnfenceSource \/ SkipUnfence
    \/ RecordUnfence \/ ReleaseClaim \/ NothingToRelease
    \/ RecordFailed \/ RecordRollBack \/ RemoveClaimFinalizer
    \/ FlipTarget \/ HideSource \/ SwitchCompiled
    \/ RecordSwitched \/ EndCleanupSwitch \/ EndBlocked

RoutingStep ==
    \/ PublishRouting \/ CompileRouting \/ WriteRouting
    \/ \E r \in Reshards : SyncGateFinalizer(r)

EnvironmentStep ==
    \/ AbortReconcile
    \/ SeeShards \/ SeeRouting \/ ReplaceCluster \/ AgentRestarts
    \/ ClientWrite
    \/ \E r \in Reshards :
          \/ SeeReshard(r) \/ DeadlinePasses(r) \/ DeleteReshard(r)
          \/ TargetTurnsForeign(r) \/ TargetRestored(r) \/ CollectTargets(r)
          \/ DecodeBarrier(r) \/ WorkflowRestarts(r)

Next ==
    \/ \E r \in Reshards : ReshardStep(r)
    \/ OpStep
    \/ RoutingStep
    \/ EnvironmentStep

Spec == Init /\ [][Next]_vars

\* The work queue retries a reconcile until it succeeds, and a reconcile goes
\* through its steps; informers catch up and deadlines pass.  Nothing is assumed
\* of users, faults and client writes, nor of the targets' acknowledgements.
Fairness ==
    /\ WF_vars(OpStep)
    /\ WF_vars(PublishRouting)
    /\ WF_vars(SeeShards)
    /\ WF_vars(SeeRouting)
    /\ \A r \in Reshards :
          /\ WF_vars(ReshardStep(r))
          /\ WF_vars(SyncGateFinalizer(r))
          /\ WF_vars(SeeReshard(r))
          /\ WF_vars(DeadlinePasses(r))

FairSpec == Spec /\ Fairness

-----------------------------------------------------------------------------
Committed(r) == rs[r].committed

\* Once a switch is committed, the barrier it recorded lies after the last
\* write the source ever commits (freezeSource: read-only plus terminated
\* writers means no write can commit after it).
NoWriteAfterBarrier ==
    \A r \in Reshards : Committed(r) => db.last <= rs[r].frozen

\* A recorded barrier is in the source's WAL, whatever calls timed out and were
\* repeated (emit_journal: an id whose outcome is unknown is never answered with
\* a position).
BarrierExists ==
    \A r \in Reshards : rs[r].frozen > 0 => rs[r].frozen \in db.barriers

\* Of the reshards of one source at most one commits its switch (the per-source
\* claim of reconcileReadyToCutover).
AtMostOneSwitch ==
    \A r, q \in Reshards : Committed(r) /\ Committed(q) => r = q

\* A source that refuses writes is a committed switch's, or its claim is held
\* by a reshard that still exists and records that it owes an un-fence
\* (SourceFenced: a failed emit or a crash never strands the source read-only).
NoStrandedFence ==
    db.writes # "open" =>
        \E r \in Reshards :
            \/ Committed(r)
            \/ rs[r].exists /\ rs[r].fenced /\ src.claim = r

\* Routers are sent to a reshard's targets only after its switch committed, and
\* from then on the source takes no write: never two writable copies.
NoSplitBrain ==
    \A r \in Reshards :
        routing.serving = r => Committed(r) /\ db.writes # "open"

\* While a committed switch's source still serves, no routing without a gate is
\* published (the RoutingController refuses ungated routing until the source
\* stops serving).
NeverReadmitted ==
    [][\A r \in Reshards :
          Committed(r) /\ src.serving /\ routing' # routing => r \in routing'.gates]_vars

\* A gate that stands is withdrawn or its switch commits: the deadline bounds
\* the write-refusal window of an uncommitted cutover (cutoverGateWindow).
GateWindowBounded ==
    \A r \in Reshards :
        rs[r].gate /\ rs[r].attempt < MaxAttempt
            ~> ~ rs[r].gate \/ Committed(r)

\* A committed switch completes unless its reshard is deleted: the targets
\* serve and the source is hidden.
SwitchCompletes ==
    \A r \in Reshards :
        Committed(r) ~> routing.serving = r \/ rs[r].deleting

\* A deleted reshard goes away, from any phase: its finalizers are removed once
\* gate, fence and claim are dealt with or the committed switch is complete.
DeletionCompletes ==
    \A r \in Reshards : rs[r].deleting ~> ~ rs[r].exists

\* Outside a cutover, and before any commit, the source takes writes
\* (unfenceSource: never proceed with a source left read-only).
WritableOutsideCutover ==
    db.writes # "open" =>
        \E r \in Reshards :
            Committed(r) \/ (rs[r].exists /\ rs[r].phase = "CuttingOver")

\* The reshard named by the source's claim exists (cutoverClaimFinalizer: a
\* delete cannot strand the source's claim annotation).
ClaimHolderExists ==
    \A r \in Reshards : src.claim = r => rs[r].exists

\* The shards the published routing sends clients to exist and serve.
RoutedTargetsServe ==
    \A r \in Reshards : routing.serving = r => tgt[r] = NTargets

=============================================================================
