--------------------------- MODULE BarrierProofs ----------------------------
(***************************************************************************)
(* BarrierInv is an inductive invariant of Cutover when the causes of a    *)
(* failed cutover are permanent, and with it: no write after the barrier   *)
(* of a committed switch, at most one switch per source, no split brain.   *)
(*                                                                         *)
(* First what each conjunct of the invariant depends on and the steps that *)
(* only do bookkeeping, move the reconcile in flight or write straight from *)
(* the work queue; then the writes that end a handler, the claim, the      *)
(* fence and the barrier; then the environment and the routing controller. *)
(***************************************************************************)
EXTENDS CutoverProofs

\* Leaves are for Zenon, unless they name another prover.
USE ZenonT(60)

-----------------------------------------------------------------------------
(***************************************************************************)
(* Frame lemmas: what each conjunct of the invariant depends on.           *)
(***************************************************************************)

\* A step that leaves the reshard objects alone leaves their cutover state alone.
LEMMA SameCoreFrame == UNCHANGED rs => SameCore
  BY DEF SameCore

\* The same cutover state: the same attempts, phases and commits.
LEMMA SameCoreCommitted ==
    ASSUME SameCore
    PROVE  \A q \in Reshards :
              /\ rs'[q].committed = rs[q].committed
              /\ rs'[q].frozen = rs[q].frozen
  BY DEF SameCore

\* The caches stay behind the objects while neither moves.
LEMMA CachesFrame ==
    ASSUME CachesEarlier, SameCore, UNCHANGED seenRs
    PROVE  CachesEarlier'
  BY DEF CachesEarlier, Earlier, SameCore

\* AttemptPristine depends only on the objects and the recorded barriers.
LEMMA PristineFrame ==
    ASSUME AttemptPristine, SameCore, UNCHANGED journal
    PROVE  AttemptPristine'
  BY DEF AttemptPristine, SameCore

\* NothingPoisoned depends only on the recorded barriers.
LEMMA PoisonFrame ==
    ASSUME NothingPoisoned, UNCHANGED journal
    PROVE  NothingPoisoned'
  BY DEF NothingPoisoned

\* WindowGated depends only on the objects.
LEMMA GatedFrame ==
    ASSUME WindowGated, SameCore
    PROVE  WindowGated'
  BY DEF WindowGated, SameCore

\* ClaimHeld survives a step that keeps source, cache and causes and starts no opening.
LEMMA ClaimFrame ==
    ASSUME ClaimHeld, SameCore, UNCHANGED <<src, seenSrc, foreign, replaced>>,
           op' = op \/ op'.kind # "open"
    PROVE  ClaimHeld'
  BY DEF ClaimHeld, Finished, SameCore

\* LiveSealed survives a step that keeps objects, database and barriers.
LEMMA LiveFrame ==
    ASSUME LiveSealed, SameCore, UNCHANGED <<journal, db, envVars>>
    PROVE  LiveSealed'
  BY DEF LiveSealed, Live, Doomed, SealedAt, SameCore, envVars

\* CommittedSealed survives a step that keeps objects, source and database.
LEMMA CommittedFrame ==
    ASSUME CommittedSealed, AtMostOneSwitch, UNCHANGED <<src, db>>,
           \A q \in Reshards : rs'[q].committed =>
              rs[q].committed /\ rs'[q].frozen = rs[q].frozen
    PROVE  CommittedSealed' /\ AtMostOneSwitch'
  BY DEF CommittedSealed, AtMostOneSwitch, Committed, SealedAt

\* ServingCommitted survives a step that keeps targets, routing and plan.
LEMMA ServingFrame ==
    ASSUME ServingCommitted, UNCHANGED <<tgt, seenTgt, routing, plan>>,
           \A q \in Reshards : rs[q].committed => rs'[q].committed
    PROVE  ServingCommitted'
  BY DEF ServingCommitted

\* What is known of the reconcile in flight survives a step that keeps what it mentions.
LEMMA ReconcileFrame ==
    ASSUME TypeOK, ReconcileSound, SameCore, UNCHANGED <<op, db, envVars>>
    PROVE  ReconcileSound'
  <1> SUFFICES ASSUME op # Idle PROVE ReconcileSound'
    BY DEF ReconcileSound
  <1>1. op.r \in Reshards
    BY OpFields
  <1> QED
    BY <1>1 DEF ReconcileSound, ViewSound, Earlier, OpenSound, FreezeSound, FailSound,
                RollbackSound, CleanupSound, SwitchSound, Live, Doomed, SameCore, envVars

\* A reconcile that ends says nothing any more.
LEMMA IdleFrame ==
    ASSUME op' = Idle
    PROVE  /\ ReconcileSound'
           /\ op'.kind # "open"
  BY DEF ReconcileSound, Idle

\* Of a reconcile in flight only the conjunct of its own kind says anything.
LEMMA SoundKind ==
    ASSUME ViewSound',
           \/ op'.kind = "open" /\ OpenSound'
           \/ op'.kind = "freeze" /\ FreezeSound'
           \/ op'.kind = "fail" /\ FailSound'
           \/ op'.kind = "rollback" /\ RollbackSound'
           \/ op'.kind = "cleanup" /\ CleanupSound'
           \/ op'.kind \in {"switch", "cleanupSwitch"} /\ SwitchSound'
    PROVE  ReconcileSound'
  <1>1. OpenSound' /\ FreezeSound' /\ FailSound'
    BY DEF OpenSound, FreezeSound, FailSound
  <1>2. RollbackSound' /\ CleanupSound' /\ SwitchSound'
    BY DEF RollbackSound, CleanupSound, SwitchSound
  <1> QED
    BY <1>1, <1>2 DEF ReconcileSound

-----------------------------------------------------------------------------
(***************************************************************************)
(* Steps that leave the invariant's state alone, or move op only.          *)
(***************************************************************************)

quietVars == <<src, seenRs, seenSrc, tgt, seenTgt, routing, plan, db, journal, envVars>>

\* Bookkeeping: no field the invariant depends on changes, and the reconcile in
\* flight stays or ends.
LEMMA QuietStep ==
    ASSUME BarrierInv, TypeOK', SameCore, UNCHANGED quietVars, op' = op \/ op' = Idle
    PROVE  BarrierInv'
  <1>1. ReconcileSound'
    BY ReconcileFrame, IdleFrame DEF BarrierInv, quietVars
  <1>2. ClaimHeld'
    BY ClaimFrame, IdleFrame DEF BarrierInv, quietVars, envVars
  <1> QED
    BY <1>1, <1>2, CachesFrame, PristineFrame, PoisonFrame, GatedFrame, LiveFrame,
       CommittedFrame, ServingFrame, SameCoreCommitted DEF BarrierInv, quietVars

\* A reconcile other than the one that opens a window starts or moves on.
LEMMA MoveStep ==
    ASSUME BarrierInv, TypeOK', UNCHANGED <<rs, quietVars>>,
           op'.kind # "open", ReconcileSound'
    PROVE  BarrierInv'
  <1>1. ClaimHeld'
    BY ClaimFrame, SameCoreFrame DEF BarrierInv, quietVars, envVars
  <1> QED
    BY <1>1, SameCoreFrame, CachesFrame, PristineFrame, PoisonFrame, GatedFrame, LiveFrame,
       CommittedFrame, ServingFrame, SameCoreCommitted DEF BarrierInv, quietVars

\* The steps that only do bookkeeping.
LEMMA QuietActions ==
    ASSUME BarrierInv, TypeOK',
           \/ AbortReconcile \/ EndBlocked \/ EndCleanupSwitch \/ SeeRouting
           \/ RemoveClaimFinalizer \/ UNCHANGED vars
           \/ \E r \in Reshards :
                 \/ AddClaimFinalizer(r) \/ ObserveGate(r) \/ SyncGateFinalizer(r)
                 \/ DecodeBarrier(r) \/ WorkflowRestarts(r)
    PROVE  BarrierInv'
  <1> USE DEF quietVars, apiVars, seenVars, envVars
  <1>1. CASE AbortReconcile \/ EndBlocked \/ EndCleanupSwitch
    BY <1>1, QuietStep, SameCoreFrame DEF AbortReconcile, EndBlocked, EndCleanupSwitch
  <1>2. CASE SeeRouting
    BY <1>2, QuietStep, SameCoreFrame DEF SeeRouting
  <1>3. CASE RemoveClaimFinalizer
    <2>1. TypeOK /\ op.r \in Reshards /\ rs[op.r].gateFin \in BOOLEAN
      BY <1>3, OpFields, ReshardFields DEF BarrierInv, RemoveClaimFinalizer, At, PCs
    <2>2. SameCore
      BY <1>3, <2>1, ClaimFinRemoval DEF RemoveClaimFinalizer
    <2> QED
      BY <1>3, <2>2, QuietStep DEF RemoveClaimFinalizer
  <1>4. CASE UNCHANGED vars
    BY <1>4, QuietStep, SameCoreFrame DEF vars
  <1>5. ASSUME NEW r \in Reshards, AddClaimFinalizer(r) PROVE BarrierInv'
    <2>1. SameCore
      BY <1>5, ClaimFinWrite DEF BarrierInv, AddClaimFinalizer
    <2> QED
      BY <1>5, <2>1, QuietStep DEF AddClaimFinalizer
  <1>6. ASSUME NEW r \in Reshards, ObserveGate(r) PROVE BarrierInv'
    <2>1. SameCore
      BY <1>6, ObservedWrite DEF BarrierInv, ObserveGate
    <2> QED
      BY <1>6, <2>1, QuietStep DEF ObserveGate
  <1>7. ASSUME NEW r \in Reshards, SyncGateFinalizer(r) PROVE BarrierInv'
    <2>1. /\ Holding(r) \in BOOLEAN
          /\ (~ rs[r].deleting \/ rs[r].claimFin \/ Holding(r)) \in BOOLEAN
      BY DEF Holding
    <2>2. SameCore
      BY <1>7, <2>1, GateFinWrite DEF BarrierInv, SyncGateFinalizer
    <2> QED
      BY <1>7, <2>2, QuietStep, ZenonT(60) DEF SyncGateFinalizer
  <1>8. ASSUME NEW r \in Reshards, DecodeBarrier(r) \/ WorkflowRestarts(r) PROVE BarrierInv'
    BY <1>8, QuietStep, SameCoreFrame DEF DecodeBarrier, WorkflowRestarts
  <1> QED
    BY <1>1, <1>2, <1>3, <1>4, <1>5, <1>6, <1>7, <1>8

\* A reconcile that starts from the cached reshard holds an earlier version of it.
LEMMA StartView ==
    ASSUME BarrierInv, NEW r \in Reshards, UNCHANGED rs,
           NEW kind, NEW pc, Starting(r, kind, pc)
    PROVE  /\ Earlier(op'.v, rs'[op'.r])
           /\ op'.kind = kind
           /\ op'.pc = pc
           /\ op'.r = r
           /\ op'.v = seenRs[r]
           /\ op'.s = seenSrc
  BY DEF Starting, BarrierInv, CachesEarlier

\* The steps that start a reconcile, other than the ones that claim or fence.
LEMMA StartActions ==
    ASSUME BarrierInv, TypeOK', NEW r \in Reshards,
           \/ FailReplaced(r) \/ FailForeign(r) \/ RollBack(r)
           \/ Cleanup(r) \/ StartSwitch(r) \/ CleanupSwitch(r)
    PROVE  BarrierInv'
  <1> USE DEF quietVars, apiVars, seenVars, envVars
  <1>1. CASE FailReplaced(r) \/ FailForeign(r)
    <2>1. Starting(r, "fail", FailEntry(seenRs[r])) /\ UNCHANGED <<rs, quietVars>>
      BY <1>1 DEF FailReplaced, FailForeign
    <2>2. seenRs[r].phase = "CuttingOver" /\ (replaced \/ r \in foreign)
      BY <1>1 DEF FailReplaced, FailForeign, Reconciling, InWindow
    <2>3. ReconcileSound'
      <3>1. op'.pc = "release" => ~ seenRs[r].committed /\ ~ seenRs[r].fenced
        BY SMTT(60), <2>1, StartView DEF FailEntry
      <3>2. op'.pc \in {"unfence", "release", "status"}
        BY <2>1, StartView DEF FailEntry
      <3>3. op'.pc = "unfence" => ~ seenRs[r].committed
        BY SMTT(60), <2>1, StartView DEF FailEntry
      <3>4. ViewSound'
        BY <2>1, <3>1, <3>2, <3>3, StartView DEF ViewSound, Earlier
      <3>5. op'.kind = "fail" /\ FailSound'
        BY <2>1, <2>2, <3>2, StartView DEF FailSound
      <3> QED
        BY <3>4, <3>5, SoundKind
    <2> QED
      BY SMTT(60), <2>1, <2>3, StartView, MoveStep
  <1>2. CASE RollBack(r)
    <2> DEFINE entry == IF UnfenceOwed(seenRs[r]) THEN "unfence" ELSE "status"
    <2>1. Starting(r, "rollback", entry) /\ UNCHANGED <<rs, quietVars>>
      BY <1>2 DEF RollBack
    <2>2. /\ seenRs[r].phase = "CuttingOver"
          /\ ~ seenRs[r].committed
          /\ <<r, seenRs[r].attempt>> \in expired
      BY <1>2 DEF RollBack, Reconciling, Past
    <2>3. entry \in {"unfence", "status"}
      OBVIOUS
    <2> HIDE DEF entry
    <2>4. ViewSound'
      BY <2>1, <2>2, <2>3, StartView DEF ViewSound
    <2>5. op'.kind = "rollback" /\ RollbackSound'
      BY <2>1, <2>2, <2>3, StartView DEF RollbackSound
    <2>6. ReconcileSound'
      BY <2>4, <2>5, SoundKind
    <2> QED
      BY <2>1, <2>5, <2>6, MoveStep
  <1>3. CASE Cleanup(r)
    <2> DEFINE entry == IF seenRs[r].gate THEN "ungate"
                        ELSE IF UnfenceOwed(seenRs[r]) THEN "unfence" ELSE "release"
    <2>1. Starting(r, "cleanup", entry) /\ UNCHANGED <<rs, quietVars>>
      BY <1>3 DEF Cleanup
    <2>2. /\ seenRs[r].deleting
          /\ seenRs[r].committed => ~ seenSrc.serving
      BY <1>3 DEF Cleanup
    <2>3. /\ entry \in {"ungate", "unfence", "release"}
          /\ entry = "unfence" => ~ seenRs[r].committed
          /\ entry = "release" => ~ UnfenceOwed(seenRs[r])
      BY DEF UnfenceOwed
    <2> HIDE DEF entry
    <2>4. ViewSound'
      BY <2>1, <2>2, <2>3, StartView DEF ViewSound, Earlier, UnfenceOwed
    <2>5. op'.kind = "cleanup" /\ CleanupSound'
      BY <2>1, <2>2, <2>3, StartView DEF CleanupSound
    <2>6. ReconcileSound'
      BY <2>4, <2>5, SoundKind
    <2> QED
      BY <2>1, <2>5, <2>6, MoveStep
  <1>4. CASE StartSwitch(r) \/ CleanupSwitch(r)
    <2>1. PICK kind \in {"switch", "cleanupSwitch"} :
             /\ Starting(r, kind, "flip")
             /\ UNCHANGED <<rs, quietVars>>
             /\ seenRs[r].committed
             /\ kind = "switch" => seenRs[r].phase = "CuttingOver"
      BY <1>4 DEF StartSwitch, CleanupSwitch, Reconciling
    <2>2. ViewSound'
      BY SMTT(60), <2>1, StartView DEF ViewSound
    <2>3. op'.kind \in {"switch", "cleanupSwitch"} /\ SwitchSound'
      BY <2>1, StartView DEF SwitchSound
    <2>4. ReconcileSound'
      BY <2>2, <2>3, SoundKind
    <2>5. op'.kind # "open"
      BY <2>3
    <2> QED
      BY <2>1, <2>4, <2>5, MoveStep
  <1> QED
    BY <1>1, <1>2, <1>3, <1>4

\* Which handlers are at which of their steps.
LEMMA KindAt ==
    ASSUME BarrierInv, op.pc \in PCs
    PROVE  /\ op # Idle
           /\ op.pc = "emit" => op.kind = "freeze"
           /\ op.pc = "ungate" => op.kind = "cleanup"
           /\ op.pc = "unfence" => op.kind \in {"fail", "rollback", "cleanup"}
           /\ op.pc = "unfenced" => op.kind \in {"fail", "cleanup"}
           /\ op.pc = "release" => op.kind \in {"fail", "cleanup", "switch", "cleanupSwitch"}
           /\ op.pc \in {"flip", "compiled"} => op.kind \in {"switch", "cleanupSwitch"}
           /\ ViewSound
  <1>1. op # Idle /\ op.kind \in Kinds
    BY OpFields DEF BarrierInv
  <1>2. ReconcileSound
    BY DEF BarrierInv
  <1> QED
    BY <1>1, <1>2 DEF ReconcileSound, OpenSound, FreezeSound, FailSound, RollbackSound,
             CleanupSound, SwitchSound, Kinds

\* A reconcile that moves to step p keeps everything else it holds.
LEMMA MoveFields ==
    ASSUME op \in Reconciles, NEW p, op' = [op EXCEPT !.pc = p]
    PROVE  /\ op'.pc = p
           /\ op'.kind = op.kind
           /\ op'.r = op.r
           /\ op'.v = op.v
           /\ op'.s = op.s
           /\ op'.lsn = op.lsn
  BY DEF Reconciles

\* The steps that only move the reconcile in flight.
LEMMA MoveActions ==
    ASSUME BarrierInv, TypeOK',
           ReplayBarrier \/ FailFreeze \/ SkipUnfence \/ NothingToRelease \/ SwitchCompiled
    PROVE  BarrierInv'
  <1> USE DEF quietVars, apiVars, seenVars, envVars
  <1>1. /\ UNCHANGED <<rs, quietVars>>
        /\ op.pc \in PCs
    BY DEF ReplayBarrier, FailFreeze, SkipUnfence, NothingToRelease, SwitchCompiled, At, PCs
  <1>2. /\ op \in Reconciles
        /\ op.r \in Reshards
        /\ op.v.attempt \in Attempts
        /\ op # Idle
        /\ ReconcileSound
    BY <1>1, OpFields DEF BarrierInv
  <1>3. CASE ReplayBarrier
    <2>1. /\ op'.pc = "status"
          /\ op'.kind = op.kind
          /\ op'.r = op.r
          /\ op'.v = op.v
          /\ op'.lsn = journal[op.r][op.v.attempt]
          /\ op'.lsn > 0
      BY <1>2, <1>3 DEF ReplayBarrier, Slot, Reconciles
    <2>2. op.kind = "freeze" /\ ViewSound
      BY <1>1, <1>3, KindAt DEF ReplayBarrier, At
    <2>3. op.v.attempt = rs[op.r].attempt /\ Live(op.r) => db.last <= op'.lsn
      BY <1>2, <2>1 DEF BarrierInv, LiveSealed, SealedAt
    <2>4. FreezeSound'
      BY <1>1, <1>2, <2>1, <2>2, <2>3 DEF ReconcileSound, FreezeSound, Live, Doomed
    <2>5. ViewSound'
      BY <1>1, <2>1, <2>2 DEF ViewSound
    <2>6. ReconcileSound'
      BY <2>1, <2>2, <2>4, <2>5
         DEF ReconcileSound, OpenSound, FailSound, RollbackSound, CleanupSound, SwitchSound
    <2> QED
      BY <1>1, <2>1, <2>2, <2>6, MoveStep
  <1>4. CASE FailFreeze
    BY <1>2, <1>4 DEF BarrierInv, NothingPoisoned, FailFreeze, Slot
  <1>5. CASE SkipUnfence
    <2>1. op.kind \in {"fail", "rollback", "cleanup"} /\ ViewSound /\ op.pc = "unfence"
      BY <1>1, <1>5, KindAt DEF SkipUnfence, At
    <2>2. AfterUnfence = IF op.kind = "rollback" THEN "status" ELSE "unfenced"
      BY DEF AfterUnfence
    <2>3. op' = [op EXCEPT !.pc = AfterUnfence]
      BY <1>5 DEF SkipUnfence
    <2>4. ViewSound'
      BY <1>1, <1>2, <2>1, <2>2, <2>3, MoveFields DEF ViewSound
    <2>5. ReconcileSound'
      BY SMTT(60), <1>1, <1>2, <2>1, <2>2, <2>3, <2>4, MoveFields
         DEF ReconcileSound, OpenSound, FreezeSound, FailSound, RollbackSound,
             CleanupSound, SwitchSound
    <2> QED
      BY <1>1, <1>2, <2>1, <2>3, <2>5, MoveFields, MoveStep
  <1>6. CASE NothingToRelease
    <2>1. /\ op.kind \in {"fail", "cleanup", "switch", "cleanupSwitch"}
          /\ ViewSound
          /\ op.pc = "release"
      BY <1>1, <1>6, KindAt DEF NothingToRelease, At
    <2>2. op' = [op EXCEPT !.pc = "status"]
      BY <1>6 DEF NothingToRelease
    <2>3. ViewSound'
      BY <1>1, <1>2, <2>1, <2>2, MoveFields DEF ViewSound
    <2>4. ReconcileSound'
      BY SMTT(60), <1>1, <1>2, <2>1, <2>2, <2>3, MoveFields
         DEF ReconcileSound, OpenSound, FreezeSound, FailSound, RollbackSound,
             CleanupSound, SwitchSound
    <2> QED
      BY <1>1, <1>2, <2>1, <2>2, <2>4, MoveFields, MoveStep
  <1>7. CASE SwitchCompiled
    <2>1. /\ op.kind \in {"switch", "cleanupSwitch"}
          /\ ViewSound
          /\ op.pc = "compiled"
      BY <1>1, <1>7, KindAt DEF SwitchCompiled, At
    <2>2. op' = [op EXCEPT !.pc = "release"]
      BY <1>7 DEF SwitchCompiled
    <2>3. ViewSound'
      BY <1>1, <1>2, <2>1, <2>2, MoveFields DEF ViewSound, ReconcileSound, SwitchSound
    <2>4. ReconcileSound'
      BY <1>1, <1>2, <2>1, <2>2, <2>3, MoveFields
         DEF ReconcileSound, OpenSound, FreezeSound, FailSound, RollbackSound,
             CleanupSound, SwitchSound
    <2> QED
      BY <1>1, <1>2, <2>1, <2>2, <2>4, MoveFields, MoveStep
  <1> QED
    BY <1>3, <1>4, <1>5, <1>6, <1>7

-----------------------------------------------------------------------------
(***************************************************************************)
(* Writes of a reshard from the work queue: no reconcile is in flight and  *)
(* the cached object is current.                                           *)
(***************************************************************************)

\* An object is an earlier version of itself.
LEMMA EarlierReflexive ==
    ASSUME NEW o \in ReshardObject
    PROVE  Earlier(o, o)
  BY SMTT(60), ReshardFields DEF Earlier, Attempts

\* The new version of r starts no attempt that left a trace.
WritesPristine(r) ==
    /\ rs'[r].attempt >= rs[r].attempt
    /\ rs'[r].phase \in {"CatchingUp", "ReadyToCutover"} =>
          /\ rs'[r].frozen = 0
          /\ ~ rs'[r].committed
          /\ journal[r][rs'[r].attempt] = Unused

\* It opens a window with the gate and the claim only.
WritesGated(r) ==
    /\ rs'[r].phase = "CuttingOver" /\ ~ rs'[r].deleting => rs'[r].gate
    /\ rs'[r].phase = "CuttingOver" /\ ~ Finished(r) => src.claim = r

\* It neither deletes nor commits, and keeps the barrier of a committed switch.
WritesNoCommit(r) ==
    /\ rs'[r].deleting = rs[r].deleting
    /\ rs'[r].committed = rs[r].committed
    /\ rs'[r].committed => rs'[r].frozen = rs[r].frozen

\* A barrier of a live window seals the source.
WritesSealed(r) ==
    Live(r)' =>
        /\ rs'[r].frozen > 0 => SealedAt(rs'[r].frozen) /\ rs'[r].fenced
        /\ journal[r][rs'[r].attempt] > 0 => SealedAt(journal[r][rs'[r].attempt])

\* What the write of one reshard needs to keep the invariant, when op is idle
\* after it and it does not commit a switch.
LEMMA WriteStep ==
    ASSUME BarrierInv, TypeOK', NEW r \in Reshards, OnlyWrites(r), UNCHANGED quietVars,
           op' = Idle, Earlier(seenRs[r], rs'[r]),
           WritesPristine(r), WritesGated(r), WritesNoCommit(r), WritesSealed(r)
    PROVE  BarrierInv'
  <1> USE DEF quietVars, envVars, WritesPristine, WritesGated, WritesNoCommit, WritesSealed
  <1>1. \A q \in Reshards : q # r => rs'[q] = rs[q]
    BY DEF OnlyWrites
  <1>2. CachesEarlier'
    BY <1>1 DEF BarrierInv, CachesEarlier
  <1>3. AttemptPristine'
    <2>1. rs[r] \in ReshardObject /\ rs'[r] \in ReshardObject
      BY DEF BarrierInv, TypeOK
    <2>2. rs[r].attempt \in Int /\ rs'[r].attempt \in Int
      BY SMTT(60), <2>1, ReshardFields DEF Attempts
    <2> QED
      BY SMTT(60), <1>1, <2>2 DEF BarrierInv, AttemptPristine, Attempts
  <1>4. WindowGated'
    BY <1>1 DEF BarrierInv, WindowGated
  <1>5. ClaimHeld'
    BY <1>1, IdleFrame DEF BarrierInv, ClaimHeld, Finished
  <1>6. LiveSealed'
    BY <1>1, ZenonT(60) DEF BarrierInv, LiveSealed, Live, Doomed, SealedAt
  <1>7. CommittedSealed' /\ AtMostOneSwitch'
    BY <1>1, CommittedFrame DEF BarrierInv
  <1>8. ServingCommitted'
    BY <1>1, ServingFrame DEF BarrierInv
  <1> QED
    BY <1>2, <1>3, <1>4, <1>5, <1>6, <1>7, <1>8, IdleFrame, PoisonFrame DEF BarrierInv

\* The writes from the work queue that commit nothing.
LEMMA QueueWrites ==
    ASSUME BarrierInv, TypeOK', NEW r \in Reshards,
           ReachReady(r) \/ FailSeeding(r) \/ RecordFence(r)
    PROVE  BarrierInv'
  <1> USE DEF quietVars, seenVars, envVars
  <1>1. /\ TypeOK
        /\ UNCHANGED quietVars
        /\ op' = Idle
        /\ seenRs[r] = rs[r]
    BY DEF BarrierInv, ReachReady, FailSeeding, RecordFence, InWindow, Reconciling, Current
  <1>2. /\ rs[r] \in ReshardObject
        /\ rs[r].attempt \in Int
    BY SMTT(60), <1>1, ReshardFields DEF TypeOK, Attempts
  <1>3. CASE ReachReady(r)
    <2>1. rs[r].phase = "CatchingUp"
      BY <1>1, <1>3 DEF ReachReady, Reconciling
    <2>2. /\ OnlyWrites(r)
          /\ rs'[r].phase = "ReadyToCutover"
          /\ rs'[r].deleting = rs[r].deleting
          /\ rs'[r].attempt = rs[r].attempt
          /\ rs'[r].gate = rs[r].gate
          /\ rs'[r].fenced = rs[r].fenced
          /\ rs'[r].frozen = rs[r].frozen
          /\ rs'[r].committed = rs[r].committed
      BY <1>1, <1>3, PhaseWrite, ZenonT(60) DEF ReachReady, Phases
    <2>3. Earlier(seenRs[r], rs'[r])
      BY SMTT(60), <1>1, <1>2, <2>1, <2>2 DEF Earlier
    <2>4. /\ rs[r].frozen = 0
          /\ ~ rs[r].committed
          /\ journal[r][rs[r].attempt] = Unused
      BY <2>1 DEF BarrierInv, AttemptPristine
    <2>5. WritesPristine(r)
      BY SMTT(60), <1>2, <2>2, <2>4 DEF WritesPristine
    <2>6. WritesGated(r) /\ WritesNoCommit(r) /\ WritesSealed(r)
      BY <2>2 DEF WritesGated, WritesNoCommit, WritesSealed, Live
    <2> QED
      BY <1>1, <2>2, <2>3, <2>5, <2>6, WriteStep
  <1>4. CASE FailSeeding(r)
    <2>1. rs[r].phase \in {"CatchingUp", "ReadyToCutover"}
      BY <1>1, <1>4 DEF FailSeeding, Reconciling
    <2>2. /\ OnlyWrites(r)
          /\ rs'[r].phase = "Failed"
          /\ rs'[r].deleting = rs[r].deleting
          /\ rs'[r].attempt = rs[r].attempt
          /\ rs'[r].gate = rs[r].gate
          /\ rs'[r].fenced = rs[r].fenced
          /\ rs'[r].frozen = rs[r].frozen
          /\ rs'[r].committed = rs[r].committed
      BY <1>1, <1>4, PhaseWrite, ZenonT(60) DEF FailSeeding, Phases
    <2>3. Earlier(seenRs[r], rs'[r])
      BY SMTT(60), <1>1, <1>2, <2>1, <2>2 DEF Earlier
    <2>4. WritesPristine(r)
      BY SMTT(60), <1>2, <2>2 DEF WritesPristine
    <2>5. WritesGated(r) /\ WritesNoCommit(r) /\ WritesSealed(r)
      BY <2>2 DEF WritesGated, WritesNoCommit, WritesSealed, Live
    <2> QED
      BY <1>1, <2>2, <2>3, <2>4, <2>5, WriteStep
  <1>5. CASE RecordFence(r)
    <2>1. /\ rs[r].phase = "CuttingOver"
          /\ ~ rs[r].deleting
          /\ rs[r].frozen = 0
      BY <1>1, <1>5 DEF RecordFence, InWindow, Reconciling
    <2>2. /\ OnlyWrites(r)
          /\ rs'[r].phase = rs[r].phase
          /\ rs'[r].deleting = rs[r].deleting
          /\ rs'[r].attempt = rs[r].attempt
          /\ rs'[r].gate = rs[r].gate
          /\ rs'[r].fenced = TRUE
          /\ rs'[r].frozen = rs[r].frozen
          /\ rs'[r].committed = rs[r].committed
      BY <1>1, <1>5, FencedWrite, ZenonT(60) DEF RecordFence
    <2>3. Earlier(seenRs[r], rs'[r])
      BY SMTT(60), <1>1, <1>2, <2>1, <2>2 DEF Earlier
    <2>4. ~ Finished(r) => src.claim = r
      BY <2>1 DEF BarrierInv, ClaimHeld
    <2>5. rs[r].gate
      BY <2>1 DEF BarrierInv, WindowGated
    <2>6. Live(r)' /\
             journal[r][rs[r].attempt] > 0 => SealedAt(journal[r][rs[r].attempt])
      BY <1>1, <2>2, ZenonT(60) DEF BarrierInv, LiveSealed, Live, Doomed
    <2>7. WritesPristine(r)
      BY SMTT(60), <1>2, <2>1, <2>2 DEF WritesPristine
    <2>8. WritesGated(r) /\ WritesNoCommit(r)
      BY <2>2, <2>4, <2>5 DEF WritesGated, WritesNoCommit
    <2>9. WritesSealed(r)
      BY SMTT(60), <2>1, <2>2, <2>6 DEF WritesSealed
    <2> QED
      BY <1>1, <2>2, <2>3, <2>7, <2>8, <2>9, WriteStep, ZenonT(60)
  <1> QED
    BY <1>3, <1>4, <1>5

\* The point of no return: the window is live, so its barrier seals the source,
\* and the claim keeps every other reshard from committing.
LEMMA CommitStep ==
    ASSUME BarrierInv, TypeOK', NEW r \in Reshards, CommitSwitch(r)
    PROVE  BarrierInv'
  <1> USE DEF quietVars, seenVars, envVars
  <1>1. /\ TypeOK
        /\ UNCHANGED quietVars
        /\ op = Idle
        /\ op' = Idle
        /\ seenRs[r] = rs[r]
        /\ rs[r].phase = "CuttingOver"
        /\ ~ rs[r].committed
        /\ ~ rs[r].deleting
        /\ ~ replaced
        /\ r \notin foreign
        /\ rs[r].frozen > 0
    BY DEF BarrierInv, CommitSwitch, InWindow, Reconciling, Current
  <1>2. Live(r)
    <2>1. rs[r].gate
      BY <1>1 DEF BarrierInv, WindowGated
    <2>2. <<r, rs[r].attempt>> \notin expired
      BY <1>1, <2>1 DEF CommitSwitch, InWindow, Past
    <2> QED
      BY <1>1, <2>2 DEF Live, Doomed
  <1>3. SealedAt(rs[r].frozen) /\ rs[r].fenced
    BY <1>1, <1>2 DEF BarrierInv, LiveSealed
  <1>4. src.claim = r
    BY <1>1 DEF BarrierInv, ClaimHeld, Finished
  <1>5. /\ OnlyWrites(r)
        /\ rs'[r].phase = rs[r].phase
        /\ rs'[r].deleting = rs[r].deleting
        /\ rs'[r].attempt = rs[r].attempt
        /\ rs'[r].gate = rs[r].gate
        /\ rs'[r].fenced = rs[r].fenced
        /\ rs'[r].frozen = rs[r].frozen
        /\ rs'[r].committed = TRUE
    BY <1>1, CommittedWrite DEF CommitSwitch
  <1>6. \A q \in Reshards : q # r => rs'[q] = rs[q]
    BY <1>5 DEF OnlyWrites
  <1>7. r # NoReshard
    BY ReshardsAssumption
  <1>8. \A q \in Reshards : ~ rs[q].committed
    BY <1>1, <1>4, <1>7 DEF BarrierInv, CommittedSealed
  <1>9. CachesEarlier'
    BY SMTT(60), <1>1, <1>3, <1>5, <1>6 DEF BarrierInv, CachesEarlier, Earlier
  <1>10. AttemptPristine'
    BY SMTT(60), <1>1, <1>5, <1>6 DEF BarrierInv, AttemptPristine
  <1>11. WindowGated'
    BY <1>5, <1>6 DEF BarrierInv, WindowGated
  <1>12. ClaimHeld'
    BY <1>1, <1>5, <1>6, IdleFrame, ZenonT(60) DEF BarrierInv, ClaimHeld, Finished
  <1>13. LiveSealed'
    BY <1>1, <1>5, <1>6 DEF BarrierInv, LiveSealed, Live, Doomed, SealedAt
  <1>14. CommittedSealed'
    BY <1>1, <1>3, <1>4, <1>5, <1>6, <1>7, <1>8 DEF CommittedSealed, SealedAt
  <1>15. AtMostOneSwitch'
    BY <1>6, <1>8 DEF AtMostOneSwitch, Committed
  <1>16. ServingCommitted'
    BY <1>1, <1>5, <1>6, ServingFrame DEF BarrierInv
  <1> QED
    BY <1>1, <1>9, <1>10, <1>11, <1>12, <1>13, <1>14, <1>15, <1>16, IdleFrame, PoisonFrame
       DEF BarrierInv

-----------------------------------------------------------------------------
(***************************************************************************)
(* Writes that end a reconcile: the object still is the one it read.       *)
(***************************************************************************)

\* What holds of the reshard of a reconcile whose write succeeds.
LEMMA OpWrite ==
    ASSUME BarrierInv, op.pc \in PCs, Unchanged(op.r)
    PROVE  /\ TypeOK
           /\ op \in Reconciles
           /\ op # Idle
           /\ op.r \in Reshards
           /\ op.v = rs[op.r]
           /\ op.lsn \in Nat
           /\ rs[op.r] \in ReshardObject
           /\ rs[op.r].attempt \in Attempts
           /\ rs[op.r].attempt \in Int
           /\ seenRs[op.r] \in ReshardObject
           /\ seenRs[op.r].attempt \in Int
           /\ Earlier(seenRs[op.r], rs[op.r])
           /\ ReconcileSound
  <1>1. /\ TypeOK
        /\ op \in Reconciles
        /\ op # Idle
        /\ op.r \in Reshards
        /\ op.lsn \in Nat
        /\ rs[op.r] \in ReshardObject
    BY OpFields DEF BarrierInv
  <1>2. seenRs[op.r] \in ReshardObject
    BY <1>1 DEF TypeOK
  <1> QED
    BY SMTT(60), <1>1, <1>2, ReshardFields DEF Unchanged, BarrierInv, CachesEarlier, Attempts

\* The five status writes that end a handler.
LEMMA StatusWrites ==
    ASSUME BarrierInv, TypeOK', NEW r \in Reshards, r = op.r,
           OpenWindow \/ RecordBarrier \/ RecordFailed \/ RecordRollBack \/ RecordSwitched
    PROVE  BarrierInv'
  <1> USE DEF quietVars, seenVars, envVars
  <1>1. /\ UNCHANGED quietVars
        /\ op' = Idle
        /\ op.pc = "status"
        /\ Unchanged(r)
        /\ op.pc \in PCs
    BY DEF OpenWindow, RecordBarrier, RecordFailed, RecordRollBack, RecordSwitched, At, PCs
  <1>2. /\ TypeOK
        /\ r \in Reshards
        /\ op # Idle
        /\ op.v = rs[r]
        /\ op.lsn \in Nat
        /\ rs[r] \in ReshardObject
        /\ rs[r].attempt \in Attempts
        /\ rs[r].attempt \in Int
        /\ seenRs[r].attempt \in Int
        /\ Earlier(seenRs[r], rs[r])
        /\ ReconcileSound
    BY <1>1, OpWrite
  <1>3. CASE OpenWindow
    <2>1. op.kind = "open" /\ rs[r].phase = "ReadyToCutover"
      BY <1>2, <1>3 DEF OpenWindow, ReconcileSound, OpenSound
    <2>2. /\ OnlyWrites(r)
          /\ rs'[r].phase = "CuttingOver"
          /\ rs'[r].deleting = rs[r].deleting
          /\ rs'[r].attempt = rs[r].attempt
          /\ rs'[r].gate = TRUE
          /\ rs'[r].fenced = rs[r].fenced
          /\ rs'[r].frozen = rs[r].frozen
          /\ rs'[r].committed = rs[r].committed
      BY <1>2, <1>3, GatePhaseWrite, ZenonT(60) DEF OpenWindow, Phases
    <2>3. /\ rs[r].frozen = 0
          /\ ~ rs[r].committed
          /\ journal[r][rs[r].attempt] = 0
      BY <1>2, <2>1 DEF BarrierInv, AttemptPristine, Unused
    <2>4. Earlier(seenRs[r], rs'[r])
      BY <1>2, <2>1, <2>2 DEF Earlier
    <2>5. ~ Finished(r) => src.claim = r
      BY <1>2, <2>1 DEF BarrierInv, ClaimHeld
    <2>6. WritesPristine(r)
      BY SMTT(60), <1>2, <2>2 DEF WritesPristine
    <2>7. WritesGated(r) /\ WritesNoCommit(r)
      BY <2>2, <2>5 DEF WritesGated, WritesNoCommit
    <2>8. WritesSealed(r)
      BY SMTT(60), <2>2, <2>3 DEF WritesSealed
    <2> QED
      BY <1>1, <2>2, <2>4, <2>6, <2>7, <2>8, WriteStep
  <1>4. CASE RecordBarrier
    <2>1. op.kind = "freeze" /\ FreezeSound
      BY <1>2, <1>4 DEF RecordBarrier, ReconcileSound
    <2>2. /\ rs[r].phase = "CuttingOver"
          /\ rs[r].fenced
          /\ ~ rs[r].committed
          /\ Live(r) => SealedAt(op.lsn)
      BY <1>1, <1>2, <2>1 DEF FreezeSound, SealedAt
    <2>3. /\ OnlyWrites(r)
          /\ rs'[r].phase = rs[r].phase
          /\ rs'[r].deleting = rs[r].deleting
          /\ rs'[r].attempt = rs[r].attempt
          /\ rs'[r].gate = rs[r].gate
          /\ rs'[r].fenced = rs[r].fenced
          /\ rs'[r].frozen = op.lsn
          /\ rs'[r].committed = rs[r].committed
      BY <1>2, <1>4, FrozenWrite, ZenonT(60) DEF RecordBarrier
    <2>4. Earlier(seenRs[r], rs'[r])
      BY <1>2, <2>3 DEF Earlier
    <2>5. ~ Finished(r) => src.claim = r
      BY <1>2, <2>2 DEF BarrierInv, ClaimHeld
    <2>6. ~ rs[r].deleting => rs[r].gate
      BY <1>2, <2>2 DEF BarrierInv, WindowGated
    <2>7. Live(r)' => Live(r)
      BY <1>1, <2>3 DEF Live, Doomed
    <2>8. Live(r) /\
             journal[r][rs[r].attempt] > 0 => SealedAt(journal[r][rs[r].attempt])
      BY <1>2 DEF BarrierInv, LiveSealed
    <2>9. WritesPristine(r)
      BY SMTT(60), <1>2, <2>2, <2>3 DEF WritesPristine
    <2>10. WritesGated(r) /\ WritesNoCommit(r)
      BY <2>2, <2>3, <2>5, <2>6 DEF WritesGated, WritesNoCommit
    <2>11. WritesSealed(r)
      BY <2>2, <2>3, <2>7, <2>8 DEF WritesSealed
    <2> QED
      BY <1>1, <2>3, <2>4, <2>9, <2>10, <2>11, WriteStep
  <1>5. CASE RecordFailed
    <2>1. rs[r].phase = "CuttingOver"
      BY <1>2, <1>5 DEF RecordFailed, ReconcileSound, FailSound
    <2>2. /\ OnlyWrites(r)
          /\ rs'[r].phase = "Failed"
          /\ rs'[r].deleting = rs[r].deleting
          /\ rs'[r].attempt = rs[r].attempt
          /\ rs'[r].frozen = rs[r].frozen
          /\ rs'[r].committed = rs[r].committed
      BY <1>2, <1>5, PhaseWrite, ZenonT(60) DEF RecordFailed, Phases
    <2>3. Earlier(seenRs[r], rs'[r])
      BY <1>2, <2>1, <2>2 DEF Earlier
    <2>4. WritesPristine(r)
      BY SMTT(60), <1>2, <2>2 DEF WritesPristine
    <2>5. WritesGated(r) /\ WritesNoCommit(r) /\ WritesSealed(r)
      BY <2>2 DEF WritesGated, WritesNoCommit, WritesSealed, Live
    <2> QED
      BY <1>1, <2>2, <2>3, <2>4, <2>5, WriteStep
  <1>6. CASE RecordRollBack
    <2>1. rs[r].phase = "CuttingOver" /\ ~ rs[r].committed
      BY <1>2, <1>6 DEF RecordRollBack, ReconcileSound, RollbackSound
    <2>2. rs[r].attempt + 1 \in Attempts
      BY SMTT(60), <1>2, <1>6, BoundsAssumption DEF RecordRollBack, Attempts
    <2>3. /\ OnlyWrites(r)
          /\ rs'[r].deleting = rs[r].deleting
          /\ rs'[r].phase = "CatchingUp"
          /\ rs'[r].attempt = rs[r].attempt + 1
          /\ rs'[r].frozen = 0
          /\ rs'[r].committed = rs[r].committed
      BY <1>2, <1>6, <2>2, RollBackWrite, ZenonT(60) DEF RecordRollBack
    <2>4. Earlier(seenRs[r], rs'[r])
      BY SMTT(60), <1>2, <2>1, <2>3 DEF Earlier
    <2>5. journal[r][rs[r].attempt + 1] = Unused
      BY SMTT(60), <1>2, <2>2 DEF BarrierInv, AttemptPristine
    <2>6. WritesPristine(r)
      BY SMTT(60), <1>2, <2>1, <2>3, <2>5 DEF WritesPristine
    <2>7. WritesGated(r) /\ WritesNoCommit(r) /\ WritesSealed(r)
      BY <2>1, <2>3 DEF WritesGated, WritesNoCommit, WritesSealed, Live
    <2> QED
      BY <1>1, <2>3, <2>4, <2>6, <2>7, WriteStep
  <1>7. CASE RecordSwitched
    <2>1. rs[r].phase = "CuttingOver"
      BY <1>2, <1>7 DEF RecordSwitched, ReconcileSound, SwitchSound
    <2>2. /\ OnlyWrites(r)
          /\ rs'[r].phase = "SwitchedForward"
          /\ rs'[r].deleting = rs[r].deleting
          /\ rs'[r].attempt = rs[r].attempt
          /\ rs'[r].frozen = rs[r].frozen
          /\ rs'[r].committed = rs[r].committed
      BY <1>2, <1>7, GatePhaseWrite, ZenonT(60) DEF RecordSwitched, Phases
    <2>3. Earlier(seenRs[r], rs'[r])
      BY <1>2, <2>1, <2>2 DEF Earlier
    <2>4. WritesPristine(r)
      BY SMTT(60), <1>2, <2>2 DEF WritesPristine
    <2>5. WritesGated(r) /\ WritesNoCommit(r) /\ WritesSealed(r)
      BY <2>2 DEF WritesGated, WritesNoCommit, WritesSealed, Live
    <2> QED
      BY <1>1, <2>2, <2>3, <2>4, <2>5, WriteStep
  <1> QED
    BY <1>3, <1>4, <1>5, <1>6, <1>7

\* The writes in the middle of a clean-up: they are made for a reshard that
\* cannot commit any more.
LEMMA CleanupWrites ==
    ASSUME BarrierInv, TypeOK', ClearGate \/ RecordUnfence
    PROVE  BarrierInv'
  <1> USE DEF quietVars, seenVars, envVars
  <1> DEFINE r == op.r
  <1>1. /\ UNCHANGED quietVars
        /\ Unchanged(r)
        /\ op.pc \in PCs
    BY DEF ClearGate, RecordUnfence, At, PCs
  <1>2. /\ TypeOK
        /\ op \in Reconciles
        /\ r \in Reshards
        /\ op # Idle
        /\ op.v = rs[r]
        /\ rs[r] \in ReshardObject
        /\ rs[r].attempt \in Int
        /\ Earlier(seenRs[r], rs[r])
        /\ ReconcileSound
    BY <1>1, OpWrite
  <1>3. /\ op.kind \in {"fail", "cleanup"}
        /\ ViewSound
        /\ Doomed(r)
    BY <1>1, <1>2, KindAt DEF ClearGate, RecordUnfence, At, ReconcileSound, FailSound,
                              CleanupSound, Doomed
  <1>4. /\ OnlyWrites(r)
        /\ rs'[r].deleting = rs[r].deleting
        /\ rs'[r].phase = rs[r].phase
        /\ rs'[r].attempt = rs[r].attempt
        /\ rs'[r].frozen = rs[r].frozen
        /\ rs'[r].committed = rs[r].committed
        /\ rs'[r].gate = rs[r].gate \/ rs[r].deleting
    <2>1. CASE ClearGate
      <3>1. rs[r].deleting
        BY <1>1, <1>2, <2>1, KindAt DEF ClearGate, At, ReconcileSound, CleanupSound
      <3> QED
        BY <1>2, <2>1, <3>1, GateWrite, ZenonT(60) DEF ClearGate
    <2>2. CASE RecordUnfence
      BY <1>2, <2>2, FencedWrite, ZenonT(60) DEF RecordUnfence
    <2> QED
      BY <2>1, <2>2
  <1>5. /\ op'.kind = op.kind
        /\ op'.r = r
        /\ op'.s = op.s
        /\ op'.v = rs'[r]
        /\ op'.pc \in {"unfence", "release"}
        /\ op'.pc = "unfence" => ~ rs[r].committed
        /\ op'.pc = "release" /\ rs[r].committed => op.kind = "cleanup"
    <2>1. CASE ClearGate
      <3>1. op'.v = [op.v EXCEPT !.gate = FALSE] /\ rs'[r] = [rs[r] EXCEPT !.gate = FALSE]
        BY <1>2, <2>1 DEF ClearGate, Reconciles, TypeOK
      <3>2. /\ op'.kind = op.kind
            /\ op'.r = r
            /\ op'.s = op.s
            /\ op'.pc = IF UnfenceOwed(op.v) THEN "unfence" ELSE "release"
        BY <1>2, <2>1 DEF ClearGate, Reconciles
      <3>3. op.kind = "cleanup"
        BY <1>1, <2>1, KindAt DEF ClearGate, At
      <3> QED
        BY <1>2, <3>1, <3>2, <3>3 DEF UnfenceOwed
    <2>2. CASE RecordUnfence
      <3>1. op'.v = [op.v EXCEPT !.fenced = FALSE] /\ rs'[r] = [rs[r] EXCEPT !.fenced = FALSE]
        BY <1>2, <2>2 DEF RecordUnfence, Reconciles, TypeOK
      <3>2. /\ op'.kind = op.kind
            /\ op'.r = r
            /\ op'.s = op.s
            /\ op'.pc = "release"
        BY <1>2, <2>2 DEF RecordUnfence, Reconciles
      <3>3. ~ rs[r].committed
        BY <1>2, <1>3, <2>2 DEF RecordUnfence, At, ViewSound
      <3> QED
        BY <1>2, <3>1, <3>2, <3>3
    <2> QED
      BY <2>1, <2>2
  <1>6. rs'[r] \in ReshardObject
    BY <1>2, <1>4 DEF OnlyWrites
  <1>7. \A q \in Reshards : q # r => rs'[q] = rs[q]
    BY <1>4 DEF OnlyWrites
  <1>8. ReconcileSound'
    <2>1. op.kind = "cleanup" => rs[r].deleting /\ (rs[r].committed => ~ op.s.serving)
      BY <1>2 DEF ReconcileSound, CleanupSound
    <2>2. op.kind = "fail" => rs[r].phase = "CuttingOver" /\ (replaced \/ r \in foreign)
      BY <1>2 DEF ReconcileSound, FailSound
    <2>3. ViewSound'
      BY <1>4, <1>5, <1>6, <2>1, EarlierReflexive DEF ViewSound
    <2>4. op.kind = "cleanup" => CleanupSound'
      BY <1>4, <1>5, <2>1 DEF CleanupSound
    <2>5. op.kind = "fail" => FailSound'
      BY <1>1, <1>4, <1>5, <2>2 DEF FailSound
    <2> QED
      BY <1>3, <1>5, <2>3, <2>4, <2>5, SoundKind
  <1>9. CachesEarlier'
    BY SMTT(60), <1>1, <1>2, <1>4, <1>7 DEF BarrierInv, CachesEarlier, Earlier
  <1>10. AttemptPristine'
    BY SMTT(60), <1>1, <1>4, <1>7 DEF BarrierInv, AttemptPristine
  <1>11. WindowGated'
    BY <1>4, <1>7 DEF BarrierInv, WindowGated
  <1>12. ClaimHeld'
    BY SMTT(60), <1>1, <1>3, <1>4, <1>5, <1>7 DEF BarrierInv, ClaimHeld, Finished
  <1>13. LiveSealed'
    BY <1>1, <1>3, <1>4, <1>7 DEF BarrierInv, LiveSealed, Live, Doomed, SealedAt
  <1>14. CommittedSealed' /\ AtMostOneSwitch'
    BY <1>1, <1>4, <1>7, CommittedFrame DEF BarrierInv
  <1>15. ServingCommitted'
    BY <1>1, <1>4, <1>7, ServingFrame DEF BarrierInv
  <1> QED
    BY <1>1, <1>8, <1>9, <1>10, <1>11, <1>12, <1>13, <1>14, <1>15, PoisonFrame DEF BarrierInv

-----------------------------------------------------------------------------
(***************************************************************************)
(* The claim, the fence and the barrier.                                   *)
(***************************************************************************)

\* The fields of the source shard and of the database after a write.
LEMMA SourceWrites ==
    ASSUME NEW s \in SourceShard, NEW c, NEW b
    PROVE  /\ [s EXCEPT !.claim = c].claim = c
           /\ [s EXCEPT !.claim = c].serving = s.serving
           /\ [s EXCEPT !.serving = b].serving = b
           /\ [s EXCEPT !.serving = b].claim = s.claim
  BY DEF SourceShard

\* Fencing or un-fencing moves neither the WAL position nor the last write.
LEMMA FenceWrite ==
    ASSUME NEW d \in Database, NEW w
    PROVE  /\ [d EXCEPT !.writes = w].writes = w
           /\ [d EXCEPT !.writes = w].lsn = d.lsn
           /\ [d EXCEPT !.writes = w].last = d.last
  BY DEF Database

\* A source that refuses writes, or one that now does, stays sealed.
LEMMA SealedStep ==
    ASSUME BarrierInv, UNCHANGED <<rs, src, journal, envVars>>,
           db'.writes # "open", db'.last = db.last
    PROVE  LiveSealed' /\ CommittedSealed'
  BY DEF BarrierInv, LiveSealed, CommittedSealed, SealedAt, Live, Doomed, envVars

\* A reshard takes the claim of a free, serving source or finds that it has it.
LEMMA ClaimSteps ==
    ASSUME BarrierInv, TypeOK', NEW r \in Reshards, ClaimSource(r) \/ ConfirmClaim(r)
    PROVE  BarrierInv'
  <1> USE DEF quietVars, apiVars, seenVars, envVars
  <1>1. /\ UNCHANGED <<rs, seenRs, seenSrc, tgt, seenTgt, routing, plan, db, journal, envVars>>
        /\ Starting(r, "open", "status")
        /\ seenRs[r].phase = "ReadyToCutover"
        /\ TypeOK
    BY DEF BarrierInv, ClaimSource, ConfirmClaim, Reconciling
  <1>2. r # NoReshard
    BY ReshardsAssumption
  <1>3. /\ op'.kind = "open"
        /\ op'.r = r
        /\ ViewSound'
    BY <1>1, StartView DEF ViewSound
  <1>4. ReconcileSound'
    BY <1>1, <1>3, StartView
       DEF ReconcileSound, OpenSound, FreezeSound, FailSound, RollbackSound,
           CleanupSound, SwitchSound
  <1>5. ClaimHeld' /\ CommittedSealed'
    <2>1. CASE ClaimSource(r)
      <3>1. /\ src'.claim = r
            /\ src.claim = NoReshard
            /\ src.serving
            /\ seenSrc = src
        BY SMTT(60), <1>1, <2>1, SourceWrites DEF ClaimSource, TypeOK
      <3>2. ClaimHeld'
        BY <1>1, <1>2, <1>3, <3>1, ReshardsAssumption DEF BarrierInv, ClaimHeld, Finished
      <3>3. \A q \in Reshards : ~ rs[q].committed
        BY <3>1 DEF BarrierInv, CommittedSealed
      <3> QED
        BY <1>1, <3>2, <3>3 DEF CommittedSealed
    <2>2. CASE ConfirmClaim(r)
      <3>1. UNCHANGED src /\ seenSrc.claim = r
        BY <2>2 DEF ConfirmClaim
      <3>2. ClaimHeld'
        BY <1>1, <1>3, <3>1 DEF BarrierInv, ClaimHeld, Finished
      <3> QED
        BY <1>1, <3>1, <3>2, CommittedFrame DEF BarrierInv
    <2> QED
      BY <2>1, <2>2
  <1>6. AtMostOneSwitch'
    BY <1>1 DEF BarrierInv, AtMostOneSwitch, Committed
  <1> QED
    BY <1>1, <1>4, <1>5, <1>6, SameCoreFrame, CachesFrame, PristineFrame, PoisonFrame,
       GatedFrame, LiveFrame, ServingFrame DEF BarrierInv

\* The claim is given up only by a reshard that is finished; if it committed,
\* the source is hidden.
LEMMA ReleaseStep ==
    ASSUME BarrierInv, TypeOK', ReleaseClaim
    PROVE  BarrierInv'
  <1> USE DEF quietVars, apiVars, seenVars, envVars
  <1>1. /\ UNCHANGED <<rs, seenRs, seenSrc, tgt, seenTgt, routing, plan, db, journal, envVars>>
        /\ op.pc = "release"
        /\ op.pc \in PCs
        /\ op.s = src
        /\ src.claim = op.r
        /\ TypeOK
    BY DEF BarrierInv, ReleaseClaim, At, PCs
  <1>2. /\ op \in Reconciles
        /\ op.r \in Reshards
        /\ op # Idle
        /\ ReconcileSound
        /\ op.kind \in {"fail", "cleanup", "switch", "cleanupSwitch"}
        /\ ViewSound
    BY <1>1, OpFields, KindAt DEF BarrierInv
  <1>3. /\ src'.claim = NoReshard
        /\ src'.serving = src.serving
    BY SMTT(60), <1>1, SourceWrites DEF ReleaseClaim, TypeOK
  <1>4. /\ op'.kind = op.kind
        /\ op'.pc = "status"
        /\ op'.r = op.r
        /\ op'.v = op.v
        /\ op'.s.serving = op.s.serving
    <2>1. op'.s = [op.s EXCEPT !.claim = NoReshard]
      BY <1>2 DEF ReleaseClaim, Reconciles
    <2>2. op'.s.serving = op.s.serving
      BY SMTT(60), <1>1, <2>1, SourceWrites DEF TypeOK
    <2> QED
      BY <1>2, <2>2 DEF ReleaseClaim, Reconciles
  <1>5. Finished(op.r)
    BY <1>1, <1>2 DEF ReconcileSound, FailSound, CleanupSound, SwitchSound, ViewSound,
                      Earlier, Finished
  <1>6. ViewSound'
    BY <1>1, <1>2, <1>4 DEF ViewSound
  <1>7. ReconcileSound'
    BY <1>1, <1>2, <1>4, <1>6
       DEF ReconcileSound, OpenSound, FreezeSound, FailSound, RollbackSound,
           CleanupSound, SwitchSound
  <1>8. ClaimHeld'
    BY <1>1, <1>2, <1>4, <1>5 DEF BarrierInv, ClaimHeld, Finished
  <1>9. CommittedSealed'
    <2>1. ASSUME NEW q \in Reshards, rs[q].committed PROVE ~ src.serving
      <3>1. q = op.r
        BY <1>1, <1>2, <2>1, ReshardsAssumption DEF BarrierInv, CommittedSealed
      <3> QED
        BY <1>1, <1>2, <2>1, <3>1 DEF ViewSound
    <2> QED
      BY <1>1, <1>3, <2>1 DEF BarrierInv, CommittedSealed, SealedAt
  <1>10. AtMostOneSwitch'
    BY <1>1 DEF BarrierInv, AtMostOneSwitch, Committed
  <1> QED
    BY <1>1, <1>7, <1>8, <1>9, <1>10, SameCoreFrame, CachesFrame, PristineFrame, PoisonFrame,
       GatedFrame, LiveFrame, ServingFrame DEF BarrierInv

\* Hiding the source keeps the claim.
LEMMA HideStep ==
    ASSUME BarrierInv, TypeOK', HideSource
    PROVE  BarrierInv'
  <1> USE DEF quietVars, apiVars, seenVars, envVars
  <1>1. /\ UNCHANGED <<rs, seenRs, seenSrc, tgt, seenTgt, routing, plan, db, journal, envVars>>
        /\ op.pc = "flip"
        /\ op.pc \in PCs
        /\ TypeOK
    BY DEF BarrierInv, HideSource, At, PCs
  <1>2. /\ op \in Reconciles
        /\ op.r \in Reshards
        /\ op # Idle
        /\ ReconcileSound
        /\ op.kind \in {"switch", "cleanupSwitch"}
        /\ ViewSound
        /\ op.s \in SourceShard
    BY <1>1, OpFields, KindAt DEF BarrierInv
  <1>3. /\ src'.claim = src.claim
        /\ src'.serving => src.serving
    BY <1>1, SourceWrites DEF HideSource, TypeOK
  <1>4. /\ op'.kind = op.kind
        /\ op'.pc = "compiled"
        /\ op'.r = op.r
        /\ op'.v = op.v
        /\ ~ op'.s.serving
    <2>1. op'.s = [op.s EXCEPT !.serving = FALSE]
      BY <1>2 DEF HideSource, Reconciles
    <2>2. ~ op'.s.serving
      BY <1>2, <2>1, SourceWrites
    <2> QED
      BY <1>2, <2>2 DEF HideSource, Reconciles
  <1>5. ViewSound'
    BY <1>1, <1>2, <1>4 DEF ViewSound
  <1>6. ReconcileSound'
    BY <1>1, <1>2, <1>4, <1>5
       DEF ReconcileSound, OpenSound, FreezeSound, FailSound, RollbackSound,
           CleanupSound, SwitchSound
  <1>7. ClaimHeld'
    BY <1>1, <1>2, <1>3, <1>4 DEF BarrierInv, ClaimHeld, Finished
  <1>8. CommittedSealed'
    BY <1>1, <1>3 DEF BarrierInv, CommittedSealed, SealedAt
  <1>9. AtMostOneSwitch'
    BY <1>1 DEF BarrierInv, AtMostOneSwitch, Committed
  <1> QED
    BY <1>1, <1>6, <1>7, <1>8, <1>9, SameCoreFrame, CachesFrame, PristineFrame, PoisonFrame,
       GatedFrame, LiveFrame, ServingFrame DEF BarrierInv

\* Fencing the source.
LEMMA FenceSteps ==
    ASSUME BarrierInv, TypeOK', NEW r \in Reshards, FenceSource(r) \/ FenceSourceFails(r)
    PROVE  BarrierInv'
  <1> USE DEF quietVars, apiVars, seenVars, envVars
  <1>1. /\ UNCHANGED <<rs, src, seenRs, seenSrc, tgt, seenTgt, routing, plan, journal, envVars>>
        /\ TypeOK
        /\ op = Idle
        /\ seenRs[r].phase = "CuttingOver"
        /\ seenRs[r].fenced
        /\ ~ seenRs[r].committed
    BY DEF BarrierInv, FenceSource, FenceSourceFails, Freezing, InWindow, Reconciling
  <1>2. /\ db'.writes # "open"
        /\ db'.lsn = db.lsn
        /\ db'.last = db.last
    <2>1. db \in Database
      BY <1>1 DEF TypeOK
    <2>2. PICK w \in {"readOnly", "closed"} : db' = [db EXCEPT !.writes = w]
      BY DEF FenceSource, FenceSourceFails
    <2> QED
      BY <2>1, <2>2, FenceWrite
  <1>3. ReconcileSound' /\ op'.kind # "open"
    <2>1. CASE FenceSource(r)
      <3>1. Starting(r, "freeze", "emit")
        BY <2>1 DEF FenceSource
      <3>2. ViewSound'
        BY <1>1, <3>1, StartView DEF ViewSound
      <3>3. op'.kind = "freeze" /\ FreezeSound'
        BY SMTT(60), <1>1, <1>2, <3>1, StartView DEF FreezeSound
      <3> QED
        BY <3>2, <3>3, SoundKind
    <2>2. CASE FenceSourceFails(r)
      BY <1>1, <2>2, IdleFrame DEF FenceSourceFails
    <2> QED
      BY <2>1, <2>2
  <1>4. ClaimHeld'
    BY <1>1, <1>3, SameCoreFrame, ClaimFrame DEF BarrierInv
  <1>5. LiveSealed' /\ CommittedSealed'
    BY <1>1, <1>2, SealedStep
  <1>6. AtMostOneSwitch'
    BY <1>1 DEF BarrierInv, AtMostOneSwitch, Committed
  <1> QED
    BY <1>1, <1>2, <1>3, <1>4, <1>5, <1>6, SameCoreFrame, CachesFrame, PristineFrame,
       PoisonFrame, GatedFrame, ServingFrame DEF BarrierInv

\* The un-fence is authorized by the live claim, and its holder cannot commit:
\* no live window and no committed switch depends on the fence.
LEMMA UnfenceStep ==
    ASSUME BarrierInv, TypeOK', UnfenceSource
    PROVE  BarrierInv'
  <1> USE DEF quietVars, apiVars, seenVars, envVars
  <1>1. /\ UNCHANGED <<rs, src, seenRs, seenSrc, tgt, seenTgt, routing, plan, journal, envVars>>
        /\ TypeOK
        /\ op.pc = "unfence"
        /\ op.pc \in PCs
        /\ src.claim = op.r
        /\ ~ rs[op.r].committed
    BY DEF BarrierInv, UnfenceSource, At, PCs
  <1>2. /\ op \in Reconciles
        /\ op.r \in Reshards
        /\ op # Idle
        /\ ReconcileSound
        /\ op.kind \in {"fail", "rollback", "cleanup"}
        /\ ViewSound
    BY <1>1, OpFields, KindAt DEF BarrierInv
  <1>3. /\ db'.lsn = db.lsn
        /\ db'.last = db.last
    BY <1>1, FenceWrite DEF UnfenceSource, TypeOK
  <1>4. /\ op'.kind = op.kind
        /\ op'.pc = IF op.kind = "rollback" THEN "status" ELSE "unfenced"
        /\ op'.r = op.r
        /\ op'.v = op.v
        /\ op'.s = op.s
    BY <1>2, MoveFields DEF UnfenceSource, AfterUnfence
  <1>5. ViewSound'
    BY <1>1, <1>2, <1>4 DEF ViewSound
  <1>6. ReconcileSound'
    BY <1>1, <1>2, <1>4, <1>5
       DEF ReconcileSound, OpenSound, FreezeSound, FailSound, RollbackSound,
           CleanupSound, SwitchSound
  <1>7. ~ Live(op.r)
    BY <1>1, <1>2 DEF ReconcileSound, FailSound, RollbackSound, CleanupSound, ViewSound,
                      Earlier, Live, Doomed
  <1>8. LiveSealed'
    <2>1. \A q \in Reshards : ~ Live(q)
      BY <1>1, <1>7 DEF BarrierInv, ClaimHeld, Finished, Live, Doomed
    <2>2. \A q \in Reshards : ~ Live(q)'
      BY <1>1, <2>1 DEF Live, Doomed
    <2> QED
      BY <2>2 DEF LiveSealed
  <1>9. CommittedSealed'
    <2>1. \A q \in Reshards : ~ rs[q].committed
      BY <1>1, <1>2, ReshardsAssumption DEF BarrierInv, CommittedSealed
    <2> QED
      BY <1>1, <2>1 DEF CommittedSealed
  <1>10. ClaimHeld'
    BY <1>1, <1>2, <1>4, SameCoreFrame, ClaimFrame DEF BarrierInv
  <1>11. AtMostOneSwitch'
    BY <1>1 DEF BarrierInv, AtMostOneSwitch, Committed
  <1> QED
    BY <1>1, <1>3, <1>6, <1>8, <1>9, <1>10, <1>11, SameCoreFrame, CachesFrame, PristineFrame,
       PoisonFrame, GatedFrame, ServingFrame DEF BarrierInv

\* A new barrier lies after every write, and the source is read-only.
LEMMA EmitStep ==
    ASSUME BarrierInv, TypeOK', EmitBarrier
    PROVE  BarrierInv'
  <1> USE DEF quietVars, apiVars, seenVars, envVars
  <1> DEFINE n == db.lsn + 1
  <1>1. /\ UNCHANGED <<rs, src, seenRs, seenSrc, tgt, seenTgt, routing, plan, envVars>>
        /\ TypeOK
        /\ op.pc = "emit"
        /\ op.pc \in PCs
    BY DEF BarrierInv, EmitBarrier, At, PCs
  <1>2. /\ op \in Reconciles
        /\ op.r \in Reshards
        /\ op.v.attempt \in Attempts
        /\ rs[op.r].attempt \in Attempts
        /\ op # Idle
        /\ ReconcileSound
        /\ op.kind = "freeze"
        /\ ViewSound
    BY <1>1, OpFields, KindAt DEF BarrierInv
  <1>3. FreezeSound
    BY <1>2 DEF ReconcileSound
  <1>4. /\ db'.writes = db.writes
        /\ db'.last = db.last
        /\ db'.lsn = n
        /\ n \in Nat
        /\ db.last \in Nat
        /\ db.last < n
    BY SMTT(60), <1>1, WalType DEF BarrierInv, EmitBarrier, Database
  <1>5. /\ op'.kind = op.kind
        /\ op'.pc = "status"
        /\ op'.r = op.r
        /\ op'.v = op.v
        /\ op'.s = op.s
        /\ op'.lsn = n
    BY <1>2 DEF EmitBarrier, Reconciles
  <1>6. \A q \in Reshards, a \in Attempts :
           journal'[q][a] = IF q = op.r /\ a = op.v.attempt THEN n ELSE journal[q][a]
    BY <1>1, <1>2 DEF EmitBarrier, TypeOK
  <1> HIDE DEF n
  <1>7. NothingPoisoned'
    BY SMTT(60), <1>4, <1>6 DEF BarrierInv, NothingPoisoned, Poisoned
  <1>8. AttemptPristine'
    <2>1. op.v.attempt <= rs[op.r].attempt
      BY <1>2 DEF ViewSound, Earlier
    <2>2. op.v.attempt = rs[op.r].attempt => rs[op.r].phase \notin {"CatchingUp", "ReadyToCutover"}
      BY <1>2, <1>3 DEF ViewSound, Earlier, FreezeSound
    <2>3. \A q \in Reshards : rs[q].attempt \in Attempts
      BY <1>1, ReshardFields DEF TypeOK
    <2> QED
      BY SMTT(60), <1>1, <1>2, <1>6, <2>1, <2>2, <2>3 DEF BarrierInv, AttemptPristine, Attempts
  <1>9. ViewSound'
    BY <1>1, <1>2, <1>5 DEF ViewSound
  <1>10. ReconcileSound'
    <2>1. /\ op'.v.phase = "CuttingOver"
          /\ op'.v.fenced
          /\ ~ op'.v.committed
          /\ db'.writes # "open"
      BY <1>2, <1>3, <1>4, <1>5 DEF FreezeSound
    <2>2. op'.lsn > 0 /\ db'.last <= op'.lsn
      BY SMTT(60), <1>4, <1>5
    <2>3. FreezeSound'
      BY <1>5, <2>1, <2>2 DEF FreezeSound
    <2> QED
      BY <1>2, <1>5, <1>9, <2>3, SoundKind
  <1>11. LiveSealed'
    <2>1. db.writes # "open"
      BY <1>2, <1>3 DEF FreezeSound
    <2>2. ASSUME NEW q \in Reshards, Live(q)'
          PROVE  /\ rs'[q].frozen > 0 => SealedAt(rs[q].frozen)' /\ rs'[q].fenced
                 /\ journal'[q][rs'[q].attempt] > 0 => SealedAt(journal[q][rs[q].attempt])'
      <3>1. Live(q)
        BY <1>1, <2>2 DEF Live, Doomed
      <3>2. /\ rs[q].frozen > 0 => SealedAt(rs[q].frozen) /\ rs[q].fenced
            /\ journal[q][rs[q].attempt] > 0 => SealedAt(journal[q][rs[q].attempt])
        BY <3>1 DEF BarrierInv, LiveSealed
      <3>3. rs[q].attempt \in Attempts
        BY <1>1, ReshardFields DEF TypeOK
      <3>4. \/ journal'[q][rs[q].attempt] = n
            \/ journal'[q][rs[q].attempt] = journal[q][rs[q].attempt]
        BY <1>6, <3>3
      <3>5. db.last <= n
        BY SMTT(60), <1>4
      <3> QED
        BY <1>1, <1>4, <2>1, <3>2, <3>4, <3>5 DEF SealedAt
    <2> QED
      BY <2>2 DEF LiveSealed
  <1>12. CommittedSealed'
    BY <1>1, <1>4 DEF BarrierInv, CommittedSealed, SealedAt
  <1>13. ClaimHeld'
    BY <1>1, <1>2, <1>5, SameCoreFrame, ClaimFrame DEF BarrierInv
  <1>14. AtMostOneSwitch'
    BY <1>1 DEF BarrierInv, AtMostOneSwitch, Committed
  <1>15. CachesEarlier' /\ WindowGated' /\ ServingCommitted'
    BY <1>1, SameCoreFrame, CachesFrame, GatedFrame, ServingFrame DEF BarrierInv
  <1>16. db'.last <= db'.lsn
    BY SMTT(60), <1>4
  <1> QED
    BY <1>7, <1>8, <1>10, <1>11, <1>12, <1>13, <1>14, <1>15, <1>16 DEF BarrierInv

-----------------------------------------------------------------------------
(***************************************************************************)
(* The environment, the targets and the routing controller.                *)
(***************************************************************************)

\* A user deletes a reshard: a live window ends, nothing else changes.
LEMMA DeleteStep ==
    ASSUME BarrierInv, TypeOK', NEW r \in Reshards, DeleteReshard(r)
    PROVE  BarrierInv'
  <1> USE DEF quietVars, seenVars, envVars
  <1>1. /\ TypeOK
        /\ UNCHANGED <<op, quietVars>>
    BY DEF BarrierInv, DeleteReshard
  <1>2. /\ OnlyWrites(r)
        /\ rs'[r].phase = rs[r].phase
        /\ rs'[r].deleting = TRUE
        /\ rs'[r].attempt = rs[r].attempt
        /\ rs'[r].gate = rs[r].gate
        /\ rs'[r].fenced = rs[r].fenced
        /\ rs'[r].frozen = rs[r].frozen
        /\ rs'[r].committed = rs[r].committed
    <2>1. (rs[r].claimFin \/ rs[r].gateFin) \in BOOLEAN
      OBVIOUS
    <2> QED
      BY <1>1, <2>1, DeletingWrite DEF DeleteReshard
  <1>3. \A q \in Reshards :
           /\ rs'[q].phase = rs[q].phase
           /\ rs[q].deleting => rs'[q].deleting
           /\ rs'[q].attempt = rs[q].attempt
           /\ rs'[q].gate = rs[q].gate
           /\ rs'[q].fenced = rs[q].fenced
           /\ rs'[q].frozen = rs[q].frozen
           /\ rs'[q].committed = rs[q].committed
    BY <1>2 DEF OnlyWrites
  <1>4. CachesEarlier'
    BY <1>1, <1>3 DEF BarrierInv, CachesEarlier, Earlier
  <1>5. AttemptPristine' /\ WindowGated'
    <2>1. AttemptPristine /\ WindowGated
      BY DEF BarrierInv
    <2>2. AttemptPristine'
      BY <1>1, <1>3, <2>1 DEF AttemptPristine
    <2>3. WindowGated'
      BY <1>3, <2>1 DEF WindowGated
    <2> QED
      BY <2>2, <2>3
  <1>6. ClaimHeld'
    BY <1>1, <1>3 DEF BarrierInv, ClaimHeld, Finished
  <1>7. LiveSealed'
    BY <1>1, <1>3 DEF BarrierInv, LiveSealed, Live, Doomed, SealedAt
  <1>8. CommittedSealed' /\ AtMostOneSwitch' /\ ServingCommitted'
    BY <1>1, <1>3, CommittedFrame, ServingFrame DEF BarrierInv
  <1>9. ReconcileSound'
    <2>1. SUFFICES ASSUME op # Idle PROVE ReconcileSound'
      BY <1>1 DEF ReconcileSound
    <2>2. op.r \in Reshards /\ ReconcileSound
      BY <1>1, <2>1, OpFields DEF BarrierInv
    <2> QED
      BY <1>1, <1>3, <2>1, <2>2
         DEF ReconcileSound, ViewSound, Earlier, OpenSound, FreezeSound, FailSound,
             RollbackSound, CleanupSound, SwitchSound, Live, Doomed
  <1> QED
    BY <1>1, <1>4, <1>5, <1>6, <1>7, <1>8, <1>9, PoisonFrame DEF BarrierInv

\* The informers catch up.
LEMMA SeeSteps ==
    ASSUME BarrierInv, TypeOK', SeeShards \/ \E r \in Reshards : SeeReshard(r)
    PROVE  BarrierInv'
  <1> USE DEF quietVars, apiVars, seenVars, envVars
  <1>1. CASE SeeShards
    <2>1. /\ UNCHANGED <<rs, src, tgt, routing, seenRs, op, plan, db, journal, envVars>>
          /\ seenSrc' = src
          /\ seenTgt' = tgt
          /\ TypeOK
      BY <1>1 DEF BarrierInv, SeeShards
    <2>2. ClaimHeld'
      BY <2>1 DEF BarrierInv, ClaimHeld, Finished
    <2>3. ServingCommitted'
      BY <2>1 DEF BarrierInv, ServingCommitted
    <2>4. ReconcileSound'
      BY <2>1, SameCoreFrame, ReconcileFrame DEF BarrierInv
    <2> QED
      BY <2>1, <2>2, <2>3, <2>4, SameCoreFrame, CachesFrame, PristineFrame, PoisonFrame,
         GatedFrame, LiveFrame, CommittedFrame DEF BarrierInv
  <1>2. ASSUME NEW r \in Reshards, SeeReshard(r) PROVE BarrierInv'
    <2>1. /\ UNCHANGED <<rs, src, tgt, routing, seenSrc, seenTgt, op, plan, db, journal, envVars>>
          /\ seenRs' = [seenRs EXCEPT ![r] = rs[r]]
          /\ TypeOK
      BY <1>2 DEF BarrierInv, SeeReshard
    <2>2. CachesEarlier'
      <3>1. Earlier(rs[r], rs[r])
        BY <2>1, EarlierReflexive DEF TypeOK
      <3>2. \A q \in Reshards : seenRs'[q] = IF q = r THEN rs[r] ELSE seenRs[q]
        BY <2>1 DEF TypeOK
      <3> QED
        BY <2>1, <3>1, <3>2 DEF BarrierInv, CachesEarlier
    <2>3. ReconcileSound'
      BY <2>1, SameCoreFrame, ReconcileFrame DEF BarrierInv
    <2> QED
      BY <2>1, <2>2, <2>3, SameCoreFrame, PristineFrame, PoisonFrame, GatedFrame,
         ClaimFrame, LiveFrame, CommittedFrame, ServingFrame DEF BarrierInv
  <1> QED
    BY <1>1, <1>2

\* Deadlines pass, the cluster is replaced, targets turn foreign: windows only
\* become doomed.
LEMMA DoomSteps ==
    ASSUME PermanentCauses, BarrierInv, TypeOK',
           \/ ReplaceCluster
           \/ \E r \in Reshards :
                 DeadlinePasses(r) \/ TargetTurnsForeign(r) \/ TargetRestored(r)
    PROVE  BarrierInv'
  <1> USE DEF quietVars, apiVars, seenVars
  <1>1. /\ UNCHANGED <<rs, src, seenRs, seenSrc, tgt, seenTgt, routing, plan, db, journal, op>>
        /\ expired \subseteq expired'
        /\ foreign \subseteq foreign'
        /\ replaced => replaced'
        /\ TypeOK
    <2>1. CASE ReplaceCluster
      BY <2>1 DEF BarrierInv, ReplaceCluster
    <2>2. ASSUME NEW r \in Reshards, DeadlinePasses(r) PROVE <1>1!:
      BY <2>2 DEF BarrierInv, DeadlinePasses
    <2>3. ASSUME NEW r \in Reshards, TargetTurnsForeign(r) PROVE <1>1!:
      BY <2>3 DEF BarrierInv, TargetTurnsForeign
    <2>4. ASSUME NEW r \in Reshards PROVE ~ TargetRestored(r)
      BY DEF PermanentCauses, TargetRestored
    <2> QED
      BY <2>1, <2>2, <2>3, <2>4
  <1>2. ClaimHeld'
    BY <1>1 DEF BarrierInv, ClaimHeld, Finished
  <1>3. LiveSealed'
    BY <1>1 DEF BarrierInv, LiveSealed, Live, Doomed, SealedAt
  <1>4. ReconcileSound'
    BY <1>1 DEF BarrierInv, ReconcileSound, ViewSound, OpenSound, FreezeSound, FailSound,
                RollbackSound, CleanupSound, SwitchSound, Live, Doomed
  <1> QED
    BY <1>1, <1>2, <1>3, <1>4, SameCoreFrame, CachesFrame, PristineFrame, PoisonFrame,
       GatedFrame, CommittedFrame, ServingFrame DEF BarrierInv

\* Targets are flipped for a committed switch only, and collected.
LEMMA TargetSteps ==
    ASSUME BarrierInv, TypeOK', FlipTarget \/ \E r \in Reshards : CollectTargets(r)
    PROVE  BarrierInv'
  <1> USE DEF quietVars, apiVars, seenVars, envVars
  <1>1. /\ UNCHANGED <<rs, src, seenRs, seenSrc, seenTgt, routing, plan, db, journal, op, envVars>>
        /\ TypeOK
    BY DEF BarrierInv, FlipTarget, CollectTargets
  <1>2. ServingCommitted'
    <2>1. CASE FlipTarget
      <3>1. op.pc = "flip" /\ op.pc \in PCs
        BY <2>1 DEF FlipTarget, At, PCs
      <3>2. /\ op.r \in Reshards
            /\ op # Idle
            /\ ReconcileSound
            /\ op.kind \in {"switch", "cleanupSwitch"}
            /\ ViewSound
        BY <3>1, OpFields, KindAt DEF BarrierInv
      <3>3. rs[op.r].committed
        BY <3>2 DEF ReconcileSound, SwitchSound, ViewSound, Earlier
      <3>4. \A q \in Reshards : q # op.r => tgt'[q] = tgt[q]
        BY <1>1, <2>1 DEF FlipTarget, TypeOK
      <3> QED
        BY <1>1, <3>3, <3>4 DEF BarrierInv, ServingCommitted
    <2>2. ASSUME NEW r \in Reshards, CollectTargets(r) PROVE ServingCommitted'
      <3>1. \A q \in Reshards : tgt'[q] = IF q = r THEN 0 ELSE tgt[q]
        BY <1>1, <2>2 DEF CollectTargets, TypeOK
      <3>2. \A q \in Reshards : tgt'[q] > 0 => tgt[q] > 0
        BY SMTT(60), <3>1
      <3>3. ServingCommitted
        BY DEF BarrierInv
      <3> QED
        BY <1>1, <3>2, <3>3 DEF ServingCommitted
    <2> QED
      BY <2>1, <2>2
  <1>3. ReconcileSound'
    BY <1>1, SameCoreFrame, ReconcileFrame DEF BarrierInv
  <1> QED
    BY <1>1, <1>2, <1>3, SameCoreFrame, CachesFrame, PristineFrame, PoisonFrame, GatedFrame,
       ClaimFrame, LiveFrame, CommittedFrame DEF BarrierInv

\* A routing that sends clients to a reshard's targets is compiled only from
\* flipped targets.
LEMMA RoutingSteps ==
    ASSUME BarrierInv, TypeOK', PublishRouting \/ CompileRouting \/ WriteRouting
    PROVE  BarrierInv'
  <1> USE DEF quietVars, apiVars, seenVars, envVars
  <1>1. /\ UNCHANGED <<rs, src, seenRs, seenSrc, tgt, seenTgt, db, journal, op, envVars>>
        /\ TypeOK
    BY DEF BarrierInv, PublishRouting, CompileRouting, WriteRouting
  <1>2. ASSUME NEW x \in Routing, Compiled(x), NEW r \in Reshards, x.serving = r
        PROVE  rs[r].committed
    <2>1. seenTgt[r] = NTargets
      BY <1>2 DEF Compiled, Partition
    <2> QED
      BY SMTT(60), <2>1, BoundsAssumption DEF BarrierInv, ServingCommitted
  <1>3. ServingCommitted'
    BY <1>1, <1>2 DEF BarrierInv, ServingCommitted, PublishRouting, CompileRouting, WriteRouting
  <1>4. ReconcileSound'
    BY <1>1, SameCoreFrame, ReconcileFrame DEF BarrierInv
  <1> QED
    BY <1>1, <1>3, <1>4, SameCoreFrame, CachesFrame, PristineFrame, PoisonFrame, GatedFrame,
       ClaimFrame, LiveFrame, CommittedFrame DEF BarrierInv

\* An agent that restarts forgets its barriers.
LEMMA RestartStep ==
    ASSUME BarrierInv, TypeOK', AgentRestarts
    PROVE  BarrierInv'
  <1> USE DEF quietVars, apiVars, seenVars, envVars
  <1>1. /\ UNCHANGED <<rs, src, seenRs, seenSrc, tgt, seenTgt, routing, plan, db, op, envVars>>
        /\ TypeOK
    BY DEF BarrierInv, AgentRestarts
  <1>2. \A q \in Reshards, a \in Attempts : journal'[q][a] = 0
    BY DEF AgentRestarts, Unused
  <1>3. \A q \in Reshards : rs[q].attempt \in Attempts
    BY <1>1, ReshardFields DEF TypeOK
  <1>4. AttemptPristine'
    <2>1. AttemptPristine
      BY DEF BarrierInv
    <2> QED
      BY <1>1, <1>2, <1>3, <2>1 DEF AttemptPristine, Unused
  <1>5. NothingPoisoned'
    BY SMTT(60), <1>2 DEF NothingPoisoned, Poisoned
  <1>6. LiveSealed'
    <2>1. LiveSealed
      BY DEF BarrierInv
    <2>2. \A q \in Reshards : Live(q)' => Live(q)
      BY <1>1 DEF Live, Doomed
    <2>3. \A q \in Reshards : ~ journal'[q][rs'[q].attempt] > 0
      BY SMTT(60), <1>1, <1>2, <1>3
    <2> QED
      BY <1>1, <2>1, <2>2, <2>3 DEF LiveSealed, SealedAt
  <1>7. ReconcileSound'
    BY <1>1, SameCoreFrame, ReconcileFrame DEF BarrierInv
  <1> QED
    BY <1>1, <1>4, <1>5, <1>6, <1>7, SameCoreFrame, CachesFrame, GatedFrame, ClaimFrame,
       CommittedFrame, ServingFrame DEF BarrierInv

\* A client writes: the source is open, so no live window has a barrier and
\* nothing is committed.
LEMMA WriteByClient ==
    ASSUME BarrierInv, TypeOK', ClientWrite
    PROVE  BarrierInv'
  <1> USE DEF quietVars, apiVars, seenVars, envVars
  <1>1. /\ UNCHANGED <<rs, src, seenRs, seenSrc, tgt, seenTgt, routing, plan, journal, op, envVars>>
        /\ TypeOK
        /\ db.writes = "open"
    BY DEF BarrierInv, ClientWrite
  <1>2. db'.last = db.lsn + 1 /\ db'.lsn = db.lsn + 1 /\ db'.last \in Nat
    BY <1>1, WalType DEF ClientWrite, Database
  <1>3. LiveSealed'
    BY <1>1 DEF BarrierInv, LiveSealed, Live, Doomed, SealedAt
  <1>4. \A q \in Reshards : ~ rs[q].committed
    BY <1>1 DEF BarrierInv, CommittedSealed, SealedAt
  <1>5. CommittedSealed' /\ AtMostOneSwitch'
    BY <1>1, <1>4 DEF CommittedSealed, AtMostOneSwitch, Committed
  <1>6. ReconcileSound'
    <2>1. ReconcileSound
      BY DEF BarrierInv
    <2>2. op # Idle => op.kind # "freeze"
      BY <1>1, <2>1 DEF ReconcileSound, FreezeSound
    <2> QED
      BY <1>1, <2>1, <2>2 DEF ReconcileSound, ViewSound, OpenSound, FreezeSound, FailSound,
                RollbackSound, CleanupSound, SwitchSound
  <1> QED
    BY SMTT(60), <1>1, <1>2, <1>3, <1>5, <1>6, SameCoreFrame, CachesFrame, PristineFrame, PoisonFrame,
       GatedFrame, ClaimFrame, ServingFrame DEF BarrierInv

-----------------------------------------------------------------------------
(***************************************************************************)
(* The invariant and what follows from it.                                 *)
(***************************************************************************)

\* The initial state satisfies the invariant.
LEMMA BarrierInit == Init => BarrierInv
  <1> SUFFICES ASSUME Init PROVE BarrierInv
    OBVIOUS
  <1>1. TypeOK
    BY TypeInit
  <1>2. \A r \in Reshards : rs[r] = FreshReshard /\ seenRs[r] = FreshReshard
    BY DEF Init
  <1>3. /\ FreshReshard.phase = "CatchingUp"
        /\ FreshReshard.frozen = 0
        /\ FreshReshard.attempt = 0
        /\ ~ FreshReshard.committed
        /\ FreshReshard \in ReshardObject
    BY FreshTypes DEF FreshReshard
  <1>4. /\ db.last = 0
        /\ db.lsn = 0
        /\ src.claim = NoReshard
        /\ seenSrc.claim = NoReshard
        /\ routing.serving = NoReshard
        /\ op = Idle
        /\ plan = {}
    BY DEF Init, FreshSource, FreshRouting
  <1>5. CachesEarlier
    BY <1>2, <1>3, EarlierReflexive DEF CachesEarlier
  <1>6. AttemptPristine /\ NothingPoisoned
    <2>1. \A r \in Reshards, a \in Attempts : journal[r][a] = 0
      BY DEF Init, Unused
    <2>2. 0 \in Attempts
      BY SMTT(60), BoundsAssumption DEF Attempts
    <2> QED
      BY SMTT(60), <1>2, <1>3, <2>1, <2>2 DEF AttemptPristine, NothingPoisoned, Unused, Poisoned
  <1>7. WindowGated /\ LiveSealed /\ CommittedSealed /\ AtMostOneSwitch
    BY <1>2, <1>3 DEF WindowGated, LiveSealed, Live, CommittedSealed, AtMostOneSwitch, Committed
  <1>8. ClaimHeld
    BY <1>2, <1>3, <1>4, ReshardsAssumption DEF ClaimHeld, Idle
  <1>9. ServingCommitted
    <2>1. \A r \in Reshards : tgt[r] = 0 /\ seenTgt[r] = 0
      BY DEF Init
    <2>2. \A r \in Reshards : routing.serving # r
      BY <1>4, ReshardsAssumption
    <2> QED
      BY SMTT(60), <1>4, <2>1, <2>2 DEF ServingCommitted
  <1>10. ReconcileSound
    BY <1>4 DEF ReconcileSound
  <1> QED
    BY SMTT(60), <1>1, <1>4, <1>5, <1>6, <1>7, <1>8, <1>9, <1>10 DEF BarrierInv

\* Every step of the protocol preserves it.
LEMMA BarrierStep ==
    ASSUME PermanentCauses, BarrierInv, [Next]_vars
    PROVE  BarrierInv'
  <1>1. TypeOK'
    BY TypeStep DEF BarrierInv
  <1>2. ASSUME NEW r \in Reshards, ReshardStep(r) PROVE BarrierInv'
    BY <1>1, <1>2, QuietActions, StartActions, QueueWrites, CommitStep, ClaimSteps, FenceSteps
       DEF ReshardStep
  <1>3. CASE OpStep
    <2>1. ~ EmitTimesOut
      BY DEF PermanentCauses, EmitTimesOut
    <2>2. CASE OpenWindow \/ RecordBarrier \/ RecordFailed \/ RecordRollBack \/ RecordSwitched
      <3>1. op.r \in Reshards
        <4>1. op.pc \in PCs
          BY <2>2 DEF OpenWindow, RecordBarrier, RecordFailed, RecordRollBack, RecordSwitched,
                      At, PCs
        <4> QED
          BY <4>1, OpFields DEF BarrierInv
      <3> QED
        BY <1>1, <2>2, <3>1, StatusWrites
    <2> QED
      BY <1>1, <1>3, <2>1, <2>2, QuietActions, MoveActions, CleanupWrites, ReleaseStep, HideStep,
         UnfenceStep, EmitStep, TargetSteps DEF OpStep
  <1>4. CASE RoutingStep
    BY <1>1, <1>4, QuietActions, RoutingSteps DEF RoutingStep
  <1>5. CASE EnvironmentStep
    BY <1>1, <1>5, QuietActions, SeeSteps, DoomSteps, RestartStep, WriteByClient, DeleteStep,
       TargetSteps DEF EnvironmentStep
  <1>6. CASE UNCHANGED vars
    BY <1>1, <1>6, QuietActions
  <1> QED
    BY <1>2, <1>3, <1>4, <1>5, <1>6 DEF Next

\* The invariant holds in every reachable state.
THEOREM BarrierInvariant ==
    ASSUME PermanentCauses
    PROVE  Spec => []BarrierInv
  <1>1. BarrierInv /\ [Next]_vars => BarrierInv'
    BY BarrierStep
  <1> QED
    BY <1>1, BarrierInit, PTL DEF Spec

\* Once a switch is committed its barrier lies after the last write the source
\* ever commits, whatever the number of reshards, attempts and WAL positions.
THEOREM BarrierIsFinal ==
    ASSUME PermanentCauses
    PROVE  Spec => []NoWriteAfterBarrier
  <1>1. BarrierInv => NoWriteAfterBarrier
    BY DEF BarrierInv, CommittedSealed, SealedAt, NoWriteAfterBarrier, Committed
  <1> QED
    BY <1>1, BarrierInvariant, PTL

\* No two reshards of one source ever commit their switch.
THEOREM OneSwitch ==
    ASSUME PermanentCauses
    PROVE  Spec => []AtMostOneSwitch
  <1>1. BarrierInv => AtMostOneSwitch
    BY DEF BarrierInv
  <1> QED
    BY <1>1, BarrierInvariant, PTL

\* Routers are never sent to targets while the source takes writes.
THEOREM NoTwoWriters ==
    ASSUME PermanentCauses
    PROVE  Spec => []NoSplitBrain
  <1>1. BarrierInv => NoSplitBrain
    BY DEF BarrierInv, ServingCommitted, CommittedSealed, SealedAt, NoSplitBrain, Committed
  <1> QED
    BY <1>1, BarrierInvariant, PTL
=============================================================================
