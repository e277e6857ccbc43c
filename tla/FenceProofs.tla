---------------------------- MODULE FenceProofs -----------------------------
(***************************************************************************)
(* FenceInv and AdmitInv are inductive invariants of Cutover, relative to  *)
(* BarrierInv, and with them: the fence of the source is never stranded,   *)
(* and clients are never readmitted to the source of a committed switch.   *)
(***************************************************************************)
EXTENDS BarrierProofs

\* Leaves are for Zenon, unless they name another prover.
USE ZenonT(60)

-----------------------------------------------------------------------------
(***************************************************************************)
(* The fence: frames.                                                      *)
(***************************************************************************)

\* A reshard stays steady while neither its object nor its cached version nor
\* the claim changes, whatever deadlines pass.
LEMMA SteadyFrame ==
    ASSUME NEW q \in Reshards, Steady(q), rs'[q] = rs[q], seenRs'[q] = seenRs[q],
           src'.claim = src.claim, seenSrc'.claim = seenSrc.claim,
           expired \subseteq expired', replaced => replaced',
           op' = op \/ op'.kind # "open"
    PROVE  Steady(q)'
  <1>1. SeenSound(q)'
    BY DEF Steady, SeenSound
  <1>2. Finalized(q)'
    BY DEF Steady, Finalized
  <1>3. WindowClaimed(q)'
    BY DEF Steady, WindowClaimed, Over
  <1>4. (Lapsed(q) \/ Owes(q))'
    BY DEF Steady, Lapsed, Owes, Over
  <1> QED
    BY <1>1, <1>2, <1>3, <1>4 DEF Steady

\* The fence stays owed while its owner stays, or the source is opened.
LEMMA OwedFrame ==
    ASSUME FenceOwed, db'.writes \in {db.writes, "open"},
           \A q \in Reshards : rs[q].committed => rs'[q].committed,
           \A q \in Reshards : Owes(q) /\ seenRs[q].fenced =>
               \/ Owes(q)' /\ seenRs'[q].fenced
               \/ db.writes = "open"
               \/ SomeCommitted
    PROVE  FenceOwed'
  <1>1. SomeCommitted => SomeCommitted'
    BY DEF SomeCommitted
  <1> QED
    BY <1>1 DEF FenceOwed

\* A reconcile that ends lets nothing go.
LEMMA ReleaseIdle ==
    ASSUME op' = Idle
    PROVE  ReleaseSound'
  BY DEF ReleaseSound, LettingGo, Idle

\* What is known of a reconcile that goes on survives steps that do not concern it.
LEMMA ReleaseFrame ==
    ASSUME ReleaseSound, op' = op, db'.writes = db.writes, src'.claim = src.claim,
           op # Idle /\ Over(seenRs[op.r]) => Over(seenRs[op.r])',
           op # Idle /\ Over(rs[op.r]) => Over(rs[op.r])',
           \A q \in Reshards : rs[q].committed => rs'[q].committed
    PROVE  ReleaseSound'
  <1>1. SomeCommitted => SomeCommitted'
    BY DEF SomeCommitted
  <1>2. op = Idle => op' = Idle
    OBVIOUS
  <1>3. CASE op # Idle
    <2>1. LettingGo' => LettingGo
      BY DEF LettingGo
    <2> QED
      BY <1>1, <1>3, <2>1 DEF ReleaseSound
  <1> QED
    BY <1>2, <1>3, ReleaseIdle

fenceVars == <<rs, seenRs, seenSrc>>

\* Steps that change neither object nor cache, and keep the claim and what the
\* database takes.
LEMMA FenceQuiet ==
    ASSUME FenceInv, UNCHANGED fenceVars, src'.claim = src.claim, db'.writes = db.writes,
           expired \subseteq expired', replaced => replaced', op' = op \/ op' = Idle
    PROVE  FenceInv'
  <1> USE DEF fenceVars
  <1>1. op' = op \/ op'.kind # "open"
    BY IdleFrame
  <1>2. \A q \in Reshards : Steady(q)'
    BY <1>1, SteadyFrame DEF FenceInv
  <1>3. FenceOwed'
    <2>1. \A q \in Reshards : Owes(q) => Owes(q)'
      BY DEF Owes
    <2> QED
      BY <2>1, OwedFrame DEF FenceInv
  <1>4. ReleaseSound'
    <2>1. CASE op' = op
      <3>1. /\ Over(seenRs[op.r]) => Over(seenRs[op.r])'
            /\ Over(rs[op.r]) => Over(rs[op.r])'
        BY <2>1 DEF Over
      <3> QED
        BY <2>1, <3>1, ReleaseFrame DEF FenceInv
    <2> QED
      BY <2>1, ReleaseIdle
  <1> QED
    BY <1>2, <1>3, <1>4 DEF FenceInv

\* A reconcile starts or moves on.
LEMMA FenceMove ==
    ASSUME FenceInv, UNCHANGED <<fenceVars, expired, replaced>>, src'.claim = src.claim,
           db'.writes = db.writes, op'.kind # "open", ReleaseSound'
    PROVE  FenceInv'
  <1> USE DEF fenceVars
  <1>1. \A q \in Reshards : Steady(q)'
    BY SteadyFrame DEF FenceInv
  <1>2. FenceOwed'
    <2>1. \A q \in Reshards : Owes(q) => Owes(q)'
      BY DEF Owes
    <2> QED
      BY <2>1, OwedFrame DEF FenceInv
  <1> QED
    BY <1>1, <1>2 DEF FenceInv

\* The write of one reshard: what it owed it still owes, or the source is not
\* closed on its behalf and no reconcile will close it.
LEMMA FenceWriteStep ==
    ASSUME FenceInv, NEW r \in Reshards, OnlyWrites(r),
           UNCHANGED <<src, seenRs, seenSrc, db, expired, replaced>>,
           op' = op \/ op'.kind # "open",
           SeenSound(r)', Finalized(r)', WindowClaimed(r)',
           rs[r].committed => rs'[r].committed,
           Owes(r) => Owes(r)' \/ (Lapsed(r) /\ (db.writes = "open" \/ SomeCommitted)),
           ReleaseSound'
    PROVE  FenceInv'
  <1>1. \A q \in Reshards : q # r => rs'[q] = rs[q]
    BY DEF OnlyWrites
  <1>2. \A q \in Reshards : q # r => Steady(q)'
    BY <1>1, SteadyFrame DEF FenceInv
  <1>3. Steady(r)'
    <2>1. Lapsed(r) => Lapsed(r)'
      BY DEF Lapsed, Over
    <2>2. Lapsed(r) \/ Owes(r)
      BY DEF FenceInv, Steady
    <2> QED
      BY <2>1, <2>2 DEF Steady
  <1>4. FenceOwed'
    <2>1. \A q \in Reshards : q # r => (Owes(q) => Owes(q)')
      BY <1>1 DEF Owes
    <2> QED
      BY <1>1, <2>1, OwedFrame DEF FenceInv
  <1> QED
    BY <1>2, <1>3, <1>4 DEF FenceInv

-----------------------------------------------------------------------------
(***************************************************************************)
(* The fence: steps that only move the reconcile in flight.                *)
(***************************************************************************)

\* Steps that neither the fence nor the claim depends on.
LEMMA FenceQuietActions ==
    ASSUME BarrierInv, FenceInv,
           \/ AbortReconcile \/ EndBlocked \/ EndCleanupSwitch \/ SeeRouting \/ AgentRestarts
           \/ FlipTarget \/ PublishRouting \/ CompileRouting \/ WriteRouting \/ ClientWrite
           \/ ReplaceCluster \/ UNCHANGED vars
           \/ \E r \in Reshards :
                 \/ DecodeBarrier(r) \/ WorkflowRestarts(r) \/ CollectTargets(r)
                 \/ DeadlinePasses(r) \/ TargetTurnsForeign(r) \/ TargetRestored(r)
    PROVE  FenceInv'
  <1> USE DEF fenceVars, apiVars, seenVars, envVars
  <1> DEFINE Quiet == UNCHANGED <<fenceVars, src, db, expired, replaced>> /\ (op' = op \/ op' = Idle)
  <1>0. ASSUME Quiet PROVE FenceInv'
    <2>1. /\ src'.claim = src.claim
          /\ db'.writes = db.writes
          /\ expired \subseteq expired'
          /\ replaced => replaced'
      BY <1>0
    <2> QED
      BY <1>0, <2>1, FenceQuiet
  <1>1. CASE AbortReconcile \/ EndBlocked \/ EndCleanupSwitch
    <2>1. Quiet
      BY <1>1 DEF AbortReconcile, EndBlocked, EndCleanupSwitch
    <2> QED
      BY <1>0, <2>1
  <1>2. CASE SeeRouting \/ AgentRestarts \/ FlipTarget
    <2>1. Quiet
      BY <1>2 DEF SeeRouting, AgentRestarts, FlipTarget
    <2> QED
      BY <1>0, <2>1
  <1>3. CASE PublishRouting \/ CompileRouting \/ WriteRouting
    <2>1. Quiet
      BY <1>3 DEF PublishRouting, CompileRouting, WriteRouting
    <2> QED
      BY <1>0, <2>1
  <1>4. CASE ClientWrite
    <2>1. db'.writes = db.writes
      BY <1>4 DEF BarrierInv, TypeOK, Database, ClientWrite
    <2> QED
      BY <1>4, <2>1, FenceQuiet DEF ClientWrite
  <1>5. CASE ReplaceCluster
    BY <1>5, FenceQuiet DEF ReplaceCluster
  <1>6. CASE UNCHANGED vars
    BY <1>6, FenceQuiet DEF vars
  <1>7. ASSUME NEW r \in Reshards, DecodeBarrier(r) \/ WorkflowRestarts(r) \/ CollectTargets(r)
        PROVE  FenceInv'
    <2>1. Quiet
      BY <1>7 DEF DecodeBarrier, WorkflowRestarts, CollectTargets
    <2> QED
      BY <1>0, <2>1
  <1>8. ASSUME NEW r \in Reshards, DeadlinePasses(r) PROVE FenceInv'
    BY <1>8, FenceQuiet DEF DeadlinePasses
  <1>9. ASSUME NEW r \in Reshards, TargetTurnsForeign(r) \/ TargetRestored(r) PROVE FenceInv'
    <2>1. Quiet
      BY <1>9 DEF TargetTurnsForeign, TargetRestored
    <2> QED
      BY <1>0, <2>1
  <1> QED
    BY <1>1, <1>2, <1>3, <1>4, <1>5, <1>6, <1>7, <1>8, <1>9

\* A handler that read that no fence is owed, or that the switch is committed,
\* may go without an un-fence.
LEMMA NothingOwed ==
    ASSUME BarrierInv, FenceInv, NEW r \in Reshards,
           src.claim = r, ~ seenRs[r].fenced \/ seenRs[r].committed
    PROVE  db.writes = "open" \/ SomeCommitted
  <1>1. CASE seenRs[r].committed
    BY <1>1 DEF BarrierInv, CachesEarlier, Earlier, SomeCommitted
  <1>2. CASE ~ seenRs[r].fenced
    BY <1>2 DEF FenceInv, FenceOwed, Owes
  <1> QED
    BY <1>1, <1>2

\* A window that is over in the cache is over.
LEMMA OverCarries ==
    ASSUME BarrierInv, FenceInv, NEW r \in Reshards,
           \/ replaced
           \/ seenRs[r].deleting
           \/ seenRs[r].committed
           \/ seenRs[r].phase = "CuttingOver" /\ seenRs[r].frozen > 0
    PROVE  Over(seenRs[r]) /\ Over(rs[r])
  <1>1. Earlier(seenRs[r], rs[r]) /\ SeenSound(r)
    BY DEF BarrierInv, CachesEarlier, FenceInv, Steady
  <1>2. CASE replaced \/ seenRs[r].deleting \/ seenRs[r].committed
    BY <1>1, <1>2 DEF Earlier, Over
  <1>3. CASE seenRs[r].phase = "CuttingOver" /\ seenRs[r].frozen > 0
    BY <1>1, <1>3 DEF Earlier, SeenSound, Over
  <1> QED
    BY <1>2, <1>3

\* The steps that start a reconcile, other than the ones that claim or fence.
LEMMA FenceStarts ==
    ASSUME BarrierInv, FenceInv, NEW r \in Reshards,
           \/ FailReplaced(r) \/ FailForeign(r) \/ RollBack(r)
           \/ Cleanup(r) \/ StartSwitch(r) \/ CleanupSwitch(r)
    PROVE  FenceInv'
  <1> USE DEF fenceVars, apiVars, seenVars, envVars
  <1>1. UNCHANGED <<fenceVars, src, db, expired, replaced>>
    BY DEF FailReplaced, FailForeign, RollBack, Cleanup, StartSwitch, CleanupSwitch
  <1>2. /\ src'.claim = src.claim
        /\ db'.writes = db.writes
        /\ SomeCommitted' = SomeCommitted
        /\ \A v : Over(v)' = Over(v)
    BY <1>1 DEF SomeCommitted, Over
  <1>0. seenRs[r].exists
    BY DEF FailReplaced, FailForeign, RollBack, Cleanup, StartSwitch, CleanupSwitch, InWindow,
           Reconciling
  <1>3. ASSUME NEW kind, NEW pc, Starting(r, kind, pc), kind # "open",
               kind # "rollback" => Over(seenRs[r]) /\ Over(rs[r]),
               /\ kind \in {"fail", "cleanup", "rollback"}
               /\ pc \in {"unfenced", "release", "status"}
               => ~ seenRs[r].fenced \/ seenRs[r].committed
        PROVE  FenceInv'
    <2>1. /\ op'.kind = kind
          /\ op'.pc = pc
          /\ op'.r = r
          /\ op'.v = seenRs[r]
      BY <1>1, <1>3, StartView
    <2>2. op'.kind \in {"fail", "cleanup", "switch", "cleanupSwitch"} =>
             Over(seenRs[r]) /\ Over(rs[r])
      BY <1>3, <2>1
    <2>3. LettingGo' /\ src.claim = r => db.writes = "open" \/ SomeCommitted
      BY <1>3, <2>1, NothingOwed DEF LettingGo
    <2>4. ReleaseSound'
      BY <1>0, <1>1, <1>2, <1>3, <2>1, <2>2, <2>3 DEF ReleaseSound
    <2> QED
      BY <1>1, <1>2, <1>3, <2>1, <2>4, FenceMove
  <1>4. CASE FailReplaced(r) \/ FailForeign(r)
    <2>1. Starting(r, "fail", FailEntry(seenRs[r]))
      BY <1>4 DEF FailReplaced, FailForeign
    <2>2. Over(seenRs[r]) /\ Over(rs[r])
      BY <1>4, OverCarries DEF FailReplaced, FailForeign, InWindow, Reconciling
    <2>3. FailEntry(seenRs[r]) # "unfence" => ~ seenRs[r].fenced \/ seenRs[r].committed
      BY DEF FailEntry
    <2> QED
      BY <1>3, <2>1, <2>2, <2>3
  <1>5. CASE RollBack(r)
    <2> DEFINE entry == IF UnfenceOwed(seenRs[r]) THEN "unfence" ELSE "status"
    <2>1. Starting(r, "rollback", entry)
      BY <1>5 DEF RollBack
    <2>2. entry # "unfence" => ~ seenRs[r].fenced \/ seenRs[r].committed
      BY DEF UnfenceOwed
    <2> HIDE DEF entry
    <2> QED
      BY <1>3, <2>1, <2>2
  <1>6. CASE Cleanup(r)
    <2> DEFINE entry == IF seenRs[r].gate THEN "ungate"
                        ELSE IF UnfenceOwed(seenRs[r]) THEN "unfence" ELSE "release"
    <2>1. Starting(r, "cleanup", entry)
      BY <1>6 DEF Cleanup
    <2>2. entry \in {"unfenced", "release", "status"} => ~ seenRs[r].fenced \/ seenRs[r].committed
      BY DEF UnfenceOwed
    <2> HIDE DEF entry
    <2>3. Over(seenRs[r]) /\ Over(rs[r])
      BY <1>6, OverCarries DEF Cleanup
    <2> QED
      BY <1>3, <2>1, <2>2, <2>3
  <1>7. CASE StartSwitch(r) \/ CleanupSwitch(r)
    <2>1. PICK kind \in {"switch", "cleanupSwitch"} :
             Starting(r, kind, "flip") /\ seenRs[r].committed
      BY <1>7 DEF StartSwitch, CleanupSwitch
    <2>2. Over(seenRs[r]) /\ Over(rs[r])
      BY <2>1, OverCarries
    <2> QED
      BY <1>3, <2>1, <2>2
  <1> QED
    BY <1>4, <1>5, <1>6, <1>7

\* The steps that only move the reconcile in flight.
LEMMA FenceMoves ==
    ASSUME BarrierInv, FenceInv,
           \/ EmitBarrier \/ ReplayBarrier \/ FailFreeze \/ SkipUnfence \/ NothingToRelease
           \/ SwitchCompiled \/ HideSource
    PROVE  FenceInv'
  <1> USE DEF fenceVars, apiVars, seenVars, envVars
  <1>1. /\ UNCHANGED <<fenceVars, expired, replaced>>
        /\ op.pc \in PCs
    BY DEF EmitBarrier, ReplayBarrier, FailFreeze, SkipUnfence, NothingToRelease, SwitchCompiled,
           HideSource, At, PCs
  <1>2. /\ TypeOK
        /\ op \in Reconciles
        /\ op.r \in Reshards
        /\ op.v.attempt \in Attempts
        /\ op # Idle
    BY <1>1, OpFields DEF BarrierInv
  <1>3. /\ SomeCommitted' = SomeCommitted
        /\ \A v : Over(v)' = Over(v)
    BY <1>1 DEF SomeCommitted, Over
  <1>4. ReleaseSound
    BY DEF FenceInv
  <1>5. ASSUME op'.kind = op.kind, op'.r = op.r, op'.v = op.v, op.kind # "open",
               src'.claim = src.claim, db'.writes = db.writes,
               LettingGo' => LettingGo \/ src.claim # op.r
        PROVE  FenceInv'
    <2>1. ReleaseSound'
      BY <1>1, <1>2, <1>3, <1>4, <1>5 DEF ReleaseSound
    <2> QED
      BY <1>1, <1>5, <2>1, FenceMove
  <1>6. CASE EmitBarrier \/ ReplayBarrier
    <2>1. op.pc = "emit"
      BY <1>6 DEF EmitBarrier, ReplayBarrier, At
    <2>2. op.kind = "freeze"
      BY <1>1, <2>1, KindAt
    <2>3. op'.kind = op.kind /\ op'.r = op.r /\ op'.v = op.v
      BY <1>2, <1>6 DEF EmitBarrier, ReplayBarrier, Reconciles
    <2>4. src'.claim = src.claim
      BY <1>6 DEF EmitBarrier, ReplayBarrier
    <2>5. db'.writes = db.writes
      BY <1>2, <1>6 DEF EmitBarrier, ReplayBarrier, TypeOK, Database
    <2> QED
      BY <1>5, <2>2, <2>3, <2>4, <2>5 DEF LettingGo
  <1>7. CASE FailFreeze
    BY <1>2, <1>7 DEF BarrierInv, NothingPoisoned, FailFreeze, Slot
  <1>8. CASE SkipUnfence
    <2>1. op.pc = "unfence" /\ op' = [op EXCEPT !.pc = AfterUnfence] /\ UNCHANGED <<src, db>>
      BY <1>8 DEF SkipUnfence, At
    <2>2. op.kind \in {"fail", "rollback", "cleanup"}
      BY <1>1, <2>1, KindAt
    <2>3. src.claim # op.r
      BY <1>8 DEF SkipUnfence
    <2>4. src'.claim = src.claim /\ db'.writes = db.writes
      BY <2>1
    <2> QED
      BY <1>2, <1>5, <2>1, <2>2, <2>3, <2>4, MoveFields
  <1>9. CASE NothingToRelease
    <2>1. op.pc = "release" /\ op' = [op EXCEPT !.pc = "status"] /\ UNCHANGED <<src, db>>
      BY <1>9 DEF NothingToRelease, At
    <2>2. op.kind \in {"fail", "cleanup", "switch", "cleanupSwitch"}
      BY <1>1, <2>1, KindAt
    <2>3. op'.kind = op.kind /\ op'.r = op.r /\ op'.v = op.v /\ op'.pc = "status"
      BY <1>2, <2>1, MoveFields
    <2>4. LettingGo' => LettingGo
      BY <2>1, <2>3 DEF LettingGo
    <2>5. src'.claim = src.claim /\ db'.writes = db.writes
      BY <2>1
    <2> QED
      BY <1>5, <2>2, <2>3, <2>4, <2>5
  <1>10. CASE SwitchCompiled \/ HideSource
    <2>1. op.pc \in {"flip", "compiled"}
      BY <1>10 DEF SwitchCompiled, HideSource, At
    <2>2. op.kind \in {"switch", "cleanupSwitch"}
      BY <1>1, <2>1, KindAt
    <2>3. op'.kind = op.kind /\ op'.r = op.r /\ op'.v = op.v
      BY <1>2, <1>10 DEF SwitchCompiled, HideSource, Reconciles
    <2>4. db'.writes = db.writes
      BY <1>10 DEF SwitchCompiled, HideSource
    <2>5. src'.claim = src.claim
      <3>1. src' = src \/ src' = [src EXCEPT !.serving = FALSE]
        BY <1>10 DEF SwitchCompiled, HideSource
      <3>2. src \in SourceShard
        BY <1>2 DEF TypeOK
      <3> QED
        BY <3>1, <3>2 DEF SourceShard
    <2>6. ~ LettingGo'
      BY <2>2, <2>3 DEF LettingGo
    <2> QED
      BY <1>5, <2>2, <2>3, <2>4, <2>5, <2>6
  <1> QED
    BY <1>6, <1>7, <1>8, <1>9, <1>10

-----------------------------------------------------------------------------
(***************************************************************************)
(* The fence: the claim, the database and the caches.                      *)
(***************************************************************************)

\* A reshard takes the claim, or finds that it has it.
LEMMA FenceClaims ==
    ASSUME BarrierInv, FenceInv, NEW r \in Reshards, ClaimSource(r) \/ ConfirmClaim(r)
    PROVE  FenceInv'
  <1> USE DEF fenceVars, apiVars, seenVars, envVars
  <1>1. /\ UNCHANGED <<fenceVars, db, expired, replaced>>
        /\ Starting(r, "open", "status")
        /\ seenRs[r].exists
        /\ ~ seenRs[r].deleting
        /\ seenRs[r].phase = "ReadyToCutover"
        /\ TypeOK
        /\ Steady(r)
    BY DEF BarrierInv, FenceInv, ClaimSource, ConfirmClaim, Reconciling
  <1>2. /\ op'.kind = "open"
        /\ op'.r = r
        /\ op'.v = seenRs[r]
    BY <1>1, StartView
  <1>3. r # NoReshard
    BY ReshardsAssumption
  <1>4. /\ src.claim \in {r, src'.claim, NoReshard}
        /\ src'.claim \in {r, src.claim}
        /\ seenSrc.claim \in {r, NoReshard}
        /\ seenRs[r].claimFin
        /\ src'.claim = r \/ (src'.claim = src.claim /\ seenSrc.claim = r)
    <2>1. CASE ClaimSource(r)
      BY SMTT(60), <1>1, <2>1, SourceWrites DEF ClaimSource, TypeOK
    <2>2. CASE ConfirmClaim(r)
      BY <1>1, <2>2 DEF ConfirmClaim, Steady, Finalized
    <2> QED
      BY <2>1, <2>2
  <1>5. \A q \in Reshards : src.claim = q => src'.claim = q
    BY <1>3, <1>4, ReshardsAssumption
  <1>6. ASSUME NEW q \in Reshards, q # r PROVE Steady(q)'
    <2>1. Steady(q)
      BY DEF FenceInv
    <2>2. SeenSound(q)'
      BY <1>1, <2>1 DEF Steady, SeenSound
    <2>3. Finalized(q)'
      BY <1>1, <1>4, <1>6, <2>1 DEF Steady, Finalized
    <2>4. WindowClaimed(q)'
      BY <1>1, <1>2, <1>5, <1>6, <2>1 DEF Steady, WindowClaimed, Over
    <2>5. (Lapsed(q) \/ Owes(q))'
      BY <1>1, <1>5, <2>1 DEF Steady, Lapsed, Owes, Over
    <2> QED
      BY <2>2, <2>3, <2>4, <2>5 DEF Steady
  <1>7. Steady(r)'
    <2>1. SeenSound(r)'
      BY <1>1 DEF Steady, SeenSound
    <2>2. Finalized(r)'
      BY <1>1, <1>4 DEF Steady, Finalized
    <2>3. WindowClaimed(r)'
      BY <1>1, <1>4, <1>5 DEF Steady, WindowClaimed, Over
    <2>4. Lapsed(r)'
      BY <1>1 DEF Lapsed, Over
    <2> QED
      BY <2>1, <2>2, <2>3, <2>4 DEF Steady
  <1>8. FenceOwed'
    <2>1. \A q \in Reshards : Owes(q) => Owes(q)'
      BY <1>1, <1>5 DEF Owes
    <2> QED
      BY <1>1, <2>1, OwedFrame DEF FenceInv
  <1>9. ReleaseSound'
    BY <1>1, <1>2, <1>4 DEF ReleaseSound, LettingGo
  <1> QED
    BY <1>6, <1>7, <1>8, <1>9 DEF FenceInv

\* The claim is released by a reshard that is over, when the source is open or
\* a switch is committed.
LEMMA FenceReleases ==
    ASSUME BarrierInv, FenceInv, ReleaseClaim
    PROVE  FenceInv'
  <1> USE DEF fenceVars, apiVars, seenVars, envVars
  <1>1. /\ UNCHANGED <<fenceVars, db, expired, replaced>>
        /\ op.pc = "release"
        /\ op.pc \in PCs
        /\ src.claim = op.r
        /\ TypeOK
        /\ ReleaseSound
    BY DEF BarrierInv, FenceInv, ReleaseClaim, At, PCs
  <1>2. /\ op \in Reconciles
        /\ op.r \in Reshards
        /\ op.kind \in {"fail", "cleanup", "switch", "cleanupSwitch"}
        /\ ViewSound
        /\ ReconcileSound
        /\ op # Idle
    BY <1>1, OpFields, KindAt DEF BarrierInv
  <1>3. src'.claim = NoReshard
    BY SMTT(60), <1>1, SourceWrites DEF ReleaseClaim, TypeOK
  <1>4. op'.kind = op.kind /\ op'.r = op.r /\ op'.v = op.v
    BY <1>2 DEF ReleaseClaim, Reconciles
  <1>5. Over(seenRs[op.r]) /\ Over(rs[op.r])
    BY <1>1, <1>2 DEF ReleaseSound
  <1>6. db.writes = "open" \/ SomeCommitted
    <2>1. CASE op.kind \in {"fail", "cleanup"}
      BY <1>1, <2>1 DEF ReleaseSound, LettingGo
    <2>2. CASE op.kind \in {"switch", "cleanupSwitch"}
      BY <1>2, <2>2 DEF ReconcileSound, SwitchSound, ViewSound, Earlier, SomeCommitted
    <2> QED
      BY <1>2, <2>1, <2>2
  <1>7. \A q \in Reshards : q # op.r => src.claim # q
    BY <1>1
  <1>8. ASSUME NEW q \in Reshards PROVE Steady(q)'
    <2>1. Steady(q)
      BY DEF FenceInv
    <2>2. SeenSound(q)'
      BY <1>1, <2>1 DEF Steady, SeenSound
    <2>3. Finalized(q)'
      BY <1>1, <1>3, <2>1, ReshardsAssumption DEF Steady, Finalized
    <2>4. WindowClaimed(q)'
      <3>1. CASE q = op.r
        <4>1. ~ (/\ ~ (replaced \/ rs[q].deleting \/ rs[q].committed)
                 /\ rs[q].phase = "ReadyToCutover")
          <5>1. CASE op.kind = "fail"
            BY <1>2, <3>1, <5>1 DEF ReconcileSound, FailSound, ViewSound, Earlier
          <5>2. CASE op.kind # "fail"
            BY <1>2, <3>1, <5>2 DEF ReconcileSound, CleanupSound, SwitchSound, ViewSound, Earlier
          <5> QED
            BY <5>1, <5>2
        <4>2. ~ (/\ ~ (replaced' \/ rs'[q].deleting \/ rs'[q].committed)
                 /\ rs'[q].phase = "ReadyToCutover")
          BY <1>1, <4>1
        <4>3. Over(rs[q])'
          BY <1>1, <1>5, <3>1 DEF Over
        <4> QED
          BY <4>2, <4>3 DEF WindowClaimed
      <3>2. CASE q # op.r
        BY <1>1, <1>2, <1>4, <1>7, <2>1, <3>2 DEF Steady, WindowClaimed, Over
      <3> QED
        BY <3>1, <3>2
    <2>5. Lapsed(q)
      BY <1>5, <1>7, <2>1 DEF Steady, Lapsed, Owes
    <2>6. Lapsed(q)'
      BY <1>1, <2>5 DEF Lapsed, Over
    <2> QED
      BY <2>2, <2>3, <2>4, <2>6 DEF Steady
  <1>9. FenceOwed'
    BY <1>1, <1>6 DEF FenceOwed, SomeCommitted
  <1>10. ReleaseSound'
    <2>1. Over(seenRs[op.r])' /\ Over(rs[op.r])'
      BY <1>1, <1>4, <1>5 DEF Over
    <2>2. src'.claim # op'.r
      BY <1>2, <1>3, <1>4, ReshardsAssumption
    <2> QED
      BY <1>1, <1>2, <1>4, <2>1, <2>2 DEF ReleaseSound
  <1> QED
    BY <1>8, <1>9, <1>10 DEF FenceInv

\* A reconcile fences only a source that its reshard owes an un-fence.
LEMMA FenceCloses ==
    ASSUME BarrierInv, FenceInv, NEW r \in Reshards, FenceSource(r) \/ FenceSourceFails(r)
    PROVE  FenceInv'
  <1> USE DEF fenceVars, apiVars, seenVars, envVars
  <1>1. /\ UNCHANGED <<fenceVars, src, expired, replaced>>
        /\ op = Idle
        /\ seenRs[r].exists
        /\ ~ seenRs[r].deleting
        /\ seenRs[r].phase = "CuttingOver"
        /\ ~ replaced
        /\ ~ seenRs[r].committed
        /\ ~ Past(r)
        /\ seenRs[r].frozen = 0
        /\ seenRs[r].fenced
        /\ Steady(r)
    BY DEF FenceInv, FenceSource, FenceSourceFails, Freezing, InWindow, Reconciling
  <1>2. op' = op \/ (op'.kind = "freeze" /\ op'.v = seenRs[r])
    <2>1. CASE FenceSource(r)
      BY <1>1, <2>1, StartView DEF FenceSource
    <2>2. CASE FenceSourceFails(r)
      BY <2>2 DEF FenceSourceFails
    <2> QED
      BY <2>1, <2>2
  <1>3. Owes(r)
    <2>1. seenRs[r].gate
      BY <1>1 DEF Steady, SeenSound
    <2>2. ~ seenRs[r].frozen > 0
      BY SMTT(60), <1>1
    <2> QED
      BY <1>1, <2>1, <2>2 DEF Steady, Lapsed, Over, Past
  <1>4. \A q \in Reshards : Steady(q)'
    <2>1. /\ op' = op \/ op'.kind # "open"
          /\ src'.claim = src.claim
          /\ seenSrc'.claim = seenSrc.claim
          /\ expired \subseteq expired'
          /\ replaced => replaced'
      BY <1>1, <1>2
    <2> QED
      BY <1>1, <2>1, SteadyFrame DEF FenceInv
  <1>5. FenceOwed'
    <2>1. Owes(r)' /\ seenRs'[r].fenced
      BY <1>1, <1>3 DEF Owes
    <2> QED
      BY <2>1 DEF FenceOwed
  <1>6. ReleaseSound'
    <2>1. CASE op'.kind = "freeze" /\ op'.v = seenRs[r]
      BY <1>1, <2>1 DEF ReleaseSound, LettingGo
    <2> QED
      BY <1>1, <1>2, <2>1, ReleaseIdle
  <1> QED
    BY <1>4, <1>5, <1>6 DEF FenceInv

\* The source is opened.
LEMMA FenceOpens ==
    ASSUME BarrierInv, FenceInv, UnfenceSource
    PROVE  FenceInv'
  <1> USE DEF fenceVars, apiVars, seenVars, envVars
  <1>1. /\ UNCHANGED <<fenceVars, src, expired, replaced>>
        /\ op.pc = "unfence"
        /\ op.pc \in PCs
        /\ TypeOK
        /\ ReleaseSound
    BY DEF BarrierInv, FenceInv, UnfenceSource, At, PCs
  <1>2. /\ op \in Reconciles
        /\ op.kind \in {"fail", "rollback", "cleanup"}
        /\ op # Idle
    BY <1>1, OpFields, KindAt DEF BarrierInv
  <1>3. db'.writes = "open"
    BY <1>1, FenceWrite DEF UnfenceSource, TypeOK
  <1>4. op'.kind = op.kind /\ op'.r = op.r /\ op'.v = op.v
    BY <1>2, MoveFields DEF UnfenceSource
  <1>5. \A q \in Reshards : Steady(q)'
    <2>1. /\ op'.kind # "open"
          /\ src'.claim = src.claim
          /\ seenSrc'.claim = seenSrc.claim
          /\ expired \subseteq expired'
          /\ replaced => replaced'
      BY <1>1, <1>2, <1>4
    <2> QED
      BY <1>1, <2>1, SteadyFrame DEF FenceInv
  <1>6. FenceOwed'
    BY <1>3 DEF FenceOwed
  <1>7. ReleaseSound'
    BY <1>1, <1>2, <1>3, <1>4 DEF ReleaseSound, Over
  <1> QED
    BY <1>5, <1>6, <1>7 DEF FenceInv

\* The informers catch up.
LEMMA FenceSees ==
    ASSUME BarrierInv, FenceInv, SeeShards \/ \E r \in Reshards : SeeReshard(r)
    PROVE  FenceInv'
  <1> USE DEF fenceVars, apiVars, seenVars, envVars
  <1>1. CASE SeeShards
    <2>1. /\ UNCHANGED <<rs, src, seenRs, op, db, expired, replaced>>
          /\ seenSrc' = src
      BY <1>1 DEF SeeShards
    <2>2. ASSUME NEW q \in Reshards PROVE Steady(q)'
      <3>1. Steady(q)
        BY DEF FenceInv
      <3>2. SeenSound(q)'
        BY <2>1, <3>1 DEF Steady, SeenSound
      <3>3. Finalized(q)'
        BY <2>1, <3>1 DEF Steady, Finalized
      <3>4. WindowClaimed(q)'
        BY <2>1, <3>1 DEF Steady, WindowClaimed, Over
      <3>5. (Lapsed(q) \/ Owes(q))'
        BY <2>1, <3>1 DEF Steady, Lapsed, Owes, Over
      <3> QED
        BY <3>2, <3>3, <3>4, <3>5 DEF Steady
    <2>3. FenceOwed'
      BY <2>1 DEF FenceInv, FenceOwed, Owes, SomeCommitted
    <2>4. ReleaseSound'
      BY <2>1 DEF FenceInv, ReleaseSound, LettingGo, Over, SomeCommitted
    <2> QED
      BY <2>2, <2>3, <2>4 DEF FenceInv
  <1>2. ASSUME NEW r \in Reshards, SeeReshard(r) PROVE FenceInv'
    <2>1. /\ UNCHANGED <<rs, src, seenSrc, op, db, expired, replaced>>
          /\ seenRs' = [seenRs EXCEPT ![r] = rs[r]]
          /\ TypeOK
          /\ Steady(r)
          /\ Earlier(seenRs[r], rs[r])
      BY <1>2 DEF BarrierInv, FenceInv, SeeReshard, CachesEarlier
    <2>2. /\ seenRs'[r] = rs[r]
          /\ \A q \in Reshards : q # r => seenRs'[q] = seenRs[q]
      BY <2>1 DEF TypeOK
    <2>3. Steady(r)'
      <3>1. SeenSound(r)'
        <4>1. rs[r].phase = "CuttingOver" /\ ~ rs[r].deleting => rs[r].gate
          BY DEF BarrierInv, WindowGated
        <4> QED
          BY <2>1, <2>2, <4>1 DEF Steady, SeenSound
      <3>2. Finalized(r)'
        BY <2>1, <2>2 DEF Steady, Finalized, SeenSound, Earlier
      <3>3. WindowClaimed(r)'
        BY <2>1 DEF Steady, WindowClaimed, Over
      <3>4. CASE ~ Over(rs[r]) /\ rs[r].fenced
        <4>1. Owes(r)
          BY <2>1, <3>4 DEF Steady, Owes, SeenSound, Finalized, WindowClaimed, Over
        <4>2. Owes(r)'
          BY <2>1, <4>1 DEF Owes
        <4> QED
          BY <3>1, <3>2, <3>3, <4>2 DEF Steady
      <3>5. CASE Over(rs[r]) \/ ~ rs[r].fenced
        <4>1. Lapsed(r)'
          BY <2>1, <2>2, <3>5 DEF Lapsed, Over
        <4> QED
          BY <3>1, <3>2, <3>3, <4>1 DEF Steady
      <3> QED
        BY <3>4, <3>5
    <2>4. \A q \in Reshards : q # r => Steady(q)'
      BY <2>1, <2>2, SteadyFrame DEF FenceInv
    <2>5. FenceOwed'
      <3>1. \A q \in Reshards : Owes(q) /\ seenRs[q].fenced => Owes(q)' /\ seenRs'[q].fenced
        BY <2>1, <2>2 DEF Owes
      <3> QED
        BY <2>1, <3>1, OwedFrame DEF FenceInv
    <2>6. ReleaseSound'
      <3>1. CASE op = Idle
        BY <2>1, <3>1, ReleaseIdle
      <3>2. CASE op # Idle
        <4>1. op.r \in Reshards
          BY <2>1, <3>2, OpFields
        <4>2. seenRs'[op.r] \in {seenRs[op.r], rs[op.r]}
          BY <2>2, <4>1
        <4>3. ReleaseSound
          BY DEF FenceInv
        <4>4. Over(seenRs[op.r]) /\ Over(rs[op.r]) => Over(seenRs[op.r])' /\ Over(rs[op.r])'
          BY <2>1, <4>2 DEF Over
        <4> QED
          BY <2>1, <4>3, <4>4 DEF ReleaseSound, LettingGo, SomeCommitted
      <3> QED
        BY <3>1, <3>2
    <2> QED
      BY <2>3, <2>4, <2>5, <2>6 DEF FenceInv
  <1> QED
    BY <1>1, <1>2

-----------------------------------------------------------------------------
(***************************************************************************)
(* The fence: writes of a reshard.                                         *)
(***************************************************************************)

\* Which writes leave the object's existence and its claim finalizer alone.
LEMMA KeepsFinalizer ==
    ASSUME TypeOK, NEW r \in Reshards,
           \/ ReachReady(r) \/ FailSeeding(r) \/ ObserveGate(r) \/ RecordFence(r) \/ CommitSwitch(r)
           \/ /\ op.r = r
              /\ \/ OpenWindow \/ RecordBarrier \/ RecordFailed \/ RecordRollBack \/ RecordSwitched
                 \/ ClearGate \/ RecordUnfence
    PROVE  /\ rs'[r].exists = rs[r].exists
           /\ rs'[r].claimFin = rs[r].claimFin
  <1>1. rs \in [Reshards -> ReshardObject] /\ rs[r] \in ReshardObject
    BY DEF TypeOK
  <1> DEFINE Keeps == rs'[r].exists = rs[r].exists /\ rs'[r].claimFin = rs[r].claimFin
  <1>2. CASE ReachReady(r)
    BY <1>1, <1>2 DEF ReachReady, ReshardObject
  <1>3. CASE FailSeeding(r)
    BY <1>1, <1>3 DEF FailSeeding, ReshardObject
  <1>4. CASE ObserveGate(r)
    BY <1>1, <1>4 DEF ObserveGate, ReshardObject
  <1>5. CASE RecordFence(r)
    BY <1>1, <1>5 DEF RecordFence, ReshardObject
  <1>6. CASE CommitSwitch(r)
    BY <1>1, <1>6 DEF CommitSwitch, ReshardObject
  <1>7. ASSUME op.r = r, OpenWindow PROVE Keeps
    BY <1>1, <1>7 DEF OpenWindow, ReshardObject
  <1>8. ASSUME op.r = r, RecordBarrier PROVE Keeps
    BY <1>1, <1>8 DEF RecordBarrier, ReshardObject
  <1>9. ASSUME op.r = r, RecordFailed PROVE Keeps
    BY <1>1, <1>9 DEF RecordFailed, ReshardObject
  <1>10. ASSUME op.r = r, RecordRollBack PROVE Keeps
    BY <1>1, <1>10 DEF RecordRollBack, ReshardObject
  <1>11. ASSUME op.r = r, RecordSwitched PROVE Keeps
    BY <1>1, <1>11 DEF RecordSwitched, ReshardObject
  <1>12. ASSUME op.r = r, ClearGate PROVE Keeps
    BY <1>1, <1>12 DEF ClearGate, ReshardObject
  <1>13. ASSUME op.r = r, RecordUnfence PROVE Keeps
    BY <1>1, <1>13 DEF RecordUnfence, ReshardObject
  <1> QED
    BY <1>2, <1>3, <1>4, <1>5, <1>6, <1>7, <1>8, <1>9, <1>10, <1>11, <1>12, <1>13

\* The writes from the work queue.
LEMMA FenceQueueWrites ==
    ASSUME BarrierInv, FenceInv, NEW r \in Reshards,
           \/ ReachReady(r) \/ FailSeeding(r) \/ AddClaimFinalizer(r) \/ ObserveGate(r)
           \/ RecordFence(r) \/ CommitSwitch(r)
    PROVE  FenceInv'
  <1> USE DEF seenVars, envVars
  <1>1. /\ TypeOK
        /\ UNCHANGED <<src, seenRs, seenSrc, db, expired, replaced>>
        /\ op' = Idle
        /\ seenRs[r] = rs[r]
        /\ Steady(r)
    BY DEF BarrierInv, FenceInv, ReachReady, FailSeeding, AddClaimFinalizer, ObserveGate,
           RecordFence, CommitSwitch, InWindow, Reconciling, Current
  <1>2. ReleaseSound' /\ op'.kind # "open"
    BY <1>1, ReleaseIdle, IdleFrame
  <1>3. ASSUME OnlyWrites(r), SeenSound(r)', Finalized(r)', WindowClaimed(r)',
               rs[r].committed => rs'[r].committed, Owes(r) => Owes(r)'
        PROVE  FenceInv'
    BY <1>1, <1>2, <1>3, FenceWriteStep
  <1>4. CASE ReachReady(r)
    <2>1. /\ OnlyWrites(r)
          /\ rs'[r].phase = "ReadyToCutover"
          /\ rs'[r].deleting = rs[r].deleting
          /\ rs'[r].attempt = rs[r].attempt
          /\ rs'[r].fenced = rs[r].fenced
          /\ rs'[r].frozen = rs[r].frozen
          /\ rs'[r].committed = rs[r].committed
      BY <1>1, <1>4, PhaseWrite DEF ReachReady, Phases
    <2>2. rs'[r].exists = rs[r].exists /\ rs'[r].claimFin = rs[r].claimFin
      BY <1>1, <1>4, KeepsFinalizer
    <2>3. WindowClaimed(r)'
      <3>1. ~ replaced /\ r \notin foreign
        BY <1>4 DEF ReachReady
      <3>2. ~ (rs[r].deleting \/ rs[r].committed) /\ seenSrc.claim = r => src.claim = r
        BY <3>1 DEF BarrierInv, ClaimHeld, Finished
      <3> QED
        BY <1>1, <1>2, <2>1, <3>2 DEF WindowClaimed, Over
    <2>4. SeenSound(r)' /\ Finalized(r)'
      BY <1>1, <2>1, <2>2 DEF Steady, SeenSound, Finalized
    <2> QED
      BY <1>1, <1>3, <2>1, <2>2, <2>3, <2>4 DEF Owes
  <1>5. CASE FailSeeding(r)
    <2>1. /\ OnlyWrites(r)
          /\ rs'[r].phase = "Failed"
          /\ rs'[r].deleting = rs[r].deleting
          /\ rs'[r].attempt = rs[r].attempt
          /\ rs'[r].fenced = rs[r].fenced
          /\ rs'[r].frozen = rs[r].frozen
          /\ rs'[r].committed = rs[r].committed
      BY <1>1, <1>5, PhaseWrite DEF FailSeeding, Phases
    <2>2. rs'[r].exists = rs[r].exists /\ rs'[r].claimFin = rs[r].claimFin
      BY <1>1, <1>5, KeepsFinalizer
    <2>3. WindowClaimed(r)'
      BY <2>1 DEF WindowClaimed, Over
    <2>4. SeenSound(r)' /\ Finalized(r)'
      BY <1>1, <2>1, <2>2 DEF Steady, SeenSound, Finalized
    <2> QED
      BY <1>1, <1>3, <2>1, <2>2, <2>3, <2>4 DEF Owes
  <1>6. CASE AddClaimFinalizer(r) \/ ObserveGate(r)
    <2>1. OnlyWrites(r) /\ SameCore
      BY <1>1, <1>6, ClaimFinWrite, ObservedWrite DEF AddClaimFinalizer, ObserveGate
    <2>2. rs'[r].exists = rs[r].exists /\ (rs[r].claimFin => rs'[r].claimFin)
      <3>1. CASE AddClaimFinalizer(r)
        BY <1>1, <3>1 DEF AddClaimFinalizer, TypeOK, ReshardObject
      <3>2. CASE ObserveGate(r)
        BY <1>1, <3>2, KeepsFinalizer
      <3> QED
        BY <1>6, <3>1, <3>2
    <2>3. /\ rs'[r].phase = rs[r].phase
          /\ rs'[r].deleting = rs[r].deleting
          /\ rs'[r].attempt = rs[r].attempt
          /\ rs'[r].fenced = rs[r].fenced
          /\ rs'[r].frozen = rs[r].frozen
          /\ rs'[r].committed = rs[r].committed
      BY <2>1 DEF SameCore
    <2>4. WindowClaimed(r)'
      BY <1>1, <1>2, <2>3 DEF Steady, WindowClaimed, Over
    <2>5. SeenSound(r)' /\ Finalized(r)'
      BY <1>1, <2>2, <2>3 DEF Steady, SeenSound, Finalized
    <2> QED
      BY <1>1, <1>3, <2>1, <2>2, <2>3, <2>4, <2>5 DEF Owes
  <1>7. CASE RecordFence(r)
    <2>1. /\ OnlyWrites(r)
          /\ rs'[r].phase = rs[r].phase
          /\ rs'[r].deleting = rs[r].deleting
          /\ rs'[r].attempt = rs[r].attempt
          /\ rs'[r].fenced = TRUE
          /\ rs'[r].frozen = rs[r].frozen
          /\ rs'[r].committed = rs[r].committed
      BY <1>1, <1>7, FencedWrite DEF RecordFence
    <2>2. rs'[r].exists = rs[r].exists /\ rs'[r].claimFin = rs[r].claimFin
      BY <1>1, <1>7, KeepsFinalizer
    <2>3. rs[r].phase = "CuttingOver"
      BY <1>1, <1>7 DEF RecordFence, InWindow, Reconciling
    <2>4. WindowClaimed(r)'
      BY <1>1, <1>2, <2>1 DEF Steady, WindowClaimed, Over
    <2>5. SeenSound(r)' /\ Finalized(r)'
      BY <1>1, <2>1, <2>2, <2>3 DEF Steady, SeenSound, Finalized
    <2> QED
      BY <1>1, <1>3, <2>1, <2>2, <2>4, <2>5 DEF Owes
  <1>8. CASE CommitSwitch(r)
    <2>1. /\ OnlyWrites(r)
          /\ rs'[r].phase = rs[r].phase
          /\ rs'[r].deleting = rs[r].deleting
          /\ rs'[r].attempt = rs[r].attempt
          /\ rs'[r].fenced = rs[r].fenced
          /\ rs'[r].frozen = rs[r].frozen
          /\ rs'[r].committed = TRUE
      BY <1>1, <1>8, CommittedWrite DEF CommitSwitch
    <2>2. rs'[r].exists = rs[r].exists /\ rs'[r].claimFin = rs[r].claimFin
      BY <1>1, <1>8, KeepsFinalizer
    <2>3. rs[r].phase = "CuttingOver"
      BY <1>1, <1>8 DEF CommitSwitch, InWindow, Reconciling
    <2>4. WindowClaimed(r)'
      BY <2>1 DEF WindowClaimed, Over
    <2>5. SeenSound(r)' /\ Finalized(r)'
      BY <1>1, <2>1, <2>2, <2>3 DEF Steady, SeenSound, Finalized
    <2> QED
      BY <1>1, <1>3, <2>1, <2>2, <2>4, <2>5 DEF Owes
  <1> QED
    BY <1>4, <1>5, <1>6, <1>7, <1>8

\* The writes that end a reconcile.
LEMMA FenceStatusWrites ==
    ASSUME BarrierInv, FenceInv, NEW r \in Reshards, r = op.r,
           \/ OpenWindow \/ RecordBarrier \/ RecordFailed \/ RecordRollBack \/ RecordSwitched
           \/ RemoveClaimFinalizer
    PROVE  FenceInv'
  <1> USE DEF seenVars, envVars
  <1>1. /\ UNCHANGED <<src, seenRs, seenSrc, db, expired, replaced>>
        /\ op' = Idle
        /\ op.pc = "status"
        /\ Unchanged(r)
        /\ op.pc \in PCs
        /\ Steady(r)
        /\ ReleaseSound
    BY DEF FenceInv, OpenWindow, RecordBarrier, RecordFailed, RecordRollBack, RecordSwitched,
           RemoveClaimFinalizer, At, PCs
  <1>2. /\ TypeOK
        /\ op # Idle
        /\ op.v = rs[r]
        /\ op.lsn \in Nat
        /\ rs[r] \in ReshardObject
        /\ rs[r].attempt \in Attempts
        /\ rs[r].attempt \in Int
        /\ seenRs[r].attempt \in Int
        /\ Earlier(seenRs[r], rs[r])
        /\ ReconcileSound
    BY <1>1, OpWrite
  <1>3. ReleaseSound' /\ op'.kind # "open"
    BY <1>1, ReleaseIdle, IdleFrame
  <1>4. ASSUME OnlyWrites(r), SeenSound(r)', Finalized(r)', WindowClaimed(r)',
               rs[r].committed => rs'[r].committed,
               Owes(r) => Owes(r)' \/ (Lapsed(r) /\ (db.writes = "open" \/ SomeCommitted))
        PROVE  FenceInv'
    BY <1>1, <1>3, <1>4, FenceWriteStep
  <1>5. op.kind \in {"fail", "cleanup", "rollback"} /\ src.claim = r =>
           db.writes = "open" \/ SomeCommitted
    BY <1>1 DEF ReleaseSound, LettingGo
  <1>6. CASE OpenWindow
    <2>1. op.kind = "open" /\ rs[r].phase = "ReadyToCutover"
      BY <1>2, <1>6 DEF OpenWindow, ReconcileSound, OpenSound
    <2>2. /\ OnlyWrites(r)
          /\ rs'[r].phase = "CuttingOver"
          /\ rs'[r].deleting = rs[r].deleting
          /\ rs'[r].attempt = rs[r].attempt
          /\ rs'[r].fenced = rs[r].fenced
          /\ rs'[r].frozen = rs[r].frozen
          /\ rs'[r].committed = rs[r].committed
      BY <1>2, <1>6, GatePhaseWrite DEF OpenWindow, Phases
    <2>3. rs'[r].exists = rs[r].exists /\ rs'[r].claimFin = rs[r].claimFin
      BY <1>2, <1>6, KeepsFinalizer
    <2>4. rs[r].claimFin
      BY <1>1, <1>2, <2>1 DEF ReleaseSound
    <2>5. WindowClaimed(r)'
      BY <1>1, <2>1, <2>2 DEF Steady, WindowClaimed, Over
    <2>6. SeenSound(r)'
      BY <1>1, <2>2, <2>3 DEF Steady, SeenSound
    <2>7. Finalized(r)'
      BY <1>1, <2>2, <2>3, <2>4 DEF Steady, Finalized
    <2> QED
      BY <1>1, <1>4, <2>2, <2>3, <2>5, <2>6, <2>7 DEF Owes
  <1>7. CASE RecordBarrier
    <2>1. op.kind = "freeze" /\ op.lsn > 0
      BY <1>1, <1>2, <1>7 DEF RecordBarrier, ReconcileSound, FreezeSound
    <2>2. /\ OnlyWrites(r)
          /\ rs'[r].phase = rs[r].phase
          /\ rs'[r].deleting = rs[r].deleting
          /\ rs'[r].attempt = rs[r].attempt
          /\ rs'[r].fenced = rs[r].fenced
          /\ rs'[r].frozen = op.lsn
          /\ rs'[r].committed = rs[r].committed
      BY <1>2, <1>7, FrozenWrite DEF RecordBarrier
    <2>3. rs'[r].exists = rs[r].exists /\ rs'[r].claimFin = rs[r].claimFin
      BY <1>2, <1>7, KeepsFinalizer
    <2>4. rs[r].phase = "CuttingOver"
      BY <1>2, <2>1 DEF ReconcileSound, FreezeSound
    <2>5. WindowClaimed(r)'
      BY <2>1, <2>2, <2>4 DEF WindowClaimed, Over
    <2>6. SeenSound(r)'
      BY <1>1, <2>1, <2>2, <2>3 DEF Steady, SeenSound
    <2>7. Finalized(r)'
      BY <1>1, <2>2, <2>3 DEF Steady, Finalized
    <2> QED
      BY <1>1, <1>4, <2>2, <2>3, <2>5, <2>6, <2>7 DEF Owes
  <1>8. CASE RecordFailed
    <2>1. /\ OnlyWrites(r)
          /\ rs'[r].phase = "Failed"
          /\ rs'[r].deleting = rs[r].deleting
          /\ rs'[r].attempt = rs[r].attempt
          /\ rs'[r].fenced = rs[r].fenced
          /\ rs'[r].frozen = rs[r].frozen
          /\ rs'[r].committed = rs[r].committed
      BY <1>2, <1>8, PhaseWrite DEF RecordFailed, Phases
    <2>2. rs'[r].exists = rs[r].exists /\ rs'[r].claimFin = rs[r].claimFin
      BY <1>2, <1>8, KeepsFinalizer
    <2>3. WindowClaimed(r)'
      BY <2>1 DEF WindowClaimed, Over
    <2>4. SeenSound(r)' /\ Finalized(r)'
      BY <1>1, <2>1, <2>2 DEF Steady, SeenSound, Finalized
    <2> QED
      BY <1>1, <1>4, <2>1, <2>2, <2>3, <2>4 DEF Owes
  <1>9. CASE RecordRollBack
    <2>1. /\ op.kind = "rollback"
          /\ rs[r].phase = "CuttingOver"
          /\ <<r, rs[r].attempt>> \in expired
      BY <1>2, <1>9 DEF RecordRollBack, ReconcileSound, RollbackSound
    <2>2. rs[r].attempt + 1 \in Attempts /\ seenRs[r].attempt # rs[r].attempt + 1
      BY SMTT(60), <1>2, <1>9, BoundsAssumption DEF RecordRollBack, Attempts, Earlier
    <2>3. /\ OnlyWrites(r)
          /\ rs'[r].deleting = rs[r].deleting
          /\ rs'[r].phase = "CatchingUp"
          /\ rs'[r].attempt = rs[r].attempt + 1
          /\ rs'[r].fenced = FALSE
          /\ rs'[r].committed = rs[r].committed
      BY <1>2, <1>9, <2>2, RollBackWrite DEF RecordRollBack
    <2>4. rs'[r].exists = rs[r].exists /\ rs'[r].claimFin = rs[r].claimFin
      BY <1>2, <1>9, KeepsFinalizer
    <2>5. WindowClaimed(r)'
      BY <2>3 DEF WindowClaimed, Over
    <2>6. SeenSound(r)'
      BY <1>1, <2>2, <2>3, <2>4 DEF Steady, SeenSound
    <2>7. Finalized(r)'
      BY <1>1, <2>3, <2>4 DEF Steady, Finalized
    <2>8. Lapsed(r)
      <3>1. seenRs[r].attempt = rs[r].attempt
        BY <1>2, <2>1 DEF Earlier
      <3> QED
        BY <2>1, <3>1 DEF Lapsed
    <2>9. Owes(r) => db.writes = "open" \/ SomeCommitted
      BY <1>5, <2>1 DEF Owes
    <2> QED
      BY <1>4, <2>3, <2>5, <2>6, <2>7, <2>8, <2>9
  <1>10. CASE RecordSwitched
    <2>1. /\ OnlyWrites(r)
          /\ rs'[r].phase = "SwitchedForward"
          /\ rs'[r].deleting = rs[r].deleting
          /\ rs'[r].attempt = rs[r].attempt
          /\ rs'[r].fenced = rs[r].fenced
          /\ rs'[r].frozen = rs[r].frozen
          /\ rs'[r].committed = rs[r].committed
      BY <1>2, <1>10, GatePhaseWrite DEF RecordSwitched, Phases
    <2>2. rs'[r].exists = rs[r].exists /\ rs'[r].claimFin = rs[r].claimFin
      BY <1>2, <1>10, KeepsFinalizer
    <2>3. WindowClaimed(r)'
      BY <2>1 DEF WindowClaimed, Over
    <2>4. SeenSound(r)' /\ Finalized(r)'
      BY <1>1, <2>1, <2>2 DEF Steady, SeenSound, Finalized
    <2> QED
      BY <1>1, <1>4, <2>1, <2>2, <2>3, <2>4 DEF Owes
  <1>11. CASE RemoveClaimFinalizer
    <2>1. op.kind = "cleanup" /\ rs[r].deleting
      BY <1>2, <1>11 DEF RemoveClaimFinalizer, ReconcileSound, CleanupSound
    <2>2. rs[r].gateFin \in BOOLEAN
      BY <1>2, ReshardFields
    <2>3. OnlyWrites(r) /\ SameCore
      BY <1>2, <1>11, <2>2, ClaimFinRemoval DEF RemoveClaimFinalizer
    <2>4. /\ rs'[r].phase = rs[r].phase
          /\ rs'[r].deleting = rs[r].deleting
          /\ rs'[r].attempt = rs[r].attempt
          /\ rs'[r].frozen = rs[r].frozen
          /\ rs'[r].committed = rs[r].committed
      BY <2>3 DEF SameCore
    <2>5. seenRs[r].exists
      BY <1>1, <1>2 DEF ReleaseSound, Steady, SeenSound
    <2>6. WindowClaimed(r)'
      BY <2>1, <2>4 DEF WindowClaimed, Over
    <2>7. SeenSound(r)'
      BY <1>1, <2>1, <2>4, <2>5 DEF Steady, SeenSound
    <2>8. Finalized(r)'
      BY <1>1, <2>1, <2>4 DEF Steady, Finalized
    <2>9. Lapsed(r)
      BY <1>1, <2>1 DEF ReleaseSound, Lapsed
    <2>10. Owes(r) => db.writes = "open" \/ SomeCommitted
      BY <1>5, <2>1 DEF Owes
    <2> QED
      BY <1>4, <2>3, <2>4, <2>6, <2>7, <2>8, <2>9, <2>10
  <1> QED
    BY <1>6, <1>7, <1>8, <1>9, <1>10, <1>11

\* The writes in the middle of a clean-up: the fence is forgotten only after the
\* un-fence.
LEMMA FenceCleanupWrites ==
    ASSUME BarrierInv, FenceInv, NEW r \in Reshards, r = op.r, ClearGate \/ RecordUnfence
    PROVE  FenceInv'
  <1> USE DEF seenVars, envVars
  <1>1. /\ UNCHANGED <<src, seenRs, seenSrc, db, expired, replaced>>
        /\ Unchanged(r)
        /\ op.pc \in PCs
        /\ Steady(r)
        /\ ReleaseSound
    BY DEF FenceInv, ClearGate, RecordUnfence, At, PCs
  <1>2. /\ TypeOK
        /\ op \in Reconciles
        /\ op # Idle
        /\ op.v = rs[r]
        /\ rs[r] \in ReshardObject
        /\ ReconcileSound
    BY <1>1, OpWrite
  <1>3. op.kind \in {"fail", "cleanup"}
    BY <1>1, KindAt DEF ClearGate, RecordUnfence, At
  <1>4. Over(seenRs[r]) /\ Over(rs[r])
    BY <1>1, <1>3 DEF ReleaseSound
  <1>5. /\ OnlyWrites(r)
        /\ rs'[r].deleting = rs[r].deleting
        /\ rs'[r].phase = rs[r].phase
        /\ rs'[r].attempt = rs[r].attempt
        /\ rs'[r].frozen = rs[r].frozen
        /\ rs'[r].committed = rs[r].committed
        /\ rs'[r].fenced => rs[r].fenced
        /\ rs'[r].fenced = rs[r].fenced \/ RecordUnfence
    <2>1. CASE ClearGate
      BY <1>2, <2>1, GateWrite DEF ClearGate
    <2>2. CASE RecordUnfence
      BY <1>2, <2>2, FencedWrite DEF RecordUnfence
    <2> QED
      BY <2>1, <2>2
  <1>6. rs'[r].exists = rs[r].exists /\ rs'[r].claimFin = rs[r].claimFin
    BY <1>2, KeepsFinalizer
  <1>7. /\ op'.kind = op.kind
        /\ op'.r = r
        /\ op'.v.exists
    <2>1. op.v \in ReshardObject /\ op.v.exists
      BY <1>1, <1>2 DEF ReleaseSound
    <2>2. op'.kind = op.kind /\ op'.r = r
      BY <1>2 DEF ClearGate, RecordUnfence, Reconciles
    <2>3. CASE ClearGate
      <3>1. op'.v = [op.v EXCEPT !.gate = FALSE]
        BY <1>2, <2>3 DEF ClearGate, Reconciles
      <3> QED
        BY <2>1, <2>2, <3>1 DEF ReshardObject
    <2>4. CASE RecordUnfence
      <3>1. op'.v = [op.v EXCEPT !.fenced = FALSE]
        BY <1>2, <2>4 DEF RecordUnfence, Reconciles
      <3> QED
        BY <2>1, <2>2, <3>1 DEF ReshardObject
    <2> QED
      BY <2>3, <2>4
  <1>8. src.claim = r /\ (LettingGo' \/ RecordUnfence) => db.writes = "open" \/ SomeCommitted
    <2>1. CASE ClearGate
      <3>1. op'.pc = (IF UnfenceOwed(op.v) THEN "unfence" ELSE "release") /\ op.pc = "ungate"
        BY <1>2, <2>1 DEF ClearGate, Reconciles, At
      <3>2. CASE UnfenceOwed(op.v)
        <4>1. ~ LettingGo'
          BY <3>1, <3>2 DEF LettingGo
        <4>2. ~ RecordUnfence
          BY <3>1 DEF RecordUnfence, At
        <4> QED
          BY <4>1, <4>2
      <3>3. CASE rs[r].committed
        BY <3>3 DEF SomeCommitted
      <3>4. CASE ~ op.v.fenced
        BY <1>1, <1>3, <3>1, <3>4 DEF ReleaseSound, LettingGo
      <3> QED
        BY <1>2, <3>2, <3>3, <3>4 DEF UnfenceOwed
    <2>2. CASE RecordUnfence
      BY <1>1, <1>3, <2>2 DEF ReleaseSound, LettingGo, RecordUnfence, At
    <2> QED
      BY <2>1, <2>2
  <1>9. ReleaseSound'
    <2>1. Over(seenRs[op.r])' /\ Over(rs[op.r])'
      BY <1>1, <1>4, <1>5, <1>7 DEF Over
    <2>2. SomeCommitted => SomeCommitted'
      BY <1>5 DEF SomeCommitted, OnlyWrites
    <2> QED
      BY <1>1, <1>3, <1>7, <1>8, <2>1, <2>2 DEF ReleaseSound
  <1>10. SeenSound(r)'
    BY <1>1, <1>5, <1>6 DEF Steady, SeenSound
  <1>11. Finalized(r)'
    BY <1>1, <1>5, <1>6 DEF Steady, Finalized
  <1>12. WindowClaimed(r)'
    <2>1. Over(rs[r])'
      BY <1>1, <1>4, <1>5 DEF Over
    <2> QED
      BY <1>1, <1>3, <1>5, <1>7, <2>1 DEF Steady, WindowClaimed
  <1>13. Owes(r) => Owes(r)' \/ (Lapsed(r) /\ (db.writes = "open" \/ SomeCommitted))
    BY <1>1, <1>4, <1>5, <1>6, <1>8 DEF Owes, Lapsed
  <1>14. op'.kind # "open"
    BY <1>3, <1>7
  <1> QED
    BY <1>1, <1>5, <1>9, <1>10, <1>11, <1>12, <1>13, <1>14, FenceWriteStep

\* The object goes only without its claim finalizer.
LEMMA FenceObjectWrites ==
    ASSUME BarrierInv, FenceInv, NEW r \in Reshards, SyncGateFinalizer(r) \/ DeleteReshard(r)
    PROVE  FenceInv'
  <1> USE DEF seenVars, envVars
  <1>1. /\ UNCHANGED <<src, seenRs, seenSrc, db, expired, replaced, op>>
        /\ TypeOK
        /\ rs[r] \in ReshardObject
        /\ Steady(r)
        /\ ReleaseSound
    BY DEF BarrierInv, FenceInv, SyncGateFinalizer, DeleteReshard, TypeOK
  <1>2. /\ OnlyWrites(r)
        /\ rs'[r].phase = rs[r].phase
        /\ rs[r].deleting => rs'[r].deleting
        /\ rs'[r].attempt = rs[r].attempt
        /\ rs'[r].fenced = rs[r].fenced
        /\ rs'[r].frozen = rs[r].frozen
        /\ rs'[r].committed = rs[r].committed
    <2>1. CASE SyncGateFinalizer(r)
      <3>1. /\ Holding(r) \in BOOLEAN
            /\ (~ rs[r].deleting \/ rs[r].claimFin \/ Holding(r)) \in BOOLEAN
        BY DEF Holding
      <3>2. OnlyWrites(r) /\ SameCore
        BY <1>1, <2>1, <3>1, GateFinWrite DEF SyncGateFinalizer
      <3> QED
        BY <3>2 DEF SameCore
    <2>2. CASE DeleteReshard(r)
      <3>1. (rs[r].claimFin \/ rs[r].gateFin) \in BOOLEAN
        OBVIOUS
      <3> QED
        BY <1>1, <2>2, <3>1, DeletingWrite DEF DeleteReshard
    <2> QED
      BY <2>1, <2>2
  <1>3. /\ rs'[r].claimFin = rs[r].claimFin
        /\ rs[r].claimFin \/ ~ rs'[r].deleting => rs'[r].exists
        /\ seenRs[r].exists
    <2>1. CASE SyncGateFinalizer(r)
      <3>1. rs'[r] = [rs[r] EXCEPT !.gateFin = Holding(r),
                         !.exists = ~ rs[r].deleting \/ rs[r].claimFin \/ Holding(r)]
        BY <1>1, <2>1 DEF SyncGateFinalizer, TypeOK
      <3>2. /\ rs'[r].claimFin = rs[r].claimFin
            /\ rs'[r].deleting = rs[r].deleting
            /\ rs'[r].exists = (~ rs[r].deleting \/ rs[r].claimFin \/ Holding(r))
        BY <1>1, <3>1 DEF ReshardObject
      <3>3. seenRs[r].exists
        BY <2>1 DEF SyncGateFinalizer
      <3> QED
        BY <3>2, <3>3
    <2>2. CASE DeleteReshard(r)
      <3>1. rs'[r] = [rs[r] EXCEPT !.deleting = TRUE, !.exists = rs[r].claimFin \/ rs[r].gateFin]
        BY <1>1, <2>2 DEF DeleteReshard, TypeOK
      <3>2. /\ rs'[r].claimFin = rs[r].claimFin
            /\ rs'[r].deleting
            /\ rs'[r].exists = (rs[r].claimFin \/ rs[r].gateFin)
        BY <1>1, <3>1 DEF ReshardObject
      <3>3. seenRs[r].exists
        BY <1>1, <2>2 DEF DeleteReshard, Steady, SeenSound
      <3> QED
        BY <3>2, <3>3
    <2> QED
      BY <2>1, <2>2
  <1>4. SeenSound(r)'
    BY <1>1, <1>2, <1>3 DEF Steady, SeenSound
  <1>5. Finalized(r)'
    BY <1>1, <1>2, <1>3 DEF Steady, Finalized
  <1>6. WindowClaimed(r)'
    BY <1>1, <1>2 DEF Steady, WindowClaimed, Over
  <1>7. Owes(r) => Owes(r)'
    BY <1>1, <1>2, <1>3 DEF Owes
  <1>8. ReleaseSound'
    <2>1. \A q \in Reshards : Over(rs[q]) => Over(rs[q])'
      BY <1>1, <1>2 DEF Over, OnlyWrites
    <2>2. op # Idle => op.r \in Reshards
      BY <1>1, OpFields
    <2>3. \A q \in Reshards : rs[q].committed => rs'[q].committed
      BY <1>2 DEF OnlyWrites
    <2>4. Over(seenRs[op.r]) => Over(seenRs[op.r])'
      BY <1>1 DEF Over
    <2>5. op # Idle => (Over(rs[op.r]) => Over(rs[op.r])')
      BY <1>1, <2>1, <2>2 DEF Over
    <2> QED
      BY <1>1, <2>3, <2>4, <2>5, ReleaseFrame
  <1> QED
    BY <1>1, <1>2, <1>4, <1>5, <1>6, <1>7, <1>8, FenceWriteStep

-----------------------------------------------------------------------------
(***************************************************************************)
(* The fence is never stranded.                                            *)
(***************************************************************************)

\* The initial state satisfies FenceInv.
LEMMA FenceInit == Init => FenceInv
  <1> SUFFICES ASSUME Init PROVE FenceInv
    OBVIOUS
  <1>1. \A r \in Reshards : rs[r] = FreshReshard /\ seenRs[r] = FreshReshard
    BY DEF Init
  <1>2. /\ FreshReshard.exists
        /\ ~ FreshReshard.deleting
        /\ ~ FreshReshard.claimFin
        /\ ~ FreshReshard.fenced
        /\ ~ FreshReshard.committed
        /\ FreshReshard.phase = "CatchingUp"
        /\ ~ FreshReshard.frozen > 0
    BY SMTT(60) DEF FreshReshard
  <1>3. /\ db.writes = "open"
        /\ src.claim = NoReshard
        /\ seenSrc.claim = NoReshard
        /\ op = Idle
    BY DEF Init, FreshSource
  <1>4. ASSUME NEW r \in Reshards PROVE Steady(r)
    <2>1. rs[r] = FreshReshard /\ seenRs[r] = FreshReshard /\ NoReshard # r
      BY <1>1, ReshardsAssumption
    <2>2. SeenSound(r) /\ Finalized(r)
      BY <1>2, <1>3, <2>1 DEF SeenSound, Finalized
    <2>3. WindowClaimed(r) /\ Lapsed(r)
      BY <1>2, <2>1 DEF WindowClaimed, Lapsed, Over
    <2> QED
      BY <2>2, <2>3 DEF Steady
  <1>5. FenceOwed
    BY <1>3 DEF FenceOwed
  <1>6. ReleaseSound
    BY <1>3 DEF ReleaseSound, LettingGo, Idle
  <1> QED
    BY <1>4, <1>5, <1>6 DEF FenceInv

\* Every step of the protocol preserves it.
LEMMA FenceStep ==
    ASSUME PermanentCauses, BarrierInv, FenceInv, [Next]_vars
    PROVE  FenceInv'
  <1>1. ASSUME NEW r \in Reshards, ReshardStep(r) PROVE FenceInv'
    BY <1>1, FenceQueueWrites, FenceClaims, FenceCloses, FenceStarts DEF ReshardStep
  <1>2. CASE OpStep
    <2>1. ~ EmitTimesOut
      BY DEF PermanentCauses, EmitTimesOut
    <2>2. CASE \/ OpenWindow \/ RecordBarrier \/ RecordFailed \/ RecordRollBack \/ RecordSwitched
               \/ RemoveClaimFinalizer \/ ClearGate \/ RecordUnfence
      <3>1. op.r \in Reshards
        <4>1. op.pc \in PCs
          BY <2>2 DEF OpenWindow, RecordBarrier, RecordFailed, RecordRollBack, RecordSwitched,
                      RemoveClaimFinalizer, ClearGate, RecordUnfence, At, PCs
        <4> QED
          BY <4>1, OpFields DEF BarrierInv
      <3> QED
        BY <2>2, <3>1, FenceStatusWrites, FenceCleanupWrites
    <2> QED
      BY <1>2, <2>1, <2>2, FenceQuietActions, FenceMoves, FenceReleases, FenceOpens DEF OpStep
  <1>3. CASE RoutingStep
    BY <1>3, FenceQuietActions, FenceObjectWrites DEF RoutingStep
  <1>4. CASE EnvironmentStep
    BY <1>4, FenceQuietActions, FenceSees, FenceObjectWrites DEF EnvironmentStep
  <1>5. CASE UNCHANGED vars
    BY <1>5, FenceQuietActions
  <1> QED
    BY <1>1, <1>2, <1>3, <1>4, <1>5 DEF Next

\* The invariant holds in every reachable state.
THEOREM FenceInvariant ==
    ASSUME PermanentCauses
    PROVE  Spec => []FenceInv
  <1>1. BarrierInv /\ FenceInv /\ [Next]_vars => FenceInv'
    BY FenceStep
  <1> QED
    BY <1>1, BarrierInvariant, FenceInit, PTL DEF Spec

\* A source that refuses writes has a committed switch, or a claim holder that
\* exists and records the un-fence it owes, whatever the number of reshards and
\* attempts and wherever a reconcile stops.
THEOREM FenceNeverStranded ==
    ASSUME PermanentCauses
    PROVE  Spec => []NoStrandedFence
  <1>1. FenceInv => NoStrandedFence
    BY DEF FenceInv, FenceOwed, SomeCommitted, Owes, NoStrandedFence, Committed
  <1> QED
    BY <1>1, FenceInvariant, PTL


-----------------------------------------------------------------------------
(***************************************************************************)
(* A committed switch stays gated until its source is hidden.              *)
(***************************************************************************)

\* StaysGated survives a step that commits nothing, keeps the object and its
\* cached version, and does not bring the source back.
LEMMA StaysFrame ==
    ASSUME NEW q \in Reshards, StaysGated(q), rs'[q].committed => rs[q].committed,
           rs[q].exists /\ src.serving => rs'[q].exists,
           seenRs'[q] = seenRs[q], src'.serving => src.serving
    PROVE  StaysGated(q)'
  BY DEF StaysGated

\* Steps that change no object, no shard and no routing plan; a reconcile that
\* starts reads the source from the cache.
LEMMA AdmitQuiet ==
    ASSUME AdmitInv, UNCHANGED <<rs, seenRs, src, seenSrc, plan>>,
           op' = Idle \/ op' = op \/ op'.s = seenSrc \/ (op # Idle /\ op'.s = op.s)
    PROVE  AdmitInv'
  <1>1. \A q \in Reshards : StaysGated(q)'
    BY StaysFrame DEF AdmitInv
  <1> QED
    BY <1>1 DEF AdmitInv

\* The write of one reshard, by a reconcile that ends or keeps the source it read.
LEMMA AdmitWrite ==
    ASSUME AdmitInv, NEW r \in Reshards, \A q \in Reshards : q # r => rs'[q] = rs[q],
           UNCHANGED <<src, seenRs, seenSrc, plan>>,
           op' = Idle \/ op' = op \/ (op # Idle /\ op'.s = op.s), StaysGated(r)'
    PROVE  AdmitInv'
  <1>1. \A q \in Reshards : q # r => StaysGated(q)'
    BY StaysFrame DEF AdmitInv
  <1> QED
    BY <1>1 DEF AdmitInv

\* The steps that change no object and no shard.
LEMMA AdmitQuietActions ==
    ASSUME PromptCompile, BarrierInv, AdmitInv,
           \/ AbortReconcile \/ EndBlocked \/ EndCleanupSwitch \/ SeeRouting \/ AgentRestarts
           \/ FlipTarget \/ PublishRouting \/ CompileRouting \/ WriteRouting \/ ClientWrite
           \/ ReplaceCluster \/ UNCHANGED vars
           \/ EmitBarrier \/ ReplayBarrier \/ EmitTimesOut \/ FailFreeze \/ SkipUnfence
           \/ NothingToRelease \/ SwitchCompiled \/ UnfenceSource
           \/ \E r \in Reshards :
                 \/ DecodeBarrier(r) \/ WorkflowRestarts(r) \/ CollectTargets(r)
                 \/ DeadlinePasses(r) \/ TargetTurnsForeign(r) \/ TargetRestored(r)
                 \/ ConfirmClaim(r) \/ FenceSource(r) \/ FenceSourceFails(r)
                 \/ FailReplaced(r) \/ FailForeign(r) \/ RollBack(r)
                 \/ Cleanup(r) \/ StartSwitch(r) \/ CleanupSwitch(r)
    PROVE  AdmitInv'
  <1> USE DEF apiVars, seenVars
  <1> DEFINE Same == UNCHANGED <<rs, seenRs, src, seenSrc, plan>>
  <1>1. CASE AbortReconcile \/ EndBlocked \/ EndCleanupSwitch \/ EmitTimesOut
    BY <1>1, AdmitQuiet DEF AbortReconcile, EndBlocked, EndCleanupSwitch, EmitTimesOut
  <1>2. CASE SeeRouting \/ AgentRestarts \/ FlipTarget \/ ClientWrite \/ ReplaceCluster
    BY <1>2, AdmitQuiet DEF SeeRouting, AgentRestarts, FlipTarget, ClientWrite, ReplaceCluster
  <1>3. CASE PublishRouting \/ CompileRouting \/ WriteRouting
    <2>1. /\ UNCHANGED <<rs, seenRs, src, seenSrc, op>>
          /\ UNCHANGED plan \/ plan' = {}
      BY <1>3 DEF PublishRouting, CompileRouting, WriteRouting, PromptCompile
    <2>2. Same
      BY <2>1 DEF AdmitInv
    <2> QED
      BY <2>1, <2>2, AdmitQuiet
  <1>4. CASE UNCHANGED vars
    BY <1>4, AdmitQuiet DEF vars
  <1>5. CASE \/ EmitBarrier \/ ReplayBarrier \/ FailFreeze \/ SkipUnfence
             \/ NothingToRelease \/ SwitchCompiled \/ UnfenceSource
    <2>1. op.pc \in PCs
      BY <1>5 DEF EmitBarrier, ReplayBarrier, FailFreeze, SkipUnfence, NothingToRelease,
                  SwitchCompiled, UnfenceSource, At, PCs
    <2>2. op \in Reconciles /\ op # Idle
      BY <2>1, OpFields DEF BarrierInv
    <2>3. Same
      BY <1>5 DEF EmitBarrier, ReplayBarrier, FailFreeze, SkipUnfence, NothingToRelease,
                  SwitchCompiled, UnfenceSource
    <2>4. op'.s = op.s
      BY <1>5, <2>2 DEF EmitBarrier, ReplayBarrier, FailFreeze, SkipUnfence, NothingToRelease,
                        SwitchCompiled, UnfenceSource, Reconciles
    <2> QED
      BY <2>2, <2>3, <2>4, AdmitQuiet
  <1>6. ASSUME NEW r \in Reshards,
               \/ DecodeBarrier(r) \/ WorkflowRestarts(r) \/ CollectTargets(r)
               \/ DeadlinePasses(r) \/ TargetTurnsForeign(r) \/ TargetRestored(r)
               \/ FenceSourceFails(r)
        PROVE  AdmitInv'
    BY <1>6, AdmitQuiet DEF DecodeBarrier, WorkflowRestarts, CollectTargets, DeadlinePasses,
       TargetTurnsForeign, TargetRestored, FenceSourceFails
  <1>7. ASSUME NEW r \in Reshards,
               \/ ConfirmClaim(r) \/ FenceSource(r) \/ FailReplaced(r) \/ FailForeign(r)
               \/ RollBack(r) \/ Cleanup(r) \/ StartSwitch(r) \/ CleanupSwitch(r)
        PROVE  AdmitInv'
    <2>1. Same
      BY <1>7 DEF ConfirmClaim, FenceSource, FailReplaced, FailForeign, RollBack, Cleanup,
                  StartSwitch, CleanupSwitch
    <2>2. \E kind, pc : Starting(r, kind, pc)
      BY <1>7 DEF ConfirmClaim, FenceSource, FailReplaced, FailForeign, RollBack, Cleanup,
                  StartSwitch, CleanupSwitch
    <2>3. op'.s = seenSrc
      BY <2>1, <2>2, StartView
    <2> QED
      BY <2>1, <2>3, AdmitQuiet
  <1> QED
    BY <1>1, <1>2, <1>3, <1>4, <1>5, <1>6, <1>7

\* The steps that change the source, and the informers: a hidden source stays hidden.
LEMMA AdmitShardSteps ==
    ASSUME BarrierInv, AdmitInv,
           \/ ReleaseClaim \/ HideSource \/ SeeShards
           \/ \E r \in Reshards : ClaimSource(r) \/ SeeReshard(r)
    PROVE  AdmitInv'
  <1> USE DEF apiVars, seenVars
  <1>1. TypeOK /\ src \in SourceShard
    BY DEF BarrierInv, TypeOK
  <1>2. ASSUME UNCHANGED <<rs, seenRs, plan>>, src'.serving => src.serving,
               seenSrc' \in {seenSrc, src}, op' # Idle /\ src'.serving => op'.s.serving
        PROVE  AdmitInv'
    <2>1. \A q \in Reshards : StaysGated(q)'
      BY <1>2, StaysFrame DEF AdmitInv
    <2> QED
      BY <1>2, <2>1 DEF AdmitInv
  <1>3. CASE ReleaseClaim
    <2>1. op \in Reconciles /\ op # Idle
      <3>1. op.pc \in PCs
        BY <1>3 DEF ReleaseClaim, At, PCs
      <3> QED
        BY <1>1, <3>1, OpFields
    <2>2. UNCHANGED <<rs, seenRs, seenSrc, plan>> /\ op.s = src
      BY <1>3 DEF ReleaseClaim
    <2>3. src'.serving = src.serving
      BY <1>1, <1>3 DEF ReleaseClaim, SourceShard
    <2>4. op'.s.serving = op.s.serving
      <3>1. op'.s = [op.s EXCEPT !.claim = NoReshard]
        BY <1>3, <2>1 DEF ReleaseClaim, Reconciles
      <3> QED
        BY <1>1, <2>2, <3>1 DEF SourceShard
    <2> QED
      BY <1>2, <2>1, <2>2, <2>3, <2>4 DEF AdmitInv
  <1>4. CASE HideSource
    <2>1. op \in Reconciles /\ op # Idle
      <3>1. op.pc \in PCs
        BY <1>4 DEF HideSource, At, PCs
      <3> QED
        BY <1>1, <3>1, OpFields
    <2>2. UNCHANGED <<rs, seenRs, seenSrc, plan>>
      BY <1>4 DEF HideSource
    <2>3. ~ src'.serving
      <3>1. CASE op.s.serving
        BY <1>1, <1>4, <3>1 DEF HideSource, SourceShard
      <3>2. CASE ~ op.s.serving
        BY <1>4, <2>1, <3>2 DEF HideSource, AdmitInv
      <3> QED
        BY <3>1, <3>2
    <2> QED
      BY <1>2, <2>2, <2>3
  <1>5. CASE SeeShards
    BY <1>2, <1>5 DEF SeeShards, AdmitInv
  <1>6. ASSUME NEW r \in Reshards, ClaimSource(r) PROVE AdmitInv'
    <2>1. UNCHANGED <<rs, seenRs, seenSrc, plan>> /\ op'.s = seenSrc
      BY <1>6 DEF ClaimSource, Starting
    <2>2. src'.serving = src.serving
      BY <1>1, <1>6 DEF ClaimSource, SourceShard
    <2> QED
      BY <1>2, <2>1, <2>2 DEF AdmitInv
  <1>7. ASSUME NEW r \in Reshards, SeeReshard(r) PROVE AdmitInv'
    <2>1. /\ UNCHANGED <<rs, src, seenSrc, plan, op>>
          /\ seenRs' = [seenRs EXCEPT ![r] = rs[r]]
      BY <1>7 DEF SeeReshard
    <2>2. /\ seenRs'[r] = rs[r]
          /\ \A q \in Reshards : q # r => seenRs'[q] = seenRs[q]
      BY <1>1, <2>1 DEF TypeOK
    <2>3. \A q \in Reshards : q # r => StaysGated(q)'
      BY <2>1, <2>2, StaysFrame DEF AdmitInv
    <2>4. StaysGated(r)'
      BY <2>1, <2>2 DEF AdmitInv, StaysGated
    <2> QED
      BY <2>1, <2>3, <2>4 DEF AdmitInv
  <1> QED
    BY <1>3, <1>4, <1>5, <1>6, <1>7

\* The writes of the queue and of a reconcile that keep the object and its commit.
LEMMA AdmitStatusWrites ==
    ASSUME BarrierInv, AdmitInv, NEW r \in Reshards,
           \/ ReachReady(r) \/ FailSeeding(r) \/ AddClaimFinalizer(r)
           \/ ObserveGate(r) \/ RecordFence(r)
           \/ /\ r = op.r
              /\ \/ OpenWindow \/ RecordBarrier \/ RecordFailed \/ RecordRollBack
                 \/ RecordSwitched \/ ClearGate \/ RecordUnfence
    PROVE  AdmitInv'
  <1> USE DEF seenVars
  <1>1. /\ rs \in [Reshards -> ReshardObject]
        /\ rs[r] \in ReshardObject
        /\ TypeOK
    BY DEF BarrierInv, TypeOK
  <1> DEFINE Others == \A q \in Reshards : q # r => rs'[q] = rs[q]
             Keeps == rs'[r].committed = rs[r].committed /\ rs'[r].exists = rs[r].exists
             Same == UNCHANGED <<src, seenRs, seenSrc, plan>>
  <1>2. ASSUME Same, Others, Keeps,
               op' = Idle \/ op' = op \/ (op # Idle /\ op'.s = op.s)
        PROVE  AdmitInv'
    <2>1. StaysGated(r)'
      BY <1>2, StaysFrame DEF AdmitInv
    <2> QED
      BY <1>2, <2>1, AdmitWrite
  <1>3. CASE ReachReady(r) \/ FailSeeding(r) \/ AddClaimFinalizer(r)
    <2>1. Same /\ op' = op /\ Others
      BY <1>1, <1>3 DEF ReachReady, FailSeeding, AddClaimFinalizer
    <2>2. Keeps
      <3>1. \/ \E p \in Phases : rs'[r] = [rs[r] EXCEPT !.phase = p]
            \/ rs'[r] = [rs[r] EXCEPT !.claimFin = TRUE]
        BY <1>1, <1>3 DEF ReachReady, FailSeeding, AddClaimFinalizer, Phases
      <3> QED
        BY <1>1, <3>1 DEF ReshardObject
    <2> QED
      BY <1>2, <2>1, <2>2
  <1>4. CASE ObserveGate(r) \/ RecordFence(r)
    <2>1. Same /\ op' = op /\ Others
      BY <1>1, <1>4 DEF ObserveGate, RecordFence
    <2>2. Keeps
      <3>1. rs'[r] = [rs[r] EXCEPT !.observed = TRUE] \/ rs'[r] = [rs[r] EXCEPT !.fenced = TRUE]
        BY <1>1, <1>4 DEF ObserveGate, RecordFence
      <3> QED
        BY <1>1, <3>1 DEF ReshardObject
    <2> QED
      BY <1>2, <2>1, <2>2
  <1>5. ASSUME r = op.r, OpenWindow \/ RecordBarrier \/ RecordFailed PROVE AdmitInv'
    <2>1. Same /\ op' = Idle /\ Others
      BY <1>1, <1>5 DEF OpenWindow, RecordBarrier, RecordFailed
    <2>2. Keeps
      <3>1. \/ rs'[r] = [rs[r] EXCEPT !.gate = TRUE, !.phase = "CuttingOver"]
            \/ rs'[r] = [rs[r] EXCEPT !.frozen = op.lsn]
            \/ rs'[r] = [rs[r] EXCEPT !.phase = "Failed"]
        BY <1>1, <1>5 DEF OpenWindow, RecordBarrier, RecordFailed
      <3> QED
        BY <1>1, <3>1 DEF ReshardObject
    <2> QED
      BY <1>2, <2>1, <2>2
  <1>6. ASSUME r = op.r, RecordRollBack \/ RecordSwitched PROVE AdmitInv'
    <2>1. Same /\ op' = Idle /\ Others
      BY <1>1, <1>6 DEF RecordRollBack, RecordSwitched
    <2>2. Keeps
      <3>1. \/ rs'[r] = [rs[r] EXCEPT !.fenced = FALSE, !.gate = FALSE, !.observed = FALSE,
                            !.frozen = 0, !.attempt = rs[r].attempt + 1, !.phase = "CatchingUp"]
            \/ rs'[r] = [rs[r] EXCEPT !.gate = FALSE, !.phase = "SwitchedForward"]
        BY <1>1, <1>6 DEF RecordRollBack, RecordSwitched
      <3> QED
        BY <1>1, <3>1 DEF ReshardObject
    <2> QED
      BY <1>2, <2>1, <2>2
  <1>7. ASSUME r = op.r, ClearGate \/ RecordUnfence PROVE AdmitInv'
    <2>1. op \in Reconciles /\ op # Idle
      <3>1. op.pc \in PCs
        BY <1>7 DEF ClearGate, RecordUnfence, At, PCs
      <3> QED
        BY <1>1, <3>1, OpFields
    <2>2. Same /\ Others
      BY <1>1, <1>7 DEF ClearGate, RecordUnfence
    <2>3. Keeps
      <3>1. rs'[r] = [rs[r] EXCEPT !.gate = FALSE] \/ rs'[r] = [rs[r] EXCEPT !.fenced = FALSE]
        BY <1>1, <1>7 DEF ClearGate, RecordUnfence
      <3> QED
        BY <1>1, <3>1 DEF ReshardObject
    <2>4. op'.s = op.s
      BY <1>7, <2>1 DEF ClearGate, RecordUnfence, Reconciles
    <2> QED
      BY <1>2, <2>1, <2>2, <2>3, <2>4
  <1> QED
    BY <1>3, <1>4, <1>5, <1>6, <1>7

\* The commit finds the gate in the cache; the object of a committed switch goes
\* only once the source is hidden.
LEMMA AdmitObjectWrites ==
    ASSUME BarrierInv, FenceInv, AdmitInv, NEW r \in Reshards,
           \/ CommitSwitch(r) \/ SyncGateFinalizer(r) \/ DeleteReshard(r)
           \/ r = op.r /\ RemoveClaimFinalizer
    PROVE  AdmitInv'
  <1> USE DEF seenVars
  <1>1. /\ rs \in [Reshards -> ReshardObject]
        /\ rs[r] \in ReshardObject
        /\ TypeOK
        /\ StaysGated(r)
        /\ SeenSound(r)
        /\ Finalized(r)
    BY DEF BarrierInv, FenceInv, AdmitInv, TypeOK, Steady
  <1>2. /\ UNCHANGED <<src, seenRs, seenSrc, plan>>
        /\ op' = Idle \/ op' = op
        /\ \A q \in Reshards : q # r => rs'[q] = rs[q]
    BY <1>1 DEF CommitSwitch, SyncGateFinalizer, DeleteReshard, RemoveClaimFinalizer
  <1>3. ASSUME StaysGated(r)' PROVE AdmitInv'
    BY <1>2, <1>3, AdmitWrite
  <1>4. CASE CommitSwitch(r)
    <2>1. /\ seenRs[r].exists
          /\ ~ seenRs[r].deleting
          /\ seenRs[r].phase = "CuttingOver"
          /\ seenRs[r] = rs[r]
      BY <1>4 DEF CommitSwitch, InWindow, Reconciling, Current
    <2>2. seenRs[r].gate
      BY <1>1, <2>1 DEF SeenSound
    <2>3. rs'[r].exists = rs[r].exists
      BY <1>1, <1>4 DEF CommitSwitch, ReshardObject
    <2>4. StaysGated(r)'
      BY <1>2, <2>1, <2>2, <2>3 DEF StaysGated
    <2> QED
      BY <1>3, <2>4
  <1>5. ASSUME rs'[r].committed = rs[r].committed,
               rs[r].committed /\ rs[r].exists /\ src.serving => rs'[r].exists
        PROVE  AdmitInv'
    <2>1. StaysGated(r)'
      BY <1>1, <1>2, <1>5 DEF StaysGated
    <2> QED
      BY <1>3, <2>1
  <1>6. CASE SyncGateFinalizer(r)
    <2>1. rs'[r] = [rs[r] EXCEPT !.gateFin = Holding(r),
                       !.exists = ~ rs[r].deleting \/ rs[r].claimFin \/ Holding(r)]
      BY <1>1, <1>6 DEF SyncGateFinalizer
    <2>2. /\ rs'[r].committed = rs[r].committed
          /\ rs'[r].exists = (~ rs[r].deleting \/ rs[r].claimFin \/ Holding(r))
      BY <1>1, <2>1 DEF ReshardObject
    <2>3. rs[r].committed /\ src.serving => Holding(r)
      BY <1>6 DEF SyncGateFinalizer, Current, Holding, AdmitInv
    <2> QED
      BY <1>5, <2>2, <2>3
  <1>7. CASE DeleteReshard(r)
    <2>1. rs'[r] = [rs[r] EXCEPT !.deleting = TRUE, !.exists = rs[r].claimFin \/ rs[r].gateFin]
      BY <1>1, <1>7 DEF DeleteReshard
    <2>2. /\ rs'[r].committed = rs[r].committed
          /\ rs'[r].exists = (rs[r].claimFin \/ rs[r].gateFin)
      BY <1>1, <2>1 DEF ReshardObject
    <2>3. rs[r].committed => rs[r].claimFin
      BY <1>1, <1>7 DEF DeleteReshard, Finalized
    <2> QED
      BY <1>5, <2>2, <2>3
  <1>8. ASSUME r = op.r, RemoveClaimFinalizer PROVE AdmitInv'
    <2>1. op.pc \in PCs /\ Unchanged(op.r) /\ op.kind = "cleanup"
      BY <1>8 DEF RemoveClaimFinalizer, At, PCs
    <2>2. op # Idle /\ op.v = rs[r] /\ CleanupSound
      BY <1>8, <2>1, OpWrite DEF ReconcileSound
    <2>3. rs[r].committed => ~ src.serving
      BY <2>1, <2>2 DEF CleanupSound, AdmitInv
    <2>4. rs'[r].committed = rs[r].committed
      BY <1>1, <1>8 DEF RemoveClaimFinalizer, ReshardObject
    <2> QED
      BY <1>5, <2>3, <2>4
  <1> QED
    BY <1>4, <1>6, <1>7, <1>8

\* The invariant holds initially.
LEMMA AdmitInit == Init => AdmitInv
  <1> SUFFICES ASSUME Init PROVE AdmitInv
    OBVIOUS
  <1>1. \A r \in Reshards : rs[r] = FreshReshard
    BY DEF Init
  <1>2. ~ FreshReshard.committed
    BY DEF FreshReshard
  <1>3. plan = {} /\ op = Idle /\ seenSrc = src
    BY DEF Init
  <1> QED
    BY <1>1, <1>2, <1>3 DEF AdmitInv, StaysGated

\* Every step keeps it.
LEMMA AdmitStep ==
    ASSUME PromptCompile, BarrierInv, FenceInv, AdmitInv, [Next]_vars
    PROVE  AdmitInv'
  <1>1. ASSUME NEW r \in Reshards, ReshardStep(r) PROVE AdmitInv'
    BY <1>1, AdmitStatusWrites, AdmitObjectWrites, AdmitShardSteps, AdmitQuietActions
       DEF ReshardStep
  <1>2. CASE OpStep
    <2>1. CASE \/ OpenWindow \/ RecordBarrier \/ RecordFailed \/ RecordRollBack \/ RecordSwitched
               \/ RemoveClaimFinalizer \/ ClearGate \/ RecordUnfence
      <3>1. op.pc \in PCs
        BY <2>1 DEF OpenWindow, RecordBarrier, RecordFailed, RecordRollBack, RecordSwitched,
                    RemoveClaimFinalizer, ClearGate, RecordUnfence, At, PCs
      <3>2. op.r \in Reshards
        BY <3>1, OpFields DEF BarrierInv
      <3> QED
        BY <2>1, <3>2, AdmitStatusWrites, AdmitObjectWrites
    <2> QED
      BY <1>2, <2>1, AdmitQuietActions, AdmitShardSteps DEF OpStep
  <1>3. CASE RoutingStep
    BY <1>3, AdmitQuietActions, AdmitObjectWrites DEF RoutingStep
  <1>4. CASE EnvironmentStep
    BY <1>4, AdmitQuietActions, AdmitShardSteps, AdmitObjectWrites DEF EnvironmentStep
  <1>5. CASE UNCHANGED vars
    BY <1>5, AdmitQuietActions
  <1> QED
    BY <1>1, <1>2, <1>3, <1>4, <1>5 DEF Next

\* Only the routing controller writes the routing.
LEMMA RoutingWriters ==
    ASSUME [Next]_vars, routing' # routing
    PROVE  PublishRouting \/ WriteRouting
  <1> USE DEF apiVars
  <1>1. \A r \in Reshards : ReshardStep(r) => UNCHANGED routing
    BY DEF ReshardStep, ReachReady, FailSeeding, AddClaimFinalizer, ClaimSource, ConfirmClaim,
       ObserveGate, RecordFence, FenceSource, FenceSourceFails, CommitSwitch, FailReplaced,
       FailForeign, RollBack, Cleanup, StartSwitch, CleanupSwitch
  <1>2. OpStep => UNCHANGED routing
    BY DEF OpStep, OpenWindow, EmitBarrier, ReplayBarrier, EmitTimesOut, RecordBarrier,
       FailFreeze, ClearGate, UnfenceSource, SkipUnfence, RecordUnfence, ReleaseClaim,
       NothingToRelease, RecordFailed, RecordRollBack, RemoveClaimFinalizer, FlipTarget,
       HideSource, SwitchCompiled, RecordSwitched, EndCleanupSwitch, EndBlocked
  <1>3. EnvironmentStep => UNCHANGED routing
    BY DEF EnvironmentStep, AbortReconcile, SeeShards, SeeRouting, ReplaceCluster,
       AgentRestarts, ClientWrite, SeeReshard, DeadlinePasses, DeleteReshard,
       TargetTurnsForeign, TargetRestored, CollectTargets, DecodeBarrier, WorkflowRestarts
  <1>4. RoutingStep => PublishRouting \/ WriteRouting \/ UNCHANGED routing
    BY DEF RoutingStep, CompileRouting, SyncGateFinalizer
  <1>5. UNCHANGED vars => UNCHANGED routing
    BY DEF vars
  <1> QED
    BY <1>1, <1>2, <1>3, <1>4, <1>5 DEF Next

\* A routing published while the source of a committed switch serves gates it.
LEMMA PublishesGated ==
    ASSUME BarrierInv, FenceInv, AdmitInv, [Next]_vars, routing' # routing,
           NEW r \in Reshards, rs[r].committed, src.serving
    PROVE  r \in routing'.gates
  <1>1. PublishRouting
    <2>1. ~ WriteRouting
      BY DEF WriteRouting, AdmitInv
    <2> QED
      BY <2>1, RoutingWriters
  <1>2. PICK x \in Routing : Compiled(x) /\ routing' = x
    BY <1>1 DEF PublishRouting
  <1>3. seenRs[r].exists /\ seenSrc.serving
    BY DEF AdmitInv, StaysGated, FenceInv, Steady, SeenSound
  <1>4. seenRs[r].gate
    BY <1>2, <1>3 DEF Compiled, Refused, AdmitInv, StaysGated
  <1> QED
    BY <1>2, <1>3, <1>4 DEF Compiled

\* BarrierInv, FenceInv and AdmitInv hold in every reachable state.
THEOREM CutoverInvHolds ==
    ASSUME PermanentCauses, PromptCompile
    PROVE  Spec => []CutoverInv
  <1>1. BarrierInv /\ FenceInv /\ AdmitInv /\ [Next]_vars => AdmitInv'
    BY AdmitStep
  <1>2. BarrierInv /\ FenceInv /\ AdmitInv => CutoverInv
    BY DEF CutoverInv
  <1> QED
    BY <1>1, <1>2, BarrierInvariant, FenceInvariant, AdmitInit, PTL DEF Spec

\* While the source of a committed switch serves, every routing that is published
\* carries the switch's gate: clients are never readmitted to the old shard.
THEOREM CommittedNeverReadmitted ==
    ASSUME PermanentCauses, PromptCompile
    PROVE  Spec => NeverReadmitted
  <1>1. CutoverInv /\ [Next]_vars =>
           [\A r \in Reshards :
               Committed(r) /\ src.serving /\ routing' # routing => r \in routing'.gates]_vars
    BY PublishesGated DEF CutoverInv, Committed
  <1> QED
    BY <1>1, CutoverInvHolds, PTL DEF Spec, NeverReadmitted
=============================================================================
