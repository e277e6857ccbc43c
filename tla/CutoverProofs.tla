---------------------------- MODULE CutoverProofs ----------------------------
(***************************************************************************)
(* Proofs about Cutover: type correctness, the inductive invariant of      *)
(* CutoverInvariant, and the safety properties that follow from it.        *)
(*                                                                         *)
(* The records of the model are opaque in most proofs: the lemmas of the   *)
(* first part say once what an update does to the fields of a reshard, and *)
(* the Frame lemmas which conjuncts of the invariant a step leaves alone.  *)
(***************************************************************************)
EXTENDS CutoverInvariant, TLAPS

\* Leaves are for Zenon, unless they name another prover.
USE ZenonT(60)

-----------------------------------------------------------------------------
(***************************************************************************)
(* What the writes of a reshard object change.                             *)
(***************************************************************************)

\* The fields of a reshard object have their types.
LEMMA ReshardFields ==
    ASSUME NEW o \in ReshardObject
    PROVE  /\ o.attempt \in Attempts
           /\ o.phase \in Phases
           /\ o.frozen \in Nat
           /\ o.exists \in BOOLEAN
           /\ o.deleting \in BOOLEAN
           /\ o.claimFin \in BOOLEAN
           /\ o.gateFin \in BOOLEAN
           /\ o.gate \in BOOLEAN
           /\ o.observed \in BOOLEAN
           /\ o.fenced \in BOOLEAN
           /\ o.committed \in BOOLEAN
  BY DEF ReshardObject

\* A write of r leaves every other reshard alone.
OnlyWrites(r) ==
    /\ rs' \in [Reshards -> ReshardObject]
    /\ \A q \in Reshards \ {r} : rs'[q] = rs[q]

\* No reshard changes in a field that the invariant depends on.
SameCore ==
    \A q \in Reshards :
        /\ rs'[q].deleting = rs[q].deleting
        /\ rs'[q].phase = rs[q].phase
        /\ rs'[q].attempt = rs[q].attempt
        /\ rs'[q].gate = rs[q].gate
        /\ rs'[q].fenced = rs[q].fenced
        /\ rs'[q].frozen = rs[q].frozen
        /\ rs'[q].committed = rs[q].committed

\* A write of the phase.
LEMMA PhaseWrite ==
    ASSUME TypeOK, NEW r \in Reshards, NEW p \in Phases,
           rs' = [rs EXCEPT ![r].phase = p]
    PROVE  /\ OnlyWrites(r)
           /\ rs'[r].deleting = rs[r].deleting
           /\ rs'[r].phase = p
           /\ rs'[r].attempt = rs[r].attempt
           /\ rs'[r].gate = rs[r].gate
           /\ rs'[r].fenced = rs[r].fenced
           /\ rs'[r].frozen = rs[r].frozen
           /\ rs'[r].committed = rs[r].committed
  <1>1. rs[r] \in ReshardObject
    BY DEF TypeOK
  <1>2. /\ rs'[r] = [rs[r] EXCEPT !.phase = p]
        /\ DOMAIN rs' = Reshards
        /\ \A q \in Reshards \ {r} : rs'[q] = rs[q]
    BY DEF TypeOK
  <1>3. rs'[r] \in ReshardObject
    BY <1>1, <1>2 DEF ReshardObject
  <1>4. OnlyWrites(r)
    BY <1>2, <1>3 DEF TypeOK, OnlyWrites
  <1> QED
    BY <1>1, <1>2, <1>4 DEF ReshardObject

\* A write of SourceFenced.
LEMMA FencedWrite ==
    ASSUME TypeOK, NEW r \in Reshards, NEW b \in BOOLEAN,
           rs' = [rs EXCEPT ![r].fenced = b]
    PROVE  /\ OnlyWrites(r)
           /\ rs'[r].deleting = rs[r].deleting
           /\ rs'[r].phase = rs[r].phase
           /\ rs'[r].attempt = rs[r].attempt
           /\ rs'[r].gate = rs[r].gate
           /\ rs'[r].fenced = b
           /\ rs'[r].frozen = rs[r].frozen
           /\ rs'[r].committed = rs[r].committed
  <1>1. rs[r] \in ReshardObject
    BY DEF TypeOK
  <1>2. /\ rs'[r] = [rs[r] EXCEPT !.fenced = b]
        /\ DOMAIN rs' = Reshards
        /\ \A q \in Reshards \ {r} : rs'[q] = rs[q]
    BY DEF TypeOK
  <1>3. rs'[r] \in ReshardObject
    BY <1>1, <1>2 DEF ReshardObject
  <1>4. OnlyWrites(r)
    BY <1>2, <1>3 DEF TypeOK, OnlyWrites
  <1> QED
    BY <1>1, <1>2, <1>4 DEF ReshardObject

\* A write of FrozenLSN.
LEMMA FrozenWrite ==
    ASSUME TypeOK, NEW r \in Reshards, NEW n \in Nat,
           rs' = [rs EXCEPT ![r].frozen = n]
    PROVE  /\ OnlyWrites(r)
           /\ rs'[r].deleting = rs[r].deleting
           /\ rs'[r].phase = rs[r].phase
           /\ rs'[r].attempt = rs[r].attempt
           /\ rs'[r].gate = rs[r].gate
           /\ rs'[r].fenced = rs[r].fenced
           /\ rs'[r].frozen = n
           /\ rs'[r].committed = rs[r].committed
  <1>1. rs[r] \in ReshardObject
    BY DEF TypeOK
  <1>2. /\ rs'[r] = [rs[r] EXCEPT !.frozen = n]
        /\ DOMAIN rs' = Reshards
        /\ \A q \in Reshards \ {r} : rs'[q] = rs[q]
    BY DEF TypeOK
  <1>3. rs'[r] \in ReshardObject
    BY <1>1, <1>2 DEF ReshardObject
  <1>4. OnlyWrites(r)
    BY <1>2, <1>3 DEF TypeOK, OnlyWrites
  <1> QED
    BY <1>1, <1>2, <1>4 DEF ReshardObject

\* A write of SwitchCommitted.
LEMMA CommittedWrite ==
    ASSUME TypeOK, NEW r \in Reshards,
           rs' = [rs EXCEPT ![r].committed = TRUE]
    PROVE  /\ OnlyWrites(r)
           /\ rs'[r].deleting = rs[r].deleting
           /\ rs'[r].phase = rs[r].phase
           /\ rs'[r].attempt = rs[r].attempt
           /\ rs'[r].gate = rs[r].gate
           /\ rs'[r].fenced = rs[r].fenced
           /\ rs'[r].frozen = rs[r].frozen
           /\ rs'[r].committed = TRUE
  <1>1. rs[r] \in ReshardObject
    BY DEF TypeOK
  <1>2. /\ rs'[r] = [rs[r] EXCEPT !.committed = TRUE]
        /\ DOMAIN rs' = Reshards
        /\ \A q \in Reshards \ {r} : rs'[q] = rs[q]
    BY DEF TypeOK
  <1>3. rs'[r] \in ReshardObject
    BY <1>1, <1>2 DEF ReshardObject
  <1>4. OnlyWrites(r)
    BY <1>2, <1>3 DEF TypeOK, OnlyWrites
  <1> QED
    BY <1>1, <1>2, <1>4 DEF ReshardObject

\* A write of CutoverGateDeadline.
LEMMA GateWrite ==
    ASSUME TypeOK, NEW r \in Reshards, NEW b \in BOOLEAN,
           rs' = [rs EXCEPT ![r].gate = b]
    PROVE  /\ OnlyWrites(r)
           /\ rs'[r].deleting = rs[r].deleting
           /\ rs'[r].phase = rs[r].phase
           /\ rs'[r].attempt = rs[r].attempt
           /\ rs'[r].gate = b
           /\ rs'[r].fenced = rs[r].fenced
           /\ rs'[r].frozen = rs[r].frozen
           /\ rs'[r].committed = rs[r].committed
  <1>1. rs[r] \in ReshardObject
    BY DEF TypeOK
  <1>2. /\ rs'[r] = [rs[r] EXCEPT !.gate = b]
        /\ DOMAIN rs' = Reshards
        /\ \A q \in Reshards \ {r} : rs'[q] = rs[q]
    BY DEF TypeOK
  <1>3. rs'[r] \in ReshardObject
    BY <1>1, <1>2 DEF ReshardObject
  <1>4. OnlyWrites(r)
    BY <1>2, <1>3 DEF TypeOK, OnlyWrites
  <1> QED
    BY <1>1, <1>2, <1>4 DEF ReshardObject

\* A write of CutoverGateDeadline with the phase.
LEMMA GatePhaseWrite ==
    ASSUME TypeOK, NEW r \in Reshards, NEW b \in BOOLEAN, NEW p \in Phases,
           rs' = [rs EXCEPT ![r] = [@ EXCEPT !.gate = b, !.phase = p]]
    PROVE  /\ OnlyWrites(r)
           /\ rs'[r].deleting = rs[r].deleting
           /\ rs'[r].phase = p
           /\ rs'[r].attempt = rs[r].attempt
           /\ rs'[r].gate = b
           /\ rs'[r].fenced = rs[r].fenced
           /\ rs'[r].frozen = rs[r].frozen
           /\ rs'[r].committed = rs[r].committed
  <1>1. rs[r] \in ReshardObject
    BY DEF TypeOK
  <1>2. /\ rs'[r] = [rs[r] EXCEPT !.gate = b, !.phase = p]
        /\ DOMAIN rs' = Reshards
        /\ \A q \in Reshards \ {r} : rs'[q] = rs[q]
    BY DEF TypeOK
  <1>3. rs'[r] \in ReshardObject
    BY <1>1, <1>2 DEF ReshardObject
  <1>4. OnlyWrites(r)
    BY <1>2, <1>3 DEF TypeOK, OnlyWrites
  <1> QED
    BY <1>1, <1>2, <1>4 DEF ReshardObject

\* The deletion timestamp.
LEMMA DeletingWrite ==
    ASSUME TypeOK, NEW r \in Reshards, NEW e \in BOOLEAN,
           rs' = [rs EXCEPT ![r] = [@ EXCEPT !.deleting = TRUE, !.exists = e]]
    PROVE  /\ OnlyWrites(r)
           /\ rs'[r].deleting = TRUE
           /\ rs'[r].phase = rs[r].phase
           /\ rs'[r].attempt = rs[r].attempt
           /\ rs'[r].gate = rs[r].gate
           /\ rs'[r].fenced = rs[r].fenced
           /\ rs'[r].frozen = rs[r].frozen
           /\ rs'[r].committed = rs[r].committed
  <1>1. rs[r] \in ReshardObject
    BY DEF TypeOK
  <1>2. /\ rs'[r] = [rs[r] EXCEPT !.deleting = TRUE, !.exists = e]
        /\ DOMAIN rs' = Reshards
        /\ \A q \in Reshards \ {r} : rs'[q] = rs[q]
    BY DEF TypeOK
  <1>3. rs'[r] \in ReshardObject
    BY <1>1, <1>2, ZenonT(60) DEF ReshardObject
  <1>4. OnlyWrites(r)
    BY <1>2, <1>3 DEF TypeOK, OnlyWrites
  <1> QED
    BY <1>1, <1>2, <1>4 DEF ReshardObject

\* The claim finalizer is added.
LEMMA ClaimFinWrite ==
    ASSUME TypeOK, NEW r \in Reshards,
           rs' = [rs EXCEPT ![r].claimFin = TRUE]
    PROVE  /\ OnlyWrites(r)
           /\ SameCore
  <1>1. rs[r] \in ReshardObject
    BY DEF TypeOK
  <1>2. /\ rs'[r] = [rs[r] EXCEPT !.claimFin = TRUE]
        /\ DOMAIN rs' = Reshards
        /\ \A q \in Reshards \ {r} : rs'[q] = rs[q]
    BY DEF TypeOK
  <1>3. rs'[r] \in ReshardObject
    BY <1>1, <1>2 DEF ReshardObject
  <1>4. OnlyWrites(r)
    BY <1>2, <1>3 DEF TypeOK, OnlyWrites
  <1> QED
    BY <1>1, <1>2, <1>4 DEF ReshardObject, SameCore

\* A write of GateObservedAt.
LEMMA ObservedWrite ==
    ASSUME TypeOK, NEW r \in Reshards,
           rs' = [rs EXCEPT ![r].observed = TRUE]
    PROVE  /\ OnlyWrites(r)
           /\ SameCore
  <1>1. rs[r] \in ReshardObject
    BY DEF TypeOK
  <1>2. /\ rs'[r] = [rs[r] EXCEPT !.observed = TRUE]
        /\ DOMAIN rs' = Reshards
        /\ \A q \in Reshards \ {r} : rs'[q] = rs[q]
    BY DEF TypeOK
  <1>3. rs'[r] \in ReshardObject
    BY <1>1, <1>2 DEF ReshardObject
  <1>4. OnlyWrites(r)
    BY <1>2, <1>3 DEF TypeOK, OnlyWrites
  <1> QED
    BY <1>1, <1>2, <1>4 DEF ReshardObject, SameCore

\* The claim finalizer is removed.
LEMMA ClaimFinRemoval ==
    ASSUME TypeOK, NEW r \in Reshards, NEW e \in BOOLEAN,
           rs' = [rs EXCEPT ![r] = [@ EXCEPT !.claimFin = FALSE, !.exists = e]]
    PROVE  /\ OnlyWrites(r)
           /\ SameCore
  <1>1. rs[r] \in ReshardObject
    BY DEF TypeOK
  <1>2. /\ rs'[r] = [rs[r] EXCEPT !.claimFin = FALSE, !.exists = e]
        /\ DOMAIN rs' = Reshards
        /\ \A q \in Reshards \ {r} : rs'[q] = rs[q]
    BY DEF TypeOK
  <1>3. rs'[r] \in ReshardObject
    BY <1>1, <1>2, ZenonT(60) DEF ReshardObject
  <1>4. OnlyWrites(r)
    BY <1>2, <1>3 DEF TypeOK, OnlyWrites
  <1> QED
    BY <1>1, <1>2, <1>4 DEF ReshardObject, SameCore

\* The gate finalizer is added or removed.
LEMMA GateFinWrite ==
    ASSUME TypeOK, NEW r \in Reshards, NEW b \in BOOLEAN, NEW e \in BOOLEAN,
           rs' = [rs EXCEPT ![r] = [@ EXCEPT !.gateFin = b, !.exists = e]]
    PROVE  /\ OnlyWrites(r)
           /\ SameCore
  <1>1. rs[r] \in ReshardObject
    BY DEF TypeOK
  <1>2. /\ rs'[r] = [rs[r] EXCEPT !.gateFin = b, !.exists = e]
        /\ DOMAIN rs' = Reshards
        /\ \A q \in Reshards \ {r} : rs'[q] = rs[q]
    BY DEF TypeOK
  <1>3. rs'[r] \in ReshardObject
    BY <1>1, <1>2, ZenonT(60) DEF ReshardObject
  <1>4. OnlyWrites(r)
    BY <1>2, <1>3 DEF TypeOK, OnlyWrites
  <1> QED
    BY <1>1, <1>2, <1>4 DEF ReshardObject, SameCore

\* The write that ends a rollback.
LEMMA RollBackWrite ==
    ASSUME TypeOK, NEW r \in Reshards, NEW a \in Attempts,
           rs' = [rs EXCEPT ![r] = [@ EXCEPT
                    !.fenced = FALSE, !.gate = FALSE, !.observed = FALSE,
                    !.frozen = 0, !.attempt = a, !.phase = "CatchingUp"]]
    PROVE  /\ OnlyWrites(r)
           /\ rs'[r].deleting = rs[r].deleting
           /\ rs'[r].phase = "CatchingUp"
           /\ rs'[r].attempt = a
           /\ rs'[r].gate = FALSE
           /\ rs'[r].fenced = FALSE
           /\ rs'[r].frozen = 0
           /\ rs'[r].committed = rs[r].committed
  <1>1. rs[r] \in ReshardObject
    BY DEF TypeOK
  <1>2. /\ rs'[r] = [rs[r] EXCEPT
                       !.fenced = FALSE, !.gate = FALSE, !.observed = FALSE,
                       !.frozen = 0, !.attempt = a, !.phase = "CatchingUp"]
        /\ DOMAIN rs' = Reshards
        /\ \A q \in Reshards \ {r} : rs'[q] = rs[q]
    BY DEF TypeOK
  <1>3. rs'[r] \in ReshardObject
    BY <1>1, <1>2, ZenonT(60) DEF ReshardObject, Phases
  <1>4. OnlyWrites(r)
    BY <1>2, <1>3 DEF TypeOK, OnlyWrites
  <1> QED
    BY <1>1, <1>2, <1>4 DEF ReshardObject

-----------------------------------------------------------------------------
(***************************************************************************)
(* Type correctness.                                                       *)
(***************************************************************************)

\* The values the initial state is made of have the types of the model.
LEMMA FreshTypes ==
    /\ FreshReshard \in ReshardObject
    /\ FreshSource \in SourceShard
    /\ FreshRouting \in Routing
  <1>1. FreshReshard \in ReshardObject
    BY SMTT(60), BoundsAssumption DEF FreshReshard, ReshardObject, Phases, Attempts
  <1>2. FreshSource \in SourceShard
    BY DEF FreshSource, SourceShard
  <1>3. FreshRouting \in Routing
    BY DEF FreshRouting, Routing
  <1> QED
    BY <1>1, <1>2, <1>3

\* The initial state has the types of the model.
LEMMA TypeInit == Init => TypeOK
  <1> SUFFICES ASSUME Init PROVE TypeOK
    OBVIOUS
  <1>1. db \in Database
    BY DEF Init, Database
  <1>2. /\ tgt \in [Reshards -> 0 .. NTargets]
        /\ seenTgt \in [Reshards -> 0 .. NTargets]
    BY SMTT(60), BoundsAssumption DEF Init
  <1>3. journal \in [Reshards -> [Attempts -> Int]]
    BY SMTT(60) DEF Init, Unused
  <1> QED
    BY <1>1, <1>2, <1>3, FreshTypes, BoundsAssumption DEF Init, TypeOK

\* A reconcile that starts has the type of op.
LEMMA StartType ==
    ASSUME TypeOK, NEW r \in Reshards, NEW k \in Kinds, NEW p \in PCs, Starting(r, k, p)
    PROVE  op' \in Reconciles
  BY DEF TypeOK, Starting, Reconciles

\* The reconcile in flight at a step of its handler.
LEMMA OpFields ==
    ASSUME TypeOK, op.pc \in PCs \/ op.kind \in Kinds \/ op # Idle
    PROVE  /\ op \in Reconciles
           /\ op # Idle
           /\ op.kind \in Kinds
           /\ op.pc \in PCs
           /\ op.r \in Reshards
           /\ op.v \in ReshardObject
           /\ op.s \in SourceShard
           /\ op.lsn \in Nat
           /\ rs[op.r] \in ReshardObject
           /\ op.v.attempt \in Attempts
           /\ rs[op.r].attempt \in Attempts
  <1>1. op \in Reconciles /\ op # Idle
    BY SMTT(60) DEF TypeOK, Idle, PCs, Kinds, Reconciles
  <1>2. /\ op.kind \in Kinds
        /\ op.pc \in PCs
        /\ op.r \in Reshards
        /\ op.v \in ReshardObject
        /\ op.s \in SourceShard
        /\ op.lsn \in Nat
    BY <1>1 DEF Reconciles
  <1>3. rs[op.r] \in ReshardObject
    BY <1>2 DEF TypeOK
  <1> QED
    BY <1>1, <1>2, <1>3, ReshardFields

\* A reconcile moves to another step of its handler.
LEMMA MoveType ==
    ASSUME op \in Reconciles, NEW p \in PCs
    PROVE  /\ [op EXCEPT !.pc = p] \in Reconciles
           /\ \A n \in Nat : [op EXCEPT !.pc = p, !.lsn = n] \in Reconciles
           /\ \A k \in Kinds : [op EXCEPT !.kind = k, !.pc = p] \in Reconciles
  BY DEF Reconciles

\* The database at the next WAL position, after a barrier or a write.
LEMMA WalType ==
    ASSUME TypeOK
    PROVE  /\ db \in Database
           /\ db.lsn \in Nat
           /\ db.lsn + 1 \in Nat
           /\ db.last \in Nat
           /\ [db EXCEPT !.lsn = db.lsn + 1,
                         !.barriers = db.barriers \cup {db.lsn + 1}] \in Database
           /\ [db EXCEPT !.lsn = db.lsn + 1, !.last = db.lsn + 1] \in Database
  <1>1. db.lsn \in Nat /\ db.last \in Nat /\ db.barriers \subseteq Nat
    BY DEF TypeOK, Database
  <1>2. db.lsn + 1 \in Nat /\ db.barriers \cup {db.lsn + 1} \subseteq Nat
    BY SMTT(60), <1>1
  <1> QED
    BY <1>1, <1>2, ZenonT(60) DEF TypeOK, Database

\* Every step keeps the types of the model.
LEMMA TypeStep == TypeOK /\ [Next]_vars => TypeOK'
  <1> SUFFICES ASSUME TypeOK, [Next]_vars PROVE TypeOK'
    OBVIOUS
  <1>1. ASSUME NEW r \in Reshards, ReachReady(r) PROVE TypeOK'
    <2>1. rs' \in [Reshards -> ReshardObject]
      BY <1>1, PhaseWrite DEF OnlyWrites, Phases, ReachReady
    <2> QED
      BY <1>1, <2>1 DEF TypeOK, ReachReady, apiVars, seenVars, envVars
  <1>2. ASSUME NEW r \in Reshards, FailSeeding(r) PROVE TypeOK'
    <2>1. rs' \in [Reshards -> ReshardObject]
      BY <1>2, PhaseWrite DEF OnlyWrites, Phases, FailSeeding
    <2> QED
      BY <1>2, <2>1 DEF TypeOK, FailSeeding, apiVars, seenVars, envVars
  <1>3. ASSUME NEW r \in Reshards, AddClaimFinalizer(r) PROVE TypeOK'
    <2>1. rs' \in [Reshards -> ReshardObject]
      BY <1>3, ClaimFinWrite DEF OnlyWrites, AddClaimFinalizer
    <2> QED
      BY <1>3, <2>1 DEF TypeOK, AddClaimFinalizer, apiVars, seenVars, envVars
  <1>4. ASSUME NEW r \in Reshards, ClaimSource(r) PROVE TypeOK'
    <2>1. src' \in SourceShard
      BY <1>4 DEF TypeOK, SourceShard, ClaimSource
    <2>2. op' \in Reconciles
      BY <1>4, StartType DEF Kinds, PCs, ClaimSource
    <2> QED
      BY <1>4, <2>1, <2>2 DEF TypeOK, ClaimSource, apiVars, seenVars, envVars
  <1>5. ASSUME NEW r \in Reshards, ConfirmClaim(r) PROVE TypeOK'
    <2>1. op' \in Reconciles
      BY <1>5, StartType DEF Kinds, PCs, ConfirmClaim
    <2> QED
      BY <1>5, <2>1 DEF TypeOK, ConfirmClaim, apiVars, seenVars, envVars
  <1>6. ASSUME NEW r \in Reshards, ObserveGate(r) PROVE TypeOK'
    <2>1. rs' \in [Reshards -> ReshardObject]
      BY <1>6, ObservedWrite DEF OnlyWrites, ObserveGate
    <2> QED
      BY <1>6, <2>1 DEF TypeOK, ObserveGate, apiVars, seenVars, envVars
  <1>7. ASSUME NEW r \in Reshards, RecordFence(r) PROVE TypeOK'
    <2>1. rs' \in [Reshards -> ReshardObject]
      BY <1>7, FencedWrite DEF OnlyWrites, RecordFence
    <2> QED
      BY <1>7, <2>1 DEF TypeOK, RecordFence, apiVars, seenVars, envVars
  <1>8. ASSUME NEW r \in Reshards, FenceSource(r) PROVE TypeOK'
    <2>1. db' \in Database
      BY <1>8 DEF TypeOK, Database, FenceSource
    <2>2. op' \in Reconciles
      BY <1>8, StartType DEF Kinds, PCs, FenceSource
    <2> QED
      BY <1>8, <2>1, <2>2 DEF TypeOK, FenceSource, apiVars, seenVars, envVars
  <1>9. ASSUME NEW r \in Reshards, FenceSourceFails(r) PROVE TypeOK'
    <2>1. db' \in Database
      BY <1>9 DEF TypeOK, Database, FenceSourceFails
    <2> QED
      BY <1>9, <2>1 DEF TypeOK, FenceSourceFails, apiVars, seenVars, envVars
  <1>10. ASSUME NEW r \in Reshards, CommitSwitch(r) PROVE TypeOK'
    <2>1. rs' \in [Reshards -> ReshardObject]
      BY <1>10, CommittedWrite, ZenonT(60) DEF OnlyWrites, CommitSwitch
    <2> QED
      BY <1>10, <2>1 DEF TypeOK, CommitSwitch, apiVars, seenVars, envVars
  <1>11. ASSUME NEW r \in Reshards, FailReplaced(r) PROVE TypeOK'
    <2>1. op' \in Reconciles
      BY <1>11, StartType DEF Kinds, PCs, FailEntry, FailReplaced
    <2> QED
      BY <1>11, <2>1 DEF TypeOK, FailReplaced, apiVars, seenVars, envVars
  <1>12. ASSUME NEW r \in Reshards, FailForeign(r) PROVE TypeOK'
    <2>1. op' \in Reconciles
      BY <1>12, StartType DEF Kinds, PCs, FailEntry, FailForeign
    <2> QED
      BY <1>12, <2>1 DEF TypeOK, FailForeign, apiVars, seenVars, envVars
  <1>13. ASSUME NEW r \in Reshards, RollBack(r) PROVE TypeOK'
    <2>1. op' \in Reconciles
      BY <1>13, StartType DEF Kinds, PCs, RollBack
    <2> QED
      BY <1>13, <2>1 DEF TypeOK, RollBack, apiVars, seenVars, envVars
  <1>14. ASSUME NEW r \in Reshards, Cleanup(r) PROVE TypeOK'
    <2>1. op' \in Reconciles
      BY <1>14, StartType DEF Kinds, PCs, Cleanup
    <2> QED
      BY <1>14, <2>1 DEF TypeOK, Cleanup, apiVars, seenVars, envVars
  <1>15. ASSUME NEW r \in Reshards, StartSwitch(r) PROVE TypeOK'
    <2>1. op' \in Reconciles
      BY <1>15, StartType DEF Kinds, PCs, StartSwitch
    <2> QED
      BY <1>15, <2>1 DEF TypeOK, StartSwitch, apiVars, seenVars, envVars
  <1>16. ASSUME NEW r \in Reshards, CleanupSwitch(r) PROVE TypeOK'
    <2>1. op' \in Reconciles
      BY <1>16, StartType DEF Kinds, PCs, CleanupSwitch
    <2> QED
      BY <1>16, <2>1 DEF TypeOK, CleanupSwitch, apiVars, seenVars, envVars
  <1>17. CASE OpenWindow
    <2> op.pc \in PCs
      BY <1>17 DEF OpenWindow, At, PCs
    <2>1. rs' \in [Reshards -> ReshardObject]
      BY <1>17, GatePhaseWrite, OpFields, ZenonT(60) DEF OnlyWrites, Phases, OpenWindow
    <2> QED
      BY <1>17, <2>1 DEF TypeOK, OpenWindow, apiVars, seenVars, envVars
  <1>18. CASE EmitBarrier
    <2> op.pc \in PCs
      BY <1>18 DEF EmitBarrier, At, PCs
    <2>1. db' \in Database
      BY <1>18, WalType, OpFields DEF EmitBarrier
    <2>2. journal' \in [Reshards -> [Attempts -> Int]]
      BY SMTT(60), <1>18, OpFields, WalType DEF TypeOK, EmitBarrier
    <2>3. op' \in Reconciles
      BY <1>18, MoveType, OpFields, WalType, ZenonT(60) DEF PCs, EmitBarrier
    <2> QED
      BY <1>18, <2>1, <2>2, <2>3 DEF TypeOK, EmitBarrier, apiVars, seenVars, envVars
  <1>19. CASE ReplayBarrier
    <2> op.pc \in PCs
      BY <1>19 DEF ReplayBarrier, At, PCs
    <2>1. Slot \in Nat
      BY SMTT(60), <1>19, OpFields DEF TypeOK, Slot, ReplayBarrier
    <2>2. op' \in Reconciles
      BY <1>19, MoveType, OpFields, <2>1, ZenonT(60) DEF PCs, ReplayBarrier
    <2> QED
      BY <1>19, <2>1, <2>2 DEF TypeOK, ReplayBarrier, apiVars, seenVars, envVars
  <1>20. CASE EmitTimesOut
    <2> op.pc \in PCs
      BY <1>20 DEF EmitTimesOut, At, PCs
    <2>1. db' \in Database
      BY <1>20, WalType, OpFields DEF EmitTimesOut
    <2>2. journal' \in [Reshards -> [Attempts -> Int]]
      BY SMTT(60), <1>20, OpFields DEF TypeOK, Poisoned, EmitTimesOut
    <2> QED
      BY <1>20, <2>1, <2>2 DEF TypeOK, EmitTimesOut, apiVars, seenVars, envVars
  <1>21. CASE RecordBarrier
    <2> op.pc \in PCs
      BY <1>21 DEF RecordBarrier, At, PCs
    <2>1. rs' \in [Reshards -> ReshardObject]
      BY <1>21, FrozenWrite, OpFields, ZenonT(60) DEF OnlyWrites, RecordBarrier
    <2> QED
      BY <1>21, <2>1 DEF TypeOK, RecordBarrier, apiVars, seenVars, envVars
  <1>22. CASE FailFreeze
    <2> op.pc \in PCs
      BY <1>22 DEF FailFreeze, At, PCs
    <2>1. op' \in Reconciles
      BY <1>22, MoveType, OpFields DEF Kinds, PCs, FailEntry, FailFreeze
    <2> QED
      BY <1>22, <2>1 DEF TypeOK, FailFreeze, apiVars, seenVars, envVars
  <1>23. CASE ClearGate
    <2> op.pc \in PCs
      BY <1>23 DEF ClearGate, At, PCs
    <2>1. rs' \in [Reshards -> ReshardObject]
      BY <1>23, GateWrite, OpFields DEF OnlyWrites, ClearGate
    <2>2. [op.v EXCEPT !.gate = FALSE] \in ReshardObject
      BY <1>23, OpFields DEF ReshardObject, ClearGate
    <2>3. op' \in Reconciles
      BY <1>23, OpFields, <2>2 DEF Reconciles, PCs, ClearGate
    <2> QED
      BY <1>23, <2>1, <2>2, <2>3 DEF TypeOK, ClearGate, apiVars, seenVars, envVars
  <1>24. CASE UnfenceSource
    <2> op.pc \in PCs
      BY <1>24 DEF UnfenceSource, At, PCs
    <2>1. db' \in Database
      BY <1>24 DEF TypeOK, Database, UnfenceSource
    <2>2. op' \in Reconciles
      BY <1>24, MoveType, OpFields DEF PCs, AfterUnfence, UnfenceSource
    <2> QED
      BY <1>24, <2>1, <2>2 DEF TypeOK, UnfenceSource, apiVars, seenVars, envVars
  <1>25. CASE SkipUnfence
    <2> op.pc \in PCs
      BY <1>25 DEF SkipUnfence, At, PCs
    <2>1. op' \in Reconciles
      BY <1>25, MoveType, OpFields, ZenonT(60) DEF PCs, AfterUnfence, SkipUnfence
    <2> QED
      BY <1>25, <2>1 DEF TypeOK, SkipUnfence, apiVars, seenVars, envVars
  <1>26. CASE RecordUnfence
    <2> op.pc \in PCs
      BY <1>26 DEF RecordUnfence, At, PCs
    <2>1. rs' \in [Reshards -> ReshardObject]
      BY <1>26, FencedWrite, OpFields DEF OnlyWrites, RecordUnfence
    <2>2. [op.v EXCEPT !.fenced = FALSE] \in ReshardObject
      BY <1>26, OpFields DEF ReshardObject, RecordUnfence
    <2>3. op' \in Reconciles
      BY <1>26, OpFields, <2>2 DEF Reconciles, PCs, RecordUnfence
    <2> QED
      BY <1>26, <2>1, <2>2, <2>3 DEF TypeOK, RecordUnfence, apiVars, seenVars, envVars
  <1>27. CASE ReleaseClaim
    <2> op.pc \in PCs
      BY <1>27 DEF ReleaseClaim, At, PCs
    <2>1. src' \in SourceShard
      BY <1>27 DEF TypeOK, SourceShard, ReleaseClaim
    <2>2. [op.s EXCEPT !.claim = NoReshard] \in SourceShard
      BY <1>27, OpFields DEF SourceShard, ReleaseClaim
    <2>3. op' \in Reconciles
      BY <1>27, OpFields, <2>2, ZenonT(60) DEF Reconciles, PCs, ReleaseClaim
    <2> QED
      BY <1>27, <2>1, <2>2, <2>3 DEF TypeOK, ReleaseClaim, apiVars, seenVars, envVars
  <1>28. CASE NothingToRelease
    <2> op.pc \in PCs
      BY <1>28 DEF NothingToRelease, At, PCs
    <2>1. op' \in Reconciles
      BY <1>28, MoveType, OpFields DEF PCs, NothingToRelease
    <2> QED
      BY <1>28, <2>1 DEF TypeOK, NothingToRelease, apiVars, seenVars, envVars
  <1>29. CASE RecordFailed
    <2> op.pc \in PCs
      BY <1>29 DEF RecordFailed, At, PCs
    <2>1. rs' \in [Reshards -> ReshardObject]
      BY <1>29, PhaseWrite, OpFields, ZenonT(60) DEF OnlyWrites, Phases, RecordFailed
    <2> QED
      BY <1>29, <2>1 DEF TypeOK, RecordFailed, apiVars, seenVars, envVars
  <1>30. CASE RecordRollBack
    <2> op.pc \in PCs
      BY <1>30 DEF RecordRollBack, At, PCs
    <2>1. rs[op.r].attempt + 1 \in Attempts
      BY SMTT(60), <1>30, BoundsAssumption, OpFields DEF PCs, Attempts, RecordRollBack
    <2>2. rs' \in [Reshards -> ReshardObject]
      BY <1>30, RollBackWrite, <2>1, OpFields, ZenonT(60) DEF OnlyWrites, RecordRollBack
    <2> QED
      BY <1>30, <2>1, <2>2 DEF TypeOK, RecordRollBack, apiVars, seenVars, envVars
  <1>31. CASE RemoveClaimFinalizer
    <2> op.pc \in PCs
      BY <1>31 DEF RemoveClaimFinalizer, At, PCs
    <2>1. rs[op.r].gateFin \in BOOLEAN
      BY <1>31, OpFields, ReshardFields DEF PCs, RemoveClaimFinalizer
    <2>2. rs' \in [Reshards -> ReshardObject]
      BY <1>31, ClaimFinRemoval, <2>1, OpFields, ZenonT(60) DEF OnlyWrites, RemoveClaimFinalizer
    <2> QED
      BY <1>31, <2>1, <2>2 DEF TypeOK, RemoveClaimFinalizer, apiVars, seenVars, envVars
  <1>32. CASE FlipTarget
    <2> op.pc \in PCs
      BY <1>32 DEF FlipTarget, At, PCs
    <2>1. tgt' \in [Reshards -> 0 .. NTargets]
      BY SMTT(60), <1>32, BoundsAssumption, OpFields DEF TypeOK, FlipTarget
    <2> QED
      BY <1>32, <2>1 DEF TypeOK, FlipTarget, apiVars, seenVars, envVars
  <1>33. CASE HideSource
    <2> op.pc \in PCs
      BY <1>33 DEF HideSource, At, PCs
    <2>1. src' \in SourceShard
      BY <1>33 DEF TypeOK, SourceShard, HideSource
    <2>2. [op.s EXCEPT !.serving = FALSE] \in SourceShard
      BY <1>33, OpFields DEF SourceShard, HideSource
    <2>3. op' \in Reconciles
      BY <1>33, OpFields, <2>2 DEF Reconciles, PCs, HideSource
    <2> QED
      BY <1>33, <2>1, <2>2, <2>3 DEF TypeOK, HideSource, apiVars, seenVars, envVars
  <1>34. CASE SwitchCompiled
    <2> op.pc \in PCs
      BY <1>34 DEF SwitchCompiled, At, PCs
    <2>1. op' \in Reconciles
      BY <1>34, MoveType, OpFields DEF PCs, SwitchCompiled
    <2> QED
      BY <1>34, <2>1 DEF TypeOK, SwitchCompiled, apiVars, seenVars, envVars
  <1>35. CASE RecordSwitched
    <2> op.pc \in PCs
      BY <1>35 DEF RecordSwitched, At, PCs
    <2>1. rs' \in [Reshards -> ReshardObject]
      BY <1>35, GatePhaseWrite, OpFields, ZenonT(60) DEF OnlyWrites, Phases, RecordSwitched
    <2> QED
      BY <1>35, <2>1 DEF TypeOK, RecordSwitched, apiVars, seenVars, envVars
  <1>36. CASE EndCleanupSwitch
    BY <1>36 DEF TypeOK, EndCleanupSwitch, apiVars, seenVars, envVars
  <1>37. CASE EndBlocked
    BY <1>37 DEF TypeOK, EndBlocked, apiVars, seenVars, envVars
  <1>38. CASE PublishRouting
    BY <1>38 DEF TypeOK, PublishRouting, apiVars, seenVars, envVars
  <1>39. CASE CompileRouting
    BY <1>39 DEF TypeOK, CompileRouting, apiVars, seenVars, envVars
  <1>40. CASE WriteRouting
    BY <1>40 DEF TypeOK, WriteRouting, apiVars, seenVars, envVars
  <1>41. ASSUME NEW r \in Reshards, SyncGateFinalizer(r) PROVE TypeOK'
    <2>1. /\ Holding(r) \in BOOLEAN
            /\ (~ rs[r].deleting \/ rs[r].claimFin \/ Holding(r)) \in BOOLEAN
      BY <1>41 DEF Holding, SyncGateFinalizer
    <2>2. rs' \in [Reshards -> ReshardObject]
      BY <1>41, GateFinWrite, <2>1, ZenonT(60) DEF OnlyWrites, SyncGateFinalizer
    <2> QED
      BY <1>41, <2>1, <2>2 DEF TypeOK, SyncGateFinalizer, apiVars, seenVars, envVars
  <1>42. CASE AbortReconcile
    <2>1. aborts' \in Nat
      BY SMTT(60), <1>42 DEF TypeOK, AbortReconcile
    <2> QED
      BY <1>42, <2>1 DEF TypeOK, AbortReconcile, apiVars, seenVars, envVars
  <1>43. CASE SeeShards
    BY <1>43 DEF TypeOK, SeeShards, apiVars, seenVars, envVars
  <1>44. CASE SeeRouting
    BY <1>44 DEF TypeOK, SeeRouting, apiVars, seenVars, envVars
  <1>45. CASE ReplaceCluster
    BY <1>45 DEF TypeOK, ReplaceCluster, apiVars, seenVars, envVars
  <1>46. CASE AgentRestarts
    <2>1. journal' \in [Reshards -> [Attempts -> Int]]
      BY SMTT(60), <1>46 DEF Unused, AgentRestarts
    <2> QED
      BY <1>46, <2>1 DEF TypeOK, AgentRestarts, apiVars, seenVars, envVars
  <1>47. CASE ClientWrite
    <2>1. db' \in Database
      BY <1>47, WalType DEF ClientWrite
    <2> QED
      BY <1>47, <2>1 DEF TypeOK, ClientWrite, apiVars, seenVars, envVars
  <1>48. ASSUME NEW r \in Reshards, SeeReshard(r) PROVE TypeOK'
    BY <1>48 DEF TypeOK, SeeReshard, apiVars, seenVars, envVars
  <1>49. ASSUME NEW r \in Reshards, DeadlinePasses(r) PROVE TypeOK'
    <2>1. rs[r].attempt \in Attempts
      BY <1>49, ReshardFields DEF TypeOK, DeadlinePasses
    <2> QED
      BY SMTT(60), <1>49, <2>1 DEF TypeOK, DeadlinePasses, apiVars, seenVars, envVars
  <1>50. ASSUME NEW r \in Reshards, DeleteReshard(r) PROVE TypeOK'
    <2>1. (rs[r].claimFin \/ rs[r].gateFin) \in BOOLEAN
      BY <1>50 DEF DeleteReshard
    <2>2. rs' \in [Reshards -> ReshardObject]
      BY <1>50, DeletingWrite, <2>1, ZenonT(60) DEF OnlyWrites, DeleteReshard
    <2> QED
      BY <1>50, <2>1, <2>2 DEF TypeOK, DeleteReshard, apiVars, seenVars, envVars
  <1>51. ASSUME NEW r \in Reshards, TargetTurnsForeign(r) PROVE TypeOK'
    BY <1>51 DEF TypeOK, TargetTurnsForeign, apiVars, seenVars, envVars
  <1>52. ASSUME NEW r \in Reshards, TargetRestored(r) PROVE TypeOK'
    BY <1>52 DEF TypeOK, TargetRestored, apiVars, seenVars, envVars
  <1>53. ASSUME NEW r \in Reshards, CollectTargets(r) PROVE TypeOK'
    <2>1. tgt' \in [Reshards -> 0 .. NTargets]
      BY SMTT(60), <1>53, BoundsAssumption DEF TypeOK, CollectTargets
    <2> QED
      BY <1>53, <2>1 DEF TypeOK, CollectTargets, apiVars, seenVars, envVars
  <1>54. ASSUME NEW r \in Reshards, DecodeBarrier(r) PROVE TypeOK'
    <2>1. ack' \in [Reshards -> Nat]
      BY <1>54 DEF TypeOK, Database, DecodeBarrier
    <2> QED
      BY <1>54, <2>1 DEF TypeOK, DecodeBarrier, apiVars, seenVars, envVars
  <1>55. ASSUME NEW r \in Reshards, WorkflowRestarts(r) PROVE TypeOK'
    <2>1. ack' \in [Reshards -> Nat]
      BY <1>55 DEF TypeOK, WorkflowRestarts
    <2> QED
      BY <1>55, <2>1 DEF TypeOK, WorkflowRestarts, apiVars, seenVars, envVars
  <1>56. CASE UNCHANGED vars
    BY <1>56 DEF TypeOK, vars, apiVars, seenVars, envVars
  <1> QED
    BY <1>1, <1>2, <1>3, <1>4, <1>5, <1>6, <1>7, <1>8, <1>9, <1>10, <1>11, <1>12, <1>13, <1>14,
       <1>15, <1>16, <1>17, <1>18, <1>19, <1>20, <1>21, <1>22, <1>23, <1>24, <1>25, <1>26,
       <1>27, <1>28, <1>29, <1>30, <1>31, <1>32, <1>33, <1>34, <1>35, <1>36, <1>37, <1>38,
       <1>39, <1>40, <1>41, <1>42, <1>43, <1>44, <1>45, <1>46, <1>47, <1>48, <1>49, <1>50,
       <1>51, <1>52, <1>53, <1>54, <1>55, <1>56
       DEF Next, ReshardStep, OpStep, RoutingStep, EnvironmentStep

\* The state of the operator, the agents and the database always has the types
\* the model gives it.
THEOREM TypeCorrect == Spec => []TypeOK
  BY TypeInit, TypeStep, PTL DEF Spec
-----------------------------------------------------------------------------
(***************************************************************************)
(* A recorded barrier is in the source's WAL.                              *)
(***************************************************************************)

\* Every position on its way to a reshard's status was written as a barrier:
\* the agent's recorded ids, and what the reconcile in flight was answered.
BarriersWritten ==
    /\ BarrierExists
    /\ \A r \in Reshards, a \in Attempts : journal[r][a] > 0 => journal[r][a] \in db.barriers
    /\ op.lsn > 0 => op.lsn \in db.barriers

\* A step that neither learns nor records a position.
NoNewPosition ==
    /\ \A q \in Reshards : rs'[q].frozen \in {rs[q].frozen, 0}
    /\ op'.lsn \in {op.lsn, 0}
    /\ UNCHANGED journal
    /\ db.barriers \subseteq db'.barriers

\* Such a step keeps the invariant.
LEMMA PositionsFrame ==
    ASSUME BarriersWritten, NoNewPosition
    PROVE  BarriersWritten'
  BY SMTT(60) DEF BarriersWritten, BarrierExists, NoNewPosition

\* A reconcile starts, or ends, without a position; the reshards are untouched.
LEMMA StartsWithout ==
    ASSUME TypeOK, UNCHANGED <<rs, journal>>, db.barriers \subseteq db'.barriers,
           op' \in {op, Idle} \/ \E r \in Reshards, k \in Kinds, p \in PCs : Starting(r, k, p)
    PROVE  NoNewPosition
  BY SMTT(60) DEF NoNewPosition, Starting, Idle

\* The steps of the work queue neither learn nor record a position.
LEMMA QueuePositions ==
    ASSUME TypeOK, NEW r \in Reshards, ReshardStep(r)
    PROVE  NoNewPosition
  <1>1. CASE \/ ClaimSource(r) \/ ConfirmClaim(r) \/ FailReplaced(r) \/ FailForeign(r) \/ RollBack(r)
             \/ Cleanup(r) \/ StartSwitch(r) \/ CleanupSwitch(r)
    <2>1. UNCHANGED <<rs, db, journal>>
      BY <1>1 DEF ClaimSource, ConfirmClaim, FailReplaced, FailForeign, RollBack, Cleanup, StartSwitch,
         CleanupSwitch, apiVars
    <2>2. \E k \in Kinds, p \in PCs : Starting(r, k, p)
      BY <1>1 DEF ClaimSource, ConfirmClaim, FailReplaced, FailForeign, RollBack, Cleanup, StartSwitch,
         CleanupSwitch, FailEntry, Kinds, PCs
    <2> QED
      BY <2>1, <2>2, StartsWithout
  <1>2. CASE FenceSource(r) \/ FenceSourceFails(r)
    <2>1. UNCHANGED <<rs, journal>> /\ db'.barriers = db.barriers
      BY <1>2 DEF FenceSource, FenceSourceFails, apiVars, TypeOK, Database
    <2>2. op' = op \/ \E k \in Kinds, p \in PCs : Starting(r, k, p)
      BY <1>2 DEF FenceSource, FenceSourceFails, Kinds, PCs
    <2> QED
      BY <2>1, <2>2, StartsWithout
  <1>3. ASSUME UNCHANGED <<op, db, journal>>, rs'[r].frozen = rs[r].frozen,
               \A q \in Reshards \ {r} : rs'[q] = rs[q]
        PROVE  NoNewPosition
    BY <1>3 DEF NoNewPosition
  <1>4. CASE ReachReady(r) \/ FailSeeding(r)
    BY <1>3, <1>4, PhaseWrite DEF ReachReady, FailSeeding, OnlyWrites, Phases
  <1>5. CASE AddClaimFinalizer(r)
    BY <1>3, <1>5, ClaimFinWrite DEF AddClaimFinalizer, OnlyWrites, SameCore
  <1>6. CASE ObserveGate(r)
    BY <1>3, <1>6, ObservedWrite DEF ObserveGate, OnlyWrites, SameCore
  <1>7. CASE RecordFence(r)
    BY <1>3, <1>7, FencedWrite DEF RecordFence, OnlyWrites
  <1>8. CASE CommitSwitch(r)
    BY <1>3, <1>8, CommittedWrite DEF CommitSwitch, OnlyWrites
  <1> QED
    BY <1>1, <1>2, <1>4, <1>5, <1>6, <1>7, <1>8 DEF ReshardStep

\* A step of the reconcile in flight other than EmitJournal and the status
\* write that follows it.
LEMMA HandlerPositions ==
    ASSUME TypeOK, OpStep, ~EmitBarrier, ~ReplayBarrier, ~EmitTimesOut, ~RecordBarrier
    PROVE  NoNewPosition
  <1>1. ASSUME op.pc \in PCs, UNCHANGED <<rs, journal>>, db'.barriers = db.barriers, op'.lsn = op.lsn
        PROVE  NoNewPosition
    BY <1>1 DEF NoNewPosition
  <1>2. ASSUME UNCHANGED <<db, journal>>, op'.lsn \in {op.lsn, 0}, NEW r \in Reshards,
               rs'[r].frozen \in {rs[r].frozen, 0}, \A q \in Reshards \ {r} : rs'[q] = rs[q]
        PROVE  NoNewPosition
    BY <1>2 DEF NoNewPosition
  <1>3. Idle.lsn = 0
    BY DEF Idle
  <1>4. CASE FailFreeze \/ SkipUnfence \/ ReleaseClaim \/ NothingToRelease \/ HideSource \/ SwitchCompiled
    <2>1. op.pc \in PCs
      BY <1>4 DEF FailFreeze, SkipUnfence, ReleaseClaim, NothingToRelease, HideSource, SwitchCompiled, At, PCs
    <2>2. UNCHANGED <<rs, db, journal>>
      BY <1>4 DEF FailFreeze, SkipUnfence, ReleaseClaim, NothingToRelease, HideSource, SwitchCompiled, apiVars
    <2>3. op'.lsn = op.lsn
      BY <1>4, <2>1, OpFields DEF FailFreeze, SkipUnfence, ReleaseClaim, NothingToRelease, HideSource,
         SwitchCompiled, Reconciles
    <2> QED
      BY <1>1, <2>1, <2>2, <2>3
  <1>5. CASE UnfenceSource
    <2>1. op.pc \in PCs
      BY <1>5 DEF UnfenceSource, At, PCs
    <2>2. UNCHANGED <<rs, journal>> /\ db'.barriers = db.barriers
      BY <1>5 DEF UnfenceSource, apiVars, TypeOK, Database
    <2>3. op'.lsn = op.lsn
      BY <1>5, <2>1, OpFields DEF UnfenceSource, Reconciles
    <2> QED
      BY <1>1, <2>1, <2>2, <2>3
  <1>6. CASE FlipTarget \/ EndCleanupSwitch \/ EndBlocked
    <2>1. UNCHANGED <<rs, db, journal>> /\ op' \in {op, Idle}
      BY <1>6 DEF FlipTarget, EndCleanupSwitch, EndBlocked, apiVars
    <2> QED
      BY <2>1, StartsWithout
  <1>7. CASE OpenWindow \/ RecordSwitched
    <2>1. op.pc \in PCs
      BY <1>7 DEF OpenWindow, RecordSwitched, At, PCs
    <2>2. UNCHANGED <<db, journal>> /\ op' = Idle
      BY <1>7 DEF OpenWindow, RecordSwitched
    <2>3. OnlyWrites(op.r) /\ rs'[op.r].frozen = rs[op.r].frozen
      BY <1>7, <2>1, OpFields, GatePhaseWrite, ZenonT(60) DEF OpenWindow, RecordSwitched, Phases
    <2> QED
      BY <1>2, <1>3, <2>1, <2>2, <2>3, OpFields DEF OnlyWrites
  <1>8. CASE ClearGate
    <2>1. op.pc \in PCs
      BY <1>8 DEF ClearGate, At, PCs
    <2>2. UNCHANGED <<db, journal>> /\ op'.lsn = op.lsn
      BY <1>8, <2>1, OpFields DEF ClearGate, Reconciles
    <2>3. OnlyWrites(op.r) /\ rs'[op.r].frozen = rs[op.r].frozen
      BY <1>8, <2>1, OpFields, GateWrite DEF ClearGate
    <2> QED
      BY <1>2, <2>1, <2>2, <2>3, OpFields DEF OnlyWrites
  <1>9. CASE RecordUnfence
    <2>1. op.pc \in PCs
      BY <1>9 DEF RecordUnfence, At, PCs
    <2>2. UNCHANGED <<db, journal>> /\ op'.lsn = op.lsn
      BY <1>9, <2>1, OpFields DEF RecordUnfence, Reconciles
    <2>3. OnlyWrites(op.r) /\ rs'[op.r].frozen = rs[op.r].frozen
      BY <1>9, <2>1, OpFields, FencedWrite DEF RecordUnfence
    <2> QED
      BY <1>2, <2>1, <2>2, <2>3, OpFields DEF OnlyWrites
  <1>10. CASE RecordFailed
    <2>1. op.pc \in PCs
      BY <1>10 DEF RecordFailed, At, PCs
    <2>2. UNCHANGED <<db, journal>> /\ op' = Idle
      BY <1>10 DEF RecordFailed
    <2>3. OnlyWrites(op.r) /\ rs'[op.r].frozen = rs[op.r].frozen
      BY <1>10, <2>1, OpFields, PhaseWrite, ZenonT(60) DEF RecordFailed, Phases
    <2> QED
      BY <1>2, <1>3, <2>1, <2>2, <2>3, OpFields DEF OnlyWrites
  <1>11. CASE RecordRollBack
    <2>1. op.pc \in PCs
      BY <1>11 DEF RecordRollBack, At, PCs
    <2>2. UNCHANGED <<db, journal>> /\ op' = Idle
      BY <1>11 DEF RecordRollBack
    <2>3. rs[op.r].attempt + 1 \in Attempts
      BY SMTT(60), <1>11, <2>1, OpFields, BoundsAssumption DEF RecordRollBack, Attempts
    <2>4. OnlyWrites(op.r) /\ rs'[op.r].frozen = 0
      BY <1>11, <2>1, <2>3, OpFields, RollBackWrite DEF RecordRollBack
    <2> QED
      BY <1>2, <1>3, <2>1, <2>2, <2>4, OpFields DEF OnlyWrites
  <1>12. CASE RemoveClaimFinalizer
    <2>1. op.pc \in PCs
      BY <1>12 DEF RemoveClaimFinalizer, At, PCs
    <2>2. UNCHANGED <<db, journal>> /\ op' = Idle
      BY <1>12 DEF RemoveClaimFinalizer
    <2>3. rs[op.r].gateFin \in BOOLEAN
      BY <2>1, OpFields, ReshardFields
    <2>4. OnlyWrites(op.r) /\ rs'[op.r].frozen = rs[op.r].frozen
      BY <1>12, <2>1, <2>3, OpFields, ClaimFinRemoval, ZenonT(60) DEF RemoveClaimFinalizer, SameCore
    <2> QED
      BY <1>2, <1>3, <2>1, <2>2, <2>4, OpFields DEF OnlyWrites
  <1> QED
    BY <1>4, <1>5, <1>6, <1>7, <1>8, <1>9, <1>10, <1>11, <1>12 DEF OpStep

\* The routing controller and the environment, other than a restart of the
\* agent.
LEMMA OtherPositions ==
    ASSUME TypeOK, RoutingStep \/ EnvironmentStep, ~AgentRestarts
    PROVE  NoNewPosition
  <1>1. CASE \E r \in Reshards : SyncGateFinalizer(r)
    <2>1. PICK r \in Reshards : SyncGateFinalizer(r)
      BY <1>1
    <2>2. /\ Holding(r) \in BOOLEAN
          /\ (~ rs[r].deleting \/ rs[r].claimFin \/ Holding(r)) \in BOOLEAN
      BY DEF Holding
    <2>3. OnlyWrites(r) /\ SameCore
      BY <2>1, <2>2, GateFinWrite, ZenonT(60) DEF SyncGateFinalizer
    <2> QED
      BY <2>1, <2>3 DEF SyncGateFinalizer, SameCore, NoNewPosition
  <1>2. CASE \E r \in Reshards : DeleteReshard(r)
    <2>1. PICK r \in Reshards : DeleteReshard(r)
      BY <1>2
    <2>2. (rs[r].claimFin \/ rs[r].gateFin) \in BOOLEAN
      OBVIOUS
    <2>3. OnlyWrites(r) /\ rs'[r].frozen = rs[r].frozen
      BY <2>1, <2>2, DeletingWrite, ZenonT(60) DEF DeleteReshard
    <2> QED
      BY <2>1, <2>3 DEF DeleteReshard, OnlyWrites, NoNewPosition
  <1>3. CASE ClientWrite
    <2>1. UNCHANGED <<rs, op, journal>> /\ db'.barriers = db.barriers
      BY <1>3 DEF ClientWrite, apiVars, TypeOK, Database
    <2> QED
      BY <2>1, StartsWithout
  <1>4. CASE \/ PublishRouting \/ CompileRouting \/ WriteRouting \/ AbortReconcile
             \/ SeeShards \/ SeeRouting \/ ReplaceCluster
             \/ \E r \in Reshards :
                   \/ SeeReshard(r) \/ DeadlinePasses(r) \/ TargetTurnsForeign(r) \/ TargetRestored(r)
                   \/ CollectTargets(r) \/ DecodeBarrier(r) \/ WorkflowRestarts(r)
    <2>1. UNCHANGED <<rs, db, journal>> /\ op' \in {op, Idle}
      BY <1>4, ZenonT(60) DEF PublishRouting, CompileRouting, WriteRouting, AbortReconcile, SeeShards, SeeRouting,
         ReplaceCluster, SeeReshard, DeadlinePasses, TargetTurnsForeign, TargetRestored, CollectTargets,
         DecodeBarrier, WorkflowRestarts, apiVars
    <2> QED
      BY <2>1, StartsWithout
  <1> QED
    BY <1>1, <1>2, <1>3, <1>4 DEF RoutingStep, EnvironmentStep

\* EmitJournal, the status write that follows it and a restart of the agent
\* keep the invariant.
LEMMA JournalPositions ==
    ASSUME TypeOK, BarriersWritten,
           EmitBarrier \/ ReplayBarrier \/ EmitTimesOut \/ RecordBarrier \/ AgentRestarts
    PROVE  BarriersWritten'
  <1>1. Idle.lsn = 0 /\ ~(Unused > 0) /\ ~(Poisoned > 0)
    BY SMTT(60) DEF Idle, Unused, Poisoned
  <1>2. CASE AgentRestarts
    BY <1>1, <1>2 DEF AgentRestarts, apiVars, BarriersWritten, BarrierExists
  <1>3. CASE RecordBarrier
    <2>1. op.pc \in PCs
      BY <1>3 DEF RecordBarrier, At, PCs
    <2>2. OnlyWrites(op.r) /\ rs'[op.r].frozen = op.lsn
      BY <1>3, <2>1, OpFields, FrozenWrite, ZenonT(60) DEF RecordBarrier
    <2>3. UNCHANGED <<db, journal>> /\ op' = Idle
      BY <1>3 DEF RecordBarrier
    <2> QED
      BY SMTT(60), <1>1, <2>2, <2>3 DEF BarriersWritten, BarrierExists, OnlyWrites
  <1>4. CASE ReplayBarrier
    <2>1. op.pc \in PCs
      BY <1>4 DEF ReplayBarrier, At, PCs
    <2>2. UNCHANGED <<rs, db, journal>> /\ op'.lsn = Slot
      BY <1>4, <2>1, OpFields DEF ReplayBarrier, apiVars, Reconciles
    <2>3. Slot > 0 => Slot \in db.barriers
      BY <2>1, OpFields DEF Slot, BarriersWritten
    <2> QED
      BY <2>2, <2>3 DEF BarriersWritten, BarrierExists
  <1>5. CASE EmitBarrier
    <2>1. op.pc \in PCs
      BY <1>5 DEF EmitBarrier, At, PCs
    <2>2. UNCHANGED rs /\ db'.barriers = db.barriers \cup {db.lsn + 1}
      BY <1>5 DEF EmitBarrier, apiVars, TypeOK, Database
    <2>3. op'.lsn = db.lsn + 1
      BY <1>5, <2>1, OpFields DEF EmitBarrier, Reconciles
    <2>4. \A r \in Reshards, a \in Attempts : journal'[r][a] \in {journal[r][a], db.lsn + 1}
      BY <1>5, <2>1, OpFields DEF EmitBarrier, TypeOK
    <2> QED
      BY <2>2, <2>3, <2>4 DEF BarriersWritten, BarrierExists
  <1>6. CASE EmitTimesOut
    <2>1. op.pc \in PCs
      BY <1>6 DEF EmitTimesOut, At, PCs
    <2>2. UNCHANGED rs /\ op' = Idle
      BY <1>6 DEF EmitTimesOut, apiVars
    <2>3. db.barriers \subseteq db'.barriers
      BY <1>6 DEF EmitTimesOut, TypeOK, Database
    <2>4. \A r \in Reshards, a \in Attempts : journal'[r][a] \in {journal[r][a], Poisoned}
      BY <1>6, <2>1, OpFields DEF EmitTimesOut, TypeOK
    <2> QED
      BY SMTT(60), <1>1, <2>2, <2>3, <2>4 DEF BarriersWritten, BarrierExists
  <1> QED
    BY <1>2, <1>3, <1>4, <1>5, <1>6

\* A barrier recorded in a reshard's status is a position of the source's WAL
\* that a journal message was really written at (freezeSource, emit_journal),
\* through time-outs, replays, restarts and every other event of the model.
THEOREM RecordedBarrierExists == Spec => []BarrierExists
  <1>1. Init => BarriersWritten
    BY SMTT(60) DEF Init, BarriersWritten, BarrierExists, FreshReshard, Idle, Unused
  <1>2. TypeOK /\ BarriersWritten /\ [Next]_vars => BarriersWritten'
    <2> SUFFICES ASSUME TypeOK, BarriersWritten, [Next]_vars PROVE BarriersWritten'
      OBVIOUS
    <2>1. CASE UNCHANGED vars
      BY <2>1 DEF vars, apiVars, BarriersWritten, BarrierExists
    <2>2. CASE Next
      BY <2>2, PositionsFrame, QueuePositions, HandlerPositions, OtherPositions, JournalPositions DEF Next
    <2> QED
      BY <2>1, <2>2
  <1>3. BarriersWritten => BarrierExists
    BY DEF BarriersWritten
  <1> QED
    BY <1>1, <1>2, <1>3, TypeCorrect, PTL DEF Spec
=============================================================================
