-------------------------- MODULE CutoverInvariant --------------------------
(***************************************************************************)
(* The inductive invariant behind the safety properties of Cutover.        *)
(*                                                                         *)
(* It is inductive when the causes that make a cutover fail are permanent: *)
(* no EmitJournal call times out (a poisoned journal id is forgotten by an *)
(* agent restart) and no target turns foreign and back.                    *)
(***************************************************************************)
EXTENDS Cutover

PermanentCauses == "timeout" \notin Events /\ "restore" \notin Events

\* r can never open, or keep, a window again.
Finished(r) ==
    replaced \/ r \in foreign \/ rs[r].deleting \/ rs[r].committed

\* r cannot commit in its current attempt.
Doomed(r) ==
    \/ replaced
    \/ r \in foreign
    \/ rs[r].deleting
    \/ <<r, rs[r].attempt>> \in expired

\* r is in a window that may still commit.
Live(r) == rs[r].phase = "CuttingOver" /\ ~ rs[r].committed /\ ~ Doomed(r)

\* The source takes no write, and took none after position p.
SealedAt(p) == db.writes # "open" /\ db.last <= p

\* v is an earlier version of the object o, as a cache or a reconcile holds it.
Earlier(v, o) ==
    /\ v.attempt <= o.attempt
    /\ v.attempt # o.attempt => o.phase = "CatchingUp"
    /\ v.attempt = o.attempt /\ v.phase = "CuttingOver"
          => o.phase \notin {"CatchingUp", "ReadyToCutover"}
    /\ v.deleting => o.deleting
    /\ v.committed => o.committed
    /\ o.committed => v.committed \/ v.fenced

CachesEarlier == \A r \in Reshards : Earlier(seenRs[r], rs[r])

\* An attempt that has not opened its window has left no trace.
AttemptPristine == \A r \in Reshards :
    /\ rs[r].phase \in {"CatchingUp", "ReadyToCutover"} =>
          /\ rs[r].frozen = 0
          /\ ~ rs[r].committed
          /\ journal[r][rs[r].attempt] = Unused
    /\ \A a \in Attempts : a > rs[r].attempt => journal[r][a] = Unused

NothingPoisoned == \A r \in Reshards, a \in Attempts : journal[r][a] # Poisoned

WindowGated == \A r \in Reshards :
    rs[r].phase = "CuttingOver" /\ ~ rs[r].deleting => rs[r].gate

\* Whoever believes to hold the claim does, unless it is finished.
ClaimHeld == \A r \in Reshards :
    /\ ~ Finished(r)
    /\ \/ seenSrc.claim = r
       \/ op.kind = "open" /\ op.r = r
       \/ rs[r].phase = "CuttingOver"
    => src.claim = r

\* A live window that recorded a barrier is sealed behind it.
LiveSealed == \A r \in Reshards :
    Live(r) =>
        /\ rs[r].frozen > 0 => SealedAt(rs[r].frozen) /\ rs[r].fenced
        /\ journal[r][rs[r].attempt] > 0 => SealedAt(journal[r][rs[r].attempt])

\* A committed switch is sealed, and nobody else can take the claim.
CommittedSealed == \A r \in Reshards :
    rs[r].committed =>
        /\ SealedAt(rs[r].frozen)
        /\ src.claim \in {r, NoReshard}
        /\ src.claim = NoReshard => ~ src.serving

\* Targets serve, anywhere, only after the commit.
ServingCommitted == \A r \in Reshards :
    /\ \/ tgt[r] > 0
       \/ seenTgt[r] > 0
       \/ routing.serving = r
       \/ \E x \in plan : x.serving = r
    => rs[r].committed

\* What is known of the reconcile in flight, per kind.
OpenSound ==
    op.kind = "open" => op.pc = "status" /\ op.v.phase = "ReadyToCutover"

FreezeSound ==
    op.kind = "freeze" =>
        /\ op.pc \in {"emit", "status"}
        /\ op.v.phase = "CuttingOver"
        /\ op.v.fenced
        /\ ~ op.v.committed
        /\ db.writes # "open"
        /\ op.pc = "status" =>
              /\ op.lsn > 0
              /\ op.v.attempt = rs[op.r].attempt /\ Live(op.r) => db.last <= op.lsn

FailSound ==
    op.kind = "fail" =>
        /\ op.pc \in {"unfence", "unfenced", "release", "status"}
        /\ op.v.phase = "CuttingOver"
        /\ replaced \/ op.r \in foreign

RollbackSound ==
    op.kind = "rollback" =>
        /\ op.pc \in {"unfence", "status"}
        /\ op.v.phase = "CuttingOver"
        /\ ~ op.v.committed
        /\ <<op.r, op.v.attempt>> \in expired

CleanupSound ==
    op.kind = "cleanup" =>
        /\ op.pc \in {"ungate", "unfence", "unfenced", "release", "status"}
        /\ op.v.deleting
        /\ op.v.committed => ~ op.s.serving

SwitchSound ==
    op.kind \in {"switch", "cleanupSwitch"} =>
        /\ op.pc \in {"flip", "compiled", "release", "status"}
        /\ op.v.committed
        /\ op.kind = "switch" => op.v.phase = "CuttingOver"
        /\ op.pc # "flip" => ~ op.s.serving

ViewSound ==
    /\ Earlier(op.v, rs[op.r])
    /\ op.pc \in {"unfence", "unfenced"} => ~ op.v.committed
    /\ op.pc = "release" /\ rs[op.r].committed => ~ op.s.serving

ReconcileSound ==
    op # Idle =>
        /\ ViewSound
        /\ OpenSound
        /\ FreezeSound
        /\ FailSound
        /\ RollbackSound
        /\ CleanupSound
        /\ SwitchSound

BarrierInv ==
    /\ TypeOK
    /\ db.last <= db.lsn
    /\ CachesEarlier
    /\ AttemptPristine
    /\ NothingPoisoned
    /\ WindowGated
    /\ ClaimHeld
    /\ LiveSealed
    /\ CommittedSealed
    /\ AtMostOneSwitch
    /\ ServingCommitted
    /\ ReconcileSound

-----------------------------------------------------------------------------
(***************************************************************************)
(* The fence: who closed the source to writes holds the claim, and un-fences *)
(* before it forgets the fence or lets the claim go.                       *)
(***************************************************************************)

\* A reshard whose object is v fences nothing and may have lost the claim.
Over(v) ==
    replaced \/ v.deleting \/ v.committed \/ v.phase # "CuttingOver" \/ v.frozen > 0

SomeCommitted == \E r \in Reshards : rs[r].committed

\* What the cached version of r tells of the object.
SeenSound(r) ==
    /\ rs[r].exists => seenRs[r].exists
    /\ ~ rs[r].deleting => rs[r].exists
    /\ seenRs[r].phase = "CuttingOver" /\ ~ seenRs[r].deleting => seenRs[r].gate
    /\ seenRs[r].attempt = rs[r].attempt /\ seenRs[r].frozen > 0 => rs[r].frozen > 0
    /\ seenRs[r].claimFin => rs[r].claimFin \/ rs[r].deleting

\* A claim, a window, a fence and a commit have the finalizer that will clean
\* up after them, until the reshard is deleted.
Finalized(r) ==
    /\ src.claim = r \/ seenSrc.claim = r => seenRs[r].claimFin \/ seenRs[r].deleting
    /\ rs[r].phase = "CuttingOver" \/ rs[r].fenced \/ rs[r].committed
          => rs[r].claimFin \/ rs[r].deleting

\* A reshard on its way to a barrier holds the claim.
WindowClaimed(r) ==
    /\ /\ ~ (replaced \/ rs[r].deleting \/ rs[r].committed)
       /\ rs[r].phase = "ReadyToCutover"
       /\ seenSrc.claim = r \/ (op.kind = "open" /\ op.r = r)
       => src.claim = r
    /\ ~ Over(rs[r]) => src.claim = r

\* r is the one to un-fence the source.
Owes(r) == rs[r].exists /\ rs[r].fenced /\ rs[r].claimFin /\ src.claim = r

\* No reconcile that reads the cached version of r fences.
Lapsed(r) ==
    Over(seenRs[r]) \/ ~ seenRs[r].fenced \/ <<r, seenRs[r].attempt>> \in expired

Steady(r) ==
    /\ SeenSound(r)
    /\ Finalized(r)
    /\ WindowClaimed(r)
    /\ Lapsed(r) \/ Owes(r)

\* Whoever fenced the source knows that it did.
FenceOwed ==
    db.writes = "open" \/ SomeCommitted \/ \E r \in Reshards : Owes(r) /\ seenRs[r].fenced

\* A reconcile that is about to forget the fence or to release the claim.
LettingGo ==
    /\ op.kind \in {"fail", "cleanup", "rollback"}
    /\ op.pc \in {"unfenced", "release", "status"} \/ (op.pc = "ungate" /\ ~ op.v.fenced)

ReleaseSound ==
    /\ op # Idle => op.v.exists
    /\ op.kind = "open" => op.v.claimFin
    /\ op.kind \in {"fail", "cleanup", "switch", "cleanupSwitch"} =>
          Over(seenRs[op.r]) /\ Over(rs[op.r])
    /\ LettingGo /\ src.claim = op.r => db.writes = "open" \/ SomeCommitted

FenceInv ==
    /\ \A r \in Reshards : Steady(r)
    /\ FenceOwed
    /\ ReleaseSound

-----------------------------------------------------------------------------
(***************************************************************************)
(* The gate of a committed switch stands until the source is hidden.       *)
(***************************************************************************)

\* The routing controller writes a routing in the step that compiles it.
PromptCompile == "slowCompile" \notin Events

\* No version of a committed reshard, cached or not, lacks both the commit that
\* makes the compile refuse and the gate.
StaysGated(r) ==
    rs[r].committed =>
        /\ src.serving => rs[r].exists
        /\ seenRs[r].committed \/ seenRs[r].gate

AdmitInv ==
    /\ plan = {}
    /\ src.serving => seenSrc.serving
    /\ op # Idle /\ src.serving => op.s.serving
    /\ \A r \in Reshards : StaysGated(r)

\* Everything the proofs need to know of a reachable state.
CutoverInv == BarrierInv /\ FenceInv /\ AdmitInv
=============================================================================
