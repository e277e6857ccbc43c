---------------------------- MODULE RouterProofs ----------------------------
(***************************************************************************)
(* The router's sequence cache and write lease.                            *)
(*                                                                         *)
(* Ids are unique and reservations single-flighted for any number of       *)
(* routers, threads, block sizes and lost UPDATEs. The invariant says that *)
(* the blocks that routers hold and the blocks on their way to them are    *)
(* disjoint, below the row's next_id, and free of ids already handed out;  *)
(* and that a claim is set exactly while one thread works on it.           *)
(*                                                                         *)
(* The write lease holds for any number of epochs, any lease and clocks.   *)
(***************************************************************************)
EXTENDS Sequence, Lease, TLAPS

\* Leaves are for Zenon, unless they name another prover.
USE ZenonT(60)

-----------------------------------------------------------------------------
(* The sequence cache. *)

Empty(a, b) == b <= a
Disjoint(a, b, c, d) == Empty(a, b) \/ Empty(c, d) \/ b <= c \/ d <= a
Unused(a, b) == b <= nextId /\ \A i \in given : i < a \/ b <= i

\* The ids of a block are below the row and were not handed out.
BlocksUnused ==
    /\ \A i \in given : i < nextId
    /\ \A r \in Routers : Unused(lo[r], hi[r])
    /\ \A t \in Threads : Unused(grantLo[t], grantHi[t])

\* No two blocks share an id; only a granted thread carries a block.
BlocksApart ==
    /\ \A r, s \in Routers : r # s => Disjoint(lo[r], hi[r], lo[s], hi[s])
    /\ \A r \in Routers, t \in Threads : Disjoint(lo[r], hi[r], grantLo[t], grantHi[t])
    /\ \A s, t \in Threads : s # t => Disjoint(grantLo[s], grantHi[s], grantLo[t], grantHi[t])
    /\ \A t \in Threads : IF pc[t] = "granted" THEN grantLo[t] < grantHi[t]
                          ELSE grantLo[t] = 0 /\ grantHi[t] = 0

IdsInv == SeqTypeOK /\ BlocksUnused /\ BlocksApart /\ ~twice

\* A claim is set exactly while a thread works on it, and only then waited for.
ClaimInv ==
    /\ \A t \in Threads : Claims(t) => reserving[Home[t]]
    /\ \A r \in Routers : reserving[r] => \E t \in Threads : Claims(t) /\ Home[t] = r
    /\ \A s, t \in Threads : Claims(s) /\ Claims(t) /\ Home[s] = Home[t] => s = t
    /\ \A t \in Threads : pc[t] = "wait" => reserving[Home[t]]

-----------------------------------------------------------------------------
\* Every variable of the row, the caches and the threads keeps its type.
LEMMA SeqTypes == SeqTypeOK /\ [SeqNext]_seqVars => SeqTypeOK'
<1> SUFFICES ASSUME SeqTypeOK, [SeqNext]_seqVars PROVE SeqTypeOK'
    OBVIOUS
<1> USE SequenceAssumption DEF SeqTypeOK, PCs
<1>1. CASE UNCHANGED seqVars
    BY <1>1 DEF seqVars
<1>2. ASSUME NEW t \in Threads, Call(t) PROVE SeqTypeOK'
    BY <1>2 DEF Call
<1>3. ASSUME NEW t \in Threads, Enter(t) PROVE SeqTypeOK'
  <2>1. Home[t] \in Routers /\ lo[Home[t]] \in Nat
      OBVIOUS
  <2>2. HandOut(lo[Home[t]]) => given' \subseteq Nat
      BY <2>1 DEF HandOut
  <2>3. HandOut(lo[Home[t]]) => twice' \in BOOLEAN
      BY DEF HandOut
  <2>4. lo' \in [Routers -> Nat]
      BY SMTT(60), <1>3, <2>1 DEF Enter
  <2>5. reserving' \in [Routers -> BOOLEAN]
      BY <1>3, <2>1 DEF Enter
  <2>6. pc' \in [Threads -> PCs]
      BY <1>3 DEF Enter
  <2> QED
      BY <1>3, <2>2, <2>3, <2>4, <2>5, <2>6 DEF Enter
<1>4. ASSUME NEW t \in Threads, Granted(t) PROVE SeqTypeOK'
    BY SMTT(60), <1>4 DEF Granted, Advances, AdvanceRow
<1>5. ASSUME NEW t \in Threads, NotGranted(t) PROVE SeqTypeOK'
    BY SMTT(60), <1>5 DEF NotGranted
<1>6. ASSUME NEW t \in Threads, InstallBlock(t) PROVE SeqTypeOK'
  <2>1. HandOut(grantLo[t]) => given' \subseteq Nat /\ twice' \in BOOLEAN
      BY DEF HandOut
  <2>2. reserving' \in [Routers -> BOOLEAN] /\ pc' \in [Threads -> PCs]
      BY <1>6 DEF InstallBlock, Release
  <2>3. /\ lo' \in [Routers -> Nat] /\ hi' \in [Routers -> Nat]
        /\ grantLo' \in [Threads -> Nat] /\ grantHi' \in [Threads -> Nat]
      BY SMTT(60), <1>6 DEF InstallBlock
  <2> QED
      BY <1>6, <2>1, <2>2, <2>3 DEF InstallBlock
<1>7. ASSUME NEW t \in Threads, GiveUp(t) PROVE SeqTypeOK'
    BY <1>7 DEF GiveUp, Release
<1>8. CASE LateCommit
    BY SMTT(60), <1>8 DEF LateCommit, Advances, AdvanceRow
<1>9. ASSUME NEW r \in Routers, Crash(r) PROVE SeqTypeOK'
    BY SMTT(60), <1>9 DEF Crash
<1>10. CASE Configure
    BY <1>10 DEF Configure
<1> QED
    BY <1>1, <1>2, <1>3, <1>4, <1>5, <1>6, <1>7, <1>8, <1>9, <1>10 DEF SeqNext, Step

\* No step hands an id out twice or lets two blocks overlap.
LEMMA IdsStep == IdsInv /\ [SeqNext]_seqVars => IdsInv'
<1> SUFFICES ASSUME IdsInv, [SeqNext]_seqVars PROVE IdsInv'
    OBVIOUS
<1>1. SeqTypeOK /\ SeqTypeOK'
    BY SeqTypes DEF IdsInv
<1> USE SequenceAssumption, <1>1 DEF IdsInv, SeqTypeOK, BlocksUnused, BlocksApart, Unused, Disjoint, Empty
<1>2. CASE UNCHANGED <<nextId, lo, hi, pc, grantLo, grantHi, given, twice>>
    BY <1>2
<1>3. ASSUME NEW t \in Threads, pc[t] # "granted", NEW at \in PCs, at # "granted",
             pc' = [pc EXCEPT ![t] = at], UNCHANGED <<nextId, lo, hi, grantLo, grantHi, given, twice>>
      PROVE  IdsInv'
    BY <1>3
<1>4. ASSUME NEW t \in Threads, Enter(t) PROVE IdsInv'
  <2>1. CASE lo[Home[t]] < hi[Home[t]]
    <3> DEFINE r == Home[t]
    <3>1. /\ lo' = [lo EXCEPT ![r] = @ + 1] /\ pc' = [pc EXCEPT ![t] = "idle"] /\ pc[t] = "enter"
          /\ given' = given \cup {lo[r]} /\ twice' = (twice \/ lo[r] \in given)
          /\ UNCHANGED <<nextId, hi, grantLo, grantHi>>
        BY SMTT(60), <1>4, <2>1 DEF Enter, HandOut
    <3>2. r \in Routers /\ lo[r] \in Nat /\ hi[r] \in Nat /\ nextId \in Nat /\ given \subseteq Nat
        OBVIOUS
    <3>3. lo[r] \notin given /\ lo[r] < nextId
        BY SMTT(60), <2>1, <3>2
    <3>4. BlocksUnused'
        BY SMTT(60), <2>1, <3>1, <3>3
    <3>5. BlocksApart'
        BY SMTT(60), <2>1, <3>1
    <3> QED
        BY <3>1, <3>3, <3>4, <3>5
  <2>2. CASE lo[Home[t]] >= hi[Home[t]]
      BY SMTT(60), <1>3, <1>4, <2>2 DEF Enter, PCs
  <2> QED
      BY SMTT(60), <2>1, <2>2
<1>5. ASSUME NEW t \in Threads, Granted(t) PROVE IdsInv'
  <2>1. nextId < nextId' /\ UNCHANGED <<lo, hi, given, twice>> /\ pc[t] = "reserve"
        /\ grantLo' = [grantLo EXCEPT ![t] = nextId] /\ grantHi' = [grantHi EXCEPT ![t] = nextId']
        /\ pc' = [pc EXCEPT ![t] = "granted"]
      BY SMTT(60), <1>5 DEF Granted, Advances, AdvanceRow
  <2>2. BlocksUnused'
      BY SMTT(60), <2>1
  <2>3. BlocksApart'
      BY SMTT(60), <2>1
  <2> QED
      BY <2>1, <2>2, <2>3
<1>6. ASSUME NEW t \in Threads, InstallBlock(t) PROVE IdsInv'
  <2> DEFINE r == Home[t]
  <2>1. /\ pc[t] = "granted"
        /\ lo' = [lo EXCEPT ![r] = grantLo[t] + 1] /\ hi' = [hi EXCEPT ![r] = grantHi[t]]
        /\ grantLo' = [grantLo EXCEPT ![t] = 0] /\ grantHi' = [grantHi EXCEPT ![t] = 0]
        /\ given' = given \cup {grantLo[t]} /\ twice' = (twice \/ grantLo[t] \in given)
        /\ UNCHANGED nextId
      BY <1>6 DEF InstallBlock, HandOut
  <2>2. \A s \in Threads : pc'[s] = "granted" <=> s # t /\ pc[s] = "granted"
      BY <1>6 DEF InstallBlock, Release
  <2>3. grantLo[t] \notin given /\ grantLo[t] < grantHi[t] /\ grantHi[t] <= nextId
      BY SMTT(60), <2>1
  <2>4. BlocksUnused'
    <3>1. \A i \in given' : i < nextId'
        BY SMTT(60), <2>1, <2>3
    <3>2. \A q \in Routers : Unused(lo[q], hi[q])'
      <4> SUFFICES ASSUME NEW q \in Routers PROVE Unused(lo[q], hi[q])'
          OBVIOUS
      <4>1. CASE q = r
          BY SMTT(60), <4>1, <2>1, <2>3
      <4>2. CASE q # r
          BY SMTT(60), <4>2, <2>1, <2>3
      <4> QED
          BY <4>1, <4>2
    <3>3. \A s \in Threads : Unused(grantLo[s], grantHi[s])'
        BY SMTT(60), <2>1, <2>3
    <3> QED
        BY <3>1, <3>2, <3>3
  <2>5. BlocksApart'
      BY SMTT(60), <2>1, <2>2, <2>3
  <2> QED
      BY <2>1, <2>3, <2>4, <2>5
<1>7. ASSUME NEW t \in Threads, GiveUp(t) PROVE IdsInv'
  <2>1. \A s \in Threads : pc'[s] = "granted" <=> pc[s] = "granted"
      BY <1>7 DEF GiveUp, Release
  <2> QED
      BY <1>7, <2>1 DEF GiveUp
<1>8. CASE LateCommit
  <2>1. nextId <= nextId' /\ UNCHANGED <<lo, hi, pc, grantLo, grantHi, given, twice>>
      BY SMTT(60), <1>8 DEF LateCommit, Advances, AdvanceRow
  <2> QED
      BY SMTT(60), <2>1
<1>9. ASSUME NEW r \in Routers, Crash(r) PROVE IdsInv'
    BY SMTT(60), <1>9 DEF Crash
<1> QED
  <2>1. ASSUME NEW t \in Threads, Call(t) \/ NotGranted(t) PROVE IdsInv'
      BY <2>1, <1>3 DEF Call, NotGranted, PCs
  <2>2. CASE Configure \/ UNCHANGED seqVars
      BY <2>2, <1>2 DEF Configure, seqVars
  <2> QED
      BY <2>1, <2>2, <1>4, <1>5, <1>6, <1>7, <1>8, <1>9 DEF SeqNext, Step

\* No step loses a claim, sets it twice or leaves a waiter behind.
LEMMA ClaimStep == SeqTypeOK /\ ClaimInv /\ [SeqNext]_seqVars => ClaimInv'
<1> SUFFICES ASSUME SeqTypeOK, ClaimInv, [SeqNext]_seqVars PROVE ClaimInv'
    OBVIOUS
<1> USE SequenceAssumption DEF SeqTypeOK, PCs, ClaimInv, Claims
<1>1. CASE UNCHANGED <<reserving, pc>>
    BY <1>1
<1>2. ASSUME NEW t \in Threads, Call(t) PROVE ClaimInv'
    BY SMTT(60), <1>2 DEF Call
<1>3. ASSUME NEW t \in Threads, Enter(t) PROVE ClaimInv'
    BY SMTT(60), <1>3 DEF Enter
<1>4. ASSUME NEW t \in Threads, Granted(t) \/ NotGranted(t) PROVE ClaimInv'
    BY SMTT(60), <1>4 DEF Granted, NotGranted
<1>5. ASSUME NEW t \in Threads, Claims(t), Release(t, "idle") PROVE ClaimInv'
    BY SMTT(60), <1>5 DEF Release
<1>6. ASSUME NEW r \in Routers, Crash(r) PROVE ClaimInv'
    BY <1>6 DEF Crash
<1> QED
    BY <1>1, <1>2, <1>3, <1>4, <1>5, <1>6
    DEF SeqNext, Step, InstallBlock, GiveUp, LateCommit, Configure, seqVars

\* The initial row and caches have their types.
LEMMA SeqInitTypes == SeqInit => SeqTypeOK
<1> SUFFICES ASSUME SeqInit PROVE SeqTypeOK
    OBVIOUS
<1>1. blockSize \in Int
    BY SequenceAssumption DEF SeqInit
<1> QED
    BY <1>1 DEF SeqInit, SeqTypeOK, PCs

\* The row, caches and threads keep their types in every reachable state.
LEMMA SeqTypeCorrect == SeqSpec => []SeqTypeOK
BY SeqInitTypes, SeqTypes, PTL DEF SeqSpec

\* No id is handed out twice, by one router or two, whatever UPDATEs fail, are
\* lost or commit late, for every number of routers and threads and every
\* block size (SequenceCache::next_id over RESERVE_SQL).
THEOREM IdsAreUnique == SeqSpec => []UniqueIds
<1>1. SeqInit => IdsInv
    BY SMTT(60), SeqInitTypes DEF SeqInit, IdsInv, BlocksUnused, BlocksApart, Unused, Disjoint, Empty
<1>2. IdsInv => UniqueIds
    BY DEF IdsInv, UniqueIds
<1> QED
    BY <1>1, <1>2, IdsStep, PTL DEF SeqSpec

\* At most one thread of a router reserves, and a thread that waits is waiting
\* for one that will wake it (ReservationClaim).
THEOREM ReservationsSingleFlight == SeqSpec => []SingleFlight
<1>1. SeqInit => ClaimInv
    BY SequenceAssumption DEF SeqInit, ClaimInv, Claims
<1>2. ClaimInv /\ SeqTypeOK => SingleFlight
    BY SequenceAssumption DEF ClaimInv, SingleFlight, SeqTypeOK
<1> QED
    BY <1>1, <1>2, ClaimStep, SeqTypeCorrect, PTL DEF SeqSpec

-----------------------------------------------------------------------------
(* The write lease. *)

Topologies == [epoch : Epochs, builds : BOOLEAN]

\* The types the argument needs; the clock itself is unbounded here.
LeaseTypes ==
    /\ clock \in Nat /\ file \in Topologies /\ snap \in Topologies /\ active \in Epochs
    /\ heldUntil \in [Epochs -> Nat]
    /\ poll \in [at : {"idle", "boot", "read", "apply", "announce"}, boot : Nat, wall : Int, read : Topologies]
    /\ val \in [epoch : Epochs, boot : Nat, wall : Int]
    /\ fresh \in [boot : Nat, wall : Int]
    /\ skew \in Int
    /\ req \in [at : {"idle", "wall", "boot", "barred", "writes"}, epoch : Epochs,
                stamp : [boot : Nat, wall : Int], wallAge : Int]

\* Epochs are published in order, so an older one was last held no later, and
\* whatever is on its way through the router is no newer than the source.
EpochsInOrder ==
    /\ \A e, f \in Epochs : e <= f /\ f < file.epoch => heldUntil[e] <= heldUntil[f]
    /\ \A e \in Epochs : heldUntil[e] <= clock
    /\ poll.read.epoch <= file.epoch /\ snap.epoch <= file.epoch /\ active <= snap.epoch

\* Every stamp on its way was taken while the source held its epoch.
StampsHonest ==
    /\ poll.at = "read" => poll.boot <= clock
    /\ poll.at \in {"apply", "announce"} => poll.boot <= Held(poll.read.epoch)
    /\ val.boot <= Held(val.epoch)
    /\ fresh.boot <= Held(active)

\* A request knows no epoch newer than the router's, and if it knows the
\* router's, its stamp is that epoch's.
RequestHonest ==
    /\ req.at # "idle" => phase = "run" /\ req.epoch <= active
    /\ req.at = "boot" /\ req.epoch = active => req.stamp.boot <= Held(active)

LeaseInv == LeaseTypes /\ EpochsInOrder /\ StampsHonest /\ RequestHonest

\* Until the loop subscribes every announcement counts as missed; after that
\* one it has consumed has renewed the lease of its epoch.
CountInv ==
    /\ phase # "run" => missed
    /\ phase = "run" /\ ~valNew /\ ~consult /\ ~missed /\ val.epoch = active => fresh.boot >= val.boot

\* Epochs are numbers, and one below the bound has a successor.
LEMMA EpochsAreNumbers ==
    Epochs \subseteq Nat /\ \A e \in Epochs : e < MaxEpoch => e + 1 \in Epochs
BY SMTT(60), LeaseAssumption DEF Epochs

\* The epochs of the source, of the poll, of the snapshot and of the router.
LEMMA EpochsKnown ==
    ASSUME LeaseTypes
    PROVE  {file.epoch, poll.read.epoch, snap.epoch, active} \subseteq Nat
<1>1. file \in Topologies /\ snap \in Topologies /\ active \in Epochs /\ poll.read \in Topologies
    BY DEF LeaseTypes
<1>2. \A t \in Topologies : t.epoch \in Epochs
    BY DEF Topologies
<1> QED
    BY <1>1, <1>2, EpochsAreNumbers

\* The last moment an epoch was held only moves forward, as long as no epoch
\* that was published is published again.
LEMMA HeldAdvances ==
    ASSUME LeaseInv, LeaseTypes', World
    PROVE  \A e \in Epochs : Held(e) <= Held(e)'
<1> USE DEF LeaseInv, LeaseTypes, EpochsInOrder, Topologies, Held
<1>1. CASE ClockTick
    BY SMTT(60), <1>1 DEF ClockTick
<1>2. CASE SetWall
    BY SMTT(60), <1>2 DEF SetWall
<1>3. CASE Outage
    BY SMTT(60), <1>3 DEF Outage
<1>4. CASE Publish
    BY SMTT(60), <1>4 DEF Publish
<1> QED
    BY <1>1, <1>2, <1>3, <1>4 DEF World

\* The world keeps the types.
LEMMA WorldTypes ==
    ASSUME LeaseInv, World
    PROVE  LeaseTypes'
<1> USE LeaseAssumption DEF LeaseInv, LeaseTypes, chanVars, loopVars
<1>1. CASE ClockTick
    BY SMTT(60), <1>1 DEF ClockTick
<1>2. CASE SetWall
    BY SMTT(60), <1>2 DEF SetWall
<1>3. CASE Outage
    BY <1>3 DEF Outage
<1>4. CASE Publish
  <2>1. file.epoch \in Epochs /\ file.epoch < MaxEpoch
      BY <1>4 DEF Publish, Topologies
  <2>2. file.epoch + 1 \in Epochs
      BY <2>1, EpochsAreNumbers
  <2> QED
      BY SMTT(60), <1>4, <2>1, <2>2 DEF Publish, Topologies
<1> QED
    BY <1>1, <1>2, <1>3, <1>4 DEF World

\* The world keeps the order of the epochs.
LEMMA WorldOrder ==
    ASSUME LeaseInv, World
    PROVE  EpochsInOrder'
<1> USE DEF LeaseInv, LeaseTypes, EpochsInOrder, Topologies, chanVars, loopVars
<1>0. {file.epoch, poll.read.epoch, snap.epoch, active} \subseteq Nat
    BY EpochsKnown
<1>1. UNCHANGED <<poll, snap, active>>
    BY DEF World, ClockTick, SetWall, Outage, Publish
<1>2. CASE ClockTick
  <2>1. UNCHANGED <<file, heldUntil>> /\ clock' = clock + 1
      BY <1>2 DEF ClockTick
  <2> QED
      BY SMTT(60), <1>1, <2>1
<1>3. CASE SetWall \/ Outage
  <2>1. UNCHANGED <<file, heldUntil, clock>>
      BY <1>3 DEF SetWall, Outage
  <2> QED
      BY <1>1, <2>1
<1>4. CASE Publish
  <2>1. /\ file'.epoch = file.epoch + 1 /\ clock' = clock
        /\ heldUntil'[file.epoch] = clock
        /\ \A e \in Epochs : e # file.epoch => heldUntil'[e] = heldUntil[e]
      BY SMTT(60), <1>4 DEF Publish
  <2>2. \A e, f \in Epochs : e <= f /\ f < file'.epoch => heldUntil'[e] <= heldUntil'[f]
    <3> SUFFICES ASSUME NEW e \in Epochs, NEW f \in Epochs, e <= f, f < file'.epoch
                 PROVE  heldUntil'[e] <= heldUntil'[f]
        OBVIOUS
    <3>1. CASE f = file.epoch
        BY SMTT(60), <2>1, <3>1
    <3>2. CASE f < file.epoch
        BY SMTT(60), <2>1, <3>2, EpochsAreNumbers
    <3> QED
        BY SMTT(60), <1>0, <2>1, <3>1, <3>2, EpochsAreNumbers
  <2>3. poll.read.epoch <= file'.epoch /\ snap.epoch <= file'.epoch /\ active <= snap.epoch
      BY SMTT(60), <1>0, <2>1
  <2> QED
      BY SMTT(60), <1>1, <2>1, <2>2, <2>3
<1> QED
    BY <1>2, <1>3, <1>4 DEF World

\* A step of the world keeps the invariant: it moves no stamp.
LEMMA WorldStep ==
    ASSUME LeaseInv, World
    PROVE  LeaseInv'
<1>1. \A e \in Epochs : Held(e) <= Held(e)' /\ Held(e) \in Nat /\ Held(e)' \in Nat
    BY HeldAdvances, WorldTypes DEF LeaseInv, LeaseTypes, Held
<1>2. UNCHANGED <<poll, snap, val, phase, active, fresh, req>> /\ clock <= clock' /\ clock' \in Nat
    BY SMTT(60) DEF World, ClockTick, SetWall, Outage, Publish, chanVars, loopVars, LeaseInv, LeaseTypes
<1>3. StampsHonest'
    BY SMTT(60), <1>1, <1>2, WorldTypes DEF LeaseInv, LeaseTypes, StampsHonest, Topologies
<1>4. RequestHonest'
    BY SMTT(60), <1>1, <1>2, WorldTypes DEF LeaseInv, LeaseTypes, RequestHonest
<1> QED
    BY <1>3, <1>4, WorldTypes, WorldOrder DEF LeaseInv

\* A later epoch, published or current, was held no earlier.
LEMMA HeldInOrder ==
    ASSUME LeaseInv, NEW e \in Epochs, NEW f \in Epochs, e <= f, f <= file.epoch
    PROVE  Held(e) <= Held(f) /\ Held(e) \in Nat /\ Held(f) \in Nat
<1>1. {e, f, file.epoch} \subseteq Nat
    BY EpochsKnown, EpochsAreNumbers DEF LeaseInv
<1>2. heldUntil[e] \in Nat /\ heldUntil[f] \in Nat /\ clock \in Nat /\ heldUntil[e] <= clock
    BY DEF LeaseInv, LeaseTypes, EpochsInOrder
<1>3. CASE f = file.epoch
    BY SMTT(60), <1>1, <1>2, <1>3 DEF Held
<1>4. CASE f < file.epoch
    BY SMTT(60), <1>1, <1>2, <1>4 DEF Held, LeaseInv, EpochsInOrder
<1> QED
    BY SMTT(60), <1>1, <1>3, <1>4

\* The poller reads the clock before the file, so what it announces was taken
\* while the source held the epoch it read.
LEMMA PollerStep ==
    ASSUME LeaseInv, Poller
    PROVE  LeaseInv'
<1> USE DEF LeaseInv, sourceVars, loopVars
<1>1. /\ UNCHANGED <<clock, skew, file, heldUntil, phase, active, fresh, req>>
      /\ \A e : Held(e)' = Held(e)
    BY DEF Poller, PollWall, PollBoot, PollRead, Apply, Announce, Held
<1>2. RequestHonest'
    BY <1>1 DEF RequestHonest
<1>3. {file.epoch, poll.read.epoch, snap.epoch, active} \subseteq Nat
    BY EpochsKnown
<1>4. CASE PollWall
  <2>1. poll' = [poll EXCEPT !.at = "boot", !.wall = Wall] /\ UNCHANGED <<snap, val>>
      BY <1>4 DEF PollWall
  <2>2. Wall \in Int
      BY SMTT(60) DEF Wall, LeaseTypes
  <2>3. LeaseTypes'
      BY <1>1, <2>1, <2>2 DEF LeaseTypes
  <2> QED
      BY <1>1, <1>2, <2>1, <2>3 DEF LeaseTypes, EpochsInOrder, StampsHonest
<1>5. CASE PollBoot
  <2>1. poll' = [poll EXCEPT !.at = "read", !.boot = clock] /\ UNCHANGED <<snap, val>>
      BY <1>5 DEF PollBoot
  <2>2. LeaseTypes'
      BY <1>1, <2>1 DEF LeaseTypes
  <2> QED
      BY SMTT(60), <1>1, <1>2, <2>1, <2>2 DEF LeaseTypes, EpochsInOrder, StampsHonest
<1>6. CASE PollRead
  <2>1. UNCHANGED <<snap, val>> /\ poll.at = "read"
      BY <1>6 DEF PollRead
  <2>2. CASE poll' = PollIdle
    <3>1. PollIdle.read.epoch = 1 /\ 1 \in Epochs /\ 1 <= file.epoch /\ PollIdle.at = "idle"
        BY SMTT(60), LeaseAssumption DEF PollIdle, Epochs, LeaseTypes, Topologies
    <3>2. LeaseTypes'
        BY SMTT(60), <1>1, <2>1, <2>2, <3>1 DEF LeaseTypes, PollIdle, Topologies
    <3> QED
        BY <1>1, <1>2, <2>1, <2>2, <3>1, <3>2 DEF EpochsInOrder, StampsHonest
  <2>3. CASE poll' = [poll EXCEPT !.at = "apply", !.read = file]
    <3>1. /\ poll'.at = "apply" /\ poll'.read = file /\ poll'.boot = poll.boot
          /\ poll.boot <= clock /\ Held(file.epoch) = clock
        BY <2>1, <2>3 DEF LeaseTypes, StampsHonest, Held
    <3>2. LeaseTypes'
        BY <1>1, <2>1, <2>3 DEF LeaseTypes
    <3> QED
        BY SMTT(60), <1>1, <1>2, <1>3, <2>1, <3>1, <3>2 DEF EpochsInOrder, StampsHonest
  <2> QED
      BY <1>6, <2>2, <2>3 DEF PollRead
<1>7. CASE Apply
  <2>1. /\ poll' = [poll EXCEPT !.at = "announce"] /\ UNCHANGED val /\ poll.at = "apply"
        /\ (snap' = poll.read /\ poll.read.epoch > snap.epoch) \/ snap' = snap
      BY <1>7 DEF Apply
  <2>2. poll'.at = "announce" /\ poll'.boot = poll.boot /\ poll'.read = poll.read
      BY <2>1 DEF LeaseTypes
  <2>3. LeaseTypes'
      BY <1>1, <2>1 DEF LeaseTypes
  <2>4. EpochsInOrder'
      BY SMTT(60), <1>1, <1>3, <2>1, <2>2 DEF EpochsInOrder
  <2> QED
      BY <1>1, <1>2, <2>1, <2>2, <2>3, <2>4 DEF StampsHonest
<1>8. CASE Announce
  <2>1. /\ poll' = PollIdle /\ UNCHANGED snap /\ poll.at = "announce"
        /\ val' = [epoch |-> poll.read.epoch, boot |-> poll.boot, wall |-> poll.wall]
      BY <1>8 DEF Announce
  <2>2. PollIdle.read.epoch = 1 /\ 1 \in Epochs /\ 1 <= file.epoch /\ PollIdle.at = "idle"
      BY SMTT(60), LeaseAssumption DEF PollIdle, Epochs, LeaseTypes, Topologies
  <2>3. LeaseTypes'
      BY SMTT(60), <1>1, <2>1, <2>2 DEF LeaseTypes, PollIdle, Topologies
  <2> QED
      BY <1>1, <1>2, <2>1, <2>2, <2>3 DEF EpochsInOrder, StampsHonest
<1> QED
    BY <1>4, <1>5, <1>6, <1>7, <1>8 DEF Poller

\* The start of the process takes the newest snapshot, and a stamp only if it
\* is of that epoch.
LEMMA MainStep ==
    ASSUME LeaseInv, Main
    PROVE  LeaseInv'
<1> USE DEF LeaseInv, sourceVars, chanVars
<1>1. /\ UNCHANGED <<clock, skew, file, heldUntil, poll, snap, val, req>>
      /\ \A e : Held(e)' = Held(e)
      /\ req.at = "idle"
    BY DEF Main, MainBuild, MainSeed, MainSpawn, Held, RequestHonest, LeaseTypes
<1>2. active \in Epochs /\ snap.epoch \in Epochs /\ file.epoch \in Nat /\ active \in Nat /\ snap.epoch \in Nat
    BY EpochsAreNumbers DEF LeaseTypes, Topologies
<1>3. CASE MainBuild
  <2>1. active' = snap.epoch /\ UNCHANGED fresh
      BY <1>3 DEF MainBuild
  <2>2. Held(active) <= Held(active') /\ Held(active) \in Nat /\ Held(active') \in Nat
      BY <1>2, <2>1, HeldInOrder DEF EpochsInOrder
  <2>3. LeaseTypes'
      BY <1>1, <1>2, <2>1 DEF LeaseTypes
  <2>4. fresh.boot <= Held(active')
      BY SMTT(60), <2>2 DEF StampsHonest, LeaseTypes
  <2> QED
      BY SMTT(60), <1>1, <1>2, <2>1, <2>3, <2>4 DEF EpochsInOrder, StampsHonest, RequestHonest
<1>4. CASE MainSeed
  <2>1. /\ UNCHANGED active
        /\ fresh' = IF val.epoch = active THEN [boot |-> val.boot, wall |-> val.wall] ELSE Unconfirmed
      BY <1>4 DEF MainSeed
  <2>2. Held(active) \in Nat
      BY <1>2, HeldInOrder DEF EpochsInOrder
  <2>3. LeaseTypes'
      BY SMTT(60), <1>1, <2>1 DEF LeaseTypes, Unconfirmed
  <2>4. fresh'.boot <= Held(active)
      BY SMTT(60), <2>1, <2>2 DEF StampsHonest, Unconfirmed
  <2> QED
      BY <1>1, <2>1, <2>3, <2>4 DEF EpochsInOrder, StampsHonest, RequestHonest
<1>5. CASE MainSpawn
  <2>1. UNCHANGED <<active, fresh>>
      BY <1>5 DEF MainSpawn
  <2> QED
      BY <1>1, <2>1 DEF LeaseTypes, EpochsInOrder, StampsHonest, RequestHonest
<1> QED
    BY <1>3, <1>4, <1>5 DEF Main

\* What a look at the newest announcement does to the stamp.
LEMMA StampEffect ==
    ASSUME LeaseInv, UNCHANGED active, \A e : Held(e)' = Held(e),
           IF val.epoch = active THEN Install(val) ELSE UNCHANGED fresh
    PROVE  /\ fresh' \in [boot : Nat, wall : Int] /\ fresh'.boot <= Held(active)
           /\ fresh'.boot >= fresh.boot
           /\ val.epoch = active => fresh'.boot >= val.boot
<1> USE DEF LeaseInv, LeaseTypes
<1>1. fresh.boot \in Nat /\ val.boot \in Nat /\ val.wall \in Int
    BY DEF LeaseTypes
<1>2. CASE fresh' = fresh /\ ~(val.epoch = active /\ val.boot > fresh.boot)
    BY SMTT(60), <1>1, <1>2 DEF StampsHonest
<1>3. CASE val.epoch = active /\ val.boot > fresh.boot /\ fresh' = [boot |-> val.boot, wall |-> val.wall]
    BY SMTT(60), <1>1, <1>3 DEF StampsHonest
<1> QED
    BY <1>2, <1>3 DEF Install

\* The watch loop swaps only to a newer epoch, and stamps the one in use.
LEMMA WatchStep ==
    ASSUME LeaseInv, Watch
    PROVE  LeaseInv'
<1> USE DEF LeaseInv, sourceVars, chanVars
<1>1. /\ UNCHANGED <<clock, skew, file, heldUntil, poll, snap, val, req, phase>>
      /\ \A e : Held(e)' = Held(e)
    BY DEF Watch, WatchValidated, WatchUpdate, WatchConsult, Held
<1>2. active \in Epochs /\ snap.epoch \in Epochs /\ file.epoch \in Nat /\ active \in Nat /\ snap.epoch \in Nat
    BY EpochsAreNumbers DEF LeaseTypes, Topologies
<1>3. CASE WatchValidated \/ WatchConsult
  <2>1. UNCHANGED active /\ (IF val.epoch = active THEN Install(val) ELSE UNCHANGED fresh)
      BY <1>3 DEF WatchValidated, WatchConsult
  <2>2. fresh' \in [boot : Nat, wall : Int] /\ fresh'.boot <= Held(active)
      BY <1>1, <2>1, StampEffect
  <2>3. LeaseTypes'
      BY <1>1, <2>1, <2>2 DEF LeaseTypes
  <2> QED
      BY <1>1, <2>1, <2>2, <2>3 DEF EpochsInOrder, StampsHonest, RequestHonest
<1>4. CASE WatchUpdate
  <2>1. UNCHANGED fresh /\ (active' = active \/ active' = snap.epoch)
      BY <1>4 DEF WatchUpdate
  <2>2. active' \in Epochs /\ active' \in Nat /\ active <= active' /\ active' <= snap.epoch /\ active' <= file.epoch
      BY SMTT(60), <1>2, <2>1 DEF EpochsInOrder
  <2>3. Held(active) <= Held(active') /\ Held(active) \in Nat /\ Held(active') \in Nat
      BY <1>2, <2>2, HeldInOrder
  <2>4. LeaseTypes'
      BY <1>1, <2>1, <2>2 DEF LeaseTypes
  <2>5. fresh.boot <= Held(active')
      BY SMTT(60), <2>3 DEF StampsHonest, LeaseTypes
  <2>6. req.epoch \in Nat
      BY EpochsAreNumbers DEF LeaseTypes
  <2>7. RequestHonest'
    <3>1. req.at # "idle" => phase' = "run" /\ req.epoch <= active'
        BY SMTT(60), <1>1, <1>2, <2>2, <2>6 DEF RequestHonest
    <3>2. req.at = "boot" /\ req.epoch = active' => req.epoch = active
        BY SMTT(60), <1>2, <2>2, <2>6 DEF RequestHonest
    <3>3. req.stamp.boot \in Nat
        BY DEF LeaseTypes
    <3> QED
        BY <1>1, <2>3, <3>1, <3>2, <3>3 DEF RequestHonest
  <2> QED
      BY <1>1, <1>2, <2>1, <2>2, <2>4, <2>5, <2>7 DEF EpochsInOrder, StampsHonest
<1> QED
    BY <1>3, <1>4 DEF Watch

\* A request takes its epoch and its stamp from the router.
LEMMA RequestStep ==
    ASSUME LeaseInv, Request
    PROVE  LeaseInv'
<1> USE DEF LeaseInv, sourceVars, chanVars, loopVars
<1>1. /\ UNCHANGED <<clock, skew, file, heldUntil, poll, snap, val, phase, active, fresh>>
      /\ \A e : Held(e)' = Held(e)
    BY DEF Request, Load, AgeWall, AgeBoot, Finish, Held
<1>2. EpochsInOrder' /\ StampsHonest'
    BY <1>1 DEF EpochsInOrder, StampsHonest
<1>3. active \in Nat /\ req.epoch \in Nat
    BY EpochsAreNumbers DEF LeaseTypes
<1>4. CASE Load
  <2>1. req' = [req EXCEPT !.at = "wall", !.epoch = active] /\ phase = "run"
      BY SMTT(60), <1>4 DEF Load
  <2>2. LeaseTypes'
      BY <1>1, <2>1 DEF LeaseTypes
  <2>3. req'.at = "wall" /\ req'.epoch = active
      BY <2>1 DEF LeaseTypes
  <2> QED
      BY SMTT(60), <1>1, <1>2, <1>3, <2>1, <2>2, <2>3 DEF RequestHonest
<1>5. CASE AgeWall
  <2>1. PICK age \in Int : req' = [req EXCEPT !.at = "boot", !.stamp = fresh, !.wallAge = age]
    <3>1. (IF Wall < fresh.wall THEN Far ELSE Wall - fresh.wall) \in Int
        BY SMTT(60), LeaseAssumption DEF Wall, Far, LeaseTypes
    <3> QED
        BY <1>5, <3>1 DEF AgeWall
  <2>2. LeaseTypes'
      BY <1>1, <2>1 DEF LeaseTypes
  <2>3. req'.at = "boot" /\ req'.epoch = req.epoch /\ req'.stamp = fresh /\ req.at = "wall"
      BY <1>5, <2>1 DEF LeaseTypes, AgeWall
  <2> QED
      BY <1>1, <1>2, <2>2, <2>3 DEF RequestHonest, StampsHonest
<1>6. CASE AgeBoot
  <2>1. PICK at \in {"barred", "writes"} : req' = [req EXCEPT !.at = at]
      BY <1>6 DEF AgeBoot
  <2>2. LeaseTypes'
      BY <1>1, <2>1 DEF LeaseTypes
  <2>3. req'.at = at /\ req'.epoch = req.epoch /\ req.at = "boot"
      BY <1>6, <2>1 DEF LeaseTypes, AgeBoot
  <2> QED
      BY <1>1, <1>2, <2>2, <2>3 DEF RequestHonest
<1>7. CASE Finish
  <2>1. req' = NoRequest /\ NoRequest.at = "idle"
      BY <1>7 DEF Finish, NoRequest
  <2>2. 1 \in Epochs
      BY SMTT(60), LeaseAssumption DEF Epochs
  <2>3. LeaseTypes'
      BY SMTT(60), <1>1, <2>1, <2>2 DEF LeaseTypes, NoRequest, Unconfirmed
  <2> QED
      BY <1>1, <1>2, <2>1, <2>3 DEF RequestHonest
<1> QED
    BY <1>4, <1>5, <1>6, <1>7 DEF Request

\* The invariant holds in every reachable state.
LEMMA LeaseInvariant == LeaseSpec => []LeaseInv
<1>1. LeaseInit => LeaseInv
  <2> SUFFICES ASSUME LeaseInit PROVE LeaseInv
      OBVIOUS
  <2>1. 1 \in Epochs /\ skew \in Nat
      BY SMTT(60), LeaseAssumption DEF LeaseInit, Epochs
  <2>2. LeaseTypes
      BY SMTT(60), <2>1 DEF LeaseInit, LeaseTypes, Topologies, PollIdle, Unconfirmed, NoRequest, Wall
  <2>3. EpochsInOrder
      BY SMTT(60), <2>1, EpochsAreNumbers DEF LeaseInit, EpochsInOrder, PollIdle
  <2>4. StampsHonest /\ RequestHonest
      BY SMTT(60), <2>1 DEF LeaseInit, StampsHonest, RequestHonest, PollIdle, Unconfirmed, NoRequest, Held
  <2> QED
      BY <2>2, <2>3, <2>4 DEF LeaseInv
<1>2. LeaseInv /\ [LeaseNext]_leaseVars => LeaseInv'
  <2> SUFFICES ASSUME LeaseInv, [LeaseNext]_leaseVars PROVE LeaseInv'
      OBVIOUS
  <2>1. CASE UNCHANGED leaseVars
      BY SMTT(60), <2>1 DEF leaseVars, sourceVars, chanVars, loopVars, LeaseInv, LeaseTypes, EpochsInOrder,
          StampsHonest, RequestHonest, Held
  <2> QED
      BY <2>1, WorldStep, PollerStep, MainStep, WatchStep, RequestStep DEF LeaseNext
<1> QED
    BY <1>1, <1>2, PTL DEF LeaseSpec

\* A stamp is never newer than the last moment the source held the epoch of
\* the router in use (watch_topology_leased, FileWatcher), for any clocks,
\* polls, swaps and snapshots that do not build.
THEOREM StampIsHonest == LeaseSpec => []LeaseHonest
<1>1. LeaseInv => LeaseHonest
    BY DEF LeaseInv, StampsHonest, LeaseHonest
<1> QED
    BY <1>1, LeaseInvariant, PTL

\* A request that may write was admitted within the lease of the moment the
\* source moved on from its epoch, or the router was swapped under it
\* (Freshness::age and the check in wire.rs).
THEOREM WritesWithinLease == LeaseSpec => AdmittedWithinLease
<1> DEFINE A == req'.at = "writes" /\ req.at = "boot" =>
                   clock <= Held(req.epoch) + WriteLease \/ active # req.epoch
<1>1. LeaseInv /\ [LeaseNext]_leaseVars => [A]_leaseVars
  <2> SUFFICES ASSUME LeaseInv, LeaseNext, req'.at = "writes", req.at = "boot", active = req.epoch
               PROVE  clock <= Held(req.epoch) + WriteLease
      OBVIOUS
  <2>1. AgeBoot
    <3>1. req' # req
        OBVIOUS
    <3>2. ~World /\ ~Poller /\ ~Main /\ ~Watch
        BY <3>1 DEF World, ClockTick, SetWall, Publish, Outage, Poller, PollWall, PollBoot, PollRead, Apply,
            Announce, Main, MainBuild, MainSeed, MainSpawn, Watch, WatchValidated, WatchUpdate, WatchConsult
    <3> QED
        BY <3>2 DEF LeaseNext, Request, Load, AgeWall, Finish
  <2>2. ~(clock - req.stamp.boot > WriteLease)
      BY <2>1 DEF AgeBoot, LeaseInv, LeaseTypes
  <2>3. req.stamp.boot <= Held(req.epoch)
      BY DEF LeaseInv, RequestHonest
  <2>4. {clock, req.stamp.boot, WriteLease, Held(req.epoch)} \subseteq Nat
      BY SMTT(60), LeaseAssumption DEF LeaseInv, LeaseTypes, Held
  <2> QED
      BY SMTT(60), <2>2, <2>3, <2>4
<1> QED
    BY <1>1, LeaseInvariant, PTL DEF LeaseSpec, AdmittedWithinLease

\* An announcement the loop has consumed has renewed the lease of its epoch,
\* in whichever order the snapshot and the announcement of one poll were taken
\* (the second look after a swap in watch_topology_leased).
THEOREM AnnouncementsRenew == LeaseSpec => []AnnouncementsCount
<1>1. LeaseInit => CountInv
    BY DEF LeaseInit, CountInv
<1>2. LeaseInv /\ CountInv /\ [LeaseNext]_leaseVars => CountInv'
  <2> SUFFICES ASSUME LeaseInv, CountInv, [LeaseNext]_leaseVars PROVE CountInv'
      OBVIOUS
  <2> USE DEF sourceVars, chanVars, loopVars
  <2>1. CASE UNCHANGED leaseVars \/ World \/ Request \/ PollWall \/ PollBoot \/ PollRead \/ Apply
    <3>1. UNCHANGED <<val, valNew, missed, phase, active, consult, fresh>>
        BY <2>1 DEF leaseVars, World, ClockTick, SetWall, Publish, Outage, Request, Load, AgeWall, AgeBoot,
            Finish, PollWall, PollBoot, PollRead, Apply
    <3> QED
        BY <3>1 DEF CountInv
  <2>2. CASE Announce
      BY <2>2 DEF Announce, CountInv
  <2>3. CASE Main
      BY <2>3 DEF Main, MainBuild, MainSeed, MainSpawn, CountInv
  <2>4. CASE WatchUpdate
      BY <2>4 DEF WatchUpdate, CountInv
  <2>5. CASE WatchValidated \/ WatchConsult
    <3>1. /\ UNCHANGED <<active, val, missed, phase>>
          /\ IF val.epoch = active THEN Install(val) ELSE UNCHANGED fresh
        BY <2>5 DEF WatchValidated, WatchConsult
    <3>2. \A e : Held(e)' = Held(e)
        BY <2>5 DEF WatchValidated, WatchConsult, Held
    <3>3. val.epoch = active => fresh'.boot >= val.boot
        BY <3>1, <3>2, StampEffect
    <3> QED
        BY <3>1, <3>3 DEF CountInv
  <2> QED
      BY <2>1, <2>2, <2>3, <2>4, <2>5 DEF LeaseNext, Poller, Watch
<1>3. CountInv => AnnouncementsCount
    BY SMTT(60) DEF CountInv, AnnouncementsCount
<1> QED
    BY <1>1, <1>2, <1>3, LeaseInvariant, PTL DEF LeaseSpec
=============================================================================
