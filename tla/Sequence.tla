------------------------------ MODULE Sequence ------------------------------
(***************************************************************************)
(* One global sequence: its row in the system database, and the routers    *)
(* that reserve blocks of ids from it and hand the ids out                 *)
(* (crates/pgshard-seq/src/lib.rs, crates/pgshard-router/src/sequence.rs). *)
(* Sequences share nothing but the reservation connection, which only      *)
(* serializes them, so one is modelled.                                    *)
(*                                                                         *)
(* Threads of a router contend for its cache. What a thread does under the *)
(* cache's mutex is one action; the reservation runs without it. The       *)
(* UPDATE may fail, may commit with its answer lost, may commit after the  *)
(* caller gave up, may be made by a router that dies before using it.      *)
(***************************************************************************)
EXTENDS Integers

CONSTANTS
    Routers, Threads, Home,  \* Home[t] is the router a thread belongs to
    MaxId,                   \* the largest bigint
    BlockSizes,              \* what an administrator may set block_size to
    MaxLost                  \* bound: UPDATEs in flight with nobody waiting

ASSUME SequenceAssumption ==
    /\ Home \in [Threads -> Routers]
    /\ MaxId \in Nat
    /\ BlockSizes \subseteq Int
    /\ MaxLost \in Nat

VARIABLES
    nextId, blockSize,   \* the row of pgshard.sequences
    lost,                \* UPDATEs still running whose caller is gone
    lo, hi, reserving,   \* per router: the block [lo, hi) and the claim
    pc, grantLo, grantHi,      \* per thread: where it is, the block it was granted
    given, twice         \* history: ids handed out; was one handed out twice

seqVars == <<nextId, blockSize, lost, lo, hi, reserving, pc, grantLo, grantHi, given, twice>>

SeqInit ==
    /\ nextId = 0 /\ blockSize \in {n \in BlockSizes : n > 0} /\ lost = 0
    /\ lo = [r \in Routers |-> 0] /\ hi = [r \in Routers |-> 0]
    /\ reserving = [r \in Routers |-> FALSE]
    /\ pc = [t \in Threads |-> "idle"]
    /\ grantLo = [t \in Threads |-> 0] /\ grantHi = [t \in Threads |-> 0]
    /\ given = {} /\ twice = FALSE

HandOut(id) == given' = given \cup {id} /\ twice' = (twice \/ id \in given)

\* A plausible slip: the row advances by one less than the block returned.
AdvanceShort == nextId' = nextId + blockSize - 1

\* RESERVE_SQL: no advance for a non-positive block_size; PostgreSQL refuses to
\* advance past the bigint range.
Advances == blockSize > 0 /\ nextId + blockSize <= MaxId
AdvanceRow == nextId' = nextId + blockSize

\* A caller enters next_id.
Call(t) ==
    /\ pc[t] = "idle"
    /\ pc' = [pc EXCEPT ![t] = "enter"]
    /\ UNCHANGED <<nextId, blockSize, lost, lo, hi, reserving, grantLo, grantHi, given, twice>>

\* The head of next_id's loop: take an id, wait for whoever is reserving, or
\* claim the reservation.
Enter(t) ==
    LET r == Home[t]
    IN  /\ pc[t] = "enter"
        /\ \/ /\ lo[r] < hi[r]
              /\ lo' = [lo EXCEPT ![r] = @ + 1]
              /\ HandOut(lo[r])
              /\ pc' = [pc EXCEPT ![t] = "idle"]
              /\ UNCHANGED reserving
           \/ /\ lo[r] >= hi[r] /\ reserving[r]
              /\ pc' = [pc EXCEPT ![t] = "wait"]
              /\ UNCHANGED <<lo, reserving, given, twice>>
           \/ /\ lo[r] >= hi[r] /\ ~reserving[r]
              /\ reserving' = [reserving EXCEPT ![r] = TRUE]
              /\ pc' = [pc EXCEPT ![t] = "reserve"]
              /\ UNCHANGED <<lo, given, twice>>
        /\ UNCHANGED <<nextId, blockSize, lost, hi, grantLo, grantHi>>

\* The UPDATE commits and its answer arrives: [next_id - block_size, next_id).
Granted(t) ==
    /\ pc[t] = "reserve" /\ Advances
    /\ AdvanceRow
    /\ grantLo' = [grantLo EXCEPT ![t] = nextId]
    /\ grantHi' = [grantHi EXCEPT ![t] = nextId + blockSize]
    /\ pc' = [pc EXCEPT ![t] = "granted"]
    /\ UNCHANGED <<blockSize, lost, lo, hi, reserving, given, twice>>

\* The reservation fails: no connection, a row that cannot advance, a timeout,
\* an answer lost. The UPDATE may be left running.
NotGranted(t) ==
    /\ pc[t] = "reserve"
    /\ pc' = [pc EXCEPT ![t] = "failed"]
    /\ lost' \in {lost} \cup {n \in {lost + 1} : n <= MaxLost}
    /\ UNCHANGED <<nextId, blockSize, lo, hi, reserving, grantLo, grantHi, given, twice>>

LateCommit ==
    /\ lost > 0
    /\ lost' = lost - 1
    /\ IF Advances THEN AdvanceRow ELSE UNCHANGED nextId
    /\ UNCHANGED <<blockSize, lo, hi, reserving, pc, grantLo, grantHi, given, twice>>

\* The claim is given up and every waiter woken; a thread of t's router that
\* waits goes back to the head of the loop.
Release(t, to) ==
    /\ reserving' = [reserving EXCEPT ![Home[t]] = FALSE]
    /\ pc' = [s \in Threads |-> IF s = t THEN to
                                ELSE IF pc[s] = "wait" /\ Home[s] = Home[t] THEN "enter"
                                ELSE pc[s]]

\* A plausible slip: a failed reservation clears the claim without a notify.
ReleaseQuietly(t, to) ==
    /\ reserving' = [reserving EXCEPT ![Home[t]] = FALSE]
    /\ pc' = [pc EXCEPT ![t] = to]

InstallBlock(t) ==
    /\ pc[t] = "granted"
    /\ Release(t, "idle")
    /\ lo' = [lo EXCEPT ![Home[t]] = grantLo[t] + 1]
    /\ hi' = [hi EXCEPT ![Home[t]] = grantHi[t]]
    /\ HandOut(grantLo[t])
    /\ grantLo' = [grantLo EXCEPT ![t] = 0] /\ grantHi' = [grantHi EXCEPT ![t] = 0]
    /\ UNCHANGED <<nextId, blockSize, lost>>

GiveUpQuietly(t) ==
    /\ pc[t] = "failed"
    /\ ReleaseQuietly(t, "idle")
    /\ UNCHANGED <<nextId, blockSize, lost, lo, hi, grantLo, grantHi, given, twice>>

\* The error is returned, or a panic unwinds through the claim's drop.
GiveUp(t) ==
    /\ pc[t] = "failed"
    /\ Release(t, "idle")
    /\ UNCHANGED <<nextId, blockSize, lost, lo, hi, grantLo, grantHi, given, twice>>

\* A router dies with its block and its callers; an UPDATE it sent may live on.
Crash(r) ==
    /\ lo' = [lo EXCEPT ![r] = 0] /\ hi' = [hi EXCEPT ![r] = 0]
    /\ reserving' = [reserving EXCEPT ![r] = FALSE]
    /\ pc' = [t \in Threads |-> IF Home[t] = r THEN "idle" ELSE pc[t]]
    /\ lost' \in {lost} \cup {n \in {lost + 1} : n <= MaxLost /\ reserving[r]}
    /\ grantLo' = [t \in Threads |-> IF Home[t] = r THEN 0 ELSE grantLo[t]]
    /\ grantHi' = [t \in Threads |-> IF Home[t] = r THEN 0 ELSE grantHi[t]]
    /\ UNCHANGED <<nextId, blockSize, given, twice>>

\* An administrator edits block_size.
Configure ==
    /\ blockSize' \in BlockSizes
    /\ UNCHANGED <<nextId, lost, lo, hi, reserving, pc, grantLo, grantHi, given, twice>>

Step(t) == Enter(t) \/ Granted(t) \/ NotGranted(t) \/ InstallBlock(t) \/ GiveUp(t)

SeqNext ==
    \/ \E t \in Threads : Call(t) \/ Step(t)
    \/ LateCommit
    \/ \E r \in Routers : Crash(r)
    \/ Configure

SeqSpec == SeqInit /\ [][SeqNext]_seqVars

-----------------------------------------------------------------------------
PCs == {"idle", "enter", "wait", "reserve", "granted", "failed"}

SeqTypeOK ==
    /\ nextId \in Nat /\ blockSize \in Int /\ lost \in Nat
    /\ lo \in [Routers -> Nat] /\ hi \in [Routers -> Nat]
    /\ reserving \in [Routers -> BOOLEAN]
    /\ pc \in [Threads -> PCs]
    /\ grantLo \in [Threads -> Nat] /\ grantHi \in [Threads -> Nat]
    /\ given \subseteq Nat /\ twice \in BOOLEAN

\* The reservation of a sequence's ids through the one row keeps them apart:
\* no id is ever handed out twice, by one router or by two, whatever
\* reservations fail, get lost, commit late or die with their router, and
\* however block_size is edited meanwhile.
UniqueIds == ~twice

\* "Concurrent callers that drain a block are single-flighted": at most one
\* thread of a router is reserving, and no thread sleeps on the condvar unless
\* another one holds the claim and will wake it ("otherwise the sequence would
\* deadlock forever").
Claims(t) == pc[t] \in {"reserve", "granted", "failed"}
SingleFlight ==
    /\ \A s, t \in Threads : Claims(s) /\ Claims(t) /\ Home[s] = Home[t] => s = t
    /\ \A t \in Threads : pc[t] = "wait" => \E s \in Threads : Claims(s) /\ Home[s] = Home[t]
=============================================================================
