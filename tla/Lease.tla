-------------------------------- MODULE Lease --------------------------------
(***************************************************************************)
(* How a router follows its topology source and bounds how stale it may    *)
(* write: the file watcher, the swap of routing snapshots, the freshness   *)
(* stamp and the write lease (crates/pgshard-topo/src/lib.rs and file.rs,  *)
(* crates/pgshard-router/src/lib.rs, main.rs and wire.rs).                 *)
(*                                                                         *)
(* The poller, the start of the process, the watch loop and a client's     *)
(* request interleave. The source is a file that holds one topology at a   *)
(* time: an epoch that builds, or one the router refuses (a gated one);    *)
(* at times it cannot be read. Time is the boot clock, which counts        *)
(* through suspends, and a wall clock that can be set.                     *)
(***************************************************************************)
EXTENDS Integers

CONSTANTS
    MaxEpoch, MaxTime,   \* bounds on the epochs published and the time
    WriteLease,          \* writeLeaseSeconds
    Skews                \* wall clock minus boot clock

ASSUME LeaseAssumption ==
    /\ MaxEpoch \in Nat \ {0} /\ MaxTime \in Nat /\ WriteLease \in Nat
    /\ Skews \subseteq Nat /\ Skews # {}

VARIABLES
    clock, skew,          \* the clocks: boot time, and wall time minus boot time
    file, readable,     \* the source: [epoch, builds]
    heldUntil,          \* history: when each epoch last was in the file
    poll,               \* the poller: [at, boot, wall, read]
    snap, snapNew,      \* the snapshot channel: value, unseen by the watch loop
    val, valNew,        \* the announcement channel: [epoch, boot, wall], unseen
    missed,             \* history: val was sent before the loop subscribed
    phase,              \* main: "build", "seed", "spawn", "run" or "exit"
    active,             \* the epoch of the router in use
    consult,            \* the loop has swapped and not yet looked at val
    fresh,              \* the freshness stamp: [boot, wall]
    req                 \* one client request: [at, epoch, stamp, wallAge]

sourceVars == <<clock, skew, file, readable, heldUntil>>
chanVars == <<poll, snap, snapNew, val, valNew, missed>>
loopVars == <<phase, active, consult, fresh>>
leaseVars == <<sourceVars, chanVars, loopVars, req>>

Epochs == 1 .. MaxEpoch
Wall == clock + skew
Far == MaxTime + MaxTime + WriteLease + 1   \* Duration::MAX

\* The unconfirmed stamp: boot zero, the Unix epoch.
Unconfirmed == [boot |-> 0, wall |-> 0]
NoRequest == [at |-> "idle", epoch |-> 1, stamp |-> Unconfirmed, wallAge |-> 0]
PollIdle == [at |-> "idle", boot |-> 0, wall |-> 0, read |-> [epoch |-> 1, builds |-> TRUE]]

\* FileWatcher::start has loaded the first snapshot and stamped it.
LeaseInit ==
    /\ clock = 1 /\ skew \in Skews
    /\ file \in [epoch : {1}, builds : BOOLEAN] /\ readable = TRUE
    /\ heldUntil = [e \in Epochs |-> 0]
    /\ poll = PollIdle
    /\ snap = file /\ snapNew = FALSE
    /\ val = [epoch |-> 1, boot |-> clock, wall |-> Wall] /\ valNew = FALSE /\ missed = TRUE
    /\ phase = "build" /\ active = 1
    /\ consult = FALSE /\ fresh = Unconfirmed
    /\ req = NoRequest

-----------------------------------------------------------------------------
(* The world: time, the wall clock, and whoever writes the file. *)

ClockTick ==
    /\ clock < MaxTime /\ clock' = clock + 1
    /\ UNCHANGED <<skew, file, readable, heldUntil, chanVars, loopVars, req>>

SetWall ==
    /\ skew' \in Skews \ {skew}
    /\ UNCHANGED <<clock, file, readable, heldUntil, chanVars, loopVars, req>>

Publish ==
    /\ file.epoch < MaxEpoch
    /\ file' \in [epoch : {file.epoch + 1}, builds : BOOLEAN]
    /\ heldUntil' = [heldUntil EXCEPT ![file.epoch] = clock]
    /\ readable' \in BOOLEAN
    /\ UNCHANGED <<clock, skew, chanVars, loopVars, req>>

Outage ==
    /\ readable' = ~readable
    /\ UNCHANGED <<clock, skew, file, heldUntil, chanVars, loopVars, req>>

-----------------------------------------------------------------------------
(* file.rs: the poller. *)

\* The clocks are read before the file, the wall clock first.
PollWall ==
    /\ poll.at = "idle"
    /\ poll' = [poll EXCEPT !.at = "boot", !.wall = Wall]
    /\ UNCHANGED <<sourceVars, snap, snapNew, val, valNew, missed, loopVars, req>>

PollBoot ==
    /\ poll.at = "boot"
    /\ poll' = [poll EXCEPT !.at = "read", !.boot = clock]
    /\ UNCHANGED <<sourceVars, snap, snapNew, val, valNew, missed, loopVars, req>>

PollRead ==
    /\ poll.at = "read"
    /\ poll' = IF readable THEN [poll EXCEPT !.at = "apply", !.read = file] ELSE PollIdle
    /\ UNCHANGED <<sourceVars, snap, snapNew, val, valNew, missed, loopVars, req>>

\* A plausible slip: only the very next epoch is taken.
ApplyNext ==
    /\ poll.at = "apply"
    /\ poll' = [poll EXCEPT !.at = "announce"]
    /\ IF poll.read.epoch = snap.epoch + 1
       THEN snap' = poll.read /\ snapNew' = (phase # "build")
       ELSE UNCHANGED <<snap, snapNew>>
    /\ UNCHANGED <<sourceVars, val, valNew, missed, loopVars, req>>

Apply ==
    /\ poll.at = "apply"
    /\ poll' = [poll EXCEPT !.at = "announce"]
    /\ IF poll.read.epoch > snap.epoch
       THEN snap' = poll.read /\ snapNew' = (phase # "build")
       ELSE UNCHANGED <<snap, snapNew>>
    /\ UNCHANGED <<sourceVars, val, valNew, missed, loopVars, req>>

\* A plausible slip: the announcement carries the time it is made.
AnnounceNow ==
    /\ poll.at = "announce"
    /\ poll' = PollIdle
    /\ val' = [epoch |-> poll.read.epoch, boot |-> clock, wall |-> Wall]
    /\ valNew' = (phase = "run") /\ missed' = (phase # "run")
    /\ UNCHANGED <<sourceVars, snap, snapNew, loopVars, req>>

\* After the snapshot, so that nobody hears of one that is not there yet. An
\* announcement made before the loop subscribes counts as seen.
Announce ==
    /\ poll.at = "announce"
    /\ poll' = PollIdle
    /\ val' = [epoch |-> poll.read.epoch, boot |-> poll.boot, wall |-> poll.wall]
    /\ valNew' = (phase = "run") /\ missed' = (phase # "run")
    /\ UNCHANGED <<sourceVars, snap, snapNew, loopVars, req>>

-----------------------------------------------------------------------------
(* main.rs: the start of the process, while the poller already runs. *)

\* The first snapshot must build.
MainBuild ==
    /\ phase = "build"
    /\ phase' = IF snap.builds THEN "seed" ELSE "exit"
    /\ active' = snap.epoch
    /\ UNCHANGED <<sourceVars, chanVars, consult, fresh, req>>

\* The stamp is seeded from the newest validation, if that is of this epoch.
MainSeed ==
    /\ phase = "seed"
    /\ phase' = "spawn"
    /\ fresh' = IF val.epoch = active THEN [boot |-> val.boot, wall |-> val.wall] ELSE Unconfirmed
    /\ UNCHANGED <<sourceVars, chanVars, active, consult, req>>

MainSpawn ==
    /\ phase = "spawn"
    /\ phase' = "run"
    /\ UNCHANGED <<sourceVars, chanVars, active, consult, fresh, req>>

-----------------------------------------------------------------------------
(* lib.rs: watch_topology_leased. *)

\* A stamp that is not newer than the installed one is ignored.
Install(v) == fresh' = IF v.boot > fresh.boot THEN [boot |-> v.boot, wall |-> v.wall] ELSE fresh

WatchValidated ==
    /\ phase = "run" /\ ~consult /\ valNew
    /\ valNew' = FALSE
    /\ IF val.epoch = active THEN Install(val) ELSE UNCHANGED fresh
    /\ UNCHANGED <<sourceVars, poll, snap, snapNew, val, missed, phase, active, consult, req>>

\* A new snapshot: swap the router in, or keep the one in use.
WatchUpdate ==
    /\ phase = "run" /\ ~consult /\ snapNew
    /\ snapNew' = FALSE
    /\ IF snap.builds THEN active' = snap.epoch /\ consult' = TRUE ELSE UNCHANGED <<active, consult>>
    /\ UNCHANGED <<sourceVars, poll, snap, val, valNew, missed, phase, fresh, req>>

\* A plausible slip: after a swap the loop goes straight back to waiting.
WatchForget ==
    /\ consult /\ consult' = FALSE
    /\ UNCHANGED <<sourceVars, chanVars, phase, active, fresh, req>>

\* Look at the newest announcement, which may have been consumed before the
\* swap; it stays unseen if it was.
WatchConsult ==
    /\ consult /\ consult' = FALSE
    /\ IF val.epoch = active THEN Install(val) ELSE UNCHANGED fresh
    /\ UNCHANGED <<sourceVars, chanVars, phase, active, req>>

-----------------------------------------------------------------------------
(* wire.rs: a request, against the snapshot it loads first. *)

Load ==
    /\ phase = "run" /\ req.at = "idle"
    /\ req' = [req EXCEPT !.at = "wall", !.epoch = active]
    /\ UNCHANGED <<sourceVars, chanVars, loopVars>>

\* Freshness::age: the stamp and the wall clock first, the boot clock second.
AgeWall ==
    /\ req.at = "wall"
    /\ req' = [req EXCEPT !.at = "boot", !.stamp = fresh,
                          !.wallAge = IF Wall < fresh.wall THEN Far ELSE Wall - fresh.wall]
    /\ UNCHANGED <<sourceVars, chanVars, loopVars>>

\* A plausible slip: the wall clock alone is trusted.
AgeWallOnly ==
    /\ req.at = "boot"
    /\ req' = [req EXCEPT !.at = IF req.wallAge > WriteLease THEN "barred" ELSE "writes"]
    /\ UNCHANGED <<sourceVars, chanVars, loopVars>>

\* Past the lease the request may not write: it is refused or runs read-only.
AgeBoot ==
    /\ req.at = "boot"
    /\ req' = [req EXCEPT !.at = IF req.wallAge > WriteLease \/ clock - req.stamp.boot > WriteLease
                                 THEN "barred" ELSE "writes"]
    /\ UNCHANGED <<sourceVars, chanVars, loopVars>>

Finish ==
    /\ req.at \in {"barred", "writes"}
    /\ req' = NoRequest
    /\ UNCHANGED <<sourceVars, chanVars, loopVars>>

-----------------------------------------------------------------------------
World == ClockTick \/ SetWall \/ Publish \/ Outage
Poller == PollWall \/ PollBoot \/ PollRead \/ Apply \/ Announce
Main == MainBuild \/ MainSeed \/ MainSpawn
Watch == WatchValidated \/ WatchUpdate \/ WatchConsult
Request == Load \/ AgeWall \/ AgeBoot \/ Finish

LeaseNext == World \/ Poller \/ Main \/ Watch \/ Request
LeaseSpec == LeaseInit /\ [][LeaseNext]_leaseVars

-----------------------------------------------------------------------------
\* The last moment at which the source held an epoch.
Held(e) == IF file.epoch = e THEN clock ELSE heldUntil[e]

\* The stamp is never newer than the world it vouches for: the source still
\* held the epoch of the router in use when the stamp was taken. This is what
\* makes an age a bound on how long a cutover can have gone unseen, through
\* delayed polls, suspends, swaps and snapshots that do not build.
LeaseHonest == phase \in {"spawn", "run"} => fresh.boot <= Held(active)

\* A request that may write was admitted within the lease of the moment its
\* snapshot stopped being the source's, or that snapshot was swapped out while
\* the request was under way ("that window is one request's latency, not the
\* staleness the lease bounds").
AdmittedWithinLease ==
    [][req'.at = "writes" /\ req.at = "boot" =>
          \/ clock <= Held(req.epoch) + WriteLease
          \/ active # req.epoch]_leaseVars

\* Once the loop has handled what was sent to it, the newest announcement of
\* the epoch in use has renewed the lease, in whichever order the snapshot and
\* the announcement of one poll were taken.
AnnouncementsCount ==
    phase = "run" /\ ~snapNew /\ ~valNew /\ ~consult /\ ~missed /\ val.epoch = active
        => fresh.boot >= val.boot

\* Once the source stays readable at an epoch that builds, the router comes to
\* serve it and its lease is renewed by polls no older than that.
Follows ==
    \A e \in Epochs :
        <>[](readable /\ file.builds /\ file.epoch = e /\ phase # "exit") =>
            <>[](active = e /\ fresh.boot = clock)
=============================================================================
