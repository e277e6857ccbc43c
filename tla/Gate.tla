-------------------------------- MODULE Gate --------------------------------
(* The router's buffering gate engine (pgshard-gate).  Every public operation  *)
(* holds the engine's mutex from start to end, so it is one step here.  Client *)
(* sessions follow the recheck contract of the crate: a released session       *)
(* re-plans and calls check again until check lets it through.                 *)
EXTENDS Naturals, Sequences, FiniteSets, FiniteSetsExt

CONSTANTS
    Sessions,         \* client sessions, each with one statement
    Scope,            \* Scope[s]: what the statement of s touches
    Specs,            \* the gate specifications a coordinator may assert
    MaxSessions,      \* GateLimits.max_sessions
    MaxTotal,         \* GateLimits.max_total_sessions
    MaxWait,          \* GateLimits.max_wait
    MaxGeneration,    \* bound: topology generations
    LastArrival,      \* bound: no session arrives or re-checks after this time
    Horizon,          \* bound: end of time
    MaxCloses         \* bound: gate assertions

ASSUME GateAssumption ==
    /\ {MaxSessions, MaxTotal} \subseteq Nat \ {0}
    /\ {MaxWait, MaxGeneration, LastArrival, Horizon, MaxCloses} \subseteq Nat
    /\ Horizon > LastArrival + MaxWait
    /\ IsFiniteSet(Sessions)
    /\ \A spec \in Specs : {spec.deadline, spec.min} \subseteq Nat

VARIABLES
    gates,            \* EngineState.gates, in the vector's order
    applied,          \* EngineState.applied_generation
    now,              \* the monotonic clock
    sess,             \* sess[s]: where session s is
    closes            \* assertions so far

vars == <<gates, applied, now, sess, closes>>

Parked(g) == {g.parked[i].s : i \in DOMAIN g.parked}

GateOf(s) == CHOOSE i \in DOMAIN gates : s \in Parked(gates[i])

Gates == {gates[i] : i \in DOMAIN gates}

Waiting == UNION {Parked(gates[i]) : i \in DOMAIN gates}

Init ==
    /\ gates = <<>>
    /\ applied = 0
    /\ now = 0
    /\ sess = [s \in Sessions |-> "new"]
    /\ closes = 0

-----------------------------------------------------------------------------
(* What a gate selects.                                                        *)

Matches(m, scope) ==
    \/ m.all
    \/ m.tables \cap scope.tables # {}
    \/ \E id \in scope.ids, r \in m.ranges : r.start <= id /\ id < r.end

Buffers(g, scope) ==
    (g.spec.mode = "All" \/ scope.write) /\ Matches(g.spec.match, scope)

(* The entries of a queue that belong to sessions of S, in their order. *)
Retain(q, S) ==
    LET kept[n \in 0..Len(q)] ==
            IF n = 0 THEN <<>>
            ELSE IF q[n].s \in S THEN Append(kept[n - 1], q[n]) ELSE kept[n - 1]
    IN  kept[Len(q)]

(* A plausible slip: nothing is removed.                                       *)
PruneNothing(g) == g

(* Entries whose client dropped its end of the channel are removed.            *)
PruneDead(g) == [g EXCEPT !.parked = Retain(@, {s \in Sessions : sess[s] # "gone"})]

(* The entries of all queues, counted.                                         *)
Entries(gs) == UNION {{i} \X DOMAIN gs[i].parked : i \in DOMAIN gs}
TotalParked(gs) == Cardinality(Entries(gs))

(* A plausible slip: the limit over all gates is forgotten.                    *)
FullPerGate(gs, i) == Len(gs[i].parked) >= MaxSessions

Full(gs, i) == TotalParked(gs) >= MaxTotal \/ Len(gs[i].parked) >= MaxSessions

SwapRemove(gs, i) == [k \in 1..Len(gs) - 1 |-> IF k = i THEN gs[Len(gs)] ELSE gs[k]]

(* The loop that drains every gate of ids in place. Each turn removes a gate   *)
(* or passes one, so it takes one turn per gate.                               *)
Turn(loop, ids) ==
    IF loop.gates[loop.idx].spec.id \in ids
    THEN [gates |-> SwapRemove(loop.gates, loop.idx), idx |-> loop.idx]
    ELSE [gates |-> loop.gates, idx |-> loop.idx + 1]

Sweep(gs, ids) ==
    LET loop[n \in 0..Len(gs)] ==
            IF n = 0 THEN [gates |-> gs, idx |-> 1] ELSE Turn(loop[n - 1], ids)
    IN  loop[Len(gs)].gates

Due(g, t) == g.spec.deadline <= t

(* Drain the gates of ids at time t: sessions are told to replay against the   *)
(* new topology, unless the deadline of their gate has passed.                 *)
DrainGates(ids, t) ==
    /\ gates' = Sweep(gates, ids)
    /\ sess' = [s \in Sessions |->
                  IF sess[s] = "parked" /\ gates[GateOf(s)].spec.id \in ids
                  THEN IF Due(gates[GateOf(s)], t) THEN "expired" ELSE "replanned"
                  ELSE sess[s]]

-----------------------------------------------------------------------------
(* The operations.                                                             *)

TopologyApplied(n) ==
    /\ applied' = Max({applied, n})
    /\ DrainGates({g.spec.id : g \in {h \in Gates : h.openRequested /\ h.spec.min <= applied'}}, now)
    /\ UNCHANGED <<now, closes>>

Close(spec) ==
    /\ closes < MaxCloses
    /\ closes' = closes + 1
    /\ gates' = IF \E g \in Gates : g.spec.id = spec.id
                THEN [i \in DOMAIN gates |->
                        IF gates[i].spec.id = spec.id THEN [gates[i] EXCEPT !.spec = spec]
                        ELSE gates[i]]
                ELSE Append(gates, [spec |-> spec, parked |-> <<>>, openRequested |-> FALSE])
    /\ UNCHANGED <<applied, now, sess>>

(* A plausible slip: an early open is not held until its topology is applied.  *)
OpenAtOnce(i) ==
    /\ DrainGates({gates[i].spec.id}, now)
    /\ UNCHANGED <<applied, now, closes>>

Open(i) ==
    /\ IF ~Due(gates[i], now) /\ gates[i].spec.min > applied
       THEN gates' = [gates EXCEPT ![i].openRequested = TRUE] /\ UNCHANGED sess
       ELSE DrainGates({gates[i].spec.id}, now)
    /\ UNCHANGED <<applied, now, closes>>

(* t: when the timer read the clock, before it took the lock.                  *)
ExpireDue(t) ==
    /\ DrainGates({g.spec.id : g \in {h \in Gates : Due(h, t)}}, t)
    /\ UNCHANGED <<applied, now, closes>>

Check(s) ==
    /\ sess[s] \in {"new", "replanned", "expired"}
    /\ now <= LastArrival
    /\ LET hit  == {i \in DOMAIN gates : Buffers(gates[i], Scope[s])}
           i    == Min(hit)
           live == [j \in DOMAIN gates |-> PruneDead(gates[j])]
       IN IF hit = {} THEN sess' = [sess EXCEPT ![s] = "through"] /\ UNCHANGED gates
          ELSE IF Full(live, i) THEN sess' = [sess EXCEPT ![s] = "rejected"] /\ gates' = live
          ELSE /\ gates' = [live EXCEPT ![i].parked = Append(@, [s |-> s, enqueued |-> now])]
               /\ sess' = [sess EXCEPT ![s] = "parked"]
    /\ UNCHANGED <<applied, now, closes>>

(* A plausible slip: nobody is ever overdue.                                   *)
NoneOverdue(q, t) == {}

(* A plausible slip: the queue is looked at from its back.                     *)
OverdueBack(q, t) == {j \in DOMAIN q : t > q[Len(q) + 1 - j].enqueued + MaxWait}

(* Positions of the sessions at the front of a queue that waited too long.     *)

Overdue(q, t) == {j \in DOMAIN q : \A k \in 1..j : t > q[k].enqueued + MaxWait}

RejectOverdue(t) ==
    /\ LET live == [i \in DOMAIN gates |-> PruneDead(gates[i])]
           out(i) == {live[i].parked[j].s : j \in Overdue(live[i].parked, t)}
       IN /\ gates' = [i \in DOMAIN gates |->
                         [live[i] EXCEPT !.parked = Retain(@, Sessions \ out(i))]]
          /\ sess' = [s \in Sessions |->
                        IF \E i \in DOMAIN gates : s \in out(i) THEN "rejected" ELSE sess[s]]
    /\ UNCHANGED <<applied, now, closes>>

(* The client hangs up: the receiver is dropped, the queue entry stays.        *)
Disconnect(s) ==
    /\ sess[s] = "parked"
    /\ sess' = [sess EXCEPT ![s] = "gone"]
    /\ UNCHANGED <<gates, applied, now, closes>>

Tick ==
    /\ now < Horizon
    /\ now' = now + 1
    /\ UNCHANGED <<gates, applied, sess, closes>>

Next ==
    \/ \E n \in 1..MaxGeneration : TopologyApplied(n)
    \/ \E spec \in Specs : Close(spec)
    \/ \E i \in DOMAIN gates : Open(i)
    \/ \E t \in 0..now : t + 1 >= now /\ (ExpireDue(t) \/ RejectOverdue(t))
    \/ \E s \in Sessions : Check(s) \/ Disconnect(s)
    \/ Tick

Spec == Init /\ [][Next]_vars

-----------------------------------------------------------------------------
(* Sessions are told to replay against the new topology only when that         *)
(* topology is applied and the deadline of their gate has not passed: an open  *)
(* that came early, a gate re-asserted with another minimum while an open is   *)
(* pending, and a generation delivered late never replay a buffered write      *)
(* against the shard map from before the cutover.                              *)
ReplaysOnNewTopology ==
    [][\A s \in Sessions :
         sess[s] = "parked" /\ sess'[s] = "replanned" =>
           LET spec == gates[GateOf(s)].spec
           IN spec.min <= applied' /\ now < spec.deadline]_vars

(* A gate releases in the order of arrival: nobody behind a live session gets  *)
(* a verdict while that session stays parked, whether the gate is opened,      *)
(* expires or its oldest sessions run out of time.                             *)
Fifo ==
    [][\A i \in DOMAIN gates : \A j, k \in DOMAIN gates[i].parked :
         LET early == gates[i].parked[j].s
             late  == gates[i].parked[k].s
         IN j < k /\ sess[late] = "parked" /\ sess'[late] \notin {"parked", "gone"}
              => sess'[early] # "parked"]_vars

(* The buffer is bounded per gate and over all gates, whatever is re-asserted, *)
(* opened or disconnected; a gate is asserted once under its id, and a session *)
(* waits in one queue at most.                                                 *)
WithinLimits ==
    /\ \A i, j \in DOMAIN gates :
         i # j => /\ gates[i].spec.id # gates[j].spec.id
                  /\ Parked(gates[i]) \cap Parked(gates[j]) = {}
    /\ \A i \in DOMAIN gates : Len(gates[i].parked) <= MaxSessions
    /\ TotalParked(gates) <= MaxTotal

(* A statement is refused for lack of room only when live clients fill the     *)
(* limits: entries of clients that hung up never cost another one its place.   *)
RefusedOnlyWhenFull ==
    [][\A s \in Sessions :
         sess[s] \in {"new", "replanned", "expired"} /\ sess'[s] = "rejected" =>
           \/ Cardinality({c \in Waiting : sess[c] = "parked"}) >= MaxTotal
           \/ \E i \in DOMAIN gates :
                /\ Buffers(gates[i], Scope[s])
                /\ Cardinality({c \in Parked(gates[i]) : sess[c] = "parked"}) >= MaxSessions]_vars

(* No parked session waits forever, even if its gate is asserted again and     *)
(* again with a later deadline and never opened.                               *)
NobodyStranded == \A s \in Sessions : sess[s] = "parked" ~> sess[s] # "parked"
=============================================================================
