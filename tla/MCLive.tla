------------------------------- MODULE MCLive -------------------------------
(* The gate engine, and a router following its topology, under fairness. The   *)
(* two share no variable: `focus` picks the one that moves.                    *)
EXTENDS Gate, Lease, TLC

VARIABLE focus

(* A failover gate on every statement and a cutover gate on one key range,     *)
(* asserted with different deadlines and minimum generations.                  *)
CONSTANTS s1, s2, s3

MCSessions == {s1, s2, s3}

KeyRange(a, b) == [start |-> a, end |-> b]

MCScope ==
    (s1 :> [tables |-> {"t"}, ids |-> {1}, write |-> TRUE]) @@
    (s2 :> [tables |-> {"t"}, ids |-> {1}, write |-> TRUE]) @@
    (s3 :> [tables |-> {"u"}, ids |-> {3}, write |-> FALSE])

Gate1(deadline, min) ==
    [id |-> "cut", mode |-> "WritesOnly", deadline |-> deadline, min |-> min,
     match |-> [all |-> FALSE, tables |-> {}, ranges |-> {KeyRange(0, 2)}]]

Gate2(deadline) ==
    [id |-> "ddl", mode |-> "All", deadline |-> deadline, min |-> 0,
     match |-> [all |-> FALSE, tables |-> {"t", "u"}, ranges |-> {}]]

MCSpecs == {Gate1(2, 1), Gate1(9, 2), Gate2(9)}

all == <<focus, vars, leaseVars>>

LiveInit == focus \in {"gate", "lease"} /\ Init /\ LeaseInit /\ (focus = "gate" => file.builds)

OnGate(A) == focus = "gate" /\ A /\ UNCHANGED <<focus, leaseVars>>
OnLease(A) == focus = "lease" /\ A /\ UNCHANGED <<focus, vars>>

\* The lease is followed without requests and without setting the wall clock;
\* those only read what is followed here.
Followed == ClockTick \/ Publish \/ Outage \/ Poller \/ Main \/ Watch

LiveNext == OnGate(Next) \/ OnLease(Followed)

\* Time passes and the router's timer runs both clean-ups; the poll timer
\* fires and the tasks of the process are scheduled. Nothing is assumed of the
\* operator, of sessions, or of the file.
LiveSpec ==
    /\ LiveInit /\ [][LiveNext]_all
    /\ WF_all(OnGate(Tick))
    /\ WF_all(OnGate(ExpireDue(now)))
    /\ WF_all(OnGate(RejectOverdue(now)))
    /\ WF_all(OnLease(Poller))
    /\ WF_all(OnLease(Main))
    /\ WF_all(OnLease(WatchValidated))
    /\ WF_all(OnLease(WatchUpdate))
    /\ WF_all(OnLease(WatchConsult))

\* Once the topology file stays readable at an epoch the router can build, the
\* router comes to serve it and polls keep renewing its write lease.
RouterFollows == focus = "lease" => Follows
=============================================================================
