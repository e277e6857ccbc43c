------------------------------ MODULE Replica -------------------------------
(***************************************************************************)
(* What seeding promises the cutover (crates/pgshard-agent/src/workflow.rs *)
(* and the operator's reading of WorkflowStatus): the target database is   *)
(* either being seeded, and promises nothing, or holds exactly the rows of *)
(* its range as the source had them after some prefix of its transactions. *)
(* The prefix only grows, and a journal is acknowledged only when the      *)
(* prefix reaches it.                                                      *)
(***************************************************************************)
EXTENDS Integers, Sequences

CONSTANTS Base,       \* the source's rows before its first transaction
          Step(_, _), \* the rows after one more transaction
          Keep(_),    \* the rows of the target's range
          IsJournal(_)

VARIABLES log,    \* the source's transactions, in commit order
          pos,    \* how many of them the target holds, -1 while it is seeded
          rows,   \* the target's rows, {} while it is seeded
          acked   \* the last journal acknowledged, 0 when none is

vars == <<log, pos, rows, acked>>

\* The source's rows after the first n transactions.
SourceAt(n) ==
    LET after[i \in 0 .. Len(log)] ==
            IF i = 0 THEN Base ELSE Step(after[i - 1], log[i])
    IN  after[n]

Init == log = <<>> /\ pos = -1 /\ rows = {} /\ acked = 0

\* The source commits a transaction.
SourceCommits ==
    /\ Len(log') = Len(log) + 1
    /\ SubSeq(log', 1, Len(log)) = log
    /\ UNCHANGED <<pos, rows, acked>>

\* The target is wiped for a (new) seed; what was acknowledged is void.
Reseed == pos' = -1 /\ rows' = {} /\ acked' = 0 /\ UNCHANGED log

Void == acked' = 0 /\ UNCHANGED <<log, pos, rows>>

\* The target comes to hold a prefix, never a shorter one than it held.
Advance ==
    /\ pos' \in 0 .. Len(log) /\ pos' >= pos
    /\ rows' = Keep(SourceAt(pos'))
    /\ UNCHANGED <<log, acked>>

Acknowledge ==
    /\ acked' \in {j \in 1 .. Len(log) : j > acked /\ j <= pos /\ IsJournal(log[j])}
    /\ UNCHANGED <<log, pos, rows>>

Next == SourceCommits \/ Reseed \/ Void \/ Advance \/ Acknowledge

Spec == Init /\ [][Next]_vars
=============================================================================
