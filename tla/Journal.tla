------------------------------ MODULE Journal ------------------------------
(***************************************************************************)
(* The agent's single-flight slots (emit_journal and create_restore_point  *)
(* of crates/pgshard-agent/src/service.rs): one journal id and one restore *)
(* point name, asked for by several calls at once. Each call runs in a     *)
(* detached task that owns the slot's lock, so a caller that hangs up      *)
(* changes nothing and is not modelled. The PostgreSQL side is             *)
(* emit_journal and create_restore_point of pg.rs: one WAL record.         *)
(***************************************************************************)
EXTENDS Integers, Sequences

CONSTANTS
    Tasks, NoTask,  \* the calls' tasks; an unlocked slot
    Payloads,
    MaxRecords      \* a bound on the records of one kind

ASSUME JournalAssumption == NoTask \notin Tasks /\ Payloads # {} /\ MaxRecords \in Nat

Kinds == {"journal", "restore"}

VARIABLES
    slotOf,      \* what the slot of each kind records
    holder,      \* the task that holds its lock, or NoTask
    task,        \* each task: what it asks for, where it is, its answer
    wal,         \* the payloads of the records of each kind, in WAL order
    late,        \* timed-out statements that may still be executed
    lostReply    \* history: a commit succeeded but its connection broke

journalVars == <<slotOf, holder, task, wal, late, lostReply>>

\* An empty slot; a recorded position; position 0 is an unknown outcome.
EmptySlot == [full |-> FALSE, payload |-> 0, lsn |-> 0]
Recorded(p, lsn) == [full |-> TRUE, payload |-> p, lsn |-> lsn]

IdleTask == [at |-> "idle", kind |-> "journal", payload |-> 0, lsn |-> 0]

JournalInit ==
    /\ slotOf = [k \in Kinds |-> EmptySlot]
    /\ holder = [k \in Kinds |-> NoTask]
    /\ task = [t \in Tasks |-> IdleTask]
    /\ wal = [k \in Kinds |-> <<>>]
    /\ late = {} /\ lostReply = FALSE

Ask(t, k, p) ==
    /\ task[t].at \in {"idle", "refused"}
    /\ task' = [task EXCEPT ![t] = [at |-> "queued", kind |-> k, payload |-> p, lsn |-> 0]]
    /\ UNCHANGED <<slotOf, holder, wal, late, lostReply>>

Ends(t, at, lsn) ==
    /\ task' = [task EXCEPT ![t].at = at, ![t].lsn = lsn]
    /\ holder' = [holder EXCEPT ![task[t].kind] = NoTask]

\* A plausible slip: the slot is looked at, but its lock is not kept.
AcquireBriefly(t) ==
    LET k == task[t].kind
        s == slotOf[k]
    IN  /\ task[t].at = "queued"
        /\ IF ~s.full
           THEN task' = [task EXCEPT ![t].at = "executing"]
           ELSE task' = [task EXCEPT ![t].at = "answered", ![t].lsn = s.lsn]
        /\ UNCHANGED <<holder, slotOf, wal, late, lostReply>>

\* The lock is free: replay what is recorded, refuse another payload or an
\* unknown outcome, or go and execute.
Acquire(t) ==
    LET k == task[t].kind
        s == slotOf[k]
    IN  /\ task[t].at = "queued" /\ holder[k] = NoTask
        /\ IF ~s.full
           THEN /\ holder' = [holder EXCEPT ![k] = t]
                /\ task' = [task EXCEPT ![t].at = "executing"]
           ELSE IF k = "journal" /\ (s.payload # task[t].payload \/ s.lsn = 0)
                THEN Ends(t, "refused", 0)
                ELSE Ends(t, "answered", s.lsn)
        /\ UNCHANGED <<slotOf, wal, late, lostReply>>

\* PostgreSQL writes (and commits) the record.
Record(k, p) == Len(wal[k]) < MaxRecords /\ wal' = [wal EXCEPT ![k] = Append(@, p)]

Land(t) ==
    /\ task[t].at = "executing"
    /\ Record(task[t].kind, task[t].payload)
    /\ task' = [task EXCEPT ![t].at = "landed", ![t].lsn = Len(wal[task[t].kind]) + 1]
    /\ UNCHANGED <<slotOf, holder, late, lostReply>>

Succeed(t) ==
    /\ task[t].at = "landed"
    /\ slotOf' = [slotOf EXCEPT ![task[t].kind] = Recorded(task[t].payload, task[t].lsn)]
    /\ Ends(t, "answered", task[t].lsn)
    /\ UNCHANGED <<wal, late, lostReply>>

\* The call fails. Before the record was written that is a clean refusal;
\* after it, the connection broke and the outcome was lost. Either way the
\* slot stays empty and a retry executes again.
CallFails(t) ==
    /\ task[t].at \in {"executing", "landed"}
    /\ lostReply' = (lostReply \/ (task[t].at = "landed" /\ task[t].kind = "journal"))
    /\ Ends(t, "refused", 0)
    /\ UNCHANGED <<slotOf, wal, late>>

\* A plausible slip: a timed-out journal leaves its slot empty as well.
TimeOutEmpty(t) ==
    LET k == task[t].kind
    IN  /\ task[t].at \in {"executing", "landed"}
        /\ late' = IF task[t].at = "executing" THEN late \cup {<<k, task[t].payload>>} ELSE late
        /\ Ends(t, "refused", 0)
        /\ UNCHANGED <<slotOf, wal, lostReply>>

\* The 30 s bound: the statement may still be executed. A journal id is
\* poisoned; a restore point's slot stays empty.
TimeOut(t) ==
    LET k == task[t].kind
    IN  /\ task[t].at \in {"executing", "landed"}
        /\ late' = IF task[t].at = "executing" THEN late \cup {<<k, task[t].payload>>} ELSE late
        /\ slotOf' = IF k = "journal" THEN [slotOf EXCEPT ![k] = Recorded(task[t].payload, 0)]
                     ELSE slotOf
        /\ Ends(t, "refused", 0)
        /\ UNCHANGED <<wal, lostReply>>

LandLate(x) ==
    /\ x \in late
    /\ Record(x[1], x[2])
    /\ late' = late \ {x}
    /\ UNCHANGED <<slotOf, holder, task, lostReply>>

JournalNext ==
    \/ \E t \in Tasks : \/ \E k \in Kinds, p \in Payloads : Ask(t, k, p)
                        \/ Acquire(t) \/ Land(t) \/ Succeed(t) \/ CallFails(t) \/ TimeOut(t)
    \/ \E x \in late : LandLate(x)

JournalSpec == JournalInit /\ [][JournalNext]_journalVars

-----------------------------------------------------------------------------
\* A cutover's journal is written at most once by an agent, whatever calls
\* race, time out or are retried (emit_journal: "a second emit would give CDC
\* consumers two journal records for one cutover"). The exception, which the
\* slot cannot see, is a COMMIT that succeeded while its connection broke.
JournalOnce == ~lostReply => Len(wal["journal"]) <= 1

\* Every call that is answered with a position, for a journal or for a
\* restore point, is answered with the same one, and a journal was written
\* there with the payload that was asked for.
AnswersAgree ==
    \A t \in Tasks : task[t].at = "answered" =>
        /\ \A u \in Tasks : task[u].at = "answered" /\ task[u].kind = task[t].kind
                                => task[u].lsn = task[t].lsn
        /\ task[t].lsn \in 1 .. Len(wal[task[t].kind])
        /\ task[t].kind = "journal" => wal["journal"][task[t].lsn] = task[t].payload
=============================================================================
