------------------------------ MODULE Commands ------------------------------
(***************************************************************************)
(* Commands an agent executes at most once: Promote, Fence and             *)
(* RejoinAsStandby under the decision-epoch guard (epoch.rs), ExecSchema   *)
(* under the schema log (schema.rs), each as its handler in service.rs     *)
(* runs it, with other commands in between (crates/pgshard-agent/src).     *)
(***************************************************************************)
EXTENDS Integers, FiniteSets

CONSTANTS
    Epochs, Requests,  \* decision epochs and the requests that carry them
    Ops, Sqls,         \* schema operation ids and statements
    Handlers           \* concurrent calls

ASSUME CommandsAssumption == Epochs \subseteq Nat /\ IsFiniteSet(Handlers)

VARIABLES
    guard,       \* EpochGuard: the highest epoch applied and its request
    schemaLog,   \* SchemaLog: each id's statement and state
    handler,     \* each call: its request and where it is
    done         \* history: what the instance has executed with success

commandVars == <<guard, schemaLog, handler, done>>

NoRequest == [type |-> "none", id |-> 0, body |-> 0]
IdleHandler == [at |-> "idle", req |-> NoRequest]

Decisions == [type : {"decision"}, id : Epochs, body : Requests]
Schemas == [type : {"schema"}, id : Ops, body : Sqls]

CommandsInit ==
    /\ guard = [seen |-> FALSE, epoch |-> 0, key |-> 0]
    /\ schemaLog = [o \in Ops |-> [sql |-> 0, state |-> "absent"]]
    /\ handler = [h \in Handlers |-> IdleHandler]
    /\ done = {}

Now(h, at, req) == handler' = [handler EXCEPT ![h] = [at |-> at, req |-> req]]

\* A plausible slip: any request of the applied epoch is replayed.
CheckAnyKey(h, r) ==
    /\ CASE r.id = 0 \/ (guard.seen /\ r.id < guard.epoch) -> Now(h, "idle", NoRequest)
         [] guard.seen /\ r.id = guard.epoch -> Now(h, "ok", r)
         [] OTHER -> Now(h, "apply", r)
    /\ UNCHANGED guard

\* EpochGuard::check: zero and stale epochs and another request of the same
\* epoch are refused, an identical one is replayed, a higher one is to be
\* executed; nothing is recorded yet.
Check(h, r) ==
    /\ CASE r.id = 0 \/ (guard.seen /\ r.id < guard.epoch) -> Now(h, "idle", NoRequest)
         [] guard.seen /\ r.id = guard.epoch ->
              IF guard.key # r.body THEN Now(h, "idle", NoRequest) ELSE Now(h, "ok", r)
         [] OTHER -> Now(h, "apply", r)
    /\ UNCHANGED guard

Decide(h, r) ==
    /\ handler[h].at \in {"idle", "ok"}
    /\ Check(h, r)
    /\ UNCHANGED <<schemaLog, done>>

\* A plausible slip: a statement still in flight is claimed once more.
ClaimAgain(h, r) ==
    LET e == schemaLog[r.id]
    IN  /\ handler[h].at \in {"idle", "ok"}
        /\ CASE e.state = "absent" \/ (e.sql = r.body /\ e.state # "done") ->
                  /\ Now(h, "apply", r)
                  /\ schemaLog' = [schemaLog EXCEPT ![r.id] = [sql |-> r.body, state |-> "inflight"]]
             [] e.sql = r.body /\ e.state = "done" -> Now(h, "ok", r) /\ UNCHANGED schemaLog
             [] OTHER -> Now(h, "idle", NoRequest) /\ UNCHANGED schemaLog
        /\ UNCHANGED <<guard, done>>

\* SchemaLog::claim
Claim(h, r) ==
    LET e == schemaLog[r.id]
    IN  /\ handler[h].at \in {"idle", "ok"}
        /\ CASE e.state = "absent" \/ (e.sql = r.body /\ e.state = "failed") ->
                  /\ Now(h, "apply", r)
                  /\ schemaLog' = [schemaLog EXCEPT ![r.id] = [sql |-> r.body, state |-> "inflight"]]
             [] e.sql = r.body /\ e.state = "done" ->
                  Now(h, "ok", r) /\ UNCHANGED schemaLog
             [] OTHER -> Now(h, "idle", NoRequest) /\ UNCHANGED schemaLog
        /\ UNCHANGED <<guard, done>>

\* The instance executes the command.
ExecuteCommand(h) ==
    /\ handler[h].at = "apply"
    /\ done' = done \cup {handler[h].req}
    /\ Now(h, "executed", handler[h].req)
    /\ UNCHANGED <<guard, schemaLog>>

\* EpochGuard::commit only advances; SchemaLog::mark_done.
RecordCommand(h) ==
    LET r == handler[h].req
    IN  /\ handler[h].at = "executed"
        /\ Now(h, "ok", r)
        /\ guard' = IF r.type = "decision" /\ (~guard.seen \/ r.id > guard.epoch)
                    THEN [seen |-> TRUE, epoch |-> r.id, key |-> r.body] ELSE guard
        /\ schemaLog' = IF r.type = "schema" THEN [schemaLog EXCEPT ![r.id].state = "done"] ELSE schemaLog
        /\ UNCHANGED done

\* The instance answers with an error, or its answer is lost: mark_failed,
\* nothing for the guard.
RefuseCommand(h) ==
    LET r == handler[h].req
    IN  /\ handler[h].at \in {"apply", "executed"}
        /\ Now(h, "idle", NoRequest)
        /\ schemaLog' = IF r.type = "schema" THEN [schemaLog EXCEPT ![r.id].state = "failed"] ELSE schemaLog
        /\ UNCHANGED <<guard, done>>

\* A cancelled call is dropped where it awaits the instance: the statement
\* may be executed or not, and nothing is recorded.
CancelCommand(h) ==
    /\ handler[h].at \in {"apply", "executed"}
    /\ Now(h, "idle", NoRequest)
    /\ done' \in {done, done \cup {handler[h].req}}
    /\ UNCHANGED <<guard, schemaLog>>

CommandsNext ==
    \E h \in Handlers :
        \/ \E r \in Decisions : Decide(h, r)
        \/ \E r \in Schemas : Claim(h, r)
        \/ ExecuteCommand(h) \/ RecordCommand(h) \/ RefuseCommand(h) \/ CancelCommand(h)

CommandsSpec == CommandsInit /\ [][CommandsNext]_commandVars

-----------------------------------------------------------------------------
\* No phantom success: whatever commands run at the same time, fail or are
\* cancelled, a call answered with success - a replay included - was executed
\* by the instance with exactly that request (epoch.rs: otherwise "a retry
\* would Replay a success that never happened"; schema.rs: "rather than
\* replaying a phantom success").
NoPhantomSuccess == \A h \in Handlers : handler[h].at = "ok" => handler[h].req \in done

\* The decision on record is one the instance has executed; a schema id is
\* being executed by at most one call, with the statement of its log entry;
\* and all that was ever executed under one id is one statement, through
\* failures, retries and cancelled calls (EpochGuard::commit, SchemaLog).
RecordsHonest ==
    /\ guard.seen => [type |-> "decision", id |-> guard.epoch, body |-> guard.key] \in done
    /\ \A h, g \in Handlers :
          LET busy(x) == handler[x].at \in {"apply", "executed"} /\ handler[x].req.type = "schema"
          IN  /\ busy(h) /\ busy(g) /\ handler[h].req.id = handler[g].req.id => h = g
              /\ busy(h) => schemaLog[handler[h].req.id] =
                              [sql |-> handler[h].req.body, state |-> "inflight"]
    /\ \A r, q \in done : r.type = "schema" /\ q.type = "schema" /\ r.id = q.id => r.body = q.body
=============================================================================
