---------------------------- MODULE AgentProofs -----------------------------
(***************************************************************************)
(* The agent, for any number of calls, epochs, schema operations, journal  *)
(* payloads, sessions and callers: its bookkeeping of commands, the write  *)
(* fence and the provenance of databases.                                  *)
(*                                                                         *)
(* FenceWrites keeps its promises: the invariant follows a fencing call    *)
(* statement by statement: what it has established so far, as long as it is *)
(* clean, is kept by every backend and by every late statement of earlier  *)
(* fences.                                                                 *)
(***************************************************************************)
EXTENDS Commands, Journal, WriteFence, Provision, TLAPS

\* Leaves are for Zenon, unless they name another prover.
USE ZenonT(60)

-----------------------------------------------------------------------------
(* Decisions and schema changes. *)

HandlerType ==
    [at : {"idle", "apply", "executed", "ok"}, req : Decisions \cup Schemas \cup {NoRequest}]
LogType == [sql : Sqls \cup {0}, state : {"absent", "inflight", "done", "failed"}]
DecisionOn(g) == [type |-> "decision", id |-> g.epoch, body |-> g.key]
SchemaOn(o) == [type |-> "schema", id |-> o, body |-> schemaLog[o].sql]
Busy(h) == handler[h].at \in {"apply", "executed"} /\ handler[h].req.type = "schema"

CommandTypes ==
    /\ guard \in [seen : BOOLEAN, epoch : Epochs \cup {0}, key : Requests \cup {0}]
    /\ schemaLog \in [Ops -> LogType]
    /\ handler \in [Handlers -> HandlerType]
    /\ done \subseteq Decisions \cup Schemas

\* What is on record, and what a call is about to record, was executed; a
\* schema id is executed by one call, with the statement of its log entry.
Honest ==
    /\ \A h \in Handlers : handler[h].at # "idle" => handler[h].req \in Decisions \cup Schemas
    /\ \A h \in Handlers : handler[h].at \in {"executed", "ok"} => handler[h].req \in done
    /\ guard.seen => DecisionOn(guard) \in done
    /\ \A o \in Ops : schemaLog[o].state = "done" => SchemaOn(o) \in done
    /\ \A h \in Handlers : Busy(h) => schemaLog[handler[h].req.id] =
                                        [sql |-> handler[h].req.body, state |-> "inflight"]
    /\ \A h, g \in Handlers : Busy(h) /\ Busy(g) /\ handler[h].req.id = handler[g].req.id => h = g
    /\ \A r \in done : r.type = "schema" => /\ schemaLog[r.id].state # "absent"
                                            /\ schemaLog[r.id].sql = r.body

CommandsInv == CommandTypes /\ Honest

\* Requests are records of their two types.
LEMMA RequestShapes ==
    ASSUME NEW r
    PROVE  /\ r \in Decisions => /\ r.type = "decision" /\ r.id \in Epochs /\ r.body \in Requests
                                 /\ r = [type |-> "decision", id |-> r.id, body |-> r.body]
           /\ r \in Schemas => /\ r.type = "schema" /\ r.id \in Ops /\ r.body \in Sqls
                               /\ r = [type |-> "schema", id |-> r.id, body |-> r.body]
BY DEF Decisions, Schemas

\* What Now does to the calls.
LEMMA NowEffect ==
    ASSUME CommandTypes, NEW h \in Handlers, NEW at \in {"idle", "apply", "executed", "ok"},
           NEW r \in Decisions \cup Schemas \cup {NoRequest}, Now(h, at, r)
    PROVE  /\ handler' \in [Handlers -> HandlerType]
           /\ handler'[h].at = at /\ handler'[h].req = r
           /\ \A g \in Handlers : g # h => handler'[g] = handler[g]
BY DEF CommandTypes, Now, HandlerType

\* EpochGuard::check lets a decision through, or answers it when it is the one
\* on record; it changes nothing.
LEMMA DecideStep ==
    ASSUME CommandsInv, NEW h \in Handlers, NEW r \in Decisions, Decide(h, r)
    PROVE  CommandsInv'
<1> USE DEF CommandsInv
<1>1. UNCHANGED <<guard, schemaLog, done>> /\ ~Busy(h)
    BY DEF Decide, Check, Busy
<1>2. \/ Now(h, "idle", NoRequest)
      \/ Now(h, "ok", r) /\ guard.seen /\ r.id = guard.epoch /\ guard.key = r.body
      \/ Now(h, "apply", r)
    BY DEF Decide, Check
<1>3. r.type = "decision" /\ r = [type |-> "decision", id |-> r.id, body |-> r.body]
    BY RequestShapes
<1>4. CASE Now(h, "idle", NoRequest)
    BY SMTT(60), <1>1, <1>4, NowEffect DEF CommandTypes, Honest, Busy, DecisionOn, SchemaOn
<1>5. CASE Now(h, "ok", r) /\ guard.seen /\ r.id = guard.epoch /\ guard.key = r.body
  <2>1. r \in done
      BY <1>3, <1>5 DEF Honest, DecisionOn
  <2> QED
      BY SMTT(60), <1>1, <1>3, <1>5, <2>1, NowEffect DEF CommandTypes, Honest, Busy, DecisionOn, SchemaOn
<1>6. CASE Now(h, "apply", r)
    BY SMTT(60), <1>1, <1>3, <1>6, NowEffect DEF CommandTypes, Honest, Busy, DecisionOn, SchemaOn
<1> QED
    BY <1>2, <1>4, <1>5, <1>6

\* SchemaLog::claim gives an id to one call at a time and one statement only.
LEMMA ClaimStep ==
    ASSUME CommandsInv, NEW h \in Handlers, NEW r \in Schemas, Claim(h, r)
    PROVE  CommandsInv'
<1> USE DEF CommandsInv
<1> DEFINE e == schemaLog[r.id]
<1>1. UNCHANGED <<guard, done>> /\ ~Busy(h)
    BY DEF Claim, Busy
<1>2. /\ r.type = "schema" /\ r.id \in Ops /\ r.body \in Sqls
      /\ r = [type |-> "schema", id |-> r.id, body |-> r.body]
    BY RequestShapes
<1>3. \/ /\ Now(h, "apply", r) /\ e.state \in {"absent", "failed"} /\ (e.state = "failed" => e.sql = r.body)
         /\ schemaLog' = [schemaLog EXCEPT ![r.id] = [sql |-> r.body, state |-> "inflight"]]
      \/ Now(h, "ok", r) /\ e.sql = r.body /\ e.state = "done" /\ UNCHANGED schemaLog
      \/ Now(h, "idle", NoRequest) /\ UNCHANGED schemaLog
    BY DEF Claim
<1>4. CASE /\ Now(h, "apply", r) /\ e.state \in {"absent", "failed"} /\ (e.state = "failed" => e.sql = r.body)
           /\ schemaLog' = [schemaLog EXCEPT ![r.id] = [sql |-> r.body, state |-> "inflight"]]
  <2>1. \A g \in Handlers : Busy(g) => g # h /\ handler[g].req.id # r.id
    <3> SUFFICES ASSUME NEW g \in Handlers, Busy(g) PROVE g # h /\ handler[g].req.id # r.id
        OBVIOUS
    <3>1. schemaLog[handler[g].req.id] = [sql |-> handler[g].req.body, state |-> "inflight"]
        BY DEF Honest
    <3>2. schemaLog[handler[g].req.id].state = "inflight"
        BY SMTT(60), <3>1
    <3> QED
        BY <1>1, <1>4, <3>2
  <2>2. CommandTypes'
      BY <1>1, <1>2, <1>4, NowEffect DEF CommandTypes, LogType
  <2>3. /\ schemaLog'[r.id] = [sql |-> r.body, state |-> "inflight"]
        /\ \A o \in Ops : o # r.id => schemaLog'[o] = schemaLog[o]
      BY <1>2, <1>4 DEF CommandTypes
  <2>4. \A q \in done : q.type = "schema" => /\ schemaLog'[q.id].state # "absent"
                                             /\ schemaLog'[q.id].sql = q.body
    <3> SUFFICES ASSUME NEW q \in done, q.type = "schema"
                 PROVE  schemaLog'[q.id].state # "absent" /\ schemaLog'[q.id].sql = q.body
        OBVIOUS
    <3>1. q.id \in Ops
        BY RequestShapes DEF CommandTypes
    <3> QED
        BY SMTT(60), <1>2, <1>4, <2>3, <3>1 DEF Honest
  <2>5. handler'[h].at = "apply" /\ handler'[h].req = r /\ \A g \in Handlers : g # h => handler'[g] = handler[g]
      BY <1>4, NowEffect
  <2>6. \A g \in Handlers : Busy(g)' => schemaLog'[handler'[g].req.id] =
                                          [sql |-> handler'[g].req.body, state |-> "inflight"]
    <3> SUFFICES ASSUME NEW g \in Handlers, Busy(g)'
                 PROVE  schemaLog'[handler'[g].req.id] =
                          [sql |-> handler'[g].req.body, state |-> "inflight"]
        OBVIOUS
    <3>1. CASE g = h
        BY <2>3, <2>5, <3>1
    <3>2. CASE g # h
      <4>1. Busy(g) /\ handler'[g] = handler[g] /\ handler[g].req.id # r.id
          BY <2>1, <2>5, <3>2 DEF Busy
      <4>2. handler[g].req.id \in Ops
          BY <4>1, RequestShapes DEF Busy, Honest
      <4> QED
          BY SMTT(60), <2>3, <4>1, <4>2 DEF Honest
    <3> QED
        BY <3>1, <3>2
  <2>7. \A o \in Ops : schemaLog'[o].state = "done" => SchemaOn(o)' \in done'
      BY SMTT(60), <1>1, <2>3 DEF Honest, SchemaOn
  <2> QED
      BY SMTT(60), <1>1, <1>2, <2>1, <2>2, <2>4, <2>5, <2>6, <2>7 DEF Honest, Busy, DecisionOn
<1>5. CASE Now(h, "ok", r) /\ e.sql = r.body /\ e.state = "done" /\ UNCHANGED schemaLog
  <2>1. r \in done
      BY <1>2, <1>5 DEF Honest, SchemaOn
  <2> QED
      BY SMTT(60), <1>1, <1>5, <2>1, NowEffect DEF CommandTypes, Honest, Busy, DecisionOn, SchemaOn
<1>6. CASE Now(h, "idle", NoRequest) /\ UNCHANGED schemaLog
    BY SMTT(60), <1>1, <1>6, NowEffect DEF CommandTypes, Honest, Busy, DecisionOn, SchemaOn
<1> QED
    BY <1>3, <1>4, <1>5, <1>6

\* Whatever a call in progress does next, it keeps the records honest: it is
\* executed, then recorded, or it fails, or it is cancelled.
LEMMA ProgressStep ==
    ASSUME CommandsInv, NEW h \in Handlers,
           ExecuteCommand(h) \/ RecordCommand(h) \/ RefuseCommand(h) \/ CancelCommand(h)
    PROVE  CommandsInv'
<1> USE DEF CommandsInv
<1> DEFINE r == handler[h].req
<1>1. /\ handler[h].at \in {"apply", "executed"}
      /\ r \in Decisions \cup Schemas
      /\ r.type \in {"decision", "schema"}
    BY RequestShapes DEF ExecuteCommand, RecordCommand, RefuseCommand, CancelCommand, Honest
<1>2. r.type = "schema" => r.id \in Ops /\ Busy(h) /\ schemaLog[r.id] = [sql |-> r.body, state |-> "inflight"]
    BY <1>1, RequestShapes DEF Busy, Honest
<1>3. \A g \in Handlers : Busy(g) => handler[g].req.id \in Ops
    BY RequestShapes DEF Busy, Honest
<1>4. \A q \in done : q.type = "schema" => q.id \in Ops
    BY RequestShapes DEF CommandTypes
<1>5. CASE ExecuteCommand(h)
    BY SMTT(60), <1>1, <1>2, <1>5, NowEffect DEF ExecuteCommand, CommandTypes, Honest, Busy, DecisionOn, SchemaOn
<1>6. CASE CancelCommand(h)
    BY SMTT(60), <1>1, <1>2, <1>6, NowEffect DEF CancelCommand, CommandTypes, Honest, Busy, DecisionOn, SchemaOn
<1>7. ASSUME RecordCommand(h) \/ RefuseCommand(h),
             NEW state \in {"done", "failed"}, state = "done" => r \in done,
             schemaLog' = IF r.type = "schema" THEN [schemaLog EXCEPT ![r.id].state = state] ELSE schemaLog,
             UNCHANGED done
      PROVE  /\ schemaLog' \in [Ops -> LogType]
             /\ \A o \in Ops : /\ schemaLog'[o].sql = schemaLog[o].sql
                               /\ schemaLog'[o].state # schemaLog[o].state =>
                                     r.type = "schema" /\ o = r.id /\ schemaLog'[o].state = state
             /\ \A o \in Ops : schemaLog'[o].state = "done" => SchemaOn(o)' \in done
             /\ \A q \in done : q.type = "schema" => /\ schemaLog'[q.id].state # "absent"
                                                     /\ schemaLog'[q.id].sql = q.body
             /\ \A g \in Handlers : g # h /\ Busy(g) => schemaLog'[handler[g].req.id] = schemaLog[handler[g].req.id]
  <2>1. schemaLog' \in [Ops -> LogType]
      BY <1>2, <1>7 DEF CommandTypes, LogType
  <2>2. \A o \in Ops : /\ schemaLog'[o].sql = schemaLog[o].sql
                       /\ schemaLog'[o].state # schemaLog[o].state =>
                             r.type = "schema" /\ o = r.id /\ schemaLog'[o].state = state
      BY <1>2, <1>7 DEF CommandTypes, LogType
  <2>3. \A o \in Ops : schemaLog'[o].state = "done" => SchemaOn(o)' \in done
    <3> SUFFICES ASSUME NEW o \in Ops, schemaLog'[o].state = "done" PROVE SchemaOn(o)' \in done
        OBVIOUS
    <3>1. SchemaOn(o)' = SchemaOn(o)
        BY <2>2 DEF SchemaOn
    <3>2. CASE schemaLog[o].state = "done"
        BY <3>1, <3>2 DEF Honest
    <3>3. CASE schemaLog[o].state # "done"
      <4>1. r.type = "schema" /\ o = r.id /\ r \in done
          BY <1>7, <2>2, <3>3
      <4>2. r = [type |-> "schema", id |-> r.id, body |-> r.body]
          BY <1>1, <4>1, RequestShapes
      <4> QED
          BY SMTT(60), <1>2, <3>1, <4>1, <4>2 DEF SchemaOn
    <3> QED
        BY <3>2, <3>3
  <2>4. \A q \in done : q.type = "schema" => /\ schemaLog'[q.id].state # "absent"
                                             /\ schemaLog'[q.id].sql = q.body
      BY <1>4, <1>7, <2>2 DEF Honest
  <2>5. \A g \in Handlers : g # h /\ Busy(g) => schemaLog'[handler[g].req.id] = schemaLog[handler[g].req.id]
      BY <1>2, <1>3, <1>7 DEF Honest, CommandTypes
  <2> QED
      BY <2>1, <2>2, <2>3, <2>4, <2>5
<1>8. CASE RecordCommand(h)
  <2>1. r \in done /\ handler[h].at = "executed"
      BY <1>8 DEF RecordCommand, Honest
  <2>2. Now(h, "ok", r) /\ UNCHANGED done
      BY <1>8 DEF RecordCommand
  <2>3. guard' = guard \/ (r.type = "decision" /\ guard' = [seen |-> TRUE, epoch |-> r.id, key |-> r.body])
      BY <1>8 DEF RecordCommand
  <2>4. guard' \in [seen : BOOLEAN, epoch : Epochs \cup {0}, key : Requests \cup {0}]
        /\ (guard'.seen => DecisionOn(guard)' \in done)
    <3>1. CASE guard' = guard
        BY <3>1 DEF CommandTypes, Honest, DecisionOn
    <3>2. CASE r.type = "decision" /\ guard' = [seen |-> TRUE, epoch |-> r.id, key |-> r.body]
      <4>1. r \in Decisions
          BY <1>1, <3>2, RequestShapes
      <4>2. r.id \in Epochs /\ r.body \in Requests /\ r = [type |-> "decision", id |-> r.id, body |-> r.body]
          BY <4>1, RequestShapes
      <4> QED
          BY <2>1, <3>2, <4>2 DEF DecisionOn
    <3> QED
        BY <2>3, <3>1, <3>2
  <2>5. schemaLog' = IF r.type = "schema" THEN [schemaLog EXCEPT ![r.id].state = "done"] ELSE schemaLog
      BY <1>8 DEF RecordCommand
  <2>6. /\ handler' \in [Handlers -> HandlerType] /\ handler'[h].at = "ok" /\ handler'[h].req = r
        /\ \A g \in Handlers : g # h => handler'[g] = handler[g]
      BY <1>1, <2>2, NowEffect
  <2>7. ~Busy(h)' /\ \A g \in Handlers : Busy(g)' => g # h /\ Busy(g) /\ handler'[g] = handler[g]
      BY <2>6 DEF Busy
  <2>8. /\ schemaLog' \in [Ops -> LogType]
        /\ \A o \in Ops : schemaLog'[o].state = "done" => SchemaOn(o)' \in done
        /\ \A q \in done : q.type = "schema" => /\ schemaLog'[q.id].state # "absent"
                                                /\ schemaLog'[q.id].sql = q.body
        /\ \A g \in Handlers : g # h /\ Busy(g) => schemaLog'[handler[g].req.id] = schemaLog[handler[g].req.id]
      BY <1>7, <1>8, <2>1, <2>2, <2>5
  <2>9. CommandTypes'
      BY <2>2, <2>4, <2>6, <2>8 DEF CommandTypes
  <2>10. Honest'
      BY SMTT(60), <1>1, <2>1, <2>2, <2>4, <2>6, <2>7, <2>8 DEF Honest
  <2> QED
      BY <2>9, <2>10
<1>9. CASE RefuseCommand(h)
  <2>1. Now(h, "idle", NoRequest) /\ UNCHANGED <<guard, done>>
      BY <1>9 DEF RefuseCommand
  <2>2. schemaLog' = IF r.type = "schema" THEN [schemaLog EXCEPT ![r.id].state = "failed"] ELSE schemaLog
      BY <1>9 DEF RefuseCommand
  <2>3. /\ handler' \in [Handlers -> HandlerType] /\ handler'[h].at = "idle"
        /\ \A g \in Handlers : g # h => handler'[g] = handler[g]
      BY <2>1, NowEffect
  <2>4. ~Busy(h)' /\ \A g \in Handlers : Busy(g)' => g # h /\ Busy(g) /\ handler'[g] = handler[g]
      BY <2>3 DEF Busy
  <2>5. /\ schemaLog' \in [Ops -> LogType]
        /\ \A o \in Ops : schemaLog'[o].state = "done" => SchemaOn(o)' \in done
        /\ \A q \in done : q.type = "schema" => /\ schemaLog'[q.id].state # "absent"
                                                /\ schemaLog'[q.id].sql = q.body
        /\ \A g \in Handlers : g # h /\ Busy(g) => schemaLog'[handler[g].req.id] = schemaLog[handler[g].req.id]
      BY <1>7, <1>9, <2>1, <2>2
  <2>6. CommandTypes'
      BY <2>1, <2>3, <2>5 DEF CommandTypes
  <2>7. DecisionOn(guard)' = DecisionOn(guard) /\ guard'.seen = guard.seen /\ done' = done
      BY <2>1 DEF DecisionOn
  <2>8. Honest'
      BY SMTT(60), <2>3, <2>4, <2>5, <2>7 DEF Honest
  <2> QED
      BY <2>6, <2>8
<1> QED
    BY <1>5, <1>6, <1>8, <1>9

\* The invariant holds in every reachable state.
LEMMA CommandsInvariant == CommandsSpec => []CommandsInv
<1>1. CommandsInit => CommandsInv
    BY SMTT(60) DEF CommandsInit, CommandsInv, CommandTypes, LogType, HandlerType, IdleHandler, NoRequest,
        Honest, Busy, DecisionOn, SchemaOn
<1>2. CommandsInv /\ [CommandsNext]_commandVars => CommandsInv'
  <2> SUFFICES ASSUME CommandsInv, [CommandsNext]_commandVars PROVE CommandsInv'
      OBVIOUS
  <2>1. CASE UNCHANGED commandVars
      BY <2>1 DEF commandVars, CommandsInv, CommandTypes, Honest, Busy, DecisionOn, SchemaOn
  <2> QED
      BY <2>1, DecideStep, ClaimStep, ProgressStep DEF CommandsNext
<1> QED
    BY <1>1, <1>2, PTL DEF CommandsSpec

\* A command answered with success, a replay included, was executed by the
\* instance with exactly that request, for any number of concurrent, failing
\* and cancelled calls (EpochGuard, SchemaLog).
THEOREM SuccessIsReal == CommandsSpec => []NoPhantomSuccess
<1>1. CommandsInv => NoPhantomSuccess
    BY DEF CommandsInv, Honest, NoPhantomSuccess
<1> QED
    BY <1>1, CommandsInvariant, PTL

\* The decision on record was executed, and a schema id is being executed by
\* at most one call and only ever with one statement (EpochGuard::commit,
\* SchemaLog::claim).
THEOREM RecordsAreHonest == CommandsSpec => []RecordsHonest
<1>1. CommandsInv => RecordsHonest
    BY DEF CommandsInv, Honest, RecordsHonest, Busy, DecisionOn
<1> QED
    BY <1>1, CommandsInvariant, PTL

-----------------------------------------------------------------------------
(* Journals and restore points. *)

TaskType == [at : {"idle", "queued", "executing", "landed", "answered", "refused"},
             kind : Kinds, payload : Payloads \cup {0}, lsn : Nat]
SlotType == [full : BOOLEAN, payload : Payloads \cup {0}, lsn : Nat]

JournalTypes ==
    /\ slotOf \in [Kinds -> SlotType]
    /\ holder \in [Kinds -> Tasks \cup {NoTask}]
    /\ task \in [Tasks -> TaskType]
    /\ wal \in [Kinds -> Seq(Payloads \cup {0})]
    /\ late \subseteq Kinds \X (Payloads \cup {0})

Working(t) == task[t].at \in {"executing", "landed"}

\* One task at a time works on a slot, and only while the slot is empty.
SlotLocked ==
    \A t \in Tasks : Working(t) => holder[task[t].kind] = t /\ ~slotOf[task[t].kind].full

\* A record's position: inside the WAL, where the payload is.
At(k, p, lsn) == lsn \in 1 .. Len(wal[k]) /\ wal[k][lsn] = p

\* What a slot replays was written; an answer is what its slot replays. Only
\* a journal's slot can be poisoned, and a restore point has no payload.
SlotHonest ==
    /\ \A k \in Kinds : slotOf[k].full /\ (k = "restore" \/ slotOf[k].lsn # 0)
                            => At(k, slotOf[k].payload, slotOf[k].lsn)
    /\ \A t \in Tasks : task[t].at = "landed" => At(task[t].kind, task[t].payload, task[t].lsn)
    /\ \A t \in Tasks : task[t].at = "answered" =>
          /\ slotOf[task[t].kind].full /\ slotOf[task[t].kind].lsn = task[t].lsn
          /\ task[t].kind = "journal" => slotOf["journal"].payload = task[t].payload /\ task[t].lsn # 0

AnswerInv == JournalTypes /\ SlotLocked /\ SlotHonest

\* The fields of a call and of a slot.
LEMMA TaskFields ==
    ASSUME JournalTypes, NEW t \in Tasks
    PROVE  /\ task[t] \in TaskType /\ task[t].kind \in Kinds
           /\ task[t].payload \in Payloads \cup {0} /\ task[t].lsn \in Nat
           /\ slotOf[task[t].kind] \in SlotType /\ wal[task[t].kind] \in Seq(Payloads \cup {0})
BY DEF JournalTypes, TaskType

\* What the end of a call does.
LEMMA EndsEffect ==
    ASSUME JournalTypes, NEW t \in Tasks, NEW at \in {"answered", "refused"}, NEW lsn \in Nat, Ends(t, at, lsn)
    PROVE  /\ task' \in [Tasks -> TaskType] /\ holder' \in [Kinds -> Tasks \cup {NoTask}]
           /\ task'[t].at = at /\ task'[t].lsn = lsn
           /\ task'[t].kind = task[t].kind /\ task'[t].payload = task[t].payload
           /\ \A u \in Tasks : u # t => task'[u] = task[u]
           /\ holder'[task[t].kind] = NoTask
           /\ \A k \in Kinds : k # task[t].kind => holder'[k] = holder[k]
BY DEF JournalTypes, Ends, TaskType

\* What writing a record does: the positions written before keep theirs.
LEMMA RecordEffect ==
    ASSUME JournalTypes, NEW k \in Kinds, NEW p \in Payloads \cup {0}, Record(k, p)
    PROVE  /\ wal' \in [Kinds -> Seq(Payloads \cup {0})]
           /\ Len(wal'[k]) = Len(wal[k]) + 1 /\ wal'[k][Len(wal[k]) + 1] = p
           /\ Len(wal[k]) \in Nat
           /\ \A j \in Kinds : j # k => wal'[j] = wal[j]
           /\ \A j \in Kinds : \A q, n : At(j, q, n) => At(j, q, n)'
<1>1. wal[k] \in Seq(Payloads \cup {0}) /\ wal'[k] = Append(wal[k], p)
    BY DEF JournalTypes, Record
<1>2. wal' \in [Kinds -> Seq(Payloads \cup {0})] /\ \A j \in Kinds : j # k => wal'[j] = wal[j]
    BY SMTT(60), <1>1 DEF JournalTypes, Record
<1>3. /\ Len(wal'[k]) = Len(wal[k]) + 1 /\ wal'[k][Len(wal[k]) + 1] = p /\ Len(wal[k]) \in Nat
      /\ \A n \in 1 .. Len(wal[k]) : wal'[k][n] = wal[k][n]
    BY SMTT(60), <1>1
<1>4. \A j \in Kinds : \A q, n : At(j, q, n) => At(j, q, n)'
  <2> SUFFICES ASSUME NEW j \in Kinds, NEW q, NEW n, At(j, q, n) PROVE At(j, q, n)'
      OBVIOUS
  <2>1. CASE j = k
      BY SMTT(60), <1>3, <2>1 DEF At
  <2>2. CASE j # k
      BY <1>2, <2>2 DEF At
  <2> QED
      BY <2>1, <2>2
<1> QED
    BY <1>2, <1>3, <1>4

\* Every step keeps the slots honest.
LEMMA AnswerStep ==
    ASSUME AnswerInv, JournalNext
    PROVE  AnswerInv'
<1> USE DEF AnswerInv
<1>1. ASSUME NEW t \in Tasks, NEW k \in Kinds, NEW p \in Payloads, Ask(t, k, p)
      PROVE  AnswerInv'
  <2>1. /\ UNCHANGED <<slotOf, holder, wal, late>>
        /\ task'[t] = [at |-> "queued", kind |-> k, payload |-> p, lsn |-> 0]
        /\ \A u \in Tasks : u # t => task'[u] = task[u]
      BY <1>1 DEF Ask, JournalTypes
  <2>2. JournalTypes'
      BY <1>1, <2>1 DEF Ask, JournalTypes, TaskType
  <2> QED
      BY SMTT(60), <2>1, <2>2 DEF SlotLocked, SlotHonest, Working, At
<1>2. ASSUME NEW t \in Tasks, Acquire(t)
      PROVE  AnswerInv'
  <2> DEFINE k == task[t].kind
             s == slotOf[k]
  <2>1. /\ UNCHANGED <<slotOf, wal, late>> /\ holder[k] = NoTask /\ task[t].at = "queued"
        /\ k \in Kinds /\ s.lsn \in Nat
      BY <1>2, TaskFields DEF Acquire, SlotType
  <2>2. \A u \in Tasks : Working(u) => task[u].kind # k
      BY <2>1, JournalAssumption DEF SlotLocked
  <2>3. CASE ~s.full
    <3>1. /\ holder' = [holder EXCEPT ![k] = t]
          /\ task' = [task EXCEPT ![t].at = "executing"]
        BY <1>2, <2>3 DEF Acquire
    <3>2. /\ task'[t].at = "executing" /\ task'[t].kind = k /\ holder'[k] = t
          /\ \A u \in Tasks : u # t => task'[u] = task[u]
          /\ \A j \in Kinds : j # k => holder'[j] = holder[j]
        BY <2>1, <3>1 DEF JournalTypes, TaskType
    <3>3. JournalTypes'
      <4>1. [task[t] EXCEPT !.at = "executing"] \in TaskType
          BY TaskFields DEF TaskType
      <4> QED
          BY <2>1, <3>1, <4>1 DEF JournalTypes
    <3>4. SlotLocked'
        BY SMTT(60), <2>1, <2>2, <2>3, <3>2, TaskFields DEF SlotLocked, Working
    <3> QED
        BY SMTT(60), <2>1, <3>2, <3>3, <3>4 DEF SlotHonest, At
  <2>4. CASE s.full
    <3>1. \/ Ends(t, "refused", 0)
          \/ Ends(t, "answered", s.lsn) /\ (k = "journal" => s.payload = task[t].payload /\ s.lsn # 0)
        BY <1>2, <2>4 DEF Acquire
    <3>2. /\ task' \in [Tasks -> TaskType] /\ holder' \in [Kinds -> Tasks \cup {NoTask}]
          /\ task'[t].kind = k /\ task'[t].payload = task[t].payload
          /\ task'[t].at \in {"answered", "refused"}
          /\ \A u \in Tasks : u # t => task'[u] = task[u]
          /\ \A j \in Kinds : j # k => holder'[j] = holder[j]
          /\ task'[t].at = "answered" => /\ task'[t].lsn = s.lsn
                                         /\ k = "journal" => s.payload = task[t].payload /\ s.lsn # 0
        BY SMTT(60), <2>1, <3>1, EndsEffect
    <3>3. JournalTypes'
        BY <2>1, <3>2 DEF JournalTypes
    <3>4. SlotLocked'
        BY SMTT(60), <2>1, <2>2, <3>2, TaskFields DEF SlotLocked, Working
    <3> QED
        BY SMTT(60), <2>1, <2>4, <3>2, <3>3, <3>4 DEF SlotHonest, At
  <2> QED
      BY <2>1, <2>3, <2>4 DEF SlotType, JournalTypes
<1>3. ASSUME NEW t \in Tasks, Land(t)
      PROVE  AnswerInv'
  <2> DEFINE k == task[t].kind
  <2>1. /\ UNCHANGED <<slotOf, holder, late>> /\ task[t].at = "executing" /\ k \in Kinds
        /\ Record(k, task[t].payload) /\ task[t].payload \in Payloads \cup {0}
        /\ task' = [task EXCEPT ![t].at = "landed", ![t].lsn = Len(wal[k]) + 1]
      BY <1>3, TaskFields DEF Land
  <2>2. /\ wal' \in [Kinds -> Seq(Payloads \cup {0})] /\ Len(wal[k]) \in Nat
        /\ Len(wal'[k]) = Len(wal[k]) + 1 /\ wal'[k][Len(wal[k]) + 1] = task[t].payload
        /\ \A j \in Kinds : \A q, n : At(j, q, n) => At(j, q, n)'
      BY <2>1, RecordEffect
  <2>3. PICK n \in Nat : /\ n = Len(wal[k]) + 1
                         /\ task' = [task EXCEPT ![t].at = "landed", ![t].lsn = n]
    <3>1. Len(wal[k]) + 1 \in Nat
        BY SMTT(60), <2>2
    <3> QED
        BY <2>1, <3>1
  <2>4. /\ task'[t].at = "landed" /\ task'[t].kind = k /\ task'[t].payload = task[t].payload
        /\ task'[t].lsn = n
        /\ \A u \in Tasks : u # t => task'[u] = task[u]
      BY <2>3 DEF JournalTypes, TaskType
  <2>5. task' \in [Tasks -> TaskType]
    <3>1. [task[t] EXCEPT !.at = "landed", !.lsn = n] \in TaskType
        BY TaskFields DEF TaskType
    <3> QED
        BY <2>3, <3>1 DEF JournalTypes
  <2>6. JournalTypes'
      BY <2>1, <2>2, <2>5 DEF JournalTypes
  <2>7. \A j \in Kinds : \A q : j = k /\ q = task[t].payload => At(j, q, n)'
      BY SMTT(60), <2>2, <2>3 DEF At
  <2>8. SlotHonest'
    <3>1. \A u \in Tasks : task'[u].at = "landed" => At(task[u].kind, task[u].payload, task[u].lsn)'
      <4> SUFFICES ASSUME NEW u \in Tasks, task'[u].at = "landed"
                   PROVE  At(task[u].kind, task[u].payload, task[u].lsn)'
          OBVIOUS
      <4>1. CASE u = t
          BY <2>1, <2>4, <2>7, <4>1
      <4>2. CASE u # t
          BY SMTT(60), <2>2, <2>4, <4>2, TaskFields DEF SlotHonest
      <4> QED
          BY <4>1, <4>2
    <3>2. \A j \in Kinds : slotOf[j].full /\ (j = "restore" \/ slotOf[j].lsn # 0)
                               => At(j, slotOf[j].payload, slotOf[j].lsn)'
        BY <2>1, <2>2 DEF SlotHonest
    <3>3. \A u \in Tasks : task'[u].at = "answered" => task'[u] = task[u]
        BY <2>4
    <3> QED
        BY <2>1, <3>1, <3>2, <3>3 DEF SlotHonest
  <2>9. SlotLocked'
    <3>1. \A u \in Tasks : Working(u)' => Working(u) /\ task'[u].kind = task[u].kind
        BY <2>1, <2>4 DEF Working
    <3> QED
        BY <2>1, <3>1 DEF SlotLocked
  <2> QED
      BY <2>6, <2>8, <2>9
<1>4. ASSUME NEW t \in Tasks, Succeed(t) \/ CallFails(t) \/ TimeOut(t)
      PROVE  AnswerInv'
  <2> DEFINE k == task[t].kind
  <2>1. /\ UNCHANGED wal /\ Working(t) /\ k \in Kinds /\ task[t].payload \in Payloads \cup {0}
        /\ task[t].lsn \in Nat
      BY <1>4, TaskFields DEF Succeed, CallFails, TimeOut, Working
  <2>2. holder[k] = t /\ ~slotOf[k].full /\ \A u \in Tasks : Working(u) /\ u # t => task[u].kind # k
      BY <2>1 DEF SlotLocked
  <2>3. \/ /\ Succeed(t) /\ Ends(t, "answered", task[t].lsn) /\ task[t].at = "landed"
           /\ slotOf' = [slotOf EXCEPT ![k] = Recorded(task[t].payload, task[t].lsn)]
        \/ Ends(t, "refused", 0) /\ slotOf' = slotOf
        \/ Ends(t, "refused", 0) /\ k = "journal" /\ slotOf' = [slotOf EXCEPT ![k] = Recorded(task[t].payload, 0)]
      BY <1>4 DEF Succeed, CallFails, TimeOut
  <2>4. /\ task' \in [Tasks -> TaskType] /\ holder' \in [Kinds -> Tasks \cup {NoTask}]
        /\ task'[t].kind = k /\ task'[t].payload = task[t].payload
        /\ task'[t].at \in {"answered", "refused"}
        /\ \A u \in Tasks : u # t => task'[u] = task[u]
        /\ \A j \in Kinds : j # k => holder'[j] = holder[j]
      BY <2>1, <2>3, EndsEffect
  <2>5. late' \subseteq Kinds \X (Payloads \cup {0})
      BY SMTT(60), <1>4, <2>1 DEF JournalTypes, Succeed, CallFails, TimeOut
  <2>6. slotOf' \in [Kinds -> SlotType] /\ \A j \in Kinds : j # k => slotOf'[j] = slotOf[j]
    <3>1. Recorded(task[t].payload, task[t].lsn) \in SlotType /\ Recorded(task[t].payload, 0) \in SlotType
        BY <2>1 DEF SlotType, Recorded
    <3> QED
        BY <2>1, <2>3, <3>1 DEF JournalTypes
  <2>7. JournalTypes'
      BY <2>1, <2>4, <2>5, <2>6 DEF JournalTypes
  <2>8. SlotLocked'
      BY SMTT(60), <2>1, <2>2, <2>4, <2>6, TaskFields DEF SlotLocked, Working
  <2>9. \A u \in Tasks : task[u].at = "answered" => task[u].kind # k
      BY <2>2 DEF SlotHonest
  <2>10. CASE /\ Succeed(t) /\ Ends(t, "answered", task[t].lsn) /\ task[t].at = "landed"
              /\ slotOf' = [slotOf EXCEPT ![k] = Recorded(task[t].payload, task[t].lsn)]
    <3>1. At(k, task[t].payload, task[t].lsn) /\ task[t].lsn # 0
        BY SMTT(60), <2>10 DEF SlotHonest, At
    <3>2. slotOf'[k].full /\ slotOf'[k].payload = task[t].payload /\ slotOf'[k].lsn = task[t].lsn
        BY <2>1, <2>10 DEF JournalTypes, Recorded
    <3>3. task'[t].at = "answered" /\ task'[t].lsn = task[t].lsn
        BY <2>1, <2>10, EndsEffect
    <3>4. \A j \in Kinds : \A q, n : At(j, q, n)' <=> At(j, q, n)
        BY <2>1 DEF At
    <3>5. \A j \in Kinds : slotOf'[j].full /\ (j = "restore" \/ slotOf'[j].lsn # 0)
                               => At(j, slotOf[j].payload, slotOf[j].lsn)'
      <4> SUFFICES ASSUME NEW j \in Kinds, slotOf'[j].full, j = "restore" \/ slotOf'[j].lsn # 0
                   PROVE  At(j, slotOf[j].payload, slotOf[j].lsn)'
          OBVIOUS
      <4>1. CASE j = k
          BY <2>1, <3>1, <3>2, <3>4, <4>1
      <4>2. CASE j # k
          BY <2>6, <3>4, <4>2 DEF SlotHonest
      <4> QED
          BY <4>1, <4>2
    <3>6. \A u \in Tasks : task'[u].at = "landed" => At(task[u].kind, task[u].payload, task[u].lsn)'
        BY SMTT(60), <2>4, <3>3, <3>4, TaskFields DEF SlotHonest
    <3>7. \A u \in Tasks : task'[u].at = "answered" =>
            /\ slotOf'[task'[u].kind].full /\ slotOf'[task'[u].kind].lsn = task'[u].lsn
            /\ task'[u].kind = "journal" => slotOf'["journal"].payload = task'[u].payload /\ task'[u].lsn # 0
        BY SMTT(60), <2>4, <2>6, <2>9, <3>1, <3>2, <3>3, TaskFields DEF SlotHonest
    <3> QED
        BY <2>7, <2>8, <3>5, <3>6, <3>7 DEF SlotHonest
  <2>11. CASE /\ Ends(t, "refused", 0)
              /\ \/ slotOf' = slotOf
                 \/ k = "journal" /\ slotOf' = [slotOf EXCEPT ![k] = Recorded(task[t].payload, 0)]
    <3>1. ~slotOf'[k].full \/ (k = "journal" /\ slotOf'[k].lsn = 0)
        BY SMTT(60), <2>1, <2>2, <2>11 DEF JournalTypes, Recorded
    <3>2. task'[t].at = "refused"
        BY <2>1, <2>11, EndsEffect
    <3>3. \A j \in Kinds : \A q, n : At(j, q, n)' <=> At(j, q, n)
        BY <2>1 DEF At
    <3> QED
        BY SMTT(60), <2>1, <2>4, <2>6, <2>7, <2>8, <2>9, <3>1, <3>2, <3>3, TaskFields DEF SlotHonest
  <2> QED
      BY <2>3, <2>10, <2>11
<1>5. ASSUME NEW x \in late, LandLate(x)
      PROVE  AnswerInv'
  <2>1. /\ UNCHANGED <<slotOf, holder, task>> /\ late' \subseteq late
        /\ x[1] \in Kinds /\ x[2] \in Payloads \cup {0} /\ Record(x[1], x[2])
      BY <1>5 DEF LandLate, JournalTypes
  <2>2. /\ wal' \in [Kinds -> Seq(Payloads \cup {0})]
        /\ \A j \in Kinds : \A q, n : At(j, q, n) => At(j, q, n)'
      BY <2>1, RecordEffect
  <2>3. JournalTypes'
      BY <2>1, <2>2 DEF JournalTypes
  <2>4. SlotHonest'
      BY <2>1, <2>2, TaskFields DEF SlotHonest
  <2> QED
      BY <2>1, <2>3, <2>4 DEF SlotLocked, Working
<1> QED
    BY <1>1, <1>2, <1>3, <1>4, <1>5 DEF JournalNext

\* What the slots replay, in every reachable state.
LEMMA AnswerInvariant == JournalSpec => []AnswerInv
<1>1. JournalInit => AnswerInv
  <2> SUFFICES ASSUME JournalInit PROVE AnswerInv
      OBVIOUS
  <2>1. JournalTypes
      BY SMTT(60) DEF JournalInit, JournalTypes, EmptySlot, SlotType, IdleTask, TaskType, Kinds
  <2>2. \A t \in Tasks : task[t].at = "idle"
      BY DEF JournalInit, IdleTask
  <2>3. \A k \in Kinds : ~slotOf[k].full
      BY DEF JournalInit, EmptySlot
  <2> QED
      BY <2>1, <2>2, <2>3 DEF AnswerInv, SlotLocked, SlotHonest, Working
<1>2. AnswerInv /\ [JournalNext]_journalVars => AnswerInv'
  <2> SUFFICES ASSUME AnswerInv, [JournalNext]_journalVars PROVE AnswerInv'
      OBVIOUS
  <2>1. CASE UNCHANGED journalVars
      BY <2>1 DEF journalVars, AnswerInv, JournalTypes, SlotLocked, SlotHonest, Working, At
  <2> QED
      BY <2>1, AnswerStep
<1> QED
    BY <1>1, <1>2, PTL DEF JournalSpec

\* All the calls answered with a position are answered with the same one, and
\* a journal was written there with the payload asked for (emit_journal,
\* create_restore_point), for any number of racing, failing, timed-out calls.
THEOREM AnswersAreOne == JournalSpec => []AnswersAgree
<1>1. AnswerInv => AnswersAgree
  <2> SUFFICES ASSUME AnswerInv, NEW t \in Tasks, task[t].at = "answered"
               PROVE  /\ \A u \in Tasks : task[u].at = "answered" /\ task[u].kind = task[t].kind
                                              => task[u].lsn = task[t].lsn
                      /\ task[t].lsn \in 1 .. Len(wal[task[t].kind])
                      /\ task[t].kind = "journal" => wal["journal"][task[t].lsn] = task[t].payload
      BY DEF AnswersAgree
  <2>1. task[t].kind \in {"journal", "restore"}
      BY TaskFields DEF AnswerInv, Kinds
  <2>2. At(task[t].kind, slotOf[task[t].kind].payload, task[t].lsn)
      BY <2>1 DEF AnswerInv, SlotHonest, Kinds
  <2> QED
      BY SMTT(60), <2>2 DEF AnswerInv, SlotHonest, At
<1> QED
    BY <1>1, AnswerInvariant, PTL

Landed(t) == task[t].at = "landed" /\ task[t].kind = "journal"
NoLateJournal == \A x \in late : x[1] # "journal"

\* Unless a reply was lost, an empty slot means that nothing was written and
\* nothing can be any more, apart from what the task at work has just written;
\* and a statement that may still be executed is the only one.
OnceInv ==
    ~lostReply =>
        /\ ~slotOf["journal"].full /\ (\A t \in Tasks : ~Landed(t))
              => Len(wal["journal"]) = 0 /\ NoLateJournal
        /\ \A t \in Tasks : Landed(t) => Len(wal["journal"]) = 1 /\ NoLateJournal
        /\ \A x \in late : x[1] = "journal" => Len(wal["journal"]) = 0
        /\ \A x, y \in late : x[1] = "journal" /\ y[1] = "journal" => x = y
        /\ Len(wal["journal"]) <= 1

\* Every step keeps the journal unique.
LEMMA OnceStep ==
    ASSUME AnswerInv, OnceInv, JournalNext
    PROVE  OnceInv'
<1> USE DEF AnswerInv
<1> SUFFICES ASSUME ~lostReply' PROVE OnceInv'
    BY DEF OnceInv
<1>1. ~lostReply
    BY DEF JournalNext, Ask, Acquire, Land, Succeed, CallFails, TimeOut, LandLate
<1>2. ASSUME NEW t \in Tasks, UNCHANGED <<slotOf, wal, late>>, ~Landed(t), ~Landed(t)',
             \A u \in Tasks : u # t => task'[u] = task[u]
      PROVE  OnceInv'
    BY <1>1, <1>2 DEF OnceInv, Landed, NoLateJournal
<1>3. ASSUME NEW t \in Tasks, NEW k \in Kinds, NEW p \in Payloads, Ask(t, k, p)
      PROVE  OnceInv'
  <2>1. /\ UNCHANGED <<slotOf, wal, late>> /\ task[t].at # "landed" /\ task'[t].at = "queued"
        /\ \A u \in Tasks : u # t => task'[u] = task[u]
      BY <1>3 DEF Ask, JournalTypes
  <2> QED
      BY <1>2, <2>1 DEF Landed
<1>4. ASSUME NEW t \in Tasks, Acquire(t)
      PROVE  OnceInv'
  <2>1. UNCHANGED <<slotOf, wal, late>> /\ task[t].at = "queued" /\ slotOf[task[t].kind].lsn \in Nat
      BY <1>4, TaskFields DEF Acquire, SlotType
  <2>2. \/ task' = [task EXCEPT ![t].at = "executing"]
        \/ Ends(t, "refused", 0)
        \/ Ends(t, "answered", slotOf[task[t].kind].lsn)
      BY <1>4 DEF Acquire
  <2>3. task'[t].at # "landed" /\ \A u \in Tasks : u # t => task'[u] = task[u]
    <3>1. CASE task' = [task EXCEPT ![t].at = "executing"]
        BY <3>1 DEF JournalTypes, TaskType
    <3>2. CASE Ends(t, "refused", 0) \/ Ends(t, "answered", slotOf[task[t].kind].lsn)
        BY <2>1, <3>2, EndsEffect
    <3> QED
        BY <2>2, <3>1, <3>2
  <2> QED
      BY <1>2, <2>1, <2>3 DEF Landed
<1>5. ASSUME NEW t \in Tasks, Land(t)
      PROVE  OnceInv'
  <2>1. /\ UNCHANGED <<slotOf, holder, late>> /\ task[t].at = "executing" /\ task[t].kind \in Kinds
        /\ Record(task[t].kind, task[t].payload) /\ task[t].payload \in Payloads \cup {0}
      BY <1>5, TaskFields DEF Land
  <2>2. /\ Len(wal'[task[t].kind]) = Len(wal[task[t].kind]) + 1
        /\ \A j \in Kinds : j # task[t].kind => wal'[j] = wal[j]
      BY <2>1, RecordEffect
  <2>3. task'[t].at = "landed" /\ task'[t].kind = task[t].kind /\ \A u \in Tasks : u # t => task'[u] = task[u]
      BY <1>5 DEF Land, JournalTypes, TaskType
  <2>4. CASE task[t].kind = "journal"
    <3>1. ~slotOf["journal"].full /\ \A u \in Tasks : ~Landed(u)
        BY SMTT(60), <2>1, <2>4 DEF SlotLocked, Working, Landed
    <3>2. Len(wal["journal"]) = 0 /\ NoLateJournal
        BY <1>1, <3>1 DEF OnceInv
    <3>3. Len(wal'["journal"]) = 1
        BY SMTT(60), <2>2, <2>4, <3>2
    <3>4. NoLateJournal' /\ Landed(t)'
        BY <2>1, <2>3, <2>4, <3>2 DEF NoLateJournal, Landed
    <3> QED
        BY SMTT(60), <3>3, <3>4 DEF OnceInv, NoLateJournal
  <2>5. CASE task[t].kind # "journal"
    <3>1. wal'["journal"] = wal["journal"]
        BY <2>2, <2>5 DEF Kinds
    <3>2. \A u \in Tasks : Landed(u)' <=> Landed(u)
        BY <2>3, <2>5 DEF Landed
    <3> QED
        BY <1>1, <2>1, <3>1, <3>2 DEF OnceInv, NoLateJournal
  <2> QED
      BY <2>4, <2>5
<1>6. ASSUME NEW t \in Tasks, Succeed(t) \/ CallFails(t) \/ TimeOut(t)
      PROVE  OnceInv'
  <2> DEFINE k == task[t].kind
  <2>1. UNCHANGED wal /\ Working(t) /\ k \in Kinds /\ task[t].lsn \in Nat
      BY <1>6, TaskFields DEF Succeed, CallFails, TimeOut, Working
  <2>2. Ends(t, "answered", task[t].lsn) \/ Ends(t, "refused", 0)
      BY <1>6 DEF Succeed, CallFails, TimeOut
  <2>3. task'[t].at # "landed" /\ \A u \in Tasks : u # t => task'[u] = task[u]
      BY <2>1, <2>2, EndsEffect
  <2>4. ~slotOf[k].full /\ \A u \in Tasks : Working(u) /\ u # t => task[u].kind # k
      BY <2>1 DEF SlotLocked
  <2>5. CASE k = "restore"
    <3>1. slotOf'["journal"] = slotOf["journal"]
        BY <1>6, <2>5 DEF Succeed, CallFails, TimeOut, JournalTypes, Kinds
    <3>2. \A x \in late' : x[1] = "journal" => x \in late
        BY SMTT(60), <1>6, <2>5 DEF Succeed, CallFails, TimeOut
    <3>3. late \subseteq late'
        BY <1>6 DEF Succeed, CallFails, TimeOut
    <3>4. \A u \in Tasks : Landed(u)' <=> Landed(u)
        BY <2>3, <2>5 DEF Landed
    <3> QED
        BY <1>1, <2>1, <3>1, <3>2, <3>3, <3>4 DEF OnceInv, NoLateJournal
  <2>6. CASE k = "journal"
    <3>1. \A u \in Tasks : ~Landed(u)'
        BY <2>3, <2>4, <2>6 DEF Landed, Working
    <3>2. CASE Succeed(t)
      <4>1. Landed(t) /\ late' = late
          BY <2>6, <3>2 DEF Succeed, Landed
      <4>2. slotOf'["journal"].full
          BY <2>6, <3>2 DEF Succeed, Recorded, JournalTypes, Kinds
      <4> QED
          BY <1>1, <2>1, <3>1, <4>1, <4>2 DEF OnceInv, NoLateJournal
    <3>3. CASE CallFails(t)
      <4>1. task[t].at = "executing" /\ UNCHANGED <<slotOf, late>>
          BY <2>6, <3>3 DEF CallFails
      <4>2. \A u \in Tasks : ~Landed(u)
          BY <2>4, <2>6, <4>1 DEF Landed, Working
      <4> QED
          BY <1>1, <2>1, <2>4, <2>6, <3>1, <4>1, <4>2 DEF OnceInv, NoLateJournal
    <3>4. CASE TimeOut(t)
      <4>1. slotOf'["journal"].full
          BY <2>6, <3>4 DEF TimeOut, Recorded, JournalTypes, Kinds
      <4>2. CASE task[t].at = "landed"
        <5>1. Landed(t) /\ late' = late
            BY <2>6, <3>4, <4>2 DEF TimeOut, Landed
        <5> QED
            BY <1>1, <2>1, <3>1, <4>1, <5>1 DEF OnceInv, NoLateJournal
      <4>3. CASE task[t].at = "executing"
        <5>1. late' = late \cup {<<k, task[t].payload>>}
            BY <3>4, <4>3 DEF TimeOut
        <5>2. Len(wal["journal"]) = 0 /\ NoLateJournal
            BY <1>1, <2>4, <2>6, <4>3 DEF OnceInv, Landed, Working
        <5> QED
            BY SMTT(60), <2>1, <3>1, <4>1, <5>1, <5>2 DEF OnceInv, NoLateJournal
      <4> QED
          BY <2>1, <4>2, <4>3 DEF Working
    <3> QED
        BY <1>6, <3>2, <3>3, <3>4
  <2> QED
      BY <2>1, <2>5, <2>6 DEF Kinds
<1>7. ASSUME NEW x \in late, LandLate(x)
      PROVE  OnceInv'
  <2>1. /\ UNCHANGED <<slotOf, task>> /\ late' = late \ {x}
        /\ x[1] \in Kinds /\ x[2] \in Payloads \cup {0} /\ Record(x[1], x[2])
      BY <1>7 DEF LandLate, JournalTypes
  <2>2. /\ Len(wal'[x[1]]) = Len(wal[x[1]]) + 1
        /\ \A j \in Kinds : j # x[1] => wal'[j] = wal[j]
      BY <2>1, RecordEffect
  <2>3. \A u \in Tasks : Landed(u)' <=> Landed(u)
      BY <2>1 DEF Landed
  <2>4. CASE x[1] = "journal"
    <3>1. /\ Len(wal["journal"]) = 0 /\ slotOf["journal"].full /\ NoLateJournal'
          /\ \A u \in Tasks : ~Landed(u)
        BY <1>1, <2>1, <2>4 DEF OnceInv, NoLateJournal
    <3>2. Len(wal'["journal"]) = 1
        BY SMTT(60), <2>2, <2>4, <3>1
    <3>3. slotOf'["journal"].full /\ \A u \in Tasks : ~Landed(u)'
        BY <2>1, <2>3, <3>1
    <3> QED
        BY SMTT(60), <3>1, <3>2, <3>3 DEF OnceInv, NoLateJournal
  <2>5. CASE x[1] # "journal"
    <3>1. wal'["journal"] = wal["journal"]
        BY <2>2, <2>5 DEF Kinds
    <3>2. \A y \in late : y[1] = "journal" => y \in late'
        BY <2>1, <2>5
    <3> QED
        BY <1>1, <2>1, <2>3, <3>1, <3>2 DEF OnceInv, NoLateJournal
  <2> QED
      BY <2>4, <2>5
<1> QED
    BY <1>3, <1>4, <1>5, <1>6, <1>7 DEF JournalNext

\* An agent writes a cutover's journal at most once, unless a COMMIT succeeded
\* while its connection broke (emit_journal).
THEOREM JournalWrittenOnce == JournalSpec => []JournalOnce
<1>1. JournalInit => OnceInv
    BY SMTT(60) DEF JournalInit, OnceInv, EmptySlot, IdleTask, Landed, NoLateJournal, Kinds
<1>2. AnswerInv /\ OnceInv /\ [JournalNext]_journalVars => OnceInv'
  <2> SUFFICES ASSUME AnswerInv, OnceInv, [JournalNext]_journalVars PROVE OnceInv'
      OBVIOUS
  <2>1. CASE UNCHANGED journalVars
      BY <2>1 DEF journalVars, OnceInv, Landed, NoLateJournal
  <2> QED
      BY <2>1, OnceStep
<1>3. OnceInv => JournalOnce
    BY DEF OnceInv, JournalOnce
<1> QED
    BY <1>1, <1>2, <1>3, AnswerInvariant, PTL DEF JournalSpec

-----------------------------------------------------------------------------
(* The write fence. *)

\* No session can write, nor will one that was already admitted.
Quiet ==
    \A s \in Sessions :
        /\ sess[s].at \in {"loaded", "open"} => sess[s].ro
        /\ sess[s].at = "admitted" => readOnly
        /\ ~sess[s].dirty

\* Only an open session with the read-write default has a write transaction.
WritesAreOpen == \A s \in Sessions : sess[s].dirty => sess[s].at = "open" /\ ~sess[s].ro

\* What a clean fencing call has established before each of its statements.
FenceProgress ==
    clean =>
        /\ call \in {"close", "check", "drain", "recheck", "seal"} => "open" \notin inFlight
        /\ call \in {"check", "drain", "recheck", "seal"} /\ allow => readOnly
        /\ call \in {"recheck", "seal"} => Quiet
        /\ call = "seal" => prepared = 0

\* What a clean un-fencing call has established.
UnfenceProgress ==
    clean =>
        /\ call \in {"open", "drop"} => "close" \notin inFlight /\ "seal" \notin inFlight
        /\ call = "drop" => allow /\ ~readOnly

Fenced ==
    promise = "fenced" =>
        /\ readOnly /\ Quiet /\ prepared = 0
        /\ "open" \notin inFlight /\ call \notin {"open", "drop"}

Unfenced ==
    promise = "open" =>
        /\ allow /\ ~readOnly
        /\ "close" \notin inFlight /\ "seal" \notin inFlight /\ call \in {"none", "open", "drop"}

FenceInv ==
    FenceTypeOK /\ WritesAreOpen /\ FenceProgress /\ UnfenceProgress /\ Fenced /\ Unfenced

SessionType ==
    [at : {"out", "starting", "admitted", "loaded", "open"},
     ro : BOOLEAN, dirty : BOOLEAN, hit : BOOLEAN]

\* A step of one backend.
BackendStep(s) ==
    \/ Connect(s) \/ Admit(s) \/ LoadSettings(s) \/ Publish(s) \/ BeginWrite(s)
    \/ CommitWrite(s) \/ PrepareTransaction(s) \/ CommitPrepared(s) \/ Exit(s)

-----------------------------------------------------------------------------
\* The sessions are records.
LEMMA SessionRecords ==
    ASSUME FenceTypeOK
    PROVE  sess \in [Sessions -> SessionType] /\ allow \in BOOLEAN /\ readOnly \in BOOLEAN
BY DEF FenceTypeOK, SessionType

\* One backend moves: its session changes and no other does.
LEMMA BackendMoves ==
    ASSUME FenceTypeOK, NEW s \in Sessions, NEW was, NEW now \in SessionType,
           Backend(s, was, now)
    PROVE  /\ UNCHANGED <<allow, readOnly, call, calls, inFlight, clean, promise>>
           /\ sess' \in [Sessions -> SessionType]
           /\ \A t \in Sessions : t # s => sess'[t] = sess[t]
           /\ sess'[s] = now
           /\ sess[s] \in SessionType /\ sess[s].at = was
<1>1. sess' = [sess EXCEPT ![s] = now] /\ sess[s].at = was
    BY DEF Backend
<1>2. UNCHANGED <<allow, readOnly, call, calls, inFlight, clean, promise>>
    BY DEF Backend
<1> QED
    BY <1>1, <1>2, SessionRecords

\* What a step of a backend leaves alone, and what it makes of the session:
\* one that is new or gone, one step further in, or in another transaction.
LEMMA BackendEffect ==
    ASSUME FenceTypeOK, NEW s \in Sessions, BackendStep(s)
    PROVE  /\ UNCHANGED <<allow, readOnly, call, calls, inFlight, clean, promise>>
           /\ sess' \in [Sessions -> SessionType]
           /\ \A t \in Sessions : t # s => sess'[t] = sess[t]
           /\ \/ sess' = sess /\ prepared' \in 0 .. MaxPrepared /\ (prepared = 0 => prepared' = 0)
              \/ ~sess'[s].dirty /\ sess'[s].at \in {"out", "starting"} /\ prepared' = prepared
              \/ /\ sess[s].at = "starting" /\ allow /\ sess'[s].at = "admitted"
                 /\ sess'[s].dirty = sess[s].dirty /\ prepared' = prepared
              \/ /\ sess[s].at = "admitted" /\ sess'[s].at = "loaded" /\ sess'[s].ro = readOnly
                 /\ sess'[s].dirty = sess[s].dirty /\ prepared' = prepared
              \/ /\ sess[s].at = "loaded" /\ sess'[s].at = "open" /\ sess'[s].ro = sess[s].ro
                 /\ sess'[s].dirty = sess[s].dirty /\ prepared' = prepared
              \/ /\ sess[s].at = "open" /\ ~sess[s].ro /\ sess'[s].at = "open" /\ ~sess'[s].ro
                 /\ prepared' = prepared
              \/ /\ sess[s].at = "open" /\ sess[s].dirty /\ sess'[s].at = "open"
                 /\ sess'[s].ro = sess[s].ro /\ ~sess'[s].dirty /\ prepared' \in 0 .. MaxPrepared
<1>1. /\ Out \in SessionType /\ ~Out.dirty /\ Out.at = "out"
      /\ sess[s] \in SessionType /\ readOnly \in BOOLEAN
    BY SessionRecords DEF Out, SessionType
<1>2. CASE Connect(s)
  <2> DEFINE q == [Out EXCEPT !.at = "starting"]
  <2>1. q \in SessionType /\ q.at = "starting" /\ ~q.dirty
      BY <1>1 DEF SessionType
  <2>2. Backend(s, "out", q) /\ UNCHANGED prepared
      BY <1>2 DEF Connect
  <2> HIDE DEF q
  <2> QED
      BY <2>1, <2>2, BackendMoves
<1>3. CASE Admit(s)
  <2> DEFINE q == [sess[s] EXCEPT !.at = "admitted"]
  <2>1. q \in SessionType /\ q.at = "admitted" /\ q.dirty = sess[s].dirty
      BY <1>1 DEF SessionType
  <2>2. /\ UNCHANGED prepared
        /\ allow => Backend(s, "starting", q)
        /\ ~allow => Backend(s, "starting", Out)
      BY <1>3 DEF Admit
  <2> HIDE DEF q
  <2>3. CASE allow
      BY <2>1, <2>2, <2>3, BackendMoves
  <2>4. CASE ~allow
      BY <1>1, <2>2, <2>4, BackendMoves
  <2> QED
      BY <2>3, <2>4
<1>4. CASE LoadSettings(s)
  <2> DEFINE q == [sess[s] EXCEPT !.at = "loaded", !.ro = readOnly]
  <2>1. q \in SessionType /\ q.at = "loaded" /\ q.ro = readOnly /\ q.dirty = sess[s].dirty
      BY <1>1 DEF SessionType
  <2>2. Backend(s, "admitted", q) /\ UNCHANGED prepared
      BY <1>4 DEF LoadSettings
  <2> HIDE DEF q
  <2> QED
      BY <2>1, <2>2, BackendMoves
<1>5. CASE Publish(s)
  <2> DEFINE q == [sess[s] EXCEPT !.at = "open"]
  <2>1. q \in SessionType /\ q.at = "open" /\ q.ro = sess[s].ro /\ q.dirty = sess[s].dirty
      BY <1>1 DEF SessionType
  <2>2. Backend(s, "loaded", q) /\ UNCHANGED prepared
      BY <1>5 DEF Publish
  <2> HIDE DEF q
  <2> QED
      BY <2>1, <2>2, BackendMoves
<1>6. CASE BeginWrite(s)
  <2> DEFINE q == [sess[s] EXCEPT !.dirty = TRUE]
  <2>1. q \in SessionType /\ q.at = sess[s].at /\ q.ro = sess[s].ro
      BY <1>1 DEF SessionType
  <2>2. Backend(s, "open", q) /\ UNCHANGED prepared /\ ~sess[s].ro
      BY <1>6 DEF BeginWrite
  <2> HIDE DEF q
  <2> QED
      BY <2>1, <2>2, BackendMoves
<1>7. CASE CommitWrite(s)
  <2> DEFINE q == [sess[s] EXCEPT !.dirty = FALSE]
  <2>1. q \in SessionType /\ q.at = sess[s].at /\ q.ro = sess[s].ro /\ ~q.dirty
      BY <1>1 DEF SessionType
  <2>2. Backend(s, "open", q) /\ UNCHANGED prepared /\ sess[s].dirty
      BY <1>7 DEF CommitWrite
  <2>3. prepared \in 0 .. MaxPrepared
      BY DEF FenceTypeOK
  <2> HIDE DEF q
  <2> QED
      BY <2>1, <2>2, <2>3, BackendMoves
<1>8. CASE PrepareTransaction(s)
  <2> DEFINE q == [sess[s] EXCEPT !.dirty = FALSE]
  <2>1. q \in SessionType /\ q.at = sess[s].at /\ q.ro = sess[s].ro /\ ~q.dirty
      BY <1>1 DEF SessionType
  <2>2. Backend(s, "open", q) /\ sess[s].dirty
      BY <1>8 DEF PrepareTransaction
  <2>3. prepared' \in 0 .. MaxPrepared
      BY SMTT(60), <1>8, FenceAssumption DEF PrepareTransaction, FenceTypeOK
  <2> HIDE DEF q
  <2> QED
      BY <2>1, <2>2, <2>3, BackendMoves
<1>9. CASE CommitPrepared(s)
  <2>1. prepared' \in 0 .. MaxPrepared /\ prepared # 0
      BY SMTT(60), <1>9, FenceAssumption DEF CommitPrepared, FenceTypeOK
  <2> QED
      BY <1>9, <2>1, SessionRecords DEF CommitPrepared
<1>10. CASE Exit(s)
    BY <1>1, <1>10, BackendMoves DEF Exit
<1> QED
    BY <1>2, <1>3, <1>4, <1>5, <1>6, <1>7, <1>8, <1>9, <1>10 DEF BackendStep

\* A drain only marks sessions as signalled.
LEMMA DrainEffect ==
    ASSUME FenceTypeOK, Drain \/ DropReaders
    PROVE  /\ sess' \in [Sessions -> SessionType]
           /\ \A s \in Sessions : /\ sess'[s].at = sess[s].at /\ sess'[s].ro = sess[s].ro
                                  /\ sess'[s].dirty = sess[s].dirty
           /\ UNCHANGED <<allow, readOnly, prepared, calls, inFlight, clean>>
<1>1. ASSUME NEW w,
             sess' = [s \in Sessions |-> IF s \in w THEN [sess[s] EXCEPT !.hit = TRUE] ELSE sess[s]]
      PROVE  /\ sess' \in [Sessions -> SessionType]
             /\ \A s \in Sessions : /\ sess'[s].at = sess[s].at /\ sess'[s].ro = sess[s].ro
                                    /\ sess'[s].dirty = sess[s].dirty
  <2>1. ASSUME NEW r \in SessionType
        PROVE  LET q == [r EXCEPT !.hit = TRUE]
               IN  q \in SessionType /\ q.at = r.at /\ q.ro = r.ro /\ q.dirty = r.dirty
      BY DEF SessionType
  <2> QED
      BY <1>1, <2>1, SessionRecords
<1>2. UNCHANGED <<allow, readOnly, prepared, calls, inFlight, clean>>
    BY DEF Drain, DropReaders, DrainRound, Goes, Answer, database, fenceHistory
<1>3. PICK w : sess' = [s \in Sessions |-> IF s \in w THEN [sess[s] EXCEPT !.hit = TRUE] ELSE sess[s]]
    BY DEF Drain, DropReaders, DrainRound
<1> QED
    BY <1>1, <1>2, <1>3

\* Every variable of a fencing agent and its database keeps its type.
LEMMA FenceTypes == FenceTypeOK /\ [FenceNext]_fenceVars => FenceTypeOK'
<1> SUFFICES ASSUME FenceTypeOK, [FenceNext]_fenceVars PROVE FenceTypeOK'
    OBVIOUS
<1> USE FenceAssumption DEF FenceTypeOK
<1>1. CASE UNCHANGED fenceVars
    BY <1>1 DEF fenceVars
<1>2. ASSUME NEW s \in Sessions, BackendStep(s) PROVE FenceTypeOK'
    BY <1>2, BackendEffect DEF SessionType
<1>3. CASE Fence \/ Unfence
  <2>1. calls' \in 0 .. MaxCalls /\ call' \in {"close", "open"} /\ UNCHANGED <<database, sess, prepared, inFlight>>
      BY SMTT(60), <1>3 DEF Fence, Unfence, Issue
  <2>2. clean' \in BOOLEAN
      BY <1>3 DEF Fence, Unfence, Issue
  <2>3. promise' \in {promise, "none"}
      BY <1>3 DEF Fence, Unfence, Issue
  <2> QED
      BY <2>1, <2>2, <2>3 DEF database
<1>4. CASE DoClose \/ CheckPrepared \/ RecheckPrepared \/ DoSeal \/ DoReopen \/ Fail
    BY <1>4 DEF DoClose, CheckPrepared, RecheckPrepared, NoPrepared, DoSeal, DoReopen, Fail,
        Goes, Answer, CloseAdmissions, Seal, Reopen, database, fenceHistory
<1>5. CASE GiveUpCall
    BY <1>5 DEF GiveUpCall, database, fenceHistory
<1>6. CASE Drain \/ DropReaders
  <2>1. call' \in {"drain", "recheck", "drop", "none"} /\ promise' \in {promise, "open", "none"}
      BY <1>6 DEF Drain, DropReaders, DrainRound, Goes, Answer, fenceHistory
  <2> QED
      BY <1>6, <2>1, DrainEffect DEF SessionType
<1>7. ASSUME NEW st \in {"close", "seal", "open"}, Lands(st) PROVE FenceTypeOK'
    BY <1>7 DEF Lands, Statement, CloseAdmissions, Seal, Reopen, fenceHistory
<1> QED
    BY <1>1, <1>2, <1>3, <1>4, <1>5, <1>6, <1>7 DEF FenceNext, FenceCall, BackendStep

\* A write transaction is only ever open in an open read-write session.
LEMMA WritesStayOpen ==
    FenceTypeOK /\ WritesAreOpen /\ [FenceNext]_fenceVars => WritesAreOpen'
<1> SUFFICES ASSUME FenceTypeOK, WritesAreOpen, [FenceNext]_fenceVars PROVE WritesAreOpen'
    OBVIOUS
<1> USE DEF WritesAreOpen
<1>1. ASSUME NEW s \in Sessions, BackendStep(s) PROVE WritesAreOpen'
    BY <1>1, BackendEffect DEF SessionType
<1>2. CASE Drain \/ DropReaders
    BY <1>2, DrainEffect
<1>3. CASE UNCHANGED sess
    BY <1>3
<1> QED
    BY <1>1, <1>2, <1>3 DEF FenceNext, FenceCall, BackendStep, fenceVars, Fence, Unfence, Issue,
        DoClose, CheckPrepared, RecheckPrepared, NoPrepared, DoSeal, DoReopen, Fail, GiveUpCall, Lands

\* While whoever is admitted gets the read-only default, quiet sessions stay
\* quiet and prepare no transaction, whatever the backends do.
LEMMA BackendsStayQuiet ==
    ASSUME FenceTypeOK, Quiet, allow => readOnly, NEW s \in Sessions, BackendStep(s)
    PROVE  Quiet' /\ (prepared = 0 => prepared' = 0)
BY BackendEffect DEF Quiet, SessionType

\* The invariant is kept by every step.
LEMMA FenceStep == FenceInv /\ [FenceNext]_fenceVars => FenceInv'
<1> SUFFICES ASSUME FenceInv, [FenceNext]_fenceVars PROVE FenceInv'
    OBVIOUS
<1> USE DEF FenceInv
<1>1. FenceTypeOK' /\ WritesAreOpen'
    BY FenceTypes, WritesStayOpen
<1> DEFINE Rest == FenceProgress /\ UnfenceProgress /\ Fenced /\ Unfenced
<1> SUFFICES Rest'
    BY <1>1
<1>2. CASE UNCHANGED fenceVars
    BY <1>2 DEF fenceVars, FenceProgress, UnfenceProgress, Fenced, Unfenced, Quiet
<1>3. ASSUME NEW s \in Sessions, BackendStep(s) PROVE Rest'
  <2>1. UNCHANGED <<allow, readOnly, call, calls, inFlight, clean, promise>>
      BY <1>3 DEF BackendStep, Backend, Connect, Admit, LoadSettings, Publish, BeginWrite,
          CommitWrite, PrepareTransaction, CommitPrepared, Exit
  <2>2. Quiet /\ (allow => readOnly) => Quiet' /\ (prepared = 0 => prepared' = 0)
      BY <1>3, BackendsStayQuiet
  <2>3. FenceProgress'
      BY <2>1, <2>2 DEF FenceProgress
  <2>4. Fenced'
      BY <2>1, <2>2 DEF Fenced
  <2> QED
      BY <2>1, <2>3, <2>4 DEF UnfenceProgress, Unfenced
<1>4. CASE Fence \/ Unfence
    BY <1>4 DEF Fence, Unfence, Issue, database, FenceProgress, UnfenceProgress, Fenced, Unfenced,
        Quiet, FenceTypeOK
<1>5. CASE DoClose
    BY <1>5 DEF DoClose, CloseAdmissions, Goes, fenceHistory, FenceProgress, UnfenceProgress,
        Fenced, Unfenced, Quiet, FenceTypeOK
<1>6. CASE CheckPrepared \/ RecheckPrepared
    BY SMTT(60), <1>6 DEF CheckPrepared, RecheckPrepared, NoPrepared, Goes, database, fenceHistory,
        FenceProgress, UnfenceProgress, Fenced, Unfenced, Quiet, FenceTypeOK
<1>7. CASE Drain
  <2>2. \A s \in Sessions : /\ sess'[s].at = sess[s].at /\ sess'[s].ro = sess[s].ro
                            /\ sess'[s].dirty = sess[s].dirty
      BY <1>7, DrainEffect
  <2>3. UNCHANGED <<allow, readOnly, prepared, inFlight, clean, promise>>
      BY <1>7 DEF Drain, DrainRound, Goes, database, fenceHistory
  <2>4. Quiet => Quiet'
      BY <2>2, <2>3 DEF Quiet
  <2>5. Writers(TRUE) = {} => Quiet'
      BY <2>2, <2>3 DEF Writers, Quiet, WritesAreOpen, FenceTypeOK
  <2>6. call = "drain" /\ call' = (IF Writers(TRUE) = {} THEN "recheck" ELSE "drain")
      BY <1>7 DEF Drain, DrainRound, Goes
  <2> QED
      BY <2>3, <2>4, <2>5, <2>6 DEF FenceProgress, UnfenceProgress, Fenced, Unfenced
<1>8. CASE DropReaders
    BY <1>8 DEF DropReaders, DrainRound, Goes, Answer, database, fenceHistory, FenceProgress,
        UnfenceProgress, Fenced, Unfenced, FenceTypeOK
<1>9. CASE DoSeal
    BY <1>9 DEF DoSeal, Seal, Answer, Goes, FenceProgress, UnfenceProgress, Fenced, Unfenced,
        Quiet, FenceTypeOK
<1>10. CASE DoReopen
    BY <1>10 DEF DoReopen, Reopen, Goes, fenceHistory, FenceProgress, UnfenceProgress, Fenced,
        Unfenced, Quiet, FenceTypeOK
<1>11. CASE Fail \/ GiveUpCall
    BY SMTT(60), <1>11 DEF Fail, GiveUpCall, Goes, database, fenceHistory, FenceProgress, UnfenceProgress,
        Fenced, Unfenced, Quiet, FenceTypeOK
<1>12. ASSUME NEW st \in {"close", "seal", "open"}, Lands(st) PROVE Rest'
    BY SMTT(60), <1>12 DEF Lands, Statement, CloseAdmissions, Seal, Reopen, fenceHistory, FenceProgress,
        UnfenceProgress, Fenced, Unfenced, Quiet, FenceTypeOK
<1> QED
    BY <1>2, <1>3, <1>4, <1>5, <1>6, <1>7, <1>8, <1>9, <1>10, <1>11, <1>12
    DEF FenceNext, FenceCall, BackendStep

\* The invariant holds in every reachable state.
LEMMA FenceInvariant == FenceSpec => []FenceInv
<1>1. FenceInit => FenceInv
  <2> SUFFICES ASSUME FenceInit PROVE FenceInv
      OBVIOUS
  <2>1. Out \in SessionType /\ ~Out.dirty
      BY DEF Out, SessionType
  <2>2. FenceTypeOK
    <3>1. sess \in [Sessions -> SessionType]
        BY <2>1 DEF FenceInit
    <3>2. 0 \in 0 .. MaxPrepared /\ 0 \in 0 .. MaxCalls
        BY SMTT(60), FenceAssumption
    <3> QED
        BY <3>1, <3>2 DEF FenceInit, FenceTypeOK, SessionType
  <2>3. WritesAreOpen
      BY <2>1 DEF FenceInit, WritesAreOpen
  <2> QED
      BY <2>2, <2>3 DEF FenceInit, FenceInv, FenceProgress, UnfenceProgress, Fenced, Unfenced
<1> QED
    BY <1>1, FenceStep, PTL DEF FenceSpec

\* After an answered FenceWrites(true), and until an un-fence is asked for, no
\* session can write and no prepared transaction is left, for any number of
\* sessions and of calls that fail or are given up (pg.rs, fence_writes).
THEOREM FenceIsSound == FenceSpec => []FenceHolds
<1>1. FenceInv => FenceHolds
    BY DEF FenceInv, Fenced, FenceHolds, Quiet, CanWrite
<1> QED
    BY <1>1, FenceInvariant, PTL

\* After an answered FenceWrites(false), and until a fence is asked for, the
\* database admits writers, whatever fences failed before it (pg.rs,
\* fence_writes).
THEOREM UnfenceIsSound == FenceSpec => []UnfenceHolds
<1>1. FenceInv => UnfenceHolds
    BY DEF FenceInv, Unfenced, UnfenceHolds
<1> QED
    BY <1>1, FenceInvariant, PTL

-----------------------------------------------------------------------------
(* Creating databases. *)

CallPlaces == {"idle", "check", "create", "stamp", "foreign", "ok"}
CallerType ==
    [at : CallPlaces, mark : Marks \cup {NoMark}, adopt : BOOLEAN, round : Int]

ProvisionTypes ==
    /\ db \in Marks \cup {NoMark, Absent}
    /\ caller \in [Callers -> CallerType]
    /\ meddled \in BOOLEAN /\ foreign \in BOOLEAN

\* Only the call that created the database is about to stamp it.
OneStamper ==
    \A c \in Callers : caller[c].at = "stamp" =>
        /\ db = NoMark /\ ~foreign
        /\ \A d \in Callers : caller[d].at = "stamp" => d = c

ProvisionInv == ProvisionTypes /\ (~meddled => OneStamper) /\ ProvenanceHolds

\* A call that relies on the marker, or is about to set it.
Concerned(d) == caller[d].at = "stamp" \/ (caller[d].at = "ok" /\ caller[d].mark # NoMark)

\* What a step of one call must show.
LEMMA CallStep ==
    ASSUME ProvisionInv, NEW c \in Callers, ProvisionTypes', UNCHANGED foreign, meddled => meddled',
           \A d \in Callers : d # c => caller'[d] = caller[d],
           ~meddled' =>
              /\ \/ db' = db
                 \/ (foreign => db' = NoMark) /\ \A d \in Callers : d # c => ~Concerned(d)
              /\ caller'[c].at = "ok" /\ caller'[c].mark # NoMark => db' = caller'[c].mark
              /\ caller'[c].at = "stamp" =>
                    db' = NoMark /\ ~foreign /\ \A d \in Callers : d # c => caller[d].at # "stamp"
    PROVE  ProvisionInv'
  <1> SUFFICES ASSUME ~meddled' PROVE OneStamper' /\ ProvenanceHolds'
    BY DEF ProvisionInv, ProvenanceHolds
  <1>1. ~meddled /\ OneStamper /\ ProvenanceHolds
    BY DEF ProvisionInv, ProvisionTypes
  <1>2. OneStamper'
    BY <1>1 DEF OneStamper, Concerned
  <1>3. foreign' => db' = NoMark
    BY <1>1 DEF ProvenanceHolds
  <1>4. ASSUME NEW d \in Callers, caller'[d].at = "ok", caller'[d].mark # NoMark
        PROVE  db' = caller'[d].mark
    BY <1>1, <1>4 DEF ProvenanceHolds, Concerned
  <1> QED
    BY <1>2, <1>3, <1>4 DEF ProvenanceHolds

LEMMA CallMoves ==
    ASSUME ProvisionTypes, NEW c \in Callers, NEW place \in CallPlaces, Moves(c, place)
    PROVE  /\ caller' \in [Callers -> CallerType] /\ \A d \in Callers : d # c => caller'[d] = caller[d]
           /\ caller'[c].at = place /\ caller'[c].mark = caller[c].mark
  <1>1. caller \in [Callers -> CallerType] /\ caller[c] \in CallerType
    BY DEF ProvisionTypes
  <1>2. [caller[c] EXCEPT !.at = place] \in CallerType
    BY <1>1 DEF CallerType
  <1>3. caller'[c] = [caller[c] EXCEPT !.at = place]
    BY <1>1 DEF Moves
  <1>4. caller'[c].at = place /\ caller'[c].mark = caller[c].mark
    BY <1>1, <1>3, SMTT(60) DEF CallerType
  <1>5. caller' \in [Callers -> CallerType] /\ \A d \in Callers : d # c => caller'[d] = caller[d]
    BY <1>1, <1>2 DEF Moves
  <1> QED
    BY <1>4, <1>5

LEMMA CallLeaves ==
    ASSUME ProvisionTypes, NEW c \in Callers, NEW r \in CallerType, caller' = [caller EXCEPT ![c] = r]
    PROVE  /\ caller' \in [Callers -> CallerType] /\ caller'[c] = r
           /\ \A d \in Callers : d # c => caller'[d] = caller[d]
  BY DEF ProvisionTypes

LEMMA IdleCallerTyped == IdleCaller \in CallerType /\ IdleCaller.at = "idle"
  BY SMTT(60) DEF IdleCaller, CallerType, CallPlaces

LEMMA ProvisionInitial == ProvisionInit => ProvisionInv
  <1> SUFFICES ASSUME ProvisionInit PROVE ProvisionInv
    OBVIOUS
  <1>1. \A c \in Callers : caller[c] = IdleCaller
    BY DEF ProvisionInit
  <1>2. ProvisionTypes
    BY IdleCallerTyped DEF ProvisionInit, ProvisionTypes
  <1>3. \A c \in Callers : caller[c].at = "idle"
    BY <1>1, IdleCallerTyped
  <1> QED
    BY <1>2, <1>3 DEF ProvisionInv, OneStamper, ProvenanceHolds, ProvisionInit

\* A step that no one can be misled by.
LEMMA HarmlessStep ==
    ASSUME ProvisionInv, NEW c \in Callers, NEW r \in CallerType, r.at \notin {"ok", "stamp"},
           caller' = [caller EXCEPT ![c] = r], UNCHANGED <<db, foreign, meddled>>
    PROVE  ProvisionInv'
  <1>1. ProvisionTypes
    BY DEF ProvisionInv
  <1>2. /\ caller' \in [Callers -> CallerType] /\ caller'[c] = r
        /\ \A d \in Callers : d # c => caller'[d] = caller[d]
    BY <1>1, CallLeaves
  <1>3. ProvisionTypes'
    BY <1>1, <1>2 DEF ProvisionTypes
  <1> QED
    BY <1>2, <1>3, CallStep

LEMMA CheckExistingStep ==
    ASSUME ProvisionInv, NEW c \in Callers, CheckExisting(c)
    PROVE  ProvisionInv'
  <1>1. ProvisionTypes /\ caller[c].at = "check" /\ UNCHANGED <<db, foreign>>
    BY DEF ProvisionInv, CheckExisting
  <1>2. PICK place \in CallPlaces :
            /\ Moves(c, place)
            /\ place = "ok" => caller[c].mark = NoMark \/ db = caller[c].mark
            /\ place = "stamp" => db # Absent /\ db # caller[c].mark /\ caller[c].adopt
    <2>1. CASE db = Absent
      BY <2>1 DEF CheckExisting, CallPlaces
    <2>2. CASE db # Absent /\ (caller[c].mark = NoMark \/ db = caller[c].mark)
      BY <2>2 DEF CheckExisting, CallPlaces
    <2>3. CASE db # Absent /\ ~(caller[c].mark = NoMark \/ db = caller[c].mark) /\ caller[c].adopt
      BY <2>3 DEF CheckExisting, CallPlaces
    <2>4. CASE db # Absent /\ ~(caller[c].mark = NoMark \/ db = caller[c].mark) /\ ~caller[c].adopt
      BY <2>4 DEF CheckExisting, CallPlaces
    <2> QED
      BY <2>1, <2>2, <2>3, <2>4
  <1>3. meddled' = (meddled \/ (db # Absent /\ db # caller[c].mark /\ caller[c].adopt))
    BY DEF CheckExisting
  <1>4. /\ caller' \in [Callers -> CallerType] /\ \A d \in Callers : d # c => caller'[d] = caller[d]
        /\ caller'[c].at = place /\ caller'[c].mark = caller[c].mark
    BY <1>1, <1>2, CallMoves
  <1>5. meddled' \in BOOLEAN /\ (meddled => meddled') /\ (place = "stamp" => meddled')
    BY <1>2, <1>3
  <1>6. ProvisionTypes'
    BY <1>1, <1>4, <1>5 DEF ProvisionTypes
  <1> QED
    BY <1>1, <1>2, <1>4, <1>5, <1>6, CallStep

LEMMA CreateStep ==
    ASSUME ProvisionInv, NEW c \in Callers, Create(c)
    PROVE  ProvisionInv'
  <1>1. ProvisionTypes /\ caller[c] \in CallerType /\ UNCHANGED <<foreign, meddled>>
    BY DEF ProvisionInv, ProvisionTypes, Create
  <1>2. CASE db = Absent
    <2>1. PICK place \in CallPlaces :
              /\ Moves(c, place) /\ place \in {"ok", "stamp"}
              /\ place = "ok" => caller[c].mark = NoMark
      BY <1>2 DEF Create, CallPlaces
    <2>2. /\ caller' \in [Callers -> CallerType] /\ \A d \in Callers : d # c => caller'[d] = caller[d]
          /\ caller'[c].at = place /\ caller'[c].mark = caller[c].mark
      BY <1>1, <2>1, CallMoves
    <2>3. db' = NoMark
      BY <1>2 DEF Create
    <2>4. ProvisionTypes'
      BY <1>1, <2>2, <2>3 DEF ProvisionTypes
    <2>5. Absent # NoMark /\ \A d \in Callers : caller[d].mark # Absent
      BY <1>1, ProvisionAssumption, SMTT(60) DEF ProvisionTypes, CallerType, Absent, NoMark
    <2>6. ~meddled => ~foreign /\ \A d \in Callers : ~Concerned(d)
      BY <1>1, <1>2, <2>5 DEF ProvisionInv, ProvisionTypes, ProvenanceHolds, OneStamper, Concerned
    <2>7. ~meddled' => ~foreign /\ \A d \in Callers : ~Concerned(d) /\ caller[d].at # "stamp"
      BY <1>1, <2>6 DEF Concerned
    <2> QED
      BY <1>1, <2>1, <2>2, <2>3, <2>4, <2>7, CallStep
  <1>3. CASE db # Absent
    <2>1. UNCHANGED db
      BY <1>3 DEF Create
    <2>2. \/ caller' = [caller EXCEPT ![c] = Again(caller[c])]
          \/ caller' = [caller EXCEPT ![c] = IdleCaller]
      BY <1>3 DEF Create
    <2>3. \E r \in CallerType : r.at \notin {"ok", "stamp"} /\ caller' = [caller EXCEPT ![c] = r]
      <3>1. CASE caller' = [caller EXCEPT ![c] = Again(caller[c])]
        <4>1. Again(caller[c]) \in CallerType /\ Again(caller[c]).at = "check"
          BY <1>1, SMTT(60) DEF Again, CallerType, CallPlaces
        <4> QED
          BY <3>1, <4>1
      <3>2. CASE caller' = [caller EXCEPT ![c] = IdleCaller]
        BY <3>2, IdleCallerTyped
      <3> QED
        BY <2>2, <3>1, <3>2
    <2> QED
      BY <1>1, <2>1, <2>3, HarmlessStep
  <1> QED
    BY <1>2, <1>3

LEMMA StampStep ==
    ASSUME ProvisionInv, NEW c \in Callers, Stamp(c)
    PROVE  ProvisionInv'
  <1>1. /\ ProvisionTypes /\ caller[c] \in CallerType /\ UNCHANGED <<foreign, meddled>>
        /\ caller[c].at = "stamp"
    BY DEF ProvisionInv, ProvisionTypes, Stamp
  <1>2. CASE db = Absent
    <2>1. caller' = [caller EXCEPT ![c] = IdleCaller] /\ db' = db
      BY <1>2 DEF Stamp
    <2>2. IdleCaller.at \notin {"ok", "stamp"}
      BY IdleCallerTyped
    <2> QED
      BY <1>1, <2>1, <2>2, IdleCallerTyped, HarmlessStep
  <1>3. CASE db # Absent
    <2>1. Moves(c, "ok") /\ db' = caller[c].mark /\ "ok" \in CallPlaces
      BY <1>3 DEF Stamp, Moves, CallPlaces
    <2>2. /\ caller' \in [Callers -> CallerType] /\ \A d \in Callers : d # c => caller'[d] = caller[d]
          /\ caller'[c].at = "ok" /\ caller'[c].mark = caller[c].mark
      BY <1>1, <2>1, CallMoves
    <2>3. caller[c].mark \in Marks \cup {NoMark}
      BY <1>1 DEF CallerType
    <2>4. ProvisionTypes'
      BY <1>1, <2>1, <2>2, <2>3 DEF ProvisionTypes
    <2>5. ~meddled => ~foreign /\ \A d \in Callers : d # c => ~Concerned(d)
      BY <1>1 DEF ProvisionInv, ProvenanceHolds, OneStamper, Concerned
    <2> QED
      BY <1>1, <2>1, <2>2, <2>4, <2>5, CallStep
  <1> QED
    BY <1>2, <1>3

LEMMA ProvisionStep ==
    ASSUME ProvisionInv, [ProvisionNext]_provisionVars
    PROVE  ProvisionInv'
  <1>1. CASE UNCHANGED provisionVars
    BY <1>1 DEF provisionVars, ProvisionInv, ProvisionTypes, OneStamper, ProvenanceHolds
  <1>2. ASSUME NEW c \in Callers, NEW m \in Marks \cup {NoMark}, NEW adopt \in BOOLEAN,
               AskCreate(c, m, adopt)
        PROVE  ProvisionInv'
    <2> DEFINE r == [at |-> "check", mark |-> m, adopt |-> adopt, round |-> 1]
    <2>1. r \in CallerType /\ r.at = "check"
      BY SMTT(60) DEF CallerType, CallPlaces
    <2>2. caller' = [caller EXCEPT ![c] = r] /\ UNCHANGED <<db, foreign, meddled>>
      BY <1>2 DEF AskCreate
    <2> HIDE DEF r
    <2> QED
      BY <2>1, <2>2, HarmlessStep
  <1>3. ASSUME NEW c \in Callers, Interrupt(c) PROVE ProvisionInv'
    BY <1>3, IdleCallerTyped, HarmlessStep DEF Interrupt
  <1>4. CASE DropDatabase
    <2>1. db' = Absent /\ meddled' /\ meddled' \in BOOLEAN /\ UNCHANGED <<caller, foreign>>
      BY <1>4 DEF DropDatabase
    <2> QED
      BY <2>1 DEF ProvisionInv, ProvisionTypes, ProvenanceHolds
  <1> QED
    BY <1>1, <1>2, <1>3, <1>4, CheckExistingStep, CreateStep, StampStep DEF ProvisionNext

\* Without a drop or an adoption, a caller that was told its marker is verified
\* can rely on it, and a database that was there before is never marked
\* (create_database and stamp_provenance), for any number of callers.
THEOREM ProvenanceKept == ProvisionSpec => []ProvenanceHolds
  <1>1. ProvisionInv => ProvenanceHolds
    BY DEF ProvisionInv
  <1> QED
    BY <1>1, ProvisionInitial, ProvisionStep, PTL DEF ProvisionSpec
=============================================================================
