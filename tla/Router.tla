------------------------------- MODULE Router -------------------------------
(***************************************************************************)
(* From a topology to a routing snapshot, and from a planned statement to  *)
(* the backends it runs on (crates/pgshard-topo/src/lib.rs and model.rs,   *)
(* crates/pgshard-router/src/lib.rs, the dispatch of wire.rs).             *)
(*                                                                         *)
(*   topology: [epoch, generation, lease, hash, shards, tables, gates,     *)
(*              system], a shard being [name, bounds, state, primary] and  *)
(*              a table [table, kind, key, type]; an endpoint is a name,   *)
(*              None where there is none.                                  *)
(***************************************************************************)
EXTENDS Planner, Scatter

CONSTANT None

\* model.rs: a range is read from its two bounds, which must be spelled the
\* way format_bound spells them.
CanonicalBound(s) == IF FormatBound(ParseBound(s)) # s THEN BadBound ELSE ParseBound(s)
IntoRange(bounds) ==
    LET first == CanonicalBound(bounds[1])
        last  == IF bounds[2] = <<>> THEN Open ELSE CanonicalBound(bounds[2])
    IN  IF BadBound \in {first, last} THEN Err ELSE NewRange(first, last)

Serving(topo) == SelectSeq(topo.shards, LAMBDA s : s.state = "Serving")
ByStart(shards) == SortSeq(shards, LAMBDA a, b : IntoRange(a.bounds).start < IntoRange(b.bounds).start)
RangesOf(shards) == [i \in DOMAIN shards |-> IntoRange(shards[i].bounds)]

\* A file that is not a topology, or not a valid one, is not loaded.
Validate(topo) ==
    /\ \A i \in DOMAIN topo.shards : IntoRange(topo.shards[i].bounds) # Err
    /\ topo.epoch > 0 /\ topo.lease \in 1 .. 60 /\ topo.generation > 0
    /\ topo.hash = "xxhash64_v1"
    /\ ValidatePartition(RangesOf(ByStart(Serving(topo))))

\* A sharded table needs a key and its type; a table may be listed once.
BuildVSchema(topo) ==
    IF \/ \E i \in DOMAIN topo.tables : /\ topo.tables[i].kind = "Sharded"
                                        /\ None \in {topo.tables[i].key, topo.tables[i].type}
       \/ \E i, j \in DOMAIN topo.tables : i # j /\ topo.tables[i].table = topo.tables[j].table
    THEN Failed
    ELSE ToSet(topo.tables)

\* A plausible slip: the shards are taken in the order they are listed.
BuildUnsorted(topo) ==
    LET serving == Serving(topo)
        names   == {serving[i].name : i \in DOMAIN serving}
        entry(n) == CHOOSE s \in ToSet(serving) : s.name = n
    IN  IF \/ topo.gates # {} \/ BuildVSchema(topo) = Failed
           \/ Cardinality(names) # Len(serving) \/ ~ValidatePartition(RangesOf(serving))
        THEN Failed
        ELSE [epoch |-> topo.epoch, vschema |-> BuildVSchema(topo), lease |-> topo.lease,
              catalog |-> [i \in DOMAIN serving |->
                             [range |-> IntoRange(serving[i].bounds), id |-> serving[i].name]],
              primaries |-> [n \in names |-> entry(n).primary], system |-> topo.system]

Build(topo) ==
    LET serving == ByStart(Serving(topo))
        names   == {serving[i].name : i \in DOMAIN serving}
        entry(n) == CHOOSE s \in ToSet(serving) : s.name = n
    IN  IF \/ topo.gates # {} \/ BuildVSchema(topo) = Failed
           \/ Cardinality(names) # Len(serving) \/ ~ValidatePartition(RangesOf(serving))
        THEN Failed
        ELSE [epoch |-> topo.epoch, vschema |-> BuildVSchema(topo), lease |-> topo.lease,
              catalog |-> [i \in DOMAIN serving |->
                             [range |-> IntoRange(serving[i].bounds), id |-> serving[i].name]],
              primaries |-> [n \in names |-> entry(n).primary], system |-> topo.system]

-----------------------------------------------------------------------------
\* The connection targets of a set of shards: all of them, or none at all.
Targets(router, ids) ==
    IF \E id \in ids : id \notin DOMAIN router.primaries \/ router.primaries[id] = None THEN Failed
    ELSE {[endpoint |-> router.primaries[id], database |-> id] : id \in ids}

SystemTarget(router) ==
    IF router.system = None THEN Failed ELSE {[endpoint |-> router.system, database |-> "system"]}

\* Some shard with a primary; which one does not matter.
AnyShardTarget(router) ==
    LET up == {id \in DOMAIN router.primaries : router.primaries[id] # None}
    IN  IF up = {} THEN Failed ELSE Targets(router, {CHOOSE id \in up : TRUE})

Resolve(router, plan) ==
    CASE plan.to \in {"SingleShard", "Scatter", "Broadcast"} -> Targets(router, plan.shards)
      [] plan.to = "Unsharded"   -> SystemTarget(router)
      [] plan.to = "RouterLocal" -> AnyShardTarget(router)
      [] OTHER                   -> Failed

IsWrite(s) == Classify(s) \in {"Insert", "Update", "Delete", "Ddl", "Merge", "Copy", "Other"}
IsTransactionControl(s) == Classify(s) \in {"TxnBegin", "Commit", "Rollback", "TxnOther"}

\* A plausible slip: statements for the system database skip the session
\* setting.
DispatchSystemOpen(router, s, stale, mergeable) ==
    LET plan == Plan(s)
    IN  IF \/ stale /\ IsWrite(s)
           \/ Resolve(router, plan) = Failed
           \/ plan.to = "RouterLocal" /\ IsTransactionControl(s)
           \/ plan.to = "Scatter" /\ ~mergeable
           \/ plan.to = "Broadcast"
        THEN Failed
        ELSE [on |-> Resolve(router, plan), readOnly |-> stale /\ plan.to # "Unsharded"]

\* Where one statement runs, and whether in a read-only session; Failed is an
\* error to the client. mergeable: classify_scatter knows how to merge it.
Dispatch(router, s, stale, mergeable) ==
    LET plan == Plan(s)
    IN  IF \/ stale /\ IsWrite(s)
           \/ Resolve(router, plan) = Failed
           \/ plan.to = "RouterLocal" /\ IsTransactionControl(s)
           \/ plan.to = "Scatter" /\ ~mergeable
           \/ plan.to = "Broadcast"
        THEN Failed
        ELSE [on |-> Resolve(router, plan), readOnly |-> stale]

\* do_query: nothing to run is answered as such, several statements are not.
DoQuery(router, statements, stale, mergeable) ==
    CASE statements = <<>>    -> [on |-> {}, readOnly |-> stale]
      [] Len(statements) = 1  -> Dispatch(router, statements[1], stale, mergeable)
      [] OTHER                -> Failed

-----------------------------------------------------------------------------
\* A topology the watcher validates either cannot be built, and then for a
\* reason other than its shards' order (gates, a table without a typed key,
\* a name used twice), or is built into a router that sends every keyspace id
\* to the primary of the one serving shard whose range holds it, and refuses
\* it when that shard has none. A range that is not spelled canonically is
\* never taken for another one.
RouterMatchesTopology(topo) ==
    Validate(topo) =>
        LET router  == Build(topo)
            serving == {s \in ToSet(topo.shards) : s.state = "Serving"}
            owner(id) == CHOOSE s \in serving :
                            /\ id >= ParseBound(s.bounds[1])
                            /\ s.bounds[2] = <<>> \/ id < ParseBound(s.bounds[2])
            sharded == {t \in ToSet(topo.tables) : t.kind = "Sharded"}
        IN  IF router = Failed
            THEN \/ topo.gates # {}
                 \/ \E t \in sharded : None \in {t.key, t.type}
                 \/ \E i, j \in DOMAIN topo.tables : i # j /\ topo.tables[i].table = topo.tables[j].table
                 \/ Cardinality({s.name : s \in serving}) # Cardinality(serving)
            ELSE \A id \in Ids :
                    Resolve(router, To("SingleShard", {Route(router.catalog, id)}))
                    = IF owner(id).primary = None THEN Failed
                      ELSE {[endpoint |-> owner(id).primary, database |-> owner(id).name]}

\* What reaches a backend: on a stale view nothing that could write does, for
\* reads run in a session PostgreSQL keeps read-only; a statement that opens
\* or ends a transaction never does; a write runs on exactly one backend; and
\* several statements in one message never do.
DispatchIsSafe(s, routers) ==
    \A router \in routers, stale, mergeable \in BOOLEAN :
        LET d == DoQuery(router, <<s>>, stale, mergeable)
        IN  /\ d # Failed =>
                /\ stale => d.readOnly /\ s.node \notin {"Insert", "Update", "Delete"}
                /\ s.node \notin {"Begin", "Start", "Commit", "Rollback", "Savepoint", "Prepared"}
                /\ s.node \in {"Insert", "Update", "Delete"} => Cardinality(d.on) = 1
            /\ DoQuery(router, <<s, s>>, stale, mergeable) = Failed
=============================================================================
