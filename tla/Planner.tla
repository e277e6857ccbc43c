------------------------------- MODULE Planner -------------------------------
(***************************************************************************)
(* The planner (crates/pgshard-plan/src/lib.rs, extract.rs, sequence.rs)   *)
(* and the statement classes it works on (crates/pgshard-sql/src/lib.rs):  *)
(* where a parsed statement is sent, given the sharding schema and the     *)
(* shard catalog. These are pure functions; the properties at the end      *)
(* compare them with what PostgreSQL would do with the statement.          *)
(*                                                                         *)
(* A statement is its parse tree, cut down to what the planner looks at.   *)
(*   query:  [op, arms, from, where, subs, ctes, recursive, into]          *)
(*     from item: relation [tag "rel", schema, name], "join" [l, r],       *)
(*                "sub" [q] or "func"; subs are the expression subqueries; *)
(*     cte: [name, q, writes].                                             *)
(*   where:  "true", "and"/"or" [args], "not" [arg], "eq" [l, r],          *)
(*           "in" [l, list], or "opaque" (any other predicate).            *)
(*   operand: "col" [name], "const" [lit], "param" [n], "expr".            *)
(*   literal: "int" [v], "num" [int], "text" [text, rust, pg], "null",     *)
(*            "bool"; a text literal is its spelling together with what    *)
(*            the router's parser and PostgreSQL's input function of each  *)
(*            type read in it.                                             *)
(***************************************************************************)
EXTENDS Integers, Sequences, FiniteSets, SequencesExt, Keyspace

CONSTANTS
    Unread,       \* what a parser that gives up returns
    Hash(_),      \* XxHash64V1: canonical key value -> keyspace id
    VSchema,      \* relation -> [kind "Sharded", key, type, sequences] or [kind "Global"]
    Shards,       \* the catalog: sequence of [range, id]
    Binds,        \* the bound parameters a statement may come with
    KeyValues     \* the values rows carry in their key column, per type

-----------------------------------------------------------------------------
(* pgshard-sql: classification. *)

HasWritableCte(q) == \E i \in DOMAIN q.ctes : q.ctes[i].writes

Classify(s) ==
    CASE s.node = "Select" /\ s.q.into         -> "Ddl"
      [] s.node = "Select" /\ HasWritableCte(s.q) -> "Other"
      [] s.node = "Schema"                     -> "Ddl"
      [] s.node \in {"Begin", "Start"}         -> "TxnBegin"
      [] s.node \in {"Savepoint", "Prepared"}  -> "TxnOther"
      [] s.node \in {"Prepare", "Execute", "Deallocate"} -> "PrepareExec"
      [] s.node = "None"                       -> "Empty"
      [] s.node \in {"Call", "Do", "Lock"}     -> "Other"
      [] OTHER                                 -> s.node

-----------------------------------------------------------------------------
(* pgshard-core: the coercion of a literal to the key column's type. *)

ScalarFromConst(l) ==
    CASE l.lit = "int"  -> [type |-> "Int", v |-> l.v]
      [] l.lit = "num" /\ l.int # Unread -> [type |-> "Int", v |-> l.int]
      [] l.lit = "text" -> [type |-> "Text", v |-> l]
      [] OTHER          -> Unread

Coerce(type, sv) ==
    CASE sv.type = "Int"  -> IF type = "Int" THEN sv ELSE Unread
      [] sv.type = "Text" -> IF type = "Text" THEN [type |-> "Text", v |-> sv.v.text]
                             ELSE IF sv.v.rust[type] = Unread THEN Unread
                             ELSE [type |-> type, v |-> sv.v.rust[type]]

KeyspaceId(type, sv) ==
    IF Coerce(type, sv) = Unread THEN Unread ELSE Hash(Coerce(type, sv))

-----------------------------------------------------------------------------
(* extract.rs: what the planner reads in the tree. *)

KeyVal(o) ==
    CASE o.o = "const" -> IF ScalarFromConst(o.lit) = Unread THEN Unread
                          ELSE [k |-> "Const", sv |-> ScalarFromConst(o.lit)]
      [] o.o = "param" -> [k |-> "Param", n |-> o.n]
      [] OTHER         -> Unread

IsKeyColumn(o, key) == o.o = "col" /\ o.name = key

RECURSIVE WhereKeyValues(_, _)

\* A plausible slip: the values of both sides of an OR are mined as well,
\* also when only one side constrains the key.
MineOr(e, key) ==
    IF e.e \in {"and", "or"}
    THEN FlattenSeq([i \in DOMAIN e.args |-> WhereKeyValues(e.args[i], key)])
    ELSE IF e.e = "eq" /\ IsKeyColumn(e.l, key) /\ KeyVal(e.r) # Unread
    THEN <<KeyVal(e.r)>> ELSE <<>>

\* The values of `key = v` (either side) and of `key IN (...)` whose elements
\* can all be read, reached through ANDs only.
WhereKeyValues(e, key) ==
    LET side  == IF IsKeyColumn(e.l, key) THEN KeyVal(e.r)
                 ELSE IF IsKeyColumn(e.r, key) THEN KeyVal(e.l) ELSE Unread
        items == [i \in DOMAIN e.list |-> KeyVal(e.list[i])]
    IN  CASE e.e = "and" -> FlattenSeq([i \in DOMAIN e.args |-> WhereKeyValues(e.args[i], key)])
          [] e.e = "eq"  -> IF side = Unread THEN <<>> ELSE <<side>>
          [] e.e = "in"  -> IF IsKeyColumn(e.l, key) /\ \A i \in DOMAIN items : items[i] # Unread
                            THEN items ELSE <<>>
          [] OTHER       -> <<>>

\* The key cells of an INSERT's VALUES rows, by the key's place in the column
\* list; Unread when there is no such place or a cell is neither a literal
\* nor a parameter.
InsertKeyValues(ins, key) ==
    LET at    == SelectInSeq(ins.cols, LAMBDA c : c = key)
        cells == [r \in DOMAIN ins.rows |->
                    IF at \in DOMAIN ins.rows[r] THEN KeyVal(ins.rows[r][at]) ELSE Unread]
    IN  IF at = 0 \/ ins.rows = <<>> \/ \E r \in DOMAIN cells : cells[r] = Unread
        THEN Unread ELSE cells

RangeVarTable(r) == [schema |-> IF r.schema = "" THEN "public" ELSE r.schema, name |-> r.name]

\* The tables of a FROM clause, and whether every item is a plain one.
RECURSIVE CollectFrom(_)
CollectFrom(item) ==
    CASE item.tag = "rel"  -> [tables |-> <<RangeVarTable(item)>>, allPlain |-> TRUE]
      [] item.tag = "join" -> [tables |-> CollectFrom(item.l).tables \o CollectFrom(item.r).tables,
                               allPlain |-> CollectFrom(item.l).allPlain /\ CollectFrom(item.r).allPlain]
      [] OTHER             -> [tables |-> <<>>, allPlain |-> FALSE]

AnalyzeFrom(from) ==
    [tables   |-> FlattenSeq([i \in DOMAIN from |-> CollectFrom(from[i]).tables]),
     allPlain |-> \A i \in DOMAIN from : CollectFrom(from[i]).allPlain]

RECURSIVE SetOpFrom(_)
SetOpFrom(q) ==
    IF ~q.op THEN AnalyzeFrom(q.from)
    ELSE [tables   |-> SetOpFrom(q.arms[1]).tables \o SetOpFrom(q.arms[2]).tables,
          allPlain |-> SetOpFrom(q.arms[1]).allPlain /\ SetOpFrom(q.arms[2]).allPlain]

\* The queries directly below a query: set-operation arms, subqueries in the
\* FROM clause, expression subqueries and CTE bodies.
RECURSIVE FromQueries(_)
FromQueries(item) ==
    CASE item.tag = "sub"  -> <<item.q>>
      [] item.tag = "join" -> FromQueries(item.l) \o FromQueries(item.r)
      [] OTHER             -> <<>>

Below(q) ==
    q.arms \o q.subs \o FlattenSeq([i \in DOMAIN q.from |-> FromQueries(q.from[i])])
           \o [i \in DOMAIN q.ctes |-> q.ctes[i].q]

RECURSIVE ContainsSublink(_)
ContainsSublink(q) ==
    q.subs # <<>> \/ \E i \in DOMAIN Below(q) : ContainsSublink(Below(q)[i])

RECURSIVE ContainsCte(_)
ContainsCte(q) ==
    q.ctes # <<>> \/ \E i \in DOMAIN Below(q) : ContainsCte(Below(q)[i])

IsCatalogSchema(t) == t.schema \in {"pg_catalog", "information_schema"}

Placement(t) == IF t \in DOMAIN VSchema THEN VSchema[t].kind ELSE "Unknown"

RECURSIVE FromRelations(_)
FromRelations(item) ==
    CASE item.tag = "rel"  -> {[schema |-> item.schema, name |-> item.name]}
      [] item.tag = "join" -> FromRelations(item.l) \cup FromRelations(item.r)
      [] OTHER             -> {}

\* Does some relation of the tree resolve to nothing? A CTE's name hides a
\* relation from later siblings and from the body, or, under RECURSIVE, from
\* every sibling too; only unqualified names can mean a CTE.
RECURSIVE UnknownRelation(_, _)

UnknownRelation(q, visible) ==
    LET names    == [i \in DOMAIN q.ctes |-> q.ctes[i].name]
        all      == visible \cup ToSet(names)
        before(i) == IF q.recursive THEN all ELSE visible \cup ToSet(SubSeq(names, 1, i - 1))
        known(r) == \/ r.schema = "" /\ r.name \in all
                    \/ IsCatalogSchema(RangeVarTable(r))
                    \/ Placement(RangeVarTable(r)) # "Unknown"
        body     == q.arms \o q.subs \o FlattenSeq([i \in DOMAIN q.from |-> FromQueries(q.from[i])])
    IN  \/ \E i \in DOMAIN q.ctes : UnknownRelation(q.ctes[i].q, before(i))
        \/ \E i \in DOMAIN q.from : \E r \in FromRelations(q.from[i]) : ~known(r)
        \/ \E i \in DOMAIN body : UnknownRelation(body[i], all)

-----------------------------------------------------------------------------
(* lib.rs: the plan of a statement. *)

To(where, shards) == [to |-> where, shards |-> shards]
Reject == [to |-> "Reject", shards |-> {}, code |-> "0A000"]
RejectUnknown == [to |-> "Reject", shards |-> {}, code |-> "42P01"]

\* route_values: the shards that literal key values hit; a mix of literals and
\* parameters, or a literal that is no value of the type, cannot be resolved.
RouteValues(values, type) ==
    LET consts == {i \in DOMAIN values : values[i].k = "Const"}
        id(i)  == KeyspaceId(type, values[i].sv)
    IN  CASE values = <<>> -> [r |-> "Unkeyed"]
          [] consts # {} /\ consts # DOMAIN values -> [r |-> "Mixed"]
          [] consts = {} /\ values # <<>> ->
                [r |-> "Params", params |-> {values[i].n : i \in DOMAIN values}]
          [] \E i \in consts : id(i) = Unread -> [r |-> "Uncoercible"]
          [] OTHER -> [r |-> "Shards", shards |-> {Route(Shards, id(i)) : i \in consts}]

Parameterized(def, params, write) ==
    [to |-> "Parameterized", shards |-> {}, type |-> def.type, params |-> params, write |-> write]

\* resolve_bound: the same decision at Bind, on the bound values.
ResolveBound(p, binds) ==
    LET ids == {IF n \in DOMAIN binds THEN KeyspaceId(p.type, binds[n]) ELSE Unread : n \in p.params}
        hit == {Route(Shards, id) : id \in ids}
    IN  IF Unread \in ids \/ ids = {} THEN Reject
        ELSE IF Cardinality(hit) = 1 THEN To("SingleShard", hit)
        ELSE IF p.write THEN Reject ELSE To("Scatter", hit)

ReadFromShards(hit) == To(IF Cardinality(hit) = 1 THEN "SingleShard" ELSE "Scatter", hit)
WriteToShards(hit) == IF Cardinality(hit) = 1 THEN To("SingleShard", hit) ELSE Reject

PlanSetOp(q) ==
    LET from == SetOpFrom(q)
    IN  IF \/ ContainsSublink(q) \/ ContainsCte(q) \/ ~from.allPlain
           \/ \E t \in ToSet(from.tables) : Placement(t) = "Sharded" THEN Reject
        ELSE To(IF from.tables = <<>> THEN "RouterLocal" ELSE "Unsharded", {})

PlanSelect(q) ==
    LET from    == AnalyzeFrom(q.from)
        sharded == SelectSeq(from.tables, LAMBDA t : Placement(t) = "Sharded")
        def     == VSchema[sharded[1]]
        r       == RouteValues(WhereKeyValues(q.where, def.key), def.type)
    IN  CASE UnknownRelation(q, {}) -> RejectUnknown
          [] q.op -> PlanSetOp(q)
          [] sharded = <<>> ->
                To(IF /\ from.tables = <<>> /\ from.allPlain
                      /\ ~ContainsSublink(q) /\ ~ContainsCte(q)
                   THEN "RouterLocal" ELSE "Unsharded", {})
          [] \/ Len(sharded) > 1 \/ Len(from.tables) > 1 \/ ~from.allPlain
             \/ q.ctes # <<>> \/ ContainsSublink(q) -> Reject
          [] r.r \in {"Unkeyed", "Mixed", "Uncoercible"} -> To("Scatter", AllShards(Shards))
          [] r.r = "Params" -> Parameterized(def, r.params, FALSE)
          [] OTHER -> ReadFromShards(r.shards)

PlanKeyedWrite(def, values) ==
    LET r == RouteValues(values, def.type)
    IN  CASE r.r = "Params" -> Parameterized(def, r.params, TRUE)
          [] r.r = "Shards" -> WriteToShards(r.shards)
          [] OTHER          -> Reject

\* ON CONFLICT is shard-local only as DO NOTHING on an arbiter that lists the
\* key column.
ConflictStaysLocal(c, key) ==
    \/ c.action = "none"
    \/ c.action = "nothing" /\ ~c.constraint /\ key \in c.cols

PlanInsert(s) ==
    LET def    == VSchema[s.table]
        values == InsertKeyValues(s, def.key)
    IN  CASE s.ctes # <<>> \/ s.subs # <<>>  -> Reject
          [] Placement(s.table) = "Global"  -> To("Unsharded", {})
          [] Placement(s.table) = "Unknown" -> Reject
          [] ~ConflictStaysLocal(s.conflict, def.key) -> Reject
          [] values = Unread -> Reject
          [] OTHER -> PlanKeyedWrite(def, values)

\* plan_update and plan_delete: FROM/USING, WITH, subqueries and, for UPDATE,
\* an assignment to the key are refused on a sharded table.
PlanModify(s) ==
    LET def == VSchema[s.table]
    IN  CASE Placement(s.table) = "Global"  -> To("Unsharded", {})
          [] Placement(s.table) = "Unknown" -> Reject
          [] s.node = "Update" /\ def.key \in s.sets -> Reject
          [] s.from # <<>> \/ s.ctes # <<>> \/ s.subs # <<>> -> Reject
          [] OTHER -> PlanKeyedWrite(def, WhereKeyValues(s.where, def.key))

Plan(s) ==
    LET kind == Classify(s)
    IN  CASE kind = "Select" -> PlanSelect(s.q)
          [] kind = "Insert" -> PlanInsert(s)
          [] kind \in {"Update", "Delete"} -> PlanModify(s)
          [] kind = "Ddl" -> To("Broadcast", AllShards(Shards))
          [] kind \in {"Merge", "Copy", "Other"} -> Reject
          [] OTHER -> To("RouterLocal", {})

-----------------------------------------------------------------------------
(* sequence.rs: filling the sequence columns an INSERT omits. *)

InsertSequenceInjections(s) ==
    IF \/ s.node # "Insert" \/ Placement(s.table) # "Sharded" \/ s.rows = <<>> \/ s.cols = <<>>
    THEN <<>>
    ELSE SelectSeq(VSchema[s.table].sequences, LAMBDA b : b.column \notin ToSet(s.cols))

ValueRowCount(s) == Len(s.rows)

RewriteInsert(s, injected) ==
    IF s.rows = <<>> \/ \E i \in DOMAIN injected : Len(injected[i].ids) # Len(s.rows) THEN Unread
    ELSE [s EXCEPT !.cols = s.cols \o [i \in DOMAIN injected |-> injected[i].column],
                   !.rows = [r \in DOMAIN s.rows |->
                               s.rows[r] \o [i \in DOMAIN injected |-> injected[i].ids[r]]]]

-----------------------------------------------------------------------------
(* What PostgreSQL makes of a statement, on rows [key, other]: `other` decides *)
(* every predicate the model leaves opaque.                                    *)

PgValue(l, type) ==
    CASE l.lit = "int"  -> IF type = "Int" THEN l.v ELSE Unread
      [] l.lit = "num"  -> IF type = "Int" THEN l.pg ELSE Unread
      [] l.lit = "text" -> l.pg[type]
      [] OTHER          -> Unread

PgOperand(o, type, binds) ==
    CASE o.o = "const" -> PgValue(o.lit, type)
      [] o.o = "param" -> IF o.n \notin DOMAIN binds THEN Unread
                          ELSE IF binds[o.n].type = "Int"
                          THEN PgValue([lit |-> "int", v |-> binds[o.n].v], type)
                          ELSE binds[o.n].v.pg[type]

RECURSIVE Holds(_, _, _, _)
Holds(e, row, def, binds) ==
    LET same(o) == row.key.v = PgOperand(o, def.type, binds)
        fixed(o) == o.o \in {"const", "param"}
    IN  CASE e.e = "true" -> TRUE
          [] e.e = "and"  -> \A i \in DOMAIN e.args : Holds(e.args[i], row, def, binds)
          [] e.e = "or"   -> \E i \in DOMAIN e.args : Holds(e.args[i], row, def, binds)
          [] e.e = "not"  -> ~Holds(e.arg, row, def, binds)
          [] e.e = "eq" /\ IsKeyColumn(e.l, def.key) /\ fixed(e.r) -> same(e.r)
          [] e.e = "eq" /\ IsKeyColumn(e.r, def.key) /\ fixed(e.l) -> same(e.l)
          [] e.e = "in" /\ IsKeyColumn(e.l, def.key) ->
                \E i \in DOMAIN e.list : IF fixed(e.list[i]) THEN same(e.list[i]) ELSE row.other
          [] OTHER -> row.other

TableRows(def) ==
    [key : {[type |-> def.type, v |-> v] : v \in KeyValues[def.type]}, other : BOOLEAN]

CellOf(s, r, col) == s.rows[r][SelectInSeq(s.cols, LAMBDA c : c = col)]

\* The rows of its table a statement reads, changes, creates or conflicts
\* with. An UPDATE of the key may send a row anywhere.
Touched(s, def, binds) ==
    CASE s.node = "Select" -> {row \in TableRows(def) : Holds(s.q.where, row, def, binds)}
      [] s.node \in {"Update", "Delete"} ->
            {row \in TableRows(def) :
                Holds(s.where, row, def, binds) \/ (s.node = "Update" /\ def.key \in s.sets)}
      [] s.node = "Insert" ->
            {row \in TableRows(def) : \E r \in DOMAIN s.rows :
                \/ row.key.v = PgOperand(CellOf(s, r, def.key), def.type, binds)
                \/ /\ s.conflict.action # "none"
                   /\ s.conflict.constraint \/ def.key \notin s.conflict.cols}

\* The base relations a query names, under PostgreSQL's scoping of WITH.
RECURSIVE BaseRelations(_, _)
BaseRelations(q, visible) ==
    LET names == [i \in DOMAIN q.ctes |-> q.ctes[i].name]
        all   == visible \cup ToSet(names)
        inner == q.arms \o q.subs \o FlattenSeq([i \in DOMAIN q.from |-> FromQueries(q.from[i])])
        sees(i) == IF q.recursive THEN all ELSE visible \cup {names[j] : j \in 1 .. i - 1}
        plain == UNION {FromRelations(q.from[i]) : i \in DOMAIN q.from}
    IN  UNION {BaseRelations(inner[i], all) : i \in DOMAIN inner}
        \cup UNION {BaseRelations(q.ctes[i].q, sees(i)) : i \in DOMAIN q.ctes}
        \cup {RangeVarTable(r) : r \in {x \in plain : x.schema # "" \/ x.name \notin all}}

Relations(s) ==
    IF s.node = "Select" THEN BaseRelations(s.q, {})
    ELSE {s.table} \cup UNION {BaseRelations(s.subs[i], {}) : i \in DOMAIN s.subs}

Covers(p, s, binds) ==
    CASE p.to = "RouterLocal" -> s.node = "Select" => Relations(s) = {}
      [] p.to \in {"SingleShard", "Scatter"} ->
            \E t \in DOMAIN VSchema :
                /\ Relations(s) = {t} /\ VSchema[t].kind = "Sharded"
                /\ s.node = "Select" => ~ContainsCte(s.q)
                /\ s.node # "Select" => p.to = "SingleShard"
                /\ \A row \in Touched(s, VSchema[t], binds) :
                       Route(Shards, Hash(row.key)) \in p.shards
      [] OTHER -> TRUE

\* "The planner never under-routes": whatever shards a statement is sent to,
\* at once or once its parameters are bound, it names one sharded table and
\* nothing else, every row it can touch lives on one of those shards, and a
\* write goes to a single one. A statement kept in the session names no table.
NeverUnderRoutes(s) ==
    LET p == Plan(s)
    IN  p.to # "Reject" => \A binds \in Binds :
            Covers(IF p.to = "Parameterized" THEN ResolveBound(p, binds) ELSE p, s, binds)

\* A SELECT is refused as naming an undefined table (42P01) exactly when some
\* relation in it, wherever it stands, is neither configured, nor a catalog,
\* nor a WITH query in scope there.
UnknownNamesRefused(s) ==
    Classify(s) = "Select" =>
        (Plan(s) = RejectUnknown <=>
            \E t \in Relations(s) : ~IsCatalogSchema(t) /\ Placement(t) = "Unknown")

\* An INSERT that is sent to a shard with its sequence columns filled in is
\* still the INSERT that was routed: every listed column keeps its value in
\* every row, every omitted sequence column gets that row's id, nothing is
\* left to fill, and the rewritten statement routes to the same shard.
RewriteKeepsRoute(s) ==
    s.node = "Insert" /\ Plan(s).to = "SingleShard" =>
        LET omitted  == InsertSequenceInjections(s)
            id(i, r) == [o |-> "const", lit |-> [lit |-> "num", int |-> 10 * i + r, pg |-> 10 * i + r]]
            t == RewriteInsert(s, [i \in DOMAIN omitted |->
                    [column |-> omitted[i].column,
                     ids    |-> [r \in 1 .. ValueRowCount(s) |-> id(i, r)]]])
        IN  /\ Plan(t) = Plan(s)
            /\ InsertSequenceInjections(t) = <<>>
            /\ \A r \in DOMAIN s.rows :
                  /\ Len(t.rows[r]) = Len(t.cols)
                  /\ \A c \in ToSet(s.cols) : CellOf(t, r, c) = CellOf(s, r, c)
                  /\ \A i \in DOMAIN omitted : CellOf(t, r, omitted[i].column) = id(i, r)
=============================================================================
