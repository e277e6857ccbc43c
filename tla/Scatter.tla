------------------------------- MODULE Scatter -------------------------------
(***************************************************************************)
(* Running a routed statement and putting its answer together              *)
(* (crates/pgshard-router/src/backend.rs, merge.rs and the scatter half of *)
(* wire.rs): collecting one backend's messages into a result, forwarding   *)
(* it, and concatenating or merging the results of several shards.         *)
(*                                                                         *)
(*   message: [m "RowDescription", schema], "DataRow" [row],               *)
(*            "CommandComplete" [tag], "EmptyQuery", "ReadyForQuery",      *)
(*            "Error", "Async" (notice, parameter status, notification),   *)
(*            "Other" (anything else);                                     *)
(*   schema:  sequence of [name, type], the types those of the text form;  *)
(*   row:     sequence of cells: a text, Null, or Broken (a field length   *)
(*            that is negative or overruns the row);                       *)
(*   tag:     [verb, count], the count NoCount where the tag has none;     *)
(*   select:  [shape, targets, sort]: the clauses other than target list   *)
(*            and ORDER BY as a set, the targets as [col, name] ("*" is    *)
(*            written out; an expression is [col "expr", name]), the sort  *)
(*            items as [key, dir, nulls].                                  *)
(***************************************************************************)
EXTENDS Integers, Sequences, SequencesExt, FiniteSets

CONSTANTS
    Failed,          \* an error instead of an answer
    Null, Broken,    \* cells
    ColumnTypes,     \* column of the scanned table -> its type
    Read(_, _),      \* what Rust's parser of a type reads in a text
    PgRank(_, _),    \* where PostgreSQL orders a text of a type
    TableData        \* the rows of the scanned table, as functions of the columns

NoCount == -1

-----------------------------------------------------------------------------
(* backend.rs *)

\* What a backend may send at any time.
Ignored(m) == m.m = "Async"

\* One message into the collector: [state "pending" | "ready" | "failed",
\* open (is a row-returning statement in progress), schema, rows, out].
OnMessage(c, m) ==
    CASE c.state # "pending" -> c
      [] m.m = "RowDescription" -> [c EXCEPT !.open = TRUE, !.schema = m.schema, !.rows = <<>>]
      [] m.m = "DataRow" -> IF c.open THEN [c EXCEPT !.rows = Append(@, m.row)]
                            ELSE [c EXCEPT !.state = "failed"]
      [] m.m = "CommandComplete" ->
            [c EXCEPT !.open = FALSE,
                      !.out = Append(@, IF c.open
                            THEN [kind |-> "Rows", schema |-> c.schema, rows |-> c.rows, tag |-> m.tag]
                            ELSE [kind |-> "Command", tag |-> m.tag])]
      [] m.m = "EmptyQuery"    -> [c EXCEPT !.out = Append(@, [kind |-> "Empty"])]
      [] m.m = "ReadyForQuery" -> [c EXCEPT !.state = "ready"]
      [] Ignored(m)            -> c
      [] OTHER                 -> [c EXCEPT !.state = "failed"]

\* PgWireBackend: the results of one simple query. A stream that ends before
\* ReadyForQuery is a lost connection.
CollectMessages(messages) ==
    LET c == FoldLeft(OnMessage, [state |-> "pending", open |-> FALSE, schema |-> <<>>,
                                  rows |-> <<>>, out |-> <<>>], messages)
    IN  IF c.state = "ready" THEN c.out ELSE Failed

\* Under an expired write lease the session is first set read-only: the query
\* runs only if that succeeded, and PostgreSQL then refuses its writes.
Run(readOnly, setting, messages) ==
    IF readOnly /\ CollectMessages(setting) = Failed THEN Failed ELSE CollectMessages(messages)

\* TokioPostgresBackend: text rows only, every column a varchar, the tag
\* rebuilt from the statement's leading keyword.
TextResult(keyword, messages) ==
    LET last(k)  == SelectLastInSeq(messages, LAMBDA m : m.m = k)
        rd       == last("RowDescription")
        done     == last("CommandComplete")
        rows     == SelectSeq(SubSeq(messages, rd + 1, Len(messages)), LAMBDA m : m.m = "DataRow")
        affected == IF done = 0 \/ messages[done].tag.count = NoCount THEN 0 ELSE messages[done].tag.count
    IN  IF last("Error") # 0 \/ last("ReadyForQuery") = 0 THEN Failed
        ELSE IF rd # 0
        THEN <<[kind   |-> "Rows",
                schema |-> [i \in DOMAIN messages[rd].schema |->
                              [name |-> messages[rd].schema[i].name, type |-> "varchar"]],
                rows   |-> [i \in DOMAIN rows |-> rows[i].row],
                tag    |-> [verb |-> keyword,
                            count |-> IF keyword \in {"INSERT", "UPDATE", "DELETE"} THEN 0 ELSE NoCount]]>>
        ELSE <<[kind |-> "Command", tag |-> [verb |-> keyword, count |-> affected]]>>

\* wire.rs, response_from and rows_response: a row-returning response counts
\* the rows it streams, under the backend's verb where the tag had a count
\* (counted_tag_prefix, dml_tag_prefix) and SELECT otherwise.
ResponseFrom(r) ==
    IF r.kind # "Rows" THEN r
    ELSE [r EXCEPT !.tag = [verb  |-> IF r.tag.count = NoCount THEN "SELECT" ELSE r.tag.verb,
                            count |-> Len(r.rows)]]

-----------------------------------------------------------------------------
(* wire.rs: which scatter reads can be put together at all. *)

SortColumn(item) ==
    CASE item.key.by = "name" -> item.key
      [] item.key.by = "position" /\ item.key.n >= 1 -> item.key
      [] OTHER -> Failed

NullsFirst(item) ==
    CASE item.nulls = "first" -> TRUE
      [] item.nulls = "last"  -> FALSE
      [] OTHER                -> item.dir = "desc"

ClassifyScatter(s) ==
    CASE \/ s.shape # {} \/ s.targets = <<>>
         \/ \E i \in DOMAIN s.targets : s.targets[i].col = "expr" -> Failed
      [] \E i \in DOMAIN s.sort : s.sort[i].dir = "using" \/ SortColumn(s.sort[i]) = Failed -> Failed
      [] OTHER -> [i \in DOMAIN s.sort |->
                     [column |-> SortColumn(s.sort[i]), desc |-> s.sort[i].dir = "desc",
                      nullsFirst |-> NullsFirst(s.sort[i])]]

SchemasMatch(a, b) == a = b

\* Every shard must answer, and with the same columns; statements that return
\* no rows are skipped.
CollectScatter(results) ==
    LET flat == FlattenSeq(results)
        rows == SelectSeq(flat, LAMBDA r : r.kind = "Rows")
    IN  CASE \E i \in DOMAIN results : results[i] = Failed -> Failed
          [] \E i \in DOMAIN rows : ~SchemasMatch(rows[1].schema, rows[i].schema) -> Failed
          [] rows = <<>> -> [schema |-> <<>>, rows |-> <<>>]
          [] OTHER -> [schema |-> rows[1].schema,
                       rows   |-> FlattenSeq([i \in DOMAIN rows |-> rows[i].rows])]

-----------------------------------------------------------------------------
(* merge.rs *)

SortKind(type) ==
    CASE type \in {"int2", "int4", "int8"} -> "Int"
      [] type \in {"float4", "float8"}     -> "Float"
      [] type = "bool"                     -> "Bool"
      [] OTHER                             -> Failed

\* The output column a sort key names; 0 when there is none or several.
ResolveIndex(schema, column) ==
    LET hits == {i \in DOMAIN schema : schema[i].name = column.name}
    IN  CASE column.by = "position" -> IF column.n \in DOMAIN schema THEN column.n ELSE 0
          [] Cardinality(hits) = 1  -> CHOOSE i \in hits : TRUE
          [] OTHER                  -> 0

ResolveKeys(schema, keys) ==
    LET index(k) == ResolveIndex(schema, keys[k].column)
    IN  IF \E k \in DOMAIN keys : index(k) = 0 \/ SortKind(schema[index(k)].type) = Failed THEN Failed
        ELSE [k \in DOMAIN keys |-> [index |-> index(k), kind |-> SortKind(schema[index(k)].type),
                                     desc |-> keys[k].desc, nullsFirst |-> keys[k].nullsFirst]]

FieldBytes(row, index) ==
    IF index > Len(row) \/ \E i \in 1 .. index : row[i] = Broken THEN Broken ELSE row[index]

Decode(cell, kind) == IF cell \in {Null, Broken} THEN cell ELSE Read(kind, cell)

\* Numbers and booleans compare by value; a float is [nan, v], NaN above every
\* number. CmpValue is negative, zero or positive.
Cmp(a, b, kind) ==
    IF kind # "Float" THEN a - b
    ELSE IF a.nan \/ b.nan THEN (IF a.nan THEN 1 ELSE 0) - (IF b.nan THEN 1 ELSE 0)
    ELSE a.v - b.v

\* A plausible slip: descending order reverses the place of the nulls too.
CmpValueReversed(a, b, key) ==
    LET cmp == CASE a = Null /\ b = Null -> 0
                 [] a = Null -> IF key.nullsFirst THEN -1 ELSE 1
                 [] b = Null -> IF key.nullsFirst THEN 1 ELSE -1
                 [] OTHER    -> Cmp(a, b, key.kind)
    IN  IF key.desc THEN 0 - cmp ELSE cmp

CmpValue(a, b, key) ==
    CASE a = Null /\ b = Null -> 0
      [] a = Null -> IF key.nullsFirst THEN -1 ELSE 1
      [] b = Null -> IF key.nullsFirst THEN 1 ELSE -1
      [] key.desc -> Cmp(b, a, key.kind)
      [] OTHER    -> Cmp(a, b, key.kind)

CmpRows(a, b, keys) ==
    LET differ == {k \in DOMAIN keys : CmpValue(a[k], b[k], keys[k]) # 0}
        first  == CHOOSE k \in differ : \A j \in differ : k <= j
    IN  IF differ = {} THEN 0 ELSE CmpValue(a[first], b[first], keys[first])

\* Decode every row's keys, then a stable sort.
SortRows(rows, keys) ==
    LET value(row) == [k \in DOMAIN keys |-> Decode(FieldBytes(row, keys[k].index), keys[k].kind)]
        place(sorted, row) ==
            LET after == Cardinality({i \in DOMAIN sorted : CmpRows(value(sorted[i]), value(row), keys) <= 0})
            IN  InsertAt(sorted, after + 1, row)
    IN  CASE keys = Failed -> Failed
          [] \E i \in DOMAIN rows : \E k \in DOMAIN keys : value(rows[i])[k] = Broken -> Failed
          [] OTHER -> FoldLeft(place, <<>>, rows)

MergeOrdered(schema, rows, sortKeys) == SortRows(rows, ResolveKeys(schema, sortKeys))

RowsResponse(schema, rows) == IF rows = Failed THEN Failed ELSE [schema |-> schema, rows |-> rows]

\* run_scatter without sort keys, run_ordered_scatter with them, on what the
\* shards answered; no rows at all is an empty answer.
Combine(keys, all) ==
    CASE keys = Failed \/ all = Failed       -> Failed
      [] keys = <<>> \/ all.schema = <<>>    -> all
      [] OTHER -> RowsResponse(all.schema, MergeOrdered(all.schema, all.rows, keys))

RunScatter(s, results) == Combine(ClassifyScatter(s), CollectScatter(results))

-----------------------------------------------------------------------------
(* What PostgreSQL answers, were all the rows in one place. *)

\* The column a sort item orders by: an output name first, else an input name.
SourceOf(s, item) ==
    LET named == {i \in DOMAIN s.targets : s.targets[i].name = item.key.name}
        cols  == {s.targets[i].col : i \in named}
    IN  CASE item.key.by = "position" ->
                IF item.key.n \in DOMAIN s.targets THEN s.targets[item.key.n].col ELSE Failed
          [] item.key.by = "name" /\ named # {} ->
                IF Cardinality(cols) = 1 THEN CHOOSE c \in cols : TRUE ELSE Failed
          [] item.key.name \in DOMAIN ColumnTypes -> item.key.name
          [] OTHER -> Failed

\* Ranks are below 100, so a null ranks above or below every value.
Rank(s, item, r) ==
    LET col  == SourceOf(s, item)
        cell == IF col = "expr" THEN Null ELSE r[col]
        rank == IF cell = Null THEN 0 ELSE PgRank(ColumnTypes[col], cell)
        nullsFirst == item.nulls = "first" \/ (item.nulls = "default" /\ item.dir = "desc")
    IN  CASE cell = Null -> IF nullsFirst THEN -100 ELSE 100
          [] item.dir = "asc" -> rank
          [] OTHER -> 0 - rank

SameRank(s, a, b) == \A i \in DOMAIN s.sort : Rank(s, s.sort[i], a) = Rank(s, s.sort[i], b)

NotAfter(s, a, b) ==
    \/ SameRank(s, a, b)
    \/ \E i \in DOMAIN s.sort :
          /\ Rank(s, s.sort[i], a) < Rank(s, s.sort[i], b)
          /\ \A j \in 1 .. i - 1 : Rank(s, s.sort[j], a) = Rank(s, s.sort[j], b)

InOrder(s, rows) ==
    FoldLeft(LAMBDA done, r : InsertAt(done, Cardinality({i \in DOMAIN done : NotAfter(s, done[i], r)}) + 1, r),
             <<>>, rows)

Project(s, r) == [i \in DOMAIN s.targets |-> IF s.targets[i].col = "expr" THEN Null ELSE r[s.targets[i].col]]

\* DISTINCT drops the repeated output rows, LIMIT 1 keeps the first, an
\* aggregate makes one row of all.
Distinct(s, ordered) ==
    LET firsts == {i \in DOMAIN ordered :
                     \A j \in 1 .. i - 1 : Project(s, ordered[j]) # Project(s, ordered[i])}
    IN  [k \in 1 .. Cardinality(firsts) |->
            ordered[CHOOSE i \in firsts : Cardinality(firsts \cap 1 .. i) = k]]

Limit(s, rows) ==
    IF "limit" \in s.shape \/ \E i \in DOMAIN s.targets : s.targets[i].col = "expr"
    THEN SubSeq(rows, 1, 1) ELSE rows

Eval(s, rows) ==
    Limit(s, IF "distinct" \in s.shape THEN Distinct(s, InOrder(s, rows)) ELSE InOrder(s, rows))

SchemaOf(s, types) ==
    [i \in DOMAIN s.targets |-> [name |-> s.targets[i].name,
                                 type |-> IF s.targets[i].col = "expr" THEN "int8" ELSE types[s.targets[i].col]]]

PgRefuses(s) == \E i \in DOMAIN s.sort : SourceOf(s, s.sort[i]) = Failed

\* A shard's answer to the forwarded statement. It may fail, be on another
\* version of the schema, or have its rows mangled on the way.
Messages(s, out, fault) ==
    LET types == IF fault = "migrated" THEN [ColumnTypes EXCEPT !["a"] = "text"] ELSE ColumnTypes
        row(r) == IF fault = "cut" THEN [Project(s, r) EXCEPT ![1] = Broken] ELSE Project(s, r)
    IN  <<[m |-> "RowDescription", schema |-> SchemaOf(s, types)]>>
        \o [i \in DOMAIN out |-> [m |-> "DataRow", row |-> row(out[i])]]
        \o <<[m |-> "CommandComplete", tag |-> [verb |-> "SELECT", count |-> Len(out)]],
             [m |-> "ReadyForQuery"]>>

Collected(messages, verbatim) ==
    IF verbatim THEN CollectMessages(messages) ELSE TextResult("SELECT", messages)

ShardAnswer(s, rows, fault, verbatim) ==
    IF fault = "failed" \/ PgRefuses(s) THEN Failed
    ELSE Collected(Messages(s, Eval(s, rows), fault), verbatim)

\* The rows of an answer are those of the table, as often, and in its order.
SameRows(s, rows, expected) ==
    /\ Len(rows) = Len(expected)
    /\ \A row \in ToSet(rows) \cup {Project(s, r) : r \in ToSet(expected)} :
          Len(SelectSeq(rows, LAMBDA x : x = row))
          = Len(SelectSeq(expected, LAMBDA r : Project(s, r) = row))
    /\ \A i \in DOMAIN expected : \E r \in ToSet(TableData) :
          Project(s, r) = rows[i] /\ SameRank(s, r, expected[i])

AnswerIsExact(s, fault, mangled, results, answer) ==
    answer # Failed =>
        /\ fault # "failed"
        /\ \A n \in DOMAIN results : answer.schema = results[n][1].schema
        /\ IF fault = "cut" /\ mangled # <<>> THEN s.sort = <<>>
           ELSE SameRows(s, answer.rows, Eval(s, TableData))

ResultsAreExact(s, fault, mangled, results) ==
    AnswerIsExact(s, fault, mangled, results, RunScatter(s, results))

\* A read fanned out to the shards is either refused or answered as one
\* database holding all the rows would: the same rows, once each, in an order
\* the ORDER BY allows, under the columns every shard reported; and a read one
\* shard failed, one shard has other columns for, or whose sort keys cannot be
\* read, is not answered.
ScatterIsExact(s) ==
    \A shardOf \in [DOMAIN TableData -> 1 .. 2],
       fault \in {"none", "failed", "migrated", "cut"}, verbatim \in BOOLEAN :
        LET on(n)   == SelectSeq([j \in DOMAIN TableData |-> j], LAMBDA j : shardOf[j] = n)
            held(n) == [i \in DOMAIN on(n) |-> TableData[on(n)[i]]]
        IN  ResultsAreExact(s, fault, held(2), <<ShardAnswer(s, held(1), "none", verbatim),
                                                 ShardAnswer(s, held(2), fault, verbatim)>>)

\* A statement's answer reaches the client as the backend gave it, whatever
\* notices arrive in between: all its rows in order, one result per statement,
\* each under its own command tag with the right count. It is an error exactly
\* when the backend reported one or the stream is cut or makes no sense. Under
\* an expired write lease it runs only in a session that was set read-only.
AnswersForwarded(messages, settings) ==
    \A setting \in settings, readOnly \in BOOLEAN :
        LET out == Run(readOnly, setting, messages)
            of(kinds) == SelectSeq(messages, LAMBDA m : m.m \in kinds)
            bad(ms) == \/ \E i \in DOMAIN ms : ms[i].m \in {"Error", "Other"}
                       \/ ms = <<>> \/ Last(ms).m # "ReadyForQuery"
            ends == of({"CommandComplete", "EmptyQuery"})
        IN  /\ out = Failed <=> (readOnly /\ bad(setting)) \/ bad(messages)
            /\ out # Failed =>
                 LET shown == [i \in DOMAIN out |-> ResponseFrom(out[i])]
                 IN  /\ Len(shown) = Len(ends)
                     /\ FlattenSeq([i \in DOMAIN out |-> IF out[i].kind = "Rows" THEN out[i].rows ELSE <<>>])
                        = [i \in DOMAIN of({"DataRow"}) |-> of({"DataRow"})[i].row]
                     /\ \A i \in DOMAIN shown :
                           IF ends[i].m = "EmptyQuery" THEN shown[i].kind = "Empty"
                           ELSE shown[i].tag = ends[i].tag \/ ends[i].tag.verb = "SHOW"
=============================================================================
