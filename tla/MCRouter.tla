------------------------------ MODULE MCRouter ------------------------------
(***************************************************************************)
(* The router's parts for TLC. The pure parts (keyspace, planner, answers, *)
(* snapshots, dispatch) are checked on one input per initial state, the    *)
(* sequence and the write lease as state machines. They share no variable, *)
(* so `focus` picks the one that moves and the others stand still: every   *)
(* behaviour of each part is explored, but not their product.              *)
(***************************************************************************)
EXTENDS Router, Sequence, Lease, TLC

VARIABLES focus, input

\* Three shards over the eight ids of a three-digit binary keyspace.
MCShards == <<[range |-> [start |-> 0, end |-> 2], id |-> "s0"],
              [range |-> [start |-> 2, end |-> 5], id |-> "s1"],
              [range |-> [start |-> 5, end |-> Open], id |-> "s2"]>>

\* Values of different types hash independently, as different bytes do.
MCHash(c) ==
    CASE c.type = "Int"  -> (3 * c.v + 7) % 8
      [] c.type = "Text" -> IF c.v = "1" THEN 6 ELSE IF c.v = "a" THEN 3 ELSE 0
      [] OTHER           -> IF c.v = "u1" THEN 1 ELSE 4

MCKeyValues == [Int |-> {1, 2, 3}, Text |-> {"1", "a", "0x2"}, Uuid |-> {"u1", "u2"}]

Rel(schema, name) == [tag |-> "rel", schema |-> schema, name |-> name]
Public(name) == [schema |-> "public", name |-> name]
Sharded(type, sequences) ==
    [kind |-> "Sharded", key |-> "k", type |-> type, sequences |-> sequences]

\* Two tables keyed by an integer and a text, one by a uuid, one global.
MCVSchema ==
    Public("orders") :> Sharded("Int", <<[column |-> "id", sequence |-> "q1"],
                                         [column |-> "n", sequence |-> "q2"]>>)
    @@ Public("notes") :> Sharded("Text", <<>>)
    @@ Public("docs") :> Sharded("Uuid", <<>>)
    @@ Public("cfg") :> [kind |-> "Global"]

\* Spellings: '1' is an integer to both parsers, '0x2' to PostgreSQL only,
\* 'a' to neither; two spellings of one uuid.
Text(text, int, pgint, uuid) ==
    [lit |-> "text", text |-> text, rust |-> [Int |-> int, Uuid |-> uuid],
     pg |-> [Int |-> pgint, Text |-> text, Uuid |-> uuid]]
T1 == Text("1", 1, 1, Unread)
T0x2 == Text("0x2", Unread, 2, Unread)
TA == Text("a", Unread, Unread, Unread)
TUuid == Text("{u-1}", Unread, Unread, "u1")
TUuid2 == Text("U1", Unread, Unread, "u1")

Const(l) == [o |-> "const", lit |-> l]
Num(v) == Const([lit |-> "int", v |-> v])
Params == {[o |-> "param", n |-> n] : n \in 1 .. 2}
Operands ==
    {Num(1), Num(2), Const([lit |-> "num", int |-> 3, pg |-> 3]),
     Const([lit |-> "num", int |-> Unread, pg |-> 1]),
     Const(T1), Const(T0x2), Const(TA), Const(TUuid), Const(TUuid2),
     Const([lit |-> "null"]), Const([lit |-> "bool"]), [o |-> "expr"]} \cup Params

Col(name) == [o |-> "col", name |-> name]
Eq(l, r) == [e |-> "eq", l |-> l, r |-> r]
In(list) == [e |-> "in", l |-> Col("k"), list |-> list]
True == [e |-> "true"]
Opaque == [e |-> "opaque"]
Atoms == {Eq(Col("k"), o) : o \in Operands} \cup {Eq(o, Col("k")) : o \in Operands}
         \cup {In(<<a, b>>) : a, b \in Operands}
         \cup {True, Opaque, Eq(Col("c"), Num(1)), Eq(Col("k"), Col("c"))}
Few == {Eq(Col("k"), Num(1)), Eq(Const(T0x2), Col("k")), In(<<Num(2), Num(3)>>), Opaque,
        Eq(Col("k"), [o |-> "param", n |-> 1]), Eq(Col("c"), Num(2))}
Pairs == {[e |-> c, args |-> <<a, b>>] : c \in {"and", "or"}, a, b \in Few}
         \cup {[e |-> "not", arg |-> a] : a \in Few}
Wheres == Atoms \cup Pairs \cup {[e |-> "and", args |-> <<p, Opaque>>] : p \in Pairs}

Query(from, where, subs, ctes, recursive) ==
    [op |-> FALSE, arms |-> <<>>, from |-> from, where |-> where, subs |-> subs,
     ctes |-> ctes, recursive |-> recursive, into |-> FALSE]
Simple(from) == Query(from, True, <<>>, <<>>, FALSE)
SelectOf(q) == [node |-> "Select", q |-> q]

Rels == {Rel("", "orders"), Rel("", "cfg"), Rel("", "x"), Rel("", "y"),
         Rel("public", "x"), Rel("pg_catalog", "pg_class")}
Leaves == {Simple(<<>>)} \cup {Simple(<<r>>) : r \in Rels}
Items == Rels \cup {[tag |-> "sub", q |-> q] : q \in Leaves} \cup {[tag |-> "func"]}
         \cup {[tag |-> "join", l |-> Rel("", "orders"), r |-> r] : r \in Rels}
Froms == {<<>>} \cup {<<i>> : i \in Items} \cup {<<Rel("", "orders"), i>> : i \in Items}
Cte(name, q) == [name |-> name, q |-> q, writes |-> FALSE]
Withs == {<<>>} \cup {<<Cte(n, q)>> : n \in {"x", "orders"}, q \in Leaves}
         \cup {<<Cte("x", q), Cte("y", p)>> :
                  q, p \in {Simple(<<Rel("", n)>>) : n \in {"orders", "x", "y"}}}
Subs == {<<>>} \cup {<<q>> : q \in Leaves}
Queries == {Query(f, True, s, w, r) : f \in Froms, s \in {<<>>, <<Simple(<<Rel("", "x")>>)>>},
                                      w \in Withs, r \in BOOLEAN}
           \cup {Query(f, True, s, <<>>, FALSE) : f \in Froms, s \in Subs}
SetOps == {[Simple(<<>>) EXCEPT !.op = TRUE, !.arms = <<a, b>>, !.ctes = w, !.subs = s] :
              a, b \in Leaves \cup {Simple(<<[tag |-> "func"]>>)},
              w \in {<<>>, <<Cte("x", Simple(<<Rel("", "orders")>>))>>},
              s \in {<<>>, <<Simple(<<Rel("", "cfg")>>)>>}}

Selects ==
    {SelectOf(q) : q \in Queries \cup SetOps}
    \cup {SelectOf(Query(<<Rel("", t)>>, w, <<>>, <<>>, FALSE)) :
             t \in {"orders", "notes", "docs"}, w \in Wheres}
    \cup {SelectOf([Simple(<<Rel("", "orders")>>) EXCEPT !.into = TRUE]),
          SelectOf([Simple(<<>>) EXCEPT !.ctes = <<[Cte("x", Simple(<<>>)) EXCEPT !.writes = TRUE]>>])}

Modify(node, t, where, sets, from, ctes, subs) ==
    [node |-> node, table |-> Public(t), where |-> where, sets |-> sets, from |-> from,
     ctes |-> ctes, subs |-> subs]
Modifies ==
    {Modify(n, t, w, {"c"}, <<>>, <<>>, <<>>) :
        n \in {"Update", "Delete"}, t \in {"orders", "notes", "docs"}, w \in Wheres}
    \cup {Modify(n, t, Eq(Col("k"), Num(1)), s, f, w, b) :
        n \in {"Update", "Delete"}, t \in {"orders", "cfg", "nope"}, s \in {{"c"}, {"c", "k"}},
        f \in {<<>>, <<Rel("", "cfg")>>}, w \in {<<>>, <<Cte("x", Simple(<<>>))>>},
        b \in {<<>>, <<Simple(<<Rel("", "orders")>>)>>}}

Conflicts == [action : {"none", "nothing", "update"}, constraint : BOOLEAN,
              cols : {{}, {"k"}, {"c"}, {"k", "c"}}]
NoConflict == [action |-> "none", constraint |-> FALSE, cols |-> {}]
Insert(t, cols, rows, conflict, ctes, subs) ==
    [node |-> "Insert", table |-> Public(t), cols |-> cols, rows |-> rows,
     conflict |-> conflict, ctes |-> ctes, subs |-> subs]
\* The rows of a column list: its key cell is the one that varies.
RowOf(cols, key) == [i \in DOMAIN cols |-> IF cols[i] = "k" THEN key ELSE Num(7)]
ColumnLists == {<<>>, <<"k">>, <<"c">>, <<"k", "c">>, <<"c", "k">>, <<"id", "k">>, <<"k", "n">>}
Inserts ==
    {Insert(t, cols, <<RowOf(cols, a), RowOf(cols, b)>>, NoConflict, <<>>, <<>>) :
        t \in {"orders", "notes", "docs", "cfg", "nope"}, cols \in ColumnLists, a, b \in Operands}
    \cup {Insert("orders", <<"k", "c">>, rows, c, w, b) :
        rows \in {<<>>, <<<<Num(1), Num(7)>>>>}, c \in Conflicts,
        w \in {<<>>, <<Cte("x", Simple(<<>>))>>}, b \in {<<>>, <<Simple(<<>>)>>}}

Others == {[node |-> n] : n \in {"Merge", "Copy", "Set", "Show", "Begin", "Start", "Commit",
            "Rollback", "Savepoint", "Prepared", "Prepare", "Execute", "Deallocate", "Schema",
            "Call", "Do", "Lock", "None"}}

MCStatements == Selects \cup Modifies \cup Inserts \cup Others

\* Bound values arrive as integers or texts, or not at all.
BoundValues == {[type |-> "Int", v |-> 2]} \cup {[type |-> "Text", v |-> t] : t \in {T1, TA, TUuid}}
MCBinds == UNION {[d -> BoundValues] : d \in {{}, {1}, {1, 2}}}
-----------------------------------------------------------------------------
(* Scatter reads of a table with an integer, a float and a text column. *)

MCColumnTypes == [a |-> "int8", f |-> "float8", t |-> "text"]
TextRow(a, f, t) == [a |-> a, f |-> f, t |-> t]
MCTableData == <<TextRow("10", "NaN", "b"), TextRow("9", "Infinity", "B"), TextRow(Null, "-0", "b"),
                 TextRow("10", "0", Null)>>
Number(text) == CASE text = "9" -> 9 [] text = "10" -> 10 [] text = "Infinity" -> 90 [] OTHER -> 0
MCRead(kind, text) ==
    IF kind = "Float" THEN [nan |-> text = "NaN", v |-> Number(text)] ELSE Number(text)
\* A collation that ignores case, where bytes would not.
MCPgRank(type, text) ==
    CASE type = "text"   -> 2
      [] text = "NaN" -> 99
      [] OTHER           -> Number(text)

Target(col, name) == [col |-> col, name |-> name]
TargetLists == {<<Target("a", "a")>>, <<Target("a", "f"), Target("f", "a")>>,
            <<Target("t", "t"), Target("f", "f"), Target("a", "a")>>,
            <<Target("a", "x"), Target("f", "x")>>, <<Target("expr", "count")>>, <<>>}
Keys == {[by |-> "name", name |-> n] : n \in {"a", "f", "t", "x"}}
        \cup {[by |-> "position", n |-> n, name |-> "a"] : n \in {0, 1, 3}}
        \cup {[by |-> "qualified", name |-> "f"], [by |-> "expr", name |-> "a"]}
SortItems == [key : Keys, dir : {"asc", "desc"}, nulls : {"default", "first", "last"}]
             \cup [key : {[by |-> "name", name |-> "a"]}, dir : {"using"}, nulls : {"default"}]
Sorts == {<<>>} \cup {<<i>> : i \in SortItems}
         \cup {<<[key |-> k, dir |-> d, nulls |-> "default"], i>> :
                  k \in {[by |-> "name", name |-> "a"]}, d \in {"asc", "desc"},
                  i \in {j \in SortItems : j.nulls # "last"}}
MCReads == [shape : {{}}, targets : TargetLists, sort : Sorts]
           \cup [shape : {{"distinct"}, {"limit"}, {"distinct", "limit"}}, targets : TargetLists,
                 sort : {<<>>, <<[key |-> [by |-> "name", name |-> "a"], dir |-> "asc", nulls |-> "default"]>>}]

Message(m) == [m |-> m]
Rows1 == <<[m |-> "RowDescription", schema |-> <<[name |-> "a", type |-> "int8"]>>],
           [m |-> "DataRow", row |-> <<"9">>], [m |-> "DataRow", row |-> <<Null>>]>>
Done(verb, count) == <<[m |-> "CommandComplete", tag |-> [verb |-> verb, count |-> count]]>>
Ready == <<Message("ReadyForQuery")>>
Answers == {Rows1 \o Done("SELECT", 2) \o Ready, Rows1 \o Done("INSERT", 2) \o Ready,
            Done("UPDATE", 3) \o Ready, Done("CREATE TABLE", NoCount) \o Ready,
            SubSeq(Rows1, 1, 2) \o Done("SHOW", NoCount) \o Ready,
            <<Message("EmptyQuery")>> \o Ready,
            Done("SET", NoCount) \o Rows1 \o Done("SELECT", 2) \o Ready}
MCStreams ==
    Answers \cup UNION {{SubSeq(a, 1, i) : i \in 0 .. Len(a)} : a \in Answers}
    \cup UNION {{InsertAt(a, i, Message(m)) : i \in 1 .. Len(a), m \in {"Async", "Error", "Other"}}
                : a \in Answers}
Settings == {Done("SET", NoCount) \o Ready, <<Message("Error")>> \o Ready}

-----------------------------------------------------------------------------
(* Topologies: shards in any order, with gaps, overlaps, repeated names, *)
(* bounds not spelled canonically, tables without a typed key, gates.    *)

Shard(name, a, b, state, primary) ==
    [name |-> name, bounds |-> <<a, b>>, state |-> state, primary |-> primary]
ShardPool ==
    {Shard("s0", <<>>, <<1>>, "Serving", "p0"), Shard("s0", <<>>, <<1>>, "Serving", None),
     Shard("s1", <<1>>, <<>>, "Serving", "p1"), Shard("s1", <<1>>, <<1, 1>>, "Serving", "p1"),
     Shard("s2", <<1, 1>>, <<>>, "Serving", "p2"), Shard("s0", <<1>>, <<>>, "Serving", "p0"),
     Shard("s3", <<>>, <<>>, "Hidden", "p3"), Shard("s1", <<1, 0>>, <<>>, "Serving", "p1")}
Table(t, kind, key, type) == [table |-> Public(t), kind |-> kind, key |-> key, type |-> type]
Tables == {<<>>, <<Table("orders", "Sharded", "k", "Int"), Table("cfg", "Global", None, None)>>,
           <<Table("orders", "Sharded", None, "Int")>>, <<Table("orders", "Sharded", "k", None)>>,
           <<Table("cfg", "Global", None, None), Table("cfg", "Global", None, None)>>}
Topology(shards, tables, gates, epoch, wait) ==
    [epoch |-> epoch, generation |-> 1, lease |-> wait, hash |-> "xxhash64_v1", shards |-> shards,
     tables |-> tables, gates |-> gates, system |-> "sys"]
ShardLists == UNION {[1 .. n -> ShardPool] : n \in 0 .. 3}
Topologies ==
    {Topology(sh, <<>>, {}, e, 10) : sh \in ShardLists, e \in {0, 1}}
    \cup {Topology(sh, t, g, 1, w) : sh \in UNION {[1 .. n -> ShardPool] : n \in 0 .. 2},
                                     t \in Tables, g \in {{}, {"g"}}, w \in {0, 60, 61}}

MCRouters ==
    {Build([Topology(<<Shard("s1", <<0, 1>>, <<1, 0, 1>>, "Serving", p),
                       Shard("s0", <<>>, <<0, 1>>, "Serving", "p0"),
                       Shard("s2", <<1, 0, 1>>, <<>>, "Serving", "p2")>>, <<>>, {}, 1, 10)
            EXCEPT !.system = system]) : p \in {"p1", None}, system \in {"sys", None}}
    \ {Failed}

-----------------------------------------------------------------------------
CONSTANTS r1, r2, t1, t2, t3

MCRoutersOf == [t \in {t1, t2, t3} |-> IF t = t3 THEN r2 ELSE r1]

InputsOf ==
    [statement |-> {MCStatements}, read |-> {MCReads}, stream |-> {MCStreams}, topology |-> {Topologies},
     split |-> {Ranges \X (0 .. 9)}, ranges |-> {UNION {[1 .. n -> Ranges] : n \in 0 .. 3}},
     pair |-> {Ranges \X Ranges}]

Machines == {"sequence", "lease"}

MCInit ==
    /\ focus \in DOMAIN InputsOf \cup Machines
    /\ IF focus \in Machines THEN input = <<>> ELSE \E inputs \in InputsOf[focus] : input \in inputs
    /\ SeqInit /\ (focus # "sequence" => blockSize = 1)
    /\ LeaseInit /\ (focus # "lease" => file.builds /\ skew = 0)

MCNext ==
    /\ UNCHANGED <<focus, input>>
    /\ \/ focus = "sequence" /\ SeqNext /\ UNCHANGED leaseVars
       \/ focus = "lease" /\ LeaseNext /\ UNCHANGED seqVars
       \/ focus \in DOMAIN InputsOf /\ UNCHANGED <<seqVars, leaseVars>>

MCSpec == MCInit /\ [][MCNext]_<<focus, input, seqVars, leaseVars>>

\* Planner: no statement is sent to fewer shards than hold rows it touches, a
\* SELECT is refused as naming an undefined table exactly when it names one, and
\* filling in sequence columns leaves an INSERT and its shard as they were.
StatementsPlanned ==
    focus = "statement" =>
        NeverUnderRoutes(input) /\ UnknownNamesRefused(input) /\ RewriteKeepsRoute(input)

\* Dispatch: nothing that could write runs on a stale view, no transaction is
\* acknowledged, a write runs in one place.
DispatchesSafe == focus = "statement" => DispatchIsSafe(input, MCRouters)

\* Answers: a scattered read is refused or answered as one database would, and
\* one backend's stream reaches the client as it is, or as an error.
AnswersExact ==
    /\ focus = "read" => ScatterIsExact(input)
    /\ focus = "stream" => AnswersForwarded(input, Settings)

\* Keyspace and snapshots: a router built from a topology routes every id as the
\* topology says, the partition check accepts exactly the lists of ranges that
\* own every id once, an even split tiles its range, and ranges read back from
\* their text.
EveryIdOwned ==
    /\ focus = "topology" => RouterMatchesTopology(input)
    /\ focus = "ranges" => PartitionOwnsEveryId(input)
    /\ focus = "split" => SplitTiles(input[1], input[2])
    /\ focus = "pair" => RangesReadBack(input[1], input[2])
=============================================================================
