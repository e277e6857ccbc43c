------------------------------- MODULE Apply -------------------------------
(***************************************************************************)
(* What one seeding run does to the rows of a table, as pure functions: the*)
(* validation of its specification and its preflight against both catalogs *)
(* (crates/pgshard-agent/src/workflow.rs), the publication PrepareSource   *)
(* provisions for it (crates/pgshard-agent/src/pg.rs), the range filter    *)
(* (crates/pgshard-repl/src/filter.rs), the copy's row filter              *)
(* (crates/pgshard-repl/src/copy.rs) and the statements the applier builds *)
(* (crates/pgshard-repl/src/apply.rs).                                     *)
(*                                                                         *)
(* A value is its text form. PostgreSQL (what it publishes, what a         *)
(* statement does to the target) is external and modelled by its effect.   *)
(***************************************************************************)
EXTENDS Integers, Sequences, FiniteSets, SequencesExt

CONSTANTS Failed    \* a model value: the call failed loudly

Null      == "null"
Unchanged == "unchanged"    \* a TOASTed value the update did not ship

-----------------------------------------------------------------------------
(* The shard key: which texts a declared type hashes, and to what. An id    *)
(* is the canonical text itself; the run keeps the ids in KeptIds.             *)

ScalarTypes == {"int", "text", "uuid", "bytea"}

Coerce(type, text) ==
    CASE type = "int" /\ text \notin {"1", "2"} -> Failed
      [] OTHER -> text

AllowedKeyOids(type) ==
    CASE type = "int"  -> {"int2", "int4", "int8"}
      [] type = "text" -> {"text", "varchar"}
      [] OTHER         -> {type}

\* The keep-or-skip decision for a shard key's text: TRUE, FALSE or Failed.
TextInRange(text, type, kept) ==
    IF Coerce(type, text) = Failed THEN Failed ELSE Coerce(type, text) \in kept

TupleInRange(tuple, index, type, kept) ==
    CASE index \notin DOMAIN tuple            -> Failed
      [] tuple[index] \in {Null, Unchanged}   -> Failed
      [] OTHER -> TextInRange(tuple[index], type, kept)

-----------------------------------------------------------------------------
(* PostgreSQL. A column is a name, a type, a typmod and whether it is       *)
(* generated or an ALWAYS identity; a table has columns, a kind, a replica  *)
(* identity, and the key and INCLUDE columns of its identity index.         *)

\* What is stored, and shipped, for a value written to a column: char(n) pads
\* it, a narrow typmod cuts it.
Stored(col, v) ==
    CASE v = Null -> v
      [] col.mod = "cut" -> "cut"
      [] col.type = "bpchar" /\ v \in {"1", "2"} -> v \o "_"
      [] OTHER -> v

Image(table, row) ==
    [i \in DOMAIN table.cols |-> Stored(table.cols[i], row[table.cols[i].name])]

IdentityColumns(table) == IF table.replident \in {"d", "i"} THEN table.key ELSE {}

Publishes(pub, name, kind) ==
    /\ kind \in pub.kinds
    /\ \/ pub.flags \cap {"alltables", "inschema"} # {}
       \/ \E m \in pub.members : m.name = name

\* The columns of a relation as the stream announces them.
Announced(pub, table) ==
    LET listed(c) == \A m \in pub.members : m.name = table.name /\ m.list => c.name # "v"
    IN  SelectSeq(table.cols, LAMBDA c : listed(c) /\ (c.gen => "generated" \in pub.flags))

Relation(pub, table) ==
    [msg |-> "Relation", replident |-> table.replident,
     name |-> IF table.kind = "p" THEN "leaf" ELSE table.name,
     cols |-> [i \in DOMAIN Announced(pub, table) |->
                 [name |-> Announced(pub, table)[i].name, type |-> Announced(pub, table)[i].type,
                  isKey |-> Announced(pub, table)[i].name \in IdentityColumns(table)]]]

\* The tuple shipped for a row: all of it, only its identity (the rest NULL),
\* or, for an update, without the TOASTed values that did not change.
Ship(pub, table, row, hide, as) ==
    LET cols == Announced(pub, table)
    IN  [i \in DOMAIN cols |-> IF cols[i].name \in hide THEN as
                               ELSE Stored(cols[i], row[cols[i].name])]

KeyTuple(pub, table, row) ==
    IF table.replident = "f" THEN Ship(pub, table, row, {}, Null)
    ELSE Ship(pub, table, row, {c.name : c \in Range(table.cols)} \ IdentityColumns(table), Null)

\* The messages of one change; NoTuple where the old row is not shipped.
NoTuple == <<>>

Messages(pub, table, change) ==
    LET moved == \E c \in IdentityColumns(table) : change.old[c] # change.new[c]
        still == {c \in change.toasted : change.old[c] = change.new[c]}
    IN  IF \/ ~Publishes(pub, table.name, change.op)
           \/ change.op # "truncate" /\ \E m \in pub.members : m.name = table.name /\ m.filter
        THEN <<>>
        ELSE <<Relation(pub, table),
               CASE change.op = "insert" ->
                      [msg |-> "Insert", new |-> Ship(pub, table, change.new, {}, Null)]
                 [] change.op = "update" ->
                      [msg |-> "Update", new |-> Ship(pub, table, change.new, still, Unchanged),
                       old |-> IF moved \/ table.replident = "f"
                               THEN KeyTuple(pub, table, change.old) ELSE NoTuple]
                 [] change.op = "delete" ->
                      [msg |-> "Delete", old |-> KeyTuple(pub, table, change.old)]
                 [] OTHER -> [msg |-> "Truncate"]>>

\* A row of the table with some of its columns written.
Put(table, row, set) ==
    LET column(n) == CHOOSE c \in Range(table.cols) : c.name = n
    IN  [n \in {c.name : c \in Range(table.cols)} |->
            IF n \in DOMAIN set THEN Stored(column(n), set[n]) ELSE row[n]]

Defaults(table) == [n \in {c.name : c \in Range(table.cols)} |-> "default"]

\* The effect of a statement on the rows of the target: a statement that
\* PostgreSQL refuses, or that does not touch exactly one row, fails.
Execute(table, rows, stmt) ==
    LET names    == {c.name : c \in Range(table.cols)}
        refused  == \/ ~(DOMAIN stmt.set \subseteq names /\ DOMAIN stmt.where \subseteq names)
                    \/ \E c \in Range(table.cols) : c.name \in DOMAIN stmt.set /\ (c.gen \/ c.ident = "a")
        matching == {r \in rows : \A n \in DOMAIN stmt.where : r[n] = stmt.where[n]}
    IN  CASE refused -> Failed
          [] stmt.op = "insert" -> rows \cup {Put(table, Defaults(table), stmt.set)}
          [] Cardinality(matching) # 1 -> Failed
          [] stmt.op = "update" -> (rows \ matching) \cup {Put(table, r, stmt.set) : r \in matching}
          [] OTHER -> rows \ matching

-----------------------------------------------------------------------------
(* apply.rs: the statements. *)

Empty == [n \in {} |-> Null]

KeyColumns(rel) == {i \in DOMAIN rel.cols : rel.cols[i].isKey}

BuildWhere(rel, cells) ==
    IF \/ rel.replident \notin {"d", "i"}
       \/ KeyColumns(rel) = {}
       \/ \E i \in KeyColumns(rel) : cells[i] \in {Null, Unchanged}
    THEN Failed
    ELSE [n \in {rel.cols[i].name : i \in KeyColumns(rel)} |->
            cells[CHOOSE i \in DOMAIN rel.cols : rel.cols[i].name = n]]

Assignments(rel, cells, shipped) ==
    [n \in {rel.cols[i].name : i \in shipped} |->
        cells[CHOOSE i \in DOMAIN rel.cols : rel.cols[i].name = n]]

BuildInsert(rel, cells) ==
    IF Len(cells) # Len(rel.cols) \/ Unchanged \in Range(cells) THEN Failed
    ELSE [op |-> "insert", where |-> Empty, set |-> Assignments(rel, cells, DOMAIN cells)]

NoStatement == [op |-> "none", where |-> Empty, set |-> Empty]

BuildUpdate(rel, keySource, new) ==
    LET shipped == {i \in DOMAIN new : new[i] # Unchanged}
    IN  CASE Len(keySource) # Len(rel.cols) \/ Len(new) # Len(rel.cols) -> Failed
          [] shipped = {} -> NoStatement
          [] BuildWhere(rel, keySource) = Failed -> Failed
          [] OTHER -> [op |-> "update", where |-> BuildWhere(rel, keySource),
                       set |-> Assignments(rel, new, shipped)]

BuildDelete(rel, keySource) ==
    IF Len(keySource) # Len(rel.cols) \/ BuildWhere(rel, keySource) = Failed THEN Failed
    ELSE [op |-> "delete", where |-> BuildWhere(rel, keySource), set |-> Empty]

\* Applier::handle with the statement its commit executes for the change.
Handle(rel, m) ==
    CASE m.msg = "Insert" -> BuildInsert(rel, m.new)
      [] m.msg = "Update" -> BuildUpdate(rel, IF m.old = NoTuple THEN m.new ELSE m.old, m.new)
      [] m.msg = "Delete" -> IF m.old = NoTuple THEN Failed ELSE BuildDelete(rel, m.old)
      [] OTHER            -> Failed

-----------------------------------------------------------------------------
(* workflow.rs: the specification, the preflight, and the loop's messages.  *)

IsSafeIdent(name) == name \notin {"", "un-safe", "too-long"}

\* The specifications plan() accepts.
Plan(spec) ==
    /\ spec.id # "" /\ spec.kind = "reshard"
    /\ IsSafeIdent(spec.slot) /\ spec.slot \in {"pgshard_s"} /\ IsSafeIdent(spec.publication)
    /\ spec.target \notin {"", "too-long"} /\ spec.provenance # ""
    /\ spec.source = "complete" /\ spec.policy \in {"primary", "unspecified"}
    /\ spec.tables # <<>>
    /\ \A i, j \in DOMAIN spec.tables : spec.tables[i].name = spec.tables[j].name => i = j
    /\ spec.filter \in {"all", "range"}
    /\ \A i \in DOMAIN spec.tables :
          /\ spec.tables[i].name # "" /\ spec.tables[i].renamed = FALSE
          /\ spec.tables[i].key # "" /\ spec.tables[i].type \in ScalarTypes

AllKinds == {"insert", "update", "delete", "truncate"}

\* The publication must republish everything of exactly the mapped tables.
PublicationAccepted(pub, names) ==
    /\ pub.kinds = AllKinds
    /\ pub.flags = {}
    /\ names = {m.name : m \in pub.members}
    /\ \A m \in pub.members : ~m.filter /\ ~m.list

IdentityCovers(table, key) == table.replident \in {"d", "i"} /\ key \in table.key

\* The target must be a clone: nothing looser than the same columns.
TargetCompatible(src, tgt) ==
    /\ src.kind = "r" /\ tgt.kind = "r" /\ src.cols # <<>> /\ tgt.cols # <<>>
    /\ \A c \in Range(src.cols) : ~c.gen
    /\ \A t \in Range(tgt.cols) : \E c \in Range(src.cols) : c.name = t.name
    /\ \A c \in Range(src.cols) : \E t \in Range(tgt.cols) :
          /\ t.name = c.name /\ t.type = c.type /\ t.mod = c.mod
          /\ c.type # "custom" /\ ~t.gen /\ t.ident # "a"

TableAccepted(src, tgt, mapping) ==
    /\ TargetCompatible(src, tgt)
    /\ \E c \in Range(src.cols) :
          c.name = mapping.key /\ c.type \in AllowedKeyOids(mapping.type)
    /\ IdentityCovers(src, mapping.key)

PreflightPasses(run) ==
    /\ run.marker = run.spec.provenance
    /\ PublicationAccepted(run.pub, {run.spec.tables[i].name : i \in DOMAIN run.spec.tables})
    /\ \A i \in DOMAIN run.spec.tables : TableAccepted(run.src, run.tgt, run.spec.tables[i])

KeptIds(spec) == IF spec.filter = "all" THEN {"1", "2", "1_", "2_"} ELSE {"1"}

\* COPY: each mapping truncates the table and copies the rows whose shard key
\* is in range (copy.rs, row_in_range).
CopyTable(run, mapping, rows) ==
    LET index(n) == CHOOSE i \in DOMAIN run.src.cols : run.src.cols[i].name = n
        in(r)    == TextInRange(Image(run.src, r)[index(mapping.key)], mapping.type, KeptIds(run.spec))
        line(r)  == [n \in {c.name : c \in Range(run.src.cols)} |-> Image(run.src, r)[index(n)]]
    IN  IF \E r \in rows : in(r) = Failed THEN Failed
        ELSE {Put(run.tgt, Defaults(run.tgt), line(r)) : r \in {x \in rows : in(x)}}

Seed(run, rows) == CopyTable(run, Last(run.spec.tables), rows)

\* The filter a Relation message installs, or Failed.
RelFilter(run, rel) ==
    LET mapped == {i \in DOMAIN run.spec.tables : run.spec.tables[i].name = rel.name}
        m      == run.spec.tables[CHOOSE i \in mapped : \A j \in mapped : i <= j]
        at     == {i \in DOMAIN rel.cols : rel.cols[i].name = m.key}
    IN  CASE mapped = {} \/ at = {} -> Failed
          [] \E i \in at : \/ rel.cols[i].type \notin AllowedKeyOids(m.type)
                           \/ rel.replident \notin {"d", "i"} \/ ~rel.cols[i].isKey -> Failed
          [] OTHER -> [index |-> CHOOSE i \in at : TRUE, type |-> m.type]

\* A plausible slip: the old row's key is not compared with the new one's.
KeepNew(m, f, kept) ==
    LET in(t) == TupleInRange(t, f.index, f.type, kept)
    IN  CASE m.msg \in {"Insert", "Update"} -> in(m.new)
          [] m.msg = "Delete" -> in(m.old)
          [] OTHER -> Failed

\* Whether the loop hands a change to the applier: TRUE, FALSE or Failed.
Keep(m, f, kept) ==
    LET in(t) == TupleInRange(t, f.index, f.type, kept)
    IN  CASE m.msg = "Insert" -> in(m.new)
          [] m.msg = "Update" /\ m.old # NoTuple ->
                IF in(m.new) = Failed \/ in(m.old) # in(m.new) THEN Failed ELSE in(m.new)
          [] m.msg = "Update" -> in(m.new)
          [] m.msg = "Delete" -> IF m.old = NoTuple THEN Failed ELSE in(m.old)
          [] OTHER -> Failed

\* One transaction through the loop and the applier.
Stream(run, live, rows, change) ==
    LET msgs == Messages(run.pub, live, change)
        f    == RelFilter(run, msgs[1])
        keep == Keep(msgs[2], f, KeptIds(run.spec))
        stmt == Handle(msgs[1], msgs[2])
    IN  CASE msgs = <<>>                  -> rows
          [] f = Failed \/ keep = Failed  -> Failed
          [] ~keep                        -> rows
          [] stmt = Failed                -> Failed
          [] stmt.op = "none"             -> rows
          [] OTHER                        -> Execute(run.tgt, rows, stmt)

-----------------------------------------------------------------------------
(* pg.rs: the publication the operator has provisioned beforehand.          *)

NoPublication == [exists |-> FALSE, kinds |-> {}, flags |-> {}, members |-> {}]

PublicationMatches(pub, names) ==
    /\ pub.exists /\ pub.kinds = AllKinds /\ pub.flags = {}
    /\ Cardinality(pub.members) = Cardinality(names)
    /\ \A n \in names : \E m \in pub.members : m.name = n /\ ~m.filter /\ ~m.list

PrepareSource(pub, names, generated) ==
    CASE generated -> Failed
      [] PublicationMatches(pub, names) -> pub
      [] OTHER -> [exists |-> TRUE, kinds |-> AllKinds, flags |-> {},
                   members |-> {[name |-> n, list |-> FALSE, filter |-> FALSE] : n \in names}]

-----------------------------------------------------------------------------
(* workflow.rs: how long a captured xmin proves that a row is unchanged.    *)

XidRecurrenceHorizon(base, xmins, wrap) ==
    LET ds == {(v - base) % wrap : v \in {x \in xmins : x >= 3}} \ {0}
    IN  CHOOSE d \in ds \cup {wrap} : \A e \in ds : d <= e

-----------------------------------------------------------------------------
(* Properties. *)

Logical(rows, table, kept) ==
    {Put(table, Defaults(table), r) : r \in {x \in rows : x["k"] \in kept}}

\* The seed copy and the stream agree with the router: for every workflow
\* specification plan() accepts, every pair of catalogs preflight accepts and
\* every content of the source table, the copy is exactly the rows the router
\* places in the range, and replaying one more transaction - also when the
\* table's replica identity was altered meanwhile - either fails loudly or
\* leaves exactly the rows of the new source that are in the range. Nothing
\* is dropped, kept, transformed or duplicated silently: not by the
\* publication, not by a key's type, not by TOAST, not by a row that changes
\* its shard key. And it fails only where it must: an unaltered table is
\* seeded, and only a TRUNCATE or a row that crosses the boundary of the
\* range stops the stream.
SeedAndStreamExact(run, live, rows, change) ==
    LET seeded == Seed(run, rows)
        after  == CASE change.op = "insert" -> rows \cup {change.new}
                    [] change.op = "update" -> (rows \ {change.old}) \cup {change.new}
                    [] change.op = "delete" -> rows \ {change.old}
                    [] OTHER                -> {}
        replayed == Stream(run, live, seeded, change)
        crosses  == (change.old["k"] \in KeptIds(run.spec)) # (change.new["k"] \in KeptIds(run.spec))
        exact(t, src) == t = Failed \/ t = Logical(src, run.src, KeptIds(run.spec))
    IN  Plan(run.spec) /\ PreflightPasses(run) =>
            /\ seeded # Failed /\ exact(seeded, rows)
            /\ exact(replayed, after)
            /\ replayed = Failed => live # run.src \/ change.op = "truncate" \/ crosses

\* PrepareSource and the workflow's preflight agree on what a usable
\* publication is: what PrepareSource leaves behind is accepted by preflight,
\* and one that preflight accepts is left untouched ("a reconcile retry must
\* never rewrite the catalog rows a live consumer's drift poll has pinned").
PreparedIsAccepted(pub, names) ==
    /\ PublicationAccepted(PrepareSource(pub, names, FALSE), names)
    /\ pub.exists /\ PublicationAccepted(pub, names) => PrepareSource(pub, names, FALSE) = pub

\* Within the recurrence horizon no transaction id assigned after the
\* baseline can be one of the captured row versions, whatever the age of
\* those versions: equal versions prove that the rows were never rewritten.
HorizonIsSafe(base, xmins, wrap) ==
    \A n \in 1 .. XidRecurrenceHorizon(base, xmins, wrap) - 1 :
        (base + n) % wrap \notin {v \in xmins : v >= 3}
=============================================================================
