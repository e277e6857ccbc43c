------------------------------ MODULE Keyspace ------------------------------
(***************************************************************************)
(* The keyspace and the shard catalog (crates/pgshard-core/src/keyspace.rs,*)
(* crates/pgshard-plan/src/catalog.rs): half-open ranges of keyspace ids,  *)
(* their even split, their textual bounds, and the partition check that    *)
(* lets a catalog route every id.                                          *)
(*                                                                         *)
(* The code's ids are 64 bits, that is 8 digits in base 256. Here they are *)
(* Width digits in base Base; nothing in the code depends on the two       *)
(* numbers themselves.                                                     *)
(***************************************************************************)
EXTENDS Integers, Sequences, FiniteSets, SequencesExt

CONSTANTS Base, Width

ASSUME KeyspaceAssumption ==
    /\ Base \in Nat \ {0, 1}
    /\ Width \in Nat \ {0}

\* Base to the n.
Power[n \in 0 .. Width] == IF n = 0 THEN 1 ELSE Power[n - 1] * Base

Top == Power[Width]
Ids == 0 .. Top - 1

\* The end of the last range: "None" in the code, the empty string in text.
Open == -1

\* The errors: a range that cannot be built, a bound that cannot be read, a
\* split that cannot be made.
Err == [start |-> -1, end |-> -1]
BadBound == -2
NoSplit == <<>>

\* KeyRange::new refuses an empty range.
NewRange(start, end) ==
    IF end # Open /\ start >= end THEN Err ELSE [start |-> start, end |-> end]

EndExclusive(r) == IF r.end = Open THEN Top ELSE r.end

InRange(r, id) == id >= r.start /\ id < EndExclusive(r)

Intersects(r, o) == r.start < EndExclusive(o) /\ o.start < EndExclusive(r)

SplitEvenly(r, parts) ==
    LET width    == EndExclusive(r) - r.start
        bound(i) == r.start + (i * width) \div parts
    IN  IF parts = 0 \/ width < parts THEN NoSplit
        ELSE [i \in 1 .. parts |->
                [start |-> bound(i - 1),
                 end   |-> IF bound(i) = EndExclusive(r) THEN r.end ELSE bound(i)]]

Digit(v, k) == (v \div Power[Width - k]) % Base

\* Big-endian digits without the trailing zeros; zero is the empty text.
FormatBound(v) ==
    LET lit  == {k \in 1 .. Width : Digit(v, k) # 0}
        last == CHOOSE k \in lit \cup {0} : \A j \in lit : j <= k
    IN  [k \in 1 .. last |-> Digit(v, k)]

\* from_str_radix: the number that the digits s spell.
FromRadix(s) ==
    LET value[k \in 0 .. Len(s)] == IF k = 0 THEN 0 ELSE value[k - 1] * Base + s[k]
    IN  value[Len(s)]

\* The digits, padded with zeros on the right.
ParseBound(s) ==
    IF Len(s) > Width \/ \E k \in DOMAIN s : s[k] \notin 0 .. Base - 1 THEN BadBound
    ELSE FromRadix(s) * Power[Width - Len(s)]

Display(r) ==
    <<FormatBound(r.start), IF r.end = Open THEN <<>> ELSE FormatBound(r.end)>>

FromStr(text) ==
    LET start == ParseBound(text[1])
        end   == IF text[2] = <<>> THEN Open ELSE ParseBound(text[2])
    IN  IF BadBound \in {start, end} THEN Err ELSE NewRange(start, end)

ValidatePartition(ranges) ==
    /\ ranges # <<>>
    /\ ranges[1].start = 0
    /\ \A i \in 1 .. Len(ranges) - 1 : ranges[i].end = ranges[i + 1].start
    /\ Last(ranges).end = Open

\* The shard that owns a keyspace id: the first of the catalog's ranges, in
\* order, that contains it. Infallible on a validated partition.
Route(shards, id) ==
    LET hits == {i \in DOMAIN shards : InRange(shards[i].range, id)}
    IN  shards[CHOOSE i \in hits : \A j \in hits : i <= j].id

AllShards(shards) == {shards[i].id : i \in DOMAIN shards}

-----------------------------------------------------------------------------
Ranges == {NewRange(s, e) : s \in Ids, e \in Ids \cup {Open}} \ {Err}

Owners(ranges, id) == {i \in DOMAIN ranges : InRange(ranges[i], id)}

\* Splitting any range into any number of parts (KeyRange::split_evenly)
\* either refuses, exactly when there are more parts than ids, or tiles the
\* range: every id of it is in exactly one part, no other id is in any, and
\* no part is more than one id wider than another.
SplitTiles(r, parts) ==
    LET split    == SplitEvenly(r, parts)
        size(id) == Cardinality({i \in Ids : InRange(split[id], i)})
    IN  IF parts \notin 1 .. Cardinality({i \in Ids : InRange(r, i)})
        THEN split = NoSplit
        ELSE /\ \A i \in Ids :
                    Cardinality(Owners(split, i)) = IF InRange(r, i) THEN 1 ELSE 0
             /\ \A i, j \in DOMAIN split : size(i) <= size(j) + 1

\* validate_partition accepts exactly the lists of ranges, in ascending
\* order, that own every keyspace id once: this is what ShardCatalog::route
\* relies on when it says "exactly one shard contains any id".
PartitionOwnsEveryId(ranges) ==
    ValidatePartition(ranges) <=>
        /\ \A i \in Ids : Cardinality(Owners(ranges, i)) = 1
        /\ \A i, j \in DOMAIN ranges : i < j => ranges[i].start < ranges[j].start

\* Two ranges intersect exactly when some id is in both, and the text of a
\* range reads back as that range (Display and FromStr, the form in which
\* topologies and workflows carry it), different ranges having different
\* texts.
RangesReadBack(r, o) ==
    /\ Intersects(r, o) <=> \E i \in Ids : InRange(r, i) /\ InRange(o, i)
    /\ FromStr(Display(r)) = r
    /\ Display(r) = Display(o) => r = o
=============================================================================
