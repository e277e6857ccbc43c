-------------------------------- MODULE Wire --------------------------------
(***************************************************************************)
(* The replication wire formats (crates/pgshard-repl/src): the pgoutput    *)
(* decoder and its streamed-transaction bracket (pgoutput.rs), the CopyData*)
(* wrapper (stream.rs), the replication client's handshake and commands    *)
(* (client.rs), and the text format of the snapshot copy (copy.rs).        *)
(*                                                                         *)
(* A frame is a sequence of cells, one per field: "w" a fixed-width number,*)
(* "s" a string with its terminator, "z" a length with that many bytes,    *)
(* "c0", "c1", ... a count, and the letters that mark tuples and columns.  *)
(* Reading a cell as another kind is a silent misreading: Garbled.         *)
(***************************************************************************)
EXTENDS Integers, Sequences, FiniteSets, SequencesExt

CONSTANTS Truncated, Trailing, Unexpected, Garbled    \* model values: errors

Errors == {Truncated, Trailing, Unexpected, Garbled}

-----------------------------------------------------------------------------
(* The server's side of protocol version 4, from PostgreSQL: the fields of  *)
(* every message. "x" is the transaction id that only frames inside a       *)
(* streamed transaction carry; "old" an optional, "was" a mandatory old row.*)

ServerLayout(tag, parallel) ==
    CASE tag = "B" -> <<"w", "w", "w">>
      [] tag = "M" -> <<"x", "w", "w", "s", "z">>
      [] tag = "C" -> <<"w", "w", "w", "w">>
      [] tag = "O" -> <<"w", "s">>
      [] tag = "R" -> <<"x", "w", "s", "s", "w", "columns">>
      [] tag = "Y" -> <<"x", "w", "s", "s">>
      [] tag = "I" -> <<"x", "w", "new">>
      [] tag = "U" -> <<"x", "w", "old", "new">>
      [] tag = "D" -> <<"x", "w", "was">>
      [] tag = "T" -> <<"x", "oids">>
      [] tag = "S" -> <<"w", "w">>
      [] tag = "E" -> <<>>
      [] tag = "c" -> <<"w", "w", "w", "w", "w">>
      [] tag = "A" -> IF parallel THEN <<"w", "w", "w", "w">> ELSE <<"w", "w">>
      [] tag = "b" -> <<"w", "w", "w", "w", "s">>
      [] tag \in {"P", "K", "p"} -> <<"w", "w", "w", "w", "w", "s">>
      [] tag = "r" -> <<"w", "w", "w", "w", "w", "w", "s">>

Tags == {"B", "M", "C", "O", "R", "Y", "I", "U", "D", "T", "S", "E", "c", "A", "b", "P",
         "K", "p", "r"}

CountCell(n) == CASE n = -1 -> "c-1" [] n = 0 -> "c0" [] n = 1 -> "c1" [] n = 2 -> "c2"

\* A row is a sequence of columns: n (NULL), u (unchanged), t (text), b (binary).
RowCells(row) ==
    <<CountCell(Len(row))>> \o
    FlattenSeq([i \in DOMAIN row |-> IF row[i] \in {"t", "b"} THEN <<row[i], "z">> ELSE <<row[i]>>])

\* The cells of one field, for the message's rows (old: its marker and row,
\* or <<>>), its number of relation columns and of truncated relations.
FieldCells(field, m, inStream) ==
    CASE field = "x"       -> IF inStream THEN <<"w">> ELSE <<>>
      [] field = "new"     -> <<"N">> \o RowCells(m.new)
      [] field = "old"     -> IF m.mark = "" THEN <<>> ELSE <<m.mark>> \o RowCells(m.old)
      [] field = "was"     -> <<m.mark>> \o RowCells(m.old)
      [] field = "columns" -> <<CountCell(m.n)>> \o FlattenSeq([i \in 1 .. m.n |-> <<"w", "s", "w", "w">>])
      [] field = "oids"    -> <<CountCell(m.n), "w">> \o [i \in 1 .. m.n |-> "w"]
      [] OTHER             -> <<field>>

Encode(m, inStream, parallel) ==
    <<m.tag>> \o FlattenSeq([i \in DOMAIN ServerLayout(m.tag, parallel) |->
                               FieldCells(ServerLayout(m.tag, parallel)[i], m, inStream)])

-----------------------------------------------------------------------------
(* pgoutput.rs. A reader is the cells still to be read, or an error.        *)

\* One cell of one of the wanted kinds; anything else there is misread.
Take(r, kinds) ==
    CASE r.err # {}         -> r
      [] r.rest = <<>>      -> [r EXCEPT !.err = {Truncated}]
      [] r.rest[1] \notin kinds -> [r EXCEPT !.err = {Garbled}]
      [] OTHER              -> [r EXCEPT !.rest = Tail(r.rest), !.last = r.rest[1]]

Fixed(r)  == Take(r, {"w"})
Cstr(r)   == Take(r, {"s"})
Sized(r)  == Take(r, {"z"})
Count(r)  == LET c == Take(r, {"c-1", "c0", "c1", "c2"})
             IN  IF c.err = {} /\ c.last = "c-1" THEN [c EXCEPT !.err = {Unexpected}] ELSE c
Counted(r) == CASE r.err # {} -> 0 [] r.last = "c1" -> 1 [] r.last = "c2" -> 2 [] OTHER -> 0

Times(n, Step(_), r) == FoldLeft(LAMBDA st, i : Step(st), r, [i \in 1 .. n |-> i])

TupleColumn(r) ==
    LET k == Take(r, {"n", "u", "t", "b"})
        v == IF k.err = {} /\ k.last \in {"t", "b"} THEN Sized(k) ELSE k
    IN  IF v.err # {} THEN v ELSE [v EXCEPT !.row = Append(v.row, k.last)]

TupleData(r) == LET c == Count([r EXCEPT !.row = <<>>]) IN Times(Counted(c), TupleColumn, c)

StreamXid(r, inStream) == IF inStream THEN Fixed(r) ELSE r

Marker(r, wanted) ==
    LET m == Take(r, {"N", "K", "O"})
    IN  IF m.err = {} /\ m.last \notin wanted THEN [m EXCEPT !.err = {Unexpected}] ELSE m

NewRow(r) == LET t == TupleData(Marker(r, {"N"})) IN [t EXCEPT !.new = t.row]

OldRow(r, wanted) ==
    LET m == Marker(r, wanted)
        t == TupleData(m)
    IN  [t EXCEPT !.old = t.row, !.mark = IF m.err = {} THEN m.last ELSE ""]

\* An update's old row is there exactly when a K or an O comes first.
Update(r) ==
    IF r.err = {} /\ r.rest # <<>> /\ r.rest[1] \in {"K", "O"}
    THEN NewRow(OldRow(r, {"K", "O"})) ELSE NewRow(r)

RelationColumns(r) ==
    LET c == Count(r)
        column(s) == Fixed(Fixed(Cstr(Fixed(s))))
        done == Times(Counted(c), column, c)
    IN  [done EXCEPT !.n = Counted(c)]

TruncateBody(r) ==
    LET c == Count(r)
        done == Times(Counted(c), Fixed, Fixed(c))
    IN  [done EXCEPT !.n = Counted(c)]

Fixeds(n, r) == Times(n, Fixed, r)

Body(tag, r, inStream, parallel) ==
    LET x == StreamXid(r, inStream)
    IN  CASE tag = "B" -> Fixeds(3, r)
          [] tag = "M" -> Sized(Cstr(Fixeds(2, x)))
          [] tag = "C" -> Fixeds(4, r)
          [] tag = "O" -> Cstr(Fixed(r))
          [] tag = "R" -> RelationColumns(Fixed(Cstr(Cstr(Fixed(x)))))
          [] tag = "Y" -> Cstr(Cstr(Fixed(x)))
          [] tag = "I" -> NewRow(Fixed(x))
          [] tag = "U" -> Update(Fixed(x))
          [] tag = "D" -> OldRow(Fixed(x), {"K", "O"})
          [] tag = "T" -> TruncateBody(x)
          [] tag = "S" -> Fixeds(2, r)
          [] tag = "E" -> r
          [] tag = "c" -> Fixeds(5, r)
          [] tag = "A" -> Fixeds(IF parallel THEN 4 ELSE 2, r)
          [] tag = "b" -> Cstr(Fixeds(4, r))
          [] tag \in {"P", "K", "p"} -> Cstr(Fixeds(5, r))
          [] tag = "r" -> Cstr(Fixeds(6, r))
          [] OTHER -> [r EXCEPT !.err = {Unexpected}]

Reader(cells) ==
    [rest |-> cells, err |-> {}, last |-> "", row |-> <<>>, new |-> <<>>, old |-> <<>>,
     mark |-> "", n |-> 0]

Message(tag, r) == [tag |-> tag, new |-> r.new, old |-> r.old, mark |-> r.mark, n |-> r.n]

NextInStream(tag, inStream) ==
    CASE tag = "S" -> TRUE [] tag = "E" -> FALSE [] OTHER -> inStream

\* A plausible slip: the bracket is moved when the message is recognised,
\* before the rest of its frame has been accepted.
DecodeEager(cells, inStream, parallel) ==
    IF cells = <<>> THEN [result |-> Truncated, inStream |-> inStream]
    ELSE LET r == Body(cells[1], Reader(Tail(cells)), inStream, parallel)
         IN  [result   |-> CASE r.err # {} -> CHOOSE e \in r.err : TRUE
                             [] r.rest # <<>> -> Trailing
                             [] OTHER -> Message(cells[1], r),
              inStream |-> IF r.err = {} THEN NextInStream(cells[1], inStream) ELSE inStream]

Decode(cells, inStream, parallel) ==
    IF cells = <<>> THEN [result |-> Truncated, inStream |-> inStream]
    ELSE LET r == Body(cells[1], Reader(Tail(cells)), inStream, parallel)
         IN  CASE r.err # {} -> [result |-> CHOOSE e \in r.err : TRUE, inStream |-> inStream]
               [] r.rest # <<>> -> [result |-> Trailing, inStream |-> inStream]
               [] OTHER -> [result |-> Message(cells[1], r),
                            inStream |-> NextInStream(cells[1], inStream)]

\* stream.rs, decode: an XLogData carries a frame, a keepalive nothing more.
Unwrap(cells) ==
    LET r == Reader(Tail(cells))
        h == Fixeds(3, r)
    IN  CASE cells = <<>>         -> Truncated
          [] cells[1] \notin {"w", "k"} -> Unexpected
          [] h.err # {}           -> CHOOSE e \in h.err : TRUE
          [] cells[1] = "k" /\ h.rest # <<>> -> Trailing
          [] OTHER                -> h.rest

-----------------------------------------------------------------------------
(* client.rs: the handshake, CREATE_REPLICATION_SLOT with an exported       *)
(* snapshot, and START_REPLICATION, as what each reply of the server does.  *)
(* R0, R10, R11, R12 are the authentication messages; Rx offers no SCRAM;   *)
(* Dx is a slot row without a snapshot or a consistent point.               *)

OnReply(phase, tag, password) ==
    CASE tag = "N" -> phase
      [] phase = "auth"   /\ tag = "R0"  -> IF password THEN "failed" ELSE "params"
      [] phase = "auth"   /\ tag = "R10" -> "sasl"
      [] phase = "sasl"   /\ tag = "R11" -> "continue"
      [] phase = "continue" /\ tag = "R12" -> "final"
      [] phase = "final"  /\ tag = "R0"  -> "params"
      [] phase = "params" /\ tag \in {"S", "K"} -> "params"
      [] phase = "params" /\ tag = "Z"   -> "create"
      [] phase \in {"create", "created"} /\ tag \in {"T", "C", "S"} -> phase
      [] phase \in {"create", "created"} /\ tag = "D" -> "created"
      [] phase = "created" /\ tag = "Z"  -> "start"
      [] phase = "start"  /\ tag = "S"   -> "start"
      [] phase = "start"  /\ tag = "W"   -> "streaming"
      [] OTHER -> "failed"

Replies == {"R0", "R10", "Rx", "R11", "R12", "S", "K", "Z", "E", "N", "T", "D", "Dx", "C", "W"}

-----------------------------------------------------------------------------
(* copy.rs: COPY text. A value is a sequence of characters.                 *)

BS == "backslash"
Escapes == [x \in {"tab", "newline", BS} |->
              CASE x = "tab" -> <<BS, "t">> [] x = "newline" -> <<BS, "n">> [] OTHER -> <<BS, BS>>]

NullField == <<BS, "N">>

\* COPY TO (PostgreSQL): fields escaped, separated by tabs, a newline per row.
CopyField(f) ==
    IF f.null THEN NullField
    ELSE FlattenSeq([i \in DOMAIN f.text |->
                       IF f.text[i] \in DOMAIN Escapes THEN Escapes[f.text[i]] ELSE <<f.text[i]>>])

CopyRow(row) ==
    FlattenSeq([i \in DOMAIN row |-> (IF i = 1 THEN <<>> ELSE <<"tab">>) \o CopyField(row[i])])
        \o <<"newline">>

\* The pieces between the separators.
Split(text, sep) ==
    LET cuts == <<0>> \o SetToSortSeq({i \in DOMAIN text : text[i] = sep}, <) \o <<Len(text) + 1>>
    IN  [i \in 1 .. Len(cuts) - 1 |-> SubSeq(text, cuts[i] + 1, cuts[i + 1] - 1)]

\* stream_filtered's buffer: the complete rows each chunk adds, and what is
\* left over; a stream that ends inside a row is refused.
RowsOf(chunks) ==
    LET take(st, chunk) ==
          LET lines == Split(st.buf \o chunk, "newline")
          IN  [buf |-> Last(lines), rows |-> st.rows \o Front(lines)]
        end == FoldLeft(take, [buf |-> <<>>, rows |-> <<>>], chunks)
    IN  IF end.buf # <<>> THEN Truncated ELSE end.rows

CopyFieldUnescape(field) ==
    LET step(st, ch) ==
          CASE st.esc -> [out |-> Append(st.out, CASE ch = "t" -> "tab" [] ch = "n" -> "newline"
                                                   [] OTHER -> ch), esc |-> FALSE]
            [] ch = BS -> [st EXCEPT !.esc = TRUE]
            [] OTHER -> [st EXCEPT !.out = Append(st.out, ch)]
        end == FoldLeft(step, [out |-> <<>>, esc |-> FALSE], field)
    IN  IF field = NullField THEN [null |-> TRUE, text |-> <<>>]
        ELSE [null |-> FALSE, text |-> IF end.esc THEN Append(end.out, BS) ELSE end.out]

\* row_in_range: the key's field of a row.
KeyField(line, index) ==
    LET fields == Split(line, "tab")
    IN  IF index \notin DOMAIN fields THEN Truncated ELSE CopyFieldUnescape(fields[index])

-----------------------------------------------------------------------------
(* Properties. *)

\* The decoder inverts the server's encoding, inside and outside a streamed
\* transaction and in both streaming modes: a frame decodes to the message it
\* encodes and moves the bracket with it; a frame cut anywhere is refused as
\* truncated and one with anything behind it as trailing, never misread, and
\* a refused frame leaves the bracket where it was ("a decode error never
\* leaves the decoder in a half-updated state"). The CopyData wrapper hands
\* the frame over unchanged.
DecoderExact(m, inStream, parallel) ==
    LET cells == Encode(m, inStream, parallel)
        kept(c, e) == Decode(c, inStream, parallel) = [result |-> e, inStream |-> inStream]
    IN  /\ Decode(cells, inStream, parallel) =
             [result |-> m, inStream |-> NextInStream(m.tag, inStream)]
        /\ \A i \in 0 .. Len(cells) - 1 : kept(SubSeq(cells, 1, i), Truncated)
        /\ \A x \in {"w", "s", "N"} : kept(Append(cells, x), Trailing)
        /\ Unwrap(<<"w", "w", "w", "w">> \o cells) = cells
        /\ Unwrap(<<"k", "w", "w", "w">>) = <<>>

\* Whatever the server says, in whatever order, the client streams only from
\* a slot that it created on an authenticated connection and whose snapshot
\* and consistent point it was told: the copy and the stream then meet. No
\* error the server reported is passed over on the way, and exactly two
\* ReadyForQuery were consumed, so no answer is left for a later command to
\* take for its own.
HandshakeComplete(phase, heard, readys, password) ==
    phase = "streaming" =>
        /\ "R0" \in heard /\ (password => {"R10", "R11", "R12"} \subseteq heard)
        /\ {"D", "W"} \subseteq heard /\ heard \cap {"E", "Dx", "Rx"} = {}
        /\ readys = 2

\* The copy recovers the values the stream would ship: however the text of
\* two rows is cut into chunks, the key of each row reads back as exactly the
\* value that was written - tabs, newlines, backslashes and the text "\N"
\* included - so that a row is copied if and only if the stream would keep it.
CopyReadsBack(row, second, index) ==
    LET text == CopyRow(row) \o CopyRow(second)
    IN  \A cut \in 0 .. Len(text) :
          LET rows == RowsOf(<<SubSeq(text, 1, cut), SubSeq(text, cut + 1, Len(text))>>)
          IN  /\ Len(rows) = 2
              /\ KeyField(rows[1], index) = row[index]
              /\ KeyField(rows[2], index) = second[index]
=============================================================================
