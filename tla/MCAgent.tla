------------------------------ MODULE MCAgent ------------------------------
(***************************************************************************)
(* Small instances of the agent and the replication crate. The components  *)
(* share no state: a behaviour steps one of them, chosen initially (focus),*)
(* and the pure functions are evaluated on one input per initial state.    *)
(***************************************************************************)
EXTENDS Seeding, Apply, Wire, WriteFence, Journal, Commands, Provision, TLC

CONSTANTS a, s1, s2, t1, t2

VARIABLES focus, input

MCBase == {<<1, 1>>}

NoInput == <<>>

-----------------------------------------------------------------------------
(* Inputs of the pure functions. *)

Col(n, t) == [name |-> n, type |-> t, mod |-> "none", gen |-> FALSE, ident |-> "no"]

Good(type) ==
    [name |-> "t", kind |-> "r", replident |-> "d", key |-> {"id", "k"}, included |-> {},
     cols |-> <<Col("id", "int4"), Col("k", type), Col("v", "text")>>]

\* The tables one edit away from a good one.
Edited(t) ==
    {t, [t EXCEPT !.kind = "p"], [t EXCEPT !.key = {"id"}],
     [t EXCEPT !.replident = "i"], [t EXCEPT !.replident = "f"],
     [t EXCEPT !.replident = "i", !.key = {"id"}, !.included = {"k"}],
     [t EXCEPT !.cols[3].gen = TRUE], [t EXCEPT !.cols[3].mod = "cut"],
     [t EXCEPT !.cols[1].ident = "a"], [t EXCEPT !.cols[3].type = "custom"],
     [t EXCEPT !.cols = SubSeq(@, 1, 2)], [t EXCEPT !.cols = Append(@, Col("x", "text"))]}

Member(l, f) == [name |-> "t", list |-> l, filter |-> f]
GoodPub == [exists |-> TRUE, kinds |-> AllKinds, flags |-> {}, members |-> {Member(FALSE, FALSE)}]
PubFlags == {"viaroot", "generated", "alltables", "inschema"}

Pubs ==
    [exists : {TRUE}, kinds : {AllKinds} \cup {AllKinds \ {k} : k \in AllKinds},
     flags : {{}} \cup {{f} : f \in PubFlags},
     members : {{}} \cup {{Member(l, f)} : l, f \in BOOLEAN} \cup
               {{Member(FALSE, FALSE), [name |-> "u", list |-> FALSE, filter |-> FALSE]}}]

Mapping(type) == [name |-> "t", key |-> "k", type |-> type, renamed |-> FALSE]

GoodSpec(type) ==
    [id |-> "w", kind |-> "reshard", slot |-> "pgshard_s", publication |-> "p", target |-> "d",
     provenance |-> "m", source |-> "complete", policy |-> "primary",
     tables |-> <<Mapping(type)>>, filter |-> "range"]

Specs(type) ==
    {GoodSpec(type), [GoodSpec(type) EXCEPT !.filter = "all"],
     [GoodSpec(type) EXCEPT !.tables = <<Mapping(type), [Mapping(type) EXCEPT !.key = "id"]>>],
     [GoodSpec(type) EXCEPT !.slot = "application"], [GoodSpec(type) EXCEPT !.kind = "shadow"]}

Rows == [id : {"1", "2"}, k : {"1", "2"}, v : {"y", "null"}, x : {"z"}]

\* Contents of the source that respect its primary key.
Contents ==
    {c \in SUBSET Rows : /\ Cardinality(c) <= 2
                         /\ \A r, q \in c : r # q => <<r.id, r.k>> # <<q.id, q.k>>}

Changes(c) ==
    LET free(x, d) == \A q \in d : <<q.id, q.k>> # <<x.id, x.k>>
        change(op, old, new, z) == [op |-> op, old |-> old, new |-> new, toasted |-> z]
        any == CHOOSE x \in Rows : TRUE
    IN  {change("insert", x, x, {}) : x \in {y \in Rows : free(y, c)}} \cup
        UNION {{change("update", r, x, z) : x \in {y \in Rows : free(y, c \ {r})}, z \in {{}, {"v"}}}
                  \cup {change("delete", r, r, {})} : r \in c} \cup
        {change("truncate", any, any, {})}

\* One of the two catalogs or the publication is edited; the live table may
\* have had its replica identity altered since the preflight.
Runs ==
    UNION {{[spec |-> sp, marker |-> "m", pub |-> p, src |-> Good(col), tgt |-> Good(col)]
                : sp \in Specs(type), p \in Pubs} \cup
           {[spec |-> GoodSpec(type), marker |-> m, pub |-> GoodPub, src |-> s, tgt |-> t]
                : m \in {"m", "other"}, s \in Edited(Good(col)), t \in Edited(Good(col))}
            : <<type, col>> \in {<<"int", "int4">>, <<"text", "text">>, <<"text", "bpchar">>, <<"int", "text">>}}

Lives(src) ==
    {src, [src EXCEPT !.replident = "f"], [src EXCEPT !.key = {"id"}],
     [src EXCEPT !.replident = "i", !.key = {"id"}, !.included = {"k"}]}

TupleRows == {<<>>, <<"n">>, <<"u", "t">>, <<"b", "n">>}

Msgs ==
    {m \in [tag : Tags, new : TupleRows, old : TupleRows, mark : {"", "K", "O"}, n : 0 .. 2] :
        /\ m.new # <<>> => m.tag \in {"I", "U"}
        /\ m.tag = "D" => m.mark # ""
        /\ m.mark # "" => m.tag \in {"D", "U"}
        /\ m.mark = "" => m.old = <<>>
        /\ m.tag \notin {"R", "T"} => m.n = 0}

Chars == {"a", "N", "t", "tab", "newline", BS}
Texts == UNION {[1 .. n -> Chars] : n \in 0 .. 2}
Fields == {[null |-> FALSE, text |-> x] : x \in Texts} \cup {[null |-> TRUE, text |-> <<>>]}

Plain == [null |-> FALSE, text |-> <<"a">>]

-----------------------------------------------------------------------------
Foci == {"seeding", "fence", "journal", "commands", "provision", "run", "prepare", "horizon",
         "frame", "handshake", "copytext"}

MCInit ==
    /\ focus \in Foci
    /\ SeedInit /\ FenceInit /\ JournalInit /\ CommandsInit
    /\ ProvisionInit /\ (focus # "provision" => db = Absent)
    /\ CASE focus = "run"       -> input \in [run : Runs, rows : Contents]
         [] focus = "prepare"   -> input \in [pub : Pubs \cup {NoPublication}, names : {{"t"}, {"t", "u"}}]
         [] focus = "horizon"   -> input \in [base : 3 .. 40, xmins : {{x, y} : x, y \in 0 .. 15}]
         [] focus = "frame"     -> input \in [msg : Msgs, inStream : BOOLEAN, parallel : BOOLEAN]
         [] focus = "handshake" -> input \in [phase : {"auth"}, heard : {{}}, readys : {0}, password : BOOLEAN]
         [] focus = "copytext"  -> input \in [field : Fields, other : Fields]
         [] OTHER               -> input = NoInput

agentVars == <<fenceVars, journalVars, commandVars, provisionVars>>

Hear ==
    /\ focus = "handshake"
    /\ input.phase \notin {"failed", "streaming"}
    /\ \E t \in Replies :
          input' = [input EXCEPT !.phase = OnReply(@, t, input.password), !.heard = @ \cup {t},
                                 !.readys = IF t = "Z" THEN @ + 1 ELSE @]
    /\ UNCHANGED <<seedVars, agentVars>>

SeedingSteps == focus = "seeding" /\ SeedNext /\ UNCHANGED <<agentVars, input>>

MCNext ==
    /\ UNCHANGED focus
    /\ \/ SeedingSteps
       \/ Hear
       \/ focus = "fence" /\ FenceNext
            /\ UNCHANGED <<seedVars, journalVars, commandVars, provisionVars, input>>
       \/ focus = "journal" /\ JournalNext
            /\ UNCHANGED <<seedVars, fenceVars, commandVars, provisionVars, input>>
       \/ focus = "commands" /\ CommandsNext
            /\ UNCHANGED <<seedVars, fenceVars, journalVars, provisionVars, input>>
       \/ focus = "provision" /\ ProvisionNext
            /\ UNCHANGED <<seedVars, fenceVars, journalVars, commandVars, input>>

mcVars == <<seedVars, agentVars, focus, input>>

\* The seeding worker and the source make progress (see Seeding).
MCSpec ==
    /\ MCInit /\ [][MCNext]_mcVars
    /\ \A w \in Workflows : WF_mcVars(focus = "seeding" /\ Worker(w) /\ UNCHANGED <<agentVars, focus, input>>)
    /\ WF_mcVars(focus = "seeding" /\ Server /\ UNCHANGED <<agentVars, focus, input>>)

-----------------------------------------------------------------------------
\* The pure parts of a seeding run: what passes the preflight is copied and
\* streamed exactly, whatever row, change or altered table; a publication the
\* agent prepares is one its checks accept; and a catalog row version seen again
\* within the horizon is the same version (transaction ids wrap at 16 here).
RunsExact ==
    /\ focus = "run" /\ Plan(input.run.spec) /\ PreflightPasses(input.run) =>
         \A l \in Lives(input.run.src) : \A ch \in Changes(input.rows) :
             SeedAndStreamExact(input.run, l, input.rows, ch)
    /\ focus = "prepare" => PreparedIsAccepted(input.pub, input.names)
    /\ focus = "horizon" => HorizonIsSafe(input.base, input.xmins, 16)

\* The replication protocol: a frame is decoded exactly, in and out of a streamed
\* transaction, or refused without effect; a handshake that reaches the stream has
\* heard everything it needs; and COPY text reads back, cut and escaped anywhere.
WireExact ==
    /\ focus = "frame" => DecoderExact(input.msg, input.inStream, input.parallel)
    /\ focus = "handshake" =>
         HandshakeComplete(input.phase, input.heard, input.readys, input.password)
    /\ focus = "copytext" =>
         /\ CopyReadsBack(<<input.field, input.other>>, <<Plain, input.field>>, 1)
         /\ CopyReadsBack(<<input.other, input.field>>, <<input.field, Plain>>, 2)
=============================================================================
