----------------------------- MODULE Provision -----------------------------
(***************************************************************************)
(* CreateDatabase and DropDatabase of the agent (create_database,          *)
(* drop_database and stamp_provenance of crates/pgshard-agent/src/pg.rs,   *)
(* behind their handlers in service.rs), for one database name asked for by*)
(* several callers: the check, the CREATE and the stamp of the provenance  *)
(* marker are separate statements.                                         *)
(***************************************************************************)
EXTENDS Integers, FiniteSets

CONSTANTS Callers, Marks, MaxDrops, MaxRounds

\* The empty provenance: the caller does not want it checked.
NoMark == "unmarked"
Absent == "absent"

ASSUME ProvisionAssumption ==
    IsFiniteSet(Callers) /\ Absent \notin Marks /\ MaxDrops \in Nat /\ MaxRounds \in Nat

VARIABLES
    db,        \* the database: absent, or the marker in its comment
    caller,    \* each call: what it asks for and where it is
    drops,     \* how often the database was dropped
    foreign,   \* history: the database was there before, without a marker
    meddled    \* history: a drop or an adoption happened

provisionVars == <<db, caller, drops, foreign, meddled>>

IdleCaller == [at |-> "idle", mark |-> NoMark, adopt |-> FALSE, round |-> 0]

ProvisionInit ==
    /\ db \in {Absent, NoMark}
    /\ caller = [c \in Callers |-> IdleCaller]
    /\ foreign = (db = NoMark)
    /\ drops = 0 /\ meddled = FALSE

Moves(c, at) == caller' = [caller EXCEPT ![c].at = at]

\* The handler refuses an adoption without a marker to stamp.
AskCreate(c, m, adopt) ==
    /\ caller[c].at \in {"idle", "foreign", "ok"}
    /\ adopt => m # NoMark
    /\ caller' = [caller EXCEPT ![c] = [at |-> "check", mark |-> m, adopt |-> adopt, round |-> 1]]
    /\ UNCHANGED <<db, drops, foreign, meddled>>

CheckExisting(c) ==
    LET m == caller[c].mark
    IN  /\ caller[c].at = "check"
        /\ Moves(c, IF db = Absent THEN "create"
                    ELSE IF m = NoMark \/ db = m THEN "ok"
                    ELSE IF caller[c].adopt THEN "stamp" ELSE "foreign")
        /\ meddled' = (meddled \/ (db # Absent /\ db # m /\ caller[c].adopt))
        /\ UNCHANGED <<db, drops, foreign>>

\* A plausible slip: a database that exists by now is taken for ours.
CreateAssumed(c) ==
    /\ caller[c].at = "create"
    /\ db' = IF db = Absent THEN NoMark ELSE db
    /\ Moves(c, IF db = Absent /\ caller[c].mark # NoMark THEN "stamp" ELSE "ok")
    /\ UNCHANGED <<drops, foreign, meddled>>

Again(r) == [at |-> "check", mark |-> r.mark, adopt |-> r.adopt, round |-> r.round + 1]

\* CREATE DATABASE: losing the race to another creator goes back to the
\* check, a bounded number of times.
Create(c) ==
    /\ caller[c].at = "create"
    /\ IF db = Absent
       THEN db' = NoMark /\ Moves(c, IF caller[c].mark = NoMark THEN "ok" ELSE "stamp")
       ELSE /\ caller' = IF caller[c].round < MaxRounds
                         THEN [caller EXCEPT ![c] = Again(@)]
                         ELSE [caller EXCEPT ![c] = IdleCaller]
            /\ UNCHANGED db
    /\ UNCHANGED <<drops, foreign, meddled>>

\* COMMENT ON DATABASE fails when there is none.
Stamp(c) ==
    /\ caller[c].at = "stamp"
    /\ db' = IF db = Absent THEN db ELSE caller[c].mark
    /\ caller' = IF db = Absent THEN [caller EXCEPT ![c] = IdleCaller] ELSE [caller EXCEPT ![c].at = "ok"]
    /\ UNCHANGED <<drops, foreign, meddled>>

\* The call fails or is cancelled between two statements.
Interrupt(c) ==
    /\ caller[c].at \in {"check", "create", "stamp"}
    /\ caller' = [caller EXCEPT ![c] = IdleCaller]
    /\ UNCHANGED <<db, drops, foreign, meddled>>

DropDatabase ==
    /\ drops < MaxDrops
    /\ db' = Absent /\ drops' = drops + 1 /\ meddled' = TRUE
    /\ UNCHANGED <<caller, foreign>>

ProvisionNext ==
    \/ \E c \in Callers :
          \/ \E m \in Marks \cup {NoMark}, adopt \in BOOLEAN : AskCreate(c, m, adopt)
          \/ CheckExisting(c) \/ Create(c) \/ Stamp(c) \/ Interrupt(c)
    \/ DropDatabase

ProvisionSpec == ProvisionInit /\ [][ProvisionNext]_provisionVars

-----------------------------------------------------------------------------
\* A database belongs to one placement: without a drop or an explicit
\* adoption, a caller that was told its marker is verified (CreateDatabase's
\* verified_provenance) can rely on it for good, so no two callers with
\* different markers are ever both told so, whatever creations race and
\* wherever calls are interrupted; and a database that was there before,
\* without a marker, is never marked as anyone's ("safer than ever mistaking
\* foreign data for our own").
ProvenanceHolds ==
    ~meddled =>
        /\ \A c \in Callers :
              caller[c].at = "ok" /\ caller[c].mark # NoMark => db = caller[c].mark
        /\ foreign => db = NoMark
=============================================================================
