----------------------------- MODULE WriteFence -----------------------------
(***************************************************************************)
(* The agent's FenceWrites, statement by statement, against the PostgreSQL *)
(* sessions it must keep from writing (fence_writes, drain_writers and     *)
(* ensure_no_prepared of crates/pgshard-agent/src/pg.rs). Cutover.tla takes*)
(* its outcome as one step; this module is why it may.                     *)
(*                                                                         *)
(* The operator calls one FenceWrites at a time but may give a call up: the*)
(* handler is then dropped where it awaits, and the statement it had sent, *)
(* if any, may still be executed later. A backend is seen in               *)
(* pg_stat_activity from before its admission check until it has exited,   *)
(* first without and then with its database.                               *)
(***************************************************************************)
EXTENDS Integers, FiniteSets

CONSTANTS
    Sessions,      \* client backends, other than the reshard's own readers
    MaxCalls,      \* FenceWrites calls the operator makes
    MaxPrepared    \* max_prepared_transactions of the instance

ASSUME FenceAssumption ==
    /\ IsFiniteSet(Sessions)
    /\ MaxCalls \in Nat
    /\ MaxPrepared \in Nat

VARIABLES
    allow, readOnly,     \* the database: ALLOW_CONNECTIONS, its read-only default
    sess,                \* each backend: how far it got, the default it took
    prepared,            \* prepared transactions on the database
    call, calls,         \* the current call's next statement; calls made
    inFlight,            \* statements of given-up calls that may still run
    clean,               \* history: no opposite statement was in flight
    promise              \* history: what the last answered call promised

fenceVars == <<allow, readOnly, sess, prepared, call, calls, inFlight, clean, promise>>

Out == [at |-> "out", ro |-> FALSE, dirty |-> FALSE, hit |-> FALSE]

FenceTypeOK ==
    /\ allow \in BOOLEAN /\ readOnly \in BOOLEAN /\ clean \in BOOLEAN
    /\ sess \in [Sessions -> [at : {"out", "starting", "admitted", "loaded", "open"},
                              ro : BOOLEAN, dirty : BOOLEAN, hit : BOOLEAN]]
    /\ prepared \in 0 .. MaxPrepared
    /\ call \in {"none", "close", "check", "drain", "recheck", "seal", "open", "drop"}
    /\ calls \in 0 .. MaxCalls
    /\ inFlight \subseteq {"close", "seal", "open"}
    /\ promise \in {"none", "fenced", "open"}

FenceInit ==
    /\ allow = TRUE /\ readOnly = FALSE
    /\ sess = [s \in Sessions |-> Out]
    /\ prepared = 0
    /\ call = "none" /\ calls = 0 /\ inFlight = {}
    /\ clean = TRUE /\ promise = "none"

database == <<allow, readOnly>>
fenceHistory == <<clean, promise>>

-----------------------------------------------------------------------------
(* The backends (external). *)

Backend(s, was, now) ==
    /\ sess[s].at = was
    /\ sess' = [sess EXCEPT ![s] = now]
    /\ UNCHANGED <<allow, readOnly, call, calls, inFlight, clean, promise>>

Connect(s) == Backend(s, "out", [Out EXCEPT !.at = "starting"]) /\ UNCHANGED prepared

\* CheckMyDatabase: a closed database refuses the connection.
Admit(s) ==
    /\ Backend(s, "starting", IF allow THEN [sess[s] EXCEPT !.at = "admitted"] ELSE Out)
    /\ UNCHANGED prepared

LoadSettings(s) ==
    /\ Backend(s, "admitted", [sess[s] EXCEPT !.at = "loaded", !.ro = readOnly])
    /\ UNCHANGED prepared

Publish(s) == Backend(s, "loaded", [sess[s] EXCEPT !.at = "open"]) /\ UNCHANGED prepared

\* A transaction of a session whose default is read-write.
BeginWrite(s) ==
    /\ ~sess[s].ro /\ ~sess[s].dirty
    /\ Backend(s, "open", [sess[s] EXCEPT !.dirty = TRUE])
    /\ UNCHANGED prepared

CommitWrite(s) ==
    /\ sess[s].dirty
    /\ Backend(s, "open", [sess[s] EXCEPT !.dirty = FALSE])
    /\ UNCHANGED prepared

PrepareTransaction(s) ==
    /\ sess[s].dirty /\ prepared < MaxPrepared
    /\ Backend(s, "open", [sess[s] EXCEPT !.dirty = FALSE])
    /\ prepared' = prepared + 1

\* Allowed to a read-only session too.
CommitPrepared(s) ==
    /\ sess[s].at = "open" /\ prepared > 0
    /\ prepared' = prepared - 1
    /\ UNCHANGED <<allow, readOnly, sess, call, calls, inFlight, clean, promise>>

\* A signalled backend exits some time after the signal; any may disconnect.
Exit(s) ==
    /\ sess[s].at # "out"
    /\ Backend(s, sess[s].at, Out)
    /\ UNCHANGED prepared

-----------------------------------------------------------------------------
(* The statements of a call. *)

\* ALTER DATABASE ... ALLOW_CONNECTIONS false
CloseAdmissions == allow' = FALSE /\ UNCHANGED readOnly

\* default_transaction_read_only = on; ALLOW_CONNECTIONS true, in one batch
Seal == allow' = TRUE /\ readOnly' = TRUE

\* A plausible slip: un-fencing only clears the default.
ReopenDefault == readOnly' = FALSE /\ UNCHANGED allow

\* ALLOW_CONNECTIONS true; default_transaction_read_only = off, in one batch
Reopen == allow' = TRUE /\ readOnly' = FALSE

Statement(st) ==
    \/ st = "close" /\ CloseAdmissions
    \/ st = "seal" /\ Seal
    \/ st = "open" /\ Reopen

Goes(next) == call' = next /\ UNCHANGED <<calls, inFlight>>

Issue(first) ==
    /\ call = "none" /\ calls < MaxCalls
    /\ call' = first /\ calls' = calls + 1
    /\ clean' = (inFlight \cap (IF first = "close" THEN {"open"} ELSE {"close", "seal"}) = {})
    /\ promise' = IF \/ first = "close" /\ promise = "fenced"
                     \/ first = "open" /\ promise = "open" THEN promise ELSE "none"
    /\ UNCHANGED <<database, sess, prepared, inFlight>>

Fence == Issue("close")
Unfence == Issue("open")

\* The call is answered: with success, its promise holds from here on.
Answer(said) ==
    /\ Goes("none")
    /\ promise' = IF clean THEN said ELSE "none"
    /\ UNCHANGED clean

DoClose == call = "close" /\ CloseAdmissions /\ Goes("check") /\ UNCHANGED <<sess, prepared, fenceHistory>>

\* ensure_no_prepared: an error leaves admissions closed.
NoPrepared(here, next) ==
    /\ call = here
    /\ Goes(IF prepared = 0 THEN next ELSE "none")
    /\ UNCHANGED <<database, sess, prepared, fenceHistory>>

CheckPrepared == NoPrepared("check", "drain")

RecheckPrepared == NoPrepared("recheck", "seal")

\* A plausible slip: backends still starting up are not looked for.
WritersOpen(starting) == {s \in Sessions : sess[s].at = "open"}

\* What one round of drain_writers selects: one query for both populations.
Writers(starting) ==
    {s \in Sessions : \/ sess[s].at = "open"
                      \/ starting /\ sess[s].at \in {"starting", "admitted", "loaded"}}

\* One round: done when there is none, else all it saw are signalled.
DrainRound(here, next, starting) ==
    /\ call = here
    /\ LET w == Writers(starting)
       IN  /\ sess' = [s \in Sessions |-> IF s \in w THEN [sess[s] EXCEPT !.hit = TRUE] ELSE sess[s]]
           /\ IF w = {} THEN next ELSE Goes(here) /\ UNCHANGED fenceHistory
    /\ UNCHANGED <<database, prepared>>

Drain == DrainRound("drain", Goes("recheck") /\ UNCHANGED fenceHistory, TRUE)
DropReaders == DrainRound("drop", Answer("open"), FALSE)

DoSeal == call = "seal" /\ Seal /\ Answer("fenced") /\ UNCHANGED <<sess, prepared>>
DoReopen == call = "open" /\ Reopen /\ Goes("drop") /\ UNCHANGED <<sess, prepared, fenceHistory>>

\* The deadline of a drain passes, or a connection breaks: the call fails.
Fail ==
    /\ call # "none" /\ Goes("none")
    /\ UNCHANGED <<database, sess, prepared, fenceHistory>>

\* The operator gives the call up while its statement is on the way.
GiveUpCall ==
    /\ call \in {"close", "seal", "open"}
    /\ inFlight' = inFlight \cup {call}
    /\ call' = "none"
    /\ UNCHANGED <<database, sess, prepared, calls, fenceHistory>>

Lands(st) ==
    /\ st \in inFlight
    /\ Statement(st)
    /\ inFlight' = inFlight \ {st}
    /\ UNCHANGED <<sess, prepared, call, calls, fenceHistory>>

FenceCall ==
    \/ Fence \/ Unfence \/ DoClose \/ CheckPrepared \/ Drain \/ RecheckPrepared \/ DoSeal
    \/ DoReopen \/ DropReaders \/ Fail \/ GiveUpCall
    \/ \E st \in {"close", "seal", "open"} : Lands(st)

FenceNext ==
    \/ FenceCall
    \/ \E s \in Sessions :
          \/ Connect(s) \/ Admit(s) \/ LoadSettings(s) \/ Publish(s) \/ BeginWrite(s)
          \/ CommitWrite(s) \/ PrepareTransaction(s) \/ CommitPrepared(s) \/ Exit(s)

FenceSpec == FenceInit /\ [][FenceNext]_fenceVars

-----------------------------------------------------------------------------
CanWrite(s) == sess[s].at \in {"loaded", "open"} /\ ~sess[s].ro

\* From the moment a fence is answered until an un-fence is asked for, nobody
\* can write to the database: no session holds the read-write default or will
\* get it, and no prepared transaction waits to be committed. This holds
\* across retried, failed and given-up fences whose last statement still
\* lands, as long as no given-up un-fence was on the way.
FenceHolds ==
    promise = "fenced" =>
        /\ readOnly
        /\ \A s \in Sessions : ~CanWrite(s) /\ ~sess[s].dirty
        /\ prepared = 0

\* From the moment an un-fence is answered until a fence is asked for, the
\* database admits connections and gives them the read-write default, also
\* when earlier fences failed or were given up at any statement, as long as
\* none of their statements was still on the way.
UnfenceHolds == promise = "open" => allow /\ ~readOnly
=============================================================================
