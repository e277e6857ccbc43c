--------------------------- MODULE SeedingProofs ----------------------------
(***************************************************************************)
(* Seeding implements Replica: an inductive invariant of the workflow, its *)
(* ghosts and the target's table, what it says of the positions that are   *)
(* reported, and the refinement step by step, for any number of workflows, *)
(* keys and transactions.                                                  *)
(***************************************************************************)
EXTENDS Seeding, WellFoundedInduction, TLAPS

\* Leaves are for Zenon, unless they name another prover.
USE ZenonT(60)

-----------------------------------------------------------------------------
(***************************************************************************)
(* The invariant.                                                          *)
(***************************************************************************)
Changes ==
    [op : {"insert", "update", "delete", "truncate", "journal"},
     k : Keys \cup {0}, k2 : Keys \cup {0}, v : Vals \cup {0}, pub : BOOLEAN]

Seeded == {"clear", "truncate", "copy", "attach", "lease"}
Streams == {"stream", "apply", "report"}
PCs == {"finished", "ending", "preflight", "slot", "create"} \cup Seeded \cup Streams

Phases == {"None", "Init", "Copy", "Streaming", "Error", "Stopped"}
Errors == {"none", "publication", "slot", "fenced", "truncate", "boundary", "diverged",
           "drift", "lost"}

SeedTypes ==
    /\ log \in Seq(Changes) /\ pubAll \in BOOLEAN
    /\ pc \in [Workflows -> PCs]
    /\ phase \in [Workflows -> Phases] /\ error \in [Workflows -> Errors]
    /\ slot \in [Workflows -> Int] /\ from \in [Workflows -> Int] /\ at \in [Workflows -> Int]
    /\ applied \in [Workflows -> Int] /\ journal \in [Workflows -> Int]
    /\ progress \in [Workflows -> Int] /\ checkpoint \in [Workflows -> Int]
    /\ lease \in [Workflows -> BOOLEAN] /\ got \in [Workflows -> BOOLEAN]
    /\ held \in Int /\ tainted \in BOOLEAN
    /\ ghost.touches \in BOOLEAN /\ ghost.lsn \in Int /\ ghost.held \in Int

\* The registry runs one worker at a time.
OneWorker == \A u, w \in Workflows : pc[u] # "finished" /\ pc[w] # "finished" => u = w

\* Every transaction was legal when it committed.
LogLegal == \A i \in 1 .. Len(log) : Legal(SourceAt(i - 1), log[i])

\* The target holds its range of a prefix of the log.
TableSound == Whole => held \in 0 .. Len(log) /\ table = InTarget(SourceAt(held))

\* A COMMIT in doubt that changes the table keeps later workers from it, and
\* one that changes a checkpoint keeps the stream lease; either carries out
\* what its worker would have.
GhostSound ==
    /\ ghost.touches =>
          /\ \A w \in Workflows : pc[w] \notin {"copy", "attach", "lease"} \cup Streams
          /\ ghost.held \in 0 .. Len(log)
          /\ held <= ghost.held
          /\ ~tainted => ghost.rows = InTarget(SourceAt(ghost.held))
    /\ ghost.lsn # None =>
          /\ ghost.by \in Workflows
          /\ ghost.lsn \in 0 .. Len(log)
          /\ lease[ghost.by]
          /\ pc[ghost.by] \notin Streams
          /\ pc[ghost.by] \in Seeded => ghost.lsn <= from[ghost.by]

\* Where a worker is, and what it knows there.
SeededSound(w) ==
    /\ pc[w] \in Seeded => from[w] \in 0 .. Len(log) /\ slot[w] = from[w]
    /\ pc[w] \in Seeded \ {"clear"} => progress[w] <= from[w]
    /\ pc[w] = "copy" => held = None /\ ~tainted /\ table = {}
    /\ pc[w] \in {"attach", "lease"} => held = from[w] /\ ~tainted
    /\ pc[w] = "lease" => at[w] = from[w] + 1
    /\ pc[w] \in {"preflight", "slot", "create"} \cup Seeded => journal[w] = 0

StreamSound(w) ==
    pc[w] \in Streams =>
        /\ 0 <= held /\ lease[w]
        /\ slot[w] <= from[w] \/ slot[w] <= progress[w]
        /\ slot[w] < at[w]
        /\ applied[w] <= held
        /\ at[w] \in 1 .. Len(log) + 1
        /\ journal[w] \in 0 .. at[w] - 1
        /\ pc[w] # "stream" => got[w]
        /\ got[w] => /\ at[w] <= Len(log) /\ log[at[w]].pub
                     /\ log[at[w]].op # "truncate" /\ ~Crosses(log[at[w]])
        /\ IF pc[w] = "report"
           THEN held = at[w] /\ progress[w] = at[w] /\ checkpoint[w] = at[w]
           ELSE held < at[w] /\ checkpoint[w] < at[w] /\ (~tainted => held = at[w] - 1)

WorkerSound(w) ==
    /\ phase[w] = "Streaming" <=> pc[w] \in Streams
    /\ got[w] => pc[w] \in Streams
    /\ SeededSound(w)
    /\ StreamSound(w)
    /\ pc[w] = "ending" /\ error[w] = "diverged" => tainted

SeedInv ==
    /\ SeedTypes /\ OneWorker /\ LogLegal /\ TableSound /\ GhostSound
    /\ \A w \in Workflows : WorkerSound(w)

-----------------------------------------------------------------------------
(***************************************************************************)
(* The source's rows along its log.                                        *)
(***************************************************************************)

\* A set of numbers that is not empty has a least one.
LEMMA LeastNumber ==
    ASSUME NEW T, T \subseteq Nat, T # {}
    PROVE  \E n \in T : \A m \in T : n <= m
  <1> DEFINE less == OpToRel(<, Nat)
  <1>1. IsWellFoundedOn(less, Nat)
    BY NatLessThanWellFounded
  <1>2. \A m, n \in Nat : m < n => <<m, n>> \in less
    BY SMTT(60) DEF OpToRel
  <1> HIDE DEF less
  <1>3. PICK n \in T : \A m \in T : ~(<<m, n>> \in less)
    BY <1>1, WFMin
  <1>4. n \in Nat /\ \A m \in T : m \in Nat
    OBVIOUS
  <1>5. \A m \in T : ~(m < n)
    BY <1>2, <1>3, <1>4
  <1> QED
    BY <1>4, <1>5, SMTT(60)

\* f lists the rows after each of the first n transactions of l.
Lists(f, l, n) == f = [i \in 0 .. n |-> IF i = 0 THEN Base ELSE Row(f[i - 1], l[i])]

LEMMA ListsEntries ==
    ASSUME NEW l, NEW n \in Nat, NEW f, Lists(f, l, n)
    PROVE  f[0] = Base /\ \A i \in 1 .. n : f[i] = Row(f[i - 1], l[i])
  <1>1. \A i \in 0 .. n : f[i] = IF i = 0 THEN Base ELSE Row(f[i - 1], l[i])
    BY DEF Lists
  <1>2. 0 \in 0 .. n /\ \A i \in 1 .. n : i \in 0 .. n /\ i # 0
    BY SMTT(60)
  <1> QED
    BY <1>1, <1>2

LEMMA ListExists ==
    ASSUME NEW l, NEW m \in Nat
    PROVE  \E f : Lists(f, l, m)
  <1> DEFINE T == {n \in Nat : ~ \E f : Lists(f, l, n)}
  <1> SUFFICES ASSUME T # {} PROVE FALSE
    BY SMTT(60)
  <1>1. PICK n \in T : \A k \in T : n <= k
    <2>1. T \subseteq Nat
      OBVIOUS
    <2> HIDE DEF T
    <2> QED
      BY <2>1, LeastNumber
  <1>2. n \in Nat /\ ~ \E f : Lists(f, l, n)
    OBVIOUS
  <1>3. n # 0
    <2> DEFINE f == [i \in 0 .. 0 |-> Base]
    <2>1. f = [i \in 0 .. 0 |-> IF i = 0 THEN Base ELSE Row(f[i - 1], l[i])]
      BY SMTT(60)
    <2>2. Lists(f, l, 0)
      BY <2>1 DEF Lists
    <2> QED
      BY <1>2, <2>2
  <1>4. PICK f : Lists(f, l, n - 1)
    <2>1. n - 1 \in Nat /\ ~(n <= n - 1)
      BY <1>2, <1>3, SMTT(60)
    <2> QED
      BY <1>1, <2>1
  <1> DEFINE last == Row(f[n - 1], l[n])
             g == [i \in 0 .. n |-> IF i = n THEN last ELSE f[i]]
  <1>5. n - 1 \in Nat /\ f[0] = Base /\ \A i \in 1 .. n - 1 : f[i] = Row(f[i - 1], l[i])
    <2>1. n - 1 \in Nat
      BY <1>2, <1>3, SMTT(60)
    <2> QED
      BY <1>4, <2>1, ListsEntries
  <1>6. /\ g[0] = f[0] /\ g[n] = last /\ g[n - 1] = f[n - 1]
        /\ \A i \in 1 .. n - 1 : g[i] = f[i] /\ g[i - 1] = f[i - 1]
    <2> HIDE DEF last
    <2> QED
      BY <1>2, <1>3, SMTT(60)
  <1>7. \A i \in 0 .. n : g[i] = IF i = 0 THEN Base ELSE Row(g[i - 1], l[i])
    <2> SUFFICES ASSUME NEW i \in 0 .. n
                 PROVE  g[i] = IF i = 0 THEN Base ELSE Row(g[i - 1], l[i])
      BY SMTT(60)
    <2> HIDE DEF g
    <2>1. i = 0 \/ i = n \/ i \in 1 .. n - 1
      BY <1>2, SMTT(60)
    <2> QED
      BY <1>3, <1>5, <1>6, <2>1
  <1>8. Lists(g, l, n)
    <2>1. g = [i \in 0 .. n |-> g[i]]
      OBVIOUS
    <2> HIDE DEF g
    <2> QED
      BY <1>7, <2>1 DEF Lists
  <1> QED
    BY <1>2, <1>8

\* The definition of SourceAt chooses such a list.
ListOf(l, n) == CHOOSE f : f = [i \in 0 .. n |-> IF i = 0 THEN Base ELSE Row(f[i - 1], l[i])]

LEMMA ListOfLists ==
    ASSUME NEW l, NEW n \in Nat
    PROVE  Lists(ListOf(l, n), l, n)
  <1>1. \E f : f = [i \in 0 .. n |-> IF i = 0 THEN Base ELSE Row(f[i - 1], l[i])]
    BY ListExists DEF Lists
  <1> QED
    BY <1>1 DEF Lists, ListOf

\* The rows before the first transaction, and after each.
LEMMA SourceSteps ==
    ASSUME log \in Seq(Changes)
    PROVE  /\ SourceAt(0) = Base
           /\ \A i \in 1 .. Len(log) : SourceAt(i) = Row(SourceAt(i - 1), log[i])
  <1> DEFINE f == ListOf(log, Len(log))
  <1>1. Len(log) \in Nat
    BY SMTT(60)
  <1>2. \A n : SourceAt(n) = f[n]
    BY DEF SourceAt, ListOf
  <1>3. f[0] = Base /\ \A i \in 1 .. Len(log) : f[i] = Row(f[i - 1], log[i])
    BY <1>1, ListOfLists, ListsEntries
  <1> HIDE DEF f
  <1> QED
    BY <1>2, <1>3

\* A transaction more changes none of the rows before it.
LEMMA SourceGrows ==
    ASSUME log \in Seq(Changes), NEW c \in Changes, log' = Append(log, c)
    PROVE  /\ log' \in Seq(Changes) /\ Len(log') = Len(log) + 1 /\ log'[Len(log) + 1] = c
           /\ \A i \in 1 .. Len(log) : log'[i] = log[i]
           /\ \A n \in 0 .. Len(log) : SourceAt(n)' = SourceAt(n)
  <1>1. /\ log' \in Seq(Changes) /\ Len(log') = Len(log) + 1 /\ log'[Len(log) + 1] = c
        /\ \A i \in 1 .. Len(log) : log'[i] = log[i]
        /\ Len(log) \in Nat /\ Len(log') \in Nat /\ Len(log) <= Len(log')
    BY SMTT(60)
  <1>2. \A n : SourceAt(n) = ListOf(log, Len(log))[n] /\ SourceAt(n)' = ListOf(log', Len(log'))[n]
    BY DEF SourceAt, ListOf
  <1> DEFINE f == ListOf(log, Len(log))
             g == ListOf(log', Len(log'))
  <1>3. /\ f[0] = Base /\ \A i \in 1 .. Len(log) : f[i] = Row(f[i - 1], log[i])
        /\ g[0] = Base /\ \A i \in 1 .. Len(log') : g[i] = Row(g[i - 1], log'[i])
    <2>1. Lists(f, log, Len(log)) /\ Lists(g, log', Len(log'))
      BY <1>1, ListOfLists
    <2> HIDE DEF f, g
    <2> QED
      BY <1>1, <2>1, ListsEntries
  <1> HIDE DEF f, g
  <1> DEFINE T == {i \in 0 .. Len(log) : f[i] # g[i]}
  <1>4. T = {}
    <2> SUFFICES ASSUME T # {} PROVE FALSE
      BY SMTT(60)
    <2>1. PICK i \in T : \A j \in T : i <= j
      <3>1. T \subseteq Nat
        BY SMTT(60)
      <3> HIDE DEF T
      <3> QED
        BY <3>1, LeastNumber
    <2>2. i \in 0 .. Len(log) /\ f[i] # g[i]
      OBVIOUS
    <2>3. i \in 1 .. Len(log) /\ i \in 1 .. Len(log') /\ log'[i] = log[i]
      BY <1>1, <1>3, <2>2, SMTT(60)
    <2>4. f[i - 1] = g[i - 1]
      BY <2>1, <2>3, SMTT(60)
    <2> QED
      BY <1>3, <2>2, <2>3, <2>4
  <1>5. \A i \in 0 .. Len(log) : f[i] = g[i]
    BY <1>4
  <1> QED
    BY <1>1, <1>2, <1>5 DEF f, g

\* A transaction that neither truncates nor moves a row across the boundary
\* of the range does to the target's rows what the applier does.
LEMMA RowInRange ==
    ASSUME NEW rows, NEW c \in Changes, c.op # "truncate", ~Crosses(c)
    PROVE  InTarget(Row(rows, c)) = IF Concerns(c) THEN Row(InTarget(rows), c) ELSE InTarget(rows)
  <1>1. c.op \in {"insert", "update", "delete", "journal"}
    BY DEF Changes
  <1>2. CASE c.op = "insert"
    <2>1. Row(rows, c) = rows \cup {<<c.k, c.v>>} /\ Row(InTarget(rows), c) = InTarget(rows) \cup {<<c.k, c.v>>}
      BY <1>2, SMTT(60) DEF Row
    <2> QED
      BY <1>2, <2>1, SMTT(60) DEF InTarget, Concerns, IsJournal
  <1>3. CASE c.op = "update"
    <2>1. /\ Row(rows, c) = Without(rows, c.k) \cup {<<c.k2, c.v>>}
          /\ Row(InTarget(rows), c) = Without(InTarget(rows), c.k) \cup {<<c.k2, c.v>>}
      BY <1>3, SMTT(60) DEF Row
    <2>2. c.k \in Kept <=> c.k2 \in Kept
      BY <1>3, SMTT(60) DEF Crosses
    <2> QED
      BY <1>3, <2>1, <2>2, SMTT(60) DEF InTarget, Concerns, IsJournal, Without
  <1>4. CASE c.op = "delete"
    <2>1. Row(rows, c) = Without(rows, c.k) /\ Row(InTarget(rows), c) = Without(InTarget(rows), c.k)
      BY <1>4, SMTT(60) DEF Row
    <2> QED
      BY <1>4, <2>1, SMTT(60) DEF InTarget, Concerns, IsJournal, Without
  <1>5. CASE c.op = "journal"
    BY <1>5, SMTT(60) DEF Row, Concerns, IsJournal
  <1> QED
    BY <1>1, <1>2, <1>3, <1>4, <1>5

\* What is legal at the source is legal on the target's rows.
LEMMA LegalInRange ==
    ASSUME NEW rows, NEW c \in Changes, ~Crosses(c), Concerns(c), Legal(rows, c)
    PROVE  Legal(InTarget(rows), c)
  <1>1. \A k \in Kept : HasKey(InTarget(rows), k) <=> HasKey(rows, k)
    BY SMTT(60) DEF HasKey, InTarget
  <1>2. c.k \in Kept /\ (c.op = "update" => c.k2 \in Kept)
    BY SMTT(60) DEF Concerns, Crosses
  <1> QED
    BY <1>1, <1>2, SMTT(60) DEF Legal

-----------------------------------------------------------------------------
(***************************************************************************)
(* Frames: who else is affected by a step.                                 *)
(***************************************************************************)

\* The rows of the source are a matter of its log alone.
LEMMA SourceSame ==
    ASSUME UNCHANGED log
    PROVE  \A n : SourceAt(n)' = SourceAt(n)
  BY DEF SourceAt

LEMMA LogFrame ==
    ASSUME LogLegal, UNCHANGED log
    PROVE  LogLegal'
  BY SourceSame DEF LogLegal

LEMMA TableFrame ==
    ASSUME TableSound, UNCHANGED <<log, table, held, tainted>>
    PROVE  TableSound'
  BY SourceSame DEF TableSound, Whole

\* A worker that has finished knows nothing.
LEMMA FinishedSound ==
    ASSUME NEW u \in Workflows, pc'[u] = "finished", phase'[u] # "Streaming", ~got'[u]
    PROVE  WorkerSound(u)'
  BY DEF WorkerSound, SeededSound, StreamSound, Seeded, Streams

\* One worker runs.
LEMMA Others ==
    ASSUME SeedInv, NEW w \in Workflows, pc[w] # "finished"
    PROVE  \A u \in Workflows : u # w => pc[u] = "finished" /\ phase[u] # "Streaming" /\ ~got[u]
  BY DEF SeedInv, OneWorker, WorkerSound, Streams

\* A step of the one worker: what is left to show.
LEMMA WorkerStep ==
    ASSUME SeedInv, NEW w \in Workflows, pc[w] # "finished", UNCHANGED log,
           \A u \in Workflows : u # w => pc'[u] = pc[u] /\ phase'[u] = phase[u] /\ got'[u] = got[u],
           SeedTypes', TableSound', GhostSound', WorkerSound(w)'
    PROVE  SeedInv'
  <1>1. \A u \in Workflows : u # w => pc'[u] = "finished" /\ phase'[u] # "Streaming" /\ ~got'[u]
    BY Others
  <1>2. \A u \in Workflows : WorkerSound(u)'
    BY <1>1, FinishedSound
  <1>3. OneWorker'
    BY <1>1 DEF OneWorker
  <1>4. LogLegal'
    BY LogFrame DEF SeedInv
  <1> QED
    BY <1>2, <1>3, <1>4 DEF SeedInv

\* No step of an idle process, of the publication or of a session changes what
\* the invariant is about.
LEMMA IdleStep ==
    ASSUME SeedInv, SeedTypes', \A w \in Workflows : pc'[w] = pc[w] /\ phase'[w] = phase[w],
           UNCHANGED <<log, slot, table, progress, ghost, applied, journal, error, from, at, got,
                       checkpoint, held, tainted>>,
           \A w \in Workflows : lease[w] /\ (pc[w] \in Streams \/ ghost.by = w) => lease'[w]
    PROVE  SeedInv'
  <1>1. TableSound' /\ LogLegal'
    BY TableFrame, LogFrame DEF SeedInv
  <1>2. OneWorker'
    BY DEF SeedInv, OneWorker
  <1>3. GhostSound'
    BY SourceSame DEF SeedInv, GhostSound
  <1>4. ASSUME NEW w \in Workflows PROVE WorkerSound(w)'
    <2>1. WorkerSound(w)
      BY DEF SeedInv
    <2>2. SeededSound(w)'
      BY <2>1 DEF WorkerSound, SeededSound
    <2>3. StreamSound(w)'
      BY <2>1 DEF WorkerSound, StreamSound
    <2> QED
      BY <2>1, <2>2, <2>3 DEF WorkerSound
  <1> QED
    BY <1>1, <1>2, <1>3, <1>4 DEF SeedInv

LEMMA IdleActions ==
    ASSUME SeedInv,
           Alter \/ \E w \in Workflows : Stop(w) \/ WalsenderGone(w) \/ ApplierGone(w)
    PROVE  SeedInv'
  <1> USE DEF source, target, status, locals, history, counts
  <1>1. CASE Alter \/ \E w \in Workflows : Stop(w) \/ WalsenderGone(w)
    <2>1. /\ UNCHANGED <<log, slot, table, progress, ghost, applied, journal, error, from, at, got,
                         checkpoint, held, tainted, pc, phase, lease>>
          /\ pubAll' = pubAll \/ pubAll' = ~pubAll
      BY <1>1 DEF Alter, Stop, WalsenderGone
    <2>2. SeedTypes'
      BY <2>1 DEF SeedInv, SeedTypes
    <2> QED
      BY <2>1, <2>2, IdleStep
  <1>2. ASSUME NEW w \in Workflows, ApplierGone(w) PROVE SeedInv'
    <2>1. /\ UNCHANGED <<log, slot, table, progress, ghost, applied, journal, error, from, at, got,
                         checkpoint, held, tainted, pc, phase, pubAll>>
          /\ lease' = [lease EXCEPT ![w] = FALSE] /\ pc[w] \notin Streams /\ ghost.by # w
      BY <1>2 DEF ApplierGone, Streams
    <2>2. SeedTypes'
      BY <2>1 DEF SeedInv, SeedTypes
    <2>3. \A u \in Workflows : lease[u] /\ (pc[u] \in Streams \/ ghost.by = u) => lease'[u]
      BY <2>1 DEF SeedInv, SeedTypes
    <2> QED
      BY <2>1, <2>2, <2>3, IdleStep
  <1> QED
    BY <1>1, <1>2

-----------------------------------------------------------------------------
(***************************************************************************)
(* Ends, and the commits they leave in doubt.                              *)
(***************************************************************************)

\* What the applier makes of the table is the next prefix.
LEMMA AppliedSound ==
    ASSUME SeedInv, NEW w \in Workflows, pc[w] = "apply"
    PROVE  /\ at[w] \in 1 .. Len(log) /\ lease[w] /\ 0 <= held /\ held < at[w]
           /\ log[at[w]] \in Changes
           /\ ~tainted => Applied(w) = InTarget(SourceAt(at[w]))
  <1>1. StreamSound(w) /\ TableSound /\ log \in Seq(Changes) /\ at[w] \in Int /\ pc[w] \in Streams
    BY DEF SeedInv, SeedTypes, WorkerSound, Streams
  <1>2. /\ at[w] \in 1 .. Len(log) + 1 /\ at[w] <= Len(log) /\ lease[w] /\ 0 <= held
        /\ log[at[w]].op # "truncate" /\ ~Crosses(log[at[w]])
        /\ held < at[w] /\ (~tainted => held = at[w] - 1)
    BY <1>1 DEF StreamSound
  <1>3. at[w] \in 1 .. Len(log) /\ log[at[w]] \in Changes
    BY <1>1, <1>2, SMTT(60)
  <1>4. ASSUME ~tainted PROVE Applied(w) = InTarget(SourceAt(at[w]))
    <2>1. Whole /\ held = at[w] - 1
      BY <1>2, <1>4, SMTT(60) DEF Whole, None
    <2>2. table = InTarget(SourceAt(at[w] - 1))
      BY <1>1, <2>1 DEF TableSound
    <2>3. SourceAt(at[w]) = Row(SourceAt(at[w] - 1), log[at[w]])
      BY <1>1, <1>3, SourceSteps
    <2> QED
      BY <1>2, <1>3, <2>2, <2>3, RowInRange DEF Applied
  <1> QED
    BY <1>2, <1>3, <1>4

\* The copy of a worker is its range of the snapshot.
LEMMA CopiedSound ==
    ASSUME SeedInv, NEW w \in Workflows, pc[w] = "copy"
    PROVE  /\ from[w] \in 0 .. Len(log) /\ held = None /\ ~tainted
           /\ Copied(w) = InTarget(SourceAt(from[w]))
  <1>1. SeededSound(w) /\ pc[w] \in Seeded
    BY DEF SeedInv, WorkerSound, Seeded
  <1>2. from[w] \in 0 .. Len(log) /\ held = None /\ ~tainted /\ table = {}
    BY <1>1 DEF SeededSound
  <1> QED
    BY <1>2 DEF Copied

\* A commit in doubt carries out what its worker was about to do.
LEMMA DoubtSound ==
    ASSUME SeedInv, NEW w \in Workflows, NEW g \in InDoubt(w)
    PROVE  /\ g.touches \in BOOLEAN /\ g.lsn \in Int /\ g.held \in Int
           /\ g.touches => /\ g.held \in 0 .. Len(log) /\ held <= g.held
                           /\ ~tainted => g.rows = InTarget(SourceAt(g.held))
           /\ g.lsn # None => g.by = w /\ g.lsn \in 0 .. Len(log) /\ lease[w]
  <1>0. Len(log) \in Nat /\ held \in Int
    BY SMTT(60) DEF SeedInv, SeedTypes
  <1>1. CASE pc[w] = "copy"
    <2>1. g = [by |-> w, touches |-> TRUE, rows |-> Copied(w), lsn |-> None, held |-> from[w]]
      BY <1>1 DEF InDoubt
    <2>2. g.touches /\ g.rows = Copied(w) /\ g.lsn = None /\ g.held = from[w]
      BY <2>1
    <2>3. from[w] \in 0 .. Len(log) /\ held <= from[w] /\ from[w] \in Int
      BY <1>0, <1>1, CopiedSound, SMTT(60) DEF None
    <2>4. None \in Int
      BY SMTT(60) DEF None
    <2> QED
      BY <1>1, <2>2, <2>3, <2>4, CopiedSound
  <1>2. CASE pc[w] = "apply"
    <2>1. g = [by |-> w, touches |-> Concerns(log[at[w]]), rows |-> Applied(w), lsn |-> at[w],
               held |-> at[w]]
      BY <1>2 DEF InDoubt
    <2>2. g.by = w /\ g.touches \in BOOLEAN /\ g.rows = Applied(w) /\ g.lsn = at[w] /\ g.held = at[w]
      BY <2>1 DEF Concerns
    <2>3. at[w] \in 0 .. Len(log) /\ held <= at[w] /\ at[w] \in Int
      BY <1>0, <1>2, AppliedSound, SMTT(60)
    <2> QED
      BY <1>2, <2>2, <2>3, AppliedSound
  <1>3. CASE pc[w] \notin {"copy", "apply"}
    BY <1>3 DEF InDoubt
  <1> QED
    BY <1>1, <1>2, <1>3

\* Once its worker is gone, such a commit is all that is left of it.
LEMMA DoubtLeft ==
    ASSUME SeedInv, NEW w \in Workflows, ghost' \in InDoubt(w),
           UNCHANGED <<log, held, tainted, lease>>,
           \A u \in Workflows : pc'[u] \in {"ending", "finished"}
    PROVE  GhostSound'
  <1>1. /\ ghost'.touches => /\ ghost'.held \in 0 .. Len(log) /\ held <= ghost'.held
                             /\ ~tainted => ghost'.rows = InTarget(SourceAt(ghost'.held))
        /\ ghost'.lsn # None => ghost'.by = w /\ ghost'.lsn \in 0 .. Len(log) /\ lease[w]
    BY DoubtSound
  <1>2. \A u \in Workflows : pc'[u] \notin Seeded \cup Streams
    BY DEF Seeded, Streams
  <1>3. \A u \in Workflows : pc'[u] \notin {"copy", "attach", "lease"} \cup Streams
    BY <1>2 DEF Seeded
  <1> QED
    BY <1>1, <1>2, <1>3, SourceSame DEF GhostSound

\* run_workflow returns, leaving at most a commit in doubt.
LEMMA EndStep ==
    ASSUME SeedInv, NEW w \in Workflows, pc[w] # "finished",
           NEW f \in {"Error", "Stopped"}, NEW e \in Errors, End(w, f, e), e = "diverged" => tainted,
           UNCHANGED <<log, pubAll, slot, table, progress, lease, held, tainted>>,
           \/ UNCHANGED ghost
           \/ ghost' = NoGhost
           \/ ghost' \in InDoubt(w)
    PROVE  SeedInv'
  <1>1. SeedTypes /\ GhostSound /\ TableSound
    BY DEF SeedInv
  <1>2. /\ pc' = [pc EXCEPT ![w] = "ending"] /\ phase' = [phase EXCEPT ![w] = f]
        /\ error' = [error EXCEPT ![w] = e] /\ from' = [from EXCEPT ![w] = 0]
        /\ at' = [at EXCEPT ![w] = 1] /\ got' = [got EXCEPT ![w] = FALSE]
        /\ checkpoint' = [checkpoint EXCEPT ![w] = None] /\ UNCHANGED <<applied, journal>>
    BY DEF End, Goto
  <1>3. /\ pc'[w] = "ending" /\ phase'[w] = f /\ error'[w] = e /\ ~got'[w]
        /\ \A u \in Workflows :
              u # w => /\ pc'[u] = pc[u] /\ phase'[u] = phase[u]
                       /\ from'[u] = from[u] /\ got'[u] = got[u]
    BY <1>1, <1>2 DEF SeedTypes
  <1>4. ghost'.touches \in BOOLEAN /\ ghost'.lsn \in Int /\ ghost'.held \in Int
    <2>1. CASE ghost' = NoGhost
      BY <2>1, SMTT(60) DEF NoGhost, None
    <2> QED
      BY <1>1, <2>1, DoubtSound DEF SeedTypes
  <1>5. SeedTypes'
    <2>1. /\ pc' \in [Workflows -> PCs] /\ phase' \in [Workflows -> Phases]
          /\ error' \in [Workflows -> Errors] /\ got' \in [Workflows -> BOOLEAN]
      BY <1>1, <1>2 DEF SeedTypes, PCs, Phases
    <2>2. /\ from' \in [Workflows -> Int] /\ at' \in [Workflows -> Int]
          /\ checkpoint' \in [Workflows -> Int]
      BY <1>1, <1>2, SMTT(60) DEF SeedTypes, None
    <2> QED
      BY <1>1, <1>2, <1>4, <2>1, <2>2 DEF SeedTypes
  <1>6. TableSound'
    BY <1>1, TableFrame
  <1>7. \A u \in Workflows : u # w => pc'[u] = "finished"
    BY <1>3, Others
  <1>8. \A u \in Workflows : pc'[u] \in {"ending", "finished"}
    BY <1>3, <1>7
  <1>9. GhostSound'
    <2>1. CASE UNCHANGED ghost
      BY <1>1, <1>8, <2>1, SourceSame DEF GhostSound, Seeded, Streams
    <2>2. CASE ghost' = NoGhost
      BY <2>2 DEF GhostSound, NoGhost
    <2>3. CASE ghost' \in InDoubt(w)
      BY <1>8, <2>3, DoubtLeft
    <2> QED
      BY <2>1, <2>2, <2>3
  <1>10. WorkerSound(w)'
    BY <1>3 DEF WorkerSound, SeededSound, StreamSound, Seeded, Streams
  <1> QED
    BY <1>3, <1>5, <1>6, <1>9, <1>10, WorkerStep

\* The agent restarts.
LEMMA CrashStep ==
    ASSUME SeedInv, Crash
    PROVE  SeedInv'
  <1> USE DEF source, history
  <1>1. SeedTypes /\ GhostSound /\ TableSound /\ LogLegal
    BY DEF SeedInv
  <1>2. /\ pc' = All("finished") /\ phase' = All("None") /\ error' = All("none")
        /\ applied' = All(0) /\ journal' = All(0) /\ from' = All(0) /\ at' = All(1)
        /\ got' = All(FALSE) /\ checkpoint' = All(None)
        /\ UNCHANGED <<log, pubAll, slot, table, progress, lease, held, tainted>>
        /\ \/ UNCHANGED ghost
           \/ ghost' = NoGhost
           \/ \E w \in Workflows : ghost' \in InDoubt(w)
    BY DEF Crash
  <1>3. \A u \in Workflows : pc'[u] = "finished" /\ phase'[u] = "None" /\ ~got'[u]
    BY <1>2 DEF All
  <1>4. ghost'.touches \in BOOLEAN /\ ghost'.lsn \in Int /\ ghost'.held \in Int
    <2>1. CASE ghost' = NoGhost
      BY <2>1, SMTT(60) DEF NoGhost, None
    <2> QED
      BY <1>1, <1>2, <2>1, DoubtSound DEF SeedTypes
  <1>5. SeedTypes'
    <2>1. /\ pc' \in [Workflows -> PCs] /\ phase' \in [Workflows -> Phases]
          /\ error' \in [Workflows -> Errors] /\ got' \in [Workflows -> BOOLEAN]
      BY <1>2 DEF All, PCs, Phases, Errors
    <2>2. /\ from' \in [Workflows -> Int] /\ at' \in [Workflows -> Int]
          /\ checkpoint' \in [Workflows -> Int] /\ applied' \in [Workflows -> Int]
          /\ journal' \in [Workflows -> Int]
      BY <1>2, SMTT(60) DEF All, None
    <2> QED
      BY <1>1, <1>2, <1>4, <2>1, <2>2 DEF SeedTypes
  <1>6. TableSound' /\ LogLegal'
    BY <1>1, <1>2, TableFrame, LogFrame
  <1>7. GhostSound'
    <2>1. CASE UNCHANGED ghost
      BY <1>1, <1>2, <1>3, <2>1, SourceSame DEF GhostSound, Seeded, Streams
    <2>2. CASE ghost' = NoGhost
      BY <2>2 DEF GhostSound, NoGhost
    <2>3. ASSUME NEW w \in Workflows, ghost' \in InDoubt(w) PROVE GhostSound'
      BY <1>2, <1>3, <2>3, DoubtLeft
    <2> QED
      BY <1>2, <2>1, <2>2, <2>3
  <1>8. OneWorker' /\ \A u \in Workflows : WorkerSound(u)'
    BY <1>3, FinishedSound DEF OneWorker
  <1> QED
    BY <1>5, <1>6, <1>7, <1>8 DEF SeedInv

\* The steps at which a worker gives up.
LEMMA EndActions ==
    ASSUME SeedInv, NEW w \in Workflows,
           \/ ~pubAll /\ Preflight(w)
           \/ active[w] /\ DropSlot(w)
           \/ stop[w] /\ Truncate(w)
           \/ lease[w] /\ Lease(w)
           \/ Recheck(w) \/ StopStream(w) \/ Lose(w)
           \/ (log[at[w]].op = "truncate" \/ Crosses(log[at[w]])) /\ Receive(w)
    PROVE  SeedInv'
  <1> USE DEF source, target, status, history
  <1>1. /\ pc[w] # "finished" /\ pc[w] # "ending"
        /\ UNCHANGED <<log, pubAll, slot, table, progress, lease, held, tainted>>
        /\ \/ UNCHANGED ghost
           \/ ghost' = NoGhost
           \/ ghost' \in InDoubt(w)
    BY DEF Preflight, DropSlot, Truncate, Lease, Recheck, StopStream, Lose, Receive, Streaming, Live
  <1>2. \/ End(w, "Error", "publication") \/ End(w, "Error", "slot") \/ End(w, "Stopped", "none")
        \/ End(w, "Error", "fenced") \/ End(w, "Error", "drift") \/ End(w, "Error", "lost")
        \/ End(w, "Error", "truncate") \/ End(w, "Error", "boundary")
    BY DEF Preflight, DropSlot, Truncate, Lease, Recheck, StopStream, Lose, Receive
  <1>3. PICK f \in {"Error", "Stopped"}, e \in Errors : End(w, f, e) /\ e # "diverged"
    BY <1>2 DEF Errors
  <1> QED
    BY <1>1, <1>3, EndStep

-----------------------------------------------------------------------------
(***************************************************************************)
(* The steps of a worker, and of the registry.                             *)
(***************************************************************************)

\* A worker is started when all are finished.
LEMMA StartStep ==
    ASSUME SeedInv, NEW w \in Workflows, Start(w)
    PROVE  SeedInv'
  <1> USE DEF source, target, locals, history
  <1>1. SeedTypes /\ GhostSound /\ TableSound /\ LogLegal /\ \A u \in Workflows : WorkerSound(u)
    BY DEF SeedInv
  <1>2. /\ UNCHANGED <<log, pubAll, slot, table, progress, lease, ghost, from, at, got, checkpoint,
                       held, tainted>>
        /\ pc' = [pc EXCEPT ![w] = "preflight"] /\ phase' = [phase EXCEPT ![w] = "Init"]
        /\ applied' = [applied EXCEPT ![w] = 0] /\ journal' = [journal EXCEPT ![w] = 0]
        /\ error' = [error EXCEPT ![w] = "none"]
        /\ \A u \in Workflows : pc[u] = "finished"
    BY DEF Start, Finished
  <1>3. SeedTypes'
    <2>1. /\ pc' \in [Workflows -> PCs] /\ phase' \in [Workflows -> Phases]
          /\ error' \in [Workflows -> Errors]
      BY <1>1, <1>2 DEF SeedTypes, PCs, Phases, Errors
    <2>2. applied' \in [Workflows -> Int] /\ journal' \in [Workflows -> Int]
      BY <1>1, <1>2, SMTT(60) DEF SeedTypes
    <2> QED
      BY <1>1, <1>2, <2>1, <2>2 DEF SeedTypes
  <1>4. /\ pc'[w] = "preflight" /\ phase'[w] = "Init" /\ journal'[w] = 0
        /\ \A u \in Workflows : u # w => pc'[u] = "finished" /\ phase'[u] = phase[u]
        /\ \A u \in Workflows : ~got'[u]
    BY <1>1, <1>2 DEF SeedTypes, WorkerSound, Streams
  <1>5. OneWorker'
    BY <1>4 DEF OneWorker
  <1>6. GhostSound'
    BY <1>1, <1>2, <1>4, SourceSame DEF GhostSound, Seeded, Streams
  <1>7. WorkerSound(w)'
    BY <1>4 DEF WorkerSound, SeededSound, StreamSound, Seeded, Streams
  <1>8. ASSUME NEW u \in Workflows, u # w PROVE WorkerSound(u)'
    <2>1. WorkerSound(u) /\ pc[u] = "finished" /\ pc'[u] = "finished" /\ phase'[u] = phase[u] /\ ~got'[u]
      BY <1>1, <1>2, <1>4, <1>8
    <2>2. phase[u] # "Streaming"
      BY <2>1 DEF WorkerSound, Streams
    <2> QED
      BY <2>1, <2>2, FinishedSound
  <1> QED
    BY <1>1, <1>2, <1>3, <1>5, <1>6, <1>7, <1>8, TableFrame, LogFrame DEF SeedInv

\* The steps before the copy: the slot, and the old checkpoint.
LEMMA SlotSteps ==
    ASSUME SeedInv, NEW w \in Workflows,
           \/ pubAll /\ Preflight(w)
           \/ ~active[w] /\ DropSlot(w)
           \/ CreateSlot(w) \/ ClearCheckpoint(w)
    PROVE  SeedInv'
  <1> USE DEF source, target, status, locals, history
  <1>1. /\ SeedTypes /\ GhostSound /\ TableSound /\ WorkerSound(w) /\ SeededSound(w)
        /\ Len(log) \in Nat /\ from[w] \in Int /\ pc[w] \in {"preflight", "slot", "create", "clear"}
    BY SMTT(60) DEF SeedInv, SeedTypes, WorkerSound, Preflight, DropSlot, CreateSlot, ClearCheckpoint
  <1>2. UNCHANGED <<log, pubAll, table, lease, ghost, applied, journal, error, at, got, checkpoint, held, tainted>>
    BY DEF Preflight, DropSlot, CreateSlot, ClearCheckpoint
  <1>3. \/ /\ pc' = [pc EXCEPT ![w] = "slot"] /\ UNCHANGED <<slot, from, phase, progress>>
        \/ /\ pc' = [pc EXCEPT ![w] = "create"] /\ slot' = [slot EXCEPT ![w] = None]
           /\ UNCHANGED <<from, phase, progress>>
        \/ /\ pc' = [pc EXCEPT ![w] = "clear"] /\ slot' = [slot EXCEPT ![w] = Len(log)]
           /\ from' = [from EXCEPT ![w] = Len(log)] /\ phase' = [phase EXCEPT ![w] = "Copy"]
           /\ UNCHANGED progress
        \/ /\ pc[w] = "clear" /\ pc' = [pc EXCEPT ![w] = "truncate"]
           /\ progress' = [progress EXCEPT ![w] = None]
           /\ UNCHANGED <<slot, from, phase>>
    BY DEF Preflight, DropSlot, CreateSlot, ClearCheckpoint, Goto
  <1>4. SeedTypes'
    <2>1. pc' \in [Workflows -> PCs] /\ phase' \in [Workflows -> Phases]
      BY <1>1, <1>3 DEF SeedTypes, PCs, Seeded, Phases
    <2>2. slot' \in [Workflows -> Int] /\ from' \in [Workflows -> Int] /\ progress' \in [Workflows -> Int]
      <3>1. None \in Int /\ Len(log) \in Int
        BY <1>1, SMTT(60) DEF None
      <3>2. /\ slot' = slot \/ \E i \in Int : slot' = [slot EXCEPT ![w] = i]
            /\ from' = from \/ \E i \in Int : from' = [from EXCEPT ![w] = i]
            /\ progress' = progress \/ \E i \in Int : progress' = [progress EXCEPT ![w] = i]
        BY <1>3, <3>1
      <3>3. slot \in [Workflows -> Int] /\ from \in [Workflows -> Int] /\ progress \in [Workflows -> Int]
        BY <1>1 DEF SeedTypes
      <3>4. slot' \in [Workflows -> Int]
        BY <3>2, <3>3
      <3>5. from' \in [Workflows -> Int]
        BY <3>2, <3>3
      <3>6. progress' \in [Workflows -> Int]
        BY <3>2, <3>3
      <3> QED
        BY <3>4, <3>5, <3>6
    <2> QED
      BY <1>1, <1>2, <2>1, <2>2 DEF SeedTypes
  <1>5. /\ \A u \in Workflows : u # w => pc'[u] = pc[u] /\ phase'[u] = phase[u] /\ from'[u] = from[u]
        /\ pc'[w] \in {"slot", "create", "clear", "truncate"} /\ phase'[w] # "Streaming"
        /\ journal'[w] = 0 /\ ~got'[w]
    BY <1>1, <1>2, <1>3 DEF SeedTypes, WorkerSound, SeededSound, Seeded, Streams
  <1>6. /\ pc'[w] \in {"clear", "truncate"} => from'[w] \in 0 .. Len(log) /\ slot'[w] = from'[w]
        /\ pc'[w] = "truncate" => progress'[w] <= from'[w] /\ pc[w] = "clear" /\ from'[w] = from[w]
        /\ pc'[w] = "clear" => from'[w] = Len(log)
    <2>1. pc[w] = "clear" => from[w] \in 0 .. Len(log) /\ slot[w] = from[w]
      BY <1>1 DEF SeededSound, Seeded
    <2> QED
      BY <1>1, <1>3, <2>1, SMTT(60) DEF SeedTypes, None
  <1>7. WorkerSound(w)'
    BY <1>2, <1>5, <1>6 DEF WorkerSound, SeededSound, StreamSound, Seeded, Streams
  <1>8. GhostSound'
    <2>1. ghost.touches => \A u \in Workflows : pc'[u] \notin {"copy", "attach", "lease"} \cup Streams
      BY <1>1, <1>5 DEF GhostSound, Streams
    <2>2. ghost.lsn # None =>
            /\ pc'[ghost.by] \notin Streams
            /\ pc'[ghost.by] \in Seeded => ghost.lsn <= from'[ghost.by]
      BY <1>1, <1>5, <1>6, SMTT(60) DEF GhostSound, Streams, Seeded
    <2> QED
      BY <1>1, <1>2, <2>1, <2>2, SourceSame DEF GhostSound
  <1> QED
    BY <1>1, <1>2, <1>4, <1>5, <1>7, <1>8, TableFrame, WorkerStep

\* The table is wiped, once no commit in doubt can change it any more.
LEMMA TruncateStep ==
    ASSUME SeedInv, NEW w \in Workflows, ~stop[w], Truncate(w)
    PROVE  SeedInv'
  <1> USE DEF source, status, locals, history
  <1>1. /\ SeedTypes /\ GhostSound /\ WorkerSound(w) /\ SeededSound(w)
        /\ pc[w] = "truncate" /\ ~ghost.touches
    BY DEF SeedInv, WorkerSound, Truncate, LocksTable
  <1>2. /\ UNCHANGED <<log, pubAll, slot, progress, lease, ghost, phase, applied, journal, error, from,
                       at, got, checkpoint>>
        /\ pc' = [pc EXCEPT ![w] = "copy"] /\ table' = {} /\ held' = None /\ tainted' = FALSE
    BY DEF Truncate, Goto
  <1>3. SeedTypes'
    <2>1. pc' \in [Workflows -> PCs]
      BY <1>1, <1>2 DEF SeedTypes, PCs, Seeded
    <2>2. held' \in Int
      BY <1>2, SMTT(60) DEF None
    <2> QED
      BY <1>1, <1>2, <2>1, <2>2 DEF SeedTypes
  <1>4. pc'[w] = "copy" /\ \A u \in Workflows : u # w => pc'[u] = pc[u]
    BY <1>1, <1>2 DEF SeedTypes
  <1>5. WorkerSound(w)'
    BY <1>1, <1>2, <1>4 DEF WorkerSound, SeededSound, StreamSound, Seeded, Streams
  <1>6. GhostSound'
    BY <1>1, <1>2, <1>4 DEF GhostSound, Seeded, Streams
  <1>7. TableSound'
    BY <1>2 DEF TableSound, Whole
  <1> QED
    BY <1>1, <1>2, <1>3, <1>4, <1>5, <1>6, <1>7, WorkerStep

LEMMA CopyStep ==
    ASSUME SeedInv, NEW w \in Workflows, Copy(w)
    PROVE  SeedInv'
  <1> USE DEF source, status, locals
  <1>1. /\ SeedTypes /\ GhostSound /\ WorkerSound(w) /\ SeededSound(w)
        /\ pc[w] = "copy" /\ ~ghost.touches
    BY DEF SeedInv, WorkerSound, Copy, GhostSound
  <1>2. /\ UNCHANGED <<log, pubAll, slot, progress, lease, ghost, phase, applied, journal, error, from,
                       at, got, checkpoint, tainted>>
        /\ pc' = [pc EXCEPT ![w] = "attach"] /\ table' = Copied(w) /\ held' = from[w]
    BY DEF Copy, Goto
  <1>3. SeedTypes'
    <2>1. pc' \in [Workflows -> PCs]
      BY <1>1, <1>2 DEF SeedTypes, PCs, Seeded
    <2> QED
      BY <1>1, <1>2, <2>1 DEF SeedTypes
  <1>4. pc'[w] = "attach" /\ \A u \in Workflows : u # w => pc'[u] = pc[u]
    BY <1>1, <1>2 DEF SeedTypes
  <1>5. from[w] \in 0 .. Len(log) /\ ~tainted /\ Copied(w) = InTarget(SourceAt(from[w]))
    BY <1>1, CopiedSound
  <1>6. WorkerSound(w)'
    BY <1>1, <1>2, <1>4, <1>5 DEF WorkerSound, SeededSound, StreamSound, Seeded, Streams
  <1>7. GhostSound'
    BY <1>1, <1>2, <1>4 DEF GhostSound, Seeded, Streams
  <1>8. TableSound'
    BY <1>2, <1>5, SourceSame DEF TableSound, Whole
  <1> QED
    BY <1>1, <1>2, <1>3, <1>4, <1>6, <1>7, <1>8, WorkerStep

LEMMA AttachStep ==
    ASSUME SeedInv, NEW w \in Workflows, Attach(w)
    PROVE  SeedInv'
  <1> USE DEF source, target, status, history
  <1>1. /\ SeedTypes /\ GhostSound /\ TableSound /\ WorkerSound(w) /\ SeededSound(w) /\ pc[w] = "attach"
    BY DEF SeedInv, WorkerSound, Attach
  <1>2. /\ UNCHANGED <<log, pubAll, slot, table, progress, lease, ghost, phase, applied, journal, error,
                       from, got, checkpoint, held, tainted>>
        /\ pc' = [pc EXCEPT ![w] = "lease"] /\ at' = [at EXCEPT ![w] = slot[w] + 1]
    BY DEF Attach, Goto
  <1>3. SeedTypes'
    <2>1. pc' \in [Workflows -> PCs]
      BY <1>1, <1>2 DEF SeedTypes, PCs, Seeded
    <2>2. at' \in [Workflows -> Int]
      BY <1>1, <1>2, SMTT(60) DEF SeedTypes
    <2> QED
      BY <1>1, <1>2, <2>1, <2>2 DEF SeedTypes
  <1>4. /\ pc'[w] = "lease" /\ at'[w] = slot[w] + 1 /\ \A u \in Workflows : u # w => pc'[u] = pc[u]
    BY <1>1, <1>2 DEF SeedTypes
  <1>5. WorkerSound(w)'
    BY <1>1, <1>2, <1>4 DEF WorkerSound, SeededSound, StreamSound, Seeded, Streams
  <1>6. GhostSound'
    BY <1>1, <1>2, <1>4, SourceSame DEF GhostSound, Seeded, Streams
  <1> QED
    BY <1>1, <1>2, <1>3, <1>4, <1>5, <1>6, TableFrame, WorkerStep

\* The stream lease is free, so no commit in doubt will move the checkpoint.
LEMMA LeaseStep ==
    ASSUME SeedInv, NEW w \in Workflows, ~lease[w], Lease(w)
    PROVE  SeedInv'
  <1> USE DEF source, history
  <1>1. /\ SeedTypes /\ GhostSound /\ TableSound /\ WorkerSound(w) /\ SeededSound(w) /\ pc[w] = "lease"
    BY DEF SeedInv, WorkerSound, Lease
  <1>2. /\ UNCHANGED <<log, pubAll, slot, table, progress, ghost, journal, error, from, at, got, held, tainted>>
        /\ pc' = [pc EXCEPT ![w] = "stream"] /\ lease' = [lease EXCEPT ![w] = TRUE]
        /\ checkpoint' = [checkpoint EXCEPT ![w] = progress[w]]
        /\ phase' = [phase EXCEPT ![w] = "Streaming"] /\ applied' = [applied EXCEPT ![w] = from[w]]
    BY DEF Lease, Goto
  <1>3. SeedTypes'
    <2>1. /\ pc' \in [Workflows -> PCs] /\ phase' \in [Workflows -> Phases]
          /\ lease' \in [Workflows -> BOOLEAN]
      BY <1>1, <1>2 DEF SeedTypes, PCs, Streams, Phases
    <2>2. checkpoint' \in [Workflows -> Int] /\ applied' \in [Workflows -> Int]
      BY <1>1, <1>2 DEF SeedTypes
    <2> QED
      BY <1>1, <1>2, <2>1, <2>2 DEF SeedTypes
  <1>4. /\ pc'[w] = "stream" /\ phase'[w] = "Streaming" /\ lease'[w]
        /\ checkpoint'[w] = progress[w] /\ applied'[w] = from[w]
        /\ \A u \in Workflows : u # w => pc'[u] = pc[u] /\ phase'[u] = phase[u] /\ lease'[u] = lease[u]
    BY <1>1, <1>2 DEF SeedTypes
  <1>5. /\ from[w] \in 0 .. Len(log) /\ slot[w] = from[w] /\ progress[w] <= from[w] /\ held = from[w]
        /\ at[w] = from[w] + 1 /\ ~got[w] /\ journal[w] = 0 /\ ~tainted
    BY <1>1 DEF WorkerSound, SeededSound, Seeded, Streams
  <1>6. StreamSound(w)'
    <2>1. /\ 0 <= from[w] /\ slot[w] <= from[w] /\ from[w] <= from[w] /\ at[w] \in 1 .. Len(log) + 1
          /\ 0 \in 0 .. at[w] - 1 /\ from[w] < at[w] /\ progress[w] < at[w] /\ from[w] = at[w] - 1
      BY <1>1, <1>5, SMTT(60) DEF SeedTypes
    <2> QED
      BY <1>2, <1>4, <1>5, <2>1 DEF StreamSound
  <1>7. WorkerSound(w)'
    BY <1>2, <1>4, <1>5, <1>6 DEF WorkerSound, SeededSound, Seeded, Streams
  <1>8. GhostSound'
    BY <1>1, <1>2, <1>4, SourceSame DEF GhostSound, Seeded, Streams
  <1> QED
    BY <1>1, <1>2, <1>3, <1>4, <1>7, <1>8, TableFrame, WorkerStep

\* What a worker that streams knows.
LEMMA StreamKnows ==
    ASSUME SeedInv, NEW w \in Workflows, pc[w] \in Streams
    PROVE  /\ SeedTypes /\ GhostSound /\ TableSound /\ WorkerSound(w) /\ StreamSound(w)
           /\ pc[w] # "finished" /\ pc[w] \notin Seeded /\ phase[w] = "Streaming"
           /\ ~ghost.touches
           /\ ghost.lsn # None => ghost.by # w
           /\ Len(log) \in Nat /\ at[w] \in Nat
  <1>1. SeedTypes /\ GhostSound /\ TableSound /\ WorkerSound(w) /\ StreamSound(w)
    BY DEF SeedInv, WorkerSound
  <1>2. /\ pc[w] # "finished" /\ pc[w] \notin Seeded /\ phase[w] = "Streaming" /\ ~ghost.touches
        /\ ghost.lsn # None => ghost.by # w
    BY <1>1 DEF WorkerSound, GhostSound, Streams, Seeded
  <1>3. Len(log) \in Nat
    BY <1>1, SMTT(60) DEF SeedTypes
  <1>4. at[w] \in 1 .. Len(log) + 1
    BY <1>1 DEF StreamSound
  <1>5. at[w] \in Nat
    BY <1>3, <1>4, SMTT(60)
  <1> QED
    BY <1>1, <1>2, <1>3, <1>5

\* Streaming leaves a commit in doubt alone.
LEMMA StreamGhost ==
    ASSUME SeedInv, NEW w \in Workflows, pc[w] \in Streams,
           UNCHANGED <<log, lease, ghost, from>>, pc'[w] \in Streams,
           \A u \in Workflows : u # w => pc'[u] = pc[u]
    PROVE  GhostSound'
  BY StreamKnows DEF GhostSound

\* A transaction the publication left out is passed over.
LEMMA OmitStep ==
    ASSUME SeedInv, NEW w \in Workflows, Omit(w)
    PROVE  SeedInv'
  <1> USE DEF source, target, status
  <1>1. pc[w] = "stream" /\ pc[w] \in Streams /\ at[w] <= Len(log) /\ ~log[at[w]].pub
    BY DEF Omit, Streaming, Streams
  <1>2. /\ SeedTypes /\ WorkerSound(w) /\ StreamSound(w) /\ Len(log) \in Nat /\ at[w] \in Nat
        /\ phase[w] = "Streaming"
    BY <1>1, StreamKnows
  <1>3. /\ UNCHANGED <<log, pubAll, slot, table, progress, lease, ghost, pc, phase, applied, journal,
                       error, from, got, checkpoint, held>>
        /\ at' = [at EXCEPT ![w] = @ + 1] /\ tainted' = TRUE
    BY DEF Omit
  <1>4. at'[w] = at[w] + 1
    BY <1>2, <1>3 DEF SeedTypes
  <1>5. SeedTypes'
    <2>1. at' \in [Workflows -> Int]
      BY <1>2, <1>3, SMTT(60) DEF SeedTypes
    <2> QED
      BY <1>2, <1>3, <2>1 DEF SeedTypes
  <1>6. StreamSound(w)'
    <2>1. /\ 0 <= held /\ lease[w] /\ (slot[w] <= from[w] \/ slot[w] <= progress[w])
          /\ applied[w] <= held /\ at[w] \in 1 .. Len(log) + 1 /\ journal[w] \in 0 .. at[w] - 1
          /\ ~got[w] /\ held < at[w] /\ checkpoint[w] < at[w] /\ slot[w] < at[w]
      BY <1>1, <1>2 DEF StreamSound
    <2>2. /\ at[w] + 1 \in 1 .. Len(log) + 1 /\ journal[w] \in 0 .. (at[w] + 1) - 1
          /\ held < at[w] + 1 /\ checkpoint[w] < at[w] + 1 /\ slot[w] < at[w] + 1
      BY <1>1, <1>2, <2>1, SMTT(60) DEF SeedTypes
    <2> QED
      BY <1>1, <1>3, <1>4, <2>1, <2>2 DEF StreamSound
  <1>7. WorkerSound(w)'
    BY <1>1, <1>2, <1>3, <1>6 DEF WorkerSound, SeededSound, Seeded, Streams
  <1>8. GhostSound'
    BY <1>1, <1>3, StreamGhost
  <1>9. TableSound'
    BY <1>3 DEF TableSound, Whole
  <1> QED
    BY <1>1, <1>3, <1>5, <1>7, <1>8, <1>9, WorkerStep

\* A change is buffered.
LEMMA ReceiveStep ==
    ASSUME SeedInv, NEW w \in Workflows, Receive(w), log[at[w]].op # "truncate", ~Crosses(log[at[w]])
    PROVE  SeedInv'
  <1> USE DEF source, target, status, history
  <1>1. pc[w] = "stream" /\ pc[w] \in Streams /\ at[w] <= Len(log) /\ log[at[w]].pub
    BY DEF Receive, Streaming, Streams
  <1>2. SeedTypes /\ TableSound /\ WorkerSound(w) /\ StreamSound(w) /\ phase[w] = "Streaming"
    BY <1>1, StreamKnows
  <1>3. /\ UNCHANGED <<log, pubAll, slot, table, progress, lease, ghost, pc, phase, applied, journal,
                       error, from, at, checkpoint, held, tainted>>
        /\ got' = [got EXCEPT ![w] = TRUE]
    BY DEF Receive
  <1>4. got'[w] /\ \A u \in Workflows : u # w => got'[u] = got[u]
    BY <1>2, <1>3 DEF SeedTypes
  <1>5. SeedTypes'
    BY <1>2, <1>3 DEF SeedTypes
  <1>6. StreamSound(w)'
    BY <1>1, <1>2, <1>3, <1>4 DEF StreamSound, Crosses
  <1>7. WorkerSound(w)'
    BY <1>1, <1>2, <1>3, <1>6 DEF WorkerSound, SeededSound, Seeded, Streams
  <1>8. GhostSound'
    BY <1>1, <1>3, StreamGhost
  <1>9. TableSound'
    BY <1>2, <1>3, TableFrame
  <1> QED
    BY <1>1, <1>3, <1>4, <1>5, <1>7, <1>8, <1>9, WorkerStep

\* The applier's check of what its statements affect fails only when a change
\* was left out of the stream.
LEMMA AppliesLegally ==
    ASSUME SeedInv, NEW w \in Workflows, Streaming(w), got[w], ~tainted, Concerns(log[at[w]])
    PROVE  Legal(table, log[at[w]])
  <1>1. pc[w] = "stream" /\ pc[w] \in Streams
    BY DEF Streaming, Streams
  <1>2. /\ SeedTypes /\ TableSound /\ StreamSound(w) /\ LogLegal /\ Len(log) \in Nat
        /\ at[w] \in Nat
    BY <1>1, StreamKnows DEF SeedInv
  <1>3. /\ 0 <= held /\ at[w] \in 1 .. Len(log) + 1 /\ at[w] <= Len(log) /\ held = at[w] - 1
        /\ ~Crosses(log[at[w]])
    BY <1>1, <1>2 DEF StreamSound
  <1>4. at[w] \in 1 .. Len(log) /\ log[at[w]] \in Changes /\ held # None
    BY <1>2, <1>3, SMTT(60) DEF SeedTypes, None
  <1>5. table = InTarget(SourceAt(at[w] - 1))
    BY <1>2, <1>3, <1>4 DEF TableSound, Whole
  <1>6. Legal(SourceAt(at[w] - 1), log[at[w]])
    BY <1>2, <1>4 DEF LogLegal
  <1> QED
    BY <1>3, <1>4, <1>5, <1>6, LegalInRange

LEMMA CommitStep ==
    ASSUME SeedInv, NEW w \in Workflows, Commit(w)
    PROVE  SeedInv'
  <1> USE DEF source, target, status, locals, history
  <1>1. Streaming(w) /\ got[w] /\ pc[w] = "stream" /\ pc[w] \in Streams
    BY DEF Commit, Streaming, Streams
  <1>2. /\ SeedTypes /\ TableSound /\ WorkerSound(w) /\ StreamSound(w) /\ phase[w] = "Streaming"
        /\ at[w] \in Nat
    BY <1>1, StreamKnows
  <1>3. UNCHANGED <<log, pubAll, slot, table, progress, lease, ghost, held, tainted>>
    BY DEF Commit
  <1>4. ~(at[w] <= checkpoint[w])
    <2>1. checkpoint[w] < at[w]
      BY <1>1, <1>2 DEF StreamSound
    <2> QED
      BY <1>2, <2>1, SMTT(60) DEF SeedTypes
  <1>5. \/ Concerns(log[at[w]]) /\ ~Legal(table, log[at[w]]) /\ End(w, "Error", "diverged")
        \/ End(w, "Error", "fenced")
        \/ Goto(w, "apply") /\ UNCHANGED <<phase, applied, journal, error, from, at, got, checkpoint>>
    BY <1>4 DEF Commit
  <1>6. CASE Concerns(log[at[w]]) /\ ~Legal(table, log[at[w]]) /\ End(w, "Error", "diverged")
    <2>1. tainted
      BY <1>1, <1>2, <1>6, AppliesLegally DEF SeedTypes
    <2>2. "diverged" \in Errors
      BY DEF Errors
    <2> QED
      BY <1>1, <1>3, <1>6, <2>1, <2>2, EndStep
  <1>7. CASE End(w, "Error", "fenced")
    <2>1. "fenced" \in Errors
      BY DEF Errors
    <2> QED
      BY <1>1, <1>3, <1>7, <2>1, EndStep
  <1>8. CASE Goto(w, "apply") /\ UNCHANGED <<phase, applied, journal, error, from, at, got, checkpoint>>
    <2>1. pc' = [pc EXCEPT ![w] = "apply"]
      BY <1>8 DEF Goto
    <2>2. pc'[w] = "apply" /\ pc'[w] \in Streams /\ \A u \in Workflows : u # w => pc'[u] = pc[u]
      BY <1>2, <2>1 DEF SeedTypes, Streams
    <2>3. SeedTypes'
      BY <1>2, <1>3, <1>8, <2>1 DEF SeedTypes, PCs, Streams
    <2>4. StreamSound(w)'
      BY <1>1, <1>2, <1>3, <1>8, <2>2 DEF StreamSound, Crosses
    <2>5. WorkerSound(w)'
      BY <1>2, <1>3, <1>8, <2>2, <2>4 DEF WorkerSound, SeededSound, Seeded, Streams
    <2>6. GhostSound' /\ TableSound'
      BY <1>1, <1>2, <1>3, <1>8, <2>2, StreamGhost, TableFrame
    <2> QED
      BY <1>1, <1>3, <1>8, <2>2, <2>3, <2>5, <2>6, WorkerStep
  <1> QED
    BY <1>5, <1>6, <1>7, <1>8

\* The target commits.
LEMMA DurableStep ==
    ASSUME SeedInv, NEW w \in Workflows, Durable(w)
    PROVE  SeedInv'
  <1> USE DEF source, status
  <1>1. pc[w] = "apply" /\ pc[w] \in Streams
    BY DEF Durable, Streams
  <1>2. /\ SeedTypes /\ WorkerSound(w) /\ StreamSound(w) /\ phase[w] = "Streaming"
        /\ Len(log) \in Nat /\ at[w] \in Nat
    BY <1>1, StreamKnows
  <1>3. /\ UNCHANGED <<log, pubAll, slot, lease, ghost, phase, applied, journal, error, from, at, got,
                       tainted>>
        /\ pc' = [pc EXCEPT ![w] = "report"] /\ table' = Applied(w) /\ held' = at[w]
        /\ progress' = [progress EXCEPT ![w] = at[w]] /\ checkpoint' = [checkpoint EXCEPT ![w] = at[w]]
    BY DEF Durable, Goto
  <1>4. /\ pc'[w] = "report" /\ pc'[w] \in Streams /\ progress'[w] = at[w] /\ checkpoint'[w] = at[w]
        /\ \A u \in Workflows : u # w => pc'[u] = pc[u]
    BY <1>2, <1>3 DEF SeedTypes, Streams
  <1>5. SeedTypes'
    <2>1. pc' \in [Workflows -> PCs]
      BY <1>2, <1>3 DEF SeedTypes, PCs, Streams
    <2>2. /\ progress' \in [Workflows -> Int] /\ checkpoint' \in [Workflows -> Int] /\ held' \in Int
      BY <1>2, <1>3 DEF SeedTypes
    <2> QED
      BY <1>2, <1>3, <2>1, <2>2 DEF SeedTypes
  <1>6. StreamSound(w)'
    <2>1. /\ 0 <= held /\ lease[w] /\ (slot[w] <= from[w] \/ slot[w] <= progress[w])
          /\ applied[w] <= held /\ at[w] \in 1 .. Len(log) + 1 /\ journal[w] \in 0 .. at[w] - 1
          /\ got[w] /\ held < at[w] /\ slot[w] < at[w]
      BY <1>1, <1>2 DEF StreamSound
    <2>2. 0 <= at[w] /\ applied[w] <= at[w] /\ slot[w] <= at[w]
      BY <1>2, <2>1, SMTT(60) DEF SeedTypes
    <2> QED
      BY <1>1, <1>2, <1>3, <1>4, <2>1, <2>2 DEF StreamSound, Crosses
  <1>7. WorkerSound(w)'
    BY <1>2, <1>3, <1>4, <1>6 DEF WorkerSound, SeededSound, Seeded, Streams
  <1>8. GhostSound'
    BY <1>1, <1>3, <1>4, StreamGhost
  <1>9. TableSound'
    <2>1. at[w] \in 1 .. Len(log) /\ (~tainted => Applied(w) = InTarget(SourceAt(at[w])))
      BY <1>1, AppliedSound
    <2>2. at[w] \in 0 .. Len(log)
      BY <1>2, <2>1, SMTT(60)
    <2> QED
      BY <1>3, <2>1, <2>2, SourceSame DEF TableSound, Whole
  <1> QED
    BY <1>1, <1>3, <1>4, <1>5, <1>7, <1>8, <1>9, WorkerStep

\* The position is confirmed and reported.
LEMMA ReportStep ==
    ASSUME SeedInv, NEW w \in Workflows, Report(w)
    PROVE  SeedInv'
  <1> USE DEF source, target, history
  <1>1. pc[w] = "report" /\ pc[w] \in Streams
    BY DEF Report, Streams
  <1>2. /\ SeedTypes /\ TableSound /\ WorkerSound(w) /\ StreamSound(w) /\ phase[w] = "Streaming"
        /\ Len(log) \in Nat /\ at[w] \in Nat
    BY <1>1, StreamKnows
  <1>3. /\ UNCHANGED <<log, pubAll, table, progress, lease, ghost, phase, error, from, checkpoint, held,
                       tainted>>
        /\ pc' = [pc EXCEPT ![w] = "stream"] /\ slot' = [slot EXCEPT ![w] = at[w]]
        /\ applied' = [applied EXCEPT ![w] = at[w]] /\ got' = [got EXCEPT ![w] = FALSE]
        /\ at' = [at EXCEPT ![w] = @ + 1]
        /\ journal' = journal \/ journal' = [journal EXCEPT ![w] = at[w]]
    BY DEF Report, Goto
  <1>4. /\ pc'[w] = "stream" /\ pc'[w] \in Streams /\ slot'[w] = at[w] /\ applied'[w] = at[w] /\ ~got'[w]
        /\ at'[w] = at[w] + 1 /\ (journal'[w] = journal[w] \/ journal'[w] = at[w])
        /\ \A u \in Workflows : u # w => pc'[u] = pc[u] /\ got'[u] = got[u]
    BY <1>2, <1>3 DEF SeedTypes, Streams
  <1>5. SeedTypes'
    <2>1. pc' \in [Workflows -> PCs] /\ got' \in [Workflows -> BOOLEAN]
      BY <1>2, <1>3 DEF SeedTypes, PCs, Streams
    <2>2. /\ slot' \in [Workflows -> Int] /\ applied' \in [Workflows -> Int]
          /\ journal' \in [Workflows -> Int]
      BY <1>2, <1>3 DEF SeedTypes
    <2>3. at' \in [Workflows -> Int]
      BY <1>2, <1>3, SMTT(60) DEF SeedTypes
    <2> QED
      BY <1>2, <1>3, <2>1, <2>2, <2>3 DEF SeedTypes
  <1>6. StreamSound(w)'
    <2>1. /\ lease[w] /\ at[w] \in 1 .. Len(log) + 1 /\ journal[w] \in 0 .. at[w] - 1 /\ got[w]
          /\ held = at[w] /\ progress[w] = at[w] /\ checkpoint[w] = at[w] /\ at[w] <= Len(log)
      BY <1>1, <1>2 DEF StreamSound
    <2>2. /\ 0 <= at[w] /\ at[w] <= at[w] /\ at[w] + 1 \in 1 .. Len(log) + 1
          /\ journal[w] \in 0 .. (at[w] + 1) - 1 /\ at[w] \in 0 .. (at[w] + 1) - 1
          /\ at[w] < at[w] + 1 /\ at[w] = (at[w] + 1) - 1
      BY <1>2, <2>1, SMTT(60) DEF SeedTypes
    <2>3. journal'[w] \in 0 .. at'[w] - 1
      BY <1>4, <2>2
    <2> QED
      BY <1>3, <1>4, <2>1, <2>2, <2>3 DEF StreamSound
  <1>7. WorkerSound(w)'
    BY <1>2, <1>3, <1>4, <1>6 DEF WorkerSound, SeededSound, Seeded, Streams
  <1>8. GhostSound'
    BY <1>1, <1>3, <1>4, StreamGhost
  <1>9. TableSound'
    BY <1>2, <1>3, TableFrame
  <1> QED
    BY <1>1, <1>3, <1>4, <1>5, <1>7, <1>8, <1>9, WorkerStep

\* The task of a worker that returned finishes.
LEMMA FinishStep ==
    ASSUME SeedInv, NEW w \in Workflows, Finish(w)
    PROVE  SeedInv'
  <1> USE DEF source, target, status, locals, history
  <1>1. SeedTypes /\ GhostSound /\ TableSound /\ WorkerSound(w) /\ pc[w] = "ending"
    BY DEF SeedInv, Finish
  <1>2. /\ UNCHANGED <<log, pubAll, slot, table, progress, lease, ghost, phase, applied, journal, error,
                       from, at, got, checkpoint, held, tainted>>
        /\ pc' = [pc EXCEPT ![w] = "finished"]
    BY DEF Finish, Goto
  <1>3. pc'[w] = "finished" /\ \A u \in Workflows : u # w => pc'[u] = pc[u]
    BY <1>1, <1>2 DEF SeedTypes
  <1>4. SeedTypes'
    BY <1>1, <1>2 DEF SeedTypes, PCs
  <1>5. WorkerSound(w)'
    BY <1>1, <1>2, <1>3, FinishedSound DEF WorkerSound, Streams
  <1>6. GhostSound'
    BY <1>1, <1>2, <1>3, SourceSame DEF GhostSound, Seeded, Streams
  <1> QED
    BY <1>1, <1>2, <1>3, <1>4, <1>5, <1>6, TableFrame, WorkerStep

-----------------------------------------------------------------------------
(***************************************************************************)
(* The source, and a commit in doubt that is carried out.                  *)
(***************************************************************************)
LEMMA TransactionsTyped ==
    ASSUME pubAll \in BOOLEAN
    PROVE  Transactions \subseteq Changes
  <1> SUFFICES ASSUME NEW c \in Transactions PROVE c \in Changes
    BY SMTT(60)
  <1>1. CASE \E k \in Keys, v \in Vals : c = Change("insert", k, k, v)
    BY <1>1, SMTT(60) DEF Changes, Change
  <1>2. CASE \E k \in Keys, k2 \in Keys, v \in Vals : c = Change("update", k, k2, v)
    BY <1>2, SMTT(60) DEF Changes, Change
  <1>3. CASE \E k \in Keys : c = Change("delete", k, k, 0)
    BY <1>3, SMTT(60) DEF Changes, Change
  <1>4. CASE c = Change("truncate", 0, 0, 0)
    BY <1>4, SMTT(60) DEF Changes, Change
  <1>5. CASE c = [Change("journal", 0, 0, 0) EXCEPT !.pub = TRUE]
    <2>1. c = [op |-> "journal", k |-> 0, k2 |-> 0, v |-> 0, pub |-> TRUE]
      BY <1>5 DEF Change
    <2> QED
      BY <2>1, SMTT(60) DEF Changes
  <1> QED
    BY <1>1, <1>2, <1>3, <1>4, <1>5, SMTT(60) DEF Transactions

LEMMA WriteStep ==
    ASSUME SeedInv, Write
    PROVE  SeedInv'
  <1> USE DEF target, status, locals, history
  <1>1. SeedTypes /\ OneWorker /\ LogLegal /\ TableSound /\ GhostSound /\ \A w \in Workflows : WorkerSound(w)
    BY DEF SeedInv
  <1>2. PICK c \in Transactions : Legal(SourceAt(Len(log)), c) /\ log' = Append(log, c)
    BY DEF Write
  <1>3. UNCHANGED <<pubAll, slot, table, progress, lease, ghost, pc, phase, applied, journal, error, from,
                    at, got, checkpoint, held, tainted>>
    BY DEF Write
  <1>4. c \in Changes /\ log \in Seq(Changes)
    BY <1>1, TransactionsTyped DEF SeedTypes
  <1>5. /\ log' \in Seq(Changes) /\ Len(log') = Len(log) + 1 /\ log'[Len(log) + 1] = c
        /\ \A i \in 1 .. Len(log) : log'[i] = log[i]
        /\ \A n \in 0 .. Len(log) : SourceAt(n)' = SourceAt(n)
    BY <1>2, <1>4, SourceGrows
  <1>6. /\ \A n \in 0 .. Len(log) : n \in 0 .. Len(log')
        /\ \A n \in 1 .. Len(log) + 1 : n \in 1 .. Len(log') + 1
        /\ \A n \in 1 .. Len(log) + 1 : n <= Len(log) => n <= Len(log') /\ n \in 1 .. Len(log)
        /\ \A n \in 1 .. Len(log') :
              /\ n - 1 \in 0 .. Len(log)
              /\ n \in 1 .. Len(log) \/ (n = Len(log) + 1 /\ n - 1 = Len(log))
    BY <1>4, <1>5, SMTT(60)
  <1>7. SeedTypes'
    BY <1>1, <1>3, <1>5 DEF SeedTypes
  <1>8. LogLegal'
    <2> SUFFICES ASSUME NEW i \in 1 .. Len(log') PROVE Legal(SourceAt(i - 1), log[i])'
      BY DEF LogLegal
    <2>1. SourceAt(i - 1)' = SourceAt(i - 1)
      BY <1>5, <1>6
    <2>2. Legal(SourceAt(i - 1), log'[i])
      BY <1>1, <1>2, <1>5, <1>6 DEF LogLegal
    <2> QED
      BY <2>1, <2>2 DEF Legal, HasKey
  <1>9. TableSound'
    BY <1>1, <1>3, <1>5, <1>6 DEF TableSound, Whole, InTarget
  <1>10. GhostSound'
    BY <1>1, <1>3, <1>5, <1>6 DEF GhostSound, InTarget
  <1>11. ASSUME NEW w \in Workflows PROVE WorkerSound(w)'
    <2>1. WorkerSound(w)
      BY <1>1
    <2>2. SeededSound(w)'
      BY <1>3, <1>6, <2>1 DEF WorkerSound, SeededSound
    <2>3. StreamSound(w)'
      <3> SUFFICES ASSUME pc[w] \in Streams PROVE StreamSound(w)'
        BY <1>3 DEF StreamSound
      <3>1. at[w] \in 1 .. Len(log) + 1
        BY <2>1 DEF WorkerSound, StreamSound
      <3>2. at[w] <= Len(log) => at[w] <= Len(log') /\ log'[at[w]] = log[at[w]]
        BY <1>5, <1>6, <3>1
      <3> QED
        BY <1>3, <1>6, <2>1, <3>1, <3>2 DEF WorkerSound, StreamSound, Crosses
    <2> QED
      BY <1>3, <2>1, <2>2, <2>3 DEF WorkerSound
  <1>12. OneWorker'
    BY <1>1, <1>3 DEF OneWorker
  <1> QED
    BY <1>7, <1>8, <1>9, <1>10, <1>11, <1>12 DEF SeedInv

\* The server carries out a commit in doubt, or aborts it.
LEMMA GhostStep ==
    ASSUME SeedInv, GhostEnds
    PROVE  SeedInv'
  <1> USE DEF source, status, locals
  <1>1. SeedTypes /\ OneWorker /\ LogLegal /\ TableSound /\ GhostSound /\ \A w \in Workflows : WorkerSound(w)
    BY DEF SeedInv
  <1>2. /\ UNCHANGED <<log, pubAll, slot, lease, pc, phase, applied, journal, error, from, at, got,
                       checkpoint, tainted>>
        /\ ghost' = NoGhost
        /\ UNCHANGED <<table, held>> \/ (ghost.touches /\ table' = ghost.rows /\ held' = ghost.held)
        /\ \/ UNCHANGED progress
           \/ ghost.lsn # None /\ progress' = [progress EXCEPT ![ghost.by] = ghost.lsn]
    BY DEF GhostEnds
  <1>3. \A w \in Workflows :
            \/ progress'[w] = progress[w]
            \/ /\ progress'[w] = ghost.lsn /\ pc[w] \notin Streams
               /\ pc[w] \in Seeded => ghost.lsn <= from[w]
    BY <1>1, <1>2 DEF SeedTypes, GhostSound
  <1>4. \/ UNCHANGED <<table, held>>
        \/ /\ \A w \in Workflows : pc[w] \notin {"copy", "attach", "lease"} \cup Streams
           /\ ~tainted => held' \in 0 .. Len(log) /\ table' = InTarget(SourceAt(held'))
    BY <1>1, <1>2 DEF GhostSound
  <1>5. SeedTypes'
    <2>1. ghost'.touches \in BOOLEAN /\ ghost'.lsn \in Int /\ ghost'.held \in Int
      BY <1>2, SMTT(60) DEF NoGhost, None
    <2>2. held' \in Int /\ progress' \in [Workflows -> Int]
      BY <1>1, <1>2 DEF SeedTypes
    <2> QED
      BY <1>1, <1>2, <2>1, <2>2 DEF SeedTypes
  <1>6. LogLegal'
    BY <1>1, <1>2, LogFrame
  <1>7. TableSound'
    <2>1. CASE UNCHANGED <<table, held>>
      BY <1>1, <1>2, <2>1, TableFrame
    <2>2. CASE ~tainted => held' \in 0 .. Len(log) /\ table' = InTarget(SourceAt(held'))
      <3>1. SourceAt(held)' = SourceAt(held')
        BY <1>2, SourceSame
      <3> QED
        BY <1>2, <2>2, <3>1 DEF TableSound, Whole
    <2> QED
      BY <1>4, <2>1, <2>2
  <1>8. GhostSound'
    BY <1>2 DEF GhostSound, NoGhost
  <1>9. ASSUME NEW w \in Workflows PROVE WorkerSound(w)'
    <2>1. WorkerSound(w)
      BY <1>1
    <2>2. SeededSound(w)'
      BY <1>2, <1>3, <1>4, <2>1 DEF WorkerSound, SeededSound
    <2>3. StreamSound(w)'
      BY <1>2, <1>3, <1>4, <2>1 DEF WorkerSound, StreamSound, Crosses
    <2> QED
      BY <1>2, <2>1, <2>2, <2>3 DEF WorkerSound
  <1>10. OneWorker'
    BY <1>1, <1>2 DEF OneWorker
  <1> QED
    BY <1>5, <1>6, <1>7, <1>8, <1>9, <1>10 DEF SeedInv

-----------------------------------------------------------------------------
(***************************************************************************)
(* The invariant holds.                                                    *)
(***************************************************************************)
LEMMA SeedInvInit ==
    ASSUME SeedInit
    PROVE  SeedInv
  <1>1. /\ pc = All("finished") /\ phase = All("None") /\ got = All(FALSE)
        /\ log = <<>> /\ held = None /\ ghost = NoGhost
    BY DEF SeedInit
  <1>2. SeedTypes
    <2>1. /\ pc \in [Workflows -> PCs] /\ phase \in [Workflows -> Phases] /\ error \in [Workflows -> Errors]
          /\ lease \in [Workflows -> BOOLEAN] /\ got \in [Workflows -> BOOLEAN]
          /\ pubAll \in BOOLEAN /\ tainted \in BOOLEAN
      BY DEF SeedInit, All, PCs, Phases, Errors
    <2>2. /\ slot \in [Workflows -> Int] /\ from \in [Workflows -> Int] /\ at \in [Workflows -> Int]
          /\ applied \in [Workflows -> Int] /\ journal \in [Workflows -> Int]
          /\ progress \in [Workflows -> Int] /\ checkpoint \in [Workflows -> Int]
      BY SMTT(60) DEF SeedInit, All, None
    <2>3. /\ log \in Seq(Changes) /\ held \in Int
          /\ ghost.touches \in BOOLEAN /\ ghost.lsn \in Int /\ ghost.held \in Int
      BY <1>1, SMTT(60) DEF NoGhost, None
    <2> QED
      BY <2>1, <2>2, <2>3 DEF SeedTypes
  <1>3. \A u \in Workflows : pc[u] = "finished" /\ phase[u] = "None" /\ ~got[u]
    BY <1>1 DEF All
  <1>4. OneWorker /\ LogLegal
    <2>1. OneWorker
      BY <1>3 DEF OneWorker
    <2>2. 1 .. Len(log) = {}
      BY <1>1, SMTT(60)
    <2> QED
      BY <2>1, <2>2 DEF LogLegal
  <1>5. TableSound /\ GhostSound
    BY <1>1 DEF TableSound, Whole, GhostSound, NoGhost
  <1>6. \A u \in Workflows : WorkerSound(u)
    BY <1>3 DEF WorkerSound, SeededSound, StreamSound, Seeded, Streams
  <1> QED
    BY <1>2, <1>4, <1>5, <1>6 DEF SeedInv

LEMMA WorkerSteps ==
    ASSUME SeedInv, NEW w \in Workflows, Worker(w)
    PROVE  SeedInv'
  <1>1. CASE Preflight(w) \/ DropSlot(w) \/ CreateSlot(w) \/ ClearCheckpoint(w)
    <2>1. CASE Preflight(w)
      <3>1. CASE pubAll
        BY <2>1, <3>1, SlotSteps
      <3>2. CASE ~pubAll
        BY <2>1, <3>2, EndActions
      <3> QED
        BY <3>1, <3>2
    <2>2. CASE DropSlot(w)
      BY <2>2, SlotSteps, EndActions
    <2> QED
      BY <1>1, <2>1, <2>2, SlotSteps
  <1>2. CASE Truncate(w)
    BY <1>2, TruncateStep, EndActions
  <1>3. CASE Lease(w)
    BY <1>3, LeaseStep, EndActions
  <1>4. CASE Receive(w)
    BY <1>4, ReceiveStep, EndActions
  <1>5. CASE Copy(w) \/ Attach(w) \/ Omit(w) \/ Commit(w) \/ Durable(w)
    BY <1>5, CopyStep, AttachStep, OmitStep, CommitStep, DurableStep
  <1>6. CASE Report(w) \/ Recheck(w) \/ StopStream(w) \/ Finish(w)
    BY <1>6, ReportStep, EndActions, FinishStep
  <1> QED
    BY <1>1, <1>2, <1>3, <1>4, <1>5, <1>6 DEF Worker

LEMMA SeedInvStep ==
    ASSUME SeedInv, [SeedNext]_seedVars
    PROVE  SeedInv'
  <1>1. CASE UNCHANGED seedVars
    <2>1. UNCHANGED <<log, pubAll, slot, table, progress, lease, ghost, pc, phase, applied, journal, error,
                      from, at, got, checkpoint, held, tainted>>
      BY <1>1 DEF seedVars, source, target, status, locals, history
    <2>2. SeedTypes'
      BY <2>1 DEF SeedInv, SeedTypes
    <2> QED
      BY <2>1, <2>2, IdleStep
  <1>2. CASE Write \/ Alter \/ Crash \/ Server
    BY <1>2, WriteStep, IdleActions, CrashStep, GhostStep DEF Server
  <1>3. ASSUME NEW w \in Workflows, Start(w) \/ Stop(w) \/ Worker(w) \/ Lose(w) PROVE SeedInv'
    BY <1>3, StartStep, IdleActions, WorkerSteps, EndActions
  <1> QED
    BY <1>1, <1>2, <1>3 DEF SeedNext

\* A seeding workflow keeps its invariant through crashes, lost connections,
\* commits in doubt and restarts (run_workflow, the registry's start and stop,
\* the applier's checkpoint).
THEOREM SeedInvHolds == SeedSpec => []SeedInv
  BY SeedInvInit, SeedInvStep, PTL DEF SeedSpec

\* The applier reports a row count mismatch only when the stream left a change
\* out (Applier::apply_txn).
THEOREM DivergencesAreReal == SeedSpec => []DivergenceIsReal
  <1>1. SeedInv => DivergenceIsReal
    BY DEF SeedInv, WorkerSound, DivergenceIsReal
  <1> QED
    BY <1>1, SeedInvHolds, PTL

\* The slot is confirmed, and the position reported, only after the target
\* made it durable (run_workflow's streaming loop).
THEOREM PositionsAreHonest == SeedSpec => []PositionsHonest
  <1>1. SeedInv => PositionsHonest
    BY DEF SeedInv, WorkerSound, StreamSound, Streams, PositionsHonest
  <1> QED
    BY <1>1, SeedInvHolds, PTL

-----------------------------------------------------------------------------
(***************************************************************************)
(* Seeding implements Replica.                                             *)
(***************************************************************************)
Pos == IF Whole THEN held ELSE None
Rows == IF Whole THEN table ELSE {}
Acks == IF Whole THEN Acked ELSE 0

Heard == {journal[w] : w \in {u \in Workflows : phase[u] = "Streaming"}} \cup {0}

MaxOf(S) == CHOOSE j \in S : \A i \in S : i <= j

LEMMA AckedHeard == Acked = MaxOf(Heard)
  BY DEF Acked, Heard, MaxOf

\* The largest of a number and 0.
LEMMA Largest ==
    ASSUME NEW x \in Nat, NEW S, S = {x, 0}
    PROVE  MaxOf(S) = x
  <1>1. x \in S /\ \A i \in S : i <= x
    BY SMTT(60)
  <1>2. \A j \in S : (\A i \in S : i <= j) => j = x
    BY SMTT(60)
  <1> QED
    BY <1>1, <1>2 DEF MaxOf

\* One workflow streams, and the operator reads its journal.
LEMMA AckedStreams ==
    ASSUME SeedInv, NEW w \in Workflows, pc[w] \in Streams
    PROVE  Acked = journal[w] /\ journal[w] \in 0 .. at[w] - 1 /\ journal[w] \in Nat
  <1>1. \A u \in Workflows : phase[u] = "Streaming" <=> u = w
    BY StreamKnows, Others
  <1>2. Heard = {journal[w], 0}
    BY <1>1 DEF Heard
  <1>3. journal[w] \in 0 .. at[w] - 1
    BY StreamKnows DEF StreamSound
  <1>4. journal[w] \in Nat
    BY <1>3, SMTT(60)
  <1> QED
    BY <1>2, <1>3, <1>4, Largest, AckedHeard

\* No workflow that streams has reported a journal.
Silent == \A w \in Workflows : pc[w] \in Streams => journal[w] = 0

Unheard == Acked = 0

LEMMA AckedNothing == SeedInv /\ Silent => Unheard
  <1> SUFFICES ASSUME SeedInv, Silent
               PROVE  Acked = 0
    BY DEF Unheard
  <1>1. \A w \in Workflows : phase[w] = "Streaming" => journal[w] = 0
    BY DEF SeedInv, WorkerSound, Silent
  <1>2. Heard = {0, 0}
    BY <1>1 DEF Heard
  <1>3. 0 \in Nat
    BY SMTT(60)
  <1> QED
    BY <1>2, <1>3, Largest, AckedHeard

AckedIs == \A w \in Workflows : pc[w] \in Streams => Acked = journal[w]

LEMMA AckedStreamsNext == SeedInv' => AckedIs'
  <1>1. SeedInv => AckedIs
    BY AckedStreams DEF AckedIs
  <1> QED
    BY <1>1, PTL

LEMMA AckedNothingNext == SeedInv' /\ Silent' => Unheard'
  BY AckedNothing, PTL

\* What the operator reads depends on the statuses alone.
LEMMA AckedFrame ==
    ASSUME UNCHANGED <<phase, journal>>
    PROVE  Acked' = Acked
  BY DEF Acked

LEMMA SameSource == \A n : R!SourceAt(n) = SourceAt(n)
  BY DEF R!SourceAt, SourceAt

\* A step that leaves the target and the operator's reading of it alone, or
\* makes that reading void.
LEMMA VoidStep ==
    ASSUME UNCHANGED <<log, table, held, tainted>>, Acked' = Acked \/ Acked' = 0
    PROVE  [R!Next]_(R!vars)
  <1>1. Whole' = Whole
    BY DEF Whole
  <1>2. Pos' = Pos /\ Rows' = Rows
    BY <1>1 DEF Pos, Rows
  <1>3. Acks' = Acks \/ Acks' = 0
    BY <1>1 DEF Acks
  <1>4. CASE Acks' = Acks
    BY <1>2, <1>4 DEF R!vars, Pos, Rows, Acks
  <1>5. CASE Acks' = 0
    BY <1>2, <1>5 DEF R!Next, R!Void, Pos, Rows, Acks
  <1> QED
    BY <1>3, <1>4, <1>5

LEMMA ReseedStep ==
    ASSUME UNCHANGED log, ~Whole'
    PROVE  [R!Next]_(R!vars)
  BY DEF R!Next, R!Reseed, None

\* The target comes to hold a longer prefix.
LEMMA AdvanceStep ==
    ASSUME UNCHANGED log, Acks' = Acks, Whole', TableSound', held' >= Pos
    PROVE  [R!Next]_(R!vars)
  <1>1. held' \in 0 .. Len(log) /\ table' = InTarget(SourceAt(held'))
    BY SourceSame DEF TableSound
  <1>2. Pos' = held' /\ Rows' = table'
    BY DEF Pos, Rows
  <1>3. Pos' \in 0 .. Len(log) /\ Pos' >= Pos /\ Rows' = InTarget(R!SourceAt(Pos'))
    BY <1>1, <1>2, SameSource
  <1>4. R!Advance
    BY <1>3 DEF R!Advance, Pos, Rows, Acks
  <1> QED
    BY <1>4 DEF R!Next

LEMMA SilentStep ==
    ASSUME SeedInv', Silent', UNCHANGED <<log, table, held, tainted>>
    PROVE  [R!Next]_(R!vars)
  <1>1. Acked' = 0
    BY AckedNothingNext DEF Unheard
  <1> QED
    BY <1>1, VoidStep

\* The source commits one more transaction.
LEMMA WriteMaps ==
    ASSUME SeedInv, Write
    PROVE  [R!Next]_(R!vars)
  <1>1. PICK c \in Transactions : log' = Append(log, c)
    BY DEF Write
  <1>2. UNCHANGED <<table, held, tainted, phase, journal>>
    BY DEF Write, target, status, history
  <1>3. c \in Changes /\ log \in Seq(Changes)
    BY TransactionsTyped DEF SeedInv, SeedTypes
  <1>4. Len(log') = Len(log) + 1 /\ SubSeq(log', 1, Len(log)) = log
    BY <1>1, <1>3, SMTT(60)
  <1>5. Pos' = Pos /\ Rows' = Rows /\ Acks' = Acks
    BY <1>2, AckedFrame DEF Pos, Rows, Acks, Whole
  <1>6. R!SourceCommits
    BY <1>4, <1>5 DEF R!SourceCommits, Pos, Rows, Acks
  <1> QED
    BY <1>6 DEF R!Next

\* No worker streams after an end or a crash, or before the lease.
LEMMA SilentEnd ==
    ASSUME SeedInv, NEW w \in Workflows, pc[w] # "finished", NEW f, NEW e, End(w, f, e)
    PROVE  Silent'
  <1>1. pc' = [pc EXCEPT ![w] = "ending"] /\ pc \in [Workflows -> PCs]
    BY DEF SeedInv, SeedTypes, End, Goto
  <1>2. \A u \in Workflows : u # w => pc[u] = "finished"
    BY Others
  <1> QED
    BY <1>1, <1>2 DEF Silent, Streams

\* The steps that leave the target's table alone.
LEMMA TableKept ==
    ASSUME NEW w \in Workflows,
           \/ Start(w) \/ Stop(w) \/ Preflight(w) \/ DropSlot(w) \/ CreateSlot(w) \/ ClearCheckpoint(w)
           \/ stop[w] /\ Truncate(w)
           \/ Attach(w) \/ Lease(w) \/ Receive(w) \/ Commit(w) \/ Report(w)
           \/ Recheck(w) \/ StopStream(w) \/ Finish(w) \/ Lose(w) \/ WalsenderGone(w) \/ ApplierGone(w)
    PROVE  UNCHANGED <<log, table, held, tainted>>
  <1> USE DEF source, target, history
  <1>1. CASE Start(w) \/ Stop(w) \/ Preflight(w) \/ DropSlot(w) \/ CreateSlot(w) \/ ClearCheckpoint(w)
    BY <1>1 DEF Start, Stop, Preflight, DropSlot, CreateSlot, ClearCheckpoint
  <1>2. CASE (stop[w] /\ Truncate(w)) \/ Attach(w) \/ Lease(w) \/ Receive(w) \/ Commit(w) \/ Report(w)
    BY <1>2 DEF Truncate, Attach, Lease, Receive, Commit, Report
  <1>3. CASE Recheck(w) \/ StopStream(w) \/ Finish(w) \/ Lose(w) \/ WalsenderGone(w) \/ ApplierGone(w)
    BY <1>3 DEF Recheck, StopStream, Finish, Lose, WalsenderGone, ApplierGone
  <1> QED
    BY <1>1, <1>2, <1>3

\* Steps that change no status, and ends.
LEMMA QuietMaps ==
    ASSUME SeedInv, SeedInv', NEW w \in Workflows,
           \/ Stop(w) \/ Preflight(w) \/ DropSlot(w) \/ ClearCheckpoint(w) \/ (stop[w] /\ Truncate(w))
           \/ Attach(w) \/ (lease[w] /\ Lease(w)) \/ Receive(w) \/ Commit(w)
           \/ Recheck(w) \/ StopStream(w) \/ Finish(w) \/ Lose(w) \/ WalsenderGone(w) \/ ApplierGone(w)
    PROVE  [R!Next]_(R!vars)
  <1> USE DEF status
  <1>1. UNCHANGED <<log, table, held, tainted>>
    BY TableKept
  <1>2. \/ UNCHANGED <<phase, journal>>
        \/ pc[w] # "finished" /\ \E f, e : End(w, f, e)
    <2>1. CASE Stop(w) \/ ClearCheckpoint(w) \/ Attach(w) \/ Finish(w) \/ WalsenderGone(w) \/ ApplierGone(w)
      BY <2>1 DEF Stop, ClearCheckpoint, Attach, Finish, WalsenderGone, ApplierGone
    <2>2. CASE Preflight(w) \/ DropSlot(w) \/ (stop[w] /\ Truncate(w)) \/ (lease[w] /\ Lease(w))
      BY <2>2 DEF Preflight, DropSlot, Truncate, Lease
    <2>3. CASE Receive(w) \/ Commit(w) \/ Recheck(w) \/ StopStream(w) \/ Lose(w)
      BY <2>3 DEF Receive, Commit, Recheck, StopStream, Lose, Streaming, Live
    <2> QED
      BY <2>1, <2>2, <2>3
  <1>3. CASE UNCHANGED <<phase, journal>>
    BY <1>1, <1>3, AckedFrame, VoidStep
  <1>4. CASE pc[w] # "finished" /\ \E f, e : End(w, f, e)
    <2>1. Silent'
      BY <1>4, SilentEnd
    <2> QED
      BY <1>1, <2>1, SilentStep
  <1> QED
    BY <1>2, <1>3, <1>4

\* A crash, a start, and the steps that set a status on the way to streaming.
LEMMA StatusMaps ==
    ASSUME SeedInv, SeedInv',
           Crash \/ \E w \in Workflows : Start(w) \/ CreateSlot(w) \/ (~lease[w] /\ Lease(w))
    PROVE  [R!Next]_(R!vars)
  <1>1. CASE Crash
    <2>1. UNCHANGED <<log, table, held, tainted>> /\ pc' = All("finished")
      BY <1>1 DEF Crash, source, history
    <2>2. Silent'
      BY <2>1 DEF Silent, All, Streams
    <2> QED
      BY <2>1, <2>2, SilentStep
  <1>2. ASSUME NEW w \in Workflows, Start(w) \/ CreateSlot(w) \/ (~lease[w] /\ Lease(w))
        PROVE  [R!Next]_(R!vars)
    <2>1. UNCHANGED <<log, table, held, tainted>>
      BY <1>2, TableKept
    <2>2. pc \in [Workflows -> PCs]
      BY DEF SeedInv, SeedTypes
    <2>3. \A u \in Workflows : u # w => pc[u] = "finished"
      BY <1>2, Others DEF Start, Finished, CreateSlot, Lease
    <2>4. CASE Start(w) \/ CreateSlot(w)
      <3>1. pc' = [pc EXCEPT ![w] = "preflight"] \/ pc' = [pc EXCEPT ![w] = "clear"]
        BY <2>4 DEF Start, CreateSlot, Goto
      <3>2. Silent'
        BY <2>2, <2>3, <3>1 DEF Silent, Streams
      <3> QED
        BY <2>1, <3>2, SilentStep
    <2>5. CASE ~lease[w] /\ Lease(w)
      <3>1. pc' = [pc EXCEPT ![w] = "stream"] /\ journal' = journal /\ pc[w] = "lease"
        BY <2>5 DEF Lease, Goto
      <3>2. journal[w] = 0
        BY <3>1 DEF SeedInv, WorkerSound, SeededSound, Seeded
      <3>3. Silent'
        BY <2>2, <2>3, <3>1, <3>2 DEF Silent, Streams
      <3> QED
        BY <2>1, <3>3, SilentStep
    <2> QED
      BY <1>2, <2>4, <2>5
  <1> QED
    BY <1>1, <1>2

\* A new seed, a transaction left out, and the copy.
LEMMA SeedMaps ==
    ASSUME SeedInv, SeedInv', NEW w \in Workflows, (~stop[w] /\ Truncate(w)) \/ Omit(w) \/ Copy(w)
    PROVE  [R!Next]_(R!vars)
  <1> USE DEF source, status
  <1>1. CASE (~stop[w] /\ Truncate(w)) \/ Omit(w)
    <2>1. UNCHANGED log /\ (held' = None \/ tainted')
      BY <1>1 DEF Truncate, Omit
    <2> QED
      BY <2>1, ReseedStep DEF Whole
  <1>2. CASE Copy(w)
    <2>1. /\ UNCHANGED <<log, tainted, journal, phase>> /\ held' = from[w] /\ pc[w] = "copy"
          /\ pc' = [pc EXCEPT ![w] = "attach"]
      BY <1>2 DEF Copy, Goto
    <2>2. from[w] \in 0 .. Len(log) /\ held = None /\ ~tainted /\ Len(log) \in Nat
      BY <2>1, CopiedSound, SMTT(60) DEF SeedInv, SeedTypes
    <2>3. ~Whole /\ Pos = None
      BY <2>2 DEF Whole, Pos
    <2>4. Whole' /\ held' >= Pos
      BY <2>1, <2>2, <2>3, SMTT(60) DEF Whole, None
    <2>5. Silent'
      <3>1. pc \in [Workflows -> PCs] /\ \A u \in Workflows : u # w => pc[u] = "finished"
        BY <2>1, Others DEF SeedInv, SeedTypes
      <3> QED
        BY <2>1, <3>1 DEF Silent, Streams
    <2>6. Acks = 0 /\ Acks' = 0
      BY <2>3, <2>5, AckedNothingNext DEF Acks, Unheard
    <2>7. TableSound'
      BY DEF SeedInv
    <2> QED
      BY <2>1, <2>4, <2>6, <2>7, AdvanceStep
  <1> QED
    BY <1>1, <1>2

\* A transaction becomes durable, or a commit in doubt does.
LEMMA DurableMaps ==
    ASSUME SeedInv, SeedInv', NEW w \in Workflows, Durable(w)
    PROVE  [R!Next]_(R!vars)
  <1> USE DEF source, status
  <1>1. UNCHANGED <<log, tainted, phase, journal>> /\ held' = at[w] /\ pc[w] = "apply"
    BY DEF Durable
  <1>2. CASE tainted
    BY <1>1, <1>2, ReseedStep DEF Whole
  <1>3. CASE ~tainted
    <2>1. at[w] \in 1 .. Len(log) /\ 0 <= held /\ held < at[w] /\ Len(log) \in Nat /\ held \in Int
      <3>1. Len(log) \in Nat
        BY SMTT(60) DEF SeedInv, SeedTypes
      <3> QED
        BY <1>1, <3>1, AppliedSound DEF SeedInv, SeedTypes
    <2>2. Whole /\ Whole' /\ held' >= held
      BY <1>1, <1>3, <2>1, SMTT(60) DEF Whole, None
    <2>3. held' >= Pos /\ Acks' = Acks
      BY <1>1, <2>2, AckedFrame DEF Pos, Acks
    <2>4. TableSound'
      BY DEF SeedInv
    <2> QED
      BY <1>1, <2>2, <2>3, <2>4, AdvanceStep
  <1> QED
    BY <1>2, <1>3

LEMMA GhostMaps ==
    ASSUME SeedInv, SeedInv', GhostEnds
    PROVE  [R!Next]_(R!vars)
  <1> USE DEF source, status
  <1>1. /\ UNCHANGED <<log, tainted, phase, journal, pc>>
        /\ UNCHANGED <<table, held>> \/ (ghost.touches /\ held' = ghost.held)
    BY DEF GhostEnds
  <1>2. CASE UNCHANGED <<table, held>>
    BY <1>1, <1>2, AckedFrame, VoidStep
  <1>3. CASE ghost.touches /\ held' = ghost.held
    <2>1. CASE tainted
      BY <1>1, <2>1, ReseedStep DEF Whole
    <2>2. CASE ~tainted
      <3>1. /\ \A w \in Workflows : pc[w] \notin Streams
            /\ ghost.held \in 0 .. Len(log) /\ held <= ghost.held
        BY <1>3 DEF SeedInv, GhostSound
      <3>2. Len(log) \in Nat /\ held \in Int
        BY SMTT(60) DEF SeedInv, SeedTypes
      <3>3. Whole' /\ held' >= Pos
        BY <1>1, <1>3, <2>2, <3>1, <3>2, SMTT(60) DEF Whole, Pos, None
      <3>4. Silent /\ Silent'
        BY <1>1, <3>1 DEF Silent
      <3>5. Acks = 0 /\ Acks' = 0
        BY <3>4, AckedNothing, AckedNothingNext DEF Acks, Unheard
      <3>6. TableSound'
        BY DEF SeedInv
      <3> QED
        BY <1>1, <3>3, <3>5, <3>6, AdvanceStep
    <2> QED
      BY <2>1, <2>2
  <1> QED
    BY <1>1, <1>2, <1>3

\* A journal is acknowledged once the target's rows reach it.
LEMMA ReportMaps ==
    ASSUME SeedInv, SeedInv', NEW w \in Workflows, Report(w)
    PROVE  [R!Next]_(R!vars)
  <1>1. UNCHANGED <<log, table, held, tainted>>
    BY TableKept
  <1>2. pc[w] = "report" /\ pc[w] \in Streams /\ phase' = phase
    BY DEF Report, Streams
  <1>3. CASE ~IsJournal(log[at[w]])
    <2>1. journal' = journal
      BY <1>3 DEF Report
    <2> QED
      BY <1>1, <1>2, <2>1, AckedFrame, VoidStep
  <1>4. CASE ~Whole
    BY <1>1, <1>4, ReseedStep DEF Whole
  <1>5. CASE IsJournal(log[at[w]]) /\ Whole
    <2>1. /\ journal' = [journal EXCEPT ![w] = at[w]] /\ pc' = [pc EXCEPT ![w] = "stream"]
          /\ pc \in [Workflows -> PCs] /\ journal \in [Workflows -> Int]
      BY <1>5 DEF Report, Goto, SeedInv, SeedTypes
    <2>2. journal'[w] = at[w] /\ pc'[w] \in Streams
      BY <2>1 DEF Streams
    <2>3. Acked = journal[w] /\ journal[w] \in 0 .. at[w] - 1 /\ journal[w] \in Nat
      BY <1>2, AckedStreams
    <2>4. Acked' = at[w]
      BY <2>2, AckedStreamsNext DEF AckedIs
    <2>5. /\ StreamSound(w) /\ Len(log) \in Nat /\ at[w] \in Nat
      BY <1>2, StreamKnows
    <2>6. at[w] \in 1 .. Len(log) + 1 /\ at[w] <= Len(log) /\ held = at[w]
      BY <1>2, <2>5 DEF StreamSound
    <2>7. at[w] \in 1 .. Len(log) /\ at[w] > Acked /\ at[w] <= held
      BY <2>3, <2>5, <2>6, SMTT(60)
    <2>8. /\ Pos = held /\ Pos' = Pos /\ Rows' = Rows /\ Acks = Acked /\ Acks' = at[w]
      BY <1>1, <1>5, <2>4 DEF Pos, Rows, Acks, Whole
    <2>9. Acks' \in {j \in 1 .. Len(log) : j > Acks /\ j <= Pos /\ IsJournal(log[j])}
      BY <1>5, <2>7, <2>8
    <2>10. R!Acknowledge
      BY <1>1, <2>8, <2>9 DEF R!Acknowledge, Pos, Rows, Acks
    <2> QED
      BY <2>10 DEF R!Next
  <1> QED
    BY <1>3, <1>4, <1>5

LEMMA WorkerMaps ==
    ASSUME SeedInv, SeedInv', NEW w \in Workflows, Start(w) \/ Stop(w) \/ Worker(w) \/ Lose(w)
    PROVE  [R!Next]_(R!vars)
  <1>1. CASE Start(w) \/ Stop(w) \/ Lose(w)
    BY <1>1, StatusMaps, QuietMaps
  <1>2. CASE Preflight(w) \/ DropSlot(w) \/ CreateSlot(w) \/ ClearCheckpoint(w) \/ Attach(w)
    BY <1>2, StatusMaps, QuietMaps
  <1>3. CASE Truncate(w)
    BY <1>3, SeedMaps, QuietMaps
  <1>4. CASE Lease(w)
    BY <1>4, StatusMaps, QuietMaps
  <1>5. CASE Copy(w) \/ Omit(w) \/ Durable(w) \/ Report(w)
    BY <1>5, SeedMaps, DurableMaps, ReportMaps
  <1>6. CASE Receive(w) \/ Commit(w) \/ Recheck(w) \/ StopStream(w) \/ Finish(w)
    BY <1>6, QuietMaps
  <1> QED
    BY <1>1, <1>2, <1>3, <1>4, <1>5, <1>6 DEF Worker

\* Every step of seeding is a step of Replica, or none.
LEMMA StepMaps ==
    ASSUME SeedInv, SeedInv', [SeedNext]_seedVars
    PROVE  [R!Next]_(R!vars)
  <1>1. CASE UNCHANGED seedVars \/ Alter
    <2>1. UNCHANGED <<log, table, held, tainted, phase, journal>>
      BY <1>1 DEF seedVars, Alter, source, target, status, history
    <2> QED
      BY <2>1, AckedFrame, VoidStep
  <1>2. CASE Write \/ Crash \/ Server
    BY <1>2, WriteMaps, StatusMaps, GhostMaps, QuietMaps DEF Server
  <1>3. CASE \E w \in Workflows : Start(w) \/ Stop(w) \/ Worker(w) \/ Lose(w)
    BY <1>3, WorkerMaps
  <1> QED
    BY <1>1, <1>2, <1>3 DEF SeedNext

\* Seeding keeps what it promises the cutover: through crashes, lost
\* connections, commits in doubt and new seeds, the target holds its range of
\* a growing prefix of the source's transactions, or is being seeded, and a
\* journal is reported only once that prefix reaches it (run_workflow and
\* Applier, with the operator's reading of WorkflowStatus).
THEOREM SeedingReplicates == SeedSpec => Replicates
  <1>1. SeedInit => R!Init
    BY DEF SeedInit, R!Init, Whole, None
  <1>2. SeedInv /\ SeedInv' /\ [SeedNext]_seedVars => [R!Next]_(R!vars)
    BY StepMaps
  <1> QED
    BY <1>1, <1>2, SeedInvHolds, PTL DEF SeedSpec, Replicates, R!Spec
=============================================================================
