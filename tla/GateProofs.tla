----------------------------- MODULE GateProofs -----------------------------
(***************************************************************************)
(* The gate engine keeps its promises for any number of sessions, gates,   *)
(* limits, deadlines and generations.                                      *)
(***************************************************************************)
EXTENDS Gate, FiniteSetTheorems, WellFoundedInduction, TLAPS

\* Leaves are for Zenon, unless they name another prover.
USE ZenonT(60)

-----------------------------------------------------------------------------
(***************************************************************************)
(* Sequences defined turn by turn.                                         *)
(***************************************************************************)

\* A set of numbers that is not empty has a least one.
LEMMA LeastOne ==
    ASSUME NEW T, T \subseteq Nat, T # {}
    PROVE  \E n \in T : \A m \in T : n <= m
  <1> DEFINE less == OpToRel(<, Nat)
  <1>1. IsWellFoundedOn(less, Nat)
    BY NatLessThanWellFounded
  <1>2. \A m, n \in Nat : m < n => <<m, n>> \in less
    BY SMTT(60) DEF OpToRel
  <1> HIDE DEF less
  <1>3. PICK n \in T : \A m \in T : ~(<<m, n>> \in less)
    BY <1>1, WFMin
  <1>4. n \in Nat /\ \A m \in T : m \in Nat
    OBVIOUS
  <1>5. \A m \in T : ~(m < n)
    BY <1>2, <1>3, <1>4
  <1> QED
    BY <1>4, <1>5, SMTT(60)

LEMMA MinIsLeast ==
    ASSUME NEW T, T \subseteq Nat, T # {}
    PROVE  Min(T) \in T
  BY LeastOne DEF Min

LEMMA ListOf ==
    ASSUME NEW X, NEW n \in Nat, NEW f \in [1 .. n -> X]
    PROVE  f \in Seq(X) /\ Len(f) = n
  BY SMTT(60)

\* One entry is retained, or not.
Keep(r, e, S) == IF e.s \in S THEN Append(r, e) ELSE r

\* f lists what is retained of the first entries of q.
Retains(f, q, S, n) == f = [i \in 0 .. n |-> IF i = 0 THEN <<>> ELSE Keep(f[i - 1], q[i], S)]

RetainsOn(f, q, S, n) == f[0] = <<>> /\ \A i \in 1 .. n : f[i] = Keep(f[i - 1], q[i], S)

LEMMA RetainsEntries ==
    ASSUME NEW q, NEW S, NEW n \in Nat, NEW f, Retains(f, q, S, n)
    PROVE  RetainsOn(f, q, S, n)
  <1>1. \A i \in 0 .. n : f[i] = IF i = 0 THEN <<>> ELSE Keep(f[i - 1], q[i], S)
    BY DEF Retains
  <1>2. 0 \in 0 .. n /\ \A i \in 1 .. n : i \in 0 .. n /\ i # 0
    BY SMTT(60)
  <1> QED
    BY <1>1, <1>2 DEF RetainsOn

LEMMA RetainsExists ==
    ASSUME NEW q, NEW S, NEW m \in Nat
    PROVE  \E f : Retains(f, q, S, m)
  <1> DEFINE T == {n \in Nat : ~ \E f : Retains(f, q, S, n)}
  <1> SUFFICES ASSUME T # {} PROVE FALSE
    OBVIOUS
  <1>1. PICK n \in T : \A k \in T : n <= k
    <2>1. T \subseteq Nat
      OBVIOUS
    <2> HIDE DEF T
    <2> QED
      BY <2>1, LeastOne
  <1>2. n \in Nat /\ ~ \E f : Retains(f, q, S, n)
    OBVIOUS
  <1>3. n # 0
    <2> DEFINE f == [i \in 0 .. 0 |-> <<>>]
    <2>1. f = [i \in 0 .. 0 |-> IF i = 0 THEN <<>> ELSE Keep(f[i - 1], q[i], S)]
      BY SMTT(60)
    <2>2. Retains(f, q, S, 0)
      BY <2>1 DEF Retains
    <2> QED
      BY <1>2, <2>2
  <1>4. PICK f : Retains(f, q, S, n - 1)
    <2>1. n - 1 \in Nat /\ ~(n <= n - 1)
      BY <1>2, <1>3, SMTT(60)
    <2> QED
      BY <1>1, <2>1
  <1> DEFINE last == Keep(f[n - 1], q[n], S)
             g == [i \in 0 .. n |-> IF i = n THEN last ELSE f[i]]
  <1>5. n - 1 \in Nat /\ f[0] = <<>> /\ \A i \in 1 .. n - 1 : f[i] = Keep(f[i - 1], q[i], S)
    <2>1. n - 1 \in Nat
      BY <1>2, <1>3, SMTT(60)
    <2>2. RetainsOn(f, q, S, n - 1)
      BY <1>4, <2>1, RetainsEntries
    <2> QED
      BY <2>1, <2>2 DEF RetainsOn
  <1>6. /\ g[0] = f[0] /\ g[n] = last /\ g[n - 1] = f[n - 1]
        /\ \A i \in 1 .. n - 1 : g[i] = f[i] /\ g[i - 1] = f[i - 1]
    <2> HIDE DEF last
    <2> QED
      BY <1>2, <1>3, SMTT(60)
  <1>7. \A i \in 0 .. n : g[i] = IF i = 0 THEN <<>> ELSE Keep(g[i - 1], q[i], S)
    <2> SUFFICES ASSUME NEW i \in 0 .. n
                 PROVE  g[i] = IF i = 0 THEN <<>> ELSE Keep(g[i - 1], q[i], S)
      OBVIOUS
    <2> HIDE DEF g
    <2>1. i = 0 \/ i = n \/ i \in 1 .. n - 1
      BY <1>2, SMTT(60)
    <2> QED
      BY <1>3, <1>5, <1>6, <2>1
  <1>8. Retains(g, q, S, n)
    <2>1. g = [i \in 0 .. n |-> g[i]]
      OBVIOUS
    <2> HIDE DEF g
    <2> QED
      BY <1>7, <2>1 DEF Retains
  <1> QED
    BY <1>2, <1>8

LEMMA RetainList ==
    ASSUME NEW q, NEW S, Len(q) \in Nat
    PROVE  \E f : /\ Retain(q, S) = f[Len(q)] /\ f[0] = <<>>
                 /\ \A i \in 1 .. Len(q) : f[i] = Keep(f[i - 1], q[i], S)
  <1> DEFINE f == CHOOSE f : f = [i \in 0 .. Len(q) |-> IF i = 0 THEN <<>> ELSE Keep(f[i - 1], q[i], S)]
  <1>1. Retain(q, S) = f[Len(q)]
    BY DEF Retain, Keep
  <1>2. \E h : h = [i \in 0 .. Len(q) |-> IF i = 0 THEN <<>> ELSE Keep(h[i - 1], q[i], S)]
    <2>1. PICK h : Retains(h, q, S, Len(q))
      BY RetainsExists
    <2> QED
      BY <2>1 DEF Retains
  <1>3. Retains(f, q, S, Len(q))
    BY <1>2 DEF Retains
  <1> HIDE DEF f
  <1>4. f[0] = <<>> /\ \A i \in 1 .. Len(q) : f[i] = Keep(f[i - 1], q[i], S)
    <2>1. RetainsOn(f, q, S, Len(q))
      BY <1>3, RetainsEntries
    <2> QED
      BY <2>1 DEF RetainsOn
  <1> QED
    BY <1>1, <1>4

\* f lists the states of the loop that drains gates.
Loops(f, gs, ids, n) == f = [i \in 0 .. n |-> IF i = 0 THEN [gates |-> gs, idx |-> 1] ELSE Turn(f[i - 1], ids)]

LoopsOn(f, gs, ids, n) == f[0] = [gates |-> gs, idx |-> 1] /\ \A i \in 1 .. n : f[i] = Turn(f[i - 1], ids)

LEMMA LoopsEntries ==
    ASSUME NEW gs, NEW ids, NEW n \in Nat, NEW f, Loops(f, gs, ids, n)
    PROVE  LoopsOn(f, gs, ids, n)
  <1>1. \A i \in 0 .. n : f[i] = IF i = 0 THEN [gates |-> gs, idx |-> 1] ELSE Turn(f[i - 1], ids)
    BY DEF Loops
  <1>2. 0 \in 0 .. n /\ \A i \in 1 .. n : i \in 0 .. n /\ i # 0
    BY SMTT(60)
  <1> QED
    BY <1>1, <1>2 DEF LoopsOn

LEMMA LoopsExists ==
    ASSUME NEW gs, NEW ids, NEW m \in Nat
    PROVE  \E f : Loops(f, gs, ids, m)
  <1> DEFINE T == {n \in Nat : ~ \E f : Loops(f, gs, ids, n)}
  <1> SUFFICES ASSUME T # {} PROVE FALSE
    OBVIOUS
  <1>1. PICK n \in T : \A k \in T : n <= k
    <2>1. T \subseteq Nat
      OBVIOUS
    <2> HIDE DEF T
    <2> QED
      BY <2>1, LeastOne
  <1>2. n \in Nat /\ ~ \E f : Loops(f, gs, ids, n)
    OBVIOUS
  <1>3. n # 0
    <2> DEFINE f == [i \in 0 .. 0 |-> [gates |-> gs, idx |-> 1]]
    <2>1. f = [i \in 0 .. 0 |-> IF i = 0 THEN [gates |-> gs, idx |-> 1] ELSE Turn(f[i - 1], ids)]
      BY SMTT(60)
    <2>2. Loops(f, gs, ids, 0)
      BY <2>1 DEF Loops
    <2> QED
      BY <1>2, <2>2
  <1>4. PICK f : Loops(f, gs, ids, n - 1)
    <2>1. n - 1 \in Nat /\ ~(n <= n - 1)
      BY <1>2, <1>3, SMTT(60)
    <2> QED
      BY <1>1, <2>1
  <1> DEFINE last == Turn(f[n - 1], ids)
             g == [i \in 0 .. n |-> IF i = n THEN last ELSE f[i]]
  <1>5. n - 1 \in Nat /\ f[0] = [gates |-> gs, idx |-> 1] /\ \A i \in 1 .. n - 1 : f[i] = Turn(f[i - 1], ids)
    <2>1. n - 1 \in Nat
      BY <1>2, <1>3, SMTT(60)
    <2>2. LoopsOn(f, gs, ids, n - 1)
      BY <1>4, <2>1, LoopsEntries
    <2> QED
      BY <2>1, <2>2 DEF LoopsOn
  <1>6. /\ g[0] = f[0] /\ g[n] = last /\ g[n - 1] = f[n - 1]
        /\ \A i \in 1 .. n - 1 : g[i] = f[i] /\ g[i - 1] = f[i - 1]
    <2> HIDE DEF last
    <2> QED
      BY <1>2, <1>3, SMTT(60)
  <1>7. \A i \in 0 .. n : g[i] = IF i = 0 THEN [gates |-> gs, idx |-> 1] ELSE Turn(g[i - 1], ids)
    <2> SUFFICES ASSUME NEW i \in 0 .. n
                 PROVE  g[i] = IF i = 0 THEN [gates |-> gs, idx |-> 1] ELSE Turn(g[i - 1], ids)
      OBVIOUS
    <2> HIDE DEF g
    <2>1. i = 0 \/ i = n \/ i \in 1 .. n - 1
      BY <1>2, SMTT(60)
    <2> QED
      BY <1>3, <1>5, <1>6, <2>1
  <1>8. Loops(g, gs, ids, n)
    <2>1. g = [i \in 0 .. n |-> g[i]]
      OBVIOUS
    <2> HIDE DEF g
    <2> QED
      BY <1>7, <2>1 DEF Loops
  <1> QED
    BY <1>2, <1>8

LEMMA SweepLoop ==
    ASSUME NEW gs, NEW ids, Len(gs) \in Nat
    PROVE  \E f : /\ Sweep(gs, ids) = f[Len(gs)].gates /\ f[0] = [gates |-> gs, idx |-> 1]
                 /\ \A i \in 1 .. Len(gs) : f[i] = Turn(f[i - 1], ids)
  <1> DEFINE f == CHOOSE f : f = [i \in 0 .. Len(gs) |-> IF i = 0 THEN [gates |-> gs, idx |-> 1]
                                                        ELSE Turn(f[i - 1], ids)]
  <1>1. Sweep(gs, ids) = f[Len(gs)].gates
    BY DEF Sweep
  <1>2. \E h : h = [i \in 0 .. Len(gs) |-> IF i = 0 THEN [gates |-> gs, idx |-> 1] ELSE Turn(h[i - 1], ids)]
    <2>1. PICK h : Loops(h, gs, ids, Len(gs))
      BY LoopsExists
    <2> QED
      BY <2>1 DEF Loops
  <1>3. Loops(f, gs, ids, Len(gs))
    BY <1>2 DEF Loops
  <1> HIDE DEF f
  <1>4. f[0] = [gates |-> gs, idx |-> 1] /\ \A i \in 1 .. Len(gs) : f[i] = Turn(f[i - 1], ids)
    <2>1. LoopsOn(f, gs, ids, Len(gs))
      BY <1>3, LoopsEntries
    <2> QED
      BY <2>1 DEF LoopsOn
  <1> QED
    BY <1>1, <1>4

\* e maps the positions of r to the positions of the entries it retains of the
\* first n of q, in order.
Embeds(e, r, q, S, n) ==
    /\ e \in [1 .. Len(r) -> 1 .. n]
    /\ \A k \in 1 .. Len(r) : r[k] = q[e[k]] /\ q[e[k]].s \in S
    /\ \A k, l \in 1 .. Len(r) : k < l => e[k] < e[l]
    /\ \A m \in 1 .. n : q[m].s \in S => \E k \in 1 .. Len(r) : e[k] = m

LEMMA EmbedsNothing ==
    ASSUME NEW q, NEW S
    PROVE  Embeds([k \in 1 .. 0 |-> 0], <<>>, q, S, 0)
  BY SMTT(60) DEF Embeds

LEMMA EmbedsSkip ==
    ASSUME NEW X, NEW q \in Seq(X), NEW S, NEW n \in 1 .. Len(q), NEW r \in Seq(X), NEW e,
           Embeds(e, r, q, S, n - 1), q[n].s \notin S
    PROVE  Embeds(e, r, q, S, n)
  BY SMTT(60) DEF Embeds

LEMMA EmbedsAppend ==
    ASSUME NEW X, NEW q \in Seq(X), NEW S, NEW n \in 1 .. Len(q), NEW r \in Seq(X), NEW e,
           Embeds(e, r, q, S, n - 1), q[n].s \in S
    PROVE  \E d : Embeds(d, Append(r, q[n]), q, S, n)
  <1> DEFINE a == Append(r, q[n])
             d == [k \in 1 .. Len(r) + 1 |-> IF k = Len(r) + 1 THEN n ELSE e[k]]
  <1>1. /\ Len(a) = Len(r) + 1 /\ a[Len(r) + 1] = q[n] /\ \A k \in 1 .. Len(r) : a[k] = r[k]
        /\ Len(r) \in Nat /\ Len(q) \in Nat
    BY SMTT(60)
  <1> HIDE DEF a
  <1>2. /\ e \in [1 .. Len(r) -> 1 .. n - 1]
        /\ \A k \in 1 .. Len(r) : r[k] = q[e[k]] /\ q[e[k]].s \in S
        /\ \A k, l \in 1 .. Len(r) : k < l => e[k] < e[l]
        /\ \A m \in 1 .. n - 1 : q[m].s \in S => \E k \in 1 .. Len(r) : e[k] = m
    BY DEF Embeds
  <1>3. d \in [1 .. Len(a) -> 1 .. n] /\ d[Len(r) + 1] = n /\ \A k \in 1 .. Len(r) : d[k] = e[k]
    BY <1>1, <1>2, SMTT(60)
  <1> HIDE DEF d
  <1>4. \A k \in 1 .. Len(a) : a[k] = q[d[k]] /\ q[d[k]].s \in S
    <2>1. \A k \in 1 .. Len(a) : k = Len(r) + 1 \/ k \in 1 .. Len(r)
      BY <1>1, SMTT(60)
    <2> QED
      BY <1>1, <1>2, <1>3, <2>1
  <1>5. ASSUME NEW k \in 1 .. Len(a), NEW l \in 1 .. Len(a), k < l PROVE d[k] < d[l]
    <2>4. Len(a) = Len(r) + 1 /\ Len(r) \in Nat
      BY <1>1
    <2>1. k \in 1 .. Len(r) /\ (l = Len(r) + 1 \/ l \in 1 .. Len(r))
      BY <1>5, <2>4, SMTT(60)
    <2>2. e[k] \in 1 .. n - 1 /\ d[k] = e[k]
      BY <1>2, <1>3, <2>1
    <2>3. e[k] < n
      BY <2>2, SMTT(60)
    <2> QED
      BY <1>2, <1>3, <1>5, <2>1, <2>2, <2>3
  <1>6. \A m \in 1 .. n : q[m].s \in S => \E k \in 1 .. Len(a) : d[k] = m
    <2>1. \A m \in 1 .. n : m = n \/ m \in 1 .. n - 1
      BY SMTT(60)
    <2>2. Len(r) + 1 \in 1 .. Len(a) /\ \A k \in 1 .. Len(r) : k \in 1 .. Len(a)
      BY <1>1, SMTT(60)
    <2> QED
      BY <1>2, <1>3, <2>1, <2>2
  <1>7. Embeds(d, a, q, S, n)
    BY <1>3, <1>4, <1>5, <1>6 DEF Embeds
  <1> QED
    BY <1>7 DEF a

\* Retain keeps the entries of S, and their order.
LEMMA RetainEmbeds ==
    ASSUME NEW X, NEW q \in Seq(X), NEW S
    PROVE  Retain(q, S) \in Seq(X) /\ \E e : Embeds(e, Retain(q, S), q, S, Len(q))
  <1>1. Len(q) \in Nat
    BY SMTT(60)
  <1>2. PICK f : /\ Retain(q, S) = f[Len(q)] /\ f[0] = <<>>
                 /\ \A i \in 1 .. Len(q) : f[i] = Keep(f[i - 1], q[i], S)
    BY <1>1, RetainList
  <1> DEFINE Good(n) == f[n] \in Seq(X) /\ \E e : Embeds(e, f[n], q, S, n)
             T == {n \in 0 .. Len(q) : ~Good(n)}
  <1>3. Good(0)
    <2>1. f[0] \in Seq(X)
      BY <1>2, SMTT(60)
    <2> QED
      BY <1>2, <2>1, EmbedsNothing
  <1>4. ASSUME NEW n \in 1 .. Len(q), Good(n - 1) PROVE Good(n)
    <2>1. PICK e : Embeds(e, f[n - 1], q, S, n - 1)
      BY <1>4
    <2>2. f[n] = Keep(f[n - 1], q[n], S) /\ f[n - 1] \in Seq(X)
      BY <1>2, <1>4
    <2>3. CASE q[n].s \in S
      <3>1. f[n] = Append(f[n - 1], q[n])
        BY <2>2, <2>3 DEF Keep
      <3>2. f[n] \in Seq(X)
        BY <2>2, <3>1, SMTT(60)
      <3> QED
        BY <2>1, <2>2, <2>3, <3>1, <3>2, EmbedsAppend
    <2>4. CASE q[n].s \notin S
      <3>1. f[n] = f[n - 1]
        BY <2>2, <2>4 DEF Keep
      <3> QED
        BY <2>1, <2>2, <2>4, <3>1, EmbedsSkip
    <2> QED
      BY <2>3, <2>4
  <1> HIDE DEF Good
  <1>5. T = {}
    <2> SUFFICES ASSUME T # {} PROVE FALSE
      OBVIOUS
    <2>1. PICK n \in T : \A m \in T : n <= m
      <3>1. T \subseteq Nat
        BY SMTT(60)
      <3> HIDE DEF T
      <3> QED
        BY <3>1, LeastOne
    <2>2. n \in 0 .. Len(q) /\ ~Good(n)
      OBVIOUS
    <2>3. n \in 1 .. Len(q) /\ n - 1 \in 0 .. Len(q) /\ ~(n <= n - 1)
      <3>1. n # 0
        BY <1>3, <2>2
      <3> QED
        BY <1>1, <2>2, <3>1, SMTT(60)
    <2>4. Good(n - 1)
      BY <2>1, <2>3
    <2> QED
      BY <1>4, <2>2, <2>3, <2>4
  <1>6. Len(q) \in 0 .. Len(q)
    BY <1>1, SMTT(60)
  <1>7. Good(Len(q))
    BY <1>5, <1>6
  <1> QED
    BY <1>2, <1>7 DEF Good

-----------------------------------------------------------------------------
(***************************************************************************)
(* Gates in order: what a list of gates may look like, and how its entries *)
(* are counted.                                                            *)
(***************************************************************************)

Entry == [s : Sessions, enqueued : Nat]

GateRecord == [spec : Specs, parked : Seq(Entry), openRequested : BOOLEAN]

\* The sessions of a queue.
Queued(q) == {q[i].s : i \in DOMAIN q}

\* A session waits in a queue once.
Once(q) == \A i, j \in DOMAIN q : q[i].s = q[j].s => i = j

Sane(gs) ==
    /\ gs \in Seq(GateRecord)
    /\ \A i \in DOMAIN gs : Once(gs[i].parked)
    /\ \A i, j \in DOMAIN gs :
         i # j => /\ gs[i].spec.id # gs[j].spec.id
                  /\ Parked(gs[i]) \cap Parked(gs[j]) = {}

AllParked(gs) == UNION {Parked(gs[i]) : i \in DOMAIN gs}

LEMMA QueueTyped ==
    ASSUME NEW q \in Seq(Entry)
    PROVE  /\ Len(q) \in Nat /\ DOMAIN q = 1 .. Len(q) /\ Queued(q) \subseteq Sessions
           /\ \A i \in DOMAIN q : q[i] \in Entry /\ q[i].s \in Sessions /\ q[i].enqueued \in Nat
           /\ IsFiniteSet(Queued(q))
  <1>1. Len(q) \in Nat /\ DOMAIN q = 1 .. Len(q) /\ \A i \in DOMAIN q : q[i] \in Entry
    BY SMTT(60)
  <1>2. \A x \in Entry : x.s \in Sessions /\ x.enqueued \in Nat
    BY DEF Entry
  <1>3. Queued(q) \subseteq Sessions
    BY <1>1, <1>2 DEF Queued
  <1>4. IsFiniteSet(Sessions)
    BY GateAssumption
  <1>5. IsFiniteSet(Queued(q))
    BY <1>3, <1>4, FS_Subset
  <1> QED
    BY <1>1, <1>2, <1>3, <1>5

\* Sets that a function pairs off have the same size.
LEMMA SameSize ==
    ASSUME NEW S, NEW T, IsFiniteSet(T), NEW f \in [S -> T],
           \A a, b \in S : f[a] = f[b] => a = b, \A t \in T : \E s \in S : f[s] = t
    PROVE  Cardinality(S) = Cardinality(T)
  <1>1. DOMAIN f = S
    OBVIOUS
  <1>2. IsInjective(f)
    BY <1>1 DEF IsInjective
  <1>3. f \in Injection(S, T)
    BY <1>2 DEF Injection
  <1>4. f \in Surjection(S, T)
    BY DEF Surjection
  <1> QED
    BY <1>3, <1>4, FS_Injection

\* A queue without repetition is as long as its sessions are many.
LEMMA QueueCount ==
    ASSUME NEW q \in Seq(Entry), Once(q)
    PROVE  Cardinality(Queued(q)) = Len(q)
  <1> DEFINE f == [i \in 1 .. Len(q) |-> q[i].s]
  <1>1. Len(q) \in Nat /\ DOMAIN q = 1 .. Len(q) /\ IsFiniteSet(Queued(q))
    BY QueueTyped
  <1>2. f \in [1 .. Len(q) -> Queued(q)]
    BY <1>1 DEF Queued
  <1>3. \A i \in 1 .. Len(q) : f[i] = q[i].s
    OBVIOUS
  <1> HIDE DEF f
  <1>4. \A i, j \in 1 .. Len(q) : f[i] = f[j] => i = j
    <2>1. \A i, j \in 1 .. Len(q) : q[i].s = q[j].s => i = j
      BY <1>1 DEF Once
    <2> QED
      BY <1>3, <2>1
  <1>7. \A s \in Queued(q) : \E i \in 1 .. Len(q) : f[i] = s
    BY <1>1, <1>3 DEF Queued
  <1>5. Cardinality(1 .. Len(q)) = Cardinality(Queued(q))
    BY <1>1, <1>2, <1>4, <1>7, SameSize
  <1>6. Cardinality(1 .. Len(q)) = Len(q)
    <2>1. Cardinality(1 .. Len(q)) = IF 1 > Len(q) THEN 0 ELSE Len(q) - 1 + 1
      <3>1. 1 \in Int /\ Len(q) \in Int
        BY <1>1, SMTT(60)
      <3> QED
        BY <3>1, FS_Interval
    <2> QED
      BY <1>1, <2>1, SMTT(60)
  <1> QED
    BY <1>5, <1>6

LEMMA GateTyped ==
    ASSUME NEW gs \in Seq(GateRecord)
    PROVE  /\ Len(gs) \in Nat /\ DOMAIN gs = 1 .. Len(gs)
           /\ \A i \in DOMAIN gs : /\ gs[i] \in GateRecord /\ gs[i].spec \in Specs
                                   /\ gs[i].parked \in Seq(Entry) /\ gs[i].openRequested \in BOOLEAN
                                   /\ Parked(gs[i]) = Queued(gs[i].parked)
                                   /\ Parked(gs[i]) \subseteq Sessions
           /\ AllParked(gs) \subseteq Sessions /\ IsFiniteSet(AllParked(gs))
  <1>1. Len(gs) \in Nat /\ DOMAIN gs = 1 .. Len(gs) /\ \A i \in DOMAIN gs : gs[i] \in GateRecord
    BY SMTT(60)
  <1>2. \A g \in GateRecord : g.spec \in Specs /\ g.parked \in Seq(Entry) /\ g.openRequested \in BOOLEAN
    BY DEF GateRecord
  <1>3. \A g : Parked(g) = Queued(g.parked)
    BY DEF Parked, Queued
  <1>4. \A i \in DOMAIN gs : Parked(gs[i]) \subseteq Sessions
    BY <1>1, <1>2, <1>3, QueueTyped
  <1>5. AllParked(gs) \subseteq Sessions
    BY <1>4 DEF AllParked
  <1>6. IsFiniteSet(AllParked(gs))
    BY <1>5, GateAssumption, FS_Subset
  <1> QED
    BY <1>1, <1>2, <1>3, <1>4, <1>5, <1>6

\* Entries are counted by their sessions.
LEMMA TotalCount ==
    ASSUME NEW gs, Sane(gs)
    PROVE  TotalParked(gs) = Cardinality(AllParked(gs))
  <1>1. gs \in Seq(GateRecord) /\ IsFiniteSet(AllParked(gs))
    BY GateTyped DEF Sane
  <1> DEFINE f == [e \in Entries(gs) |-> gs[e[1]].parked[e[2]].s]
  <1>2. \A e \in Entries(gs) : /\ e = <<e[1], e[2]>>
                               /\ e[1] \in DOMAIN gs /\ e[2] \in DOMAIN gs[e[1]].parked
    BY SMTT(60) DEF Entries
  <1>3. \A i \in DOMAIN gs : \A j \in DOMAIN gs[i].parked : <<i, j>> \in Entries(gs)
    BY SMTT(60) DEF Entries
  <1>4. ASSUME NEW e \in Entries(gs)
        PROVE  /\ gs[e[1]].parked[e[2]].s \in Parked(gs[e[1]])
               /\ gs[e[1]].parked[e[2]].s \in AllParked(gs)
    <2>1. e[1] \in DOMAIN gs /\ e[2] \in DOMAIN gs[e[1]].parked
      BY <1>2
    <2>2. gs[e[1]].parked[e[2]].s \in Parked(gs[e[1]])
      BY <2>1 DEF Parked
    <2> QED
      BY <2>1, <2>2 DEF AllParked
  <1>5. f \in [Entries(gs) -> AllParked(gs)]
    BY <1>4
  <1>6. ASSUME NEW d \in Entries(gs), NEW e \in Entries(gs), f[d] = f[e] PROVE d = e
    <2>1. gs[d[1]].parked[d[2]].s = gs[e[1]].parked[e[2]].s
      BY <1>6
    <2>2. d[1] = e[1]
      <3>1. \A i, j \in DOMAIN gs : i # j => Parked(gs[i]) \cap Parked(gs[j]) = {}
        BY DEF Sane
      <3> QED
        BY <1>2, <1>4, <2>1, <3>1
    <2>3. d[2] = e[2]
      <3>1. Once(gs[d[1]].parked)
        BY <1>2 DEF Sane
      <3> QED
        BY <1>2, <2>1, <2>2, <3>1 DEF Once
    <2> QED
      BY <1>2, <2>2, <2>3
  <1>7. ASSUME NEW s \in AllParked(gs) PROVE \E e \in Entries(gs) : f[e] = s
    <2>1. PICK i \in DOMAIN gs : s \in Parked(gs[i])
      BY <1>7 DEF AllParked
    <2>2. PICK j \in DOMAIN gs[i].parked : s = gs[i].parked[j].s
      BY <2>1 DEF Parked
    <2>3. <<i, j>> \in Entries(gs)
      BY <1>3
    <2>4. f[<<i, j>>] = s
      BY <2>2, <2>3
    <2> QED
      BY <2>3, <2>4
  <1> HIDE DEF f
  <1> QED
    BY <1>1, <1>5, <1>6, <1>7, SameSize DEF TotalParked

\* What Retain leaves of a queue without repetition.
LEMMA RetainQueue ==
    ASSUME NEW q \in Seq(Entry), Once(q), NEW S
    PROVE  /\ Retain(q, S) \in Seq(Entry) /\ Once(Retain(q, S))
           /\ Queued(Retain(q, S)) = Queued(q) \cap S
           /\ Len(Retain(q, S)) <= Len(q)
  <1> DEFINE r == Retain(q, S)
  <1>1. r \in Seq(Entry)
    BY RetainEmbeds
  <1>2. PICK e : Embeds(e, r, q, S, Len(q))
    BY RetainEmbeds
  <1>3. /\ Len(q) \in Nat /\ DOMAIN q = 1 .. Len(q) /\ IsFiniteSet(Queued(q))
        /\ Len(r) \in Nat /\ DOMAIN r = 1 .. Len(r) /\ IsFiniteSet(Queued(r))
    BY <1>1, QueueTyped
  <1> HIDE DEF r
  <1>4. /\ e \in [1 .. Len(r) -> 1 .. Len(q)]
        /\ \A k \in 1 .. Len(r) : r[k] = q[e[k]] /\ q[e[k]].s \in S
        /\ \A k, l \in 1 .. Len(r) : k < l => e[k] < e[l]
        /\ \A m \in 1 .. Len(q) : q[m].s \in S => \E k \in 1 .. Len(r) : e[k] = m
    BY <1>2 DEF Embeds
  <1>5. ASSUME NEW k \in 1 .. Len(r), NEW l \in 1 .. Len(r), r[k].s = r[l].s PROVE k = l
    <2>1. e[k] = e[l]
      <3>1. e[k] \in DOMAIN q /\ e[l] \in DOMAIN q /\ q[e[k]].s = q[e[l]].s
        BY <1>3, <1>4, <1>5
      <3> QED
        BY <3>1 DEF Once
    <2>2. ~(e[k] < e[l]) /\ ~(e[l] < e[k])
      <3>1. e[k] \in Nat
        BY <1>3, <1>4, SMTT(60)
      <3> QED
        BY <2>1, <3>1, SMTT(60)
    <2>3. ~(k < l) /\ ~(l < k)
      BY <1>4, <2>2
    <2> QED
      BY <2>3, <1>3, SMTT(60)
  <1>6. Once(r)
    BY <1>3, <1>5 DEF Once
  <1>7. Queued(r) = Queued(q) \cap S
    <2>1. ASSUME NEW s \in Queued(r) PROVE s \in Queued(q) \cap S
      <3>1. PICK k \in 1 .. Len(r) : s = r[k].s
        BY <1>3 DEF Queued
      <3>2. e[k] \in DOMAIN q /\ s = q[e[k]].s /\ s \in S
        BY <1>3, <1>4, <3>1
      <3> QED
        BY <3>2 DEF Queued
    <2>2. ASSUME NEW s \in Queued(q) \cap S PROVE s \in Queued(r)
      <3>1. PICK m \in 1 .. Len(q) : s = q[m].s
        BY <1>3 DEF Queued
      <3>2. PICK k \in 1 .. Len(r) : e[k] = m
        BY <1>4, <3>1
      <3>3. r[k].s = s
        BY <1>4, <3>1, <3>2
      <3> QED
        BY <1>3, <3>3 DEF Queued
    <2> QED
      BY <2>1, <2>2
  <1>8. Len(r) <= Len(q)
    <2>1. Cardinality(Queued(r)) <= Cardinality(Queued(q))
      <3>1. Queued(r) \in SUBSET Queued(q)
        BY <1>7
      <3> QED
        BY <1>3, <3>1, FS_Subset
    <2> QED
      BY <1>1, <1>6, <2>1, QueueCount
  <1> QED
    BY <1>1, <1>6, <1>7, <1>8 DEF r

\* Retain keeps the order.
InOrder(r, x, y) == \E a, b \in DOMAIN r : a < b /\ r[a] = x /\ r[b] = y

LEMMA RetainOrder ==
    ASSUME NEW q \in Seq(Entry), NEW S, NEW j \in DOMAIN q, NEW k \in DOMAIN q, j < k,
           q[j].s \in S, q[k].s \in S
    PROVE  InOrder(Retain(q, S), q[j], q[k])
  <1> DEFINE r == Retain(q, S)
  <1>1. r \in Seq(Entry)
    BY RetainEmbeds
  <1>2. PICK e : Embeds(e, r, q, S, Len(q))
    BY RetainEmbeds
  <1>3. /\ Len(q) \in Nat /\ DOMAIN q = 1 .. Len(q)
        /\ Len(r) \in Nat /\ DOMAIN r = 1 .. Len(r)
    BY <1>1, QueueTyped
  <1> HIDE DEF r
  <1>4. /\ \A i \in 1 .. Len(r) : r[i] = q[e[i]]
        /\ \A i, l \in 1 .. Len(r) : i < l => e[i] < e[l]
        /\ \A m \in 1 .. Len(q) : q[m].s \in S => \E i \in 1 .. Len(r) : e[i] = m
    BY <1>2 DEF Embeds
  <1>5. PICK a \in 1 .. Len(r) : e[a] = j
    BY <1>3, <1>4
  <1>6. PICK b \in 1 .. Len(r) : e[b] = k
    BY <1>3, <1>4
  <1>7. a < b
    <2>1. a # b /\ ~(e[b] < e[a])
      BY <1>3, <1>5, <1>6, SMTT(60)
    <2>2. ~(b < a)
      BY <1>4, <2>1
    <2> QED
      BY <1>3, <2>1, <2>2, SMTT(60)
  <1> QED
    BY <1>3, <1>4, <1>5, <1>6, <1>7 DEF r, InOrder

-----------------------------------------------------------------------------
(***************************************************************************)
(* The loop that drains gates in place by swap_remove.                     *)
(***************************************************************************)

LEMMA SwapRemoved ==
    ASSUME NEW X, NEW gs \in Seq(X), NEW i \in 1 .. Len(gs)
    PROVE  /\ SwapRemove(gs, i) \in Seq(X) /\ Len(SwapRemove(gs, i)) = Len(gs) - 1
           /\ \A k \in 1 .. Len(gs) - 1 : k # i => SwapRemove(gs, i)[k] = gs[k]
           /\ i <= Len(gs) - 1 => SwapRemove(gs, i)[i] = gs[Len(gs)]
  <1> DEFINE hs == SwapRemove(gs, i)
             n == Len(gs) - 1
  <1>1. n \in Nat /\ i \in Nat /\ gs[Len(gs)] \in X /\ \A k \in 1 .. n : gs[k] \in X
    BY SMTT(60)
  <1>2. hs = [k \in 1 .. n |-> IF k = i THEN gs[Len(gs)] ELSE gs[k]]
    BY DEF SwapRemove
  <1> HIDE DEF hs
  <1>3. i <= n => i \in 1 .. n
    BY SMTT(60)
  <1> HIDE DEF n
  <1>4. hs \in [1 .. n -> X]
    BY <1>1, <1>2
  <1>5. hs \in Seq(X) /\ Len(hs) = n
    BY <1>1, <1>4, ListOf
  <1>6. (\A k \in 1 .. n : k # i => hs[k] = gs[k]) /\ (i <= n => hs[i] = gs[Len(gs)])
    BY <1>2, <1>3
  <1> QED
    BY <1>5, <1>6 DEF hs, n

\* After n turns the gates before the index are not to be drained, and every
\* gate that is not to be drained is still there, once.
Kept(hs, gs, ids) ==
    /\ hs \in Seq(GateRecord)
    /\ \A i \in 1 .. Len(hs) : \E j \in 1 .. Len(gs) : hs[i] = gs[j]
    /\ \A j \in 1 .. Len(gs) :
         gs[j].spec.id \notin ids => \E i \in 1 .. Len(hs) : hs[i] = gs[j]
    /\ \A i, j \in 1 .. Len(hs) : i # j => hs[i].spec.id # hs[j].spec.id

Swept(l, gs, ids, n) ==
    /\ Kept(l.gates, gs, ids) /\ l.idx \in Nat \ {0}
    /\ Len(l.gates) + n + 1 = Len(gs) + l.idx
    /\ \A i \in 1 .. Len(l.gates) : i < l.idx => l.gates[i].spec.id \notin ids

LEMMA SweptPass ==
    ASSUME NEW gs \in Seq(GateRecord), NEW ids, NEW n \in 1 .. Len(gs), NEW l, Swept(l, gs, ids, n - 1),
           l.gates[l.idx].spec.id \notin ids
    PROVE  Swept(Turn(l, ids), gs, ids, n)
  <1> DEFINE m == Turn(l, ids)
  <1>1. m.gates = l.gates /\ m.idx = l.idx + 1
    BY DEF Turn
  <1>2. Len(gs) \in Nat /\ Len(l.gates) \in Nat /\ l.idx \in Nat \ {0}
    BY GateTyped DEF Swept, Kept
  <1> HIDE DEF m
  <1>3. m.idx \in Nat \ {0} /\ Len(m.gates) + n + 1 = Len(gs) + m.idx
    <2>1. Len(l.gates) + (n - 1) + 1 = Len(gs) + l.idx
      BY DEF Swept
    <2> QED
      <3> DEFINE a == Len(l.gates)
                 d == l.idx
      <3>1. a \in Nat /\ d \in Nat /\ a + (n - 1) + 1 = Len(gs) + d /\ n \in Nat
        BY <1>2, <2>1, SMTT(60)
      <3> HIDE DEF a, d
      <3>2. d + 1 \in Nat \ {0} /\ a + n + 1 = Len(gs) + (d + 1)
        BY <1>2, <3>1, SMTT(60)
      <3> QED
        BY <1>1, <3>2 DEF a, d
  <1>4. \A i \in 1 .. Len(m.gates) : i < m.idx => m.gates[i].spec.id \notin ids
    <2>1. \A i, d \in Nat : i < d + 1 => (i < d \/ i = d)
      BY SMTT(60)
    <2>2. \A i \in 1 .. Len(l.gates) : i \in Nat
      BY SMTT(60)
    <2>3. \A i \in 1 .. Len(l.gates) : i < l.idx + 1 => i < l.idx \/ i = l.idx
      BY <1>2, <2>1, <2>2
    <2> QED
      BY <1>1, <2>3 DEF Swept
  <1>5. Swept(m, gs, ids, n)
    BY <1>1, <1>3, <1>4 DEF Swept
  <1> QED
    BY <1>5 DEF m

LEMMA SweptRemove ==
    ASSUME NEW gs \in Seq(GateRecord), NEW ids, NEW n \in 1 .. Len(gs), NEW l, Swept(l, gs, ids, n - 1),
           l.gates[l.idx].spec.id \in ids
    PROVE  Swept(Turn(l, ids), gs, ids, n)
  <1> DEFINE m == Turn(l, ids)
             N == Len(l.gates)
  <1>1. m.gates = SwapRemove(l.gates, l.idx) /\ m.idx = l.idx
    BY DEF Turn
  <1>2. Len(gs) \in Nat /\ N \in Nat /\ l.idx \in Nat \ {0} /\ l.gates \in Seq(GateRecord)
    BY GateTyped DEF Swept, Kept
  <1>3. N + (n - 1) + 1 = Len(gs) + l.idx
    BY DEF Swept
  <1>4. l.idx \in 1 .. N /\ N \in 1 .. N
    BY <1>2, <1>3, SMTT(60)
  <1>5. /\ m.gates \in Seq(GateRecord) /\ Len(m.gates) = N - 1
        /\ \A k \in 1 .. N - 1 : k # l.idx => m.gates[k] = l.gates[k]
        /\ l.idx <= N - 1 => m.gates[l.idx] = l.gates[N]
    <2> DEFINE hs == l.gates
               i == l.idx
    <2>1. hs \in Seq(GateRecord) /\ i \in 1 .. Len(hs)
      BY <1>2, <1>4
    <2> HIDE DEF hs, i, m
    <2>2. /\ SwapRemove(hs, i) \in Seq(GateRecord) /\ Len(SwapRemove(hs, i)) = Len(hs) - 1
          /\ \A k \in 1 .. Len(hs) - 1 : k # i => SwapRemove(hs, i)[k] = hs[k]
          /\ i <= Len(hs) - 1 => SwapRemove(hs, i)[i] = hs[Len(hs)]
      BY <2>1, SwapRemoved
    <2> QED
      BY <1>1, <2>2 DEF hs, i
  <1> HIDE DEF m, N
  <1>6. m.idx \in Nat \ {0} /\ Len(m.gates) + n + 1 = Len(gs) + m.idx
    BY <1>1, <1>2, <1>3, <1>5, SMTT(60)
  \* Where the entries of m.gates come from.
  <1>7. \A k \in 1 .. N - 1 : /\ k \in 1 .. N /\ k # N
                              /\ k = l.idx => l.idx <= N - 1
    BY <1>2, SMTT(60)
  <1>8. \A k \in 1 .. N - 1 : \/ k # l.idx /\ m.gates[k] = l.gates[k]
                              \/ k = l.idx /\ m.gates[k] = l.gates[N]
    BY <1>5, <1>7
  <1>9. \A i \in 1 .. N : \E j \in 1 .. Len(gs) : l.gates[i] = gs[j]
    BY DEF Swept, Kept, N
  <1>10. \A i, j \in 1 .. N : i # j => l.gates[i].spec.id # l.gates[j].spec.id
    BY DEF Swept, Kept, N
  <1>11. \A i \in 1 .. Len(m.gates) : \E j \in 1 .. Len(gs) : m.gates[i] = gs[j]
    BY <1>4, <1>5, <1>7, <1>8, <1>9
  <1>12. \A i, j \in 1 .. Len(m.gates) : i # j => m.gates[i].spec.id # m.gates[j].spec.id
    <2> SUFFICES ASSUME NEW i \in 1 .. N - 1, NEW j \in 1 .. N - 1, i # j
                 PROVE  m.gates[i].spec.id # m.gates[j].spec.id
      BY <1>5
    <2>1. i \in 1 .. N /\ j \in 1 .. N /\ i # N /\ j # N
      BY <1>7
    <2>2. CASE i = l.idx
      <3>1. m.gates[i] = l.gates[N] /\ m.gates[j] = l.gates[j]
        BY <1>8, <2>2
      <3> QED
        BY <1>4, <1>10, <2>1, <3>1
    <2>3. CASE i # l.idx /\ j = l.idx
      <3>1. m.gates[i] = l.gates[i] /\ m.gates[j] = l.gates[N]
        BY <1>8, <2>3
      <3> QED
        BY <1>4, <1>10, <2>1, <3>1
    <2>4. CASE i # l.idx /\ j # l.idx
      <3>1. m.gates[i] = l.gates[i] /\ m.gates[j] = l.gates[j]
        BY <1>8, <2>4
      <3> QED
        BY <1>10, <2>1, <3>1
    <2> QED
      BY <2>2, <2>3, <2>4
  <1>13. ASSUME NEW j \in 1 .. Len(gs), gs[j].spec.id \notin ids
         PROVE  \E i \in 1 .. Len(m.gates) : m.gates[i] = gs[j]
    <2>1. PICK i \in 1 .. N : l.gates[i] = gs[j]
      BY <1>13 DEF Swept, Kept, N
    <2>2. i # l.idx
      BY <1>13, <2>1
    <2>3. CASE i = N
      <3>1. l.idx <= N - 1 /\ l.idx \in 1 .. N - 1
        BY <1>2, <1>4, <2>2, <2>3, SMTT(60)
      <3> QED
        BY <1>5, <2>1, <2>3, <3>1
    <2>4. CASE i # N
      <3>1. i \in 1 .. N - 1
        BY <1>2, <2>4, SMTT(60)
      <3> QED
        BY <1>5, <2>1, <2>2, <3>1
    <2> QED
      BY <2>3, <2>4
  <1>14. ASSUME NEW i \in 1 .. Len(m.gates), i < m.idx PROVE m.gates[i].spec.id \notin ids
    <2>1. i \in 1 .. N - 1 /\ i \in 1 .. N /\ i # l.idx
      BY <1>1, <1>2, <1>5, <1>14, SMTT(60)
    <2>2. m.gates[i] = l.gates[i]
      BY <1>5, <2>1
    <2> QED
      BY <1>1, <1>14, <2>1, <2>2 DEF Swept, N
  <1>15. Kept(m.gates, gs, ids)
    BY <1>5, <1>11, <1>12, <1>13 DEF Kept
  <1>16. Swept(m, gs, ids, n)
    BY <1>6, <1>14, <1>15 DEF Swept
  <1> QED
    BY <1>16 DEF m

\* What a sweep leaves: the gates it was not to drain, each once.
Leaves(hs, gs, ids) ==
    /\ hs \in Seq(GateRecord)
    /\ \A i \in DOMAIN hs : hs[i].spec.id \notin ids /\ \E j \in DOMAIN gs : hs[i] = gs[j]
    /\ \A j \in DOMAIN gs : gs[j].spec.id \notin ids => \E i \in DOMAIN hs : hs[i] = gs[j]
    /\ \A i, j \in DOMAIN hs : i # j => hs[i].spec.id # hs[j].spec.id

LEMMA SweepLeaves ==
    ASSUME NEW gs, Sane(gs), NEW ids
    PROVE  Leaves(Sweep(gs, ids), gs, ids)
  <1>1. gs \in Seq(GateRecord) /\ Len(gs) \in Nat /\ DOMAIN gs = 1 .. Len(gs)
    BY GateTyped DEF Sane
  <1>2. PICK f : /\ Sweep(gs, ids) = f[Len(gs)].gates /\ f[0] = [gates |-> gs, idx |-> 1]
                 /\ \A i \in 1 .. Len(gs) : f[i] = Turn(f[i - 1], ids)
    BY <1>1, SweepLoop
  <1> DEFINE Good(n) == Swept(f[n], gs, ids, n)
             T == {n \in 0 .. Len(gs) : ~Good(n)}
  <1>3. Good(0)
    <2>1. f[0].gates = gs /\ f[0].idx = 1
      BY <1>2, SMTT(60)
    <2>2. f[0].idx \in Nat \ {0} /\ Len(f[0].gates) + 0 + 1 = Len(gs) + f[0].idx
      BY <1>1, <2>1, SMTT(60)
    <2>3. \A i \in 1 .. Len(gs) : ~(i < 1)
      BY <1>1, SMTT(60)
    <2>4. \A i, j \in 1 .. Len(gs) : i # j => gs[i].spec.id # gs[j].spec.id
      BY <1>1 DEF Sane
    <2>5. Kept(gs, gs, ids)
      BY <1>1, <2>4 DEF Kept
    <2> QED
      BY <2>1, <2>2, <2>3, <2>5 DEF Swept
  <1>4. ASSUME NEW n \in 1 .. Len(gs), Good(n - 1) PROVE Good(n)
    <2>1. f[n] = Turn(f[n - 1], ids)
      BY <1>2
    <2> QED
      BY <1>1, <1>4, <2>1, SweptPass, SweptRemove
  <1> HIDE DEF Good
  <1>5. T = {}
    <2> SUFFICES ASSUME T # {} PROVE FALSE
      OBVIOUS
    <2>1. PICK n \in T : \A m \in T : n <= m
      <3>1. T \subseteq Nat
        BY SMTT(60)
      <3> HIDE DEF T
      <3> QED
        BY <3>1, LeastOne
    <2>2. n \in 0 .. Len(gs) /\ ~Good(n)
      OBVIOUS
    <2>3. n \in 1 .. Len(gs) /\ n - 1 \in 0 .. Len(gs) /\ ~(n <= n - 1)
      <3>1. n # 0
        BY <1>3, <2>2
      <3> QED
        BY <1>1, <2>2, <3>1, SMTT(60)
    <2>4. Good(n - 1)
      BY <2>1, <2>3
    <2> QED
      BY <1>4, <2>2, <2>3, <2>4
  <1>6. Len(gs) \in 0 .. Len(gs)
    BY <1>1, SMTT(60)
  <1>7. Swept(f[Len(gs)], gs, ids, Len(gs))
    BY <1>5, <1>6 DEF Good
  <1> DEFINE l == f[Len(gs)]
  <1>8. l.gates \in Seq(GateRecord) /\ Len(l.gates) \in Nat /\ DOMAIN l.gates = 1 .. Len(l.gates)
    BY <1>7, GateTyped DEF Swept, Kept
  <1>9. \A i \in 1 .. Len(l.gates) : i < l.idx
    <2>1. l.idx \in Nat /\ Len(l.gates) + Len(gs) + 1 = Len(gs) + l.idx
      BY <1>7 DEF Swept
    <2> QED
      BY <1>1, <1>8, <2>1, SMTT(60)
  <1> HIDE DEF l
  <1>10. Swept(l, gs, ids, Len(gs)) /\ Sweep(gs, ids) = l.gates
    BY <1>2, <1>7 DEF l
  <1> DEFINE hs == Sweep(gs, ids)
  <1>11. Kept(hs, gs, ids) /\ DOMAIN hs = 1 .. Len(hs)
    BY <1>8, <1>10 DEF Swept
  <1>12. \A i \in 1 .. Len(hs) : hs[i].spec.id \notin ids
    BY <1>9, <1>10 DEF Swept
  <1> HIDE DEF hs
  <1>13. \A i \in DOMAIN hs : hs[i].spec.id \notin ids /\ \E j \in DOMAIN gs : hs[i] = gs[j]
    BY <1>1, <1>11, <1>12 DEF Kept
  <1>14. \A j \in DOMAIN gs : gs[j].spec.id \notin ids => \E i \in DOMAIN hs : hs[i] = gs[j]
    BY <1>1, <1>11 DEF Kept
  <1>15. hs \in Seq(GateRecord) /\ \A i, j \in DOMAIN hs : i # j => hs[i].spec.id # hs[j].spec.id
    BY <1>11 DEF Kept
  <1> QED
    BY <1>13, <1>14, <1>15 DEF hs, Leaves

-----------------------------------------------------------------------------
(***************************************************************************)
(* How the operations change a list of gates that is in order.             *)
(***************************************************************************)

\* The limits, in terms of sessions.
Bounded(gs) ==
    /\ \A i \in DOMAIN gs : Len(gs[i].parked) <= MaxSessions
    /\ Cardinality(AllParked(gs)) <= MaxTotal

LEMMA FewerBounded ==
    ASSUME NEW gs \in Seq(GateRecord), NEW hs \in Seq(GateRecord), Bounded(gs),
           AllParked(hs) \subseteq AllParked(gs), \A i \in DOMAIN hs : Len(hs[i].parked) <= MaxSessions
    PROVE  Bounded(hs)
  <1>1. IsFiniteSet(AllParked(gs)) /\ IsFiniteSet(AllParked(hs))
    BY GateTyped
  <1>2. Cardinality(AllParked(hs)) <= Cardinality(AllParked(gs))
    BY <1>1, FS_Subset
  <1>3. Cardinality(AllParked(hs)) \in Nat /\ Cardinality(AllParked(gs)) \in Nat /\ MaxTotal \in Nat
    BY <1>1, FS_CardinalityType, GateAssumption
  <1>4. Cardinality(AllParked(gs)) <= MaxTotal
    BY DEF Bounded
  <1>5. Cardinality(AllParked(hs)) <= MaxTotal
    BY <1>2, <1>3, <1>4, SMTT(60)
  <1> QED
    BY <1>5 DEF Bounded

\* Every gate keeps the sessions of a set.
Thinned(gs, S) == [i \in DOMAIN gs |-> [gs[i] EXCEPT !.parked = Retain(@, S[i])]]

ThinnedTo(h, g, S) ==
    /\ h \in GateRecord /\ h.spec = g.spec /\ h.openRequested = g.openRequested
    /\ h.parked = Retain(g.parked, S) /\ Once(h.parked)
    /\ Parked(h) = Parked(g) \cap S /\ Len(h.parked) <= Len(g.parked)

LEMMA ThinnedGate ==
    ASSUME NEW gs, Sane(gs), NEW S, NEW i \in DOMAIN gs
    PROVE  ThinnedTo(Thinned(gs, S)[i], gs[i], S[i])
  <1> DEFINE g == gs[i]
             h == Thinned(gs, S)[i]
  <1>1. g \in GateRecord /\ g.parked \in Seq(Entry) /\ Once(g.parked)
    BY GateTyped DEF Sane
  <1>2. h = [g EXCEPT !.parked = Retain(@, S[i])]
    BY DEF Thinned
  <1> HIDE DEF g, h
  <1> DEFINE q == g.parked
             r == Retain(q, S[i])
  <1>3. /\ r \in Seq(Entry) /\ Once(r) /\ Queued(r) = Queued(q) \cap S[i] /\ Len(r) <= Len(q)
    BY <1>1, RetainQueue
  <1>4. h = [g EXCEPT !.parked = r]
    BY <1>2
  <1> HIDE DEF r
  <1>5. h \in GateRecord /\ h.spec = g.spec /\ h.openRequested = g.openRequested /\ h.parked = r
    BY <1>1, <1>3, <1>4 DEF GateRecord
  <1>6. Parked(h) = Queued(r) /\ Parked(g) = Queued(q)
    BY <1>5 DEF Parked, Queued
  <1> QED
    BY <1>3, <1>5, <1>6 DEF g, h, r, ThinnedTo

LEMMA ThinnedSane ==
    ASSUME NEW gs, Sane(gs), NEW S
    PROVE  /\ Sane(Thinned(gs, S)) /\ Len(Thinned(gs, S)) = Len(gs) /\ DOMAIN Thinned(gs, S) = DOMAIN gs
           /\ AllParked(Thinned(gs, S)) \subseteq AllParked(gs)
           /\ Bounded(gs) => Bounded(Thinned(gs, S))
  <1> DEFINE hs == Thinned(gs, S)
  <1>1. gs \in Seq(GateRecord) /\ Len(gs) \in Nat /\ DOMAIN gs = 1 .. Len(gs)
    BY GateTyped DEF Sane
  <1>2. \A i \in DOMAIN gs : /\ hs[i] \in GateRecord /\ hs[i].spec = gs[i].spec /\ Once(hs[i].parked)
                             /\ Parked(hs[i]) \subseteq Parked(gs[i])
                             /\ Len(hs[i].parked) <= Len(gs[i].parked)
    <2>1. \A i \in DOMAIN gs : ThinnedTo(hs[i], gs[i], S[i])
      BY ThinnedGate
    <2> QED
      BY <2>1 DEF ThinnedTo
  <1>3. hs \in [1 .. Len(gs) -> GateRecord]
    BY <1>1, <1>2 DEF Thinned
  <1> HIDE DEF hs
  <1>4. hs \in Seq(GateRecord) /\ Len(hs) = Len(gs) /\ DOMAIN hs = DOMAIN gs
    BY <1>1, <1>3, ListOf
  <1>5. ASSUME NEW i \in DOMAIN gs, NEW j \in DOMAIN gs, i # j
        PROVE  hs[i].spec.id # hs[j].spec.id /\ Parked(hs[i]) \cap Parked(hs[j]) = {}
    <2>1. gs[i].spec.id # gs[j].spec.id /\ Parked(gs[i]) \cap Parked(gs[j]) = {}
      BY <1>5 DEF Sane
    <2> QED
      BY <1>2, <2>1
  <1>6. Sane(hs)
    BY <1>2, <1>4, <1>5 DEF Sane
  <1>7. AllParked(hs) \subseteq AllParked(gs)
    BY <1>2, <1>4 DEF AllParked
  <1>8. ASSUME Bounded(gs) PROVE Bounded(hs)
    <2>1. \A i \in DOMAIN hs : Len(hs[i].parked) <= MaxSessions
      <3>1. \A i \in DOMAIN gs : /\ Len(gs[i].parked) \in Nat /\ Len(hs[i].parked) \in Nat
                                 /\ Len(gs[i].parked) <= MaxSessions
        BY <1>1, <1>4, <1>8, GateTyped, QueueTyped DEF Bounded
      <3>2. MaxSessions \in Nat /\ \A a, b, c \in Nat : a <= b /\ b <= c => a <= c
        BY GateAssumption, SMTT(60)
      <3> QED
        BY <1>2, <1>4, <3>1, <3>2
    <2> QED
      BY <1>1, <1>4, <1>7, <1>8, <2>1, FewerBounded
  <1> QED
    BY <1>4, <1>6, <1>7, <1>8 DEF hs

LEMMA SweepSane ==
    ASSUME NEW gs, Sane(gs), NEW ids
    PROVE  /\ Sane(Sweep(gs, ids))
           /\ \A s : s \in AllParked(Sweep(gs, ids)) <=>
                    \E j \in DOMAIN gs : s \in Parked(gs[j]) /\ gs[j].spec.id \notin ids
           /\ Bounded(gs) => Bounded(Sweep(gs, ids))
  <1> DEFINE hs == Sweep(gs, ids)
  <1>1. gs \in Seq(GateRecord)
    BY DEF Sane
  <1>2. /\ hs \in Seq(GateRecord)
        /\ \A i \in DOMAIN hs : hs[i].spec.id \notin ids /\ \E j \in DOMAIN gs : hs[i] = gs[j]
        /\ \A j \in DOMAIN gs : gs[j].spec.id \notin ids => \E i \in DOMAIN hs : hs[i] = gs[j]
        /\ \A i, j \in DOMAIN hs : i # j => hs[i].spec.id # hs[j].spec.id
    <2>1. Leaves(hs, gs, ids)
      BY SweepLeaves
    <2> HIDE DEF hs
    <2> QED
      BY <2>1 DEF Leaves
  <1> HIDE DEF hs
  <1>3. \A i \in DOMAIN hs : Once(hs[i].parked)
    BY <1>2 DEF Sane
  <1>4. ASSUME NEW i \in DOMAIN hs, NEW j \in DOMAIN hs, i # j PROVE Parked(hs[i]) \cap Parked(hs[j]) = {}
    <2>1. PICK k \in DOMAIN gs : hs[i] = gs[k]
      BY <1>2
    <2>2. PICK l \in DOMAIN gs : hs[j] = gs[l]
      BY <1>2
    <2>3. k # l
      <3>1. hs[i].spec.id # hs[j].spec.id
        BY <1>2, <1>4
      <3> QED
        BY <2>1, <2>2, <3>1
    <2> QED
      BY <2>1, <2>2, <2>3 DEF Sane
  <1>5. Sane(hs)
    BY <1>2, <1>3, <1>4 DEF Sane
  <1>6. ASSUME NEW s
        PROVE  s \in AllParked(hs) <=> \E j \in DOMAIN gs : s \in Parked(gs[j]) /\ gs[j].spec.id \notin ids
    <2>1. s \in AllParked(hs) <=> \E i \in DOMAIN hs : s \in Parked(hs[i])
      BY DEF AllParked
    <2> QED
      BY <1>2, <2>1
  <1>7. ASSUME Bounded(gs) PROVE Bounded(hs)
    <2>1. AllParked(hs) \subseteq AllParked(gs)
      BY <1>6 DEF AllParked
    <2>2. \A i \in DOMAIN hs : Len(hs[i].parked) <= MaxSessions
      BY <1>2, <1>7 DEF Bounded
    <2> QED
      BY <1>1, <1>2, <1>7, <2>1, <2>2, FewerBounded
  <1> QED
    BY <1>5, <1>6, <1>7 DEF hs

\* A gate that is asserted again, or opened early, keeps its queue and its id.
LEMMA Relabelled ==
    ASSUME NEW gs, Sane(gs), NEW hs \in [DOMAIN gs -> GateRecord],
           \A i \in DOMAIN gs : hs[i].parked = gs[i].parked /\ hs[i].spec.id = gs[i].spec.id
    PROVE  /\ Sane(hs) /\ AllParked(hs) = AllParked(gs)
           /\ Bounded(gs) => Bounded(hs)
  <1>1. gs \in Seq(GateRecord) /\ Len(gs) \in Nat /\ DOMAIN gs = 1 .. Len(gs)
    BY GateTyped DEF Sane
  <1>2. hs \in Seq(GateRecord) /\ DOMAIN hs = DOMAIN gs
    BY <1>1, ListOf
  <1>3. \A i \in DOMAIN gs : Parked(hs[i]) = Parked(gs[i])
    BY DEF Parked
  <1>4. \A i \in DOMAIN gs : Once(hs[i].parked)
    BY DEF Sane
  <1>5. \A i, j \in DOMAIN gs : i # j => /\ hs[i].spec.id # hs[j].spec.id
                                         /\ Parked(hs[i]) \cap Parked(hs[j]) = {}
    BY <1>3 DEF Sane
  <1>6. Sane(hs)
    BY <1>2, <1>4, <1>5 DEF Sane
  <1>7. AllParked(hs) = AllParked(gs)
    BY <1>2, <1>3 DEF AllParked
  <1>8. Bounded(gs) => Bounded(hs)
    BY <1>2, <1>7 DEF Bounded
  <1> QED
    BY <1>6, <1>7, <1>8

\* A new gate starts with an empty queue.
LEMMA AppendSane ==
    ASSUME NEW gs, Sane(gs), NEW spec \in Specs, \A i \in DOMAIN gs : gs[i].spec.id # spec.id,
           NEW g, g = [spec |-> spec, parked |-> <<>>, openRequested |-> FALSE]
    PROVE  /\ Sane(Append(gs, g)) /\ AllParked(Append(gs, g)) = AllParked(gs)
           /\ Bounded(gs) => Bounded(Append(gs, g))
  <1> DEFINE hs == Append(gs, g)
             n == Len(gs) + 1
  <1>1. gs \in Seq(GateRecord) /\ Len(gs) \in Nat /\ DOMAIN gs = 1 .. Len(gs)
    BY GateTyped DEF Sane
  <1>2. g.spec = spec /\ g.parked = <<>> /\ g.openRequested = FALSE
    OBVIOUS
  <1>3. <<>> \in Seq(Entry) /\ Len(<<>>) = 0 /\ DOMAIN <<>> = {}
    BY SMTT(60)
  <1>4. g \in GateRecord
    BY <1>3 DEF GateRecord
  <1>5. Parked(g) = {} /\ Once(g.parked)
    BY <1>2, <1>3 DEF Parked, Once
  <1>6. /\ hs \in Seq(GateRecord) /\ DOMAIN hs = DOMAIN gs \cup {n} /\ n \notin DOMAIN gs
        /\ hs[n] = g /\ \A i \in DOMAIN gs : hs[i] = gs[i]
    BY <1>1, <1>4, SMTT(60)
  <1> HIDE DEF hs, n
  <1>7. \A i \in DOMAIN hs : Once(hs[i].parked)
    BY <1>5, <1>6 DEF Sane
  <1>8. ASSUME NEW i \in DOMAIN hs, NEW j \in DOMAIN hs, i # j
        PROVE  hs[i].spec.id # hs[j].spec.id /\ Parked(hs[i]) \cap Parked(hs[j]) = {}
    <2>1. CASE i = n
      <3>1. hs[i] = g /\ hs[j] = gs[j] /\ j \in DOMAIN gs
        BY <1>6, <1>8, <2>1
      <3> QED
        BY <1>2, <1>5, <3>1
    <2>2. CASE j = n
      <3>1. hs[j] = g /\ hs[i] = gs[i] /\ i \in DOMAIN gs
        BY <1>6, <1>8, <2>2
      <3> QED
        BY <1>2, <1>5, <3>1
    <2>3. CASE i # n /\ j # n
      <3>1. hs[j] = gs[j] /\ hs[i] = gs[i] /\ i \in DOMAIN gs /\ j \in DOMAIN gs
        BY <1>6, <2>3
      <3> QED
        BY <1>8, <3>1 DEF Sane
    <2> QED
      BY <2>1, <2>2, <2>3
  <1>9. Sane(hs)
    BY <1>6, <1>7, <1>8 DEF Sane
  <1>10. AllParked(hs) = AllParked(gs)
    <2>1. ASSUME NEW s PROVE s \in AllParked(hs) <=> s \in AllParked(gs)
      <3>1. /\ s \in AllParked(hs) <=> \E i \in DOMAIN hs : s \in Parked(hs[i])
            /\ s \in AllParked(gs) <=> \E i \in DOMAIN gs : s \in Parked(gs[i])
        BY DEF AllParked
      <3> QED
        BY <1>5, <1>6, <3>1
    <2> QED
      BY <2>1
  <1>11. ASSUME Bounded(gs) PROVE Bounded(hs)
    <2>1. 0 <= MaxSessions
      BY GateAssumption, SMTT(60)
    <2>2. \A i \in DOMAIN hs : Len(hs[i].parked) <= MaxSessions
      BY <1>2, <1>3, <1>6, <1>11, <2>1 DEF Bounded
    <2> QED
      BY <1>10, <1>11, <2>2 DEF Bounded
  <1> QED
    BY <1>9, <1>10, <1>11 DEF hs

\* A session that waits nowhere joins the queue of a gate with room.
Enqueued(gs, i, e) == [gs EXCEPT ![i].parked = Append(@, e)]

LEMMA EnqueueQueue ==
    ASSUME NEW q \in Seq(Entry), Once(q), NEW e \in Entry, e.s \notin Queued(q)
    PROVE  /\ Append(q, e) \in Seq(Entry) /\ Once(Append(q, e)) /\ Len(Append(q, e)) = Len(q) + 1
           /\ Queued(Append(q, e)) = Queued(q) \cup {e.s}
  <1> DEFINE r == Append(q, e)
             n == Len(q) + 1
  <1>1. Len(q) \in Nat /\ DOMAIN q = 1 .. Len(q)
    BY QueueTyped
  <1>2. /\ r \in Seq(Entry) /\ DOMAIN r = DOMAIN q \cup {n} /\ n \notin DOMAIN q /\ Len(r) = n
        /\ r[n] = e /\ \A i \in DOMAIN q : r[i] = q[i]
    BY <1>1, SMTT(60)
  <1> HIDE DEF r, n
  <1>3. ASSUME NEW s PROVE s \in Queued(r) <=> s \in Queued(q) \/ s = e.s
    <2>1. /\ s \in Queued(r) <=> \E i \in DOMAIN r : s = r[i].s
          /\ s \in Queued(q) <=> \E i \in DOMAIN q : s = q[i].s
      BY DEF Queued
    <2> QED
      BY <1>2, <2>1
  <1>4. Queued(r) = Queued(q) \cup {e.s}
    BY <1>3
  <1>5. \A i \in DOMAIN q : q[i].s \in Queued(q)
    BY DEF Queued
  <1>6. ASSUME NEW i \in DOMAIN r, NEW j \in DOMAIN r, r[i].s = r[j].s PROVE i = j
    <2>1. CASE i = n
      BY <1>2, <1>5, <1>6, <2>1
    <2>2. CASE j = n
      BY <1>2, <1>5, <1>6, <2>2
    <2>3. CASE i # n /\ j # n
      BY <1>2, <1>6, <2>3 DEF Once
    <2> QED
      BY <2>1, <2>2, <2>3
  <1> QED
    BY <1>2, <1>4, <1>6 DEF r, n, Once

LEMMA EnqueueSane ==
    ASSUME NEW gs, Sane(gs), Bounded(gs), NEW i \in DOMAIN gs, NEW e \in Entry,
           e.s \notin AllParked(gs), ~Full(gs, i)
    PROVE  /\ Sane(Enqueued(gs, i, e)) /\ Bounded(Enqueued(gs, i, e))
           /\ AllParked(Enqueued(gs, i, e)) = AllParked(gs) \cup {e.s}
  <1> DEFINE hs == Enqueued(gs, i, e)
             q == gs[i].parked
             r == Append(q, e)
  <1>1. gs \in Seq(GateRecord) /\ Len(gs) \in Nat /\ DOMAIN gs = 1 .. Len(gs) /\ IsFiniteSet(AllParked(gs))
    BY GateTyped DEF Sane
  <1>2. gs[i] \in GateRecord /\ q \in Seq(Entry) /\ Once(q) /\ Parked(gs[i]) = Queued(q)
    BY <1>1, GateTyped DEF Sane
  <1>3. e.s \notin Queued(q)
    BY <1>2 DEF AllParked
  <1>4. /\ r \in Seq(Entry) /\ Once(r) /\ Len(r) = Len(q) + 1 /\ Queued(r) = Queued(q) \cup {e.s}
    BY <1>2, <1>3, EnqueueQueue
  <1> DEFINE h == [gs[i] EXCEPT !.parked = r]
  <1>5. hs = [gs EXCEPT ![i] = h]
    BY DEF Enqueued
  <1> HIDE DEF hs, r
  <1>6. h \in GateRecord /\ h.spec = gs[i].spec /\ h.parked = r
    BY <1>2, <1>4 DEF GateRecord
  <1> HIDE DEF h
  <1>7. /\ hs \in [1 .. Len(gs) -> GateRecord] /\ DOMAIN hs = DOMAIN gs /\ hs[i] = h
        /\ \A j \in DOMAIN gs : j # i => hs[j] = gs[j]
    <2>1. gs \in [1 .. Len(gs) -> GateRecord]
      BY <1>1, SMTT(60)
    <2> QED
      BY <1>1, <1>5, <1>6, <2>1
  <1>8. hs \in Seq(GateRecord)
    BY <1>1, <1>7, ListOf
  <1>9. Parked(h) = Parked(gs[i]) \cup {e.s}
    BY <1>2, <1>4, <1>6 DEF Parked, Queued
  <1>10. \A j \in DOMAIN gs : Once(hs[j].parked) /\ hs[j].spec = gs[j].spec
    BY <1>4, <1>6, <1>7 DEF Sane
  <1>11. \A j \in DOMAIN gs : e.s \notin Parked(gs[j])
    BY DEF AllParked
  <1>12. \A j, k \in DOMAIN gs : j # k => Parked(hs[j]) \cap Parked(hs[k]) = {}
    <2> SUFFICES ASSUME NEW j \in DOMAIN gs, NEW k \in DOMAIN gs, j # k
                 PROVE  Parked(hs[j]) \cap Parked(hs[k]) = {}
      OBVIOUS
    <2>1. Parked(gs[j]) \cap Parked(gs[k]) = {}
      BY DEF Sane
    <2>2. CASE j = i
      BY <1>7, <1>9, <1>11, <2>1, <2>2
    <2>3. CASE k = i
      BY <1>7, <1>9, <1>11, <2>1, <2>3
    <2>4. CASE j # i /\ k # i
      BY <1>7, <2>1, <2>4
    <2> QED
      BY <2>2, <2>3, <2>4
  <1>13. Sane(hs)
    <2>1. \A j, k \in DOMAIN gs : j # k => hs[j].spec.id # hs[k].spec.id
      BY <1>10 DEF Sane
    <2> QED
      BY <1>7, <1>8, <1>10, <1>12, <2>1 DEF Sane
  <1>14. AllParked(hs) = AllParked(gs) \cup {e.s}
    <2>1. ASSUME NEW s PROVE s \in AllParked(hs) <=> s \in AllParked(gs) \/ s = e.s
      <3>1. /\ s \in AllParked(hs) <=> \E j \in DOMAIN gs : s \in Parked(hs[j])
            /\ s \in AllParked(gs) <=> \E j \in DOMAIN gs : s \in Parked(gs[j])
        BY <1>7 DEF AllParked
      <3> QED
        BY <1>7, <1>9, <3>1
    <2> QED
      BY <2>1
  <1>15. Bounded(hs)
    <2>1. Len(q) \in Nat /\ Cardinality(AllParked(gs)) \in Nat /\ {MaxSessions, MaxTotal} \subseteq Nat
      BY <1>1, <1>2, QueueTyped, FS_CardinalityType, GateAssumption
    <2>2. ~(Cardinality(AllParked(gs)) >= MaxTotal) /\ ~(Len(q) >= MaxSessions)
      BY TotalCount DEF Full
    <2>3. Cardinality(AllParked(hs)) = Cardinality(AllParked(gs)) + 1
      BY <1>1, <1>14, FS_AddElement
    <2>4. Cardinality(AllParked(hs)) <= MaxTotal /\ Len(r) <= MaxSessions
      BY <1>4, <2>1, <2>2, <2>3, SMTT(60)
    <2>5. \A j \in DOMAIN gs : Len(hs[j].parked) <= MaxSessions
      BY <1>6, <1>7, <2>4 DEF Bounded
    <2> QED
      BY <1>7, <2>4, <2>5 DEF Bounded
  <1> QED
    BY <1>13, <1>14, <1>15 DEF hs

-----------------------------------------------------------------------------
(***************************************************************************)
(* The engine.  A parked session is in one queue; a queue holds sessions   *)
(* that are parked, or whose client hung up.                               *)
(***************************************************************************)

Occupied(gs, st) ==
    /\ \A s \in Sessions : st[s] = "parked" => s \in AllParked(gs)
    /\ \A s \in AllParked(gs) : st[s] \in {"parked", "gone"}

Phases == {"new", "parked", "gone", "replanned", "expired", "through", "rejected"}

GateInv ==
    /\ Sane(gates) /\ Bounded(gates) /\ Occupied(gates, sess)
    /\ applied \in Nat /\ now \in Nat /\ sess \in [Sessions -> Phases]

LEMMA GateOfIs ==
    ASSUME Sane(gates), NEW i \in DOMAIN gates, NEW s \in Parked(gates[i])
    PROVE  GateOf(s) = i
  <1>1. \A j \in DOMAIN gates : s \in Parked(gates[j]) => j = i
    BY DEF Sane
  <1> QED
    BY <1>1 DEF GateOf

LEMMA ParkedAt ==
    ASSUME GateInv, NEW s \in Sessions, sess[s] = "parked"
    PROVE  GateOf(s) \in DOMAIN gates /\ s \in Parked(gates[GateOf(s)])
  <1>1. PICK i \in DOMAIN gates : s \in Parked(gates[i])
    BY DEF GateInv, Occupied, AllParked
  <1>2. GateOf(s) = i
    BY <1>1, GateOfIs DEF GateInv
  <1> QED
    BY <1>1, <1>2

\* What draining does to a session.
LEMMA Drained ==
    ASSUME NEW ids, NEW t, DrainGates(ids, t), NEW s \in Sessions
    PROVE  \/ /\ sess[s] = "parked" /\ gates[GateOf(s)].spec.id \in ids
              /\ Due(gates[GateOf(s)], t) /\ sess'[s] = "expired"
           \/ /\ sess[s] = "parked" /\ gates[GateOf(s)].spec.id \in ids
              /\ ~Due(gates[GateOf(s)], t) /\ sess'[s] = "replanned"
           \/ ~(sess[s] = "parked" /\ gates[GateOf(s)].spec.id \in ids) /\ sess'[s] = sess[s]
  <1>1. sess'[s] = IF sess[s] = "parked" /\ gates[GateOf(s)].spec.id \in ids
                   THEN IF Due(gates[GateOf(s)], t) THEN "expired" ELSE "replanned"
                   ELSE sess[s]
    BY DEF DrainGates
  <1> QED
    BY <1>1

LEMMA DrainStep ==
    ASSUME GateInv, NEW ids, NEW t, DrainGates(ids, t), applied' \in Nat, now' \in Nat
    PROVE  GateInv'
  <1>1. Sane(gates) /\ Bounded(gates) /\ Occupied(gates, sess) /\ sess \in [Sessions -> Phases]
    BY DEF GateInv
  <1>2. gates' = Sweep(gates, ids)
    BY DEF DrainGates
  <1>3. Sane(gates') /\ Bounded(gates')
    BY <1>1, <1>2, SweepSane
  <1>4. \A s : s \in AllParked(gates') <=>
                \E j \in DOMAIN gates : s \in Parked(gates[j]) /\ gates[j].spec.id \notin ids
    BY <1>1, <1>2, SweepSane
  <1>5. sess' \in [Sessions -> Phases]
    <2>1. \A s \in Sessions : sess'[s] \in {"expired", "replanned", sess[s]}
      BY Drained
    <2>2. \A s \in Sessions : sess[s] \in Phases
      BY <1>1
    <2>3. "expired" \in Phases /\ "replanned" \in Phases
      BY DEF Phases
    <2>4. \A s \in Sessions : sess'[s] \in Phases
      BY <2>1, <2>2, <2>3
    <2>5. DOMAIN sess' = Sessions /\ sess' = [s \in DOMAIN sess' |-> sess'[s]]
      BY DEF DrainGates
    <2> QED
      BY <2>4, <2>5
  <1>6. ASSUME NEW s \in Sessions, sess'[s] = "parked" PROVE s \in AllParked(gates')
    <2>1. sess[s] = "parked" /\ gates[GateOf(s)].spec.id \notin ids
      BY <1>6, Drained
    <2> QED
      BY <1>4, <2>1, ParkedAt
  <1>7. ASSUME NEW s \in AllParked(gates') PROVE sess'[s] \in {"parked", "gone"}
    <2>1. PICK j \in DOMAIN gates : s \in Parked(gates[j]) /\ gates[j].spec.id \notin ids
      BY <1>4, <1>7
    <2>2. GateOf(s) = j
      BY <1>1, <2>1, GateOfIs
    <2>3. s \in AllParked(gates)
      BY <2>1 DEF AllParked
    <2>4. s \in Sessions
      BY <1>1, <2>3, GateTyped DEF Sane
    <2>5. sess'[s] = sess[s]
      BY <2>1, <2>2, <2>4, Drained
    <2> QED
      BY <1>1, <2>3, <2>5 DEF Occupied
  <1>8. Occupied(gates', sess')
    BY <1>6, <1>7 DEF Occupied
  <1> QED
    BY <1>3, <1>5, <1>8 DEF GateInv

LEMMA CloseStep ==
    ASSUME GateInv, NEW spec \in Specs, Close(spec)
    PROVE  GateInv'
  <1>1. Sane(gates) /\ Bounded(gates) /\ Occupied(gates, sess)
    BY DEF GateInv
  <1>2. gates \in Seq(GateRecord) /\ \A i \in DOMAIN gates : gates[i] \in GateRecord
    BY <1>1, GateTyped DEF Sane
  <1>3. Sane(gates') /\ Bounded(gates') /\ AllParked(gates') = AllParked(gates)
    <2>1. CASE \E g \in Gates : g.spec.id = spec.id
      <3>1. gates' = [i \in DOMAIN gates |->
                        IF gates[i].spec.id = spec.id THEN [gates[i] EXCEPT !.spec = spec] ELSE gates[i]]
        BY <2>1 DEF Close
      <3>2. \A g \in GateRecord : /\ [g EXCEPT !.spec = spec] \in GateRecord
                                  /\ [g EXCEPT !.spec = spec].parked = g.parked
                                  /\ [g EXCEPT !.spec = spec].spec = spec
        BY DEF GateRecord
      <3>3. gates' \in [DOMAIN gates -> GateRecord]
        BY <1>2, <3>1, <3>2
      <3>4. \A i \in DOMAIN gates : gates'[i].parked = gates[i].parked /\ gates'[i].spec.id = gates[i].spec.id
        BY <1>2, <3>1, <3>2
      <3> QED
        BY <1>1, <3>3, <3>4, Relabelled
    <2>2. CASE ~ \E g \in Gates : g.spec.id = spec.id
      <3>1. gates' = Append(gates, [spec |-> spec, parked |-> <<>>, openRequested |-> FALSE])
        BY <2>2 DEF Close
      <3>2. \A i \in DOMAIN gates : gates[i].spec.id # spec.id
        BY <2>2 DEF Gates
      <3> QED
        BY <1>1, <3>1, <3>2, AppendSane
    <2> QED
      BY <2>1, <2>2
  <1>4. sess' = sess /\ applied' = applied /\ now' = now
    BY DEF Close
  <1>5. Occupied(gates', sess')
    BY <1>1, <1>3, <1>4 DEF Occupied
  <1> QED
    BY <1>3, <1>4, <1>5 DEF GateInv

LEMMA OpenStep ==
    ASSUME GateInv, NEW i \in DOMAIN gates, Open(i)
    PROVE  GateInv'
  <1>1. Sane(gates) /\ Bounded(gates) /\ Occupied(gates, sess) /\ applied \in Nat /\ now \in Nat
    BY DEF GateInv
  <1>2. applied' = applied /\ now' = now
    BY DEF Open
  <1>3. CASE ~Due(gates[i], now) /\ gates[i].spec.min > applied
    <2>1. gates' = [gates EXCEPT ![i].openRequested = TRUE] /\ sess' = sess
      BY <1>3 DEF Open
    <2>2. /\ gates \in Seq(GateRecord) /\ \A j \in DOMAIN gates : gates[j] \in GateRecord
          /\ gates \in [DOMAIN gates -> GateRecord]
      <3>1. gates \in Seq(GateRecord)
        BY <1>1 DEF Sane
      <3> QED
        BY <3>1, SMTT(60)
    <2> DEFINE h == [gates[i] EXCEPT !.openRequested = TRUE]
    <2>3. h \in GateRecord /\ h.parked = gates[i].parked /\ h.spec = gates[i].spec
      BY <2>2 DEF GateRecord
    <2>4. gates' = [gates EXCEPT ![i] = h]
      BY <2>1
    <2> HIDE DEF h
    <2>5. gates' \in [DOMAIN gates -> GateRecord]
      BY <2>2, <2>3, <2>4
    <2>6. \A j \in DOMAIN gates : gates'[j].parked = gates[j].parked /\ gates'[j].spec.id = gates[j].spec.id
      BY <2>2, <2>3, <2>4
    <2>7. Sane(gates') /\ Bounded(gates') /\ AllParked(gates') = AllParked(gates)
      BY <1>1, <2>5, <2>6, Relabelled
    <2>8. Occupied(gates', sess')
      BY <1>1, <2>1, <2>7 DEF Occupied
    <2> QED
      BY <1>2, <2>1, <2>7, <2>8 DEF GateInv
  <1>4. CASE ~(~Due(gates[i], now) /\ gates[i].spec.min > applied)
    <2>1. DrainGates({gates[i].spec.id}, now)
      BY <1>4 DEF Open
    <2> QED
      BY <1>1, <1>2, <2>1, DrainStep
  <1> QED
    BY <1>3, <1>4

LEMMA TopologyStep ==
    ASSUME GateInv, NEW n \in 1 .. MaxGeneration, TopologyApplied(n)
    PROVE  GateInv'
  <1>1. applied \in Nat /\ now \in Nat
    BY DEF GateInv
  <1>2. n \in Nat
    BY SMTT(60)
  <1>3. {applied, n} \subseteq Nat
    BY <1>1, <1>2
  <1>4. applied' = Max({applied, n}) /\ now' = now
    BY DEF TopologyApplied
  <1>5. Max({applied, n}) \in Nat
    <2>1. \E x \in {applied, n} : \A y \in {applied, n} : y <= x
      BY <1>1, <1>2, SMTT(60)
    <2>2. Max({applied, n}) \in {applied, n}
      BY <1>1, <1>2, <2>1, SMTT(60) DEF Max
    <2> QED
      BY <1>3, <2>2
  <1>6. \E ids : DrainGates(ids, now)
    BY DEF TopologyApplied
  <1> QED
    BY <1>1, <1>4, <1>5, <1>6, DrainStep

\* The gates without the entries of clients that hung up.
Live == {s \in Sessions : sess[s] # "gone"}
LiveGates == [i \in DOMAIN gates |-> PruneDead(gates[i])]

LEMMA LiveThinned ==
    LiveGates = Thinned(gates, [i \in DOMAIN gates |-> Live])
  BY DEF LiveGates, Thinned, PruneDead, Live

LEMMA LiveFacts ==
    ASSUME GateInv
    PROVE  /\ Sane(LiveGates) /\ Bounded(LiveGates) /\ DOMAIN LiveGates = DOMAIN gates
           /\ \A i \in DOMAIN gates :
                /\ LiveGates[i].spec = gates[i].spec
                /\ LiveGates[i].parked = Retain(gates[i].parked, Live)
                /\ Parked(LiveGates[i]) = {c \in Parked(gates[i]) : sess[c] = "parked"}
           /\ AllParked(LiveGates) = {c \in AllParked(gates) : sess[c] = "parked"}
  <1>1. Sane(gates) /\ Bounded(gates) /\ Occupied(gates, sess)
    BY DEF GateInv
  <1>2. Sane(LiveGates) /\ Bounded(LiveGates) /\ DOMAIN LiveGates = DOMAIN gates
    BY <1>1, LiveThinned, ThinnedSane
  <1>3. ASSUME NEW i \in DOMAIN gates
        PROVE  /\ LiveGates[i].spec = gates[i].spec
               /\ LiveGates[i].parked = Retain(gates[i].parked, Live)
               /\ Parked(LiveGates[i]) = {c \in Parked(gates[i]) : sess[c] = "parked"}
    <2> DEFINE S == [j \in DOMAIN gates |-> Live]
    <2>1. ThinnedTo(LiveGates[i], gates[i], S[i])
      BY <1>1, LiveThinned, ThinnedGate
    <2>2. S[i] = Live
      OBVIOUS
    <2>3. \A c \in Parked(gates[i]) : c \in AllParked(gates)
      BY DEF AllParked
    <2>4. \A c \in Parked(gates[i]) : c \in Sessions /\ sess[c] \in {"parked", "gone"}
      BY <1>1, <2>3, GateTyped DEF Occupied, Sane
    <2>5. Parked(gates[i]) \cap Live = {c \in Parked(gates[i]) : sess[c] = "parked"}
      BY <2>4 DEF Live
    <2> HIDE DEF S
    <2> QED
      BY <2>1, <2>2, <2>5 DEF ThinnedTo
  <1>4. ASSUME NEW c PROVE c \in AllParked(LiveGates) <=> c \in AllParked(gates) /\ sess[c] = "parked"
    <2>1. /\ c \in AllParked(LiveGates) <=> \E i \in DOMAIN gates : c \in Parked(LiveGates[i])
          /\ c \in AllParked(gates) <=> \E i \in DOMAIN gates : c \in Parked(gates[i])
      BY <1>2 DEF AllParked
    <2>2. \A i \in DOMAIN gates : c \in Parked(LiveGates[i]) <=> c \in Parked(gates[i]) /\ sess[c] = "parked"
      BY <1>3
    <2> QED
      BY <2>1, <2>2
  <1> QED
    BY <1>2, <1>3, <1>4

\* The outcomes of a check.
Hit(s) == {i \in DOMAIN gates : Buffers(gates[i], Scope[s])}
CheckPasses(s) == Hit(s) = {} /\ sess' = [sess EXCEPT ![s] = "through"] /\ UNCHANGED gates
CheckRefuses(s) ==
    /\ Hit(s) # {} /\ Full(LiveGates, Min(Hit(s)))
    /\ sess' = [sess EXCEPT ![s] = "rejected"] /\ gates' = LiveGates
CheckParks(s) ==
    /\ Hit(s) # {} /\ ~Full(LiveGates, Min(Hit(s)))
    /\ gates' = Enqueued(LiveGates, Min(Hit(s)), [s |-> s, enqueued |-> now])
    /\ sess' = [sess EXCEPT ![s] = "parked"]

LEMMA CheckCases ==
    ASSUME NEW s \in Sessions, Check(s)
    PROVE  CheckPasses(s) \/ CheckRefuses(s) \/ CheckParks(s)
  BY DEF Check, CheckPasses, CheckRefuses, CheckParks, Hit, LiveGates, Enqueued

LEMMA HitIs ==
    ASSUME GateInv, NEW s, Hit(s) # {}
    PROVE  Min(Hit(s)) \in DOMAIN gates /\ Buffers(gates[Min(Hit(s))], Scope[s])
  <1>1. DOMAIN gates = 1 .. Len(gates)
    BY GateTyped DEF GateInv, Sane
  <1>2. DOMAIN gates \subseteq Nat
    BY <1>1, SMTT(60)
  <1>3. Hit(s) \subseteq Nat
    BY <1>2 DEF Hit
  <1>4. Min(Hit(s)) \in Hit(s)
    BY <1>3, MinIsLeast
  <1> QED
    BY <1>4 DEF Hit

LEMMA SetPhase ==
    ASSUME NEW f \in [Sessions -> Phases], NEW s, NEW p \in Phases
    PROVE  [f EXCEPT ![s] = p] \in [Sessions -> Phases]
  OBVIOUS

LEMMA CheckStep ==
    ASSUME GateInv, NEW s \in Sessions, Check(s)
    PROVE  GateInv'
  <1>1. /\ Sane(gates) /\ Bounded(gates) /\ Occupied(gates, sess)
        /\ applied \in Nat /\ now \in Nat /\ sess \in [Sessions -> Phases]
    BY DEF GateInv
  <1>2. applied' = applied /\ now' = now /\ sess[s] \in {"new", "replanned", "expired"}
    BY DEF Check
  <1>3. s \notin AllParked(gates)
    BY <1>1, <1>2 DEF Occupied
  <1>4. AllParked(LiveGates) = {c \in AllParked(gates) : sess[c] = "parked"}
    BY LiveFacts
  <1>5. Sane(LiveGates) /\ Bounded(LiveGates) /\ DOMAIN LiveGates = DOMAIN gates
    BY LiveFacts
  <1>6. \A c \in Sessions : sess[c] = "parked" => c \in AllParked(LiveGates)
    BY <1>1, <1>4 DEF Occupied
  <1>7. \A c \in AllParked(gates) : c \in Sessions
    BY <1>1, GateTyped DEF Sane
  <1>8. CASE CheckPasses(s)
    <2>1. sess' = [sess EXCEPT ![s] = "through"] /\ gates' = gates
      BY <1>8 DEF CheckPasses
    <2>2. sess' \in [Sessions -> Phases]
      BY <1>1, <2>1, SetPhase DEF Phases
    <2>3. sess'[s] = "through" /\ \A c \in Sessions : c # s => sess'[c] = sess[c]
      BY <1>1, <2>1
    <2>4. Occupied(gates', sess')
      BY <1>1, <1>3, <1>7, <2>1, <2>3 DEF Occupied
    <2> QED
      BY <1>1, <1>2, <2>1, <2>2, <2>4 DEF GateInv
  <1>9. CASE CheckRefuses(s)
    <2>1. sess' = [sess EXCEPT ![s] = "rejected"] /\ gates' = LiveGates
      BY <1>9 DEF CheckRefuses
    <2>2. sess' \in [Sessions -> Phases]
      BY <1>1, <2>1, SetPhase DEF Phases
    <2>3. sess'[s] = "rejected" /\ \A c \in Sessions : c # s => sess'[c] = sess[c]
      BY <1>1, <2>1
    <2>4. Occupied(gates', sess')
      BY <1>3, <1>4, <1>6, <1>7, <2>1, <2>3 DEF Occupied
    <2> QED
      BY <1>1, <1>2, <1>5, <2>1, <2>2, <2>4 DEF GateInv
  <1>10. CASE CheckParks(s)
    <2> DEFINE e == [s |-> s, enqueued |-> now]
               i == Min(Hit(s))
    <2>1. sess' = [sess EXCEPT ![s] = "parked"] /\ gates' = Enqueued(LiveGates, i, e)
      BY <1>10 DEF CheckParks
    <2>2. sess' \in [Sessions -> Phases]
      BY <1>1, <2>1, SetPhase DEF Phases
    <2>3. sess'[s] = "parked" /\ \A c \in Sessions : c # s => sess'[c] = sess[c]
      BY <1>1, <2>1
    <2>4. e \in Entry /\ e.s = s
      BY <1>1 DEF Entry
    <2>5. i \in DOMAIN LiveGates /\ ~Full(LiveGates, i)
      BY <1>5, <1>10, HitIs DEF CheckParks
    <2> HIDE DEF e, i
    <2>6. s \notin AllParked(LiveGates)
      BY <1>3, <1>4
    <2>7. /\ Sane(gates') /\ Bounded(gates') /\ AllParked(gates') = AllParked(LiveGates) \cup {s}
      BY <1>5, <2>1, <2>4, <2>5, <2>6, EnqueueSane
    <2>8. Occupied(gates', sess')
      BY <1>4, <1>6, <1>7, <2>3, <2>7 DEF Occupied
    <2> QED
      BY <1>1, <1>2, <2>2, <2>7, <2>8 DEF GateInv
  <1> QED
    BY <1>8, <1>9, <1>10, CheckCases

\* The sessions at the front of the i-th queue that waited too long.
Late(i, t) == {LiveGates[i].parked[j].s : j \in Overdue(LiveGates[i].parked, t)}

LEMMA RejectGates ==
    ASSUME NEW t, RejectOverdue(t)
    PROVE  /\ DOMAIN LiveGates = DOMAIN gates
           /\ gates' = Thinned(LiveGates, [i \in DOMAIN gates |-> Sessions \ Late(i, t)])
           /\ sess' = [s \in Sessions |->
                        IF \E i \in DOMAIN gates : s \in Late(i, t) THEN "rejected" ELSE sess[s]]
  <1>1. DOMAIN LiveGates = DOMAIN gates
    BY DEF LiveGates
  <1> DEFINE S == [i \in DOMAIN gates |-> Sessions \ Late(i, t)]
  <1>2. gates' = [i \in DOMAIN gates |->
                    [LiveGates[i] EXCEPT !.parked = Retain(@, Sessions \ Late(i, t))]]
    BY DEF RejectOverdue, Late, LiveGates
  <1>3. \A i \in DOMAIN gates : S[i] = Sessions \ Late(i, t)
    OBVIOUS
  <1> HIDE DEF S
  <1>4. gates' = [i \in DOMAIN gates |-> [LiveGates[i] EXCEPT !.parked = Retain(@, S[i])]]
    BY <1>2, <1>3
  <1>5. gates' = Thinned(LiveGates, S)
    BY <1>1, <1>4 DEF Thinned
  <1>6. sess' = [s \in Sessions |->
                   IF \E i \in DOMAIN gates : s \in Late(i, t) THEN "rejected" ELSE sess[s]]
    BY DEF RejectOverdue, Late, LiveGates
  <1> QED
    BY <1>1, <1>5, <1>6 DEF S

LEMMA RejectStep ==
    ASSUME GateInv, NEW t, RejectOverdue(t)
    PROVE  GateInv'
  <1>1. /\ Occupied(gates, sess) /\ applied \in Nat /\ now \in Nat /\ sess \in [Sessions -> Phases]
        /\ applied' = applied /\ now' = now
    BY DEF GateInv, RejectOverdue
  <1>2. Sane(LiveGates) /\ Bounded(LiveGates) /\ DOMAIN LiveGates = DOMAIN gates
    BY LiveFacts
  <1>3. AllParked(LiveGates) = {c \in AllParked(gates) : sess[c] = "parked"}
    BY LiveFacts
  <1> DEFINE S == [i \in DOMAIN gates |-> Sessions \ Late(i, t)]
  <1>4. gates' = Thinned(LiveGates, S)
    BY RejectGates
  <1>5. \A s \in Sessions :
          sess'[s] = IF \E i \in DOMAIN gates : s \in Late(i, t) THEN "rejected" ELSE sess[s]
    BY RejectGates
  <1>6. sess' \in [Sessions -> Phases]
    <2>1. sess' = [s \in Sessions |->
                     IF \E i \in DOMAIN gates : s \in Late(i, t) THEN "rejected" ELSE sess[s]]
      BY RejectGates
    <2>2. "rejected" \in Phases /\ \A s \in Sessions : sess[s] \in Phases
      BY <1>1 DEF Phases
    <2> QED
      BY <2>1, <2>2
  <1>7. \A i \in DOMAIN gates : S[i] = Sessions \ Late(i, t)
    OBVIOUS
  <1> HIDE DEF S
  <1>8. Sane(gates') /\ Bounded(gates') /\ DOMAIN gates' = DOMAIN gates
    BY <1>2, <1>4, ThinnedSane
  <1>9. \A i \in DOMAIN gates : Parked(gates'[i]) = Parked(LiveGates[i]) \cap (Sessions \ Late(i, t))
    <2>1. \A i \in DOMAIN gates : ThinnedTo(gates'[i], LiveGates[i], S[i])
      BY <1>2, <1>4, ThinnedGate
    <2> QED
      BY <1>7, <2>1 DEF ThinnedTo
  <1>10. \A i \in DOMAIN gates : Late(i, t) \subseteq Parked(LiveGates[i])
    BY DEF Late, Overdue, Parked
  <1>11. ASSUME NEW s \in Sessions, sess'[s] = "parked" PROVE s \in AllParked(gates')
    <2>1. sess[s] = "parked" /\ \A i \in DOMAIN gates : s \notin Late(i, t)
      BY <1>5, <1>11
    <2>2. s \in AllParked(LiveGates)
      BY <1>1, <1>3, <2>1 DEF Occupied
    <2>3. PICK i \in DOMAIN gates : s \in Parked(LiveGates[i])
      BY <1>2, <2>2 DEF AllParked
    <2>4. s \in Parked(gates'[i])
      BY <1>9, <2>1, <2>3
    <2> QED
      BY <1>8, <2>4 DEF AllParked
  <1>12. ASSUME NEW s \in AllParked(gates') PROVE sess'[s] \in {"parked", "gone"}
    <2>1. PICK i \in DOMAIN gates : s \in Parked(gates'[i])
      BY <1>8 DEF AllParked
    <2>2. s \in Parked(LiveGates[i]) /\ s \in Sessions /\ s \notin Late(i, t)
      BY <1>9, <2>1
    <2>3. ASSUME NEW j \in DOMAIN gates, s \in Late(j, t) PROVE FALSE
      <3>1. s \in Parked(LiveGates[j]) /\ j # i
        BY <1>10, <2>2, <2>3
      <3> QED
        BY <1>2, <2>2, <3>1 DEF Sane
    <2>4. s \in AllParked(LiveGates)
      BY <1>2, <2>2 DEF AllParked
    <2>5. sess[s] = "parked"
      BY <1>3, <2>4
    <2> QED
      BY <1>5, <2>2, <2>3, <2>5
  <1>13. Occupied(gates', sess')
    BY <1>11, <1>12 DEF Occupied
  <1> QED
    BY <1>1, <1>6, <1>8, <1>13 DEF GateInv

LEMMA DisconnectStep ==
    ASSUME GateInv, NEW s \in Sessions, Disconnect(s)
    PROVE  GateInv'
  <1>1. /\ Sane(gates) /\ Bounded(gates) /\ Occupied(gates, sess)
        /\ applied \in Nat /\ now \in Nat /\ sess \in [Sessions -> Phases]
    BY DEF GateInv
  <1>2. sess' = [sess EXCEPT ![s] = "gone"] /\ gates' = gates /\ applied' = applied /\ now' = now
    BY DEF Disconnect
  <1>3. sess' \in [Sessions -> Phases]
    BY <1>1, <1>2, SetPhase DEF Phases
  <1>4. sess'[s] = "gone" /\ \A c \in Sessions : c # s => sess'[c] = sess[c]
    BY <1>1, <1>2
  <1>5. \A c \in AllParked(gates) : c \in Sessions
    BY <1>1, GateTyped DEF Sane
  <1>6. Occupied(gates', sess')
    BY <1>1, <1>2, <1>4, <1>5 DEF Occupied
  <1> QED
    BY <1>1, <1>2, <1>3, <1>6 DEF GateInv

LEMMA GateInit ==
    Init => GateInv
  <1> SUFFICES ASSUME Init PROVE GateInv
    OBVIOUS
  <1>1. gates = <<>> /\ applied = 0 /\ now = 0 /\ sess = [s \in Sessions |-> "new"]
    BY DEF Init
  <1>2. <<>> \in Seq(GateRecord) /\ DOMAIN <<>> = {} /\ 0 \in Nat
    BY SMTT(60)
  <1>3. AllParked(gates) = {}
    BY <1>1, <1>2 DEF AllParked
  <1>4. Sane(gates)
    BY <1>1, <1>2 DEF Sane
  <1>5. Bounded(gates)
    <2>1. 0 <= MaxTotal
      BY GateAssumption, SMTT(60)
    <2> QED
      BY <1>1, <1>2, <1>3, <2>1, FS_EmptySet DEF Bounded
  <1>6. Occupied(gates, sess)
    BY <1>1, <1>3 DEF Occupied
  <1>7. sess \in [Sessions -> Phases]
    BY <1>1 DEF Phases
  <1> QED
    BY <1>1, <1>2, <1>4, <1>5, <1>6, <1>7 DEF GateInv

LEMMA GateStep ==
    GateInv /\ [Next]_vars => GateInv'
  <1> SUFFICES ASSUME GateInv, [Next]_vars PROVE GateInv'
    OBVIOUS
  <1>1. CASE \E n \in 1 .. MaxGeneration : TopologyApplied(n)
    BY <1>1, TopologyStep
  <1>2. CASE \E spec \in Specs : Close(spec)
    BY <1>2, CloseStep
  <1>3. CASE \E i \in DOMAIN gates : Open(i)
    BY <1>3, OpenStep
  <1>4. CASE \E t \in 0 .. now : ExpireDue(t)
    <2>1. PICK t : ExpireDue(t)
      BY <1>4
    <2>2. applied' = applied /\ now' = now
      BY <2>1 DEF ExpireDue
    <2>3. applied' \in Nat /\ now' \in Nat
      BY <2>2 DEF GateInv
    <2>4. \E ids : DrainGates(ids, t)
      BY <2>1 DEF ExpireDue
    <2> QED
      BY <2>3, <2>4, DrainStep
  <1>5. CASE \E t \in 0 .. now : RejectOverdue(t)
    BY <1>5, RejectStep
  <1>6. CASE \E s \in Sessions : Check(s)
    BY <1>6, CheckStep
  <1>7. CASE \E s \in Sessions : Disconnect(s)
    BY <1>7, DisconnectStep
  <1>8. CASE Tick
    <2>1. gates' = gates /\ applied' = applied /\ sess' = sess /\ now' = now + 1
      BY <1>8 DEF Tick
    <2>2. now' \in Nat
      <3>1. now \in Nat
        BY DEF GateInv
      <3> QED
        BY <2>1, <3>1, SMTT(60)
    <2> QED
      BY <2>1, <2>2 DEF GateInv
  <1>9. CASE UNCHANGED vars
    BY <1>9 DEF vars, GateInv
  <1> QED
    BY <1>1, <1>2, <1>3, <1>4, <1>5, <1>6, <1>7, <1>8, <1>9 DEF Next

THEOREM GateInvHolds == Spec => []GateInv
  <1> QED
    BY GateInit, GateStep, PTL DEF Spec

\* The limits hold in every state: per gate and over all gates, one gate per
\* id, and a session in one queue at most (GateEngine.check, close, drain).
THEOREM LimitsHold == Spec => []WithinLimits
  <1>1. GateInv => WithinLimits
    <2> SUFFICES ASSUME GateInv PROVE WithinLimits
      OBVIOUS
    <2>1. Sane(gates) /\ Bounded(gates)
      BY DEF GateInv
    <2>2. TotalParked(gates) <= MaxTotal
      BY <2>1, TotalCount DEF Bounded
    <2> QED
      BY <2>1, <2>2 DEF WithinLimits, Sane, Bounded
  <1> QED
    BY <1>1, GateInvHolds, PTL

-----------------------------------------------------------------------------
(***************************************************************************)
(* What a step may never do.                                               *)
(***************************************************************************)

\* A step that gives no parked session a verdict.
Quiet == \A s \in Sessions : sess[s] = "parked" => sess'[s] \in {"parked", "gone"}

LEMMA CheckQuiet ==
    ASSUME GateInv, NEW c \in Sessions, Check(c), NEW s \in Sessions, s # c
    PROVE  sess'[s] = sess[s]
  <1>1. sess \in [Sessions -> Phases]
    BY DEF GateInv
  <1>2. \E p : sess' = [sess EXCEPT ![c] = p]
    BY CheckCases DEF CheckPasses, CheckRefuses, CheckParks
  <1> QED
    BY <1>1, <1>2

LEMMA StepKinds ==
    ASSUME GateInv, Next
    PROVE  \/ Quiet
           \/ \E n \in 1 .. MaxGeneration : TopologyApplied(n)
           \/ \E i \in DOMAIN gates : Open(i) /\ DrainGates({gates[i].spec.id}, now)
           \/ \E t \in 0 .. now : ExpireDue(t)
           \/ \E t \in 0 .. now : RejectOverdue(t)
  <1>1. sess \in [Sessions -> Phases]
    BY DEF GateInv
  <1>2. ASSUME sess' = sess PROVE Quiet
    BY <1>2 DEF Quiet
  <1>3. CASE \E spec \in Specs : Close(spec)
    BY <1>2, <1>3 DEF Close
  <1>4. CASE \E i \in DOMAIN gates : Open(i)
    BY <1>2, <1>4 DEF Open
  <1>5. CASE \E c \in Sessions : Check(c)
    <2>1. PICK c \in Sessions : Check(c)
      BY <1>5
    <2>2. sess[c] # "parked"
      BY <2>1 DEF Check
    <2> QED
      BY <2>1, <2>2, CheckQuiet DEF Quiet
  <1>6. CASE \E c \in Sessions : Disconnect(c)
    <2>1. PICK c \in Sessions : sess' = [sess EXCEPT ![c] = "gone"]
      BY <1>6 DEF Disconnect
    <2>2. \A s \in Sessions : sess'[s] = "gone" \/ sess'[s] = sess[s]
      BY <1>1, <2>1
    <2> QED
      BY <2>2 DEF Quiet
  <1>7. CASE Tick
    BY <1>2, <1>7 DEF Tick
  <1> QED
    BY <1>3, <1>4, <1>5, <1>6, <1>7 DEF Next

LEMMA SameId ==
    ASSUME GateInv, NEW h \in Gates, NEW i \in DOMAIN gates, gates[i].spec.id = h.spec.id
    PROVE  h = gates[i]
  <1>1. PICK j \in DOMAIN gates : h = gates[j]
    BY DEF Gates
  <1>2. i = j
    BY <1>1 DEF GateInv, Sane
  <1> QED
    BY <1>1, <1>2

LEMMA SpecTyped ==
    ASSUME GateInv, NEW i \in DOMAIN gates
    PROVE  gates[i].spec.deadline \in Nat /\ gates[i].spec.min \in Nat
  <1>1. gates[i].spec \in Specs
    BY GateTyped DEF GateInv, Sane
  <1> QED
    BY <1>1, GateAssumption

LEMMA ReplayStep ==
    ASSUME GateInv, Next, NEW s \in Sessions, sess[s] = "parked", sess'[s] = "replanned"
    PROVE  gates[GateOf(s)].spec.min <= applied' /\ now < gates[GateOf(s)].spec.deadline
  <1> DEFINE i == GateOf(s)
  <1>1. i \in DOMAIN gates
    BY ParkedAt
  <1>2. now \in Nat /\ applied \in Nat /\ gates[i].spec.deadline \in Nat /\ gates[i].spec.min \in Nat
    BY <1>1, SpecTyped DEF GateInv
  <1> HIDE DEF i
  <1>3. ASSUME NEW ids, NEW t, DrainGates(ids, t)
        PROVE  gates[i].spec.id \in ids /\ ~Due(gates[i], t)
    BY <1>3, Drained DEF i
  <1>4. ~Due(gates[i], now) => now < gates[i].spec.deadline
    BY <1>2, SMTT(60) DEF Due
  <1>5. CASE Quiet
    BY <1>5 DEF Quiet
  <1>6. CASE \E n \in 1 .. MaxGeneration : TopologyApplied(n)
    <2>1. DrainGates({g.spec.id : g \in {h \in Gates : h.openRequested /\ h.spec.min <= applied'}}, now)
      BY <1>6 DEF TopologyApplied
    <2>2. /\ ~Due(gates[i], now)
          /\ gates[i].spec.id \in {g.spec.id : g \in {h \in Gates : h.openRequested /\ h.spec.min <= applied'}}
      BY <1>3, <2>1
    <2>3. PICK h \in Gates : h.spec.min <= applied' /\ gates[i].spec.id = h.spec.id
      BY <2>2
    <2>4. h = gates[i]
      BY <1>1, <2>3, SameId
    <2> QED
      BY <1>4, <2>2, <2>3, <2>4 DEF i
  <1>7. CASE \E j \in DOMAIN gates : Open(j) /\ DrainGates({gates[j].spec.id}, now)
    <2>1. PICK j \in DOMAIN gates : Open(j) /\ DrainGates({gates[j].spec.id}, now)
      BY <1>7
    <2> DEFINE ids == {gates[j].spec.id}
    <2>2. gates[i].spec.id = gates[j].spec.id /\ ~Due(gates[i], now)
      <3>1. DrainGates(ids, now)
        BY <2>1
      <3> HIDE DEF ids
      <3>2. gates[i].spec.id \in ids /\ ~Due(gates[i], now)
        BY <1>3, <3>1
      <3> QED
        BY <3>2 DEF ids
    <2>3. i = j
      BY <1>1, <2>2 DEF GateInv, Sane
    <2>4. sess' # sess
      OBVIOUS
    <2>5. ~(gates[i].spec.min > applied) /\ applied' = applied
      BY <2>1, <2>2, <2>3, <2>4 DEF Open
    <2>6. gates[i].spec.min <= applied'
      BY <1>2, <2>5, SMTT(60)
    <2> QED
      BY <1>4, <2>2, <2>6 DEF i
  <1>8. CASE \E t \in 0 .. now : ExpireDue(t)
    <2>1. PICK t : DrainGates({g.spec.id : g \in {h \in Gates : Due(h, t)}}, t)
      BY <1>8 DEF ExpireDue
    <2>2. gates[i].spec.id \in {g.spec.id : g \in {h \in Gates : Due(h, t)}} /\ ~Due(gates[i], t)
      BY <1>3, <2>1
    <2>3. PICK h \in Gates : Due(h, t) /\ gates[i].spec.id = h.spec.id
      BY <2>2
    <2>4. h = gates[i]
      BY <1>1, <2>3, SameId
    <2> QED
      BY <2>2, <2>3, <2>4
  <1>9. CASE \E t \in 0 .. now : RejectOverdue(t)
    <2>1. sess'[s] = "rejected" \/ sess'[s] = sess[s]
      BY <1>9, RejectGates
    <2> QED
      BY <2>1
  <1> QED
    BY <1>5, <1>6, <1>7, <1>8, <1>9, StepKinds

\* A buffered statement is replayed only on the topology its gate waits for
\* and before the deadline (GateEngine.open, topology_applied, drain).
THEOREM ReplaysAreNew == Spec => ReplaysOnNewTopology
  <1>1. GateInv /\ [Next]_vars =>
          [\A s \in Sessions :
             sess[s] = "parked" /\ sess'[s] = "replanned" =>
               LET spec == gates[GateOf(s)].spec
               IN spec.min <= applied' /\ now < spec.deadline]_vars
    BY ReplayStep
  <1> QED
    BY <1>1, GateInvHolds, PTL DEF Spec, ReplaysOnNewTopology

LEMMA DrainFifo ==
    ASSUME GateInv, NEW ids, NEW t, DrainGates(ids, t), NEW i \in DOMAIN gates,
           NEW early \in Parked(gates[i]), NEW late \in Parked(gates[i]),
           sess[late] = "parked", sess'[late] \notin {"parked", "gone"}
    PROVE  sess'[early] # "parked"
  <1>1. early \in Sessions /\ late \in Sessions
    BY GateTyped DEF GateInv, Sane
  <1>2. GateOf(early) = i /\ GateOf(late) = i
    BY GateOfIs DEF GateInv
  <1>3. gates[i].spec.id \in ids
    BY <1>1, <1>2, Drained
  <1> QED
    BY <1>1, <1>2, <1>3, Drained

LEMMA RejectFifo ==
    ASSUME GateInv, NEW t, RejectOverdue(t), NEW i \in DOMAIN gates,
           NEW j \in DOMAIN gates[i].parked, NEW k \in DOMAIN gates[i].parked, j < k,
           sess[gates[i].parked[k].s] = "parked",
           sess'[gates[i].parked[k].s] \notin {"parked", "gone"}
    PROVE  sess'[gates[i].parked[j].s] # "parked"
  <1> DEFINE q == gates[i].parked
             r == LiveGates[i].parked
             early == q[j].s
             late == q[k].s
  <1>1. Sane(gates) /\ q \in Seq(Entry) /\ early \in Parked(gates[i]) /\ late \in Parked(gates[i])
    BY GateTyped DEF GateInv, Sane, Parked
  <1>2. early \in Sessions /\ late \in Sessions
    BY <1>1, GateTyped DEF Sane
  <1>3. \A s \in Sessions :
          sess'[s] = IF \E x \in DOMAIN gates : s \in Late(x, t) THEN "rejected" ELSE sess[s]
    BY RejectGates
  <1>4. SUFFICES ASSUME sess[early] = "parked" PROVE early \in Late(i, t)
    BY <1>2, <1>3
  <1>5. PICK x \in DOMAIN gates : late \in Late(x, t)
    BY <1>2, <1>3
  <1>6. late \in Parked(LiveGates[x])
    BY <1>5 DEF Late, Overdue, Parked
  <1>7. late \in Parked(gates[x])
    BY <1>6, LiveFacts
  <1>8. x = i
    BY <1>1, <1>7 DEF Sane
  <1>9. early \in Live /\ late \in Live
    BY <1>2, <1>4 DEF Live
  <1>10. r = Retain(q, Live)
    BY LiveFacts
  <1>11. PICK a \in DOMAIN r, b \in DOMAIN r : a < b /\ r[a] = q[j] /\ r[b] = q[k]
    <2>1. q[j].s \in Live /\ q[k].s \in Live /\ j \in DOMAIN q /\ k \in DOMAIN q
      BY <1>9
    <2> HIDE DEF q, r
    <2>2. InOrder(Retain(q, Live), q[j], q[k])
      BY <1>1, <2>1, RetainOrder
    <2> QED
      BY <1>10, <2>2 DEF InOrder
  <1>12. r \in Seq(Entry) /\ Once(r)
    <2>1. Sane(LiveGates) /\ DOMAIN LiveGates = DOMAIN gates
      BY LiveFacts
    <2> QED
      BY <2>1, GateTyped DEF Sane
  <1>13. PICK m \in Overdue(r, t) : late = r[m].s
    BY <1>5, <1>8 DEF Late
  <1>14. m = b
    BY <1>11, <1>12, <1>13 DEF Once, Overdue
  <1>15. \A n \in 1 .. b : t > r[n].enqueued + MaxWait
    BY <1>13, <1>14 DEF Overdue
  <1>16. \A n \in 1 .. a : n \in 1 .. b
    <2>1. a \in Nat /\ b \in Nat
      <3>1. DOMAIN r = 1 .. Len(r)
        BY <1>12, QueueTyped
      <3> HIDE DEF r
      <3> QED
        BY <3>1, SMTT(60)
    <2> QED
      BY <1>11, <2>1, SMTT(60)
  <1>17. a \in Overdue(r, t)
    BY <1>11, <1>15, <1>16 DEF Overdue
  <1>18. r[a].s \in Late(i, t)
    BY <1>17 DEF Late
  <1> QED
    BY <1>11, <1>18

\* Verdicts are given in the order of arrival (GateEngine.drain and the
\* front-first loop of reject_overdue).
THEOREM ReleasesInOrder == Spec => Fifo
  <1>1. ASSUME GateInv, Next, NEW i \in DOMAIN gates,
               NEW j \in DOMAIN gates[i].parked, NEW k \in DOMAIN gates[i].parked, j < k,
               sess[gates[i].parked[k].s] = "parked",
               sess'[gates[i].parked[k].s] \notin {"parked", "gone"}
        PROVE  sess'[gates[i].parked[j].s] # "parked"
    <2>1. gates[i].parked[j].s \in Parked(gates[i]) /\ gates[i].parked[k].s \in Parked(gates[i])
      BY DEF Parked
    <2>2. gates[i].parked[k].s \in Sessions
      BY <1>1, <2>1, GateTyped DEF GateInv, Sane
    <2>3. CASE Quiet
      BY <1>1, <2>2, <2>3 DEF Quiet
    <2>4. CASE \E ids, t : DrainGates(ids, t)
      BY <1>1, <2>1, <2>4, DrainFifo
    <2>5. CASE \E t \in 0 .. now : RejectOverdue(t)
      BY <1>1, <2>5, RejectFifo
    <2>6. CASE \E n \in 1 .. MaxGeneration : TopologyApplied(n)
      BY <2>4, <2>6 DEF TopologyApplied
    <2>7. CASE \E t \in 0 .. now : ExpireDue(t)
      BY <2>4, <2>7 DEF ExpireDue
    <2> QED
      BY <1>1, <2>3, <2>4, <2>5, <2>6, <2>7, StepKinds
  <1>2. GateInv /\ [Next]_vars =>
          [\A i \in DOMAIN gates : \A j, k \in DOMAIN gates[i].parked :
             LET early == gates[i].parked[j].s
                 late  == gates[i].parked[k].s
             IN j < k /\ sess[late] = "parked" /\ sess'[late] \notin {"parked", "gone"}
                  => sess'[early] # "parked"]_vars
    BY <1>1
  <1> QED
    BY <1>2, GateInvHolds, PTL DEF Spec, Fifo

LEMMA RefuseStep ==
    ASSUME GateInv, Next, NEW s \in Sessions, sess[s] \in {"new", "replanned", "expired"},
           sess'[s] = "rejected"
    PROVE  CheckRefuses(s)
  <1>1. sess \in [Sessions -> Phases]
    BY DEF GateInv
  <1>2. sess[s] # "parked" /\ sess'[s] # sess[s] /\ sess' # sess
    OBVIOUS
  <1>3. ASSUME NEW ids, NEW t, DrainGates(ids, t) PROVE FALSE
    BY <1>2, <1>3, Drained
  <1>4. CASE \E c \in Sessions : Check(c)
    <2>1. Check(s)
      BY <1>2, <1>4, CheckQuiet
    <2>2. CASE CheckPasses(s)
      BY <1>1, <2>2 DEF CheckPasses
    <2>3. CASE CheckParks(s)
      BY <1>1, <2>3 DEF CheckParks
    <2> QED
      BY <2>1, <2>2, <2>3, CheckCases
  <1>5. CASE \E c \in Sessions : Disconnect(c)
    <2>1. PICK c \in Sessions : sess' = [sess EXCEPT ![c] = "gone"]
      BY <1>5 DEF Disconnect
    <2>2. sess'[s] = "gone" \/ sess'[s] = sess[s]
      BY <1>1, <2>1
    <2> QED
      BY <1>2, <2>2
  <1>6. CASE \E t \in 0 .. now : RejectOverdue(t)
    <2>1. PICK t \in 0 .. now : RejectOverdue(t)
      BY <1>6
    <2>2. PICK i \in DOMAIN gates : s \in Late(i, t)
      BY <1>2, <2>1, RejectGates
    <2>3. s \in Parked(LiveGates[i])
      BY <2>2 DEF Late, Overdue, Parked
    <2>4. sess[s] = "parked"
      BY <2>3, LiveFacts
    <2> QED
      BY <1>2, <2>4
  <1>7. CASE \E n \in 1 .. MaxGeneration : TopologyApplied(n)
    BY <1>3, <1>7 DEF TopologyApplied
  <1>8. CASE \E t \in 0 .. now : ExpireDue(t)
    BY <1>3, <1>8 DEF ExpireDue
  <1>9. CASE \E i \in DOMAIN gates : Open(i)
    BY <1>2, <1>3, <1>9 DEF Open
  <1>10. CASE \E spec \in Specs : Close(spec)
    BY <1>2, <1>10 DEF Close
  <1>11. CASE Tick
    BY <1>2, <1>11 DEF Tick
  <1> QED
    BY <1>4, <1>5, <1>6, <1>7, <1>8, <1>9, <1>10, <1>11 DEF Next

\* A statement is refused for lack of room only when live clients fill the
\* limits (prune_dead before the limits in GateEngine.check).
THEOREM RefusalsAreFull == Spec => RefusedOnlyWhenFull
  <1>1. ASSUME GateInv, Next, NEW s \in Sessions, sess[s] \in {"new", "replanned", "expired"},
               sess'[s] = "rejected"
        PROVE  \/ Cardinality({c \in Waiting : sess[c] = "parked"}) >= MaxTotal
               \/ \E i \in DOMAIN gates :
                    /\ Buffers(gates[i], Scope[s])
                    /\ Cardinality({c \in Parked(gates[i]) : sess[c] = "parked"}) >= MaxSessions
    <2> DEFINE i == Min(Hit(s))
    <2>1. Hit(s) # {} /\ Full(LiveGates, i)
      BY <1>1, RefuseStep DEF CheckRefuses
    <2>2. i \in DOMAIN gates /\ Buffers(gates[i], Scope[s])
      BY <1>1, <2>1, HitIs
    <2> HIDE DEF i
    <2>3. Sane(LiveGates) /\ DOMAIN LiveGates = DOMAIN gates
      BY <1>1, LiveFacts
    <2>4. TotalParked(LiveGates) = Cardinality({c \in Waiting : sess[c] = "parked"})
      <3>1. AllParked(LiveGates) = {c \in AllParked(gates) : sess[c] = "parked"}
        BY <1>1, LiveFacts
      <3>2. Waiting = AllParked(gates)
        BY DEF Waiting, AllParked
      <3> QED
        BY <2>3, <3>1, <3>2, TotalCount
    <2>5. Len(LiveGates[i].parked) = Cardinality({c \in Parked(gates[i]) : sess[c] = "parked"})
      <3>1. Parked(LiveGates[i]) = {c \in Parked(gates[i]) : sess[c] = "parked"}
        BY <1>1, <2>2, LiveFacts
      <3>2. /\ LiveGates[i].parked \in Seq(Entry) /\ Once(LiveGates[i].parked)
            /\ Parked(LiveGates[i]) = Queued(LiveGates[i].parked)
        BY <2>2, <2>3, GateTyped DEF Sane
      <3> QED
        BY <3>1, <3>2, QueueCount
    <2>6. TotalParked(LiveGates) >= MaxTotal \/ Len(LiveGates[i].parked) >= MaxSessions
      BY <2>1 DEF Full
    <2> QED
      BY <2>2, <2>4, <2>5, <2>6
  <1>2. GateInv /\ [Next]_vars =>
          [\A s \in Sessions :
             sess[s] \in {"new", "replanned", "expired"} /\ sess'[s] = "rejected" =>
               \/ Cardinality({c \in Waiting : sess[c] = "parked"}) >= MaxTotal
               \/ \E i \in DOMAIN gates :
                    /\ Buffers(gates[i], Scope[s])
                    /\ Cardinality({c \in Parked(gates[i]) : sess[c] = "parked"}) >= MaxSessions]_vars
    BY <1>1
  <1> QED
    BY <1>2, GateInvHolds, PTL DEF Spec, RefusedOnlyWhenFull
=============================================================================
