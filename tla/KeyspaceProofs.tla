--------------------------- MODULE KeyspaceProofs ---------------------------
(***************************************************************************)
(* The keyspace for every base and width, so for 8 digits in base 256: the *)
(* partition check accepts exactly the lists of ranges that own every id   *)
(* once, an even split tiles its range, and a range reads back from its    *)
(* text.                                                                   *)
(***************************************************************************)
EXTENDS Keyspace, FiniteSetTheorems, WellFoundedInduction, TLAPS

\* Leaves are for Zenon, unless they name another prover.
USE ZenonT(60)

-----------------------------------------------------------------------------
(***************************************************************************)
(* Numbers defined digit by digit.                                         *)
(***************************************************************************)

\* A set of numbers that is not empty has a least one.
LEMMA LeastId ==
    ASSUME NEW T, T \subseteq Nat, T # {}
    PROVE  \E n \in T : \A m \in T : n <= m
  <1> DEFINE less == OpToRel(<, Nat)
  <1>1. IsWellFoundedOn(less, Nat)
    BY NatLessThanWellFounded
  <1>2. \A m, n \in Nat : m < n => <<m, n>> \in less
    BY SMTT(60) DEF OpToRel
  <1> HIDE DEF less
  <1>3. PICK n \in T : \A m \in T : ~(<<m, n>> \in less)
    BY <1>1, WFMin
  <1>4. n \in Nat /\ \A m \in T : m \in Nat
    OBVIOUS
  <1>5. \A m \in T : ~(m < n)
    BY <1>2, <1>3, <1>4
  <1> QED
    BY <1>4, <1>5, SMTT(60)

\* f lists the powers of Base.
Powers(f, n) == f = [k \in 0 .. n |-> IF k = 0 THEN 1 ELSE f[k - 1] * Base]

PowersOn(f, n) == f[0] = 1 /\ \A k \in 1 .. n : f[k] = f[k - 1] * Base

LEMMA PowersEntries ==
    ASSUME NEW n \in Nat, NEW f, Powers(f, n)
    PROVE  PowersOn(f, n)
  <1>1. \A k \in 0 .. n : f[k] = IF k = 0 THEN 1 ELSE f[k - 1] * Base
    BY DEF Powers
  <1>2. 0 \in 0 .. n /\ \A k \in 1 .. n : k \in 0 .. n /\ k # 0
    BY SMTT(60)
  <1> QED
    BY <1>1, <1>2 DEF PowersOn

LEMMA PowersExists ==
    ASSUME NEW m \in Nat
    PROVE  \E f : Powers(f, m)
  <1> DEFINE T == {n \in Nat : ~ \E f : Powers(f, n)}
  <1> SUFFICES ASSUME T # {} PROVE FALSE
    OBVIOUS
  <1>1. PICK n \in T : \A k \in T : n <= k
    <2>1. T \subseteq Nat
      OBVIOUS
    <2> HIDE DEF T
    <2> QED
      BY <2>1, LeastId
  <1>2. n \in Nat /\ ~ \E f : Powers(f, n)
    OBVIOUS
  <1>3. n # 0
    <2> DEFINE f == [k \in 0 .. 0 |-> 1]
    <2>1. f = [k \in 0 .. 0 |-> IF k = 0 THEN 1 ELSE f[k - 1] * Base]
      BY SMTT(60)
    <2>2. Powers(f, 0)
      BY <2>1 DEF Powers
    <2> QED
      BY <1>2, <2>2
  <1>4. n - 1 \in Nat /\ ~(n <= n - 1)
    BY <1>2, <1>3, SMTT(60)
  <1>5. PICK f : Powers(f, n - 1)
    BY <1>1, <1>4
  <1> DEFINE last == f[n - 1] * Base
             g == [k \in 0 .. n |-> IF k = n THEN last ELSE f[k]]
  <1>6. f[0] = 1 /\ \A k \in 1 .. n - 1 : f[k] = f[k - 1] * Base
    <2>1. PowersOn(f, n - 1)
      BY <1>4, <1>5, PowersEntries
    <2> QED
      BY <2>1 DEF PowersOn
  <1>7. /\ g[0] = f[0] /\ g[n] = last /\ g[n - 1] = f[n - 1]
        /\ \A k \in 1 .. n - 1 : g[k] = f[k] /\ g[k - 1] = f[k - 1]
    <2> HIDE DEF last
    <2> QED
      BY <1>2, <1>3, SMTT(60)
  <1>8. \A k \in 0 .. n : g[k] = IF k = 0 THEN 1 ELSE g[k - 1] * Base
    <2> SUFFICES ASSUME NEW k \in 0 .. n
                 PROVE  g[k] = IF k = 0 THEN 1 ELSE g[k - 1] * Base
      OBVIOUS
    <2> HIDE DEF g
    <2>1. k = 0 \/ k = n \/ k \in 1 .. n - 1
      BY <1>2, SMTT(60)
    <2> QED
      BY <1>3, <1>6, <1>7, <2>1
  <1>9. Powers(g, n)
    <2>1. g = [k \in 0 .. n |-> g[k]]
      OBVIOUS
    <2> HIDE DEF g
    <2> QED
      BY <1>8, <2>1 DEF Powers
  <1> QED
    BY <1>2, <1>9

\* The powers of Base.
LEMMA PowerSteps ==
    /\ Power[0] = 1
    /\ \A n \in 1 .. Width : Power[n] = Power[n - 1] * Base
  <1>1. Width \in Nat
    BY KeyspaceAssumption
  <1>2. \E h : h = [k \in 0 .. Width |-> IF k = 0 THEN 1 ELSE h[k - 1] * Base]
    <2>1. PICK h : Powers(h, Width)
      BY <1>1, PowersExists
    <2> QED
      BY <2>1 DEF Powers
  <1>3. Powers(Power, Width)
    BY <1>2 DEF Powers, Power
  <1>4. PowersOn(Power, Width)
    BY <1>1, <1>3, PowersEntries
  <1> QED
    BY <1>4 DEF PowersOn

\* They are positive numbers.
LEMMA PowerType == \A n \in 0 .. Width : Power[n] \in Nat \ {0}
  <1>1. Width \in Nat /\ Base \in Nat \ {0}
    BY KeyspaceAssumption
  <1> DEFINE T == {n \in 0 .. Width : Power[n] \notin Nat \ {0}}
  <1> SUFFICES ASSUME T # {} PROVE FALSE
    OBVIOUS
  <1>2. PICK n \in T : \A k \in T : n <= k
    <2>1. T \subseteq Nat
      BY <1>1, SMTT(60)
    <2> HIDE DEF T
    <2> QED
      BY <2>1, LeastId
  <1>3. n \in 0 .. Width /\ Power[n] \notin Nat \ {0}
    OBVIOUS
  <1>4. CASE n = 0
    <2>1. Power[0] = 1
      BY PowerSteps
    <2> QED
      BY <1>3, <1>4, <2>1, SMTT(60)
  <1>5. CASE n # 0
    <2>1. n \in 1 .. Width /\ n - 1 \in 0 .. Width /\ ~(n <= n - 1)
      BY <1>1, <1>3, <1>5, SMTT(60)
    <2>2. Power[n] = Power[n - 1] * Base
      BY <2>1, PowerSteps
    <2>3. Power[n - 1] \in Nat \ {0}
      BY <1>2, <2>1
    <2> QED
      BY <1>1, <1>3, <2>2, <2>3, SMTT(60)
  <1> QED
    BY <1>4, <1>5

LEMMA TopType == Top \in Nat \ {0}
  <1>1. Width \in 0 .. Width
    BY KeyspaceAssumption, SMTT(60)
  <1> QED
    BY <1>1, PowerType DEF Top

\* f lists the numbers that the first digits of s spell, from b on.
Spells(f, b, s, n) == f = [k \in 0 .. n |-> IF k = 0 THEN b ELSE f[k - 1] * Base + s[k]]

SpellsOn(f, b, s, n) == f[0] = b /\ \A k \in 1 .. n : f[k] = f[k - 1] * Base + s[k]

LEMMA SpellsEntries ==
    ASSUME NEW s, NEW b, NEW n \in Nat, NEW f, Spells(f, b, s, n)
    PROVE  SpellsOn(f, b, s, n)
  <1>1. \A k \in 0 .. n : f[k] = IF k = 0 THEN b ELSE f[k - 1] * Base + s[k]
    BY DEF Spells
  <1>2. 0 \in 0 .. n /\ \A k \in 1 .. n : k \in 0 .. n /\ k # 0
    BY SMTT(60)
  <1> QED
    BY <1>1, <1>2 DEF SpellsOn

LEMMA SpellsExists ==
    ASSUME NEW s, NEW b, NEW m \in Nat
    PROVE  \E f : Spells(f, b, s, m)
  <1> DEFINE T == {n \in Nat : ~ \E f : Spells(f, b, s, n)}
  <1> SUFFICES ASSUME T # {} PROVE FALSE
    OBVIOUS
  <1>1. PICK n \in T : \A k \in T : n <= k
    <2>1. T \subseteq Nat
      OBVIOUS
    <2> HIDE DEF T
    <2> QED
      BY <2>1, LeastId
  <1>2. n \in Nat /\ ~ \E f : Spells(f, b, s, n)
    OBVIOUS
  <1>3. n # 0
    <2> DEFINE f == [k \in 0 .. 0 |-> b]
    <2>1. f = [k \in 0 .. 0 |-> IF k = 0 THEN b ELSE f[k - 1] * Base + s[k]]
      BY SMTT(60)
    <2>2. Spells(f, b, s, 0)
      BY <2>1 DEF Spells
    <2> QED
      BY <1>2, <2>2
  <1>4. n - 1 \in Nat /\ ~(n <= n - 1)
    BY <1>2, <1>3, SMTT(60)
  <1>5. PICK f : Spells(f, b, s, n - 1)
    BY <1>1, <1>4
  <1> DEFINE last == f[n - 1] * Base + s[n]
             g == [k \in 0 .. n |-> IF k = n THEN last ELSE f[k]]
  <1>6. f[0] = b /\ \A k \in 1 .. n - 1 : f[k] = f[k - 1] * Base + s[k]
    <2>1. SpellsOn(f, b, s, n - 1)
      BY <1>4, <1>5, SpellsEntries
    <2> QED
      BY <2>1 DEF SpellsOn
  <1>7. /\ g[0] = f[0] /\ g[n] = last /\ g[n - 1] = f[n - 1]
        /\ \A k \in 1 .. n - 1 : g[k] = f[k] /\ g[k - 1] = f[k - 1]
    <2> HIDE DEF last
    <2> QED
      BY <1>2, <1>3, SMTT(60)
  <1>8. \A k \in 0 .. n : g[k] = IF k = 0 THEN b ELSE g[k - 1] * Base + s[k]
    <2> SUFFICES ASSUME NEW k \in 0 .. n
                 PROVE  g[k] = IF k = 0 THEN b ELSE g[k - 1] * Base + s[k]
      OBVIOUS
    <2> HIDE DEF g
    <2>1. k = 0 \/ k = n \/ k \in 1 .. n - 1
      BY <1>2, SMTT(60)
    <2> QED
      BY <1>3, <1>6, <1>7, <2>1
  <1>9. Spells(g, b, s, n)
    <2>1. g = [k \in 0 .. n |-> g[k]]
      OBVIOUS
    <2> HIDE DEF g
    <2> QED
      BY <1>8, <2>1 DEF Spells
  <1> QED
    BY <1>2, <1>9

\* from_str_radix, digit by digit.
LEMMA RadixList ==
    ASSUME NEW s, Len(s) \in Nat
    PROVE  \E f : /\ FromRadix(s) = f[Len(s)] /\ f[0] = 0
                  /\ \A k \in 1 .. Len(s) : f[k] = f[k - 1] * Base + s[k]
  <1> DEFINE f == CHOOSE f : f = [k \in 0 .. Len(s) |-> IF k = 0 THEN 0 ELSE f[k - 1] * Base + s[k]]
  <1>1. FromRadix(s) = f[Len(s)]
    BY DEF FromRadix
  <1>2. \E h : h = [k \in 0 .. Len(s) |-> IF k = 0 THEN 0 ELSE h[k - 1] * Base + s[k]]
    <2>1. PICK h : Spells(h, 0, s, Len(s))
      BY SpellsExists
    <2> QED
      BY <2>1 DEF Spells
  <1>3. Spells(f, 0, s, Len(s))
    BY <1>2 DEF Spells
  <1> HIDE DEF f
  <1>4. f[0] = 0 /\ \A k \in 1 .. Len(s) : f[k] = f[k - 1] * Base + s[k]
    <2>1. SpellsOn(f, 0, s, Len(s))
      BY <1>3, SpellsEntries
    <2> QED
      BY <2>1 DEF SpellsOn
  <1> QED
    BY <1>1, <1>4

-----------------------------------------------------------------------------
(***************************************************************************)
(* The partition check.                                                    *)
(***************************************************************************)

\* A range is not empty, and lies in the keyspace; it is open exactly when it
\* reaches the end.
LEMMA RangeFacts ==
    ASSUME NEW r \in Ranges
    PROVE  /\ r.start \in Nat
           /\ EndExclusive(r) \in Nat
           /\ r.start < EndExclusive(r)
           /\ EndExclusive(r) <= Top
           /\ r.end = Open <=> EndExclusive(r) = Top
           /\ r.end # Open => r.end = EndExclusive(r)
           /\ r = [start |-> r.start, end |-> r.end]
           /\ r.start \in Ids /\ r.end \in Ids \cup {Open}
           /\ NewRange(r.start, r.end) = r
  <1>1. PICK s \in Ids, e \in Ids \cup {Open} : r = NewRange(s, e) /\ r # Err
    BY SMTT(60) DEF Ranges
  <1>2. r = [start |-> s, end |-> e] /\ ~(e # Open /\ s >= e)
    BY <1>1 DEF NewRange
  <1>3. r.start = s /\ r.end = e /\ NewRange(s, e) = [start |-> s, end |-> e]
    BY <1>2 DEF NewRange
  <1>4. Top \in Nat \ {0}
    BY TopType
  <1>5. s \in 0 .. Top - 1 /\ (e \in 0 .. Top - 1 \/ e = -1)
    BY DEF Ids, Open
  <1>6. EndExclusive(r) = IF e = -1 THEN Top ELSE e
    BY <1>3 DEF EndExclusive, Open
  <1>7. /\ s \in Nat
        /\ EndExclusive(r) \in Nat
        /\ s < EndExclusive(r)
        /\ EndExclusive(r) <= Top
        /\ e = -1 <=> EndExclusive(r) = Top
        /\ e # -1 => e = EndExclusive(r)
    <2>1. ~(e # -1 /\ s >= e)
      BY <1>2 DEF Open
    <2> QED
      BY <1>4, <1>5, <1>6, <2>1, SMTT(60)
  <1> QED
    BY <1>2, <1>3, <1>7 DEF Open

\* A list of numbers that grows from each to the next grows.
LEMMA StepsAscend ==
    ASSUME NEW n \in Nat, NEW S \in [1 .. n -> Nat], \A i \in 1 .. n - 1 : S[i] < S[i + 1]
    PROVE  \A i, j \in 1 .. n : i < j => S[i] < S[j]
  <1> DEFINE T == {j \in 1 .. n : \E i \in 1 .. n : i < j /\ ~(S[i] < S[j])}
  <1>1. T = {}
    <2> SUFFICES ASSUME T # {} PROVE FALSE
      OBVIOUS
    <2>1. PICK j \in T : \A k \in T : j <= k
      <3>1. T \subseteq Nat
        BY SMTT(60)
      <3> HIDE DEF T
      <3> QED
        BY <3>1, LeastId
    <2>2. PICK i \in 1 .. n : i < j /\ ~(S[i] < S[j])
      OBVIOUS
    <2>3. j \in 1 .. n /\ j - 1 \in 1 .. n /\ j - 1 \in 1 .. n - 1 /\ (j - 1) + 1 = j /\ ~(j <= j - 1)
      BY <2>1, <2>2, SMTT(60)
    <2>4. S[j - 1] < S[j]
      BY <2>3
    <2>5. i = j - 1 \/ i < j - 1
      BY <2>2, <2>3, SMTT(60)
    <2>6. i < j - 1 => S[i] < S[j - 1]
      BY <2>1, <2>3
    <2>7. S[i] \in Nat /\ S[j - 1] \in Nat /\ S[j] \in Nat
      BY <2>3
    <2>8. \A a, b, c \in Nat : a < b /\ b < c => a < c
      BY SMTT(60)
    <2> QED
      BY <2>2, <2>4, <2>5, <2>6, <2>7, <2>8
  <1> QED
    BY <1>1

\* Intervals from S[i] to E[i] that follow each other from low to high.
Adjacent(S, E, n, low, high) ==
    /\ n > 0
    /\ \A i \in 1 .. n : S[i] < E[i]
    /\ S[1] = low
    /\ \A i \in 1 .. n - 1 : E[i] = S[i + 1]
    /\ E[n] = high

Within(S, E, j, x) == S[j] <= x /\ x < E[j]

WithinOne(S, E, n, x) == \E i \in 1 .. n : \A j \in 1 .. n : Within(S, E, j, x) <=> j = i

\* Every number between low and high is in exactly one of them.
LEMMA AdjacentOwn ==
    ASSUME NEW n \in Nat, NEW S \in [1 .. n -> Nat], NEW E \in [1 .. n -> Nat],
           NEW low \in Nat, NEW high \in Nat, Adjacent(S, E, n, low, high)
    PROVE  /\ \A i, j \in 1 .. n : i < j => S[i] < S[j]
           /\ \A x \in Nat : low <= x /\ x < high => WithinOne(S, E, n, x)
           /\ \A x \in Nat, j \in 1 .. n : Within(S, E, j, x) => low <= x /\ x < high
  <1>0. /\ n > 0 /\ \A i \in 1 .. n : S[i] < E[i]
        /\ S[1] = low /\ \A i \in 1 .. n - 1 : E[i] = S[i + 1]
        /\ E[n] = high
    BY DEF Adjacent
  <1>1. \A i \in 1 .. n - 1 : i \in 1 .. n /\ i + 1 \in 1 .. n
    BY SMTT(60)
  <1>2. \A i, j \in 1 .. n : i < j => S[i] < S[j]
    <2>1. \A i \in 1 .. n - 1 : S[i] < S[i + 1]
      BY <1>0, <1>1
    <2> QED
      BY <2>1, StepsAscend
  <1>3. \A i, j \in 1 .. n : i < j => E[i] <= S[j]
    <2> SUFFICES ASSUME NEW i \in 1 .. n, NEW j \in 1 .. n, i < j PROVE E[i] <= S[j]
      OBVIOUS
    <2>1. i \in 1 .. n - 1 /\ i + 1 \in 1 .. n /\ (i + 1 = j \/ i + 1 < j)
      BY SMTT(60)
    <2>2. E[i] = S[i + 1] /\ (i + 1 = j \/ S[i + 1] < S[j]) /\ S[j] \in Nat /\ S[i + 1] \in Nat
      BY <1>0, <1>2, <2>1
    <2> QED
      BY <2>2, SMTT(60)
  <1>4. ASSUME NEW x \in Nat, low <= x, x < high
        PROVE  WithinOne(S, E, n, x)
    <2> DEFINE T == {i \in 1 .. n : x < E[i]}
    <2>1. n \in T
      BY <1>0, <1>4, SMTT(60)
    <2>2. PICK i \in T : \A k \in T : i <= k
      <3>1. T \subseteq Nat
        BY SMTT(60)
      <3> HIDE DEF T
      <3> QED
        BY <2>1, <3>1, LeastId
    <2>3. i \in 1 .. n /\ x < E[i]
      OBVIOUS
    <2>4. S[i] <= x
      <3>1. CASE i = 1
        BY <1>0, <1>4, <3>1
      <3>2. CASE i # 1
        <4>1. i - 1 \in 1 .. n - 1 /\ i - 1 \in 1 .. n /\ (i - 1) + 1 = i /\ ~(i <= i - 1)
          BY <2>3, <3>2, SMTT(60)
        <4>2. ~(x < E[i - 1])
          BY <2>2, <4>1
        <4>3. E[i - 1] = S[i] /\ S[i] \in Nat
          BY <1>0, <2>3, <4>1
        <4> QED
          BY <4>2, <4>3, SMTT(60)
      <3> QED
        BY <3>1, <3>2
    <2>5. ASSUME NEW j \in 1 .. n, S[j] <= x, x < E[j] PROVE j = i
      <3>1. S[i] \in Nat /\ S[j] \in Nat /\ E[i] \in Nat /\ E[j] \in Nat
        BY <2>3
      <3>2. ~(i < j)
        <4>1. i < j => E[i] <= S[j]
          BY <1>3, <2>3
        <4> QED
          BY <2>3, <2>5, <3>1, <4>1, SMTT(60)
      <3>3. ~(j < i)
        <4>1. j < i => E[j] <= S[i]
          BY <1>3, <2>3
        <4> QED
          BY <2>4, <2>5, <3>1, <4>1, SMTT(60)
      <3> QED
        BY <2>3, <3>2, <3>3, SMTT(60)
    <2> HIDE DEF T
    <2> QED
      BY <2>3, <2>4, <2>5 DEF WithinOne, Within
  <1>5. ASSUME NEW x \in Nat, NEW j \in 1 .. n, S[j] <= x, x < E[j]
        PROVE  low <= x /\ x < high
    <2>1. 1 \in 1 .. n /\ n \in 1 .. n /\ (j = 1 \/ 1 < j) /\ (j = n \/ j < n)
      BY <1>0, SMTT(60)
    <2>2. S[1] \in Nat /\ S[j] \in Nat /\ E[j] \in Nat /\ E[n] \in Nat /\ S[n] \in Nat /\ S[n] < E[n]
      BY <1>0, <2>1
    <2>3. j = 1 \/ S[1] < S[j]
      BY <1>2, <2>1
    <2>4. j = n \/ E[j] <= S[n]
      BY <1>3, <2>1
    <2> QED
      BY <1>0, <1>5, <2>2, <2>3, <2>4, SMTT(60)
  <1> QED
    BY <1>2, <1>4, <1>5 DEF Within

\* A set has one element exactly when it is a singleton.
LEMMA OneElement ==
    ASSUME NEW X, IsFiniteSet(X)
    PROVE  Cardinality(X) = 1 <=> \E x : X = {x}
  BY FS_Singleton

\* An id is owned once exactly when one range holds it and no other does.
LEMMA OwnedOnce ==
    ASSUME NEW ranges, NEW n \in Nat, DOMAIN ranges = 1 .. n, NEW x
    PROVE  Cardinality(Owners(ranges, x)) = 1 <=>
              \E i \in 1 .. n : \A j \in 1 .. n : InRange(ranges[j], x) <=> j = i
  <1>2. IsFiniteSet(Owners(ranges, x))
    <2>1. IsFiniteSet(1 .. n)
      BY FS_Interval, SMTT(60)
    <2>2. Owners(ranges, x) \subseteq 1 .. n
      BY DEF Owners
    <2> QED
      BY <2>1, <2>2, FS_Subset
  <1>3. \A i : i \in Owners(ranges, x) <=> i \in 1 .. n /\ InRange(ranges[i], x)
    BY DEF Owners
  <1>4. Cardinality(Owners(ranges, x)) = 1 <=> \E i : Owners(ranges, x) = {i}
    BY <1>2, OneElement
  <1>5. ASSUME NEW i, Owners(ranges, x) = {i}
        PROVE  i \in 1 .. n /\ \A j \in 1 .. n : InRange(ranges[j], x) <=> j = i
    BY <1>3, <1>5
  <1>6. ASSUME NEW i \in 1 .. n, \A j \in 1 .. n : InRange(ranges[j], x) <=> j = i
        PROVE  Owners(ranges, x) = {i}
    BY <1>3, <1>6
  <1> QED
    BY <1>4, <1>5, <1>6

\* What a list of ranges is made of.
LEMMA ListFacts ==
    ASSUME NEW ranges \in Seq(Ranges)
    PROVE  /\ Len(ranges) \in Nat
           /\ DOMAIN ranges = 1 .. Len(ranges)
           /\ \A i \in 1 .. Len(ranges) : ranges[i] \in Ranges
           /\ ranges # <<>> <=> Len(ranges) > 0
           /\ ranges # <<>> => Last(ranges) = ranges[Len(ranges)]
  <1>1. /\ Len(ranges) \in Nat
        /\ DOMAIN ranges = 1 .. Len(ranges)
        /\ \A i \in 1 .. Len(ranges) : ranges[i] \in Ranges
        /\ ranges # <<>> <=> Len(ranges) > 0
    BY SMTT(60)
  <1>2. Last(ranges) = ranges[Len(ranges)]
    BY DEF Last
  <1> QED
    BY <1>1, <1>2

\* A list that validate_partition accepts owns every id once, in ascending order.
LEMMA AcceptedOwns ==
    ASSUME NEW ranges \in Seq(Ranges), ValidatePartition(ranges)
    PROVE  /\ \A i \in Ids : Cardinality(Owners(ranges, i)) = 1
           /\ \A i, j \in DOMAIN ranges : i < j => ranges[i].start < ranges[j].start
  <1> DEFINE n == Len(ranges)
             S == [i \in 1 .. n |-> ranges[i].start]
             E == [i \in 1 .. n |-> EndExclusive(ranges[i])]
  <1>1. /\ n \in Nat /\ n > 0
        /\ DOMAIN ranges = 1 .. n
        /\ \A i \in 1 .. n : ranges[i] \in Ranges
        /\ Last(ranges) = ranges[n]
    BY ListFacts DEF ValidatePartition
  <1>2. /\ S \in [1 .. n -> Nat]
        /\ E \in [1 .. n -> Nat]
        /\ \A i \in 1 .. n : S[i] < E[i] /\ S[i] = ranges[i].start /\ E[i] = EndExclusive(ranges[i])
    BY <1>1, RangeFacts
  <1>3. Top \in Nat /\ 0 \in Nat
    BY TopType, SMTT(60)
  <1>4. 1 \in 1 .. n /\ n \in 1 .. n /\ \A i \in 1 .. n - 1 : i \in 1 .. n /\ i + 1 \in 1 .. n
    BY <1>1, SMTT(60)
  <1>5. S[1] = 0 /\ E[n] = Top
    <2>1. ranges[1].start = 0 /\ ranges[n].end = Open
      BY <1>1 DEF ValidatePartition
    <2> QED
      BY <1>1, <1>2, <1>4, <2>1, RangeFacts
  <1>6. \A i \in 1 .. n - 1 : E[i] = S[i + 1]
    <2> SUFFICES ASSUME NEW i \in 1 .. n - 1 PROVE E[i] = S[i + 1]
      OBVIOUS
    <2>1. ranges[i].end = ranges[i + 1].start
      BY DEF ValidatePartition
    <2>2. ranges[i + 1].start \in Nat /\ ranges[i] \in Ranges
      BY <1>1, <1>4, RangeFacts
    <2>3. ranges[i].end # Open
      BY <2>1, <2>2, SMTT(60) DEF Open
    <2>4. ranges[i].end = EndExclusive(ranges[i])
      BY <2>2, <2>3, RangeFacts
    <2> QED
      BY <1>2, <1>4, <2>1, <2>4
  <1> HIDE DEF n, S, E
  <1>7. /\ \A i, j \in 1 .. n : i < j => S[i] < S[j]
        /\ \A x \in Nat : 0 <= x /\ x < Top => WithinOne(S, E, n, x)
    <2>1. Adjacent(S, E, n, 0, Top)
      BY <1>1, <1>2, <1>5, <1>6 DEF Adjacent
    <2> QED
      BY <1>1, <1>2, <1>3, <2>1, AdjacentOwn
  <1>8. ASSUME NEW x \in Ids PROVE Cardinality(Owners(ranges, x)) = 1
    <2>1. x \in Nat /\ 0 <= x /\ x < Top
      BY <1>3, SMTT(60) DEF Ids
    <2>2. PICK i \in 1 .. n : \A j \in 1 .. n : Within(S, E, j, x) <=> j = i
      BY <1>7, <2>1 DEF WithinOne
    <2>3. \A j \in 1 .. n : InRange(ranges[j], x) <=> Within(S, E, j, x)
      <3> SUFFICES ASSUME NEW j \in 1 .. n PROVE InRange(ranges[j], x) <=> Within(S, E, j, x)
        OBVIOUS
      <3>1. S[j] \in Nat /\ S[j] = ranges[j].start /\ E[j] = EndExclusive(ranges[j])
        BY <1>2
      <3>2. x >= S[j] <=> S[j] <= x
        BY <2>1, <3>1, SMTT(60)
      <3> QED
        BY <3>1, <3>2 DEF InRange, Within
    <2>4. \A j \in 1 .. n : InRange(ranges[j], x) <=> j = i
      BY <2>2, <2>3
    <2>5. n \in Nat /\ DOMAIN ranges = 1 .. n
      BY ListFacts DEF n
    <2> HIDE DEF n
    <2> QED
      BY <2>4, <2>5, OwnedOnce
  <1>9. ASSUME NEW i \in DOMAIN ranges, NEW j \in DOMAIN ranges, i < j
        PROVE  ranges[i].start < ranges[j].start
    <2>1. i \in 1 .. n /\ j \in 1 .. n
      BY <1>1
    <2>2. S[i] < S[j]
      BY <1>7, <1>9, <2>1
    <2> QED
      BY <1>2, <2>1, <2>2
  <1> QED
    BY <1>8, <1>9

\* A list in ascending order that owns every id once is accepted.
LEMMA OwningAccepted ==
    ASSUME NEW ranges \in Seq(Ranges),
           \A i \in Ids : Cardinality(Owners(ranges, i)) = 1,
           \A i, j \in DOMAIN ranges : i < j => ranges[i].start < ranges[j].start
    PROVE  ValidatePartition(ranges)
  <1> DEFINE n == Len(ranges)
             S(i) == ranges[i].start
             E(i) == EndExclusive(ranges[i])
  <1>1. /\ n \in Nat
        /\ DOMAIN ranges = 1 .. n
        /\ \A i \in 1 .. n : ranges[i] \in Ranges
        /\ ranges # <<>> <=> n > 0
        /\ ranges # <<>> => Last(ranges) = ranges[n]
    BY ListFacts
  <1>2. \A i \in 1 .. n : S(i) \in Nat /\ E(i) \in Nat /\ S(i) < E(i) /\ E(i) <= Top
    BY <1>1, RangeFacts
  <1>3. \A i, j \in 1 .. n : i < j => S(i) < S(j)
    BY <1>1
  <1>4. Top \in Nat \ {0}
    BY TopType
  <1>5. ASSUME NEW x \in Nat, x < Top
        PROVE  \E i \in 1 .. n : \A j \in 1 .. n : (S(j) <= x /\ x < E(j)) <=> j = i
    <2>1. x \in Ids
      BY <1>4, <1>5, SMTT(60) DEF Ids
    <2>2. PICK i \in 1 .. n : \A j \in 1 .. n : InRange(ranges[j], x) <=> j = i
      BY <2>1, ListFacts, OwnedOnce
    <2>3. \A j \in 1 .. n : x >= S(j) <=> S(j) <= x
      BY <1>2, SMTT(60)
    <2> QED
      BY <2>2, <2>3 DEF InRange
  <1>6. ASSUME NEW i \in 1 .. n, NEW k \in 1 .. n, i # k PROVE ~(S(k) <= S(i) /\ S(i) < E(k))
    <2>1. S(i) \in Nat /\ S(i) < Top /\ S(i) <= S(i) /\ S(i) < E(i)
      <3>1. S(i) \in Nat /\ E(i) \in Nat /\ S(i) < E(i) /\ E(i) <= Top
        BY <1>2
      <3> HIDE DEF S, E
      <3> QED
        BY <1>4, <3>1, SMTT(60)
    <2> HIDE DEF S, E
    <2>2. PICK o \in 1 .. n : \A j \in 1 .. n : (S(j) <= S(i) /\ S(i) < E(j)) <=> j = o
      BY <1>5, <2>1
    <2> QED
      BY <1>6, <2>1, <2>2
  <1> HIDE DEF S, E
  \* The owner of the end of range i starts after range i does.
  <1>7. ASSUME NEW i \in 1 .. n, E(i) < Top
        PROVE  \E k \in 1 .. n : i < k /\ S(k) <= E(i)
    <2>1. PICK k \in 1 .. n : \A j \in 1 .. n : (S(j) <= E(i) /\ E(i) < E(j)) <=> j = k
      BY <1>2, <1>5, <1>7
    <2>2. S(k) <= E(i) /\ E(i) < E(k)
      BY <2>1
    <2>3. S(i) \in Nat /\ E(i) \in Nat /\ S(k) \in Nat /\ E(k) \in Nat /\ S(i) < E(i)
      BY <1>2
    <2>4. k # i
      BY <2>2, <2>3, SMTT(60)
    <2>5. ~(k < i)
      <3>1. k < i => S(k) < S(i)
        BY <1>3
      <3>2. ~(S(k) <= S(i) /\ S(i) < E(k))
        BY <1>6, <2>4
      <3> QED
        BY <2>2, <2>3, <3>1, <3>2, SMTT(60)
    <2>6. i < k
      BY <1>1, <2>4, <2>5, SMTT(60)
    <2> QED
      BY <2>2, <2>6
  <1>8. n > 0 /\ S(1) = 0
    <2>1. PICK i \in 1 .. n : \A j \in 1 .. n : (S(j) <= 0 /\ 0 < E(j)) <=> j = i
      <3>1. 0 \in Nat /\ 0 < Top
        BY <1>4, SMTT(60)
      <3> QED
        BY <1>5, <3>1
    <2>2. S(i) <= 0 /\ S(i) \in Nat
      BY <1>2, <2>1
    <2>3. n > 0 /\ 1 \in 1 .. n /\ (i = 1 \/ 1 < i)
      BY <1>1, SMTT(60)
    <2>4. S(1) \in Nat /\ (i = 1 \/ S(1) < S(i))
      BY <1>2, <1>3, <2>3
    <2> QED
      BY <2>2, <2>3, <2>4, SMTT(60)
  <1>9. ASSUME NEW i \in 1 .. n - 1 PROVE ranges[i].end = ranges[i + 1].start
    <2>1. i \in 1 .. n /\ i + 1 \in 1 .. n /\ i # i + 1 /\ i < i + 1
      BY <1>1, SMTT(60)
    <2>2. /\ S(i) \in Nat /\ E(i) \in Nat /\ S(i) < E(i)
          /\ S(i + 1) \in Nat /\ E(i + 1) \in Nat /\ S(i + 1) < E(i + 1) /\ E(i + 1) <= Top
          /\ S(i) < S(i + 1)
      BY <1>2, <1>3, <2>1
    <2>3. ~(S(i) <= S(i + 1) /\ S(i + 1) < E(i))
      BY <1>6, <2>1
    <2>4. ~(E(i) < S(i + 1))
      <3> SUFFICES ASSUME E(i) < S(i + 1) PROVE FALSE
        OBVIOUS
      <3>1. E(i) < Top
        BY <1>4, <2>2, SMTT(60)
      <3>2. PICK k \in 1 .. n : i < k /\ S(k) <= E(i)
        BY <1>7, <2>1, <3>1
      <3>3. k = i + 1 \/ i + 1 < k
        BY <1>1, <3>2, SMTT(60)
      <3>4. S(k) \in Nat /\ (k = i + 1 \/ S(i + 1) < S(k))
        BY <1>2, <1>3, <2>1, <3>3
      <3> QED
        BY <2>2, <3>2, <3>4, SMTT(60)
    <2>5. E(i) = S(i + 1) /\ E(i) # Top
      BY <1>4, <2>2, <2>3, <2>4, SMTT(60)
    <2>6. ranges[i].end = E(i)
      BY <1>1, <2>1, <2>5, RangeFacts DEF E
    <2> QED
      BY <2>5, <2>6 DEF S
  <1>10. ranges[n].end = Open
    <2>1. n \in 1 .. n
      BY <1>1, <1>8, SMTT(60)
    <2>2. ~(E(n) < Top)
      <3> SUFFICES ASSUME E(n) < Top PROVE FALSE
        OBVIOUS
      <3>1. PICK k \in 1 .. n : n < k
        BY <1>7, <2>1
      <3> QED
        BY <1>1, <3>1, SMTT(60)
    <2>3. E(n) = Top
      BY <1>2, <1>4, <2>1, <2>2, SMTT(60)
    <2> QED
      BY <1>1, <2>1, <2>3, RangeFacts DEF E
  <1>11. ranges # <<>> /\ ranges[1].start = 0 /\ Last(ranges).end = Open
    BY <1>1, <1>8, <1>10 DEF S
  <1> QED
    BY <1>9, <1>11 DEF ValidatePartition

\* validate_partition accepts exactly the lists of ranges, in ascending order,
\* that own every keyspace id once, for every base and width.
THEOREM PartitionExact ==
    \A ranges \in Seq(Ranges) : PartitionOwnsEveryId(ranges)
  BY AcceptedOwns, OwningAccepted DEF PartitionOwnsEveryId

-----------------------------------------------------------------------------
(***************************************************************************)
(* The text of a range.                                                    *)
(***************************************************************************)

\* Quotient and remainder.
LEMMA DivFacts ==
    ASSUME NEW v \in Nat, NEW d \in Nat \ {0}
    PROVE  \E q, m \in Nat : q = v \div d /\ m = v % d /\ m < d /\ v = d * q + m
  <1>1. v \div d \in Nat
    BY SMTT(60)
  <1>2. v % d \in Nat /\ v % d < d
    BY SMTT(60)
  <1>3. PICK q \in Nat : q = v \div d
    BY <1>1
  <1>4. PICK m \in Nat : m = v % d
    BY <1>2
  <1>5. v % d = v - d * (v \div d)
    BY SMTT(60)
  <1>6. m = v - d * q
    BY <1>3, <1>4, <1>5
  <1>7. v = d * q + m
    BY <1>6, SMTT(60)
  <1>8. m < d
    BY <1>2, <1>4
  <1> QED
    BY <1>3, <1>4, <1>7, <1>8

\* A greater factor makes the product greater by the other factor at least.
LEMMA FactorGap ==
    ASSUME NEW d \in Nat, NEW a \in Nat, NEW b \in Nat, a < b
    PROVE  d * a \in Nat /\ d * b \in Nat /\ d * a + d <= d * b
  <1>1. PICK e \in Nat : b = a + 1 + e
    <2>1. b - a - 1 \in Nat /\ b = a + 1 + (b - a - 1)
      BY SMTT(60)
    <2> QED
      BY <2>1
  <1>2. d * b = d * a + d + d * e /\ d * e \in Nat /\ d * a \in Nat
    BY <1>1, SMTT(60)
  <1> QED
    BY <1>2, SMTT(60)

LEMMA DivUnique ==
    ASSUME NEW v \in Nat, NEW d \in Nat \ {0}, NEW q \in Nat, d * q <= v, v < d * q + d
    PROVE  v \div d = q
  <1>1. PICK k, m \in Nat : k = v \div d /\ m = v % d /\ m < d /\ v = d * k + m
    BY DivFacts
  <1>2. m < d /\ v = d * k + m
    BY <1>1
  <1>3. ~(k < q)
    <2>1. k < q => d * k \in Nat /\ d * q \in Nat /\ d * k + d <= d * q
      BY FactorGap
    <2> QED
      BY <1>2, <2>1, SMTT(60)
  <1>4. ~(q < k)
    <2>1. q < k => d * k \in Nat /\ d * q \in Nat /\ d * q + d <= d * k
      BY FactorGap
    <2> QED
      BY <1>2, <2>1, SMTT(60)
  <1>5. k = q
    BY <1>3, <1>4, SMTT(60)
  <1> QED
    BY <1>1, <1>5

LEMMA DivDiv ==
    ASSUME NEW v \in Nat, NEW p \in Nat \ {0}, NEW b \in Nat \ {0}
    PROVE  v \div (p * b) = (v \div p) \div b
  <1>1. PICK q, r \in Nat : q = v \div p /\ r = v % p /\ r < p /\ v = p * q + r
    BY DivFacts
  <1>2. PICK t, c \in Nat : t = q \div b /\ c = q % b /\ c < b /\ q = b * t + c
    BY DivFacts
  <1>3. r < p /\ v = p * q + r /\ c < b /\ q = b * t + c
    BY <1>1, <1>2
  <1>4. p * q = (p * b) * t + p * c
    BY <1>3, SMTT(60)
  <1>5. PICK d \in Nat \ {0} : d = p * b
    <2>1. p * b \in Nat \ {0}
      BY SMTT(60)
    <2> QED
      BY <2>1
  <1>6. p * c \in Nat /\ p * c + p <= d
    BY <1>3, <1>5, FactorGap
  <1>7. v = d * t + p * c + r
    BY <1>3, <1>4, <1>5
  <1>8. d * t <= v /\ v < d * t + d
    <2>1. PICK x \in Nat : x = d * t
      BY SMTT(60)
    <2>2. v = x + p * c + r
      BY <1>7, <2>1
    <2>3. x <= v /\ v < x + d
      BY <1>3, <1>6, <2>2, SMTT(60)
    <2> QED
      BY <2>1, <2>3
  <1>9. v \div d = t
    BY <1>8, DivUnique
  <1> QED
    BY <1>1, <1>2, <1>5, <1>9

\* The leading digits of an id.
Leading(v, k) == v \div Power[Width - k]

LEMMA LeadingSteps ==
    ASSUME NEW v \in Ids
    PROVE  /\ v \in Nat
           /\ \A k \in 0 .. Width : Leading(v, k) \in Nat
           /\ Leading(v, 0) = 0
           /\ Leading(v, Width) = v
           /\ \A k \in 1 .. Width : /\ Digit(v, k) \in 0 .. Base - 1
                                    /\ Leading(v, k) = Leading(v, k - 1) * Base + Digit(v, k)
  <1>1. Width \in Nat /\ Base \in Nat \ {0} /\ Width \in 0 .. Width /\ Width - Width = 0 /\ Width - 0 = Width
    BY KeyspaceAssumption, SMTT(60)
  <1>2. Top \in Nat \ {0} /\ Top = Power[Width]
    BY TopType DEF Top
  <1>3. v \in Nat /\ v < Top
    BY <1>2, SMTT(60) DEF Ids
  <1>4. \A k \in 0 .. Width : Width - k \in 0 .. Width /\ Power[Width - k] \in Nat \ {0}
    <2>1. \A k \in 0 .. Width : Width - k \in 0 .. Width
      BY <1>1, SMTT(60)
    <2> QED
      BY <2>1, PowerType
  <1>5. \A k \in 0 .. Width : Leading(v, k) \in Nat
    BY <1>3, <1>4, DivFacts DEF Leading
  <1>6. Leading(v, 0) = 0
    <2>1. Top * 0 <= v /\ v < Top * 0 + Top /\ 0 \in Nat
      BY <1>2, <1>3, SMTT(60)
    <2>2. v \div Top = 0
      BY <1>2, <1>3, <2>1, DivUnique
    <2> QED
      BY <1>1, <1>2, <2>2 DEF Leading
  <1>7. Leading(v, Width) = v
    <2>1. Power[0] = 1
      BY PowerSteps
    <2>2. v \div 1 = v
      BY <1>3, SMTT(60)
    <2> QED
      BY <1>1, <2>1, <2>2 DEF Leading
  <1>8. ASSUME NEW k \in 1 .. Width
        PROVE  /\ Digit(v, k) \in 0 .. Base - 1
               /\ Leading(v, k) = Leading(v, k - 1) * Base + Digit(v, k)
    <2>1. k \in 0 .. Width /\ k - 1 \in 0 .. Width
      BY <1>1, SMTT(60)
    <2>2. Width - (k - 1) \in 1 .. Width /\ (Width - (k - 1)) - 1 = Width - k
      BY <1>1, SMTT(60)
    <2>3. Power[Width - (k - 1)] = Power[Width - k] * Base
      BY <2>2, PowerSteps
    <2>4. Leading(v, k - 1) = Leading(v, k) \div Base
      <3>1. Power[Width - k] \in Nat \ {0}
        BY <1>4, <2>1
      <3>2. v \div (Power[Width - k] * Base) = (v \div Power[Width - k]) \div Base
        BY <1>1, <1>3, <3>1, DivDiv
      <3> QED
        BY <2>3, <3>2 DEF Leading
    <2>5. Digit(v, k) = Leading(v, k) % Base
      BY DEF Digit, Leading
    <2>6. Leading(v, k) \in Nat
      BY <1>5, <2>1
    <2>7. PICK a \in Nat : a = Leading(v, k)
      BY <2>6
    <2>8. PICK h, m \in Nat : h = a \div Base /\ m = a % Base /\ m < Base /\ a = Base * h + m
      BY <1>1, DivFacts
    <2>9. m \in 0 .. Base - 1 /\ a = h * Base + m
      <3>1. m < Base /\ a = Base * h + m
        BY <2>8
      <3> QED
        BY <1>1, <3>1, SMTT(60)
    <2>10. m = Digit(v, k) /\ h = Leading(v, k - 1)
      BY <2>4, <2>5, <2>7, <2>8
    <2> QED
      BY <2>7, <2>9, <2>10
  <1> QED
    BY <1>3, <1>5, <1>6, <1>7, <1>8

\* What format_bound leaves out is zeros.
LEMMA FormatFacts ==
    ASSUME NEW v \in Ids
    PROVE  \E n \in 0 .. Width : /\ FormatBound(v) = [k \in 1 .. n |-> Digit(v, k)]
                                 /\ \A k \in 1 .. Width : k > n => Digit(v, k) = 0
  <1>1. Width \in Nat
    BY KeyspaceAssumption
  <1> DEFINE lit == {k \in 1 .. Width : Digit(v, k) # 0}
             T == {n \in 0 .. Width : \A j \in lit : j <= n}
  <1>2. PICK n \in T : \A m \in T : n <= m
    <2>1. T \subseteq Nat
      BY <1>1, SMTT(60)
    <2>2. Width \in T
      <3>1. Width \in 0 .. Width /\ \A j \in 1 .. Width : j <= Width
        BY <1>1, SMTT(60)
      <3> QED
        BY <3>1
    <2> HIDE DEF T
    <2> QED
      BY <2>1, <2>2, LeastId
  <1>3. n \in 0 .. Width /\ \A j \in lit : j <= n
    OBVIOUS
  <1>4. n \in lit \cup {0}
    <2> SUFFICES ASSUME n \notin lit, n # 0 PROVE FALSE
      OBVIOUS
    <2>1. n - 1 \in 0 .. Width /\ ~(n <= n - 1)
      BY <1>1, <1>3, SMTT(60)
    <2>2. \A j \in lit : j \in 1 .. Width /\ j # n /\ j <= n
      BY <1>3
    <2>3. \A j \in 1 .. Width : j # n /\ j <= n => j <= n - 1
      BY <1>1, <1>3, SMTT(60)
    <2>4. n - 1 \in T
      BY <2>1, <2>2, <2>3
    <2> QED
      BY <1>2, <2>1, <2>4
  <1> DEFINE last == CHOOSE k \in lit \cup {0} : \A j \in lit : j <= k
  <1>5. last \in lit \cup {0} /\ \A j \in lit : j <= last
    <2> HIDE DEF lit
    <2> QED
      BY <1>3, <1>4
  <1>6. FormatBound(v) = [k \in 1 .. last |-> Digit(v, k)]
    BY DEF FormatBound
  <1> HIDE DEF last
  <1>7. last \in 0 .. Width
    <2>1. last \in 1 .. Width \/ last = 0
      BY <1>5
    <2> QED
      BY <1>1, <2>1, SMTT(60)
  <1>8. ASSUME NEW k \in 1 .. Width, k > last
        PROVE  Digit(v, k) = 0
    <2>1. ~(k <= last)
      BY <1>1, <1>7, <1>8, SMTT(60)
    <2> QED
      BY <1>5, <2>1
  <1> QED
    BY <1>6, <1>7, <1>8

\* The digits that format_bound writes spell the leading digits of the id.
LEMMA DigitsSpell ==
    ASSUME NEW v \in Ids, NEW n \in 0 .. Width, NEW s,
           s = [k \in 1 .. n |-> Digit(v, k)]
    PROVE  Len(s) = n /\ FromRadix(s) = Leading(v, n)
  <1>1. Width \in Nat /\ n \in Nat
    BY KeyspaceAssumption, SMTT(60)
  <1>2. Len(s) = n
    BY <1>1, SMTT(60)
  <1>3. \A k \in 1 .. n : s[k] = Digit(v, k) /\ k \in 1 .. Width
    <2>1. \A k \in 1 .. n : s[k] = Digit(v, k)
      OBVIOUS
    <2>2. \A k \in 1 .. n : k \in 1 .. Width
      BY <1>1, SMTT(60)
    <2> QED
      BY <2>1, <2>2
  <1>4. PICK f : /\ FromRadix(s) = f[n] /\ f[0] = 0
                 /\ \A k \in 1 .. n : f[k] = f[k - 1] * Base + s[k]
    BY <1>1, <1>2, RadixList
  <1> DEFINE T == {k \in 0 .. n : f[k] # Leading(v, k)}
  <1>5. T = {}
    <2> SUFFICES ASSUME T # {} PROVE FALSE
      OBVIOUS
    <2>1. PICK k \in T : \A j \in T : k <= j
      <3>1. T \subseteq Nat
        BY <1>1, SMTT(60)
      <3> HIDE DEF T
      <3> QED
        BY <3>1, LeastId
    <2>2. k \in 0 .. n /\ f[k] # Leading(v, k)
      OBVIOUS
    <2>3. k # 0
      <3>1. Leading(v, 0) = 0
        BY LeadingSteps
      <3> QED
        BY <1>4, <2>2, <3>1
    <2>4. k \in 1 .. n /\ k - 1 \in 0 .. n /\ ~(k <= k - 1)
      BY <1>1, <2>2, <2>3, SMTT(60)
    <2>5. f[k - 1] = Leading(v, k - 1)
      BY <2>1, <2>4
    <2>6. f[k] = f[k - 1] * Base + Digit(v, k)
      BY <1>3, <1>4, <2>4
    <2>7. Leading(v, k) = Leading(v, k - 1) * Base + Digit(v, k)
      BY <1>3, <2>4, LeadingSteps
    <2> QED
      BY <2>2, <2>5, <2>6, <2>7
  <1>6. n \in 0 .. n
    BY <1>1, SMTT(60)
  <1> QED
    BY <1>2, <1>4, <1>5, <1>6

\* When the digits after the n-th are zero, the first n, shifted, are the id.
LEMMA ZerosShift ==
    ASSUME NEW v \in Ids, NEW n \in 0 .. Width,
           \A k \in 1 .. Width : k > n => Digit(v, k) = 0
    PROVE  Leading(v, n) * Power[Width - n] = v
  <1>1. Width \in Nat /\ n \in Nat /\ n <= Width /\ Base \in Nat
    BY KeyspaceAssumption, SMTT(60)
  <1> DEFINE T == {j \in 0 .. Width - n : Leading(v, Width - j) * Power[j] # v}
  <1>2. T = {}
    <2> SUFFICES ASSUME T # {} PROVE FALSE
      OBVIOUS
    <2>1. PICK j \in T : \A i \in T : j <= i
      <3>1. T \subseteq Nat
        BY <1>1, SMTT(60)
      <3> HIDE DEF T
      <3> QED
        BY <3>1, LeastId
    <2>2. j \in 0 .. Width - n /\ Leading(v, Width - j) * Power[j] # v
      OBVIOUS
    <2>3. j # 0
      <3>1. Leading(v, Width) = v /\ Power[0] = 1 /\ v \in Nat
        BY LeadingSteps, PowerSteps
      <3>2. Width - 0 = Width /\ v * 1 = v
        BY <1>1, <3>1, SMTT(60)
      <3> QED
        BY <2>2, <3>1, <3>2
    <2>4. /\ j - 1 \in 0 .. Width - n /\ ~(j <= j - 1) /\ j \in 1 .. Width /\ j - 1 \in 0 .. Width
          /\ Width - (j - 1) \in 1 .. Width /\ Width - (j - 1) > n
          /\ (Width - (j - 1)) - 1 = Width - j /\ Width - j \in 0 .. Width
      BY <1>1, <2>2, <2>3, SMTT(60)
    <2>5. Leading(v, Width - (j - 1)) * Power[j - 1] = v
      BY <2>1, <2>4
    <2>6. Power[j] = Power[j - 1] * Base /\ Power[j - 1] \in Nat
      BY <2>4, PowerSteps, PowerType
    <2>7. Digit(v, Width - (j - 1)) = 0
      BY <2>4
    <2>8. Leading(v, Width - (j - 1)) = Leading(v, Width - j) * Base + 0
      BY <2>4, <2>7, LeadingSteps
    <2>9. Leading(v, Width - j) \in Nat
      BY <2>4, LeadingSteps
    <2>10. \A a, p \in Nat : a * (p * Base) = (a * Base + 0) * p
      BY <1>1, SMTT(60)
    <2>11. Leading(v, Width - j) * Power[j] = Leading(v, Width - (j - 1)) * Power[j - 1]
      BY <2>6, <2>8, <2>9, <2>10
    <2> QED
      BY <2>2, <2>5, <2>11
  <1>3. Width - n \in 0 .. Width - n /\ Width - (Width - n) = n
    BY <1>1, SMTT(60)
  <1> QED
    BY <1>2, <1>3

\* A bound reads back, and only zero has the empty text.
LEMMA BoundReadsBack ==
    ASSUME NEW v \in Ids
    PROVE  /\ ParseBound(FormatBound(v)) = v
           /\ FormatBound(v) = <<>> => v = 0
  <1>1. Width \in Nat
    BY KeyspaceAssumption
  <1>2. PICK s : s = FormatBound(v)
    OBVIOUS
  <1>3. PICK n \in 0 .. Width : /\ s = [k \in 1 .. n |-> Digit(v, k)]
                                /\ \A k \in 1 .. Width : k > n => Digit(v, k) = 0
    BY <1>2, FormatFacts
  <1>4. Len(s) = n /\ FromRadix(s) = Leading(v, n)
    BY <1>3, DigitsSpell
  <1>5. Leading(v, n) * Power[Width - n] = v
    BY <1>3, ZerosShift
  <1>6. ~(Len(s) > Width)
    BY <1>1, <1>4, SMTT(60)
  <1>7. \A k \in DOMAIN s : s[k] \in 0 .. Base - 1
    <2>1. \A k \in 1 .. n : k \in 1 .. Width
      BY <1>1, SMTT(60)
    <2> QED
      BY <1>3, <2>1, LeadingSteps
  <1>8. ParseBound(s) = v
    BY <1>4, <1>5, <1>6, <1>7 DEF ParseBound
  <1>9. ASSUME s = <<>> PROVE v = 0
    <2>1. n = 0
      BY <1>4, <1>9, SMTT(60)
    <2>2. Leading(v, 0) = 0 /\ Width - 0 = Width /\ Power[Width] \in Nat
      BY <1>1, TopType, LeadingSteps, SMTT(60) DEF Top
    <2>3. \A p \in Nat : 0 * p = 0
      BY SMTT(60)
    <2> QED
      BY <1>5, <2>1, <2>2, <2>3
  <1> QED
    BY <1>2, <1>8, <1>9

\* The text of a range reads back as the range.
LEMMA RangeReadsBack ==
    ASSUME NEW r \in Ranges
    PROVE  FromStr(Display(r)) = r
  <1>1. /\ r.start \in Ids /\ r.end \in Ids \cup {Open} /\ NewRange(r.start, r.end) = r
        /\ r.start \in Nat /\ r.start < EndExclusive(r)
        /\ r.end # Open => r.end = EndExclusive(r)
    BY RangeFacts
  <1>2. ParseBound(FormatBound(r.start)) = r.start
    BY <1>1, BoundReadsBack
  <1> DEFINE text == IF r.end = Open THEN <<>> ELSE FormatBound(r.end)
             end  == IF text = <<>> THEN Open ELSE ParseBound(text)
  <1>3. end = r.end
    <2>1. CASE r.end = Open
      BY <2>1
    <2>2. CASE r.end # Open
      <3>1. ParseBound(FormatBound(r.end)) = r.end /\ (FormatBound(r.end) = <<>> => r.end = 0)
        BY <1>1, <2>2, BoundReadsBack
      <3>2. r.end # 0
        <4>1. r.start < r.end
          BY <1>1, <2>2
        <4>2. \A e : e = 0 => ~(r.start < e)
          BY <1>1, SMTT(60)
        <4> QED
          BY <4>1, <4>2
      <3> QED
        BY <2>2, <3>1, <3>2
    <2> QED
      BY <2>1, <2>2
  <1>4. BadBound \notin {r.start, r.end}
    <2>1. Top \in Nat
      BY TopType
    <2>2. -2 \notin Ids \cup {-1}
      BY <2>1, SMTT(60) DEF Ids
    <2>3. r.start \in Ids \cup {-1} /\ r.end \in Ids \cup {-1}
      BY <1>1 DEF Open
    <2> QED
      BY <2>2, <2>3 DEF BadBound
  <1>5. Display(r) = <<FormatBound(r.start), text>>
    BY DEF Display
  <1>6. Display(r)[1] = FormatBound(r.start) /\ Display(r)[2] = text
    <2>1. \A x, y : <<x, y>>[1] = x /\ <<x, y>>[2] = y
      BY SMTT(60)
    <2> HIDE DEF text
    <2> QED
      BY <1>5, <2>1
  <1>7. FromStr(Display(r)) = IF BadBound \in {r.start, end} THEN Err ELSE NewRange(r.start, end)
    <2> HIDE DEF text
    <2> QED
      BY <1>2, <1>6 DEF FromStr
  <1> HIDE DEF end
  <1> QED
    BY <1>1, <1>3, <1>4, <1>7

\* Ranges intersect when they have an id in common.
LEMMA IntersectsMeets ==
    ASSUME NEW r \in Ranges, NEW o \in Ranges
    PROVE  Intersects(r, o) <=> \E i \in Ids : InRange(r, i) /\ InRange(o, i)
  <1>1. PICK a, b, c, d \in Nat : a = r.start /\ b = EndExclusive(r) /\ c = o.start /\ d = EndExclusive(o)
    BY RangeFacts
  <1>2. a < b /\ b <= Top /\ c < d /\ d <= Top /\ Top \in Nat
    BY <1>1, RangeFacts, TopType
  <1>3. (a < d /\ c < b) <=> \E i \in Ids : (i >= a /\ i < b) /\ (i >= c /\ i < d)
    <2>1. ASSUME a < d, c < b
          PROVE  \E i \in Ids : (i >= a /\ i < b) /\ (i >= c /\ i < d)
      <3>1. CASE a <= c
        <4>1. c \in Ids /\ c >= a /\ c < b /\ c >= c /\ c < d
          BY <1>2, <2>1, <3>1, SMTT(60) DEF Ids
        <4> QED
          BY <4>1
      <3>2. CASE c <= a
        <4>1. a \in Ids /\ a >= a /\ a < b /\ a >= c /\ a < d
          BY <1>2, <2>1, <3>2, SMTT(60) DEF Ids
        <4> QED
          BY <4>1
      <3>3. a <= c \/ c <= a
        BY SMTT(60)
      <3> QED
        BY <3>1, <3>2, <3>3
    <2>2. ASSUME NEW i \in Ids, i >= a, i < b, i >= c, i < d
          PROVE  a < d /\ c < b
      BY <1>2, <2>2, SMTT(60) DEF Ids
    <2> QED
      BY <2>1, <2>2
  <1> QED
    BY <1>1, <1>3 DEF Intersects, InRange

\* Display and FromStr, and KeyRange::intersects: the text of a range reads
\* back as that range, so different ranges have different texts, and two
\* ranges intersect exactly when an id is in both.
THEOREM TextReadsBack == \A r, o \in Ranges : RangesReadBack(r, o)
  <1> SUFFICES ASSUME NEW r \in Ranges, NEW o \in Ranges
               PROVE  RangesReadBack(r, o)
    OBVIOUS
  <1>1. FromStr(Display(r)) = r /\ FromStr(Display(o)) = o
    BY RangeReadsBack
  <1>2. Intersects(r, o) <=> \E i \in Ids : InRange(r, i) /\ InRange(o, i)
    BY IntersectsMeets
  <1> QED
    BY <1>1, <1>2 DEF RangesReadBack

-----------------------------------------------------------------------------
(***************************************************************************)
(* The even split.                                                         *)
(***************************************************************************)

\* The ids from a up to b are b - a.
LEMMA SpanCount ==
    ASSUME NEW a \in Nat, NEW b \in Nat, a <= b, b <= Top
    PROVE  Cardinality({i \in Ids : i >= a /\ i < b}) = b - a
  <1>1. Top \in Nat
    BY TopType
  <1>2. {i \in Ids : i >= a /\ i < b} = a .. b - 1
    BY <1>1, SMTT(60) DEF Ids
  <1>3. a \in Int /\ b - 1 \in Int
    BY SMTT(60)
  <1>4. Cardinality(a .. b - 1) = IF a > b - 1 THEN 0 ELSE (b - 1) - a + 1
    BY <1>3, FS_Interval
  <1>5. (IF a > b - 1 THEN 0 ELSE (b - 1) - a + 1) = b - a
    BY SMTT(60)
  <1> QED
    BY <1>2, <1>4, <1>5

\* The i-th cut of w ids in p parts, in ids from the start.
Cut(w, p, i) == (i * w) \div p

LEMMA CutEnds ==
    ASSUME NEW w \in Nat, NEW p \in Nat \ {0}
    PROVE  Cut(w, p, 0) = 0 /\ Cut(w, p, p) = w
  <1>1. /\ 0 * w \in Nat /\ p * 0 <= 0 * w /\ 0 * w < p * 0 + p
        /\ p * w \in Nat /\ p * w <= p * w /\ p * w < p * w + p
    BY SMTT(60)
  <1> QED
    BY <1>1, DivUnique DEF Cut

\* A cut is the greatest whole number of ids below its exact place.
LEMMA CutPlace ==
    ASSUME NEW w \in Nat, NEW p \in Nat \ {0}, NEW i \in Nat
    PROVE  \E q \in Nat : q = Cut(w, p, i) /\ p * q <= i * w /\ i * w < p * q + p
  <1>1. i * w \in Nat
    BY SMTT(60)
  <1>2. PICK v \in Nat : v = i * w
    BY <1>1
  <1>3. PICK q, m \in Nat : q = v \div p /\ m = v % p /\ m < p /\ v = p * q + m
    BY DivFacts
  <1>4. m < p /\ v = p * q + m
    BY <1>3
  <1>5. p * q <= v /\ v < p * q + p
    <2>1. PICK x \in Nat : x = p * q
      BY SMTT(60)
    <2>2. v = x + m
      BY <1>4, <2>1
    <2>3. x <= v /\ v < x + p
      BY <1>4, <2>2, SMTT(60)
    <2> QED
      BY <2>1, <2>3
  <1> QED
    BY <1>2, <1>3, <1>5 DEF Cut

\* A part is less than one id away from its exact width.
LEMMA CutStep ==
    ASSUME NEW w \in Nat, NEW p \in Nat \ {0}, NEW i \in Nat \ {0}
    PROVE  \E x, y, px, py \in Nat :
              /\ x = Cut(w, p, i - 1) /\ y = Cut(w, p, i) /\ px = p * x /\ py = p * y
              /\ px + w < py + p /\ py < px + w + p
  <1>1. i - 1 \in Nat /\ i \in Nat
    BY SMTT(60)
  <1>2. PICK x \in Nat : x = Cut(w, p, i - 1) /\ p * x <= (i - 1) * w /\ (i - 1) * w < p * x + p
    BY <1>1, CutPlace
  <1>3. PICK y \in Nat : y = Cut(w, p, i) /\ p * y <= i * w /\ i * w < p * y + p
    BY <1>1, CutPlace
  <1>4. PICK k \in Nat : k = (i - 1) * w
    BY <1>1, SMTT(60)
  <1>5. i * w = k + w
    BY <1>1, <1>4, SMTT(60)
  <1>6. PICK px \in Nat : px = p * x
    BY SMTT(60)
  <1>7. PICK py \in Nat : py = p * y
    BY SMTT(60)
  <1>8. px <= k /\ k < px + p /\ py <= k + w /\ k + w < py + p
    BY <1>2, <1>3, <1>4, <1>5, <1>6, <1>7
  <1>9. px + w < py + p /\ py < px + w + p
    BY <1>8, SMTT(60)
  <1> QED
    BY <1>2, <1>3, <1>6, <1>7, <1>9

\* With no more parts than ids, no part is empty, ...
LEMMA CutGrows ==
    ASSUME NEW w \in Nat, NEW p \in Nat \ {0}, p <= w, NEW i \in Nat \ {0}
    PROVE  /\ Cut(w, p, i - 1) \in Nat /\ Cut(w, p, i) \in Nat
           /\ Cut(w, p, i - 1) < Cut(w, p, i)
  <1>1. PICK x, y, px, py \in Nat :
            /\ x = Cut(w, p, i - 1) /\ y = Cut(w, p, i) /\ px = p * x /\ py = p * y
            /\ px + w < py + p /\ py < px + w + p
    BY CutStep
  <1>2. y < x => py + p <= px
    <2>1. y < x => p * y + p <= p * x
      BY FactorGap
    <2> QED
      BY <1>1, <2>1
  <1>3. y = x => py = px
    BY <1>1
  <1>4. px + w < py + p
    BY <1>1
  <1>5. x < y
    BY <1>2, <1>3, <1>4, SMTT(60)
  <1> QED
    BY <1>1, <1>5

\* ... and none is more than one id wider than another.
LEMMA CutEven ==
    ASSUME NEW w \in Nat, NEW p \in Nat \ {0}, NEW i \in Nat \ {0}, NEW j \in Nat \ {0}
    PROVE  Cut(w, p, i) - Cut(w, p, i - 1) <= (Cut(w, p, j) - Cut(w, p, j - 1)) + 1
  <1>1. PICK x, y, px, py \in Nat :
            /\ x = Cut(w, p, i - 1) /\ y = Cut(w, p, i) /\ px = p * x /\ py = p * y
            /\ px + w < py + p /\ py < px + w + p
    BY CutStep
  <1>2. PICK u, v, pu, pv \in Nat :
            /\ u = Cut(w, p, j - 1) /\ v = Cut(w, p, j) /\ pu = p * u /\ pv = p * v
            /\ pu + w < pv + p /\ pv < pu + w + p
    BY CutStep
  <1>3. v + x + 1 \in Nat /\ y + u \in Nat
    BY SMTT(60)
  <1>4. v + x + 1 < y + u => p * (v + x + 1) + p <= p * (y + u)
    BY <1>3, FactorGap
  <1>5. p * (v + x + 1) = p * v + p * x + p /\ p * (y + u) = p * y + p * u
    BY SMTT(60)
  <1>6. v + x + 1 < y + u => (pv + px + p) + p <= py + pu
    BY <1>1, <1>2, <1>4, <1>5
  <1>7. py < px + w + p /\ pu + w < pv + p
    BY <1>1, <1>2
  <1>8. y - x <= (v - u) + 1
    BY <1>6, <1>7, SMTT(60)
  <1> QED
    BY <1>1, <1>2, <1>8

\* The parts of a split: part i holds the ids from cut i - 1 to cut i.
LEMMA PartHolds ==
    ASSUME NEW r \in Ranges, NEW parts \in Nat \ {0}, NEW w \in Nat,
           w = EndExclusive(r) - r.start, parts <= w, NEW i \in 1 .. parts
    PROVE  \A x : InRange(SplitEvenly(r, parts)[i], x) <=>
                     x >= r.start + Cut(w, parts, i - 1) /\ x < r.start + Cut(w, parts, i)
  <1> DEFINE bound(k) == r.start + Cut(w, parts, k)
             part == [start |-> bound(i - 1),
                      end   |-> IF bound(i) = EndExclusive(r) THEN r.end ELSE bound(i)]
  <1>1. parts # 0 /\ ~(w < parts) /\ i \in Nat \ {0}
    BY SMTT(60)
  <1>2. SplitEvenly(r, parts) =
            [k \in 1 .. parts |->
                [start |-> bound(k - 1),
                 end   |-> IF bound(k) = EndExclusive(r) THEN r.end ELSE bound(k)]]
    BY <1>1 DEF SplitEvenly, Cut
  <1>3. SplitEvenly(r, parts)[i] = part
    BY <1>2
  <1>4. bound(i) # Open
    <2>1. r.start \in Nat /\ Cut(w, parts, i) \in Nat
      BY <1>1, RangeFacts, CutGrows
    <2>2. \A a, b \in Nat : a + b # -1
      BY SMTT(60)
    <2> QED
      BY <2>1, <2>2 DEF Open
  <1>5. part.start = bound(i - 1) /\ EndExclusive(part) = bound(i)
    <2>1. part.start = bound(i - 1)
      OBVIOUS
    <2>2. part.end = IF bound(i) = EndExclusive(r) THEN r.end ELSE bound(i)
      OBVIOUS
    <2> HIDE DEF part, bound
    <2>3. CASE bound(i) = EndExclusive(r)
      BY <2>1, <2>2, <2>3 DEF EndExclusive
    <2>4. CASE bound(i) # EndExclusive(r)
      BY <1>4, <2>1, <2>2, <2>4 DEF EndExclusive
    <2> QED
      BY <2>3, <2>4
  <1> HIDE DEF part
  <1> QED
    BY <1>3, <1>5 DEF InRange

\* The parts of a split follow each other from the range's start to its end.
LEMMA PartsOwn ==
    ASSUME NEW r \in Ranges, NEW parts \in Nat \ {0}, NEW w \in Nat,
           w = EndExclusive(r) - r.start, parts <= w, NEW x \in Ids
    PROVE  /\ InRange(r, x) => \E i \in 1 .. parts : \A j \in 1 .. parts :
                                  InRange(SplitEvenly(r, parts)[j], x) <=> j = i
           /\ \A j \in 1 .. parts : InRange(SplitEvenly(r, parts)[j], x) => InRange(r, x)
  <1>1. PICK a, e \in Nat : a = r.start /\ e = EndExclusive(r)
    BY RangeFacts
  <1>2. e = a + w /\ x \in Nat
    <2>1. Top \in Nat /\ w = e - a
      BY <1>1, TopType
    <2> QED
      BY <2>1, SMTT(60) DEF Ids
  <1>3. \A i \in 1 .. parts : i \in Nat \ {0} /\ i - 1 \in Nat
    BY SMTT(60)
  <1>4. \A i \in 1 .. parts : /\ Cut(w, parts, i - 1) \in Nat /\ Cut(w, parts, i) \in Nat
                              /\ Cut(w, parts, i - 1) < Cut(w, parts, i)
    BY <1>3, CutGrows
  <1> DEFINE S == [i \in 1 .. parts |-> a + Cut(w, parts, i - 1)]
             E == [i \in 1 .. parts |-> a + Cut(w, parts, i)]
  <1>5. \A b, c \in Nat : a + b \in Nat /\ (b < c => a + b < a + c) /\ (a + b <= x <=> x >= a + b)
    BY <1>2, SMTT(60)
  <1>6. /\ \A i \in 1 .. parts : S[i] = a + Cut(w, parts, i - 1) /\ E[i] = a + Cut(w, parts, i)
        /\ S \in [1 .. parts -> Nat] /\ E \in [1 .. parts -> Nat]
    <2>1. \A i \in 1 .. parts : a + Cut(w, parts, i - 1) \in Nat /\ a + Cut(w, parts, i) \in Nat
      BY <1>4, <1>5
    <2> QED
      BY <2>1
  <1> HIDE DEF S, E
  <1>7. Adjacent(S, E, parts, a, e)
    <2>1. parts > 0 /\ 1 \in 1 .. parts /\ parts \in 1 .. parts /\ 1 - 1 = 0 /\ a + 0 = a
      BY SMTT(60)
    <2>2. \A i \in 1 .. parts : S[i] < E[i]
      BY <1>4, <1>5, <1>6
    <2>3. S[1] = a /\ E[parts] = e
      <3>1. Cut(w, parts, 0) = 0 /\ Cut(w, parts, parts) = w
        BY CutEnds
      <3>2. S[1] = a + Cut(w, parts, 1 - 1) /\ E[parts] = a + Cut(w, parts, parts)
        BY <1>6, <2>1
      <3> QED
        BY <1>2, <2>1, <3>1, <3>2
    <2>4. \A i \in 1 .. parts - 1 : i \in 1 .. parts /\ i + 1 \in 1 .. parts /\ (i + 1) - 1 = i
      BY SMTT(60)
    <2>5. \A i \in 1 .. parts - 1 : E[i] = S[i + 1]
      BY <1>6, <2>4
    <2> QED
      BY <2>1, <2>2, <2>3, <2>5 DEF Adjacent
  <1>8. \A j \in 1 .. parts : InRange(SplitEvenly(r, parts)[j], x) <=> Within(S, E, j, x)
    <2> SUFFICES ASSUME NEW j \in 1 .. parts
                 PROVE  InRange(SplitEvenly(r, parts)[j], x) <=> Within(S, E, j, x)
      OBVIOUS
    <2>1. InRange(SplitEvenly(r, parts)[j], x) <=>
             x >= a + Cut(w, parts, j - 1) /\ x < a + Cut(w, parts, j)
      BY <1>1, PartHolds
    <2>2. S[j] = a + Cut(w, parts, j - 1) /\ E[j] = a + Cut(w, parts, j)
      BY <1>6
    <2>3. x >= a + Cut(w, parts, j - 1) <=> a + Cut(w, parts, j - 1) <= x
      BY <1>4, <1>5
    <2> QED
      BY <2>1, <2>2, <2>3 DEF Within
  <1>9. InRange(r, x) <=> a <= x /\ x < e
    <2>1. x >= a <=> a <= x
      BY <1>2, SMTT(60)
    <2> QED
      BY <1>1, <2>1 DEF InRange
  <1>10. /\ a <= x /\ x < e => WithinOne(S, E, parts, x)
         /\ \A j \in 1 .. parts : Within(S, E, j, x) => a <= x /\ x < e
    BY <1>2, <1>6, <1>7, AdjacentOwn
  <1> QED
    BY <1>8, <1>9, <1>10 DEF WithinOne

\* KeyRange::split_evenly: the split is refused exactly when there are more
\* parts than ids; else every id of the range is in one part, no other id is
\* in any, and no part is more than one id wider than another.
THEOREM SplitExact == \A r \in Ranges, parts \in Nat : SplitTiles(r, parts)
  <1> SUFFICES ASSUME NEW r \in Ranges, NEW parts \in Nat
               PROVE  SplitTiles(r, parts)
    OBVIOUS
  <1> DEFINE split == SplitEvenly(r, parts)
             size(id) == Cardinality({i \in Ids : InRange(split[id], i)})
  <1>1. PICK a, e \in Nat : a = r.start /\ e = EndExclusive(r)
    BY RangeFacts
  <1>2. a < e /\ e <= Top /\ Top \in Nat
    BY <1>1, RangeFacts, TopType
  <1>3. PICK w \in Nat : w = e - a
    BY <1>2, SMTT(60)
  <1>4. w = EndExclusive(r) - r.start
    BY <1>1, <1>3
  <1>5. Cardinality({i \in Ids : InRange(r, i)}) = w
    <2>1. a <= e
      BY <1>2, SMTT(60)
    <2>2. Cardinality({i \in Ids : i >= a /\ i < e}) = w
      BY <1>2, <1>3, <2>1, SpanCount
    <2> QED
      BY <1>1, <2>2 DEF InRange
  <1>6. ASSUME parts \notin 1 .. w
        PROVE  split = NoSplit
    <2>1. parts = 0 \/ w < parts
      BY <1>6, SMTT(60)
    <2> QED
      BY <1>4, <2>1 DEF SplitEvenly
  <1>7. ASSUME parts \in 1 .. w
        PROVE  /\ \A x \in Ids : Cardinality(Owners(split, x)) = IF InRange(r, x) THEN 1 ELSE 0
               /\ \A i, j \in DOMAIN split : size(i) <= size(j) + 1
    <2>1. parts \in Nat \ {0} /\ parts <= w /\ ~(w < parts) /\ parts # 0
      BY <1>7, SMTT(60)
    <2>2. DOMAIN split = 1 .. parts
      BY <1>4, <2>1 DEF SplitEvenly
    <2>3. ASSUME NEW x \in Ids
          PROVE  Cardinality(Owners(split, x)) = IF InRange(r, x) THEN 1 ELSE 0
      <3>1. /\ InRange(r, x) => \E i \in 1 .. parts : \A j \in 1 .. parts :
                                   InRange(split[j], x) <=> j = i
            /\ \A j \in 1 .. parts : InRange(split[j], x) => InRange(r, x)
        BY <1>4, <2>1, PartsOwn
      <3> HIDE DEF split
      <3>2. CASE InRange(r, x)
        BY <2>2, <3>1, <3>2, OwnedOnce
      <3>3. CASE ~InRange(r, x)
        <4>1. Owners(split, x) = {}
          BY <2>2, <3>1, <3>3 DEF Owners
        <4> QED
          BY <3>3, <4>1, FS_EmptySet
      <3> QED
        BY <3>2, <3>3
    <2>4. \A i \in 1 .. parts : size(i) = Cut(w, parts, i) - Cut(w, parts, i - 1)
      <3> SUFFICES ASSUME NEW i \in 1 .. parts
                   PROVE  size(i) = Cut(w, parts, i) - Cut(w, parts, i - 1)
        OBVIOUS
      <3>1. \A x : InRange(split[i], x) <=> x >= a + Cut(w, parts, i - 1) /\ x < a + Cut(w, parts, i)
        BY <1>1, <1>4, <2>1, PartHolds
      <3>2. i \in Nat \ {0} /\ i - 1 \in Nat /\ i \in Nat
        BY SMTT(60)
      <3>3. PICK x, y \in Nat : x = Cut(w, parts, i - 1) /\ y = Cut(w, parts, i) /\ x < y
        BY <2>1, <3>2, CutGrows
      <3>4. y <= w
        <4>1. PICK q \in Nat : q = Cut(w, parts, i) /\ parts * q <= i * w /\ i * w < parts * q + parts
          BY <2>1, <3>2, CutPlace
        <4>2. parts * y <= i * w
          BY <3>3, <4>1
        <4>3. i * w <= parts * w
          BY SMTT(60)
        <4>4. w < y => parts * w \in Nat /\ parts * y \in Nat /\ parts * w + parts <= parts * y
          BY FactorGap
        <4>5. i * w \in Nat
          BY <3>2, SMTT(60)
        <4> QED
          BY <2>1, <4>2, <4>3, <4>4, <4>5, SMTT(60)
      <3>5. a + x \in Nat /\ a + y \in Nat /\ a + x <= a + y /\ a + y <= Top /\ (a + y) - (a + x) = y - x
        <4>1. x < y
          BY <3>3
        <4> QED
          BY <1>2, <1>3, <3>4, <4>1, SMTT(60)
      <3>6. Cardinality({k \in Ids : k >= a + x /\ k < a + y}) = y - x
        BY <3>5, SpanCount
      <3>7. \A k : InRange(split[i], k) <=> k >= a + x /\ k < a + y
        BY <3>1, <3>3
      <3> HIDE DEF split
      <3>8. size(i) = y - x
        BY <3>6, <3>7
      <3> QED
        BY <3>3, <3>8
    <2>5. ASSUME NEW i \in 1 .. parts, NEW j \in 1 .. parts
          PROVE  size(i) <= size(j) + 1
      <3>1. i \in Nat \ {0} /\ j \in Nat \ {0}
        BY SMTT(60)
      <3>2. Cut(w, parts, i) - Cut(w, parts, i - 1) <= (Cut(w, parts, j) - Cut(w, parts, j - 1)) + 1
        BY <2>1, <3>1, CutEven
      <3> HIDE DEF size
      <3> QED
        BY <2>4, <3>2
    <2> HIDE DEF split, size
    <2> QED
      BY <2>2, <2>3, <2>5
  <1>8. SplitTiles(r, parts) =
            IF parts \notin 1 .. Cardinality({i \in Ids : InRange(r, i)}) THEN split = NoSplit
            ELSE /\ \A i \in Ids : Cardinality(Owners(split, i)) = IF InRange(r, i) THEN 1 ELSE 0
                 /\ \A i, j \in DOMAIN split : size(i) <= size(j) + 1
    BY DEF SplitTiles
  <1> HIDE DEF split, size
  <1> QED
    BY <1>5, <1>6, <1>7, <1>8
=============================================================================
