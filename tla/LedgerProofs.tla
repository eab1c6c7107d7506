---------------------------- MODULE LedgerProofs ----------------------------
(***************************************************************************)
(* What the ledger of Procurement says about the balances: with concurrent *)
(* requests a lost update breaks the chain of entries, and which requests  *)
(* overlapped when balances drift or get a second row.                     *)
(*                                                                         *)
(* The first part is about sums and books alone; the second is about the   *)
(* postings of concurrent sessions, the third about their history.  The    *)
(* fourth is about orders that are reopened or received twice: which       *)
(* requests overlapped.                                                    *)
(***************************************************************************)
EXTENDS ReceiptProofs, Overlaps

\* Induction over the natural numbers, on a set.
LEMMA NumbersInduct ==
    ASSUME NEW S, 0 \in S, \A n \in Nat : n \in S => n + 1 \in S
    PROVE  Nat \subseteq S
<1> DEFINE R == OpToRel(<, Nat)
           U == Nat \ S
<1>1. IsWellFoundedOn(R, Nat)
  BY NatLessThanWellFounded
<1>2. \A x, y \in Nat : x < y => <<x, y>> \in R
  BY DEF OpToRel
<1> HIDE DEF R
<1>3. ASSUME U # {} PROVE FALSE
  <2>1. PICK x \in U : \A y \in U : ~(<<y, x>> \in R)
    BY <1>1, <1>3, WFMin
  <2>2. x # 0 /\ x - 1 \in Nat /\ x - 1 < x
    BY <2>1
  <2>3. x - 1 \in U
    BY <2>1, <2>2
  <2> QED
    BY <1>2, <2>1, <2>2, <2>3
<1> QED
  BY <1>3

\* The element that a fold takes first.
First(s) == CHOOSE x \in s : TRUE

\* The sums of f over the subsets of S, as the fold computes them.
Sums(g, f, S) ==
    g = [s \in SUBSET S |-> IF s = {} THEN 0 ELSE f[First(s)] + g[s \ {First(s)}]]

\* A sum over a finite set is taken one element at a time.
LEMMA SumIs ==
    ASSUME NEW f, NEW S
    PROVE  SumFunctionOnSet(f, S) = (CHOOSE g : Sums(g, f, S))[S]
BY DEF SumFunctionOnSet, FoldFunctionOnSet, MapThenFoldSet, Sums, First

\* Removing the first element of a finite set.
LEMMA FirstOf ==
    ASSUME NEW S, IsFiniteSet(S), NEW s \in SUBSET S, s # {}
    PROVE  /\ First(s) \in s
           /\ IsFiniteSet(s) /\ Cardinality(s) \in Nat
           /\ \A y \in s : /\ s \ {y} \in SUBSET S
                           /\ Cardinality(s \ {y}) = Cardinality(s) - 1
<1>1. IsFiniteSet(s) /\ Cardinality(s) \in Nat
  BY FS_Subset, FS_CardinalityType
<1>2. \A y \in s : Cardinality(s \ {y}) = Cardinality(s) - 1
  BY <1>1, FS_RemoveElement
<1> QED
  BY <1>1, <1>2 DEF First

\* The sums exist.
LEMMA SumsExist ==
    ASSUME NEW f, NEW S, IsFiniteSet(S), \A x \in S : f[x] \in Int
    PROVE  \E g : Sums(g, f, S)
<1> DEFINE Upto(g, n) ==
             /\ g \in [SUBSET S -> Int]
             /\ g[{}] = 0
             /\ \A s \in SUBSET S : s # {} /\ Cardinality(s) <= n =>
                  g[s] = f[First(s)] + g[s \ {First(s)}]
           N == {n \in Nat : \E g : Upto(g, n)}
<1>1. 0 \in N
  <2> DEFINE g == [s \in SUBSET S |-> 0]
  <2>1. \A s \in SUBSET S : s # {} => Cardinality(s) > 0
    BY FirstOf, FS_EmptySet, FS_Subset, FS_CardinalityType
  <2>2. Upto(g, 0)
    BY <2>1, FirstOf, FS_Subset, FS_CardinalityType
  <2> QED
    BY <2>2
<1>2. ASSUME NEW n \in Nat, n \in N PROVE n + 1 \in N
  <2>1. PICK g : Upto(g, n)
    BY <1>2
  <2> DEFINE h == [s \in SUBSET S |-> IF s = {} THEN 0 ELSE f[First(s)] + g[s \ {First(s)}]]
  <2>2. h \in [SUBSET S -> Int] /\ h[{}] = 0
    BY <2>1, FirstOf
  <2>3. ASSUME NEW s \in SUBSET S, s # {}, Cardinality(s) <= n + 1
        PROVE  h[s] = f[First(s)] + h[s \ {First(s)}]
    <3> DEFINE u == s \ {First(s)}
    <3>1. u \in SUBSET S /\ Cardinality(u) <= n
      BY <2>3, FirstOf
    <3>2. h[u] = g[u]
      BY <2>1, <3>1
    <3>3. h[s] = f[First(s)] + g[u]
      BY <2>3
    <3> QED
      BY <3>2, <3>3
  <2> HIDE DEF h
  <2>4. Upto(h, n + 1)
    BY <2>2, <2>3
  <2> HIDE DEF Upto
  <2> QED
    BY <2>4
<1>3. Nat \subseteq N
  <2> HIDE DEF N
  <2> QED
    BY <1>1, <1>2, NumbersInduct
<1>4. Cardinality(S) \in Nat
  BY FS_CardinalityType
<1>5. PICK g : Upto(g, Cardinality(S))
  BY <1>3, <1>4
<1>6. \A s \in SUBSET S : Cardinality(s) <= Cardinality(S)
  BY FS_Subset
<1>7. \A s \in SUBSET S : g[s] = IF s = {} THEN 0 ELSE f[First(s)] + g[s \ {First(s)}]
  BY <1>5, <1>6
<1>8. Sums(g, f, S)
  BY <1>5, <1>7 DEF Sums
<1> QED
  BY <1>8

\* A sum over a set is a sum over the rest of it and any one element.
Additive(g, f, S) ==
    /\ g[{}] = 0
    /\ \A s \in SUBSET S : g[s] \in Int /\ \A y \in s : g[s] = f[y] + g[s \ {y}]

\* A sum does not depend on the order.
LEMMA SumsAdd ==
    ASSUME NEW f, NEW S, IsFiniteSet(S), \A x \in S : f[x] \in Int, NEW g, Sums(g, f, S)
    PROVE  Additive(g, f, S)
<1> DEFINE Good(s) == g[s] \in Int /\ \A y \in s : g[s] = f[y] + g[s \ {y}]
           N == {n \in Nat : \A s \in SUBSET S : Cardinality(s) <= n => Good(s)}
<1>1. g[{}] = 0
  BY DEF Sums
<1>2. \A s \in SUBSET S : s # {} => g[s] = f[First(s)] + g[s \ {First(s)}]
  BY DEF Sums
<1>3. \A s \in SUBSET S : Cardinality(s) \in Nat /\ (Cardinality(s) <= 0 => s = {})
  BY FS_EmptySet, FS_Subset, FS_CardinalityType
<1>4. 0 \in N
  BY <1>1, <1>3
<1>5. ASSUME NEW n \in Nat, n \in N PROVE n + 1 \in N
  <2> SUFFICES ASSUME NEW s \in SUBSET S, Cardinality(s) <= n + 1 PROVE Good(s)
    OBVIOUS
  <2> SUFFICES ASSUME s # {} PROVE Good(s)
    <3>1. ASSUME s = {} PROVE Good(s)
      <4>1. g[s] = 0
        BY <1>1, <3>1
      <4>2. \A y \in s : FALSE
        BY <3>1
      <4> QED
        BY <4>1, <4>2
    <3> HIDE DEF Good
    <3> QED
      BY <3>1
  <2>0. \A t \in SUBSET S : Cardinality(t) <= n => Good(t)
    BY <1>5
  <2> DEFINE x == First(s)
  <2>1. /\ x \in s /\ x \in S
        /\ \A y \in s : s \ {y} \in SUBSET S /\ Cardinality(s \ {y}) <= n
    BY <1>3, FirstOf
  <2>2. \A y \in s : Good(s \ {y})
    BY <2>0, <2>1
  <2>3. g[s] = f[x] + g[s \ {x}]
    BY <1>2
  <2>4. g[s] \in Int
    BY <2>1, <2>2, <2>3
  <2>5. ASSUME NEW y \in s PROVE g[s] = f[y] + g[s \ {y}]
    <3>1. CASE y = x
      BY <2>3, <3>1
    <3>2. CASE y # x
      <4> DEFINE u == (s \ {x}) \ {y}
      <4> HIDE DEF x
      <4>1. u = (s \ {y}) \ {x} /\ y \in s \ {x} /\ x \in s \ {y}
        BY <2>1, <3>2
      <4>2. g[s \ {x}] = f[y] + g[u]
        BY <2>1, <2>2, <4>1
      <4>3. g[s \ {y}] = f[x] + g[u]
        BY <2>1, <2>2, <4>1
      <4>4. u \in SUBSET S /\ Cardinality(u) <= n
        <5> DEFINE t == s \ {x}
        <5>1. t \in SUBSET S /\ y \in t /\ Cardinality(t) <= n
          BY <2>1, <4>1
        <5> HIDE DEF t
        <5>2. t \ {y} \in SUBSET S /\ Cardinality(t \ {y}) = Cardinality(t) - 1
          BY <5>1, FirstOf
        <5>3. Cardinality(t) \in Nat
          BY <1>3, <5>1
        <5> QED
          BY <5>1, <5>2, <5>3 DEF t
      <4>5. g[u] \in Int /\ f[x] \in Int /\ f[y] \in Int
        BY <2>0, <2>1, <4>4
      <4> QED
        BY <2>3, <4>2, <4>3, <4>5
    <3> QED
      BY <3>1, <3>2
  <2> QED
    BY <2>4, <2>5
<1>6. Nat \subseteq N
  <2> HIDE DEF N
  <2> QED
    BY <1>4, <1>5, NumbersInduct
<1>7. ASSUME NEW s \in SUBSET S PROVE Good(s)
  BY <1>3, <1>6
<1> QED
  BY <1>1, <1>7 DEF Additive

\* What a sum over a finite set is: a function on the subsets that adds element by element.
LEMMA SumUnfolds ==
    ASSUME NEW f, NEW S, IsFiniteSet(S), \A x \in S : f[x] \in Int
    PROVE  \E g : SumFunctionOnSet(f, S) = g[S] /\ Additive(g, f, S)
<1> DEFINE g == CHOOSE h : Sums(h, f, S)
<1>1. Sums(g, f, S)
  BY SumsExist
<1>2. SumFunctionOnSet(f, S) = g[S]
  BY SumIs
<1> HIDE DEF g
<1>3. Additive(g, f, S)
  BY <1>1, SumsAdd
<1> QED
  BY <1>2, <1>3

\* The sum over nothing is zero.
LEMMA SumOfNone ==
    ASSUME NEW f
    PROVE  SumFunctionOnSet(f, {}) = 0
<1>1. PICK g : SumFunctionOnSet(f, {}) = g[{}] /\ Additive(g, f, {})
  BY FS_EmptySet, SumUnfolds
<1> QED
  BY <1>1 DEF Additive

\* The sum over one element is what it has.
LEMMA SumOfOne ==
    ASSUME NEW f, NEW x, f[x] \in Int
    PROVE  SumFunctionOnSet(f, {x}) = f[x]
<1> DEFINE S == {x}
           C == S \ {x}
<1>1. IsFiniteSet(S) /\ \A y \in S : f[y] \in Int
  BY FS_Singleton
<1>2. C = {} /\ x \in S /\ S \in SUBSET S
  OBVIOUS
<1> HIDE DEF S, C
<1>3. PICK g : SumFunctionOnSet(f, S) = g[S] /\ Additive(g, f, S)
  BY <1>1, SumUnfolds
<1>4. g[S] = f[x] + g[C] /\ g[{}] = 0
  BY <1>2, <1>3 DEF Additive, C
<1> QED
  BY <1>2, <1>3, <1>4 DEF S

\* The numbers of E up to m.
Upto(E, m) == {n \in E : n <= m}

\* The last of the numbers of E.
LastOf(E, n) == n \in E /\ \A k \in E : k <= n

\* The numbers up to the next one.
LEMMA UptoNext ==
    ASSUME NEW E, E \subseteq Nat \ {0}, NEW m \in Nat
    PROVE  /\ Upto(E, 0) = {}
           /\ Upto(E, m) \in SUBSET E
           /\ m + 1 \notin E => Upto(E, m + 1) = Upto(E, m)
           /\ m + 1 \in E => /\ Upto(E, m + 1) \ {m + 1} = Upto(E, m)
                             /\ \A n : LastOf(Upto(E, m + 1), n) <=> n = m + 1
<1>1. \A n : n \in Upto(E, m) <=> n \in E /\ n <= m
  BY DEF Upto
<1>2. \A n : n \in Upto(E, m + 1) <=> n \in E /\ n <= m + 1
  BY DEF Upto
<1>3. ASSUME NEW n \in E
      PROVE  /\ n \in Nat /\ ~(n <= 0)
             /\ n <= m + 1 <=> n <= m \/ n = m + 1
             /\ n <= m => n # m + 1
  <2>1. n \in Nat \ {0}
    OBVIOUS
  <2> QED
    BY <2>1
<1>4. Upto(E, 0) = {}
  BY <1>3 DEF Upto
<1>5. ASSUME m + 1 \notin E PROVE Upto(E, m + 1) = Upto(E, m)
  <2>1. \A n : n \in Upto(E, m + 1) <=> n \in Upto(E, m)
    BY <1>1, <1>2, <1>3, <1>5
  <2> QED
    BY <2>1
<1>6. ASSUME m + 1 \in E
      PROVE  /\ Upto(E, m + 1) \ {m + 1} = Upto(E, m)
             /\ \A n : LastOf(Upto(E, m + 1), n) <=> n = m + 1
  <2>1. \A n : n \in Upto(E, m + 1) \ {m + 1} <=> n \in Upto(E, m)
    BY <1>1, <1>2, <1>3
  <2>2. Upto(E, m + 1) \ {m + 1} = Upto(E, m)
    BY <2>1
  <2>3. m + 1 \in Upto(E, m + 1) /\ \A k \in Upto(E, m + 1) : k <= m + 1
    BY <1>2, <1>6
  <2>4. ASSUME NEW n, LastOf(Upto(E, m + 1), n) PROVE n = m + 1
    <3>1. n \in Upto(E, m + 1) /\ m + 1 <= n
      BY <2>3, <2>4 DEF LastOf
    <3>2. n \in E /\ n <= m + 1
      BY <1>2, <3>1
    <3>3. n \in Nat
      BY <1>3, <3>2
    <3> QED
      BY <3>1, <3>2, <3>3
  <2> QED
    BY <2>2, <2>3, <2>4 DEF LastOf
<1>7. Upto(E, m) \in SUBSET E
  BY <1>1
<1> QED
  BY <1>4, <1>5, <1>6, <1>7

\* A chain of the numbers E: the first starts from zero, every other where the one before
\* it ended; f is what each changes.
Chain(L, E, f, from, to) ==
    /\ L \in Nat /\ E \in SUBSET (1 .. L)
    /\ \A n \in E :
         /\ from[n] \in Int /\ to[n] \in Int /\ f[n] = to[n] - from[n]
         /\ \/ (\A k \in E : k >= n) /\ from[n] = 0
            \/ \E m \in E : m < n /\ (\A k \in E : k <= m \/ k >= n) /\ from[n] = to[m]

\* The changes along a chain add up to where it ends.
LEMMA Telescope ==
    ASSUME NEW L, NEW E, NEW f, NEW from, NEW to, NEW g,
           Chain(L, E, f, from, to), Additive(g, f, E)
    PROVE  /\ E = {} => g[E] = 0
           /\ \A n : LastOf(E, n) => g[E] = to[n]
<1>0. L \in Nat /\ E \in SUBSET (1 .. L)
  BY DEF Chain
<1> DEFINE Ends(m) == \A n : LastOf(Upto(E, m), n) => g[Upto(E, m)] = to[n]
           N == {m \in Nat : Ends(m)}
<1>1. E \subseteq Nat \ {0} /\ \A n \in E : n \in Nat /\ n <= L
  BY <1>0
<1>2. \A m \in Nat : /\ Upto(E, 0) = {}
                     /\ Upto(E, m) \in SUBSET E
                     /\ m + 1 \notin E => Upto(E, m + 1) = Upto(E, m)
                     /\ m + 1 \in E => /\ Upto(E, m + 1) \ {m + 1} = Upto(E, m)
                                       /\ \A n : LastOf(Upto(E, m + 1), n) <=> n = m + 1
  BY <1>1, UptoNext
<1>3. g[{}] = 0 /\ \A s \in SUBSET E : \A y \in s : g[s] = f[y] + g[s \ {y}]
  BY DEF Additive
<1>4. Ends(0)
  <2>1. Upto(E, 0) = {}
    BY <1>1, UptoNext
  <2>2. \A n : ~LastOf(Upto(E, 0), n)
    BY <2>1 DEF LastOf
  <2> QED
    BY <2>2
<1>5. ASSUME NEW m \in Nat, Ends(m) PROVE Ends(m + 1)
  <2>1. CASE m + 1 \notin E
    BY <1>2, <1>5, <2>1
  <2>2. CASE m + 1 \in E
    <3>1. g[Upto(E, m)] = from[m + 1]
      <4>1. CASE (\A k \in E : k >= m + 1) /\ from[m + 1] = 0
        <5>1. \A n \in E : n \in Nat /\ n >= m + 1
          BY <1>1, <4>1
        <5>2. \A n \in E : ~(n <= m)
          BY <5>1
        <5>3. Upto(E, m) = {}
          BY <5>2 DEF Upto
        <5> QED
          BY <1>3, <4>1, <5>3
      <4>2. ASSUME NEW j \in E, j < m + 1, \A k \in E : k <= j \/ k >= m + 1,
                   from[m + 1] = to[j]
            PROVE  g[Upto(E, m)] = from[m + 1]
        <5>1. LastOf(Upto(E, m), j)
          BY <1>1, <4>2 DEF LastOf, Upto
        <5> QED
          BY <1>5, <4>2, <5>1
      <4> QED
        BY <2>2, <4>1, <4>2 DEF Chain
    <3>2. LastOf(Upto(E, m + 1), m + 1)
      BY <1>2, <2>2
    <3>3. m + 1 \in Upto(E, m + 1) /\ Upto(E, m + 1) \in SUBSET E
      BY <1>2, <3>2 DEF LastOf
    <3>4. g[Upto(E, m + 1)] = f[m + 1] + g[Upto(E, m + 1) \ {m + 1}]
      BY <1>3, <3>3
    <3>5. g[Upto(E, m + 1)] = f[m + 1] + from[m + 1]
      BY <1>2, <2>2, <3>1, <3>4
    <3>6. from[m + 1] \in Int /\ to[m + 1] \in Int /\ f[m + 1] = to[m + 1] - from[m + 1]
      BY <2>2 DEF Chain
    <3>7. g[Upto(E, m + 1)] = to[m + 1]
      BY <3>5, <3>6
    <3> QED
      BY <1>2, <2>2, <3>7
  <2> QED
    BY <2>1, <2>2
<1>6. Ends(L)
  <2> HIDE DEF Ends
  <2>1. 0 \in N /\ \A n \in Nat : n \in N => n + 1 \in N
    BY <1>4, <1>5
  <2> HIDE DEF N
  <2>2. L \in N
    BY <1>0, <2>1, NumbersInduct
  <2> QED
    BY <2>2 DEF N
<1>7. Upto(E, L) = E
  BY <1>1 DEF Upto
<1> QED
  BY <1>3, <1>6, <1>7
-----------------------------------------------------------------------------
\* The entries of an intact chain add up to what the last one left.
LEMMA ChainAddsUp ==
    ASSUME NEW l \in Seq(Entry), NEW p, NEW w, Recorded(l), Chained(l, p, w)
    PROVE  /\ EntriesOf(l, p, w) = {} => LedgerTotal(l, p, w) = 0
           /\ \A n : LastOf(EntriesOf(l, p, w), n) => LedgerTotal(l, p, w) = l[n].after
<1> DEFINE E == EntriesOf(l, p, w)
           L == Len(l)
           f == [n \in DOMAIN l |-> l[n].change]
           from == [n \in DOMAIN l |-> l[n].before]
           to == [n \in DOMAIN l |-> l[n].after]
<1>1. L \in Nat /\ DOMAIN l = 1 .. L
  OBVIOUS
<1>2. E \in SUBSET (1 .. L) /\ \A n \in E : n \in DOMAIN l
  BY <1>1 DEF EntriesOf
<1>3. ASSUME NEW n \in DOMAIN l
      PROVE  /\ from[n] = l[n].before /\ to[n] = l[n].after
             /\ from[n] \in Int /\ to[n] \in Int /\ f[n] = to[n] - from[n]
  <2>1. l[n] \in Entry
    OBVIOUS
  <2>2. l[n].before \in Int /\ l[n].after \in Int
    BY <2>1 DEF Entry, Balance
  <2> QED
    BY <2>2 DEF Recorded
<1>4. Chain(L, E, f, from, to)
  BY <1>1, <1>2, <1>3 DEF Chain, Chained
<1>5. LedgerTotal(l, p, w) = SumFunctionOnSet(f, E)
  BY DEF LedgerTotal
<1> HIDE DEF E, L, f, from, to
<1>6. IsFiniteSet(1 .. L)
  BY <1>1, FS_Interval
<1>7. IsFiniteSet(E)
  BY <1>2, <1>6, FS_Subset
<1>8. \A n \in E : f[n] \in Int
  BY <1>2, <1>3
<1>9. PICK g : SumFunctionOnSet(f, E) = g[E] /\ Additive(g, f, E)
  BY <1>7, <1>8, SumUnfolds
<1>10. /\ E = {} => g[E] = 0
       /\ \A n : LastOf(E, n) => g[E] = to[n]
  BY <1>4, <1>9, Telescope
<1>11. \A n : LastOf(E, n) => n \in DOMAIN l /\ to[n] = l[n].after
  BY <1>2, <1>3 DEF LastOf
<1> QED
  BY <1>5, <1>9, <1>10, <1>11 DEF E

\* A finite set of at most one element, in other words.
LEMMA AtMostOne ==
    ASSUME NEW S, IsFiniteSet(S)
    PROVE  Cardinality(S) <= 1 <=> \A x, y \in S : x = y
<1>1. ASSUME Cardinality(S) <= 1, NEW x \in S, NEW y \in S, x # y PROVE FALSE
  <2>1. /\ IsFiniteSet({x}) /\ Cardinality({x}) = 1
        /\ y \notin {x}
    BY <1>1, FS_Singleton
  <2>2. Cardinality({x} \cup {y}) = 2
    BY <2>1, FS_AddElement
  <2>3. {x} \cup {y} \subseteq S /\ Cardinality({x} \cup {y}) <= Cardinality(S)
    BY FS_Subset
  <2>4. Cardinality(S) \in Nat
    BY FS_CardinalityType
  <2> QED
    BY <1>1, <2>2, <2>3, <2>4
<1>2. ASSUME \A x, y \in S : x = y PROVE Cardinality(S) <= 1
  <2>1. CASE S = {}
    BY <2>1, FS_EmptySet
  <2>2. ASSUME NEW x \in S PROVE Cardinality(S) <= 1
    <3>1. S = {x}
      BY <1>2
    <3> QED
      BY <3>1, FS_Singleton
  <2> QED
    BY <2>1, <2>2
<1> QED
  BY <1>1, <1>2

\* The total of at most one balance.
LEMMA OneBalance ==
    ASSUME NEW t, NEW p, NEW w, RowsOK(t), IsFiniteSet(BalanceRows(t, p, w))
    PROVE  /\ BalanceRows(t, p, w) = {} => BalanceTotal(t, p, w) = 0
           /\ \A x : BalanceRows(t, p, w) = {x} => BalanceTotal(t, p, w) = t[x]
<1> DEFINE B == BalanceRows(t, p, w)
<1>1. \A x \in B : t[x] \in Int
  BY DEF BalanceRows, RowsOK, Balance, Column
<1>2. BalanceTotal(t, p, w) = SumFunctionOnSet(t, B)
  BY DEF BalanceTotal
<1> HIDE DEF B
<1>3. B = {} => SumFunctionOnSet(t, B) = 0
  BY SumOfNone
<1>4. ASSUME NEW x, B = {x} PROVE SumFunctionOnSet(t, B) = t[x]
  <2>1. t[x] \in Int
    BY <1>1, <1>4 DEF B
  <2> QED
    BY <1>4, <2>1, SumOfOne
<1> QED
  BY <1>2, <1>3, <1>4 DEF B

\* Settled books with an intact chain and at most one balance row balance.
LEMMA SettledBooksBalance ==
    ASSUME NEW t, NEW l \in Seq(Entry), NEW p, NEW w, RowsOK(t), Recorded(l),
           IsFiniteSet(BalanceRows(t, p, w)), Cardinality(BalanceRows(t, p, w)) <= 1,
           Chained(l, p, w), Settled(t, l, p, w)
    PROVE  BalanceTotal(t, p, w) = LedgerTotal(l, p, w)
<1> DEFINE B == BalanceRows(t, p, w)
           E == EntriesOf(l, p, w)
<1>1. B = {} \/ \E x : B = {x}
  <2>1. \A x, y \in B : x = y
    BY AtMostOne
  <2> HIDE DEF B
  <2>2. ASSUME NEW x \in B PROVE B = {x}
    BY <2>1
  <2> QED
    BY <2>2
<1>2. PICK b : /\ LedgerTotal(l, p, w) = b
               /\ \A x \in B : t[x] = b
               /\ B = {} => b = 0
  <2>1. CASE E = {} /\ \A x \in B : t[x] = 0
    BY <2>1, ChainAddsUp
  <2>2. ASSUME NEW n \in E, \A k \in E : k <= n, \A x \in B : t[x] = l[n].after,
               B = {} => l[n].after = 0
        PROVE  /\ LedgerTotal(l, p, w) = l[n].after
               /\ \A x \in B : t[x] = l[n].after
               /\ B = {} => l[n].after = 0
    <3>1. LastOf(E, n)
      BY <2>2 DEF LastOf
    <3> QED
      BY <2>2, <3>1, ChainAddsUp
  <2> QED
    BY <2>1, <2>2 DEF Settled
<1>3. CASE B = {}
  BY <1>2, <1>3, OneBalance
<1>4. ASSUME NEW x, B = {x} PROVE BalanceTotal(t, p, w) = LedgerTotal(l, p, w)
  BY <1>2, <1>4, OneBalance
<1> QED
  BY <1>1, <1>3, <1>4
-----------------------------------------------------------------------------
\* Every balance among the rows u is what the last of the entries m left.
Tallied(u, m, p, w) ==
    \A x \in BalanceRows(u, p, w) :
        \E n \in EntriesOf(m, p, w) : LastOf(EntriesOf(m, p, w), n) /\ u[x] = m[n].after

\* A balance that is not among the rows u is moved by no entry of m, of which there is at
\* most one.
Unmoved(u, m, p, w) ==
    BalanceRows(u, p, w) = {} =>
        \A n \in EntriesOf(m, p, w) : /\ m[n].before = m[n].after
                                      /\ \A k \in EntriesOf(m, p, w) : k = n

\* The entries of a ledger and of what is appended to it.
LEMMA EntriesOfConcat ==
    ASSUME NEW l \in Seq(Entry), NEW m \in Seq(Entry), NEW p, NEW w
    PROVE  /\ \A n \in EntriesOf(l, p, w) : /\ n \in EntriesOf(l \o m, p, w)
                                            /\ n \in Nat /\ n <= Len(l)
                                            /\ (l \o m)[n] = l[n]
           /\ \A n \in EntriesOf(m, p, w) : /\ Len(l) + n \in EntriesOf(l \o m, p, w)
                                            /\ n \in Nat /\ n > 0
                                            /\ (l \o m)[Len(l) + n] = m[n]
           /\ \A n \in EntriesOf(l \o m, p, w) :
                n \in EntriesOf(l, p, w) \/ \E i \in EntriesOf(m, p, w) : n = Len(l) + i
<1> DEFINE c == l \o m
<1>1. /\ Len(l) \in Nat /\ Len(m) \in Nat
      /\ DOMAIN l = 1 .. Len(l) /\ DOMAIN m = 1 .. Len(m) /\ DOMAIN c = 1 .. Len(l) + Len(m)
      /\ \A n \in 1 .. Len(l) : c[n] = l[n]
      /\ \A n \in 1 .. Len(m) : c[Len(l) + n] = m[n]
  OBVIOUS
<1> HIDE DEF c
<1>2. ASSUME NEW n \in EntriesOf(l, p, w)
      PROVE  n \in EntriesOf(c, p, w) /\ n \in Nat /\ n <= Len(l) /\ c[n] = l[n]
  <2>1. n \in 1 .. Len(l) /\ l[n].product = p /\ l[n].warehouse = w
    BY <1>1 DEF EntriesOf
  <2> QED
    BY <1>1, <2>1 DEF EntriesOf
<1>3. ASSUME NEW n \in EntriesOf(m, p, w)
      PROVE  Len(l) + n \in EntriesOf(c, p, w) /\ n \in Nat /\ n > 0 /\ c[Len(l) + n] = m[n]
  <2>1. n \in 1 .. Len(m) /\ m[n].product = p /\ m[n].warehouse = w
    BY <1>1 DEF EntriesOf
  <2> QED
    BY <1>1, <2>1 DEF EntriesOf
<1>4. ASSUME NEW n \in EntriesOf(c, p, w), n \notin EntriesOf(l, p, w)
      PROVE  \E i \in EntriesOf(m, p, w) : n = Len(l) + i
  <2>1. n \in 1 .. Len(l) + Len(m) /\ c[n].product = p /\ c[n].warehouse = w
    BY <1>1 DEF EntriesOf
  <2>2. n \notin 1 .. Len(l)
    BY <1>1, <1>4, <2>1 DEF EntriesOf
  <2>3. n - Len(l) \in 1 .. Len(m) /\ n = Len(l) + (n - Len(l))
    BY <1>1, <2>1, <2>2
  <2>4. c[Len(l) + (n - Len(l))] = m[n - Len(l)]
    BY <1>1, <2>3
  <2>5. n - Len(l) \in EntriesOf(m, p, w)
    BY <1>1, <2>1, <2>3, <2>4 DEF EntriesOf
  <2> QED
    BY <2>3, <2>5
<1> QED
  BY <1>2, <1>3, <1>4 DEF c

\* The entries after one more.
LEMMA EntriesOfNext ==
    ASSUME NEW l \in Seq(Entry), NEW e \in Entry, NEW p, NEW w
    PROVE  /\ \A n : n \in EntriesOf(l \o <<e>>, p, w) <=>
                n \in EntriesOf(l, p, w)
                  \/ (n = Len(l) + 1 /\ e.product = p /\ e.warehouse = w)
           /\ \A n \in EntriesOf(l, p, w) : n \in Nat /\ n <= Len(l) /\ (l \o <<e>>)[n] = l[n]
           /\ (l \o <<e>>)[Len(l) + 1] = e
           /\ Len(l) \in Nat
<1> DEFINE c == l \o <<e>>
<1>1. /\ Len(l) \in Nat /\ DOMAIN l = 1 .. Len(l) /\ DOMAIN c = 1 .. Len(l) + 1
      /\ \A n \in 1 .. Len(l) : c[n] = l[n]
      /\ c[Len(l) + 1] = e
  OBVIOUS
<1> HIDE DEF c
<1>2. \A n \in 1 .. Len(l) : n \in 1 .. Len(l) + 1 /\ n # Len(l) + 1 /\ n \in Nat /\ n <= Len(l)
  BY <1>1
<1>3. \A n \in 1 .. Len(l) + 1 : n \in 1 .. Len(l) \/ n = Len(l) + 1
  BY <1>1
<1>4. Len(l) + 1 \in 1 .. Len(l) + 1
  BY <1>1
<1>5. \A n : n \in EntriesOf(c, p, w) <=>
                n \in EntriesOf(l, p, w)
                  \/ (n = Len(l) + 1 /\ e.product = p /\ e.warehouse = w)
  BY <1>1, <1>2, <1>3, <1>4 DEF EntriesOf
<1>6. \A n \in EntriesOf(l, p, w) : n \in Nat /\ n <= Len(l) /\ c[n] = l[n]
  BY <1>1, <1>2 DEF EntriesOf
<1> QED
  BY <1>1, <1>5, <1>6 DEF c

\* An intact chain was intact before its last entries.
LEMMA ChainedBefore ==
    ASSUME NEW l \in Seq(Entry), NEW m \in Seq(Entry), NEW p, NEW w, Chained(l \o m, p, w)
    PROVE  Chained(l, p, w)
<1> DEFINE c == l \o m
           E == EntriesOf(l, p, w)
           F == EntriesOf(c, p, w)
<1>1. /\ \A n \in E : n \in F /\ n \in Nat /\ n <= Len(l) /\ c[n] = l[n]
      /\ \A n \in F : n \in E \/ \E i \in EntriesOf(m, p, w) : n = Len(l) + i
      /\ \A i \in EntriesOf(m, p, w) : i \in Nat /\ i > 0
      /\ Len(l) \in Nat
  BY EntriesOfConcat
<1>2. ASSUME NEW n \in E
      PROVE  \/ (\A k \in E : k >= n) /\ l[n].before = 0
             \/ \E j \in E : /\ j < n
                             /\ \A k \in E : k <= j \/ k >= n
                             /\ l[n].before = l[j].after
  <2>1. \/ (\A k \in F : k >= n) /\ c[n].before = 0
        \/ \E j \in F : /\ j < n
                        /\ \A k \in F : k <= j \/ k >= n
                        /\ c[n].before = c[j].after
    BY <1>1 DEF Chained
  <2>2. ASSUME NEW j \in F, j < n PROVE j \in E
    <3>1. CASE j \in E
      BY <3>1
    <3>2. ASSUME NEW i \in EntriesOf(m, p, w), j = Len(l) + i PROVE FALSE
      <4>1. i \in Nat /\ i > 0 /\ n \in Nat /\ n <= Len(l) /\ Len(l) \in Nat
        BY <1>1
      <4> HIDE DEF c, E, F
      <4> QED
        BY <2>2, <3>2, <4>1
    <3> QED
      BY <1>1, <3>1, <3>2
  <2> HIDE DEF c, E, F
  <2> QED
    BY <1>1, <2>1, <2>2
<1> QED
  BY <1>2 DEF Chained

\* Books stay settled when rows u and entries m that tally are added to them, if the
\* chain of entries stays intact.
LEMMA BooksTogether ==
    ASSUME NEW l \in Seq(Entry), NEW m \in Seq(Entry), NEW p, NEW w,
           NEW t, NEW u, NEW v,
           \A x : x \in BalanceRows(v, p, w) <=>
             x \in BalanceRows(t, p, w) \/ x \in BalanceRows(u, p, w),
           \A x \in BalanceRows(u, p, w) : v[x] = u[x],
           \A x \in BalanceRows(t, p, w) : x \notin BalanceRows(u, p, w) => v[x] = t[x],
           Chained(l \o m, p, w), OneRow(v, p, w),
           Settled(t, l, p, w), Tallied(u, m, p, w), Unmoved(u, m, p, w)
    PROVE  Settled(v, l \o m, p, w)
<1> DEFINE c == l \o m
           E == EntriesOf(l, p, w)
           G == EntriesOf(m, p, w)
           F == EntriesOf(c, p, w)
<1>1. /\ \A n \in E : n \in F /\ n \in Nat /\ n <= Len(l) /\ c[n] = l[n]
      /\ \A n \in G : Len(l) + n \in F /\ n \in Nat /\ n > 0 /\ c[Len(l) + n] = m[n]
      /\ \A n \in F : n \in E \/ \E i \in G : n = Len(l) + i
      /\ Len(l) \in Nat
  BY EntriesOfConcat
<1>2. ASSUME NEW x \in BalanceRows(u, p, w) PROVE Settled(v, c, p, w)
  <2>1. PICK n : LastOf(G, n) /\ u[x] = m[n].after
    BY DEF Tallied
  <2>2. n \in G /\ \A k \in G : k <= n
    BY <2>1 DEF LastOf
  <2>3. Len(l) + n \in F /\ c[Len(l) + n].after = u[x]
    BY <1>1, <2>1, <2>2
  <2>4. \A k \in F : k <= Len(l) + n
    BY <1>1, <2>2
  <2>5. BalanceRows(v, p, w) # {} /\ \A y \in BalanceRows(v, p, w) : v[y] = u[x]
    BY DEF OneRow
  <2> QED
    BY <2>3, <2>4, <2>5 DEF Settled
<1>3. CASE BalanceRows(u, p, w) = {}
  <2>1. /\ BalanceRows(v, p, w) = BalanceRows(t, p, w)
        /\ \A x \in BalanceRows(t, p, w) : v[x] = t[x]
    BY <1>3
  <2>2. CASE G = {}
    <3>1. F = E
      BY <1>1, <2>2
    <3>2. \A n \in E : c[n].after = l[n].after
      BY <1>1
    <3> QED
      BY <2>1, <3>1, <3>2 DEF Settled
  <2>3. ASSUME NEW i \in G PROVE Settled(v, c, p, w)
    <3>1. m[i].before = m[i].after /\ \A k \in G : k = i
      BY <1>3, <2>3 DEF Unmoved
    <3> DEFINE n == Len(l) + i
    <3>2. n \in F /\ c[n].before = c[n].after /\ \A k \in F : k <= n /\ (k # n => k \in E)
      <4>1. n \in F /\ c[n] = m[i] /\ i \in Nat /\ i > 0
        BY <1>1
      <4>2. c[n].before = c[n].after
        BY <3>1, <4>1
      <4>3. \A k \in F : k \in E \/ k = n
        BY <1>1, <3>1
      <4>4. \A k \in E : k \in Nat /\ k <= Len(l)
        BY <1>1
      <4> HIDE DEF c, E, F, G
      <4>5. \A k \in E : k <= n
        BY <1>1, <4>1, <4>4
      <4>6. n <= n
        BY <1>1, <4>1
      <4> QED
        BY <4>1, <4>2, <4>3, <4>5, <4>6
    <3>3. \A k \in E : k \in F /\ k < n
      <4>1. i \in Nat /\ i > 0
        BY <1>1
      <4> QED
        BY <1>1, <4>1
    <3> HIDE DEF n
    <3>4. CASE (\A k \in F : k >= n) /\ c[n].before = 0
      <4>1. E = {}
        BY <1>1, <3>2, <3>3, <3>4
      <4>2. \A x \in BalanceRows(t, p, w) : t[x] = 0
        BY <4>1 DEF Settled
      <4> QED
        BY <2>1, <3>2, <3>4, <4>2 DEF Settled
    <3>5. ASSUME NEW j \in F, j < n, \A k \in F : k <= j \/ k >= n, c[n].before = c[j].after
          PROVE  Settled(v, c, p, w)
      <4>1. j \in E /\ \A k \in E : k <= j
        BY <1>1, <3>2, <3>3, <3>5
      <4>2. c[j].after = l[j].after
        BY <1>1, <4>1
      <4>3. ASSUME NEW k \in E, \A h \in E : h <= k PROVE k = j
        BY <1>1, <4>1, <4>3
      <4>4. /\ \A x \in BalanceRows(t, p, w) : t[x] = l[j].after
            /\ BalanceRows(t, p, w) = {} => l[j].after = 0
        BY <4>1, <4>3 DEF Settled
      <4>5. \A x \in BalanceRows(v, p, w) : v[x] = c[n].after
        BY <2>1, <3>2, <3>5, <4>2, <4>4
      <4>6. BalanceRows(v, p, w) = {} => c[n].after = 0
        BY <2>1, <3>2, <3>5, <4>2, <4>4
      <4>7. n \in F /\ \A k \in F : k <= n
        BY <3>2
      <4> HIDE DEF c
      <4> QED
        BY <4>5, <4>6, <4>7 DEF Settled
    <3> QED
      BY <3>2, <3>4, <3>5 DEF Chained
  <2> QED
    BY <2>2, <2>3
<1> QED
  BY <1>2, <1>3
-----------------------------------------------------------------------------
\* The work of a session tallies with its postings.
BooksWork(r) ==
    /\ IsFiniteSet(DOMAIN Work(r) \cap StockRows)
    /\ Recorded(Posts(r))
    /\ \A p \in Product, w \in Warehouse :
         Tallied(Work(r), Posts(r), p, w) /\ Unmoved(Work(r), Posts(r), p, w)

\* The inductive invariant: the store is settled wherever its chain is intact.
LedgerInv ==
    /\ ReceiptInv
    /\ \A r \in Request : BooksWork(r)
    /\ IsFiniteSet(DOMAIN table \cap StockRows)
    /\ Recorded(ledger)
    /\ \A p \in Product, w \in Warehouse :
         Chained(ledger, p, w) /\ OneRow(table, p, w) => Settled(table, ledger, p, w)
-----------------------------------------------------------------------------
\* A step that leaves the balances and postings of a session alone.
SameBooks(q) ==
    /\ \A x \in StockRows : x \in DOMAIN Work(q)' <=> x \in DOMAIN Work(q)
    /\ \A x \in DOMAIN Work(q) \cap StockRows : Work(q)'[x] = Work(q)[x]
    /\ Posts(q)' = Posts(q)

\* A step that leaves all books alone.
Uneventful == (\A q \in Request : SameBooks(q)) /\ UNCHANGED <<table, ledger>>

\* Quiet steps are uneventful.
LEMMA QuietIsUneventful ==
    ASSUME Quiet
    PROVE  Uneventful
BY DEF Quiet, Uneventful, SameBooks

\* So are the changes of a session's state other than a commit.
LEMMA StateIsUneventful ==
    ASSUME DataInv, NEW r \in Request, NEW s \in SessionState \ {"committed"},
           session' = [session EXCEPT ![r].state = s], UNCHANGED <<table, ledger, job>>,
           session[r].state # "committed"
    PROVE  Uneventful
BY StateIsQuiet, QuietIsUneventful

\* The rows that a statement stages, without a balance and a posting, leave the books alone.
LEMMA StageIsUneventful ==
    ASSUME DataInv, NEW r \in Request, NEW new, NEW dirty,
           Running(r), Stage(r, new, dirty, NoEntries), RowsOK(new), RowsOK(dirty),
           \A x \in StockRows : x \notin DOMAIN new /\ x \notin DOMAIN dirty
    PROVE  Uneventful
<1>1. /\ \A x : x \in DOMAIN Work(r)' <=>
           x \in DOMAIN Work(r) \/ x \in DOMAIN new \/ x \in DOMAIN dirty
      /\ \A x : x \in DOMAIN Work(r)' =>
           Work(r)'[x] = IF x \in DOMAIN dirty THEN dirty[x]
                         ELSE IF x \in DOMAIN new THEN new[x] ELSE Work(r)[x]
      /\ Posts(r)' = Posts(r) \o NoEntries
  BY NextWork
<1>2. /\ \A q \in Request \ {r} : Work(q)' = Work(q) /\ Posts(q)' = Posts(q)
      /\ table' = table /\ ledger' = ledger
  BY StagedWork
<1>3. Posts(r) \o <<>> = Posts(r)
  BY WorkOK
<1>4. SameBooks(r)
  BY <1>1, <1>3 DEF SameBooks, NoEntries
<1>5. \A q \in Request \ {r} : SameBooks(q)
  BY <1>2 DEF SameBooks
<1> QED
  BY <1>2, <1>4, <1>5 DEF Uneventful

\* A posting e for the balance row stock: it starts from what session r sees, where the
\* row is the only one of its product and warehouse.
Reads(r, stock, e) ==
    /\ Running(r)
    /\ stock \in StockRows /\ e \in Entry
    /\ e.product = stock.product /\ e.warehouse = stock.warehouse
    /\ e.change = e.after - e.before
    /\ \A x \in DOMAIN View(r) \cap StockRows :
         x.product = stock.product /\ x.warehouse = stock.warehouse => x = stock
    /\ e.before = IF stock \in DOMAIN View(r) THEN View(r)[stock] ELSE 0
    /\ e.before = e.after => stock \notin DOMAIN View(r) \/ Posts(r) = <<>>

\* The session posts e, and the row is set to what it says.
Posting(r, stock, e) ==
    /\ Reads(r, stock, e)
    /\ Posts(r)' = Posts(r) \o <<e>>
    /\ \A x \in StockRows : x \in DOMAIN Work(r)' <=>
         \/ x \in DOMAIN Work(r)
         \/ x = stock /\ (stock \in DOMAIN View(r) => e.before # e.after)
    /\ \A x \in DOMAIN Work(r)' \cap StockRows :
         Work(r)'[x] = IF x = stock THEN e.after ELSE Work(r)[x]

\* A step that sets one balance and posts it.
PostingStep(r) ==
    /\ \E stock, e : Posting(r, stock, e)
    /\ \A q \in Request \ {r} : SameBooks(q)
    /\ UNCHANGED <<table, ledger>>

\* Balances that a statement stages for stock.
StagesStock(r, new, dirty, stock, before, after) ==
    /\ \A x \in StockRows : x \in DOMAIN new <=> x = stock /\ stock \notin DOMAIN View(r)
    /\ \A x \in StockRows : x \in DOMAIN dirty <=> x = stock /\ before # after
    /\ stock \in DOMAIN new => new[stock] = 0
    /\ stock \in DOMAIN dirty => dirty[stock] = after

\* The rows that add_stock and adjust_stock stage for a balance that they read.
LEMMA StockStaged ==
    ASSUME DataInv, NEW r \in Request, NEW p \in Product, NEW w \in Warehouse, NEW after
    PROVE  /\ \A x : x \in DOMAIN NewStock(r, p, w) <=>
                x = OpenStock(r, p, w) /\ OpenStock(r, p, w) \notin DOMAIN View(r)
           /\ \A x : x \in DOMAIN Assign(OpenStock(r, p, w), OnHand(r, p, w), after) <=>
                x = OpenStock(r, p, w) /\ OnHand(r, p, w) # after
           /\ OnHand(r, p, w) = IF OpenStock(r, p, w) \in DOMAIN View(r)
                                THEN View(r)[OpenStock(r, p, w)] ELSE 0
<1> DEFINE stock == OpenStock(r, p, w)
<1>1. stock \in StockRows /\ stock.product = p /\ stock.warehouse = w
  BY StockOK, StockPair
<1>2. StockOf(r, p, w) = {} <=> stock \notin DOMAIN View(r)
  BY <1>1 DEF StockOf, OpenStock
<1>3. StockOf(r, p, w) = {} => stock = StockRow(p, w, r)
  BY DEF OpenStock
<1>4. \A x : x \in DOMAIN NewStock(r, p, w) <=> x = stock /\ StockOf(r, p, w) = {}
  BY <1>3, NoRowsOK DEF NewStock
<1>5. \A before, x : x \in DOMAIN Assign(stock, before, after) <=> x = stock /\ before # after
  BY NoRowsOK DEF Assign
<1>6. OnHand(r, p, w) = IF StockOf(r, p, w) = {} THEN 0 ELSE View(r)[stock]
  BY DEF OnHand
<1> HIDE DEF stock
<1> QED
  BY <1>2, <1>4, <1>5, <1>6 DEF stock

\* With finitely many balances in sight, an unambiguous one is the only one of its pair.
LEMMA OnlyStock ==
    ASSUME DataInv, NEW r \in Request, Clean(r), NEW p, NEW w, ~Ambiguous(r, p, w),
           IsFiniteSet(DOMAIN table \cap StockRows), IsFiniteSet(DOMAIN Work(r) \cap StockRows)
    PROVE  \A x \in DOMAIN View(r) \cap StockRows :
             x.product = p /\ x.warehouse = w => x = OpenStock(r, p, w)
<1> DEFINE T == DOMAIN table \cap StockRows
           U == DOMAIN Work(r) \cap StockRows
           S == StockOf(r, p, w)
<1>1. DOMAIN View(r) = DOMAIN table \cup DOMAIN Work(r)
  BY ViewOK, WorkOK
<1>2. IsFiniteSet(T \cup U)
  BY FS_Union
<1>3. S \subseteq T \cup U
  BY <1>1 DEF StockOf
<1> HIDE DEF T, U, S
<1>4. IsFiniteSet(S) /\ Cardinality(S) \in Nat
  BY <1>2, <1>3, FS_Subset, FS_CardinalityType
<1>5. Cardinality(S) <= 1
  BY <1>4 DEF Ambiguous, S
<1>6. \A x, y \in S : x = y
  BY <1>4, <1>5, AtMostOne
<1>7. ASSUME NEW x \in S PROVE x = OpenStock(r, p, w)
  <2>1. OpenStock(r, p, w) \in S
    BY <1>7 DEF OpenStock, S
  <2> QED
    BY <1>6, <1>7, <2>1
<1> QED
  BY <1>7 DEF S, StockOf

\* A statement that stages a balance it has read, with its ledger row, is a posting.
LEMMA StageIsAPosting ==
    ASSUME DataInv, NEW r \in Request, NEW new, NEW dirty, NEW stock, NEW e,
           Running(r), Stage(r, new, dirty, <<e>>), RowsOK(new), RowsOK(dirty),
           Reads(r, stock, e), StagesStock(r, new, dirty, stock, e.before, e.after)
    PROVE  PostingStep(r)
<1>1. /\ \A x : x \in DOMAIN Work(r)' <=>
           x \in DOMAIN Work(r) \/ x \in DOMAIN new \/ x \in DOMAIN dirty
      /\ \A x : x \in DOMAIN Work(r)' =>
           Work(r)'[x] = IF x \in DOMAIN dirty THEN dirty[x]
                         ELSE IF x \in DOMAIN new THEN new[x] ELSE Work(r)[x]
      /\ Posts(r)' = Posts(r) \o <<e>>
  BY NextWork
<1>2. /\ \A q \in Request \ {r} : Work(q)' = Work(q) /\ Posts(q)' = Posts(q)
      /\ table' = table /\ ledger' = ledger
  BY StagedWork
<1>3. /\ \A x \in StockRows : x \in DOMAIN new <=> x = stock /\ stock \notin DOMAIN View(r)
      /\ \A x \in StockRows : x \in DOMAIN dirty <=> x = stock /\ e.before # e.after
      /\ stock \in DOMAIN new => new[stock] = 0
      /\ stock \in DOMAIN dirty => dirty[stock] = e.after
  BY DEF StagesStock, Reads
<1>4. \A x \in StockRows : x \in DOMAIN Work(r)' <=>
         \/ x \in DOMAIN Work(r)
         \/ x = stock /\ (stock \in DOMAIN View(r) => e.before # e.after)
  BY <1>1, <1>3
<1>5. \A x \in DOMAIN Work(r) : x \in DOMAIN View(r) /\ View(r)[x] = Work(r)[x]
  BY ViewOfWork, OverlayIs DEF Running
<1>6. ASSUME NEW x \in DOMAIN Work(r)' \cap StockRows
      PROVE  Work(r)'[x] = IF x = stock THEN e.after ELSE Work(r)[x]
  <2>1. CASE x # stock
    BY <1>1, <1>3, <2>1
  <2>2. CASE x = stock /\ e.before # e.after
    BY <1>1, <1>3, <2>2
  <2>3. CASE x = stock /\ e.before = e.after /\ stock \notin DOMAIN View(r)
    BY <1>1, <1>3, <2>3 DEF Reads
  <2>4. CASE x = stock /\ e.before = e.after /\ stock \in DOMAIN View(r)
    <3>1. stock \notin DOMAIN new /\ stock \notin DOMAIN dirty
      BY <1>3, <2>4
    <3>2. stock \in DOMAIN Work(r) /\ Work(r)'[stock] = Work(r)[stock]
      BY <1>1, <2>4, <3>1
    <3>3. View(r)[stock] = Work(r)[stock]
      BY <1>5, <3>2
    <3> QED
      BY <2>4, <3>2, <3>3 DEF Reads
  <2> QED
    BY <2>1, <2>2, <2>3, <2>4
<1>7. Posting(r, stock, e)
  BY <1>1, <1>4, <1>6 DEF Posting
<1>8. \A q \in Request \ {r} : SameBooks(q)
  BY <1>2 DEF SameBooks
<1> QED
  BY <1>2, <1>7, <1>8 DEF PostingStep

\* An exception is uneventful.
LEMMA RaiseIsUneventful ==
    ASSUME DataInv, NEW r \in Request, Raise(r), session[r].state # "committed"
    PROVE  Uneventful
BY StateIsUneventful DEF Raise, SessionState

\* create_po is uneventful: it writes an order.
LEMMA CreatePOIsUneventful ==
    ASSUME IInv, NEW r \in Request, CreatePO(r)
    PROVE  Uneventful
<1> DEFINE items == job[r].items
           Bad == \E i \in DOMAIN items :
                     items[i].product = Unknown \/ items[i].ordered = Null
                        \/ ~Fits(items[i].ordered)
<1>1. /\ DataInv /\ Running(r) /\ session[r].state = "open"
      /\ job[r] \in [op : {"create_po"}, pc : PC, warehouse : Warehouse, items : Seq(Item)]
  BY DEF CreatePO, IInv, JobInv, Job, Running
<1>2. CASE Bad
  BY <1>1, <1>2, RaiseIsUneventful DEF CreatePO
<1>3. CASE ~Bad
  <2>1. Stage(r, NewOrder(r), NoRows, NoEntries)
    BY <1>3 DEF CreatePO, NewOrder, NoEntries
  <2>2. RowsOK(NewOrder(r)) /\ DOMAIN NewOrder(r) = {PORow(r)} /\ PORow(r) \notin StockRows
    BY <1>1, <1>3, NewOrderOK, RowKinds
  <2> QED
    BY <1>1, <2>1, <2>2, NoRowsOK, StageIsUneventful
<1> QED
  BY <1>2, <1>3

\* approve_po is uneventful: it updates an order.
LEMMA ApprovePOIsUneventful ==
    ASSUME IInv, NEW r \in Request, ApprovePO(r)
    PROVE  Uneventful
<1> DEFINE o == job[r].po
           row == PORow(o)
           Bad == row \notin DOMAIN View(r) \/ View(r)[row].status \notin Approvable
           dirty == WithStatus(r, o, "approved")
<1>1. /\ DataInv /\ Running(r) /\ session[r].state = "open"
      /\ job[r] \in [op : {"approve_po"}, pc : PC, po : PO]
  BY DEF ApprovePO, IInv, JobInv, Job, Running
<1>2. CASE Bad
  BY <1>1, <1>2, RaiseIsUneventful DEF ApprovePO
<1>3. CASE ~Bad
  <2>1. Stage(r, NoRows, dirty, NoEntries)
    BY <1>3 DEF ApprovePO, NoEntries
  <2>2. RowsOK(dirty) /\ DOMAIN dirty = {row} /\ row \notin StockRows
    BY <1>1, <1>3, WithStatusOK, RowKinds DEF POStatus
  <2> HIDE DEF dirty
  <2> QED
    BY <1>1, <2>1, <2>2, NoRowsOK, StageIsUneventful
<1> QED
  BY <1>2, <1>3

\* The first part of create_grn is uneventful: it writes the note.
LEMMA OpenGRNIsUneventful ==
    ASSUME IInv, NEW r \in Request, OpenGRN(r)
    PROVE  Uneventful
<1> DEFINE row == PORow(job[r].po)
           Bad == row \notin DOMAIN View(r) \/ View(r)[row].status \notin Receivable
           value == [po |-> job[r].po, lines |-> <<>>,
                     status |-> IF job[r].auto THEN "completed" ELSE "draft"]
           new == [x \in {GRNRow(r)} |-> value]
<1>1. /\ DataInv /\ Running(r) /\ session[r].state = "open"
      /\ job[r] \in [op : {"create_grn"}, pc : PC, po : PO, lines : Seq(Delivered),
                     auto : BOOLEAN, i : Nat \ {0}]
  BY DEF OpenGRN, IInv, JobInv, Job, Running
<1>2. CASE Bad
  BY <1>1, <1>2, RaiseIsUneventful DEF OpenGRN
<1>3. CASE ~Bad
  <2>1. Stage(r, new, NoRows, NoEntries)
    BY <1>3 DEF OpenGRN, NoEntries
  <2>2. RowsOK(new) /\ DOMAIN new = {GRNRow(r)} /\ GRNRow(r) \notin StockRows
    <3>1. value \in GRNValue
      BY <1>1 DEF GRNValue, GRNStatus
    <3> QED
      BY <3>1 DEF RowsOK, PORows, StockRows, GRNRows, BatchRows, GRNRow
  <2> HIDE DEF new
  <2> QED
    BY <1>1, <2>1, <2>2, NoRowsOK, StageIsUneventful
<1> QED
  BY <1>2, <1>3

\* A line that credits nothing is uneventful: it is added to the note.
LEMMA RecordLineIsUneventful ==
    ASSUME IInv, NEW r \in Request, RecordLine(r)
    PROVE  Uneventful
<1> DEFINE new == WithLine(r, Line(r))
<1>1. /\ AtLine(r) /\ Running(r) /\ ~Unprocessable(Line(r)) /\ DataInv
      /\ Stage(r, new, NoRows, NoEntries)
  BY DEF RecordLine, NoEntries, AtLine, IInv
<1>2. RowsOK(new) /\ DOMAIN new = {GRNRow(r)} /\ GRNRow(r) \notin StockRows
  BY <1>1, WithLineOK, RowKinds DEF Documents
<1> HIDE DEF new
<1> QED
  BY <1>1, <1>2, NoRowsOK, StageIsUneventful

\* The last part of create_grn is uneventful: it updates the order.
LEMMA ClosePOIsUneventful ==
    ASSUME IInv, NEW r \in Request, ClosePO(r)
    PROVE  Uneventful
<1> DEFINE o == job[r].po
           dirty == WithStatus(r, o, "fully_received")
<1>1. /\ Running(r) /\ Stage(r, NoRows, dirty, NoEntries) /\ DataInv
      /\ job[r].op = "create_grn" /\ job[r].pc = "lines"
  BY DEF ClosePO, NoEntries, IInv
<1>2. o \in PO /\ PORow(o) \in DOMAIN View(r)
  BY <1>1, InLines
<1>3. RowsOK(dirty) /\ DOMAIN dirty = {PORow(o)} /\ PORow(o) \notin StockRows
  BY <1>1, <1>2, WithStatusOK, RowKinds DEF POStatus
<1> HIDE DEF dirty
<1> QED
  BY <1>1, <1>3, NoRowsOK, StageIsUneventful

\* adjust_stock sets a balance and posts it, or raises.
LEMMA AdjustStockPosts ==
    ASSUME ReceiptInv, NEW r \in Request, AdjustStock(r),
           IsFiniteSet(DOMAIN table \cap StockRows), IsFiniteSet(DOMAIN Work(r) \cap StockRows)
    PROVE  Uneventful \/ PostingStep(r)
<1> DEFINE p == job[r].product
           w == job[r].warehouse
           n == job[r].quantity
           Bad == p = Unknown \/ Ambiguous(r, p, w) \/ ~Fits(n)
           before == OnHand(r, p, w)
           type == IF n >= before THEN "manual_adjustment_in"
                   ELSE "manual_adjustment_out"
           new == NewStock(r, p, w)
           stock == OpenStock(r, p, w)
           dirty == Assign(stock, before, n)
           e == LedgerEntry(type, p, w, before, n, r)
<1>1. /\ IInv /\ DataInv /\ Running(r) /\ Clean(r) /\ session[r].state = "open"
      /\ job[r].pc = "start" /\ Untouched(r)
      /\ job[r] \in [op : {"adjust_stock"}, pc : PC, product : Product \cup {Unknown},
                     warehouse : Warehouse, quantity : Nat]
  BY DEF AdjustStock, ReceiptInv, RequestInv, IInv, JobInv, Job, Running
<1>2. CASE Bad
  BY <1>1, <1>2, RaiseIsUneventful DEF AdjustStock
<1>3. CASE ~Bad
  <2>1. Stage(r, new, dirty, <<e>>)
    BY <1>3 DEF AdjustStock
  <2>2. p \in Product /\ w \in Warehouse /\ n \in Balance /\ n \in Int /\ ~Ambiguous(r, p, w)
    BY <1>1, <1>3 DEF Balance, Column
  <2>3. stock.product = p /\ stock.warehouse = w
    BY StockPair
  <2>4. /\ \A x \in DOMAIN new : new[x] = 0
        /\ \A x \in DOMAIN dirty : dirty[x] = n
    BY StockPair, Assigned
  <2>5. Posts(r) = <<>>
    BY <1>1 DEF Untouched
  <2> HIDE DEF p, w, n, type
  <2>6. stock \in StockRows /\ RowsOK(new) /\ before \in Balance
    BY <1>1, <2>2, StockOK
  <2>7. RowsOK(dirty)
    BY <2>2, <2>6, AssignOK
  <2>8. e \in Entry
    <3>1. <<e>> \in Seq(Entry)
      BY <2>2, <2>6, LedgerEntryOK DEF type
    <3>2. <<e>>[1] = e /\ 1 \in DOMAIN <<e>>
      OBVIOUS
    <3> HIDE DEF e
    <3> QED
      BY <3>1
  <2>9. /\ e.product = p /\ e.warehouse = w /\ e.before = before /\ e.after = n
        /\ e.change = n - before
    BY DEF LedgerEntry
  <2>10. /\ \A x : x \in DOMAIN new <=> x = stock /\ stock \notin DOMAIN View(r)
         /\ \A x : x \in DOMAIN dirty <=> x = stock /\ before # n
         /\ before = IF stock \in DOMAIN View(r) THEN View(r)[stock] ELSE 0
    BY <1>1, <2>2, StockStaged
  <2>11. \A x \in DOMAIN View(r) \cap StockRows :
            x.product = p /\ x.warehouse = w => x = stock
    BY <1>1, <2>2, OnlyStock
  <2> HIDE DEF before, new, stock, dirty, e
  <2>12. StagesStock(r, new, dirty, stock, e.before, e.after)
    BY <2>4, <2>9, <2>10 DEF StagesStock
  <2>13. Reads(r, stock, e)
    BY <1>1, <2>3, <2>5, <2>6, <2>8, <2>9, <2>10, <2>11 DEF Reads
  <2> QED
    BY <1>1, <2>1, <2>6, <2>7, <2>12, <2>13, StageIsAPosting
<1> QED
  BY <1>2, <1>3

\* A credited line sets a balance and posts it.
LEMMA CreditLinePosts ==
    ASSUME IInv, NEW r \in Request, CreditLine(r),
           IsFiniteSet(DOMAIN table \cap StockRows), IsFiniteSet(DOMAIN Work(r) \cap StockRows)
    PROVE  PostingStep(r)
<1> DEFINE line == Line(r)
           p == line.product
           w == WarehouseOf(r)
           before == OnHand(r, p, w)
           after == before + line.accepted
           note == WithLine(r, Line(r))
           fresh == NewStock(r, p, w)
           new == Overlay(note, fresh)
           batch == BatchOf(r, line)
           stock == OpenStock(r, p, w)
           level == Assign(stock, before, after)
           dirty == Overlay(batch, level)
           e == LedgerEntry("grn_receipt", p, w, before, after, r)
<1>1. /\ AtLine(r) /\ ~Unprocessable(line) /\ Credited(job[r].auto, line)
      /\ ~CannotCredit(r, line, w)
      /\ Stage(r, new, dirty, <<e>>)
  BY DEF CreditLine
<1>2. /\ DataInv /\ Running(r) /\ Clean(r)
      /\ job[r].op = "create_grn" /\ job[r].pc = "lines"
  BY <1>1 DEF IInv, AtLine, Running
<1>3. /\ p \in Product /\ line.accepted \in Column
      /\ RowsOK(note) /\ DOMAIN note = {GRNRow(r)} /\ GRNRow(r) \notin StockRows
  BY <1>1, WithLineOK, RowKinds DEF Documents
<1>4. w \in Warehouse /\ job[r].i \in Nat
  BY <1>2, InLines
<1>5. stock \in StockRows /\ RowsOK(fresh) /\ before \in Balance
  BY <1>2, <1>3, <1>4, StockOK
<1>6. after \in Balance /\ before # after /\ after \in Int
  BY <1>1, <1>3, <1>5 DEF CannotCredit, Credited, Balance, Column
<1>7. /\ stock.product = p /\ stock.warehouse = w
      /\ \A x \in DOMAIN fresh : x = stock /\ fresh[x] = 0
      /\ \A x \in DOMAIN level : x = stock /\ level[x] = after
  BY StockPair, Assigned
<1>8. RowsOK(level)
  BY <1>5, <1>6, AssignOK
<1>9. /\ RowsOK(batch) /\ BatchRow(r, job[r].i) \notin StockRows
      /\ \A x : x \in DOMAIN batch => x = BatchRow(r, job[r].i)
  BY <1>3, <1>4, BatchOK, BatchIs, RowKinds DEF Documents
<1>10. e \in Entry
  <2>1. <<e>> \in Seq(Entry)
    BY <1>3, <1>4, <1>5, <1>6, LedgerEntryOK
  <2>2. <<e>>[1] = e /\ 1 \in DOMAIN <<e>>
    OBVIOUS
  <2> HIDE DEF e
  <2> QED
    BY <2>1
<1>11. /\ e.product = p /\ e.warehouse = w /\ e.before = before /\ e.after = after
       /\ e.change = after - before
  BY DEF LedgerEntry
<1>12. /\ \A x : x \in DOMAIN fresh <=> x = stock /\ stock \notin DOMAIN View(r)
       /\ \A x : x \in DOMAIN level <=> x = stock /\ before # after
       /\ before = IF stock \in DOMAIN View(r) THEN View(r)[stock] ELSE 0
  BY <1>2, <1>3, <1>4, StockStaged
<1>13. \A x \in DOMAIN View(r) \cap StockRows : x.product = p /\ x.warehouse = w => x = stock
  BY <1>1, <1>2, OnlyStock DEF CannotCredit
<1> HIDE DEF line, p, w, before, after, note, fresh, batch, stock, level, e, new, dirty
<1>14. /\ RowsOK(new)
       /\ \A x : x \in DOMAIN new <=> x \in DOMAIN note \/ x \in DOMAIN fresh
       /\ \A x : x \in DOMAIN new => new[x] = IF x \in DOMAIN fresh THEN fresh[x] ELSE note[x]
  BY <1>3, <1>5, OverlayOK, OverlayIs DEF new
<1>15. /\ RowsOK(dirty)
       /\ \A x : x \in DOMAIN dirty <=> x \in DOMAIN batch \/ x \in DOMAIN level
       /\ \A x : x \in DOMAIN dirty => dirty[x] = IF x \in DOMAIN level THEN level[x] ELSE batch[x]
  BY <1>8, <1>9, OverlayOK, OverlayIs DEF dirty
<1>16. StagesStock(r, new, dirty, stock, e.before, e.after)
  BY <1>3, <1>5, <1>7, <1>9, <1>11, <1>12, <1>14, <1>15 DEF StagesStock
<1>17. Reads(r, stock, e)
  BY <1>2, <1>5, <1>6, <1>7, <1>10, <1>11, <1>12, <1>13 DEF Reads
<1> QED
  BY <1>1, <1>2, <1>14, <1>15, <1>16, <1>17, StageIsAPosting

\* Every step leaves the books alone, sets and posts one balance, or commits.
LEMMA NextIsOneOf ==
    ASSUME ReceiptInv, [Next]_vars, IsFiniteSet(DOMAIN table \cap StockRows),
           \A q \in Request : IsFiniteSet(DOMAIN Work(q) \cap StockRows)
    PROVE  Uneventful \/ \E r \in Request : PostingStep(r) \/ Commit(r)
<1>1. IInv /\ DataInv
  BY DEF ReceiptInv, IInv
<1>2. ASSUME NEW r \in Request, Submit(r) PROVE Uneventful
  <2>1. PICK m \in Managers, j \in Jobs : Arrive(r, m, j)
    BY <1>2 DEF Submit
  <2>2. SessionOK(session[r]) /\ session = [q \in Request |-> session[q]]
    BY <1>1 DEF DataInv, SessionsOK
  <2>3. /\ \A q \in Request \ {r} : session'[q] = session[q]
        /\ session'[r].writes = session[r].writes /\ session'[r].posted = session[r].posted
        /\ session'[r].dirty = session[r].dirty /\ session'[r].entries = session[r].entries
        /\ UNCHANGED <<table, ledger>>
    BY <2>1, <2>2 DEF Arrive, SessionOK
  <2>4. \A q \in Request : Work(q)' = Work(q) /\ Posts(q)' = Posts(q)
    BY <2>3 DEF Work, Posts
  <2> QED
    BY <2>3, <2>4 DEF Uneventful, SameBooks
<1>3. ASSUME NEW r \in Request, Crash(r) PROVE Uneventful
  BY <1>1, <1>3, StateIsUneventful DEF Crash, Live, SessionState
<1>4. CASE UNCHANGED vars
  <2>1. \A q \in Request : Work(q)' = Work(q) /\ Posts(q)' = Posts(q)
    BY <1>4 DEF vars, Work, Posts
  <2> QED
    BY <1>4, <2>1 DEF vars, Uneventful, SameBooks
<1>5. ASSUME NEW r \in Request, Serve(r)
      PROVE  Uneventful \/ PostingStep(r) \/ Commit(r)
  <2>1. CASE Connect(r)
    BY <1>1, <2>1, StateIsUneventful DEF Connect, SessionState
  <2>2. CASE PoolTimeout(r)
    BY <1>1, <2>2, StateIsUneventful DEF PoolTimeout, SessionState
  <2>3. CASE CreatePO(r)
    BY <1>1, <2>3, CreatePOIsUneventful
  <2>4. CASE ApprovePO(r)
    BY <1>1, <2>4, ApprovePOIsUneventful
  <2>5. CASE AdjustStock(r)
    BY <2>5, AdjustStockPosts
  <2>6. CASE OpenGRN(r)
    BY <1>1, <2>6, OpenGRNIsUneventful
  <2>7. CASE FailLine(r)
    BY <1>1, <2>7, RaiseIsUneventful DEF FailLine, AtLine, Running
  <2>8. CASE RecordLine(r)
    BY <1>1, <2>8, RecordLineIsUneventful
  <2>9. CASE CreditLine(r)
    BY <1>1, <2>9, CreditLinePosts
  <2>10. CASE ClosePO(r)
    BY <1>1, <2>10, ClosePOIsUneventful
  <2>11. CASE Flush(r)
    BY <1>1, <2>11, FlushIsQuiet, QuietIsUneventful
  <2>12. CASE Finish(r)
    BY <1>1, <2>12, StateIsUneventful DEF Finish, Respond, Running, SessionState
  <2>13. CASE Commit(r)
    BY <2>13
  <2>14. CASE Discard(r)
    BY <1>1, <2>14, StateIsUneventful DEF Discard, SessionState
  <2>15. CASE DeadlockVictim(r)
    BY <1>1, <2>15, RaiseIsUneventful DEF DeadlockVictim, Deadlocked, InUse, Live
  <2> QED
    BY <1>5, <2>1, <2>2, <2>3, <2>4, <2>5, <2>6, <2>7, <2>8, <2>9, <2>10, <2>11, <2>12,
       <2>13, <2>14, <2>15 DEF Serve
<1> QED
  BY <1>2, <1>3, <1>4, <1>5 DEF Next
-----------------------------------------------------------------------------
\* The entries of a product in a warehouse before and after a posting for another one.
LEMMA OtherPair ==
    ASSUME NEW l \in Seq(Entry), NEW e \in Entry, NEW p, NEW w,
           ~(e.product = p /\ e.warehouse = w)
    PROVE  /\ EntriesOf(l \o <<e>>, p, w) = EntriesOf(l, p, w)
           /\ \A n \in EntriesOf(l, p, w) : (l \o <<e>>)[n] = l[n]
<1> DEFINE c == l \o <<e>>
           E == EntriesOf(l, p, w)
           F == EntriesOf(c, p, w)
<1>1. \A n : n \in F <=> n \in E \/ (n = Len(l) + 1 /\ e.product = p /\ e.warehouse = w)
  BY EntriesOfNext
<1>2. ASSUME NEW n \in E PROVE c[n] = l[n]
  <2>1. n \in 1 .. Len(l)
    BY DEF EntriesOf
  <2> QED
    BY <2>1
<1> HIDE DEF c, E, F
<1>3. \A n : n \in F <=> n \in E
  BY <1>1
<1>4. F = E
  BY <1>3
<1> QED
  BY <1>2, <1>4 DEF c, E, F

\* A posting is the last entry of its product and warehouse.
LEMMA PostedLast ==
    ASSUME NEW l \in Seq(Entry), NEW e \in Entry, NEW p, NEW w,
           e.product = p, e.warehouse = w
    PROVE  /\ LastOf(EntriesOf(l \o <<e>>, p, w), Len(l) + 1)
           /\ (l \o <<e>>)[Len(l) + 1] = e
<1> DEFINE F == EntriesOf(l \o <<e>>, p, w)
           E == EntriesOf(l, p, w)
<1>1. /\ \A n : n \in F <=> n \in E \/ n = Len(l) + 1
      /\ \A n \in E : n \in Nat /\ n <= Len(l)
      /\ (l \o <<e>>)[Len(l) + 1] = e
      /\ Len(l) \in Nat
  BY EntriesOfNext
<1> HIDE DEF F, E
<1>2. \A n \in F : n <= Len(l) + 1
  BY <1>1
<1>3. LastOf(F, Len(l) + 1)
  BY <1>1, <1>2 DEF LastOf
<1> QED
  BY <1>1, <1>3 DEF F

\* What is recorded stays so with an entry that records its own difference...
LEMMA RecordedNext ==
    ASSUME NEW l \in Seq(Entry), NEW e \in Entry, Recorded(l), e.change = e.after - e.before
    PROVE  Recorded(l \o <<e>>)
<1>1. ASSUME NEW n \in DOMAIN (l \o <<e>>)
      PROVE  (l \o <<e>>)[n].change = (l \o <<e>>)[n].after - (l \o <<e>>)[n].before
  <2>1. \/ n \in DOMAIN l /\ (l \o <<e>>)[n] = l[n]
        \/ (l \o <<e>>)[n] = e
    OBVIOUS
  <2> QED
    BY <2>1 DEF Recorded
<1> QED
  BY <1>1 DEF Recorded

\* ... and with entries that record theirs.
LEMMA RecordedConcat ==
    ASSUME NEW l \in Seq(Entry), NEW m \in Seq(Entry), Recorded(l), Recorded(m)
    PROVE  Recorded(l \o m)
<1>1. ASSUME NEW n \in DOMAIN (l \o m)
      PROVE  (l \o m)[n].change = (l \o m)[n].after - (l \o m)[n].before
  <2>1. \/ n \in DOMAIN l /\ (l \o m)[n] = l[n]
        \/ n - Len(l) \in DOMAIN m /\ (l \o m)[n] = m[n - Len(l)]
    OBVIOUS
  <2> QED
    BY <2>1 DEF Recorded
<1> QED
  BY <1>1 DEF Recorded

\* The work of a session that a step leaves alone still tallies.
LEMMA SameBooksTally ==
    ASSUME NEW q \in Request, BooksWork(q), SameBooks(q)
    PROVE  BooksWork(q)'
<1>1. /\ \A x \in StockRows : x \in DOMAIN Work(q)' <=> x \in DOMAIN Work(q)
      /\ \A x \in DOMAIN Work(q) \cap StockRows : Work(q)'[x] = Work(q)[x]
      /\ Posts(q)' = Posts(q)
  BY DEF SameBooks
<1>2. DOMAIN Work(q)' \cap StockRows = DOMAIN Work(q) \cap StockRows
  BY <1>1
<1>3. IsFiniteSet(DOMAIN Work(q)' \cap StockRows) /\ Recorded(Posts(q)')
  BY <1>1, <1>2 DEF BooksWork
<1>4. ASSUME NEW p \in Product, NEW w \in Warehouse
      PROVE  Tallied(Work(q)', Posts(q)', p, w) /\ Unmoved(Work(q)', Posts(q)', p, w)
  <2>1. /\ BalanceRows(Work(q)', p, w) = BalanceRows(Work(q), p, w)
        /\ \A x \in BalanceRows(Work(q), p, w) : Work(q)'[x] = Work(q)[x]
    BY <1>1, <1>2 DEF BalanceRows
  <2>2. Tallied(Work(q), Posts(q), p, w) /\ Unmoved(Work(q), Posts(q), p, w)
    BY DEF BooksWork
  <2> QED
    BY <1>1, <2>1, <2>2 DEF Tallied, Unmoved
<1> QED
  BY <1>3, <1>4 DEF BooksWork

\* So does the work of a session that sets and posts a balance.
LEMMA PostingTallies ==
    ASSUME DataInv, NEW r \in Request, NEW stock, NEW e,
           BooksWork(r), Posting(r, stock, e)
    PROVE  BooksWork(r)'
<1> DEFINE l == Posts(r)
           u == Work(r)
           v == Work(r)'
           c == l \o <<e>>
<1>1. /\ stock \in StockRows /\ e \in Entry
      /\ e.product = stock.product /\ e.warehouse = stock.warehouse
      /\ e.change = e.after - e.before
      /\ \A x \in DOMAIN View(r) \cap StockRows :
           x.product = stock.product /\ x.warehouse = stock.warehouse => x = stock
      /\ e.before = e.after => stock \notin DOMAIN View(r) \/ l = <<>>
  BY DEF Posting, Reads
<1>2. /\ Posts(r)' = c
      /\ \A x \in StockRows : x \in DOMAIN v <=>
           \/ x \in DOMAIN u
           \/ x = stock /\ (stock \in DOMAIN View(r) => e.before # e.after)
      /\ \A x \in DOMAIN v \cap StockRows : v[x] = IF x = stock THEN e.after ELSE u[x]
  BY DEF Posting
<1>3. l \in Seq(Entry) /\ \A x \in DOMAIN u : x \in DOMAIN View(r)
  BY WorkOK, ViewOK DEF Posting, Reads, Running
<1>4. IsFiniteSet(DOMAIN u \cap StockRows) /\ Recorded(l)
  BY DEF BooksWork
<1> HIDE DEF l, u, v, c
<1>5. IsFiniteSet(DOMAIN v \cap StockRows)
  <2> DEFINE S == DOMAIN u \cap StockRows
  <2>1. DOMAIN v \cap StockRows \subseteq S \cup {stock}
    BY <1>2
  <2> HIDE DEF S
  <2>2. IsFiniteSet(S \cup {stock})
    BY <1>4, FS_AddElement DEF S
  <2> QED
    BY <2>1, <2>2, FS_Subset
<1>6. Recorded(c)
  BY <1>1, <1>3, <1>4, RecordedNext DEF c
<1>7. ASSUME NEW p \in Product, NEW w \in Warehouse
      PROVE  Tallied(v, c, p, w) /\ Unmoved(v, c, p, w)
  <2>1. Tallied(u, l, p, w) /\ Unmoved(u, l, p, w)
    BY DEF BooksWork, u, l
  <2>2. CASE e.product = p /\ e.warehouse = w
    <3>1. LastOf(EntriesOf(c, p, w), Len(l) + 1) /\ c[Len(l) + 1] = e
      BY <1>1, <1>3, <2>2, PostedLast DEF c
    <3>2. \A x \in BalanceRows(u, p, w) : x = stock
      BY <1>1, <1>3, <2>2 DEF BalanceRows
    <3>3. \A x \in BalanceRows(v, p, w) : x = stock /\ v[x] = e.after
      BY <1>2, <3>2 DEF BalanceRows
    <3>4. Tallied(v, c, p, w)
      BY <3>1, <3>3 DEF Tallied, LastOf
    <3>5. ASSUME BalanceRows(v, p, w) = {}, NEW n \in EntriesOf(c, p, w)
          PROVE  c[n].before = c[n].after /\ n = Len(l) + 1
      <4>1. stock \notin DOMAIN v
        BY <1>1, <2>2, <3>5 DEF BalanceRows
      <4>2. e.before = e.after /\ l = <<>>
        BY <1>1, <1>2, <4>1
      <4>3. EntriesOf(l, p, w) = {}
        BY <4>2 DEF EntriesOf
      <4>4. n = Len(l) + 1
        BY <1>1, <1>3, <3>5, <4>3, EntriesOfNext DEF c
      <4> QED
        BY <3>1, <4>2, <4>4
    <3>6. Unmoved(v, c, p, w)
      BY <3>5 DEF Unmoved
    <3> QED
      BY <3>4, <3>6
  <2>3. CASE ~(e.product = p /\ e.warehouse = w)
    <3>1. /\ EntriesOf(c, p, w) = EntriesOf(l, p, w)
          /\ \A n \in EntriesOf(l, p, w) : c[n] = l[n]
      <4>1. /\ EntriesOf(l \o <<e>>, p, w) = EntriesOf(l, p, w)
            /\ \A n \in EntriesOf(l, p, w) : (l \o <<e>>)[n] = l[n]
        <5>1. l \in Seq(Entry) /\ e \in Entry
          BY <1>1, <1>3
        <5> QED
          BY <2>3, <5>1, OtherPair
      <4> QED
        BY <4>1 DEF c
    <3>2. \A x : x \in BalanceRows(v, p, w) <=> x \in BalanceRows(u, p, w)
      BY <1>1, <1>2, <2>3 DEF BalanceRows
    <3>3. \A x \in BalanceRows(u, p, w) : v[x] = u[x]
      BY <1>1, <1>2, <2>3, <3>2 DEF BalanceRows
    <3>4. BalanceRows(v, p, w) = BalanceRows(u, p, w)
      BY <3>2
    <3> QED
      BY <2>1, <3>1, <3>3, <3>4 DEF Tallied, Unmoved
  <2> QED
    BY <2>2, <2>3
<1> QED
  BY <1>2, <1>5, <1>6, <1>7 DEF BooksWork, v

\* Initially the books on file are settled where their chains are intact.
LEMMA InitLedgerInv == Init => LedgerInv
<1> SUFFICES ASSUME Init PROVE LedgerInv
  OBVIOUS
<1>1. ReceiptInv
  BY InitReceiptInv
<1>2. PICK f \in Filed : table = f.table /\ ledger = f.ledger
  BY DEF Init
<1>3. IsFiniteSet(DOMAIN table) /\ Recorded(ledger)
  BY <1>2, BooksAssumption
<1>4. ASSUME NEW r \in Request PROVE BooksWork(r)
  <2>1. session[r] = FreshSession("get_db")
    BY DEF Init
  <2>2. DOMAIN Work(r) = {} /\ Posts(r) = <<>>
    BY <2>1, NoRowsOK DEF FreshSession, Work, Overlay, Posts
  <2>3. DOMAIN Work(r) \cap StockRows = {}
    BY <2>2
  <2> QED
    BY <2>2, <2>3, FS_EmptySet DEF BooksWork, Recorded, Tallied, Unmoved, BalanceRows, EntriesOf
<1>5. ASSUME NEW p \in Product, NEW w \in Warehouse,
             Chained(ledger, p, w), OneRow(table, p, w)
      PROVE  Settled(table, ledger, p, w)
  <2>1. BalanceRows(table, p, w) \subseteq DOMAIN table
    BY DEF BalanceRows
  <2>2. IsFiniteSet(BalanceRows(table, p, w))
    BY <1>3, <2>1, FS_Subset
  <2>3. Cardinality(BalanceRows(table, p, w)) <= 1
    BY <1>5, <2>2, AtMostOne DEF OneRow
  <2> QED
    BY <1>2, <1>5, <2>3, BooksAssumption
<1>6. IsFiniteSet(DOMAIN table \cap StockRows)
  BY <1>3, FS_Subset
<1> QED
  BY <1>1, <1>3, <1>4, <1>5, <1>6 DEF LedgerInv

\* A commit adds the balances and entries of its request to the store.
LEMMA CommitKeepsBooks ==
    ASSUME LedgerInv, NEW r \in Request, Commit(r)
    PROVE  /\ \A q \in Request : SameBooks(q)
           /\ IsFiniteSet(DOMAIN table' \cap StockRows)
           /\ Recorded(ledger')
           /\ \A p \in Product, w \in Warehouse :
                Chained(ledger', p, w) /\ OneRow(table', p, w) => Settled(table', ledger', p, w)
<1>1. /\ \A q \in Request : Work(q)' = Work(q) /\ Posts(q)' = Posts(q)
      /\ \A x : x \in DOMAIN table' <=> x \in DOMAIN table \/ x \in DOMAIN Work(r)
      /\ \A x : x \in DOMAIN Work(r) => table'[x] = Work(r)[x]
      /\ \A x : x \in DOMAIN table /\ x \notin DOMAIN Work(r) => table'[x] = table[x]
      /\ ledger' = ledger \o Posts(r)
  BY CommitStep DEF LedgerInv
<1>2. /\ IsFiniteSet(DOMAIN table \cap StockRows) /\ IsFiniteSet(DOMAIN Work(r) \cap StockRows)
      /\ Recorded(ledger) /\ Recorded(Posts(r))
  BY DEF LedgerInv, BooksWork
<1>3. ledger \in Seq(Entry) /\ Posts(r) \in Seq(Entry)
  BY WorkOK DEF LedgerInv, ReceiptInv, IInv, DataInv
<1>4. \A q \in Request : SameBooks(q)
  BY <1>1 DEF SameBooks
<1>5. Recorded(ledger')
  BY <1>1, <1>2, <1>3, RecordedConcat
<1>6. IsFiniteSet(DOMAIN table' \cap StockRows)
  <2> DEFINE S == DOMAIN table \cap StockRows
             T == DOMAIN Work(r) \cap StockRows
  <2>1. DOMAIN table' \cap StockRows \subseteq S \cup T
    BY <1>1
  <2> HIDE DEF S, T
  <2>2. IsFiniteSet(S \cup T)
    BY <1>2, FS_Union DEF S, T
  <2> QED
    BY <2>1, <2>2, FS_Subset
<1>7. ASSUME NEW p \in Product, NEW w \in Warehouse,
             Chained(ledger', p, w), OneRow(table', p, w)
      PROVE  Settled(table', ledger', p, w)
  <2>1. /\ Tallied(Work(r), Posts(r), p, w) /\ Unmoved(Work(r), Posts(r), p, w)
        /\ Chained(ledger, p, w) /\ OneRow(table, p, w) => Settled(table, ledger, p, w)
    BY DEF LedgerInv, BooksWork
  <2>2. Chained(ledger \o Posts(r), p, w)
    BY <1>1, <1>7
  <2>3. Chained(ledger, p, w)
    BY <1>3, <2>2, ChainedBefore
  <2>4. /\ \A x : x \in BalanceRows(table', p, w) <=>
             x \in BalanceRows(table, p, w) \/ x \in BalanceRows(Work(r), p, w)
        /\ \A x \in BalanceRows(Work(r), p, w) : table'[x] = Work(r)[x]
        /\ \A x \in BalanceRows(table, p, w) :
             x \notin BalanceRows(Work(r), p, w) => table'[x] = table[x]
    BY <1>1 DEF BalanceRows
  <2>5. OneRow(table, p, w)
    BY <1>7, <2>4 DEF OneRow
  <2>6. Settled(table, ledger, p, w)
    BY <2>1, <2>3, <2>5
  <2>7. Settled(table', ledger \o Posts(r), p, w)
    BY <1>3, <1>7, <2>1, <2>2, <2>4, <2>6, BooksTogether
  <2> QED
    BY <1>1, <2>7
<1> QED
  BY <1>4, <1>5, <1>6, <1>7

\* Every step keeps the invariant.
LEMMA NextKeepsLedgerInv ==
    ASSUME LedgerInv, [Next]_vars
    PROVE  LedgerInv'
<1>1. ReceiptInv /\ DataInv /\ ReceiptInv'
  BY NextKeepsReceiptInv DEF LedgerInv, ReceiptInv, IInv
<1>2. /\ \A q \in Request : BooksWork(q)
      /\ IsFiniteSet(DOMAIN table \cap StockRows)
      /\ Recorded(ledger)
      /\ \A p \in Product, w \in Warehouse :
           Chained(ledger, p, w) /\ OneRow(table, p, w) => Settled(table, ledger, p, w)
  BY DEF LedgerInv
<1>3. Uneventful \/ \E r \in Request : PostingStep(r) \/ Commit(r)
  BY <1>1, <1>2, NextIsOneOf DEF BooksWork
<1>4. CASE Uneventful
  <2>1. table' = table /\ ledger' = ledger /\ \A q \in Request : BooksWork(q)'
    BY <1>2, <1>4, SameBooksTally DEF Uneventful
  <2> QED
    BY <1>1, <1>2, <2>1 DEF LedgerInv
<1>5. ASSUME NEW r \in Request, PostingStep(r) PROVE LedgerInv'
  <2>1. PICK stock, e : Posting(r, stock, e)
    BY <1>5 DEF PostingStep
  <2>2. BooksWork(r)'
    BY <1>1, <1>2, <2>1, PostingTallies
  <2>3. \A q \in Request \ {r} : BooksWork(q)'
    BY <1>2, <1>5, SameBooksTally DEF PostingStep
  <2>4. table' = table /\ ledger' = ledger
    BY <1>5 DEF PostingStep
  <2> QED
    BY <1>1, <1>2, <2>2, <2>3, <2>4 DEF LedgerInv
<1>6. ASSUME NEW r \in Request, Commit(r) PROVE LedgerInv'
  <2>1. \A q \in Request : SameBooks(q)
    BY <1>6, CommitKeepsBooks
  <2>2. \A q \in Request : BooksWork(q)'
    BY <1>2, <2>1, SameBooksTally
  <2> QED
    BY <1>1, <1>6, <2>2, CommitKeepsBooks DEF LedgerInv
<1> QED
  BY <1>3, <1>4, <1>5, <1>6

\* The inductive invariant holds in every reachable state.
THEOREM LedgerInvariance == Spec => []LedgerInv
<1>1. Init => LedgerInv
  BY InitLedgerInv
<1>2. LedgerInv /\ [Next]_vars => LedgerInv'
  BY NextKeepsLedgerInv
<1> QED
  BY <1>1, <1>2, PTL DEF Spec

\* A lost update cannot hide: with any number of requests that read balances without a
\* lock and overwrite them, a balance that differs from what its movements add up to shows
\* as a break in the chain of before and after values that record_transaction() writes.
THEOREM DriftIsVisible == Spec => []DriftBreaksTheChain
<1>1. ASSUME LedgerInv PROVE DriftBreaksTheChain
  <2>1. RowsOK(table) /\ ledger \in Seq(Entry) /\ Recorded(ledger)
    BY <1>1 DEF LedgerInv, ReceiptInv, IInv, DataInv
  <2>2. ASSUME NEW p \in Product, NEW w \in Warehouse, Chained(ledger, p, w),
               Cardinality(BalanceRows(table, p, w)) <= 1
        PROVE  BalanceTotal(table, p, w) = LedgerTotal(ledger, p, w)
    <3>1. IsFiniteSet(BalanceRows(table, p, w))
      BY <1>1, FS_Subset DEF LedgerInv, BalanceRows
    <3>2. OneRow(table, p, w)
      BY <2>2, <3>1, AtMostOne DEF OneRow
    <3>3. Settled(table, ledger, p, w)
      BY <1>1, <2>2, <3>2 DEF LedgerInv
    <3> QED
      BY <2>1, <2>2, <3>1, <3>3, SettledBooksBalance
  <2> QED
    BY <2>2 DEF DriftBreaksTheChain
<1> QED
  BY <1>1, LedgerInvariance, PTL
-----------------------------------------------------------------------------
(* The third part: histories, and what overlaps when books are not sound,  *)
(* for any number of connections.                                          *)

\* A step on behalf of one request moves no other session and no other coroutine.
LEMMA OthersStay ==
    ASSUME IInv, NEW q \in Request, NEW r \in Request \ {q}, Submit(r) \/ Serve(r) \/ Crash(r)
    PROVE  session'[q] = session[q] /\ job'[q] = job[q]
<1>1. session = [o \in Request |-> session[o]] /\ job \in [Request -> Job]
  BY DEF IInv, JobInv, DataInv, SessionsOK
<1>2. ASSUME NEW new, NEW dirty, NEW entries, Stage(r, new, dirty, entries)
      PROVE  session'[q] = session[q]
  BY <1>1, <1>2 DEF Stage
<1>3. Raise(r) \/ Respond(r) => session'[q] = session[q] /\ job'[q] = job[q]
  BY <1>1 DEF Raise, Respond
<1>4. Submit(r) \/ Crash(r) \/ Connect(r) \/ PoolTimeout(r) \/ Flush(r) \/ Commit(r) \/ Discard(r)
        => session'[q] = session[q] /\ job'[q] = job[q]
  BY <1>1 DEF Submit, Arrive, Crash, Connect, PoolTimeout, Flush, Commit, Discard
<1>5. CreatePO(r) \/ ApprovePO(r) \/ AdjustStock(r) \/ OpenGRN(r)
        => session'[q] = session[q] /\ job'[q] = job[q]
  BY <1>1, <1>2, <1>3 DEF CreatePO, ApprovePO, AdjustStock, OpenGRN
<1>6. RecordLine(r) \/ CreditLine(r) \/ ClosePO(r)
        => session'[q] = session[q] /\ job'[q] = job[q]
  BY <1>1, <1>2 DEF RecordLine, CreditLine, ClosePO
<1>7. FailLine(r) \/ Finish(r) \/ DeadlockVictim(r)
        => session'[q] = session[q] /\ job'[q] = job[q]
  BY <1>3 DEF FailLine, Finish, DeadlockVictim
<1> QED
  BY <1>4, <1>5, <1>6, <1>7 DEF Serve

\* What is committed stays so, with its job, and only a commit adds to it.
LEMMA CommittedNext ==
    ASSUME ReceiptInv, [Next]_vars, NEW q \in Request
    PROVE  /\ session[q].state = "committed" =>
                session'[q].state = "committed" /\ job'[q] = job[q]
           /\ session'[q].state = "committed" => session[q].state = "committed" \/ Commit(q)
<1>1. IInv /\ DataInv /\ \A r \in Request : SessionOK(session[r])
  BY DEF ReceiptInv, IInv, DataInv, SessionsOK
<1>2. CASE \A r \in Request : session'[r] = session[r] /\ job'[r] = job[r]
  BY <1>2
<1>3. ASSUME NEW r \in Request \ {q}, Submit(r) \/ Serve(r) \/ Crash(r)
      PROVE  session'[q] = session[q] /\ job'[q] = job[q]
  BY <1>1, <1>3, OthersStay
<1>4. ASSUME Submit(q) \/ Serve(q) \/ Crash(q), session[q].state = "committed" PROVE FALSE
  BY <1>4 DEF Serve, Submit, Arrive, Crash, Live, Connect, PoolTimeout, CreatePO, ApprovePO,
     AdjustStock, OpenGRN, FailLine, RecordLine, CreditLine, AtLine, ClosePO, Running, Flush,
     Finish, Commit, Discard, DeadlockVictim, Deadlocked, InUse
<1>5. ASSUME Submit(q) \/ Serve(q) \/ Crash(q), session'[q].state = "committed" PROVE Commit(q)
  <2>1. session[q].state # "committed" /\ session = [r \in Request |-> session[r]]
    BY <1>1, <1>4, <1>5 DEF DataInv, SessionsOK
  <2>2. ASSUME NEW s, s # "committed", session' = [session EXCEPT ![q].state = s] PROVE FALSE
    BY <1>1, <1>5, <2>1, <2>2 DEF SessionOK
  <2>3. ASSUME NEW m, session' = [session EXCEPT ![q].state = "waiting", ![q].manager = m]
        PROVE  FALSE
    BY <1>1, <1>5, <2>1, <2>3 DEF SessionOK
  <2>4. ASSUME NEW new, NEW dirty, NEW entries, Stage(q, new, dirty, entries) PROVE FALSE
    BY <1>1, <1>5, <2>1, <2>4 DEF SessionOK, Stage
  <2>5. ~Flush(q)
    BY <1>1, <1>5, <2>1, FlushIsQuiet
  <2> QED
    BY <1>5, <2>2, <2>3, <2>4, <2>5 DEF Serve, Submit, Arrive, Crash, Connect, PoolTimeout,
       CreatePO, ApprovePO, AdjustStock, OpenGRN, FailLine, RecordLine, CreditLine, ClosePO,
       Finish, Respond, Raise, Discard, DeadlockVictim
<1>6. CASE UNCHANGED vars
  BY <1>6 DEF vars
<1> QED
  BY <1>3, <1>4, <1>5, <1>6 DEF Next

\* A step of the history is one of the system, and remembers what had committed.
LEMMA HistoryStep ==
    ASSUME ReceiptInv, [HistoryNext]_historyVars
    PROVE  /\ [Next]_vars
           /\ \A r \in Request : past'[r] = IF job[r].pc = "start" /\ job'[r].pc # "start"
                                            THEN CommittedRequests ELSE past[r]
<1>1. CASE HistoryNext
  BY <1>1 DEF HistoryNext, Remember
<1>2. CASE UNCHANGED historyVars
  BY <1>2 DEF historyVars, vars
<1> QED
  BY <1>1, <1>2

\* Only a commit adds to what is committed.
LEMMA NobodyCommits ==
    ASSUME ReceiptInv, [Next]_vars, \A r \in Request : ~Commit(r)
    PROVE  CommittedRequests' = CommittedRequests
BY CommittedNext DEF CommittedRequests
-----------------------------------------------------------------------------
\* Entries that stand in the same order, between others, are the same books.
LEMMA SoundShift ==
    ASSUME NEW t, NEW u, NEW l, NEW m, NEW p, NEW w, NEW h, SoundBooks(t, l, p, w),
           \A x : x \in BalanceRows(u, p, w) <=> x \in BalanceRows(t, p, w),
           \A x \in BalanceRows(t, p, w) : u[x] = t[x],
           \A n \in EntriesOf(l, p, w) : h[n] \in EntriesOf(m, p, w) /\ m[h[n]] = l[n],
           \A k \in EntriesOf(m, p, w) : \E n \in EntriesOf(l, p, w) : k = h[n],
           \A a, b \in EntriesOf(l, p, w) : a < b => h[a] < h[b],
           \A a, b \in EntriesOf(l, p, w) : a <= b => h[a] <= h[b]
    PROVE  SoundBooks(u, m, p, w)
<1> DEFINE E == EntriesOf(l, p, w)
           F == EntriesOf(m, p, w)
<1>1. BalanceRows(u, p, w) = BalanceRows(t, p, w)
  OBVIOUS
<1>2. OneRow(u, p, w)
  BY <1>1 DEF SoundBooks, OneRow
<1>3. Settled(u, m, p, w)
  <2>1. CASE E = {} /\ \A x \in BalanceRows(t, p, w) : t[x] = 0
    <3>1. F = {} /\ \A x \in BalanceRows(u, p, w) : u[x] = 0
      BY <1>1, <2>1
    <3> QED
      BY <3>1 DEF Settled
  <2>2. ASSUME NEW n \in E, \A k \in E : k <= n,
               \A x \in BalanceRows(t, p, w) : t[x] = l[n].after,
               BalanceRows(t, p, w) = {} => l[n].after = 0
        PROVE  Settled(u, m, p, w)
    <3>1. h[n] \in F /\ m[h[n]] = l[n] /\ \A k \in F : k <= h[n]
      BY <2>2
    <3>2. /\ \A x \in BalanceRows(u, p, w) : u[x] = m[h[n]].after
          /\ BalanceRows(u, p, w) = {} => m[h[n]].after = 0
      BY <1>1, <2>2, <3>1
    <3> QED
      BY <3>1, <3>2 DEF Settled
  <2> QED
    BY <2>1, <2>2 DEF SoundBooks, Settled
<1>4. ASSUME NEW k \in F
      PROVE  \/ (\A j \in F : j >= k) /\ m[k].before = 0
             \/ \E i \in F : /\ i < k
                             /\ \A j \in F : j <= i \/ j >= k
                             /\ m[k].before = m[i].after
  <2>1. PICK n \in E : k = h[n]
    OBVIOUS
  <2>2. m[k] = l[n]
    BY <2>1
  <2>3. \A j \in F : \E b \in E : j = h[b]
    OBVIOUS
  <2>4. CASE (\A b \in E : b >= n) /\ l[n].before = 0
    <3>1. \A b \in E : h[b] >= h[n]
      BY <2>4
    <3> QED
      BY <2>1, <2>2, <2>3, <2>4, <3>1
  <2>5. ASSUME NEW a \in E, a < n, \A b \in E : b <= a \/ b >= n, l[n].before = l[a].after
        PROVE  /\ h[a] \in F /\ h[a] < k
               /\ \A j \in F : j <= h[a] \/ j >= k
               /\ m[k].before = m[h[a]].after
    <3>1. h[a] \in F /\ m[h[a]] = l[a] /\ h[a] < h[n]
      BY <2>5
    <3>2. \A b \in E : h[b] <= h[a] \/ h[b] >= h[n]
      BY <2>5
    <3> QED
      BY <2>1, <2>2, <2>3, <2>5, <3>1, <3>2
  <2> QED
    BY <2>4, <2>5 DEF SoundBooks, Chained
<1>5. Chained(m, p, w)
  BY <1>4 DEF Chained
<1> QED
  BY <1>2, <1>3, <1>5 DEF SoundBooks

\* Entries of other balances between two parts of a ledger make no difference.
LEMMA SoundApart ==
    ASSUME NEW l \in Seq(Entry), NEW k \in Seq(Entry), NEW m \in Seq(Entry),
           NEW p, NEW w, NEW t, NEW u, SoundBooks(t, l \o m, p, w), EntriesOf(k, p, w) = {},
           \A x : x \in BalanceRows(u, p, w) <=> x \in BalanceRows(t, p, w),
           \A x \in BalanceRows(t, p, w) : u[x] = t[x]
    PROVE  SoundBooks(u, (l \o k) \o m, p, w)
<1> DEFINE c == l \o m
           d == (l \o k) \o m
           E == EntriesOf(c, p, w)
           F == EntriesOf(d, p, w)
           h == [n \in E |-> IF n <= Len(l) THEN n ELSE n + Len(k)]
<1>1. /\ \A n \in EntriesOf(l, p, w) : n \in E /\ n \in Nat /\ n <= Len(l) /\ c[n] = l[n]
      /\ \A n \in EntriesOf(m, p, w) : /\ Len(l) + n \in E /\ n \in Nat /\ n > 0
                                       /\ c[Len(l) + n] = m[n]
      /\ \A n \in E : n \in EntriesOf(l, p, w) \/ \E i \in EntriesOf(m, p, w) : n = Len(l) + i
  BY EntriesOfConcat
<1>2. /\ \A n \in EntriesOf(l, p, w) : n \in EntriesOf(l \o k, p, w) /\ (l \o k)[n] = l[n]
      /\ \A n \in EntriesOf(l \o k, p, w) : n \in EntriesOf(l, p, w)
  BY EntriesOfConcat
<1>3. l \o k \in Seq(Entry) /\ Len(l \o k) = Len(l) + Len(k) /\ Len(l) \in Nat /\ Len(k) \in Nat
  OBVIOUS
<1>4. /\ \A n \in EntriesOf(l \o k, p, w) : n \in F /\ d[n] = (l \o k)[n]
      /\ \A n \in EntriesOf(m, p, w) : /\ Len(l \o k) + n \in F
                                       /\ d[Len(l \o k) + n] = m[n]
      /\ \A n \in F :
           n \in EntriesOf(l \o k, p, w) \/ \E i \in EntriesOf(m, p, w) : n = Len(l \o k) + i
  <2> DEFINE lk == l \o k
  <2>1. lk \in Seq(Entry)
    BY <1>3
  <2> HIDE DEF lk
  <2>2. /\ \A n \in EntriesOf(lk, p, w) : /\ n \in EntriesOf(lk \o m, p, w)
                                          /\ n \in Nat /\ n <= Len(lk)
                                          /\ (lk \o m)[n] = lk[n]
        /\ \A n \in EntriesOf(m, p, w) : /\ Len(lk) + n \in EntriesOf(lk \o m, p, w)
                                         /\ n \in Nat /\ n > 0
                                         /\ (lk \o m)[Len(lk) + n] = m[n]
        /\ \A n \in EntriesOf(lk \o m, p, w) :
             n \in EntriesOf(lk, p, w) \/ \E i \in EntriesOf(m, p, w) : n = Len(lk) + i
    BY <2>1, EntriesOfConcat
  <2> QED
    BY <2>2 DEF lk
<1>5. SoundBooks(t, c, p, w)
  OBVIOUS
<1> HIDE DEF c, d, E, F
<1>6. \A n \in EntriesOf(l, p, w) : h[n] = n /\ n \in E /\ n \in F /\ d[n] = c[n]
  BY <1>1, <1>2, <1>4
<1>7. ASSUME NEW i \in EntriesOf(m, p, w)
      PROVE  /\ Len(l) + i \in E /\ h[Len(l) + i] = Len(l \o k) + i
             /\ h[Len(l) + i] \in F /\ d[h[Len(l) + i]] = c[Len(l) + i]
  <2>1. i \in Nat /\ i > 0 /\ Len(l) + i \in E
    BY <1>1
  <2>2. ~(Len(l) + i <= Len(l)) /\ Len(l) + i + Len(k) = Len(l \o k) + i
    BY <1>3, <2>1
  <2>3. h[Len(l) + i] = Len(l \o k) + i
    BY <2>1, <2>2
  <2> QED
    BY <1>1, <1>4, <2>1, <2>3
<1>8. \A n \in E : n \in Nat
  <2>1. \A i \in Nat : Len(l) + i \in Nat
    BY <1>3
  <2> QED
    BY <1>1, <2>1
<1>9. ASSUME NEW n \in E PROVE h[n] \in F /\ d[h[n]] = c[n]
  <2> HIDE DEF h
  <2> QED
    BY <1>1, <1>6, <1>7, <1>9
<1>10. ASSUME NEW j \in F PROVE \E n \in E : j = h[n]
  <2> HIDE DEF h
  <2>1. CASE j \in EntriesOf(l \o k, p, w)
    BY <1>2, <1>6, <2>1
  <2>2. ASSUME NEW i \in EntriesOf(m, p, w), j = Len(l \o k) + i PROVE \E n \in E : j = h[n]
    BY <1>7, <2>2
  <2> QED
    BY <1>4, <1>10, <2>1, <2>2
<1>11. \A a, b \in E : (a < b => h[a] < h[b]) /\ (a <= b => h[a] <= h[b])
  BY <1>3, <1>8
<1> HIDE DEF h
<1>12. SoundBooks(u, d, p, w)
  BY <1>5, <1>9, <1>10, <1>11, SoundShift DEF E, F
<1> QED
  BY <1>12 DEF d

\* The same balances and entries are the same books.
LEMMA SoundSame ==
    ASSUME NEW t, NEW u, NEW l, NEW m, NEW p, NEW w, SoundBooks(t, l, p, w),
           \A x : x \in BalanceRows(u, p, w) <=> x \in BalanceRows(t, p, w),
           \A x \in BalanceRows(t, p, w) : u[x] = t[x],
           EntriesOf(m, p, w) = EntriesOf(l, p, w),
           \A n \in EntriesOf(l, p, w) : m[n] = l[n]
    PROVE  SoundBooks(u, m, p, w)
<1> DEFINE E == EntriesOf(l, p, w)
           B == BalanceRows(t, p, w)
<1>1. BalanceRows(u, p, w) = B /\ EntriesOf(m, p, w) = E
  OBVIOUS
<1>2. OneRow(u, p, w)
  BY <1>1 DEF SoundBooks, OneRow
<1>3. Chained(m, p, w)
  BY <1>1 DEF SoundBooks, Chained
<1>4. Settled(u, m, p, w)
  BY <1>1 DEF SoundBooks, Settled
<1> QED
  BY <1>2, <1>3, <1>4 DEF SoundBooks

\* Table u has the balance row stock for e.after where t had the balance e.before.
Sets(u, t, p, w, e, stock) ==
    /\ e.product = p /\ e.warehouse = w
    /\ \A x \in BalanceRows(t, p, w) : x = stock
    /\ e.before = IF stock \in BalanceRows(t, p, w) THEN t[stock] ELSE 0
    /\ \A x : x \in BalanceRows(u, p, w) <=> x = stock
    /\ u[stock] = e.after

\* A posting that starts from the balance keeps the books sound.
LEMMA SoundPosting ==
    ASSUME NEW l \in Seq(Entry), NEW e \in Entry, NEW p, NEW w, NEW t, NEW u, NEW stock,
           SoundBooks(t, l, p, w), Sets(u, t, p, w, e, stock)
    PROVE  SoundBooks(u, l \o <<e>>, p, w)
<1> USE DEF Sets
<1> DEFINE c == l \o <<e>>
           E == EntriesOf(l, p, w)
           F == EntriesOf(c, p, w)
           z == Len(l) + 1
<1>1. \A n : n \in F <=> n \in E \/ n = z
  BY EntriesOfNext
<1>2. \A n \in E : n \in 1 .. Len(l)
  BY DEF EntriesOf
<1>3. \A n \in E : c[n] = l[n]
  BY <1>2
<1>4. c[z] = e /\ Len(l) \in Nat
  OBVIOUS
<1>5. z \in Nat /\ \A n \in E : n \in Nat /\ n < z
  BY <1>2, <1>4
<1>6. Chained(l, p, w) /\ Settled(t, l, p, w)
  BY DEF SoundBooks
<1> HIDE DEF c, E, F, z
<1>7. z \in F /\ \A k \in F : k <= z
  BY <1>1, <1>5
<1>8. OneRow(u, p, w)
  BY DEF OneRow
<1>9. Settled(u, c, p, w)
  <2>1. \A x \in BalanceRows(u, p, w) : u[x] = c[z].after
    BY <1>4
  <2>2. BalanceRows(u, p, w) # {}
    OBVIOUS
  <2> QED
    BY <1>7, <2>1, <2>2 DEF Settled, F
<1>10. ASSUME NEW n \in F
       PROVE  \/ (\A k \in F : k >= n) /\ c[n].before = 0
              \/ \E m \in F : /\ m < n
                              /\ \A k \in F : k <= m \/ k >= n
                              /\ c[n].before = c[m].after
  <2>1. CASE n \in E
    <3>1. CASE (\A k \in E : k >= n) /\ l[n].before = 0
      BY <1>1, <1>3, <1>5, <2>1, <3>1
    <3>2. ASSUME NEW m \in E, m < n, \A k \in E : k <= m \/ k >= n, l[n].before = l[m].after
          PROVE  /\ m \in F
                 /\ \A k \in F : k <= m \/ k >= n
                 /\ c[n].before = c[m].after
      BY <1>1, <1>3, <1>5, <2>1, <3>2
    <3> QED
      BY <1>6, <2>1, <3>1, <3>2 DEF Chained, E
  <2>2. CASE n = z
    <3>1. CASE E = {} /\ \A x \in BalanceRows(t, p, w) : t[x] = 0
      BY <1>1, <1>4, <1>5, <2>2, <3>1
    <3>2. ASSUME NEW m \in E, \A k \in E : k <= m,
                 \A x \in BalanceRows(t, p, w) : t[x] = l[m].after,
                 BalanceRows(t, p, w) = {} => l[m].after = 0
          PROVE  /\ m \in F /\ m < n
                 /\ \A k \in F : k <= m \/ k >= n
                 /\ c[n].before = c[m].after
      <4>1. e.before = l[m].after
        BY <3>2
      <4> QED
        BY <1>1, <1>3, <1>4, <1>5, <2>2, <3>2, <4>1
    <3> QED
      BY <1>6, <3>1, <3>2 DEF Settled, E
  <2> QED
    BY <1>1, <2>1, <2>2
<1>11. Chained(c, p, w)
  BY <1>10 DEF Chained, F
<1> QED
  BY <1>8, <1>9, <1>11 DEF SoundBooks, c

\* The rows of the store under the work of a session.
LEMMA OverlayRows ==
    ASSUME NEW f, NEW g, NEW p, NEW w
    PROVE  /\ \A x : x \in BalanceRows(Overlay(f, g), p, w) <=>
                x \in BalanceRows(f, p, w) \/ x \in BalanceRows(g, p, w)
           /\ \A x \in BalanceRows(Overlay(f, g), p, w) :
                Overlay(f, g)[x] = IF x \in BalanceRows(g, p, w) THEN g[x] ELSE f[x]
BY OverlayIs DEF BalanceRows

\* The books with the work of a session that a step leaves alone.
LEMMA WorkSame ==
    ASSUME DataInv, NEW r \in Request, NEW p \in Product, NEW w \in Warehouse,
           SoundBooks(Overlay(table, Work(r)), ledger \o Posts(r), p, w),
           SameBooks(r), UNCHANGED <<table, ledger>>
    PROVE  SoundBooks(Overlay(table', Work(r)'), ledger' \o Posts(r)', p, w)
<1> DEFINE t == Overlay(table, Work(r))
           u == Overlay(table, Work(r)')
<1>1. /\ \A x : x \in BalanceRows(Work(r)', p, w) <=> x \in BalanceRows(Work(r), p, w)
      /\ \A x \in BalanceRows(Work(r), p, w) : Work(r)'[x] = Work(r)[x]
      /\ Posts(r)' = Posts(r) /\ table' = table /\ ledger' = ledger
  BY DEF SameBooks, BalanceRows
<1>2. /\ \A x : x \in BalanceRows(t, p, w) <=>
           x \in BalanceRows(table, p, w) \/ x \in BalanceRows(Work(r), p, w)
      /\ \A x \in BalanceRows(t, p, w) :
           t[x] = IF x \in BalanceRows(Work(r), p, w) THEN Work(r)[x] ELSE table[x]
  BY OverlayRows
<1>3. /\ \A x : x \in BalanceRows(u, p, w) <=>
           x \in BalanceRows(table, p, w) \/ x \in BalanceRows(Work(r)', p, w)
      /\ \A x \in BalanceRows(u, p, w) :
           u[x] = IF x \in BalanceRows(Work(r)', p, w) THEN Work(r)'[x] ELSE table[x]
  BY OverlayRows
<1> HIDE DEF t, u
<1>4. /\ \A x : x \in BalanceRows(u, p, w) <=> x \in BalanceRows(t, p, w)
      /\ \A x \in BalanceRows(t, p, w) : u[x] = t[x]
  BY <1>1, <1>2, <1>3
<1>5. SoundBooks(t, ledger \o Posts(r), p, w)
  BY DEF t
<1>6. SoundBooks(u, ledger \o Posts(r), p, w)
  BY <1>4, <1>5, SoundSame
<1> QED
  BY <1>1, <1>6 DEF u

\* The books with the work of a session that sets and posts a balance.
LEMMA WorkPosting ==
    ASSUME DataInv, NEW r \in Request, NEW stock, NEW e, Posting(r, stock, e),
           NEW p \in Product, NEW w \in Warehouse,
           SoundBooks(Overlay(table, Work(r)), ledger \o Posts(r), p, w),
           UNCHANGED <<table, ledger>>
    PROVE  SoundBooks(Overlay(table', Work(r)'), ledger' \o Posts(r)', p, w)
<1> DEFINE t == Overlay(table, Work(r))
           u == Overlay(table, Work(r)')
           l == ledger \o Posts(r)
<1>1. /\ stock \in StockRows /\ e \in Entry
      /\ e.product = stock.product /\ e.warehouse = stock.warehouse
      /\ \A x \in DOMAIN View(r) \cap StockRows :
           x.product = stock.product /\ x.warehouse = stock.warehouse => x = stock
      /\ e.before = IF stock \in DOMAIN View(r) THEN View(r)[stock] ELSE 0
  BY DEF Posting, Reads
<1>2. /\ \A x \in StockRows : x \in DOMAIN Work(r)' <=>
           \/ x \in DOMAIN Work(r)
           \/ x = stock /\ (stock \in DOMAIN View(r) => e.before # e.after)
      /\ \A x \in DOMAIN Work(r)' \cap StockRows :
           Work(r)'[x] = IF x = stock THEN e.after ELSE Work(r)[x]
      /\ Posts(r)' = Posts(r) \o <<e>>
  BY DEF Posting
<1>3. View(r) = t
  BY ViewOfWork DEF Posting, Reads, Running
<1>4. ledger \in Seq(Entry) /\ Posts(r) \in Seq(Entry)
  BY WorkOK DEF DataInv
<1>5. l \in Seq(Entry) /\ ledger \o (Posts(r) \o <<e>>) = l \o <<e>>
  BY <1>1, <1>4
<1>6. /\ \A x : x \in DOMAIN t <=> x \in DOMAIN table \/ x \in DOMAIN Work(r)
      /\ \A x \in DOMAIN t : t[x] = IF x \in DOMAIN Work(r) THEN Work(r)[x] ELSE table[x]
  BY OverlayIs
<1>7. /\ \A x : x \in DOMAIN u <=> x \in DOMAIN table \/ x \in DOMAIN Work(r)'
      /\ \A x \in DOMAIN u : u[x] = IF x \in DOMAIN Work(r)' THEN Work(r)'[x] ELSE table[x]
  BY OverlayIs
<1>8. SoundBooks(t, l, p, w)
  OBVIOUS
<1> HIDE DEF t, u, l
<1>9. \A x \in StockRows : x \in DOMAIN u <=> x \in DOMAIN t \/ x = stock
  BY <1>1, <1>2, <1>3, <1>6, <1>7
<1>10. \A x \in DOMAIN t \cap StockRows : x # stock => u[x] = t[x]
  BY <1>2, <1>6, <1>7, <1>9
<1>11. u[stock] = e.after
  <2>1. stock \in DOMAIN u
    BY <1>1, <1>9
  <2>2. CASE stock \in DOMAIN Work(r)'
    BY <1>1, <1>2, <1>7, <2>1, <2>2
  <2>3. CASE stock \notin DOMAIN Work(r)'
    <3>1. stock \in DOMAIN t /\ e.before = e.after /\ stock \notin DOMAIN Work(r)
      BY <1>1, <1>2, <1>3, <2>3
    <3>2. t[stock] = table[stock] /\ u[stock] = table[stock]
      BY <1>6, <1>7, <2>1, <2>3, <3>1
    <3> QED
      BY <1>1, <1>3, <3>1, <3>2
  <2> QED
    BY <2>2, <2>3
<1>12. l \in Seq(Entry) /\ e \in Entry
  BY <1>1, <1>5
<1>13. SoundBooks(u, l \o <<e>>, p, w)
  <2>1. CASE e.product = p /\ e.warehouse = w
    <3>1. \A x \in BalanceRows(t, p, w) : x = stock
      BY <1>1, <1>3, <2>1 DEF BalanceRows
    <3>2. stock \in BalanceRows(t, p, w) <=> stock \in DOMAIN t
      BY <1>1, <2>1 DEF BalanceRows
    <3>3. e.before = IF stock \in BalanceRows(t, p, w) THEN t[stock] ELSE 0
      BY <1>1, <1>3, <3>2
    <3>4. \A x : x \in BalanceRows(u, p, w) <=> x = stock
      BY <1>1, <1>9, <2>1, <3>1 DEF BalanceRows
    <3> QED
      <4>1. Sets(u, t, p, w, e, stock)
        BY <1>11, <2>1, <3>1, <3>3, <3>4 DEF Sets
      <4> QED
        BY <1>8, <1>12, <4>1, SoundPosting
  <2>2. CASE ~(e.product = p /\ e.warehouse = w)
    <3>1. \A x : x \in BalanceRows(u, p, w) <=> x \in BalanceRows(t, p, w)
      BY <1>1, <1>9, <2>2 DEF BalanceRows
    <3>2. \A x \in BalanceRows(t, p, w) : u[x] = t[x]
      BY <1>1, <1>10, <2>2 DEF BalanceRows
    <3>3. /\ EntriesOf(l \o <<e>>, p, w) = EntriesOf(l, p, w)
          /\ \A n \in EntriesOf(l, p, w) : (l \o <<e>>)[n] = l[n]
      BY <1>12, <2>2, OtherPair
    <3> QED
      BY <1>8, <3>1, <3>2, <3>3, SoundSame
  <2> QED
    BY <2>1, <2>2
<1> QED
  BY <1>2, <1>5, <1>13 DEF u

\* A commit makes the books with its work those of the store.
LEMMA WorkCommits ==
    ASSUME ReceiptInv, NEW r \in Request, Commit(r), NEW p \in Product, NEW w \in Warehouse,
           SoundBooks(Overlay(table, Work(r)), ledger \o Posts(r), p, w)
    PROVE  SoundBooks(table', ledger', p, w)
<1> DEFINE t == Overlay(table, Work(r))
           u == table'
           l == ledger \o Posts(r)
<1>1. /\ \A x : x \in DOMAIN table' <=> x \in DOMAIN table \/ x \in DOMAIN Work(r)
      /\ \A x : x \in DOMAIN Work(r) => table'[x] = Work(r)[x]
      /\ \A x : x \in DOMAIN table /\ x \notin DOMAIN Work(r) => table'[x] = table[x]
      /\ ledger' = l
  BY CommitStep
<1>2. /\ \A x : x \in DOMAIN t <=> x \in DOMAIN table \/ x \in DOMAIN Work(r)
      /\ \A x \in DOMAIN t : t[x] = IF x \in DOMAIN Work(r) THEN Work(r)[x] ELSE table[x]
  BY OverlayIs
<1>3. SoundBooks(t, l, p, w)
  OBVIOUS
<1> HIDE DEF t, l
<1>4. /\ \A x : x \in DOMAIN u <=> x \in DOMAIN t
      /\ \A x \in DOMAIN t : u[x] = t[x]
  BY <1>1, <1>2
<1> HIDE DEF u
<1>5. /\ \A x : x \in BalanceRows(u, p, w) <=> x \in BalanceRows(t, p, w)
      /\ \A x \in BalanceRows(t, p, w) : u[x] = t[x]
  BY <1>4 DEF BalanceRows
<1>6. SoundBooks(u, l, p, w)
  BY <1>3, <1>5, SoundSame
<1> QED
  BY <1>1, <1>6 DEF u
-----------------------------------------------------------------------------
\* A stored balance that is not the one a session works on, of the same product and
\* warehouse, was inserted by a request that had not committed when this one began.
RowsApart(r) ==
    \A x \in DOMAIN Work(r) \cap StockRows, y \in DOMAIN table \cap StockRows :
        x # y /\ SamePair(x, y) => y.id \in Request \ past[r]

\* The same of a stored balance and the request that inserted it.
StoredApart ==
    \A x, y \in DOMAIN table \cap StockRows :
        x # y /\ SamePair(x, y) /\ x.id \in Request => y.id \in Request \ past[x.id]

\* The inductive invariant about second rows.
RowsInv ==
    /\ LedgerInv
    /\ \A r \in Request : past[r] \subseteq CommittedRequests /\ RowsApart(r)
    /\ StoredApart

\* Initially no request has worked, and all rows are on file.
LEMMA InitRowsInv == HistoryInit => RowsInv
<1> SUFFICES ASSUME HistoryInit PROVE RowsInv
  OBVIOUS
<1>1. LedgerInv /\ ReceiptInv /\ DataInv
  BY InitLedgerInv DEF HistoryInit, LedgerInv, ReceiptInv, IInv
<1>2. \A r \in Request : /\ past[r] = {} /\ job[r].pc = "start"
                          /\ session[r].state = "idle"
  BY DEF HistoryInit, Init, NoJob, FreshSession
<1>3. \A r \in Request : DOMAIN Work(r) = {}
  BY <1>1, <1>2 DEF ReceiptInv, RequestInv, Untouched
<1>4. \A row \in DOMAIN table : row.id \notin Request
  BY <1>1, <1>2 DEF DataInv, NoTraceUnlessCommitted
<1> QED
  BY <1>1, <1>2, <1>3, <1>4 DEF RowsInv, RowsApart, StoredApart

\* A request that passes its check has no work yet; so what was said of its past and its
\* work need only be kept for those that are past theirs.
LEMMA PastStays ==
    ASSUME RowsInv, [HistoryNext]_historyVars, NEW r \in Request
    PROVE  /\ past'[r] \in {past[r], CommittedRequests}
           /\ past'[r] # past[r] => DOMAIN Work(r) = {}
<1>1. ReceiptInv
  BY DEF RowsInv, LedgerInv
<1>2. past'[r] = IF job[r].pc = "start" /\ job'[r].pc # "start"
                 THEN CommittedRequests ELSE past[r]
  BY <1>1, HistoryStep
<1> QED
  BY <1>1, <1>2 DEF ReceiptInv, RequestInv, Untouched

\* A step that leaves the store alone keeps what is said of the stored rows: whoever
\* inserted one has committed, and has its past behind it.
LEMMA StoredRowsStay ==
    ASSUME RowsInv, [HistoryNext]_historyVars, table' = table
    PROVE  StoredApart'
<1>1. ReceiptInv /\ StoredApart
  BY DEF RowsInv, LedgerInv
<1>2. ASSUME NEW x \in DOMAIN table \cap StockRows, x.id \in Request
      PROVE  past'[x.id] = past[x.id]
  <2>1. session[x.id].state = "committed"
    BY <1>1, <1>2 DEF ReceiptInv, IInv, DataInv, NoTraceUnlessCommitted
  <2>2. job'[x.id] = job[x.id]
    BY <1>1, <1>2, <2>1, HistoryStep, CommittedNext
  <2> QED
    BY <1>1, <1>2, <2>2, HistoryStep
<1> QED
  BY <1>1, <1>2 DEF StoredApart

\* A step that is not a commit keeps the invariant: a session sets no balance but the
\* only one of its pair that it sees.
LEMMA ServeKeepsRowsInv ==
    ASSUME RowsInv, [HistoryNext]_historyVars, \A r \in Request : ~Commit(r)
    PROVE  RowsInv'
<1>1. LedgerInv /\ ReceiptInv /\ DataInv /\ [Next]_vars
  BY HistoryStep DEF RowsInv, LedgerInv, ReceiptInv, IInv
<1>2. LedgerInv'
  BY <1>1, NextKeepsLedgerInv
<1>3. table' = table /\ CommittedRequests' = CommittedRequests
  BY <1>1, OnlyCommitsStore, NobodyCommits
<1>4. Uneventful \/ \E r \in Request : PostingStep(r)
  BY <1>1, NextIsOneOf DEF LedgerInv, BooksWork
<1>5. ASSUME NEW q \in Request PROVE (past[q] \subseteq CommittedRequests)' /\ RowsApart(q)'
  <2>1. past[q] \subseteq CommittedRequests /\ RowsApart(q)
    BY DEF RowsInv
  <2>2. past'[q] = past[q] \/ (past'[q] = CommittedRequests /\ DOMAIN Work(q) = {})
    BY PastStays
  <2>3. CASE SameBooks(q)
    <3>1. \A x \in StockRows : x \in DOMAIN Work(q)' <=> x \in DOMAIN Work(q)
      BY <2>3 DEF SameBooks
    <3> QED
      BY <1>3, <2>1, <2>2, <3>1 DEF RowsApart
  <2>4. ASSUME PostingStep(q) PROVE RowsApart(q)'
    <3>1. PICK stock, e : Posting(q, stock, e)
      BY <2>4 DEF PostingStep
    <3>2. /\ Clean(q)
          /\ \A x \in DOMAIN View(q) \cap StockRows :
               x.product = stock.product /\ x.warehouse = stock.warehouse => x = stock
          /\ \A x \in StockRows : x \in DOMAIN Work(q)' => x \in DOMAIN Work(q) \/ x = stock
      BY <3>1 DEF Posting, Reads, Running
    <3>3. DOMAIN table \subseteq DOMAIN View(q)
      BY <1>1, ViewOK
    <3>4. \A y \in DOMAIN table \cap StockRows : SamePair(stock, y) => stock = y
      BY <3>2, <3>3 DEF SamePair
    <3> QED
      BY <1>3, <2>1, <2>2, <3>2, <3>4 DEF RowsApart
  <2>5. SameBooks(q) \/ PostingStep(q)
    BY <1>4 DEF Uneventful, PostingStep
  <2> QED
    BY <1>3, <2>1, <2>2, <2>3, <2>4, <2>5
<1> QED
  BY <1>2, <1>3, <1>5, StoredRowsStay DEF RowsInv

\* So does a commit: the rows that it adds are its own, and nobody had it in their past.
LEMMA CommitKeepsRowsInv ==
    ASSUME RowsInv, [HistoryNext]_historyVars, NEW r \in Request, Commit(r)
    PROVE  RowsInv'
<1>1. LedgerInv /\ ReceiptInv /\ DataInv /\ [Next]_vars /\ StoredApart /\ RowsApart(r)
  BY HistoryStep DEF RowsInv, LedgerInv, ReceiptInv, IInv
<1>2. LedgerInv'
  BY <1>1, NextKeepsLedgerInv
<1>3. /\ session[r].state = "returned" /\ session'[r].state = "committed" /\ job' = job
      /\ \A q \in Request \ {r} : session'[q] = session[q]
      /\ \A q \in Request : Work(q)' = Work(q)
      /\ \A row : row \in DOMAIN table' <=> row \in DOMAIN table \/ row \in DOMAIN Work(r)
  BY <1>1, CommitStep
<1>4. \A q \in Request : past'[q] = past[q] /\ r \notin past[q]
  BY <1>1, <1>3, HistoryStep DEF RowsInv, CommittedRequests
<1>5. CommittedRequests \subseteq CommittedRequests'
  BY <1>3 DEF CommittedRequests
<1>6. \A y \in DOMAIN table' : y \in DOMAIN table \/ (y \in DOMAIN Work(r) /\ y.id = r)
  <2>1. OwnWork(r) /\ DOMAIN Work(r) = DOMAIN session[r].writes \cup DOMAIN session[r].dirty
    BY <1>1, WorkOK DEF DataInv, SessionsOK
  <2>2. \A y \in DOMAIN Work(r) : y.id = r \/ y \in DOMAIN table
    BY <2>1 DEF OwnWork, OwnRow
  <2> QED
    BY <1>3, <2>2
<1>7. \A q \in Request : (past[q] \subseteq CommittedRequests)' /\ RowsApart(q)'
  BY <1>3, <1>4, <1>5, <1>6 DEF RowsInv, RowsApart
<1>8. \A x, y \in StockRows : SamePair(x, y) /\ x.id = y.id => x = y
  BY DEF StockRows, SamePair
<1>9. StoredApart'
  <2> SUFFICES ASSUME NEW x \in DOMAIN table' \cap StockRows, NEW y \in DOMAIN table' \cap StockRows,
                      x # y, SamePair(x, y), x.id \in Request
               PROVE  y.id \in Request \ past'[x.id]
    BY DEF StoredApart
  <2>1. CASE y \notin DOMAIN table
    BY <1>4, <1>6, <2>1
  <2>2. CASE y \in DOMAIN table /\ x \in DOMAIN table
    BY <1>1, <1>4, <2>2 DEF StoredApart
  <2>3. CASE y \in DOMAIN table /\ x \notin DOMAIN table
    BY <1>1, <1>4, <1>6, <2>3 DEF RowsApart
  <2> QED
    BY <2>1, <2>2, <2>3
<1> QED
  BY <1>2, <1>7, <1>9 DEF RowsInv

\* The inductive invariant about second rows holds throughout.
THEOREM RowsInvariance == HistorySpec => []RowsInv
<1>1. RowsInv /\ [HistoryNext]_historyVars => RowsInv'
  BY ServeKeepsRowsInv, CommitKeepsRowsInv
<1> QED
  BY <1>1, InitRowsInv, PTL DEF HistorySpec

\* get_or_create_stock gives a product and warehouse a second balance row only if the two
\* requests that inserted the rows overlapped, and never one beside a row on file.
THEOREM SecondRowsOverlap == HistorySpec => []SecondRowNeedsOverlap
<1>1. ASSUME RowsInv PROVE SecondRowNeedsOverlap
  <2> SUFFICES ASSUME NEW x \in DOMAIN table \cap StockRows, NEW y \in DOMAIN table \cap StockRows,
                      x # y, SamePair(x, y), x.id \in Request
               PROVE  y.id \in Request /\ Overlap(x.id, y.id)
    BY DEF SecondRowNeedsOverlap
  <2>1. SamePair(y, x) /\ x.id # y.id
    BY DEF SamePair, StockRows
  <2>2. y.id \in Request \ past[x.id]
    BY <1>1 DEF RowsInv, StoredApart
  <2>3. x.id \in Request \ past[y.id]
    BY <1>1, <2>1, <2>2 DEF RowsInv, StoredApart
  <2> QED
    BY <2>1, <2>2, <2>3 DEF Overlap
<1> QED
  BY <1>1, RowsInvariance, PTL
-----------------------------------------------------------------------------
\* Two of the requests that moved p in w overlapped.
Collision(p, w) == \E q, r \in Movers(p, w) : Overlap(q, r)

\* The books with what r would add to them.
SoundWith(r, p, w) == SoundBooks(Overlay(table, Work(r)), ledger \o Posts(r), p, w)

\* The inductive invariant about balances: where nothing collided the books are sound, and
\* they stay so with the work of a request that had all their movements in its past.
DriftInv ==
    /\ LedgerInv
    /\ \A r \in Request : past[r] \subseteq CommittedRequests
    /\ \A p \in Product, w \in Warehouse :
         \/ Collision(p, w)
         \/ /\ SoundBooks(table, ledger, p, w)
            /\ \A r \in Request \ CommittedRequests :
                 Movers(p, w) \subseteq past[r] => SoundWith(r, p, w)

\* The books with the work of a request that has not written anything.
LEMMA WorkBegins ==
    ASSUME NEW r, NEW p, NEW w, SoundBooks(table, ledger, p, w), ledger \in Seq(Entry),
           DOMAIN Work(r) = {}, Posts(r) = <<>>
    PROVE  SoundWith(r, p, w)
<1> DEFINE u == Overlay(table, Work(r))
<1>1. ledger \o <<>> = ledger
  OBVIOUS
<1>2. /\ \A x : x \in DOMAIN u <=> x \in DOMAIN table
      /\ \A x \in DOMAIN u : u[x] = table[x]
  BY OverlayIs
<1> HIDE DEF u
<1>3. /\ \A x : x \in BalanceRows(u, p, w) <=> x \in BalanceRows(table, p, w)
      /\ \A x \in BalanceRows(table, p, w) : u[x] = table[x]
  BY <1>2 DEF BalanceRows
<1>4. SoundBooks(u, ledger, p, w)
  BY <1>3, SoundSame
<1> QED
  BY <1>1, <1>4 DEF SoundWith, u

\* A request that has posted has committed, and its past and job stay as they are.
LEMMA MoversStay ==
    ASSUME DriftInv, [HistoryNext]_historyVars, NEW p, NEW w, NEW q \in Movers(p, w)
    PROVE  q \in CommittedRequests /\ past'[q] = past[q]
<1>1. ReceiptInv /\ [Next]_vars
  BY HistoryStep DEF DriftInv, LedgerInv
<1>2. q \in Request /\ session[q].state = "committed"
  BY <1>1 DEF Movers, EntriesOf, ReceiptInv, IInv, DataInv, NoTraceUnlessCommitted
<1>3. job'[q] = job[q]
  BY <1>1, <1>2, CommittedNext
<1>4. past'[q] = IF job[q].pc = "start" /\ job'[q].pc # "start"
                 THEN CommittedRequests ELSE past[q]
  BY <1>1, <1>2, HistoryStep
<1> QED
  BY <1>2, <1>3, <1>4 DEF CommittedRequests

\* What collided has collided.
LEMMA CollisionStays ==
    ASSUME DriftInv, [HistoryNext]_historyVars, NEW p, NEW w, Collision(p, w),
           Movers(p, w) \subseteq Movers(p, w)'
    PROVE  Collision(p, w)'
<1>1. PICK q \in Movers(p, w), r \in Movers(p, w) : Overlap(q, r)
  BY DEF Collision
<1>2. past'[q] = past[q] /\ past'[r] = past[r]
  BY MoversStay
<1>3. Overlap(q, r)'
  BY <1>1, <1>2 DEF Overlap
<1> QED
  BY <1>3 DEF Collision

\* A step that is not a commit keeps the invariant: a request begins with the books as
\* they are stored, and goes on with what it has made of them.
LEMMA ServeKeepsDriftInv ==
    ASSUME DriftInv, [HistoryNext]_historyVars, \A r \in Request : ~Commit(r)
    PROVE  DriftInv'
<1>1. /\ LedgerInv /\ ReceiptInv /\ DataInv /\ ledger \in Seq(Entry) /\ [Next]_vars
      /\ \A r \in Request : past[r] \subseteq CommittedRequests
  BY HistoryStep DEF DriftInv, LedgerInv, ReceiptInv, IInv, DataInv
<1>2. LedgerInv'
  BY <1>1, NextKeepsLedgerInv
<1>3. Uneventful \/ \E r \in Request : PostingStep(r)
  BY <1>1, NextIsOneOf DEF LedgerInv, BooksWork
<1>4. table' = table /\ ledger' = ledger
  BY <1>3 DEF Uneventful, PostingStep
<1>5. CommittedRequests' = CommittedRequests
  BY <1>1, NobodyCommits
<1>6. \A r \in Request : past'[r] \in {past[r], CommittedRequests}
  BY <1>1, HistoryStep
<1>7. \A r \in Request : (past[r] \subseteq CommittedRequests)'
  BY <1>1, <1>5, <1>6
<1>8. ASSUME NEW p \in Product, NEW w \in Warehouse, ~Collision(p, w)'
      PROVE  /\ SoundBooks(table', ledger', p, w)
             /\ \A r \in Request \ CommittedRequests' :
                  Movers(p, w)' \subseteq past'[r] => SoundWith(r, p, w)'
  <2>1. Movers(p, w)' = Movers(p, w)
    BY <1>4 DEF Movers
  <2>2. ~Collision(p, w)
    BY <1>8, <2>1, CollisionStays
  <2>3. /\ SoundBooks(table, ledger, p, w)
        /\ \A r \in Request \ CommittedRequests :
             Movers(p, w) \subseteq past[r] => SoundWith(r, p, w)
    BY <2>2 DEF DriftInv
  <2>4. ASSUME NEW r \in Request \ CommittedRequests, Movers(p, w) \subseteq past'[r]
        PROVE  SoundWith(r, p, w)'
    <3>1. SoundWith(r, p, w)
      <4>1. CASE past'[r] = past[r]
        BY <2>3, <2>4, <4>1
      <4>2. CASE past'[r] # past[r]
        <5>1. DOMAIN Work(r) = {} /\ Posts(r) = <<>>
          BY <1>1, <4>2, HistoryStep DEF ReceiptInv, RequestInv, Untouched
        <5> QED
          BY <1>1, <2>3, <5>1, WorkBegins
      <4> QED
        BY <4>1, <4>2
    <3>2. SameBooks(r) \/ \E stock, e : Posting(r, stock, e)
      BY <1>3 DEF Uneventful, PostingStep
    <3>3. CASE SameBooks(r)
      BY <1>1, <1>4, <3>1, <3>3, WorkSame DEF SoundWith
    <3>4. ASSUME NEW stock, NEW e, Posting(r, stock, e) PROVE SoundWith(r, p, w)'
      BY <1>1, <1>4, <3>1, <3>4, WorkPosting DEF SoundWith
    <3> QED
      BY <3>2, <3>3, <3>4
  <2> QED
    BY <1>4, <1>5, <2>1, <2>3, <2>4
<1> QED
  BY <1>2, <1>7, <1>8 DEF DriftInv

\* Whoever moves a balance posts it, and a commit adds the mover to the movers.
LEMMA CommitMovers ==
    ASSUME LedgerInv, NEW r \in Request, Commit(r), NEW p \in Product, NEW w \in Warehouse
    PROVE  /\ Movers(p, w) \subseteq Movers(p, w)'
           /\ Movers(p, w)' \subseteq Movers(p, w) \cup {r}
           /\ r \notin Movers(p, w)' => /\ EntriesOf(Posts(r), p, w) = {}
                                        /\ BalanceRows(Work(r), p, w) = {}
<1>1. /\ ReceiptInv /\ DataInv /\ ledger \in Seq(Entry) /\ Posts(r) \in Seq(Entry)
      /\ Tallied(Work(r), Posts(r), p, w)
  BY WorkOK DEF LedgerInv, ReceiptInv, IInv, DataInv, BooksWork
<1>2. ledger' = ledger \o Posts(r) /\ OwnEntries(r, Posts(r))
  BY <1>1, CommitStep
<1>3. /\ \A n \in EntriesOf(ledger, p, w) : n \in EntriesOf(ledger', p, w) /\ ledger'[n] = ledger[n]
      /\ \A n \in EntriesOf(Posts(r), p, w) : /\ Len(ledger) + n \in EntriesOf(ledger', p, w)
                                              /\ ledger'[Len(ledger) + n] = Posts(r)[n]
      /\ \A n \in EntriesOf(ledger', p, w) :
           \/ n \in EntriesOf(ledger, p, w)
           \/ \E i \in EntriesOf(Posts(r), p, w) : n = Len(ledger) + i
  BY <1>1, <1>2, EntriesOfConcat
<1>4. \A n \in EntriesOf(Posts(r), p, w) : Posts(r)[n].by = r
  BY <1>2 DEF OwnEntries, EntriesOf
<1>5. Movers(p, w) \subseteq Movers(p, w)'
  BY <1>3 DEF Movers
<1>6. Movers(p, w)' \subseteq Movers(p, w) \cup {r}
  BY <1>3, <1>4 DEF Movers
<1>7. r \notin Movers(p, w)' => EntriesOf(Posts(r), p, w) = {}
  BY <1>3, <1>4 DEF Movers
<1>8. EntriesOf(Posts(r), p, w) = {} => BalanceRows(Work(r), p, w) = {}
  BY <1>1 DEF Tallied
<1> QED
  BY <1>5, <1>6, <1>7, <1>8

\* A commit keeps the invariant: the mover that commits either had all earlier movers in its
\* past, and the books stay sound, or it overlapped with one of them.
LEMMA CommitKeepsDriftInv ==
    ASSUME DriftInv, [HistoryNext]_historyVars, NEW r \in Request, Commit(r)
    PROVE  DriftInv'
<1>1. /\ LedgerInv /\ ReceiptInv /\ DataInv /\ ledger \in Seq(Entry) /\ [Next]_vars
      /\ Posts(r) \in Seq(Entry)
      /\ \A q \in Request : past[q] \subseteq CommittedRequests
  BY HistoryStep, WorkOK DEF DriftInv, LedgerInv, ReceiptInv, IInv, DataInv
<1>2. LedgerInv'
  BY <1>1, NextKeepsLedgerInv
<1>3. /\ session[r].state = "returned" /\ session'[r].state = "committed" /\ job' = job
      /\ \A q \in Request \ {r} : session'[q] = session[q]
      /\ \A q \in Request : Work(q)' = Work(q) /\ Posts(q)' = Posts(q)
      /\ \A x : x \in DOMAIN table' <=> x \in DOMAIN table \/ x \in DOMAIN Work(r)
      /\ \A x : x \in DOMAIN table /\ x \notin DOMAIN Work(r) => table'[x] = table[x]
      /\ ledger' = ledger \o Posts(r)
  BY <1>1, CommitStep
<1>4. r \notin CommittedRequests /\ CommittedRequests' = CommittedRequests \cup {r}
  BY <1>3 DEF CommittedRequests
<1>5. \A q \in Request : past'[q] = past[q] /\ r \notin past[q]
  BY <1>1, <1>3, <1>4, HistoryStep
<1>6. \A q \in Request : (past[q] \subseteq CommittedRequests)'
  BY <1>1, <1>4, <1>5
<1>7. ASSUME NEW p \in Product, NEW w \in Warehouse, ~Collision(p, w)'
      PROVE  /\ SoundBooks(table', ledger', p, w)
             /\ \A q \in Request \ CommittedRequests' :
                  Movers(p, w)' \subseteq past'[q] => SoundWith(q, p, w)'
  <2>1. /\ Movers(p, w) \subseteq Movers(p, w)'
        /\ r \notin Movers(p, w)' => /\ EntriesOf(Posts(r), p, w) = {}
                                     /\ BalanceRows(Work(r), p, w) = {}
    BY <1>1, CommitMovers
  <2>2. ~Collision(p, w)
    BY <1>7, <2>1, CollisionStays
  <2>3. /\ SoundBooks(table, ledger, p, w)
        /\ \A q \in Request \ CommittedRequests :
             Movers(p, w) \subseteq past[q] => SoundWith(q, p, w)
    BY <2>2 DEF DriftInv
  <2>4. CASE r \in Movers(p, w)'
    <3>1. ASSUME NEW a \in Movers(p, w), a \notin past[r] PROVE FALSE
      <4>1. a \in Request /\ a \in CommittedRequests /\ a # r
        BY <1>4, MoversStay DEF CommittedRequests
      <4>2. Overlap(a, r)'
        BY <1>5, <3>1, <4>1 DEF Overlap
      <4> QED
        BY <1>7, <2>1, <2>4, <4>2 DEF Collision
    <3>2. SoundWith(r, p, w)
      BY <1>4, <2>3, <3>1
    <3>3. SoundBooks(table', ledger', p, w)
      BY <1>1, <3>2, WorkCommits DEF SoundWith
    <3>4. \A q \in Request : ~(Movers(p, w)' \subseteq past'[q])
      BY <1>5, <2>4
    <3> QED
      BY <3>3, <3>4
  <2>5. CASE r \notin Movers(p, w)'
    <3>1. EntriesOf(Posts(r), p, w) = {} /\ BalanceRows(Work(r), p, w) = {}
      BY <2>1, <2>5
    <3>2. /\ \A x : x \in BalanceRows(table', p, w) <=> x \in BalanceRows(table, p, w)
          /\ \A x \in BalanceRows(table, p, w) : table'[x] = table[x]
      BY <1>3, <3>1 DEF BalanceRows
    <3>3. SoundBooks(table', ledger', p, w)
      <4>1. /\ \A n \in EntriesOf(ledger, p, w) : /\ n \in EntriesOf(ledger', p, w)
                                                  /\ ledger'[n] = ledger[n]
            /\ \A n \in EntriesOf(ledger', p, w) : n \in EntriesOf(ledger, p, w)
        BY <1>1, <1>3, <3>1, EntriesOfConcat
      <4>2. EntriesOf(ledger', p, w) = EntriesOf(ledger, p, w)
        BY <4>1
      <4> QED
        BY <2>3, <3>2, <4>1, <4>2, SoundSame
    <3>4. ASSUME NEW q \in Request \ CommittedRequests', Movers(p, w)' \subseteq past'[q]
          PROVE  SoundWith(q, p, w)'
      <4> DEFINE t == Overlay(table, Work(q))
                 u == Overlay(table', Work(q))
      <4>1. SoundWith(q, p, w)
        BY <1>4, <1>5, <2>1, <2>3, <3>4
      <4>2. Posts(q) \in Seq(Entry)
        BY <1>1, WorkOK
      <4>3. /\ \A x : x \in BalanceRows(t, p, w) <=>
                 x \in BalanceRows(table, p, w) \/ x \in BalanceRows(Work(q), p, w)
            /\ \A x \in BalanceRows(t, p, w) :
                 t[x] = IF x \in BalanceRows(Work(q), p, w) THEN Work(q)[x] ELSE table[x]
        BY OverlayRows
      <4>4. /\ \A x : x \in BalanceRows(u, p, w) <=>
                 x \in BalanceRows(table', p, w) \/ x \in BalanceRows(Work(q), p, w)
            /\ \A x \in BalanceRows(u, p, w) :
                 u[x] = IF x \in BalanceRows(Work(q), p, w) THEN Work(q)[x] ELSE table'[x]
        BY OverlayRows
      <4>5. SoundBooks(t, ledger \o Posts(q), p, w)
        BY <4>1 DEF SoundWith
      <4> HIDE DEF t, u
      <4>6. /\ \A x : x \in BalanceRows(u, p, w) <=> x \in BalanceRows(t, p, w)
            /\ \A x \in BalanceRows(t, p, w) : u[x] = t[x]
        BY <3>2, <4>3, <4>4
      <4>7. SoundBooks(u, (ledger \o Posts(r)) \o Posts(q), p, w)
        BY <1>1, <3>1, <4>2, <4>5, <4>6, SoundApart
      <4> QED
        BY <1>3, <4>7 DEF SoundWith, u
    <3> QED
      BY <3>3, <3>4
  <2> QED
    BY <2>4, <2>5
<1> QED
  BY <1>2, <1>6, <1>7 DEF DriftInv

\* Initially the books are sound and nobody has worked on them.
LEMMA InitDriftInv ==
    ASSUME SoundOnFile, HistoryInit
    PROVE  DriftInv
<1>1. LedgerInv /\ ReceiptInv /\ ledger \in Seq(Entry) /\ Init
  BY InitLedgerInv DEF HistoryInit, LedgerInv, ReceiptInv, IInv, DataInv
<1>2. PICK f \in Filed : table = f.table /\ ledger = f.ledger
  BY <1>1 DEF Init
<1>3. \A r \in Request : past[r] = {} /\ job[r].pc = "start"
  BY DEF HistoryInit, Init, NoJob
<1>4. \A p \in Product, w \in Warehouse : SoundBooks(table, ledger, p, w)
  BY <1>2 DEF SoundOnFile
<1>5. \A r \in Request : DOMAIN Work(r) = {} /\ Posts(r) = <<>>
  BY <1>1, <1>3 DEF ReceiptInv, RequestInv, Untouched
<1>6. \A r \in Request, p \in Product, w \in Warehouse : SoundWith(r, p, w)
  BY <1>1, <1>4, <1>5, WorkBegins
<1> QED
  BY <1>1, <1>3, <1>4, <1>6 DEF DriftInv

\* A balance that receipts and counts read without a lock and overwrite drifts from what
\* its movements add up to only if two of the requests that moved it overlapped, when no
\* update had been lost before.
THEOREM DriftsOverlap ==
    ASSUME SoundOnFile
    PROVE  HistorySpec => []DriftNeedsOverlap
<1>1. HistoryInit => DriftInv
  BY InitDriftInv
<1>2. DriftInv /\ [HistoryNext]_historyVars => DriftInv'
  BY ServeKeepsDriftInv, CommitKeepsDriftInv
<1>3. ASSUME DriftInv PROVE DriftNeedsOverlap
  <2>1. RowsOK(table) /\ ledger \in Seq(Entry) /\ Recorded(ledger)
    BY <1>3 DEF DriftInv, LedgerInv, ReceiptInv, IInv, DataInv
  <2>2. ASSUME NEW p \in Product, NEW w \in Warehouse, SoundBooks(table, ledger, p, w)
        PROVE  BalanceTotal(table, p, w) = LedgerTotal(ledger, p, w)
    <3>1. IsFiniteSet(BalanceRows(table, p, w))
      BY <1>3, FS_Subset DEF DriftInv, LedgerInv, BalanceRows
    <3>2. Cardinality(BalanceRows(table, p, w)) <= 1
      BY <2>2, <3>1, AtMostOne DEF SoundBooks, OneRow
    <3> QED
      BY <2>1, <2>2, <3>1, <3>2, SettledBooksBalance DEF SoundBooks
  <2> QED
    BY <1>3, <2>2 DEF DriftInv, DriftNeedsOverlap, Collision
<1> QED
  BY <1>1, <1>2, <1>3, PTL DEF HistorySpec
-----------------------------------------------------------------------------
(* The fourth part: what overlaps when an order is reopened or received    *)
(* twice.                                                                  *)

\* What a step makes of a request: its job and its work rest, ...
Rests(q) ==
    /\ job'[q] = job[q] /\ Work(q)' = Work(q)
    /\ Live(q)' => Live(q) \/ job[q].pc = "start"

\* ... or it approves an order that it finds approvable, ...
Approves(q) ==
    /\ job[q].op = "approve_po" /\ job'[q].op = "approve_po"
    /\ job'[q].po = job[q].po /\ job[q].pc = "start" /\ job'[q].pc = "done" /\ Live(q)
    /\ PORow(job[q].po) \in DOMAIN table
    /\ table[PORow(job[q].po)].status \in Approvable
    /\ PORow(job[q].po) \in DOMAIN Work(q)'

\* ... or its receipt gets on: it finds its order receivable, works through its lines, or
\* closes the order, ...
Receives(q) ==
    /\ job[q].op = "create_grn" /\ job'[q].op = "create_grn"
    /\ job'[q].po = job[q].po /\ job'[q].lines = job[q].lines
    /\ Live(q) /\ PORow(job[q].po) \in DOMAIN table
    /\ job[q].pc = "start" => table[PORow(job[q].po)].status \in Receivable
    /\ job'[q].pc = "done" => PORow(job[q].po) \in DOMAIN Work(q)'

\* ... or it is another operation that gets on.
ServesAnother(q) == job'[q].op \notin {"approve_po", "create_grn"}

\* A change of the state of its session lets a request rest.
LEMMA StateRests ==
    ASSUME ReceiptInv, NEW q \in Request, NEW s \in SessionState \ {"committed"},
           session' = [session EXCEPT ![q].state = s], UNCHANGED <<table, ledger, job>>,
           \/ Live(q)
           \/ session[q].state = "waiting"
    PROVE  Rests(q)
<1>1. DataInv /\ Untouched(q)
  BY DEF ReceiptInv, IInv, RequestInv
<1>2. session[q].state # "committed"
  BY DEF Live
<1>3. Quiet
  BY <1>1, <1>2, StateIsQuiet
<1>4. Live(q) \/ job[q].pc = "start"
  BY <1>1 DEF Untouched
<1> QED
  BY <1>3, <1>4 DEF Quiet, Rests

\* An exception too.
LEMMA RaiseRests ==
    ASSUME ReceiptInv, NEW q \in Request, Raise(q), Running(q)
    PROVE  Rests(q)
BY StateRests DEF Raise, Running, Live, SessionState

\* approve_po finds its order approvable.
LEMMA ApprovePOApproves ==
    ASSUME ReceiptInv, NEW q \in Request, ApprovePO(q)
    PROVE  Rests(q) \/ Approves(q)
<1> DEFINE row == PORow(job[q].po)
           Bad == row \notin DOMAIN View(q) \/ View(q)[row].status \notin Approvable
<1>1. IInv /\ DataInv /\ Running(q) /\ job[q].op = "approve_po" /\ job[q].pc = "start"
  BY DEF ReceiptInv, IInv, ApprovePO
<1>2. job[q] \in [op : {"approve_po"}, pc : PC, po : PO] /\ job \in [Request -> Job]
  BY <1>1 DEF IInv, JobInv, Job
<1>3. CASE Bad
  BY <1>1, <1>3, RaiseRests DEF ApprovePO
<1>4. CASE ~Bad
  <2> DEFINE dirty == WithStatus(q, job[q].po, "approved")
  <2>1. job' = [job EXCEPT ![q].pc = "done"] /\ Stage(q, NoRows, dirty, NoEntries)
    BY <1>4 DEF ApprovePO, NoEntries
  <2>2. job'[q].op = "approve_po" /\ job'[q].po = job[q].po /\ job'[q].pc = "done"
    BY <1>1, <1>2, <2>1
  <2>3. row \in DOMAIN table /\ table[row].status \in Approvable
    BY <1>1, <1>4, FirstView
  <2>4. RowsOK(dirty) /\ DOMAIN dirty = {row}
    BY <1>1, <1>2, <1>4, WithStatusOK DEF POStatus
  <2> HIDE DEF dirty
  <2>5. row \in DOMAIN Work(q)'
    BY <1>1, <2>1, <2>4, NextWork, NoRowsOK
  <2> QED
    BY <1>1, <2>2, <2>3, <2>5 DEF Approves, Running, Live
<1> QED
  BY <1>3, <1>4

\* The statements of create_grn leave its arguments alone; the first one has found its
\* order receivable, the last one writes it.
LEMMA CreateGRNReceives ==
    ASSUME ReceiptInv, NEW q \in Request,
           OpenGRN(q) \/ FailLine(q) \/ RecordLine(q) \/ CreditLine(q) \/ ClosePO(q)
    PROVE  Rests(q) \/ Receives(q)
<1>1. IInv /\ DataInv /\ Running(q) /\ Live(q) /\ job[q].op = "create_grn"
  BY DEF ReceiptInv, IInv, OpenGRN, FailLine, RecordLine, CreditLine, ClosePO, AtLine,
         Running, Live
<1>2. /\ job[q] \in [op : {"create_grn"}, pc : PC, po : PO, lines : Seq(Delivered),
                     auto : BOOLEAN, i : Nat \ {0}]
      /\ job \in [Request -> Job]
  BY <1>1 DEF IInv, JobInv, Job
<1>3. ASSUME NEW pc, job' = [job EXCEPT ![q].pc = pc]
      PROVE  /\ job'[q].op = "create_grn" /\ job'[q].po = job[q].po
             /\ job'[q].lines = job[q].lines /\ job'[q].pc = pc
  BY <1>1, <1>2, <1>3
<1>4. CASE OpenGRN(q)
  <2>1. job[q].pc = "start"
    BY <1>4 DEF OpenGRN
  <2>2. CASE \/ PORow(job[q].po) \notin DOMAIN View(q)
             \/ View(q)[PORow(job[q].po)].status \notin Receivable
    BY <1>1, <1>4, <2>2, RaiseRests DEF OpenGRN
  <2>3. ASSUME PORow(job[q].po) \in DOMAIN View(q),
               View(q)[PORow(job[q].po)].status \in Receivable
        PROVE  Receives(q)
    <3>1. job' = [job EXCEPT ![q].pc = "lines"]
      BY <1>4, <2>3 DEF OpenGRN
    <3>2. PORow(job[q].po) \in DOMAIN table /\ table[PORow(job[q].po)].status \in Receivable
      BY <1>1, <2>1, <2>3, FirstView
    <3> QED
      BY <1>1, <1>3, <2>1, <3>1, <3>2 DEF Receives
  <2> QED
    BY <2>2, <2>3
<1>5. CASE FailLine(q)
  BY <1>1, <1>5, RaiseRests DEF FailLine
<1>6. CASE RecordLine(q) \/ CreditLine(q)
  <2>1. job[q].pc = "lines" /\ job' = [job EXCEPT ![q].i = @ + 1]
    BY <1>6 DEF RecordLine, CreditLine, AtLine
  <2>2. /\ job'[q].op = "create_grn" /\ job'[q].po = job[q].po
        /\ job'[q].lines = job[q].lines /\ job'[q].pc = "lines"
    BY <1>1, <1>2, <2>1
  <2>3. PORow(job[q].po) \in DOMAIN table
    BY <1>1, <2>1 DEF ReceiptInv, RequestInv, GoodsOrder
  <2> QED
    BY <1>1, <2>1, <2>2, <2>3 DEF Receives
<1>7. CASE ClosePO(q)
  <2> DEFINE dirty == WithStatus(q, job[q].po, "fully_received")
  <2>1. /\ job[q].pc = "lines" /\ job' = [job EXCEPT ![q].pc = "done"]
        /\ Stage(q, NoRows, dirty, NoEntries)
    BY <1>7 DEF ClosePO, NoEntries
  <2>2. RowsOK(dirty) /\ DOMAIN dirty = {PORow(job[q].po)}
    BY <1>1, <1>2, <2>1, InReceipt, WithStatusOK DEF POStatus
  <2> HIDE DEF dirty
  <2>3. PORow(job[q].po) \in DOMAIN Work(q)'
    BY <1>1, <2>1, <2>2, NextWork, NoRowsOK
  <2>4. PORow(job[q].po) \in DOMAIN table
    BY <1>1, <2>1 DEF ReceiptInv, RequestInv, GoodsOrder
  <2> QED
    BY <1>1, <1>3, <2>1, <2>3, <2>4 DEF Receives
<1> QED
  BY <1>4, <1>5, <1>6, <1>7

\* A request rests, arrives, approves, receives, or does something else.
LEMMA RequestNext ==
    ASSUME ReceiptInv, [Next]_vars, NEW q \in Request
    PROVE  Rests(q) \/ job'[q] \in Jobs \/ Approves(q) \/ Receives(q) \/ ServesAnother(q)
<1>1. IInv /\ DataInv /\ job \in [Request -> Job]
  BY DEF ReceiptInv, IInv, JobInv
<1>2. ASSUME session'[q] = session[q], job'[q] = job[q] PROVE Rests(q)
  BY <1>2 DEF Rests, Work, Live
<1>3. CASE Submit(q)
  BY <1>1, <1>3 DEF Submit, Arrive
<1>4. CASE Connect(q) \/ PoolTimeout(q)
  BY <1>4, StateRests DEF Connect, PoolTimeout, SessionState
<1>5. CASE Finish(q) \/ Discard(q) \/ Crash(q) \/ DeadlockVictim(q)
  BY <1>5, StateRests DEF Finish, Respond, Running, Discard, Crash, DeadlockVictim, Deadlocked,
                          InUse, Raise, Live, SessionState
<1>6. CASE Flush(q)
  BY <1>1, <1>6, FlushIsQuiet DEF Quiet, Rests, Live
<1>7. CASE Commit(q)
  BY <1>7, CommitStep DEF Rests, Live
<1>8. CASE CreatePO(q) \/ AdjustStock(q)
  <2>1. Running(q) /\ job[q].op \in {"create_po", "adjust_stock"}
    BY <1>8 DEF CreatePO, AdjustStock
  <2>2. ASSUME job' = [job EXCEPT ![q].pc = "done"] PROVE ServesAnother(q)
    BY <1>1, <2>1, <2>2 DEF Job, ServesAnother
  <2> QED
    BY <1>8, <2>1, <2>2, RaiseRests DEF CreatePO, AdjustStock
<1>9. ASSUME NEW r \in Request, Submit(r) \/ Serve(r) \/ Crash(r)
      PROVE  Rests(q) \/ job'[q] \in Jobs \/ Approves(q) \/ Receives(q) \/ ServesAnother(q)
  <2>1. CASE r # q
    BY <1>1, <1>2, <1>9, <2>1, OthersStay
  <2>2. CASE r = q
    BY <1>3, <1>4, <1>5, <1>6, <1>7, <1>8, <1>9, <2>2, ApprovePOApproves, CreateGRNReceives
       DEF Serve
  <2> QED
    BY <2>1, <2>2
<1> QED
  BY <1>2, <1>9 DEF Next, vars

\* A receipt that has run to its end has written a note, of its order.
LEMMA NoteWritten ==
    ASSUME ReceiptInv, NEW r \in Request, job[r].op = "create_grn", job[r].pc = "done"
    PROVE  Work(r)[GRNRow(r)].po = job[r].po
<1> DEFINE note == Work(r)[GRNRow(r)]
           lines == SubSeq(job[r].lines, 1, job[r].i - 1)
           status == IF job[r].auto THEN "completed" ELSE "draft"
<1>1. note = [po |-> job[r].po, lines |-> lines, status |-> status]
  BY DEF ReceiptInv, RequestInv, ReceiptWork
<1> HIDE DEF note, lines, status
<1>2. note.po = job[r].po
  BY <1>1
<1> QED
  BY <1>2 DEF note

\* A stored note is that of a receipt: its order and lines are the ones that were sent.
LEMMA NoteOf ==
    ASSUME ReceiptInv, NEW r \in Request, GRNRow(r) \in DOMAIN table
    PROVE  /\ job[r].op = "create_grn" /\ job[r].pc = "done"
           /\ table[GRNRow(r)].po = job[r].po
           /\ table[GRNRow(r)].lines = job[r].lines
           /\ job[r].po \in PO /\ PORow(job[r].po) \in DOMAIN table \cap PORows
<1>1. /\ job[r].op = "create_grn" /\ job[r].pc = "done"
      /\ table[GRNRow(r)] = Work(r)[GRNRow(r)]
  BY StoredNote
<1>2. table[GRNRow(r)].lines = job[r].lines
  BY StoredReceipt DEF WholeReceipt
<1>3. table[GRNRow(r)].po = job[r].po
  BY <1>1, NoteWritten
<1>4. job[r].po \in PO
  BY <1>1 DEF ReceiptInv, IInv, JobInv, Job
<1>5. PORow(job[r].po) \in DOMAIN table
  BY <1>1 DEF ReceiptInv, RequestInv, GoodsOrder
<1> QED
  BY <1>1, <1>2, <1>3, <1>4, <1>5, RowKinds

\* A request that serves an order and is past its check.
Approving(q, o) == job[q].op = "approve_po" /\ job[q].po = o /\ job[q].pc # "start"
Receiver(q, o) == job[q].op = "create_grn" /\ job[q].po = o /\ job[q].pc # "start"

\* The stored status of an order, and whether it is one that may still be approved.
StatusOf(o) == table[PORow(o)].status

\* Committed approvals: one, or more than one.
ApprovedBy(a, o) == a \in CommittedRequests /\ Approving(a, o)
Twice(o) == \E a, b \in Request : a # b /\ ApprovedBy(a, o) /\ ApprovedBy(b, o)

\* Whoever serves an order to the end writes it.
Closes(q) ==
    job[q].op \in {"approve_po", "create_grn"} /\ job[q].pc = "done" =>
        PORow(job[q].po) \in DOMAIN Work(q)

\* An order that an approval was committed for is past the approval.
ApprovalStays(a) ==
    \A o \in PO : ApprovedBy(a, o) => PORow(o) \in DOMAIN table /\ StatusOf(o) \in Advanced

\* No approval of its order had committed when an approval passed its check.
ApprovedLater(a) ==
    \A o \in PO : Approving(a, o) =>
        /\ PORow(o) \in DOMAIN table
        /\ \A b \in past[a] : ~Approving(b, o)

\* A stored receipt is one of a closed order, unless the order was approved twice.
ClosedOrTwice(r) ==
    GRNRow(r) \in DOMAIN table =>
        \/ StatusOf(table[GRNRow(r)].po) = "fully_received"
        \/ Twice(table[GRNRow(r)].po)

\* An approval whose check is no longer true was overtaken by another one.
Overtaken(a) ==
    \A o \in PO : Approving(a, o) /\ a \notin CommittedRequests /\ StatusOf(o) \notin Approvable =>
        \E b \in Request : ApprovedBy(b, o)

\* A receipt that came after a receipt of its order met an order that was approved twice.
AfterReceipt(r) ==
    \A o \in PO : Receiver(r, o) =>
        \A q \in past[r] : GRNRow(q) \in DOMAIN table /\ table[GRNRow(q)].po = o => Twice(o)

\* The inductive invariant.
HistoryInv ==
    /\ ReceiptInv
    /\ \A r \in Request : /\ past[r] \subseteq CommittedRequests
                          /\ Closes(r)
                          /\ ApprovalStays(r)
                          /\ ApprovedLater(r)
                          /\ ClosedOrTwice(r)
                          /\ Overtaken(r)
                          /\ AfterReceipt(r)


\* Initially nothing has happened.
LEMMA InitHistoryInv == HistoryInit => HistoryInv
<1> SUFFICES ASSUME HistoryInit PROVE HistoryInv
  OBVIOUS
<1>1. ReceiptInv /\ Init
  BY InitReceiptInv DEF HistoryInit
<1>2. \A r \in Request : past[r] = {} /\ job[r].op = "none" /\ job[r].pc = "start"
  BY DEF HistoryInit, Init, NoJob
<1>3. \A r \in Request : GRNRow(r) \notin DOMAIN table
  BY <1>1, <1>2, StoredNote
<1> QED
  BY <1>1, <1>2, <1>3 DEF HistoryInv, Closes, ApprovalStays, ApprovedLater, ClosedOrTwice,
     Overtaken, AfterReceipt, ApprovedBy, Approving, Receiver

\* What a step that is not a commit leaves as it is.
LEMMA NoCommit ==
    ASSUME ReceiptInv, [Next]_vars, \A r \in Request : ~Commit(r)
    PROVE  /\ table' = table /\ CommittedRequests' = CommittedRequests
           /\ \A q \in CommittedRequests : job'[q] = job[q]
           /\ \A o \in PO : Twice(o) => Twice(o)'
           /\ \A o, b : b \in Request /\ ApprovedBy(b, o) => ApprovedBy(b, o)'
<1>1. table' = table
  BY OnlyCommitsStore
<1>2. CommittedRequests' = CommittedRequests /\ \A q \in CommittedRequests : job'[q] = job[q]
  BY CommittedNext DEF CommittedRequests
<1>3. \A o, b : b \in Request /\ ApprovedBy(b, o) => ApprovedBy(b, o)'
  BY <1>2 DEF ApprovedBy, Approving
<1> QED
  BY <1>1, <1>2, <1>3 DEF Twice

\* A step that is not a commit keeps the invariant.
LEMMA ServeKeepsHistoryInv ==
    ASSUME HistoryInv, ReceiptInv', [HistoryNext]_historyVars, \A r \in Request : ~Commit(r)
    PROVE  HistoryInv'
<1>0. ReceiptInv /\ [Next]_vars
  BY HistoryStep DEF HistoryInv
<1>1. \A r \in Request : past'[r] = IF job[r].pc = "start" /\ job'[r].pc # "start"
                                    THEN CommittedRequests ELSE past[r]
  BY <1>0, HistoryStep
<1>2. /\ table' = table /\ CommittedRequests' = CommittedRequests
      /\ \A q \in CommittedRequests : job'[q] = job[q]
      /\ \A o \in PO : Twice(o) => Twice(o)'
      /\ \A o, b : b \in Request /\ ApprovedBy(b, o) => ApprovedBy(b, o)'
  BY <1>0, NoCommit
<1> SUFFICES ASSUME NEW r \in Request
             PROVE  /\ (past[r] \subseteq CommittedRequests)' /\ Closes(r)' /\ ApprovalStays(r)'
                    /\ ApprovedLater(r)' /\ ClosedOrTwice(r)' /\ Overtaken(r)' /\ AfterReceipt(r)'
  BY DEF HistoryInv
<1>3. /\ past[r] \subseteq CommittedRequests /\ Closes(r) /\ ApprovalStays(r)
      /\ ApprovedLater(r) /\ ClosedOrTwice(r) /\ Overtaken(r) /\ AfterReceipt(r)
  BY DEF HistoryInv
<1>4. (past[r] \subseteq CommittedRequests)'
  BY <1>1, <1>2, <1>3
<1>5. ApprovalStays(r)'
  BY <1>2, <1>3 DEF ApprovalStays, ApprovedBy, Approving, StatusOf
<1>6. ClosedOrTwice(r)'
  <2>1. GRNRow(r) \in DOMAIN table => table[GRNRow(r)].po \in PO
    BY <1>0, NoteOf
  <2> QED
    BY <1>2, <1>3, <2>1 DEF ClosedOrTwice, StatusOf
<1>7. CASE Rests(r)
  <2>1. job'[r] = job[r] /\ Work(r)' = Work(r) /\ past'[r] = past[r]
    BY <1>1, <1>7 DEF Rests
  <2>2. Closes(r)'
    BY <1>3, <2>1 DEF Closes
  <2>3. ApprovedLater(r)'
    BY <1>2, <1>3, <2>1 DEF ApprovedLater, Approving
  <2>4. Overtaken(r)'
    BY <1>2, <1>3, <2>1 DEF Overtaken, Approving, StatusOf
  <2>5. AfterReceipt(r)'
    BY <1>2, <1>3, <2>1 DEF AfterReceipt, Receiver
  <2> QED
    BY <1>4, <1>5, <1>6, <2>2, <2>3, <2>4, <2>5
<1>8. CASE job'[r] \in Jobs
  <2>1. job'[r].pc = "start"
    BY <1>8, JobsOK
  <2> QED
    BY <1>4, <1>5, <1>6, <2>1
       DEF Closes, ApprovedLater, Overtaken, AfterReceipt, Approving, Receiver
<1>9. CASE Approves(r)
  <2>1. /\ job'[r].op = "approve_po" /\ job'[r].po = job[r].po /\ past'[r] = CommittedRequests
        /\ PORow(job[r].po) \in DOMAIN table /\ StatusOf(job[r].po) \in Approvable
        /\ PORow(job[r].po) \in DOMAIN Work(r)'
    BY <1>1, <1>9 DEF Approves, StatusOf
  <2>2. ASSUME NEW b \in CommittedRequests, NEW o \in PO, o = job[r].po PROVE ~Approving(b, o)'
    <3>1. ApprovalStays(b) /\ job'[b] = job[b]
      BY <1>2 DEF HistoryInv, CommittedRequests
    <3>2. Approving(b, o) => StatusOf(o) \in Advanced
      BY <3>1 DEF ApprovalStays, ApprovedBy
    <3>3. ~Approving(b, o)
      BY <2>1, <2>2, <3>2 DEF Advanced, Approvable
    <3> QED
      BY <3>1, <3>3 DEF Approving
  <2>3. ApprovedLater(r)'
    BY <1>2, <2>1, <2>2 DEF ApprovedLater, Approving
  <2>4. Overtaken(r)' /\ AfterReceipt(r)' /\ Closes(r)'
    BY <1>2, <2>1 DEF Overtaken, AfterReceipt, Closes, Approving, Receiver, StatusOf
  <2> QED
    BY <1>4, <1>5, <1>6, <2>3, <2>4
<1>10. CASE Receives(r)
  <2>1. /\ job[r].op = "create_grn" /\ job'[r].op = "create_grn" /\ job'[r].po = job[r].po
        /\ job[r].pc = "start" => StatusOf(job[r].po) \in Receivable
        /\ job'[r].pc = "done" => PORow(job[r].po) \in DOMAIN Work(r)'
    BY <1>10 DEF Receives, StatusOf
  <2>2. ASSUME NEW o \in PO, o = job[r].po, job'[r].pc # "start", NEW q \in past'[r],
               GRNRow(q) \in DOMAIN table, table[GRNRow(q)].po = o
        PROVE  Twice(o)
    <3>1. CASE job[r].pc = "start"
      <4>1. ClosedOrTwice(q) /\ StatusOf(o) \in Receivable
        BY <1>1, <2>1, <2>2, <3>1 DEF HistoryInv, CommittedRequests
      <4> QED
        BY <2>2, <4>1 DEF ClosedOrTwice, Receivable
    <3>2. CASE job[r].pc # "start"
      BY <1>1, <1>3, <2>1, <2>2, <3>2 DEF AfterReceipt, Receiver
    <3> QED
      BY <3>1, <3>2
  <2>3. AfterReceipt(r)'
    BY <1>2, <2>1, <2>2 DEF AfterReceipt, Receiver
  <2>4. ApprovedLater(r)' /\ Overtaken(r)' /\ Closes(r)'
    BY <2>1 DEF ApprovedLater, Overtaken, Closes, Approving
  <2> QED
    BY <1>4, <1>5, <1>6, <2>3, <2>4
<1>11. CASE ServesAnother(r)
  BY <1>4, <1>5, <1>6, <1>11
     DEF ServesAnother, Closes, ApprovedLater, Overtaken, AfterReceipt, Approving, Receiver
<1> QED
  BY <1>0, <1>7, <1>8, <1>9, <1>10, <1>11, RequestNext

\* What a commit leaves as it is, and what it does to the status of a stored order.
LEMMA CommitHistory ==
    ASSUME HistoryInv, [HistoryNext]_historyVars, NEW r \in Request, Commit(r)
    PROVE  /\ job' = job /\ r \notin CommittedRequests
           /\ job[r].pc = "done"
           /\ CommittedRequests' = CommittedRequests \cup {r}
           /\ \A q \in Request : past'[q] = past[q] /\ Work(q)' = Work(q)
           /\ \A o, b : b \in Request /\ ApprovedBy(b, o) => ApprovedBy(b, o)'
           /\ \A o : Twice(o) => Twice(o)'
           /\ \A o \in PO : PORow(o) \in DOMAIN table =>
                /\ PORow(o) \in DOMAIN table'
                /\ \/ StatusOf(o)' = StatusOf(o)
                   \/ Approving(r, o) /\ StatusOf(o)' = "approved"
                   \/ Receiver(r, o) /\ StatusOf(o)' = "fully_received"
<1>0. ReceiptInv /\ [Next]_vars
  BY HistoryStep DEF HistoryInv
<1>1. /\ session[r].state = "returned" /\ session'[r].state = "committed"
      /\ job[r].pc = "done" /\ job' = job
      /\ \A q \in Request \ {r} : session'[q] = session[q]
      /\ \A q \in Request : Work(q)' = Work(q)
      /\ \A row : row \in DOMAIN table' <=> row \in DOMAIN table \/ row \in DOMAIN Work(r)
      /\ \A row : row \in DOMAIN Work(r) => table'[row] = Work(r)[row]
      /\ \A row : row \in DOMAIN table /\ row \notin DOMAIN Work(r) => table'[row] = table[row]
  BY <1>0, CommitStep
<1>2. r \notin CommittedRequests /\ CommittedRequests' = CommittedRequests \cup {r}
  BY <1>1 DEF CommittedRequests
<1>3. \A q \in Request : past'[q] = past[q]
  BY <1>0, <1>1, HistoryStep
<1>4. \A o, b : b \in Request /\ ApprovedBy(b, o) => ApprovedBy(b, o)'
  BY <1>1, <1>2 DEF ApprovedBy, Approving
<1>5. \A o : Twice(o) => Twice(o)'
  BY <1>4 DEF Twice
<1>6. ASSUME NEW o \in PO, PORow(o) \in DOMAIN table
      PROVE  \/ StatusOf(o)' = StatusOf(o)
             \/ Approving(r, o) /\ StatusOf(o)' = "approved"
             \/ Receiver(r, o) /\ StatusOf(o)' = "fully_received"
  <2>1. CASE PORow(o) \notin DOMAIN Work(r)
    BY <1>1, <1>6, <2>1 DEF StatusOf
  <2>2. CASE PORow(o) \in DOMAIN Work(r)
    <3>1. OrderWork(r) /\ PORow(o) \in PORows /\ StatusOf(o)' = Work(r)[PORow(o)].status
      BY <1>0, <1>1, <2>2, RowKinds DEF ReceiptInv, RequestInv, StatusOf
    <3>2. PORow(o) # PORow(r)
      BY <1>0, <1>1, <1>6, NothingStored DEF PORow
    <3>3. /\ job[r].op \in {"approve_po", "create_grn"} /\ PORow(o) = PORow(job[r].po)
          /\ StatusOf(o)' = IF job[r].op = "approve_po" THEN "approved" ELSE "fully_received"
      BY <2>2, <3>1, <3>2 DEF OrderWork
    <3>4. job[r].po = o
      BY <3>3 DEF PORow
    <3> QED
      BY <1>1, <3>3, <3>4 DEF Approving, Receiver
  <2> QED
    BY <2>1, <2>2
<1> QED
  BY <1>1, <1>2, <1>3, <1>4, <1>5, <1>6

\* An approval that commits leaves its order past the approval.
LEMMA CommitKeepsApprovals ==
    ASSUME HistoryInv, [HistoryNext]_historyVars, NEW r \in Request, Commit(r),
           NEW a \in Request
    PROVE  ApprovalStays(a)'
<1>0. ReceiptInv /\ ApprovalStays(a) /\ ApprovedLater(a) /\ Closes(r)
  BY DEF HistoryInv
<1>1. /\ job' = job /\ job[r].pc = "done"
      /\ CommittedRequests' = CommittedRequests \cup {r}
      /\ \A o \in PO : PORow(o) \in DOMAIN table =>
           /\ PORow(o) \in DOMAIN table'
           /\ \/ StatusOf(o)' = StatusOf(o)
              \/ StatusOf(o)' \in Advanced
  BY CommitHistory DEF Advanced
<1> SUFFICES ASSUME NEW o \in PO, ApprovedBy(a, o)'
             PROVE  PORow(o) \in DOMAIN table' /\ StatusOf(o)' \in Advanced
  BY DEF ApprovalStays
<1>2. Approving(a, o) /\ PORow(o) \in DOMAIN table
  BY <1>0, <1>1 DEF ApprovedBy, Approving, ApprovedLater
<1>3. CASE a \in CommittedRequests
  BY <1>0, <1>1, <1>2, <1>3 DEF ApprovalStays, ApprovedBy
<1>4. CASE a = r
  <2>1. job[r].op = "approve_po" /\ job[r].po = o /\ PORow(o) \in DOMAIN Work(r)
    BY <1>0, <1>1, <1>2, <1>4 DEF Approving, Closes
  <2>2. PORow(o) \in PORows /\ OrderWork(r)
    BY <1>0, RowKinds DEF ReceiptInv, RequestInv
  <2>3. table'[PORow(o)] = Work(r)[PORow(o)]
    BY <1>0, <2>1, CommitStep
  <2>4. Work(r)[PORow(o)].status = "approved"
    BY <2>1, <2>2 DEF OrderWork
  <2> QED
    BY <1>1, <1>2, <2>3, <2>4 DEF StatusOf, Advanced
<1> QED
  BY <1>1, <1>3, <1>4 DEF ApprovedBy

\* A commit keeps received orders closed, or else is a second approval.
LEMMA CommitKeepsClosed ==
    ASSUME HistoryInv, [HistoryNext]_historyVars, NEW r \in Request, Commit(r),
           NEW q \in Request
    PROVE  ClosedOrTwice(q)'
<1>0. /\ ReceiptInv /\ RequestInv(q) /\ RequestInv(r) /\ ClosedOrTwice(q) /\ Overtaken(r)
      /\ Closes(r)
  BY DEF HistoryInv, ReceiptInv
<1>1. /\ job' = job /\ job[r].pc = "done" /\ r \notin CommittedRequests
      /\ CommittedRequests' = CommittedRequests \cup {r}
      /\ \A o, b : b \in Request /\ ApprovedBy(b, o) => ApprovedBy(b, o)'
      /\ \A o : Twice(o) => Twice(o)'
      /\ \A o \in PO : PORow(o) \in DOMAIN table =>
           /\ PORow(o) \in DOMAIN table'
           /\ \/ StatusOf(o)' = StatusOf(o)
              \/ Approving(r, o) /\ StatusOf(o)' = "approved"
              \/ Receiver(r, o) /\ StatusOf(o)' = "fully_received"
  BY CommitHistory
<1> DEFINE o == job[q].po
<1> SUFFICES ASSUME GRNRow(q) \in DOMAIN table' PROVE ClosedOrTwice(q)'
  BY DEF ClosedOrTwice
<1>2. CASE q # r
  <2>1. GRNRow(q) \in Documents /\ GRNRow(q).id # r
    BY <1>2, RowKinds DEF Documents, GRNRow
  <2>2. GRNRow(q) \in DOMAIN table /\ table'[GRNRow(q)] = table[GRNRow(q)]
    BY <1>0, <2>1, CommitDocuments
  <2>3. /\ table[GRNRow(q)].po = o /\ o \in PO /\ PORow(o) \in DOMAIN table
        /\ job[q].op = "create_grn" /\ job[q].pc = "done"
    BY <1>0, <2>2, NoteOf
  <2>4. StatusOf(o) \in Advanced
    BY <1>0, <2>3 DEF RequestInv, GoodsOrder, StatusOf
  <2>5. ASSUME Approving(r, o) PROVE Twice(o)'
    <3>1. PICK b \in Request : ApprovedBy(b, o)
      BY <1>0, <1>1, <2>3, <2>4, <2>5 DEF Overtaken, Advanced, Approvable
    <3>2. b # r /\ ApprovedBy(b, o)' /\ ApprovedBy(r, o)'
      BY <1>1, <2>5, <3>1 DEF ApprovedBy, Approving
    <3> QED
      BY <3>2 DEF Twice
  <2>6. StatusOf(o) = "fully_received" \/ Twice(o)
    BY <1>0, <2>2, <2>3 DEF ClosedOrTwice
  <2>7. StatusOf(o)' = "fully_received" \/ Twice(o)'
    BY <1>1, <2>3, <2>5, <2>6
  <2>8. table'[GRNRow(q)].po = o'
    BY <1>1, <2>2, <2>3
  <2> HIDE DEF o
  <2> QED
    BY <2>7, <2>8 DEF ClosedOrTwice, StatusOf, Twice
<1>3. CASE q = r
  <2>1. GRNRow(r) \in DOMAIN Work(r) \cap Documents
    BY <1>0, <1>3, CommitDocuments, RowKinds DEF Documents, GRNRow
  <2>2. job[r].op = "create_grn"
    BY <1>0, <2>1 DEF RequestInv, OwnDocuments
  <2>3. table'[GRNRow(r)] = Work(r)[GRNRow(r)] /\ Work(r)[GRNRow(r)].po = job[r].po
    BY <1>0, <1>1, <2>1, <2>2, CommitStep, NoteWritten
  <2>4. job[r].po \in PO
    BY <1>0, <2>2 DEF ReceiptInv, IInv, JobInv, Job
  <2>5. /\ PORow(job[r].po) \in DOMAIN Work(r) \cap PORows /\ PORow(job[r].po) \in DOMAIN table
        /\ OrderWork(r)
    BY <1>0, <1>1, <2>2, <2>4, RowKinds DEF Closes, RequestInv, GoodsOrder
  <2>6. Work(r)[PORow(job[r].po)].status = "fully_received"
    BY <2>2, <2>5 DEF OrderWork
  <2>7. table'[PORow(job[r].po)].status = "fully_received"
    BY <1>0, <2>5, <2>6, CommitStep
  <2> QED
    BY <1>3, <2>3, <2>7 DEF ClosedOrTwice, StatusOf
<1> QED
  BY <1>2, <1>3

\* An approval is overtaken by another one only: receipts find their order past it.
LEMMA CommitKeepsOvertaken ==
    ASSUME HistoryInv, [HistoryNext]_historyVars, NEW r \in Request, Commit(r),
           NEW a \in Request
    PROVE  Overtaken(a)'
<1>0. ReceiptInv /\ RequestInv(r) /\ Overtaken(a) /\ ApprovedLater(a)
  BY DEF HistoryInv, ReceiptInv
<1>1. /\ job' = job
      /\ CommittedRequests' = CommittedRequests \cup {r}
      /\ \A o, b : b \in Request /\ ApprovedBy(b, o) => ApprovedBy(b, o)'
      /\ \A o \in PO : PORow(o) \in DOMAIN table =>
           \/ StatusOf(o)' = StatusOf(o)
           \/ Approving(r, o)
           \/ Receiver(r, o)
  BY CommitHistory
<1> SUFFICES ASSUME NEW o \in PO, Approving(a, o)', a \notin CommittedRequests',
                    StatusOf(o)' \notin Approvable
             PROVE  \E b \in Request : ApprovedBy(b, o)'
  BY DEF Overtaken
<1>2. Approving(a, o) /\ a \notin CommittedRequests /\ PORow(o) \in DOMAIN table
  BY <1>0, <1>1 DEF Approving, ApprovedLater
<1>3. CASE StatusOf(o) \notin Approvable
  BY <1>0, <1>1, <1>2, <1>3 DEF Overtaken
<1>4. CASE Approving(r, o)
  BY <1>1, <1>4 DEF ApprovedBy, Approving
<1>5. CASE Receiver(r, o)
  <2>1. StatusOf(o) \in Advanced
    BY <1>0, <1>5 DEF RequestInv, GoodsOrder, Receiver, StatusOf
  <2> QED
    BY <1>3, <2>1 DEF Advanced, Approvable
<1> QED
  BY <1>1, <1>2, <1>3, <1>4, <1>5

\* A commit keeps the invariant.
LEMMA CommitKeepsHistoryInv ==
    ASSUME HistoryInv, ReceiptInv', [HistoryNext]_historyVars, NEW r \in Request, Commit(r)
    PROVE  HistoryInv'
<1>1. /\ job' = job
      /\ CommittedRequests' = CommittedRequests \cup {r} /\ r \notin CommittedRequests
      /\ \A q \in Request : past'[q] = past[q] /\ Work(q)' = Work(q)
      /\ \A o : Twice(o) => Twice(o)'
      /\ \A o \in PO : PORow(o) \in DOMAIN table => PORow(o) \in DOMAIN table'
  BY CommitHistory
<1> SUFFICES ASSUME NEW q \in Request
             PROVE  /\ (past[q] \subseteq CommittedRequests)' /\ Closes(q)'
                    /\ ApprovedLater(q)' /\ AfterReceipt(q)'
  BY CommitKeepsApprovals, CommitKeepsClosed, CommitKeepsOvertaken DEF HistoryInv
<1>2. /\ ReceiptInv /\ past[q] \subseteq CommittedRequests /\ Closes(q)
      /\ ApprovedLater(q) /\ AfterReceipt(q)
  BY DEF HistoryInv
<1>3. (past[q] \subseteq CommittedRequests)' /\ Closes(q)'
  BY <1>1, <1>2 DEF Closes
<1>4. ApprovedLater(q)'
  BY <1>1, <1>2 DEF ApprovedLater, Approving
<1>5. ASSUME NEW o \in PO, Receiver(q, o)', NEW x \in past'[q],
             GRNRow(x) \in DOMAIN table', table'[GRNRow(x)].po = o
      PROVE  Twice(o)'
  <2>1. x \in Request /\ x # r /\ x \in past[q]
    BY <1>1, <1>2, <1>5 DEF CommittedRequests
  <2>2. GRNRow(x) \in Documents /\ GRNRow(x).id # r
    BY <2>1, RowKinds DEF Documents, GRNRow
  <2>3. GRNRow(x) \in DOMAIN table /\ table'[GRNRow(x)] = table[GRNRow(x)]
    BY <1>2, <1>5, <2>2, CommitDocuments
  <2>4. Receiver(q, o)
    BY <1>1, <1>5 DEF Receiver
  <2> QED
    BY <1>1, <1>2, <1>5, <2>1, <2>3, <2>4 DEF AfterReceipt
<1>6. AfterReceipt(q)'
  BY <1>5 DEF AfterReceipt
<1> QED
  BY <1>3, <1>4, <1>6

\* The inductive invariant holds throughout.
THEOREM HistoryInvariance == HistorySpec => []HistoryInv
<1>1. HistoryInv /\ [HistoryNext]_historyVars => HistoryInv'
  <2> SUFFICES ASSUME HistoryInv, [HistoryNext]_historyVars PROVE HistoryInv'
    OBVIOUS
  <2>1. ReceiptInv'
    BY HistoryStep, NextKeepsReceiptInv DEF HistoryInv
  <2> QED
    BY <2>1, ServeKeepsHistoryInv, CommitKeepsHistoryInv
<1> QED
  BY <1>1, InitHistoryInv, PTL DEF HistorySpec

\* Two committed approvals of one order overlap: each passed its check before the other one
\* had committed.
LEMMA TwiceOverlaps ==
    ASSUME HistoryInv, NEW o \in PO, Twice(o)
    PROVE  ApprovedTwice(o)
<1>1. PICK a \in Request, b \in Request : a # b /\ ApprovedBy(a, o) /\ ApprovedBy(b, o)
  BY DEF Twice
<1>2. ApprovedLater(a) /\ ApprovedLater(b)
  BY DEF HistoryInv
<1>3. Overlap(a, b)
  BY <1>1, <1>2 DEF ApprovedBy, ApprovedLater, Overlap
<1> QED
  BY <1>1, <1>3 DEF ApprovedBy, Approving, ApprovedTwice

\* approve_po writes the status by id, on a check that may be stale; that reopens an order
\* that was received only if two approvals of the order overlapped.
THEOREM ReopeningsOverlap == HistorySpec => []ReopeningNeedsOverlap
<1>1. ASSUME HistoryInv PROVE ReopeningNeedsOverlap
  <2> SUFFICES ASSUME NEW r \in Request, GRNRow(r) \in DOMAIN table,
                      table[PORow(table[GRNRow(r)].po)].status # "fully_received"
               PROVE  ApprovedTwice(table[GRNRow(r)].po)
    BY DEF ReopeningNeedsOverlap
  <2>1. ReceiptInv /\ ClosedOrTwice(r)
    BY <1>1 DEF HistoryInv
  <2>2. table[GRNRow(r)].po \in PO
    BY <2>1, NoteOf
  <2>3. Twice(table[GRNRow(r)].po)
    BY <2>1 DEF ClosedOrTwice, StatusOf
  <2> QED
    BY <1>1, <2>2, <2>3, TwiceOverlaps
<1> QED
  BY <1>1, HistoryInvariance, PTL

\* create_grn closes the order and refuses a closed one; an order is received twice only if
\* the receipts overlapped, or two approvals did and reopened it.
THEOREM SecondReceiptsOverlap == HistorySpec => []SecondReceiptNeedsOverlap
<1>1. ASSUME HistoryInv PROVE SecondReceiptNeedsOverlap
  <2> SUFFICES ASSUME NEW q \in Request, NEW r \in Request, q # r,
                      GRNRow(q) \in DOMAIN table, GRNRow(r) \in DOMAIN table,
                      table[GRNRow(q)].po = table[GRNRow(r)].po, ~Overlap(q, r)
               PROVE  ApprovedTwice(table[GRNRow(q)].po)
    BY DEF SecondReceiptNeedsOverlap
  <2> DEFINE o == table[GRNRow(q)].po
  <2>1. ReceiptInv /\ AfterReceipt(q) /\ AfterReceipt(r)
    BY <1>1 DEF HistoryInv
  <2>2. o \in PO /\ Receiver(q, o) /\ Receiver(r, o)
    BY <2>1, NoteOf DEF Receiver
  <2>3. q \in past[r] \/ r \in past[q]
    BY DEF Overlap
  <2>4. Twice(o)
    BY <2>1, <2>2, <2>3 DEF AfterReceipt
  <2> QED
    BY <1>1, <2>2, <2>4, TwiceOverlaps
<1> QED
  BY <1>1, HistoryInvariance, PTL

=============================================================================
