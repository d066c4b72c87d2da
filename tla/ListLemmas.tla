------------------------------ MODULE ListLemmas ------------------------------
(* Facts about natural numbers and lists that the proofs of several components *)
(* need.                                                                       *)
EXTENDS Integers, SequencesExt, FiniteSetTheorems, SequenceTheorems, TLAPS

(* Induction over the naturals, for a set of them: were one missing, those that are *)
(* missing up to it would go injectively into as many but one, by m - 1.            *)
LEMMA NatSet ==
    ASSUME NEW S, 0 \in S, \A n \in Nat : n \in S => n + 1 \in S
    PROVE  Nat \subseteq S
<1> SUFFICES ASSUME NEW n \in Nat, n \notin S PROVE FALSE
    OBVIOUS
<1> DEFINE T == {m \in 0 .. n : m \notin S}
           U == T \ {n}
           g == [m \in T |-> m - 1]
<1>1. g \in [T -> U]
    OBVIOUS
<1>2. \A x, y \in T : x # y => g[x] # g[y]
    OBVIOUS
<1>3. n \in T /\ T \in SUBSET (0 .. n)
    OBVIOUS
<1> HIDE DEF T, g
<1>4. IsFiniteSet(T)
    <2>1. IsFiniteSet(0 .. n)
        BY FS_Interval
    <2> QED
        BY <2>1, <1>3, FS_Subset
<1>5. IsFiniteSet(U) /\ Cardinality(U) = Cardinality(T) - 1 /\ Cardinality(T) \in Nat
    BY <1>3, <1>4, FS_RemoveElement, FS_CardinalityType
<1>6. Cardinality(U) < Cardinality(T)
    BY <1>5
<1> HIDE DEF U
<1>7. \E x, y \in T : x # y /\ g[x] = g[y]
    BY <1>1, <1>4, <1>5, <1>6, FS_PigeonHole
<1> QED
    BY <1>2, <1>7

(* A set of natural numbers that is not empty has a least one. *)
LEMMA LeastOf ==
    ASSUME NEW S, S \subseteq Nat, S # {}
    PROVE  \E x \in S : \A y \in S : x <= y
<1> SUFFICES ASSUME \A x \in S : \E y \in S : ~(x <= y) PROVE FALSE
    OBVIOUS
<1> DEFINE B == {n \in Nat : \A y \in S : n <= y}
<1>1. 0 \in B
    OBVIOUS
<1>2. \A n \in Nat : n \in B => n + 1 \in B
    <2> TAKE n \in Nat
    <2> HAVE n \in B
    <2>1. n \notin S
        OBVIOUS
    <2> QED
        BY <2>1
<1>3. Nat \subseteq B
    <2> HIDE DEF B
    <2> QED BY <1>1, <1>2, NatSet
<1>4. PICK x \in S : TRUE
    OBVIOUS
<1>5. x + 1 \in B
    BY <1>3
<1> QED
    BY <1>5

(* A set of them that is bounded has a greatest one. *)
LEMMA GreatestOf ==
    ASSUME NEW n \in Nat, NEW S, S \subseteq 0 .. n, S # {}
    PROVE  \E x \in S : \A y \in S : y <= x
<1> DEFINE T == {n - x : x \in S}
<1>1. T \subseteq Nat /\ T # {}
    <2>1. \A x \in S : n - x \in Nat
        OBVIOUS
    <2>2. PICK x \in S : TRUE
        OBVIOUS
    <2>3. n - x \in T
        OBVIOUS
    <2> QED
        BY <2>1, <2>3
<1>2. PICK t \in T : \A u \in T : t <= u
    BY <1>1, LeastOf
<1>3. PICK x \in S : t = n - x
    BY <1>2
<1>4. ASSUME NEW y \in S PROVE y <= x
    <2>1. n - y \in T
        OBVIOUS
    <2> QED
        BY <1>2, <1>3, <2>1
<1> QED
    BY <1>4

(* A finite set of numbers can be put in order: each has its place by how many are *)
(* not above it.                                                                   *)
LEMMA AscendingList ==
    ASSUME NEW S \in SUBSET Nat, IsFiniteSet(S)
    PROVE  /\ Cardinality(S) \in Nat
           /\ \E f \in [1 .. Cardinality(S) -> S] : \A i, j \in DOMAIN f : i < j => f[i] < f[j]
<1> DEFINE n == Cardinality(S)
           below(x) == {y \in S : y <= x}
           rank == [x \in S |-> Cardinality(below(x))]
<1>0. \A x \in S : x \in Nat
    OBVIOUS
<1>1. n \in Nat
    BY FS_CardinalityType
<1>2. ASSUME NEW x \in S
      PROVE  IsFiniteSet(below(x)) /\ Cardinality(below(x)) \in 1 .. n
    <2>1. below(x) \in SUBSET S /\ x \in below(x)
        OBVIOUS
    <2> HIDE DEF below
    <2>2. IsFiniteSet(below(x)) /\ Cardinality(below(x)) <= n
        BY <2>1, FS_Subset
    <2>3. Cardinality(below(x)) \in Nat /\ Cardinality(below(x)) # 0
        BY <2>1, <2>2, FS_CardinalityType, FS_EmptySet
    <2> QED
        BY <1>1, <2>2, <2>3
<1>3. ASSUME NEW x \in S, NEW y \in S, x < y
      PROVE  Cardinality(below(x)) < Cardinality(below(y))
    <2>1. below(x) \in SUBSET below(y) /\ y \in below(y) /\ y \notin below(x)
        <3>1. x \in Nat /\ y \in Nat /\ x < y
            BY <1>0, <1>3
        <3>2. \A z \in S : z \in Nat /\ (z <= x => z <= y)
            BY <1>0, <3>1
        <3>3. \A z \in below(x) : z \in below(y)
            BY <3>2
        <3>4. y \in below(y) /\ y \notin below(x)
            BY <3>1
        <3> HIDE DEF below
        <3> QED
            BY <3>3, <3>4
    <2>2. IsFiniteSet(below(y)) /\ IsFiniteSet(below(x))
        BY <1>2
    <2> HIDE DEF below
    <2>3. below(x) \in SUBSET (below(y) \ {y})
        BY <2>1
    <2>4. IsFiniteSet(below(y) \ {y}) /\ Cardinality(below(y) \ {y}) = Cardinality(below(y)) - 1
        BY <2>1, <2>2, FS_RemoveElement
    <2>5. Cardinality(below(x)) <= Cardinality(below(y) \ {y})
        BY <2>3, <2>4, FS_Subset
    <2>6. Cardinality(below(x)) \in Nat /\ Cardinality(below(y)) \in Nat
        BY <2>2, FS_CardinalityType
    <2> QED
        BY <2>4, <2>5, <2>6
<1> HIDE DEF below
<1>4. rank \in [S -> 1 .. n] /\ \A x, y \in S : x < y => rank[x] < rank[y]
    BY <1>2, <1>3
<1> HIDE DEF rank
<1>5. \A x, y \in S : rank[x] = rank[y] => x = y
    BY <1>1, <1>4
<1>6. IsFiniteSet(1 .. n) /\ Cardinality(1 .. n) = n
    BY <1>1, FS_Interval
<1>7. rank \in Injection(S, 1 .. n)
    BY <1>4, <1>5 DEF Injection, IsInjective
<1>8. rank \in Surjection(S, 1 .. n)
    BY <1>6, <1>7, FS_Injection
<1>9. \A i \in 1 .. n : \E x \in S : rank[x] = i
    BY <1>8 DEF Surjection
<1> DEFINE g == [i \in 1 .. n |-> CHOOSE x \in S : rank[x] = i]
<1>10. \A i \in 1 .. n : g[i] \in S /\ rank[g[i]] = i
    BY <1>9
<1>11. g \in [1 .. n -> S] /\ DOMAIN g = 1 .. n
    BY <1>10
<1> HIDE DEF g
<1>12. ASSUME NEW i \in DOMAIN g, NEW j \in DOMAIN g, i < j
       PROVE  g[i] < g[j]
    <2>1. /\ i \in 1 .. n /\ j \in 1 .. n
          /\ g[i] \in S /\ g[j] \in S /\ g[i] \in Nat /\ g[j] \in Nat
        BY <1>0, <1>10, <1>11
    <2>2. g[j] < g[i] => j < i
        BY <1>4, <1>10, <2>1
    <2>3. g[i] = g[j] => i = j
        BY <1>10, <2>1
    <2> QED
        BY <1>1, <1>12, <2>1, <2>2, <2>3
<1> QED
    BY <1>1, <1>11, <1>12

-----------------------------------------------------------------------------
(* Lists of anything *)

IsList(s) == \E T : s \in Seq(T)

LEMMA EmptyList == IsList(<<>>) /\ Len(<<>>) = 0 /\ DOMAIN <<>> = {}
<1>1. <<>> \in Seq({})
    OBVIOUS
<1> QED
    BY <1>1 DEF IsList

LEMMA ListDomain == ASSUME NEW s, IsList(s) PROVE Len(s) \in Nat /\ DOMAIN s = 1 .. Len(s)
    BY DEF IsList

LEMMA Appended ==
    ASSUME NEW s, IsList(s), NEW x
    PROVE  /\ IsList(Append(s, x))
           /\ Len(Append(s, x)) = Len(s) + 1
           /\ DOMAIN Append(s, x) = DOMAIN s \cup {Len(s) + 1}
           /\ Len(s) + 1 \notin DOMAIN s
           /\ Append(s, x)[Len(s) + 1] = x
           /\ \A i \in DOMAIN s : Append(s, x)[i] = s[i]
           /\ Last(Append(s, x)) = x
<1>1. PICK T : s \in Seq(T)
    BY DEF IsList
<1>2. s \in Seq(T \cup {x}) /\ x \in T \cup {x}
    BY <1>1
<1>3. Append(s, x) \in Seq(T \cup {x}) /\ Len(Append(s, x)) = Len(s) + 1
    BY <1>2, AppendProperties
<1>4. \A i \in 1 .. Len(s) : Append(s, x)[i] = s[i]
    BY <1>2, AppendProperties
<1>5. Append(s, x)[Len(s) + 1] = x
    BY <1>2, AppendProperties
<1>6. Len(s) \in Nat /\ DOMAIN s = 1 .. Len(s)
    BY <1>2
<1>7. DOMAIN Append(s, x) = 1 .. Len(s) + 1
    BY <1>3
<1> QED
    BY <1>3, <1>4, <1>5, <1>6, <1>7 DEF IsList, Last

LEMMA Joined ==
    ASSUME NEW s, IsList(s), NEW t, IsList(t)
    PROVE  /\ IsList(s \o t)
           /\ Len(s \o t) = Len(s) + Len(t)
           /\ \A i \in DOMAIN s : i \in DOMAIN (s \o t) /\ (s \o t)[i] = s[i]
           /\ \A i \in DOMAIN t : Len(s) + i \in DOMAIN (s \o t) /\ (s \o t)[Len(s) + i] = t[i]
           /\ \A i \in DOMAIN (s \o t) : i \in DOMAIN s \/ i - Len(s) \in DOMAIN t
<1>1. PICK S : s \in Seq(S)
    BY DEF IsList
<1>2. PICK T : t \in Seq(T)
    BY DEF IsList
<1>3. s \in Seq(S \cup T) /\ t \in Seq(S \cup T)
    BY <1>1, <1>2
<1>4. /\ s \o t \in Seq(S \cup T) /\ Len(s \o t) = Len(s) + Len(t)
      /\ \A i \in 1 .. Len(s) + Len(t) : (s \o t)[i] = IF i <= Len(s) THEN s[i] ELSE t[i - Len(s)]
    BY <1>3, ConcatProperties
<1>5. /\ Len(s) \in Nat /\ DOMAIN s = 1 .. Len(s)
      /\ Len(t) \in Nat /\ DOMAIN t = 1 .. Len(t)
      /\ DOMAIN (s \o t) = 1 .. Len(s) + Len(t)
    BY <1>3, <1>4
<1> DEFINE u == s \o t
<1> HIDE DEF u
<1>6. \A i \in DOMAIN t : Len(s) + i \in 1 .. Len(s) + Len(t) /\ ~(Len(s) + i <= Len(s)) /\ (Len(s) + i) - Len(s) = i
    BY <1>5
<1> QED
    BY <1>4, <1>5, <1>6 DEF IsList

-----------------------------------------------------------------------------
(* Sums: what a fold that adds comes to, in whatever order it takes the places. *)

(* The values of the places in T, added from the first to the last. *)
AddsUp(v, n, T, p) ==
    /\ p \in [0 .. n -> Nat] /\ p[0] = 0
    /\ \A i \in 1 .. n : p[i] = p[i - 1] + (IF i \in T THEN v[i] ELSE 0)

Sum(v, n, T) == CHOOSE t \in Nat : \E p : AddsUp(v, n, T, p) /\ p[n] = t

LEMMA SumsExist ==
    ASSUME NEW n \in Nat, NEW v \in [1 .. n -> Nat], NEW T
    PROVE  \E p : AddsUp(v, n, T, p)
<1> DEFINE S == {k \in Nat : k <= n => \E p : AddsUp(v, k, T, p)}
<1>1. 0 \in S
    <2>1. AddsUp(v, 0, T, [i \in 0 .. 0 |-> 0])
        BY DEF AddsUp
    <2> QED
        BY <2>1
<1>2. ASSUME NEW k \in Nat, k \in S
      PROVE  k + 1 \in S
    <2> SUFFICES ASSUME k + 1 <= n PROVE \E p : AddsUp(v, k + 1, T, p)
        OBVIOUS
    <2>1. PICK p : AddsUp(v, k, T, p)
        BY <1>2
    <2> DEFINE more == IF k + 1 \in T THEN v[k + 1] ELSE 0
               q == [i \in 0 .. k + 1 |-> IF i = k + 1 THEN p[k] + more ELSE p[i]]
    <2>2. k + 1 \in 1 .. n /\ v[k + 1] \in Nat
        OBVIOUS
    <2>3. more \in Nat /\ p[k] \in Nat
        BY <2>1, <2>2 DEF AddsUp
    <2>4. q \in [0 .. k + 1 -> Nat] /\ q[0] = 0
        BY <2>1, <2>3 DEF AddsUp
    <2>5. ASSUME NEW i \in 1 .. k + 1
          PROVE  q[i] = q[i - 1] + (IF i \in T THEN v[i] ELSE 0)
        <3>1. CASE i = k + 1
            <4>1. q[i] = p[k] + more /\ q[i - 1] = p[k]
                BY <3>1
            <4> QED
                BY <3>1, <4>1
        <3>2. CASE i # k + 1
            <4>1. i \in 1 .. k /\ q[i] = p[i] /\ q[i - 1] = p[i - 1]
                BY <3>2
            <4> QED
                BY <2>1, <4>1 DEF AddsUp
        <3> QED
            BY <3>1, <3>2
    <2> QED
        BY <2>4, <2>5 DEF AddsUp
<1> HIDE DEF S
<1>3. Nat \subseteq S
    BY <1>1, <1>2, NatSet
<1> QED
    BY <1>3 DEF S

LEMMA SumsAgree ==
    ASSUME NEW n \in Nat, NEW v, NEW T, NEW p, NEW q, AddsUp(v, n, T, p), AddsUp(v, n, T, q)
    PROVE  p[n] = q[n]
<1> DEFINE S == {k \in Nat : k <= n => p[k] = q[k]}
<1>1. 0 \in S
    BY DEF AddsUp
<1>2. ASSUME NEW k \in Nat, k \in S
      PROVE  k + 1 \in S
    <2> SUFFICES ASSUME k + 1 <= n PROVE p[k + 1] = q[k + 1]
        OBVIOUS
    <2>1. k + 1 \in 1 .. n /\ (k + 1) - 1 = k /\ p[k] = q[k]
        BY <1>2
    <2> QED
        BY <2>1 DEF AddsUp
<1> HIDE DEF S
<1>3. n \in S
    BY <1>1, <1>2, NatSet
<1> QED
    BY <1>3 DEF S

LEMMA SumIs ==
    ASSUME NEW n \in Nat, NEW v \in [1 .. n -> Nat], NEW T, NEW p, AddsUp(v, n, T, p)
    PROVE  Sum(v, n, T) = p[n] /\ Sum(v, n, T) \in Nat
<1>1. p[n] \in Nat
    BY DEF AddsUp
<1>2. /\ Sum(v, n, T) \in Nat
      /\ \E q : AddsUp(v, n, T, q) /\ q[n] = Sum(v, n, T)
    BY <1>1 DEF Sum
<1> QED
    BY <1>2, SumsAgree

LEMMA SumOfNone == ASSUME NEW n \in Nat, NEW v \in [1 .. n -> Nat] PROVE Sum(v, n, {}) = 0
<1>1. AddsUp(v, n, {}, [i \in 0 .. n |-> 0])
    BY DEF AddsUp
<1> QED
    BY <1>1, SumIs

LEMMA SumWithOne ==
    ASSUME NEW n \in Nat, NEW v \in [1 .. n -> Nat], NEW T, NEW x \in 1 .. n, x \notin T
    PROVE  Sum(v, n, T \cup {x}) = Sum(v, n, T) + v[x]
<1>1. PICK p : AddsUp(v, n, T, p)
    BY SumsExist
<1> DEFINE q == [i \in 0 .. n |-> IF i < x THEN p[i] ELSE p[i] + v[x]]
<1>2. p \in [0 .. n -> Nat] /\ p[0] = 0 /\ v[x] \in Nat /\ \A i \in 0 .. n : p[i] \in Nat
    BY <1>1 DEF AddsUp
<1>3. q \in [0 .. n -> Nat] /\ q[0] = 0
    BY <1>2
<1>4. ASSUME NEW i \in 1 .. n
      PROVE  q[i] = q[i - 1] + (IF i \in T \cup {x} THEN v[i] ELSE 0)
    <2>1. /\ p[i] = p[i - 1] + (IF i \in T THEN v[i] ELSE 0)
          /\ p[i] \in Nat /\ p[i - 1] \in Nat /\ v[i] \in Nat
        BY <1>1, <1>2 DEF AddsUp
    <2>2. CASE i < x
        BY <2>1, <2>2
    <2>3. CASE i = x
        <3>1. q[i] = p[i] + v[x] /\ q[i - 1] = p[i - 1] /\ p[i] = p[i - 1]
            BY <2>1, <2>3
        <3> QED
            BY <1>2, <2>3, <2>1, <3>1
    <2>4. CASE i > x
        <3>1. q[i] = p[i] + v[x] /\ q[i - 1] = p[i - 1] + v[x]
            BY <2>1, <2>4
        <3>2. i \in T \cup {x} <=> i \in T
            BY <2>4
        <3> QED
            BY <1>2, <2>1, <3>1, <3>2
    <2> QED
        BY <2>2, <2>3, <2>4
<1>5. AddsUp(v, n, T \cup {x}, q)
    BY <1>3, <1>4 DEF AddsUp
<1>6. q[n] = p[n] + v[x]
    OBVIOUS
<1> QED
    BY <1>1, <1>5, <1>6, SumIs

LEMMA SumWithNext ==
    ASSUME NEW n \in Nat, NEW v \in [1 .. n -> Nat], NEW w \in [1 .. n + 1 -> Nat],
           \A i \in 1 .. n : w[i] = v[i]
    PROVE  Sum(w, n + 1, 1 .. n + 1) = Sum(v, n, 1 .. n) + w[n + 1]
<1>1. PICK p : AddsUp(w, n + 1, 1 .. n + 1, p)
    BY SumsExist
<1> DEFINE q == [i \in 0 .. n |-> p[i]]
<1>2. AddsUp(v, n, 1 .. n, q)
    <2>1. q \in [0 .. n -> Nat] /\ q[0] = 0
        BY <1>1 DEF AddsUp
    <2>2. ASSUME NEW i \in 1 .. n
          PROVE  q[i] = q[i - 1] + v[i]
        <3>1. i \in 1 .. n + 1 /\ i - 1 \in 0 .. n /\ i \in 0 .. n
            OBVIOUS
        <3> QED
            BY <1>1, <3>1 DEF AddsUp
    <2> QED
        BY <2>1, <2>2 DEF AddsUp
<1>3. p[n + 1] = p[(n + 1) - 1] + w[n + 1]
    BY <1>1 DEF AddsUp
<1>4. q[n] = p[n] /\ (n + 1) - 1 = n
    OBVIOUS
<1> HIDE DEF q
<1>5. Sum(v, n, 1 .. n) = p[n]
    BY <1>2, <1>4, SumIs
<1>6. Sum(w, n + 1, 1 .. n + 1) = p[n + 1]
    BY <1>1, SumIs
<1> QED
    BY <1>3, <1>4, <1>5, <1>6

(* What is added at the end counts for nothing. *)
LEMMA SumPadded ==
    ASSUME NEW n \in Nat, NEW v \in [1 .. n -> Nat], NEW m \in Nat, n <= m, NEW w \in [1 .. m -> Nat],
           \A i \in 1 .. m : w[i] = IF i <= n THEN v[i] ELSE 0
    PROVE  Sum(w, m, 1 .. m) = Sum(v, n, 1 .. n)
<1>1. PICK p : AddsUp(v, n, 1 .. n, p)
    BY SumsExist
<1> DEFINE q == [i \in 0 .. m |-> IF i <= n THEN p[i] ELSE p[n]]
<1>2. q \in [0 .. m -> Nat] /\ q[0] = 0
    BY <1>1 DEF AddsUp
<1>3. ASSUME NEW i \in 1 .. m
      PROVE  q[i] = q[i - 1] + w[i]
    <2>1. CASE i <= n
        <3>1. i \in 1 .. n /\ q[i] = p[i] /\ q[i - 1] = p[i - 1] /\ w[i] = v[i]
            BY <2>1
        <3> QED
            BY <1>1, <3>1 DEF AddsUp
    <2>2. CASE i > n
        <3>0. i - 1 \in 0 .. m /\ (i - 1 = n \/ i - 1 > n) /\ ~(i <= n)
            BY <2>2
        <3>1. q[i] = p[n] /\ q[i - 1] = p[n] /\ w[i] = 0
            BY <3>0
        <3>2. p[n] \in Nat
            BY <1>1 DEF AddsUp
        <3> QED
            BY <3>1, <3>2
    <2> QED
        BY <2>1, <2>2
<1>4. AddsUp(w, m, 1 .. m, q)
    BY <1>2, <1>3 DEF AddsUp
<1>5. q[m] = p[n]
    OBVIOUS
<1> HIDE DEF q
<1> QED
    BY <1>1, <1>4, <1>5, SumIs

(* What MapThenFoldSet defines recursively: the sum of a set of places, each of which *)
(* is taken from it in its turn.                                                      *)
Taken(T) == CHOOSE x \in T : TRUE

SumsOf(v, n) == [T \in SUBSET (1 .. n) |-> Sum(v, n, T)]

LEMMA SumIsNat == ASSUME NEW n \in Nat, NEW v \in [1 .. n -> Nat], NEW T PROVE Sum(v, n, T) \in Nat
    BY SumsExist, SumIs

LEMMA SumsFold ==
    ASSUME NEW n \in Nat, NEW v \in [1 .. n -> Nat], NEW T \in SUBSET (1 .. n)
    PROVE  /\ T = {} => SumsOf(v, n)[T] = 0
           /\ T # {} => /\ SumsOf(v, n)[T] = SumsOf(v, n)[T \ {Taken(T)}] + v[Taken(T)]
                        /\ SumsOf(v, n)[T \ {Taken(T)}] \in Nat
                        /\ Taken(T) \in 1 .. n
<1>1. CASE T = {}
    BY <1>1, SumOfNone DEF SumsOf
<1>2. CASE T # {}
    <2> DEFINE x == Taken(T)
               R == T \ {x}
    <2>1. x \in T
        BY <1>2 DEF Taken
    <2> HIDE DEF x
    <2>2. R \in SUBSET (1 .. n) /\ x \in 1 .. n /\ x \notin R /\ T = R \cup {x}
        BY <2>1
    <2> HIDE DEF R
    <2>3. Sum(v, n, T) = Sum(v, n, R) + v[x]
        BY <2>2, SumWithOne
    <2>4. SumsOf(v, n)[T] = Sum(v, n, T) /\ SumsOf(v, n)[R] = Sum(v, n, R) /\ Sum(v, n, R) \in Nat
        BY <2>2, SumIsNat DEF SumsOf
    <2> QED
        BY <1>2, <2>2, <2>3, <2>4 DEF R, x
<1> QED
    BY <1>1, <1>2

LEMMA FoldsAreSums ==
    ASSUME NEW n \in Nat, NEW v \in [1 .. n -> Nat], NEW it, it[{}] = 0,
           \A T \in SUBSET (1 .. n) :
              T # {} /\ it[T \ {Taken(T)}] \in Nat => it[T] = it[T \ {Taken(T)}] + v[Taken(T)]
    PROVE  it[1 .. n] = Sum(v, n, 1 .. n)
<1> DEFINE S == {k \in Nat : \A T \in SUBSET (1 .. n) : Cardinality(T) = k => it[T] = Sum(v, n, T)}
<1>0. \A T \in SUBSET (1 .. n) : IsFiniteSet(T)
    <2>1. IsFiniteSet(1 .. n)
        BY FS_Interval
    <2> QED
        BY <2>1, FS_Subset
<1>1. 0 \in S
    <2> SUFFICES ASSUME NEW T \in SUBSET (1 .. n), Cardinality(T) = 0 PROVE it[T] = Sum(v, n, T)
        OBVIOUS
    <2>1. T = {}
        BY <1>0, FS_EmptySet
    <2> QED
        BY <2>1, SumOfNone
<1>2. ASSUME NEW k \in Nat, k \in S
      PROVE  k + 1 \in S
    <2> SUFFICES ASSUME NEW T \in SUBSET (1 .. n), Cardinality(T) = k + 1 PROVE it[T] = Sum(v, n, T)
        OBVIOUS
    <2> DEFINE x == Taken(T)
               R == T \ {x}
    <2>1. T # {} /\ IsFiniteSet(T)
        BY <1>0, FS_EmptySet
    <2>2. x \in T
        BY <2>1 DEF Taken
    <2>3. it[R] \in Nat => it[T] = it[R] + v[x]
        BY <2>1
    <2> HIDE DEF x
    <2>4. R \in SUBSET (1 .. n) /\ x \in 1 .. n /\ x \notin R /\ T = R \cup {x}
        BY <2>2
    <2>5. Cardinality(R) = k
        <3>1. Cardinality(T \ {x}) = Cardinality(T) - 1
            BY <2>1, <2>2, FS_RemoveElement
        <3> QED
            BY <3>1
    <2> HIDE DEF R
    <2>6. it[R] = Sum(v, n, R) /\ Sum(v, n, R) \in Nat
        BY <1>2, <2>4, <2>5, SumIsNat
    <2>7. Sum(v, n, T) = Sum(v, n, R) + v[x]
        BY <2>4, SumWithOne
    <2> QED
        BY <2>3, <2>6, <2>7
<1> HIDE DEF S
<1>3. Nat \subseteq S
    BY <1>1, <1>2, NatSet
<1>4. n \in S
    BY <1>3
<1>5. Cardinality(1 .. n) = n
    BY FS_Interval
<1> QED
    BY <1>4, <1>5 DEF S

-----------------------------------------------------------------------------
(* A sequence without one of its places. *)
LEMMA RemovedPlace ==
    ASSUME NEW S, NEW s \in Seq(S), NEW i \in DOMAIN s
    PROVE  /\ RemoveAt(s, i) \in Seq(S)
           /\ Len(RemoveAt(s, i)) = Len(s) - 1
           /\ \A j \in DOMAIN RemoveAt(s, i) :
                 \E k \in DOMAIN s : RemoveAt(s, i)[j] = s[k]
  <1>0. i \in 1 .. Len(s) /\ Len(s) \in Nat /\ \A k \in 1 .. Len(s) : s[k] \in S
    OBVIOUS
  <1> DEFINE a == SubSeq(s, 1, i - 1)
             b == SubSeq(s, i + 1, Len(s))
  <1>1. /\ a \in Seq(S) /\ Len(a) = i - 1
        /\ \A j \in 1 .. i - 1 : a[j] = s[j]
    <2>1. \A k \in 1 .. i - 1 : s[k] \in S
      BY <1>0
    <2>2. i - 1 \in Int /\ 1 \in Int /\ (i - 1) - 1 + 1 = i - 1
      BY <1>0
    <2>3. /\ a \in Seq(S)
          /\ Len(a) = IF 1 <= i - 1 THEN (i - 1) - 1 + 1 ELSE 0
          /\ \A j \in 1 .. (i - 1) - 1 + 1 : a[j] = s[1 + j - 1]
      BY <2>1, <2>2, SubSeqProperties
    <2> QED BY <1>0, <2>3
  <1>2. /\ b \in Seq(S) /\ Len(b) = Len(s) - i
        /\ \A j \in 1 .. Len(s) - i : b[j] = s[i + j]
    <2>1. \A k \in i + 1 .. Len(s) : s[k] \in S
      BY <1>0
    <2>2. i + 1 \in Int /\ Len(s) \in Int
      BY <1>0
    <2>3. /\ b \in Seq(S)
          /\ Len(b) = IF i + 1 <= Len(s) THEN Len(s) - (i + 1) + 1 ELSE 0
          /\ \A j \in 1 .. Len(s) - (i + 1) + 1 : b[j] = s[(i + 1) + j - 1]
      BY <2>1, <2>2, SubSeqProperties
    <2> QED BY <1>0, <2>3
  <1>3. RemoveAt(s, i) = a \o b
    BY DEF RemoveAt
  <1> HIDE DEF a, b
  <1>4. /\ a \o b \in Seq(S) /\ Len(a \o b) = Len(a) + Len(b)
        /\ \A j \in 1 .. Len(a) + Len(b) :
              (a \o b)[j] = IF j <= Len(a) THEN a[j] ELSE b[j - Len(a)]
    BY <1>1, <1>2, ConcatProperties
  <1>5. ASSUME NEW j \in DOMAIN (a \o b)
        PROVE  \E k \in DOMAIN s : (a \o b)[j] = s[k]
    <2>1. j \in 1 .. Len(s) - 1
      BY <1>0, <1>1, <1>2, <1>4, <1>5
    <2>2. CASE j <= i - 1
      <3>1. (a \o b)[j] = s[j] /\ j \in DOMAIN s
        BY <1>0, <1>1, <1>2, <1>4, <2>1, <2>2
      <3> QED BY <3>1
    <2>3. CASE ~(j <= i - 1)
      <3>0. j \in 1 .. Len(a) + Len(b) /\ ~(j <= Len(a))
        BY <1>0, <1>1, <1>2, <2>1, <2>3
      <3>1. (a \o b)[j] = b[j - Len(a)] /\ j - (i - 1) \in 1 .. Len(s) - i
            /\ Len(a) = i - 1
        BY <1>0, <1>1, <1>4, <2>1, <2>3, <3>0
      <3>2. (a \o b)[j] = s[j + 1] /\ j + 1 \in DOMAIN s
        BY <1>0, <1>2, <2>1, <3>1
      <3> QED BY <3>2
    <2> QED BY <2>2, <2>3
  <1>6. Len(a \o b) = Len(s) - 1
    BY <1>0, <1>1, <1>2, <1>4
  <1> QED BY <1>3, <1>4, <1>5, <1>6

(* What is left without the first of its kind. *)
LEMMA RemovedFirst ==
    ASSUME NEW S, NEW s \in Seq(S), NEW e
    PROVE  /\ RemoveFirst(s, e) \in Seq(S)
           /\ \/ RemoveFirst(s, e) = s
              \/ Len(RemoveFirst(s, e)) = Len(s) - 1
<1> DEFINE I == {i \in 1 .. Len(s) : s[i] = e}
<1>1. CASE I = {}
    BY <1>1 DEF RemoveFirst
<1>2. CASE I # {}
    <2>1. PICK x \in I : \A y \in I : x <= y
        <3>1. I \subseteq Nat
            OBVIOUS
        <3> QED
            BY <1>2, <3>1, LeastOf
    <2>2. Min(I) \in I
        BY <2>1 DEF Min
    <2>3. SelectInSeq(s, LAMBDA v : v = e) = Min(I)
        BY <1>2 DEF SelectInSeq
    <2>4. RemoveFirst(s, e) = RemoveAt(s, Min(I))
        BY <1>2, <2>3 DEF RemoveFirst
    <2> QED
        BY <2>2, <2>4, RemovedPlace
<1> QED
    BY <1>1, <1>2

(* Lists in a list, joined one after another, are a list of what they hold. *)
LEMMA FlattenedList ==
    ASSUME NEW T, NEW ss \in Seq(Seq(T))
    PROVE  FlattenSeq(ss) \in Seq(T)
<1> DEFINE n == Len(ss)
           next(g, i) == IF i = 1 THEN ss[i] ELSE g[i - 1] \o ss[i]
           f == CHOOSE g : g = [i \in 1 .. n |-> next(g, i)]
           upto(g, m) == g \in [1 .. m -> Seq(T)] /\ \A i \in 1 .. m : g[i] = next(g, i)
<1>0. n \in Nat /\ \A i \in 1 .. n : ss[i] \in Seq(T)
    OBVIOUS
<1>1. CASE n = 0
    <2>1. FlattenSeq(ss) = ss
        BY <1>1 DEF FlattenSeq
    <2>2. ss = <<>>
        BY <1>1, EmptySeq
    <2> QED
        BY <2>1, <2>2, EmptySeq
<1>2. CASE n # 0
    <2>1. FlattenSeq(ss) = f[n]
        BY <1>2 DEF FlattenSeq
    <2> HIDE DEF f, n
    <2>2. ASSUME NEW g, NEW m \in Nat, m + 1 <= n, upto(g, m)
          PROVE  next(g, m + 1) \in Seq(T)
        <3>1. ss[m + 1] \in Seq(T)
            BY <1>0, <2>2
        <3>2. m # 0 => g[m] \in Seq(T)
            BY <2>2
        <3>3. CASE m = 0
            BY <3>1, <3>3
        <3>4. CASE m # 0
            <4>1. g[m] \o ss[m + 1] \in Seq(T)
                BY <3>1, <3>2, <3>4, ConcatProperties
            <4>2. (m + 1) - 1 = m /\ m + 1 # 1
                BY <3>4
            <4> QED
                BY <4>1, <4>2
        <3> QED
            BY <3>3, <3>4
    <2>3. ASSUME NEW m \in Nat, m + 1 <= n, NEW g, upto(g, m)
          PROVE  \E h : upto(h, m + 1)
        <3> DEFINE last == next(g, m + 1)
                   h == [i \in 1 .. m + 1 |-> IF i = m + 1 THEN last ELSE g[i]]
        <3>1. last \in Seq(T)
            BY <2>2, <2>3
        <3> HIDE DEF last
        <3>2. h \in [1 .. m + 1 -> Seq(T)]
            BY <2>3, <3>1
        <3>3. ASSUME NEW i \in 1 .. m + 1 PROVE h[i] = next(h, i)
            <4>1. i # 1 => i - 1 \in 1 .. m /\ h[i - 1] = g[i - 1]
                BY <2>3
            <4>2. next(h, i) = next(g, i)
                BY <4>1
            <4>3. CASE i = m + 1
                BY <4>2, <4>3 DEF last
            <4>4. CASE i # m + 1
                <5>1. i \in 1 .. m /\ h[i] = g[i]
                    BY <2>3, <4>4
                <5>2. g[i] = next(g, i)
                    BY <2>3, <5>1
                <5> QED
                    BY <4>2, <5>1, <5>2
            <4> QED
                BY <4>3, <4>4
        <3> HIDE DEF h
        <3>4. upto(h, m + 1)
            BY <3>2, <3>3
        <3> QED
            BY <3>4
    <2> DEFINE S == {m \in Nat : m <= n => \E g : upto(g, m)}
    <2>4. 0 \in S
        <3> DEFINE g == [i \in 1 .. 0 |-> ss[i]]
        <3>1. g \in [1 .. 0 -> Seq(T)] /\ \A i \in 1 .. 0 : g[i] = next(g, i)
            OBVIOUS
        <3> HIDE DEF g
        <3>2. upto(g, 0)
            BY <3>1
        <3> QED
            BY <3>2
    <2>5. \A m \in Nat : m \in S => m + 1 \in S
        <3> HIDE DEF upto
        <3> SUFFICES ASSUME NEW m \in Nat, m \in S, m + 1 <= n
                     PROVE  \E g : upto(g, m + 1)
            OBVIOUS
        <3>1. m <= n
            BY <1>0 DEF n
        <3>2. PICK g : upto(g, m)
            BY <3>1
        <3> QED
            BY <2>3, <3>2
    <2>6. PICK g : upto(g, n)
        <3>1. n \in S
            <4> HIDE DEF S
            <4> QED
                BY <1>0, <2>4, <2>5, NatSet
        <3> HIDE DEF upto
        <3> QED
            BY <3>1
    <2>7. g = [i \in 1 .. n |-> next(g, i)]
        BY <2>6
    <2>8. f = [i \in 1 .. n |-> next(f, i)]
        <3> DEFINE is(k) == k = [i \in 1 .. n |-> next(k, i)]
        <3>1. is(g)
            BY <2>7
        <3> HIDE DEF is
        <3>2. f = CHOOSE k : is(k)
            BY DEF f, is
        <3>3. is(f)
            BY <3>1, <3>2
        <3> QED
            BY <3>3 DEF is
    <2> DEFINE Q == {m \in Nat : m + 1 <= n => f[m + 1] \in Seq(T)}
    <2>9. \A i \in 1 .. n : f[i] = next(f, i)
        <3> DEFINE r(i) == next(f, i)
        <3>1. f = [i \in 1 .. n |-> r(i)]
            BY <2>8
        <3> HIDE DEF r
        <3>2. \A i \in 1 .. n : f[i] = r(i)
            BY <3>1
        <3> QED
            BY <3>2 DEF r
    <2>10. 0 \in Q
        <3> SUFFICES ASSUME 0 + 1 <= n PROVE f[0 + 1] \in Seq(T)
            OBVIOUS
        <3>1. 1 \in 1 .. n /\ ss[1] \in Seq(T)
            BY <1>0 DEF n
        <3> QED
            BY <2>9, <3>1
    <2>11. \A m \in Nat : m \in Q => m + 1 \in Q
        <3> SUFFICES ASSUME NEW m \in Nat, m \in Q, (m + 1) + 1 <= n
                     PROVE  f[(m + 1) + 1] \in Seq(T)
            OBVIOUS
        <3>1. f[m + 1] \in Seq(T) /\ ss[(m + 1) + 1] \in Seq(T)
            BY <1>0 DEF n
        <3>2. f[(m + 1) + 1] = f[m + 1] \o ss[(m + 1) + 1]
            <4>1. /\ (m + 1) + 1 \in 1 .. n /\ (m + 1) + 1 # 1
                  /\ ((m + 1) + 1) - 1 = m + 1
                BY <1>0 DEF n
            <4> QED
                BY <2>9, <4>1
        <3> QED
            BY <3>1, <3>2, ConcatProperties
    <2>12. f[n] \in Seq(T)
        <3>1. n - 1 \in Nat /\ (n - 1) + 1 = n
            BY <1>0, <1>2
        <3>2. n - 1 \in Q
            <4> HIDE DEF Q
            <4> QED
                BY <2>10, <2>11, <3>1, NatSet
        <3> QED
            BY <1>0, <3>1, <3>2
    <2> QED
        BY <2>1, <2>12
<1> QED
    BY <1>1, <1>2
=============================================================================
