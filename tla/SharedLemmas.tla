------------------------------ MODULE SharedLemmas ------------------------------
(***************************************************************************)
(* Induction over the natural numbers, stated for sets: the well-founded   *)
(* order of the finite sets, which the library proves, gives every         *)
(* nonempty set of naturals a least element, and that gives induction.     *)
(* From it follows what sums are: that the recursion which counts up a     *)
(* sequence or takes one element after another from a finite set has one   *)
(* solution, and that the order of the elements makes no difference; and   *)
(* that a finite set of numbers has an element of each rank.  Last, what   *)
(* the proofs of several components need of sequences.                     *)
(***************************************************************************)
EXTENDS Integers, TLAPS, FiniteSetTheorems, SequenceTheorems

\* A nonempty set of natural numbers has a least element.
LEMMA LeastNatural ==
  ASSUME NEW T, T \subseteq Nat, T # {}
  PROVE  \E x \in T : \A y \in T : x <= y
<1> DEFINE Below(n) == 0..(n - 1)
           F == {Below(n) : n \in T}
           R == StrictSubsetOrdering(Nat)
<1>1. F \subseteq FiniteSubsetsOf(Nat)
  <2> SUFFICES ASSUME NEW n \in T PROVE Below(n) \in FiniteSubsetsOf(Nat)
    OBVIOUS
  <2>1. n \in Nat /\ n - 1 \in Int /\ 0 \in Int
    OBVIOUS
  <2>2. IsFiniteSet(Below(n))
    BY <2>1, FS_Interval
  <2>3. Below(n) \subseteq Nat
    OBVIOUS
  <2> QED
    BY <2>2, <2>3 DEF FiniteSubsetsOf
<1>2. F # {}
  OBVIOUS
<1>3. IsWellFoundedOn(R, FiniteSubsetsOf(Nat))
  BY FS_StrictSubsetOrderingWellFounded
<1>4. PICK U \in F : \A V \in F : ~(<<V, U>> \in R)
  <2> HIDE DEF F, R
  <2> QED
    BY <1>1, <1>2, <1>3, WFMin
<1>5. PICK x \in T : U = Below(x)
  OBVIOUS
<1>6. ASSUME NEW y \in T, ~(x <= y) PROVE FALSE
  <2>1. /\ Below(y) \subseteq Below(x) /\ Below(x) \subseteq Nat
        /\ y \in Below(x) /\ y \notin Below(y)
    BY <1>6
  <2>2. <<Below(y), Below(x)>> \in R
    BY <2>1 DEF StrictSubsetOrdering
  <2> QED
    BY <1>4, <1>5, <2>2
<1> QED
  BY <1>5, <1>6

\* A set with zero and the successor of each natural number in it has them all.
LEMMA NatSetInduction ==
  ASSUME NEW T, 0 \in T, \A n \in Nat : n \in T => n + 1 \in T
  PROVE  Nat \subseteq T
<1> DEFINE B == {n \in Nat : n \notin T}
<1> SUFFICES ASSUME B # {} PROVE FALSE
  OBVIOUS
<1>1. PICK x \in B : \A y \in B : x <= y
  <2> B \subseteq Nat
    OBVIOUS
  <2> HIDE DEF B
  <2> QED
    BY LeastNatural
<1>2. x # 0 /\ x - 1 \in Nat /\ x - 1 \notin B
  BY <1>1
<1>3. x - 1 \in T
  BY <1>2
<1> QED
  BY <1>2, <1>3

\* A sum that counts up from zero exists and is unique: the function that adds
\* the terms of f one by one.
LEMMA RunningSum ==
  ASSUME NEW n \in Nat, NEW f, \A i \in 1..n : f[i] \in Int
  PROVE  \E s \in [0..n -> Int] :
           /\ s = [i \in 0..n |-> IF i = 0 THEN 0 ELSE s[i - 1] + f[i]]
           /\ \A t : t = [i \in 0..n |-> IF i = 0 THEN 0 ELSE t[i - 1] + f[i]] => t = s
<1> DEFINE Sums(s, m) == s = [i \in 0..m |-> IF i = 0 THEN 0 ELSE s[i - 1] + f[i]]
           T == {m \in Nat : m <= n => \E s \in [0..m -> Int] : Sums(s, m)}
<1>1. 0 \in T
  <2> DEFINE s == [i \in 0..0 |-> 0]
  <2>1. s \in [0..0 -> Int] /\ Sums(s, 0)
    OBVIOUS
  <2> HIDE DEF s
  <2> QED
    BY <2>1
<1>2. ASSUME NEW m \in Nat, m \in T PROVE m + 1 \in T
  <2> SUFFICES ASSUME m + 1 <= n PROVE \E s \in [0..(m + 1) -> Int] : Sums(s, m + 1)
    OBVIOUS
  <2>1. PICK r \in [0..m -> Int] : Sums(r, m)
    BY <1>2
  <2> DEFINE s == [i \in 0..(m + 1) |-> IF i = m + 1 THEN r[m] + f[m + 1] ELSE r[i]]
  <2>2. f[m + 1] \in Int /\ r[m] \in Int
    OBVIOUS
  <2>3. s \in [0..(m + 1) -> Int]
    BY <2>2
  <2>4. ASSUME NEW i \in 0..(m + 1) PROVE s[i] = IF i = 0 THEN 0 ELSE s[i - 1] + f[i]
    <3>1. CASE i = m + 1
      BY <3>1
    <3>2. CASE i # m + 1
      BY <2>1, <3>2
    <3> QED
      BY <3>1, <3>2
  <2>5. Sums(s, m + 1)
    BY <2>3, <2>4
  <2> HIDE DEF s
  <2> QED
    BY <2>3, <2>5
<1>3. PICK s \in [0..n -> Int] : Sums(s, n)
  <2> HIDE DEF Sums
  <2>1. Nat \subseteq T
    <3> HIDE DEF T
    <3> QED
      BY <1>1, <1>2, NatSetInduction
  <2> QED
    BY <2>1
<1>4. ASSUME NEW t, Sums(t, n) PROVE t = s
  <2> DEFINE E == {m \in Nat : m <= n => t[m] = s[m]}
  <2>1. 0 \in E
    BY <1>3, <1>4
  <2>2. ASSUME NEW m \in Nat, m \in E PROVE m + 1 \in E
    BY <1>3, <1>4, <2>2
  <2>3. Nat \subseteq E
    <3> HIDE DEF E
    <3> QED
      BY <2>1, <2>2, NatSetInduction
  <2>4. \A i \in 0..n : t[i] = s[i]
    BY <2>3
  <2>5. t = [i \in 0..n |-> t[i]] /\ s = [i \in 0..n |-> s[i]]
    BY <1>4
  <2> QED
    BY <2>4, <2>5
<1> QED
  BY <1>3, <1>4

--------------------------------------------------------------------------------
\* The functions by which a set is summed: from each subset one element is taken.
Chosen(s) == CHOOSE x \in s : TRUE
SumsUp(t, D, g) ==
  t = [s \in D |-> IF s = {} THEN 0 ELSE g[Chosen(s)] + t[s \ {Chosen(s)}]]
\* Terms that have a sum.
Summable(S, g) == IsFiniteSet(S) /\ \A x \in S : g[x] \in Int
\* The sum of a subset is that of an element, whichever, and of the others.
Adds(t, S, g) ==
  /\ t \in [SUBSET S -> Int] /\ t[{}] = 0
  /\ \A s \in SUBSET S : \A a \in s : t[s] = g[a] + t[s \ {a}]
SumOver(S, g) == (CHOOSE t : SumsUp(t, SUBSET S, g))[S]

\* Taking one element from a finite set.
LEMMA ChosenFacts ==
  ASSUME NEW S, IsFiniteSet(S), NEW s \in SUBSET S
  PROVE  /\ IsFiniteSet(s) /\ Cardinality(s) \in Nat /\ Cardinality(s) <= Cardinality(S)
         /\ s # {} => /\ Chosen(s) \in s /\ s \ {Chosen(s)} \in SUBSET S
                      /\ Cardinality(s \ {Chosen(s)}) = Cardinality(s) - 1
         /\ \A a \in s : Cardinality(s \ {a}) = Cardinality(s) - 1
         /\ Cardinality(s) <= 0 => s = {}
<1>1. IsFiniteSet(s) /\ Cardinality(s) \in Nat /\ Cardinality(s) <= Cardinality(S)
  BY FS_Subset, FS_CardinalityType
<1>2. \A a \in s : Cardinality(s \ {a}) = Cardinality(s) - 1
  BY <1>1, FS_RemoveElement
<1>3. s # {} => Chosen(s) \in s
  BY DEF Chosen
<1>4. Cardinality(s) = 0 => s = {}
  BY <1>1, FS_EmptySet
<1> QED
  BY <1>1, <1>2, <1>3, <1>4

\* Summing a finite set is a recursion with one solution.
LEMMA SetSum ==
  ASSUME NEW S, IsFiniteSet(S), NEW g, \A x \in S : g[x] \in Int
  PROVE  \E t \in [SUBSET S -> Int] :
           SumsUp(t, SUBSET S, g) /\ \A u : SumsUp(u, SUBSET S, g) => u = t
<1> DEFINE Small(n) == {s \in SUBSET S : Cardinality(s) <= n}
           T == {n \in Nat : \E t \in [Small(n) -> Int] : SumsUp(t, Small(n), g)}
<1>1. 0 \in T
  <2> DEFINE t == [s \in Small(0) |-> 0]
  <2>1. \A s \in Small(0) : s = {}
    BY ChosenFacts
  <2>2. t \in [Small(0) -> Int] /\ SumsUp(t, Small(0), g)
    BY <2>1 DEF SumsUp
  <2> HIDE DEF t
  <2> QED
    BY <2>2
<1>2. ASSUME NEW n \in Nat, n \in T PROVE n + 1 \in T
  <2>1. PICK t \in [Small(n) -> Int] : SumsUp(t, Small(n), g)
    BY <1>2
  <2> DEFINE u == [s \in Small(n + 1) |->
                     IF s = {} THEN 0 ELSE g[Chosen(s)] + t[s \ {Chosen(s)}]]
  <2>2. \A s \in Small(n + 1) : s # {} => s \ {Chosen(s)} \in Small(n) /\ g[Chosen(s)] \in Int
    BY ChosenFacts
  <2>3. \A s \in Small(n) : s \in Small(n + 1) /\ u[s] = t[s]
    <3> TAKE s \in Small(n)
    <3>1. s \in Small(n + 1)
      <4>1. Cardinality(s) \in Nat
        BY ChosenFacts
      <4> QED
        BY <4>1
    <3> QED
      BY <2>1, <3>1 DEF SumsUp
  <2>4. u \in [Small(n + 1) -> Int]
    BY <2>2
  <2>5. SumsUp(u, Small(n + 1), g)
    <3>1. \A s \in Small(n + 1) :
            u[s] = IF s = {} THEN 0 ELSE g[Chosen(s)] + u[s \ {Chosen(s)}]
      BY <2>2, <2>3
    <3> QED
      BY <2>4, <3>1 DEF SumsUp
  <2> HIDE DEF u, Small
  <2> QED
    BY <2>4, <2>5
<1>3. PICK t \in [SUBSET S -> Int] : SumsUp(t, SUBSET S, g)
  <2>1. Nat \subseteq T
    <3> HIDE DEF T
    <3> QED
      BY <1>1, <1>2, NatSetInduction
  <2>2. Cardinality(S) \in Nat /\ Small(Cardinality(S)) = SUBSET S
    BY ChosenFacts, FS_CardinalityType
  <2> HIDE DEF Small
  <2>3. Cardinality(S) \in T
    BY <2>1, <2>2
  <2> QED
    BY <2>2, <2>3
<1>4. ASSUME NEW u, SumsUp(u, SUBSET S, g) PROVE u = t
  <2> DEFINE E == {n \in Nat : \A s \in Small(n) : u[s] = t[s]}
  <2>1. 0 \in E
    <3>1. \A s \in Small(0) : s = {} /\ s \in SUBSET S
      BY ChosenFacts
    <3> QED
      BY <1>3, <1>4, <3>1 DEF SumsUp
  <2>2. ASSUME NEW n \in Nat, n \in E PROVE n + 1 \in E
    <3> SUFFICES ASSUME NEW s \in Small(n + 1) PROVE u[s] = t[s]
      OBVIOUS
    <3>1. s # {} => s \ {Chosen(s)} \in Small(n)
      BY ChosenFacts
    <3>2. s \in SUBSET S
      OBVIOUS
    <3>3. s # {} => u[s \ {Chosen(s)}] = t[s \ {Chosen(s)}]
      BY <2>2, <3>1
    <3>4. /\ u[s] = IF s = {} THEN 0 ELSE g[Chosen(s)] + u[s \ {Chosen(s)}]
          /\ t[s] = IF s = {} THEN 0 ELSE g[Chosen(s)] + t[s \ {Chosen(s)}]
      BY <1>3, <1>4, <3>2 DEF SumsUp
    <3> QED
      BY <3>3, <3>4
  <2>3. Nat \subseteq E
    <3> HIDE DEF E
    <3> QED
      BY <2>1, <2>2, NatSetInduction
  <2>4. \A s \in SUBSET S : u[s] = t[s]
    <3> TAKE s \in SUBSET S
    <3>1. Cardinality(s) \in E /\ s \in Small(Cardinality(s))
      BY <2>3, ChosenFacts
    <3> QED
      BY <3>1
  <2>5. u = [s \in SUBSET S |-> u[s]] /\ t = [s \in SUBSET S |-> t[s]]
    BY <1>3, <1>4 DEF SumsUp
  <2> QED
    BY <2>4, <2>5
<1> QED
  BY <1>3, <1>4

\* The sum does not depend on the order in which elements are taken.
LEMMA SumTakesAny ==
  ASSUME NEW S, NEW g, Summable(S, g),
         NEW t, t \in [SUBSET S -> Int], SumsUp(t, SUBSET S, g)
  PROVE  Adds(t, S, g)
<1>0. IsFiniteSet(S) /\ \A x \in S : g[x] \in Int
  BY DEF Summable
<1> DEFINE Small(n) == {s \in SUBSET S : Cardinality(s) <= n}
           E == {n \in Nat : \A s \in Small(n) : \A a \in s : t[s] = g[a] + t[s \ {a}]}
<1>1. 0 \in E
  BY <1>0, ChosenFacts
<1>2. ASSUME NEW n \in Nat, n \in E PROVE n + 1 \in E
  <2> SUFFICES ASSUME NEW s \in Small(n + 1), NEW a \in s PROVE t[s] = g[a] + t[s \ {a}]
    OBVIOUS
  <2> DEFINE x == Chosen(s)
  <2>1. /\ x \in s /\ s \in SUBSET S /\ s \ {x} \in Small(n) /\ s \ {a} \in Small(n)
        /\ (s \ {a}) \ {x} = (s \ {x}) \ {a} /\ (s \ {x}) \ {a} \in SUBSET S
    <3>1. /\ s \in SUBSET S /\ Cardinality(s) \in Nat /\ Cardinality(s) <= n + 1
          /\ x \in s /\ Cardinality(s \ {x}) = Cardinality(s) - 1
          /\ Cardinality(s \ {a}) = Cardinality(s) - 1
      BY <1>0, ChosenFacts
    <3> HIDE DEF x
    <3>2. s \ {x} \in Small(n) /\ s \ {a} \in Small(n)
      BY <3>1
    <3> QED
      BY <3>1, <3>2
  <2>2. t[s] = g[x] + t[s \ {x}]
    BY <2>1 DEF SumsUp
  <2>3. g[x] \in Int /\ g[a] \in Int /\ t[(s \ {x}) \ {a}] \in Int
    BY <1>0, <2>1
  <2>4. CASE a = x
    BY <2>2, <2>4
  <2>5. CASE a # x
    <3>1. a \in s \ {x} /\ x \in s \ {a}
      BY <2>1, <2>5
    <3>2. t[s \ {x}] = g[a] + t[(s \ {x}) \ {a}]
      BY <1>2, <2>1, <3>1
    <3>3. t[s \ {a}] = g[x] + t[(s \ {a}) \ {x}]
      BY <1>2, <2>1, <3>1
    <3> DEFINE r == t[(s \ {x}) \ {a}]
    <3>4. /\ t[s] = g[x] + (g[a] + r) /\ t[s \ {a}] = g[x] + r
          /\ r \in Int /\ g[x] \in Int /\ g[a] \in Int
      BY <2>1, <2>2, <2>3, <3>2, <3>3
    <3> HIDE DEF x, r
    <3> QED
      BY <3>4
  <2> QED
    BY <2>4, <2>5
<1>3. Nat \subseteq E
  <2> HIDE DEF E
  <2> QED
    BY <1>1, <1>2, NatSetInduction
<1>4. \A s \in SUBSET S : \A a \in s : t[s] = g[a] + t[s \ {a}]
  <2> TAKE s \in SUBSET S
  <2> TAKE a \in s
  <2>1. Cardinality(s) \in E /\ s \in Small(Cardinality(s))
    BY <1>0, <1>3, ChosenFacts
  <2> QED
    BY <2>1
<1>5. t[{}] = 0
  BY DEF SumsUp
<1> QED
  BY <1>4, <1>5 DEF Adds

\* Sums over a set: of nothing, of one element more, and of equal terms.
LEMMA SumOverFacts ==
  ASSUME NEW S, NEW g, Summable(S, g)
  PROVE  \E t : Adds(t, S, g) /\ SumOver(S, g) = t[S]
<1>1. PICK t \in [SUBSET S -> Int] :
        SumsUp(t, SUBSET S, g) /\ \A u : SumsUp(u, SUBSET S, g) => u = t
  BY SetSum DEF Summable
<1>2. (CHOOSE u : SumsUp(u, SUBSET S, g)) = t
  BY <1>1
<1>3. SumOver(S, g) = t[S]
  BY <1>2 DEF SumOver
<1>4. Adds(t, S, g)
  BY <1>1, SumTakesAny
<1> QED
  BY <1>3, <1>4

\* A sum of integers is one.
LEMMA SumOverType ==
  ASSUME NEW S, NEW g, Summable(S, g)
  PROVE  SumOver(S, g) \in Int /\ (S = {} => SumOver(S, g) = 0)
<1>1. PICK t : Adds(t, S, g) /\ SumOver(S, g) = t[S]
  BY SumOverFacts
<1>2. t[S] \in Int /\ t[{}] = 0
  BY <1>1 DEF Adds
<1> QED
  BY <1>1, <1>2

\* One element more adds its term.
LEMMA SumOverAdd ==
  ASSUME NEW S, IsFiniteSet(S), NEW a, a \notin S,
         NEW g, NEW h, \A x \in S : h[x] \in Int /\ g[x] = h[x], g[a] \in Int
  PROVE  SumOver(S \cup {a}, g) = SumOver(S, h) + g[a]
<1> DEFINE U == S \cup {a}
<1>1. IsFiniteSet(U) /\ S \in SUBSET U /\ U \ {a} = S /\ \A x \in U : g[x] \in Int
  BY FS_AddElement
<1>2. PICK t : Adds(t, U, g) /\ SumOver(U, g) = t[U]
  <2>1. Summable(U, g)
    BY <1>1 DEF Summable
  <2> QED
    BY <2>1, SumOverFacts
<1>3. PICK w : Adds(w, S, h) /\ SumOver(S, h) = w[S]
  <2>1. Summable(S, h)
    BY DEF Summable
  <2> QED
    BY <2>1, SumOverFacts
<1> DEFINE Small(n) == {s \in SUBSET S : Cardinality(s) <= n}
           E == {n \in Nat : \A s \in Small(n) : t[s] = w[s]}
<1>4. 0 \in E
  <2>1. \A s \in Small(0) : s = {}
    BY ChosenFacts
  <2> QED
    BY <1>2, <1>3, <2>1 DEF Adds
<1>5. ASSUME NEW n \in Nat, n \in E PROVE n + 1 \in E
  <2> SUFFICES ASSUME NEW s \in Small(n + 1) PROVE t[s] = w[s]
    OBVIOUS
  <2>1. CASE s = {}
    BY <1>2, <1>3, <2>1 DEF Adds
  <2>2. CASE s # {}
    <3>1. PICK b \in s : TRUE
      BY <2>2
    <3>2. s \ {b} \in Small(n) /\ s \in SUBSET S /\ s \in SUBSET U /\ b \in S
      <4>1. s \in SUBSET S /\ Cardinality(s \ {b}) = Cardinality(s) - 1 /\ Cardinality(s) \in Nat
        BY <3>1, ChosenFacts
      <4> QED
        BY <4>1, <3>1
    <3>3. t[s \ {b}] = w[s \ {b}]
      BY <1>5, <3>2
    <3>4. t[s] = g[b] + t[s \ {b}] /\ w[s] = h[b] + w[s \ {b}]
      BY <1>2, <1>3, <3>1, <3>2 DEF Adds
    <3> QED
      BY <3>2, <3>3, <3>4
  <2> QED
    BY <2>1, <2>2
<1>6. t[S] = w[S]
  <2>1. Nat \subseteq E
    <3> HIDE DEF E
    <3> QED
      BY <1>4, <1>5, NatSetInduction
  <2>2. Cardinality(S) \in Nat /\ S \in Small(Cardinality(S))
    BY FS_CardinalityType
  <2>3. Cardinality(S) \in E
    BY <2>1, <2>2
  <2> QED
    BY <2>2, <2>3
<1>7. t[U] = g[a] + t[U \ {a}]
  BY <1>2 DEF Adds
<1>8. t[S] \in Int
  BY <1>1, <1>2 DEF Adds
<1>9. SumOver(U, g) = g[a] + w[S] /\ SumOver(S, h) = w[S] /\ w[S] \in Int
  BY <1>1, <1>2, <1>3, <1>6, <1>7, <1>8
<1> HIDE DEF U
<1>10. SumOver(U, g) = SumOver(S, h) + g[a]
  BY <1>9
<1> QED
  BY <1>10 DEF U

\* Equal terms have equal sums.
LEMMA SumOverSame ==
  ASSUME NEW S, NEW g, NEW h, \A x \in S : g[x] = h[x]
  PROVE  SumOver(S, g) = SumOver(S, h)
<1>1. \A t : SumsUp(t, SUBSET S, g) <=> SumsUp(t, SUBSET S, h)
  <2> TAKE t
  <2>1. \A s \in SUBSET S : s # {} => g[Chosen(s)] = h[Chosen(s)]
    BY DEF Chosen
  <2>2. [s \in SUBSET S |-> IF s = {} THEN 0 ELSE g[Chosen(s)] + t[s \ {Chosen(s)}]]
        = [s \in SUBSET S |-> IF s = {} THEN 0 ELSE h[Chosen(s)] + t[s \ {Chosen(s)}]]
    BY <2>1
  <2> QED
    BY <2>2 DEF SumsUp
<1>2. (CHOOSE t : SumsUp(t, SUBSET S, g)) = (CHOOSE t : SumsUp(t, SUBSET S, h))
  BY <1>1
<1> QED
  BY <1>2 DEF SumOver

--------------------------------------------------------------------------------
Smaller(S, x) == {y \in S : y < x}

\* A finite set of numbers has an element of each rank.
LEMMA SetHasRanks ==
  ASSUME NEW S \in SUBSET Nat, IsFiniteSet(S), NEW k \in 1 .. Cardinality(S)
  PROVE  \E x \in S : Cardinality(Smaller(S, x)) = k - 1
<1> DEFINE Ranks(n) == \A R \in SUBSET Nat : IsFiniteSet(R) /\ Cardinality(R) = n =>
                         \A m \in 1 .. n : \E x \in R : Cardinality(Smaller(R, x)) = m - 1
           T == {n \in Nat : Ranks(n)}
<1>1. 0 \in T
  OBVIOUS
<1>2. ASSUME NEW n \in Nat, n \in T PROVE n + 1 \in T
  <2> SUFFICES ASSUME NEW R \in SUBSET Nat, IsFiniteSet(R), Cardinality(R) = n + 1,
                      NEW m \in 1 .. n + 1
               PROVE  \E x \in R : Cardinality(Smaller(R, x)) = m - 1
    OBVIOUS
  <2>0. /\ R \subseteq Nat
        /\ \A Q \in SUBSET Nat : IsFiniteSet(Q) /\ Cardinality(Q) = n =>
             \A j \in 1 .. n : \E x \in Q : Cardinality(Smaller(Q, x)) = j - 1
    BY <1>2
  <2> HIDE DEF Ranks, T
  <2>1. R # {}
    BY FS_EmptySet
  <2>2. PICK least \in R : \A y \in R : least <= y
    BY <2>0, <2>1, LeastNatural
  <2>3. CASE m = 1
    <3>1. ASSUME NEW y \in Smaller(R, least) PROVE FALSE
      <4>1. y \in R /\ y < least
        BY DEF Smaller
      <4>2. y \in Nat /\ least \in Nat /\ least <= y
        BY <2>0, <2>2, <4>1
      <4> QED BY <4>1, <4>2
    <3>3. Smaller(R, least) = {}
      BY <3>1
    <3> QED BY <2>3, <3>3, FS_EmptySet
  <2>4. CASE m # 1
    <3> DEFINE Q == R \ {least}
    <3>1. IsFiniteSet(Q) /\ Cardinality(Q) = n
      <4>1. IsFiniteSet(Q) /\ Cardinality(Q) = Cardinality(R) - 1
        BY FS_RemoveElement
      <4> QED BY <4>1
    <3>2. m - 1 \in 1 .. n
      BY <2>4
    <3>3. Q \in SUBSET Nat
      OBVIOUS
    <3> HIDE DEF Q
    <3>4. PICK x \in Q : Cardinality(Smaller(Q, x)) = (m - 1) - 1
      BY <2>0, <3>1, <3>2, <3>3
    <3>5. Smaller(R, x) = Smaller(Q, x) \union {least} /\ least \notin Smaller(Q, x) /\ x \in R
      BY <2>2 DEF Smaller, Q
    <3>6. IsFiniteSet(Smaller(Q, x))
      BY <3>1, FS_Subset DEF Smaller
    <3>7. Cardinality(Smaller(R, x)) = m - 1
      <4> DEFINE B == Smaller(Q, x)
      <4> HIDE DEF B
      <4>1. IsFiniteSet(B) /\ least \notin B /\ Smaller(R, x) = B \union {least}
        BY <3>5, <3>6 DEF B
      <4>2. Cardinality(B \union {least}) = Cardinality(B) + 1
        BY <4>1, FS_AddElement
      <4>3. Cardinality(B) = m - 2 /\ m \in Nat
        BY <3>4 DEF B
      <4> QED BY <4>1, <4>2, <4>3
    <3> QED BY <3>5, <3>7
  <2> QED BY <2>3, <2>4
<1>3. Nat \subseteq T
  <2> HIDE DEF T
  <2> QED BY <1>1, <1>2, NatSetInduction
<1>4. Cardinality(S) \in Nat
  BY FS_CardinalityType
<1>5. Ranks(Cardinality(S))
  BY <1>3, <1>4
<1> QED BY <1>5
--------------------------------------------------------------------------------
\* A sequence over whatever its items are.
IsSeq(s) == \E S : s \in Seq(S)

LEMMA AppendOne ==
  ASSUME NEW s, NEW e, IsSeq(s)
  PROVE  /\ IsSeq(Append(s, e))
         /\ Len(s) \in Nat /\ DOMAIN s = 1 .. Len(s)
         /\ Len(Append(s, e)) = Len(s) + 1
         /\ DOMAIN Append(s, e) = 1 .. Len(s) + 1
         /\ \A i \in 1 .. Len(s) : Append(s, e)[i] = s[i]
         /\ Append(s, e)[Len(s) + 1] = e
<1>1. PICK S : s \in Seq(S)
  BY DEF IsSeq
<1>2. s \in Seq(S \union {e})
  BY <1>1, SeqMonotonic
<1>3. Append(s, e) \in Seq(S \union {e})
  BY <1>2, AppendProperties
<1>4. Len(s) \in Nat /\ DOMAIN s = 1 .. Len(s)
  BY <1>1, LenProperties
<1>5. DOMAIN Append(s, e) = 1 .. Len(Append(s, e))
  BY <1>3, LenProperties
<1>6. /\ Len(Append(s, e)) = Len(s) + 1
      /\ \A i \in 1 .. Len(s) : Append(s, e)[i] = s[i]
      /\ Append(s, e)[Len(s) + 1] = e
  BY <1>2, AppendProperties
<1> QED BY <1>3, <1>4, <1>5, <1>6 DEF IsSeq

\* A sequence's positions are numbers.
LEMMA SeqPositions ==
  ASSUME NEW s, IsSeq(s)
  PROVE  Len(s) \in Nat /\ DOMAIN s = 1 .. Len(s)
BY AppendOne

\* A function on the first n numbers is a sequence.
LEMMA ListIsSeq ==
  ASSUME NEW n \in Nat, NEW s, DOMAIN s = 1 .. n, s = [k \in 1 .. n |-> s[k]]
  PROVE  IsSeq(s)
<1>1. s \in [1 .. n -> {s[k] : k \in 1 .. n}]
  OBVIOUS
<1>2. s \in Seq({s[k] : k \in 1 .. n})
  BY <1>1, SeqDef
<1> QED BY <1>2 DEF IsSeq

--------------------------------------------------------------------------------
\* What precedes the k-th of n different items.
Distinct(s, n) == \A i, j \in 1 .. n : s[i] = s[j] => i = j
AreBefore(P, s, n, k) == \A x : x \in P <=> \E i \in 1 .. n : i < k /\ x = s[i]

\* Before the k-th of n different items are k - 1.
LEMMA RankOfPlace ==
  ASSUME NEW n \in Nat, NEW s, Distinct(s, n), NEW k \in 1 .. n, NEW P, AreBefore(P, s, n, k)
  PROVE  Cardinality(P) = k - 1
<1> DEFINE f == [i \in 1 .. k - 1 |-> s[i]]
<1>1. f \in Bijection(1 .. k - 1, P)
  <2>1. f \in Surjection(1 .. k - 1, P)
    BY DEF Surjection, AreBefore
  <2>2. f \in Injection(1 .. k - 1, P)
    BY DEF Injection, IsInjective, AreBefore, Distinct
  <2> QED BY <2>1, <2>2 DEF Bijection
<1>2. IsFiniteSet(1 .. k - 1) /\ Cardinality(1 .. k - 1) = k - 1
  BY FS_Interval
<1> HIDE DEF f
<1> QED BY <1>1, <1>2, FS_Bijection DEF ExistsBijection
================================================================================
