-------------------------------- MODULE Sums --------------------------------
(* What SumFunction of the community modules computes, for every function from a *)
(* finite set to the integers: the recursion it is defined by has a solution,     *)
(* the order in which it takes the elements does not matter, and a change of one   *)
(* value changes the sum by as much.                                           *)
EXTENDS Integers, Functions, FiniteSetTheorems, WellFoundedInduction, TLAPS

\* The element that is taken next.
Some(s) == CHOOSE x \in s : TRUE

\* The sums of f over the subsets of T.
SumsTo(g, f, T) ==
    /\ g \in [SUBSET T -> Int] /\ g[{}] = 0
    /\ \A s \in SUBSET T : s # {} => g[s] = f[Some(s)] + g[s \ {Some(s)}]

\* A set that is not empty has the element that is taken next.
LEMMA SomeIs == ASSUME NEW s, s # {} PROVE Some(s) \in s
  BY DEF Some

\* A family of subsets of a finite set has a member that none is a part of.
LEMMA SmallestExists ==
    ASSUME NEW S, IsFiniteSet(S), NEW F \in SUBSET SUBSET S, NEW s \in F
    PROVE  \E t \in F : \A u \in F : u \subseteq t => u = t
  <1>1. IsWellFoundedOn(StrictSubsetOrdering(S), SUBSET S)
    BY FS_StrictSubsetOrderingWellFounded, FS_FiniteSubsetsOfFinite
  <1>2. PICK t \in F : \A u \in F : ~(<<u, t>> \in StrictSubsetOrdering(S))
    BY <1>1, WFMin
  <1> QED BY <1>2 DEF StrictSubsetOrdering

\* Two tables of sums agree where both are defined and the values are the same.
LEMMA SumsAgree ==
    ASSUME NEW S, IsFiniteSet(S), NEW T \in SUBSET S, NEW U \in SUBSET S, NEW f, NEW h, NEW g, NEW k,
           SumsTo(g, f, T), SumsTo(k, h, U),
           NEW s \in SUBSET T, s \in SUBSET U, \A x \in s : f[x] = h[x]
    PROVE  g[s] = k[s]
  <1> DEFINE Bad == {t \in SUBSET s : g[t] # k[t]}
  <1> SUFFICES ASSUME s \in Bad PROVE FALSE
    OBVIOUS
  <1>1. PICK t \in Bad : \A u \in Bad : u \subseteq t => u = t
    <2>1. Bad \in SUBSET SUBSET S
      OBVIOUS
    <2> HIDE DEF Bad
    <2> QED BY <2>1, SmallestExists
  <1>2. t # {} /\ t \in SUBSET T /\ t \in SUBSET U
    BY DEF SumsTo
  <1>3. Some(t) \in t
    BY <1>2, SomeIs
  <1>4. g[t \ {Some(t)}] = k[t \ {Some(t)}] /\ f[Some(t)] = h[Some(t)]
    BY <1>1, <1>3
  <1> QED BY <1>2, <1>4 DEF SumsTo

\* There is such a table.
LEMMA SumsExist ==
    ASSUME NEW S, IsFiniteSet(S), NEW f \in [S -> Int] PROVE \E g : SumsTo(g, f, S)
  <1> DEFINE Bad == {T \in SUBSET S : ~(\E g : SumsTo(g, f, T))}
  <1> SUFFICES ASSUME S \in Bad PROVE FALSE
    OBVIOUS
  <1>1. PICK T \in Bad : \A U \in Bad : U \subseteq T => U = T
    <2>1. Bad \in SUBSET SUBSET S
      OBVIOUS
    <2> HIDE DEF Bad
    <2> QED BY <2>1, SmallestExists
  <1>2. T # {}
    <2>1. SumsTo([s \in SUBSET {} |-> 0], f, {})
      BY DEF SumsTo
    <2> QED BY <2>1
  <1> DEFINE R == T \ {Some(T)}
             G(U) == CHOOSE g : SumsTo(g, f, U)
             k == [s \in SUBSET T |-> IF s = T THEN f[Some(T)] + G(R)[R] ELSE G(s)[s]]
  <1>3. \A U \in SUBSET T : U # T => SumsTo(G(U), f, U)
    BY <1>1
  <1>4. Some(T) \in T /\ R \in SUBSET T /\ R # T
    BY <1>2, SomeIs
  <1>5. \A U \in SUBSET T : U # T => G(U)[U] \in Int
    BY <1>3 DEF SumsTo
  <1>6. k \in [SUBSET T -> Int]
    <2>1. Some(T) \in S /\ f[Some(T)] \in Int
      BY <1>4
    <2>2. G(R)[R] \in Int
      BY <1>4, <1>5
    <2>3. f[Some(T)] + G(R)[R] \in Int
      BY <2>1, <2>2
    <2> HIDE DEF G, R
    <2> QED BY <1>5, <2>3
  <1>7. k[{}] = 0
    BY <1>2, <1>3 DEF SumsTo
  <1>8. ASSUME NEW s \in SUBSET T, s # {} PROVE k[s] = f[Some(s)] + k[s \ {Some(s)}]
    <2>1. Some(s) \in s /\ s \ {Some(s)} \in SUBSET T /\ s \ {Some(s)} # T
      BY <1>8, SomeIs
    <2>2. k[s \ {Some(s)}] = G(s \ {Some(s)})[s \ {Some(s)}]
      BY <2>1
    <2>3. CASE s = T
      BY <2>2, <2>3
    <2>4. CASE s # T
      <3> DEFINE r == s \ {Some(s)}
      <3>1. SumsTo(G(s), f, s) /\ SumsTo(G(r), f, r)
        BY <1>3, <2>1, <2>4
      <3>2. G(s)[s] = f[Some(s)] + G(s)[r]
        BY <1>8, <3>1 DEF SumsTo
      <3>3. G(s)[r] = G(r)[r]
        <4>1. s \in SUBSET S /\ r \in SUBSET S /\ r \in SUBSET s
          OBVIOUS
        <4> HIDE DEF G, r
        <4> QED BY <3>1, <4>1, SumsAgree
      <3> QED BY <2>2, <2>4, <3>2, <3>3
    <2> QED BY <2>3, <2>4
  <1>9. SumsTo(k, f, T)
    <2> HIDE DEF k
    <2> QED BY <1>6, <1>7, <1>8 DEF SumsTo
  <1> QED BY <1>9

\* The sums of f, and the sum that SumFunction takes from them.
LEMMA SumIs ==
    ASSUME NEW S, IsFiniteSet(S), NEW f \in [S -> Int]
    PROVE  \E g : SumsTo(g, f, S) /\ SumFunction(f) = g[S]
  <1> DEFINE Iter == CHOOSE g : g = [s \in SUBSET S |-> IF s = {} THEN 0
                                                    ELSE f[Some(s)] + g[s \ {Some(s)}]]
  <1>1. SumFunction(f) = Iter[S]
    BY DEF SumFunction, SumFunctionOnSet, FoldFunctionOnSet, MapThenFoldSet, Some
  <1>2. PICK g : SumsTo(g, f, S)
    BY SumsExist
  <1>3. g = [s \in SUBSET S |-> IF s = {} THEN 0 ELSE f[Some(s)] + g[s \ {Some(s)}]]
    BY <1>2 DEF SumsTo
  <1>4. Iter = [s \in SUBSET S |-> IF s = {} THEN 0 ELSE f[Some(s)] + Iter[s \ {Some(s)}]]
    BY <1>3
  <1> HIDE DEF Iter
  <1>5. ASSUME NEW s \in SUBSET S, \A t \in SUBSET S : t \subseteq s /\ t # s => Iter[t] = g[t]
        PROVE  Iter[s] = g[s]
    <2>1. CASE s = {}
      BY <1>4, <2>1, <1>2 DEF SumsTo
    <2>2. CASE s # {}
      <3>1. Some(s) \in s
        BY <2>2, SomeIs
      <3>2. Iter[s \ {Some(s)}] = g[s \ {Some(s)}]
        BY <1>5, <3>1
      <3>3. Iter[s] = f[Some(s)] + Iter[s \ {Some(s)}]
        BY <1>4, <2>2
      <3> QED BY <1>2, <2>2, <3>2, <3>3 DEF SumsTo
    <2> QED BY <2>1, <2>2
  <1>6. Iter[S] = g[S]
    <2> DEFINE Bad == {s \in SUBSET S : Iter[s] # g[s]}
    <2> SUFFICES ASSUME S \in Bad PROVE FALSE
      OBVIOUS
    <2>1. PICK s \in Bad : \A t \in Bad : t \subseteq s => t = s
      <3>1. Bad \in SUBSET SUBSET S
        OBVIOUS
      <3> HIDE DEF Bad
      <3> QED BY <3>1, SmallestExists
    <2> QED BY <1>5, <2>1
  <1> QED BY <1>1, <1>2, <1>6

\* Any element may be taken first.
LEMMA TakeAny ==
    ASSUME NEW S, IsFiniteSet(S), NEW f \in [S -> Int], NEW g, SumsTo(g, f, S),
           NEW s \in SUBSET S, NEW x \in s
    PROVE  g[s] = f[x] + g[s \ {x}]
  <1> DEFINE Bad == {t \in SUBSET S : \E y \in t : g[t] # f[y] + g[t \ {y}]}
  <1> SUFFICES ASSUME s \in Bad PROVE FALSE
    OBVIOUS
  <1>1. PICK t \in Bad : \A u \in Bad : u \subseteq t => u = t
    <2>1. Bad \in SUBSET SUBSET S
      OBVIOUS
    <2> HIDE DEF Bad
    <2> QED BY <2>1, SmallestExists
  <1>2. PICK y \in t : g[t] # f[y] + g[t \ {y}]
    BY <1>1
  <1> DEFINE z == Some(t)
  <1>3. z \in t /\ g[t] = f[z] + g[t \ {z}]
    BY SomeIs DEF SumsTo
  <1> HIDE DEF z
  <1>4. z # y
    BY <1>2, <1>3
  <1>5. t \ {z} \notin Bad /\ t \ {y} \notin Bad
    BY <1>1, <1>2, <1>3
  <1>6. g[t \ {z}] = f[y] + g[(t \ {z}) \ {y}] /\ g[t \ {y}] = f[z] + g[(t \ {y}) \ {z}]
    BY <1>2, <1>3, <1>4, <1>5
  <1>7. (t \ {z}) \ {y} = (t \ {y}) \ {z}
    OBVIOUS
  <1> DEFINE a == f[y]
             b == f[z]
             c == g[(t \ {y}) \ {z}]
  <1>8. a \in Int /\ b \in Int /\ c \in Int
    <2>1. y \in S /\ z \in S /\ (t \ {y}) \ {z} \in SUBSET S
      BY <1>2, <1>3
    <2> HIDE DEF Bad
    <2> QED BY <2>1 DEF SumsTo
  <1>9. g[t] = b + (a + c) /\ g[t \ {y}] = b + c /\ g[t] # a + g[t \ {y}]
    BY <1>2, <1>3, <1>6, <1>7
  <1> HIDE DEF a, b, c, Bad
  <1>10. b + (a + c) = a + (b + c)
    BY <1>8
  <1> QED BY <1>9, <1>10

\* A sum of integers is an integer.
LEMMA SumTyped ==
    ASSUME NEW S, IsFiniteSet(S), NEW f \in [S -> Int] PROVE SumFunction(f) \in Int
  <1>1. PICK g : SumsTo(g, f, S) /\ SumFunction(f) = g[S]
    BY SumIs
  <1>2. S \in SUBSET S /\ g \in [SUBSET S -> Int]
    BY <1>1 DEF SumsTo
  <1> QED BY <1>1, <1>2

\* A change of one value changes the sum by as much.
LEMMA SumChanges ==
    ASSUME NEW S, IsFiniteSet(S), NEW f \in [S -> Int], NEW h \in [S -> Int], NEW x \in S,
           \A y \in S : y # x => h[y] = f[y]
    PROVE  SumFunction(h) = SumFunction(f) + h[x] - f[x]
  <1>1. PICK g : SumsTo(g, f, S) /\ SumFunction(f) = g[S]
    BY SumIs
  <1>2. PICK k : SumsTo(k, h, S) /\ SumFunction(h) = k[S]
    BY SumIs
  <1>3. g[S] = f[x] + g[S \ {x}] /\ k[S] = h[x] + k[S \ {x}]
    <2>1. S \in SUBSET S
      OBVIOUS
    <2>2. g[S] = f[x] + g[S \ {x}]
      BY <1>1, <2>1, TakeAny
    <2>3. k[S] = h[x] + k[S \ {x}]
      BY <1>2, <2>1, TakeAny
    <2> QED BY <2>2, <2>3
  <1>4. k[S \ {x}] = g[S \ {x}]
    <2>1. \A y \in S \ {x} : h[y] = f[y]
      OBVIOUS
    <2> QED BY <1>1, <1>2, <2>1, SumsAgree
  <1>5. g[S \ {x}] \in Int /\ f[x] \in Int /\ h[x] \in Int
    BY <1>1 DEF SumsTo
  <1> QED BY <1>1, <1>2, <1>3, <1>4, <1>5

\* The sum of values that are not negative is not negative, nor below any of them.
LEMMA SumCovers ==
    ASSUME NEW S, IsFiniteSet(S), NEW f \in [S -> Nat]
    PROVE  SumFunction(f) \in Nat /\ \A x \in S : f[x] <= SumFunction(f)
  <1>0. f \in [S -> Int]
    OBVIOUS
  <1>1. PICK g : SumsTo(g, f, S) /\ SumFunction(f) = g[S]
    BY <1>0, SumIs
  <1>2. ASSUME NEW s \in SUBSET S PROVE g[s] \in Nat
    <2> DEFINE Bad == {t \in SUBSET S : g[t] \notin Nat}
    <2> SUFFICES ASSUME s \in Bad PROVE FALSE
      OBVIOUS
    <2>1. PICK t \in Bad : \A u \in Bad : u \subseteq t => u = t
      <3>1. Bad \in SUBSET SUBSET S
        OBVIOUS
      <3> HIDE DEF Bad
      <3> QED BY <3>1, SmallestExists
    <2>2. t # {}
      <3>1. g[{}] = 0
        BY <1>1 DEF SumsTo
      <3>2. g[t] \notin Nat
        OBVIOUS
      <3> HIDE DEF Bad
      <3> QED BY <3>1, <3>2
    <2>3. Some(t) \in t /\ g[t] = f[Some(t)] + g[t \ {Some(t)}]
      BY <1>1, <2>2, SomeIs DEF SumsTo
    <2>4. g[t \ {Some(t)}] \in Nat /\ f[Some(t)] \in Nat
      BY <2>1, <2>3
    <2> QED BY <2>3, <2>4
  <1>3. ASSUME NEW x \in S PROVE f[x] <= g[S]
    <2>1. g[S] = f[x] + g[S \ {x}]
      BY <1>0, <1>1, TakeAny
    <2>2. g[S \ {x}] \in Nat /\ f[x] \in Nat
      BY <1>2
    <2> QED BY <2>1, <2>2
  <1> QED BY <1>1, <1>2, <1>3

\* The sum of nothing but zeros.
LEMMA SumOfZeros ==
    ASSUME NEW S, IsFiniteSet(S), NEW f \in [S -> Int], \A x \in S : f[x] = 0
    PROVE  SumFunction(f) = 0
  <1>1. PICK g : SumsTo(g, f, S) /\ SumFunction(f) = g[S]
    BY SumIs
  <1> DEFINE Bad == {t \in SUBSET S : g[t] # 0}
  <1> SUFFICES ASSUME S \in Bad PROVE FALSE
    BY <1>1
  <1>2. PICK t \in Bad : \A u \in Bad : u \subseteq t => u = t
    <2>1. Bad \in SUBSET SUBSET S
      OBVIOUS
    <2> HIDE DEF Bad
    <2> QED BY <2>1, SmallestExists
  <1>3. t # {}
    BY <1>1 DEF SumsTo
  <1>4. Some(t) \in t /\ g[t] = f[Some(t)] + g[t \ {Some(t)}]
    BY <1>1, <1>3, SomeIs DEF SumsTo
  <1>5. g[t \ {Some(t)}] = 0 /\ f[Some(t)] = 0
    BY <1>2, <1>4
  <1> QED BY <1>4, <1>5
=============================================================================
