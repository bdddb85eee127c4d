------------------------------ MODULE Sums_proofs ------------------------------
(***************************************************************************)
(* What the proofs need of sums over finite sets. SumFunctionOnSet is      *)
(* defined by a function on the subsets of its set, that such a function   *)
(* exists, that it has one value and that the order of the addends does    *)
(* not matter are shown with a smallest counterexample instead of by       *)
(* induction: a non-empty set of finite sets has a smallest member, for    *)
(* inclusion is well founded.                                              *)
(***************************************************************************)
EXTENDS Integers, FiniteSetsExt, Functions, FiniteSetTheorems, WellFoundedInduction, TLAPS

Pick(T) == CHOOSE x \in T : TRUE

\* g adds up f over the subsets of S, each the way the library does.
Sums(g, f, S) == g = [T \in SUBSET S |-> IF T = {} THEN 0 ELSE f[Pick(T)] + g[T \ {Pick(T)}]]
Table(f, S) == CHOOSE g : Sums(g, f, S)

-----------------------------------------------------------------------------
\* Some member of a set of finite sets includes no other.
LEMMA Smallest ==
  ASSUME NEW S, IsFiniteSet(S), NEW B, B \subseteq SUBSET S, B # {}
  PROVE  \E T \in B : \A U \in B : U \subseteq T => U = T
  <1>1. IsWellFoundedOn(StrictSubsetOrdering(S), SUBSET S)
    BY FS_StrictSubsetOrderingWellFounded, FS_FiniteSubsetsOfFinite
  <1>2. PICK T \in B : \A U \in B : ~ (<<U, T>> \in StrictSubsetOrdering(S))
    BY <1>1, WFMin, Zenon
  <1>3. ASSUME NEW U \in B, U \subseteq T PROVE U = T
    <2>1. <<U, T>> \in (SUBSET S) \X (SUBSET S) OBVIOUS
    <2>2. QED BY <1>2, <1>3, <2>1 DEF StrictSubsetOrdering
  <1>4. QED BY <1>3

\* Two such functions agree where both are defined.
LEMMA Agree ==
  ASSUME NEW f, NEW S, IsFiniteSet(S), NEW V \in SUBSET S, NEW g, NEW h, Sums(g, f, S), Sums(h, f, V)
  PROVE  \A T \in SUBSET V : g[T] = h[T]
  <1> DEFINE B == {T \in SUBSET V : g[T] # h[T]}
  <1>b. B \subseteq SUBSET V OBVIOUS
  <1>1. SUFFICES ASSUME B # {} PROVE FALSE OBVIOUS
  <1>2. IsFiniteSet(V) BY FS_Subset
  <1>m. \E T \in B : \A U \in B : U \subseteq T => U = T
    <2> HIDE DEF B
    <2>1. QED BY <1>1, <1>2, <1>b, Smallest
  <1>3. PICK T \in B : \A U \in B : U \subseteq T => U = T BY <1>m
  <1>4. T # {} BY <1>3 DEF Sums
  <1>5. Pick(T) \in T BY <1>4 DEF Pick
  <1>6. T \ {Pick(T)} \in SUBSET V /\ T \ {Pick(T)} \notin B BY <1>3, <1>5
  <1>7. g[T \ {Pick(T)}] = h[T \ {Pick(T)}] BY <1>6
  <1>8. g[T] = f[Pick(T)] + g[T \ {Pick(T)}] BY <1>4 DEF Sums
  <1>9. h[T] = f[Pick(T)] + h[T \ {Pick(T)}] BY <1>4 DEF Sums
  <1>10. QED BY <1>7, <1>8, <1>9

\* There is one: a smallest set without one would get it from its subsets'.
LEMMA Exists == ASSUME NEW f, NEW S, IsFiniteSet(S) PROVE \E g : Sums(g, f, S)
  <1> DEFINE B == {T \in SUBSET S : ~\E g : Sums(g, f, T)}
  <1>b. B \subseteq SUBSET S OBVIOUS
  <1>1. SUFFICES ASSUME B # {} PROVE FALSE BY Zenon
  <1>m. \E T \in B : \A U \in B : U \subseteq T => U = T
    <2> HIDE DEF B
    <2>1. QED BY <1>1, <1>b, Smallest
  <1>2. PICK T \in B : \A U \in B : U \subseteq T => U = T BY <1>m
  <1>3. \A U \in SUBSET T : U # T => \E g : Sums(g, f, U) BY <1>2
  <1>4. \A U \in SUBSET T : U # T => Sums(Table(f, U), f, U) BY <1>3 DEF Table
  <1>5. IsFiniteSet(T) BY <1>2, FS_Subset
  <1> DEFINE rest(U) == U \ {Pick(U)}
             h == [U \in SUBSET T |-> IF U = {} THEN 0 ELSE f[Pick(U)] + Table(f, rest(U))[rest(U)]]
  <1>6. ASSUME NEW U \in SUBSET T, U # T PROVE h[U] = Table(f, U)[U]
    <2>0. Sums(Table(f, U), f, U) BY <1>4, <1>6
    <2>1. CASE U = {}
      <3>1. Table(f, U)[U] = 0 BY <2>0, <2>1 DEF Sums
      <3>2. QED BY <3>1, <2>1
    <2>2. CASE U # {}
      <3>1. Pick(U) \in U BY <2>2 DEF Pick
      <3>2. rest(U) \in SUBSET U /\ rest(U) # T BY <1>6, <3>1
      <3>3. Sums(Table(f, rest(U)), f, rest(U)) BY <1>4, <3>2
      <3>4. IsFiniteSet(U) BY <1>5, FS_Subset
      <3>a. rest(U) \in SUBSET rest(U) OBVIOUS
      <3>5. Table(f, U)[rest(U)] = Table(f, rest(U))[rest(U)]
        <4> HIDE DEF rest
        <4>1. QED BY <2>0, <3>2, <3>3, <3>4, <3>a, Agree
      <3>6. Table(f, U)[U] = f[Pick(U)] + Table(f, U)[rest(U)] BY <2>0, <2>2 DEF Sums
      <3>7. QED BY <2>2, <3>5, <3>6
    <2>3. QED BY <2>1, <2>2
  <1>7. ASSUME NEW U \in SUBSET T PROVE h[U] = IF U = {} THEN 0 ELSE f[Pick(U)] + h[rest(U)]
    <2>1. CASE U = {} BY <2>1
    <2>2. CASE U # {}
      <3>1. Pick(U) \in U BY <2>2 DEF Pick
      <3>2. rest(U) \in SUBSET T /\ rest(U) # T BY <3>1
      <3>3. h[rest(U)] = Table(f, rest(U))[rest(U)] BY <3>2, <1>6
      <3>4. h[U] = f[Pick(U)] + Table(f, rest(U))[rest(U)] BY <2>2
      <3>5. QED BY <2>2, <3>3, <3>4
    <2>3. QED BY <2>1, <2>2
  <1>8. Sums(h, f, T)
    <2> DEFINE k == [U \in SUBSET T |-> IF U = {} THEN 0 ELSE f[Pick(U)] + h[U \ {Pick(U)}]]
    <2>1. DOMAIN h = SUBSET T /\ DOMAIN k = SUBSET T /\ h = [U \in SUBSET T |-> h[U]] /\ k = [U \in SUBSET T |-> k[U]]  OBVIOUS
    <2>2. \A U \in SUBSET T : h[U] = k[U] BY <1>7
    <2> HIDE DEF h, k
    <2>3. h = k BY <2>1, <2>2
    <2>4. QED BY <2>3 DEF Sums, k
  <1>9. QED BY <1>2, <1>8

-----------------------------------------------------------------------------
\* The library's sum is that function's value.
LEMMA SumIs == ASSUME NEW f, NEW S PROVE SumFunctionOnSet(f, S) = Table(f, S)[S]
  BY DEF SumFunctionOnSet, FoldFunctionOnSet, MapThenFoldSet, Table, Sums, Pick

\* Nothing adds up to 0.
LEMMA SumEmpty == \A f : SumFunctionOnSet(f, {}) = 0
  <1>1. TAKE f
  <1>2. Sums(Table(f, {}), f, {}) BY Exists, FS_EmptySet DEF Table
  <1>3. Table(f, {})[{}] = 0 BY <1>2 DEF Sums
  <1>4. QED BY <1>3, SumIs

\* The library takes out the element it picks.
LEMMA SumPick ==
  ASSUME NEW f, NEW S, IsFiniteSet(S), S # {}
  PROVE  SumFunctionOnSet(f, S) = f[Pick(S)] + SumFunctionOnSet(f, S \ {Pick(S)})
  <1> DEFINE R == S \ {Pick(S)}
  <1>0. IsFiniteSet(R) BY FS_Subset
  <1>1. Sums(Table(f, S), f, S) BY Exists DEF Table
  <1>2. Sums(Table(f, R), f, R) BY <1>0, Exists DEF Table
  <1>a. R \in SUBSET S /\ R \in SUBSET R OBVIOUS
  <1> HIDE DEF R
  <1>3. Table(f, S)[R] = Table(f, R)[R] BY <1>1, <1>2, <1>a, Agree
  <1>4. Table(f, S)[S] = f[Pick(S)] + Table(f, S)[R] BY <1>1 DEF Sums, R
  <1>5. QED BY <1>3, <1>4, SumIs DEF R

\* Sums of integers are integers.
LEMMA SumType ==
  ASSUME NEW f, NEW S, IsFiniteSet(S), \A x \in S : f[x] \in Int
  PROVE  SumFunctionOnSet(f, S) \in Int
  <1> DEFINE B == {T \in SUBSET S : SumFunctionOnSet(f, T) \notin Int}
  <1>b. B \subseteq SUBSET S OBVIOUS
  <1>1. SUFFICES ASSUME B # {} PROVE FALSE OBVIOUS
  <1>m. \E T \in B : \A U \in B : U \subseteq T => U = T
    <2> HIDE DEF B
    <2>1. QED BY <1>1, <1>b, Smallest
  <1>2. PICK T \in B : \A U \in B : U \subseteq T => U = T BY <1>m
  <1>3. T # {} BY <1>2, SumEmpty
  <1>4. Pick(T) \in T BY <1>3 DEF Pick
  <1>5. IsFiniteSet(T) BY <1>2, FS_Subset
  <1>6. SumFunctionOnSet(f, T \ {Pick(T)}) \in Int BY <1>2, <1>4
  <1>7. SumFunctionOnSet(f, T) = f[Pick(T)] + SumFunctionOnSet(f, T \ {Pick(T)}) BY <1>3, <1>5, SumPick
  <1>8. QED BY <1>2, <1>4, <1>6, <1>7

\* Any element may be taken out first.
LEMMA SumTakeOut ==
  ASSUME NEW f, NEW S, IsFiniteSet(S), \A x \in S : f[x] \in Int
  PROVE  \A x \in S : SumFunctionOnSet(f, S) = f[x] + SumFunctionOnSet(f, S \ {x})
  <1> DEFINE sum(T) == SumFunctionOnSet(f, T)
             B == {T \in SUBSET S : \E x \in T : sum(T) # f[x] + sum(T \ {x})}
  <1>b. B \subseteq SUBSET S OBVIOUS
  <1>1. SUFFICES ASSUME B # {} PROVE FALSE OBVIOUS
  <1>m. \E T \in B : \A U \in B : U \subseteq T => U = T
    <2> HIDE DEF B
    <2>1. QED BY <1>1, <1>b, Smallest
  <1>2. PICK T \in B : \A U \in B : U \subseteq T => U = T BY <1>m
  <1>3. PICK x \in T : sum(T) # f[x] + sum(T \ {x}) BY <1>2
  <1> DEFINE p == Pick(T)
  <1>4. p \in T BY <1>3 DEF Pick
  <1>5. IsFiniteSet(T) BY <1>2, FS_Subset
  <1>6. sum(T) = f[p] + sum(T \ {p}) BY <1>4, <1>5, SumPick
  <1>7. x # p BY <1>3, <1>6
  <1>8. T \ {p} \notin B /\ T \ {x} \notin B BY <1>2, <1>4
  <1>9. sum(T \ {p}) = f[x] + sum((T \ {p}) \ {x}) BY <1>2, <1>7, <1>8
  <1>10. sum(T \ {x}) = f[p] + sum((T \ {x}) \ {p}) BY <1>2, <1>4, <1>7, <1>8
  <1>11. (T \ {p}) \ {x} = (T \ {x}) \ {p} OBVIOUS
  <1>12. IsFiniteSet((T \ {x}) \ {p}) /\ \A y \in (T \ {x}) \ {p} : f[y] \in Int BY <1>2, <1>5, FS_Subset
  <1>13. sum((T \ {x}) \ {p}) \in Int BY <1>12, SumType
  <1>14. f[x] \in Int /\ f[p] \in Int BY <1>2, <1>4
  <1>15. f[p] + (f[x] + sum((T \ {x}) \ {p})) = f[x] + (f[p] + sum((T \ {x}) \ {p}))
    <2> HIDE DEF sum, p
    <2>1. QED BY <1>13, <1>14
  <1>16. sum(T) = f[x] + sum(T \ {x}) BY <1>6, <1>9, <1>10, <1>11, <1>15, Zenon
  <1>17. QED BY <1>3, <1>16, Zenon

\* One more element adds its value.
LEMMA SumAdd ==
  ASSUME NEW f, NEW S, NEW x, IsFiniteSet(S), x \notin S, \A y \in S \cup {x} : f[y] \in Int
  PROVE  SumFunctionOnSet(f, S \cup {x}) = SumFunctionOnSet(f, S) + f[x]
  <1>1. IsFiniteSet(S \cup {x}) BY FS_AddElement
  <1>2. SumFunctionOnSet(f, S \cup {x}) = f[x] + SumFunctionOnSet(f, (S \cup {x}) \ {x})
    BY <1>1, SumTakeOut
  <1>a. (S \cup {x}) \ {x} = S OBVIOUS
  <1>3. SumFunctionOnSet(f, S \cup {x}) = f[x] + SumFunctionOnSet(f, S) BY <1>2, <1>a, Zenon
  <1>4. SumFunctionOnSet(f, S) \in Int /\ f[x] \in Int BY SumType
  <1>5. QED BY <1>3, <1>4

\* Only the values on the set matter.
LEMMA SumSame ==
  ASSUME NEW f, NEW g, NEW S, IsFiniteSet(S), \A x \in S : f[x] = g[x]
  PROVE  SumFunctionOnSet(f, S) = SumFunctionOnSet(g, S)
  <1> DEFINE B == {T \in SUBSET S : SumFunctionOnSet(f, T) # SumFunctionOnSet(g, T)}
  <1>b. B \subseteq SUBSET S OBVIOUS
  <1>1. SUFFICES ASSUME B # {} PROVE FALSE OBVIOUS
  <1>m. \E T \in B : \A U \in B : U \subseteq T => U = T
    <2> HIDE DEF B
    <2>1. QED BY <1>1, <1>b, Smallest
  <1>2. PICK T \in B : \A U \in B : U \subseteq T => U = T BY <1>m
  <1>3. T # {} BY <1>2, SumEmpty
  <1>4. Pick(T) \in T BY <1>3 DEF Pick
  <1>5. IsFiniteSet(T) BY <1>2, FS_Subset
  <1>6. SumFunctionOnSet(f, T \ {Pick(T)}) = SumFunctionOnSet(g, T \ {Pick(T)}) BY <1>2, <1>4
  <1>7. /\ SumFunctionOnSet(f, T) = f[Pick(T)] + SumFunctionOnSet(f, T \ {Pick(T)})
        /\ SumFunctionOnSet(g, T) = g[Pick(T)] + SumFunctionOnSet(g, T \ {Pick(T)})
    BY <1>3, <1>5, SumPick
  <1>8. QED BY <1>2, <1>4, <1>6, <1>7

\* Smaller values, smaller sum.
LEMMA SumLess ==
  ASSUME NEW f, NEW g, NEW S, IsFiniteSet(S),
         \A x \in S : f[x] \in Int /\ g[x] \in Int /\ f[x] <= g[x]
  PROVE  SumFunctionOnSet(f, S) <= SumFunctionOnSet(g, S)
  <1> DEFINE B == {T \in SUBSET S : ~ (SumFunctionOnSet(f, T) <= SumFunctionOnSet(g, T))}
  <1>b. B \subseteq SUBSET S OBVIOUS
  <1>1. SUFFICES ASSUME B # {} PROVE FALSE OBVIOUS
  <1>m. \E T \in B : \A U \in B : U \subseteq T => U = T
    <2> HIDE DEF B
    <2>1. QED BY <1>1, <1>b, Smallest
  <1>2. PICK T \in B : \A U \in B : U \subseteq T => U = T BY <1>m
  <1>3. ASSUME T = {} PROVE FALSE
    <2>1. SumFunctionOnSet(f, T) = 0 /\ SumFunctionOnSet(g, T) = 0 BY <1>3, SumEmpty, Zenon
    <2>2. QED BY <1>2, <2>1
  <1> DEFINE p == Pick(T)
             R == T \ {p}
  <1>4. p \in T BY <1>3 DEF Pick
  <1>5. IsFiniteSet(T) /\ IsFiniteSet(R) BY <1>2, FS_Subset
  <1>6. SumFunctionOnSet(f, R) <= SumFunctionOnSet(g, R) BY <1>2, <1>4
  <1>7. /\ SumFunctionOnSet(f, T) = f[p] + SumFunctionOnSet(f, R)
        /\ SumFunctionOnSet(g, T) = g[p] + SumFunctionOnSet(g, R)
    BY <1>3, <1>5, SumPick
  <1>8. SumFunctionOnSet(f, R) \in Int /\ SumFunctionOnSet(g, R) \in Int BY <1>2, <1>5, SumType
  <1>9. f[p] \in Int /\ g[p] \in Int /\ f[p] <= g[p] BY <1>2, <1>4
  <1>10. SumFunctionOnSet(f, T) <= SumFunctionOnSet(g, T)
    <2> HIDE DEF p, R
    <2>1. QED BY <1>6, <1>7, <1>8, <1>9
  <1>11. QED BY <1>2, <1>10

\* Nothing but zeros adds up to 0.
LEMMA SumZeros ==
  ASSUME NEW f, NEW S, IsFiniteSet(S), \A x \in S : f[x] = 0
  PROVE  SumFunctionOnSet(f, S) = 0
  <1> DEFINE B == {T \in SUBSET S : SumFunctionOnSet(f, T) # 0}
  <1>b. B \subseteq SUBSET S OBVIOUS
  <1>1. SUFFICES ASSUME B # {} PROVE FALSE OBVIOUS
  <1>m. \E T \in B : \A U \in B : U \subseteq T => U = T
    <2> HIDE DEF B
    <2>1. QED BY <1>1, <1>b, Smallest
  <1>2. PICK T \in B : \A U \in B : U \subseteq T => U = T BY <1>m
  <1>3. T # {} BY <1>2, SumEmpty
  <1>4. Pick(T) \in T BY <1>3 DEF Pick
  <1>5. IsFiniteSet(T) BY <1>2, FS_Subset
  <1>6. SumFunctionOnSet(f, T \ {Pick(T)}) = 0 BY <1>2, <1>4
  <1>7. SumFunctionOnSet(f, T) = f[Pick(T)] + SumFunctionOnSet(f, T \ {Pick(T)}) BY <1>3, <1>5, SumPick
  <1>8. f[Pick(T)] = 0 BY <1>2, <1>4
  <1>9. QED BY <1>2, <1>6, <1>7, <1>8

\* Two sets that share nothing add up to their sums.
LEMMA SumUnion ==
  ASSUME NEW f, NEW S, NEW T, IsFiniteSet(S), IsFiniteSet(T), S \cap T = {},
         \A x \in S \cup T : f[x] \in Int
  PROVE  SumFunctionOnSet(f, S \cup T) = SumFunctionOnSet(f, S) + SumFunctionOnSet(f, T)
  <1> DEFINE sum(U) == SumFunctionOnSet(f, U)
             B == {U \in SUBSET T : ~ (sum(S \cup U) = sum(S) + sum(U))}
  <1>b. B \subseteq SUBSET T OBVIOUS
  <1>s. sum(S) \in Int BY SumType
  <1>1. ASSUME B # {} PROVE FALSE
    <2>m. \E U \in B : \A V \in B : V \subseteq U => V = U
      <3> HIDE DEF B
      <3>1. QED BY <1>1, <1>b, Smallest
    <2>1. PICK U \in B : \A V \in B : V \subseteq U => V = U BY <2>m
    <2>2. ASSUME U = {} PROVE FALSE
      <3>1. S \cup U = S BY <2>2
      <3>2. sum(U) = 0 BY <2>2, SumEmpty, Zenon
      <3>3. sum(S \cup U) = sum(S) BY <3>1, Zenon
      <3>4. ~ (sum(S \cup U) = sum(S) + sum(U)) BY <2>1
      <3> HIDE DEF sum
      <3>5. QED BY <1>s, <3>2, <3>3, <3>4
    <2>3. PICK x \in U : TRUE BY <2>2
    <2> DEFINE W == U \ {x}
    <2>4. W \in SUBSET T /\ W \notin B BY <2>1, <2>3
    <2>5. sum(S \cup W) = sum(S) + sum(W) BY <2>4
    <2>6. /\ IsFiniteSet(W) /\ x \notin W /\ U = W \cup {x} /\ W \subseteq T /\ x \in T
          /\ x \notin S \cup W /\ S \cup U = (S \cup W) \cup {x}
      BY <2>1, <2>3, FS_Subset
    <2>7. IsFiniteSet(S \cup W) BY <2>6, FS_Union
    <2>8. \A y \in (S \cup W) \cup {x} : f[y] \in Int BY <2>6
    <2>9. ~ (sum(S \cup U) = sum(S) + sum(U)) BY <2>1
    <2> HIDE DEF W, B, sum
    <2>10. sum((S \cup W) \cup {x}) = sum(S \cup W) + f[x] BY <2>6, <2>7, <2>8, SumAdd DEF sum
    <2>11. sum(W \cup {x}) = sum(W) + f[x] BY <2>6, <2>8, SumAdd DEF sum
    <2>12. sum(W) \in Int /\ f[x] \in Int BY <2>6, <2>8, SumType DEF sum
    <2>13. sum(S \cup U) = sum(S \cup W) + f[x] /\ sum(U) = sum(W) + f[x] BY <2>6, <2>10, <2>11, Zenon
    <2>14. QED BY <2>5, <2>9, <2>12, <2>13, <1>s
  <1>2. T \in SUBSET T OBVIOUS
  <1>3. QED BY <1>1, <1>2

\* A part adds up to no more than the whole, if nothing is below 0.
LEMMA SumPart ==
  ASSUME NEW f, NEW S, NEW T \in SUBSET S, IsFiniteSet(S), \A x \in S : f[x] \in Nat
  PROVE  SumFunctionOnSet(f, T) <= SumFunctionOnSet(f, S)
  <1> DEFINE B == {U \in SUBSET (S \ T) : ~ (SumFunctionOnSet(f, T) <= SumFunctionOnSet(f, T \cup U))}
  <1>b. B \subseteq SUBSET (S \ T) OBVIOUS
  <1>f. IsFiniteSet(S \ T) /\ IsFiniteSet(T) BY FS_Subset
  <1>1. ASSUME B # {} PROVE FALSE
    <2>m. \E U \in B : \A V \in B : V \subseteq U => V = U
      <3> HIDE DEF B
      <3>1. QED BY <1>1, <1>b, <1>f, Smallest
    <2>1. PICK U \in B : \A V \in B : V \subseteq U => V = U BY <2>m
    <2>2. SumFunctionOnSet(f, T) \in Int BY <1>f, SumType
    <2>3. U # {}
      <3>1. T \cup {} = T OBVIOUS
      <3>2. QED BY <2>1, <2>2, <3>1
    <2>4. PICK x \in U : TRUE BY <2>3
    <2>5. U \ {x} \in SUBSET (S \ T) /\ U \ {x} \notin B BY <2>1, <2>4
    <2> DEFINE R == T \cup (U \ {x})
    <2>6. SumFunctionOnSet(f, T) <= SumFunctionOnSet(f, R) BY <2>5
    <2>7. IsFiniteSet(R) /\ R \subseteq S /\ x \notin R /\ x \in S /\ T \cup U = R \cup {x} BY <2>1, <2>4, FS_Subset
    <2>a. ~ (SumFunctionOnSet(f, T) <= SumFunctionOnSet(f, R \cup {x})) BY <2>1, <2>7
    <2>b. \A y \in R \cup {x} : f[y] \in Int BY <2>7
    <2> HIDE DEF R, B
    <2>8. SumFunctionOnSet(f, R \cup {x}) = SumFunctionOnSet(f, R) + f[x] BY <2>7, <2>b, SumAdd
    <2>9. SumFunctionOnSet(f, R) \in Int /\ f[x] \in Nat BY <2>7, SumType
    <2>10. QED BY <2>a, <2>2, <2>6, <2>8, <2>9
  <1>2. S \ T \in SUBSET (S \ T) /\ T \cup (S \ T) = S OBVIOUS
  <1>3. QED BY <1>1, <1>2

\* A function that adds up its own way is the library's sum.
LEMMA SumBy ==
  ASSUME NEW f, NEW S, IsFiniteSet(S), NEW g, Sums(g, f, S)
  PROVE  g[S] = SumFunctionOnSet(f, S)
  <1>1. Sums(Table(f, S), f, S) BY Exists DEF Table
  <1>2. S \in SUBSET S OBVIOUS
  <1>3. g[S] = Table(f, S)[S] BY <1>1, <1>2, Agree
  <1>4. QED BY <1>3, SumIs, Zenon

-----------------------------------------------------------------------------
\* A finite set of integers, unless empty, has a greatest element and a least.
LEMMA Greatest ==
  \A S : S \subseteq Int /\ IsFiniteSet(S) /\ S # {} => \E d \in S : \A c \in S : c <= d
  <1>0. SUFFICES ASSUME NEW S, S \subseteq Int, IsFiniteSet(S), S # {}
                 PROVE  \E d \in S : \A c \in S : c <= d
    OBVIOUS
  <1> DEFINE B == {T \in SUBSET S : T # {} /\ ~\E d \in T : \A c \in T : c <= d}
  <1>b. B \subseteq SUBSET S OBVIOUS
  <1>1. SUFFICES ASSUME B # {} PROVE FALSE BY <1>0
  <1>m. \E T \in B : \A U \in B : U \subseteq T => U = T
    <2> HIDE DEF B
    <2>1. IsFiniteSet(S) BY <1>0
    <2>2. QED BY <1>1, <1>b, <2>1, Smallest
  <1>2. PICK T \in B : \A U \in B : U \subseteq T => U = T BY <1>m
  <1>3. PICK x \in T : TRUE BY <1>2
  <1>4. x \in Int /\ ~(\A c \in T : c <= x) BY <1>0, <1>2, <1>3
  <1>5. T \ {x} # {} /\ T \ {x} \in SUBSET S /\ T \ {x} # T BY <1>2, <1>3, <1>4
  <1>6. PICK d \in T \ {x} : \A c \in T \ {x} : c <= d BY <1>2, <1>5
  <1>7. d \in T /\ d \in Int BY <1>0, <1>2, <1>6
  <1>8. CASE x <= d
    <2>1. \A c \in T : c <= d BY <1>6, <1>8
    <2>2. QED BY <1>2, <1>7, <2>1
  <1>9. CASE ~(x <= d)
    <2>1. \A c \in T : c \in Int BY <1>0, <1>2
    <2>2. \A c \in T : c <= x BY <2>1, <1>4, <1>6, <1>7, <1>9
    <2>3. QED BY <1>4, <2>2
  <1>10. QED BY <1>8, <1>9

-----------------------------------------------------------------------------
(* The units of a ledger's lines *)

UnitSum(S) == MapThenSumSet(LAMBDA e : e.units, S)

\* The sum over a set of records is the sum of a function.
LEMMA UnitSumIs ==
  ASSUME NEW S, IsFiniteSet(S) PROVE UnitSum(S) = SumFunctionOnSet([e \in S |-> e.units], S)
  <1> DEFINE f == [e \in S |-> e.units]
             G(g) == [T \in SUBSET S |-> IF T = {} THEN 0 ELSE Pick(T).units + g[T \ {Pick(T)}]]
             h == CHOOSE g : g = G(g)
  <1>1. UnitSum(S) = h[S] BY DEF UnitSum, MapThenSumSet, MapThenFoldSet, Pick
  <1>2. \A g : Sums(g, f, S) <=> g = G(g)
    <2>1. \A T \in SUBSET S : T # {} => f[Pick(T)] = Pick(T).units BY DEF Pick
    <2>2. QED BY <2>1 DEF Sums
  <1> HIDE DEF f, G
  <1>3. \E g : g = G(g) BY <1>2, Exists
  <1>4. h = G(h) BY <1>3, Zenon
  <1>5. Sums(h, f, S) BY <1>2, <1>4
  <1>6. QED BY <1>1, <1>5, SumBy DEF f

LEMMA UnitSumEmpty == UnitSum({}) = 0
  <1>1. UnitSum({}) = SumFunctionOnSet([e \in {} |-> e.units], {}) BY UnitSumIs, FS_EmptySet
  <1>2. QED BY <1>1, SumEmpty

LEMMA UnitSumType ==
  ASSUME NEW S, IsFiniteSet(S), \A e \in S : e.units \in Int PROVE UnitSum(S) \in Int
  <1> DEFINE f == [e \in S |-> e.units]
  <1>1. \A e \in S : f[e] \in Int OBVIOUS
  <1> HIDE DEF f
  <1>2. SumFunctionOnSet(f, S) \in Int BY <1>1, SumType
  <1>3. QED BY <1>2, UnitSumIs DEF f

\* A line is added.
LEMMA UnitSumAdd ==
  ASSUME NEW S, NEW x, IsFiniteSet(S), x \notin S, \A e \in S \cup {x} : e.units \in Int
  PROVE  UnitSum(S \cup {x}) = UnitSum(S) + x.units
  <1> DEFINE f == [e \in S \cup {x} |-> e.units]
             g == [e \in S |-> e.units]
  <1>1. \A e \in S \cup {x} : f[e] \in Int OBVIOUS
  <1>2. \A e \in S : f[e] = g[e] OBVIOUS
  <1>3. f[x] = x.units OBVIOUS
  <1>4. IsFiniteSet(S \cup {x}) BY FS_AddElement
  <1>5. UnitSum(S \cup {x}) = SumFunctionOnSet(f, S \cup {x}) /\ UnitSum(S) = SumFunctionOnSet(g, S)
    BY <1>4, UnitSumIs
  <1> HIDE DEF f, g
  <1>6. SumFunctionOnSet(f, S \cup {x}) = SumFunctionOnSet(f, S) + f[x] BY <1>1, SumAdd
  <1>7. SumFunctionOnSet(f, S) = SumFunctionOnSet(g, S) BY <1>2, SumSame
  <1>8. QED BY <1>3, <1>5, <1>6, <1>7

\* A set has no more elements than the sets that cover it have together.
LEMMA CoveredBy ==
  ASSUME NEW S, IsFiniteSet(S), NEW D, NEW f, \A x \in S : IsFiniteSet(D[x]) /\ f[x] = Cardinality(D[x]),
         NEW A, \A a \in A : \E x \in S : a \in D[x]
  PROVE  IsFiniteSet(A) /\ Cardinality(A) <= SumFunctionOnSet(f, S)
  <1> DEFINE C(T) == {a \in A : \E x \in T : a \in D[x]}
             Ok(T) == IsFiniteSet(C(T)) /\ Cardinality(C(T)) <= SumFunctionOnSet(f, T)
             B == {T \in SUBSET S : ~ Ok(T)}
  <1>b. B \subseteq SUBSET S OBVIOUS
  <1>1. ASSUME B # {} PROVE FALSE
    <2>m. \E U \in B : \A V \in B : V \subseteq U => V = U
      <3> HIDE DEF B
      <3>1. QED BY <1>1, <1>b, Smallest
    <2>1. PICK T \in B : \A V \in B : V \subseteq T => V = T BY <2>m
    <2>2. ASSUME T = {} PROVE FALSE
      <3>1. C(T) = {} BY <2>2
      <3>2. SumFunctionOnSet(f, T) = 0 BY <2>2, SumEmpty, Zenon
      <3>3. IsFiniteSet(C(T)) /\ Cardinality(C(T)) = 0
        <4> HIDE DEF C
        <4>1. QED BY <3>1, FS_EmptySet
      <3>4. Ok(T)
        <4> HIDE DEF C
        <4>1. QED BY <3>2, <3>3
      <3>5. QED BY <2>1, <3>4
    <2>3. PICK x \in T : TRUE BY <2>2
    <2> DEFINE W == T \ {x}
    <2>4. W \in SUBSET S /\ W \notin B BY <2>1, <2>3
    <2>5. Ok(W) BY <2>4
    <2>6. x \in S /\ x \notin W /\ T = W \cup {x} /\ IsFiniteSet(W) BY <2>1, <2>3, <2>4, FS_Subset
    <2>7. C(T) \subseteq C(W) \cup D[x] BY <2>6
    <2>8. IsFiniteSet(D[x]) /\ f[x] = Cardinality(D[x]) /\ f[x] \in Nat BY <2>6, FS_CardinalityType
    <2>9. \A y \in W \cup {x} : f[y] \in Int BY <2>4, <2>6, FS_CardinalityType
    <2>o. ~ Ok(T) BY <2>1
    <2> HIDE DEF W, B
    <2>10. SumFunctionOnSet(f, W \cup {x}) = SumFunctionOnSet(f, W) + f[x] BY <2>6, <2>9, SumAdd
    <2>11. SumFunctionOnSet(f, W) \in Int BY <2>6, <2>9, SumType
    <2> HIDE DEF C
    <2>12. IsFiniteSet(C(W)) /\ Cardinality(C(W)) \in Nat /\ Cardinality(C(W)) <= SumFunctionOnSet(f, W)
      BY <2>5, FS_CardinalityType
    <2>13. IsFiniteSet(C(W) \cup D[x]) /\ Cardinality(C(W) \cup D[x]) <= Cardinality(C(W)) + f[x]
      <3>1. IsFiniteSet(C(W) \cap D[x]) /\ Cardinality(C(W) \cap D[x]) \in Nat
        BY <2>12, FS_Intersection, FS_CardinalityType
      <3>2. IsFiniteSet(C(W) \cup D[x])
            /\ Cardinality(C(W) \cup D[x]) = Cardinality(C(W)) + Cardinality(D[x]) - Cardinality(C(W) \cap D[x])
        BY <2>8, <2>12, FS_Union
      <3>3. QED BY <2>8, <2>12, <3>1, <3>2
    <2>14. IsFiniteSet(C(T)) /\ Cardinality(C(T)) <= Cardinality(C(W) \cup D[x])
      BY <2>7, <2>13, FS_Subset
    <2>15. Cardinality(C(T)) \in Nat /\ Cardinality(C(W) \cup D[x]) \in Nat BY <2>13, <2>14, FS_CardinalityType
    <2>16. SumFunctionOnSet(f, T) = SumFunctionOnSet(f, W) + f[x] BY <2>6, <2>10, Zenon
    <2>17. Ok(T) BY <2>8, <2>11, <2>12, <2>13, <2>14, <2>15, <2>16
    <2>18. QED BY <2>o, <2>17
  <1>2. S \in SUBSET S /\ C(S) = A OBVIOUS
  <1>3. Ok(S) BY <1>1, <1>2
  <1> HIDE DEF C
  <1>4. QED BY <1>2, <1>3

\* The sum over two sets that have nothing in common.
LEMMA UnitSumUnion ==
  ASSUME NEW S, NEW T, IsFiniteSet(S), IsFiniteSet(T), S \cap T = {}, \A e \in S \cup T : e.units \in Int
  PROVE  UnitSum(S \cup T) = UnitSum(S) + UnitSum(T)
  <1> DEFINE f == [e \in S \cup T |-> e.units]
             g == [e \in S |-> e.units]
             h == [e \in T |-> e.units]
  <1>1. \A e \in S \cup T : f[e] \in Int OBVIOUS
  <1>2. (\A e \in S : f[e] = g[e]) /\ (\A e \in T : f[e] = h[e]) OBVIOUS
  <1>3. IsFiniteSet(S \cup T) BY FS_Union
  <1>4. UnitSum(S \cup T) = SumFunctionOnSet(f, S \cup T) /\ UnitSum(S) = SumFunctionOnSet(g, S) /\ UnitSum(T) = SumFunctionOnSet(h, T)
    BY <1>3, UnitSumIs
  <1> HIDE DEF f, g, h
  <1>5. SumFunctionOnSet(f, S \cup T) = SumFunctionOnSet(f, S) + SumFunctionOnSet(f, T) BY <1>1, SumUnion
  <1>6. SumFunctionOnSet(f, S) = SumFunctionOnSet(g, S) /\ SumFunctionOnSet(f, T) = SumFunctionOnSet(h, T) BY <1>2, SumSame
  <1>7. QED BY <1>4, <1>5, <1>6
=============================================================================
