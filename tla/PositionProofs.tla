--------------------------- MODULE PositionProofs ---------------------------
(***************************************************************************)
(* What the proofs about the ledger share: facts about sums over finite    *)
(* sets and over sequences of entries.                                     *)
(*                                                                         *)
(* A sum is that of a function over a set of its arguments, so that every  *)
(* fact below is about values: an induction over the set is an instance of *)
(* the set being the least counterexample, taken from the library's        *)
(* theorem that strict inclusion is well-founded on finite sets.           *)
(***************************************************************************)
EXTENDS Integers, Sequences, Functions, FiniteSets, FiniteSetTheorems, WellFoundedInduction, TLAPS

-----------------------------------------------------------------------------
(* Induction over finite sets.                                             *)

\* Among finite sets some has none of the others as a proper subset.
LEMMA LeastFiniteSet ==
  ASSUME NEW F, F # {}, \A S \in F : IsFiniteSet(S)
  PROVE  \E S \in F : \A R \in F : R \subseteq S => R = S
<1> DEFINE U == UNION F
<1>1. F \subseteq FiniteSubsetsOf(U)
  BY DEF FiniteSubsetsOf
<1>2. IsWellFoundedOn(StrictSubsetOrdering(U), FiniteSubsetsOf(U))
  BY FS_StrictSubsetOrderingWellFounded
<1>3. PICK S \in F : \A R \in F : ~(<<R, S>> \in StrictSubsetOrdering(U))
  BY <1>1, <1>2, WFMin
<1>4. ASSUME NEW R \in F, R \subseteq S, R # S PROVE FALSE
  BY <1>3, <1>4 DEF StrictSubsetOrdering
<1> QED
  BY <1>3, <1>4

\* A collection with the empty set and, with every subset of S, the subset with
\* one more element of S, contains a finite S.
LEMMA FiniteInduction ==
  ASSUME NEW S, IsFiniteSet(S), NEW G,
         {} \in G,
         \A T \in SUBSET S, x \in S : T \in G /\ x \notin T => T \cup {x} \in G
  PROVE  S \in G
<1> DEFINE F == {T \in SUBSET S : T \notin G}
<1> SUFFICES ASSUME F # {} PROVE FALSE
  OBVIOUS
<1>1. \A T \in F : IsFiniteSet(T)
  BY FS_Subset
<1> HIDE DEF F
<1>2. PICK T \in F : \A R \in F : R \subseteq T => R = T
  BY <1>1, LeastFiniteSet
<1>3. PICK x : x \in T
  BY <1>2 DEF F
<1>4. T \ {x} \notin F
  BY <1>2, <1>3
<1>5. (T \ {x}) \cup {x} \in G
  BY <1>2, <1>3, <1>4 DEF F
<1>6. (T \ {x}) \cup {x} = T
  BY <1>3
<1> QED
  BY <1>2, <1>5, <1>6 DEF F

-----------------------------------------------------------------------------
(* SumFunctionOnSet is what it is meant to be.                             *)

\* The element the fold takes out of a set first.
Some(S) == CHOOSE x \in S : TRUE

LEMMA SomeIn ==
  ASSUME NEW S, S # {}
  PROVE  Some(S) \in S
BY DEF Some

\* The defining equation of the fold's table of the sums over the subsets of S.
IsTable(f, S, t) ==
  t = [R \in SUBSET S |-> IF R = {} THEN 0 ELSE f[Some(R)] + t[R \ {Some(R)}]]

Table(f, S) == CHOOSE t : IsTable(f, S, t)

\* The sum is looked up in the table.
LEMMA SumIsInTable ==
  ASSUME NEW f, NEW S
  PROVE  SumFunctionOnSet(f, S) = Table(f, S)[S]
BY DEF SumFunctionOnSet, FoldFunctionOnSet, MapThenFoldSet, Table, IsTable, Some

Unfolds(f, S) ==
  SumFunctionOnSet(f, S) =
    IF S = {} THEN 0 ELSE f[Some(S)] + SumFunctionOnSet(f, S \ {Some(S)})

\* The sum over a finite set satisfies the equation its definition recurs by.
LEMMA SumUnfolds ==
  ASSUME NEW f, NEW S, IsFiniteSet(S)
  PROVE  Unfolds(f, S)
<1> DEFINE Bad == {R \in SUBSET S : ~Unfolds(f, R)}
           Sum(R) == SumFunctionOnSet(f, R)
           IsSum(R) == Sum(R) = IF R = {} THEN 0 ELSE f[Some(R)] + Sum(R \ {Some(R)})
<1> SUFFICES ASSUME Bad # {} PROVE FALSE
  OBVIOUS
<1>1. \A R \in Bad : IsFiniteSet(R)
  BY FS_Subset
<1>2. PICK T \in Bad : \A R \in Bad : R \subseteq T => R = T
  <2> HIDE DEF Bad
  <2> QED
    BY <1>1, LeastFiniteSet
<1>3. IsFiniteSet(T) /\ ~IsSum(T) /\ \A R \in SUBSET T : R # T => IsSum(R)
  BY <1>1, <1>2 DEF Unfolds
<1> HIDE DEF Bad, Sum
\* The table exists: it is built from the sums over the smaller sets.
<1> DEFINE built == [R \in SUBSET T |-> IF R # T THEN Sum(R)
                                        ELSE IF T = {} THEN 0
                                        ELSE f[Some(T)] + Sum(T \ {Some(T)})]
<1>4. IsTable(f, T, built)
  <2>1. ASSUME NEW R \in SUBSET T
        PROVE  built[R] = IF R = {} THEN 0 ELSE f[Some(R)] + built[R \ {Some(R)}]
    <3>1. CASE R = {}
      BY <1>3, <3>1
    <3>2. CASE R # {}
      <4>1. Some(R) \in R
        BY <3>2, SomeIn
      <4>2. R \ {Some(R)} \in SUBSET T /\ R \ {Some(R)} # T
        BY <4>1
      <4>3. built[R \ {Some(R)}] = Sum(R \ {Some(R)})
        BY <4>2
      <4>4. built[R] = f[Some(R)] + Sum(R \ {Some(R)})
        BY <1>3, <3>2
      <4> QED
        BY <3>2, <4>3, <4>4
    <3> QED
      BY <3>1, <3>2
  <2> HIDE DEF built
  <2>2. built = [R \in SUBSET T |-> built[R]]
    BY DEF built
  <2> QED
    BY <2>1, <2>2 DEF IsTable
<1> HIDE DEF built
<1> DEFINE table == Table(f, T)
<1>5. IsTable(f, T, table)
  BY <1>4 DEF Table
<1>6. Sum(T) = table[T]
  BY SumIsInTable DEF Sum
<1> HIDE DEF table
<1>7. \A R \in SUBSET T : table[R] = IF R = {} THEN 0 ELSE f[Some(R)] + table[R \ {Some(R)}]
  BY <1>5 DEF IsTable
\* The table has the sums over the smaller sets in it.
<1>8. \A R \in SUBSET T : R # T => table[R] = Sum(R)
  <2> DEFINE Off == {R \in SUBSET T : R # T /\ table[R] # Sum(R)}
  <2> SUFFICES ASSUME Off # {} PROVE FALSE
    OBVIOUS
  <2>1. \A R \in Off : IsFiniteSet(R)
    BY <1>3, FS_Subset
  <2>2. PICK R \in Off : \A Q \in Off : Q \subseteq R => Q = R
    <3> HIDE DEF Off
    <3> QED
      BY <2>1, LeastFiniteSet
  <2>3. R # {}
    BY <1>3, <1>7, <2>2
  <2>4. Some(R) \in R
    BY <2>3, SomeIn
  <2>5. table[R \ {Some(R)}] = Sum(R \ {Some(R)})
    BY <2>2, <2>4
  <2> QED
    BY <1>3, <1>7, <2>2, <2>3, <2>5
<1>9. CASE T = {}
  BY <1>3, <1>6, <1>7, <1>9
<1>10. CASE T # {}
  BY <1>3, <1>6, <1>7, <1>8, <1>10, SomeIn
<1> QED
  BY <1>9, <1>10

\* Nothing adds up to zero.
LEMMA SumEmpty ==
  ASSUME NEW f
  PROVE  SumFunctionOnSet(f, {}) = 0
BY SumUnfolds, FS_EmptySet DEF Unfolds

\* The sum of integers is an integer.
LEMMA SumType ==
  ASSUME NEW S, IsFiniteSet(S), NEW f, \A x \in S : f[x] \in Int
  PROVE  SumFunctionOnSet(f, S) \in Int
<1> DEFINE Sum(T) == SumFunctionOnSet(f, T)
           F == {T \in SUBSET S : Sum(T) \notin Int}
<1> SUFFICES ASSUME F # {} PROVE FALSE
  OBVIOUS
<1>1. \A T \in F : IsFiniteSet(T)
  BY FS_Subset
<1>2. PICK T \in F : \A R \in F : R \subseteq T => R = T
  <2> HIDE DEF F
  <2> QED
    BY <1>1, LeastFiniteSet
<1>3. Sum(T) = IF T = {} THEN 0 ELSE f[Some(T)] + Sum(T \ {Some(T)})
  BY <1>1, <1>2, SumUnfolds DEF Unfolds
<1> HIDE DEF Sum
<1>4. T # {} /\ Some(T) \in T
  BY <1>2, <1>3, SomeIn
<1>5. Sum(T \ {Some(T)}) \in Int
  BY <1>2, <1>4
<1> QED
  BY <1>2, <1>3, <1>4, <1>5

\* Any element can be taken out first.
LEMMA SumTakeOut ==
  ASSUME NEW S, IsFiniteSet(S), NEW f, \A y \in S : f[y] \in Int, NEW x \in S
  PROVE  SumFunctionOnSet(f, S) = f[x] + SumFunctionOnSet(f, S \ {x})
<1> DEFINE Sum(T) == SumFunctionOnSet(f, T)
           F == {T \in SUBSET S : \E y \in T : Sum(T) # f[y] + Sum(T \ {y})}
<1> SUFFICES ASSUME F # {} PROVE FALSE
  OBVIOUS
<1>1. \A T \in F : IsFiniteSet(T)
  BY FS_Subset
<1>2. PICK T \in F : \A R \in F : R \subseteq T => R = T
  <2> HIDE DEF F
  <2> QED
    BY <1>1, LeastFiniteSet
<1>3. \A R \in SUBSET T : Sum(R) = IF R = {} THEN 0 ELSE f[Some(R)] + Sum(R \ {Some(R)})
  BY <1>1, <1>2, SumUnfolds, FS_Subset DEF Unfolds
<1>4. \A R \in SUBSET T : Sum(R) \in Int
  BY <1>1, <1>2, SumType, FS_Subset
<1> HIDE DEF Sum
<1>5. PICK y \in T : Sum(T) # f[y] + Sum(T \ {y})
  BY <1>2
<1> DEFINE c == Some(T)
<1>6. c \in T
  BY SomeIn
<1> HIDE DEF c
<1>7. Sum(T) = f[c] + Sum(T \ {c})
  BY <1>3 DEF c
<1>8. c # y
  BY <1>5, <1>7
<1>9. ASSUME NEW a \in T, NEW b \in T, a # b
      PROVE  Sum(T \ {a}) = f[b] + Sum((T \ {a}) \ {b})
  <2>1. T \ {a} \in SUBSET S /\ T \ {a} \notin F /\ b \in T \ {a}
    BY <1>2, <1>9
  <2> QED
    BY <2>1
<1> DEFINE rest == Sum(T \ {c, y})
<1>10. Sum(T \ {c}) = f[y] + rest /\ Sum(T \ {y}) = f[c] + rest
  <2>1. (T \ {c}) \ {y} = T \ {c, y} /\ (T \ {y}) \ {c} = T \ {c, y}
    OBVIOUS
  <2>2. Sum(T \ {c}) = f[y] + Sum((T \ {c}) \ {y})
    BY <1>6, <1>8, <1>9
  <2>3. Sum(T \ {y}) = f[c] + Sum((T \ {y}) \ {c})
    BY <1>6, <1>8, <1>9
  <2> QED
    BY <2>1, <2>2, <2>3
<1>11. f[c] \in Int /\ f[y] \in Int /\ rest \in Int
  BY <1>2, <1>4, <1>6
<1> HIDE DEF rest, F
<1> QED
  BY <1>5, <1>7, <1>10, <1>11

\* An element can be put in.
LEMMA SumPutIn ==
  ASSUME NEW S, IsFiniteSet(S), NEW x, x \notin S,
         NEW f, \A y \in S : f[y] \in Int, f[x] \in Int
  PROVE  SumFunctionOnSet(f, S \cup {x}) = SumFunctionOnSet(f, S) + f[x]
<1>1. IsFiniteSet(S \cup {x}) /\ (S \cup {x}) \ {x} = S
  BY FS_AddElement
<1>2. SumFunctionOnSet(f, S \cup {x}) = f[x] + SumFunctionOnSet(f, S)
  BY <1>1, SumTakeOut
<1> QED
  BY <1>2, SumType

\* Functions that agree on a set have the same sum over it.
LEMMA SumEqual ==
  ASSUME NEW S, IsFiniteSet(S), NEW f, NEW g,
         \A x \in S : f[x] \in Int /\ f[x] = g[x]
  PROVE  SumFunctionOnSet(f, S) = SumFunctionOnSet(g, S)
<1> DEFINE G == {T \in SUBSET S : SumFunctionOnSet(f, T) = SumFunctionOnSet(g, T)}
<1> HIDE DEF G
<1>1. {} \in G
  BY SumEmpty DEF G
<1>2. ASSUME NEW T \in SUBSET S, NEW x \in S, T \in G, x \notin T PROVE T \cup {x} \in G
  <2>1. /\ SumFunctionOnSet(f, T \cup {x}) = SumFunctionOnSet(f, T) + f[x]
        /\ SumFunctionOnSet(g, T \cup {x}) = SumFunctionOnSet(g, T) + g[x]
    BY <1>2, SumPutIn, FS_Subset
  <2> QED
    BY <1>2, <2>1 DEF G
<1>3. S \in G
  BY <1>1, <1>2, FiniteInduction
<1> QED
  BY <1>3 DEF G

\* What is zero everywhere adds up to zero.
LEMMA SumZero ==
  ASSUME NEW S, IsFiniteSet(S), NEW f, \A x \in S : f[x] = 0
  PROVE  SumFunctionOnSet(f, S) = 0
<1> DEFINE G == {T \in SUBSET S : SumFunctionOnSet(f, T) = 0}
<1> HIDE DEF G
<1>1. {} \in G
  BY SumEmpty DEF G
<1>2. ASSUME NEW T \in SUBSET S, NEW x \in S, T \in G, x \notin T PROVE T \cup {x} \in G
  <2>1. SumFunctionOnSet(f, T \cup {x}) = SumFunctionOnSet(f, T) + f[x]
    <3>1. IsFiniteSet(T) /\ f[x] \in Int /\ \A y \in T : f[y] \in Int
      BY FS_Subset
    <3> QED
      BY <1>2, <3>1, SumPutIn
  <2> QED
    BY <1>2, <2>1 DEF G
<1>3. S \in G
  BY <1>1, <1>2, FiniteInduction
<1> QED
  BY <1>3 DEF G

\* The sum of a sum of functions.
LEMMA SumAdd ==
  ASSUME NEW S, IsFiniteSet(S), NEW f, NEW g, NEW h,
         \A x \in S : f[x] \in Int /\ g[x] \in Int /\ h[x] = f[x] + g[x]
  PROVE  SumFunctionOnSet(h, S) = SumFunctionOnSet(f, S) + SumFunctionOnSet(g, S)
<1> DEFINE G == {T \in SUBSET S : SumFunctionOnSet(h, T)
                                    = SumFunctionOnSet(f, T) + SumFunctionOnSet(g, T)}
<1> HIDE DEF G
<1>1. {} \in G
  BY SumEmpty DEF G
<1>2. ASSUME NEW T \in SUBSET S, NEW x \in S, T \in G, x \notin T PROVE T \cup {x} \in G
  <2>1. /\ IsFiniteSet(T)
        /\ f[x] \in Int /\ g[x] \in Int /\ h[x] \in Int /\ h[x] = f[x] + g[x]
        /\ \A y \in T : f[y] \in Int /\ g[y] \in Int /\ h[y] \in Int
    BY FS_Subset
  <2>2. /\ SumFunctionOnSet(f, T \cup {x}) = SumFunctionOnSet(f, T) + f[x]
        /\ SumFunctionOnSet(g, T \cup {x}) = SumFunctionOnSet(g, T) + g[x]
        /\ SumFunctionOnSet(h, T \cup {x}) = SumFunctionOnSet(h, T) + h[x]
    BY <1>2, <2>1, SumPutIn
  <2>3. SumFunctionOnSet(f, T) \in Int /\ SumFunctionOnSet(g, T) \in Int
    BY <2>1, SumType
  <2> QED
    BY <1>2, <2>1, <2>2, <2>3 DEF G
<1>3. S \in G
  BY <1>1, <1>2, FiniteInduction
<1> QED
  BY <1>3 DEF G

\* The sum of what is nowhere negative is not negative.
LEMMA SumNonNegative ==
  ASSUME NEW S, IsFiniteSet(S), NEW f, \A x \in S : f[x] \in Nat
  PROVE  SumFunctionOnSet(f, S) \in Nat
<1> DEFINE G == {T \in SUBSET S : SumFunctionOnSet(f, T) \in Nat}
<1> HIDE DEF G
<1>1. {} \in G
  BY SumEmpty DEF G
<1>2. ASSUME NEW T \in SUBSET S, NEW x \in S, T \in G, x \notin T PROVE T \cup {x} \in G
  <2>1. SumFunctionOnSet(f, T \cup {x}) = SumFunctionOnSet(f, T) + f[x]
    BY <1>2, SumPutIn, FS_Subset
  <2> QED
    BY <1>2, <2>1 DEF G
<1>3. S \in G
  BY <1>1, <1>2, FiniteInduction
<1> QED
  BY <1>3 DEF G

\* Nor is it less than any of its terms.
LEMMA SumCoversTerm ==
  ASSUME NEW S, IsFiniteSet(S), NEW f, \A y \in S : f[y] \in Nat, NEW x \in S
  PROVE  f[x] <= SumFunctionOnSet(f, S)
<1>1. SumFunctionOnSet(f, S) = f[x] + SumFunctionOnSet(f, S \ {x})
  BY SumTakeOut
<1>2. SumFunctionOnSet(f, S \ {x}) \in Nat
  BY SumNonNegative, FS_RemoveElement
<1> QED
  BY <1>1, <1>2

\* The terms that are zero can be left out.
LEMMA SumLeaveOut ==
  ASSUME NEW S, IsFiniteSet(S), NEW T \in SUBSET S, NEW f,
         \A x \in S : f[x] \in Int, \A x \in S \ T : f[x] = 0
  PROVE  SumFunctionOnSet(f, S) = SumFunctionOnSet(f, T)
<1> DEFINE G == {R \in SUBSET S : SumFunctionOnSet(f, R) = SumFunctionOnSet(f, R \cap T)}
<1> HIDE DEF G
<1>1. {} \in G
  <2>1. {} \cap T = {}
    OBVIOUS
  <2> QED
    BY <2>1 DEF G
<1>2. ASSUME NEW R \in SUBSET S, NEW x \in S, R \in G, x \notin R PROVE R \cup {x} \in G
  <2>1. IsFiniteSet(R) /\ IsFiniteSet(R \cap T) /\ x \notin R \cap T
    BY <1>2, FS_Subset
  <2>2. SumFunctionOnSet(f, R \cup {x}) = SumFunctionOnSet(f, R) + f[x]
    BY <1>2, <2>1, SumPutIn
  <2>3. CASE x \in T
    <3>1. (R \cup {x}) \cap T = (R \cap T) \cup {x}
      BY <2>3
    <3>2. SumFunctionOnSet(f, (R \cap T) \cup {x}) = SumFunctionOnSet(f, R \cap T) + f[x]
      BY <2>1, SumPutIn
    <3> QED
      BY <1>2, <2>2, <3>1, <3>2 DEF G
  <2>4. CASE x \notin T
    <3>1. (R \cup {x}) \cap T = R \cap T /\ f[x] = 0
      BY <2>4
    <3>2. SumFunctionOnSet(f, R) \in Int
      BY <2>1, SumType
    <3>3. SumFunctionOnSet(f, R \cup {x}) = SumFunctionOnSet(f, R)
      BY <2>2, <3>1, <3>2
    <3>4. SumFunctionOnSet(f, R) = SumFunctionOnSet(f, R \cap T)
      BY <1>2 DEF G
    <3> QED
      BY <3>1, <3>3, <3>4, Zenon DEF G
  <2> QED
    BY <2>3, <2>4
<1>3. S \in G
  BY <1>1, <1>2, FiniteInduction
<1>4. S \cap T = T
  OBVIOUS
<1> QED
  BY <1>3, <1>4 DEF G

\* The only term that is not zero is the sum.
LEMMA SumOneTerm ==
  ASSUME NEW S, IsFiniteSet(S), NEW x \in S, NEW f, f[x] \in Int,
         \A y \in S : y # x => f[y] = 0
  PROVE  SumFunctionOnSet(f, S) = f[x]
<1>1. SumFunctionOnSet(f, S) = f[x] + SumFunctionOnSet(f, S \ {x})
  BY SumTakeOut
<1>2. SumFunctionOnSet(f, S \ {x}) = 0
  BY SumZero, FS_RemoveElement
<1> QED
  BY <1>1, <1>2

\* One term is changed and the sum changes with it.
LEMMA SumChange ==
  ASSUME NEW S, IsFiniteSet(S), NEW x \in S, NEW f, NEW g,
         \A y \in S : f[y] \in Int /\ g[y] \in Int,
         \A y \in S : y # x => g[y] = f[y]
  PROVE  SumFunctionOnSet(g, S) = SumFunctionOnSet(f, S) + (g[x] - f[x])
<1>1. /\ SumFunctionOnSet(f, S) = f[x] + SumFunctionOnSet(f, S \ {x})
      /\ SumFunctionOnSet(g, S) = g[x] + SumFunctionOnSet(g, S \ {x})
  BY SumTakeOut
<1>2. IsFiniteSet(S \ {x})
  BY FS_RemoveElement
<1>3. SumFunctionOnSet(f, S \ {x}) = SumFunctionOnSet(g, S \ {x})
  BY <1>2, SumEqual
<1>4. SumFunctionOnSet(f, S \ {x}) \in Int /\ f[x] \in Int /\ g[x] \in Int
  BY <1>2, SumType
<1> QED
  BY <1>1, <1>3, <1>4

\* The sum over two sets with nothing in common.
LEMMA SumUnion ==
  ASSUME NEW S, NEW T, IsFiniteSet(S), IsFiniteSet(T), S \cap T = {},
         NEW f, \A x \in S \cup T : f[x] \in Int
  PROVE  SumFunctionOnSet(f, S \cup T) = SumFunctionOnSet(f, S) + SumFunctionOnSet(f, T)
<1> DEFINE G == {R \in SUBSET T : SumFunctionOnSet(f, S \cup R)
                                    = SumFunctionOnSet(f, S) + SumFunctionOnSet(f, R)}
<1> HIDE DEF G
<1>1. {} \in G
  <2>1. SumFunctionOnSet(f, S) \in Int /\ S \cup {} = S
    BY SumType
  <2> QED
    BY <2>1, SumEmpty DEF G
<1>2. ASSUME NEW R \in SUBSET T, NEW x \in T, R \in G, x \notin R PROVE R \cup {x} \in G
  <2>1. /\ IsFiniteSet(R) /\ IsFiniteSet(S \cup R) /\ x \notin S \cup R
        /\ S \cup (R \cup {x}) = (S \cup R) \cup {x}
    BY <1>2, FS_Subset, FS_Union
  <2>2. SumFunctionOnSet(f, (S \cup R) \cup {x}) = SumFunctionOnSet(f, S \cup R) + f[x]
    BY <2>1, SumPutIn
  <2>3. SumFunctionOnSet(f, R \cup {x}) = SumFunctionOnSet(f, R) + f[x]
    BY <1>2, <2>1, SumPutIn
  <2>4. SumFunctionOnSet(f, S) \in Int /\ SumFunctionOnSet(f, R) \in Int /\ f[x] \in Int
    BY <2>1, SumType
  <2>5. SumFunctionOnSet(f, S \cup R) = SumFunctionOnSet(f, S) + SumFunctionOnSet(f, R)
    BY <1>2 DEF G
  <2>6. SumFunctionOnSet(f, S \cup (R \cup {x}))
          = SumFunctionOnSet(f, S) + SumFunctionOnSet(f, R \cup {x})
    <3>1. SumFunctionOnSet(f, S \cup (R \cup {x})) = SumFunctionOnSet(f, (S \cup R) \cup {x})
      BY <2>1, Zenon
    <3> QED
      BY <2>2, <2>3, <2>4, <2>5, <3>1
  <2> QED
    BY <2>6 DEF G
<1>3. T \in G
  BY <1>1, <1>2, FiniteInduction
<1> QED
  BY <1>3 DEF G

\* The terms can be named differently: h names each element of S once.
LEMMA SumRename ==
  ASSUME NEW S, IsFiniteSet(S), NEW h, NEW f, NEW g,
         \A x, y \in S : h[x] = h[y] => x = y,
         \A x \in S : g[h[x]] \in Int /\ f[x] = g[h[x]]
  PROVE  SumFunctionOnSet(f, S) = SumFunctionOnSet(g, {h[x] : x \in S})
<1> DEFINE Image(T) == {h[x] : x \in T}
           G == {T \in SUBSET S : /\ IsFiniteSet(Image(T))
                                  /\ SumFunctionOnSet(f, T) = SumFunctionOnSet(g, Image(T))}
<1> HIDE DEF G
<1>1. {} \in G
  <2>1. Image({}) = {}
    OBVIOUS
  <2> QED
    BY <2>1, SumEmpty, FS_EmptySet DEF G
<1>2. ASSUME NEW T \in SUBSET S, NEW x \in S, T \in G, x \notin T PROVE T \cup {x} \in G
  <2>1. Image(T \cup {x}) = Image(T) \cup {h[x]} /\ h[x] \notin Image(T)
    BY <1>2
  <2>2. /\ \A y \in T : f[y] \in Int
        /\ \A z \in Image(T) : g[z] \in Int
        /\ f[x] \in Int /\ f[x] = g[h[x]]
    OBVIOUS
  <2> HIDE DEF Image
  <2>3. IsFiniteSet(T) /\ IsFiniteSet(Image(T)) /\ IsFiniteSet(Image(T) \cup {h[x]})
    BY <1>2, FS_Subset, FS_AddElement DEF G
  <2>4. SumFunctionOnSet(f, T \cup {x}) = SumFunctionOnSet(f, T) + f[x]
    BY <1>2, <2>2, <2>3, SumPutIn
  <2>5. SumFunctionOnSet(g, Image(T) \cup {h[x]}) = SumFunctionOnSet(g, Image(T)) + g[h[x]]
    BY <2>1, <2>2, <2>3, SumPutIn
  <2> QED
    BY <1>2, <2>1, <2>2, <2>3, <2>4, <2>5 DEF G
<1>3. S \in G
  BY <1>1, <1>2, FiniteInduction
<1> QED
  BY <1>3 DEF G

\* The terms can be summed group by group: h names the group of a term.
LEMMA SumByGroup ==
  ASSUME NEW S, IsFiniteSet(S), NEW f, \A x \in S : f[x] \in Int,
         NEW D, IsFiniteSet(D), NEW h, \A x \in S : h[x] \in D,
         NEW group, \A d \in D : \A x : x \in group[d] <=> x \in S /\ h[x] = d,
         NEW g, \A d \in D : g[d] = SumFunctionOnSet(f, group[d])
  PROVE  SumFunctionOnSet(f, S) = SumFunctionOnSet(g, D)
<1> DEFINE Group(d) == {x \in S : h[x] = d}
           Groups(T) == {x \in S : h[x] \in T}
           G == {T \in SUBSET D : SumFunctionOnSet(f, Groups(T)) = SumFunctionOnSet(g, T)}
<1>1. \A d \in D : IsFiniteSet(Group(d)) /\ g[d] = SumFunctionOnSet(f, Group(d))
  <2> SUFFICES ASSUME NEW d \in D PROVE IsFiniteSet(Group(d)) /\ g[d] = SumFunctionOnSet(f, Group(d))
    OBVIOUS
  <2>1. group[d] = Group(d)
    OBVIOUS
  <2> QED
    BY <2>1, FS_Subset
<1>2. \A d \in D : g[d] \in Int
  <2> SUFFICES ASSUME NEW d \in D PROVE g[d] \in Int
    OBVIOUS
  <2>1. SumFunctionOnSet(f, Group(d)) \in Int
    BY <1>1, SumType
  <2> QED
    BY <1>1, <2>1
<1> HIDE DEF G
<1>3. {} \in G
  <2>1. Groups({}) = {}
    OBVIOUS
  <2> QED
    BY <2>1, SumEmpty DEF G
<1>4. ASSUME NEW T \in SUBSET D, NEW d \in D, T \in G, d \notin T PROVE T \cup {d} \in G
  <2>1. /\ Groups(T \cup {d}) = Groups(T) \cup Group(d)
        /\ Groups(T) \cap Group(d) = {}
        /\ \A x \in Groups(T) \cup Group(d) : f[x] \in Int
    BY <1>4
  <2>2. IsFiniteSet(Groups(T)) /\ IsFiniteSet(Group(d)) /\ IsFiniteSet(T)
    BY FS_Subset
  <2> HIDE DEF Group, Groups
  <2>3. SumFunctionOnSet(f, Groups(T) \cup Group(d)) = SumFunctionOnSet(f, Groups(T)) + SumFunctionOnSet(f, Group(d))
    BY <2>1, <2>2, SumUnion
  <2>4. SumFunctionOnSet(g, T \cup {d}) = SumFunctionOnSet(g, T) + g[d]
    <3>1. (\A y \in T : g[y] \in Int) /\ g[d] \in Int
      BY <1>2
    <3> QED
      BY <1>4, <2>2, <3>1, SumPutIn
  <2> QED
    BY <1>1, <1>4, <2>1, <2>3, <2>4 DEF G
<1>5. D \in G
  BY <1>3, <1>4, FiniteInduction
<1>6. Groups(D) = S
  OBVIOUS
<1> QED
  BY <1>5, <1>6 DEF G

=============================================================================
