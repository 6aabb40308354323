--------------------------------- MODULE Sums ---------------------------------
(***************************************************************************)
(* Lemmas about the sum of a function over a finite set, on which the      *)
(* averages, totals and widths of the other modules rest.  They are proved *)
(* by a least counterexample: the finite subsets of a set are well founded *)
(* by inclusion, so if a statement fails for one of them it fails for one  *)
(* all of whose proper subsets satisfy it.                                 *)
(***************************************************************************)
EXTENDS Functions, FiniteSetsExt, FiniteSetTheorems, WellFoundedInduction, TLAPS

\* Among finite sets that fail there is one without a smaller one that fails.
LEMMA LeastSet ==
    ASSUME NEW S, NEW Bad \in SUBSET FiniteSubsetsOf(S), Bad # {}
    PROVE  \E T \in Bad : \A U \in Bad : U \subseteq T => U = T
<1>1. IsWellFoundedOn(StrictSubsetOrdering(S), FiniteSubsetsOf(S))
  BY FS_StrictSubsetOrderingWellFounded
<1>2. \E T \in Bad : \A U \in Bad : <<U, T>> \notin StrictSubsetOrdering(S)
  BY <1>1, WFMin
<1> QED BY <1>2 DEF StrictSubsetOrdering, FiniteSubsetsOf

\* So what holds of a set when it holds of its proper subsets is not false of S.
LEMMA NoBadSubset ==
    ASSUME NEW S, IsFiniteSet(S), NEW Bad \in SUBSET SUBSET S,
           \A T \in SUBSET S :
               (\A U \in SUBSET T : U # T => U \notin Bad) => T \notin Bad
    PROVE  S \notin Bad
<1> SUFFICES ASSUME Bad # {} PROVE FALSE
  OBVIOUS
<1>1. Bad \in SUBSET FiniteSubsetsOf(S)
  BY FS_Subset DEF FiniteSubsetsOf
<1>2. \E T \in Bad : \A U \in Bad : U \subseteq T => U = T
  BY <1>1, LeastSet
<1> QED BY <1>2

------------------------------------------------------------------------------
(* The recursion by which the sum is defined *)

Some(s) == CHOOSE x \in s : TRUE

\* g has the sums of f over the subsets of S.
SumsBy(f, g, S) ==
    g = [s \in SUBSET S |-> IF s = {} THEN 0 ELSE f[Some(s)] + g[s \ {Some(s)}]]

\* What the sum of the library is.
LEMMA SumDefinition ==
    ASSUME NEW f, NEW S
    PROVE  SumFunctionOnSet(f, S) = (CHOOSE g : SumsBy(f, g, S))[S]
BY DEF SumFunctionOnSet, FoldFunctionOnSet, MapThenFoldSet, SumsBy, Some

\* A set that is not empty has the element the sum begins with.
LEMMA SomeElement ==
    ASSUME NEW s, s # {}
    PROVE  Some(s) \in s
BY DEF Some

\* The recursion has at most one solution.
LEMMA SumsUnique ==
    ASSUME NEW f, NEW S, IsFiniteSet(S), NEW g, NEW h, SumsBy(f, g, S), SumsBy(f, h, S)
    PROVE  g = h
<1> DEFINE Bad == {s \in SUBSET S : g[s] # h[s]}
<1>1. ASSUME NEW t \in SUBSET S
      PROVE  t \notin Bad
  <2>1. IsFiniteSet(t)
    BY FS_Subset
  <2> DEFINE BadBelow == {s \in SUBSET t : g[s] # h[s]}
  <2>2. ASSUME NEW T \in SUBSET t, \A U \in SUBSET T : U # T => U \notin BadBelow
        PROVE  T \notin BadBelow
    <3>1. CASE T = {}
      BY <3>1 DEF SumsBy
    <3>2. CASE T # {}
      <4>1. Some(T) \in T
        BY <3>2, SomeElement
      <4>2. T \ {Some(T)} \in SUBSET T /\ T \ {Some(T)} # T /\ T \ {Some(T)} \in SUBSET t
        BY <4>1
      <4>3. g[T \ {Some(T)}] = h[T \ {Some(T)}]
        BY <2>2, <4>2
      <4>4. /\ g[T] = f[Some(T)] + g[T \ {Some(T)}]
            /\ h[T] = f[Some(T)] + h[T \ {Some(T)}]
        BY <3>2 DEF SumsBy
      <4> QED BY <4>3, <4>4
    <3> QED BY <3>1, <3>2
  <2>3. t \notin BadBelow
    <3> HIDE DEF BadBelow
    <3>1. BadBelow \in SUBSET SUBSET t
      BY DEF BadBelow
    <3> QED BY <2>1, <2>2, <3>1, NoBadSubset
  <2> QED BY <2>3
<1>2. /\ g = [s \in SUBSET S |-> g[s]]
      /\ h = [s \in SUBSET S |-> h[s]]
  BY DEF SumsBy
<1> QED BY <1>1, <1>2

\* A solution for S has one for every subset in it.
LEMMA SumsBelow ==
    ASSUME NEW f, NEW S, NEW g, SumsBy(f, g, S), NEW T \in SUBSET S
    PROVE  SumsBy(f, [s \in SUBSET T |-> g[s]], T)
<1> DEFINE h == [s \in SUBSET T |-> g[s]]
<1>1. ASSUME NEW s \in SUBSET T
      PROVE  h[s] = IF s = {} THEN 0 ELSE f[Some(s)] + h[s \ {Some(s)}]
  <2>1. s \ {Some(s)} \in SUBSET T /\ s \in SUBSET S
    OBVIOUS
  <2>2. g[s] = IF s = {} THEN 0 ELSE f[Some(s)] + g[s \ {Some(s)}]
    BY <2>1 DEF SumsBy
  <2> QED BY <2>1, <2>2
<1> QED BY <1>1 DEF SumsBy
\* The recursion has a solution for every finite set.
LEMMA SumsExist ==
    ASSUME NEW f, NEW S, IsFiniteSet(S)
    PROVE  \E g : SumsBy(f, g, S)
<1> DEFINE Bad == {T \in SUBSET S : ~ \E g : SumsBy(f, g, T)}
<1>1. ASSUME NEW T \in SUBSET S, \A U \in SUBSET T : U # T => U \notin Bad
      PROVE  T \notin Bad
  <2> DEFINE sum(s) == SumFunctionOnSet(f, s)
             g == [s \in SUBSET T |-> IF s = {} THEN 0
                                      ELSE f[Some(s)] + sum(s \ {Some(s)})]
  <2>1. ASSUME NEW u \in SUBSET T, u # T
        PROVE  \E h : SumsBy(f, h, u) /\ \A s \in SUBSET u : sum(s) = h[s]
    <3>1. PICK h : SumsBy(f, h, u)
      BY <1>1, <2>1
    <3>2. ASSUME NEW s \in SUBSET u
          PROVE  sum(s) = h[s]
      <4> DEFINE k == CHOOSE k : SumsBy(f, k, s)
      <4>1. SumsBy(f, [t \in SUBSET s |-> h[t]], s)
        BY <3>1, SumsBelow
      <4>2. SumsBy(f, k, s)
        BY <4>1
      <4>3. IsFiniteSet(s)
        BY FS_Subset
      <4>4. k = [t \in SUBSET s |-> h[t]]
        <5> HIDE DEF k
        <5> QED BY <4>1, <4>2, <4>3, SumsUnique
      <4>5. sum(s) = k[s]
        BY SumDefinition
      <4> HIDE DEF k, sum
      <4> QED BY <4>4, <4>5
    <3> HIDE DEF sum
    <3> QED BY <3>1, <3>2
  <2> HIDE DEF sum
  <2>2. ASSUME NEW s \in SUBSET T, s # {}
        PROVE  g[s \ {Some(s)}] = sum(s \ {Some(s)})
    <3>1. PICK u : u = s \ {Some(s)}
      OBVIOUS
    <3>2. u \in SUBSET T /\ u # T
      BY <2>2, <3>1, SomeElement
    <3>3. PICK h : SumsBy(f, h, u) /\ \A t \in SUBSET u : sum(t) = h[t]
      BY <2>1, <3>2
    <3>4. h[u] = IF u = {} THEN 0 ELSE f[Some(u)] + h[u \ {Some(u)}]
      <4>1. u \in SUBSET u
        OBVIOUS
      <4> QED BY <3>3, <4>1 DEF SumsBy
    <3>5. g[u] = IF u = {} THEN 0 ELSE f[Some(u)] + sum(u \ {Some(u)})
      BY <3>2
    <3>6. sum(u) = h[u] /\ sum(u \ {Some(u)}) = h[u \ {Some(u)}]
      BY <3>3
    <3> HIDE DEF g
    <3> QED BY <3>1, <3>4, <3>5, <3>6
  <2>3. SumsBy(f, g, T)
    <3>1. \A s \in SUBSET T :
             g[s] = IF s = {} THEN 0 ELSE f[Some(s)] + g[s \ {Some(s)}]
      BY <2>2
    <3>2. g = [s \in SUBSET T |-> g[s]]
      OBVIOUS
    <3> HIDE DEF g
    <3> QED BY <3>1, <3>2 DEF SumsBy
  <2> HIDE DEF g
  <2> QED BY <2>3
<1>2. Bad \in SUBSET SUBSET S
  OBVIOUS
<1>3. S \notin Bad
  <2> HIDE DEF Bad
  <2> QED BY <1>1, <1>2, NoBadSubset
<1> QED BY <1>3

\* The sum over a finite set follows its recursion.
LEMMA SumRecursion ==
    ASSUME NEW f, NEW S, IsFiniteSet(S)
    PROVE  SumFunctionOnSet(f, S) =
               IF S = {} THEN 0
               ELSE f[Some(S)] + SumFunctionOnSet(f, S \ {Some(S)})
<1> DEFINE k(T) == CHOOSE g : SumsBy(f, g, T)
<1>1. \A T : IsFiniteSet(T) => SumsBy(f, k(T), T)
  BY SumsExist
<1>2. \A T : SumFunctionOnSet(f, T) = k(T)[T]
  BY SumDefinition
<1> HIDE DEF k
<1>3. k(S)[S] = IF S = {} THEN 0 ELSE f[Some(S)] + k(S)[S \ {Some(S)}]
  <2>1. SumsBy(f, k(S), S) /\ S \in SUBSET S
    BY <1>1
  <2> QED BY <2>1 DEF SumsBy
<1>4. ASSUME NEW T \in SUBSET S
      PROVE  k(S)[T] = k(T)[T]
  <2>1. SumsBy(f, [s \in SUBSET T |-> k(S)[s]], T)
    BY <1>1, SumsBelow
  <2>2. IsFiniteSet(T)
    BY FS_Subset
  <2>3. k(T) = [s \in SUBSET T |-> k(S)[s]]
    BY <1>1, <2>1, <2>2, SumsUnique
  <2> QED BY <2>3
<1>5. S \ {Some(S)} \in SUBSET S
  OBVIOUS
<1> QED BY <1>2, <1>3, <1>4, <1>5

------------------------------------------------------------------------------
(* What the sum is like *)

\* Nothing sums to 0.
LEMMA SumEmpty == \A f : SumFunctionOnSet(f, {}) = 0
BY FS_EmptySet, SumRecursion

\* What holds of the empty set, and with an element more if without, holds of S.
LEMMA GoodSet ==
    ASSUME NEW S, IsFiniteSet(S), NEW Good, {} \in Good,
           \A T \in SUBSET S : \A x \in T : T \ {x} \in Good => T \in Good
    PROVE  S \in Good
<1> DEFINE Bad == {T \in SUBSET S : T \notin Good}
<1>1. ASSUME NEW T \in SUBSET S, \A U \in SUBSET T : U # T => U \notin Bad
      PROVE  T \notin Bad
  <2>1. CASE T = {}
    BY <2>1
  <2>2. CASE T # {}
    <3>1. PICK x \in T : TRUE
      BY <2>2
    <3>2. T \ {x} \in SUBSET T /\ T \ {x} # T
      OBVIOUS
    <3> QED BY <1>1, <3>2
  <2> QED BY <2>1, <2>2
<1>2. Bad \in SUBSET SUBSET S
  OBVIOUS
<1>3. S \notin Bad
  <2> HIDE DEF Bad
  <2> QED BY <1>1, <1>2, NoBadSubset
<1> QED BY <1>3

\* The sum of integers is one.
LEMMA SumType ==
    ASSUME NEW f, NEW S, IsFiniteSet(S), \A x \in S : f[x] \in Int
    PROVE  SumFunctionOnSet(f, S) \in Int
<1> DEFINE Bad == {T \in SUBSET S : SumFunctionOnSet(f, T) \notin Int}
<1>1. ASSUME NEW T \in SUBSET S, \A U \in SUBSET T : U # T => U \notin Bad
      PROVE  T \notin Bad
  <2>1. IsFiniteSet(T)
    BY FS_Subset
  <2>2. CASE T = {}
    BY <2>2, SumEmpty
  <2>3. CASE T # {}
    <3>1. Some(T) \in T
      BY <2>3, SomeElement
    <3>2. T \ {Some(T)} \in SUBSET T /\ T \ {Some(T)} # T
      BY <3>1
    <3>3. SumFunctionOnSet(f, T \ {Some(T)}) \in Int
      BY <1>1, <3>2
    <3>4. f[Some(T)] \in Int
      BY <3>1
    <3> QED BY <2>1, <2>3, <3>3, <3>4, SumRecursion
  <2> QED BY <2>2, <2>3
<1>2. Bad \in SUBSET SUBSET S
  OBVIOUS
<1>3. S \notin Bad
  <2> HIDE DEF Bad
  <2> QED BY <1>1, <1>2, NoBadSubset
<1> QED BY <1>3

\* Any element may be taken out of the sum.
LEMMA SumElement ==
    ASSUME NEW f, NEW S, IsFiniteSet(S), \A x \in S : f[x] \in Int, NEW e \in S
    PROVE  /\ SumFunctionOnSet(f, S \ {e}) \in Int
           /\ SumFunctionOnSet(f, S) = f[e] + SumFunctionOnSet(f, S \ {e})
<1> DEFINE sum(T) == SumFunctionOnSet(f, T)
           Bad == {T \in SUBSET S : \E x \in T : sum(T) # f[x] + sum(T \ {x})}
<1>1. \A T \in SUBSET S : IsFiniteSet(T) /\ sum(T) \in Int
  BY FS_Subset, SumType
<1>2. \A T \in SUBSET S : T # {} => sum(T) = f[Some(T)] + sum(T \ {Some(T)})
  BY <1>1, SumRecursion
<1> HIDE DEF sum
<1>3. ASSUME NEW T \in SUBSET S, \A U \in SUBSET T : U # T => U \notin Bad
      PROVE  T \notin Bad
  <2> SUFFICES ASSUME NEW x \in T
               PROVE  sum(T) = f[x] + sum(T \ {x})
    OBVIOUS
  <2>1. PICK c : c = Some(T)
    OBVIOUS
  <2>2. c \in T /\ sum(T) = f[c] + sum(T \ {c})
    BY <1>2, <2>1, SomeElement
  <2>3. CASE x = c
    BY <2>2, <2>3
  <2>4. CASE x # c
    <3>1. /\ T \ {c} \in SUBSET T /\ T \ {c} # T /\ x \in T \ {c}
          /\ T \ {x} \in SUBSET T /\ T \ {x} # T /\ c \in T \ {x}
      BY <2>2, <2>4
    <3>2. sum(T \ {c}) = f[x] + sum((T \ {c}) \ {x})
      BY <1>3, <3>1
    <3>3. sum(T \ {x}) = f[c] + sum((T \ {x}) \ {c})
      BY <1>3, <3>1
    <3>4. (T \ {c}) \ {x} = (T \ {x}) \ {c} /\ (T \ {x}) \ {c} \in SUBSET S
      OBVIOUS
    <3>5. f[x] \in Int /\ f[c] \in Int /\ sum((T \ {x}) \ {c}) \in Int
      BY <1>1, <2>2, <3>4
    <3>6. PICK r \in Int : r = sum((T \ {x}) \ {c})
      BY <3>5
    <3>7. sum(T \ {c}) = f[x] + r /\ sum(T \ {x}) = f[c] + r
      BY <3>2, <3>3, <3>4, <3>6
    <3>8. sum(T) = f[c] + (f[x] + r) /\ f[x] + sum(T \ {x}) = f[x] + (f[c] + r)
      BY <2>2, <3>7
    <3>9. f[c] + (f[x] + r) = f[x] + (f[c] + r)
      BY <3>5
    <3> QED BY <3>8, <3>9
  <2> QED BY <2>3, <2>4
<1>4. Bad \in SUBSET SUBSET S
  OBVIOUS
<1>5. S \notin Bad
  <2> HIDE DEF Bad
  <2> QED BY <1>3, <1>4, NoBadSubset
<1>6. sum(S) = f[e] + sum(S \ {e}) /\ sum(S \ {e}) \in Int
  BY <1>1, <1>5
<1> QED BY <1>6 DEF sum

\* The sum depends on the values alone.
LEMMA SumCongruence ==
    ASSUME NEW f, NEW g, NEW S, IsFiniteSet(S),
           \A x \in S : f[x] \in Int /\ f[x] = g[x]
    PROVE  SumFunctionOnSet(f, S) = SumFunctionOnSet(g, S)
<1> DEFINE Good == {T \in SUBSET S : SumFunctionOnSet(f, T) = SumFunctionOnSet(g, T)}
<1>1. {} \in Good
  BY SumEmpty
<1>2. ASSUME NEW T \in SUBSET S, NEW x \in T, T \ {x} \in Good
      PROVE  T \in Good
  <2>1. IsFiniteSet(T)
    BY FS_Subset
  <2>2. SumFunctionOnSet(f, T) = f[x] + SumFunctionOnSet(f, T \ {x})
    BY <2>1, SumElement
  <2>3. SumFunctionOnSet(g, T) = g[x] + SumFunctionOnSet(g, T \ {x})
    BY <2>1, SumElement
  <2> QED BY <1>2, <2>2, <2>3
<1>3. S \in Good
  <2> HIDE DEF Good
  <2> QED BY <1>1, <1>2, GoodSet
<1> QED BY <1>3

\* The sum lies between its size times the least and times the greatest value.
LEMMA SumBounds ==
    ASSUME NEW f, NEW S, IsFiniteSet(S), NEW lo \in Int, NEW hi \in Int,
           \A x \in S : f[x] \in lo..hi
    PROVE  /\ SumFunctionOnSet(f, S) \in Int
           /\ lo * Cardinality(S) <= SumFunctionOnSet(f, S)
           /\ SumFunctionOnSet(f, S) <= hi * Cardinality(S)
<1> DEFINE sum(T) == SumFunctionOnSet(f, T)
           Good == {T \in SUBSET S : /\ lo * Cardinality(T) <= sum(T)
                                     /\ sum(T) <= hi * Cardinality(T)}
<1>1. {} \in Good
  BY SumEmpty, FS_EmptySet
<1>2. ASSUME NEW T \in SUBSET S, NEW x \in T, T \ {x} \in Good
      PROVE  T \in Good
  <2>1. IsFiniteSet(T) /\ \A y \in T : f[y] \in Int
    BY FS_Subset
  <2>2. PICK t : t = sum(T \ {x})
    OBVIOUS
  <2>3. sum(T) = f[x] + t /\ t \in Int
    BY <2>1, <2>2, SumElement
  <2>4. PICK n \in Nat : n = Cardinality(T \ {x}) /\ Cardinality(T) = n + 1
    <3>1. IsFiniteSet(T \ {x}) /\ Cardinality(T \ {x}) = Cardinality(T) - 1
      BY <2>1, FS_RemoveElement
    <3>2. Cardinality(T) \in Nat /\ Cardinality(T \ {x}) \in Nat
      BY <2>1, <3>1, FS_CardinalityType
    <3> QED BY <3>1, <3>2
  <2>5. lo * n <= t /\ t <= hi * n
    BY <1>2, <2>2, <2>4
  <2>6. f[x] \in Int /\ lo <= f[x] /\ f[x] <= hi
    OBVIOUS
  <2>7. lo * (n + 1) = lo * n + lo /\ hi * (n + 1) = hi * n + hi
    OBVIOUS
  <2> HIDE DEF sum
  <2>8. lo * (n + 1) <= sum(T) /\ sum(T) <= hi * (n + 1)
    BY <2>3, <2>5, <2>6, <2>7
  <2> QED BY <2>4, <2>8
<1>3. S \in Good
  <2> HIDE DEF Good
  <2> QED BY <1>1, <1>2, GoodSet
<1>4. sum(S) \in Int
  BY SumType
<1> QED BY <1>3, <1>4

\* The numbers of elements of S with each of some values of g sum to the number of
\* those that have one of these values.
LEMMA SumOfLines ==
    ASSUME NEW S, IsFiniteSet(S), NEW g, NEW f, IsFiniteSet(DOMAIN f),
           \A c \in DOMAIN f : f[c] = Cardinality({n \in S : g[n] = c})
    PROVE  SumFunction(f) = Cardinality({n \in S : g[n] \in DOMAIN f})
<1>1. PICK C : C = DOMAIN f /\ IsFiniteSet(C)
  OBVIOUS
<1> DEFINE part(c) == {n \in S : g[n] = c}
           parts(D) == {n \in S : g[n] \in D}
           Good == {D \in SUBSET C : SumFunctionOnSet(f, D) = Cardinality(parts(D))}
<1>2. \A T \in SUBSET S : IsFiniteSet(T) /\ Cardinality(T) \in Nat
  BY FS_Subset, FS_CardinalityType
<1>3. \A c \in C : f[c] \in Nat
  BY <1>1, <1>2
<1>4. {} \in Good
  BY SumEmpty, FS_EmptySet
<1>5. ASSUME NEW D \in SUBSET C, NEW c \in D, D \ {c} \in Good
      PROVE  D \in Good
  <2> DEFINE E == D \ {c}
  <2>1. SumFunctionOnSet(f, D) = f[c] + SumFunctionOnSet(f, E)
    <3>1. IsFiniteSet(D) /\ \A x \in D : f[x] \in Int
      BY <1>1, <1>3, FS_Subset
    <3> QED BY <3>1, SumElement
  <2>2. SumFunctionOnSet(f, E) = Cardinality(parts(E)) /\ f[c] = Cardinality(part(c))
    BY <1>1, <1>5
  <2>3. parts(D) = parts(E) \cup part(c) /\ parts(E) \cap part(c) = {}
    OBVIOUS
  <2>4. Cardinality(parts(D)) = Cardinality(parts(E)) + Cardinality(part(c))
    <3>1. parts(E) \in SUBSET S /\ part(c) \in SUBSET S
      OBVIOUS
    <3> HIDE DEF parts, part
    <3>2. Cardinality(parts(E) \cup part(c)) =
              Cardinality(parts(E)) + Cardinality(part(c)) - Cardinality({})
      BY <1>2, <2>3, <3>1, FS_Union
    <3>3. /\ Cardinality(parts(E)) \in Nat /\ Cardinality(part(c)) \in Nat
          /\ Cardinality({}) = 0
      BY <1>2, <3>1, FS_EmptySet
    <3>4. Cardinality(parts(D)) = Cardinality(parts(E) \cup part(c))
      BY <2>3
    <3> QED BY <3>2, <3>3, <3>4
  <2>5. Cardinality(parts(E)) \in Nat /\ Cardinality(part(c)) \in Nat
    <3>1. parts(E) \in SUBSET S /\ part(c) \in SUBSET S
      OBVIOUS
    <3> HIDE DEF parts, part
    <3> QED BY <1>2, <3>1
  <2>6. SumFunctionOnSet(f, D) = Cardinality(parts(D))
    <3> HIDE DEF parts, part, E
    <3> QED BY <2>1, <2>2, <2>4, <2>5
  <2> QED BY <2>6
<1>6. C \in Good
  <2> HIDE DEF Good
  <2> QED BY <1>1, <1>4, <1>5, GoodSet
<1> QED BY <1>1, <1>6 DEF SumFunction

\* With every value that occurs, they sum to the number of all elements.
LEMMA SumOfAllLines ==
    ASSUME NEW S, IsFiniteSet(S), NEW g, NEW f, DOMAIN f = {g[n] : n \in S},
           \A c \in DOMAIN f : f[c] = Cardinality({n \in S : g[n] = c})
    PROVE  SumFunction(f) = Cardinality(S)
<1>1. IsFiniteSet(DOMAIN f)
  <2>1. [n \in S |-> g[n]] \in Surjection(S, DOMAIN f)
    BY DEF Surjection
  <2> QED BY <2>1, FS_Surjection
<1>2. {n \in S : g[n] \in DOMAIN f} = S
  OBVIOUS
<1>3. SumFunction(f) = Cardinality({n \in S : g[n] \in DOMAIN f})
  BY <1>1, SumOfLines
<1> QED BY <1>2, <1>3

\* h names the elements of S as those of I, where g has the values of f.
Renames(h, S, I, f, g) ==
    /\ \A z : z \in I <=> \E x \in S : h[x] = z
    /\ \A x \in S : f[x] \in Int /\ g[h[x]] = f[x]
    /\ \A x, y \in S : h[x] = h[y] => x = y

\* The elements may be renamed.
LEMMA SumRenamed ==
    ASSUME NEW S, IsFiniteSet(S), NEW f, NEW g, NEW h, NEW I,
           Renames(h, S, I, f, g)
    PROVE  SumFunctionOnSet(g, I) = SumFunctionOnSet(f, S)
<1> DEFINE image(T) == {h[x] : x \in T}
           Good == {T \in SUBSET S : SumFunctionOnSet(g, image(T)) = SumFunctionOnSet(f, T)}
<1>1. /\ \A z : z \in I <=> \E x \in S : h[x] = z
      /\ \A x \in S : f[x] \in Int /\ g[h[x]] = f[x]
      /\ \A x, y \in S : h[x] = h[y] => x = y
  BY DEF Renames
<1>2. {} \in Good
  <2>1. image({}) = {}
    OBVIOUS
  <2> HIDE DEF image
  <2> QED BY <2>1, SumEmpty
<1>3. ASSUME NEW T \in SUBSET S, NEW x \in T, T \ {x} \in Good
      PROVE  T \in Good
  <2>1. IsFiniteSet(T) /\ \A y \in T : f[y] \in Int
    BY <1>1, FS_Subset
  <2>2. SumFunctionOnSet(f, T) = f[x] + SumFunctionOnSet(f, T \ {x})
    BY <2>1, SumElement
  <2>3. image(T) \ {h[x]} = image(T \ {x}) /\ h[x] \in image(T)
    BY <1>1
  <2>4. IsFiniteSet(image(T)) /\ \A z \in image(T) : g[z] \in Int
    <3>1. [y \in T |-> h[y]] \in Surjection(T, image(T))
      BY DEF Surjection
    <3>2. IsFiniteSet(image(T))
      BY <2>1, <3>1, FS_Surjection
    <3> QED BY <1>1, <3>2
  <2>5. SumFunctionOnSet(g, image(T)) = g[h[x]] + SumFunctionOnSet(g, image(T) \ {h[x]})
    <3> HIDE DEF image
    <3> QED BY <2>3, <2>4, SumElement
  <2>6. SumFunctionOnSet(g, image(T \ {x})) = SumFunctionOnSet(f, T \ {x})
    BY <1>3
  <2>7. SumFunctionOnSet(g, image(T)) = SumFunctionOnSet(f, T)
    <3> HIDE DEF image
    <3> QED BY <1>1, <2>2, <2>3, <2>5, <2>6
  <2> QED BY <2>7
<1>4. S \in Good
  <2> HIDE DEF Good
  <2> QED BY <1>2, <1>3, GoodSet
<1>5. image(S) = I
  BY <1>1
<1> QED BY <1>4, <1>5

\* The sums over two sets that have nothing in common make up that over both.
LEMMA SumUnion ==
    ASSUME NEW f, NEW S, IsFiniteSet(S), NEW T, IsFiniteSet(T), S \cap T = {},
           \A x \in S \cup T : f[x] \in Int
    PROVE  SumFunctionOnSet(f, S \cup T) =
               SumFunctionOnSet(f, S) + SumFunctionOnSet(f, T)
<1> DEFINE sum(D) == SumFunctionOnSet(f, D)
           Good == {D \in SUBSET T : sum(S \cup D) = sum(S) + sum(D)}
<1>1. sum(S) \in Int
  BY SumType
<1>2. {} \in Good
  <2>1. S \cup {} = S /\ sum({}) = 0
    BY SumEmpty
  <2> HIDE DEF sum
  <2> QED BY <1>1, <2>1
<1>3. ASSUME NEW D \in SUBSET T, NEW x \in D, D \ {x} \in Good
      PROVE  D \in Good
  <2>1. IsFiniteSet(D) /\ IsFiniteSet(S \cup D)
    BY FS_Subset, FS_Union
  <2>2. sum(D) = f[x] + sum(D \ {x}) /\ sum(D \ {x}) \in Int
    <3>1. IsFiniteSet(D) /\ (\A y \in D : f[y] \in Int) /\ x \in D
      BY <2>1
    <3> HIDE DEF sum
    <3>2. /\ SumFunctionOnSet(f, D \ {x}) \in Int
          /\ SumFunctionOnSet(f, D) = f[x] + SumFunctionOnSet(f, D \ {x})
      BY <3>1, SumElement
    <3> QED BY <3>2 DEF sum
  <2>3. sum(S \cup D) = f[x] + sum((S \cup D) \ {x})
    BY <2>1, SumElement
  <2>4. (S \cup D) \ {x} = S \cup (D \ {x})
    OBVIOUS
  <2>5. sum(S \cup (D \ {x})) = sum(S) + sum(D \ {x}) /\ f[x] \in Int
    BY <1>3
  <2>6. sum(S \cup D) = sum(S) + sum(D)
    <3> HIDE DEF sum
    <3>1. PICK a \in Int, r \in Int : a = sum(S) /\ r = sum(D \ {x})
      BY <1>1, <2>2
    <3>2. sum(S \cup D) = f[x] + (a + r) /\ sum(S) + sum(D) = a + (f[x] + r)
      BY <2>2, <2>3, <2>4, <2>5, <3>1
    <3> QED BY <2>5, <3>2
  <2> QED BY <2>6
<1>4. T \in Good
  <2> HIDE DEF Good
  <2> QED BY <1>2, <1>3, GoodSet
<1> QED BY <1>4

------------------------------------------------------------------------------
(* Extremes *)

\* A finite set of integers that is not empty has a greatest and a least one.
LEMMA Extremes ==
    ASSUME NEW S \in SUBSET Int, IsFiniteSet(S), S # {}
    PROVE  /\ \E m \in S : \A y \in S : m >= y
           /\ \E m \in S : \A y \in S : m <= y
<1> DEFINE HasBoth(T) == /\ \E m \in T : \A y \in T : m >= y
                         /\ \E m \in T : \A y \in T : m <= y
           Good == {T \in SUBSET S : T = {} \/ HasBoth(T)}
<1>1. {} \in Good
  OBVIOUS
<1>2. ASSUME NEW T \in SUBSET S, NEW x \in T, T \ {x} \in Good
      PROVE  T \in Good
  <2>1. CASE T \ {x} = {}
    <3>1. T = {x} /\ x \in Int
      BY <2>1
    <3>2. HasBoth(T)
      BY <3>1
    <3> QED BY <3>2
  <2>2. CASE HasBoth(T \ {x})
    <3>1. PICK a \in T \ {x} : \A y \in T \ {x} : a >= y
      BY <2>2
    <3>2. PICK b \in T \ {x} : \A y \in T \ {x} : b <= y
      BY <2>2
    <3>3. a \in Int /\ b \in Int /\ x \in Int
      OBVIOUS
    <3>4. \E m \in T : \A y \in T : m >= y
      <4>1. CASE a >= x
        BY <3>1, <4>1
      <4>2. CASE ~(a >= x)
        <5>1. ASSUME NEW y \in T PROVE x >= y
          BY <3>1, <3>3, <4>2
        <5> QED BY <5>1
      <4> QED BY <4>1, <4>2
    <3>5. \E m \in T : \A y \in T : m <= y
      <4>1. CASE b <= x
        BY <3>2, <4>1
      <4>2. CASE ~(b <= x)
        <5>1. ASSUME NEW y \in T PROVE x <= y
          BY <3>2, <3>3, <4>2
        <5> QED BY <5>1
      <4> QED BY <4>1, <4>2
    <3> QED BY <3>4, <3>5
  <2> QED BY <1>2, <2>1, <2>2
<1>3. S \in Good
  <2> HIDE DEF Good
  <2> QED BY <1>1, <1>2, GoodSet
<1> QED BY <1>3

\* What the definitions of Max and Min choose.
LEMMA MaxMin ==
    ASSUME NEW S \in SUBSET Int, IsFiniteSet(S), S # {}
    PROVE  /\ Max(S) \in S /\ \A y \in S : y <= Max(S)
           /\ Min(S) \in S /\ \A y \in S : Min(S) <= y
<1>1. /\ \E m \in S : \A y \in S : m >= y
      /\ \E m \in S : \A y \in S : m =< y
  BY Extremes
<1>2. Max(S) \in S /\ \A y \in S : Max(S) >= y
  BY <1>1 DEF Max
<1>3. Min(S) \in S /\ \A y \in S : Min(S) =< y
  BY <1>1 DEF Min
<1> QED BY <1>2, <1>3

==============================================================================
