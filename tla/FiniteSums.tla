----------------------------- MODULE FiniteSums -----------------------------
(***************************************************************************)
(* Sums over finite sets: what SumFunctionOnSet of the community modules   *)
(* does when the set or the function changes.  It is defined by recursion  *)
(* on the set, so what it computes has to be proved by induction on finite *)
(* sets: a set of which a fact is false would have a smallest subset of    *)
(* which it is false, and there is none.  In the same way sets of numbers  *)
(* have smallest and largest members.                                      *)
(***************************************************************************)
EXTENDS Integers, Functions, FiniteSets, FiniteSetTheorems, TLAPS

\* The element that the recursion takes out of a set first.
First(s) == CHOOSE x \in s : TRUE

Rest(s) == s \ {First(s)}

\* f is the sum of w on every subset of S.
IsSum(f, w, S) ==
  f = [s \in SUBSET S |-> IF s = {} THEN 0 ELSE w[First(s)] + f[Rest(s)]]

\* The function that SumFunctionOnSet applies to S.
SumOn(w, S) == CHOOSE f : IsSum(f, w, S)

-----------------------------------------------------------------------------
(* Induction on finite sets                                                *)

\* Among subsets of a finite set there is one that contains no other.
LEMMA SmallestOf ==
  ASSUME NEW S, IsFiniteSet(S), NEW X \in SUBSET SUBSET S, X # {}
  PROVE  \E T \in X : \A U \in X : U \subseteq T => U = T
<1>1. IsWellFoundedOn(StrictSubsetOrdering(S), SUBSET S)
  BY FS_StrictSubsetOrderingWellFounded, FS_FiniteSubsetsOfFinite
<1>2. PICK T \in X : \A U \in X : ~ (<<U, T>> \in StrictSubsetOrdering(S))
  BY <1>1, WFMin
<1>3. \A U \in X : U \subseteq T => U = T
  BY <1>2 DEF StrictSubsetOrdering
<1>4. QED
  BY <1>3

\* Every finite set of naturals but the empty one has a largest element.
LEMMA LargestThereIs ==
  ASSUME NEW S, IsFiniteSet(S), S # {}, S \subseteq Nat
  PROVE  \E x \in S : \A y \in S : x >= y
<1> DEFINE X == {T \in SUBSET S : T # {} /\ ~ \E x \in T : \A y \in T : x >= y}
<1> SUFFICES ASSUME X # {} PROVE FALSE
  OBVIOUS
<1>1. PICK T \in X : \A U \in X : U \subseteq T => U = T
  <2>1. X \in SUBSET SUBSET S
    OBVIOUS
  <2> HIDE DEF X
  <2>2. QED
    BY ONLY <2>1, IsFiniteSet(S), X # {}, SmallestOf
<1>2. PICK t : t \in T
  OBVIOUS
<1>3. CASE T \ {t} = {}
  BY <1>2, <1>3
<1>4. CASE T \ {t} # {}
  <2> DEFINE U == T \ {t}
  <2>1. U \in SUBSET S /\ U \subseteq T /\ U # T /\ U # {}
    BY <1>2, <1>4
  <2> HIDE DEF U
  <2>2. PICK m \in U : \A y \in U : m >= y
    BY <1>1, <2>1
  <2> USE DEF U
  <2>3. t \in Nat /\ m \in Nat /\ T \subseteq Nat
    BY <1>2
  <2>4. CASE m >= t
    BY <2>2, <2>3, <2>4
  <2>5. CASE t > m
    <3>1. \A y \in T : t >= y
      BY <2>2, <2>3, <2>5
    <3>2. QED
      BY <1>2, <3>1
  <2>6. QED
    BY <2>3, <2>4, <2>5
<1>5. QED
  BY <1>3, <1>4

\* Every set of naturals but the empty one has a smallest element.
LEMMA SmallestThereIs ==
  ASSUME NEW S \in SUBSET Nat, S # {}
  PROVE  \E x \in S : \A y \in S : x <= y
<1>1. IsWellFoundedOn(OpToRel(<, Nat), Nat)
  BY NatLessThanWellFounded
<1>2. PICK x \in S : \A y \in S : ~ (<<y, x>> \in OpToRel(<, Nat))
  BY <1>1, WFMin
<1>3. ASSUME NEW y \in S, y < x
      PROVE  FALSE
  <2>1. <<y, x>> \in Nat \X Nat /\ <<y, x>>[1] < <<y, x>>[2]
    BY <1>3
  <2>2. <<y, x>> \in OpToRel(<, Nat)
    BY <2>1 DEF OpToRel
  <2>3. QED
    BY <1>2, <2>2
<1>4. QED
  BY <1>3

\* What the recursion leaves is smaller.
LEMMA RestIsSmaller ==
  ASSUME NEW S, S # {}
  PROVE  /\ First(S) \in S
         /\ Rest(S) \subseteq S
         /\ Rest(S) # S
         /\ First(S) \notin Rest(S)
BY DEF First, Rest

-----------------------------------------------------------------------------
(* The recursion has a solution, and only one                              *)

\* Solutions for two sets agree on the subsets of both.
LEMMA SumsAgree ==
  ASSUME NEW w, NEW S, IsFiniteSet(S), NEW T, NEW f, NEW g,
         IsSum(f, w, S), IsSum(g, w, T)
  PROVE  \A U \in SUBSET S : U \subseteq T => f[U] = g[U]
<1> DEFINE X == {U \in SUBSET S : U \subseteq T /\ f[U] # g[U]}
<1> SUFFICES ASSUME X # {} PROVE FALSE
  OBVIOUS
<1>1. PICK U \in X : \A V \in X : V \subseteq U => V = U
  <2>1. X \in SUBSET SUBSET S
    OBVIOUS
  <2> HIDE DEF X
  <2>2. QED
    BY <2>1, SmallestOf
<1>2. f[U] = IF U = {} THEN 0 ELSE w[First(U)] + f[Rest(U)]
  BY DEF IsSum
<1>3. g[U] = IF U = {} THEN 0 ELSE w[First(U)] + g[Rest(U)]
  BY DEF IsSum
<1>4. U # {}
  BY <1>2, <1>3
<1>5. f[Rest(U)] = g[Rest(U)]
  BY <1>1, <1>4, RestIsSmaller
<1>6. QED
  BY <1>2, <1>3, <1>4, <1>5

\* A set all of whose proper subsets have a solution has one: the sums of what
\* the recursion leaves of each subset, put together.
LEMMA SumExtends ==
  ASSUME NEW w, NEW S, IsFiniteSet(S),
         \A T \in SUBSET S : T # S => IsSum(SumOn(w, T), w, T)
  PROVE  IsSum(SumOn(w, S), w, S)
<1> DEFINE g == [s \in SUBSET S |->
                   IF s = {} THEN 0 ELSE w[First(s)] + SumOn(w, Rest(s))[Rest(s)]]
<1>1. ASSUME NEW s \in SUBSET S, s # {}
      PROVE  g[Rest(s)] = SumOn(w, Rest(s))[Rest(s)]
  <2> DEFINE u == Rest(s)
  <2>1. u \in SUBSET S /\ u # S /\ IsFiniteSet(u)
    BY <1>1, RestIsSmaller, FS_Subset
  <2>2. IsSum(SumOn(w, u), w, u)
    BY <2>1
  <2>3. SumOn(w, u)[u] = IF u = {} THEN 0 ELSE w[First(u)] + SumOn(w, u)[Rest(u)]
    <3> DEFINE h == SumOn(w, u)
    <3> HIDE DEF h, u
    <3>1. h = [v \in SUBSET u |-> IF v = {} THEN 0 ELSE w[First(v)] + h[Rest(v)]]
      BY <2>2 DEF IsSum, h
    <3>2. u \in SUBSET u
      OBVIOUS
    <3>3. h[u] = IF u = {} THEN 0 ELSE w[First(u)] + h[Rest(u)]
      BY <3>1, <3>2
    <3>4. QED
      BY <3>3 DEF h
  <2>4. CASE u = {}
    BY <2>1, <2>3, <2>4
  <2>5. CASE u # {}
    <3>1. Rest(u) \in SUBSET u /\ Rest(u) \in SUBSET S /\ Rest(u) # S /\ IsFiniteSet(Rest(u))
      BY <2>1, <2>5, RestIsSmaller, FS_Subset
    <3>2. IsSum(SumOn(w, Rest(u)), w, Rest(u))
      BY <3>1
    <3>3. SumOn(w, u)[Rest(u)] = SumOn(w, Rest(u))[Rest(u)]
      BY <2>1, <2>2, <3>1, <3>2, SumsAgree
    <3>4. g[u] = w[First(u)] + SumOn(w, Rest(u))[Rest(u)]
      BY <2>1, <2>5
    <3>5. QED
      BY <2>3, <2>5, <3>3, <3>4
  <2>6. QED
    BY <2>4, <2>5
<1>2. g = [s \in SUBSET S |-> IF s = {} THEN 0 ELSE w[First(s)] + g[Rest(s)]]
  <2>1. ASSUME NEW s \in SUBSET S
        PROVE  g[s] = IF s = {} THEN 0 ELSE w[First(s)] + g[Rest(s)]
    BY <1>1
  <2> HIDE DEF g
  <2>2. g = [s \in SUBSET S |-> g[s]]
    BY DEF g
  <2>3. QED
    BY <2>1, <2>2
<1>3. IsSum(g, w, S)
  BY <1>2 DEF IsSum
<1>4. QED
  BY <1>3 DEF SumOn

\* The function that SumFunctionOnSet chooses is a solution.
LEMMA SumExists ==
  ASSUME NEW w, NEW S, IsFiniteSet(S)
  PROVE  IsSum(SumOn(w, S), w, S)
<1> DEFINE X == {T \in SUBSET S : ~IsSum(SumOn(w, T), w, T)}
<1> SUFFICES ASSUME X # {} PROVE FALSE
  OBVIOUS
<1>1. PICK T \in X : \A U \in X : U \subseteq T => U = T
  <2>1. X \in SUBSET SUBSET S
    OBVIOUS
  <2> HIDE DEF X
  <2>2. QED
    BY <2>1, SmallestOf
<1>2. IsFiniteSet(T)
  BY FS_Subset
<1>3. \A U \in SUBSET T : U # T => IsSum(SumOn(w, U), w, U)
  BY <1>1
<1>4. QED
  BY <1>2, <1>3, SumExtends

\* SumFunctionOnSet, unfolded once.
LEMMA SumUnfolded ==
  ASSUME NEW w, NEW S, IsFiniteSet(S)
  PROVE  SumFunctionOnSet(w, S)
           = IF S = {} THEN 0 ELSE w[First(S)] + SumFunctionOnSet(w, Rest(S))
<1>1. \A T : SumFunctionOnSet(w, T) = SumOn(w, T)[T]
  BY DEF SumFunctionOnSet, FoldFunctionOnSet, MapThenFoldSet, SumOn, IsSum, First, Rest
<1>2. IsSum(SumOn(w, S), w, S)
  BY SumExists
<1>3. SumOn(w, S)[S] = IF S = {} THEN 0 ELSE w[First(S)] + SumOn(w, S)[Rest(S)]
  <2> DEFINE h == SumOn(w, S)
  <2> HIDE DEF h
  <2>1. h = [v \in SUBSET S |-> IF v = {} THEN 0 ELSE w[First(v)] + h[Rest(v)]]
    BY <1>2 DEF IsSum, h
  <2>2. S \in SUBSET S
    OBVIOUS
  <2>3. h[S] = IF S = {} THEN 0 ELSE w[First(S)] + h[Rest(S)]
    BY <2>1, <2>2
  <2>4. QED
    BY <2>3 DEF h
<1>4. CASE S # {}
  <2>1. Rest(S) \in SUBSET S /\ IsFiniteSet(Rest(S))
    BY <1>4, RestIsSmaller, FS_Subset
  <2>2. IsSum(SumOn(w, Rest(S)), w, Rest(S))
    BY <2>1, SumExists
  <2>3. SumOn(w, S)[Rest(S)] = SumOn(w, Rest(S))[Rest(S)]
    BY <1>2, <2>1, <2>2, SumsAgree
  <2>4. QED
    BY <1>1, <1>3, <1>4, <2>3
<1>5. QED
  BY <1>1, <1>3, <1>4

-----------------------------------------------------------------------------
(* Elements added and removed                                              *)

\* The empty sum.
LEMMA SumEmpty ==
  ASSUME NEW w
  PROVE  SumFunctionOnSet(w, {}) = 0
BY SumUnfolded, FS_EmptySet

\* A sum of natural numbers is one.
LEMMA SumType ==
  ASSUME NEW D, NEW w \in [D -> Nat], NEW S \in SUBSET D, IsFiniteSet(S)
  PROVE  SumFunctionOnSet(w, S) \in Nat
<1> DEFINE X == {T \in SUBSET S : SumFunctionOnSet(w, T) \notin Nat}
<1> SUFFICES ASSUME X # {} PROVE FALSE
  OBVIOUS
<1>1. PICK T \in X : \A U \in X : U \subseteq T => U = T
  <2>1. X \in SUBSET SUBSET S
    OBVIOUS
  <2> HIDE DEF X
  <2>2. QED
    BY <2>1, SmallestOf
<1>2. IsFiniteSet(T)
  BY FS_Subset
<1>3. T # {}
  BY SumEmpty
<1>4. SumFunctionOnSet(w, T) = w[First(T)] + SumFunctionOnSet(w, Rest(T))
  BY <1>2, <1>3, SumUnfolded
<1>5. SumFunctionOnSet(w, Rest(T)) \in Nat
  BY <1>1, <1>3, RestIsSmaller
<1>6. w[First(T)] \in Nat
  BY <1>3, RestIsSmaller
<1>7. QED
  BY <1>4, <1>5, <1>6

\* Any element can be taken out first.
LEMMA SumRemove ==
  ASSUME NEW D, NEW w \in [D -> Nat], NEW S \in SUBSET D, IsFiniteSet(S), NEW x \in S
  PROVE  SumFunctionOnSet(w, S) = w[x] + SumFunctionOnSet(w, S \ {x})
<1> DEFINE Sum(T) == SumFunctionOnSet(w, T)
           X == {T \in SUBSET S : \E y \in T : Sum(T) # w[y] + Sum(T \ {y})}
<1> HIDE DEF Sum
<1> SUFFICES ASSUME X # {} PROVE FALSE
  BY DEF Sum
<1>1. PICK T \in X : \A U \in X : U \subseteq T => U = T
  <2>1. X \in SUBSET SUBSET S
    OBVIOUS
  <2> HIDE DEF X
  <2>2. QED
    BY <2>1, SmallestOf
<1>2. PICK y \in T : Sum(T) # w[y] + Sum(T \ {y})
  OBVIOUS
<1> DEFINE z == First(T)
<1>3. IsFiniteSet(T) /\ z \in T
  BY FS_Subset, RestIsSmaller
<1> HIDE DEF z
<1>4. Sum(T) = w[z] + Sum(T \ {z})
  BY <1>2, <1>3, SumUnfolded DEF Sum, z, Rest
<1>5. y # z
  BY <1>2, <1>4
<1> DEFINE both == T \ {y, z}
<1>6. (T \ {z}) \ {y} = both /\ (T \ {y}) \ {z} = both
  OBVIOUS
<1>7. Sum(T \ {z}) = w[y] + Sum(both)
  BY <1>1, <1>3, <1>5, <1>6
<1>8. Sum(T \ {y}) = w[z] + Sum(both)
  BY <1>1, <1>3, <1>5, <1>6
<1>9. w[y] \in Nat /\ w[z] \in Nat
  BY <1>3
<1>10. Sum(both) \in Nat
  <2>1. both \in SUBSET D /\ both \in SUBSET T
    OBVIOUS
  <2>2. IsFiniteSet(both)
    BY <1>3, <2>1, FS_Subset
  <2>3. QED
    BY <2>1, <2>2, SumType DEF Sum
<1> HIDE DEF both
<1>11. QED
  BY <1>2, <1>4, <1>7, <1>8, <1>9, <1>10

\* A new element adds its own value.
LEMMA SumAdd ==
  ASSUME NEW D, NEW w \in [D -> Nat], NEW S \in SUBSET D, IsFiniteSet(S), NEW x \in D, x \notin S
  PROVE  SumFunctionOnSet(w, S \cup {x}) = w[x] + SumFunctionOnSet(w, S)
<1>1. (S \cup {x}) \ {x} = S /\ S \cup {x} \in SUBSET D /\ x \in S \cup {x}
  OBVIOUS
<1>2. IsFiniteSet(S \cup {x})
  BY FS_AddElement
<1>3. QED
  BY <1>1, <1>2, SumRemove

\* The sum over a subset and over what is left of the set make the sum.
LEMMA SumSplit ==
  ASSUME NEW D, NEW w \in [D -> Nat], NEW S \in SUBSET D, IsFiniteSet(S), NEW T \in SUBSET S
  PROVE  SumFunctionOnSet(w, S) = SumFunctionOnSet(w, T) + SumFunctionOnSet(w, S \ T)
<1> DEFINE Sum(U) == SumFunctionOnSet(w, U)
           X == {U \in SUBSET S : Sum(S) # Sum(U) + Sum(S \ U)}
<1>a. \A U \in SUBSET S : IsFiniteSet(U) /\ U \in SUBSET D /\ Sum(U) \in Nat
  BY FS_Subset, SumType
<1> HIDE DEF Sum
<1> SUFFICES ASSUME X # {} PROVE FALSE
  BY DEF Sum
<1>1. PICK U \in X : \A V \in X : V \subseteq U => V = U
  <2>1. X \in SUBSET SUBSET S
    OBVIOUS
  <2> HIDE DEF X
  <2>2. QED
    BY <2>1, SmallestOf
<1>2. U # {}
  <2>1. Sum({}) = 0
    BY SumEmpty DEF Sum
  <2>2. S \ {} = S /\ Sum(S) \in Nat
    BY <1>a
  <2>3. QED
    BY <2>1, <2>2
<1>3. PICK x \in U : TRUE
  BY <1>2
<1>4. Sum(U) = w[x] + Sum(U \ {x})
  BY <1>a, SumRemove DEF Sum
<1>5. Sum(S) = Sum(U \ {x}) + Sum(S \ (U \ {x}))
  BY <1>1
<1>6. (S \ (U \ {x})) \ {x} = S \ U /\ x \in S \ (U \ {x})
  OBVIOUS
<1>7. Sum(S \ (U \ {x})) = w[x] + Sum(S \ U)
  BY <1>a, <1>6, SumRemove DEF Sum
<1>8. w[x] \in Nat /\ Sum(S \ U) \in Nat /\ Sum(U \ {x}) \in Nat
  BY <1>a
<1>9. QED
  BY <1>4, <1>5, <1>7, <1>8

-----------------------------------------------------------------------------
(* Values changed                                                          *)

\* The sum depends on the values in the set alone.
LEMMA SumSame ==
  ASSUME NEW w, NEW v, NEW S, IsFiniteSet(S), \A x \in S : w[x] = v[x]
  PROVE  SumFunctionOnSet(w, S) = SumFunctionOnSet(v, S)
<1> DEFINE X == {T \in SUBSET S : SumFunctionOnSet(w, T) # SumFunctionOnSet(v, T)}
<1> SUFFICES ASSUME X # {} PROVE FALSE
  OBVIOUS
<1>1. PICK T \in X : \A U \in X : U \subseteq T => U = T
  <2>1. X \in SUBSET SUBSET S
    OBVIOUS
  <2> HIDE DEF X
  <2>2. QED
    BY <2>1, SmallestOf
<1>2. IsFiniteSet(T)
  BY FS_Subset
<1>3. T # {}
  BY SumEmpty
<1>4. /\ SumFunctionOnSet(w, T) = w[First(T)] + SumFunctionOnSet(w, Rest(T))
      /\ SumFunctionOnSet(v, T) = v[First(T)] + SumFunctionOnSet(v, Rest(T))
  BY <1>2, <1>3, SumUnfolded
<1>5. SumFunctionOnSet(w, Rest(T)) = SumFunctionOnSet(v, Rest(T))
  BY <1>1, <1>3, RestIsSmaller
<1>6. w[First(T)] = v[First(T)]
  BY <1>3, RestIsSmaller
<1>7. QED
  BY <1>4, <1>5, <1>6

\* A value changed in the set changes the sum by as much.
LEMMA SumChange ==
  ASSUME NEW D, NEW w \in [D -> Nat], NEW S \in SUBSET D, IsFiniteSet(S),
         NEW x \in S, NEW v \in [D -> Nat], \A y \in D : y # x => v[y] = w[y]
  PROVE  SumFunctionOnSet(v, S) = SumFunctionOnSet(w, S) - w[x] + v[x]
<1>1. S \ {x} \in SUBSET D /\ IsFiniteSet(S \ {x})
  BY FS_Subset
<1>2. SumFunctionOnSet(v, S \ {x}) = SumFunctionOnSet(w, S \ {x})
  BY <1>1, SumSame
<1>3. /\ SumFunctionOnSet(w, S) = w[x] + SumFunctionOnSet(w, S \ {x})
      /\ SumFunctionOnSet(v, S) = v[x] + SumFunctionOnSet(v, S \ {x})
  BY SumRemove
<1>4. SumFunctionOnSet(w, S \ {x}) \in Nat /\ w[x] \in Nat /\ v[x] \in Nat
  BY <1>1, SumType
<1>5. QED
  BY <1>2, <1>3, <1>4
-----------------------------------------------------------------------------
(* Counters that wrap around                                               *)

\* A number is told by its quotient and its remainder.
LEMMA RemainderOf ==
  ASSUME NEW N \in Nat \ {0}, NEW q \in Int, NEW r \in 0 .. N - 1
  PROVE  (q * N + r) % N = r
OBVIOUS

\* Every number has a quotient.
LEMMA QuotientOf ==
  ASSUME NEW N \in Nat \ {0}, NEW n \in Int
  PROVE  \E q \in Int : n = q * N + (n % N) /\ n % N \in 0 .. N - 1
<1>1. /\ n = N * (n \div N) + (n % N) /\ n % N \in 0 .. N - 1
      /\ n \div N \in Int
  OBVIOUS
<1>2. n = (n \div N) * N + (n % N)
  BY <1>1
<1>3. QED
  BY <1>1, <1>2

\* A counter may be reduced before it is added to or after.
LEMMA WrappedSum ==
  ASSUME NEW N \in Nat \ {0}, NEW a \in Int, NEW c \in Int
  PROVE  ((a % N) + c) % N = (a + c) % N
<1>1. PICK q \in Int : a = q * N + (a % N) /\ a % N \in 0 .. N - 1
  BY QuotientOf
<1>2. PICK p \in Int : /\ (a % N) + c = p * N + (((a % N) + c) % N)
                       /\ ((a % N) + c) % N \in 0 .. N - 1
  <2>1. (a % N) + c \in Int
    BY <1>1
  <2>2. QED
    BY <2>1, QuotientOf
<1>3. PICK d \in 0 .. N - 1 : d = ((a % N) + c) % N
  BY <1>2
<1>4. PICK e \in 0 .. N - 1 : e = a % N
  BY <1>1
<1>5. a = q * N + e /\ e + c = p * N + d
  BY <1>1, <1>2, <1>3, <1>4
<1>6. PICK m \in Int : m = q + p
  OBVIOUS
<1>7. a + c = m * N + d
  BY <1>5, <1>6
<1>8. (a + c) % N = d
  BY <1>7, RemainderOf
<1>9. QED
  BY <1>3, <1>8
=============================================================================
