----------------------------- MODULE SumTheorems -----------------------------
(***************************************************************************)
(* Sums of a function over a finite set: what amounts add up to.  The sum  *)
(* is SumFunctionOnSet of the community modules, a recursive function on   *)
(* the subsets of the set; these theorems say that it exists, does not     *)
(* depend on the order in which elements are taken, and how it changes     *)
(* when an element comes or goes.                                          *)
(***************************************************************************)
EXTENDS Integers, Functions, FiniteSetTheorems, TLAPS

\* The element a sum takes first.
First(s) == CHOOSE x \in s : TRUE

\* g gives the sum of f over every subset of S, element by element.
Unfolds(g, f, S) ==
  \A s \in SUBSET S : g[s] = IF s = {} THEN 0 ELSE f[First(s)] + g[s \ {First(s)}]

LEMMA FirstIn == ASSUME NEW s, s # {} PROVE First(s) \in s
BY DEF First

\* Among some subsets of a finite set one has no proper subset among them.
LEMMA MinimalSubset ==
  ASSUME NEW S, IsFiniteSet(S), NEW B, B \subseteq SUBSET S, B # {}
  PROVE  \E T \in B : \A U \in B : U \subseteq T => U = T
<1>1. IsWellFoundedOn(StrictSubsetOrdering(S), FiniteSubsetsOf(S))
  BY FS_StrictSubsetOrderingWellFounded
<1>2. B \subseteq FiniteSubsetsOf(S)
  BY FS_FiniteSubsetsOfFinite
<1>3. PICK T \in B : \A U \in B : <<U, T>> \notin StrictSubsetOrdering(S)
  BY <1>1, <1>2, WFMin
<1>4. ASSUME NEW U \in B, U \subseteq T, U # T PROVE FALSE
  BY <1>3, <1>4 DEF StrictSubsetOrdering
<1> QED BY <1>3, <1>4

\* Two functions that unfold the same way agree on a finite set.
LEMMA UnfoldsUnique ==
  ASSUME NEW S, IsFiniteSet(S), NEW f, NEW g, NEW h, Unfolds(g, f, S), Unfolds(h, f, S)
  PROVE  \A s \in SUBSET S : g[s] = h[s]
<1> DEFINE B == {s \in SUBSET S : g[s] # h[s]}
<1> SUFFICES ASSUME B # {} PROVE FALSE
  OBVIOUS
<1>1. PICK T \in B : \A U \in B : U \subseteq T => U = T
  <2>1. B \subseteq SUBSET S
    OBVIOUS
  <2> HIDE DEF B
  <2> QED BY <2>1, MinimalSubset
<1>2. CASE T = {}
  BY <1>1, <1>2 DEF Unfolds
<1>3. CASE T # {}
  <2>1. First(T) \in T
    BY <1>3, FirstIn
  <2>2. g[T \ {First(T)}] = h[T \ {First(T)}]
    BY <1>1, <2>1
  <2> QED BY <1>1, <1>3, <2>2 DEF Unfolds
<1> QED BY <1>2, <1>3

\* A function that unfolds on a set unfolds on its subsets.
LEMMA UnfoldsSubset ==
  ASSUME NEW S, NEW f, NEW g, Unfolds(g, f, S), NEW T \in SUBSET S
  PROVE  Unfolds(g, f, T)
BY DEF Unfolds

\* The function that sums f over the subsets of a finite set exists.
LEMMA UnfoldsExists ==
  ASSUME NEW S, IsFiniteSet(S), NEW f
  PROVE  \E g : Unfolds(g, f, S)
<1> DEFINE B == {T \in SUBSET S : ~ \E g : Unfolds(g, f, T)}
<1> SUFFICES ASSUME B # {} PROVE FALSE
  OBVIOUS
<1>1. PICK T \in B : \A U \in B : U \subseteq T => U = T
  <2>1. B \subseteq SUBSET S
    OBVIOUS
  <2> HIDE DEF B
  <2> QED BY <2>1, MinimalSubset
<1>2. T \in SUBSET S /\ ~ \E g : Unfolds(g, f, T)
  OBVIOUS
<1>3. \A U \in SUBSET T : U # T => \E g : Unfolds(g, f, U)
  BY <1>1, <1>2
<1> HIDE DEF B
<1> DEFINE V(u) == (CHOOSE h : Unfolds(h, f, u))[u]
           g == [s \in SUBSET T |-> IF s = {} THEN 0 ELSE f[First(s)] + V(s \ {First(s)})]
<1>4. ASSUME NEW u \in SUBSET T, u # T PROVE g[u] = V(u)
  <2> DEFINE h == CHOOSE h : Unfolds(h, f, u)
  <2>1. Unfolds(h, f, u)
    BY <1>3, <1>4
  <2>2. h[u] = V(u)
    OBVIOUS
  <2> HIDE DEF h, V
  <2>3. CASE u = {}
    BY <2>1, <2>2, <2>3 DEF Unfolds
  <2>4. CASE u # {}
    <3> DEFINE w == u \ {First(u)}
    <3>1. First(u) \in u /\ w \in SUBSET u /\ w \in SUBSET T /\ w # T
      BY <2>4, <1>4, FirstIn
    <3>2. h[u] = f[First(u)] + h[w]
      BY <2>1, <2>4 DEF Unfolds
    <3>3. h[w] = V(w)
      <4>1. Unfolds(CHOOSE k : Unfolds(k, f, w), f, w)
        BY <1>3, <3>1
      <4>2. Unfolds(h, f, w)
        BY <2>1, <3>1, UnfoldsSubset
      <4>3. IsFiniteSet(w)
        BY <1>2, <3>1, FS_Subset
      <4> QED BY <4>1, <4>2, <4>3, UnfoldsUnique DEF V
    <3>4. g[u] = f[First(u)] + V(w)
      BY <2>4
    <3> QED BY <2>2, <3>2, <3>3, <3>4
  <2> QED BY <2>3, <2>4
<1>5. Unfolds(g, f, T)
  <2> SUFFICES ASSUME NEW s \in SUBSET T
               PROVE g[s] = IF s = {} THEN 0 ELSE f[First(s)] + g[s \ {First(s)}]
    BY DEF Unfolds
  <2>1. CASE s = {}
    BY <2>1
  <2>2. CASE s # {}
    <3>1. s \ {First(s)} \in SUBSET T /\ s \ {First(s)} # T
      BY <2>2, FirstIn
    <3>2. g[s \ {First(s)}] = V(s \ {First(s)})
      BY <1>4, <3>1
    <3>3. g[s] = f[First(s)] + V(s \ {First(s)})
      BY <2>2
    <3> QED BY <2>2, <3>2, <3>3
  <2> QED BY <2>1, <2>2
<1> QED BY <1>2, <1>5

\* SumFunctionOnSet unfolds: it is the sum, not an arbitrary value.
LEMMA SumUnfolds ==
  ASSUME NEW S, IsFiniteSet(S), NEW f
  PROVE  \E g : Unfolds(g, f, S) /\ SumFunctionOnSet(f, S) = g[S]
<1> DEFINE Fun(g) == [s \in SUBSET S |-> IF s = {} THEN 0 ELSE f[First(s)] + g[s \ {First(s)}]]
           g0 == CHOOSE g : g = Fun(g)
<1>1. SumFunctionOnSet(f, S) = g0[S]
  BY DEF SumFunctionOnSet, FoldFunctionOnSet, MapThenFoldSet, First
<1>2. \E g : g = Fun(g)
  <2>1. PICK h : Unfolds(h, f, S)
    BY UnfoldsExists
  <2> DEFINE g == [s \in SUBSET S |-> h[s]]
  <2>2. \A s \in SUBSET S : g[s] = IF s = {} THEN 0 ELSE f[First(s)] + g[s \ {First(s)}]
    BY <2>1 DEF Unfolds
  <2>3. g = Fun(g)
    BY <2>2
  <2> QED BY <2>3
<1>3. g0 = Fun(g0)
  BY <1>2
<1> HIDE DEF g0
<1>4. Unfolds(g0, f, S)
  BY <1>3 DEF Unfolds
<1> QED BY <1>1, <1>4

\* The function that unfolds gives the sum over every subset.
LEMMA UnfoldsSum ==
  ASSUME NEW S, IsFiniteSet(S), NEW f, NEW g, Unfolds(g, f, S), NEW T \in SUBSET S
  PROVE  g[T] = SumFunctionOnSet(f, T)
<1>1. IsFiniteSet(T) /\ Unfolds(g, f, T)
  BY FS_Subset, UnfoldsSubset
<1>2. PICK h : Unfolds(h, f, T) /\ SumFunctionOnSet(f, T) = h[T]
  BY <1>1, SumUnfolds
<1> QED BY <1>1, <1>2, UnfoldsUnique

\* Nothing adds up to zero, and a sum begins with the element taken first.
LEMMA SumFirst ==
  ASSUME NEW S, IsFiniteSet(S), NEW f
  PROVE  SumFunctionOnSet(f, S) =
           IF S = {} THEN 0 ELSE f[First(S)] + SumFunctionOnSet(f, S \ {First(S)})
<1>1. PICK g : Unfolds(g, f, S) /\ SumFunctionOnSet(f, S) = g[S]
  BY SumUnfolds
<1>2. g[S \ {First(S)}] = SumFunctionOnSet(f, S \ {First(S)})
  BY <1>1, UnfoldsSum
<1> QED BY <1>1, <1>2 DEF Unfolds

\* Amounts of a set closed under addition add up to one of them.
LEMMA SumClosed ==
  ASSUME NEW N, 0 \in N, \A a, b \in N : a + b \in N,
         NEW S, IsFiniteSet(S), NEW f, \A x \in S : f[x] \in N
  PROVE  SumFunctionOnSet(f, S) \in N
<1> DEFINE B == {T \in SUBSET S : SumFunctionOnSet(f, T) \notin N}
<1> SUFFICES ASSUME B # {} PROVE FALSE
  OBVIOUS
<1>1. PICK T \in B : \A U \in B : U \subseteq T => U = T
  <2>1. B \subseteq SUBSET S
    OBVIOUS
  <2> HIDE DEF B
  <2> QED BY <2>1, MinimalSubset
<1>2. T \in SUBSET S /\ SumFunctionOnSet(f, T) \notin N /\ IsFiniteSet(T)
  BY FS_Subset
<1>3. CASE T = {}
  BY <1>2, <1>3, SumFirst
<1>4. CASE T # {}
  <2>1. First(T) \in T
    BY <1>4, FirstIn
  <2>2. SumFunctionOnSet(f, T \ {First(T)}) \in N
    BY <1>1, <1>2, <2>1
  <2>3. SumFunctionOnSet(f, T) = f[First(T)] + SumFunctionOnSet(f, T \ {First(T)})
    BY <1>2, <1>4, SumFirst
  <2> QED BY <1>2, <2>1, <2>2, <2>3
<1> QED BY <1>3, <1>4

\* Whole amounts add up to a whole amount.
THEOREM SumInt ==
  ASSUME NEW S, IsFiniteSet(S), NEW f, \A x \in S : f[x] \in Int
  PROVE  SumFunctionOnSet(f, S) \in Int
<1>1. 0 \in Int /\ \A a, b \in Int : a + b \in Int
  OBVIOUS
<1> QED BY <1>1, SumClosed

\* Amounts that are not negative add up to one that is not.
THEOREM SumNat ==
  ASSUME NEW S, IsFiniteSet(S), NEW f, \A x \in S : f[x] \in Nat
  PROVE  SumFunctionOnSet(f, S) \in Nat
<1>1. 0 \in Nat /\ \A a, b \in Nat : a + b \in Nat
  OBVIOUS
<1> QED BY <1>1, SumClosed

\* Any element can be taken out of a sum, whichever was taken first.
THEOREM SumRemove ==
  ASSUME NEW S, IsFiniteSet(S), NEW f, \A x \in S : f[x] \in Int, NEW q \in S
  PROVE  SumFunctionOnSet(f, S) = f[q] + SumFunctionOnSet(f, S \ {q})
<1> DEFINE B == {T \in SUBSET S : \E r \in T : SumFunctionOnSet(f, T) # f[r] + SumFunctionOnSet(f, T \ {r})}
<1> SUFFICES ASSUME B # {} PROVE FALSE
  OBVIOUS
<1>1. PICK T \in B : \A U \in B : U \subseteq T => U = T
  <2>1. B \subseteq SUBSET S
    OBVIOUS
  <2> HIDE DEF B
  <2> QED BY <2>1, MinimalSubset
<1>2. PICK r \in T : SumFunctionOnSet(f, T) # f[r] + SumFunctionOnSet(f, T \ {r})
  OBVIOUS
<1>3. \A U \in SUBSET T : U # T => \A s \in U : SumFunctionOnSet(f, U) = f[s] + SumFunctionOnSet(f, U \ {s})
  BY <1>1
<1>4. T \in SUBSET S /\ IsFiniteSet(T) /\ T # {}
  BY <1>2, FS_Subset
<1> HIDE DEF B
<1> DEFINE c == First(T)
<1>5. c \in T /\ SumFunctionOnSet(f, T) = f[c] + SumFunctionOnSet(f, T \ {c})
  BY <1>4, FirstIn, SumFirst
<1>6. c # r
  BY <1>2, <1>5
<1> HIDE DEF c
<1>7. SumFunctionOnSet(f, T \ {c}) = f[r] + SumFunctionOnSet(f, (T \ {c}) \ {r})
  <2>1. T \ {c} \in SUBSET T /\ T \ {c} # T /\ r \in T \ {c}
    BY <1>5, <1>6
  <2> QED BY <1>3, <2>1
<1>8. SumFunctionOnSet(f, T \ {r}) = f[c] + SumFunctionOnSet(f, (T \ {r}) \ {c})
  <2>1. T \ {r} \in SUBSET T /\ T \ {r} # T /\ c \in T \ {r}
    BY <1>5, <1>6
  <2> QED BY <1>3, <2>1
<1>9. (T \ {c}) \ {r} = (T \ {r}) \ {c} /\ f[c] \in Int /\ f[r] \in Int
  BY <1>2, <1>4, <1>5
<1>10. SumFunctionOnSet(f, (T \ {r}) \ {c}) \in Int
  <2>1. IsFiniteSet((T \ {r}) \ {c}) /\ \A x \in (T \ {r}) \ {c} : f[x] \in Int
    BY <1>4, FS_Subset
  <2> QED BY <2>1, SumInt
<1>11. SumFunctionOnSet(f, (T \ {c}) \ {r}) = SumFunctionOnSet(f, (T \ {r}) \ {c})
  BY <1>9
<1> DEFINE rest == SumFunctionOnSet(f, (T \ {r}) \ {c})
<1>12. rest \in Int /\ SumFunctionOnSet(f, T) = f[c] + (f[r] + rest) /\ SumFunctionOnSet(f, T \ {r}) = f[c] + rest
  BY <1>5, <1>7, <1>8, <1>10, <1>11
<1> HIDE DEF rest
<1>13. SumFunctionOnSet(f, T) = f[r] + SumFunctionOnSet(f, T \ {r})
  BY <1>9, <1>12
<1> QED BY <1>2, <1>13

\* A sum grows by the element that comes.
THEOREM SumAdd ==
  ASSUME NEW S, IsFiniteSet(S), NEW f, NEW q, q \notin S, \A x \in S \cup {q} : f[x] \in Int
  PROVE  SumFunctionOnSet(f, S \cup {q}) = SumFunctionOnSet(f, S) + f[q]
<1>1. IsFiniteSet(S \cup {q}) /\ (S \cup {q}) \ {q} = S
  BY FS_AddElement
<1>2. SumFunctionOnSet(f, S \cup {q}) = f[q] + SumFunctionOnSet(f, S)
  BY <1>1, SumRemove
<1>3. SumFunctionOnSet(f, S) \in Int /\ f[q] \in Int
  BY SumInt
<1> QED BY <1>2, <1>3

\* A sum depends on the elements of its set alone.
THEOREM SumSame ==
  ASSUME NEW S, IsFiniteSet(S), NEW f, NEW h, \A x \in S : f[x] = h[x]
  PROVE  SumFunctionOnSet(f, S) = SumFunctionOnSet(h, S)
<1>1. PICK g : Unfolds(g, f, S) /\ SumFunctionOnSet(f, S) = g[S]
  BY SumUnfolds
<1>2. Unfolds(g, h, S)
  <2> SUFFICES ASSUME NEW s \in SUBSET S, s # {} PROVE f[First(s)] = h[First(s)]
    BY <1>1 DEF Unfolds
  <2> QED BY FirstIn
<1> QED BY <1>1, <1>2, UnfoldsSum

\* The sum of a function restricted to a finite set.
LEMMA SumOver ==
  ASSUME NEW S, IsFiniteSet(S), NEW f
  PROVE  SumFunction([x \in S |-> f[x]]) = SumFunctionOnSet(f, S)
<1> DEFINE h == [x \in S |-> f[x]]
<1>1. SumFunction(h) = SumFunctionOnSet(h, S)
  BY DEF SumFunction
<1>2. \A x \in S : h[x] = f[x]
  OBVIOUS
<1>3. SumFunctionOnSet(h, S) = SumFunctionOnSet(f, S)
  <2> HIDE DEF h
  <2> QED BY <1>2, SumSame
<1> QED BY <1>1, <1>3

\* A sum is what one part of the set adds up to, and what the rest does.
THEOREM SumSplit ==
  ASSUME NEW S, IsFiniteSet(S), NEW f, \A x \in S : f[x] \in Int, NEW T \in SUBSET S
  PROVE  SumFunctionOnSet(f, S) = SumFunctionOnSet(f, T) + SumFunctionOnSet(f, S \ T)
<1> DEFINE B == {U \in SUBSET S : SumFunctionOnSet(f, S) # SumFunctionOnSet(f, U) + SumFunctionOnSet(f, S \ U)}
<1> SUFFICES ASSUME B # {} PROVE FALSE
  OBVIOUS
<1>1. PICK V \in B : \A U \in B : U \subseteq V => U = V
  <2>1. B \subseteq SUBSET S
    OBVIOUS
  <2> HIDE DEF B
  <2> QED BY <2>1, MinimalSubset
<1>2. V \in SUBSET S /\ SumFunctionOnSet(f, S) # SumFunctionOnSet(f, V) + SumFunctionOnSet(f, S \ V)
  OBVIOUS
<1>3. \A U \in SUBSET V : U # V => SumFunctionOnSet(f, S) = SumFunctionOnSet(f, U) + SumFunctionOnSet(f, S \ U)
  BY <1>1, <1>2
<1> HIDE DEF B
<1>4. \A U \in SUBSET S : IsFiniteSet(U) /\ SumFunctionOnSet(f, U) \in Int
  <2> SUFFICES ASSUME NEW U \in SUBSET S PROVE IsFiniteSet(U) /\ SumFunctionOnSet(f, U) \in Int
    OBVIOUS
  <2>1. IsFiniteSet(U) /\ \A x \in U : f[x] \in Int
    BY FS_Subset
  <2> QED BY <2>1, SumInt
<1>5. CASE V = {}
  <2>1. SumFunctionOnSet(f, V) = 0
    BY <1>2, <1>4, <1>5, SumFirst
  <2>2. S \ V = S
    BY <1>5
  <2>3. SumFunctionOnSet(f, S \ V) = SumFunctionOnSet(f, S)
    BY <2>2
  <2> QED BY <1>2, <1>4, <2>1, <2>3
<1>6. CASE V # {}
  <2> PICK r \in V : TRUE
    BY <1>6
  <2> DEFINE W == V \ {r}
  <2>1. W \in SUBSET V /\ W # V /\ W \in SUBSET S /\ f[r] \in Int /\ r \in S \ W
    BY <1>2
  <2>2. SumFunctionOnSet(f, S) = SumFunctionOnSet(f, W) + SumFunctionOnSet(f, S \ W)
    BY <1>3, <2>1
  <2>3. SumFunctionOnSet(f, V) = f[r] + SumFunctionOnSet(f, W)
    BY <1>2, <1>4, SumRemove
  <2>4. SumFunctionOnSet(f, S \ W) = f[r] + SumFunctionOnSet(f, S \ V)
    <3>1. (S \ W) \ {r} = S \ V /\ S \ W \in SUBSET S
      BY <1>2, <2>1
    <3> HIDE DEF W
    <3>2. SumFunctionOnSet(f, S \ W) = f[r] + SumFunctionOnSet(f, (S \ W) \ {r})
      BY <1>4, <2>1, <3>1, SumRemove
    <3> QED BY <3>1, <3>2
  <2>5. SumFunctionOnSet(f, W) \in Int /\ SumFunctionOnSet(f, S \ V) \in Int
    BY <1>4, <2>1
  <2> DEFINE a == SumFunctionOnSet(f, W)
             b == SumFunctionOnSet(f, S \ V)
  <2>6. /\ a \in Int /\ b \in Int /\ SumFunctionOnSet(f, S) = a + (f[r] + b)
        /\ SumFunctionOnSet(f, V) = f[r] + a
    BY <2>2, <2>3, <2>4, <2>5
  <2>7. SumFunctionOnSet(f, V) + b = a + (f[r] + b)
    <3> HIDE DEF a, b
    <3> QED BY <2>1, <2>6
  <2> QED BY <1>2, <2>6, <2>7
<1> QED BY <1>5, <1>6
=============================================================================
