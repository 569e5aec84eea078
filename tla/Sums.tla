-------------------------------- MODULE Sums --------------------------------
(***************************************************************************)
(* Sums over finite sets: what the models' totals of seats, refunds and    *)
(* stars add up to.  MapThenSumSet of the community modules is a recursion *)
(* that takes an arbitrary element away; the lemmas say that the order     *)
(* does not matter, and what a sum does when one term changes.  Each is    *)
(* proved from a smallest subset for which it would fail.                  *)
(***************************************************************************)
EXTENDS FiniteSetsExt, FiniteSetTheorems, TLAPS

\* The sum of w[x] for x in S.
SumOver(w, S) == MapThenSumSet(LAMBDA x : w[x], S)

\* The element the recursion takes away from s, and what it means for a function
\* from the subsets of S to be that recursion.
AnyOf(s) == CHOOSE x \in s : TRUE
AddsUp(w, S, g) ==
    g = [s \in SUBSET S |-> IF s = {} THEN 0 ELSE w[AnyOf(s)] + g[s \ {AnyOf(s)}]]

\* The sum is the value of the recursion the library chooses.
LEMMA SumUnfolded == \A w, S : SumOver(w, S) = (CHOOSE g : AddsUp(w, S, g))[S]
BY DEF SumOver, MapThenSumSet, MapThenFoldSet, AddsUp, AnyOf

\* A nonempty set of subsets of a finite set has a smallest member.
LEMMA SmallestSubset ==
    ASSUME NEW S, IsFiniteSet(S), NEW T \in SUBSET SUBSET S, T # {}
    PROVE  \E t \in T : \A u \in T : u \subseteq t => u = t
<1>1. /\ IsWellFoundedOn(StrictSubsetOrdering(S), FiniteSubsetsOf(S))
      /\ FiniteSubsetsOf(S) = SUBSET S
  BY FS_StrictSubsetOrderingWellFounded, FS_FiniteSubsetsOfFinite
<1>2. \E t \in T : \A u \in T : ~ (<<u, t>> \in StrictSubsetOrdering(S))
  BY <1>1, WFMin
<1> QED  BY <1>2 DEF StrictSubsetOrdering

\* The element taken away was there.
LEMMA AnyOfIsIn == \A s : s # {} => AnyOf(s) \in s
BY DEF AnyOf

\* Two recursions that add the same terms agree where both are defined.
LEMMA SumsAgree ==
    ASSUME NEW w, NEW S, NEW T, NEW g, NEW h, IsFiniteSet(T), T \subseteq S,
           AddsUp(w, S, g), AddsUp(w, T, h)
    PROVE  \A s \in SUBSET T : g[s] = h[s]
<1> DEFINE Bad == {s \in SUBSET T : g[s] # h[s]}
<1> SUFFICES ASSUME Bad # {} PROVE FALSE
  OBVIOUS
<1>1. PICK t \in Bad : \A u \in Bad : u \subseteq t => u = t
  <2> HIDE DEF Bad
  <2>1. Bad \in SUBSET SUBSET T
    BY DEF Bad
  <2> QED  BY <2>1, SmallestSubset
<1>2. CASE t = {}
  BY <1>1, <1>2 DEF AddsUp
<1>3. CASE t # {}
  <2>1. AnyOf(t) \in t /\ t \in SUBSET T /\ t \in SUBSET S
    BY <1>1, <1>3, AnyOfIsIn
  <2>2. g[t \ {AnyOf(t)}] = h[t \ {AnyOf(t)}]
    BY <1>1, <2>1
  <2>3. g[t] = w[AnyOf(t)] + g[t \ {AnyOf(t)}] /\ h[t] = w[AnyOf(t)] + h[t \ {AnyOf(t)}]
    BY <1>3, <2>1 DEF AddsUp
  <2> QED  BY <1>1, <2>2, <2>3
<1> QED  BY <1>2, <1>3

\* There is such a recursion over every finite set.
LEMMA SumsExist ==
    ASSUME NEW w, NEW S, IsFiniteSet(S)
    PROVE  \E g : AddsUp(w, S, g)
<1> DEFINE Bad == {s \in SUBSET S : ~ \E g : AddsUp(w, s, g)}
<1> SUFFICES ASSUME Bad # {} PROVE FALSE
  OBVIOUS
<1>1. PICK T \in Bad : \A u \in Bad : u \subseteq T => u = T
  <2> HIDE DEF Bad
  <2>1. Bad \in SUBSET SUBSET S
    BY DEF Bad
  <2> QED  BY <2>1, SmallestSubset
<1> DEFINE f(s) == CHOOSE g : AddsUp(w, s, g)
<1>2. \A s \in SUBSET T : s # T => AddsUp(w, s, f(s))
  <2> SUFFICES ASSUME NEW s \in SUBSET T, s # T PROVE \E g : AddsUp(w, s, g)
    OBVIOUS
  <2> QED  BY <1>1
<1> DEFINE Rest(s) == s \ {AnyOf(s)}
<1> DEFINE G == [s \in SUBSET T |->
                    IF s = {} THEN 0 ELSE w[AnyOf(s)] + f(Rest(s))[Rest(s)]]
<1> HIDE DEF f
<1>3. \A s \in SUBSET T : s # T => G[s] = f(s)[s]
  <2> SUFFICES ASSUME NEW s \in SUBSET T, s # T PROVE G[s] = f(s)[s]
    OBVIOUS
  <2>1. AddsUp(w, s, f(s))
    BY <1>2
  <2>2. CASE s = {}
    <3>1. f(s)[s] = 0
      BY <2>1, <2>2 DEF AddsUp
    <3> QED  BY <2>2, <3>1
  <2>3. CASE s # {}
    <3> DEFINE r == s \ {AnyOf(s)}
    <3>1. AnyOf(s) \in s /\ r \in SUBSET T /\ r # T /\ r \subseteq s
      BY <2>3, AnyOfIsIn
    <3>2. f(s)[s] = w[AnyOf(s)] + f(s)[r]
      BY <2>1, <2>3 DEF AddsUp
    <3>3. IsFiniteSet(r)
      BY <1>1, <3>1, FS_Subset
    <3>4. AddsUp(w, r, f(r))
      BY <1>2, <3>1
    <3>5. f(s)[r] = f(r)[r]
      BY <2>1, <3>1, <3>3, <3>4, SumsAgree
    <3> QED  BY <2>3, <3>1, <3>2, <3>5
  <2> QED  BY <2>2, <2>3
<1>4. AddsUp(w, T, G)
  <2>1. \A s \in SUBSET T : s # {} => s \ {AnyOf(s)} \in SUBSET T /\ s \ {AnyOf(s)} # T
    BY AnyOfIsIn
  <2>2. \A s \in SUBSET T : s # {} => f(s \ {AnyOf(s)})[s \ {AnyOf(s)}] = G[s \ {AnyOf(s)}]
    <3> HIDE DEF G
    <3> QED  BY <1>3, <2>1
  <2>3. G = [s \in SUBSET T |-> IF s = {} THEN 0 ELSE w[AnyOf(s)] + G[s \ {AnyOf(s)}]]
    <3> DEFINE H == [s \in SUBSET T |->
                        IF s = {} THEN 0 ELSE w[AnyOf(s)] + G[s \ {AnyOf(s)}]]
    <3>1. \A s \in SUBSET T : G[s] = H[s]
      <4> SUFFICES ASSUME NEW s \in SUBSET T PROVE G[s] = H[s]
        OBVIOUS
      <4>1. CASE s = {}
        BY <4>1
      <4>2. CASE s # {}
        <5>1. G[s] = w[AnyOf(s)] + f(s \ {AnyOf(s)})[s \ {AnyOf(s)}]
          BY <4>2
        <5>2. f(s \ {AnyOf(s)})[s \ {AnyOf(s)}] = G[s \ {AnyOf(s)}]
          BY <2>2, <4>2
        <5>3. H[s] = w[AnyOf(s)] + G[s \ {AnyOf(s)}]
          <6> HIDE DEF G
          <6> QED  BY <4>2
        <5> HIDE DEF G, H
        <5> QED  BY <5>1, <5>2, <5>3
      <4> QED  BY <4>1, <4>2
    <3>2. /\ DOMAIN G = SUBSET T /\ G = [s \in DOMAIN G |-> G[s]]
          /\ DOMAIN H = SUBSET T /\ H = [s \in DOMAIN H |-> H[s]]
      OBVIOUS
    <3> HIDE DEF G, H
    <3>3. G = H
      BY <3>1, <3>2
    <3> QED  BY <3>3 DEF H
  <2> HIDE DEF G
  <2> QED  BY <2>3 DEF AddsUp
<1> QED  BY <1>1, <1>4

\* Every recursion over S gives the sum over the subsets of S.
LEMMA SumIs ==
    ASSUME NEW w, NEW S, IsFiniteSet(S), NEW T \in SUBSET S, NEW g, AddsUp(w, S, g)
    PROVE  SumOver(w, T) = g[T]
<1>1. IsFiniteSet(T)
  BY FS_Subset
<1>2. AddsUp(w, T, CHOOSE h : AddsUp(w, T, h))
  BY <1>1, SumsExist
<1> QED  BY <1>1, <1>2, SumsAgree, SumUnfolded

\* What the recursion computes, whichever element it takes away first: the sum
\* over a nonempty finite set is one of its terms and the sum of the others.
THEOREM SumRecurrence ==
    ASSUME NEW w, NEW S, IsFiniteSet(S)
    PROVE  SumOver(w, S) =
               IF S = {} THEN 0 ELSE w[AnyOf(S)] + SumOver(w, S \ {AnyOf(S)})
<1>1. PICK g : AddsUp(w, S, g)
  BY SumsExist
<1>2. \A T \in SUBSET S : SumOver(w, T) = g[T]
  BY <1>1, SumIs
<1>3. g[S] = IF S = {} THEN 0 ELSE w[AnyOf(S)] + g[S \ {AnyOf(S)}]
  BY <1>1 DEF AddsUp
<1> QED  BY <1>2, <1>3

\* Nothing adds up to 0.
LEMMA SumEmpty == \A w : SumOver(w, {}) = 0
BY SumRecurrence, FS_EmptySet

\* Integers add up to an integer.
LEMMA SumType ==
    ASSUME NEW S, IsFiniteSet(S), NEW w, \A x \in S : w[x] \in Int
    PROVE  SumOver(w, S) \in Int
<1> DEFINE Bad == {s \in SUBSET S : SumOver(w, s) \notin Int}
<1> SUFFICES ASSUME Bad # {} PROVE FALSE
  OBVIOUS
<1>1. PICK t \in Bad : \A u \in Bad : u \subseteq t => u = t
  <2> HIDE DEF Bad
  <2>1. Bad \in SUBSET SUBSET S
    BY DEF Bad
  <2> QED  BY <2>1, SmallestSubset
<1>2. IsFiniteSet(t)
  BY FS_Subset
<1>3. t # {}
  BY SumEmpty
<1>4. AnyOf(t) \in t /\ t \ {AnyOf(t)} \notin Bad
  BY <1>1, <1>3, AnyOfIsIn
<1>5. SumOver(w, t) = w[AnyOf(t)] + SumOver(w, t \ {AnyOf(t)})
  BY <1>2, <1>3, SumRecurrence
<1> QED  BY <1>4, <1>5

\* Any element can be the one taken away.
LEMMA SumTakeOne ==
    ASSUME NEW S, IsFiniteSet(S), NEW w, \A x \in S : w[x] \in Int, NEW x \in S
    PROVE  SumOver(w, S) = w[x] + SumOver(w, S \ {x})
<1> DEFINE Bad == {s \in SUBSET S :
                      \E y \in s : SumOver(w, s) # w[y] + SumOver(w, s \ {y})}
<1> SUFFICES ASSUME Bad # {} PROVE FALSE
  OBVIOUS
<1>1. PICK t \in Bad : \A u \in Bad : u \subseteq t => u = t
  <2> HIDE DEF Bad
  <2>1. Bad \in SUBSET SUBSET S
    BY DEF Bad
  <2> QED  BY <2>1, SmallestSubset
<1>2. PICK y \in t : SumOver(w, t) # w[y] + SumOver(w, t \ {y})
  BY <1>1
<1> DEFINE p == AnyOf(t)
<1>3. p \in t /\ t \subseteq S /\ t # {}
  BY <1>2, AnyOfIsIn
<1> HIDE DEF p
<1>4. /\ IsFiniteSet(t) /\ IsFiniteSet(t \ {p})
      /\ IsFiniteSet(t \ {y}) /\ IsFiniteSet((t \ {y}) \ {p})
  BY <1>3, FS_Subset
<1>5. SumOver(w, t) = w[p] + SumOver(w, t \ {p})
  BY <1>3, <1>4, SumRecurrence DEF p
<1>6. y # p
  BY <1>2, <1>5
<1>7. t \ {p} \notin Bad /\ t \ {y} \notin Bad
  BY <1>1, <1>2, <1>3
<1>8. SumOver(w, t \ {p}) = w[y] + SumOver(w, (t \ {p}) \ {y})
  BY <1>2, <1>3, <1>6, <1>7
<1>9. SumOver(w, t \ {y}) = w[p] + SumOver(w, (t \ {y}) \ {p})
  BY <1>2, <1>3, <1>6, <1>7
<1>10. (t \ {y}) \ {p} = (t \ {p}) \ {y}
  OBVIOUS
<1>11. w[p] \in Int /\ w[y] \in Int /\ SumOver(w, (t \ {y}) \ {p}) \in Int
  <2>1. \A z \in (t \ {y}) \ {p} : w[z] \in Int
    BY <1>3
  <2> QED  BY <1>2, <1>3, <1>4, <2>1, SumType
<1> QED  BY <1>2, <1>5, <1>8, <1>9, <1>10, <1>11

\* A new element adds its term.
LEMMA SumAddOne ==
    ASSUME NEW S, IsFiniteSet(S), NEW w, \A x \in S : w[x] \in Int,
           NEW x, x \notin S, w[x] \in Int
    PROVE  SumOver(w, S \cup {x}) = w[x] + SumOver(w, S)
<1>1. /\ (S \cup {x}) \ {x} = S /\ IsFiniteSet(S \cup {x})
      /\ \A y \in S \cup {x} : w[y] \in Int
  BY FS_AddElement
<1>2. SumOver(w, S \cup {x}) = w[x] + SumOver(w, (S \cup {x}) \ {x})
  BY <1>1, SumTakeOne
<1> QED  BY <1>1, <1>2

\* Terms that are no larger add up to no more.
LEMMA SumMonotone ==
    ASSUME NEW S, IsFiniteSet(S), NEW w, NEW v,
           \A x \in S : w[x] \in Int /\ v[x] \in Int /\ w[x] <= v[x]
    PROVE  SumOver(w, S) <= SumOver(v, S)
<1> DEFINE Bad == {s \in SUBSET S : ~ (SumOver(w, s) <= SumOver(v, s))}
<1> SUFFICES ASSUME Bad # {} PROVE FALSE
  OBVIOUS
<1>1. PICK t \in Bad : \A u \in Bad : u \subseteq t => u = t
  <2> HIDE DEF Bad
  <2>1. Bad \in SUBSET SUBSET S
    BY DEF Bad
  <2> QED  BY <2>1, SmallestSubset
<1>2. CASE t = {}
  BY <1>1, <1>2, SumEmpty
<1>3. CASE t # {}
  <2> DEFINE p == AnyOf(t) r == t \ {p}
  <2>1. p \in t /\ r \subseteq S /\ r \notin Bad
    BY <1>1, <1>3, AnyOfIsIn
  <2>2. IsFiniteSet(t) /\ IsFiniteSet(r)
    BY <2>1, FS_Subset
  <2>3. /\ SumOver(w, t) = w[p] + SumOver(w, r)
        /\ SumOver(v, t) = v[p] + SumOver(v, r)
    BY <1>3, <2>2, SumRecurrence
  <2> HIDE DEF r, p
  <2>4. SumOver(w, r) \in Int /\ SumOver(v, r) \in Int
    BY <2>1, <2>2, SumType
  <2>5. SumOver(w, r) <= SumOver(v, r)
    BY <2>1
  <2> QED  BY <1>1, <2>1, <2>3, <2>4, <2>5
<1> QED  BY <1>2, <1>3

\* Equal terms add up to the same.
LEMMA SumSame ==
    ASSUME NEW S, IsFiniteSet(S), NEW w, NEW v,
           \A x \in S : w[x] \in Int /\ v[x] = w[x]
    PROVE  SumOver(w, S) = SumOver(v, S)
<1>1. SumOver(w, S) <= SumOver(v, S) /\ SumOver(v, S) <= SumOver(w, S)
  BY SumMonotone
<1>2. SumOver(w, S) \in Int /\ SumOver(v, S) \in Int
  BY SumType
<1> QED  BY <1>1, <1>2

\* Terms that are 0 can be left out.
LEMMA SumIgnoresZeroes ==
    ASSUME NEW S, IsFiniteSet(S), NEW T \in SUBSET S, NEW w,
           \A x \in S : w[x] \in Int /\ (x \notin T => w[x] = 0)
    PROVE  SumOver(w, S) = SumOver(w, T)
<1> DEFINE Bad == {s \in SUBSET S : T \subseteq s /\ SumOver(w, s) # SumOver(w, T)}
<1> SUFFICES ASSUME Bad # {} PROVE FALSE
  BY DEF Bad
<1>1. PICK t \in Bad : \A u \in Bad : u \subseteq t => u = t
  <2> HIDE DEF Bad
  <2>1. Bad \in SUBSET SUBSET S
    BY DEF Bad
  <2> QED  BY <2>1, SmallestSubset
<1>2. PICK x \in t : x \notin T
  <2>1. T \subseteq t /\ t # T
    BY <1>1
  <2> QED  BY <2>1
<1>3. IsFiniteSet(t) /\ t \subseteq S /\ IsFiniteSet(t \ {x})
  BY FS_Subset
<1>4. SumOver(w, t) = 0 + SumOver(w, t \ {x})
  BY <1>2, <1>3, SumTakeOne
<1>5. SumOver(w, t \ {x}) \in Int
  BY <1>3, SumType
<1>6. t \ {x} \in Bad
  BY <1>1, <1>2, <1>3, <1>4, <1>5
<1> QED  BY <1>1, <1>2, <1>6

\* A sum follows the change of one of its terms.
LEMMA SumChangeOne ==
    ASSUME NEW S, IsFiniteSet(S), NEW w, NEW v, NEW x \in S,
           \A y \in S : w[y] \in Int /\ v[y] \in Int /\ (y # x => v[y] = w[y])
    PROVE  SumOver(v, S) = SumOver(w, S) + (v[x] - w[x])
<1>1. IsFiniteSet(S \ {x})
  BY FS_Subset
<1>2. SumOver(v, S) = v[x] + SumOver(v, S \ {x})
  BY SumTakeOne
<1>3. SumOver(w, S) = w[x] + SumOver(w, S \ {x})
  BY SumTakeOne
<1>4. SumOver(w, S \ {x}) = SumOver(v, S \ {x})
  BY <1>1, SumSame
<1>5. SumOver(w, S \ {x}) \in Int
  BY <1>1, SumType
<1> QED  BY <1>2, <1>3, <1>4, <1>5

\* A sum of two terms each is the sum of two sums.
LEMMA SumOfSums ==
    ASSUME NEW S, IsFiniteSet(S), NEW w, NEW u, NEW v,
           \A x \in S : w[x] \in Int /\ u[x] \in Int /\ v[x] = w[x] + u[x]
    PROVE  SumOver(v, S) = SumOver(w, S) + SumOver(u, S)
<1> DEFINE Bad == {s \in SUBSET S : SumOver(v, s) # SumOver(w, s) + SumOver(u, s)}
<1> SUFFICES ASSUME Bad # {} PROVE FALSE
  OBVIOUS
<1>1. PICK t \in Bad : \A r \in Bad : r \subseteq t => r = t
  <2> HIDE DEF Bad
  <2>1. Bad \in SUBSET SUBSET S
    BY DEF Bad
  <2> QED  BY <2>1, SmallestSubset
<1>2. t # {}
  <2>1. SumOver(v, {}) = SumOver(w, {}) + SumOver(u, {})
    BY SumEmpty
  <2> QED  BY <1>1, <2>1
<1>3. PICK x \in t : TRUE
  BY <1>2
<1>4. IsFiniteSet(t) /\ IsFiniteSet(t \ {x}) /\ t \subseteq S
  BY FS_Subset
<1>5. /\ SumOver(w, t) = w[x] + SumOver(w, t \ {x})
      /\ SumOver(u, t) = u[x] + SumOver(u, t \ {x})
  BY <1>4, SumTakeOne
<1>6. SumOver(v, t) = v[x] + SumOver(v, t \ {x})
  BY <1>4, SumTakeOne
<1>7. t \ {x} \notin Bad
  BY <1>1, <1>3
<1>8. SumOver(v, t \ {x}) = SumOver(w, t \ {x}) + SumOver(u, t \ {x})
  BY <1>4, <1>7
<1>9. SumOver(w, t \ {x}) \in Int /\ SumOver(u, t \ {x}) \in Int
  BY <1>4, SumType
<1> QED  BY <1>1, <1>3, <1>4, <1>5, <1>6, <1>8, <1>9
=============================================================================
