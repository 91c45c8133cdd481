-------------------------------- MODULE Sums --------------------------------
(***************************************************************************)
(* What the proofs of several components need to know of finite sets,      *)
(* numbers and sums.                                                       *)
(***************************************************************************)
EXTENDS Integers, FiniteSets, FiniteSetTheorems, Functions, TLAPS

(* Sums over finite sets.  The library takes out one element after the     *)
(* other, with a recursive function on subsets; what it computes follows   *)
(* from the least subset that every family of subsets of a finite set has. *)

(* Induction over the subsets of a finite set.                             *)
LEMMA MinimalSubset ==
    ASSUME NEW S, IsFiniteSet(S), NEW Bad \in SUBSET (SUBSET S), Bad # {}
    PROVE  \E T \in Bad : \A U \in Bad : U \subseteq T => U = T
  <1> DEFINE R == StrictSubsetOrdering(S)
  <1>1. IsWellFoundedOn(R, FiniteSubsetsOf(S))
    BY FS_StrictSubsetOrderingWellFounded
  <1>2. Bad \subseteq FiniteSubsetsOf(S)
    BY FS_Subset DEF FiniteSubsetsOf
  <1> HIDE DEF R
  <1>3. PICK T \in Bad : \A U \in Bad : ~ (<<U, T>> \in R)
    BY <1>1, <1>2, WFMin
  <1>4. ASSUME NEW U \in Bad, U \subseteq T PROVE U = T
    <2>1. <<U, T>> \notin R
      BY <1>3
    <2>2. U \in SUBSET S /\ T \in SUBSET S
      OBVIOUS
    <2> QED
      BY <1>4, <2>1, <2>2 DEF R, StrictSubsetOrdering
  <1> QED
    BY <1>4

(* The sum of f over a set, as the library computes it: it takes out one   *)
(* element at a time.                                                      *)
First(s) == CHOOSE x \in s : TRUE
Adds(g, S, f) == g = [s \in SUBSET S |-> IF s = {} THEN 0 ELSE f[First(s)] + g[s \ {First(s)}]]
Sum(f, S) == SumFunctionOnSet(f, S)

LEMMA SumAdds == \A f, S : Sum(f, S) = (CHOOSE g : Adds(g, S, f))[S]
  BY DEF SumFunctionOnSet, FoldFunctionOnSet, MapThenFoldSet, Adds, First, Sum

LEMMA FirstIn == ASSUME NEW s, s # {} PROVE First(s) \in s
  BY DEF First

(* That computation has one result,                                        *)
LEMMA AddsUnique ==
    ASSUME NEW f, NEW S, NEW T, IsFiniteSet(S), NEW g, NEW h, Adds(g, S, f), Adds(h, T, f), T \subseteq S
    PROVE  \A u \in SUBSET T : g[u] = h[u]
  <1> DEFINE Bad == {u \in SUBSET T : g[u] # h[u]}
  <1> SUFFICES ASSUME Bad # {} PROVE FALSE
    OBVIOUS
  <1>2. PICK u \in Bad : \A v \in Bad : v \subseteq u => v = u
    <2>1. Bad \in SUBSET (SUBSET S)
      OBVIOUS
    <2> HIDE DEF Bad
    <2> QED
      BY <2>1, MinimalSubset
  <1>3. u \in SUBSET T /\ u \in SUBSET S /\ g[u] # h[u]
    OBVIOUS
  <1>4. CASE u = {}
    BY <1>3, <1>4 DEF Adds
  <1>5. CASE u # {}
    <2> DEFINE v == u \ {First(u)}
    <2>1. v \in SUBSET T /\ v # u /\ v \subseteq u
      BY <1>3, <1>5, FirstIn
    <2>2. g[v] = h[v]
      BY <1>2, <2>1
    <2>3. g[u] = f[First(u)] + g[v] /\ h[u] = f[First(u)] + h[v]
      BY <1>3, <1>5 DEF Adds
    <2> QED
      BY <1>3, <2>2, <2>3
  <1> QED
    BY <1>4, <1>5

(* and has one for every finite set.                                       *)
LEMMA AddsExists ==
    ASSUME NEW f, NEW S, IsFiniteSet(S)
    PROVE  \E g : Adds(g, S, f)
  <1> DEFINE Bad == {u \in SUBSET S : ~ \E g : Adds(g, u, f)}
  <1> SUFFICES ASSUME Bad # {} PROVE FALSE
    OBVIOUS
  <1>1. PICK u \in Bad : \A v \in Bad : v \subseteq u => v = u
    <2>1. Bad \in SUBSET (SUBSET S)
      OBVIOUS
    <2> HIDE DEF Bad
    <2> QED
      BY <2>1, MinimalSubset
  <1> DEFINE It(v) == CHOOSE g : Adds(g, v, f)
             new == [s \in SUBSET u |-> IF s = {} THEN 0 ELSE f[First(s)] + It(s \ {First(s)})[s \ {First(s)}]]
  <1>2. ASSUME NEW v \in SUBSET u, v # u PROVE Adds(It(v), v, f) /\ IsFiniteSet(v)
    <2>1. v \in SUBSET S /\ v \notin Bad
      BY <1>1, <1>2
    <2> QED
      BY <2>1, FS_Subset
  <1>3. ASSUME NEW s \in SUBSET u, s # {} PROVE It(s \ {First(s)})[s \ {First(s)}] = new[s \ {First(s)}]
    <2> DEFINE t == s \ {First(s)}
    <2>1. t \in SUBSET u /\ t # u
      BY <1>3, FirstIn
    <2>2. Adds(It(t), t, f) /\ IsFiniteSet(t)
      BY <1>2, <2>1
    <2>3. CASE t = {}
      <3>1. It(t)[t] = 0
        BY <2>2, <2>3 DEF Adds
      <3>2. new[t] = 0
        BY <2>1, <2>3
      <3> QED
        BY <3>1, <3>2
    <2>4. CASE t # {}
      <3> DEFINE w == t \ {First(t)}
      <3>1. w \in SUBSET t /\ w \in SUBSET u /\ w # u
        BY <2>1, <2>4, FirstIn
      <3>2. Adds(It(w), w, f)
        BY <1>2, <3>1
      <3>3. It(t)[t] = f[First(t)] + It(t)[w]
        BY <2>2, <2>4 DEF Adds
      <3>4. It(t)[w] = It(w)[w]
        <4> HIDE DEF It, t, w
        <4>1. \A z \in SUBSET w : It(t)[z] = It(w)[z]
          BY <2>2, <3>1, <3>2, AddsUnique
        <4> QED
          BY <4>1
      <3>5. new[t] = f[First(t)] + It(w)[w]
        BY <2>1, <2>4
      <3>6. It(t)[t] = new[t]
        BY <3>3, <3>4, <3>5
      <3> QED
        BY <3>6
    <2> QED
      BY <2>3, <2>4
  <1>4. Adds(new, u, f)
    <2> DEFINE again == [s \in SUBSET u |-> IF s = {} THEN 0 ELSE f[First(s)] + new[s \ {First(s)}]]
    <2>1. new = [s \in SUBSET u |-> new[s]] /\ again = [s \in SUBSET u |-> again[s]]
      OBVIOUS
    <2>2. ASSUME NEW s \in SUBSET u PROVE new[s] = again[s]
      <3>1. CASE s = {}
        BY <3>1
      <3>2. CASE s # {}
        <4>1. new[s] = f[First(s)] + It(s \ {First(s)})[s \ {First(s)}]
          BY <3>2
        <4>2. again[s] = f[First(s)] + new[s \ {First(s)}]
          BY <3>2
        <4>3. It(s \ {First(s)})[s \ {First(s)}] = new[s \ {First(s)}]
          BY <1>3, <3>2
        <4> QED
          BY <4>1, <4>2, <4>3
      <3> QED
        BY <3>1, <3>2
    <2>3. new = again
      BY <2>1, <2>2
    <2> HIDE DEF new
    <2> QED
      BY <2>3 DEF Adds
  <1> QED
    BY <1>1, <1>4

(* The sum over a finite set, element by element.                          *)
LEMMA SumStep ==
    ASSUME NEW f, NEW S, IsFiniteSet(S)
    PROVE  /\ Sum(f, {}) = 0
           /\ S # {} => Sum(f, S) = f[First(S)] + Sum(f, S \ {First(S)})
  <1> DEFINE It(v) == CHOOSE g : Adds(g, v, f)
  <1>1. ASSUME NEW v, IsFiniteSet(v) PROVE Adds(It(v), v, f)
    BY <1>1, AddsExists
  <1>2. Adds(It({}), {}, f) /\ IsFiniteSet({})
    BY <1>1, FS_EmptySet
  <1>3. It({})[{}] = 0
    BY <1>2 DEF Adds
  <1>4. ASSUME NEW T, T \subseteq S PROVE IsFiniteSet(T) /\ It(S)[T] = It(T)[T]
    <2>1. IsFiniteSet(T)
      BY <1>4, FS_Subset
    <2>2. Adds(It(S), S, f) /\ Adds(It(T), T, f)
      BY <1>1, <2>1
    <2>3. \A z \in SUBSET T : It(S)[z] = It(T)[z]
      <3> HIDE DEF It
      <3>1. ASSUME NEW g, NEW h, g = It(S), h = It(T) PROVE \A z \in SUBSET T : g[z] = h[z]
        <4>1. Adds(g, S, f)
          BY <2>2, <3>1
        <4>2. Adds(h, T, f)
          BY <2>2, <3>1
        <4> QED
          BY <1>4, <4>1, <4>2, AddsUnique
      <3> QED
        BY <3>1
    <2> QED
      BY <2>1, <2>3
  <1>5. ASSUME S # {} PROVE It(S)[S] = f[First(S)] + It(S \ {First(S)})[S \ {First(S)}]
    <2>1. It(S)[S \ {First(S)}] = It(S \ {First(S)})[S \ {First(S)}]
      BY <1>4
    <2>2. Adds(It(S), S, f)
      BY <1>1
    <2> HIDE DEF It
    <2>3. It(S)[S] = f[First(S)] + It(S)[S \ {First(S)}]
      BY <1>5, <2>2 DEF Adds
    <2> QED
      BY <2>1, <2>3
  <1> QED
    BY <1>3, <1>5, SumAdds

(* Induction over a finite set, taking out one element at a time.          *)
LEMMA SubsetInduction ==
    ASSUME NEW S, IsFiniteSet(S), NEW Good \in SUBSET (SUBSET S), {} \in Good,
           \A u \in SUBSET S : u # {} /\ u \ {First(u)} \in Good => u \in Good
    PROVE  \A u \in SUBSET S : u \in Good
  <1> DEFINE Bad == (SUBSET S) \ Good
  <1> SUFFICES ASSUME Bad # {} PROVE FALSE
    OBVIOUS
  <1>1. PICK u \in Bad : \A v \in Bad : v \subseteq u => v = u
    <2>1. Bad \in SUBSET (SUBSET S)
      OBVIOUS
    <2> HIDE DEF Bad
    <2> QED
      BY <2>1, MinimalSubset
  <1>2. u # {} /\ u \in SUBSET S /\ u \notin Good
    BY <1>1
  <1>3. First(u) \in u
    BY <1>2, FirstIn
  <1>4. u \ {First(u)} \in SUBSET S /\ u \ {First(u)} \notin Bad
    BY <1>1, <1>2, <1>3
  <1> QED
    BY <1>2, <1>4

(* and over the natural numbers.                                           *)
LEMMA NumberInduction ==
    ASSUME NEW Good \in SUBSET Nat, 0 \in Good, \A n \in Good : n + 1 \in Good
    PROVE  \A n \in Nat : n \in Good
  <1> DEFINE R == {ss \in Nat \X Nat : ss[1] < ss[2]}
             Bad == Nat \ Good
  <1> SUFFICES ASSUME Bad # {} PROVE FALSE
    OBVIOUS
  <1>1. IsWellFoundedOn(R, Nat)
    BY NatLessThanWellFounded DEF OpToRel
  <1>2. PICK n \in Bad : \A m \in Bad : ~ (<<m, n>> \in R)
    BY <1>1, WFMin
  <1>3. n # 0 /\ n - 1 \in Nat /\ n - 1 < n
    BY <1>2
  <1>4. <<n - 1, n>> \in R
    BY <1>2, <1>3
  <1>5. n - 1 \in Good
    BY <1>2, <1>3, <1>4
  <1> QED
    BY <1>2, <1>3, <1>5

(* The sum depends on the values in the set only,                          *)
LEMMA SumSame ==
    ASSUME NEW f, NEW g, NEW S, IsFiniteSet(S), \A x \in S : f[x] = g[x]
    PROVE  Sum(f, S) = Sum(g, S)
  <1> DEFINE Good == {u \in SUBSET S : Sum(f, u) = Sum(g, u)}
  <1>1. {} \in Good
    BY SumStep, FS_EmptySet
  <1>2. ASSUME NEW u \in SUBSET S, u # {}, u \ {First(u)} \in Good PROVE u \in Good
    <2>1. IsFiniteSet(u) /\ First(u) \in S
      BY <1>2, FS_Subset, FirstIn
    <2>2. /\ Sum(f, u) = f[First(u)] + Sum(f, u \ {First(u)})
          /\ Sum(g, u) = g[First(u)] + Sum(g, u \ {First(u)})
      BY <1>2, <2>1, SumStep
    <2> QED
      BY <1>2, <2>1, <2>2
  <1>3. Good \in SUBSET (SUBSET S) /\ S \in SUBSET S
    OBVIOUS
  <1> HIDE DEF Good
  <1>4. S \in Good
    BY <1>1, <1>2, <1>3, SubsetInduction
  <1> QED
    BY <1>4 DEF Good

(* is a number when they are,                                              *)
LEMMA SumType ==
    ASSUME NEW f, NEW S, IsFiniteSet(S)
    PROVE  /\ (\A x \in S : f[x] \in Int) => Sum(f, S) \in Int
           /\ (\A x \in S : f[x] \in Nat) => Sum(f, S) \in Nat
           /\ (\A x \in S : f[x] = 0) => Sum(f, S) = 0
  <1>1. ASSUME NEW T, 0 \in T, \A a, b \in T : a + b \in T, \A x \in S : f[x] \in T
        PROVE  Sum(f, S) \in T
    <2> DEFINE Good == {u \in SUBSET S : Sum(f, u) \in T}
    <2>1. {} \in Good
      BY <1>1, SumStep, FS_EmptySet
    <2>2. ASSUME NEW u \in SUBSET S, u # {}, u \ {First(u)} \in Good PROVE u \in Good
      <3>1. IsFiniteSet(u) /\ First(u) \in S
        BY <2>2, FS_Subset, FirstIn
      <3>2. Sum(f, u) = f[First(u)] + Sum(f, u \ {First(u)})
        BY <2>2, <3>1, SumStep
      <3> QED
        BY <1>1, <2>2, <3>1, <3>2
    <2>3. Good \in SUBSET (SUBSET S) /\ S \in SUBSET S
      OBVIOUS
    <2> HIDE DEF Good
    <2>4. S \in Good
      BY <2>1, <2>2, <2>3, SubsetInduction
    <2> QED
      BY <2>4 DEF Good
  <1>2. ASSUME \A x \in S : f[x] \in Int PROVE Sum(f, S) \in Int
    <2>1. 0 \in Int /\ \A a, b \in Int : a + b \in Int
      OBVIOUS
    <2> QED
      BY <1>1, <1>2, <2>1
  <1>3. ASSUME \A x \in S : f[x] \in Nat PROVE Sum(f, S) \in Nat
    <2>1. 0 \in Nat /\ \A a, b \in Nat : a + b \in Nat
      OBVIOUS
    <2> DEFINE N == Nat
    <2>2. 0 \in N /\ (\A a, b \in N : a + b \in N) /\ \A x \in S : f[x] \in N
      BY <1>3, <2>1
    <2> HIDE DEF N
    <2>3. Sum(f, S) \in N
      BY <1>1, <2>2
    <2> QED
      BY <2>3 DEF N
  <1>4. ASSUME \A x \in S : f[x] = 0 PROVE Sum(f, S) = 0
    <2> DEFINE N == {0}
    <2>1. 0 \in N /\ (\A a, b \in N : a + b \in N) /\ \A x \in S : f[x] \in N
      BY <1>4
    <2> HIDE DEF N
    <2>2. Sum(f, S) \in N
      BY <1>1, <2>1
    <2> QED
      BY <2>2 DEF N
  <1> QED
    BY <1>2, <1>3, <1>4

(* and does not depend on the order: any element can be taken out first.   *)
LEMMA SumTake ==
    ASSUME NEW f, NEW S, IsFiniteSet(S), \A x \in S : f[x] \in Int, NEW a \in S
    PROVE  Sum(f, S) = f[a] + Sum(f, S \ {a})
  <1> DEFINE Good == {u \in SUBSET S : \A b \in u : Sum(f, u) = f[b] + Sum(f, u \ {b})}
             Bad == (SUBSET S) \ Good
  <1>1. SUFFICES ASSUME Bad # {} PROVE FALSE
    <2>1. S \in Good
      OBVIOUS
    <2> QED
      BY <2>1
  <1>2. PICK u \in Bad : \A v \in Bad : v \subseteq u => v = u
    <2>1. Bad \in SUBSET (SUBSET S)
      OBVIOUS
    <2> HIDE DEF Bad
    <2> QED
      BY <1>1, <2>1, MinimalSubset
  <1>3. u \in SUBSET S /\ IsFiniteSet(u)
    BY <1>2, FS_Subset
  <1>4. PICK b \in u : Sum(f, u) # f[b] + Sum(f, u \ {b})
    BY <1>2
  <1> DEFINE c == First(u)
             w == u \ {b, c}
  <1>5. c \in u
    BY <1>4, FirstIn
  <1>6. Sum(f, u) = f[c] + Sum(f, u \ {c})
    BY <1>3, <1>4, SumStep
  <1>7. b # c
    BY <1>4, <1>6
  <1>8. Sum(f, u \ {c}) = f[b] + Sum(f, w)
    <2>1. u \ {c} \in Good /\ b \in u \ {c} /\ (u \ {c}) \ {b} = w
      BY <1>2, <1>5, <1>7
    <2> QED
      BY <2>1
  <1>9. Sum(f, u \ {b}) = f[c] + Sum(f, w)
    <2>1. u \ {b} \in Good /\ c \in u \ {b} /\ (u \ {b}) \ {c} = w
      BY <1>2, <1>4, <1>5, <1>7
    <2> QED
      BY <2>1
  <1>10. Sum(f, w) \in Int /\ f[b] \in Int /\ f[c] \in Int
    <2>1. IsFiniteSet(w) /\ \A x \in w : f[x] \in Int
      BY <1>3, FS_Subset
    <2> QED
      BY <1>3, <1>4, <1>5, <2>1, SumType
  <1> HIDE DEF c, w
  <1> QED
    BY <1>4, <1>6, <1>8, <1>9, <1>10

(* The sum over two sets is the sum of their sums.                         *)
LEMMA SumUnion ==
    ASSUME NEW f, NEW S, NEW T, IsFiniteSet(S), IsFiniteSet(T), S \cap T = {},
           \A x \in S \cup T : f[x] \in Int
    PROVE  Sum(f, S \cup T) = Sum(f, S) + Sum(f, T)
  <1> DEFINE Good == {u \in SUBSET S : Sum(f, u \cup T) = Sum(f, u) + Sum(f, T)}
  <1>0. Sum(f, T) \in Int
    BY SumType
  <1>1. {} \in Good
    <2>1. Sum(f, {}) = 0 /\ {} \cup T = T
      BY SumStep
    <2> QED
      BY <1>0, <2>1
  <1>2. ASSUME NEW u \in SUBSET S, u # {}, u \ {First(u)} \in Good PROVE u \in Good
    <2> DEFINE c == First(u)
               v == u \ {c}
    <2>1. c \in u /\ c \in S /\ c \notin T
      BY <1>2, FirstIn
    <2>2. IsFiniteSet(u) /\ IsFiniteSet(v) /\ IsFiniteSet(u \cup T)
      BY FS_Subset, FS_Union
    <2>3. Sum(f, u) = f[c] + Sum(f, v)
      BY <2>1, <2>2, SumTake
    <2>4. (u \cup T) \ {c} = v \cup T /\ c \in u \cup T
      BY <2>1
    <2>5. \A x \in u \cup T : f[x] \in Int
      OBVIOUS
    <2>6. Sum(f, u \cup T) = f[c] + Sum(f, (u \cup T) \ {c})
      <3> HIDE DEF c
      <3> QED
        BY <2>2, <2>4, <2>5, SumTake
    <2>7. Sum(f, v \cup T) = Sum(f, v) + Sum(f, T)
      BY <1>2
    <2>8. Sum(f, v) \in Int /\ f[c] \in Int
      BY <2>1, <2>2, SumType
    <2> HIDE DEF c, v
    <2>9. Sum(f, u \cup T) = Sum(f, u) + Sum(f, T)
      <3>1. Sum(f, u \cup T) = f[c] + Sum(f, v \cup T)
        BY <2>4, <2>6
      <3> QED
        BY <1>0, <2>3, <2>7, <2>8, <3>1
    <2> QED
      BY <2>9
  <1>3. Good \in SUBSET (SUBSET S) /\ S \in SUBSET S
    OBVIOUS
  <1> HIDE DEF Good
  <1>4. S \in Good
    BY <1>1, <1>2, <1>3, SubsetInduction
  <1> QED
    BY <1>4 DEF Good

(* It does not depend on what the elements are called either.              *)
LEMMA SumRenamed ==
    ASSUME NEW f, NEW g, NEW S, NEW b, IsFiniteSet(S),
           \A x, y \in S : b[x] = b[y] => x = y,
           \A x \in S : f[x] \in Int /\ f[x] = g[b[x]]
    PROVE  Sum(f, S) = Sum(g, {b[x] : x \in S})
  <1> DEFINE Good == {u \in SUBSET S : Sum(f, u) = Sum(g, {b[x] : x \in u})}
  <1>1. {} \in Good
    <2>1. Sum(f, {}) = 0 /\ Sum(g, {}) = 0 /\ {b[x] : x \in {}} = {}
      BY SumStep, FS_EmptySet
    <2> QED
      BY <2>1
  <1>2. ASSUME NEW u \in SUBSET S, u # {}, u \ {First(u)} \in Good PROVE u \in Good
    <2> DEFINE c == First(u)
               v == u \ {c}
               Image(s) == {b[x] : x \in s}
    <2>1. c \in u /\ c \in S
      BY <1>2, FirstIn
    <2>2. IsFiniteSet(u) /\ IsFiniteSet(Image(u))
      <3>1. IsFiniteSet(u)
        BY FS_Subset
      <3>2. [x \in u |-> b[x]] \in Surjection(u, Image(u))
        BY DEF Surjection
      <3> QED
        BY <3>1, <3>2, FS_Surjection
    <2>3. Sum(f, u) = f[c] + Sum(f, v)
      BY <2>1, <2>2, SumTake
    <2>4. Image(u) \ {b[c]} = Image(v) /\ b[c] \in Image(u)
      BY <2>1
    <2>5. \A z \in Image(u) : g[z] \in Int
      OBVIOUS
    <2>6. Sum(g, Image(u)) = g[b[c]] + Sum(g, Image(u) \ {b[c]})
      <3> HIDE DEF c, Image
      <3> QED
        BY <2>2, <2>4, <2>5, SumTake
    <2>7. Sum(f, v) = Sum(g, Image(v))
      BY <1>2
    <2>8. f[c] = g[b[c]]
      BY <2>1
    <2>9. Sum(f, u) = Sum(g, Image(u))
      <3> HIDE DEF c, v, Image
      <3> QED
        BY <2>3, <2>4, <2>6, <2>7, <2>8
    <2> QED
      BY <2>9
  <1>3. Good \in SUBSET (SUBSET S) /\ S \in SUBSET S
    OBVIOUS
  <1> HIDE DEF Good
  <1>4. S \in Good
    BY <1>1, <1>2, <1>3, SubsetInduction
  <1> QED
    BY <1>4 DEF Good

(* One value changes the sum by as much as it changes itself.              *)
LEMMA SumChanged ==
    ASSUME NEW f, NEW g, NEW S, IsFiniteSet(S), NEW a \in S,
           \A x \in S : f[x] \in Int /\ g[x] \in Int, \A x \in S \ {a} : f[x] = g[x]
    PROVE  Sum(g, S) = Sum(f, S) + (g[a] - f[a])
  <1>1. IsFiniteSet(S \ {a})
    BY FS_Subset
  <1>2. Sum(f, S) = f[a] + Sum(f, S \ {a})
    BY SumTake
  <1>3. Sum(g, S) = g[a] + Sum(g, S \ {a})
    BY SumTake
  <1>4. Sum(f, S \ {a}) = Sum(g, S \ {a})
    BY <1>1, SumSame
  <1>5. Sum(f, S \ {a}) \in Int /\ f[a] \in Int /\ g[a] \in Int
    <2>1. \A x \in S \ {a} : f[x] \in Int
      OBVIOUS
    <2> QED
      BY <1>1, <2>1, SumType
  <1> QED
    BY <1>2, <1>3, <1>4, <1>5

(* Adding up part by part comes to the same.                               *)
LEMMA SumByParts ==
    ASSUME NEW f, NEW S, IsFiniteSet(S), NEW G, IsFiniteSet(G), NEW p, \A x \in S : p[x] \in G /\ f[x] \in Int
    PROVE  Sum([g \in G |-> Sum(f, {x \in S : p[x] = g})], G) = Sum(f, S)
  <1> DEFINE Part(u, g) == {x \in u : p[x] = g}
             Parts(u) == [g \in G |-> Sum(f, Part(u, g))]
             Good == {u \in SUBSET S : Sum(Parts(u), G) = Sum(f, u)}
  <1>1. \A u \in SUBSET S : IsFiniteSet(u) /\ \A g \in G : IsFiniteSet(Part(u, g)) /\ Parts(u)[g] \in Int
    <2> SUFFICES ASSUME NEW u \in SUBSET S PROVE IsFiniteSet(u) /\ \A g \in G : IsFiniteSet(Part(u, g)) /\ Parts(u)[g] \in Int
      OBVIOUS
    <2>1. IsFiniteSet(u)
      BY FS_Subset
    <2>2. ASSUME NEW g \in G PROVE IsFiniteSet(Part(u, g)) /\ Parts(u)[g] \in Int
      <3>1. IsFiniteSet(Part(u, g)) /\ \A x \in Part(u, g) : f[x] \in Int
        BY <2>1, FS_Subset
      <3>2. Sum(f, Part(u, g)) \in Int
        <4> HIDE DEF Part
        <4> QED
          BY <3>1, SumType
      <3> QED
        BY <3>1, <3>2
    <2> QED
      BY <2>1, <2>2
  <1>2. {} \in Good
    <2>1. Sum(f, {}) = 0
      BY SumStep
    <2>2. \A g \in G : Parts({})[g] = 0
      <3>1. \A g \in G : Part({}, g) = {}
        OBVIOUS
      <3> QED
        BY <2>1, <3>1
    <2>3. Sum(Parts({}), G) = 0
      <3> HIDE DEF Parts
      <3> QED
        BY <2>2, SumType
    <2> QED
      BY <2>1, <2>3
  <1>3. ASSUME NEW u \in SUBSET S, u # {}, u \ {First(u)} \in Good PROVE u \in Good
    <2> DEFINE c == First(u)
               v == u \ {c}
    <2>1. c \in u /\ c \in S /\ p[c] \in G /\ f[c] \in Int /\ v \in SUBSET S
      BY <1>3, FirstIn
    <2>2. Sum(f, u) = f[c] + Sum(f, v)
      <3>1. IsFiniteSet(u) /\ \A x \in u : f[x] \in Int
        BY <1>1, <1>3
      <3> QED
        BY <2>1, <3>1, SumTake
    <2>3. \A g \in G \ {p[c]} : Parts(v)[g] = Parts(u)[g]
      <3>1. \A g \in G \ {p[c]} : Part(v, g) = Part(u, g)
        OBVIOUS
      <3> QED
        BY <3>1
    <2>4. Parts(u)[p[c]] = f[c] + Parts(v)[p[c]]
      <3> DEFINE w == Part(u, p[c])
      <3>1. c \in w /\ w \ {c} = Part(v, p[c]) /\ IsFiniteSet(w) /\ \A x \in w : f[x] \in Int
        BY <1>1, <1>3, <2>1
      <3>2. Sum(f, w) = f[c] + Sum(f, w \ {c})
        <4> HIDE DEF w, c
        <4> QED
          BY <3>1, SumTake
      <3> QED
        BY <2>1, <3>1, <3>2
    <2>5. \A g \in G : Parts(u)[g] \in Int /\ Parts(v)[g] \in Int
      <3> HIDE DEF Parts, v
      <3> QED
        BY <1>1, <2>1
    <2>6. Sum(Parts(u), G) = Sum(Parts(v), G) + (Parts(u)[p[c]] - Parts(v)[p[c]])
      <3> HIDE DEF Parts, v, c
      <3> QED
        BY <2>1, <2>3, <2>5, SumChanged
    <2>7. Sum(Parts(v), G) = Sum(f, v)
      BY <1>3
    <2>8. Sum(f, v) \in Int
      <3>1. IsFiniteSet(v) /\ \A x \in v : f[x] \in Int
        BY <1>1, <2>1
      <3> HIDE DEF v
      <3> QED
        BY <3>1, SumType
    <2>9. Sum(Parts(u), G) = Sum(f, u)
      <3>1. Parts(u)[p[c]] \in Int /\ Parts(v)[p[c]] \in Int
        BY <2>1, <2>5
      <3> HIDE DEF Parts, v, c
      <3> QED
        BY <2>1, <2>2, <2>4, <2>6, <2>7, <2>8, <3>1
    <2> QED
      BY <2>9
  <1>4. Good \in SUBSET (SUBSET S) /\ S \in SUBSET S
    OBVIOUS
  <1>5. S \in Good
    <2> HIDE DEF Good
    <2> QED
      BY <1>2, <1>3, <1>4, SubsetInduction
  <1> QED
    BY <1>5

(* Two sums are added value by value.                                      *)
LEMMA SumPlus ==
    ASSUME NEW f, NEW g, NEW S, IsFiniteSet(S), \A x \in S : f[x] \in Int /\ g[x] \in Int
    PROVE  Sum([x \in S |-> f[x] + g[x]], S) = Sum(f, S) + Sum(g, S)
  <1> DEFINE h == [x \in S |-> f[x] + g[x]]
             Good == {u \in SUBSET S : Sum(h, u) = Sum(f, u) + Sum(g, u)}
  <1>1. {} \in Good
    <2>1. Sum(h, {}) = 0 /\ Sum(f, {}) = 0 /\ Sum(g, {}) = 0
      <3> HIDE DEF h
      <3> QED
        BY SumStep
    <2> QED
      BY <2>1
  <1>2. ASSUME NEW u \in SUBSET S, u # {}, u \ {First(u)} \in Good PROVE u \in Good
    <2> DEFINE c == First(u)
               v == u \ {c}
    <2>1. c \in u /\ h[c] = f[c] + g[c] /\ f[c] \in Int /\ g[c] \in Int
      BY <1>2, FirstIn
    <2>2. IsFiniteSet(u) /\ IsFiniteSet(v) /\ v \subseteq u /\ \A x \in u : f[x] \in Int /\ g[x] \in Int /\ h[x] \in Int
      BY FS_Subset
    <2>3. Sum(f, u) = f[c] + Sum(f, v) /\ Sum(g, u) = g[c] + Sum(g, v) /\ Sum(h, u) = h[c] + Sum(h, v)
      <3> HIDE DEF h, c
      <3> QED
        BY <2>1, <2>2, SumTake
    <2>4. Sum(f, v) \in Int /\ Sum(g, v) \in Int
      <3> HIDE DEF h, v
      <3> QED
        BY <2>2, SumType
    <2>5. Sum(h, v) = Sum(f, v) + Sum(g, v)
      BY <1>2
    <2>6. Sum(h, u) = Sum(f, u) + Sum(g, u)
      <3> HIDE DEF h, v, c
      <3> QED
        BY <2>1, <2>3, <2>4, <2>5
    <2> QED
      BY <2>6
  <1>3. Good \in SUBSET (SUBSET S) /\ S \in SUBSET S
    OBVIOUS
  <1>4. S \in Good
    <2> HIDE DEF Good
    <2> QED
      BY <1>1, <1>2, <1>3, SubsetInduction
  <1> QED
    BY <1>4

(* One value alone is the sum.                                             *)
LEMMA SumOfOne ==
    ASSUME NEW f, NEW S, IsFiniteSet(S), NEW a \in S, f[a] \in Int, \A x \in S \ {a} : f[x] = 0
    PROVE  Sum(f, S) = f[a]
  <1>1. IsFiniteSet(S \ {a}) /\ \A x \in S : f[x] \in Int
    BY FS_Subset
  <1>2. Sum(f, S) = f[a] + Sum(f, S \ {a})
    BY <1>1, SumTake
  <1>3. Sum(f, S \ {a}) = 0
    BY <1>1, SumType
  <1> QED
    BY <1>2, <1>3
=============================================================================
