------------------------------ MODULE SumProofs ------------------------------
(***************************************************************************)
(* Sums over finite sets, as MapThenSumSet computes them: they take the    *)
(* elements out one by one, in an order of their own.                      *)
(*                                                                         *)
(* Induction is by least counterexample: a set of natural numbers that is  *)
(* not empty has a least element.                                          *)
(***************************************************************************)
EXTENDS Integers, FiniteSetsExt, Functions, FiniteSetTheorems, WellFoundedInduction, TLAPS

LEMMA LeastNat ==
    ASSUME NEW T \in SUBSET Nat, T # {}
    PROVE  \E n \in T : \A m \in T : n <= m
<1> DEFINE R == OpToRel(<, Nat)
<1>1. IsWellFoundedOn(R, Nat)
  BY NatLessThanWellFounded
<1>2. \A m, n \in Nat : <<m, n>> \in R <=> m < n
  BY DEF OpToRel
<1> HIDE DEF R
<1>3. PICK n \in T : \A m \in T : <<m, n>> \notin R
  BY <1>1, WFMin
<1>4. \A m \in T : ~(m < n)
  BY <1>2, <1>3
<1> QED BY <1>4

-----------------------------------------------------------------------------
(***************************************************************************)
(* g maps every set of D to the sum of f over it, taking out first the     *)
(* element that CHOOSE chooses.                                            *)
(***************************************************************************)
Chosen(t) == CHOOSE x \in t : TRUE

Sums(f, g, D) ==
    \A t \in D : g[t] = IF t = {} THEN 0 ELSE f[Chosen(t)] + g[t \ {Chosen(t)}]

Summable(f, S) == IsFiniteSet(S) /\ \A x \in S : f[x] \in Int

LEMMA OneLess ==
    ASSUME NEW S, IsFiniteSet(S), NEW t \in SUBSET S, t # {}
    PROVE  /\ Chosen(t) \in t /\ Chosen(t) \in S
           /\ Cardinality(t) \in Nat
           /\ \A x \in t : /\ t \ {x} \in SUBSET S
                           /\ Cardinality(t \ {x}) = Cardinality(t) - 1
                           /\ Cardinality(t \ {x}) \in Nat
<1>1. Chosen(t) \in t
  BY DEF Chosen
<1>2. IsFiniteSet(t)
  BY FS_Subset
<1>3. \A x \in t : IsFiniteSet(t \ {x}) /\ Cardinality(t \ {x}) = Cardinality(t) - 1
  BY <1>2, FS_RemoveElement
<1> QED BY <1>1, <1>2, <1>3, FS_CardinalityType

(***************************************************************************)
(* There is such a g.                                                      *)
(***************************************************************************)
LEMMA SumsExist ==
    ASSUME NEW f, NEW S, Summable(f, S)
    PROVE  \E g \in [SUBSET S -> Int] : Sums(f, g, SUBSET S)
<1>0. IsFiniteSet(S) /\ \A x \in S : f[x] \in Int
  BY DEF Summable
<1> DEFINE Small(n) == {t \in SUBSET S : Cardinality(t) <= n}
           Bad == {n \in Nat : ~\E g \in [Small(n) -> Int] : Sums(f, g, Small(n))}
<1>1. \A t \in SUBSET S : IsFiniteSet(t) /\ Cardinality(t) \in Nat
  BY <1>0, FS_Subset, FS_CardinalityType
<1>2. Bad = {}
  <2> SUFFICES ASSUME Bad # {} PROVE FALSE
    OBVIOUS
  <2>1. PICK n \in Bad : \A m \in Bad : n <= m
    <3>1. Bad \in SUBSET Nat
      OBVIOUS
    <3> HIDE DEF Bad
    <3> QED BY <3>1, LeastNat
  <2>2. n \in Nat
    BY <2>1
  <2>3. PICK g : n = 0 \/ (g \in [Small(n - 1) -> Int] /\ Sums(f, g, Small(n - 1)))
    <3>1. CASE n = 0
      BY <3>1
    <3>2. CASE n # 0
      <4>1. n - 1 \in Nat /\ n - 1 \notin Bad
        <5> HIDE DEF Bad
        <5> QED BY <2>1, <2>2, <3>2
      <4> QED BY <4>1
    <3> QED BY <3>1, <3>2
  <2> DEFINE h == [t \in Small(n) |-> IF t = {} THEN 0 ELSE f[Chosen(t)] + g[t \ {Chosen(t)}]]
  <2>4. ASSUME NEW t \in Small(n), t # {}
        PROVE  /\ n # 0 /\ t \ {Chosen(t)} \in Small(n - 1) /\ t \ {Chosen(t)} \in Small(n)
               /\ f[Chosen(t)] \in Int
    <3>1. /\ Chosen(t) \in S /\ t \ {Chosen(t)} \in SUBSET S
          /\ Cardinality(t) \in Nat /\ Cardinality(t) <= n
          /\ Cardinality(t \ {Chosen(t)}) = Cardinality(t) - 1
          /\ Cardinality(t \ {Chosen(t)}) \in Nat
      BY <1>0, <2>4, OneLess
    <3> QED BY <1>0, <2>2, <3>1
  <2>5. h \in [Small(n) -> Int]
    <3> SUFFICES ASSUME NEW t \in Small(n)
                 PROVE  (IF t = {} THEN 0 ELSE f[Chosen(t)] + g[t \ {Chosen(t)}]) \in Int
      OBVIOUS
    <3> SUFFICES ASSUME t # {}
                 PROVE  f[Chosen(t)] + g[t \ {Chosen(t)}] \in Int
      OBVIOUS
    <3>1. /\ n # 0 /\ t \ {Chosen(t)} \in Small(n - 1) /\ f[Chosen(t)] \in Int
      BY <2>4
    <3> HIDE DEF Small
    <3> QED BY <2>3, <3>1
  <2>6. ASSUME NEW t \in Small(n), t # {}
        PROVE  h[t \ {Chosen(t)}] = g[t \ {Chosen(t)}]
    <3> DEFINE u == t \ {Chosen(t)}
    <3>1. /\ n # 0 /\ u \in Small(n - 1) /\ u \in Small(n)
      BY <2>4, <2>6
    <3>2. g[u] = IF u = {} THEN 0 ELSE f[Chosen(u)] + g[u \ {Chosen(u)}]
      <4> HIDE DEF Small, u
      <4> QED BY <2>3, <3>1 DEF Sums
    <3> HIDE DEF Small, u
    <3>3. h[u] = g[u]
      BY <3>1, <3>2
    <3> QED BY <3>3 DEF u
  <2>7. Sums(f, h, Small(n))
    <3> SUFFICES ASSUME NEW t \in Small(n)
                 PROVE  h[t] = IF t = {} THEN 0 ELSE f[Chosen(t)] + h[t \ {Chosen(t)}]
      BY DEF Sums
    <3>1. h[t] = IF t = {} THEN 0 ELSE f[Chosen(t)] + g[t \ {Chosen(t)}]
      <4> HIDE DEF Small
      <4> QED OBVIOUS
    <3> HIDE DEF h, Small
    <3> QED BY <2>6, <3>1
  <2>8. n \notin Bad
    <3> HIDE DEF h, Small
    <3> QED BY <2>5, <2>7
  <2> QED BY <2>1, <2>8
<1>3. Cardinality(S) \in Nat /\ Small(Cardinality(S)) = SUBSET S
  <2>1. \A t \in SUBSET S : Cardinality(t) <= Cardinality(S)
    BY <1>0, FS_Subset
  <2> QED BY <1>1, <2>1
<1> HIDE DEF Small
<1>4. \E g \in [Small(Cardinality(S)) -> Int] : Sums(f, g, Small(Cardinality(S)))
  BY <1>2, <1>3
<1> QED BY <1>3, <1>4

(***************************************************************************)
(* Any element may be taken out first.                                     *)
(***************************************************************************)
AnyFirstIn(f, g, S) == \A t \in SUBSET S : \A x \in t : g[t] = f[x] + g[t \ {x}]

LEMMA AnyFirst ==
    ASSUME NEW f, NEW S, Summable(f, S),
           NEW g \in [SUBSET S -> Int], Sums(f, g, SUBSET S)
    PROVE  AnyFirstIn(f, g, S)
<1>0. IsFiniteSet(S) /\ \A x \in S : f[x] \in Int
  BY DEF Summable
<1> DEFINE Fine(t) == \A x \in t : g[t] = f[x] + g[t \ {x}]
           Bad == {n \in Nat : \E t \in SUBSET S : Cardinality(t) = n /\ ~Fine(t)}
<1>1. Bad = {}
  <2> SUFFICES ASSUME Bad # {} PROVE FALSE
    OBVIOUS
  <2>1. PICK n \in Bad : \A m \in Bad : n <= m
    <3>1. Bad \in SUBSET Nat
      OBVIOUS
    <3> HIDE DEF Bad
    <3> QED BY <3>1, LeastNat
  <2>2. PICK t \in SUBSET S : Cardinality(t) = n /\ ~Fine(t)
    BY <2>1
  <2>3. PICK x \in t : g[t] # f[x] + g[t \ {x}]
    BY <2>2
  <2> DEFINE c == Chosen(t)
  <2>4. c \in t /\ c \in S /\ t # {} /\ n \in Nat
    BY <1>0, <2>1, OneLess
  <2>5. g[t] = f[c] + g[t \ {c}]
    BY <2>4 DEF Sums
  <2>6. c # x
    BY <2>3, <2>5
  <2>7. \A y \in t : t \ {y} \in SUBSET S /\ Fine(t \ {y})
    <3> SUFFICES ASSUME NEW y \in t PROVE t \ {y} \in SUBSET S /\ Fine(t \ {y})
      OBVIOUS
    <3>1. t \ {y} \in SUBSET S /\ Cardinality(t \ {y}) = n - 1 /\ n - 1 \in Nat
      <4>1. /\ Cardinality(t \ {y}) = Cardinality(t) - 1
            /\ Cardinality(t \ {y}) \in Nat
        BY <1>0, <2>4, OneLess
      <4>2. Cardinality(t) = n
        BY <2>2
      <4> HIDE DEF Bad, Fine, c
      <4> QED BY <4>1, <4>2
    <3>2. n - 1 \notin Bad
      <4> HIDE DEF Bad
      <4> QED BY <2>1, <2>4, <3>1
    <3> HIDE DEF Fine
    <3> QED BY <3>1, <3>2
  <2>8. /\ g[t \ {c}] = f[x] + g[(t \ {c}) \ {x}]
        /\ g[t \ {x}] = f[c] + g[(t \ {x}) \ {c}]
    BY <2>4, <2>6, <2>7
  <2>9. (t \ {c}) \ {x} = (t \ {x}) \ {c} /\ (t \ {x}) \ {c} \in SUBSET S
    OBVIOUS
  <2> HIDE DEF Bad, Fine, c
  <2>10. /\ f[c] \in Int /\ f[x] \in Int /\ g[(t \ {x}) \ {c}] \in Int
    BY <1>0, <2>4, <2>9
  <2>11. g[t \ {c}] = f[x] + g[(t \ {x}) \ {c}]
    BY <2>8, <2>9
  <2>12. f[c] + (f[x] + g[(t \ {x}) \ {c}]) = f[x] + (f[c] + g[(t \ {x}) \ {c}])
    BY <2>10
  <2> QED BY <2>3, <2>5, <2>8, <2>11, <2>12
<1>2. ASSUME NEW t \in SUBSET S PROVE Fine(t)
  <2>1. Cardinality(t) \in Nat
    BY <1>0, FS_Subset, FS_CardinalityType
  <2> HIDE DEF Fine
  <2> QED BY <1>1, <2>1
<1> QED BY <1>2 DEF AnyFirstIn

(***************************************************************************)
(* Two such functions agree on what both are defined for.                  *)
(***************************************************************************)
LEMMA SumsUnique ==
    ASSUME NEW f, NEW S, IsFiniteSet(S), NEW T \in SUBSET S, NEW g, NEW h,
           Sums(f, g, SUBSET S), Sums(f, h, SUBSET T)
    PROVE  g[T] = h[T]
<1> DEFINE Bad == {n \in Nat : \E t \in SUBSET T : Cardinality(t) = n /\ g[t] # h[t]}
<1>1. Bad = {}
  <2> SUFFICES ASSUME Bad # {} PROVE FALSE
    OBVIOUS
  <2>1. PICK n \in Bad : \A m \in Bad : n <= m
    <3>1. Bad \in SUBSET Nat
      OBVIOUS
    <3> HIDE DEF Bad
    <3> QED BY <3>1, LeastNat
  <2>2. PICK t \in SUBSET T : Cardinality(t) = n /\ g[t] # h[t]
    BY <2>1
  <2> DEFINE c == Chosen(t)
  <2>3. t # {}
    BY <2>2 DEF Sums
  <2>4. /\ c \in t /\ t \ {c} \in SUBSET T
        /\ Cardinality(t \ {c}) = n - 1 /\ n - 1 \in Nat /\ n \in Nat
    <3>1. IsFiniteSet(T) /\ t \in SUBSET T
      BY <2>2, FS_Subset
    <3>2. /\ Chosen(t) \in t /\ Cardinality(t) \in Nat
          /\ \A x \in t : /\ t \ {x} \in SUBSET T
                          /\ Cardinality(t \ {x}) = Cardinality(t) - 1
                          /\ Cardinality(t \ {x}) \in Nat
      BY <2>3, <3>1, OneLess
    <3> QED BY <2>2, <3>2
  <2>5. n - 1 \notin Bad
    <3> HIDE DEF Bad, c
    <3> QED BY <2>1, <2>4
  <2>6. g[t \ {c}] = h[t \ {c}]
    BY <2>4, <2>5
  <2>7. g[t] = f[c] + g[t \ {c}] /\ h[t] = f[c] + h[t \ {c}]
    BY <2>3 DEF Sums
  <2> QED BY <2>2, <2>4, <2>6, <2>7
<1>2. IsFiniteSet(T) /\ Cardinality(T) \in Nat
  BY FS_Subset, FS_CardinalityType
<1> QED BY <1>1, <1>2

-----------------------------------------------------------------------------
(***************************************************************************)
(* The operator of the community modules is such a g.                      *)
(***************************************************************************)
LEMMA OnSetIsSum ==
    ASSUME NEW f, NEW S, Summable(f, S)
    PROVE  \E g \in [SUBSET S -> Int] : Sums(f, g, SUBSET S) /\ g[S] = SumFunctionOnSet(f, S)
<1> DEFINE Is(g) == g = [t \in SUBSET S |->
                            IF t = {} THEN 0
                            ELSE f[CHOOSE x \in t : TRUE] + g[t \ {CHOOSE x \in t : TRUE}]]
           iter == CHOOSE g : Is(g)
<1>1. SumFunctionOnSet(f, S) = iter[S]
  BY DEF SumFunctionOnSet, FoldFunctionOnSet, MapThenFoldSet
<1>2. PICK g \in [SUBSET S -> Int] : Sums(f, g, SUBSET S)
  BY SumsExist
<1>3. Is(g)
  BY <1>2 DEF Sums, Chosen
<1>4. Is(iter)
  <2> HIDE DEF Is
  <2> QED BY <1>3
<1>5. PICK i : i = iter
  OBVIOUS
<1>6. Sums(f, i, SUBSET S)
  <2>1. Is(i)
    BY <1>4, <1>5
  <2> QED BY <2>1 DEF Sums, Chosen
<1> HIDE DEF iter
<1>7. g[S] = i[S]
  BY <1>2, <1>6, SumsUnique DEF Summable
<1> QED BY <1>1, <1>2, <1>5, <1>7

LEMMA SumType ==
    ASSUME NEW f, NEW S, Summable(f, S)
    PROVE  SumFunctionOnSet(f, S) \in Int
<1>1. PICK g \in [SUBSET S -> Int] : g[S] = SumFunctionOnSet(f, S)
  BY OnSetIsSum
<1> QED BY <1>1

LEMMA SumOfNone == \A f : SumFunctionOnSet(f, {}) = 0
<1> SUFFICES ASSUME NEW f PROVE SumFunctionOnSet(f, {}) = 0
  OBVIOUS
<1>1. Summable(f, {})
  BY FS_EmptySet DEF Summable
<1>2. PICK g : Sums(f, g, SUBSET {}) /\ g[{}] = SumFunctionOnSet(f, {})
  BY <1>1, OnSetIsSum
<1> QED BY <1>2 DEF Sums

(***************************************************************************)
(* The sum over a smaller set, from the sums over a larger one.            *)
(***************************************************************************)
LEMMA SumWithin ==
    ASSUME NEW f, NEW S, Summable(f, S), NEW T \in SUBSET S, NEW g, Sums(f, g, SUBSET S)
    PROVE  g[T] = SumFunctionOnSet(f, T)
<1>1. Summable(f, T) /\ IsFiniteSet(S)
  BY FS_Subset DEF Summable
<1>2. PICK h : Sums(f, h, SUBSET T) /\ h[T] = SumFunctionOnSet(f, T)
  BY <1>1, OnSetIsSum
<1>3. \A k : Sums(f, k, SUBSET T) => g[T] = k[T]
  BY <1>1, SumsUnique
<1> QED BY <1>2, <1>3

LEMMA SumOneLess ==
    ASSUME NEW f, NEW S, Summable(f, S), NEW x \in S
    PROVE  SumFunctionOnSet(f, S) = f[x] + SumFunctionOnSet(f, S \ {x})
<1>1. PICK g \in [SUBSET S -> Int] : Sums(f, g, SUBSET S)
  BY SumsExist
<1>2. AnyFirstIn(f, g, S)
  BY <1>1, AnyFirst
<1>3. S \in SUBSET S /\ S \ {x} \in SUBSET S
  OBVIOUS
<1>4. g[S] = SumFunctionOnSet(f, S) /\ g[S \ {x}] = SumFunctionOnSet(f, S \ {x})
  BY <1>1, <1>3, SumWithin
<1> QED BY <1>2, <1>3, <1>4 DEF AnyFirstIn

LEMMA SumOneMore ==
    ASSUME NEW f, NEW S, Summable(f, S), NEW x, x \notin S, f[x] \in Int
    PROVE  /\ Summable(f, S \cup {x})
           /\ SumFunctionOnSet(f, S \cup {x}) = SumFunctionOnSet(f, S) + f[x]
<1>1. PICK T : T = S \cup {x}
  OBVIOUS
<1>2. Summable(f, T)
  BY <1>1, FS_AddElement DEF Summable
<1>3. x \in T /\ T \ {x} = S
  BY <1>1
<1>4. SumFunctionOnSet(f, T) = f[x] + SumFunctionOnSet(f, T \ {x})
  BY <1>2, <1>3, SumOneLess
<1>5. SumFunctionOnSet(f, S) \in Int
  BY SumType
<1>6. SumFunctionOnSet(f, T) = SumFunctionOnSet(f, S) + f[x]
  <2>1. SumFunctionOnSet(f, T) = f[x] + SumFunctionOnSet(f, S)
    BY <1>3, <1>4
  <2> QED BY <1>5, <2>1
<1> QED BY <1>1, <1>2, <1>6

LEMMA SumSame ==
    ASSUME NEW f, NEW h, NEW S, Summable(f, S), \A x \in S : f[x] = h[x]
    PROVE  SumFunctionOnSet(f, S) = SumFunctionOnSet(h, S)
<1>1. Summable(h, S)
  BY DEF Summable
<1>2. PICK g : Sums(f, g, SUBSET S) /\ g[S] = SumFunctionOnSet(f, S)
  BY OnSetIsSum
<1>3. PICK k : Sums(h, k, SUBSET S) /\ k[S] = SumFunctionOnSet(h, S)
  BY <1>1, OnSetIsSum
<1>4. \A t \in SUBSET S : t # {} => Chosen(t) \in S
  BY DEF Chosen
<1>5. Sums(h, g, SUBSET S)
  BY <1>2, <1>4 DEF Sums
<1>6. IsFiniteSet(S) /\ S \in SUBSET S
  BY DEF Summable
<1>7. g[S] = k[S]
  BY ONLY <1>3, <1>5, <1>6, SumsUnique, SMTT(30)
<1> QED BY <1>2, <1>3, <1>7

LEMMA SumLeq ==
    ASSUME NEW f, NEW h, NEW S, Summable(f, S), Summable(h, S), \A x \in S : f[x] <= h[x]
    PROVE  SumFunctionOnSet(f, S) <= SumFunctionOnSet(h, S)
<1> DEFINE Fine(t) == SumFunctionOnSet(f, t) <= SumFunctionOnSet(h, t)
           Bad == {n \in Nat : \E t \in SUBSET S : Cardinality(t) = n /\ ~Fine(t)}
<1>1. IsFiniteSet(S)
  BY DEF Summable
<1>2. \A t \in SUBSET S : Summable(f, t) /\ Summable(h, t)
  BY FS_Subset DEF Summable
<1>3. Bad = {}
  <2> SUFFICES ASSUME Bad # {} PROVE FALSE
    OBVIOUS
  <2>1. PICK n \in Bad : \A m \in Bad : n <= m
    <3>1. Bad \in SUBSET Nat
      OBVIOUS
    <3> HIDE DEF Bad
    <3> QED BY <3>1, LeastNat
  <2>2. PICK t \in SUBSET S : Cardinality(t) = n /\ ~Fine(t)
    BY <2>1
  <2>3. t # {}
    BY <2>2, SumOfNone
  <2>4. PICK x \in t : TRUE
    BY <2>3
  <2>5. /\ Cardinality(t \ {x}) = n - 1 /\ n - 1 \in Nat /\ n \in Nat
        /\ t \ {x} \in SUBSET S
    BY <1>1, <2>2, <2>4, OneLess
  <2>6. Fine(t \ {x})
    <3>1. n - 1 \notin Bad
      <4> HIDE DEF Bad
      <4> QED BY <2>1, <2>5
    <3> HIDE DEF Fine
    <3> QED BY <2>5, <3>1
  <2>7. /\ SumFunctionOnSet(f, t) = f[x] + SumFunctionOnSet(f, t \ {x})
        /\ SumFunctionOnSet(h, t) = h[x] + SumFunctionOnSet(h, t \ {x})
    BY <1>2, <2>4, SumOneLess
  <2>8. /\ SumFunctionOnSet(f, t \ {x}) \in Int /\ SumFunctionOnSet(h, t \ {x}) \in Int
    BY <1>2, <2>5, SumType
  <2>9. f[x] \in Int /\ h[x] \in Int /\ f[x] <= h[x]
    BY <2>4 DEF Summable
  <2>10. Fine(t)
    BY <2>6, <2>7, <2>8, <2>9
  <2> QED BY <2>2, <2>10
<1>4. Cardinality(S) \in Nat
  BY <1>1, FS_CardinalityType
<1> HIDE DEF Fine
<1>5. Fine(S)
  BY <1>3, <1>4
<1> QED BY <1>5 DEF Fine

LEMMA SumOfFewer ==
    ASSUME NEW f, NEW S, IsFiniteSet(S), \A x \in S : f[x] \in Nat, NEW T \in SUBSET S
    PROVE  SumFunctionOnSet(f, T) <= SumFunctionOnSet(f, S)
<1> DEFINE Fine(t) == SumFunctionOnSet(f, T) <= SumFunctionOnSet(f, t)
           Bad == {n \in Nat : \E t \in SUBSET S : T \subseteq t /\ Cardinality(t) = n /\ ~Fine(t)}
<1>1. \A t \in SUBSET S : Summable(f, t) /\ SumFunctionOnSet(f, t) \in Int
  <2>1. \A t \in SUBSET S : Summable(f, t)
    BY FS_Subset DEF Summable
  <2> QED BY <2>1, SumType
<1>2. Bad = {}
  <2> SUFFICES ASSUME Bad # {} PROVE FALSE
    OBVIOUS
  <2>1. PICK n \in Bad : \A m \in Bad : n <= m
    <3>1. Bad \in SUBSET Nat
      OBVIOUS
    <3> HIDE DEF Bad
    <3> QED BY <3>1, LeastNat
  <2>2. PICK t \in SUBSET S : T \subseteq t /\ Cardinality(t) = n /\ ~Fine(t)
    BY <2>1
  <2>3. t # T
    BY <1>1, <2>2
  <2>4. PICK x \in t : x \notin T
    BY <2>2, <2>3
  <2>5. /\ Cardinality(t \ {x}) = n - 1 /\ n - 1 \in Nat /\ n \in Nat
        /\ t \ {x} \in SUBSET S /\ T \subseteq t \ {x}
    <3>1. /\ Cardinality(t \ {x}) = Cardinality(t) - 1 /\ Cardinality(t) \in Nat
          /\ Cardinality(t \ {x}) \in Nat /\ t \ {x} \in SUBSET S
      BY OneLess
    <3>2. T \subseteq t \ {x} /\ Cardinality(t) = n
      BY <2>2, <2>4
    <3> QED BY <3>1, <3>2
  <2>6. Fine(t \ {x})
    <3>1. n - 1 \notin Bad
      <4> HIDE DEF Bad
      <4> QED BY <2>1, <2>5
    <3> HIDE DEF Fine
    <3> QED BY <2>5, <3>1
  <2>7. SumFunctionOnSet(f, t) = f[x] + SumFunctionOnSet(f, t \ {x})
    BY <1>1, <2>4, SumOneLess
  <2>8. /\ SumFunctionOnSet(f, t \ {x}) \in Int /\ SumFunctionOnSet(f, T) \in Int
        /\ f[x] \in Nat
    BY <1>1, <2>5
  <2>9. Fine(t)
    BY <2>6, <2>7, <2>8
  <2> QED BY <2>2, <2>9
<1>3. Cardinality(S) \in Nat
  BY FS_CardinalityType
<1> HIDE DEF Fine
<1>4. Fine(S)
  BY <1>2, <1>3
<1> QED BY <1>4 DEF Fine

LEMMA NoMoreThanSum ==
    ASSUME NEW f, NEW S, IsFiniteSet(S), \A x \in S : f[x] \in Nat, NEW x \in S
    PROVE  /\ f[x] <= SumFunctionOnSet(f, S)
           /\ SumFunctionOnSet(f, S) \in Nat
<1>1. Summable(f, S)
  BY DEF Summable
<1>2. PICK T : T = S \ {x}
  OBVIOUS
<1>3. IsFiniteSet(T) /\ \A y \in T : f[y] \in Nat
  BY <1>2, FS_Subset
<1>4. SumFunctionOnSet(f, S) = f[x] + SumFunctionOnSet(f, T)
  BY <1>1, <1>2, SumOneLess
<1>5. SumFunctionOnSet(f, {}) <= SumFunctionOnSet(f, T)
  BY <1>3, SumOfFewer
<1>6. Summable(f, T)
  BY <1>3 DEF Summable
<1>7. SumFunctionOnSet(f, T) \in Int /\ SumFunctionOnSet(f, T) >= 0
  BY <1>5, <1>6, SumOfNone, SumType
<1> QED BY <1>4, <1>7

\* A factor of every summand is a factor of the sum.
LEMMA SumScaled ==
    ASSUME NEW f, NEW S, Summable(f, S), NEW c \in Int, NEW h, \A x \in S : h[x] = c * f[x]
    PROVE  Summable(h, S) /\ SumFunctionOnSet(h, S) = c * SumFunctionOnSet(f, S)
<1>0. IsFiniteSet(S) /\ \A x \in S : f[x] \in Int
  BY DEF Summable
<1>1. Summable(h, S)
  BY <1>0 DEF Summable
<1>2. PICK g \in [SUBSET S -> Int] : Sums(f, g, SUBSET S) /\ g[S] = SumFunctionOnSet(f, S)
  BY OnSetIsSum
<1>3. PICK k \in [SUBSET S -> Int] : Sums(h, k, SUBSET S) /\ k[S] = SumFunctionOnSet(h, S)
  BY <1>1, OnSetIsSum
<1>4. PICK m : m = [t \in SUBSET S |-> c * g[t]]
  OBVIOUS
<1>5. Sums(h, m, SUBSET S)
  <2> SUFFICES ASSUME NEW t \in SUBSET S
               PROVE  m[t] = IF t = {} THEN 0 ELSE h[Chosen(t)] + m[t \ {Chosen(t)}]
    BY DEF Sums
  <2>1. m[t] = c * g[t]
    BY <1>4
  <2>2. CASE t = {}
    <3>1. g[t] = 0
      BY <1>2, <2>2 DEF Sums
    <3> QED BY <2>1, <2>2, <3>1
  <2>3. CASE t # {}
    <3>1. PICK x, s : x = Chosen(t) /\ s = t \ {x}
      OBVIOUS
    <3>2. x \in t /\ x \in S /\ s \in SUBSET S
      BY <2>3, <3>1, <1>0, OneLess
    <3>3. g[t] = f[x] + g[s]
      BY <1>2, <2>3, <3>1 DEF Sums
    <3>4. m[s] = c * g[s] /\ h[x] = c * f[x]
      BY <1>4, <3>2
    <3>5. PICK p, q : p = f[x] /\ q = g[s]
      OBVIOUS
    <3>6. p \in Int /\ q \in Int
      BY <1>0, <1>2, <3>2, <3>5
    <3>7. c * (p + q) = c * p + c * q
      BY <3>6
    <3> QED BY <2>1, <2>3, <3>1, <3>3, <3>4, <3>5, <3>7
  <2> QED BY <2>2, <2>3
<1>6. m[S] = k[S]
  <2>1. S \in SUBSET S
    OBVIOUS
  <2> QED BY <1>0, <1>3, <1>5, <2>1, SumsUnique
<1>7. m[S] = c * g[S]
  BY <1>4
<1> QED BY <1>1, <1>2, <1>3, <1>6, <1>7

-----------------------------------------------------------------------------
(***************************************************************************)
(* What the rows of a set cost together.                                   *)
(***************************************************************************)
Priced(S) == IsFiniteSet(S) /\ \A x \in S : x.cost \in Nat

CostOf(rows) == MapThenSumSet(LAMBDA row : row.cost, rows)

CostsOf(S) == [row \in S |-> row.cost]

LEMMA CostIsSum ==
    ASSUME NEW S, Priced(S)
    PROVE  Summable(CostsOf(S), S) /\ CostOf(S) = SumFunctionOnSet(CostsOf(S), S)
<1>1. Summable(CostsOf(S), S)
  BY DEF Priced, Summable, CostsOf
<1> DEFINE Is(g) == g = [t \in SUBSET S |->
                            IF t = {} THEN 0
                            ELSE (CHOOSE x \in t : TRUE).cost + g[t \ {CHOOSE x \in t : TRUE}]]
           iter == CHOOSE g : Is(g)
<1>2. CostOf(S) = iter[S]
  BY DEF CostOf, MapThenSumSet, MapThenFoldSet
<1>3. PICK g \in [SUBSET S -> Int] :
          Sums(CostsOf(S), g, SUBSET S) /\ g[S] = SumFunctionOnSet(CostsOf(S), S)
  BY <1>1, OnSetIsSum
<1>4. \A t \in SUBSET S : t # {} => Chosen(t) \in S /\ CostsOf(S)[Chosen(t)] = Chosen(t).cost
  BY DEF Chosen, CostsOf
<1>5. Is(g)
  BY ONLY <1>3, <1>4, SMTT(30) DEF Is, Sums, Chosen
<1>6. Is(iter)
  <2> HIDE DEF Is
  <2> QED BY <1>5
<1>7. PICK i : i = iter
  OBVIOUS
<1>8. Sums(CostsOf(S), i, SUBSET S)
  <2>1. Is(i)
    BY <1>6, <1>7
  <2>2. \A t \in SUBSET S : i[t] = IF t = {} THEN 0
                                   ELSE Chosen(t).cost + i[t \ {Chosen(t)}]
    BY ONLY <2>1 DEF Is, Chosen
  <2> QED BY ONLY <2>2, <1>4 DEF Sums
<1> HIDE DEF iter
<1>9. IsFiniteSet(S) /\ S \in SUBSET S
  BY DEF Priced
<1>10. g[S] = i[S]
  BY ONLY <1>3, <1>8, <1>9, SumsUnique, SMTT(30)
<1> QED BY <1>1, <1>2, <1>3, <1>7, <1>10

LEMMA CostType ==
    ASSUME NEW S, Priced(S)
    PROVE  CostOf(S) \in Nat
<1>1. CostOf(S) = SumFunctionOnSet(CostsOf(S), S) /\ Summable(CostsOf(S), S)
  BY CostIsSum
<1>2. IsFiniteSet(S) /\ \A x \in S : CostsOf(S)[x] \in Nat
  BY DEF Priced, CostsOf
<1>3. SumFunctionOnSet(CostsOf(S), {}) <= SumFunctionOnSet(CostsOf(S), S)
  BY <1>2, SumOfFewer
<1> QED BY <1>1, <1>3, SumOfNone, SumType

LEMMA CostOfNone == CostOf({}) = 0
<1>1. Priced({})
  BY FS_EmptySet DEF Priced
<1> QED BY <1>1, CostIsSum, SumOfNone

LEMMA CostWithin ==
    ASSUME NEW S, Priced(S), NEW T \in SUBSET S
    PROVE  Priced(T) /\ CostOf(T) = SumFunctionOnSet(CostsOf(S), T)
<1>1. Priced(T)
  BY FS_Subset DEF Priced
<1>2. CostOf(T) = SumFunctionOnSet(CostsOf(T), T) /\ Summable(CostsOf(T), T)
  BY <1>1, CostIsSum
<1>3. \A x \in T : CostsOf(T)[x] = CostsOf(S)[x]
  BY DEF CostsOf
<1> QED BY <1>1, <1>2, <1>3, SumSame

LEMMA FewerCostLess ==
    ASSUME NEW S, Priced(S), NEW T \in SUBSET S
    PROVE  Priced(T) /\ CostOf(T) <= CostOf(S)
<1>1. IsFiniteSet(S) /\ \A x \in S : CostsOf(S)[x] \in Nat
  BY DEF Priced, CostsOf
<1>2. SumFunctionOnSet(CostsOf(S), T) <= SumFunctionOnSet(CostsOf(S), S)
  BY <1>1, SumOfFewer
<1>3. Priced(T) /\ CostOf(T) = SumFunctionOnSet(CostsOf(S), T)
  BY CostWithin
<1> QED BY <1>2, <1>3, CostIsSum

LEMMA OneMoreCost ==
    ASSUME NEW S, Priced(S), NEW row, row.cost \in Nat
    PROVE  Priced(S \cup {row}) /\ CostOf(S \cup {row}) <= CostOf(S) + row.cost
<1>1. PICK T : T = S \cup {row}
  OBVIOUS
<1>2. Priced(T)
  BY <1>1, FS_AddElement DEF Priced
<1>3. CostOf(S) \in Nat
  BY CostType
<1>4. CASE row \in S
  <2>1. T = S /\ row.cost \in Nat
    BY <1>1, <1>4
  <2>2. CostOf(T) <= CostOf(S) + row.cost
    BY <1>3, <2>1
  <2> QED BY <1>1, <1>2, <2>2
<1>5. CASE row \notin S
  <2>1. /\ Summable(CostsOf(T), T) /\ CostOf(T) = SumFunctionOnSet(CostsOf(T), T)
        /\ row \in T /\ CostsOf(T)[row] = row.cost
    BY <1>1, <1>2, CostIsSum DEF CostsOf
  <2>2. CostOf(T) = CostsOf(T)[row] + SumFunctionOnSet(CostsOf(T), T \ {row})
    BY <2>1, SumOneLess
  <2>3. S \in SUBSET T /\ T \ {row} = S
    BY <1>1, <1>5
  <2>4. CostOf(S) = SumFunctionOnSet(CostsOf(T), S)
    BY <1>2, <2>3, CostWithin
  <2>5. CostOf(T) = row.cost + CostOf(S)
    BY <2>1, <2>2, <2>3, <2>4
  <2>6. CostOf(T) <= CostOf(S) + row.cost
    BY <1>3, <2>5
  <2> QED BY <1>1, <1>2, <2>6
<1> QED BY <1>4, <1>5

-----------------------------------------------------------------------------
(***************************************************************************)
(* Products and remainders, whose factors are not numerals.                *)
(***************************************************************************)
LEMMA ProductMonotone ==
    ASSUME NEW D \in Nat, NEW k \in Nat, NEW n \in Nat, k <= n
    PROVE  k * D \in Nat /\ n * D \in Nat /\ k * D <= n * D
OBVIOUS

LEMMA ProductStep ==
    ASSUME NEW D \in Nat, NEW k \in Nat
    PROVE  (k + 1) * D = k * D + D
OBVIOUS

LEMMA NoLessThanFactor ==
    ASSUME NEW D \in Nat \ {0}, NEW k \in Int, k >= 1
    PROVE  D * k >= D
OBVIOUS

LEMMA RemainderIs ==
    ASSUME NEW D \in Nat \ {0}, NEW a \in Nat
    PROVE  (a % D) \in 0..(D - 1) /\ a = D * (a \div D) + (a % D) /\ a \div D \in Int
OBVIOUS

LEMMA RemainderStep ==
    ASSUME NEW D \in Nat \ {0}, NEW a \in Nat
    PROVE  ((a + 1) % D) <= (a % D) + 1
<1>1. PICK q1, q2, r1, r2 :
          q1 = a \div D /\ q2 = (a + 1) \div D /\ r1 = a % D /\ r2 = (a + 1) % D
  OBVIOUS
<1>2. /\ q1 \in Int /\ q2 \in Int /\ r1 \in 0..(D - 1) /\ r2 \in 0..(D - 1)
      /\ a = D * q1 + r1 /\ a + 1 = D * q2 + r2
  BY <1>1, RemainderIs
<1>3. D * (q1 - q2) = r2 - r1 - 1
  BY <1>2
<1>4. CASE q1 - q2 >= 1
  BY <1>2, <1>3, <1>4, NoLessThanFactor
<1>5. CASE q1 - q2 <= 0
  <2>1. D * (q1 - q2) <= 0
    BY <1>2, <1>5
  <2> QED BY <1>1, <1>2, <1>3, <2>1
<1> QED BY <1>2, <1>4, <1>5

-----------------------------------------------------------------------------
(***************************************************************************)
(* Counting up: what holds of the first and is handed on holds of all, and *)
(* a function can be given by its first value and a step from each value   *)
(* to the next.                                                            *)
(***************************************************************************)
LEMMA HandedOn ==
    ASSUME NEW n, n \in Nat, NEW S, NEW f, f[0] \in S,
           \A m \in 1..n : f[m - 1] \in S => f[m] \in S
    PROVE  \A m \in 0..n : f[m] \in S
<1> DEFINE Bad == {m \in Nat : m <= n /\ f[m] \notin S}
<1>1. Bad = {}
  <2> SUFFICES ASSUME Bad # {} PROVE FALSE
    OBVIOUS
  <2>1. PICK m \in Bad : \A k \in Bad : m <= k
    <3>1. Bad \in SUBSET Nat
      OBVIOUS
    <3> HIDE DEF Bad
    <3> QED BY <3>1, LeastNat
  <2>2. m \in Nat /\ m <= n /\ f[m] \notin S /\ m # 0
    BY <2>1
  <2>3. m - 1 \in Nat /\ m - 1 <= n /\ m - 1 \notin Bad
    <3> HIDE DEF Bad
    <3> QED BY <2>1, <2>2
  <2>4. f[m - 1] \in S
    BY <2>3
  <2> QED BY <2>2, <2>4
<1> QED BY <1>1

Generated(f, n, S, base, step) ==
    f \in [0..n -> S] /\ f[0] = base /\ \A m \in 1..n : f[m] = step[f[m - 1]]

LEMMA RecursionExists ==
    ASSUME NEW n, n \in Nat, NEW S, NEW base, base \in S, NEW step, step \in [S -> S]
    PROVE  \E f : Generated(f, n, S, base, step)
<1> DEFINE Upto(k, f) == /\ f \in [0..k -> S] /\ f[0] = base
                         /\ \A m \in 1..k : f[m] = step[f[m - 1]]
           Bad == {k \in Nat : ~\E f : Upto(k, f)}
<1>1. Bad = {}
  <2> SUFFICES ASSUME Bad # {} PROVE FALSE
    OBVIOUS
  <2>1. PICK k \in Bad : \A j \in Bad : k <= j
    <3>1. Bad \in SUBSET Nat
      OBVIOUS
    <3> HIDE DEF Bad
    <3> QED BY <3>1, LeastNat
  <2>2. k # 0
    <3>1. Upto(0, [m \in 0..0 |-> base])
      OBVIOUS
    <3> HIDE DEF Upto
    <3> QED BY <2>1, <3>1
  <2>3. k \in Nat /\ k - 1 \in Nat /\ k - 1 \notin Bad
    <3>1. k \in Nat
      BY <2>1
    <3> HIDE DEF Bad
    <3> QED BY <2>1, <2>2, <3>1
  <2>4. PICK f : Upto(k - 1, f)
    <3> HIDE DEF Upto
    <3> QED BY <2>3
  <2> DEFINE h == [m \in 0..k |-> IF m = k THEN step[f[k - 1]] ELSE f[m]]
  <2>5. f[k - 1] \in S /\ \A m \in 0..k : m # k => m \in 0..(k - 1)
    BY <2>3, <2>4
  <2>6. h \in [0..k -> S] /\ h[0] = base
    BY <2>2, <2>3, <2>4, <2>5
  <2>7. ASSUME NEW m \in 1..k PROVE h[m] = step[h[m - 1]]
    <3>1. m - 1 \in 0..k /\ m - 1 # k /\ m \in 0..k
      BY <2>3
    <3>2. h[m - 1] = f[m - 1]
      BY <3>1
    <3>3. CASE m = k
      BY <3>1, <3>2, <3>3
    <3>4. CASE m # k
      <4>1. m \in 1..(k - 1)
        BY <2>3, <3>4
      <4> QED BY <2>4, <3>1, <3>2, <3>4, <4>1
    <3> QED BY <3>3, <3>4
  <2>8. Upto(k, h)
    <3> HIDE DEF h
    <3> QED BY <2>6, <2>7
  <2> HIDE DEF Upto
  <2> QED BY <2>1, <2>8
<1>2. n \notin Bad
  BY <1>1
<1> QED BY <1>2 DEF Generated

LEMMA SumToNext ==
    ASSUME NEW f, NEW m \in Nat, m # 0, \A i \in 1..m : f[i] \in Int
    PROVE  SumFunctionOnSet(f, 1..m) = SumFunctionOnSet(f, 1..(m - 1)) + f[m]
<1>1. PICK S : S = 1..(m - 1)
  OBVIOUS
<1>2. IsFiniteSet(S)
  BY <1>1, FS_Interval
<1>3. \A x \in S : f[x] \in Int
  BY <1>1
<1>4. Summable(f, S) /\ m \notin S /\ f[m] \in Int
  BY <1>1, <1>2, <1>3 DEF Summable
<1>5. SumFunctionOnSet(f, S \cup {m}) = SumFunctionOnSet(f, S) + f[m]
  BY <1>4, SumOneMore
<1>6. 1..m = S \cup {m}
  BY <1>1
<1> QED BY <1>1, <1>5, <1>6

LEMMA Telescopes ==
    ASSUME NEW n \in Nat, NEW g, \A i \in 0..n : g[i] \in Int,
           NEW f, \A i \in 1..n : f[i] = g[i] - g[i - 1]
    PROVE  SumFunctionOnSet(f, 1..n) = g[n] - g[0]
<1> DEFINE sum == [m \in 0..n |-> SumFunctionOnSet(f, 1..m) - g[m]]
<1>0. \A i \in 1..n : f[i] \in Int
  OBVIOUS
<1>1. sum[0] = -g[0]
  <2>1. 1..0 = {}
    OBVIOUS
  <2> QED BY <2>1, SumOfNone
<1>2. ASSUME NEW m \in 1..n, sum[m - 1] \in {-g[0]} PROVE sum[m] \in {-g[0]}
  <2>1. m \in Nat /\ m # 0 /\ m \in 0..n /\ m - 1 \in 0..n
    OBVIOUS
  <2>2. \A i \in 1..m : f[i] \in Int
    BY <1>0, <2>1
  <2>3. SumFunctionOnSet(f, 1..m) = SumFunctionOnSet(f, 1..(m - 1)) + f[m]
    BY <2>1, <2>2, SumToNext
  <2>4. SumFunctionOnSet(f, 1..(m - 1)) \in Int
    <3>1. IsFiniteSet(1..(m - 1))
      BY <2>1, FS_Interval
    <3>2. \A x \in 1..(m - 1) : f[x] \in Int
      BY <2>2
    <3>3. Summable(f, 1..(m - 1))
      BY <3>1, <3>2 DEF Summable
    <3> QED BY <3>3, SumType
  <2>5. f[m] = g[m] - g[m - 1] /\ g[m] \in Int /\ g[m - 1] \in Int /\ g[0] \in Int
    BY <2>1
  <2>6. SumFunctionOnSet(f, 1..(m - 1)) - g[m - 1] = -g[0]
    BY <1>2, <2>1
  <2>7. SumFunctionOnSet(f, 1..m) - g[m] = -g[0]
    BY <2>3, <2>4, <2>5, <2>6
  <2> QED BY <2>1, <2>7
<1>3. \A m \in 0..n : sum[m] \in {-g[0]}
  <2>1. PICK S : S = {-g[0]}
    OBVIOUS
  <2> HIDE DEF sum
  <2>2. sum[0] \in S /\ \A m \in 1..n : sum[m - 1] \in S => sum[m] \in S
    BY <1>1, <1>2, <2>1
  <2>3. \A m \in 0..n : sum[m] \in S
    BY <2>2, HandedOn
  <2> QED BY <2>1, <2>3
<1>4. SumFunctionOnSet(f, 1..n) - g[n] = -g[0]
  BY <1>3
<1>5. SumFunctionOnSet(f, 1..n) \in Int
  <2>1. IsFiniteSet(1..n)
    BY FS_Interval
  <2>2. Summable(f, 1..n)
    BY <1>0, <2>1 DEF Summable
  <2> QED BY <2>2, SumType
<1>6. g[n] \in Int /\ g[0] \in Int
  OBVIOUS
<1> QED BY <1>4, <1>5, <1>6
=============================================================================
