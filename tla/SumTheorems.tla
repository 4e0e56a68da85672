---------------------------- MODULE SumTheorems ----------------------------
(***************************************************************************)
(* Facts about SumFunctionOnSet, the sum of a function over a finite set   *)
(* of indices: it is well defined, any element may be taken out first, it  *)
(* depends only on the values summed, and it grows with them.  The budget  *)
(* of a refund, the amount a wallet holds back and the sum of a ledger are *)
(* such sums.                                                              *)
(*                                                                         *)
(* Induction over finite sets is the choice of a smallest counterexample:  *)
(* the strict subset ordering is well founded on finite sets.              *)
(***************************************************************************)
EXTENDS Integers, FiniteSets, Functions, FiniteSetTheorems,
        WellFoundedInduction, TLAPS

(* A non-empty set of subsets of a finite set has a smallest member: one    *)
(* with no proper subset in it.                                             *)
LEMMA SmallestSet ==
    ASSUME NEW S, IsFiniteSet(S), NEW B \in SUBSET (SUBSET S), B # {}
    PROVE  \E t \in B : \A u \in SUBSET t : u # t => u \notin B
<1>1. B \subseteq FiniteSubsetsOf(S)
    BY FS_FiniteSubsetsOfFinite
<1>2. PICK t \in B : \A u \in B : ~ (<<u, t>> \in StrictSubsetOrdering(S))
    BY <1>1, FS_StrictSubsetOrderingWellFounded, WFMin
<1>3. \A u \in SUBSET t : u # t => u \notin B
    BY <1>2 DEF StrictSubsetOrdering
<1> QED
    BY <1>3

Pick(s) == CHOOSE x \in s : TRUE

(* The equation of the fold.                                                *)
Folds(f, S, g) ==
    g = [s \in SUBSET S |-> IF s = {} THEN 0
                            ELSE f[Pick(s)] + g[s \ {Pick(s)}]]

LEMMA SumIsFold ==
    ASSUME NEW f, NEW S
    PROVE  SumFunctionOnSet(f, S) = (CHOOSE g : Folds(f, S, g))[S]
BY DEF SumFunctionOnSet, FoldFunctionOnSet, MapThenFoldSet, Folds, Pick

LEMMA PickIn == ASSUME NEW s, s # {} PROVE Pick(s) \in s
BY DEF Pick

(* A function that solves the equation on S solves it on every subset.      *)
LEMMA FoldsDown ==
    ASSUME NEW f, NEW S, NEW g, Folds(f, S, g), NEW s \in SUBSET S
    PROVE  /\ s = {} => g[s] = 0
           /\ s # {} => g[s] = f[Pick(s)] + g[s \ {Pick(s)}]
<1>1. g[s] = [t \in SUBSET S |-> IF t = {} THEN 0
                                 ELSE f[Pick(t)] + g[t \ {Pick(t)}]][s]
    BY DEF Folds
<1> QED
    BY <1>1

(* The value the equation has to have at s.                                 *)
Defined(f, s) ==
    SumFunctionOnSet(f, s) =
        IF s = {} THEN 0 ELSE f[Pick(s)] + SumFunctionOnSet(f, s \ {Pick(s)})

(* If the sum obeys the equation on all proper subsets, every solution      *)
(* agrees with it there.                                                    *)
LEMMA FoldsAgree ==
    ASSUME NEW f, NEW S, IsFiniteSet(S), NEW g, Folds(f, S, g),
           \A t \in SUBSET S : t # S => Defined(f, t)
    PROVE  \A t \in SUBSET S : t # S => g[t] = SumFunctionOnSet(f, t)
<1> DEFINE B == {t \in SUBSET S : t # S /\ g[t] # SumFunctionOnSet(f, t)}
<1> SUFFICES ASSUME B # {} PROVE FALSE
    OBVIOUS
<1>1. PICK t \in SUBSET S :
            /\ t # S /\ g[t] # SumFunctionOnSet(f, t)
            /\ \A u \in SUBSET t : u # t => (u # S => g[u] = SumFunctionOnSet(f, u))
  <2>1. B \in SUBSET (SUBSET S)
    OBVIOUS
  <2>2. PICK t \in B : \A u \in SUBSET t : u # t => u \notin B
    <3> HIDE DEF B
    <3> QED
        BY <2>1, SmallestSet
  <2>3. t \in SUBSET S
    OBVIOUS
  <2> QED
    BY <2>2, <2>3
<1> HIDE DEF B
<1>2. CASE t = {}
  <2>1. g[t] = 0
    BY <1>2, FoldsDown
  <2>2. SumFunctionOnSet(f, t) = 0
    BY <1>1, <1>2 DEF Defined
  <2> QED
    BY <1>1, <2>1, <2>2
<1>3. CASE t # {}
  <2>1. Pick(t) \in t
    BY <1>3, PickIn
  <2>2. t \ {Pick(t)} \in SUBSET S /\ t \ {Pick(t)} # S /\ t \ {Pick(t)} # t
    BY <1>1, <2>1
  <2>3. g[t \ {Pick(t)}] = SumFunctionOnSet(f, t \ {Pick(t)})
    BY <1>1, <2>2
  <2>4. g[t] = f[Pick(t)] + g[t \ {Pick(t)}]
    BY <1>1, <1>3, FoldsDown
  <2>5. SumFunctionOnSet(f, t) = f[Pick(t)] + SumFunctionOnSet(f, t \ {Pick(t)})
    BY <1>1, <1>3 DEF Defined
  <2> QED
    BY <1>1, <2>3, <2>4, <2>5
<1> QED
    BY <1>2, <1>3

LEMMA FoldsExists ==
    ASSUME NEW f, NEW S, \A t \in SUBSET S : t # S => Defined(f, t)
    PROVE  \E g : Folds(f, S, g)
<1> DEFINE rest == SumFunctionOnSet(f, S \ {Pick(S)})
           top == IF S = {} THEN 0 ELSE f[Pick(S)] + rest
           g == [t \in SUBSET S |-> IF t = S THEN top ELSE SumFunctionOnSet(f, t)]
<1>1. ASSUME NEW t \in SUBSET S
      PROVE  g[t] = IF t = {} THEN 0 ELSE f[Pick(t)] + g[t \ {Pick(t)}]
  <2>1. CASE t = {}
    BY <2>1 DEF Defined
  <2>2. CASE t # {}
    <3>1. Pick(t) \in t
        BY <2>2, PickIn
    <3>2. t \ {Pick(t)} \in SUBSET S /\ t \ {Pick(t)} # S
        BY <3>1
    <3>3. g[t \ {Pick(t)}] = SumFunctionOnSet(f, t \ {Pick(t)})
        BY <3>2
    <3>4. g[t] = f[Pick(t)] + SumFunctionOnSet(f, t \ {Pick(t)})
        BY <2>2 DEF Defined
    <3> QED
        BY <2>2, <3>3, <3>4
  <2> QED
    BY <2>1, <2>2
<1>2. Folds(f, S, g)
  <2> HIDE DEF top
  <2> DEFINE h == [s \in SUBSET S |-> IF s = {} THEN 0
                                      ELSE f[Pick(s)] + g[s \ {Pick(s)}]]
  <2>1. DOMAIN g = DOMAIN h /\ \A s \in SUBSET S : g[s] = h[s]
    BY <1>1
  <2>2. g = h
    BY <2>1
  <2> QED
    BY <2>2 DEF Folds
<1> QED
    BY <1>2

(* The sum obeys its equation.                                              *)
LEMMA SumDefined ==
    ASSUME NEW f, NEW S, IsFiniteSet(S)
    PROVE  Defined(f, S)
<1> DEFINE B == {t \in SUBSET S : ~Defined(f, t)}
<1> SUFFICES ASSUME B # {} PROVE FALSE
    OBVIOUS
<1>1. PICK t \in SUBSET S :
            /\ ~Defined(f, t)
            /\ \A u \in SUBSET t : u # t => (Defined(f, u))
  <2>1. B \in SUBSET (SUBSET S)
    OBVIOUS
  <2>2. PICK t \in B : \A u \in SUBSET t : u # t => u \notin B
    <3> HIDE DEF B
    <3> QED
        BY <2>1, SmallestSet
  <2>3. t \in SUBSET S
    OBVIOUS
  <2> QED
    BY <2>2, <2>3
<1> HIDE DEF B
<1>2. IsFiniteSet(t) /\ \A u \in SUBSET t : u # t => Defined(f, u)
    BY <1>1, FS_Subset
<1> DEFINE g == CHOOSE h : Folds(f, t, h)
<1>3. Folds(f, t, g)
    BY <1>2, FoldsExists
<1>4. SumFunctionOnSet(f, t) = g[t]
    BY SumIsFold
<1> HIDE DEF g
<1>5. CASE t = {}
  <2>1. g[t] = 0
    BY <1>3, <1>5, FoldsDown
  <2> QED
    BY <1>1, <1>4, <1>5, <2>1 DEF Defined
<1>6. CASE t # {}
  <2>1. t \ {Pick(t)} \in SUBSET t /\ t \ {Pick(t)} # t
    BY <1>6, PickIn
  <2>2. g[t \ {Pick(t)}] = SumFunctionOnSet(f, t \ {Pick(t)})
    BY <1>2, <1>3, <2>1, FoldsAgree
  <2>3. g[t] = f[Pick(t)] + g[t \ {Pick(t)}]
    BY <1>3, <1>6, FoldsDown
  <2> QED
    BY <1>1, <1>4, <1>6, <2>2, <2>3 DEF Defined
<1> QED
    BY <1>5, <1>6

LEMMA SumEmpty == ASSUME NEW f PROVE SumFunctionOnSet(f, {}) = 0
BY SumDefined, FS_EmptySet DEF Defined

LEMMA SumPick ==
    ASSUME NEW f, NEW S, IsFiniteSet(S), S # {}
    PROVE  SumFunctionOnSet(f, S) = f[Pick(S)] + SumFunctionOnSet(f, S \ {Pick(S)})
BY SumDefined DEF Defined
-----------------------------------------------------------------------------
(* What sums are like.                                                      *)

LEMMA SumInt ==
    ASSUME NEW f, NEW S, IsFiniteSet(S), \A x \in S : f[x] \in Int
    PROVE  SumFunctionOnSet(f, S) \in Int
<1> DEFINE B == {t \in SUBSET S : SumFunctionOnSet(f, t) \notin Int}
<1> SUFFICES ASSUME B # {} PROVE FALSE
    OBVIOUS
<1>1. PICK t \in SUBSET S :
            /\ SumFunctionOnSet(f, t) \notin Int
            /\ \A u \in SUBSET t : u # t => (SumFunctionOnSet(f, u) \in Int)
  <2>1. B \in SUBSET (SUBSET S)
    OBVIOUS
  <2>2. PICK t \in B : \A u \in SUBSET t : u # t => u \notin B
    <3> HIDE DEF B
    <3> QED
        BY <2>1, SmallestSet
  <2>3. t \in SUBSET S
    OBVIOUS
  <2> QED
    BY <2>2, <2>3
<1> HIDE DEF B
<1>2. IsFiniteSet(t) /\ t # {}
  <2>1. IsFiniteSet(t)
    BY FS_Subset
  <2>2. t = {} => SumFunctionOnSet(f, t) = 0
    BY SumEmpty
  <2> QED
    BY <1>1, <2>1, <2>2
<1>3. Pick(t) \in t /\ f[Pick(t)] \in Int
    BY <1>1, <1>2, PickIn
<1>4. t \ {Pick(t)} \in SUBSET S /\ t \ {Pick(t)} # t
    BY <1>1, <1>3
<1>5. SumFunctionOnSet(f, t \ {Pick(t)}) \in Int
    BY <1>1, <1>4
<1>6. SumFunctionOnSet(f, t) \in Int
    BY <1>2, <1>3, <1>5, SumPick
<1> QED
    BY <1>1, <1>6

(* A sum of natural numbers is one.                                         *)
LEMMA SumNat ==
    ASSUME NEW f, NEW S, IsFiniteSet(S), \A x \in S : f[x] \in Nat
    PROVE  SumFunctionOnSet(f, S) \in Nat
<1> DEFINE B == {t \in SUBSET S : SumFunctionOnSet(f, t) \notin Nat}
<1> SUFFICES ASSUME B # {} PROVE FALSE
    OBVIOUS
<1>1. PICK t \in SUBSET S :
            /\ SumFunctionOnSet(f, t) \notin Nat
            /\ \A u \in SUBSET t : u # t => (SumFunctionOnSet(f, u) \in Nat)
  <2>1. B \in SUBSET (SUBSET S)
    OBVIOUS
  <2>2. PICK t \in B : \A u \in SUBSET t : u # t => u \notin B
    <3> HIDE DEF B
    <3> QED
        BY <2>1, SmallestSet
  <2>3. t \in SUBSET S
    OBVIOUS
  <2> QED
    BY <2>2, <2>3
<1> HIDE DEF B
<1>2. IsFiniteSet(t) /\ t # {}
  <2>1. IsFiniteSet(t)
    BY FS_Subset
  <2>2. t = {} => SumFunctionOnSet(f, t) = 0
    BY SumEmpty
  <2> QED
    BY <1>1, <2>1, <2>2
<1>3. Pick(t) \in t /\ f[Pick(t)] \in Nat
    BY <1>1, <1>2, PickIn
<1>4. t \ {Pick(t)} \in SUBSET S /\ t \ {Pick(t)} # t
    BY <1>1, <1>3
<1>5. SumFunctionOnSet(f, t \ {Pick(t)}) \in Nat
    BY <1>1, <1>4
<1>6. SumFunctionOnSet(f, t) \in Nat
    BY <1>2, <1>3, <1>5, SumPick
<1> QED
    BY <1>1, <1>6

(* A sum of nothing but zeros is zero.                                      *)
LEMMA SumZero ==
    ASSUME NEW f, NEW S, IsFiniteSet(S), \A x \in S : f[x] = 0
    PROVE  SumFunctionOnSet(f, S) = 0
<1> DEFINE B == {t \in SUBSET S : SumFunctionOnSet(f, t) # 0}
<1> SUFFICES ASSUME B # {} PROVE FALSE
    OBVIOUS
<1>1. PICK t \in SUBSET S :
            /\ SumFunctionOnSet(f, t) # 0
            /\ \A u \in SUBSET t : u # t => (SumFunctionOnSet(f, u) = 0)
  <2>1. B \in SUBSET (SUBSET S)
    OBVIOUS
  <2>2. PICK t \in B : \A u \in SUBSET t : u # t => u \notin B
    <3> HIDE DEF B
    <3> QED
        BY <2>1, SmallestSet
  <2>3. t \in SUBSET S
    OBVIOUS
  <2> QED
    BY <2>2, <2>3
<1> HIDE DEF B
<1>2. IsFiniteSet(t) /\ t # {}
  <2>1. IsFiniteSet(t)
    BY FS_Subset
  <2>2. t = {} => SumFunctionOnSet(f, t) = 0
    BY SumEmpty
  <2> QED
    BY <1>1, <2>1, <2>2
<1>3. Pick(t) \in t /\ f[Pick(t)] = 0
    BY <1>1, <1>2, PickIn
<1>4. t \ {Pick(t)} \in SUBSET S /\ t \ {Pick(t)} # t
    BY <1>1, <1>3
<1>5. SumFunctionOnSet(f, t \ {Pick(t)}) = 0
    BY <1>1, <1>4
<1>6. SumFunctionOnSet(f, t) = 0
    BY <1>2, <1>3, <1>5, SumPick
<1> QED
    BY <1>1, <1>6

(* Any element may be taken out first.                                      *)
LEMMA SumTakeOut ==
    ASSUME NEW f, NEW S, IsFiniteSet(S), \A y \in S : f[y] \in Int, NEW x \in S
    PROVE  SumFunctionOnSet(f, S) = f[x] + SumFunctionOnSet(f, S \ {x})
<1> DEFINE sum(s) == SumFunctionOnSet(f, s)
           B == {t \in SUBSET S : \E y \in t : sum(t) # f[y] + sum(t \ {y})}
<1> SUFFICES ASSUME B # {} PROVE FALSE
    OBVIOUS
<1>1. PICK t \in SUBSET S :
            /\ \E y \in t : sum(t) # f[y] + sum(t \ {y})
            /\ \A u \in SUBSET t : u # t => (\A y \in u : sum(u) = f[y] + sum(u \ {y}))
  <2>1. B \in SUBSET (SUBSET S)
    OBVIOUS
  <2>2. PICK t \in B : \A u \in SUBSET t : u # t => u \notin B
    <3> HIDE DEF B
    <3> QED
        BY <2>1, SmallestSet
  <2>3. t \in SUBSET S /\ \E y \in t : sum(t) # f[y] + sum(t \ {y})
    BY <2>2
  <2>4. \A u \in SUBSET t : u # t => \A y \in u : sum(u) = f[y] + sum(u \ {y})
    BY <2>2, <2>3
  <2> QED
    BY <2>3, <2>4
<1> HIDE DEF B
<1>2. PICK y \in t : sum(t) # f[y] + sum(t \ {y})
    BY <1>1
<1> DEFINE p == Pick(t)
<1>3. IsFiniteSet(t) /\ p \in t
    BY <1>1, <1>2, FS_Subset, PickIn
<1>4. sum(t) = f[p] + sum(t \ {p})
    BY <1>2, <1>3, SumPick
<1> HIDE DEF p
<1>5. y # p
    BY <1>2, <1>4
<1>6. sum(t \ {p}) = f[y] + sum((t \ {p}) \ {y})
  <2>1. t \ {p} \in SUBSET S /\ t \ {p} # t
    BY <1>1, <1>3
  <2> QED
    BY <1>1, <1>2, <1>5, <2>1
<1>7. sum(t \ {y}) = f[p] + sum((t \ {y}) \ {p})
  <2>1. t \ {y} \in SUBSET S /\ t \ {y} # t
    BY <1>1, <1>2
  <2> QED
    BY <1>1, <1>3, <1>5, <2>1
<1>8. (t \ {p}) \ {y} = (t \ {y}) \ {p}
    OBVIOUS
<1>9. sum((t \ {y}) \ {p}) \in Int
  <2>1. IsFiniteSet((t \ {y}) \ {p}) /\ \A z \in (t \ {y}) \ {p} : f[z] \in Int
    BY <1>1, <1>3, FS_RemoveElement
  <2> QED
    BY <2>1, SumInt
<1>10. f[y] \in Int /\ f[p] \in Int
    BY <1>1, <1>2, <1>3
<1> DEFINE rest == sum((t \ {y}) \ {p})
<1>11. sum(t) = f[p] + (f[y] + rest)
    BY <1>4, <1>6, <1>8
<1>12. f[y] + sum(t \ {y}) = f[y] + (f[p] + rest)
    BY <1>7
<1>13. f[p] + (f[y] + rest) = f[y] + (f[p] + rest)
    BY <1>9, <1>10
<1> QED
    BY <1>2, <1>11, <1>12, <1>13

LEMMA SumAdd ==
    ASSUME NEW f, NEW S, IsFiniteSet(S), NEW x, x \notin S,
           \A y \in S \cup {x} : f[y] \in Int
    PROVE  SumFunctionOnSet(f, S \cup {x}) = f[x] + SumFunctionOnSet(f, S)
<1>1. IsFiniteSet(S \cup {x}) /\ (S \cup {x}) \ {x} = S
    BY FS_AddElement
<1> QED
    BY <1>1, SumTakeOut

(* Two functions that agree on the indices have the same sum.               *)
LEMMA SumSame ==
    ASSUME NEW f, NEW g, NEW S, IsFiniteSet(S), \A x \in S : f[x] = g[x]
    PROVE  SumFunctionOnSet(f, S) = SumFunctionOnSet(g, S)
<1> DEFINE B == {t \in SUBSET S : SumFunctionOnSet(f, t) # SumFunctionOnSet(g, t)}
<1> SUFFICES ASSUME B # {} PROVE FALSE
    OBVIOUS
<1>1. PICK t \in SUBSET S :
            /\ SumFunctionOnSet(f, t) # SumFunctionOnSet(g, t)
            /\ \A u \in SUBSET t : u # t => (SumFunctionOnSet(f, u) = SumFunctionOnSet(g, u))
  <2>1. B \in SUBSET (SUBSET S)
    OBVIOUS
  <2>2. PICK t \in B : \A u \in SUBSET t : u # t => u \notin B
    <3> HIDE DEF B
    <3> QED
        BY <2>1, SmallestSet
  <2>3. t \in SUBSET S
    OBVIOUS
  <2> QED
    BY <2>2, <2>3
<1> HIDE DEF B
<1>2. IsFiniteSet(t) /\ t # {}
  <2>1. IsFiniteSet(t)
    BY FS_Subset
  <2>2. t = {} => SumFunctionOnSet(f, t) = 0 /\ SumFunctionOnSet(g, t) = 0
    BY SumEmpty
  <2> QED
    BY <1>1, <2>1, <2>2
<1>3. Pick(t) \in t /\ f[Pick(t)] = g[Pick(t)]
    BY <1>1, <1>2, PickIn
<1>4. t \ {Pick(t)} \in SUBSET S /\ t \ {Pick(t)} # t
    BY <1>1, <1>3
<1>5. SumFunctionOnSet(f, t \ {Pick(t)}) = SumFunctionOnSet(g, t \ {Pick(t)})
    BY <1>1, <1>4
<1>6. SumFunctionOnSet(f, t) = SumFunctionOnSet(g, t)
    BY <1>2, <1>3, <1>5, SumPick
<1> QED
    BY <1>1, <1>6

(* Sums grow with what is summed.                                           *)
LEMMA SumMonotone ==
    ASSUME NEW f, NEW g, NEW S, IsFiniteSet(S),
           \A x \in S : f[x] \in Int /\ g[x] \in Int /\ f[x] <= g[x]
    PROVE  SumFunctionOnSet(f, S) <= SumFunctionOnSet(g, S)
<1> DEFINE B == {t \in SUBSET S : ~(SumFunctionOnSet(f, t) <= SumFunctionOnSet(g, t))}
<1> SUFFICES ASSUME B # {} PROVE FALSE
    OBVIOUS
<1>1. PICK t \in SUBSET S :
            /\ ~(SumFunctionOnSet(f, t) <= SumFunctionOnSet(g, t))
            /\ \A u \in SUBSET t : u # t => (SumFunctionOnSet(f, u) <= SumFunctionOnSet(g, u))
  <2>1. B \in SUBSET (SUBSET S)
    OBVIOUS
  <2>2. PICK t \in B : \A u \in SUBSET t : u # t => u \notin B
    <3> HIDE DEF B
    <3> QED
        BY <2>1, SmallestSet
  <2>3. t \in SUBSET S
    OBVIOUS
  <2> QED
    BY <2>2, <2>3
<1> HIDE DEF B
<1>2. IsFiniteSet(t) /\ t # {}
  <2>1. IsFiniteSet(t)
    BY FS_Subset
  <2>2. t = {} => SumFunctionOnSet(f, t) = 0 /\ SumFunctionOnSet(g, t) = 0
    BY SumEmpty
  <2> QED
    BY <1>1, <2>1, <2>2
<1>3. Pick(t) \in t
    BY <1>2, PickIn
<1> DEFINE u == t \ {Pick(t)}
<1>4. u \in SUBSET t /\ u # t /\ IsFiniteSet(u)
    BY <1>1, <1>2, <1>3, FS_Subset
<1>5. /\ SumFunctionOnSet(f, u) <= SumFunctionOnSet(g, u)
      /\ SumFunctionOnSet(f, u) \in Int /\ SumFunctionOnSet(g, u) \in Int
  <2>1. \A x \in u : f[x] \in Int /\ g[x] \in Int
    BY <1>1, <1>4
  <2> QED
    BY <1>1, <1>4, <2>1, SumInt
<1>6. /\ SumFunctionOnSet(f, t) = f[Pick(t)] + SumFunctionOnSet(f, u)
      /\ SumFunctionOnSet(g, t) = g[Pick(t)] + SumFunctionOnSet(g, u)
    BY <1>2, SumPick
<1>7. f[Pick(t)] \in Int /\ g[Pick(t)] \in Int /\ f[Pick(t)] <= g[Pick(t)]
    BY <1>1, <1>3
<1> HIDE DEF u
<1>8. SumFunctionOnSet(f, t) <= SumFunctionOnSet(g, t)
    BY <1>5, <1>6, <1>7
<1> QED
    BY <1>1, <1>8

(* The sum of a function that changed at one index.                         *)
LEMMA SumUpdate ==
    ASSUME NEW f, NEW g, NEW S, IsFiniteSet(S), NEW x \in S,
           \A y \in S : f[y] \in Int /\ g[y] \in Int,
           \A y \in S \ {x} : g[y] = f[y]
    PROVE  SumFunctionOnSet(g, S) = SumFunctionOnSet(f, S) - f[x] + g[x]
<1>1. IsFiniteSet(S \ {x})
    BY FS_RemoveElement
<1>2. SumFunctionOnSet(f, S \ {x}) = SumFunctionOnSet(g, S \ {x})
    BY <1>1, SumSame
<1>3. SumFunctionOnSet(f, S \ {x}) \in Int
    BY <1>1, SumInt
<1>4. SumFunctionOnSet(f, S) = f[x] + SumFunctionOnSet(f, S \ {x})
    BY SumTakeOut
<1>5. SumFunctionOnSet(g, S) = g[x] + SumFunctionOnSet(g, S \ {x})
    BY SumTakeOut
<1> QED
    BY <1>2, <1>3, <1>4, <1>5
=============================================================================
