---------------------------- MODULE LedgerProofs ----------------------------
(***************************************************************************)
(* Theorems about Ledger.  What a debt says is paid is a sum over its      *)
(* payments and what a transfer says is left is a sum over the payments    *)
(* made from it, so every handler is followed through its sums: what a     *)
(* new payment adds, what a payment taken off leaves, and how an amount    *)
(* spread over invoices and credits falls on each of them.                 *)
(***************************************************************************)
EXTENDS Ledger, SequenceTheorems, FunctionTheorems, FiniteSetTheorems, WellFoundedInduction, TLAPS

-----------------------------------------------------------------------------
(* Sums: SumFunctionOnSet adds up a function over a finite set.  It is a
   recursive function on the subsets of that set; that there is one, and what
   it computes, is shown with a smallest set that goes wrong. *)

Picked(T) == CHOOSE x \in T : TRUE
Rest(T) == T \ {Picked(T)}

\* g adds up f over every subset of S, one picked member after the other.
Adds(g, f, S) == g = [T \in SUBSET S |-> IF T = {} THEN 0 ELSE f[Picked(T)] + g[Rest(T)]]

LEMMA SumIsAdded ==
    ASSUME NEW f, NEW S
    PROVE  SumFunctionOnSet(f, S) = (CHOOSE g : Adds(g, f, S))[S]
  BY DEF SumFunctionOnSet, FoldFunctionOnSet, MapThenFoldSet, Adds, Picked, Rest

LEMMA AddsAt ==
    ASSUME NEW g, NEW f, NEW S, Adds(g, f, S), NEW T \in SUBSET S
    PROVE  g[T] = IF T = {} THEN 0 ELSE f[Picked(T)] + g[Rest(T)]
  BY DEF Adds

\* Some subsets of a finite set, if there are any, have a smallest.
LEMMA SmallestSubset ==
    ASSUME NEW S, IsFiniteSet(S), NEW B \in SUBSET (SUBSET S), B # {}
    PROVE  \E T \in B : \A U \in B : U \subseteq T => U = T
<1> DEFINE R == StrictSubsetOrdering(S)
<1>1. IsWellFoundedOn(R, FiniteSubsetsOf(S))
  BY FS_StrictSubsetOrderingWellFounded
<1>2. B \subseteq FiniteSubsetsOf(S)
  BY FS_Subset DEF FiniteSubsetsOf
<1>3. PICK T \in B : \A U \in B : ~ (<<U, T>> \in R)
  <2> HIDE DEF R
  <2> QED
    BY <1>1, <1>2, WFMin
<1>4. ASSUME NEW U \in B, U \subseteq T PROVE U = T
  BY <1>3, <1>4 DEF StrictSubsetOrdering
<1> QED
  BY <1>4

LEMMA PickedIs ==
    ASSUME NEW T, T # {}
    PROVE  Picked(T) \in T /\ Rest(T) \subseteq T /\ Rest(T) # T
  BY DEF Picked, Rest

\* Two that add up f agree where both do.
LEMMA AddsAgree ==
    ASSUME NEW f, NEW S, IsFiniteSet(S), NEW U \in SUBSET S, NEW V \in SUBSET S,
           NEW g, Adds(g, f, U), NEW h, Adds(h, f, V)
    PROVE  \A W \in SUBSET (U \cap V) : g[W] = h[W]
<1> DEFINE B == {W \in SUBSET (U \cap V) : g[W] # h[W]}
<1> SUFFICES ASSUME B # {} PROVE FALSE
  OBVIOUS
<1>1. PICK W \in B : \A X \in B : X \subseteq W => X = W
  <2>1. B \in SUBSET (SUBSET S)
    OBVIOUS
  <2> HIDE DEF B
  <2> QED
    BY <2>1, SmallestSubset
<1>2. W \in SUBSET U /\ W \in SUBSET V /\ g[W] # h[W]
  OBVIOUS
<1>3. /\ g[W] = IF W = {} THEN 0 ELSE f[Picked(W)] + g[Rest(W)]
      /\ h[W] = IF W = {} THEN 0 ELSE f[Picked(W)] + h[Rest(W)]
  BY <1>2 DEF Adds
<1>4. W # {}
  BY <1>2, <1>3
<1>5. Rest(W) \subseteq W /\ Rest(W) # W
  BY <1>4, PickedIs
<1>6. g[Rest(W)] = h[Rest(W)]
  BY <1>1, <1>2, <1>5
<1> QED
  BY <1>2, <1>3, <1>6

LEMMA AddsAgreeBelow ==
    ASSUME NEW f, NEW S, IsFiniteSet(S), NEW R \in SUBSET S,
           NEW g, Adds(g, f, S), NEW h, Adds(h, f, R)
    PROVE  g[R] = h[R]
<1>1. PICK T \in SUBSET S : T = S
  OBVIOUS
<1>2. Adds(g, f, T) /\ R \in SUBSET (T \cap R)
  BY <1>1
<1> QED
  BY <1>2, AddsAgree

\* There is one that adds up f over every subset of a finite set.
LEMMA AddsExists ==
    ASSUME NEW f, NEW S, IsFiniteSet(S)
    PROVE  \E g : Adds(g, f, S)
<1> DEFINE B == {T \in SUBSET S : ~ \E g : Adds(g, f, T)}
<1> SUFFICES ASSUME B # {} PROVE FALSE
  OBVIOUS
<1>1. PICK T \in B : \A U \in B : U \subseteq T => U = T
  <2>1. B \in SUBSET (SUBSET S)
    OBVIOUS
  <2> HIDE DEF B
  <2> QED
    BY <2>1, SmallestSubset
<1> DEFINE A(U) == CHOOSE g : Adds(g, f, U)
           h == [W \in SUBSET T |-> IF W = {} THEN 0 ELSE f[Picked(W)] + A(Rest(W))[Rest(W)]]
<1>2. ASSUME NEW U \in SUBSET T, U # T PROVE Adds(A(U), f, U)
  <2>1. \E g : Adds(g, f, U)
    BY <1>1, <1>2
  <2> QED
    BY <2>1
<1>3. ASSUME NEW U \in SUBSET T, U # T PROVE h[U] = A(U)[U]
  <2>1. A(U)[U] = IF U = {} THEN 0 ELSE f[Picked(U)] + A(U)[Rest(U)]
    <3>1. Adds(A(U), f, U) /\ U \in SUBSET U
      BY <1>2, <1>3
    <3> HIDE DEF A
    <3> QED
      BY <3>1, AddsAt
  <2>2. h[U] = IF U = {} THEN 0 ELSE f[Picked(U)] + A(Rest(U))[Rest(U)]
    OBVIOUS
  <2>3. CASE U # {}
    <3>1. Rest(U) \in SUBSET U /\ Rest(U) # T /\ Rest(U) \in SUBSET T /\ Rest(U) \in SUBSET (Rest(U) \cap U)
      BY <2>3, PickedIs
    <3>2. Adds(A(U), f, U) /\ Adds(A(Rest(U)), f, Rest(U))
      BY <1>2, <1>3, <3>1
    <3>3. U \in SUBSET S /\ Rest(U) \in SUBSET S
      BY <3>1
    <3> HIDE DEF A, h
    <3>4. A(U)[Rest(U)] = A(Rest(U))[Rest(U)]
      BY <3>1, <3>2, <3>3, AddsAgree
    <3> QED
      BY <2>1, <2>2, <2>3, <3>4
  <2> HIDE DEF A, h
  <2> QED
    BY <2>1, <2>2, <2>3
<1>4. Adds(h, f, T)
  <2>1. ASSUME NEW W \in SUBSET T, W # {} PROVE A(Rest(W))[Rest(W)] = h[Rest(W)]
    <3>1. Rest(W) \in SUBSET T /\ Rest(W) # T
      BY <2>1, PickedIs
    <3> HIDE DEF A, h
    <3> QED
      BY <1>3, <3>1
  <2>2. h = [W \in SUBSET T |-> IF W = {} THEN 0 ELSE f[Picked(W)] + h[Rest(W)]]
    <3> DEFINE body(W, k) == IF W = {} THEN 0 ELSE f[Picked(W)] + k[Rest(W)]
    <3>1. \A W \in SUBSET T : h[W] = body(W, h)
      <4>1. \A W \in SUBSET T : h[W] = IF W = {} THEN 0 ELSE f[Picked(W)] + A(Rest(W))[Rest(W)]
        OBVIOUS
      <4> HIDE DEF A, h
      <4> QED
        BY <2>1, <4>1
    <3>2. h = [W \in SUBSET T |-> h[W]]
      OBVIOUS
    <3> HIDE DEF h
    <3> QED
      BY <3>1, <3>2
  <2> HIDE DEF h
  <2> QED
    BY <2>2 DEF Adds
<1> HIDE DEF h, A
<1> QED
  BY <1>4

\* The sum over a set from the sum over one member less.
LEMMA SumPicked ==
    ASSUME NEW f, NEW S, IsFiniteSet(S)
    PROVE  SumFunctionOnSet(f, S)
               = IF S = {} THEN 0 ELSE f[Picked(S)] + SumFunctionOnSet(f, Rest(S))
<1> DEFINE R == Rest(S)
           g == CHOOSE k : Adds(k, f, S)
           h == CHOOSE k : Adds(k, f, R)
<1>1. R \in SUBSET S /\ IsFiniteSet(R) /\ R \in SUBSET R /\ R \in SUBSET (S \cap R) /\ S \in SUBSET S
  BY FS_Subset DEF Rest
<1>2. SumFunctionOnSet(f, S) = g[S] /\ SumFunctionOnSet(f, R) = h[R]
  BY SumIsAdded
<1>3. Adds(g, f, S) /\ Adds(h, f, R)
  BY <1>1, AddsExists
<1> HIDE DEF g, h
<1>4. g[S] = IF S = {} THEN 0 ELSE f[Picked(S)] + g[R]
  BY <1>1, <1>3, AddsAt
<1>5. g[R] = h[R]
  <2> HIDE DEF R
  <2> QED
    BY <1>1, <1>3, AddsAgreeBelow
<1> QED
  BY <1>2, <1>4, <1>5

LEMMA SumEmpty == ASSUME NEW f PROVE SumFunctionOnSet(f, {}) = 0
  BY SumPicked, FS_EmptySet

IntegerOn(f, S) == \A x \in S : f[x] \in Int

LEMMA SumType ==
    ASSUME NEW f, NEW S, IsFiniteSet(S), IntegerOn(f, S)
    PROVE  SumFunctionOnSet(f, S) \in Int
<1> DEFINE B == {T \in SUBSET S : SumFunctionOnSet(f, T) \notin Int}
<1> SUFFICES ASSUME B # {} PROVE FALSE
  OBVIOUS
<1>1. PICK T \in B : \A U \in B : U \subseteq T => U = T
  <2>1. B \in SUBSET (SUBSET S)
    OBVIOUS
  <2> HIDE DEF B
  <2> QED
    BY <2>1, SmallestSubset
<1>2. T \in SUBSET S /\ SumFunctionOnSet(f, T) \notin Int /\ IsFiniteSet(T)
  BY FS_Subset
<1>3. T # {}
  BY <1>2, SumEmpty
<1>4. SumFunctionOnSet(f, T) = f[Picked(T)] + SumFunctionOnSet(f, Rest(T))
  BY <1>2, <1>3, SumPicked
<1>5. Picked(T) \in S /\ Rest(T) \in SUBSET S /\ Rest(T) \subseteq T /\ Rest(T) # T
  BY <1>2, <1>3, PickedIs
<1>6. SumFunctionOnSet(f, Rest(T)) \in Int
  BY <1>1, <1>5
<1> QED
  BY <1>2, <1>4, <1>5, <1>6 DEF IntegerOn

\* Whichever member is taken away.
LEMMA SumWithout ==
    ASSUME NEW f, NEW S, IsFiniteSet(S), IntegerOn(f, S), NEW x \in S
    PROVE  SumFunctionOnSet(f, S) = f[x] + SumFunctionOnSet(f, S \ {x})
<1> DEFINE B == {T \in SUBSET S : \E y \in T :
                    SumFunctionOnSet(f, T) # f[y] + SumFunctionOnSet(f, T \ {y})}
<1> SUFFICES ASSUME B # {} PROVE FALSE
  OBVIOUS
<1>1. PICK T \in B : \A U \in B : U \subseteq T => U = T
  <2>1. B \in SUBSET (SUBSET S)
    OBVIOUS
  <2> HIDE DEF B
  <2> QED
    BY <2>1, SmallestSubset
<1>2. PICK y \in T : SumFunctionOnSet(f, T) # f[y] + SumFunctionOnSet(f, T \ {y})
  OBVIOUS
<1>3. T \in SUBSET S /\ IsFiniteSet(T)
  BY FS_Subset
<1> DEFINE p == Picked(T)
<1>4. p \in T /\ p \in S /\ y \in S /\ f[p] \in Int /\ f[y] \in Int
  BY <1>2, <1>3, PickedIs DEF IntegerOn
<1>5. SumFunctionOnSet(f, T) = f[p] + SumFunctionOnSet(f, T \ {p})
  BY <1>2, <1>3, SumPicked DEF Rest
<1>6. p # y
  BY <1>2, <1>5
<1> HIDE DEF p
<1>7. ASSUME NEW z \in T PROVE T \ {z} \notin B
  BY <1>1, <1>7
<1>8. SumFunctionOnSet(f, T \ {p}) = f[y] + SumFunctionOnSet(f, (T \ {p}) \ {y})
  <2>1. T \ {p} \notin B /\ y \in T \ {p} /\ T \ {p} \in SUBSET S
    BY <1>2, <1>3, <1>4, <1>6, <1>7
  <2> QED
    BY <2>1
<1>9. SumFunctionOnSet(f, T \ {y}) = f[p] + SumFunctionOnSet(f, (T \ {y}) \ {p})
  <2>1. T \ {y} \notin B /\ p \in T \ {y} /\ T \ {y} \in SUBSET S
    BY <1>2, <1>3, <1>4, <1>6, <1>7
  <2> QED
    BY <2>1
<1>10. (T \ {p}) \ {y} = (T \ {y}) \ {p}
  OBVIOUS
<1>11. SumFunctionOnSet(f, (T \ {p}) \ {y}) \in Int
  <2>1. IsFiniteSet((T \ {p}) \ {y}) /\ IntegerOn(f, (T \ {p}) \ {y})
    BY <1>3, FS_Subset DEF IntegerOn
  <2> QED
    BY <2>1, SumType
<1>12. PICK r \in Int : r = SumFunctionOnSet(f, (T \ {p}) \ {y})
  BY <1>11
<1>13. /\ SumFunctionOnSet(f, T) = f[p] + (f[y] + r)
       /\ SumFunctionOnSet(f, T \ {y}) = f[p] + r
  BY <1>5, <1>8, <1>9, <1>10, <1>12
<1> HIDE DEF B
<1> QED
  BY <1>2, <1>4, <1>13

\* Sums of the same values are the same.
LEMMA SumSame ==
    ASSUME NEW f, NEW g, NEW S, IsFiniteSet(S), \A x \in S : f[x] = g[x]
    PROVE  SumFunctionOnSet(f, S) = SumFunctionOnSet(g, S)
<1> DEFINE B == {T \in SUBSET S : SumFunctionOnSet(f, T) # SumFunctionOnSet(g, T)}
<1> SUFFICES ASSUME B # {} PROVE FALSE
  OBVIOUS
<1>1. PICK T \in B : \A U \in B : U \subseteq T => U = T
  <2>1. B \in SUBSET (SUBSET S)
    OBVIOUS
  <2> HIDE DEF B
  <2> QED
    BY <2>1, SmallestSubset
<1>2. T \in SUBSET S /\ SumFunctionOnSet(f, T) # SumFunctionOnSet(g, T) /\ IsFiniteSet(T)
  BY FS_Subset
<1>3. T # {}
  BY <1>2, SumEmpty
<1>4. /\ SumFunctionOnSet(f, T) = f[Picked(T)] + SumFunctionOnSet(f, Rest(T))
      /\ SumFunctionOnSet(g, T) = g[Picked(T)] + SumFunctionOnSet(g, Rest(T))
  BY <1>2, <1>3, SumPicked
<1>5. Picked(T) \in S /\ Rest(T) \in SUBSET S /\ Rest(T) \subseteq T /\ Rest(T) # T
  BY <1>2, <1>3, PickedIs
<1>6. SumFunctionOnSet(f, Rest(T)) = SumFunctionOnSet(g, Rest(T))
  BY <1>1, <1>5
<1> QED
  BY <1>2, <1>4, <1>5, <1>6

\* The sum of a sum of two functions.
LEMMA SumPlus ==
    ASSUME NEW f, NEW g, NEW h, NEW S, IsFiniteSet(S), IntegerOn(f, S), IntegerOn(g, S),
           \A x \in S : h[x] = f[x] + g[x]
    PROVE  SumFunctionOnSet(h, S) = SumFunctionOnSet(f, S) + SumFunctionOnSet(g, S)
<1> DEFINE B == {T \in SUBSET S :
                    SumFunctionOnSet(h, T) # SumFunctionOnSet(f, T) + SumFunctionOnSet(g, T)}
<1> SUFFICES ASSUME B # {} PROVE FALSE
  OBVIOUS
<1>1. PICK T \in B : \A U \in B : U \subseteq T => U = T
  <2>1. B \in SUBSET (SUBSET S)
    OBVIOUS
  <2> HIDE DEF B
  <2> QED
    BY <2>1, SmallestSubset
<1>2. /\ T \in SUBSET S /\ IsFiniteSet(T)
      /\ SumFunctionOnSet(h, T) # SumFunctionOnSet(f, T) + SumFunctionOnSet(g, T)
  BY FS_Subset
<1>3. T # {}
  BY <1>2, SumEmpty
<1>4. /\ SumFunctionOnSet(f, T) = f[Picked(T)] + SumFunctionOnSet(f, Rest(T))
      /\ SumFunctionOnSet(g, T) = g[Picked(T)] + SumFunctionOnSet(g, Rest(T))
      /\ SumFunctionOnSet(h, T) = h[Picked(T)] + SumFunctionOnSet(h, Rest(T))
  BY <1>2, <1>3, SumPicked
<1>5. Picked(T) \in S /\ Rest(T) \in SUBSET S /\ Rest(T) \subseteq T /\ Rest(T) # T
  BY <1>2, <1>3, PickedIs
<1>6. SumFunctionOnSet(h, Rest(T)) = SumFunctionOnSet(f, Rest(T)) + SumFunctionOnSet(g, Rest(T))
  BY <1>1, <1>5
<1>7. SumFunctionOnSet(f, Rest(T)) \in Int /\ SumFunctionOnSet(g, Rest(T)) \in Int
  <2>1. IsFiniteSet(Rest(T)) /\ IntegerOn(f, Rest(T)) /\ IntegerOn(g, Rest(T))
    BY <1>2, <1>5, FS_Subset DEF IntegerOn
  <2> QED
    BY <2>1, SumType
<1>8. /\ f[Picked(T)] \in Int /\ g[Picked(T)] \in Int
      /\ h[Picked(T)] = f[Picked(T)] + g[Picked(T)]
  BY <1>5 DEF IntegerOn
<1> HIDE DEF B
<1> QED
  BY <1>2, <1>4, <1>6, <1>7, <1>8

\* The sum follows a change of one value.
LEMMA SumChange ==
    ASSUME NEW f, NEW g, NEW S, IsFiniteSet(S), IntegerOn(f, S), IntegerOn(g, S), NEW x \in S,
           \A y \in S \ {x} : g[y] = f[y]
    PROVE  SumFunctionOnSet(g, S) = SumFunctionOnSet(f, S) + g[x] - f[x]
<1>1. IsFiniteSet(S \ {x}) /\ IntegerOn(f, S \ {x})
  BY FS_Subset DEF IntegerOn
<1>2. /\ SumFunctionOnSet(f, S) = f[x] + SumFunctionOnSet(f, S \ {x})
      /\ SumFunctionOnSet(g, S) = g[x] + SumFunctionOnSet(g, S \ {x})
  BY SumWithout
<1>3. SumFunctionOnSet(f, S \ {x}) = SumFunctionOnSet(g, S \ {x})
  BY <1>1, SumSame
<1>4. SumFunctionOnSet(f, S \ {x}) \in Int
  BY <1>1, SumType
<1> QED
  BY <1>2, <1>3, <1>4 DEF IntegerOn

\* Sums of natural numbers: what each of them is no more than, and zero only
\* of zeros.
LEMMA SumNatural ==
    ASSUME NEW f, NEW S, IsFiniteSet(S), \A x \in S : f[x] \in Nat
    PROVE  SumFunctionOnSet(f, S) \in Nat
<1> DEFINE B == {T \in SUBSET S : SumFunctionOnSet(f, T) \notin Nat}
<1> SUFFICES ASSUME B # {} PROVE FALSE
  OBVIOUS
<1>1. PICK T \in B : \A U \in B : U \subseteq T => U = T
  <2>1. B \in SUBSET (SUBSET S)
    OBVIOUS
  <2> HIDE DEF B
  <2> QED
    BY <2>1, SmallestSubset
<1>2. T \in SUBSET S /\ SumFunctionOnSet(f, T) \notin Nat /\ IsFiniteSet(T)
  BY FS_Subset
<1>3. T # {}
  BY <1>2, SumEmpty
<1>4. SumFunctionOnSet(f, T) = f[Picked(T)] + SumFunctionOnSet(f, Rest(T))
  BY <1>2, <1>3, SumPicked
<1>5. Picked(T) \in S /\ Rest(T) \in SUBSET S /\ Rest(T) \subseteq T /\ Rest(T) # T
  BY <1>2, <1>3, PickedIs
<1>6. SumFunctionOnSet(f, Rest(T)) \in Nat
  BY <1>1, <1>5
<1> QED
  BY <1>2, <1>4, <1>5, <1>6

LEMMA SumAtLeast ==
    ASSUME NEW f, NEW S, IsFiniteSet(S), \A x \in S : f[x] \in Nat, NEW x \in S
    PROVE  f[x] <= SumFunctionOnSet(f, S)
<1>1. IsFiniteSet(S \ {x}) /\ \A y \in S \ {x} : f[y] \in Nat
  BY FS_Subset
<1>2. SumFunctionOnSet(f, S \ {x}) \in Nat
  BY <1>1, SumNatural
<1>3. SumFunctionOnSet(f, S) = f[x] + SumFunctionOnSet(f, S \ {x})
  BY SumWithout DEF IntegerOn
<1> QED
  BY <1>2, <1>3

LEMMA SumOfZeros ==
    ASSUME NEW f, NEW S, IsFiniteSet(S), \A x \in S : f[x] = 0
    PROVE  SumFunctionOnSet(f, S) = 0
<1> DEFINE B == {T \in SUBSET S : SumFunctionOnSet(f, T) # 0}
<1> SUFFICES ASSUME B # {} PROVE FALSE
  OBVIOUS
<1>1. PICK T \in B : \A U \in B : U \subseteq T => U = T
  <2>1. B \in SUBSET (SUBSET S)
    OBVIOUS
  <2> HIDE DEF B
  <2> QED
    BY <2>1, SmallestSubset
<1>2. T \in SUBSET S /\ SumFunctionOnSet(f, T) # 0 /\ IsFiniteSet(T)
  BY FS_Subset
<1>3. T # {}
  BY <1>2, SumEmpty
<1>4. SumFunctionOnSet(f, T) = f[Picked(T)] + SumFunctionOnSet(f, Rest(T))
  BY <1>2, <1>3, SumPicked
<1>5. Picked(T) \in S /\ Rest(T) \in SUBSET S /\ Rest(T) \subseteq T /\ Rest(T) # T
  BY <1>2, <1>3, PickedIs
<1>6. SumFunctionOnSet(f, Rest(T)) = 0
  BY <1>1, <1>5
<1> QED
  BY <1>2, <1>4, <1>5, <1>6
\* The sum over two sets with nothing in common.
LEMMA SumUnion ==
    ASSUME NEW f, NEW S, NEW T, IsFiniteSet(S), IsFiniteSet(T), S \cap T = {},
           IntegerOn(f, S), IntegerOn(f, T)
    PROVE  SumFunctionOnSet(f, S \cup T) = SumFunctionOnSet(f, S) + SumFunctionOnSet(f, T)
<1> DEFINE B == {U \in SUBSET T :
                    SumFunctionOnSet(f, S \cup U) # SumFunctionOnSet(f, S) + SumFunctionOnSet(f, U)}
<1> SUFFICES ASSUME B # {} PROVE FALSE
  OBVIOUS
<1>1. PICK U \in B : \A V \in B : V \subseteq U => V = U
  <2>1. B \in SUBSET (SUBSET T)
    OBVIOUS
  <2> HIDE DEF B
  <2> QED
    BY <2>1, SmallestSubset
<1>2. /\ U \in SUBSET T /\ IsFiniteSet(U)
      /\ SumFunctionOnSet(f, S \cup U) # SumFunctionOnSet(f, S) + SumFunctionOnSet(f, U)
  BY FS_Subset
<1>3. SumFunctionOnSet(f, S) \in Int
  BY SumType
<1>4. U # {}
  <2>1. SUFFICES ASSUME U = {} PROVE FALSE
    OBVIOUS
  <2>2. S \cup U = S /\ SumFunctionOnSet(f, U) = 0
    BY <2>1, SumEmpty
  <2>3. SumFunctionOnSet(f, S \cup U) = SumFunctionOnSet(f, S)
    BY <2>2
  <2> HIDE DEF B
  <2> QED
    BY <1>2, <1>3, <2>2, <2>3
<1>5. PICK x : x \in U
  BY <1>4
<1> DEFINE R == U \ {x}
           W == S \cup U
<1>6. /\ R \in SUBSET T /\ R \subseteq U /\ R # U /\ IsFiniteSet(R)
      /\ W \ {x} = S \cup R /\ x \in W /\ x \in T
  <2>1. IsFiniteSet(R)
    BY <1>2, FS_Subset
  <2> QED
    BY <1>2, <1>5, <2>1
<1>7. SumFunctionOnSet(f, S \cup R) = SumFunctionOnSet(f, S) + SumFunctionOnSet(f, R)
  <2>1. R \notin B
    BY <1>1, <1>6
  <2> QED
    BY <1>6, <2>1
<1>8. SumFunctionOnSet(f, U) = f[x] + SumFunctionOnSet(f, R)
  <2>1. IntegerOn(f, U)
    BY <1>2 DEF IntegerOn
  <2> QED
    BY <1>2, <1>5, <2>1, SumWithout
<1>9. SumFunctionOnSet(f, W) = f[x] + SumFunctionOnSet(f, W \ {x})
  <2>1. IntegerOn(f, W) /\ IsFiniteSet(W)
    BY <1>2, FS_Union DEF IntegerOn
  <2> HIDE DEF W
  <2> QED
    BY <1>6, <2>1, SumWithout
<1>10. SumFunctionOnSet(f, R) \in Int /\ f[x] \in Int
  <2>1. IntegerOn(f, R)
    BY <1>6 DEF IntegerOn
  <2>2. f[x] \in Int
    BY <1>6 DEF IntegerOn
  <2> HIDE DEF R
  <2> QED
    BY <1>6, <2>1, <2>2, SumType
<1>11. SumFunctionOnSet(f, W \ {x}) = SumFunctionOnSet(f, S) + SumFunctionOnSet(f, R)
  BY <1>6, <1>7
<1>12. SumFunctionOnSet(f, W) # SumFunctionOnSet(f, S) + SumFunctionOnSet(f, U)
  BY <1>2
<1> HIDE DEF B, R, W
<1> QED
  BY <1>3, <1>8, <1>9, <1>10, <1>11, <1>12

\* Sums over two sets whose members correspond one to one.
Matches(b, S, T) ==
    /\ \A x \in S : b[x] \in T
    /\ \A x, y \in S : b[x] = b[y] => x = y
    /\ \A z \in T : \E x \in S : b[x] = z
Carried(f, g, b, S) == \A x \in S : f[x] = g[b[x]]
LEMMA SumMatched ==
    ASSUME NEW f, NEW g, NEW S, NEW T, NEW b, IsFiniteSet(S), IntegerOn(g, T), Matches(b, S, T),
           Carried(f, g, b, S)
    PROVE  SumFunctionOnSet(f, S) = SumFunctionOnSet(g, T)
<1> DEFINE Im(U) == {b[x] : x \in U}
           B == {U \in SUBSET S : SumFunctionOnSet(f, U) # SumFunctionOnSet(g, Im(U))}
<1>1. Im(S) = T
  BY DEF Matches
<1> SUFFICES ASSUME B # {} PROVE FALSE
  <2> HIDE DEF Im
  <2> QED
    BY <1>1
<1>2. PICK U \in B : \A V \in B : V \subseteq U => V = U
  <2>1. B \in SUBSET (SUBSET S)
    OBVIOUS
  <2> HIDE DEF B
  <2> QED
    BY <2>1, SmallestSubset
<1>3. U \in SUBSET S /\ IsFiniteSet(U) /\ SumFunctionOnSet(f, U) # SumFunctionOnSet(g, Im(U))
  BY FS_Subset
<1>4. U # {}
  <2>1. SUFFICES ASSUME U = {} PROVE FALSE
    OBVIOUS
  <2>2. Im(U) = {}
    BY <2>1
  <2> HIDE DEF Im
  <2> QED
    BY <1>3, <2>1, <2>2, SumEmpty
<1>5. PICK x : x \in U
  BY <1>4
<1> DEFINE R == U \ {x}
<1>6. R \in SUBSET S /\ R \subseteq U /\ R # U
  BY <1>3, <1>5
<1>7. SumFunctionOnSet(f, R) = SumFunctionOnSet(g, Im(R))
  <2>1. R \notin B
    BY <1>2, <1>6
  <2> HIDE DEF Im
  <2> QED
    BY <1>6, <2>1
<1>8. Im(R) = Im(U) \ {b[x]} /\ b[x] \in Im(U) /\ Im(U) \subseteq T
  BY <1>3, <1>5 DEF Matches
<1>9. IntegerOn(g, Im(U)) /\ IntegerOn(f, U)
  <2>1. IntegerOn(g, Im(U))
    <3> HIDE DEF Im
    <3> QED
      BY <1>8 DEF IntegerOn
  <2>2. IntegerOn(f, U)
    BY <1>3 DEF IntegerOn, Matches, Carried
  <2> QED
    BY <2>1, <2>2
<1>10. IsFiniteSet(Im(U))
  <2> DEFINE bu == [y \in U |-> b[y]]
  <2>1. bu \in Surjection(U, Im(U))
    BY Fun_IsSurj
  <2> HIDE DEF Im, bu
  <2> QED
    BY <1>3, <2>1, FS_Surjection
<1>11. SumFunctionOnSet(f, U) = f[x] + SumFunctionOnSet(f, R)
  BY <1>3, <1>5, <1>9, SumWithout
<1>12. SumFunctionOnSet(g, Im(U)) = g[b[x]] + SumFunctionOnSet(g, Im(U) \ {b[x]})
  <2> HIDE DEF Im
  <2> QED
    BY <1>8, <1>9, <1>10, SumWithout
<1>13. f[x] = g[b[x]]
  BY <1>3, <1>5 DEF Carried
<1> HIDE DEF B, R, Im
<1> QED
  BY <1>3, <1>7, <1>8, <1>11, <1>12, <1>13

\* A sum of no more than other values is no more than theirs.
LEMMA SumLeq ==
    ASSUME NEW f, NEW g, NEW S, IsFiniteSet(S), IntegerOn(f, S), IntegerOn(g, S),
           \A x \in S : f[x] <= g[x]
    PROVE  SumFunctionOnSet(f, S) <= SumFunctionOnSet(g, S)
<1> DEFINE h == [x \in S |-> g[x] - f[x]]
<1>1. IntegerOn(h, S) /\ (\A x \in S : g[x] = f[x] + h[x]) /\ (\A x \in S : h[x] \in Nat)
  BY DEF IntegerOn
<1> HIDE DEF h
<1>2. SumFunctionOnSet(g, S) = SumFunctionOnSet(f, S) + SumFunctionOnSet(h, S)
  BY <1>1, SumPlus
<1>3. SumFunctionOnSet(h, S) \in Nat /\ SumFunctionOnSet(f, S) \in Int
  BY <1>1, SumNatural, SumType
<1> QED
  BY <1>2, <1>3

\* Values of no more than a part of the set.
LEMMA SumPart ==
    ASSUME NEW f, NEW S, IsFiniteSet(S), \A x \in S : f[x] \in Nat, NEW T \in SUBSET S
    PROVE  /\ SumFunctionOnSet(f, S) = SumFunctionOnSet(f, T) + SumFunctionOnSet(f, S \ T)
           /\ SumFunctionOnSet(f, T) \in Nat /\ SumFunctionOnSet(f, S \ T) \in Nat
           /\ SumFunctionOnSet(f, T) <= SumFunctionOnSet(f, S)
<1>1. /\ IsFiniteSet(T) /\ IsFiniteSet(S \ T) /\ T \cup (S \ T) = S /\ T \cap (S \ T) = {}
      /\ IntegerOn(f, T) /\ IntegerOn(f, S \ T)
  BY FS_Subset DEF IntegerOn
<1>2. SumFunctionOnSet(f, T \cup (S \ T)) = SumFunctionOnSet(f, T) + SumFunctionOnSet(f, S \ T)
  BY <1>1, SumUnion
<1>3. SumFunctionOnSet(f, T) \in Nat /\ SumFunctionOnSet(f, S \ T) \in Nat
  BY <1>1, SumNatural
<1>4. SumFunctionOnSet(f, S) = SumFunctionOnSet(f, T) + SumFunctionOnSet(f, S \ T)
  BY <1>1, <1>2
<1> QED
  BY <1>3, <1>4

LEMMA SumOne ==
    ASSUME NEW f, NEW x, f[x] \in Int
    PROVE  SumFunctionOnSet(f, {x}) = f[x]
<1>1. IsFiniteSet({x}) /\ IntegerOn(f, {x}) /\ {x} \ {x} = {}
  BY FS_Singleton DEF IntegerOn
<1>2. SumFunctionOnSet(f, {x}) = f[x] + SumFunctionOnSet(f, {x} \ {x})
  BY <1>1, SumWithout
<1> QED
  BY <1>1, <1>2, SumEmpty

\* The sum of the first members of a row, one more at a time.
LEMMA SumRow ==
    ASSUME NEW f, NEW n \in Nat, \A k \in 1..(n + 1) : f[k] \in Int
    PROVE  SumFunctionOnSet(f, 1..(n + 1)) = SumFunctionOnSet(f, 1..n) + f[n + 1]
<1>1. /\ IsFiniteSet(1..(n + 1)) /\ IntegerOn(f, 1..(n + 1)) /\ n + 1 \in 1..(n + 1)
      /\ (1..(n + 1)) \ {n + 1} = 1..n /\ IsFiniteSet(1..n) /\ IntegerOn(f, 1..n)
  BY FS_Interval DEF IntegerOn
<1>2. SumFunctionOnSet(f, 1..(n + 1)) = f[n + 1] + SumFunctionOnSet(f, (1..(n + 1)) \ {n + 1})
  BY <1>1, SumWithout
<1>3. SumFunctionOnSet(f, 1..n) \in Int /\ f[n + 1] \in Int
  BY <1>1, SumType
<1>4. SumFunctionOnSet(f, (1..(n + 1)) \ {n + 1}) = SumFunctionOnSet(f, 1..n)
  BY <1>1
<1> QED
  BY <1>2, <1>3, <1>4

\* The smallest of some natural numbers.
LEMMA SmallestNumber ==
    ASSUME NEW B \in SUBSET Nat, B # {}
    PROVE  \E n \in B : \A m \in B : n <= m
<1>1. PICK b \in B : TRUE
  OBVIOUS
<1> DEFINE C == {1..m : m \in {k \in B : k <= b}}
<1>2. PICK T \in C : \A U \in C : U \subseteq T => U = T
  <2> DEFINE S == 1..b
  <2>1. b \in Nat /\ b \in {k \in B : k <= b}
    OBVIOUS
  <2>2. IsFiniteSet(S)
    BY <2>1, FS_Interval
  <2>3. 1..b \in C
    BY <2>1
  <2>4. ASSUME NEW T \in C PROVE T \subseteq S
    <3>1. PICK m \in B : m <= b /\ T = 1..m
      BY <2>4
    <3> QED
      BY <2>1, <3>1
  <2>5. C \in SUBSET (SUBSET S) /\ C # {}
    BY <2>3, <2>4
  <2> HIDE DEF C, S
  <2> QED
    BY <2>2, <2>5, SmallestSubset
<1>3. PICK n \in B : n <= b /\ T = 1..n
  OBVIOUS
<1>4. ASSUME NEW m \in B PROVE n <= m
  <2> SUFFICES ASSUME m < n PROVE FALSE
    OBVIOUS
  <2>1. 1..m \in C /\ 1..m \subseteq T /\ n \in T /\ n \notin 1..m
    BY <1>3
  <2> QED
    BY <1>2, <2>1
<1> QED
  BY <1>4

\* The members of a finite set in the order of a chain of its subsets, one up
\* to each member: the k-th is the one with k members up to it.
Chain(up, S) ==
    /\ \A x \in S : up[x] \subseteq S /\ x \in up[x]
    /\ \A x, y \in S : x # y => up[x] # up[y] /\ (up[x] \subseteq up[y] \/ up[y] \subseteq up[x])
LEMMA ChainIsRanked ==
    ASSUME NEW S, IsFiniteSet(S), NEW up, Chain(up, S)
    PROVE  /\ Cardinality(S) \in Nat
           /\ \A x \in S : Cardinality(up[x]) \in 1..Cardinality(S)
           /\ \A x, y \in S : Cardinality(up[x]) = Cardinality(up[y]) => x = y
           /\ \A k \in 1..Cardinality(S) : \E x \in S : Cardinality(up[x]) = k
<1> DEFINE n == Cardinality(S)
           r == [x \in S |-> Cardinality(up[x])]
<1>1. n \in Nat
  BY FS_CardinalityType
<1>2. ASSUME NEW x \in S PROVE r[x] \in 1..n /\ IsFiniteSet(up[x])
  <2>1. up[x] \in SUBSET S /\ x \in up[x]
    BY DEF Chain
  <2>2. IsFiniteSet(up[x]) /\ Cardinality(up[x]) <= n
    BY <2>1, FS_Subset
  <2>3. Cardinality(up[x]) \in Nat /\ Cardinality(up[x]) # 0
    BY <2>1, <2>2, FS_CardinalityType, FS_EmptySet
  <2> HIDE DEF n
  <2> QED
    BY <1>1, <2>2, <2>3
<1>3. ASSUME NEW x \in S, NEW y \in S, x # y, up[x] \subseteq up[y] PROVE r[x] # r[y]
  <2>1. up[x] # up[y]
    BY <1>3 DEF Chain
  <2>2. IsFiniteSet(up[y]) /\ up[x] \in SUBSET up[y]
    BY <1>2, <1>3
  <2>3. Cardinality(up[y]) = Cardinality(up[x]) => up[y] = up[x]
    BY <2>2, FS_Subset
  <2> QED
    BY <2>1, <2>3
<1>4. ASSUME NEW x \in S, NEW y \in S, r[x] = r[y] PROVE x = y
  <2>1. SUFFICES ASSUME x # y PROVE FALSE
    OBVIOUS
  <2>2. up[x] \subseteq up[y] \/ up[y] \subseteq up[x]
    BY <2>1 DEF Chain
  <2> HIDE DEF r
  <2> QED
    BY <1>3, <1>4, <2>1, <2>2
<1>5. r \in Surjection(S, 1..n)
  <2>1. r \in [S -> 1..n]
    BY <1>2
  <2>2. r \in Injection(S, 1..n)
    <3> HIDE DEF r
    <3> QED
      BY <1>4, <2>1 DEF Injection, IsInjective
  <2>3. IsFiniteSet(1..n) /\ Cardinality(1..n) = n
    <3> HIDE DEF n
    <3> QED
      BY <1>1, FS_Interval
  <2> QED
    BY <2>2, <2>3, FS_Injection
<1>6. ASSUME NEW k \in 1..n PROVE \E x \in S : Cardinality(up[x]) = k
  <2>1. \E x \in S : r[x] = k
    BY <1>5 DEF Surjection
  <2> QED
    BY <2>1
<1> QED
  BY <1>1, <1>2, <1>4, <1>6

-----------------------------------------------------------------------------
(* The invariant. *)

\* The payments on a debt, and those made from a transfer.
On(ps, d) == {p \in DOMAIN ps : ps[p].debt = d}
From(ps, t) == {p \in DOMAIN ps : ps[p].transfer = t}
Off(ps, t) == {p \in DOMAIN ps : ps[p].transfer = t /\ ps[p].reversed}

\* Payments are on debts and from transfers that exist, and what is decided of
\* one is no more than it came to.
Linked(ds, ps, ts) ==
    \A p \in DOMAIN ps :
        /\ ps[p].debt \in DOMAIN ds /\ ps[p].transfer \in 0..Len(ts)
        /\ ps[p].decided <= ps[p].amount /\ (ps[p].transfer = 0 => ps[p].decided = 0)

\* PaidIsAllocated, of one debt.
Allocated(ds, ps, d) ==
    /\ ds[d].paid = WorthOf(ps, Active(ps, d))
    /\ IF ds[d].status \notin {"cancelled", "deleted"}
       THEN ds[d].paid <= ds[d].amount /\ (ds[d].status = "settled" <=> ds[d].paid = ds[d].amount)
       ELSE ds[d].paid = 0

\* What was made of a transfer is its amount and the credit used again, no more
\* credit went than there was, and its events are those of its payments.
Decided(ps) == [p \in DOMAIN ps |-> ps[p].decided]
Spent(ps, ts, t) ==
    /\ WorthOf(ps, From(ps, t)) = ts[t].amount + ts[t].used
    /\ ts[t].used + ts[t].refunded + ts[t].wrong <= ts[t].credited
    /\ SumFunctionOnSet(Decided(ps), Off(ps, t)) = ts[t].credited + ts[t].refundedFrom + ts[t].wrongFrom

-----------------------------------------------------------------------------
(* Rows in order. *)

LEMMA InOrderIs ==
    ASSUME NEW S \in SUBSET Int, IsFiniteSet(S)
    PROVE  /\ DOMAIN InOrder(S) = 1..Cardinality(S) /\ Cardinality(S) \in Nat
           /\ Matches(InOrder(S), 1..Cardinality(S), S)
           /\ \A k \in 1..Cardinality(S) : Cardinality({y \in S : y <= InOrder(S)[k]}) = k
<1> DEFINE upTo(x) == {y \in S : y <= x}
           up == [x \in S |-> upTo(x)]
           o == InOrder(S)
           n == Cardinality(S)
<1>1. Chain(up, S)
  <2>1. ASSUME NEW x \in S PROVE up[x] \subseteq S /\ x \in up[x] /\ up[x] = upTo(x)
    OBVIOUS
  <2>2. ASSUME NEW x \in S, NEW y \in S, x < y PROVE upTo(x) \subseteq upTo(y) /\ y \notin upTo(x)
    <3>1. y \notin upTo(x)
      BY <2>2
    <3>2. ASSUME NEW z \in upTo(x) PROVE z \in upTo(y)
      BY <2>2
    <3> QED
      BY <3>1, <3>2
  <2>3. ASSUME NEW x \in S, NEW y \in S, x # y PROVE x < y \/ y < x
    BY <2>3
  <2> HIDE DEF up, upTo
  <2> QED
    BY <2>1, <2>2, <2>3 DEF Chain
<1>2. ASSUME NEW x \in S PROVE Cardinality(up[x]) = Cardinality(upTo(x))
  OBVIOUS
<1> HIDE DEF up, upTo, o
<1>3. /\ n \in Nat
      /\ \A x \in S : Cardinality(upTo(x)) \in 1..n
      /\ \A x, y \in S : Cardinality(upTo(x)) = Cardinality(upTo(y)) => x = y
      /\ \A k \in 1..n : \E x \in S : Cardinality(upTo(x)) = k
  <2>1. /\ n \in Nat
        /\ \A x \in S : Cardinality(up[x]) \in 1..n
        /\ \A x, y \in S : Cardinality(up[x]) = Cardinality(up[y]) => x = y
        /\ \A k \in 1..n : \E x \in S : Cardinality(up[x]) = k
    BY <1>1, ChainIsRanked
  <2> HIDE DEF n
  <2> QED
    BY <1>2, <2>1
<1> HIDE DEF n
<1>4. o = [k \in 1..n |-> CHOOSE x \in S : Cardinality(upTo(x)) = k]
  BY DEF InOrder, upTo, o, n
<1>5. ASSUME NEW k \in 1..n PROVE o[k] \in S /\ Cardinality(upTo(o[k])) = k
  BY <1>3, <1>4
<1>6. Matches(o, 1..n, S)
  BY <1>3, <1>5 DEF Matches
<1>7. \A k \in 1..n : Cardinality({y \in S : y <= o[k]}) = k
  BY <1>5 DEF upTo
<1>8. DOMAIN o = 1..n
  BY <1>4
<1> QED
  BY <1>3, <1>6, <1>7, <1>8 DEF o, n

LEMMA RowByRowIs ==
    ASSUME NEW S \in SUBSET (Int \X Int), IsFiniteSet(S)
    PROVE  /\ DOMAIN RowByRow(S) = 1..Cardinality(S) /\ Cardinality(S) \in Nat
           /\ Matches(RowByRow(S), 1..Cardinality(S), S)
<1> DEFINE upTo(x) == {y \in S : y[1] < x[1] \/ (y[1] = x[1] /\ y[2] <= x[2])}
           up == [x \in S |-> upTo(x)]
           o == RowByRow(S)
           n == Cardinality(S)
<1>1. Chain(up, S)
  <2>1. ASSUME NEW x \in S PROVE up[x] \subseteq S /\ x \in up[x] /\ up[x] = upTo(x)
    OBVIOUS
  <2>2. ASSUME NEW x \in S, NEW y \in S,
               x[1] < y[1] \/ (x[1] = y[1] /\ x[2] < y[2])
        PROVE  upTo(x) \subseteq upTo(y) /\ y \notin upTo(x)
    <3>1. x[1] \in Int /\ x[2] \in Int /\ y[1] \in Int /\ y[2] \in Int
      OBVIOUS
    <3>2. y \notin upTo(x)
      BY <2>2, <3>1
    <3>3. ASSUME NEW z \in upTo(x) PROVE z \in upTo(y)
      <4>1. z \in S /\ z[1] \in Int /\ z[2] \in Int
        OBVIOUS
      <4>2. z[1] < x[1] \/ (z[1] = x[1] /\ z[2] <= x[2])
        OBVIOUS
      <4>3. z[1] < y[1] \/ (z[1] = y[1] /\ z[2] <= y[2])
        BY <2>2, <3>1, <4>1, <4>2
      <4> QED
        BY <4>1, <4>3
    <3> QED
      BY <3>2, <3>3
  <2>3. ASSUME NEW x \in S, NEW y \in S, x # y
        PROVE  \/ x[1] < y[1] \/ (x[1] = y[1] /\ x[2] < y[2])
               \/ y[1] < x[1] \/ (y[1] = x[1] /\ y[2] < x[2])
    <3>1. /\ x[1] \in Int /\ x[2] \in Int /\ y[1] \in Int /\ y[2] \in Int
          /\ x = <<x[1], x[2]>> /\ y = <<y[1], y[2]>>
      OBVIOUS
    <3>2. x[1] # y[1] \/ x[2] # y[2]
      BY <2>3, <3>1
    <3> QED
      BY <3>1, <3>2
  <2> HIDE DEF up, upTo
  <2> QED
    BY <2>1, <2>2, <2>3 DEF Chain
<1>2. ASSUME NEW x \in S PROVE Cardinality(up[x]) = Cardinality(upTo(x))
  OBVIOUS
<1> HIDE DEF up, upTo, o
<1>3. /\ n \in Nat
      /\ \A x \in S : Cardinality(upTo(x)) \in 1..n
      /\ \A x, y \in S : Cardinality(upTo(x)) = Cardinality(upTo(y)) => x = y
      /\ \A k \in 1..n : \E x \in S : Cardinality(upTo(x)) = k
  BY <1>1, <1>2, ChainIsRanked
<1> HIDE DEF n
<1>4. o = [k \in 1..n |-> CHOOSE x \in S : Cardinality(upTo(x)) = k]
  BY DEF RowByRow, upTo, o, n
<1>5. ASSUME NEW k \in 1..n PROVE o[k] \in S /\ Cardinality(upTo(o[k])) = k
  BY <1>3, <1>4
<1>6. Matches(o, 1..n, S)
  BY <1>3, <1>5 DEF Matches
<1>7. DOMAIN o = 1..n
  BY <1>4
<1> QED
  BY <1>3, <1>6, <1>7 DEF o, n

-----------------------------------------------------------------------------
(* An amount over a row of sizes, one after the other. *)

LEMMA BeforeFirst == ASSUME NEW sizes PROVE Before(sizes, 1) = 0
<1>1. 1..(1 - 1) = {}
  OBVIOUS
<1> QED
  BY <1>1, SumEmpty DEF Before

LEMMA BeforeNext ==
    ASSUME NEW sizes, NEW n \in Nat, \A k \in 1..(n + 1) : sizes[k] \in Nat
    PROVE  /\ Before(sizes, n + 1) \in Nat /\ Before(sizes, n + 1) = SumFunctionOnSet(sizes, 1..n)
           /\ Before(sizes, n + 2) = Before(sizes, n + 1) + sizes[n + 1]
<1>1. (n + 1) - 1 = n /\ (n + 2) - 1 = n + 1 /\ \A k \in 1..n : sizes[k] \in Nat
  OBVIOUS
<1>2. SumFunctionOnSet(sizes, 1..n) \in Nat
  <2>1. IsFiniteSet(1..n)
    BY FS_Interval
  <2> QED
    BY <1>1, <2>1, SumNatural
<1>3. SumFunctionOnSet(sizes, 1..(n + 1)) = SumFunctionOnSet(sizes, 1..n) + sizes[n + 1]
  BY SumRow
<1> QED
  BY <1>1, <1>2, <1>3 DEF Before

\* What falls on each is no more than its size, and all of it falls that fits.
LEMMA SharesAdd ==
    ASSUME NEW n \in Nat, NEW sizes, \A k \in 1..n : sizes[k] \in Nat, NEW amount \in Nat,
           NEW shares, \A k \in 1..n : shares[k] = Share(sizes, amount, k)
    PROVE  /\ \A k \in 1..n : shares[k] \in Nat /\ shares[k] <= sizes[k]
           /\ SumFunctionOnSet(shares, 1..n) = Lowest(amount, SumFunctionOnSet(sizes, 1..n))
<1>1. ASSUME NEW m \in Nat, m + 1 \in 1..n
      PROVE  /\ Before(sizes, m + 1) \in Nat /\ sizes[m + 1] \in Nat
             /\ shares[m + 1] = Lowest(sizes[m + 1], Highest(0, amount - Before(sizes, m + 1)))
             /\ SumFunctionOnSet(sizes, 1..m) = Before(sizes, m + 1)
             /\ SumFunctionOnSet(sizes, 1..(m + 1)) = Before(sizes, m + 1) + sizes[m + 1]
  <2>1. \A k \in 1..(m + 1) : sizes[k] \in Nat
    BY <1>1
  <2>2. SumFunctionOnSet(sizes, 1..(m + 1)) = SumFunctionOnSet(sizes, 1..m) + sizes[m + 1]
    BY <2>1, SumRow
  <2>3. /\ Before(sizes, m + 1) \in Nat /\ Before(sizes, m + 1) = SumFunctionOnSet(sizes, 1..m)
    BY <2>1, BeforeNext
  <2> QED
    BY <1>1, <2>2, <2>3 DEF Share
<1>2. ASSUME NEW k \in 1..n PROVE shares[k] \in Nat /\ shares[k] <= sizes[k]
  <2>1. PICK m \in Nat : k = m + 1
    <3>1. k - 1 \in Nat /\ k = (k - 1) + 1
      OBVIOUS
    <3> QED
      BY <3>1
  <2>2. m + 1 \in 1..n
    BY <2>1
  <2>3. /\ Before(sizes, m + 1) \in Nat /\ sizes[m + 1] \in Nat
        /\ shares[m + 1] = Lowest(sizes[m + 1], Highest(0, amount - Before(sizes, m + 1)))
    BY <1>1, <2>2
  <2> QED
    BY <2>1, <2>3 DEF Lowest, Highest
<1> DEFINE S(m) == SumFunctionOnSet(shares, 1..m)
           Z(m) == SumFunctionOnSet(sizes, 1..m)
           B == {m \in 0..n : S(m) # Lowest(amount, Z(m))}
<1>3. S(0) = 0 /\ Z(0) = 0
  <2>1. 1..0 = {}
    OBVIOUS
  <2> QED
    BY <2>1, SumEmpty
<1>4. ASSUME NEW m \in Nat, m + 1 \in 1..n, S(m) = Lowest(amount, Z(m)) PROVE S(m + 1) = Lowest(amount, Z(m + 1))
  <2>1. \A k \in 1..(m + 1) : shares[k] \in Int
    BY <1>2, <1>4
  <2>2. S(m + 1) = S(m) + shares[m + 1]
    BY <2>1, SumRow
  <2>3. /\ Before(sizes, m + 1) \in Nat /\ sizes[m + 1] \in Nat
        /\ shares[m + 1] = Lowest(sizes[m + 1], Highest(0, amount - Before(sizes, m + 1)))
        /\ Z(m) = Before(sizes, m + 1) /\ Z(m + 1) = Before(sizes, m + 1) + sizes[m + 1]
    BY <1>1, <1>4
  <2> HIDE DEF S, Z
  <2> QED
    BY <1>4, <2>2, <2>3 DEF Lowest, Highest
<1>5. B = {}
  <2> SUFFICES ASSUME B # {} PROVE FALSE
    OBVIOUS
  <2>1. B \in SUBSET Nat
    OBVIOUS
  <2>2. PICK m \in B : \A k \in B : m <= k
    <3> HIDE DEF B
    <3> QED
      BY <2>1, SmallestNumber
  <2>3. m \in 0..n /\ S(m) # Lowest(amount, Z(m))
    OBVIOUS
  <2>4. m # 0
    <3> HIDE DEF S, Z
    <3> QED
      BY <1>3, <2>3 DEF Lowest
  <2>5. m - 1 \in Nat /\ (m - 1) + 1 = m /\ (m - 1) + 1 \in 1..n /\ m - 1 \in 0..n
    BY <2>3, <2>4
  <2>6. S(m - 1) = Lowest(amount, Z(m - 1))
    <3>1. m - 1 \notin B
      <4> HIDE DEF B
      <4> QED
        BY <2>2, <2>5
    <3> QED
      BY <2>5, <3>1
  <2>7. S((m - 1) + 1) = Lowest(amount, Z((m - 1) + 1))
    <3> HIDE DEF S, Z
    <3> QED
      BY <1>4, <2>5, <2>6
  <2> HIDE DEF S, Z
  <2> QED
    BY <2>3, <2>5, <2>7
<1>6. S(n) = Lowest(amount, Z(n))
  <2> HIDE DEF S, Z
  <2> QED
    BY <1>5
<1> QED
  BY <1>2, <1>6

\* What a stretch has in common with those of a row is no more than its length.
Common(common, held, n, lo, hi) ==
    /\ \A k \in 1..n : held[k] \in Nat
    /\ \A k \in 1..n : common[k] =
          Highest(0, Lowest(hi, Before(held, k) + held[k]) - Highest(lo, Before(held, k)))
LEMMA OverlapsAdd ==
    ASSUME NEW n \in Nat, NEW held, NEW lo \in Int, NEW hi \in Int, NEW common, Common(common, held, n, lo, hi)
    PROVE  /\ \A k \in 1..n : common[k] \in Nat
           /\ SumFunctionOnSet(common, 1..n) \in Nat /\ SumFunctionOnSet(common, 1..n) <= Highest(0, hi - lo)
<1> USE DEF Common
<1>1. ASSUME NEW m \in Nat, m + 1 \in 1..n
      PROVE  /\ Before(held, m + 1) \in Nat /\ held[m + 1] \in Nat
             /\ Before(held, m + 2) = Before(held, m + 1) + held[m + 1]
             /\ common[m + 1] = Highest(0, Lowest(hi, Before(held, m + 1) + held[m + 1])
                                               - Highest(lo, Before(held, m + 1)))
  <2>1. \A k \in 1..(m + 1) : held[k] \in Nat
    BY <1>1
  <2>2. Before(held, m + 1) \in Nat /\ Before(held, m + 2) = Before(held, m + 1) + held[m + 1]
    BY <2>1, BeforeNext
  <2> QED
    BY <1>1, <2>2
<1>2. ASSUME NEW k \in 1..n PROVE common[k] \in Nat
  <2>1. PICK m \in Nat : k = m + 1
    <3>1. k - 1 \in Nat /\ k = (k - 1) + 1
      OBVIOUS
    <3> QED
      BY <3>1
  <2> QED
    BY <1>1, <2>1 DEF Lowest, Highest
<1> DEFINE S(m) == SumFunctionOnSet(common, 1..m)
           within(m) == S(m) \in Nat /\ S(m) <= Highest(0, Lowest(hi, Before(held, m + 1)) - lo)
           B == {m \in 0..n : ~ within(m)}
<1>3. within(0)
  <2>1. 1..0 = {} /\ 0 + 1 = 1
    OBVIOUS
  <2>2. S(0) = 0 /\ Before(held, 0 + 1) = 0
    BY <2>1, SumEmpty, BeforeFirst
  <2> HIDE DEF S
  <2> QED
    BY <2>2 DEF Highest, Lowest
<1>4. ASSUME NEW m \in Nat, m + 1 \in 1..n, within(m) PROVE within(m + 1)
  <2>1. \A k \in 1..(m + 1) : common[k] \in Int
    BY <1>2, <1>4
  <2>2. S(m + 1) = S(m) + common[m + 1]
    BY <2>1, SumRow
  <2>3. /\ Before(held, m + 1) \in Nat /\ held[m + 1] \in Nat /\ (m + 1) + 1 = m + 2
        /\ Before(held, m + 2) = Before(held, m + 1) + held[m + 1]
        /\ common[m + 1] = Highest(0, Lowest(hi, Before(held, m + 1) + held[m + 1])
                                               - Highest(lo, Before(held, m + 1)))
    BY <1>1, <1>4
  <2> HIDE DEF S
  <2> QED
    BY <1>4, <2>2, <2>3 DEF Lowest, Highest
<1>5. B = {}
  <2> SUFFICES ASSUME B # {} PROVE FALSE
    OBVIOUS
  <2>1. B \in SUBSET Nat
    OBVIOUS
  <2>2. PICK m \in B : \A k \in B : m <= k
    <3> HIDE DEF B
    <3> QED
      BY <2>1, SmallestNumber
  <2>3. m \in 0..n /\ ~ within(m)
    OBVIOUS
  <2>4. m # 0
    <3> HIDE DEF within
    <3> QED
      BY <1>3, <2>3
  <2>5. m - 1 \in Nat /\ (m - 1) + 1 = m /\ (m - 1) + 1 \in 1..n /\ m - 1 \in 0..n
    BY <2>3, <2>4
  <2>6. within(m - 1)
    <3>1. m - 1 \notin B
      <4> HIDE DEF B
      <4> QED
        BY <2>2, <2>5
    <3> HIDE DEF within
    <3> QED
      BY <2>5, <3>1
  <2>7. within((m - 1) + 1)
    <3> HIDE DEF within
    <3> QED
      BY <1>4, <2>5, <2>6
  <2> HIDE DEF within
  <2> QED
    BY <2>3, <2>5, <2>7
<1>6. within(n)
  <2> HIDE DEF within
  <2> QED
    BY <1>5
<1>7. Before(held, n + 1) \in Nat
  <2>1. (n + 1) - 1 = n
    OBVIOUS
  <2>2. IsFiniteSet(1..n)
    BY FS_Interval
  <2>3. SumFunctionOnSet(held, 1..n) \in Nat
    BY <2>2, SumNatural
  <2> QED
    BY <2>1, <2>3 DEF Before
<1>8. S(n) \in Nat /\ S(n) <= Highest(0, hi - lo)
  <2> HIDE DEF S
  <2> QED
    BY <1>6, <1>7 DEF Highest, Lowest
<1> QED
  BY <1>2, <1>8

-----------------------------------------------------------------------------
(* Sums over payments. *)

LEMMA WorthIs ==
    ASSUME NEW ps \in Seq(PaymentRecord), NEW S \in SUBSET DOMAIN ps
    PROVE  /\ IsFiniteSet(S) /\ DOMAIN ps = 1..Len(ps) /\ Len(ps) \in Nat
           /\ \A p \in S : Worth(ps)[p] = ps[p].amount /\ ps[p].amount \in Nat \ {0}
           /\ \A p \in S : Worth(ps)[p] \in Nat
           /\ IntegerOn(Worth(ps), S) /\ WorthOf(ps, S) \in Nat
<1>1. DOMAIN ps = 1..Len(ps) /\ Len(ps) \in Nat /\ \A p \in DOMAIN ps : ps[p] \in PaymentRecord
  BY LenProperties, ElementOfSeq
<1>2. IsFiniteSet(1..Len(ps))
  BY <1>1, FS_Interval
<1>3. IsFiniteSet(S)
  BY <1>1, <1>2, FS_Subset
<1>4. \A p \in S : Worth(ps)[p] = ps[p].amount /\ ps[p].amount \in Nat \ {0}
  BY <1>1 DEF Worth, PaymentRecord
<1>5. (\A p \in S : Worth(ps)[p] \in Nat) /\ IntegerOn(Worth(ps), S)
  BY <1>4 DEF IntegerOn
<1>6. WorthOf(ps, S) \in Nat
  BY <1>3, <1>5, SumNatural DEF WorthOf
<1> QED
  BY <1>1, <1>3, <1>4, <1>5, <1>6

\* The rows of a sequence put after another.
After(n, T) == {n + k : k \in T}
Continues(h, f, S, g, T, n) ==
    /\ \A p \in S : h[p] = f[p]
    /\ \A k \in T : h[n + k] = g[k]
LEMMA SumAfter ==
    ASSUME NEW f, NEW g, NEW h, NEW n \in Nat, NEW S \in SUBSET (1..n), NEW T \in SUBSET (Nat \ {0}),
           IsFiniteSet(T), IntegerOn(f, S), IntegerOn(g, T),
           Continues(h, f, S, g, T, n)
    PROVE  SumFunctionOnSet(h, S \cup After(n, T)) = SumFunctionOnSet(f, S) + SumFunctionOnSet(g, T)
<1>1. IsFiniteSet(S)
  <2>1. IsFiniteSet(1..n)
    BY FS_Interval
  <2> QED
    BY <2>1, FS_Subset
<1> DEFINE b == [k \in T |-> n + k]
           U == After(n, T)
<1>2. Matches(b, T, U)
  BY DEF Matches, After
<1>3. IsFiniteSet(U)
  <2>1. b \in Surjection(T, U)
    BY Fun_IsSurj DEF After
  <2> HIDE DEF b, U
  <2> QED
    BY <2>1, FS_Surjection
<1>4. S \cap U = {}
  BY DEF After
<1>5. Carried(g, h, b, T)
  BY DEF Carried, Continues
<1>6. IntegerOn(h, S) /\ IntegerOn(h, U)
  BY DEF IntegerOn, After, Continues
<1> HIDE DEF b, U
<1>7. SumFunctionOnSet(h, S \cup U) = SumFunctionOnSet(h, S) + SumFunctionOnSet(h, U)
  BY <1>1, <1>3, <1>4, <1>6, SumUnion
<1>8. SumFunctionOnSet(h, S) = SumFunctionOnSet(f, S)
  BY <1>1, SumSame DEF Continues
<1>9. SumFunctionOnSet(g, T) = SumFunctionOnSet(h, U)
  BY <1>2, <1>5, <1>6, SumMatched
<1> QED
  BY <1>7, <1>8, <1>9 DEF U

LEMMA JoinIs ==
    ASSUME NEW R, NEW ps \in Seq(R), NEW new \in Seq(R)
    PROVE  /\ ps \o new \in Seq(R) /\ Len(ps \o new) = Len(ps) + Len(new)
           /\ DOMAIN (ps \o new) = DOMAIN ps \cup After(Len(ps), DOMAIN new)
           /\ \A p \in DOMAIN ps : (ps \o new)[p] = ps[p]
           /\ \A k \in DOMAIN new : (ps \o new)[Len(ps) + k] = new[k]
           /\ DOMAIN ps = 1..Len(ps) /\ DOMAIN new = 1..Len(new) /\ Len(ps) \in Nat /\ Len(new) \in Nat
<1>1. DOMAIN ps = 1..Len(ps) /\ DOMAIN new = 1..Len(new) /\ Len(ps) \in Nat /\ Len(new) \in Nat
  BY LenProperties
<1>2. /\ ps \o new \in Seq(R) /\ Len(ps \o new) = Len(ps) + Len(new)
      /\ \A i \in 1..Len(ps) + Len(new) :
            (ps \o new)[i] = IF i <= Len(ps) THEN ps[i] ELSE new[i - Len(ps)]
  BY ConcatProperties
<1>3. DOMAIN (ps \o new) = 1..(Len(ps) + Len(new))
  BY <1>2, LenProperties
<1>4. ASSUME NEW i \in 1..(Len(ps) + Len(new)), i \notin 1..Len(ps)
      PROVE  i \in After(Len(ps), 1..Len(new))
  <2>1. i - Len(ps) \in 1..Len(new) /\ i = Len(ps) + (i - Len(ps))
    BY <1>1, <1>4
  <2> QED
    BY <2>1 DEF After
<1>5. 1..(Len(ps) + Len(new)) = 1..Len(ps) \cup After(Len(ps), 1..Len(new))
  <2>1. After(Len(ps), 1..Len(new)) \subseteq 1..(Len(ps) + Len(new))
    BY <1>1 DEF After
  <2>2. 1..Len(ps) \subseteq 1..(Len(ps) + Len(new))
    BY <1>1
  <2> QED
    BY <1>4, <2>1, <2>2
<1>6. \A p \in 1..Len(ps) : (ps \o new)[p] = ps[p]
  BY <1>1, <1>2
<1>7. ASSUME NEW k \in 1..Len(new) PROVE (ps \o new)[Len(ps) + k] = new[k]
  <2>1. Len(ps) + k \in 1..Len(ps) + Len(new) /\ ~ (Len(ps) + k <= Len(ps)) /\ (Len(ps) + k) - Len(ps) = k
    BY <1>1
  <2> QED
    BY <1>2, <2>1
<1> QED
  BY <1>1, <1>2, <1>3, <1>5, <1>6, <1>7

LEMMA WorthJoined ==
    ASSUME NEW ps \in Seq(PaymentRecord), NEW new \in Seq(PaymentRecord),
           NEW S \in SUBSET DOMAIN ps, NEW T \in SUBSET DOMAIN new
    PROVE  WorthOf(ps \o new, S \cup After(Len(ps), T)) = WorthOf(ps, S) + WorthOf(new, T)
<1> DEFINE n == Len(ps)
           f == Worth(ps)
           g == Worth(new)
           h == Worth(ps \o new)
<1>1. /\ ps \o new \in Seq(PaymentRecord)
      /\ DOMAIN (ps \o new) = DOMAIN ps \cup After(n, DOMAIN new)
      /\ \A p \in DOMAIN ps : (ps \o new)[p] = ps[p]
      /\ \A k \in DOMAIN new : (ps \o new)[n + k] = new[k]
      /\ DOMAIN ps = 1..n /\ DOMAIN new = 1..Len(new) /\ n \in Nat /\ Len(new) \in Nat
  BY JoinIs
<1>2. \A p \in S : h[p] = f[p]
  BY <1>1 DEF Worth
<1>3. ASSUME NEW k \in T PROVE h[n + k] = g[k]
  <2>1. n + k \in DOMAIN (ps \o new)
    BY <1>1 DEF After
  <2> QED
    BY <1>1, <2>1 DEF Worth
<1>4. IntegerOn(f, S) /\ IntegerOn(g, T) /\ IsFiniteSet(T)
  BY WorthIs
<1>5. S \in SUBSET (1..n) /\ T \in SUBSET (Nat \ {0})
  BY <1>1
<1>6. n \in Nat
  BY <1>1
<1> HIDE DEF n, f, g, h
<1>7. Continues(h, f, S, g, T, n)
  BY <1>2, <1>3 DEF Continues
<1>8. SumFunctionOnSet(h, S \cup After(n, T)) = SumFunctionOnSet(f, S) + SumFunctionOnSet(g, T)
  BY <1>4, <1>5, <1>6, <1>7, SumAfter
<1> QED
  BY <1>8 DEF WorthOf, f, g, h, n

-----------------------------------------------------------------------------
(* Payments that are added. *)

Fresh(new) == \A k \in DOMAIN new : ~new[k].reversed /\ new[k].decided = 0

LEMMA SetsJoined ==
    ASSUME NEW ps \in Seq(PaymentRecord), NEW new \in Seq(PaymentRecord), Fresh(new), NEW x
    PROVE  /\ Active(ps \o new, x) = Active(ps, x) \cup After(Len(ps), On(new, x))
           /\ From(ps \o new, x) = From(ps, x) \cup After(Len(ps), From(new, x))
           /\ Off(ps \o new, x) = Off(ps, x)
<1> DEFINE j == ps \o new
           n == Len(ps)
<1>1. /\ DOMAIN j = DOMAIN ps \cup After(n, DOMAIN new)
      /\ \A p \in DOMAIN ps : j[p] = ps[p]
      /\ \A k \in DOMAIN new : j[n + k] = new[k]
      /\ DOMAIN ps = 1..n /\ DOMAIN new = 1..Len(new) /\ n \in Nat /\ Len(new) \in Nat
  BY JoinIs
<1>2. ASSUME NEW q \in DOMAIN j
      PROVE  \/ q \in DOMAIN ps /\ j[q] = ps[q]
             \/ \E k \in DOMAIN new : q = n + k /\ j[q] = new[k]
  <2> HIDE DEF j
  <2> QED
    BY <1>1 DEF After
<1>3. ASSUME NEW k \in DOMAIN new PROVE n + k \in DOMAIN j /\ j[n + k] = new[k] /\ n + k \notin DOMAIN ps
  <2> HIDE DEF j
  <2> QED
    BY <1>1 DEF After
<1>4. ASSUME NEW k \in DOMAIN new PROVE ~new[k].reversed
  BY DEF Fresh
<1> HIDE DEF j, n
<1>5. Active(j, x) = Active(ps, x) \cup After(n, On(new, x))
  <2>1. ASSUME NEW q \in Active(j, x) PROVE q \in Active(ps, x) \cup After(n, On(new, x))
    BY <1>2, <2>1 DEF Active, After, On
  <2>2. ASSUME NEW q \in Active(ps, x) PROVE q \in Active(j, x)
    BY <1>1 DEF Active
  <2>3. ASSUME NEW q \in After(n, On(new, x)) PROVE q \in Active(j, x)
    <3>1. PICK k \in On(new, x) : q = n + k
      BY DEF After
    <3>2. k \in DOMAIN new /\ new[k].debt = x
      BY DEF On
    <3> QED
      BY <1>3, <1>4, <3>1, <3>2 DEF Active
  <2> QED
    BY <2>1, <2>2, <2>3
<1>6. From(j, x) = From(ps, x) \cup After(n, From(new, x))
  <2>1. ASSUME NEW q \in From(j, x) PROVE q \in From(ps, x) \cup After(n, From(new, x))
    BY <1>2, <2>1 DEF From, After
  <2>2. ASSUME NEW q \in From(ps, x) PROVE q \in From(j, x)
    BY <1>1 DEF From
  <2>3. ASSUME NEW q \in After(n, From(new, x)) PROVE q \in From(j, x)
    <3>1. PICK k \in From(new, x) : q = n + k
      BY DEF After
    <3>2. k \in DOMAIN new /\ new[k].transfer = x
      BY DEF From
    <3> QED
      BY <1>3, <3>1, <3>2 DEF From
  <2> QED
    BY <2>1, <2>2, <2>3
<1>7. Off(j, x) = Off(ps, x)
  <2>1. ASSUME NEW q \in Off(j, x) PROVE q \in Off(ps, x)
    BY <1>2, <1>4, <2>1 DEF Off
  <2>2. ASSUME NEW q \in Off(ps, x) PROVE q \in Off(j, x)
    BY <1>1 DEF Off
  <2> QED
    BY <2>1, <2>2
<1> QED
  BY <1>5, <1>6, <1>7 DEF j, n

\* What new payments make of the sums of a debt and of a transfer.
LEMMA SumsJoined ==
    ASSUME NEW ps \in Seq(PaymentRecord), NEW new \in Seq(PaymentRecord), Fresh(new), NEW x
    PROVE  /\ WorthOf(ps \o new, Active(ps \o new, x)) = WorthOf(ps, Active(ps, x)) + WorthOf(new, On(new, x))
           /\ WorthOf(ps \o new, From(ps \o new, x)) = WorthOf(ps, From(ps, x)) + WorthOf(new, From(new, x))
           /\ SumFunctionOnSet(Decided(ps \o new), Off(ps \o new, x)) = SumFunctionOnSet(Decided(ps), Off(ps, x))
           /\ WorthOf(ps, Active(ps, x)) \in Nat /\ WorthOf(new, On(new, x)) \in Nat
           /\ WorthOf(ps, From(ps, x)) \in Nat /\ WorthOf(new, From(new, x)) \in Nat
<1>1. /\ Active(ps, x) \in SUBSET DOMAIN ps /\ From(ps, x) \in SUBSET DOMAIN ps /\ Off(ps, x) \in SUBSET DOMAIN ps
      /\ On(new, x) \in SUBSET DOMAIN new /\ From(new, x) \in SUBSET DOMAIN new
  BY DEF Active, From, On, Off
<1>2. /\ WorthOf(ps \o new, Active(ps, x) \cup After(Len(ps), On(new, x))) = WorthOf(ps, Active(ps, x)) + WorthOf(new, On(new, x))
      /\ WorthOf(ps \o new, From(ps, x) \cup After(Len(ps), From(new, x))) = WorthOf(ps, From(ps, x)) + WorthOf(new, From(new, x))
  BY <1>1, WorthJoined
<1>3. /\ Active(ps \o new, x) = Active(ps, x) \cup After(Len(ps), On(new, x))
      /\ From(ps \o new, x) = From(ps, x) \cup After(Len(ps), From(new, x))
      /\ Off(ps \o new, x) = Off(ps, x)
  BY SetsJoined
<1>4. SumFunctionOnSet(Decided(ps \o new), Off(ps, x)) = SumFunctionOnSet(Decided(ps), Off(ps, x))
  <2>1. /\ DOMAIN ps \subseteq DOMAIN (ps \o new) /\ \A p \in DOMAIN ps : (ps \o new)[p] = ps[p]
    BY JoinIs
  <2>2. \A p \in Off(ps, x) : Decided(ps \o new)[p] = Decided(ps)[p]
    BY <1>1, <2>1 DEF Decided
  <2>3. IsFiniteSet(Off(ps, x))
    BY <1>1, WorthIs
  <2> QED
    BY <2>2, <2>3, SumSame
<1>5. /\ WorthOf(ps, Active(ps, x)) \in Nat /\ WorthOf(new, On(new, x)) \in Nat
      /\ WorthOf(ps, From(ps, x)) \in Nat /\ WorthOf(new, From(new, x)) \in Nat
  BY <1>1, WorthIs
<1> QED
  BY <1>2, <1>3, <1>4, <1>5

-----------------------------------------------------------------------------
(* Debts that payments count on. *)

LEMMA RowIs ==
    ASSUME NEW ds \in Seq(DebtRecord), NEW d \in DOMAIN ds
    PROVE  /\ ds[d].amount \in Nat \ {0} /\ ds[d].paid \in Nat /\ ds[d] \in DebtRecord
           /\ ds[d].status \in {"open", "settled", "cancelled", "deleted"}
           /\ Balances(ds)[d] = ds[d].amount - ds[d].paid
<1>1. ds[d] \in DebtRecord
  BY ElementOfSeq, LenProperties
<1> QED
  BY <1>1 DEF DebtRecord, Balances

\* What counts on a debt fits its balance.
Fits(ds, new) ==
    \A d \in DOMAIN ds : On(new, d) # {} => ds[d].paid + WorthOf(new, On(new, d)) <= ds[d].amount

LEMMA CountedIs ==
    ASSUME NEW ds \in Seq(DebtRecord), NEW new \in Seq(PaymentRecord)
    PROVE  /\ Counted(ds, new) \in Seq(DebtRecord)
           /\ DOMAIN Counted(ds, new) = DOMAIN ds
           /\ \A d \in DOMAIN ds :
                 /\ Counted(ds, new)[d].amount = ds[d].amount /\ Counted(ds, new)[d].party = ds[d].party
                 /\ Counted(ds, new)[d].direction = ds[d].direction /\ Counted(ds, new)[d].source = ds[d].source
                 /\ Counted(ds, new)[d].sale = ds[d].sale
                 /\ Counted(ds, new)[d].paid = ds[d].paid + WorthOf(new, On(new, d))
                 /\ On(new, d) = {} => Counted(ds, new)[d] = ds[d]
                 /\ On(new, d) # {} =>
                       Counted(ds, new)[d].status
                           = IF ds[d].paid + WorthOf(new, On(new, d)) = ds[d].amount THEN "settled" ELSE "open"
<1> DEFINE cs == Counted(ds, new)
<1>1. DOMAIN ds = 1..Len(ds) /\ Len(ds) \in Nat
  BY LenProperties
<1>2. ASSUME NEW d \in DOMAIN ds
      PROVE  /\ cs[d] = IF On(new, d) = {} THEN ds[d]
                        ELSE [ds[d] EXCEPT !.paid = ds[d].paid + WorthOf(new, On(new, d)),
                                 !.status = IF ds[d].paid + WorthOf(new, On(new, d)) = ds[d].amount
                                            THEN "settled" ELSE "open"]
             /\ ds[d] \in DebtRecord /\ ds[d].paid \in Nat
  BY RowIs DEF Counted, On
<1>3. ASSUME NEW d \in DOMAIN ds PROVE WorthOf(new, On(new, d)) \in Nat
  <2>1. On(new, d) \in SUBSET DOMAIN new
    BY DEF On
  <2> QED
    BY <2>1, WorthIs
<1>4. WorthOf(new, {}) = 0
  BY SumEmpty DEF WorthOf
<1>5. DOMAIN cs = DOMAIN ds
  BY DEF Counted
<1>6. cs = [d \in 1..Len(ds) |-> cs[d]]
  BY <1>1 DEF Counted
<1> HIDE DEF cs
<1>7. ASSUME NEW d \in DOMAIN ds
      PROVE  /\ cs[d] \in DebtRecord
             /\ cs[d].amount = ds[d].amount /\ cs[d].party = ds[d].party
             /\ cs[d].direction = ds[d].direction /\ cs[d].source = ds[d].source /\ cs[d].sale = ds[d].sale
             /\ cs[d].paid = ds[d].paid + WorthOf(new, On(new, d))
             /\ On(new, d) = {} => cs[d] = ds[d]
             /\ On(new, d) # {} =>
                       cs[d].status
                           = IF ds[d].paid + WorthOf(new, On(new, d)) = ds[d].amount THEN "settled" ELSE "open"
  <2>1. CASE On(new, d) = {}
    <3>1. cs[d] = ds[d] /\ WorthOf(new, On(new, d)) = 0
      BY <1>2, <1>4, <2>1
    <3>2. ds[d] \in DebtRecord /\ ds[d].paid \in Nat
      BY RowIs
    <3>3. ds[d].paid = ds[d].paid + WorthOf(new, On(new, d))
      BY <3>1, <3>2
    <3> QED
      BY <2>1, <3>1, <3>2, <3>3
  <2>2. CASE On(new, d) # {}
    <3>1. PICK w \in Nat : w = WorthOf(new, On(new, d))
      BY <1>3
    <3>2. cs[d] = [ds[d] EXCEPT !.paid = ds[d].paid + w,
                      !.status = IF ds[d].paid + w = ds[d].amount THEN "settled" ELSE "open"]
      BY <1>2, <2>2, <3>1
    <3>3. ds[d] \in DebtRecord /\ ds[d].paid + w \in Nat
      <4>1. ds[d] \in DebtRecord /\ ds[d].paid \in Nat
        BY RowIs
      <4> QED
        BY <4>1
    <3>4. /\ cs[d] \in DebtRecord
          /\ cs[d].amount = ds[d].amount /\ cs[d].party = ds[d].party
          /\ cs[d].direction = ds[d].direction /\ cs[d].source = ds[d].source /\ cs[d].sale = ds[d].sale
          /\ cs[d].paid = ds[d].paid + w
          /\ cs[d].status = IF ds[d].paid + w = ds[d].amount THEN "settled" ELSE "open"
      BY ONLY <3>2, <3>3 DEF DebtRecord
    <3> QED
      BY <2>2, <3>1, <3>4
  <2> QED
    BY <2>1, <2>2
<1>8. cs \in Seq(DebtRecord)
  <2>1. \A d \in 1..Len(ds) : cs[d] \in DebtRecord
    BY <1>1, <1>7
  <2> QED
    BY <1>1, <1>6, <2>1, IsASeq
<1> QED
  BY <1>5, <1>7, <1>8 DEF cs

LEMMA CountedAllocated ==
    ASSUME NEW ds \in Seq(DebtRecord), NEW ps \in Seq(PaymentRecord), NEW new \in Seq(PaymentRecord),
           Fresh(new), Fits(ds, new), NEW d \in DOMAIN ds, Allocated(ds, ps, d)
    PROVE  Allocated(Counted(ds, new), ps \o new, d)
<1> DEFINE c == Counted(ds, new)[d]
<1>1. /\ c.amount = ds[d].amount /\ c.paid = ds[d].paid + WorthOf(new, On(new, d))
      /\ On(new, d) = {} => c = ds[d]
      /\ On(new, d) # {} =>
            c.status = IF ds[d].paid + WorthOf(new, On(new, d)) = ds[d].amount THEN "settled" ELSE "open"
  BY CountedIs
<1>2. /\ WorthOf(ps \o new, Active(ps \o new, d)) = WorthOf(ps, Active(ps, d)) + WorthOf(new, On(new, d))
      /\ WorthOf(new, On(new, d)) \in Nat
  BY SumsJoined
<1>3. ds[d].amount \in Nat /\ ds[d].paid \in Nat
  BY RowIs
<1>4. c.paid = WorthOf(ps \o new, Active(ps \o new, d))
  BY <1>1, <1>2 DEF Allocated
<1>5. CASE On(new, d) = {}
  <2>1. c = ds[d]
    BY <1>1, <1>5
  <2> HIDE DEF c
  <2>2. Allocated(ds, ps, d) /\ c.paid = WorthOf(ps \o new, Active(ps \o new, d)) /\ c = ds[d]
    BY <1>4, <2>1
  <2> QED
    BY <2>2 DEF Allocated, c
<1>6. CASE On(new, d) # {}
  <2>1. /\ ds[d].paid + WorthOf(new, On(new, d)) <= ds[d].amount
        /\ c.status = IF c.paid = c.amount THEN "settled" ELSE "open"
        /\ c.paid <= c.amount
    BY <1>1, <1>6 DEF Fits
  <2> QED
    BY <1>4, <2>1 DEF Allocated
<1> QED
  BY <1>5, <1>6

-----------------------------------------------------------------------------
(* One amount over the debts of a row. *)

\* The rows of `ids` are different rows of ds with something left to pay.
Payable(ids, n, ds) ==
    /\ DOMAIN ids = 1..n
    /\ \A k \in 1..n : ids[k] \in DOMAIN ds /\ Balances(ds)[ids[k]] \in Nat
    /\ \A j, k \in 1..n : ids[j] = ids[k] => j = k
SizesOf(ids, ds) == [k \in DOMAIN ids |-> Balances(ds)[ids[k]]]
SizeOfAll(ids, n, ds) == SumFunctionOnSet(SizesOf(ids, ds), 1..n)

LEMMA NewPaymentIs ==
    ASSUME NEW d \in Nat \ {0}, NEW party \in Parties \cup Buyers, NEW amount \in Nat \ {0},
           NEW transfer \in Nat, NEW group \in Nat, NEW ref \in Refs \cup {NoRef}
    PROVE  NewPayment(d, party, amount, transfer, group, ref) \in PaymentRecord
  BY DEF NewPayment, PaymentRecord

LEMMA DebtRowIs ==
    ASSUME NEW ds \in Seq(DebtRecord), NEW d \in DOMAIN ds
    PROVE  d \in Nat \ {0} /\ ds[d].party \in Parties \cup Buyers
<1>1. DOMAIN ds = 1..Len(ds) /\ Len(ds) \in Nat /\ ds[d] \in DebtRecord
  BY LenProperties, RowIs
<1> QED
  BY <1>1 DEF DebtRecord

\* The new payments are on rows of `ids`, all of one transfer or group.
OneMoney(new, ids, n, ds, transfer, group, ref) ==
    \A m \in DOMAIN new :
        /\ new[m].transfer = transfer /\ new[m].group = group /\ new[m].ref = ref /\ ~new[m].old
        /\ \E k \in 1..n : new[m].debt = ids[k] /\ new[m].to = ds[ids[k]].party
LEMMA SplitIs ==
    ASSUME NEW ds \in Seq(DebtRecord), NEW n \in Nat, NEW ids, Payable(ids, n, ds), NEW amount \in Nat,
           NEW transfer \in Nat, NEW group \in Nat, NEW ref \in Refs \cup {NoRef}
    PROVE  LET new == Split(ds, ids, amount, transfer, group, ref)
           IN /\ new \in Seq(PaymentRecord) /\ Fresh(new)
              /\ OneMoney(new, ids, n, ds, transfer, group, ref)
              /\ Fits(ds, new)
              /\ WorthOf(new, DOMAIN new) = Lowest(amount, SizeOfAll(ids, n, ds))
<1> DEFINE sizes == SizesOf(ids, ds)
           K == {k \in DOMAIN ids : Share(sizes, amount, k) > 0}
           paid == InOrder(K)
           c == Cardinality(K)
           new == Split(ds, ids, amount, transfer, group, ref)
           shares == [k \in 1..n |-> Share(sizes, amount, k)]
<1>1. \A k \in 1..n : sizes[k] = Balances(ds)[ids[k]] /\ sizes[k] \in Nat
  BY DEF Payable, SizesOf
<1>2. /\ \A k \in 1..n : shares[k] = Share(sizes, amount, k) /\ shares[k] \in Nat /\ shares[k] <= sizes[k]
      /\ SumFunctionOnSet(shares, 1..n) = Lowest(amount, SumFunctionOnSet(sizes, 1..n))
  <2>1. \A k \in 1..n : shares[k] = Share(sizes, amount, k)
    OBVIOUS
  <2> HIDE DEF shares, sizes
  <2> QED
    BY <1>1, <2>1, SharesAdd
<1>3. K \in SUBSET (1..n) /\ IsFiniteSet(1..n) /\ IsFiniteSet(K) /\ K \in SUBSET Int
  <2>1. K \in SUBSET (1..n) /\ IsFiniteSet(1..n)
    BY FS_Interval DEF Payable
  <2> HIDE DEF K
  <2>2. IsFiniteSet(K)
    BY <2>1, FS_Subset
  <2>3. K \in SUBSET Int
    BY <2>1
  <2> QED
    BY <2>1, <2>2, <2>3
<1>4. \A k \in K : shares[k] \in Nat \ {0}
  BY <1>2, <1>3
<1>5. \A k \in (1..n) \ K : shares[k] = 0
  BY <1>2 DEF Payable
<1>6. DOMAIN paid = 1..c /\ c \in Nat /\ Matches(paid, 1..c, K)
  <2> HIDE DEF K
  <2> QED
    BY <1>3, InOrderIs
<1>7. new = [m \in DOMAIN paid |->
                NewPayment(ids[paid[m]], ds[ids[paid[m]]].party, Share(sizes, amount, paid[m]), transfer, group, ref)]
  BY DEF Split, SizesOf
<1> HIDE DEF K, c, paid, new, shares, sizes
<1>8. ASSUME NEW m \in 1..c
      PROVE  /\ paid[m] \in 1..n /\ paid[m] \in K /\ ids[paid[m]] \in DOMAIN ds
             /\ new[m] = NewPayment(ids[paid[m]], ds[ids[paid[m]]].party, shares[paid[m]], transfer, group, ref)
             /\ new[m] \in PaymentRecord
  <2>1. paid[m] \in K /\ paid[m] \in 1..n /\ ids[paid[m]] \in DOMAIN ds
    BY <1>3, <1>6 DEF Matches, Payable
  <2>2. new[m] = NewPayment(ids[paid[m]], ds[ids[paid[m]]].party, shares[paid[m]], transfer, group, ref)
    BY <1>2, <1>6, <1>7, <2>1
  <2>3. ids[paid[m]] \in Nat \ {0} /\ ds[ids[paid[m]]].party \in Parties \cup Buyers
    BY <2>1, DebtRowIs
  <2>4. shares[paid[m]] \in Nat \ {0}
    BY <1>4, <2>1
  <2>5. new[m] \in PaymentRecord
    BY <2>2, <2>3, <2>4, NewPaymentIs
  <2> QED
    BY <2>1, <2>2, <2>5
<1>9. ASSUME NEW m \in 1..c
      PROVE  /\ new[m].debt = ids[paid[m]] /\ new[m].amount = shares[paid[m]] /\ ~new[m].reversed
             /\ new[m].transfer = transfer /\ new[m].group = group /\ new[m].ref = ref
             /\ new[m].decided = 0 /\ new[m].to = ds[ids[paid[m]]].party /\ ~new[m].old
  <2>1. new[m] = NewPayment(ids[paid[m]], ds[ids[paid[m]]].party, shares[paid[m]], transfer, group, ref)
    BY <1>8
  <2> QED
    BY ONLY <2>1 DEF NewPayment
<1>10. DOMAIN new = 1..c
  BY <1>6, <1>7
<1>11. new \in Seq(PaymentRecord)
  <2>1. new = [m \in 1..c |-> new[m]]
    BY <1>6, <1>7
  <2>2. \A m \in 1..c : new[m] \in PaymentRecord
    BY <1>8
  <2> QED
    BY <1>6, <2>1, <2>2, IsASeq
<1>12. Fresh(new)
  BY <1>9, <1>10 DEF Fresh
<1>13. WorthOf(new, DOMAIN new) = Lowest(amount, SumFunctionOnSet(sizes, 1..n))
  <2>1. Carried(Worth(new), shares, paid, 1..c)
    BY <1>9, <1>10 DEF Carried, Worth
  <2>2. IsFiniteSet(1..c) /\ IntegerOn(shares, K)
    BY <1>4, <1>6, FS_Interval DEF IntegerOn
  <2>3. SumFunctionOnSet(Worth(new), 1..c) = SumFunctionOnSet(shares, K)
    BY <1>6, <2>1, <2>2, SumMatched
  <2>4. SumFunctionOnSet(shares, 1..n) = SumFunctionOnSet(shares, K) + SumFunctionOnSet(shares, (1..n) \ K)
    <3> DEFINE I == 1..n
    <3>1. \A k \in I : shares[k] \in Nat
      BY <1>2
    <3>2. K \in SUBSET I /\ IsFiniteSet(I)
      BY <1>3
    <3> HIDE DEF I
    <3>3. SumFunctionOnSet(shares, I) = SumFunctionOnSet(shares, K) + SumFunctionOnSet(shares, I \ K)
      BY <3>1, <3>2, SumPart
    <3> QED
      BY <3>3 DEF I
  <2>5. SumFunctionOnSet(shares, (1..n) \ K) = 0
    <3>1. IsFiniteSet((1..n) \ K)
      BY <1>3, FS_Difference
    <3> QED
      BY <1>5, <3>1, SumOfZeros
  <2>6. SumFunctionOnSet(shares, K) \in Int
    BY <1>3, <2>2, SumType
  <2> QED
    BY <1>2, <1>10, <2>3, <2>4, <2>5, <2>6 DEF WorthOf
<1>14. Fits(ds, new)
  <2> SUFFICES ASSUME NEW d \in DOMAIN ds, On(new, d) # {}
               PROVE  ds[d].paid + WorthOf(new, On(new, d)) <= ds[d].amount
    BY DEF Fits
  <2>1. PICK m \in 1..c : m \in On(new, d) /\ new[m].debt = d
    BY <1>10 DEF On
  <2>2. ASSUME NEW l \in On(new, d) PROVE l = m
    <3>1. l \in 1..c /\ new[l].debt = d
      BY <1>10 DEF On
    <3>2. ids[paid[l]] = ids[paid[m]]
      BY <1>9, <2>1, <3>1
    <3>3. paid[l] = paid[m]
      BY <1>8, <3>1, <3>2 DEF Payable
    <3> QED
      BY <1>6, <3>1, <3>3 DEF Matches
  <2>3. On(new, d) = {m}
    BY <2>1, <2>2
  <2>4. Worth(new)[m] = shares[paid[m]]
    BY <1>9, <1>10 DEF Worth
  <2>5. paid[m] \in 1..n /\ ids[paid[m]] = d
    BY <1>8, <1>9, <2>1
  <2>6. shares[paid[m]] \in Nat /\ shares[paid[m]] <= sizes[paid[m]] /\ sizes[paid[m]] = Balances(ds)[d]
    BY <1>1, <1>2, <2>5
  <2>7. WorthOf(new, {m}) = shares[paid[m]]
    <3>1. Worth(new)[m] \in Int
      BY <2>4, <2>6
    <3> QED
      BY <2>4, <3>1, SumOne DEF WorthOf
  <2>8. WorthOf(new, On(new, d)) = shares[paid[m]]
    BY <2>3, <2>7
  <2>9. Balances(ds)[d] = ds[d].amount - ds[d].paid /\ ds[d].amount \in Nat /\ ds[d].paid \in Nat
    BY RowIs
  <2> QED
    BY <2>6, <2>8, <2>9
<1>15. OneMoney(new, ids, n, ds, transfer, group, ref)
  <2>1. ASSUME NEW m \in 1..c
        PROVE  /\ new[m].transfer = transfer /\ new[m].group = group /\ new[m].ref = ref /\ ~new[m].old
               /\ \E k \in 1..n : new[m].debt = ids[k] /\ new[m].to = ds[ids[k]].party
    BY <1>8, <1>9
  <2> QED
    BY <1>10, <2>1 DEF OneMoney
<1> QED
  BY <1>10, <1>11, <1>12, <1>13, <1>14, <1>15 DEF new, sizes, SizeOfAll

-----------------------------------------------------------------------------
(* Credit over the debts of a row. *)

\* The rows of `ids` are different transfers.
Holding(ids, m, ts) ==
    /\ DOMAIN ids = 1..m
    /\ \A j \in 1..m : ids[j] \in DOMAIN ts /\ Credit(ts, ids[j]) \in Nat
    /\ \A i, j \in 1..m : ids[i] = ids[j] => i = j

LEMMA PartMatched ==
    ASSUME NEW m \in Nat, NEW f, NEW g, NEW A, IsFiniteSet(A), NEW J \in SUBSET (1..m), NEW b,
           Matches(b, A, J), Carried(f, g, b, A), \A j \in 1..m : g[j] \in Nat
    PROVE  SumFunctionOnSet(f, A) <= SumFunctionOnSet(g, 1..m)
<1> DEFINE I == 1..m
<1>1. J \in SUBSET I /\ IsFiniteSet(I) /\ \A j \in I : g[j] \in Nat
  BY FS_Interval
<1> HIDE DEF I
<1>2. SumFunctionOnSet(g, J) <= SumFunctionOnSet(g, I)
  BY <1>1, SumPart
<1>3. IntegerOn(g, J)
  BY <1>1 DEF IntegerOn
<1>4. SumFunctionOnSet(f, A) = SumFunctionOnSet(g, J)
  BY <1>3, SumMatched
<1> QED
  BY <1>2, <1>4 DEF I

LEMMA BeforeIsNat ==
    ASSUME NEW n \in Nat, NEW sizes, \A k \in 1..n : sizes[k] \in Nat, NEW k \in 1..n
    PROVE  Before(sizes, k) \in Nat /\ sizes[k] \in Nat
<1>1. PICK m \in Nat : k = m + 1
  <2>1. k - 1 \in Nat /\ k = (k - 1) + 1
    OBVIOUS
  <2> QED
    BY <2>1
<1>2. \A j \in 1..(m + 1) : sizes[j] \in Nat
  BY <1>1
<1>3. Before(sizes, m + 1) \in Nat
  BY <1>2, BeforeNext
<1> QED
  BY <1>1, <1>3

\* What one stretch has in common with each of the other row.
NatRow(f, n) == \A k \in 1..n : f[k] \in Nat
LapsFit(sizes, n, held, m, amount) ==
    /\ \A i \in 1..n, j \in 1..m : Overlap(sizes, held, amount, i, j) \in Int
    /\ \A i \in 1..n : \E common :
          /\ \A j \in 1..m : common[j] \in Nat /\ common[j] = Highest(0, Overlap(sizes, held, amount, i, j))
          /\ SumFunctionOnSet(common, 1..m) <= Share(sizes, amount, i)
    /\ \A j \in 1..m : \E common :
          /\ \A i \in 1..n : common[i] \in Nat /\ common[i] = Highest(0, Overlap(sizes, held, amount, i, j))
          /\ SumFunctionOnSet(common, 1..n) <= held[j]
LEMMA OverlapIs ==
    ASSUME NEW n \in Nat, NEW sizes, NatRow(sizes, n), NEW m \in Nat, NEW held, NatRow(held, m), NEW amount \in Nat
    PROVE  LapsFit(sizes, n, held, m, amount)
<1> USE DEF NatRow
<1>1. \A i \in 1..n : Before(sizes, i) \in Nat /\ sizes[i] \in Nat
  BY BeforeIsNat
<1>2. \A j \in 1..m : Before(held, j) \in Nat /\ held[j] \in Nat
  BY BeforeIsNat
<1>3. ASSUME NEW i \in 1..n, NEW j \in 1..m PROVE Overlap(sizes, held, amount, i, j) \in Int
  BY <1>1, <1>2 DEF Overlap, Lowest, Highest
<1>4. ASSUME NEW i \in 1..n
      PROVE  \E common :
                 /\ \A j \in 1..m : /\ common[j] \in Nat
                                    /\ common[j] = Highest(0, Overlap(sizes, held, amount, i, j))
                 /\ SumFunctionOnSet(common, 1..m) <= Share(sizes, amount, i)
  <2>1. PICK lo \in Nat : lo = Before(sizes, i)
    BY <1>1
  <2>2. PICK hi \in Int : hi = Lowest(amount, lo + sizes[i])
    BY <1>1, <2>1 DEF Lowest
  <2> DEFINE common == [j \in 1..m |-> Highest(0, Lowest(hi, Before(held, j) + held[j]) - Highest(lo, Before(held, j)))]
  <2>3. \A j \in 1..m : common[j] = Highest(0, Lowest(hi, Before(held, j) + held[j]) - Highest(lo, Before(held, j)))
    OBVIOUS
  <2> HIDE DEF common
  <2>4. /\ \A j \in 1..m : common[j] \in Nat
        /\ SumFunctionOnSet(common, 1..m) \in Nat /\ SumFunctionOnSet(common, 1..m) <= Highest(0, hi - lo)
    <3>1. Common(common, held, m, lo, hi)
      BY <2>3 DEF Common
    <3> QED
      BY <3>1, OverlapsAdd
  <2>5. ASSUME NEW j \in 1..m PROVE common[j] = Highest(0, Overlap(sizes, held, amount, i, j))
    <3>1. Before(held, j) \in Nat /\ held[j] \in Nat /\ sizes[i] \in Nat
      BY <1>1, <1>2
    <3>2. common[j] = Highest(0, Lowest(hi, Before(held, j) + held[j]) - Highest(lo, Before(held, j)))
      BY <2>3
    <3> QED
      BY <2>1, <2>2, <3>1, <3>2 DEF Overlap, Lowest, Highest
  <2>6. Highest(0, hi - lo) = Share(sizes, amount, i)
    <3>1. sizes[i] \in Nat
      BY <1>1
    <3> QED
      BY <2>1, <2>2, <3>1 DEF Share, Lowest, Highest
  <2>7. SumFunctionOnSet(common, 1..m) <= Share(sizes, amount, i)
    BY <2>4, <2>6
  <2> QED
    BY <2>4, <2>5, <2>7
<1>5. ASSUME NEW j \in 1..m
      PROVE  \E common :
                 /\ \A i \in 1..n : /\ common[i] \in Nat
                                    /\ common[i] = Highest(0, Overlap(sizes, held, amount, i, j))
                 /\ SumFunctionOnSet(common, 1..n) <= held[j]
  <2>1. PICK lo \in Nat : lo = Before(held, j)
    BY <1>2
  <2>2. PICK hi \in Int : hi = Lowest(amount, lo + held[j])
    BY <1>2, <2>1 DEF Lowest
  <2> DEFINE common == [i \in 1..n |-> Highest(0, Lowest(hi, Before(sizes, i) + sizes[i]) - Highest(lo, Before(sizes, i)))]
  <2>3. \A i \in 1..n : common[i] = Highest(0, Lowest(hi, Before(sizes, i) + sizes[i]) - Highest(lo, Before(sizes, i)))
    OBVIOUS
  <2> HIDE DEF common
  <2>4. /\ \A i \in 1..n : common[i] \in Nat
        /\ SumFunctionOnSet(common, 1..n) \in Nat /\ SumFunctionOnSet(common, 1..n) <= Highest(0, hi - lo)
    <3>1. Common(common, sizes, n, lo, hi)
      BY <2>3 DEF Common
    <3> QED
      BY <3>1, OverlapsAdd
  <2>5. ASSUME NEW i \in 1..n PROVE common[i] = Highest(0, Overlap(sizes, held, amount, i, j))
    <3>1. Before(sizes, i) \in Nat /\ sizes[i] \in Nat /\ held[j] \in Nat
      BY <1>1, <1>2
    <3>2. common[i] = Highest(0, Lowest(hi, Before(sizes, i) + sizes[i]) - Highest(lo, Before(sizes, i)))
      BY <2>3
    <3> QED
      BY <2>1, <2>2, <3>1, <3>2 DEF Overlap, Lowest, Highest
  <2>6. Highest(0, hi - lo) <= held[j]
    <3>1. held[j] \in Nat
      BY <1>2
    <3> QED
      BY <2>1, <2>2, <3>1 DEF Lowest, Highest
  <2>7. SumFunctionOnSet(common, 1..n) \in Int /\ Highest(0, hi - lo) \in Int /\ held[j] \in Int
    BY <1>2, <2>4 DEF Highest
  <2>8. SumFunctionOnSet(common, 1..n) <= held[j]
    BY <2>4, <2>6, <2>7
  <2> QED
    BY <2>4, <2>5, <2>8
<1> QED
  BY <1>3, <1>4, <1>5 DEF LapsFit

LEMMA CreditIs ==
    ASSUME NEW ts \in Seq(TransferRecord), NEW t \in DOMAIN ts
    PROVE  /\ ts[t] \in TransferRecord /\ t \in Nat \ {0}
           /\ Credit(ts, t) = ts[t].credited - ts[t].used - ts[t].refunded - ts[t].wrong
           /\ ts[t].credited \in Nat /\ ts[t].used \in Nat /\ ts[t].refunded \in Nat /\ ts[t].wrong \in Nat
           /\ ts[t].refundedFrom \in Nat /\ ts[t].wrongFrom \in Nat /\ ts[t].amount \in Nat \ {0}
<1>1. ts[t] \in TransferRecord /\ t \in Nat \ {0}
  BY ElementOfSeq, LenProperties
<1> QED
  BY <1>1 DEF Credit, Credits, TransferRecord

LEMMA PiecesIs ==
    ASSUME NEW ds \in Seq(DebtRecord), NEW ts \in Seq(TransferRecord), NEW n \in Nat, NEW over, Payable(over, n, ds),
           NEW m \in Nat, NEW ids, Holding(ids, m, ts), NEW amount \in Nat
    PROVE  LET new == CreditPieces(ds, ts, over, ids, amount)
           IN /\ new \in Seq(PaymentRecord) /\ Fresh(new)
              /\ \A k \in DOMAIN new :
                    /\ new[k].group = 0 /\ new[k].ref = NoRef /\ ~new[k].old
                    /\ \E i \in 1..n : new[k].debt = over[i] /\ new[k].to = ds[over[i]].party
                    /\ \E j \in 1..m : new[k].transfer = ids[j]
              /\ \A i \in 1..n : WorthOf(new, On(new, over[i])) <= Share(SizesOf(over, ds), amount, i)
              /\ \A j \in 1..m : WorthOf(new, From(new, ids[j])) <= Credit(ts, ids[j])
<1> DEFINE sizes == SizesOf(over, ds)
           held == [k \in DOMAIN ids |-> Credit(ts, ids[k])]
           lap(i, j) == Overlap(sizes, held, amount, i, j)
           S == {x \in (DOMAIN over) \X (DOMAIN ids) : lap(x[1], x[2]) > 0}
           met == RowByRow(S)
           c == Cardinality(S)
           new == CreditPieces(ds, ts, over, ids, amount)
<1>1. /\ DOMAIN over = 1..n /\ DOMAIN ids = 1..m
      /\ \A k \in 1..n : sizes[k] \in Nat
      /\ \A k \in 1..m : held[k] \in Nat /\ held[k] = Credit(ts, ids[k])
  BY DEF Payable, Holding, SizesOf
<1>2. new = [k \in DOMAIN met |-> NewPayment(over[met[k][1]], ds[over[met[k][1]]].party,
                lap(met[k][1], met[k][2]), ids[met[k][2]], 0, NoRef)]
  BY DEF CreditPieces, SizesOf
<1>3. ASSUME NEW x \in S PROVE /\ x[1] \in 1..n /\ x[2] \in 1..m /\ x = <<x[1], x[2]>>
                               /\ lap(x[1], x[2]) > 0
  BY <1>1
<1>4. ASSUME NEW i \in 1..n, NEW j \in 1..m, lap(i, j) > 0 PROVE <<i, j>> \in S
  BY <1>1, <1>4
<1> HIDE DEF sizes, held
<1>5. /\ \A i \in 1..n, j \in 1..m : lap(i, j) \in Int
      /\ \A i \in 1..n : \E common :
            /\ \A j \in 1..m : common[j] \in Nat /\ common[j] = Highest(0, lap(i, j))
            /\ SumFunctionOnSet(common, 1..m) <= Share(sizes, amount, i)
      /\ \A j \in 1..m : \E common :
            /\ \A i \in 1..n : common[i] \in Nat /\ common[i] = Highest(0, lap(i, j))
            /\ SumFunctionOnSet(common, 1..n) <= held[j]
  <2>1. NatRow(sizes, n) /\ NatRow(held, m)
    BY <1>1 DEF NatRow
  <2>2. LapsFit(sizes, n, held, m, amount)
    BY <2>1, OverlapIs
  <2> QED
    BY <2>2 DEF LapsFit
<1> HIDE DEF lap
<1>6. S \in SUBSET (Int \X Int) /\ IsFiniteSet(S)
  <2> DEFINE N == 1..n
             M == 1..m
  <2>1. IsFiniteSet(N) /\ IsFiniteSet(M)
    BY FS_Interval
  <2>2. S \in SUBSET (N \X M) /\ N \X M \subseteq Int \X Int
    BY <1>1
  <2> HIDE DEF N, M, S
  <2>3. IsFiniteSet(N \X M)
    BY <2>1, FS_Product
  <2> QED
    BY <2>2, <2>3, FS_Subset
<1> HIDE DEF S
<1>7. DOMAIN met = 1..c /\ c \in Nat /\ Matches(met, 1..c, S)
  BY <1>6, RowByRowIs
<1> HIDE DEF met, c, new
<1>8. ASSUME NEW k \in 1..c
      PROVE  /\ met[k] \in S /\ met[k][1] \in 1..n /\ met[k][2] \in 1..m
             /\ lap(met[k][1], met[k][2]) \in Nat \ {0}
             /\ new[k] = NewPayment(over[met[k][1]], ds[over[met[k][1]]].party,
                            lap(met[k][1], met[k][2]), ids[met[k][2]], 0, NoRef)
             /\ new[k] \in PaymentRecord
  <2>1. met[k] \in S
    BY <1>7 DEF Matches
  <2>2. met[k][1] \in 1..n /\ met[k][2] \in 1..m /\ lap(met[k][1], met[k][2]) > 0
    BY <1>3, <2>1
  <2>3. lap(met[k][1], met[k][2]) \in Nat \ {0}
    <3>1. lap(met[k][1], met[k][2]) \in Int
      BY <1>5, <2>2
    <3> QED
      BY <2>2, <3>1
  <2>4. new[k] = NewPayment(over[met[k][1]], ds[over[met[k][1]]].party,
                            lap(met[k][1], met[k][2]), ids[met[k][2]], 0, NoRef)
    BY <1>2, <1>7
  <2>5. over[met[k][1]] \in DOMAIN ds /\ ids[met[k][2]] \in DOMAIN ts
    BY <2>2 DEF Payable, Holding
  <2>6. over[met[k][1]] \in Nat \ {0} /\ ds[over[met[k][1]]].party \in Parties \cup Buyers
    BY <2>5, DebtRowIs
  <2>7. ids[met[k][2]] \in Nat
    BY <2>5, CreditIs
  <2>8. new[k] \in PaymentRecord
    <3>1. PICK d \in Nat \ {0}, party \in Parties \cup Buyers, worth \in Nat \ {0}, t \in Nat :
              new[k] = NewPayment(d, party, worth, t, 0, NoRef)
      BY ONLY <2>3, <2>4, <2>6, <2>7
    <3>2. 0 \in Nat /\ NoRef \in Refs \cup {NoRef}
      OBVIOUS
    <3>3. NewPayment(d, party, worth, t, 0, NoRef) \in PaymentRecord
      BY ONLY <3>2, NewPaymentIs, d \in Nat \ {0}, party \in Parties \cup Buyers, worth \in Nat \ {0}, t \in Nat
    <3> QED
      BY ONLY <3>1, <3>3
  <2> QED
    BY <2>1, <2>2, <2>3, <2>4, <2>8
<1>9. ASSUME NEW k \in 1..c
      PROVE  /\ new[k].debt = over[met[k][1]] /\ new[k].amount = lap(met[k][1], met[k][2]) /\ ~new[k].reversed
             /\ new[k].transfer = ids[met[k][2]] /\ new[k].group = 0 /\ new[k].ref = NoRef
             /\ new[k].decided = 0 /\ new[k].to = ds[over[met[k][1]]].party /\ ~new[k].old
  <2>1. new[k] = NewPayment(over[met[k][1]], ds[over[met[k][1]]].party,
                            lap(met[k][1], met[k][2]), ids[met[k][2]], 0, NoRef)
    BY <1>8
  <2> QED
    BY ONLY <2>1 DEF NewPayment
<1>10. DOMAIN new = 1..c
  BY <1>2, <1>7
<1>11. new \in Seq(PaymentRecord)
  <2>1. new = [k \in 1..c |-> new[k]]
    BY <1>2, <1>7
  <2>2. \A k \in 1..c : new[k] \in PaymentRecord
    BY <1>8
  <2> QED
    BY <1>7, <2>1, <2>2, IsASeq
<1>12. Fresh(new)
  BY <1>9, <1>10 DEF Fresh
<1>13. ASSUME NEW k \in 1..c
       PROVE  /\ new[k].group = 0 /\ new[k].ref = NoRef /\ ~new[k].old
              /\ \E i \in 1..n : new[k].debt = over[i] /\ new[k].to = ds[over[i]].party
              /\ \E j \in 1..m : new[k].transfer = ids[j]
  BY <1>8, <1>9
<1>14. ASSUME NEW k \in 1..c, NEW l \in 1..c, met[k][1] = met[l][1], met[k][2] = met[l][2] PROVE k = l
  <2>1. met[k] = met[l]
    BY <1>3, <1>8, <1>14
  <2> QED
    BY <1>7, <2>1 DEF Matches
<1>15. ASSUME NEW i \in 1..n PROVE WorthOf(new, On(new, over[i])) <= Share(sizes, amount, i)
  <2> DEFINE A == On(new, over[i])
             J == {j \in 1..m : lap(i, j) > 0}
             b == [k \in A |-> met[k][2]]
  <2>1. PICK common : /\ \A j \in 1..m : common[j] \in Nat /\ common[j] = Highest(0, lap(i, j))
                      /\ SumFunctionOnSet(common, 1..m) <= Share(sizes, amount, i)
    BY <1>5
  <2>2. A \in SUBSET DOMAIN new /\ \A k \in A : k \in 1..c /\ met[k][1] = i
    <3>1. ASSUME NEW k \in A PROVE k \in 1..c /\ met[k][1] = i
      <4>1. k \in 1..c /\ new[k].debt = over[i]
        BY <1>10 DEF On
      <4>2. over[met[k][1]] = over[i] /\ met[k][1] \in 1..n
        BY <1>8, <1>9, <4>1
      <4> QED
        BY <4>1, <4>2 DEF Payable
    <3> QED
      BY <3>1 DEF On
  <2>3. ASSUME NEW k \in 1..c, met[k][1] = i PROVE k \in A
    BY <1>9, <1>10, <2>3 DEF On
  <2>4. IsFiniteSet(A)
    BY <1>11, <2>2, WorthIs
  <2>5. ASSUME NEW k \in A PROVE b[k] = met[k][2] /\ b[k] \in J
    BY <1>8, <2>2
  <2>6. ASSUME NEW k \in A, NEW l \in A, b[k] = b[l] PROVE k = l
    BY <1>14, <2>2, <2>6
  <2>7. ASSUME NEW j \in J PROVE \E k \in A : b[k] = j
    <3>1. <<i, j>> \in S
      BY <1>4
    <3>2. PICK k \in 1..c : met[k] = <<i, j>>
      BY <1>7, <3>1 DEF Matches
    <3>3. k \in A
      BY <2>3, <3>2
    <3> QED
      BY <3>2, <3>3
  <2>8. Matches(b, A, J)
    <3> HIDE DEF b, A, J
    <3> QED
      BY <2>5, <2>6, <2>7 DEF Matches
  <2>9. Carried(Worth(new), common, b, A)
    <3>1. ASSUME NEW k \in A PROVE Worth(new)[k] = common[b[k]]
      <4>1. Worth(new)[k] = lap(i, met[k][2])
        BY <1>9, <1>10, <2>2 DEF Worth
      <4>2. lap(i, met[k][2]) \in Nat \ {0}
        BY <1>8, <2>2
      <4>3. common[met[k][2]] = Highest(0, lap(i, met[k][2]))
        BY <1>8, <2>1, <2>2
      <4> QED
        BY <2>5, <4>1, <4>2, <4>3 DEF Highest
    <3> QED
      BY <3>1 DEF Carried
  <2>10. J \in SUBSET (1..m)
    OBVIOUS
  <2> HIDE DEF A, J, b
  <2>11. SumFunctionOnSet(Worth(new), A) <= SumFunctionOnSet(common, 1..m)
    <3>1. \A j \in 1..m : common[j] \in Nat
      BY <2>1
    <3> QED
      BY <2>4, <2>8, <2>9, <2>10, <3>1, PartMatched
  <2>12. /\ SumFunctionOnSet(Worth(new), A) \in Int /\ SumFunctionOnSet(common, 1..m) \in Int
         /\ Share(sizes, amount, i) \in Int
    <3>1. WorthOf(new, A) \in Nat
      BY <1>11, <2>2, WorthIs
    <3>2. IsFiniteSet(1..m) /\ IntegerOn(common, 1..m)
      BY <2>1, FS_Interval DEF IntegerOn
    <3>3. SumFunctionOnSet(common, 1..m) \in Int
      BY <3>2, SumType
    <3>4. Before(sizes, i) \in Nat /\ sizes[i] \in Nat
      BY <1>1, BeforeIsNat
    <3> QED
      BY <3>1, <3>3, <3>4 DEF WorthOf, Share, Lowest, Highest
  <2> QED
    BY <2>1, <2>11, <2>12 DEF WorthOf, A
<1>16. ASSUME NEW j \in 1..m PROVE WorthOf(new, From(new, ids[j])) <= held[j]
  <2> DEFINE A == From(new, ids[j])
             J == {i \in 1..n : lap(i, j) > 0}
             b == [k \in A |-> met[k][1]]
  <2>1. PICK common : /\ \A i \in 1..n : common[i] \in Nat /\ common[i] = Highest(0, lap(i, j))
                      /\ SumFunctionOnSet(common, 1..n) <= held[j]
    BY <1>5
  <2>2. A \in SUBSET DOMAIN new /\ \A k \in A : k \in 1..c /\ met[k][2] = j
    <3>1. ASSUME NEW k \in A PROVE k \in 1..c /\ met[k][2] = j
      <4>1. k \in 1..c /\ new[k].transfer = ids[j]
        BY <1>10 DEF From
      <4>2. ids[met[k][2]] = ids[j] /\ met[k][2] \in 1..m
        BY <1>8, <1>9, <4>1
      <4> QED
        BY <4>1, <4>2 DEF Holding
    <3> QED
      BY <3>1 DEF From
  <2>3. ASSUME NEW k \in 1..c, met[k][2] = j PROVE k \in A
    BY <1>9, <1>10, <2>3 DEF From
  <2>4. IsFiniteSet(A)
    BY <1>11, <2>2, WorthIs
  <2>5. ASSUME NEW k \in A PROVE b[k] = met[k][1] /\ b[k] \in J
    BY <1>8, <2>2
  <2>6. ASSUME NEW k \in A, NEW l \in A, b[k] = b[l] PROVE k = l
    BY <1>14, <2>2, <2>6
  <2>7. ASSUME NEW i \in J PROVE \E k \in A : b[k] = i
    <3>1. <<i, j>> \in S
      BY <1>4
    <3>2. PICK k \in 1..c : met[k] = <<i, j>>
      BY <1>7, <3>1 DEF Matches
    <3>3. k \in A
      BY <2>3, <3>2
    <3> QED
      BY <3>2, <3>3
  <2>8. Matches(b, A, J)
    <3> HIDE DEF b, A, J
    <3> QED
      BY <2>5, <2>6, <2>7 DEF Matches
  <2>9. Carried(Worth(new), common, b, A)
    <3>1. ASSUME NEW k \in A PROVE Worth(new)[k] = common[b[k]]
      <4>1. Worth(new)[k] = lap(met[k][1], j)
        BY <1>9, <1>10, <2>2 DEF Worth
      <4>2. lap(met[k][1], j) \in Nat \ {0}
        BY <1>8, <2>2
      <4>3. common[met[k][1]] = Highest(0, lap(met[k][1], j))
        BY <1>8, <2>1, <2>2
      <4> QED
        BY <2>5, <4>1, <4>2, <4>3 DEF Highest
    <3> QED
      BY <3>1 DEF Carried
  <2>10. J \in SUBSET (1..n)
    OBVIOUS
  <2> HIDE DEF A, J, b
  <2>11. SumFunctionOnSet(Worth(new), A) <= SumFunctionOnSet(common, 1..n)
    <3>1. \A i \in 1..n : common[i] \in Nat
      BY <2>1
    <3> QED
      BY <2>4, <2>8, <2>9, <2>10, <3>1, PartMatched
  <2>12. /\ SumFunctionOnSet(Worth(new), A) \in Int /\ SumFunctionOnSet(common, 1..n) \in Int
         /\ held[j] \in Int
    <3>1. WorthOf(new, A) \in Nat
      BY <1>11, <2>2, WorthIs
    <3>2. IsFiniteSet(1..n) /\ IntegerOn(common, 1..n)
      BY <2>1, FS_Interval DEF IntegerOn
    <3>3. SumFunctionOnSet(common, 1..n) \in Int
      BY <3>2, SumType
    <3> QED
      BY <1>1, <3>1, <3>3 DEF WorthOf
  <2> QED
    BY <2>1, <2>11, <2>12 DEF WorthOf, A
<1>17. \A j \in 1..m : WorthOf(new, From(new, ids[j])) <= Credit(ts, ids[j])
  BY <1>1, <1>16
<1> QED
  BY <1>10, <1>11, <1>12, <1>13, <1>15, <1>17 DEF new, sizes

LEMMA ShareFits ==
    ASSUME NEW ds \in Seq(DebtRecord), NEW n \in Nat, NEW ids, Payable(ids, n, ds), NEW amount \in Nat, NEW i \in 1..n
    PROVE  /\ Share(SizesOf(ids, ds), amount, i) \in Nat
           /\ Share(SizesOf(ids, ds), amount, i) <= ds[ids[i]].amount - ds[ids[i]].paid
           /\ SizesOf(ids, ds)[i] = ds[ids[i]].amount - ds[ids[i]].paid /\ ids[i] \in DOMAIN ds
<1> DEFINE sizes == SizesOf(ids, ds)
<1>1. ids[i] \in DOMAIN ds /\ \A k \in 1..n : sizes[k] = Balances(ds)[ids[k]] /\ sizes[k] \in Nat
  BY DEF Payable, SizesOf
<1> HIDE DEF sizes
<1>2. Before(sizes, i) \in Nat /\ sizes[i] \in Nat
  BY <1>1, BeforeIsNat
<1>3. sizes[i] = ds[ids[i]].amount - ds[ids[i]].paid
  BY <1>1, RowIs
<1>4. Share(sizes, amount, i) \in Nat /\ Share(sizes, amount, i) <= sizes[i]
  BY <1>2 DEF Share, Lowest, Highest
<1> QED
  BY <1>1, <1>3, <1>4 DEF sizes

LEMMA PiecesFit ==
    ASSUME NEW ds \in Seq(DebtRecord), NEW n \in Nat, NEW over, Payable(over, n, ds), NEW amount \in Nat,
           NEW new \in Seq(PaymentRecord),
           \A k \in DOMAIN new : \E i \in 1..n : new[k].debt = over[i],
           \A i \in 1..n : WorthOf(new, On(new, over[i])) <= Share(SizesOf(over, ds), amount, i)
    PROVE  Fits(ds, new)
<1> SUFFICES ASSUME NEW d \in DOMAIN ds, On(new, d) # {}
             PROVE  ds[d].paid + WorthOf(new, On(new, d)) <= ds[d].amount
  BY DEF Fits
<1>1. PICK k \in DOMAIN new : new[k].debt = d
  BY DEF On
<1>2. PICK i \in 1..n : d = over[i]
  BY <1>1
<1>3. WorthOf(new, On(new, d)) <= Share(SizesOf(over, ds), amount, i)
  BY <1>2
<1>4. /\ Share(SizesOf(over, ds), amount, i) \in Nat
      /\ Share(SizesOf(over, ds), amount, i) <= ds[d].amount - ds[d].paid
  BY <1>2, ShareFits
<1>5. ds[d].amount \in Nat /\ ds[d].paid \in Nat
  BY RowIs
<1>6. WorthOf(new, On(new, d)) \in Nat
  <2>1. On(new, d) \in SUBSET DOMAIN new
    BY DEF On
  <2> QED
    BY <2>1, WorthIs
<1> QED
  BY <1>3, <1>4, <1>5, <1>6

-----------------------------------------------------------------------------
(* New money. *)

\* Amounts on different debts, each no more than its balance.
Due(list, n, ds) ==
    /\ DOMAIN list = 1..n /\ Len(list) = n
    /\ \A k \in 1..n : /\ list[k][1] \in DOMAIN ds /\ list[k][2] \in Nat \ {0}
                       /\ list[k][2] <= ds[list[k][1]].amount - ds[list[k][1]].paid
    /\ \A j, k \in 1..n : list[j][1] = list[k][1] => j = k
Untouched(row) ==
    row.credited = 0 /\ row.used = 0 /\ row.refunded = 0 /\ row.wrong = 0 /\ row.refundedFrom = 0 /\ row.wrongFrom = 0

LEMMA NewTransferIs ==
    ASSUME NEW s \in Suppliers, NEW amount \in Nat \ {0}, NEW ref \in Refs \cup {NoRef}
    PROVE  /\ NewTransfer(s, amount, ref) \in TransferRecord /\ Untouched(NewTransfer(s, amount, ref))
           /\ NewTransfer(s, amount, ref).amount = amount /\ NewTransfer(s, amount, ref).supplier = s
           /\ NewTransfer(s, amount, ref).ref = ref
  BY DEF NewTransfer, TransferRecord, Untouched

LEMMA NewMoneyIs ==
    ASSUME NEW ds \in Seq(DebtRecord), NEW n \in Nat, NEW list, Due(list, n, ds),
           transfers \in Seq(TransferRecord), NEW ref \in Refs \cup {NoRef}
    PROVE  LET money == NewMoney(ds, list, ref)
               new == money.payments
               old == Len(transfers)
           IN /\ new \in Seq(PaymentRecord) /\ Fresh(new) /\ Fits(ds, new) /\ DOMAIN new = 1..n
              /\ money.transfers \in Seq(TransferRecord)
              /\ \A k \in DOMAIN new :
                    /\ new[k].debt = list[k][1] /\ new[k].to = ds[list[k][1]].party
                    /\ new[k].amount = list[k][2] /\ new[k].ref = ref /\ new[k].group = 0 /\ ~new[k].old
                    /\ IF ToSupplier(ds[list[k][1]])
                       THEN \E r \in DOMAIN money.transfers :
                               new[k].transfer = old + r /\ money.transfers[r].supplier = new[k].to
                       ELSE new[k].transfer = 0
              /\ \A r \in DOMAIN money.transfers :
                    /\ Untouched(money.transfers[r]) /\ money.transfers[r].ref = ref
                    /\ WorthOf(new, From(new, old + r)) = money.transfers[r].amount
<1> DEFINE money == NewMoney(ds, list, ref)
           new == money.payments
           made == money.transfers
           old == Len(transfers)
           wrapped(k) == {j \in 1..k : ToSupplier(ds[list[j][1]])}
           transfer(k) == IF k \in wrapped(k) THEN old + Cardinality(wrapped(k)) ELSE 0
           W == wrapped(n)
           c == Cardinality(W)
           order == InOrder(W)
<1>1. /\ DOMAIN list = 1..n /\ old \in Nat
      /\ \A k \in 1..n : list[k][1] \in DOMAIN ds /\ list[k][2] \in Nat \ {0}
  BY LenProperties DEF Due
<1>2. new = [k \in 1..n |-> NewPayment(list[k][1], ds[list[k][1]].party, list[k][2], transfer(k), 0, ref)]
  BY <1>1 DEF NewMoney
<1>3. made = [k \in DOMAIN order |-> NewTransfer(new[order[k]].to, new[order[k]].amount, ref)]
  <2> DEFINE row == InOrder({j \in 1..Len(list) : ToSupplier(ds[list[j][1]])})
             wr(k) == {j \in 1..k : ToSupplier(ds[list[j][1]])}
             tr(k) == IF k \in wr(k) THEN Len(transfers) + Cardinality(wr(k)) ELSE 0
             N == [k \in DOMAIN list |-> NewPayment(list[k][1], ds[list[k][1]].party, list[k][2], tr(k), 0, ref)]
  <2>0. money = [payments |-> N, transfers |-> [k \in DOMAIN row |-> NewTransfer(N[row[k]].to, N[row[k]].amount, ref)]]
    BY DEF NewMoney
  <2>1. made = [k \in DOMAIN row |-> NewTransfer(new[row[k]].to, new[row[k]].amount, ref)]
    <3> HIDE DEF N, row, money
    <3>1. new = N
      BY <2>0
    <3>2. made = [k \in DOMAIN row |-> NewTransfer(N[row[k]].to, N[row[k]].amount, ref)]
      BY <2>0
    <3> HIDE DEF new
    <3> QED
      BY <3>1, <3>2
  <2>2. Len(list) = n
    BY DEF Due
  <2>3. row = order
    BY <2>2
  <2> HIDE DEF row, order, made, new
  <2> QED
    BY <2>1, <2>3
<1>4. W \in SUBSET (1..n) /\ W \in SUBSET Int /\ IsFiniteSet(W)
  <2>1. W \in SUBSET (1..n) /\ IsFiniteSet(1..n)
    BY FS_Interval
  <2> HIDE DEF W
  <2>2. IsFiniteSet(W)
    BY <2>1, FS_Subset
  <2>3. W \in SUBSET Int
    BY <2>1
  <2> QED
    BY <2>1, <2>2, <2>3
<1>5. ASSUME NEW k \in 1..n
      PROVE  /\ k \in W <=> ToSupplier(ds[list[k][1]])
             /\ k \in wrapped(k) <=> k \in W
             /\ wrapped(k) = {y \in W : y <= k}
  <2>1. wrapped(k) = {y \in W : y <= k}
    OBVIOUS
  <2>2. k \in 1..k
    OBVIOUS
  <2> QED
    BY <2>1, <2>2
<1>6. /\ DOMAIN order = 1..c /\ c \in Nat /\ Matches(order, 1..c, W)
      /\ \A k \in 1..c : Cardinality({y \in W : y <= order[k]}) = k
  <2> HIDE DEF W
  <2> QED
    BY <1>4, InOrderIs
<1>7. ASSUME NEW k \in W PROVE \E r \in 1..c : order[r] = k /\ transfer(k) = old + r
  <2>1. PICK r \in 1..c : order[r] = k
    BY <1>6 DEF Matches
  <2>2. k \in 1..n /\ k \in wrapped(k) /\ wrapped(k) = {y \in W : y <= k}
    BY <1>4, <1>5
  <2>3. Cardinality({y \in W : y <= k}) = r
    BY <1>6, <2>1
  <2>4. Cardinality(wrapped(k)) = r
    BY <2>2, <2>3
  <2> HIDE DEF wrapped, W
  <2> QED
    BY <2>1, <2>2, <2>4
<1>8. ASSUME NEW k \in 1..n, k \notin W PROVE transfer(k) = 0
  BY <1>5, <1>8
<1> HIDE DEF order, c, transfer, wrapped
<1>9. ASSUME NEW k \in 1..n PROVE transfer(k) \in Nat
  <2>1. CASE k \in W
    BY <1>1, <1>6, <1>7, <2>1
  <2>2. CASE k \notin W
    BY <1>8, <2>2
  <2> QED
    BY <2>1, <2>2
<1> HIDE DEF new, made, money
<1>10. ASSUME NEW k \in 1..n
       PROVE  /\ new[k] = NewPayment(list[k][1], ds[list[k][1]].party, list[k][2], transfer(k), 0, ref)
              /\ new[k] \in PaymentRecord
  <2>1. new[k] = NewPayment(list[k][1], ds[list[k][1]].party, list[k][2], transfer(k), 0, ref)
    BY <1>2
  <2>2. list[k][1] \in Nat \ {0} /\ ds[list[k][1]].party \in Parties \cup Buyers
    BY <1>1, DebtRowIs
  <2>3. NewPayment(list[k][1], ds[list[k][1]].party, list[k][2], transfer(k), 0, ref) \in PaymentRecord
    BY <1>1, <1>9, <2>2, NewPaymentIs
  <2> QED
    BY <2>1, <2>3
<1>11. ASSUME NEW k \in 1..n
       PROVE  /\ new[k].debt = list[k][1] /\ new[k].amount = list[k][2] /\ ~new[k].reversed
              /\ new[k].transfer = transfer(k) /\ new[k].group = 0 /\ new[k].ref = ref
              /\ new[k].decided = 0 /\ new[k].to = ds[list[k][1]].party /\ ~new[k].old
  <2>1. new[k] = NewPayment(list[k][1], ds[list[k][1]].party, list[k][2], transfer(k), 0, ref)
    BY <1>10
  <2> QED
    BY ONLY <2>1 DEF NewPayment
<1>12. DOMAIN new = 1..n /\ new \in Seq(PaymentRecord)
  <2>1. new = [k \in 1..n |-> new[k]]
    BY <1>2
  <2>2. \A k \in 1..n : new[k] \in PaymentRecord
    BY <1>10
  <2>3. new \in Seq(PaymentRecord)
    BY <2>1, <2>2, IsASeq
  <2> QED
    BY <1>2, <2>3
<1>13. Fresh(new)
  BY <1>11, <1>12 DEF Fresh
<1>14. Fits(ds, new)
  <2> SUFFICES ASSUME NEW d \in DOMAIN ds, On(new, d) # {}
               PROVE  ds[d].paid + WorthOf(new, On(new, d)) <= ds[d].amount
    BY DEF Fits
  <2>1. PICK k \in 1..n : new[k].debt = d
    BY <1>12 DEF On
  <2>2. ASSUME NEW j \in On(new, d) PROVE j = k
    <3>1. j \in 1..n /\ new[j].debt = d
      BY <1>12 DEF On
    <3> QED
      BY <1>11, <2>1, <3>1 DEF Due
  <2>3. On(new, d) = {k}
    BY <1>12, <2>1, <2>2 DEF On
  <2>4. list[k][2] \in Nat /\ Worth(new)[k] = list[k][2] /\ list[k][2] <= ds[d].amount - ds[d].paid
    BY <1>1, <1>11, <1>12, <2>1 DEF Worth, Due
  <2>5. WorthOf(new, {k}) = list[k][2]
    <3>1. Worth(new)[k] \in Int
      BY <2>4
    <3> QED
      BY <2>4, <3>1, SumOne DEF WorthOf
  <2>6. WorthOf(new, On(new, d)) = list[k][2]
    BY <2>3, <2>5
  <2>7. ds[d].amount \in Nat /\ ds[d].paid \in Nat
    BY RowIs
  <2> QED
    BY <2>4, <2>6, <2>7
<1>15. ASSUME NEW r \in 1..c
       PROVE  /\ order[r] \in W /\ order[r] \in 1..n /\ made[r] \in TransferRecord /\ Untouched(made[r])
              /\ made[r].amount = list[order[r]][2] /\ made[r].supplier = new[order[r]].to /\ made[r].ref = ref
              /\ transfer(order[r]) = old + r
  <2>1. order[r] \in W /\ order[r] \in 1..n
    BY <1>4, <1>6 DEF Matches
  <2>2. made[r] = NewTransfer(new[order[r]].to, new[order[r]].amount, ref)
    BY <1>3, <1>6
  <2>3. new[order[r]].to \in Suppliers /\ new[order[r]].amount = list[order[r]][2] /\ list[order[r]][2] \in Nat \ {0}
    <3>1. ToSupplier(ds[list[order[r]][1]])
      BY <1>5, <2>1
    <3> QED
      BY <1>1, <1>11, <2>1, <3>1 DEF ToSupplier
  <2>4. transfer(order[r]) = old + r
    <3>1. PICK q \in 1..c : order[q] = order[r] /\ transfer(order[r]) = old + q
      BY <1>7, <2>1
    <3> QED
      BY <1>6, <3>1 DEF Matches
  <2> QED
    BY <2>1, <2>2, <2>3, <2>4, NewTransferIs
<1>16. DOMAIN made = 1..c /\ made \in Seq(TransferRecord)
  <2>1. DOMAIN made = 1..c /\ made = [k \in 1..c |-> made[k]]
    BY <1>3, <1>6
  <2>2. \A k \in 1..c : made[k] \in TransferRecord
    BY <1>15
  <2>3. c \in Nat
    BY <1>6
  <2> HIDE DEF made, c
  <2>4. made \in Seq(TransferRecord)
    BY ONLY <2>1, <2>2, <2>3, IsASeq
  <2> QED
    BY <2>1, <2>4
<1>17. ASSUME NEW r \in 1..c PROVE WorthOf(new, From(new, old + r)) = made[r].amount
  <2> DEFINE k == order[r]
  <2>1. k \in 1..n /\ k \in W /\ transfer(k) = old + r /\ made[r].amount = list[k][2]
    BY <1>15
  <2> HIDE DEF k
  <2>2. ASSUME NEW j \in From(new, old + r) PROVE j = k
    <3>1. j \in 1..n /\ transfer(j) = old + r
      BY <1>11, <1>12 DEF From
    <3>2. j \in W
      BY <1>1, <1>8, <3>1
    <3>3. PICK q \in 1..c : order[q] = j /\ transfer(j) = old + q
      BY <1>7, <3>2
    <3>4. q = r
      BY <1>1, <3>1, <3>3
    <3> QED
      BY <3>3, <3>4 DEF k
  <2>3. From(new, old + r) = {k}
    BY <1>11, <1>12, <2>1, <2>2 DEF From
  <2>4. list[k][2] \in Int /\ Worth(new)[k] = list[k][2]
    BY <1>1, <1>11, <1>12, <2>1 DEF Worth
  <2>5. WorthOf(new, {k}) = list[k][2]
    BY <2>4, SumOne DEF WorthOf
  <2> QED
    BY <2>1, <2>3, <2>5
<1>18. ASSUME NEW k \in 1..n
       PROVE  IF ToSupplier(ds[list[k][1]])
              THEN \E r \in DOMAIN made : new[k].transfer = old + r /\ made[r].supplier = new[k].to
              ELSE new[k].transfer = 0
  <2>1. CASE k \in W
    <3>1. PICK r \in 1..c : order[r] = k /\ transfer(k) = old + r
      BY <1>7, <2>1
    <3>2. made[r].supplier = new[k].to
      BY <1>15, <3>1
    <3> QED
      BY <1>5, <1>11, <1>16, <2>1, <3>1, <3>2
  <2>2. CASE k \notin W
    BY <1>5, <1>8, <1>11, <2>2
  <2> QED
    BY <2>1, <2>2
<1> QED
  BY <1>11, <1>12, <1>13, <1>14, <1>15, <1>16, <1>17, <1>18 DEF new, made, money

-----------------------------------------------------------------------------
(* The books: every row has its type, what is linked exists, every transfer is
   spent as its payments say and every debt paid as they do. *)

Sound(ds, ps, ts) ==
    /\ ds \in Seq(DebtRecord) /\ ps \in Seq(PaymentRecord) /\ ts \in Seq(TransferRecord)
    /\ Linked(ds, ps, ts)
    /\ \A t \in DOMAIN ts : Spent(ps, ts, t)
Booked(ds, ps) == \A d \in DOMAIN ds : Allocated(ds, ps, d)

LEMMA LinkedJoined ==
    ASSUME NEW ds, NEW ps \in Seq(PaymentRecord), NEW ts, NEW ds2, NEW ts2, NEW new \in Seq(PaymentRecord),
           Linked(ds, ps, ts), Fresh(new), DOMAIN ds \subseteq DOMAIN ds2,
           Len(ts) \in Nat, Len(ts2) \in Nat, Len(ts) <= Len(ts2),
           \A k \in DOMAIN new : new[k].debt \in DOMAIN ds2 /\ new[k].transfer \in 0..Len(ts2)
    PROVE  Linked(ds2, ps \o new, ts2)
<1> DEFINE j == ps \o new
           n == Len(ps)
<1>1. /\ DOMAIN j = DOMAIN ps \cup After(n, DOMAIN new)
      /\ \A p \in DOMAIN ps : j[p] = ps[p]
      /\ \A k \in DOMAIN new : j[n + k] = new[k]
  BY JoinIs
<1>2. \A k \in DOMAIN new : new[k].amount \in Nat
  BY WorthIs
<1> HIDE DEF j, n
<1> SUFFICES ASSUME NEW p \in DOMAIN j
             PROVE  /\ j[p].debt \in DOMAIN ds2 /\ j[p].transfer \in 0..Len(ts2)
                    /\ j[p].decided <= j[p].amount /\ (j[p].transfer = 0 => j[p].decided = 0)
  BY DEF Linked, j
<1>3. CASE p \in DOMAIN ps
  <2>1. j[p] = ps[p]
    BY <1>1, <1>3
  <2>2. /\ ps[p].debt \in DOMAIN ds /\ ps[p].transfer \in 0..Len(ts)
        /\ ps[p].decided <= ps[p].amount /\ (ps[p].transfer = 0 => ps[p].decided = 0)
    BY <1>3 DEF Linked
  <2> QED
    BY <2>1, <2>2
<1>4. CASE p \in After(n, DOMAIN new)
  <2>1. PICK k \in DOMAIN new : p = n + k
    BY <1>4 DEF After
  <2>2. j[p] = new[k]
    BY <1>1, <2>1
  <2>3. new[k].decided = 0 /\ new[k].amount \in Nat
    BY <1>2 DEF Fresh
  <2> QED
    BY <2>2, <2>3
<1> QED
  BY <1>1, <1>3, <1>4

\* Nothing is on a debt or from a transfer that does not exist.
LEMMA Unlinked ==
    ASSUME NEW ds, NEW ps, NEW ts, Linked(ds, ps, ts), NEW x
    PROVE  /\ x \notin DOMAIN ds => Active(ps, x) = {} /\ WorthOf(ps, Active(ps, x)) = 0
           /\ x \notin 0..Len(ts) =>
                 /\ From(ps, x) = {} /\ Off(ps, x) = {} /\ WorthOf(ps, From(ps, x)) = 0
                 /\ SumFunctionOnSet(Decided(ps), Off(ps, x)) = 0
<1>1. WorthOf(ps, {}) = 0 /\ SumFunctionOnSet(Decided(ps), {}) = 0
  BY SumEmpty DEF WorthOf
<1>2. ASSUME x \notin DOMAIN ds PROVE Active(ps, x) = {}
  BY <1>2 DEF Linked, Active
<1>3. ASSUME x \notin 0..Len(ts) PROVE From(ps, x) = {} /\ Off(ps, x) = {}
  BY <1>3 DEF Linked, From, Off
<1> QED
  BY <1>1, <1>2, <1>3

\* A transfer whose credit pays for w more.
LEMMA SpentJoined ==
    ASSUME NEW ps \in Seq(PaymentRecord), NEW new \in Seq(PaymentRecord), Fresh(new),
           NEW ts \in Seq(TransferRecord), NEW t \in DOMAIN ts, Spent(ps, ts, t), NEW ts2, NEW w \in Nat,
           WorthOf(new, From(new, t)) = w, w <= Credit(ts, t),
           ts2[t].used = ts[t].used + w, ts2[t].amount = ts[t].amount, ts2[t].credited = ts[t].credited,
           ts2[t].refunded = ts[t].refunded, ts2[t].wrong = ts[t].wrong,
           ts2[t].refundedFrom = ts[t].refundedFrom, ts2[t].wrongFrom = ts[t].wrongFrom
    PROVE  Spent(ps \o new, ts2, t)
<1>1. /\ WorthOf(ps \o new, From(ps \o new, t)) = WorthOf(ps, From(ps, t)) + w
      /\ SumFunctionOnSet(Decided(ps \o new), Off(ps \o new, t)) = SumFunctionOnSet(Decided(ps), Off(ps, t))
  BY SumsJoined
<1>2. /\ Credit(ts, t) = ts[t].credited - ts[t].used - ts[t].refunded - ts[t].wrong
      /\ ts[t].credited \in Nat /\ ts[t].used \in Nat /\ ts[t].refunded \in Nat /\ ts[t].wrong \in Nat
      /\ ts[t].amount \in Nat
  BY CreditIs
<1>3. /\ WorthOf(ps, From(ps, t)) = ts[t].amount + ts[t].used
      /\ ts[t].used + ts[t].refunded + ts[t].wrong <= ts[t].credited
      /\ SumFunctionOnSet(Decided(ps), Off(ps, t)) = ts[t].credited + ts[t].refundedFrom + ts[t].wrongFrom
  BY DEF Spent
<1>4. WorthOf(ps \o new, From(ps \o new, t)) = ts2[t].amount + ts2[t].used
  BY <1>1, <1>2, <1>3
<1>5. ts2[t].used + ts2[t].refunded + ts2[t].wrong <= ts2[t].credited
  <2>1. ts[t].used + w + ts[t].refunded + ts[t].wrong <= ts[t].credited
    <3>1. w \in Nat /\ w <= ts[t].credited - ts[t].used - ts[t].refunded - ts[t].wrong
      BY <1>2
    <3>2. PICK used \in Nat, refunded \in Nat, wrong \in Nat, credited \in Nat, more \in Nat :
              /\ used = ts[t].used /\ refunded = ts[t].refunded /\ wrong = ts[t].wrong
              /\ credited = ts[t].credited /\ more = w
      BY ONLY <1>2, <3>1
    <3>3. more <= credited - used - refunded - wrong
      BY ONLY <3>1, <3>2
    <3>4. used + more + refunded + wrong <= credited
      BY ONLY <3>3
    <3> QED
      BY ONLY <3>2, <3>4
  <2> QED
    BY ONLY <2>1, ts2[t].used = ts[t].used + w, ts2[t].refunded = ts[t].refunded, ts2[t].wrong = ts[t].wrong,
       ts2[t].credited = ts[t].credited
<1>6. SumFunctionOnSet(Decided(ps \o new), Off(ps \o new, t)) = ts2[t].credited + ts2[t].refundedFrom + ts2[t].wrongFrom
  BY <1>1, <1>3
<1> QED
  BY <1>4, <1>5, <1>6 DEF Spent

\* A transfer nothing more is paid from.
LEMMA SpentKept ==
    ASSUME NEW ps \in Seq(PaymentRecord), NEW new \in Seq(PaymentRecord), Fresh(new),
           NEW ts \in Seq(TransferRecord), NEW t \in DOMAIN ts, Spent(ps, ts, t), NEW ts2,
           From(new, t) = {}, ts2[t] = ts[t]
    PROVE  Spent(ps \o new, ts2, t)
<1>1. PICK w \in Nat : w = 0
  OBVIOUS
<1>2. WorthOf(new, From(new, t)) = w
  BY <1>1, SumEmpty DEF WorthOf
<1>3. /\ Credit(ts, t) = ts[t].credited - ts[t].used - ts[t].refunded - ts[t].wrong
      /\ ts[t].credited \in Nat /\ ts[t].used \in Nat /\ ts[t].refunded \in Nat /\ ts[t].wrong \in Nat
  BY CreditIs
<1>4. w <= Credit(ts, t) /\ ts2[t].used = ts[t].used + w
  BY <1>1, <1>3 DEF Spent
<1> QED
  BY <1>2, <1>4, SpentJoined

\* A new transfer, all of it on the payments made from it.
LEMMA SpentNew ==
    ASSUME NEW ds, NEW ps \in Seq(PaymentRecord), NEW ts \in Seq(TransferRecord), Linked(ds, ps, ts),
           NEW new \in Seq(PaymentRecord), Fresh(new), NEW t \in Nat, t > Len(ts), NEW ts2,
           Untouched(ts2[t]), WorthOf(new, From(new, t)) = ts2[t].amount
    PROVE  Spent(ps \o new, ts2, t)
<1>1. /\ WorthOf(ps \o new, From(ps \o new, t)) = WorthOf(ps, From(ps, t)) + WorthOf(new, From(new, t))
      /\ SumFunctionOnSet(Decided(ps \o new), Off(ps \o new, t)) = SumFunctionOnSet(Decided(ps), Off(ps, t))
      /\ WorthOf(new, From(new, t)) \in Nat
  BY SumsJoined
<1>2. WorthOf(ps, From(ps, t)) = 0 /\ SumFunctionOnSet(Decided(ps), Off(ps, t)) = 0
  <2>1. t \notin 0..Len(ts)
    BY LenProperties
  <2> QED
    BY <2>1, Unlinked
<1>3. ts2[t].amount \in Nat
  BY <1>1
<1> QED
  BY <1>1, <1>2, <1>3 DEF Spent, Untouched

LEMMA BookedJoined ==
    ASSUME NEW ds \in Seq(DebtRecord), NEW ps \in Seq(PaymentRecord), NEW new \in Seq(PaymentRecord),
           Fresh(new), Fits(ds, new), Booked(ds, ps)
    PROVE  Booked(Counted(ds, new), ps \o new)
<1>1. DOMAIN Counted(ds, new) = DOMAIN ds
  BY CountedIs
<1>2. ASSUME NEW d \in DOMAIN ds PROVE Allocated(Counted(ds, new), ps \o new, d)
  <2>1. Allocated(ds, ps, d)
    BY DEF Booked
  <2> QED
    BY <2>1, CountedAllocated
<1> QED
  BY <1>1, <1>2 DEF Booked

\* New money keeps the books.
LEMMA MoneyAdded ==
    ASSUME NEW ds, NEW ps, Sound(ds, ps, transfers), Booked(ds, ps),
           NEW n \in Nat, NEW list, Due(list, n, ds), NEW ref \in Refs \cup {NoRef}
    PROVE  LET money == NewMoney(ds, list, ref)
           IN /\ Sound(Counted(ds, money.payments), ps \o money.payments, transfers \o money.transfers)
              /\ Booked(Counted(ds, money.payments), ps \o money.payments)
<1> DEFINE new == NewMoney(ds, list, ref).payments
           made == NewMoney(ds, list, ref).transfers
           old == Len(transfers)
           all == transfers \o made
<1>1. /\ ds \in Seq(DebtRecord) /\ ps \in Seq(PaymentRecord) /\ transfers \in Seq(TransferRecord)
      /\ Linked(ds, ps, transfers) /\ \A t \in DOMAIN transfers : Spent(ps, transfers, t)
  BY DEF Sound
<1>2. /\ new \in Seq(PaymentRecord) /\ Fresh(new) /\ Fits(ds, new) /\ DOMAIN new = 1..n
      /\ made \in Seq(TransferRecord)
      /\ \A k \in DOMAIN new :
            /\ new[k].debt = list[k][1]
            /\ IF ToSupplier(ds[list[k][1]])
               THEN \E r \in DOMAIN made : new[k].transfer = old + r
               ELSE new[k].transfer = 0
      /\ \A r \in DOMAIN made : Untouched(made[r]) /\ WorthOf(new, From(new, old + r)) = made[r].amount
  BY <1>1, NewMoneyIs
<1> HIDE DEF new, made
<1>3. /\ all \in Seq(TransferRecord) /\ Len(all) = old + Len(made)
      /\ DOMAIN all = DOMAIN transfers \cup After(old, DOMAIN made)
      /\ \A t \in DOMAIN transfers : all[t] = transfers[t]
      /\ \A r \in DOMAIN made : all[old + r] = made[r]
      /\ DOMAIN transfers = 1..old /\ DOMAIN made = 1..Len(made) /\ old \in Nat /\ Len(made) \in Nat
  BY <1>1, <1>2, JoinIs
<1> HIDE DEF all, old
<1>4. ASSUME NEW k \in DOMAIN new
      PROVE  /\ new[k].debt \in DOMAIN ds
             /\ new[k].transfer = 0 \/ \E r \in DOMAIN made : new[k].transfer = old + r
  BY <1>2 DEF Due
<1>5. /\ Counted(ds, new) \in Seq(DebtRecord) /\ DOMAIN Counted(ds, new) = DOMAIN ds
  BY <1>1, <1>2, CountedIs
<1>6. Linked(Counted(ds, new), ps \o new, all)
  <2>1. \A k \in DOMAIN new : new[k].debt \in DOMAIN Counted(ds, new) /\ new[k].transfer \in 0..Len(all)
    BY <1>3, <1>4, <1>5
  <2>2. Len(transfers) \in Nat /\ Len(all) \in Nat /\ Len(transfers) <= Len(all)
    BY <1>3 DEF old
  <2>3. DOMAIN ds \subseteq DOMAIN Counted(ds, new)
    BY <1>5
  <2> QED
    BY <1>1, <1>2, <2>1, <2>2, <2>3, LinkedJoined
<1>7. ASSUME NEW t \in DOMAIN all PROVE Spent(ps \o new, all, t)
  <2>1. CASE t \in DOMAIN transfers
    <3>1. From(new, t) = {}
      BY <1>3, <1>4, <2>1 DEF From
    <3>2. all[t] = transfers[t] /\ Spent(ps, transfers, t)
      BY <1>1, <1>3, <2>1
    <3> QED
      BY <1>1, <1>2, <2>1, <3>1, <3>2, SpentKept
  <2>2. CASE t \in After(old, DOMAIN made)
    <3>1. PICK r \in DOMAIN made : t = old + r
      BY <2>2 DEF After
    <3>2. t \in Nat /\ t > Len(transfers)
      BY <1>3, <3>1 DEF old
    <3>3. all[t] = made[r] /\ Untouched(made[r]) /\ WorthOf(new, From(new, t)) = made[r].amount
      BY <1>2, <1>3, <3>1
    <3> QED
      BY <1>1, <1>2, <3>2, <3>3, SpentNew
  <2> QED
    BY <1>3, <2>1, <2>2
<1>8. ps \o new \in Seq(PaymentRecord)
  BY <1>1, <1>2, JoinIs
<1>9. Sound(Counted(ds, new), ps \o new, all)
  BY <1>3, <1>5, <1>6, <1>7, <1>8 DEF Sound
<1>10. Booked(Counted(ds, new), ps \o new)
  BY <1>1, <1>2, BookedJoined
<1> QED
  BY <1>9, <1>10 DEF all, new, made

LEMMA CreditUsedIs ==
    ASSUME NEW ts \in Seq(TransferRecord), NEW new \in Seq(PaymentRecord)
    PROVE  /\ CreditUsed(ts, new) \in Seq(TransferRecord) /\ Len(CreditUsed(ts, new)) = Len(ts)
           /\ DOMAIN CreditUsed(ts, new) = DOMAIN ts
           /\ \A t \in DOMAIN ts :
                 LET row == CreditUsed(ts, new)[t]
                 IN /\ row.used = ts[t].used + WorthOf(new, From(new, t)) /\ row.amount = ts[t].amount
                    /\ row.credited = ts[t].credited /\ row.refunded = ts[t].refunded /\ row.wrong = ts[t].wrong
                    /\ row.refundedFrom = ts[t].refundedFrom /\ row.wrongFrom = ts[t].wrongFrom
                    /\ row.supplier = ts[t].supplier /\ row.ref = ts[t].ref
                    /\ WorthOf(new, From(new, t)) \in Nat
<1> DEFINE us == CreditUsed(ts, new)
<1>1. DOMAIN ts = 1..Len(ts) /\ Len(ts) \in Nat
  BY LenProperties
<1>2. us = [t \in 1..Len(ts) |-> us[t]] /\ DOMAIN us = DOMAIN ts
  BY <1>1 DEF CreditUsed
<1>3. ASSUME NEW t \in DOMAIN ts
      PROVE  us[t] = [ts[t] EXCEPT !.used = ts[t].used + WorthOf(new, From(new, t))]
  BY DEF CreditUsed, From
<1> HIDE DEF us
<1>4. ASSUME NEW t \in DOMAIN ts
      PROVE  /\ us[t].used = ts[t].used + WorthOf(new, From(new, t)) /\ us[t].amount = ts[t].amount
             /\ us[t].credited = ts[t].credited /\ us[t].refunded = ts[t].refunded /\ us[t].wrong = ts[t].wrong
             /\ us[t].refundedFrom = ts[t].refundedFrom /\ us[t].wrongFrom = ts[t].wrongFrom
             /\ us[t].supplier = ts[t].supplier /\ us[t].ref = ts[t].ref
             /\ us[t] \in TransferRecord /\ WorthOf(new, From(new, t)) \in Nat
  <2>1. From(new, t) \in SUBSET DOMAIN new
    BY DEF From
  <2>2. PICK w \in Nat : w = WorthOf(new, From(new, t))
    BY <2>1, WorthIs
  <2>3. /\ us[t] = [ts[t] EXCEPT !.used = ts[t].used + w] /\ ts[t] \in TransferRecord
        /\ ts[t].used + w \in Nat
    <3>1. ts[t] \in TransferRecord /\ ts[t].used \in Nat
      BY CreditIs
    <3>2. us[t] = [ts[t] EXCEPT !.used = ts[t].used + w]
      BY <1>3, <2>2
    <3>3. ts[t].used + w \in Nat
      BY <3>1
    <3> QED
      BY <3>1, <3>2, <3>3
  <2>4. /\ us[t].used = ts[t].used + w /\ us[t].amount = ts[t].amount
        /\ us[t].credited = ts[t].credited /\ us[t].refunded = ts[t].refunded /\ us[t].wrong = ts[t].wrong
        /\ us[t].refundedFrom = ts[t].refundedFrom /\ us[t].wrongFrom = ts[t].wrongFrom
        /\ us[t].supplier = ts[t].supplier /\ us[t].ref = ts[t].ref
        /\ us[t] \in TransferRecord
    BY ONLY <2>3 DEF TransferRecord
  <2> QED
    BY <2>2, <2>4
<1>5. us \in Seq(TransferRecord)
  <2>1. \A t \in 1..Len(ts) : us[t] \in TransferRecord
    BY <1>1, <1>4
  <2> QED
    BY <1>1, <1>2, <2>1, IsASeq
<1>6. Len(us) = Len(ts)
  BY <1>1, <1>2, <1>5, LenProperties
<1> QED
  BY <1>2, <1>4, <1>5, <1>6 DEF us

\* Credit used again keeps the books.
LEMMA CreditAdded ==
    ASSUME NEW ds, NEW ps, NEW ts, Sound(ds, ps, ts), Booked(ds, ps),
           NEW n \in Nat, NEW over, Payable(over, n, ds), NEW m \in Nat, NEW ids, Holding(ids, m, ts), NEW amount \in Nat
    PROVE  LET new == CreditPieces(ds, ts, over, ids, amount)
           IN /\ Sound(Counted(ds, new), ps \o new, CreditUsed(ts, new))
              /\ Booked(Counted(ds, new), ps \o new)
<1> DEFINE new == CreditPieces(ds, ts, over, ids, amount)
           us == CreditUsed(ts, new)
<1>1. /\ ds \in Seq(DebtRecord) /\ ps \in Seq(PaymentRecord) /\ ts \in Seq(TransferRecord)
      /\ Linked(ds, ps, ts) /\ \A t \in DOMAIN ts : Spent(ps, ts, t)
  BY DEF Sound
<1>2. /\ new \in Seq(PaymentRecord) /\ Fresh(new)
      /\ \A k \in DOMAIN new : /\ \E i \in 1..n : new[k].debt = over[i]
                               /\ \E j \in 1..m : new[k].transfer = ids[j]
      /\ \A i \in 1..n : WorthOf(new, On(new, over[i])) <= Share(SizesOf(over, ds), amount, i)
      /\ \A j \in 1..m : WorthOf(new, From(new, ids[j])) <= Credit(ts, ids[j])
  BY <1>1, PiecesIs
<1> HIDE DEF new
<1>3. Fits(ds, new)
  BY <1>1, <1>2, PiecesFit
<1>4. /\ us \in Seq(TransferRecord) /\ Len(us) = Len(ts) /\ DOMAIN us = DOMAIN ts
      /\ DOMAIN ts = 1..Len(ts) /\ Len(ts) \in Nat
  BY <1>1, <1>2, CreditUsedIs, LenProperties
<1>5. /\ Counted(ds, new) \in Seq(DebtRecord) /\ DOMAIN Counted(ds, new) = DOMAIN ds
  BY <1>1, <1>2, CountedIs
<1>6. Linked(Counted(ds, new), ps \o new, us)
  <2>1. ASSUME NEW k \in DOMAIN new PROVE new[k].debt \in DOMAIN Counted(ds, new) /\ new[k].transfer \in 0..Len(us)
    <3>1. PICK i \in 1..n, j \in 1..m : new[k].debt = over[i] /\ new[k].transfer = ids[j]
      BY <1>2
    <3>2. over[i] \in DOMAIN ds /\ ids[j] \in DOMAIN ts
      BY DEF Payable, Holding
    <3>3. ids[j] \in 1..Len(us)
      BY <1>4, <3>2
    <3> QED
      BY <1>4, <1>5, <3>1, <3>2, <3>3
  <2>2. Len(us) \in Nat /\ Len(ts) <= Len(us) /\ DOMAIN ds \subseteq DOMAIN Counted(ds, new)
    BY <1>4, <1>5
  <2> HIDE DEF us
  <2> QED
    BY <1>1, <1>2, <1>4, <2>1, <2>2, LinkedJoined
<1>7. ASSUME NEW t \in DOMAIN us PROVE Spent(ps \o new, us, t)
  <2>1. t \in DOMAIN ts
    BY <1>4
  <2>2. /\ us[t].used = ts[t].used + WorthOf(new, From(new, t)) /\ us[t].amount = ts[t].amount
        /\ us[t].credited = ts[t].credited /\ us[t].refunded = ts[t].refunded /\ us[t].wrong = ts[t].wrong
        /\ us[t].refundedFrom = ts[t].refundedFrom /\ us[t].wrongFrom = ts[t].wrongFrom
        /\ WorthOf(new, From(new, t)) \in Nat
    BY <1>1, <1>2, <2>1, CreditUsedIs
  <2> HIDE DEF us
  <2>3. WorthOf(new, From(new, t)) <= Credit(ts, t)
    <3>1. CASE From(new, t) = {}
      <4>1. WorthOf(new, From(new, t)) = 0
        BY <3>1, SumEmpty DEF WorthOf
      <4>2. /\ Credit(ts, t) = ts[t].credited - ts[t].used - ts[t].refunded - ts[t].wrong
            /\ ts[t].credited \in Nat /\ ts[t].used \in Nat /\ ts[t].refunded \in Nat /\ ts[t].wrong \in Nat
        BY <1>1, <2>1, CreditIs
      <4>3. ts[t].used + ts[t].refunded + ts[t].wrong <= ts[t].credited
        BY <1>1, <2>1 DEF Spent
      <4> QED
        BY <4>1, <4>2, <4>3
    <3>2. CASE From(new, t) # {}
      <4>1. PICK k \in DOMAIN new : new[k].transfer = t
        BY <3>2 DEF From
      <4>2. PICK j \in 1..m : t = ids[j]
        BY <1>2, <4>1
      <4> QED
        BY <1>2, <4>2
    <3> QED
      BY <3>1, <3>2
  <2>4. Spent(ps, ts, t)
    BY <1>1, <2>1
  <2> QED
    BY <1>1, <1>2, <2>1, <2>2, <2>3, <2>4, SpentJoined
<1>8. ps \o new \in Seq(PaymentRecord)
  BY <1>1, <1>2, JoinIs
<1>9. Sound(Counted(ds, new), ps \o new, us)
  BY <1>4, <1>5, <1>6, <1>7, <1>8 DEF Sound
<1>10. Booked(Counted(ds, new), ps \o new)
  BY <1>1, <1>2, <1>3, BookedJoined
<1> QED
  BY <1>9, <1>10 DEF us, new

\* One transfer over the debts of a row keeps the books.
LEMMA SpreadAdded ==
    ASSUME NEW ds, NEW ps, NEW ts, Sound(ds, ps, ts), Booked(ds, ps),
           NEW n \in Nat, NEW ids, Payable(ids, n, ds), NEW amount \in Nat \ {0},
           amount <= SizeOfAll(ids, n, ds),
           NEW s \in Suppliers, NEW ref \in Refs \cup {NoRef}
    PROVE  LET new == Split(ds, ids, amount, Len(ts) + 1, 0, NoRef)
           IN /\ Sound(Counted(ds, new), ps \o new, Append(ts, NewTransfer(s, amount, ref)))
              /\ Booked(Counted(ds, new), ps \o new)
<1> DEFINE new == Split(ds, ids, amount, Len(ts) + 1, 0, NoRef)
           row == NewTransfer(s, amount, ref)
           all == Append(ts, row)
           sum == SizeOfAll(ids, n, ds)
<1>1. /\ ds \in Seq(DebtRecord) /\ ps \in Seq(PaymentRecord) /\ ts \in Seq(TransferRecord)
      /\ Linked(ds, ps, ts) /\ \A t \in DOMAIN ts : Spent(ps, ts, t)
      /\ DOMAIN ts = 1..Len(ts) /\ Len(ts) \in Nat
  BY LenProperties DEF Sound
<1>2. row \in TransferRecord /\ Untouched(row) /\ row.amount = amount
  BY NewTransferIs
<1> HIDE DEF row
<1>3. /\ all \in Seq(TransferRecord) /\ Len(all) = Len(ts) + 1
      /\ \A i \in 1..Len(ts) : all[i] = ts[i]
      /\ all[Len(ts) + 1] = row
  BY <1>1, <1>2, AppendProperties
<1>4. DOMAIN all = 1..(Len(ts) + 1)
  BY <1>3, LenProperties
<1> HIDE DEF all
<1>5. /\ new \in Seq(PaymentRecord) /\ Fresh(new)
      /\ OneMoney(new, ids, n, ds, Len(ts) + 1, 0, NoRef)
      /\ Fits(ds, new)
      /\ WorthOf(new, DOMAIN new) = Lowest(amount, sum)
  <2>1. PICK r \in Refs \cup {NoRef} : r = NoRef
    OBVIOUS
  <2>2. PICK t \in Nat, g \in Nat, a \in Nat : t = Len(ts) + 1 /\ g = 0 /\ a = amount
    BY <1>1
  <2> DEFINE one == Split(ds, ids, a, t, g, r)
  <2>3. /\ one \in Seq(PaymentRecord) /\ Fresh(one)
        /\ OneMoney(one, ids, n, ds, t, g, r)
        /\ Fits(ds, one)
        /\ WorthOf(one, DOMAIN one) = Lowest(a, sum)
    <3>1. Fresh(one)
      BY <1>1, SplitIs
    <3>2. OneMoney(one, ids, n, ds, t, g, r)
      BY <1>1, SplitIs
    <3>3. WorthOf(one, DOMAIN one) = Lowest(a, sum)
      BY <1>1, SplitIs
    <3> QED
      BY <1>1, <3>1, <3>2, <3>3, SplitIs
  <2>4. new = one
    BY <2>1, <2>2
  <2> HIDE DEF one, new
  <2> QED
    BY <2>1, <2>2, <2>3, <2>4
<1> HIDE DEF new
<1>6. WorthOf(new, DOMAIN new) = amount
  <2>1. sum \in Nat
    <3> DEFINE I == 1..n
               sizes == SizesOf(ids, ds)
    <3>1. IsFiniteSet(I) /\ \A k \in I : sizes[k] \in Nat
      BY FS_Interval DEF Payable, SizesOf
    <3> HIDE DEF I, sizes
    <3>2. SumFunctionOnSet(sizes, I) \in Nat
      BY <3>1, SumNatural
    <3> QED
      BY <3>2 DEF I, sizes, SizeOfAll
  <2> QED
    BY <1>5, <2>1 DEF Lowest
<1>7. ASSUME NEW m \in DOMAIN new PROVE new[m].debt \in DOMAIN ds /\ new[m].transfer = Len(ts) + 1
  BY <1>5 DEF Payable, OneMoney
<1>8. /\ Counted(ds, new) \in Seq(DebtRecord) /\ DOMAIN Counted(ds, new) = DOMAIN ds
  BY <1>1, <1>5, CountedIs
<1>9. Linked(Counted(ds, new), ps \o new, all)
  <2>1. \A k \in DOMAIN new : new[k].debt \in DOMAIN Counted(ds, new) /\ new[k].transfer \in 0..Len(all)
    BY <1>1, <1>3, <1>7, <1>8
  <2>2. Len(all) \in Nat /\ Len(ts) <= Len(all) /\ DOMAIN ds \subseteq DOMAIN Counted(ds, new)
    BY <1>1, <1>3, <1>8
  <2> QED
    BY <1>1, <1>5, <2>1, <2>2, LinkedJoined
<1>10. ASSUME NEW t \in DOMAIN all PROVE Spent(ps \o new, all, t)
  <2>1. CASE t \in DOMAIN ts
    <3>1. From(new, t) = {}
      BY <1>1, <1>7, <2>1 DEF From
    <3>2. all[t] = ts[t] /\ Spent(ps, ts, t)
      BY <1>1, <1>3, <2>1
    <3> QED
      BY <1>1, <1>5, <2>1, <3>1, <3>2, SpentKept
  <2>2. CASE t = Len(ts) + 1
    <3>1. From(new, t) = DOMAIN new
      BY <1>7, <2>2 DEF From
    <3>2. t \in Nat /\ t > Len(ts) /\ Untouched(all[t]) /\ WorthOf(new, From(new, t)) = all[t].amount
      BY <1>1, <1>2, <1>3, <1>6, <2>2, <3>1
    <3> QED
      BY <1>1, <1>5, <3>2, SpentNew
  <2> QED
    BY <1>1, <1>4, <2>1, <2>2
<1>11. ps \o new \in Seq(PaymentRecord)
  BY <1>1, <1>5, JoinIs
<1>12. Sound(Counted(ds, new), ps \o new, all)
  BY <1>3, <1>8, <1>9, <1>10, <1>11 DEF Sound
<1>13. Booked(Counted(ds, new), ps \o new)
  BY <1>1, <1>5, BookedJoined
<1> QED
  BY <1>12, <1>13 DEF all, new, row

\* What a customer paid, over what they owe, keeps the books.
LEMMA GroupAdded ==
    ASSUME NEW ds, NEW ps, NEW ts, Sound(ds, ps, ts), Booked(ds, ps),
           NEW n \in Nat, NEW ids, Payable(ids, n, ds), NEW amount \in Nat,
           NEW group \in Nat, NEW ref \in Refs \cup {NoRef}
    PROVE  LET new == Split(ds, ids, amount, 0, group, ref)
           IN /\ Sound(Counted(ds, new), ps \o new, ts)
              /\ Booked(Counted(ds, new), ps \o new)
<1> DEFINE new == Split(ds, ids, amount, 0, group, ref)
<1>1. /\ ds \in Seq(DebtRecord) /\ ps \in Seq(PaymentRecord) /\ ts \in Seq(TransferRecord)
      /\ Linked(ds, ps, ts) /\ \A t \in DOMAIN ts : Spent(ps, ts, t)
      /\ DOMAIN ts = 1..Len(ts) /\ Len(ts) \in Nat
  BY LenProperties DEF Sound
<1>2. /\ new \in Seq(PaymentRecord) /\ Fresh(new)
      /\ OneMoney(new, ids, n, ds, 0, group, ref)
      /\ Fits(ds, new)
  <2>1. 0 \in Nat
    OBVIOUS
  <2> QED
    BY <1>1, <2>1, SplitIs
<1> HIDE DEF new
<1>3. ASSUME NEW m \in DOMAIN new PROVE new[m].debt \in DOMAIN ds /\ new[m].transfer = 0
  BY <1>2 DEF Payable, OneMoney
<1>4. /\ Counted(ds, new) \in Seq(DebtRecord) /\ DOMAIN Counted(ds, new) = DOMAIN ds
  BY <1>1, <1>2, CountedIs
<1>5. Linked(Counted(ds, new), ps \o new, ts)
  <2>1. \A k \in DOMAIN new : new[k].debt \in DOMAIN Counted(ds, new) /\ new[k].transfer \in 0..Len(ts)
    BY <1>1, <1>3, <1>4
  <2>2. Len(ts) <= Len(ts) /\ DOMAIN ds \subseteq DOMAIN Counted(ds, new)
    BY <1>1, <1>4
  <2> QED
    BY <1>1, <1>2, <2>1, <2>2, LinkedJoined
<1>6. ASSUME NEW t \in DOMAIN ts PROVE Spent(ps \o new, ts, t)
  <2>1. From(new, t) = {}
    BY <1>1, <1>3 DEF From
  <2> QED
    BY <1>1, <1>2, <2>1, SpentKept
<1>7. ps \o new \in Seq(PaymentRecord)
  BY <1>1, <1>2, JoinIs
<1>8. Sound(Counted(ds, new), ps \o new, ts)
  BY <1>1, <1>4, <1>5, <1>6, <1>7 DEF Sound
<1>9. Booked(Counted(ds, new), ps \o new)
  BY <1>1, <1>2, BookedJoined
<1> QED
  BY <1>8, <1>9 DEF new

-----------------------------------------------------------------------------
(* The rows the handlers spread an amount over. *)

LEMMA OpenPayable ==
    ASSUME debts \in Seq(DebtRecord), Booked(debts, payments), NEW S \in SUBSET DOMAIN debts,
           \A d \in S : debts[d].status = "open"
    PROVE  /\ Cardinality(S) \in Nat
           /\ Payable(InOrder(S), Cardinality(S), debts)
           /\ SizeOfAll(InOrder(S), Cardinality(S), debts) = Owed(S) /\ Owed(S) \in Nat
           /\ \A k \in 1..Cardinality(S) : InOrder(S)[k] \in S
<1> DEFINE o == InOrder(S)
           c == Cardinality(S)
<1>1. DOMAIN debts = 1..Len(debts) /\ Len(debts) \in Nat
  BY LenProperties
<1>2. IsFiniteSet(S) /\ S \in SUBSET Int
  <2>1. IsFiniteSet(DOMAIN debts)
    BY <1>1, FS_Interval
  <2> QED
    BY <1>1, <2>1, FS_Subset
<1>3. DOMAIN o = 1..c /\ c \in Nat /\ Matches(o, 1..c, S)
  BY <1>2, InOrderIs
<1> HIDE DEF o, c
<1>4. ASSUME NEW d \in S PROVE Balances(debts)[d] \in Nat
  <2>1. debts[d].amount \in Nat /\ debts[d].paid \in Nat /\ Balances(debts)[d] = debts[d].amount - debts[d].paid
    BY RowIs
  <2>2. debts[d].paid <= debts[d].amount
    BY DEF Booked, Allocated
  <2> QED
    BY <2>1, <2>2
<1>5. \A k \in 1..c : o[k] \in S
  BY <1>3 DEF Matches
<1>6. Payable(o, c, debts)
  BY <1>3, <1>4, <1>5 DEF Payable, Matches
<1>7. SizeOfAll(o, c, debts) = Owed(S)
  <2> DEFINE I == 1..c
             f == SizesOf(o, debts)
  <2>1. IsFiniteSet(I) /\ Matches(o, I, S) /\ IntegerOn(Balances(debts), S)
    BY <1>3, <1>4, FS_Interval DEF IntegerOn
  <2>2. Carried(f, Balances(debts), o, I)
    BY <1>3 DEF Carried, SizesOf
  <2> HIDE DEF I, f
  <2>3. SumFunctionOnSet(f, I) = SumFunctionOnSet(Balances(debts), S)
    BY <2>1, <2>2, SumMatched
  <2> QED
    BY <2>3 DEF I, f, SizeOfAll, Owed
<1>8. Owed(S) \in Nat
  BY <1>2, <1>4, SumNatural DEF Owed
<1> QED
  BY <1>3, <1>5, <1>6, <1>7, <1>8 DEF o, c

LEMMA HoldersHold ==
    ASSUME NEW ts \in Seq(TransferRecord), NEW s
    PROVE  \E m \in Nat : /\ Holding(CreditHolders(ts, s), m, ts)
                          /\ \A j \in 1..m : ts[CreditHolders(ts, s)[j]].supplier = s
<1> DEFINE S == {t \in DOMAIN ts : ts[t].supplier = s /\ Credit(ts, t) > 0}
           o == InOrder(S)
           c == Cardinality(S)
<1>1. DOMAIN ts = 1..Len(ts) /\ Len(ts) \in Nat
  BY LenProperties
<1>2. S \in SUBSET DOMAIN ts /\ \A t \in S : ts[t].supplier = s /\ Credit(ts, t) > 0
  OBVIOUS
<1>3. o = CreditHolders(ts, s)
  BY DEF CreditHolders
<1> HIDE DEF S
<1>4. IsFiniteSet(S) /\ S \in SUBSET Int
  <2>1. IsFiniteSet(DOMAIN ts)
    BY <1>1, FS_Interval
  <2> QED
    BY <1>1, <1>2, <2>1, FS_Subset
<1>5. DOMAIN o = 1..c /\ c \in Nat /\ Matches(o, 1..c, S)
  BY <1>4, InOrderIs
<1> HIDE DEF o, c
<1>6. ASSUME NEW t \in S PROVE Credit(ts, t) \in Nat
  <2>1. /\ Credit(ts, t) = ts[t].credited - ts[t].used - ts[t].refunded - ts[t].wrong
        /\ ts[t].credited \in Nat /\ ts[t].used \in Nat /\ ts[t].refunded \in Nat /\ ts[t].wrong \in Nat
    BY <1>2, CreditIs
  <2> QED
    BY <1>2, <2>1
<1>7. ASSUME NEW k \in 1..c PROVE o[k] \in S
  BY <1>5 DEF Matches
<1>8. Holding(o, c, ts)
  BY <1>2, <1>5, <1>6, <1>7 DEF Holding, Matches
<1>9. \A j \in 1..c : ts[o[j]].supplier = s
  BY <1>2, <1>7
<1> QED
  BY <1>3, <1>5, <1>8, <1>9

\* What credit leaves of the debts of a row can still be paid.
LEMMA RestPays ==
    ASSUME NEW ds \in Seq(DebtRecord), NEW n \in Nat, NEW ids, Payable(ids, n, ds), NEW credit \in Nat,
           NEW new \in Seq(PaymentRecord), NEW amount \in Nat,
           \A i \in 1..n : WorthOf(new, On(new, ids[i])) <= Share(SizesOf(ids, ds), credit, i),
           amount + credit <= SizeOfAll(ids, n, ds)
    PROVE  Payable(ids, n, Counted(ds, new)) /\ amount <= SizeOfAll(ids, n, Counted(ds, new))
<1> DEFINE rest == Counted(ds, new)
           I == 1..n
           f == SizesOf(ids, ds)
           h == SizesOf(ids, rest)
           w == [k \in I |-> WorthOf(new, On(new, ids[k]))]
           share == [k \in I |-> Share(f, credit, k)]
<1>1. ASSUME NEW k \in I
      PROVE  /\ w[k] \in Nat /\ share[k] \in Nat /\ w[k] <= share[k] /\ f[k] \in Nat /\ share[k] <= f[k]
             /\ h[k] = f[k] - w[k] /\ ids[k] \in DOMAIN rest /\ Balances(rest)[ids[k]] = h[k]
  <2>1. ids[k] \in DOMAIN ds /\ DOMAIN ids = 1..n
    BY DEF Payable
  <2>2. PICK d \in DOMAIN ds : d = ids[k]
    BY <2>1
  <2>3. w[k] = WorthOf(new, On(new, d)) /\ w[k] \in Nat
    <3>1. On(new, d) \in SUBSET DOMAIN new
      BY DEF On
    <3>2. WorthOf(new, On(new, d)) \in Nat
      BY <3>1, WorthIs
    <3> QED
      BY <2>2, <3>2
  <2>4. /\ rest \in Seq(DebtRecord) /\ DOMAIN rest = DOMAIN ds
        /\ rest[d].amount = ds[d].amount /\ rest[d].paid = ds[d].paid + WorthOf(new, On(new, d))
    BY CountedIs
  <2>5. ds[d].amount \in Nat /\ ds[d].paid \in Nat
    BY RowIs
  <2>6. f[k] \in Nat /\ share[k] \in Nat /\ share[k] <= f[k] /\ f[k] = ds[d].amount - ds[d].paid
    <3>1. share[k] = Share(f, credit, k) /\ k \in 1..n
      OBVIOUS
    <3>2. /\ Share(f, credit, k) \in Nat /\ Share(f, credit, k) <= ds[ids[k]].amount - ds[ids[k]].paid
          /\ f[k] = ds[ids[k]].amount - ds[ids[k]].paid
      BY ShareFits
    <3> HIDE DEF f, share
    <3> QED
      BY <2>2, <2>5, <3>1, <3>2
  <2>7. Balances(rest)[d] = rest[d].amount - rest[d].paid
    <3> HIDE DEF rest
    <3> QED
      BY <2>4, RowIs
  <2>8. h[k] = Balances(rest)[d]
    BY <2>1, <2>2 DEF SizesOf
  <2>9. w[k] <= share[k]
    OBVIOUS
  <2> HIDE DEF h, f, w, share, rest
  <2> QED
    BY <2>2, <2>3, <2>4, <2>5, <2>6, <2>7, <2>8, <2>9
<1>2. IsFiniteSet(I) /\ SizeOfAll(ids, n, ds) = SumFunctionOnSet(f, I) /\ SizeOfAll(ids, n, rest) = SumFunctionOnSet(h, I)
  BY FS_Interval DEF SizeOfAll
<1>3. DOMAIN ids = I /\ \A j, k \in I : ids[j] = ids[k] => j = k
  BY DEF Payable
<1>4. \A k \in 1..n : f[k] \in Nat /\ share[k] = Share(f, credit, k)
  BY <1>1
<1> HIDE DEF rest, f, h, w, share
<1>5. SumFunctionOnSet(share, I) = Lowest(credit, SumFunctionOnSet(f, I))
  BY <1>4, SharesAdd
<1> HIDE DEF I
<1>6. ASSUME NEW k \in I PROVE h[k] \in Nat /\ Balances(rest)[ids[k]] \in Nat
  BY <1>1
<1>7. Payable(ids, n, rest)
  BY <1>1, <1>3, <1>6 DEF Payable, I
<1>8. IntegerOn(f, I) /\ IntegerOn(h, I) /\ IntegerOn(w, I) /\ IntegerOn(share, I)
  BY <1>1, <1>6 DEF IntegerOn
<1>9. SumFunctionOnSet(f, I) = SumFunctionOnSet(h, I) + SumFunctionOnSet(w, I)
  <2>1. \A k \in I : f[k] = h[k] + w[k]
    BY <1>1
  <2> QED
    BY <1>2, <1>8, <2>1, SumPlus
<1>10. SumFunctionOnSet(w, I) <= SumFunctionOnSet(share, I)
  BY <1>1, <1>2, <1>8, SumLeq
<1>11. /\ SumFunctionOnSet(f, I) \in Int /\ SumFunctionOnSet(h, I) \in Int
       /\ SumFunctionOnSet(w, I) \in Int /\ SumFunctionOnSet(share, I) \in Int
  BY <1>2, <1>8, SumType
<1>12. amount <= SumFunctionOnSet(h, I)
  BY <1>2, <1>5, <1>9, <1>10, <1>11 DEF Lowest
<1> QED
  BY <1>2, <1>7, <1>12 DEF rest

-----------------------------------------------------------------------------
(* Payments taken off an invoice. *)

\* The payments of TakenOff that get a transfer, the transfer each is made from
\* then, and the transfers there are.
Wrapped(d, P) == {p \in P : payments[p].transfer = 0 /\ ToSupplier(debts[d])}
PlaceOf(d, P, p) == CHOOSE k \in DOMAIN InOrder(Wrapped(d, P)) : InOrder(Wrapped(d, P))[k] = p
TransferOf(d, P, p) ==
    IF p \in Range(InOrder(Wrapped(d, P))) THEN Len(transfers) + PlaceOf(d, P, p) ELSE payments[p].transfer
Wrappings(d, P) ==
    [k \in DOMAIN InOrder(Wrapped(d, P)) |->
        NewTransfer(debts[d].party, payments[InOrder(Wrapped(d, P))[k]].amount, payments[InOrder(Wrapped(d, P))[k]].ref)]

LEMMA RowIsSeq ==
    ASSUME NEW S, NEW n \in Nat, NEW f, f = [k \in 1..n |-> f[k]], \A k \in 1..n : f[k] \in S
    PROVE  f \in Seq(S)
  BY IsASeq

PaymentsOff(d, P, credit) ==
    [p \in DOMAIN payments |->
        IF p \notin P THEN payments[p]
        ELSE [payments[p] EXCEPT !.reversed = TRUE, !.transfer = TransferOf(d, P, p),
                !.decided = IF credit /\ TransferOf(d, P, p) # 0 THEN payments[p].amount ELSE 0]]
TransfersOff(d, P, credit) ==
    LET known == transfers \o Wrappings(d, P)
    IN [t \in DOMAIN known |->
            IF credit
            THEN [known[t] EXCEPT !.credited = @ + WorthOf(payments, {p \in P : TransferOf(d, P, p) = t})]
            ELSE known[t]]
LEMMA TakenOffParts ==
    ASSUME NEW d, NEW P, NEW credit
    PROVE  /\ TakenOff(d, P, credit).debts = [debts EXCEPT ![d].paid = @ - WorthOf(payments, P)]
           /\ TakenOff(d, P, credit).payments = PaymentsOff(d, P, credit)
           /\ TakenOff(d, P, credit).transfers = TransfersOff(d, P, credit)
  BY DEF TakenOff, PaymentsOff, TransfersOff, Wrappings, TransferOf, PlaceOf, Wrapped

WrapsIn(d, P, c, order) ==
    /\ DOMAIN order = 1..c /\ Matches(order, 1..c, Wrapped(d, P))
    /\ \A k \in 1..c : order[k] \in P /\ TransferOf(d, P, order[k]) = Len(transfers) + k
    /\ \A p \in Wrapped(d, P) : \E k \in 1..c : order[k] = p
    /\ \A p \in P : p \notin Wrapped(d, P) => TransferOf(d, P, p) = payments[p].transfer
    /\ Wrappings(d, P) \in Seq(TransferRecord) /\ DOMAIN Wrappings(d, P) = 1..c
    /\ \A k \in 1..c : /\ Untouched(Wrappings(d, P)[k])
                       /\ Wrappings(d, P)[k].amount = payments[order[k]].amount
                       /\ Wrappings(d, P)[k].supplier = debts[d].party
                       /\ Wrappings(d, P)[k].ref = payments[order[k]].ref
LEMMA TransferOfIs ==
    ASSUME payments \in Seq(PaymentRecord), transfers \in Seq(TransferRecord), debts \in Seq(DebtRecord),
           NEW d \in DOMAIN debts, NEW P \in SUBSET DOMAIN payments
    PROVE  \E c \in Nat : \E order : WrapsIn(d, P, c, order)
<1> DEFINE W == Wrapped(d, P)
           o == InOrder(W)
           c == Cardinality(W)
           ws == Wrappings(d, P)
<1>1. DOMAIN payments = 1..Len(payments) /\ Len(payments) \in Nat /\ \A p \in DOMAIN payments : payments[p] \in PaymentRecord
  BY LenProperties, ElementOfSeq
<1>2. IsFiniteSet(W) /\ W \in SUBSET Int /\ W \in SUBSET P
  <2>1. W \in SUBSET P /\ IsFiniteSet(DOMAIN payments)
    BY <1>1, FS_Interval DEF Wrapped
  <2> HIDE DEF W
  <2> QED
    BY <1>1, <2>1, FS_Subset
<1>3. ASSUME NEW p \in W PROVE debts[d].party \in Suppliers
  BY DEF Wrapped, ToSupplier
<1> HIDE DEF W
<1>4. DOMAIN o = 1..c /\ c \in Nat /\ Matches(o, 1..c, W)
  BY <1>2, InOrderIs
<1>5. ws = [k \in DOMAIN o |-> NewTransfer(debts[d].party, payments[o[k]].amount, payments[o[k]].ref)]
  BY DEF Wrappings, W
<1>6. ASSUME NEW p PROVE TransferOf(d, P, p) = IF p \in Range(o) THEN Len(transfers) + PlaceOf(d, P, p) ELSE payments[p].transfer
  BY DEF TransferOf, W
<1>7. ASSUME NEW p PROVE PlaceOf(d, P, p) = CHOOSE k \in DOMAIN o : o[k] = p
  BY DEF PlaceOf, W
<1> HIDE DEF o, c, ws
<1>8. Range(o) = W
  BY <1>4 DEF Range, Matches
<1>9. ASSUME NEW k \in 1..c
      PROVE  o[k] \in W /\ o[k] \in P /\ o[k] \in DOMAIN payments /\ TransferOf(d, P, o[k]) = Len(transfers) + k
  <2>1. o[k] \in W /\ o[k] \in P /\ o[k] \in DOMAIN payments
    BY <1>2, <1>4 DEF Matches
  <2>2. \A i \in 1..c : o[i] = o[k] => i = k
    BY <1>4 DEF Matches
  <2>3. PlaceOf(d, P, o[k]) = k
    BY <1>4, <1>7, <2>2
  <2> QED
    BY <1>6, <1>8, <2>1, <2>3
<1>10. ASSUME NEW p \in W PROVE \E k \in 1..c : o[k] = p
  BY <1>4 DEF Matches
<1>11. ASSUME NEW p \in P, p \notin W PROVE TransferOf(d, P, p) = payments[p].transfer
  BY <1>6, <1>8, <1>11
<1>12. ASSUME NEW k \in 1..c
       PROVE  /\ ws[k] \in TransferRecord /\ Untouched(ws[k]) /\ ws[k].amount = payments[o[k]].amount
              /\ ws[k].supplier = debts[d].party /\ ws[k].ref = payments[o[k]].ref
  <2>1. ws[k] = NewTransfer(debts[d].party, payments[o[k]].amount, payments[o[k]].ref)
    BY <1>4, <1>5
  <2>2. payments[o[k]] \in PaymentRecord
    BY <1>1, <1>9
  <2>3. payments[o[k]].amount \in Nat \ {0} /\ payments[o[k]].ref \in Refs \cup {NoRef} /\ debts[d].party \in Suppliers
    BY <1>3, <1>9, <2>2 DEF PaymentRecord
  <2> QED
    BY <2>1, <2>3, NewTransferIs
<1>13. ws \in Seq(TransferRecord) /\ DOMAIN ws = 1..c
  <2>1. DOMAIN ws = 1..c /\ ws = [k \in 1..c |-> ws[k]]
    BY <1>4, <1>5
  <2>2. \A k \in 1..c : ws[k] \in TransferRecord
    BY <1>12
  <2>3. ws \in Seq(TransferRecord)
    BY <1>4, <2>1, <2>2, RowIsSeq
  <2> QED
    BY <2>1, <2>3
<1>14. WrapsIn(d, P, c, o)
  BY <1>4, <1>9, <1>10, <1>11, <1>12, <1>13 DEF W, ws, WrapsIn
<1> QED
  BY <1>4, <1>14

LEMMA TransferOfFits ==
    ASSUME payments \in Seq(PaymentRecord), transfers \in Seq(TransferRecord), debts \in Seq(DebtRecord),
           Linked(debts, payments, transfers),
           NEW d \in DOMAIN debts, NEW P \in SUBSET DOMAIN payments, NEW p \in P
    PROVE  /\ TransferOf(d, P, p) \in Nat /\ TransferOf(d, P, p) \in 0..(Len(transfers) + Len(Wrappings(d, P)))
           /\ TransferOf(d, P, p) \in 1..Len(transfers) => payments[p].transfer = TransferOf(d, P, p)
           /\ payments[p].transfer # 0 => payments[p].transfer = TransferOf(d, P, p)
           /\ ToSupplier(debts[d]) => TransferOf(d, P, p) # 0
<1>0. PICK c \in Nat : \E order : WrapsIn(d, P, c, order)
  BY TransferOfIs
<1>1. PICK order : WrapsIn(d, P, c, order)
  BY <1>0
<1>2. Len(Wrappings(d, P)) = c /\ Len(transfers) \in Nat
  BY <1>1, LenProperties DEF WrapsIn
<1>3. p \in DOMAIN payments /\ payments[p].transfer \in 0..Len(transfers)
  BY DEF Linked
<1>4. CASE p \in Wrapped(d, P)
  <2>1. PICK k \in 1..c : order[k] = p
    BY <1>1, <1>4 DEF WrapsIn
  <2>2. TransferOf(d, P, p) = Len(transfers) + k
    BY <1>1, <2>1 DEF WrapsIn
  <2>3. payments[p].transfer = 0
    BY <1>4 DEF Wrapped
  <2> QED
    BY <1>2, <2>2, <2>3
<1>5. CASE p \notin Wrapped(d, P)
  <2>1. TransferOf(d, P, p) = payments[p].transfer
    BY <1>1, <1>5 DEF WrapsIn
  <2>2. ToSupplier(debts[d]) => payments[p].transfer # 0
    BY <1>5 DEF Wrapped
  <2> QED
    BY <1>2, <1>3, <2>1, <2>2
<1> QED
  BY <1>4, <1>5

TakenRows(qs, d, P, credit) ==
    /\ qs \in Seq(PaymentRecord) /\ DOMAIN qs = DOMAIN payments
    /\ \A p \in DOMAIN payments : p \notin P => qs[p] = payments[p]
    /\ \A p \in P : /\ qs[p].debt = payments[p].debt /\ qs[p].amount = payments[p].amount /\ qs[p].to = payments[p].to
                    /\ qs[p].ref = payments[p].ref /\ qs[p].group = payments[p].group /\ qs[p].old = payments[p].old
                    /\ qs[p].reversed /\ qs[p].transfer = TransferOf(d, P, p)
                    /\ qs[p].decided = IF credit /\ TransferOf(d, P, p) # 0 THEN payments[p].amount ELSE 0
LEMMA PaymentsOffAre ==
    ASSUME NEW d, NEW P, NEW credit
    PROVE  TakenOff(d, P, credit).payments = PaymentsOff(d, P, credit)
  BY DEF TakenOff, PaymentsOff, Wrappings, TransferOf, PlaceOf, Wrapped

LEMMA TakenOffPayments ==
    ASSUME payments \in Seq(PaymentRecord), transfers \in Seq(TransferRecord), debts \in Seq(DebtRecord),
           Linked(debts, payments, transfers), NEW d \in DOMAIN debts, NEW P \in SUBSET DOMAIN payments, NEW credit
    PROVE  /\ TakenRows(TakenOff(d, P, credit).payments, d, P, credit)
           /\ Worth(TakenOff(d, P, credit).payments) = Worth(payments)
<1> DEFINE qs == TakenOff(d, P, credit).payments
<1>1. qs = [p \in DOMAIN payments |->
              IF p \notin P THEN payments[p]
              ELSE [payments[p] EXCEPT !.reversed = TRUE, !.transfer = TransferOf(d, P, p),
                      !.decided = IF credit /\ TransferOf(d, P, p) # 0 THEN payments[p].amount ELSE 0]]
  <2>1. qs = PaymentsOff(d, P, credit)
    BY ONLY PaymentsOffAre
  <2> HIDE DEF qs
  <2> QED
    BY ONLY <2>1 DEF PaymentsOff
<1>2. DOMAIN payments = 1..Len(payments) /\ Len(payments) \in Nat /\ \A p \in DOMAIN payments : payments[p] \in PaymentRecord
  BY LenProperties, ElementOfSeq
<1> HIDE DEF qs
<1>3. ASSUME NEW p \in P
      PROVE  /\ qs[p].debt = payments[p].debt /\ qs[p].amount = payments[p].amount /\ qs[p].to = payments[p].to
             /\ qs[p].ref = payments[p].ref /\ qs[p].group = payments[p].group /\ qs[p].old = payments[p].old
             /\ qs[p].reversed /\ qs[p].transfer = TransferOf(d, P, p)
             /\ qs[p].decided = IF credit /\ TransferOf(d, P, p) # 0 THEN payments[p].amount ELSE 0
             /\ qs[p] \in PaymentRecord
  <2>1. PICK t \in Nat : t = TransferOf(d, P, p)
    BY TransferOfFits
  <2>2. payments[p] \in PaymentRecord /\ payments[p].amount \in Nat
    BY <1>2 DEF PaymentRecord
  <2>3. PICK n \in Nat : n = IF credit /\ TransferOf(d, P, p) # 0 THEN payments[p].amount ELSE 0
    BY <2>2
  <2>4. qs[p] = [payments[p] EXCEPT !.reversed = TRUE, !.transfer = t, !.decided = n]
    BY <1>1, <2>1, <2>3
  <2>5. /\ qs[p].debt = payments[p].debt /\ qs[p].amount = payments[p].amount /\ qs[p].to = payments[p].to
        /\ qs[p].ref = payments[p].ref /\ qs[p].group = payments[p].group /\ qs[p].old = payments[p].old
        /\ qs[p].reversed /\ qs[p].transfer = t /\ qs[p].decided = n
        /\ qs[p] \in PaymentRecord
    BY ONLY <2>2, <2>4, t \in Nat, n \in Nat DEF PaymentRecord
  <2> QED
    BY <2>1, <2>3, <2>5
<1>4. ASSUME NEW p \in DOMAIN payments, p \notin P PROVE qs[p] = payments[p]
  BY <1>1, <1>4
<1>5. qs \in Seq(PaymentRecord)
  <2>1. qs = [p \in 1..Len(payments) |-> qs[p]]
    BY <1>1, <1>2
  <2>2. \A p \in 1..Len(payments) : qs[p] \in PaymentRecord
    BY <1>2, <1>3, <1>4
  <2> QED
    BY <1>2, <2>1, <2>2, RowIsSeq
<1>6. DOMAIN qs = DOMAIN payments
  BY <1>1
<1>7. Worth(qs) = Worth(payments)
  <2>1. \A p \in DOMAIN payments : qs[p].amount = payments[p].amount
    BY <1>3, <1>4
  <2> QED
    BY <1>6, <2>1 DEF Worth
<1>8. TakenRows(qs, d, P, credit)
  BY <1>3, <1>4, <1>5, <1>6 DEF TakenRows
<1> QED
  BY <1>7, <1>8 DEF qs

\* The payments taken off that are made from transfer t.
Given(d, P, t) == {p \in P : TransferOf(d, P, p) = t}
Gain(d, P, credit, t) == IF credit THEN WorthOf(payments, Given(d, P, t)) ELSE 0
TakenTransfers(us, d, P, credit) ==
    LET known == transfers \o Wrappings(d, P)
    IN /\ us \in Seq(TransferRecord) /\ DOMAIN us = DOMAIN known /\ Len(us) = Len(transfers) + Len(Wrappings(d, P))
       /\ \A t \in DOMAIN known :
             /\ us[t].credited = known[t].credited + Gain(d, P, credit, t) /\ Gain(d, P, credit, t) \in Nat
             /\ us[t].amount = known[t].amount /\ us[t].used = known[t].used
             /\ us[t].refunded = known[t].refunded /\ us[t].wrong = known[t].wrong
             /\ us[t].refundedFrom = known[t].refundedFrom /\ us[t].wrongFrom = known[t].wrongFrom
             /\ us[t].supplier = known[t].supplier /\ us[t].ref = known[t].ref
LEMMA TakenOffTransfers ==
    ASSUME payments \in Seq(PaymentRecord), transfers \in Seq(TransferRecord), debts \in Seq(DebtRecord),
           Linked(debts, payments, transfers), NEW d \in DOMAIN debts, NEW P \in SUBSET DOMAIN payments,
           NEW credit \in BOOLEAN
    PROVE  TakenTransfers(TakenOff(d, P, credit).transfers, d, P, credit)
<1> DEFINE us == TakenOff(d, P, credit).transfers
           ws == Wrappings(d, P)
           known == transfers \o ws
           n == Len(transfers) + Len(ws)
           gain(t) == Gain(d, P, credit, t)
<1>1. ws \in Seq(TransferRecord)
  BY TransferOfIs DEF WrapsIn
<1> HIDE DEF ws
<1>2. /\ known \in Seq(TransferRecord) /\ Len(known) = n /\ n \in Nat /\ DOMAIN known = 1..n
  <2>1. known \in Seq(TransferRecord) /\ Len(known) = n
    BY <1>1, JoinIs
  <2> HIDE DEF known
  <2> QED
    BY <2>1, LenProperties
<1>3. us = [t \in DOMAIN known |->
              IF credit
              THEN [known[t] EXCEPT !.credited = @ + WorthOf(payments, {p \in P : TransferOf(d, P, p) = t})]
              ELSE known[t]]
  <2>1. us = TransfersOff(d, P, credit)
    BY TakenOffParts
  <2> HIDE DEF us
  <2> QED
    BY ONLY <2>1 DEF TransfersOff, known, ws
<1> HIDE DEF known, n, us
<1>4. ASSUME NEW t \in DOMAIN known
      PROVE  /\ us[t].credited = known[t].credited + gain(t) /\ gain(t) \in Nat
             /\ us[t].amount = known[t].amount /\ us[t].used = known[t].used
             /\ us[t].refunded = known[t].refunded /\ us[t].wrong = known[t].wrong
             /\ us[t].refundedFrom = known[t].refundedFrom /\ us[t].wrongFrom = known[t].wrongFrom
             /\ us[t].supplier = known[t].supplier /\ us[t].ref = known[t].ref
             /\ us[t] \in TransferRecord
  <2>1. known[t] \in TransferRecord /\ known[t].credited \in Nat
    BY <1>2, CreditIs
  <2>2. Given(d, P, t) \in SUBSET DOMAIN payments
    BY DEF Given
  <2>3. WorthOf(payments, Given(d, P, t)) \in Nat
    BY <2>2, WorthIs
  <2>4. PICK g \in Nat : g = gain(t)
    BY <2>3 DEF Gain
  <2>5. us[t] = [known[t] EXCEPT !.credited = known[t].credited + g]
    <3>1. CASE credit
      <4>1. g = WorthOf(payments, {p \in P : TransferOf(d, P, p) = t})
        BY <2>4, <3>1 DEF Gain, Given
      <4> QED
        BY <1>3, <3>1, <4>1
    <3>2. CASE ~credit
      <4>1. g = 0 /\ known[t].credited + g = known[t].credited
        BY <2>1, <2>4, <3>2 DEF Gain
      <4>2. us[t] = known[t]
        BY <1>3, <3>2
      <4>3. us[t] = [known[t] EXCEPT !.credited = known[t].credited]
        BY ONLY <2>1, <4>2 DEF TransferRecord
      <4> QED
        BY <4>1, <4>3
    <3> QED
      BY <3>1, <3>2
  <2>6. known[t].credited + g \in Nat
    BY <2>1
  <2>7. /\ us[t].credited = known[t].credited + g
        /\ us[t].amount = known[t].amount /\ us[t].used = known[t].used
        /\ us[t].refunded = known[t].refunded /\ us[t].wrong = known[t].wrong
        /\ us[t].refundedFrom = known[t].refundedFrom /\ us[t].wrongFrom = known[t].wrongFrom
        /\ us[t].supplier = known[t].supplier /\ us[t].ref = known[t].ref
        /\ us[t] \in TransferRecord
    BY ONLY <2>1, <2>5, <2>6 DEF TransferRecord
  <2> QED
    BY <2>4, <2>7
<1>5. DOMAIN us = DOMAIN known /\ us = [t \in 1..n |-> us[t]]
  BY <1>2, <1>3
<1>6. us \in Seq(TransferRecord)
  <2>1. \A t \in 1..n : us[t] \in TransferRecord
    BY <1>2, <1>4
  <2> QED
    BY <1>2, <1>5, <2>1, RowIsSeq
<1>7. Len(us) = n
  BY <1>2, <1>5, <1>6, LenProperties
<1> QED
  BY <1>4, <1>5, <1>6, <1>7 DEF TakenTransfers, us, known, ws, n

\* What is off a transfer is what was, and what is taken off now.
LEMMA TakenOffSpent ==
    ASSUME Sound(debts, payments, transfers), NEW d \in DOMAIN debts, NEW P \in SUBSET Active(payments, d),
           NEW credit \in BOOLEAN, NEW qs, TakenRows(qs, d, P, credit), Worth(qs) = Worth(payments),
           NEW us, TakenTransfers(us, d, P, credit), NEW t \in DOMAIN us
    PROVE  Spent(qs, us, t)
<1> DEFINE old == Len(transfers)
           ws == Wrappings(d, P)
           known == transfers \o ws
           G == Given(d, P, t)
<1>1. /\ payments \in Seq(PaymentRecord) /\ transfers \in Seq(TransferRecord) /\ debts \in Seq(DebtRecord)
      /\ Linked(debts, payments, transfers) /\ \A u \in DOMAIN transfers : Spent(payments, transfers, u)
      /\ DOMAIN transfers = 1..old /\ old \in Nat
      /\ P \in SUBSET DOMAIN payments /\ \A p \in P : ~payments[p].reversed
  BY LenProperties DEF Sound, Active
<1>2. PICK c \in Nat : \E order : WrapsIn(d, P, c, order)
  BY <1>1, TransferOfIs
<1>3. PICK order : WrapsIn(d, P, c, order)
  BY <1>2
<1>4. /\ ws \in Seq(TransferRecord) /\ DOMAIN ws = 1..c
  BY <1>3 DEF WrapsIn
<1> HIDE DEF ws
<1>5. /\ DOMAIN known = DOMAIN transfers \cup After(old, 1..c)
      /\ \A u \in DOMAIN transfers : known[u] = transfers[u]
      /\ \A k \in 1..c : known[old + k] = ws[k]
  BY <1>1, <1>4, JoinIs
<1> HIDE DEF known
<1>6. /\ t \in DOMAIN known /\ us[t].credited = known[t].credited + Gain(d, P, credit, t)
      /\ Gain(d, P, credit, t) \in Nat
      /\ us[t].amount = known[t].amount /\ us[t].used = known[t].used
      /\ us[t].refunded = known[t].refunded /\ us[t].wrong = known[t].wrong
      /\ us[t].refundedFrom = known[t].refundedFrom /\ us[t].wrongFrom = known[t].wrongFrom
  BY DEF TakenTransfers, known, ws
<1>7. t \in Nat /\ t # 0
  BY <1>1, <1>5, <1>6 DEF After
<1>8. /\ DOMAIN qs = DOMAIN payments
      /\ \A p \in DOMAIN payments : p \notin P => qs[p] = payments[p]
      /\ \A p \in P : /\ qs[p].reversed /\ qs[p].transfer = TransferOf(d, P, p)
                      /\ qs[p].decided = IF credit /\ TransferOf(d, P, p) # 0 THEN payments[p].amount ELSE 0
  BY DEF TakenRows
<1>9. G \in SUBSET P /\ \A p \in P : p \in G <=> TransferOf(d, P, p) = t
  BY DEF Given
<1> HIDE DEF G
<1>10. Off(qs, t) = Off(payments, t) \cup G
  BY <1>1, <1>8, <1>9 DEF Off
<1>11. Off(payments, t) \cap G = {}
  BY <1>1, <1>9 DEF Off
<1>12. \A p \in Off(payments, t) : Decided(qs)[p] = Decided(payments)[p] /\ p \in DOMAIN payments
  BY <1>1, <1>8 DEF Off, Decided
<1>13. \A p \in G : Decided(qs)[p] = IF credit THEN Worth(payments)[p] ELSE 0
  BY <1>1, <1>7, <1>8, <1>9 DEF Decided, Worth
<1>14. /\ IsFiniteSet(Off(payments, t)) /\ IsFiniteSet(G) /\ \A p \in G : Worth(payments)[p] \in Nat
  <2>1. Off(payments, t) \in SUBSET DOMAIN payments /\ G \in SUBSET DOMAIN payments
    BY <1>1, <1>9 DEF Off
  <2> QED
    BY <1>1, <2>1, WorthIs
<1>15. IntegerOn(Decided(qs), Off(payments, t)) /\ IntegerOn(Decided(qs), G)
  <2>1. ASSUME NEW p \in Off(payments, t) PROVE Decided(qs)[p] \in Int
    <3>1. payments[p] \in PaymentRecord /\ p \in DOMAIN payments
      BY <1>1, <1>12, ElementOfSeq, LenProperties
    <3>2. payments[p].decided \in Nat
      BY ONLY <3>1 DEF PaymentRecord
    <3>3. Decided(payments)[p] = payments[p].decided
      BY <3>1 DEF Decided
    <3> QED
      BY <1>12, <3>2, <3>3
  <2>2. ASSUME NEW p \in G PROVE Decided(qs)[p] \in Int
    BY <1>13, <1>14
  <2> QED
    BY <2>1, <2>2 DEF IntegerOn
<1>16. SumFunctionOnSet(Decided(qs), Off(qs, t))
         = SumFunctionOnSet(Decided(payments), Off(payments, t)) + Gain(d, P, credit, t)
  <2>1. SumFunctionOnSet(Decided(qs), Off(payments, t) \cup G)
         = SumFunctionOnSet(Decided(qs), Off(payments, t)) + SumFunctionOnSet(Decided(qs), G)
    BY <1>11, <1>14, <1>15, SumUnion
  <2>2. SumFunctionOnSet(Decided(qs), Off(payments, t)) = SumFunctionOnSet(Decided(payments), Off(payments, t))
    BY <1>12, <1>14, SumSame
  <2>3. SumFunctionOnSet(Decided(qs), G) = Gain(d, P, credit, t)
    <3>1. CASE credit
      <4>1. \A p \in G : Decided(qs)[p] = Worth(payments)[p]
        BY <1>13, <3>1
      <4>2. SumFunctionOnSet(Decided(qs), G) = SumFunctionOnSet(Worth(payments), G)
        BY <1>14, <4>1, SumSame
      <4> QED
        BY <3>1, <4>2 DEF Gain, WorthOf, G
    <3>2. CASE ~credit
      <4>1. \A p \in G : Decided(qs)[p] = 0
        BY <1>13, <3>2
      <4>2. SumFunctionOnSet(Decided(qs), G) = 0
        BY <1>14, <4>1, SumOfZeros
      <4> QED
        BY <3>2, <4>2 DEF Gain
    <3> QED
      BY <3>1, <3>2
  <2> QED
    BY <1>10, <2>1, <2>2, <2>3
<1>17. WorthOf(qs, From(qs, t)) = WorthOf(payments, From(qs, t))
  BY DEF WorthOf
<1>18. CASE t \in DOMAIN transfers
  <2>1. From(qs, t) = From(payments, t)
    <3>1. ASSUME NEW p \in P PROVE qs[p].transfer = t <=> payments[p].transfer = t
      <4>1. /\ TransferOf(d, P, p) \in 1..Len(transfers) => payments[p].transfer = TransferOf(d, P, p)
            /\ payments[p].transfer # 0 => payments[p].transfer = TransferOf(d, P, p)
        BY <1>1, TransferOfFits
      <4> QED
        BY <1>1, <1>7, <1>8, <1>18, <4>1
    <3> QED
      BY <1>1, <1>8, <3>1 DEF From
  <2>2. known[t] = transfers[t]
    BY <1>5, <1>18
  <2>3. /\ WorthOf(payments, From(payments, t)) = transfers[t].amount + transfers[t].used
        /\ transfers[t].used + transfers[t].refunded + transfers[t].wrong <= transfers[t].credited
        /\ SumFunctionOnSet(Decided(payments), Off(payments, t))
              = transfers[t].credited + transfers[t].refundedFrom + transfers[t].wrongFrom
    BY <1>1, <1>18 DEF Spent
  <2>4. /\ transfers[t].credited \in Nat /\ transfers[t].used \in Nat /\ transfers[t].refunded \in Nat
        /\ transfers[t].wrong \in Nat /\ transfers[t].refundedFrom \in Nat /\ transfers[t].wrongFrom \in Nat
    BY <1>1, <1>18, CreditIs
  <2>5. WorthOf(qs, From(qs, t)) = us[t].amount + us[t].used
    BY <1>6, <1>17, <2>1, <2>2, <2>3
  <2>6. us[t].used + us[t].refunded + us[t].wrong <= us[t].credited
    BY <1>6, <2>2, <2>3, <2>4
  <2>7. SumFunctionOnSet(Decided(qs), Off(qs, t)) = us[t].credited + us[t].refundedFrom + us[t].wrongFrom
    BY <1>6, <1>16, <2>2, <2>3, <2>4
  <2> QED
    BY <2>5, <2>6, <2>7 DEF Spent
<1>19. CASE t \in After(old, 1..c)
  <2>1. PICK k \in 1..c : t = old + k
    BY <1>19 DEF After
  <2>2. /\ order[k] \in P /\ TransferOf(d, P, order[k]) = old + k
        /\ Untouched(ws[k]) /\ ws[k].amount = payments[order[k]].amount
    BY <1>3, <2>1 DEF WrapsIn, ws
  <2>3. known[t] = ws[k]
    BY <1>5, <2>1
  <2>4. t \notin 0..Len(transfers)
    BY <1>1, <2>1
  <2>5. From(payments, t) = {} /\ SumFunctionOnSet(Decided(payments), Off(payments, t)) = 0
    BY <1>1, <2>4, Unlinked
  <2>6. From(qs, t) = {order[k]}
    <3>1. ASSUME NEW p \in From(qs, t) PROVE p = order[k]
      <4>1. p \in DOMAIN payments /\ qs[p].transfer = t
        BY <1>8 DEF From
      <4>2. p \in P
        BY <1>8, <2>5, <4>1 DEF From
      <4>3. TransferOf(d, P, p) = t
        BY <1>8, <4>1, <4>2
      <4>4. p \in Wrapped(d, P)
        <5>1. payments[p].transfer \in 0..Len(transfers)
          BY <1>1, <4>1 DEF Linked
        <5> QED
          BY <1>3, <2>4, <4>2, <4>3, <5>1 DEF WrapsIn
      <4>5. PICK j \in 1..c : order[j] = p
        BY <1>3, <4>4 DEF WrapsIn
      <4>6. TransferOf(d, P, p) = old + j
        BY <1>3, <4>5 DEF WrapsIn
      <4>7. j = k
        BY <1>1, <2>1, <4>3, <4>6
      <4> QED
        BY <4>5, <4>7
    <3>2. order[k] \in From(qs, t)
      BY <1>1, <1>8, <2>1, <2>2 DEF From
    <3> QED
      BY <3>1, <3>2
  <2>7. WorthOf(payments, {order[k]}) = payments[order[k]].amount /\ payments[order[k]].amount \in Nat
    <3>1. order[k] \in DOMAIN payments
      BY <1>1, <2>2
    <3>2. Worth(payments)[order[k]] = payments[order[k]].amount /\ payments[order[k]].amount \in Nat
      BY <1>1, <3>1, WorthIs
    <3>3. Worth(payments)[order[k]] \in Int
      BY <3>2
    <3> QED
      BY <3>2, <3>3, SumOne DEF WorthOf
  <2>8. /\ known[t].used = 0 /\ known[t].refunded = 0 /\ known[t].wrong = 0 /\ known[t].credited = 0
        /\ known[t].refundedFrom = 0 /\ known[t].wrongFrom = 0 /\ known[t].amount = payments[order[k]].amount
    BY <2>2, <2>3 DEF Untouched
  <2>9. WorthOf(qs, From(qs, t)) = us[t].amount + us[t].used
    BY <1>6, <1>17, <2>6, <2>7, <2>8
  <2>10. us[t].used + us[t].refunded + us[t].wrong <= us[t].credited
    BY <1>6, <2>8
  <2>11. SumFunctionOnSet(Decided(qs), Off(qs, t)) = us[t].credited + us[t].refundedFrom + us[t].wrongFrom
    BY <1>6, <1>16, <2>5, <2>8
  <2> QED
    BY <2>9, <2>10, <2>11 DEF Spent
<1> QED
  BY <1>5, <1>6, <1>18, <1>19

\* What is left on the debt, and on the others.
TakenDebts(off, d, P) ==
    /\ DOMAIN off.debts = DOMAIN debts
    /\ \A e \in DOMAIN debts : e # d => off.debts[e] = debts[e]
    /\ off.debts[d].amount = debts[d].amount /\ off.debts[d].party = debts[d].party
    /\ off.debts[d].direction = debts[d].direction /\ off.debts[d].source = debts[d].source
    /\ off.debts[d].sale = debts[d].sale /\ off.debts[d].status = debts[d].status
    /\ off.debts[d].related = debts[d].related /\ off.debts[d].duplicate = debts[d].duplicate
    /\ off.debts[d].paid = debts[d].paid - WorthOf(payments, P) /\ off.debts[d].paid \in Nat
    /\ off.debts[d].paid = WorthOf(off.payments, Active(off.payments, d))
    /\ Active(off.payments, d) = Active(payments, d) \ P
LEMMA TakenOffKeeps ==
    ASSUME Sound(debts, payments, transfers), Booked(debts, payments),
           NEW d \in DOMAIN debts, NEW P \in SUBSET Active(payments, d), NEW credit \in BOOLEAN
    PROVE  LET off == TakenOff(d, P, credit)
           IN /\ Sound(off.debts, off.payments, off.transfers)
              /\ TakenDebts(off, d, P) /\ TakenRows(off.payments, d, P, credit)
              /\ TakenTransfers(off.transfers, d, P, credit)
              /\ \A e \in DOMAIN debts : e # d => Allocated(off.debts, off.payments, e)
<1> DEFINE off == TakenOff(d, P, credit)
           es == off.debts
           qs == off.payments
           us == off.transfers
<1>1. /\ payments \in Seq(PaymentRecord) /\ transfers \in Seq(TransferRecord) /\ debts \in Seq(DebtRecord)
      /\ Linked(debts, payments, transfers) /\ \A u \in DOMAIN transfers : Spent(payments, transfers, u)
      /\ P \in SUBSET DOMAIN payments /\ \A p \in P : payments[p].debt = d /\ ~payments[p].reversed
  BY DEF Sound, Active
<1>2. TakenRows(qs, d, P, credit) /\ Worth(qs) = Worth(payments)
  BY <1>1, TakenOffPayments
<1>3. TakenTransfers(us, d, P, credit)
  BY <1>1, TakenOffTransfers
<1>4. es = [debts EXCEPT ![d].paid = debts[d].paid - WorthOf(payments, P)]
  BY TakenOffParts
<1> HIDE DEF es, qs, us, off
<1>5. /\ qs \in Seq(PaymentRecord) /\ DOMAIN qs = DOMAIN payments
      /\ \A p \in DOMAIN payments : p \notin P => qs[p] = payments[p]
      /\ \A p \in P : /\ qs[p].reversed /\ qs[p].transfer = TransferOf(d, P, p) /\ qs[p].debt = d
                      /\ qs[p].amount = payments[p].amount
                      /\ qs[p].decided = IF credit /\ TransferOf(d, P, p) # 0 THEN payments[p].amount ELSE 0
  BY <1>1, <1>2 DEF TakenRows
<1>6. us \in Seq(TransferRecord) /\ Len(us) = Len(transfers) + Len(Wrappings(d, P))
  BY <1>3 DEF TakenTransfers
<1>7. \A t \in DOMAIN us : Spent(qs, us, t)
  BY <1>2, <1>3, TakenOffSpent
<1>8. ASSUME NEW e PROVE Active(qs, e) = IF e = d THEN Active(payments, d) \ P ELSE Active(payments, e)
  BY <1>1, <1>5 DEF Active
<1>9. ASSUME NEW e PROVE WorthOf(qs, Active(qs, e)) = WorthOf(payments, Active(qs, e))
  BY <1>2 DEF WorthOf
<1>10. debts[d] \in DebtRecord /\ debts[d].paid \in Nat /\ debts[d].paid = WorthOf(payments, Active(payments, d))
  BY <1>1, RowIs DEF Booked, Allocated
<1>11. PICK w \in Nat : w = debts[d].paid - WorthOf(payments, P) /\ w = WorthOf(qs, Active(qs, d))
  <2> DEFINE A == Active(payments, d)
             f == Worth(payments)
  <2>1. A \in SUBSET DOMAIN payments /\ P \in SUBSET A
    BY DEF Active
  <2> HIDE DEF A
  <2>2. IsFiniteSet(A) /\ \A p \in A : f[p] \in Nat
    BY <1>1, <2>1, WorthIs
  <2> HIDE DEF f
  <2>3. /\ SumFunctionOnSet(f, A) = SumFunctionOnSet(f, P) + SumFunctionOnSet(f, A \ P)
        /\ SumFunctionOnSet(f, P) \in Nat /\ SumFunctionOnSet(f, A \ P) \in Nat
    <3>1. P \in SUBSET A /\ IsFiniteSet(A) /\ \A p \in A : f[p] \in Nat
      BY <2>1, <2>2
    <3>2. SumFunctionOnSet(f, P) \in Nat
      BY ONLY <3>1, SumPart
    <3>3. SumFunctionOnSet(f, A \ P) \in Nat
      BY ONLY <3>1, SumPart
    <3>4. SumFunctionOnSet(f, A) = SumFunctionOnSet(f, P) + SumFunctionOnSet(f, A \ P)
      BY ONLY <3>1, SumPart
    <3> QED
      BY <3>2, <3>3, <3>4
  <2>4. WorthOf(qs, Active(qs, d)) = SumFunctionOnSet(f, A \ P)
    BY <1>8, <1>9 DEF WorthOf, f, A
  <2>5. WorthOf(payments, P) = SumFunctionOnSet(f, P) /\ debts[d].paid = SumFunctionOnSet(f, A)
    BY <1>10 DEF WorthOf, f, A
  <2>6. SumFunctionOnSet(f, A \ P) = debts[d].paid - WorthOf(payments, P)
    BY <2>3, <2>5
  <2> QED
    BY <2>3, <2>4, <2>6
<1>12. es = [debts EXCEPT ![d].paid = w]
  BY <1>4, <1>11
<1>13. /\ DOMAIN es = DOMAIN debts /\ \A e \in DOMAIN debts : e # d => es[e] = debts[e]
       /\ es[d] = [debts[d] EXCEPT !.paid = w]
  BY <1>12
<1>14. /\ es[d].amount = debts[d].amount /\ es[d].party = debts[d].party
       /\ es[d].direction = debts[d].direction /\ es[d].source = debts[d].source
       /\ es[d].sale = debts[d].sale /\ es[d].status = debts[d].status
       /\ es[d].related = debts[d].related /\ es[d].duplicate = debts[d].duplicate
       /\ es[d].paid = w /\ es[d] \in DebtRecord
  BY ONLY <1>10, <1>13, w \in Nat DEF DebtRecord
<1>15. es \in Seq(DebtRecord)
  <2>1. DOMAIN debts = 1..Len(debts) /\ Len(debts) \in Nat
    BY <1>1, LenProperties
  <2>2. es = [e \in 1..Len(debts) |-> es[e]]
    BY <1>12, <2>1
  <2>3. \A e \in 1..Len(debts) : es[e] \in DebtRecord
    BY <1>1, <1>13, <1>14, <2>1, RowIs
  <2> QED
    BY <2>1, <2>2, <2>3, RowIsSeq
<1>16. Linked(es, qs, us)
  <2> SUFFICES ASSUME NEW p \in DOMAIN qs
               PROVE  /\ qs[p].debt \in DOMAIN es /\ qs[p].transfer \in 0..Len(us)
                      /\ qs[p].decided <= qs[p].amount /\ (qs[p].transfer = 0 => qs[p].decided = 0)
    BY DEF Linked
  <2>1. CASE p \in P
    <3>1. TransferOf(d, P, p) \in 0..Len(us)
      BY <1>1, <1>6, <2>1, TransferOfFits
    <3>2. payments[p].amount \in Nat
      BY <1>1, <2>1, WorthIs
    <3> QED
      BY <1>1, <1>5, <1>13, <2>1, <3>1, <3>2
  <2>2. CASE p \notin P
    <3>1. p \in DOMAIN payments /\ qs[p] = payments[p]
      BY <1>5, <2>2
    <3>2. /\ payments[p].debt \in DOMAIN debts /\ payments[p].transfer \in 0..Len(transfers)
          /\ payments[p].decided <= payments[p].amount /\ (payments[p].transfer = 0 => payments[p].decided = 0)
      BY <1>1, <3>1 DEF Linked
    <3>3. Len(us) \in Nat /\ Len(transfers) \in Nat /\ Len(transfers) <= Len(us)
      <4>1. Len(Wrappings(d, P)) \in Nat
        BY <1>1, TransferOfIs, LenProperties DEF WrapsIn
      <4> QED
        BY <1>1, <1>6, <4>1, LenProperties
    <3> QED
      BY <1>13, <3>1, <3>2, <3>3
  <2> QED
    BY <2>1, <2>2
<1>17. Sound(es, qs, us)
  BY <1>5, <1>6, <1>7, <1>15, <1>16 DEF Sound
<1>18. ASSUME NEW e \in DOMAIN debts, e # d PROVE Allocated(es, qs, e)
  <2>1. Active(qs, e) = Active(payments, e) /\ es[e] = debts[e]
    BY <1>8, <1>13, <1>18
  <2>2. WorthOf(qs, Active(qs, e)) = WorthOf(payments, Active(payments, e))
    BY <1>9, <2>1
  <2>3. Allocated(debts, payments, e)
    BY DEF Booked
  <2> QED
    BY <2>1, <2>2, <2>3 DEF Allocated
<1>19. es[d].paid = debts[d].paid - WorthOf(payments, P) /\ es[d].paid \in Nat /\ es[d].paid = WorthOf(qs, Active(qs, d))
  BY <1>11, <1>14
<1>20. TakenDebts(off, d, P)
  BY <1>8, <1>13, <1>14, <1>19 DEF TakenDebts, es, qs
<1> QED
  BY <1>2, <1>3, <1>17, <1>18, <1>20 DEF es, qs, us, off

ClaimsTyped(cs) == cs \in [Refs -> Holders \cup {NoHolder}]
LEMMA TakenOffClaims ==
    ASSUME payments \in Seq(PaymentRecord), transfers \in Seq(TransferRecord), debts \in Seq(DebtRecord),
           Linked(debts, payments, transfers), ClaimsTyped(claims),
           NEW d \in DOMAIN debts, NEW P \in SUBSET DOMAIN payments, NEW credit
    PROVE  ClaimsTyped(TakenOff(d, P, credit).claims)
<1> DEFINE o == InOrder(Wrapped(d, P))
           gone(holder) == \E p \in P : \/ TransferOf(d, P, p) = 0 /\ payments[p].group = 0 /\ holder = <<"payment", p>>
                                 \/ /\ TransferOf(d, P, p) = 0 /\ payments[p].group # 0
                                    /\ holder = <<"group", payments[p].group>>
                                    /\ ~(\E q \in (DOMAIN payments) \ P : payments[q].group = payments[p].group /\ ~payments[q].reversed)
<1>1. TakenOff(d, P, credit).claims
        = [r \in Refs |-> IF \E p \in Range(o) : claims[r] = <<"payment", p>>
                          THEN <<"transfer", TransferOf(d, P, claims[r][2])>>
                          ELSE IF gone(claims[r]) THEN NoHolder ELSE claims[r]]
  BY DEF TakenOff, Wrapped, PlaceOf, TransferOf
<1> HIDE DEF gone
<1>2. Range(o) \in SUBSET P
  <2>1. Wrapped(d, P) \in SUBSET P /\ IsFiniteSet(Wrapped(d, P)) /\ Wrapped(d, P) \in SUBSET Int
    <3>1. Wrapped(d, P) \in SUBSET P
      BY DEF Wrapped
    <3>2. IsFiniteSet(DOMAIN payments) /\ DOMAIN payments \subseteq Int
      BY LenProperties, FS_Interval
    <3> QED
      BY <3>1, <3>2, FS_Subset
  <2>2. DOMAIN o = 1..Cardinality(Wrapped(d, P)) /\ Matches(o, 1..Cardinality(Wrapped(d, P)), Wrapped(d, P))
    BY <2>1, InOrderIs
  <2> HIDE DEF o
  <2> QED
    BY <2>1, <2>2 DEF Range, Matches
<1> HIDE DEF o
<1>3. ASSUME NEW r \in Refs
      PROVE  (IF \E p \in Range(o) : claims[r] = <<"payment", p>>
              THEN <<"transfer", TransferOf(d, P, claims[r][2])>>
              ELSE IF gone(claims[r]) THEN NoHolder ELSE claims[r]) \in Holders \cup {NoHolder}
  <2>1. claims[r] \in Holders \cup {NoHolder}
    BY DEF ClaimsTyped
  <2>2. CASE \E p \in Range(o) : claims[r] = <<"payment", p>>
    <3>1. PICK p \in P : claims[r] = <<"payment", p>>
      BY <1>2, <2>2
    <3>2. claims[r][2] = p
      BY <3>1
    <3>3. TransferOf(d, P, p) \in Nat
      BY TransferOfFits
    <3>4. <<"transfer", TransferOf(d, P, claims[r][2])>> \in Holders
      BY <3>2, <3>3 DEF Holders
    <3> QED
      BY <2>2, <3>4
  <2> QED
    BY <2>1, <2>2
<1> QED
  BY <1>1, <1>3 DEF ClaimsTyped

-----------------------------------------------------------------------------
(* The inductive invariant. *)

\* An invoice of received goods is owed to a registered supplier and to no sale.
Received(ds) ==
    \A d \in DOMAIN ds : ds[d].source = "batch_receipt" =>
        ds[d].direction = "payable" /\ ds[d].party \in Suppliers /\ ds[d].sale = 0
\* What a sale's stock cost is owed to who supplied it.
Costed(ds) ==
    \A d \in DOMAIN ds : ds[d].source = "sale_cost" => ds[d].direction = "payable" /\ ds[d].party \in Parties
\* Every sale has the debt its buyer owes.
Billed(ss, ds) ==
    \A s \in DOMAIN ss : \E d \in DOMAIN ds :
        ds[d].sale = s /\ ds[d].status # "deleted" /\ ds[d].direction = "receivable"
Kept(ss, ds, ps, ts, cs) ==
    /\ ss \in Seq(SaleRecord) /\ Sound(ds, ps, ts) /\ Booked(ds, ps)
    /\ ClaimsTyped(cs) /\ Received(ds) /\ Costed(ds) /\ Billed(ss, ds)
IInv == Kept(sales, debts, payments, transfers, claims)

\* What no handler changes of a debt.
Same(ds, ds2) ==
    /\ DOMAIN ds \subseteq DOMAIN ds2
    /\ \A d \in DOMAIN ds :
          /\ ds2[d].direction = ds[d].direction /\ ds2[d].source = ds[d].source /\ ds2[d].sale = ds[d].sale
          /\ ds[d].source = "batch_receipt" => ds2[d].party = ds[d].party
          /\ ds[d].source = "sale_cost" => ds2[d].party \in {ds[d].party} \cup Parties
          /\ ds[d].direction = "receivable" /\ ds[d].status # "deleted" => ds2[d].status # "deleted"
Arrived(ds, ds2) ==
    \A d \in DOMAIN ds2 : d \notin DOMAIN ds =>
        /\ ds2[d].paid = 0 /\ ds2[d].status = "open"
        /\ ds2[d].source = "batch_receipt" =>
               ds2[d].direction = "payable" /\ ds2[d].party \in Suppliers /\ ds2[d].sale = 0
        /\ ds2[d].source = "sale_cost" => ds2[d].direction = "payable" /\ ds2[d].party \in Parties
LEMMA SameKeeps ==
    ASSUME NEW ds, NEW ds2, NEW ss, NEW ss2, Received(ds), Costed(ds), Billed(ss, ds), Same(ds, ds2), DOMAIN ss2 = DOMAIN ss,
           Arrived(ds, ds2)
    PROVE  Received(ds2) /\ Costed(ds2) /\ Billed(ss2, ds2)
<1>1. ASSUME NEW d \in DOMAIN ds2, ds2[d].source = "batch_receipt"
      PROVE  ds2[d].direction = "payable" /\ ds2[d].party \in Suppliers /\ ds2[d].sale = 0
  BY <1>1 DEF Received, Same, Arrived
<1>2. ASSUME NEW s \in DOMAIN ss2
      PROVE  \E d \in DOMAIN ds2 : ds2[d].sale = s /\ ds2[d].status # "deleted" /\ ds2[d].direction = "receivable"
  <2>1. PICK d \in DOMAIN ds : ds[d].sale = s /\ ds[d].status # "deleted" /\ ds[d].direction = "receivable"
    BY <1>2 DEF Billed
  <2> QED
    BY <2>1 DEF Same
<1>3. ASSUME NEW d \in DOMAIN ds2, ds2[d].source = "sale_cost"
      PROVE  ds2[d].direction = "payable" /\ ds2[d].party \in Parties
  BY <1>3 DEF Costed, Same, Arrived
<1> QED
  BY <1>1, <1>2, <1>3 DEF Received, Costed, Billed

LEMMA CountedSame ==
    ASSUME NEW ds \in Seq(DebtRecord), NEW new \in Seq(PaymentRecord)
    PROVE  Same(ds, Counted(ds, new)) /\ DOMAIN Counted(ds, new) = DOMAIN ds
<1>1. DOMAIN Counted(ds, new) = DOMAIN ds
  BY CountedIs
<1>2. ASSUME NEW d \in DOMAIN ds
      PROVE  /\ Counted(ds, new)[d].direction = ds[d].direction /\ Counted(ds, new)[d].source = ds[d].source
             /\ Counted(ds, new)[d].sale = ds[d].sale /\ Counted(ds, new)[d].party = ds[d].party
             /\ ds[d].status # "deleted" => Counted(ds, new)[d].status # "deleted"
  <2>1. /\ Counted(ds, new)[d].direction = ds[d].direction /\ Counted(ds, new)[d].source = ds[d].source
        /\ Counted(ds, new)[d].sale = ds[d].sale /\ Counted(ds, new)[d].party = ds[d].party
        /\ On(new, d) = {} => Counted(ds, new)[d] = ds[d]
        /\ On(new, d) # {} =>
              Counted(ds, new)[d].status
                  = IF ds[d].paid + WorthOf(new, On(new, d)) = ds[d].amount THEN "settled" ELSE "open"
    BY CountedIs
  <2> QED
    BY <2>1
<1> QED
  BY <1>1, <1>2 DEF Same

\* A step that only adds payments to the debts there are.
LEMMA PaidKeeps ==
    ASSUME NEW ss, NEW ds, NEW ps, NEW ts, NEW cs, Kept(ss, ds, ps, ts, cs),
           NEW new \in Seq(PaymentRecord), NEW ps2, NEW ts2, NEW cs2,
           Sound(Counted(ds, new), ps2, ts2), Booked(Counted(ds, new), ps2), ClaimsTyped(cs2)
    PROVE  Kept(ss, Counted(ds, new), ps2, ts2, cs2)
<1>1. ds \in Seq(DebtRecord) /\ Received(ds) /\ Costed(ds) /\ Billed(ss, ds)
  BY DEF Kept, Sound
<1>2. Same(ds, Counted(ds, new)) /\ DOMAIN Counted(ds, new) = DOMAIN ds
  BY <1>1, CountedSame
<1> DEFINE ds2 == Counted(ds, new)
<1>3. Received(ds2) /\ Costed(ds2) /\ Billed(ss, ds2)
  <2>1. Arrived(ds, ds2)
    BY <1>2 DEF Arrived
  <2> HIDE DEF ds2
  <2> QED
    BY <1>1, <1>2, <2>1, SameKeeps DEF ds2
<1> QED
  BY <1>3 DEF Kept

LEMMA ClaimedTyped ==
    ASSUME ClaimsTyped(claims), NEW ref \in AnyRef, NEW holder \in Holders
    PROVE  ClaimsTyped(Claimed(ref, holder))
  BY DEF ClaimsTyped, Claimed, AnyRef

LEMMA AddPaymentKeeps ==
    ASSUME IInv, NEW d \in DOMAIN debts, NEW amount \in Amounts, NEW ref \in AnyRef, AddPayment(d, amount, ref)
    PROVE  IInv'
<1> DEFINE list == <<<<d, amount>>>>
           money == NewMoney(debts, list, ref)
           new == money.payments
<1>1. /\ Sound(debts, payments, transfers) /\ Booked(debts, payments) /\ debts \in Seq(DebtRecord)
      /\ payments \in Seq(PaymentRecord) /\ transfers \in Seq(TransferRecord) /\ ClaimsTyped(claims)
  BY DEF IInv, Kept, Sound
<1>2. amount \in Nat \ {0} /\ amount <= debts[d].amount - debts[d].paid
  <2>1. amount <= Balances(debts)[d]
    BY DEF AddPayment, CanPay, Balance
  <2> QED
    BY <1>1, <2>1, RowIs, LedgerAssumption DEF Amounts
<1>3. Due(list, 1, debts) /\ ref \in Refs \cup {NoRef}
  <2>1. ref \in Refs \cup {NoRef}
    BY DEF AnyRef
  <2>2. DOMAIN list = 1..1 /\ Len(list) = 1 /\ list[1] = <<d, amount>> /\ list[1][1] = d /\ list[1][2] = amount
    OBVIOUS
  <2>3. ASSUME NEW k \in 1..1 PROVE k = 1
    OBVIOUS
  <2> HIDE DEF list
  <2> QED
    BY <1>2, <2>1, <2>2, <2>3 DEF Due
<1> HIDE DEF list
<1>4. /\ Sound(Counted(debts, new), payments \o new, transfers \o money.transfers)
      /\ Booked(Counted(debts, new), payments \o new)
  BY <1>1, <1>3, MoneyAdded
<1>5. new \in Seq(PaymentRecord)
  BY <1>1, <1>3, NewMoneyIs
<1>6. /\ debts' = Counted(debts, new) /\ payments' = payments \o new
      /\ transfers' = transfers \o money.transfers /\ sales' = sales
      /\ \E holder \in Holders : claims' = Claimed(ref, holder)
  <2>1. Len(payments) + 1 \in Nat /\ Len(transfers) + 1 \in Nat
    BY <1>1, LenProperties
  <2>2. <<"payment", Len(payments) + 1>> \in Holders /\ <<"transfer", Len(transfers) + 1>> \in Holders
    BY <2>1 DEF Holders
  <2>3. /\ debts' = Counted(debts, new) /\ payments' = payments \o new
        /\ transfers' = transfers \o money.transfers /\ sales' = sales
    BY DEF AddPayment, list
  <2>4. claims' = Claimed(ref, IF money.transfers = <<>> THEN <<"payment", Len(payments) + 1>>
                               ELSE <<"transfer", Len(transfers) + 1>>)
    BY DEF AddPayment, MoneyHolder, list
  <2> HIDE DEF money, new
  <2> QED
    BY <2>2, <2>3, <2>4
<1> HIDE DEF new, money
<1>7. ClaimsTyped(claims')
  BY <1>1, <1>6, ClaimedTyped
<1>8. Kept(sales, Counted(debts, new), payments \o new, transfers', claims')
  BY <1>4, <1>5, <1>6, <1>7, PaidKeeps DEF IInv
<1> QED
  BY <1>6, <1>8 DEF IInv

LEMMA LargestIs ==
    ASSUME NEW S \in SUBSET Int, IsFiniteSet(S), S # {}
    PROVE  \E m \in S : \A y \in S : y <= m
<1> DEFINE c == Cardinality(S)
           o == InOrder(S)
<1>1. c \in Nat /\ Matches(o, 1..c, S) /\ \A k \in 1..c : Cardinality({y \in S : y <= o[k]}) = k
  BY InOrderIs
<1>2. c # 0
  BY FS_EmptySet
<1>3. PICK k \in 1..c : k = c
  BY <1>1, <1>2
<1>4. o[k] \in S
  BY <1>1 DEF Matches
<1> DEFINE T == {y \in S : y <= o[k]}
<1>5. T \in SUBSET S /\ Cardinality(T) = Cardinality(S)
  BY <1>1, <1>3
<1> HIDE DEF o
<1>6. T = S
  <2> HIDE DEF T
  <2> QED
    BY <1>5, FS_Subset
<1> QED
  BY <1>4, <1>6

LEMMA NextGroup ==
    ASSUME payments \in Seq(PaymentRecord)
    PROVE  Max(Groups) + 1 \in Nat /\ Max(Groups) \in Groups /\ \A y \in Groups : y < Max(Groups) + 1
<1> DEFINE f == [p \in DOMAIN payments |-> payments[p].group]
           G == {payments[p].group : p \in DOMAIN payments}
<1>1. DOMAIN payments = 1..Len(payments) /\ Len(payments) \in Nat /\ \A p \in DOMAIN payments : payments[p] \in PaymentRecord
  BY LenProperties, ElementOfSeq
<1>2. \A p \in DOMAIN payments : payments[p].group \in Nat
  BY <1>1 DEF PaymentRecord
<1>3. IsFiniteSet(G)
  <2>1. IsFiniteSet(DOMAIN payments)
    BY <1>1, FS_Interval
  <2>2. f \in Surjection(DOMAIN payments, G)
    BY Fun_IsSurj
  <2> HIDE DEF f, G
  <2> QED
    BY <2>1, <2>2, FS_Surjection
<1>4. Groups = G \cup {0} /\ Groups \in SUBSET Nat /\ Groups \in SUBSET Int /\ Groups # {}
  BY <1>2 DEF Groups
<1> HIDE DEF G
<1>5. IsFiniteSet(Groups)
  BY <1>3, <1>4, FS_AddElement
<1>6. \E m \in Groups : \A y \in Groups : y <= m
  BY <1>4, <1>5, LargestIs
<1>7. \E m \in Groups : \A y \in Groups : m >= y
  <2>1. PICK m \in Groups : \A y \in Groups : y <= m
    BY <1>6
  <2>2. \A y \in Groups : m >= y
    BY <1>4, <2>1
  <2> QED
    BY <2>2
<1>8. Max(Groups) \in Groups /\ \A y \in Groups : Max(Groups) >= y
  BY <1>7 DEF Max
<1>9. PICK m \in Groups : m = Max(Groups)
  BY <1>8
<1>10. m \in Nat /\ m + 1 \in Nat
  BY <1>4
<1>11. ASSUME NEW y \in Groups PROVE y < m + 1
  <2>1. y \in Nat /\ m >= y
    BY <1>4, <1>8, <1>9
  <2> QED
    BY <1>10, <2>1
<1> QED
  BY <1>9, <1>10, <1>11

LEMMA PayBuyerKeeps ==
    ASSUME IInv, NEW b \in Buyers, NEW amount \in Amounts, NEW ref \in AnyRef, PayBuyer(b, amount, ref)
    PROVE  IInv'
<1> DEFINE S == OpenBuyerDebts(b)
           g == Max(Groups) + 1
           new == Split(debts, InOrder(S), amount, 0, g, ref)
<1>1. /\ Sound(debts, payments, transfers) /\ Booked(debts, payments) /\ debts \in Seq(DebtRecord)
      /\ payments \in Seq(PaymentRecord) /\ transfers \in Seq(TransferRecord) /\ ClaimsTyped(claims)
  BY DEF IInv, Kept, Sound
<1>2. amount \in Nat /\ ref \in Refs \cup {NoRef} /\ g \in Nat
  BY <1>1, NextGroup, LedgerAssumption DEF Amounts, AnyRef
<1>3. /\ debts' = Counted(debts, new) /\ payments' = payments \o new
      /\ claims' = Claimed(ref, <<"group", g>>) /\ transfers' = transfers /\ sales' = sales
  BY DEF PayBuyer
<1>4. <<"group", g>> \in Holders
  BY <1>2 DEF Holders
<1> HIDE DEF g
<1>5. S \in SUBSET DOMAIN debts /\ \A d \in S : debts[d].status = "open"
  BY DEF OpenBuyerDebts
<1> HIDE DEF S
<1>6. PICK n \in Nat : n = Cardinality(S) /\ Payable(InOrder(S), n, debts)
  BY <1>1, <1>5, OpenPayable
<1>7. Sound(Counted(debts, new), payments \o new, transfers) /\ Booked(Counted(debts, new), payments \o new)
  BY <1>1, <1>2, <1>6, GroupAdded
<1>8. new \in Seq(PaymentRecord)
  <2>1. PICK z \in Nat : z = 0
    OBVIOUS
  <2>2. Split(debts, InOrder(S), amount, z, g, ref) \in Seq(PaymentRecord)
    BY <1>1, <1>2, <1>6, SplitIs
  <2> QED
    BY <2>1, <2>2
<1> HIDE DEF new
<1>9. ClaimsTyped(claims')
  BY <1>1, <1>3, <1>4, ClaimedTyped
<1>10. Kept(sales, Counted(debts, new), payments \o new, transfers, claims')
  BY <1>7, <1>8, <1>9, PaidKeeps DEF IInv
<1> QED
  BY <1>3, <1>10 DEF IInv

LEMMA CreditKeeps ==
    ASSUME IInv, NEW s \in Suppliers, NEW S \in SUBSET DOMAIN debts, \A d \in S : debts[d].status = "open",
           NEW amount \in Nat
    PROVE  LET new == CreditPieces(debts, transfers, InOrder(S), CreditHolders(transfers, s), amount)
           IN /\ new \in Seq(PaymentRecord)
              /\ Sound(Counted(debts, new), payments \o new, CreditUsed(transfers, new))
              /\ Booked(Counted(debts, new), payments \o new)
              /\ \A i \in 1..Cardinality(S) :
                    WorthOf(new, On(new, InOrder(S)[i])) <= Share(SizesOf(InOrder(S), debts), amount, i)
<1> DEFINE o == InOrder(S)
           ids == CreditHolders(transfers, s)
           new == CreditPieces(debts, transfers, o, ids, amount)
<1>1. /\ Sound(debts, payments, transfers) /\ Booked(debts, payments) /\ debts \in Seq(DebtRecord)
      /\ transfers \in Seq(TransferRecord)
  BY DEF IInv, Kept, Sound
<1>2. PICK n \in Nat : n = Cardinality(S) /\ Payable(o, n, debts)
  BY <1>1, OpenPayable
<1>3. PICK m \in Nat : Holding(ids, m, transfers)
  BY <1>1, HoldersHold
<1> HIDE DEF o, ids
<1>4. Sound(Counted(debts, new), payments \o new, CreditUsed(transfers, new)) /\ Booked(Counted(debts, new), payments \o new)
  BY <1>1, <1>2, <1>3, CreditAdded
<1>5. new \in Seq(PaymentRecord)
  BY <1>1, <1>2, <1>3, PiecesIs
<1>6. \A i \in 1..n : WorthOf(new, On(new, o[i])) <= Share(SizesOf(o, debts), amount, i)
  BY <1>1, <1>2, <1>3, PiecesIs
<1> QED
  BY <1>2, <1>4, <1>5, <1>6 DEF o, ids

LEMMA ApplyCreditKeeps ==
    ASSUME IInv, NEW s \in Suppliers, NEW amount \in Amounts, NEW picked, ApplyCredit(s, amount, picked)
    PROVE  IInv'
<1> DEFINE S == OpenInvoices(s, picked)
           new == CreditPieces(debts, transfers, InOrder(S), CreditHolders(transfers, s), amount)
<1>1. debts' = Counted(debts, new) /\ payments' = payments \o new /\ transfers' = CreditUsed(transfers, new)
      /\ sales' = sales /\ claims' = claims
  BY DEF ApplyCredit
<1>2. S \in SUBSET DOMAIN debts /\ (\A d \in S : debts[d].status = "open") /\ amount \in Nat
  BY LedgerAssumption DEF OpenInvoices, Amounts
<1> HIDE DEF S
<1>3. /\ new \in Seq(PaymentRecord)
      /\ Sound(Counted(debts, new), payments \o new, CreditUsed(transfers, new))
      /\ Booked(Counted(debts, new), payments \o new)
  BY <1>2, CreditKeeps
<1> HIDE DEF new
<1>4. ClaimsTyped(claims)
  BY DEF IInv, Kept
<1>5. Kept(sales, Counted(debts, new), payments \o new, CreditUsed(transfers, new), claims)
  BY <1>3, <1>4, PaidKeeps DEF IInv
<1> QED
  BY <1>1, <1>5 DEF IInv

LEMMA PaySupplierKeeps ==
    ASSUME IInv, NEW s \in Suppliers, NEW amount \in Amounts, NEW credit \in 0..MaxAmount, NEW ref \in AnyRef,
           NEW picked, PaySupplier(s, amount, credit, picked, ref)
    PROVE  IInv'
<1> DEFINE S == OpenInvoices(s, picked)
           ids == InOrder(S)
           used == CreditPieces(debts, transfers, ids, CreditHolders(transfers, s), credit)
           rest == Counted(debts, used)
           t == Len(transfers) + 1
           new == Split(rest, ids, amount, t, 0, NoRef)
           us == CreditUsed(transfers, used)
           all == Append(us, NewTransfer(s, amount, ref))
<1>1. /\ debts' = Counted(rest, new) /\ payments' = payments \o used \o new /\ transfers' = all
      /\ claims' = Claimed(ref, <<"transfer", t>>) /\ sales' = sales
      /\ amount + credit <= Owed(S)
  BY DEF PaySupplier, CanPaySupplier
<1>2. /\ S \in SUBSET DOMAIN debts /\ (\A d \in S : debts[d].status = "open")
      /\ amount \in Nat \ {0} /\ credit \in Nat /\ ref \in Refs \cup {NoRef}
  BY LedgerAssumption DEF OpenInvoices, Amounts, AnyRef
<1>3. /\ Sound(debts, payments, transfers) /\ Booked(debts, payments) /\ debts \in Seq(DebtRecord)
      /\ payments \in Seq(PaymentRecord) /\ transfers \in Seq(TransferRecord) /\ ClaimsTyped(claims)
      /\ Len(transfers) \in Nat
  BY LenProperties DEF IInv, Kept, Sound
<1> HIDE DEF S
<1>4. PICK n \in Nat : n = Cardinality(S) /\ Payable(ids, n, debts) /\ SizeOfAll(ids, n, debts) = Owed(S)
  BY <1>2, <1>3, OpenPayable
<1>5. used \in Seq(PaymentRecord)
  BY <1>2, CreditKeeps
<1>6. Sound(rest, payments \o used, us)
  BY <1>2, CreditKeeps
<1>7. Booked(rest, payments \o used)
  BY <1>2, CreditKeeps
<1>8. \A i \in 1..n : WorthOf(used, On(used, ids[i])) <= Share(SizesOf(ids, debts), credit, i)
  BY <1>2, <1>4, CreditKeeps
<1>9. amount \in Nat /\ amount + credit <= SizeOfAll(ids, n, debts)
  BY <1>1, <1>2, <1>4
<1> HIDE DEF ids, used
<1>10. Payable(ids, n, rest)
  BY <1>2, <1>3, <1>4, <1>5, <1>8, <1>9, RestPays
<1>11. amount <= SizeOfAll(ids, n, rest)
  BY <1>2, <1>3, <1>4, <1>5, <1>8, <1>9, RestPays
<1>12. Len(us) = Len(transfers)
  BY <1>3, <1>5, CreditUsedIs
<1>13. Kept(sales, rest, payments \o used, us, claims)
  BY <1>3, <1>5, <1>6, <1>7, PaidKeeps DEF IInv
<1> HIDE DEF us, rest
<1> DEFINE one == Split(rest, ids, amount, Len(us) + 1, 0, NoRef)
<1>14. one = new
  BY <1>12
<1>15. Sound(Counted(rest, one), (payments \o used) \o one, all)
  BY <1>2, <1>6, <1>7, <1>10, <1>11, SpreadAdded
<1>16. Booked(Counted(rest, one), (payments \o used) \o one)
  BY <1>2, <1>6, <1>7, <1>10, <1>11, SpreadAdded
<1>17. new \in Seq(PaymentRecord)
  <2>1. PICK z \in Nat, u \in Nat, r \in Refs \cup {NoRef}, a \in Nat : z = 0 /\ u = t /\ r = NoRef /\ a = amount
    BY <1>2, <1>3
  <2>2. rest \in Seq(DebtRecord)
    BY <1>6 DEF Sound
  <2>3. Split(rest, ids, a, u, z, r) \in Seq(PaymentRecord)
    BY <1>10, <2>1, <2>2, SplitIs
  <2> QED
    BY <2>1, <2>3
<1>18. ClaimsTyped(claims')
  <2>1. <<"transfer", t>> \in Holders
    BY <1>3 DEF Holders
  <2> QED
    BY <1>1, <1>3, <2>1, ClaimedTyped
<1> HIDE DEF new, one, all
<1>19. Kept(sales, Counted(rest, new), (payments \o used) \o new, all, claims')
  BY <1>13, <1>14, <1>15, <1>16, <1>17, <1>18, PaidKeeps
<1> QED
  BY <1>1, <1>19 DEF IInv

-----------------------------------------------------------------------------
(* Steps on transfers. *)

LEMMA RowChanged ==
    ASSUME NEW R, NEW ts \in Seq(R), NEW t \in DOMAIN ts, NEW row \in R
    PROVE  LET us == [ts EXCEPT ![t] = row]
           IN /\ us \in Seq(R) /\ Len(us) = Len(ts) /\ DOMAIN us = DOMAIN ts /\ us[t] = row
              /\ \A u \in DOMAIN ts : u # t => us[u] = ts[u]
<1> DEFINE us == [ts EXCEPT ![t] = row]
<1>1. DOMAIN ts = 1..Len(ts) /\ Len(ts) \in Nat /\ \A u \in DOMAIN ts : ts[u] \in R
  BY LenProperties, ElementOfSeq
<1>2. us = [u \in 1..Len(ts) |-> us[u]] /\ us[t] = row /\ DOMAIN us = DOMAIN ts
      /\ \A u \in DOMAIN ts : u # t => us[u] = ts[u]
  BY <1>1
<1> HIDE DEF us
<1>3. \A u \in 1..Len(ts) : us[u] \in R
  BY <1>1, <1>2
<1>4. us \in Seq(R)
  BY <1>1, <1>2, <1>3, RowIsSeq
<1>5. Len(us) = Len(ts)
  BY <1>1, <1>2, <1>4, LenProperties
<1> QED
  BY <1>2, <1>4, <1>5 DEF us

\* Events that keep a transfer's sums keep the ledger.
LEMMA TransfersKeep ==
    ASSUME IInv, NEW ts2 \in Seq(TransferRecord), Len(ts2) = Len(transfers),
           \A t \in DOMAIN ts2 : Spent(payments, ts2, t), NEW cs2, ClaimsTyped(cs2)
    PROVE  Kept(sales, debts, payments, ts2, cs2)
  BY DEF IInv, Kept, Sound, Linked

LEMMA SpentAs ==
    ASSUME NEW ps, NEW ts, NEW ts2, NEW t, Spent(ps, ts, t), ts2[t] = ts[t]
    PROVE  Spent(ps, ts2, t)
  BY DEF Spent

LEMMA RefundTransferKeeps ==
    ASSUME IInv, NEW t \in DOMAIN transfers, NEW amount \in Amounts, NEW ref \in AnyRef, RefundTransfer(t, amount, ref)
    PROVE  IInv'
<1>1. /\ transfers \in Seq(TransferRecord) /\ ClaimsTyped(claims) /\ \A u \in DOMAIN transfers : Spent(payments, transfers, u)
      /\ amount \in Nat /\ t \in Nat
  BY LedgerAssumption, LenProperties DEF IInv, Kept, Sound, Amounts
<1>2. /\ transfers[t] \in TransferRecord /\ transfers[t].refunded \in Nat /\ transfers[t].used \in Nat
      /\ transfers[t].wrong \in Nat /\ transfers[t].credited \in Nat
      /\ amount <= transfers[t].credited - transfers[t].used - transfers[t].refunded - transfers[t].wrong
  BY <1>1, CreditIs DEF RefundTransfer, CanRefund
<1>3. PICK n \in Nat : n = transfers[t].refunded + amount
  BY <1>1, <1>2
<1> DEFINE row == [transfers[t] EXCEPT !.refunded = n]
           us == [transfers EXCEPT ![t] = row]
<1>4. row \in TransferRecord /\ row.refunded = n /\ row.used = transfers[t].used /\ row.wrong = transfers[t].wrong
      /\ row.credited = transfers[t].credited /\ row.refundedFrom = transfers[t].refundedFrom
      /\ row.wrongFrom = transfers[t].wrongFrom /\ row.amount = transfers[t].amount
  BY ONLY <1>2, n \in Nat DEF TransferRecord
<1>5. transfers' = us /\ claims' = Claimed(ref, <<"refund", t>>) /\ sales' = sales /\ debts' = debts /\ payments' = payments
  BY <1>3 DEF RefundTransfer
<1> HIDE DEF row
<1>6. us \in Seq(TransferRecord) /\ Len(us) = Len(transfers) /\ DOMAIN us = DOMAIN transfers /\ us[t] = row
      /\ \A u \in DOMAIN transfers : u # t => us[u] = transfers[u]
  BY <1>1, <1>4, RowChanged
<1> HIDE DEF us
<1>7. Spent(payments, us, t)
  <2>1. Spent(payments, transfers, t)
    BY <1>1
  <2>2. /\ us[t].amount = transfers[t].amount /\ us[t].used = transfers[t].used /\ us[t].refunded = n
        /\ us[t].wrong = transfers[t].wrong /\ us[t].credited = transfers[t].credited
        /\ us[t].refundedFrom = transfers[t].refundedFrom /\ us[t].wrongFrom = transfers[t].wrongFrom
    BY ONLY <1>4, <1>6
  <2>3. transfers[t].used + n + transfers[t].wrong <= transfers[t].credited
    <3>1. amount \in Nat
      BY <1>1
    <3> QED
      BY ONLY <1>2, <1>3, <3>1
  <2> QED
    BY ONLY <2>1, <2>2, <2>3 DEF Spent
<1>8. \A u \in DOMAIN us : Spent(payments, us, u)
  BY <1>1, <1>6, <1>7, SpentAs
<1>9. ClaimsTyped(claims')
  <2>1. <<"refund", t>> \in Holders
    BY <1>1 DEF Holders
  <2> QED
    BY <1>1, <1>5, <2>1, ClaimedTyped
<1>10. Kept(sales, debts, payments, us, claims')
  BY <1>6, <1>8, <1>9, TransfersKeep
<1> QED
  BY <1>5, <1>10 DEF IInv

LEMMA CorrectTransferKeeps ==
    ASSUME IInv, NEW t \in DOMAIN transfers, NEW amount \in Amounts, CorrectTransfer(t, amount)
    PROVE  IInv'
<1>1. /\ transfers \in Seq(TransferRecord) /\ ClaimsTyped(claims) /\ \A u \in DOMAIN transfers : Spent(payments, transfers, u)
      /\ amount \in Nat /\ t \in Nat
  BY LedgerAssumption, LenProperties DEF IInv, Kept, Sound, Amounts
<1>2. /\ transfers[t] \in TransferRecord /\ transfers[t].refunded \in Nat /\ transfers[t].used \in Nat
      /\ transfers[t].wrong \in Nat /\ transfers[t].credited \in Nat
      /\ amount <= transfers[t].credited - transfers[t].used - transfers[t].refunded - transfers[t].wrong
  BY <1>1, CreditIs DEF CorrectTransfer, CanRefund
<1>3. PICK n \in Nat : n = transfers[t].wrong + amount
  BY <1>1, <1>2
<1> DEFINE row == [transfers[t] EXCEPT !.wrong = n]
           us == [transfers EXCEPT ![t] = row]
<1>4. row \in TransferRecord /\ row.wrong = n /\ row.used = transfers[t].used /\ row.refunded = transfers[t].refunded
      /\ row.credited = transfers[t].credited /\ row.refundedFrom = transfers[t].refundedFrom
      /\ row.wrongFrom = transfers[t].wrongFrom /\ row.amount = transfers[t].amount
  BY ONLY <1>2, n \in Nat DEF TransferRecord
<1>5. transfers' = us /\ claims' = claims /\ sales' = sales /\ debts' = debts /\ payments' = payments
  BY <1>3 DEF CorrectTransfer
<1> HIDE DEF row
<1>6. us \in Seq(TransferRecord) /\ Len(us) = Len(transfers) /\ DOMAIN us = DOMAIN transfers /\ us[t] = row
      /\ \A u \in DOMAIN transfers : u # t => us[u] = transfers[u]
  BY <1>1, <1>4, RowChanged
<1> HIDE DEF us
<1>7. Spent(payments, us, t)
  <2>1. Spent(payments, transfers, t)
    BY <1>1
  <2>2. /\ us[t].amount = transfers[t].amount /\ us[t].used = transfers[t].used /\ us[t].refunded = transfers[t].refunded
        /\ us[t].wrong = n /\ us[t].credited = transfers[t].credited
        /\ us[t].refundedFrom = transfers[t].refundedFrom /\ us[t].wrongFrom = transfers[t].wrongFrom
    BY ONLY <1>4, <1>6
  <2>3. transfers[t].used + transfers[t].refunded + n <= transfers[t].credited
    <3>1. amount \in Nat
      BY <1>1
    <3> QED
      BY ONLY <1>2, <1>3, <3>1
  <2> QED
    BY ONLY <2>1, <2>2, <2>3 DEF Spent
<1>8. \A u \in DOMAIN us : Spent(payments, us, u)
  BY <1>1, <1>6, <1>7, SpentAs
<1>9. Kept(sales, debts, payments, us, claims)
  BY <1>1, <1>6, <1>8, TransfersKeep
<1> QED
  BY <1>5, <1>9 DEF IInv

-----------------------------------------------------------------------------
(* Steps on one payment. *)

LEMMA BookedAs ==
    ASSUME NEW ds, NEW ps, NEW qs, Booked(ds, ps), DOMAIN qs = DOMAIN ps,
           \A p \in DOMAIN ps : qs[p].debt = ps[p].debt /\ qs[p].amount = ps[p].amount /\ qs[p].reversed = ps[p].reversed
    PROVE  Booked(ds, qs) /\ Worth(qs) = Worth(ps)
<1>1. Worth(qs) = Worth(ps)
  BY DEF Worth
<1>2. ASSUME NEW d PROVE Active(qs, d) = Active(ps, d)
  BY DEF Active
<1>3. ASSUME NEW d \in DOMAIN ds PROVE Allocated(ds, qs, d)
  <2>1. WorthOf(qs, Active(qs, d)) = WorthOf(ps, Active(ps, d))
    BY <1>1, <1>2 DEF WorthOf
  <2>2. Allocated(ds, ps, d)
    BY DEF Booked
  <2> QED
    BY <2>1, <2>2 DEF Allocated
<1> QED
  BY <1>1, <1>3 DEF Booked

LEMMA PaymentIs ==
    ASSUME NEW ps \in Seq(PaymentRecord), NEW p \in DOMAIN ps
    PROVE  /\ ps[p] \in PaymentRecord /\ ps[p].amount \in Nat \ {0} /\ ps[p].transfer \in Nat /\ ps[p].decided \in Nat
           /\ ps[p].debt \in Nat \ {0} /\ ps[p].group \in Nat /\ ps[p].ref \in Refs \cup {NoRef}
           /\ ps[p].reversed \in BOOLEAN
<1>1. ps[p] \in PaymentRecord
  BY ElementOfSeq
<1> QED
  BY <1>1 DEF PaymentRecord

LEMMA OffIs ==
    ASSUME NEW ps \in Seq(PaymentRecord), NEW t
    PROVE  IsFiniteSet(Off(ps, t)) /\ Off(ps, t) \in SUBSET DOMAIN ps /\ IntegerOn(Decided(ps), Off(ps, t))
<1>1. Off(ps, t) \in SUBSET DOMAIN ps
  BY DEF Off
<1>2. IsFiniteSet(Off(ps, t))
  BY <1>1, WorthIs
<1>3. \A p \in Off(ps, t) : Decided(ps)[p] \in Int
  BY <1>1, PaymentIs DEF Decided
<1> QED
  BY <1>1, <1>2, <1>3 DEF IntegerOn

\* More of a payment that came off its invoice is decided.
DecidedAs(qs, ps, p, amount) ==
    /\ qs \in Seq(PaymentRecord) /\ DOMAIN qs = DOMAIN ps
    /\ qs[p].decided = ps[p].decided + amount
    /\ \A q \in DOMAIN ps : q # p => qs[q] = ps[q]
    /\ \A q \in DOMAIN ps : /\ qs[q].debt = ps[q].debt /\ qs[q].amount = ps[q].amount
                            /\ qs[q].transfer = ps[q].transfer /\ qs[q].reversed = ps[q].reversed
    /\ \A t : SumFunctionOnSet(Decided(qs), Off(qs, t))
                  = SumFunctionOnSet(Decided(ps), Off(ps, t)) + (IF ps[p].transfer = t THEN amount ELSE 0)
LEMMA DecidedMore ==
    ASSUME NEW ps \in Seq(PaymentRecord), NEW p \in DOMAIN ps, ps[p].reversed, NEW amount \in Nat
    PROVE  DecidedAs([ps EXCEPT ![p].decided = @ + amount], ps, p, amount)
<1>1. ps[p] \in PaymentRecord /\ ps[p].decided \in Nat
  BY PaymentIs
<1>2. PICK n \in Nat : n = ps[p].decided + amount
  BY <1>1
<1> DEFINE row == [ps[p] EXCEPT !.decided = n]
           qs == [ps EXCEPT ![p] = row]
<1>3. row \in PaymentRecord /\ row.decided = n /\ row.debt = ps[p].debt /\ row.amount = ps[p].amount
      /\ row.transfer = ps[p].transfer /\ row.reversed = ps[p].reversed
  BY ONLY <1>1, n \in Nat DEF PaymentRecord
<1>4. [ps EXCEPT ![p].decided = @ + amount] = qs
  BY <1>2
<1> HIDE DEF row
<1>5. qs \in Seq(PaymentRecord) /\ DOMAIN qs = DOMAIN ps /\ qs[p] = row
      /\ \A q \in DOMAIN ps : q # p => qs[q] = ps[q]
  BY <1>3, RowChanged
<1> HIDE DEF qs
<1>6. \A q \in DOMAIN ps : /\ qs[q].debt = ps[q].debt /\ qs[q].amount = ps[q].amount
                           /\ qs[q].transfer = ps[q].transfer /\ qs[q].reversed = ps[q].reversed
  BY <1>3, <1>5
<1>7. ASSUME NEW t
      PROVE  SumFunctionOnSet(Decided(qs), Off(qs, t))
                 = SumFunctionOnSet(Decided(ps), Off(ps, t)) + (IF ps[p].transfer = t THEN amount ELSE 0)
  <2> DEFINE O == Off(ps, t)
             f == Decided(ps)
             g == Decided(qs)
  <2>1. Off(qs, t) = O
    BY <1>5, <1>6 DEF Off
  <2>2. IsFiniteSet(O) /\ IntegerOn(f, O) /\ IntegerOn(g, O) /\ O \in SUBSET DOMAIN ps
    <3>1. IsFiniteSet(Off(ps, t)) /\ Off(ps, t) \in SUBSET DOMAIN ps /\ IntegerOn(Decided(ps), Off(ps, t))
      BY OffIs
    <3>2. IntegerOn(Decided(qs), Off(qs, t))
      BY <1>5, OffIs
    <3> QED
      BY <2>1, <3>1, <3>2
  <2>3. f[p] = ps[p].decided /\ g[p] = n
    BY <1>3, <1>5 DEF Decided
  <2>4. \A q \in O : q # p => g[q] = f[q]
    BY <1>5, <2>2 DEF Decided
  <2>5. p \in O <=> ps[p].transfer = t
    BY DEF Off
  <2>6. SumFunctionOnSet(f, O) \in Int
    <3> HIDE DEF O, f
    <3> QED
      BY <2>2, SumType
  <2>7. CASE ps[p].transfer = t
    <3>1. p \in O /\ \A q \in O \ {p} : g[q] = f[q]
      BY <2>4, <2>5, <2>7
    <3>2. SumFunctionOnSet(g, O) = SumFunctionOnSet(f, O) + g[p] - f[p]
      <4> HIDE DEF O, f, g
      <4> QED
        BY <2>2, <3>1, SumChange
    <3>3. SumFunctionOnSet(g, O) = SumFunctionOnSet(f, O) + amount
      <4> HIDE DEF O, f, g
      <4> QED
        BY <1>1, <1>2, <2>3, <2>6, <3>2
    <3> QED
      BY <2>1, <2>7, <3>3
  <2>8. CASE ps[p].transfer # t
    <3>1. \A q \in O : g[q] = f[q]
      BY <2>4, <2>5, <2>8
    <3>2. SumFunctionOnSet(g, O) = SumFunctionOnSet(f, O)
      <4> HIDE DEF O, f, g
      <4> QED
        BY <2>2, <3>1, SumSame
    <3>3. SumFunctionOnSet(g, O) = SumFunctionOnSet(f, O) + 0
      <4> HIDE DEF O, f, g
      <4> QED
        BY <2>6, <3>2
    <3> QED
      BY <2>1, <2>8, <3>3
  <2> QED
    BY <2>7, <2>8
<1>8. qs[p].decided = ps[p].decided + amount
  BY <1>2, <1>3, <1>5
<1>9. DecidedAs(qs, ps, p, amount)
  BY <1>5, <1>6, <1>7, <1>8 DEF DecidedAs
<1> QED
  BY <1>4, <1>9

LEMMA ClassifyKeeps ==
    ASSUME IInv, NEW p \in DOMAIN payments, NEW as \in {"credit", "refund", "entry_error"}, NEW amount \in Amounts,
           Classify(p, as, amount)
    PROVE  IInv'
<1> DEFINE t == payments[p].transfer
           qs == [payments EXCEPT ![p].decided = @ + amount]
           us == transfers'
<1>0. amount \in Nat
  BY LedgerAssumption DEF Amounts
<1>1. /\ payments \in Seq(PaymentRecord) /\ transfers \in Seq(TransferRecord) /\ debts \in Seq(DebtRecord)
      /\ Linked(debts, payments, transfers) /\ \A u \in DOMAIN transfers : Spent(payments, transfers, u)
      /\ Booked(debts, payments) /\ ClaimsTyped(claims) /\ amount \in Nat
      /\ DOMAIN transfers = 1..Len(transfers) /\ Len(transfers) \in Nat
  BY LedgerAssumption, LenProperties DEF IInv, Kept, Sound, Amounts
<1>2. /\ payments[p].reversed /\ t # 0 /\ amount <= payments[p].amount - payments[p].decided
      /\ payments' = qs /\ sales' = sales /\ debts' = debts /\ claims' = claims
  BY DEF Classify, Undecided
<1>3. t \in DOMAIN transfers
  BY <1>1, <1>2 DEF Linked
<1>4. /\ transfers[t] \in TransferRecord /\ transfers[t].credited \in Nat
      /\ transfers[t].refundedFrom \in Nat /\ transfers[t].wrongFrom \in Nat
      /\ transfers[t].used \in Nat /\ transfers[t].refunded \in Nat /\ transfers[t].wrong \in Nat
  <2>1. transfers[t] \in TransferRecord
    BY <1>1, <1>3, ElementOfSeq
  <2> QED
    BY <2>1 DEF TransferRecord
<1> DEFINE changed(row) ==
              /\ row \in TransferRecord /\ row.amount = transfers[t].amount /\ row.used = transfers[t].used
              /\ row.refunded = transfers[t].refunded /\ row.wrong = transfers[t].wrong
              /\ row.credited >= transfers[t].credited
              /\ row.credited + row.refundedFrom + row.wrongFrom
                    = transfers[t].credited + transfers[t].refundedFrom + transfers[t].wrongFrom + amount
              /\ us = [transfers EXCEPT ![t] = row]
<1>5. \E row : changed(row)
  <2>1. CASE as = "credit"
    <3>1. PICK n \in Nat : n = transfers[t].credited + amount
      BY <1>1, <1>4
    <3>2. us = [transfers EXCEPT ![t]["credited"] = @ + amount]
      BY <2>1 DEF Classify
    <3> DEFINE row == [transfers[t] EXCEPT !.credited = n]
    <3>3. us = [transfers EXCEPT ![t] = row]
      BY <3>1, <3>2
    <3>4. row \in TransferRecord /\ row.credited = n /\ row.amount = transfers[t].amount /\ row.used = transfers[t].used
          /\ row.refunded = transfers[t].refunded /\ row.wrong = transfers[t].wrong
          /\ row.refundedFrom = transfers[t].refundedFrom /\ row.wrongFrom = transfers[t].wrongFrom
      BY ONLY <1>4, n \in Nat DEF TransferRecord
    <3> HIDE DEF row
    <3>5. /\ row.credited >= transfers[t].credited
          /\ row.credited + row.refundedFrom + row.wrongFrom
                = transfers[t].credited + transfers[t].refundedFrom + transfers[t].wrongFrom + amount
      BY ONLY <1>0, <1>4, <3>1, <3>4
    <3>6. changed(row)
      BY ONLY <3>3, <3>4, <3>5
    <3> QED
      BY <3>6
  <2>2. CASE as = "refund"
    <3>1. PICK n \in Nat : n = transfers[t].refundedFrom + amount
      BY <1>1, <1>4
    <3>2. us = [transfers EXCEPT ![t]["refundedFrom"] = @ + amount]
      <4>1. "refund" # "credit"
        OBVIOUS
      <4> QED
        BY <2>2, <4>1 DEF Classify
    <3> DEFINE row == [transfers[t] EXCEPT !.refundedFrom = n]
    <3>3. us = [transfers EXCEPT ![t] = row]
      BY <3>1, <3>2
    <3>4. row \in TransferRecord /\ row.refundedFrom = n /\ row.amount = transfers[t].amount /\ row.used = transfers[t].used
          /\ row.refunded = transfers[t].refunded /\ row.wrong = transfers[t].wrong
          /\ row.credited = transfers[t].credited /\ row.wrongFrom = transfers[t].wrongFrom
      BY ONLY <1>4, n \in Nat DEF TransferRecord
    <3> HIDE DEF row
    <3>5. /\ row.credited >= transfers[t].credited
          /\ row.credited + row.refundedFrom + row.wrongFrom
                = transfers[t].credited + transfers[t].refundedFrom + transfers[t].wrongFrom + amount
      BY ONLY <1>0, <1>4, <3>1, <3>4
    <3>6. changed(row)
      BY ONLY <3>3, <3>4, <3>5
    <3> QED
      BY <3>6
  <2>3. CASE as = "entry_error"
    <3>1. PICK n \in Nat : n = transfers[t].wrongFrom + amount
      BY <1>1, <1>4
    <3>2. us = [transfers EXCEPT ![t]["wrongFrom"] = @ + amount]
      <4>1. "entry_error" # "credit" /\ "entry_error" # "refund"
        OBVIOUS
      <4>2. ~(as = "credit") /\ ~(as = "refund")
        BY <2>3, <4>1
      <4> QED
        BY <4>2 DEF Classify
    <3> DEFINE row == [transfers[t] EXCEPT !.wrongFrom = n]
    <3>3. us = [transfers EXCEPT ![t] = row]
      BY <3>1, <3>2
    <3>4. row \in TransferRecord /\ row.wrongFrom = n /\ row.amount = transfers[t].amount /\ row.used = transfers[t].used
          /\ row.refunded = transfers[t].refunded /\ row.wrong = transfers[t].wrong
          /\ row.credited = transfers[t].credited /\ row.refundedFrom = transfers[t].refundedFrom
      BY ONLY <1>4, n \in Nat DEF TransferRecord
    <3> HIDE DEF row
    <3>5. /\ row.credited >= transfers[t].credited
          /\ row.credited + row.refundedFrom + row.wrongFrom
                = transfers[t].credited + transfers[t].refundedFrom + transfers[t].wrongFrom + amount
      BY ONLY <1>0, <1>4, <3>1, <3>4
    <3>6. changed(row)
      BY ONLY <3>3, <3>4, <3>5
    <3> QED
      BY <3>6
  <2> QED
    BY <2>1, <2>2, <2>3
<1>6. PICK row : changed(row)
  BY <1>5
<1>7. us \in Seq(TransferRecord) /\ Len(us) = Len(transfers) /\ DOMAIN us = DOMAIN transfers /\ us[t] = row
      /\ \A u \in DOMAIN transfers : u # t => us[u] = transfers[u]
  <2> DEFINE vs == [transfers EXCEPT ![t] = row]
  <2>1. us = vs /\ row \in TransferRecord
    BY <1>6
  <2>2. vs \in Seq(TransferRecord) /\ Len(vs) = Len(transfers) /\ DOMAIN vs = DOMAIN transfers /\ vs[t] = row
        /\ \A u \in DOMAIN transfers : u # t => vs[u] = transfers[u]
    BY ONLY <1>1, <1>3, <2>1, RowChanged
  <2> QED
    BY <2>1, <2>2
<1>8. DecidedAs(qs, payments, p, amount)
  BY <1>1, <1>2, DecidedMore
<1> HIDE DEF us, qs
<1>9. /\ qs \in Seq(PaymentRecord) /\ DOMAIN qs = DOMAIN payments
      /\ qs[p].decided = payments[p].decided + amount
      /\ \A q \in DOMAIN payments : q # p => qs[q] = payments[q]
      /\ \A q \in DOMAIN payments : /\ qs[q].debt = payments[q].debt /\ qs[q].amount = payments[q].amount
                                    /\ qs[q].transfer = payments[q].transfer /\ qs[q].reversed = payments[q].reversed
  BY <1>8 DEF DecidedAs
<1>10. Booked(debts, qs) /\ Worth(qs) = Worth(payments)
  BY <1>1, <1>9, BookedAs
<1>11. Linked(debts, qs, us)
  <2>1. payments[p].amount \in Nat /\ payments[p].decided \in Nat
    BY <1>1, PaymentIs
  <2>2. ASSUME NEW q \in DOMAIN qs
        PROVE  /\ qs[q].debt \in DOMAIN debts /\ qs[q].transfer \in 0..Len(us)
               /\ qs[q].decided <= qs[q].amount /\ (qs[q].transfer = 0 => qs[q].decided = 0)
    <3>1. /\ payments[q].debt \in DOMAIN debts /\ payments[q].transfer \in 0..Len(transfers)
          /\ payments[q].decided <= payments[q].amount /\ (payments[q].transfer = 0 => payments[q].decided = 0)
      BY <1>1, <1>9 DEF Linked
    <3>2. CASE q = p
      BY <1>1, <1>2, <1>7, <1>9, <2>1, <3>1, <3>2
    <3>3. CASE q # p
      BY <1>7, <1>9, <3>1, <3>3
    <3> QED
      BY <3>2, <3>3
  <2> QED
    BY <2>2 DEF Linked
<1>12. ASSUME NEW u \in DOMAIN us PROVE Spent(qs, us, u)
  <2>1. Spent(payments, transfers, u)
    BY <1>1, <1>7
  <2>2. From(qs, u) = From(payments, u)
    BY <1>9 DEF From
  <2>3. WorthOf(qs, From(qs, u)) = WorthOf(payments, From(payments, u))
    BY <1>10, <2>2 DEF WorthOf
  <2>4. CASE u = t
    <3>1. SumFunctionOnSet(Decided(qs), Off(qs, u)) = SumFunctionOnSet(Decided(payments), Off(payments, u)) + amount
      BY <1>8, <2>4 DEF DecidedAs
    <3>2. /\ us[u].amount = transfers[u].amount /\ us[u].used = transfers[u].used
          /\ us[u].refunded = transfers[u].refunded /\ us[u].wrong = transfers[u].wrong
          /\ us[u].credited >= transfers[u].credited /\ us[u].credited \in Nat
          /\ us[u].credited + us[u].refundedFrom + us[u].wrongFrom
                = transfers[u].credited + transfers[u].refundedFrom + transfers[u].wrongFrom + amount
      <4>1. row.credited \in Nat
        BY <1>6 DEF TransferRecord
      <4> QED
        BY <1>6, <1>7, <2>4, <4>1
    <3>3. /\ WorthOf(payments, From(payments, u)) = transfers[u].amount + transfers[u].used
          /\ transfers[u].used + transfers[u].refunded + transfers[u].wrong <= transfers[u].credited
          /\ SumFunctionOnSet(Decided(payments), Off(payments, u))
                = transfers[u].credited + transfers[u].refundedFrom + transfers[u].wrongFrom
      BY <2>1 DEF Spent
    <3>4. WorthOf(qs, From(qs, u)) = us[u].amount + us[u].used
      BY <2>3, <3>2, <3>3
    <3>5. us[u].used + us[u].refunded + us[u].wrong <= us[u].credited
      BY ONLY <1>4, <2>4, <3>2, <3>3
    <3>6. SumFunctionOnSet(Decided(qs), Off(qs, u)) = us[u].credited + us[u].refundedFrom + us[u].wrongFrom
      BY ONLY <3>1, <3>2, <3>3
    <3> QED
      BY <3>4, <3>5, <3>6 DEF Spent
  <2>5. CASE u # t
    <3>1. us[u] = transfers[u] /\ u \in DOMAIN transfers
      BY <1>7, <2>5
    <3>2. IntegerOn(Decided(payments), Off(payments, u)) /\ IsFiniteSet(Off(payments, u))
      BY <1>1, OffIs
    <3>3. SumFunctionOnSet(Decided(payments), Off(payments, u)) \in Int
      BY <3>2, SumType
    <3>4. SumFunctionOnSet(Decided(qs), Off(qs, u)) = SumFunctionOnSet(Decided(payments), Off(payments, u)) + 0
      BY <1>8, <2>5 DEF DecidedAs
    <3>5. SumFunctionOnSet(Decided(qs), Off(qs, u)) = SumFunctionOnSet(Decided(payments), Off(payments, u))
      BY <3>3, <3>4
    <3> QED
      BY <2>1, <2>3, <3>1, <3>5 DEF Spent
  <2> QED
    BY <2>4, <2>5
<1>13. Kept(sales, debts, qs, us, claims)
  BY <1>1, <1>7, <1>9, <1>10, <1>11, <1>12 DEF Kept, Sound, IInv
<1> QED
  BY <1>2, <1>13 DEF IInv, us

\* A payment from before transfers gets the transfer of its own.
LEMMA WrapKeeps ==
    ASSUME IInv, NEW p \in DOMAIN payments, Wrap(p)
    PROVE  IInv'
<1> DEFINE d == debts[payments[p].debt]
           t == Len(transfers) + 1
           made == NewTransfer(d.party, payments[p].amount, payments[p].ref)
           us == Append(transfers, made)
           qs == [payments EXCEPT ![p].transfer = t]
<1>1. /\ payments \in Seq(PaymentRecord) /\ transfers \in Seq(TransferRecord) /\ debts \in Seq(DebtRecord)
      /\ Linked(debts, payments, transfers) /\ \A u \in DOMAIN transfers : Spent(payments, transfers, u)
      /\ Booked(debts, payments) /\ ClaimsTyped(claims)
      /\ DOMAIN transfers = 1..Len(transfers) /\ Len(transfers) \in Nat
  BY LenProperties DEF IInv, Kept, Sound
<1>2. /\ payments[p].transfer = 0 /\ d.party \in Suppliers
      /\ payments' = qs /\ transfers' = us /\ sales' = sales /\ debts' = debts
      /\ claims' = [r \in Refs |-> IF claims[r] = <<"payment", p>> THEN <<"transfer", t>> ELSE claims[r]]
  BY DEF Wrap, ToSupplier
<1>3. /\ payments[p] \in PaymentRecord /\ payments[p].amount \in Nat \ {0} /\ payments[p].ref \in Refs \cup {NoRef}
      /\ payments[p].decided = 0
  BY <1>1, <1>2, PaymentIs DEF Linked
<1>4. made \in TransferRecord /\ Untouched(made) /\ made.amount = payments[p].amount
  BY <1>2, <1>3, NewTransferIs
<1> HIDE DEF made
<1>5. /\ us \in Seq(TransferRecord) /\ Len(us) = Len(transfers) + 1
      /\ \A i \in 1..Len(transfers) : us[i] = transfers[i]
      /\ us[Len(transfers) + 1] = made
  BY <1>1, <1>4, AppendProperties
<1>6. DOMAIN us = 1..(Len(transfers) + 1)
  BY <1>5, LenProperties
<1> HIDE DEF us
<1>7. PICK n \in Nat : n = t
  BY <1>1
<1> DEFINE row == [payments[p] EXCEPT !.transfer = n]
           rs == [payments EXCEPT ![p] = row]
<1>8. row \in PaymentRecord /\ row.transfer = n /\ row.debt = payments[p].debt /\ row.amount = payments[p].amount
      /\ row.decided = payments[p].decided /\ row.reversed = payments[p].reversed
  BY ONLY <1>3, n \in Nat DEF PaymentRecord
<1>9. qs = rs
  BY <1>7
<1> HIDE DEF row
<1>10. rs \in Seq(PaymentRecord) /\ DOMAIN rs = DOMAIN payments /\ rs[p] = row
      /\ \A q \in DOMAIN payments : q # p => rs[q] = payments[q]
  BY <1>1, <1>8, RowChanged
<1>11. /\ qs \in Seq(PaymentRecord) /\ DOMAIN qs = DOMAIN payments /\ qs[p].transfer = n
       /\ \A q \in DOMAIN payments : q # p => qs[q] = payments[q]
       /\ \A q \in DOMAIN payments : /\ qs[q].debt = payments[q].debt /\ qs[q].amount = payments[q].amount
                                     /\ qs[q].reversed = payments[q].reversed /\ qs[q].decided = payments[q].decided
  <2> HIDE DEF rs, qs
  <2> QED
    BY <1>8, <1>9, <1>10
<1> HIDE DEF qs
<1>12. Booked(debts, qs) /\ Worth(qs) = Worth(payments)
  BY <1>1, <1>11, BookedAs
<1>13. Decided(qs) = Decided(payments)
  BY <1>11 DEF Decided
<1>14. Linked(debts, qs, us)
  <2> SUFFICES ASSUME NEW q \in DOMAIN qs
               PROVE  /\ qs[q].debt \in DOMAIN debts /\ qs[q].transfer \in 0..Len(us)
                      /\ qs[q].decided <= qs[q].amount /\ (qs[q].transfer = 0 => qs[q].decided = 0)
    BY DEF Linked
  <2>1. /\ payments[q].debt \in DOMAIN debts /\ payments[q].transfer \in 0..Len(transfers)
        /\ payments[q].decided <= payments[q].amount /\ (payments[q].transfer = 0 => payments[q].decided = 0)
    BY <1>1, <1>11 DEF Linked
  <2>2. CASE q = p
    BY <1>1, <1>3, <1>5, <1>7, <1>11, <2>1, <2>2
  <2>3. CASE q # p
    <3>1. qs[q] = payments[q]
      BY <1>11, <2>3
    <3> QED
      BY <1>1, <1>5, <2>1, <3>1
  <2> QED
    BY <2>2, <2>3
<1>15. ASSUME NEW u \in DOMAIN us PROVE Spent(qs, us, u)
  <2>1. CASE u \in DOMAIN transfers
    <3>1. u # 0 /\ u # n /\ us[u] = transfers[u]
      BY <1>1, <1>5, <1>7, <2>1
    <3>2. From(qs, u) = From(payments, u) /\ Off(qs, u) = Off(payments, u)
      <4>1. ASSUME NEW q \in DOMAIN payments PROVE (qs[q].transfer = u) <=> (payments[q].transfer = u)
        BY <1>2, <1>11, <3>1
      <4> QED
        BY <1>11, <4>1 DEF From, Off
    <3>3. Spent(payments, transfers, u)
      BY <1>1, <2>1
    <3> QED
      BY <1>12, <1>13, <3>1, <3>2, <3>3 DEF Spent, WorthOf
  <2>2. CASE u \notin DOMAIN transfers
    <3>1. u = n /\ us[u] = made /\ n \notin 0..Len(transfers)
      BY <1>1, <1>5, <1>6, <1>7, <2>2
    <3>2. ASSUME NEW q \in DOMAIN payments PROVE (qs[q].transfer = u) <=> q = p
      BY <1>1, <1>11, <3>1 DEF Linked
    <3>3. From(qs, u) = {p} /\ Off(qs, u) \in SUBSET {p}
      BY <1>11, <3>2 DEF From, Off
    <3>4. Worth(payments)[p] = payments[p].amount /\ Worth(payments)[p] \in Int
      BY <1>3 DEF Worth
    <3>5. WorthOf(qs, From(qs, u)) = payments[p].amount
      BY <1>12, <3>3, <3>4, SumOne DEF WorthOf
    <3>6. SumFunctionOnSet(Decided(qs), Off(qs, u)) = 0
      <4>1. IsFiniteSet(Off(qs, u))
        BY <1>11, OffIs
      <4>2. \A q \in Off(qs, u) : Decided(qs)[q] = 0
        BY <1>3, <1>13, <3>3 DEF Decided
      <4> QED
        BY <4>1, <4>2, SumOfZeros
    <3>7. made.amount \in Nat
      BY <1>3, <1>4
    <3> QED
      BY <1>4, <3>1, <3>5, <3>6, <3>7 DEF Spent, Untouched
  <2> QED
    BY <2>1, <2>2
<1>16. ClaimsTyped(claims')
  <2>1. <<"transfer", t>> \in Holders
    BY <1>1 DEF Holders
  <2> QED
    BY <1>1, <1>2, <2>1 DEF ClaimsTyped
<1>17. Kept(sales, debts, qs, us, claims')
  BY <1>5, <1>11, <1>12, <1>14, <1>15, <1>16 DEF Kept, Sound, IInv
<1> QED
  BY <1>2, <1>17 DEF IInv

-----------------------------------------------------------------------------
(* Steps on debts: rows change, and no payment does. *)

LEMMA DebtsKeep ==
    ASSUME IInv, NEW ds2 \in Seq(DebtRecord), Same(debts, ds2), Arrived(debts, ds2), Booked(ds2, payments),
           NEW ss2 \in Seq(SaleRecord), DOMAIN ss2 = DOMAIN sales
    PROVE  Kept(ss2, ds2, payments, transfers, claims)
<1>1. Received(ds2) /\ Costed(ds2) /\ Billed(ss2, ds2)
  BY SameKeeps DEF IInv, Kept
<1>2. Linked(ds2, payments, transfers)
  BY DEF IInv, Kept, Sound, Linked, Same
<1>3. Sound(ds2, payments, transfers)
  BY <1>2 DEF IInv, Kept, Sound
<1> QED
  BY <1>1, <1>3 DEF IInv, Kept

\* A debt nothing is paid on and none of whose payments count.
LEMMA NewRowAllocated ==
    ASSUME NEW ds, NEW ps, NEW ts, Linked(ds, ps, ts), NEW d, d \notin DOMAIN ds, NEW ds2,
           ds2[d].paid = 0, ds2[d].status = "open", ds2[d].amount \in Nat \ {0}
    PROVE  Allocated(ds2, ps, d)
<1>1. WorthOf(ps, Active(ps, d)) = 0
  BY Unlinked
<1> QED
  BY <1>1 DEF Allocated

LEMMA ClosedAllocated ==
    ASSUME NEW ds, NEW ps, NEW d, NEW ds2, Allocated(ds, ps, d), ds[d].paid = 0, ds2[d].paid = ds[d].paid,
           ds2[d].status \in {"cancelled", "deleted"}
    PROVE  Allocated(ds2, ps, d)
  BY DEF Allocated

LEMMA PricedAllocated ==
    ASSUME NEW ds, NEW ps, NEW d, NEW ds2, Allocated(ds, ps, d), ds2[d].paid = ds[d].paid,
           ds2[d].paid <= ds2[d].amount,
           ds2[d].status = IF ds2[d].paid = ds2[d].amount THEN "settled" ELSE "open"
    PROVE  Allocated(ds2, ps, d)
  BY DEF Allocated

LEMMA NewDebtIs ==
    ASSUME NEW direction \in {"receivable", "payable"}, NEW party \in Parties \cup Buyers, NEW amount \in Nat \ {0},
           NEW source \in {"sale", "sale_cost", "manual", "expense", "batch_receipt"}, NEW sale \in Nat
    PROVE  LET row == NewDebt(direction, party, amount, source, sale)
           IN /\ row \in DebtRecord /\ row.direction = direction /\ row.party = party /\ row.amount = amount
              /\ row.paid = 0 /\ row.status = "open" /\ row.source = source /\ row.sale = sale
  BY DEF NewDebt, DebtRecord

LEMMA CreateDebtKeeps ==
    ASSUME IInv, NEW e \in Entries, NEW s \in OnSale(e), CreateDebt(e, s)
    PROVE  IInv'
<1> DEFINE row == NewDebt(e.direction, e.party, e.amount, e.source, s)
           ds2 == Append(debts, row)
<1>1. /\ sales \in Seq(SaleRecord) /\ debts \in Seq(DebtRecord) /\ Booked(debts, payments)
      /\ Linked(debts, payments, transfers)
      /\ DOMAIN debts = 1..Len(debts) /\ Len(debts) \in Nat
  BY LenProperties DEF IInv, Kept, Sound
<1>2. s \in Nat /\ (e.source = "batch_receipt" => s = 0)
  <2>1. DOMAIN sales \subseteq Nat
    BY <1>1, LenProperties
  <2> QED
    BY <2>1 DEF OnSale
<1>3. /\ e.direction \in {"receivable", "payable"} /\ e.party \in Parties \cup Buyers
      /\ e.amount \in Nat \ {0} /\ e.source \in {"manual", "expense", "batch_receipt"}
      /\ e.source = "batch_receipt" => e.direction = "payable" /\ e.party \in Suppliers
  BY LedgerAssumption
<1>4. /\ row \in DebtRecord /\ row.direction = e.direction /\ row.party = e.party /\ row.amount = e.amount
      /\ row.paid = 0 /\ row.status = "open" /\ row.source = e.source /\ row.sale = s
  BY <1>2, <1>3, NewDebtIs
<1>5. debts' = ds2 /\ sales' = sales /\ payments' = payments /\ transfers' = transfers /\ claims' = claims
  BY DEF CreateDebt
<1> HIDE DEF row
<1>6. /\ ds2 \in Seq(DebtRecord) /\ Len(ds2) = Len(debts) + 1
      /\ \A i \in 1..Len(debts) : ds2[i] = debts[i]
      /\ ds2[Len(debts) + 1] = row
  BY <1>1, <1>4, AppendProperties
<1>7. DOMAIN ds2 = 1..(Len(debts) + 1)
  BY <1>6, LenProperties
<1> HIDE DEF ds2
<1>8. ASSUME NEW d \in DOMAIN ds2, d \notin DOMAIN debts PROVE ds2[d] = row
  BY <1>1, <1>6, <1>7, <1>8
<1>9. Same(debts, ds2)
  BY <1>1, <1>6, <1>7 DEF Same
<1>10. Arrived(debts, ds2)
  BY <1>2, <1>3, <1>4, <1>8 DEF Arrived
<1>11. ASSUME NEW d \in DOMAIN ds2 PROVE Allocated(ds2, payments, d)
  <2>1. CASE d \in DOMAIN debts
    <3>1. ds2[d] = debts[d]
      BY <1>1, <1>6, <2>1
    <3> QED
      BY <1>1, <2>1, <3>1 DEF Booked, Allocated
  <2>2. CASE d \notin DOMAIN debts
    <3>1. ds2[d] = row
      BY <1>8, <2>2
    <3> QED
      BY <1>1, <1>3, <1>4, <2>2, <3>1, NewRowAllocated
  <2> QED
    BY <2>1, <2>2
<1>12. Kept(sales, ds2, payments, transfers, claims)
  BY <1>1, <1>6, <1>9, <1>10, <1>11, DebtsKeep DEF Booked
<1> QED
  BY <1>5, <1>12 DEF IInv

\* Closing debts nothing is paid on.
LEMMA ClosingKeeps ==
    ASSUME IInv, NEW S, \A d \in S : d \in DOMAIN debts /\ debts[d].paid = 0,
           NEW ss2 \in Seq(SaleRecord), DOMAIN ss2 = DOMAIN sales
    PROVE  Kept(ss2, [d \in DOMAIN debts |-> IF d \in S THEN [debts[d] EXCEPT !.status = "cancelled"] ELSE debts[d]],
                payments, transfers, claims)
<1> DEFINE ds2 == [d \in DOMAIN debts |-> IF d \in S THEN [debts[d] EXCEPT !.status = "cancelled"] ELSE debts[d]]
<1>1. /\ debts \in Seq(DebtRecord) /\ Booked(debts, payments)
      /\ DOMAIN debts = 1..Len(debts) /\ Len(debts) \in Nat
  BY LenProperties DEF IInv, Kept, Sound
<1>2. ASSUME NEW d \in DOMAIN debts
      PROVE  /\ ds2[d] \in DebtRecord /\ ds2[d].direction = debts[d].direction /\ ds2[d].source = debts[d].source
             /\ ds2[d].sale = debts[d].sale /\ ds2[d].party = debts[d].party /\ ds2[d].paid = debts[d].paid
             /\ IF d \in S THEN ds2[d].status = "cancelled" ELSE ds2[d] = debts[d]
  <2>1. debts[d] \in DebtRecord
    BY <1>1, RowIs
  <2>2. ds2[d] = IF d \in S THEN [debts[d] EXCEPT !.status = "cancelled"] ELSE debts[d]
    OBVIOUS
  <2> HIDE DEF ds2
  <2> QED
    BY ONLY <2>1, <2>2 DEF DebtRecord
<1>3. DOMAIN ds2 = DOMAIN debts /\ ds2 = [d \in 1..Len(debts) |-> ds2[d]]
  BY <1>1
<1> HIDE DEF ds2
<1>4. ds2 \in Seq(DebtRecord)
  BY <1>1, <1>2, <1>3, RowIsSeq
<1>5. Same(debts, ds2) /\ Arrived(debts, ds2)
  BY <1>2, <1>3 DEF Same, Arrived
<1>6. ASSUME NEW d \in DOMAIN ds2 PROVE Allocated(ds2, payments, d)
  <2>1. Allocated(debts, payments, d)
    BY <1>1, <1>3 DEF Booked
  <2>2. CASE d \in S
    BY <1>2, <1>3, <2>1, <2>2, ClosedAllocated
  <2>3. CASE d \notin S
    BY <1>2, <1>3, <2>1, <2>3 DEF Allocated
  <2> QED
    BY <2>2, <2>3
<1>7. Kept(ss2, ds2, payments, transfers, claims)
  BY <1>4, <1>5, <1>6, DebtsKeep DEF Booked
<1> QED
  BY <1>7 DEF ds2

LEMMA CancelDebtKeeps ==
    ASSUME IInv, NEW d \in DOMAIN debts, CancelDebt(d)
    PROVE  IInv'
<1> DEFINE ds2 == [e \in DOMAIN debts |-> IF e \in {d} THEN [debts[e] EXCEPT !.status = "cancelled"] ELSE debts[e]]
<1>1. /\ debts[d].paid = 0 /\ debts' = [debts EXCEPT ![d].status = "cancelled"]
      /\ sales' = sales /\ payments' = payments /\ transfers' = transfers /\ claims' = claims
  BY DEF CancelDebt, CanCancel
<1>2. sales \in Seq(SaleRecord)
  BY DEF IInv, Kept
<1>3. \A e \in {d} : e \in DOMAIN debts /\ debts[e].paid = 0
  BY <1>1
<1>4. Kept(sales, ds2, payments, transfers, claims)
  BY <1>2, <1>3, ClosingKeeps
<1>5. debts' = ds2
  BY <1>1
<1> HIDE DEF ds2
<1> QED
  BY <1>1, <1>4, <1>5 DEF IInv

LEMMA SaleChanged ==
    ASSUME sales \in Seq(SaleRecord), NEW ss2, DOMAIN ss2 = DOMAIN sales, ss2 = [s \in DOMAIN sales |-> ss2[s]],
           \A s \in DOMAIN sales : ss2[s] \in SaleRecord
    PROVE  ss2 \in Seq(SaleRecord)
<1>1. DOMAIN sales = 1..Len(sales) /\ Len(sales) \in Nat
  BY LenProperties
<1> QED
  BY <1>1, RowIsSeq

\* What a sale's lines cost one supplier is set anew.
LEMMA CostChanged ==
    ASSUME sales \in Seq(SaleRecord), NEW s, NEW costs, s \in DOMAIN sales => costs \in [Parties -> Nat]
    PROVE  /\ [sales EXCEPT ![s].costs = costs] \in Seq(SaleRecord)
           /\ DOMAIN [sales EXCEPT ![s].costs = costs] = DOMAIN sales
<1> DEFINE ss2 == [sales EXCEPT ![s].costs = costs]
<1>1. ASSUME NEW u \in DOMAIN sales PROVE sales[u] \in SaleRecord
  BY ElementOfSeq
<1>2. ASSUME NEW u \in DOMAIN sales PROVE ss2[u] \in SaleRecord
  <2>1. sales[u] \in SaleRecord
    BY <1>1
  <2>2. CASE u = s
    <3>1. costs \in [Parties -> Nat] /\ ss2[u] = [sales[u] EXCEPT !.costs = costs]
      BY <2>2
    <3> HIDE DEF ss2
    <3> QED
      BY ONLY <2>1, <3>1 DEF SaleRecord
  <2>3. CASE u # s
    BY <2>1, <2>3
  <2> QED
    BY <2>2, <2>3
<1>3. DOMAIN ss2 = DOMAIN sales /\ ss2 = [u \in DOMAIN sales |-> ss2[u]]
  OBVIOUS
<1> HIDE DEF ss2
<1>4. ss2 \in Seq(SaleRecord)
  BY <1>2, <1>3, SaleChanged
<1> QED
  BY <1>3, <1>4 DEF ss2

LEMMA NoCostKeeps ==
    ASSUME IInv, NEW d \in DOMAIN debts, NoCost(d)
    PROVE  IInv'
<1> DEFINE ds2 == [e \in DOMAIN debts |-> IF e \in {d} THEN [debts[e] EXCEPT !.status = "cancelled"] ELSE debts[e]]
           s == debts[d].sale
           costs == [sales[s].costs EXCEPT ![debts[d].party] = 0]
           ss2 == [sales EXCEPT ![s].costs = costs]
<1>1. /\ debts[d].paid = 0 /\ debts' = [debts EXCEPT ![d].status = "cancelled"]
      /\ sales' = ss2 /\ payments' = payments /\ transfers' = transfers /\ claims' = claims
  BY DEF NoCost, CanClearCost
<1>2. sales \in Seq(SaleRecord)
  BY DEF IInv, Kept
<1>3. \A e \in {d} : e \in DOMAIN debts /\ debts[e].paid = 0
  BY <1>1
<1>4. ss2 \in Seq(SaleRecord) /\ DOMAIN ss2 = DOMAIN sales
  <2>1. ASSUME s \in DOMAIN sales PROVE costs \in [Parties -> Nat]
    <3>1. sales[s] \in SaleRecord
      BY <1>2, <2>1, ElementOfSeq
    <3>2. sales[s].costs \in [Parties -> Nat]
      BY <3>1 DEF SaleRecord
    <3> QED
      BY <3>2
  <2> HIDE DEF costs
  <2> QED
    BY <1>2, <2>1, CostChanged
<1> HIDE DEF ss2
<1>5. Kept(ss2, ds2, payments, transfers, claims)
  BY <1>3, <1>4, ClosingKeeps
<1>6. debts' = ds2
  BY <1>1
<1> HIDE DEF ds2
<1> QED
  BY <1>1, <1>5, <1>6 DEF IInv

LEMMA CancelSaleKeeps ==
    ASSUME IInv, NEW s \in DOMAIN sales, CancelSale(s)
    PROVE  IInv'
<1> DEFINE ds2 == [d \in DOMAIN debts |-> IF d \in OfSale(s) THEN [debts[d] EXCEPT !.status = "cancelled"] ELSE debts[d]]
           ss2 == [sales EXCEPT ![s].status = "cancelled"]
<1>1. /\ \A d \in OfSale(s) : debts[d].paid = 0
      /\ debts' = ds2 /\ sales' = ss2 /\ payments' = payments /\ transfers' = transfers /\ claims' = claims
  BY DEF CancelSale, CanCancelSale
<1>2. sales \in Seq(SaleRecord)
  BY DEF IInv, Kept
<1>3. \A d \in OfSale(s) : d \in DOMAIN debts /\ debts[d].paid = 0
  BY <1>1 DEF OfSale
<1>4. ss2 \in Seq(SaleRecord) /\ DOMAIN ss2 = DOMAIN sales
  <2> DEFINE row == [sales[s] EXCEPT !.status = "cancelled"]
  <2>1. sales[s] \in SaleRecord
    BY <1>2, ElementOfSeq
  <2>2. row \in SaleRecord
    BY <2>1 DEF SaleRecord
  <2>3. ss2 = [sales EXCEPT ![s] = row]
    OBVIOUS
  <2> HIDE DEF row, ss2
  <2>4. [sales EXCEPT ![s] = row] \in Seq(SaleRecord) /\ DOMAIN [sales EXCEPT ![s] = row] = DOMAIN sales
    BY <1>2, <2>2, RowChanged
  <2> QED
    BY <2>3, <2>4
<1> HIDE DEF ss2
<1>5. Kept(ss2, ds2, payments, transfers, claims)
  BY <1>3, <1>4, ClosingKeeps
<1> HIDE DEF ds2
<1> QED
  BY <1>1, <1>5 DEF IInv

LEMMA SetToSeqIs ==
    ASSUME NEW S, IsFiniteSet(S)
    PROVE  /\ DOMAIN SetToSeq(S) = 1..Cardinality(S) /\ Cardinality(S) \in Nat
           /\ \A k \in 1..Cardinality(S) : SetToSeq(S)[k] \in S
<1>1. Cardinality(S) \in Nat /\ ExistsBijection(1..Cardinality(S), S)
  BY FS_CardinalityType
<1>2. \E f \in [1..Cardinality(S) -> S] : IsInjective(f)
  BY <1>1 DEF ExistsBijection, Bijection, Injection
<1>3. SetToSeq(S) \in [1..Cardinality(S) -> S]
  BY <1>2 DEF SetToSeq
<1> QED
  BY <1>1, <1>3

\* The debts a sale opens for what its lines cost.
CostRow(row, s) ==
    /\ row \in DebtRecord /\ row.direction = "payable" /\ row.paid = 0 /\ row.status = "open"
    /\ row.source = "sale_cost" /\ row.sale = s /\ row.amount \in Nat \ {0} /\ row.party \in Parties
LEMMA CostDebtsIs ==
    ASSUME NEW S \in SUBSET Parties, NEW costs \in [Parties -> Nat], \A p \in S : costs[p] > 0, NEW s \in Nat
    PROVE  /\ CostDebts(s, costs, SetToSeq(S)) \in Seq(DebtRecord)
           /\ \A k \in DOMAIN CostDebts(s, costs, SetToSeq(S)) : CostRow(CostDebts(s, costs, SetToSeq(S))[k], s)
<1> DEFINE q == SetToSeq(S)
           new == CostDebts(s, costs, q)
           n == Cardinality(S)
<1>1. IsFiniteSet(S)
  BY LedgerAssumption, FS_Subset
<1>2. DOMAIN q = 1..n /\ n \in Nat /\ \A k \in 1..n : q[k] \in S
  BY <1>1, SetToSeqIs
<1> HIDE DEF q, n
<1>3. new = [k \in 1..n |-> NewDebt("payable", q[k], costs[q[k]], "sale_cost", s)]
  BY <1>2 DEF CostDebts
<1> HIDE DEF new
<1>4. ASSUME NEW k \in 1..n PROVE new[k] \in DebtRecord /\ CostRow(new[k], s)
  <2>1. q[k] \in S /\ q[k] \in Parties /\ costs[q[k]] \in Nat \ {0}
    BY <1>2
  <2>2. PICK party \in Parties \cup Buyers, amount \in Nat \ {0} : party = q[k] /\ amount = costs[q[k]]
    BY <2>1
  <2>3. new[k] = NewDebt("payable", party, amount, "sale_cost", s)
    BY <1>3, <2>2
  <2>4. /\ new[k] \in DebtRecord /\ new[k].direction = "payable" /\ new[k].amount = amount
        /\ new[k].paid = 0 /\ new[k].status = "open" /\ new[k].source = "sale_cost" /\ new[k].sale = s
        /\ new[k].party = party
    BY ONLY <2>3, s \in Nat DEF NewDebt, DebtRecord
  <2> QED
    BY <2>1, <2>2, <2>4 DEF CostRow
<1>5. DOMAIN new = 1..n /\ new = [k \in 1..n |-> new[k]]
  BY <1>3
<1>6. new \in Seq(DebtRecord)
  BY <1>2, <1>4, <1>5, RowIsSeq
<1> QED
  BY <1>4, <1>5, <1>6 DEF new, q

LEMMA SetToSeqNamesEach ==
    ASSUME NEW S, IsFiniteSet(S)
    PROVE  /\ \A j, k \in DOMAIN SetToSeq(S) : SetToSeq(S)[j] = SetToSeq(S)[k] => j = k
           /\ \A x \in S : \E k \in DOMAIN SetToSeq(S) : SetToSeq(S)[k] = x
<1> DEFINE n == Cardinality(S)
           f == SetToSeq(S)
<1>1. n \in Nat /\ ExistsBijection(1..n, S)
  BY FS_CardinalityType
<1>2. \E g \in [1..n -> S] : IsInjective(g)
  BY <1>1 DEF ExistsBijection, Bijection, Injection
<1>3. f \in [1..n -> S] /\ IsInjective(f)
  BY <1>2 DEF SetToSeq
<1>4. IsFiniteSet(1..n) /\ Cardinality(1..n) = n
  BY <1>1, FS_Interval
<1> HIDE DEF f, n
<1>5. f \in Injection(1..n, S)
  BY <1>3 DEF Injection, IsInjective
<1>6. f \in Surjection(1..n, S)
  <2>1. Cardinality(1..n) = Cardinality(S)
    BY <1>4 DEF n
  <2> QED
    BY <1>5, <2>1, FS_Injection
<1> QED
  BY <1>3, <1>6 DEF Surjection, IsInjective, f

\* One row for each of the suppliers S, and no other row.
RowEach(new, s, S, costs) ==
    /\ \A k \in DOMAIN new : CostRow(new[k], s) /\ new[k].duplicate = 0
                                /\ new[k].party \in S /\ new[k].amount = costs[new[k].party]
    /\ \A j, k \in DOMAIN new : new[j].party = new[k].party => j = k
    /\ \A p \in S : \E k \in DOMAIN new : new[k].party = p
LEMMA CostDebtsEach ==
    ASSUME NEW S \in SUBSET Parties, NEW costs \in [Parties -> Nat], \A p \in S : costs[p] > 0, NEW s \in Nat
    PROVE  RowEach(CostDebts(s, costs, SetToSeq(S)), s, S, costs)
<1> DEFINE q == SetToSeq(S)
           new == CostDebts(s, costs, q)
<1>1. IsFiniteSet(S)
  BY LedgerAssumption, FS_Subset
<1>2. /\ \A j, k \in DOMAIN q : q[j] = q[k] => j = k
      /\ \A x \in S : \E k \in DOMAIN q : q[k] = x
      /\ \A k \in DOMAIN q : q[k] \in S
  BY <1>1, SetToSeqIs, SetToSeqNamesEach
<1>3. \A k \in DOMAIN new : CostRow(new[k], s)
  BY CostDebtsIs
<1> HIDE DEF q
<1>4. DOMAIN new = DOMAIN q /\ \A k \in DOMAIN q : new[k] = NewDebt("payable", q[k], costs[q[k]], "sale_cost", s)
  BY DEF CostDebts
<1> HIDE DEF new
<1>5. \A k \in DOMAIN q : new[k].party = q[k] /\ new[k].amount = costs[q[k]] /\ new[k].duplicate = 0
  BY <1>4 DEF NewDebt
<1>6. RowEach(new, s, S, costs)
  BY <1>2, <1>3, <1>4, <1>5 DEF RowEach
<1> QED
  BY <1>6 DEF new, q

\* Rows kept in their places and new ones after them.
LEMMA RowsAdded ==
    ASSUME NEW ds \in Seq(DebtRecord), Same(debts, ds), DOMAIN ds = DOMAIN debts, Booked(ds, payments),
           Linked(debts, payments, transfers), debts \in Seq(DebtRecord),
           NEW new \in Seq(DebtRecord), NEW s, \A k \in DOMAIN new : CostRow(new[k], s)
    PROVE  /\ ds \o new \in Seq(DebtRecord) /\ Same(debts, ds \o new) /\ Arrived(debts, ds \o new)
           /\ Booked(ds \o new, payments)
<1> DEFINE all == ds \o new
           n == Len(ds)
<1>1. /\ all \in Seq(DebtRecord) /\ DOMAIN all = DOMAIN ds \cup After(n, DOMAIN new)
      /\ \A d \in DOMAIN ds : all[d] = ds[d]
      /\ \A k \in DOMAIN new : all[n + k] = new[k]
  BY JoinIs
<1> HIDE DEF all, n
<1>2. ASSUME NEW d \in DOMAIN all, d \notin DOMAIN debts PROVE CostRow(all[d], s)
  <2>1. PICK k \in DOMAIN new : d = n + k
    BY <1>1, <1>2 DEF After
  <2> QED
    BY <1>1, <2>1
<1>3. Same(debts, all)
  BY <1>1 DEF Same
<1>4. Arrived(debts, all)
  <2>1. ASSUME NEW d \in DOMAIN all, d \notin DOMAIN debts
        PROVE  /\ all[d].paid = 0 /\ all[d].status = "open" /\ all[d].source = "sale_cost"
               /\ all[d].direction = "payable" /\ all[d].party \in Parties
    <3>1. CostRow(all[d], s)
      BY <1>2, <2>1
    <3> QED
      BY <3>1 DEF CostRow
  <2> QED
    BY <2>1 DEF Arrived
<1>5. ASSUME NEW d \in DOMAIN all PROVE Allocated(all, payments, d)
  <2>1. CASE d \in DOMAIN debts
    <3>1. all[d] = ds[d] /\ Allocated(ds, payments, d)
      BY <1>1, <2>1 DEF Booked
    <3> QED
      BY <3>1 DEF Allocated
  <2>2. CASE d \notin DOMAIN debts
    <3>1. CostRow(all[d], s)
      BY <1>2, <2>2
    <3> QED
      BY <2>2, <3>1, NewRowAllocated DEF CostRow
  <2> QED
    BY <2>1, <2>2
<1> QED
  BY <1>1, <1>3, <1>4, <1>5 DEF all, Booked

\* Which debt each supplier of a sale is left with names each debt once.
LEMMA KeptIs ==
    ASSUME debts \in Seq(DebtRecord), NEW s, NEW costs \in [Parties -> Nat], NEW existing \in Readings(s)
    PROVE  LET keys == DOMAIN existing
               costed == {p \in Parties : costs[p] > 0}
               removed == keys \ costed
               added == (costed \ keys) \ Covered(s)
               swapped == Cardinality(removed) = 1 /\ Cardinality(added) = 1
               kept == IF swapped
                       THEN [p \in (keys \ removed) \cup added |->
                               IF p \in keys THEN existing[p] ELSE existing[CHOOSE q \in removed : TRUE]]
                       ELSE existing
           IN /\ \A p \in DOMAIN kept : kept[p] \in Payables(s)
              /\ \A p, q \in DOMAIN kept : kept[p] = kept[q] => p = q
              /\ \A p \in DOMAIN kept : p \notin costed => p \in removed /\ kept[p] = existing[p]
<1> DEFINE keys == DOMAIN existing
           costed == {p \in Parties : costs[p] > 0}
           removed == keys \ costed
           added == (costed \ keys) \ Covered(s)
           swapped == Cardinality(removed) = 1 /\ Cardinality(added) = 1
           one == CHOOSE q \in removed : TRUE
           swap == [p \in (keys \ removed) \cup added |-> IF p \in keys THEN existing[p] ELSE existing[one]]
           kept == IF swapped THEN swap ELSE existing
<1>1. /\ \A p \in keys : existing[p] \in Payables(s) /\ debts[existing[p]].party = p
  BY DEF Readings
<1>2. IsFiniteSet(added)
  <2>1. added \subseteq Parties
    OBVIOUS
  <2> HIDE DEF added
  <2> QED
    BY <2>1, LedgerAssumption, FS_Subset
<1>3. \A p, q \in keys : existing[p] = existing[q] => p = q
  BY <1>1
<1> DEFINE right(g) == /\ \A p \in DOMAIN g : g[p] \in Payables(s)
                       /\ \A p, q \in DOMAIN g : g[p] = g[q] => p = q
                       /\ \A p \in DOMAIN g : p \notin costed => p \in removed /\ g[p] = existing[p]
<1>4. ASSUME swapped PROVE right(swap)
  <2>1. removed # {}
    <3>1. Cardinality(removed) = 1
      BY <1>4
    <3>2. Cardinality({}) = 0
      BY FS_EmptySet
    <3> HIDE DEF removed
    <3>3. ASSUME removed = {} PROVE Cardinality(removed) = 0
      BY ONLY <3>2, <3>3, Zenon
    <3>4. 0 # 1
      OBVIOUS
    <3> QED
      BY ONLY <3>1, <3>3, <3>4, Zenon
  <2>2. one \in removed
    BY <2>1
  <2>3. PICK a : added = {a}
    <3>1. Cardinality(added) = 1
      BY <1>4
    <3> HIDE DEF added
    <3> QED
      BY <1>2, <3>1, FS_Singleton
  <2>4. /\ DOMAIN swap = (keys \ removed) \cup {a} /\ a \notin keys /\ a \in costed
        /\ \A p \in keys \ removed : swap[p] = existing[p]
        /\ swap[a] = existing[one]
    <3>1. a \notin keys /\ a \in costed
      BY <2>3
    <3> HIDE DEF added, one
    <3> QED
      BY <2>3, <3>1
  <2>5. one \in keys /\ \A p \in keys \ removed : p # one /\ p \in costed
    BY <2>2
  <2> HIDE DEF swap, one, removed, keys, costed
  <2> QED
    BY <1>1, <1>3, <2>2, <2>4, <2>5
<1>5. right(existing)
  BY <1>1, <1>3
<1>6. right(kept)
  <2> HIDE DEF right, swap
  <2> QED
    BY <1>4, <1>5
<1> QED
  BY <1>6

LEMMA EditSaleKeeps ==
    ASSUME IInv, NEW s \in DOMAIN sales, NEW b \in Buyers, NEW total \in Totals, NEW costs \in LineCosts,
           NEW existing \in Readings(s), EditSale(s, b, total, costs, existing)
    PROVE  IInv'
<1> DEFINE keys == DOMAIN existing
           costed == {p \in Parties : costs[p] > 0}
           removed == keys \ costed
           added == (costed \ keys) \ Covered(s)
           swapped == Cardinality(removed) = 1 /\ Cardinality(added) = 1
           kept == IF swapped
                   THEN [p \in (keys \ removed) \cup added |->
                           IF p \in keys THEN existing[p] ELSE existing[CHOOSE q \in removed : TRUE]]
                   ELSE existing
           dropped == {kept[p] : p \in DOMAIN kept \ costed}
           following == {kept[p] : p \in DOMAIN kept \cap costed}
           heir(d) == CHOOSE p \in DOMAIN kept : kept[p] = d
           status(paid, amount) == IF paid = amount THEN "settled" ELSE "open"
           edited == [d \in DOMAIN debts |->
            IF d = Receivable(s)
            THEN [debts[d] EXCEPT !.party = b, !.amount = total, !.status = status(debts[d].paid, total)]
            ELSE IF d \in following
            THEN [debts[d] EXCEPT !.party = heir(d), !.amount = costs[heir(d)],
                     !.status = status(debts[d].paid, costs[heir(d)])]
            ELSE IF d \in dropped
            THEN [debts[d] EXCEPT !.status = IF HasHistory(d) THEN "cancelled" ELSE "deleted"]
            ELSE debts[d]]
           S == (costed \ DOMAIN kept) \ Covered(s)
           more == CostDebts(s, costs, SetToSeq(S))
<1>1. /\ debts' = edited \o more /\ sales' = [sales EXCEPT ![s].costs = costs]
      /\ payments' = payments /\ transfers' = transfers /\ claims' = claims
      /\ total >= debts[Receivable(s)].paid
      /\ \A p \in DOMAIN kept \cap costed : costs[p] >= debts[kept[p]].paid
      /\ \A p \in removed : debts[existing[p]].paid = 0
  BY DEF EditSale, NothingPaid
<1>2. costs \in [Parties -> Nat] /\ total \in Nat \ {0}
  BY LedgerAssumption
<1>3. /\ sales \in Seq(SaleRecord) /\ debts \in Seq(DebtRecord) /\ Booked(debts, payments)
      /\ Linked(debts, payments, transfers) /\ Received(debts) /\ Costed(debts) /\ Billed(sales, debts)
      /\ DOMAIN debts = 1..Len(debts) /\ Len(debts) \in Nat
  BY LenProperties DEF IInv, Kept, Sound
<1>4. /\ \A p \in DOMAIN kept : kept[p] \in Payables(s)
      /\ \A p, q \in DOMAIN kept : kept[p] = kept[q] => p = q
      /\ \A p \in DOMAIN kept : p \notin costed => p \in removed /\ kept[p] = existing[p]
  BY <1>2, <1>3, KeptIs
<1>5. S \in SUBSET Parties /\ \A p \in S : costs[p] > 0
  OBVIOUS
<1>6. ASSUME NEW p \in costed PROVE p \in Parties /\ costs[p] \in Nat \ {0}
  BY <1>2
<1> HIDE DEF kept, S, removed
<1>7. Receivable(s) \in OfSale(s) /\ debts[Receivable(s)].direction = "receivable"
  <2>1. \E d \in OfSale(s) : debts[d].direction = "receivable"
    BY <1>3 DEF Billed, OfSale
  <2> QED
    BY <2>1 DEF Receivable
<1> DEFINE r == Receivable(s)
<1> HIDE DEF costed
<1>8. ASSUME NEW d \in following
      PROVE  /\ heir(d) \in Parties /\ costs[heir(d)] \in Nat \ {0} /\ costs[heir(d)] >= debts[d].paid
             /\ d \in Payables(s)
  <2>1. PICK p \in DOMAIN kept \cap costed : d = kept[p]
    OBVIOUS
  <2>2. heir(d) = p
    <3>1. kept[p] = d /\ p \in DOMAIN kept /\ \A q \in DOMAIN kept : kept[q] = d => q = p
      BY <1>4, <2>1
    <3> QED
      BY <3>1
  <2> HIDE DEF heir
  <2> QED
    BY <1>1, <1>4, <1>6, <2>1, <2>2
<1>9. ASSUME NEW d \in dropped PROVE debts[d].paid = 0 /\ d \in Payables(s)
  <2>1. PICK p \in DOMAIN kept \ costed : d = kept[p]
    OBVIOUS
  <2> QED
    BY <1>1, <1>4, <2>1
<1>10. \A d \in Payables(s) : d \in OfSale(s) /\ debts[d].direction = "payable"
  BY DEF Payables
<1>11. ASSUME NEW d \in OfSale(s) PROVE d \in DOMAIN debts /\ debts[d].source # "batch_receipt"
  <2>1. s # 0
    BY <1>3, LenProperties
  <2> QED
    BY <1>3, <2>1 DEF Received, OfSale
<1>12. edited = [d \in DOMAIN debts |-> edited[d]] /\ DOMAIN edited = DOMAIN debts
  OBVIOUS
<1>13. ASSUME NEW d \in DOMAIN debts
       PROVE  /\ edited[d] \in DebtRecord /\ edited[d].direction = debts[d].direction
              /\ edited[d].source = debts[d].source /\ edited[d].sale = debts[d].sale
              /\ debts[d].source = "batch_receipt" => edited[d].party = debts[d].party
              /\ debts[d].source = "sale_cost" => edited[d].party \in {debts[d].party} \cup Parties
              /\ debts[d].direction = "receivable" /\ debts[d].status # "deleted" => edited[d].status # "deleted"
              /\ Allocated(edited, payments, d)
  <2>1. debts[d] \in DebtRecord /\ debts[d].paid \in Nat /\ Allocated(debts, payments, d)
    BY <1>3, RowIs DEF Booked
  <2> DEFINE priced(party, amount) ==
                [debts[d] EXCEPT !.party = party, !.amount = amount, !.status = status(debts[d].paid, amount)]
  <2>2. ASSUME NEW party \in Parties \cup Buyers, NEW amount \in Nat \ {0}, edited[d] = priced(party, amount)
        PROVE  /\ edited[d] \in DebtRecord /\ edited[d].direction = debts[d].direction
               /\ edited[d].source = debts[d].source /\ edited[d].sale = debts[d].sale
               /\ edited[d].paid = debts[d].paid /\ edited[d].amount = amount
               /\ edited[d].status = status(debts[d].paid, amount) /\ edited[d].party = party
    <3> HIDE DEF edited
    <3> QED
      BY ONLY <2>1, <2>2 DEF DebtRecord
  <2>3. CASE d = r
    <3>1. edited[d] = priced(b, total) /\ b \in Parties \cup Buyers
      BY <2>3
    <3> HIDE DEF edited
    <3>2. /\ edited[d] \in DebtRecord /\ edited[d].direction = debts[d].direction
          /\ edited[d].source = debts[d].source /\ edited[d].sale = debts[d].sale
          /\ edited[d].paid = debts[d].paid /\ edited[d].amount = total
          /\ edited[d].status = status(debts[d].paid, total)
      BY <1>2, <2>2, <3>1
    <3>3. Allocated(edited, payments, d)
      BY <1>1, <1>2, <2>1, <2>3, <3>2, PricedAllocated
    <3>4. debts[d].source # "batch_receipt" /\ edited[d].status # "deleted" /\ debts[d].source # "sale_cost"
      BY <1>3, <1>7, <1>11, <2>3, <3>2 DEF Costed
    <3> QED
      BY <3>2, <3>3, <3>4
  <2>4. CASE d # r /\ d \in following
    <3>1. edited[d] = priced(heir(d), costs[heir(d)])
      BY <2>4
    <3>2. heir(d) \in Parties /\ costs[heir(d)] \in Nat \ {0} /\ costs[heir(d)] >= debts[d].paid /\ d \in Payables(s)
      BY <1>8, <2>4
    <3>3. PICK party \in Parties \cup Buyers, amount \in Nat \ {0} : party = heir(d) /\ amount = costs[heir(d)]
      BY <3>2
    <3> HIDE DEF edited, heir
    <3>4. /\ edited[d] \in DebtRecord /\ edited[d].direction = debts[d].direction
          /\ edited[d].source = debts[d].source /\ edited[d].sale = debts[d].sale
          /\ edited[d].paid = debts[d].paid /\ edited[d].amount = amount
          /\ edited[d].status = status(debts[d].paid, amount) /\ edited[d].party = party
      BY <2>2, <3>1, <3>3
    <3>5. Allocated(edited, payments, d)
      BY <2>1, <3>2, <3>3, <3>4, PricedAllocated
    <3>6. debts[d].source # "batch_receipt" /\ edited[d].status # "deleted"
      BY <1>10, <1>11, <3>2, <3>4
    <3> QED
      BY <3>2, <3>3, <3>4, <3>5, <3>6
  <2>5. CASE d # r /\ d \notin following /\ d \in dropped
    <3>1. edited[d] = [debts[d] EXCEPT !.status = IF HasHistory(d) THEN "cancelled" ELSE "deleted"]
      BY <2>5
    <3>2. debts[d].paid = 0 /\ debts[d].direction = "payable"
      BY <1>9, <1>10, <2>5
    <3> HIDE DEF edited
    <3>3. PICK st \in {"cancelled", "deleted"} : st = IF HasHistory(d) THEN "cancelled" ELSE "deleted"
      OBVIOUS
    <3>4. edited[d] = [debts[d] EXCEPT !.status = st]
      BY <3>1, <3>3
    <3>5. /\ edited[d] \in DebtRecord /\ edited[d].direction = debts[d].direction
          /\ edited[d].source = debts[d].source /\ edited[d].sale = debts[d].sale
          /\ edited[d].paid = debts[d].paid /\ edited[d].party = debts[d].party
          /\ edited[d].status = st
      BY ONLY <2>1, <3>4, st \in {"cancelled", "deleted"} DEF DebtRecord
    <3>6. Allocated(edited, payments, d)
      BY <2>1, <3>2, <3>3, <3>5, ClosedAllocated
    <3> QED
      BY <3>2, <3>5, <3>6
  <2>6. CASE d # r /\ d \notin following /\ d \notin dropped
    <3>1. edited[d] = debts[d]
      BY <2>6
    <3> HIDE DEF edited
    <3> QED
      BY <2>1, <3>1 DEF Allocated
  <2> QED
    BY <2>3, <2>4, <2>5, <2>6
<1> HIDE DEF edited, more
<1>14. edited \in Seq(DebtRecord)
  BY <1>3, <1>12, <1>13, RowIsSeq
<1>15. Same(debts, edited) /\ Booked(edited, payments)
  BY <1>12, <1>13 DEF Same, Booked
<1>16. more \in Seq(DebtRecord) /\ \A k \in DOMAIN more : CostRow(more[k], s)
  <2>1. s \in Nat
    BY <1>3, LenProperties
  <2> QED
    BY <1>2, <1>5, <2>1, CostDebtsIs DEF more
<1> DEFINE ds2 == edited \o more
           ss2 == [sales EXCEPT ![s].costs = costs]
<1>17. /\ ds2 \in Seq(DebtRecord) /\ Same(debts, ds2) /\ Arrived(debts, ds2) /\ Booked(ds2, payments)
  BY <1>3, <1>12, <1>14, <1>15, <1>16, RowsAdded
<1>18. ss2 \in Seq(SaleRecord) /\ DOMAIN ss2 = DOMAIN sales
  BY <1>2, <1>3, CostChanged
<1> HIDE DEF ds2, ss2
<1>19. Kept(ss2, ds2, payments, transfers, claims)
  BY <1>17, <1>18, DebtsKeep
<1> QED
  BY <1>1, <1>19 DEF IInv, ds2, ss2

\* What is paid when a sale is recorded: debts of the rows R in full, and a part
\* of another row.
DueOn(list, n, ds, rows) == Due(list, n, ds) /\ \A k \in 1..n : list[k][1] \in rows
LEMMA DueNow ==
    ASSUME NEW ds \in Seq(DebtRecord), NEW now \in SUBSET DOMAIN ds, NEW r \in DOMAIN ds, r \notin now,
           \A d \in now \cup {r} : ds[d].paid = 0, NEW received \in Nat, received <= ds[r].amount
    PROVE  \E n \in Nat :
              DueOn([k \in 1..Cardinality(now) |-> <<InOrder(now)[k], ds[InOrder(now)[k]].amount>>]
                      \o IF received > 0 THEN <<<<r, received>>>> ELSE <<>>, n, ds, now \cup {r})
<1> DEFINE c == Cardinality(now)
           o == InOrder(now)
           A == [k \in 1..c |-> <<o[k], ds[o[k]].amount>>]
           B == IF received > 0 THEN <<<<r, received>>>> ELSE <<>>
           R == Nat \X Nat
           list == A \o B
<1>1. DOMAIN ds \in SUBSET Int /\ DOMAIN ds \in SUBSET Nat /\ IsFiniteSet(DOMAIN ds)
  <2>1. DOMAIN ds = 1..Len(ds) /\ Len(ds) \in Nat
    BY LenProperties
  <2>2. IsFiniteSet(1..Len(ds))
    BY <2>1, FS_Interval
  <2> QED
    BY <2>1, <2>2
<1>2. IsFiniteSet(now) /\ now \in SUBSET Int
  BY <1>1, FS_Subset
<1>3. DOMAIN o = 1..c /\ c \in Nat /\ Matches(o, 1..c, now)
  BY <1>2, InOrderIs
<1> HIDE DEF o, c
<1>4. ASSUME NEW k \in 1..c
      PROVE  /\ o[k] \in now /\ o[k] \in DOMAIN ds /\ o[k] \in Nat /\ ds[o[k]].amount \in Nat \ {0} /\ ds[o[k]].paid = 0
             /\ A[k] = <<o[k], ds[o[k]].amount>> /\ A[k] \in R /\ A[k][1] = o[k] /\ A[k][2] = ds[o[k]].amount
  <2>1. o[k] \in now
    BY <1>3 DEF Matches
  <2>2. o[k] \in DOMAIN ds /\ o[k] \in Nat /\ ds[o[k]].amount \in Nat \ {0} /\ ds[o[k]].paid = 0
    BY <1>1, <2>1, RowIs
  <2> QED
    BY <2>1, <2>2
<1>5. \A j, k \in 1..c : o[j] = o[k] => j = k
  BY <1>3 DEF Matches
<1>6. A \in Seq(R) /\ DOMAIN A = 1..c /\ Len(A) = c
  <2>1. DOMAIN A = 1..c /\ A = [k \in 1..c |-> A[k]]
    OBVIOUS
  <2>2. \A k \in 1..c : A[k] \in R
    BY <1>4
  <2> HIDE DEF A, R
  <2>3. A \in Seq(R)
    BY <1>3, <2>1, <2>2, RowIsSeq
  <2> QED
    BY <1>3, <2>1, <2>3, LenProperties
<1>7. r \in Nat /\ ds[r].paid = 0 /\ ds[r].amount \in Nat
  BY <1>1, RowIs
<1>8. CASE received = 0
  <2>1. B = <<>>
    BY <1>8
  <2>2. list = A
    <3> HIDE DEF A, R
    <3> QED
      BY <1>6, <2>1
  <2> HIDE DEF A, B
  <2>3. DueOn(A, c, ds, now \cup {r})
    <3>1. Due(A, c, ds)
      BY <1>3, <1>4, <1>5, <1>6 DEF Due
    <3> QED
      BY <1>4, <3>1 DEF DueOn
  <2> HIDE DEF list
  <2>4. DueOn(list, c, ds, now \cup {r})
    BY <2>2, <2>3
  <2> QED
    BY <1>3, <2>4 DEF list, A, B, o, c
<1>9. CASE received # 0
  <2>1. B = <<<<r, received>>>>
    BY <1>9
  <2>2. B \in Seq(R) /\ Len(B) = 1 /\ DOMAIN B = 1..1 /\ B[1] = <<r, received>> /\ B[1][1] = r /\ B[1][2] = received
    <3>1. <<r, received>> \in R
      BY <1>7
    <3> HIDE DEF R, B
    <3> QED
      BY <2>1, <3>1
  <2>3. /\ Len(list) = c + 1 /\ list \in Seq(R)
        /\ \A k \in 1..c : list[k] = A[k]
        /\ list[c + 1] = B[1]
    <3>1. /\ list \in Seq(R) /\ Len(list) = Len(A) + Len(B)
          /\ \A k \in DOMAIN A : list[k] = A[k]
          /\ \A k \in DOMAIN B : list[Len(A) + k] = B[k]
      <4>1. A \in Seq(R) /\ B \in Seq(R)
        BY <1>6, <2>2
      <4> HIDE DEF A, B, R
      <4>2. list \in Seq(R)
        BY ONLY <4>1, JoinIs
      <4>3. Len(list) = Len(A) + Len(B)
        BY ONLY <4>1, JoinIs
      <4>4. \A k \in DOMAIN A : list[k] = A[k]
        BY ONLY <4>1, JoinIs
      <4>5. \A k \in DOMAIN B : list[Len(A) + k] = B[k]
        BY ONLY <4>1, JoinIs
      <4> QED
        BY <4>2, <4>3, <4>4, <4>5
    <3>2. 1 \in DOMAIN B
      BY <2>2
    <3> HIDE DEF A, B, R, list
    <3> QED
      BY <1>6, <2>2, <3>1, <3>2
  <2> HIDE DEF A, B, list, R
  <2>4. DOMAIN list = 1..(c + 1)
    BY <2>3, LenProperties
  <2>5. ASSUME NEW k \in 1..(c + 1)
        PROVE  /\ list[k][1] \in DOMAIN ds /\ list[k][2] \in Nat \ {0}
               /\ list[k][2] <= ds[list[k][1]].amount - ds[list[k][1]].paid
               /\ list[k][1] \in now \cup {r}
    <3>1. CASE k \in 1..c
      <4>1. list[k] = A[k]
        BY <2>3, <3>1
      <4> QED
        BY <1>4, <3>1, <4>1
    <3>2. CASE k \notin 1..c
      <4>1. k = c + 1
        BY <1>3, <3>2
      <4>2. list[k][1] = r /\ list[k][2] = received
        BY <2>2, <2>3, <4>1
      <4> QED
        BY <1>7, <1>9, <4>2
    <3> QED
      BY <3>1, <3>2
  <2>6. ASSUME NEW j \in 1..(c + 1), NEW k \in 1..(c + 1), list[j][1] = list[k][1] PROVE j = k
    <3>1. ASSUME NEW i \in 1..c PROVE list[i][1] = o[i] /\ o[i] # r
      BY <1>4, <2>3
    <3>2. list[c + 1][1] = r
      BY <2>2, <2>3
    <3>3. ASSUME NEW i \in 1..(c + 1) PROVE i \in 1..c \/ i = c + 1
      BY <1>3
    <3>4. CASE j \in 1..c /\ k \in 1..c
      BY <1>5, <2>6, <3>1, <3>4
    <3>5. CASE j \in 1..c /\ k = c + 1
      BY <2>6, <3>1, <3>2, <3>5
    <3>6. CASE j = c + 1 /\ k \in 1..c
      BY <2>6, <3>1, <3>2, <3>6
    <3> QED
      BY <3>3, <3>4, <3>5, <3>6
  <2>7. DueOn(list, c + 1, ds, now \cup {r})
    <3>1. Due(list, c + 1, ds)
      BY <2>3, <2>4, <2>5, <2>6 DEF Due
    <3> QED
      BY <2>5, <3>1 DEF DueOn
  <2>8. c + 1 \in Nat
    BY <1>3
  <2> QED
    BY <2>7, <2>8 DEF list, A, B, o, c
<1> QED
  BY <1>8, <1>9

\* A row nothing was paid on, as a sale opens it.
OpenRow(row) ==
    /\ row \in DebtRecord /\ row.paid = 0 /\ row.status = "open" /\ row.amount \in Nat \ {0}
    /\ row.source # "batch_receipt" /\ (row.source = "sale_cost" => row.direction = "payable" /\ row.party \in Parties)
    /\ row.direction = "receivable" => row.party \in Buyers
LEMMA OpenRowsAdded ==
    ASSUME IInv, NEW ds \in Seq(DebtRecord), DOMAIN debts \subseteq DOMAIN ds,
           \A d \in DOMAIN debts : ds[d] = debts[d],
           \A d \in DOMAIN ds : d \notin DOMAIN debts => OpenRow(ds[d]),
           NEW ss \in Seq(SaleRecord),
           \A s \in DOMAIN ss : s \notin DOMAIN sales =>
              \E d \in DOMAIN ds : ds[d].sale = s /\ ds[d].status # "deleted" /\ ds[d].direction = "receivable"
    PROVE  Kept(ss, ds, payments, transfers, claims)
<1>1. /\ Sound(debts, payments, transfers) /\ Booked(debts, payments) /\ Received(debts) /\ Costed(debts)
      /\ Billed(sales, debts)
      /\ Linked(debts, payments, transfers)
  BY DEF IInv, Kept, Sound
<1>2. Same(debts, ds) /\ Arrived(debts, ds)
  BY DEF Same, Arrived, OpenRow
<1>3. Received(ds) /\ Costed(ds) /\ Billed(sales, ds)
  BY <1>1, <1>2, SameKeeps
<1>4. Billed(ss, ds)
  BY <1>3 DEF Billed
<1>5. ASSUME NEW d \in DOMAIN ds PROVE Allocated(ds, payments, d)
  <2>1. CASE d \in DOMAIN debts
    <3>1. ds[d] = debts[d] /\ Allocated(debts, payments, d)
      BY <1>1, <2>1 DEF Booked
    <3> QED
      BY <3>1 DEF Allocated
  <2>2. CASE d \notin DOMAIN debts
    <3>1. OpenRow(ds[d])
      BY <2>2
    <3> QED
      BY <1>1, <2>2, <3>1, NewRowAllocated DEF OpenRow
  <2> QED
    BY <2>1, <2>2
<1>6. Linked(ds, payments, transfers)
  BY <1>1 DEF Linked
<1>7. Sound(ds, payments, transfers)
  BY <1>1, <1>6 DEF Sound
<1> QED
  BY <1>3, <1>4, <1>5, <1>7 DEF IInv, Kept, Booked

\* What a new sale bills, one row for each supplier with a cost, and the rows of
\* `ds` a sale opens before `list` is paid on them.
BilledTo(row, s) == row.direction = "receivable" /\ row.source = "sale" /\ row.sale = s /\ row.duplicate = 0
NewRows(ds, s, S, costs) ==
    LET rows == {d \in DOMAIN ds : d \notin DOMAIN debts /\ ~BilledTo(ds[d], s)}
    IN /\ \A d \in rows : CostRow(ds[d], s) /\ ds[d].duplicate = 0
                              /\ ds[d].party \in S /\ ds[d].amount = costs[ds[d].party]
       /\ \A d, e \in rows : ds[d].party = ds[e].party => d = e
       /\ \A p \in S : \E d \in rows : ds[d].party = p
Opens(ds, list, n, ref) ==
    LET money == NewMoney(ds, list, ref)
    IN /\ n \in Nat /\ ref \in Refs \cup {NoRef} /\ Due(list, n, ds) /\ ds \in Seq(DebtRecord)
       /\ \A k \in DOMAIN list : ds[list[k][1]].status = "open"
       /\ DOMAIN debts \subseteq DOMAIN ds /\ \A d \in DOMAIN debts : ds[d] = debts[d]
       /\ \A d \in DOMAIN ds : d \notin DOMAIN debts => OpenRow(ds[d])
       /\ Kept(sales', ds, payments, transfers, claims)
       /\ debts' = Counted(ds, money.payments) /\ payments' = payments \o money.payments
       /\ transfers' = transfers \o money.transfers
       /\ IF ref = NoRef THEN claims' = claims
          ELSE /\ claims' = [claims EXCEPT ![ref] = MoneyHolder(money)]
               /\ claims[ref] = NoHolder /\ DOMAIN list = {1}
LEMMA CreateSaleOpens ==
    ASSUME IInv, NEW b \in Buyers, NEW total \in Totals, NEW costs \in LineCosts, NEW received \in 0..total, NEW paid,
           NEW ref \in AnyRef, CreateSale(b, total, costs, received, paid, ref)
    PROVE  \E ds, list, n :
              /\ Opens(ds, list, n, ref)
              /\ NewRows(ds, Len(sales) + 1, {p \in Parties : costs[p] > 0}, costs)
<1> DEFINE s == Len(sales) + 1
           S == {p \in Parties : costs[p] > 0}
           more == CostDebts(s, costs, SetToSeq(S))
           bill == NewDebt("receivable", b, total, "sale", s)
           mid == debts \o <<bill>>
           ds == mid \o more
           now == {d \in (Len(debts) + 2)..Len(ds) : ds[d].party \in paid}
           list == [k \in 1..Cardinality(now) |-> <<InOrder(now)[k], ds[InOrder(now)[k]].amount>>]
                        \o IF received > 0 THEN <<<<Len(debts) + 1, received>>>> ELSE <<>>
           money == NewMoney(ds, list, ref)
           sale == [status |-> "active", costs |-> costs]
           ss == Append(sales, sale)
<1>1. /\ sales' = ss /\ debts' = Counted(ds, money.payments) /\ payments' = payments \o money.payments
      /\ transfers' = transfers \o money.transfers
  BY DEF CreateSale
<1>25. claims' = Claimed(ref, MoneyHolder(money)) /\ Unclaimed(ref) /\ (ref # NoRef => Len(list) = 1)
  BY DEF CreateSale
<1> HIDE DEF money
<1>2. costs \in [Parties -> Nat] /\ total \in Nat \ {0} /\ received \in Nat /\ received <= total
  <2>1. costs \in [Parties -> Nat] /\ total \in Nat \ {0}
    BY LedgerAssumption
  <2> QED
    BY <2>1
<1>3. /\ sales \in Seq(SaleRecord) /\ debts \in Seq(DebtRecord) /\ transfers \in Seq(TransferRecord)
      /\ DOMAIN debts = 1..Len(debts) /\ Len(debts) \in Nat /\ ClaimsTyped(claims)
      /\ DOMAIN sales = 1..Len(sales) /\ Len(sales) \in Nat
  BY LenProperties DEF IInv, Kept, Sound
<1>4. more \in Seq(DebtRecord) /\ (\A k \in DOMAIN more : CostRow(more[k], s)) /\ RowEach(more, s, S, costs)
  <2>1. s \in Nat /\ S \in SUBSET Parties /\ \A p \in S : costs[p] > 0
    BY <1>3
  <2> HIDE DEF s, S
  <2>2. more \in Seq(DebtRecord) /\ \A k \in DOMAIN more : CostRow(more[k], s)
    BY <1>2, <2>1, CostDebtsIs
  <2>3. RowEach(more, s, S, costs)
    BY <1>2, <2>1, CostDebtsEach
  <2> QED
    BY <2>2, <2>3
<1>5. OpenRow(bill) /\ bill \in DebtRecord /\ bill.direction = "receivable" /\ bill.sale = s /\ bill.amount = total
      /\ BilledTo(bill, s)
  BY <1>2, <1>3 DEF OpenRow, NewDebt, DebtRecord, BilledTo
<1> HIDE DEF more, bill
<1>6. /\ mid \in Seq(DebtRecord) /\ Len(mid) = Len(debts) + 1
      /\ \A d \in DOMAIN debts : mid[d] = debts[d]
      /\ mid[Len(debts) + 1] = bill
  <2> DEFINE B == <<bill>>
  <2>1. B \in Seq(DebtRecord) /\ Len(B) = 1 /\ 1 \in DOMAIN B /\ B[1] = bill
    BY <1>5
  <2> HIDE DEF B
  <2> DEFINE j == debts \o B
  <2>2. j \in Seq(DebtRecord)
    BY ONLY <1>3, <2>1, JoinIs
  <2>3. Len(j) = Len(debts) + Len(B)
    BY ONLY <1>3, <2>1, JoinIs
  <2>4. \A d \in DOMAIN debts : j[d] = debts[d]
    BY ONLY <1>3, <2>1, JoinIs
  <2>5. \A k \in DOMAIN B : j[Len(debts) + k] = B[k]
    <3>1. debts \in Seq(DebtRecord) /\ B \in Seq(DebtRecord)
      BY <1>3, <2>1
    <3> QED
      BY ONLY <3>1, JoinIs
  <2>6. mid = j
    BY DEF B
  <2> HIDE DEF j
  <2> QED
    BY <2>1, <2>2, <2>3, <2>4, <2>5, <2>6
<1>7. DOMAIN mid = 1..(Len(debts) + 1)
  BY <1>6, LenProperties
<1> HIDE DEF mid
<1>8. /\ ds \in Seq(DebtRecord) /\ Len(ds) = Len(mid) + Len(more) /\ Len(more) \in Nat /\ DOMAIN more = 1..Len(more)
      /\ \A d \in DOMAIN mid : ds[d] = mid[d]
      /\ \A k \in DOMAIN more : ds[Len(mid) + k] = more[k]
  <2>1. ds \in Seq(DebtRecord)
    BY ONLY <1>4, <1>6, JoinIs
  <2>2. Len(ds) = Len(mid) + Len(more)
    BY ONLY <1>4, <1>6, JoinIs
  <2>3. \A d \in DOMAIN mid : ds[d] = mid[d]
    BY ONLY <1>4, <1>6, JoinIs
  <2>4. \A k \in DOMAIN more : ds[Len(mid) + k] = more[k]
    BY ONLY <1>4, <1>6, JoinIs
  <2>5. Len(more) \in Nat /\ DOMAIN more = 1..Len(more)
    BY <1>4, LenProperties
  <2> QED
    BY <2>1, <2>2, <2>3, <2>4, <2>5
<1>9. DOMAIN ds = 1..Len(ds)
  BY <1>8, LenProperties
<1> HIDE DEF ds
<1> DEFINE r == Len(debts) + 1
<1>10. r \in DOMAIN ds /\ r \notin DOMAIN debts /\ ds[r] = bill /\ DOMAIN debts \subseteq DOMAIN ds
       /\ \A d \in DOMAIN debts : ds[d] = debts[d]
  <2>1. r \in DOMAIN mid /\ r \notin DOMAIN debts /\ Len(ds) \in Nat /\ r <= Len(ds)
    BY <1>3, <1>6, <1>7, <1>8
  <2>2. DOMAIN debts \subseteq DOMAIN mid
    BY <1>3, <1>7
  <2> QED
    BY <1>3, <1>6, <1>8, <1>9, <2>1, <2>2
<1>11. ASSUME NEW d \in DOMAIN ds, d \notin DOMAIN debts PROVE OpenRow(ds[d])
  <2>1. CASE d = r
    BY <1>5, <1>10, <2>1
  <2>2. CASE d # r
    <3>1. d - r \in DOMAIN more /\ Len(mid) + (d - r) = d
      BY <1>3, <1>6, <1>8, <1>9, <1>11, <2>2
    <3>2. CostRow(ds[d], s)
      BY <1>4, <1>8, <3>1
    <3> QED
      BY <3>2 DEF CostRow, OpenRow
  <2> QED
    BY <2>1, <2>2
<1>12. /\ ss \in Seq(SaleRecord) /\ \A u \in DOMAIN ss : u \notin DOMAIN sales => u = s
  <2>1. sale \in SaleRecord
    BY <1>2 DEF SaleRecord
  <2> HIDE DEF sale
  <2>2. ss \in Seq(SaleRecord) /\ Len(ss) = Len(sales) + 1
    BY <1>3, <2>1, AppendProperties
  <2>3. DOMAIN ss = 1..(Len(sales) + 1)
    BY <2>2, LenProperties
  <2> HIDE DEF ss
  <2> QED
    BY <1>3, <2>2, <2>3
<1>13. ds[r].sale = s /\ ds[r].status # "deleted" /\ ds[r].direction = "receivable"
  BY <1>5, <1>10 DEF OpenRow
<1> HIDE DEF S
<1>14. NewRows(ds, s, S, costs)
  <2> DEFINE rows == {d \in DOMAIN ds : d \notin DOMAIN debts /\ ~BilledTo(ds[d], s)}
  <2>1. ASSUME NEW d \in rows PROVE \E k \in DOMAIN more : d = Len(mid) + k /\ ds[d] = more[k]
    <3>1. d \in DOMAIN ds /\ d \notin DOMAIN debts /\ d # r
      BY <1>5, <1>10
    <3>2. d - r \in DOMAIN more /\ Len(mid) + (d - r) = d
      BY <1>3, <1>6, <1>8, <1>9, <3>1
    <3> QED
      BY <1>8, <3>2
  <2>2. ASSUME NEW k \in DOMAIN more PROVE Len(mid) + k \in rows /\ ds[Len(mid) + k] = more[k]
    <3>1. Len(mid) + k \in DOMAIN ds /\ Len(mid) + k \notin DOMAIN debts /\ ds[Len(mid) + k] = more[k]
      BY <1>3, <1>6, <1>8, <1>9
    <3>2. ~BilledTo(more[k], s)
      BY <1>4 DEF CostRow, BilledTo
    <3> QED
      BY <3>1, <3>2
  <2> HIDE DEF rows
  <2>3. ASSUME NEW d \in rows PROVE /\ CostRow(ds[d], s) /\ ds[d].duplicate = 0
                                      /\ ds[d].party \in S /\ ds[d].amount = costs[ds[d].party]
    BY <1>4, <2>1 DEF RowEach
  <2>4. ASSUME NEW d \in rows, NEW e \in rows, ds[d].party = ds[e].party PROVE d = e
    <3>1. PICK j \in DOMAIN more : d = Len(mid) + j /\ ds[d] = more[j]
      BY <2>1
    <3>2. PICK k \in DOMAIN more : e = Len(mid) + k /\ ds[e] = more[k]
      BY <2>1
    <3> QED
      BY <1>4, <2>4, <3>1, <3>2 DEF RowEach
  <2>5. ASSUME NEW p \in S PROVE \E d \in rows : ds[d].party = p
    BY <1>4, <2>2 DEF RowEach
  <2> QED
    BY <2>3, <2>4, <2>5 DEF NewRows, rows
<1> HIDE DEF ss, s
<1>15. Kept(ss, ds, payments, transfers, claims)
  <2>1. \A u \in DOMAIN ss : u \notin DOMAIN sales =>
          \E d \in DOMAIN ds : ds[d].sale = u /\ ds[d].status # "deleted" /\ ds[d].direction = "receivable"
    BY <1>10, <1>12, <1>13
  <2> QED
    BY <1>8, <1>10, <1>11, <1>12, <2>1, OpenRowsAdded
<1>16. now \in SUBSET DOMAIN ds /\ r \notin now /\ \A d \in now : d \notin DOMAIN debts
  BY <1>3, <1>9
<1>17. \A d \in now \cup {r} : ds[d].paid = 0
  <2>1. \A d \in now \cup {r} : d \in DOMAIN ds /\ d \notin DOMAIN debts
    BY <1>10, <1>16
  <2> QED
    BY <1>11, <2>1 DEF OpenRow
<1>18. received <= ds[r].amount
  BY <1>2, <1>5, <1>10
<1> HIDE DEF now, r
<1> DEFINE line == [k \in 1..Cardinality(now) |-> <<InOrder(now)[k], ds[InOrder(now)[k]].amount>>]
                        \o IF received > 0 THEN <<<<r, received>>>> ELSE <<>>
<1>19. PICK n \in Nat : DueOn(line, n, ds, now \cup {r})
  BY <1>2, <1>8, <1>10, <1>16, <1>17, <1>18, DueNow
<1>20. line = list
  BY DEF r
<1> HIDE DEF line, list
<1>21. ref \in Refs \cup {NoRef}
  BY DEF AnyRef
<1>22. NewMoney(ds, list, ref) = money
  BY DEF money
<1>23. Due(list, n, ds) /\ \A k \in DOMAIN list : ds[list[k][1]].status = "open"
  <2>1. \A d \in now \cup {r} : d \in DOMAIN ds /\ d \notin DOMAIN debts
    BY <1>10, <1>16
  <2>2. \A d \in now \cup {r} : ds[d].status = "open"
    BY <1>11, <2>1 DEF OpenRow
  <2> QED
    BY <1>19, <1>20, <2>2 DEF DueOn, Due
<1>26. ref # NoRef => DOMAIN list = {1}
  <2>1. DOMAIN list = 1..Len(list)
    BY <1>23 DEF Due
  <2> QED
    BY <1>25, <2>1
<1>27. IF ref = NoRef THEN claims' = claims
       ELSE /\ claims' = [claims EXCEPT ![ref] = MoneyHolder(money)]
            /\ claims[ref] = NoHolder /\ DOMAIN list = {1}
  BY <1>21, <1>25, <1>26 DEF Claimed, Unclaimed
<1>24. Opens(ds, list, n, ref)
  BY <1>1, <1>8, <1>10, <1>11, <1>15, <1>21, <1>22, <1>23, <1>27 DEF Opens
<1> QED
  BY <1>24, <1>14 DEF s, S

LEMMA CreateSaleKeeps ==
    ASSUME IInv, NEW b \in Buyers, NEW total \in Totals, NEW costs \in LineCosts, NEW received \in 0..total, NEW paid,
           NEW ref \in AnyRef, CreateSale(b, total, costs, received, paid, ref)
    PROVE  IInv'
<1>1. PICK ds, list, n : Opens(ds, list, n, ref)
  BY CreateSaleOpens
<1> DEFINE new == NewMoney(ds, list, ref).payments
           all == transfers \o NewMoney(ds, list, ref).transfers
<1>2. n \in Nat /\ ref \in Refs \cup {NoRef} /\ Due(list, n, ds) /\ Kept(sales', ds, payments, transfers, claims)
  BY <1>1 DEF Opens
<1>3. debts' = Counted(ds, new) /\ payments' = payments \o new /\ transfers' = all
  BY <1>1 DEF Opens
<1>4. /\ Sound(ds, payments, transfers) /\ Booked(ds, payments) /\ ds \in Seq(DebtRecord)
      /\ transfers \in Seq(TransferRecord) /\ ClaimsTyped(claims)
  BY <1>2 DEF Kept, Sound
<1>5. Sound(Counted(ds, new), payments \o new, all) /\ Booked(Counted(ds, new), payments \o new)
  BY <1>2, <1>4, MoneyAdded
<1>6. new \in Seq(PaymentRecord)
  BY <1>2, <1>4, NewMoneyIs
<1>8. ClaimsTyped(claims')
  <2>1. Len(payments) + 1 \in Nat /\ Len(transfers) + 1 \in Nat
    BY <1>4, LenProperties DEF Sound
  <2>2. <<"payment", Len(payments) + 1>> \in Holders /\ <<"transfer", Len(transfers) + 1>> \in Holders
    BY <2>1 DEF Holders
  <2>3. MoneyHolder(NewMoney(ds, list, ref)) \in Holders
    BY <2>2 DEF MoneyHolder
  <2>4. \/ claims' = claims
        \/ claims' = [claims EXCEPT ![ref] = MoneyHolder(NewMoney(ds, list, ref))]
    BY <1>1 DEF Opens
  <2> QED
    BY <1>2, <1>4, <2>3, <2>4 DEF ClaimsTyped
<1> HIDE DEF new, all
<1>7. Kept(sales', Counted(ds, new), payments \o new, all, claims')
  BY <1>2, <1>4, <1>5, <1>6, <1>8, PaidKeeps
<1> QED
  BY <1>3, <1>7 DEF IInv

-----------------------------------------------------------------------------
(* Steps that take payments off a debt. *)

\* The debts that remain when payments came off d: what else changed on d and
\* on other rows keeps what is paid on them.
LEMMA TakenKeeps ==
    ASSUME IInv, NEW d \in DOMAIN debts, NEW P \in SUBSET Active(payments, d), NEW credit \in BOOLEAN,
           NEW ds2 \in Seq(DebtRecord), Same(debts, ds2), Arrived(debts, ds2),
           Booked(ds2, TakenOff(d, P, credit).payments),
           NEW ss2 \in Seq(SaleRecord), DOMAIN ss2 = DOMAIN sales
    PROVE  LET off == TakenOff(d, P, credit)
           IN Kept(ss2, ds2, off.payments, off.transfers, off.claims)
<1> DEFINE off == TakenOff(d, P, credit)
<1>1. /\ Sound(debts, payments, transfers) /\ Booked(debts, payments) /\ ClaimsTyped(claims)
      /\ Received(debts) /\ Costed(debts) /\ Billed(sales, debts)
      /\ debts \in Seq(DebtRecord) /\ payments \in Seq(PaymentRecord) /\ transfers \in Seq(TransferRecord)
      /\ Linked(debts, payments, transfers) /\ P \in SUBSET DOMAIN payments
  BY DEF IInv, Kept, Sound, Active
<1>2. Sound(off.debts, off.payments, off.transfers) /\ TakenDebts(off, d, P)
  BY <1>1, TakenOffKeeps
<1>3. ClaimsTyped(off.claims)
  BY <1>1, TakenOffClaims
<1> HIDE DEF off
<1>4. Linked(ds2, off.payments, off.transfers)
  BY <1>2 DEF Sound, Linked, TakenDebts, Same
<1>5. Sound(ds2, off.payments, off.transfers)
  BY <1>2, <1>4 DEF Sound
<1>6. Received(ds2) /\ Costed(ds2) /\ Billed(ss2, ds2)
  BY <1>1, SameKeeps
<1> QED
  BY <1>3, <1>5, <1>6 DEF Kept, off

\* What the money taken off a debt leaves paid on it.
LEMMA PaidLess ==
    ASSUME IInv, NEW d \in DOMAIN debts, NEW P \in SUBSET Active(payments, d), NEW credit \in BOOLEAN
    PROVE  LET off == TakenOff(d, P, credit)
           IN /\ TakenDebts(off, d, P) /\ off.debts \in Seq(DebtRecord)
              /\ \A e \in DOMAIN debts : e # d => Allocated(off.debts, off.payments, e)
              /\ WorthOf(payments, P) \in Nat /\ debts[d].paid <= debts[d].amount
              /\ debts[d].paid \in Nat /\ debts[d].amount \in Nat \ {0}
<1> DEFINE off == TakenOff(d, P, credit)
<1>1. /\ Sound(debts, payments, transfers) /\ Booked(debts, payments)
      /\ debts \in Seq(DebtRecord) /\ payments \in Seq(PaymentRecord) /\ P \in SUBSET DOMAIN payments
  BY DEF IInv, Kept, Sound, Active
<1>2. /\ Sound(off.debts, off.payments, off.transfers) /\ TakenDebts(off, d, P)
      /\ \A e \in DOMAIN debts : e # d => Allocated(off.debts, off.payments, e)
  BY <1>1, TakenOffKeeps
<1>3. off.debts \in Seq(DebtRecord)
  BY <1>2 DEF Sound
<1>4. WorthOf(payments, P) \in Nat
  BY <1>1, WorthIs
<1>5. debts[d].paid \in Nat /\ debts[d].amount \in Nat \ {0} /\ Allocated(debts, payments, d)
  BY <1>1, RowIs DEF Booked
<1>6. debts[d].paid <= debts[d].amount
  BY <1>5 DEF Allocated
<1> QED
  BY <1>2, <1>3, <1>4, <1>5, <1>6

\* A row of the debts after payments came off d.
LEMMA OffRowIs ==
    ASSUME IInv, NEW d \in DOMAIN debts, NEW P, NEW off, TakenDebts(off, d, P), NEW e \in DOMAIN debts
    PROVE  /\ off.debts[e].direction = debts[e].direction /\ off.debts[e].source = debts[e].source
           /\ off.debts[e].sale = debts[e].sale /\ off.debts[e].party = debts[e].party
           /\ off.debts[e].status = debts[e].status /\ off.debts[e].amount = debts[e].amount
           /\ off.debts[e].related = debts[e].related /\ off.debts[e].duplicate = debts[e].duplicate
  BY DEF TakenDebts

LEMMA ReversePaymentKeeps ==
    ASSUME IInv, NEW p \in DOMAIN payments, ReversePayment(p)
    PROVE  IInv'
<1> DEFINE d == payments[p].debt
           P == {p}
           off == TakenOff(d, P, TRUE)
           ds2 == [off.debts EXCEPT ![d].status = "open"]
<1>1. /\ debts' = ds2 /\ payments' = off.payments /\ transfers' = off.transfers /\ claims' = off.claims
      /\ sales' = sales /\ ~payments[p].reversed
  BY DEF ReversePayment
<1>2. payments \in Seq(PaymentRecord) /\ sales \in Seq(SaleRecord) /\ d \in DOMAIN debts
  BY DEF IInv, Kept, Sound, Linked
<1>3. P \in SUBSET Active(payments, d) /\ TRUE \in BOOLEAN
  BY <1>1 DEF Active
<1>4. WorthOf(payments, P) = payments[p].amount /\ payments[p].amount \in Nat \ {0}
  <2>1. payments[p].amount \in Nat \ {0}
    BY <1>2, PaymentIs
  <2>2. Worth(payments)[p] = payments[p].amount /\ Worth(payments)[p] \in Int
    BY <2>1 DEF Worth
  <2> QED
    BY <2>1, <2>2, SumOne DEF WorthOf
<1> HIDE DEF d, P
<1>5. /\ TakenDebts(off, d, P) /\ off.debts \in Seq(DebtRecord)
      /\ \A e \in DOMAIN debts : e # d => Allocated(off.debts, off.payments, e)
      /\ debts[d].paid <= debts[d].amount /\ debts[d].paid \in Nat /\ debts[d].amount \in Nat \ {0}
  BY <1>2, <1>3, PaidLess
<1> HIDE DEF off
<1>6. /\ DOMAIN off.debts = DOMAIN debts /\ off.debts[d] \in DebtRecord
      /\ off.debts[d].paid = debts[d].paid - WorthOf(payments, P) /\ off.debts[d].amount = debts[d].amount
      /\ off.debts[d].paid = WorthOf(off.payments, Active(off.payments, d)) /\ off.debts[d].paid \in Nat
      /\ \A e \in DOMAIN debts : e # d => off.debts[e] = debts[e]
  <2>1. DOMAIN off.debts = DOMAIN debts
    BY <1>5 DEF TakenDebts
  <2>2. off.debts[d] \in DebtRecord
    BY <1>2, <1>5, <2>1, RowIs
  <2> QED
    BY <1>5, <2>1, <2>2 DEF TakenDebts
<1> DEFINE row == [off.debts[d] EXCEPT !.status = "open"]
<1>7. /\ row \in DebtRecord /\ row.status = "open" /\ row.paid = off.debts[d].paid /\ row.amount = off.debts[d].amount
      /\ row.direction = off.debts[d].direction /\ row.source = off.debts[d].source
      /\ row.sale = off.debts[d].sale /\ row.party = off.debts[d].party
  BY ONLY <1>6 DEF DebtRecord
<1>8. ds2 = [off.debts EXCEPT ![d] = row]
  OBVIOUS
<1> HIDE DEF row
<1>9. /\ ds2 \in Seq(DebtRecord) /\ DOMAIN ds2 = DOMAIN debts /\ ds2[d] = row
      /\ \A e \in DOMAIN debts : e # d => ds2[e] = debts[e]
  <2> DEFINE es == [off.debts EXCEPT ![d] = row]
  <2>1. d \in DOMAIN off.debts
    BY <1>2, <1>6
  <2>2. /\ es \in Seq(DebtRecord) /\ DOMAIN es = DOMAIN off.debts /\ es[d] = row
        /\ \A e \in DOMAIN off.debts : e # d => es[e] = off.debts[e]
    BY <1>5, <1>7, <2>1, RowChanged
  <2> HIDE DEF es
  <2>3. ds2 = es
    BY <1>8 DEF es
  <2> HIDE DEF ds2
  <2> QED
    BY <1>6, <2>2, <2>3
<1> HIDE DEF ds2
<1>10. Same(debts, ds2) /\ Arrived(debts, ds2)
  <2>1. /\ row.direction = debts[d].direction /\ row.source = debts[d].source
        /\ row.sale = debts[d].sale /\ row.party = debts[d].party
    BY <1>2, <1>5, <1>7, OffRowIs
  <2> QED
    BY <1>7, <1>9, <2>1 DEF Same, Arrived
<1>11. Booked(ds2, off.payments)
  <2> SUFFICES ASSUME NEW e \in DOMAIN debts PROVE Allocated(ds2, off.payments, e)
    BY <1>9 DEF Booked
  <2>1. CASE e = d
    <3>1. ds2[d].paid = WorthOf(off.payments, Active(off.payments, d)) /\ ds2[d].status = "open"
          /\ ds2[d].paid < ds2[d].amount
      BY <1>4, <1>5, <1>6, <1>7, <1>9
    <3> QED
      BY <1>5, <1>6, <1>7, <1>9, <2>1, <3>1 DEF Allocated
  <2>2. CASE e # d
    <3>1. ds2[e] = off.debts[e] /\ Allocated(off.debts, off.payments, e)
      BY <1>5, <1>6, <1>9, <2>2
    <3> QED
      BY <3>1 DEF Allocated
  <2> QED
    BY <2>1, <2>2
<1>12. Kept(sales, ds2, off.payments, off.transfers, off.claims)
  BY <1>2, <1>3, <1>9, <1>10, <1>11, TakenKeeps DEF off
<1> QED
  BY <1>1, <1>12 DEF IInv

\* The debt payments came off, written anew with what is left paid on it.
Rewritten(row, old, paid) ==
    /\ row \in DebtRecord /\ row.paid = paid
    /\ row.direction = old.direction /\ row.source = old.source
    /\ row.sale = old.sale /\ row.party = old.party
    /\ row.status # "deleted"
    /\ IF row.status # "cancelled"
       THEN row.paid <= row.amount /\ (row.status = "settled" <=> row.paid = row.amount)
       ELSE row.paid = 0
NewRow(off, d, row, ds2) ==
    /\ ds2 \in Seq(DebtRecord) /\ Len(ds2) = Len(debts) /\ DOMAIN ds2 = DOMAIN debts /\ ds2[d] = row
    /\ \A e \in DOMAIN debts : e # d => ds2[e] = debts[e]
    /\ Same(debts, ds2) /\ Arrived(debts, ds2) /\ Booked(ds2, off.payments)
LEMMA TakenRowKeeps ==
    ASSUME IInv, NEW d \in DOMAIN debts, NEW P \in SUBSET Active(payments, d), NEW credit \in BOOLEAN,
           NEW row, Rewritten(row, debts[d], TakenOff(d, P, credit).debts[d].paid)
    PROVE  NewRow(TakenOff(d, P, credit), d, row, [TakenOff(d, P, credit).debts EXCEPT ![d] = row])
<1> DEFINE off == TakenOff(d, P, credit)
           ds2 == [off.debts EXCEPT ![d] = row]
<1>1. /\ TakenDebts(off, d, P) /\ off.debts \in Seq(DebtRecord)
      /\ \A e \in DOMAIN debts : e # d => Allocated(off.debts, off.payments, e)
  BY PaidLess
<1>2. Rewritten(row, debts[d], off.debts[d].paid) /\ row \in DebtRecord
  BY DEF Rewritten
<1> HIDE DEF off
<1>3. /\ DOMAIN off.debts = DOMAIN debts
      /\ off.debts[d].paid = WorthOf(off.payments, Active(off.payments, d))
      /\ \A e \in DOMAIN debts : e # d => off.debts[e] = debts[e]
  BY <1>1 DEF TakenDebts
<1>4. /\ ds2 \in Seq(DebtRecord) /\ Len(ds2) = Len(off.debts) /\ DOMAIN ds2 = DOMAIN debts /\ ds2[d] = row
      /\ \A e \in DOMAIN debts : e # d => ds2[e] = off.debts[e]
  <2>1. d \in DOMAIN off.debts
    BY <1>3
  <2>2. /\ ds2 \in Seq(DebtRecord) /\ Len(ds2) = Len(off.debts) /\ DOMAIN ds2 = DOMAIN off.debts /\ ds2[d] = row
        /\ \A e \in DOMAIN off.debts : e # d => ds2[e] = off.debts[e]
    BY <1>1, <1>2, <2>1, RowChanged
  <2> HIDE DEF ds2
  <2> QED
    BY <1>3, <2>2
<1> HIDE DEF ds2
<1>5. Len(off.debts) = Len(debts)
  <2>1. debts \in Seq(DebtRecord)
    BY DEF IInv, Kept, Sound
  <2> QED
    BY <1>1, <1>3, <2>1, LenProperties
<1>6. Same(debts, ds2) /\ Arrived(debts, ds2)
  BY <1>2, <1>3, <1>4 DEF Same, Arrived, Rewritten
<1>7. Booked(ds2, off.payments)
  <2> SUFFICES ASSUME NEW e \in DOMAIN debts PROVE Allocated(ds2, off.payments, e)
    BY <1>4 DEF Booked
  <2>1. CASE e = d
    BY <1>2, <1>3, <1>4, <2>1 DEF Allocated, Rewritten
  <2>2. CASE e # d
    <3>1. ds2[e] = off.debts[e] /\ Allocated(off.debts, off.payments, e)
      BY <1>1, <1>4, <2>2
    <3> QED
      BY <3>1 DEF Allocated
  <2> QED
    BY <2>1, <2>2
<1> QED
  BY <1>3, <1>4, <1>5, <1>6, <1>7 DEF ds2, off, NewRow

\* The fields of a debt's row with another status, duplicate or amount.
LEMMA WithStatus ==
    ASSUME NEW row \in DebtRecord, NEW status \in {"open", "settled", "cancelled", "deleted"},
           NEW of \in Nat, NEW amount \in Nat \ {0}
    PROVE  LET next == [row EXCEPT !.status = status, !.duplicate = of, !.amount = amount]
           IN /\ next \in DebtRecord /\ next.status = status /\ next.paid = row.paid /\ next.amount = amount
              /\ next.direction = row.direction /\ next.source = row.source
              /\ next.sale = row.sale /\ next.party = row.party /\ next.related = row.related /\ next.duplicate = of
  BY DEF DebtRecord

\* A debt all its payments came off has nothing paid on it.
LEMMA AllTakenOff ==
    ASSUME IInv, NEW d \in DOMAIN debts, NEW credit \in BOOLEAN
    PROVE  LET off == TakenOff(d, Active(payments, d), credit)
           IN off.debts[d].paid = 0 /\ off.debts[d] \in DebtRecord /\ DOMAIN off.debts = DOMAIN debts
<1> DEFINE P == Active(payments, d)
           off == TakenOff(d, P, credit)
<1>1. TakenDebts(off, d, P) /\ off.debts \in Seq(DebtRecord)
  BY PaidLess
<1> HIDE DEF off
<1>2. Active(off.payments, d) = {} /\ off.debts[d].paid = WorthOf(off.payments, Active(off.payments, d))
      /\ DOMAIN off.debts = DOMAIN debts
  BY <1>1 DEF TakenDebts
<1>3. WorthOf(off.payments, {}) = 0
  BY SumEmpty DEF WorthOf
<1>4. off.debts[d] \in DebtRecord
  BY <1>1, <1>2, RowIs
<1> QED
  BY <1>2, <1>3, <1>4 DEF off

\* The debt cancelled with all its payments taken off.
LEMMA CancelledKeeps ==
    ASSUME IInv, NEW d \in DOMAIN debts, NEW credit \in BOOLEAN, NEW of \in Nat
    PROVE  LET off == TakenOff(d, Active(payments, d), credit)
               row == [off.debts[d] EXCEPT !.status = "cancelled", !.duplicate = of]
               ds2 == [off.debts EXCEPT ![d] = row]
           IN NewRow(off, d, row, ds2)
<1> DEFINE P == Active(payments, d)
           off == TakenOff(d, P, credit)
           row == [off.debts[d] EXCEPT !.status = "cancelled", !.duplicate = of]
           ds2 == [off.debts EXCEPT ![d] = row]
<1>1. TakenDebts(off, d, P) /\ off.debts[d].paid = 0 /\ off.debts[d] \in DebtRecord
  BY PaidLess, AllTakenOff
<1>2. row \in DebtRecord /\ row.paid = off.debts[d].paid /\ row.status = "cancelled"
      /\ row.direction = off.debts[d].direction /\ row.source = off.debts[d].source
      /\ row.sale = off.debts[d].sale /\ row.party = off.debts[d].party
  <2> HIDE DEF off
  <2> QED
    BY ONLY <1>1, of \in Nat DEF DebtRecord
<1>3. /\ row.direction = debts[d].direction /\ row.source = debts[d].source
      /\ row.sale = debts[d].sale /\ row.party = debts[d].party
  <2> HIDE DEF off, row
  <2> QED
    BY <1>1, <1>2, OffRowIs
<1> HIDE DEF row
<1>4. Rewritten(row, debts[d], off.debts[d].paid)
  BY <1>1, <1>2, <1>3 DEF Rewritten
<1>5. P \in SUBSET Active(payments, d)
  OBVIOUS
<1> HIDE DEF P
<1>6. NewRow(off, d, row, ds2)
  BY <1>4, <1>5, TakenRowKeeps
<1> QED
  BY <1>6 DEF P, row

LEMMA DuplicateLiabilityKeeps ==
    ASSUME IInv, NEW d \in DOMAIN debts, NEW of \in DOMAIN debts, NEW how \in Hows, DuplicateLiability(d, of, how)
    PROVE  IInv'
<1> DEFINE credit == how = "credit"
           P == Active(payments, d)
           off == TakenOff(d, P, credit)
           row == [off.debts[d] EXCEPT !.status = "cancelled", !.duplicate = of]
           ds2 == [off.debts EXCEPT ![d] = row]
           other == [ds2[of] EXCEPT !.related = TRUE]
           ds3 == [ds2 EXCEPT ![of] = other]
<1>1. /\ debts' = [off.debts EXCEPT ![d].status = "cancelled", ![d].duplicate = of, ![of].related = TRUE]
      /\ payments' = off.payments /\ transfers' = off.transfers /\ claims' = off.claims /\ sales' = sales
      /\ of # d
  BY DEF DuplicateLiability, Released, IsDuplicate, DuplicateCandidates
<1>2. /\ debts \in Seq(DebtRecord) /\ sales \in Seq(SaleRecord) /\ DOMAIN debts = 1..Len(debts) /\ Len(debts) \in Nat
      /\ of \in Nat
  BY LenProperties DEF IInv, Kept, Sound
<1>3. credit \in BOOLEAN
  OBVIOUS
<1>4. DOMAIN off.debts = DOMAIN debts /\ off.debts[d] \in DebtRecord
  BY AllTakenOff
<1>5. /\ ds2 \in Seq(DebtRecord) /\ DOMAIN ds2 = DOMAIN debts
      /\ Same(debts, ds2) /\ Arrived(debts, ds2) /\ Booked(ds2, off.payments)
  <2> HIDE DEF credit
  <2>1. NewRow(off, d, row, ds2)
    BY <1>2, <1>3, CancelledKeeps
  <2> QED
    BY <2>1 DEF NewRow
<1>6. debts' = ds3
  <2> HIDE DEF off
  <2>1. [off.debts EXCEPT ![d].status = "cancelled", ![d].duplicate = of] = ds2
    BY <1>4 DEF DebtRecord
  <2>2. [off.debts EXCEPT ![d].status = "cancelled", ![d].duplicate = of, ![of].related = TRUE]
          = [[off.debts EXCEPT ![d].status = "cancelled", ![d].duplicate = of] EXCEPT ![of].related = TRUE]
    OBVIOUS
  <2> HIDE DEF ds2
  <2> QED
    BY <1>1, <2>1, <2>2
<1> HIDE DEF ds2, row
<1>7. other \in DebtRecord /\ other.status = ds2[of].status /\ other.paid = ds2[of].paid /\ other.amount = ds2[of].amount
      /\ other.direction = ds2[of].direction /\ other.source = ds2[of].source
      /\ other.sale = ds2[of].sale /\ other.party = ds2[of].party
  <2>1. ds2[of] \in DebtRecord
    BY <1>5, RowIs
  <2> QED
    BY ONLY <2>1 DEF DebtRecord
<1> HIDE DEF other
<1>8. /\ ds3 \in Seq(DebtRecord) /\ DOMAIN ds3 = DOMAIN ds2 /\ ds3[of] = other
      /\ \A e \in DOMAIN ds2 : e # of => ds3[e] = ds2[e]
  BY <1>5, <1>7, RowChanged
<1> HIDE DEF ds3
<1>9. ASSUME NEW e \in DOMAIN debts
      PROVE  /\ ds3[e].status = ds2[e].status /\ ds3[e].paid = ds2[e].paid /\ ds3[e].amount = ds2[e].amount
             /\ ds3[e].direction = ds2[e].direction /\ ds3[e].source = ds2[e].source
             /\ ds3[e].sale = ds2[e].sale /\ ds3[e].party = ds2[e].party
  BY <1>5, <1>7, <1>8
<1>10. Same(debts, ds3) /\ Arrived(debts, ds3)
  BY <1>5, <1>8, <1>9 DEF Same, Arrived
<1>11. Booked(ds3, off.payments)
  BY <1>5, <1>8, <1>9 DEF Booked, Allocated
<1>12. P \in SUBSET Active(payments, d)
  OBVIOUS
<1> HIDE DEF P, credit
<1>13. Kept(sales, ds3, off.payments, off.transfers, off.claims)
  BY <1>2, <1>3, <1>8, <1>10, <1>11, <1>12, TakenKeeps
<1> QED
  BY <1>1, <1>6, <1>13 DEF IInv

\* What is moved from one supplier of a sale to another.
LEMMA MovedIs ==
    ASSUME NEW costs \in [Parties -> Nat], NEW from \in Parties, NEW party \in Parties
    PROVE  [costs EXCEPT ![party] = @ + costs[from], ![from] = 0] \in [Parties -> Nat]
<1>1. costs[from] \in Nat /\ costs[party] + costs[from] \in Nat
  OBVIOUS
<1>2. [costs EXCEPT ![party] = @ + costs[from]] \in [Parties -> Nat]
  BY <1>1
<1> QED
  BY <1>2

\* The debts of a correction: one row cancelled, with nothing paid on it.
LEMMA ReleasedKeeps ==
    ASSUME IInv, NEW d \in DOMAIN debts, NEW credit \in BOOLEAN
    PROVE  LET off == TakenOff(d, Active(payments, d), credit)
               ds2 == [off.debts EXCEPT ![d].status = "cancelled"]
           IN \E row : NewRow(off, d, row, ds2)
<1> DEFINE off == TakenOff(d, Active(payments, d), credit)
           of == off.debts[d].duplicate
           row == [off.debts[d] EXCEPT !.status = "cancelled", !.duplicate = of]
           ds2 == [off.debts EXCEPT ![d].status = "cancelled"]
<1>1. off.debts[d] \in DebtRecord /\ DOMAIN off.debts = DOMAIN debts
  BY AllTakenOff
<1>2. PICK z \in Nat : z = of
  <2> HIDE DEF off
  <2> QED
    BY <1>1 DEF DebtRecord
<1>3. NewRow(off, d, [off.debts[d] EXCEPT !.status = "cancelled", !.duplicate = z],
             [off.debts EXCEPT ![d] = [off.debts[d] EXCEPT !.status = "cancelled", !.duplicate = z]])
  BY CancelledKeeps
<1>4. ds2 = [off.debts EXCEPT ![d] = [off.debts[d] EXCEPT !.status = "cancelled", !.duplicate = z]]
  <2> HIDE DEF off
  <2> QED
    BY <1>1, <1>2 DEF DebtRecord
<1> HIDE DEF ds2, off
<1>5. NewRow(off, d, [off.debts[d] EXCEPT !.status = "cancelled", !.duplicate = z], ds2)
  BY <1>3, <1>4 DEF off
<1> QED
  BY <1>5 DEF ds2, off

LEMMA WrongSupplierKeeps ==
    ASSUME IInv, NEW d \in DOMAIN debts, NEW party \in Parties, NEW how \in Hows, WrongSupplier(d, party, how)
    PROVE  IInv'
<1> DEFINE s == debts[d].sale
           credit == how = "credit"
           P == Active(payments, d)
           off == TakenOff(d, P, credit)
           ds2 == [off.debts EXCEPT ![d].status = "cancelled"]
           other == {e \in Payables(s) : debts[e].party = party}
           target == CHOOSE e \in other : TRUE
           moved == [sales[s].costs EXCEPT ![party] = @ + sales[s].costs[debts[d].party], ![debts[d].party] = 0]
           ss2 == [sales EXCEPT ![s].costs = moved]
           new == [NewDebt("payable", party, debts[d].amount, "sale_cost", s) EXCEPT !.related = TRUE]
           row == [ds2[target] EXCEPT !.amount = @ + debts[d].amount, !.status = "open", !.related = TRUE]
<1>1. /\ debts' = IF other = {} THEN Append(ds2, new) ELSE [ds2 EXCEPT ![target] = row]
      /\ payments' = off.payments /\ transfers' = off.transfers /\ claims' = off.claims /\ sales' = ss2
      /\ party # debts[d].party /\ debts[d].source = "sale_cost"
  BY DEF WrongSupplier, Released, CanMove, CanCorrect, Joined
<1>2. /\ debts \in Seq(DebtRecord) /\ sales \in Seq(SaleRecord) /\ DOMAIN debts = 1..Len(debts) /\ Len(debts) \in Nat
      /\ Costed(debts) /\ Sound(debts, payments, transfers) /\ Booked(debts, payments)
  BY LenProperties DEF IInv, Kept, Sound
<1>3. credit \in BOOLEAN /\ P \in SUBSET Active(payments, d)
  OBVIOUS
<1>4. debts[d].amount \in Nat \ {0} /\ s \in Nat /\ debts[d].party \in Parties
  BY <1>1, <1>2, RowIs DEF Costed, DebtRecord
<1>5. ss2 \in Seq(SaleRecord) /\ DOMAIN ss2 = DOMAIN sales
  <2>1. ASSUME s \in DOMAIN sales PROVE moved \in [Parties -> Nat]
    <3>1. sales[s] \in SaleRecord
      BY <1>2, <2>1, ElementOfSeq
    <3>2. sales[s].costs \in [Parties -> Nat]
      BY <3>1 DEF SaleRecord
    <3> QED
      BY <1>4, <3>2, MovedIs
  <2> HIDE DEF moved
  <2> QED
    BY <1>2, <2>1, CostChanged
<1> HIDE DEF ss2, credit, moved
<1>6. PICK gone : NewRow(off, d, gone, ds2)
  BY <1>3, ReleasedKeeps
<1>7. Linked(off.debts, off.payments, off.transfers) /\ DOMAIN off.debts = DOMAIN debts
  <2>1. Sound(off.debts, off.payments, off.transfers) /\ TakenDebts(off, d, P)
    BY <1>2, <1>3, TakenOffKeeps
  <2> QED
    BY <2>1 DEF Sound, TakenDebts
<1> HIDE DEF P, off, ds2
<1>8. /\ ds2 \in Seq(DebtRecord) /\ DOMAIN ds2 = DOMAIN debts /\ Len(ds2) = Len(debts)
      /\ \A e \in DOMAIN debts : e # d => ds2[e] = debts[e]
      /\ Same(debts, ds2) /\ Arrived(debts, ds2) /\ Booked(ds2, off.payments)
  BY <1>6 DEF NewRow
<1>9. ASSUME NEW ds3 \in Seq(DebtRecord), Same(debts, ds3), Arrived(debts, ds3), Booked(ds3, off.payments), debts' = ds3
      PROVE  IInv'
  <2>1. Kept(ss2, ds3, off.payments, off.transfers, off.claims)
    BY <1>3, <1>5, <1>9, TakenKeeps DEF off
  <2> QED
    BY <1>1, <1>9, <2>1 DEF IInv
<1>10. CASE other = {}
  <2> DEFINE ds3 == Append(ds2, new)
  <2>1. PICK fresh \in DebtRecord : /\ fresh = NewDebt("payable", party, debts[d].amount, "sale_cost", s)
        /\ fresh.direction = "payable" /\ fresh.party = party /\ fresh.amount = debts[d].amount
        /\ fresh.paid = 0 /\ fresh.status = "open" /\ fresh.source = "sale_cost" /\ fresh.sale = s
    BY <1>4, NewDebtIs
  <2>2. new \in DebtRecord /\ new.direction = "payable" /\ new.party = party /\ new.amount = debts[d].amount
        /\ new.paid = 0 /\ new.status = "open" /\ new.source = "sale_cost"
    <3>1. new = [fresh EXCEPT !.related = TRUE]
      BY <2>1
    <3> HIDE DEF new
    <3> QED
      BY ONLY <2>1, <3>1 DEF DebtRecord
  <2> HIDE DEF new
  <2>3. /\ ds3 \in Seq(DebtRecord) /\ Len(ds3) = Len(ds2) + 1
        /\ \A i \in 1..Len(ds2) : ds3[i] = ds2[i]
        /\ ds3[Len(ds2) + 1] = new
    BY <1>8, <2>2, AppendProperties
  <2>4. DOMAIN ds3 = 1..(Len(debts) + 1) /\ ds3[Len(debts) + 1] = new /\ \A e \in DOMAIN debts : ds3[e] = ds2[e]
    BY <1>2, <1>8, <2>3, LenProperties
  <2> HIDE DEF ds3
  <2>5. ASSUME NEW e \in DOMAIN ds3, e \notin DOMAIN debts PROVE ds3[e] = new
    BY <1>2, <2>4, <2>5
  <2>6. DOMAIN debts \subseteq DOMAIN ds3
    BY <1>2, <2>4
  <2>7. Same(debts, ds3)
    BY <1>8, <2>4, <2>6 DEF Same
  <2>8. Arrived(debts, ds3)
    BY <2>2, <2>5 DEF Arrived
  <2>9. ASSUME NEW e \in DOMAIN ds3 PROVE Allocated(ds3, off.payments, e)
    <3>1. CASE e \in DOMAIN debts
      <4>1. ds3[e] = ds2[e] /\ Allocated(ds2, off.payments, e)
        BY <1>8, <2>4, <3>1 DEF Booked
      <4> QED
        BY <4>1 DEF Allocated
    <3>2. CASE e \notin DOMAIN debts
      <4>1. e \notin DOMAIN off.debts /\ ds3[e].paid = 0 /\ ds3[e].status = "open" /\ ds3[e].amount \in Nat \ {0}
        BY <1>4, <1>7, <2>2, <2>5, <3>2
      <4> QED
        BY <1>7, <4>1, NewRowAllocated
    <3> QED
      BY <3>1, <3>2
  <2>10. debts' = ds3
    BY <1>1, <1>10 DEF ds3
  <2> QED
    BY <1>9, <2>3, <2>7, <2>8, <2>9, <2>10 DEF Booked
<1>11. CASE other # {}
  <2> DEFINE ds3 == [ds2 EXCEPT ![target] = row]
  <2>1. target \in other
    BY <1>11
  <2>2. /\ target \in DOMAIN debts /\ target # d /\ debts[target].status \notin {"cancelled", "deleted"}
    <3>1. target \in Payables(s) /\ debts[target].party = party
      BY <2>1
    <3> HIDE DEF target
    <3> QED
      BY <1>1, <3>1 DEF Payables, OfSale, Live
  <2>3. debts' = ds3
    BY <1>1, <1>11
  <2> HIDE DEF target, other
  <2>4. ds2[target] = debts[target] /\ debts[target] \in DebtRecord
        /\ debts[target].amount \in Nat \ {0} /\ debts[target].paid \in Nat /\ debts[target].paid <= debts[target].amount
    <3>1. Allocated(debts, payments, target)
      BY <1>2, <2>2 DEF Booked
    <3>2. debts[target].paid <= debts[target].amount
      BY <2>2, <3>1 DEF Allocated
    <3> QED
      BY <1>2, <1>8, <2>2, <3>2, RowIs
  <2>5. PICK w \in Nat \ {0} : w = debts[target].amount + debts[d].amount
    BY <1>4, <2>4
  <2>6. /\ row \in DebtRecord /\ row.status = "open" /\ row.paid = debts[target].paid /\ row.amount = w
        /\ row.direction = debts[target].direction /\ row.source = debts[target].source
        /\ row.sale = debts[target].sale /\ row.party = debts[target].party
    <3>1. row = [debts[target] EXCEPT !.amount = w, !.status = "open", !.related = TRUE]
      BY <2>4, <2>5
    <3> HIDE DEF row
    <3> QED
      BY ONLY <2>4, <2>5, <3>1 DEF DebtRecord
  <2> HIDE DEF row
  <2>7. /\ ds3 \in Seq(DebtRecord) /\ DOMAIN ds3 = DOMAIN ds2 /\ ds3[target] = row
        /\ \A e \in DOMAIN ds2 : e # target => ds3[e] = ds2[e]
    BY <1>8, <2>2, <2>6, RowChanged
  <2> HIDE DEF ds3
  <2>8. Same(debts, ds3) /\ Arrived(debts, ds3)
    BY <1>8, <2>2, <2>6, <2>7 DEF Same, Arrived
  <2>9. ASSUME NEW e \in DOMAIN debts PROVE Allocated(ds3, off.payments, e)
    <3>0. Allocated(ds2, off.payments, e)
      BY <1>8 DEF Booked
    <3>1. CASE e = target
      BY <1>4, <2>2, <2>4, <2>5, <2>6, <2>7, <1>8, <3>0, <3>1 DEF Allocated
    <3>2. CASE e # target
      BY <1>8, <2>7, <3>0, <3>2 DEF Allocated
    <3> QED
      BY <3>1, <3>2
  <2> QED
    BY <1>8, <1>9, <2>3, <2>7, <2>8, <2>9 DEF Booked
<1> QED
  BY <1>10, <1>11

\* The newest payments that come to `excess` or more.
LEMMA NewestIs ==
    ASSUME payments \in Seq(PaymentRecord), NEW d, NEW excess \in Nat \ {0},
           excess <= WorthOf(payments, Active(payments, d))
    PROVE  /\ Newest(d, excess) \in SUBSET Active(payments, d)
           /\ excess <= WorthOf(payments, Newest(d, excess))
           /\ \E p \in Newest(d, excess) : \A q \in Newest(d, excess) : p <= q
<1> DEFINE A == Active(payments, d)
           N == Newest(d, excess)
           above(p) == {q \in A : q > p}
<1>1. N = {p \in A : WorthOf(payments, above(p)) < excess}
  BY DEF Newest
<1>2. A \in SUBSET DOMAIN payments /\ A \in SUBSET Int
  BY LenProperties DEF Active
<1> HIDE DEF A, N
<1>3. /\ IsFiniteSet(A) /\ \A p \in A : Worth(payments)[p] \in Nat /\ Worth(payments)[p] # 0
      /\ WorthOf(payments, A) \in Nat
  BY <1>2, WorthIs
<1>4. N \in SUBSET A /\ \A p \in A : p \notin N => ~(WorthOf(payments, above(p)) < excess)
  BY <1>1
<1>5. ASSUME NEW T \in SUBSET A PROVE /\ WorthOf(payments, T) \in Nat /\ WorthOf(payments, T) <= WorthOf(payments, A)
                                      /\ IsFiniteSet(T)
  <2>1. IsFiniteSet(T)
    BY <1>3, FS_Subset
  <2>2. SumFunctionOnSet(Worth(payments), T) \in Nat
    BY <1>3, <2>1, SumNatural
  <2>3. SumFunctionOnSet(Worth(payments), T) <= SumFunctionOnSet(Worth(payments), A)
    BY <1>3, SumPart
  <2> QED
    BY <2>1, <2>2, <2>3 DEF WorthOf
<1>6. excess <= WorthOf(payments, N)
  <2>1. CASE N = A
    BY <2>1 DEF A
  <2>2. CASE N # A
    <3> DEFINE R == A \ N
    <3>1. R # {} /\ R \in SUBSET Int /\ R \in SUBSET A
      BY <1>2, <1>4, <2>2
    <3>2. IsFiniteSet(R)
      BY <1>5, <3>1
    <3> HIDE DEF R
    <3>3. PICK m \in R : \A y \in R : y <= m
      BY <3>1, <3>2, LargestIs
    <3>4. m \in A /\ m \notin N /\ m \in Int
      BY <1>2, <3>1 DEF R
    <3>5. above(m) \in SUBSET N
      BY <1>2, <3>3, <3>4 DEF R
    <3>6. ~(WorthOf(payments, above(m)) < excess)
      BY <1>4, <3>4
    <3>7. above(m) \in SUBSET A
      OBVIOUS
    <3> HIDE DEF above
    <3>8. WorthOf(payments, above(m)) \in Nat /\ WorthOf(payments, N) \in Nat
      BY <1>4, <1>5, <3>7
    <3>9. IsFiniteSet(N) /\ \A p \in N : Worth(payments)[p] \in Nat
      BY <1>3, <1>4, <1>5
    <3>10. SumFunctionOnSet(Worth(payments), above(m)) <= SumFunctionOnSet(Worth(payments), N)
      BY <3>5, <3>9, SumPart
    <3> QED
      BY <3>6, <3>8, <3>10 DEF WorthOf
  <2> QED
    BY <2>1, <2>2
<1>7. N # {}
  <2>1. WorthOf(payments, {}) = 0
    BY SumEmpty DEF WorthOf
  <2> QED
    BY <1>6, <2>1
<1>8. \E p \in N : \A q \in N : p <= q
  <2>1. IsFiniteSet(N) /\ N \in SUBSET Int
    BY <1>2, <1>4, <1>5
  <2>2. DOMAIN InOrder(N) = 1..Cardinality(N) /\ Cardinality(N) \in Nat /\ Matches(InOrder(N), 1..Cardinality(N), N)
        /\ \A k \in 1..Cardinality(N) : Cardinality({y \in N : y <= InOrder(N)[k]}) = k
    BY <2>1, InOrderIs
  <2>3. Cardinality(N) # 0
    BY <1>7, <2>1, FS_EmptySet
  <2>4. PICK k \in 1..Cardinality(N) : k = 1
    BY <2>2, <2>3
  <2> DEFINE p == InOrder(N)[k]
             T == {y \in N : y <= p}
  <2>5. p \in N /\ Cardinality(T) = 1
    BY <2>2, <2>4 DEF Matches
  <2> HIDE DEF p
  <2>6. p \in T /\ IsFiniteSet(T) /\ p \in Int
    <3>1. p \in T /\ T \in SUBSET N /\ p \in Int
      BY <2>1, <2>5
    <3> QED
      BY <2>1, <3>1, FS_Subset
  <2>7. T = {p}
    <3> HIDE DEF T
    <3>1. PICK x : T = {x}
      BY <2>5, <2>6, FS_Singleton
    <3> QED
      BY <2>6, <3>1
  <2>8. \A q \in N : p <= q
    BY <2>1, <2>6, <2>7
  <2> QED
    BY <2>5, <2>8
<1> QED
  BY <1>4, <1>6, <1>8 DEF A, N

\* How credit falls depends on what debts have left to pay and who they are owed to.
LEMMA PiecesSame ==
    ASSUME NEW ds, NEW ds2, Balances(ds2) = Balances(ds), NEW n \in Nat, NEW over, DOMAIN over = 1..n,
           \A k \in 1..n : ds2[over[k]].party = ds[over[k]].party,
           NEW m \in Nat, NEW ids, DOMAIN ids = 1..m, NEW ts, NEW amount
    PROVE  CreditPieces(ds2, ts, over, ids, amount) = CreditPieces(ds, ts, over, ids, amount)
<1> DEFINE sizes == SizesOf(over, ds)
           held == [k \in DOMAIN ids |-> Credit(ts, ids[k])]
           lap(i, j) == Overlap(sizes, held, amount, i, j)
           S == {x \in (DOMAIN over) \X (DOMAIN ids) : lap(x[1], x[2]) > 0}
           met == RowByRow(S)
           piece(es, k) == NewPayment(over[met[k][1]], es[over[met[k][1]]].party,
                               lap(met[k][1], met[k][2]), ids[met[k][2]], 0, NoRef)
<1>1. /\ CreditPieces(ds, ts, over, ids, amount) = [k \in DOMAIN met |-> piece(ds, k)]
      /\ CreditPieces(ds2, ts, over, ids, amount) = [k \in DOMAIN met |-> piece(ds2, k)]
  BY DEF CreditPieces, SizesOf
<1>2. S \in SUBSET (Int \X Int) /\ IsFiniteSet(S) /\ \A x \in S : x[1] \in 1..n
  <2> DEFINE I == 1..n
             M == 1..m
  <2>1. IsFiniteSet(I) /\ IsFiniteSet(M)
    BY FS_Interval
  <2>2. S \in SUBSET (I \X M) /\ I \X M \subseteq Int \X Int
    OBVIOUS
  <2>3. \A x \in I \X M : x[1] \in I
    OBVIOUS
  <2> HIDE DEF I, M, S
  <2>4. IsFiniteSet(I \X M)
    BY <2>1, FS_Product
  <2> QED
    BY <2>2, <2>3, <2>4, FS_Subset DEF I
<1> HIDE DEF S
<1>3. DOMAIN met = 1..Cardinality(S) /\ Matches(met, 1..Cardinality(S), S)
  BY <1>2, RowByRowIs
<1> HIDE DEF met
<1>4. ASSUME NEW k \in DOMAIN met PROVE piece(ds2, k) = piece(ds, k)
  <2>1. met[k] \in S
    BY <1>3 DEF Matches
  <2>2. met[k][1] \in 1..n
    BY <1>2, <2>1
  <2> QED
    BY <2>2
<1> HIDE DEF piece
<1> QED
  BY <1>1, <1>4

\* A debt whose status follows its new amount, before payments count or after.
LEMMA Resettled ==
    ASSUME NEW ds \in Seq(DebtRecord), NEW d \in DOMAIN ds, NEW new \in Seq(PaymentRecord)
    PROVE  LET settled(r) == IF r.paid = r.amount THEN "settled" ELSE "open"
               ds2 == [ds EXCEPT ![d] = [ds[d] EXCEPT !.status = settled(ds[d])]]
               cs == Counted(ds, new)
           IN Counted(ds2, new) = [cs EXCEPT ![d].status = settled(cs[d])]
<1> DEFINE settled(r) == IF r.paid = r.amount THEN "settled" ELSE "open"
           row == [ds[d] EXCEPT !.status = settled(ds[d])]
           ds2 == [ds EXCEPT ![d] = row]
           cs == Counted(ds, new)
           cs2 == Counted(ds2, new)
           sum(e) == WorthOf(new, On(new, e))
           paid(r, e) == [r EXCEPT !.paid = r.paid + sum(e),
                             !.status = IF r.paid + sum(e) = r.amount THEN "settled" ELSE "open"]
<1>1. /\ cs = [e \in DOMAIN ds |-> IF On(new, e) = {} THEN ds[e] ELSE paid(ds[e], e)]
      /\ cs2 = [e \in DOMAIN ds2 |-> IF On(new, e) = {} THEN ds2[e] ELSE paid(ds2[e], e)]
  BY DEF Counted, On
<1>2. DOMAIN ds2 = DOMAIN ds /\ ds2[d] = row /\ \A e \in DOMAIN ds : e # d => ds2[e] = ds[e]
  OBVIOUS
<1>3. ds[d] \in DebtRecord /\ cs \in Seq(DebtRecord) /\ DOMAIN cs = DOMAIN ds /\ cs[d] \in DebtRecord
  BY CountedIs, RowIs
<1>4. WorthOf(new, On(new, d)) \in Nat
  <2>1. On(new, d) \in SUBSET DOMAIN new
    BY DEF On
  <2> QED
    BY <2>1, WorthIs
<1> HIDE DEF ds2, cs, cs2
<1>5. DOMAIN cs2 = DOMAIN ds /\ cs2 = [e \in DOMAIN ds |-> cs2[e]]
  BY <1>1, <1>2
<1>6. ASSUME NEW e \in DOMAIN ds, e # d PROVE cs2[e] = cs[e]
  <2> HIDE DEF paid
  <2> QED
    BY <1>1, <1>2, <1>6
<1>7. cs2[d] = [cs[d] EXCEPT !.status = settled(cs[d])]
  <2>1. CASE On(new, d) = {}
    <3> HIDE DEF paid
    <3> QED
      BY <1>1, <1>2, <2>1
  <2>2. CASE On(new, d) # {}
    <3>1. cs[d] = paid(ds[d], d) /\ cs2[d] = paid(row, d)
      <4> HIDE DEF paid, row
      <4> QED
        BY <1>1, <1>2, <2>2
    <3>2. PICK w \in Nat : w = sum(d)
      BY <1>4
    <3>3. /\ cs[d] = [ds[d] EXCEPT !.paid = ds[d].paid + w,
                        !.status = IF ds[d].paid + w = ds[d].amount THEN "settled" ELSE "open"]
          /\ cs2[d] = [row EXCEPT !.paid = row.paid + w,
                         !.status = IF row.paid + w = row.amount THEN "settled" ELSE "open"]
      <4> HIDE DEF row
      <4> QED
        BY <3>1, <3>2
    <3> QED
      BY ONLY <1>3, <3>3 DEF DebtRecord
  <2> QED
    BY <2>1, <2>2
<1>8. [cs EXCEPT ![d].status = settled(cs[d])] = [cs EXCEPT ![d] = [cs[d] EXCEPT !.status = settled(cs[d])]]
  BY <1>3
<1> HIDE DEF settled
<1>9. cs = [e \in DOMAIN ds |-> cs[e]]
  BY <1>1, <1>3
<1>10. cs2 = [cs EXCEPT ![d] = [cs[d] EXCEPT !.status = settled(cs[d])]]
  <2> DEFINE z == [cs[d] EXCEPT !.status = settled(cs[d])]
  <2>1. cs2[d] = z
    BY <1>7
  <2> HIDE DEF z
  <2>2. ASSUME NEW e \in DOMAIN ds PROVE cs2[e] = [cs EXCEPT ![d] = z][e]
    BY <1>3, <1>6, <2>1
  <2>3. cs2 = [cs EXCEPT ![d] = z]
    BY <1>3, <1>5, <1>9, <2>2
  <2> QED
    BY <2>3 DEF z
<1> QED
  BY <1>8, <1>10 DEF cs2, cs, ds2, settled

\* Nothing counts and no credit is used.
LEMMA NothingCounted ==
    ASSUME NEW ds \in Seq(DebtRecord), NEW ts \in Seq(TransferRecord), NEW ps \in Seq(PaymentRecord)
    PROVE  Counted(ds, <<>>) = ds /\ CreditUsed(ts, <<>>) = ts /\ ps \o <<>> = ps /\ <<>> \in Seq(PaymentRecord)
<1>1. <<>> \in Seq(PaymentRecord) /\ DOMAIN <<>> = {} /\ ps \o <<>> = ps
  BY ConcatEmptySeq
<1>2. Counted(ds, <<>>) = ds
  <2>1. Counted(ds, <<>>) = [d \in DOMAIN ds |-> ds[d]]
    BY <1>1 DEF Counted
  <2>2. ds = [d \in DOMAIN ds |-> ds[d]]
    OBVIOUS
  <2> QED
    BY <2>1, <2>2
<1>3. CreditUsed(ts, <<>>) = ts
  <2>1. WorthOf(<<>>, {}) = 0
    BY SumEmpty DEF WorthOf
  <2>2. ASSUME NEW t \in DOMAIN ts PROVE [ts[t] EXCEPT !.used = @ + 0] = ts[t]
    <3>1. ts[t] \in TransferRecord
      BY ElementOfSeq, LenProperties
    <3> QED
      BY ONLY <3>1 DEF TransferRecord
  <2>3. CreditUsed(ts, <<>>) = [t \in DOMAIN ts |-> [ts[t] EXCEPT !.used = @ + 0]]
    <3>1. \A t : {k \in DOMAIN <<>> : <<>>[k].transfer = t} = {}
      BY <1>1
    <3> QED
      BY <2>1, <3>1 DEF CreditUsed
  <2>4. CreditUsed(ts, <<>>) = [t \in DOMAIN ts |-> ts[t]]
    BY <2>2, <2>3
  <2>5. ts = [t \in DOMAIN ts |-> ts[t]]
    OBVIOUS
  <2> QED
    BY <2>4, <2>5
<1> QED
  BY <1>1, <1>2, <1>3

\* The debt shrunk to what is left of its goods.
ShrunkTo(r, amount) == [r EXCEPT !.amount = amount, !.status = IF r.paid = amount THEN "settled" ELSE "open"]
Shrunk(off, d, amount, less, ds2) ==
    /\ NewRow(off, d, ShrunkTo(off.debts[d], amount), ds2)
    /\ less \in Seq(DebtRecord) /\ less[d].amount = amount /\ less[d].paid = off.debts[d].paid
    /\ ds2 = [less EXCEPT ![d] = [less[d] EXCEPT
                  !.status = IF less[d].paid = less[d].amount THEN "settled" ELSE "open"]]
    /\ Balances(ds2) = Balances(less) /\ ds2[d].party = less[d].party
    /\ Balances(ds2)[d] = amount - off.debts[d].paid
LEMMA ShrunkKeeps ==
    ASSUME IInv, NEW d \in DOMAIN debts, NEW P \in SUBSET Active(payments, d), NEW credit \in BOOLEAN,
           NEW amount \in Nat \ {0}, TakenOff(d, P, credit).debts[d].paid <= amount
    PROVE  Shrunk(TakenOff(d, P, credit), d, amount,
                [TakenOff(d, P, credit).debts EXCEPT ![d].amount = amount],
                [TakenOff(d, P, credit).debts EXCEPT ![d] = ShrunkTo(TakenOff(d, P, credit).debts[d], amount)])
<1> DEFINE off == TakenOff(d, P, credit)
           r == off.debts[d]
           one == [r EXCEPT !.amount = amount]
           row == ShrunkTo(r, amount)
           less == [off.debts EXCEPT ![d].amount = amount]
           ds2 == [off.debts EXCEPT ![d] = row]
           two == [less[d] EXCEPT !.status = IF less[d].paid = less[d].amount THEN "settled" ELSE "open"]
<1>1. TakenDebts(off, d, P) /\ off.debts \in Seq(DebtRecord)
  BY PaidLess
<1>2. r.paid <= amount
  OBVIOUS
<1> HIDE DEF off
<1>3. DOMAIN off.debts = DOMAIN debts /\ d \in DOMAIN off.debts /\ r \in DebtRecord
  BY <1>1, RowIs DEF TakenDebts
<1>4. /\ r.direction = debts[d].direction /\ r.source = debts[d].source
      /\ r.sale = debts[d].sale /\ r.party = debts[d].party
  BY <1>1, OffRowIs
<1>5. /\ row \in DebtRecord /\ row.paid = r.paid /\ row.amount = amount
      /\ row.direction = r.direction /\ row.source = r.source /\ row.sale = r.sale /\ row.party = r.party
      /\ row.status = IF r.paid = amount THEN "settled" ELSE "open"
      /\ one \in DebtRecord /\ one.paid = r.paid /\ one.amount = amount /\ one.party = r.party
      /\ row = [one EXCEPT !.status = IF one.paid = one.amount THEN "settled" ELSE "open"]
  <2>1. amount \in Nat \ {0}
    OBVIOUS
  <2> HIDE DEF r
  <2> QED
    BY ONLY <1>3, <2>1 DEF DebtRecord, ShrunkTo
<1>6. Rewritten(row, debts[d], r.paid)
  BY <1>2, <1>4, <1>5 DEF Rewritten
<1> HIDE DEF row
<1>7. NewRow(off, d, row, ds2)
  BY <1>6, TakenRowKeeps DEF off
<1>8. less = [off.debts EXCEPT ![d] = one]
  OBVIOUS
<1> HIDE DEF one, r
<1>9. less \in Seq(DebtRecord) /\ DOMAIN less = DOMAIN off.debts /\ less[d] = one
  <2> DEFINE z == [off.debts EXCEPT ![d] = one]
  <2>1. z \in Seq(DebtRecord) /\ DOMAIN z = DOMAIN off.debts /\ z[d] = one
    BY <1>1, <1>3, <1>5, RowChanged
  <2> HIDE DEF z, less
  <2> QED
    BY <1>8, <2>1 DEF z
<1>10. two = row
  <2> HIDE DEF less
  <2> QED
    BY <1>5, <1>9
<1>11. ds2 = [less EXCEPT ![d] = two]
  <2>1. ds2 = [less EXCEPT ![d] = row]
    BY <1>8
  <2> HIDE DEF two, ds2, less
  <2> QED
    BY <1>10, <2>1
<1>12. DOMAIN ds2 = DOMAIN less /\ ds2[d] = row /\ \A e \in DOMAIN less : e # d => ds2[e] = less[e]
  BY <1>3, <1>9
<1> HIDE DEF ds2, less
<1>13. Balances(ds2) = Balances(less)
  <2>1. ASSUME NEW e \in DOMAIN less PROVE ds2[e].amount - ds2[e].paid = less[e].amount - less[e].paid
    BY <1>5, <1>9, <1>12
  <2> QED
    BY <1>12, <2>1 DEF Balances
<1>14. Balances(ds2)[d] = amount - r.paid
  BY <1>3, <1>5, <1>9, <1>12 DEF Balances
<1> HIDE DEF two
<1>15. ds2[d].party = less[d].party /\ less[d].amount = amount /\ less[d].paid = r.paid
  BY <1>5, <1>9, <1>12
<1>16. Shrunk(off, d, amount, less, ds2)
  BY <1>7, <1>9, <1>11, <1>13, <1>14, <1>15 DEF Shrunk, two, row, r
<1> QED
  BY <1>16 DEF ds2, less, row, r, off

LEMMA ShrinkPayableKeeps ==
    ASSUME IInv, NEW d \in DOMAIN debts, NEW amount \in 0..MaxAmount, NEW how \in Hows, ShrinkPayable(d, amount, how)
    PROVE  IInv'
<1> DEFINE excess == debts[d].paid - amount
           P == IF excess > 0 THEN Newest(d, excess) ELSE {}
           credit == how = "credit"
           off == TakenOff(d, P, credit)
           surplus == -(excess - (debts[d].paid - off.debts[d].paid))
           last == off.payments[CHOOSE p \in P : \A q \in P : p <= q].transfer
           less == [off.debts EXCEPT ![d].amount = amount]
           back == IF P # {} /\ how = "credit" /\ surplus > 0
                   THEN CreditPieces(less, off.transfers, <<d>>, <<last>>, surplus) ELSE <<>>
<1>1. /\ debts[d].source = "batch_receipt" /\ Live(d)
      /\ IF amount = 0
         THEN /\ debts' = [off.debts EXCEPT ![d].status = "cancelled"]
              /\ payments' = off.payments
              /\ transfers' = off.transfers
         ELSE /\ debts' = [Counted(less, back) EXCEPT ![d].status =
                       IF Counted(less, back)[d].paid = amount THEN "settled" ELSE "open"]
              /\ payments' = off.payments \o back
              /\ transfers' = CreditUsed(off.transfers, back)
      /\ claims' = off.claims
      /\ sales' = sales
  BY DEF ShrinkPayable
<1>2. /\ debts \in Seq(DebtRecord) /\ payments \in Seq(PaymentRecord) /\ transfers \in Seq(TransferRecord)
      /\ sales \in Seq(SaleRecord) /\ Linked(debts, payments, transfers)
      /\ Sound(debts, payments, transfers) /\ Booked(debts, payments) /\ Received(debts)
      /\ amount \in Nat /\ credit \in BOOLEAN
  BY LedgerAssumption DEF IInv, Kept, Sound
<1>3. /\ debts[d].paid \in Nat /\ debts[d].amount \in Nat \ {0} /\ ToSupplier(debts[d])
      /\ debts[d].paid = WorthOf(payments, Active(payments, d)) /\ excess \in Int
  <2>1. debts[d].paid \in Nat /\ debts[d].amount \in Nat \ {0} /\ Allocated(debts, payments, d)
    BY <1>2, RowIs DEF Booked
  <2>2. ToSupplier(debts[d])
    BY <1>1, <1>2 DEF Received, ToSupplier
  <2>3. debts[d].paid = WorthOf(payments, Active(payments, d))
    BY <2>1 DEF Allocated
  <2>4. excess \in Int
    BY <1>2, <2>1
  <2> HIDE DEF excess
  <2> QED
    BY <2>1, <2>2, <2>3, <2>4
<1>4. ASSUME excess > 0
      PROVE  /\ P \in SUBSET Active(payments, d) /\ excess <= WorthOf(payments, P)
             /\ \E p \in P : \A q \in P : p <= q
  <2>1. PICK x \in Nat \ {0} : x = excess
    BY <1>3, <1>4
  <2>2. x <= WorthOf(payments, Active(payments, d))
    BY <1>2, <1>3, <2>1
  <2>3. /\ Newest(d, x) \in SUBSET Active(payments, d) /\ x <= WorthOf(payments, Newest(d, x))
        /\ \E p \in Newest(d, x) : \A q \in Newest(d, x) : p <= q
    BY <1>2, <2>2, NewestIs
  <2> QED
    BY <1>4, <2>1, <2>3
<1>5. P \in SUBSET Active(payments, d) /\ (P # {} => \E p \in P : \A q \in P : p <= q)
  BY <1>3, <1>4
<1>6. WorthOf(payments, P) \in Nat /\ excess <= WorthOf(payments, P)
  <2>1. P \in SUBSET DOMAIN payments
    BY <1>5 DEF Active
  <2>2. WorthOf(payments, P) \in Nat
    BY <1>2, <2>1, WorthIs
  <2>3. CASE excess > 0
    BY <1>4, <2>2, <2>3
  <2>4. CASE ~(excess > 0)
    BY <1>3, <2>2, <2>4
  <2> QED
    BY <2>3, <2>4
<1>7. /\ TakenDebts(off, d, P) /\ off.debts \in Seq(DebtRecord)
      /\ Sound(off.debts, off.payments, off.transfers) /\ TakenRows(off.payments, d, P, credit)
      /\ TakenTransfers(off.transfers, d, P, credit)
  <2> HIDE DEF P, credit
  <2>1. /\ Sound(off.debts, off.payments, off.transfers) /\ TakenDebts(off, d, P)
        /\ TakenRows(off.payments, d, P, credit) /\ TakenTransfers(off.transfers, d, P, credit)
    BY <1>2, <1>5, TakenOffKeeps
  <2> QED
    BY <2>1 DEF Sound
<1>8. /\ off.debts[d].paid \in Nat /\ off.debts[d].paid = debts[d].paid - WorthOf(payments, P)
      /\ d \in DOMAIN off.debts /\ off.debts[d] \in DebtRecord
  <2> HIDE DEF off, P
  <2> QED
    BY <1>7, RowIs DEF TakenDebts
<1>9. off.debts[d].paid <= amount /\ surplus = amount - off.debts[d].paid
  <2> HIDE DEF off, P
  <2> QED
    BY <1>2, <1>3, <1>6, <1>8
<1>10. ASSUME NEW ds2 \in Seq(DebtRecord), Same(debts, ds2), Arrived(debts, ds2), Booked(ds2, off.payments)
       PROVE  Kept(sales, ds2, off.payments, off.transfers, off.claims)
  <2> HIDE DEF P, credit
  <2> QED
    BY <1>2, <1>5, <1>10, TakenKeeps
<1>11. CASE amount = 0
  <2> DEFINE row == [off.debts[d] EXCEPT !.status = "cancelled"]
             ds2 == [off.debts EXCEPT ![d] = row]
  <2>1. debts' = ds2 /\ payments' = off.payments /\ transfers' = off.transfers
    BY <1>1, <1>11
  <2>2. off.debts[d].paid = 0
    <3> HIDE DEF off
    <3> QED
      BY <1>8, <1>9, <1>11
  <2>3. /\ row \in DebtRecord /\ row.status = "cancelled" /\ row.paid = off.debts[d].paid
        /\ row.direction = off.debts[d].direction /\ row.source = off.debts[d].source
        /\ row.sale = off.debts[d].sale /\ row.party = off.debts[d].party
    <3> HIDE DEF off
    <3> QED
      BY ONLY <1>8 DEF DebtRecord
  <2> HIDE DEF row, P, credit
  <2>4. Rewritten(row, debts[d], off.debts[d].paid)
    <3> HIDE DEF off
    <3>1. /\ off.debts[d].direction = debts[d].direction /\ off.debts[d].source = debts[d].source
          /\ off.debts[d].sale = debts[d].sale /\ off.debts[d].party = debts[d].party
      BY <1>7, OffRowIs
    <3> QED
      BY <2>2, <2>3, <3>1 DEF Rewritten
  <2>5. NewRow(off, d, row, ds2)
    BY <1>2, <1>5, <2>4, TakenRowKeeps
  <2> HIDE DEF off, ds2
  <2>6. Kept(sales, ds2, off.payments, off.transfers, off.claims)
    BY <1>10, <2>5 DEF NewRow
  <2> QED
    BY <1>1, <2>1, <2>6 DEF IInv
<1>12. CASE amount # 0
  <2> DEFINE row == ShrunkTo(off.debts[d], amount)
             ds2 == [off.debts EXCEPT ![d] = row]
             settled(x) == IF x.paid = x.amount THEN "settled" ELSE "open"
  <2>1. /\ NewRow(off, d, row, ds2)
        /\ less \in Seq(DebtRecord) /\ less[d].amount = amount /\ less[d].paid = off.debts[d].paid
        /\ ds2 = [less EXCEPT ![d] = [less[d] EXCEPT !.status = settled(less[d])]]
        /\ Balances(ds2) = Balances(less) /\ ds2[d].party = less[d].party
        /\ Balances(ds2)[d] = amount - off.debts[d].paid
    <3>1. amount \in Nat \ {0}
      BY <1>2, <1>12
    <3> HIDE DEF P, credit
    <3>2. Shrunk(off, d, amount, less, ds2)
      BY <1>2, <1>5, <1>9, <3>1, ShrunkKeeps
    <3> QED
      BY <3>2 DEF Shrunk
  <2> HIDE DEF row, ds2, less
  <2>2. ds2 \in Seq(DebtRecord) /\ DOMAIN ds2 = DOMAIN debts /\ Kept(sales, ds2, off.payments, off.transfers, off.claims)
    BY <1>10, <2>1 DEF NewRow
  <2>3. d \in DOMAIN less
    <3>1. DOMAIN less = DOMAIN off.debts
      BY DEF less
    <3> HIDE DEF off
    <3> QED
      BY <1>8, <3>1
  <2>4. ASSUME NEW new \in Seq(PaymentRecord)
        PROVE  [Counted(less, new) EXCEPT ![d].status = IF Counted(less, new)[d].paid = amount THEN "settled" ELSE "open"]
                   = Counted(ds2, new)
    <3>1. Counted(less, new)[d].amount = amount
      BY <2>1, <2>3, CountedIs
    <3>2. Counted([less EXCEPT ![d] = [less[d] EXCEPT !.status = settled(less[d])]], new)
            = [Counted(less, new) EXCEPT ![d].status = settled(Counted(less, new)[d])]
      BY <2>1, <2>3, Resettled
    <3>3. settled(Counted(less, new)[d]) = IF Counted(less, new)[d].paid = amount THEN "settled" ELSE "open"
      BY <3>1
    <3> HIDE DEF settled, off
    <3> QED
      BY <2>1, <3>2, <3>3
  <2>5. ASSUME back \in Seq(PaymentRecord),
               Kept(sales, Counted(ds2, back), off.payments \o back, CreditUsed(off.transfers, back), off.claims)
        PROVE  IInv'
    <3> HIDE DEF back, off
    <3>1. debts' = Counted(ds2, back)
      BY <1>1, <1>12, <2>4, <2>5
    <3> QED
      BY <1>1, <1>12, <2>5, <3>1 DEF IInv
  <2>6. CASE back = <<>>
    <3> HIDE DEF back, off
    <3>1. off.payments \in Seq(PaymentRecord) /\ off.transfers \in Seq(TransferRecord)
      BY <1>7 DEF Sound
    <3>2. /\ Counted(ds2, <<>>) = ds2 /\ CreditUsed(off.transfers, <<>>) = off.transfers
          /\ off.payments \o <<>> = off.payments /\ <<>> \in Seq(PaymentRecord)
      BY <2>2, <3>1, NothingCounted
    <3> QED
      BY <2>2, <2>5, <2>6, <3>2
  <2>7. CASE back # <<>>
    <3>1. P # {} /\ surplus > 0 /\ back = CreditPieces(less, off.transfers, <<d>>, <<last>>, surplus)
      BY <2>7
    <3>2. PICK w \in Nat : w = surplus
      <4> HIDE DEF off
      <4> QED
        BY <1>2, <1>8, <1>9
    <3> HIDE DEF surplus, back
    <3>3. last \in DOMAIN off.transfers /\ Credit(off.transfers, last) \in Nat
      <4> DEFINE p == CHOOSE p \in P : \A q \in P : p <= q
      <4>1. p \in P
        BY <1>5, <3>1
      <4>2. last = off.payments[p].transfer
        OBVIOUS
      <4> HIDE DEF p, P, off, last
      <4>3. last = TransferOf(d, P, p)
        BY <1>7, <4>1, <4>2 DEF TakenRows
      <4>4. P \in SUBSET DOMAIN payments
        BY <1>5 DEF Active
      <4>5. last \in 0..(Len(transfers) + Len(Wrappings(d, P))) /\ last # 0
        BY <1>2, <1>3, <4>1, <4>3, <4>4, TransferOfFits
      <4>6. /\ off.transfers \in Seq(TransferRecord)
            /\ Len(off.transfers) = Len(transfers) + Len(Wrappings(d, P))
        BY <1>7 DEF TakenTransfers
      <4>7. DOMAIN off.transfers = 1..Len(off.transfers) /\ Len(off.transfers) \in Nat
        BY <4>6, LenProperties
      <4>8. last \in DOMAIN off.transfers
        BY <4>5, <4>6, <4>7
      <4>9. Spent(off.payments, off.transfers, last)
        BY <1>7, <4>8 DEF Sound
      <4>10. /\ Credit(off.transfers, last) = off.transfers[last].credited - off.transfers[last].used
                    - off.transfers[last].refunded - off.transfers[last].wrong
             /\ off.transfers[last].credited \in Nat /\ off.transfers[last].used \in Nat
             /\ off.transfers[last].refunded \in Nat /\ off.transfers[last].wrong \in Nat
        BY <4>6, <4>8, CreditIs
      <4>11. off.transfers[last].used + off.transfers[last].refunded + off.transfers[last].wrong
               <= off.transfers[last].credited
        BY <4>9 DEF Spent
      <4> QED
        BY <4>8, <4>10, <4>11
    <3> HIDE DEF last
    <3>4. PICK one \in Nat : one = 1
      OBVIOUS
    <3> DEFINE over == <<d>>
               ids == <<last>>
    <3>5. DOMAIN over = 1..one /\ DOMAIN ids = 1..one /\ over[1] = d /\ ids[1] = last
      BY <3>4
    <3> HIDE DEF over, ids
    <3>6. Payable(over, one, ds2)
      <4>1. Balances(ds2)[d] \in Nat
        <5> HIDE DEF off
        <5> QED
          BY <1>2, <1>8, <1>9, <2>1
      <4> QED
        BY <2>2, <3>4, <3>5, <4>1 DEF Payable
    <3>7. Holding(ids, one, off.transfers)
      <4> HIDE DEF off
      <4> QED
        BY <3>3, <3>4, <3>5 DEF Holding
    <3>8. back = CreditPieces(ds2, off.transfers, over, ids, w)
      <4>1. back = CreditPieces(less, off.transfers, over, ids, w)
        BY <3>1, <3>2 DEF over, ids
      <4>2. \A k \in 1..one : ds2[over[k]].party = less[over[k]].party
        BY <2>1, <3>4, <3>5
      <4> HIDE DEF off
      <4>3. Balances(ds2) = Balances(less)
        BY <2>1
      <4>4. CreditPieces(ds2, off.transfers, over, ids, w) = CreditPieces(less, off.transfers, over, ids, w)
        BY <3>5, <4>2, <4>3, PiecesSame
      <4> QED
        BY <4>1, <4>4
    <3> HIDE DEF off
    <3>9. Sound(ds2, off.payments, off.transfers) /\ Booked(ds2, off.payments) /\ ClaimsTyped(off.claims)
      BY <2>2 DEF Kept
    <3>10. /\ Sound(Counted(ds2, back), off.payments \o back, CreditUsed(off.transfers, back))
           /\ Booked(Counted(ds2, back), off.payments \o back)
      BY <3>6, <3>7, <3>8, <3>9, CreditAdded
    <3>11. back \in Seq(PaymentRecord)
      <4>1. off.transfers \in Seq(TransferRecord)
        BY <1>7 DEF Sound
      <4> QED
        BY <2>2, <3>6, <3>7, <3>8, <4>1, PiecesIs
    <3>12. Kept(sales, Counted(ds2, back), off.payments \o back, CreditUsed(off.transfers, back), off.claims)
      BY <2>2, <3>9, <3>10, <3>11, PaidKeeps
    <3> QED
      BY <2>5, <3>11, <3>12
  <2> QED
    BY <2>6, <2>7
<1> QED
  BY <1>11, <1>12

-----------------------------------------------------------------------------
(* The start, and every step. *)

LEMMA NoSaleKept ==
    ASSUME transfers = <<>>, NoSale
    PROVE  IInv
<1>1. sales = <<>> /\ debts = <<>> /\ payments = <<>> /\ claims = [r \in Refs |-> NoHolder]
  BY DEF NoSale
<1>2. <<>> \in Seq(SaleRecord) /\ <<>> \in Seq(DebtRecord) /\ <<>> \in Seq(PaymentRecord) /\ <<>> \in Seq(TransferRecord)
      /\ DOMAIN <<>> = {}
  OBVIOUS
<1>3. Sound(debts, payments, transfers)
  BY <1>1, <1>2 DEF Sound, Linked
<1>4. Booked(debts, payments) /\ Received(debts) /\ Costed(debts) /\ Billed(sales, debts)
  BY <1>1, <1>2 DEF Booked, Received, Costed, Billed
<1>5. ClaimsTyped(claims)
  BY <1>1 DEF ClaimsTyped
<1> QED
  BY <1>1, <1>2, <1>3, <1>4, <1>5 DEF IInv, Kept

LEMMA LargestTotal == Max(Totals) \in Nat \ {0}
<1>1. Totals \in SUBSET Int /\ IsFiniteSet(Totals) /\ Totals # {} /\ Totals \subseteq Nat \ {0}
  BY LedgerAssumption
<1>2. PICK m \in Totals : \A y \in Totals : y <= m
  BY <1>1, LargestIs
<1>3. \A y \in Totals : m >= y
  BY <1>1, <1>2
<1>4. Max(Totals) \in Totals
  BY <1>3 DEF Max
<1> QED
  BY <1>1, <1>4

LEMMA OldSaleKept ==
    ASSUME transfers = <<>>, NEW s \in Suppliers, NEW b \in Buyers, NEW ref \in AnyRef, OldSale(s, b, ref),
           Legacy # "none"
    PROVE  IInv
<1> DEFINE sale == [status |-> "active", costs |-> [p \in Parties |-> IF p = s THEN MaxAmount ELSE 0]]
           total == Max(Totals)
           paid == IF Legacy = "active" THEN 1 ELSE 0
           owed == NewDebt("receivable", b, total, "sale", 1)
           cost == [NewDebt("payable", s, MaxAmount, "sale_cost", 1) EXCEPT !.paid = paid]
           old == [NewPayment(2, s, 1, 0, 0, ref) EXCEPT !.old = TRUE, !.reversed = (Legacy = "reversed")]
<1>1. /\ sales = <<sale>> /\ debts = <<owed, cost>> /\ payments = <<old>>
      /\ claims = [r \in Refs |-> IF r = ref /\ Legacy = "active" THEN <<"payment", 1>> ELSE NoHolder]
  BY DEF OldSale
<1>2. MaxAmount \in Nat /\ MaxAmount > 1 /\ s \in Parties /\ total \in Nat \ {0}
  BY LedgerAssumption, LargestTotal DEF Parties
<1>3. sale \in SaleRecord
  BY <1>2 DEF SaleRecord
<1> HIDE DEF total
<1>4. /\ owed \in DebtRecord /\ owed.direction = "receivable" /\ owed.amount = total /\ owed.paid = 0
      /\ owed.status = "open" /\ owed.source = "sale" /\ owed.sale = 1
  BY <1>2 DEF NewDebt, DebtRecord
<1>5. paid \in Nat /\ paid < MaxAmount
  BY <1>2
<1>6. PICK z \in Nat : z = paid
  BY <1>5
<1>7. /\ cost \in DebtRecord /\ cost.direction = "payable" /\ cost.party = s /\ cost.amount = MaxAmount /\ cost.paid = paid
      /\ cost.status = "open" /\ cost.source = "sale_cost" /\ cost.sale = 1
  <2>0. PICK one \in Nat : one = 1
    OBVIOUS
  <2>1. PICK base \in DebtRecord : /\ base = NewDebt("payable", s, MaxAmount, "sale_cost", one)
            /\ base.direction = "payable" /\ base.party = s /\ base.amount = MaxAmount
            /\ base.status = "open" /\ base.source = "sale_cost" /\ base.sale = one
    <3>1. MaxAmount \in Nat \ {0}
      BY <1>2
    <3> QED
      BY <1>2, <3>1, NewDebtIs
  <2>2. cost = [base EXCEPT !.paid = z]
    BY <1>6, <2>0, <2>1
  <2> HIDE DEF paid, cost
  <2> QED
    BY ONLY <1>6, <2>0, <2>1, <2>2 DEF DebtRecord
<1>8. PICK flag \in BOOLEAN : flag = (Legacy = "reversed")
  OBVIOUS
<1>9. /\ old \in PaymentRecord /\ old.debt = 2 /\ old.amount = 1 /\ old.transfer = 0 /\ old.decided = 0
      /\ old.reversed = flag
  <2>1. PICK base \in PaymentRecord : /\ base = NewPayment(2, s, 1, 0, 0, ref)
            /\ base.debt = 2 /\ base.amount = 1 /\ base.transfer = 0 /\ base.decided = 0
    <3>1. ref \in Refs \cup {NoRef} /\ s \in Parties \cup Buyers
      BY <1>2 DEF AnyRef
    <3> DEFINE base == NewPayment(2, s, 1, 0, 0, ref)
    <3>2. base \in PaymentRecord /\ base.debt = 2 /\ base.amount = 1 /\ base.transfer = 0 /\ base.decided = 0
      BY ONLY <3>1 DEF NewPayment, PaymentRecord
    <3> HIDE DEF base
    <3> QED
      BY <3>2 DEF base
  <2>2. old = [base EXCEPT !.old = TRUE, !.reversed = flag]
    BY <1>8, <2>1
  <2> HIDE DEF old
  <2> QED
    BY ONLY <1>8, <2>1, <2>2 DEF PaymentRecord
<1> HIDE DEF sale, owed, cost, old
<1>10. sales \in Seq(SaleRecord) /\ DOMAIN sales = {1}
  <2>1. <<sale>> \in Seq(SaleRecord) /\ DOMAIN <<sale>> = {1}
    BY <1>3
  <2> QED
    BY <1>1, <2>1
<1>11. debts \in Seq(DebtRecord) /\ DOMAIN debts = {1, 2} /\ debts[1] = owed /\ debts[2] = cost
  <2>1. <<owed, cost>> \in Seq(DebtRecord) /\ DOMAIN <<owed, cost>> = {1, 2}
        /\ <<owed, cost>>[1] = owed /\ <<owed, cost>>[2] = cost
    BY <1>4, <1>7
  <2> QED
    BY <1>1, <2>1
<1>12. payments \in Seq(PaymentRecord) /\ DOMAIN payments = {1} /\ payments[1] = old
  <2>1. <<old>> \in Seq(PaymentRecord) /\ DOMAIN <<old>> = {1} /\ <<old>>[1] = old
    BY <1>9
  <2> QED
    BY <1>1, <2>1
<1>13. transfers \in Seq(TransferRecord) /\ DOMAIN transfers = {} /\ Len(transfers) = 0
  OBVIOUS
<1>14. Sound(debts, payments, transfers)
  BY <1>9, <1>11, <1>12, <1>13 DEF Sound, Linked
<1>15. Received(debts) /\ Costed(debts)
  BY <1>2, <1>4, <1>7, <1>11 DEF Received, Costed
<1>16. Billed(sales, debts)
  BY <1>4, <1>10, <1>11 DEF Billed
<1>17. ClaimsTyped(claims)
  BY <1>1 DEF ClaimsTyped, Holders
<1>18. WorthOf(payments, {}) = 0 /\ WorthOf(payments, {1}) = 1
  <2>1. Worth(payments)[1] = 1 /\ Worth(payments)[1] \in Int
    BY <1>9, <1>12 DEF Worth
  <2>2. SumFunctionOnSet(Worth(payments), {}) = 0
    BY SumEmpty
  <2>3. PICK one : one = 1
    OBVIOUS
  <2>4. SumFunctionOnSet(Worth(payments), {one}) = Worth(payments)[one]
    BY <2>1, <2>3, SumOne
  <2> QED
    BY <2>1, <2>2, <2>3, <2>4 DEF WorthOf
<1>19. Active(payments, 1) = {} /\ Active(payments, 2) = IF flag THEN {} ELSE {1}
  BY <1>9, <1>12 DEF Active
<1>20. paid = WorthOf(payments, Active(payments, 2))
  <2>1. CASE flag
    <3>1. Legacy = "reversed"
      BY <1>8, <2>1
    <3> QED
      BY <1>18, <1>19, <2>1, <3>1
  <2>2. CASE ~flag
    <3>1. Legacy = "active"
      BY <1>8, <2>2, LedgerAssumption
    <3> QED
      BY <1>18, <1>19, <2>2, <3>1
  <2> QED
    BY <2>1, <2>2
<1> HIDE DEF paid
<1>21. Allocated(debts, payments, 1)
  <2>1. WorthOf(payments, Active(payments, 1)) = 0
    BY <1>18, <1>19
  <2> QED
    BY <1>2, <1>4, <1>11, <2>1 DEF Allocated
<1>22. Allocated(debts, payments, 2)
  BY <1>2, <1>5, <1>7, <1>11, <1>20 DEF Allocated
<1>23. Booked(debts, payments)
  BY <1>11, <1>21, <1>22 DEF Booked
<1> QED
  BY <1>10, <1>14, <1>15, <1>16, <1>17, <1>23 DEF IInv, Kept

LEMMA InitKept == Init => IInv
<1> SUFFICES ASSUME Init PROVE IInv
  OBVIOUS
<1>1. CASE NoSale
  BY <1>1, NoSaleKept DEF Init
<1>2. CASE ~NoSale
  <2>1. transfers = <<>> /\ Legacy # "none" /\ \E s \in Suppliers, b \in Buyers, ref \in AnyRef : OldSale(s, b, ref)
    BY <1>2 DEF Init
  <2>2. PICK s \in Suppliers, b \in Buyers, ref \in AnyRef : OldSale(s, b, ref)
    BY <2>1
  <2> QED
    BY <2>1, <2>2, OldSaleKept
<1> QED
  BY <1>1, <1>2

LEMMA StepKept == IInv /\ [Next]_vars => IInv'
<1> SUFFICES ASSUME IInv, [Next]_vars PROVE IInv'
  OBVIOUS
<1>1. CASE UNCHANGED vars
  BY <1>1 DEF vars, IInv
<1>2. CASE SaleSteps
  <2>1. ASSUME NEW b \in Buyers, NEW total \in Totals, NEW costs \in LineCosts,
               NEW received \in 0..total, NEW paid \in SUBSET {p \in Parties : costs[p] > 0},
               NEW ref \in AnyRef, CreateSale(b, total, costs, received, paid, ref)
        PROVE  IInv'
    BY <2>1, CreateSaleKeeps
  <2>2. ASSUME NEW s \in DOMAIN sales, NEW b \in Buyers, NEW total \in Totals, NEW costs \in LineCosts,
               NEW existing \in Readings(s), EditSale(s, b, total, costs, existing)
        PROVE  IInv'
    BY <2>2, EditSaleKeeps
  <2>3. ASSUME NEW s \in DOMAIN sales, CancelSale(s) PROVE IInv'
    BY <2>3, CancelSaleKeeps
  <2> QED
    BY <1>2, <2>1, <2>2, <2>3 DEF SaleSteps
<1>3. CASE DebtSteps
  <2>1. ASSUME NEW e \in Entries, NEW s \in OnSale(e), CreateDebt(e, s) PROVE IInv'
    BY <2>1, CreateDebtKeeps
  <2>2. ASSUME NEW d \in DOMAIN debts, CancelDebt(d) PROVE IInv'
    BY <2>2, CancelDebtKeeps
  <2>3. ASSUME NEW d \in DOMAIN debts, NEW amount \in 0..MaxAmount, NEW how \in Hows, ShrinkPayable(d, amount, how)
        PROVE  IInv'
    BY <2>3, ShrinkPayableKeeps
  <2> QED
    BY <1>3, <2>1, <2>2, <2>3 DEF DebtSteps
<1>4. CASE PaymentSteps
  <2>1. ASSUME NEW d \in DOMAIN debts, NEW amount \in Amounts, NEW ref \in AnyRef, AddPayment(d, amount, ref) PROVE IInv'
    BY <2>1, AddPaymentKeeps
  <2>2. ASSUME NEW s \in Suppliers, NEW amount \in Amounts, NEW credit \in 0..MaxAmount, NEW ref \in AnyRef,
               NEW picked \in SUBSET OpenInvoices(s, {}), PaySupplier(s, amount, credit, picked, ref)
        PROVE  IInv'
    BY <2>2, PaySupplierKeeps
  <2>3. ASSUME NEW s \in Suppliers, NEW amount \in Amounts, NEW picked \in SUBSET OpenInvoices(s, {}),
               ApplyCredit(s, amount, picked)
        PROVE  IInv'
    BY <2>3, ApplyCreditKeeps
  <2>4. ASSUME NEW b \in Buyers, NEW amount \in Amounts, NEW ref \in AnyRef, PayBuyer(b, amount, ref) PROVE IInv'
    BY <2>4, PayBuyerKeeps
  <2>5. ASSUME NEW p \in DOMAIN payments, ReversePayment(p) PROVE IInv'
    BY <2>5, ReversePaymentKeeps
  <2>6. ASSUME NEW t \in DOMAIN transfers, NEW amount \in Amounts, NEW ref \in AnyRef, RefundTransfer(t, amount, ref)
        PROVE  IInv'
    BY <2>6, RefundTransferKeeps
  <2>7. ASSUME NEW t \in DOMAIN transfers, NEW amount \in Amounts, CorrectTransfer(t, amount) PROVE IInv'
    BY <2>7, CorrectTransferKeeps
  <2> QED
    BY <1>4, <2>1, <2>2, <2>3, <2>4, <2>5, <2>6, <2>7 DEF PaymentSteps
<1>5. CASE CorrectionSteps
  <2>1. ASSUME NEW d \in DOMAIN debts, NEW party \in Parties, NEW how \in Hows, WrongSupplier(d, party, how) PROVE IInv'
    BY <2>1, WrongSupplierKeeps
  <2>2. ASSUME NEW d \in DOMAIN debts, NEW of \in DOMAIN debts, NEW how \in Hows, DuplicateLiability(d, of, how) PROVE IInv'
    BY <2>2, DuplicateLiabilityKeeps
  <2>3. ASSUME NEW d \in DOMAIN debts, NoCost(d) PROVE IInv'
    BY <2>3, NoCostKeeps
  <2>4. ASSUME NEW p \in DOMAIN payments, NEW as \in {"credit", "refund", "entry_error"}, NEW amount \in Amounts,
               Classify(p, as, amount)
        PROVE  IInv'
    BY <2>4, ClassifyKeeps
  <2>5. ASSUME NEW p \in DOMAIN payments, Wrap(p) PROVE IInv'
    BY <2>5, WrapKeeps
  <2> QED
    BY <1>5, <2>1, <2>2, <2>3, <2>4, <2>5 DEF CorrectionSteps
<1> QED
  BY <1>1, <1>2, <1>3, <1>4, <1>5 DEF Next

LEMMA AlwaysKept == Spec => []IInv
<1>1. Init => IInv
  BY InitKept
<1>2. IInv /\ [Next]_vars => IInv'
  BY StepKept
<1> QED
  BY <1>1, <1>2, PTL DEF Spec

(* Every sale, debt, payment, transfer and claim of the ledger is always a
   well-formed row, whichever of the handlers of finance.py and transfers.py
   wrote it last. *)
THEOREM LedgerTypeCorrect == Spec => []TypeOK
<1>1. IInv => TypeOK
  BY DEF IInv, Kept, Sound, ClaimsTyped, TypeOK
<1> QED
  BY <1>1, AlwaysKept, PTL

(* After any payments, reversals, corrections, shrunk invoices and edits of
   sales, what a debt says is paid on it (LedgerDebt.paid_amount, written by
   record_payment and _take_off_invoice) is what its payments that still count
   come to: it is settled exactly when they cover it, and nothing counts on a
   cancelled one. *)
THEOREM PaidAlwaysAllocated == Spec => []PaidIsAllocated
<1>1. IInv => PaidIsAllocated
  <2> SUFFICES ASSUME IInv, NEW d \in DOMAIN debts
               PROVE  LET paid == WorthOf(payments, Active(payments, d))
                      IN /\ debts[d].paid = paid
                         /\ IF Live(d) THEN paid <= debts[d].amount /\ (debts[d].status = "settled" <=> paid = debts[d].amount)
                            ELSE paid = 0
    BY DEF PaidIsAllocated
  <2>1. Allocated(debts, payments, d)
    BY DEF IInv, Kept, Booked
  <2> QED
    BY <2>1 DEF Allocated, Live
<1> QED
  BY <1>1, AlwaysKept, PTL

\* What is where of one transfer, from what was made of it.
LEMMA SpentBalances ==
    ASSUME NEW ps \in Seq(PaymentRecord), NEW ts \in Seq(TransferRecord), NEW t \in DOMAIN ts, Spent(ps, ts, t),
           \A p \in DOMAIN ps : ps[p].decided <= ps[p].amount
    PROVE  LET b == Buckets(ps, ts, t)
           IN /\ b.allocated + b.credit + b.refunded + b.entry_error + b.unresolved = ts[t].amount
              /\ \A bucket \in DOMAIN b : b[bucket] >= 0
<1> DEFINE on == {p \in DOMAIN ps : ps[p].transfer = t /\ ~ps[p].reversed}
           off == {p \in DOMAIN ps : ps[p].transfer = t /\ ps[p].reversed}
           all == From(ps, t)
           b == Buckets(ps, ts, t)
           row == ts[t]
<1>1. on \in SUBSET DOMAIN ps /\ off \in SUBSET DOMAIN ps /\ all \in SUBSET DOMAIN ps /\ on = all \ off /\ off \in SUBSET all
      /\ off = Off(ps, t)
  BY DEF From, Off
<1>2. b = [allocated |-> WorthOf(ps, on),
           credit |-> row.credited - row.used - row.refunded - row.wrong,
           refunded |-> row.refunded + row.refundedFrom,
           entry_error |-> row.wrong + row.wrongFrom,
           unresolved |-> WorthOf(ps, off) - row.credited - row.refundedFrom - row.wrongFrom]
  BY DEF Buckets
<1>3. /\ row.credited \in Nat /\ row.used \in Nat /\ row.refunded \in Nat /\ row.wrong \in Nat
      /\ row.refundedFrom \in Nat /\ row.wrongFrom \in Nat /\ row.amount \in Nat \ {0}
  BY CreditIs
<1>4. /\ WorthOf(ps, all) = row.amount + row.used
      /\ row.used + row.refunded + row.wrong <= row.credited
      /\ SumFunctionOnSet(Decided(ps), off) = row.credited + row.refundedFrom + row.wrongFrom
  BY <1>1 DEF Spent
<1> HIDE DEF on, off, all, row, b
<1>5. WorthOf(ps, on) \in Nat /\ WorthOf(ps, off) \in Nat
  BY <1>1, WorthIs
<1>6. WorthOf(ps, all) = WorthOf(ps, off) + WorthOf(ps, on)
  <2>1. IsFiniteSet(all) /\ (\A p \in all : Worth(ps)[p] \in Nat) /\ off \in SUBSET all
    BY <1>1, WorthIs
  <2>2. SumFunctionOnSet(Worth(ps), all) = SumFunctionOnSet(Worth(ps), off) + SumFunctionOnSet(Worth(ps), all \ off)
    BY ONLY <2>1, SumPart
  <2> QED
    BY <1>1, <2>2 DEF WorthOf
<1>7. SumFunctionOnSet(Decided(ps), off) <= WorthOf(ps, off)
  <2>1. IsFiniteSet(off) /\ IntegerOn(Worth(ps), off) /\ \A p \in off : Worth(ps)[p] = ps[p].amount
    BY <1>1, WorthIs
  <2>2. \A p \in off : Decided(ps)[p] = ps[p].decided /\ ps[p].decided \in Nat
    BY <1>1, PaymentIs DEF Decided
  <2>3. IntegerOn(Decided(ps), off)
    BY <2>2 DEF IntegerOn
  <2>4. \A p \in off : Decided(ps)[p] <= Worth(ps)[p]
    BY <1>1, <2>1, <2>2
  <2> QED
    BY <2>1, <2>3, <2>4, SumLeq DEF WorthOf
<1>8. /\ b.allocated = WorthOf(ps, on) /\ b.credit = row.credited - row.used - row.refunded - row.wrong
      /\ b.refunded = row.refunded + row.refundedFrom /\ b.entry_error = row.wrong + row.wrongFrom
      /\ b.unresolved = WorthOf(ps, off) - row.credited - row.refundedFrom - row.wrongFrom
      /\ DOMAIN b = {"allocated", "credit", "refunded", "entry_error", "unresolved"}
  BY <1>2
<1>9. PICK on1 \in Nat, off1 \in Nat, all1 \in Nat, decided \in Nat :
          /\ on1 = WorthOf(ps, on) /\ off1 = WorthOf(ps, off) /\ all1 = WorthOf(ps, all)
          /\ decided = SumFunctionOnSet(Decided(ps), off)
  <2>1. WorthOf(ps, all) \in Nat /\ SumFunctionOnSet(Decided(ps), off) \in Nat
    <3>1. PICK amount \in Nat, used \in Nat, credited \in Nat, from \in Nat, never \in Nat :
              /\ amount = row.amount /\ used = row.used /\ credited = row.credited
              /\ from = row.refundedFrom /\ never = row.wrongFrom
      BY ONLY <1>3
    <3>2. WorthOf(ps, all) = amount + used /\ SumFunctionOnSet(Decided(ps), off) = credited + from + never
      BY ONLY <1>4, <3>1
    <3>3. amount + used \in Nat /\ credited + from + never \in Nat
      OBVIOUS
    <3> QED
      BY ONLY <3>2, <3>3
  <2> QED
    BY ONLY <1>5, <2>1
<1>10. PICK credited \in Nat, used \in Nat, refunded \in Nat, wrong \in Nat, from \in Nat, never \in Nat, amount \in Nat :
          /\ credited = row.credited /\ used = row.used /\ refunded = row.refunded /\ wrong = row.wrong
          /\ from = row.refundedFrom /\ never = row.wrongFrom /\ amount = row.amount
  BY <1>3
<1>11. /\ all1 = amount + used /\ all1 = off1 + on1 /\ used + refunded + wrong <= credited
       /\ decided = credited + from + never /\ decided <= off1
  <2>1. all1 = row.amount + row.used /\ row.used + row.refunded + row.wrong <= row.credited
    BY ONLY <1>4, <1>9
  <2>2. decided = row.credited + row.refundedFrom + row.wrongFrom
    BY ONLY <1>4, <1>9
  <2>3. all1 = off1 + on1 /\ decided <= off1
    BY ONLY <1>6, <1>7, <1>9
  <2> QED
    BY ONLY <1>10, <2>1, <2>2, <2>3
<1>12. /\ b.allocated = on1 /\ b.credit = credited - used - refunded - wrong
       /\ b.refunded = refunded + from /\ b.entry_error = wrong + never
       /\ b.unresolved = off1 - credited - from - never
  BY <1>8, <1>9, <1>10
<1>13. b.allocated + b.credit + b.refunded + b.entry_error + b.unresolved = row.amount
  <2>1. on1 + (credited - used - refunded - wrong) + (refunded + from) + (wrong + never)
          + (off1 - credited - from - never) = amount
    BY <1>11
  <2> QED
    BY <1>10, <1>12, <2>1
<1>14. b.allocated >= 0 /\ b.credit >= 0 /\ b.refunded >= 0 /\ b.entry_error >= 0 /\ b.unresolved >= 0
  <2>1. /\ on1 >= 0 /\ refunded + from >= 0 /\ wrong + never >= 0
    OBVIOUS
  <2>2. credited - used - refunded - wrong >= 0
    <3>1. used + refunded + wrong <= credited
      BY ONLY <1>11
    <3> QED
      BY ONLY <3>1
  <2>3. off1 - credited - from - never >= 0
    <3>1. credited + from + never <= off1
      BY ONLY <1>11
    <3> QED
      BY ONLY <3>1
  <2> QED
    BY ONLY <1>12, <2>1, <2>2, <2>3
<1>15. \A bucket \in DOMAIN b : b[bucket] >= 0
  BY <1>8, <1>14
<1> QED
  BY <1>13, <1>15 DEF b, row

(* Every shilling of every transfer is, whatever was paid, reversed, credited,
   refunded, wrapped or classified since, on an invoice, credit, refunded,
   never sent or undecided, in one of them only and in none of them negative:
   what transfers.balanced checks after the fact, kept by every handler. *)
THEOREM TransfersAlwaysBalance == Spec => []TransfersBalance
<1>1. IInv => TransfersBalance
  <2> SUFFICES ASSUME IInv, NEW t \in DOMAIN transfers
               PROVE  LET b == Buckets(payments, transfers, t)
                      IN /\ b.allocated + b.credit + b.refunded + b.entry_error + b.unresolved = transfers[t].amount
                         /\ \A bucket \in DOMAIN b : b[bucket] >= 0
    BY DEF TransfersBalance
  <2>1. /\ payments \in Seq(PaymentRecord) /\ transfers \in Seq(TransferRecord) /\ Spent(payments, transfers, t)
        /\ \A p \in DOMAIN payments : payments[p].decided <= payments[p].amount
    BY DEF IInv, Kept, Sound, Linked
  <2> QED
    BY <2>1, SpentBalances
<1> QED
  BY <1>1, AlwaysKept, PTL

=============================================================================
