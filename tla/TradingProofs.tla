---------------------------- MODULE TradingProofs ----------------------------
(***************************************************************************)
(* Proofs about three parts of the business that share no state: the       *)
(* orders of buyers (BuyerOrders), the lots of suppliers (Lots), which     *)
(* rest on the same facts about sums, and the members (Registration).      *)
(*                                                                         *)
(* Buyer orders: deposits count once in the cash book, orders hold no more *)
(* than they come to, and money stays with its buyer, for any orders,      *)
(* deposits and buyers.  What makes that inductive is that no part of a    *)
(* deposit is ever less than nothing, that only open orders hold parts,    *)
(* and that a deposit that was voided, or went on a sale as one payment,   *)
(* has no part left anywhere.                                              *)
(*                                                                         *)
(* Lots: no day's stock is ever below nothing and what is payable follows  *)
(* the goods, for any lots, sales and days.  What makes that inductive is  *)
(* that a sale that waits for its lock has on hand what it is about to     *)
(* take, and that two writers never hold the same lock.                    *)
(*                                                                         *)
(* Members: approved suppliers are as reviewed, and whoever a wizard calls *)
(* registered is, for any phones and browsers.  What makes that inductive  *)
(* is what a tab and a session know of each other: a wizard past its       *)
(* account step is about the account of the session, if it still is one.   *)
(***************************************************************************)
EXTENDS BuyerOrders, Lots, Registration, FunctionTheorems, FiniteSetTheorems,
        WellFoundedInduction, TLAPS

-----------------------------------------------------------------------------
(* Sums: SumFunctionOnSet adds up a function over a finite set.  It is a
   recursive function on the subsets of that set; that there is one, and what
   it computes, is shown with a smallest set that goes wrong. *)

Picked(T) == CHOOSE x \in T : TRUE
Rest(T) == T \ {Picked(T)}

\* g adds up f over every subset of S, one picked member after the other.
Adds(g, f, S) == g = [T \in SUBSET S |-> IF T = {} THEN 0 ELSE f[Picked(T)] + g[Rest(T)]]

LEMMA SumIsAdded ==
    ASSUME NEW f, NEW S
    PROVE  SumFunctionOnSet(f, S) = (CHOOSE g : Adds(g, f, S))[S]
  BY DEF SumFunctionOnSet, FoldFunctionOnSet, MapThenFoldSet, Adds, Picked, Rest

LEMMA AddsAt ==
    ASSUME NEW g, NEW f, NEW S, Adds(g, f, S), NEW T \in SUBSET S
    PROVE  g[T] = IF T = {} THEN 0 ELSE f[Picked(T)] + g[Rest(T)]
  BY DEF Adds

\* Some subsets of a finite set, if there are any, have a smallest.
LEMMA SmallestSubset ==
    ASSUME NEW S, IsFiniteSet(S), NEW B \in SUBSET (SUBSET S), B # {}
    PROVE  \E T \in B : \A U \in B : U \subseteq T => U = T
<1> DEFINE R == StrictSubsetOrdering(S)
<1>1. IsWellFoundedOn(R, FiniteSubsetsOf(S))
  BY FS_StrictSubsetOrderingWellFounded
<1>2. B \subseteq FiniteSubsetsOf(S)
  BY FS_Subset DEF FiniteSubsetsOf
<1>3. PICK T \in B : \A U \in B : ~ (<<U, T>> \in R)
  <2> HIDE DEF R
  <2> QED
    BY <1>1, <1>2, WFMin
<1>4. ASSUME NEW U \in B, U \subseteq T PROVE U = T
  BY <1>3, <1>4 DEF StrictSubsetOrdering
<1> QED
  BY <1>4

LEMMA PickedIs ==
    ASSUME NEW T, T # {}
    PROVE  Picked(T) \in T /\ Rest(T) \subseteq T /\ Rest(T) # T
  BY DEF Picked, Rest

\* Two that add up f agree where both do.
LEMMA AddsAgree ==
    ASSUME NEW f, NEW S, IsFiniteSet(S), NEW U \in SUBSET S, NEW V \in SUBSET S,
           NEW g, Adds(g, f, U), NEW h, Adds(h, f, V)
    PROVE  \A W \in SUBSET (U \cap V) : g[W] = h[W]
<1> DEFINE B == {W \in SUBSET (U \cap V) : g[W] # h[W]}
<1> SUFFICES ASSUME B # {} PROVE FALSE
  OBVIOUS
<1>1. PICK W \in B : \A X \in B : X \subseteq W => X = W
  <2>1. B \in SUBSET (SUBSET S)
    OBVIOUS
  <2> HIDE DEF B
  <2> QED
    BY <2>1, SmallestSubset
<1>2. W \in SUBSET U /\ W \in SUBSET V /\ g[W] # h[W]
  OBVIOUS
<1>3. /\ g[W] = IF W = {} THEN 0 ELSE f[Picked(W)] + g[Rest(W)]
      /\ h[W] = IF W = {} THEN 0 ELSE f[Picked(W)] + h[Rest(W)]
  BY <1>2 DEF Adds
<1>4. W # {}
  BY <1>2, <1>3
<1>5. Rest(W) \subseteq W /\ Rest(W) # W
  BY <1>4, PickedIs
<1>6. g[Rest(W)] = h[Rest(W)]
  BY <1>1, <1>2, <1>5
<1> QED
  BY <1>2, <1>3, <1>6

LEMMA AddsAgreeBelow ==
    ASSUME NEW f, NEW S, IsFiniteSet(S), NEW R \in SUBSET S,
           NEW g, Adds(g, f, S), NEW h, Adds(h, f, R)
    PROVE  g[R] = h[R]
<1>1. PICK T \in SUBSET S : T = S
  OBVIOUS
<1>2. Adds(g, f, T) /\ R \in SUBSET (T \cap R)
  BY <1>1
<1> QED
  BY <1>2, AddsAgree

\* There is one that adds up f over every subset of a finite set.
LEMMA AddsExists ==
    ASSUME NEW f, NEW S, IsFiniteSet(S)
    PROVE  \E g : Adds(g, f, S)
<1> DEFINE B == {T \in SUBSET S : ~ \E g : Adds(g, f, T)}
<1> SUFFICES ASSUME B # {} PROVE FALSE
  OBVIOUS
<1>1. PICK T \in B : \A U \in B : U \subseteq T => U = T
  <2>1. B \in SUBSET (SUBSET S)
    OBVIOUS
  <2> HIDE DEF B
  <2> QED
    BY <2>1, SmallestSubset
<1> DEFINE A(U) == CHOOSE g : Adds(g, f, U)
           h == [W \in SUBSET T |-> IF W = {} THEN 0 ELSE f[Picked(W)] + A(Rest(W))[Rest(W)]]
<1>2. ASSUME NEW U \in SUBSET T, U # T PROVE Adds(A(U), f, U)
  <2>1. \E g : Adds(g, f, U)
    BY <1>1, <1>2
  <2> QED
    BY <2>1
<1>3. ASSUME NEW U \in SUBSET T, U # T PROVE h[U] = A(U)[U]
  <2>1. A(U)[U] = IF U = {} THEN 0 ELSE f[Picked(U)] + A(U)[Rest(U)]
    <3>1. Adds(A(U), f, U) /\ U \in SUBSET U
      BY <1>2, <1>3
    <3> HIDE DEF A
    <3> QED
      BY <3>1, AddsAt
  <2>2. h[U] = IF U = {} THEN 0 ELSE f[Picked(U)] + A(Rest(U))[Rest(U)]
    OBVIOUS
  <2>3. CASE U # {}
    <3>1. Rest(U) \in SUBSET U /\ Rest(U) # T /\ Rest(U) \in SUBSET T /\ Rest(U) \in SUBSET (Rest(U) \cap U)
      BY <2>3, PickedIs
    <3>2. Adds(A(U), f, U) /\ Adds(A(Rest(U)), f, Rest(U))
      BY <1>2, <1>3, <3>1
    <3>3. U \in SUBSET S /\ Rest(U) \in SUBSET S
      BY <3>1
    <3> HIDE DEF A, h
    <3>4. A(U)[Rest(U)] = A(Rest(U))[Rest(U)]
      BY <3>1, <3>2, <3>3, AddsAgree
    <3> QED
      BY <2>1, <2>2, <2>3, <3>4
  <2> HIDE DEF A, h
  <2> QED
    BY <2>1, <2>2, <2>3
<1>4. Adds(h, f, T)
  <2>1. ASSUME NEW W \in SUBSET T, W # {} PROVE A(Rest(W))[Rest(W)] = h[Rest(W)]
    <3>1. Rest(W) \in SUBSET T /\ Rest(W) # T
      BY <2>1, PickedIs
    <3> HIDE DEF A, h
    <3> QED
      BY <1>3, <3>1
  <2>2. h = [W \in SUBSET T |-> IF W = {} THEN 0 ELSE f[Picked(W)] + h[Rest(W)]]
    <3> DEFINE body(W, k) == IF W = {} THEN 0 ELSE f[Picked(W)] + k[Rest(W)]
    <3>1. \A W \in SUBSET T : h[W] = body(W, h)
      <4>1. \A W \in SUBSET T : h[W] = IF W = {} THEN 0 ELSE f[Picked(W)] + A(Rest(W))[Rest(W)]
        OBVIOUS
      <4> HIDE DEF A, h
      <4> QED
        BY <2>1, <4>1
    <3>2. h = [W \in SUBSET T |-> h[W]]
      OBVIOUS
    <3> HIDE DEF h
    <3> QED
      BY <3>1, <3>2
  <2> HIDE DEF h
  <2> QED
    BY <2>2 DEF Adds
<1> HIDE DEF h, A
<1> QED
  BY <1>4

\* The sum over a set from the sum over one member less.
LEMMA SumPicked ==
    ASSUME NEW f, NEW S, IsFiniteSet(S)
    PROVE  SumFunctionOnSet(f, S)
               = IF S = {} THEN 0 ELSE f[Picked(S)] + SumFunctionOnSet(f, Rest(S))
<1> DEFINE R == Rest(S)
           g == CHOOSE k : Adds(k, f, S)
           h == CHOOSE k : Adds(k, f, R)
<1>1. R \in SUBSET S /\ IsFiniteSet(R) /\ R \in SUBSET R /\ R \in SUBSET (S \cap R) /\ S \in SUBSET S
  BY FS_Subset DEF Rest
<1>2. SumFunctionOnSet(f, S) = g[S] /\ SumFunctionOnSet(f, R) = h[R]
  BY SumIsAdded
<1>3. Adds(g, f, S) /\ Adds(h, f, R)
  BY <1>1, AddsExists
<1> HIDE DEF g, h
<1>4. g[S] = IF S = {} THEN 0 ELSE f[Picked(S)] + g[R]
  BY <1>1, <1>3, AddsAt
<1>5. g[R] = h[R]
  <2> HIDE DEF R
  <2> QED
    BY <1>1, <1>3, AddsAgreeBelow
<1> QED
  BY <1>2, <1>4, <1>5

LEMMA SumEmpty == ASSUME NEW f PROVE SumFunctionOnSet(f, {}) = 0
  BY SumPicked, FS_EmptySet

IntegerOn(f, S) == \A x \in S : f[x] \in Int

LEMMA SumType ==
    ASSUME NEW f, NEW S, IsFiniteSet(S), IntegerOn(f, S)
    PROVE  SumFunctionOnSet(f, S) \in Int
<1> DEFINE B == {T \in SUBSET S : SumFunctionOnSet(f, T) \notin Int}
<1> SUFFICES ASSUME B # {} PROVE FALSE
  OBVIOUS
<1>1. PICK T \in B : \A U \in B : U \subseteq T => U = T
  <2>1. B \in SUBSET (SUBSET S)
    OBVIOUS
  <2> HIDE DEF B
  <2> QED
    BY <2>1, SmallestSubset
<1>2. T \in SUBSET S /\ SumFunctionOnSet(f, T) \notin Int /\ IsFiniteSet(T)
  BY FS_Subset
<1>3. T # {}
  BY <1>2, SumEmpty
<1>4. SumFunctionOnSet(f, T) = f[Picked(T)] + SumFunctionOnSet(f, Rest(T))
  BY <1>2, <1>3, SumPicked
<1>5. Picked(T) \in S /\ Rest(T) \in SUBSET S /\ Rest(T) \subseteq T /\ Rest(T) # T
  BY <1>2, <1>3, PickedIs
<1>6. SumFunctionOnSet(f, Rest(T)) \in Int
  BY <1>1, <1>5
<1> QED
  BY <1>2, <1>4, <1>5, <1>6 DEF IntegerOn

\* Whichever member is taken away.
LEMMA SumWithout ==
    ASSUME NEW f, NEW S, IsFiniteSet(S), IntegerOn(f, S), NEW x \in S
    PROVE  SumFunctionOnSet(f, S) = f[x] + SumFunctionOnSet(f, S \ {x})
<1> DEFINE B == {T \in SUBSET S : \E y \in T :
                    SumFunctionOnSet(f, T) # f[y] + SumFunctionOnSet(f, T \ {y})}
<1> SUFFICES ASSUME B # {} PROVE FALSE
  OBVIOUS
<1>1. PICK T \in B : \A U \in B : U \subseteq T => U = T
  <2>1. B \in SUBSET (SUBSET S)
    OBVIOUS
  <2> HIDE DEF B
  <2> QED
    BY <2>1, SmallestSubset
<1>2. PICK y \in T : SumFunctionOnSet(f, T) # f[y] + SumFunctionOnSet(f, T \ {y})
  OBVIOUS
<1>3. T \in SUBSET S /\ IsFiniteSet(T)
  BY FS_Subset
<1> DEFINE p == Picked(T)
<1>4. p \in T /\ p \in S /\ y \in S /\ f[p] \in Int /\ f[y] \in Int
  BY <1>2, <1>3, PickedIs DEF IntegerOn
<1>5. SumFunctionOnSet(f, T) = f[p] + SumFunctionOnSet(f, T \ {p})
  BY <1>2, <1>3, SumPicked DEF Rest
<1>6. p # y
  BY <1>2, <1>5
<1> HIDE DEF p
<1>7. ASSUME NEW z \in T PROVE T \ {z} \notin B
  BY <1>1, <1>7
<1>8. SumFunctionOnSet(f, T \ {p}) = f[y] + SumFunctionOnSet(f, (T \ {p}) \ {y})
  <2>1. T \ {p} \notin B /\ y \in T \ {p} /\ T \ {p} \in SUBSET S
    BY <1>2, <1>3, <1>4, <1>6, <1>7
  <2> QED
    BY <2>1
<1>9. SumFunctionOnSet(f, T \ {y}) = f[p] + SumFunctionOnSet(f, (T \ {y}) \ {p})
  <2>1. T \ {y} \notin B /\ p \in T \ {y} /\ T \ {y} \in SUBSET S
    BY <1>2, <1>3, <1>4, <1>6, <1>7
  <2> QED
    BY <2>1
<1>10. (T \ {p}) \ {y} = (T \ {y}) \ {p}
  OBVIOUS
<1>11. SumFunctionOnSet(f, (T \ {p}) \ {y}) \in Int
  <2>1. IsFiniteSet((T \ {p}) \ {y}) /\ IntegerOn(f, (T \ {p}) \ {y})
    BY <1>3, FS_Subset DEF IntegerOn
  <2> QED
    BY <2>1, SumType
<1>12. PICK r \in Int : r = SumFunctionOnSet(f, (T \ {p}) \ {y})
  BY <1>11
<1>13. /\ SumFunctionOnSet(f, T) = f[p] + (f[y] + r)
       /\ SumFunctionOnSet(f, T \ {y}) = f[p] + r
  BY <1>5, <1>8, <1>9, <1>10, <1>12
<1> HIDE DEF B
<1> QED
  BY <1>2, <1>4, <1>13

\* Sums of the same values are the same.
LEMMA SumSame ==
    ASSUME NEW f, NEW g, NEW S, IsFiniteSet(S), \A x \in S : f[x] = g[x]
    PROVE  SumFunctionOnSet(f, S) = SumFunctionOnSet(g, S)
<1> DEFINE B == {T \in SUBSET S : SumFunctionOnSet(f, T) # SumFunctionOnSet(g, T)}
<1> SUFFICES ASSUME B # {} PROVE FALSE
  OBVIOUS
<1>1. PICK T \in B : \A U \in B : U \subseteq T => U = T
  <2>1. B \in SUBSET (SUBSET S)
    OBVIOUS
  <2> HIDE DEF B
  <2> QED
    BY <2>1, SmallestSubset
<1>2. T \in SUBSET S /\ SumFunctionOnSet(f, T) # SumFunctionOnSet(g, T) /\ IsFiniteSet(T)
  BY FS_Subset
<1>3. T # {}
  BY <1>2, SumEmpty
<1>4. /\ SumFunctionOnSet(f, T) = f[Picked(T)] + SumFunctionOnSet(f, Rest(T))
      /\ SumFunctionOnSet(g, T) = g[Picked(T)] + SumFunctionOnSet(g, Rest(T))
  BY <1>2, <1>3, SumPicked
<1>5. Picked(T) \in S /\ Rest(T) \in SUBSET S /\ Rest(T) \subseteq T /\ Rest(T) # T
  BY <1>2, <1>3, PickedIs
<1>6. SumFunctionOnSet(f, Rest(T)) = SumFunctionOnSet(g, Rest(T))
  BY <1>1, <1>5
<1> QED
  BY <1>2, <1>4, <1>5, <1>6

\* The sum of a sum of two functions.
LEMMA SumPlus ==
    ASSUME NEW f, NEW g, NEW h, NEW S, IsFiniteSet(S), IntegerOn(f, S), IntegerOn(g, S),
           \A x \in S : h[x] = f[x] + g[x]
    PROVE  SumFunctionOnSet(h, S) = SumFunctionOnSet(f, S) + SumFunctionOnSet(g, S)
<1> DEFINE B == {T \in SUBSET S :
                    SumFunctionOnSet(h, T) # SumFunctionOnSet(f, T) + SumFunctionOnSet(g, T)}
<1> SUFFICES ASSUME B # {} PROVE FALSE
  OBVIOUS
<1>1. PICK T \in B : \A U \in B : U \subseteq T => U = T
  <2>1. B \in SUBSET (SUBSET S)
    OBVIOUS
  <2> HIDE DEF B
  <2> QED
    BY <2>1, SmallestSubset
<1>2. /\ T \in SUBSET S /\ IsFiniteSet(T)
      /\ SumFunctionOnSet(h, T) # SumFunctionOnSet(f, T) + SumFunctionOnSet(g, T)
  BY FS_Subset
<1>3. T # {}
  BY <1>2, SumEmpty
<1>4. /\ SumFunctionOnSet(f, T) = f[Picked(T)] + SumFunctionOnSet(f, Rest(T))
      /\ SumFunctionOnSet(g, T) = g[Picked(T)] + SumFunctionOnSet(g, Rest(T))
      /\ SumFunctionOnSet(h, T) = h[Picked(T)] + SumFunctionOnSet(h, Rest(T))
  BY <1>2, <1>3, SumPicked
<1>5. Picked(T) \in S /\ Rest(T) \in SUBSET S /\ Rest(T) \subseteq T /\ Rest(T) # T
  BY <1>2, <1>3, PickedIs
<1>6. SumFunctionOnSet(h, Rest(T)) = SumFunctionOnSet(f, Rest(T)) + SumFunctionOnSet(g, Rest(T))
  BY <1>1, <1>5
<1>7. SumFunctionOnSet(f, Rest(T)) \in Int /\ SumFunctionOnSet(g, Rest(T)) \in Int
  <2>1. IsFiniteSet(Rest(T)) /\ IntegerOn(f, Rest(T)) /\ IntegerOn(g, Rest(T))
    BY <1>2, <1>5, FS_Subset DEF IntegerOn
  <2> QED
    BY <2>1, SumType
<1>8. /\ f[Picked(T)] \in Int /\ g[Picked(T)] \in Int
      /\ h[Picked(T)] = f[Picked(T)] + g[Picked(T)]
  BY <1>5 DEF IntegerOn
<1> HIDE DEF B
<1> QED
  BY <1>2, <1>4, <1>6, <1>7, <1>8

\* The sum follows a change of one value.
LEMMA SumChange ==
    ASSUME NEW f, NEW g, NEW S, IsFiniteSet(S), IntegerOn(f, S), IntegerOn(g, S), NEW x \in S,
           \A y \in S \ {x} : g[y] = f[y]
    PROVE  SumFunctionOnSet(g, S) = SumFunctionOnSet(f, S) + g[x] - f[x]
<1>1. IsFiniteSet(S \ {x}) /\ IntegerOn(f, S \ {x})
  BY FS_Subset DEF IntegerOn
<1>2. /\ SumFunctionOnSet(f, S) = f[x] + SumFunctionOnSet(f, S \ {x})
      /\ SumFunctionOnSet(g, S) = g[x] + SumFunctionOnSet(g, S \ {x})
  BY SumWithout
<1>3. SumFunctionOnSet(f, S \ {x}) = SumFunctionOnSet(g, S \ {x})
  BY <1>1, SumSame
<1>4. SumFunctionOnSet(f, S \ {x}) \in Int
  BY <1>1, SumType
<1> QED
  BY <1>2, <1>3, <1>4 DEF IntegerOn

\* Sums of natural numbers: what each of them is no more than, and zero only
\* of zeros.
LEMMA SumNatural ==
    ASSUME NEW f, NEW S, IsFiniteSet(S), \A x \in S : f[x] \in Nat
    PROVE  SumFunctionOnSet(f, S) \in Nat
<1> DEFINE B == {T \in SUBSET S : SumFunctionOnSet(f, T) \notin Nat}
<1> SUFFICES ASSUME B # {} PROVE FALSE
  OBVIOUS
<1>1. PICK T \in B : \A U \in B : U \subseteq T => U = T
  <2>1. B \in SUBSET (SUBSET S)
    OBVIOUS
  <2> HIDE DEF B
  <2> QED
    BY <2>1, SmallestSubset
<1>2. T \in SUBSET S /\ SumFunctionOnSet(f, T) \notin Nat /\ IsFiniteSet(T)
  BY FS_Subset
<1>3. T # {}
  BY <1>2, SumEmpty
<1>4. SumFunctionOnSet(f, T) = f[Picked(T)] + SumFunctionOnSet(f, Rest(T))
  BY <1>2, <1>3, SumPicked
<1>5. Picked(T) \in S /\ Rest(T) \in SUBSET S /\ Rest(T) \subseteq T /\ Rest(T) # T
  BY <1>2, <1>3, PickedIs
<1>6. SumFunctionOnSet(f, Rest(T)) \in Nat
  BY <1>1, <1>5
<1> QED
  BY <1>2, <1>4, <1>5, <1>6

LEMMA SumAtLeast ==
    ASSUME NEW f, NEW S, IsFiniteSet(S), \A x \in S : f[x] \in Nat, NEW x \in S
    PROVE  f[x] <= SumFunctionOnSet(f, S)
<1>1. IsFiniteSet(S \ {x}) /\ \A y \in S \ {x} : f[y] \in Nat
  BY FS_Subset
<1>2. SumFunctionOnSet(f, S \ {x}) \in Nat
  BY <1>1, SumNatural
<1>3. SumFunctionOnSet(f, S) = f[x] + SumFunctionOnSet(f, S \ {x})
  BY SumWithout DEF IntegerOn
<1> QED
  BY <1>2, <1>3

LEMMA SumOfZeros ==
    ASSUME NEW f, NEW S, IsFiniteSet(S), \A x \in S : f[x] = 0
    PROVE  SumFunctionOnSet(f, S) = 0
<1> DEFINE B == {T \in SUBSET S : SumFunctionOnSet(f, T) # 0}
<1> SUFFICES ASSUME B # {} PROVE FALSE
  OBVIOUS
<1>1. PICK T \in B : \A U \in B : U \subseteq T => U = T
  <2>1. B \in SUBSET (SUBSET S)
    OBVIOUS
  <2> HIDE DEF B
  <2> QED
    BY <2>1, SmallestSubset
<1>2. T \in SUBSET S /\ SumFunctionOnSet(f, T) # 0 /\ IsFiniteSet(T)
  BY FS_Subset
<1>3. T # {}
  BY <1>2, SumEmpty
<1>4. SumFunctionOnSet(f, T) = f[Picked(T)] + SumFunctionOnSet(f, Rest(T))
  BY <1>2, <1>3, SumPicked
<1>5. Picked(T) \in S /\ Rest(T) \in SUBSET S /\ Rest(T) \subseteq T /\ Rest(T) # T
  BY <1>2, <1>3, PickedIs
<1>6. SumFunctionOnSet(f, Rest(T)) = 0
  BY <1>1, <1>5
<1> QED
  BY <1>2, <1>4, <1>5, <1>6

-----------------------------------------------------------------------------
(* The invariant. *)

\* No part of a deposit is negative, and orders that are not open hold none.
PartsHeld ==
    \A d \in Deposits, o \in Orders :
        /\ Portion(d, o) >= 0
        /\ Portion(d, o) > 0 => IsOpen(o)

\* Nothing was done with a deposit that was not recorded.
NothingBefore ==
    \A d \in Deposits : ~Known(d) =>
        /\ ~deposits[d].voided /\ ~deposits[d].whole
        /\ \A o \in Orders : given[d][o] = 0 /\ applied[d][o] = 0
        /\ \A o, p \in Orders : moved[d][o][p] = 0

\* A part becomes a payment when its order is delivered.
AppliedAtDelivery ==
    \A d \in Deposits, o \in Orders : applied[d][o] > 0 => orders[o].status = "delivered"

\* A deposit that was voided, or is one payment, has no part left.
NothingLeft ==
    \A d \in Deposits :
        /\ deposits[d].voided \/ deposits[d].whole => \A o \in Orders : Portion(d, o) = 0
        /\ deposits[d].voided => \A o \in Orders : applied[d][o] = 0
        /\ deposits[d].whole /\ ~deposits[d].voided =>
              SumFunction(applied[d]) = deposits[d].amount

IInv ==
    /\ RowsOK /\ PartsHeld /\ NothingBefore /\ AppliedAtDelivery /\ NothingLeft
    /\ HeldWithinOrder /\ HeldForPayer

-----------------------------------------------------------------------------
(* What is held.                                                           *)

In(d, o) == SumFunction([p \in Orders |-> moved[d][p][o]])
Out(d, o) == SumFunction(moved[d][o])
PaidHere(d, o) ==
    IF deposits[d].recorded /\ deposits[d].order = o /\ ~deposits[d].voided THEN deposits[d].amount ELSE 0

LEMMA PortionIs ==
    ASSUME NEW d, NEW o
    PROVE  Portion(d, o) = PaidHere(d, o) + In(d, o) - Out(d, o) - given[d][o] - applied[d][o]
  BY DEF Portion, PaidHere, In, Out

LEMMA SumFunctionIs ==
    ASSUME NEW S, NEW f, DOMAIN f = S
    PROVE  SumFunction(f) = SumFunctionOnSet(f, S)
  BY DEF SumFunction

LEMMA RowTypes ==
    ASSUME RowsOK, NEW d \in Deposits, NEW o \in Orders
    PROVE  /\ orders[o] \in OrderRecord /\ deposits[d] \in DepositRecord
           /\ orders[o].total \in Nat /\ deposits[d].amount \in Nat
           /\ orders[o].buyer \in Buyers /\ deposits[d].payer \in Buyers
           /\ deposits[d].recorded \in BOOLEAN /\ deposits[d].voided \in BOOLEAN
           /\ deposits[d].whole \in BOOLEAN
           /\ given[d][o] \in Nat /\ applied[d][o] \in Nat
           /\ \A p \in Orders : moved[d][p][o] \in Nat /\ moved[d][o][p] \in Nat
  BY DEF RowsOK, OrderRecord, DepositRecord

LEMMA SumsTypes ==
    ASSUME RowsOK, NEW d \in Deposits, NEW o \in Orders
    PROVE  In(d, o) \in Nat /\ Out(d, o) \in Nat /\ Portion(d, o) \in Int
<1> DEFINE i == [p \in Orders |-> moved[d][p][o]]
           u == moved[d][o]
<1>1. /\ (\A p \in Orders : i[p] \in Nat) /\ (\A p \in Orders : u[p] \in Nat)
      /\ DOMAIN u = Orders /\ DOMAIN i = Orders
  BY RowTypes DEF RowsOK
<1>2. In(d, o) = SumFunctionOnSet(i, Orders) /\ Out(d, o) = SumFunctionOnSet(u, Orders)
  <2>1. In(d, o) = SumFunction(i) /\ Out(d, o) = SumFunction(u)
    BY DEF In, Out
  <2> HIDE DEF i, u
  <2> QED
    BY <1>1, <2>1, SumFunctionIs
<1> HIDE DEF i, u
<1>3. In(d, o) \in Nat /\ Out(d, o) \in Nat
  BY <1>1, <1>2, SumNatural, RowsAssumption
<1>4. PaidHere(d, o) \in Nat /\ given[d][o] \in Nat /\ applied[d][o] \in Nat
  BY RowTypes DEF PaidHere
<1> QED
  BY <1>3, <1>4, PortionIs

\* What an order holds, one deposit more or less.
LEMMA HeldIs ==
    ASSUME NEW o
    PROVE  Held(o) = SumFunctionOnSet([d \in Deposits |-> Portion(d, o)], Deposits)
  BY SumFunctionIs DEF Held

LEMMA HeldTypes ==
    ASSUME RowsOK, PartsHeld, NEW o \in Orders
    PROVE  /\ Held(o) \in Nat /\ \A d \in Deposits : Portion(d, o) \in Nat /\ Portion(d, o) <= Held(o)
<1> DEFINE f == [d \in Deposits |-> Portion(d, o)]
<1>1. \A d \in Deposits : f[d] = Portion(d, o) /\ f[d] \in Nat
  BY SumsTypes DEF PartsHeld
<1>2. Held(o) = SumFunctionOnSet(f, Deposits)
  BY HeldIs
<1> HIDE DEF f
<1>3. SumFunctionOnSet(f, Deposits) \in Nat
  BY <1>1, SumNatural, RowsAssumption
<1>4. ASSUME NEW d \in Deposits PROVE f[d] <= SumFunctionOnSet(f, Deposits)
  BY <1>1, SumAtLeast, RowsAssumption
<1> QED
  BY <1>1, <1>2, <1>3, <1>4

-----------------------------------------------------------------------------
(* Steps that leave the deposits as they are.                              *)

LEMMA PortionsSame ==
    ASSUME UNCHANGED <<deposits, given, moved, applied>>, NEW d, NEW o
    PROVE  Portion(d, o)' = Portion(d, o)
<1>1. deposits' = deposits /\ given' = given /\ moved' = moved /\ applied' = applied
  OBVIOUS
<1> QED
  BY <1>1 DEF Portion

\* One order becomes another that may hold what it holds.
LEMMA OrderStep ==
    ASSUME IInv, UNCHANGED <<deposits, given, moved, applied>>, NEW o \in Orders,
           orders' \in [Orders -> OrderRecord], \A p \in Orders \ {o} : orders'[p] = orders[p],
           Held(o) > 0 => /\ orders'[o].status = "open" /\ orders'[o].buyer = orders[o].buyer
                          /\ Held(o) <= orders'[o].total,
           orders[o].status = "delivered" => orders'[o] = orders[o],
           taken' \in SUBSET (Deposits \X Orders), claims' \in [Deposits -> Holders]
    PROVE  IInv'
<1>1. deposits' = deposits /\ given' = given /\ moved' = moved /\ applied' = applied
  OBVIOUS
<1>2. RowsOK'
  BY <1>1 DEF IInv, RowsOK
<1>3. \A d, p : Portion(d, p)' = Portion(d, p)
  BY PortionsSame
<1>4. \A p : Held(p)' = Held(p)
  BY <1>3 DEF Held
<1>5. \A p \in Orders : Held(p) \in Nat /\ \A d \in Deposits : Portion(d, p) \in Nat /\ Portion(d, p) <= Held(p)
  BY HeldTypes DEF IInv
<1>6. PartsHeld'
  BY <1>3, <1>5 DEF IInv, PartsHeld, IsOpen
<1>7. NothingBefore' /\ NothingLeft'
  BY <1>1, <1>3 DEF IInv, NothingBefore, Known, NothingLeft
<1>8. AppliedAtDelivery'
  BY <1>1 DEF IInv, AppliedAtDelivery
<1>9. HeldWithinOrder'
  <2>1. ASSUME NEW p \in Orders PROVE Held(p) <= IF orders'[p].status = "open" THEN orders'[p].total ELSE 0
    <3>1. CASE p # o
      BY <2>1, <3>1 DEF IInv, HeldWithinOrder, IsOpen
    <3>2. CASE p = o
      <4>1. orders'[o].total \in Nat
        BY DEF OrderRecord
      <4> QED
        BY <1>5, <3>2, <4>1
    <3> QED
      BY <3>1, <3>2
  <2> QED
    BY <1>4, <2>1 DEF HeldWithinOrder, IsOpen
<1>10. HeldForPayer'
  <2>1. ASSUME NEW d \in Deposits, NEW p \in Orders, Portion(d, p) > 0 \/ applied[d][p] > 0
        PROVE  orders'[p].buyer = deposits[d].payer
    <3>1. orders[p].buyer = deposits[d].payer
      BY <2>1 DEF IInv, HeldForPayer
    <3>2. CASE p = o /\ applied[d][p] > 0
      BY <3>1, <3>2 DEF IInv, AppliedAtDelivery
    <3>3. CASE p = o /\ Portion(d, p) > 0
      <4>1. Held(o) > 0
        BY <1>5, <3>3
      <4> QED
        BY <3>1, <3>3, <4>1
    <3> QED
      BY <2>1, <3>1, <3>2, <3>3
  <2> QED
    BY <1>1, <1>3, <2>1 DEF HeldForPayer
<1> QED
  BY <1>2, <1>6, <1>7, <1>8, <1>9, <1>10 DEF IInv

\* An order nobody placed yet holds nothing.
LEMMA ClosedHoldsNothing ==
    ASSUME IInv, NEW o \in Orders, ~IsOpen(o)
    PROVE  Held(o) = 0 /\ \A d \in Deposits : Portion(d, o) = 0
<1>1. Held(o) \in Nat /\ \A d \in Deposits : Portion(d, o) \in Nat /\ Portion(d, o) <= Held(o)
  BY HeldTypes DEF IInv
<1>2. Held(o) <= 0
  BY DEF IInv, HeldWithinOrder
<1> QED
  BY <1>1, <1>2

LEMMA OrderTypes == ASSUME IInv PROVE orders \in [Orders -> OrderRecord] /\ claims \in [Deposits -> Holders]
                                      /\ taken \in SUBSET (Deposits \X Orders)
  BY DEF IInv, RowsOK

LEMMA CreateSafe ==
    ASSUME IInv, NEW o \in Orders, NEW b \in Buyers, NEW t \in Totals, create_buyer_order(o, b, t)
    PROVE  IInv'
<1>1. /\ orders[o].status = "none"
      /\ orders' = [orders EXCEPT ![o] = [status |-> "open", buyer |-> b, total |-> t]]
      /\ UNCHANGED <<deposits, given, moved, applied>> /\ UNCHANGED <<taken, claims>>
  BY DEF create_buyer_order, CreateOrder
<1>2. /\ orders' \in [Orders -> OrderRecord] /\ \A p \in Orders \ {o} : orders'[p] = orders[p]
      /\ taken' \in SUBSET (Deposits \X Orders) /\ claims' \in [Deposits -> Holders]
  BY <1>1, OrderTypes, SizesAssumption DEF OrderRecord, Totals
<1>3. Held(o) = 0
  BY <1>1, ClosedHoldsNothing DEF IsOpen
<1> QED
  BY <1>1, <1>2, <1>3, OrderStep

LEMMA UpdateSafe ==
    ASSUME IInv, NEW o \in Orders, NEW b \in Buyers, NEW t \in Totals, update_buyer_order(o, b, t)
    PROVE  IInv'
<1>1. /\ orders[o].status = "open" /\ (Held(o) > 0 => b = orders[o].buyer) /\ t >= Held(o)
      /\ orders' = [orders EXCEPT ![o].buyer = b, ![o].total = t]
      /\ UNCHANGED <<deposits, given, moved, applied>> /\ UNCHANGED <<taken, claims>>
  BY DEF update_buyer_order, IsOpen
<1>2. /\ orders' \in [Orders -> OrderRecord] /\ \A p \in Orders \ {o} : orders'[p] = orders[p]
      /\ orders'[o].status = "open" /\ orders'[o].buyer = b /\ orders'[o].total = t
      /\ taken' \in SUBSET (Deposits \X Orders) /\ claims' \in [Deposits -> Holders]
  <2>1. orders[o] \in OrderRecord /\ t \in Nat
    BY OrderTypes, SizesAssumption DEF Totals
  <2> DEFINE row == [orders[o] EXCEPT !.buyer = b, !.total = t]
  <2>2. row \in OrderRecord /\ row.status = orders[o].status /\ row.buyer = b /\ row.total = t
    BY <2>1 DEF OrderRecord
  <2>3. orders' = [orders EXCEPT ![o] = row]
    BY <1>1, OrderTypes
  <2> HIDE DEF row
  <2> QED
    BY <1>1, <2>2, <2>3, OrderTypes
<1>3. Held(o) \in Nat /\ t \in Nat
  BY HeldTypes, SizesAssumption DEF IInv, Totals
<1> QED
  BY <1>1, <1>2, <1>3, OrderStep

LEMMA CancelSafe ==
    ASSUME IInv, NEW o \in Orders, cancel_buyer_order(o)
    PROVE  IInv'
<1>1. /\ orders[o].status = "open" /\ Held(o) = 0
      /\ orders' = [orders EXCEPT ![o].status = "cancelled"]
      /\ UNCHANGED <<deposits, given, moved, applied>> /\ UNCHANGED <<taken, claims>>
  BY DEF cancel_buyer_order, IsOpen
<1>2. /\ orders' \in [Orders -> OrderRecord] /\ \A p \in Orders \ {o} : orders'[p] = orders[p]
      /\ taken' \in SUBSET (Deposits \X Orders) /\ claims' \in [Deposits -> Holders]
  BY <1>1, OrderTypes DEF OrderRecord
<1> QED
  BY <1>1, <1>2, OrderStep

LEMMA ReverseSafe ==
    ASSUME IInv, NEW o \in Orders, NEW d \in Deposits, reverse_payment(d, o)
    PROVE  IInv'
<1>1. /\ taken' = taken \cup {<<d, o>>}
      /\ claims' = [claims EXCEPT ![d] = IF @ = "payment" THEN "nobody" ELSE @]
      /\ UNCHANGED <<deposits, given, moved, applied>> /\ orders' = orders
  BY DEF reverse_payment
<1>2. /\ taken' \in SUBSET (Deposits \X Orders) /\ claims' \in [Deposits -> Holders]
      /\ orders' \in [Orders -> OrderRecord] /\ \A p \in Orders \ {o} : orders'[p] = orders[p]
  BY <1>1, OrderTypes DEF Holders
<1>3. Held(o) > 0 => orders'[o].status = "open" /\ Held(o) <= orders'[o].total
  BY <1>1, ClosedHoldsNothing DEF IInv, HeldWithinOrder, IsOpen
<1> QED
  BY <1>1, <1>2, <1>3, OrderStep

-----------------------------------------------------------------------------
(* Deposits.                                                               *)

\* Nothing of a deposit is anywhere but where it was paid, when nothing was
\* moved or given back.
LEMMA UntouchedParts ==
    ASSUME RowsOK, NEW d \in Deposits, \A o, p \in Orders : moved[d][o][p] = 0, NEW o \in Orders
    PROVE  In(d, o) = 0 /\ Out(d, o) = 0
<1> DEFINE i == [p \in Orders |-> moved[d][p][o]]
           u == moved[d][o]
<1>1. /\ DOMAIN i = Orders /\ DOMAIN u = Orders
      /\ \A p \in Orders : i[p] = 0 /\ u[p] = 0
  BY DEF RowsOK
<1>2. In(d, o) = SumFunction(i) /\ Out(d, o) = SumFunction(u)
  BY DEF In, Out
<1> HIDE DEF i, u
<1>3. SumFunctionOnSet(i, Orders) = 0 /\ SumFunctionOnSet(u, Orders) = 0
  BY <1>1, SumOfZeros, RowsAssumption
<1> QED
  BY <1>1, <1>2, <1>3, SumFunctionIs

\* An order holds what one of its deposits has more.
LEMMA HeldChanges ==
    ASSUME RowsOK, NEW o \in Orders, NEW d \in Deposits, NEW x \in Int, Portion(d, o)' = Portion(d, o) + x,
           \A c \in Deposits \ {d} : Portion(c, o)' = Portion(c, o)
    PROVE  Held(o)' = Held(o) + x
<1>1. PICK f : f = [c \in Deposits |-> Portion(c, o)]
  OBVIOUS
<1>2. PICK g : g = [c \in Deposits |-> Portion(c, o)']
  OBVIOUS
<1>3. Held(o) = SumFunctionOnSet(f, Deposits)
  BY <1>1, SumFunctionIs DEF Held
<1>4. Held(o)' = SumFunctionOnSet(g, Deposits)
  <2>1. Held(o)' = SumFunction(g)
    BY <1>2 DEF Held
  <2> QED
    BY <1>2, <2>1, SumFunctionIs
<1>5. \A c \in Deposits : f[c] \in Int /\ g[c] \in Int
  BY <1>1, <1>2, SumsTypes
<1>6. g[d] = f[d] + x /\ \A c \in Deposits \ {d} : g[c] = f[c]
  BY <1>1, <1>2
<1>7. SumFunctionOnSet(g, Deposits) = SumFunctionOnSet(f, Deposits) + g[d] - f[d]
  BY <1>5, <1>6, SumChange, RowsAssumption DEF IntegerOn
<1>8. SumFunctionOnSet(f, Deposits) \in Int
  BY <1>5, SumType, RowsAssumption DEF IntegerOn
<1> QED
  BY <1>3, <1>4, <1>5, <1>6, <1>7, <1>8

LEMMA TakeStep ==
    ASSUME IInv, NEW o \in Orders, NEW d \in Deposits, NEW a \in Nat \ {0}, NEW buyer \in Buyers,
           NEW total \in Nat, ~Known(d), a + Held(o) <= total,
           deposits' = [deposits EXCEPT ![d] = [recorded |-> TRUE, order |-> o, payer |-> buyer, amount |-> a,
                                                voided |-> FALSE, whole |-> FALSE]],
           claims' = [claims EXCEPT ![d] = "deposit"], UNCHANGED <<given, moved, applied, taken>>,
           orders' \in [Orders -> OrderRecord], \A p \in Orders \ {o} : orders'[p] = orders[p],
           orders'[o].status = "open", orders'[o].buyer = buyer, orders'[o].total = total,
           Held(o) > 0 => orders[o].buyer = buyer, orders[o].status # "delivered"
    PROVE  IInv'
<1>1. /\ given' = given /\ moved' = moved /\ applied' = applied /\ taken' = taken
      /\ RowsOK
  BY DEF IInv
<1>2. RowsOK'
  BY <1>1 DEF RowsOK, DepositRecord, Holders
<1>3. /\ deposits'[d] = [recorded |-> TRUE, order |-> o, payer |-> buyer, amount |-> a,
                         voided |-> FALSE, whole |-> FALSE]
      /\ \A c \in Deposits \ {d} : deposits'[c] = deposits[c]
  BY <1>1 DEF RowsOK
<1>4. /\ \A p \in Orders : given[d][p] = 0 /\ applied[d][p] = 0 /\ \A q \in Orders : moved[d][p][q] = 0
      /\ ~deposits[d].voided /\ ~deposits[d].whole
  BY DEF IInv, NothingBefore
<1>5. ASSUME NEW p \in Orders PROVE In(d, p) = 0 /\ Out(d, p) = 0
  BY <1>1, <1>4, UntouchedParts
<1>6. ASSUME NEW p \in Orders
      PROVE  Portion(d, p) = 0 /\ Portion(d, p)' = IF p = o THEN a ELSE 0
  <2>1. In(d, p)' = 0 /\ Out(d, p)' = 0
    BY <1>1, <1>5 DEF In, Out
  <2>2. PaidHere(d, p) = 0 /\ PaidHere(d, p)' = IF p = o THEN a ELSE 0
    BY <1>3 DEF PaidHere, Known
  <2>3. Portion(d, p)' = PaidHere(d, p)' + In(d, p)' - Out(d, p)' - given'[d][p] - applied'[d][p]
    BY DEF Portion, PaidHere, In, Out
  <2> QED
    BY <1>1, <1>4, <1>5, <2>1, <2>2, <2>3, PortionIs
<1>7. ASSUME NEW c \in Deposits \ {d}, NEW p \in Orders PROVE Portion(c, p)' = Portion(c, p)
  BY <1>1, <1>3 DEF Portion
<1>8. Held(o)' = Held(o) + a
  <2>1. Portion(d, o)' = Portion(d, o) + a
    BY <1>6
  <2> QED
    BY <1>1, <1>7, <2>1, HeldChanges
<1>9. ASSUME NEW p \in Orders, p # o PROVE Held(p)' = Held(p)
  <2>1. \A c \in Deposits : Portion(c, p)' = Portion(c, p)
    BY <1>6, <1>7, <1>9
  <2> QED
    BY <2>1 DEF Held
<1>10. \A p \in Orders : Held(p) \in Nat /\ \A c \in Deposits : Portion(c, p) \in Nat /\ Portion(c, p) <= Held(p)
  BY HeldTypes DEF IInv
<1>11. PartsHeld'
  <2>1. ASSUME NEW c \in Deposits, NEW p \in Orders
        PROVE  Portion(c, p)' >= 0 /\ (Portion(c, p)' > 0 => orders'[p].status = "open")
    <3>1. Portion(c, p) > 0 => orders[p].status = "open"
      BY DEF IInv, PartsHeld, IsOpen
    <3>2. CASE c = d
      BY <1>6, <3>2
    <3>3. CASE c # d
      BY <1>7, <1>10, <3>1, <3>3
    <3> QED
      BY <3>2, <3>3
  <2> QED
    BY <2>1 DEF PartsHeld, IsOpen
<1>12. NothingBefore'
  BY <1>1, <1>3 DEF IInv, NothingBefore, Known
<1>13. AppliedAtDelivery'
  BY <1>1 DEF IInv, AppliedAtDelivery
<1>14. NothingLeft'
  <2>1. ASSUME NEW c \in Deposits, c # d, NEW p \in Orders PROVE Portion(c, p)' = Portion(c, p)
    BY <1>7, <2>1
  <2> QED
    BY <1>1, <1>3, <2>1 DEF IInv, NothingLeft
<1>15. HeldWithinOrder'
  <2>1. ASSUME NEW p \in Orders
        PROVE  Held(p)' <= IF orders'[p].status = "open" THEN orders'[p].total ELSE 0
    <3>1. CASE p = o
      BY <1>8, <1>10, <3>1
    <3>2. CASE p # o
      BY <1>9, <3>2 DEF IInv, HeldWithinOrder, IsOpen
    <3> QED
      BY <3>1, <3>2
  <2> QED
    BY <2>1 DEF HeldWithinOrder, IsOpen
<1>16. HeldForPayer'
  <2>1. ASSUME NEW c \in Deposits, NEW p \in Orders, Portion(c, p)' > 0 \/ applied[c][p] > 0
        PROVE  orders'[p].buyer = deposits'[c].payer
    <3>1. CASE c = d
      BY <1>3, <1>4, <1>6, <2>1, <3>1
    <3>2. CASE c # d
      <4>1. Portion(c, p) > 0 \/ applied[c][p] > 0
        BY <1>7, <2>1, <3>2
      <4>2. orders[p].buyer = deposits[c].payer
        BY <4>1 DEF IInv, HeldForPayer
      <4>3. p = o => Held(o) > 0
        BY <1>10, <4>1 DEF IInv, AppliedAtDelivery
      <4> QED
        BY <1>3, <3>2, <4>2, <4>3
    <3> QED
      BY <3>1, <3>2
  <2> QED
    BY <1>1, <2>1 DEF HeldForPayer
<1> QED
  BY <1>2, <1>11, <1>12, <1>13, <1>14, <1>15, <1>16 DEF IInv


LEMMA TakeTypes ==
    ASSUME NEW t \in Totals, NEW a \in 1..t
    PROVE  t \in Nat /\ a \in Nat \ {0} /\ a <= t
  BY SizesAssumption DEF Totals

LEMMA CreateWithDepositSafe ==
    ASSUME IInv, NEW o \in Orders, NEW b \in Buyers, NEW t \in Totals, NEW d \in Deposits, NEW a \in 1..t,
           create_with_deposit(o, b, t, d, a)
    PROVE  IInv'
<1>1. /\ orders[o].status = "none"
      /\ orders' = [orders EXCEPT ![o] = [status |-> "open", buyer |-> b, total |-> t]]
      /\ ~Known(d)
      /\ deposits' = [deposits EXCEPT ![d] = [recorded |-> TRUE, order |-> o, payer |-> b, amount |-> a,
                                              voided |-> FALSE, whole |-> FALSE]]
      /\ claims' = [claims EXCEPT ![d] = "deposit"] /\ UNCHANGED <<given, moved, applied, taken>>
  BY DEF create_with_deposit, CreateOrder, TakeDeposit
<1>2. t \in Nat /\ a \in Nat \ {0} /\ a <= t
  BY TakeTypes
<1>3. /\ orders' \in [Orders -> OrderRecord] /\ \A p \in Orders \ {o} : orders'[p] = orders[p]
      /\ orders'[o].status = "open" /\ orders'[o].buyer = b /\ orders'[o].total = t
  BY <1>1, <1>2, OrderTypes DEF OrderRecord
<1>4. Held(o) = 0
  BY <1>1, ClosedHoldsNothing DEF IsOpen
<1>5. a + Held(o) <= t /\ ~ (Held(o) > 0) /\ orders[o].status # "delivered"
  BY <1>1, <1>2, <1>4
<1> QED
  BY <1>1, <1>2, <1>3, <1>5, TakeStep

LEMMA RecordSafe ==
    ASSUME IInv, NEW o \in Orders, NEW d \in Deposits, NEW a \in Totals, record_deposit(o, d, a)
    PROVE  IInv'
<1> DEFINE b == orders[o].buyer
           t == orders[o].total
<1>1. /\ orders[o].status = "open" /\ orders' = orders
      /\ ~Known(d) /\ a + Held(o) <= t
      /\ deposits' = [deposits EXCEPT ![d] = [recorded |-> TRUE, order |-> o, payer |-> b, amount |-> a,
                                              voided |-> FALSE, whole |-> FALSE]]
      /\ claims' = [claims EXCEPT ![d] = "deposit"] /\ UNCHANGED <<given, moved, applied, taken>>
  BY DEF record_deposit, TakeDeposit, IsOpen
<1>2. t \in Nat /\ a \in Nat \ {0} /\ b \in Buyers
  BY RowTypes, SizesAssumption DEF IInv, Totals
<1>3. /\ orders' \in [Orders -> OrderRecord] /\ \A p \in Orders \ {o} : orders'[p] = orders[p]
      /\ orders'[o].status = "open" /\ orders'[o].buyer = b /\ orders'[o].total = t
      /\ orders[o].buyer = b /\ orders[o].status # "delivered"
  BY <1>1, OrderTypes
<1> HIDE DEF b, t
<1> QED
  BY <1>1, <1>2, <1>3, TakeStep

\* One recorded deposit's parts change, and no order.
LEMMA PartsStep ==
    ASSUME IInv, RowsOK', orders' = orders, applied' = applied, NEW d \in Deposits, Known(d),
           \A c \in Deposits \ {d} : deposits'[c] = deposits[c] /\ given'[c] = given[c] /\ moved'[c] = moved[c],
           deposits'[d].recorded, deposits'[d].payer = deposits[d].payer,
           deposits'[d].amount = deposits[d].amount, deposits'[d].whole = deposits[d].whole,
           \A p \in Orders : /\ Portion(d, p)' >= 0
                             /\ Portion(d, p)' > 0 => IsOpen(p) /\ orders[p].buyer = deposits[d].payer,
           \A p \in Orders : Held(p)' <= IF IsOpen(p) THEN orders[p].total ELSE 0,
           deposits'[d].voided => \A p \in Orders : applied[d][p] = 0,
           deposits'[d].voided \/ deposits[d].whole => \A p \in Orders : Portion(d, p)' = 0,
           deposits[d].voided => deposits'[d].voided
    PROVE  IInv'
<1>1. ASSUME NEW c \in Deposits, c # d, NEW p \in Orders PROVE Portion(c, p)' = Portion(c, p)
  BY <1>1 DEF Portion
<1>2. PartsHeld'
  BY <1>1 DEF IInv, PartsHeld, IsOpen
<1>3. NothingBefore'
  BY DEF IInv, NothingBefore, Known
<1>4. AppliedAtDelivery'
  BY DEF IInv, AppliedAtDelivery
<1>5. NothingLeft'
  BY <1>1 DEF IInv, NothingLeft
<1>6. HeldWithinOrder'
  BY DEF HeldWithinOrder, IsOpen
<1>7. HeldForPayer'
  BY <1>1 DEF IInv, HeldForPayer
<1> QED
  BY <1>2, <1>3, <1>4, <1>5, <1>6, <1>7 DEF IInv


\* What is held on an order, of a deposit someone means to use.
LEMMA RelatedIs ==
    ASSUME IInv, NEW o \in Orders, NEW d \in Deposits, Related(d, o)
    PROVE  /\ Known(d) /\ ~deposits[d].voided /\ ~deposits[d].whole
           /\ Portion(d, o) \in Nat /\ Portion(d, o) > 0 /\ IsOpen(o)
           /\ orders[o].buyer = deposits[d].payer
<1>1. Known(d) /\ Portion(d, o) > 0
  BY DEF Related
<1>2. Portion(d, o) \in Nat
  BY HeldTypes DEF IInv
<1>3. IsOpen(o) /\ orders[o].buyer = deposits[d].payer
  BY <1>1 DEF IInv, PartsHeld, HeldForPayer
<1>4. ~deposits[d].voided /\ ~deposits[d].whole
  BY <1>1 DEF IInv, NothingLeft
<1> QED
  BY <1>1, <1>2, <1>3, <1>4

LEMMA RefundSafe ==
    ASSUME IInv, NEW o \in Orders, NEW d \in Deposits, NEW a \in Totals, refund_deposit(o, d, a)
    PROVE  IInv'
<1>1. /\ Related(d, o) /\ a <= Portion(d, o) /\ given' = [given EXCEPT ![d][o] = @ + a]
      /\ orders' = orders /\ deposits' = deposits /\ moved' = moved /\ applied' = applied
      /\ taken' = taken /\ claims' = claims
  BY DEF refund_deposit
<1>2. a \in Nat /\ RowsOK
  BY SizesAssumption DEF Totals, IInv
<1>3. /\ given' \in [Deposits -> [Orders -> Nat]] /\ given'[d][o] = given[d][o] + a
      /\ \A c \in Deposits \ {d} : given'[c] = given[c]
      /\ \A p \in Orders \ {o} : given'[d][p] = given[d][p]
  BY <1>1, <1>2 DEF RowsOK
<1>4. RowsOK'
  BY <1>1, <1>2, <1>3 DEF RowsOK
<1>5. ASSUME NEW p \in Orders PROVE Portion(d, p)' = IF p = o THEN Portion(d, p) - a ELSE Portion(d, p)
  <2>1. PaidHere(d, p)' = PaidHere(d, p) /\ In(d, p)' = In(d, p) /\ Out(d, p)' = Out(d, p)
    BY <1>1 DEF PaidHere, In, Out
  <2>2. Portion(d, p)' = PaidHere(d, p)' + In(d, p)' - Out(d, p)' - given'[d][p] - applied'[d][p]
    BY DEF Portion, PaidHere, In, Out
  <2>3. In(d, p) \in Nat /\ Out(d, p) \in Nat /\ given[d][p] \in Nat /\ applied[d][p] \in Nat
        /\ PaidHere(d, p) \in Nat
    BY <1>2, SumsTypes, RowTypes DEF PaidHere
  <2> QED
    BY <1>1, <1>2, <1>3, <2>1, <2>2, <2>3, PortionIs
<1>6. ASSUME NEW c \in Deposits \ {d}, NEW p \in Orders PROVE Portion(c, p)' = Portion(c, p)
  BY <1>1, <1>3 DEF Portion
<1>7. ASSUME NEW p \in Orders PROVE Held(p)' = IF p = o THEN Held(p) - a ELSE Held(p)
  <2>1. Portion(d, p) \in Nat /\ Held(p) \in Nat
    BY HeldTypes DEF IInv
  <2>2. PICK x \in Int : x = IF p = o THEN -a ELSE 0
    BY <1>2
  <2>3. Portion(d, p)' = Portion(d, p) + x
    BY <1>2, <1>5, <2>1, <2>2
  <2>4. Held(p)' = Held(p) + x
    BY <1>2, <1>6, <2>3, HeldChanges
  <2> QED
    BY <1>2, <2>1, <2>2, <2>4
<1>8. ASSUME NEW p \in Orders
      PROVE  /\ Portion(d, p)' >= 0
             /\ Portion(d, p)' > 0 => IsOpen(p) /\ orders[p].buyer = deposits[d].payer
             /\ Held(p)' <= IF IsOpen(p) THEN orders[p].total ELSE 0
  <2>1. Portion(d, p) \in Nat /\ Held(p) \in Nat
    BY HeldTypes DEF IInv
  <2>2. Portion(d, p) > 0 => IsOpen(p) /\ orders[p].buyer = deposits[d].payer
    BY DEF IInv, PartsHeld, HeldForPayer
  <2>3. Held(p) <= IF IsOpen(p) THEN orders[p].total ELSE 0
    BY DEF IInv, HeldWithinOrder
  <2>4. orders[p].total \in Nat
    BY <1>2, RowTypes
  <2> QED
    BY <1>1, <1>2, <1>5, <1>7, <2>1, <2>2, <2>3, <2>4
<1>9. Known(d) /\ ~deposits[d].voided /\ ~deposits[d].whole
  BY <1>1, RelatedIs
<1>10. deposits'[d].recorded
  BY <1>1, <1>9 DEF Known
<1> QED
  BY <1>1, <1>3, <1>4, <1>8, <1>9, <1>10, PartsStep

LEMMA VoidSafe ==
    ASSUME IInv, NEW o \in Orders, NEW d \in Deposits, void_deposit(o, d)
    PROVE  IInv'
<1>1. /\ Related(d, o) /\ deposits[d].order = o /\ Portion(d, o) = deposits[d].amount
      /\ \A p, q \in Orders : moved[d][p][q] = 0
      /\ \A p \in Orders : given[d][p] = 0
      /\ deposits' = [deposits EXCEPT ![d].voided = TRUE] /\ claims' = [claims EXCEPT ![d] = "nobody"]
      /\ orders' = orders /\ given' = given /\ moved' = moved /\ applied' = applied /\ taken' = taken
  BY DEF void_deposit, Untouched
<1>2. RowsOK /\ deposits[d] \in DepositRecord
  BY RowTypes DEF IInv
<1>3. /\ deposits'[d] = [deposits[d] EXCEPT !.voided = TRUE]
      /\ \A c \in Deposits \ {d} : deposits'[c] = deposits[c]
  BY <1>1, <1>2 DEF RowsOK
<1>4. /\ deposits'[d].recorded = deposits[d].recorded /\ deposits'[d].payer = deposits[d].payer
      /\ deposits'[d].amount = deposits[d].amount /\ deposits'[d].whole = deposits[d].whole
      /\ deposits'[d].voided /\ deposits'[d] \in DepositRecord
  BY <1>2, <1>3 DEF DepositRecord
<1>5. RowsOK'
  BY <1>1, <1>2, <1>3, <1>4 DEF RowsOK, Holders
<1>6. Known(d) /\ ~deposits[d].voided /\ ~deposits[d].whole
  BY <1>1, RelatedIs
<1>7. ASSUME NEW p \in Orders PROVE applied[d][p] = 0 /\ Portion(d, p)' = 0 /\ Portion(d, p) \in Nat
  <2>1. In(d, p) = 0 /\ Out(d, p) = 0
    BY <1>1, <1>2, UntouchedParts
  <2>2. In(d, p)' = 0 /\ Out(d, p)' = 0 /\ PaidHere(d, p)' = 0
    BY <1>1, <1>4, <2>1 DEF In, Out, PaidHere
  <2>3. Portion(d, p)' = PaidHere(d, p)' + In(d, p)' - Out(d, p)' - given'[d][p] - applied'[d][p]
    BY DEF Portion, PaidHere, In, Out
  <2>4. Portion(d, p) \in Nat /\ applied[d][p] \in Nat /\ deposits[d].amount \in Nat
    BY HeldTypes, RowTypes DEF IInv
  <2>5. applied[d][p] = 0
    <3>3. PaidHere(d, p) \in Nat
      BY <2>4 DEF PaidHere
    <3>1. Portion(d, p) = PaidHere(d, p) - applied[d][p]
      BY <1>1, <2>1, <2>4, <3>3, PortionIs
    <3>2. PaidHere(d, p) = IF p = o THEN deposits[d].amount ELSE 0
      BY <1>1, <1>6 DEF PaidHere, Known
    <3> QED
      BY <1>1, <2>4, <3>1, <3>2
  <2> QED
    BY <1>1, <2>2, <2>3, <2>4, <2>5
<1>8. ASSUME NEW c \in Deposits \ {d}, NEW p \in Orders PROVE Portion(c, p)' = Portion(c, p)
  BY <1>1, <1>3 DEF Portion
<1>9. ASSUME NEW p \in Orders PROVE Held(p)' <= IF IsOpen(p) THEN orders[p].total ELSE 0
  <2>1. Portion(d, p) \in Nat /\ Held(p) \in Nat /\ orders[p].total \in Nat
    BY HeldTypes, RowTypes DEF IInv
  <2>2. PICK x \in Int : x = - Portion(d, p)
    BY <2>1
  <2>3. Portion(d, p)' = Portion(d, p) + x
    BY <1>7, <2>1, <2>2
  <2>4. Held(p)' = Held(p) + x
    BY <1>2, <1>8, <2>3, HeldChanges
  <2>5. Held(p) <= IF IsOpen(p) THEN orders[p].total ELSE 0
    BY DEF IInv, HeldWithinOrder
  <2> QED
    BY <2>1, <2>2, <2>4, <2>5
<1>10. deposits'[d].recorded
  BY <1>4, <1>6 DEF Known
<1>11. \A p \in Orders : Portion(d, p)' = 0 /\ Portion(d, p)' >= 0 /\ ~ (Portion(d, p)' > 0)
  BY <1>7
<1> QED
  BY <1>1, <1>3, <1>4, <1>5, <1>6, <1>7, <1>9, <1>10, <1>11, PartsStep


\* A part goes from one order to another: the sums of what left the one and of
\* what came to the other grow.
PartMoves(d, o, p, a) == moved' = [moved EXCEPT ![d][o][p] = @ + a]
SumsMove(d, o, p, a) ==
    /\ \A q \in Orders : Out(d, q)' = IF q = o THEN Out(d, q) + a ELSE Out(d, q)
    /\ \A q \in Orders : In(d, q)' = IF q = p THEN In(d, q) + a ELSE In(d, q)
LEMMA MoveSums ==
    ASSUME RowsOK, NEW d \in Deposits, NEW o \in Orders, NEW p \in Orders, o # p, NEW a \in Nat,
           PartMoves(d, o, p, a)
    PROVE  SumsMove(d, o, p, a)
<1>1. /\ \A q \in Orders \ {o} : moved'[d][q] = moved[d][q]
      /\ \A q \in Orders \ {p} : moved'[d][o][q] = moved[d][o][q]
      /\ moved'[d][o][p] = moved[d][o][p] + a
      /\ moved'[d][o] \in [Orders -> Nat] /\ moved[d][o] \in [Orders -> Nat]
      /\ \A q, r \in Orders : moved[d][q][r] \in Nat /\ moved'[d][q][r] \in Nat
  BY DEF RowsOK, PartMoves
<1>2. Out(d, o)' = Out(d, o) + a
  <2>1. PICK f : f = moved[d][o]
    OBVIOUS
  <2>2. PICK g : g = moved'[d][o]
    OBVIOUS
  <2>3. SumFunctionOnSet(g, Orders) = SumFunctionOnSet(f, Orders) + g[p] - f[p]
    BY <1>1, <2>1, <2>2, SumChange, RowsAssumption DEF IntegerOn
  <2>4. Out(d, o) = SumFunctionOnSet(f, Orders)
    BY <1>1, <2>1, SumFunctionIs DEF Out
  <2>5. Out(d, o)' = SumFunctionOnSet(g, Orders)
    <3>1. Out(d, o)' = SumFunction(g)
      BY <2>2 DEF Out
    <3> QED
      BY <1>1, <2>2, <3>1, SumFunctionIs
  <2>6. SumFunctionOnSet(f, Orders) \in Int
    BY <1>1, <2>1, SumType, RowsAssumption DEF IntegerOn
  <2>7. g[p] = f[p] + a /\ f[p] \in Nat
    BY <1>1, <2>1, <2>2
  <2> QED
    BY <2>3, <2>4, <2>5, <2>6, <2>7
<1>3. ASSUME NEW q \in Orders, q # o PROVE Out(d, q)' = Out(d, q)
  BY <1>1, <1>3 DEF Out
<1>4. In(d, p)' = In(d, p) + a
  <2>1. PICK f : f = [q \in Orders |-> moved[d][q][p]]
    OBVIOUS
  <2>2. PICK g : g = [q \in Orders |-> moved'[d][q][p]]
    OBVIOUS
  <2>8. \A q \in Orders : f[q] \in Int /\ g[q] \in Int
    BY <1>1, <2>1, <2>2
  <2>9. g[o] = f[o] + a /\ f[o] \in Nat /\ \A q \in Orders \ {o} : g[q] = f[q]
    BY <1>1, <2>1, <2>2
  <2>3. SumFunctionOnSet(g, Orders) = SumFunctionOnSet(f, Orders) + g[o] - f[o]
    BY <2>8, <2>9, SumChange, RowsAssumption DEF IntegerOn
  <2>4. In(d, p) = SumFunctionOnSet(f, Orders)
    BY <2>1, SumFunctionIs DEF In
  <2>5. In(d, p)' = SumFunctionOnSet(g, Orders)
    <3>1. In(d, p)' = SumFunction(g)
      BY <2>2 DEF In
    <3> QED
      BY <2>2, <3>1, SumFunctionIs
  <2>6. SumFunctionOnSet(f, Orders) \in Int
    BY <2>8, SumType, RowsAssumption DEF IntegerOn
  <2> QED
    BY <2>3, <2>4, <2>5, <2>6, <2>9
<1>5. ASSUME NEW q \in Orders, q # p PROVE In(d, q)' = In(d, q)
  <2>1. \A r \in Orders : moved'[d][r][q] = moved[d][r][q]
    BY <1>1, <1>5
  <2> QED
    BY <2>1 DEF In
<1> QED
  BY <1>2, <1>3, <1>4, <1>5 DEF SumsMove

LEMMA MoveSafe ==
    ASSUME IInv, NEW o \in Orders, NEW d \in Deposits, NEW p \in Orders, NEW a \in Totals, move_deposit(o, d, p, a)
    PROVE  IInv'
<1>1. /\ IsOpen(o) /\ IsOpen(p) /\ o # p /\ orders[p].buyer = orders[o].buyer
      /\ Related(d, o) /\ a <= Portion(d, o) /\ Held(p) + a <= orders[p].total
      /\ moved' = [moved EXCEPT ![d][o][p] = @ + a]
      /\ orders' = orders /\ deposits' = deposits /\ given' = given /\ applied' = applied
      /\ taken' = taken /\ claims' = claims
  BY DEF move_deposit
<1>2. a \in Nat /\ RowsOK
  BY SizesAssumption DEF Totals, IInv
<1>3. /\ moved' \in [Deposits -> [Orders -> [Orders -> Nat]]]
      /\ \A c \in Deposits \ {d} : moved'[c] = moved[c]
  BY <1>1, <1>2 DEF RowsOK
<1>4. RowsOK'
  BY <1>1, <1>2, <1>3 DEF RowsOK
<1>10. /\ \A q \in Orders : Out(d, q)' = IF q = o THEN Out(d, q) + a ELSE Out(d, q)
       /\ \A q \in Orders : In(d, q)' = IF q = p THEN In(d, q) + a ELSE In(d, q)
  <2>1. o # p /\ PartMoves(d, o, p, a)
    BY <1>1 DEF PartMoves
  <2>2. SumsMove(d, o, p, a)
    BY <1>2, <2>1, MoveSums
  <2> QED
    BY <2>2 DEF SumsMove
<1>5. ASSUME NEW q \in Orders
      PROVE  Portion(d, q)' = IF q = o THEN Portion(d, q) - a
                              ELSE IF q = p THEN Portion(d, q) + a ELSE Portion(d, q)
  <2>1. PaidHere(d, q)' = PaidHere(d, q)
    BY <1>1 DEF PaidHere
  <2>2. Portion(d, q)' = PaidHere(d, q)' + In(d, q)' - Out(d, q)' - given'[d][q] - applied'[d][q]
    BY DEF Portion, PaidHere, In, Out
  <2>3. In(d, q) \in Nat /\ Out(d, q) \in Nat /\ given[d][q] \in Nat /\ applied[d][q] \in Nat
        /\ PaidHere(d, q) \in Nat
    BY <1>2, SumsTypes, RowTypes DEF PaidHere
  <2> QED
    BY <1>1, <1>2, <1>10, <2>1, <2>2, <2>3, PortionIs
<1>6. ASSUME NEW c \in Deposits \ {d}, NEW q \in Orders PROVE Portion(c, q)' = Portion(c, q)
  BY <1>1, <1>3 DEF Portion
<1>7. ASSUME NEW q \in Orders
      PROVE  Held(q)' = IF q = o THEN Held(q) - a ELSE IF q = p THEN Held(q) + a ELSE Held(q)
  <2>1. Portion(d, q) \in Nat /\ Held(q) \in Nat
    BY HeldTypes DEF IInv
  <2>2. PICK x \in Int : x = IF q = o THEN -a ELSE IF q = p THEN a ELSE 0
    BY <1>2
  <2>3. Portion(d, q)' = Portion(d, q) + x
    BY <1>2, <1>5, <2>1, <2>2
  <2>4. Held(q)' = Held(q) + x
    BY <1>2, <1>6, <2>3, HeldChanges
  <2> QED
    BY <1>2, <2>1, <2>2, <2>4
<1>9. Known(d) /\ ~deposits[d].voided /\ ~deposits[d].whole /\ orders[o].buyer = deposits[d].payer
  BY <1>1, RelatedIs
<1>8. ASSUME NEW q \in Orders
      PROVE  /\ Portion(d, q)' >= 0
             /\ Portion(d, q)' > 0 => IsOpen(q) /\ orders[q].buyer = deposits[d].payer
             /\ Held(q)' <= IF IsOpen(q) THEN orders[q].total ELSE 0
  <2>1. Portion(d, q) \in Nat /\ Held(q) \in Nat
    BY HeldTypes DEF IInv
  <2>2. Portion(d, q) > 0 => IsOpen(q) /\ orders[q].buyer = deposits[d].payer
    BY DEF IInv, PartsHeld, HeldForPayer
  <2>3. Held(q) <= IF IsOpen(q) THEN orders[q].total ELSE 0
    BY DEF IInv, HeldWithinOrder
  <2>4. orders[q].total \in Nat
    BY <1>2, RowTypes
  <2> QED
    BY <1>1, <1>2, <1>5, <1>7, <1>9, <2>1, <2>2, <2>3, <2>4
<1>11. deposits'[d].recorded
  BY <1>1, <1>9 DEF Known
<1> QED
  BY <1>1, <1>3, <1>4, <1>8, <1>9, <1>11, PartsStep


\* A deposit that is whole on an order has nothing elsewhere.
LEMMA WholeIs ==
    ASSUME IInv, NEW o \in Orders, NEW d \in Deposits, Portion(d, o) > 0, Whole(d, o), NEW p \in Orders, p # o
    PROVE  Portion(d, p) = 0 /\ applied[d][p] = 0
<1>1. /\ deposits[d].order = o /\ \A q, r \in Orders : moved[d][q][r] = 0
      /\ given[d][p] = 0
  BY DEF Whole, Untouched
<1>2. In(d, p) = 0 /\ Out(d, p) = 0 /\ PaidHere(d, p) = 0
  BY <1>1, UntouchedParts DEF PaidHere, IInv
<1>3. Portion(d, p) \in Nat /\ applied[d][p] \in Nat
  BY HeldTypes, RowTypes DEF IInv
<1> QED
  BY <1>1, <1>2, <1>3, PortionIs

\* A deposit nobody recorded has no part anywhere.
LEMMA UnknownIs ==
    ASSUME IInv, NEW d \in Deposits, ~Known(d), NEW o \in Orders
    PROVE  Portion(d, o) = 0
<1>1. given[d][o] = 0 /\ applied[d][o] = 0 /\ \A q, r \in Orders : moved[d][q][r] = 0
  BY DEF IInv, NothingBefore
<1>2. In(d, o) = 0 /\ Out(d, o) = 0 /\ PaidHere(d, o) = 0
  BY <1>1, UntouchedParts DEF PaidHere, IInv, Known
<1> QED
  BY <1>1, <1>2, PortionIs

\* What becomes a payment is what was held.
LEMMA DeliverParts ==
    ASSUME IInv, NEW o \in Orders, NEW b \in Buyers, NEW t \in Totals, NEW paid,
           deliver_buyer_order(o, b, t, paid), NEW d \in Deposits
    PROVE  /\ \A p \in Orders : applied'[d][p] = IF p = o THEN Portion(d, o) ELSE applied[d][p]
           /\ applied'[d] \in [Orders -> Nat]
           /\ \A p \in Orders : Portion(d, p)' = IF p = o THEN 0 ELSE Portion(d, p)
           /\ deposits'[d] = IF Portion(d, o) > 0 /\ Whole(d, o)
                             THEN [deposits[d] EXCEPT !.whole = TRUE] ELSE deposits[d]
           /\ deposits'[d] \in DepositRecord
           /\ deposits'[d].recorded = deposits[d].recorded /\ deposits'[d].payer = deposits[d].payer
           /\ deposits'[d].amount = deposits[d].amount /\ deposits'[d].voided = deposits[d].voided
           /\ ~ (Portion(d, o) > 0) => applied'[d] = applied[d]
<1>1. /\ IsOpen(o) /\ given' = given /\ moved' = moved
      /\ applied'[d] = IF Portion(d, o) > 0 THEN [applied[d] EXCEPT ![o] = Portion(d, o)] ELSE applied[d]
      /\ deposits'[d] = IF Portion(d, o) > 0 /\ Whole(d, o)
                        THEN [deposits[d] EXCEPT !.whole = TRUE] ELSE deposits[d]
  BY DEF deliver_buyer_order
<1>2. RowsOK /\ deposits[d] \in DepositRecord
  BY RowTypes DEF IInv
<1>3. applied[d][o] = 0 /\ Portion(d, o) \in Nat /\ applied[d] \in [Orders -> Nat]
  <2>1. applied[d] \in [Orders -> Nat]
    BY <1>2 DEF RowsOK
  <2>2. ~ (applied[d][o] > 0)
    BY <1>1 DEF IInv, AppliedAtDelivery, IsOpen
  <2> QED
    BY <2>1, <2>2, HeldTypes DEF IInv
<1>4. /\ \A p \in Orders : applied'[d][p] = IF p = o THEN Portion(d, o) ELSE applied[d][p]
      /\ applied'[d] \in [Orders -> Nat]
  BY <1>1, <1>3
<1>5. /\ deposits'[d].recorded = deposits[d].recorded /\ deposits'[d].payer = deposits[d].payer
      /\ deposits'[d].amount = deposits[d].amount /\ deposits'[d].voided = deposits[d].voided
      /\ deposits'[d].order = deposits[d].order /\ deposits'[d] \in DepositRecord
  BY <1>1, <1>2 DEF DepositRecord
<1>6. ASSUME NEW p \in Orders PROVE Portion(d, p)' = IF p = o THEN 0 ELSE Portion(d, p)
  <2>1. In(d, p)' = In(d, p) /\ Out(d, p)' = Out(d, p) /\ PaidHere(d, p)' = PaidHere(d, p)
    BY <1>1, <1>5 DEF In, Out, PaidHere
  <2>2. Portion(d, p)' = PaidHere(d, p)' + In(d, p)' - Out(d, p)' - given'[d][p] - applied'[d][p]
    BY DEF Portion, PaidHere, In, Out
  <2>3. In(d, p) \in Nat /\ Out(d, p) \in Nat /\ given[d][p] \in Nat /\ applied[d][p] \in Nat
        /\ PaidHere(d, p) \in Nat
    BY <1>2, SumsTypes, RowTypes DEF PaidHere
  <2>4. Portion(d, p) = PaidHere(d, p) + In(d, p) - Out(d, p) - given[d][p] - applied[d][p]
    BY PortionIs
  <2> QED
    BY <1>1, <1>3, <1>4, <2>1, <2>2, <2>3, <2>4
<1> QED
  BY <1>1, <1>4, <1>5, <1>6

LEMMA DeliverSafe ==
    ASSUME IInv, NEW o \in Orders, NEW b \in Buyers, NEW t \in Totals, NEW paid,
           deliver_buyer_order(o, b, t, paid)
    PROVE  IInv'
<1> DEFINE Fin(d) == Portion(d, o) > 0 /\ Whole(d, o)
<1>1. /\ orders[o].status = "open" /\ given' = given /\ moved' = moved /\ taken' = taken
      /\ orders' = [orders EXCEPT ![o].status = "delivered"]
      /\ claims' = [d \in Deposits |-> IF Fin(d) THEN "payment" ELSE claims[d]]
      /\ applied' = [d \in Deposits |-> applied'[d]] /\ deposits' = [d \in Deposits |-> deposits'[d]]
  <2>1. orders[o].status = "open" /\ given' = given /\ moved' = moved /\ taken' = taken
        /\ orders' = [orders EXCEPT ![o].status = "delivered"]
    BY DEF deliver_buyer_order, IsOpen
  <2>2. claims' = [d \in Deposits |-> IF Fin(d) THEN "payment" ELSE claims[d]]
    BY DEF deliver_buyer_order
  <2>3. applied' = [d \in Deposits |-> applied'[d]] /\ deposits' = [d \in Deposits |-> deposits'[d]]
    BY DEF deliver_buyer_order
  <2> QED
    BY <2>1, <2>2, <2>3
<1>2. RowsOK
  BY DEF IInv
<1>3. ASSUME NEW d \in Deposits
      PROVE  /\ \A p \in Orders : applied'[d][p] = IF p = o THEN Portion(d, o) ELSE applied[d][p]
             /\ applied'[d] \in [Orders -> Nat]
             /\ deposits'[d] = IF Fin(d) THEN [deposits[d] EXCEPT !.whole = TRUE] ELSE deposits[d]
             /\ deposits'[d] \in DepositRecord
             /\ deposits'[d].recorded = deposits[d].recorded /\ deposits'[d].payer = deposits[d].payer
             /\ deposits'[d].amount = deposits[d].amount /\ deposits'[d].voided = deposits[d].voided
             /\ ~ (Portion(d, o) > 0) => applied'[d] = applied[d]
  BY DeliverParts
<1>14. ASSUME NEW d \in Deposits, NEW p \in Orders
       PROVE  Portion(d, p)' = IF p = o THEN 0 ELSE Portion(d, p)
  BY DeliverParts
<1>15. ASSUME NEW d \in Deposits, Portion(d, o) = 0
       PROVE  applied'[d] = applied[d] /\ deposits'[d] = deposits[d]
  <2>1. ~ (Portion(d, o) > 0)
    BY <1>15
  <2> QED
    BY <2>1, DeliverParts
<1>4. /\ orders' \in [Orders -> OrderRecord] /\ \A p \in Orders \ {o} : orders'[p] = orders[p]
      /\ orders'[o].status = "delivered" /\ orders'[o].buyer = orders[o].buyer
  BY <1>1, OrderTypes DEF OrderRecord
<1>5. claims' \in [Deposits -> Holders]
  BY <1>1, OrderTypes DEF Holders
<1> HIDE DEF Fin
<1>6. RowsOK'
  BY <1>1, <1>2, <1>3, <1>4, <1>5 DEF RowsOK
<1>7. PartsHeld'
  <2>1. ASSUME NEW d \in Deposits, NEW p \in Orders
        PROVE  Portion(d, p)' >= 0 /\ (Portion(d, p)' > 0 => orders'[p].status = "open")
    <3>1. Portion(d, p)' = IF p = o THEN 0 ELSE Portion(d, p)
      BY <1>14
    <3>2. Portion(d, p) >= 0 /\ (Portion(d, p) > 0 => orders[p].status = "open")
      BY DEF IInv, PartsHeld, IsOpen
    <3> QED
      BY <1>4, <3>1, <3>2
  <2> QED
    BY <2>1 DEF PartsHeld, IsOpen
<1>8. NothingBefore'
  <2>1. ASSUME NEW d \in Deposits, ~deposits'[d].recorded
        PROVE  /\ ~deposits'[d].voided /\ ~deposits'[d].whole
               /\ \A p \in Orders : given'[d][p] = 0 /\ applied'[d][p] = 0
               /\ \A p, q \in Orders : moved'[d][p][q] = 0
    <3>1. ~Known(d)
      BY <1>3, <2>1 DEF Known
    <3>2. Portion(d, o) = 0
      BY <3>1, UnknownIs
    <3>3. applied'[d] = applied[d] /\ deposits'[d] = deposits[d]
      BY <1>15, <3>2
    <3> QED
      BY <1>1, <3>1, <3>3 DEF IInv, NothingBefore
  <2> QED
    BY <2>1 DEF NothingBefore, Known
<1>9. AppliedAtDelivery'
  <2>1. ASSUME NEW d \in Deposits, NEW p \in Orders, applied'[d][p] > 0 PROVE orders'[p].status = "delivered"
    BY <1>3, <1>4, <2>1 DEF IInv, AppliedAtDelivery
  <2> QED
    BY <2>1 DEF AppliedAtDelivery
<1>10. ASSUME NEW d \in Deposits, Fin(d)
       PROVE  /\ \A p \in Orders : Portion(d, p)' = 0
              /\ SumFunction(applied'[d]) = deposits'[d].amount
              /\ ~deposits[d].voided
  <2>1. Portion(d, o) > 0 /\ Whole(d, o) /\ Portion(d, o) = deposits[d].amount
    BY <1>10 DEF Fin, Whole
  <2>2. ASSUME NEW p \in Orders, p # o PROVE Portion(d, p) = 0 /\ applied[d][p] = 0
    BY <2>1, <2>2, WholeIs
  <2>3. ASSUME NEW p \in Orders PROVE Portion(d, p)' = 0
    BY <1>14, <2>2
  <2>4. ~deposits[d].voided
    BY <2>1 DEF IInv, NothingLeft
  <2>5. PICK f : f = applied'[d]
    OBVIOUS
  <2>6. f \in [Orders -> Nat] /\ f[o] = deposits'[d].amount /\ \A p \in Orders \ {o} : f[p] = 0
    BY <1>3, <2>1, <2>2, <2>5
  <2>7. SumFunctionOnSet(f, Orders) = f[o] + SumFunctionOnSet(f, Orders \ {o})
    BY <2>6, SumWithout, RowsAssumption DEF IntegerOn
  <2>8. IsFiniteSet(Orders \ {o})
    BY FS_Subset, RowsAssumption
  <2>9. SumFunctionOnSet(f, Orders \ {o}) = 0
    BY <2>6, <2>8, SumOfZeros
  <2>10. SumFunction(f) = SumFunctionOnSet(f, Orders)
    BY <2>6, SumFunctionIs
  <2>11. f[o] \in Nat
    BY <2>6
  <2> QED
    BY <2>3, <2>4, <2>5, <2>6, <2>7, <2>9, <2>10, <2>11
<1>11. NothingLeft'
  <2>1. ASSUME NEW d \in Deposits
        PROVE  /\ deposits'[d].voided \/ deposits'[d].whole => \A p \in Orders : Portion(d, p)' = 0
               /\ deposits'[d].voided => \A p \in Orders : applied'[d][p] = 0
               /\ deposits'[d].whole /\ ~deposits'[d].voided =>
                     SumFunction(applied'[d]) = deposits'[d].amount
    <3>1. CASE Fin(d)
      BY <1>3, <1>10, <3>1
    <3>2. CASE ~Fin(d)
      <4>1. deposits'[d] = deposits[d]
        BY <1>3, <3>2
      <4>2. CASE ~ (deposits[d].voided \/ deposits[d].whole)
        BY <4>1, <4>2
      <4>3. CASE deposits[d].voided \/ deposits[d].whole
        <5>1. \A p \in Orders : Portion(d, p) = 0
          BY <4>3 DEF IInv, NothingLeft
        <5>2. applied'[d] = applied[d] /\ \A p \in Orders : Portion(d, p)' = 0
          <6>1. applied'[d] = applied[d]
            BY <1>15, <5>1
          <6>2. ASSUME NEW p \in Orders PROVE Portion(d, p)' = 0
            BY <1>14, <5>1
          <6> QED
            BY <6>1, <6>2
        <5>3. /\ deposits[d].voided => \A p \in Orders : applied[d][p] = 0
              /\ deposits[d].whole /\ ~deposits[d].voided =>
                    SumFunction(applied[d]) = deposits[d].amount
          BY DEF IInv, NothingLeft
        <5> QED
          BY <4>1, <5>2, <5>3
      <4> QED
        BY <4>2, <4>3
    <3> QED
      BY <3>1, <3>2
  <2> QED
    BY <2>1 DEF NothingLeft
<1>12. HeldWithinOrder'
  <2>1. ASSUME NEW p \in Orders PROVE Held(p)' <= IF orders'[p].status = "open" THEN orders'[p].total ELSE 0
    <3>1. CASE p # o
      <4>1. ASSUME NEW d \in Deposits PROVE Portion(d, p)' = Portion(d, p)
        BY <1>14, <3>1
      <4>2. Held(p)' = Held(p)
        BY <4>1 DEF Held
      <4> QED
        BY <1>4, <3>1, <4>2 DEF IInv, HeldWithinOrder, IsOpen
    <3>2. CASE p = o
      <4>1. PICK g : g = [d \in Deposits |-> Portion(d, p)']
        OBVIOUS
      <4>2. \A d \in Deposits : g[d] = 0
        BY <1>14, <3>2, <4>1
      <4>3. SumFunctionOnSet(g, Deposits) = 0
        BY <4>2, SumOfZeros, RowsAssumption
      <4>4. Held(p)' = SumFunction(g)
        BY <4>1 DEF Held
      <4>5. Held(p)' = 0
        BY <4>1, <4>3, <4>4, SumFunctionIs
      <4> QED
        BY <1>4, <3>2, <4>5
    <3> QED
      BY <3>1, <3>2
  <2> QED
    BY <2>1 DEF HeldWithinOrder, IsOpen
<1>13. HeldForPayer'
  <2>1. ASSUME NEW d \in Deposits, NEW p \in Orders, Portion(d, p)' > 0 \/ applied'[d][p] > 0
        PROVE  orders'[p].buyer = deposits'[d].payer
    <3>1. Portion(d, p) > 0 \/ applied[d][p] > 0
      <4>1. Portion(d, p)' = IF p = o THEN 0 ELSE Portion(d, p)
        BY <1>14
      <4>2. applied'[d][p] = IF p = o THEN Portion(d, o) ELSE applied[d][p]
        BY <1>3
      <4> QED
        BY <2>1, <4>1, <4>2
    <3>2. orders[p].buyer = deposits[d].payer
      BY <3>1 DEF IInv, HeldForPayer
    <3> QED
      BY <1>3, <1>4, <3>2
  <2> QED
    BY <2>1 DEF HeldForPayer
<1> QED
  BY <1>6, <1>7, <1>8, <1>9, <1>11, <1>12, <1>13 DEF IInv


-----------------------------------------------------------------------------
(* The invariant.                                                          *)

LEMMA InitSafe == Init => IInv
<1> SUFFICES ASSUME Init PROVE IInv
  OBVIOUS
<1>1. PICK b \in Buyers, e \in Orders :
        /\ orders = [p \in Orders |-> [status |-> "none", buyer |-> b, total |-> 0]]
        /\ deposits = [d \in Deposits |-> [recorded |-> FALSE, order |-> e, payer |-> b, amount |-> 0,
                                           voided |-> FALSE, whole |-> FALSE]]
        /\ given = [d \in Deposits |-> [p \in Orders |-> 0]]
        /\ moved = [d \in Deposits |-> [p \in Orders |-> [q \in Orders |-> 0]]]
        /\ applied = [d \in Deposits |-> [p \in Orders |-> 0]]
        /\ taken = {} /\ claims = [d \in Deposits |-> "nobody"]
  BY DEF Init
<1>2. RowsOK
  <2>1. orders \in [Orders -> OrderRecord] /\ deposits \in [Deposits -> DepositRecord]
    BY ONLY <1>1, b \in Buyers, e \in Orders DEF OrderRecord, DepositRecord
  <2>2. /\ given \in [Deposits -> [Orders -> Nat]] /\ applied \in [Deposits -> [Orders -> Nat]]
        /\ moved \in [Deposits -> [Orders -> [Orders -> Nat]]]
        /\ taken \in SUBSET (Deposits \X Orders) /\ claims \in [Deposits -> Holders]
    BY <1>1 DEF Holders
  <2> QED
    BY <2>1, <2>2 DEF RowsOK
<1>3. ASSUME NEW d \in Deposits
      PROVE  /\ ~deposits[d].recorded /\ ~deposits[d].voided /\ ~deposits[d].whole
             /\ \A o \in Orders : given[d][o] = 0 /\ applied[d][o] = 0
             /\ \A o, p \in Orders : moved[d][o][p] = 0
  BY <1>1
<1>4. ASSUME NEW d \in Deposits, NEW o \in Orders PROVE Portion(d, o) = 0
  <2>1. In(d, o) = 0 /\ Out(d, o) = 0
    BY <1>2, <1>3, UntouchedParts
  <2>2. PaidHere(d, o) = 0
    BY <1>3 DEF PaidHere
  <2> QED
    BY <1>3, <2>1, <2>2, PortionIs
<1>5. PartsHeld /\ NothingBefore /\ AppliedAtDelivery /\ NothingLeft /\ HeldForPayer
  <2>1. PartsHeld
    BY <1>4 DEF PartsHeld
  <2>2. NothingBefore /\ AppliedAtDelivery
    BY <1>3 DEF NothingBefore, AppliedAtDelivery
  <2>3. NothingLeft
    BY <1>3 DEF NothingLeft
  <2>4. HeldForPayer
    BY <1>3, <1>4 DEF HeldForPayer
  <2> QED
    BY <2>1, <2>2, <2>3, <2>4
<1>6. ASSUME NEW o \in Orders PROVE Held(o) <= IF IsOpen(o) THEN orders[o].total ELSE 0
  <2>1. PICK g : g = [d \in Deposits |-> Portion(d, o)]
    OBVIOUS
  <2>2. SumFunctionOnSet(g, Deposits) = 0
    BY <1>4, <2>1, SumOfZeros, RowsAssumption
  <2>3. Held(o) = 0 /\ orders[o].total = 0
    BY <1>1, <2>1, <2>2, HeldIs
  <2> QED
    BY <2>3
<1> QED
  BY <1>2, <1>5, <1>6 DEF IInv, HeldWithinOrder

\* What becomes of a sale changes nothing of the orders and deposits.
LEMMA StutterSafe ==
    ASSUME IInv, UNCHANGED <<orders, deposits, given, moved, applied, taken, claims>> PROVE IInv'
<1>1. /\ orders' = orders /\ deposits' = deposits /\ given' = given /\ moved' = moved
      /\ applied' = applied /\ taken' = taken /\ claims' = claims
  OBVIOUS
<1>2. \A d, o : Portion(d, o)' = Portion(d, o)
  BY <1>1, PortionsSame
<1>3. \A o : Held(o)' = Held(o)
  BY <1>2 DEF Held
<1>4. RowsOK' /\ NothingBefore' /\ AppliedAtDelivery'
  BY <1>1 DEF IInv, RowsOK, NothingBefore, Known, AppliedAtDelivery
<1>5. PartsHeld' /\ NothingLeft'
  BY <1>1, <1>2 DEF IInv, PartsHeld, IsOpen, NothingLeft
<1>6. HeldWithinOrder' /\ HeldForPayer'
  BY <1>1, <1>2, <1>3 DEF IInv, HeldWithinOrder, IsOpen, HeldForPayer
<1> QED
  BY <1>4, <1>5, <1>6 DEF IInv

LEMMA StepSafe == IInv /\ [Next]_vars => IInv'
<1> SUFFICES ASSUME IInv, [Next]_vars PROVE IInv'
  OBVIOUS
<1>1. ASSUME NEW o \in Orders, NEW b \in Buyers, NEW t \in Totals,
             \/ create_buyer_order(o, b, t)
             \/ update_buyer_order(o, b, t)
             \/ \E d \in Deposits, a \in 1..t : create_with_deposit(o, b, t, d, a)
             \/ \E paid \in 0..t : deliver_buyer_order(o, b, t, paid)
      PROVE  IInv'
  <2>1. CASE create_buyer_order(o, b, t)
    BY <2>1, CreateSafe
  <2>2. CASE update_buyer_order(o, b, t)
    BY <2>2, UpdateSafe
  <2>3. ASSUME NEW d \in Deposits, NEW a \in 1..t, create_with_deposit(o, b, t, d, a) PROVE IInv'
    BY <2>3, CreateWithDepositSafe
  <2>4. ASSUME NEW paid \in 0..t, deliver_buyer_order(o, b, t, paid) PROVE IInv'
    BY <2>4, DeliverSafe
  <2> QED
    BY <1>1, <2>1, <2>2, <2>3, <2>4
<1>2. ASSUME NEW o \in Orders, cancel_buyer_order(o) \/ cancel_delivered_sale(o) PROVE IInv'
  <2>1. CASE cancel_buyer_order(o)
    BY <2>1, CancelSafe
  <2>2. CASE cancel_delivered_sale(o)
    BY <2>2, StutterSafe DEF cancel_delivered_sale, SoldBecomes
  <2> QED
    BY <1>2, <2>1, <2>2
<1>11. ASSUME NEW o \in Orders, NEW b \in Buyers, update_sale(o, b) PROVE IInv'
  BY <1>11, StutterSafe DEF update_sale, SoldBecomes
<1>3. ASSUME NEW o \in Orders, NEW d \in Deposits, void_deposit(o, d) PROVE IInv'
  BY <1>3, VoidSafe
<1>4. ASSUME NEW o \in Orders, NEW d \in Deposits, reverse_payment(d, o) PROVE IInv'
  BY <1>4, ReverseSafe
<1>5. ASSUME NEW o \in Orders, NEW d \in Deposits, NEW a \in Totals, record_deposit(o, d, a) PROVE IInv'
  BY <1>5, RecordSafe
<1>6. ASSUME NEW o \in Orders, NEW d \in Deposits, NEW a \in Totals, refund_deposit(o, d, a) PROVE IInv'
  BY <1>6, RefundSafe
<1>7. ASSUME NEW o \in Orders, NEW d \in Deposits, NEW p \in Orders, NEW a \in Totals, move_deposit(o, d, p, a)
      PROVE  IInv'
  BY <1>7, MoveSafe
<1>8. ASSUME NEW o \in Orders, NEW d \in Deposits,
             \/ void_deposit(o, d)
             \/ reverse_payment(d, o)
             \/ \E a \in Totals : record_deposit(o, d, a) \/ refund_deposit(o, d, a)
             \/ \E p \in Orders, a \in Totals :
                 MovedInAll(d) + a <= MaxMoved /\ move_deposit(o, d, p, a)
      PROVE  IInv'
  BY <1>3, <1>4, <1>5, <1>6, <1>7, <1>8
<1>9. CASE UNCHANGED vars
  BY <1>9, StutterSafe DEF vars
<1>10. CASE Next
  <2>1. CASE \E o \in Orders, b \in Buyers, t \in Totals :
          \/ create_buyer_order(o, b, t)
          \/ update_buyer_order(o, b, t)
          \/ \E d \in Deposits, a \in 1..t : create_with_deposit(o, b, t, d, a)
          \/ \E paid \in 0..t : deliver_buyer_order(o, b, t, paid)
    BY <1>1, <2>1
  <2>2. CASE \E o \in Orders : cancel_buyer_order(o) \/ cancel_delivered_sale(o)
    BY <1>2, <2>2
  <2>4. CASE \E o \in Orders, b \in Buyers : update_sale(o, b)
    BY <1>11, <2>4
  <2>3. CASE \E o \in Orders, d \in Deposits :
          \/ void_deposit(o, d)
          \/ reverse_payment(d, o)
          \/ \E a \in Totals : record_deposit(o, d, a) \/ refund_deposit(o, d, a)
          \/ \E p \in Orders, a \in Totals :
              MovedInAll(d) + a <= MaxMoved /\ move_deposit(o, d, p, a)
    BY <1>8, <2>3
  <2> QED
    BY <1>10, <2>1, <2>2, <2>3, <2>4 DEF Next
<1> QED
  BY <1>9, <1>10

LEMMA IInvAlways == Spec => []IInv
<1>1. Init => IInv
  BY InitSafe
<1>2. IInv /\ [Next]_vars => IInv'
  BY StepSafe
<1> QED
  BY <1>1, <1>2, PTL DEF Spec

-----------------------------------------------------------------------------
(* What follows.                                                           *)

\* The sales, whatever the other rows are.
SoldOK == sold \in [Orders -> SoldRecord]

\* Only a delivery makes payments of deposits, and only it, an edit and a
\* cancellation change a sale.
LEMMA SalesStay ==
    ASSUME Next
    PROVE  \/ UNCHANGED <<applied, sold>>
           \/ \E o \in Orders, b \in Buyers, t \in Totals : \E paid \in 0..t : deliver_buyer_order(o, b, t, paid)
           \/ UNCHANGED applied /\ \E o \in Orders, b \in Buyers : update_sale(o, b)
           \/ UNCHANGED applied /\ \E o \in Orders : cancel_delivered_sale(o)
<1>1. ASSUME NEW o, NEW b, NEW t, create_buyer_order(o, b, t) \/ update_buyer_order(o, b, t)
      PROVE  UNCHANGED <<applied, sold>>
  BY <1>1 DEF create_buyer_order, CreateOrder, update_buyer_order
<1>2. ASSUME NEW o, NEW b, NEW t, NEW d, NEW a, create_with_deposit(o, b, t, d, a)
      PROVE  UNCHANGED <<applied, sold>>
  BY <1>2 DEF create_with_deposit, CreateOrder
<1>3. ASSUME NEW o, cancel_buyer_order(o) PROVE UNCHANGED <<applied, sold>>
  BY <1>3 DEF cancel_buyer_order
<1>4. ASSUME NEW o, NEW d, NEW a, record_deposit(o, d, a) \/ refund_deposit(o, d, a)
      PROVE  UNCHANGED <<applied, sold>>
  BY <1>4 DEF record_deposit, refund_deposit
<1>5. ASSUME NEW o, NEW d, NEW p, NEW a, move_deposit(o, d, p, a) PROVE UNCHANGED <<applied, sold>>
  BY <1>5 DEF move_deposit
<1>6. ASSUME NEW o, NEW d, void_deposit(o, d) \/ reverse_payment(d, o) PROVE UNCHANGED <<applied, sold>>
  BY <1>6 DEF void_deposit, reverse_payment
<1>7. ASSUME NEW o, NEW b, update_sale(o, b) \/ cancel_delivered_sale(o) PROVE UNCHANGED applied
  BY <1>7 DEF update_sale, cancel_delivered_sale, SoldBecomes
<1> QED
  BY <1>1, <1>2, <1>3, <1>4, <1>5, <1>6, <1>7 DEF Next

LEMMA SoldStep == SoldOK /\ [Next]_vars => SoldOK'
<1> SUFFICES ASSUME SoldOK, [Next]_vars PROVE SoldOK'
  OBVIOUS
<1>1. CASE UNCHANGED sold
  BY <1>1 DEF SoldOK
<1>2. ASSUME NEW o \in Orders, NEW b \in Buyers, NEW t, NEW paid, deliver_buyer_order(o, b, t, paid)
      PROVE  SoldOK'
  BY <1>2 DEF SoldOK, SoldRecord, deliver_buyer_order
<1>3. ASSUME NEW o \in Orders, NEW b \in Buyers, update_sale(o, b) PROVE SoldOK'
  BY <1>3 DEF SoldOK, SoldRecord, update_sale, SoldBecomes
<1>4. ASSUME NEW o \in Orders, cancel_delivered_sale(o) PROVE SoldOK'
  BY <1>4 DEF SoldOK, SoldRecord, cancel_delivered_sale, SoldBecomes
<1> QED
  BY <1>1, <1>2, <1>3, <1>4, SalesStay DEF vars

\* Orders, deposits, what became of them and their sales are what their tables
\* can hold.
THEOREM BuyerOrdersTypeCorrect == Spec => []TypeOK
<1>1. Init => SoldOK
  BY DEF Init, SoldOK, SoldRecord
<1>2. IInv /\ SoldOK => TypeOK
  BY DEF IInv, TypeOK, SoldOK
<1> QED
  BY <1>1, <1>2, SoldStep, IInvAlways, PTL DEF Spec

\* An open order never holds more than it comes to, and a closed one nothing,
\* whatever is moved to it and however it is edited (buyer_orders.py:205, 338,
\* 356, 449).
THEOREM HeldAlwaysWithinOrder == Spec => []HeldWithinOrder
<1>1. IInv => HeldWithinOrder
  BY DEF IInv
<1> QED
  BY <1>1, IInvAlways, PTL

\* A part of a deposit becomes a payment only where its order is delivered, to
\* the buyer of the order.
LEMMA AppliedByDelivery ==
    ASSUME IInv, NEW o \in Orders, NEW b \in Buyers, NEW t \in Totals, NEW paid,
           deliver_buyer_order(o, b, t, paid), NEW d \in Deposits, NEW p \in Orders,
           applied'[d][p] # applied[d][p], SoldOK
    PROVE  sold'[p].buyer = deposits[d].payer
<1>7. \A q \in Orders : applied'[d][q] = IF q = o THEN Portion(d, o) ELSE applied[d][q]
  BY DeliverParts
<1>5. applied'[d][p] = IF p = o THEN Portion(d, o) ELSE applied[d][p]
  BY <1>7
<1>6. ~ (Portion(d, o) > 0) => applied'[d] = applied[d]
  BY DeliverParts
<1>1. p = o /\ Portion(d, o) > 0
  BY <1>5, <1>6
<1>2. b = orders[o].buyer /\ sold' = [sold EXCEPT ![o] = [status |-> "active", buyer |-> b]]
  BY DEF deliver_buyer_order
<1>3. orders[o].buyer = deposits[d].payer
  BY <1>1 DEF IInv, HeldForPayer
<1>4. sold'[o].buyer = b
  BY <1>2 DEF SoldOK
<1> QED
  BY <1>1, <1>2, <1>3, <1>4

\* Money of one buyer is never held on the order of another, and becomes a
\* payment only on a sale to who paid it (buyer_orders.py:331, 438, 452).  Who
\* the sale is to later is not said: update_sale may change it.
THEOREM DepositsAlwaysGoToTheirPayer == Spec => DepositsGoToTheirPayer
<1> DEFINE Step == /\ HeldForPayer'
                   /\ \A d \in Deposits, o \in Orders :
                         applied'[d][o] # applied[d][o] => sold'[o].buyer = deposits[d].payer
<1>1. Init => SoldOK
  BY DEF Init, SoldOK, SoldRecord
<1>2. ASSUME IInv, IInv', SoldOK, [Next]_vars PROVE [Step]_vars
  <2>1. HeldForPayer'
    BY <1>2 DEF IInv
  <2>2. CASE UNCHANGED vars
    BY <2>2
  <2>3. CASE UNCHANGED applied
    BY <2>1, <2>3
  <2>4. ASSUME NEW o \in Orders, NEW b \in Buyers, NEW t \in Totals, NEW paid \in 0..t,
               deliver_buyer_order(o, b, t, paid)
        PROVE  Step
    BY <1>2, <2>1, <2>4, AppliedByDelivery
  <2> HIDE DEF Step
  <2> QED
    BY <1>2, <2>2, <2>3, <2>4, SalesStay
<1> QED
  BY <1>1, <1>2, SoldStep, IInvAlways, PTL DEF Spec, DepositsGoToTheirPayer

LEMMA CountsOnce == IInv => DepositCountsOnce
<1> SUFFICES ASSUME IInv, NEW d \in Deposits, Known(d)
             PROVE  InCashBook(d) = IF deposits[d].voided THEN 0
                        ELSE deposits[d].amount
                             - SumFunction([o \in Orders |-> IF <<d, o>> \in taken THEN applied[d][o] ELSE 0])
  BY DEF DepositCountsOnce
<1>1. PICK a : a = applied[d]
  OBVIOUS
<1>2. PICK c : c = [o \in Orders |-> IF <<d, o>> \in taken THEN 0 ELSE applied[d][o]]
  OBVIOUS
<1>3. PICK l : l = [o \in Orders |-> IF <<d, o>> \in taken THEN applied[d][o] ELSE 0]
  OBVIOUS
<1>4. a \in [Orders -> Nat] /\ deposits[d].amount \in Nat
  BY <1>1 DEF IInv, RowsOK, DepositRecord
<1>5. /\ \A o \in Orders : c[o] \in Nat /\ l[o] \in Nat /\ a[o] = c[o] + l[o]
      /\ DOMAIN c = Orders /\ DOMAIN l = Orders
  BY <1>1, <1>2, <1>3, <1>4
<1>6. SumFunctionOnSet(a, Orders) = SumFunctionOnSet(c, Orders) + SumFunctionOnSet(l, Orders)
  BY <1>5, SumPlus, RowsAssumption DEF IntegerOn
<1>7. SumFunctionOnSet(c, Orders) \in Nat /\ SumFunctionOnSet(l, Orders) \in Nat
  BY <1>5, SumNatural, RowsAssumption
<1>8. /\ SumFunction(a) = SumFunctionOnSet(a, Orders) /\ SumFunction(c) = SumFunctionOnSet(c, Orders)
      /\ SumFunction(l) = SumFunctionOnSet(l, Orders)
  BY <1>4, <1>5, SumFunctionIs
<1>9. InCashBook(d) = (IF deposits[d].voided \/ deposits[d].whole THEN 0
                       ELSE deposits[d].amount - SumFunction(a)) + SumFunction(c)
  BY <1>1, <1>2 DEF InCashBook, Known
<1>10. CASE deposits[d].voided
  <2>1. \A o \in Orders : c[o] = 0
    BY <1>2, <1>10 DEF IInv, NothingLeft
  <2>2. SumFunctionOnSet(c, Orders) = 0
    BY <2>1, SumOfZeros, RowsAssumption
  <2> QED
    BY <1>8, <1>9, <1>10, <2>2
<1>11. CASE ~deposits[d].voided /\ deposits[d].whole
  <2>1. SumFunction(a) = deposits[d].amount
    BY <1>1, <1>11 DEF IInv, NothingLeft
  <2> QED
    BY <1>3, <1>4, <1>6, <1>7, <1>8, <1>9, <1>11, <2>1
<1>12. CASE ~deposits[d].voided /\ ~deposits[d].whole
  BY <1>3, <1>4, <1>6, <1>7, <1>8, <1>9, <1>12
<1> QED
  BY <1>10, <1>11, <1>12

\* The cash book counts every deposit once, wherever its parts went, less the
\* payments reversed as entered in error (reporting.py:875-900,
\* buyer_orders.py:512-526).
THEOREM DepositAlwaysCountsOnce == Spec => []DepositCountsOnce
  BY CountsOnce, IInvAlways, PTL

-----------------------------------------------------------------------------
(* Lots.  What is on hand of a lot at the end of the last day is what was kept
   of it less what sales have out of it: returns by buyers count twice and
   cancel out. *)

Kept(row) == All(row.received) - All(row.corrected) - All(row.lost) - All(row.sent) + All(row.counted)
OutOf(l, ss) == [s \in Sales |-> ss[s].takes[l] + ss[s].gone[l]]
Left(l, ss) == SumFunctionOnSet(OutOf(l, ss), Sales)

LEMMA DaysFinite == IsFiniteSet(1..MaxDay) /\ Days = 1..MaxDay /\ MaxDay \in Days
  BY BoundsAssumption, FS_Interval DEF Days

LEMMA AllType ==
    ASSUME NEW f \in [Days -> Int]
    PROVE  All(f) \in Int
<1>1. IsFiniteSet(1..MaxDay) /\ IntegerOn(f, 1..MaxDay)
  BY DaysFinite DEF IntegerOn
<1> QED
  BY <1>1, SumType DEF All, UpTo

LEMMA AllNatural ==
    ASSUME NEW f \in [Days -> Nat]
    PROVE  All(f) \in Nat /\ \A d \in Days : f[d] <= All(f)
<1>1. IsFiniteSet(1..MaxDay) /\ \A d \in 1..MaxDay : f[d] \in Nat
  BY DaysFinite
<1>2. SumFunctionOnSet(f, 1..MaxDay) \in Nat
  BY <1>1, SumNatural
<1>3. \A d \in 1..MaxDay : f[d] <= SumFunctionOnSet(f, 1..MaxDay)
  BY <1>1, SumAtLeast
<1> QED
  BY <1>2, <1>3, DaysFinite DEF All, UpTo

LEMMA AllOfNever ==
    ASSUME NEW f \in [Days -> Int], \A d \in Days : f[d] = 0
    PROVE  All(f) = 0
<1>1. IsFiniteSet(1..MaxDay) /\ \A d \in 1..MaxDay : f[d] = 0
  BY DaysFinite
<1> QED
  BY <1>1, SumOfZeros DEF All, UpTo

LEMMA AllChanges ==
    ASSUME NEW f \in [Days -> Int], NEW d \in Days, NEW v \in Int
    PROVE  All([f EXCEPT ![d] = v]) = All(f) + v - f[d]
<1> DEFINE g == [f EXCEPT ![d] = v]
<1>1. /\ IsFiniteSet(1..MaxDay) /\ IntegerOn(f, 1..MaxDay) /\ IntegerOn(g, 1..MaxDay)
      /\ d \in 1..MaxDay /\ g[d] = v /\ \A y \in (1..MaxDay) \ {d} : g[y] = f[y]
  BY DaysFinite DEF IntegerOn
<1> HIDE DEF g
<1>2. SumFunctionOnSet(g, 1..MaxDay) = SumFunctionOnSet(f, 1..MaxDay) + g[d] - f[d]
  BY <1>1, SumChange
<1>3. All(g) = All(f) + v - f[d]
  BY <1>1, <1>2 DEF All, UpTo
<1> QED
  BY <1>3 DEF g

LEMMA RowTotals ==
    ASSUME NEW row \in LotRecord
    PROVE  /\ All(row.received) \in Nat /\ All(row.corrected) \in Nat /\ All(row.lost) \in Nat
           /\ All(row.sent) \in Nat /\ All(row.counted) \in Int /\ Kept(row) \in Int
<1>1. /\ row.received \in [Days -> Nat] /\ row.corrected \in [Days -> Nat] /\ row.lost \in [Days -> Nat]
      /\ row.sent \in [Days -> Nat] /\ row.counted \in [Days -> Int]
  BY DEF LotRecord
<1>2. /\ All(row.received) \in Nat /\ All(row.corrected) \in Nat /\ All(row.lost) \in Nat
      /\ All(row.sent) \in Nat
  BY <1>1, AllNatural
<1>3. All(row.counted) \in Int
  BY <1>1, AllType
<1> QED
  BY <1>2, <1>3 DEF Kept

LEMMA LeftType ==
    ASSUME NEW l \in LotIds, NEW ss \in [Sales -> SaleRecord]
    PROVE  /\ Left(l, ss) \in Nat
           /\ IntegerOn(OutOf(l, ss), Sales) /\ \A s \in Sales : OutOf(l, ss)[s] <= Left(l, ss)
<1>1. \A s \in Sales : OutOf(l, ss)[s] \in Nat
  BY DEF OutOf, SaleRecord
<1>2. Left(l, ss) \in Nat
  BY <1>1, SalesAssumption, SumNatural DEF Left
<1>3. \A s \in Sales : OutOf(l, ss)[s] <= Left(l, ss)
  BY <1>1, SalesAssumption, SumAtLeast DEF Left
<1> QED
  BY <1>1, <1>2, <1>3 DEF IntegerOn

LEMMA OnHandIs ==
    ASSUME NEW ls \in [LotIds -> LotRecord], NEW ss \in [Sales -> SaleRecord], NEW l \in LotIds
    PROVE  /\ Closing(l, MaxDay, ls, ss) = Kept(ls[l]) - Left(l, ss)
           /\ Closing(l, MaxDay, ls, ss) \in Int
<1> DEFINE out == [s \in Sales |-> OutOn(s, l, MaxDay, ss)]
<1>1. ASSUME NEW s \in Sales PROVE out[s] = OutOf(l, ss)[s]
  <2>1. ss[s].back[l] \in [Days -> Nat] /\ ss[s].takes[l] \in Nat /\ ss[s].gone[l] \in Nat /\ ss[s].on \in Days
    BY DEF SaleRecord
  <2>2. All(ss[s].back[l]) \in Nat
    BY <2>1, AllNatural
  <2>3. ss[s].on <= MaxDay
    BY <2>1, BoundsAssumption DEF Days
  <2> QED
    BY <2>1, <2>2, <2>3 DEF OutOn, OutOf, All
<1>2. DOMAIN out = Sales
  OBVIOUS
<1> HIDE DEF out
<1>3. SumFunctionOnSet(out, Sales) = SumFunctionOnSet(OutOf(l, ss), Sales)
  BY <1>1, SalesAssumption, SumSame
<1>4. SumFunction(out) = Left(l, ss)
  BY <1>2, <1>3 DEF SumFunction, Left
<1>5. Closing(l, MaxDay, ls, ss)
          = All(ls[l].received) - All(ls[l].corrected) - All(ls[l].lost)
            - All(ls[l].sent) + All(ls[l].counted) - SumFunction(out)
  BY ONLY DEF Closing, All, out
<1>6. /\ All(ls[l].received) \in Nat /\ All(ls[l].corrected) \in Nat /\ All(ls[l].lost) \in Nat
      /\ All(ls[l].sent) \in Nat /\ All(ls[l].counted) \in Int /\ Left(l, ss) \in Nat
  BY RowTotals, LeftType
<1> QED
  BY <1>4, <1>5, <1>6 DEF Kept

-----------------------------------------------------------------------------
(* The invariant of the lots. *)

Standing == Notes \cup (Openings \ cancelled)

\* What an edit that is not committed yet will take is on hand, or the sale has
\* it already; no two such edits take from one lot.
Covered ==
    \A l \in Standing :
        OnHand(l) >= 0 /\ \A s \in Sales : edit[s].takes[l] <= OnHand(l) + sale[s].takes[l]
Exclusive ==
    \A l \in LotIds : \A s, t \in Sales : edit[s].takes[l] > 0 /\ edit[t].takes[l] > 0 => s = t
\* Only sales that were made take goods, and only those are edited.
Edited ==
    /\ \A s \in Sales : sale[s].status = "none" => \A l \in LotIds : sale[s].takes[l] = 0
    /\ \A s \in Sales : IF edit[s].open THEN sale[s].status = "active"
                                        ELSE \A l \in LotIds : edit[s].takes[l] = 0
\* No more of a note is corrected than came, and credited than was sent back;
\* of one that did not come nothing was.
Noted ==
    \A n \in Notes :
        /\ All(lots[n].corrected) <= All(lots[n].received) /\ credited[n] <= All(lots[n].sent)
        /\ All(lots[n].received) = 0 => All(lots[n].sent) = 0

LotsIInv == LotRowsOK /\ Covered /\ Exclusive /\ Edited /\ Noted /\ PayableFollowsGoods

LEMMA MaxOfTwo ==
    ASSUME NEW a \in Int
    PROVE  Max({0, a}) = IF a < 0 THEN 0 ELSE a
  BY DEF Max

LEMMA NotReceived ==
    ASSUME LotRowsOK, NEW l \in LotIds, ~Received(l)
    PROVE  All(lots[l].received) = 0 /\ \A d \in Days : lots[l].received[d] = 0
<1>1. lots[l].received \in [Days -> Nat]
  BY DEF LotRowsOK, LotRecord
<1>2. \A d \in Days : lots[l].received[d] = 0
  BY <1>1 DEF Received
<1> QED
  BY <1>1, <1>2, AllOfNever

\* A change of one lot, by one row.
LEMMA RowChange ==
    ASSUME LotRowsOK, NEW k \in LotIds, NEW row \in LotRecord, lots' = [lots EXCEPT ![k] = row]
    PROVE  lots' \in [LotIds -> LotRecord] /\ lots'[k] = row /\ \A l \in LotIds \ {k} : lots'[l] = lots[l]
  BY DEF LotRowsOK

LEMMA OnHandNow ==
    ASSUME LotRowsOK, NEW l \in LotIds
    PROVE  OnHand(l) = Kept(lots[l]) - Left(l, sale) /\ OnHand(l) \in Int
  BY OnHandIs DEF OnHand, LotRowsOK

LEMMA OnHandNext ==
    ASSUME lots' \in [LotIds -> LotRecord], sale' \in [Sales -> SaleRecord], NEW l \in LotIds
    PROVE  OnHand(l)' = Kept(lots'[l]) - Left(l, sale') /\ OnHand(l)' \in Int
<1>1. OnHand(l)' = Closing(l, MaxDay, lots', sale')
  BY DEF OnHand, Closing, OutOn
<1> QED
  BY <1>1, OnHandIs

\* Goods of a lot go while no edit takes from it, or do not go.
LEMMA CoveredKept ==
    ASSUME LotsIInv, LotRowsOK', UNCHANGED <<sale, edit>>, Standing' \subseteq Standing,
           \A l \in Standing' : OnHand(l)' >= OnHand(l) \/ (Free(l) /\ OnHand(l)' >= 0)
    PROVE  Covered' /\ Exclusive' /\ Edited'
<1>1. Exclusive' /\ Edited'
  BY DEF LotsIInv, Exclusive, Edited
<1>2. ASSUME NEW l \in Standing'
      PROVE  OnHand(l)' >= 0 /\ \A s \in Sales : (edit[s].takes[l])' <= OnHand(l)' + (sale[s].takes[l])'
  <2>1. l \in Standing /\ l \in LotIds
    BY <1>2 DEF Standing, LotIds
  <2>2. OnHand(l) \in Int /\ OnHand(l)' \in Int
    BY <2>1, OnHandNow, OnHandNext DEF LotsIInv, LotRowsOK
  <2>3. \A s \in Sales : edit[s].takes[l] \in Nat /\ sale[s].takes[l] \in Nat
    BY <2>1 DEF LotsIInv, LotRowsOK, SaleRecord, Edits
  <2>4. OnHand(l) >= 0 /\ \A s \in Sales : edit[s].takes[l] <= OnHand(l) + sale[s].takes[l]
    BY <2>1 DEF LotsIInv, Covered
  <2>5. CASE OnHand(l)' >= OnHand(l)
    BY <2>2, <2>3, <2>4, <2>5
  <2>6. CASE Free(l) /\ OnHand(l)' >= 0
    BY <2>2, <2>3, <2>6 DEF Free
  <2> QED
    BY <1>2, <2>5, <2>6
<1> QED
  BY <1>1, <1>2 DEF Covered

\* LPOs' lots change, or none.
LEMMA OthersKept ==
    ASSUME LotsIInv, LotRowsOK', UNCHANGED <<owed, credited, cancelled, sale, edit>>,
           \A l \in Notes \cup Openings : lots'[l] = lots[l]
    PROVE  LotsIInv'
<1>1. ASSUME NEW l \in Standing' PROVE l \in Standing /\ l \in LotIds /\ lots'[l] = lots[l]
  BY <1>1 DEF Standing, LotIds
<1>2. \A l \in Standing' : OnHand(l)' >= OnHand(l)
  BY <1>1, OnHandNow, OnHandNext DEF LotsIInv, LotRowsOK
<1>3. Covered' /\ Exclusive' /\ Edited'
  BY <1>1, <1>2, CoveredKept
<1>4. Noted'
  BY DEF LotsIInv, Noted
<1>5. PayableFollowsGoods'
  BY DEF LotsIInv, PayableFollowsGoods, Accepted
<1> QED
  BY <1>3, <1>4, <1>5 DEF LotsIInv

LEMMA OnHandAfter ==
    ASSUME LotRowsOK, NEW k \in LotIds, NEW row \in LotRecord, lots' = [lots EXCEPT ![k] = row],
           UNCHANGED sale
    PROVE  OnHand(k)' = OnHand(k) + Kept(row) - Kept(lots[k])
<1>1. lots' \in [LotIds -> LotRecord] /\ lots'[k] = row
  BY RowChange
<1>2. OnHand(k) = Kept(lots[k]) - Left(k, sale) /\ OnHand(k)' = Kept(row) - Left(k, sale)
  BY <1>1, OnHandNow, OnHandNext DEF LotRowsOK
<1>3. Kept(lots[k]) \in Int /\ Kept(row) \in Int /\ Left(k, sale) \in Nat
  BY RowTotals, LeftType DEF LotRowsOK
<1> QED
  BY <1>2, <1>3

\* A row of one lot changes: what is on hand stays covered if it grows, or if
\* there was enough of it and no edit takes from it.
LEMMA LotMoves ==
    ASSUME LotsIInv, NEW k \in LotIds, NEW row \in LotRecord, lots' = [lots EXCEPT ![k] = row],
           UNCHANGED <<today, order, sale, edit>>,
           owed' \in [Notes -> Nat], credited' \in [Notes -> Nat],
           cancelled' \in SUBSET Openings, cancelled \subseteq cancelled',
           k \in Standing' => Kept(row) >= Kept(lots[k]) \/ (Free(k) /\ OnHand(k)' >= 0)
    PROVE  /\ LotRowsOK' /\ Covered' /\ Exclusive' /\ Edited'
           /\ lots'[k] = row /\ \A l \in LotIds \ {k} : lots'[l] = lots[l]
<1>1. lots' \in [LotIds -> LotRecord] /\ lots'[k] = row /\ \A l \in LotIds \ {k} : lots'[l] = lots[l]
  BY RowChange DEF LotsIInv
<1>2. LotRowsOK'
  BY <1>1 DEF LotsIInv, LotRowsOK
<1>3. Standing' \subseteq Standing /\ Standing' \subseteq LotIds
  BY DEF Standing, LotIds
<1>4. ASSUME NEW l \in Standing' PROVE OnHand(l)' >= OnHand(l) \/ (Free(l) /\ OnHand(l)' >= 0)
  <2>1. /\ OnHand(l) = Kept(lots[l]) - Left(l, sale) /\ OnHand(l) \in Int
        /\ OnHand(l)' = Kept(lots'[l]) - Left(l, sale) /\ OnHand(l)' \in Int
    BY <1>2, <1>3, OnHandNow, OnHandNext DEF LotsIInv, LotRowsOK
  <2>2. Kept(lots[l]) \in Int /\ Kept(lots'[l]) \in Int /\ Left(l, sale) \in Nat
    BY <1>1, <1>3, RowTotals, LeftType DEF LotsIInv, LotRowsOK
  <2>3. CASE l # k
    BY <1>1, <1>3, <2>1, <2>2, <2>3
  <2>4. CASE l = k
    BY <1>1, <2>1, <2>2, <2>4
  <2> QED
    BY <2>3, <2>4
<1>5. Covered' /\ Exclusive' /\ Edited'
  BY <1>2, <1>3, <1>4, CoveredKept
<1> QED
  BY <1>1, <1>2, <1>5

\* ... and neither what came of a note, was corrected, sent back or credited, nor
\* what is owed for it.
LEMMA LotKept ==
    ASSUME LotsIInv, NEW k \in LotIds, NEW row \in LotRecord, lots' = [lots EXCEPT ![k] = row],
           UNCHANGED <<today, owed, credited, order, sale, edit>>,
           cancelled' \in SUBSET Openings, cancelled \subseteq cancelled',
           k \in Notes => /\ All(row.received) = All(lots[k].received)
                          /\ All(row.corrected) = All(lots[k].corrected)
                          /\ All(row.sent) = All(lots[k].sent),
           k \in Standing' => Kept(row) >= Kept(lots[k]) \/ (Free(k) /\ OnHand(k)' >= 0)
    PROVE  LotsIInv'
<1>1. owed' \in [Notes -> Nat] /\ credited' \in [Notes -> Nat]
  BY DEF LotsIInv, LotRowsOK
<1>2. /\ LotRowsOK' /\ Covered' /\ Exclusive' /\ Edited'
      /\ lots'[k] = row /\ \A l \in LotIds \ {k} : lots'[l] = lots[l]
  BY <1>1, LotMoves
<1>3. ASSUME NEW n \in Notes
      PROVE  /\ All(lots'[n].received) = All(lots[n].received)
             /\ All(lots'[n].corrected) = All(lots[n].corrected)
             /\ All(lots'[n].sent) = All(lots[n].sent)
  BY <1>2, <1>3 DEF LotIds
<1>4. Noted'
  BY <1>3 DEF LotsIInv, Noted
<1>5. PayableFollowsGoods'
  BY <1>3 DEF LotsIInv, PayableFollowsGoods, Accepted
<1> QED
  BY <1>2, <1>4, <1>5 DEF LotsIInv

\* What a change of one day does to a row.
WithReceived(row, d, v) == [row EXCEPT !.received = [@ EXCEPT ![d] = v]]
WithCorrected(row, d, v) == [row EXCEPT !.corrected = [@ EXCEPT ![d] = v]]
WithLost(row, d, v) == [row EXCEPT !.lost = [@ EXCEPT ![d] = v]]
WithSent(row, d, v) == [row EXCEPT !.sent = [@ EXCEPT ![d] = v]]
WithCounted(row, d, v) == [row EXCEPT !.counted = [@ EXCEPT ![d] = v]]

LEMMA ReceivedRow ==
    ASSUME NEW row \in LotRecord, NEW d \in Days, NEW v \in Nat
    PROVE  LET new == WithReceived(row, d, v) IN
           /\ new \in LotRecord /\ Kept(new) = Kept(row) + v - row.received[d]
           /\ All(new.received) = All(row.received) + v - row.received[d]
           /\ All(new.corrected) = All(row.corrected) /\ All(new.sent) = All(row.sent)
<1> DEFINE new == WithReceived(row, d, v)
<1>1. /\ row.received \in [Days -> Int] /\ row.received[d] \in Nat /\ new.received = [row.received EXCEPT ![d] = v]
      /\ new.corrected = row.corrected /\ new.lost = row.lost /\ new.sent = row.sent
      /\ new.counted = row.counted /\ new \in LotRecord
  BY DEF LotRecord, WithReceived
<1>2. All(new.received) = All(row.received) + v - row.received[d]
  BY <1>1, AllChanges
<1> HIDE DEF new
<1> QED
  BY <1>1, <1>2, RowTotals DEF Kept, new

LEMMA CorrectedRow ==
    ASSUME NEW row \in LotRecord, NEW d \in Days, NEW v \in Nat
    PROVE  LET new == WithCorrected(row, d, v) IN
           /\ new \in LotRecord /\ Kept(new) = Kept(row) - v + row.corrected[d]
           /\ All(new.corrected) = All(row.corrected) + v - row.corrected[d]
           /\ All(new.received) = All(row.received) /\ All(new.sent) = All(row.sent)
<1> DEFINE new == WithCorrected(row, d, v)
<1>1. /\ row.corrected \in [Days -> Int] /\ row.corrected[d] \in Nat /\ new.corrected = [row.corrected EXCEPT ![d] = v]
      /\ new.received = row.received /\ new.lost = row.lost /\ new.sent = row.sent
      /\ new.counted = row.counted /\ new \in LotRecord
  BY DEF LotRecord, WithCorrected
<1>2. All(new.corrected) = All(row.corrected) + v - row.corrected[d]
  BY <1>1, AllChanges
<1> HIDE DEF new
<1> QED
  BY <1>1, <1>2, RowTotals DEF Kept, new

LEMMA LostRow ==
    ASSUME NEW row \in LotRecord, NEW d \in Days, NEW v \in Nat
    PROVE  LET new == WithLost(row, d, v) IN
           /\ new \in LotRecord /\ Kept(new) = Kept(row) - v + row.lost[d]
           /\ All(new.received) = All(row.received) /\ All(new.corrected) = All(row.corrected)
           /\ All(new.sent) = All(row.sent)
<1> DEFINE new == WithLost(row, d, v)
<1>1. /\ row.lost \in [Days -> Int] /\ row.lost[d] \in Nat /\ new.lost = [row.lost EXCEPT ![d] = v]
      /\ new.received = row.received /\ new.corrected = row.corrected /\ new.sent = row.sent
      /\ new.counted = row.counted /\ new \in LotRecord
  BY DEF LotRecord, WithLost
<1>2. All(new.lost) = All(row.lost) + v - row.lost[d]
  BY <1>1, AllChanges
<1> HIDE DEF new
<1> QED
  BY <1>1, <1>2, RowTotals DEF Kept, new

LEMMA SentRow ==
    ASSUME NEW row \in LotRecord, NEW d \in Days, NEW v \in Nat
    PROVE  LET new == WithSent(row, d, v) IN
           /\ new \in LotRecord /\ Kept(new) = Kept(row) - v + row.sent[d]
           /\ All(new.sent) = All(row.sent) + v - row.sent[d]
           /\ All(new.received) = All(row.received) /\ All(new.corrected) = All(row.corrected)
<1> DEFINE new == WithSent(row, d, v)
<1>1. /\ row.sent \in [Days -> Int] /\ row.sent[d] \in Nat /\ new.sent = [row.sent EXCEPT ![d] = v]
      /\ new.received = row.received /\ new.corrected = row.corrected /\ new.lost = row.lost
      /\ new.counted = row.counted /\ new \in LotRecord
  BY DEF LotRecord, WithSent
<1>2. All(new.sent) = All(row.sent) + v - row.sent[d]
  BY <1>1, AllChanges
<1> HIDE DEF new
<1> QED
  BY <1>1, <1>2, RowTotals DEF Kept, new

LEMMA CountedRow ==
    ASSUME NEW row \in LotRecord, NEW d \in Days, NEW v \in Int
    PROVE  LET new == WithCounted(row, d, v) IN
           /\ new \in LotRecord /\ Kept(new) = Kept(row) + v - row.counted[d]
           /\ All(new.received) = All(row.received) /\ All(new.corrected) = All(row.corrected)
           /\ All(new.sent) = All(row.sent)
<1> DEFINE new == WithCounted(row, d, v)
<1>1. /\ row.counted \in [Days -> Int] /\ row.counted[d] \in Int /\ new.counted = [row.counted EXCEPT ![d] = v]
      /\ new.received = row.received /\ new.corrected = row.corrected /\ new.lost = row.lost
      /\ new.sent = row.sent /\ new \in LotRecord
  BY DEF LotRecord, WithCounted
<1>2. All(new.counted) = All(row.counted) + v - row.counted[d]
  BY <1>1, AllChanges
<1> HIDE DEF new
<1> QED
  BY <1>1, <1>2, RowTotals DEF Kept, new

-----------------------------------------------------------------------------
(* What the handlers do to it. *)

LEMMA ReceiveKept ==
    ASSUME LotsIInv, NEW n \in Notes, NEW day \in Days, NEW q \in Quantities, RecordNote(n, day, q),
           UNCHANGED <<today, credited, cancelled, order, edit>>, sale' \in [Sales -> SaleRecord]
    PROVE  /\ LotRowsOK' /\ Noted' /\ PayableFollowsGoods'
           /\ Kept(lots'[n]) = Kept(lots[n]) + q /\ \A l \in LotIds \ {n} : lots'[l] = lots[l]
<1> DEFINE new == WithReceived(lots[n], day, q)
<1>1. n \in LotIds /\ q \in Nat /\ q > 0 /\ lots \in [LotIds -> LotRecord] /\ lots[n] \in LotRecord
  BY DEF LotIds, Quantities, LotsIInv, LotRowsOK
<1>2. lots[n].received[day] = 0 /\ All(lots[n].received) = 0
  BY <1>1, NotReceived DEF RecordNote, LotsIInv
<1>3. lots' = [lots EXCEPT ![n] = new]
  BY DEF RecordNote, WithReceived
<1>4. /\ new \in LotRecord /\ Kept(new) = Kept(lots[n]) + q - 0 /\ All(new.received) = 0 + q - 0
      /\ All(new.corrected) = All(lots[n].corrected) /\ All(new.sent) = All(lots[n].sent)
  BY <1>1, <1>2, ReceivedRow
<1> HIDE DEF new
<1>5. lots' \in [LotIds -> LotRecord] /\ lots'[n] = new /\ \A l \in LotIds \ {n} : lots'[l] = lots[l]
  BY <1>1, <1>3, <1>4, RowChange DEF LotsIInv
<1>6. owed' \in [Notes -> Nat] /\ owed'[n] = q /\ \A m \in Notes \ {n} : owed'[m] = owed[m]
  BY <1>1 DEF RecordNote, LotsIInv, LotRowsOK
<1>7. LotRowsOK'
  BY <1>5, <1>6 DEF LotsIInv, LotRowsOK
<1>8. All(lots[n].corrected) = 0 /\ All(lots[n].sent) = 0 /\ credited[n] = 0
  <2>1. /\ All(lots[n].corrected) <= 0 /\ credited[n] <= All(lots[n].sent) /\ All(lots[n].sent) = 0
        /\ credited[n] \in Nat
    BY <1>2 DEF LotsIInv, Noted, LotRowsOK
  <2> QED
    BY <1>1, <2>1, RowTotals
<1>9. Noted'
  BY <1>1, <1>4, <1>5, <1>8 DEF LotsIInv, Noted, LotIds
<1>10. Max({0, q}) = q
  BY <1>1, MaxOfTwo
<1>11. PayableFollowsGoods'
  <2>1. ASSUME NEW m \in Notes PROVE owed'[m] = Max({0, Accepted(m)' - credited[m]})
    <3>1. CASE m = n
      <4>1. Accepted(n)' = All(new.received) - All(new.corrected)
        BY <1>5 DEF Accepted
      <4>2. Accepted(n)' - credited[n] = q
        BY <1>1, <1>4, <1>8, <4>1
      <4> QED
        BY <1>6, <1>10, <3>1, <4>2
    <3>2. CASE m # n
      BY <1>5, <1>6, <3>2 DEF LotsIInv, PayableFollowsGoods, Accepted, LotIds
    <3> QED
      BY <3>1, <3>2
  <2> QED
    BY <2>1 DEF PayableFollowsGoods
<1> QED
  BY <1>1, <1>4, <1>5, <1>7, <1>9, <1>11, RowTotals

LEMMA ReceiveSupplierStockKept ==
    ASSUME LotsIInv, NEW n \in Notes, NEW day \in Days, NEW q \in Quantities, receive_supplier_stock(n, day, q)
    PROVE  LotsIInv'
<1>1. /\ RecordNote(n, day, q) /\ UNCHANGED <<today, credited, cancelled, order, sale, edit>>
      /\ sale' \in [Sales -> SaleRecord]
  BY DEF receive_supplier_stock, LotsIInv, LotRowsOK
<1>2. /\ LotRowsOK' /\ Noted' /\ PayableFollowsGoods'
      /\ Kept(lots'[n]) = Kept(lots[n]) + q /\ \A l \in LotIds \ {n} : lots'[l] = lots[l]
  BY <1>1, ReceiveKept
<1>3. ASSUME NEW l \in Standing' PROVE OnHand(l)' >= OnHand(l)
  <2>1. l \in LotIds
    BY DEF Standing, LotIds
  <2>2. OnHand(l) = Kept(lots[l]) - Left(l, sale) /\ OnHand(l)' = Kept(lots'[l]) - Left(l, sale)
    BY <1>1, <1>2, <2>1, OnHandNow, OnHandNext DEF LotsIInv, LotRowsOK
  <2>3. Kept(lots[l]) \in Int /\ Left(l, sale) \in Nat /\ q \in Nat
    BY <2>1, RowTotals, LeftType DEF LotsIInv, LotRowsOK, Quantities
  <2> QED
    BY <1>2, <2>1, <2>2, <2>3
<1>4. Standing' \subseteq Standing
  BY <1>1 DEF Standing
<1>5. Covered' /\ Exclusive' /\ Edited'
  BY <1>1, <1>2, <1>3, <1>4, CoveredKept
<1> QED
  BY <1>2, <1>5 DEF LotsIInv

LEMMA CorrectReceiptKept ==
    ASSUME LotsIInv, NEW n \in Notes, NEW q \in Quantities, correct_receipt(n, q)
    PROVE  LotsIInv'
<1> DEFINE was == lots[n].corrected[today]
           new == WithCorrected(lots[n], today, was + q)
<1>1. /\ n \in LotIds /\ q \in Nat /\ lots[n] \in LotRecord /\ today \in Days /\ was \in Nat /\ was + q \in Nat
      /\ owed[n] \in Nat /\ credited[n] \in Nat
  BY DEF LotIds, Quantities, LotsIInv, LotRowsOK, LotRecord
<1>2. lots' = [lots EXCEPT ![n] = new]
  BY DEF correct_receipt, WithCorrected
<1>3. /\ new \in LotRecord /\ Kept(new) = Kept(lots[n]) - (was + q) + was
      /\ All(new.corrected) = All(lots[n].corrected) + (was + q) - was
      /\ All(new.received) = All(lots[n].received) /\ All(new.sent) = All(lots[n].sent)
  BY <1>1, CorrectedRow
<1> HIDE DEF new, was
<1>4. /\ Accepted(n) >= q /\ Free(n) /\ q <= OnHand(n) /\ owed' = [owed EXCEPT ![n] = Max({0, owed[n] - q})]
      /\ UNCHANGED <<today, credited, cancelled, order, sale, edit>>
  BY DEF correct_receipt
<1>5. OnHand(n)' >= 0
  <2>1. OnHand(n)' = OnHand(n) + Kept(new) - Kept(lots[n]) /\ OnHand(n) \in Int /\ Kept(lots[n]) \in Int
    BY <1>1, <1>2, <1>3, <1>4, OnHandAfter, OnHandNow, RowTotals DEF LotsIInv
  <2> QED
    BY <1>1, <1>3, <1>4, <2>1
<1>6. Max({0, owed[n] - q}) = IF owed[n] - q < 0 THEN 0 ELSE owed[n] - q
  BY <1>1, MaxOfTwo
<1>7. /\ owed' \in [Notes -> Nat] /\ owed'[n] = Max({0, owed[n] - q}) /\ \A m \in Notes \ {n} : owed'[m] = owed[m]
      /\ credited' \in [Notes -> Nat]
  <2>1. Max({0, owed[n] - q}) \in Nat
    BY <1>1, <1>6
  <2> QED
    BY <1>4, <2>1 DEF LotsIInv, LotRowsOK
<1>8. cancelled' \in SUBSET Openings /\ cancelled \subseteq cancelled'
  BY <1>4 DEF LotsIInv, LotRowsOK
<1>9. /\ LotRowsOK' /\ Covered' /\ Exclusive' /\ Edited'
      /\ lots'[n] = new /\ \A l \in LotIds \ {n} : lots'[l] = lots[l]
  BY <1>1, <1>2, <1>3, <1>4, <1>5, <1>7, <1>8, LotMoves
<1>10. /\ All(lots[n].received) \in Nat /\ All(lots[n].corrected) \in Nat
       /\ All(lots[n].received) - All(lots[n].corrected) >= q
  BY <1>1, <1>4, RowTotals DEF Accepted
<1>11. Noted'
  <2>1. ASSUME NEW m \in Notes
        PROVE  /\ All(lots'[m].corrected) <= All(lots'[m].received) /\ credited'[m] <= All(lots'[m].sent)
               /\ All(lots'[m].received) = 0 => All(lots'[m].sent) = 0
    <3>1. CASE m = n
      <4>1. credited[n] <= All(lots[n].sent) /\ (All(lots[n].received) = 0 => All(lots[n].sent) = 0)
        BY DEF LotsIInv, Noted
      <4>2. All(new.corrected) <= All(new.received)
        BY <1>1, <1>3, <1>10
      <4> QED
        BY <1>3, <1>4, <1>9, <3>1, <4>1, <4>2
    <3>2. CASE m # n
      BY <1>4, <1>9, <3>2 DEF LotsIInv, Noted, LotIds
    <3> QED
      BY <3>1, <3>2
  <2> QED
    BY <2>1 DEF Noted
<1>12. PayableFollowsGoods'
  <2>1. ASSUME NEW m \in Notes PROVE owed'[m] = Max({0, Accepted(m)' - credited[m]})
    <3>1. CASE m = n
      <4>1. Accepted(n)' = All(new.received) - All(new.corrected)
        BY <1>9 DEF Accepted
      <4>2. /\ Accepted(n)' - credited[n] = Accepted(n) - credited[n] - q
            /\ Accepted(n) - credited[n] \in Int
        BY <1>1, <1>3, <1>10, <4>1 DEF Accepted
      <4>3. owed[n] = IF Accepted(n) - credited[n] < 0 THEN 0 ELSE Accepted(n) - credited[n]
        BY <4>2, MaxOfTwo DEF LotsIInv, PayableFollowsGoods
      <4>4. Max({0, Accepted(n)' - credited[n]})
              = IF Accepted(n)' - credited[n] < 0 THEN 0 ELSE Accepted(n)' - credited[n]
        BY <1>1, <4>2, MaxOfTwo
      <4> QED
        BY <1>1, <1>6, <1>7, <3>1, <4>2, <4>3, <4>4
    <3>2. CASE m # n
      BY <1>7, <1>9, <3>2 DEF LotsIInv, PayableFollowsGoods, Accepted, LotIds
    <3> QED
      BY <3>1, <3>2
  <2> QED
    BY <1>4, <2>1 DEF PayableFollowsGoods
<1> QED
  BY <1>9, <1>11, <1>12 DEF LotsIInv

\* A loss on a day.
LEMMA LossKept ==
    ASSUME LotsIInv, NEW l \in LotIds, NEW day \in Days, Leaves(l, [lots EXCEPT ![l].lost[day] = @ + 1])
    PROVE  LotsIInv'
<1> DEFINE was == lots[l].lost[day]
           new == WithLost(lots[l], day, was + 1)
<1>1. lots[l] \in LotRecord /\ was \in Nat
  BY DEF LotsIInv, LotRowsOK, LotRecord
<1>2. lots' = [lots EXCEPT ![l] = new]
  BY DEF Leaves, WithLost
<1>3. /\ new \in LotRecord /\ Kept(new) = Kept(lots[l]) - (was + 1) + was
      /\ All(new.received) = All(lots[l].received) /\ All(new.corrected) = All(lots[l].corrected)
      /\ All(new.sent) = All(lots[l].sent)
  BY <1>1, LostRow
<1> HIDE DEF new, was
<1>4. /\ Free(l) /\ OnHand(l) >= 1 /\ UNCHANGED <<today, owed, credited, cancelled, order, sale, edit>>
  BY DEF Leaves
<1>5. OnHand(l)' >= 0
  <2>1. OnHand(l)' = OnHand(l) + Kept(new) - Kept(lots[l]) /\ OnHand(l) \in Int /\ Kept(lots[l]) \in Int
    BY <1>1, <1>2, <1>3, <1>4, OnHandAfter, OnHandNow, RowTotals DEF LotsIInv
  <2> QED
    BY <1>1, <1>3, <1>4, <2>1
<1>6. cancelled' \in SUBSET Openings /\ cancelled \subseteq cancelled'
  BY <1>4 DEF LotsIInv, LotRowsOK
<1> QED
  BY <1>2, <1>3, <1>4, <1>5, <1>6, LotKept

LEMMA ReturnKept ==
    ASSUME LotsIInv, NEW n \in Notes, NEW day \in Days, return_to_supplier(n, day)
    PROVE  LotsIInv'
<1> DEFINE was == lots[n].sent[day]
           new == WithSent(lots[n], day, was + 1)
<1>1. n \in LotIds /\ lots[n] \in LotRecord /\ was \in Nat
  BY DEF LotIds, LotsIInv, LotRowsOK, LotRecord
<1>2. lots' = [lots EXCEPT ![n] = new]
  BY DEF return_to_supplier, Leaves, WithSent
<1>3. /\ new \in LotRecord /\ Kept(new) = Kept(lots[n]) - (was + 1) + was
      /\ All(new.sent) = All(lots[n].sent) + (was + 1) - was
      /\ All(new.received) = All(lots[n].received) /\ All(new.corrected) = All(lots[n].corrected)
  BY <1>1, SentRow
<1> HIDE DEF new, was
<1>4. /\ Accepted(n) > 0 /\ Free(n) /\ OnHand(n) >= 1
      /\ UNCHANGED <<today, owed, credited, cancelled, order, sale, edit>>
  BY DEF return_to_supplier, Leaves
<1>5. OnHand(n)' >= 0
  <2>1. OnHand(n)' = OnHand(n) + Kept(new) - Kept(lots[n]) /\ OnHand(n) \in Int /\ Kept(lots[n]) \in Int
    BY <1>1, <1>2, <1>3, <1>4, OnHandAfter, OnHandNow, RowTotals DEF LotsIInv
  <2> QED
    BY <1>1, <1>3, <1>4, <2>1
<1>6. /\ cancelled' \in SUBSET Openings /\ cancelled \subseteq cancelled'
      /\ owed' \in [Notes -> Nat] /\ credited' \in [Notes -> Nat]
  BY <1>4 DEF LotsIInv, LotRowsOK
<1>7. /\ LotRowsOK' /\ Covered' /\ Exclusive' /\ Edited'
      /\ lots'[n] = new /\ \A l \in LotIds \ {n} : lots'[l] = lots[l]
  BY <1>1, <1>2, <1>3, <1>4, <1>5, <1>6, LotMoves
<1>8. /\ All(lots[n].received) \in Nat /\ All(lots[n].corrected) \in Nat /\ All(lots[n].sent) \in Nat
      /\ All(lots[n].received) - All(lots[n].corrected) > 0 /\ credited[n] \in Nat
  BY <1>1, <1>4, RowTotals DEF Accepted, LotsIInv, LotRowsOK
<1>9. Noted'
  <2>1. ASSUME NEW m \in Notes
        PROVE  /\ All(lots'[m].corrected) <= All(lots'[m].received) /\ credited'[m] <= All(lots'[m].sent)
               /\ All(lots'[m].received) = 0 => All(lots'[m].sent) = 0
    <3>1. CASE m = n
      <4>1. credited[n] <= All(lots[n].sent) /\ All(lots[n].corrected) <= All(lots[n].received)
        BY DEF LotsIInv, Noted
      <4>2. credited[n] <= All(new.sent) /\ All(new.received) # 0
        BY <1>1, <1>3, <1>8, <4>1
      <4> QED
        BY <1>3, <1>4, <1>7, <3>1, <4>1, <4>2
    <3>2. CASE m # n
      BY <1>4, <1>7, <3>2 DEF LotsIInv, Noted, LotIds
    <3> QED
      BY <3>1, <3>2
  <2> QED
    BY <2>1 DEF Noted
<1>10. ASSUME NEW m \in Notes
       PROVE  All(lots'[m].received) = All(lots[m].received) /\ All(lots'[m].corrected) = All(lots[m].corrected)
  BY <1>3, <1>7, <1>10 DEF LotIds
<1>11. PayableFollowsGoods'
  BY <1>4, <1>10 DEF LotsIInv, PayableFollowsGoods, Accepted
<1> QED
  BY <1>7, <1>9, <1>11 DEF LotsIInv

LEMMA CancelLossKept ==
    ASSUME LotsIInv, NEW l \in LotIds, NEW day \in Days, CancelLoss(l, day)
    PROVE  LotsIInv'
<1> DEFINE was == lots[l].lost[day]
           new == WithLost(lots[l], day, was - 1)
<1>1. lots[l] \in LotRecord /\ was \in Nat /\ was - 1 \in Nat
  BY DEF LotsIInv, LotRowsOK, LotRecord, CancelLoss
<1>2. lots' = [lots EXCEPT ![l] = new]
  BY DEF CancelLoss, WithLost
<1>3. /\ new \in LotRecord /\ Kept(new) = Kept(lots[l]) - (was - 1) + was
      /\ All(new.received) = All(lots[l].received) /\ All(new.corrected) = All(lots[l].corrected)
      /\ All(new.sent) = All(lots[l].sent)
  BY <1>1, LostRow
<1> HIDE DEF new, was
<1>4. UNCHANGED <<today, owed, credited, cancelled, order, sale, edit>>
  BY DEF CancelLoss
<1>5. Kept(new) >= Kept(lots[l])
  BY <1>1, <1>3, RowTotals
<1>6. cancelled' \in SUBSET Openings /\ cancelled \subseteq cancelled'
  BY <1>4 DEF LotsIInv, LotRowsOK
<1> QED
  BY <1>2, <1>3, <1>4, <1>5, <1>6, LotKept

LEMMA CreditKept ==
    ASSUME LotsIInv, NEW n \in Notes, record_credit_note(n)
    PROVE  LotsIInv'
<1>1. /\ credited[n] < All(lots[n].sent) /\ owed[n] >= 1
      /\ credited' = [credited EXCEPT ![n] = @ + 1] /\ owed' = [owed EXCEPT ![n] = @ - 1]
      /\ UNCHANGED <<today, lots, cancelled, order, sale, edit>>
  BY DEF record_credit_note
<1>2. n \in LotIds /\ lots[n] \in LotRecord /\ owed[n] \in Nat /\ credited[n] \in Nat
  BY DEF LotIds, LotsIInv, LotRowsOK
<1>3. LotRowsOK'
  BY <1>1, <1>2 DEF LotsIInv, LotRowsOK
<1>4. Standing' = Standing /\ \A l \in Standing : l \in LotIds /\ OnHand(l)' = OnHand(l) /\ OnHand(l) \in Int
  BY <1>1, <1>3, OnHandNow, OnHandNext DEF LotsIInv, LotRowsOK, Standing, LotIds
<1>5. Covered' /\ Exclusive' /\ Edited'
  BY <1>1, <1>3, <1>4, CoveredKept
<1>6. All(lots[n].sent) \in Nat /\ All(lots[n].received) \in Nat /\ All(lots[n].corrected) \in Nat
  BY <1>2, RowTotals
<1>7. Noted'
  <2>1. ASSUME NEW m \in Notes
        PROVE  /\ All(lots[m].corrected) <= All(lots[m].received) /\ credited'[m] <= All(lots[m].sent)
               /\ All(lots[m].received) = 0 => All(lots[m].sent) = 0
    <3>1. credited'[m] = IF m = n THEN credited[n] + 1 ELSE credited[m]
      BY <1>1 DEF LotsIInv, LotRowsOK
    <3> QED
      BY <1>1, <1>2, <1>6, <3>1 DEF LotsIInv, Noted
  <2> QED
    BY <1>1, <2>1 DEF Noted
<1>8. PayableFollowsGoods'
  <2>1. ASSUME NEW m \in Notes PROVE owed'[m] = Max({0, Accepted(m) - credited'[m]})
    <3>1. CASE m = n
      <4>1. Accepted(n) \in Int /\ owed'[n] = owed[n] - 1 /\ credited'[n] = credited[n] + 1
        BY <1>1, <1>6 DEF Accepted, LotsIInv, LotRowsOK
      <4>2. owed[n] = IF Accepted(n) - credited[n] < 0 THEN 0 ELSE Accepted(n) - credited[n]
        <5>1. owed[n] = Max({0, Accepted(n) - credited[n]})
          BY DEF LotsIInv, PayableFollowsGoods
        <5>2. Accepted(n) - credited[n] \in Int
          BY <1>2, <4>1
        <5> QED
          BY <5>1, <5>2, MaxOfTwo
      <4>3. Max({0, Accepted(n) - credited'[n]})
              = IF Accepted(n) - credited'[n] < 0 THEN 0 ELSE Accepted(n) - credited'[n]
        BY <1>2, <4>1, MaxOfTwo
      <4> QED
        BY <1>1, <1>2, <3>1, <4>1, <4>2, <4>3
    <3>2. CASE m # n
      BY <1>1, <3>2 DEF LotsIInv, LotRowsOK, PayableFollowsGoods
    <3> QED
      BY <3>1, <3>2
  <2> QED
    BY <1>1, <2>1 DEF PayableFollowsGoods, Accepted
<1> QED
  BY <1>3, <1>5, <1>7, <1>8 DEF LotsIInv

LEMMA NoteIsNoOther ==
    ASSUME NEW l \in LotIds
    PROVE  (l \in Lines \cup Openings => l \notin Notes) /\ (l \in Lines => l \notin Openings)
  BY KindsAssumption

LEMMA OrderKept ==
    ASSUME LotsIInv, NEW p \in Lines, NEW status \in LpoStatus, OrderBecomes(p, status)
    PROVE  LotsIInv'
<1>1. LotRowsOK' /\ UNCHANGED <<lots, owed, credited, cancelled, sale, edit>>
  BY DEF OrderBecomes, LotsIInv, LotRowsOK
<1> QED
  BY <1>1, OthersKept

LEMMA ReceiptKept ==
    ASSUME LotsIInv, NEW p \in Lines, NEW day \in Days, NEW q \in Nat,
           lots' = [lots EXCEPT ![p].received[day] = q],
           UNCHANGED <<today, owed, credited, cancelled, order, sale, edit>>
    PROVE  LotsIInv'
<1>1. p \in LotIds /\ lots[p] \in LotRecord
  BY DEF LotIds, LotsIInv, LotRowsOK
<1>2. lots' = [lots EXCEPT ![p] = WithReceived(lots[p], day, q)]
  BY DEF WithReceived
<1>3. WithReceived(lots[p], day, q) \in LotRecord
  BY <1>1, ReceivedRow
<1>4. lots' \in [LotIds -> LotRecord] /\ \A l \in LotIds \ {p} : lots'[l] = lots[l]
  BY <1>1, <1>2, <1>3, RowChange DEF LotsIInv
<1>5. LotRowsOK'
  BY <1>4 DEF LotsIInv, LotRowsOK
<1>6. \A l \in Notes \cup Openings : lots'[l] = lots[l]
  BY <1>1, <1>4, NoteIsNoOther DEF LotIds
<1> QED
  BY <1>5, <1>6, OthersKept

LEMMA OpeningKept ==
    ASSUME LotsIInv, NEW o \in Openings, NEW day \in Days, NEW q \in Quantities, record_opening_stock(o, day, q)
    PROVE  LotsIInv'
<1> DEFINE new == WithReceived(lots[o], day, q)
<1>1. o \in LotIds /\ lots[o] \in LotRecord /\ q \in Nat
  BY DEF LotIds, LotsIInv, LotRowsOK, Quantities
<1>2. lots' = [lots EXCEPT ![o] = new] /\ ~Received(o)
      /\ UNCHANGED <<today, owed, credited, cancelled, order, sale, edit>>
  BY DEF record_opening_stock, WithReceived
<1>3. lots[o].received[day] = 0
  BY <1>1, <1>2, NotReceived DEF LotsIInv
<1>4. new \in LotRecord /\ Kept(new) = Kept(lots[o]) + q - 0
  BY <1>1, <1>3, ReceivedRow
<1> HIDE DEF new
<1>5. Kept(new) >= Kept(lots[o])
  BY <1>1, <1>4, RowTotals
<1>6. cancelled' \in SUBSET Openings /\ cancelled \subseteq cancelled' /\ o \notin Notes
  BY <1>1, <1>2, NoteIsNoOther DEF LotsIInv, LotRowsOK
<1> QED
  BY <1>1, <1>2, <1>4, <1>5, <1>6, LotKept

\* What a count or a loss may not do to the last day.
LEMMA LastDay ==
    ASSUME LotsIInv, NEW l \in LotIds, NEW day \in Days, NeverNegative(l, day, lots'), UNCHANGED sale
    PROVE  OnHand(l)' >= 0
<1>1. MaxDay \in day..MaxDay
  BY BoundsAssumption DEF Days
<1>2. OnHand(l)' = Closing(l, MaxDay, lots', sale)
  BY DEF OnHand, Closing, OutOn
<1> QED
  BY <1>1, <1>2 DEF NeverNegative

LEMMA OpeningLossKept ==
    ASSUME LotsIInv, NEW o \in Openings, NEW day \in Days, record_opening_loss(o, day)
    PROVE  LotsIInv'
<1> DEFINE was == lots[o].lost[day]
           new == WithLost(lots[o], day, was + 1)
<1>1. o \in LotIds /\ lots[o] \in LotRecord /\ was \in Nat /\ was + 1 \in Nat
  BY DEF LotIds, LotsIInv, LotRowsOK, LotRecord
<1>2. /\ lots' = [lots EXCEPT ![o] = new] /\ Free(o) /\ NeverNegative(o, day, lots')
      /\ UNCHANGED <<today, owed, credited, cancelled, order, sale, edit>>
  BY DEF record_opening_loss, WithLost
<1>3. new \in LotRecord
  BY <1>1, LostRow
<1> HIDE DEF new, was
<1>4. OnHand(o)' >= 0
  BY <1>1, <1>2, LastDay
<1>5. cancelled' \in SUBSET Openings /\ cancelled \subseteq cancelled' /\ o \notin Notes
  BY <1>1, <1>2, NoteIsNoOther DEF LotsIInv, LotRowsOK
<1> QED
  BY <1>1, <1>2, <1>3, <1>4, <1>5, LotKept

LEMMA CancelOpeningKept ==
    ASSUME LotsIInv, NEW o \in Openings, cancel_opening_stock(o)
    PROVE  LotsIInv'
<1> DEFINE new == [lots[o] EXCEPT !.received = Never]
<1>1. o \in LotIds /\ new \in LotRecord
  BY DEF LotIds, LotsIInv, LotRowsOK, LotRecord, Never
<1>2. /\ lots' = [lots EXCEPT ![o] = new] /\ cancelled' = cancelled \cup {o}
      /\ UNCHANGED <<today, owed, credited, order, sale, edit>>
  BY DEF cancel_opening_stock
<1> HIDE DEF new
<1>3. cancelled' \in SUBSET Openings /\ cancelled \subseteq cancelled' /\ o \notin Notes /\ o \notin Standing'
  BY <1>1, <1>2, NoteIsNoOther DEF LotsIInv, LotRowsOK, Standing
<1> QED
  BY <1>1, <1>2, <1>3, LotKept

LEMMA CountKept ==
    ASSUME LotsIInv, NEW l \in LotIds, NEW day \in Days, NEW difference \in {1, -1}, record_count(l, day, difference)
    PROVE  LotsIInv'
<1> DEFINE new == WithCounted(lots[l], day, difference)
<1>1. lots[l] \in LotRecord /\ difference \in Int
  BY DEF LotsIInv, LotRowsOK
<1>2. /\ lots' = [lots EXCEPT ![l] = new] /\ Free(l) /\ NeverNegative(l, day, lots')
      /\ UNCHANGED <<today, owed, credited, cancelled, order, sale, edit>>
  BY DEF record_count, WithCounted
<1>3. /\ new \in LotRecord /\ All(new.received) = All(lots[l].received)
      /\ All(new.corrected) = All(lots[l].corrected) /\ All(new.sent) = All(lots[l].sent)
  BY <1>1, CountedRow
<1> HIDE DEF new
<1>4. OnHand(l)' >= 0
  BY <1>2, LastDay
<1>5. cancelled' \in SUBSET Openings /\ cancelled \subseteq cancelled'
  BY <1>2 DEF LotsIInv, LotRowsOK
<1> QED
  BY <1>2, <1>3, <1>4, <1>5, LotKept

LEMMA CancelAdjustmentKept ==
    ASSUME LotsIInv, NEW l \in LotIds, NEW day \in Days, cancel_adjustment(l, day)
    PROVE  LotsIInv'
<1>1. lots[l] \in LotRecord /\ lots[l].lost[day] \in Nat
  BY DEF LotsIInv, LotRowsOK, LotRecord
<1>2. /\ lots' = Adjusted(l, day) /\ Free(l) /\ NeverNegative(l, day, lots')
      /\ UNCHANGED <<today, owed, credited, cancelled, order, sale, edit>>
  BY DEF cancel_adjustment
<1>3. PICK row \in LotRecord :
        /\ lots' = [lots EXCEPT ![l] = row] /\ All(row.received) = All(lots[l].received)
        /\ All(row.corrected) = All(lots[l].corrected) /\ All(row.sent) = All(lots[l].sent)
  <2>1. CASE lots[l].counted[day] # 0
    <3>1. lots' = [lots EXCEPT ![l] = WithCounted(lots[l], day, 0)]
      BY <1>2, <2>1 DEF Adjusted, WithCounted
    <3>2. /\ WithCounted(lots[l], day, 0) \in LotRecord
          /\ All(WithCounted(lots[l], day, 0).received) = All(lots[l].received)
          /\ All(WithCounted(lots[l], day, 0).corrected) = All(lots[l].corrected)
          /\ All(WithCounted(lots[l], day, 0).sent) = All(lots[l].sent)
      BY <1>1, CountedRow
    <3> QED
      BY <3>1, <3>2
  <2>2. CASE lots[l].counted[day] = 0
    <3> DEFINE v == lots[l].lost[day] - 1
    <3>1. lots' = [lots EXCEPT ![l] = WithLost(lots[l], day, v)]
      BY <1>2, <2>2 DEF Adjusted, WithLost
    <3>2. v \in Nat
      BY <1>1, <2>2 DEF cancel_adjustment
    <3> HIDE DEF v
    <3>3. /\ WithLost(lots[l], day, v) \in LotRecord
          /\ All(WithLost(lots[l], day, v).received) = All(lots[l].received)
          /\ All(WithLost(lots[l], day, v).corrected) = All(lots[l].corrected)
          /\ All(WithLost(lots[l], day, v).sent) = All(lots[l].sent)
      BY <1>1, <3>2, LostRow
    <3> QED
      BY <3>1, <3>3
  <2> QED
    BY <2>1, <2>2
<1>4. OnHand(l)' >= 0
  BY <1>2, LastDay
<1>5. cancelled' \in SUBSET Openings /\ cancelled \subseteq cancelled'
  BY <1>2 DEF LotsIInv, LotRowsOK
<1> QED
  BY <1>2, <1>3, <1>4, <1>5, LotKept

-----------------------------------------------------------------------------
(* What sales do to it. *)

LEMMA LeftChanges ==
    ASSUME LotRowsOK, NEW s \in Sales, NEW r \in SaleRecord, NEW l \in LotIds,
           sale' = [sale EXCEPT ![s] = r]
    PROVE  Left(l, sale') = Left(l, sale) + (r.takes[l] + r.gone[l]) - (sale[s].takes[l] + sale[s].gone[l])
<1>1. sale' \in [Sales -> SaleRecord] /\ sale'[s] = r /\ \A t \in Sales \ {s} : sale'[t] = sale[t]
  BY DEF LotRowsOK
<1>2. IntegerOn(OutOf(l, sale), Sales) /\ IntegerOn(OutOf(l, sale'), Sales)
  BY <1>1, LeftType DEF LotRowsOK
<1>3. /\ OutOf(l, sale')[s] = r.takes[l] + r.gone[l] /\ OutOf(l, sale)[s] = sale[s].takes[l] + sale[s].gone[l]
      /\ \A t \in Sales \ {s} : OutOf(l, sale')[t] = OutOf(l, sale)[t]
  BY <1>1 DEF OutOf
<1> DEFINE f == OutOf(l, sale)
           g == OutOf(l, sale')
<1>4. Left(l, sale) = SumFunctionOnSet(f, Sales) /\ Left(l, sale') = SumFunctionOnSet(g, Sales)
  BY DEF Left
<1> HIDE DEF f, g
<1>5. SumFunctionOnSet(g, Sales) = SumFunctionOnSet(f, Sales) + g[s] - f[s]
  <2>1. IntegerOn(f, Sales) /\ IntegerOn(g, Sales) /\ \A t \in Sales \ {s} : g[t] = f[t]
    BY <1>2, <1>3 DEF f, g
  <2> QED
    BY <2>1, SalesAssumption, SumChange
<1> QED
  BY <1>3, <1>4, <1>5 DEF f, g

\* A sale is made, edited or cancelled; the notes and openings keep their rows.
LEMMA SaleMoves ==
    ASSUME LotsIInv, NEW s \in Sales, NEW r \in SaleRecord, sale' = [sale EXCEPT ![s] = r],
           lots' \in [LotIds -> LotRecord], edit' \in [Sales -> Edits],
           \A l \in Notes \cup Openings : lots'[l] = lots[l],
           UNCHANGED <<today, owed, credited, cancelled, order>>
    PROVE  /\ LotRowsOK' /\ Noted' /\ PayableFollowsGoods'
           /\ Standing' = Standing /\ Standing \subseteq LotIds
           /\ \A l \in Standing : /\ OnHand(l) \in Nat /\ OnHand(l)' \in Int
                                  /\ OnHand(l)' = OnHand(l) + (sale[s].takes[l] + sale[s].gone[l])
                                                            - (r.takes[l] + r.gone[l])
<1>1. LotRowsOK' /\ sale' \in [Sales -> SaleRecord]
  BY DEF LotsIInv, LotRowsOK
<1>2. Noted'
  BY DEF LotsIInv, Noted
<1>3. PayableFollowsGoods'
  BY DEF LotsIInv, PayableFollowsGoods, Accepted
<1>4. Standing' = Standing /\ Standing \subseteq LotIds /\ Standing \subseteq Notes \cup Openings
  BY DEF Standing, LotIds
<1>5. ASSUME NEW l \in Standing
      PROVE  /\ OnHand(l) \in Nat /\ OnHand(l)' \in Int
             /\ OnHand(l)' = OnHand(l) + (sale[s].takes[l] + sale[s].gone[l]) - (r.takes[l] + r.gone[l])
  <2>1. l \in LotIds /\ lots'[l] = lots[l]
    BY <1>4
  <2>2. /\ OnHand(l) = Kept(lots[l]) - Left(l, sale) /\ OnHand(l) \in Int /\ OnHand(l) >= 0
        /\ OnHand(l)' = Kept(lots'[l]) - Left(l, sale') /\ OnHand(l)' \in Int
    BY <1>1, <2>1, OnHandNow, OnHandNext DEF LotsIInv, LotRowsOK, Covered
  <2>3. Left(l, sale') = Left(l, sale) + (r.takes[l] + r.gone[l]) - (sale[s].takes[l] + sale[s].gone[l])
    BY <2>1, LeftChanges DEF LotsIInv
  <2>4. /\ Kept(lots[l]) \in Int /\ Left(l, sale) \in Nat
        /\ sale[s].takes[l] \in Nat /\ sale[s].gone[l] \in Nat /\ r.takes[l] \in Nat /\ r.gone[l] \in Nat
    <3>1. sale[s] \in SaleRecord /\ sale \in [Sales -> SaleRecord] /\ lots[l] \in LotRecord
      BY <2>1 DEF LotsIInv, LotRowsOK
    <3>2. sale[s].takes[l] \in Nat /\ sale[s].gone[l] \in Nat /\ r.takes[l] \in Nat /\ r.gone[l] \in Nat
      BY <2>1, <3>1 DEF SaleRecord
    <3> QED
      BY <2>1, <3>1, <3>2, RowTotals, LeftType
  <2> QED
    BY <2>1, <2>2, <2>3, <2>4
<1> QED
  BY <1>1, <1>2, <1>3, <1>4, <1>5

LEMMA TakingsType ==
    ASSUME NEW takes \in Takings
    PROVE  takes \in [LotIds -> Nat]
<1>1. takes \in [LotIds -> 0..MaxQuantity]
  BY DEF Takings
<1> QED
  BY <1>1, BoundsAssumption

LEMMA RecordSaleKept ==
    ASSUME LotsIInv, NEW s \in Sales, NEW day \in Days, NEW takes \in Takings, NEW money,
           record_sale(s, day, takes, money)
    PROVE  LotsIInv'
<1> DEFINE r == [sale[s] EXCEPT !.status = "active", !.on = day, !.takes = takes]
<1>1. takes \in [LotIds -> Nat]
  BY TakingsType
<1>2. /\ r \in SaleRecord /\ r.takes = takes /\ r.gone = sale[s].gone /\ r.status = "active"
      /\ sale' = [sale EXCEPT ![s] = r] /\ sale[s].status = "none"
      /\ \A l \in Touched(takes) : Free(l) /\ takes[l] <= OnHand(l)
      /\ UNCHANGED <<today, lots, owed, credited, cancelled, order, edit>>
  BY <1>1 DEF LotsIInv, LotRowsOK, SaleRecord, record_sale
<1> HIDE DEF r
<1>3. lots' \in [LotIds -> LotRecord] /\ edit' \in [Sales -> Edits] /\ sale \in [Sales -> SaleRecord]
  BY <1>2 DEF LotsIInv, LotRowsOK
<1>4. /\ LotRowsOK' /\ Noted' /\ PayableFollowsGoods'
      /\ Standing' = Standing /\ Standing \subseteq LotIds
      /\ \A l \in Standing : /\ OnHand(l) \in Nat /\ OnHand(l)' \in Int
                             /\ OnHand(l)' = OnHand(l) + (sale[s].takes[l] + sale[s].gone[l])
                                                       - (r.takes[l] + r.gone[l])
  BY <1>2, <1>3, SaleMoves
<1>5. \A l \in LotIds : sale[s].takes[l] = 0 /\ sale[s].gone[l] \in Nat
  BY <1>2 DEF LotsIInv, Edited, LotRowsOK, SaleRecord
<1>6. \A t \in Sales : sale'[t] = IF t = s THEN r ELSE sale[t]
  BY <1>2, <1>3
<1>7. Covered'
  <2>1. ASSUME NEW l \in Standing
        PROVE  OnHand(l)' >= 0 /\ \A t \in Sales : edit[t].takes[l] <= OnHand(l)' + sale'[t].takes[l]
    <3>1. OnHand(l)' = OnHand(l) - takes[l] /\ OnHand(l) \in Nat /\ takes[l] \in Nat /\ l \in LotIds
      BY <1>1, <1>2, <1>4, <1>5, <2>1
    <3>2. \A t \in Sales : /\ edit[t].takes[l] \in Nat /\ sale[t].takes[l] \in Nat /\ sale'[t].takes[l] \in Nat
                           /\ edit[t].takes[l] <= OnHand(l) + sale[t].takes[l]
      BY <1>1, <1>2, <1>6, <2>1, <3>1 DEF LotsIInv, LotRowsOK, Covered, Edits, SaleRecord
    <3>3. CASE takes[l] = 0
      BY <1>2, <1>5, <1>6, <3>1, <3>2, <3>3
    <3>4. CASE takes[l] > 0
      <4>1. takes[l] <= OnHand(l) /\ \A t \in Sales : edit[t].takes[l] = 0
        BY <1>2, <3>1, <3>4 DEF Touched, Free
      <4> QED
        BY <3>1, <3>2, <4>1
    <3> QED
      BY <3>1, <3>3, <3>4
  <2> QED
    BY <1>2, <1>4, <2>1 DEF Covered
<1>8. Exclusive'
  BY <1>2 DEF LotsIInv, Exclusive
<1>9. Edited'
  BY <1>2, <1>6 DEF LotsIInv, Edited
<1> QED
  BY <1>4, <1>7, <1>8, <1>9 DEF LotsIInv

LEMMA RecordCollectedKept ==
    ASSUME LotsIInv, NEW s \in Sales, NEW n \in Notes, NEW day \in Days, NEW q \in Quantities,
           NEW money, record_sale_collected(s, n, day, q, money)
    PROVE  LotsIInv'
<1> DEFINE takes == [sale[s].takes EXCEPT ![n] = q]
           r == [sale[s] EXCEPT !.status = "active", !.on = day, !.takes = takes]
<1>1. n \in LotIds /\ q \in Nat /\ sale[s] \in SaleRecord /\ sale \in [Sales -> SaleRecord]
  BY DEF LotIds, Quantities, LotsIInv, LotRowsOK
<1>2. takes \in [LotIds -> Nat] /\ takes[n] = q /\ \A l \in LotIds \ {n} : takes[l] = sale[s].takes[l]
  BY <1>1 DEF SaleRecord
<1>3. /\ RecordNote(n, day, q) /\ sale[s].status = "none" /\ sale' = [sale EXCEPT ![s] = r]
      /\ UNCHANGED <<today, credited, cancelled, order, edit>>
  BY DEF record_sale_collected
<1> HIDE DEF takes
<1>4. r \in SaleRecord /\ r.takes = takes /\ r.gone = sale[s].gone /\ r.status = "active"
  BY <1>1, <1>2 DEF SaleRecord
<1> HIDE DEF r
<1>5. sale' \in [Sales -> SaleRecord] /\ \A t \in Sales : sale'[t] = IF t = s THEN r ELSE sale[t]
  BY <1>1, <1>3, <1>4
<1>6. /\ LotRowsOK' /\ Noted' /\ PayableFollowsGoods'
      /\ Kept(lots'[n]) = Kept(lots[n]) + q /\ \A l \in LotIds \ {n} : lots'[l] = lots[l]
  BY <1>3, <1>5, ReceiveKept
<1>7. \A l \in LotIds : sale[s].takes[l] = 0 /\ sale[s].gone[l] \in Nat
  BY <1>1, <1>3 DEF LotsIInv, Edited, SaleRecord
<1>8. Standing' = Standing /\ Standing \subseteq LotIds
  BY <1>3 DEF Standing, LotIds
<1>9. ASSUME NEW l \in Standing PROVE OnHand(l)' = OnHand(l) /\ OnHand(l) \in Int
  <2>1. l \in LotIds
    BY <1>8
  <2>2. /\ OnHand(l) = Kept(lots[l]) - Left(l, sale) /\ OnHand(l) \in Int
        /\ OnHand(l)' = Kept(lots'[l]) - Left(l, sale')
    BY <1>5, <1>6, <2>1, OnHandNow, OnHandNext DEF LotsIInv, LotRowsOK
  <2>3. Left(l, sale') = Left(l, sale) + (r.takes[l] + r.gone[l]) - (sale[s].takes[l] + sale[s].gone[l])
    BY <1>3, <1>4, <2>1, LeftChanges DEF LotsIInv
  <2>4. Left(l, sale') = Left(l, sale) + takes[l] /\ takes[l] = IF l = n THEN q ELSE 0
    <3>1. Left(l, sale) \in Nat /\ takes[l] \in Nat
      BY <1>1, <1>2, <2>1, LeftType
    <3> QED
      BY <1>2, <1>4, <1>7, <2>1, <2>3, <3>1
  <2>5. Kept(lots'[l]) = Kept(lots[l]) + takes[l] /\ Kept(lots[l]) \in Int /\ Left(l, sale) \in Nat
    <3>1. Kept(lots[l]) \in Int /\ Left(l, sale) \in Nat
      BY <1>1, <2>1, RowTotals, LeftType DEF LotsIInv, LotRowsOK
    <3> QED
      BY <1>6, <2>1, <2>4, <3>1
  <2> QED
    BY <1>1, <1>2, <2>1, <2>2, <2>4, <2>5
<1>10. Covered'
  <2>1. ASSUME NEW l \in Standing
        PROVE  OnHand(l)' >= 0 /\ \A t \in Sales : edit[t].takes[l] <= OnHand(l)' + sale'[t].takes[l]
    <3>1. l \in LotIds
      BY <1>8
    <3>2. OnHand(l) >= 0 /\ \A t \in Sales : edit[t].takes[l] <= OnHand(l) + sale[t].takes[l]
      BY <2>1 DEF LotsIInv, Covered
    <3>3. \A t \in Sales : edit[t].takes[l] \in Nat /\ sale[t].takes[l] \in Nat /\ sale'[t].takes[l] \in Nat
      BY <1>1, <1>2, <1>4, <1>5, <3>1 DEF LotsIInv, LotRowsOK, Edits, SaleRecord
    <3>4. \A t \in Sales : sale'[t].takes[l] >= sale[t].takes[l]
      BY <1>4, <1>5, <1>7, <3>1, <3>3
    <3> QED
      BY <1>9, <2>1, <3>2, <3>3, <3>4
  <2> QED
    BY <1>3, <1>8, <2>1 DEF Covered
<1>11. Exclusive'
  BY <1>3 DEF LotsIInv, Exclusive
<1>12. Edited'
  BY <1>3, <1>4, <1>5 DEF LotsIInv, Edited
<1> QED
  BY <1>6, <1>10, <1>11, <1>12 DEF LotsIInv

\* What a sale gives up when it is to take `takes`.
LEMMA TakenOffIs ==
    ASSUME LotRowsOK, NEW s \in Sales, NEW takes \in [LotIds -> Nat], NEW goods \in GoodsOutcomes
    PROVE  /\ \A l \in LotIds : Off(s, takes, l)
                 = IF sale[s].takes[l] - takes[l] < 0 THEN 0 ELSE sale[s].takes[l] - takes[l]
           /\ TakenOff(s, takes, goods) \in SaleRecord
           /\ TakenOff(s, takes, goods).takes = takes
           /\ TakenOff(s, takes, goods).status = sale[s].status
           /\ \A l \in LotIds : TakenOff(s, takes, goods).gone[l]
                 <= sale[s].gone[l] + IF sale[s].takes[l] - takes[l] < 0 THEN 0 ELSE sale[s].takes[l] - takes[l]
           /\ LotsAfter(s, takes, goods) \in [LotIds -> LotRecord]
           /\ \A l \in Notes \cup Openings : LotsAfter(s, takes, goods)[l] = lots[l]
<1>1. sale[s] \in SaleRecord /\ today \in Days /\ lots \in [LotIds -> LotRecord]
  BY DEF LotRowsOK
<1>2. ASSUME NEW l \in LotIds
      PROVE  Off(s, takes, l) = IF sale[s].takes[l] - takes[l] < 0 THEN 0 ELSE sale[s].takes[l] - takes[l]
  <2>1. sale[s].takes[l] - takes[l] \in Int
    BY <1>1 DEF SaleRecord
  <2> QED
    BY <2>1, MaxOfTwo DEF Off
<1>3. ASSUME NEW l \in LotIds PROVE Off(s, takes, l) \in Nat
  BY <1>1, <1>2 DEF SaleRecord
<1> DEFINE some(l) == IF l \in Lines THEN 0 ELSE Off(s, takes, l)
           back == [l \in LotIds |-> IF goods = "buyer_return_accepted"
                                     THEN AddedOn(sale[s].back[l], today, some(l)) ELSE sale[s].back[l]]
           gone == [l \in LotIds |-> IF goods = "not_recovered" THEN sale[s].gone[l] + some(l)
                                                                ELSE sale[s].gone[l]]
<1>4. \A l \in LotIds : some(l) \in Nat /\ some(l) <= Off(s, takes, l)
  BY <1>3
<1>5. TakenOff(s, takes, goods) = [sale[s] EXCEPT !.takes = takes, !.back = back, !.gone = gone]
  BY <1>1 DEF TakenOff
<1> HIDE DEF some
<1>6. back \in [LotIds -> [Days -> Nat]]
  BY <1>1, <1>4 DEF SaleRecord, AddedOn
<1>7. gone \in [LotIds -> Nat] /\ \A l \in LotIds : gone[l] <= sale[s].gone[l] + Off(s, takes, l)
  BY <1>1, <1>3, <1>4 DEF SaleRecord
<1> HIDE DEF back, gone
<1>8. /\ TakenOff(s, takes, goods) \in SaleRecord /\ TakenOff(s, takes, goods).takes = takes
      /\ TakenOff(s, takes, goods).status = sale[s].status /\ TakenOff(s, takes, goods).gone = gone
  BY <1>1, <1>5, <1>6, <1>7 DEF SaleRecord
<1>9. /\ LotsAfter(s, takes, goods) \in [LotIds -> LotRecord]
      /\ \A l \in Notes \cup Openings : LotsAfter(s, takes, goods)[l] = lots[l]
  <2>1. ASSUME NEW l \in LotIds
        PROVE  /\ LotsAfter(s, takes, goods)[l] \in LotRecord
               /\ l \notin Lines => LotsAfter(s, takes, goods)[l] = lots[l]
    <3>1. lots[l] \in LotRecord /\ lots[l].lost[today] \in Nat
      BY <1>1 DEF LotRecord
    <3> DEFINE more == lots[l].lost[today] + Off(s, takes, l)
    <3>2. LotsAfter(s, takes, goods)[l] = IF l \in Lines /\ goods = "not_recovered"
                                          THEN WithLost(lots[l], today, more) ELSE lots[l]
      BY DEF LotsAfter, WithLost
    <3>3. more \in Nat
      BY <1>3, <3>1
    <3> HIDE DEF more
    <3>4. WithLost(lots[l], today, more) \in LotRecord
      BY <1>1, <3>1, <3>3, LostRow
    <3> QED
      BY <3>1, <3>2, <3>4
  <2>2. \A l \in Notes \cup Openings : l \in LotIds /\ l \notin Lines
    BY KindsAssumption DEF LotIds
  <2>3. LotsAfter(s, takes, goods) = [l \in LotIds |-> LotsAfter(s, takes, goods)[l]]
    BY DEF LotsAfter
  <2> QED
    BY <2>1, <2>2, <2>3
<1> QED
  BY <1>2, <1>7, <1>8, <1>9

LEMMA UpdateChecksKept ==
    ASSUME LotsIInv, NEW s \in Sales, NEW day \in Days, NEW takes \in Takings, NEW goods \in GoodsOutcomes,
           NEW reason, update_sale_checks(s, day, takes, goods, reason)
    PROVE  LotsIInv'
<1> DEFINE e == [open |-> TRUE, on |-> day, takes |-> takes, goods |-> goods]
<1>1. takes \in [LotIds -> Nat]
  BY TakingsType
<1>2. /\ edit' = [edit EXCEPT ![s] = e] /\ sale[s].status = "active"
      /\ \A l \in Touched(takes) : Free(l) /\ takes[l] - sale[s].takes[l] <= OnHand(l)
      /\ UNCHANGED <<today, lots, owed, credited, cancelled, order, sale>>
  BY DEF update_sale_checks
<1>3. e \in Edits
  BY <1>1 DEF Edits
<1> HIDE DEF e
<1>4. edit' \in [Sales -> Edits] /\ \A t \in Sales : edit'[t] = IF t = s THEN e ELSE edit[t]
  BY <1>2, <1>3 DEF LotsIInv, LotRowsOK
<1>5. LotRowsOK'
  BY <1>2, <1>4 DEF LotsIInv, LotRowsOK
<1>6. e.takes = takes /\ e.open
  BY DEF e
<1>7. Covered'
  <2>1. ASSUME NEW l \in Standing
        PROVE  OnHand(l)' >= 0 /\ \A t \in Sales : edit'[t].takes[l] <= OnHand(l)' + sale[t].takes[l]
    <3>1. l \in LotIds /\ OnHand(l)' = OnHand(l)
      BY <1>2, <1>5, <2>1, OnHandNow, OnHandNext DEF Standing, LotIds, LotsIInv, LotRowsOK
    <3>2. OnHand(l) \in Nat /\ \A t \in Sales : edit[t].takes[l] <= OnHand(l) + sale[t].takes[l]
      BY <2>1, <3>1, OnHandNow DEF LotsIInv, Covered
    <3>3. takes[l] <= OnHand(l) + sale[s].takes[l]
      <4>1. takes[l] \in Nat /\ sale[s].takes[l] \in Nat
        BY <1>1, <3>1 DEF LotsIInv, LotRowsOK, SaleRecord
      <4>2. takes[l] > 0 => takes[l] - sale[s].takes[l] <= OnHand(l)
        BY <1>2, <3>1 DEF Touched
      <4> QED
        BY <3>2, <4>1, <4>2
    <3> QED
      BY <1>4, <1>6, <3>1, <3>2, <3>3
  <2> QED
    BY <1>2, <2>1 DEF Covered, Standing
<1>8. Exclusive'
  <2>1. ASSUME NEW l \in LotIds, NEW t \in Sales, NEW u \in Sales, edit'[t].takes[l] > 0, edit'[u].takes[l] > 0
        PROVE  t = u
    <3>1. takes[l] > 0 => \A x \in Sales : edit[x].takes[l] = 0
      BY <1>2 DEF Touched, Free
    <3> QED
      BY <1>4, <1>6, <2>1, <3>1 DEF LotsIInv, Exclusive
  <2> QED
    BY <2>1 DEF Exclusive
<1>9. Edited'
  BY <1>2, <1>4, <1>6 DEF LotsIInv, Edited
<1>10. Noted'
  BY <1>2 DEF LotsIInv, Noted
<1>11. PayableFollowsGoods'
  BY <1>2 DEF LotsIInv, PayableFollowsGoods, Accepted
<1> QED
  BY <1>5, <1>7, <1>8, <1>9, <1>10, <1>11 DEF LotsIInv

LEMMA UpdateCommitsKept ==
    ASSUME LotsIInv, NEW s \in Sales, update_sale_commits(s)
    PROVE  LotsIInv'
<1> DEFINE takes == edit[s].takes
           goods == edit[s].goods
           r == [TakenOff(s, takes, goods) EXCEPT !.on = edit[s].on]
<1>1. /\ edit[s].open /\ sale' = [sale EXCEPT ![s] = r] /\ lots' = LotsAfter(s, takes, goods)
      /\ edit' = [edit EXCEPT ![s] = NoEdit] /\ UNCHANGED <<today, owed, credited, cancelled, order>>
  BY DEF update_sale_commits
<1>2. takes \in [LotIds -> Nat] /\ goods \in GoodsOutcomes /\ edit[s].on \in Days
  BY DEF LotsIInv, LotRowsOK, Edits
<1> HIDE DEF takes, goods
<1>3. /\ TakenOff(s, takes, goods) \in SaleRecord /\ TakenOff(s, takes, goods).takes = takes
      /\ TakenOff(s, takes, goods).status = sale[s].status
      /\ \A l \in LotIds : TakenOff(s, takes, goods).gone[l]
             <= sale[s].gone[l] + IF sale[s].takes[l] - takes[l] < 0 THEN 0 ELSE sale[s].takes[l] - takes[l]
      /\ LotsAfter(s, takes, goods) \in [LotIds -> LotRecord]
      /\ \A l \in Notes \cup Openings : LotsAfter(s, takes, goods)[l] = lots[l]
  BY <1>2, TakenOffIs DEF LotsIInv
<1>4. /\ r \in SaleRecord /\ r.takes = takes /\ r.status = "active"
      /\ r.gone = TakenOff(s, takes, goods).gone
  BY <1>1, <1>2, <1>3 DEF SaleRecord, LotsIInv, Edited
<1> HIDE DEF r
<1>5. NoEdit \in Edits /\ ~NoEdit.open /\ \A l \in LotIds : NoEdit.takes[l] = 0
  BY BoundsAssumption DEF NoEdit, Edits, NoGoods, Days, GoodsOutcomes
<1>6. edit' \in [Sales -> Edits] /\ \A t \in Sales : edit'[t] = IF t = s THEN NoEdit ELSE edit[t]
  BY <1>1, <1>5 DEF LotsIInv, LotRowsOK
<1>7. \A t \in Sales : sale'[t] = IF t = s THEN r ELSE sale[t]
  BY <1>1 DEF LotsIInv, LotRowsOK
<1>8. /\ LotRowsOK' /\ Noted' /\ PayableFollowsGoods'
      /\ Standing' = Standing /\ Standing \subseteq LotIds
      /\ \A l \in Standing : /\ OnHand(l) \in Nat /\ OnHand(l)' \in Int
                             /\ OnHand(l)' = OnHand(l) + (sale[s].takes[l] + sale[s].gone[l])
                                                       - (r.takes[l] + r.gone[l])
  BY <1>1, <1>3, <1>4, <1>6, SaleMoves
<1>9. Covered'
  <2>1. ASSUME NEW l \in Standing
        PROVE  OnHand(l)' >= 0 /\ \A t \in Sales : edit'[t].takes[l] <= OnHand(l)' + sale'[t].takes[l]
    <3>1. l \in LotIds
      BY <1>8
    <3>2. /\ takes[l] \in Nat /\ sale[s].takes[l] \in Nat /\ sale[s].gone[l] \in Nat /\ r.gone[l] \in Nat
          /\ r.takes[l] = takes[l]
          /\ r.gone[l] <= sale[s].gone[l]
                + IF sale[s].takes[l] - takes[l] < 0 THEN 0 ELSE sale[s].takes[l] - takes[l]
      BY <1>2, <1>3, <1>4, <3>1 DEF LotsIInv, LotRowsOK, SaleRecord
    <3>3. takes[l] <= OnHand(l) + sale[s].takes[l]
      BY <2>1 DEF LotsIInv, Covered, takes
    <3>4. OnHand(l)' >= 0 /\ (takes[l] = 0 => OnHand(l)' >= OnHand(l))
      BY <1>8, <2>1, <3>2, <3>3
    <3>5. ASSUME NEW t \in Sales PROVE edit'[t].takes[l] <= OnHand(l)' + sale'[t].takes[l]
      <4>1. CASE t = s
        BY <1>4, <1>5, <1>6, <1>7, <1>8, <2>1, <3>1, <3>2, <3>4, <4>1
      <4>2. CASE t # s
        <5>1. edit'[t] = edit[t] /\ sale'[t] = sale[t] /\ edit[t].takes[l] \in Nat /\ sale[t].takes[l] \in Nat
          BY <1>6, <1>7, <3>1, <4>2 DEF LotsIInv, LotRowsOK, Edits, SaleRecord
        <5>2. edit[t].takes[l] <= OnHand(l) + sale[t].takes[l]
          BY <2>1 DEF LotsIInv, Covered
        <5>3. edit[t].takes[l] > 0 => takes[l] = 0
          BY <3>1, <3>2, <4>2 DEF LotsIInv, Exclusive, takes
        <5> QED
          BY <1>8, <2>1, <3>4, <5>1, <5>2, <5>3
      <4> QED
        BY <4>1, <4>2
    <3> QED
      BY <3>4, <3>5
  <2> QED
    BY <1>8, <2>1 DEF Covered
<1>10. Exclusive'
  BY <1>5, <1>6 DEF LotsIInv, Exclusive
<1>11. Edited'
  BY <1>4, <1>5, <1>6, <1>7 DEF LotsIInv, Edited
<1> QED
  BY <1>8, <1>9, <1>10, <1>11 DEF LotsIInv

LEMMA CancelSaleKept ==
    ASSUME LotsIInv, NEW s \in Sales, NEW goods \in GoodsOutcomes, cancel_sale(s, goods)
    PROVE  LotsIInv'
<1> DEFINE r == [TakenOff(s, NoGoods, goods) EXCEPT !.status = "cancelled"]
<1>1. /\ ~edit[s].open /\ sale' = [sale EXCEPT ![s] = r] /\ lots' = LotsAfter(s, NoGoods, goods)
      /\ UNCHANGED <<today, owed, credited, cancelled, order, edit>>
  BY DEF cancel_sale
<1>2. NoGoods \in [LotIds -> Nat] /\ \A l \in LotIds : NoGoods[l] = 0
  BY DEF NoGoods
<1>3. /\ TakenOff(s, NoGoods, goods) \in SaleRecord /\ TakenOff(s, NoGoods, goods).takes = NoGoods
      /\ \A l \in LotIds : TakenOff(s, NoGoods, goods).gone[l]
             <= sale[s].gone[l] + IF sale[s].takes[l] - NoGoods[l] < 0 THEN 0 ELSE sale[s].takes[l] - NoGoods[l]
      /\ LotsAfter(s, NoGoods, goods) \in [LotIds -> LotRecord]
      /\ \A l \in Notes \cup Openings : LotsAfter(s, NoGoods, goods)[l] = lots[l]
  BY <1>2, TakenOffIs DEF LotsIInv
<1>4. /\ r \in SaleRecord /\ r.takes = NoGoods /\ r.status = "cancelled"
      /\ r.gone = TakenOff(s, NoGoods, goods).gone
  BY <1>3 DEF SaleRecord
<1> HIDE DEF r
<1>5. edit' \in [Sales -> Edits] /\ \A t \in Sales : sale'[t] = IF t = s THEN r ELSE sale[t]
  BY <1>1 DEF LotsIInv, LotRowsOK
<1>6. /\ LotRowsOK' /\ Noted' /\ PayableFollowsGoods'
      /\ Standing' = Standing /\ Standing \subseteq LotIds
      /\ \A l \in Standing : /\ OnHand(l) \in Nat /\ OnHand(l)' \in Int
                             /\ OnHand(l)' = OnHand(l) + (sale[s].takes[l] + sale[s].gone[l])
                                                       - (r.takes[l] + r.gone[l])
  BY <1>1, <1>3, <1>4, <1>5, SaleMoves
<1>7. Covered'
  <2>1. ASSUME NEW l \in Standing
        PROVE  OnHand(l)' >= 0 /\ \A t \in Sales : edit[t].takes[l] <= OnHand(l)' + sale'[t].takes[l]
    <3>1. l \in LotIds
      BY <1>6
    <3>2. /\ sale[s].takes[l] \in Nat /\ sale[s].gone[l] \in Nat /\ r.gone[l] \in Nat /\ r.takes[l] = 0
          /\ r.gone[l] <= sale[s].gone[l] + sale[s].takes[l]
      BY <1>2, <1>3, <1>4, <3>1 DEF LotsIInv, LotRowsOK, SaleRecord
    <3>3. OnHand(l)' >= OnHand(l)
      BY <1>6, <2>1, <3>2
    <3>4. ASSUME NEW t \in Sales PROVE edit[t].takes[l] <= OnHand(l)' + sale'[t].takes[l]
      <4>1. CASE t = s
        <5>1. edit[s].takes[l] = 0
          BY <1>1, <3>1 DEF LotsIInv, Edited
        <5> QED
          BY <1>5, <1>6, <2>1, <3>2, <3>3, <4>1, <5>1
      <4>2. CASE t # s
        <5>1. sale'[t] = sale[t] /\ edit[t].takes[l] \in Nat /\ sale[t].takes[l] \in Nat
          BY <1>5, <3>1, <4>2 DEF LotsIInv, LotRowsOK, Edits, SaleRecord
        <5>2. edit[t].takes[l] <= OnHand(l) + sale[t].takes[l]
          BY <2>1 DEF LotsIInv, Covered
        <5> QED
          BY <1>6, <2>1, <3>3, <5>1, <5>2
      <4> QED
        BY <4>1, <4>2
    <3> QED
      BY <1>6, <2>1, <3>3, <3>4
  <2> QED
    BY <1>1, <1>6, <2>1 DEF Covered
<1>8. Exclusive'
  BY <1>1 DEF LotsIInv, Exclusive
<1>9. Edited'
  BY <1>1, <1>4, <1>5 DEF LotsIInv, Edited
<1> QED
  BY <1>6, <1>7, <1>8, <1>9 DEF LotsIInv

LEMMA LotsInitSafe == LotsInit => LotsIInv
<1> SUFFICES ASSUME LotsInit PROVE LotsIInv
  OBVIOUS
<1>1. Never \in [Days -> Nat] /\ Never \in [Days -> Int] /\ All(Never) = 0
  <2>1. Never \in [Days -> Nat] /\ Never \in [Days -> Int] /\ \A d \in Days : Never[d] = 0
    BY DEF Never
  <2> QED
    BY <2>1, AllOfNever
<1> HIDE DEF Never
<1>2. 1 \in Days /\ NoGoods \in [LotIds -> Nat] /\ \A l \in LotIds : NoGoods[l] = 0
  BY BoundsAssumption DEF Days, NoGoods
<1>3. NoEdit \in Edits /\ ~NoEdit.open /\ NoEdit.takes = NoGoods
  BY <1>2 DEF NoEdit, Edits, GoodsOutcomes
<1>4. lots \in [LotIds -> LotRecord] /\ sale \in [Sales -> SaleRecord]
  BY <1>1, <1>2 DEF LotsInit, LotRecord, SaleRecord
<1>5. LotRowsOK
  BY <1>2, <1>3, <1>4 DEF LotsInit, LotRowsOK, LpoStatus
<1>6. ASSUME NEW l \in LotIds
      PROVE  OnHand(l) = 0 /\ \A s \in Sales : edit[s].takes[l] = 0 /\ sale[s].takes[l] = 0
  <2>1. Kept(lots[l]) = 0
    BY <1>1 DEF Kept, LotsInit
  <2>2. \A s \in Sales : OutOf(l, sale)[s] = 0
    BY <1>2 DEF OutOf, LotsInit
  <2>3. Left(l, sale) = 0
    BY <2>2, SalesAssumption, SumOfZeros DEF Left
  <2>4. OnHand(l) = 0
    BY <1>5, <2>1, <2>3, OnHandNow
  <2> QED
    BY <1>2, <1>3, <2>4 DEF LotsInit
<1>7. Covered /\ Exclusive /\ Edited
  <2>1. Standing \subseteq LotIds
    BY DEF Standing, LotIds
  <2> QED
    BY <1>3, <1>6, <2>1 DEF Covered, Exclusive, Edited, LotsInit
<1>8. Noted
  BY <1>1 DEF Noted, LotsInit, LotIds
<1>9. PayableFollowsGoods
  <2>1. ASSUME NEW n \in Notes PROVE owed[n] = Max({0, Accepted(n) - credited[n]})
    <3>1. owed[n] = 0 /\ Accepted(n) = 0 /\ credited[n] = 0
      BY <1>1 DEF Accepted, LotsInit, LotIds
    <3> QED
      BY <3>1, MaxOfTwo
  <2> QED
    BY <2>1 DEF PayableFollowsGoods
<1> QED
  BY <1>5, <1>7, <1>8, <1>9 DEF LotsIInv

LEMMA LotsStepSafe == LotsIInv /\ [LotsNext]_lotsVars => LotsIInv'
<1> SUFFICES ASSUME LotsIInv, [LotsNext]_lotsVars PROVE LotsIInv'
  OBVIOUS
<1>0. Notes \subseteq LotIds /\ Lines \subseteq LotIds /\ Openings \subseteq LotIds
  BY DEF LotIds
<1>1. CASE UNCHANGED lotsVars \/ Tomorrow
  <2>1. LotRowsOK' /\ UNCHANGED <<lots, owed, credited, cancelled, sale, edit>>
    <3>1. CASE UNCHANGED lotsVars
      BY <3>1 DEF lotsVars, LotsIInv, LotRowsOK
    <3>2. CASE Tomorrow
      <4>1. today' \in Days
        BY <3>2, BoundsAssumption DEF Tomorrow, LotsIInv, LotRowsOK, Days
      <4> QED
        BY <3>2, <4>1 DEF Tomorrow, LotsIInv, LotRowsOK
    <3> QED
      BY <1>1, <3>1, <3>2
  <2> QED
    BY <2>1, OthersKept
<1>2. ASSUME NEW n \in Notes, NEW day \in Days, NEW q \in Quantities, receive_supplier_stock(n, day, q)
      PROVE  LotsIInv'
  BY <1>2, ReceiveSupplierStockKept
<1>3. ASSUME NEW n \in Notes, NEW q \in Quantities, correct_receipt(n, q) PROVE LotsIInv'
  BY <1>3, CorrectReceiptKept
<1>4. ASSUME NEW n \in Notes, NEW day \in Days,
             record_delivery_loss(n, day) \/ cancel_delivery_loss(n, day) \/ return_to_supplier(n, day)
      PROVE  LotsIInv'
  <2>1. CASE record_delivery_loss(n, day)
    BY <1>0, <2>1, LossKept DEF record_delivery_loss
  <2>2. CASE cancel_delivery_loss(n, day)
    BY <1>0, <2>2, CancelLossKept DEF cancel_delivery_loss
  <2>3. CASE return_to_supplier(n, day)
    BY <2>3, ReturnKept
  <2> QED
    BY <1>4, <2>1, <2>2, <2>3
<1>5. ASSUME NEW n \in Notes, record_credit_note(n) PROVE LotsIInv'
  BY <1>5, CreditKept
<1>6. ASSUME NEW p \in Lines,
             create_lpo(p) \/ issue_lpo(p) \/ record_acceptance(p) \/ close_lpo(p) \/ cancel_lpo(p)
      PROVE  LotsIInv'
  <2>1. \E status \in LpoStatus : OrderBecomes(p, status)
    BY <1>6 DEF create_lpo, issue_lpo, record_acceptance, close_lpo, cancel_lpo, LpoStatus
  <2> QED
    BY <2>1, OrderKept
<1>7. ASSUME NEW p \in Lines, NEW day \in Days, NEW q \in Quantities, receive_batch(p, day, q) PROVE LotsIInv'
  <2>1. q \in Nat
    BY DEF Quantities
  <2> QED
    BY <1>7, <2>1, ReceiptKept DEF receive_batch
<1>8. ASSUME NEW p \in Lines, NEW day \in Days, cancel_receipt(p, day) \/ record_loss(p, day) \/ cancel_loss(p, day)
      PROVE  LotsIInv'
  <2>1. CASE cancel_receipt(p, day)
    BY <2>1, ReceiptKept DEF cancel_receipt
  <2>2. CASE record_loss(p, day)
    BY <1>0, <2>2, LossKept DEF record_loss
  <2>3. CASE cancel_loss(p, day)
    BY <1>0, <2>3, CancelLossKept DEF cancel_loss
  <2> QED
    BY <1>8, <2>1, <2>2, <2>3
<1>9. ASSUME NEW o \in Openings, NEW day \in Days, NEW q \in Quantities, record_opening_stock(o, day, q)
      PROVE  LotsIInv'
  BY <1>9, OpeningKept
<1>10. ASSUME NEW o \in Openings, NEW day \in Days, record_opening_loss(o, day) PROVE LotsIInv'
  BY <1>10, OpeningLossKept
<1>11. ASSUME NEW o \in Openings, cancel_opening_stock(o) PROVE LotsIInv'
  BY <1>11, CancelOpeningKept
<1>12. ASSUME NEW l \in LotIds, NEW day \in Days,
              record_count(l, day, 1) \/ record_count(l, day, -1) \/ cancel_adjustment(l, day)
       PROVE  LotsIInv'
  BY <1>12, CountKept, CancelAdjustmentKept
<1>13. ASSUME NEW s \in Sales, NEW day \in Days, NEW takes \in Takings \ {NoGoods},
              NEW money \in 0..MaxQuantity, record_sale(s, day, takes, money)
       PROVE  LotsIInv'
  BY <1>13, RecordSaleKept
<1>14. ASSUME NEW s \in Sales, NEW n \in Notes, NEW day \in Days, NEW q \in Quantities,
              NEW money \in 0..MaxQuantity, record_sale_collected(s, n, day, q, money)
       PROVE  LotsIInv'
  BY <1>14, RecordCollectedKept
<1>15. ASSUME NEW s \in Sales, NEW day \in Days, NEW takes \in Takings, NEW goods \in GoodsOutcomes,
              update_sale_checks(s, day, takes, goods, TRUE)
       PROVE  LotsIInv'
  BY <1>15, UpdateChecksKept
<1>16. ASSUME NEW s \in Sales, update_sale_commits(s) PROVE LotsIInv'
  BY <1>16, UpdateCommitsKept
<1>17. ASSUME NEW s \in Sales, NEW goods \in GoodsOutcomes, cancel_sale(s, goods) PROVE LotsIInv'
  BY <1>17, CancelSaleKept
<1>18. ASSUME UNCHANGED <<today, lots, owed, credited, cancelled, order, sale, edit>> PROVE LotsIInv'
  <2>1. LotRowsOK'
    BY <1>18 DEF LotsIInv, LotRowsOK
  <2> QED
    BY <1>18, <2>1, OthersKept
<1>19. ASSUME NEW s \in Sales, buyer_pays(s) \/ reverse_buyer_payment(s) PROVE LotsIInv'
  BY <1>18, <1>19 DEF buyer_pays, reverse_buyer_payment, AmountBecomes
<1>20. ASSUME NEW p \in Lines, NEW day \in Days, pay_receipt(p, day) \/ reverse_receipt_payment(p, day)
       PROVE  LotsIInv'
  BY <1>18, <1>20 DEF pay_receipt, reverse_receipt_payment, ReceiptsPaid
<1>21. ASSUME NEW kind \in {"stamp", "signature"}, upload_mark(kind) PROVE LotsIInv'
  BY <1>18, <1>21 DEF upload_mark, PresentBecomes
<1>22. CASE supplier_approved \/ supplier_not_approved
  BY <1>18, <1>22 DEF supplier_approved, supplier_not_approved, PresentBecomes
<1> QED
  BY <1>1, <1>2, <1>3, <1>4, <1>5, <1>6, <1>7, <1>8, <1>9, <1>10, <1>11, <1>12, <1>13, <1>14, <1>15,
     <1>16, <1>17, <1>19, <1>20, <1>21, <1>22 DEF LotsNext

LEMMA LotsIInvAlways == LotsSpec => []LotsIInv
<1> QED
  BY LotsInitSafe, LotsStepSafe, PTL DEF LotsSpec

(* What was paid, and what an LPO needs. *)

AmountIs(s, x) ==
    receivedAmount' = [receivedAmount EXCEPT ![s] = x] /\ UNCHANGED <<paidReceipts, present>>

LEMMA PapersKept ==
    ASSUME PapersOK, [LotsNext]_lotsVars
    PROVE  PapersOK'
<1>1. CASE UNCHANGED papers
  BY <1>1 DEF papers, PapersOK
<1>2. ASSUME NEW s \in Sales, NEW x \in Nat, AmountIs(s, x) PROVE PapersOK'
  BY <1>2 DEF PapersOK, AmountIs
<1>3. ASSUME NEW s \in Sales, NEW day, NEW takes, NEW money \in 0..MaxQuantity, record_sale(s, day, takes, money)
      PROVE  PapersOK'
  <2>1. money \in Nat
    OBVIOUS
  <2>2. AmountIs(s, money)
    BY <1>3 DEF record_sale, AmountIs
  <2> QED
    BY <1>2, <2>1, <2>2
<1>4. ASSUME NEW s \in Sales, NEW n, NEW day, NEW q, NEW money \in 0..MaxQuantity,
             record_sale_collected(s, n, day, q, money)
      PROVE  PapersOK'
  <2>1. money \in Nat
    OBVIOUS
  <2>2. AmountIs(s, money)
    BY <1>4 DEF record_sale_collected, AmountIs
  <2> QED
    BY <1>2, <2>1, <2>2
<1>5. ASSUME NEW s \in Sales, buyer_pays(s) \/ reverse_buyer_payment(s)
      PROVE  PapersOK'
  <2>1. receivedAmount[s] \in Nat
    BY DEF PapersOK
  <2>2. CASE buyer_pays(s)
    <3> DEFINE n == receivedAmount[s] + 1
    <3>1. n \in Nat
      BY <2>1
    <3>2. AmountIs(s, n)
      BY <2>2 DEF buyer_pays, AmountBecomes, AmountIs
    <3> HIDE DEF n
    <3> QED
      BY <1>2, <3>1, <3>2
  <2>3. CASE reverse_buyer_payment(s)
    <3> DEFINE n == receivedAmount[s] - 1
    <3>1. n \in Nat
      BY <2>1, <2>3 DEF reverse_buyer_payment
    <3>2. AmountIs(s, n)
      BY <2>3 DEF reverse_buyer_payment, AmountBecomes, AmountIs
    <3> HIDE DEF n
    <3> QED
      BY <1>2, <3>1, <3>2
  <2> QED
    BY <1>5, <2>2, <2>3
<1>6. ASSUME NEW p \in Lines, NEW day \in Days, pay_receipt(p, day) \/ reverse_receipt_payment(p, day)
      PROVE  PapersOK'
  BY <1>6 DEF pay_receipt, reverse_receipt_payment, ReceiptsPaid, PapersOK
<1>7. ASSUME NEW kind \in {"stamp", "signature"}, upload_mark(kind) PROVE PapersOK'
  BY <1>7 DEF upload_mark, PresentBecomes, PapersOK, Needs
<1>8. CASE supplier_approved \/ supplier_not_approved
  BY <1>8 DEF supplier_approved, supplier_not_approved, PresentBecomes, PapersOK, Needs
<1>9. ASSUME \/ Tomorrow \/ UNCHANGED lotsVars
             \/ \E n \in Notes, day \in Days, q \in Quantities : receive_supplier_stock(n, day, q)
             \/ \E n \in Notes, q \in Quantities : correct_receipt(n, q)
             \/ \E n \in Notes, day \in Days :
                   record_delivery_loss(n, day) \/ cancel_delivery_loss(n, day) \/ return_to_supplier(n, day)
             \/ \E n \in Notes : record_credit_note(n)
             \/ \E p \in Lines :
                   create_lpo(p) \/ issue_lpo(p) \/ record_acceptance(p) \/ close_lpo(p) \/ cancel_lpo(p)
             \/ \E p \in Lines, day \in Days, q \in Quantities : receive_batch(p, day, q)
             \/ \E p \in Lines, day \in Days : cancel_receipt(p, day) \/ record_loss(p, day) \/ cancel_loss(p, day)
      PROVE  UNCHANGED papers
  BY <1>9 DEF Tomorrow, lotsVars, receive_supplier_stock, correct_receipt, record_delivery_loss,
              cancel_delivery_loss, CancelLoss, return_to_supplier, Leaves, record_credit_note, create_lpo,
              issue_lpo, record_acceptance, close_lpo, cancel_lpo, OrderBecomes, receive_batch, cancel_receipt,
              record_loss, cancel_loss
<1>10. ASSUME \/ \E o \in Openings, day \in Days, q \in Quantities : record_opening_stock(o, day, q)
              \/ \E o \in Openings, day \in Days : record_opening_loss(o, day)
              \/ \E o \in Openings : cancel_opening_stock(o)
              \/ \E l \in LotIds, day \in Days :
                    record_count(l, day, 1) \/ record_count(l, day, -1) \/ cancel_adjustment(l, day)
              \/ \E s \in Sales, day \in Days, takes \in Takings, goods \in GoodsOutcomes :
                    update_sale_checks(s, day, takes, goods, TRUE)
              \/ \E s \in Sales : update_sale_commits(s)
              \/ \E s \in Sales, goods \in GoodsOutcomes : cancel_sale(s, goods)
       PROVE  UNCHANGED papers
  BY <1>10 DEF record_opening_stock, record_opening_loss, cancel_opening_stock, record_count,
               cancel_adjustment, update_sale_checks, update_sale_commits, cancel_sale
<1> QED
  BY <1>1, <1>3, <1>4, <1>5, <1>6, <1>7, <1>8, <1>9, <1>10 DEF LotsNext

(* Every table of the stock keeps its type, whatever is recorded and undone. *)
THEOREM LotsTypeCorrect == LotsSpec => []LotsTypeOK
<1>1. LotsInit => PapersOK
  BY DEF LotsInit, PapersOK
<1>2. LotsIInv /\ PapersOK => LotsTypeOK
  BY DEF LotsIInv, LotsTypeOK
<1> QED
  BY <1>1, <1>2, PapersKept, LotsIInvAlways, PTL DEF LotsSpec

(* lots.py, batch_stock.py, finance.update_sale: no delivery note and no opening
   stock entry that stands is ever short, also when an edit of a sale commits
   long after it was checked and without asking again: the locks it holds are
   enough, though it holds none on what the old version of the sale took. *)
THEOREM NoLotIsEverShort == LotsSpec => []NoLotIsShort
<1>1. LotsIInv => NoLotIsShort
  BY DEF LotsIInv, Covered, Standing, NoLotIsShort
<1> QED
  BY <1>1, LotsIInvAlways, PTL

(* batch_stock.py: a supplier is owed for a note what was accepted of it and not
   credited, at every moment: corrections and credit notes in any order, and
   sales, losses, returns and counts around them. *)
THEOREM PayableAlwaysFollowsGoods == LotsSpec => []PayableFollowsGoods
<1>1. LotsIInv => PayableFollowsGoods
  BY DEF LotsIInv
<1> QED
  BY <1>1, LotsIInvAlways, PTL

-----------------------------------------------------------------------------
(* Members: supplier profiles. *)

\* An approved profile is as it was when it was approved.
AsReviewed(r) == r.status = "approved" => \A x \in Reviewed : r.parts[x] = r.approved[x]
Sound(r) == r \in Profile /\ AsReviewed(r)
PartsType == [Parts -> 0..MaxSaves]

\* A card that was opened is of someone who still has a profile.
ProfilesIInv ==
    /\ ProfilesTypeOK
    /\ desk.phone \in Phones => HasProfile(desk.phone) \/ desk.phone = NoOne
    /\ \A p \in Phones : AsReviewed(profiles[p])

LEMMA EmptyType == Empty \in PartsType /\ NoProfile \in Profile /\ NewProfile \in Profile
<1>1. Empty \in PartsType
  BY ProfilesAssumption DEF Empty, PartsType
<1>2. NoProfile \in Profile
  BY <1>1 DEF NoProfile, Profile, PartsType
<1> QED
  BY <1>1, <1>2 DEF NewProfile, Profile, Statuses

LEMMA AppliedSound ==
    ASSUME NEW old \in Profile, NEW parts \in PartsType
    PROVE  Sound(Applied(old, parts)) /\ Applied(old, parts).status = "under_review"
<1>1. Applied(old, parts) \in Profile /\ Applied(old, parts).status = "under_review"
  BY EmptyType DEF Applied, Profile, PartsType, Statuses
<1> QED
  BY <1>1 DEF Sound, AsReviewed

LEMMA StampedType ==
    ASSUME NEW parts \in PartsType, NEW xs, saves \in 0..MaxSaves, Save
    PROVE  Stamped(parts, xs) \in PartsType /\ saves' \in 0..MaxSaves
  BY ProfilesAssumption DEF Stamped, PartsType, NextSave, Save

LEMMA WithoutType ==
    ASSUME NEW parts \in PartsType, NEW blank \in BOOLEAN
    PROVE  Without(parts, blank) \in PartsType
  BY ProfilesAssumption DEF Without, PartsType, Parts

LEMMA SubmissionType ==
    ASSUME NEW blank \in BOOLEAN, saves \in 0..MaxSaves, Save
    PROVE  Submission(blank) \in PartsType
<1>1. [x \in Parts |-> NextSave] \in PartsType
  BY ProfilesAssumption DEF PartsType, NextSave, Save
<1> QED
  BY <1>1, WithoutType DEF Submission

LEMMA PickupSound ==
    ASSUME NEW old \in Profile, AsReviewed(old), NEW address \in 0..MaxSaves, NEW relocated \in BOOLEAN
    PROVE  /\ Sound(PickupSaved(old, address, relocated))
           /\ PickupSaved(old, address, relocated).status = old.status
<1> DEFINE new == PickupSaved(old, address, relocated)
<1>1. /\ new \in Profile /\ new.status = old.status /\ new.approved = old.approved
      /\ \A x \in Reviewed : new.parts[x] = old.parts[x]
  BY DEF PickupSaved, Profile, Reviewed, Parts
<1> HIDE DEF new
<1>2. Sound(new) /\ new.status = old.status
  BY <1>1 DEF AsReviewed, Sound
<1> QED
  BY <1>2 DEF new

LEMMA NamedSound ==
    ASSUME NEW old \in Profile, AsReviewed(old), saves \in 0..MaxSaves, Save
    PROVE  /\ Sound(NamedOnly(old))
           /\ NamedOnly(old).status = IF old.status = "none" THEN "new" ELSE old.status
<1> DEFINE new == NamedOnly(old)
           base == IF old.status = "none" THEN NewProfile ELSE old
           parts == Stamped(old.parts, {"pickup"})
<1>1. parts \in PartsType /\ \A x \in Reviewed : parts[x] = old.parts[x]
  <2>1. old.parts \in PartsType
    BY DEF Profile, PartsType
  <2> QED
    BY <2>1, StampedType DEF Stamped, Reviewed, Parts
<1>2. base \in Profile /\ base.status = (IF old.status = "none" THEN "new" ELSE old.status)
  BY EmptyType DEF NewProfile, NoProfile
<1>3. new = [base EXCEPT !.parts = parts]
  BY DEF NamedOnly
<1> HIDE DEF parts
<1>4. old.status # "none" => base = old
  OBVIOUS
<1> HIDE DEF base, new
<1>5. new \in Profile /\ new.status = base.status /\ new.approved = base.approved /\ new.parts = parts
  BY <1>1, <1>2, <1>3 DEF Profile, PartsType
<1>6. AsReviewed(new)
  BY <1>1, <1>2, <1>4, <1>5 DEF AsReviewed
<1> QED
  BY <1>2, <1>5, <1>6 DEF Sound, new

LEMMA DecidedSound ==
    ASSUME NEW old \in Profile, NEW status \in Statuses
    PROVE  Sound(Decided(old, status)) /\ Decided(old, status).status = status
<1>1. /\ Decided(old, status) \in Profile /\ Decided(old, status).status = status
      /\ Decided(old, status).parts = old.parts
      /\ status = "approved" => Decided(old, status).approved = old.parts
  BY EmptyType DEF Decided, Profile, Statuses, PartsType
<1> QED
  BY <1>1 DEF Sound, AsReviewed

LEMMA CheckedSound ==
    ASSUME NEW old \in Profile, AsReviewed(old), NEW all \in BOOLEAN
    PROVE  Sound([old EXCEPT !.checked = all]) /\ [old EXCEPT !.checked = all].status = old.status
<1>1. /\ [old EXCEPT !.checked = all] \in Profile /\ [old EXCEPT !.checked = all].status = old.status
      /\ [old EXCEPT !.checked = all].parts = old.parts
      /\ [old EXCEPT !.checked = all].approved = old.approved
  BY DEF Profile
<1> QED
  BY <1>1 DEF Sound, AsReviewed

\* One profile is written; it does not vanish, and one that was submitted stays so.
Submitted(r) == r.status \notin {"none", "new"}
Writes(p) ==
    /\ Write(p, profiles'[p]) /\ Sound(profiles'[p])
    /\ HasProfile(p) => profiles'[p].status # "none"
    /\ Submitted(profiles[p]) => Submitted(profiles'[p])

LEMMA WritesKept ==
    ASSUME ProfilesIInv, NEW p \in Phones, NEW r, Write(p, r), Sound(r),
           HasProfile(p) => r.status # "none",
           Submitted(profiles[p]) => Submitted(r),
           saves' \in 0..MaxSaves, desk' = desk \/ desk' = ClosedDesk
    PROVE  ProfilesIInv' /\ Writes(p) /\ profiles'[p] = r
<1>1. profiles \in [Phones -> Profile] /\ r \in Profile
  BY DEF ProfilesIInv, ProfilesTypeOK, Sound
<1>2. /\ profiles' \in [Phones -> Profile] /\ profiles'[p] = r
      /\ \A q \in Phones \ {p} : profiles'[q] = profiles[q]
  BY <1>1 DEF Write
<1>3. ClosedDesk \in [phone : Phones \cup {NoOne}, card : Cards \cup {"none"}, copy : [Parts -> 0..MaxSaves]]
      /\ ClosedDesk.phone = NoOne
  BY EmptyType DEF ClosedDesk, PartsType
<1>4. ProfilesTypeOK'
  BY <1>2, <1>3 DEF ProfilesTypeOK, ProfilesIInv
<1>5. (desk.phone \in Phones => HasProfile(desk.phone) \/ desk.phone = NoOne)'
  BY <1>2, <1>3 DEF ProfilesIInv, HasProfile
<1>6. \A q \in Phones : AsReviewed(profiles'[q])
  BY <1>2 DEF ProfilesIInv, Sound
<1> QED
  BY <1>2, <1>4, <1>5, <1>6 DEF ProfilesIInv, Writes

LEMMA SubmitKept ==
    ASSUME ProfilesIInv, NEW p \in Phones, NEW blank \in BOOLEAN, Submit(p, blank)
    PROVE  ProfilesIInv' /\ Writes(p) /\ Submitted(profiles'[p])
<1>1. /\ saves \in 0..MaxSaves /\ Save /\ profiles[p] \in Profile /\ desk' = desk
      /\ Write(p, Applied(profiles[p], Submission(blank)))
  BY DEF Submit, ProfilesIInv, ProfilesTypeOK
<1>2. Submission(blank) \in PartsType /\ saves' \in 0..MaxSaves
  BY <1>1, SubmissionType, StampedType, EmptyType
<1> DEFINE r == Applied(profiles[p], Submission(blank))
<1>3. Sound(r) /\ r.status = "under_review"
  BY <1>1, <1>2, AppliedSound
<1> HIDE DEF r
<1>4. Write(p, r) /\ Submitted(r) /\ r.status # "none"
  BY <1>1, <1>3 DEF r, Submitted
<1> QED
  BY <1>1, <1>2, <1>3, <1>4, WritesKept

LEMMA MovePlaceKept ==
    ASSUME ProfilesIInv, NEW p \in Phones, NEW relocated \in BOOLEAN, MovePlace(p, relocated)
    PROVE  ProfilesIInv' /\ Writes(p)
<1> DEFINE r == PickupSaved(profiles[p], NextSave, relocated)
<1>1. /\ saves \in 0..MaxSaves /\ Save /\ profiles[p] \in Profile /\ desk' = desk
      /\ Write(p, r) /\ HasProfile(p) /\ AsReviewed(profiles[p])
  BY DEF MovePlace, ProfilesIInv, ProfilesTypeOK
<1>2. NextSave \in 0..MaxSaves /\ saves' \in 0..MaxSaves
  BY <1>1, ProfilesAssumption DEF Save, NextSave
<1>3. Sound(r) /\ r.status = profiles[p].status
  BY <1>1, <1>2, PickupSound
<1> HIDE DEF r
<1>4. r.status # "none" /\ (Submitted(profiles[p]) => Submitted(r))
  BY <1>1, <1>3 DEF Submitted, HasProfile
<1> QED
  BY <1>1, <1>2, <1>3, <1>4, WritesKept

LEMMA FirstPickupKept ==
    ASSUME ProfilesIInv, NEW p \in Phones, FirstPickupDetails(p)
    PROVE  ProfilesIInv' /\ Writes(p)
<1> DEFINE r == NamedOnly(profiles[p])
<1>1. /\ saves \in 0..MaxSaves /\ Save /\ profiles[p] \in Profile /\ desk' = desk
      /\ Write(p, r) /\ AsReviewed(profiles[p])
  BY DEF FirstPickupDetails, ProfilesIInv, ProfilesTypeOK
<1>2. saves' \in 0..MaxSaves
  BY <1>1, StampedType, EmptyType
<1>3. Sound(r) /\ r.status = IF profiles[p].status = "none" THEN "new" ELSE profiles[p].status
  BY <1>1, NamedSound
<1> HIDE DEF r
<1>4. r.status # "none" /\ (Submitted(profiles[p]) => Submitted(r))
  BY <1>1, <1>3 DEF Submitted
<1> QED
  BY <1>1, <1>2, <1>3, <1>4, WritesKept

\* The staff page reads or writes one profile.
LEMMA StaffKept ==
    ASSUME ProfilesIInv, StaffNext
    PROVE  /\ ProfilesIInv'
           /\ profiles' = profiles \/ \E p \in Phones : HasProfile(p) /\ Writes(p)
<1>1. ASSUME NEW p \in Phones, NEW card \in Cards, ReadProfile(p, card)
      PROVE  ProfilesIInv' /\ profiles' = profiles
  <2>1. /\ HasProfile(p) /\ profiles[p].parts \in PartsType
        /\ desk' = [phone |-> p, card |-> card, copy |-> profiles[p].parts] /\ UNCHANGED <<profiles, saves>>
    BY <1>1 DEF ReadProfile, ProfilesIInv, ProfilesTypeOK, Profile, PartsType
  <2> QED
    BY <2>1 DEF ProfilesIInv, ProfilesTypeOK, HasProfile, PartsType
<1>2. ASSUME NEW blank \in BOOLEAN, WriteProfile(blank)
      PROVE  ProfilesIInv' /\ \E p \in Phones : HasProfile(p) /\ Writes(p)
  <2> DEFINE p == desk.phone
             sent == Without(Stamped(desk.copy, Carried(desk.copy, desk.card)), blank)
             r == Applied(profiles[p], sent)
  <2>1. /\ p \in Phones /\ profiles[p] \in Profile /\ desk.copy \in PartsType /\ saves \in 0..MaxSaves
        /\ Save /\ Write(p, r) /\ desk' = ClosedDesk
    BY <1>2 DEF WriteProfile, ProfilesIInv, ProfilesTypeOK, PartsType
  <2>2. Stamped(desk.copy, Carried(desk.copy, desk.card)) \in PartsType /\ saves' \in 0..MaxSaves
    BY <2>1, StampedType
  <2>3. sent \in PartsType
    BY <2>2, WithoutType
  <2> HIDE DEF sent
  <2>4. Sound(r) /\ r.status = "under_review"
    BY <2>1, <2>3, AppliedSound
  <2> HIDE DEF r
  <2>5. r.status # "none" /\ Submitted(r)
    BY <2>4 DEF Submitted
  <2>6. PICK q \in Phones : q = p
    BY <2>1
  <2>7. ProfilesIInv' /\ Writes(q)
    BY <2>1, <2>2, <2>4, <2>5, <2>6, WritesKept
  <2>8. HasProfile(q)
    BY <1>2, <2>6 DEF WriteProfile, ProfilesIInv
  <2> QED
    BY <2>7, <2>8
<1>3. ASSUME NEW p \in Phones, NEW all \in BOOLEAN, SaveChecklist(p, all)
      PROVE  ProfilesIInv' /\ Writes(p)
  <2> DEFINE r == [profiles[p] EXCEPT !.checked = all]
  <2>1. /\ saves' \in 0..MaxSaves /\ profiles[p] \in Profile /\ desk' = desk
        /\ Write(p, r) /\ AsReviewed(profiles[p]) /\ HasProfile(p)
    BY <1>3 DEF SaveChecklist, ProfilesIInv, ProfilesTypeOK
  <2>2. Sound(r) /\ r.status = profiles[p].status
    BY <2>1, CheckedSound
  <2> HIDE DEF r
  <2>3. r.status # "none" /\ (Submitted(profiles[p]) => Submitted(r))
    BY <2>1, <2>2 DEF Submitted, HasProfile
  <2> QED
    BY <2>1, <2>2, <2>3, WritesKept
<1>4. ASSUME NEW p \in Phones, NEW status \in Statuses, ChooseStatus(p, status)
      PROVE  ProfilesIInv' /\ Writes(p)
  <2> DEFINE r == Decided(profiles[p], status)
  <2>1. /\ saves' \in 0..MaxSaves /\ profiles[p] \in Profile /\ desk' = desk
        /\ Write(p, r) /\ status \in MenuStatuses
    BY <1>4 DEF ChooseStatus, ProfilesIInv, ProfilesTypeOK
  <2>2. Sound(r) /\ r.status = status
    BY <2>1, DecidedSound
  <2> HIDE DEF r
  <2>3. r.status # "none" /\ Submitted(r)
    BY <2>1, <2>2 DEF Submitted, MenuStatuses
  <2> QED
    BY <2>1, <2>2, <2>3, WritesKept
<1>5. ASSUME NEW p \in Phones, NEW all \in BOOLEAN, SaveChecklist(p, all)
      PROVE  HasProfile(p)
  BY <1>5 DEF SaveChecklist
<1>6. ASSUME NEW p \in Phones, NEW status \in Statuses, ChooseStatus(p, status)
      PROVE  HasProfile(p)
  BY <1>6 DEF ChooseStatus
<1> QED
  BY <1>1, <1>2, <1>3, <1>4, <1>5, <1>6 DEF StaffNext
-----------------------------------------------------------------------------
(* Members: browsers and accounts. *)

Jar == [challenge : Phones \cup {NoOne}, session : [phone : Phones \cup {NoOne}, id : 0..MaxAccounts]]

\* The session is one of the account the phone has, and someone is what a wizard
\* makes them.
Holds(s, acs) == s # NoSession /\ acs[s.phone].exists /\ acs[s.phone].id = s.id
Ready(acs, ps, p, page) == page \in acs[p].roles /\ (page = "supplier" => Submitted(ps[p]))

\* What a browser's tab and session say of each other.
Right(s, tab, acs, ps) ==
    /\ s # NoSession => s.phone \in Phones /\ s.id <= acs[s.phone].id
    /\ tab.step # "account" => tab.stage = "done"
    /\ tab.stage \in {"pin", "done"} /\ s # NoSession => s.phone = tab.verified
    /\ tab.stage = "done" /\ tab.result = "none" =>
          ~tab.registered /\ (Holds(s, acs) => acs[s.phone].pin)
    /\ tab.stage = "pin" /\ tab.registered /\ tab.result = "none" /\ Holds(s, acs) =>
          Ready(acs, ps, s.phone, tab.page)

\* As long as a phone has the same account, it loses nothing.
Grown(acs, ps, acs2, ps2) ==
    \A p \in Phones :
        /\ acs2[p].id >= acs[p].id
        /\ acs2[p].exists /\ acs2[p].id = acs[p].id =>
              /\ acs[p].exists /\ acs[p].roles \subseteq acs2[p].roles /\ (acs[p].pin => acs2[p].pin)
              /\ Submitted(ps[p]) => Submitted(ps2[p])

\* Whoever has a profile has an account with the role.
Enrolled(acs, ps, p) == ps[p].status # "none" => acs[p].exists /\ "supplier" \in acs[p].roles

MembersIInv ==
    /\ MembersTypeOK /\ ProfilesIInv
    /\ \A p \in Phones : Enrolled(accounts, profiles, p)
    /\ \A b \in Browsers : Right(cookies[b].session, tabs[b], accounts, profiles)

\* What a tab says of who it was told is registered.
True(tab) ==
    \A p \in Phones : p = tab.verified =>
        accounts'[p].exists /\ accounts'[p].pin /\ Ready(accounts', profiles', p, tab.page)
Told == \A b \in Browsers : tabs'[b].result # "none" /\ tabs[b].result = "none" => True(tabs'[b])

LEMMA RightStays ==
    ASSUME NEW acs \in [Phones -> AccountRecord], NEW acs2 \in [Phones -> AccountRecord], NEW ps, NEW ps2,
           Grown(acs, ps, acs2, ps2), NEW tab \in Tab, NEW jar \in Jar, Right(jar.session, tab, acs, ps)
    PROVE  Right(jar.session, tab, acs2, ps2)
<1> DEFINE s == jar.session
<1>1. s # NoSession => s.phone \in Phones /\ s.id <= acs[s.phone].id
  BY DEF Right
<1>2. s \in [phone : Phones \cup {NoOne}, id : 0..MaxAccounts]
  BY DEF Jar
<1> HIDE DEF s
<1>3. ASSUME s # NoSession PROVE s.id <= acs2[s.phone].id
  <2>1. acs[s.phone].id \in Int /\ acs2[s.phone].id \in Int /\ s.id \in Int /\ acs2[s.phone].id >= acs[s.phone].id
    BY <1>1, <1>2, <1>3 DEF Grown, AccountRecord
  <2> QED
    BY <1>1, <1>3, <2>1
<1>4. ASSUME Holds(s, acs2)
      PROVE  /\ Holds(s, acs) /\ (acs[s.phone].pin => acs2[s.phone].pin)
             /\ \A page : Ready(acs, ps, s.phone, page) => Ready(acs2, ps2, s.phone, page)
  <2>1. /\ s # NoSession /\ s.phone \in Phones /\ acs2[s.phone].exists /\ acs2[s.phone].id = s.id
        /\ s.id <= acs[s.phone].id /\ acs2[s.phone].id >= acs[s.phone].id
    BY <1>1, <1>4 DEF Holds, Grown
  <2>2. acs[s.phone].id \in Int /\ s.id \in Int
    BY <1>2, <2>1 DEF AccountRecord
  <2>3. acs[s.phone].id = s.id
    BY <2>1, <2>2
  <2> QED
    BY <2>1, <2>3 DEF Holds, Grown, Ready
<1> QED
  BY <1>1, <1>3, <1>4 DEF Right, s

LEMMA GrownSame ==
    ASSUME NEW acs \in [Phones -> AccountRecord], NEW ps
    PROVE  Grown(acs, ps, acs, ps)
  BY DEF Grown, AccountRecord

\* Somebody's step elsewhere.
LEMMA ElsewhereKept ==
    ASSUME MembersIInv, accounts' \in [Phones -> AccountRecord],
           codes' \in [Phones -> Browsers \cup {NoOne}], ProfilesIInv',
           \A p \in Phones : Enrolled(accounts', profiles', p), Grown(accounts, profiles, accounts', profiles'),
           UNCHANGED <<cookies, tabs>>
    PROVE  MembersIInv' /\ Told
<1>1. ASSUME NEW b \in Browsers PROVE Right(cookies'[b].session, tabs'[b], accounts', profiles')
  <2>1. /\ accounts \in [Phones -> AccountRecord] /\ accounts' \in [Phones -> AccountRecord]
        /\ tabs[b] \in Tab /\ cookies[b] \in Jar
    BY DEF MembersIInv, MembersTypeOK, Jar
  <2>2. Right(cookies[b].session, tabs[b], accounts, profiles)
    BY DEF MembersIInv
  <2>3. Right(cookies[b].session, tabs[b], accounts', profiles')
    BY <2>1, <2>2, RightStays
  <2> QED
    BY <2>3
<1>2. MembersTypeOK'
  BY DEF MembersIInv, MembersTypeOK, ProfilesIInv, Enrolled, HasProfile
<1> QED
  BY <1>1, <1>2 DEF MembersIInv, Told

\* A browser's step.
LEMMA BrowserKept ==
    ASSUME MembersIInv, NEW b \in Browsers, NEW tab \in Tab, NEW jar \in Jar,
           Show(b, tab), SetCookies(b, jar), accounts' \in [Phones -> AccountRecord],
           codes' \in [Phones -> Browsers \cup {NoOne}], ProfilesIInv',
           \A p \in Phones : Enrolled(accounts', profiles', p),
           Grown(accounts, profiles, accounts', profiles'),
           Right(jar.session, tab, accounts', profiles'),
           tab.result # "none" /\ tabs[b].result = "none" => True(tab)
    PROVE  MembersIInv' /\ Told
<1>1. /\ tabs' \in [Browsers -> Tab] /\ cookies' \in [Browsers -> Jar]
      /\ \A c \in Browsers : /\ tabs'[c] = IF c = b THEN tab ELSE tabs[c]
                             /\ cookies'[c] = IF c = b THEN jar ELSE cookies[c]
  BY DEF MembersIInv, MembersTypeOK, Show, SetCookies, Jar
<1>2. MembersTypeOK'
  BY <1>1 DEF MembersIInv, MembersTypeOK, ProfilesIInv, Jar, Enrolled, HasProfile
<1>3. ASSUME NEW c \in Browsers PROVE Right(cookies'[c].session, tabs'[c], accounts', profiles')
  <2>1. /\ accounts \in [Phones -> AccountRecord] /\ tabs[c] \in Tab /\ cookies[c] \in Jar
    BY DEF MembersIInv, MembersTypeOK, Jar
  <2>2. Right(cookies[c].session, tabs[c], accounts, profiles)
    BY DEF MembersIInv
  <2>3. Right(cookies[c].session, tabs[c], accounts', profiles')
    BY <2>1, <2>2, RightStays
  <2> QED
    BY <1>1, <2>3
<1>4. Told
  <2>1. ASSUME NEW c \in Browsers, tabs'[c].result # "none", tabs[c].result = "none" PROVE True(tabs'[c])
    BY <1>1, <2>1
  <2> QED
    BY <2>1 DEF Told
<1> QED
  BY <1>2, <1>3, <1>4 DEF MembersIInv

\* ... that leaves accounts and profiles as they are.
LEMMA QuietKept ==
    ASSUME MembersIInv, NEW b \in Browsers, NEW tab \in Tab, NEW jar \in Jar,
           Show(b, tab), SetCookies(b, jar), UNCHANGED <<profileVars, accounts>>,
           codes' \in [Phones -> Browsers \cup {NoOne}],
           Right(jar.session, tab, accounts, profiles),
           tab.result # "none" /\ tabs[b].result = "none" => True(tab)
    PROVE  MembersIInv' /\ Told
<1>1. accounts' \in [Phones -> AccountRecord] /\ ProfilesIInv'
      /\ \A p \in Phones : Enrolled(accounts', profiles', p)
  BY DEF MembersIInv, MembersTypeOK, ProfilesIInv, ProfilesTypeOK, profileVars, HasProfile, Enrolled
<1>2. Grown(accounts, profiles, accounts', profiles')
  BY GrownSame DEF MembersIInv, MembersTypeOK, profileVars
<1>3. Right(jar.session, tab, accounts', profiles')
  BY DEF profileVars
<1> QED
  BY <1>1, <1>2, <1>3, BrowserKept

\* ... and the cookies.
LEMMA TabKept ==
    ASSUME MembersIInv, NEW b \in Browsers, NEW tab \in Tab, OnlyShow(b, tab),
           Right(cookies[b].session, tab, accounts, profiles),
           tab.result # "none" /\ tabs[b].result = "none" => True(tab)
    PROVE  MembersIInv' /\ Told
<1>1. cookies[b] \in Jar /\ SetCookies(b, cookies[b]) /\ codes' \in [Phones -> Browsers \cup {NoOne}]
  BY DEF MembersIInv, MembersTypeOK, OnlyShow, SetCookies, Jar
<1> QED
  BY <1>1, QuietKept DEF OnlyShow

LEMMA TypesOf ==
    ASSUME MembersIInv, NEW b \in Browsers
    PROVE  /\ tabs[b] \in Tab /\ cookies[b] \in Jar /\ accounts \in [Phones -> AccountRecord]
           /\ codes \in [Phones -> Browsers \cup {NoOne}]
           /\ Right(cookies[b].session, tabs[b], accounts, profiles)
           /\ \A page \in Pages : Fresh(page) \in Tab
  BY ProfilesAssumption DEF MembersIInv, MembersTypeOK, Jar, Fresh, Tab

LEMMA FreshRight ==
    ASSUME NEW s, NEW tab, NEW acs, NEW ps, tab.step = "account", tab.stage = "phone",
           s # NoSession => s.phone \in Phones /\ s.id <= acs[s.phone].id
    PROVE  Right(s, tab, acs, ps)
  BY DEF Right

\* The account page is a new tab.
LEMMA AccountPageIs ==
    ASSUME NEW s, NEW profile \in Profile
    PROVE  LET tab == AccountPage(s, profile) IN
           tab \in Tab /\ tab.step = "account" /\ tab.stage = "phone" /\ tab.result = "none"
<1>1. profile.parts["pickup"] \in 0..MaxSaves /\ 0 \in 0..MaxSaves
  BY ProfilesAssumption DEF Profile, Parts
<1> QED
  BY <1>1 DEF AccountPage, Fresh, Tab, Pages
-----------------------------------------------------------------------------
(* Members: the steps of a browser that change no account. *)

LEMMA VisitKept ==
    ASSUME MembersIInv, NEW b \in Browsers, NEW page \in Pages, Visit(b, page)
    PROVE  MembersIInv' /\ Told
<1> DEFINE tab == PageOf(b, page)
<1>1. /\ OnlyShow(b, tab) /\ cookies[b] \in Jar /\ \A x \in Pages : Fresh(x) \in Tab
      /\ Right(cookies[b].session, tabs[b], accounts, profiles)
  BY TypesOf DEF Visit
<1>2. tab \in Tab /\ tab.step = "account" /\ tab.stage = "phone" /\ tab.result = "none"
  <2>1. CASE page = "account" /\ cookies[b].session # NoSession
    <3>1. profiles[Me(b)] \in Profile
      BY <1>1, <2>1 DEF Right, Me, MembersIInv, ProfilesIInv, ProfilesTypeOK
    <3> QED
      BY <2>1, <3>1, AccountPageIs DEF PageOf
  <2>2. CASE ~(page = "account" /\ cookies[b].session # NoSession)
    <3>1. PICK x \in Pages : tab = Fresh(x)
      BY <2>2 DEF PageOf, Pages
    <3> HIDE DEF tab
    <3> QED
      BY <1>1, <3>1 DEF Fresh
  <2> QED
    BY <2>1, <2>2
<1> HIDE DEF tab
<1>3. cookies[b].session # NoSession =>
          cookies[b].session.phone \in Phones
            /\ cookies[b].session.id <= accounts[cookies[b].session.phone].id
  BY <1>1 DEF Right
<1>4. Right(cookies[b].session, tab, accounts, profiles)
  BY <1>2, <1>3, FreshRight
<1> QED
  BY <1>1, <1>2, <1>4, TabKept

LEMMA RestartedRight ==
    ASSUME MembersIInv, NEW b \in Browsers
    PROVE  /\ Restarted(tabs[b]) \in Tab /\ Restarted(tabs[b]).result = tabs[b].result
           /\ Right(cookies[b].session, Restarted(tabs[b]), accounts, profiles)
<1>1. tabs[b] \in Tab /\ Right(cookies[b].session, tabs[b], accounts, profiles)
  BY TypesOf
<1>2. /\ Restarted(tabs[b]) \in Tab /\ Restarted(tabs[b]).result = tabs[b].result
      /\ Restarted(tabs[b]).step = "account" /\ Restarted(tabs[b]).stage = "phone"
  BY <1>1 DEF Restarted, Tab
<1>3. Right(cookies[b].session, Restarted(tabs[b]), accounts, profiles)
  BY <1>1, <1>2, FreshRight DEF Right
<1> QED
  BY <1>2, <1>3

LEMMA RestartKept ==
    ASSUME MembersIInv, NEW b \in Browsers, ChangeNumber(b) \/ Restart(b)
    PROVE  MembersIInv' /\ Told
<1>1. OnlyShow(b, Restarted(tabs[b]))
  BY DEF ChangeNumber, Restart
<1> QED
  BY <1>1, RestartedRight, TabKept

\* Whoever changes only the step or the stage of a wizard that goes on.
LEMMA SteppedKept ==
    ASSUME MembersIInv, NEW b \in Browsers, NEW step \in {"account", "details", "review"},
           NEW tab, tabs[b].stage = "done", tab = [tabs[b] EXCEPT !.step = step], OnlyShow(b, tab)
    PROVE  MembersIInv' /\ Told
<1>1. tabs[b] \in Tab /\ Right(cookies[b].session, tabs[b], accounts, profiles)
  BY TypesOf
<1>2. /\ tab \in Tab /\ tab.result = tabs[b].result /\ tab.stage = "done"
      /\ tab.verified = tabs[b].verified /\ tab.registered = tabs[b].registered
  BY <1>1 DEF Tab
<1>3. Right(cookies[b].session, tab, accounts, profiles)
  BY <1>1, <1>2 DEF Right
<1> QED
  BY <1>2, <1>3, TabKept

LEMMA ContinueKept ==
    ASSUME MembersIInv, NEW b \in Browsers, Continue(b)
    PROVE  MembersIInv' /\ Told
<1>1. /\ tabs[b] \in Tab /\ Right(cookies[b].session, tabs[b], accounts, profiles)
      /\ tabs[b].stage = "done" /\ tabs[b].result = "none" /\ OnlyShow(b, Advanced(tabs[b]))
      /\ Fresh("account") \in Tab
  BY TypesOf DEF Continue, AtAccountStep, Pages
<1>2. ~tabs[b].registered
  BY <1>1 DEF Right
<1>3. CASE tabs[b].page = "reset"
  <2>1. Advanced(tabs[b]) = Fresh("account")
    BY <1>3 DEF Advanced
  <2>2. Right(cookies[b].session, Fresh("account"), accounts, profiles)
    BY <1>1, FreshRight DEF Right, Fresh
  <2>3. Fresh("account").result = "none"
    BY DEF Fresh
  <2> QED
    BY <1>1, <2>1, <2>2, <2>3, TabKept
<1>4. CASE tabs[b].page # "reset"
  <2>1. Advanced(tabs[b]) = [tabs[b] EXCEPT !.step = "details"]
    BY <1>1, <1>2, <1>4 DEF Advanced, Tab
  <2> QED
    BY <1>1, <2>1, SteppedKept
<1> QED
  BY <1>3, <1>4

LEMMA ToReviewKept ==
    ASSUME MembersIInv, NEW b \in Browsers, ToReview(b)
    PROVE  MembersIInv' /\ Told
<1>1. tabs[b].step = "details" /\ OnlyShow(b, [tabs[b] EXCEPT !.step = "review"])
  BY DEF ToReview, InWizard
<1>2. tabs[b].stage = "done"
  BY <1>1, TypesOf DEF Right
<1> QED
  BY <1>1, <1>2, SteppedKept

LEMMA BackKept ==
    ASSUME MembersIInv, NEW b \in Browsers, NEW step \in {"details", "review"}, BackFrom(b, step)
    PROVE  MembersIInv' /\ Told
<1> DEFINE back == IF step = "review" THEN "details" ELSE "account"
<1>1. tabs[b].step = step /\ OnlyShow(b, [tabs[b] EXCEPT !.step = back])
  BY DEF BackFrom, InWizard
<1>2. tabs[b].stage = "done" /\ back \in {"account", "details", "review"}
  BY <1>1, TypesOf DEF Right
<1> HIDE DEF back
<1> QED
  BY <1>1, <1>2, SteppedKept
-----------------------------------------------------------------------------
(* Members: codes and cookies. *)

LEMMA SendKept ==
    ASSUME MembersIInv, NEW b \in Browsers, NEW p \in Phones, Send(b, p)
    PROVE  MembersIInv' /\ Told
<1> DEFINE tab == [tabs[b] EXCEPT !.stage = "code", !.verified = p]
           jar == [cookies[b] EXCEPT !.challenge = p]
<1>1. /\ tabs[b] \in Tab /\ cookies[b] \in Jar /\ codes \in [Phones -> Browsers \cup {NoOne}]
      /\ Right(cookies[b].session, tabs[b], accounts, profiles)
  BY TypesOf
<1>2. /\ tabs[b].step = "account" /\ codes' = [codes EXCEPT ![p] = b]
      /\ Show(b, tab) /\ SetCookies(b, jar) /\ UNCHANGED <<profileVars, accounts>>
  BY DEF Send, AtAccountStep
<1>3. /\ tab \in Tab /\ tab.result = tabs[b].result /\ tab.stage = "code" /\ tab.step = "account"
  BY <1>1, <1>2 DEF Tab
<1>4. jar \in Jar /\ jar.session = cookies[b].session
  BY <1>1 DEF Jar
<1>5. codes' \in [Phones -> Browsers \cup {NoOne}]
  BY <1>1, <1>2
<1> HIDE DEF tab, jar
<1>6. Right(jar.session, tab, accounts, profiles)
  BY <1>1, <1>3, <1>4 DEF Right
<1> QED
  BY <1>2, <1>3, <1>4, <1>5, <1>6, QuietKept

LEMMA ReadCutShortKept ==
    ASSUME MembersIInv, NEW b \in Browsers, ReadCutShort(b)
    PROVE  MembersIInv' /\ Told
<1>1. /\ tabs[b] \in Tab /\ cookies[b] \in Jar /\ codes \in [Phones -> Browsers \cup {NoOne}]
      /\ Right(cookies[b].session, tabs[b], accounts, profiles)
      /\ accounts \in [Phones -> AccountRecord]
  BY TypesOf
<1>2. PICK p \in Phones : p = cookies[b].challenge
  BY <1>1 DEF ReadCutShort, Jar
<1> DEFINE jar == [challenge |-> NoOne, session |-> [phone |-> p, id |-> accounts[p].id]]
<1>3. MemberOf(p) = accounts[p]
  BY <1>2 DEF ReadCutShort, MemberOf
<1>4. /\ tabs[b].step = "account" /\ tabs[b].stage = "code" /\ codes' = [codes EXCEPT ![p] = NoOne]
      /\ SetCookies(b, jar) /\ UNCHANGED <<profileVars, accounts, tabs>>
  BY <1>2, <1>3 DEF ReadCutShort, AtAccountStep
<1>5. Show(b, tabs[b])
  BY <1>4, <1>1 DEF Show, MembersIInv, MembersTypeOK
<1>6. jar \in Jar /\ jar.session.phone = p /\ jar.session.id = accounts[p].id /\ accounts[p].id \in 0..MaxAccounts
  BY <1>1 DEF Jar, AccountRecord
<1>7. codes' \in [Phones -> Browsers \cup {NoOne}]
  BY <1>1, <1>4
<1> HIDE DEF jar
<1>8. Right(jar.session, tabs[b], accounts, profiles)
  BY <1>1, <1>4, <1>6 DEF Right
<1> QED
  BY <1>1, <1>4, <1>5, <1>6, <1>7, <1>8, QuietKept

LEMMA LogInKept ==
    ASSUME MembersIInv, NEW b \in Browsers, NEW p \in Phones, LogIn(b, p)
    PROVE  MembersIInv' /\ Told
<1> DEFINE session == [phone |-> p, id |-> accounts[p].id]
           tab == AccountPage(session, profiles[p])
           jar == [cookies[b] EXCEPT !.session = session]
<1>1. /\ cookies[b] \in Jar /\ codes \in [Phones -> Browsers \cup {NoOne}]
      /\ accounts \in [Phones -> AccountRecord] /\ profiles[p] \in Profile
  BY TypesOf DEF MembersIInv, ProfilesIInv, ProfilesTypeOK
<1>2. Show(b, tab) /\ SetCookies(b, jar) /\ UNCHANGED <<profileVars, accounts>> /\ codes' = codes
  BY DEF LogIn
<1>3. tab \in Tab /\ tab.step = "account" /\ tab.stage = "phone" /\ tab.result = "none"
  BY <1>1, AccountPageIs
<1>4. /\ jar \in Jar /\ jar.session.phone = p /\ jar.session.id = accounts[p].id
      /\ accounts[p].id \in 0..MaxAccounts
  BY <1>1 DEF Jar, AccountRecord
<1> HIDE DEF tab, jar, session
<1>5. Right(jar.session, tab, accounts, profiles)
  BY <1>3, <1>4, FreshRight
<1> QED
  BY <1>1, <1>2, <1>3, <1>4, <1>5, QuietKept

\* A browser that loses its session is nobody.
LEMMA NobodyKept ==
    ASSUME MembersIInv, NEW b \in Browsers, SignOut(b) \/ CookieLapses(b)
    PROVE  MembersIInv' /\ Told
<1> DEFINE jar == [cookies[b] EXCEPT !.session = NoSession]
<1>1. /\ tabs[b] \in Tab /\ cookies[b] \in Jar /\ codes \in [Phones -> Browsers \cup {NoOne}]
      /\ Right(cookies[b].session, tabs[b], accounts, profiles) /\ Fresh("login") \in Tab
  BY TypesOf DEF Pages
<1>2. NoSession \in [phone : Phones \cup {NoOne}, id : 0..MaxAccounts]
  BY RegistrationAssumption DEF NoSession
<1>3. jar \in Jar /\ jar.session = NoSession
  BY <1>1, <1>2 DEF Jar
<1>4. PICK tab \in {tabs[b], Fresh("login")} : Show(b, tab)
  BY DEF SignOut, CookieLapses, Show, MembersIInv, MembersTypeOK
<1>5. SetCookies(b, jar) /\ UNCHANGED <<profileVars, accounts>> /\ codes' = codes
  BY DEF SignOut, CookieLapses
<1> HIDE DEF jar
<1>6. Right(jar.session, tab, accounts, profiles)
  BY <1>1, <1>3, <1>4 DEF Right, Fresh, Holds
<1>7. tab \in Tab /\ (tab.result # "none" => tabs[b].result # "none")
  <2>1. Fresh("login").result = "none"
    BY DEF Fresh
  <2> QED
    BY <1>1, <1>4, <2>1
<1> QED
  BY <1>1, <1>3, <1>4, <1>5, <1>6, <1>7, QuietKept

LEMMA CodeEndsKept ==
    ASSUME MembersIInv, NEW p \in Phones, CodeEnds(p)
    PROVE  MembersIInv' /\ Told
<1>1. /\ codes' = [codes EXCEPT ![p] = NoOne] /\ UNCHANGED <<profileVars, accounts>>
      /\ UNCHANGED <<cookies, tabs>>
  BY DEF CodeEnds
<1>2. /\ accounts' \in [Phones -> AccountRecord] /\ ProfilesIInv'
      /\ codes' \in [Phones -> Browsers \cup {NoOne}]
      /\ \A q \in Phones : Enrolled(accounts', profiles', q)
  BY <1>1 DEF MembersIInv, MembersTypeOK, ProfilesIInv, ProfilesTypeOK, profileVars, HasProfile, Enrolled
<1>3. Grown(accounts, profiles, accounts', profiles')
  BY <1>1, GrownSame DEF MembersIInv, MembersTypeOK, profileVars
<1> QED
  BY <1>1, <1>2, <1>3, ElsewhereKept
-----------------------------------------------------------------------------
(* Members: the steps of a browser that change an account. *)

LEMMA TabFresh == "account" \in Pages /\ \A page \in Pages : Fresh(page) \in Tab
<1>1. 0 \in 0..MaxSaves
  BY ProfilesAssumption
<1> QED
  BY <1>1 DEF Fresh, Tab, Pages

\* Where a tab goes once the account step is through.
LEMMA AdvancedRight ==
    ASSUME NEW tab \in Tab, NEW s, NEW acs, NEW ps,
           tab.result = "none", tab.step = "account", tab.stage # "done",
           s.phone \in Phones, s.id <= acs[s.phone].id, s.phone = tab.verified, acs[s.phone].pin,
           tab.registered => Ready(acs, ps, s.phone, tab.page)
    PROVE  LET next == Advanced(tab) IN
           /\ next \in Tab /\ Right(s, next, acs, ps)
           /\ next.result # "none" =>
                  next.verified = s.phone /\ next.page = tab.page /\ Ready(acs, ps, s.phone, tab.page)
<1>1. CASE tab.page = "reset"
  <2>1. Advanced(tab) = Fresh("account")
    BY <1>1 DEF Advanced
  <2>2. Fresh("account").result = "none"
    BY DEF Fresh
  <2>4. Fresh("account") \in Tab
    BY TabFresh
  <2>3. Right(s, Fresh("account"), acs, ps)
    BY FreshRight DEF Fresh
  <2> QED
    BY <2>1, <2>2, <2>3, <2>4
<1>2. CASE tab.page # "reset" /\ tab.registered
  <2> DEFINE next == [tab EXCEPT !.stage = "done", !.result = "existing"]
  <2>1. Advanced(tab) = next
    BY <1>2 DEF Advanced
  <2>2. /\ next \in Tab /\ next.result = "existing" /\ next.stage = "done" /\ next.step = "account"
        /\ next.verified = tab.verified /\ next.page = tab.page
    BY DEF Tab
  <2> HIDE DEF next
  <2>3. Right(s, next, acs, ps)
    BY <2>2 DEF Right
  <2> QED
    BY <1>2, <2>1, <2>2, <2>3
<1>3. CASE tab.page # "reset" /\ ~tab.registered
  <2> DEFINE next == [tab EXCEPT !.stage = "done", !.step = "details"]
  <2>1. Advanced(tab) = next
    BY <1>3 DEF Advanced
  <2>2. /\ next \in Tab /\ next.result = "none" /\ next.stage = "done"
        /\ next.verified = tab.verified /\ next.registered = tab.registered
    BY DEF Tab
  <2> HIDE DEF next
  <2>3. Right(s, next, acs, ps)
    BY <1>3, <2>2 DEF Right
  <2> QED
    BY <2>1, <2>2, <2>3
<1> QED
  BY <1>1, <1>2, <1>3

\* The account of one phone is written: the same one with more of it, or a new one.
Gains(p, account) ==
    /\ account \in AccountRecord /\ account.exists
    /\ \/ accounts[p].exists /\ account.id = accounts[p].id
            /\ accounts[p].roles \subseteq account.roles /\ (accounts[p].pin => account.pin)
       \/ ~accounts[p].exists /\ account.id = accounts[p].id + 1

LEMMA GainedGrown ==
    ASSUME MembersIInv, NEW p \in Phones, NEW account, Gains(p, account), SetAccount(p, account),
           profiles' = profiles \/ Writes(p)
    PROVE  /\ accounts' \in [Phones -> AccountRecord] /\ accounts'[p] = account
           /\ Grown(accounts, profiles, accounts', profiles')
           /\ \A q \in Phones \ {p} : Enrolled(accounts', profiles', q)
<1>1. /\ accounts \in [Phones -> AccountRecord] /\ profiles \in [Phones -> Profile]
      /\ \A q \in Phones : Enrolled(accounts, profiles, q)
  BY DEF MembersIInv, MembersTypeOK, ProfilesTypeOK
<1>2. /\ accounts' \in [Phones -> AccountRecord] /\ accounts'[p] = account
      /\ \A q \in Phones \ {p} : accounts'[q] = accounts[q]
  BY <1>1 DEF SetAccount, Gains
<1>3. /\ \A q \in Phones \ {p} : profiles'[q] = profiles[q]
      /\ Submitted(profiles[p]) => Submitted(profiles'[p])
  BY <1>1 DEF Writes, Write
<1>4. ASSUME NEW q \in Phones
      PROVE  /\ accounts'[q].id >= accounts[q].id
             /\ accounts'[q].exists /\ accounts'[q].id = accounts[q].id =>
                  /\ accounts[q].exists /\ accounts[q].roles \subseteq accounts'[q].roles
                  /\ accounts[q].pin => accounts'[q].pin
                  /\ Submitted(profiles[q]) => Submitted(profiles'[q])
  <2>1. accounts[q].id \in Int
    BY <1>1 DEF AccountRecord
  <2>2. CASE q # p
    BY <1>2, <1>3, <2>1, <2>2 DEF AccountRecord
  <2>3. CASE q = p
    BY <1>2, <1>3, <2>1, <2>3 DEF Gains
  <2> QED
    BY <2>2, <2>3
<1>5. \A q \in Phones \ {p} : Enrolled(accounts', profiles', q)
  BY <1>1, <1>2, <1>3 DEF Enrolled, HasProfile
<1> QED
  BY <1>2, <1>4, <1>5 DEF Grown

\* The session is one of the account its phone has.
LEMMA InForceIs ==
    ASSUME MembersIInv, NEW b \in Browsers, InForce(cookies[b].session)
    PROVE  /\ Me(b) \in Phones /\ accounts[Me(b)] \in AccountRecord /\ accounts[Me(b)].exists
           /\ cookies[b].session # NoSession /\ cookies[b].session.phone = Me(b)
           /\ cookies[b].session.id = accounts[Me(b)].id /\ Holds(cookies[b].session, accounts)
  BY TypesOf DEF InForce, Me, Right, Holds

\* A browser's step for the account of its session.
LEMMA MineKept ==
    ASSUME MembersIInv, NEW b \in Browsers, InForce(cookies[b].session), NEW account, NEW tab \in Tab,
           Gains(Me(b), account), SetAccount(Me(b), account), Show(b, tab), UNCHANGED <<codes, cookies>>,
           ProfilesIInv', profiles' = profiles \/ Writes(Me(b)), Enrolled(accounts', profiles', Me(b)),
           Right(cookies[b].session, tab, accounts', profiles'),
           tab.result # "none" /\ tabs[b].result = "none" => True(tab)
    PROVE  MembersIInv' /\ Told
<1>1. Me(b) \in Phones
  BY InForceIs
<1>2. /\ accounts' \in [Phones -> AccountRecord] /\ Grown(accounts, profiles, accounts', profiles')
      /\ \A q \in Phones \ {Me(b)} : Enrolled(accounts', profiles', q)
  BY <1>1, GainedGrown
<1>3. cookies[b] \in Jar /\ SetCookies(b, cookies[b]) /\ codes' \in [Phones -> Browsers \cup {NoOne}]
  BY DEF MembersIInv, MembersTypeOK, SetCookies, Jar
<1>4. \A q \in Phones : Enrolled(accounts', profiles', q)
  <2>1. ASSUME NEW q \in Phones PROVE Enrolled(accounts', profiles', q)
    <3>1. CASE q = Me(b)
      BY <3>1 DEF Enrolled
    <3>2. CASE q # Me(b)
      BY <1>2, <3>2
    <3> QED
      BY <3>1, <3>2
  <2> QED
    BY <2>1
<1> QED
  BY <1>2, <1>3, <1>4, BrowserKept

LEMMA SavePinKept ==
    ASSUME MembersIInv, NEW b \in Browsers, SavePin(b)
    PROVE  MembersIInv' /\ Told
<1> DEFINE account == [accounts[Me(b)] EXCEPT !.pin = TRUE]
           tab == Advanced(tabs[b])
           p == Me(b)
<1>1. /\ tabs[b] \in Tab /\ Right(cookies[b].session, tabs[b], accounts, profiles)
      /\ tabs[b].result = "none" /\ tabs[b].step = "account" /\ tabs[b].stage = "pin"
      /\ InForce(cookies[b].session) /\ SetAccount(p, account) /\ Show(b, tab)
      /\ UNCHANGED <<profileVars, codes, cookies>>
  BY TypesOf DEF SavePin, AtAccountStep
<1>2. /\ p \in Phones /\ accounts[p] \in AccountRecord /\ accounts[p].exists
      /\ cookies[b].session # NoSession /\ cookies[b].session.phone = p
      /\ cookies[b].session.id = accounts[p].id /\ Holds(cookies[b].session, accounts)
  BY <1>1, InForceIs
<1>3. /\ account \in AccountRecord /\ account.pin /\ account.exists /\ account.roles = accounts[p].roles
      /\ account.id = accounts[p].id
  BY <1>2 DEF AccountRecord
<1> HIDE DEF account, p
<1>4. Gains(p, account)
  BY <1>2, <1>3 DEF Gains
<1>5. accounts'[p] = account
  BY <1>1, <1>2, <1>4, GainedGrown DEF profileVars
<1>6. cookies[b].session.id \in Int /\ accounts[p].id \in Int
  BY <1>2 DEF AccountRecord
<1>7. tabs[b].registered => Ready(accounts', profiles', p, tabs[b].page)
  BY <1>1, <1>2, <1>3, <1>5 DEF Right, Ready, profileVars
<1>8. p = tabs[b].verified
  BY <1>1, <1>2 DEF Right
<1>9. /\ tab \in Tab /\ Right(cookies[b].session, tab, accounts', profiles')
      /\ tab.result # "none" =>
             tab.verified = p /\ tab.page = tabs[b].page /\ Ready(accounts', profiles', p, tabs[b].page)
  <2> DEFINE s == cookies[b].session
  <2>1. /\ s.phone = p /\ s.id <= accounts'[s.phone].id /\ s.phone = tabs[b].verified
        /\ accounts'[s.phone].pin /\ s.phone \in Phones
    BY <1>2, <1>3, <1>5, <1>6, <1>8
  <2>2. tabs[b].registered => Ready(accounts', profiles', s.phone, tabs[b].page)
    BY <1>7, <2>1
  <2>3. tabs[b] \in Tab /\ tabs[b].result = "none" /\ tabs[b].step = "account" /\ tabs[b].stage # "done"
    BY <1>1
  <2> HIDE DEF s
  <2>4. /\ Advanced(tabs[b]) \in Tab /\ Right(s, Advanced(tabs[b]), accounts', profiles')
        /\ Advanced(tabs[b]).result # "none" =>
               /\ Advanced(tabs[b]).verified = s.phone /\ Advanced(tabs[b]).page = tabs[b].page
               /\ Ready(accounts', profiles', s.phone, tabs[b].page)
    BY <2>1, <2>2, <2>3, AdvancedRight
  <2> QED
    BY <2>1, <2>4 DEF s
<1> HIDE DEF tab
<1>10. tab.result # "none" => True(tab)
  BY <1>3, <1>5, <1>9 DEF True
<1>11. ProfilesIInv' /\ profiles' = profiles
  BY <1>1 DEF MembersIInv, ProfilesIInv, ProfilesTypeOK, profileVars, HasProfile
<1>12. Enrolled(accounts', profiles', p)
  BY <1>2, <1>3, <1>5, <1>11 DEF MembersIInv, Enrolled
<1> QED
  BY <1>1, <1>4, <1>9, <1>10, <1>11, <1>12, MineKept DEF p

LEMMA ChangePinKept ==
    ASSUME MembersIInv, NEW b \in Browsers, ChangePin(b)
    PROVE  MembersIInv' /\ Told
<1>1. /\ tabs[b].page = "change pin" /\ UNCHANGED <<profileVars, codes, cookies>>
      /\ cookies[b] \in Jar /\ codes \in [Phones -> Browsers \cup {NoOne}]
      /\ Right(cookies[b].session, tabs[b], accounts, profiles) /\ Fresh("login") \in Tab
  BY TypesOf DEF ChangePin, Pages
<1>2. CASE ~InForce(cookies[b].session)
  <2>1. OnlyShow(b, Fresh("login"))
    BY <1>1, <1>2 DEF ChangePin, OnlyShow
  <2>2. Right(cookies[b].session, Fresh("login"), accounts, profiles)
    BY <1>1, FreshRight DEF Right, Fresh
  <2>3. Fresh("login").result = "none"
    BY DEF Fresh
  <2> QED
    BY <1>1, <2>1, <2>2, <2>3, TabKept
<1>3. CASE InForce(cookies[b].session)
  <2> DEFINE p == Me(b)
             account == [accounts[p] EXCEPT !.pin = TRUE]
             tab == AccountPage(cookies[b].session, profiles[p])
  <2>1. SetAccount(p, account) /\ Show(b, tab)
    BY <1>3 DEF ChangePin
  <2>2. /\ p \in Phones /\ accounts[p] \in AccountRecord /\ accounts[p].exists
        /\ cookies[b].session.phone = p /\ cookies[b].session.id = accounts[p].id
    BY <1>3, InForceIs
  <2>3. /\ account \in AccountRecord /\ account.pin /\ account.exists /\ account.roles = accounts[p].roles
        /\ account.id = accounts[p].id
    BY <2>2 DEF AccountRecord
  <2>4. tab \in Tab /\ tab.step = "account" /\ tab.stage = "phone" /\ tab.result = "none"
    <3>1. profiles[p] \in Profile
      BY <2>2 DEF MembersIInv, ProfilesIInv, ProfilesTypeOK
    <3> QED
      BY <3>1, AccountPageIs
  <2> HIDE DEF account, tab, p
  <2>5. Gains(p, account)
    BY <2>2, <2>3 DEF Gains
  <2>6. accounts'[p] = account
    BY <1>1, <2>1, <2>2, <2>5, GainedGrown DEF profileVars
  <2>7. accounts'[p].id \in Int
    BY <2>3, <2>6 DEF AccountRecord
  <2>8. Right(cookies[b].session, tab, accounts', profiles')
    BY <2>2, <2>3, <2>4, <2>6, <2>7, FreshRight
  <2>9. ProfilesIInv' /\ profiles' = profiles
    BY <1>1 DEF MembersIInv, ProfilesIInv, ProfilesTypeOK, profileVars, HasProfile
  <2>10. Enrolled(accounts', profiles', p)
    BY <2>2, <2>3, <2>6, <2>9 DEF MembersIInv, Enrolled
  <2>11. UNCHANGED <<codes, cookies>>
    BY <1>1
  <2>12. InForce(cookies[b].session) /\ Show(b, tab)
    BY <1>3, <2>1
  <2> QED
    BY <2>1, <2>4, <2>5, <2>8, <2>9, <2>10, <2>11, <2>12, MineKept DEF p
<1> QED
  BY <1>2, <1>3

\* A wizard at its review, of someone signed in.
LEMMA ReviewIs ==
    ASSUME MembersIInv, NEW b \in Browsers, InWizard(b, "review"), InForce(cookies[b].session)
    PROVE  /\ tabs[b] \in Tab /\ tabs[b].stage = "done" /\ tabs[b].result = "none" /\ ~tabs[b].registered
           /\ tabs[b].verified = Me(b) /\ accounts[Me(b)].pin
<1>1. /\ tabs[b].step = "review" /\ tabs[b].result = "none" /\ tabs[b] \in Tab
      /\ Right(cookies[b].session, tabs[b], accounts, profiles)
  BY TypesOf DEF InWizard
<1>2. cookies[b].session # NoSession /\ cookies[b].session.phone = Me(b) /\ Holds(cookies[b].session, accounts)
  BY InForceIs
<1> QED
  BY <1>1, <1>2 DEF Right

\* ... and what an answer shows.
LEMMA AnsweredRight ==
    ASSUME MembersIInv, NEW b \in Browsers, NEW answered \in BOOLEAN,
           InWizard(b, "review"), InForce(cookies[b].session), NEW account, Gains(Me(b), account),
           accounts'[Me(b)] = account, Ready(accounts', profiles', Me(b), tabs[b].page)
    PROVE  LET tab == Answered(tabs[b], answered) IN
           /\ tab \in Tab /\ Right(cookies[b].session, tab, accounts', profiles')
           /\ tab.result # "none" => True(tab)
<1> DEFINE tab == Answered(tabs[b], answered)
           s == cookies[b].session
<1>1. /\ tabs[b] \in Tab /\ tabs[b].stage = "done" /\ tabs[b].result = "none" /\ ~tabs[b].registered
      /\ tabs[b].verified = Me(b) /\ accounts[Me(b)].pin
  BY ReviewIs
<1>2. /\ Me(b) \in Phones /\ accounts[Me(b)] \in AccountRecord /\ accounts[Me(b)].exists
      /\ s # NoSession /\ s.phone = Me(b) /\ s.id = accounts[Me(b)].id
  BY InForceIs
<1>3. /\ tab \in Tab /\ tab.stage = "done" /\ tab.verified = tabs[b].verified /\ tab.page = tabs[b].page
      /\ ~tab.registered /\ tab.result \in {"none", "registered"}
  BY <1>1 DEF Answered, Tab
<1>4. /\ account.pin /\ account.exists /\ account.id = s.id /\ account.id \in Int
  BY <1>1, <1>2 DEF Gains, AccountRecord
<1> HIDE DEF tab, s
<1>5. Right(s, tab, accounts', profiles')
  BY <1>1, <1>2, <1>3, <1>4 DEF Right
<1>6. True(tab)
  BY <1>1, <1>3, <1>4 DEF True
<1> QED
  BY <1>3, <1>5, <1>6 DEF tab, s

LEMMA WithRoleGains ==
    ASSUME NEW p, accounts[p] \in AccountRecord, accounts[p].exists, NEW role \in Wizards
    PROVE  Gains(p, WithRole(accounts[p], role)) /\ role \in WithRole(accounts[p], role).roles
<1> DEFINE account == WithRole(accounts[p], role)
<1>1. /\ account \in AccountRecord /\ account.exists /\ account.id = accounts[p].id
      /\ account.roles = accounts[p].roles \cup {role} /\ account.pin = accounts[p].pin
  BY DEF WithRole, AccountRecord
<1> HIDE DEF account
<1>2. Gains(p, account) /\ role \in account.roles
  BY <1>1 DEF Gains
<1> QED
  BY <1>2 DEF account

LEMMA RegisterBuyerKept ==
    ASSUME MembersIInv, NEW b \in Browsers, NEW answered \in BOOLEAN, RegisterBuyer(b, answered)
    PROVE  MembersIInv' /\ Told
<1> DEFINE p == Me(b)
           account == WithRole(accounts[p], "buyer")
           tab == Answered(tabs[b], answered)
<1>1. /\ InWizard(b, "review") /\ tabs[b].page = "buyer" /\ InForce(cookies[b].session)
      /\ SetAccount(p, account) /\ Show(b, tab) /\ UNCHANGED <<profileVars, codes, cookies>>
  BY DEF RegisterBuyer
<1>2. /\ p \in Phones /\ accounts[p] \in AccountRecord /\ accounts[p].exists
  BY <1>1, InForceIs
<1>3. Gains(p, account) /\ "buyer" \in account.roles
  BY <1>2, WithRoleGains DEF Wizards
<1> HIDE DEF account, p, tab
<1>4. accounts'[p] = account
  BY <1>1, <1>2, <1>3, GainedGrown DEF profileVars
<1>5. Ready(accounts', profiles', p, tabs[b].page)
  BY <1>1, <1>3, <1>4 DEF Ready
<1>6. tab \in Tab /\ Right(cookies[b].session, tab, accounts', profiles') /\ (tab.result # "none" => True(tab))
  BY <1>1, <1>3, <1>4, <1>5, AnsweredRight DEF p, tab
<1>7. ProfilesIInv' /\ profiles' = profiles
  BY <1>1 DEF MembersIInv, ProfilesIInv, ProfilesTypeOK, profileVars, HasProfile
<1>8. Enrolled(accounts', profiles', p)
  BY <1>2, <1>3, <1>4, <1>7 DEF MembersIInv, Enrolled, Gains
<1> QED
  BY <1>1, <1>3, <1>6, <1>7, <1>8, MineKept DEF p

LEMMA RegisterSupplierKept ==
    ASSUME MembersIInv, NEW b \in Browsers, NEW blank \in BOOLEAN, NEW answered \in BOOLEAN,
           RegisterSupplier(b, blank, answered)
    PROVE  MembersIInv' /\ Told
<1> DEFINE p == Me(b)
           account == WithRole(accounts[p], "supplier")
           tab == Answered(tabs[b], answered)
<1>1. /\ InWizard(b, "review") /\ tabs[b].page = "supplier" /\ InForce(cookies[b].session)
      /\ SetAccount(p, account) /\ Show(b, tab) /\ UNCHANGED <<codes, cookies>>
      /\ Submit(p, blank)
  BY DEF RegisterSupplier
<1>2. /\ p \in Phones /\ accounts[p] \in AccountRecord /\ accounts[p].exists
  BY <1>1, InForceIs
<1>3. Gains(p, account) /\ "supplier" \in account.roles
  BY <1>2, WithRoleGains DEF Wizards
<1>4. ProfilesIInv' /\ Writes(p) /\ Submitted(profiles'[p])
  <2>1. PICK q \in Phones : q = p
    BY <1>2
  <2>2. ProfilesIInv' /\ Writes(q) /\ Submitted(profiles'[q])
    BY <1>1, <2>1, SubmitKept DEF MembersIInv
  <2> QED
    BY <2>1, <2>2
<1> HIDE DEF account, p, tab
<1>5. accounts'[p] = account
  BY <1>1, <1>2, <1>3, <1>4, GainedGrown
<1>6. Ready(accounts', profiles', p, tabs[b].page)
  BY <1>1, <1>3, <1>4, <1>5 DEF Ready
<1>7. tab \in Tab /\ Right(cookies[b].session, tab, accounts', profiles') /\ (tab.result # "none" => True(tab))
  BY <1>1, <1>3, <1>5, <1>6, AnsweredRight DEF p, tab
<1>8. Enrolled(accounts', profiles', p)
  BY <1>3, <1>5 DEF Enrolled, Gains
<1> QED
  BY <1>1, <1>3, <1>4, <1>7, <1>8, MineKept DEF p

LEMMA RegistrationFailsKept ==
    ASSUME MembersIInv, NEW b \in Browsers, NEW photos \in BOOLEAN, NEW step \in {"details", "review"},
           RegistrationFails(b, photos, step)
    PROVE  MembersIInv' /\ Told
<1> DEFINE p == Me(b)
           account == IF photos /\ accounts[p].roles = {}
                      THEN WithRole(accounts[p], "supplier") ELSE accounts[p]
           tab == [tabs[b] EXCEPT !.step = step]
<1>1. /\ InWizard(b, "review") /\ InForce(cookies[b].session)
      /\ SetAccount(p, account) /\ Show(b, tab) /\ UNCHANGED <<profileVars, codes, cookies>>
  BY DEF RegistrationFails
<1>2. /\ p \in Phones /\ accounts[p] \in AccountRecord /\ accounts[p].exists
      /\ cookies[b].session # NoSession /\ cookies[b].session.phone = p /\ cookies[b].session.id = accounts[p].id
  BY <1>1, InForceIs
<1>3. Gains(p, account)
  <2>1. Gains(p, WithRole(accounts[p], "supplier"))
    BY <1>2, WithRoleGains DEF Wizards
  <2>2. Gains(p, accounts[p])
    BY <1>2 DEF Gains
  <2> QED
    BY <2>1, <2>2
<1>4. /\ tabs[b] \in Tab /\ tabs[b].stage = "done" /\ tabs[b].result = "none" /\ ~tabs[b].registered
      /\ tabs[b].verified = p /\ accounts[p].pin
  BY <1>1, ReviewIs
<1>5. /\ tab \in Tab /\ tab.stage = "done" /\ tab.result = "none" /\ ~tab.registered /\ tab.verified = p
  BY <1>4 DEF Tab
<1> HIDE DEF account, p, tab
<1>6. accounts'[p] = account
  BY <1>1, <1>2, <1>3, GainedGrown DEF profileVars
<1>7. account.pin /\ account.id = accounts[p].id /\ account.id \in Int
  BY <1>2, <1>3, <1>4 DEF Gains, AccountRecord
<1>8. Right(cookies[b].session, tab, accounts', profiles')
  BY <1>2, <1>5, <1>6, <1>7 DEF Right
<1>9. ProfilesIInv' /\ profiles' = profiles
  BY <1>1 DEF MembersIInv, ProfilesIInv, ProfilesTypeOK, profileVars, HasProfile
<1>10. Enrolled(accounts', profiles', p)
  BY <1>2, <1>3, <1>6, <1>9 DEF MembersIInv, Enrolled, Gains
<1> QED
  BY <1>1, <1>3, <1>5, <1>8, <1>9, <1>10, MineKept DEF p

LEMMA SavePanelKept ==
    ASSUME MembersIInv, NEW b \in Browsers, NEW kind \in Kinds, SavePanel(b, kind)
    PROVE  MembersIInv' /\ Told
<1> DEFINE p == Me(b)
           address == IF kind = "pickup" THEN NextSave ELSE tabs[b].seen
           relocated == address # profiles[p].parts["pickup"]
           saved == PickupSaved(profiles[p], address, relocated)
           tab == AccountPage(cookies[b].session, saved)
<1>1. /\ InForce(cookies[b].session) /\ Save /\ Write(p, saved) /\ Show(b, tab)
      /\ UNCHANGED <<desk, accounts, codes, cookies>>
  BY DEF SavePanel
<1>2. /\ p \in Phones /\ accounts[p] \in AccountRecord /\ accounts[p].exists
      /\ cookies[b].session # NoSession /\ cookies[b].session.phone = p /\ cookies[b].session.id = accounts[p].id
  BY <1>1, InForceIs
<1>3. /\ ProfilesIInv /\ tabs[b] \in Tab /\ accounts \in [Phones -> AccountRecord]
  BY TypesOf DEF MembersIInv
<1>4. profiles[p] \in Profile /\ AsReviewed(profiles[p]) /\ saves \in 0..MaxSaves
  BY <1>2, <1>3 DEF ProfilesIInv, ProfilesTypeOK
<1>5. address \in 0..MaxSaves /\ saves' \in 0..MaxSaves /\ relocated \in BOOLEAN
  BY <1>1, <1>3, <1>4, ProfilesAssumption DEF Save, NextSave, Tab
<1> HIDE DEF address, relocated
<1>6. Sound(saved) /\ saved.status = profiles[p].status
  BY <1>4, <1>5, PickupSound
<1> HIDE DEF saved
<1>7. ProfilesIInv' /\ Writes(p) /\ profiles'[p] = saved
  <2>1. /\ HasProfile(p) => saved.status # "none"
        /\ Submitted(profiles[p]) => Submitted(saved)
    BY <1>6 DEF HasProfile, Submitted
  <2>2. PICK q \in Phones : q = p
    BY <1>2
  <2> HIDE DEF p
  <2>3. ProfilesIInv' /\ Writes(q) /\ profiles'[q] = saved
    BY <1>1, <1>3, <1>5, <1>6, <2>1, <2>2, WritesKept
  <2> QED
    BY <2>2, <2>3
<1>8. tab \in Tab /\ tab.step = "account" /\ tab.stage = "phone" /\ tab.result = "none"
  BY <1>6, AccountPageIs DEF Sound
<1> HIDE DEF tab, p
<1>9. Gains(p, accounts[p]) /\ SetAccount(p, accounts[p])
  BY <1>1, <1>2, <1>3 DEF Gains, SetAccount
<1>10. Right(cookies[b].session, tab, accounts', profiles')
  <2>1. accounts'[p].id \in Int
    BY <1>1, <1>2 DEF AccountRecord
  <2> QED
    BY <1>1, <1>2, <1>8, <2>1, FreshRight
<1>11. Enrolled(accounts', profiles', p)
  BY <1>1, <1>2, <1>6, <1>7 DEF MembersIInv, Enrolled
<1> QED
  BY <1>1, <1>7, <1>8, <1>9, <1>10, <1>11, MineKept DEF p

LEMMA MemberOfGains ==
    ASSUME MembersIInv, NEW p \in Phones, MemberOf(p).id <= MaxAccounts
    PROVE  Gains(p, MemberOf(p)) /\ (~accounts[p].exists => profiles[p].status = "none")
<1>1. accounts[p] \in AccountRecord /\ Enrolled(accounts, profiles, p)
  BY DEF MembersIInv, MembersTypeOK
<1>2. CASE accounts[p].exists
  BY <1>1, <1>2 DEF MemberOf, Gains
<1>3. CASE ~accounts[p].exists
  <2>1. /\ MemberOf(p).id = accounts[p].id + 1 /\ MemberOf(p).exists
        /\ MemberOf(p) = [id |-> accounts[p].id + 1, exists |-> TRUE, roles |-> {}, pin |-> FALSE]
    BY <1>3 DEF MemberOf
  <2>2. accounts[p].id + 1 \in 0..MaxAccounts
    BY <1>1, <2>1, RegistrationAssumption DEF AccountRecord
  <2>3. MemberOf(p) \in AccountRecord
    BY <2>1, <2>2 DEF AccountRecord
  <2> QED
    BY <1>1, <1>3, <2>1, <2>3 DEF Gains, Enrolled
<1> QED
  BY <1>2, <1>3

LEMMA EnterCodeKept ==
    ASSUME MembersIInv, NEW b \in Browsers, EnterCode(b)
    PROVE  MembersIInv' /\ Told
<1>1. /\ tabs[b] \in Tab /\ cookies[b] \in Jar /\ codes \in [Phones -> Browsers \cup {NoOne}]
  BY TypesOf
<1>2. PICK p \in Phones : p = cookies[b].challenge
  BY <1>1 DEF EnterCode, Jar
<1> DEFINE member == MemberOf(p)
           jar == [challenge |-> NoOne, session |-> [phone |-> p, id |-> member.id]]
           s == jar.session
           tab == Confirmed(tabs[b], p, member)
<1>3. /\ tabs[b].step = "account" /\ tabs[b].result = "none" /\ member.id <= MaxAccounts
      /\ codes' = [codes EXCEPT ![p] = NoOne] /\ SetAccount(p, member) /\ SetCookies(b, jar)
      /\ Show(b, tab) /\ UNCHANGED profileVars
  BY <1>2 DEF EnterCode, AtAccountStep
<1>4. Gains(p, member) /\ (~accounts[p].exists => profiles[p].status = "none")
  BY <1>3, MemberOfGains
<1>5. profiles' = profiles /\ ProfilesIInv'
  BY <1>3 DEF MembersIInv, ProfilesIInv, ProfilesTypeOK, profileVars, HasProfile
<1>6. /\ accounts' \in [Phones -> AccountRecord] /\ accounts'[p] = member
      /\ Grown(accounts, profiles, accounts', profiles')
      /\ \A q \in Phones \ {p} : Enrolled(accounts', profiles', q)
  BY <1>3, <1>4, <1>5, GainedGrown
<1>7. Enrolled(accounts', profiles', p)
  BY <1>4, <1>5, <1>6 DEF MembersIInv, Enrolled, Gains
<1>8. /\ member.exists /\ member.id \in 0..MaxAccounts
      /\ jar \in Jar /\ s.phone = p /\ s.id = member.id
  BY <1>4 DEF Gains, AccountRecord, Jar
<1>9. codes' \in [Phones -> Browsers \cup {NoOne}]
  BY <1>1, <1>3
<1> DEFINE known == [tabs[b] EXCEPT !.verified = p,
                                    !.registered = AlreadyRegistered(tabs[b], member, profiles[p])]
<1>10. tab = IF tabs[b].page = "reset" \/ ~member.pin THEN [known EXCEPT !.stage = "pin"] ELSE Advanced(known)
  BY DEF Confirmed
<1> HIDE DEF member
<1>11. /\ known \in Tab /\ known.verified = p /\ known.result = "none" /\ known.step = "account"
       /\ known.registered <=> AlreadyRegistered(tabs[b], member, profiles[p])
       /\ known.page = tabs[b].page /\ known.stage = tabs[b].stage
  BY <1>1, <1>3 DEF Tab, AlreadyRegistered
<1> HIDE DEF known, tab
<1>12. known.registered => Ready(accounts', profiles', p, known.page)
  BY <1>5, <1>6, <1>11 DEF AlreadyRegistered, Ready, Submitted
<1>13. tabs[b].stage = "code"
  BY DEF EnterCode
<1> HIDE DEF jar, s
<1>14. /\ tab \in Tab /\ Right(s, tab, accounts', profiles')
       /\ tab.result # "none" => True(tab)
  <2>1. CASE tabs[b].page = "reset" \/ ~member.pin
    <3>1. /\ tab \in Tab /\ tab.stage = "pin" /\ tab.verified = p /\ tab.result = "none" /\ tab.step = "account"
          /\ tab.registered = known.registered /\ tab.page = known.page
      BY <1>10, <1>11, <2>1 DEF Tab
    <3>2. Right(s, tab, accounts', profiles')
      BY <1>6, <1>8, <1>12, <3>1 DEF Right
    <3> QED
      BY <3>1, <3>2
  <2>2. CASE ~(tabs[b].page = "reset" \/ ~member.pin)
    <3>1. tab = Advanced(known)
      BY <1>10, <2>2
    <3>2. /\ s.phone \in Phones /\ s.id <= accounts'[s.phone].id /\ s.phone = known.verified
          /\ accounts'[s.phone].pin
      BY <1>6, <1>8, <1>11, <2>2
    <3>3. known.registered => Ready(accounts', profiles', s.phone, known.page)
      BY <1>8, <1>12
    <3>4. /\ Advanced(known) \in Tab /\ Right(s, Advanced(known), accounts', profiles')
          /\ Advanced(known).result # "none" =>
                 /\ Advanced(known).verified = s.phone /\ Advanced(known).page = known.page
                 /\ Ready(accounts', profiles', s.phone, known.page)
      BY <1>11, <1>13, <3>2, <3>3, AdvancedRight
    <3>5. tab.result # "none" => True(tab)
      BY <1>6, <1>8, <3>1, <3>2, <3>4 DEF True
    <3> QED
      BY <3>1, <3>4, <3>5
  <2> QED
    BY <2>1, <2>2
<1>15. \A q \in Phones : Enrolled(accounts', profiles', q)
  BY <1>6, <1>7
<1>16. Right(jar.session, tab, accounts', profiles')
  BY <1>14 DEF s
<1>17. jar \in Jar
  BY <1>8
<1> QED
  BY <1>3, <1>5, <1>6, <1>9, <1>14, <1>15, <1>16, <1>17, BrowserKept

-----------------------------------------------------------------------------
(* Members: the steps elsewhere. *)

LEMMA GainsElsewhereKept ==
    ASSUME MembersIInv, NEW p \in Phones, NEW account, Gains(p, account), SetAccount(p, account),
           UNCHANGED <<codes, cookies, tabs>>, ProfilesIInv', profiles' = profiles \/ Writes(p),
           Enrolled(accounts', profiles', p)
    PROVE  MembersIInv' /\ Told
<1>1. /\ accounts' \in [Phones -> AccountRecord]
      /\ Grown(accounts, profiles, accounts', profiles')
      /\ \A q \in Phones \ {p} : Enrolled(accounts', profiles', q)
  BY GainedGrown
<1>2. codes' \in [Phones -> Browsers \cup {NoOne}] /\ UNCHANGED <<cookies, tabs>>
  BY DEF MembersIInv, MembersTypeOK
<1>3. \A q \in Phones : Enrolled(accounts', profiles', q)
  BY <1>1
<1> QED
  BY <1>1, <1>2, <1>3, ElsewhereKept

LEMMA AppSignUpKept ==
    ASSUME MembersIInv, NEW p \in Phones, AppSignUp(p)
    PROVE  MembersIInv' /\ Told
<1> DEFINE member == MemberOf(p)
<1>1. /\ ~accounts[p].exists /\ accounts[p].id < MaxAccounts
      /\ SetAccount(p, member) /\ UNCHANGED <<profileVars, codes, cookies, tabs>>
  BY DEF AppSignUp
<1>2. member.id <= MaxAccounts
  <2>1. accounts[p].id \in 0..MaxAccounts
    BY DEF MembersIInv, MembersTypeOK, AccountRecord
  <2> QED
    BY <1>1, <2>1, RegistrationAssumption DEF MemberOf
<1>3. Gains(p, member) /\ profiles[p].status = "none"
  BY <1>1, <1>2, MemberOfGains
<1> HIDE DEF member
<1>4. ProfilesIInv' /\ profiles' = profiles
  BY <1>1 DEF MembersIInv, ProfilesIInv, ProfilesTypeOK, profileVars, HasProfile
<1>5. Enrolled(accounts', profiles', p)
  BY <1>3, <1>4 DEF Enrolled
<1>6. UNCHANGED <<codes, cookies, tabs>>
  BY <1>1
<1> QED
  BY <1>1, <1>3, <1>4, <1>5, <1>6, GainsElsewhereKept

LEMMA AppRegisterKept ==
    ASSUME MembersIInv, NEW p \in Phones, NEW role \in Wizards, AppRegister(p, role)
    PROVE  MembersIInv' /\ Told
<1> DEFINE account == WithRole(accounts[p], role)
<1>1. /\ accounts[p].exists /\ SetAccount(p, account) /\ UNCHANGED <<codes, cookies, tabs>>
      /\ accounts[p] \in AccountRecord /\ accounts \in [Phones -> AccountRecord]
  BY DEF AppRegister, MembersIInv, MembersTypeOK
<1>2. Gains(p, account) /\ role \in account.roles
  BY <1>1, WithRoleGains
<1> HIDE DEF account
<1>3. accounts'[p] = account /\ account.exists /\ accounts[p].roles \subseteq account.roles
  BY <1>1, <1>2 DEF SetAccount, Gains
<1>4. CASE role = "supplier"
  <2>1. ProfilesIInv' /\ Writes(p)
    BY <1>4, FirstPickupKept DEF AppRegister, MembersIInv
  <2>2. Enrolled(accounts', profiles', p)
    BY <1>2, <1>3, <1>4 DEF Enrolled
  <2> QED
    BY <1>1, <1>2, <2>1, <2>2, GainsElsewhereKept
<1>5. CASE role # "supplier"
  <2>1. ProfilesIInv' /\ profiles' = profiles
    BY <1>5 DEF AppRegister, MembersIInv, ProfilesIInv, ProfilesTypeOK, profileVars, HasProfile
  <2>2. Enrolled(accounts', profiles', p)
    BY <1>3, <2>1 DEF Enrolled, MembersIInv
  <2> QED
    BY <1>1, <1>2, <2>1, <2>2, GainsElsewhereKept
<1> QED
  BY <1>4, <1>5

LEMMA AppSupplierKept ==
    ASSUME MembersIInv, NEW p \in Phones, AppSupplier(p)
    PROVE  MembersIInv' /\ Told
<1>1. /\ accounts[p].exists /\ UNCHANGED <<codes, cookies, tabs>> /\ ProfilesIInv
      /\ accounts[p] \in AccountRecord /\ accounts \in [Phones -> AccountRecord]
      /\ Enrolled(accounts, profiles, p)
  BY DEF AppSupplier, MembersIInv, MembersTypeOK
<1>2. CASE \E blank \in BOOLEAN : Submit(p, blank) /\ SetAccount(p, WithRole(accounts[p], "supplier"))
  <2> DEFINE account == WithRole(accounts[p], "supplier")
  <2>1. PICK blank \in BOOLEAN : Submit(p, blank) /\ SetAccount(p, account)
    BY <1>2
  <2>2. Gains(p, account) /\ "supplier" \in account.roles
    BY <1>1, WithRoleGains DEF Wizards
  <2> HIDE DEF account
  <2>3. ProfilesIInv' /\ Writes(p)
    BY <1>1, <2>1, SubmitKept
  <2>4. Enrolled(accounts', profiles', p)
    BY <1>1, <2>1, <2>2 DEF Enrolled, SetAccount, Gains
  <2> QED
    BY <1>1, <2>1, <2>2, <2>3, <2>4, GainsElsewhereKept
<1>3. CASE /\ UNCHANGED accounts /\ ProfilesIInv' /\ Writes(p)
           /\ profiles'[p].status # "none" => "supplier" \in accounts[p].roles
  <2>1. Gains(p, accounts[p]) /\ SetAccount(p, accounts[p])
    BY <1>1, <1>3 DEF Gains, SetAccount
  <2>2. Enrolled(accounts', profiles', p)
    BY <1>1, <1>3 DEF Enrolled
  <2> QED
    BY <1>1, <1>3, <2>1, <2>2, GainsElsewhereKept
<1>4. CASE "supplier" \in accounts[p].roles /\ FirstPickupDetails(p) /\ UNCHANGED accounts
  BY <1>1, <1>3, <1>4, FirstPickupKept
<1>5. CASE (\E relocated \in BOOLEAN : MovePlace(p, relocated)) /\ UNCHANGED accounts
  <2>1. PICK relocated \in BOOLEAN : MovePlace(p, relocated)
    BY <1>5
  <2>2. ProfilesIInv' /\ Writes(p)
    BY <1>1, <2>1, MovePlaceKept
  <2>3. "supplier" \in accounts[p].roles
    BY <1>1, <2>1 DEF MovePlace, Enrolled, HasProfile
  <2> QED
    BY <1>3, <1>5, <2>2, <2>3
<1> QED
  BY <1>2, <1>4, <1>5 DEF AppSupplier

LEMMA StaffRegisterKept ==
    ASSUME MembersIInv, NEW p \in Phones, NEW blank \in BOOLEAN, StaffRegister(p, blank)
    PROVE  MembersIInv' /\ Told
<1> DEFINE member == MemberOf(p)
           account == WithRole(member, "supplier")
<1>1. /\ member.id <= MaxAccounts /\ Submit(p, blank) /\ SetAccount(p, account)
      /\ UNCHANGED <<codes, cookies, tabs>> /\ accounts \in [Phones -> AccountRecord]
      /\ ProfilesIInv
  BY DEF StaffRegister, MembersIInv, MembersTypeOK
<1>2. Gains(p, member)
  BY <1>1, MemberOfGains
<1> HIDE DEF member
<1>3. /\ account \in AccountRecord /\ account.exists /\ account.id = member.id
      /\ member.roles \subseteq account.roles /\ "supplier" \in account.roles /\ account.pin = member.pin
  BY <1>2 DEF Gains, WithRole, AccountRecord, Wizards
<1> HIDE DEF account
<1>4. Gains(p, account)
  BY <1>2, <1>3 DEF Gains
<1>5. ProfilesIInv' /\ Writes(p)
  BY <1>1, SubmitKept
<1>6. Enrolled(accounts', profiles', p)
  BY <1>1, <1>3 DEF Enrolled, SetAccount
<1> QED
  BY <1>1, <1>4, <1>5, <1>6, GainsElsewhereKept

LEMMA DropKept ==
    ASSUME ProfilesIInv, NEW p \in Phones, Drop(p)
    PROVE  /\ ProfilesIInv' /\ profiles'[p].status = "none"
           /\ \A q \in Phones \ {p} : profiles'[q] = profiles[q]
<1>1. /\ profiles \in [Phones -> Profile] /\ saves' = saves
      /\ Write(p, NoProfile) /\ desk' = IF desk.phone = p THEN ClosedDesk ELSE desk
  BY DEF Drop, ProfilesIInv, ProfilesTypeOK
<1>2. /\ profiles' \in [Phones -> Profile] /\ profiles'[p] = NoProfile
      /\ \A q \in Phones \ {p} : profiles'[q] = profiles[q]
  BY <1>1, EmptyType DEF Write
<1>3. NoProfile.status = "none" /\ AsReviewed(NoProfile)
  BY DEF NoProfile, AsReviewed
<1>4. ClosedDesk \in [phone : Phones \cup {NoOne}, card : Cards \cup {"none"}, copy : [Parts -> 0..MaxSaves]]
      /\ ClosedDesk.phone = NoOne
  BY EmptyType DEF ClosedDesk, PartsType
<1>5. ProfilesTypeOK'
  BY <1>1, <1>2, <1>4 DEF ProfilesTypeOK, ProfilesIInv
<1>6. (desk.phone \in Phones => HasProfile(desk.phone) \/ desk.phone = NoOne)'
  <2>1. CASE desk.phone = p
    BY <1>1, <1>4, <2>1
  <2>2. CASE desk.phone # p
    BY <1>1, <1>2, <2>2 DEF ProfilesIInv, HasProfile
  <2> QED
    BY <2>1, <2>2
<1>7. \A q \in Phones : AsReviewed(profiles'[q])
  BY <1>2, <1>3 DEF ProfilesIInv
<1> QED
  BY <1>2, <1>3, <1>5, <1>6, <1>7 DEF ProfilesIInv

LEMMA DeleteAccountKept ==
    ASSUME MembersIInv, NEW p \in Phones, DeleteAccount(p)
    PROVE  MembersIInv' /\ Told
<1> DEFINE gone == [NoAccount EXCEPT !.id = accounts[p].id]
<1>1. /\ accounts \in [Phones -> AccountRecord] /\ codes \in [Phones -> Browsers \cup {NoOne}]
      /\ SetAccount(p, gone) /\ Drop(p) /\ UNCHANGED <<codes, cookies, tabs>> /\ ProfilesIInv
      /\ \A q \in Phones : Enrolled(accounts, profiles, q)
  BY DEF DeleteAccount, MembersIInv, MembersTypeOK
<1>2. gone \in AccountRecord /\ ~gone.exists /\ gone.id = accounts[p].id
  BY <1>1 DEF NoAccount, AccountRecord
<1> HIDE DEF gone
<1>3. /\ accounts' \in [Phones -> AccountRecord] /\ accounts'[p] = gone
      /\ \A q \in Phones \ {p} : accounts'[q] = accounts[q]
  BY <1>1, <1>2 DEF SetAccount
<1>4. /\ ProfilesIInv' /\ profiles'[p].status = "none"
      /\ \A q \in Phones \ {p} : profiles'[q] = profiles[q]
  BY <1>1, DropKept
<1>5. Grown(accounts, profiles, accounts', profiles')
  <2>1. ASSUME NEW q \in Phones
        PROVE  /\ accounts'[q].id >= accounts[q].id
               /\ accounts'[q].exists /\ accounts'[q].id = accounts[q].id =>
                    /\ accounts[q].exists /\ accounts[q].roles \subseteq accounts'[q].roles
                    /\ accounts[q].pin => accounts'[q].pin
                    /\ Submitted(profiles[q]) => Submitted(profiles'[q])
    <3>1. accounts[q].id \in Int
      BY <1>1 DEF AccountRecord
    <3>2. CASE q = p
      BY <1>2, <1>3, <3>1, <3>2
    <3>3. CASE q # p
      BY <1>3, <1>4, <3>1, <3>3
    <3> QED
      BY <3>2, <3>3
  <2> QED
    BY <2>1 DEF Grown
<1>6. \A q \in Phones : Enrolled(accounts', profiles', q)
  BY <1>1, <1>3, <1>4 DEF Enrolled
<1>7. codes' \in [Phones -> Browsers \cup {NoOne}] /\ UNCHANGED <<cookies, tabs>>
  BY <1>1
<1> QED
  BY <1>3, <1>4, <1>5, <1>6, <1>7, ElsewhereKept

LEMMA StaffNextKept ==
    ASSUME MembersIInv, StaffNext, UNCHANGED <<accounts, codes, cookies, tabs>>
    PROVE  MembersIInv' /\ Told
<1>1. /\ ProfilesIInv' /\ accounts' \in [Phones -> AccountRecord] /\ accounts' = accounts
      /\ codes' \in [Phones -> Browsers \cup {NoOne}] /\ UNCHANGED <<cookies, tabs>>
  BY StaffKept DEF MembersIInv, MembersTypeOK
<1>2. CASE profiles' = profiles
  <2>1. Grown(accounts, profiles, accounts', profiles')
    BY <1>1, <1>2, GrownSame
  <2>2. \A q \in Phones : Enrolled(accounts', profiles', q)
    BY <1>1, <1>2 DEF MembersIInv
  <2> QED
    BY <1>1, <2>1, <2>2, ElsewhereKept
<1>3. CASE \E p \in Phones : HasProfile(p) /\ Writes(p)
  <2>1. PICK p \in Phones : HasProfile(p) /\ Writes(p)
    BY <1>3
  <2>2. /\ Enrolled(accounts, profiles, p) /\ accounts[p].exists /\ "supplier" \in accounts[p].roles
        /\ accounts[p] \in AccountRecord
    BY <1>1, <2>1 DEF MembersIInv, Enrolled, HasProfile, MembersTypeOK
  <2>3. Gains(p, accounts[p]) /\ SetAccount(p, accounts[p])
    BY <1>1, <2>2 DEF Gains, SetAccount
  <2>4. Enrolled(accounts', profiles', p)
    BY <1>1, <2>2 DEF Enrolled
  <2>5. UNCHANGED <<codes, cookies, tabs>>
    OBVIOUS
  <2> QED
    BY <1>1, <2>1, <2>3, <2>4, <2>5, GainsElsewhereKept
<1>4. profiles' = profiles \/ \E p \in Phones : HasProfile(p) /\ Writes(p)
  BY StaffKept DEF MembersIInv
<1> QED
  BY <1>2, <1>3, <1>4

-----------------------------------------------------------------------------
LEMMA MembersInitSafe == MembersInit => MembersIInv
<1> SUFFICES ASSUME MembersInit PROVE MembersIInv
  OBVIOUS
<1>1. NoAccount \in AccountRecord
  BY RegistrationAssumption DEF NoAccount, AccountRecord
<1>2. NoCookies \in Jar /\ NoCookies.session = NoSession
  BY RegistrationAssumption DEF NoCookies, NoSession, Jar
<1>3. Fresh("login") \in Tab /\ Fresh("login").step = "account" /\ Fresh("login").stage = "phone"
  BY TabFresh DEF Fresh, Pages
<1>4. NoProfile \in Profile /\ NoProfile.status = "none" /\ ClosedDesk.phone = NoOne
      /\ ClosedDesk \in [phone : Phones \cup {NoOne}, card : Cards \cup {"none"}, copy : [Parts -> 0..MaxSaves]]
  BY EmptyType DEF NoProfile, ClosedDesk, PartsType
<1>5. 0 \in 0..MaxSaves
  BY ProfilesAssumption
<1>6. ProfilesIInv
  BY <1>4, <1>5 DEF MembersInit, ProfilesInit, ProfilesIInv, ProfilesTypeOK, AsReviewed
<1>7. \A p \in Phones : Enrolled(accounts, profiles, p) /\ ~HasProfile(p)
  BY <1>4 DEF MembersInit, ProfilesInit, Enrolled, HasProfile
<1>8. MembersTypeOK
  BY <1>1, <1>2, <1>3, <1>6, <1>7 DEF MembersInit, MembersTypeOK, ProfilesIInv, Jar
<1>9. ASSUME NEW b \in Browsers PROVE Right(cookies[b].session, tabs[b], accounts, profiles)
  BY <1>2, <1>3 DEF MembersInit, Right
<1> QED
  BY <1>6, <1>7, <1>8, <1>9 DEF MembersIInv

LEMMA MembersStepSafe ==
    ASSUME MembersIInv, [MembersNext]_memberVars
    PROVE  MembersIInv' /\ Told
<1>1. CASE UNCHANGED memberVars
  <2>1. /\ accounts' \in [Phones -> AccountRecord] /\ codes' \in [Phones -> Browsers \cup {NoOne}]
        /\ accounts' = accounts /\ profiles' = profiles /\ UNCHANGED <<cookies, tabs>>
    BY <1>1 DEF memberVars, MembersIInv, MembersTypeOK
  <2>2. ProfilesIInv'
    BY <1>1 DEF memberVars, MembersIInv, ProfilesIInv, ProfilesTypeOK, HasProfile
  <2>3. Grown(accounts, profiles, accounts', profiles')
    BY <2>1, GrownSame
  <2>4. \A q \in Phones : Enrolled(accounts', profiles', q)
    BY <2>1 DEF MembersIInv
  <2> QED
    BY <2>1, <2>2, <2>3, <2>4, ElsewhereKept
<1>2. ASSUME NEW b \in Browsers, Browse(b) PROVE MembersIInv' /\ Told
  <2>1. CASE \E page \in Pages : Visit(b, page)
    BY <2>1, VisitKept
  <2>2. CASE AccountStep(b)
    BY <2>2, SendKept, EnterCodeKept, ReadCutShortKept, RestartKept, SavePinKept, ContinueKept DEF AccountStep
  <2>3. CASE WizardSteps(b)
    BY <2>3, ToReviewKept, BackKept, RegisterBuyerKept, RegisterSupplierKept, RegistrationFailsKept
       DEF WizardSteps
  <2>4. CASE AccountPages(b)
    BY <2>4, LogInKept, NobodyKept, ChangePinKept, SavePanelKept DEF AccountPages
  <2>5. CASE CookieLapses(b)
    BY <2>5, NobodyKept
  <2> QED
    BY <1>2, <2>1, <2>2, <2>3, <2>4, <2>5 DEF Browse
<1>3. ASSUME NEW p \in Phones, Elsewhere(p) PROVE MembersIInv' /\ Told
  BY <1>3, AppSignUpKept, AppSupplierKept, DeleteAccountKept, CodeEndsKept, AppRegisterKept, StaffRegisterKept
     DEF Elsewhere
<1>4. CASE StaffNext /\ UNCHANGED <<accounts, codes, cookies, tabs>>
  BY <1>4, StaffNextKept
<1> QED
  BY <1>1, <1>2, <1>3, <1>4 DEF MembersNext

LEMMA ToldMeans ==
    ASSUME Told
    PROVE  \A b \in Browsers :
               tabs'[b].result # "none" /\ tabs[b].result = "none" =>
                   \A p \in Phones : p = tabs'[b].verified =>
                       /\ accounts'[p].exists /\ accounts'[p].pin
                       /\ tabs'[b].page \in accounts'[p].roles
                       /\ tabs'[b].page = "supplier" => profiles'[p].status \notin {"none", "new"}
  BY DEF Told, True, Ready, Submitted

LEMMA MembersInvariant == MembersSpec => []MembersIInv
<1>1. MembersInit => MembersIInv
  BY MembersInitSafe
<1>2. MembersIInv /\ [MembersNext]_memberVars => MembersIInv'
  BY MembersStepSafe
<1> QED
  BY <1>1, <1>2, PTL DEF MembersSpec

\* Accounts, codes, cookies, tabs and profiles keep their types, whatever the website, the app
\* and the staff do to one person at once; only suppliers have a profile.
THEOREM MembersTypeCorrect == MembersSpec => []MembersTypeOK
<1>1. MembersIInv => MembersTypeOK
  BY DEF MembersIInv
<1> QED
  BY <1>1, MembersInvariant, PTL

\* Whoever sells as an approved supplier sells under the details, products and capacity that
\* were there at the approval: no save of the supplier, in the app or on the website, and none of
\* the staff, with a copy however old, changes them and leaves the profile approved.
THEOREM ApprovedAlwaysAsReviewed == MembersSpec => []ApprovedAsReviewed
<1>1. MembersIInv => ApprovedAsReviewed
  BY DEF MembersIInv, ProfilesIInv, AsReviewed, ApprovedAsReviewed
<1> QED
  BY <1>1, MembersInvariant, PTL

\* A visitor a wizard calls registered is: the account of the number they confirmed has the
\* role, a PIN, and as a supplier a submitted profile, whatever was lost, failed, deleted or done
\* elsewhere before.
THEOREM RegisteredIsAlwaysTrue == MembersSpec => RegisteredIsTrue
<1>1. MembersIInv /\ [MembersNext]_memberVars =>
        [\A b \in Browsers :
            tabs'[b].result # "none" /\ tabs[b].result = "none" =>
                \A p \in Phones : p = tabs'[b].verified =>
                    /\ accounts'[p].exists /\ accounts'[p].pin
                    /\ tabs'[b].page \in accounts'[p].roles
                    /\ tabs'[b].page = "supplier" => profiles'[p].status \notin {"none", "new"}]_memberVars
  BY MembersStepSafe, ToldMeans
<1> QED
  BY <1>1, MembersInvariant, PTL DEF MembersSpec, RegisteredIsTrue
=============================================================================
