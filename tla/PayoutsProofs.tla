--------------------------- MODULE PayoutsProofs ----------------------------
(***************************************************************************)
(* Proofs about Payouts, for every number of payouts, approvals and admins *)
(* and every bound.  The invariant is one of each payout by itself: its    *)
(* row follows its attempts, and a cancelled payout is quiet.              *)
(***************************************************************************)
EXTENDS PayoutsDesk, FiniteSetTheorems, SequenceTheorems, WellFoundedInduction, TLAPS

\* Refunds stay within their attempt, and only a debited attempt has any.
BackWithin(x) ==
    \A i \in DOMAIN x.attempts :
        /\ x.attempts[i].back <= x.attempts[i].amount
        /\ x.attempts[i].state # "debited" => x.attempts[i].back = 0

\* Nothing of a payout is out or under way, nor owed back.
Quiet(x) ==
    /\ NetPaid(x) <= 0 /\ In(x, "initiated") = {}
    /\ Settled(x) <= x.total

Sound(x) ==
    /\ x \in PayoutRecord /\ BackWithin(x)
    /\ Open(x) => (x.status = "paid" <=> Settled(x) >= x.total)
    /\ ~Open(x) => Quiet(x)
    /\ x.status = "none" => x.attempts = <<>>
    /\ x.status = "cancelled" => Settled(x) < x.total

Requested == \A q \in Approvals : approval[q].status # "none" => approval[q].amount >= 1

IInv ==
    /\ payout \in [PayoutIds -> PayoutRecord]
    /\ approval \in [Approvals -> ApprovalRecord]
    /\ \A p \in PayoutIds : Sound(payout[p])
    /\ Requested

-----------------------------------------------------------------------------
(* Figures.                                                                *)

\* A finite set of integers that is not empty has a largest member: the one
\* with the fewest above it.
LEMMA MaxOfFinite ==
    ASSUME NEW S \in SUBSET Int, IsFiniteSet(S), S # {}
    PROVE  Max(S) \in S /\ \A y \in S : Max(S) >= y
<1> DEFINE Above(i) == {j \in S : j > i}
           R == StrictSubsetOrdering(S)
           T == {Above(i) : i \in S}
<1>1. IsWellFoundedOn(R, FiniteSubsetsOf(S))
  BY FS_StrictSubsetOrderingWellFounded
<1>2. T \subseteq FiniteSubsetsOf(S) /\ T # {}
  <2>1. \A i \in S : Above(i) \in SUBSET S
    OBVIOUS
  <2>2. \A i \in S : IsFiniteSet(Above(i))
    BY <2>1, FS_Subset
  <2> QED
    BY <2>1, <2>2 DEF FiniteSubsetsOf
<1>3. PICK X \in T : \A Y \in T : ~ (<<Y, X>> \in R)
  <2> HIDE DEF R, T
  <2> QED
    BY <1>1, <1>2, WFMin
<1>4. PICK i \in S : X = Above(i)
  OBVIOUS
<1>5. ASSUME NEW j \in S, j > i PROVE FALSE
  <2>1. Above(j) \in T /\ Above(j) \subseteq Above(i) /\ Above(j) \in SUBSET S /\ Above(i) \in SUBSET S
    <3>1. \A k \in S : k > j => k > i
      BY <1>5
    <3> QED
      BY <3>1
  <2>2. j \in Above(i) /\ j \notin Above(j)
    BY <1>5
  <2>3. <<Above(j), Above(i)>> \in R
    BY <2>1, <2>2 DEF StrictSubsetOrdering
  <2> QED
    BY <1>3, <1>4, <2>1, <2>3
<1>6. i \in S /\ \A y \in S : i >= y
  BY <1>4, <1>5
<1> HIDE DEF T, R
<1> QED
  BY <1>6 DEF Max

\* Zero is the largest of zero and two integers that are not positive.
LEMMA MaxIsZero ==
    ASSUME NEW a \in Int, NEW b \in Int, a <= 0, b <= 0
    PROVE  Max({0, a, b}) = 0
<1>1. 0 \in {0, a, b} /\ \A y \in {0, a, b} : 0 >= y
  OBVIOUS
<1>2. \A m \in {0, a, b} : (\A y \in {0, a, b} : m >= y) => m = 0
  OBVIOUS
<1> QED
  BY <1>1, <1>2 DEF Max

\* What is kept of some of a payout's attempts is a natural number, and no
\* more of fewer attempts.
LEMMA KeptType ==
    ASSUME NEW x \in PayoutRecord, NEW S \in SUBSET DOMAIN x.attempts
    PROVE  /\ IsFiniteSet(Units(x, S)) /\ Kept(x, S) \in Nat
           /\ \A T \in SUBSET S : Kept(x, T) <= Kept(x, S)
<1>1. x.attempts \in Seq(Attempt)
  BY DEF PayoutRecord
<1>2. Len(x.attempts) \in Nat /\ DOMAIN x.attempts = 1..Len(x.attempts)
  BY <1>1
<1>3. IsFiniteSet(DOMAIN x.attempts)
  BY <1>2, FS_Interval
<1>4. IsFiniteSet(S)
  BY <1>3, FS_Subset
<1>5. IsFiniteSet(Amounts)
  BY FS_Interval, PayoutsAssumption DEF Amounts
<1>6. IsFiniteSet(S \X Amounts)
  BY <1>4, <1>5, FS_Product
<1>7. Units(x, S) \in SUBSET (S \X Amounts)
  BY DEF Units
<1>8. IsFiniteSet(Units(x, S)) /\ Kept(x, S) \in Nat
  BY <1>6, <1>7, FS_Subset, FS_CardinalityType DEF Kept
<1>9. ASSUME NEW T \in SUBSET S PROVE Kept(x, T) <= Kept(x, S)
  <2>1. Units(x, T) \in SUBSET Units(x, S)
    BY DEF Units
  <2> QED
    BY <1>8, <2>1, FS_Subset DEF Kept
<1> QED
  BY <1>8, <1>9

\* The figures of a payout are integers.
LEMMA FiguresType ==
    ASSUME NEW x \in PayoutRecord
    PROVE  /\ NetPaid(x) \in Nat /\ InFlight(x) \in Nat /\ Resolved(x) \in Nat
           /\ Settled(x) \in Int /\ x.used \in Nat /\ x.total \in Nat
<1>1. \A st : In(x, st) \in SUBSET DOMAIN x.attempts
  BY DEF In
<1>2. NetPaid(x) \in Nat /\ InFlight(x) \in Nat
  BY <1>1, KeptType DEF NetPaid, InFlight
<1>3. x.used \in Nat /\ x.total \in Nat
  BY PayoutsAssumption DEF PayoutRecord
<1>4. Resolved(x) \in Nat
  BY PayoutsAssumption DEF PayoutRecord, Resolved, Resolutions
<1> QED
  BY <1>2, <1>3, <1>4 DEF Settled

\* The figures depend only on the attempts, resolutions and credit used.
LEMMA FiguresSame ==
    ASSUME NEW x, NEW y, y.attempts = x.attempts, y.resolved = x.resolved, y.used = x.used
    PROVE  /\ Settled(y) = Settled(x) /\ NetPaid(y) = NetPaid(x)
           /\ In(y, "initiated") = In(x, "initiated")
<1>1. \A st : In(y, st) = In(x, st)
  BY DEF In
<1>2. \A S : Units(y, S) = Units(x, S)
  BY DEF Units
<1>3. NetPaid(y) = NetPaid(x)
  BY <1>1, <1>2 DEF NetPaid, Kept
<1> QED
  BY <1>1, <1>3 DEF Settled, Resolved

\* A payout none of whose money is out has nothing to resolve.
LEMMA NoExposure ==
    ASSUME NEW x \in PayoutRecord, Quiet(x)
    PROVE  Exposure(x) = 0 /\ NetPaid(x) = 0
<1>1. NetPaid(x) = 0 /\ Settled(x) \in Int /\ Resolved(x) \in Nat /\ x.total \in Nat
  BY FiguresType DEF Quiet
<1>2. Disputed(x) \in SUBSET In(x, "debited") /\ In(x, "debited") \in SUBSET DOMAIN x.attempts
  BY DEF Disputed, In
<1>3. Kept(x, Disputed(x)) \in Nat /\ Kept(x, Disputed(x)) <= 0
  <2>1. Disputed(x) \in SUBSET DOMAIN x.attempts
    BY <1>2
  <2> QED
    BY <1>1, <1>2, <2>1, KeptType DEF NetPaid
<1>4. InFlight(x) = 0
  <2>1. Units(x, {}) = {}
    BY DEF Units
  <2> QED
    BY <2>1, FS_EmptySet DEF Quiet, InFlight, Kept
<1>5. Max({0, Kept(x, Disputed(x)) - Resolved(x), Settled(x) + InFlight(x) - x.total}) = 0
  <2> DEFINE a == Kept(x, Disputed(x)) - Resolved(x)
             b == Settled(x) + InFlight(x) - x.total
  <2>1. a \in Int /\ a <= 0
    BY <1>1, <1>3
  <2>2. b \in Int /\ b <= 0
    BY <1>1, <1>4 DEF Quiet
  <2> HIDE DEF a, b
  <2>3. Max({0, a, b}) = 0
    BY <2>1, <2>2, MaxIsZero
  <2> QED
    BY <2>3 DEF a, b
<1> QED
  BY <1>1, <1>5 DEF Exposure

\* With nothing in flight no attempt is initiated.
LEMMA NothingInitiated ==
    ASSUME NEW x \in PayoutRecord, BackWithin(x), InFlight(x) = 0
    PROVE  In(x, "initiated") = {}
<1>1. SUFFICES ASSUME NEW i \in In(x, "initiated") PROVE FALSE
  OBVIOUS
<1>2. i \in DOMAIN x.attempts /\ x.attempts[i] \in Attempt /\ x.attempts[i].back = 0
  <2>1. x.attempts \in Seq(Attempt)
    BY DEF PayoutRecord
  <2>2. i \in DOMAIN x.attempts /\ x.attempts[i].state = "initiated"
    BY DEF In
  <2> QED
    BY <2>1, <2>2 DEF BackWithin
<1>3. x.attempts[i].amount \in Amounts /\ x.attempts[i].amount > 0
  BY <1>2, PayoutsAssumption DEF Attempt, Amounts
<1>4. <<i, x.attempts[i].amount>> \in Units(x, In(x, "initiated"))
  BY <1>1, <1>2, <1>3, PayoutsAssumption DEF Units, Amounts
<1>5. In(x, "initiated") \in SUBSET DOMAIN x.attempts
  BY DEF In
<1>6. IsFiniteSet(Units(x, In(x, "initiated")))
  BY <1>5, KeptType
<1>7. Units(x, In(x, "initiated")) = {}
  BY <1>6, FS_EmptySet DEF InFlight, Kept
<1> QED
  BY <1>4, <1>7

-----------------------------------------------------------------------------
(* Refreshing.                                                             *)

\* A payout with a live attempt has a last one.
LEMMA LastLive ==
    ASSUME NEW x \in PayoutRecord, Live(x) # {}
    PROVE  Max(Live(x)) \in Live(x) /\ Max(Live(x)) \in DOMAIN x.attempts
<1>1. Len(x.attempts) \in Nat /\ DOMAIN x.attempts = 1..Len(x.attempts)
  BY DEF PayoutRecord
<1>2. Live(x) \in SUBSET DOMAIN x.attempts
  BY DEF Live, In
<1>3. IsFiniteSet(Live(x)) /\ Live(x) \in SUBSET Int
  <2>1. IsFiniteSet(DOMAIN x.attempts)
    BY <1>1, FS_Interval
  <2>2. DOMAIN x.attempts \in SUBSET Int
    BY <1>1
  <2> QED
    BY <1>2, <2>1, <2>2, FS_Subset
<1> QED
  BY <1>2, <1>3, MaxOfFinite

\* refresh leaves a row that follows its attempts.
LEMMA RefreshedSound ==
    ASSUME NEW x \in PayoutRecord, BackWithin(x), Open(x)
    PROVE  Sound(Refreshed(x)) /\ Open(Refreshed(x))
<1> DEFINE y == Refreshed(x)
<1>1. /\ y.attempts = x.attempts /\ y.resolved = x.resolved /\ y.used = x.used
      /\ y.total = x.total
      /\ y.status = IF Settled(x) >= x.total THEN "paid" ELSE "pending"
  BY DEF Refreshed, PayoutRecord, Open
<1>2. CurrentAnswer(x) \in Answers
  <2>1. CASE Live(x) = {}
    BY <2>1 DEF CurrentAnswer, Answers
  <2>2. CASE Live(x) # {}
    <3>1. Max(Live(x)) \in DOMAIN x.attempts
      BY <2>2, LastLive
    <3>2. x.attempts[Max(Live(x))] \in Attempt
      BY <3>1 DEF PayoutRecord
    <3> QED
      BY <2>2, <3>2 DEF CurrentAnswer, Attempt
  <2> QED
    BY <2>1, <2>2
<1>3. y \in PayoutRecord
  BY <1>2 DEF Refreshed, PayoutRecord
<1>4. Open(y)
  BY <1>1 DEF Open
<1>5. Settled(y) = Settled(x)
  BY <1>1, FiguresSame
<1>6. BackWithin(y)
  BY <1>1 DEF BackWithin
<1>7. y.status = "paid" <=> Settled(y) >= y.total
  BY <1>1, <1>5
<1> HIDE DEF y
<1>8. Sound(y)
  BY <1>3, <1>4, <1>6, <1>7 DEF Sound, Open
<1> QED
  BY <1>4, <1>8 DEF y

\* What a payout takes from the supplier's credit is an integer.
LEMMA CreditType ==
    ASSUME NEW x \in PayoutRecord
    PROVE  Credit(x) \in Int /\ Max({0, Credit(x)}) \in Nat
<1>1. \A S \in SUBSET PayoutIds : \A n : Sum(S, n) \in Nat
  <2> SUFFICES ASSUME NEW S \in SUBSET PayoutIds, NEW n PROVE Sum(S, n) \in Nat
    OBVIOUS
  <2> DEFINE U == {u \in S \X (1..MaxCredit) : u[2] <= n[u[1]]}
  <2>1. IsFiniteSet(S) /\ IsFiniteSet(1..MaxCredit)
    BY FS_Subset, FS_Interval, PayoutsAssumption
  <2>2. IsFiniteSet(S \X (1..MaxCredit))
    BY <2>1, FS_Product
  <2>3. U \in SUBSET (S \X (1..MaxCredit))
    OBVIOUS
  <2>4. Cardinality(U) \in Nat
    <3> HIDE DEF U
    <3> QED
      BY <2>2, <2>3, FS_Subset, FS_CardinalityType
  <2> QED
    BY <2>4 DEF Sum
<1>2. CreditAvailable \in Int
  <2>1. {p \in PayoutIds : payout[p].status # "cancelled"} \in SUBSET PayoutIds
    OBVIOUS
  <2> QED
    BY <1>1, <2>1 DEF CreditAvailable
<1>3. \A n \in Int : Max({0, n}) \in Nat
  <2> SUFFICES ASSUME NEW n \in Int PROVE Max({0, n}) \in Nat
    OBVIOUS
  <2>1. IsFiniteSet({0, n})
    <3>1. IsFiniteSet({0})
      BY FS_Singleton
    <3>2. IsFiniteSet({0} \cup {n})
      BY <3>1, FS_AddElement
    <3>3. {0} \cup {n} = {0, n}
      OBVIOUS
    <3> QED
      BY <3>2, <3>3
  <2>2. {0, n} \in SUBSET Int
    OBVIOUS
  <2> QED
    BY <2>1, <2>2, MaxOfFinite
<1>4. \A a, b \in Int : Min({a, b}) \in Int
  <2> SUFFICES ASSUME NEW a \in Int, NEW b \in Int PROVE Min({a, b}) \in Int
    OBVIOUS
  <2>1. \E m \in {a, b} : \A y \in {a, b} : m =< y
    <3>1. CASE a <= b
      BY <3>1
    <3>2. CASE ~(a <= b)
      BY <3>2
    <3> QED
      BY <3>1, <3>2
  <2>2. Min({a, b}) \in {a, b}
    BY <2>1 DEF Min
  <2> QED
    BY <2>2
<1>5. Owed(x) \in Int
  BY FiguresType DEF Owed
<1>6. Credit(x) \in Int
  BY <1>2, <1>3, <1>4, <1>5 DEF Credit
<1> QED
  BY <1>3, <1>6

-----------------------------------------------------------------------------
(* The invariant.                                                          *)

\* The steps of one payout's life.
LifeSteps ==
    {<<"none", "pending">>, <<"cancelled", "pending">>, <<"pending", "cancelled">>}
    \cup ({"pending", "paid"} \X {"pending", "paid"})

\* At most p's status changes, by such a step.
StatusMoves(p) ==
    /\ <<payout[p].status, payout'[p].status>> \in LifeSteps
    /\ \A o \in PayoutIds \ {p} : payout'[o].status = payout[o].status

\* One payout becomes y; nothing else of the payouts changes.
LEMMA OneChanges ==
    ASSUME IInv, NEW p \in PayoutIds, NEW y, Sound(y), payout' = [payout EXCEPT ![p] = y],
           approval' \in [Approvals -> ApprovalRecord], Requested',
           <<payout[p].status, y.status>> \in LifeSteps
    PROVE  IInv' /\ StatusMoves(p)
<1>1. y \in PayoutRecord
  BY DEF Sound
<1>2. payout' \in [PayoutIds -> PayoutRecord]
  BY <1>1 DEF IInv
<1>3. \A o \in PayoutIds : payout'[o] = IF o = p THEN y ELSE payout[o]
  BY DEF IInv
<1>4. \A o \in PayoutIds : Sound(payout'[o])
  BY <1>3 DEF IInv
<1>5. StatusMoves(p)
  BY <1>3 DEF StatusMoves
<1> QED
  BY <1>2, <1>4, <1>5 DEF IInv

\* An open payout changes and is refreshed.
LEMMA OneRefreshed ==
    ASSUME IInv, NEW p \in PayoutIds, NEW y \in PayoutRecord, BackWithin(y), Open(y), Update(p, y),
           approval' \in [Approvals -> ApprovalRecord], Requested', y.status = payout[p].status
    PROVE  IInv' /\ StatusMoves(p)
<1>1. Sound(Refreshed(y)) /\ Open(Refreshed(y))
  BY RefreshedSound
<1>2. <<payout[p].status, Refreshed(y).status>> \in LifeSteps
  BY <1>1 DEF Open, LifeSteps
<1> QED
  BY <1>1, <1>2, OneChanges DEF Update

\* Using an approval keeps the requests as they should be.
LEMMA UseKeeps ==
    ASSUME IInv, NEW q \in Approvals, Use(q)
    PROVE  approval' \in [Approvals -> ApprovalRecord] /\ Requested'
<1>1. approval \in [Approvals -> ApprovalRecord] /\ Requested
  BY DEF IInv
<1>2. approval' \in [Approvals -> ApprovalRecord]
  BY <1>1 DEF Use, ApprovalRecord
<1>3. \A r \in Approvals : approval'[r].status = approval[r].status /\ approval'[r].amount = approval[r].amount
  BY <1>1 DEF Use, ApprovalRecord
<1> QED
  BY <1>1, <1>2, <1>3 DEF Requested

LEMMA ApprovalsUnchanged ==
    ASSUME IInv, UNCHANGED approval
    PROVE  approval' \in [Approvals -> ApprovalRecord] /\ Requested'
  BY DEF IInv, Requested

\* Requests and decisions.
LEMMA AskSafe ==
    ASSUME IInv, NEW q \in Approvals, NEW p \in PayoutIds, NEW kind \in Kinds, NEW n \in Amounts,
           NEW ack \in BOOLEAN, NEW a \in Admins, Ask(q, p, kind, n, ack, a)
    PROVE  IInv'
<1> DEFINE r == [status |-> "pending", payout |-> p, kind |-> kind, amount |-> n,
                 acknowledged |-> ack, requester |-> a, decider |-> Nil, used |-> FALSE]
<1>1. n \in Nat /\ n >= 1
  BY PayoutsAssumption DEF Amounts
<1>2. r \in ApprovalRecord /\ r.amount >= 1
  BY <1>1 DEF ApprovalRecord
<1>3. approval' = [approval EXCEPT ![q] = r] /\ payout' = payout
  BY DEF Ask
<1> HIDE DEF r
<1>4. approval' \in [Approvals -> ApprovalRecord]
  BY <1>2, <1>3 DEF IInv
<1>5. \A o \in Approvals : approval'[o] = IF o = q THEN r ELSE approval[o]
  BY <1>3 DEF IInv
<1> QED
  BY <1>2, <1>3, <1>4, <1>5 DEF IInv, Requested

LEMMA DecideSafe ==
    ASSUME IInv, NEW q \in Approvals, NEW a \in Admins, NEW status \in {"approved", "rejected"},
           Decide(q, a, status)
    PROVE  IInv'
<1>1. approval \in [Approvals -> ApprovalRecord]
  BY DEF IInv
<1>2. approval' \in [Approvals -> ApprovalRecord]
  BY <1>1 DEF Decide, ApprovalRecord
<1>3. \A o \in Approvals : approval'[o].amount = approval[o].amount
                           /\ (approval'[o].status # "none" => approval[o].status # "none")
  BY <1>1 DEF Decide, ApprovalRecord
<1>4. payout' = payout
  BY DEF Decide
<1> QED
  BY <1>2, <1>3, <1>4 DEF IInv, Requested

\* A new attempt.
LEMMA CreateAttemptSafe ==
    ASSUME IInv, NEW p \in PayoutIds, NEW n \in Amounts, NEW q \in Approvals \cup {Nil},
           NEW state \in {"initiated", "debited"}, CreateAttempt(p, n, q, state)
    PROVE  IInv' /\ StatusMoves(p)
<1> DEFINE x == payout[p]
           y == Sent(x, n, q, state)
           new == [amount |-> n, state |-> state, back |-> 0, resend |-> Resend(x),
                   answer |-> "none", approval |-> q]
<1>1. x \in PayoutRecord /\ BackWithin(x) /\ Open(x) /\ x.used \in Nat
  BY PayoutsAssumption DEF IInv, Sound, CreateAttempt, PayoutRecord
<1>2. new \in Attempt /\ new.back <= new.amount
  BY PayoutsAssumption DEF Attempt, Amounts, Answers, Resend
<1>3. Append(x.attempts, new) \in Seq(Attempt)
  BY <1>1, <1>2 DEF PayoutRecord
<1>4. x.used + Max({0, Credit(x)}) \in 0..MaxCredit
  <2>1. x.used + Max({0, Credit(x)}) <= MaxCredit
    BY DEF CreateAttempt
  <2>2. Max({0, Credit(x)}) \in Nat
    BY <1>1, CreditType
  <2> HIDE DEF x
  <2> QED
    BY <1>1, <2>1, <2>2, PayoutsAssumption
<1>5. /\ y.attempts = Append(x.attempts, new) /\ y.status = x.status
      /\ y \in PayoutRecord
  <2>1. y = [x EXCEPT !.used = x.used + Max({0, Credit(x)}), !.attempts = Append(x.attempts, new)]
    BY DEF Sent
  <2> HIDE DEF y, new, x
  <2> QED
    BY <1>1, <1>3, <1>4, <2>1 DEF PayoutRecord
<1>6. BackWithin(y)
  <2>1. \A i \in DOMAIN y.attempts :
           y.attempts[i] = new \/ (i \in DOMAIN x.attempts /\ y.attempts[i] = x.attempts[i])
    <3>1. x.attempts \in Seq(Attempt)
      BY <1>1 DEF PayoutRecord
    <3> HIDE DEF x, y, new
    <3> QED
      BY <1>2, <1>5, <3>1
  <2>2. new.back <= new.amount /\ new.back = 0
    BY <1>2
  <2> HIDE DEF x, y, new
  <2> QED
    BY <1>1, <2>1, <2>2 DEF BackWithin
<1>7. Open(y)
  BY <1>1, <1>5 DEF Open
<1>8. approval' \in [Approvals -> ApprovalRecord] /\ Requested'
  <2>1. UNCHANGED approval \/ (q \in Approvals /\ Use(q))
    BY DEF CreateAttempt
  <2> QED
    BY <2>1, ApprovalsUnchanged, UseKeeps
<1>9. Update(p, y)
  BY DEF CreateAttempt
<1>10. y.status = payout[p].status
  BY <1>5
<1> HIDE DEF y, x
<1> QED
  BY <1>5, <1>6, <1>7, <1>8, <1>9, <1>10, OneRefreshed

\* One attempt of a payout changes to b, which its refunds fit.
LEMMA AttemptChanges ==
    ASSUME NEW x \in PayoutRecord, BackWithin(x), NEW i \in DOMAIN x.attempts, NEW b \in Attempt,
           b.back <= b.amount, b.state # "debited" => b.back = 0, NEW y,
           y = [x EXCEPT !.attempts = [x.attempts EXCEPT ![i] = b]]
    PROVE  y \in PayoutRecord /\ BackWithin(y) /\ y.status = x.status
<1>1. x.attempts \in Seq(Attempt)
  BY DEF PayoutRecord
<1>2. [x.attempts EXCEPT ![i] = b] \in Seq(Attempt)
  BY <1>1
<1>3. y.attempts = [x.attempts EXCEPT ![i] = b] /\ y.status = x.status
  BY DEF PayoutRecord
<1>4. y \in PayoutRecord
  BY <1>2 DEF PayoutRecord
<1>5. \A j \in DOMAIN y.attempts :
         j \in DOMAIN x.attempts /\ y.attempts[j] = IF j = i THEN b ELSE x.attempts[j]
  BY <1>1, <1>3
<1>6. BackWithin(y)
  BY <1>5 DEF BackWithin
<1> QED
  BY <1>3, <1>4, <1>6

\* An attempt is confirmed or failed: a payout that is not open has none to.
LEMMA MarkSafe ==
    ASSUME IInv, NEW p \in PayoutIds, NEW i \in DOMAIN payout[p].attempts,
           NEW state \in {"debited", "failed"}, Mark(p, i, state)
    PROVE  IInv' /\ StatusMoves(p)
<1> DEFINE x == payout[p]
           a == x.attempts[i]
           b == [a EXCEPT !.state = state]
           y == [x EXCEPT !.attempts = [x.attempts EXCEPT ![i] = b]]
<1>1. x \in PayoutRecord /\ BackWithin(x) /\ Sound(x)
  BY DEF IInv, Sound
<1>2. i \in In(x, "initiated")
  BY DEF Mark, In
<1>3. Open(x)
  BY <1>1, <1>2 DEF Sound, Quiet
<1>4. a \in Attempt /\ a.back = 0 /\ a.state = "initiated"
  <2>1. x.attempts \in Seq(Attempt)
    BY <1>1 DEF PayoutRecord
  <2>2. a \in Attempt /\ a.state = "initiated"
    BY <1>2, <2>1 DEF In
  <2> QED
    BY <1>1, <2>2 DEF BackWithin
<1>5. b \in Attempt /\ b.back = 0 /\ b.back <= b.amount
  <2> HIDE DEF a
  <2> QED
    BY <1>4, PayoutsAssumption DEF Attempt, Amounts
<1>6. y \in PayoutRecord /\ BackWithin(y) /\ y.status = x.status
  <2> HIDE DEF b
  <2> QED
    BY <1>1, <1>5, AttemptChanges
<1>7. Update(p, y)
  BY DEF Mark
<1>8. approval' \in [Approvals -> ApprovalRecord] /\ Requested'
  BY ApprovalsUnchanged DEF Mark
<1>9. Open(y)
  BY <1>3, <1>6 DEF Open
<1> HIDE DEF y
<1> QED
  BY <1>6, <1>7, <1>8, <1>9, OneRefreshed

\* A refund: there is something to refund only of an open payout.
LEMMA RecordRefundSafe ==
    ASSUME IInv, NEW p \in PayoutIds, NEW i \in DOMAIN payout[p].attempts, NEW n \in Amounts,
           RecordRefund(p, i, n)
    PROVE  IInv' /\ StatusMoves(p)
<1> DEFINE x == payout[p]
           a == x.attempts[i]
           back == a.back + n
           b == [a EXCEPT !.back = back]
           y == [x EXCEPT !.attempts = [x.attempts EXCEPT ![i] = b]]
<1>1. x \in PayoutRecord /\ BackWithin(x) /\ Sound(x)
  BY DEF IInv, Sound
<1>2. n \in Nat /\ n >= 1 /\ n <= NetPaid(x) - Resolved(x)
  <2>1. n <= NetPaid(payout[p]) - Resolved(payout[p])
    BY Zenon DEF RecordRefund
  <2>2. n \in Nat /\ n >= 1
    <3> HIDE DEF x, y
    <3> QED
      BY PayoutsAssumption DEF Amounts
  <2> QED
    BY <2>1, <2>2, Zenon
<1>3. Open(x)
  <2>1. ~(NetPaid(x) <= 0)
    <3> HIDE DEF x
    <3> QED
      BY <1>1, <1>2, FiguresType
  <2> HIDE DEF x
  <2> QED
    BY <1>1, <2>1 DEF Sound, Quiet
<1>4. a \in Attempt /\ a.state = "debited" /\ back <= a.amount
  BY <1>1 DEF RecordRefund, PayoutRecord
<1>5. b \in Attempt /\ b.back <= b.amount /\ b.state = "debited"
  <2> HIDE DEF a
  <2>1. a.back \in Nat
    BY <1>4 DEF Attempt
  <2>2. back \in Nat
    BY <1>2, <2>1
  <2> QED
    BY <1>4, <2>2 DEF Attempt
<1>6. y \in PayoutRecord /\ BackWithin(y) /\ y.status = x.status
  <2> HIDE DEF b
  <2> QED
    BY <1>1, <1>5, AttemptChanges
<1>7. Update(p, y)
  BY DEF RecordRefund
<1>8. approval' \in [Approvals -> ApprovalRecord] /\ Requested'
  BY ApprovalsUnchanged DEF RecordRefund
<1>9. Open(y)
  BY <1>3, <1>6 DEF Open
<1> HIDE DEF y
<1> QED
  BY <1>6, <1>7, <1>8, <1>9, OneRefreshed

\* A resolution: an exposure is that of an open payout.
LEMMA ResolveSafe ==
    ASSUME IInv, NEW p \in PayoutIds, NEW q \in Approvals, Resolve(p, q)
    PROVE  IInv' /\ StatusMoves(p)
<1> DEFINE x == payout[p]
           kind == approval[q].kind
           n == approval[q].amount
           y == [x EXCEPT !.resolved = [x.resolved EXCEPT ![kind] = x.resolved[kind] + n]]
<1>1. x \in PayoutRecord /\ BackWithin(x) /\ Sound(x) /\ Requested
  BY DEF IInv, Sound
<1>2. /\ kind \in Resolutions /\ Usable(q, p, kind, n) /\ n <= Exposure(x)
      /\ x.resolved[kind] + n <= MaxCredit /\ Use(q)
  BY Zenon DEF Resolve
<1>3. Update(p, y)
  BY DEF Resolve
<1>4. n \in Nat /\ n >= 1
  <2>1. approval[q] \in ApprovalRecord
    BY DEF IInv
  <2>2. approval[q].status = "approved"
    BY <1>2 DEF Usable
  <2>3. approval[q].amount \in Nat /\ approval[q].amount >= 1
    BY <1>1, <2>1, <2>2 DEF ApprovalRecord, Requested
  <2> QED
    BY <2>3
<1>5. Open(x)
  <2>1. ASSUME Quiet(x) PROVE FALSE
    <3>1. Exposure(x) = 0
      BY <1>1, <2>1, NoExposure
    <3> QED
      BY <1>2, <1>4, <3>1
  <2> QED
    BY <1>1, <2>1 DEF Sound
<1>6. y \in PayoutRecord /\ y.attempts = x.attempts /\ y.status = x.status
  <2>1. x.resolved \in [Resolutions -> 0..MaxCredit] /\ x.resolved[kind] \in 0..MaxCredit
    BY <1>1, <1>2 DEF PayoutRecord
  <2>2. x.resolved[kind] + n \in 0..MaxCredit
    <3> HIDE DEF x, kind, n
    <3> QED
      BY <1>2, <1>4, <2>1, PayoutsAssumption
  <2>3. [x.resolved EXCEPT ![kind] = x.resolved[kind] + n] \in [Resolutions -> 0..MaxCredit]
    BY <2>1, <2>2
  <2> DEFINE r == [x.resolved EXCEPT ![kind] = x.resolved[kind] + n]
  <2> HIDE DEF x, r
  <2> QED
    BY <1>1, <2>3 DEF PayoutRecord
<1>7. BackWithin(y) /\ Open(y)
  <2> HIDE DEF y
  <2> QED
    BY <1>1, <1>5, <1>6 DEF BackWithin, Open
<1>8. approval' \in [Approvals -> ApprovalRecord] /\ Requested'
  BY <1>2, UseKeeps
<1> HIDE DEF y
<1> QED
  BY <1>3, <1>6, <1>7, <1>8, OneRefreshed

LEMMA SettleWithCreditSafe ==
    ASSUME IInv, NEW p \in PayoutIds, SettleWithCredit(p)
    PROVE  IInv' /\ StatusMoves(p)
<1> DEFINE x == payout[p]
           y == [x EXCEPT !.used = x.used + Credit(x)]
<1>1. x \in PayoutRecord /\ BackWithin(x) /\ x.used \in Nat
  BY PayoutsAssumption DEF IInv, Sound, PayoutRecord
<1>2. /\ Open(x) /\ Credit(x) > 0 /\ x.used + Credit(x) <= MaxCredit /\ Update(p, y)
      /\ UNCHANGED approval
  BY DEF SettleWithCredit
<1>3. x.used + Credit(x) \in 0..MaxCredit
  <2>1. Credit(x) \in Int
    BY <1>1, CreditType
  <2> HIDE DEF x
  <2> QED
    BY <1>1, <1>2, <2>1, PayoutsAssumption
<1>4. y \in PayoutRecord /\ y.attempts = x.attempts /\ y.status = x.status
  <2> HIDE DEF x
  <2> QED
    BY <1>1, <1>3 DEF PayoutRecord
<1> HIDE DEF y
<1>5. BackWithin(y) /\ Open(y)
  BY <1>1, <1>2, <1>4 DEF BackWithin, Open
<1>6. approval' \in [Approvals -> ApprovalRecord] /\ Requested'
  BY <1>2, ApprovalsUnchanged
<1> QED
  BY <1>2, <1>4, <1>5, <1>6, OneRefreshed

\* The supplier answers about the payout itself, or about its last live attempt.
LEMMA ConfirmSafe ==
    ASSUME IInv, NEW p \in PayoutIds, NEW answer \in {"received", "not_received"},
           Confirm(p, answer)
    PROVE  IInv' /\ StatusMoves(p)
<1> DEFINE x == payout[p]
<1>1. x \in PayoutRecord /\ BackWithin(x) /\ Sound(x)
  BY DEF IInv, Sound
<1>2. Open(x)
  BY DEF Confirm
<1>3. approval' \in [Approvals -> ApprovalRecord] /\ Requested'
  BY ApprovalsUnchanged DEF Confirm
<1>4. CASE Live(x) = {}
  <2> DEFINE y == [x EXCEPT !.answer = answer]
  <2>1. payout' = [payout EXCEPT ![p] = y]
    BY <1>4 DEF Confirm
  <2> HIDE DEF x
  <2>2. /\ y \in PayoutRecord /\ y.attempts = x.attempts /\ y.status = x.status
        /\ y.total = x.total /\ y.resolved = x.resolved /\ y.used = x.used
    BY <1>1 DEF PayoutRecord, Answers
  <2> HIDE DEF y
  <2>3. Settled(y) = Settled(x)
    BY <2>2, FiguresSame
  <2>4. Sound(y)
    BY <1>1, <1>2, <2>2, <2>3 DEF Sound, Open, BackWithin
  <2>5. <<x.status, y.status>> \in LifeSteps
    BY <1>2, <2>2 DEF Open, LifeSteps
  <2> QED
    BY <1>3, <2>1, <2>4, <2>5, OneChanges DEF x
<1>5. CASE Live(x) # {}
  <2> DEFINE i == Max(Live(x))
             a == x.attempts[i]
             b == [a EXCEPT !.answer = answer]
             y == [x EXCEPT !.attempts = [x.attempts EXCEPT ![i] = b]]
  <2>1. i \in DOMAIN x.attempts
    BY <1>1, <1>5, LastLive
  <2>2. Update(p, y)
    BY <1>5 DEF Confirm
  <2>3. a \in Attempt /\ a.back <= a.amount /\ (a.state # "debited" => a.back = 0)
    <3> HIDE DEF i
    <3> QED
      BY <1>1, <2>1 DEF PayoutRecord, BackWithin
  <2>4. b \in Attempt /\ b.back <= b.amount /\ (b.state # "debited" => b.back = 0)
    <3> HIDE DEF a
    <3> QED
      BY <2>3 DEF Attempt, Answers
  <2>5. y \in PayoutRecord /\ BackWithin(y) /\ y.status = x.status
    <3> HIDE DEF i, b
    <3> QED
      BY <1>1, <2>1, <2>4, AttemptChanges
  <2> HIDE DEF y
  <2>6. Open(y)
    BY <1>2, <2>5 DEF Open
  <2> QED
    BY <1>3, <2>2, <2>5, <2>6, OneRefreshed
<1> QED
  BY <1>4, <1>5

-----------------------------------------------------------------------------
(* The order's side of it.                                                 *)

\* A payout with no attempts, resolutions or credit has nothing settled.
LEMMA NothingYet ==
    ASSUME NEW x, x.attempts = <<>>, x.resolved = [k \in Resolutions |-> 0], x.used = 0
    PROVE  NetPaid(x) = 0 /\ Settled(x) = 0 /\ In(x, "initiated") = {}
<1>1. \A st : In(x, st) = {}
  BY DEF In
<1>2. Units(x, {}) = {}
  BY DEF Units
<1>3. NetPaid(x) = 0
  BY <1>1, <1>2, FS_EmptySet DEF NetPaid, Kept
<1>4. Resolved(x) = 0
  BY DEF Resolved, Resolutions
<1> QED
  BY <1>1, <1>3, <1>4 DEF Settled

LEMMA DeliverSafe ==
    ASSUME IInv, NEW p \in PayoutIds, NEW n \in Amounts, Deliver(p, n)
    PROVE  IInv' /\ StatusMoves(p)
<1> DEFINE y == NewPayout("pending", n)
<1>1. /\ y.attempts = <<>> /\ y.resolved = [k \in Resolutions |-> 0] /\ y.used = 0
      /\ y.total = n /\ y.status = "pending" /\ y.answer = "none"
      /\ y = [status |-> "pending", total |-> n, attempts |-> <<>>,
              resolved |-> [k \in Resolutions |-> 0], used |-> 0, answer |-> "none"]
  BY DEF NewPayout
<1>2. payout' = [payout EXCEPT ![p] = y]
  BY DEF Deliver
<1>3. approval' \in [Approvals -> ApprovalRecord] /\ Requested'
  BY ApprovalsUnchanged DEF Deliver
<1> HIDE DEF y
<1>4. n \in 0..MaxAmount /\ n \in Nat /\ n >= 1
  BY PayoutsAssumption DEF Amounts
<1>5. y \in PayoutRecord
  BY <1>1, <1>4, PayoutsAssumption DEF PayoutRecord, Answers
<1>6. ~(Settled(y) >= y.total)
  BY <1>1, <1>4, NothingYet
<1>7. Open(y) /\ BackWithin(y)
  BY <1>1 DEF Open, BackWithin
<1>8. Sound(y)
  BY <1>1, <1>5, <1>6, <1>7 DEF Sound
<1>10. <<payout[p].status, y.status>> \in LifeSteps
  BY <1>1 DEF Deliver, LifeSteps
<1> QED
  BY <1>2, <1>3, <1>8, <1>10, OneChanges

\* The row comes back pending, and less than its total is settled.
LEMMA DeliverAgainSafe ==
    ASSUME IInv, NEW p \in PayoutIds, DeliverAgain(p)
    PROVE  IInv' /\ StatusMoves(p)
<1> DEFINE x == payout[p]
           y == [x EXCEPT !.status = "pending", !.answer = "none"]
<1>1. x \in PayoutRecord /\ BackWithin(x) /\ Sound(x) /\ x.status = "cancelled"
  BY DEF IInv, Sound, DeliverAgain
<1>2. payout' = [payout EXCEPT ![p] = y]
  BY DEF DeliverAgain
<1>3. approval' \in [Approvals -> ApprovalRecord] /\ Requested'
  BY ApprovalsUnchanged DEF DeliverAgain
<1> HIDE DEF x
<1>4. /\ y \in PayoutRecord /\ y.attempts = x.attempts /\ y.status = "pending"
      /\ y.total = x.total /\ y.resolved = x.resolved /\ y.used = x.used
  BY <1>1 DEF PayoutRecord, Answers
<1> HIDE DEF y
<1>5. ~(Settled(y) >= y.total)
  <2>1. Settled(y) = Settled(x)
    BY <1>4, FiguresSame
  <2>2. Settled(x) < x.total /\ Settled(x) \in Int /\ x.total \in Nat
    BY <1>1, FiguresType DEF Sound
  <2> QED
    BY <1>4, <2>1, <2>2
<1>6. Open(y) /\ BackWithin(y)
  BY <1>1, <1>4 DEF Open, BackWithin
<1>7. Sound(y)
  BY <1>4, <1>5, <1>6 DEF Sound
<1>10. <<payout[p].status, y.status>> \in LifeSteps
  BY <1>1, <1>4 DEF x, LifeSteps
<1> QED
  BY <1>2, <1>3, <1>7, <1>10, OneChanges

\* A payout is cancelled with nothing of it out, and less than all settled.
LEMMA ReverseSafe ==
    ASSUME IInv, NEW p \in PayoutIds, Reverse(p)
    PROVE  IInv' /\ StatusMoves(p)
<1> DEFINE x == payout[p]
           y == [x EXCEPT !.status = "cancelled"]
<1>1. /\ x \in PayoutRecord /\ BackWithin(x) /\ Sound(x) /\ x.status = "pending"
      /\ InFlight(x) = 0 /\ NetPaid(x) <= 0
  BY DEF IInv, Sound, Reverse
<1>2. payout' = [payout EXCEPT ![p] = y]
  BY DEF Reverse
<1>3. approval' \in [Approvals -> ApprovalRecord] /\ Requested'
  BY ApprovalsUnchanged DEF Reverse
<1> HIDE DEF x
<1>4. /\ y \in PayoutRecord /\ y.attempts = x.attempts /\ y.status = "cancelled"
      /\ y.total = x.total /\ y.resolved = x.resolved /\ y.used = x.used
  BY <1>1 DEF PayoutRecord
<1> HIDE DEF y
<1>5. Settled(x) < x.total /\ Settled(x) \in Int /\ x.total \in Nat
  <2>1. Settled(x) \in Int /\ x.total \in Nat
    BY <1>1, FiguresType
  <2>2. ~(Settled(x) >= x.total)
    BY <1>1 DEF Sound, Open
  <2> QED
    BY <2>1, <2>2
<1>6. /\ Settled(y) = Settled(x) /\ NetPaid(y) = NetPaid(x)
      /\ In(y, "initiated") = In(x, "initiated")
  BY <1>4, FiguresSame
<1>7. In(x, "initiated") = {}
  BY <1>1, NothingInitiated
<1>8. Quiet(y)
  BY <1>1, <1>4, <1>5, <1>6, <1>7 DEF Quiet
<1>9. Sound(y)
  <2>1. ~Open(y) /\ BackWithin(y)
    BY <1>1, <1>4 DEF Open, BackWithin
  <2>2. Settled(y) < y.total
    BY <1>4, <1>5, <1>6
  <2> QED
    BY <1>4, <1>8, <2>1, <2>2 DEF Sound
<1>10. <<payout[p].status, y.status>> \in LifeSteps
  BY <1>1, <1>4 DEF x, LifeSteps
<1> QED
  BY <1>2, <1>3, <1>9, <1>10, OneChanges

-----------------------------------------------------------------------------
(* The invariant holds.                                                    *)

LEMMA IInvInit == Init => IInv
<1> SUFFICES ASSUME Init PROVE IInv
  OBVIOUS
<1> DEFINE y == NewPayout("none", 0)
<1>1. /\ y.attempts = <<>> /\ y.resolved = [k \in Resolutions |-> 0] /\ y.used = 0
      /\ y.total = 0 /\ y.status = "none"
  BY DEF NewPayout
<1>2. y \in PayoutRecord
  BY PayoutsAssumption DEF NewPayout, PayoutRecord, Answers
<1> HIDE DEF y
<1>3. Sound(y)
  <2>1. Quiet(y)
    BY <1>1, NothingYet DEF Quiet
  <2>2. BackWithin(y) /\ ~Open(y)
    BY <1>1 DEF BackWithin, Open
  <2> QED
    BY <1>1, <1>2, <2>1, <2>2 DEF Sound
<1>4. NoRequest \in ApprovalRecord /\ NoRequest.status = "none"
  <2>1. (CHOOSE p \in PayoutIds : TRUE) \in PayoutIds
    BY PayoutsAssumption
  <2> QED
    BY <2>1 DEF NoRequest, ApprovalRecord, Kinds
<1>5. \A p \in PayoutIds : payout[p] = y
  BY DEF Init, y
<1>6. payout \in [PayoutIds -> PayoutRecord]
  BY <1>2 DEF Init, y
<1>7. approval \in [Approvals -> ApprovalRecord] /\ Requested
  BY <1>4 DEF Init, Requested
<1> QED
  BY <1>3, <1>5, <1>6, <1>7 DEF IInv

\* A step keeps the invariant and moves at most one payout's status.
Moved == IInv' /\ (UNCHANGED payout \/ \E p \in PayoutIds : StatusMoves(p))

LEMMA IInvStep == IInv /\ [Next]_vars => Moved
<1> SUFFICES ASSUME IInv, [Next]_vars PROVE Moved
  OBVIOUS
<1>1. CASE UNCHANGED vars
  <2>1. payout' = payout /\ approval' = approval
    BY <1>1 DEF vars
  <2> QED
    BY <2>1 DEF IInv, Requested, Moved
<1>2. ASSUME NEW q \in Approvals, NEW a \in Admins, NEW status \in {"approved", "rejected"},
             Decide(q, a, status)
      PROVE  Moved
  BY <1>2, DecideSafe DEF Decide, Moved
<1>3. ASSUME NEW p \in PayoutIds, NEW n \in Amounts, Deliver(p, n) PROVE Moved
  BY <1>3, DeliverSafe DEF Moved
<1>4. ASSUME NEW p \in PayoutIds, NEW n \in Amounts, NEW q \in Approvals \cup {Nil},
             NEW state \in {"initiated", "debited"}, CreateAttempt(p, n, q, state)
      PROVE  Moved
  BY <1>4, CreateAttemptSafe DEF Moved
<1>5. ASSUME NEW p \in PayoutIds, NEW n \in Amounts, NEW q \in Approvals, NEW a \in Admins,
             NEW ack \in BOOLEAN, RequestApproval(q, p, n, ack, a)
      PROVE  Moved
  <2>1. Ask(q, p, ApprovalKind(payout[p], n), n, ack, a)
    BY <1>5 DEF RequestApproval
  <2>2. ApprovalKind(payout[p], n) \in Kinds
    BY DEF ApprovalKind, Kinds
  <2> QED
    BY <2>1, <2>2, AskSafe DEF Ask, Moved
<1>6. ASSUME NEW p \in PayoutIds, NEW n \in Amounts, NEW q \in Approvals, NEW a \in Admins,
             NEW kind \in Resolutions, RequestResolution(q, p, kind, n, a)
      PROVE  Moved
  <2>1. Ask(q, p, kind, n, FALSE, a)
    BY <1>6 DEF RequestResolution
  <2>2. kind \in Kinds
    BY DEF Kinds
  <2> QED
    BY <2>1, <2>2, AskSafe DEF Ask, Moved
<1>7. ASSUME NEW p \in PayoutIds, NEW i \in DOMAIN payout[p].attempts, NEW n \in Amounts,
             RecordRefund(p, i, n)
      PROVE  Moved
  BY <1>7, RecordRefundSafe DEF Moved
<1>8. ASSUME NEW p \in PayoutIds, NEW i \in DOMAIN payout[p].attempts,
             NEW state \in {"debited", "failed"}, Mark(p, i, state)
      PROVE  Moved
  BY <1>8, MarkSafe DEF Moved
<1>9. ASSUME NEW p \in PayoutIds, NEW q \in Approvals, Resolve(p, q) PROVE Moved
  BY <1>9, ResolveSafe DEF Moved
<1>10. ASSUME NEW p \in PayoutIds, SettleWithCredit(p) \/ DeliverAgain(p) \/ Reverse(p)
       PROVE  Moved
  BY <1>10, SettleWithCreditSafe, DeliverAgainSafe, ReverseSafe DEF Moved
<1>11. ASSUME NEW p \in PayoutIds, NEW answer \in {"received", "not_received"}, Confirm(p, answer)
       PROVE  Moved
  BY <1>11, ConfirmSafe DEF Moved
<1> QED
  BY <1>1, <1>2, <1>3, <1>4, <1>5, <1>6, <1>7, <1>8, <1>9, <1>10, <1>11 DEF Next

LEMMA IInvAlways == Spec => []IInv
<1>1. IInv /\ [Next]_vars => IInv'
  BY IInvStep DEF Moved
<1> QED
  BY IInvInit, <1>1, PTL DEF Spec

-----------------------------------------------------------------------------
(* The theorems.                                                           *)

\* Every payout and every approval is well formed, and no attempt is refunded
\* more than it took (payouts.record_refund).
THEOREM PayoutsTypeCorrect == Spec => []TypeOK
<1>1. IInv => TypeOK
  BY DEF IInv, TypeOK, Sound, BackWithin
<1> QED
  BY <1>1, IInvAlways, PTL

\* The status of an open payout is what its attempts, refunds, resolutions
\* and credit add up to, for every sequence of them (payouts.refresh).
THEOREM PaidIsAlwaysSettled == Spec => []PaidIsSettled
<1>1. IInv => PaidIsSettled
  BY DEF IInv, PaidIsSettled, Sound
<1> QED
  BY <1>1, IInvAlways, PTL

\* No money of a cancelled payout is with the supplier or on its way
\* (recognition.reverse_delivery).
THEOREM CancelledNeverHoldsMoney == Spec => []CancelledHoldsNoMoney
<1>1. IInv => CancelledHoldsNoMoney
  BY DEF IInv, CancelledHoldsNoMoney, Sound, Quiet, Open
<1> QED
  BY <1>1, IInvAlways, PTL

\* Whatever is sent, refunded, resolved or credited, a payout's status moves
\* only as PayoutLife allows: once paid it is never cancelled, and once
\* cancelled it is owed again before it is paid.
THEOREM PayoutsMoveAsPromised == Spec => MovesAsPromised
<1> DEFINE lives == [p \in PayoutIds |-> payout[p].status]
<1>1. Init => Life!Init
  BY DEF Init, Life!Init, NewPayout
<1>2. ASSUME IInv, [Next]_vars PROVE [Life!Next]_lives
  <2>1. CASE UNCHANGED payout
    BY <2>1
  <2>2. ASSUME NEW p \in PayoutIds, StatusMoves(p) PROVE [Life!Next]_lives
    <3> DEFINE from == payout[p].status
               to == payout'[p].status
    <3>1. lives[p] = from
      OBVIOUS
    <3>2. lives' = [lives EXCEPT ![p] = to]
      BY <2>2 DEF StatusMoves
    <3>3. <<from, to>> \in LifeSteps
      BY <2>2 DEF StatusMoves
    <3>4. CASE from = to
      <4>1. lives' = lives
        BY <2>2, <3>4 DEF StatusMoves
      <4> QED
        BY <4>1
    <3>5. CASE from # to
      <4> HIDE DEF lives, from, to
      <4>1. \/ from = "none" /\ to = "pending"
            \/ from = "cancelled" /\ to = "pending"
            \/ from = "pending" /\ to = "cancelled"
            \/ from = "pending" /\ to = "paid"
            \/ from = "paid" /\ to = "pending"
        BY <3>3, <3>5 DEF LifeSteps
      <4>2. Life!Owe(p) \/ Life!Pay(p) \/ Life!Unpay(p) \/ Life!Cancel(p)
        <5>1. lives[p] = from /\ lives' = [lives EXCEPT ![p] = to]
          BY <3>1, <3>2
        <5> QED
          BY <4>1, <5>1 DEF Life!Owe, Life!Pay, Life!Unpay, Life!Cancel, Life!Move, lives
      <4> QED
        BY <4>2, Zenon DEF Life!Next
    <3> QED
      BY <3>4, <3>5
  <2> QED
    BY <1>2, <2>1, <2>2, IInvStep DEF Moved
<1> QED
  BY <1>1, <1>2, IInvAlways, PTL DEF Spec, MovesAsPromised, Life!Spec

-----------------------------------------------------------------------------
(***************************************************************************)
(* What the second admin's approvals allow happens once, and more than a   *)
(* payout is worth goes out only by such an approval.  To the invariant    *)
(* above, which is one of each payout by itself, UInv adds what payouts    *)
(* and approvals know of each other.                                       *)
(***************************************************************************)
\* An approval is used when it is approved, by someone who did not ask for it.
Agreed ==
    \A q \in Approvals :
        /\ approval[q].used => approval[q].status = "approved"
        /\ approval[q].status = "approved" => approval[q].decider # approval[q].requester

Spent(q) == approval[q].used /\ approval[q].kind \notin Resolutions

\* A resend has an approval, and an attempt's approval was spent for it.
Covered ==
    \A p \in PayoutIds : \A i \in DOMAIN payout[p].attempts :
        LET t == payout[p].attempts[i]
        IN  /\ t.resend => t.approval # Nil
            /\ t.approval # Nil =>
                  Spent(t.approval) /\ approval[t.approval].payout = p
                  /\ t.amount <= approval[t.approval].amount

\* No two attempts have the same approval.
SpentOnce ==
    \A p \in PayoutIds : \A i, j \in DOMAIN payout[p].attempts :
        payout[p].attempts[i].approval = payout[p].attempts[j].approval
            /\ payout[p].attempts[i].approval # Nil => i = j

\* What was spent was spent on an attempt.
SpentOn ==
    \A q \in Approvals : Spent(q) =>
        \E i \in DOMAIN payout[approval[q].payout].attempts :
            payout[approval[q].payout].attempts[i].approval = q

AgreedFor(p, k) ==
    {q \in Approvals : approval[q].used /\ approval[q].payout = p /\ approval[q].kind = k}

AskedAmount == [q \in Approvals |-> approval[q].amount]

ResolvedAsAgreed ==
    \A p \in PayoutIds, k \in Resolutions : payout[p].resolved[k] = Sum(AgreedFor(p, k), AskedAmount)

Bounded == \A p \in PayoutIds : Len(payout[p].attempts) <= MaxAttempts

\* Nothing is resolved of a payout that is not there yet.
NoneResolved ==
    \A p \in PayoutIds : payout[p].status = "none" => payout[p].resolved = [k \in Resolutions |-> 0]

UInv ==
    /\ IInv /\ Agreed /\ Covered /\ SpentOnce /\ SpentOn
    /\ ResolvedAsAgreed /\ Bounded /\ NoneResolved

-----------------------------------------------------------------------------
(* Sums.                                                                   *)

SumUnits(S, n) == {u \in S \X (1..MaxCredit) : u[2] <= n[u[1]]}

\* A sum over a finite set is a natural number.
LEMMA SumType ==
    ASSUME NEW S, IsFiniteSet(S), NEW n
    PROVE  IsFiniteSet(SumUnits(S, n)) /\ Sum(S, n) \in Nat /\ Sum(S, n) = Cardinality(SumUnits(S, n))
<1>1. IsFiniteSet(1..MaxCredit)
  BY FS_Interval, PayoutsAssumption
<1>2. IsFiniteSet(S \X (1..MaxCredit))
  BY <1>1, FS_Product
<1>3. SumUnits(S, n) \in SUBSET (S \X (1..MaxCredit))
  BY DEF SumUnits
<1>4. Sum(S, n) = Cardinality(SumUnits(S, n))
  BY DEF Sum, SumUnits
<1> QED
  BY <1>2, <1>3, <1>4, FS_Subset, FS_CardinalityType

\* A sum depends only on the amounts of the members.
LEMMA SumSame ==
    ASSUME NEW S, NEW n, NEW m, \A x \in S : n[x] = m[x]
    PROVE  Sum(S, n) = Sum(S, m)
<1>1. \A u \in S \X (1..MaxCredit) : u[1] \in S
  OBVIOUS
<1>2. SumUnits(S, n) = SumUnits(S, m)
  BY <1>1 DEF SumUnits
<1> QED
  BY <1>2 DEF Sum, SumUnits

\* The sum over nothing.
LEMMA SumNone ==
    ASSUME NEW n
    PROVE  Sum({}, n) = 0
<1>1. SumUnits({}, n) = {}
  BY DEF SumUnits
<1> QED
  BY <1>1, FS_EmptySet DEF Sum, SumUnits

\* The sum over one member is its amount.
LEMMA SumOne ==
    ASSUME NEW x, NEW n, n[x] \in 0..MaxCredit
    PROVE  Sum({x}, n) = n[x]
<1> DEFINE m == n[x]
<1>1. m \in Nat /\ m <= MaxCredit
  BY PayoutsAssumption
<1>2. SumUnits({x}, n) = {x} \X (1..m)
  <2>1. \A u \in {x} \X (1..MaxCredit) : u[1] = x
    OBVIOUS
  <2> HIDE DEF m
  <2>2. 1..m \subseteq 1..MaxCredit
    BY <1>1, PayoutsAssumption
  <2>3. \A u \in {x} \X (1..MaxCredit) : u[2] <= m <=> u \in {x} \X (1..m)
    BY <1>1, PayoutsAssumption
  <2> QED
    BY <2>1, <2>2, <2>3 DEF SumUnits, m
<1> HIDE DEF m
<1>3. IsFiniteSet({x}) /\ Cardinality({x}) = 1
  BY FS_Singleton
<1>4. IsFiniteSet(1..m) /\ Cardinality(1..m) = m
  <2>1. IsFiniteSet(1..m) /\ Cardinality(1..m) = IF 1 > m THEN 0 ELSE m - 1 + 1
    BY <1>1, FS_Interval
  <2> QED
    BY <1>1, <2>1
<1>5. Cardinality({x} \X (1..m)) = 1 * m
  BY <1>3, <1>4, FS_Product
<1>6. Sum({x}, n) = 1 * m
  BY <1>2, <1>5 DEF Sum, SumUnits
<1> QED
  BY <1>1, <1>6 DEF m

\* A new member adds its amount.
LEMMA SumWith ==
    ASSUME NEW S, IsFiniteSet(S), NEW x, x \notin S, NEW n, n[x] \in 0..MaxCredit
    PROVE  Sum(S \cup {x}, n) = Sum(S, n) + n[x]
<1>1. IsFiniteSet({x})
  BY FS_Singleton
<1>2. SumUnits(S \cup {x}, n) = SumUnits(S, n) \cup SumUnits({x}, n)
  BY DEF SumUnits
<1>3. SumUnits(S, n) \cap SumUnits({x}, n) = {}
  <2>1. \A u \in SumUnits(S, n) : u[1] \in S
    BY DEF SumUnits
  <2>2. \A u \in SumUnits({x}, n) : u[1] = x
    BY DEF SumUnits
  <2> QED
    BY <2>1, <2>2
<1>4. IsFiniteSet(SumUnits(S, n)) /\ IsFiniteSet(SumUnits({x}, n))
  BY <1>1, SumType
<1>8. /\ Sum(S, n) \in Nat /\ Sum({x}, n) \in Nat
      /\ Sum(S, n) = Cardinality(SumUnits(S, n)) /\ Sum({x}, n) = Cardinality(SumUnits({x}, n))
  BY <1>1, SumType
<1>5. Cardinality(SumUnits(S, n) \cup SumUnits({x}, n))
        = Cardinality(SumUnits(S, n)) + Cardinality(SumUnits({x}, n)) - Cardinality({})
  <2> DEFINE A == SumUnits(S, n)
             B == SumUnits({x}, n)
  <2> HIDE DEF A, B
  <2>1. IsFiniteSet(A) /\ IsFiniteSet(B) /\ A \cap B = {}
    BY <1>3, <1>4 DEF A, B
  <2>2. Cardinality(A \cup B) = Cardinality(A) + Cardinality(B) - Cardinality(A \cap B)
    BY <2>1, FS_Union
  <2> QED
    BY <2>1, <2>2 DEF A, B
<1>6. Cardinality({}) = 0
  BY FS_EmptySet
<1>7. Sum(S \cup {x}, n) = Cardinality(SumUnits(S, n) \cup SumUnits({x}, n))
  BY <1>2 DEF Sum, SumUnits
<1> QED
  BY <1>5, <1>6, <1>7, <1>8, SumOne
-----------------------------------------------------------------------------
(* What steps leave alone.                                                 *)

\* The attempts of payout o stay, with what was agreed of them.
SameAttempts(o) ==
    /\ DOMAIN payout'[o].attempts = DOMAIN payout[o].attempts
    /\ \A i \in DOMAIN payout[o].attempts :
          /\ payout'[o].attempts[i].approval = payout[o].attempts[i].approval
          /\ payout'[o].attempts[i].resend = payout[o].attempts[i].resend
          /\ payout'[o].attempts[i].amount = payout[o].attempts[i].amount

\* Approval q is used as much as it was, and for the same, once it is.
SameUse(q) ==
    /\ approval'[q].used = approval[q].used
    /\ approval[q].used =>
          /\ approval'[q].payout = approval[q].payout /\ approval'[q].kind = approval[q].kind
          /\ approval'[q].amount = approval[q].amount

\* The same of an approval spent on an attempt, and of one for a resolution.
SameSpent(q) == SameUse(q) \/ (approval[q].kind \in Resolutions /\ approval'[q].kind \in Resolutions)
SameAgreed(q) ==
    SameUse(q) \/ (approval[q].kind \notin Resolutions /\ approval'[q].kind \notin Resolutions)

\* What holds of attempts and their approvals still does.
LEMMA AttemptsKept ==
    ASSUME UInv, IInv', \A o \in PayoutIds : SameAttempts(o), \A q \in Approvals : SameSpent(q)
    PROVE  Covered' /\ SpentOnce' /\ SpentOn' /\ Bounded'
<1>1. \A q \in Approvals : /\ Spent(q)' <=> Spent(q)
                           /\ Spent(q) => approval'[q].payout = approval[q].payout
                                          /\ approval'[q].amount = approval[q].amount
  BY DEF SameSpent, SameUse, Spent
<1>2. \A p \in PayoutIds : payout[p].attempts \in Seq(Attempt) /\ payout'[p].attempts \in Seq(Attempt)
  BY DEF UInv, IInv, PayoutRecord
<1>3. \A p \in PayoutIds : \A i \in DOMAIN payout[p].attempts :
         payout[p].attempts[i].approval \in Approvals \cup {Nil}
  <2> SUFFICES ASSUME NEW p \in PayoutIds, NEW i \in DOMAIN payout[p].attempts
               PROVE  payout[p].attempts[i].approval \in Approvals \cup {Nil}
    OBVIOUS
  <2>1. payout[p].attempts[i] \in Attempt
    BY <1>2
  <2> QED
    BY <2>1 DEF Attempt
<1>4. Covered'
  <2> SUFFICES ASSUME NEW p \in PayoutIds, NEW i \in DOMAIN payout'[p].attempts
               PROVE  /\ payout'[p].attempts[i].resend => payout'[p].attempts[i].approval # Nil
                      /\ payout'[p].attempts[i].approval # Nil =>
                            /\ approval'[payout'[p].attempts[i].approval].used
                            /\ approval'[payout'[p].attempts[i].approval].kind \notin Resolutions
                            /\ approval'[payout'[p].attempts[i].approval].payout = p
                            /\ payout'[p].attempts[i].amount
                                 <= approval'[payout'[p].attempts[i].approval].amount
    BY Zenon DEF Covered, Spent
  <2>1. i \in DOMAIN payout[p].attempts
    BY DEF SameAttempts
  <2> DEFINE t == payout[p].attempts[i]
             u == payout'[p].attempts[i]
  <2>2. u.approval = t.approval /\ u.resend = t.resend /\ u.amount = t.amount
    BY <2>1 DEF SameAttempts
  <2>3. /\ t.resend => t.approval # Nil
        /\ t.approval # Nil => /\ Spent(t.approval) /\ approval[t.approval].payout = p
                               /\ t.amount <= approval[t.approval].amount
    BY <2>1 DEF UInv, Covered
  <2>4. t.approval \in Approvals \cup {Nil}
    BY <1>3, <2>1
  <2> HIDE DEF t, u
  <2>5. u.approval # Nil => /\ approval'[u.approval].used
                            /\ approval'[u.approval].kind \notin Resolutions
                            /\ approval'[u.approval].payout = p
                            /\ u.amount <= approval'[u.approval].amount
    BY <1>1, <2>2, <2>3, <2>4 DEF Spent
  <2>6. u.resend => u.approval # Nil
    BY <2>2, <2>3
  <2> QED
    BY <2>5, <2>6 DEF u
<1>5. SpentOnce'
  BY DEF UInv, SpentOnce, SameAttempts
<1>6. SpentOn'
  <2> SUFFICES ASSUME NEW q \in Approvals, Spent(q)'
               PROVE  \E i \in DOMAIN payout'[approval'[q].payout].attempts :
                         payout'[approval'[q].payout].attempts[i].approval = q
    BY DEF SpentOn
  <2>1. Spent(q) /\ approval'[q].payout = approval[q].payout
    BY <1>1
  <2>2. PICK i \in DOMAIN payout[approval[q].payout].attempts :
           payout[approval[q].payout].attempts[i].approval = q
    BY <2>1 DEF UInv, SpentOn
  <2>3. approval[q].payout \in PayoutIds
    BY DEF UInv, IInv, ApprovalRecord
  <2> QED
    BY <2>1, <2>2, <2>3 DEF SameAttempts
<1>7. Bounded'
  <2> SUFFICES ASSUME NEW p \in PayoutIds PROVE Len(payout'[p].attempts) <= MaxAttempts
    BY DEF Bounded
  <2>1. DOMAIN payout'[p].attempts = DOMAIN payout[p].attempts
    BY DEF SameAttempts
  <2>2. Len(payout'[p].attempts) = Len(payout[p].attempts)
    BY <1>2, <2>1, LenProperties
  <2> QED
    BY <2>2 DEF UInv, Bounded
<1> QED
  BY <1>4, <1>5, <1>6, <1>7

\* What was resolved is still what was agreed.
LEMMA ResolvedKept ==
    ASSUME UInv, IInv', \A o \in PayoutIds : payout'[o].resolved = payout[o].resolved,
           \A q \in Approvals : SameAgreed(q)
    PROVE  ResolvedAsAgreed'
<1> SUFFICES ASSUME NEW p \in PayoutIds, NEW k \in Resolutions
             PROVE  payout'[p].resolved[k] = Sum(AgreedFor(p, k)', AskedAmount')
  <2>1. \A S, n : Sum(S, n)' = Sum(S', n')
    BY DEF Sum
  <2> QED
    BY <2>1 DEF ResolvedAsAgreed, Sum
<1>1. AgreedFor(p, k)' = AgreedFor(p, k)
  BY DEF AgreedFor, SameAgreed, SameUse
<1>2. \A q \in AgreedFor(p, k) : AskedAmount'[q] = AskedAmount[q]
  BY DEF AgreedFor, SameAgreed, SameUse, AskedAmount
<1>3. Sum(AgreedFor(p, k), AskedAmount) = Sum(AgreedFor(p, k), AskedAmount')
  BY <1>2, SumSame
<1>4. payout[p].resolved[k] = Sum(AgreedFor(p, k), AskedAmount)
  BY DEF UInv, ResolvedAsAgreed
<1> QED
  BY <1>1, <1>3, <1>4
\* Payout y has the attempts of x, with what was agreed of them, and what
\* was resolved.
SameEvidence(x, y) ==
    /\ DOMAIN y.attempts = DOMAIN x.attempts /\ y.resolved = x.resolved
    /\ \A i \in DOMAIN x.attempts :
          /\ y.attempts[i].approval = x.attempts[i].approval
          /\ y.attempts[i].resend = x.attempts[i].resend
          /\ y.attempts[i].amount = x.attempts[i].amount

\* A payout changes with none of that and no approval.
LEMMA EvidenceKept ==
    ASSUME UInv, IInv', NEW p \in PayoutIds, NEW y, payout' = [payout EXCEPT ![p] = y],
           approval' = approval, SameEvidence(payout[p], y), y.status # "none"
    PROVE  UInv'
<1>1. payout'[p] = y /\ \A o \in PayoutIds : o # p => payout'[o] = payout[o]
  BY DEF UInv, IInv
<1>2. \A o \in PayoutIds : SameAttempts(o) /\ payout'[o].resolved = payout[o].resolved
  BY <1>1 DEF SameAttempts, SameEvidence
<1>3. \A q \in Approvals : SameSpent(q) /\ SameAgreed(q)
  BY DEF SameSpent, SameAgreed, SameUse
<1>4. Agreed'
  BY DEF UInv, Agreed
<1>5. NoneResolved'
  BY <1>1 DEF UInv, NoneResolved
<1>6. Covered' /\ SpentOnce' /\ SpentOn' /\ Bounded'
  BY <1>2, <1>3, AttemptsKept
<1>7. ResolvedAsAgreed'
  BY <1>2, <1>3, ResolvedKept
<1> QED
  BY <1>4, <1>5, <1>6, <1>7 DEF UInv

\* Refreshing touches neither.
LEMMA RefreshedEvidence ==
    ASSUME NEW y \in PayoutRecord
    PROVE  /\ Refreshed(y).attempts = y.attempts /\ Refreshed(y).resolved = y.resolved
           /\ Refreshed(y).used = y.used /\ Refreshed(y).total = y.total
           /\ Refreshed(y).status # "none"
  BY DEF Refreshed, PayoutRecord

LEMMA UpdateKeeps ==
    ASSUME UInv, IInv', NEW p \in PayoutIds, NEW y \in PayoutRecord, Update(p, y),
           approval' = approval, SameEvidence(payout[p], y)
    PROVE  UInv'
<1>1. SameEvidence(payout[p], Refreshed(y)) /\ Refreshed(y).status # "none"
  BY RefreshedEvidence DEF SameEvidence
<1> QED
  BY <1>1, EvidenceKept DEF Update

\* One attempt becomes b, of the same amount and agreement.
LEMMA AttemptEdited ==
    ASSUME UInv, IInv', NEW p \in PayoutIds, NEW i \in DOMAIN payout[p].attempts,
           NEW b \in Attempt, b.approval = payout[p].attempts[i].approval,
           b.resend = payout[p].attempts[i].resend, b.amount = payout[p].attempts[i].amount,
           NEW y, y = [payout[p] EXCEPT !.attempts = [payout[p].attempts EXCEPT ![i] = b]],
           Update(p, y), approval' = approval
    PROVE  UInv'
<1> DEFINE x == payout[p]
<1>1. x \in PayoutRecord
  BY DEF UInv, IInv
<1>2. x.attempts \in Seq(Attempt)
  BY <1>1 DEF PayoutRecord
<1> HIDE DEF x
<1>3. [x.attempts EXCEPT ![i] = b] \in Seq(Attempt)
  BY <1>2 DEF x
<1>4. y \in PayoutRecord /\ y.attempts = [x.attempts EXCEPT ![i] = b] /\ y.resolved = x.resolved
  BY <1>1, <1>3 DEF PayoutRecord, x
<1>5. SameEvidence(x, y)
  BY <1>4 DEF SameEvidence, x
<1> QED
  BY <1>4, <1>5, UpdateKeeps DEF x

-----------------------------------------------------------------------------
(* The steps.                                                              *)

LEMMA MarkKeeps ==
    ASSUME UInv, IInv', NEW p \in PayoutIds, NEW i \in DOMAIN payout[p].attempts,
           NEW state \in {"debited", "failed"}, Mark(p, i, state)
    PROVE  UInv'
<1> DEFINE a == payout[p].attempts[i]
           b == [a EXCEPT !.state = state]
           y == [payout[p] EXCEPT !.attempts = [payout[p].attempts EXCEPT ![i] = b]]
<1>1. a \in Attempt
  BY DEF UInv, IInv, PayoutRecord
<1>2. b \in Attempt /\ b.approval = a.approval /\ b.resend = a.resend /\ b.amount = a.amount
  <2> HIDE DEF a
  <2> QED
    BY <1>1 DEF Attempt
<1>3. Update(p, y) /\ approval' = approval
  BY DEF Mark
<1> HIDE DEF b
<1> QED
  BY <1>2, <1>3, AttemptEdited

LEMMA RecordRefundKeeps ==
    ASSUME UInv, IInv', NEW p \in PayoutIds, NEW i \in DOMAIN payout[p].attempts,
           NEW n \in Amounts, RecordRefund(p, i, n)
    PROVE  UInv'
<1> DEFINE a == payout[p].attempts[i]
           b == [a EXCEPT !.back = a.back + n]
           y == [payout[p] EXCEPT !.attempts = [payout[p].attempts EXCEPT ![i] = b]]
<1>1. a \in Attempt
  BY DEF UInv, IInv, PayoutRecord
<1>2. b \in Attempt /\ b.approval = a.approval /\ b.resend = a.resend /\ b.amount = a.amount
  <2> HIDE DEF a
  <2>1. n \in Nat /\ a.back \in Nat
    BY <1>1, PayoutsAssumption DEF Attempt, Amounts
  <2> QED
    BY <1>1, <2>1 DEF Attempt
<1>3. Update(p, y) /\ approval' = approval
  BY DEF RecordRefund
<1> HIDE DEF b
<1> QED
  BY <1>2, <1>3, AttemptEdited

LEMMA SettleWithCreditKeeps ==
    ASSUME UInv, IInv', NEW p \in PayoutIds, SettleWithCredit(p)
    PROVE  UInv'
<1> DEFINE x == payout[p]
           y == [x EXCEPT !.used = x.used + Credit(x)]
<1>1. x \in PayoutRecord /\ x.used \in Nat
  BY PayoutsAssumption DEF UInv, IInv, PayoutRecord
<1>2. /\ Credit(x) > 0 /\ x.used + Credit(x) <= MaxCredit
      /\ Update(p, y) /\ approval' = approval
  BY DEF SettleWithCredit
<1>3. Credit(x) \in Int
  BY <1>1, CreditType
<1> HIDE DEF x
<1>4. x.used + Credit(x) \in 0..MaxCredit
  BY <1>1, <1>2, <1>3, PayoutsAssumption
<1>5. y \in PayoutRecord /\ y.attempts = x.attempts /\ y.resolved = x.resolved
  BY <1>1, <1>4 DEF PayoutRecord
<1> HIDE DEF y
<1>6. SameEvidence(x, y)
  BY <1>5 DEF SameEvidence
<1> QED
  BY <1>2, <1>5, <1>6, UpdateKeeps DEF x

LEMMA ConfirmKeeps ==
    ASSUME UInv, IInv', NEW p \in PayoutIds, NEW answer \in {"received", "not_received"},
           Confirm(p, answer)
    PROVE  UInv'
<1> DEFINE x == payout[p]
<1>1. x \in PayoutRecord
  BY DEF UInv, IInv
<1>2. approval' = approval /\ Open(x)
  BY DEF Confirm
<1>3. CASE Live(x) = {}
  <2> DEFINE y == [x EXCEPT !.answer = answer]
  <2>1. payout' = [payout EXCEPT ![p] = y]
    BY <1>3 DEF Confirm
  <2> HIDE DEF x
  <2>2. y.attempts = x.attempts /\ y.resolved = x.resolved /\ y.status = x.status
    BY <1>1 DEF PayoutRecord
  <2> HIDE DEF y
  <2>3. SameEvidence(x, y) /\ y.status # "none"
    BY <1>2, <2>2 DEF SameEvidence, Open
  <2> QED
    BY <1>2, <2>1, <2>3, EvidenceKept DEF x
<1>4. CASE Live(x) # {}
  <2> DEFINE i == Max(Live(x))
             a == x.attempts[i]
             b == [a EXCEPT !.answer = answer]
             y == [x EXCEPT !.attempts = [x.attempts EXCEPT ![i] = b]]
  <2>1. i \in DOMAIN x.attempts
    BY <1>1, <1>4, LastLive
  <2>2. Update(p, y)
    BY <1>4 DEF Confirm
  <2> HIDE DEF i
  <2>3. a \in Attempt
    BY <1>1, <2>1 DEF PayoutRecord
  <2>4. b \in Attempt /\ b.approval = a.approval /\ b.resend = a.resend /\ b.amount = a.amount
    <3> HIDE DEF a
    <3> QED
      BY <2>3 DEF Attempt, Answers
  <2> HIDE DEF b
  <2> QED
    BY <1>2, <2>1, <2>2, <2>4, AttemptEdited
<1> QED
  BY <1>3, <1>4

LEMMA DeliverKeeps ==
    ASSUME UInv, IInv', NEW p \in PayoutIds, NEW n \in Amounts, Deliver(p, n)
    PROVE  UInv'
<1> DEFINE y == NewPayout("pending", n)
<1>1. y.attempts = <<>> /\ y.resolved = [k \in Resolutions |-> 0] /\ y.status = "pending"
  BY DEF NewPayout
<1>2. payout' = [payout EXCEPT ![p] = y] /\ approval' = approval /\ payout[p].status = "none"
  BY DEF Deliver
<1>3. payout[p].attempts = <<>> /\ payout[p].resolved = [k \in Resolutions |-> 0]
  BY <1>2 DEF UInv, IInv, Sound, NoneResolved
<1> HIDE DEF y
<1>4. SameEvidence(payout[p], y)
  BY <1>1, <1>3 DEF SameEvidence
<1> QED
  BY <1>1, <1>2, <1>4, EvidenceKept

LEMMA DeliverAgainKeeps ==
    ASSUME UInv, IInv', NEW p \in PayoutIds, DeliverAgain(p)
    PROVE  UInv'
<1> DEFINE x == payout[p]
           y == [x EXCEPT !.status = "pending", !.answer = "none"]
<1>1. x \in PayoutRecord
  BY DEF UInv, IInv
<1>2. payout' = [payout EXCEPT ![p] = y] /\ approval' = approval
  BY DEF DeliverAgain
<1> HIDE DEF x
<1>3. y.attempts = x.attempts /\ y.resolved = x.resolved /\ y.status = "pending"
  BY <1>1 DEF PayoutRecord
<1> HIDE DEF y
<1>4. SameEvidence(x, y)
  BY <1>3 DEF SameEvidence
<1> QED
  BY <1>2, <1>3, <1>4, EvidenceKept DEF x

LEMMA ReverseKeeps ==
    ASSUME UInv, IInv', NEW p \in PayoutIds, Reverse(p)
    PROVE  UInv'
<1> DEFINE x == payout[p]
           y == [x EXCEPT !.status = "cancelled"]
<1>1. x \in PayoutRecord
  BY DEF UInv, IInv
<1>2. payout' = [payout EXCEPT ![p] = y] /\ approval' = approval
  BY DEF Reverse
<1> HIDE DEF x
<1>3. y.attempts = x.attempts /\ y.resolved = x.resolved /\ y.status = "cancelled"
  BY <1>1 DEF PayoutRecord
<1> HIDE DEF y
<1>4. SameEvidence(x, y)
  BY <1>3 DEF SameEvidence
<1> QED
  BY <1>2, <1>3, <1>4, EvidenceKept DEF x
\* Requests and decisions touch no approval that was used.
LEMMA AskKeeps ==
    ASSUME UInv, IInv', NEW q \in Approvals, NEW p \in PayoutIds, NEW kind, NEW n,
           NEW ack, NEW a, Ask(q, p, kind, n, ack, a)
    PROVE  UInv'
<1>1. payout' = payout /\ approval \in [Approvals -> ApprovalRecord]
  BY DEF Ask, UInv, IInv
<1>2. ~approval[q].used
  <2>1. approval[q].status = "none"
    BY DEF Ask
  <2>2. approval[q].used => approval[q].status = "approved"
    BY DEF UInv, Agreed
  <2> QED
    BY <2>1, <2>2
<1>3. /\ \A r \in Approvals \ {q} : approval'[r] = approval[r]
      /\ approval'[q].used = FALSE /\ approval'[q].status = "pending"
  BY <1>1 DEF Ask
<1>4. \A r \in Approvals : SameUse(r)
  <2>1. approval[q].used = FALSE
    BY <1>1, <1>2 DEF ApprovalRecord
  <2> QED
    BY <1>3, <2>1 DEF SameUse
<1>5. \A o \in PayoutIds : SameAttempts(o) /\ payout'[o].resolved = payout[o].resolved
  BY <1>1 DEF SameAttempts
<1>6. Agreed'
  BY <1>3 DEF UInv, Agreed
<1>7. Covered' /\ SpentOnce' /\ SpentOn' /\ Bounded'
  BY <1>4, <1>5, AttemptsKept DEF SameSpent
<1>8. ResolvedAsAgreed'
  BY <1>4, <1>5, ResolvedKept DEF SameAgreed
<1>9. NoneResolved'
  BY <1>1 DEF UInv, NoneResolved
<1> QED
  BY <1>6, <1>7, <1>8, <1>9 DEF UInv

LEMMA DecideKeeps ==
    ASSUME UInv, IInv', NEW q \in Approvals, NEW a \in Admins, NEW status \in {"approved", "rejected"},
           Decide(q, a, status)
    PROVE  UInv'
<1>1. payout' = payout /\ approval \in [Approvals -> ApprovalRecord]
  BY DEF Decide, UInv, IInv
<1> DEFINE d == [approval[q] EXCEPT !.status = status, !.decider = a]
<1>2. approval' = [approval EXCEPT ![q] = d]
  BY DEF Decide
<1>3. /\ d.used = approval[q].used /\ d.payout = approval[q].payout /\ d.kind = approval[q].kind
      /\ d.amount = approval[q].amount /\ d.requester = approval[q].requester
      /\ d.status = status /\ d.decider = a
  <2>1. approval[q] \in ApprovalRecord
    BY <1>1
  <2> QED
    BY <2>1 DEF ApprovalRecord
<1> HIDE DEF d
<1>4. approval'[q] = d /\ \A r \in Approvals \ {q} : approval'[r] = approval[r]
  BY <1>1, <1>2
<1>5. \A r \in Approvals : SameUse(r)
  BY <1>3, <1>4 DEF SameUse
<1>6. \A o \in PayoutIds : SameAttempts(o) /\ payout'[o].resolved = payout[o].resolved
  BY <1>1 DEF SameAttempts
<1>7. Agreed'
  <2>1. approval[q].status = "pending" /\ (status = "approved" => a # approval[q].requester)
    BY DEF Decide
  <2>2. ~approval[q].used
    BY <2>1 DEF UInv, Agreed
  <2> QED
    BY <1>3, <1>4, <2>1, <2>2 DEF UInv, Agreed
<1>8. Covered' /\ SpentOnce' /\ SpentOn' /\ Bounded'
  BY <1>5, <1>6, AttemptsKept DEF SameSpent
<1>9. ResolvedAsAgreed'
  BY <1>5, <1>6, ResolvedKept DEF SameAgreed
<1>10. NoneResolved'
  BY <1>1 DEF UInv, NoneResolved
<1> QED
  BY <1>7, <1>8, <1>9, <1>10 DEF UInv

\* A resolution uses up an approval, and adds what it was for.
LEMMA ResolveKeeps ==
    ASSUME UInv, IInv', NEW p \in PayoutIds, NEW q \in Approvals, Resolve(p, q)
    PROVE  UInv'
<1> DEFINE x == payout[p]
           k == approval[q].kind
           n == approval[q].amount
           y == [x EXCEPT !.resolved = [x.resolved EXCEPT ![k] = x.resolved[k] + n]]
<1>1. x \in PayoutRecord /\ approval \in [Approvals -> ApprovalRecord]
  BY DEF UInv, IInv
<1>2. /\ k \in Resolutions /\ Usable(q, p, k, n) /\ Use(q)
      /\ x.resolved[k] + n <= MaxCredit
  BY Zenon DEF Resolve
<1>3. Update(p, y)
  BY DEF Resolve
<1>4. n \in Nat /\ x.resolved \in [Resolutions -> 0..MaxCredit]
  BY <1>1 DEF ApprovalRecord, PayoutRecord
<1>5. n \in 0..MaxCredit
  <2>1. x.resolved[k] \in 0..MaxCredit
    BY <1>2, <1>4
  <2> HIDE DEF x, k, n
  <2> QED
    BY <1>2, <1>4, <2>1, PayoutsAssumption
<1>6. y.attempts = x.attempts /\ y.resolved = [x.resolved EXCEPT ![k] = x.resolved[k] + n]
      /\ DOMAIN y = DOMAIN x /\ y.status = x.status
  <2> HIDE DEF x, k, n
  <2> QED
    BY <1>1 DEF PayoutRecord
<1>7. /\ Refreshed(y).attempts = x.attempts /\ Refreshed(y).status # "none"
      /\ Refreshed(y).resolved = [x.resolved EXCEPT ![k] = x.resolved[k] + n]
  <2>1. DOMAIN x = {"status", "total", "attempts", "resolved", "used", "answer"}
    BY <1>1 DEF PayoutRecord
  <2> HIDE DEF x, y, k, n
  <2> QED
    BY <1>6, <2>1 DEF Refreshed
<1> HIDE DEF y
<1>8. payout'[p] = Refreshed(y) /\ \A o \in PayoutIds : o # p => payout'[o] = payout[o]
  BY <1>3 DEF UInv, IInv, Update
<1>9. /\ \A r \in Approvals \ {q} : approval'[r] = approval[r]
      /\ approval'[q].used /\ approval'[q].kind = k /\ approval'[q].payout = p
      /\ approval'[q].amount = n /\ approval'[q].status = "approved"
      /\ approval'[q].decider = approval[q].decider /\ approval'[q].requester = approval[q].requester
  <2>1. approval[q] \in ApprovalRecord /\ approval[q].payout = p /\ approval[q].status = "approved"
    BY <1>1, <1>2 DEF Usable
  <2> QED
    BY <1>1, <1>2, <2>1 DEF Use, ApprovalRecord
<1>10. \A o \in PayoutIds : SameAttempts(o)
  BY <1>7, <1>8 DEF SameAttempts
<1>11. \A r \in Approvals : SameSpent(r)
  <2>1. \A r \in Approvals \ {q} : SameUse(r)
    BY <1>9 DEF SameUse
  <2>2. approval[q].kind \in Resolutions /\ approval'[q].kind \in Resolutions
    BY <1>2, <1>9
  <2> QED
    BY <2>1, <2>2 DEF SameSpent
<1>12. Covered' /\ SpentOnce' /\ SpentOn' /\ Bounded'
  BY <1>10, <1>11, AttemptsKept
<1>13. Agreed'
  <2>1. approval[q].status = "approved" /\ approval[q].decider # approval[q].requester
    BY <1>2 DEF UInv, Agreed, Usable
  <2> QED
    BY <1>9, <2>1 DEF UInv, Agreed
<1>14. NoneResolved'
  BY <1>7, <1>8 DEF UInv, NoneResolved
<1>15. ASSUME NEW o \in PayoutIds, NEW j \in Resolutions
       PROVE  payout'[o].resolved[j] = Sum(AgreedFor(o, j)', AskedAmount')
  <2>1. payout[o].resolved[j] = Sum(AgreedFor(o, j), AskedAmount)
    BY DEF UInv, ResolvedAsAgreed
  <2>2. \A r \in Approvals : AskedAmount'[r] = AskedAmount[r]
    BY <1>9 DEF AskedAmount
  <2>3. AgreedFor(o, j) \in SUBSET Approvals /\ IsFiniteSet(AgreedFor(o, j))
    <3>1. AgreedFor(o, j) \in SUBSET Approvals
      BY DEF AgreedFor
    <3> QED
      BY <3>1, FS_Subset, PayoutsAssumption
  <2>4. Sum(AgreedFor(o, j), AskedAmount) = Sum(AgreedFor(o, j), AskedAmount')
    BY <2>2, <2>3, SumSame
  <2>5. q \notin AgreedFor(o, j)
    BY <1>2 DEF AgreedFor, Usable
  <2>6. CASE o = p /\ j = k
    <3>1. AgreedFor(o, j)' = AgreedFor(o, j) \cup {q}
      BY <1>9, <2>6 DEF AgreedFor
    <3>2. AskedAmount'[q] = n
      BY <1>9 DEF AskedAmount
    <3>3. Sum(AgreedFor(o, j) \cup {q}, AskedAmount') = Sum(AgreedFor(o, j), AskedAmount') + n
      BY <1>5, <2>3, <2>5, <3>2, SumWith
    <3>4. payout'[o].resolved[j] = x.resolved[k] + n
      BY <1>2, <1>4, <1>7, <1>8, <2>6
    <3> QED
      BY <2>1, <2>4, <2>6, <3>1, <3>3, <3>4
  <2>7. CASE ~(o = p /\ j = k)
    <3>1. AgreedFor(o, j)' = AgreedFor(o, j)
      <4>1. \A r \in Approvals \ {q} : approval'[r] = approval[r]
        BY <1>9
      <4>2. ~(approval'[q].payout = o /\ approval'[q].kind = j)
        BY <1>9, <2>7
      <4> QED
        BY <2>5, <4>1, <4>2 DEF AgreedFor
    <3>2. payout'[o].resolved[j] = payout[o].resolved[j]
      BY <1>4, <1>7, <1>8, <2>7
    <3> QED
      BY <2>1, <2>4, <3>1, <3>2
  <2> QED
    BY <2>6, <2>7
<1>16. ResolvedAsAgreed'
  <2>1. \A o, j : AgreedFor(o, j)' = {r \in Approvals : approval'[r].used /\ approval'[r].payout = o
                                                        /\ approval'[r].kind = j}
    BY DEF AgreedFor
  <2> QED
    BY <1>15 DEF ResolvedAsAgreed, Sum
<1> QED
  BY <1>12, <1>13, <1>14, <1>16 DEF UInv
\* The attempts of payout p become at followed by t, and t's approval, if it
\* has one, is spent on it.
LEMMA AttemptAdded ==
    ASSUME UInv, IInv', NEW p \in PayoutIds, NEW t \in Attempt,
           payout'[p].attempts = Append(payout[p].attempts, t),
           Len(payout[p].attempts) < MaxAttempts,
           payout'[p].resolved = payout[p].resolved, payout'[p].status # "none",
           \A o \in PayoutIds : o # p => payout'[o] = payout[o],
           t.resend => t.approval # Nil,
           \A r \in Approvals :
              /\ approval'[r].used <=> approval[r].used \/ r = t.approval
              /\ approval'[r].payout = approval[r].payout /\ approval'[r].kind = approval[r].kind
              /\ approval'[r].amount = approval[r].amount /\ approval'[r].status = approval[r].status
              /\ approval'[r].requester = approval[r].requester
              /\ approval'[r].decider = approval[r].decider,
           t.approval # Nil => Usable(t.approval, p, approval[t.approval].kind, t.amount)
                               /\ approval[t.approval].kind \notin Resolutions
    PROVE  UInv'
<1> DEFINE at == payout[p].attempts
           L == Len(at)
           q == t.approval
<1>1. at \in Seq(Attempt) /\ L \in Nat /\ DOMAIN at = 1..L
  BY DEF UInv, IInv, PayoutRecord
<1>2. /\ DOMAIN payout'[p].attempts = 1..(L+1) /\ Len(payout'[p].attempts) = L + 1
      /\ \A i \in 1..L : payout'[p].attempts[i] = at[i]
      /\ payout'[p].attempts[L+1] = t
  BY <1>1
<1>3. \A o \in PayoutIds : \A i \in DOMAIN payout[o].attempts :
         payout[o].attempts[i].approval \in Approvals \cup {Nil}
  <2> SUFFICES ASSUME NEW o \in PayoutIds, NEW i \in DOMAIN payout[o].attempts
               PROVE  payout[o].attempts[i].approval \in Approvals \cup {Nil}
    OBVIOUS
  <2>1. payout[o].attempts[i] \in Attempt
    BY DEF UInv, IInv, PayoutRecord
  <2> QED
    BY <2>1 DEF Attempt
<1>4. q \in Approvals \cup {Nil} /\ Nil \notin Approvals
  BY PayoutsAssumption DEF Attempt
<1>5. q # Nil => /\ q \in Approvals /\ ~approval[q].used /\ approval[q].kind \notin Resolutions
                 /\ approval[q].payout = p /\ approval[q].status = "approved"
                 /\ t.amount <= approval[q].amount
  BY <1>4 DEF Usable
<1>6. \A o \in PayoutIds : \A i \in DOMAIN payout[o].attempts : q # Nil => payout[o].attempts[i].approval # q
  BY <1>5 DEF UInv, Covered, Spent
<1>7. \A r \in Approvals : Spent(r) => approval'[r].used /\ approval'[r].kind \notin Resolutions
  BY DEF Spent
<1>15. \A h \in 1..L : h \in DOMAIN payout[p].attempts /\ payout'[p].attempts[h] = payout[p].attempts[h]
  BY <1>1, <1>2
<1> HIDE DEF at, L, q
<1>8. Agreed'
  <2> SUFFICES ASSUME NEW r \in Approvals
               PROVE  /\ approval'[r].used => approval'[r].status = "approved"
                      /\ approval'[r].status = "approved" => approval'[r].decider # approval'[r].requester
    BY DEF Agreed
  <2>1. r = q => approval[r].status = "approved"
    BY <1>4, <1>5
  <2> QED
    BY <2>1 DEF UInv, Agreed, q
<1>9. Covered'
  <2> SUFFICES ASSUME NEW o \in PayoutIds, NEW i \in DOMAIN payout'[o].attempts
               PROVE  /\ payout'[o].attempts[i].resend => payout'[o].attempts[i].approval # Nil
                      /\ payout'[o].attempts[i].approval # Nil =>
                            /\ approval'[payout'[o].attempts[i].approval].used
                            /\ approval'[payout'[o].attempts[i].approval].kind \notin Resolutions
                            /\ approval'[payout'[o].attempts[i].approval].payout = o
                            /\ payout'[o].attempts[i].amount
                                 <= approval'[payout'[o].attempts[i].approval].amount
    BY Zenon DEF Covered, Spent
  <2>1. CASE i \in DOMAIN payout[o].attempts /\ payout'[o].attempts[i] = payout[o].attempts[i]
    <3> DEFINE u == payout[o].attempts[i]
    <3>1. /\ u.resend => u.approval # Nil
          /\ u.approval # Nil => /\ Spent(u.approval) /\ approval[u.approval].payout = o
                                 /\ u.amount <= approval[u.approval].amount
      BY <2>1 DEF UInv, Covered
    <3>2. u.approval \in Approvals \cup {Nil}
      BY <1>3, <2>1
    <3> HIDE DEF u
    <3>3. u.approval # Nil => /\ approval'[u.approval].used
                              /\ approval'[u.approval].kind \notin Resolutions
                              /\ approval'[u.approval].payout = o
                              /\ u.amount <= approval'[u.approval].amount
      BY <1>7, <3>1, <3>2
    <3> QED
      BY <2>1, <3>1, <3>3 DEF u
  <2>2. CASE o = p /\ payout'[o].attempts[i] = t
    <3>1. q # Nil => /\ approval'[q].used /\ approval'[q].kind \notin Resolutions
                     /\ approval'[q].payout = p /\ t.amount <= approval'[q].amount
      BY <1>5 DEF q
    <3> QED
      BY <2>2, <3>1 DEF q
  <2>3. o = p => (i \in 1..L /\ payout'[o].attempts[i] = payout[o].attempts[i])
                 \/ payout'[o].attempts[i] = t
    BY <1>1, <1>2 DEF at
  <2> QED
    BY <1>1, <2>1, <2>2, <2>3 DEF at
<1>10. SpentOnce'
  <2> SUFFICES ASSUME NEW o \in PayoutIds, NEW i \in DOMAIN payout'[o].attempts,
                      NEW j \in DOMAIN payout'[o].attempts,
                      payout'[o].attempts[i].approval = payout'[o].attempts[j].approval,
                      payout'[o].attempts[i].approval # Nil
               PROVE  i = j
    BY DEF SpentOnce
  <2>1. CASE o # p
    BY <2>1 DEF UInv, SpentOnce
  <2>2. CASE o = p
    <3>1. i \in 1..(L+1) /\ j \in 1..(L+1)
      BY <1>2, <2>2
    <3>2. \A h \in 1..L : q # Nil => payout'[o].attempts[h].approval # q
      BY <1>6, <1>15, <2>2
    <3>3. payout'[o].attempts[L+1].approval = q
      BY <1>2, <2>2 DEF q
    <3>4. CASE i \in 1..L /\ j \in 1..L
      <4>1. /\ payout[p].attempts[i].approval = payout[p].attempts[j].approval
            /\ payout[p].attempts[i].approval # Nil
            /\ i \in DOMAIN payout[p].attempts /\ j \in DOMAIN payout[p].attempts
        BY <1>15, <2>2, <3>4
      <4> QED
        BY <4>1 DEF UInv, SpentOnce
    <3>5. i \in 1..L \/ i = L + 1
      BY <1>1, <3>1
    <3>6. j \in 1..L \/ j = L + 1
      BY <1>1, <3>1
    <3> QED
      BY <3>2, <3>3, <3>4, <3>5, <3>6
  <2> QED
    BY <2>1, <2>2
<1>11. SpentOn'
  <2> SUFFICES ASSUME NEW r \in Approvals, approval'[r].used, approval'[r].kind \notin Resolutions
               PROVE  \E i \in DOMAIN payout'[approval'[r].payout].attempts :
                         payout'[approval'[r].payout].attempts[i].approval = r
    BY DEF SpentOn, Spent
  <2>1. CASE r = q
    <3>1. approval'[r].payout = p
      BY <1>4, <1>5, <2>1
    <3>2. L + 1 \in DOMAIN payout'[p].attempts /\ payout'[p].attempts[L+1].approval = q
      BY <1>1, <1>2 DEF q
    <3> QED
      BY <2>1, <3>1, <3>2
  <2>2. CASE r # q
    <3>1. Spent(r) /\ approval'[r].payout = approval[r].payout
      BY <2>2 DEF Spent, q
    <3>2. PICK i \in DOMAIN payout[approval[r].payout].attempts :
             payout[approval[r].payout].attempts[i].approval = r
      BY <3>1 DEF UInv, SpentOn
    <3>3. approval[r].payout \in PayoutIds
      BY DEF UInv, IInv, ApprovalRecord
    <3>4. CASE approval[r].payout # p
      BY <3>1, <3>2, <3>3, <3>4
    <3>5. CASE approval[r].payout = p
      <4>1. i \in 1..L
        BY <1>1, <3>2, <3>5 DEF at
      <4>2. i \in DOMAIN payout'[p].attempts /\ payout'[p].attempts[i] = payout[p].attempts[i]
        BY <1>1, <1>2, <4>1 DEF at
      <4> QED
        BY <3>1, <3>2, <3>5, <4>2
    <3> QED
      BY <3>4, <3>5
  <2> QED
    BY <2>1, <2>2
<1>12. ResolvedAsAgreed'
  <2>1. \A o \in PayoutIds : payout'[o].resolved = payout[o].resolved
    OBVIOUS
  <2>2. \A r \in Approvals : SameAgreed(r)
    <3>1. approval \in [Approvals -> ApprovalRecord] /\ approval' \in [Approvals -> ApprovalRecord]
      BY DEF UInv, IInv
    <3>2. \A r \in Approvals : approval[r].used \in BOOLEAN /\ approval'[r].used \in BOOLEAN
      BY <3>1 DEF ApprovalRecord
    <3> QED
      BY <1>4, <1>5, <3>2 DEF SameAgreed, SameUse, q
  <2> QED
    BY <2>1, <2>2, ResolvedKept
<1>13. Bounded'
  <2>1. L + 1 <= MaxAttempts
    BY <1>1, PayoutsAssumption DEF L, at
  <2> QED
    BY <1>2, <2>1 DEF UInv, Bounded
<1>14. NoneResolved'
  BY DEF UInv, NoneResolved
<1> QED
  BY <1>8, <1>9, <1>10, <1>11, <1>12, <1>13, <1>14 DEF UInv

LEMMA CreateAttemptKeeps ==
    ASSUME UInv, IInv', NEW p \in PayoutIds, NEW n \in Amounts, NEW q \in Approvals \cup {Nil},
           NEW state \in {"initiated", "debited"}, CreateAttempt(p, n, q, state)
    PROVE  UInv'
<1> DEFINE x == payout[p]
           t == [amount |-> n, state |-> state, back |-> 0, resend |-> Resend(x),
                 answer |-> "none", approval |-> q]
           kind == ApprovalKind(x, n)
           y == Sent(x, n, q, state)
<1>1. x \in PayoutRecord /\ approval \in [Approvals -> ApprovalRecord]
  BY DEF UInv, IInv
<1>2. t \in Attempt /\ t.approval = q /\ t.amount = n /\ t.resend = Resend(x)
  BY PayoutsAssumption DEF Attempt, Amounts, Answers, Resend
<1>3. /\ Len(x.attempts) < MaxAttempts /\ Update(p, y)
      /\ IF kind = "none" THEN q = Nil /\ UNCHANGED approval
         ELSE q # Nil /\ Usable(q, p, kind, n) /\ Use(q)
  BY DEF CreateAttempt
<1>4. kind \in {"none", "resend", "over_threshold"} /\ (kind = "none" => ~Resend(x))
  BY DEF ApprovalKind
<1>5. /\ Refreshed(y).attempts = Append(x.attempts, t) /\ Refreshed(y).resolved = x.resolved
      /\ Refreshed(y).status # "none"
  <2> DEFINE u == x.used + Max({0, Credit(x)})
  <2>1. y = [x EXCEPT !.used = u, !.attempts = Append(x.attempts, t)]
    BY DEF Sent
  <2>2. x.status # "none"
    BY DEF CreateAttempt, Open
  <2> HIDE DEF x, t, y, u
  <2>3. DOMAIN x = {"status", "total", "attempts", "resolved", "used", "answer"}
    BY <1>1 DEF PayoutRecord
  <2>4. /\ DOMAIN y = {"status", "total", "attempts", "resolved", "used", "answer"}
        /\ y.attempts = Append(x.attempts, t) /\ y.resolved = x.resolved /\ y.status = x.status
    BY <2>1, <2>3
  <2> QED
    BY <2>2, <2>4 DEF Refreshed
<1> HIDE DEF t, y, kind
<1>6. payout'[p] = Refreshed(y) /\ \A o \in PayoutIds : o # p => payout'[o] = payout[o]
  BY <1>3 DEF UInv, IInv, Update
<1>7. \A r \in Approvals :
         /\ approval'[r].used <=> approval[r].used \/ r = q
         /\ approval'[r].payout = approval[r].payout /\ approval'[r].kind = approval[r].kind
         /\ approval'[r].amount = approval[r].amount /\ approval'[r].status = approval[r].status
         /\ approval'[r].requester = approval[r].requester
         /\ approval'[r].decider = approval[r].decider
  <2>1. CASE kind = "none"
    BY <1>3, <2>1, PayoutsAssumption
  <2>2. CASE kind # "none"
    <3>1. Use(q) /\ q \in Approvals
      BY <1>3, <2>2
    <3> HIDE DEF x
    <3> QED
      BY <1>1, <3>1 DEF Use, ApprovalRecord
  <2> QED
    BY <2>1, <2>2
<1>8. q # Nil => Usable(q, p, approval[q].kind, n) /\ approval[q].kind \notin Resolutions
  BY <1>3, <1>4 DEF Usable, Resolutions
<1>9. Resend(x) => q # Nil
  BY <1>3, <1>4
<1> QED
  BY <1>2, <1>3, <1>5, <1>6, <1>7, <1>8, <1>9, AttemptAdded
-----------------------------------------------------------------------------
(* The invariant holds.                                                    *)

LEMMA UInvInit == Init => UInv
<1> SUFFICES ASSUME Init PROVE UInv
  OBVIOUS
<1>1. IInv
  BY IInvInit
<1>2. \A p \in PayoutIds : payout[p].attempts = <<>> /\ payout[p].resolved = [k \in Resolutions |-> 0]
  BY DEF Init, NewPayout
<1>3. \A q \in Approvals : approval[q].used = FALSE /\ approval[q].status = "none"
  BY DEF Init, NoRequest
<1>4. Agreed /\ SpentOn
  BY <1>3 DEF Agreed, SpentOn, Spent
<1>5. Covered /\ SpentOnce
  BY <1>2 DEF Covered, SpentOnce
<1>6. Bounded
  BY <1>2, PayoutsAssumption DEF Bounded
<1>7. NoneResolved
  BY <1>2 DEF NoneResolved
<1>8. ResolvedAsAgreed
  <2> SUFFICES ASSUME NEW p \in PayoutIds, NEW k \in Resolutions
               PROVE  payout[p].resolved[k] = Sum(AgreedFor(p, k), AskedAmount)
    BY DEF ResolvedAsAgreed
  <2>1. AgreedFor(p, k) = {}
    BY <1>3 DEF AgreedFor
  <2>2. payout[p].resolved[k] = 0
    BY <1>2
  <2> QED
    BY <2>1, <2>2, SumNone
<1> QED
  BY <1>1, <1>4, <1>5, <1>6, <1>7, <1>8 DEF UInv

LEMMA UInvStep == UInv /\ [Next]_vars => UInv'
<1> SUFFICES ASSUME UInv, [Next]_vars PROVE UInv'
  OBVIOUS
<1>0. IInv'
  BY IInvStep DEF UInv, Moved
<1>1. CASE UNCHANGED vars
  <2>1. payout' = payout /\ approval' = approval
    BY <1>1 DEF vars
  <2>2. \A o \in PayoutIds : SameAttempts(o) /\ payout'[o].resolved = payout[o].resolved
    BY <2>1 DEF SameAttempts
  <2>3. \A q \in Approvals : SameSpent(q) /\ SameAgreed(q)
    BY <2>1 DEF SameSpent, SameAgreed, SameUse
  <2>4. Covered' /\ SpentOnce' /\ SpentOn' /\ Bounded'
    BY <1>0, <2>2, <2>3, AttemptsKept
  <2>5. ResolvedAsAgreed'
    BY <1>0, <2>2, <2>3, ResolvedKept
  <2>6. Agreed' /\ NoneResolved'
    BY <2>1 DEF UInv, Agreed, NoneResolved
  <2> QED
    BY <1>0, <2>4, <2>5, <2>6 DEF UInv
<1>2. ASSUME NEW q \in Approvals, NEW a \in Admins, NEW status \in {"approved", "rejected"},
             Decide(q, a, status)
      PROVE  UInv'
  BY <1>0, <1>2, DecideKeeps
<1>3. ASSUME NEW p \in PayoutIds, NEW n \in Amounts, Deliver(p, n) PROVE UInv'
  BY <1>0, <1>3, DeliverKeeps
<1>4. ASSUME NEW p \in PayoutIds, NEW n \in Amounts, NEW q \in Approvals \cup {Nil},
             NEW state \in {"initiated", "debited"}, CreateAttempt(p, n, q, state)
      PROVE  UInv'
  BY <1>0, <1>4, CreateAttemptKeeps
<1>5. ASSUME NEW p \in PayoutIds, NEW n \in Amounts, NEW q \in Approvals, NEW a \in Admins,
             NEW ack \in BOOLEAN, RequestApproval(q, p, n, ack, a)
      PROVE  UInv'
  BY <1>0, <1>5, AskKeeps DEF RequestApproval
<1>6. ASSUME NEW p \in PayoutIds, NEW n \in Amounts, NEW q \in Approvals, NEW a \in Admins,
             NEW kind \in Resolutions, RequestResolution(q, p, kind, n, a)
      PROVE  UInv'
  BY <1>0, <1>6, AskKeeps DEF RequestResolution
<1>7. ASSUME NEW p \in PayoutIds, NEW i \in DOMAIN payout[p].attempts, NEW n \in Amounts,
             RecordRefund(p, i, n)
      PROVE  UInv'
  BY <1>0, <1>7, RecordRefundKeeps
<1>8. ASSUME NEW p \in PayoutIds, NEW i \in DOMAIN payout[p].attempts,
             NEW state \in {"debited", "failed"}, Mark(p, i, state)
      PROVE  UInv'
  BY <1>0, <1>8, MarkKeeps
<1>9. ASSUME NEW p \in PayoutIds, NEW q \in Approvals, Resolve(p, q) PROVE UInv'
  BY <1>0, <1>9, ResolveKeeps
<1>10. ASSUME NEW p \in PayoutIds, SettleWithCredit(p) \/ DeliverAgain(p) \/ Reverse(p)
       PROVE  UInv'
  BY <1>0, <1>10, SettleWithCreditKeeps, DeliverAgainKeeps, ReverseKeeps
<1>11. ASSUME NEW p \in PayoutIds, NEW answer \in {"received", "not_received"}, Confirm(p, answer)
       PROVE  UInv'
  BY <1>0, <1>11, ConfirmKeeps
<1> QED
  BY <1>1, <1>2, <1>3, <1>4, <1>5, <1>6, <1>7, <1>8, <1>9, <1>10, <1>11 DEF Next

LEMMA UInvAlways == Spec => []UInv
  BY UInvInit, UInvStep, PTL DEF Spec

\* What the invariant says of approvals is what ApprovalUsedOnce asks.
LEMMA UsedOnceFollows == UInv => ApprovalUsedOnce
<1> SUFFICES ASSUME UInv PROVE ApprovalUsedOnce
  OBVIOUS
<1>1. \A p \in PayoutIds : DOMAIN payout[p].attempts \subseteq 1..MaxAttempts
  <2> SUFFICES ASSUME NEW p \in PayoutIds PROVE DOMAIN payout[p].attempts \subseteq 1..MaxAttempts
    OBVIOUS
  <2>1. payout[p].attempts \in Seq(Attempt) /\ Len(payout[p].attempts) <= MaxAttempts
    BY DEF UInv, IInv, PayoutRecord, Bounded
  <2>2. Len(payout[p].attempts) \in Nat /\ DOMAIN payout[p].attempts = 1..Len(payout[p].attempts)
    BY <2>1
  <2> QED
    BY <2>1, <2>2, PayoutsAssumption
<1>2. ASSUME NEW q \in Approvals
      PROVE  /\ approval[q].used =>
                   approval[q].status = "approved" /\ approval[q].decider # approval[q].requester
             /\ Cardinality(ApprovedAttempts(q))
                   = IF approval[q].used /\ approval[q].kind \notin Resolutions THEN 1 ELSE 0
             /\ \A r \in ApprovedAttempts(q) :
                   approval[q].payout = r[1]
                   /\ payout[r[1]].attempts[r[2]].amount <= approval[q].amount
  <2>1. approval[q].used =>
           approval[q].status = "approved" /\ approval[q].decider # approval[q].requester
    BY DEF UInv, Agreed
  <2>2. ASSUME NEW r \in ApprovedAttempts(q)
        PROVE  /\ r = <<r[1], r[2]>> /\ r[1] \in PayoutIds /\ r[2] \in DOMAIN payout[r[1]].attempts
               /\ payout[r[1]].attempts[r[2]].approval = q /\ Spent(q) /\ approval[q].payout = r[1]
               /\ payout[r[1]].attempts[r[2]].amount <= approval[q].amount
    <3>1. /\ r = <<r[1], r[2]>> /\ r[1] \in PayoutIds /\ r[2] \in DOMAIN payout[r[1]].attempts
          /\ payout[r[1]].attempts[r[2]].approval = q
      BY DEF ApprovedAttempts
    <3>2. q # Nil
      BY PayoutsAssumption
    <3> QED
      BY <3>1, <3>2 DEF UInv, Covered
  <2>3. CASE Spent(q)
    <3> DEFINE p == approval[q].payout
    <3>1. p \in PayoutIds
      BY DEF UInv, IInv, ApprovalRecord
    <3>2. PICK i \in DOMAIN payout[p].attempts : payout[p].attempts[i].approval = q
      BY <2>3 DEF UInv, SpentOn
    <3>3. <<p, i>> \in ApprovedAttempts(q)
      BY <1>1, <3>1, <3>2 DEF ApprovedAttempts
    <3>4. ASSUME NEW r \in ApprovedAttempts(q) PROVE r = <<p, i>>
      <4>1. /\ r = <<r[1], r[2]>> /\ r[1] = p /\ r[2] \in DOMAIN payout[p].attempts
            /\ payout[p].attempts[r[2]].approval = q
        BY <2>2
      <4>2. q # Nil
        BY PayoutsAssumption
      <4>3. r[2] = i
        BY <3>1, <3>2, <4>1, <4>2 DEF UInv, SpentOnce
      <4> QED
        BY <4>1, <4>3
    <3> HIDE DEF p
    <3>5. ApprovedAttempts(q) = {<<p, i>>}
      BY <3>3, <3>4
    <3>6. Cardinality(ApprovedAttempts(q)) = 1
      BY <3>5, FS_Singleton
    <3> QED
      BY <2>1, <2>2, <2>3, <3>6 DEF Spent
  <2>4. CASE ~Spent(q)
    <3>1. ApprovedAttempts(q) = {}
      BY <2>2, <2>4
    <3>2. Cardinality(ApprovedAttempts(q)) = 0
      BY <3>1, FS_EmptySet
    <3> QED
      BY <2>1, <2>2, <2>4, <3>2 DEF Spent
  <2> QED
    BY <2>3, <2>4
<1>3. \A p \in PayoutIds, i \in 1..MaxAttempts :
         i \in DOMAIN payout[p].attempts /\ payout[p].attempts[i].resend =>
            payout[p].attempts[i].approval # Nil
  BY DEF UInv, Covered
<1>4. \A p \in PayoutIds, k \in Resolutions :
         payout[p].resolved[k] =
            Sum({q \in Approvals : approval[q].used /\ approval[q].payout = p /\ approval[q].kind = k},
                [q \in Approvals |-> approval[q].amount])
  BY DEF UInv, ResolvedAsAgreed, AgreedFor, AskedAmount
<1> QED
  BY <1>2, <1>3, <1>4, Zenon DEF ApprovalUsedOnce

-----------------------------------------------------------------------------
(* What goes out.                                                          *)

LEMMA MaxPair ==
    ASSUME NEW a \in Int
    PROVE  Max({0, a}) = IF a > 0 THEN a ELSE 0
<1>1. \E m \in {0, a} : \A y \in {0, a} : m >= y
  <2>1. CASE a > 0
    BY <2>1
  <2>2. CASE ~(a > 0)
    BY <2>2
  <2> QED
    BY <2>1, <2>2
<1>2. Max({0, a}) \in {0, a} /\ \A y \in {0, a} : Max({0, a}) >= y
  BY <1>1 DEF Max
<1> QED
  BY <1>2

LEMMA MinPair ==
    ASSUME NEW a \in Int, NEW b \in Int
    PROVE  Min({a, b}) = IF a <= b THEN a ELSE b
<1>1. \E m \in {a, b} : \A y \in {a, b} : m =< y
  <2>1. CASE a <= b
    BY <2>1
  <2>2. CASE ~(a <= b)
    BY <2>2
  <2> QED
    BY <2>1, <2>2
<1>2. Min({a, b}) \in {a, b} /\ \A y \in {a, b} : Min({a, b}) =< y
  BY <1>1 DEF Min
<1> QED
  BY <1>2

LEMMA CreditAvailableType == CreditAvailable \in Int
<1>1. \A S \in SUBSET PayoutIds : \A n : Sum(S, n) \in Nat
  BY SumType, FS_Subset, PayoutsAssumption
<1>2. {p \in PayoutIds : payout[p].status # "cancelled"} \in SUBSET PayoutIds
  OBVIOUS
<1> QED
  BY <1>1, <1>2 DEF CreditAvailable

LEMMA CreditAndOwed ==
    ASSUME NEW x \in PayoutRecord
    PROVE  Credit(x) \in Int /\ Owed(x) \in Int /\ CreditAvailable \in Int
<1>1. Owed(x) \in Int
  BY FiguresType DEF Owed
<1> QED
  BY <1>1, CreditType, CreditAvailableType

\* What is kept of attempts apart adds up.
LEMMA KeptUnion ==
    ASSUME NEW x \in PayoutRecord, NEW S \in SUBSET DOMAIN x.attempts,
           NEW T \in SUBSET DOMAIN x.attempts, S \cap T = {}
    PROVE  Kept(x, S \cup T) = Kept(x, S) + Kept(x, T)
<1> DEFINE A == Units(x, S)
           B == Units(x, T)
<1>1. Units(x, S \cup T) = A \cup B
  BY DEF Units
<1>2. A \cap B = {}
  <2>1. \A u \in A : u[1] \in S
    BY DEF Units
  <2>2. \A u \in B : u[1] \in T
    BY DEF Units
  <2> QED
    BY <2>1, <2>2
<1>3. IsFiniteSet(A) /\ IsFiniteSet(B)
  BY KeptType
<1>4. Kept(x, S) \in Nat /\ Kept(x, T) \in Nat
  BY KeptType
<1> HIDE DEF A, B
<1>5. Cardinality(A \cup B) = Cardinality(A) + Cardinality(B) - Cardinality(A \cap B)
  BY <1>3, FS_Union
<1>6. Cardinality(A \cap B) = 0
  BY <1>2, FS_EmptySet
<1>7. Kept(x, S \cup T) = Cardinality(A \cup B) /\ Kept(x, S) = Cardinality(A) /\ Kept(x, T) = Cardinality(B)
  BY <1>1 DEF Kept, A, B
<1> QED
  BY <1>4, <1>5, <1>6, <1>7

\* Of an attempt with no refunds all is kept.
LEMMA KeptOne ==
    ASSUME NEW x \in PayoutRecord, NEW i \in DOMAIN x.attempts, x.attempts[i].back = 0
    PROVE  Kept(x, {i}) = x.attempts[i].amount
<1> DEFINE m == x.attempts[i].amount
<1>1. m \in Nat /\ m <= MaxAmount
  <2>1. x.attempts[i] \in Attempt
    BY DEF PayoutRecord
  <2> QED
    BY <2>1, PayoutsAssumption DEF Attempt, Amounts
<1>2. Units(x, {i}) = {i} \X (1..m)
  <2>1. \A u \in {i} \X Amounts : u[1] = i /\ u[2] \in 1..MaxAmount
    BY DEF Amounts
  <2>2. 1..m \subseteq Amounts
    BY <1>1, PayoutsAssumption DEF Amounts
  <2>3. \A u \in {i} \X Amounts : x.attempts[u[1]].back < u[2] /\ u[2] <= x.attempts[u[1]].amount
                                 <=> u \in {i} \X (1..m)
    <3> HIDE DEF m
    <3>1. x.attempts[i].amount = m
      BY DEF m
    <3> QED
      BY <1>1, <2>1, <3>1, PayoutsAssumption
  <2>4. {i} \X (1..m) \subseteq {i} \X Amounts
    BY <2>2
  <2> HIDE DEF m
  <2> QED
    BY <2>3, <2>4 DEF Units
<1> HIDE DEF m
<1>3. IsFiniteSet({i}) /\ Cardinality({i}) = 1
  BY FS_Singleton
<1>4. IsFiniteSet(1..m) /\ Cardinality(1..m) = m
  <2>1. IsFiniteSet(1..m) /\ Cardinality(1..m) = IF 1 > m THEN 0 ELSE m - 1 + 1
    BY <1>1, FS_Interval
  <2> QED
    BY <1>1, <2>1
<1>5. Cardinality({i} \X (1..m)) = m
  <2> DEFINE A == {i}
             B == 1..m
  <2> HIDE DEF A, B
  <2>1. IsFiniteSet(A) /\ IsFiniteSet(B) /\ Cardinality(A) = 1 /\ Cardinality(B) = m
    BY <1>3, <1>4 DEF A, B
  <2>2. Cardinality(A \X B) = Cardinality(A) * Cardinality(B)
    BY <2>1, FS_Product
  <2>3. Cardinality(A \X B) = m
    BY <1>1, <2>1, <2>2
  <2> QED
    BY <2>3 DEF A, B
<1>6. Kept(x, {i}) = m
  BY <1>2, <1>5 DEF Kept
<1> QED
  BY <1>6 DEF m

\* The attempts whose money is out.
Gone(x) == In(x, "debited") \cup In(x, "initiated")

LEMMA OutIs ==
    ASSUME NEW x \in PayoutRecord
    PROVE  /\ Out(x) = Kept(x, Gone(x)) - Resolved(x) + x.used
           /\ Kept(x, Gone(x)) \in Nat /\ Resolved(x) \in Nat /\ x.used \in Nat /\ Out(x) \in Int
<1>1. In(x, "debited") \in SUBSET DOMAIN x.attempts /\ In(x, "initiated") \in SUBSET DOMAIN x.attempts
  BY DEF In
<1>2. In(x, "debited") \cap In(x, "initiated") = {}
  BY DEF In
<1>3. Kept(x, Gone(x)) = NetPaid(x) + InFlight(x)
  BY <1>1, <1>2, KeptUnion DEF Gone, NetPaid, InFlight
<1>4. /\ NetPaid(x) \in Nat /\ InFlight(x) \in Nat /\ Resolved(x) \in Nat /\ x.used \in Nat
  BY FiguresType
<1> QED
  BY <1>3, <1>4 DEF Out, Settled

\* With no attempt out that was not, no less refunded or resolved, and no
\* more credit used, no more is out.
LEMMA OutNoMore ==
    ASSUME NEW x \in PayoutRecord, NEW y \in PayoutRecord, Gone(y) \subseteq Gone(x),
           \A i \in Gone(y) : /\ y.attempts[i].amount = x.attempts[i].amount
                             /\ y.attempts[i].back >= x.attempts[i].back,
           y.used = x.used, \A k \in Resolutions : y.resolved[k] >= x.resolved[k]
    PROVE  Out(y) <= Out(x)
<1>1. Gone(x) \in SUBSET DOMAIN x.attempts /\ Gone(y) \in SUBSET DOMAIN y.attempts
  BY DEF Gone, In
<1>2. Units(y, Gone(y)) \in SUBSET Units(x, Gone(x))
  <2> SUFFICES ASSUME NEW u \in Units(y, Gone(y)) PROVE u \in Units(x, Gone(x))
    OBVIOUS
  <2>1. /\ u \in Gone(y) \X Amounts /\ u[1] \in Gone(y) /\ u[2] \in Amounts
        /\ y.attempts[u[1]].back < u[2] /\ u[2] <= y.attempts[u[1]].amount
    BY DEF Units
  <2>2. x.attempts[u[1]].back \in Nat /\ y.attempts[u[1]].back \in Nat /\ u[2] \in Nat
    <3>1. x.attempts[u[1]] \in Attempt /\ y.attempts[u[1]] \in Attempt
      BY <1>1, <2>1 DEF PayoutRecord
    <3> QED
      BY <2>1, <3>1, PayoutsAssumption DEF Attempt, Amounts
  <2>3. x.attempts[u[1]].back < u[2] /\ u[2] <= x.attempts[u[1]].amount
    BY <2>1, <2>2
  <2>4. u \in Gone(x) \X Amounts
    BY <2>1
  <2> QED
    BY <2>3, <2>4 DEF Units
<1>3. Kept(y, Gone(y)) <= Kept(x, Gone(x))
  <2>1. IsFiniteSet(Units(x, Gone(x)))
    BY <1>1, KeptType
  <2> QED
    BY <1>2, <2>1, FS_Subset DEF Kept
<1>4. Resolved(y) >= Resolved(x)
  BY PayoutsAssumption DEF Resolved, Resolutions, PayoutRecord
<1> QED
  BY <1>3, <1>4, OutIs

-----------------------------------------------------------------------------
(* The steps and what is out.                                              *)

\* Only payout p's Out may have grown.
OnlyOut(p) == \A o \in PayoutIds : o # p => payout'[o] = payout[o]

LEMMA NoMoreOut ==
    ASSUME UInv, UInv', NEW p \in PayoutIds, OnlyOut(p), Out(payout'[p]) <= Out(payout[p])
    PROVE  \A o \in PayoutIds : OverIsAcknowledged(o)
<1>1. \A o \in PayoutIds : payout[o] \in PayoutRecord /\ payout'[o] \in PayoutRecord
  BY DEF UInv, IInv
<1>2. \A o \in PayoutIds : Out(payout[o]) \in Int /\ Out(payout'[o]) \in Int
  BY <1>1, OutIs
<1>3. \A o \in PayoutIds : ~(Out(payout'[o]) > Out(payout[o]))
  <2> SUFFICES ASSUME NEW o \in PayoutIds PROVE ~(Out(payout'[o]) > Out(payout[o]))
    OBVIOUS
  <2>1. CASE o = p
    BY <1>2, <2>1
  <2>2. CASE o # p
    <3>1. payout'[o] = payout[o]
      BY <2>2 DEF OnlyOut
    <3>2. Out(payout'[o]) = Out(payout[o])
      BY <3>1
    <3> QED
      BY <1>2, <3>2
  <2> QED
    BY <2>1, <2>2
<1> QED
  BY <1>3 DEF OverIsAcknowledged

LEMMA OthersAcknowledged ==
    ASSUME UInv, UInv', NEW p \in PayoutIds, OnlyOut(p)
    PROVE  \A o \in PayoutIds : o # p => OverIsAcknowledged(o)
<1> SUFFICES ASSUME NEW o \in PayoutIds, o # p PROVE OverIsAcknowledged(o)
  OBVIOUS
<1>1. payout'[o] = payout[o] /\ payout[o] \in PayoutRecord
  BY DEF UInv, IInv, OnlyOut
<1>2. Out(payout'[o]) = Out(payout[o]) /\ Out(payout[o]) \in Int
  BY <1>1, OutIs
<1>3. ~(Out(payout'[o]) > Out(payout[o]))
  BY <1>2
<1> QED
  BY <1>3 DEF OverIsAcknowledged

\* The same money: nothing but the row changed.
LEMMA SameMoney ==
    ASSUME UInv, UInv', NEW p \in PayoutIds, OnlyOut(p),
           payout'[p].attempts = payout[p].attempts, payout'[p].used = payout[p].used,
           payout'[p].resolved = payout[p].resolved
    PROVE  \A o \in PayoutIds : OverIsAcknowledged(o)
<1> DEFINE x == payout[p]
           y == payout'[p]
<1>1. x \in PayoutRecord /\ y \in PayoutRecord
  BY DEF UInv, IInv
<1>2. y.attempts = x.attempts /\ y.used = x.used /\ y.resolved = x.resolved
  OBVIOUS
<1> HIDE DEF x, y
<1>3. Gone(y) = Gone(x) /\ Gone(x) \in SUBSET DOMAIN x.attempts
  BY <1>2 DEF Gone, In
<1>4. \A i \in Gone(y) : x.attempts[i].back \in Nat
  <2> SUFFICES ASSUME NEW i \in Gone(y) PROVE x.attempts[i].back \in Nat
    OBVIOUS
  <2>1. x.attempts[i] \in Attempt
    BY <1>1, <1>3 DEF PayoutRecord
  <2> QED
    BY <2>1 DEF Attempt
<1>5. \A i \in Gone(y) : y.attempts[i].amount = x.attempts[i].amount
                        /\ y.attempts[i].back >= x.attempts[i].back
  BY <1>2, <1>4
<1>6. \A k \in Resolutions : y.resolved[k] >= x.resolved[k]
  BY <1>1, <1>2, PayoutsAssumption DEF PayoutRecord
<1>7. Out(y) <= Out(x)
  BY <1>1, <1>2, <1>3, <1>5, <1>6, OutNoMore
<1> QED
  BY <1>7, NoMoreOut DEF x, y

\* One attempt is confirmed, failed, refunded or answered about.
LEMMA AttemptNoMore ==
    ASSUME UInv, UInv', NEW p \in PayoutIds, NEW i \in DOMAIN payout[p].attempts,
           NEW b \in Attempt, b.amount = payout[p].attempts[i].amount,
           b.back >= payout[p].attempts[i].back,
           payout[p].attempts[i].state = "failed" => b.state = "failed",
           NEW y, y = [payout[p] EXCEPT !.attempts = [payout[p].attempts EXCEPT ![i] = b]],
           Update(p, y)
    PROVE  \A o \in PayoutIds : OverIsAcknowledged(o)
<1> DEFINE x == payout[p]
           z == payout'[p]
<1>1. x \in PayoutRecord /\ z \in PayoutRecord
  BY DEF UInv, IInv
<1>2. OnlyOut(p) /\ z = Refreshed(y)
  BY DEF Update, UInv, IInv, OnlyOut
<1>3. x.attempts \in Seq(Attempt) /\ x.resolved \in [Resolutions -> 0..MaxCredit]
  BY <1>1 DEF PayoutRecord
<1> HIDE DEF x
<1>4. [x.attempts EXCEPT ![i] = b] \in Seq(Attempt)
  BY <1>3 DEF x
<1>5. /\ y \in PayoutRecord /\ y.attempts = [x.attempts EXCEPT ![i] = b]
      /\ y.resolved = x.resolved /\ y.used = x.used
  BY <1>1, <1>4 DEF PayoutRecord, x
<1>6. z.attempts = [x.attempts EXCEPT ![i] = b] /\ z.resolved = x.resolved /\ z.used = x.used
  BY <1>2, <1>5, RefreshedEvidence
<1> HIDE DEF z
<1>7. /\ DOMAIN z.attempts = DOMAIN x.attempts /\ z.attempts[i] = b
      /\ \A j \in DOMAIN x.attempts : j # i => z.attempts[j] = x.attempts[j]
  BY <1>6 DEF x
<1>8. Gone(z) \subseteq Gone(x)
  <2> SUFFICES ASSUME NEW j \in Gone(z) PROVE j \in Gone(x)
    OBVIOUS
  <2>1. j \in DOMAIN x.attempts /\ z.attempts[j].state \in {"debited", "initiated"}
    BY <1>7 DEF Gone, In
  <2>2. x.attempts[j] \in Attempt /\ x.attempts[j].state # "failed"
    <3>1. x.attempts[j] \in Attempt
      BY <1>3, <2>1
    <3> QED
      BY <1>7, <2>1, <3>1 DEF x
  <2>3. x.attempts[j].state \in {"debited", "initiated"}
    BY <2>2 DEF Attempt
  <2> QED
    BY <2>1, <2>3 DEF Gone, In
<1>9. \A j \in Gone(z) : z.attempts[j].amount = x.attempts[j].amount
                        /\ z.attempts[j].back >= x.attempts[j].back
  <2> SUFFICES ASSUME NEW j \in Gone(z)
               PROVE  z.attempts[j].amount = x.attempts[j].amount
                      /\ z.attempts[j].back >= x.attempts[j].back
    OBVIOUS
  <2>1. j \in DOMAIN x.attempts
    BY <1>7 DEF Gone, In
  <2>2. x.attempts[j].back \in Nat
    <3>1. x.attempts[j] \in Attempt
      BY <1>3, <2>1
    <3> QED
      BY <3>1 DEF Attempt
  <2> QED
    BY <1>7, <2>1, <2>2 DEF x
<1>10. \A k \in Resolutions : z.resolved[k] >= x.resolved[k]
  BY <1>3, <1>6, PayoutsAssumption
<1>11. Out(z) <= Out(x)
  BY <1>1, <1>6, <1>8, <1>9, <1>10, OutNoMore DEF z
<1> QED
  BY <1>2, <1>11, NoMoreOut DEF x, z

LEMMA MarkNoMore ==
    ASSUME UInv, UInv', NEW p \in PayoutIds, NEW i \in DOMAIN payout[p].attempts,
           NEW state \in {"debited", "failed"}, Mark(p, i, state)
    PROVE  \A o \in PayoutIds : OverIsAcknowledged(o)
<1> DEFINE a == payout[p].attempts[i]
           b == [a EXCEPT !.state = state]
           y == [payout[p] EXCEPT !.attempts = [payout[p].attempts EXCEPT ![i] = b]]
<1>1. a \in Attempt /\ a.state = "initiated"
  BY DEF UInv, IInv, PayoutRecord, Mark
<1>2. b \in Attempt /\ b.amount = a.amount /\ b.back >= a.back
  <2> HIDE DEF a
  <2> QED
    BY <1>1 DEF Attempt
<1>3. Update(p, y)
  BY DEF Mark
<1> HIDE DEF b
<1> QED
  BY <1>1, <1>2, <1>3, AttemptNoMore

LEMMA RecordRefundNoMore ==
    ASSUME UInv, UInv', NEW p \in PayoutIds, NEW i \in DOMAIN payout[p].attempts,
           NEW n \in Amounts, RecordRefund(p, i, n)
    PROVE  \A o \in PayoutIds : OverIsAcknowledged(o)
<1> DEFINE a == payout[p].attempts[i]
           b == [a EXCEPT !.back = a.back + n]
           y == [payout[p] EXCEPT !.attempts = [payout[p].attempts EXCEPT ![i] = b]]
<1>1. a \in Attempt /\ a.state = "debited"
  BY DEF UInv, IInv, PayoutRecord, RecordRefund
<1>2. b \in Attempt /\ b.amount = a.amount /\ b.back >= a.back
  <2> HIDE DEF a
  <2>1. n \in Nat /\ a.back \in Nat
    BY <1>1, PayoutsAssumption DEF Attempt, Amounts
  <2> QED
    BY <1>1, <2>1 DEF Attempt
<1>3. Update(p, y)
  BY DEF RecordRefund
<1> HIDE DEF b
<1> QED
  BY <1>1, <1>2, <1>3, AttemptNoMore

LEMMA ConfirmNoMore ==
    ASSUME UInv, UInv', NEW p \in PayoutIds, NEW answer \in {"received", "not_received"},
           Confirm(p, answer)
    PROVE  \A o \in PayoutIds : OverIsAcknowledged(o)
<1> DEFINE x == payout[p]
<1>1. x \in PayoutRecord
  BY DEF UInv, IInv
<1>2. CASE Live(x) = {}
  <2> DEFINE y == [x EXCEPT !.answer = answer]
  <2>1. payout' = [payout EXCEPT ![p] = y]
    BY <1>2 DEF Confirm
  <2>2. payout'[p] = y /\ OnlyOut(p)
    BY <2>1 DEF UInv, IInv, OnlyOut
  <2> HIDE DEF x
  <2>3. y.attempts = x.attempts /\ y.resolved = x.resolved /\ y.used = x.used
    BY <1>1 DEF PayoutRecord
  <2> HIDE DEF y
  <2> QED
    BY <2>2, <2>3, SameMoney DEF x
<1>3. CASE Live(x) # {}
  <2> DEFINE i == Max(Live(x))
             a == x.attempts[i]
             b == [a EXCEPT !.answer = answer]
             y == [x EXCEPT !.attempts = [x.attempts EXCEPT ![i] = b]]
  <2>1. i \in DOMAIN x.attempts
    BY <1>1, <1>3, LastLive
  <2>2. Update(p, y)
    BY <1>3 DEF Confirm
  <2> HIDE DEF i
  <2>3. a \in Attempt
    BY <1>1, <2>1 DEF PayoutRecord
  <2>4. b \in Attempt /\ b.state = a.state /\ b.back >= a.back /\ b.amount = a.amount
    <3> HIDE DEF a
    <3> QED
      BY <2>3 DEF Attempt, Answers
  <2> HIDE DEF b
  <2> QED
    BY <2>1, <2>2, <2>4, AttemptNoMore
<1> QED
  BY <1>2, <1>3

LEMMA DeliverAgainNoMore ==
    ASSUME UInv, UInv', NEW p \in PayoutIds, DeliverAgain(p)
    PROVE  \A o \in PayoutIds : OverIsAcknowledged(o)
<1> DEFINE x == payout[p]
           y == [x EXCEPT !.status = "pending", !.answer = "none"]
<1>1. x \in PayoutRecord /\ payout'[p] = y /\ OnlyOut(p)
  BY DEF UInv, IInv, DeliverAgain, OnlyOut
<1> HIDE DEF x
<1>2. y.attempts = x.attempts /\ y.resolved = x.resolved /\ y.used = x.used
  BY <1>1 DEF PayoutRecord
<1> HIDE DEF y
<1> QED
  BY <1>1, <1>2, SameMoney DEF x

LEMMA ReverseNoMore ==
    ASSUME UInv, UInv', NEW p \in PayoutIds, Reverse(p)
    PROVE  \A o \in PayoutIds : OverIsAcknowledged(o)
<1> DEFINE x == payout[p]
           y == [x EXCEPT !.status = "cancelled"]
<1>1. x \in PayoutRecord /\ payout'[p] = y /\ OnlyOut(p)
  BY DEF UInv, IInv, Reverse, OnlyOut
<1> HIDE DEF x
<1>2. y.attempts = x.attempts /\ y.resolved = x.resolved /\ y.used = x.used
  BY <1>1 DEF PayoutRecord
<1> HIDE DEF y
<1> QED
  BY <1>1, <1>2, SameMoney DEF x

\* A new payout has nothing out.
LEMMA DeliverNoMore ==
    ASSUME UInv, UInv', NEW p \in PayoutIds, NEW n \in Amounts, Deliver(p, n)
    PROVE  \A o \in PayoutIds : OverIsAcknowledged(o)
<1> DEFINE y == payout'[p]
<1>1. y = NewPayout("pending", n) /\ OnlyOut(p)
  BY DEF UInv, IInv, Deliver, OnlyOut
<1>2. y.attempts = <<>> /\ y.resolved = [k \in Resolutions |-> 0] /\ y.used = 0
  BY <1>1 DEF NewPayout
<1>3. payout[p].attempts = <<>> /\ payout[p].resolved = [k \in Resolutions |-> 0]
  BY DEF Deliver, UInv, IInv, Sound, NoneResolved
<1>4. payout[p] \in PayoutRecord /\ payout[p].used \in Nat
  BY PayoutsAssumption DEF UInv, IInv, PayoutRecord
<1> HIDE DEF y
<1>5. Settled(y) = 0 /\ In(y, "initiated") = {}
  BY <1>2, NothingYet
<1>6. Out(y) = 0
  <2>1. Units(y, {}) = {}
    BY DEF Units
  <2>2. InFlight(y) = 0
    BY <1>5, <2>1, FS_EmptySet DEF InFlight, Kept
  <2> QED
    BY <1>5, <2>2 DEF Out
<1>7. Out(payout[p]) >= 0
  <2>1. Gone(payout[p]) = {} /\ Units(payout[p], {}) = {}
    BY <1>3 DEF Gone, In, Units
  <2>2. Kept(payout[p], Gone(payout[p])) = 0
    BY <2>1, FS_EmptySet DEF Kept
  <2>3. Resolved(payout[p]) = 0
    BY <1>3 DEF Resolved, Resolutions
  <2> QED
    BY <1>4, <2>2, <2>3, OutIs
<1>8. Out(payout'[p]) <= Out(payout[p])
  BY <1>4, <1>6, <1>7, OutIs DEF y
<1> QED
  BY <1>1, <1>8, NoMoreOut
\* A resolution takes from what counts as settled.
LEMMA ResolveNoMore ==
    ASSUME UInv, UInv', NEW p \in PayoutIds, NEW q \in Approvals, Resolve(p, q)
    PROVE  \A o \in PayoutIds : OverIsAcknowledged(o)
<1> DEFINE x == payout[p]
           k == approval[q].kind
           n == approval[q].amount
           r == [x.resolved EXCEPT ![k] = x.resolved[k] + n]
           y == [x EXCEPT !.resolved = r]
           z == payout'[p]
<1>1. x \in PayoutRecord /\ z \in PayoutRecord
  BY DEF UInv, IInv
<1>2. n \in Nat /\ k \in Resolutions
  BY DEF UInv, IInv, ApprovalRecord, Resolve
<1>3. Update(p, y)
  BY DEF Resolve
<1>4. z = Refreshed(y) /\ OnlyOut(p)
  BY <1>3 DEF UInv, IInv, Update, OnlyOut
<1>5. \A j \in Resolutions : r[j] >= x.resolved[j]
  <2>1. x.resolved \in [Resolutions -> 0..MaxCredit]
    BY <1>1 DEF PayoutRecord
  <2> HIDE DEF x, k, n
  <2> QED
    BY <1>2, <2>1, PayoutsAssumption
<1> HIDE DEF x, r
<1>6. z.attempts = x.attempts /\ z.used = x.used /\ z.resolved = r
  <2>1. DOMAIN x = {"status", "total", "attempts", "resolved", "used", "answer"}
    BY <1>1 DEF PayoutRecord
  <2>2. /\ DOMAIN y = {"status", "total", "attempts", "resolved", "used", "answer"}
        /\ y.attempts = x.attempts /\ y.resolved = r /\ y.used = x.used
    BY <2>1
  <2> HIDE DEF y
  <2> QED
    BY <1>4, <2>2 DEF Refreshed
<1> HIDE DEF z, y
<1>7. Gone(z) = Gone(x) /\ Gone(x) \in SUBSET DOMAIN x.attempts
  BY <1>6 DEF Gone, In
<1>8. \A i \in Gone(z) : z.attempts[i].amount = x.attempts[i].amount
                        /\ z.attempts[i].back >= x.attempts[i].back
  <2> SUFFICES ASSUME NEW i \in Gone(z)
               PROVE  z.attempts[i].amount = x.attempts[i].amount
                      /\ z.attempts[i].back >= x.attempts[i].back
    OBVIOUS
  <2>1. x.attempts[i] \in Attempt
    BY <1>1, <1>7 DEF PayoutRecord
  <2>2. x.attempts[i].back \in Nat
    BY <2>1 DEF Attempt
  <2> QED
    BY <1>6, <2>2
<1>9. Out(z) <= Out(x)
  BY <1>1, <1>5, <1>6, <1>7, <1>8, OutNoMore
<1> QED
  BY <1>4, <1>9, NoMoreOut DEF x, z

\* Credit covers no more than is owed.
LEMMA SettleWithCreditNoMore ==
    ASSUME UInv, UInv', NEW p \in PayoutIds, SettleWithCredit(p)
    PROVE  \A o \in PayoutIds : OverIsAcknowledged(o)
<1> DEFINE x == payout[p]
           y == [x EXCEPT !.used = x.used + Credit(x)]
           z == payout'[p]
<1>1. x \in PayoutRecord /\ z \in PayoutRecord /\ x.used \in Nat
  BY PayoutsAssumption DEF UInv, IInv, PayoutRecord
<1>2. Credit(x) > 0 /\ Update(p, y)
  BY DEF SettleWithCredit
<1>3. z = Refreshed(y) /\ OnlyOut(p)
  BY <1>2 DEF UInv, IInv, Update, OnlyOut
<1>4. Credit(x) \in Int /\ Owed(x) \in Int /\ CreditAvailable \in Int
  BY <1>1, CreditAndOwed
<1>5. Credit(x) <= Owed(x)
  <2> DEFINE o == Owed(x)
             m == Max({0, o})
  <2>1. o \in Int
    BY <1>4
  <2> HIDE DEF o
  <2>2. m = IF o > 0 THEN o ELSE 0
    BY <2>1, MaxPair
  <2> HIDE DEF m
  <2>3. m \in Int
    BY <2>1, <2>2
  <2>4. Min({CreditAvailable, m}) = IF CreditAvailable <= m THEN CreditAvailable ELSE m
    BY <1>4, <2>3, MinPair
  <2>5. Credit(x) = 0 \/ Credit(x) = Min({CreditAvailable, m})
    BY DEF Credit, m, o
  <2>6. Credit(x) <= o
    BY <1>2, <1>4, <2>1, <2>2, <2>3, <2>4, <2>5
  <2> QED
    BY <2>6 DEF o
<1> HIDE DEF x
<1>6. /\ z.attempts = x.attempts /\ z.resolved = x.resolved /\ z.used = x.used + Credit(x)
      /\ z.total = x.total
  <2> DEFINE u == x.used + Credit(x)
  <2>1. DOMAIN x = {"status", "total", "attempts", "resolved", "used", "answer"}
    BY <1>1 DEF PayoutRecord
  <2>2. y = [x EXCEPT !.used = u]
    OBVIOUS
  <2> HIDE DEF u, y
  <2>3. /\ DOMAIN y = {"status", "total", "attempts", "resolved", "used", "answer"}
        /\ y.attempts = x.attempts /\ y.resolved = x.resolved /\ y.used = u /\ y.total = x.total
    BY <2>1, <2>2
  <2>4. /\ z.attempts = x.attempts /\ z.resolved = x.resolved /\ z.used = u /\ z.total = x.total
    BY <1>3, <2>3 DEF Refreshed
  <2> QED
    BY <2>4 DEF u
<1> HIDE DEF z, y
<1>7. Gone(z) = Gone(x) /\ Resolved(z) = Resolved(x) /\ \A S : Units(z, S) = Units(x, S)
  BY <1>6 DEF Gone, In, Resolved, Units
<1>8. Out(z) <= z.total
  <2>1. Out(z) = Kept(x, Gone(x)) - Resolved(x) + x.used + Credit(x)
    <3>1. Kept(z, Gone(z)) = Kept(x, Gone(x))
      BY <1>7 DEF Kept
    <3> QED
      BY <1>1, <1>4, <1>6, <1>7, <3>1, OutIs
  <2>2. Out(x) = Kept(x, Gone(x)) - Resolved(x) + x.used
    BY <1>1, OutIs
  <2>3. /\ Out(x) \in Int /\ x.total \in Nat /\ Kept(x, Gone(x)) \in Nat /\ Resolved(x) \in Nat
        /\ Settled(x) \in Int /\ InFlight(x) \in Nat
    BY <1>1, OutIs, FiguresType
  <2>4. Owed(x) = x.total - Out(x)
    BY <2>3 DEF Owed, Out
  <2> QED
    BY <1>1, <1>4, <1>5, <1>6, <2>1, <2>2, <2>3, <2>4
<1>9. ~(Out(z) > z.total)
  <2>1. Out(z) \in Int /\ z.total \in Nat
    BY <1>1, OutIs, FiguresType
  <2> QED
    BY <1>8, <2>1
<1>10. OverIsAcknowledged(p)
  BY <1>9 DEF OverIsAcknowledged, z
<1>11. \A o \in PayoutIds : o # p => OverIsAcknowledged(o)
  BY <1>3, OthersAcknowledged
<1> QED
  BY <1>10, <1>11
\* A new attempt of n adds n to what is kept.
LEMMA SentOut ==
    ASSUME NEW x \in PayoutRecord, NEW z \in PayoutRecord, NEW t \in Attempt,
           z.attempts = Append(x.attempts, t), z.resolved = x.resolved,
           t.back = 0, t.state # "failed"
    PROVE  /\ Kept(z, Gone(z)) = Kept(x, Gone(x)) + t.amount
           /\ Resolved(z) = Resolved(x)
<1> DEFINE L == Len(x.attempts)
<1>1. x.attempts \in Seq(Attempt) /\ L \in Nat /\ DOMAIN x.attempts = 1..L
  BY DEF PayoutRecord
<1>2. /\ DOMAIN z.attempts = 1..(L+1) /\ z.attempts[L+1] = t
      /\ \A i \in 1..L : z.attempts[i] = x.attempts[i]
  BY <1>1
<1>3. t.state \in {"debited", "initiated"}
  BY DEF Attempt
<1> HIDE DEF L
<1>4. Gone(z) = Gone(x) \cup {L+1}
  <2>1. \A i \in DOMAIN z.attempts : i \in DOMAIN x.attempts \/ i = L + 1
    BY <1>1, <1>2
  <2>2. DOMAIN x.attempts \subseteq DOMAIN z.attempts /\ L + 1 \in DOMAIN z.attempts
    BY <1>1, <1>2
  <2> QED
    BY <1>1, <1>2, <1>3, <2>1, <2>2 DEF Gone, In
<1>5. Gone(x) \in SUBSET (1..L) /\ L + 1 \notin 1..L
  BY <1>1 DEF Gone, In
<1>6. Kept(z, Gone(z)) = Kept(z, Gone(x)) + Kept(z, {L+1})
  <2>1. Gone(x) \in SUBSET DOMAIN z.attempts /\ {L+1} \in SUBSET DOMAIN z.attempts
    BY <1>1, <1>2, <1>5
  <2>2. Gone(x) \cap {L+1} = {}
    BY <1>5
  <2> QED
    BY <1>4, <2>1, <2>2, KeptUnion
<1>7. Kept(z, {L+1}) = t.amount
  <2>1. L + 1 \in DOMAIN z.attempts /\ z.attempts[L+1].back = 0
    BY <1>1, <1>2
  <2> QED
    BY <1>2, <2>1, KeptOne
<1>8. Kept(z, Gone(x)) = Kept(x, Gone(x))
  <2>1. \A i \in Gone(x) : z.attempts[i] = x.attempts[i]
    BY <1>2, <1>5
  <2>2. Units(z, Gone(x)) = Units(x, Gone(x))
    BY <2>1 DEF Units
  <2> QED
    BY <2>2 DEF Kept
<1> QED
  BY <1>6, <1>7, <1>8 DEF Resolved

\* The only step that takes a payout over its worth is an attempt whose
\* approval acknowledged it.
LEMMA CreateAttemptAcknowledged ==
    ASSUME UInv, UInv', NEW p \in PayoutIds, NEW n \in Amounts, NEW q \in Approvals \cup {Nil},
           NEW state \in {"initiated", "debited"}, CreateAttempt(p, n, q, state)
    PROVE  \A o \in PayoutIds : OverIsAcknowledged(o)
<1> DEFINE x == payout[p]
           t == [amount |-> n, state |-> state, back |-> 0, resend |-> Resend(x),
                 answer |-> "none", approval |-> q]
           c == Max({0, Credit(x)})
           y == [x EXCEPT !.used = x.used + c, !.attempts = Append(x.attempts, t)]
           z == payout'[p]
           kind == ApprovalKind(x, n)
<1>1. x \in PayoutRecord /\ z \in PayoutRecord /\ approval \in [Approvals -> ApprovalRecord]
  BY DEF UInv, IInv
<1>2. /\ t \in Attempt /\ t.approval = q /\ t.amount = n /\ t.back = 0 /\ t.state # "failed"
      /\ n \in Nat
  BY PayoutsAssumption DEF Attempt, Amounts, Answers, Resend
<1>3. Update(p, y) /\ n <= Limit(x)
  BY DEF CreateAttempt, Sent
<1>4. IF kind = "none" THEN q = Nil /\ UNCHANGED approval
      ELSE /\ q # Nil /\ Usable(q, p, kind, n)
           /\ Unresolved(x) # {} => approval[q].acknowledged
           /\ Use(q)
  BY DEF CreateAttempt
<1>5. z = Refreshed(y) /\ OnlyOut(p)
  BY <1>3 DEF UInv, IInv, Update, OnlyOut
<1>6. Credit(x) \in Int /\ Owed(x) \in Int /\ CreditAvailable \in Int
  BY <1>1, CreditAndOwed
<1>7. c = IF Credit(x) > 0 THEN Credit(x) ELSE 0
  <2> DEFINE d == Credit(x)
  <2>1. d \in Int
    BY <1>6
  <2> HIDE DEF d
  <2>2. Max({0, d}) = IF d > 0 THEN d ELSE 0
    BY <2>1, MaxPair
  <2> QED
    BY <2>2 DEF d
<1>8. Unresolved(x) # {} => kind = "resend"
  <2>1. Unresolved(x) # {} => Resend(x)
    BY DEF Unresolved, Live, In, Resend
  <2> QED
    BY <2>1 DEF ApprovalKind
<1>9. Unresolved(x) = {} /\ CreditAvailable >= 0 => n + c <= Owed(x)
  <2> SUFFICES ASSUME Unresolved(x) = {}, CreditAvailable >= 0 PROVE n + c <= Owed(x)
    OBVIOUS
  <2> DEFINE o == Owed(x)
             m == Max({0, o})
  <2>1. o \in Int
    BY <1>6
  <2>2. Credit(x) = Min({CreditAvailable, m}) /\ Limit(x) = o - Credit(x)
    BY DEF Credit, Limit
  <2> HIDE DEF o
  <2>3. m = IF o > 0 THEN o ELSE 0
    BY <2>1, MaxPair
  <2> HIDE DEF m
  <2>4. m \in Int /\ m >= 0
    BY <2>1, <2>3
  <2>5. Min({CreditAvailable, m}) = IF CreditAvailable <= m THEN CreditAvailable ELSE m
    BY <1>6, <2>4, MinPair
  <2>6. Credit(x) >= 0
    BY <1>6, <2>2, <2>4, <2>5
  <2> HIDE DEF x, c
  <2>7. n + c <= o
    BY <1>2, <1>3, <1>6, <1>7, <2>1, <2>2, <2>6
  <2> QED
    BY <2>7 DEF o
<1> HIDE DEF x, t, c, kind
<1>10. /\ z.attempts = Append(x.attempts, t) /\ z.resolved = x.resolved /\ z.used = x.used + c
       /\ z.total = x.total
  <2> DEFINE u == x.used + c
             at == Append(x.attempts, t)
  <2>1. DOMAIN x = {"status", "total", "attempts", "resolved", "used", "answer"}
    BY <1>1 DEF PayoutRecord
  <2>2. y = [x EXCEPT !.used = u, !.attempts = at]
    OBVIOUS
  <2> HIDE DEF u, at, y
  <2>3. /\ DOMAIN y = {"status", "total", "attempts", "resolved", "used", "answer"}
        /\ y.attempts = at /\ y.resolved = x.resolved /\ y.used = u /\ y.total = x.total
    BY <2>1, <2>2
  <2>4. /\ z.attempts = at /\ z.resolved = x.resolved /\ z.used = u /\ z.total = x.total
    BY <1>5, <2>3 DEF Refreshed
  <2> QED
    BY <2>4 DEF u, at
<1> HIDE DEF z, y
<1>11. c \in Nat
  BY <1>6, <1>7
<1>12. Out(z) = Out(x) + n + c
  <2>1. Kept(z, Gone(z)) = Kept(x, Gone(x)) + n /\ Resolved(z) = Resolved(x)
    BY <1>1, <1>2, <1>10, SentOut
  <2> QED
    BY <1>1, <1>2, <1>10, <1>11, <2>1, OutIs
<1>13. Unresolved(x) = {} /\ CreditAvailable >= 0 => ~(Out(z) > z.total)
  <2>1. /\ Out(x) \in Int /\ x.total \in Nat /\ Settled(x) \in Int /\ InFlight(x) \in Nat
    BY <1>1, OutIs, FiguresType
  <2>2. Owed(x) = x.total - Out(x)
    BY <2>1 DEF Owed, Out
  <2> QED
    BY <1>2, <1>9, <1>10, <1>11, <1>12, <2>1, <2>2
<1>14. Len(z.attempts) = Len(x.attempts) + 1 /\ z.attempts[Len(z.attempts)] = t
  <2>1. x.attempts \in Seq(Attempt)
    BY <1>1 DEF PayoutRecord
  <2> QED
    BY <1>2, <1>10, <2>1
<1>15. OverIsAcknowledged(p)
  <2> SUFFICES ASSUME Out(z) > z.total, CreditAvailable >= 0
               PROVE  /\ Len(z.attempts) = Len(x.attempts) + 1
                      /\ \E r \in Approvals :
                            /\ z.attempts[Len(z.attempts)].approval = r
                            /\ ~approval[r].used /\ approval'[r].used /\ approval[r].acknowledged
    BY DEF OverIsAcknowledged, x, z
  <2>1. Unresolved(x) # {}
    BY <1>13
  <2>2. /\ q \in Approvals /\ Usable(q, p, kind, n) /\ approval[q].acknowledged /\ Use(q)
    BY <1>4, <1>8, <2>1
  <2>3. ~approval[q].used /\ approval'[q].used
    BY <1>1, <2>2 DEF Usable, Use, ApprovalRecord
  <2> QED
    BY <1>2, <1>14, <2>2, <2>3
<1>16. \A o \in PayoutIds : o # p => OverIsAcknowledged(o)
  BY <1>5, OthersAcknowledged
<1> QED
  BY <1>15, <1>16

\* Steps that leave every payout alone.
LEMMA PayoutsAlone ==
    ASSUME UInv, payout' = payout
    PROVE  \A o \in PayoutIds : OverIsAcknowledged(o)
<1> SUFFICES ASSUME NEW o \in PayoutIds PROVE OverIsAcknowledged(o)
  OBVIOUS
<1>1. Out(payout'[o]) = Out(payout[o]) /\ Out(payout[o]) \in Int
  BY OutIs DEF UInv, IInv
<1>2. ~(Out(payout'[o]) > Out(payout[o]))
  BY <1>1
<1> QED
  BY <1>2 DEF OverIsAcknowledged

LEMMA StepAcknowledged == UInv /\ UInv' /\ Next => \A o \in PayoutIds : OverIsAcknowledged(o)
<1> SUFFICES ASSUME UInv, UInv', Next PROVE \A o \in PayoutIds : OverIsAcknowledged(o)
  OBVIOUS
<1> DEFINE Fine == \A o \in PayoutIds : OverIsAcknowledged(o)
<1> HIDE DEF Fine
<1>2. ASSUME NEW q \in Approvals, NEW a \in Admins, NEW status \in {"approved", "rejected"},
             Decide(q, a, status)
      PROVE  Fine
  BY <1>2, PayoutsAlone DEF Decide, Fine
<1>3. ASSUME NEW p \in PayoutIds, NEW n \in Amounts, Deliver(p, n) PROVE Fine
  BY <1>3, DeliverNoMore DEF Fine
<1>4. ASSUME NEW p \in PayoutIds, NEW n \in Amounts, NEW q \in Approvals \cup {Nil},
             NEW state \in {"initiated", "debited"}, CreateAttempt(p, n, q, state)
      PROVE  Fine
  BY <1>4, CreateAttemptAcknowledged DEF Fine
<1>5. ASSUME NEW p \in PayoutIds, NEW n \in Amounts, NEW q \in Approvals, NEW a \in Admins,
             NEW ack \in BOOLEAN, RequestApproval(q, p, n, ack, a)
      PROVE  Fine
  BY <1>5, PayoutsAlone DEF RequestApproval, Ask, Fine
<1>6. ASSUME NEW p \in PayoutIds, NEW n \in Amounts, NEW q \in Approvals, NEW a \in Admins,
             NEW kind \in Resolutions, RequestResolution(q, p, kind, n, a)
      PROVE  Fine
  BY <1>6, PayoutsAlone DEF RequestResolution, Ask, Fine
<1>7. ASSUME NEW p \in PayoutIds, NEW i \in DOMAIN payout[p].attempts, NEW n \in Amounts,
             RecordRefund(p, i, n)
      PROVE  Fine
  BY <1>7, RecordRefundNoMore DEF Fine
<1>8. ASSUME NEW p \in PayoutIds, NEW i \in DOMAIN payout[p].attempts,
             NEW state \in {"debited", "failed"}, Mark(p, i, state)
      PROVE  Fine
  BY <1>8, MarkNoMore DEF Fine
<1>9. ASSUME NEW p \in PayoutIds, NEW q \in Approvals, Resolve(p, q) PROVE Fine
  BY <1>9, ResolveNoMore DEF Fine
<1>10. ASSUME NEW p \in PayoutIds, SettleWithCredit(p) \/ DeliverAgain(p) \/ Reverse(p)
       PROVE  Fine
  BY <1>10, SettleWithCreditNoMore, DeliverAgainNoMore, ReverseNoMore DEF Fine
<1>11. ASSUME NEW p \in PayoutIds, NEW answer \in {"received", "not_received"}, Confirm(p, answer)
       PROVE  Fine
  BY <1>11, ConfirmNoMore DEF Fine
<1>12. Fine
  BY <1>2, <1>3, <1>4, <1>5, <1>6, <1>7, <1>8, <1>9, <1>10, <1>11 DEF Next
<1> QED
  BY <1>12 DEF Fine

-----------------------------------------------------------------------------
(* The theorems.                                                           *)

\* However payouts are sent, fail, are refunded, disputed, resolved, cancelled
\* and delivered again, an approval that was used was agreed by a second
\* admin and allowed exactly one attempt or resolution, no attempt after one
\* that may have gone out was made without, and what was resolved adds up to
\* what was agreed (approvals.usable and use, payouts.create_attempt and
\* resolve).
THEOREM ApprovalAlwaysUsedOnce == Spec => []ApprovalUsedOnce
BY UInvAlways, UsedOnceFollows, PTL

\* Between any two states of any behaviour, money goes out of a payout beyond
\* its worth only by a new attempt, with an approval of its own whose second
\* admin acknowledged that two outflows may exist, as long as the supplier's
\* credit was not used twice (payouts.plan, create_attempt and
\* settle_with_credit).
THEOREM TwiceIsAlwaysAcknowledged == Spec => TwiceIsAcknowledged
<1>1. UInv /\ UInv' /\ [Next]_vars => [\A p \in PayoutIds : OverIsAcknowledged(p)]_vars
  BY StepAcknowledged
<1> QED
  BY <1>1, UInvAlways, PTL DEF Spec, TwiceIsAcknowledged

-----------------------------------------------------------------------------
(***************************************************************************)
(* A payout paid in full.  It is one with nothing unresolved and nothing   *)
(* owed (Full); the steps that may send more need something owed, and the  *)
(* others only ease it, but for the three ways the page names.             *)
(***************************************************************************)
Full(x) == x.status # "cancelled" /\ Unresolved(x) = {} /\ Owed(x) <= 0

\* How a payout paid in full may come to owe again.
Reopened(x, y) ==
    \E i \in DOMAIN x.attempts :
       \/ y.attempts[i].answer = "not_received" /\ x.attempts[i].answer # "not_received"
       \/ y.attempts[i].state = "failed" /\ x.attempts[i].state # "failed"
       \/ y.attempts[i].back > x.attempts[i].back

LEMMA MaxOfZeroAnd ==
    ASSUME NEW n \in Int
    PROVE  Max({0, n}) = IF n > 0 THEN n ELSE 0
<1>1. \A m \in {0, n} : (\A y \in {0, n} : m >= y) <=> m = IF n > 0 THEN n ELSE 0
  OBVIOUS
<1>2. (IF n > 0 THEN n ELSE 0) \in {0, n}
  OBVIOUS
<1>. QED BY <1>1, <1>2 DEF Max

LEMMA MinOfTwo ==
    ASSUME NEW a \in Int, NEW b \in Int
    PROVE  Min({a, b}) = IF a <= b THEN a ELSE b
<1>1. \A m \in {a, b} : (\A y \in {a, b} : m <= y) <=> m = IF a <= b THEN a ELSE b
  OBVIOUS
<1>2. (IF a <= b THEN a ELSE b) \in {a, b}
  OBVIOUS
<1>. QED BY <1>1, <1>2 DEF Min

LEMMA CreditIsInteger == CreditAvailable \in Int
<1>1. ASSUME NEW S \in SUBSET PayoutIds, NEW n PROVE Sum(S, n) \in Nat
  <2>1. IsFiniteSet(S)
    BY FS_Subset, PayoutsAssumption
  <2>. QED BY <2>1, SumType
<1>2. {p \in PayoutIds : payout[p].status # "cancelled"} \in SUBSET PayoutIds
  OBVIOUS
<1>. QED BY <1>1, <1>2 DEF CreditAvailable

\* With credit that is not overspent, "paid" is what plan says of such a payout.
FullIsPaid ==
    \A p \in PayoutIds : payout[p] \in PayoutRecord /\ CreditAvailable >= 0 =>
        (Blocked(payout[p]) = "paid" <=> Full(payout[p]))

LEMMA PlanOfFull ==
    ASSUME NEW x \in PayoutRecord, CreditAvailable >= 0
    PROVE  /\ Blocked(x) = "paid" <=> Full(x)
           /\ Full(x) => Credit(x) = 0 /\ Limit(x) <= 0
<1>1. Owed(x) \in Int /\ CreditAvailable \in Int
  BY FiguresType, CreditIsInteger DEF Owed
<1>2. CASE Unresolved(x) # {}
  <2>1. Blocked(x) # "paid"
    BY <1>2 DEF Blocked
  <2>. QED BY <1>2, <2>1 DEF Full
<1>3. CASE Unresolved(x) = {}
  <2>. DEFINE room == IF Owed(x) > 0 THEN Owed(x) ELSE 0
              c == IF CreditAvailable <= room THEN CreditAvailable ELSE room
  <2>1. Credit(x) = Min({CreditAvailable, Max({0, Owed(x)})}) /\ Limit(x) = Owed(x) - Credit(x)
    BY <1>3 DEF Credit, Limit
  <2>2. Max({0, Owed(x)}) = room /\ room \in Int
    BY <1>1, MaxOfZeroAnd
  <2>3. Credit(x) = c
    <3>. HIDE DEF room
    <3>. QED BY <1>1, <2>1, <2>2, MinOfTwo
  <2>4. Owed(x) <= 0 => c = 0
    BY <1>1
  <2>5. Owed(x) > 0 => (Owed(x) - c > 0 \/ c > 0)
    BY <1>1
  <2>6. c \in Int
    BY <1>1
  <2>. HIDE DEF c
  <2>7. Owed(x) <= 0 <=> ~(Limit(x) > 0) /\ ~(Credit(x) > 0)
    BY <1>1, <2>1, <2>3, <2>4, <2>5, <2>6
  <2>8. Blocked(x) = "paid" <=> x.status # "cancelled" /\ ~(Limit(x) > 0) /\ ~(Credit(x) > 0)
    BY <1>3 DEF Blocked
  <2>9. Owed(x) <= 0 => Credit(x) = 0 /\ Limit(x) <= 0
    BY <1>1, <2>1, <2>3, <2>4
  <2>. QED BY <1>3, <2>7, <2>8, <2>9 DEF Full
<1>. QED BY <1>2, <1>3

LEMMA AlwaysFullIsPaid == FullIsPaid
BY PlanOfFull DEF FullIsPaid

\* Attempts that keep their money, with no new dispute and no less resolved,
\* leave a payout full as long as nothing is owed.
LEMMA Eased ==
    ASSUME NEW x \in PayoutRecord, NEW y \in PayoutRecord, Full(x),
           DOMAIN y.attempts = DOMAIN x.attempts,
           \A i \in DOMAIN x.attempts :
              /\ y.attempts[i].state = x.attempts[i].state
              /\ y.attempts[i].amount = x.attempts[i].amount
              /\ y.attempts[i].back = x.attempts[i].back,
           Disputed(y) \subseteq Disputed(x), Resolved(y) >= Resolved(x),
           y.total = x.total, y.used = x.used, y.status # "cancelled",
           Resolved(y) - Resolved(x) <= - Owed(x)
    PROVE  Full(y)
<1>1. \A st : In(y, st) = In(x, st)
  BY DEF In
<1>2. ASSUME NEW S \in SUBSET DOMAIN x.attempts PROVE Kept(y, S) = Kept(x, S)
  <2>1. \A u \in S \X Amounts : u[1] \in DOMAIN x.attempts
    OBVIOUS
  <2>2. Units(y, S) = Units(x, S)
    BY <2>1 DEF Units
  <2>. QED BY <2>2 DEF Kept
<1>3. \A st : In(x, st) \in SUBSET DOMAIN x.attempts
  BY DEF In
<1>4. NetPaid(y) = NetPaid(x) /\ InFlight(y) = InFlight(x)
  BY <1>1, <1>2, <1>3 DEF NetPaid, InFlight
<1>5. Settled(y) = Settled(x) - (Resolved(y) - Resolved(x))
  BY <1>4, FiguresType DEF Settled
<1>6. Owed(y) = Owed(x) + (Resolved(y) - Resolved(x))
  BY <1>4, <1>5, FiguresType DEF Owed
<1>7. Owed(y) <= 0
  <2>1. Owed(x) \in Int /\ Resolved(y) \in Int /\ Resolved(x) \in Int
    BY FiguresType DEF Owed
  <2>. QED BY <1>6, <2>1
<1>8. Live(y) = Live(x)
  BY <1>1, <1>3 DEF Live
<1>9. Disputed(x) \in SUBSET DOMAIN x.attempts /\ Disputed(y) \in SUBSET DOMAIN x.attempts
  BY <1>3 DEF Disputed
<1>10. Kept(y, Disputed(y)) <= Kept(x, Disputed(x)) /\ Kept(y, Disputed(y)) \in Nat
       /\ Kept(x, Disputed(x)) \in Nat
  <2>1. Kept(y, Disputed(y)) = Kept(x, Disputed(y))
    BY <1>2, <1>9
  <2>. QED BY <1>9, <2>1, KeptType
<1>11. Unresolved(y) \subseteq Unresolved(x)
  <2>1. Kept(y, Disputed(y)) > Resolved(y) => Kept(x, Disputed(x)) > Resolved(x)
    BY <1>10, FiguresType
  <2>. QED BY <1>1, <1>8, <2>1 DEF Unresolved
<1>. QED BY <1>7, <1>11 DEF Full

\* Nothing but its answer and its status changes.
LEMMA FullStays ==
    ASSUME NEW x \in PayoutRecord, NEW y \in PayoutRecord, Full(x), y.attempts = x.attempts,
           y.resolved = x.resolved, y.total = x.total, y.used = x.used, y.status # "cancelled"
    PROVE  Full(y)
<1>1. Resolved(y) = Resolved(x) /\ Disputed(y) = Disputed(x)
  BY DEF Resolved, Disputed, In
<1>2. Resolved(x) \in Nat /\ Owed(x) \in Int /\ Owed(x) <= 0
  BY FiguresType DEF Owed, Full
<1>3. Resolved(y) >= Resolved(x) /\ Resolved(y) - Resolved(x) <= - Owed(x)
  BY <1>1, <1>2
<1>. QED BY <1>1, <1>3, Eased

LEMMA FullRefreshed ==
    ASSUME NEW y \in PayoutRecord, Full(y), Refreshed(y) \in PayoutRecord
    PROVE  Full(Refreshed(y))
<1>1. Refreshed(y).status # "cancelled"
  BY DEF Refreshed, PayoutRecord, Full
<1>. QED BY <1>1, RefreshedEvidence, FullStays

\* What may still be resolved of a full payout is what it settled too much.
LEMMA ExposureOfFull ==
    ASSUME NEW x \in PayoutRecord, BackWithin(x), Full(x)
    PROVE  Exposure(x) \in Int /\ Exposure(x) <= - Owed(x)
<1>. DEFINE a == Kept(x, Disputed(x)) - Resolved(x)
            b == Settled(x) + InFlight(x) - x.total
<1>1. Disputed(x) \in SUBSET DOMAIN x.attempts
  BY DEF Disputed, In
<1>2. Kept(x, Disputed(x)) \in Nat /\ Resolved(x) \in Nat
  BY <1>1, KeptType, FiguresType
<1>3. Kept(x, Disputed(x)) <= Resolved(x)
  <2>1. CASE Live(x) \cap Disputed(x) = {}
    <3>1. ASSUME NEW i \in Disputed(x) PROVE x.attempts[i].back >= x.attempts[i].amount
      <4>1. i \in In(x, "debited") /\ i \notin Live(x) /\ x.attempts[i] \in Attempt
        BY <1>1, <2>1, <3>1 DEF Disputed, PayoutRecord
      <4>2. x.attempts[i].back \in Nat /\ x.attempts[i].amount \in Nat
        BY <4>1, PayoutsAssumption DEF Attempt, Amounts
      <4>. QED BY <4>1, <4>2 DEF Live
    <3>2. Units(x, Disputed(x)) = {}
      <4>. SUFFICES ASSUME NEW u \in Disputed(x) \X Amounts,
                           x.attempts[u[1]].back < u[2], u[2] <= x.attempts[u[1]].amount
                    PROVE  FALSE
        BY DEF Units
      <4>1. u[1] \in Disputed(x) /\ u[2] \in Nat /\ x.attempts[u[1]] \in Attempt
        BY <1>1, PayoutsAssumption DEF Amounts, PayoutRecord
      <4>2. x.attempts[u[1]].back \in Nat /\ x.attempts[u[1]].amount \in Nat
        BY <4>1, PayoutsAssumption DEF Attempt, Amounts
      <4>3. x.attempts[u[1]].back >= x.attempts[u[1]].amount
        BY <3>1, <4>1
      <4>. QED BY <4>1, <4>2, <4>3
    <3>3. Kept(x, Disputed(x)) = 0
      BY <3>2, FS_EmptySet DEF Kept
    <3>. QED BY <1>2, <3>3
  <2>2. CASE Live(x) \cap Disputed(x) # {}
    <3>1. ~(Kept(x, Disputed(x)) > Resolved(x))
      BY <2>2 DEF Full, Unresolved
    <3>. QED BY <1>2, <3>1
  <2>. QED BY <2>1, <2>2
<1>4. a \in Int /\ a <= 0
  BY <1>2, <1>3
<1>5. b \in Int /\ b = - Owed(x) /\ b >= 0
  BY FiguresType DEF Owed, Full
<1>. HIDE DEF a, b
<1>6. Max({0, a, b}) = b
  <2>1. \A m \in {0, a, b} : (\A y \in {0, a, b} : m >= y) => m = b
    BY <1>4, <1>5
  <2>2. \A y \in {0, a, b} : b >= y
    BY <1>4, <1>5
  <2>. QED BY <2>1, <2>2 DEF Max
<1>. QED BY <1>5, <1>6 DEF Exposure, a, b

LEMMA RefundReopens ==
    ASSUME IInv, NEW p \in PayoutIds, NEW i \in DOMAIN payout[p].attempts, NEW n \in Amounts,
           RecordRefund(p, i, n)
    PROVE  Reopened(payout[p], payout'[p])
<1>. DEFINE x == payout[p]
            a == x.attempts[i]
            back == a.back + n
            y == [x EXCEPT !.attempts = [x.attempts EXCEPT ![i] = [a EXCEPT !.back = back]]]
<1>1. x \in PayoutRecord /\ payout \in [PayoutIds -> PayoutRecord] /\ a \in Attempt
  BY DEF IInv, PayoutRecord
<1>2. Update(p, y)
  BY DEF RecordRefund
<1>3. payout'[p].attempts = y.attempts
  BY <1>1, <1>2 DEF Update, Refreshed
<1>4. y.attempts[i].back = back /\ back > a.back
  BY <1>1, PayoutsAssumption DEF Amounts, Attempt, PayoutRecord
<1>. QED BY <1>3, <1>4 DEF Reopened

LEMMA ResolveStaysFull ==
    ASSUME IInv, IInv', NEW p \in PayoutIds, Full(payout[p]), NEW q \in Approvals, Resolve(p, q)
    PROVE  Full(payout'[p])
<1>. DEFINE x == payout[p]
            kind == approval[q].kind
            n == approval[q].amount
            y == [x EXCEPT !.resolved = [x.resolved EXCEPT ![kind] = x.resolved[kind] + n]]
<1>1. x \in PayoutRecord /\ BackWithin(x) /\ payout'[p] \in PayoutRecord
  BY DEF IInv, Sound
<1>2. n \in Nat /\ kind \in Resolutions /\ n <= Exposure(x) /\ x.resolved[kind] + n <= MaxCredit
  <2>1. approval[q] \in ApprovalRecord
    BY DEF IInv
  <2>. QED BY <2>1 DEF Resolve, ApprovalRecord
<1>3. payout'[p] = Refreshed(y)
  BY DEF Resolve, Update, IInv
<1>4. x.resolved \in [Resolutions -> 0..MaxCredit]
  BY <1>1 DEF PayoutRecord
<1>5. [x.resolved EXCEPT ![kind] = x.resolved[kind] + n] \in [Resolutions -> 0..MaxCredit]
  <2>1. x.resolved[kind] + n \in 0..MaxCredit
    <3>. HIDE DEF x, kind, n
    <3>. QED BY <1>2, <1>4, PayoutsAssumption
  <2>. QED BY <1>4, <2>1
<1>6. /\ y \in PayoutRecord /\ y.attempts = x.attempts /\ y.status = x.status
      /\ y.total = x.total /\ y.used = x.used
      /\ y.resolved = [x.resolved EXCEPT ![kind] = x.resolved[kind] + n]
  <2>. DEFINE r == [x.resolved EXCEPT ![kind] = x.resolved[kind] + n]
  <2>. HIDE DEF x, r
  <2>. QED BY <1>1, <1>5 DEF PayoutRecord, r
<1>. HIDE DEF y
<1>7. Resolved(y) = Resolved(x) + n
  <2>. HIDE DEF x, n, kind
  <2>1. kind = "supplier_credit" \/ kind = "write_off"
    BY <1>2 DEF Resolutions
  <2>2. x.resolved["supplier_credit"] \in Nat /\ x.resolved["write_off"] \in Nat
    BY <1>4, PayoutsAssumption DEF Resolutions
  <2>. QED BY <1>2, <1>4, <1>6, <2>1, <2>2 DEF Resolved, Resolutions
<1>8. Disputed(y) = Disputed(x)
  BY <1>6 DEF Disputed, In
<1>9. Exposure(x) <= - Owed(x) /\ Exposure(x) \in Int /\ Owed(x) \in Int
  BY <1>1, ExposureOfFull, FiguresType DEF Owed
<1>10. Resolved(x) \in Nat
  BY <1>1, FiguresType
<1>11. Resolved(y) >= Resolved(x) /\ Resolved(y) - Resolved(x) <= - Owed(x)
  <2>. HIDE DEF x, n
  <2>. QED BY <1>2, <1>7, <1>9, <1>10
<1>12. Full(y)
  <2>1. x.status # "cancelled"
    BY DEF Full
  <2>. HIDE DEF x
  <2>. QED BY <1>1, <1>6, <1>8, <1>11, <2>1, Eased DEF x
<1>. QED BY <1>1, <1>3, <1>6, <1>12, FullRefreshed

LEMMA ConfirmStaysFull ==
    ASSUME IInv, IInv', NEW p \in PayoutIds, Full(payout[p]),
           NEW answer \in {"received", "not_received"}, Confirm(p, answer)
    PROVE  Full(payout'[p]) \/ Reopened(payout[p], payout'[p])
<1>. DEFINE x == payout[p]
<1>1. x \in PayoutRecord /\ payout'[p] \in PayoutRecord /\ x.status # "cancelled"
  BY DEF IInv, Full
<1>2. CASE Live(x) = {}
  <2>1. payout'[p] = [x EXCEPT !.answer = answer]
    BY <1>2 DEF Confirm, IInv
  <2>2. /\ payout'[p].attempts = x.attempts /\ payout'[p].resolved = x.resolved
        /\ payout'[p].total = x.total /\ payout'[p].used = x.used /\ payout'[p].status = x.status
    BY <1>1, <2>1 DEF PayoutRecord
  <2>. QED BY <1>1, <2>2, FullStays
<1>3. CASE Live(x) # {}
  <2>. DEFINE i == Max(Live(x))
              a == x.attempts[i]
              b == [a EXCEPT !.answer = answer]
              y == [x EXCEPT !.attempts = [x.attempts EXCEPT ![i] = b]]
  <2>1. i \in DOMAIN x.attempts
    BY <1>1, <1>3, LastLive
  <2>2. payout'[p] = Refreshed(y)
    BY <1>3 DEF Confirm, Update, IInv
  <2>3. a \in Attempt /\ x.attempts \in Seq(Attempt)
    <3>. HIDE DEF i
    <3>. QED BY <1>1, <2>1 DEF PayoutRecord
  <2>4. /\ b \in Attempt /\ b.answer = answer /\ b.state = a.state /\ b.amount = a.amount
        /\ b.back = a.back
    <3>. HIDE DEF a
    <3>. QED BY <2>3 DEF Attempt, Answers
  <2>5. /\ y \in PayoutRecord /\ y.attempts = [x.attempts EXCEPT ![i] = b] /\ y.status = x.status
        /\ y.total = x.total /\ y.used = x.used /\ y.resolved = x.resolved
    <3>1. [x.attempts EXCEPT ![i] = b] \in Seq(Attempt)
      <4>. HIDE DEF i, b
      <4>. QED BY <2>1, <2>3, <2>4
    <3>. DEFINE s == [x.attempts EXCEPT ![i] = b]
    <3>. HIDE DEF s, x
    <3>. QED BY <1>1, <3>1 DEF PayoutRecord, s
  <2>. HIDE DEF y
  <2>6. payout'[p].attempts = y.attempts
    BY <2>2, <2>5, RefreshedEvidence
  <2>7. y.attempts[i].answer = answer
    BY <2>1, <2>4, <2>5
  <2>8. CASE answer = "not_received" /\ a.answer # "not_received"
    <3>1. payout'[p].attempts[i].answer = "not_received"
      BY <2>6, <2>7, <2>8
    <3>. QED BY <2>1, <2>8, <3>1 DEF Reopened
  <2>9. CASE ~(answer = "not_received" /\ a.answer # "not_received")
    <3>1. \A j \in DOMAIN x.attempts :
            /\ y.attempts[j].state = x.attempts[j].state
            /\ y.attempts[j].amount = x.attempts[j].amount
            /\ y.attempts[j].back = x.attempts[j].back
            /\ y.attempts[j].answer = "not_received" => x.attempts[j].answer = "not_received"
      <4>. SUFFICES ASSUME NEW j \in DOMAIN x.attempts
                    PROVE  /\ y.attempts[j].state = x.attempts[j].state
                           /\ y.attempts[j].amount = x.attempts[j].amount
                           /\ y.attempts[j].back = x.attempts[j].back
                           /\ y.attempts[j].answer = "not_received" => x.attempts[j].answer = "not_received"
        OBVIOUS
      <4>1. y.attempts[j] = IF j = i THEN b ELSE x.attempts[j]
        <5>. HIDE DEF i, b
        <5>. QED BY <2>5
      <4>2. CASE j = i
        <5>. HIDE DEF b, i
        <5>. QED BY <2>4, <2>9, <4>1, <4>2
      <4>3. CASE j # i
        BY <4>1, <4>3
      <4>. QED BY <4>2, <4>3
    <3>2. DOMAIN y.attempts = DOMAIN x.attempts
      BY <2>5
    <3>3. Disputed(y) \subseteq Disputed(x)
      BY <3>1, <3>2 DEF Disputed, In
    <3>4. Resolved(y) = Resolved(x)
      BY <2>5 DEF Resolved
    <3>5. Resolved(x) \in Nat /\ Owed(x) \in Int /\ Owed(x) <= 0
      BY <1>1, FiguresType DEF Owed, Full
    <3>6. Resolved(y) >= Resolved(x) /\ Resolved(y) - Resolved(x) <= - Owed(x)
      <4>. HIDE DEF x
      <4>. QED BY <3>4, <3>5
    <3>7. Full(y)
      <4>. HIDE DEF x
      <4>. QED BY <1>1, <2>5, <3>1, <3>2, <3>3, <3>6, Eased DEF x
    <3>. QED BY <1>1, <2>2, <2>5, <3>7, FullRefreshed
  <2>. QED BY <2>8, <2>9
<1>. QED BY <1>2, <1>3

\* Whatever a step does to other payouts, p's is full after it or was reopened.
LEMMA FullStep ==
    ASSUME IInv, IInv', [Next]_vars, NEW p \in PayoutIds, payout[p].status # "none",
           Full(payout[p]), CreditAvailable >= 0
    PROVE  Full(payout'[p]) \/ Reopened(payout[p], payout'[p])
<1>1. /\ payout[p] \in PayoutRecord /\ payout \in [PayoutIds -> PayoutRecord]
      /\ Sound(payout[p]) /\ BackWithin(payout[p])
  BY DEF IInv, Sound
<1>2. Credit(payout[p]) = 0 /\ Limit(payout[p]) <= 0 /\ Limit(payout[p]) \in Int
  <2>1. Credit(payout[p]) = 0 /\ Limit(payout[p]) <= 0 /\ Owed(payout[p]) \in Int
    BY <1>1, PlanOfFull, FiguresType DEF Owed
  <2>. QED BY <1>1, <2>1, FiguresType DEF Limit
<1>3. CASE payout'[p] = payout[p]
  BY <1>3
<1>4. ASSUME NEW o \in PayoutIds, o # p, NEW y, payout' = [payout EXCEPT ![o] = y]
      PROVE  payout'[p] = payout[p]
  BY <1>1, <1>4
<1>5. ASSUME NEW n \in Amounts, Deliver(p, n) PROVE FALSE
  BY <1>5 DEF Deliver
<1>6. ASSUME DeliverAgain(p) PROVE FALSE
  BY <1>6 DEF DeliverAgain, Full
<1>7. ASSUME Reverse(p) PROVE FALSE
  <2>1. payout[p].status = "pending" /\ InFlight(payout[p]) = 0
    BY <1>7 DEF Reverse
  <2>2. ~(Settled(payout[p]) >= payout[p].total)
    BY <1>1, <2>1 DEF Sound, Open
  <2>. QED BY <1>1, <2>1, <2>2, FiguresType DEF Full, Owed
<1>8. ASSUME NEW n \in Amounts, NEW q, NEW state, CreateAttempt(p, n, q, state) PROVE FALSE
  <2>1. n <= Limit(payout[p]) /\ n \in Int /\ n >= 1
    BY <1>8, PayoutsAssumption DEF CreateAttempt, Amounts
  <2>. QED BY <1>2, <2>1
<1>9. ASSUME NEW i \in DOMAIN payout[p].attempts, NEW state, Mark(p, i, state) PROVE FALSE
  BY <1>9 DEF Mark, Full, Unresolved, In
<1>10. ASSUME SettleWithCredit(p) PROVE FALSE
  BY <1>2, <1>10 DEF SettleWithCredit
<1>11. ASSUME NEW o \in PayoutIds, o # p,
              \/ \E n \in Amounts :
                   \/ Deliver(o, n)
                   \/ \E q \in Approvals \cup {Nil}, state \in {"initiated", "debited"} :
                        CreateAttempt(o, n, q, state)
                   \/ \E i \in DOMAIN payout[o].attempts : RecordRefund(o, i, n)
              \/ \E i \in DOMAIN payout[o].attempts, state \in {"debited", "failed"} : Mark(o, i, state)
              \/ \E q \in Approvals : Resolve(o, q)
              \/ SettleWithCredit(o) \/ DeliverAgain(o) \/ Reverse(o)
              \/ \E answer \in {"received", "not_received"} : Confirm(o, answer)
       PROVE  payout'[p] = payout[p]
  BY <1>1, <1>11 DEF Deliver, CreateAttempt, RecordRefund, Mark, Resolve, SettleWithCredit,
                     DeliverAgain, Reverse, Confirm, Update
<1>12. ASSUME \/ \E q \in Approvals, a \in Admins, status \in {"approved", "rejected"} :
                   Decide(q, a, status)
              \/ \E o \in PayoutIds, n \in Amounts, q \in Approvals, a \in Admins :
                   \/ \E ack \in BOOLEAN : RequestApproval(q, o, n, ack, a)
                   \/ \E kind \in Resolutions : RequestResolution(q, o, kind, n, a)
       PROVE  payout'[p] = payout[p]
  BY <1>12 DEF Decide, RequestApproval, RequestResolution, Ask
<1>13. CASE UNCHANGED vars
  BY <1>13 DEF vars
<1>. QED
  BY <1>5, <1>6, <1>7, <1>8, <1>9, <1>10, <1>11, <1>12, <1>13,
     RefundReopens, ResolveStaysFull, ConfirmStaysFull DEF Next

\* "Paid in full" is final for every number of payouts, attempts and admins:
\* a payout that may not be sent again stays so, until the supplier reports it
\* as not received, a sent attempt fails or money comes back
\* (payouts.plan, create_attempt, record_refund, confirm; settlements/[id]).
THEOREM PaidInFullIsAlwaysFinal == Spec => PaidInFullIsFinal
<1>. DEFINE Final(p) ==
         payout[p].status # "none" /\ Blocked(payout[p]) = "paid" /\ CreditAvailable >= 0
           /\ CreditAvailable' >= 0 /\ Blocked(payout[p])' # "paid" =>
         Reopened(payout[p], payout'[p])
<1>1. FullIsPaid /\ FullIsPaid'
  BY AlwaysFullIsPaid, PTL
<1>2. ASSUME IInv, [Next]_vars PROVE \A p \in PayoutIds : Final(p)
  <2>. SUFFICES ASSUME NEW p \in PayoutIds, payout[p].status # "none",
                       Blocked(payout[p]) = "paid", CreditAvailable >= 0,
                       CreditAvailable' >= 0, Blocked(payout[p])' # "paid"
                PROVE  Reopened(payout[p], payout'[p])
    OBVIOUS
  <2>1. IInv'
    BY <1>2, IInvStep DEF Moved
  <2>2. payout[p] \in PayoutRecord /\ payout'[p] \in PayoutRecord
    BY <1>2, <2>1 DEF IInv
  <2>3. Full(payout[p])
    BY <1>1, <2>2 DEF FullIsPaid
  <2>4. ~Full(payout'[p])
    BY <1>1, <2>2 DEF FullIsPaid
  <2>. QED BY <1>2, <2>1, <2>3, <2>4, FullStep
<1>3. IInv /\ [Next]_vars => [\A p \in PayoutIds : Final(p)]_vars
  BY <1>2
<1>. QED BY <1>3, IInvAlways, PTL DEF Spec, PaidInFullIsFinal, Reopened
=============================================================================
