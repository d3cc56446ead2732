------------------------------ MODULE Payouts -------------------------------
(***************************************************************************)
(* The payouts of one supplier: attempts to send the money, refunds, money *)
(* possibly paid twice and its resolution, the supplier's payout credit    *)
(* and the second admin's approvals (payouts.py, approvals.py).  What the  *)
(* order of a payout does to it is here as three actions (services.advance *)
(* and recognition.reverse_delivery, which Orders has in full).            *)
(*                                                                         *)
(* A settlement's figures are computed from its attempts each time, and    *)
(* refresh writes the status and the supplier's answer back to its row:    *)
(* the row is a copy that has to stay in step.  Every handler but the      *)
(* supplier's answer and a decision holds the commerce lock, and those two *)
(* hold the row they decide on.  Dates, accounts and references are left   *)
(* out; money is in whole units.                                           *)
(***************************************************************************)
EXTENDS Integers, Sequences, FiniteSets, FiniteSetsExt

CONSTANTS
    PayoutIds,     \* settlement ids
    Approvals,     \* approval request ids
    Nil,           \* no approval, nobody
    Admins,        \* operators with the admin role
    MaxAmount,     \* bound on what is owed on a payout, sent or refunded at once
    MaxAttempts,   \* bound on the attempts of a payout
    MaxCredit,     \* bound on what is resolved on a payout, and on the credit it uses
    Threshold      \* approvals.SECOND_ADMIN_THRESHOLD

ASSUME PayoutsAssumption ==
    /\ IsFiniteSet(PayoutIds) /\ IsFiniteSet(Approvals) /\ Admins # {}
    /\ PayoutIds # {} /\ Nil \notin Approvals \cup Admins
    /\ MaxAmount \in Nat /\ MaxAttempts \in Nat /\ MaxCredit \in Nat /\ Threshold \in Nat

VARIABLES
    payout,        \* Settlement with its attempts, resolutions and credit uses
    approval       \* ApprovalRequest

vars == <<payout, approval>>

Amounts == 1..MaxAmount
Answers == {"none", "received", "not_received"}
Resolutions == {"supplier_credit", "write_off"}
Kinds == {"none", "resend", "over_threshold"} \cup Resolutions

Attempt ==
    [amount : Amounts, state : {"initiated", "debited", "failed"}, back : Nat,
     resend : BOOLEAN, answer : Answers, approval : Approvals \cup {Nil}]

PayoutRecord ==
    [status : {"none", "pending", "paid", "cancelled"}, total : 0..MaxAmount,
     attempts : Seq(Attempt), resolved : [Resolutions -> 0..MaxCredit],
     used : 0..MaxCredit,
     answer : Answers]

ApprovalRecord ==
    [status : {"none", "pending", "approved", "rejected"}, payout : PayoutIds,
     kind : Kinds, amount : Nat, acknowledged : BOOLEAN,
     requester : Admins \cup {Nil}, decider : Admins \cup {Nil}, used : BOOLEAN]

NewPayout(status, total) ==
    [status |-> status, total |-> total, attempts |-> <<>>,
     resolved |-> [k \in Resolutions |-> 0], used |-> 0, answer |-> "none"]

NoRequest ==
    [status |-> "none", payout |-> CHOOSE p \in PayoutIds : TRUE, kind |-> "none",
     amount |-> 0, acknowledged |-> FALSE, requester |-> Nil, decider |-> Nil,
     used |-> FALSE]

Init ==
    /\ payout = [p \in PayoutIds |-> NewPayout("none", 0)]
    /\ approval = [q \in Approvals |-> NoRequest]

-----------------------------------------------------------------------------
(* Figures of a payout x (payouts.figures and state).                      *)

In(x, state) == {i \in DOMAIN x.attempts : x.attempts[i].state = state}
Disputed(x) == {i \in In(x, "debited") : x.attempts[i].answer = "not_received"}

\* Amount less refunds of the attempts S, counted as the units it stands for.
Units(x, S) ==
    {u \in S \X Amounts : /\ x.attempts[u[1]].back < u[2]
                          /\ u[2] <= x.attempts[u[1]].amount}
Kept(x, S) == Cardinality(Units(x, S))

\* The sum of n over S, counted in the same way.
Sum(S, n) == Cardinality({u \in S \X (1..MaxCredit) : u[2] <= n[u[1]]})

NetPaid(x) == Kept(x, In(x, "debited"))
InFlight(x) == Kept(x, In(x, "initiated"))
Resolved(x) == x.resolved["supplier_credit"] + x.resolved["write_off"]
Settled(x) == NetPaid(x) - Resolved(x) + x.used
Exposure(x) ==
    Max({0, Kept(x, Disputed(x)) - Resolved(x), Settled(x) + InFlight(x) - x.total})

\* Attempts whose money is under way or with the supplier; the last of them
\* is the current one.
Live(x) == In(x, "initiated") \cup
           {i \in In(x, "debited") : x.attempts[i].back < x.attempts[i].amount}

Unresolved(x) ==
    In(x, "initiated") \cup
    {i \in Live(x) \cap Disputed(x) : Kept(x, Disputed(x)) > Resolved(x)}

CurrentAnswer(x) == IF Live(x) = {} THEN "none" ELSE x.attempts[Max(Live(x))].answer

\* payouts.refresh: the row follows its attempts.
Refreshed(x) ==
    [x EXCEPT !.answer = CurrentAnswer(x),
              !.status = IF x.status = "cancelled" THEN "cancelled"
                         ELSE IF Settled(x) >= x.total THEN "paid" ELSE "pending"]

Update(p, x) == payout' = [payout EXCEPT ![p] = Refreshed(x)]

\* payouts.credit_available: a cancelled payout gives its credit back.
CreditAvailable ==
    Sum(PayoutIds, [p \in PayoutIds |-> payout[p].resolved["supplier_credit"]])
    - Sum({p \in PayoutIds : payout[p].status # "cancelled"},
          [p \in PayoutIds |-> payout[p].used])

-----------------------------------------------------------------------------
(* payouts.plan: what may be sent next, and who must agree.                *)

Open(x) == x.status \in {"pending", "paid"}
Owed(x) == x.total - Settled(x) - InFlight(x)
Resend(x) == \E i \in DOMAIN x.attempts : x.attempts[i].state # "failed"

\* What an attempt would take from the supplier's credit first.
Credit(x) ==
    IF Unresolved(x) # {} THEN 0 ELSE Min({CreditAvailable, Max({0, Owed(x)})})

Limit(x) == IF Unresolved(x) # {} THEN x.total ELSE Owed(x) - Credit(x)

ApprovalKind(x, n) ==
    IF Resend(x) THEN "resend" ELSE IF n > Threshold THEN "over_threshold" ELSE "none"

\* Mutant: an approval may be used again.
UsableAgain(q, p, kind, n) ==
    /\ approval[q].payout = p /\ approval[q].kind = kind
    /\ approval[q].status = "approved" /\ n <= approval[q].amount

Usable(q, p, kind, n) ==
    /\ approval[q].payout = p /\ approval[q].kind = kind
    /\ approval[q].status = "approved" /\ ~approval[q].used
    /\ n <= approval[q].amount

Use(q) == approval' = [approval EXCEPT ![q].used = TRUE]
-----------------------------------------------------------------------------
(* Approvals.                                                              *)

Ask(q, p, kind, n, ack, a) ==
    /\ approval[q].status = "none"
    /\ approval' = [approval EXCEPT ![q] =
          [status |-> "pending", payout |-> p, kind |-> kind, amount |-> n,
           acknowledged |-> ack, requester |-> a, decider |-> Nil, used |-> FALSE]]
    /\ UNCHANGED payout

RequestApproval(q, p, n, ack, a) ==
    LET x == payout[p]
    IN  /\ Open(x) /\ ApprovalKind(x, n) # "none"
        /\ Ask(q, p, ApprovalKind(x, n), n, ack, a)
        /\ n <= Limit(x)
        /\ Unresolved(x) # {} => ack

RequestResolution(q, p, kind, n, a) ==
    /\ payout[p].status # "none"
    /\ Ask(q, p, kind, n, FALSE, a)
    /\ n <= Exposure(payout[p])

\* approvals.decide: anyone may reject, only a second admin approves.
Decide(q, a, status) ==
    /\ approval[q].status = "pending"
    /\ status = "approved" => a # approval[q].requester
    /\ approval' = [approval EXCEPT ![q] = [@ EXCEPT !.status = status, !.decider = a]]
    /\ UNCHANGED payout

-----------------------------------------------------------------------------
(* Attempts, refunds and resolutions.                                      *)

\* Payout x after an attempt of n that is in the given state from the start.
Sent(x, n, q, state) ==
    [x EXCEPT !.used = x.used + Max({0, Credit(x)}),
              !.attempts = Append(x.attempts,
                 [amount |-> n, state |-> state, back |-> 0, resend |-> Resend(x),
                  answer |-> "none", approval |-> q])]

\* Mutant: two outflows need no acknowledgement.
CreateAttemptUnacknowledged(p, n, q, state) ==
    LET x == payout[p]
        kind == ApprovalKind(x, n)
    IN  /\ Open(x) /\ n <= Limit(x)
        /\ Len(x.attempts) < MaxAttempts                      \* bound
        /\ x.used + Max({0, Credit(x)}) <= MaxCredit          \* bound
        /\ IF kind = "none"
           THEN q = Nil /\ UNCHANGED approval
           ELSE q # Nil /\ Usable(q, p, kind, n) /\ Use(q)
        /\ Update(p, Sent(x, n, q, state))

\* payouts.create_attempt, and main.pay_settlement (debited at once).
CreateAttempt(p, n, q, state) ==
    LET x == payout[p]
        kind == ApprovalKind(x, n)
    IN  /\ Open(x)
        /\ Len(x.attempts) < MaxAttempts                      \* bound
        /\ IF kind = "none"
           THEN q = Nil /\ UNCHANGED approval
           ELSE /\ q # Nil /\ Usable(q, p, kind, n)
                /\ Unresolved(x) # {} => approval[q].acknowledged
                /\ Use(q)
        /\ n <= Limit(x)
        /\ x.used + Max({0, Credit(x)}) <= MaxCredit          \* bound
        /\ Update(p, Sent(x, n, q, state))

\* mark_debited and mark_failed: only an attempt not yet confirmed.
Mark(p, i, state) ==
    /\ payout[p].attempts[i].state = "initiated"
    /\ Update(p, [payout[p] EXCEPT !.attempts[i].state = state])
    /\ UNCHANGED approval

\* Mutant: the row does not follow a refund.
RecordRefundOnly(p, i, n) ==
    LET x == payout[p]
        back == x.attempts[i].back + n
    IN  /\ x.attempts[i].state = "debited"
        /\ back <= x.attempts[i].amount /\ n <= NetPaid(x) - Resolved(x)
        /\ payout' = [payout EXCEPT ![p].attempts[i].back = back]
        /\ UNCHANGED approval

RecordRefund(p, i, n) ==
    LET x == payout[p]
        back == x.attempts[i].back + n
    IN  /\ x.attempts[i].state = "debited"
        /\ back <= x.attempts[i].amount /\ n <= NetPaid(x) - Resolved(x)
        /\ Update(p, [x EXCEPT !.attempts[i].back = back])
        /\ UNCHANGED approval

Resolve(p, q) ==
    LET x == payout[p]
        kind == approval[q].kind
        n == approval[q].amount
    IN  /\ kind \in Resolutions /\ Usable(q, p, kind, n)
        /\ n <= Exposure(x)
        /\ x.resolved[kind] + n <= MaxCredit                  \* bound
        /\ Use(q)
        /\ Update(p, [x EXCEPT !.resolved[kind] = x.resolved[kind] + n])

SettleWithCredit(p) ==
    LET x == payout[p]
    IN  /\ Open(x) /\ Credit(x) > 0
        /\ x.used + Credit(x) <= MaxCredit                    \* bound
        /\ Update(p, [x EXCEPT !.used = x.used + Credit(x)])
        /\ UNCHANGED approval

\* payouts.confirm: the supplier answers about the current attempt (about
\* the payout itself when credit covered all of it); 'received' is final.
Confirm(p, answer) ==
    LET x == payout[p]
    IN  /\ Open(x) /\ (x.status = "paid" \/ Live(x) # {}) /\ x.answer # "received"
        /\ IF Live(x) = {} THEN payout' = [payout EXCEPT ![p].answer = answer]
           ELSE Update(p, [x EXCEPT !.attempts[Max(Live(x))].answer = answer])
        /\ UNCHANGED approval

-----------------------------------------------------------------------------
(* The order's side of it.                                                 *)

\* recognition.delivery_settlement: a new payout, or the cancelled one again.
Deliver(p, total) ==
    /\ payout[p].status = "none"
    /\ payout' = [payout EXCEPT ![p] = NewPayout("pending", total)]
    /\ UNCHANGED approval

DeliverAgain(p) ==
    /\ payout[p].status = "cancelled"
    /\ payout' = [payout EXCEPT ![p] = [@ EXCEPT !.status = "pending", !.answer = "none"]]
    /\ UNCHANGED approval

\* Mutant: a payout that is paid is not looked at.
ReversePaid(p) ==
    /\ Open(payout[p]) /\ InFlight(payout[p]) = 0
    /\ payout' = [payout EXCEPT ![p].status = "cancelled"]
    /\ UNCHANGED approval

\* recognition.reverse_delivery: refused while any money is with the supplier.
Reverse(p) ==
    /\ payout[p].status = "pending"
    /\ InFlight(payout[p]) = 0 /\ NetPaid(payout[p]) <= 0
    /\ payout' = [payout EXCEPT ![p].status = "cancelled"]
    /\ UNCHANGED approval

Next ==
    \/ \E q \in Approvals, a \in Admins, status \in {"approved", "rejected"} :
         Decide(q, a, status)
    \/ \E p \in PayoutIds :
         \/ \E n \in Amounts :
              \/ Deliver(p, n)
              \/ \E q \in Approvals \cup {Nil}, state \in {"initiated", "debited"} :
                   CreateAttempt(p, n, q, state)
              \/ \E q \in Approvals, a \in Admins :
                   \/ \E ack \in BOOLEAN : RequestApproval(q, p, n, ack, a)
                   \/ \E kind \in Resolutions : RequestResolution(q, p, kind, n, a)
              \/ \E i \in DOMAIN payout[p].attempts : RecordRefund(p, i, n)
         \/ \E i \in DOMAIN payout[p].attempts, state \in {"debited", "failed"} : Mark(p, i, state)
         \/ \E q \in Approvals : Resolve(p, q)
         \/ SettleWithCredit(p) \/ DeliverAgain(p) \/ Reverse(p)
         \/ \E answer \in {"received", "not_received"} : Confirm(p, answer)

Spec == Init /\ [][Next]_vars
-----------------------------------------------------------------------------
(* Properties.                                                             *)

TypeOK ==
    /\ payout \in [PayoutIds -> PayoutRecord]
    /\ approval \in [Approvals -> ApprovalRecord]
    /\ \A p \in PayoutIds : \A i \in DOMAIN payout[p].attempts :
          payout[p].attempts[i].back <= payout[p].attempts[i].amount

\* The row's status is what its attempts, refunds, resolutions and credit
\* add up to, also after a delivery taken back and made again, which does
\* not refresh the row (payouts.refresh, recognition.delivery_settlement).
PaidIsSettled ==
    \A p \in PayoutIds :
        Open(payout[p]) => (payout[p].status = "paid" <=> Settled(payout[p]) >= payout[p].total)

\* A payout is cancelled with its delivery only when none of its money is
\* with the supplier or under way, and none gets there while it is cancelled
\* (recognition.reverse_delivery, plan).
CancelledHoldsNoMoney ==
    \A p \in PayoutIds : payout[p].status = "cancelled" =>
        NetPaid(payout[p]) <= 0 /\ In(payout[p], "initiated") = {}

\* What of a payout is settled or under way.
Out(x) == Settled(x) + InFlight(x)

\* Money goes out of a payout beyond its worth only by a new attempt, with an
\* approval of its own that acknowledged it.
OverIsAcknowledged(p) ==
    LET x == payout[p]
        y == payout'[p]
    IN  Out(y) > Out(x) /\ Out(y) > y.total /\ CreditAvailable >= 0 =>
          /\ Len(y.attempts) = Len(x.attempts) + 1
          /\ \E q \in Approvals :
                /\ y.attempts[Len(y.attempts)].approval = q
                /\ ~approval[q].used /\ approval'[q].used /\ approval[q].acknowledged

\* More than a payout is worth never goes out, or is credited, but by an
\* attempt whose second admin agreed knowing that two outflows may exist: each
\* time with an approval of its own (decision D9, payouts.py "Resend
\* controls").  A supplier whose credit was used twice is the exception: a
\* negative credit raises the limit (plan, CreditNotOverspent below).
TwiceIsAcknowledged == [][\A p \in PayoutIds : OverIsAcknowledged(p)]_vars

ApprovedAttempts(q) ==
    {r \in PayoutIds \X (1..MaxAttempts) :
        r[2] \in DOMAIN payout[r[1]].attempts /\ payout[r[1]].attempts[r[2]].approval = q}

\* Every resend that is not covered by an earlier proof of failure has an
\* approval of its own, agreed by someone other than its requester, for this
\* payout and at least this amount; and what was resolved is exactly what
\* such approvals allowed: no approval is spent twice (approvals.usable, use).
ApprovalUsedOnce ==
    /\ \A q \in Approvals :
         LET by == ApprovedAttempts(q)
         IN  /\ approval[q].used =>
                  approval[q].status = "approved" /\ approval[q].decider # approval[q].requester
             /\ Cardinality(by) = IF approval[q].used /\ approval[q].kind \notin Resolutions THEN 1 ELSE 0
             /\ \A r \in by : approval[q].payout = r[1]
                              /\ payout[r[1]].attempts[r[2]].amount <= approval[q].amount
    /\ \A p \in PayoutIds, i \in 1..MaxAttempts :
         i \in DOMAIN payout[p].attempts /\ payout[p].attempts[i].resend =>
            payout[p].attempts[i].approval # Nil
    /\ \A p \in PayoutIds, k \in Resolutions :
         payout[p].resolved[k] =
            Sum({q \in Approvals : approval[q].used /\ approval[q].payout = p /\ approval[q].kind = k},
                [q \in Approvals |-> approval[q].amount])

\* Seen from outside, a payout moves as PayoutLife says.
Life == INSTANCE PayoutLife WITH Payouts <- PayoutIds, life <- [p \in PayoutIds |-> payout[p].status]
MovesAsPromised == Life!Spec

(* What the repository says of credit and resolutions; the code disagrees.  *)

\* payouts.py: "A supplier's payout credit not yet used: supplier-credit
\* resolutions less what their payouts used": it is never used twice.
CreditNotOverspent == CreditAvailable >= 0

\* models.SettlementResolution: "No money moves (it left on its debit day)":
\* what is resolved was paid.
ResolvedWasPaid == \A p \in PayoutIds : Resolved(payout[p]) <= NetPaid(payout[p])
=============================================================================
