---------------------------- MODULE PayoutsDesk -----------------------------
(* Payouts as people see them: what the settlement pages offer an admin, and
   what the portal asks the supplier.  A page decides from payouts.plan of the
   payout it was given; the backend plans again when the request comes. *)
EXTENDS Payouts

When(condition, requests) == IF condition THEN requests ELSE {}

-----------------------------------------------------------------------------
(* GET /ops/settlements/{id}: the settlement with its plan. *)

\* Mutant: the row's status is looked at before the supplier's answer.
BlockedPaidFirst(x) ==
    CASE x.status = "cancelled" -> "cancelled"
      [] x.status = "paid" -> "paid"
      [] x.status \notin {"cancelled", "paid"} /\ Unresolved(x) # {} -> "no"
      [] x.status \notin {"cancelled", "paid"} /\ Unresolved(x) = {} ->
            IF Limit(x) > 0 THEN "no" ELSE IF Credit(x) > 0 THEN "covered_by_credit" ELSE "paid"
(* payouts.plan: why nothing more may be sent. *)
Blocked(x) ==
    CASE x.status = "cancelled" -> "cancelled"
      [] x.status # "cancelled" /\ Unresolved(x) # {} -> "no"
      [] x.status # "cancelled" /\ Unresolved(x) = {} ->
            IF Limit(x) > 0 THEN "no" ELSE IF Credit(x) > 0 THEN "covered_by_credit" ELSE "paid"

(* SettlementDetail: the approvals kept with a payout. *)
ApprovalsOf(p, status) ==
    {q \in Approvals : approval[q].payout = p /\ approval[q].status = status /\ ~approval[q].used}
ToSend(p) == {q \in ApprovalsOf(p, "approved") : approval[q].kind \notin Resolutions}
ToResolve(p) == {q \in ApprovalsOf(p, "approved") : approval[q].kind \in Resolutions}

(* plan's approval_kind is that of the whole limit. *)
NeedsApproval(x) == ApprovalKind(x, Limit(x)) # "none"

-----------------------------------------------------------------------------
(* settlements/[id], as an admin sees it. *)

(* "Waiting for a second admin": their own request they can only withdraw. *)
WaitingPanel(p, a) ==
    {[kind |-> "decide", approval |-> q, by |-> a, as |-> "rejected"] : q \in ApprovalsOf(p, "pending")}
    \cup {[kind |-> "decide", approval |-> q, by |-> a, as |-> "approved"] :
            q \in {r \in ApprovalsOf(p, "pending") : approval[r].requester # a}}

(* "Send the payout" or "Send again": ask for approval of all that may be sent
   (acknowledging two outflows where one is unresolved), record what was sent,
   under one of the approvals if one is needed, or use the supplier's credit. *)
SendPanel(p) ==
    LET x == payout[p]
        ask == [kind |-> "ask", payout |-> p, amount |-> Limit(x), acknowledged |-> Unresolved(x) # {}]
        send(q, n) == [kind |-> "send", payout |-> p, amount |-> n, approval |-> q]
        open == Blocked(x) = "no"
    IN When(Blocked(x) = "covered_by_credit", {[kind |-> "use_credit", payout |-> p]})
       \cup When(open /\ NeedsApproval(x), {ask})
       \cup When(open /\ NeedsApproval(x), {send(q, approval[q].amount) : q \in ToSend(p)})
       \cup When(open /\ ~NeedsApproval(x), {send(Nil, Limit(x))})

(* "Possibly paid twice: resolve". *)
ResolvePanel(p) ==
    {[kind |-> "resolve", payout |-> p, approval |-> q] : q \in ToResolve(p)}
    \cup When(Exposure(payout[p]) > 0,
            {[kind |-> "ask_resolution", payout |-> p, as |-> k, amount |-> Exposure(payout[p])] : k \in Resolutions})

(* One attempt: mark one that was sent, and "Record a refund" up to what is kept. *)
AttemptCard(p, i) ==
    LET t == payout[p].attempts[i]
    IN When(t.state = "initiated", {[kind |-> "mark", payout |-> p, attempt |-> i, as |-> s] : s \in {"debited", "failed"}})
       \cup When(t.state = "debited",
            {[kind |-> "refund", payout |-> p, attempt |-> i, amount |-> n] : n \in 1..(t.amount - t.back)})

PayoutPanels(p) ==
    SendPanel(p) \cup ResolvePanel(p) \cup UNION {AttemptCard(p, i) : i \in DOMAIN payout[p].attempts}

(* Settlements: what its rows say of a payout. *)
RowStatus(x) ==
    CASE x.status = "paid" /\ x.answer = "received" -> "confirmed"
      [] x.status = "paid" /\ x.answer = "not_received" -> "not received"
      [] x.status = "paid" /\ x.answer = "none" -> "awaiting confirmation"
      [] x.status = "cancelled" -> "cancelled"
      [] x.status = "pending" -> IF Live(x) # {} /\ x.attempts[Max(Live(x))].state = "initiated" THEN "sent" ELSE "pending"

(* The payouts it fetches for its form: unpaid ones and ones reported as not
   received. *)
Due == {p \in PayoutIds : payout[p].status = "pending" \/ payout[p].answer = "not_received"}

(* "Record a payout": any amount for one of them, under no approval. *)
DueForm == {[kind |-> "send", payout |-> p, amount |-> n, approval |-> Nil] : p \in Due, n \in 1..MaxAmount}

-----------------------------------------------------------------------------
(* The supplier's portal. *)

(* main.supplier_payout shows a payout as paid once it is sent (payouts.sent). *)
ShownPaid(x) == x.status # "cancelled" /\ (x.status = "paid" \/ Live(x) # {})

(* SupplierPanel's toConfirm: what the supplier is asked about. *)
Asked == {p \in PayoutIds : payout[p].status # "none" /\ ShownPaid(payout[p]) /\ payout[p].answer # "received"}

(* PayoutList: the badge of a payout.  Only "pending" is read as not sent. *)
Badge(x) ==
    CASE ~ShownPaid(x) /\ x.status = "pending" -> "not sent yet"
      [] (ShownPaid(x) \/ x.status = "cancelled") /\ x.answer = "received" -> "received"
      [] (ShownPaid(x) \/ x.status = "cancelled") /\ x.answer = "not_received" -> "reported"
      [] (ShownPaid(x) \/ x.status = "cancelled") /\ x.answer = "none" -> "please confirm"

(* OrderList: under an order, the prompt or the note of its payout. *)
OrderNote(x) ==
    IF ShownPaid(x) /\ x.answer # "received" THEN "prompt"
    ELSE IF x.answer = "received" THEN "confirmed" ELSE "not sent yet"

-----------------------------------------------------------------------------
(* What the handlers make of a request. *)

Accepts(r) ==
    CASE r.kind = "decide" -> ENABLED Decide(r.approval, r.by, r.as)
      [] r.kind = "ask" -> \E q \in Approvals, a \in Admins :
            ENABLED RequestApproval(q, r.payout, r.amount, r.acknowledged, a)
      [] r.kind = "ask_resolution" -> \E q \in Approvals, a \in Admins :
            ENABLED RequestResolution(q, r.payout, r.as, r.amount, a)
      [] r.kind = "send" -> \E state \in {"initiated", "debited"} :
            ENABLED CreateAttempt(r.payout, r.amount, r.approval, state)
      [] r.kind = "use_credit" -> ENABLED SettleWithCredit(r.payout)
      [] r.kind = "resolve" -> ENABLED Resolve(r.payout, r.approval)
      [] r.kind = "mark" -> ENABLED Mark(r.payout, r.attempt, r.as)
      [] r.kind = "refund" -> ENABLED RecordRefund(r.payout, r.attempt, r.amount)

(* The model's bounds leave room for one more of everything on p. *)
Room(p) ==
    /\ \E q \in Approvals : approval[q].status = "none"
    /\ Len(payout[p].attempts) < MaxAttempts
    /\ payout[p].used + MaxAmount <= MaxCredit
    /\ \A k \in Resolutions : payout[p].resolved[k] + MaxAmount <= MaxCredit

-----------------------------------------------------------------------------
(* Properties. *)

(* An approval may have gone out of date by the time it is used: the payout now
   needs one of another kind, of less, or an acknowledgement it does not have. *)
OutOfDate(r) ==
    \/ r.kind = "send" /\ r.approval # Nil
    \/ r.kind = "resolve"
    \/ r.kind = "refund"

(* No payout is stuck, whatever was sent, failed, refunded, reported or
   resolved before: one that is unpaid, or has an attempt under way or reported as
   not received, offers a way to send money or to ask for it that the backend
   accepts, and the list offers it where no approval is needed; what its page
   offers is accepted unless it rests on an approval or a refund the payout has
   moved past; and the supplier is asked about a payout exactly when an answer
   is taken, and told on every page of theirs what the rows of the list say
   (settlements, SupplierPanel, supplier-orders.tsx; payouts.plan,
   create_attempt, settle_with_credit, confirm). *)
PayoutMovesOn ==
    \A p \in PayoutIds :
        LET x == payout[p]
            offers == PayoutPanels(p) \cup UNION {WaitingPanel(p, a) : a \in Admins}
            sends == {r \in SendPanel(p) : Accepts(r)}
        IN  Open(x) =>
              /\ Room(p) => \A r \in offers : OutOfDate(r) \/ Accepts(r)
              /\ Room(p) /\ (x.status = "pending" \/ Unresolved(x) # {}) => sends # {}
              /\ (\E r \in sends : r.kind = "send" /\ r.approval = Nil) => DueForm \cap sends # {}
              /\ RowStatus(x) \in {"sent", "awaiting confirmation", "not received"} /\ x.answer # "received" => p \in Asked
              /\ RowStatus(x) = "confirmed" => p \notin Asked
              /\ p \in Asked <=> ENABLED Confirm(p, "received")
              /\ p \in Asked <=> Badge(x) \in {"please confirm", "reported"}
              /\ p \in Asked <=> OrderNote(x) = "prompt"
              /\ OrderNote(x) = "not sent yet" => Badge(x) = "not sent yet" /\ RowStatus(x) = "pending"

(* "Paid in full. A new payout can be sent only if the supplier reports one as
   not received, a sent one fails, or money comes back" (settlements/[id]:115):
   whatever else happens, a payout that may not be sent again stays so.  A
   supplier's credit overspent by a payout delivered again is the exception. *)
PaidInFullIsFinal ==
    [][\A p \in PayoutIds :
        LET x == payout[p]
            y == payout'[p]
        IN x.status # "none" /\ Blocked(x) = "paid" /\ CreditAvailable >= 0 /\ CreditAvailable' >= 0
              /\ Blocked(x)' # "paid" =>
            \E i \in DOMAIN x.attempts :
               \/ y.attempts[i].answer = "not_received" /\ x.attempts[i].answer # "not_received"
               \/ y.attempts[i].state = "failed" /\ x.attempts[i].state # "failed"
               \/ y.attempts[i].back > x.attempts[i].back]_vars
=============================================================================
