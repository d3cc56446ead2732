------------------------------- MODULE Demand -------------------------------
(***************************************************************************)
(* Managed demand: a buyer's requirement is secured by allocations that    *)
(* reserve birds on suppliers' batches (demand.py), becomes an app order   *)
(* when all of it is secured (main.convert_requirement_to_order), and      *)
(* follows that order until it is delivered, cancelled or reversed         *)
(* (services.advance, recognition.reverse_delivery).                       *)
(*                                                                         *)
(* An allocation's place is kept three times: in its own status, in the    *)
(* batch's reserved and current quantities, and in the requirement's       *)
(* status, computed from the allocations whose status counts as secured.   *)
(* The order's own goods, money and payout are in Orders: here an order is *)
(* its status, and what the payment would refuse is left open.  A request  *)
(* with several allocations is its allocations one after the other.        *)
(* Offers, categories and delivery details are left out.                   *)
(***************************************************************************)
EXTENDS Batches

CONSTANTS
    Requirements,   \* SourcingRequest ids
    Allocations,    \* DemandAllocation ids
    OrderIds,       \* Order ids
    Nil,            \* no order
    MaxNeeded       \* bound on the quantity of a requirement

ASSUME DemandAssumption ==
    /\ IsFiniteSet(Requirements) /\ Requirements # {}
    /\ IsFiniteSet(Allocations) /\ IsFiniteSet(OrderIds) /\ Nil \notin OrderIds
    /\ MaxNeeded \in Nat \ {0} /\ MaxNeeded <= MaxBirds

VARIABLES
    request,        \* SourcingRequest
    allocation,     \* DemandAllocation and what delivery notes filled of it
    order           \* the orders made from requirements

vars == <<batch, market, request, allocation, order>>

Needs == 1..MaxNeeded

\* "sourcing" is submitted or sourcing.
RequestStatuses ==
    {"none", "open", "sourcing", "supply_found", "partially_matched", "fully_matched",
     "confirmed", "fulfilling", "completed", "converted", "cancelled"}

Underway == {"supply_confirmed", "pickup_scheduled", "collected", "quality_checked", "in_transit"}
Closing == {"cancelled", "payment_failed"}

\* Either way an order closes, it is "cancelled".
OrderStatuses == {"none", "reserved", "delivered", "completed", "cancelled"} \cup Underway

Transitions(status) ==
    CASE status = "reserved" -> {"supply_confirmed", "pickup_scheduled"} \cup Closing
      [] status = "supply_confirmed" -> {"pickup_scheduled"} \cup Closing
      [] status = "pickup_scheduled" -> {"collected"} \cup Closing
      [] status = "collected" -> {"quality_checked"} \cup Closing
      [] status = "quality_checked" -> {"in_transit"} \cup Closing
      [] status = "in_transit" -> {"delivered"} \cup Closing
      [] status = "delivered" -> {"completed"}
      [] OTHER -> {}

\* demand.SECURED_ALLOCATION_STATES, of those some handler writes.  The other
\* statuses an order under way writes count for nothing: all are "passed".
SecuredStates == {"reserved", "supplier_confirmed", "collected"}

AllocationStatuses == {"none", "passed", "cancelled"} \cup SecuredStates

RequestRecord ==
    [status : RequestStatuses, quantity : 0..MaxNeeded, order : OrderIds \cup {Nil}]

AllocationRecord ==
    [status : AllocationStatuses,
     request : Requirements, batch : BatchIds, quantity : 0..MaxNeeded,
     listed : BOOLEAN, filled : 0..MaxNeeded]

OrderRecord == [status : OrderStatuses, request : Requirements]

NewAllocation(status, r, b, q) ==
    [status |-> status, request |-> r, batch |-> b, quantity |-> q,
     listed |-> FALSE, filled |-> 0]

NewOrder(status, r) == [status |-> status, request |-> r]

Init ==
    /\ BatchesInit
    /\ request = [r \in Requirements |-> [status |-> "none", quantity |-> 0, order |-> Nil]]
    /\ allocation = [a \in Allocations |->
          NewAllocation("none", CHOOSE r \in Requirements : TRUE, CHOOSE b \in BatchIds : TRUE, 0)]
    /\ order = [o \in OrderIds |-> NewOrder("none", CHOOSE r \in Requirements : TRUE)]

-----------------------------------------------------------------------------
(* Figures, over any value x of allocation.                                *)

Of(x, r) == {a \in Allocations : x[a].status # "none" /\ x[a].request = r}
Active(x, r) == {a \in Of(x, r) : x[a].status \in SecuredStates}

Sum(S, n) == Cardinality({u \in S \X Quantities : u[2] <= n[u[1]]})

Quantity == [a \in Allocations |-> allocation[a].quantity]

Secured(x, r) == Sum(Active(x, r), [a \in Allocations |-> x[a].quantity])

Remaining(r) == Positive(request[r].quantity - Secured(allocation, r))

\* Mutant: any secured allocation holds birds, those of an order too.
OutstandingEvenOrdered(a) ==
    IF allocation[a].status \in SecuredStates
    THEN Positive(allocation[a].quantity - allocation[a].filled) ELSE 0

\* Held on the batch and not yet filled: once an order has the birds, nothing.
OutstandingAllocation(a) ==
    IF allocation[a].status = "reserved" /\ ~ allocation[a].listed
    THEN Positive(allocation[a].quantity - allocation[a].filled) ELSE 0

Held(b, S) ==
    Sum({a \in S : allocation[a].batch = b}, [a \in Allocations |-> OutstandingAllocation(a)])

\* refresh_demand_status: closed stays closed, else as much as x secures.
Refreshed(q, x, r) ==
    [q EXCEPT !.status =
        IF @ \in {"cancelled", "completed"} THEN @
        ELSE IF Secured(x, r) = 0 THEN "open"
        ELSE IF Secured(x, r) < q.quantity THEN "partially_matched"
        ELSE "fully_matched"]

Reopened(x) ==
    IF x.status = "fully_reserved" /\ Available(x) > 0 THEN [x EXCEPT !.status = "open"] ELSE x

IsRequest(r) == request[r].status # "none"

-----------------------------------------------------------------------------
(* The requirement.                                                        *)

CreateRequirement(r, q) ==
    /\ ~ IsRequest(r)
    /\ request' = [request EXCEPT ![r].status = "open", ![r].quantity = q]
    /\ UNCHANGED <<batch, market, allocation, order>>

EditRequest(r, q) ==
    /\ request[r].status \in {"open", "sourcing"}
    /\ Secured(allocation, r) = 0
    /\ request' = [request EXCEPT ![r].quantity = q]
    /\ UNCHANGED <<batch, market, allocation, order>>

\* The status staff write by hand on the older screen.
SourceProgress(r, status) ==
    /\ IsRequest(r) /\ request[r].status \notin {"converted", "cancelled"}
    /\ request' = [request EXCEPT ![r].status = status]
    /\ UNCHANGED <<batch, market, allocation, order>>

Allowed(status) ==
    CASE status = "confirmed" -> {"fulfilling", "cancelled"}
      [] status = "fulfilling" -> {"completed", "cancelled"}
      [] status \in {"completed", "cancelled", "converted"} -> {}
      [] OTHER -> {"confirmed", "cancelled"}

\* Cancel every secured allocation of r, one after the other.
CancelAllocations(r) ==
    LET released == Active(allocation, r) IN
    /\ batch' = [b \in BatchIds |->
          IF \E a \in released : allocation[a].batch = b
          THEN Reopened([batch[b] EXCEPT !.reserved = @ - Held(b, released)]) ELSE batch[b]]
    /\ \A b \in BatchIds : Stores(batch'[b])
    /\ allocation' = [a \in Allocations |->
          IF a \in released THEN [allocation[a] EXCEPT !.status = "cancelled"] ELSE allocation[a]]

UpdateRequirementProgress(r, status) ==
    /\ IsRequest(r)
    /\ status = request[r].status \/ status \in Allowed(request[r].status)
    /\ status = "confirmed" => Secured(allocation, r) >= request[r].quantity
    /\ IF status = "cancelled" THEN CancelAllocations(r) ELSE UNCHANGED <<batch, allocation>>
    /\ request' = [request EXCEPT ![r].status = status]
    /\ UNCHANGED <<market, order>>

\* By its buyer.
CancelRequirement(r) ==
    /\ IsRequest(r) /\ request[r].status \notin {"completed", "cancelled"}
    /\ CancelAllocations(r)
    /\ request' = [request EXCEPT ![r].status = "cancelled"]
    /\ UNCHANGED <<market, order>>

-----------------------------------------------------------------------------
(* Its allocations.                                                        *)

AllocationCreate(a, r, b, q) ==
    LET x == [batch[b] EXCEPT !.reserved = @ + q]
        after == [allocation EXCEPT ![a] = NewAllocation("reserved", r, b, q)] IN
    /\ allocation[a].status = "none"
    /\ IsRequest(r) /\ request[r].status \notin {"cancelled", "completed"}
    /\ Exists(b) /\ batch[b].approved
    /\ q <= Remaining(r)
    /\ q <= Available(batch[b])
    /\ Save(b, [x EXCEPT !.status = IF Available(x) <= 0 THEN "fully_reserved" ELSE "open"])
    /\ allocation' = after
    /\ request' = [request EXCEPT ![r] = Refreshed(@, after, r)]
    /\ UNCHANGED <<market, order>>

\* A cancellation of one no longer secured changes nothing but the status it refreshes.
AllocationCancel(a) ==
    LET r == allocation[a].request
        b == allocation[a].batch
        active == allocation[a].status \in SecuredStates
        after == IF active THEN [allocation EXCEPT ![a].status = "cancelled"] ELSE allocation IN
    /\ allocation[a].status # "none"
    /\ Save(b, Reopened([batch[b] EXCEPT
                  !.reserved = IF active THEN @ - OutstandingAllocation(a) ELSE @]))
    /\ allocation' = after
    /\ request' = [request EXCEPT ![r] = Refreshed(@, after, r)]
    /\ UNCHANGED <<market, order>>

AllocationReduce(a, q) ==
    LET r == allocation[a].request
        b == allocation[a].batch
        after == [allocation EXCEPT ![a].quantity = q] IN
    /\ allocation[a].status \in SecuredStates
    /\ q <= allocation[a].quantity
    /\ q >= allocation[a].filled
    /\ Save(b, Reopened([batch[b] EXCEPT !.reserved = @ + q - allocation[a].quantity]))
    /\ allocation' = after
    /\ request' = [request EXCEPT ![r] = Refreshed(@, after, r)]
    /\ UNCHANGED <<market, order>>

\* A delivery note received against the allocation.
ReceiveForAllocation(a, q) ==
    LET f == Least(q, OutstandingAllocation(a)) IN
    /\ OutstandingAllocation(a) > 0
    /\ ReceiveSupplierStock(allocation[a].batch, q, f)
    /\ allocation' = [allocation EXCEPT ![a].filled = @ + f]
    /\ UNCHANGED <<market, request, order>>

-----------------------------------------------------------------------------
(* Its order.                                                              *)

Ordered(r) == {a \in Of(allocation, r) : allocation[a].status = "reserved"}

\* All of it is reserved, on batches cleared and ready: the birds leave the
\* batches for listings made for the order.
ConvertRequirement(r, o) ==
    LET take == Ordered(r)
        Taken(b) == Sum({a \in take : allocation[a].batch = b}, Quantity) IN
    /\ order[o].status = "none"
    /\ request[r].status = "confirmed" /\ request[r].order = Nil
    /\ take # {} /\ Sum(take, Quantity) = request[r].quantity
    /\ \A a \in take :
          /\ batch[allocation[a].batch].approved /\ batch[allocation[a].batch].cleared
          /\ batch[allocation[a].batch].reserved >= allocation[a].quantity
          /\ allocation[a].filled = 0
    /\ batch' = [b \in BatchIds |->
          [batch[b] EXCEPT !.current = @ - Taken(b), !.reserved = @ - Taken(b)]]
    /\ \A b \in BatchIds : Stores(batch'[b])
    /\ allocation' = [a \in Allocations |->
          IF a \in take THEN [allocation[a] EXCEPT !.status = "supplier_confirmed", !.listed = TRUE]
          ELSE allocation[a]]
    /\ request' = [request EXCEPT ![r].status = "fulfilling", ![r].order = o]
    /\ order' = [order EXCEPT ![o] = NewOrder("reserved", r)]
    /\ UNCHANGED market

\* Mutant: a requirement with an order becomes another.
ConvertHoldAgain(r, o) ==
    /\ order[o].status = "none"
    /\ request[r].status = "confirmed"
    /\ request' = [request EXCEPT ![r].status = "converted", ![r].order = o]
    /\ order' = [order EXCEPT ![o] = NewOrder("reserved", r)]
    /\ UNCHANGED <<batch, market, allocation>>

\* The older way: the buyer's own hold on a listing becomes the order.
ConvertHold(r, o) ==
    /\ order[o].status = "none"
    /\ request[r].status = "confirmed" /\ request[r].order = Nil
    /\ request' = [request EXCEPT ![r].status = "converted", ![r].order = o]
    /\ order' = [order EXCEPT ![o] = NewOrder("reserved", r)]
    /\ UNCHANGED <<batch, market, allocation>>

\* A cancelled order gives the secured allocations' birds back to their batches.
GiveBack(r) ==
    LET back == Active(allocation, r)
        after == [a \in Allocations |->
            IF a \in back THEN [allocation[a] EXCEPT !.status = "cancelled"] ELSE allocation[a]] IN
    /\ batch' = [b \in BatchIds |->
          IF \E a \in back : allocation[a].batch = b
          THEN [batch[b] EXCEPT !.status = "open",
                  !.current = @ + Sum({a \in back : allocation[a].batch = b}, Quantity)]
          ELSE batch[b]]
    /\ \A b \in BatchIds : batch'[b].current <= MaxCurrent
    /\ allocation' = after
    /\ request' = [request EXCEPT ![r] = Refreshed([@ EXCEPT !.order = Nil], after, r)]

\* An order under way writes its status into the secured allocations.
Follow(r, target) ==
    /\ allocation' = [a \in Allocations |->
          IF a \in Active(allocation, r)
          THEN [allocation[a] EXCEPT !.status =
                  IF target \in SecuredStates THEN target ELSE "passed"]
          ELSE allocation[a]]
    /\ request' = [request EXCEPT ![r].status = "fulfilling"]
    /\ UNCHANGED batch

Advance(o, target) ==
    LET r == order[o].request IN
    /\ target \in Transitions(order[o].status)
    /\ order' = [order EXCEPT ![o].status = IF target \in Closing THEN "cancelled" ELSE target]
    /\ \/ target = "cancelled" /\ GiveBack(r)
       \/ target \in Underway /\ Follow(r, target)
       \/ /\ target \in {"delivered", "completed"}
          /\ request' = [request EXCEPT ![r].status = "completed"]
          /\ UNCHANGED <<batch, allocation>>
       \/ target = "payment_failed" /\ UNCHANGED <<batch, allocation, request>>
    /\ UNCHANGED market

\* A delivery taken back: reopened, or returned by the buyer.
ReverseDelivery(o, kind) ==
    LET r == order[o].request IN
    /\ order[o].status \in {"delivered", "completed"}
    /\ order' = [order EXCEPT ![o].status = IF kind = "reopen" THEN "in_transit" ELSE "cancelled"]
    /\ request' = IF kind = "reopen" /\ request[r].status = "completed"
                  THEN [request EXCEPT ![r].status = "fulfilling"] ELSE request
    /\ UNCHANGED <<batch, market, allocation>>

Next ==
    \/ BatchesNext /\ UNCHANGED <<request, allocation, order>>
    \/ \E r \in Requirements :
          \/ \E q \in Needs : CreateRequirement(r, q) \/ EditRequest(r, q)
          \/ \E status \in {"sourcing", "supply_found", "confirmed", "cancelled"} :
                SourceProgress(r, status)
          \/ \E status \in {"confirmed", "fulfilling", "completed", "cancelled"} :
                UpdateRequirementProgress(r, status)
          \/ CancelRequirement(r)
          \/ \E o \in OrderIds : ConvertRequirement(r, o) \/ ConvertHold(r, o)
    \/ \E a \in Allocations :
          \/ \E r \in Requirements, b \in BatchIds, q \in Needs : AllocationCreate(a, r, b, q)
          \/ \E q \in Needs : AllocationReduce(a, q)
          \/ \E q \in Quantities : ReceiveForAllocation(a, q)
          \/ AllocationCancel(a)
    \/ \E o \in OrderIds :
          \/ \E target \in Underway \cup Closing \cup {"delivered", "completed"} : Advance(o, target)
          \/ \E kind \in {"reopen", "return"} : ReverseDelivery(o, kind)

Spec == Init /\ [][Next]_vars

-----------------------------------------------------------------------------
TypeOK ==
    /\ BatchesTypeOK
    /\ request \in [Requirements -> RequestRecord]
    /\ allocation \in [Allocations -> AllocationRecord]
    /\ order \in [OrderIds -> OrderRecord]

(* While no order was made from the requirements of a batch's allocations, *)
(* the batch's reserved quantity is exactly what its allocations and its   *)
(* market reservations still hold: each release gives back what notes have *)
(* not filled, once, and no bird stays reserved for nobody or is promised  *)
(* again (demand.allocation_update, market_schedule._release_batch).  Once *)
(* ordered, a reduction of the allocation breaks this (the README has how).*)
AllOutstanding(b) ==
    Held(b, Allocations)
      + Sum({k \in MarketIds : market[k].batch = b}, [k \in MarketIds |-> Outstanding(k)])

Untouched(b) ==
    \A a \in Allocations, o \in OrderIds :
        ~ (allocation[a].status # "none" /\ allocation[a].batch = b
             /\ order[o].status # "none" /\ order[o].request = allocation[a].request)

ReservedUntilOrdered ==
    \A b \in BatchIds : Untouched(b) => batch[b].reserved = AllOutstanding(b)

(* A requirement that reads as matched is matched: wholly or in part, as   *)
(* its secured allocations add up.  Suppliers offer and staff confirm on   *)
(* this status, and allocations change under it from orders, cancellations *)
(* and reductions (demand.refresh_demand_status).                          *)
MatchedIsSecured ==
    \A r \in Requirements :
        LET secured == Secured(allocation, r) IN
        /\ request[r].status = "fully_matched" => secured >= request[r].quantity
        /\ request[r].status = "partially_matched" =>
              secured > 0 /\ secured < request[r].quantity

(* A requirement has at most one order going on, and it is the one the     *)
(* requirement names: a requirement whose order was cancelled can become   *)
(* an order again, and never while another is on its way                   *)
(* (main.convert_requirement_to_order, services.advance).                  *)
GoingOn(o) == order[o].status \notin {"none", "cancelled"}

OneLiveOrder ==
    \A o \in OrderIds : GoingOn(o) => request[order[o].request].order = o

(* Birds received on a delivery note are never also ordered through the    *)
(* app, and notes never fill more than the allocation holds, whatever is   *)
(* reduced, converted and received in between                              *)
(* (batch_stock._fill_commitment, main.convert_requirement_to_order).      *)
ReceivedOrOrdered ==
    \A a \in Allocations :
        /\ allocation[a].filled > 0 => ~ allocation[a].listed
        /\ allocation[a].filled <= allocation[a].quantity

(* What is allocated to a requirement, in an order of it or still secured, *)
(* never exceeds what the buyer asked for (demand.allocation_create).      *)
Promised(r) ==
    {a \in Of(allocation, r) :
        \/ allocation[a].status \in SecuredStates
        \/ allocation[a].listed /\ allocation[a].status # "cancelled"}

AllocatedWithinRequirement ==
    \A r \in Requirements :
        Sum(Promised(r), Quantity) <= request[r].quantity
=============================================================================
