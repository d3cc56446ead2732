------------------------------- MODULE Stock -------------------------------
(***************************************************************************)
(* A supplier's listings, their stock balances and the buyers' holds on    *)
(* them: services.refresh_listing, release and reserve, and the stock and  *)
(* review handlers of main.py.                                             *)
(*                                                                         *)
(* Every handler takes the commerce lock first (services.commerce_lock)    *)
(* and ends in one commit or one rollback, so a handler is one action; a   *)
(* handler that fails after its refresh was committed (reserve, checkout)  *)
(* is an action of its own.  Time is what the code reads of it: whether a  *)
(* hold's expires_at has passed (hold.lapsed) and whether a listing's      *)
(* confirmation_due_at is still ahead (listing.confirmed).  Quantities are *)
(* whole units; an amount of money is a number of units at the agreed      *)
(* price.                                                                  *)
(***************************************************************************)
EXTENDS Integers, FiniteSets

CONSTANTS
    Listings,      \* listing ids
    Holds,         \* stock reservation ids
    Sales,         \* ids of sales a supplier records outside Omoterra
    Users,         \* buyers and suppliers
    SupplierOf,    \* Listing.supplier_id
    MaxTotal       \* bound on a listing's quantity_total

ASSUME StockAssumption ==
    /\ Listings # {} /\ IsFiniteSet(Listings)
    /\ Users # {} /\ SupplierOf \in [Listings -> Users]
    /\ IsFiniteSet(Holds) /\ IsFiniteSet(Sales)
    /\ MaxTotal \in Nat

VARIABLES
    supplier,   \* SupplierProfile.status of each supplier
    listing,    \* Listing
    hold,       \* StockReservation
    sale,       \* StockSale with source 'external', and its reversal
    standing    \* history: the staff's last decision on a listing as buyers see it

stockVars == <<supplier, listing, hold, sale, standing>>

Suppliers == {SupplierOf[l] : l \in Listings}

SupplierStatuses == {"none", "under_review", "approved", "rejected", "suspended"}

ListingStatuses ==
    {"none", "pending_review", "changes_requested", "live",
     "needs_confirmation", "paused", "sold_out", "rejected"}

HoldStatuses ==
    {"none", "active", "confirmed", "expired", "released", "cancelled"}

ListingRecord ==
    [status : ListingStatuses, approved : BOOLEAN, confirmed : BOOLEAN,
     total : Int, reserved : Int, sold : Int]

HoldRecord ==
    [status : HoldStatuses, listing : Listings, buyer : Users,
     quantity : 0..MaxTotal, lapsed : BOOLEAN]

SaleRecord ==
    [status : {"none", "recorded", "reversed"}, listing : Listings,
     quantity : 0..MaxTotal]

Standings == {"unreviewed", "approved", "paused", "rejected"}

StockTypeOK ==
    /\ supplier \in [Suppliers -> SupplierStatuses]
    /\ listing \in [Listings -> ListingRecord]
    /\ hold \in [Holds -> HoldRecord]
    /\ sale \in [Sales -> SaleRecord]
    /\ standing \in [Listings -> Standings]

NoListing == [status |-> "none", approved |-> FALSE, confirmed |-> FALSE,
              total |-> 0, reserved |-> 0, sold |-> 0]

NoHold == [status |-> "none", listing |-> CHOOSE l \in Listings : TRUE,
           buyer |-> CHOOSE u \in Users : TRUE, quantity |-> 0, lapsed |-> FALSE]

NoSale == [status |-> "none", listing |-> CHOOSE l \in Listings : TRUE,
           quantity |-> 0]

StockInit ==
    /\ supplier = [u \in Suppliers |-> "none"]
    /\ listing = [l \in Listings |-> NoListing]
    /\ hold = [h \in Holds |-> NoHold]
    /\ sale = [s \in Sales |-> NoSale]
    /\ standing = [l \in Listings |-> "unreviewed"]

-----------------------------------------------------------------------------
(* Helpers.                                                                *)

\* The sum of q over S, counted as the pairs <<id, unit>> it stands for.
Units(S, q) == {u \in S \X (1..MaxTotal) : u[2] <= q[u[1]]}
Sum(S, q) == Cardinality(Units(S, q))

HoldQuantity == [h \in Holds |-> hold[h].quantity]

Available(x) == x.total - x.reserved - x.sold

\* services.fresh: buyers may take from it now.
Fresh(x) == x.status = "live" /\ x.confirmed

\* The status of a listing that is on sale, or would be but for its age.
OnSale(x) == IF x.confirmed THEN "live" ELSE "needs_confirmation"

\* A sold-out listing that has stock again (the end of services.release).
Relisted(x) ==
    IF x.status = "sold_out" /\ Available(x) > 0
    THEN [x EXCEPT !.status = OnSale(x)] ELSE x

\* services.release of n units of listing x.
Freed(x, n) == Relisted([x EXCEPT !.reserved = @ - n])

\* main.stock_status, after a stock count, an addition or a sale.
StockStatus(x) ==
    IF x.status \in {"live", "sold_out"}
    THEN [x EXCEPT !.status = IF Available(x) = 0 THEN "sold_out" ELSE OnSale(x)]
    ELSE x

\* Mutant: the holds of orders expire too.
OverdueOrders(l) ==
    {h \in Holds : /\ hold[h].status \in {"active", "confirmed"}
                   /\ hold[h].listing = l /\ hold[h].lapsed}

Overdue(l) ==
    {h \in Holds : hold[h].status = "active" /\ hold[h].listing = l /\ hold[h].lapsed}

\* services.refresh_listing, of listing l in state x: expired holds give
\* their units back and a listing nobody confirmed in time is hidden.
Refreshed(l, x) ==
    LET y == IF Overdue(l) = {} THEN x ELSE Freed(x, Sum(Overdue(l), HoldQuantity))
    IN  IF y.status = "live" /\ ~y.confirmed
        THEN [y EXCEPT !.status = "needs_confirmation"] ELSE y

\* The holds S leave their listing with the given status.
Ended(holds, S, status) ==
    [h \in Holds |-> IF h \in S THEN [holds[h] EXCEPT !.status = status] ELSE holds[h]]

RefreshedHolds(l) == Ended(hold, Overdue(l), "expired")

\* services.release of hold h of listing l, taken after a refresh of l.
ReleaseAfterRefresh(h, l, status) ==
    /\ listing' = [listing EXCEPT ![l] = Freed(Refreshed(l, @), hold[h].quantity)]
    /\ hold' = Ended(RefreshedHolds(l), {h}, status)

-----------------------------------------------------------------------------
(* Suppliers.                                                              *)

\* A supplier sends, or sends again, the registration form.
Onboard(u) ==
    /\ supplier' = [supplier EXCEPT ![u] = "under_review"]
    /\ UNCHANGED <<listing, hold, sale, standing>>

\* Staff decide on a supplier; a suspension pauses the listings that are live.
DecideSupplier(u, status) ==
    /\ supplier[u] # "none"
    /\ supplier' = [supplier EXCEPT ![u] = status]
    /\ LET pulled == {l \in Listings : status = "suspended"
                                       /\ SupplierOf[l] = u /\ listing[l].status = "live"}
       IN  listing' = [l \in Listings |-> IF l \in pulled
                         THEN [listing[l] EXCEPT !.status = "paused"] ELSE listing[l]]
    /\ UNCHANGED <<hold, sale, standing>>

-----------------------------------------------------------------------------
(* Review and availability of a listing.                                   *)

AddStock(l, n) ==
    /\ listing[l].status = "none" /\ supplier[SupplierOf[l]] # "none"
    /\ listing' = [listing EXCEPT ![l] = [NoListing EXCEPT !.status = "pending_review", !.total = n]]
    /\ UNCHANGED <<supplier, hold, sale, standing>>

\* main.approve: whatever state the listing is in.
Approve(l) ==
    /\ listing[l].status # "none" /\ supplier[SupplierOf[l]] = "approved"
    /\ listing' = [listing EXCEPT ![l] =
          [@ EXCEPT !.status = "live", !.approved = TRUE, !.confirmed = TRUE]]
    /\ standing' = [standing EXCEPT ![l] = "approved"]
    /\ UNCHANGED <<supplier, hold, sale>>

RequestChanges(l) ==
    /\ listing[l].status = "pending_review"
    /\ listing' = [listing EXCEPT ![l] = [@ EXCEPT !.status = "changes_requested"]]
    /\ UNCHANGED <<supplier, hold, sale, standing>>

\* Staff resume stock that was paused.
Resume(l) ==
    /\ listing[l].status = "paused" /\ listing[l].approved
    /\ supplier[SupplierOf[l]] = "approved"
    /\ listing' = [listing EXCEPT ![l] = Refreshed(l,
          [@ EXCEPT !.status = IF Available(listing[l]) > 0 THEN "live" ELSE "sold_out"])]
    /\ hold' = RefreshedHolds(l)
    /\ standing' = [standing EXCEPT ![l] = "approved"]
    /\ UNCHANGED <<supplier, sale>>

\* Staff pause or reject a listing: checkout holds go, confirmed ones stay.
TakeDown(l, status) ==
    LET open == {h \in Holds : hold[h].status = "active" /\ hold[h].listing = l}
        x == listing[l]
    IN  /\ x.status # "none"
        /\ listing' = [listing EXCEPT ![l] =
              [x EXCEPT !.status = status, !.reserved = x.reserved - Sum(open, HoldQuantity)]]
        /\ hold' = Ended(hold, open, "released")
        /\ standing' = [standing EXCEPT ![l] = status]
        /\ UNCHANGED <<supplier, sale>>

Resubmit(l) ==
    /\ listing[l].status = "changes_requested" /\ supplier[SupplierOf[l]] # "suspended"
    /\ listing' = [listing EXCEPT ![l] = [Refreshed(l, @) EXCEPT !.status = "pending_review"]]
    /\ hold' = RefreshedHolds(l)
    /\ UNCHANGED <<supplier, sale, standing>>

\* The supplier pauses a listing.
Pause(l) ==
    /\ listing[l].approved
    /\ listing' = [listing EXCEPT ![l] = [Refreshed(l, @) EXCEPT !.status = "paused"]]
    /\ hold' = RefreshedHolds(l)
    /\ UNCHANGED <<supplier, sale, standing>>

\* The supplier confirms that a listing is still available.
Confirm(l) ==
    LET x == Refreshed(l, listing[l])
    IN  /\ x.approved /\ x.status # "rejected"
        /\ listing' = [listing EXCEPT ![l] = [x EXCEPT !.confirmed = TRUE,
              !.status = IF Available(x) > 0 THEN "live" ELSE "sold_out"]]
        /\ hold' = RefreshedHolds(l)
        /\ UNCHANGED <<supplier, sale, standing>>

\* "Everything is still available": every approved listing of the supplier
\* that is hidden for lack of confirmation (or soon will be) is live again.
ConfirmDue(u) ==
    LET asked == {l \in Listings : SupplierOf[l] = u /\ listing[l].approved
                                   /\ listing[l].status \in {"live", "needs_confirmation"}}
        after(l) == LET x == Refreshed(l, listing[l])
                    IN  IF x.status = "needs_confirmation" /\ Available(x) > 0
                        THEN [x EXCEPT !.status = "live", !.confirmed = TRUE] ELSE x
    IN  /\ listing' = [l \in Listings |-> IF l \in asked THEN after(l) ELSE listing[l]]
        /\ hold' = Ended(hold, UNION {Overdue(l) : l \in asked}, "expired")
        /\ UNCHANGED <<supplier, sale, standing>>

\* The supplier changes a listing's photos or video.
UpdateMedia(l) ==
    /\ listing[l].status \notin {"none", "rejected"}
    /\ listing[l].status = "changes_requested" \/ listing[l].approved
    /\ listing' = [listing EXCEPT ![l] = [@ EXCEPT !.status = "pending_review", !.approved = FALSE]]
    /\ standing' = [standing EXCEPT ![l] = "unreviewed"]
    /\ UNCHANGED <<supplier, hold, sale>>

-----------------------------------------------------------------------------
(* Stock counts and sales outside Omoterra.                                *)

\* Mutant: what was sold is forgotten.
CorrectStockForgetful(l, counted) ==
    LET x == Refreshed(l, listing[l])
    IN  /\ listing[l].status # "none"
        /\ counted >= x.reserved /\ counted # x.total
        /\ listing' = [listing EXCEPT ![l] = StockStatus([x EXCEPT !.total = counted])]
        /\ hold' = RefreshedHolds(l)
        /\ UNCHANGED <<supplier, sale, standing>>

CorrectStock(l, counted) ==
    LET x == Refreshed(l, listing[l])
    IN  /\ listing[l].status # "none"
        /\ counted >= x.reserved /\ counted + x.sold # x.total
        /\ counted + x.sold <= MaxTotal                       \* bound
        /\ listing' = [listing EXCEPT ![l] = StockStatus([x EXCEPT !.total = counted + x.sold])]
        /\ hold' = RefreshedHolds(l)
        /\ UNCHANGED <<supplier, sale, standing>>

AddToStock(l, n) ==
    LET x == Refreshed(l, listing[l])
    IN  /\ listing[l].status # "none"
        /\ x.total + n <= MaxTotal                            \* bound
        /\ listing' = [listing EXCEPT ![l] = StockStatus([x EXCEPT !.total = @ + n])]
        /\ hold' = RefreshedHolds(l)
        /\ UNCHANGED <<supplier, sale, standing>>

RecordSale(s, l, n) ==
    LET x == Refreshed(l, listing[l])
    IN  /\ listing[l].status # "none" /\ sale[s].status = "none"
        /\ n <= Available(x)
        /\ listing' = [listing EXCEPT ![l] = StockStatus([x EXCEPT !.sold = @ + n])]
        /\ hold' = RefreshedHolds(l)
        /\ sale' = [sale EXCEPT ![s] = [status |-> "recorded", listing |-> l, quantity |-> n]]
        /\ UNCHANGED <<supplier, standing>>

ReverseSale(s) ==
    LET l == sale[s].listing
        x == listing[l]
    IN  /\ sale[s].status = "recorded"
        /\ listing' = [listing EXCEPT ![l] = StockStatus([x EXCEPT !.sold = x.sold - sale[s].quantity])]
        /\ sale' = [sale EXCEPT ![s].status = "reversed"]
        /\ UNCHANGED <<supplier, hold, standing>>

-----------------------------------------------------------------------------
(* Holds.                                                                  *)

\* A read of a listing (browse, detail, the supplier's own stock, history),
\* or a reserve refused because the listing is not fresh: each refreshes it.
ReadListing(l) ==
    /\ listing[l].status # "none"
    /\ listing' = [listing EXCEPT ![l] = Refreshed(l, @)]
    /\ hold' = RefreshedHolds(l)
    /\ UNCHANGED <<supplier, sale, standing>>

Reserve(h, l, u, n) ==
    LET x == Refreshed(l, listing[l])
    IN  /\ hold[h].status = "none"
        /\ supplier[SupplierOf[l]] = "approved" /\ SupplierOf[l] # u
        /\ Fresh(x) /\ n <= Available(x)
        /\ listing' = [listing EXCEPT ![l] = [x EXCEPT !.reserved = @ + n]]
        /\ hold' = [RefreshedHolds(l) EXCEPT ![h] =
              [status |-> "active", listing |-> l, buyer |-> u, quantity |-> n, lapsed |-> FALSE]]
        /\ UNCHANGED <<supplier, sale, standing>>

\* The buyer looks at a hold; it goes if its listing is no longer on sale.
ReadReservation(h) ==
    LET l == hold[h].listing
    IN  /\ hold[h].status # "none"
        /\ IF hold[h].status = "active" /\ h \notin Overdue(l) /\ ~Fresh(Refreshed(l, listing[l]))
           THEN ReleaseAfterRefresh(h, l, "released")
           ELSE /\ listing' = [listing EXCEPT ![l] = Refreshed(l, @)]
                /\ hold' = RefreshedHolds(l)
        /\ UNCHANGED <<supplier, sale, standing>>

\* Mutant: a hold that ended gives its units back again.
ReleaseReservationAgain(h) ==
    /\ hold[h].status \notin {"none", "confirmed"}
    /\ listing' = [listing EXCEPT ![hold[h].listing] = Freed(@, hold[h].quantity)]
    /\ hold' = Ended(hold, {h}, "cancelled")
    /\ UNCHANGED <<supplier, sale, standing>>

\* The buyer gives a hold up (no refresh; a hold that ended stays as it is).
ReleaseReservation(h) ==
    /\ hold[h].status = "active"
    /\ listing' = [listing EXCEPT ![hold[h].listing] = Freed(@, hold[h].quantity)]
    /\ hold' = Ended(hold, {h}, "cancelled")
    /\ UNCHANGED <<supplier, sale, standing>>

-----------------------------------------------------------------------------
(* Time.                                                                   *)

\* expires_at stays on the hold when it is confirmed, and passes all the same.
HoldLapses(h) ==
    /\ hold[h].status \in {"active", "confirmed"} /\ ~hold[h].lapsed
    /\ hold' = [hold EXCEPT ![h].lapsed = TRUE]
    /\ UNCHANGED <<supplier, listing, sale, standing>>

ConfirmationLapses(l) ==
    /\ listing[l].confirmed
    /\ listing' = [listing EXCEPT ![l] = [@ EXCEPT !.confirmed = FALSE]]
    /\ UNCHANGED <<supplier, hold, sale, standing>>

StockNext ==
    \/ \E u \in Suppliers : \/ Onboard(u)
                            \/ ConfirmDue(u)
                            \/ \E st \in SupplierStatuses \ {"none"} : DecideSupplier(u, st)
    \/ \E l \in Listings :
         \/ Approve(l) \/ RequestChanges(l) \/ Resume(l) \/ Resubmit(l)
         \/ Pause(l) \/ Confirm(l) \/ UpdateMedia(l) \/ ReadListing(l)
         \/ ConfirmationLapses(l)
         \/ \E st \in {"paused", "rejected"} : TakeDown(l, st)
         \/ \E n \in 0..MaxTotal : CorrectStock(l, n)
         \/ \E n \in 1..MaxTotal : \/ AddStock(l, n) \/ AddToStock(l, n)
                                   \/ \E s \in Sales : RecordSale(s, l, n)
                                   \/ \E h \in Holds, u \in Users : Reserve(h, l, u, n)
    \/ \E s \in Sales : ReverseSale(s)
    \/ \E h \in Holds : ReadReservation(h) \/ ReleaseReservation(h) \/ HoldLapses(h)
=============================================================================
