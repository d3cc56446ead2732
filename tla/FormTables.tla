---------------------------- MODULE FormTables ----------------------------
(***************************************************************************)
(* How each write of the operations dashboard is made safe to send again:  *)
(* the server actions under lib/ and the forms of the pages that call      *)
(* them.  The backend keeps one answer per Idempotency-Key                 *)
(* (services.replay), so what matters of an action is where its key comes  *)
(* from, how many posts it makes, and whether the backend looks for a      *)
(* payment already recorded.                                               *)
(***************************************************************************)
EXTENDS Naturals, TLC

\* keeps: the key the form sends, else a new one; draws: a new key at every
\* submission; none: the request carries no key.
Policies == {"keeps", "draws", "none"}

\* key: the policy above.  guarded: the request carries a payment the backend
\* compares with those it has (duplicates.check_possible).  posts: how many
\* keyed posts one submission makes.  upload: a chosen file is stored first
\* and its new media id is part of the keyed request.
Profile == [key : Policies, guarded : BOOLEAN, posts : 1..2, upload : BOOLEAN]

Keeps == [key |-> "keeps", guarded |-> FALSE, posts |-> 1, upload |-> FALSE]
Draws == [Keeps EXCEPT !.key = "draws"]
NoKey == [Keeps EXCEPT !.key = "none"]
Payment == [Keeps EXCEPT !.guarded = TRUE]

----------------------------------------------------------------------------
(* Marketplace and supply: lib/actions.ts. *)

OrderActions ==
    [a \in {"approveListing", "reviewListing", "progressOrder",
            "uploadCollectionPhoto", "reconcilePayment", "paySettlement"} |-> Draws]

SourcingActions ==
    [a \in {"reserveForSourcing", "convertSourcing", "updateOpportunity"} |-> Draws]
    @@ [a \in {"updateSourcing"} |-> NoKey]

RequirementActions ==
    [a \in {"createRequirement", "setRequirementProgress", "createAllocationPlan",
            "reviewSupplyOffer", "updateAllocation", "verifyBatch"} |-> Draws]

BuyerActions ==
    [a \in {"createBuyerCRM", "updateBuyerCRM", "convertRequirementToOrder"} |-> Draws]

\* The photos of a new supplier are stored first, under keys of their own,
\* and their urls are part of the registration.
RegisterSupplier == [a \in {"createSupplier"} |-> [Draws EXCEPT !.upload = TRUE]]

SupplierActions ==
    [a \in {"updateSupplierStatus", "updateSupplierVerification",
            "updateSupplierSection"} |-> NoKey]

SupplierMediaActions ==
    [a \in {"addSupplierPhotos", "removeSupplierPhoto", "saveSupplierVideo",
            "deleteSupplierVideo"} |-> NoKey]

StaffActions == [a \in {"addOperator", "updateOperator", "setRatingHidden"} |-> NoKey]

\* lib/batch-stock-actions.ts.
BatchActions ==
    [a \in {"registerSupplierBatch", "receiveSupplierBatch", "recordSoldElsewhere",
            "closeSupplierBatch"} |-> Draws]

ReceiptActions ==
    [a \in {"correctReceipt", "returnToSupplier", "recordSupplierCreditNote",
            "recordDeliveryLoss"} |-> Keeps]
    @@ [a \in {"cancelDeliveryLoss"} |-> NoKey]

\* lib/payout-actions.ts.  The backend checks a payout's amount against what
\* is still payable, not against look-alikes.
PayoutActions ==
    [a \in {"recordPayoutAttempt", "requestPayoutApproval", "recordPayoutRefund",
            "requestPayoutResolution", "recordPayoutResolution",
            "useSupplierCredit"} |-> Keeps]
    @@ [a \in {"decidePayoutApproval", "markPayoutDebited", "markPayoutFailed"} |-> NoKey]

\* lib/market-actions.ts, market-price-actions.ts and market-portal-actions.ts.
MarketActions ==
    [a \in {"createMarketSlot", "setMarketSlotStatus", "reviewMarketReservation"} |-> Draws]
    @@ [a \in {"editMarketSlot"} |-> NoKey]

PriceActions ==
    [a \in {"publishMarketPrices"} |-> Keeps] @@ [a \in {"withdrawMarketPrices"} |-> Draws]

SupplierMarketActions ==
    [a \in {"requestMarketReservation", "cancelMarketReservation"} |-> Draws]

\* lib/portal-actions.ts.
PortalActions == [a \in {"saveSupplierContact", "confirmPayout"} |-> NoKey]

----------------------------------------------------------------------------
(* Finance: lib/finance-actions.ts and its siblings. *)

SaleActions == [a \in {"createSale"} |-> Keeps] @@ [a \in {"updateSale"} |-> NoKey]

DebtPayments ==
    [a \in {"recordLedgerPayment", "recordBuyerPayment", "recordSupplierPayment"} |-> Payment]

SupplierTransfer ==
    [a \in {"recordSupplierBatchPayment"} |-> [Payment EXCEPT !.upload = TRUE]]

\* A payment whose debt was never entered: the debt first, under the form's
\* key, then the payment under its payment_key.
UnlistedPayment ==
    [a \in {"recordUnlistedSupplierPayment"} |->
        [Payment EXCEPT !.posts = 2, !.upload = TRUE]]

LedgerCorrections ==
    [a \in {"reverseLedgerPayment", "applySupplierCredit", "correctTransferEntry",
            "cancelSale", "cancelDebt", "correctDebt"} |-> Keeps]
    @@ [a \in {"recordTransferRefund"} |-> Payment]

DebtEntry == [a \in {"createDebt", "createExpense"} |-> Keeps]

PromotionActions ==
    [a \in {"sendPromotion"} |-> Keeps]
    @@ [a \in {"retryPromotion", "addOptOut", "removeOptOut"} |-> NoKey]

\* lib/buyer-order-actions.ts.
BuyerOrderActions ==
    [a \in {"createBuyerOrder", "cancelBuyerOrder", "deliverBuyerOrder",
            "reverseOrderDelivery", "moveOrderDeposit"} |-> Keeps]
    @@ [a \in {"recordOrderDeposit", "refundOrderDeposit"} |-> Payment]
    @@ [a \in {"updateBuyerOrder", "voidOrderDeposit"} |-> NoKey]

\* lib/lpo-actions.ts; "updateLpo" is saveLpo given an id.
LpoActions ==
    [a \in {"saveLpo", "issueLpo", "receiveBatch", "recordLoss"} |-> Keeps]
    @@ [a \in {"uploadSignedCopy", "uploadMark"} |-> Draws]
    @@ [a \in {"updateLpo", "recordLpoAcceptance", "cancelReceipt", "cancelLoss",
               "extendLpo", "closeLpo"} |-> NoKey]

\* lib/lot-actions.ts and opening-stock-actions.ts.
LotActions ==
    [a \in {"recordStockCount", "recordOpeningLoss", "cancelLotAdjustment"} |-> Keeps]

OpeningStockActions ==
    [a \in {"recordOpeningStock", "cancelOpeningStock", "resolveCost"} |-> Keeps]

\* lib/account-actions.ts.
AccountActions ==
    [a \in {"createAccount", "transferBetweenAccounts", "recordAccountFee",
            "recordAccountCheck", "explainAccountCheck", "assignMovement",
            "resolvePreCutoff"} |-> Keeps]

\* lib/location-actions.ts; "settings" is its PUT.
LocationActions ==
    [a \in {"saveLocationForm"} |-> Keeps] @@ [a \in {"settings"} |-> NoKey]

ServerActions ==
    OrderActions @@ SourcingActions @@ RequirementActions @@ BuyerActions
    @@ RegisterSupplier @@ SupplierActions @@ SupplierMediaActions @@ StaffActions
    @@ BatchActions @@ ReceiptActions @@ PayoutActions @@ MarketActions
    @@ PriceActions @@ SupplierMarketActions @@ PortalActions @@ SaleActions
    @@ DebtPayments @@ SupplierTransfer @@ UnlistedPayment @@ LedgerCorrections
    @@ DebtEntry @@ PromotionActions @@ BuyerOrderActions @@ LpoActions
    @@ LotActions @@ OpeningStockActions @@ AccountActions @@ LocationActions

----------------------------------------------------------------------------
(* The forms.  at: where the form's key comes from: "page" (written by the *)
(* server into the form at every rendering), "form" (held by the component *)
(* until an answer says saved) or "absent".  stays: a lost connection to   *)
(* the dashboard leaves the form as it is; otherwise the page breaks and   *)
(* is loaded again.                                                        *)
(***************************************************************************)
On(at, stays, actions) == {[action |-> a, at |-> at, stays |-> stays] : a \in actions}

PagePosts(actions) == On("page", FALSE, actions)
HeldPosts(actions) == On("form", FALSE, actions)
Unkeyed(actions)   == On("absent", FALSE, actions)

SettlementForms ==
    PagePosts({"recordPayoutAttempt", "requestPayoutApproval", "useSupplierCredit",
               "recordPayoutResolution", "requestPayoutResolution",
               "recordPayoutRefund", "decidePayoutApproval", "markPayoutDebited",
               "markPayoutFailed"})

\* "Record a payout" of the list of settlements sends no key.
SettlementListForm == Unkeyed({"recordPayoutAttempt"})

CollectionForms ==
    PagePosts({"recordDeliveryLoss", "correctReceipt", "returnToSupplier",
               "recordSupplierCreditNote"})
    \cup Unkeyed({"cancelDeliveryLoss"})

BuyerOrderForms ==
    PagePosts({"refundOrderDeposit", "moveOrderDeposit", "recordOrderDeposit",
               "cancelBuyerOrder"})
    \cup Unkeyed({"voidOrderDeposit"})

SaleForms == PagePosts({"cancelSale", "resolveCost"})

SaleForm == HeldPosts({"createSale", "deliverBuyerOrder", "updateSale"})

BuyerOrderForm == HeldPosts({"createBuyerOrder", "updateBuyerOrder"})

OrderForms ==
    PagePosts({"reverseOrderDelivery"})
    \cup Unkeyed({"uploadCollectionPhoto", "reconcilePayment", "progressOrder"})

LpoForms ==
    PagePosts({"issueLpo", "receiveBatch", "recordLoss"})
    \cup Unkeyed({"cancelReceipt", "cancelLoss", "recordLpoAcceptance",
                  "uploadSignedCopy", "extendLpo", "closeLpo"})

LpoForm == HeldPosts({"saveLpo", "updateLpo"})

LedgerForms ==
    PagePosts({"reverseLedgerPayment", "recordLedgerPayment", "cancelDebt",
               "applySupplierCredit"})

CorrectionForms == PagePosts({"correctDebt"})

StatementForms == PagePosts({"recordTransferRefund", "correctTransferEntry"})

SupplierPaymentForms ==
    PagePosts({"recordUnlistedSupplierPayment", "recordSupplierBatchPayment"})

ReceivePaymentForm == PagePosts({"recordBuyerPayment"})

DebtDrawer == On("form", TRUE, {"createDebt"})

ExpenseDrawer == On("form", TRUE, {"createExpense"})

LocationForm == On("form", TRUE, {"saveLocationForm", "settings"})

OpeningStockForm == HeldPosts({"recordOpeningStock"})

OpeningStockPage == PagePosts({"cancelOpeningStock"})

LotForms == PagePosts({"cancelLotAdjustment", "recordStockCount", "recordOpeningLoss"})

AccountForms ==
    PagePosts({"transferBetweenAccounts", "resolvePreCutoff", "assignMovement",
               "createAccount"})

AccountPageForms ==
    PagePosts({"recordAccountCheck", "explainAccountCheck", "recordAccountFee"})

PromotionForms ==
    PagePosts({"sendPromotion"}) \cup Unkeyed({"addOptOut", "removeOptOut"})

PriceForms == PagePosts({"publishMarketPrices"})

\* The market page writes a key into its forms, which the action does not read.
MarketForms == PagePosts({"setMarketSlotStatus", "reviewMarketReservation"})

\* The supplier's answer to a payout and contact details: no catch.
PortalForms == Unkeyed({"confirmPayout", "saveSupplierContact"})

SourcingForms ==
    Unkeyed({"convertRequirementToOrder", "setRequirementProgress",
             "reviewSupplyOffer", "createAllocationPlan", "updateAllocation"})

ListingForms == Unkeyed({"approveListing", "reviewListing"})

SupplierBatchForms ==
    Unkeyed({"registerSupplierBatch", "recordSoldElsewhere", "closeSupplierBatch",
             "receiveSupplierBatch"})

VerificationForm == Unkeyed({"verifyBatch"})

Forms ==
    SettlementForms \cup SettlementListForm \cup CollectionForms
    \cup BuyerOrderForms \cup SaleForms \cup SaleForm \cup BuyerOrderForm
    \cup OrderForms \cup LpoForms \cup LpoForm \cup LedgerForms
    \cup CorrectionForms \cup StatementForms \cup SupplierPaymentForms
    \cup ReceivePaymentForm \cup DebtDrawer \cup ExpenseDrawer \cup LocationForm
    \cup OpeningStockForm \cup OpeningStockPage \cup LotForms \cup AccountForms
    \cup AccountPageForms \cup PromotionForms \cup PriceForms \cup MarketForms
    \cup PortalForms \cup SourcingForms \cup ListingForms
    \cup SupplierBatchForms \cup VerificationForm

\* Where the key of a submission comes from, given the action and its form.
KeySource(f) ==
    LET policy == ServerActions[f.action].key
    IN  CASE policy = "none" -> "none"
          [] policy = "keeps" /\ f.at # "absent" -> f.at
          [] OTHER -> "drawn"

\* All that a form's retries depend on.
Behaviour(f) ==
    LET profile == ServerActions[f.action]
    IN  [key |-> KeySource(f), stays |-> f.stays, guarded |-> profile.guarded,
         posts |-> profile.posts, upload |-> profile.upload]

============================================================================
