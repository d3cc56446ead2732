------------------------------ MODULE Profiles ------------------------------
(***************************************************************************)
(* Supplier profiles: what a supplier and the staff write to them, the     *)
(* checks staff tick, and the review that leads to approval                *)
(* (main.py:86-205, 589-693, 2801-2902, 3026-3078 of the backend; the      *)
(* staff page, the member's panel and their actions on the site).          *)
(*                                                                         *)
(* A profile is cut in the parts that are written together.  The value of  *)
(* a part is the number of the save that wrote it, 0 while it is empty, so *)
(* that a part written back with an older value is told from a new one.    *)
(* The legal name, which every row has from the start, and the contact     *)
(* details, payout choice and farm pin, which no rule reads, are left out; *)
(* what saving them does to the rest is not.                               *)
(***************************************************************************)
EXTENDS Integers, FiniteSets

CONSTANTS
    Phones,    \* people, by phone number
    MaxSaves   \* bound on the saves that write a profile

ASSUME ProfilesAssumption == Phones # {} /\ MaxSaves \in Nat

VARIABLES
    profiles,  \* the profile of the account a phone has now
    saves,     \* saves so far
    desk       \* a card of a staff page, on its way

profileVars == <<profiles, saves, desk>>

\* Products are the categories with their capacity; production, the cycle, may
\* be left empty.
Parts == {"details", "products", "production", "pickup"}
Cards == {"details", "production", "pickup", "categories"}
\* Rejected and suspended suppliers are both stopped.
Statuses == {"new", "under_review", "approved", "stopped"}
Empty == [x \in Parts |-> 0]

\* No row, and one as it is created; checked: every check approval asks for is
\* ticked; approved are the parts staff approved, of a
\* supplier who still is.
NoProfile == [status |-> "none", parts |-> Empty, checked |-> FALSE, approved |-> Empty]
NewProfile == [NoProfile EXCEPT !.status = "new"]
HasProfile(p) == profiles[p].status # "none"

Profile == [status : Statuses \cup {"none"}, parts : [Parts -> 0..MaxSaves],
            checked : BOOLEAN, approved : [Parts -> 0..MaxSaves]]

NoOne == "no one"
ClosedDesk == [phone |-> NoOne, card |-> "none", copy |-> Empty]

\* The parts approval is about, and those a save of the whole profile must have.
Reviewed == {"details", "products", "production"}
Required == {"details", "pickup", "products"}
Filled(parts, xs) == \A x \in xs : parts[x] # 0
\* One more save: it stamps what it writes.
NextSave == saves + 1
Save == saves < MaxSaves /\ saves' = NextSave
Stamped(parts, xs) == [x \in Parts |-> IF x \in xs THEN NextSave ELSE parts[x]]

-----------------------------------------------------------------------------
(* What the handlers write. *)

\* Mutant: saving a profile again leaves an approved supplier approved.
AppliedInPlace(old, parts) ==
    [old EXCEPT !.status = IF @ = "approved" THEN @ ELSE "under_review", !.parts = parts]

\* The whole profile is written and is under review again.
Applied(old, parts) ==
    [old EXCEPT !.status = "under_review", !.parts = parts, !.approved = Empty]

\* A submission from the wizard or the app.
Without(parts, blank) == [parts EXCEPT !["production"] = IF blank THEN 0 ELSE @]
Submission(blank) == Without([x \in Parts |-> NextSave], blank)

\* save_farm_location and save_supplier_contact: the pickup address as the form
\* sent it, and the location is to be checked again if it moved.
PickupSaved(old, address, moved) ==
    [old EXCEPT !.parts["pickup"] = address, !.checked = @ /\ ~moved]

\* The two fields the first screens of the app send.
NamedOnly(old) ==
    [(IF old.status = "none" THEN NewProfile ELSE old)
        EXCEPT !.parts = Stamped(old.parts, {"pickup"})]

\* What ops_supplier_status asks before it approves.
Approvable(profile) ==
    /\ Filled(profile.parts, {"details", "pickup", "products"})
    /\ Filled(profile.parts, {"products", "production"})
    /\ profile.checked

\* What the staff page asks before it offers approval: every item of
\* approvalRequirements done.
CanApprove(profile) == profile.checked /\ Filled(profile.parts, Parts)

Decided(old, status) ==
    [old EXCEPT !.status = status,
                !.approved = IF status = "approved" THEN old.parts ELSE Empty]

-----------------------------------------------------------------------------
(* The staff page of a supplier. *)

Write(p, profile) == profiles' = [profiles EXCEPT ![p] = profile]

\* The parts a card has fields for, and the empty ones of other cards it must
\* also carry.
FieldsOf(card) ==
    IF card = "categories" THEN {"products"} ELSE {card}
Carried(parts, card) == FieldsOf(card) \cup {x \in Required : parts[x] = 0}

\* Saving a card first reads the profile (updateSupplierSection)...
ReadProfile(p, card) ==
    /\ HasProfile(p) /\ desk.phone = NoOne
    /\ desk' = [phone |-> p, card |-> card, copy |-> profiles[p].parts]
    /\ UNCHANGED <<profiles, saves>>

\* ...then writes all of it back, with the card's own fields in place.
WriteProfile(blank) ==
    LET p == desk.phone
        own == Carried(desk.copy, desk.card)
        sent == Without(Stamped(desk.copy, own), blank)
    IN /\ p # NoOne
       /\ blank => desk.card = "production"
       /\ Save
       /\ Write(p, Applied(profiles[p], sent))
       /\ desk' = ClosedDesk

\* The checklist posts every box, as it is ticked on the page.
SaveChecklist(p, all) ==
    /\ HasProfile(p)
    /\ Write(p, [profiles[p] EXCEPT !.checked = all])
    /\ UNCHANGED <<saves, desk>>

\* The status menu posts as soon as an option is chosen.  It has no entry for a
\* new profile, and shows its first one.
MenuStatuses == {"under_review", "approved", "stopped"}
Selected(status) == IF status \in MenuStatuses THEN status ELSE "under_review"

ChooseStatus(p, status) ==
    /\ HasProfile(p) /\ status \in MenuStatuses /\ status # Selected(profiles[p].status)
    /\ status = "approved" => CanApprove(profiles[p]) /\ Approvable(profiles[p])
    /\ Write(p, Decided(profiles[p], status))
    /\ UNCHANGED <<saves, desk>>

-----------------------------------------------------------------------------
(* The supplier, from the app. *)

MovePlace(p, moved) ==
    /\ HasProfile(p) /\ Save
    /\ Write(p, PickupSaved(profiles[p], NextSave, moved))
    /\ UNCHANGED desk

FirstPickupDetails(p) ==
    /\ Save
    /\ Write(p, NamedOnly(profiles[p]))
    /\ UNCHANGED desk

Submit(p, blank) ==
    /\ Save
    /\ Write(p, Applied(profiles[p], Submission(blank)))
    /\ UNCHANGED desk

\* Deleting the account: the supplier of the phone is gone.
Drop(p) ==
    /\ Write(p, NoProfile)
    /\ desk' = IF desk.phone = p THEN ClosedDesk ELSE desk
    /\ UNCHANGED saves

ProfilesInit ==
    /\ profiles = [p \in Phones |-> NoProfile]
    /\ saves = 0
    /\ desk = ClosedDesk

StaffNext ==
    \/ \E p \in Phones, card \in Cards : ReadProfile(p, card)
    \/ \E blank \in BOOLEAN : WriteProfile(blank)
    \/ \E p \in Phones, all \in BOOLEAN : SaveChecklist(p, all)
    \/ \E p \in Phones, status \in Statuses : ChooseStatus(p, status)

ProfilesTypeOK ==
    /\ profiles \in [Phones -> Profile]
    /\ saves \in 0..MaxSaves
    /\ desk \in [phone : Phones \cup {NoOne}, card : Cards \cup {"none"}, copy : [Parts -> 0..MaxSaves]]

\* An approved supplier sells under the details, the products and the capacity
\* that were there when they were approved: whoever changes one of them, the
\* supplier in the app or the wizard, or staff with a card whose copy may be
\* old, sends the profile back to review.  (The legal name and the pickup
\* address are not part of it: the app's first screens and the farm pin change
\* them in place.)
ApprovedAsReviewed ==
    \A p \in Phones : profiles[p].status = "approved" =>
        \A x \in Reviewed : profiles[p].parts[x] = profiles[p].approved[x]
=============================================================================
