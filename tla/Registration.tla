---------------------------- MODULE Registration ----------------------------
(***************************************************************************)
(* Members on the website: the two registration wizards, PIN sign-in and   *)
(* reset, and the account page (components/register, lib/registration.ts,  *)
(* app/(public)), with the member routes behind them, beside the app the   *)
(* same person may use and the staff who review them (Profiles).           *)
(*                                                                         *)
(* A browser is one tab and its cookies: the challenge of a texted code    *)
(* and the member's session.  A session names the account it was given     *)
(* for; deleting the account ends it while the cookie stays.               *)
(***************************************************************************)
EXTENDS Profiles

CONSTANTS
    Browsers,
    MaxAccounts   \* bound on the accounts one phone has, one after another

ASSUME RegistrationAssumption == Browsers # {} /\ MaxAccounts \in Nat

VARIABLES
    accounts,  \* of each phone
    codes,     \* the browser that holds the live code of a phone
    cookies,   \* of each browser
    tabs       \* of each browser

memberVars == <<profiles, saves, desk, accounts, codes, cookies, tabs>>

Wizards == {"buyer", "supplier"}
Pages == Wizards \cup {"reset", "login", "account", "change pin"}
Kinds == {"pickup", "other"}

\* id counts the accounts the phone has had; exists says whether it has one.
AccountRecord == [id : 0..MaxAccounts, exists : BOOLEAN, roles : SUBSET Wizards, pin : BOOLEAN]
NoAccount == [id |-> 0, exists |-> FALSE, roles |-> {}, pin |-> FALSE]
NoSession == [phone |-> NoOne, id |-> 0]
NoCookies == [challenge |-> NoOne, session |-> NoSession]

\* seen is the pickup address a supplier's account page was rendered with.  What
\* an error says is left out: a refused step leaves its form as it was.
Tab == [page : Pages, stage : {"phone", "code", "pin", "done"},
        step : {"account", "details", "review"}, verified : Phones \cup {NoOne},
        registered : BOOLEAN, result : {"none", "registered", "existing"},
        seen : 0..MaxSaves]
Fresh(page) == [page |-> page, stage |-> "phone", step |-> "account", verified |-> NoOne,
                registered |-> FALSE, result |-> "none", seen |-> 0]

\* Every variable has its type, and only suppliers have a profile (the supplier
\* routes read the role, the staff pages the profile).
MembersTypeOK ==
    /\ ProfilesTypeOK
    /\ accounts \in [Phones -> AccountRecord]
    /\ codes \in [Phones -> Browsers \cup {NoOne}]
    /\ cookies \in [Browsers -> [challenge : Phones \cup {NoOne},
                                 session : [phone : Phones \cup {NoOne}, id : 0..MaxAccounts]]]
    /\ tabs \in [Browsers -> Tab]
    /\ \A p \in Phones : HasProfile(p) => "supplier" \in accounts[p].roles

\* auth.current_user: the session is one of the account the phone has now.
InForce(session) ==
    session # NoSession /\ accounts[session.phone].exists
        /\ accounts[session.phone].id = session.id
Me(b) == cookies[b].session.phone

Show(b, tab) == tabs' = [tabs EXCEPT ![b] = tab]
SetAccount(p, account) == accounts' = [accounts EXCEPT ![p] = account]
SetCookies(b, jar) == cookies' = [cookies EXCEPT ![b] = jar]
OnlyShow(b, tab) == Show(b, tab) /\ UNCHANGED <<profileVars, accounts, codes, cookies>>

\* The account a verified code signs in to, created if the phone has none.
MemberOf(p) ==
    IF accounts[p].exists THEN accounts[p]
    ELSE [id |-> accounts[p].id + 1, exists |-> TRUE, roles |-> {}, pin |-> FALSE]

\* The account page: the supplier's panel, or the member's roles; without a
\* session in force it leads to the login page.
AccountPage(session, profile) ==
    IF ~InForce(session) THEN Fresh("login")
    ELSE [Fresh("account") EXCEPT !.seen =
            IF "supplier" \in accounts[session.phone].roles THEN profile.parts["pickup"] ELSE 0]
PageOf(b, page) ==
    IF page # "account" THEN Fresh(page)
    ELSE IF cookies[b].session = NoSession THEN Fresh("login")
         ELSE AccountPage(cookies[b].session, profiles[Me(b)])

Visit(b, page) ==
    /\ tabs[b] # PageOf(b, page)
    /\ OnlyShow(b, PageOf(b, page))

-----------------------------------------------------------------------------
(* The account step of a wizard, and the PIN reset: a code, then a PIN. *)

AtAccountStep(b) ==
    tabs[b].page \in Wizards \cup {"reset"} /\ tabs[b].step = "account" /\ tabs[b].result = "none"

InWizard(b, step) == tabs[b].page \in Wizards /\ tabs[b].step = step /\ tabs[b].result = "none"

\* sendCode: a new code ends the one the phone had.  The code step sends again
\* to the number of the phone step.
Send(b, p) ==
    /\ AtAccountStep(b)
    /\ \/ tabs[b].stage = "phone"
       \/ tabs[b].stage = "code" /\ tabs[b].verified = p
    /\ codes' = [codes EXCEPT ![p] = b]
    /\ SetCookies(b, [cookies[b] EXCEPT !.challenge = p])
    /\ Show(b, [tabs[b] EXCEPT !.stage = "code", !.verified = p])
    /\ UNCHANGED <<profileVars, accounts>>

\* Where the wizard goes once the account step is through.
Advanced(tab) ==
    CASE tab.page = "reset" -> Fresh("account")
      [] tab.page # "reset" /\ tab.registered ->
            [tab EXCEPT !.stage = "done", !.result = "existing"]
      [] OTHER -> [tab EXCEPT !.stage = "done", !.step = "details"]

\* Mutant: any supplier profile counts as registered, also the one the app
\* made when the role was added.
AlreadyRegisteredUnfinished(tab, member, profile) ==
    tab.page \in member.roles /\ (tab.page = "supplier" => profile.status # "none")

\* verifyCode: whether there is nothing left to register.  A supplier profile
\* that was never submitted may still be completed.
AlreadyRegistered(tab, member, profile) ==
    tab.page \in member.roles /\ (tab.page = "supplier" => profile.status \notin {"none", "new"})

\* The account step after a good code: without a PIN one is made first, and a
\* reset always makes one.
Confirmed(tab, p, member) ==
    LET known == [tab EXCEPT !.verified = p,
                             !.registered = AlreadyRegistered(tab, member, profiles[p])]
    IN IF tab.page = "reset" \/ ~member.pin THEN [known EXCEPT !.stage = "pin"]
       ELSE Advanced(known)

EnterCode(b) ==
    LET p == cookies[b].challenge
        member == MemberOf(p)
    IN /\ AtAccountStep(b) /\ tabs[b].stage = "code"
       /\ p # NoOne /\ codes[p] = b /\ member.id <= MaxAccounts
       /\ codes' = [codes EXCEPT ![p] = NoOne]
       /\ SetAccount(p, member)
       /\ SetCookies(b, [challenge |-> NoOne, session |-> [phone |-> p, id |-> member.id]])
       /\ Show(b, Confirmed(tabs[b], p, member))
       /\ UNCHANGED profileVars

\* The code was good and the session is stored, but the read of the supplier
\* profile after it fails: the visitor is still asked for the code, and it is
\* spent.
ReadCutShort(b) ==
    LET p == cookies[b].challenge
        member == MemberOf(p)
    IN /\ AtAccountStep(b) /\ tabs[b].stage = "code" /\ tabs[b].page = "supplier"
       /\ p # NoOne /\ codes[p] = b /\ "supplier" \in member.roles
       /\ codes' = [codes EXCEPT ![p] = NoOne]
       /\ SetCookies(b, [challenge |-> NoOne, session |-> [phone |-> p, id |-> member.id]])
       /\ UNCHANGED <<profileVars, accounts, tabs>>

\* change, also as restart: back to the phone step of the account.
Restarted(tab) ==
    [tab EXCEPT !.stage = "phone", !.verified = NoOne, !.registered = FALSE, !.step = "account"]
ChangeNumber(b) ==
    /\ AtAccountStep(b) /\ tabs[b].stage \in {"code", "done"}
    /\ OnlyShow(b, Restarted(tabs[b]))

SavePin(b) ==
    LET p == Me(b)
    IN /\ AtAccountStep(b) /\ tabs[b].stage = "pin"
       /\ InForce(cookies[b].session)
       /\ SetAccount(p, [accounts[p] EXCEPT !.pin = TRUE])
       /\ Show(b, Advanced(tabs[b]))
       /\ UNCHANGED <<profileVars, codes, cookies>>

\* Without the cookie the visitor confirms the number again.  (A session that
\* ended is an error of the PIN, or of the review, to them.)
Restart(b) ==
    /\ \/ AtAccountStep(b) /\ tabs[b].stage = "pin"
       \/ InWizard(b, "review")
    /\ cookies[b].session = NoSession
    /\ OnlyShow(b, Restarted(tabs[b]))

Continue(b) ==
    /\ AtAccountStep(b) /\ tabs[b].stage = "done"
    /\ OnlyShow(b, Advanced(tabs[b]))

-----------------------------------------------------------------------------
(* The details, the review and the submission. *)

ToReview(b) ==
    /\ InWizard(b, "details")
    /\ OnlyShow(b, [tabs[b] EXCEPT !.step = "review"])

BackFrom(b, step) ==
    /\ InWizard(b, step) /\ step # "account"
    /\ OnlyShow(b, [tabs[b] EXCEPT !.step = IF step = "review" THEN "details" ELSE "account"])

\* What the visitor is shown by an answer, and by one that never came.
Answered(tab, answered) ==
    IF answered THEN [tab EXCEPT !.result = "registered"]
    ELSE tab

\* Roles are added, never taken away.
WithRole(account, role) == [account EXCEPT !.roles = @ \cup {role}]

\* registerBuyer: the role is added to the account of the session.
RegisterBuyer(b, answered) ==
    /\ InWizard(b, "review") /\ tabs[b].page = "buyer" /\ InForce(cookies[b].session)
    /\ SetAccount(Me(b), WithRole(accounts[Me(b)], "buyer"))
    /\ Show(b, Answered(tabs[b], answered))
    /\ UNCHANGED <<profileVars, codes, cookies>>

\* registerSupplier: a new key with every attempt, so what a lost answer did is
\* done again.
RegisterSupplier(b, blank, answered) ==
    /\ InWizard(b, "review") /\ tabs[b].page = "supplier" /\ InForce(cookies[b].session)
    /\ Submit(Me(b), blank)
    /\ SetAccount(Me(b), WithRole(accounts[Me(b)], "supplier"))
    /\ Show(b, Answered(tabs[b], answered))
    /\ UNCHANGED <<codes, cookies>>

\* Photos are uploaded first, and someone new is made a supplier for that; then
\* an upload fails, or the submission is refused and shows its step.
RegistrationFails(b, photos, step) ==
    /\ InWizard(b, "review") /\ tabs[b].page = "supplier" /\ InForce(cookies[b].session)
    /\ photos \/ step = "details"
    /\ SetAccount(Me(b), IF photos /\ accounts[Me(b)].roles = {}
                         THEN WithRole(accounts[Me(b)], "supplier") ELSE accounts[Me(b)])
    /\ Show(b, [tabs[b] EXCEPT !.step = step])
    /\ UNCHANGED <<profileVars, codes, cookies>>

-----------------------------------------------------------------------------
(* Signing in with the PIN, and the account page. *)

LogIn(b, p) ==
    LET session == [phone |-> p, id |-> accounts[p].id]
    IN /\ tabs[b].page = "login" /\ accounts[p].exists /\ accounts[p].pin
       /\ SetCookies(b, [cookies[b] EXCEPT !.session = session])
       /\ Show(b, AccountPage(session, profiles[p]))
       /\ UNCHANGED <<profileVars, accounts, codes>>

SignOut(b) ==
    /\ tabs[b].page = "account"
    /\ SetCookies(b, [cookies[b] EXCEPT !.session = NoSession])
    /\ Show(b, Fresh("login"))
    /\ UNCHANGED <<profileVars, accounts, codes>>

ChangePin(b) ==
    /\ tabs[b].page = "change pin"
    /\ IF InForce(cookies[b].session)
       THEN /\ SetAccount(Me(b), [accounts[Me(b)] EXCEPT !.pin = TRUE])
            /\ Show(b, AccountPage(cookies[b].session, profiles[Me(b)]))
       ELSE /\ UNCHANGED accounts
            /\ cookies[b].session = NoSession /\ Show(b, Fresh("login"))
    /\ UNCHANGED <<profileVars, codes, cookies>>

\* A card of the supplier's panel starts from what the page was rendered with,
\* and sends the pickup address along whatever its kind.
SavePanel(b, kind) ==
    LET p == Me(b)
        address == IF kind = "pickup" THEN NextSave ELSE tabs[b].seen
        saved == PickupSaved(profiles[p], address, address # profiles[p].parts["pickup"])
    IN /\ tabs[b].seen # 0 /\ InForce(cookies[b].session)
       /\ Save /\ Write(p, saved)
       /\ Show(b, AccountPage(cookies[b].session, saved))
       /\ UNCHANGED <<desk, accounts, codes, cookies>>

-----------------------------------------------------------------------------
(* The same people in the app, where their session is another one, and what *)
(* staff do for them.                                                      *)

AppSignUp(p) ==
    /\ ~accounts[p].exists /\ accounts[p].id < MaxAccounts
    /\ SetAccount(p, MemberOf(p))
    /\ UNCHANGED <<profileVars, codes, cookies, tabs>>

\* register_role: refused to someone who has the role.
AppRegister(p, role) ==
    /\ accounts[p].exists /\ role \notin accounts[p].roles
    /\ SetAccount(p, WithRole(accounts[p], role))
    /\ IF role = "supplier" THEN FirstPickupDetails(p) ELSE UNCHANGED profileVars
    /\ UNCHANGED <<codes, cookies, tabs>>

\* The supplier wizard of the app, also for a supplier who edits the profile,
\* and the screens that change parts of it.
AppSupplier(p) ==
    /\ accounts[p].exists
    /\ \/ \E blank \in BOOLEAN :
            /\ Submit(p, blank)
            /\ SetAccount(p, WithRole(accounts[p], "supplier"))
       \/ /\ "supplier" \in accounts[p].roles
          /\ FirstPickupDetails(p) /\ UNCHANGED accounts
       \/ /\ \E moved \in BOOLEAN : MovePlace(p, moved)
          /\ UNCHANGED accounts
    /\ UNCHANGED <<codes, cookies, tabs>>

\* delete_account ends every session; the number is free for another account.
DeleteAccount(p) ==
    /\ accounts[p].exists
    /\ SetAccount(p, [NoAccount EXCEPT !.id = accounts[p].id])
    /\ Drop(p)
    /\ UNCHANGED <<codes, cookies, tabs>>

\* ops_create_supplier: refused when the phone has a profile.
StaffRegister(p, blank) ==
    /\ ~HasProfile(p) /\ MemberOf(p).id <= MaxAccounts
    /\ Submit(p, blank)
    /\ SetAccount(p, WithRole(MemberOf(p), "supplier"))
    /\ UNCHANGED <<codes, cookies, tabs>>

\* A code that is not used in time, is tried too often, or is followed by one
\* whose text could not be sent; a session's cookie that lapses.
CodeEnds(p) ==
    /\ codes[p] # NoOne
    /\ codes' = [codes EXCEPT ![p] = NoOne]
    /\ UNCHANGED <<profileVars, accounts, cookies, tabs>>
CookieLapses(b) ==
    /\ cookies[b].session # NoSession
    /\ SetCookies(b, [cookies[b] EXCEPT !.session = NoSession])
    /\ UNCHANGED <<profileVars, accounts, codes, tabs>>

-----------------------------------------------------------------------------
MembersInit ==
    /\ ProfilesInit
    /\ accounts = [p \in Phones |-> NoAccount]
    /\ codes = [p \in Phones |-> NoOne]
    /\ cookies = [b \in Browsers |-> NoCookies]
    /\ tabs = [b \in Browsers |-> Fresh("login")]

AccountStep(b) ==
    \/ \E p \in Phones : Send(b, p)
    \/ EnterCode(b) \/ ReadCutShort(b) \/ ChangeNumber(b)
    \/ SavePin(b) \/ Restart(b) \/ Continue(b)

WizardSteps(b) ==
    \/ ToReview(b)
    \/ \E step \in {"details", "review"} : BackFrom(b, step)
    \/ \E answered \in BOOLEAN : RegisterBuyer(b, answered)
    \/ \E blank \in BOOLEAN, answered \in BOOLEAN :
            RegisterSupplier(b, blank, answered)
    \/ \E photos \in BOOLEAN, step \in {"details", "review"} : RegistrationFails(b, photos, step)

AccountPages(b) ==
    \/ \E p \in Phones : LogIn(b, p)
    \/ SignOut(b) \/ ChangePin(b)
    \/ \E kind \in Kinds : SavePanel(b, kind)

Browse(b) ==
    \/ \E page \in Pages : Visit(b, page)
    \/ AccountStep(b) \/ WizardSteps(b) \/ AccountPages(b) \/ CookieLapses(b)

Elsewhere(p) ==
    \/ AppSignUp(p) \/ AppSupplier(p) \/ DeleteAccount(p) \/ CodeEnds(p)
    \/ \E role \in Wizards : AppRegister(p, role)
    \/ \E blank \in BOOLEAN : StaffRegister(p, blank)

MembersNext ==
    \/ \E b \in Browsers : Browse(b)
    \/ \E p \in Phones : Elsewhere(p)
    \/ StaffNext /\ UNCHANGED <<accounts, codes, cookies, tabs>>

MembersSpec == MembersInit /\ [][MembersNext]_memberVars

-----------------------------------------------------------------------------
\* When a wizard says that its visitor is registered, or was already, they are:
\* the account of the number they confirmed has the role, a PIN to log in with
\* next time, and, for a supplier, a profile that was submitted.  It holds after
\* lost answers, failed uploads, codes that ended, and whatever the app or the
\* staff did to the account in between.
RegisteredIsTrue ==
    [][\A b \in Browsers :
        tabs'[b].result # "none" /\ tabs[b].result = "none" =>
            \A p \in Phones : p = tabs'[b].verified =>
                /\ accounts'[p].exists /\ accounts'[p].pin
                /\ tabs'[b].page \in accounts'[p].roles
                /\ tabs'[b].page = "supplier" => profiles'[p].status \notin {"none", "new"}]_memberVars

\* A registration that is in the approval workflow is not submitted again from
\* the website, which would send an approved supplier back to review.
ApprovedIsNotResubmitted ==
    [][\A b \in Browsers, p \in Phones :
        tabs'[b] # tabs[b] /\ profiles[p].status = "approved" =>
            profiles'[p].status = "approved"]_memberVars
=============================================================================
