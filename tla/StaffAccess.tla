---------------------------- MODULE StaffAccess ----------------------------
(***************************************************************************)
(* How staff get into the operations site: the sign-in page and its routes *)
(* (app/sign-in, lib/session.ts), the PINs, texted codes and admin setup   *)
(* behind them (auth.py, main.py:1096-1262), and the staff list.           *)
(*                                                                         *)
(* Everyone is their phone, and has one browser: a jar of cookies shared   *)
(* by its tabs.  A tab shows a form and an error, which follow from the    *)
(* URL it was sent to and the cookies at that moment, so a form may be     *)
(* older than the cookies it is posted with.  What nobody plans, a wrong   *)
(* entry, a lost answer, something that expires, a change of the staff     *)
(* list, is a surprise.                                                    *)
(***************************************************************************)
EXTENDS Integers, FiniteSets, FiniteSetsExt, Sequences

CONSTANTS
    Phones,        \* people, by phone number
    Browsers,      \* those of them who use a browser
    Roles,         \* roles people start with, "none" for no operator
    MaxTabs,       \* bound on the tabs of a browser
    PauseEvery,    \* PIN_PAUSE_EVERY: so many wrong PINs pause sign-in
    ResetAfter,    \* PIN_RESET_AFTER: so many in a row block the PIN
    CodeTries,     \* tries a code takes
    MaxFailures,   \* SETUP_MAX_FAILURES: wrong passphrases before the lock
    MaxCodes,      \* bound on the codes texted
    MaxSetups,     \* bound on the admin setups begun
    MaxSurprises   \* bound on surprises

ASSUME StaffAccessAssumption ==
    /\ Phones # {} /\ Browsers \subseteq Phones /\ Roles \subseteq {"none", "staff", "admin"}
    /\ {MaxTabs, PauseEvery, ResetAfter, CodeTries, MaxFailures, MaxCodes} \subseteq Nat \ {0}
    /\ MaxSetups \in Nat /\ MaxSurprises \in Nat

NoOne == "no one"
None == [phone |-> NoOne, hasPin |-> FALSE]
NoSetup == [id |-> 0, stage |-> "none", code |-> 0]

VARIABLES
    operators,  \* the staff list, with PINs
    sessions,   \* operator sessions: <<operator, browser it was issued to>>
    codes,      \* the latest code of each phone: a new one ends the others
    recent,     \* phones texted within the resend time
    failures,   \* wrong passphrases within the window
    setups,     \* admin setups begun
    work,       \* transactions that have read and not yet committed
    cookies,    \* of each browser
    pages,      \* what each tab shows
    surprises,  \* surprises so far
    wrong       \* wrong PINs compared since a right or new one, and wrong tries
                \* of the latest code (history)

vars == <<operators, sessions, codes, recent, failures, setups, work, cookies, pages,
          surprises, wrong>>

Tabs == Browsers \X (1..MaxTabs)
SignInForms == {"start", "pin", "create", "code", "new-pin"}
SetupForms == {"passphrase", "approve-phone", "approve-code", "details", "new-code"}
Errors == {"none", "invalid", "passphrase", "pin", "pin-paused", "pin-blocked", "locked",
           "unknown", "wait", "code", "expired", "server", "denied", "taken"}
Changes == {"make staff", "make admin", "remove", "restore"}

Operator == [role : {"none", "staff", "admin"}, active : BOOLEAN, pin : BOOLEAN,
             tries : 0..ResetAfter, paused : BOOLEAN]
Code == [id : 0..MaxCodes, purpose : {"ops", "approve", "setup"}, used : BOOLEAN,
         alive : BOOLEAN, attempts : 0..CodeTries]
Setup == [approvedBy : Phones \cup {NoOne}, phone : Phones \cup {NoOne},
          done : BOOLEAN, alive : BOOLEAN]
Jar == [session : Phones \cup {NoOne}, signIn : {None} \cup [phone : Phones, hasPin : BOOLEAN],
        challenge : 0..MaxCodes,
        setup : [id : 0..MaxSetups, stage : SetupForms \cup {"none"}, code : 0..MaxCodes]]

TypeOK ==
    /\ operators \in [Phones -> Operator]
    /\ sessions \subseteq Phones \X Browsers
    /\ codes \in [Phones -> Code]
    /\ recent \subseteq Phones
    /\ failures \in [{"staff", "setup"} -> 0..MaxFailures]
    /\ Len(setups) <= MaxSetups /\ \A i \in DOMAIN setups : setups[i] \in Setup
    /\ work \subseteq [tab : Tabs, setup : 0..MaxSetups, phone : Phones, change : Changes \cup {"finish"}]
    /\ cookies \in [Browsers -> Jar]
    /\ pages \in [Tabs -> [form : SignInForms \cup SetupForms \cup {"inside"}, said : Errors]]
    /\ surprises \in 0..MaxSurprises
    /\ wrong \in [{"pin", "code"} -> [Phones -> Nat]]

Active(p) == operators[p].role # "none" /\ operators[p].active
Admins == {p \in Phones : Active(p) /\ operators[p].role = "admin"}

-----------------------------------------------------------------------------
(* What a tab shows, and how a route answers it. *)

\* currentOperator: the cookie's session is in force and its operator active.
InForceFor(b, jar, issued, staff) ==
    <<jar.session, b>> \in issued /\ staff[jar.session].role # "none" /\ staff[jar.session].active
SignedIn(b) == InForceFor(b, cookies[b], sessions, operators)

\* The form the sign-in page takes from its step and the cookies.
FormOf(jar, step) ==
    CASE step = "setup" -> IF jar.setup = NoSetup THEN "passphrase" ELSE jar.setup.stage
      [] step = "pin" -> IF jar.signIn # None /\ jar.signIn.hasPin THEN "pin" ELSE "start"
      [] step = "create" -> IF jar.signIn # None /\ ~jar.signIn.hasPin THEN "create" ELSE "start"
      [] step = "code" -> IF jar.challenge # 0 THEN "code" ELSE "start"
      [] OTHER -> "start"

\* Mutant: the sign-in page sends everyone signed in on to the dashboard, also
\* to make the PIN the dashboard sent them back for.
ShownWithoutNewPin(b, jar, issued, staff, step, said) ==
    IF ~InForceFor(b, jar, issued, staff) THEN [form |-> FormOf(jar, step), said |-> said]
    ELSE [form |-> IF staff[jar.session].pin THEN "inside" ELSE "start", said |-> "none"]

\* What a tab of browser b shows at a step.  Someone signed in goes on to the
\* dashboard, which sends them back as long as they have no PIN.
Shown(b, jar, issued, staff, step, said) ==
    CASE ~InForceFor(b, jar, issued, staff) -> [form |-> FormOf(jar, step), said |-> said]
      [] InForceFor(b, jar, issued, staff) /\ step = "new-pin" -> [form |-> "new-pin", said |-> said]
      [] OTHER -> [form |-> IF staff[jar.session].pin THEN "inside" ELSE "new-pin", said |-> "none"]

ShownNow(t, jar, step) == Shown(t[1], jar, sessions, operators, step, "none")

Surprise(n) == surprises + n <= MaxSurprises /\ surprises' = surprises + n
Cost(expected) == IF expected THEN 0 ELSE 1

\* A route sets cookies and sends the tab to a step.  When its answer is lost
\* the tab keeps its form, and the browser its cookies.
Answer(t, expected, jar, step, said) ==
    \E lost \in BOOLEAN :
        /\ Surprise(Cost(expected) + Cost(~lost))
        /\ cookies' = IF lost THEN cookies ELSE [cookies EXCEPT ![t[1]] = jar]
        /\ pages' = IF lost THEN pages
                    ELSE [pages EXCEPT ![t] = Shown(t[1], jar, sessions', operators', step, said)]

Refuse(t, expected, step, said) ==
    /\ UNCHANGED <<operators, sessions, codes, recent, failures, setups, work, wrong>>
    /\ Answer(t, expected, cookies[t[1]], step, said)

\* startSession and endSignIn.
SessionJar(jar, p) == [jar EXCEPT !.session = p, !.challenge = 0, !.signIn = None]

-----------------------------------------------------------------------------
(* Texted codes and PINs. *)

Finishing == {w \in work : w.change = "finish"}
Held(p) == \E w \in work \ Finishing : w.phone = p

LastCode == Max({codes[p].id : p \in Phones})

\* start_otp.  When the text is not sent the new code is dropped, and the
\* codes it ended stay ended.
StartOtp(p, purpose, sent) ==
    /\ \A w \in Finishing : w.phone # p
    /\ LastCode < MaxCodes
    /\ codes' = IF sent
                THEN [codes EXCEPT ![p] = [id |-> LastCode + 1, purpose |-> purpose, used |-> FALSE,
                                           alive |-> TRUE, attempts |-> 0]]
                ELSE [codes EXCEPT ![p].used = TRUE]
    /\ recent' = IF sent THEN recent \cup {p} ELSE recent
    /\ wrong' = IF sent THEN [wrong EXCEPT !["code"][p] = 0] ELSE wrong

\* The phone a code in force was sent to, as a set.
Receiver(id, purpose) ==
    {p \in Phones : /\ codes[p].id = id /\ id # 0 /\ codes[p].purpose = purpose
                    /\ ~codes[p].used /\ codes[p].alive /\ codes[p].attempts < CodeTries}

\* A wrong try is committed before it is refused.
WrongCode(p) ==
    /\ codes' = [codes EXCEPT ![p].attempts = @ + 1]
    /\ wrong' = [wrong EXCEPT !["code"][p] = @ + 1]

UsedCode(p) == [codes EXCEPT ![p].used = TRUE, ![p].attempts = @ + 1]

\* A try of a code that does not get through: not in force, or wrong.
CodeRefused(t, id, purpose, right, step) ==
    \/ /\ Receiver(id, purpose) = {}
       /\ Refuse(t, right, step, "code")
    \/ \E p \in Receiver(id, purpose) :
        /\ ~right /\ WrongCode(p)
        /\ UNCHANGED <<operators, sessions, recent, failures, setups, work>>
        /\ Answer(t, right, cookies[t[1]], step, "code")

\* store_pin.
StorePin(p) ==
    /\ operators' = [operators EXCEPT ![p].pin = TRUE, ![p].tries = 0, ![p].paused = FALSE]
    /\ wrong' = [wrong EXCEPT !["pin"][p] = 0]

Blocked(p) == operators[p].tries >= ResetAfter

\* Mutant: the refusal rolls the wrong try back.
WrongPinForgotten(p) ==
    /\ operators' = operators
    /\ wrong' = [wrong EXCEPT !["pin"][p] = @ + 1]

\* A wrong PIN is counted, and the count committed, before it is refused.
WrongPin(p) ==
    /\ operators' = [operators EXCEPT ![p].tries = @ + 1,
                         ![p].paused = @ \/ (operators[p].tries + 1) % PauseEvery = 0]
    /\ wrong' = [wrong EXCEPT !["pin"][p] = @ + 1]

-----------------------------------------------------------------------------
(* Signing in: app/sign-in/session/route.ts. *)

\* An entry the form or the route turns away before it reaches the backend.
Mistype(t) ==
    /\ pages[t].form \in (SignInForms \ {"code"}) \cup {"approve-phone", "details"}
    /\ Refuse(t, FALSE, IF pages[t].form \in SetupForms THEN "setup" ELSE pages[t].form, "invalid")

\* The staff passphrase and a phone.
Start(t, p, right) ==
    /\ pages[t].form = "start" /\ ~Held(p)
    /\ LET fits == right /\ p = t[1] IN
       \/ failures["staff"] = MaxFailures /\ Refuse(t, fits, "", "wait")
       \/ /\ failures["staff"] < MaxFailures /\ ~right
          /\ failures' = [failures EXCEPT !["staff"] = @ + 1]
          /\ UNCHANGED <<operators, sessions, codes, recent, setups, work, wrong>>
          /\ Answer(t, FALSE, cookies[t[1]], "", "passphrase")
       \/ /\ failures["staff"] < MaxFailures /\ right
          /\ ~Active(p) /\ Refuse(t, fits, "", "unknown")
       \/ /\ failures["staff"] < MaxFailures /\ right /\ Active(p)
          /\ UNCHANGED <<operators, sessions, codes, recent, failures, setups, work, wrong>>
          /\ Answer(t, fits, [cookies[t[1]] EXCEPT !.signIn = [phone |-> p, hasPin |-> operators[p].pin]],
                    IF operators[p].pin THEN "pin" ELSE "create", "none")

\* The backend's answer to the PIN of an operator: a first PIN is stored, a
\* right one resets the count.
PinAnswered(t, p, right) ==
    LET form == pages[t].form
        signedIn == /\ sessions' = sessions \cup {<<p, t[1]>>}
                    /\ Answer(t, right, SessionJar(cookies[t[1]], p), "", "none")
    IN
    \/ ~operators[p].pin /\ StorePin(p) /\ signedIn
    \/ /\ operators[p].pin /\ Blocked(p)
       /\ Refuse(t, right, form, "pin-blocked")
    \/ /\ operators[p].pin /\ ~Blocked(p) /\ operators[p].paused
       /\ Refuse(t, right, form, "pin-paused")
    \/ /\ operators[p].pin /\ ~Blocked(p) /\ ~operators[p].paused /\ ~right
       /\ WrongPin(p) /\ sessions' = sessions
       /\ Answer(t, right, cookies[t[1]], form,
                 IF operators[p].tries + 1 >= ResetAfter THEN "pin-blocked" ELSE "pin")
    \/ /\ operators[p].pin /\ ~Blocked(p) /\ ~operators[p].paused /\ right
       /\ StorePin(p) /\ signedIn

\* The PIN, or a first one, of the phone in the cookie.
EnterPin(t, right) ==
    LET p == cookies[t[1]].signIn.phone IN
    /\ pages[t].form \in {"pin", "create"}
    /\ \/ p = NoOne /\ Refuse(t, right, "", "expired")
       \/ p # NoOne /\ failures["staff"] = MaxFailures /\ Refuse(t, right, pages[t].form, "wait")
       \/ /\ p # NoOne /\ failures["staff"] < MaxFailures
          /\ ~Held(p) /\ ~Active(p) /\ Refuse(t, right, pages[t].form, "unknown")
       \/ /\ p # NoOne /\ failures["staff"] < MaxFailures /\ ~Held(p) /\ Active(p)
          /\ UNCHANGED <<codes, recent, failures, setups, work>>
          /\ PinAnswered(t, p, right)

TurnedAway(t) == pages[t].said \in {"pin-paused", "pin-blocked", "wait"}

\* "Forgot PIN?": a code, for the phone in the cookie.
Reset(t, sent) ==
    LET p == cookies[t[1]].signIn.phone
        expected == TurnedAway(t)
    IN
    /\ pages[t].form = "pin"
    /\ \/ p = NoOne /\ Refuse(t, expected, "", "expired")
       \/ /\ p # NoOne /\ (failures["staff"] = MaxFailures \/ p \in recent)
          /\ Refuse(t, expected, "pin", "wait")
       \/ /\ p # NoOne /\ failures["staff"] < MaxFailures
          /\ ~Active(p) /\ Refuse(t, expected, "pin", "unknown")
       \/ /\ p # NoOne /\ failures["staff"] < MaxFailures /\ Active(p) /\ p \notin recent
          /\ StartOtp(p, "ops", sent)
          /\ UNCHANGED <<operators, sessions, failures, setups, work>>
          /\ IF sent
             THEN Answer(t, expected, [cookies[t[1]] EXCEPT !.challenge = LastCode + 1], "code", "none")
             ELSE Answer(t, FALSE, cookies[t[1]], "pin", "server")

\* The code of the cookie's challenge signs in, to set a new PIN.
EnterCode(t, right) ==
    LET id == cookies[t[1]].challenge IN
    /\ pages[t].form = "code"
    /\ \/ id = 0 /\ Refuse(t, right, "", "expired")
       \/ id # 0 /\ CodeRefused(t, id, "ops", right, "code")
       \/ \E p \in Receiver(id, "ops") :
            \/ right /\ ~Active(p) /\ Refuse(t, right, "", "unknown")
            \/ /\ right /\ Active(p)
               /\ codes' = UsedCode(p)
               /\ sessions' = sessions \cup {<<p, t[1]>>}
               /\ UNCHANGED <<operators, recent, failures, setups, work, wrong>>
               /\ Answer(t, right, SessionJar(cookies[t[1]], p), "new-pin", "none")

\* ops_set_pin, as whoever the cookie's session says.
NewPin(t) ==
    /\ pages[t].form = "new-pin"
    /\ \/ ~SignedIn(t[1]) /\ Refuse(t, TRUE, "new-pin", "server")
       \/ /\ SignedIn(t[1]) /\ ~Held(cookies[t[1]].session)
          /\ StorePin(cookies[t[1]].session)
          /\ UNCHANGED <<sessions, codes, recent, failures, setups, work>>
          /\ Answer(t, TRUE, cookies[t[1]], "", "none")

\* "Use a different number".
StartOver(t) ==
    /\ pages[t].form \in {"pin", "create", "code"}
    /\ Surprise(Cost(pages[t].said = "code" \/ (pages[t].form = "create" /\ TurnedAway(t))))
    /\ pages' = [pages EXCEPT ![t] = ShownNow(t, cookies[t[1]], "")]
    /\ UNCHANGED <<operators, sessions, codes, recent, failures, setups, work, cookies, wrong>>

\* The tab goes to a step of the sign-in page by its address: an old link, the
\* browser's history, or "Admin setup".
Visit(t, step) ==
    /\ pages[t] # ShownNow(t, cookies[t[1]], step) /\ Surprise(1)
    /\ pages' = [pages EXCEPT ![t] = ShownNow(t, cookies[t[1]], step)]
    /\ UNCHANGED <<operators, sessions, codes, recent, failures, setups, work, cookies, wrong>>

\* app/sign-out.
SignOut(t) ==
    /\ pages[t].form = "inside" /\ Surprise(1)
    /\ sessions' = sessions \ {<<cookies[t[1]].session, t[1]>>}
    /\ cookies' = [cookies EXCEPT ![t[1]].session = NoOne]
    /\ pages' = [pages EXCEPT ![t] = [form |-> "start", said |-> "none"]]
    /\ UNCHANGED <<operators, codes, recent, failures, setups, work, wrong>>

-----------------------------------------------------------------------------
(* Admin setup: app/sign-in/setup/route.ts. *)

Begun(t) == cookies[t[1]].setup.id

\* _setup: the cookie's setup is neither finished nor expired.
InForce(id) == setups[id].alive /\ ~setups[id].done

Free(id) == \A w \in Finishing : w.setup # id

\* A post whose setup is gone: back to the passphrase.
SetupGone(t) ==
    \/ Begun(t) = 0 /\ Refuse(t, TRUE, "setup", "expired")
    \/ /\ Begun(t) # 0 /\ Free(Begun(t)) /\ ~InForce(Begun(t))
       /\ UNCHANGED <<operators, sessions, codes, recent, failures, setups, work, wrong>>
       /\ Answer(t, TRUE, [cookies[t[1]] EXCEPT !.setup = NoSetup], "setup", "expired")

Continues(t) == Begun(t) # 0 /\ Free(Begun(t)) /\ InForce(Begun(t))

SetupPassphrase(t, right) ==
    /\ pages[t].form = "passphrase"
    /\ \/ failures["setup"] = MaxFailures /\ Refuse(t, right, "setup", "locked")
       \/ /\ failures["setup"] < MaxFailures /\ ~right
          /\ failures' = [failures EXCEPT !["setup"] = @ + 1]
          /\ UNCHANGED <<operators, sessions, codes, recent, setups, work, wrong>>
          /\ Answer(t, FALSE, cookies[t[1]], "setup", "passphrase")
       \/ /\ failures["setup"] < MaxFailures /\ right /\ Len(setups) < MaxSetups
          /\ setups' = Append(setups, [approvedBy |-> NoOne, phone |-> NoOne, done |-> FALSE,
                                       alive |-> TRUE])
          /\ UNCHANGED <<operators, sessions, codes, recent, failures, work, wrong>>
          /\ Answer(t, TRUE,
                 [cookies[t[1]] EXCEPT !.setup =
                     [id |-> Len(setups) + 1, code |-> 0,
                      stage |-> IF Admins # {} THEN "approve-phone" ELSE "details"]],
                 "setup", "none")

\* The code of a setup's step goes to its phone, and the cookie to the stage
\* that asks for it.
SetupCode(t, p, purpose, sent, stage) ==
    /\ StartOtp(p, purpose, sent)
    /\ UNCHANGED <<operators, sessions, failures, work>>
    /\ IF sent
       THEN Answer(t, TRUE, [cookies[t[1]] EXCEPT !.setup.stage = stage, !.setup.code = LastCode + 1],
                   "setup", "none")
       ELSE Answer(t, FALSE, cookies[t[1]], "setup", "server")

ApprovePhone(t, p, sent) ==
    /\ pages[t].form = "approve-phone"
    /\ \/ SetupGone(t)
       \/ Continues(t) /\ p \notin Admins /\ Refuse(t, FALSE, "setup", "denied")
       \/ Continues(t) /\ p \in Admins /\ p \in recent /\ Refuse(t, TRUE, "setup", "locked")
       \/ /\ Continues(t) /\ p \in Admins /\ p \notin recent
          /\ setups' = setups
          /\ SetupCode(t, p, "approve", sent, "approve-code")

ApproveCode(t, right) ==
    LET id == Begun(t)  code == cookies[t[1]].setup.code IN
    /\ pages[t].form = "approve-code"
    /\ \/ SetupGone(t)
       \/ Continues(t) /\ code = 0 /\ Refuse(t, right, "setup", "server")
       \/ Continues(t) /\ code # 0 /\ CodeRefused(t, code, "approve", right, "setup")
       \/ \E p \in Receiver(code, "approve") :
            \/ Continues(t) /\ right /\ p \notin Admins /\ Refuse(t, TRUE, "setup", "denied")
            \/ /\ Continues(t) /\ right /\ p \in Admins
               /\ codes' = UsedCode(p)
               /\ setups' = [setups EXCEPT ![id].approvedBy = p]
               /\ UNCHANGED <<operators, sessions, recent, failures, work, wrong>>
               /\ Answer(t, TRUE, [cookies[t[1]] EXCEPT !.setup = [id |-> id, stage |-> "details", code |-> 0]],
                         "setup", "none")

NeedsApproval(id) == setups[id].approvedBy = NoOne /\ Admins # {}

Details(t, p, sent) ==
    LET id == Begun(t) IN
    /\ pages[t].form = "details"
    /\ \/ SetupGone(t)
       \/ Continues(t) /\ NeedsApproval(id) /\ Refuse(t, TRUE, "setup", "denied")
       \/ /\ Continues(t) /\ ~NeedsApproval(id)
          /\ operators[p].role # "none" /\ Refuse(t, FALSE, "setup", "taken")
       \/ /\ Continues(t) /\ ~NeedsApproval(id)
          /\ operators[p].role = "none" /\ p \in recent /\ Refuse(t, TRUE, "setup", "locked")
       \/ /\ Continues(t) /\ ~NeedsApproval(id) /\ operators[p].role = "none" /\ p \notin recent
          /\ setups' = [setups EXCEPT ![id].phone = p]
          /\ SetupCode(t, p, "setup", sent, "new-code")

\* The new admin's code: admin_setup_finish has checked everything and not yet
\* committed.
NewCode(t, right) ==
    LET id == Begun(t)  code == cookies[t[1]].setup.code IN
    /\ pages[t].form = "new-code"
    /\ \/ SetupGone(t)
       \/ Continues(t) /\ code = 0 /\ Refuse(t, right, "setup", "server")
       \/ Continues(t) /\ code # 0 /\ CodeRefused(t, code, "setup", right, "setup")
       \/ \E p \in Receiver(code, "setup") :
            \/ Continues(t) /\ right /\ p # setups[id].phone /\ Refuse(t, TRUE, "setup", "code")
            \/ /\ Continues(t) /\ right /\ p = setups[id].phone
               /\ NeedsApproval(id) /\ Refuse(t, TRUE, "setup", "denied")
            \/ /\ Continues(t) /\ right /\ p = setups[id].phone /\ ~NeedsApproval(id)
               /\ operators[p].role # "none" /\ Refuse(t, TRUE, "setup", "taken")
            \/ /\ Continues(t) /\ right /\ p = setups[id].phone /\ ~NeedsApproval(id)
               /\ operators[p].role = "none"
               /\ work' = work \cup {[tab |-> t, setup |-> id, phone |-> p, change |-> "finish"]}
               /\ UNCHANGED <<operators, sessions, codes, recent, failures, setups, cookies, pages,
                              surprises, wrong>>

\* The new admin is signed in, unless someone added their phone meanwhile.
FinishSetup(w) ==
    LET t == w.tab  p == w.phone  b == w.tab[1] IN
    /\ w.change = "finish" /\ work' = work \ {w}
    /\ \/ /\ operators[p].role # "none"
          /\ UNCHANGED <<operators, sessions, codes, setups>>
          /\ Answer(t, TRUE, cookies[b], "setup", "server")
       \/ /\ operators[p].role = "none"
          /\ operators' = [operators EXCEPT ![p] = [role |-> "admin", active |-> TRUE, pin |-> FALSE,
                                                    tries |-> 0, paused |-> FALSE]]
          /\ sessions' = sessions \cup {<<p, b>>}
          /\ codes' = UsedCode(p)
          /\ setups' = [setups EXCEPT ![w.setup].done = TRUE]
          /\ Answer(t, TRUE, [cookies[b] EXCEPT !.session = p, !.challenge = 0, !.setup = NoSetup],
                    "", "none")
    /\ UNCHANGED <<recent, failures, wrong>>

\* "Back to sign in" forgets the setup.
LeaveSetup(t) ==
    /\ pages[t].form \in SetupForms
    /\ cookies' = [cookies EXCEPT ![t[1]].setup = NoSetup]
    /\ pages' = [pages EXCEPT ![t] = ShownNow(t, [cookies[t[1]] EXCEPT !.setup = NoSetup], "")]
    /\ UNCHANGED <<operators, sessions, codes, recent, failures, setups, work, surprises, wrong>>

-----------------------------------------------------------------------------
(* The staff list: app/(ops)/staff, main.py:1482-1509. *)

AdminAt(t) == pages[t].form = "inside" /\ SignedIn(t[1]) /\ cookies[t[1]].session \in Admins

AddOperator(t, p, role) ==
    /\ AdminAt(t) /\ operators[p].role = "none" /\ Surprise(1)
    /\ operators' = [operators EXCEPT ![p] = [role |-> role, active |-> TRUE, pin |-> FALSE,
                                              tries |-> 0, paused |-> FALSE]]
    /\ UNCHANGED <<sessions, codes, recent, failures, setups, work, cookies, pages, wrong>>

LosesAdmin(p, change) == p \in Admins /\ change \in {"make staff", "remove"}

\* update_operator holds the row of the operator it changes, and counts the
\* admins.
UpdateOperator(t, p, change) ==
    /\ AdminAt(t) /\ operators[p].role # "none" /\ ~Held(p)
    /\ LosesAdmin(p, change) => Cardinality(Admins) > 1
    /\ Surprise(1)
    /\ work' = work \cup {[tab |-> t, setup |-> 0, phone |-> p, change |-> change]}
    /\ UNCHANGED <<operators, sessions, codes, recent, failures, setups, cookies, pages, wrong>>

\* Removing someone signs them out everywhere.
Updated(w) ==
    LET p == w.phone IN
    /\ w.change # "finish" /\ work' = work \ {w}
    /\ operators' = [operators EXCEPT
            ![p].role = IF w.change = "make staff" THEN "staff"
                        ELSE IF w.change = "make admin" THEN "admin" ELSE @,
            ![p].active = (@ /\ w.change # "remove") \/ w.change = "restore"]
    /\ sessions' = IF w.change = "remove" THEN {s \in sessions : s[1] # p} ELSE sessions
    /\ UNCHANGED <<codes, recent, failures, setups, cookies, pages, surprises, wrong>>

-----------------------------------------------------------------------------
(* Time. *)

\* A minute, a quarter of an hour: the resend time, a pause, the window of the
\* wrong passphrases.
Wait ==
    /\ \/ /\ recent # {} /\ recent' = {} /\ UNCHANGED <<operators, failures>>
       \/ \E p \in Phones :
            /\ operators[p].paused /\ operators' = [operators EXCEPT ![p].paused = FALSE]
            /\ UNCHANGED <<recent, failures>>
       \/ \E kind \in DOMAIN failures :
            /\ failures[kind] > 0 /\ failures' = [failures EXCEPT ![kind] = @ - 1]
            /\ UNCHANGED <<operators, recent>>
    /\ UNCHANGED <<sessions, codes, setups, work, cookies, pages, surprises, wrong>>

\* Cookies, codes, setups and sessions expire.
Expire ==
    /\ Surprise(1)
    /\ \/ \E b \in Browsers, name \in {"signIn", "challenge", "setup"} :
            /\ cookies' = [cookies EXCEPT ![b][name] =
                   CASE name = "signIn" -> None [] name = "challenge" -> 0 [] OTHER -> NoSetup]
            /\ cookies' # cookies /\ UNCHANGED <<codes, setups, sessions>>
       \/ \E p \in Phones :
            /\ codes[p].alive /\ codes' = [codes EXCEPT ![p].alive = FALSE]
            /\ UNCHANGED <<cookies, setups, sessions>>
       \/ \E i \in DOMAIN setups :
            /\ setups[i].alive /\ setups' = [setups EXCEPT ![i].alive = FALSE]
            /\ UNCHANGED <<cookies, codes, sessions>>
       \/ \E s \in sessions :
            /\ sessions' = sessions \ {s} /\ UNCHANGED <<cookies, codes, setups>>
    /\ UNCHANGED <<operators, recent, failures, work, pages, wrong>>

-----------------------------------------------------------------------------

Init ==
    /\ operators \in [Phones -> {[role |-> r, active |-> r # "none", pin |-> n, tries |-> 0, paused |-> FALSE] :
                                    r \in Roles, n \in BOOLEAN}]
    /\ \A p \in Phones : operators[p].pin => Active(p)
    /\ sessions = {} /\ recent = {} /\ work = {} /\ setups = <<>> /\ surprises = 0
    /\ codes = [p \in Phones |-> [id |-> 0, purpose |-> "ops", used |-> TRUE, alive |-> FALSE, attempts |-> 0]]
    /\ failures = [kind \in {"staff", "setup"} |-> 0]
    /\ cookies = [b \in Browsers |-> [session |-> NoOne, signIn |-> None, challenge |-> 0, setup |-> NoSetup]]
    /\ pages = [t \in Tabs |-> [form |-> "start", said |-> "none"]]
    /\ wrong = [kind \in {"pin", "code"} |-> [p \in Phones |-> 0]]

SignIn(t) ==
    \/ Mistype(t) \/ NewPin(t) \/ SignOut(t) \/ StartOver(t)
    \/ \E right \in BOOLEAN : EnterPin(t, right) \/ EnterCode(t, right)
    \/ \E p \in Phones, right \in BOOLEAN : Start(t, p, right)
    \/ \E sent \in BOOLEAN : Reset(t, sent)
    \/ \E step \in {"", "pin", "create", "code", "new-pin", "setup"} : Visit(t, step)

SetUp(t) ==
    \/ LeaveSetup(t)
    \/ \E right \in BOOLEAN : SetupPassphrase(t, right) \/ ApproveCode(t, right) \/ NewCode(t, right)
    \/ \E p \in Phones, sent \in BOOLEAN : ApprovePhone(t, p, sent) \/ Details(t, p, sent)

Manage(t) ==
    \/ \E p \in Phones, role \in {"staff", "admin"} : AddOperator(t, p, role)
    \/ \E p \in Phones, change \in Changes : UpdateOperator(t, p, change)

\* Staff who answer each form as it asks, and take the way out it offers when
\* the right answer is refused.
Follow(t) ==
    \/ Start(t, t[1], TRUE)
    \/ ~TurnedAway(t) /\ EnterPin(t, TRUE)
    \/ TurnedAway(t) /\ Reset(t, TRUE)
    \/ TurnedAway(t) /\ pages[t].form = "create" /\ StartOver(t)
    \/ pages[t].said # "code" /\ EnterCode(t, TRUE)
    \/ pages[t].form = "code" /\ pages[t].said = "code" /\ StartOver(t)
    \/ NewPin(t)

Commit == \E w \in work : FinishSetup(w) \/ Updated(w)

Next ==
    \/ \E t \in Tabs : SignIn(t) \/ SetUp(t) \/ Manage(t)
    \/ Commit \/ Wait \/ Expire

\* Staff follow their forms or leave admin setup, transactions end and time
\* passes; nothing makes a surprise happen.
Fairness ==
    /\ WF_vars(Commit) /\ WF_vars(Wait)
    /\ \A t \in Tabs : WF_vars(Follow(t)) /\ WF_vars(LeaveSetup(t))

Spec == Init /\ [][Next]_vars /\ Fairness

-----------------------------------------------------------------------------

\* Between a right or new PIN and the next, at most ResetAfter wrong ones are
\* compared, and a code takes at most CodeTries wrong tries, although each was
\* refused and its transaction rolled back (auth.py:149-153 and 229-237).
WrongTriesEnd ==
    \A p \in Phones : wrong["pin"][p] <= ResetAfter /\ wrong["code"][p] <= CodeTries

\* Whatever was mistyped, lost, expired or blocked, active staff who answer
\* the forms get in: no page leaves them without a form the backend takes or a
\* way out (app/sign-in/page.tsx and route.ts).
SignsIn ==
    \A t \in Tabs :
        (pages[t].form # "inside") ~> (pages[t].form = "inside" \/ ~Active(t[1]))

\* lib/actions.ts:520: "The backend enforces that only admins can do this and
\* that at least one active admin always remains."
OneAdminRemains == [][Admins # {} => Admins' # {}]_vars

=============================================================================
