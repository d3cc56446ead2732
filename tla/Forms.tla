------------------------------- MODULE Forms -------------------------------
(***************************************************************************)
(* A member of staff, a form of the dashboard, its server action and the   *)
(* backend's idempotency records, over connections that lose requests and  *)
(* answers: lib/api.ts, components/form.tsx, duplicate-override.tsx,       *)
(* services.replay and remember, duplicates.claim and check_possible.      *)
(*                                                                         *)
(* One form, of any of the kinds in FormTables, is filled in for entries   *)
(* 1, 2, ... of the real world, one after the other.  A submission is a    *)
(* trip: one post, or two, from the dashboard's server to the backend.     *)
(***************************************************************************)
EXTENDS FormTables, FiniteSets, FiniteSetsExt

CONSTANTS
    MaxEntries,     \* bound on the entries staff make
    MaxSubmits,     \* bound on submissions
    MaxRenderings   \* bound on renderings of the page

ASSUME FormsAssumption ==
    MaxEntries \in Nat \ {0} /\ MaxSubmits \in Nat \ {0} /\ MaxRenderings \in Nat \ {0}

VARIABLES
    form,     \* the form's behaviour, and of a payment: reference, the entries
              \* carry one; twins, they have the same party, amount and day
    page,     \* what the form holds and shows
    trips,    \* submissions between the dashboard and the backend
    memory,   \* Idempotency records
    rows      \* what the backend recorded, one for each time it did the work

vars == <<form, page, trips, memory, rows>>

Behaviours == {Behaviour(f) : f \in Forms}

Cases == {b @@ [reference |-> r, twins |-> t] : b \in Behaviours, r, t \in BOOLEAN}

\* TLC evaluates this over all of FormTables' forms.
ASSUME CasesAssumption == \A c \in Cases : c.posts \in 1..2

\* What the form says: nothing yet, saved, a lost connection, or a refusal:
\* of the input, of a key used before, of a possible duplicate, of a
\* reference already recorded.
Answers == {"saved", "unanswered", "refused", "conflict", "duplicate", "claimed"}

Renderings == 0..(MaxRenderings + MaxSubmits)

Keys == ({"page", "form"} \X Renderings)
            \cup ({"drawn"} \X (1..MaxSubmits)) \cup {<<"none", 0>>}

\* entry: of the real world.  fixes: how often staff corrected the input.
\* override: "This is a separate payment".  file: the media id of an upload.
Body == [entry : 1..MaxEntries, fixes : 0..1, override : BOOLEAN, file : 0..MaxSubmits]

Trip ==
    [submit : 1..MaxSubmits, post : 1..2, key : Keys, body : Body,
     rendering : Renderings, separate : BOOLEAN, at : {"request", "reply"}, awaited : BOOLEAN,
     answer : Answers \cup {"none"}, names : 0..MaxEntries]

TypeOK ==
    /\ form \in Cases
    /\ page \in [entry : 1..MaxEntries, fixes : 0..1, override : BOOLEAN,
                 rendering : Renderings, submits : 0..MaxSubmits,
                 status : {"ready", "sent", "told", "broken"},
                 said : Answers \cup {"nothing"}, names : 0..MaxEntries]
    /\ trips \subseteq Trip
    /\ memory \subseteq [post : 1..2, key : Keys, body : Body]
    /\ \A r \in rows : r.post \in 1..2 /\ r.key \in Keys /\ r.body \in Body
                       /\ r.submit \in 1..MaxSubmits /\ r.rendering \in Renderings
                       /\ r.order \in Nat \ {0}

----------------------------------------------------------------------------
(* The form and its submission. *)

\* Mutant: a form that holds its key draws another at every submission.
KeySentNew ==
    IF form.key = "page" THEN <<"page", page.rendering>>
    ELSE IF form.key = "none" THEN <<"none", 0>> ELSE <<"drawn", page.submits + 1>>

\* The key a submission sends: written into the form with the page, held by
\* the form, drawn by the server action, or none.
KeySent ==
    CASE form.key = "page" -> <<"page", page.rendering>>
      [] form.key = "form" -> <<"form", page.rendering>>
      [] form.key = "drawn" -> <<"drawn", page.submits + 1>>
      [] OTHER -> <<"none", 0>>

\* The debt of an unlisted payment carries neither the file nor the override.
BodyOf(entry, fixes, submit, post, separate) ==
    [entry |-> entry, fixes |-> fixes,
     override |-> separate /\ post = form.posts,
     file |-> IF form.upload /\ post = form.posts THEN submit ELSE 0]

\* The button is disabled while an answer is awaited.
Submit ==
    /\ page.status \in {"ready", "told"} /\ page.said # "saved"
    /\ page.submits < MaxSubmits
    /\ page' = [page EXCEPT !.status = "sent", !.submits = @ + 1]
    /\ trips' = trips \cup
           {[submit |-> page.submits + 1, post |-> 1, key |-> KeySent,
             body |-> BodyOf(page.entry, page.fixes, page.submits + 1, 1, page.override),
             rendering |-> page.rendering, separate |-> page.override, at |-> "request", awaited |-> TRUE,
             answer |-> "none", names |-> 0]}
    /\ UNCHANGED <<form, memory, rows>>

\* Staff correct an input the backend refused.  The party, amount and day of
\* a payment are those of the payment.
Fix ==
    /\ page.status = "told" /\ page.said = "refused" /\ page.fixes = 0
    /\ page' = [page EXCEPT !.fixes = 1]
    /\ UNCHANGED <<form, trips, memory, rows>>

\* Staff tell a possible duplicate apart by the earlier record the refusal
\* names: they override it when that record is of another entry.
Override ==
    /\ page.status = "told" /\ page.said = "duplicate"
    /\ ~page.override /\ page.names # page.entry
    /\ page' = [page EXCEPT !.override = TRUE]
    /\ UNCHANGED <<form, trips, memory, rows>>

\* The next entry, after a success or after giving one up.
NextEntry ==
    /\ page.status = "told" /\ page.said # "unanswered"
    /\ page.entry < MaxEntries
    /\ page' = [page EXCEPT !.entry = @ + 1, !.fixes = 0, !.override = FALSE,
                            !.status = "ready", !.said = "nothing", !.names = 0]
    /\ UNCHANGED <<form, trips, memory, rows>>

\* Another form of the page saved, or the page was refreshed: the keys the
\* server writes into the forms are new, what staff typed stays.
Rerender ==
    /\ form.key = "page" /\ page.status # "broken"
    /\ page.rendering < MaxRenderings
    /\ page' = [page EXCEPT !.rendering = @ + 1]
    /\ UNCHANGED <<form, trips, memory, rows>>

\* The page is loaded again and the entry typed again.
Reload ==
    /\ page.status \in {"broken", "told"} /\ page.said # "saved"
    /\ page.rendering < MaxRenderings
    /\ page' = [page EXCEPT !.rendering = @ + 1, !.override = FALSE,
                            !.status = "ready", !.said = "nothing", !.names = 0]
    /\ UNCHANGED <<form, trips, memory, rows>>

----------------------------------------------------------------------------
(* The backend. *)

Earlier(t) == {r \in rows : r.post = t.post /\ (r.body.entry = t.body.entry \/ form.twins)}

\* The movement the refusal names is the earliest of those that look alike.
Named(t) == (CHOOSE r \in Earlier(t) : \A q \in Earlier(t) : r.order <= q.order).body.entry

IsPayment(t) == form.guarded /\ t.post = form.posts

\* Mutant: a key used before for other work has no answer.
ConflictUnanswered(t) ==
    /\ \E m \in memory : m.post = t.post /\ m.key = t.key /\ m.body # t.body
    /\ FALSE /\ trips' = trips /\ UNCHANGED <<memory, rows>>

\* The key's record: the same work again is answered from it, other work
\* under it is refused.
Replayed(t) == \E m \in memory : m.post = t.post /\ m.key = t.key /\ m.body = t.body

Conflicts(t) == \E m \in memory : m.post = t.post /\ m.key = t.key /\ m.body # t.body

\* Mutant: the references of refused and unheard attempts are not looked at.
ClaimedBySubmit(t) == /\ IsPayment(t) /\ form.reference
                      /\ \E r \in rows : r.post = t.post /\ r.submit = t.submit

\* A reference recorded once is never recorded again.
Claimed(t) == /\ IsPayment(t) /\ form.reference
              /\ \E r \in rows : r.post = t.post /\ r.body.entry = t.body.entry

LooksAlike(t) ==
    IsPayment(t) /\ ~form.reference /\ ~t.body.override /\ Earlier(t) # {}

Reply(t, answer, names) ==
    trips' = (trips \ {t}) \cup
        {[t EXCEPT !.at = "reply", !.answer = answer, !.names = names]}

Replay(t) ==
    /\ Replayed(t)
    /\ Reply(t, "saved", 0) /\ UNCHANGED <<memory, rows>>

Conflict(t) ==
    /\ Conflicts(t)
    /\ Reply(t, "conflict", 0) /\ UNCHANGED <<memory, rows>>

\* A refusal is rolled back, its key with it.
Refuse(t) ==
    /\ ~Replayed(t) /\ ~Conflicts(t)
    /\ \/ Claimed(t) /\ Reply(t, "claimed", 0)
       \/ LooksAlike(t) /\ Reply(t, "duplicate", Named(t))
       \/ Reply(t, "refused", 0)
    /\ UNCHANGED <<memory, rows>>

Record(t) ==
    /\ ~Replayed(t) /\ ~Conflicts(t) /\ ~Claimed(t) /\ ~LooksAlike(t)
    /\ rows' = rows \cup {[post |-> t.post, key |-> t.key, body |-> t.body,
                           submit |-> t.submit, rendering |-> t.rendering, order |-> Cardinality(rows) + 1]}
    /\ memory' = memory \cup
           (IF t.key[1] = "none" THEN {}
            ELSE {[post |-> t.post, key |-> t.key, body |-> t.body]})
    /\ Reply(t, "saved", 0)

Process(t) ==
    /\ t.at = "request"
    /\ Replay(t) \/ Conflict(t) \/ Refuse(t) \/ Record(t)
    /\ UNCHANGED <<form, page>>

----------------------------------------------------------------------------
(* Answers, and connections that fail. *)

\* The form hears the answer of its last submission.  A success renders the
\* page again, and a form that holds its key takes a new one.  The override
\* is on the form only while it shows a possible duplicate.
Told(t, answer) ==
    IF page.status = "sent" /\ t.submit = page.submits
    THEN page' = [page EXCEPT !.status = "told", !.said = answer, !.names = t.names,
                      !.override = @ /\ answer = "duplicate",
                      !.rendering = IF answer = "saved" THEN @ + 1 ELSE @]
    ELSE page' = page

SecondPost(t) ==
    [t EXCEPT !.post = 2, !.at = "request", !.answer = "none",
              !.body = BodyOf(t.body.entry, t.body.fixes, t.submit, 2, t.separate)]

\* Mutant: the second post is not made.
AnswerFirst(t) ==
    /\ t.at = "reply" /\ t.awaited
    /\ trips' = trips \ {t} /\ Told(t, t.answer)
    /\ UNCHANGED <<form, memory, rows>>

\* The server action reads the backend's answer: it goes on to its second
\* post, or answers the form.
Answer(t) ==
    /\ t.at = "reply" /\ t.awaited
    /\ IF t.answer = "saved" /\ t.post < form.posts
       THEN trips' = (trips \ {t}) \cup {SecondPost(t)} /\ page' = page
       ELSE trips' = trips \ {t} /\ Told(t, t.answer)
    /\ UNCHANGED <<form, memory, rows>>

\* The fetch of lib/api.ts fails.  Its request, if it was not lost, may still
\* reach the backend.
FetchFails(t) ==
    /\ t.awaited
    /\ \/ trips' = trips \ {t}
       \/ t.at = "request" /\ trips' = (trips \ {t}) \cup {[t EXCEPT !.awaited = FALSE]}
    /\ Told(t, "unanswered")
    /\ UNCHANGED <<form, memory, rows>>

\* A request nobody waits for is lost, or its answer is.
Forget(t) ==
    /\ ~t.awaited
    /\ trips' = trips \ {t}
    /\ UNCHANGED <<form, page, memory, rows>>

\* The browser loses its connection to the dashboard, whose server action
\* runs on.
BrowserFails ==
    /\ page.status = "sent"
    /\ page' = [page EXCEPT !.status = IF form.stays THEN "told" ELSE "broken",
                            !.said = "unanswered", !.names = 0]
    /\ UNCHANGED <<form, trips, memory, rows>>

----------------------------------------------------------------------------

Init ==
    /\ form \in Cases
    /\ form.guarded \/ ~(form.reference \/ form.twins)
    /\ page = [entry |-> 1, fixes |-> 0, override |-> FALSE, rendering |-> 0,
               submits |-> 0, status |-> "ready", said |-> "nothing", names |-> 0]
    /\ trips = {} /\ memory = {} /\ rows = {}

Staff == Submit \/ Fix \/ Override \/ NextEntry \/ Rerender \/ Reload

Serve == \E t \in trips : Process(t) \/ Answer(t)

Faults == BrowserFails \/ \E t \in trips : FetchFails(t) \/ Forget(t)

Next == Staff \/ Serve \/ Faults

\* The backend answers every request that reaches it and the dashboard reads
\* every answer; nothing makes staff submit or connections fail.
Spec == Init /\ [][Next]_vars /\ WF_vars(Serve)

----------------------------------------------------------------------------

Recorded(entry, post) == {r \in rows : r.post = post /\ r.body.entry = entry}

\* A payment is recorded once, whatever was lost and however often it was
\* sent, refused, overridden or typed again, unless another payment looks
\* the same and neither has a reference (duplicates.py, claim and
\* check_possible).
MoneyOnce ==
    form.guarded /\ (form.reference \/ ~form.twins) =>
        \A e \in 1..MaxEntries : Cardinality(Recorded(e, form.posts)) <= 1

\* While staff stay on one rendering, a form that keeps its key has each
\* entry recorded at most once, and no two entries under one key, through
\* double clicks, lost answers and retries (services.replay).
OncePerRendering ==
    form.key \in {"page", "form"} =>
        \A r, q \in rows : r.post = q.post /\ r.rendering = q.rendering => r = q

\* "Saved" is said only of what the backend has: every post of the entry on
\* the form, as the entry was last typed (api.ts throws on every other
\* answer; a replay answers for the same payload only).
SavedIsRecorded ==
    page.status = "told" /\ page.said = "saved" =>
        \A post \in 1..form.posts : \E r \in Recorded(page.entry, post) :
            r.body.fixes = page.fixes

\* The button never waits for ever: a submission is answered or its
\* connection is seen to fail (fetch settles, api.ts:61-67).
AnswerComes == (page.status = "sent") ~> (page.status # "sent")

\* finance-actions.ts:27: "The form renders one key; a double click or a
\* retry after a lost answer then records the payment once."
RetryRecordsOnce ==
    form.guarded =>
        \A e \in 1..MaxEntries : Cardinality(Recorded(e, form.posts)) <= 1

============================================================================
