---------------------------- MODULE FormsProofs -----------------------------
(***************************************************************************)
(* Type correctness of Forms and its three safety properties, for every    *)
(* form of FormTables and any number of entries, submissions and           *)
(* renderings.  The invariant follows a submission from the page through   *)
(* the backend and back: what its trip carries is what the page holds, and *)
(* what an answer says is what the rows have.                              *)
(***************************************************************************)
EXTENDS Forms, FiniteSetTheorems, WellFoundedInduction, TLAPS

\* A success renders the page again once for each submission.
Spare ==
    /\ page.rendering + (IF page.status = "sent" THEN 1 ELSE 0) <= MaxRenderings + page.submits
    /\ page.status = "sent" => page.submits >= 1

Has(post, body) ==
    \E r \in rows : r.post = post /\ r.body.entry = body.entry /\ r.body.fixes = body.fixes

\* The trip of the submission the page waits for carries what the page holds.
CarriesPage ==
    \A t \in trips :
        /\ t.submit <= page.submits
        /\ page.status = "sent" /\ t.submit = page.submits =>
              t.body.entry = page.entry /\ t.body.fixes = page.fixes

\* A trip is at its second post when its first was recorded, and a reply says
\* "saved" when its post was.
SavedIsHad ==
    \A t \in trips :
        /\ t.post = 2 => Has(1, t.body)
        /\ t.at = "reply" => t.answer # "none"
        /\ t.at = "reply" /\ t.answer = "saved" => Has(t.post, t.body)

\* The records of answers are of rows.
Remembered ==
    \A m \in memory : \E r \in rows : r.post = m.post /\ r.key = m.key /\ r.body = m.body

\* A key the form keeps is of one rendering, and is remembered with the row.
KeyOfRendering ==
    form.key \in {"page", "form"} =>
        /\ \A t \in trips : t.key = <<form.key, t.rendering>>
        /\ \A r \in rows : /\ r.key = <<form.key, r.rendering>>
                           /\ \E m \in memory : m.post = r.post /\ m.key = r.key

\* No payment is recorded twice.
PaidOnce ==
    form.guarded /\ (form.reference \/ ~form.twins) =>
        \A r, q \in rows :
            r.post = form.posts /\ q.post = form.posts /\ r.body.entry = q.body.entry => r = q

\* Staff who see that a possible duplicate is the entry itself never override.
NeverOverridden ==
    form.guarded /\ ~form.reference /\ ~form.twins =>
        /\ ~page.override
        /\ page.status = "told" /\ page.said = "duplicate" => page.names = page.entry
        /\ \A t \in trips :
              /\ ~t.separate /\ ~t.body.override
              /\ t.at = "reply" /\ t.answer = "duplicate" => t.names = t.body.entry

IInv ==
    /\ TypeOK /\ IsFiniteSet(rows) /\ Spare
    /\ CarriesPage /\ SavedIsHad /\ Remembered /\ SavedIsRecorded
    /\ KeyOfRendering /\ OncePerRendering
    /\ PaidOnce /\ NeverOverridden

-----------------------------------------------------------------------------
(* Types.                                                                  *)

PageType ==
    [entry : 1..MaxEntries, fixes : 0..1, override : BOOLEAN,
     rendering : Renderings, submits : 0..MaxSubmits,
     status : {"ready", "sent", "told", "broken"},
     said : Answers \cup {"nothing"}, names : 0..MaxEntries]

MemoryType == [post : 1..2, key : Keys, body : Body]

RowTyped(r) ==
    /\ r.post \in 1..2 /\ r.key \in Keys /\ r.body \in Body
    /\ r.submit \in 1..MaxSubmits /\ r.rendering \in Renderings /\ r.order \in Nat \ {0}

LEMMA TypeParts ==
    TypeOK <=> /\ form \in Cases /\ page \in PageType /\ trips \subseteq Trip
               /\ memory \subseteq MemoryType /\ \A r \in rows : RowTyped(r)
  BY DEF TypeOK, PageType, MemoryType, RowTyped

LEMMA BoundsAreNumbers == MaxEntries \in Nat \ {0} /\ MaxSubmits \in Nat \ {0} /\ MaxRenderings \in Nat \ {0}
  BY FormsAssumption

\* The fields of a trip, of a body and of a page.
LEMMA TripTyped ==
    ASSUME NEW t \in Trip
    PROVE  /\ t.submit \in 1..MaxSubmits /\ t.post \in 1..2 /\ t.key \in Keys /\ t.body \in Body
           /\ t.rendering \in Renderings /\ t.separate \in BOOLEAN
           /\ t.answer \in Answers \cup {"none"} /\ t.names \in 0..MaxEntries
           /\ t.body.entry \in 1..MaxEntries /\ t.body.fixes \in 0..1 /\ t.body.override \in BOOLEAN
<1>1. t.body \in Body
  BY DEF Trip
<1> QED
  BY <1>1 DEF Trip, Body

LEMMA PageTyped ==
    ASSUME NEW g \in PageType
    PROVE  /\ g.entry \in 1..MaxEntries /\ g.fixes \in 0..1 /\ g.override \in BOOLEAN
           /\ g.rendering \in 0..(MaxRenderings + MaxSubmits) /\ g.submits \in 0..MaxSubmits
           /\ g.rendering \in Int /\ g.submits \in Int /\ g.entry \in Int
  BY BoundsAreNumbers DEF PageType, Renderings

\* The answer of trip t.
Answered(t, answer, names) == [t EXCEPT !.at = "reply", !.answer = answer, !.names = names]

LEMMA AnsweredIs ==
    ASSUME NEW t \in Trip, NEW answer \in Answers, NEW names \in 0..MaxEntries
    PROVE  LET n == Answered(t, answer, names)
           IN  /\ n \in Trip /\ n.submit = t.submit /\ n.post = t.post /\ n.key = t.key
               /\ n.body = t.body /\ n.rendering = t.rendering /\ n.separate = t.separate
               /\ n.at = "reply" /\ n.answer = answer /\ n.names = names
  BY DEF Trip, Answered

LEMMA BodyTyped ==
    ASSUME NEW entry \in 1..MaxEntries, NEW fixes \in 0..1, NEW submit \in 1..MaxSubmits,
           NEW post \in 1..2, NEW separate \in BOOLEAN
    PROVE  LET b == BodyOf(entry, fixes, submit, post, separate)
           IN  /\ b \in Body /\ b.entry = entry /\ b.fixes = fixes
               /\ (~separate => ~b.override)
  BY BoundsAreNumbers DEF BodyOf, Body

-----------------------------------------------------------------------------
(* Staff and the page.                                                     *)

\* What holds of the backend still does when only pages and trips change.
LEMMA BackendKept ==
    ASSUME IInv, UNCHANGED <<form, memory, rows>>
    PROVE  /\ form' \in Cases /\ memory' \subseteq MemoryType /\ (\A r \in rows' : RowTyped(r))
           /\ IsFiniteSet(rows') /\ Remembered' /\ OncePerRendering' /\ PaidOnce'
<1>1. form' = form /\ memory' = memory /\ rows' = rows
  OBVIOUS
<1>2. form \in Cases /\ memory \subseteq MemoryType /\ (\A r \in rows : RowTyped(r))
  BY TypeParts DEF IInv
<1> QED
  BY <1>1, <1>2 DEF IInv, Remembered, OncePerRendering, PaidOnce

\* A page that goes on waiting for the same, or for nothing.
PageGoesOn ==
    /\ page' \in PageType /\ page'.submits = page.submits
    /\ page'.status = "sent" =>
          page.status = "sent" /\ page'.entry = page.entry /\ page'.fixes = page.fixes
    /\ page'.status = "told" /\ page'.said = "saved" =>
          /\ page.status = "told" /\ page.said = "saved"
          /\ page'.entry = page.entry /\ page'.fixes = page.fixes
    /\ \/ page'.override = FALSE \/ page'.override = page.override
       \/ page.status = "told" /\ page.said = "duplicate" /\ page.names # page.entry
    /\ page'.status = "told" /\ page'.said = "duplicate" =>
          /\ page.status = "told" /\ page.said = "duplicate"
          /\ page'.names = page.names /\ page'.entry = page.entry

LEMMA PageStep ==
    ASSUME IInv, UNCHANGED <<form, trips, memory, rows>>, Spare', PageGoesOn
    PROVE  IInv'
<1>1. form' = form /\ trips' = trips /\ memory' = memory /\ rows' = rows
  OBVIOUS
<1>2. TypeOK'
  BY <1>1, TypeParts, BackendKept DEF PageGoesOn, IInv, TypeOK, PageType, MemoryType, RowTyped
<1>3. CarriesPage'
  BY <1>1 DEF IInv, CarriesPage, PageGoesOn
<1>4. SavedIsHad'
  BY <1>1 DEF IInv, SavedIsHad, Has
<1>5. SavedIsRecorded'
  BY <1>1 DEF IInv, SavedIsRecorded, Recorded, PageGoesOn
<1>6. KeyOfRendering'
  BY <1>1 DEF IInv, KeyOfRendering
<1>7. NeverOverridden'
  BY <1>1 DEF IInv, NeverOverridden, PageGoesOn
<1> QED
  BY <1>2, <1>3, <1>4, <1>5, <1>6, <1>7, BackendKept DEF IInv

LEMMA FixSafe == IInv /\ Fix => IInv'
<1> SUFFICES ASSUME IInv, Fix PROVE IInv'
  OBVIOUS
<1>1. page \in PageType
  BY TypeParts DEF IInv
<1>2. page.status = "told" /\ page.said = "refused" /\ page' = [page EXCEPT !.fixes = 1]
  BY DEF Fix
<1>3. /\ page' \in PageType /\ page'.submits = page.submits /\ page'.status = page.status
      /\ page'.said = page.said /\ page'.entry = page.entry /\ page'.override = page.override
      /\ page'.rendering = page.rendering
  BY <1>1, <1>2 DEF PageType
<1>4. Spare'
  BY <1>3 DEF Spare, IInv
<1>5. UNCHANGED <<form, trips, memory, rows>>
  BY DEF Fix
<1>6. PageGoesOn
  BY <1>2, <1>3 DEF PageGoesOn
<1> QED
  BY <1>4, <1>5, <1>6, PageStep

LEMMA OverrideSafe == IInv /\ Override => IInv'
<1> SUFFICES ASSUME IInv, Override PROVE IInv'
  OBVIOUS
<1>1. page \in PageType
  BY TypeParts DEF IInv
<1>2. /\ page.status = "told" /\ page.said = "duplicate" /\ page.names # page.entry
      /\ page' = [page EXCEPT !.override = TRUE]
  BY DEF Override
<1>3. /\ page' \in PageType /\ page'.submits = page.submits /\ page'.status = page.status
      /\ page'.said = page.said /\ page'.entry = page.entry /\ page'.names = page.names
      /\ page'.rendering = page.rendering
  BY <1>1, <1>2 DEF PageType
<1>4. Spare'
  BY <1>3 DEF Spare, IInv
<1>5. UNCHANGED <<form, trips, memory, rows>>
  BY DEF Override
<1>6. PageGoesOn
  BY <1>2, <1>3 DEF PageGoesOn
<1> QED
  BY <1>4, <1>5, <1>6, PageStep

LEMMA NextEntrySafe == IInv /\ NextEntry => IInv'
<1> SUFFICES ASSUME IInv, NextEntry PROVE IInv'
  OBVIOUS
<1>1. page \in PageType
  BY TypeParts DEF IInv
<1>2. /\ page.status = "told" /\ page.entry < MaxEntries
      /\ page' = [page EXCEPT !.entry = page.entry + 1, !.fixes = 0, !.override = FALSE,
                              !.status = "ready", !.said = "nothing", !.names = 0]
  BY DEF NextEntry
<1> DEFINE e == page.entry + 1
<1>3. e \in 1..MaxEntries /\ 0 \in 0..MaxEntries /\ 0 \in 0..1
  BY <1>1, <1>2, PageTyped, BoundsAreNumbers
<1>6. page' = [page EXCEPT !.entry = e, !.fixes = 0, !.override = FALSE,
                           !.status = "ready", !.said = "nothing", !.names = 0]
  BY <1>2
<1> HIDE DEF e
<1>4. /\ page' \in PageType /\ page'.submits = page.submits /\ page'.status = "ready"
      /\ page'.override = FALSE /\ page'.rendering = page.rendering
  BY <1>1, <1>3, <1>6 DEF PageType
<1>5. Spare'
  BY <1>2, <1>4 DEF Spare, IInv
<1>7. UNCHANGED <<form, trips, memory, rows>>
  BY DEF NextEntry
<1>8. PageGoesOn
  BY <1>2, <1>4 DEF PageGoesOn
<1> QED
  BY <1>5, <1>7, <1>8, PageStep

LEMMA RerenderSafe == IInv /\ Rerender => IInv'
<1> SUFFICES ASSUME IInv, Rerender PROVE IInv'
  OBVIOUS
<1>1. page \in PageType
  BY TypeParts DEF IInv
<1>2. page.rendering < MaxRenderings /\ page' = [page EXCEPT !.rendering = page.rendering + 1]
  BY DEF Rerender
<1>3. page.rendering + 1 \in Renderings /\ page.submits \in Nat /\ page.rendering \in Nat
  BY <1>1, <1>2, PageTyped, BoundsAreNumbers DEF Renderings
<1>4. /\ page' \in PageType /\ page'.submits = page.submits /\ page'.status = page.status
      /\ page'.said = page.said /\ page'.entry = page.entry /\ page'.fixes = page.fixes
      /\ page'.override = page.override /\ page'.names = page.names
      /\ page'.rendering = page.rendering + 1
  BY <1>1, <1>2, <1>3 DEF PageType
<1>5. Spare'
  <2>1. page.status = "sent" => page.submits >= 1
    BY <1>3 DEF IInv, Spare
  <2> QED
    BY <1>2, <1>3, <1>4, <2>1, BoundsAreNumbers DEF Spare
<1>6. UNCHANGED <<form, trips, memory, rows>>
  BY DEF Rerender
<1>7. PageGoesOn
  BY <1>4 DEF PageGoesOn
<1> QED
  BY <1>5, <1>6, <1>7, PageStep

LEMMA ReloadSafe == IInv /\ Reload => IInv'
<1> SUFFICES ASSUME IInv, Reload PROVE IInv'
  OBVIOUS
<1>1. page \in PageType
  BY TypeParts DEF IInv
<1> DEFINE r == page.rendering + 1
<1>2. /\ page.rendering < MaxRenderings /\ page.status \in {"broken", "told"}
      /\ page' = [page EXCEPT !.rendering = r, !.override = FALSE,
                              !.status = "ready", !.said = "nothing", !.names = 0]
  BY DEF Reload
<1>3. r \in Renderings /\ 0 \in 0..MaxEntries /\ page.submits \in Nat /\ page.rendering \in Nat
  BY <1>1, <1>2, PageTyped, BoundsAreNumbers DEF Renderings
<1> HIDE DEF r
<1>4. /\ page' \in PageType /\ page'.submits = page.submits /\ page'.status = "ready"
      /\ page'.override = FALSE /\ page'.rendering = r
  BY <1>1, <1>2, <1>3 DEF PageType
<1>5. Spare'
  BY <1>2, <1>3, <1>4, BoundsAreNumbers DEF Spare, r
<1>6. UNCHANGED <<form, trips, memory, rows>>
  BY DEF Reload
<1>7. PageGoesOn
  BY <1>4 DEF PageGoesOn
<1> QED
  BY <1>5, <1>6, <1>7, PageStep

LEMMA BrowserFailsSafe == IInv /\ BrowserFails => IInv'
<1> SUFFICES ASSUME IInv, BrowserFails PROVE IInv'
  OBVIOUS
<1>1. page \in PageType
  BY TypeParts DEF IInv
<1> DEFINE st == IF form.stays THEN "told" ELSE "broken"
<1>2. page.status = "sent" /\ page' = [page EXCEPT !.status = st, !.said = "unanswered", !.names = 0]
  BY DEF BrowserFails
<1>3. st \in {"told", "broken"} /\ 0 \in 0..MaxEntries
  BY BoundsAreNumbers
<1> HIDE DEF st
<1>4. /\ page' \in PageType /\ page'.submits = page.submits /\ page'.status = st
      /\ page'.said = "unanswered" /\ page'.override = page.override
      /\ page'.rendering = page.rendering
  BY <1>1, <1>2, <1>3 DEF PageType, Answers
<1>5. Spare'
  BY <1>1, <1>2, <1>3, <1>4, PageTyped, BoundsAreNumbers DEF Spare, IInv
<1>6. UNCHANGED <<form, trips, memory, rows>>
  BY DEF BrowserFails
<1>7. PageGoesOn
  BY <1>3, <1>4 DEF PageGoesOn
<1> QED
  BY <1>5, <1>6, <1>7, PageStep
-----------------------------------------------------------------------------
(* Trips.                                                                  *)

Plain == form.guarded /\ ~form.reference /\ ~form.twins

\* All that the invariant says of a trip.
TripFine(t) ==
    /\ t \in Trip
    /\ t.submit <= page.submits
    /\ page.status = "sent" /\ t.submit = page.submits =>
          t.body.entry = page.entry /\ t.body.fixes = page.fixes
    /\ t.post = 2 => Has(1, t.body)
    /\ t.at = "reply" => t.answer # "none"
    /\ t.at = "reply" /\ t.answer = "saved" => Has(t.post, t.body)
    /\ form.key \in {"page", "form"} => t.key = <<form.key, t.rendering>>
    /\ Plain => /\ ~t.separate /\ ~t.body.override
                /\ t.at = "reply" /\ t.answer = "duplicate" => t.names = t.body.entry

PageFine ==
    Plain => /\ ~page.override
             /\ page.status = "told" /\ page.said = "duplicate" => page.names = page.entry

RowsKeyed ==
    form.key \in {"page", "form"} =>
        \A r \in rows : /\ r.key = <<form.key, r.rendering>>
                       /\ \E m \in memory : m.post = r.post /\ m.key = r.key

\* The invariant in terms of trips, the page and the backend.
Parts ==
    /\ TypeOK /\ IsFiniteSet(rows) /\ Spare /\ SavedIsRecorded
    /\ \A t \in trips : TripFine(t)
    /\ PageFine /\ Remembered /\ OncePerRendering /\ PaidOnce /\ RowsKeyed

LEMMA InvariantParts == IInv <=> Parts
<1>1. ASSUME TypeOK
      PROVE  (\A t \in trips : TripFine(t)) /\ PageFine
                <=> /\ CarriesPage /\ SavedIsHad /\ NeverOverridden
                    /\ form.key \in {"page", "form"} => \A t \in trips : t.key = <<form.key, t.rendering>>
  <2>1. trips \subseteq Trip
    BY <1>1, TypeParts
  <2> QED
    BY <2>1 DEF TripFine, CarriesPage, SavedIsHad, NeverOverridden, PageFine, Plain
<1> QED
  BY <1>1 DEF IInv, KeyOfRendering, RowsKeyed, Parts

LEMMA InvariantPartsNext == IInv' <=> Parts'
  BY InvariantParts, PTL

\* Trips go on, and one becomes n.
LEMMA TripsStep ==
    ASSUME IInv, UNCHANGED <<form, memory, rows>>, NEW n, TripFine(n), trips' \subseteq trips \cup {n},
           page' \in PageType, Spare', page'.submits = page.submits,
           page'.status = "sent" =>
              page.status = "sent" /\ page'.entry = page.entry /\ page'.fixes = page.fixes,
           SavedIsRecorded', PageFine'
    PROVE  IInv'
<1>1. form' = form /\ memory' = memory /\ rows' = rows
  OBVIOUS
<1>2. \A t \in trips' : TripFine(t)
  BY InvariantParts DEF Parts
<1>3. trips' \subseteq Trip
  BY <1>2 DEF TripFine
<1>4. TypeOK'
  BY <1>1, <1>3, TypeParts, BackendKept DEF TypeOK, PageType, MemoryType, RowTyped
<1>5. ASSUME NEW t \in trips' PROVE TripFine(t)'
  BY <1>1, <1>2, <1>5 DEF TripFine, Plain, Has
<1>6. \A t \in trips' : TripFine(t)'
  BY <1>5
<1>7. (\A t \in trips : TripFine(t))'
  BY <1>6
<1>8. RowsKeyed'
  BY <1>1, InvariantParts DEF Parts, RowsKeyed
<1>9. IsFiniteSet(rows') /\ Remembered' /\ OncePerRendering' /\ PaidOnce'
  BY BackendKept
<1> QED
  BY <1>4, <1>7, <1>8, <1>9, InvariantPartsNext DEF Parts
\* The trip that sets out carries what the page holds.
LEMMA SubmitSafe == IInv /\ Submit => IInv'
<1> SUFFICES ASSUME IInv, Submit PROVE IInv'
  OBVIOUS
<1>1. page \in PageType /\ form \in Cases
  BY TypeParts DEF IInv
<1> DEFINE k == page.submits + 1
           b == BodyOf(page.entry, page.fixes, k, 1, page.override)
<1>0. PICK n : n = [submit |-> k, post |-> 1, key |-> KeySent, body |-> b,
                    rendering |-> page.rendering, separate |-> page.override, at |-> "request",
                    awaited |-> TRUE, answer |-> "none", names |-> 0]
  OBVIOUS
<1>2. /\ page.status \in {"ready", "told"} /\ page.said # "saved" /\ page.submits < MaxSubmits
      /\ page' = [page EXCEPT !.status = "sent", !.submits = k]
      /\ trips' = trips \cup {n} /\ UNCHANGED <<form, memory, rows>>
  BY <1>0 DEF Submit
<1>3. k \in 1..MaxSubmits /\ k \in 0..MaxSubmits /\ page.submits \in Nat /\ page.rendering \in Nat
  BY <1>1, <1>2, PageTyped, BoundsAreNumbers
<1>4. KeySent \in Keys
  BY <1>1, <1>3, PageTyped, BoundsAreNumbers DEF KeySent, Keys, Renderings
<1>5. b \in Body /\ b.entry = page.entry /\ b.fixes = page.fixes /\ (~page.override => ~b.override)
  <2>1. /\ page.entry \in 1..MaxEntries /\ page.fixes \in 0..1 /\ page.override \in BOOLEAN
        /\ 1 \in 1..2
    BY <1>1, PageTyped
  <2> QED
    BY <1>3, <2>1, BodyTyped
<1>6. form.key \in {"page", "form"} => KeySent = <<form.key, page.rendering>>
  BY DEF KeySent
<1> HIDE DEF b
<1>7. n \in Trip
  <2>1. /\ page.rendering \in Renderings /\ page.override \in BOOLEAN
        /\ 0 \in 0..MaxEntries /\ 1 \in 1..2
    BY <1>1, PageTyped, BoundsAreNumbers DEF Renderings
  <2> HIDE DEF k
  <2> QED
    BY <1>0, <1>3, <1>4, <1>5, <2>1 DEF Trip
<1>8. /\ n.submit = k /\ n.post = 1 /\ n.key = KeySent /\ n.body = b /\ n.rendering = page.rendering
      /\ n.separate = page.override /\ n.at = "request"
  BY <1>0
<1>9. /\ page' \in PageType /\ page'.status = "sent" /\ page'.submits = k
      /\ page'.entry = page.entry /\ page'.fixes = page.fixes /\ page'.override = page.override
      /\ page'.rendering = page.rendering
  <2> HIDE DEF k
  <2> QED
    BY <1>1, <1>2, <1>3 DEF PageType
<1>10. form' = form /\ memory' = memory /\ rows' = rows /\ trips' = trips \cup {n}
  BY <1>2
<1>11. Spare'
  BY <1>2, <1>3, <1>9, BoundsAreNumbers DEF IInv, Spare
<1>12. SavedIsRecorded' /\ PageFine'
  BY <1>9, <1>10, InvariantParts DEF SavedIsRecorded, PageFine, Plain, Parts
<1>13. ASSUME NEW t \in trips PROVE TripFine(t)'
  <2>1. TripFine(t) /\ t \in Trip
    BY InvariantParts DEF Parts, TripFine
  <2>2. t.submit <= page'.submits /\ t.submit # page'.submits
    BY <1>3, <1>9, <2>1, TripTyped DEF TripFine
  <2> QED
    BY <1>10, <2>1, <2>2 DEF TripFine, Plain, Has
<1>14. TripFine(n)'
  <2>1. n.submit <= page'.submits
    BY <1>3, <1>8, <1>9
  <2>2. Plain => ~n.separate /\ ~n.body.override
    BY <1>5, <1>8, InvariantParts DEF Parts, PageFine
  <2> QED
    BY <1>5, <1>6, <1>7, <1>8, <1>9, <1>10, <2>1, <2>2 DEF TripFine, Plain
<1>15. (\A t \in trips : TripFine(t))'
  BY <1>10, <1>13, <1>14
<1>16. TypeOK'
  <2>1. trips' \subseteq Trip
    BY <1>15 DEF TripFine
  <2> QED
    BY <1>9, <1>10, <2>1, TypeParts, BackendKept DEF IInv, TypeOK, PageType, MemoryType, RowTyped
<1>17. RowsKeyed'
  BY <1>10, InvariantParts DEF Parts, RowsKeyed
<1>18. IsFiniteSet(rows') /\ Remembered' /\ OncePerRendering' /\ PaidOnce'
  BY <1>2, BackendKept
<1> QED
  BY <1>11, <1>12, <1>15, <1>16, <1>17, <1>18, InvariantPartsNext DEF Parts

\* The page is told the answer of trip t, or its submission is no longer the
\* page's last.
LEMMA ToldKeeps ==
    ASSUME IInv, NEW t \in trips, NEW answer \in Answers, Told(t, answer),
           UNCHANGED <<form, memory, rows>>,
           answer = "saved" => \A post \in 1..form.posts : Has(post, t.body),
           answer = "duplicate" /\ Plain => t.names = t.body.entry
    PROVE  /\ page' \in PageType /\ Spare' /\ page'.submits = page.submits
           /\ page'.status = "sent" =>
                 page.status = "sent" /\ page'.entry = page.entry /\ page'.fixes = page.fixes
           /\ SavedIsRecorded' /\ PageFine'
<1>1. page \in PageType /\ TripFine(t) /\ PageFine /\ Spare
  BY TypeParts, InvariantParts DEF IInv, Parts
<1>2. form' = form /\ memory' = memory /\ rows' = rows
  OBVIOUS
<1>3. CASE page.status = "sent" /\ t.submit = page.submits
  <2> DEFINE r == IF answer = "saved" THEN page.rendering + 1 ELSE page.rendering
             o == page.override /\ answer = "duplicate"
  <2>1. page' = [page EXCEPT !.status = "told", !.said = answer, !.names = t.names,
                            !.override = o, !.rendering = r]
    BY <1>3 DEF Told
  <2>2. o \in BOOLEAN /\ (Plain => ~o)
    BY <1>1 DEF PageFine
  <2>3. /\ page.rendering \in Nat /\ page.submits \in 0..MaxSubmits
        /\ page.rendering + 1 <= MaxRenderings + page.submits
    BY <1>1, <1>3, PageTyped, BoundsAreNumbers DEF Spare
  <2>4. r \in Renderings /\ r <= MaxRenderings + page.submits /\ r \in Nat
    BY <2>3, BoundsAreNumbers DEF Renderings
  <2>5. t.names \in 0..MaxEntries
    BY <1>1, TripTyped DEF TripFine
  <2> HIDE DEF r, o
  <2>6. /\ page' \in PageType /\ page'.status = "told" /\ page'.said = answer
        /\ page'.names = t.names /\ page'.override = o /\ page'.rendering = r
        /\ page'.submits = page.submits /\ page'.entry = page.entry /\ page'.fixes = page.fixes
    BY <1>1, <2>1, <2>2, <2>4, <2>5 DEF PageType
  <2>7. t.body.entry = page.entry /\ t.body.fixes = page.fixes
    BY <1>1, <1>3 DEF TripFine
  <2>8. Spare'
    BY <2>3, <2>4, <2>6, BoundsAreNumbers DEF Spare
  <2>9. SavedIsRecorded'
    BY <1>2, <2>6, <2>7 DEF SavedIsRecorded, Has, Recorded
  <2>10. PageFine'
    BY <1>2, <2>2, <2>6, <2>7 DEF PageFine, Plain
  <2> QED
    BY <2>6, <2>8, <2>9, <2>10
<1>4. CASE ~(page.status = "sent" /\ t.submit = page.submits)
  <2>1. page' = page
    BY <1>4 DEF Told
  <2> QED
    BY <1>1, <1>2, <2>1 DEF IInv, Spare, SavedIsRecorded, Recorded, PageFine, Plain
<1> QED
  BY <1>3, <1>4

LEMMA AnswerSafe == ASSUME IInv, NEW t \in trips, Answer(t) PROVE IInv'
<1>1. page \in PageType /\ TripFine(t) /\ t \in Trip /\ form \in Cases
  BY TypeParts, InvariantParts DEF IInv, Parts, TripFine
<1>2. t.at = "reply" /\ UNCHANGED <<form, memory, rows>>
  BY DEF Answer
<1>3. t.post \in 1..2 /\ form.posts \in 1..2
  BY <1>1, TripTyped, CasesAssumption
<1>4. CASE t.answer = "saved" /\ t.post < form.posts
  <2> DEFINE b == BodyOf(t.body.entry, t.body.fixes, t.submit, 2, t.separate)
             n == [t EXCEPT !.post = 2, !.at = "request", !.answer = "none", !.body = b]
  <2>1. page' = page /\ trips' = (trips \ {t}) \cup {n}
    BY <1>4 DEF Answer, SecondPost
  <2>2. b \in Body /\ b.entry = t.body.entry /\ b.fixes = t.body.fixes /\ (~t.separate => ~b.override)
    <3>1. /\ t.body.entry \in 1..MaxEntries /\ t.body.fixes \in 0..1 /\ t.submit \in 1..MaxSubmits
          /\ t.separate \in BOOLEAN /\ 2 \in 1..2
      BY <1>1, TripTyped
    <3> QED
      BY <3>1, BodyTyped
  <2> HIDE DEF b
  <2>3. /\ n \in Trip /\ n.submit = t.submit /\ n.post = 2 /\ n.key = t.key /\ n.body = b
        /\ n.rendering = t.rendering /\ n.separate = t.separate /\ n.at = "request"
    <3>1. t \in Trip /\ b \in Body /\ 2 \in 1..2
      BY <1>1, <2>2
    <3> QED
      BY ONLY <3>1 DEF Trip, n
  <2> HIDE DEF n
  <2>4. t.post = 1
    BY <1>3, <1>4
  <2>5. Has(1, b)
    BY <1>1, <1>2, <1>4, <2>2, <2>4 DEF TripFine, Has
  <2>6. TripFine(n)
    BY <1>1, <2>2, <2>3, <2>5 DEF TripFine
  <2>7. trips' \subseteq trips \cup {n}
    BY <2>1
  <2>8. /\ page' \in PageType /\ Spare' /\ page'.submits = page.submits /\ SavedIsRecorded' /\ PageFine'
    BY <1>1, <1>2, <2>1, InvariantParts DEF Parts, Spare, SavedIsRecorded, Recorded, PageFine, Plain
  <2> QED
    BY <1>2, <2>1, <2>6, <2>7, <2>8, TripsStep
<1>5. CASE ~(t.answer = "saved" /\ t.post < form.posts)
  <2>1. trips' = trips \ {t} /\ Told(t, t.answer)
    BY <1>5 DEF Answer
  <2>2. t.answer \in Answers \cup {"none"}
    BY <1>1, TripTyped
  <2>3. t.answer # "none"
    BY <1>1, <1>2, InvariantParts DEF Parts, TripFine
  <2>4. ASSUME t.answer = "saved", NEW post \in 1..form.posts PROVE Has(post, t.body)
    <3>1. form.posts <= t.post
      BY <1>3, <1>5, <2>4
    <3>2. post = t.post \/ (post = 1 /\ t.post = 2)
      BY <1>3, <3>1
    <3> QED
      BY <1>1, <1>2, <2>4, <3>2 DEF TripFine
  <2>5. Plain /\ t.answer = "duplicate" => t.names = t.body.entry
    BY <1>1, <1>2 DEF TripFine
  <2>6. /\ page' \in PageType /\ Spare' /\ page'.submits = page.submits
        /\ page'.status = "sent" =>
              page.status = "sent" /\ page'.entry = page.entry /\ page'.fixes = page.fixes
        /\ SavedIsRecorded' /\ PageFine'
    BY <1>2, <2>1, <2>2, <2>3, <2>4, <2>5, ToldKeeps
  <2>7. trips' \subseteq trips \cup {t}
    BY <2>1
  <2> QED
    BY <1>1, <1>2, <2>6, <2>7, TripsStep
<1> QED
  BY <1>4, <1>5

LEMMA FetchFailsSafe == ASSUME IInv, NEW t \in trips, FetchFails(t) PROVE IInv'
<1>1. TripFine(t) /\ t \in Trip
  BY InvariantParts DEF Parts, TripFine
<1>2. /\ UNCHANGED <<form, memory, rows>> /\ Told(t, "unanswered")
      /\ \/ trips' = trips \ {t}
         \/ t.at = "request" /\ trips' = (trips \ {t}) \cup {[t EXCEPT !.awaited = FALSE]}
  BY DEF FetchFails
<1>3. /\ page' \in PageType /\ Spare' /\ page'.submits = page.submits
      /\ page'.status = "sent" =>
            page.status = "sent" /\ page'.entry = page.entry /\ page'.fixes = page.fixes
      /\ SavedIsRecorded' /\ PageFine'
  BY <1>2, ToldKeeps DEF Answers
<1>4. CASE trips' = trips \ {t}
  <2>1. trips' \subseteq trips \cup {t}
    BY <1>4
  <2> QED
    BY <1>1, <1>2, <1>3, <2>1, TripsStep
<1>5. CASE t.at = "request" /\ trips' = (trips \ {t}) \cup {[t EXCEPT !.awaited = FALSE]}
  <2> DEFINE n == [t EXCEPT !.awaited = FALSE]
  <2>1. /\ n \in Trip /\ n.submit = t.submit /\ n.post = t.post /\ n.key = t.key /\ n.body = t.body
        /\ n.rendering = t.rendering /\ n.separate = t.separate /\ n.at = t.at
    <3>1. t \in Trip
      BY <1>1
    <3> QED
      BY ONLY <3>1 DEF Trip, n
  <2>2. trips' \subseteq trips \cup {n}
    BY <1>5
  <2> HIDE DEF n
  <2>3. TripFine(n)
    BY <1>1, <1>5, <2>1 DEF TripFine
  <2> QED
    BY <1>2, <1>3, <2>2, <2>3, TripsStep
<1> QED
  BY <1>2, <1>4, <1>5

LEMMA ForgetSafe == ASSUME IInv, NEW t \in trips, Forget(t) PROVE IInv'
<1>1. TripFine(t) /\ page \in PageType
  BY TypeParts, InvariantParts DEF IInv, Parts
<1>2. UNCHANGED <<form, memory, rows>> /\ page' = page /\ trips' \subseteq trips \cup {t}
  BY DEF Forget
<1>3. /\ page' \in PageType /\ Spare' /\ page'.submits = page.submits /\ SavedIsRecorded' /\ PageFine'
  BY <1>1, <1>2, InvariantParts DEF Parts, Spare, SavedIsRecorded, Recorded, PageFine, Plain
<1> QED
  BY <1>1, <1>2, <1>3, TripsStep

-----------------------------------------------------------------------------
(* The backend.                                                            *)

\* An answer that is true of the rows leaves the invariant.
LEMMA ReplySafe ==
    ASSUME IInv, NEW t \in trips, NEW answer \in Answers, NEW names \in 0..MaxEntries,
           Reply(t, answer, names), UNCHANGED <<form, page, memory, rows>>,
           answer = "saved" => Has(t.post, t.body),
           answer = "duplicate" /\ Plain => names = t.body.entry
    PROVE  IInv'
<1>1. TripFine(t) /\ t \in Trip /\ page \in PageType
  BY TypeParts, InvariantParts DEF IInv, Parts, TripFine
<1> DEFINE n == Answered(t, answer, names)
<1>2. /\ n \in Trip /\ n.submit = t.submit /\ n.post = t.post /\ n.key = t.key
      /\ n.body = t.body /\ n.rendering = t.rendering /\ n.separate = t.separate
      /\ n.at = "reply" /\ n.answer = answer /\ n.names = names
  BY <1>1, AnsweredIs
<1>3. trips' \subseteq trips \cup {n}
  BY DEF Reply, Answered
<1> HIDE DEF n
<1>4. TripFine(n)
  BY <1>1, <1>2 DEF TripFine, Answers
<1>5. page' = page /\ UNCHANGED <<form, memory, rows>>
  OBVIOUS
<1>6. /\ page' \in PageType /\ Spare' /\ page'.submits = page.submits /\ SavedIsRecorded' /\ PageFine'
  BY <1>1, <1>5, InvariantParts DEF Parts, Spare, SavedIsRecorded, Recorded, PageFine, Plain
<1> QED
  BY <1>3, <1>4, <1>5, <1>6, TripsStep

\* Finitely many rows have an earliest: the one with the fewest before it.
LEMMA EarliestExists ==
    ASSUME NEW S, IsFiniteSet(S), S # {}, \A r \in S : r.order \in Nat
    PROVE  \E r \in S : \A q \in S : r.order <= q.order
<1> DEFINE Before(r) == {q \in S : q.order < r.order}
           R == StrictSubsetOrdering(S)
           T == {Before(r) : r \in S}
<1>1. IsWellFoundedOn(R, FiniteSubsetsOf(S))
  BY FS_StrictSubsetOrderingWellFounded
<1>2. T \subseteq FiniteSubsetsOf(S) /\ T # {}
  <2>1. \A r \in S : Before(r) \in SUBSET S
    OBVIOUS
  <2>2. \A r \in S : IsFiniteSet(Before(r))
    BY <2>1, FS_Subset
  <2> QED
    BY <2>1, <2>2 DEF FiniteSubsetsOf
<1>3. PICK X \in T : \A Y \in T : ~ (<<Y, X>> \in R)
  <2> HIDE DEF R, T
  <2> QED
    BY <1>1, <1>2, WFMin
<1>4. PICK r \in S : X = Before(r)
  OBVIOUS
<1>5. ASSUME NEW q \in S, q.order < r.order PROVE FALSE
  <2>1. Before(q) \in T /\ Before(q) \subseteq Before(r) /\ Before(q) \in SUBSET S /\ Before(r) \in SUBSET S
    <3>1. \A k \in S : k.order < q.order => k.order < r.order
      BY <1>5
    <3> QED
      BY <3>1
  <2>2. q \in Before(r) /\ q \notin Before(q)
    BY <1>5
  <2>3. <<Before(q), Before(r)>> \in R
    BY <2>1, <2>2 DEF StrictSubsetOrdering
  <2> QED
    BY <1>3, <1>4, <2>1, <2>3
<1> QED
  BY <1>5

\* A possible duplicate is named by an entry of the rows that look like it.
LEMMA NamedIsEarlier ==
    ASSUME IInv, NEW t \in trips, Earlier(t) # {}
    PROVE  \E r \in Earlier(t) : Named(t) = r.body.entry
<1>1. \A r \in rows : r.order \in Nat
  BY TypeParts DEF IInv, RowTyped
<1>2. IsFiniteSet(Earlier(t)) /\ \A r \in Earlier(t) : r.order \in Nat
  <2>1. Earlier(t) \subseteq rows
    BY DEF Earlier
  <2> QED
    BY <1>1, <2>1, FS_Subset DEF IInv
<1>3. \E r \in Earlier(t) : \A q \in Earlier(t) : r.order <= q.order
  BY <1>2, EarliestExists
<1> QED
  BY <1>3 DEF Named

LEMMA RefusedSafe ==
    ASSUME IInv, NEW t \in trips, Replay(t) \/ Conflict(t) \/ Refuse(t), UNCHANGED <<form, page>>
    PROVE  IInv'
<1>1. t \in Trip /\ UNCHANGED <<form, page, memory, rows>>
  BY InvariantParts DEF Parts, TripFine, Replay, Conflict, Refuse
<1>2. 0 \in 0..MaxEntries
  BY BoundsAreNumbers
<1>3. CASE Replay(t)
  <2>1. Has(t.post, t.body)
    BY <1>3 DEF Replay, Replayed, Has, IInv, Remembered
  <2>2. Reply(t, "saved", 0)
    BY <1>3 DEF Replay
  <2> QED
    BY <1>1, <1>2, <2>1, <2>2, ReplySafe DEF Answers
<1>4. ASSUME NEW answer \in {"conflict", "claimed", "refused"}, Reply(t, answer, 0) PROVE IInv'
  <2>1. answer \in Answers
    BY DEF Answers
  <2> QED
    BY <1>1, <1>2, <1>4, <2>1, ReplySafe
<1>5. CASE LooksAlike(t) /\ Reply(t, "duplicate", Named(t))
  <2>1. PICK r \in Earlier(t) : Named(t) = r.body.entry
    BY <1>5, NamedIsEarlier DEF LooksAlike
  <2>2. Named(t) \in 0..MaxEntries
    <3>1. r.body \in Body
      BY <2>1, TypeParts DEF IInv, RowTyped, Earlier
    <3> QED
      BY <2>1, <3>1, BoundsAreNumbers DEF Body
  <2>3. Plain => Named(t) = t.body.entry
    BY <2>1 DEF Plain, Earlier
  <2> QED
    BY <1>1, <1>5, <2>2, <2>3, ReplySafe DEF Answers
<1> QED
  BY <1>3, <1>4, <1>5 DEF Conflict, Refuse

\* What is recorded is new: no row has its key and post, and none of its
\* entry is the same payment.
LEMMA RecordIsNew ==
    ASSUME IInv, NEW t \in trips, Record(t), NEW q \in rows
    PROVE  /\ form.key \in {"page", "form"} => ~(q.post = t.post /\ q.rendering = t.rendering)
           /\ form.guarded /\ (form.reference \/ ~form.twins) =>
                 ~(t.post = form.posts /\ q.post = form.posts /\ q.body.entry = t.body.entry)
<1>1. TripFine(t) /\ ~Replayed(t) /\ ~Conflicts(t) /\ ~Claimed(t) /\ ~LooksAlike(t)
  BY InvariantParts DEF Parts, Record
<1>2. ASSUME form.key \in {"page", "form"}, q.post = t.post, q.rendering = t.rendering PROVE FALSE
  <2>1. q.key = t.key
    BY <1>1, <1>2, InvariantParts DEF Parts, RowsKeyed, TripFine
  <2>2. PICK m \in memory : m.post = t.post /\ m.key = t.key
    BY <1>2, <2>1, InvariantParts DEF Parts, RowsKeyed
  <2> QED
    BY <1>1, <2>2 DEF Replayed, Conflicts
<1>3. ASSUME form.guarded, form.reference \/ ~form.twins, t.post = form.posts, q.post = form.posts,
             q.body.entry = t.body.entry
      PROVE  FALSE
  <2>1. IsPayment(t)
    BY <1>3 DEF IsPayment
  <2>2. ~form.reference /\ Plain
    BY <1>1, <1>3, <2>1 DEF Claimed, Plain
  <2>3. ~t.body.override /\ q \in Earlier(t)
    BY <1>1, <1>3, <2>2 DEF TripFine, Earlier
  <2> QED
    BY <1>1, <2>1, <2>2, <2>3 DEF LooksAlike
<1> QED
  BY <1>2, <1>3

LEMMA RecordSafe == ASSUME IInv, NEW t \in trips, Record(t), UNCHANGED <<form, page>> PROVE IInv'
<1> DEFINE b == [post |-> t.post, key |-> t.key, body |-> t.body]
<1>0. PICK k, w : k = Cardinality(rows) + 1
                  /\ w = [post |-> t.post, key |-> t.key, body |-> t.body, submit |-> t.submit,
                          rendering |-> t.rendering, order |-> k]
  OBVIOUS
<1>1. PICK n : n = Answered(t, "saved", 0)
  OBVIOUS
<1>2. /\ rows' = rows \cup {w} /\ trips' = (trips \ {t}) \cup {n}
      /\ memory' = memory \cup (IF t.key[1] = "none" THEN {} ELSE {b})
      /\ form' = form /\ page' = page
  BY <1>0, <1>1 DEF Record, Reply, Answered
<1>3. /\ TypeOK /\ form \in Cases /\ page \in PageType /\ memory \subseteq MemoryType
      /\ (\A r \in rows : RowTyped(r)) /\ IsFiniteSet(rows)
      /\ TripFine(t) /\ t \in Trip
  BY TypeParts, InvariantParts DEF IInv, Parts, TripFine
<1>4. /\ w.post = t.post /\ w.key = t.key /\ w.body = t.body /\ w.submit = t.submit
      /\ w.rendering = t.rendering /\ w.order = k
  BY <1>0
<1>5. RowTyped(w)
  <2>1. k \in Nat \ {0}
    BY <1>0, <1>3, FS_CardinalityType
  <2> QED
    BY <1>3, <1>4, <2>1, TripTyped DEF RowTyped
<1>6. IsFiniteSet(rows')
  BY <1>2, <1>3, FS_AddElement
<1>7. /\ n \in Trip /\ n.submit = t.submit /\ n.post = t.post /\ n.key = t.key
      /\ n.body = t.body /\ n.rendering = t.rendering /\ n.separate = t.separate
      /\ n.at = "reply" /\ n.answer = "saved" /\ n.names = 0
  <2>1. "saved" \in Answers /\ 0 \in 0..MaxEntries
    BY BoundsAreNumbers DEF Answers
  <2> QED
    BY <1>1, <1>3, <2>1, AnsweredIs
<1>8. \A post, body : Has(post, body) => Has(post, body)'
  BY <1>2 DEF Has
<1>9. Has(t.post, t.body)'
  BY <1>2, <1>4 DEF Has
<1>10. ASSUME NEW u \in trips PROVE TripFine(u)'
  <2>1. TripFine(u)
    BY InvariantParts DEF Parts
  <2> QED
    BY <1>2, <1>8, <2>1 DEF TripFine, Plain
<1>11. TripFine(n)'
  BY <1>2, <1>3, <1>7, <1>8, <1>9 DEF TripFine, Plain
<1>12. (\A u \in trips : TripFine(u))'
  BY <1>2, <1>10, <1>11
<1>13. memory' \subseteq MemoryType
  BY <1>2, <1>3, TripTyped DEF MemoryType
<1>14. TypeOK'
  <2>1. trips' \subseteq Trip
    BY <1>12 DEF TripFine
  <2>2. \A r \in rows' : RowTyped(r)
    BY <1>2, <1>3, <1>5
  <2> QED
    BY <1>2, <1>3, <1>13, <2>1, <2>2 DEF TypeOK, PageType, MemoryType, RowTyped
<1>15. Spare' /\ PageFine'
  BY <1>2, InvariantParts DEF Parts, Spare, PageFine, Plain
<1>16. SavedIsRecorded'
  BY <1>2, InvariantParts DEF Parts, SavedIsRecorded, Recorded
<1>17. Remembered'
  <2>1. ASSUME NEW m \in memory' PROVE \E r \in rows' : r.post = m.post /\ r.key = m.key /\ r.body = m.body
    <3>1. CASE m \in memory
      BY <1>2, <3>1, InvariantParts DEF Parts, Remembered
    <3>2. CASE m = b
      BY <1>2, <1>4, <3>2
    <3> QED
      BY <1>2, <3>1, <3>2
  <2> QED
    BY <2>1 DEF Remembered
<1>18. OncePerRendering'
  <2>1. form.key \in {"page", "form"} =>
           \A q \in rows : ~(q.post = w.post /\ q.rendering = w.rendering)
    BY <1>4, RecordIsNew
  <2> QED
    BY <1>2, <2>1, InvariantParts DEF Parts, OncePerRendering
<1>19. PaidOnce'
  <2>1. form.guarded /\ (form.reference \/ ~form.twins) =>
           \A q \in rows : ~(w.post = form.posts /\ q.post = form.posts /\ q.body.entry = w.body.entry)
    BY <1>4, RecordIsNew
  <2> QED
    BY <1>2, <2>1, InvariantParts DEF Parts, PaidOnce
<1>20. RowsKeyed'
  <2>1. ASSUME form.key \in {"page", "form"}
        PROVE  w.key = <<form.key, w.rendering>> /\ \E m \in memory' : m.post = w.post /\ m.key = w.key
    <3>1. t.key = <<form.key, t.rendering>>
      BY <1>3, <2>1 DEF TripFine
    <3>2. t.key[1] # "none"
      BY <2>1, <3>1
    <3>3. b \in memory' /\ b.post = w.post /\ b.key = w.key
      BY <1>2, <1>4, <3>2
    <3> QED
      BY <1>4, <3>1, <3>3
  <2> QED
    BY <1>2, <2>1, InvariantParts DEF Parts, RowsKeyed
<1> QED
  BY <1>6, <1>12, <1>14, <1>15, <1>16, <1>17, <1>18, <1>19, <1>20, InvariantPartsNext DEF Parts

-----------------------------------------------------------------------------
(* The invariant and the theorems.                                         *)

LEMMA IInvInit == Init => IInv
<1> SUFFICES ASSUME Init PROVE IInv
  OBVIOUS
<1>1. /\ page = [entry |-> 1, fixes |-> 0, override |-> FALSE, rendering |-> 0,
                 submits |-> 0, status |-> "ready", said |-> "nothing", names |-> 0]
      /\ form \in Cases /\ trips = {} /\ memory = {} /\ rows = {}
  BY DEF Init
<1>2. page \in PageType
  BY <1>1, BoundsAreNumbers DEF PageType, Renderings
<1>3. TypeOK
  BY <1>1, <1>2, TypeParts
<1>4. IsFiniteSet(rows)
  BY <1>1, FS_EmptySet
<1> QED
  BY <1>1, <1>3, <1>4, BoundsAreNumbers
     DEF IInv, Spare, CarriesPage, SavedIsHad, Remembered, SavedIsRecorded, KeyOfRendering,
         OncePerRendering, PaidOnce, NeverOverridden

LEMMA IInvStep == IInv /\ [Next]_vars => IInv'
<1> SUFFICES ASSUME IInv, [Next]_vars PROVE IInv'
  OBVIOUS
<1>1. CASE Staff
  BY <1>1, SubmitSafe, FixSafe, OverrideSafe, NextEntrySafe, RerenderSafe, ReloadSafe DEF Staff
<1>2. CASE Serve
  <2>1. PICK t \in trips : Process(t) \/ Answer(t)
    BY <1>2 DEF Serve
  <2> QED
    BY <2>1, RefusedSafe, RecordSafe, AnswerSafe DEF Process
<1>3. CASE Faults
  BY <1>3, BrowserFailsSafe, FetchFailsSafe, ForgetSafe DEF Faults
<1>4. CASE UNCHANGED vars
  <2>1. /\ form' = form /\ page' = page /\ trips' = trips /\ memory' = memory /\ rows' = rows
    BY <1>4 DEF vars
  <2> QED
    BY <2>1 DEF IInv, TypeOK, Spare, CarriesPage, SavedIsHad, Has, Remembered, SavedIsRecorded, Recorded,
                KeyOfRendering, OncePerRendering, PaidOnce, NeverOverridden
<1> QED
  BY <1>1, <1>2, <1>3, <1>4 DEF Next

LEMMA IInvAlways == Spec => []IInv
  BY IInvInit, IInvStep, PTL DEF Spec

\* The page, the trips, the keys and the rows are what Forms says they are,
\* and a page has no more renderings than its loads and its successes.
THEOREM FormsTypeCorrect == Spec => []TypeOK
<1>1. IInv => TypeOK
  BY DEF IInv
<1> QED
  BY <1>1, IInvAlways, PTL

\* duplicates.claim and check_possible: a payment is recorded once, whatever
\* was lost and however often it was sent, refused, overridden or typed
\* again, unless another looks the same and neither has a reference.
THEOREM MoneyAlwaysOnce == Spec => []MoneyOnce
<1>1. ASSUME IInv, form.guarded /\ (form.reference \/ ~form.twins), NEW e \in 1..MaxEntries
      PROVE  Cardinality(Recorded(e, form.posts)) <= 1
  <2>1. \A r, q \in Recorded(e, form.posts) : r = q
    BY <1>1 DEF IInv, PaidOnce, Recorded
  <2>2. CASE Recorded(e, form.posts) = {}
    BY <2>2, FS_EmptySet
  <2>3. CASE Recorded(e, form.posts) # {}
    <3>1. PICK r : Recorded(e, form.posts) = {r}
      BY <2>1, <2>3
    <3> QED
      BY <3>1, FS_Singleton
  <2> QED
    BY <2>2, <2>3
<1>2. IInv => MoneyOnce
  BY <1>1 DEF MoneyOnce
<1> QED
  BY <1>2, IInvAlways, PTL

\* services.replay: a form that keeps its key has each post recorded at most
\* once for each rendering, through double clicks, lost answers and retries.
THEOREM OncePerRenderingAlways == Spec => []OncePerRendering
<1>1. IInv => OncePerRendering
  BY DEF IInv
<1> QED
  BY <1>1, IInvAlways, PTL

\* api.ts and the forms: "saved" is said only of what the backend has, every
\* post of the entry on the form, as it was last typed.
THEOREM SavedIsAlwaysRecorded == Spec => []SavedIsRecorded
<1>1. IInv => SavedIsRecorded
  BY DEF IInv
<1> QED
  BY <1>1, IInvAlways, PTL
=====
