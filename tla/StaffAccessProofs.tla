------------------------- MODULE StaffAccessProofs --------------------------
(***************************************************************************)
(* Proofs about StaffAccess, for any people, browsers, tabs and bounds: it *)
(* keeps its types, and wrong PINs and codes end.  What makes that         *)
(* inductive is who may still try the code of an admin setup that is being *)
(* finished: nobody, since the code is in the cookies of one browser, and  *)
(* its setup is locked.                                                    *)
(***************************************************************************)
EXTENDS StaffAccess, FiniteSetTheorems, SequenceTheorems, WellFoundedInduction, TLAPS

\* A setup without a stage is no setup.
JarOK(jar) == jar \in Jar /\ (jar.setup.stage = "none" => jar.setup = NoSetup)

Typed ==
    /\ TypeOK /\ setups \in Seq(Setup)
    /\ \A b \in Browsers : JarOK(cookies[b])

\* Every wrong try compared is counted, or forgotten with the count.
Counted ==
    \A p \in Phones :
        /\ wrong["pin"][p] <= operators[p].tries
        /\ operators[p].role = "none" => wrong["pin"][p] = 0
        /\ wrong["code"][p] <= codes[p].attempts

\* A code of an admin setup is known to one browser.
CodesKnown ==
    /\ \A b \in Browsers : cookies[b].setup.code <= LastCode
    /\ \A b, c \in Browsers :
          cookies[b].setup.code = cookies[c].setup.code /\ cookies[b].setup.code # 0 => b = c

\* The code that finishes a setup has a try left, and whoever knows it is in
\* that setup; no phone finishes two.
FinishingAlone ==
    \A w \in Finishing :
        /\ codes[w.phone].purpose = "setup" /\ codes[w.phone].id # 0
        /\ codes[w.phone].attempts < CodeTries
        /\ \A b \in Browsers :
              cookies[b].setup.code = codes[w.phone].id => cookies[b].setup.id = w.setup
        /\ \A v \in Finishing : v.phone = w.phone => v = w

IInv == Typed /\ Counted /\ CodesKnown /\ FinishingAlone

-----------------------------------------------------------------------------
(* Codes, jars and pages. *)

Page == [form : SignInForms \cup SetupForms \cup {"inside"}, said : Errors]

\* Of the codes texted, one is the last.
LEMMA LastCodeIsLast ==
    ASSUME NEW c \in [Phones -> Code]
    PROVE  LET ids == {c[p].id : p \in Phones} IN
           Max(ids) \in 0..MaxCodes /\ \A p \in Phones : c[p].id <= Max(ids)
<1> DEFINE S == {c[p].id : p \in Phones}
           Above(i) == {j \in S : j > i}
           R == StrictSubsetOrdering(S)
           T == {Above(i) : i \in S}
<1>1. S \in SUBSET (0..MaxCodes) /\ S # {}
  BY StaffAccessAssumption DEF Code
<1>2. IsFiniteSet(S)
  <2>1. IsFiniteSet(0..MaxCodes)
    BY StaffAccessAssumption, FS_Interval
  <2> QED
    BY <1>1, <2>1, FS_Subset
<1>3. \A i \in S : i \in Nat
  BY <1>1, StaffAccessAssumption
<1> HIDE DEF S
<1>4. T \subseteq FiniteSubsetsOf(S) /\ T # {}
  <2>1. \A i \in S : Above(i) \in SUBSET S
    OBVIOUS
  <2>2. \A i \in S : IsFiniteSet(Above(i))
    BY <1>2, <2>1, FS_Subset
  <2> QED
    BY <1>1, <2>1, <2>2 DEF FiniteSubsetsOf
<1>5. IsWellFoundedOn(R, FiniteSubsetsOf(S))
  BY <1>2, FS_StrictSubsetOrderingWellFounded
<1>6. PICK X \in T : \A Y \in T : ~ (<<Y, X>> \in R)
  <2> HIDE DEF R, T
  <2> QED
    BY <1>4, <1>5, WFMin
<1>7. PICK i \in S : X = Above(i)
  OBVIOUS
<1>8. ASSUME NEW j \in S, j > i PROVE FALSE
  <2>1. \A k \in S : k > j => k > i
    BY <1>3, <1>8
  <2>2. Above(j) \in T /\ Above(j) \subseteq Above(i) /\ Above(j) \in SUBSET S /\ Above(i) \in SUBSET S
    BY <2>1
  <2>3. j \in Above(i) /\ j \notin Above(j)
    BY <1>3, <1>8
  <2>4. <<Above(j), Above(i)>> \in R
    BY <2>2, <2>3 DEF StrictSubsetOrdering
  <2> QED
    BY <1>6, <1>7, <2>2, <2>4
<1>9. i \in S /\ \A y \in S : i >= y
  BY <1>3, <1>7, <1>8
<1>10. Max(S) \in S /\ \A y \in S : Max(S) >= y
  <2> HIDE DEF T, R
  <2> QED
    BY <1>9 DEF Max
<1> QED
  <2>1. Max(S) \in 0..MaxCodes
    BY <1>1, <1>10
  <2>2. \A p \in Phones : c[p].id <= Max(S)
    <3> SUFFICES ASSUME NEW p \in Phones PROVE c[p].id <= Max(S)
      OBVIOUS
    <3>1. c[p].id \in S
      BY DEF S
    <3> QED
      BY <1>3, <1>10, <3>1
  <2> QED
    BY <2>1, <2>2 DEF S

LEMMA LastCodeTyped ==
    ASSUME Typed
    PROVE  /\ LastCode \in 0..MaxCodes /\ LastCode \in Nat
           /\ \A p \in Phones : codes[p].id <= LastCode /\ codes[p].id \in Nat
<1>1. codes \in [Phones -> Code]
  BY DEF Typed, TypeOK
<1>2. LastCode \in 0..MaxCodes /\ \A p \in Phones : codes[p].id <= LastCode
  BY <1>1, LastCodeIsLast DEF LastCode
<1> QED
  BY <1>1, <1>2, StaffAccessAssumption DEF Code

\* What the routes make of a jar is a jar.
LEMMA Jars ==
    ASSUME NEW jar, JarOK(jar)
    PROVE  /\ \A p \in Phones :
                /\ JarOK(SessionJar(jar, p)) /\ SessionJar(jar, p).setup = jar.setup
                /\ LET j == [jar EXCEPT !.session = p, !.challenge = 0, !.setup = NoSetup]
                   IN  JarOK(j) /\ j.setup = NoSetup
           /\ \A p \in Phones, h \in BOOLEAN :
                LET j == [jar EXCEPT !.signIn = [phone |-> p, hasPin |-> h]]
                IN  JarOK(j) /\ j.setup = jar.setup
           /\ \A i \in 0..MaxCodes :
                LET j == [jar EXCEPT !.challenge = i] IN JarOK(j) /\ j.setup = jar.setup
           /\ LET j == [jar EXCEPT !.session = NoOne] IN JarOK(j) /\ j.setup = jar.setup
           /\ LET j == [jar EXCEPT !.signIn = None] IN JarOK(j) /\ j.setup = jar.setup
           /\ LET j == [jar EXCEPT !.setup = NoSetup] IN JarOK(j) /\ j.setup = NoSetup
<1>1. jar \in Jar /\ (jar.setup.stage = "none" => jar.setup = NoSetup)
  BY DEF JarOK
<1>2. 0 \in 0..MaxCodes /\ 0 \in 0..MaxSetups
  BY StaffAccessAssumption
<1>3. NoSetup \in [id : 0..MaxSetups, stage : SetupForms \cup {"none"}, code : 0..MaxCodes]
  BY <1>2 DEF NoSetup
<1>4. "none" \notin SetupForms
  BY DEF SetupForms
<1> QED
  BY <1>1, <1>2, <1>3, <1>4 DEF JarOK, Jar, SessionJar

\* The jar of someone who is at a stage of an admin setup.
AtStage(jar, i, c, s) == [jar EXCEPT !.setup = [id |-> i, stage |-> s, code |-> c]]

LEMMA JarAtStage ==
    ASSUME NEW jar, JarOK(jar), NEW i \in 0..MaxSetups, NEW c \in 0..MaxCodes, NEW s \in SetupForms
    PROVE  JarOK(AtStage(jar, i, c, s)) /\ AtStage(jar, i, c, s).setup = [id |-> i, stage |-> s, code |-> c]
<1>1. jar \in Jar /\ s # "none"
  BY DEF JarOK, SetupForms
<1>2. [id |-> i, stage |-> s, code |-> c] \in
          [id : 0..MaxSetups, stage : SetupForms \cup {"none"}, code : 0..MaxCodes]
  OBVIOUS
<1> QED
  BY <1>1, <1>2 DEF AtStage, JarOK, Jar

Moved(jar, s, c) == [jar EXCEPT !.setup.stage = s, !.setup.code = c]

LEMMA JarMoved ==
    ASSUME NEW jar, JarOK(jar), NEW c \in 0..MaxCodes, NEW s \in SetupForms
    PROVE  JarOK(Moved(jar, s, c)) /\ Moved(jar, s, c).setup.code = c
<1> DEFINE part == [jar.setup EXCEPT !.stage = s, !.code = c]
<1>1. jar \in Jar /\ s # "none"
  BY DEF JarOK, SetupForms
<1>2. jar.setup \in [id : 0..MaxSetups, stage : SetupForms \cup {"none"}, code : 0..MaxCodes]
  BY <1>1 DEF Jar
<1>3. /\ part \in [id : 0..MaxSetups, stage : SetupForms \cup {"none"}, code : 0..MaxCodes]
      /\ part.stage = s /\ part.code = c
  BY <1>2
<1>4. Moved(jar, s, c) = [jar EXCEPT !.setup = part]
  BY <1>1 DEF Moved, Jar
<1> HIDE DEF part
<1> QED
  BY <1>1, <1>3, <1>4 DEF JarOK, Jar

\* A tab shows one of the forms, and one of the errors.
LEMMA ShownIsPage ==
    ASSUME NEW b, NEW jar, JarOK(jar), NEW issued, NEW staff, NEW step, NEW said \in Errors
    PROVE  Shown(b, jar, issued, staff, step, said) \in Page
<1>1. FormOf(jar, step) \in SignInForms \cup SetupForms
  BY DEF FormOf, JarOK, Jar, SignInForms, SetupForms
<1>2. "none" \in Errors /\ {"new-pin", "inside"} \subseteq SignInForms \cup SetupForms \cup {"inside"}
  BY DEF Errors, SignInForms
<1> QED
  BY <1>1, <1>2 DEF Shown, Page

\* What an answer leaves in the jars and tabs.
Answered ==
    /\ surprises' \in 0..MaxSurprises
    /\ cookies' \in [Browsers -> Jar] /\ \A b \in Browsers : JarOK(cookies'[b])
    /\ pages' \in [Tabs -> Page]

\* The browsers know no other codes than before.
KnowsNoMore(jar, old) ==
    jar.setup.code = 0 \/ (jar.setup.code = old.setup.code /\ jar.setup.id = old.setup.id)

Keeps == \A b \in Browsers : KnowsNoMore(cookies'[b], cookies[b])

LEMMA SurpriseTyped ==
    ASSUME Typed, NEW n \in Nat, Surprise(n)
    PROVE  surprises' \in 0..MaxSurprises
BY StaffAccessAssumption DEF Surprise, Typed, TypeOK

LEMMA AnswerTyped ==
    ASSUME Typed, NEW t \in Tabs, NEW expected \in BOOLEAN, NEW jar, JarOK(jar), NEW step,
           NEW said \in Errors, Answer(t, expected, jar, step, said)
    PROVE  /\ Answered
           /\ \A b \in Browsers : cookies'[b] = cookies[b] \/ (b = t[1] /\ cookies'[b] = jar)
<1>1. t[1] \in Browsers
  BY DEF Tabs
<1>2. PICK lost \in BOOLEAN :
          /\ Surprise(Cost(expected) + Cost(~lost))
          /\ cookies' = IF lost THEN cookies ELSE [cookies EXCEPT ![t[1]] = jar]
          /\ pages' = IF lost THEN pages
                      ELSE [pages EXCEPT ![t] = Shown(t[1], jar, sessions', operators', step, said)]
  BY DEF Answer
<1>3. surprises' \in 0..MaxSurprises
  <2>1. Cost(expected) + Cost(~lost) \in Nat
    BY DEF Cost
  <2> QED
    BY <1>2, <2>1, SurpriseTyped
<1>4. cookies \in [Browsers -> Jar] /\ pages \in [Tabs -> Page] /\ jar \in Jar
      /\ \A b \in Browsers : JarOK(cookies[b])
  BY DEF Typed, TypeOK, Page, JarOK
<1>5. Shown(t[1], jar, sessions', operators', step, said) \in Page
  BY ShownIsPage
<1>6. pages' \in [Tabs -> Page]
  BY <1>2, <1>4, <1>5
<1> QED
  BY <1>1, <1>2, <1>3, <1>4, <1>6 DEF Answered

-----------------------------------------------------------------------------
(* What the codes of admin setups are safe from. *)

\* The codes stay, but for tries of codes that finish nothing.
CodesStay ==
    /\ \A p \in Phones : codes'[p].id = codes[p].id /\ codes'[p].purpose = codes[p].purpose
    /\ \A w \in Finishing' : codes'[w.phone].attempts = codes[w.phone].attempts
    /\ Finishing' \subseteq Finishing

LEMMA StaysKnown ==
    ASSUME Typed, CodesKnown, FinishingAlone, CodesStay, Keeps
    PROVE  (CodesKnown /\ FinishingAlone)'
<1>1. LastCode' = LastCode
  <2>1. {codes'[p].id : p \in Phones} = {codes[p].id : p \in Phones}
    BY DEF CodesStay
  <2> QED
    BY <2>1 DEF LastCode
<1>2. \A w \in Finishing : w.phone \in Phones
  BY DEF Finishing, Typed, TypeOK
<1>3. LastCode \in Nat
  BY LastCodeTyped
<1>4. CodesKnown'
  BY <1>1, <1>3 DEF CodesKnown, Keeps, KnowsNoMore
<1>5. FinishingAlone'
  <2> SUFFICES ASSUME NEW w \in Finishing'
               PROVE  /\ codes'[w.phone].purpose = "setup" /\ codes'[w.phone].id # 0
                      /\ codes'[w.phone].attempts < CodeTries
                      /\ \A b \in Browsers :
                            cookies'[b].setup.code = codes'[w.phone].id => cookies'[b].setup.id = w.setup
                      /\ \A v \in Finishing' : v.phone = w.phone => v = w
    BY DEF FinishingAlone
  <2>1. w \in Finishing /\ w.phone \in Phones
    BY <1>2 DEF CodesStay
  <2> QED
    BY <2>1 DEF FinishingAlone, CodesStay, Keeps, KnowsNoMore
<1> QED
  BY <1>4, <1>5

\* A new code is known to one browser, and finishes nothing yet.
LEMMA SentIsKnown ==
    ASSUME Typed, CodesKnown, FinishingAlone,
           NEW p \in Phones, NEW b \in Browsers, NEW purpose, NEW jar,
           StartOtp(p, purpose, TRUE), work' = work,
           jar.setup = cookies[b].setup \/ jar.setup.code = LastCode + 1,
           \A c \in Browsers : cookies'[c] = cookies[c] \/ (c = b /\ cookies'[c] = jar)
    PROVE  (CodesKnown /\ FinishingAlone)'
<1>1. /\ codes \in [Phones -> Code] /\ LastCode \in Nat
      /\ \A q \in Phones : codes[q].id \in Nat /\ codes[q].id <= LastCode
  BY LastCodeTyped DEF Typed, TypeOK
<1>2. /\ \A w \in Finishing : w.phone # p
      /\ codes' = [codes EXCEPT ![p] = [id |-> LastCode + 1, purpose |-> purpose, used |-> FALSE,
                                        alive |-> TRUE, attempts |-> 0]]
  BY DEF StartOtp
<1>3. LastCode' = LastCode + 1
  <2> DEFINE ids == {codes'[q].id : q \in Phones}
  <2>0. \A q \in Phones : codes'[q].id = IF q = p THEN LastCode + 1 ELSE codes[q].id
    <3>1. codes'[p].id = LastCode + 1
      BY <1>1, <1>2
    <3>2. \A q \in Phones : q # p => codes'[q] = codes[q]
      BY <1>1, <1>2
    <3> QED
      BY <3>1, <3>2
  <2>1. LastCode + 1 \in ids
    BY <2>0
  <2>2. \A i \in ids : i \in Nat /\ i <= LastCode + 1
    BY <1>1, <2>0
  <2>3. Max(ids) = LastCode + 1
    <3> HIDE DEF ids
    <3>1. \E m \in ids : \A i \in ids : m >= i
      BY <1>1, <2>1, <2>2
    <3>2. Max(ids) \in ids /\ \A i \in ids : Max(ids) >= i
      BY <3>1 DEF Max
    <3> QED
      BY <1>1, <2>1, <2>2, <3>2
  <2> QED
    BY <2>3 DEF LastCode
<1>4. \A c \in Browsers : cookies[c].setup.code \in Nat /\ cookies[c].setup.code <= LastCode
  <2>1. cookies \in [Browsers -> Jar]
    BY DEF Typed, TypeOK
  <2>2. \A c \in Browsers : cookies[c].setup.code \in 0..MaxCodes
    BY <2>1 DEF Jar
  <2> QED
    BY <2>2, StaffAccessAssumption DEF CodesKnown
<1>5. \A c \in Browsers : cookies'[c].setup = cookies[c].setup
                          \/ (c = b /\ cookies'[c].setup.code = LastCode + 1)
  OBVIOUS
<1>6. CodesKnown'
  <2>1. \A c \in Browsers : cookies'[c].setup.code <= LastCode'
    BY <1>1, <1>3, <1>4, <1>5
  <2>2. \A c, d \in Browsers :
          cookies'[c].setup.code = cookies'[d].setup.code /\ cookies'[c].setup.code # 0 => c = d
    BY <1>1, <1>4, <1>5 DEF CodesKnown
  <2> QED
    BY <2>1, <2>2 DEF CodesKnown
<1>7. Finishing' = Finishing /\ \A w \in Finishing : w.phone \in Phones
  BY DEF Finishing, Typed, TypeOK
<1>8. \A w \in Finishing : codes'[w.phone] = codes[w.phone]
  BY <1>1, <1>2, <1>7
<1>9. FinishingAlone'
  <2> SUFFICES ASSUME NEW w \in Finishing
               PROVE  /\ codes[w.phone].purpose = "setup" /\ codes[w.phone].id # 0
                      /\ codes[w.phone].attempts < CodeTries
                      /\ \A c \in Browsers :
                            cookies'[c].setup.code = codes[w.phone].id => cookies'[c].setup.id = w.setup
                      /\ \A v \in Finishing : v.phone = w.phone => v = w
    BY <1>7, <1>8 DEF FinishingAlone
  <2>1. codes[w.phone].id \in Nat /\ codes[w.phone].id <= LastCode
    BY <1>1, <1>7
  <2> QED
    BY <1>1, <1>5, <2>1 DEF FinishingAlone
<1> QED
  BY <1>6, <1>9

\* A code tried in a setup that is not locked, or for something else, is not
\* the code of one being finished.
LEMMA TriedFinishesNothing ==
    ASSUME FinishingAlone, NEW t \in Tabs, NEW id, NEW purpose, NEW p \in Receiver(id, purpose),
           purpose # "setup" \/ (Free(Begun(t)) /\ id = cookies[t[1]].setup.code)
    PROVE  \A w \in Finishing : w.phone # p
<1> SUFFICES ASSUME NEW w \in Finishing, w.phone = p PROVE FALSE
  OBVIOUS
<1>1. codes[p].id = id /\ codes[p].purpose = purpose
  BY DEF Receiver
<1>2. purpose = "setup" /\ cookies[t[1]].setup.code = codes[w.phone].id
  BY <1>1 DEF FinishingAlone
<1>3. cookies[t[1]].setup.id = w.setup
  BY <1>2 DEF FinishingAlone, Tabs
<1> QED
  BY <1>2, <1>3 DEF Free, Begun

-----------------------------------------------------------------------------
(* Steps that end with an answer. *)

\* The types of what the backend stores.
RowsTyped ==
    /\ operators \in [Phones -> Operator]
    /\ sessions \subseteq Phones \X Browsers
    /\ codes \in [Phones -> Code]
    /\ recent \subseteq Phones
    /\ failures \in [{"staff", "setup"} -> 0..MaxFailures]
    /\ Len(setups) <= MaxSetups /\ setups \in Seq(Setup)
    /\ work \subseteq [tab : Tabs, setup : 0..MaxSetups, phone : Phones, change : Changes \cup {"finish"}]
    /\ wrong \in [{"pin", "code"} -> [Phones -> Nat]]

LEMMA RowsAreTyped == Typed => RowsTyped
BY DEF Typed, TypeOK, RowsTyped

LEMMA AllTyped ==
    ASSUME RowsTyped', Answered
    PROVE  Typed'
<1>1. \A i \in DOMAIN setups' : setups'[i] \in Setup
  BY DEF RowsTyped
<1> QED
  BY <1>1 DEF RowsTyped, Answered, Typed, TypeOK, Page

LEMMA AnswerSafe ==
    ASSUME IInv, NEW t \in Tabs, NEW expected \in BOOLEAN, NEW jar, JarOK(jar),
           KnowsNoMore(jar, cookies[t[1]]), NEW step, NEW said \in Errors,
           Answer(t, expected, jar, step, said), RowsTyped', Counted', CodesStay
    PROVE  IInv'
<1>1. /\ Answered
      /\ \A b \in Browsers : cookies'[b] = cookies[b] \/ (b = t[1] /\ cookies'[b] = jar)
  BY AnswerTyped DEF IInv
<1>2. Keeps
  BY <1>1 DEF Keeps, KnowsNoMore
<1>3. Typed'
  BY <1>1, AllTyped
<1> QED
  BY <1>2, <1>3, StaysKnown DEF IInv

\* The cookies of a browser are a jar.
LEMMA JarOf ==
    ASSUME Typed, NEW t \in Tabs
    PROVE  /\ t[1] \in Browsers /\ t[1] \in Phones
           /\ JarOK(cookies[t[1]]) /\ KnowsNoMore(cookies[t[1]], cookies[t[1]])
BY StaffAccessAssumption DEF Typed, TypeOK, Tabs, KnowsNoMore

LEMMA CodesStayAll ==
    ASSUME codes' = codes, Finishing' \subseteq Finishing
    PROVE  CodesStay
BY DEF CodesStay

LEMMA RefuseSafe ==
    ASSUME IInv, NEW t \in Tabs, NEW expected \in BOOLEAN, NEW step, NEW said \in Errors,
           Refuse(t, expected, step, said)
    PROVE  IInv'
<1>1. /\ UNCHANGED <<operators, sessions, codes, recent, failures, setups, work, wrong>>
      /\ Answer(t, expected, cookies[t[1]], step, said)
  BY DEF Refuse
<1>2. RowsTyped' /\ Counted' /\ Finishing' = Finishing
  BY <1>1, RowsAreTyped DEF IInv, RowsTyped, Counted, Finishing
<1>3. CodesStay
  BY <1>1, <1>2, CodesStayAll
<1> QED
  BY <1>1, <1>2, <1>3, JarOf, AnswerSafe DEF IInv

\* A code is sent, and may go to the browser's cookies.
LEMMA SentSafe ==
    ASSUME IInv, NEW t \in Tabs, NEW p \in Phones, NEW purpose \in {"ops", "approve", "setup"},
           NEW expected \in BOOLEAN, NEW jar, JarOK(jar), NEW step, NEW said \in Errors,
           StartOtp(p, purpose, TRUE), UNCHANGED <<operators, sessions, failures, work>>,
           Len(setups') <= MaxSetups /\ setups' \in Seq(Setup),
           jar.setup = cookies[t[1]].setup \/ jar.setup.code = LastCode + 1,
           Answer(t, expected, jar, step, said)
    PROVE  IInv'
<1>1. /\ Answered
      /\ \A b \in Browsers : cookies'[b] = cookies[b] \/ (b = t[1] /\ cookies'[b] = jar)
  BY AnswerTyped DEF IInv
<1>2. /\ LastCode < MaxCodes /\ recent' = recent \cup {p} /\ wrong' = [wrong EXCEPT !["code"][p] = 0]
      /\ codes' = [codes EXCEPT ![p] = [id |-> LastCode + 1, purpose |-> purpose, used |-> FALSE,
                                        alive |-> TRUE, attempts |-> 0]]
  BY DEF StartOtp
<1>3. RowsTyped
  BY RowsAreTyped DEF IInv
<1>4. LastCode + 1 \in 0..MaxCodes /\ 0 \in 0..CodeTries
  BY <1>2, LastCodeTyped, StaffAccessAssumption DEF IInv
<1>5. codes' \in [Phones -> Code]
  BY <1>2, <1>3, <1>4 DEF RowsTyped, Code
<1>6. wrong' \in [{"pin", "code"} -> [Phones -> Nat]]
  BY <1>2, <1>3 DEF RowsTyped
<1>7. RowsTyped'
  BY <1>2, <1>3, <1>5, <1>6 DEF RowsTyped
<1>8. Counted'
  <2> SUFFICES ASSUME NEW q \in Phones
               PROVE  /\ wrong'["pin"][q] <= operators[q].tries
                      /\ operators[q].role = "none" => wrong'["pin"][q] = 0
                      /\ wrong'["code"][q] <= codes'[q].attempts
    <3>1. operators' = operators
      OBVIOUS
    <3> QED
      BY <3>1 DEF Counted
  <2>1. wrong'["pin"][q] = wrong["pin"][q]
    BY <1>2, <1>3 DEF RowsTyped
  <2>2. CASE q = p
    BY <1>2, <1>3, <2>1, <2>2 DEF IInv, RowsTyped, Counted
  <2>3. CASE q # p
    BY <1>2, <1>3, <2>1, <2>3 DEF IInv, RowsTyped, Counted
  <2> QED
    BY <2>2, <2>3
<1>9. (CodesKnown /\ FinishingAlone)'
  BY <1>1, JarOf, SentIsKnown DEF IInv
<1> QED
  BY <1>1, <1>7, <1>8, <1>9, AllTyped DEF IInv

\* A code whose text is not sent ends the others and is dropped.
LEMMA NotSentSafe ==
    ASSUME IInv, NEW t \in Tabs, NEW p \in Phones, NEW purpose, NEW step, NEW said \in Errors,
           NEW expected \in BOOLEAN,
           StartOtp(p, purpose, FALSE), UNCHANGED <<operators, sessions, failures, work>>,
           Len(setups') <= MaxSetups /\ setups' \in Seq(Setup),
           Answer(t, expected, cookies[t[1]], step, said)
    PROVE  IInv'
<1>1. codes' = [codes EXCEPT ![p].used = TRUE] /\ recent' = recent /\ wrong' = wrong
  BY DEF StartOtp
<1>2. RowsTyped
  BY RowsAreTyped DEF IInv
<1>3. codes' \in [Phones -> Code]
  BY <1>1, <1>2 DEF RowsTyped, Code
<1>4. \A q \in Phones : /\ codes'[q].id = codes[q].id /\ codes'[q].purpose = codes[q].purpose
                        /\ codes'[q].attempts = codes[q].attempts
  BY <1>1, <1>2 DEF RowsTyped, Code
<1>5. Finishing' = Finishing /\ \A w \in Finishing : w.phone \in Phones
  BY <1>2 DEF Finishing, RowsTyped
<1>6. RowsTyped' /\ Counted' /\ CodesStay
  BY <1>1, <1>2, <1>3, <1>4, <1>5 DEF RowsTyped, Counted, IInv, CodesStay
<1> QED
  BY <1>6, JarOf, AnswerSafe DEF IInv

\* A try of a code that finishes nothing is counted.
LEMMA TriedSafe ==
    ASSUME IInv, NEW p \in Phones, codes[p].attempts < CodeTries,
           \A w \in Finishing' : w.phone # p,
           codes' = [codes EXCEPT ![p].attempts = @ + 1] \/ codes' = UsedCode(p),
           wrong' = wrong \/ wrong' = [wrong EXCEPT !["code"][p] = @ + 1],
           Finishing' \subseteq Finishing
    PROVE  /\ codes' \in [Phones -> Code]
           /\ wrong' \in [{"pin", "code"} -> [Phones -> Nat]]
           /\ \A q \in Phones : codes'[q].attempts >= codes[q].attempts
           /\ CodesStay /\ (operators' = operators => Counted')
<1>1. RowsTyped
  BY RowsAreTyped DEF IInv
<1>2. codes[p].attempts + 1 \in 0..CodeTries
  BY <1>1, StaffAccessAssumption DEF RowsTyped, Code
<1>3. codes' \in [Phones -> Code]
  <2>1. CASE codes' = [codes EXCEPT ![p].attempts = @ + 1]
    BY <1>1, <1>2, <2>1 DEF RowsTyped, Code
  <2>2. CASE codes' = UsedCode(p)
    <3>0. codes \in [Phones -> Code] /\ codes[p] \in Code
      BY <1>1 DEF RowsTyped
    <3>1. [codes[p] EXCEPT !.used = TRUE, !.attempts = @ + 1] \in Code
      BY <1>2, <3>0 DEF Code
    <3>2. codes'[p] = [codes[p] EXCEPT !.used = TRUE, !.attempts = @ + 1]
      BY <1>1, <2>2 DEF RowsTyped, Code, UsedCode
    <3>3. codes' = [codes EXCEPT ![p] = codes'[p]]
      BY <1>1, <2>2, <3>2 DEF RowsTyped, Code, UsedCode
    <3> QED
      BY <3>0, <3>1, <3>2, <3>3
  <2> QED
    BY <2>1, <2>2
<1>4. /\ codes'[p].attempts = codes[p].attempts + 1
      /\ \A q \in Phones : /\ codes'[q].id = codes[q].id /\ codes'[q].purpose = codes[q].purpose
                           /\ q # p => codes'[q] = codes[q]
  <2>1. CASE codes' = [codes EXCEPT ![p].attempts = @ + 1]
    BY <1>1, <2>1 DEF RowsTyped, Code
  <2>2. CASE codes' = UsedCode(p)
    BY <1>1, <2>2 DEF RowsTyped, Code, UsedCode
  <2> QED
    BY <2>1, <2>2
<1>5. wrong' \in [{"pin", "code"} -> [Phones -> Nat]]
  <2>1. wrong \in [{"pin", "code"} -> [Phones -> Nat]]
    BY <1>1 DEF RowsTyped
  <2> QED
    BY <2>1
<1>6. \A w \in Finishing : w.phone \in Phones
  BY <1>1 DEF Finishing, RowsTyped
<1>7. CodesStay
  BY <1>4, <1>6 DEF CodesStay
<1>8. ASSUME operators' = operators PROVE Counted'
  <2> SUFFICES ASSUME NEW q \in Phones
               PROVE  /\ wrong'["pin"][q] <= operators[q].tries
                      /\ operators[q].role = "none" => wrong'["pin"][q] = 0
                      /\ wrong'["code"][q] <= codes'[q].attempts
    BY <1>8 DEF Counted
  <2>1. wrong'["pin"][q] = wrong["pin"][q]
    BY <1>1 DEF RowsTyped
  <2>2. /\ wrong["code"][q] <= codes[q].attempts /\ wrong["code"][q] \in Nat
        /\ codes[q].attempts \in 0..CodeTries
    BY <1>1 DEF IInv, Counted, RowsTyped, Code
  <2>3. wrong'["code"][q] <= codes'[q].attempts
    <3>1. CASE q = p
      BY <1>1, <1>4, <2>2, <3>1, StaffAccessAssumption DEF RowsTyped
    <3>2. CASE q # p
      BY <1>1, <1>4, <2>2, <3>2 DEF RowsTyped
    <3> QED
      BY <3>1, <3>2
  <2> QED
    BY <2>1, <2>3 DEF IInv, Counted
<1>9. \A q \in Phones : codes'[q].attempts >= codes[q].attempts
  <2>1. \A q \in Phones : codes[q].attempts \in Nat
    BY <1>1, StaffAccessAssumption DEF RowsTyped, Code
  <2> QED
    BY <1>4, <2>1
<1> QED
  BY <1>3, <1>5, <1>7, <1>8, <1>9

\* A new PIN forgets the wrong ones.
LEMMA StoredSafe ==
    ASSUME IInv, NEW p \in Phones, StorePin(p), codes' = codes
    PROVE  /\ operators' \in [Phones -> Operator]
           /\ wrong' \in [{"pin", "code"} -> [Phones -> Nat]]
           /\ Counted'
<1>1. RowsTyped /\ Counted
  BY RowsAreTyped DEF IInv
<1>2. /\ operators' = [operators EXCEPT ![p].pin = TRUE, ![p].tries = 0, ![p].paused = FALSE]
      /\ wrong' = [wrong EXCEPT !["pin"][p] = 0]
  BY DEF StorePin
<1>3. operators \in [Phones -> Operator] /\ operators[p] \in Operator /\ 0 \in 0..ResetAfter
  BY <1>1, StaffAccessAssumption DEF RowsTyped
<1>4. [operators[p] EXCEPT !.pin = TRUE, !.tries = 0, !.paused = FALSE] \in Operator
  BY <1>3 DEF Operator
<1>5. /\ operators'[p] = [operators[p] EXCEPT !.pin = TRUE, !.tries = 0, !.paused = FALSE]
      /\ operators' = [operators EXCEPT ![p] = operators'[p]]
  BY <1>2, <1>3 DEF Operator
<1>6. operators' \in [Phones -> Operator]
  BY <1>3, <1>4, <1>5
<1>7. wrong \in [{"pin", "code"} -> [Phones -> Nat]]
  BY <1>1 DEF RowsTyped
<1>8. wrong' \in [{"pin", "code"} -> [Phones -> Nat]]
  BY <1>2, <1>7
<1>9. ASSUME NEW q \in Phones
      PROVE  /\ wrong'["pin"][q] <= operators'[q].tries
             /\ operators'[q].role = "none" => wrong'["pin"][q] = 0
             /\ wrong'["code"][q] <= codes'[q].attempts
  <2>1. wrong'["code"][q] = wrong["code"][q]
    BY <1>2, <1>7
  <2>2. CASE q = p
    <3>1. wrong'["pin"][p] = 0 /\ operators'[p].tries = 0
      BY <1>2, <1>3, <1>5, <1>7 DEF Operator
    <3> QED
      BY <1>1, <2>1, <2>2, <3>1 DEF Counted
  <2>3. CASE q # p
    <3>1. wrong'["pin"][q] = wrong["pin"][q] /\ operators'[q] = operators[q]
      BY <1>2, <1>3, <1>5, <1>7, <2>3
    <3> QED
      BY <1>1, <2>1, <3>1 DEF Counted
  <2> QED
    BY <2>2, <2>3
<1> QED
  BY <1>6, <1>8, <1>9 DEF Counted

\* A wrong PIN is compared only while the count is below the limit.
LEMMA WrongPinSafe ==
    ASSUME IInv, NEW p \in Phones, WrongPin(p), ~Blocked(p), Active(p), codes' = codes
    PROVE  /\ operators' \in [Phones -> Operator]
           /\ wrong' \in [{"pin", "code"} -> [Phones -> Nat]]
           /\ Counted'
<1>1. RowsTyped /\ Counted
  BY RowsAreTyped DEF IInv
<1> DEFINE now == operators[p].paused \/ (operators[p].tries + 1) % PauseEvery = 0
<1>2. /\ operators' = [operators EXCEPT ![p].tries = @ + 1, ![p].paused = now]
      /\ wrong' = [wrong EXCEPT !["pin"][p] = @ + 1]
  BY DEF WrongPin
<1>3. operators \in [Phones -> Operator] /\ operators[p] \in Operator
  BY <1>1 DEF RowsTyped
<1>4. now \in BOOLEAN
  BY <1>3 DEF Operator
<1> HIDE DEF now
<1>5. operators[p].tries \in Nat /\ operators[p].tries + 1 \in 0..ResetAfter
  BY <1>3, StaffAccessAssumption DEF Operator, Blocked
<1>6. [operators[p] EXCEPT !.tries = @ + 1, !.paused = now] \in Operator
  BY <1>3, <1>4, <1>5 DEF Operator
<1>7. /\ operators'[p] = [operators[p] EXCEPT !.tries = @ + 1, !.paused = now]
      /\ operators' = [operators EXCEPT ![p] = operators'[p]]
  BY <1>2, <1>3 DEF Operator
<1>8. operators' \in [Phones -> Operator]
  BY <1>3, <1>6, <1>7
<1>9. wrong \in [{"pin", "code"} -> [Phones -> Nat]]
  BY <1>1 DEF RowsTyped
<1>10. wrong' \in [{"pin", "code"} -> [Phones -> Nat]]
  BY <1>2, <1>9
<1>11. ASSUME NEW q \in Phones
       PROVE  /\ wrong'["pin"][q] <= operators'[q].tries
              /\ operators'[q].role = "none" => wrong'["pin"][q] = 0
              /\ wrong'["code"][q] <= codes'[q].attempts
  <2>1. wrong'["code"][q] = wrong["code"][q]
    BY <1>2, <1>9
  <2>2. CASE q = p
    <3>1. wrong'["pin"][p] = wrong["pin"][p] + 1 /\ wrong["pin"][p] \in Nat
      BY <1>2, <1>9
    <3>2. operators'[p].tries = operators[p].tries + 1 /\ operators'[p].role # "none"
      BY <1>3, <1>7 DEF Operator, Active
    <3> QED
      BY <1>1, <1>5, <2>1, <2>2, <3>1, <3>2 DEF Counted
  <2>3. CASE q # p
    <3>1. wrong'["pin"][q] = wrong["pin"][q] /\ operators'[q] = operators[q]
      BY <1>2, <1>3, <1>7, <1>9, <2>3
    <3> QED
      BY <1>1, <2>1, <3>1 DEF Counted
  <2> QED
    BY <2>2, <2>3
<1> QED
  BY <1>8, <1>10, <1>11 DEF Counted

\* Operators change, and their counts stay or begin anew with a first role.
LEMMA StaffChanged ==
    ASSUME IInv, NEW p \in Phones, NEW x \in Operator, operators' = [operators EXCEPT ![p] = x],
           UNCHANGED wrong, \A q \in Phones : codes'[q].attempts >= codes[q].attempts,
           codes' \in [Phones -> Code],
           \/ operators[p].role = "none"
           \/ x.tries = operators[p].tries /\ x.role # "none"
    PROVE  operators' \in [Phones -> Operator] /\ Counted'
<1>1. RowsTyped /\ Counted
  BY RowsAreTyped DEF IInv
<1>2. operators' \in [Phones -> Operator]
  BY <1>1 DEF RowsTyped
<1>3. ASSUME NEW q \in Phones
      PROVE  /\ wrong["pin"][q] <= operators'[q].tries
             /\ operators'[q].role = "none" => wrong["pin"][q] = 0
             /\ wrong["code"][q] <= codes'[q].attempts
  <2>1. wrong["code"][q] <= codes'[q].attempts
    <3>1. /\ wrong["code"][q] <= codes[q].attempts /\ codes'[q].attempts >= codes[q].attempts
          /\ wrong["code"][q] \in Nat /\ codes[q].attempts \in Nat /\ codes'[q].attempts \in Nat
      BY <1>1, StaffAccessAssumption DEF RowsTyped, Counted, Code
    <3> QED
      BY <3>1
  <2>2. CASE q = p
    <3>1. operators'[p] = x /\ x.tries \in Nat
      BY <1>1, StaffAccessAssumption DEF RowsTyped, Operator
    <3> QED
      BY <1>1, <2>1, <2>2, <3>1 DEF Counted
  <2>3. CASE q # p
    <3>1. operators'[q] = operators[q]
      BY <1>1, <2>3 DEF RowsTyped
    <3> QED
      BY <1>1, <2>1, <3>1 DEF Counted
  <2> QED
    BY <2>2, <2>3
<1> QED
  BY <1>2, <1>3 DEF Counted

\* Steps that touch neither staff, codes nor their counts.
LEMMA CountedStays ==
    ASSUME Counted, UNCHANGED <<operators, codes, wrong>>
    PROVE  Counted'
BY DEF Counted

LEMMA CodeRefusedSafe ==
    ASSUME IInv, NEW t \in Tabs, NEW id, NEW purpose, NEW right \in BOOLEAN, NEW step,
           purpose # "setup" \/ (Free(Begun(t)) /\ id = cookies[t[1]].setup.code),
           CodeRefused(t, id, purpose, right, step)
    PROVE  IInv'
<1>0. "code" \in Errors
  BY DEF Errors
<1>1. CASE Refuse(t, right, step, "code")
  BY <1>0, <1>1, RefuseSafe
<1>2. ASSUME NEW p \in Receiver(id, purpose), WrongCode(p),
             UNCHANGED <<operators, sessions, recent, failures, setups, work>>,
             Answer(t, right, cookies[t[1]], step, "code")
      PROVE  IInv'
  <2>1. p \in Phones /\ codes[p].attempts < CodeTries
    BY DEF Receiver
  <2>2. \A w \in Finishing : w.phone # p
    BY TriedFinishesNothing DEF IInv
  <2>3. Finishing' = Finishing /\ operators' = operators
    BY <1>2 DEF Finishing
  <2>4. /\ codes' \in [Phones -> Code]
        /\ wrong' \in [{"pin", "code"} -> [Phones -> Nat]]
        /\ Counted' /\ CodesStay
    BY <1>2, <2>1, <2>2, <2>3, TriedSafe DEF WrongCode
  <2>5. RowsTyped'
    BY <1>2, <2>4, RowsAreTyped DEF IInv, RowsTyped
  <2> QED
    BY <1>0, <1>2, <2>4, <2>5, JarOf, AnswerSafe DEF IInv
<1> QED
  BY <1>1, <1>2 DEF CodeRefused

-----------------------------------------------------------------------------
(* Signing in. *)

LEMMA MistypeSafe ==
    ASSUME IInv, NEW t \in Tabs, Mistype(t)
    PROVE  IInv'
<1>1. "invalid" \in Errors
  BY DEF Errors
<1> QED
  BY <1>1, RefuseSafe DEF Mistype

\* A wrong passphrase is counted, or an entry changes only the cookies.
LEMMA CountSafe ==
    ASSUME IInv, NEW t \in Tabs, NEW kind \in {"staff", "setup"}, NEW expected \in BOOLEAN,
           NEW jar, JarOK(jar), KnowsNoMore(jar, cookies[t[1]]),
           NEW step, NEW said \in Errors,
           \/ failures' = failures
           \/ failures[kind] < MaxFailures /\ failures' = [failures EXCEPT ![kind] = @ + 1],
           UNCHANGED <<operators, sessions, codes, recent, setups, work, wrong>>,
           Answer(t, expected, jar, step, said)
    PROVE  IInv'
<1>1. RowsTyped /\ Counted
  BY RowsAreTyped DEF IInv
<1>2. failures' \in [{"staff", "setup"} -> 0..MaxFailures]
  <2>1. failures \in [{"staff", "setup"} -> 0..MaxFailures]
    BY <1>1 DEF RowsTyped
  <2>2. CASE failures' = failures
    BY <2>1, <2>2
  <2>3. CASE failures[kind] < MaxFailures /\ failures' = [failures EXCEPT ![kind] = @ + 1]
    <3>1. failures[kind] + 1 \in 0..MaxFailures
      BY <2>1, <2>3, StaffAccessAssumption
    <3> QED
      BY <2>1, <2>3, <3>1
  <2> QED
    BY <2>2, <2>3
<1>3. RowsTyped'
  BY <1>1, <1>2 DEF RowsTyped
<1>4. Counted' /\ CodesStay
  BY <1>1, CountedStays, CodesStayAll DEF Finishing
<1> QED
  BY <1>3, <1>4, AnswerSafe

LEMMA StartSafe ==
    ASSUME IInv, NEW t \in Tabs, NEW p \in Phones, NEW right \in BOOLEAN, Start(t, p, right)
    PROVE  IInv'
<1> DEFINE fits == right /\ p = t[1]
           jar == [cookies[t[1]] EXCEPT !.signIn = [phone |-> p, hasPin |-> operators[p].pin]]
<1>0. {"wait", "passphrase", "unknown", "none"} \subseteq Errors /\ fits \in BOOLEAN
  BY DEF Errors
<1>1. CASE Refuse(t, fits, "", "wait")
  BY <1>0, <1>1, RefuseSafe
<1>2. CASE Refuse(t, fits, "", "unknown")
  BY <1>0, <1>2, RefuseSafe
<1>3. CASE /\ failures["staff"] < MaxFailures
           /\ failures' = [failures EXCEPT !["staff"] = @ + 1]
           /\ UNCHANGED <<operators, sessions, codes, recent, setups, work, wrong>>
           /\ Answer(t, FALSE, cookies[t[1]], "", "passphrase")
  BY <1>0, <1>3, JarOf, CountSafe DEF IInv
<1>4. CASE /\ UNCHANGED <<operators, sessions, codes, recent, failures, setups, work, wrong>>
           /\ Answer(t, fits, jar, IF operators[p].pin THEN "pin" ELSE "create", "none")
  <2>1. operators[p].pin \in BOOLEAN
    BY DEF IInv, Typed, TypeOK, Operator
  <2>2. JarOK(jar) /\ jar.setup = cookies[t[1]].setup
    BY <2>1, JarOf, Jars DEF IInv
  <2>3. KnowsNoMore(jar, cookies[t[1]])
    BY <2>2 DEF KnowsNoMore
  <2> HIDE DEF jar, fits
  <2> QED
    BY <1>0, <1>4, <2>2, <2>3, CountSafe
<1> QED
  BY <1>1, <1>2, <1>3, <1>4 DEF Start

\* Someone signs in, is told, and their PIN or code is settled.
LEMMA SignedInSafe ==
    ASSUME IInv, NEW t \in Tabs, NEW p \in Phones, NEW expected \in BOOLEAN, NEW step,
           sessions' = sessions \cup {<<p, t[1]>>},
           Answer(t, expected, SessionJar(cookies[t[1]], p), step, "none"),
           UNCHANGED <<recent, failures, setups, work>>,
           operators' \in [Phones -> Operator], codes' \in [Phones -> Code],
           wrong' \in [{"pin", "code"} -> [Phones -> Nat]], Counted', CodesStay
    PROVE  IInv'
<1>1. "none" \in Errors
  BY DEF Errors
<1>2. JarOK(SessionJar(cookies[t[1]], p)) /\ KnowsNoMore(SessionJar(cookies[t[1]], p), cookies[t[1]])
  BY JarOf, Jars DEF IInv, KnowsNoMore
<1>3. RowsTyped'
  BY JarOf, RowsAreTyped DEF IInv, RowsTyped
<1> QED
  BY <1>1, <1>2, <1>3, AnswerSafe

LEMMA PinAnsweredSafe ==
    ASSUME IInv, NEW t \in Tabs, NEW p \in Phones, NEW right \in BOOLEAN, Active(p),
           UNCHANGED <<codes, recent, failures, setups, work>>, PinAnswered(t, p, right)
    PROVE  IInv'
<1>0. {"pin-blocked", "pin-paused", "pin", "none"} \subseteq Errors
  BY DEF Errors
<1>1. codes' \in [Phones -> Code] /\ CodesStay /\ codes' = codes
  BY CodesStayAll DEF IInv, Typed, TypeOK, Finishing
<1>2. CASE /\ StorePin(p) /\ sessions' = sessions \cup {<<p, t[1]>>}
           /\ Answer(t, right, SessionJar(cookies[t[1]], p), "", "none")
  BY <1>1, <1>2, StoredSafe, SignedInSafe
<1>3. CASE \E said \in {"pin-blocked", "pin-paused"} : Refuse(t, right, pages[t].form, said)
  BY <1>0, <1>3, RefuseSafe
<1>4. CASE /\ ~Blocked(p) /\ WrongPin(p) /\ sessions' = sessions
           /\ Answer(t, right, cookies[t[1]], pages[t].form,
                     IF operators[p].tries + 1 >= ResetAfter THEN "pin-blocked" ELSE "pin")
  <2>1. /\ operators' \in [Phones -> Operator]
        /\ wrong' \in [{"pin", "code"} -> [Phones -> Nat]] /\ Counted'
    BY <1>1, <1>4, WrongPinSafe
  <2>2. RowsTyped'
    BY <1>1, <1>4, <2>1, RowsAreTyped DEF IInv, RowsTyped
  <2>3. (IF operators[p].tries + 1 >= ResetAfter THEN "pin-blocked" ELSE "pin") \in Errors
    BY <1>0
  <2> QED
    BY <1>1, <1>4, <2>1, <2>2, <2>3, JarOf, AnswerSafe DEF IInv
<1> QED
  BY <1>2, <1>3, <1>4 DEF PinAnswered

\* The phone in a sign-in cookie is somebody's.
LEMMA SignInPhone ==
    ASSUME Typed, NEW t \in Tabs, cookies[t[1]].signIn.phone # NoOne
    PROVE  cookies[t[1]].signIn.phone \in Phones
BY JarOf DEF JarOK, Jar, None

LEMMA EnterPinSafe ==
    ASSUME IInv, NEW t \in Tabs, NEW right \in BOOLEAN, EnterPin(t, right)
    PROVE  IInv'
<1> DEFINE p == cookies[t[1]].signIn.phone
<1>0. {"expired", "wait", "unknown"} \subseteq Errors
  BY DEF Errors
<1>1. CASE \E step \in {"", pages[t].form}, said \in {"expired", "wait", "unknown"} :
              Refuse(t, right, step, said)
  BY <1>0, <1>1, RefuseSafe
<1>2. CASE /\ p # NoOne /\ Active(p)
           /\ UNCHANGED <<codes, recent, failures, setups, work>> /\ PinAnswered(t, p, right)
  BY <1>2, SignInPhone, PinAnsweredSafe DEF IInv
<1> QED
  BY <1>1, <1>2 DEF EnterPin

LEMMA ResetSafe ==
    ASSUME IInv, NEW t \in Tabs, NEW sent \in BOOLEAN, Reset(t, sent)
    PROVE  IInv'
<1> DEFINE p == cookies[t[1]].signIn.phone
           expected == TurnedAway(t)
           jar == [cookies[t[1]] EXCEPT !.challenge = LastCode + 1]
<1>0. {"expired", "wait", "unknown", "none", "server"} \subseteq Errors /\ expected \in BOOLEAN
  BY DEF Errors, TurnedAway
<1>1. CASE \E step \in {"", "pin"}, said \in {"expired", "wait", "unknown"} :
              Refuse(t, expected, step, said)
  BY <1>0, <1>1, RefuseSafe
<1>2. CASE /\ p # NoOne /\ StartOtp(p, "ops", sent)
           /\ UNCHANGED <<operators, sessions, failures, setups, work>>
           /\ IF sent THEN Answer(t, expected, jar, "code", "none")
              ELSE Answer(t, FALSE, cookies[t[1]], "pin", "server")
  <2>1. p \in Phones /\ Len(setups') <= MaxSetups /\ setups' \in Seq(Setup)
    BY <1>2, SignInPhone, RowsAreTyped DEF IInv, RowsTyped
  <2>2. CASE sent
    <3>1. LastCode + 1 \in 0..MaxCodes
      BY <1>2, LastCodeTyped, StaffAccessAssumption DEF IInv, StartOtp
    <3>2. JarOK(jar) /\ jar.setup = cookies[t[1]].setup
      BY <3>1, JarOf, Jars DEF IInv
    <3> HIDE DEF p, expected, jar
    <3> QED
      BY <1>0, <1>2, <2>1, <2>2, <3>2, SentSafe
  <2>3. CASE ~sent
    <3> HIDE DEF p, expected, jar
    <3> QED
      BY <1>0, <1>2, <2>1, <2>3, NotSentSafe
  <2> QED
    BY <2>2, <2>3
<1> QED
  BY <1>1, <1>2 DEF Reset

LEMMA EnterCodeSafe ==
    ASSUME IInv, NEW t \in Tabs, NEW right \in BOOLEAN, EnterCode(t, right)
    PROVE  IInv'
<1> DEFINE id == cookies[t[1]].challenge
<1>0. {"expired", "unknown"} \subseteq Errors
  BY DEF Errors
<1>1. CASE \E said \in {"expired", "unknown"} : Refuse(t, right, "", said)
  BY <1>0, <1>1, RefuseSafe
<1>2. CASE CodeRefused(t, id, "ops", right, "code")
  BY <1>2, CodeRefusedSafe
<1>3. ASSUME NEW p \in Receiver(id, "ops"), codes' = UsedCode(p),
             sessions' = sessions \cup {<<p, t[1]>>},
             UNCHANGED <<operators, recent, failures, setups, work, wrong>>,
             Answer(t, right, SessionJar(cookies[t[1]], p), "new-pin", "none")
      PROVE  IInv'
  <2>1. p \in Phones /\ codes[p].attempts < CodeTries
    BY DEF Receiver
  <2>2. \A w \in Finishing : w.phone # p
    BY TriedFinishesNothing DEF IInv
  <2>3. Finishing' = Finishing /\ operators' = operators /\ wrong' = wrong
    BY <1>3 DEF Finishing
  <2>4. /\ codes' \in [Phones -> Code]
        /\ wrong' \in [{"pin", "code"} -> [Phones -> Nat]]
        /\ Counted' /\ CodesStay
    BY <1>3, <2>1, <2>2, <2>3, TriedSafe
  <2>5. operators' \in [Phones -> Operator]
    BY <2>3 DEF IInv, Typed, TypeOK
  <2> QED
    BY <1>3, <2>1, <2>4, <2>5, SignedInSafe
<1> QED
  BY <1>1, <1>2, <1>3 DEF EnterCode

LEMMA NewPinSafe ==
    ASSUME IInv, NEW t \in Tabs, NewPin(t)
    PROVE  IInv'
<1> DEFINE p == cookies[t[1]].session
<1>0. {"none", "server"} \subseteq Errors
  BY DEF Errors
<1>1. CASE Refuse(t, TRUE, "new-pin", "server")
  BY <1>0, <1>1, RefuseSafe
<1>2. CASE /\ SignedIn(t[1]) /\ StorePin(p)
           /\ UNCHANGED <<sessions, codes, recent, failures, setups, work>>
           /\ Answer(t, TRUE, cookies[t[1]], "", "none")
  <2>1. p \in Phones
    BY <1>2 DEF SignedIn, InForceFor, IInv, Typed, TypeOK
  <2>2. /\ operators' \in [Phones -> Operator]
        /\ wrong' \in [{"pin", "code"} -> [Phones -> Nat]] /\ Counted'
    BY <1>2, <2>1, StoredSafe
  <2>3. RowsTyped' /\ CodesStay
    BY <1>2, <2>2, RowsAreTyped, CodesStayAll DEF IInv, RowsTyped, Finishing
  <2> QED
    BY <1>0, <1>2, <2>2, <2>3, JarOf, AnswerSafe DEF IInv
<1> QED
  BY <1>1, <1>2 DEF NewPin

\* Steps of the browser alone.
LEMMA BrowserSafe ==
    ASSUME IInv, Answered, Keeps,
           UNCHANGED <<operators, codes, recent, failures, setups, work, wrong>>,
           sessions' \subseteq sessions
    PROVE  IInv'
<1>1. RowsTyped'
  BY RowsAreTyped DEF IInv, RowsTyped
<1>2. Counted' /\ CodesStay
  BY CountedStays, CodesStayAll DEF IInv, Finishing
<1> QED
  BY <1>1, <1>2, AllTyped, StaysKnown DEF IInv

\* A browser's cookies become a jar that knows no more.
LEMMA JarChanged ==
    ASSUME Typed, NEW b \in Browsers, NEW jar, JarOK(jar), KnowsNoMore(jar, cookies[b]),
           cookies' = [cookies EXCEPT ![b] = jar] \/ cookies' = cookies
    PROVE  /\ cookies' \in [Browsers -> Jar] /\ \A c \in Browsers : JarOK(cookies'[c])
           /\ Keeps
<1>1. cookies \in [Browsers -> Jar] /\ jar \in Jar /\ \A c \in Browsers : JarOK(cookies[c])
  BY DEF Typed, TypeOK, JarOK
<1>2. \A c \in Browsers : cookies'[c] = cookies[c] \/ (c = b /\ cookies'[c] = jar)
  BY <1>1
<1> QED
  BY <1>1, <1>2 DEF Keeps, KnowsNoMore

LEMMA StartOverSafe ==
    ASSUME IInv, NEW t \in Tabs, StartOver(t)
    PROVE  IInv'
<1> DEFINE n == Cost(pages[t].said = "code" \/ (pages[t].form = "create" /\ TurnedAway(t)))
<1>1. surprises' \in 0..MaxSurprises
  <2>1. n \in Nat /\ Surprise(n)
    BY DEF Cost, StartOver
  <2> HIDE DEF n
  <2> QED
    BY <2>1, SurpriseTyped DEF IInv
<1>2. pages' \in [Tabs -> Page]
  <2>1. ShownNow(t, cookies[t[1]], "") \in Page
    BY JarOf, ShownIsPage DEF IInv, ShownNow, Errors
  <2> QED
    BY <2>1 DEF StartOver, IInv, Typed, TypeOK, Page
<1>3. Answered /\ Keeps
  BY <1>1, <1>2, JarOf, JarChanged DEF Answered, StartOver, IInv
<1> QED
  BY <1>3, BrowserSafe DEF StartOver

LEMMA VisitSafe ==
    ASSUME IInv, NEW t \in Tabs, NEW step, Visit(t, step)
    PROVE  IInv'
<1>1. surprises' \in 0..MaxSurprises
  BY SurpriseTyped DEF IInv, Visit
<1>2. pages' \in [Tabs -> Page]
  <2>1. ShownNow(t, cookies[t[1]], step) \in Page
    BY JarOf, ShownIsPage DEF IInv, ShownNow, Errors
  <2> QED
    BY <2>1 DEF Visit, IInv, Typed, TypeOK, Page
<1>3. Answered /\ Keeps
  BY <1>1, <1>2, JarOf, JarChanged DEF Answered, Visit, IInv
<1> QED
  BY <1>3, BrowserSafe DEF Visit

LEMMA SignOutSafe ==
    ASSUME IInv, NEW t \in Tabs, SignOut(t)
    PROVE  IInv'
<1> DEFINE jar == [cookies[t[1]] EXCEPT !.session = NoOne]
<1>1. surprises' \in 0..MaxSurprises
  BY SurpriseTyped DEF IInv, SignOut
<1>2. pages' \in [Tabs -> Page]
  <2>1. [form |-> "start", said |-> "none"] \in Page
    BY DEF Page, SignInForms, Errors
  <2> QED
    BY <2>1 DEF SignOut, IInv, Typed, TypeOK, Page
<1>3. JarOK(jar) /\ KnowsNoMore(jar, cookies[t[1]])
  BY JarOf, Jars DEF IInv, KnowsNoMore
<1>4. cookies' = [cookies EXCEPT ![t[1]] = jar]
  BY JarOf DEF SignOut, IInv, Typed, TypeOK
<1>5. Answered /\ Keeps
  <2> HIDE DEF jar
  <2> QED
    BY <1>1, <1>2, <1>3, <1>4, JarOf, JarChanged DEF Answered, IInv
<1> QED
  BY <1>5, BrowserSafe DEF SignOut

-----------------------------------------------------------------------------
(* Admin setup. *)

LEMMA SetupGoneSafe ==
    ASSUME IInv, NEW t \in Tabs, SetupGone(t)
    PROVE  IInv'
<1> DEFINE jar == [cookies[t[1]] EXCEPT !.setup = NoSetup]
<1>0. "expired" \in Errors
  BY DEF Errors
<1>1. CASE Refuse(t, TRUE, "setup", "expired")
  BY <1>0, <1>1, RefuseSafe
<1>2. CASE /\ UNCHANGED <<operators, sessions, codes, recent, failures, setups, work, wrong>>
           /\ Answer(t, TRUE, jar, "setup", "expired")
  <2>1. JarOK(jar) /\ jar.setup = NoSetup
    BY JarOf, Jars DEF IInv
  <2>2. KnowsNoMore(jar, cookies[t[1]])
    BY <2>1 DEF KnowsNoMore, NoSetup
  <2> HIDE DEF jar
  <2> QED
    BY <1>0, <1>2, <2>1, <2>2, CountSafe
<1> QED
  BY <1>1, <1>2 DEF SetupGone

\* A setup is begun, or a field of one is filled in.
LEMMA SetupsTyped ==
    ASSUME Typed
    PROVE  /\ LET x == [approvedBy |-> NoOne, phone |-> NoOne, done |-> FALSE, alive |-> TRUE]
              IN  Append(setups, x) \in Seq(Setup) /\ Len(Append(setups, x)) = Len(setups) + 1
           /\ \A id \in Nat, p \in Phones :
                LET a == [setups EXCEPT ![id].approvedBy = p]
                    b == [setups EXCEPT ![id].phone = p]
                    c == [setups EXCEPT ![id].done = TRUE]
                    d == [setups EXCEPT ![id].alive = FALSE]
                IN  /\ {a, b, c, d} \subseteq Seq(Setup)
                    /\ Len(a) = Len(setups) /\ Len(b) = Len(setups) /\ Len(c) = Len(setups)
                    /\ Len(d) = Len(setups)
<1>1. setups \in Seq(Setup)
  BY DEF Typed
<1>2. [approvedBy |-> NoOne, phone |-> NoOne, done |-> FALSE, alive |-> TRUE] \in Setup
  BY DEF Setup
<1>3. ASSUME NEW id \in Nat, NEW y \in Setup, id \in DOMAIN setups
      PROVE  [setups EXCEPT ![id] = y] \in Seq(Setup) /\ Len([setups EXCEPT ![id] = y]) = Len(setups)
  BY <1>1, <1>3, LenProperties, ExceptSeq
<1>4. ASSUME NEW id \in Nat, NEW y, id \notin DOMAIN setups
      PROVE  [setups EXCEPT ![id] = y] = setups
  <2>1. setups \in [1..Len(setups) -> Setup] /\ DOMAIN setups = 1..Len(setups)
    BY <1>1, LenProperties
  <2> QED
    BY <1>4, <2>1
<1>5. ASSUME NEW id \in Nat, NEW p \in Phones, id \in DOMAIN setups
      PROVE  /\ [setups[id] EXCEPT !.approvedBy = p] \in Setup
             /\ [setups[id] EXCEPT !.phone = p] \in Setup
             /\ [setups[id] EXCEPT !.done = TRUE] \in Setup
             /\ [setups[id] EXCEPT !.alive = FALSE] \in Setup
  <2>1. setups[id] \in Setup
    BY <1>1, <1>5
  <2> QED
    BY <2>1 DEF Setup
<1>6. ASSUME NEW id \in Nat, NEW y, id \in DOMAIN setups => y \in Setup
      PROVE  [setups EXCEPT ![id] = y] \in Seq(Setup) /\ Len([setups EXCEPT ![id] = y]) = Len(setups)
  BY <1>1, <1>3, <1>4, <1>6
<1>7. ASSUME NEW id \in Nat, NEW p \in Phones
      PROVE  /\ [setups EXCEPT ![id].approvedBy = p]
                  = [setups EXCEPT ![id] = [setups[id] EXCEPT !.approvedBy = p]]
             /\ [setups EXCEPT ![id].phone = p] = [setups EXCEPT ![id] = [setups[id] EXCEPT !.phone = p]]
             /\ [setups EXCEPT ![id].done = TRUE] = [setups EXCEPT ![id] = [setups[id] EXCEPT !.done = TRUE]]
             /\ [setups EXCEPT ![id].alive = FALSE]
                  = [setups EXCEPT ![id] = [setups[id] EXCEPT !.alive = FALSE]]
  OBVIOUS
<1>8. Append(setups, [approvedBy |-> NoOne, phone |-> NoOne, done |-> FALSE, alive |-> TRUE]) \in Seq(Setup)
      /\ Len(Append(setups, [approvedBy |-> NoOne, phone |-> NoOne, done |-> FALSE, alive |-> TRUE]))
            = Len(setups) + 1
  BY <1>1, <1>2
<1> QED
  BY <1>5, <1>6, <1>7, <1>8

LEMMA SetupPassphraseSafe ==
    ASSUME IInv, NEW t \in Tabs, NEW right \in BOOLEAN, SetupPassphrase(t, right)
    PROVE  IInv'
<1> DEFINE stage == IF Admins # {} THEN "approve-phone" ELSE "details"
           jar == [cookies[t[1]] EXCEPT !.setup = [id |-> Len(setups) + 1, code |-> 0, stage |-> stage]]
<1>0. {"locked", "passphrase", "none"} \subseteq Errors
  BY DEF Errors
<1>1. CASE Refuse(t, right, "setup", "locked")
  BY <1>0, <1>1, RefuseSafe
<1>2. CASE /\ failures["setup"] < MaxFailures
           /\ failures' = [failures EXCEPT !["setup"] = @ + 1]
           /\ UNCHANGED <<operators, sessions, codes, recent, setups, work, wrong>>
           /\ Answer(t, FALSE, cookies[t[1]], "setup", "passphrase")
  BY <1>0, <1>2, JarOf, CountSafe DEF IInv
<1>3. CASE /\ Len(setups) < MaxSetups
           /\ setups' = Append(setups, [approvedBy |-> NoOne, phone |-> NoOne, done |-> FALSE, alive |-> TRUE])
           /\ UNCHANGED <<operators, sessions, codes, recent, failures, work, wrong>>
           /\ Answer(t, TRUE, jar, "setup", "none")
  <2>1. Len(setups) \in Nat /\ Len(setups') = Len(setups) + 1 /\ setups' \in Seq(Setup)
    BY <1>3, SetupsTyped, LenProperties DEF IInv, Typed
  <2>2. stage \in SetupForms
    BY DEF SetupForms
  <2>3. Len(setups) + 1 \in 0..MaxSetups /\ 0 \in 0..MaxCodes
    BY <1>3, <2>1, StaffAccessAssumption
  <2>4. JarOK(jar) /\ jar.setup = [id |-> Len(setups) + 1, code |-> 0, stage |-> stage]
    <3>1. JarOK(cookies[t[1]])
      BY JarOf DEF IInv
    <3>2. jar = AtStage(cookies[t[1]], Len(setups) + 1, 0, stage)
      BY DEF AtStage
    <3> HIDE DEF stage, jar
    <3> QED
      BY <2>2, <2>3, <3>1, <3>2, JarAtStage
  <2>5. KnowsNoMore(jar, cookies[t[1]])
    BY <2>4 DEF KnowsNoMore
  <2>6. RowsTyped'
    BY <1>3, <2>1, <2>3, RowsAreTyped DEF IInv, RowsTyped
  <2>7. Counted' /\ CodesStay
    BY <1>3, CountedStays, CodesStayAll DEF IInv, Finishing
  <2> HIDE DEF jar, stage
  <2> QED
    BY <1>0, <1>3, <2>4, <2>5, <2>6, <2>7, AnswerSafe
<1> QED
  BY <1>1, <1>2, <1>3 DEF SetupPassphrase

LEMMA SetupCodeSafe ==
    ASSUME IInv, NEW t \in Tabs, NEW p \in Phones, NEW purpose \in {"approve", "setup"},
           NEW sent \in BOOLEAN, NEW stage \in SetupForms,
           Len(setups') <= MaxSetups /\ setups' \in Seq(Setup),
           SetupCode(t, p, purpose, sent, stage)
    PROVE  IInv'
<1> DEFINE jar == [cookies[t[1]] EXCEPT !.setup.stage = stage, !.setup.code = LastCode + 1]
<1>0. {"none", "server"} \subseteq Errors
  BY DEF Errors
<1>1. CASE sent
  <2>1. LastCode + 1 \in 0..MaxCodes
    BY LastCodeTyped, StaffAccessAssumption DEF IInv, SetupCode, StartOtp
  <2>2. JarOK(jar) /\ jar.setup.code = LastCode + 1
    <3>1. JarOK(cookies[t[1]])
      BY JarOf DEF IInv
    <3>2. jar = Moved(cookies[t[1]], stage, LastCode + 1)
      BY DEF Moved
    <3> HIDE DEF jar
    <3> QED
      BY <2>1, <3>1, <3>2, JarMoved
  <2>3. Answer(t, TRUE, jar, "setup", "none") /\ StartOtp(p, purpose, TRUE)
        /\ UNCHANGED <<operators, sessions, failures, work>>
    BY <1>1 DEF SetupCode
  <2> HIDE DEF jar
  <2> QED
    BY <1>0, <2>2, <2>3, SentSafe
<1>2. CASE ~sent
  BY <1>0, <1>2, NotSentSafe DEF SetupCode
<1> QED
  BY <1>1, <1>2

LEMMA ApprovePhoneSafe ==
    ASSUME IInv, NEW t \in Tabs, NEW p \in Phones, NEW sent \in BOOLEAN, ApprovePhone(t, p, sent)
    PROVE  IInv'
<1>0. {"denied", "locked"} \subseteq Errors /\ "approve-code" \in SetupForms
  BY DEF Errors, SetupForms
<1>1. CASE SetupGone(t)
  BY <1>1, SetupGoneSafe
<1>2. CASE \E expected \in BOOLEAN, said \in {"denied", "locked"} : Refuse(t, expected, "setup", said)
  BY <1>0, <1>2, RefuseSafe
<1>3. CASE setups' = setups /\ SetupCode(t, p, "approve", sent, "approve-code")
  <2>1. Len(setups') <= MaxSetups /\ setups' \in Seq(Setup)
    BY <1>3 DEF IInv, Typed, TypeOK
  <2> QED
    BY <1>0, <1>3, <2>1, SetupCodeSafe
<1> QED
  BY <1>1, <1>2, <1>3 DEF ApprovePhone

\* The setup of a cookie.
LEMMA BegunTyped ==
    ASSUME Typed, NEW t \in Tabs
    PROVE  Begun(t) \in 0..MaxSetups /\ Begun(t) \in Nat
BY JarOf, StaffAccessAssumption DEF JarOK, Jar, Begun

LEMMA ApproveCodeSafe ==
    ASSUME IInv, NEW t \in Tabs, NEW right \in BOOLEAN, ApproveCode(t, right)
    PROVE  IInv'
<1> DEFINE id == Begun(t)
           code == cookies[t[1]].setup.code
           jar == [cookies[t[1]] EXCEPT !.setup = [id |-> id, stage |-> "details", code |-> 0]]
<1>0. {"denied", "server", "none"} \subseteq Errors /\ "details" \in SetupForms
  BY DEF Errors, SetupForms
<1>1. CASE SetupGone(t)
  BY <1>1, SetupGoneSafe
<1>2. CASE \E expected \in BOOLEAN, said \in {"denied", "server"} : Refuse(t, expected, "setup", said)
  BY <1>0, <1>2, RefuseSafe
<1>3. CASE CodeRefused(t, code, "approve", right, "setup")
  BY <1>3, CodeRefusedSafe
<1>4. ASSUME NEW p \in Receiver(code, "approve"), codes' = UsedCode(p),
             setups' = [setups EXCEPT ![id].approvedBy = p],
             UNCHANGED <<operators, sessions, recent, failures, work, wrong>>,
             Answer(t, TRUE, jar, "setup", "none")
      PROVE  IInv'
  <2>1. p \in Phones /\ codes[p].attempts < CodeTries
    BY DEF Receiver
  <2>2. \A w \in Finishing : w.phone # p
    BY TriedFinishesNothing DEF IInv
  <2>3. Finishing' = Finishing /\ operators' = operators /\ wrong' = wrong
    BY <1>4 DEF Finishing
  <2>4. /\ codes' \in [Phones -> Code]
        /\ wrong' \in [{"pin", "code"} -> [Phones -> Nat]]
        /\ Counted' /\ CodesStay
    BY <1>4, <2>1, <2>2, <2>3, TriedSafe
  <2>5. id \in 0..MaxSetups /\ id \in Nat /\ 0 \in 0..MaxCodes
    BY BegunTyped, StaffAccessAssumption DEF IInv
  <2>6. Len(setups') = Len(setups) /\ setups' \in Seq(Setup)
    BY <1>4, <2>1, <2>5, SetupsTyped DEF IInv
  <2>7. RowsTyped'
    BY <1>4, <2>4, <2>6, RowsAreTyped DEF IInv, RowsTyped
  <2>8. JarOK(jar) /\ jar.setup.code = 0
    <3>1. JarOK(cookies[t[1]])
      BY JarOf DEF IInv
    <3>2. jar = AtStage(cookies[t[1]], id, 0, "details")
      BY DEF AtStage
    <3>3. JarOK(jar) /\ jar.setup = [id |-> id, stage |-> "details", code |-> 0]
      <4> HIDE DEF jar, id
      <4> QED
        BY <1>0, <2>5, <3>1, <3>2, JarAtStage
    <3> HIDE DEF id, jar
    <3> QED
      BY <3>3
  <2>9. KnowsNoMore(jar, cookies[t[1]])
    BY <2>8 DEF KnowsNoMore
  <2> HIDE DEF jar, id, code
  <2> QED
    BY <1>0, <1>4, <2>4, <2>7, <2>8, <2>9, AnswerSafe
<1> QED
  BY <1>1, <1>2, <1>3, <1>4 DEF ApproveCode

LEMMA DetailsSafe ==
    ASSUME IInv, NEW t \in Tabs, NEW p \in Phones, NEW sent \in BOOLEAN, Details(t, p, sent)
    PROVE  IInv'
<1> DEFINE id == Begun(t)
<1>0. {"denied", "taken", "locked"} \subseteq Errors /\ "new-code" \in SetupForms
  BY DEF Errors, SetupForms
<1>1. CASE SetupGone(t)
  BY <1>1, SetupGoneSafe
<1>2. CASE \E expected \in BOOLEAN, said \in {"denied", "taken", "locked"} :
              Refuse(t, expected, "setup", said)
  BY <1>0, <1>2, RefuseSafe
<1>3. CASE setups' = [setups EXCEPT ![id].phone = p] /\ SetupCode(t, p, "setup", sent, "new-code")
  <2>1. id \in Nat
    BY BegunTyped DEF IInv
  <2>2. Len(setups') = Len(setups) /\ setups' \in Seq(Setup)
    BY <1>3, <2>1, SetupsTyped DEF IInv
  <2>3. Len(setups') <= MaxSetups
    BY <2>2 DEF IInv, Typed, TypeOK
  <2> QED
    BY <1>0, <1>3, <2>2, <2>3, SetupCodeSafe
<1> QED
  BY <1>1, <1>2, <1>3 DEF Details

\* A setup is about to finish: nobody else can try its code any more.
LEMMA NewCodeSafe ==
    ASSUME IInv, NEW t \in Tabs, NEW right \in BOOLEAN, NewCode(t, right)
    PROVE  IInv'
<1> DEFINE id == Begun(t)
           code == cookies[t[1]].setup.code
<1>0. {"denied", "server", "code", "taken"} \subseteq Errors
  BY DEF Errors
<1>1. CASE SetupGone(t)
  BY <1>1, SetupGoneSafe
<1>2. CASE \E expected \in BOOLEAN, said \in {"denied", "server", "code", "taken"} :
              Refuse(t, expected, "setup", said)
  BY <1>0, <1>2, RefuseSafe
<1>3. CASE Continues(t) /\ CodeRefused(t, code, "setup", right, "setup")
  BY <1>3, CodeRefusedSafe DEF Continues
<1>4. ASSUME NEW p \in Receiver(code, "setup"), Continues(t),
             work' = work \cup {[tab |-> t, setup |-> id, phone |-> p, change |-> "finish"]},
             UNCHANGED <<operators, sessions, codes, recent, failures, setups, cookies, pages,
                         surprises, wrong>>
      PROVE  IInv'
  <2> DEFINE new == [tab |-> t, setup |-> id, phone |-> p, change |-> "finish"]
  <2>1. /\ p \in Phones /\ codes[p].attempts < CodeTries /\ codes[p].id = code /\ code # 0
        /\ codes[p].purpose = "setup"
    BY DEF Receiver
  <2>2. \A w \in Finishing : w.phone # p
    BY <1>4, TriedFinishesNothing DEF IInv, Continues
  <2>3. new \in [tab : Tabs, setup : 0..MaxSetups, phone : Phones, change : Changes \cup {"finish"}]
    BY <2>1, BegunTyped DEF IInv
  <2>4. Typed'
    <3>1. Typed
      BY DEF IInv
    <3> HIDE DEF new
    <3> QED
      BY <1>4, <2>3, <3>1 DEF Typed, TypeOK, new
  <2>5. Counted' /\ CodesKnown'
    BY <1>4 DEF IInv, Counted, CodesKnown, LastCode
  <2>6. Finishing' = Finishing \cup {new}
    BY <1>4 DEF Finishing
  <2>7. \A b \in Browsers : cookies[b].setup.code = codes[p].id => cookies[b].setup.id = id
    <3>1. \A b \in Browsers : cookies[b].setup.code = code => b = t[1]
      BY <2>1, JarOf DEF IInv, CodesKnown
    <3> QED
      BY <2>1, <3>1 DEF Begun
  <2>8. FinishingAlone'
    <3>1. new.phone = p /\ new.setup = id
      OBVIOUS
    <3> HIDE DEF new, id, code
    <3> QED
      BY <1>4, <2>1, <2>2, <2>6, <2>7, <3>1 DEF IInv, FinishingAlone
  <2> QED
    BY <2>4, <2>5, <2>8 DEF IInv
<1> QED
  BY <1>1, <1>2, <1>3, <1>4 DEF NewCode

\* The new admin is on the staff list, with a count of their own.
LEMMA FinishSetupSafe ==
    ASSUME IInv, NEW w \in work, FinishSetup(w)
    PROVE  IInv'
<1> DEFINE t == w.tab
           p == w.phone
           x == [role |-> "admin", active |-> TRUE, pin |-> FALSE, tries |-> 0, paused |-> FALSE]
           jar == [cookies[t[1]] EXCEPT !.session = p, !.challenge = 0, !.setup = NoSetup]
<1>0. {"server", "none"} \subseteq Errors
  BY DEF Errors
<1>1. /\ w \in [tab : Tabs, setup : 0..MaxSetups, phone : Phones, change : Changes \cup {"finish"}]
      /\ w \in Finishing /\ work' = work \ {w} /\ UNCHANGED <<recent, failures, wrong>>
  BY DEF FinishSetup, Finishing, IInv, Typed, TypeOK
<1>2. t \in Tabs /\ p \in Phones /\ t[1] \in Browsers /\ w.setup \in Nat
  BY <1>1, StaffAccessAssumption DEF Tabs
<1>3. Finishing' = Finishing \ {w}
  BY <1>1 DEF Finishing
<1>4. CASE /\ UNCHANGED <<operators, sessions, codes, setups>>
           /\ Answer(t, TRUE, cookies[t[1]], "setup", "server")
  <2>1. RowsTyped'
    BY <1>1, <1>4, RowsAreTyped DEF IInv, RowsTyped
  <2>2. Counted' /\ CodesStay
    BY <1>1, <1>3, <1>4, CountedStays, CodesStayAll DEF IInv
  <2> HIDE DEF t, p, jar
  <2> QED
    BY <1>0, <1>2, <1>4, <2>1, <2>2, JarOf, AnswerSafe DEF IInv
<1>5. CASE /\ operators[p].role = "none" /\ operators' = [operators EXCEPT ![p] = x]
           /\ sessions' = sessions \cup {<<p, t[1]>>} /\ codes' = UsedCode(p)
           /\ setups' = [setups EXCEPT ![w.setup].done = TRUE]
           /\ Answer(t, TRUE, jar, "", "none")
  <2>1. codes[p].attempts < CodeTries /\ \A v \in Finishing' : v.phone # p
    BY <1>1, <1>3 DEF IInv, FinishingAlone
  <2>2. /\ codes' \in [Phones -> Code] /\ CodesStay
        /\ \A q \in Phones : codes'[q].attempts >= codes[q].attempts
    BY <1>1, <1>2, <1>3, <1>5, <2>1, TriedSafe
  <2>3. x \in Operator
    BY StaffAccessAssumption DEF Operator
  <2>4. operators' \in [Phones -> Operator] /\ Counted'
    <3> HIDE DEF x, p
    <3> QED
      BY <1>1, <1>2, <1>5, <2>2, <2>3, StaffChanged
  <2>5. Len(setups') = Len(setups) /\ setups' \in Seq(Setup)
    BY <1>2, <1>5, SetupsTyped DEF IInv
  <2>6. RowsTyped'
    <3>1. work' \subseteq work
      BY <1>1
    <3>2. sessions' \subseteq Phones \X Browsers
      <4>1. sessions \subseteq Phones \X Browsers
        BY DEF IInv, Typed, TypeOK
      <4>2. <<p, t[1]>> \in Phones \X Browsers
        BY <1>2
      <4> HIDE DEF p, t
      <4> QED
        BY <1>5, <4>1, <4>2
    <3> HIDE DEF x, p, t, jar
    <3> QED
      BY <1>1, <2>2, <2>4, <2>5, <3>1, <3>2, RowsAreTyped DEF IInv, RowsTyped
  <2>7. JarOK(jar) /\ jar.setup = NoSetup
    <3>1. JarOK(cookies[t[1]])
      BY <1>2 DEF IInv, Typed
    <3> HIDE DEF t, p
    <3> QED
      BY <1>2, <3>1, Jars
  <2>8. KnowsNoMore(jar, cookies[t[1]])
    BY <2>7 DEF KnowsNoMore, NoSetup
  <2> HIDE DEF t, p, jar, x
  <2> QED
    BY <1>0, <1>2, <1>5, <2>2, <2>4, <2>6, <2>7, <2>8, AnswerSafe
<1> QED
  BY <1>4, <1>5 DEF FinishSetup

LEMMA LeaveSetupSafe ==
    ASSUME IInv, NEW t \in Tabs, LeaveSetup(t)
    PROVE  IInv'
<1> DEFINE jar == [cookies[t[1]] EXCEPT !.setup = NoSetup]
<1>1. JarOK(jar) /\ jar.setup = NoSetup /\ t[1] \in Browsers
  BY JarOf, Jars DEF IInv
<1>2. KnowsNoMore(jar, cookies[t[1]])
  BY <1>1 DEF KnowsNoMore, NoSetup
<1>3. cookies' = [cookies EXCEPT ![t[1]] = jar]
  BY JarOf DEF LeaveSetup, IInv, Typed, TypeOK
<1> HIDE DEF jar
<1>4. pages' \in [Tabs -> Page]
  <2>1. ShownNow(t, jar, "") \in Page
    BY <1>1, ShownIsPage DEF ShownNow, Errors
  <2> QED
    BY <2>1 DEF LeaveSetup, IInv, Typed, TypeOK, Page, jar
<1>5. Answered /\ Keeps
  BY <1>1, <1>2, <1>3, <1>4, JarChanged DEF Answered, IInv, Typed, TypeOK, LeaveSetup
<1> QED
  BY <1>5, BrowserSafe DEF LeaveSetup

-----------------------------------------------------------------------------
(* The staff list and time. *)

\* Steps that leave the browsers and the codes alone.
LEMMA StaffSafe ==
    ASSUME IInv, RowsTyped', Counted', surprises' \in 0..MaxSurprises,
           UNCHANGED <<codes, cookies, pages>>, Finishing' \subseteq Finishing
    PROVE  IInv'
<1>1. Answered /\ Keeps
  BY DEF IInv, Typed, TypeOK, Answered, Keeps, KnowsNoMore, Page
<1>2. CodesStay
  BY CodesStayAll
<1> QED
  BY <1>1, <1>2, AllTyped, StaysKnown DEF IInv

LEMMA AddOperatorSafe ==
    ASSUME IInv, NEW t \in Tabs, NEW p \in Phones, NEW role \in {"staff", "admin"},
           AddOperator(t, p, role)
    PROVE  IInv'
<1> DEFINE x == [role |-> role, active |-> TRUE, pin |-> FALSE, tries |-> 0, paused |-> FALSE]
<1>1. x \in Operator
  BY StaffAccessAssumption DEF Operator
<1>2. /\ operators[p].role = "none" /\ operators' = [operators EXCEPT ![p] = x] /\ Surprise(1)
      /\ UNCHANGED <<sessions, codes, recent, failures, setups, work, cookies, pages, wrong>>
  BY DEF AddOperator
<1>3. \A q \in Phones : codes'[q].attempts >= codes[q].attempts
  <2>1. \A q \in Phones : codes[q].attempts \in Nat
    BY StaffAccessAssumption DEF IInv, Typed, TypeOK, Code
  <2> QED
    BY <1>2, <2>1
<1>4. codes' \in [Phones -> Code]
  BY <1>2 DEF IInv, Typed, TypeOK
<1> HIDE DEF x
<1>5. operators' \in [Phones -> Operator] /\ Counted'
  BY <1>1, <1>2, <1>3, <1>4, StaffChanged
<1>6. RowsTyped' /\ Finishing' = Finishing
  BY <1>2, <1>5, RowsAreTyped DEF IInv, RowsTyped, Finishing
<1> QED
  BY <1>2, <1>5, <1>6, StaffSafe, SurpriseTyped DEF IInv

LEMMA UpdateOperatorSafe ==
    ASSUME IInv, NEW t \in Tabs, NEW p \in Phones, NEW change \in Changes,
           UpdateOperator(t, p, change)
    PROVE  IInv'
<1> DEFINE new == [tab |-> t, setup |-> 0, phone |-> p, change |-> change]
<1>1. /\ new \in [tab : Tabs, setup : 0..MaxSetups, phone : Phones, change : Changes \cup {"finish"}]
      /\ new.change # "finish"
  <2>1. 0 \in 0..MaxSetups
    BY StaffAccessAssumption
  <2>2. change # "finish"
    BY DEF Changes
  <2> QED
    BY <2>1, <2>2
<1>2. /\ work' = work \cup {new} /\ Surprise(1)
      /\ UNCHANGED <<operators, sessions, codes, recent, failures, setups, cookies, pages, wrong>>
  BY DEF UpdateOperator
<1> HIDE DEF new
<1>3. RowsTyped' /\ Finishing' = Finishing
  BY <1>1, <1>2, RowsAreTyped DEF IInv, RowsTyped, Finishing
<1>4. Counted'
  BY <1>2, CountedStays DEF IInv
<1> QED
  BY <1>2, <1>3, <1>4, StaffSafe, SurpriseTyped DEF IInv

LEMMA UpdatedSafe ==
    ASSUME IInv, NEW w \in work, Updated(w)
    PROVE  IInv'
<1> DEFINE p == w.phone
           role == IF w.change = "make staff" THEN "staff"
                   ELSE IF w.change = "make admin" THEN "admin" ELSE operators[p].role
           active == (operators[p].active /\ w.change # "remove") \/ w.change = "restore"
           x == [operators[p] EXCEPT !.role = role, !.active = active]
<1>1. p \in Phones
  BY DEF IInv, Typed, TypeOK
<1>2. operators \in [Phones -> Operator] /\ operators[p] \in Operator
  BY <1>1 DEF IInv, Typed, TypeOK
<1>3. role \in {"none", "staff", "admin"} /\ active \in BOOLEAN
  BY <1>2 DEF Operator
<1>4. operators[p].role = "none" \/ role # "none"
  OBVIOUS
<1>5. /\ operators' = [operators EXCEPT ![p].role = role, ![p].active = active]
      /\ w.change # "finish" /\ work' = work \ {w}
      /\ sessions' \subseteq sessions
      /\ UNCHANGED <<codes, recent, failures, setups, cookies, pages, surprises, wrong>>
  BY DEF Updated
<1> HIDE DEF role, active
<1>6. x \in Operator /\ x.tries = operators[p].tries /\ x.role = role
  BY <1>2, <1>3 DEF Operator
<1>7. operators' = [operators EXCEPT ![p] = x]
  BY <1>1, <1>2, <1>5 DEF Operator
<1>8. \A q \in Phones : codes'[q].attempts >= codes[q].attempts
  <2>1. \A q \in Phones : codes[q].attempts \in Nat
    BY StaffAccessAssumption DEF IInv, Typed, TypeOK, Code
  <2> QED
    BY <1>5, <2>1
<1>9. codes' \in [Phones -> Code]
  BY <1>5 DEF IInv, Typed, TypeOK
<1>10. operators' \in [Phones -> Operator] /\ Counted'
  <2> HIDE DEF x, p
  <2> QED
    BY <1>1, <1>4, <1>5, <1>6, <1>7, <1>8, <1>9, StaffChanged
<1>11. RowsTyped' /\ Finishing' = Finishing
  BY <1>5, <1>10, RowsAreTyped DEF IInv, RowsTyped, Finishing
<1>12. surprises' \in 0..MaxSurprises
  BY <1>5 DEF IInv, Typed, TypeOK
<1> QED
  BY <1>5, <1>10, <1>11, <1>12, StaffSafe

LEMMA WaitSafe ==
    ASSUME IInv, Wait
    PROVE  IInv'
<1>0. UNCHANGED <<sessions, codes, setups, work, cookies, pages, surprises, wrong>>
  BY DEF Wait
<1>1. surprises' \in 0..MaxSurprises /\ Finishing' = Finishing
  BY <1>0 DEF IInv, Typed, TypeOK, Finishing
<1>2. CASE recent' = {} /\ UNCHANGED <<operators, failures>>
  <2>1. RowsTyped' /\ Counted'
    BY <1>0, <1>2, RowsAreTyped, CountedStays DEF IInv, RowsTyped
  <2> QED
    BY <1>0, <1>1, <2>1, StaffSafe
<1>3. ASSUME NEW p \in Phones, operators' = [operators EXCEPT ![p].paused = FALSE],
             UNCHANGED <<recent, failures>>
      PROVE  IInv'
  <2> DEFINE x == [operators[p] EXCEPT !.paused = FALSE]
  <2>1. operators \in [Phones -> Operator] /\ operators[p] \in Operator
    BY DEF IInv, Typed, TypeOK
  <2>2. /\ x \in Operator /\ x.tries = operators[p].tries /\ x.role = operators[p].role
        /\ operators' = [operators EXCEPT ![p] = x]
    BY <1>3, <2>1 DEF Operator
  <2>3. \A q \in Phones : codes'[q].attempts >= codes[q].attempts
    <3>1. \A q \in Phones : codes[q].attempts \in Nat
      BY StaffAccessAssumption DEF IInv, Typed, TypeOK, Code
    <3> QED
      BY <1>0, <3>1
  <2>4. codes' \in [Phones -> Code]
    BY <1>0 DEF IInv, Typed, TypeOK
  <2> HIDE DEF x
  <2>5. operators' \in [Phones -> Operator] /\ Counted'
    BY <1>0, <2>2, <2>3, <2>4, StaffChanged
  <2>6. RowsTyped'
    BY <1>0, <1>3, <2>5, RowsAreTyped DEF IInv, RowsTyped
  <2> QED
    BY <1>0, <1>1, <2>5, <2>6, StaffSafe
<1>4. ASSUME NEW kind \in DOMAIN failures, failures[kind] > 0,
             failures' = [failures EXCEPT ![kind] = @ - 1], UNCHANGED <<operators, recent>>
      PROVE  IInv'
  <2>1. failures' \in [{"staff", "setup"} -> 0..MaxFailures]
    <3>1. failures \in [{"staff", "setup"} -> 0..MaxFailures] /\ kind \in {"staff", "setup"}
      BY DEF IInv, Typed, TypeOK
    <3>2. failures[kind] - 1 \in 0..MaxFailures
      BY <1>4, <3>1, StaffAccessAssumption
    <3> QED
      BY <1>4, <3>1, <3>2
  <2>2. RowsTyped' /\ Counted'
    BY <1>0, <1>4, <2>1, RowsAreTyped, CountedStays DEF IInv, RowsTyped
  <2> QED
    BY <1>0, <1>1, <2>2, StaffSafe
<1> QED
  BY <1>2, <1>3, <1>4 DEF Wait

LEMMA ExpireSafe ==
    ASSUME IInv, Expire
    PROVE  IInv'
<1>0. UNCHANGED <<operators, recent, failures, work, pages, wrong>> /\ Finishing' = Finishing
  BY DEF Expire, Finishing
<1>1. surprises' \in 0..MaxSurprises
  BY SurpriseTyped DEF Expire, IInv
<1>2. pages' \in [Tabs -> Page]
  BY <1>0 DEF IInv, Typed, TypeOK, Page
<1>3. ASSUME NEW b \in Browsers, NEW jar, JarOK(jar), KnowsNoMore(jar, cookies[b]),
             cookies' = [cookies EXCEPT ![b] = jar], UNCHANGED <<codes, setups, sessions>>
      PROVE  IInv'
  <2>1. Answered /\ Keeps
    BY <1>1, <1>2, <1>3, JarChanged DEF Answered, IInv
  <2> QED
    BY <1>0, <1>3, <2>1, BrowserSafe
<1>4. ASSUME NEW b \in Browsers, NEW name \in {"signIn", "challenge", "setup"},
             cookies' = [cookies EXCEPT ![b][name] =
                 CASE name = "signIn" -> None [] name = "challenge" -> 0 [] OTHER -> NoSetup],
             UNCHANGED <<codes, setups, sessions>>
      PROVE  IInv'
  <2>0. JarOK(cookies[b]) /\ 0 \in 0..MaxCodes
    BY StaffAccessAssumption DEF IInv, Typed
  <2>1. CASE name = "signIn"
    <3> DEFINE jar == [cookies[b] EXCEPT !.signIn = None]
    <3>1. cookies' = [cookies EXCEPT ![b] = jar]
      BY <1>4, <2>1
    <3>2. JarOK(jar) /\ KnowsNoMore(jar, cookies[b])
      BY <2>0, Jars DEF KnowsNoMore
    <3> HIDE DEF jar
    <3> QED
      BY <1>3, <1>4, <3>1, <3>2
  <2>2. CASE name = "challenge"
    <3> DEFINE jar == [cookies[b] EXCEPT !.challenge = 0]
    <3>1. cookies' = [cookies EXCEPT ![b] = jar]
      BY <1>4, <2>2
    <3>2. JarOK(jar) /\ jar.setup = cookies[b].setup
      BY <2>0 DEF JarOK, Jar
    <3>3. KnowsNoMore(jar, cookies[b])
      BY <3>2 DEF KnowsNoMore
    <3> HIDE DEF jar
    <3> QED
      BY <1>3, <1>4, <3>1, <3>2, <3>3
  <2>3. CASE name = "setup"
    <3> DEFINE jar == [cookies[b] EXCEPT !.setup = NoSetup]
    <3>1. cookies' = [cookies EXCEPT ![b] = jar]
      BY <1>4, <2>3
    <3>2. JarOK(jar) /\ jar.setup = NoSetup
      BY <2>0, Jars
    <3>3. KnowsNoMore(jar, cookies[b])
      BY <3>2 DEF KnowsNoMore, NoSetup
    <3> HIDE DEF jar
    <3> QED
      BY <1>3, <1>4, <3>1, <3>2, <3>3
  <2> QED
    BY <2>1, <2>2, <2>3
<1>5. CASE cookies' = cookies
  <2>1. Answered /\ Keeps
    BY <1>1, <1>2, <1>5 DEF Answered, Keeps, KnowsNoMore, IInv, Typed, TypeOK
  <2>2. ASSUME NEW p \in Phones, codes' = [codes EXCEPT ![p].alive = FALSE],
               UNCHANGED <<setups, sessions>>
        PROVE  IInv'
    <3>1. codes \in [Phones -> Code]
      BY DEF IInv, Typed, TypeOK
    <3>2. codes' \in [Phones -> Code]
      BY <2>2, <3>1 DEF Code
    <3>3. \A q \in Phones : /\ codes'[q].id = codes[q].id /\ codes'[q].purpose = codes[q].purpose
                            /\ codes'[q].attempts = codes[q].attempts
      BY <2>2, <3>1 DEF Code
    <3>4. \A w \in Finishing : w.phone \in Phones
      BY DEF Finishing, IInv, Typed, TypeOK
    <3>5. RowsTyped' /\ Counted' /\ CodesStay
      BY <1>0, <2>2, <3>2, <3>3, <3>4, RowsAreTyped DEF IInv, RowsTyped, Counted, CodesStay
    <3> QED
      BY <2>1, <3>5, AllTyped, StaysKnown DEF IInv
  <2>3. ASSUME NEW i \in DOMAIN setups, setups' = [setups EXCEPT ![i].alive = FALSE],
               UNCHANGED <<codes, sessions>>
        PROVE  IInv'
    <3>1. i \in Nat
      BY LenProperties DEF IInv, Typed
    <3>2. Len(setups') = Len(setups) /\ setups' \in Seq(Setup)
      <4>1. PICK p \in Phones : TRUE
        BY StaffAccessAssumption
      <4> QED
        BY <2>3, <3>1, SetupsTyped DEF IInv
    <3>3. RowsTyped' /\ Counted' /\ CodesStay
      BY <1>0, <2>3, <3>2, RowsAreTyped, CountedStays, CodesStayAll DEF IInv, RowsTyped
    <3> QED
      BY <2>1, <3>3, AllTyped, StaysKnown DEF IInv
  <2>4. ASSUME NEW s \in sessions, sessions' = sessions \ {s}, UNCHANGED <<codes, setups>>
        PROVE  IInv'
    BY <1>0, <2>1, <2>4, BrowserSafe
  <2> QED
    BY <2>2, <2>3, <2>4, <1>4 DEF Expire
<1> QED
  BY <1>4, <1>5 DEF Expire

-----------------------------------------------------------------------------
(* Theorems. *)

LEMMA IInvInit == Init => IInv
<1> SUFFICES ASSUME Init PROVE IInv
  OBVIOUS
<1>1. 0 \in 0..MaxCodes /\ 0 \in 0..MaxSetups /\ 0 \in 0..CodeTries /\ 0 \in 0..ResetAfter
      /\ 0 \in 0..MaxFailures /\ 0 \in 0..MaxSurprises /\ 0 <= MaxSetups
  BY StaffAccessAssumption
<1>2. operators \in [Phones -> Operator] /\ \A p \in Phones : operators[p].tries = 0
  <2>1. \A p \in Phones : operators[p] \in Operator /\ operators[p].tries = 0
    <3> TAKE p \in Phones
    <3>1. PICK r \in Roles, n \in BOOLEAN :
              operators[p] = [role |-> r, active |-> r # "none", pin |-> n, tries |-> 0, paused |-> FALSE]
      BY DEF Init
    <3>2. r \in {"none", "staff", "admin"} /\ (r # "none") \in BOOLEAN
      BY StaffAccessAssumption
    <3> QED
      BY <1>1, <3>1, <3>2 DEF Operator
  <2> QED
    BY <2>1 DEF Init
<1>3. codes \in [Phones -> Code] /\ \A p \in Phones : codes[p].attempts = 0
  BY <1>1 DEF Init, Code
<1>4. \A b \in Browsers : JarOK(cookies[b]) /\ cookies[b].setup = NoSetup
  BY <1>1 DEF Init, JarOK, Jar, NoSetup
<1>5. cookies \in [Browsers -> Jar]
  BY <1>4 DEF Init, JarOK
<1>6. pages \in [Tabs -> [form : SignInForms \cup SetupForms \cup {"inside"}, said : Errors]]
  BY DEF Init, SignInForms, Errors
<1>7. wrong \in [{"pin", "code"} -> [Phones -> Nat]]
      /\ \A p \in Phones : wrong["pin"][p] = 0 /\ wrong["code"][p] = 0
  BY DEF Init
<1>8. setups \in Seq(Setup) /\ Len(setups) = 0 /\ DOMAIN setups = {}
  BY EmptySeq DEF Init
<1>9. Typed
  BY <1>1, <1>2, <1>3, <1>4, <1>5, <1>6, <1>7, <1>8 DEF Init, Typed, TypeOK
<1>10. Counted
  BY <1>2, <1>3, <1>7 DEF Counted
<1>11. CodesKnown
  <2>1. LastCode \in Nat
    BY <1>9, LastCodeTyped
  <2> QED
    BY <1>4, <2>1 DEF CodesKnown, NoSetup
<1>12. FinishingAlone
  BY DEF FinishingAlone, Finishing, Init
<1> QED
  BY <1>9, <1>10, <1>11, <1>12 DEF IInv

LEMMA IInvStep == IInv /\ [Next]_vars => IInv'
<1> SUFFICES ASSUME IInv, [Next]_vars PROVE IInv'
  OBVIOUS
<1>1. ASSUME NEW t \in Tabs, SignIn(t) PROVE IInv'
  BY <1>1, MistypeSafe, NewPinSafe, SignOutSafe, StartOverSafe, EnterPinSafe, EnterCodeSafe,
     StartSafe, ResetSafe, VisitSafe DEF SignIn
<1>2. ASSUME NEW t \in Tabs, SetUp(t) PROVE IInv'
  BY <1>2, LeaveSetupSafe, SetupPassphraseSafe, ApproveCodeSafe, NewCodeSafe, ApprovePhoneSafe,
     DetailsSafe DEF SetUp
<1>3. ASSUME NEW t \in Tabs, Manage(t) PROVE IInv'
  BY <1>3, AddOperatorSafe, UpdateOperatorSafe DEF Manage
<1>4. CASE Commit
  BY <1>4, FinishSetupSafe, UpdatedSafe DEF Commit
<1>5. CASE Wait
  BY <1>5, WaitSafe
<1>6. CASE Expire
  BY <1>6, ExpireSafe
<1>7. CASE UNCHANGED vars
  <2>1. Typed'
    BY <1>7 DEF vars, IInv, Typed, TypeOK
  <2>2. Counted' /\ CodesKnown' /\ FinishingAlone'
    BY <1>7 DEF vars, IInv, Counted, CodesKnown, FinishingAlone, Finishing, LastCode
  <2> QED
    BY <2>1, <2>2 DEF IInv
<1> QED
  BY <1>1, <1>2, <1>3, <1>4, <1>5, <1>6, <1>7 DEF Next

LEMMA IInvAlways == Spec => []IInv
<1>1. Init /\ [][Next]_vars => []IInv
  BY IInvInit, IInvStep, PTL
<1> QED
  BY <1>1, PTL DEF Spec

\* The sign-in keeps its types: in particular counts of tries, failures and
\* codes stay within what the code compares them with (auth.py, main.py).
THEOREM AccessTypeCorrect == Spec => []TypeOK
<1>1. IInv => TypeOK
  BY DEF IInv, Typed
<1> QED
  BY <1>1, IInvAlways, PTL

\* For any number of people, browsers and tabs: between a right or new PIN and
\* the next at most ResetAfter wrong ones are compared, and a code takes at
\* most CodeTries wrong tries (auth.py:149-153 and 229-237).
THEOREM WrongTriesAlwaysEnd == Spec => []WrongTriesEnd
<1>1. IInv => WrongTriesEnd
  <2> SUFFICES ASSUME IInv, NEW p \in Phones
               PROVE  wrong["pin"][p] <= ResetAfter /\ wrong["code"][p] <= CodeTries
    BY DEF WrongTriesEnd
  <2>1. /\ wrong["pin"][p] \in Nat /\ wrong["code"][p] \in Nat
        /\ operators[p].tries \in 0..ResetAfter /\ codes[p].attempts \in 0..CodeTries
    BY DEF IInv, Typed, TypeOK, Operator, Code
  <2>2. wrong["pin"][p] <= operators[p].tries /\ wrong["code"][p] <= codes[p].attempts
    BY DEF IInv, Counted
  <2> QED
    BY <2>1, <2>2, StaffAccessAssumption
<1> QED
  BY <1>1, IInvAlways, PTL

=============================================================================
