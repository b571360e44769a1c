------------------------- MODULE RequestFormProofs -------------------------
(***************************************************************************)
(* The request overlay for any catalog, any number of lookups in flight    *)
(* and any limit of attempts.  What busy says decides which call is out,   *)
(* and that is why one content makes one request; a type is selected only  *)
(* together with its department, and that is why they fit.                 *)
(***************************************************************************)
EXTENDS RequestForm, WellFoundedInduction, NaturalsInduction, TLAPS

\* busy is what the page waits for, and nothing else is out.
BusySaysWhat ==
    /\ analysis # NULL <=> busy = "analyze"
    /\ post # NULL <=> busy = "create"

\* The content in the form counts as sent while its request is stored and not yet answered.
SentIsStored == sent = IF post # NULL /\ post.same /\ post.step = "stored" THEN 1 ELSE 0

\* The invariant of the form and the assistant.
FormInv ==
    /\ FormTypeOK
    /\ BusySaysWhat
    /\ SentIsStored
    /\ TypeFitsDepartment
    /\ AnswersAreUsable

-----------------------------------------------------------------------------
(* The first of a list. *)

\* A list that is not empty has a first entry, and it is one of them.
LEMMA FirstIsListed ==
    ASSUME NEW ids \in SUBSET Nat
    PROVE  First(ids) \in ids \cup {NULL} /\ (ids # {} => First(ids) \in ids)
  <1>1. CASE ids = {}
    BY <1>1 DEF First
  <1>2. CASE ids # {}
    <2> DEFINE R == OpToRel(<, Nat)
    <2>1. IsWellFoundedOn(R, Nat)
      BY NatLessThanWellFounded
    <2>2. \A x, y \in Nat : y < x => <<y, x>> \in R
      BY DEF OpToRel
    <2> HIDE DEF R
    <2>3. \E x \in ids : \A y \in ids : ~(<<y, x>> \in R)
      BY <1>2, <2>1, WFMin
    <2>4. PICK x \in ids : \A y \in ids : ~(<<y, x>> \in R)
      BY <2>3
    <2>5. ASSUME NEW y \in ids
          PROVE  x <= y
      <3>1. x \in Nat /\ y \in Nat /\ ~(y < x)
        BY <2>2, <2>4
      <3> QED
        BY <3>1
    <2>6. Min(ids) \in ids
      BY <2>5 DEF Min
    <2> QED
      BY <1>2, <2>6 DEF First
  <1> QED
    BY <1>1, <1>2

\* The type that is selected with a department is one of the department's, or none is.
LEMMA FirstTypeFits ==
    ASSUME NEW lists \in Lists, NEW d
    PROVE  /\ firstRequestTypeId(lists, d) \in Types \cup {NULL}
           /\ firstRequestTypeId(lists, d) # NULL => HomeOf[firstRequestTypeId(lists, d)] = d
  <1>1. typesOf(d, lists) \in SUBSET Nat /\ typesOf(d, lists) \subseteq Types
    BY IdsAssumption DEF typesOf, Lists
  <1>2. firstRequestTypeId(lists, d) \in typesOf(d, lists) \cup {NULL}
    BY <1>1, FirstIsListed DEF firstRequestTypeId
  <1> QED
    BY <1>1, <1>2 DEF typesOf

\* The fields a lookup fills in fit together: the first type is one of the first department.
LEMMA FirstFieldsFit ==
    ASSUME NEW lists \in Lists
    PROVE  LET f == firstFields(lists)
           IN  f \in Fields /\ (f.requestTypeId # NULL => HomeOf[f.requestTypeId] = f.departmentId)
  <1>1. First(lists.departments) \in Departments \cup {NULL}
    <2>1. lists.departments \in SUBSET Nat /\ lists.departments \subseteq Departments
      BY IdsAssumption DEF Lists
    <2> QED
      BY <2>1, FirstIsListed
  <1> QED
    BY <1>1, FirstTypeFits DEF firstFields, Fields

\* Whatever a lookup brings, the selection that it leaves fits together.
LEMMA KeptFits ==
    ASSUME NEW now \in Fields, NEW lists \in Lists
    PROVE  LET f == kept(now, lists)
           IN  f \in Fields /\ (f.requestTypeId # NULL => HomeOf[f.requestTypeId] = f.departmentId)
  <1> DEFINE d == IF now.departmentId \in lists.departments THEN now.departmentId ELSE First(lists.departments)
  <1>1. d \in Departments \cup {NULL}
    <2>1. lists.departments \in SUBSET Nat /\ lists.departments \subseteq Departments
      BY IdsAssumption DEF Lists
    <2> QED
      BY <2>1, FirstIsListed
  <1>2. typesOf(d, lists) \subseteq Types
    BY DEF typesOf, Lists
  <1>3. \A t \in typesOf(d, lists) : HomeOf[t] = d
    BY DEF typesOf
  <1> HIDE DEF d
  <1>4. kept(now, lists) = [departmentId |-> d,
                            requestTypeId |-> IF now.requestTypeId \in typesOf(d, lists)
                                              THEN now.requestTypeId ELSE firstRequestTypeId(lists, d)]
    BY DEF kept, d
  <1> QED
    BY <1>1, <1>2, <1>3, <1>4, FirstTypeFits DEF Fields

-----------------------------------------------------------------------------
(* One lemma for each part of Next. *)

\* Departments and types come and go; a call in flight keeps what it has read.
LEMMA CatalogStep ==
    ASSUME FormInv, catalogChanges, UNCHANGED formVars
    PROVE  FormInv'
  <1>1. catalog' \in Catalog
    BY IdsAssumption DEF FormInv, FormTypeOK, catalogChanges, createRequestType,
       deleteRequestType, deleteDepartment, Change, Catalog
  <1>2. analysis' = analysis
    BY DEF catalogChanges
  <1> QED
    BY <1>1, <1>2 DEF FormInv, FormTypeOK, formVars, BusySaysWhat, SentIsStored, TypeFitsDepartment,
       AnswersAreUsable, At

\* What comes out of the rules on an answer is usable.
LEMMA ValidateUsable ==
    ASSUME NEW output \in Outputs, NEW departments \in SUBSET Departments, NEW types \in SUBSET Types,
           NEW thin \in BOOLEAN
    PROVE  LET result == validate(output, departments, types, thin)
           IN  /\ result \in Result
               /\ IF result.draft = NULL
                  THEN result.missing /\ ~result.steps
                  ELSE /\ ~thin
                       /\ result.draft.departmentId \in departments
                       /\ result.draft.requestTypeId # NULL =>
                             HomeOf[result.draft.requestTypeId] = result.draft.departmentId
  <1> DEFINE draft == IF output.draft = NULL THEN NULL ELSE parseDraft(output.draft, departments, types)
             missing == output.missing \/ (draft # NULL /\
                (draft.departmentId # output.draft.departmentId \/ draft.requestTypeId # output.draft.requestTypeId))
  <1>1. draft \in Draft \cup {NULL}
    BY DEF Outputs, Result, Draft, parseDraft, allowedDepartment, allowedType
  <1>2. draft # NULL =>
          /\ draft.departmentId \in departments \cup {NULL}
          /\ draft.departmentId # NULL /\ draft.requestTypeId # NULL =>
                HomeOf[draft.requestTypeId] = draft.departmentId
    BY DEF parseDraft, allowedDepartment, allowedType
  <1>3. missing \in BOOLEAN /\ output.steps \in BOOLEAN
    BY DEF Outputs, Result
  <1>4. validate(output, departments, types, thin) =
          IF thin \/ ~isActionable(draft)
          THEN [steps |-> FALSE, missing |-> TRUE, draft |-> NULL]
          ELSE [steps |-> output.steps, missing |-> missing, draft |-> draft]
    BY DEF validate
  <1> HIDE DEF draft, missing
  <1>5. CASE thin \/ ~isActionable(draft)
    BY <1>4, <1>5 DEF Result
  <1>6. CASE ~thin /\ isActionable(draft)
    <2>1. draft # NULL /\ draft.departmentId # NULL
      BY <1>6 DEF isActionable
    <2> QED
      BY <1>1, <1>2, <1>3, <1>4, <1>6, <2>1 DEF Result
  <1> QED
    BY <1>5, <1>6

\* The server works on: the call in flight stays in flight.
LEMMA AssistantStep ==
    ASSUME FormInv, AssistantGoesOn, UNCHANGED formVars
    PROVE  FormInv'
  <1>1. catalog \in Catalog /\ analysis \in Analysis \cup {NULL} /\ AnswersAreUsable
    BY DEF FormInv, FormTypeOK
  <1>2. /\ analysis # NULL /\ analysis' \in Analysis
        /\ AnswersAreUsable'
        /\ catalog' = catalog
    <2>1. CASE readDepartments
      BY <1>1, <2>1 DEF readDepartments, At, Analysis, Catalog, AnswersAreUsable
    <2>2. CASE readRequestTypes
      BY <1>1, <2>2 DEF readRequestTypes, At, Analysis, Catalog, AnswersAreUsable
    <2>3. CASE attemptAgain
      <3>1. /\ analysis \in Analysis /\ analysis.attempt < MaxAttempts
            /\ analysis' = [analysis EXCEPT !.step = "delay", !.attempt = @ + 1]
        BY <1>1, <2>3 DEF attemptAgain, At
      <3>2. analysis.attempt + 1 \in 1..MaxAttempts
        BY <3>1, IdsAssumption DEF Analysis
      <3>3. analysis' \in Analysis /\ analysis'.step = "delay"
        BY <3>1, <3>2 DEF Analysis
      <3> QED
        BY <2>3, <3>3 DEF attemptAgain, At, AnswersAreUsable
    <2>4. CASE waitForRetry
      BY <1>1, <2>4 DEF waitForRetry, Goes, At, Analysis, AnswersAreUsable
    <2>5. CASE attemptFails
      BY <1>1, <2>5 DEF attemptFails, Goes, At, Analysis, AnswersAreUsable
    <2>6. ASSUME NEW output \in Outputs, attemptAnswers(output)
          PROVE  /\ analysis # NULL /\ analysis' \in Analysis
                 /\ AnswersAreUsable'
                 /\ catalog' = catalog
      <3> DEFINE result == validate(output, analysis.departments, analysis.types, analysis.thin)
      <3>1. /\ analysis \in Analysis
            /\ analysis' = [analysis EXCEPT !.step = "ok", !.result = result]
            /\ catalog' = catalog
        BY <1>1, <2>6 DEF attemptAnswers, At
      <3>2. /\ analysis.departments \in SUBSET Departments
            /\ analysis.types \in SUBSET Types
            /\ analysis.thin \in BOOLEAN
        BY <3>1 DEF Analysis
      <3>3. /\ result \in Result
            /\ IF result.draft = NULL
               THEN result.missing /\ ~result.steps
               ELSE /\ ~analysis.thin
                    /\ result.draft.departmentId \in analysis.departments
                    /\ result.draft.requestTypeId # NULL =>
                          HomeOf[result.draft.requestTypeId] = result.draft.departmentId
        BY <3>2, ValidateUsable
      <3> HIDE DEF result
      <3>4. /\ analysis' \in Analysis
            /\ analysis'.result = result
            /\ analysis'.thin = analysis.thin
            /\ analysis'.departments = analysis.departments
        BY <3>1, <3>3 DEF Analysis
      <3> QED
        BY <3>1, <3>3, <3>4, AssistantMarksAssumption DEF AnswersAreUsable
    <2> QED
      BY <2>1, <2>2, <2>3, <2>4, <2>5, <2>6 DEF AssistantGoesOn
  <1>3. analysis' # NULL
    BY <1>2, AssistantMarksAssumption
  <1> QED
    BY <1>2, <1>3 DEF FormInv, FormTypeOK, formVars, BusySaysWhat, SentIsStored, TypeFitsDepartment

\* A lookup goes on and may replace what is selected.
LEMMA LookupStep ==
    ASSUME FormInv, NEW l \in Lookups, LookupGoesOn(l)
    PROVE  FormInv'
  <1>1. /\ lookup \in [Lookups -> Lookup \cup {NULL}] /\ catalog \in Catalog
        /\ fields \in Fields /\ shown \in Lists /\ TypeFitsDepartment
    BY DEF FormInv, FormTypeOK
  <1>2. /\ lookup' \in [Lookups -> Lookup \cup {NULL}]
        /\ fields' \in Fields /\ shown' \in Lists /\ TypeFitsDepartment'
        /\ UNCHANGED <<assistantVars, formMode, busy, intake, post, sent>>
    <2>1. CASE findDepartments(l)
      BY <1>1, <2>1 DEF findDepartments, Lookup, Catalog, TypeFitsDepartment
    <2>2. CASE findRequestTypes(l)
      BY <1>1, <2>2 DEF findRequestTypes, Lookup, Catalog, TypeFitsDepartment
    <2>3. CASE lookupArrives(l)
      <3>1. lookup[l] \in Lists
        BY <1>1, <2>3 DEF lookupArrives, Lookup, Lists
      <3>2. kept(fields, lookup[l]) \in Fields /\ TypeFitsDepartment'
        BY <1>1, <2>3, <3>1, KeptFits DEF lookupArrives, TypeFitsDepartment
      <3> QED
        BY <1>1, <2>3, <3>1, <3>2 DEF lookupArrives
    <2>4. CASE lookupFails(l)
      BY <1>1, <2>4 DEF lookupFails, TypeFitsDepartment
    <2> QED
      BY <2>1, <2>2, <2>3, <2>4 DEF LookupGoesOn
  <1> QED
    BY <1>2 DEF FormInv, FormTypeOK, assistantVars, BusySaysWhat, SentIsStored, AnswersAreUsable, At

\* What the person does: only a button that is not busy starts a call.
LEMMA PersonStep ==
    ASSUME FormInv, PersonActs
    PROVE  FormInv'
  <1> USE DEF FormInv, FormTypeOK, assistantVars
  <1>1. ASSUME NEW mode \in {"create", "intake"}, openForm(mode)
        PROVE  FormInv'
    <2>1. PICK l \in Lookups : lookup' = [lookup EXCEPT ![l] = [departments |-> NULL, types |-> NULL]]
      BY <1>1 DEF openForm, startLookup
    <2>2. lookup' \in [Lookups -> Lookup \cup {NULL}]
      BY <2>1 DEF Lookup
    <2> QED
      BY <1>1, <2>2 DEF openForm, BusySaysWhat, SentIsStored, TypeFitsDepartment, AnswersAreUsable, At
  <1>2. CASE closeForm
    BY <1>2 DEF closeForm, BusySaysWhat, SentIsStored, TypeFitsDepartment, AnswersAreUsable, At
  <1>3. ASSUME NEW d \in shown.departments \cup {NULL}, chooseDepartment(d)
        PROVE  FormInv'
    <2>1. shown \in Lists /\ d \in Departments \cup {NULL}
      BY <1>3 DEF Lists
    <2>2. fields' \in Fields /\ TypeFitsDepartment'
      BY <1>3, <2>1, FirstTypeFits DEF chooseDepartment, Fields, TypeFitsDepartment
    <2> QED
      BY <1>3, <2>2 DEF chooseDepartment, BusySaysWhat, SentIsStored, AnswersAreUsable, At
  <1>4. ASSUME NEW t \in typesOf(fields.departmentId, shown) \cup {NULL}, chooseType(t)
        PROVE  FormInv'
    <2>1. fields' \in Fields /\ TypeFitsDepartment'
      BY <1>4 DEF chooseType, typesOf, Fields, Lists, TypeFitsDepartment
    <2> QED
      BY <1>4, <2>1 DEF chooseType, BusySaysWhat, SentIsStored, AnswersAreUsable, At
  <1>5. CASE edit
    <2>1. post' \in Post \cup {NULL} /\ (post' # NULL <=> post # NULL) /\ (post' # NULL => ~post'.same)
      BY <1>5, FormMarksAssumption DEF edit, Post
    <2> QED
      BY <1>5, <2>1, FormAssumption DEF edit, BusySaysWhat, SentIsStored, TypeFitsDepartment, AnswersAreUsable, At
  <1>6. ASSUME NEW thin \in BOOLEAN, onAnalyze(thin)
        PROVE  FormInv'
    <2>1. analysis' \in Analysis /\ ~At("ok")'
      BY <1>6, IdsAssumption DEF onAnalyze, newAnalysis, Analysis, At
    <2>2. intake' \in [step: IntakeSteps, result: Result \cup {NULL}]
      BY <1>6 DEF onAnalyze, noIntake, IntakeSteps
    <2>3. analysis' # NULL
      BY <2>1, AssistantMarksAssumption
    <2>4. BusySaysWhat'
      BY <1>6, <2>3, FormMarksAssumption DEF onAnalyze, BusySaysWhat
    <2> QED
      BY <1>6, <2>1, <2>2, <2>4 DEF onAnalyze, SentIsStored, TypeFitsDepartment, AnswersAreUsable
  <1>7. ASSUME NEW solved \in BOOLEAN, onProblemSolved(solved)
        PROVE  FormInv'
    <2>1. intake' \in [step: IntakeSteps, result: Result \cup {NULL}]
      BY <1>7 DEF onProblemSolved, IntakeSteps
    <2> QED
      BY <1>7, <2>1 DEF onProblemSolved, BusySaysWhat, SentIsStored, TypeFitsDepartment, AnswersAreUsable, At
  <1>8. ASSUME NEW prepare \in BOOLEAN, onPrepareRequest(prepare)
        PROVE  FormInv'
    <2>1. intake' \in [step: IntakeSteps, result: Result \cup {NULL}]
      BY <1>8 DEF onPrepareRequest, IntakeSteps
    <2>2. fields' \in Fields /\ TypeFitsDepartment'
      <3>1. intake.result.draft \in Draft /\ shown \in Lists
        BY <1>8 DEF onPrepareRequest, Result, isActionable
      <3>2. applyDraft(intake.result.draft) \in Fields
        BY <3>1 DEF applyDraft, Draft, Fields, typesOf, Lists
      <3> QED
        BY <1>8, <3>2 DEF onPrepareRequest, applyDraft, typesOf, TypeFitsDepartment
    <2>3. post = NULL /\ sent = 0
      BY <1>8, FormMarksAssumption DEF onPrepareRequest, BusySaysWhat, SentIsStored
    <2>4. sent' = 0
      BY <1>8, <2>3 DEF onPrepareRequest
    <2> QED
      BY <1>8, <2>1, <2>2, <2>3, <2>4, FormAssumption
      DEF onPrepareRequest, BusySaysWhat, SentIsStored, AnswersAreUsable, At
  <1>9. CASE resetIntake
    BY <1>9 DEF resetIntake, noIntake, IntakeSteps, BusySaysWhat, SentIsStored, TypeFitsDepartment,
       AnswersAreUsable, At
  <1>10. CASE submitCreate
    <2>1. post' \in Post /\ post'.step = "sent" /\ post = NULL /\ analysis = NULL
      BY <1>10, FormMarksAssumption DEF submitCreate, canPost, Post, BusySaysWhat
    <2>2. post' # NULL
      BY <2>1, FormMarksAssumption
    <2>3. BusySaysWhat' /\ SentIsStored'
      BY <1>10, <2>1, <2>2, FormMarksAssumption DEF submitCreate, BusySaysWhat, SentIsStored
    <2> QED
      BY <1>10, <2>1, <2>3 DEF submitCreate, TypeFitsDepartment, AnswersAreUsable, At
  <1> QED
    BY <1>1, <1>2, <1>3, <1>4, <1>5, <1>6, <1>7, <1>8, <1>9, <1>10 DEF PersonActs

\* RequestsService.create stores the request or not.
LEMMA CreateStep ==
    ASSUME FormInv, create
    PROVE  FormInv'
  <1>1. post \in Post /\ post # NULL /\ post.step = "sent" /\ sent = 0
    BY DEF FormInv, FormTypeOK, create, SentIsStored
  <1>2. PICK ok \in BOOLEAN :
          /\ post' = [post EXCEPT !.step = IF ok THEN "stored" ELSE "refused"]
          /\ sent' = IF ok /\ post.same THEN sent + 1 ELSE sent
    BY DEF create
  <1>3. post' \in Post /\ post' # NULL /\ post'.same = post.same
        /\ post'.step = IF ok THEN "stored" ELSE "refused"
    BY <1>1, <1>2, FormMarksAssumption DEF Post
  <1>4. sent' \in 0..MaxSent
    BY <1>1, <1>2, FormAssumption
  <1> QED
    BY <1>1, <1>2, <1>3, <1>4
    DEF create, FormInv, FormTypeOK, assistantVars, BusySaysWhat, SentIsStored, TypeFitsDepartment,
        AnswersAreUsable, At

\* An answer ends what busy waits for, but for the details that follow a creation.
LEMMA AnswerStep ==
    ASSUME FormInv, AnswerArrives
    PROVE  FormInv'
  <1> USE DEF FormInv, FormTypeOK, assistantVars
  <1>1. CASE analyzed
    <2>1. analysis \in Analysis /\ analysis # NULL
      BY <1>1 DEF analyzed, At
    <2>2. intake' \in [step: IntakeSteps, result: Result \cup {NULL}]
      BY <1>1, <2>1 DEF analyzed, chooseIntakeStep, IntakeSteps, Analysis
    <2>3. BusySaysWhat'
      BY <1>1, <2>1, FormMarksAssumption DEF analyzed, BusySaysWhat
    <2> QED
      BY <1>1, <2>2, <2>3 DEF analyzed, SentIsStored, TypeFitsDepartment, AnswersAreUsable, At
  <1>2. CASE analyzeFails
    <2>1. BusySaysWhat'
      BY <1>2, FormMarksAssumption DEF analyzeFails, BusySaysWhat
    <2> QED
      BY <1>2, <2>1 DEF analyzeFails, SentIsStored, TypeFitsDepartment, AnswersAreUsable, At
  <1>3. CASE created
    <2>1. post \in Post /\ post.closure \in Lists /\ analysis = NULL
      BY <1>3, FormMarksAssumption DEF created, Post, BusySaysWhat
    <2>2. fields' \in Fields /\ TypeFitsDepartment'
      BY <1>3, <2>1, FirstFieldsFit DEF created, TypeFitsDepartment
    <2>3. intake' \in [step: IntakeSteps, result: Result \cup {NULL}]
      BY <1>3 DEF created, noIntake, IntakeSteps
    <2>4. BusySaysWhat' /\ SentIsStored'
      BY <1>3, <2>1, FormMarksAssumption DEF created, BusySaysWhat, SentIsStored
    <2> QED
      BY <1>3, <2>2, <2>3, <2>4, FormAssumption DEF created, AnswersAreUsable, At
  <1>4. CASE createFails
    <2>1. post \in Post /\ analysis = NULL
      BY <1>4, FormMarksAssumption DEF createFails, BusySaysWhat
    <2>2. sent' = 0 /\ post' = NULL
      BY <1>4, <2>1 DEF createFails, SentIsStored
    <2>3. BusySaysWhat' /\ SentIsStored'
      BY <1>4, <2>1, <2>2, FormMarksAssumption DEF createFails, BusySaysWhat, SentIsStored
    <2> QED
      BY <1>4, <2>2, <2>3, FormAssumption DEF createFails, TypeFitsDepartment, AnswersAreUsable, At
  <1>5. CASE refreshed
    <2>1. BusySaysWhat'
      BY <1>5, FormMarksAssumption DEF refreshed, BusySaysWhat
    <2> QED
      BY <1>5, <2>1 DEF refreshed, SentIsStored, TypeFitsDepartment, AnswersAreUsable, At
  <1> QED
    BY <1>1, <1>2, <1>3, <1>4, <1>5 DEF AnswerArrives

-----------------------------------------------------------------------------
(* The invariant and what follows from it. *)

\* The form starts empty, with lists that are a catalog's.
LEMMA FormStart == FormInit => FormInv
  <1> SUFFICES ASSUME FormInit
               PROVE  FormInv
    OBVIOUS
  <1>1. catalog \in Catalog /\ analysis = NULL
    BY IdsAssumption DEF FormInit, AssistantInit, Catalog
  <1>2. shown \in Lists
    BY IdsAssumption DEF FormInit, Lists
  <1>3. fields \in Fields /\ TypeFitsDepartment
    BY <1>2, FirstFieldsFit DEF FormInit, TypeFitsDepartment
  <1>4. intake \in [step: IntakeSteps, result: Result \cup {NULL}]
    BY DEF FormInit, noIntake, IntakeSteps
  <1>5. BusySaysWhat /\ SentIsStored /\ AnswersAreUsable
    BY <1>1, FormMarksAssumption DEF FormInit, BusySaysWhat, SentIsStored, AnswersAreUsable, At
  <1> QED
    BY <1>1, <1>2, <1>3, <1>4, <1>5, FormAssumption DEF FormInit, FormInv, FormTypeOK

\* Every step of the person, the server and the network keeps the invariant.
LEMMA FormStep == FormInv /\ [FormNext]_vars => FormInv'
  <1>1. ASSUME FormInv, UNCHANGED vars
        PROVE  FormInv'
    BY <1>1 DEF vars, assistantVars, formVars, FormInv, FormTypeOK, BusySaysWhat, SentIsStored,
       TypeFitsDepartment, AnswersAreUsable, At
  <1> QED
    BY <1>1, CatalogStep, PersonStep, LookupStep, AssistantStep, CreateStep, AnswerStep DEF FormNext

\* What busy says decides which call is out, and a content counts as sent while its request
\* is stored and not yet answered.
THEOREM FormInvariance == FormSpec => []FormInv
  <1> QED
    BY FormStart, FormStep, PTL DEF FormSpec

\* Fields, lists, answers and calls keep their shape.
THEOREM FormTyped == FormSpec => []FormTypeOK
  <1>1. FormInv => FormTypeOK
    BY DEF FormInv
  <1> QED
    BY <1>1, FormInvariance, PTL

\* Whatever the model writes, what the server answers can be used (validateIntakeResult).
THEOREM UsableAlways == FormSpec => []AnswersAreUsable
  <1>1. FormInv => AnswersAreUsable
    BY DEF FormInv
  <1> QED
    BY <1>1, FormInvariance, PTL

\* Lookups, drafts and choices in any order leave a type and its own department selected.
THEOREM SelectionFits == FormSpec => []TypeFitsDepartment
  <1>1. FormInv => TypeFitsDepartment
    BY DEF FormInv
  <1> QED
    BY <1>1, FormInvariance, PTL

\* One content makes one request, as long as its answer is not lost (submitCreate).
THEOREM CreatedOnce == FormSpec => []OneRequestPerContent
  <1>1. FormInv => OneRequestPerContent
    BY DEF FormInv, SentIsStored, OneRequestPerContent
  <1> QED
    BY <1>1, FormInvariance, PTL
=============================================================================
