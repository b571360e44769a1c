----------------------------- MODULE RequestForm -----------------------------
(***************************************************************************)
(* The overlay that submits requests, by hand or with the assistant (App   *)
(* and RequestWorkspace), of one session.  App keeps the fields and they   *)
(* outlive the overlay; every opening reads the departments and the types  *)
(* again, in two calls, and what arrives may replace what is selected.     *)
(* Answers arrive whenever they like; busy holds back the buttons only.    *)
(***************************************************************************)
EXTENDS IntakeAssistant, FiniteSetsExt

CONSTANTS
    Lookups,        \* bound: slots for lookups in flight
    MaxSent         \* bound: requests from one content

VARIABLES
    formMode,       \* NULL, or the overlay that is open
    busy,           \* NULL, or what run is waiting for
    fields,         \* departmentId and requestTypeId
    shown,          \* departments and requestTypes, as loaded
    lookup,
    intake,         \* intakeStep and intakeResult
    post,           \* the request being created
    sent            \* requests made of the title and description in the form, but for
                    \* those of which the person has seen an error

formVars == <<formMode, busy, fields, shown, lookup, intake, post, sent>>
vars == <<assistantVars, formVars>>

ASSUME FormAssumption == MaxSent \in Nat \ {0} /\ IsFiniteSet(Lookups)

Fields == [departmentId: Departments \cup {NULL}, requestTypeId: Types \cup {NULL}]
Lists == [departments: SUBSET Departments, types: SUBSET Types]
Lookup == [departments: (SUBSET Departments) \cup {NULL}, types: (SUBSET Types) \cup {NULL}]
IntakeSteps == {"input", "troubleshoot", "offer", "draft", "resolved", "declined"}
Post == [step: {"sent", "stored", "refused"}, fields: Fields, closure: Lists, same: BOOLEAN]

ASSUME FormMarksAssumption ==
    /\ NULL \notin Lookup \cup Post \cup {"create", "intake", "analyze", "refresh"}
    /\ \A ids \in (SUBSET Departments) \cup (SUBSET Types) : ids # NULL

\* Fields, answers and calls in flight have their shape.
FormTypeOK ==
    /\ catalog \in Catalog
    /\ analysis \in Analysis \cup {NULL}
    /\ formMode \in {"create", "intake", NULL}
    /\ busy \in {"analyze", "create", "refresh", NULL}
    /\ fields \in Fields
    /\ shown \in Lists
    /\ lookup \in [Lookups -> Lookup \cup {NULL}]
    /\ intake \in [step: IntakeSteps, result: Result \cup {NULL}]
    /\ post \in Post \cup {NULL}
    /\ sent \in 0..MaxSent

First(ids) == IF ids = {} THEN NULL ELSE Min(ids)

typesOf(d, lists) == {t \in lists.types : HomeOf[t] = d}

firstRequestTypeId(lists, d) == First(typesOf(d, lists))

\* The first department and its first type.
firstFields(lists) ==
    LET d == First(lists.departments)
    IN  [departmentId |-> d, requestTypeId |-> firstRequestTypeId(lists, d)]

noIntake == [step |-> "input", result |-> NULL]

\* The page is ready: the first lookup of the session has ended.
FormInit ==
    /\ AssistantInit
    /\ shown = [departments |-> Departments, types |-> InitialTypes]
    /\ fields = firstFields(shown)
    /\ formMode = NULL
    /\ busy = NULL
    /\ lookup = [l \in Lookups |-> NULL]
    /\ intake = noIntake
    /\ post = NULL
    /\ sent = 0

-----------------------------------------------------------------------------
\* What is on the page.

ShowsInput == formMode = "intake" /\ intake.step \in {"input", "troubleshoot", "offer"}
ShowsTroubleshooting == formMode = "intake" /\ intake.step = "troubleshoot" /\ intake.result # NULL
ShowsOffer == formMode = "intake" /\ intake.step = "offer" /\ (intake.result = NULL \/ ~intake.result.missing)
ShowsStartAgain == formMode = "intake" /\ intake.step \in {"resolved", "declined", "draft"}
ShowsFields == formMode = "create" \/ (formMode = "intake" /\ intake.step = "draft")

canSubmitRequest == fields.departmentId # NULL /\ fields.requestTypeId # NULL

-----------------------------------------------------------------------------
\* The overlay and its lookups.

\* The effect on user, view and formMode.
startLookup ==
    \E l \in Lookups :
        /\ lookup[l] = NULL
        /\ lookup' = [lookup EXCEPT ![l] = [departments |-> NULL, types |-> NULL]]

openForm(mode) ==
    /\ formMode = NULL
    /\ formMode' = mode
    /\ startLookup
    /\ UNCHANGED <<assistantVars, busy, fields, shown, intake, post, sent>>

\* By its button, by Escape or by going back.
closeForm ==
    /\ formMode # NULL
    /\ formMode' = NULL
    /\ UNCHANGED <<assistantVars, busy, fields, shown, lookup, intake, post, sent>>

findDepartments(l) ==
    /\ lookup[l] # NULL /\ lookup[l].departments = NULL
    /\ lookup' = [lookup EXCEPT ![l].departments = catalog.departments]
    /\ UNCHANGED <<assistantVars, formMode, busy, fields, shown, intake, post, sent>>

findRequestTypes(l) ==
    /\ lookup[l] # NULL /\ lookup[l].types = NULL
    /\ lookup' = [lookup EXCEPT ![l].types = catalog.types]
    /\ UNCHANGED <<assistantVars, formMode, busy, fields, shown, intake, post, sent>>

\* Mutant: a type stays if it is still listed.
kept_listed(now, lists) ==
    LET d == IF now.departmentId \in lists.departments THEN now.departmentId ELSE First(lists.departments)
    IN  [departmentId |-> d,
         requestTypeId |-> IF now.requestTypeId \in lists.types
                           THEN now.requestTypeId ELSE firstRequestTypeId(lists, d)]

\* What is selected stays if it is still listed, and is the first one otherwise.
kept(now, lists) ==
    LET d == IF now.departmentId \in lists.departments THEN now.departmentId ELSE First(lists.departments)
    IN  [departmentId |-> d,
         requestTypeId |-> IF now.requestTypeId \in typesOf(d, lists)
                           THEN now.requestTypeId ELSE firstRequestTypeId(lists, d)]

\* Both lists are there.
lookupArrives(l) ==
    /\ lookup[l] # NULL /\ NULL \notin {lookup[l].departments, lookup[l].types}
    /\ shown' = lookup[l]
    /\ fields' = kept(fields, lookup[l])
    /\ lookup' = [lookup EXCEPT ![l] = NULL]
    /\ UNCHANGED <<assistantVars, formMode, busy, intake, post, sent>>

\* One of the two failed, and nobody is told.
lookupFails(l) ==
    /\ lookup[l] # NULL
    /\ lookup' = [lookup EXCEPT ![l] = NULL]
    /\ UNCHANGED <<assistantVars, formMode, busy, fields, shown, intake, post, sent>>

-----------------------------------------------------------------------------
\* The fields.

chooseDepartment(d) ==
    /\ ShowsFields
    /\ fields' = [departmentId |-> d, requestTypeId |-> firstRequestTypeId(shown, d)]
    /\ UNCHANGED <<assistantVars, formMode, busy, shown, lookup, intake, post, sent>>

chooseType(t) ==
    /\ ShowsFields
    /\ fields' = [fields EXCEPT !.requestTypeId = t]
    /\ UNCHANGED <<assistantVars, formMode, busy, shown, lookup, intake, post, sent>>

\* Another title or description, which no request has been made of.
edit ==
    /\ ShowsFields
    /\ sent' = 0
    /\ post' = IF post = NULL THEN NULL ELSE [post EXCEPT !.same = FALSE]
    /\ UNCHANGED <<assistantVars, formMode, busy, fields, shown, lookup, intake>>

-----------------------------------------------------------------------------
\* The assistant.

onAnalyze(thin) ==
    /\ ShowsInput /\ busy = NULL
    /\ busy' = "analyze"
    /\ intake' = noIntake
    /\ analysis' = newAnalysis(thin)
    /\ UNCHANGED <<catalog, formMode, fields, shown, lookup, post, sent>>

chooseIntakeStep(result) ==
    IF result.steps THEN "troubleshoot"
    ELSE IF ~result.missing /\ isActionable(result.draft) THEN "offer" ELSE "input"

\* The answer, or an error, or no answer from the server at all.
analyzed ==
    /\ At("ok")
    /\ intake' = [result |-> analysis.result, step |-> chooseIntakeStep(analysis.result)]
    /\ analysis' = NULL
    /\ busy' = NULL
    /\ UNCHANGED <<catalog, formMode, fields, shown, lookup, post, sent>>

analyzeFails ==
    /\ analysis # NULL
    /\ analysis' = NULL
    /\ busy' = NULL
    /\ UNCHANGED <<catalog, formMode, fields, shown, lookup, intake, post, sent>>

onProblemSolved(solved) ==
    /\ ShowsTroubleshooting /\ busy = NULL
    /\ intake' = [intake EXCEPT !.step =
          IF solved THEN "resolved"
          ELSE IF ~intake.result.missing /\ isActionable(intake.result.draft) THEN "offer"
          ELSE "input"]
    /\ UNCHANGED <<assistantVars, formMode, busy, fields, shown, lookup, post, sent>>

\* The suggested type counts if it is among those loaded.
applyDraft(draft) ==
    [departmentId |-> draft.departmentId,
     requestTypeId |-> IF draft.requestTypeId \in typesOf(draft.departmentId, shown)
                       THEN draft.requestTypeId ELSE NULL]

onPrepareRequest(prepare) ==
    /\ ShowsOffer /\ busy = NULL
    /\ intake.result # NULL /\ ~intake.result.missing /\ isActionable(intake.result.draft)
    /\ intake' = [intake EXCEPT !.step = IF prepare THEN "draft" ELSE "declined"]
    /\ IF prepare
       THEN fields' = applyDraft(intake.result.draft) /\ sent' = 0
       ELSE UNCHANGED <<fields, sent>>
    /\ UNCHANGED <<assistantVars, formMode, busy, shown, lookup, post>>

\* Not held back while a request is being created.
resetIntake ==
    /\ ShowsStartAgain
    /\ intake' = noIntake
    /\ UNCHANGED <<assistantVars, formMode, busy, fields, shown, lookup, post, sent>>

-----------------------------------------------------------------------------
\* submitCreate

canPost == ShowsFields /\ canSubmitRequest /\ busy = NULL

submitCreate ==
    /\ canPost
    /\ sent < MaxSent
    /\ busy' = "create"
    /\ post' = [step |-> "sent", fields |-> fields, closure |-> shown, same |-> TRUE]
    /\ UNCHANGED <<assistantVars, formMode, fields, shown, lookup, intake, sent>>

\* RequestsService.create
create ==
    /\ post # NULL /\ post.step = "sent"
    /\ LET ok == /\ post.fields.departmentId \in catalog.departments
                 /\ post.fields.requestTypeId \in catalog.types
                 /\ HomeOf[post.fields.requestTypeId] = post.fields.departmentId
       IN  /\ post' = [post EXCEPT !.step = IF ok THEN "stored" ELSE "refused"]
           /\ sent' = IF ok /\ post.same THEN sent + 1 ELSE sent
    /\ UNCHANGED <<assistantVars, formMode, busy, fields, shown, lookup, intake>>

\* Mutant: the form is cleared when the details have been read.
created_keepsForm ==
    /\ post # NULL /\ post.step = "stored"
    /\ post' = NULL
    /\ busy' = "refresh"
    /\ UNCHANGED <<assistantVars, formMode, fields, shown, lookup, intake, sent>>

\* The form is cleared, back to the first department there was when Create was clicked;
\* then the details and the history are read.
created ==
    /\ post # NULL /\ post.step = "stored"
    /\ post' = NULL
    /\ sent' = 0
    /\ fields' = firstFields(post.closure)
    /\ intake' = noIntake
    /\ busy' = "refresh"
    /\ UNCHANGED <<assistantVars, formMode, shown, lookup>>

\* Refused, or the answer is lost: an error, and the form stays as it is.
createFails ==
    /\ post # NULL
    /\ sent' = IF post.same /\ post.step = "stored" THEN sent - 1 ELSE sent
    /\ post' = NULL
    /\ busy' = NULL
    /\ UNCHANGED <<assistantVars, formMode, fields, shown, lookup, intake>>

\* With the details, or with an error.
refreshed ==
    /\ busy = "refresh"
    /\ busy' = NULL
    /\ UNCHANGED <<assistantVars, formMode, fields, shown, lookup, intake, post, sent>>

-----------------------------------------------------------------------------

PersonActs ==
    \/ \E mode \in {"create", "intake"} : openForm(mode)
    \/ closeForm
    \/ \E d \in shown.departments \cup {NULL} : chooseDepartment(d)
    \/ \E t \in typesOf(fields.departmentId, shown) \cup {NULL} : chooseType(t)
    \/ edit
    \/ \E thin \in BOOLEAN : onAnalyze(thin)
    \/ \E solved \in BOOLEAN : onProblemSolved(solved)
    \/ \E prepare \in BOOLEAN : onPrepareRequest(prepare)
    \/ resetIntake
    \/ submitCreate

LookupGoesOn(l) == findDepartments(l) \/ findRequestTypes(l) \/ lookupArrives(l) \/ lookupFails(l)

AnswerArrives == analyzed \/ analyzeFails \/ created \/ createFails \/ refreshed

FormNext ==
    \/ catalogChanges /\ UNCHANGED formVars
    \/ PersonActs
    \/ \E l \in Lookups : LookupGoesOn(l)
    \/ AssistantGoesOn /\ UNCHANGED formVars
    \/ create
    \/ AnswerArrives

\* The server works on, the provider answers or times out, fetch settles.
FormFairness ==
    /\ WF_vars(AssistantGoesOn /\ UNCHANGED formVars)
    /\ WF_vars(create)
    /\ WF_vars(analyzed)
    /\ WF_vars(At("failed") /\ analyzeFails)
    /\ WF_vars(created)
    /\ WF_vars(post # NULL /\ post.step = "refused" /\ createFails)
    /\ WF_vars(refreshed)

FormSpec == FormInit /\ [][FormNext]_vars /\ FormFairness

-----------------------------------------------------------------------------
\* Properties.

\* Whatever the model wrote, and whatever was created or deleted while it did: an answer
\* without a draft asks for something and suggests no steps, and a draft names a department
\* the server had read, and only a type of that department (validateIntakeResult).
AnswersAreUsable ==
    At("ok") =>
        LET draft == analysis.result.draft
        IN  IF draft = NULL
            THEN analysis.result.missing /\ ~analysis.result.steps
            ELSE /\ ~analysis.thin
                 /\ draft.departmentId \in analysis.departments
                 /\ draft.requestTypeId # NULL => HomeOf[draft.requestTypeId] = draft.departmentId

\* Late lookups, drafts and choices never leave a type of another department selected.
TypeFitsDepartment ==
    fields.requestTypeId # NULL => HomeOf[fields.requestTypeId] = fields.departmentId

\* One content makes one request, and another one only if the answer was lost and the
\* person clicks again: not by a click while busy, and not when the details cannot be read.
OneRequestPerContent == sent <= 1

\* The buttons come back: whatever the provider does, run ends.
BusyEnds == busy # NULL ~> busy = NULL
=============================================================================
