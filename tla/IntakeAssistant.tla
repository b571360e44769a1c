--------------------------- MODULE IntakeAssistant ---------------------------
(***************************************************************************)
(* POST /ai/intake: AiService.analyze, the attempts of RequestyAiProvider  *)
(* and validateIntakeResult.  The server reads the departments, then the   *)
(* request types, waits for the provider, perhaps three times, and then    *)
(* holds what came back against what it read before.  Departments and      *)
(* types come and go meanwhile.  Texts are left out; of a list the module  *)
(* keeps whether anything is in it, and steps only where the situation is  *)
(* a problem, which is where they count.                                   *)
(***************************************************************************)
EXTENDS Integers, FiniteSets

CONSTANTS
    Departments,    \* ids, in the order of their creation
    Types,          \* ids of request types
    HomeOf,         \* the department a type is created in
    InitialTypes,   \* the types there are when the page is opened
    MaxAttempts,    \* MAX_ATTEMPTS
    MaxChanges,     \* bound: departments or types created or deleted meanwhile
    NULL

VARIABLES
    catalog,        \* departments and types there are, ids taken, changes so far
    analysis        \* the call in flight

assistantVars == <<catalog, analysis>>

ASSUME IdsAssumption ==
    /\ Departments \subseteq Nat /\ IsFiniteSet(Departments)
    /\ Types \subseteq Nat /\ IsFiniteSet(Types)
    /\ HomeOf \in [Types -> Departments]
    /\ InitialTypes \subseteq Types
    /\ MaxAttempts \in Nat \ {0}
    /\ MaxChanges \in Nat
    /\ NULL \notin Departments \cup Types

Catalog == [departments: SUBSET Departments, types: SUBSET Types, taken: SUBSET Types, changes: 0..MaxChanges]

Draft == [departmentId: Departments \cup {NULL}, requestTypeId: Types \cup {NULL}, summary: BOOLEAN]

\* An IntakeResult.  A list is clamped and a text trimmed: something is left of it or not.
Result == [steps: BOOLEAN, missing: BOOLEAN, draft: Draft \cup {NULL}]

\* What may be found in the model's text: an object of the known keys, or none (attemptFails).
Outputs == Result

Analysis ==
    [step: {"departments", "types", "attempt", "delay", "ok", "failed"}, attempt: 1..MaxAttempts,
     thin: BOOLEAN, departments: SUBSET Departments, types: SUBSET Types, result: Result \cup {NULL}]

ASSUME AssistantMarksAssumption == NULL \notin Draft \cup Result \cup Analysis

AssistantInit ==
    /\ catalog = [departments |-> Departments, types |-> InitialTypes, taken |-> InitialTypes, changes |-> 0]
    /\ analysis = NULL

-----------------------------------------------------------------------------
\* The Super Admin, elsewhere.

Change(departments, types, new) ==
    /\ catalog.changes < MaxChanges
    /\ catalog' = [departments |-> departments, types |-> types, taken |-> catalog.taken \cup new,
                   changes |-> catalog.changes + 1]

createRequestType(t) ==
    /\ t \notin catalog.taken
    /\ HomeOf[t] \in catalog.departments
    /\ Change(catalog.departments, catalog.types \cup {t}, {t})

deleteRequestType(t) ==
    /\ t \in catalog.types
    /\ Change(catalog.departments, catalog.types \ {t}, {})

deleteDepartment(d) ==
    /\ d \in catalog.departments
    /\ Change(catalog.departments \ {d}, {t \in catalog.types : HomeOf[t] # d}, {})

catalogChanges ==
    /\ \/ \E t \in Types : createRequestType(t) \/ deleteRequestType(t)
       \/ \E d \in Departments : deleteDepartment(d)
    /\ UNCHANGED analysis

-----------------------------------------------------------------------------
\* validateIntakeResult

isActionable(draft) == draft # NULL /\ draft.departmentId # NULL /\ draft.summary

allowedDepartment(d, departments) == IF d \in departments THEN d ELSE NULL

allowedType(t, d, types) ==
    IF t \in types /\ (d = NULL \/ HomeOf[t] = d) THEN t ELSE NULL

\* An id that is not allowed is dropped, which is something missing.
parseDraft(draft, departments, types) ==
    LET d == allowedDepartment(draft.departmentId, departments)
    IN  [departmentId |-> d, requestTypeId |-> allowedType(draft.requestTypeId, d, types),
         summary |-> draft.summary]

\* Mutant: the draft is passed on as it is.
validate_clampedOnly(output, departments, types, thin) ==
    [output EXCEPT !.draft = IF @ = NULL THEN NULL ELSE parseDraft(@, departments, types)]

\* Thin input, or nothing to act on: no draft and no steps, but a question.
validate(output, departments, types, thin) ==
    LET draft == IF output.draft = NULL THEN NULL ELSE parseDraft(output.draft, departments, types)
        missing == output.missing \/ (draft # NULL /\
            (draft.departmentId # output.draft.departmentId \/ draft.requestTypeId # output.draft.requestTypeId))
    IN  IF thin \/ ~isActionable(draft)
        THEN [steps |-> FALSE, missing |-> TRUE, draft |-> NULL]
        ELSE [steps |-> output.steps, missing |-> missing, draft |-> draft]

-----------------------------------------------------------------------------
\* AiService.analyze

At(step) == analysis # NULL /\ analysis.step = step
Goes(step) == analysis' = [analysis EXCEPT !.step = step]

newAnalysis(thin) ==
    [step |-> "departments", attempt |-> 1, thin |-> thin, departments |-> {}, types |-> {}, result |-> NULL]

readDepartments ==
    /\ At("departments")
    /\ analysis' = [analysis EXCEPT !.step = "types", !.departments = catalog.departments]
    /\ UNCHANGED catalog

readRequestTypes ==
    /\ At("types")
    /\ analysis' = [analysis EXCEPT !.step = "attempt", !.types = catalog.types]
    /\ UNCHANGED catalog

\* Mutant: the retries are not counted.
attemptAgain_uncounted ==
    /\ At("attempt")
    /\ analysis' = [analysis EXCEPT !.step = "delay"]
    /\ UNCHANGED catalog

\* Status 429 or 503, or no answer at all: once more after a pause.
attemptAgain ==
    /\ At("attempt")
    /\ analysis.attempt < MaxAttempts
    /\ analysis' = [analysis EXCEPT !.step = "delay", !.attempt = @ + 1]
    /\ UNCHANGED catalog

waitForRetry ==
    /\ At("delay")
    /\ Goes("attempt")
    /\ UNCHANGED catalog

\* The last attempt, a timeout, another status or a body that cannot be read, which are
\* 503; or text without an object in it or with fields nobody asked for, which is 502.
attemptFails ==
    /\ At("attempt")
    /\ Goes("failed")
    /\ UNCHANGED catalog

attemptAnswers(output) ==
    /\ At("attempt")
    /\ analysis' = [analysis EXCEPT
          !.step = "ok",
          !.result = validate(output, analysis.departments, analysis.types, analysis.thin)]
    /\ UNCHANGED catalog

AssistantGoesOn ==
    \/ readDepartments \/ readRequestTypes
    \/ attemptAgain \/ waitForRetry \/ attemptFails
    \/ \E output \in Outputs : attemptAnswers(output)
=============================================================================
