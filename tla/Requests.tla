------------------------------ MODULE Requests ------------------------------
(***************************************************************************)
(* RequestsService: submit, decide, claim and transition.  A call is an    *)
(* HTTP request the server is handling.  It goes through the steps its     *)
(* handler awaits: the session guard, requireActor, the read of the        *)
(* request (or request type) with the checks on what was read, and the     *)
(* write.  Between two steps any other call may take steps of its own.     *)
(***************************************************************************)
EXTENDS HubState

CONSTANTS
    Calls           \* slots of the server for calls in flight

VARIABLES
    decision,       \* ApprovalDecision table, requestId is unique
    history,        \* RequestStatusHistory rows of a request, in commit order
    call            \* what each slot is handling, or NULL

requestVars == <<decision, history, call>>

DecisionRow == [outcome: Outcomes, approver: Employees, approverRole: Roles]
HistoryRow == [previousStatus: Statuses, newStatus: Statuses, changedBy: Employees]

\* What a call asks for.
CreateInput == [op: {"create"}, type: RequestTypes]
DecideInput == [op: {"decide"}, req: Requests, outcome: Outcomes]
ClaimInput == [op: {"claim"}, req: Requests]
TransitionInput == [op: {"transition"}, req: Requests, to: {"IN_PROGRESS", "COMPLETED"}]

RowInput == DecideInput \cup ClaimInput \cup TransitionInput
Input == CreateInput \cup RowInput

\* The step a call has completed, with the copies it has read so far.
BegunCall == [input: Input, by: Employees, step: {"begun"}]
ActorReadCall == [input: Input, by: Employees, step: {"actorRead"}, actor: EmployeeRow]
CheckedCall ==
    [input: CreateInput, by: Employees, step: {"checked"}, actor: EmployeeRow, seen: TypeRow]
        \cup [input: RowInput, by: Employees, step: {"checked"}, actor: EmployeeRow,
              seen: RequestRow]

Call == BegunCall \cup ActorReadCall \cup CheckedCall

\* An empty slot is no call, and a missing audit row no audit row.
ASSUME NoRowAssumption == NULL \notin Call /\ NULL \notin DecisionRow

\* Every table and every call in flight holds rows of its own shape.
RequestsTypeOK ==
    /\ SharedTypeOK
    /\ decision \in [Requests -> Null(DecisionRow)]
    /\ history \in [Requests -> Seq(HistoryRow)]
    /\ call \in [Calls -> Null(Call)]

RequestsInit ==
    /\ decision = [r \in Requests |-> NULL]
    /\ history = [r \in Requests |-> <<>>]
    /\ call = [c \in Calls |-> NULL]

-----------------------------------------------------------------------------
\* The steps every call starts with.

AtStep(c, op, step) ==
    call[c] # NULL /\ call[c].input.op = op /\ call[c].step = step

Done(c) == call' = [call EXCEPT ![c] = NULL]

\* SessionGuard has let account e through to the handler.
Begin(c, e, input) ==
    /\ call[c] = NULL
    /\ authenticate(e)
    /\ call' = [call EXCEPT ![c] = [input |-> input, by |-> e, step |-> "begun"]]
    /\ UNCHANGED <<sharedVars, decision, history>>

\* The handler reads its actor again, apart from the guard.
requireActor(c) ==
    /\ call[c] # NULL
    /\ call[c].step = "begun"
    /\ call' = [call EXCEPT ![c] =
                   [input |-> @.input, by |-> @.by, step |-> "actorRead",
                    actor |-> employee[@.by]]]
    /\ UNCHANGED <<sharedVars, decision, history>>

\* The call has read row and its checks have passed.
Checked(c, row) ==
    /\ call' = [call EXCEPT ![c] =
                   [input |-> @.input, by |-> @.by, step |-> "checked",
                    actor |-> @.actor, seen |-> row]]
    /\ UNCHANGED <<sharedVars, decision, history>>

\* getRequestOrThrow: the row exists in the company of the actor.
getRequestOrThrow(e, r) == request[r] # NULL /\ request[r].company = CompanyOf[e]

-----------------------------------------------------------------------------
\* POST /requests

\* ensureDepartment and ensureRequestType: both belong to the actor's company.
CreateAllowed(c) ==
    CompanyOf[requestType[call[c].input.type].dept] = CompanyOf[call[c].by]

CreateRead(c) ==
    /\ AtStep(c, "create", "actorRead")
    /\ CreateAllowed(c)
    /\ Checked(c, requestType[call[c].input.type])

\* request.create: the policy that was read is captured, not the live one.
CreateWrite(c) ==
    /\ AtStep(c, "create", "checked")
    /\ \E r \in Requests :
        /\ request[r] = NULL
        /\ request' = [request EXCEPT ![r] =
             [company |-> CompanyOf[call[c].by], submitter |-> call[c].by,
              dept |-> call[c].seen.dept, policy |-> call[c].seen.policy,
              approval |-> initialApprovalState(call[c].seen.policy),
              owner |-> NULL, claimed |-> FALSE, status |-> "SUBMITTED"]]
    /\ Done(c)
    /\ UNCHANGED <<employee, session, invitation, requestType, decision, history>>

-----------------------------------------------------------------------------
\* POST /requests/:id/decision

DecideAllowed(c) ==
    /\ getRequestOrThrow(call[c].by, call[c].input.req)
    /\ CanDecide(call[c].by, call[c].actor, request[call[c].input.req])

DecideRead(c) ==
    /\ AtStep(c, "decide", "actorRead")
    /\ DecideAllowed(c)
    /\ Checked(c, request[call[c].input.req])

\* Mutant: the update is by id alone and the decision an upsert.
StillUndecided_unconditional(r) == TRUE

\* The conditional update of the transaction finds the row still waiting, and
\* the decision row, unique per request, does not exist yet.
StillUndecided(r) == awaitingApprovalDecision(request[r]) /\ decision[r] = NULL

\* Mutant: the role is read again when the decision is stored.
DecideWrite_liveRole(c) ==
    /\ AtStep(c, "decide", "checked")
    /\ LET r == call[c].input.req
       IN  /\ StillUndecided(r)
           /\ request' = [request EXCEPT ![r].approval = call[c].input.outcome]
           /\ decision' = [decision EXCEPT ![r] =
                [outcome |-> call[c].input.outcome, approver |-> call[c].by,
                 approverRole |-> employee[call[c].by].role]]
    /\ Done(c)
    /\ UNCHANGED <<employee, session, invitation, requestType, history>>

DecideWrite(c) ==
    /\ AtStep(c, "decide", "checked")
    /\ LET r == call[c].input.req
       IN  /\ StillUndecided(r)
           /\ request' = [request EXCEPT ![r].approval = call[c].input.outcome]
           /\ decision' = [decision EXCEPT ![r] =
                [outcome |-> call[c].input.outcome, approver |-> call[c].by,
                 approverRole |-> call[c].actor.role]]
    /\ Done(c)
    /\ UNCHANGED <<employee, session, invitation, requestType, history>>

\* 409: the transaction is rolled back.
DecideConflict(c) ==
    /\ AtStep(c, "decide", "checked")
    /\ ~StillUndecided(call[c].input.req)
    /\ Done(c)
    /\ UNCHANGED <<sharedVars, decision, history>>

-----------------------------------------------------------------------------
\* POST /requests/:id/claim

ClaimAllowed(c) ==
    /\ getRequestOrThrow(call[c].by, call[c].input.req)
    /\ MayClaim(call[c].by, call[c].actor, request[call[c].input.req])

ClaimRead(c) ==
    /\ AtStep(c, "claim", "actorRead")
    /\ ClaimAllowed(c)
    /\ Checked(c, request[call[c].input.req])

\* The WHERE of the conditional update, on the live row and the actor as read.
StillClaimable(e, a, r) ==
    /\ request[r].dept = a.dept
    /\ request[r].owner = NULL
    /\ request[r].submitter # e
    /\ approvalAllowsClaim(request[r])

ClaimWrite(c) ==
    /\ AtStep(c, "claim", "checked")
    /\ LET r == call[c].input.req
       IN  /\ StillClaimable(call[c].by, call[c].actor, r)
           /\ request' = [request EXCEPT ![r].owner = call[c].by,
                                         ![r].claimed = TRUE]
    /\ Done(c)
    /\ UNCHANGED <<employee, session, invitation, requestType, decision, history>>

\* 409: no row was updated.
ClaimConflict(c) ==
    /\ AtStep(c, "claim", "checked")
    /\ ~StillClaimable(call[c].by, call[c].actor, call[c].input.req)
    /\ Done(c)
    /\ UNCHANGED <<sharedVars, decision, history>>

-----------------------------------------------------------------------------
\* PATCH /requests/:id/transition

TransitionAllowed(c) ==
    /\ getRequestOrThrow(call[c].by, call[c].input.req)
    /\ MayTransition(call[c].by, call[c].actor, request[call[c].input.req],
                     call[c].input.to)

TransitionRead(c) ==
    /\ AtStep(c, "transition", "actorRead")
    /\ TransitionAllowed(c)
    /\ Checked(c, request[call[c].input.req])

\* Mutant: the status is updated only if it is the one read, the row always added.
TransitionWrite_statusIfUnchanged(c) ==
    /\ AtStep(c, "transition", "checked")
    /\ LET r == call[c].input.req
       IN  /\ request' = [request EXCEPT ![r].status =
                IF @ = call[c].seen.status THEN call[c].input.to ELSE @]
           /\ history' = [history EXCEPT ![r] = Append(@,
                [previousStatus |-> call[c].seen.status,
                 newStatus |-> call[c].input.to, changedBy |-> call[c].by])]
    /\ Done(c)
    /\ UNCHANGED <<employee, session, invitation, requestType, decision>>

\* The update is by id alone: it does not look at the row again.
TransitionWrite(c) ==
    /\ AtStep(c, "transition", "checked")
    /\ LET r == call[c].input.req
       IN  /\ request' = [request EXCEPT ![r].status = call[c].input.to]
           /\ history' = [history EXCEPT ![r] = Append(@,
                [previousStatus |-> call[c].seen.status,
                 newStatus |-> call[c].input.to, changedBy |-> call[c].by])]
    /\ Done(c)
    /\ UNCHANGED <<employee, session, invitation, requestType, decision>>

-----------------------------------------------------------------------------
\* A check on the rows read fails: the call ends with an error, nothing written.
Refuse(c) ==
    /\ \/ AtStep(c, "create", "actorRead") /\ ~CreateAllowed(c)
       \/ AtStep(c, "decide", "actorRead") /\ ~DecideAllowed(c)
       \/ AtStep(c, "claim", "actorRead") /\ ~ClaimAllowed(c)
       \/ AtStep(c, "transition", "actorRead") /\ ~TransitionAllowed(c)
    /\ Done(c)
    /\ UNCHANGED <<sharedVars, decision, history>>

CallStep(c) ==
    \/ requireActor(c)
    \/ CreateRead(c)     \/ CreateWrite(c)
    \/ DecideRead(c)     \/ DecideWrite(c)  \/ DecideConflict(c)
    \/ ClaimRead(c)      \/ ClaimWrite(c)   \/ ClaimConflict(c)
    \/ TransitionRead(c) \/ TransitionWrite(c)
    \/ Refuse(c)

RequestsNext ==
    \/ \E c \in Calls, e \in Employees, input \in Input : Begin(c, e, input)
    \/ \E c \in Calls : CallStep(c)

\* The server process restarts: every call in flight is gone, the tables stay.
ForgetCalls ==
    /\ call' = [c \in Calls |-> NULL]
    /\ UNCHANGED <<decision, history>>

Restart == ForgetCalls /\ UNCHANGED sharedVars

-----------------------------------------------------------------------------
\* The service on its own: accounts and request types do not change.

requestsVars == <<sharedVars, requestVars>>

RequestServiceInit == SharedInit /\ RequestsInit

RequestsSpec == RequestServiceInit /\ [][RequestsNext \/ Restart]_requestsVars

-----------------------------------------------------------------------------
\* Properties.

\* An approval state says APPROVED or DENIED exactly when the audit row of that
\* outcome exists: decide writes both columns in one transaction, under two
\* approvers who answer at the same time.
DecisionMatchesState ==
    \A r \in Requests :
        /\ decision[r] # NULL =>
              request[r] # NULL /\ request[r].approval = decision[r].outcome
        /\ (request[r] # NULL /\ request[r].approval \in Outcomes) => decision[r] # NULL

\* Who decided was someone else than the submitter, of the same company, and held
\* the role the captured policy names when the decision was checked.
DecidedByEligible ==
    \A r \in Requests : decision[r] # NULL =>
        /\ decision[r].approver # request[r].submitter
        /\ CompanyOf[decision[r].approver] = request[r].company
        /\ decision[r].approverRole = request[r].policy

\* Claim comes after approval, whatever the order in which claims and decisions
\* of a request arrive: a claimed request has an owner of its company other than
\* its submitter, and the approval its captured policy asks for was given.
ClaimedAfterApproval ==
    \A r \in Requests : (request[r] # NULL /\ request[r].claimed) =>
        /\ request[r].owner \in Employees \ {request[r].submitter}
        /\ CompanyOf[request[r].owner] = request[r].company
        /\ RequiresApproval(request[r].policy) =>
              decision[r] # NULL /\ decision[r].outcome = "APPROVED"

\* A recorded decision and a set owner are final: of several calls that race for
\* them one wins and the others leave the row as it is.
FirstWins ==
    [][\A r \in Requests :
        /\ decision[r] # NULL => decision'[r] = decision[r]
        /\ (request[r] # NULL /\ request[r].owner # NULL) =>
              request'[r].owner = request[r].owner]_requestsVars

\* The stored work status is the one the last history row announces; a request
\* that never moved is as it was submitted or migrated.
StatusMatchesHistory ==
    \A r \in Requests : history[r] # <<>> =>
        /\ request[r] # NULL
        /\ request[r].status = history[r][Len(history[r])].newStatus

\* Every work-status row was written by the owner of the request, and not while
\* the request was waiting for approval or denied.
WorkedByOwner ==
    \A r \in Requests : \A i \in DOMAIN history[r] :
        /\ history[r][i].changedBy = request[r].owner
        /\ approvalAllowsHandling(request[r])

\* Denial ends a request: no call still in flight claims it or moves its status.
DeniedIsDead ==
    [][\A r \in Requests : (request[r] # NULL /\ request[r].approval = "DENIED") =>
        request'[r] = request[r] /\ history'[r] = history[r]]_requestsVars

-----------------------------------------------------------------------------
\* The abstract promise, read off the tables.

stageOf(r) ==
    IF request[r] = NULL THEN "absent"
    ELSE IF awaitingApprovalDecision(request[r]) THEN "waiting"
    ELSE IF request[r].approval = "DENIED" THEN "denied"
    ELSE "open"

ownerOf(r) == IF request[r] = NULL THEN NULL ELSE request[r].owner

statusOf(r) == IF request[r] = NULL THEN "SUBMITTED" ELSE request[r].status

Promise == INSTANCE RequestLifecycle WITH
    stage <- [r \in Requests |-> stageOf(r)],
    holder <- [r \in Requests |-> ownerOf(r)],
    work <- [r \in Requests |-> statusOf(r)]

\* Every step of every call is a step of the abstract life cycle or invisible to
\* it: submitted once, ruled on once, taken once and only when open, worked on
\* only when taken.
KeepsPromise == Promise!LifecycleSpec
=============================================================================
