---------------------------- MODULE RequestsProofs ----------------------------
(***************************************************************************)
(* The safety of the request service for any number of accounts, requests, *)
(* request types and calls in flight.  The inductive invariant adds to the *)
(* properties two facts no single table shows: a captured policy and its   *)
(* approval state agree, and what a call has checked still holds when it   *)
(* comes to write, whatever ran in between.                                *)
(***************************************************************************)
EXTENDS Requests, SequenceTheorems, TLAPS

\* Columns that are set together stay in agreement: an approval state belongs to
\* a captured policy, and NOT_REQUIRED is the state of the policy NONE alone.
StateFollowsPolicy ==
    \A r \in Requests : (request[r] # NULL /\ request[r].approval # NULL) =>
        /\ request[r].policy # NULL
        /\ request[r].approval = "NOT_REQUIRED" <=> request[r].policy = "NONE"

\* Of the checks of decide, those that no other call can undo.
DecideStillValid(k) ==
    LET r == k.input.req
    IN  /\ request[r] # NULL
        /\ request[r].company = CompanyOf[k.by]
        /\ request[r].submitter # k.by
        /\ RequiresApproval(request[r].policy)
        /\ k.actor.role = request[r].policy

ClaimStillValid(k) ==
    LET r == k.input.req
    IN  request[r] # NULL /\ request[r].company = CompanyOf[k.by]

TransitionStillValid(k) ==
    LET r == k.input.req
    IN  /\ request[r] # NULL
        /\ request[r].owner = k.by
        /\ approvalAllowsHandling(request[r])

\* What every call that has passed its checks still knows about the live row.
CheckedStillValid ==
    \A c \in Calls : (call[c] # NULL /\ call[c].step = "checked") =>
        /\ call[c].input.op = "decide" => DecideStillValid(call[c])
        /\ call[c].input.op = "claim" => ClaimStillValid(call[c])
        /\ call[c].input.op = "transition" => TransitionStillValid(call[c])

Safe ==
    /\ DecisionMatchesState
    /\ DecidedByEligible
    /\ ClaimedAfterApproval
    /\ StatusMatchesHistory
    /\ WorkedByOwner

\* The inductive invariant.
IInv == RequestsTypeOK /\ Safe /\ StateFollowsPolicy /\ CheckedStillValid

-----------------------------------------------------------------------------
(* Types. *)

\* The tables at the start hold rows of their shape.
LEMMA InitTyped == SharedInit /\ RequestsInit => RequestsTypeOK
  BY InitialAssumption
  DEF SharedInit, RequestsInit, RequestsTypeOK, SharedTypeOK, LegacyRequestRow, Null

\* A call that has passed its checks is a checked call, by the kind of its input.
LEMMA CheckedCallTyped ==
    ASSUME RequestsTypeOK, NEW c \in Calls, call[c] # NULL, call[c].step = "checked"
    PROVE  /\ call[c].by \in Employees
           /\ call[c].actor \in EmployeeRow
           /\ call[c].input.op = "create" => call[c].seen \in TypeRow
           /\ call[c].input.op = "decide" =>
                 call[c].input \in DecideInput /\ call[c].seen \in RequestRow
           /\ call[c].input.op = "claim" =>
                 call[c].input \in ClaimInput /\ call[c].seen \in RequestRow
           /\ call[c].input.op = "transition" =>
                 call[c].input \in TransitionInput /\ call[c].seen \in RequestRow
  <1>1. call[c] \in Call
    BY DEF RequestsTypeOK, Null
  <1>2. call[c] \in CheckedCall
    BY <1>1 DEF Call, BegunCall, ActorReadCall
  <1> QED
    BY <1>2 DEF CheckedCall, RowInput, CreateInput, DecideInput, ClaimInput, TransitionInput

\* A call that has read its actor holds an input and a row of an account.
LEMMA ActorReadCallTyped ==
    ASSUME RequestsTypeOK, NEW c \in Calls, call[c] # NULL, call[c].step = "actorRead"
    PROVE  /\ call[c].by \in Employees
           /\ call[c].actor \in EmployeeRow
           /\ call[c].input.op = "create" => call[c].input \in CreateInput
           /\ call[c].input.op = "decide" => call[c].input \in DecideInput
           /\ call[c].input.op = "claim" => call[c].input \in ClaimInput
           /\ call[c].input.op = "transition" => call[c].input \in TransitionInput
  <1>1. call[c] \in Call
    BY DEF RequestsTypeOK, Null
  <1>2. call[c] \in ActorReadCall
    BY <1>1 DEF Call, BegunCall, CheckedCall
  <1> QED
    BY <1>2 DEF ActorReadCall, Input, RowInput, CreateInput, DecideInput, ClaimInput,
                TransitionInput

\* No step of a call leaves the shape of the tables and of the calls in flight.
LEMMA StepTyped ==
    ASSUME RequestsTypeOK, CheckedStillValid, RequestsNext
    PROVE  RequestsTypeOK'
  <1> USE DEF RequestsTypeOK
  <1>1. ASSUME NEW c \in Calls, NEW e \in Employees, NEW input \in Input,
               Begin(c, e, input)
        PROVE  RequestsTypeOK'
    <2>1. [input |-> input, by |-> e, step |-> "begun"] \in Call
      BY DEF Call, BegunCall
    <2> QED
      BY <1>1, <2>1 DEF Begin, SharedTypeOK, sharedVars, Null
  <1>2. ASSUME NEW c \in Calls, requireActor(c)
        PROVE  RequestsTypeOK'
    <2>1. call[c] \in BegunCall
      BY <1>2 DEF requireActor, Null, Call, ActorReadCall, CheckedCall
    <2>2. employee[call[c].by] \in EmployeeRow
      BY <2>1 DEF BegunCall, SharedTypeOK
    <2>3. [input |-> call[c].input, by |-> call[c].by, step |-> "actorRead",
           actor |-> employee[call[c].by]] \in Call
      BY <2>1, <2>2 DEF BegunCall, ActorReadCall, Call
    <2> QED
      BY <1>2, <2>3 DEF requireActor, SharedTypeOK, sharedVars, Null
  <1>3. ASSUME NEW c \in Calls, CreateRead(c)
        PROVE  RequestsTypeOK'
    <2> DEFINE row == requestType[call[c].input.type]
    <2>1. /\ call[c].input \in CreateInput
          /\ call[c].by \in Employees
          /\ call[c].actor \in EmployeeRow
      BY <1>3, ActorReadCallTyped DEF CreateRead, AtStep
    <2>2. row \in TypeRow
      BY <2>1 DEF CreateInput, SharedTypeOK
    <2> HIDE DEF row
    <2>3. [input |-> call[c].input, by |-> call[c].by, step |-> "checked",
           actor |-> call[c].actor, seen |-> row] \in Call
      BY <2>1, <2>2 DEF CheckedCall, Call
    <2>4. Checked(c, row)
      BY <1>3 DEF CreateRead, row
    <2> QED
      BY <2>3, <2>4 DEF Checked, SharedTypeOK, sharedVars, Null
  <1>4. ASSUME NEW c \in Calls, DecideRead(c) \/ ClaimRead(c) \/ TransitionRead(c)
        PROVE  RequestsTypeOK'
    <2> DEFINE row == request[call[c].input.req]
    <2>1. /\ call[c].input \in RowInput
          /\ call[c].by \in Employees
          /\ call[c].actor \in EmployeeRow
      BY <1>4, ActorReadCallTyped
      DEF DecideRead, ClaimRead, TransitionRead, AtStep, RowInput
    <2>2. row \in RequestRow
      <3>1. call[c].input.req \in Requests
        BY <2>1 DEF RowInput, DecideInput, ClaimInput, TransitionInput
      <3>2. row # NULL
        BY <1>4 DEF DecideRead, ClaimRead, TransitionRead, DecideAllowed, ClaimAllowed,
                    TransitionAllowed, getRequestOrThrow
      <3> QED
        BY <3>1, <3>2 DEF SharedTypeOK, Null
    <2> HIDE DEF row
    <2>3. [input |-> call[c].input, by |-> call[c].by, step |-> "checked",
           actor |-> call[c].actor, seen |-> row] \in Call
      BY <2>1, <2>2 DEF CheckedCall, Call
    <2>4. Checked(c, row)
      BY <1>4 DEF DecideRead, ClaimRead, TransitionRead, row
    <2> QED
      BY <2>3, <2>4 DEF Checked, SharedTypeOK, sharedVars, Null
  <1>5. ASSUME NEW c \in Calls, CreateWrite(c)
        PROVE  RequestsTypeOK'
    <2>1. call[c].by \in Employees /\ call[c].seen \in TypeRow
      BY <1>5, CheckedCallTyped DEF CreateWrite, AtStep
    <2>2. initialApprovalState(call[c].seen.policy) \in ApprovalStates
      BY DEF initialApprovalState, ApprovalStates
    <2>3. CompanyOf[call[c].by] \in Companies
      BY <2>1, CompanyAssumption
    <2>4. request' \in [Requests -> Null(RequestRow)]
      BY <1>5, <2>1, <2>2, <2>3
      DEF CreateWrite, SharedTypeOK, RequestRow, TypeRow, Null, Statuses
    <2> QED
      BY <1>5, <2>4 DEF CreateWrite, Done, SharedTypeOK, Null
  <1>6. ASSUME NEW c \in Calls, DecideWrite(c)
        PROVE  RequestsTypeOK'
    <2> DEFINE r == call[c].input.req
    <2>1. /\ call[c].by \in Employees
          /\ call[c].actor \in EmployeeRow
          /\ r \in Requests
          /\ call[c].input.outcome \in Outcomes
      BY <1>6, CheckedCallTyped DEF DecideWrite, AtStep, DecideInput
    <2>2. call[c].actor.role \in Roles
      BY <2>1 DEF EmployeeRow
    <2>5. request[r] \in RequestRow
      BY <1>6, <2>1 DEF DecideWrite, AtStep, CheckedStillValid, DecideStillValid,
                        SharedTypeOK, Null
    <2>6. [request[r] EXCEPT !.approval = call[c].input.outcome] \in RequestRow
      BY <2>1, <2>5 DEF RequestRow, Null, Outcomes, ApprovalStates
    <2>3. request' \in [Requests -> Null(RequestRow)]
      BY <1>6, <2>1, <2>6 DEF DecideWrite, SharedTypeOK, Null
    <2>4. decision' \in [Requests -> Null(DecisionRow)]
      BY <1>6, <2>1, <2>2 DEF DecideWrite, DecisionRow, Null
    <2> QED
      BY <1>6, <2>3, <2>4 DEF DecideWrite, Done, SharedTypeOK, Null
  <1>7. ASSUME NEW c \in Calls, ClaimWrite(c)
        PROVE  RequestsTypeOK'
    <2>1. call[c].by \in Employees /\ call[c].input.req \in Requests
      BY <1>7, CheckedCallTyped DEF ClaimWrite, AtStep, ClaimInput
    <2> DEFINE r == call[c].input.req
    <2>2. request[r] \in RequestRow
      BY <1>7, <2>1 DEF ClaimWrite, AtStep, CheckedStillValid, ClaimStillValid,
                        SharedTypeOK, Null
    <2>3. [request[r] EXCEPT !.owner = call[c].by, !.claimed = TRUE] \in RequestRow
      BY <2>1, <2>2 DEF RequestRow, Null
    <2>4. request' \in [Requests -> Null(RequestRow)]
      BY <1>7, <2>1, <2>3 DEF ClaimWrite, SharedTypeOK, Null
    <2> QED
      BY <1>7, <2>4 DEF ClaimWrite, Done, SharedTypeOK, Null
  <1>8. ASSUME NEW c \in Calls, TransitionWrite(c)
        PROVE  RequestsTypeOK'
    <2> DEFINE r == call[c].input.req
    <2>1. /\ call[c].by \in Employees
          /\ r \in Requests
          /\ call[c].input.to \in Statuses
          /\ call[c].seen.status \in Statuses
      BY <1>8, CheckedCallTyped
      DEF TransitionWrite, AtStep, TransitionInput, RequestRow, Statuses
    <2>2. request[r] \in RequestRow
      BY <1>8, <2>1 DEF TransitionWrite, AtStep, CheckedStillValid, TransitionStillValid,
                        SharedTypeOK, Null
    <2>3. [request[r] EXCEPT !.status = call[c].input.to] \in RequestRow
      BY <2>1, <2>2 DEF RequestRow, Null
    <2>4. request' \in [Requests -> Null(RequestRow)]
      BY <1>8, <2>1, <2>3 DEF TransitionWrite, SharedTypeOK, Null
    <2> DEFINE row == [previousStatus |-> call[c].seen.status,
                       newStatus |-> call[c].input.to, changedBy |-> call[c].by]
    <2>5. row \in HistoryRow
      BY <2>1 DEF HistoryRow
    <2>6. history' = [history EXCEPT ![r] = Append(history[r], row)]
      BY <1>8 DEF TransitionWrite
    <2> HIDE DEF row
    <2>7. Append(history[r], row) \in Seq(HistoryRow)
      BY <2>1, <2>5
    <2>8. history' \in [Requests -> Seq(HistoryRow)]
      BY <2>1, <2>6, <2>7
    <2> QED
      BY <1>8, <2>4, <2>8 DEF TransitionWrite, Done, SharedTypeOK, Null
  <1>9. ASSUME NEW c \in Calls, DecideConflict(c) \/ ClaimConflict(c) \/ Refuse(c)
        PROVE  RequestsTypeOK'
    BY <1>9 DEF DecideConflict, ClaimConflict, Refuse, Done, SharedTypeOK, sharedVars, Null
  <1> QED
    BY <1>1, <1>2, <1>3, <1>4, <1>5, <1>6, <1>7, <1>8, <1>9 DEF RequestsNext, CallStep

\* A restart of the server loses calls, no rows.
LEMMA RestartTyped ==
    ASSUME RequestsTypeOK, ForgetCalls, UNCHANGED sharedVars
    PROVE  RequestsTypeOK'
  BY DEF RequestsTypeOK, SharedTypeOK, sharedVars, ForgetCalls, Null

-----------------------------------------------------------------------------
(* What a step may do to a row and to a call. *)

\* The four steps that write a row, each with the row before and after.
CreatesRow(c, r) ==
    /\ AtStep(c, "create", "checked")
    /\ request[r] = NULL
    /\ request'[r] = [company |-> CompanyOf[call[c].by], submitter |-> call[c].by,
                      dept |-> call[c].seen.dept, policy |-> call[c].seen.policy,
                      approval |-> initialApprovalState(call[c].seen.policy),
                      owner |-> NULL, claimed |-> FALSE, status |-> "SUBMITTED"]
    /\ UNCHANGED <<decision, history>>

DecidesRow(c, r) ==
    /\ AtStep(c, "decide", "checked")
    /\ r = call[c].input.req
    /\ StillUndecided(r)
    /\ request'[r] = [request[r] EXCEPT !.approval = call[c].input.outcome]
    /\ decision'[r] = [outcome |-> call[c].input.outcome, approver |-> call[c].by,
                       approverRole |-> call[c].actor.role]
    /\ history' = history

ClaimsRow(c, r) ==
    /\ AtStep(c, "claim", "checked")
    /\ r = call[c].input.req
    /\ StillClaimable(call[c].by, call[c].actor, r)
    /\ request'[r] = [request[r] EXCEPT !.owner = call[c].by, !.claimed = TRUE]
    /\ UNCHANGED <<decision, history>>

MovesRow(c, r) ==
    /\ AtStep(c, "transition", "checked")
    /\ r = call[c].input.req
    /\ request'[r] = [request[r] EXCEPT !.status = call[c].input.to]
    /\ history'[r] = Append(history[r],
         [previousStatus |-> call[c].seen.status, newStatus |-> call[c].input.to,
          changedBy |-> call[c].by])
    /\ decision' = decision

RowUnchanged(r) ==
    request'[r] = request[r] /\ decision'[r] = decision[r] /\ history'[r] = history[r]

\* Every step leaves the rows of a request alone or is one of the four that write it.
LEMMA RowSteps ==
    ASSUME IInv, RequestsNext, NEW r \in Requests
    PROVE  \/ RowUnchanged(r)
           \/ \E c \in Calls :
                 CreatesRow(c, r) \/ DecidesRow(c, r) \/ ClaimsRow(c, r) \/ MovesRow(c, r)
  <1> USE DEF IInv, RequestsTypeOK, SharedTypeOK
  <1>1. ASSUME NEW c \in Calls, CreateWrite(c)
        PROVE  RowUnchanged(r) \/ CreatesRow(c, r)
    BY <1>1 DEF CreateWrite, RowUnchanged, CreatesRow
  <1>2. ASSUME NEW c \in Calls, DecideWrite(c)
        PROVE  RowUnchanged(r) \/ DecidesRow(c, r)
    BY <1>2 DEF DecideWrite, RowUnchanged, DecidesRow
  <1>3. ASSUME NEW c \in Calls, ClaimWrite(c)
        PROVE  RowUnchanged(r) \/ ClaimsRow(c, r)
    BY <1>3 DEF ClaimWrite, RowUnchanged, ClaimsRow
  <1>4. ASSUME NEW c \in Calls, TransitionWrite(c)
        PROVE  RowUnchanged(r) \/ MovesRow(c, r)
    BY <1>4 DEF TransitionWrite, RowUnchanged, MovesRow
  <1>5. ASSUME NEW c \in Calls, CallStep(c)
        PROVE  \/ RowUnchanged(r)
               \/ CreatesRow(c, r) \/ DecidesRow(c, r) \/ ClaimsRow(c, r) \/ MovesRow(c, r)
    BY <1>1, <1>2, <1>3, <1>4, <1>5
    DEF CallStep, requireActor, CreateRead, DecideRead, ClaimRead, TransitionRead, Checked,
        DecideConflict, ClaimConflict, Refuse, sharedVars, RowUnchanged
  <1> QED
    BY <1>5 DEF RequestsNext, Begin, sharedVars, RowUnchanged

\* Rows stay, with the columns that create has set; an owner stays, and so does
\* the approval to handle the request.
RowKept(r) ==
    request[r] # NULL =>
        /\ request'[r] # NULL
        /\ request'[r].company = request[r].company
        /\ request'[r].submitter = request[r].submitter
        /\ request'[r].policy = request[r].policy
        /\ request[r].owner # NULL => request'[r].owner = request[r].owner
        /\ approvalAllowsHandling(request[r]) => approvalAllowsHandling(request'[r])

\* Whatever step is taken, a row keeps its submitter, company, policy and owner.
LEMMA RowsKept ==
    ASSUME IInv, RequestsNext, NEW r \in Requests
    PROVE  RowKept(r)
  <1> SUFFICES ASSUME request[r] # NULL
               PROVE  RowKept(r)
    BY DEF RowKept
  <1>1. request[r] \in RequestRow
    BY DEF IInv, RequestsTypeOK, SharedTypeOK, Null
  <1>2. ASSUME NEW c \in Calls, DecidesRow(c, r)
        PROVE  RowKept(r)
    <2>1. call[c].input.outcome \in Outcomes
      BY <1>2, CheckedCallTyped DEF DecidesRow, AtStep, DecideInput, IInv
    <2>2. request'[r] \in RequestRow
      BY <1>1, <1>2, <2>1 DEF DecidesRow, RequestRow, Null, Outcomes, ApprovalStates
    <2>3. ~approvalAllowsHandling(request[r])
      BY <1>2 DEF DecidesRow, StillUndecided, approvalAllowsHandling
    <2> QED
      BY <1>1, <1>2, <2>2, <2>3, NullAssumption DEF DecidesRow, RowKept, RequestRow
  <1>3. ASSUME NEW c \in Calls, ClaimsRow(c, r)
        PROVE  RowKept(r)
    <2>1. call[c].by \in Employees
      BY <1>3, CheckedCallTyped DEF ClaimsRow, AtStep, IInv
    <2>2. request'[r] \in RequestRow
      BY <1>1, <1>3, <2>1 DEF ClaimsRow, RequestRow, Null
    <2>3. request[r].owner = NULL
      BY <1>3 DEF ClaimsRow, StillClaimable
    <2> QED
      BY <1>1, <1>3, <2>2, <2>3, NullAssumption
      DEF ClaimsRow, RowKept, RequestRow, approvalAllowsHandling,
          awaitingApprovalDecision, legacyApprovalStillRequired
  <1>4. ASSUME NEW c \in Calls, MovesRow(c, r)
        PROVE  RowKept(r)
    <2>1. call[c].input.to \in Statuses
      BY <1>4, CheckedCallTyped DEF MovesRow, AtStep, TransitionInput, Statuses, IInv
    <2>2. request'[r] \in RequestRow
      BY <1>1, <1>4, <2>1 DEF MovesRow, RequestRow, Null
    <2> QED
      BY <1>1, <1>4, <2>2, NullAssumption
      DEF MovesRow, RowKept, RequestRow, approvalAllowsHandling,
          awaitingApprovalDecision, legacyApprovalStillRequired
  <1> QED
    BY <1>2, <1>3, <1>4, RowSteps DEF RowUnchanged, RowKept, CreatesRow

\* A call that has passed its checks after a step had passed them before, or reads
\* its row in this step, which changes no table.
LEMMA CheckedNow ==
    ASSUME RequestsTypeOK, RequestsNext,
           NEW c \in Calls, call'[c] # NULL, call'[c].step = "checked"
    PROVE  \/ call'[c] = call[c]
           \/ CreateRead(c) \/ DecideRead(c) \/ ClaimRead(c) \/ TransitionRead(c)
  <1>1. ASSUME NEW k \in Calls, NEW e \in Employees, NEW input \in Input,
               Begin(k, e, input)
        PROVE  call'[c] = call[c]
    BY <1>1 DEF Begin, RequestsTypeOK
  <1>2. ASSUME NEW k \in Calls, requireActor(k)
        PROVE  call'[c] = call[c]
    BY <1>2 DEF requireActor, RequestsTypeOK
  <1>3. ASSUME NEW k \in Calls, Done(k)
        PROVE  call'[c] = call[c]
    BY <1>3 DEF Done, RequestsTypeOK
  <1>4. ASSUME NEW k \in Calls, NEW row, Checked(k, row), k # c
        PROVE  call'[c] = call[c]
    BY <1>4 DEF Checked, RequestsTypeOK
  <1>5. ASSUME NEW k \in Calls, CallStep(k)
        PROVE  \/ call'[c] = call[c]
               \/ CreateRead(c) \/ DecideRead(c) \/ ClaimRead(c) \/ TransitionRead(c)
    <2>1. CASE CreateRead(k) \/ DecideRead(k) \/ ClaimRead(k) \/ TransitionRead(k)
      BY <1>4, <2>1 DEF CreateRead, DecideRead, ClaimRead, TransitionRead
    <2> QED
      BY <1>2, <1>3, <1>5, <2>1
      DEF CallStep, CreateWrite, DecideWrite, ClaimWrite, TransitionWrite, DecideConflict,
          ClaimConflict, Refuse
  <1> QED
    BY <1>1, <1>5 DEF RequestsNext

-----------------------------------------------------------------------------
(* The strengthening is inductive. *)

\* What a call has checked cannot be undone by another call.
LEMMA StepKeepsChecked ==
    ASSUME IInv, RequestsNext
    PROVE  CheckedStillValid'
  <1> SUFFICES ASSUME NEW c \in Calls, call'[c] # NULL, call'[c].step = "checked"
               PROVE  /\ call'[c].input.op = "decide" => DecideStillValid(call[c])'
                      /\ call'[c].input.op = "claim" => ClaimStillValid(call[c])'
                      /\ call'[c].input.op = "transition" => TransitionStillValid(call[c])'
    BY DEF CheckedStillValid
  <1> USE DEF IInv
  <1>1. CASE call'[c] = call[c]
    <2>1. /\ call[c].input.op \in {"decide", "claim", "transition"} =>
               call[c].input.req \in Requests
          /\ call[c].by # NULL
      BY <1>1, CheckedCallTyped, NullAssumption
      DEF DecideInput, ClaimInput, TransitionInput
    <2>2. CASE call[c].input.op = "decide"
      <3>1. DecideStillValid(call[c]) /\ RowKept(call[c].input.req)
        BY <1>1, <2>1, <2>2, RowsKept DEF CheckedStillValid
      <3> QED
        BY <1>1, <2>2, <3>1 DEF DecideStillValid, RowKept
    <2>3. CASE call[c].input.op = "claim"
      <3>1. ClaimStillValid(call[c]) /\ RowKept(call[c].input.req)
        BY <1>1, <2>1, <2>3, RowsKept DEF CheckedStillValid
      <3> QED
        BY <1>1, <2>3, <3>1 DEF ClaimStillValid, RowKept
    <2>4. CASE call[c].input.op = "transition"
      <3>1. TransitionStillValid(call[c]) /\ RowKept(call[c].input.req)
        BY <1>1, <2>1, <2>4, RowsKept DEF CheckedStillValid
      <3> QED
        BY <1>1, <2>1, <2>4, <3>1 DEF TransitionStillValid, RowKept
    <2> QED
      BY <1>1, <2>2, <2>3, <2>4
  <1>2. CASE CreateRead(c)
    <2>1. call'[c].input.op = "create"
      BY <1>2 DEF CreateRead, AtStep, Checked, RequestsTypeOK
    <2> QED
      BY <2>1
  <1>3. CASE DecideRead(c)
    <2> DEFINE r == call[c].input.req
    <2>1. /\ call'[c].input = call[c].input
          /\ call'[c].by = call[c].by
          /\ call'[c].actor = call[c].actor
          /\ call[c].input.op = "decide"
          /\ request' = request
      BY <1>3 DEF DecideRead, AtStep, Checked, sharedVars, RequestsTypeOK
    <2>2. request[r] # NULL /\ request[r].company = CompanyOf[call[c].by]
      BY <1>3 DEF DecideRead, DecideAllowed, getRequestOrThrow
    <2>3. CanDecide(call[c].by, call[c].actor, request[r])
      BY <1>3 DEF DecideRead, DecideAllowed
    <2>4. DecideStillValid(call[c])
      BY <2>2, <2>3
      DEF DecideStillValid, CanDecide, canDecideApproval, approvalDecisionApplies
    <2> QED
      BY <2>1, <2>4 DEF DecideStillValid
  <1>4. CASE ClaimRead(c)
    <2>1. /\ call'[c].input = call[c].input
          /\ call'[c].by = call[c].by
          /\ call[c].input.op = "claim"
          /\ request' = request
      BY <1>4 DEF ClaimRead, AtStep, Checked, sharedVars, RequestsTypeOK
    <2> QED
      BY <1>4, <2>1 DEF ClaimRead, ClaimAllowed, getRequestOrThrow, ClaimStillValid
  <1>5. CASE TransitionRead(c)
    <2>1. /\ call'[c].input = call[c].input
          /\ call'[c].by = call[c].by
          /\ call[c].input.op = "transition"
          /\ request' = request
      BY <1>5 DEF TransitionRead, AtStep, Checked, sharedVars, RequestsTypeOK
    <2> QED
      BY <1>5, <2>1
      DEF TransitionRead, TransitionAllowed, getRequestOrThrow, MayTransition,
          TransitionStillValid
  <1> QED
    BY <1>1, <1>2, <1>3, <1>4, <1>5, CheckedNow

\* The rows of one request after a step, from the rows before it.
RowSafe(r) ==
    /\ decision[r] # NULL =>
          request[r] # NULL /\ request[r].approval = decision[r].outcome
    /\ (request[r] # NULL /\ request[r].approval \in Outcomes) => decision[r] # NULL
    /\ decision[r] # NULL =>
          /\ decision[r].approver # request[r].submitter
          /\ CompanyOf[decision[r].approver] = request[r].company
          /\ decision[r].approverRole = request[r].policy
    /\ (request[r] # NULL /\ request[r].claimed) =>
          /\ request[r].owner \in Employees \ {request[r].submitter}
          /\ CompanyOf[request[r].owner] = request[r].company
          /\ RequiresApproval(request[r].policy) =>
                decision[r] # NULL /\ decision[r].outcome = "APPROVED"
    /\ history[r] # <<>> =>
          /\ request[r] # NULL
          /\ request[r].status = history[r][Len(history[r])].newStatus
    /\ \A i \in DOMAIN history[r] :
          /\ history[r][i].changedBy = request[r].owner
          /\ approvalAllowsHandling(request[r])
    /\ (request[r] # NULL /\ request[r].approval # NULL) =>
          /\ request[r].policy # NULL
          /\ request[r].approval = "NOT_REQUIRED" <=> request[r].policy = "NONE"

\* The safety properties say something of each row on its own.
LEMMA SafeByRow ==
    (Safe /\ StateFollowsPolicy) <=> \A r \in Requests : RowSafe(r)
  BY DEF Safe, StateFollowsPolicy, RowSafe, DecisionMatchesState, DecidedByEligible,
         ClaimedAfterApproval, StatusMatchesHistory, WorkedByOwner

\* A row that was created is safe.
LEMMA CreateSafe ==
    ASSUME IInv, NEW r \in Requests, NEW c \in Calls, RowSafe(r), CreatesRow(c, r)
    PROVE  RowSafe(r)'
  <1>1. decision[r] = NULL /\ history[r] = <<>>
    BY DEF RowSafe, CreatesRow
  <1>2. call[c].by \in Employees /\ call[c].seen \in TypeRow
    BY CheckedCallTyped DEF CreatesRow, AtStep, IInv
  <1>3. request'[r] \in RequestRow
    BY <1>2, CompanyAssumption
    DEF CreatesRow, RequestRow, TypeRow, Null, initialApprovalState, ApprovalStates, Statuses
  <1>4. /\ request'[r].approval = initialApprovalState(request'[r].policy)
        /\ request'[r].policy \in Policies
        /\ ~request'[r].claimed
    BY <1>2 DEF CreatesRow, TypeRow
  <1>5. decision'[r] = NULL /\ history'[r] = <<>>
    BY <1>1 DEF CreatesRow
  <1>6. /\ request'[r] # NULL
        /\ request'[r].policy # NULL
        /\ request'[r].approval \notin Outcomes
        /\ request'[r].approval = "NOT_REQUIRED" <=> request'[r].policy = "NONE"
    BY <1>3, <1>4, NullAssumption DEF initialApprovalState, Outcomes
  <1> QED
    BY <1>4, <1>5, <1>6 DEF RowSafe

\* A decision leaves its row safe: the approver is still the one that was eligible.
LEMMA DecideSafe ==
    ASSUME IInv, NEW r \in Requests, NEW c \in Calls, RowSafe(r), DecidesRow(c, r)
    PROVE  RowSafe(r)'
  <1>1. /\ call[c].by \in Employees
        /\ call[c].actor \in EmployeeRow
        /\ call[c].input.outcome \in Outcomes
    BY CheckedCallTyped DEF DecidesRow, AtStep, DecideInput, IInv
  <1>2. DecideStillValid(call[c])
    BY DEF DecidesRow, AtStep, IInv, CheckedStillValid
  <1>3. request[r] \in RequestRow /\ request[r] # NULL
    BY <1>2 DEF DecidesRow, DecideStillValid, IInv, RequestsTypeOK, SharedTypeOK, Null
  <1>4. decision[r] = NULL /\ ~approvalAllowsHandling(request[r])
    BY DEF DecidesRow, StillUndecided, approvalAllowsHandling
  <1>5. history[r] = <<>>
    <2>1. history[r] \in Seq(HistoryRow) /\ DOMAIN history[r] = {}
      BY <1>4 DEF RowSafe, IInv, RequestsTypeOK
    <2>2. Len(history[r]) \in Nat /\ DOMAIN history[r] = 1..Len(history[r])
      BY <2>1, LenProperties
    <2>3. Len(history[r]) = 0
      <3>1. ~(1 <= Len(history[r]))
        BY <2>1, <2>2
      <3> QED
        BY <2>2, <3>1
    <2> QED
      BY <2>1, <2>3, EmptySeq
  <1>6. ~request[r].claimed
    BY <1>2, <1>3, <1>4 DEF RowSafe, DecideStillValid, DecidesRow
  <1>7. request'[r] \in RequestRow
    BY <1>1, <1>3 DEF DecidesRow, RequestRow, Null, Outcomes, ApprovalStates
  <1>8. /\ request'[r] # NULL
        /\ request'[r].approval = call[c].input.outcome
        /\ request'[r].policy = request[r].policy
        /\ request'[r].company = request[r].company
        /\ request'[r].submitter = request[r].submitter
        /\ request'[r].claimed = request[r].claimed
    BY <1>3, <1>7, NullAssumption DEF DecidesRow, RequestRow
  <1>9. decision'[r] # NULL
    <2>1. call[c].actor.role \in Roles
      BY <1>1 DEF EmployeeRow
    <2> QED
      BY <1>1, <2>1, NoRowAssumption DEF DecidesRow, DecisionRow
  <1>10. /\ decision'[r].outcome = call[c].input.outcome
         /\ decision'[r].approver = call[c].by
         /\ decision'[r].approverRole = request'[r].policy
         /\ request'[r].policy \in {"DEPARTMENT_ADMIN", "SUPER_ADMIN"}
         /\ history'[r] = <<>>
    BY <1>2, <1>5, <1>8 DEF DecidesRow, DecideStillValid, RequiresApproval
  <1>11. request'[r].submitter # call[c].by /\ CompanyOf[call[c].by] = request'[r].company
    BY <1>2, <1>8 DEF DecidesRow, DecideStillValid
  <1>12. request'[r].policy # NULL /\ request'[r].approval # "NOT_REQUIRED"
    BY <1>1, <1>8, <1>10, NullAssumption DEF Policies, Outcomes
  <1> QED
    BY <1>6, <1>8, <1>9, <1>10, <1>11, <1>12 DEF RowSafe

\* A claim leaves its row safe: what it was checked for still holds.
LEMMA ClaimSafe ==
    ASSUME IInv, NEW r \in Requests, NEW c \in Calls, RowSafe(r), ClaimsRow(c, r)
    PROVE  RowSafe(r)'
  <1>1. call[c].by \in Employees
    BY CheckedCallTyped DEF ClaimsRow, AtStep, IInv
  <1>2. ClaimStillValid(call[c])
    BY DEF ClaimsRow, AtStep, IInv, CheckedStillValid
  <1>3. request[r] \in RequestRow /\ request[r] # NULL
    BY <1>2 DEF ClaimsRow, ClaimStillValid, IInv, RequestsTypeOK, SharedTypeOK, Null
  <1>4. request'[r] \in RequestRow
    BY <1>1, <1>3 DEF ClaimsRow, RequestRow, Null
  <1>5. /\ request'[r] # NULL
        /\ request'[r].owner = call[c].by
        /\ request'[r].submitter = request[r].submitter
        /\ request'[r].company = request[r].company
        /\ request'[r].policy = request[r].policy
        /\ request'[r].approval = request[r].approval
        /\ request'[r].status = request[r].status
        /\ decision'[r] = decision[r]
        /\ history'[r] = history[r]
    BY <1>3, <1>4, NullAssumption DEF ClaimsRow, RequestRow
  <1>6. /\ request[r].submitter # call[c].by
        /\ request[r].owner = NULL
        /\ CompanyOf[call[c].by] = request[r].company
    BY <1>2 DEF ClaimsRow, StillClaimable, ClaimStillValid
  <1>7. RequiresApproval(request[r].policy) =>
          decision[r] # NULL /\ decision[r].outcome = "APPROVED"
    <2>1. approvalAllowsClaim(request[r])
      BY DEF ClaimsRow, StillClaimable
    <2>2. SUFFICES ASSUME RequiresApproval(request[r].policy)
                   PROVE  request[r].approval = "APPROVED"
      BY <1>3 DEF RowSafe, Outcomes
    <2> QED
      BY <1>3, <2>1, <2>2, NullAssumption
      DEF approvalAllowsClaim, RequiresApproval, RowSafe, Policies, ApprovalStates
  <1>8. \A i \in DOMAIN history[r] : FALSE
    <2> SUFFICES ASSUME NEW i \in DOMAIN history[r]
                 PROVE  FALSE
      OBVIOUS
    <2>1. history[r] \in Seq(HistoryRow)
      BY DEF IInv, RequestsTypeOK
    <2>2. history[r][i] \in HistoryRow
      BY <2>1, ElementOfSeq
    <2>3. history[r][i].changedBy \in Employees
      BY <2>2 DEF HistoryRow
    <2> QED
      BY <1>6, <2>3, NullAssumption DEF RowSafe
  <1> QED
    BY <1>1, <1>3, <1>5, <1>6, <1>7, <1>8 DEF RowSafe

\* A transition leaves its row safe: its author is still the owner.
LEMMA MoveSafe ==
    ASSUME IInv, NEW r \in Requests, NEW c \in Calls, RowSafe(r), MovesRow(c, r)
    PROVE  RowSafe(r)'
  <1>1. /\ call[c].by \in Employees
        /\ call[c].input.to \in Statuses
        /\ call[c].seen.status \in Statuses
    BY CheckedCallTyped DEF MovesRow, AtStep, TransitionInput, RequestRow, Statuses, IInv
  <1>2. TransitionStillValid(call[c])
    BY DEF MovesRow, AtStep, IInv, CheckedStillValid
  <1>3. request[r] \in RequestRow /\ request[r] # NULL
    BY <1>2 DEF MovesRow, TransitionStillValid, IInv, RequestsTypeOK, SharedTypeOK, Null
  <1>4. request'[r] \in RequestRow
    BY <1>1, <1>3 DEF MovesRow, RequestRow, Null
  <1>5. /\ request'[r] # NULL
        /\ request'[r].owner = request[r].owner
        /\ request'[r].submitter = request[r].submitter
        /\ request'[r].company = request[r].company
        /\ request'[r].policy = request[r].policy
        /\ request'[r].approval = request[r].approval
        /\ request'[r].claimed = request[r].claimed
        /\ request'[r].status = call[c].input.to
        /\ decision'[r] = decision[r]
    BY <1>3, <1>4, NullAssumption DEF MovesRow, RequestRow
  <1> DEFINE row == [previousStatus |-> call[c].seen.status,
                     newStatus |-> call[c].input.to, changedBy |-> call[c].by]
  <1>6. row \in HistoryRow /\ row.newStatus = call[c].input.to /\ row.changedBy = call[c].by
    BY <1>1 DEF HistoryRow
  <1>7. history'[r] = Append(history[r], row)
    BY DEF MovesRow
  <1>8. history[r] \in Seq(HistoryRow)
    BY DEF IInv, RequestsTypeOK
  <1> HIDE DEF row
  <1>9. /\ history'[r] # <<>>
        /\ history'[r][Len(history'[r])] = row
        /\ \A i \in DOMAIN history'[r] : i \in DOMAIN history[r] \/ history'[r][i] = row
        /\ \A i \in DOMAIN history[r] : history'[r][i] = history[r][i]
    BY <1>6, <1>7, <1>8
  <1>10. approvalAllowsHandling(request[r]) /\ request[r].owner = call[c].by
    BY <1>2 DEF MovesRow, TransitionStillValid
  <1>11. approvalAllowsHandling(request'[r])
    BY <1>5, <1>10
    DEF approvalAllowsHandling, awaitingApprovalDecision, legacyApprovalStillRequired
  <1>12. \A i \in DOMAIN history'[r] : history'[r][i].changedBy = request'[r].owner
    BY <1>5, <1>6, <1>9, <1>10 DEF RowSafe
  <1>13. request'[r].status = history'[r][Len(history'[r])].newStatus
    BY <1>5, <1>6, <1>9
  <1> QED
    BY <1>3, <1>5, <1>11, <1>12, <1>13 DEF RowSafe

\* Every step of every call keeps the inductive invariant.
LEMMA StepKeepsIInv ==
    ASSUME IInv, RequestsNext
    PROVE  IInv'
  <1>1. RequestsTypeOK'
    BY StepTyped DEF IInv
  <1>2. CheckedStillValid'
    BY StepKeepsChecked
  <1>3. ASSUME NEW r \in Requests
        PROVE  RowSafe(r)'
    <2>1. RowSafe(r)
      BY SafeByRow DEF IInv
    <2>2. CASE RowUnchanged(r)
      BY <2>1, <2>2 DEF RowSafe, RowUnchanged
    <2> QED
      BY <2>1, <2>2, RowSteps, CreateSafe, DecideSafe, ClaimSafe, MoveSafe
  <1>4. (Safe /\ StateFollowsPolicy)'
    BY <1>3 DEF RowSafe, Safe, StateFollowsPolicy, DecisionMatchesState, DecidedByEligible,
                ClaimedAfterApproval, StatusMatchesHistory, WorkedByOwner
  <1> QED
    BY <1>1, <1>2, <1>4 DEF IInv

\* The start has no call, no decision and no history: nothing is claimed.
LEMMA InitIInv == SharedInit /\ RequestsInit => IInv
  <1> SUFFICES ASSUME SharedInit, RequestsInit
               PROVE  IInv
    OBVIOUS
  <1>1. RequestsTypeOK
    BY InitTyped
  <1>2. ASSUME NEW r \in Requests
        PROVE  RowSafe(r)
    <2>1. request[r] # NULL => request[r].approval = NULL /\ ~request[r].claimed
      BY InitialAssumption DEF SharedInit, LegacyRequestRow, Null
    <2>2. NULL \notin Outcomes
      BY NullAssumption DEF Outcomes, ApprovalStates
    <2> QED
      BY <2>1, <2>2 DEF RowSafe, RequestsInit
  <1>3. CheckedStillValid
    BY DEF CheckedStillValid, RequestsInit
  <1> QED
    BY <1>1, <1>2, <1>3, SafeByRow DEF IInv

\* Steps that leave the tables of requests alone and at most lose calls.
LEMMA RestKeepsIInv ==
    ASSUME IInv, RequestsTypeOK',
           UNCHANGED <<request, decision, history>>,
           call' = call \/ call' = [c \in Calls |-> NULL]
    PROVE  IInv'
  <1>1. (Safe /\ StateFollowsPolicy)'
    BY DEF IInv, Safe, StateFollowsPolicy, DecisionMatchesState, DecidedByEligible,
           ClaimedAfterApproval, StatusMatchesHistory, WorkedByOwner
  <1>2. CheckedStillValid'
    BY DEF IInv, CheckedStillValid, DecideStillValid, ClaimStillValid, TransitionStillValid
  <1> QED
    BY <1>1, <1>2 DEF IInv

\* The strengthening holds in every state of the service.
THEOREM Invariance == RequestsSpec => []IInv
  <1>1. SharedInit /\ RequestsInit => IInv
    BY InitIInv
  <1>2. IInv /\ [RequestsNext \/ Restart]_requestsVars => IInv'
    <2>1. IInv /\ RequestsNext => IInv'
      BY StepKeepsIInv
    <2>2. ASSUME IInv, Restart
          PROVE  IInv'
      <3>1. RequestsTypeOK'
        BY <2>2, RestartTyped DEF Restart, IInv
      <3> QED
        BY <2>2, <3>1, RestKeepsIInv DEF Restart, ForgetCalls, sharedVars
    <2>3. ASSUME IInv, UNCHANGED requestsVars
          PROVE  IInv'
      <3>1. RequestsTypeOK'
        BY <2>3
        DEF IInv, RequestsTypeOK, SharedTypeOK, requestsVars, sharedVars, requestVars
      <3> QED
        BY <2>3, <3>1, RestKeepsIInv DEF requestsVars, sharedVars, requestVars
    <2> QED
      BY <2>1, <2>2, <2>3
  <1> QED
    BY <1>1, <1>2, PTL DEF RequestsSpec, RequestServiceInit

-----------------------------------------------------------------------------
(* The properties, for any number of accounts, requests and calls. *)

\* Every table and every call in flight holds rows of its own shape.
THEOREM Typed == RequestsSpec => []RequestsTypeOK
  <1>1. IInv => RequestsTypeOK
    BY DEF IInv
  <1> QED
    BY <1>1, Invariance, PTL

\* Approval state and audit row agree, and whoever decided was entitled to
\* (RequestsService.decide).
THEOREM DecisionsAreSound == RequestsSpec => [](DecisionMatchesState /\ DecidedByEligible)
  <1>1. IInv => DecisionMatchesState /\ DecidedByEligible
    BY DEF IInv, Safe
  <1> QED
    BY <1>1, Invariance, PTL

\* Nobody claims a request before the approval it asks for
\* (RequestsService.claim).
THEOREM ApprovalBeforeClaim == RequestsSpec => []ClaimedAfterApproval
  <1>1. IInv => ClaimedAfterApproval
    BY DEF IInv, Safe
  <1> QED
    BY <1>1, Invariance, PTL

\* The last history row of a request announces its status (RequestsService.transition).
THEOREM HistoryIsSound == RequestsSpec => []StatusMatchesHistory
  <1>1. IInv => StatusMatchesHistory
    BY DEF IInv, Safe
  <1> QED
    BY <1>1, Invariance, PTL

\* Nobody but the owner moves a request (assertCanTransition).
THEOREM OnlyTheOwnerWorks == RequestsSpec => []WorkedByOwner
  <1>1. IInv => WorkedByOwner
    BY DEF IInv, Safe
  <1> QED
    BY <1>1, Invariance, PTL

\* Of several decisions and claims that race, one wins (the conditional updates of
\* decide and claim).
THEOREM OneWins == RequestsSpec => FirstWins
  <1> DEFINE Kept(r) ==
        /\ decision[r] # NULL => decision'[r] = decision[r]
        /\ (request[r] # NULL /\ request[r].owner # NULL) =>
              request'[r].owner = request[r].owner
  <1>1. IInv /\ [RequestsNext \/ Restart]_requestsVars =>
          [\A r \in Requests : Kept(r)]_requestsVars
    <2>1. ASSUME IInv, RequestsNext, NEW r \in Requests
          PROVE  Kept(r)
      <3>1. (request[r] # NULL /\ request[r].owner # NULL) =>
              request'[r].owner = request[r].owner
        BY <2>1, RowsKept DEF RowKept
      <3>2. decision[r] # NULL => decision'[r] = decision[r]
        BY <2>1, RowSteps
        DEF RowUnchanged, CreatesRow, DecidesRow, ClaimsRow, MovesRow, StillUndecided
      <3> QED
        BY <3>1, <3>2
    <2>2. ASSUME Restart, NEW r \in Requests
          PROVE  Kept(r)
      BY <2>2 DEF Restart, ForgetCalls, sharedVars
    <2> QED
      BY <2>1, <2>2
  <1> QED
    BY <1>1, Invariance, PTL DEF RequestsSpec, FirstWins

\* A denied request stays as it is (assertClaimApproval,
\* assertApprovalAllowsHandling).
THEOREM DenialIsFinal == RequestsSpec => DeniedIsDead
  <1> DEFINE Dead(r) ==
        (request[r] # NULL /\ request[r].approval = "DENIED") =>
            request'[r] = request[r] /\ history'[r] = history[r]
  <1>1. IInv /\ [RequestsNext \/ Restart]_requestsVars =>
          [\A r \in Requests : Dead(r)]_requestsVars
    <2>1. ASSUME IInv, RequestsNext, NEW r \in Requests
          PROVE  Dead(r)
      <3> SUFFICES ASSUME request[r] # NULL, request[r].approval = "DENIED"
                   PROVE  RowUnchanged(r)
        BY DEF RowUnchanged
      <3>1. /\ ~awaitingApprovalDecision(request[r])
            /\ ~approvalAllowsClaim(request[r])
            /\ ~approvalAllowsHandling(request[r])
        BY NullAssumption
        DEF awaitingApprovalDecision, legacyApprovalStillRequired, approvalAllowsClaim,
            approvalAllowsHandling, ApprovalStates
      <3>2. ASSUME NEW c \in Calls, MovesRow(c, r)
            PROVE  FALSE
        BY <2>1, <3>1, <3>2
        DEF MovesRow, AtStep, IInv, CheckedStillValid, TransitionStillValid
      <3> QED
        BY <2>1, <3>1, <3>2, RowSteps
        DEF CreatesRow, DecidesRow, ClaimsRow, StillUndecided, StillClaimable
    <2>2. ASSUME Restart, NEW r \in Requests
          PROVE  Dead(r)
      BY <2>2 DEF Restart, ForgetCalls, sharedVars
    <2> QED
      BY <2>1, <2>2
  <1> QED
    BY <1>1, Invariance, PTL DEF RequestsSpec, DeniedIsDead

-----------------------------------------------------------------------------
(* The service implements RequestLifecycle. *)

stageMap == [r \in Requests |-> stageOf(r)]
holderMap == [r \in Requests |-> ownerOf(r)]
workMap == [r \in Requests |-> statusOf(r)]

\* A step changes the rows of one request at most.
LEMMA OneRowChanges ==
    ASSUME IInv, IInv', RequestsNext
    PROVE  \/ request' = request
           \/ \E r \in Requests :
                 /\ ~RowUnchanged(r)
                 /\ \A q \in Requests \ {r} : request'[q] = request[q]
  <1> USE DEF IInv, RequestsTypeOK, SharedTypeOK
  <1> DEFINE OnlyAt(r) == \A q \in Requests \ {r} : request'[q] = request[q]
  <1>1. ASSUME NEW r \in Requests, OnlyAt(r), RowUnchanged(r)
        PROVE  request' = request
    BY <1>1 DEF RowUnchanged
  <1>2. ASSUME NEW c \in Calls, CreateWrite(c)
        PROVE  \E r \in Requests : OnlyAt(r)
    BY <1>2 DEF CreateWrite
  <1>3. ASSUME NEW c \in Calls, DecideWrite(c) \/ ClaimWrite(c) \/ TransitionWrite(c)
        PROVE  \E r \in Requests : OnlyAt(r)
    <2>1. call[c].input.req \in Requests
      BY <1>3, CheckedCallTyped
      DEF DecideWrite, ClaimWrite, TransitionWrite, AtStep, DecideInput, ClaimInput,
          TransitionInput
    <2>2. OnlyAt(call[c].input.req)
      BY <1>3, <2>1 DEF DecideWrite, ClaimWrite, TransitionWrite
    <2> QED
      BY <2>1, <2>2
  <1>4. ASSUME NEW c \in Calls, CallStep(c)
        PROVE  request' = request \/ \E r \in Requests : OnlyAt(r)
    BY <1>2, <1>3, <1>4
    DEF CallStep, requireActor, CreateRead, DecideRead, ClaimRead, TransitionRead, Checked,
        DecideConflict, ClaimConflict, Refuse, sharedVars
  <1>5. request' = request \/ \E r \in Requests : OnlyAt(r)
    BY <1>4 DEF RequestsNext, Begin, sharedVars
  <1> QED
    BY <1>1, <1>5

\* The writes of a row are the steps of its abstract life.
LEMMA RowImplements ==
    ASSUME IInv, IInv', NEW r \in Requests, NEW c \in Calls,
           \A q \in Requests \ {r} : request'[q] = request[q]
    PROVE  /\ CreatesRow(c, r) => Promise!Submit(r)
           /\ DecidesRow(c, r) => Promise!Rule(r)
           /\ ClaimsRow(c, r) => \E e \in Employees : Promise!Take(r, e)
           /\ MovesRow(c, r) => Promise!Progress(r)
  <1> USE DEF stageMap, holderMap, workMap
  <1>1. /\ stageMap' = [stageMap EXCEPT ![r] = stageOf(r)']
        /\ holderMap' = [holderMap EXCEPT ![r] = ownerOf(r)']
        /\ workMap' = [workMap EXCEPT ![r] = statusOf(r)']
    BY DEF stageOf, ownerOf, statusOf
  <1>2. ASSUME CreatesRow(c, r)
        PROVE  Promise!Submit(r)
    <2>1. call[c].by \in Employees /\ call[c].seen \in TypeRow
      BY <1>2, CheckedCallTyped DEF CreatesRow, AtStep, IInv
    <2>2. request'[r] \in RequestRow
      BY <1>2, <2>1, CompanyAssumption
      DEF CreatesRow, RequestRow, TypeRow, Null, initialApprovalState, ApprovalStates, Statuses
    <2>3. request'[r] # NULL
      BY <2>2, NullAssumption
    <2>4. stageMap[r] = "absent"
      BY <1>2 DEF CreatesRow, stageOf
    <2>5. stageOf(r)' \in {"waiting", "open"}
      BY <1>2, <2>3, NullAssumption
      DEF CreatesRow, stageOf, awaitingApprovalDecision, legacyApprovalStillRequired,
          initialApprovalState, ApprovalStates
    <2>6. ownerOf(r)' = NULL /\ statusOf(r)' = "SUBMITTED"
      BY <1>2, <2>3 DEF CreatesRow, ownerOf, statusOf
    <2> QED
      BY <1>1, <2>4, <2>5, <2>6 DEF Promise!Submit
  <1>3. ASSUME DecidesRow(c, r)
        PROVE  Promise!Rule(r)
    <2>1. call[c].input.outcome \in Outcomes /\ DecideStillValid(call[c])
      BY <1>3, CheckedCallTyped
      DEF DecidesRow, AtStep, DecideInput, IInv, CheckedStillValid
    <2>2. request[r] \in RequestRow /\ request[r] # NULL
      BY <1>3, <2>1
      DEF DecidesRow, DecideStillValid, IInv, RequestsTypeOK, SharedTypeOK, Null
    <2>3. request'[r] \in RequestRow
      BY <1>3, <2>1, <2>2 DEF DecidesRow, RequestRow, Null, Outcomes, ApprovalStates
    <2>4. /\ request'[r] # NULL
          /\ request'[r].approval = call[c].input.outcome
          /\ request'[r].owner = request[r].owner
          /\ request'[r].status = request[r].status
      BY <1>3, <2>2, <2>3, NullAssumption DEF DecidesRow, RequestRow
    <2>5. stageMap[r] = "waiting"
      BY <1>3, <2>2 DEF DecidesRow, StillUndecided, stageOf
    <2>6. stageOf(r)' \in {"open", "denied"}
      BY <2>1, <2>4, NullAssumption
      DEF stageOf, awaitingApprovalDecision, legacyApprovalStillRequired, Outcomes,
          ApprovalStates
    <2>7. ownerOf(r)' = ownerOf(r) /\ statusOf(r)' = statusOf(r)
      BY <2>2, <2>4 DEF ownerOf, statusOf
    <2>8. holderMap' = holderMap /\ workMap' = workMap
      BY <1>1, <2>7
    <2> QED
      BY <1>1, <2>5, <2>6, <2>8 DEF Promise!Rule
  <1>4. ASSUME ClaimsRow(c, r)
        PROVE  \E e \in Employees : Promise!Take(r, e)
    <2>1. call[c].by \in Employees /\ ClaimStillValid(call[c])
      BY <1>4, CheckedCallTyped DEF ClaimsRow, AtStep, IInv, CheckedStillValid
    <2>2. request[r] \in RequestRow /\ request[r] # NULL
      BY <1>4, <2>1
      DEF ClaimsRow, ClaimStillValid, IInv, RequestsTypeOK, SharedTypeOK, Null
    <2>3. request'[r] \in RequestRow
      BY <1>4, <2>1, <2>2 DEF ClaimsRow, RequestRow, Null
    <2>4. /\ request'[r] # NULL
          /\ request'[r].owner = call[c].by
          /\ request'[r].approval = request[r].approval
          /\ request'[r].policy = request[r].policy
          /\ request'[r].status = request[r].status
      BY <1>4, <2>2, <2>3, NullAssumption DEF ClaimsRow, RequestRow
    <2>5. stageMap[r] = "open" /\ holderMap[r] = NULL
      BY <1>4, <2>2, NullAssumption
      DEF ClaimsRow, StillClaimable, stageOf, ownerOf, approvalAllowsClaim,
          awaitingApprovalDecision, legacyApprovalStillRequired, RequiresApproval, Policies,
          ApprovalStates
    <2>6. stageOf(r)' = stageOf(r) /\ statusOf(r)' = statusOf(r) /\ ownerOf(r)' = call[c].by
      BY <2>2, <2>4
      DEF stageOf, statusOf, ownerOf, awaitingApprovalDecision, legacyApprovalStillRequired
    <2>7. stageMap' = stageMap /\ workMap' = workMap
      BY <1>1, <2>6
    <2> QED
      BY <1>1, <2>1, <2>5, <2>6, <2>7 DEF Promise!Take
  <1>5. ASSUME MovesRow(c, r)
        PROVE  Promise!Progress(r)
    <2>1. /\ call[c].by \in Employees
          /\ call[c].input.to \in {"IN_PROGRESS", "COMPLETED"}
          /\ TransitionStillValid(call[c])
      BY <1>5, CheckedCallTyped
      DEF MovesRow, AtStep, TransitionInput, IInv, CheckedStillValid
    <2>2. request[r] \in RequestRow /\ request[r] # NULL
      BY <1>5, <2>1
      DEF MovesRow, TransitionStillValid, IInv, RequestsTypeOK, SharedTypeOK, Null
    <2>3. request'[r] \in RequestRow
      BY <1>5, <2>1, <2>2 DEF MovesRow, RequestRow, Null, Statuses
    <2>4. /\ request'[r] # NULL
          /\ request'[r].owner = request[r].owner
          /\ request'[r].approval = request[r].approval
          /\ request'[r].policy = request[r].policy
          /\ request'[r].status = call[c].input.to
      BY <1>5, <2>2, <2>3, NullAssumption DEF MovesRow, RequestRow
    <2>5. stageMap[r] = "open" /\ holderMap[r] # NULL
      BY <1>5, <2>1, <2>2, NullAssumption
      DEF MovesRow, TransitionStillValid, stageOf, ownerOf, approvalAllowsHandling
    <2>6. /\ stageOf(r)' = stageOf(r)
          /\ ownerOf(r)' = ownerOf(r)
          /\ statusOf(r)' = call[c].input.to
      BY <2>2, <2>4
      DEF stageOf, statusOf, ownerOf, awaitingApprovalDecision, legacyApprovalStillRequired
    <2>7. stageMap' = stageMap /\ holderMap' = holderMap
      BY <1>1, <2>6
    <2> QED
      BY <1>1, <2>1, <2>5, <2>6, <2>7 DEF Promise!Progress, Promise!Work
  <1> QED
    BY <1>2, <1>3, <1>4, <1>5

\* Every step maps to a step of the abstract life cycle or to none.
LEMMA StepImplements ==
    ASSUME IInv, IInv', RequestsNext
    PROVE  [Promise!LifecycleNext]_(Promise!lifecycleVars)
  <1>1. CASE request' = request
    BY <1>1 DEF Promise!lifecycleVars, stageOf, ownerOf, statusOf
  <1>2. CASE \E r \in Requests :
               /\ ~RowUnchanged(r)
               /\ \A q \in Requests \ {r} : request'[q] = request[q]
    <2>1. PICK r \in Requests :
            /\ ~RowUnchanged(r)
            /\ \A q \in Requests \ {r} : request'[q] = request[q]
      BY <1>2
    <2>2. PICK c \in Calls :
            CreatesRow(c, r) \/ DecidesRow(c, r) \/ ClaimsRow(c, r) \/ MovesRow(c, r)
      BY <2>1, RowSteps
    <2>3. \/ Promise!Submit(r) \/ Promise!Rule(r) \/ Promise!Progress(r)
          \/ \E e \in Employees : Promise!Take(r, e)
      BY <2>1, <2>2, RowImplements
    <2> QED
      BY <2>3 DEF Promise!LifecycleNext
  <1> QED
    BY <1>1, <1>2, OneRowChanges

\* The tables at the start are a start of the abstract life cycle.
LEMMA InitImplements == SharedInit /\ RequestsInit => Promise!LifecycleInit
  <1> SUFFICES ASSUME SharedInit
               PROVE  Promise!LifecycleInit
    OBVIOUS
  <1>1. ASSUME NEW r \in Requests
        PROVE  /\ stageOf(r) \in Promise!Stages \ {"denied"}
               /\ ownerOf(r) \in Employees \cup {NULL}
               /\ statusOf(r) \in Promise!Work
    <2>1. request[r] # NULL => request[r] \in RequestRow /\ request[r].approval = NULL
      BY InitialAssumption DEF SharedInit, LegacyRequestRow, Null
    <2> QED
      BY <2>1, NullAssumption
      DEF stageOf, ownerOf, statusOf, RequestRow, Null, Statuses, ApprovalStates,
          Promise!Stages, Promise!Work
  <1> QED
    BY <1>1 DEF Promise!LifecycleInit

\* The service keeps the promise of RequestLifecycle, for any number of calls in
\* flight and across restarts.
THEOREM Implements == RequestsSpec => KeepsPromise
  <1>1. SharedInit /\ RequestsInit => Promise!LifecycleInit
    BY InitImplements
  <1>2. IInv /\ IInv' /\ [RequestsNext \/ Restart]_requestsVars =>
          [Promise!LifecycleNext]_(Promise!lifecycleVars)
    <2>1. IInv /\ IInv' /\ RequestsNext =>
            [Promise!LifecycleNext]_(Promise!lifecycleVars)
      BY StepImplements
    <2>2. ASSUME request' = request
          PROVE  UNCHANGED Promise!lifecycleVars
      BY <2>2 DEF Promise!lifecycleVars, stageOf, ownerOf, statusOf
    <2> QED
      BY <2>1, <2>2 DEF Restart, requestsVars, sharedVars
  <1> QED
    BY <1>1, <1>2, Invariance, PTL
    DEF RequestsSpec, RequestServiceInit, KeepsPromise, Promise!LifecycleSpec
=============================================================================
