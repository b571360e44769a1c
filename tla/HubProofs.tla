------------------------------ MODULE HubProofs ------------------------------
(***************************************************************************)
(* Account administration, the two services together, and what the pages   *)
(* show of them.  Requests are decided, claimed and worked on while        *)
(* accounts are edited, removed and brought back: what the request service *)
(* promises holds, administration breaks its own promises by races only,   *)
(* and the lists, buttons and stages agree with what the server accepts.   *)
(***************************************************************************)
EXTENDS HubViews, StaffHistory, RequestsProofs, FiniteSetTheorems

-----------------------------------------------------------------------------
(* Types of the administrative side. *)

\* An administrative call in flight, by its step.
LEMMA AdminCallTyped ==
    ASSUME StaffTypeOK, NEW k \in AdminCalls, adminCall[k] # NULL
    PROVE  /\ adminCall[k] \in AdminCall
           /\ adminCall[k].input \in AdminInput
           /\ adminCall[k].input.target \in Employees
           /\ adminCall[k].by \in Employees
           /\ adminCall[k].actor \in EmployeeRow
           /\ adminCall[k].step \in {"read", "counted", "cleared", "written"} =>
                adminCall[k].existing \in EmployeeRow
  <1>1. adminCall[k] \in AdminCall
    BY DEF StaffTypeOK, Null
  <1>2. adminCall[k].input \in AdminInput
    BY <1>1 DEF AdminCall
  <1>3. adminCall[k].input.target \in Employees
    BY <1>2 DEF AdminInput
  <1> QED
    BY <1>1, <1>2, <1>3 DEF AdminCall

\* The whole-row write of updateCompanyEmployee is a row.
LEMMA EditedRowTyped ==
    ASSUME NEW existing \in EmployeeRow, NEW edit \in Edit
    PROVE  EditedRow(existing, edit) \in EmployeeRow
  <1>1. Given(edit.role, existing.role) \in Roles
    BY DEF Given, Edit, Optional, EmployeeRow
  <1>2. Given(edit.dept, existing.dept) \in Null(Departments)
    BY DEF Given, Edit, Optional, EmployeeRow
  <1>3. Given(edit.active, existing.active) \in BOOLEAN
    BY DEF Given, Edit, Optional, EmployeeRow
  <1>4. \A role, flag : storedCanHandle(role, flag) \in BOOLEAN
    BY DEF storedCanHandle
  <1> QED
    BY <1>1, <1>2, <1>3, <1>4 DEF EditedRow, EmployeeRow

\* Advancing a call keeps its shape.
LEMMA AdminGoesTyped ==
    ASSUME StaffTypeOK, NEW k \in AdminCalls,
           AdminAt(k, "read") \/ AdminAt(k, "counted") \/ AdminAt(k, "cleared"),
           NEW step \in {"counted", "cleared", "written"}, AdminGoes(k, step)
    PROVE  adminCall' \in [AdminCalls -> Null(AdminCall)] /\ signingIn' \subseteq Employees
  <1>1. [adminCall[k] EXCEPT !.step = step] \in AdminCall
    <2>1. adminCall[k] \in [input: AdminInput, by: Employees, actor: EmployeeRow,
              step: {"read", "counted", "cleared", "written"}, existing: EmployeeRow]
      BY AdminCallTyped DEF AdminAt, AdminCall
    <2> QED
      BY <2>1 DEF AdminCall
  <1> QED
    BY <1>1 DEF AdminGoes, StaffTypeOK, Null

\* A call that ends leaves calls and logins of the same shape.
LEMMA AdminDoneTyped ==
    ASSUME StaffTypeOK, NEW k \in AdminCalls, AdminDone(k)
    PROVE  adminCall' \in [AdminCalls -> Null(AdminCall)] /\ signingIn' \subseteq Employees
  BY DEF AdminDone, StaffTypeOK, Null

\* Administration keeps the shape of the tables and of its own calls, and never
\* touches a request or a request type.
LEMMA StaffStep ==
    ASSUME StaffTypeOK, StaffNext
    PROVE  StaffTypeOK' /\ UNCHANGED <<request, requestType>>
  <1> USE DEF StaffTypeOK, SharedTypeOK
  <1> DEFINE Goal == StaffTypeOK' /\ UNCHANGED <<request, requestType>>
  <1>1. ASSUME NEW k \in AdminCalls, NEW e \in Employees, NEW input \in AdminInputs,
               AdminBegin(k, e, input)
        PROVE  Goal
    <2>1. employee[e] \in EmployeeRow /\ input \in AdminInput
      BY AdminInputsAssumption
    <2>2. [input |-> input, by |-> e, actor |-> employee[e], step |-> "begun"] \in AdminCall
      BY <2>1 DEF AdminCall
    <2> QED
      BY <1>1, <2>2 DEF AdminBegin, sharedVars, Null
  <1>2. ASSUME NEW k \in AdminCalls, AdminRead(k)
        PROVE  Goal
    <2>1. /\ adminCall[k].input \in AdminInput
          /\ adminCall[k].by \in Employees
          /\ adminCall[k].actor \in EmployeeRow
          /\ employee[adminCall[k].input.target] \in EmployeeRow
      BY <1>2, AdminCallTyped DEF AdminRead, AdminAt
    <2>2. [input |-> adminCall[k].input, by |-> adminCall[k].by,
           actor |-> adminCall[k].actor, step |-> "read",
           existing |-> employee[adminCall[k].input.target]] \in AdminCall
      BY <2>1 DEF AdminCall
    <2> QED
      BY <1>2, <2>2 DEF AdminRead, sharedVars, Null
  <1>3. ASSUME NEW k \in AdminCalls,
               assertAnotherActiveSuperAdmin(k) \/ assertNoUnfinishedWork(k)
        PROVE  Goal
    BY <1>3, AdminGoesTyped
    DEF assertAnotherActiveSuperAdmin, assertNoUnfinishedWork, sharedVars
  <1>4. ASSUME NEW k \in AdminCalls, AdminWrite(k)
        PROVE  Goal
    <2> DEFINE input == adminCall[k].input
               existing == adminCall[k].existing
    <2>1. /\ input \in AdminInput
          /\ input.target \in Employees
          /\ existing \in EmployeeRow
      BY <1>4, AdminCallTyped DEF AdminWrite, AdminAt
    <2>2. employee' \in [Employees -> EmployeeRow]
      <3>1. CASE input.op = "update"
        <4>1. input.edit \in Edit
          BY <2>1, <3>1 DEF AdminInput
        <4>2. EditedRow(existing, input.edit) \in EmployeeRow
          BY <2>1, <4>1, EditedRowTyped
        <4> QED
          BY <1>4, <3>1, <4>2 DEF AdminWrite
      <3>2. CASE input.op = "departmentUpdate"
        <4>1. storedCanHandle(existing.role, input.canHandle) \in BOOLEAN
          BY DEF storedCanHandle
        <4>2. employee' = [employee EXCEPT ![input.target].canHandle =
                             storedCanHandle(existing.role, input.canHandle)]
          BY <1>4, <3>2 DEF AdminWrite
        <4> QED
          BY <2>1, <4>1, <4>2 DEF EmployeeRow
      <3>3. CASE input.op \notin {"update", "departmentUpdate"}
        <4>1. employee' = [employee EXCEPT ![input.target].active = FALSE]
          BY <1>4, <3>3 DEF AdminWrite
        <4> QED
          BY <2>1, <4>1 DEF EmployeeRow
      <3> QED
        BY <3>1, <3>2, <3>3
    <2>3. AdminGoes(k, "written") \/ AdminDone(k)
      BY <1>4 DEF AdminWrite
    <2>4. adminCall' \in [AdminCalls -> Null(AdminCall)] /\ signingIn' \subseteq Employees
      BY <1>4, <2>3, AdminGoesTyped, AdminDoneTyped DEF AdminWrite
    <2> QED
      BY <1>4, <2>2, <2>4 DEF AdminWrite
  <1>5. ASSUME NEW k \in AdminCalls, revokeAccess(k)
        PROVE  Goal
    BY <1>5, AdminDoneTyped DEF revokeAccess
  <1>6. ASSUME NEW k \in AdminCalls, AdminRefuse(k)
        PROVE  Goal
    BY <1>6, AdminDoneTyped DEF AdminRefuse, sharedVars
  <1>7. ASSUME NEW e \in Employees, acceptInvitation(e)
        PROVE  Goal
    <2>1. employee' \in [Employees -> EmployeeRow]
      BY <1>7 DEF acceptInvitation, EmployeeRow
    <2> QED
      BY <1>7, <2>1 DEF acceptInvitation, staffOnlyVars
  <1>8. ASSUME NEW e \in Employees, LoginRead(e) \/ LoginWrite(e)
        PROVE  Goal
    BY <1>8 DEF LoginRead, LoginWrite, sharedVars
  <1> QED
    BY <1>1, <1>2, <1>3, <1>4, <1>5, <1>6, <1>7, <1>8 DEF StaffNext, AdminStep

\* Administration starts with rows of the right shape.
LEMMA StaffInitTyped == StaffServiceInit => StaffTypeOK
  BY InitialAssumption
  DEF StaffServiceInit, SharedInit, StaffInit, StaffTypeOK, SharedTypeOK, LegacyRequestRow, Null

\* A restart and a step of something else keep the shapes and the requests too.
LEMMA StaffIdles ==
    ASSUME StaffTypeOK, StaffRestart \/ UNCHANGED staffVars
    PROVE  StaffTypeOK' /\ UNCHANGED <<request, requestType>>
  BY DEF StaffTypeOK, SharedTypeOK, StaffRestart, ForgetAdminCalls, staffVars, staffOnlyVars,
         sharedVars, Null

\* Every account and administrative call in flight holds rows of its own shape, for
\* any number of calls at once (the Prisma schema, AdminService).
THEOREM StaffTyped == StaffSpec => []StaffTypeOK
  <1>1. StaffServiceInit => StaffTypeOK
    BY StaffInitTyped
  <1>2. StaffTypeOK /\ [StaffNext \/ StaffRestart]_staffVars => StaffTypeOK'
    BY StaffStep, StaffIdles
  <1> QED
    BY <1>1, <1>2, PTL DEF StaffSpec

-----------------------------------------------------------------------------
(* How an administrative call moves. *)

\* Advancing a call changes its step and no other call.
LEMMA AdminGoesKeeps ==
    ASSUME StaffTypeOK, NEW k \in AdminCalls, HasRead(k), NEW step, AdminGoes(k, step)
    PROVE  /\ adminCall'[k].input = adminCall[k].input
           /\ adminCall'[k].by = adminCall[k].by
           /\ adminCall'[k].existing = adminCall[k].existing
           /\ adminCall'[k].step = step
           /\ \A j \in AdminCalls \ {k} : adminCall'[j] = adminCall[j]
  <1>1. adminCall[k] \in [input: AdminInput, by: Employees, actor: EmployeeRow,
            step: {"read", "counted", "cleared", "written"}, existing: EmployeeRow]
    BY AdminCallTyped DEF HasRead, AdminAt, AdminCall
  <1> QED
    BY <1>1 DEF AdminGoes, StaffTypeOK

\* A call that has read its row was left alone by the step, or did one of the
\* three steps up to the write.
LEMMA ReadersMove ==
    ASSUME StaffTypeOK, [StaffNext \/ StaffRestart]_staffVars,
           NEW k \in AdminCalls, HasRead(k)'
    PROVE  \/ adminCall'[k] = adminCall[k]
           \/ AdminRead(k)
           \/ assertAnotherActiveSuperAdmin(k)
           \/ assertNoUnfinishedWork(k)
  <1> USE DEF StaffTypeOK
  <1> DEFINE Goal == \/ adminCall'[k] = adminCall[k]
                     \/ AdminRead(k)
                     \/ assertAnotherActiveSuperAdmin(k)
                     \/ assertNoUnfinishedWork(k)
  <1>1. ASSUME NEW j \in AdminCalls, NEW e \in Employees, NEW input \in AdminInputs,
               AdminBegin(j, e, input)
        PROVE  Goal
    <2>1. j = k => adminCall'[k].step = "begun"
      BY <1>1 DEF AdminBegin
    <2> QED
      BY <1>1, <2>1 DEF AdminBegin, HasRead, AdminAt
  <1>2. ASSUME NEW j \in AdminCalls, j # k, AdminStep(j)
        PROVE  adminCall'[k] = adminCall[k]
    BY <1>2
    DEF AdminStep, AdminRead, assertAnotherActiveSuperAdmin, assertNoUnfinishedWork,
        AdminWrite, revokeAccess, AdminRefuse, AdminGoes, AdminDone
  <1>3. ASSUME AdminStep(k)
        PROVE  Goal
    <2>1. ~AdminDone(k)
      BY DEF AdminDone, HasRead, AdminAt
    <2>2. ASSUME AdminWrite(k), AdminGoes(k, "written")
          PROVE  FALSE
      <3>1. adminCall'[k].step = "written"
        BY <2>2, AdminGoesKeeps DEF AdminWrite, HasRead
      <3> QED
        BY <3>1 DEF HasRead, AdminAt
    <2> QED
      BY <1>3, <2>1, <2>2 DEF AdminStep, AdminWrite, revokeAccess, AdminRefuse
  <1>4. ASSUME NEW e \in Employees, acceptInvitation(e) \/ LoginRead(e) \/ LoginWrite(e)
        PROVE  Goal
    BY <1>4 DEF acceptInvitation, LoginRead, LoginWrite, staffOnlyVars
  <1>5. ASSUME StaffRestart
        PROVE  FALSE
    BY <1>5 DEF StaffRestart, ForgetAdminCalls, HasRead, AdminAt
  <1>6. ASSUME UNCHANGED staffVars
        PROVE  Goal
    BY <1>6 DEF staffVars, staffOnlyVars
  <1> QED
    BY <1>1, <1>2, <1>3, <1>4, <1>5, <1>6 DEF StaffNext

\* Accounts change by the write of a call and by an accepted invitation only.
LEMMA AccountsMove ==
    ASSUME [StaffNext \/ StaffRestart]_staffVars
    PROVE  \/ employee' = employee
           \/ \E k \in AdminCalls : AdminWrite(k)
           \/ \E e \in Employees : acceptInvitation(e)
  BY DEF StaffNext, AdminStep, AdminBegin, AdminRead, assertAnotherActiveSuperAdmin,
         assertNoUnfinishedWork, revokeAccess, AdminRefuse, LoginRead, LoginWrite,
         StaffRestart, staffVars, sharedVars

\* A write leaves every other account alone, and ends the target's activity only
\* for a call that deactivates it or that read it inactive.
LEMMA WriteTouchesTarget ==
    ASSUME StaffTypeOK, NEW k \in AdminCalls, AdminWrite(k), NEW o \in Employees
    PROVE  /\ o # adminCall[k].input.target => employee'[o] = employee[o]
           /\ (o = adminCall[k].input.target /\ employee[o].active /\ ~employee'[o].active) =>
                 Deactivates(k) \/ ~adminCall[k].existing.active
  <1> DEFINE input == adminCall[k].input
             existing == adminCall[k].existing
  <1>1. /\ input \in AdminInput
        /\ input.target \in Employees
        /\ existing \in EmployeeRow
    BY AdminCallTyped DEF AdminWrite, AdminAt
  <1>2. employee \in [Employees -> EmployeeRow]
    BY DEF StaffTypeOK, SharedTypeOK
  <1>3. CASE input.op = "update"
    <2>1. employee' = [employee EXCEPT ![input.target] = EditedRow(existing, input.edit)]
      BY <1>3 DEF AdminWrite
    <2>2. input.edit \in Edit
      BY <1>1, <1>3 DEF AdminInput
    <2>3. input.edit.active \in {TRUE, FALSE, Undefined}
      BY <2>2 DEF Edit, Optional
    <2>4. EditedRow(existing, input.edit).active =
            IF input.edit.active = Undefined THEN existing.active ELSE input.edit.active
      BY DEF EditedRow, Given
    <2>5. existing.active \in BOOLEAN
      BY <1>1 DEF EmployeeRow
    <2>6. input.edit.active = FALSE => Removes(k)
      BY <1>3 DEF Removes
    <2> QED
      BY <1>1, <1>2, <2>1, <2>3, <2>4, <2>5, <2>6 DEF Deactivates
  <1>4. CASE input.op = "departmentUpdate"
    BY <1>1, <1>2, <1>4 DEF AdminWrite, EmployeeRow
  <1>5. CASE input.op \notin {"update", "departmentUpdate"}
    <2>1. employee' = [employee EXCEPT ![input.target].active = FALSE]
      BY <1>5 DEF AdminWrite
    <2>2. Removes(k)
      BY <1>1, <1>5 DEF AdminInput, Removes
    <2> QED
      BY <1>1, <1>2, <2>1, <2>2 DEF Deactivates, EmployeeRow
  <1> QED
    BY <1>3, <1>4, <1>5

-----------------------------------------------------------------------------
(* Removal and unfinished work, for any number of calls at once. *)

\* What a call has found out about the work of its target is still so: requests
\* stand still while administration is on its own.
WorkStillCleared ==
    \A k \in AdminCalls :
        /\ (HasRead(k) /\ ~adminCall[k].existing.active) =>
              unfinishedWork(adminCall[k].input.target) = {}
        /\ AdminAt(k, "cleared") => NoUnfinishedWork(k)

\* The invariant of administration about unfinished work.
WorkIInv == StaffTypeOK /\ InactiveOwnsNothing /\ WorkStillCleared

\* Every step of administration keeps its invariant about unfinished work.
LEMMA WorkStepIInv ==
    ASSUME WorkIInv, [StaffNext \/ StaffRestart]_staffVars
    PROVE  WorkIInv'
  <1> USE DEF WorkIInv
  <1>1. StaffTypeOK' /\ request' = request
    BY StaffStep, StaffIdles
  <1>2. \A e : unfinishedWork(e)' = unfinishedWork(e)
    BY <1>1 DEF unfinishedWork
  <1>3. InactiveOwnsNothing'
    <2> SUFFICES ASSUME NEW r \in Requests, request[r] # NULL, request[r].owner # NULL,
                        Unfinished(request[r])
                 PROVE  employee'[request[r].owner].active
      BY <1>1 DEF InactiveOwnsNothing
    <2> DEFINE o == request[r].owner
    <2>1. o \in Employees /\ employee[o].active /\ unfinishedWork(o) # {}
      BY DEF InactiveOwnsNothing, StaffTypeOK, SharedTypeOK, RequestRow, Null, unfinishedWork
    <2>2. ASSUME NEW k \in AdminCalls, AdminWrite(k)
          PROVE  employee'[o].active
      <3>1. AdminAt(k, "cleared")
        BY <2>2 DEF AdminWrite
      <3>2. adminCall[k].input.target = o => ~Deactivates(k) /\ adminCall[k].existing.active
        BY <2>1, <3>1 DEF WorkStillCleared, NoUnfinishedWork, HasRead
      <3> QED
        BY <2>1, <2>2, <3>2, WriteTouchesTarget
    <2>3. ASSUME NEW e \in Employees, acceptInvitation(e)
          PROVE  employee'[o].active
      BY <2>1, <2>3 DEF acceptInvitation, StaffTypeOK, SharedTypeOK, EmployeeRow
    <2> QED
      BY <2>1, <2>2, <2>3, AccountsMove
  <1>4. WorkStillCleared'
    <2> SUFFICES ASSUME NEW k \in AdminCalls, HasRead(k)'
                 PROVE  /\ ~adminCall'[k].existing.active =>
                              unfinishedWork(adminCall'[k].input.target) = {}
                        /\ AdminAt(k, "cleared")' => NoUnfinishedWork(k)'
      BY <1>2 DEF WorkStillCleared, HasRead
    <2>1. CASE adminCall'[k] = adminCall[k]
      BY <1>2, <2>1
      DEF WorkStillCleared, HasRead, AdminAt, NoUnfinishedWork, Deactivates, Removes
    <2>2. CASE AdminRead(k)
      <3> DEFINE e == adminCall[k].input.target
      <3>1. adminCall'[k] = [input |-> adminCall[k].input, by |-> adminCall[k].by,
               actor |-> adminCall[k].actor, step |-> "read", existing |-> employee[e]]
        BY <2>2 DEF AdminRead, StaffTypeOK
      <3>2. ~employee[e].active => unfinishedWork(e) = {}
        BY <2>2, AdminCallTyped, NullAssumption
        DEF AdminRead, AdminAt, InactiveOwnsNothing, unfinishedWork
      <3>3. /\ adminCall'[k].input = adminCall[k].input
            /\ adminCall'[k].existing = employee[e]
            /\ adminCall'[k].step = "read"
        BY <3>1
      <3> QED
        BY <3>2, <3>3 DEF AdminAt
    <2>3. CASE assertAnotherActiveSuperAdmin(k)
      BY <2>3, AdminGoesKeeps
      DEF assertAnotherActiveSuperAdmin, WorkStillCleared, HasRead, AdminAt
    <2>4. CASE assertNoUnfinishedWork(k)
      BY <1>2, <2>4, AdminGoesKeeps
      DEF assertNoUnfinishedWork, WorkStillCleared, HasRead, AdminAt, NoUnfinishedWork,
          Deactivates, Removes
    <2> QED
      BY <2>1, <2>2, <2>3, <2>4, ReadersMove
  <1> QED
    BY <1>1, <1>3, <1>4

\* Administration never leaves unfinished work with an inactive account, with any
\* number of administrative calls between their counts and their writes, if the
\* tables hold none to begin with (assertNoUnfinishedWork, admin.service.ts:561).
THEOREM NoWorkIsOrphaned == StaffSpec /\ InactiveOwnsNothing => []InactiveOwnsNothing
  <1>1. StaffServiceInit /\ InactiveOwnsNothing => WorkIInv
    BY StaffInitTyped
    DEF StaffServiceInit, StaffInit, WorkIInv, WorkStillCleared, HasRead, AdminAt
  <1>2. WorkIInv /\ [StaffNext \/ StaffRestart]_staffVars => WorkIInv'
    BY WorkStepIInv
  <1>3. WorkIInv => InactiveOwnsNothing
    BY DEF WorkIInv
  <1> QED
    BY <1>1, <1>2, <1>3, PTL DEF StaffSpec
-----------------------------------------------------------------------------
(* Administrative calls that overlap: what a race can do, and nothing else. *)

\* A call of the Super Admin; the others are a Department Admin's.
BySuperAdmin(k) == adminCall[k].input.op \in {"update", "remove"}

\* Somebody of company c was displaced since call k read its account.
Missed(k, c) == \E e \in outdated[k] : CompanyOf[e] = c

\* The row a call has read is still the row, unless another call has displaced that
\* account; an invitation may have been accepted in between.
ReadStillHolds ==
    \A k \in AdminCalls : HasRead(k) =>
        LET t == adminCall[k].input.target
            existing == adminCall[k].existing
        IN  /\ ~BySuperAdmin(k) => existing.role = "EMPLOYEE"
            /\ \/ t \in outdated[k]
               \/ /\ employee[t].role = existing.role
                  /\ existing.active => employee[t].active

\* A call has counted another Super Admin or need not: there was one when it read an account
\* that was none itself, or it takes none away.  Whoever was there still is, unless the
\* call has missed something.
OthersStillReign ==
    \A k \in AdminCalls : HasRead(k) =>
        LET t == adminCall[k].input.target
            existing == adminCall[k].existing
            c == CompanyOf[t]
        IN  \/ superAdmins(InitialStaff, c) = {} \/ c \in raced \/ Missed(k, c)
            \/ otherActiveSuperAdmins(t) # {}
            \/ /\ existing.role = "SUPER_ADMIN" /\ existing.active
               /\ TakesSuperAdminAway(k) => AdminAt(k, "read")

\* The invariant of overlapping administrative calls.
HistoryIInv ==
    /\ StaffTypeOK
    /\ outdated \in [AdminCalls -> SUBSET Employees]
    /\ ReadStillHolds
    /\ OthersStillReign
    /\ OnlyARaceTakesTheLast

\* One step of administration, with its history.
HistoryStep == (StaffNext \/ StaffRestart) /\ Remember

\* What a reader has missed after a step, and what races stay known.
LEMMA Remembered ==
    ASSUME HistoryIInv, HistoryStep, NEW k \in AdminCalls, HasRead(k)'
    PROVE  /\ outdated'[k] = outdated[k] \cup {e \in Employees : Displaced(e)}
           /\ raced \subseteq raced'
  BY DEF HistoryStep, Remember

\* An account that a call has not missed kept its role and its activity in the step.
LEMMA NotDisplaced ==
    ASSUME HistoryIInv, HistoryStep, NEW k \in AdminCalls, HasRead(k)',
           NEW e \in Employees, e \notin outdated'[k]
    PROVE  /\ e \notin outdated[k]
           /\ employee'[e].role = employee[e].role
           /\ employee[e].active => employee'[e].active
  BY Remembered DEF Displaced

\* What each of the two checks leaves of the call.
LEMMA CheckKeeps ==
    ASSUME StaffTypeOK, NEW k \in AdminCalls,
           assertAnotherActiveSuperAdmin(k) \/ assertNoUnfinishedWork(k)
    PROVE  /\ adminCall'[k].input = adminCall[k].input
           /\ adminCall'[k].existing = adminCall[k].existing
           /\ adminCall'[k].step \in {"counted", "cleared"}
           /\ employee' = employee
           /\ HasRead(k)
  BY AdminGoesKeeps
  DEF assertAnotherActiveSuperAdmin, assertNoUnfinishedWork, HasRead, sharedVars

\* What the read leaves of the call.
LEMMA ReadKeeps ==
    ASSUME StaffTypeOK, NEW k \in AdminCalls, AdminRead(k)
    PROVE  /\ adminCall'[k].input = adminCall[k].input
           /\ adminCall'[k].existing = employee[adminCall[k].input.target]
           /\ adminCall'[k].step = "read"
           /\ employee' = employee
           /\ AdminAllowed(k)
           /\ adminCall[k].input \in AdminInput
           /\ adminCall[k].input.target \in Employees
  <1>1. adminCall'[k] = [input |-> adminCall[k].input, by |-> adminCall[k].by,
           actor |-> adminCall[k].actor, step |-> "read",
           existing |-> employee[adminCall[k].input.target]]
    BY DEF AdminRead, StaffTypeOK
  <1>2. adminCall[k].input \in AdminInput /\ adminCall[k].input.target \in Employees
    BY AdminCallTyped DEF AdminRead, AdminAt
  <1> QED
    BY <1>1, <1>2 DEF AdminRead, sharedVars

\* What a call has read still holds, or it has missed it.
LEMMA ReadStep ==
    ASSUME HistoryIInv, HistoryStep
    PROVE  ReadStillHolds'
  <1> SUFFICES ASSUME NEW k \in AdminCalls, HasRead(k)'
               PROVE  LET t == adminCall'[k].input.target
                          existing == adminCall'[k].existing
                      IN  /\ ~BySuperAdmin(k)' => existing.role = "EMPLOYEE"
                          /\ \/ t \in outdated'[k]
                             \/ /\ employee'[t].role = existing.role
                                /\ existing.active => employee'[t].active
    BY DEF ReadStillHolds
  <1>1. StaffTypeOK
    BY DEF HistoryIInv
  <1>2. CASE adminCall'[k] = adminCall[k]
    <2>1. HasRead(k) /\ adminCall[k].input.target \in Employees
      BY <1>1, <1>2, AdminCallTyped DEF HasRead, AdminAt
    <2>2. /\ ~BySuperAdmin(k) => adminCall[k].existing.role = "EMPLOYEE"
          /\ \/ adminCall[k].input.target \in outdated[k]
             \/ /\ employee[adminCall[k].input.target].role = adminCall[k].existing.role
                /\ adminCall[k].existing.active => employee[adminCall[k].input.target].active
      BY <2>1 DEF HistoryIInv, ReadStillHolds
    <2>3. adminCall[k].input.target \notin outdated'[k] =>
             /\ adminCall[k].input.target \notin outdated[k]
             /\ employee'[adminCall[k].input.target].role = employee[adminCall[k].input.target].role
             /\ employee[adminCall[k].input.target].active =>
                   employee'[adminCall[k].input.target].active
      BY <2>1, NotDisplaced
    <2> QED
      BY <1>2, <2>2, <2>3 DEF BySuperAdmin
  <1>3. CASE AdminRead(k)
    <2>1. ~BySuperAdmin(k) => employee[adminCall[k].input.target].role = "EMPLOYEE"
      BY <1>1, <1>3, ReadKeeps DEF AdminAllowed, BySuperAdmin, AdminInput
    <2> QED
      BY <1>1, <1>3, <2>1, ReadKeeps DEF BySuperAdmin
  <1>4. CASE assertAnotherActiveSuperAdmin(k) \/ assertNoUnfinishedWork(k)
    BY <1>1, <1>4, CheckKeeps, Remembered DEF HistoryIInv, ReadStillHolds, BySuperAdmin
  <1> QED
    BY <1>1, <1>2, <1>3, <1>4, ReadersMove DEF HistoryStep

\* Who was counted is still there, or the call has missed it.
LEMMA ReignStep ==
    ASSUME HistoryIInv, HistoryStep
    PROVE  OthersStillReign'
  <1> SUFFICES ASSUME NEW k \in AdminCalls, HasRead(k)'
               PROVE  (LET t == adminCall[k].input.target
                           existing == adminCall[k].existing
                           c == CompanyOf[t]
                       IN  \/ superAdmins(InitialStaff, c) = {} \/ c \in raced \/ Missed(k, c)
                           \/ otherActiveSuperAdmins(t) # {}
                           \/ /\ existing.role = "SUPER_ADMIN" /\ existing.active
                              /\ TakesSuperAdminAway(k) => AdminAt(k, "read"))'
    BY DEF OthersStillReign
  <1> DEFINE t == adminCall[k].input.target
             c == CompanyOf[t]
  <1>1. StaffTypeOK
    BY DEF HistoryIInv
  <1>2. outdated[k] \subseteq outdated'[k] /\ raced \subseteq raced'
    BY Remembered
  <1>3. adminCall'[k].input.target = t
    BY <1>1, ReadersMove, ReadKeeps, CheckKeeps DEF HistoryStep
  <1>4. otherActiveSuperAdmins(t) # {} => otherActiveSuperAdmins(t)' # {} \/ Missed(k, c)'
    <2> SUFFICES ASSUME NEW q \in otherActiveSuperAdmins(t), q \notin outdated'[k]
                 PROVE  q \in otherActiveSuperAdmins(t)'
      BY <1>3 DEF Missed, otherActiveSuperAdmins
    <2> QED
      BY <1>3, NotDisplaced DEF otherActiveSuperAdmins
  <1>5. Missed(k, c) => Missed(k, c)'
    BY <1>2, <1>3 DEF Missed
  <1>6. CASE adminCall'[k] = adminCall[k]
    <2>1. HasRead(k)
      BY <1>6 DEF HasRead, AdminAt
    <2>2. /\ TakesSuperAdminAway(k)' <=> TakesSuperAdminAway(k)
          /\ AdminAt(k, "read")' <=> AdminAt(k, "read")
      BY <1>6 DEF TakesSuperAdminAway, Deactivates, Removes, newRole, AdminAt
    <2> QED
      BY <1>2, <1>4, <1>5, <1>6, <2>1, <2>2 DEF HistoryIInv, OthersStillReign
  <1>7. CASE AdminRead(k)
    <2>1. /\ t \in Employees /\ employee' = employee /\ adminCall'[k].input.target = t
          /\ adminCall'[k].existing = employee[t] /\ AdminAt(k, "read")'
      BY <1>1, <1>7, ReadKeeps DEF AdminAt, HasRead
    <2>2. c \in Companies
      BY <2>1, CompanyAssumption
    <2>3. superAdmins(InitialStaff, c) = {} \/ c \in raced \/ superAdmins(employee, c) # {}
      BY <2>2 DEF HistoryIInv, OnlyARaceTakesTheLast
    <2>4. ASSUME superAdmins(employee, c) # {}, otherActiveSuperAdmins(t) = {}
          PROVE  employee[t].role = "SUPER_ADMIN" /\ employee[t].active
      BY <2>4 DEF superAdmins, otherActiveSuperAdmins
    <2> QED
      BY <1>2, <1>4, <2>1, <2>3, <2>4
  <1>8. CASE assertAnotherActiveSuperAdmin(k) \/ assertNoUnfinishedWork(k)
    <2>1. /\ HasRead(k) /\ adminCall'[k].input = adminCall[k].input
          /\ adminCall'[k].existing = adminCall[k].existing
      BY <1>1, <1>8, CheckKeeps
    <2>2. TakesSuperAdminAway(k)' <=> TakesSuperAdminAway(k)
      BY <2>1 DEF TakesSuperAdminAway, Deactivates, Removes, newRole
    <2>3. AdminAt(k, "read") /\ TakesSuperAdminAway(k) => otherActiveSuperAdmins(t) # {}
      BY <1>8 DEF assertAnotherActiveSuperAdmin, assertNoUnfinishedWork, AnotherSuperAdmin, AdminAt
    <2> QED
      BY <1>2, <1>4, <1>5, <2>1, <2>2, <2>3 DEF HistoryIInv, OthersStillReign
  <1> QED
    BY <1>1, <1>6, <1>7, <1>8, ReadersMove DEF HistoryStep

\* A write that races with nothing leaves an active Super Admin.
LEMMA WriteLeavesOne ==
    ASSUME HistoryIInv, HistoryStep, NEW k \in AdminCalls, AdminWrite(k), NEW c \in Companies,
           superAdmins(InitialStaff, c) # {}, c \notin raced'
    PROVE  superAdmins(employee', c) # {}
  <1> DEFINE input == adminCall[k].input
             t == input.target
             existing == adminCall[k].existing
  <1>1. /\ StaffTypeOK
        /\ input \in AdminInput /\ t \in Employees /\ existing \in EmployeeRow
        /\ employee \in [Employees -> EmployeeRow]
        /\ AdminAt(k, "cleared") /\ HasRead(k)
    BY AdminCallTyped DEF AdminWrite, AdminAt, HasRead, HistoryIInv, StaffTypeOK, SharedTypeOK
  <1>2. c \notin raced /\ ~RacesIn(c)
    BY DEF HistoryStep, Remember
  <1>3. PICK o \in superAdmins(employee, c) : TRUE
    BY <1>2 DEF HistoryIInv, OnlyARaceTakesTheLast
  <1>4. \A q \in Employees \ {t} : employee'[q] = employee[q]
    BY <1>1, WriteTouchesTarget
  <1>5. CASE o # t
    BY <1>3, <1>4, <1>5 DEF superAdmins
  <1>6. CASE o = t
    <2>1. CompanyOf[t] = c /\ employee[t].role = "SUPER_ADMIN" /\ employee[t].active
      BY <1>3, <1>6 DEF superAdmins
    <2> SUFFICES ASSUME ~(employee'[t].role = "SUPER_ADMIN" /\ employee'[t].active)
                 PROVE  otherActiveSuperAdmins(t) # {}
      <3>1. ASSUME employee'[t].role = "SUPER_ADMIN" /\ employee'[t].active
            PROVE  t \in superAdmins(employee', c)
        BY <1>1, <2>1, <3>1 DEF superAdmins
      <3>2. ASSUME NEW q \in otherActiveSuperAdmins(t)
            PROVE  q \in superAdmins(employee', c)
        BY <1>4, <2>1, <3>2 DEF otherActiveSuperAdmins, superAdmins
      <3> QED
        BY <3>1, <3>2
    <2>2. Displaced(t)
      BY <2>1 DEF Displaced
    <2>3. ~Missed(k, c)
      BY <1>2, <2>2 DEF RacesIn, Missed
    <2>4. t \notin outdated[k]
      BY <2>1, <2>3 DEF Missed
    <2>5. existing.role = "SUPER_ADMIN" /\ BySuperAdmin(k)
      BY <1>1, <2>1, <2>4 DEF HistoryIInv, ReadStillHolds
    <2>6. \/ otherActiveSuperAdmins(t) # {}
          \/ existing.active /\ ~TakesSuperAdminAway(k)
      BY <1>1, <1>2, <2>1, <2>3 DEF HistoryIInv, OthersStillReign, AdminAt
    <2>7. ASSUME existing.active, ~TakesSuperAdminAway(k)
          PROVE  FALSE
      <3>1. input.op = "update" /\ input.edit.active # FALSE /\ newRole(k) = "SUPER_ADMIN"
        BY <2>5, <2>7 DEF TakesSuperAdminAway, Deactivates, Removes, BySuperAdmin
      <3>2. input.edit.active \in {TRUE, FALSE, Undefined}
        BY <1>1, <3>1 DEF AdminInput, Edit, Optional
      <3>3. /\ EditedRow(existing, input.edit).role = "SUPER_ADMIN"
            /\ EditedRow(existing, input.edit).active
        BY <2>7, <3>1, <3>2 DEF EditedRow, newRole, Given
      <3>4. employee' = [employee EXCEPT ![t] = EditedRow(existing, input.edit)]
        BY <3>1 DEF AdminWrite
      <3> QED
        BY <1>1, <3>3, <3>4
    <2> QED
      BY <2>6, <2>7
  <1> QED
    BY <1>5, <1>6

\* Every step of overlapping calls keeps their invariant.
LEMMA HistoryStepIInv ==
    ASSUME HistoryIInv, [HistoryStep]_historyVars
    PROVE  HistoryIInv'
  <1>1. CASE HistoryStep
    <2>1. StaffTypeOK'
      BY <1>1, StaffStep, StaffIdles DEF HistoryIInv, HistoryStep
    <2>2. (outdated \in [AdminCalls -> SUBSET Employees])'
      BY <1>1 DEF HistoryIInv, HistoryStep, Remember
    <2>3. OnlyARaceTakesTheLast'
      <3> SUFFICES ASSUME NEW c \in Companies, superAdmins(InitialStaff, c) # {}, c \notin raced'
                   PROVE  superAdmins(employee', c) # {}
        BY DEF OnlyARaceTakesTheLast
      <3>1. PICK o \in superAdmins(employee, c) : TRUE
        BY <1>1 DEF HistoryIInv, OnlyARaceTakesTheLast, HistoryStep, Remember
      <3>2. CASE employee' = employee
        BY <3>1, <3>2
      <3>3. CASE \E e \in Employees : acceptInvitation(e)
        <4>1. o \in superAdmins(employee', c)
          BY <3>1, <3>3
          DEF superAdmins, acceptInvitation, HistoryIInv, StaffTypeOK, SharedTypeOK, EmployeeRow
        <4> QED
          BY <4>1
      <3> QED
        BY <1>1, <3>2, <3>3, AccountsMove, WriteLeavesOne DEF HistoryStep
    <2> QED
      BY <1>1, <2>1, <2>2, <2>3, ReadStep, ReignStep DEF HistoryIInv
  <1>2. CASE UNCHANGED historyVars
    <2>1. StaffTypeOK' /\ adminCall' = adminCall /\ employee' = employee
          /\ outdated' = outdated /\ raced' = raced
      BY <1>2, StaffIdles DEF HistoryIInv, historyVars, staffVars, sharedVars, staffOnlyVars
    <2> QED
      BY <2>1
      DEF HistoryIInv, ReadStillHolds, OthersStillReign, OnlyARaceTakesTheLast, Missed, HasRead,
          AdminAt, BySuperAdmin, TakesSuperAdminAway, Deactivates, Removes, newRole,
          otherActiveSuperAdmins
  <1> QED
    BY <1>1, <1>2

\* The inductive invariant of administrative calls that overlap, whatever their number: what
\* a call has read and counted still holds when it writes, or the history says what it missed.
THEOREM HistoryInvariance == HistorySpec => []HistoryIInv
  <1>1. HistoryInit => HistoryIInv
    BY StaffInitTyped
    DEF HistoryInit, StaffServiceInit, StaffInit, SharedInit, HistoryIInv, ReadStillHolds,
        OthersStillReign, OnlyARaceTakesTheLast, HasRead, AdminAt
  <1>2. HistoryIInv /\ [(StaffNext \/ StaffRestart) /\ Remember]_historyVars => HistoryIInv'
    BY HistoryStepIInv DEF HistoryStep
  <1> QED
    BY <1>1, <1>2, PTL DEF HistorySpec

\* A company loses its last active Super Admin by one race only, for any number of companies,
\* accounts and calls at once: a call displaces somebody after another call has, since it read
\* its account (assertAnotherActiveSuperAdmin, admin.service.ts:547).  The run MCStaffLastAdmin
\* shows the race.
THEOREM OnlyRacesTakeTheLast == HistorySpec => []OnlyARaceTakesTheLast
  <1>1. HistoryIInv => OnlyARaceTakesTheLast
    BY DEF HistoryIInv
  <1> QED
    BY <1>1, HistoryInvariance, PTL

\* A call writes when it is cleared.
LEMMA WriterIsCleared ==
    ASSUME NEW k, AdminWrite(k)
    PROVE  AdminAt(k, "cleared")
  BY DEF AdminWrite

\* The edit of any account by any of the calls in flight restores or changes what it does not
\* name only over a displacement of that account since it was read (updateCompanyEmployee,
\* admin.service.ts:444).  The run MCStaffWriteBack shows that race.
THEOREM OnlyRacesWriteBack == HistorySpec => OnlyARaceWritesBack
  <1> DEFINE Returns(e) == ~employee[e].active /\ employee'[e].active
             Returned(e) == e \in invitation
                \/ \E k \in AdminCalls : Names(k, e, "active") \/ WritesBack(k, e)
             Changes(e) == employee'[e].role # employee[e].role
             Changed(e) == \E k \in AdminCalls : Names(k, e, "role") \/ WritesBack(k, e)
  <1>1. ASSUME HistoryIInv, [StaffNext \/ StaffRestart]_staffVars, NEW e \in Employees
        PROVE  (Returns(e) => Returned(e)) /\ (Changes(e) => Changed(e))
    <2>1. employee \in [Employees -> EmployeeRow] /\ StaffTypeOK
      BY <1>1 DEF HistoryIInv, StaffTypeOK, SharedTypeOK
    <2>2. ASSUME NEW q \in Employees, acceptInvitation(q)
          PROVE  (Returns(e) => Returned(e)) /\ (Changes(e) => Changed(e))
      BY <2>1, <2>2 DEF acceptInvitation, EmployeeRow
    <2>3. ASSUME NEW k \in AdminCalls, AdminWrite(k), Returns(e) \/ Changes(e)
          PROVE  (Returns(e) => Returned(e)) /\ (Changes(e) => Changed(e))
      <3> DEFINE input == adminCall[k].input
                 existing == adminCall[k].existing
      <3>1. /\ input \in AdminInput /\ input.target \in Employees /\ existing \in EmployeeRow
            /\ HasRead(k)
        <4>1. AdminAt(k, "cleared")
          BY <2>3, WriterIsCleared
        <4>2. adminCall[k] # NULL /\ adminCall[k].step = "cleared"
          BY <4>1 DEF AdminAt
        <4>3. input \in AdminInput /\ input.target \in Employees /\ existing \in EmployeeRow
          BY <2>1, <4>2, AdminCallTyped
        <4> QED
          BY <4>1, <4>3 DEF HasRead
      <3>2. input.target = e
        BY <2>1, <2>3, WriteTouchesTarget
      <3>3. input.op = "update"
        <4>1. CASE input.op = "departmentUpdate"
          BY <2>1, <2>3, <3>1, <3>2, <4>1 DEF AdminWrite, EmployeeRow
        <4>2. CASE input.op \notin {"update", "departmentUpdate"}
          <5>1. employee' = [employee EXCEPT ![e].active = FALSE]
            BY <2>3, <3>2, <4>2 DEF AdminWrite
          <5> QED
            BY <2>1, <2>3, <5>1 DEF EmployeeRow
        <4> QED
          BY <4>1, <4>2
      <3>4. employee'[e] = EditedRow(existing, input.edit)
        BY <2>1, <2>3, <3>2, <3>3 DEF AdminWrite
      <3>5. CASE e \in outdated[k]
        BY <2>3, <3>2, <3>3, <3>5 DEF WritesBack
      <3>6. CASE e \notin outdated[k]
        <4>1. employee[e].role = existing.role /\ (existing.active => employee[e].active)
          BY <1>1, <3>1, <3>2, <3>6 DEF HistoryIInv, ReadStillHolds
        <4>2. input.edit["role"] = input.edit.role /\ input.edit["active"] = input.edit.active
          OBVIOUS
        <4>3. Returns(e) => input.edit.active # Undefined
          BY <3>4, <4>1 DEF EditedRow, Given
        <4>4. Changes(e) => input.edit.role # Undefined
          BY <3>4, <4>1 DEF EditedRow, Given
        <4> QED
          BY <2>3, <3>2, <3>3, <4>2, <4>3, <4>4 DEF Names
      <3> QED
        BY <3>5, <3>6
    <2> QED
      BY <1>1, <2>2, <2>3, AccountsMove
  <1>2. ASSUME HistoryIInv, [(StaffNext \/ StaffRestart) /\ Remember]_historyVars
        PROVE  [\A e \in Employees : /\ Returns(e) => Returned(e)
                                     /\ Changes(e) => Changed(e)]_historyVars
    <2>1. [StaffNext \/ StaffRestart]_staffVars
      BY <1>2 DEF historyVars
    <2> QED
      BY <1>1, <1>2, <2>1
  <1>3. HistoryIInv /\ [(StaffNext \/ StaffRestart) /\ Remember]_historyVars =>
          [\A e \in Employees : /\ Returns(e) => Returned(e)
                                /\ Changes(e) => Changed(e)]_historyVars
    BY <1>2
  <1> QED
    BY <1>3, HistoryInvariance, PTL DEF HistorySpec, OnlyARaceWritesBack

-----------------------------------------------------------------------------
(* Both services together. *)

\* The invariant of both services together.
HubIInv == IInv /\ StaffTypeOK

-----------------------------------------------------------------------------
(* The invariant of the composition. *)

\* Both services start with tables of the right shape and no call in flight.
LEMMA HubInitIInv == HubInit => HubIInv
  BY InitIInv DEF HubInit, HubIInv, IInv, RequestsTypeOK, StaffTypeOK, StaffInit, Null

\* Every step of either service, and a restart, keep the invariant.
LEMMA HubStepIInv ==
    ASSUME HubIInv, [HubNext]_hubVars
    PROVE  HubIInv'
  <1> USE DEF HubIInv
  <1>1. CASE RequestsNext /\ UNCHANGED staffOnlyVars
    <2>1. IInv'
      BY <1>1, StepKeepsIInv
    <2>2. StaffTypeOK'
      BY <1>1, <2>1 DEF IInv, RequestsTypeOK, StaffTypeOK, staffOnlyVars
    <2> QED
      BY <2>1, <2>2
  <1>2. CASE StaffNext /\ UNCHANGED requestVars
    <2>1. StaffTypeOK' /\ UNCHANGED <<request, requestType>>
      BY <1>2, StaffStep
    <2>2. RequestsTypeOK'
      BY <1>2, <2>1 DEF IInv, RequestsTypeOK, StaffTypeOK, requestVars
    <2> QED
      BY <1>2, <2>1, <2>2, RestKeepsIInv DEF requestVars
  <1>3. CASE HubRestart
    <2>1. RequestsTypeOK'
      BY <1>3, RestartTyped DEF HubRestart, IInv
    <2>2. IInv'
      BY <1>3, <2>1, RestKeepsIInv DEF HubRestart, ForgetCalls, sharedVars
    <2>3. StaffTypeOK'
      BY <1>3, <2>1
      DEF HubRestart, ForgetAdminCalls, StaffTypeOK, RequestsTypeOK, Null
    <2> QED
      BY <2>2, <2>3
  <1>4. CASE UNCHANGED hubVars
    <2>1. RequestsTypeOK'
      BY <1>4
      DEF IInv, RequestsTypeOK, SharedTypeOK, hubVars, sharedVars, requestVars
    <2>2. IInv'
      BY <1>4, <2>1, RestKeepsIInv DEF hubVars, sharedVars, requestVars
    <2>3. StaffTypeOK'
      BY <1>4, <2>1 DEF RequestsTypeOK, StaffTypeOK, hubVars, staffOnlyVars
    <2> QED
      BY <2>2, <2>3
  <1> QED
    BY <1>1, <1>2, <1>3, <1>4 DEF HubNext

\* The inductive invariant of both services together.
THEOREM HubInvariance == HubSpec => []HubIInv
  <1>1. HubInit => HubIInv
    BY HubInitIInv
  <1>2. HubIInv /\ [HubNext]_hubVars => HubIInv'
    BY HubStepIInv
  <1> QED
    BY <1>1, <1>2, PTL DEF HubSpec

-----------------------------------------------------------------------------
(* The properties of Requests, among changing accounts. *)

\* Every table and call in flight of both services holds rows of its own shape.
THEOREM HubTyped == HubSpec => []HubTypeOK
  <1>1. HubIInv => HubTypeOK
    BY DEF HubIInv, IInv, HubTypeOK
  <1> QED
    BY <1>1, HubInvariance, PTL

\* Approval, ownership and history stay sound while accounts are promoted, moved,
\* removed and brought back between the steps of a call.
THEOREM HubSafe ==
    HubSpec => [](/\ DecisionMatchesState
                  /\ DecidedByEligible
                  /\ ClaimedAfterApproval
                  /\ StatusMatchesHistory
                  /\ WorkedByOwner)
  <1>1. HubIInv => /\ DecisionMatchesState
                   /\ DecidedByEligible
                   /\ ClaimedAfterApproval
                   /\ StatusMatchesHistory
                   /\ WorkedByOwner
    BY DEF HubIInv, IInv, Safe
  <1> QED
    BY <1>1, HubInvariance, PTL

\* The composition still implements the life cycle of a request.
THEOREM HubImplements == HubSpec => KeepsPromise
  <1>1. HubInit => Promise!LifecycleInit
    BY InitImplements DEF HubInit
  <1>2. HubIInv /\ HubIInv' /\ [HubNext]_hubVars =>
          [Promise!LifecycleNext]_(Promise!lifecycleVars)
    <2>1. IInv /\ IInv' /\ RequestsNext =>
            [Promise!LifecycleNext]_(Promise!lifecycleVars)
      BY StepImplements
    <2>2. ASSUME request' = request
          PROVE  UNCHANGED Promise!lifecycleVars
      BY <2>2 DEF Promise!lifecycleVars, stageOf, ownerOf, statusOf
    <2>3. ASSUME HubIInv, StaffNext
          PROVE  request' = request
      BY <2>3, StaffStep DEF HubIInv
    <2> QED
      BY <2>1, <2>2, <2>3 DEF HubIInv, HubNext, HubRestart, hubVars, sharedVars
  <1> QED
    BY <1>1, <1>2, HubInvariance, PTL DEF HubSpec, KeepsPromise, Promise!LifecycleSpec
-----------------------------------------------------------------------------
(* Rows and their company. *)

\* A request, its submitter and its department are of one company, and only an
\* owner moves the work status.
RowAtHome(r) == request[r] # NULL =>
    /\ request[r].company = CompanyOf[request[r].submitter]
    /\ request[r].company = CompanyOf[request[r].dept]
    /\ request[r].owner = NULL => request[r].status = "SUBMITTED"

\* A create that has read its type submits it inside the company of its actor.
CreateAtHome ==
    \A c \in Calls : AtStep(c, "create", "checked") =>
        CompanyOf[call[c].seen.dept] = CompanyOf[call[c].by]

\* The department of an account, and the one an edit is about to write, is of the
\* company of the account.
StaffAtHome ==
    \A e \in Employees : employee[e].dept # NULL => CompanyOf[employee[e].dept] = CompanyOf[e]

EditsAtHome ==
    \A k \in AdminCalls : (HasRead(k) /\ adminCall[k].input.op = "update") =>
        LET row == EditedRow(adminCall[k].existing, adminCall[k].input.edit)
        IN  row.dept # NULL => CompanyOf[row.dept] = CompanyOf[adminCall[k].input.target]

\* Companies stay apart.
AtHome ==
    /\ \A r \in Requests : RowAtHome(r)
    /\ CreateAtHome
    /\ StaffAtHome
    /\ EditsAtHome

\* A step of the request service keeps every row within one company.
LEMMA RequestStepAtHome ==
    ASSUME IInv, AtHome, RequestsNext
    PROVE  /\ \A r \in Requests : RowAtHome(r)'
           /\ CreateAtHome'
           /\ employee' = employee
  <1> USE DEF AtHome
  <1>1. ASSUME NEW r \in Requests
        PROVE  RowAtHome(r)'
    <2>1. request[r] # NULL => request[r] \in RequestRow
      BY DEF IInv, RequestsTypeOK, SharedTypeOK, Null
    <2>2. CASE RowUnchanged(r)
      BY <2>2 DEF RowUnchanged, RowAtHome
    <2>3. ASSUME NEW c \in Calls, CreatesRow(c, r)
          PROVE  RowAtHome(r)'
      BY <2>3 DEF CreatesRow, RowAtHome, CreateAtHome
    <2>4. ASSUME NEW c \in Calls, DecidesRow(c, r)
          PROVE  RowAtHome(r)'
      <3>1. request[r] # NULL
        BY <2>4 DEF DecidesRow, AtStep, IInv, CheckedStillValid, DecideStillValid
      <3> QED
        BY <2>1, <2>4, <3>1 DEF DecidesRow, RowAtHome, RequestRow
    <2>5. ASSUME NEW c \in Calls, ClaimsRow(c, r)
          PROVE  RowAtHome(r)'
      <3>1. request[r] # NULL /\ call[c].by # NULL
        BY <2>5, CheckedCallTyped, NullAssumption
        DEF ClaimsRow, AtStep, IInv, CheckedStillValid, ClaimStillValid
      <3> QED
        BY <2>1, <2>5, <3>1 DEF ClaimsRow, RowAtHome, RequestRow
    <2>6. ASSUME NEW c \in Calls, MovesRow(c, r)
          PROVE  RowAtHome(r)'
      <3>1. request[r] # NULL /\ request[r].owner # NULL
        BY <2>6, CheckedCallTyped, NullAssumption
        DEF MovesRow, AtStep, IInv, CheckedStillValid, TransitionStillValid
      <3> QED
        BY <2>1, <2>6, <3>1 DEF MovesRow, RowAtHome, RequestRow
    <2> QED
      BY <2>2, <2>3, <2>4, <2>5, <2>6, RowSteps
  <1>2. CreateAtHome'
    <2> SUFFICES ASSUME NEW c \in Calls, AtStep(c, "create", "checked")'
                 PROVE  CompanyOf[call'[c].seen.dept] = CompanyOf[call'[c].by]
      BY DEF CreateAtHome
    <2>1. CASE call'[c] = call[c]
      BY <2>1 DEF CreateAtHome, AtStep
    <2>2. CASE CreateRead(c)
      <3>1. call'[c] = [input |-> call[c].input, by |-> call[c].by, step |-> "checked",
                        actor |-> call[c].actor, seen |-> requestType[call[c].input.type]]
        BY <2>2 DEF CreateRead, Checked, IInv, RequestsTypeOK
      <3> QED
        BY <2>2, <3>1 DEF CreateRead, CreateAllowed
    <2>3. CASE DecideRead(c) \/ ClaimRead(c) \/ TransitionRead(c)
      <3>1. call'[c].input = call[c].input /\ call[c].input.op # "create"
        BY <2>3 DEF DecideRead, ClaimRead, TransitionRead, Checked, AtStep, IInv, RequestsTypeOK
      <3> QED
        BY <3>1 DEF AtStep
    <2> QED
      BY <2>1, <2>2, <2>3, CheckedNow DEF IInv, AtStep
  <1>3. employee' = employee
    BY DEF RequestsNext, Begin, CallStep, requireActor, CreateRead, CreateWrite, DecideRead,
           DecideWrite, DecideConflict, ClaimRead, ClaimWrite, ClaimConflict, TransitionRead,
           TransitionWrite, Refuse, Checked, sharedVars
  <1> QED
    BY <1>1, <1>2, <1>3

\* A step of administration keeps every account in a department of its own company.
LEMMA StaffStepAtHome ==
    ASSUME StaffTypeOK, AtHome, StaffNext
    PROVE  StaffAtHome' /\ EditsAtHome'
  <1> USE DEF AtHome
  <1>1. StaffAtHome'
    <2>1. ASSUME NEW k \in AdminCalls, AdminWrite(k), NEW e \in Employees, employee'[e].dept # NULL
          PROVE  CompanyOf[employee'[e].dept] = CompanyOf[e]
      <3> DEFINE input == adminCall[k].input
                 existing == adminCall[k].existing
      <3>1. employee \in [Employees -> EmployeeRow] /\ input \in AdminInput
        BY <2>1, AdminCallTyped DEF AdminWrite, AdminAt, StaffTypeOK, SharedTypeOK
      <3>2. CASE input.op = "update" /\ e = input.target
        <4>1. employee'[e] = EditedRow(existing, input.edit)
          BY <2>1, <3>1, <3>2 DEF AdminWrite
        <4> QED
          BY <2>1, <3>2, <4>1 DEF EditsAtHome, AdminWrite, HasRead
      <3>3. CASE input.op # "update" \/ e # input.target
        <4>1. employee'[e].dept = employee[e].dept
          <5>1. CASE e # input.target
            BY <2>1, <5>1, WriteTouchesTarget
          <5>2. CASE input.op = "departmentUpdate"
            BY <2>1, <3>1, <5>2 DEF AdminWrite, EmployeeRow
          <5>3. CASE input.op \notin {"update", "departmentUpdate"}
            <6>1. employee' = [employee EXCEPT ![input.target].active = FALSE]
              BY <2>1, <5>3 DEF AdminWrite
            <6> QED
              BY <3>1, <6>1 DEF EmployeeRow
          <5> QED
            BY <3>3, <5>1, <5>2, <5>3
        <4> QED
          BY <2>1, <4>1 DEF StaffAtHome
      <3> QED
        BY <3>2, <3>3
    <2>2. ASSUME NEW q \in Employees, acceptInvitation(q)
          PROVE  StaffAtHome'
      BY <2>2 DEF acceptInvitation, StaffAtHome, StaffTypeOK, SharedTypeOK, EmployeeRow
    <2> QED
      BY <2>1, <2>2, AccountsMove DEF StaffAtHome
  <1>2. EditsAtHome'
    <2> SUFFICES ASSUME NEW k \in AdminCalls, HasRead(k)', adminCall'[k].input.op = "update",
                        NEW row, row = EditedRow(adminCall'[k].existing, adminCall'[k].input.edit),
                        row.dept # NULL
                 PROVE  CompanyOf[row.dept] = CompanyOf[adminCall'[k].input.target]
      BY DEF EditsAtHome
    <2>1. CASE adminCall'[k] = adminCall[k]
      <3>1. HasRead(k)
        BY <2>1 DEF HasRead, AdminAt
      <3> QED
        BY <2>1, <3>1 DEF EditsAtHome
    <2>2. CASE AdminRead(k)
      <3>1. adminCall'[k] = [input |-> adminCall[k].input, by |-> adminCall[k].by,
               actor |-> adminCall[k].actor, step |-> "read",
               existing |-> employee[adminCall[k].input.target]]
        BY <2>2 DEF AdminRead, StaffTypeOK
      <3>2. /\ adminCall'[k].input = adminCall[k].input
            /\ adminCall'[k].existing = employee[adminCall[k].input.target]
        BY <3>1
      <3> QED
        BY <2>2, <3>2 DEF AdminRead, AdminAllowed
    <2>3. CASE assertAnotherActiveSuperAdmin(k) \/ assertNoUnfinishedWork(k)
      <3>1. /\ adminCall'[k].input = adminCall[k].input
            /\ adminCall'[k].existing = adminCall[k].existing
            /\ HasRead(k)
        BY <2>3, AdminGoesKeeps
        DEF assertAnotherActiveSuperAdmin, assertNoUnfinishedWork, HasRead
      <3> QED
        BY <3>1 DEF EditsAtHome
    <2> QED
      BY <2>1, <2>2, <2>3, ReadersMove
  <1> QED
    BY <1>1, <1>2

\* The invariant the lists rest on.
ViewIInv == HubIInv /\ AtHome

\* Every step of the hub keeps what the lists rest on.
LEMMA HubStepViewIInv ==
    ASSUME ViewIInv, [HubNext]_hubVars
    PROVE  ViewIInv'
  <1> USE DEF ViewIInv
  <1>1. HubIInv'
    BY HubStepIInv
  <1>2. CASE RequestsNext /\ UNCHANGED staffOnlyVars
    BY <1>1, <1>2, RequestStepAtHome
    DEF HubIInv, AtHome, StaffAtHome, EditsAtHome, HasRead, AdminAt, staffOnlyVars
  <1>3. CASE StaffNext /\ UNCHANGED requestVars
    <2>1. request' = request /\ StaffAtHome' /\ EditsAtHome'
      BY <1>3, StaffStep, StaffStepAtHome DEF HubIInv
    <2> QED
      BY <1>1, <1>3, <2>1 DEF AtHome, RowAtHome, CreateAtHome, AtStep, requestVars
  <1>4. CASE HubRestart
    <2>1. \A c \in Calls : call'[c] = NULL
      BY <1>4 DEF HubRestart, ForgetCalls
    <2>2. \A k \in AdminCalls : adminCall'[k] = NULL
      BY <1>4 DEF HubRestart, ForgetAdminCalls
    <2> QED
      BY <1>1, <1>4, <2>1, <2>2
      DEF HubRestart, sharedVars, AtHome, RowAtHome, CreateAtHome, StaffAtHome, EditsAtHome,
          AtStep, HasRead, AdminAt
  <1>5. CASE UNCHANGED hubVars
    BY <1>1, <1>5
    DEF hubVars, sharedVars, requestVars, staffOnlyVars, AtHome, RowAtHome, CreateAtHome,
        StaffAtHome, EditsAtHome, AtStep, HasRead, AdminAt
  <1> QED
    BY <1>2, <1>3, <1>4, <1>5 DEF HubNext

\* Requests and accounts stay within their company, and work starts with an owner.
THEOREM CompaniesStayApart == HubSpec => []ViewIInv
  <1>1. HubInit => ViewIInv
    <2> SUFFICES ASSUME HubInit
                 PROVE  AtHome
      BY HubInitIInv DEF ViewIInv
    <2>1. \A r \in Requests : request[r] # NULL => request[r] \in LegacyRequestRow
      BY InitialAssumption DEF HubInit, SharedInit, Null
    <2>2. \A r \in Requests : RowAtHome(r)
      BY <2>1 DEF RowAtHome, LegacyRequestRow
    <2>3. CreateAtHome /\ EditsAtHome
      BY DEF HubInit, RequestsInit, StaffInit, CreateAtHome, EditsAtHome, AtStep, HasRead, AdminAt
    <2>4. StaffAtHome
      BY InitialAssumption DEF HubInit, SharedInit, StaffAtHome
    <2> QED
      BY <2>2, <2>3, <2>4 DEF AtHome
  <1>2. ViewIInv /\ [HubNext]_hubVars => ViewIInv'
    BY HubStepViewIInv
  <1> QED
    BY <1>1, <1>2, PTL DEF HubSpec
-----------------------------------------------------------------------------
(* What the pages show. *)

\* NULL is no status and no state of an approval.
LEMMA NullIsNone == NULL # "PENDING" /\ NULL # "DENIED" /\ NULL # "APPROVED"
                    /\ NULL # "NOT_REQUIRED" /\ ~RequiresApproval(NULL)
  BY NullAssumption DEF ApprovalStates, Policies, RequiresApproval

\* A row with the facts about it that the pages rely on.
LEMMA RowFacts ==
    ASSUME ViewIInv, NEW r \in Requests, request[r] # NULL
    PROVE  /\ request[r] \in RequestRow
           /\ request[r].submitter \in Employees
           /\ RowAtHome(r)
           /\ request[r].approval # NULL =>
                 /\ request[r].policy # NULL
                 /\ request[r].approval = "NOT_REQUIRED" <=> request[r].policy = "NONE"
           /\ request[r].claimed =>
                 /\ request[r].owner \in Employees \ {request[r].submitter}
                 /\ approvalAllowsHandling(request[r])
  <1>1. request[r] \in RequestRow
    BY DEF ViewIInv, HubIInv, IInv, RequestsTypeOK, SharedTypeOK, Null
  <1>2. request[r].approval # NULL =>
                 /\ request[r].policy # NULL
                 /\ request[r].approval = "NOT_REQUIRED" <=> request[r].policy = "NONE"
    BY DEF ViewIInv, HubIInv, IInv, StateFollowsPolicy
  <1>3. ASSUME request[r].claimed
        PROVE  /\ request[r].owner \in Employees \ {request[r].submitter}
               /\ approvalAllowsHandling(request[r])
    <2>1. /\ request[r].owner \in Employees \ {request[r].submitter}
          /\ RequiresApproval(request[r].policy) => request[r].approval = "APPROVED"
      BY <1>3 DEF ViewIInv, HubIInv, IInv, Safe, ClaimedAfterApproval, DecisionMatchesState
    <2> SUFFICES approvalAllowsHandling(request[r])
      BY <2>1
    <2>2. CASE RequiresApproval(request[r].policy)
      BY <2>1, <2>2, NullIsNone
      DEF approvalAllowsHandling, awaitingApprovalDecision, legacyApprovalStillRequired
    <2>3. CASE ~RequiresApproval(request[r].policy) /\ request[r].approval = NULL
      BY <2>3, NullAssumption
      DEF approvalAllowsHandling, awaitingApprovalDecision, legacyApprovalStillRequired,
          ApprovalStates
    <2>4. CASE ~RequiresApproval(request[r].policy) /\ request[r].approval # NULL
      <3>1. request[r].policy = "NONE"
        BY <1>1, <1>2, <2>4 DEF RequestRow, Null, Policies, RequiresApproval
      <3> QED
        BY <1>2, <2>4, <3>1
        DEF approvalAllowsHandling, awaitingApprovalDecision, legacyApprovalStillRequired
    <2> QED
      BY <2>1, <2>2, <2>3, <2>4
  <1> QED
    BY <1>1, <1>2, <1>3 DEF RequestRow, ViewIInv, AtHome

\* A state that allows a claim allows the work, and nothing waits or was denied.
LEMMA ClaimAllowsHandling ==
    ASSUME NEW r, approvalAllowsClaim(r)
    PROVE  approvalAllowsHandling(r)
  BY NullIsNone
  DEF approvalAllowsClaim, approvalAllowsHandling, awaitingApprovalDecision,
      legacyApprovalStillRequired, RequiresApproval

\* The stage a page names is the one whose call the server accepts.
LEMMA StagesAgree ==
    ASSUME ViewIInv
    PROVE  StageNamesNextCall
  <1> SUFFICES ASSUME NEW r \in Existing, NEW e \in Employees,
                      NEW stage, stage = requestStageLabel(request[r])
               PROVE  /\ stage = stageKey(request[r])
                      /\ CanDecide(e, employee[e], request[r]) => stage = "awaitingApproval"
                      /\ MayClaim(e, employee[e], request[r]) =>
                            stage \in {"awaitingHandler", "approvedAwaitingHandler"}
                      /\ MayTransition(e, employee[e], request[r], "IN_PROGRESS") =>
                            stage = "claimed"
                      /\ MayTransition(e, employee[e], request[r], "COMPLETED") =>
                            stage = "inProgress"
    BY DEF StageNamesNextCall
  <1>1. request[r] \in RequestRow /\ RowAtHome(r) /\ request[r] # NULL
    BY RowFacts DEF Existing
  <1>2. stage = stageKey(request[r])
    BY DEF requestStageLabel, stageKey
  <1>3. approvalAllowsHandling(request[r]) => stage = handlingStage(request[r])
    BY DEF requestStageLabel, approvalAllowsHandling
  <1>4. CanDecide(e, employee[e], request[r]) => stage = "awaitingApproval"
    <2>1. CanDecide(e, employee[e], request[r]) =>
            awaitingApprovalDecision(request[r]) /\ request[r].approval # "DENIED"
      BY NullIsNone DEF CanDecide, awaitingApprovalDecision, legacyApprovalStillRequired
    <2> QED
      BY <2>1 DEF requestStageLabel
  <1>5. ASSUME MayClaim(e, employee[e], request[r])
        PROVE  stage \in {"awaitingHandler", "approvedAwaitingHandler"}
    <2>1. approvalAllowsHandling(request[r]) /\ request[r].owner = NULL
      BY <1>5, ClaimAllowsHandling DEF MayClaim
    <2>2. request[r].status = "SUBMITTED"
      BY <1>1, <2>1 DEF RowAtHome
    <2> QED
      BY <1>3, <2>1, <2>2 DEF handlingStage
  <1>6. ASSUME NEW to \in {"IN_PROGRESS", "COMPLETED"},
               MayTransition(e, employee[e], request[r], to)
        PROVE  /\ stage = handlingStage(request[r])
               /\ request[r].owner # NULL
               /\ request[r].status = IF to = "IN_PROGRESS" THEN "SUBMITTED" ELSE "IN_PROGRESS"
    <2>1. request[r].status \in Statuses
      BY <1>1 DEF RequestRow
    <2> QED
      BY <1>3, <1>6, <2>1, NullAssumption DEF MayTransition, allowedNext, Statuses
  <1>7. MayTransition(e, employee[e], request[r], "IN_PROGRESS") => stage = "claimed"
    BY <1>6 DEF handlingStage
  <1>8. MayTransition(e, employee[e], request[r], "COMPLETED") => stage = "inProgress"
    BY <1>6 DEF handlingStage
  <1> QED
    BY <1>2, <1>4, <1>5, <1>7, <1>8

\* Where roles, departments and stages agree, so do the buttons and the checks.
LEMMA ButtonsAgree ==
    ASSUME ViewIInv
    PROVE  ButtonsAreAccepted
  <1> SUFFICES ASSUME NEW e \in SignedIn, NEW r \in Existing,
                      employee[e].role # "SUPER_ADMIN", findOne(e, r)
               PROVE  /\ "claim" \in RequestActions(e, r) <=> MayClaim(e, employee[e], request[r])
                      /\ (request[r].owner = NULL \/ request[r].claimed) =>
                            /\ RequestDetails(e, r) = RequestActions(e, r)
                            /\ "start" \in RequestActions(e, r)
                                  <=> MayTransition(e, employee[e], request[r], "IN_PROGRESS")
                            /\ "complete" \in RequestActions(e, r)
                                  <=> MayTransition(e, employee[e], request[r], "COMPLETED")
    BY DEF ButtonsAreAccepted
  <1>1. /\ request[r] \in RequestRow /\ RowAtHome(r) /\ request[r] # NULL
        /\ request[r].claimed =>
              /\ request[r].owner \in Employees \ {request[r].submitter}
              /\ approvalAllowsHandling(request[r])
    BY RowFacts DEF Existing
  <1>2. e \in Employees /\ employee[e].active
    BY DEF SignedIn, authenticate
  <1>3. /\ "claim" \in RequestActions(e, r) <=> canClaim(e, r)
        /\ "start" \in RequestActions(e, r)
              <=> request[r].owner = e /\ request[r].status = "SUBMITTED"
        /\ "complete" \in RequestActions(e, r)
              <=> request[r].owner = e /\ request[r].status = "IN_PROGRESS"
        /\ RequestActions(e, r) \subseteq {"claim", "start", "complete"}
    BY DEF RequestActions
  <1>4. canClaim(e, r) <=> MayClaim(e, employee[e], request[r])
    BY <1>2 DEF canClaim, MayClaim
  <1>5. ASSUME request[r].owner = NULL \/ request[r].claimed, request[r].owner = e
        PROVE  canHandleRequests(employee[e]) /\ approvalAllowsHandling(request[r])
    <2>1. request[r].submitter # e /\ approvalAllowsHandling(request[r])
      BY <1>1, <1>2, <1>5, NullAssumption
    <2>2. canDecideApproval(e, employee[e], request[r]) \/ canUseHandlerQueues(e)
      BY <2>1 DEF findOne, canViewRequest
    <2>3. canDecideApproval(e, employee[e], request[r]) => canHandleRequests(employee[e])
      BY DEF canDecideApproval, canHandleRequests
    <2> QED
      BY <2>1, <2>2, <2>3 DEF canUseHandlerQueues
  <1>6. ASSUME request[r].owner = NULL \/ request[r].claimed
        PROVE  RequestDetails(e, r) = RequestActions(e, r)
    <2>1. canClaim(e, r) => canHandleRequests(employee[e]) /\ approvalAllowsHandling(request[r])
      BY ClaimAllowsHandling DEF canClaim
    <2>2. RequestActions(e, r) # {} =>
            canHandleRequests(employee[e]) /\ approvalAllowsHandling(request[r])
      BY <1>3, <1>5, <1>6, <2>1
    <2> QED
      BY <2>2 DEF RequestDetails
  <1>7. ASSUME request[r].owner = NULL \/ request[r].claimed
        PROVE  /\ MayTransition(e, employee[e], request[r], "IN_PROGRESS")
                     <=> request[r].owner = e /\ request[r].status = "SUBMITTED"
               /\ MayTransition(e, employee[e], request[r], "COMPLETED")
                     <=> request[r].owner = e /\ request[r].status = "IN_PROGRESS"
    <2>1. request[r].status \in Statuses
      BY <1>1 DEF RequestRow
    <2> QED
      BY <1>5, <1>7, <2>1 DEF MayTransition, allowedNext, Statuses
  <1> QED
    BY <1>3, <1>4, <1>6, <1>7

\* The inbox and the notice about approvers read what CanDecide reads.
LEMMA DecidersAgree ==
    ASSUME ViewIInv
    PROVE  DeciderIsFound
  <1> SUFFICES ASSUME NEW r \in Existing
               PROVE  /\ \A e \in SignedIn :
                            (getRequestOrThrow(e, r) /\ CanDecide(e, employee[e], request[r]))
                                <=> r \in inboxForms(e)
                      /\ awaitingApprovalDecision(request[r]) =>
                            (noEligibleApprover(r) <=>
                                ~\E e \in Employees : /\ CompanyOf[e] = request[r].company
                                                      /\ CanDecide(e, employee[e], request[r]))
    BY DEF DeciderIsFound
  <1>1. /\ r \in Requests /\ request[r] # NULL
        /\ request[r] \in RequestRow /\ RowAtHome(r)
        /\ request[r].approval # NULL =>
              /\ request[r].policy # NULL
              /\ request[r].approval = "NOT_REQUIRED" <=> request[r].policy = "NONE"
    BY RowFacts DEF Existing
  <1>2. awaitingApprovalDecision(request[r]) => approvalDecisionApplies(request[r])
    <2>1. request[r].policy \in Null(Policies)
      BY <1>1 DEF RequestRow
    <2> QED
      BY <1>1, <2>1, NullIsNone
      DEF awaitingApprovalDecision, approvalDecisionApplies, legacyApprovalStillRequired,
          RequiresApproval, Policies, Null
  <1>3. ASSUME NEW e \in SignedIn, getRequestOrThrow(e, r), CanDecide(e, employee[e], request[r])
        PROVE  r \in inboxForms(e)
    <2>1. r \in companyRows(e)
      BY <1>1, <1>3 DEF getRequestOrThrow, companyRows
    <2>2. canDecideApproval(e, employee[e], request[r]) /\ canViewRequest(e, r)
      BY <1>3 DEF CanDecide, canViewRequest
    <2>3. approvalBucketWhere("awaiting", r)
      BY <1>3
      DEF CanDecide, approvalDecisionApplies, awaitingApprovalDecision, RequiresApproval,
          approvalBucketWhere, requiredPolicy
    <2>4. r \in eligibleApprovalScope(e) /\ isApprovalReviewer(e) /\ employee[e].active
      <3>1. CASE request[r].policy = "SUPER_ADMIN"
        BY <2>1, <2>2, <3>1 DEF canDecideApproval, eligibleApprovalScope, isApprovalReviewer
      <3>2. CASE request[r].policy = "DEPARTMENT_ADMIN"
        <4>1. /\ employee[e].role = "DEPARTMENT_ADMIN" /\ employee[e].active
              /\ employee[e].dept = request[r].dept /\ request[r].submitter # e
          BY <2>2, <3>2 DEF canDecideApproval
        <4>2. request[r].dept # NULL
          BY <1>1, NullAssumption DEF RequestRow
        <4> QED
          BY <2>1, <3>2, <4>1, <4>2
          DEF eligibleApprovalScope, departmentApprovalWhere, inDepartment, isApprovalReviewer
      <3> QED
        BY <2>2, <3>1, <3>2 DEF canDecideApproval
    <2>5. r \in listApprovals(e, "all")
      BY <2>3, <2>4 DEF listApprovals, Buckets
    <2> QED
      BY <1>3, <2>2, <2>5 DEF inboxForms
  <1>4. ASSUME NEW e \in SignedIn, r \in inboxForms(e)
        PROVE  getRequestOrThrow(e, r) /\ CanDecide(e, employee[e], request[r])
    <2>1. r \in listApprovals(e, "all") /\ CanDecide(e, employee[e], request[r])
      BY <1>4 DEF inboxForms
    <2>2. r \in eligibleApprovalScope(e)
      BY <2>1 DEF listApprovals
    <2>3. r \in companyRows(e)
      BY <2>2 DEF eligibleApprovalScope, departmentApprovalWhere, inDepartment
    <2> QED
      BY <2>1, <2>3 DEF companyRows, getRequestOrThrow
  <1>5. ASSUME awaitingApprovalDecision(request[r])
        PROVE  \A e \in Employees :
                  CanDecide(e, employee[e], request[r]) <=>
                      /\ employee[e].active
                      /\ e # request[r].submitter
                      /\ IF request[r].policy = "SUPER_ADMIN"
                         THEN employee[e].role = "SUPER_ADMIN"
                         ELSE /\ employee[e].role = "DEPARTMENT_ADMIN"
                              /\ employee[e].dept = request[r].dept
    <2>1. request[r].policy \in {"DEPARTMENT_ADMIN", "SUPER_ADMIN"}
      BY <1>2, <1>5 DEF approvalDecisionApplies, RequiresApproval
    <2> QED
      BY <1>2, <1>5, <2>1 DEF CanDecide, canDecideApproval
  <1>6. ASSUME awaitingApprovalDecision(request[r])
        PROVE  noEligibleApprover(r) <=>
                  ~\E e \in Employees : /\ CompanyOf[e] = request[r].company
                                        /\ CanDecide(e, employee[e], request[r])
    BY <1>5, <1>6 DEF noEligibleApprover
  <1> QED
    BY <1>3, <1>4, <1>6
\* A list asked for without parameters is all that its clause selects.
LEMMA PlainQueue ==
    ASSUME NEW e, NEW queue \in Queues
    PROVE  listQueue(e, queue, NoQuery)
             = IF assertQueueAccess(e, queue) THEN queueWhere(e, queue) ELSE {}
  <1>1. DOMAIN NoQuery = {}
    BY DEF NoQuery
  <1>2. \A name : Param(NoQuery, name) = NULL
    BY <1>1 DEF Param
  <1>3. assertQueueFilters(queue, NoQuery)
    BY <1>1, <1>2, NoParameterAssumption DEF assertQueueFilters, Queues, Statuses
  <1>4. /\ Param(NoQuery, "approvalState") = NULL
        /\ Param(NoQuery, "workStatus") = NULL
        /\ Param(NoQuery, "assignment") \notin {"unclaimed", "claimed"}
    BY <1>2, NoParameterAssumption
  <1>5. ASSUME assertQueueAccess(e, queue)
        PROVE  listQueue(e, queue, NoQuery) = queueWhere(e, queue)
    BY <1>3, <1>4, <1>5, NoParameterAssumption DEF listQueue
  <1>6. ~assertQueueAccess(e, queue) => listQueue(e, queue, NoQuery) = {}
    BY DEF listQueue
  <1> QED
    BY <1>5, <1>6

\* What a list selects its route lets through, because its rows are of one company.
LEMMA RowsAgree ==
    ASSUME ViewIInv
    PROVE  ListedRowsOpen
  <1> SUFFICES ASSUME NEW e \in SignedIn
               PROVE  /\ \A r \in openableRows(e) : findOne(e, r)
                      /\ listQueue(e, "available", NoQuery)
                            = {r \in Existing : MayClaim(e, employee[e], request[r])}
    BY DEF ListedRowsOpen
  <1>1. e \in Employees /\ employee[e].active /\ employee[e] \in EmployeeRow
    BY DEF SignedIn, authenticate, ViewIInv, HubIInv, StaffTypeOK, SharedTypeOK
  <1>2. ASSUME NEW queue \in Queues, NEW r \in listQueue(e, queue, NoQuery)
        PROVE  findOne(e, r)
    <2>1. assertQueueAccess(e, queue) /\ r \in queueWhere(e, queue)
      BY <1>2, PlainQueue
    <2>2. CASE queue = "submitted"
      BY <2>1, <2>2 DEF queueWhere, submittedWhere, findOne, canViewRequest
    <2>3. CASE queue = "department"
      BY <1>1, <2>1, <2>3
      DEF assertQueueAccess, queueWhere, departmentApprovalWhere, inDepartment, findOne,
          canViewRequest, canDecideApproval
    <2>4. CASE queue = "available"
      BY <2>1, <2>4
      DEF assertQueueAccess, queueWhere, claimableWhere, inDepartment, findOne, canViewRequest,
          isCurrentlyClaimableBy, approvalAllowsClaim
    <2>5. CASE queue \in {"claimed", "completed"}
      BY <2>1, <2>5
      DEF assertQueueAccess, queueWhere, claimedWhere, completedOwnedWhere, findOne,
          canViewRequest
    <2> QED
      BY <2>2, <2>3, <2>4, <2>5 DEF Queues
  <1>3. ASSUME NEW r \in listApprovals(e, "all"), canViewRequest(e, r)
        PROVE  findOne(e, r)
    BY <1>3
    DEF listApprovals, eligibleApprovalScope, departmentApprovalWhere, inDepartment, findOne
  <1>4. ASSUME NEW r \in listDepartmentRequests(e, NoQuery), canViewRequest(e, r)
        PROVE  findOne(e, r)
    BY <1>4 DEF listDepartmentRequests, workFilter, inDepartment, findOne
  <1>5. ASSUME NEW r \in listRequests(e, NoQuery), request[r].submitter = e
        PROVE  findOne(e, r)
    BY <1>5 DEF listRequests, workFilter, findOne, canViewRequest
  <1>6. ASSUME NEW r \in openableRows(e)
        PROVE  findOne(e, r)
    <2>1. employee[e].role \in Roles
      BY <1>1 DEF EmployeeRow
    <2>2. (\E queue \in Queues : r \in listQueue(e, queue, NoQuery)) => findOne(e, r)
      BY <1>2
    <2> QED
      BY <1>3, <1>4, <1>5, <1>6, <2>1, <2>2 DEF openableRows, Roles
  <1>7. ASSUME NEW r \in listQueue(e, "available", NoQuery)
        PROVE  r \in Existing /\ MayClaim(e, employee[e], request[r])
    <2>1. canUseHandlerQueues(e) /\ r \in claimableWhere(e)
      BY <1>7, PlainQueue DEF Queues, assertQueueAccess, queueWhere
    <2> QED
      BY <2>1
      DEF canUseHandlerQueues, claimableWhere, inDepartment, companyRows, Existing, MayClaim,
          approvalAllowsClaim
  <1>8. ASSUME NEW r \in Existing, MayClaim(e, employee[e], request[r])
        PROVE  r \in listQueue(e, "available", NoQuery)
    <2>1. request[r].company = CompanyOf[e]
      <3>1. request[r].company = CompanyOf[request[r].dept]
        BY RowFacts DEF Existing, RowAtHome
      <3>2. request[r].dept = employee[e].dept /\ employee[e].dept # NULL
        BY <1>8 DEF MayClaim
      <3> QED
        BY <1>1, <3>1, <3>2 DEF ViewIInv, AtHome, StaffAtHome
    <2>2. r \in claimableWhere(e)
      BY <1>8, <2>1
      DEF MayClaim, Existing, claimableWhere, inDepartment, companyRows, approvalAllowsClaim
    <2>3. assertQueueAccess(e, "available")
      BY <1>8 DEF MayClaim, assertQueueAccess, canUseHandlerQueues
    <2> QED
      BY <2>2, <2>3, PlainQueue DEF Queues, queueWhere
  <1> QED
    BY <1>6, <1>7, <1>8

-----------------------------------------------------------------------------
(* The figures. *)

\* Rows counted by a column that has one of three values are counted once.
LEMMA ThreeParts ==
    ASSUME NEW S, IsFiniteSet(S), NEW A, NEW B, NEW C,
           A \cup B \cup C = S, A \cap B = {}, A \cap C = {}, B \cap C = {}
    PROVE  Cardinality(A) + Cardinality(B) + Cardinality(C) = Cardinality(S)
  <1>1. IsFiniteSet(A) /\ IsFiniteSet(B) /\ IsFiniteSet(C)
    BY FS_Subset
  <1>2. IsFiniteSet(A \cup B)
    BY <1>1, FS_Union
  <1>3. Cardinality(A \cup B) = Cardinality(A) + Cardinality(B) - Cardinality({})
    BY <1>1, FS_Union
  <1>4. Cardinality(S) = Cardinality(A \cup B) + Cardinality(C) - Cardinality({})
    <2>1. (A \cup B) \cap C = {} /\ (A \cup B) \cup C = S
      OBVIOUS
    <2> QED
      BY <1>1, <1>2, <2>1, FS_Union
  <1>5. Cardinality({}) = 0
    BY FS_EmptySet
  <1>6. /\ Cardinality(A) \in Nat /\ Cardinality(B) \in Nat /\ Cardinality(C) \in Nat
        /\ Cardinality(A \cup B) \in Nat
    BY <1>1, <1>2, FS_CardinalityType
  <1> QED
    BY <1>3, <1>4, <1>5, <1>6

\* What a page sends on of a parameter.
LEMMA KeptParam ==
    ASSUME NEW query, NEW allowed, NEW name
    PROVE  Param(KeptQuery(query, allowed), name)
             = IF /\ name \in DOMAIN query /\ name \in DOMAIN allowed
                  /\ query[name] \in allowed[name]
               THEN query[name] ELSE NULL
  BY DEF Param, KeptQuery
\* A link with one parameter asks for its value and for nothing else.
LEMMA KeptOne ==
    ASSUME NEW query, NEW allowed, NEW name, DOMAIN query = {name},
           name \in DOMAIN allowed, query[name] \in allowed[name]
    PROVE  /\ Param(KeptQuery(query, allowed), name) = query[name]
           /\ \A other : other # name => Param(KeptQuery(query, allowed), other) = NULL
  BY KeptParam

\* A link without parameters asks for nothing.
LEMMA KeptNone ==
    ASSUME NEW allowed, NEW name
    PROVE  Param(KeptQuery(NoQuery, allowed), name) = NULL
  BY KeptParam DEF NoQuery

\* Rows by their status, counted apart and together.
LEMMA StatusesAddUp ==
    ASSUME ViewIInv, NEW e, NEW scope, scope \subseteq companyRows(e)
    PROVE  LET counts == countRequestWork(scope)
           IN  /\ counts.total = Cardinality(scope)
               /\ counts.active = Cardinality({r \in scope : Unfinished(request[r])})
  <1> DEFINE Of(status) == {r \in scope : request[r].status = status}
             active == {r \in scope : Unfinished(request[r])}
  <1>1. IsFiniteSet(scope) /\ IsFiniteSet(active)
    BY FiniteTableAssumption, FS_Subset DEF companyRows
  <1>2. \A r \in scope : request[r].status \in Statuses
    BY RowFacts DEF companyRows, RequestRow
  <1>3. Cardinality(Of("SUBMITTED")) + Cardinality(Of("IN_PROGRESS"))
          + Cardinality(Of("COMPLETED")) = Cardinality(scope)
    <2>1. Of("SUBMITTED") \cup Of("IN_PROGRESS") \cup Of("COMPLETED") = scope
      BY <1>2 DEF Statuses
    <2>2. /\ Of("SUBMITTED") \cap Of("IN_PROGRESS") = {}
          /\ Of("SUBMITTED") \cap Of("COMPLETED") = {}
          /\ Of("IN_PROGRESS") \cap Of("COMPLETED") = {}
      OBVIOUS
    <2> QED
      BY <1>1, <2>1, <2>2, ThreeParts
  <1>4. Cardinality(Of("SUBMITTED")) + Cardinality(Of("IN_PROGRESS")) = Cardinality(active)
    <2>1. Of("SUBMITTED") \cup Of("IN_PROGRESS") \cup {} = active
      BY DEF Unfinished
    <2>2. /\ Of("SUBMITTED") \cap Of("IN_PROGRESS") = {}
          /\ Of("SUBMITTED") \cap {} = {}
          /\ Of("IN_PROGRESS") \cap {} = {}
      OBVIOUS
    <2>3. Cardinality(Of("SUBMITTED")) + Cardinality(Of("IN_PROGRESS")) + Cardinality({})
            = Cardinality(active)
      BY <1>1, <2>1, <2>2, ThreeParts
    <2>4. IsFiniteSet(Of("SUBMITTED")) /\ IsFiniteSet(Of("IN_PROGRESS"))
      BY <1>1, FS_Subset
    <2> QED
      BY <2>3, <2>4, FS_EmptySet, FS_CardinalityType
  <1> QED
    BY <1>3, <1>4 DEF countRequestWork, Number

\* The request cards of the two admin dashboards, over the rows their list selects from.
LEMMA WorkFigures ==
    ASSUME ViewIInv, NEW e, NEW scope, scope \subseteq companyRows(e),
           NEW card \in requestBreakdown(countRequestWork(scope))
    PROVE  card.count = Cardinality(workFilter(
              KeptQuery(card.query, [status |-> ListStatuses, assignment |-> ListAssignments]),
              scope))
  <1> DEFINE counts == countRequestWork(scope)
             allowed == [status |-> ListStatuses, assignment |-> ListAssignments]
             Asked(query, name) == Param(KeptQuery(query, allowed), name)
             Shown(query) == workFilter(KeptQuery(query, allowed), scope)
  <1>1. ASSUME NEW status \in WorkStatuses
        PROVE  Shown([status |-> status]) = {r \in scope : request[r].status = status}
    <2>1. Asked([status |-> status], "status") = status
      BY KeptOne DEF ListStatuses
    <2>2. Asked([status |-> status], "assignment") = NULL
      BY KeptOne DEF ListStatuses
    <2> QED
      BY <2>1, <2>2, NoParameterAssumption DEF workFilter, WorkStatuses, Statuses
  <1>2. Shown([status |-> "ACTIVE"]) = {r \in scope : Unfinished(request[r])}
    <2>1. Asked([status |-> "ACTIVE"], "status") = "ACTIVE"
      BY KeptOne DEF ListStatuses
    <2>2. Asked([status |-> "ACTIVE"], "assignment") = NULL
      BY KeptOne DEF ListStatuses
    <2> QED
      BY <2>1, <2>2, NoParameterAssumption DEF workFilter
  <1>3. ASSUME NEW assignment \in ListAssignments
        PROVE  Shown([assignment |-> assignment])
                  = {r \in scope : request[r].owner = NULL <=> assignment = "unassigned"}
    <2>1. Asked([assignment |-> assignment], "assignment") = assignment
      BY <1>3, KeptOne
    <2>2. Asked([assignment |-> assignment], "status") = NULL
      BY <1>3, KeptOne
    <2> QED
      BY <2>1, <2>2, NoParameterAssumption DEF workFilter, ListAssignments
  <1>4. Shown(NoQuery) = scope
    <2>1. Asked(NoQuery, "assignment") = NULL /\ Asked(NoQuery, "status") = NULL
      BY KeptNone
    <2> QED
      BY <2>1, NoParameterAssumption DEF workFilter
  <1>5. /\ counts.submitted = Cardinality(Shown([status |-> "SUBMITTED"]))
        /\ counts.inProgress = Cardinality(Shown([status |-> "IN_PROGRESS"]))
        /\ counts.completed = Cardinality(Shown([status |-> "COMPLETED"]))
    BY <1>1 DEF countRequestWork, Number, WorkStatuses
  <1>6. /\ counts.claimed = Cardinality(Shown([assignment |-> "assigned"]))
        /\ counts.unclaimed = Cardinality(Shown([assignment |-> "unassigned"]))
    <2>1. Shown([assignment |-> "assigned"]) = {r \in scope : request[r].owner # NULL}
      BY <1>3 DEF ListAssignments
    <2>2. Shown([assignment |-> "unassigned"]) = {r \in scope : request[r].owner = NULL}
      BY <1>3 DEF ListAssignments
    <2> QED
      BY <2>1, <2>2 DEF countRequestWork, Number
  <1>7. /\ counts.active = Cardinality(Shown([status |-> "ACTIVE"]))
        /\ counts.total = Cardinality(Shown(NoQuery))
    BY <1>2, <1>4, StatusesAddUp
  <1> HIDE DEF counts, allowed, Shown
  <1> QED
    BY <1>5, <1>6, <1>7 DEF requestBreakdown, Card, counts, Shown, allowed
\* The cards of an account's own submissions.
LEMMA MyFigures ==
    ASSUME ViewIInv, NEW e \in SignedIn, NEW card \in myRequestBreakdown(countMyRequests(e))
    PROVE  card.count = Cardinality(myRequestsPage(e, card.query))
  <1> DEFINE counts == countMyRequests(e)
             mine == submittedWhere(e)
             allowed == [approvalState |-> ApprovalStates, workStatus |-> WorkStatuses,
                         assignment |-> {"unclaimed", "claimed"}]
             Asked(query, name) == Param(KeptQuery(query, allowed), name)
             Shown(query) == myRequestsPage(e, query)
  <1>1. \A query : Shown(query) =
          {r \in mine :
             /\ Asked(query, "approvalState") = "UNSET" => request[r].approval = NULL
             /\ Asked(query, "approvalState") \notin {NULL, "UNSET"} =>
                   request[r].approval = Asked(query, "approvalState")
             /\ Asked(query, "workStatus") # NULL =>
                   request[r].status = Asked(query, "workStatus")
             /\ Asked(query, "assignment") = "unclaimed" => request[r].owner = NULL
             /\ Asked(query, "assignment") = "claimed" => request[r].owner # NULL}
    <2>1. employee[e].active
      BY DEF SignedIn, authenticate
    <2>2. \A query : assertQueueAccess(e, "submitted") /\ assertQueueFilters("submitted", query)
      BY <2>1 DEF assertQueueAccess, assertQueueFilters
    <2>3. queueWhere(e, "submitted") = mine
      BY DEF queueWhere
    <2> QED
      BY <2>2, <2>3 DEF myRequestsPage, listQueue
  <1>2. ASSUME NEW status \in WorkStatuses
        PROVE  Shown([workStatus |-> status]) = {r \in mine : request[r].status = status}
    <2>1. Asked([workStatus |-> status], "workStatus") = status
      BY KeptOne
    <2>2. /\ Asked([workStatus |-> status], "assignment") = NULL
          /\ Asked([workStatus |-> status], "approvalState") = NULL
      BY KeptOne
    <2> QED
      BY <1>1, <2>1, <2>2, NoParameterAssumption DEF WorkStatuses, Statuses
  <1>3. Shown([assignment |-> "unclaimed"]) = {r \in mine : request[r].owner = NULL}
    <2>1. Asked([assignment |-> "unclaimed"], "assignment") = "unclaimed"
      BY KeptOne
    <2>2. /\ Asked([assignment |-> "unclaimed"], "workStatus") = NULL
          /\ Asked([assignment |-> "unclaimed"], "approvalState") = NULL
      BY KeptOne
    <2> QED
      BY <1>1, <2>1, <2>2, NoParameterAssumption
  <1>4. Shown(NoQuery) = mine
    <2>1. /\ Asked(NoQuery, "assignment") = NULL
          /\ Asked(NoQuery, "workStatus") = NULL
          /\ Asked(NoQuery, "approvalState") = NULL
      BY KeptNone
    <2> QED
      BY <1>1, <2>1, NoParameterAssumption
  <1>5. /\ counts.submitted = Cardinality({r \in mine : request[r].status = "SUBMITTED"})
        /\ counts.inProgress = Cardinality({r \in mine : request[r].status = "IN_PROGRESS"})
        /\ counts.completed = Cardinality({r \in mine : request[r].status = "COMPLETED"})
        /\ counts.unclaimed = Cardinality({r \in mine : request[r].owner = NULL})
    BY DEF countMyRequests, countRequestWork, Number
  <1>6. /\ counts.submitted = Cardinality(Shown([workStatus |-> "SUBMITTED"]))
        /\ counts.inProgress = Cardinality(Shown([workStatus |-> "IN_PROGRESS"]))
        /\ counts.completed = Cardinality(Shown([workStatus |-> "COMPLETED"]))
        /\ counts.unclaimed = Cardinality(Shown([assignment |-> "unclaimed"]))
    <2> HIDE DEF counts, mine, Shown
    <2> QED
      BY <1>2, <1>3, <1>5 DEF WorkStatuses
  <1>7. counts.total = Cardinality(Shown(NoQuery))
    <2>1. counts.total = Cardinality(mine)
      BY StatusesAddUp DEF countMyRequests, submittedWhere
    <2> QED
      BY <1>4, <2>1
  <1> HIDE DEF counts, Shown
  <1> QED
    BY <1>6, <1>7 DEF myRequestBreakdown, Card, counts, Shown

\* The cards of the approval inbox; no request is in two of its buckets.
LEMMA InboxFigures ==
    ASSUME ViewIInv, NEW e \in SignedIn, isApprovalReviewer(e),
           NEW card \in approvalBreakdown(countApprovals(eligibleApprovalScope(e)))
    PROVE  card.count = Cardinality(approvalsPage(e, card.query))
  <1> DEFINE scope == eligibleApprovalScope(e)
             counts == countApprovals(scope)
             In(bucket) == {r \in scope : approvalBucketWhere(bucket, r)}
             Shown(query) == approvalsPage(e, query)
  <1>1. ASSUME NEW bucket \in Buckets
        PROVE  Shown([status |-> bucket]) = In(bucket)
    <2>1. Param([status |-> bucket], "status") = bucket
      BY DEF Param
    <2>2. approvalsPage(e, [status |-> bucket]) = listApprovals(e, bucket)
      BY <2>1 DEF approvalsPage
    <2> QED
      BY <1>1, <2>2 DEF listApprovals, SignedIn, authenticate, Buckets
  <1>2. Shown([status |-> "all"]) = In("awaiting") \cup In("approved") \cup In("denied")
    <2>1. Param([status |-> "all"], "status") = "all"
      BY DEF Param
    <2>2. approvalsPage(e, [status |-> "all"]) = listApprovals(e, "all")
      BY <2>1 DEF approvalsPage, Buckets
    <2> QED
      BY <2>2 DEF listApprovals, SignedIn, authenticate, Buckets
  <1>3. /\ counts.awaiting = Cardinality(In("awaiting"))
        /\ counts.approved = Cardinality(In("approved"))
        /\ counts.denied = Cardinality(In("denied"))
        /\ counts.total = Cardinality(In("awaiting")) + Cardinality(In("approved"))
                            + Cardinality(In("denied"))
    BY DEF countApprovals, Number
  <1>4. counts.total = Cardinality(Shown([status |-> "all"]))
    <2>1. IsFiniteSet(Shown([status |-> "all"]))
      <3>1. scope \subseteq Requests
        BY DEF eligibleApprovalScope, departmentApprovalWhere, inDepartment, companyRows
      <3> QED
        BY <1>2, <3>1, FiniteTableAssumption, FS_Subset
    <2>2. /\ In("awaiting") \cap In("approved") = {}
          /\ In("awaiting") \cap In("denied") = {}
          /\ In("approved") \cap In("denied") = {}
      BY NullIsNone DEF approvalBucketWhere, legacyApprovalStillRequired
    <2> QED
      BY <1>2, <1>3, <2>1, <2>2, ThreeParts
  <1> HIDE DEF counts, Shown
  <1>5. /\ counts["awaiting"] = Cardinality(Shown([status |-> "awaiting"]))
        /\ counts["approved"] = Cardinality(Shown([status |-> "approved"]))
        /\ counts["denied"] = Cardinality(Shown([status |-> "denied"]))
    BY <1>1, <1>3 DEF Buckets
  <1>6. CASE card = Card(counts.total, [status |-> "all"])
    BY <1>4, <1>6 DEF Card, Shown
  <1>7. ASSUME NEW bucket \in Buckets, card = Card(counts[bucket], [status |-> bucket])
        PROVE  card.count = Cardinality(approvalsPage(e, card.query))
    BY <1>5, <1>7 DEF Card, Shown, Buckets
  <1> QED
    BY <1>6, <1>7 DEF approvalBreakdown, counts

\* The cards of the people of a scope, by what the Staff page of the scope keeps of a link.
LEMMA PeopleFigures ==
    ASSUME ViewIInv, NEW scope, scope \subseteq Employees,
           NEW roles, "EMPLOYEE" \in roles, NEW counts, counts = countPeople(scope),
           NEW card,
           \/ card \in peopleBreakdown(counts)
           \/ /\ "DEPARTMENT_ADMIN" \in roles
              /\ card = Card(counts.departmentAdmins, [role |-> "DEPARTMENT_ADMIN"])
           \/ /\ "ADMIN" \in roles
              /\ card = Card(counts.admins, [role |-> "ADMIN"])
    PROVE  card.count = Cardinality(staffFilter(
              KeptQuery(card.query, [role |-> roles, canHandle |-> BOOLEAN]), scope))
  <1> DEFINE allowed == [role |-> roles, canHandle |-> BOOLEAN]
             Asked(query, name) == Param(KeptQuery(query, allowed), name)
             Shown(query) == staffFilter(KeptQuery(query, allowed), scope)
  <1>1. \A o \in scope : employee[o] \in EmployeeRow
    BY DEF ViewIInv, HubIInv, StaffTypeOK, SharedTypeOK
  <1>2. ASSUME NEW role \in roles
        PROVE  /\ Asked([role |-> role], "role") = role
               /\ Asked([role |-> role], "canHandle") = NULL
    <2>1. Asked([role |-> role], "role") = role
      BY KeptOne
    <2>2. Asked([role |-> role], "canHandle") = NULL
      BY KeptOne
    <2> QED
      BY <2>1, <2>2
  <1>3. ASSUME NEW role \in roles \cap Roles
        PROVE  Shown([role |-> role]) = {o \in scope : employee[o].role = role}
    BY <1>2, <1>3, NoParameterAssumption DEF staffFilter, Roles
  <1>4. "ADMIN" \in roles =>
          Shown([role |-> "ADMIN"])
            = {o \in scope : employee[o].role \in {"SUPER_ADMIN", "DEPARTMENT_ADMIN"}}
    BY <1>2, NoParameterAssumption DEF staffFilter
  <1>5. Shown([canHandle |-> TRUE]) = {o \in scope : employee[o].canHandle}
    <2> DEFINE link == [canHandle |-> TRUE]
    <2>1. DOMAIN link = {"canHandle"} /\ link["canHandle"] = TRUE
      OBVIOUS
    <2>2. /\ "canHandle" \in DOMAIN allowed /\ allowed["canHandle"] = BOOLEAN
          /\ TRUE \in BOOLEAN
      OBVIOUS
    <2> HIDE DEF link, allowed
    <2>3. /\ Param(KeptQuery(link, allowed), "canHandle") = TRUE
          /\ Param(KeptQuery(link, allowed), "role") = NULL
      BY <2>1, <2>2, KeptOne
    <2> USE DEF link, allowed
    <2>4. \A o \in scope : employee[o].canHandle \in BOOLEAN
      BY <1>1 DEF EmployeeRow
    <2> QED
      BY <2>3, <2>4, NoParameterAssumption DEF staffFilter
  <1>6. Shown(NoQuery) = scope
    <2>1. Asked(NoQuery, "role") = NULL /\ Asked(NoQuery, "canHandle") = NULL
      BY KeptNone
    <2> QED
      BY <2>1, NoParameterAssumption DEF staffFilter
  <1>7. /\ counts.total = Cardinality(Shown(NoQuery))
        /\ counts.handlers = Cardinality(Shown([canHandle |-> TRUE]))
    BY <1>5, <1>6 DEF countPeople, Number
  <1>8. counts.employees = Cardinality(Shown([role |-> "EMPLOYEE"]))
    BY <1>3 DEF countPeople, Number, Roles
  <1>9. "DEPARTMENT_ADMIN" \in roles =>
          counts.departmentAdmins = Cardinality(Shown([role |-> "DEPARTMENT_ADMIN"]))
    BY <1>3 DEF countPeople, Number, Roles
  <1>10. "ADMIN" \in roles => counts.admins = Cardinality(Shown([role |-> "ADMIN"]))
    BY <1>4 DEF countPeople, Number
  <1> DEFINE handlers == [canHandle |-> TRUE]
             employees == [role |-> "EMPLOYEE"]
             departmentAdmins == [role |-> "DEPARTMENT_ADMIN"]
             admins == [role |-> "ADMIN"]
  <1>11. \/ card \in {Card(counts.total, NoQuery), Card(counts.handlers, handlers),
                      Card(counts.employees, employees)}
         \/ "DEPARTMENT_ADMIN" \in roles /\ card = Card(counts.departmentAdmins, departmentAdmins)
         \/ "ADMIN" \in roles /\ card = Card(counts.admins, admins)
    BY Zenon DEF peopleBreakdown
  <1>12. \A count, query : Card(count, query).count = count /\ Card(count, query).query = query
    BY DEF Card
  <1> HIDE DEF Shown, handlers, employees, departmentAdmins, admins
  <1>13. card.count = Cardinality(Shown(card.query))
    BY <1>7, <1>8, <1>9, <1>10, <1>11, <1>12
    DEF handlers, employees, departmentAdmins, admins
  <1> QED
    BY <1>13 DEF Shown
\* The queue cards of a handler's own dashboard.
LEMMA HandlingFigures ==
    ASSUME NEW e \in SignedIn, canUseHandlerQueues(e), NEW counts, counts = summary(e).handling,
           NEW name \in DOMAIN counts, NEW card, card = Card(counts[name], [queue |-> name])
    PROVE  card.count = Cardinality(requestsPage(e, card.query))
  <1>1. /\ DOMAIN counts = {"available", "claimed", "completed"}
        /\ counts["available"] = Cardinality(claimableWhere(e))
        /\ counts["claimed"] = Cardinality(claimedWhere(e))
        /\ counts["completed"] = Cardinality(completedOwnedWhere(e))
    BY DEF summary, Number
  <1>2. Param([queue |-> name], "queue") = name
    BY DEF Param
  <1>3. requestsPage(e, [queue |-> name]) = listQueue(e, name, NoQuery)
    BY <1>1, <1>2 DEF requestsPage, initialRequestTab
  <1>4. listQueue(e, name, NoQuery) = queueWhere(e, name)
    <2>1. name \in Queues
      BY <1>1 DEF Queues
    <2>2. assertQueueAccess(e, name)
      BY <1>1 DEF assertQueueAccess, canUseHandlerQueues
    <2> QED
      BY <2>1, <2>2, PlainQueue
  <1>5. counts[name] = Cardinality(queueWhere(e, name))
    BY <1>1 DEF queueWhere
  <1> QED
    BY <1>3, <1>4, <1>5 DEF Card

\* The total of that card counts the rows of its three tabs, which no two of them share.
LEMMA HandlingTotal ==
    ASSUME ViewIInv, NEW e \in SignedIn, canUseHandlerQueues(e)
    PROVE  handlingTotal(e).count = Cardinality(handlingTabs(e))
  <1> DEFINE A == claimableWhere(e)
             B == claimedWhere(e)
             C == completedOwnedWhere(e)
  <1>1. handlingTotal(e).count = Cardinality(A) + Cardinality(B) + Cardinality(C)
    BY DEF handlingTotal, Figure, Card, summary, Number
  <1>2. handlingTabs(e) = A \cup B \cup C
    <2>1. \A queue \in {"available", "claimed", "completed"} :
              listQueue(e, queue, NoQuery) = queueWhere(e, queue)
      <3> TAKE queue \in {"available", "claimed", "completed"}
      <3>1. queue \in Queues /\ assertQueueAccess(e, queue)
        BY DEF Queues, assertQueueAccess, canUseHandlerQueues
      <3> QED
        BY <3>1, PlainQueue
    <2>2. /\ queueWhere(e, "available") = A
          /\ queueWhere(e, "claimed") = B
          /\ queueWhere(e, "completed") = C
      BY DEF queueWhere
    <2> QED
      BY <2>1, <2>2 DEF handlingTabs
  <1>3. A \cap B = {} /\ A \cap C = {} /\ B \cap C = {}
    <2>1. e # NULL
      BY NullAssumption DEF SignedIn
    <2> QED
      BY <2>1 DEF claimableWhere, claimedWhere, completedOwnedWhere
  <1>4. A \cup B \cup C \subseteq companyRows(e)
    BY DEF claimableWhere, claimedWhere, completedOwnedWhere, inDepartment
  <1>5. IsFiniteSet(A \cup B \cup C)
    BY <1>4, FiniteTableAssumption, FS_Subset DEF companyRows
  <1> HIDE DEF A, B, C
  <1> QED
    BY <1>1, <1>2, <1>3, <1>5, ThreeParts

\* A link with a status, an assignment or nothing opens the department's list.
LEMMA DepartmentWorkFigures ==
    ASSUME ViewIInv, NEW e \in SignedIn, employee[e].role = "DEPARTMENT_ADMIN",
           NEW card \in requestBreakdown(departmentDashboard(e).requests)
    PROVE  card.count = Cardinality(requestsPage(e, card.query))
  <1> DEFINE scope == inDepartment(e, companyRows(e))
             allowed == [status |-> ListStatuses, assignment |-> ListAssignments]
  <1>1. card \in requestBreakdown(countRequestWork(scope))
    BY DEF departmentDashboard
  <1>2. "queue" \notin DOMAIN card.query
    BY <1>1 DEF requestBreakdown, Card, NoQuery
  <1>3. initialRequestTab(e, card.query) = "all"
    <2>1. Param(card.query, "queue") \notin {"available", "claimed", "completed"}
      BY <1>2, NoParameterAssumption DEF Param, Statuses
    <2> QED
      BY <2>1 DEF initialRequestTab
  <1>4. requestsPage(e, card.query) = workFilter(KeptQuery(card.query, allowed), scope)
    BY <1>3 DEF requestsPage, listDepartmentRequests
  <1>5. scope \subseteq companyRows(e)
    BY DEF inDepartment
  <1> HIDE DEF scope
  <1> QED
    BY <1>1, <1>4, <1>5, WorkFigures

\* Role by role, a figure that is not the total of a handler's card counts the rows of the
\* list it links to.
LEMMA FiguresAgree ==
    ASSUME ViewIInv, NEW e \in SignedIn, NEW figure \in dashboardOf(e), ~isHandlingTotal(e, figure)
    PROVE  figure.count = Cardinality(figure.rows)
  <1>1. e \in Employees /\ employee[e] \in EmployeeRow
    BY DEF SignedIn, authenticate, ViewIInv, HubIInv, StaffTypeOK, SharedTypeOK
  <1>2. \A card, rows : /\ Figure(card, rows).count = card.count
                        /\ Figure(card, rows).rows = rows
    BY DEF Figure
  <1>3. ASSUME figure \in myFigures(e, countMyRequests(e))
        PROVE  figure.count = Cardinality(figure.rows)
    BY <1>2, <1>3, MyFigures DEF myFigures
  <1>4. ASSUME isApprovalReviewer(e),
               figure \in inboxFigures(e, countApprovals(eligibleApprovalScope(e)))
        PROVE  figure.count = Cardinality(figure.rows)
    BY <1>2, <1>4, InboxFigures DEF inboxFigures
  <1>5. CASE employee[e].role = "EMPLOYEE"
    <2> DEFINE counts == summary(e).handling
    <2>1. summary(e).myRequests = countMyRequests(e)
      BY DEF summary
    <2>2. \/ figure \in myFigures(e, countMyRequests(e))
          \/ /\ canUseHandlerQueues(e)
             /\ \E name \in DOMAIN counts :
                   LET card == Card(counts[name], [queue |-> name])
                   IN  figure = Figure(card, requestsPage(e, card.query))
      BY <1>5, <2>1 DEF dashboardOf, PersonalDashboard, isHandlingTotal
    <2> HIDE DEF counts
    <2>3. ASSUME canUseHandlerQueues(e), NEW name \in DOMAIN counts, NEW card,
                 card = Card(counts[name], [queue |-> name]),
                 figure = Figure(card, requestsPage(e, card.query))
          PROVE  figure.count = Cardinality(figure.rows)
      <3>1. card.count = Cardinality(requestsPage(e, card.query))
        BY <2>3, HandlingFigures DEF counts
      <3> QED
        BY <1>2, <2>3, <3>1
    <2> QED
      BY <1>3, <2>2, <2>3
  <1>6. CASE employee[e].role = "DEPARTMENT_ADMIN"
    <2> DEFINE counts == departmentDashboard(e)
               roles == {"EMPLOYEE", "DEPARTMENT_ADMIN"}
               cards == peopleBreakdown(counts.people)
                          \cup {Card(counts.people.departmentAdmins, [role |-> "DEPARTMENT_ADMIN"])}
    <2>1. /\ counts.myRequests = countMyRequests(e)
          /\ counts.approvals = countApprovals(eligibleApprovalScope(e))
          /\ counts.people = countPeople(departmentStaff(e))
      BY DEF departmentDashboard
    <2>2. \/ figure \in myFigures(e, counts.myRequests)
          \/ figure \in inboxFigures(e, counts.approvals)
          \/ figure \in {Figure(card, requestsPage(e, card.query)) :
                            card \in requestBreakdown(counts.requests)}
          \/ figure \in {Figure(card, departmentEmployeesPage(e, card.query)) : card \in cards}
      BY <1>6 DEF dashboardOf, DepartmentDashboard
    <2>3. ASSUME NEW card \in requestBreakdown(counts.requests)
          PROVE  card.count = Cardinality(requestsPage(e, card.query))
      BY <1>6, <2>3, DepartmentWorkFigures
    <2>4. ASSUME NEW card \in cards
          PROVE  card.count = Cardinality(departmentEmployeesPage(e, card.query))
      <3>1. departmentEmployeesPage(e, card.query)
              = staffFilter(KeptQuery(card.query, [role |-> roles, canHandle |-> BOOLEAN]),
                            departmentStaff(e))
        BY DEF departmentEmployeesPage, listDepartmentEmployees
      <3>2. departmentStaff(e) \subseteq Employees
        BY DEF departmentStaff, companyStaff
      <3>3. \/ card \in peopleBreakdown(counts.people)
            \/ card = Card(counts.people.departmentAdmins, [role |-> "DEPARTMENT_ADMIN"])
        BY <2>4
      <3> HIDE DEF counts
      <3> QED
        BY <2>1, <3>1, <3>2, <3>3, PeopleFigures
    <2>5. isApprovalReviewer(e)
      BY <1>6 DEF isApprovalReviewer
    <2> HIDE DEF counts, cards
    <2> QED
      BY <1>2, <1>3, <1>4, <2>1, <2>2, <2>3, <2>4, <2>5
  <1>7. CASE employee[e].role = "SUPER_ADMIN"
    <2> DEFINE counts == dashboard(e)
               roles == Roles \cup {"ADMIN"}
               cards == peopleBreakdown(counts.people)
                          \cup {Card(counts.people.admins, [role |-> "ADMIN"])}
    <2>1. /\ counts.myRequests = countMyRequests(e)
          /\ counts.approvals = countApprovals(eligibleApprovalScope(e))
          /\ counts.people = countPeople(companyStaff(e))
          /\ counts.requests = countRequestWork(companyRows(e))
      BY DEF dashboard
    <2>2. \/ figure \in myFigures(e, counts.myRequests)
          \/ figure \in inboxFigures(e, counts.approvals)
          \/ figure \in {Figure(card, adminRequestsPage(e, card.query)) :
                            card \in requestBreakdown(counts.requests)}
          \/ figure \in {Figure(card, employeesPage(e, card.query)) : card \in cards}
      BY <1>7 DEF dashboardOf, DashboardPage
    <2>3. ASSUME NEW card \in requestBreakdown(counts.requests)
          PROVE  card.count = Cardinality(adminRequestsPage(e, card.query))
      <3>1. adminRequestsPage(e, card.query)
              = workFilter(KeptQuery(card.query,
                              [status |-> ListStatuses, assignment |-> ListAssignments]),
                           companyRows(e))
        BY DEF adminRequestsPage, listRequests
      <3> HIDE DEF counts
      <3> QED
        BY <2>1, <2>3, <3>1, WorkFigures
    <2>4. ASSUME NEW card \in cards
          PROVE  card.count = Cardinality(employeesPage(e, card.query))
      <3>1. employeesPage(e, card.query)
              = staffFilter(KeptQuery(card.query, [role |-> roles, canHandle |-> BOOLEAN]),
                            companyStaff(e))
        BY DEF employeesPage, listEmployees
      <3>2. companyStaff(e) \subseteq Employees /\ "EMPLOYEE" \in roles /\ "ADMIN" \in roles
        BY DEF companyStaff, Roles
      <3>3. \/ card \in peopleBreakdown(counts.people)
            \/ card = Card(counts.people.admins, [role |-> "ADMIN"])
        BY <2>4
      <3> HIDE DEF counts, roles
      <3> QED
        BY <2>1, <3>1, <3>2, <3>3, PeopleFigures
    <2>5. isApprovalReviewer(e)
      BY <1>7 DEF isApprovalReviewer
    <2> HIDE DEF counts, cards
    <2> QED
      BY <1>2, <1>3, <1>4, <2>1, <2>2, <2>3, <2>4, <2>5
  <1> QED
    BY <1>1, <1>5, <1>6, <1>7 DEF EmployeeRow, Roles

\* A figure of a dashboard is the number of rows its link opens, for any company, any
\* accounts and any requests (dashboard-counts.ts, dashboard-figures.ts), but for the total
\* of a handler's card (staff.tsx), which is the number of rows of the three tabs together.
THEOREM FiguresAreListed == HubSpec => []FiguresMatchLists
  <1>1. ASSUME ViewIInv
        PROVE  FiguresMatchLists
    BY <1>1, FiguresAgree, HandlingTotal DEF FiguresMatchLists, isHandlingTotal
  <1> QED
    BY <1>1, CompaniesStayApart, PTL

\* What a list offers to open opens, and the Available list is what may be claimed
\* (RequestsService.canViewRequest and claimableWhere).
THEOREM ListsOpen == HubSpec => []ListedRowsOpen
  BY RowsAgree, CompaniesStayApart, PTL

\* A button is there exactly when the server takes its call (staff.tsx:874, RequestActions).
THEOREM ButtonsWork == HubSpec => []ButtonsAreAccepted
  BY ButtonsAgree, CompaniesStayApart, PTL

\* The inbox and the notice that nobody can decide agree with the server's own
\* check of a decision, across companies (approvals.tsx, eligibleApproverWhere).
THEOREM DecidersAreTold == HubSpec => []DeciderIsFound
  BY DecidersAgree, CompaniesStayApart, PTL

\* The stage on a page names the one call the server still takes (request-stage.tsx).
THEOREM StagesAreTrue == HubSpec => []StageNamesNextCall
  BY StagesAgree, CompaniesStayApart, PTL
===============================================================================
