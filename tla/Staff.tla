------------------------------- MODULE Staff -------------------------------
(***************************************************************************)
(* AdminService: what a Super Admin and a Department Admin do to accounts  *)
(* (role, department, handler flag, removal), with the parts of            *)
(* AuthService that bring an account back in: accepting an invitation and  *)
(* signing in.  None of the administrative handlers runs in a transaction: *)
(* the read of the account, the two counts that guard a removal, the       *)
(* update and the revocation of access are separate statements.            *)
(***************************************************************************)
EXTENDS HubState

CONSTANTS
    AdminCalls,     \* slots of the server for administrative calls in flight
    AdminInputs,    \* bound: the administrative calls to consider
    Undefined,      \* a field left out of such a body
    MaxLogins       \* bound: logins that verify a password at the same time

VARIABLES
    adminCall,      \* what each slot is handling, or NULL
    signingIn       \* accounts whose login has read the row and verifies the hash

staffOnlyVars == <<adminCall, signingIn>>
staffVars == <<sharedVars, staffOnlyVars>>

Optional(S) == S \cup {Undefined}

\* The body of PATCH /admin/employees/:id.  With every field Undefined it renames.
Edit == [role: Optional(Roles), dept: Optional(Null(Departments)),
         canHandle: Optional(BOOLEAN), active: Optional(BOOLEAN)]

\* "update" and "remove" are the Super Admin's, the other two a Department Admin's.
AdminInput ==
    [op: {"update"}, target: Employees, edit: Edit]
        \cup [op: {"remove", "departmentRemove"}, target: Employees]
        \cup [op: {"departmentUpdate"}, target: Employees, canHandle: BOOLEAN]

ASSUME AdminInputsAssumption == AdminInputs \subseteq AdminInput

ASSUME MaxLoginsAssumption == MaxLogins \in Nat

\* A field left out is none of the values it could hold.
ASSUME UndefinedAssumption ==
    /\ Undefined \notin Roles
    /\ Undefined \notin Null(Departments)
    /\ Undefined \notin BOOLEAN

AdminCall ==
    [input: AdminInput, by: Employees, actor: EmployeeRow, step: {"begun"}]
        \cup [input: AdminInput, by: Employees, actor: EmployeeRow,
              step: {"read", "counted", "cleared", "written"}, existing: EmployeeRow]

\* Every account and administrative call in flight holds rows of its own shape.
StaffTypeOK ==
    /\ SharedTypeOK
    /\ adminCall \in [AdminCalls -> Null(AdminCall)]
    /\ signingIn \subseteq Employees

StaffInit ==
    /\ adminCall = [k \in AdminCalls |-> NULL]
    /\ signingIn = {}

-----------------------------------------------------------------------------
\* What a call means for the row it has read.

Given(field, old) == IF field = Undefined THEN old ELSE field

newRole(k) == Given(adminCall[k].input.edit.role, adminCall[k].existing.role)

Removes(k) ==
    LET input == adminCall[k].input
    IN  \/ input.op \in {"remove", "departmentRemove"}
        \/ input.op = "update" /\ input.edit.active = FALSE

\* Mutant: the removals of a Department Admin do not count as a deactivation.
Deactivates_bySuperAdminOnly(k) ==
    adminCall[k].existing.active /\ Removes(k) /\ adminCall[k].input.op # "departmentRemove"

\* The account that was read is active and this call would end that.
Deactivates(k) == adminCall[k].existing.active /\ Removes(k)

\* Mutant: a demotion is not counted.
TakesSuperAdminAway_byRemovalOnly(k) ==
    adminCall[k].existing.role = "SUPER_ADMIN" /\ Deactivates(k)

\* When assertAnotherActiveSuperAdmin is called.
TakesSuperAdminAway(k) ==
    /\ adminCall[k].existing.role = "SUPER_ADMIN"
    /\ \/ Deactivates(k)
       \/ adminCall[k].input.op = "update" /\ newRole(k) # "SUPER_ADMIN"

\* Mutant: an absent active means TRUE.
EditedRow_activeDefaults(existing, edit) ==
    [existing EXCEPT !.role = Given(edit.role, @), !.active = Given(edit.active, TRUE)]

\* The row updateCompanyEmployee writes: every column, the absent ones as read.
EditedRow(existing, edit) ==
    LET role == Given(edit.role, existing.role)
    IN  [role |-> role,
         dept |-> Given(edit.dept, existing.dept),
         canHandle |-> storedCanHandle(role, Given(edit.canHandle, existing.canHandle)),
         active |-> Given(edit.active, existing.active)]

otherActiveSuperAdmins(e) ==
    {o \in Employees \ {e} :
        /\ CompanyOf[o] = CompanyOf[e]
        /\ employee[o].role = "SUPER_ADMIN"
        /\ employee[o].active}

unfinishedWork(e) ==
    {r \in Requests : request[r] # NULL /\ request[r].owner = e /\ Unfinished(request[r])}

-----------------------------------------------------------------------------
\* The steps of an administrative call.

AdminAt(k, step) == adminCall[k] # NULL /\ adminCall[k].step = step

AdminGoes(k, step) ==
    /\ adminCall' = [adminCall EXCEPT ![k].step = step]
    /\ UNCHANGED signingIn

AdminDone(k) ==
    /\ adminCall' = [adminCall EXCEPT ![k] = NULL]
    /\ UNCHANGED signingIn

\* The guard reads the session's account; the handler trusts that copy's role.
AdminBegin(k, e, input) ==
    /\ adminCall[k] = NULL
    /\ authenticate(e)
    /\ employee[e].role =
          IF input.op \in {"update", "remove"} THEN "SUPER_ADMIN" ELSE "DEPARTMENT_ADMIN"
    /\ employee[e].role = "DEPARTMENT_ADMIN" => employee[e].dept # NULL
    /\ adminCall' = [adminCall EXCEPT ![k] =
          [input |-> input, by |-> e, actor |-> employee[e], step |-> "begun"]]
    /\ UNCHANGED <<sharedVars, signingIn>>

\* The checks on the account that was read: own access, department, reach.
AdminAllowed(k) ==
    LET input == adminCall[k].input
        e == adminCall[k].by
        existing == employee[input.target]
    IN  /\ CompanyOf[input.target] = CompanyOf[e]
        /\ input.op = "update" =>
              /\ input.target = e =>
                    /\ input.edit.role \in {Undefined, existing.role}
                    /\ input.edit.active # FALSE
              /\ EditedRow(existing, input.edit).role # "SUPER_ADMIN" =>
                    EditedRow(existing, input.edit).dept # NULL
              /\ EditedRow(existing, input.edit).dept # NULL =>
                    CompanyOf[EditedRow(existing, input.edit).dept] = CompanyOf[e]
        /\ input.op \in {"departmentUpdate", "departmentRemove"} =>
              /\ existing.dept = adminCall[k].actor.dept
              /\ existing.role = "EMPLOYEE"
        /\ input.op \in {"remove", "departmentRemove"} => input.target # e

AdminRead(k) ==
    /\ AdminAt(k, "begun")
    /\ AdminAllowed(k)
    /\ adminCall' = [adminCall EXCEPT ![k] =
          [input |-> @.input, by |-> @.by, actor |-> @.actor, step |-> "read",
           existing |-> employee[@.input.target]]]
    /\ UNCHANGED <<sharedVars, signingIn>>

AnotherSuperAdmin(k) ==
    TakesSuperAdminAway(k) => otherActiveSuperAdmins(adminCall[k].input.target) # {}

assertAnotherActiveSuperAdmin(k) ==
    /\ AdminAt(k, "read")
    /\ AnotherSuperAdmin(k)
    /\ AdminGoes(k, "counted")
    /\ UNCHANGED sharedVars

NoUnfinishedWork(k) == Deactivates(k) => unfinishedWork(adminCall[k].input.target) = {}

assertNoUnfinishedWork(k) ==
    /\ AdminAt(k, "counted")
    /\ NoUnfinishedWork(k)
    /\ AdminGoes(k, "cleared")
    /\ UNCHANGED sharedVars

\* employee.update by id.  Removal goes on to revokeAccess, always for the two
\* removal endpoints, and for an update only if the row it read was active.
AdminWrite(k) ==
    /\ AdminAt(k, "cleared")
    /\ LET input == adminCall[k].input
           existing == adminCall[k].existing
           e == input.target
       IN  /\ employee' =
                CASE input.op = "update" ->
                       [employee EXCEPT ![e] = EditedRow(existing, input.edit)]
                  [] input.op = "departmentUpdate" ->
                       [employee EXCEPT ![e].canHandle =
                            storedCanHandle(existing.role, input.canHandle)]
                  [] OTHER -> [employee EXCEPT ![e].active = FALSE]
           /\ IF Removes(k) /\ (input.op = "update" => existing.active)
                 THEN AdminGoes(k, "written")
                 ELSE AdminDone(k)
    /\ UNCHANGED <<session, invitation, requestType, request>>

\* One transaction ends the sessions and retires the unused invitations.
revokeAccess(k) ==
    /\ AdminAt(k, "written")
    /\ session' = session \ {adminCall[k].input.target}
    /\ invitation' = invitation \ {adminCall[k].input.target}
    /\ AdminDone(k)
    /\ UNCHANGED <<employee, requestType, request>>

\* A check fails: the call ends with an error, nothing written.
AdminRefuse(k) ==
    /\ \/ AdminAt(k, "begun") /\ ~AdminAllowed(k)
       \/ AdminAt(k, "read") /\ ~AnotherSuperAdmin(k)
       \/ AdminAt(k, "counted") /\ ~NoUnfinishedWork(k)
    /\ AdminDone(k)
    /\ UNCHANGED sharedVars

AdminStep(k) ==
    \/ AdminRead(k)
    \/ assertAnotherActiveSuperAdmin(k)
    \/ assertNoUnfinishedWork(k)
    \/ AdminWrite(k)
    \/ revokeAccess(k)
    \/ AdminRefuse(k)

-----------------------------------------------------------------------------
\* The ways back in.

\* One transaction uses the invitation and activates the account.
acceptInvitation(e) ==
    /\ e \in invitation
    /\ invitation' = invitation \ {e}
    /\ employee' = [employee EXCEPT ![e].active = TRUE]
    /\ UNCHANGED <<session, requestType, request, staffOnlyVars>>

\* login reads the account, and only then spends its time on the password hash.
LoginRead(e) ==
    /\ employee[e].active
    /\ Cardinality(signingIn) < MaxLogins
    /\ signingIn' = signingIn \cup {e}
    /\ UNCHANGED <<sharedVars, adminCall>>

LoginWrite(e) ==
    /\ e \in signingIn
    /\ session' = session \cup {e}
    /\ signingIn' = signingIn \ {e}
    /\ UNCHANGED <<employee, invitation, requestType, request, adminCall>>

StaffNext ==
    \/ \E k \in AdminCalls, e \in Employees, input \in AdminInputs : AdminBegin(k, e, input)
    \/ \E k \in AdminCalls : AdminStep(k)
    \/ \E e \in Employees :
          acceptInvitation(e) \/ LoginRead(e) \/ LoginWrite(e)

ForgetAdminCalls ==
    /\ adminCall' = [k \in AdminCalls |-> NULL]
    /\ signingIn' = {}

-----------------------------------------------------------------------------
\* The service on its own: requests stay as they are.

StaffRestart == ForgetAdminCalls /\ UNCHANGED sharedVars

StaffServiceInit == SharedInit /\ StaffInit

StaffSpec == StaffServiceInit /\ [][StaffNext \/ StaffRestart]_staffVars

-----------------------------------------------------------------------------
\* Properties.

superAdmins(table, c) ==
    {e \in Employees : /\ CompanyOf[e] = c
                       /\ table[e].role = "SUPER_ADMIN"
                       /\ table[e].active}

\* A company that starts with an active Super Admin keeps one: what
\* assertAnotherActiveSuperAdmin is for (admin.service.ts:557, "The last Super
\* Admin cannot be removed").
SomeActiveSuperAdmin ==
    \A c \in Companies :
        superAdmins(InitialStaff, c) # {} => superAdmins(employee, c) # {}

\* No inactive account owns unfinished work: what assertNoUnfinishedWork is for
\* (docs/product-spec.md:142, "Deactivation is rejected while the account still
\* owns a request whose work status is not COMPLETED").
InactiveOwnsNothing ==
    \A r \in Requests :
        (request[r] # NULL /\ request[r].owner # NULL /\ Unfinished(request[r])) =>
            employee[request[r].owner].active

\* A removal lasts (docs/product-spec.md:140, "Deactivation takes effect immediately. The
\* account cannot sign in or perform authenticated actions."): an account comes back only
\* through its invitation or an edit that asks for it.
OnlyGrantedActivation ==
    [][\A e \in Employees : (~employee[e].active /\ employee'[e].active) =>
        \/ e \in invitation
        \/ \E k \in AdminCalls :
              /\ adminCall[k] # NULL
              /\ adminCall[k].input.op = "update"
              /\ adminCall[k].input.target = e
              /\ adminCall[k].input.edit.active = TRUE]_staffVars
=============================================================================
