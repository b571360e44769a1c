---------------------------- MODULE StaffHistory ----------------------------
(***************************************************************************)
(* Staff with history variables.  Administrative calls overlap: each one   *)
(* reads, counts and writes in statements of its own, and what others do   *)
(* to accounts in between is remembered here.  No step depends on the      *)
(* history; it tells the calls that have lost a race from all the others.  *)
(***************************************************************************)
EXTENDS Staff

VARIABLES
    outdated,       \* for each call, who was displaced since it read its account
    raced           \* companies where a call has displaced somebody all the same

historyVars == <<staffVars, outdated, raced>>

\* The call has read the row of its target and has not written yet.
HasRead(k) == AdminAt(k, "read") \/ AdminAt(k, "counted") \/ AdminAt(k, "cleared")

\* The step gives e another role or takes its activity away.
Displaced(e) ==
    \/ employee'[e].role # employee[e].role
    \/ employee[e].active /\ ~employee'[e].active

\* A call displaces its target although somebody of the company was displaced since it
\* had read that account.
RacesIn(c) ==
    \E k \in AdminCalls :
        /\ AdminWrite(k)
        /\ Displaced(adminCall[k].input.target)
        /\ \E e \in outdated[k] : CompanyOf[e] = c

HistoryInit ==
    /\ StaffServiceInit
    /\ outdated = [k \in AdminCalls |-> {}]
    /\ raced = {}

Remember ==
    /\ outdated' = [k \in AdminCalls |->
          IF HasRead(k)' THEN outdated[k] \cup {e \in Employees : Displaced(e)} ELSE {}]
    /\ raced' = raced \cup {c \in Companies : RacesIn(c)}

HistorySpec == HistoryInit /\ [][(StaffNext \/ StaffRestart) /\ Remember]_historyVars

-----------------------------------------------------------------------------
\* Properties.

\* assertAnotherActiveSuperAdmin counts in a statement of its own (admin.service.ts:547), so
\* a call can lose a race between its read and its write.  Nothing else takes the last
\* Super Admin of a company away: not a call whose administrator was displaced before it
\* read, not a target that accepts an invitation meanwhile, not a restart.
OnlyARaceTakesTheLast ==
    \A c \in Companies :
        (superAdmins(InitialStaff, c) # {} /\ superAdmins(employee, c) = {}) => c \in raced

\* The edit that call k writes says so.
Names(k, e, field) ==
    /\ AdminWrite(k)
    /\ adminCall[k].input.op = "update"
    /\ adminCall[k].input.target = e
    /\ adminCall[k].input.edit[field] # Undefined

\* The edit that call k writes had read the account before another call displaced it.
WritesBack(k, e) ==
    /\ AdminWrite(k)
    /\ adminCall[k].input.op = "update"
    /\ adminCall[k].input.target = e
    /\ e \in outdated[k]

\* updateCompanyEmployee writes the whole row (admin.service.ts:444).  It brings a removed
\* account back, or changes a role, without being told to only if another call has removed
\* that very account or changed its role since the row was read; an accepted invitation,
\* a restart or a write to anybody else in between does no harm.
OnlyARaceWritesBack ==
    [][\A e \in Employees :
        /\ (~employee[e].active /\ employee'[e].active) =>
              e \in invitation \/ \E k \in AdminCalls : Names(k, e, "active") \/ WritesBack(k, e)
        /\ employee'[e].role # employee[e].role =>
              \E k \in AdminCalls : Names(k, e, "role") \/ WritesBack(k, e)]_historyVars
=============================================================================
