-------------------------- MODULE RequestLifecycle --------------------------
(***************************************************************************)
(* What the request service promises, without accounts, calls or races: a  *)
(* request waits for approval or is open, is ruled on at most once, is     *)
(* taken at most once and only while open, and is worked on only by whoever*)
(* took it.  Stages and holders only move forward.                         *)
(***************************************************************************)
CONSTANTS Requests, Employees, NULL

VARIABLES
    stage,      \* "absent", "waiting", "open" or "denied"
    holder,     \* who took the request, or NULL
    work        \* its work status

lifecycleVars == <<stage, holder, work>>

Stages == {"absent", "waiting", "open", "denied"}
Work == {"SUBMITTED", "IN_PROGRESS", "COMPLETED"}

\* A migrated table may hold requests that someone already works on.
LifecycleInit ==
    /\ stage \in [Requests -> Stages \ {"denied"}]
    /\ holder \in [Requests -> Employees \cup {NULL}]
    /\ work \in [Requests -> Work]

Submit(r) ==
    /\ stage[r] = "absent"
    /\ \E s \in {"waiting", "open"} : stage' = [stage EXCEPT ![r] = s]
    /\ holder' = [holder EXCEPT ![r] = NULL]
    /\ work' = [work EXCEPT ![r] = "SUBMITTED"]

Rule(r) ==
    /\ stage[r] = "waiting"
    /\ \E s \in {"open", "denied"} : stage' = [stage EXCEPT ![r] = s]
    /\ UNCHANGED <<holder, work>>

Take(r, e) ==
    /\ stage[r] = "open"
    /\ holder[r] = NULL
    /\ holder' = [holder EXCEPT ![r] = e]
    /\ UNCHANGED <<stage, work>>

Progress(r) ==
    /\ stage[r] = "open"
    /\ holder[r] # NULL
    /\ \E s \in Work \ {"SUBMITTED"} : work' = [work EXCEPT ![r] = s]
    /\ UNCHANGED <<stage, holder>>

LifecycleNext ==
    \E r \in Requests :
        \/ Submit(r) \/ Rule(r) \/ Progress(r)
        \/ \E e \in Employees : Take(r, e)

LifecycleSpec == LifecycleInit /\ [][LifecycleNext]_lifecycleVars
=============================================================================
