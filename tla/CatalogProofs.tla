---------------------------- MODULE CatalogProofs ----------------------------
(***************************************************************************)
(* The catalog for any number of companies, departments, types and calls.  *)
(* Nothing dangles, although every check is made before the write it       *)
(* guards: ids are not handed out twice and a type never moves, so of what *)
(* a call has found only its existence can have changed, and that is what  *)
(* the foreign keys ask again.                                             *)
(***************************************************************************)
EXTENDS Catalog, TLAPS

\* What a call has found stays true of its ids, deleted or not.
Knows(c) ==
    call[c] # NULL =>
        /\ call[c].op \in {"insert", "deleteDepartment", "countedDepartment",
                           "emptiedDepartment", "assign"} => department[call[c].dept] # NULL
        /\ call[c].op = "submit" =>
              /\ requestType[call[c].type] # NULL
              /\ present(call[c].type) => requestType[call[c].type].dept = call[c].dept
        /\ call[c].op = "emptiedDepartment" => \A t \in call[c].deleted :
              /\ requestType[t] # NULL
              /\ present(t) => requestType[t].dept = call[c].dept

CallsKnow == \A c \in Calls : Knows(c)

\* The invariant: references hold, and so does what the calls in flight have found.
CatalogInv == CatalogTypeOK /\ NothingDangles /\ CallsKnow

-----------------------------------------------------------------------------
(* Calls and rows. *)

\* A call in flight is a record of its operation.
LEMMA CallTyped ==
    ASSUME CatalogTypeOK, NEW c \in Calls, call[c] # NULL
    PROVE  /\ call[c] \in Call
           /\ call[c].op = "insert" =>
                /\ call[c].dept \in Departments
                /\ call[c].types \in Confirmed
                /\ call[c].unchecked \subseteq Names
           /\ call[c].op = "edit" =>
                /\ call[c].type \in Types
                /\ call[c].name \in Optional(Names)
                /\ call[c].policy \in Optional(Policies)
           /\ call[c].op \in {"deleteType", "countedType"} => call[c].type \in Types
           /\ call[c].op \in {"deleteDepartment", "countedDepartment", "emptiedDepartment"} =>
                call[c].dept \in Departments
           /\ call[c].op = "emptiedDepartment" => call[c].deleted \subseteq Types
           /\ call[c].op = "submit" =>
                /\ call[c].dept \in Departments
                /\ call[c].type \in Types
                /\ call[c].policy \in Policies
           /\ call[c].op = "assign" =>
                call[c].employee \in Employees /\ call[c].dept \in Departments
  <1>1. call[c] \in Call
    BY DEF CatalogTypeOK
  <1> QED
    BY <1>1 DEF Call

\* A present type is a row.
LEMMA PresentTyped ==
    ASSUME CatalogTypeOK, NEW t \in Types, present(t)
    PROVE  requestType[t] \in TypeRow
  BY DEF CatalogTypeOK, present

\* A row is no mark.
LEMMA RowsAreNoMarks ==
    /\ NULL \notin TypeRow /\ GONE \notin TypeRow
    /\ NULL \notin RequestRow /\ GONE \notin RequestRow
    /\ NULL \notin Companies /\ GONE \notin Companies
    /\ NULL \notin Departments /\ GONE \notin Departments
    /\ NULL \notin Call /\ GONE \notin Call
    /\ NULL # GONE
  BY MarksAssumption

\* insertTypes fills unused ids with rows of the department and leaves the others.
LEMMA InsertedRows ==
    ASSUME CatalogTypeOK, NEW d \in Departments, NEW types \in Confirmed,
           insertTypes(d, types)
    PROVE  /\ requestType' \in [Types -> TypeRow \cup {NULL, GONE}]
           /\ \A t \in Types : \/ requestType'[t] = requestType[t]
                               \/ /\ requestType[t] = NULL
                                  /\ requestType'[t] \in TypeRow
                                  /\ requestType'[t].dept = d
  <1>1. PICK S \in SUBSET Names : types \in [S -> Policies]
    BY DEF Confirmed
  <1>2. DOMAIN types = S
    BY <1>1
  <1>3. PICK id \in Injection(S, {t \in Types : requestType[t] = NULL}) :
          requestType' = [t \in Types |->
            IF t \in Range(id)
            THEN LET n == CHOOSE m \in S : id[m] = t
                 IN  [dept |-> d, name |-> n, policy |-> types[n]]
            ELSE requestType[t]]
    BY <1>2 DEF insertTypes
  <1>4. id \in [S -> {t \in Types : requestType[t] = NULL}]
    BY <1>3 DEF Injection
  <1>5. ASSUME NEW t \in Types
        PROVE  \/ requestType'[t] = requestType[t]
               \/ /\ requestType[t] = NULL
                  /\ requestType'[t] \in TypeRow
                  /\ requestType'[t].dept = d
    <2>1. CASE t \notin Range(id)
      BY <1>3, <2>1
    <2>2. CASE t \in Range(id)
      <3> DEFINE n == CHOOSE m \in S : id[m] = t
      <3>1. \E m \in S : id[m] = t
        BY <1>4, <2>2 DEF Range
      <3>2. n \in S /\ id[n] = t
        BY <3>1
      <3>3. requestType[t] = NULL
        BY <1>4, <3>2
      <3>4. requestType'[t] = [dept |-> d, name |-> n, policy |-> types[n]]
        BY <1>3, <2>2
      <3>5. n \in Names /\ types[n] \in Policies
        BY <1>1, <3>2
      <3> HIDE DEF n
      <3> QED
        BY <3>3, <3>4, <3>5 DEF TypeRow
    <2> QED
      BY <2>1, <2>2
  <1>6. requestType' = [t \in Types |-> requestType'[t]]
    BY <1>3
  <1> QED
    BY <1>5, <1>6 DEF CatalogTypeOK

-----------------------------------------------------------------------------
(* Calls. *)

\* present(t) in the next state.
presentNext(t) == requestType'[t] \notin {NULL, GONE}

\* Ids are not handed out twice and a type never moves.
Forward ==
    /\ \A d \in Departments : department[d] # NULL => department'[d] # NULL
    /\ \A t \in Types : requestType[t] # NULL =>
          /\ requestType'[t] # NULL
          /\ presentNext(t) => present(t) /\ requestType'[t].dept = requestType[t].dept

\* Tables that stay go forward.
LEMMA StillForward == UNCHANGED tables => Forward
  BY DEF tables, Forward, present, presentNext

\* A call that does not move keeps its knowledge.
LEMMA StillKnows ==
    ASSUME CatalogTypeOK, CallsKnow, Forward, NEW c \in Calls, call'[c] = call[c]
    PROVE  Knows(c)'
  <1>1. CASE call[c] = NULL
    BY <1>1 DEF Knows
  <1>2. CASE call[c] # NULL
    <2>1. Knows(c)
      BY DEF CallsKnow
    <2> QED
      BY <1>2, <2>1, CallTyped DEF Knows, Forward, present, presentNext
  <1> QED
    BY <1>1, <1>2

\* One call moves: to a call that knows, or to its end.
LEMMA OneCallMoves ==
    ASSUME CatalogTypeOK, CallsKnow, Forward, NEW c \in Calls,
           NEW new \in Call \cup {NULL}, call' = [call EXCEPT ![c] = new], Knows(c)'
    PROVE  CallsKnow' /\ call' \in [Calls -> Call \cup {NULL}]
  <1>1. call' \in [Calls -> Call \cup {NULL}]
    BY DEF CatalogTypeOK
  <1>2. ASSUME NEW x \in Calls PROVE Knows(x)'
    <2>1. CASE x = c
      BY <2>1
    <2>2. CASE x # c
      <3>1. call'[x] = call[x]
        BY <2>2 DEF CatalogTypeOK
      <3> QED
        BY <3>1, StillKnows
    <2> QED
      BY <2>1, <2>2
  <1> QED
    BY <1>1, <1>2 DEF CallsKnow

\* A call that ends knows nothing any more; the others know what they knew.
LEMMA CallEnds ==
    ASSUME CatalogTypeOK, CallsKnow, Forward, NEW c \in Calls, Ends(c)
    PROVE  CallsKnow' /\ call' \in [Calls -> Call \cup {NULL}]
  <1>1. call' = [call EXCEPT ![c] = NULL]
    BY DEF Ends
  <1>2. Knows(c)'
    BY <1>1 DEF Knows, CatalogTypeOK
  <1> QED
    BY <1>1, <1>2, OneCallMoves

\* Steps that only read.
LEMMA ReadingSteps ==
    ASSUME CatalogTypeOK, NothingDangles, UNCHANGED tables,
           CallsKnow', call' \in [Calls -> Call \cup {NULL}]
    PROVE  CatalogInv'
  BY DEF CatalogInv, CatalogTypeOK, NothingDangles, tables, present

-----------------------------------------------------------------------------
(* Steps that leave the tables alone. *)

\* A call begins with what its lookups found.
LEMMA BeginsKeep ==
    ASSUME CatalogInv, NEW c \in Calls, NEW co \in Companies, CatalogBegins(c, co)
    PROVE  CatalogInv'
  <1> USE DEF CatalogInv
  <1>1. ASSUME NEW d \in Departments, NEW types \in Confirmed, confirmTypes(c, co, d, types)
        PROVE  CatalogInv'
    <2> DEFINE new == [op |-> "insert", dept |-> d, types |-> types, unchecked |-> DOMAIN types]
    <2>1. new \in Call
      BY DEF Call, Confirmed
    <2>2. Knows(c)'
      BY <1>1, RowsAreNoMarks
      DEF confirmTypes, Starts, Knows, departmentOf, CatalogTypeOK, tables
    <2> QED
      BY <1>1, <2>1, <2>2, OneCallMoves, StillForward, ReadingSteps DEF confirmTypes, Starts
  <1>2. ASSUME NEW t \in Types, NEW n \in Optional(Names), NEW policy \in Optional(Policies),
               updateRequestType(c, co, t, n, policy)
        PROVE  CatalogInv'
    <2> DEFINE new == [op |-> "edit", type |-> t, dept |-> requestType[t].dept, name |-> n,
                       policy |-> policy, unchecked |-> n # Undefined]
    <2>1. new \in Call
      BY <1>2, PresentTyped DEF updateRequestType, typeOf, TypeRow, Call
    <2>2. Knows(c)'
      BY <1>2 DEF updateRequestType, Starts, Knows, CatalogTypeOK
    <2> QED
      BY <1>2, <2>1, <2>2, OneCallMoves, StillForward, ReadingSteps
      DEF updateRequestType, Starts
  <1>3. ASSUME NEW t \in Types, deleteRequestType(c, co, t)
        PROVE  CatalogInv'
    <2>1. [op |-> "deleteType", type |-> t] \in Call
      BY DEF Call
    <2>2. Knows(c)'
      BY <1>3 DEF deleteRequestType, Starts, Knows, CatalogTypeOK
    <2> QED
      BY <1>3, <2>1, <2>2, OneCallMoves, StillForward, ReadingSteps
      DEF deleteRequestType, Starts
  <1>4. ASSUME NEW d \in Departments, deleteDepartment(c, co, d)
        PROVE  CatalogInv'
    <2>1. [op |-> "deleteDepartment", dept |-> d] \in Call
      BY DEF Call
    <2>2. Knows(c)'
      BY <1>4, RowsAreNoMarks
      DEF deleteDepartment, Starts, Knows, departmentOf, CatalogTypeOK, tables
    <2> QED
      BY <1>4, <2>1, <2>2, OneCallMoves, StillForward, ReadingSteps
      DEF deleteDepartment, Starts
  <1>5. ASSUME NEW d \in Departments, NEW t \in Types, submit(c, co, d, t)
        PROVE  CatalogInv'
    <2>1. present(t) /\ requestType[t].dept = d
      BY <1>5 DEF submit, ensureRequestType, typeOf
    <2>2. [op |-> "submit", dept |-> d, type |-> t, policy |-> requestType[t].policy] \in Call
      BY <2>1, PresentTyped DEF TypeRow, Call
    <2>3. Knows(c)'
      BY <1>5, <2>1 DEF submit, Starts, Knows, present, CatalogTypeOK, tables
    <2> QED
      BY <1>5, <2>2, <2>3, OneCallMoves, StillForward, ReadingSteps DEF submit, Starts
  <1>6. ASSUME NEW e \in Employees, NEW d \in Departments, assign(c, co, e, d)
        PROVE  CatalogInv'
    <2>1. [op |-> "assign", employee |-> e, dept |-> d] \in Call
      BY DEF Call
    <2>2. Knows(c)'
      BY <1>6, RowsAreNoMarks
      DEF assign, Starts, Knows, departmentOf, CatalogTypeOK, tables
    <2> QED
      BY <1>6, <2>1, <2>2, OneCallMoves, StillForward, ReadingSteps DEF assign, Starts
  <1> QED
    BY <1>1, <1>2, <1>3, <1>4, <1>5, <1>6 DEF CatalogBegins

\* Checks, counts, the first statement of a deletion, and refusals.
LEMMA ChecksKeep ==
    ASSUME CatalogInv, NEW c \in Calls,
           \/ checkName(c) \/ editCheck(c) \/ countUses(c) \/ countDependants(c)
           \/ deleteTypes(c)
    PROVE  CatalogInv'
  <1> USE DEF CatalogInv
  <1>1. call[c] # NULL /\ UNCHANGED tables
    BY DEF checkName, editCheck, countUses, countDependants, deleteTypes, Is
  <1>2. Knows(c)
    BY DEF CallsKnow
  <1>3. CASE checkName(c)
    <2>1. PICK n \in call[c].unchecked :
             call' = [call EXCEPT ![c] = [call[c] EXCEPT !.unchecked = @ \ {n}]]
      BY <1>3 DEF checkName, CatalogTypeOK
    <2>2. [call[c] EXCEPT !.unchecked = @ \ {n}] \in Call
      BY <1>1, <1>3, CallTyped DEF checkName, Is, Call
    <2>3. Knows(c)'
      BY <1>1, <1>2, <1>3, <2>1, CallTyped
      DEF checkName, Is, Knows, Call, CatalogTypeOK, tables
    <2> QED
      BY <1>1, <2>1, <2>2, <2>3, OneCallMoves, StillForward, ReadingSteps
  <1>4. CASE editCheck(c)
    <2>1. call' = [call EXCEPT ![c] = [call[c] EXCEPT !.unchecked = FALSE]]
      BY <1>4 DEF editCheck, CatalogTypeOK
    <2>2. [call[c] EXCEPT !.unchecked = FALSE] \in Call
      BY <1>1, <1>4, CallTyped DEF editCheck, Is, Call
    <2>3. Knows(c)'
      BY <1>1, <1>4, <2>1, CallTyped DEF editCheck, Is, Knows, Call, CatalogTypeOK
    <2> QED
      BY <1>1, <2>1, <2>2, <2>3, OneCallMoves, StillForward, ReadingSteps
  <1>5. CASE countUses(c)
    <2>1. call' = [call EXCEPT ![c] = [call[c] EXCEPT !.op = "countedType"]]
      BY <1>5 DEF countUses, Goes, CatalogTypeOK
    <2>2. [call[c] EXCEPT !.op = "countedType"] \in Call
      BY <1>1, <1>5, CallTyped DEF countUses, Is, Call
    <2>3. Knows(c)'
      BY <1>1, <1>5, <2>1, CallTyped DEF countUses, Is, Knows, Call, CatalogTypeOK
    <2> QED
      BY <1>1, <2>1, <2>2, <2>3, OneCallMoves, StillForward, ReadingSteps
  <1>6. CASE countDependants(c)
    <2>1. call' = [call EXCEPT ![c] = [call[c] EXCEPT !.op = "countedDepartment"]]
      BY <1>6 DEF countDependants, Goes, CatalogTypeOK
    <2>2. [call[c] EXCEPT !.op = "countedDepartment"] \in Call
      BY <1>1, <1>6, CallTyped DEF countDependants, Is, Call
    <2>3. Knows(c)'
      BY <1>1, <1>2, <1>6, <2>1, CallTyped
      DEF countDependants, Is, Knows, Call, CatalogTypeOK, tables
    <2> QED
      BY <1>1, <2>1, <2>2, <2>3, OneCallMoves, StillForward, ReadingSteps
  <1>7. CASE deleteTypes(c)
    <2> DEFINE new == [op |-> "emptiedDepartment", dept |-> call[c].dept,
                       deleted |-> typesOf(call[c].dept)]
    <2>1. call' = [call EXCEPT ![c] = new]
      BY <1>7 DEF deleteTypes, CatalogTypeOK
    <2>2. new \in Call
      BY <1>1, <1>7, CallTyped DEF deleteTypes, Is, Call, typesOf
    <2>3. Knows(c)'
      BY <1>1, <1>2, <1>7, <2>1, CallTyped
      DEF deleteTypes, Is, Knows, CatalogTypeOK, tables, typesOf, present
    <2> QED
      BY <1>1, <2>1, <2>2, <2>3, OneCallMoves, StillForward, ReadingSteps
  <1> QED
    BY <1>3, <1>4, <1>5, <1>6, <1>7

\* A call that is refused leaves every table as it is.
LEMMA RefusalsKeep ==
    ASSUME CatalogInv, NEW c \in Calls,
           \/ insertFails(c) \/ editFails(c) \/ deleteTypeFails(c)
           \/ deleteDepartmentFails(c) \/ submitFails(c) \/ assignFails(c)
    PROVE  CatalogInv'
  <1>1. Ends(c) /\ UNCHANGED tables
    BY DEF insertFails, editFails, deleteTypeFails, deleteDepartmentFails, submitFails,
           assignFails
  <1> QED
    BY <1>1, CallEnds, StillForward, ReadingSteps DEF CatalogInv

-----------------------------------------------------------------------------
(* Steps that write. *)

\* New types for a department that exists.
LEMMA InsertKeeps ==
    ASSUME CatalogTypeOK, NothingDangles, NEW d \in Departments, NEW types \in Confirmed,
           insertTypes(d, types), department' \in [Departments -> Companies \cup {NULL, GONE}],
           department'[d] \in Companies,
           \A x \in Departments : department[x] # NULL => department'[x] = department[x],
           UNCHANGED <<request, assigned>>
    PROVE  /\ requestType' \in [Types -> TypeRow \cup {NULL, GONE}]
           /\ NothingDangles'
           /\ Forward
  <1>1. /\ requestType' \in [Types -> TypeRow \cup {NULL, GONE}]
        /\ \A t \in Types : \/ requestType'[t] = requestType[t]
                            \/ /\ requestType[t] = NULL
                               /\ requestType'[t] \in TypeRow
                               /\ requestType'[t].dept = d
    BY InsertedRows
  <1>2. \A t \in Types : present(t) => presentNext(t) /\ requestType'[t] = requestType[t]
    BY <1>1 DEF present, presentNext
  <1>3. \A x \in Departments : department[x] \in Companies => department'[x] \in Companies
    BY RowsAreNoMarks
  <1>4. Forward
    BY <1>1, RowsAreNoMarks DEF Forward, present, presentNext
  <1>5. \A t \in Types : presentNext(t) => department'[requestType'[t].dept] \in Companies
    <2> SUFFICES ASSUME NEW t \in Types, presentNext(t)
                 PROVE  department'[requestType'[t].dept] \in Companies
      OBVIOUS
    <2>1. CASE requestType'[t] = requestType[t]
      <3>1. present(t)
        BY <2>1 DEF present, presentNext
      <3>2. requestType[t].dept \in Departments
        BY <3>1, PresentTyped DEF TypeRow
      <3> QED
        BY <1>3, <2>1, <3>1, <3>2 DEF NothingDangles
    <2>2. CASE requestType'[t].dept = d
      BY <2>2
    <2> QED
      BY <1>1, <2>1, <2>2
  <1>6. \A r \in Requests : request'[r] # NULL =>
          /\ department'[request'[r].dept] \in Companies
          /\ presentNext(request'[r].type)
          /\ requestType'[request'[r].type].dept = request'[r].dept
    <2> SUFFICES ASSUME NEW r \in Requests, request[r] # NULL
                 PROVE  /\ department'[request[r].dept] \in Companies
                        /\ presentNext(request[r].type)
                        /\ requestType'[request[r].type].dept = request[r].dept
      BY DEF presentNext
    <2>1. request[r].dept \in Departments /\ request[r].type \in Types
      BY DEF CatalogTypeOK, RequestRow
    <2> QED
      BY <1>2, <1>3, <2>1 DEF NothingDangles
  <1>7. \A e \in Employees : assigned'[e] # NULL => department'[assigned'[e]] \in Companies
    BY <1>3 DEF NothingDangles, CatalogTypeOK
  <1> QED
    BY <1>1, <1>4, <1>5, <1>6, <1>7 DEF NothingDangles, present, presentNext

\* A new department and its types get ids that nothing refers to yet.
LEMMA CreateKeeps ==
    ASSUME CatalogInv, NEW co \in Companies, NEW types \in Confirmed,
           createDepartment(co, types)
    PROVE  CatalogInv'
  <1> USE DEF CatalogInv
  <1>1. PICK d \in Departments :
          /\ department[d] = NULL
          /\ department' = [department EXCEPT ![d] = co]
          /\ insertTypes(d, types)
    BY DEF createDepartment
  <1>2. UNCHANGED <<request, assigned, call>>
    BY DEF createDepartment
  <1>3. /\ department' \in [Departments -> Companies \cup {NULL, GONE}]
        /\ department'[d] \in Companies
        /\ \A x \in Departments : department[x] # NULL => department'[x] = department[x]
    BY <1>1 DEF CatalogTypeOK
  <1>4. /\ requestType' \in [Types -> TypeRow \cup {NULL, GONE}]
        /\ NothingDangles'
        /\ Forward
    BY <1>1, <1>2, <1>3, InsertKeeps
  <1>5. CallsKnow'
    BY <1>2, <1>4, StillKnows DEF CallsKnow
  <1> QED
    BY <1>2, <1>3, <1>4, <1>5 DEF CatalogTypeOK

\* A confirmed list is inserted under a department that is still there.
LEMMA InsertCommitKeeps ==
    ASSUME CatalogInv, NEW c \in Calls, insertCommit(c)
    PROVE  CatalogInv'
  <1> USE DEF CatalogInv
  <1>1. /\ call[c] # NULL /\ call[c].op = "insert"
        /\ department[call[c].dept] # GONE
        /\ insertTypes(call[c].dept, call[c].types)
        /\ Ends(c)
        /\ UNCHANGED <<department, request, assigned>>
    BY DEF insertCommit, Is
  <1>2. call[c].dept \in Departments /\ call[c].types \in Confirmed
    BY <1>1, CallTyped
  <1>3. department[call[c].dept] \in Companies
    BY <1>1, <1>2 DEF CallsKnow, Knows, CatalogTypeOK
  <1>4. /\ requestType' \in [Types -> TypeRow \cup {NULL, GONE}]
        /\ NothingDangles'
        /\ Forward
    BY <1>1, <1>2, <1>3, InsertKeeps DEF CatalogTypeOK
  <1>5. CallsKnow' /\ call' \in [Calls -> Call \cup {NULL}]
    BY <1>1, <1>4, CallEnds
  <1> QED
    BY <1>1, <1>4, <1>5 DEF CatalogTypeOK

\* An edited type keeps its department.
LEMMA EditCommitKeeps ==
    ASSUME CatalogInv, NEW c \in Calls, editCommit(c)
    PROVE  CatalogInv'
  <1> USE DEF CatalogInv
  <1> DEFINE t == call[c].type
             row == [requestType[t] EXCEPT
                       !.name = IF call[c].name = Undefined THEN @ ELSE call[c].name,
                       !.policy = IF call[c].policy = Undefined THEN @ ELSE call[c].policy]
  <1>1. /\ call[c] # NULL /\ call[c].op = "edit"
        /\ present(t)
        /\ Ends(c)
        /\ UNCHANGED <<department, request, assigned>>
    BY DEF editCommit, Is
  <1>2. /\ t \in Types
        /\ call[c].name \in Optional(Names)
        /\ call[c].policy \in Optional(Policies)
    BY <1>1, CallTyped
  <1>3. requestType[t] \in TypeRow
    BY <1>1, <1>2, PresentTyped
  <1>4. row \in TypeRow /\ row.dept = requestType[t].dept
    BY <1>2, <1>3 DEF TypeRow, Optional
  <1>5. requestType' = [requestType EXCEPT ![t] = row]
    BY <1>2 DEF editCommit, CatalogTypeOK
  <1> HIDE DEF row
  <1>6. requestType' \in [Types -> TypeRow \cup {NULL, GONE}]
    BY <1>4, <1>5 DEF CatalogTypeOK
  <1>7. \A u \in Types :
          /\ presentNext(u) <=> present(u)
          /\ present(u) => requestType'[u].dept = requestType[u].dept
          /\ requestType[u] # NULL => requestType'[u] # NULL
    BY <1>1, <1>2, <1>4, <1>5, RowsAreNoMarks DEF present, presentNext, CatalogTypeOK
  <1>8. Forward
    BY <1>1, <1>7 DEF Forward, present, presentNext
  <1>9. NothingDangles'
    <2>1. \A u \in Types : presentNext(u) => department'[requestType'[u].dept] \in Companies
      BY <1>1, <1>7 DEF NothingDangles, present, presentNext
    <2>2. \A r \in Requests : request[r] # NULL => request[r].type \in Types
      BY DEF CatalogTypeOK, RequestRow
    <2>3. \A r \in Requests : request'[r] # NULL =>
            /\ department'[request'[r].dept] \in Companies
            /\ presentNext(request'[r].type)
            /\ requestType'[request'[r].type].dept = request'[r].dept
      <3> SUFFICES ASSUME NEW r \in Requests, request[r] # NULL
                   PROVE  /\ department[request[r].dept] \in Companies
                          /\ presentNext(request[r].type)
                          /\ requestType'[request[r].type].dept = request[r].dept
        BY <1>1 DEF present, presentNext
      <3> QED
        BY <1>7, <2>2 DEF NothingDangles, present, presentNext
    <2> QED
      BY <1>1, <2>1, <2>3 DEF NothingDangles, present, presentNext
  <1>10. CallsKnow' /\ call' \in [Calls -> Call \cup {NULL}]
    BY <1>1, <1>8, CallEnds
  <1> QED
    BY <1>1, <1>6, <1>9, <1>10 DEF CatalogTypeOK

\* A type that goes has no request, or the foreign key refuses.
LEMMA DeleteTypeKeeps ==
    ASSUME CatalogInv, NEW c \in Calls, deleteTypeCommit(c)
    PROVE  CatalogInv'
  <1> USE DEF CatalogInv
  <1>1. /\ call[c] # NULL /\ call[c].op = "countedType"
        /\ usesOf(call[c].type) = {}
        /\ requestType' = [requestType EXCEPT ![call[c].type] = GONE]
        /\ Ends(c)
        /\ UNCHANGED <<department, request, assigned>>
    BY DEF deleteTypeCommit, Is
  <1>2. call[c].type \in Types
    BY <1>1, CallTyped
  <1>3. requestType' \in [Types -> TypeRow \cup {NULL, GONE}]
    BY <1>1 DEF CatalogTypeOK
  <1>4. \A u \in Types :
          /\ presentNext(u) => present(u) /\ requestType'[u] = requestType[u]
          /\ u # call[c].type => requestType'[u] = requestType[u]
          /\ requestType[u] # NULL => requestType'[u] # NULL
    BY <1>1, <1>2, RowsAreNoMarks DEF present, presentNext, CatalogTypeOK
  <1>5. Forward
    BY <1>1, <1>4 DEF Forward
  <1>6. NothingDangles'
    <2>1. \A u \in Types : presentNext(u) => department'[requestType'[u].dept] \in Companies
      BY <1>1, <1>4 DEF NothingDangles
    <2>2. \A r \in Requests : request[r] # NULL =>
            request[r].type \in Types /\ request[r].type # call[c].type
      BY <1>1 DEF CatalogTypeOK, RequestRow, usesOf
    <2>3. \A r \in Requests : request[r] # NULL =>
            /\ department[request[r].dept] \in Companies
            /\ presentNext(request[r].type)
            /\ requestType'[request[r].type].dept = request[r].dept
      BY <1>4, <2>2 DEF NothingDangles, present, presentNext
    <2> QED
      BY <1>1, <2>1, <2>3 DEF NothingDangles, present, presentNext
  <1>7. CallsKnow' /\ call' \in [Calls -> Call \cup {NULL}]
    BY <1>1, <1>5, CallEnds
  <1> QED
    BY <1>1, <1>3, <1>6, <1>7 DEF CatalogTypeOK

\* A deletion of a department takes all of its types, and only those.
LEMMA DeletedWithDepartment ==
    ASSUME CatalogInv, NEW c \in Calls, deleteDepartmentCommit(c), NEW t \in Types
    PROVE  /\ present(t) /\ requestType[t].dept # call[c].dept =>
                requestType'[t] = requestType[t]
           /\ presentNext(t) =>
                /\ present(t)
                /\ requestType'[t] = requestType[t]
                /\ requestType[t].dept # call[c].dept
           /\ requestType[t] # NULL => requestType'[t] # NULL
  <1>1. /\ call[c] # NULL /\ call[c].op = "emptiedDepartment"
        /\ typesOf(call[c].dept) \subseteq call[c].deleted
        /\ requestType' = [u \in Types |->
              IF u \in call[c].deleted THEN GONE ELSE requestType[u]]
    BY DEF deleteDepartmentCommit, nothingLeft, Is
  <1>2. t \in call[c].deleted =>
          requestType[t] # NULL /\ (present(t) => requestType[t].dept = call[c].dept)
    BY <1>1 DEF CatalogInv, CallsKnow, Knows
  <1> QED
    BY <1>1, <1>2, RowsAreNoMarks DEF present, presentNext, typesOf

\* A department goes with its types, and nothing referred to either.
LEMMA DeleteDepartmentKeeps ==
    ASSUME CatalogInv, NEW c \in Calls, deleteDepartmentCommit(c)
    PROVE  CatalogInv'
  <1> USE DEF CatalogInv
  <1> DEFINE d == call[c].dept
  <1>1. /\ call[c] # NULL /\ call[c].op = "emptiedDepartment"
        /\ departmentFree(d)
        /\ department' = [department EXCEPT ![d] = GONE]
        /\ requestType' = [u \in Types |->
              IF u \in call[c].deleted THEN GONE ELSE requestType[u]]
        /\ Ends(c)
        /\ UNCHANGED <<request, assigned>>
    BY DEF deleteDepartmentCommit, nothingLeft, Is
  <1>2. d \in Departments
    BY <1>1, CallTyped
  <1>3. /\ department' \in [Departments -> Companies \cup {NULL, GONE}]
        /\ requestType' \in [Types -> TypeRow \cup {NULL, GONE}]
    BY <1>1 DEF CatalogTypeOK
  <1>4. \A x \in Departments :
          /\ x # d => department'[x] = department[x]
          /\ department[x] # NULL => department'[x] # NULL
    BY <1>1, <1>2, RowsAreNoMarks DEF CatalogTypeOK
  <1>5. Forward
    BY <1>4, DeletedWithDepartment DEF Forward
  <1>6. NothingDangles'
    <2>1. ASSUME NEW t \in Types, presentNext(t)
          PROVE  department'[requestType'[t].dept] \in Companies
      <3>1. /\ present(t)
            /\ requestType'[t] = requestType[t]
            /\ requestType[t].dept # d
        BY <2>1, DeletedWithDepartment
      <3>2. requestType[t].dept \in Departments
        BY <3>1, PresentTyped DEF TypeRow
      <3> QED
        BY <1>4, <3>1, <3>2 DEF NothingDangles
    <2>2. ASSUME NEW r \in Requests, request[r] # NULL
          PROVE  /\ department'[request[r].dept] \in Companies
                 /\ presentNext(request[r].type)
                 /\ requestType'[request[r].type].dept = request[r].dept
      <3>1. /\ request[r].dept \in Departments \ {d}
            /\ request[r].type \in Types
        BY <1>1, <2>2 DEF CatalogTypeOK, RequestRow, departmentFree, requestsOf
      <3>2. /\ present(request[r].type)
            /\ requestType[request[r].type].dept = request[r].dept
            /\ department[request[r].dept] \in Companies
        BY <2>2 DEF NothingDangles
      <3>3. requestType'[request[r].type] = requestType[request[r].type]
        BY <3>1, <3>2, DeletedWithDepartment
      <3> QED
        BY <1>4, <3>1, <3>2, <3>3 DEF present, presentNext
    <2>3. ASSUME NEW e \in Employees, assigned[e] # NULL
          PROVE  department'[assigned[e]] \in Companies
      <3>1. assigned[e] \in Departments \ {d}
        BY <1>1, <2>3 DEF CatalogTypeOK, departmentFree, staffOf
      <3> QED
        BY <1>4, <2>3, <3>1 DEF NothingDangles
    <2> QED
      BY <1>1, <2>1, <2>2, <2>3 DEF NothingDangles, present, presentNext
  <1>7. CallsKnow' /\ call' \in [Calls -> Call \cup {NULL}]
    BY <1>1, <1>5, CallEnds
  <1> QED
    BY <1>1, <1>3, <1>6, <1>7 DEF CatalogTypeOK

\* A request is stored with a type that is still there, in the department it was found in.
LEMMA SubmitKeeps ==
    ASSUME CatalogInv, NEW c \in Calls, submitCommit(c)
    PROVE  CatalogInv'
  <1> USE DEF CatalogInv
  <1> DEFINE row == [dept |-> call[c].dept, type |-> call[c].type, policy |-> call[c].policy]
  <1>1. /\ call[c] # NULL /\ call[c].op = "submit"
        /\ present(call[c].type)
        /\ Ends(c)
        /\ UNCHANGED <<department, requestType, assigned>>
    BY DEF submitCommit, Is
  <1>2. PICK r \in Requests : request' = [request EXCEPT ![r] = row]
    BY DEF submitCommit
  <1>3. /\ row \in RequestRow
        /\ call[c].type \in Types
    BY <1>1, CallTyped DEF RequestRow
  <1>4. /\ requestType[row.type].dept = row.dept
        /\ department[row.dept] \in Companies
    BY <1>1, <1>3 DEF CallsKnow, Knows, NothingDangles
  <1>5. request' \in [Requests -> RequestRow \cup {NULL}]
    BY <1>2, <1>3 DEF CatalogTypeOK
  <1>6. \A x \in Requests : request'[x] = request[x] \/ request'[x] = row
    BY <1>2 DEF CatalogTypeOK
  <1>7. NothingDangles'
    <2>1. present(row.type)
      BY <1>1
    <2> HIDE DEF row
    <2> QED
      BY <1>1, <1>4, <1>6, <2>1 DEF NothingDangles, present
  <1>8. Forward
    BY <1>1 DEF Forward, present, presentNext
  <1>9. CallsKnow' /\ call' \in [Calls -> Call \cup {NULL}]
    BY <1>1, <1>8, CallEnds
  <1> QED
    BY <1>1, <1>5, <1>7, <1>9 DEF CatalogTypeOK

\* An account is assigned to a department that is still there.
LEMMA AssignKeeps ==
    ASSUME CatalogInv, NEW c \in Calls, assignCommit(c)
    PROVE  CatalogInv'
  <1> USE DEF CatalogInv
  <1>1. /\ call[c] # NULL /\ call[c].op = "assign"
        /\ department[call[c].dept] # GONE
        /\ assigned' = [assigned EXCEPT ![call[c].employee] = call[c].dept]
        /\ Ends(c)
        /\ UNCHANGED <<department, requestType, request>>
    BY DEF assignCommit, Is
  <1>2. call[c].dept \in Departments
    BY <1>1, CallTyped
  <1>3. department[call[c].dept] \in Companies
    BY <1>1, <1>2 DEF CallsKnow, Knows, CatalogTypeOK
  <1>4. assigned' \in [Employees -> Departments \cup {NULL}]
    BY <1>1, <1>2 DEF CatalogTypeOK
  <1>5. \A e \in Employees : assigned'[e] = assigned[e] \/ assigned'[e] = call[c].dept
    BY <1>1 DEF CatalogTypeOK
  <1>6. NothingDangles'
    BY <1>1, <1>3, <1>5 DEF NothingDangles, present
  <1>7. Forward
    BY <1>1 DEF Forward, present, presentNext
  <1>8. CallsKnow' /\ call' \in [Calls -> Call \cup {NULL}]
    BY <1>1, <1>7, CallEnds
  <1> QED
    BY <1>1, <1>4, <1>6, <1>8 DEF CatalogTypeOK

-----------------------------------------------------------------------------
(* Theorems. *)

\* The departments a company starts with are referred to by nobody.
LEMMA CatalogStarts == CatalogInit => CatalogInv
  BY InitialDepartmentsAssumption
  DEF CatalogInit, CatalogInv, CatalogTypeOK, NothingDangles, CallsKnow, Knows, present

\* Every step keeps the invariant.
LEMMA CatalogSteps == CatalogInv /\ [CatalogNext]_catalogVars => CatalogInv'
  <1> SUFFICES ASSUME CatalogInv, [CatalogNext]_catalogVars
               PROVE  CatalogInv'
    OBVIOUS
  <1>1. ASSUME NEW co \in Companies, NEW types \in Confirmed, createDepartment(co, types)
        PROVE  CatalogInv'
    BY <1>1, CreateKeeps
  <1>2. ASSUME NEW c \in Calls, NEW co \in Companies, CatalogBegins(c, co)
        PROVE  CatalogInv'
    BY <1>2, BeginsKeep
  <1>3. ASSUME NEW c \in Calls, CatalogGoesOn(c)
        PROVE  CatalogInv'
    BY <1>3, ChecksKeep, RefusalsKeep, InsertCommitKeeps, EditCommitKeeps, DeleteTypeKeeps,
       DeleteDepartmentKeeps, SubmitKeeps, AssignKeeps DEF CatalogGoesOn
  <1>4. CASE CatalogRestart
    <2>1. UNCHANGED tables /\ call' = [c \in Calls |-> NULL]
      BY <1>4 DEF CatalogRestart
    <2>2. CallsKnow' /\ call' \in [Calls -> Call \cup {NULL}]
      BY <2>1 DEF CallsKnow, Knows
    <2> QED
      BY <2>1, <2>2, ReadingSteps DEF CatalogInv
  <1>5. CASE UNCHANGED catalogVars
    <2>1. UNCHANGED tables /\ call' = call
      BY <1>5 DEF catalogVars
    <2>2. CallsKnow' /\ call' \in [Calls -> Call \cup {NULL}]
      BY <2>1, StillForward, StillKnows DEF CatalogInv, CallsKnow, CatalogTypeOK
    <2> QED
      BY <2>1, <2>2, ReadingSteps DEF CatalogInv
  <1> QED
    BY <1>1, <1>2, <1>3, <1>4, <1>5 DEF CatalogNext

\* The inductive invariant: typed tables, nothing dangling, and calls that know at
\* least that what they found was once there and has not moved (auth.service.ts).
THEOREM CatalogInvariance == CatalogSpec => []CatalogInv
  BY CatalogStarts, CatalogSteps, PTL DEF CatalogSpec

\* Departments, types, requests and calls in flight keep their shape (the Prisma schema).
THEOREM CatalogTyped == CatalogSpec => []CatalogTypeOK
  BY CatalogInvariance, PTL DEF CatalogInv

\* No type, request or employee refers to a deleted department or type, however many
\* calls have found it before its deletion (deleteDepartment, deleteRequestType, create).
THEOREM ReferencesHold == CatalogSpec => []NothingDangles
  BY CatalogInvariance, PTL DEF CatalogInv

-----------------------------------------------------------------------------
(* How types leave and how they arrive. *)

\* A refused deletion of a department costs it no type (deleteDepartment's transaction).
THEOREM NoTypeIsLost == CatalogSpec => TypesLeaveWithDepartment
  <1> DEFINE Leaves(t) ==
               \/ department'[requestType[t].dept] = GONE
               \/ \E c \in Calls : Is(c, "countedType") /\ call[c].type = t
  <1>1. ASSUME CatalogInv, [CatalogNext]_catalogVars,
               NEW t \in Types, present(t), requestType'[t] = GONE
        PROVE  Leaves(t)
    <2>1. requestType'[t] # requestType[t]
      BY <1>1 DEF present
    <2>2. ASSUME NEW d \in Departments, NEW types \in Confirmed, insertTypes(d, types)
          PROVE  FALSE
      BY <1>1, <2>1, <2>2, InsertedRows DEF CatalogInv, present
    <2>3. ASSUME NEW co \in Companies, NEW types \in Confirmed, createDepartment(co, types)
          PROVE  FALSE
      BY <2>2, <2>3 DEF createDepartment
    <2>4. ASSUME NEW c \in Calls, insertCommit(c)
          PROVE  FALSE
      BY <1>1, <2>2, <2>4, CallTyped DEF insertCommit, Is, CatalogInv
    <2>5. ASSUME NEW c \in Calls, editCommit(c)
          PROVE  FALSE
      <3>1. present(call[c].type) /\ call[c].type \in Types
        BY <1>1, <2>5, CallTyped DEF editCommit, Is, CatalogInv
      <3>2. requestType[call[c].type] \in TypeRow
        BY <1>1, <3>1, PresentTyped DEF CatalogInv
      <3>3. requestType'[call[c].type] \in TypeRow
        BY <1>1, <2>5, <3>1, <3>2, CallTyped
        DEF editCommit, Is, CatalogInv, CatalogTypeOK, TypeRow, Optional
      <3>4. t = call[c].type
        BY <1>1, <2>1, <2>5 DEF editCommit, CatalogInv, CatalogTypeOK
      <3> QED
        BY <1>1, <3>3, <3>4, RowsAreNoMarks
    <2>6. ASSUME NEW c \in Calls, deleteTypeCommit(c)
          PROVE  Leaves(t)
      BY <1>1, <2>1, <2>6 DEF deleteTypeCommit, CatalogInv, CatalogTypeOK
    <2>7. ASSUME NEW c \in Calls, deleteDepartmentCommit(c)
          PROVE  Leaves(t)
      <3>1. requestType[t].dept = call[c].dept
        BY <1>1, <2>1, <2>7, DeletedWithDepartment
      <3>2. call[c].dept \in Departments
        BY <1>1, <2>7, CallTyped DEF deleteDepartmentCommit, Is, CatalogInv
      <3> QED
        BY <1>1, <2>7, <3>1, <3>2 DEF deleteDepartmentCommit, CatalogInv, CatalogTypeOK
    <2>8. ASSUME NEW c \in Calls,
                 \/ checkName(c) \/ insertFails(c) \/ editCheck(c) \/ editFails(c)
                 \/ countUses(c) \/ deleteTypeFails(c) \/ countDependants(c)
                 \/ deleteTypes(c) \/ deleteDepartmentFails(c) \/ submitCommit(c)
                 \/ submitFails(c) \/ assignCommit(c) \/ assignFails(c)
          PROVE  FALSE
      BY <2>1, <2>8
      DEF checkName, insertFails, editCheck, editFails, countUses, deleteTypeFails,
          countDependants, deleteTypes, deleteDepartmentFails, submitCommit, submitFails,
          assignCommit, assignFails, tables
    <2>9. ASSUME NEW c \in Calls, NEW co \in Companies, CatalogBegins(c, co)
          PROVE  FALSE
      BY <2>1, <2>9
      DEF CatalogBegins, confirmTypes, updateRequestType, deleteRequestType,
          deleteDepartment, submit, assign, tables
    <2>10. ~CatalogRestart /\ ~(UNCHANGED catalogVars)
      BY <2>1 DEF CatalogRestart, catalogVars, tables
    <2> QED
      BY <1>1, <2>3, <2>4, <2>5, <2>6, <2>7, <2>8, <2>9, <2>10 DEF CatalogNext, CatalogGoesOn
  <1>2. CatalogInv /\ [CatalogNext]_catalogVars =>
          [\A t \in Types : (present(t) /\ requestType'[t] = GONE) => Leaves(t)]_catalogVars
    BY <1>1
  <1> QED
    BY <1>2, CatalogInvariance, PTL DEF CatalogSpec, TypesLeaveWithDepartment

\* The types that a step adds to a department, and the list they amount to.
Added(d) == {t \in Types : requestType[t] = NULL /\ requestType'[t] # NULL
                                                /\ requestType'[t].dept = d}

ListOf(new) ==
    [n \in {requestType'[t].name : t \in new} |->
        (CHOOSE row \in {requestType'[t] : t \in new} : row.name = n).policy]

\* insertTypes adds to its department the list it was given, and to no other any.
LEMMA InsertedList ==
    ASSUME CatalogTypeOK, NEW d \in Departments, NEW types \in Confirmed,
           insertTypes(d, types)
    PROVE  /\ ListOf(Added(d)) = types
           /\ \A x \in Departments : x # d => Added(x) = {}
  <1>1. PICK S \in SUBSET Names : types \in [S -> Policies]
    BY DEF Confirmed
  <1>2. DOMAIN types = S
    BY <1>1
  <1>3. PICK id \in Injection(S, {t \in Types : requestType[t] = NULL}) :
          requestType' = [t \in Types |->
            IF t \in Range(id)
            THEN LET n == CHOOSE m \in S : id[m] = t
                 IN  [dept |-> d, name |-> n, policy |-> types[n]]
            ELSE requestType[t]]
    BY <1>2 DEF insertTypes
  <1>4. /\ id \in [S -> {t \in Types : requestType[t] = NULL}]
        /\ \A n, m \in S : id[n] = id[m] => n = m
    BY <1>3 DEF Injection, IsInjective
  <1>5. ASSUME NEW n \in S
        PROVE  /\ requestType'[id[n]] \in TypeRow
               /\ requestType'[id[n]].dept = d
               /\ requestType'[id[n]].name = n
               /\ requestType'[id[n]].policy = types[n]
    <2> DEFINE k == CHOOSE m \in S : id[m] = id[n]
    <2>1. k \in S /\ id[k] = id[n]
      OBVIOUS
    <2>2. k = n
      BY <1>4, <2>1
    <2>3. id[n] \in Types /\ id[n] \in Range(id)
      BY <1>4 DEF Range
    <2>4. requestType'[id[n]] = [dept |-> d, name |-> k, policy |-> types[k]]
      BY <1>3, <2>3
    <2>5. requestType'[id[n]] = [dept |-> d, name |-> n, policy |-> types[n]]
      BY <2>2, <2>4
    <2>6. n \in Names /\ types[n] \in Policies
      BY <1>1
    <2> HIDE DEF k
    <2>7. [dept |-> d, name |-> n, policy |-> types[n]] \in TypeRow
      BY <2>6 DEF TypeRow
    <2> QED
      BY <2>5, <2>7
  <1>6. \A t \in Types : (requestType[t] = NULL /\ requestType'[t] # NULL) =>
          \E n \in S : t = id[n]
    BY <1>3, <1>4 DEF Range
  <1>7. Added(d) = {id[n] : n \in S}
    <2>1. ASSUME NEW t \in Added(d) PROVE t \in {id[n] : n \in S}
      BY <1>6, <2>1 DEF Added
    <2>2. ASSUME NEW n \in S PROVE id[n] \in Added(d)
      <3>1. id[n] \in Types /\ requestType[id[n]] = NULL
        BY <1>4
      <3>2. requestType'[id[n]] # NULL
        BY <1>5, RowsAreNoMarks
      <3>3. requestType'[id[n]].dept = d
        BY <1>5
      <3> QED
        BY <3>1, <3>2, <3>3 DEF Added
    <2> QED
      BY <2>1, <2>2
  <1>8. ASSUME NEW x \in Departments, x # d
        PROVE  Added(x) = {}
    BY <1>5, <1>6, <1>8 DEF Added
  <1>9. {requestType'[t].name : t \in Added(d)} = S
    BY <1>5, <1>7
  <1>10. ASSUME NEW n \in S
         PROVE  (CHOOSE row \in {requestType'[t] : t \in Added(d)} : row.name = n).policy
                  = types[n]
    <2> DEFINE R == {requestType'[t] : t \in Added(d)}
    <2>1. requestType'[id[n]] \in R /\ requestType'[id[n]].name = n
      BY <1>5, <1>7
    <2>2. ASSUME NEW row \in R, row.name = n PROVE row = requestType'[id[n]]
      BY <1>5, <1>7, <2>2
    <2> HIDE DEF R
    <2>3. (CHOOSE row \in R : row.name = n) = requestType'[id[n]]
      BY <2>1, <2>2
    <2>4. requestType'[id[n]].policy = types[n]
      BY <1>5
    <2> QED
      BY <2>3, <2>4 DEF R
  <1>11. ListOf(Added(d)) = [n \in S |-> types[n]]
    BY <1>9, <1>10 DEF ListOf
  <1> QED
    BY <1>1, <1>8, <1>11

\* A confirmed list lands whole or not at all (insertConfirmedTypes in its transaction).
THEOREM NoPartOfAList == CatalogSpec => ListsLandWhole
  <1> DEFINE Lands(d) ==
               \/ department[d] = NULL
               \/ \E c \in Calls : /\ Is(c, "insert") /\ call'[c] = NULL
                                   /\ call[c].dept = d
                                   /\ call[c].types = ListOf(Added(d))
  <1>1. ASSUME CatalogInv, [CatalogNext]_catalogVars, NEW d \in Departments, Added(d) # {}
        PROVE  Lands(d)
    <2>1. PICK t \in Types : requestType[t] = NULL /\ requestType'[t] # requestType[t]
      BY <1>1 DEF Added
    <2>2. ASSUME NEW co \in Companies, NEW types \in Confirmed, createDepartment(co, types)
          PROVE  Lands(d)
      <3>1. PICK x \in Departments : department[x] = NULL /\ insertTypes(x, types)
        BY <2>2 DEF createDepartment
      <3>2. d = x
        BY <1>1, <3>1, InsertedList DEF CatalogInv
      <3> QED
        BY <3>1, <3>2
    <2>3. ASSUME NEW c \in Calls, insertCommit(c)
          PROVE  Lands(d)
      <3>1. /\ Is(c, "insert") /\ call'[c] = NULL
            /\ insertTypes(call[c].dept, call[c].types)
        BY <1>1, <2>3 DEF insertCommit, Ends, CatalogInv, CatalogTypeOK
      <3>2. call[c].dept \in Departments /\ call[c].types \in Confirmed
        BY <1>1, <3>1, CallTyped DEF Is, CatalogInv
      <3>3. call[c].types = ListOf(Added(call[c].dept)) /\ d = call[c].dept
        BY <1>1, <3>1, <3>2, InsertedList DEF CatalogInv
      <3> QED
        BY <3>1, <3>3
    <2>4. ASSUME NEW c \in Calls, editCommit(c)
          PROVE  FALSE
      <3>1. present(call[c].type) /\ call[c].type \in Types
        BY <1>1, <2>4, CallTyped DEF editCommit, Is, CatalogInv
      <3> QED
        BY <1>1, <2>1, <2>4, <3>1 DEF editCommit, present, CatalogInv, CatalogTypeOK
    <2>5. ASSUME NEW c \in Calls, deleteTypeCommit(c)
          PROVE  FALSE
      BY <1>1, <2>1, <2>5 DEF deleteTypeCommit, present, CatalogInv, CatalogTypeOK
    <2>6. ASSUME NEW c \in Calls, deleteDepartmentCommit(c)
          PROVE  FALSE
      <3>1. t \in call[c].deleted
        BY <2>1, <2>6 DEF deleteDepartmentCommit
      <3> QED
        BY <1>1, <2>1, <2>6, <3>1
        DEF deleteDepartmentCommit, Is, CatalogInv, CallsKnow, Knows
    <2>7. ASSUME NEW c \in Calls,
                 \/ checkName(c) \/ insertFails(c) \/ editCheck(c) \/ editFails(c)
                 \/ countUses(c) \/ deleteTypeFails(c) \/ countDependants(c)
                 \/ deleteTypes(c) \/ deleteDepartmentFails(c) \/ submitCommit(c)
                 \/ submitFails(c) \/ assignCommit(c) \/ assignFails(c)
          PROVE  FALSE
      BY <2>1, <2>7
      DEF checkName, insertFails, editCheck, editFails, countUses, deleteTypeFails,
          countDependants, deleteTypes, deleteDepartmentFails, submitCommit, submitFails,
          assignCommit, assignFails, tables
    <2>8. ASSUME NEW c \in Calls, NEW co \in Companies, CatalogBegins(c, co)
          PROVE  FALSE
      BY <2>1, <2>8
      DEF CatalogBegins, confirmTypes, updateRequestType, deleteRequestType,
          deleteDepartment, submit, assign, tables
    <2>9. ~CatalogRestart /\ ~(UNCHANGED catalogVars)
      BY <2>1 DEF CatalogRestart, catalogVars, tables
    <2> QED
      BY <1>1, <2>2, <2>3, <2>4, <2>5, <2>6, <2>7, <2>8, <2>9 DEF CatalogNext, CatalogGoesOn
  <1>2. CatalogInv /\ [CatalogNext]_catalogVars =>
          [\A d \in Departments : Added(d) # {} => Lands(d)]_catalogVars
    BY <1>1
  <1>3. (\A d \in Departments : Added(d) # {} => Lands(d)) =>
          \A d \in Departments :
            LET new == {t \in Types : requestType[t] = NULL /\ requestType'[t] # NULL
                                                           /\ requestType'[t].dept = d}
                types == [n \in {requestType'[t].name : t \in new} |->
                             (CHOOSE row \in {requestType'[t] : t \in new} : row.name = n).policy]
            IN  new # {} =>
                  \/ department[d] = NULL
                  \/ \E c \in Calls : /\ Is(c, "insert") /\ call'[c] = NULL
                                      /\ call[c].dept = d
                                      /\ call[c].types = types
    BY DEF Added, ListOf
  <1> QED
    BY <1>2, <1>3, CatalogInvariance, PTL DEF CatalogSpec, ListsLandWhole
=============================================================================
