------------------------ MODULE AccountAccessProofs ------------------------
(***************************************************************************)
(* Who gets in, for any number of companies, accounts, links and calls.    *)
(* A call remembers what it looked up before its transaction: that the     *)
(* company was active, that the account could sign in.  Both stay true     *)
(* because a company has one founder, whose account never goes away, and   *)
(* because rows of links are only ever marked, never taken back.           *)
(* What a call has proven of a password does not stay true; the last       *)
(* section is about the sessions that a replaced password leaves behind.   *)
(***************************************************************************)
EXTENDS AccountAccess, TLAPS

\* Somebody who reads the mail of e has opened its verification or invitation.
ThroughMail(e) ==
    \E l \in mailbox : /\ link[l] # NULL
                       /\ link[l].account = e
                       /\ link[l].purpose \in {"verify", "invite"}
                       /\ link[l].used

\* The founder is the first account of its company.
FounderFirst ==
    \A e \in Employees : (account[e] # NULL \/ companyActive(e)) =>
        \E f \in Founders : CompanyOf[f] = CompanyOf[e] /\ account[f] # NULL

\* A stored link has been mailed; only founders verify.
LinksAreMailed ==
    \A l \in Links : link[l] # NULL =>
        /\ l \in mailbox
        /\ link[l].purpose = "verify" => link[l].account \in Founders
        /\ link[l].purpose = "reset" => ThroughMail(link[l].account)

\* What a call in flight has found still holds when it commits.
CallsStillFit ==
    \A c \in Calls : call[c] # NULL =>
        /\ call[c].op = "signup" => call[c].account \in Founders
        /\ call[c].op \in {"invite", "login", "reset", "retire", "remove", "revoke", "restore"} =>
              companyActive(call[c].account)
        /\ call[c].op \in {"login", "reset", "retire"} => ThroughMail(call[c].account)

\* Whoever could sign in has come through the mail.
PasswordThroughMail ==
    \A e \in Employees :
        (account[e] # NULL /\ account[e].password # NULL /\ companyActive(e)) => ThroughMail(e)

\* The invariant: everything above, with the types.
AccessInv ==
    /\ AccessTypeOK
    /\ FounderFirst
    /\ LinksAreMailed
    /\ CallsStillFit
    /\ PasswordThroughMail
    /\ PendingCompanyIsClosed
    /\ SignedInThroughMail

-----------------------------------------------------------------------------
(* Types. *)

\* NULL is none of the values that a row may be.
LEMMA NullIsNoRow ==
    /\ NULL \notin AccountRow /\ NULL \notin LinkRow /\ NULL \notin SessionRow
    /\ NULL \notin Call /\ NULL \notin Passwords
  BY NoRowAssumption

\* A call in flight, by its operation.
LEMMA CallTyped ==
    ASSUME AccessTypeOK, NEW c \in Calls, call[c] # NULL
    PROVE  /\ call[c] \in Call
           /\ call[c].op \notin {"open", "change"} => call[c].account \in Employees
           /\ call[c].op \in {"signup", "login", "open", "change"} => call[c].password \in Passwords
           /\ call[c].op = "retire" => call[c].older \subseteq Links
           /\ call[c].op = "open" => call[c].link \in Links
           /\ call[c].op = "change" => call[c].session \in Sessions
  <1>1. call[c] \in Call
    BY DEF AccessTypeOK, Null
  <1> QED
    BY <1>1 DEF Call

\* The rows behind the references of the tables.
LEMMA RowsTyped ==
    ASSUME AccessTypeOK
    PROVE  /\ \A e \in Employees : account[e] # NULL => account[e] \in AccountRow
           /\ \A l \in Links : link[l] # NULL =>
                 link[l] \in LinkRow /\ link[l].account \in Employees /\ account[link[l].account] # NULL
           /\ \A s \in Sessions : session[s] # NULL =>
                 session[s] \in SessionRow /\ session[s].account \in Employees
                 /\ account[session[s].account] # NULL
  BY DEF AccessTypeOK, Null, LinkRow, SessionRow

\* What every step leaves: accounts and links stay and only become more used, the
\* mail that is out is out.
Forward ==
    /\ \A e \in Employees : account[e] # NULL => account'[e] # NULL
    /\ \A l \in Links : link[l] # NULL =>
          /\ link'[l] # NULL
          /\ link'[l].account = link[l].account
          /\ link'[l].purpose = link[l].purpose
          /\ link[l].used => link'[l].used
    /\ mailbox \subseteq mailbox'
    /\ \A s \in Sessions : session[s] # NULL =>
          session'[s] # NULL /\ session'[s].account = session[s].account

\* The tables alone have their shape.
TablesTyped ==
    /\ company \in [Companies -> {"ABSENT", "PENDING", "ACTIVE"}]
    /\ account \in [Employees -> Null(AccountRow)]
    /\ link \in [Links -> Null(LinkRow)]
    /\ mailbox \subseteq Links
    /\ session \in [Sessions -> Null(SessionRow)]

\* A revoked session is still the session of its account.
LEMMA RevokedTyped ==
    ASSUME AccessTypeOK, NEW e, NEW spared
    PROVE  /\ revokedSessions(e, spared) \in [Sessions -> Null(SessionRow)]
           /\ \A s \in Sessions : session[s] # NULL =>
                 /\ revokedSessions(e, spared)[s] # NULL
                 /\ revokedSessions(e, spared)[s].account = session[s].account
           /\ \A s \in Sessions : revokedSessions(e, spared)[s] # NULL => session[s] # NULL
  <1> DEFINE f == revokedSessions(e, spared)
  <1>1. /\ f = [s \in Sessions |-> f[s]]
        /\ \A s \in Sessions :
              \/ f[s] = session[s]
              \/ session[s] # NULL /\ f[s] = [session[s] EXCEPT !.revoked = TRUE]
    BY DEF revokedSessions
  <1>2. ASSUME NEW row \in SessionRow
        PROVE  LET revoked == [row EXCEPT !.revoked = TRUE]
               IN  revoked \in SessionRow /\ revoked.account = row.account
    BY DEF SessionRow
  <1>3. \A s \in Sessions : session[s] # NULL => session[s] \in SessionRow
    BY RowsTyped
  <1> HIDE DEF f
  <1>4. \A s \in Sessions : session[s] # NULL =>
            f[s] \in SessionRow /\ f[s].account = session[s].account
    BY <1>1, <1>2, <1>3
  <1>5. \A s \in Sessions : session[s] = NULL => f[s] = NULL
    BY <1>1
  <1>6. f \in [Sessions -> Null(SessionRow)]
    BY <1>1, <1>4, <1>5 DEF Null
  <1> QED
    BY <1>4, <1>5, <1>6, NullIsNoRow DEF f

\* A new link of an existing account.
LEMMA NewLinkTyped ==
    ASSUME NEW e \in Employees, NEW purpose \in {"verify", "invite", "reset"}
    PROVE  newLink(e, purpose) \in LinkRow /\ newLink(e, purpose) # NULL
  <1>1. newLink(e, purpose) \in LinkRow
    BY DEF newLink, LinkRow
  <1> QED
    BY <1>1, NullIsNoRow

\* What a call refers to exists.
Refers(k) ==
    /\ k.op \in {"login", "reset", "retire", "remove", "revoke", "restore"} => account[k.account] # NULL
    /\ k.op = "open" => link[k.link] # NULL
    /\ k.op = "retire" => \A l \in k.older : link[l] # NULL
    /\ k.op = "change" => session[k.session] # NULL

TablesRefer ==
    /\ \A l \in Links : link[l] # NULL => account[link[l].account] # NULL
    /\ \A s \in Sessions : session[s] # NULL => account[session[s].account] # NULL

\* The parts of the type invariant, one by one.
LEMMA TypeParts ==
    AccessTypeOK <=> /\ TablesTyped
                     /\ TablesRefer
                     /\ call \in [Calls -> Null(Call)]
                     /\ \A c \in Calls : call[c] # NULL => Refers(call[c])
  BY DEF AccessTypeOK, TablesTyped, TablesRefer, Refers

\* The same after a step, from its parts.
LEMMA TypePartsPrimed ==
    AccessTypeOK' <=> /\ TablesTyped'
                      /\ TablesRefer'
                      /\ call' \in [Calls -> Null(Call)]
                      /\ \A c \in Calls : call'[c] # NULL => Refers(call[c])'
  BY DEF AccessTypeOK, TablesTyped, TablesRefer, Refers

\* A step that leaves rows in their place only has to fit its own call.
LEMMA CallsTyped ==
    ASSUME AccessTypeOK, TablesTyped', TablesRefer', Forward,
           NEW c \in Calls, NEW new \in Null(Call), call' = [call EXCEPT ![c] = new],
           call'[c] # NULL => Refers(call[c])'
    PROVE  AccessTypeOK'
  <1>1. call \in [Calls -> Null(Call)] /\ call' \in [Calls -> Null(Call)]
    BY TypeParts
  <1>2. ASSUME NEW k \in Calls, k # c, call'[k] # NULL
        PROVE  Refers(call[k])'
    <2>1. call'[k] = call[k] /\ call[k] # NULL /\ Refers(call[k])
      BY <1>1, <1>2, TypeParts
    <2>2. /\ call[k].op \notin {"open", "change"} => call[k].account \in Employees
          /\ call[k].op = "open" => call[k].link \in Links
          /\ call[k].op = "retire" => call[k].older \subseteq Links
          /\ call[k].op = "change" => call[k].session \in Sessions
      BY <2>1, CallTyped
    <2> QED
      BY <2>1, <2>2 DEF Refers, Forward
  <1> QED
    BY <1>1, <1>2, TypePartsPrimed

\* What the other calls refer to is still there.
LEMMA CallsStay ==
    ASSUME AccessTypeOK, TablesTyped', TablesRefer', Forward, call' = call
    PROVE  AccessTypeOK'
  <1>1. ASSUME NEW k \in Calls, call[k] # NULL
        PROVE  Refers(call[k])'
    <2>1. Refers(call[k])
      BY <1>1, TypeParts
    <2>2. /\ call[k].op \notin {"open", "change"} => call[k].account \in Employees
          /\ call[k].op = "open" => call[k].link \in Links
          /\ call[k].op = "retire" => call[k].older \subseteq Links
          /\ call[k].op = "change" => call[k].session \in Sessions
      BY <1>1, CallTyped
    <2> QED
      BY <2>1, <2>2 DEF Refers, Forward
  <1> QED
    BY <1>1, TypeParts, TypePartsPrimed

\* A step that leaves the tables alone.
LEMMA TablesStay ==
    ASSUME AccessTypeOK, UNCHANGED tables
    PROVE  TablesTyped' /\ TablesRefer' /\ Forward
  BY TypeParts DEF tables, TablesTyped, TablesRefer, Forward

\* A step that keeps the tables typed and ends its call keeps the types.
LEMMA CallEnds ==
    ASSUME AccessTypeOK, TablesTyped', TablesRefer', Forward, NEW c \in Calls, Ends(c)
    PROVE  AccessTypeOK'
  <1>1. call'[c] = NULL /\ call' = [call EXCEPT ![c] = NULL] /\ NULL \in Null(Call)
    BY TypeParts DEF Ends, Null
  <1> QED
    BY <1>1, CallsTyped

\* So does one in which a call starts and no table changes.
LEMMA CallStarts ==
    ASSUME AccessTypeOK, NEW c \in Calls, NEW new \in Call, Refers(new), Starts(c, new), UNCHANGED tables
    PROVE  AccessTypeOK' /\ Forward
  <1>1. call'[c] = new /\ call' = [call EXCEPT ![c] = new] /\ new \in Null(Call)
    BY TypeParts DEF Starts, Null
  <1>2. Refers(call[c])'
    BY <1>1 DEF Refers, tables
  <1> QED
    BY <1>1, <1>2, TablesStay, CallsTyped

\* Every handler starts with rows it has found.
LEMMA BeginTyped ==
    ASSUME AccessTypeOK, NEW c \in Calls, CallBegins(c)
    PROVE  AccessTypeOK' /\ Forward
  <1> DEFINE Goal == AccessTypeOK' /\ Forward
  <1>1. ASSUME NEW e \in Founders, NEW p \in Passwords, signupCompany(c, e, p)
        PROVE  Goal
    <2>1. [op |-> "signup", account |-> e, password |-> p] \in Call
      BY FoundersAssumption DEF Call
    <2> QED
      BY <1>1, <2>1, CallStarts DEF signupCompany, Refers
  <1>2. ASSUME NEW e \in Employees, requestPasswordReset(c, e)
        PROVE  Goal
    <2>1. [op |-> "reset", account |-> e] \in Call
      BY DEF Call
    <2> QED
      BY <1>2, <2>1, CallStarts DEF requestPasswordReset, canSignIn, Refers
  <1>3. ASSUME NEW e \in Employees, NEW p \in Passwords, login(c, e, p)
        PROVE  Goal
    <2>1. [op |-> "login", account |-> e, password |-> p] \in Call
      BY DEF Call
    <2> QED
      BY <1>3, <2>1, CallStarts DEF login, canSignIn, Refers
  <1>4. ASSUME NEW l \in Links, NEW p \in Passwords, openLink(c, l, p)
        PROVE  Goal
    <2>1. [op |-> "open", link |-> l, password |-> p] \in Call
      BY DEF Call
    <2> QED
      BY <1>4, <2>1, CallStarts DEF openLink, linkOpens, live, Refers
  <1>5. ASSUME NEW s \in Sessions, NEW e \in Employees, inviteStaff(c, s, e)
        PROVE  Goal
    <2>1. [op |-> "invite", account |-> e] \in Call
      BY DEF Call
    <2> QED
      BY <1>5, <2>1, CallStarts DEF inviteStaff, Refers
  <1>6. ASSUME NEW s \in Sessions, NEW e \in Employees, NEW op \in {"remove", "restore"},
               administer(c, s, e, op)
        PROVE  Goal
    <2>1. [op |-> op, account |-> e] \in Call
      BY DEF Call
    <2> QED
      BY <1>6, <2>1, CallStarts DEF administer, Refers
  <1>7. ASSUME NEW s \in Sessions, NEW current \in Passwords, NEW p \in Passwords,
               changePassword(c, s, current, p)
        PROVE  Goal
    <2>1. [op |-> "change", session |-> s, password |-> p] \in Call
      BY DEF Call
    <2> QED
      BY <1>7, <2>1, CallStarts DEF changePassword, authenticate, open, Refers
  <1> QED
    BY <1>1, <1>2, <1>3, <1>4, <1>5, <1>6, <1>7 DEF CallBegins

\* A transaction that stores a new link of e, with the account of e stored by then.
LEMMA LinkStored ==
    ASSUME AccessTypeOK, TablesTyped', NEW l \in Links, NEW e \in Employees,
           NEW purpose \in {"verify", "invite", "reset"},
           fresh(l), link' = [link EXCEPT ![l] = newLink(e, purpose)],
           mailbox' = mailbox \cup {l}, UNCHANGED session,
           \A f \in Employees : account[f] # NULL \/ f = e => account'[f] # NULL
    PROVE  TablesRefer' /\ Forward
  <1>1. newLink(e, purpose).account = e
    BY DEF newLink
  <1>2. link \in [Links -> Null(LinkRow)]
    BY DEF AccessTypeOK
  <1>3. \A k \in Links : link'[k] = IF k = l THEN newLink(e, purpose) ELSE link[k]
    BY <1>2
  <1>4. \A k \in Links : link[k] # NULL => k # l
    BY DEF fresh
  <1> QED
    BY <1>1, <1>3, <1>4, RowsTyped DEF TablesRefer, Forward

Used(row) == [row EXCEPT !.used = TRUE]
Expired(row) == [row EXCEPT !.expired = TRUE]

\* A link that is used or expires stays the link it is.
LEMMA MarkTyped ==
    ASSUME NEW row \in LinkRow
    PROVE  /\ Used(row) \in LinkRow /\ Used(row).used
           /\ Used(row).account = row.account /\ Used(row).purpose = row.purpose
           /\ Expired(row) \in LinkRow /\ Expired(row).used = row.used
           /\ Expired(row).account = row.account /\ Expired(row).purpose = row.purpose
  BY DEF LinkRow, Used, Expired

\* A step that only marks links, and changes accounts in place.
LEMMA LinksMarked ==
    ASSUME AccessTypeOK, mailbox' = mailbox, link' = [l \in Links |-> link'[l]],
           \A l \in Links : \/ link'[l] = link[l]
                            \/ link[l] # NULL /\ link'[l] = Used(link[l])
                            \/ link[l] # NULL /\ link'[l] = Expired(link[l]),
           account' \in [Employees -> Null(AccountRow)],
           \A e \in Employees : account[e] # NULL => account'[e] # NULL,
           session' \in [Sessions -> Null(SessionRow)],
           \A s \in Sessions : session[s] # NULL => session'[s] # NULL /\ session'[s].account = session[s].account,
           \A s \in Sessions : session'[s] # NULL => account[session'[s].account] # NULL /\ session'[s].account \in Employees,
           company' \in [Companies -> {"ABSENT", "PENDING", "ACTIVE"}]
    PROVE  TablesTyped' /\ TablesRefer' /\ Forward
  <1>1. ASSUME NEW l \in Links, link[l] # NULL
        PROVE  /\ link'[l] # NULL
               /\ link'[l] \in LinkRow
               /\ link'[l].account = link[l].account
               /\ link'[l].purpose = link[l].purpose
               /\ link[l].used => link'[l].used
    <2>1. link[l] \in LinkRow
      BY <1>1, RowsTyped
    <2> QED
      BY <1>1, <2>1, MarkTyped, NullIsNoRow
  <1>2. \A l \in Links : link'[l] # NULL => link[l] # NULL
    OBVIOUS
  <1>3. link' \in [Links -> Null(LinkRow)]
    BY <1>1, <1>2 DEF Null
  <1>4. mailbox' \subseteq Links
    BY DEF AccessTypeOK
  <1>5. TablesTyped'
    BY <1>3, <1>4 DEF TablesTyped
  <1>6. TablesRefer'
    BY <1>1, <1>2, RowsTyped DEF TablesRefer
  <1> QED
    BY <1>1, <1>5, <1>6 DEF Forward

\* The step that uses one link: what a call that opens it does first.
LEMMA ClaimMarks ==
    ASSUME AccessTypeOK, NEW l \in Links, link[l] # NULL, claimLink(l)
    PROVE  /\ link' = [k \in Links |-> link'[k]]
           /\ \A k \in Links : link'[k] = IF k = l THEN Used(link[l]) ELSE link[k]
  BY DEF claimLink, AccessTypeOK, Used

\* Each handler that goes on keeps the shape of the tables.
LEMMA LinkCommitTyped ==
    ASSUME AccessTypeOK, NEW c \in Calls, NEW l \in Links,
           signupCommit(c, l) \/ inviteCommit(c, l) \/ resetCommit(c, l)
    PROVE  AccessTypeOK' /\ Forward
  <1>1. CASE signupCommit(c, l)
    <2> DEFINE e == call[c].account
    <2>1. e \in Employees /\ call[c].password \in Passwords /\ call[c] # NULL
      BY <1>1, CallTyped DEF signupCommit, Is
    <2>2. [password |-> call[c].password, active |-> FALSE] \in AccountRow
      BY <2>1 DEF AccountRow, Null
    <2>3. newLink(e, "verify") \in LinkRow
      BY <2>1, NewLinkTyped
    <2>4. /\ account' = [account EXCEPT ![e] = [password |-> call[c].password, active |-> FALSE]]
          /\ link' = [link EXCEPT ![l] = newLink(e, "verify")]
          /\ company' = [company EXCEPT ![CompanyOf[e]] = "PENDING"]
          /\ mailbox' = mailbox \cup {l} /\ session' = session /\ fresh(l)
          /\ Ends(c)
      BY <1>1 DEF signupCommit
    <2> HIDE DEF e
    <2>5. TablesTyped'
      BY <2>1, <2>2, <2>3, <2>4, TypeParts, FoundersAssumption DEF TablesTyped, Null
    <2>6. \A f \in Employees : account[f] # NULL \/ f = e => account'[f] # NULL
      BY <2>1, <2>2, <2>4, TypeParts, NullIsNoRow DEF TablesTyped
    <2>7. TablesRefer' /\ Forward
      BY <2>1, <2>4, <2>5, <2>6, LinkStored
    <2> QED
      BY <2>4, <2>5, <2>7, CallEnds
  <1>2. CASE inviteCommit(c, l)
    <2> DEFINE e == call[c].account
    <2>1. e \in Employees /\ call[c] # NULL
      BY <1>2, CallTyped DEF inviteCommit, Is
    <2>2. [password |-> NULL, active |-> FALSE] \in AccountRow
      BY DEF AccountRow, Null
    <2>3. newLink(e, "invite") \in LinkRow
      BY <2>1, NewLinkTyped
    <2>4. /\ account' = [account EXCEPT ![e] = [password |-> NULL, active |-> FALSE]]
          /\ link' = [link EXCEPT ![l] = newLink(e, "invite")]
          /\ company' = company
          /\ mailbox' = mailbox \cup {l} /\ session' = session /\ fresh(l)
          /\ Ends(c)
      BY <1>2 DEF inviteCommit
    <2> HIDE DEF e
    <2>5. TablesTyped'
      BY <2>1, <2>2, <2>3, <2>4, TypeParts DEF TablesTyped, Null
    <2>6. \A f \in Employees : account[f] # NULL \/ f = e => account'[f] # NULL
      BY <2>1, <2>2, <2>4, TypeParts, NullIsNoRow DEF TablesTyped
    <2>7. TablesRefer' /\ Forward
      BY <2>1, <2>4, <2>5, <2>6, LinkStored
    <2> QED
      BY <2>4, <2>5, <2>7, CallEnds
  <1>3. CASE resetCommit(c, l)
    <2> DEFINE e == call[c].account
               older == call[c].older
    <2>1. e \in Employees /\ older \subseteq Links /\ account[e] # NULL /\ \A k \in older : link[k] # NULL
      BY <1>3, CallTyped, TypeParts DEF resetCommit, Is, Refers
    <2>2. newLink(e, "reset") \in LinkRow /\ newLink(e, "reset") # NULL /\ newLink(e, "reset").account = e
      BY <2>1, NewLinkTyped DEF newLink
    <2>3. /\ link' = [k \in Links |-> IF k = l THEN newLink(e, "reset")
                        ELSE IF k \in older THEN Used(link[k]) ELSE link[k]]
          /\ mailbox' = mailbox \cup {l} /\ fresh(l)
          /\ UNCHANGED <<company, account, session>>
          /\ Ends(c)
      BY <1>3 DEF resetCommit, Used
    <2> HIDE DEF e, older

    <2>4. ASSUME NEW k \in Links, link[k] # NULL
          PROVE  /\ k # l /\ link'[k] # NULL /\ link'[k] \in LinkRow
                 /\ link'[k].account = link[k].account /\ link'[k].purpose = link[k].purpose
                 /\ link[k].used => link'[k].used
      <3>1. k # l /\ link[k] \in LinkRow
        BY <2>3, <2>4, RowsTyped DEF fresh
      <3> QED
        BY <2>3, <2>4, <3>1, MarkTyped, NullIsNoRow
    <2>5. \A k \in Links : link[k] = NULL => link'[k] = IF k = l THEN newLink(e, "reset") ELSE NULL
      BY <2>1, <2>3
    <2>6. link' \in [Links -> Null(LinkRow)]
      <3>1. \A k \in Links : link'[k] \in Null(LinkRow)
        BY <2>2, <2>4, <2>5 DEF Null
      <3> QED
        BY <2>3, <3>1
    <2>7. TablesTyped'
      BY <2>3, <2>6, TypeParts DEF TablesTyped
    <2>8. TablesRefer' /\ Forward
      BY <2>1, <2>2, <2>3, <2>4, <2>5, RowsTyped DEF TablesRefer, Forward
    <2> QED
      BY <2>3, <2>7, <2>8, CallEnds
  <1> QED
    BY <1>1, <1>2, <1>3

\* An account with a new password, or made active or inactive, is an account.
LEMMA AccountChanged ==
    ASSUME AccessTypeOK, NEW e \in Employees, account[e] # NULL, NEW row \in AccountRow,
           account' = [account EXCEPT ![e] = row]
    PROVE  /\ account' \in [Employees -> Null(AccountRow)]
           /\ \A f \in Employees : account'[f] = IF f = e THEN row ELSE account[f]
           /\ \A f \in Employees : account[f] # NULL => account'[f] # NULL
  BY NullIsNoRow DEF AccessTypeOK, Null

\* An account with another password or flag is still an account.
LEMMA RowChanged ==
    ASSUME NEW row \in AccountRow, NEW p \in Passwords, NEW b \in BOOLEAN
    PROVE  /\ [row EXCEPT !.password = p] \in AccountRow
           /\ [row EXCEPT !.active = b] \in AccountRow
           /\ [password |-> p, active |-> b] \in AccountRow
  BY DEF AccountRow, Null

\* A call that opens a link.
LEMMA OpenTyped ==
    ASSUME AccessTypeOK, NEW c \in Calls, Is(c, "open")
    PROVE  LET l == call[c].link
           IN  /\ l \in Links /\ link[l] # NULL /\ link[l] \in LinkRow
               /\ link[l].account \in Employees
               /\ account[link[l].account] # NULL /\ account[link[l].account] \in AccountRow
               /\ call[c].password \in Passwords
  <1>1. call[c].link \in Links /\ link[call[c].link] # NULL /\ call[c].password \in Passwords
    BY CallTyped, TypeParts DEF Is, Refers
  <1> QED
    BY <1>1, RowsTyped

\* The commits of the three operations that open a link.
LEMMA OpenCommitTyped ==
    ASSUME AccessTypeOK, NEW c \in Calls, verifyEmail(c) \/ acceptInvitation(c) \/ resetPassword(c)
    PROVE  AccessTypeOK' /\ Forward
  <1> DEFINE l == call[c].link
             e == link[l].account
  <1>1. Is(c, "open") /\ claimLink(l) /\ Ends(c) /\ mailbox' = mailbox
    BY DEF verifyEmail, acceptInvitation, resetPassword
  <1>2. /\ l \in Links /\ link[l] # NULL
        /\ e \in Employees /\ account[e] # NULL /\ account[e] \in AccountRow
        /\ call[c].password \in Passwords
    BY <1>1, OpenTyped
  <1>3. PICK row \in AccountRow : account' = [account EXCEPT ![e] = row]
    <2>1. CASE verifyEmail(c)
      <3>1. account' = [account EXCEPT ![e] = [account[e] EXCEPT !.active = TRUE]]
        BY <2>1 DEF verifyEmail
      <3>2. [account[e] EXCEPT !.active = TRUE] \in AccountRow
        BY <1>2 DEF AccountRow
      <3> QED
        BY <3>1, <3>2
    <2>2. CASE acceptInvitation(c)
      <3>1. account' = [account EXCEPT ![e] = [password |-> call[c].password, active |-> TRUE]]
        BY <2>2 DEF acceptInvitation
      <3> QED
        BY <1>2, <3>1, RowChanged
    <2>3. CASE resetPassword(c)
      <3>1. account' = [account EXCEPT ![e] = [account[e] EXCEPT !.password = call[c].password]]
        BY <2>3 DEF resetPassword
      <3>2. [account[e] EXCEPT !.password = call[c].password] \in AccountRow
        BY <1>2 DEF AccountRow, Null
      <3> QED
        BY <3>1, <3>2
    <2> QED
      BY <2>1, <2>2, <2>3
  <1>4. session' = session \/ session' = revokedSessions(e, {})
    BY DEF verifyEmail, acceptInvitation, resetPassword
  <1>5. /\ session' \in [Sessions -> Null(SessionRow)]
        /\ \A s \in Sessions : session[s] # NULL => session'[s] # NULL /\ session'[s].account = session[s].account
        /\ \A s \in Sessions : session'[s] # NULL => session[s] # NULL
    <2>1. CASE session' = session
      BY <2>1, TypeParts DEF TablesTyped
    <2>2. CASE session' = revokedSessions(e, {})
      BY <2>2, RevokedTyped
    <2> QED
      BY <1>4, <2>1, <2>2
  <1>6. company' \in [Companies -> {"ABSENT", "PENDING", "ACTIVE"}]
    BY TypeParts DEF verifyEmail, acceptInvitation, resetPassword, TablesTyped
  <1> HIDE DEF l, e
  <1>7. /\ link' = [k \in Links |-> link'[k]]
        /\ \A k \in Links : link'[k] = IF k = l THEN Used(link[l]) ELSE link[k]
    BY <1>1, <1>2, ClaimMarks
  <1>8. /\ account' \in [Employees -> Null(AccountRow)]
        /\ \A f \in Employees : account[f] # NULL => account'[f] # NULL
    BY <1>2, <1>3, AccountChanged
  <1>9. TablesTyped' /\ TablesRefer' /\ Forward
    BY <1>1, <1>2, <1>5, <1>6, <1>7, <1>8, RowsTyped, LinksMarked
  <1> QED
    BY <1>1, <1>9, CallEnds

\* A step that leaves links and accounts alone, and at most marks sessions.
LEMMA SessionsMarked ==
    ASSUME AccessTypeOK, UNCHANGED <<company, link, mailbox>>,
           account' \in [Employees -> Null(AccountRow)],
           \A e \in Employees : account[e] # NULL => account'[e] # NULL,
           session' \in [Sessions -> Null(SessionRow)],
           \A s \in Sessions : session[s] # NULL => session'[s] # NULL /\ session'[s].account = session[s].account,
           \A s \in Sessions : session'[s] # NULL => account[session'[s].account] # NULL /\ session'[s].account \in Employees
    PROVE  TablesTyped' /\ TablesRefer' /\ Forward
  <1>1. TablesTyped'
    BY TypeParts DEF TablesTyped
  <1>2. TablesRefer'
    BY RowsTyped DEF TablesRefer
  <1> QED
    BY <1>1, <1>2 DEF Forward

\* The commit of a change of password.
LEMMA ChangeCommitTyped ==
    ASSUME AccessTypeOK, NEW c \in Calls, changeCommit(c)
    PROVE  AccessTypeOK' /\ Forward
  <1> DEFINE s == call[c].session
             e == session[s].account
             p == call[c].password
  <1>1. /\ Is(c, "change") /\ Ends(c)
        /\ account' = [account EXCEPT ![e] = [account[e] EXCEPT !.password = p]]
        /\ session' = [revokedSessions(e, {s}) EXCEPT ![s].openedWith = p]
        /\ UNCHANGED <<company, link, mailbox>>
    BY DEF changeCommit
  <1>2. s \in Sessions /\ session[s] # NULL /\ p \in Passwords
    BY <1>1, CallTyped, TypeParts DEF Is, Refers
  <1>3. e \in Employees /\ account[e] # NULL /\ account[e] \in AccountRow
    BY <1>2, RowsTyped
  <1> HIDE DEF s, e, p
  <1>4. /\ account' \in [Employees -> Null(AccountRow)]
        /\ \A f \in Employees : account[f] # NULL => account'[f] # NULL
    <2>1. [account[e] EXCEPT !.password = p] \in AccountRow
      BY <1>2, <1>3 DEF AccountRow, Null
    <2> QED
      BY <1>1, <1>3, <2>1, AccountChanged
  <1>5. /\ session' \in [Sessions -> Null(SessionRow)]
        /\ \A t \in Sessions : session[t] # NULL => session'[t] # NULL /\ session'[t].account = session[t].account
        /\ \A t \in Sessions : session'[t] # NULL => session[t] # NULL
    <2> DEFINE f == revokedSessions(e, {s})
    <2>1. /\ f \in [Sessions -> Null(SessionRow)]
          /\ \A t \in Sessions : session[t] # NULL => f[t] # NULL /\ f[t].account = session[t].account
          /\ \A t \in Sessions : f[t] # NULL => session[t] # NULL
      BY RevokedTyped
    <2> HIDE DEF f
    <2>2. f[s] \in SessionRow
      BY <1>2, <2>1 DEF Null
    <2> DEFINE row == [f[s] EXCEPT !.openedWith = p]
    <2>3. row \in SessionRow /\ row.account = f[s].account
      BY <1>2, <2>2 DEF SessionRow
    <2>4. session' = [f EXCEPT ![s] = row]
      BY <1>1 DEF f
    <2> HIDE DEF row
    <2>5. row # NULL
      BY <2>3, NullIsNoRow
    <2> QED
      BY <1>2, <2>1, <2>3, <2>4, <2>5 DEF Null
  <1>6. TablesTyped' /\ TablesRefer' /\ Forward
    BY <1>1, <1>4, <1>5, RowsTyped, SessionsMarked
  <1> QED
    BY <1>1, <1>6, CallEnds

\* The commit of a login.
LEMMA LoginCommitTyped ==
    ASSUME AccessTypeOK, NEW c \in Calls, NEW s \in Sessions, loginCommit(c, s)
    PROVE  AccessTypeOK' /\ Forward
  <1> DEFINE e == call[c].account
             row == [account |-> e, revoked |-> FALSE, expired |-> FALSE, openedWith |-> call[c].password]
  <1>1. /\ Is(c, "login") /\ Ends(c) /\ session[s] = NULL
        /\ session' = [session EXCEPT ![s] = row]
        /\ UNCHANGED <<company, account, link, mailbox>>
    BY DEF loginCommit
  <1>2. e \in Employees /\ account[e] # NULL /\ call[c].password \in Passwords
    BY <1>1, CallTyped, TypeParts DEF Is, Refers
  <1>3. row \in SessionRow /\ row.account = e
    BY <1>2 DEF SessionRow
  <1> HIDE DEF e, row
  <1>4. row # NULL
    BY <1>3, NullIsNoRow
  <1>5. /\ session' \in [Sessions -> Null(SessionRow)]
        /\ \A t \in Sessions : session'[t] = IF t = s THEN row ELSE session[t]
        /\ account' \in [Employees -> Null(AccountRow)]
    BY <1>1, <1>3, TypeParts DEF TablesTyped, Null
  <1>6. TablesTyped' /\ TablesRefer' /\ Forward
    BY <1>1, <1>2, <1>3, <1>4, <1>5, RowsTyped, SessionsMarked
  <1> QED
    BY <1>1, <1>6, CallEnds

\* The writes of an administrator.
LEMMA AdminCommitTyped ==
    ASSUME AccessTypeOK, NEW c \in Calls, restoreCommit(c) \/ removeCommit(c) \/ revokeAccess(c)
    PROVE  AccessTypeOK' /\ Forward
  <1> DEFINE e == call[c].account
  <1>1. Is(c, "restore") \/ Is(c, "remove") \/ Is(c, "revoke")
    BY DEF restoreCommit, removeCommit, revokeAccess
  <1>2. call[c] # NULL /\ e \in Employees /\ account[e] # NULL /\ account[e] \in AccountRow
    BY <1>1, CallTyped, TypeParts, RowsTyped DEF Is, Refers
  <1>3. CASE restoreCommit(c) \/ removeCommit(c)
    <2>1. PICK b \in BOOLEAN : account' = [account EXCEPT ![e] = [account[e] EXCEPT !.active = b]]
      BY <1>3 DEF restoreCommit, removeCommit
    <2>2. [account[e] EXCEPT !.active = b] \in AccountRow
      BY <1>2 DEF AccountRow
    <2>3. UNCHANGED <<company, link, mailbox, session>>
      BY <1>3 DEF restoreCommit, removeCommit
    <2> HIDE DEF e
    <2>4. /\ account' \in [Employees -> Null(AccountRow)]
          /\ \A f \in Employees : account[f] # NULL => account'[f] # NULL
      BY <1>2, <2>1, <2>2, AccountChanged
    <2>5. TablesTyped' /\ TablesRefer' /\ Forward
      <3>1. session' \in [Sessions -> Null(SessionRow)]
        BY <2>3, TypeParts DEF TablesTyped
      <3> QED
        BY <2>3, <2>4, <3>1, RowsTyped, SessionsMarked
    <2>6. CASE restoreCommit(c)
      BY <2>5, <2>6, CallEnds DEF restoreCommit
    <2>7. CASE removeCommit(c)
      <3>1. call' = [call EXCEPT ![c] = [op |-> "revoke", account |-> e]]
        BY <2>7 DEF removeCommit, e
      <3>2. [op |-> "revoke", account |-> e] \in Call
        BY <1>2 DEF Call
      <3>3. Refers(call[c])'
        BY <1>2, <2>4, <3>1, TypeParts DEF Refers
      <3> QED
        BY <2>5, <3>1, <3>2, <3>3, CallsTyped DEF Null
    <2> QED
      BY <1>3, <2>6, <2>7
  <1>4. CASE revokeAccess(c)
    <2>1. /\ session' = revokedSessions(e, {})
          /\ link' = [l \in Links |-> IF l \in unusedLinks(e, "invite") THEN Used(link[l]) ELSE link[l]]
          /\ UNCHANGED <<company, account, mailbox>> /\ Ends(c)
      BY <1>4 DEF revokeAccess, Used
    <2>2. \A l \in unusedLinks(e, "invite") : link[l] # NULL
      BY DEF unusedLinks, linksOf
    <2>3. /\ session' \in [Sessions -> Null(SessionRow)]
          /\ \A s \in Sessions : session[s] # NULL => session'[s] # NULL /\ session'[s].account = session[s].account
          /\ \A s \in Sessions : session'[s] # NULL => session[s] # NULL
      BY <2>1, RevokedTyped
    <2>4. /\ company' \in [Companies -> {"ABSENT", "PENDING", "ACTIVE"}]
          /\ account' \in [Employees -> Null(AccountRow)]
      BY <2>1, TypeParts DEF TablesTyped
    <2>5. TablesTyped' /\ TablesRefer' /\ Forward
      BY <2>1, <2>2, <2>3, <2>4, RowsTyped, LinksMarked
    <2> QED
      BY <2>1, <2>5, CallEnds
  <1> QED
    BY <1>3, <1>4

\* A reset retires the older links, a link turns out to be used, a transaction rolls back.
LEMMA OtherStepsTyped ==
    ASSUME AccessTypeOK, NEW c \in Calls,
           \/ resetRetire(c) \/ LinkUsed(c)
           \/ Rollback(c, {}) \/ \E l \in Links : Rollback(c, {l})
    PROVE  AccessTypeOK' /\ Forward
  <1>1. CASE resetRetire(c)
    <2> DEFINE e == call[c].account
    <2>1. /\ Is(c, "reset") /\ UNCHANGED tables
          /\ call' = [call EXCEPT ![c] = [op |-> "retire", account |-> e, older |-> unusedLinks(e, "reset")]]
      BY <1>1 DEF resetRetire
    <2>2. e \in Employees /\ account[e] # NULL
      BY <2>1, CallTyped, TypeParts DEF Is, Refers
    <2>3. unusedLinks(e, "reset") \subseteq Links /\ \A l \in unusedLinks(e, "reset") : link[l] # NULL
      BY DEF unusedLinks, linksOf
    <2> DEFINE older == unusedLinks(e, "reset")
               new == [op |-> "retire", account |-> e, older |-> older]
    <2> HIDE DEF e, older
    <2>4. new \in Call
      BY <2>2, <2>3 DEF Call, older
    <2>5. new \in Null(Call)
      BY <2>4 DEF Null
    <2>6. call' = [call EXCEPT ![c] = new] /\ call'[c] = new
      BY <2>1, TypeParts DEF older
    <2>7. Refers(call[c])'
      BY <2>1, <2>2, <2>3, <2>6 DEF Refers, tables, older
    <2> HIDE DEF new
    <2> QED
      BY <2>1, <2>5, <2>6, <2>7, TablesStay, CallsTyped
  <1>2. CASE LinkUsed(c)
    BY <1>2, TablesStay, CallEnds DEF LinkUsed
  <1>3. ASSUME NEW sent \in SUBSET Links, Rollback(c, sent)
        PROVE  AccessTypeOK' /\ Forward
    <2>1. UNCHANGED <<company, account, link, session>> /\ mailbox' = mailbox \cup sent /\ Ends(c)
      BY <1>3 DEF Rollback
    <2>2. TablesTyped' /\ TablesRefer' /\ Forward
      BY <2>1, TypeParts DEF TablesTyped, TablesRefer, Forward
    <2> QED
      BY <2>1, <2>2, CallEnds
  <1> QED
    BY <1>1, <1>2, <1>3

\* Every step of a call in flight.
LEMMA GoesOnTyped ==
    ASSUME AccessTypeOK, NEW c \in Calls, CallGoesOn(c)
    PROVE  AccessTypeOK' /\ Forward
  BY LinkCommitTyped, OtherStepsTyped, OpenCommitTyped, LoginCommitTyped, ChangeCommitTyped, AdminCommitTyped
  DEF CallGoesOn

\* A step in which no call takes part.
LEMMA TimeTyped ==
    ASSUME AccessTypeOK,
           \/ \E s \in Sessions : logout(s) \/ rejectExpired(s) \/ SessionExpires(s)
           \/ \E l \in Links : LinkExpires(l)
           \/ AccessRestart
    PROVE  AccessTypeOK' /\ Forward
  <1>1. ASSUME NEW s \in Sessions, logout(s) \/ rejectExpired(s) \/ SessionExpires(s)
        PROVE  AccessTypeOK' /\ Forward
    <2>1. session[s] # NULL /\ session[s] \in SessionRow
      BY <1>1, RowsTyped DEF logout, rejectExpired, SessionExpires, authenticate, open
    <2>2. PICK row \in SessionRow : session' = [session EXCEPT ![s] = row] /\ row.account = session[s].account
      <3>1. /\ [session[s] EXCEPT !.revoked = TRUE] \in SessionRow
            /\ [session[s] EXCEPT !.revoked = TRUE].account = session[s].account
            /\ [session[s] EXCEPT !.expired = TRUE] \in SessionRow
            /\ [session[s] EXCEPT !.expired = TRUE].account = session[s].account
        BY <2>1 DEF SessionRow
      <3>2. \/ session' = [session EXCEPT ![s] = [session[s] EXCEPT !.revoked = TRUE]]
            \/ session' = [session EXCEPT ![s] = [session[s] EXCEPT !.expired = TRUE]]
        BY <1>1 DEF logout, rejectExpired, SessionExpires
      <3> QED
        BY <3>1, <3>2
    <2>3. UNCHANGED <<company, account, link, mailbox, call>>
      BY <1>1 DEF logout, rejectExpired, SessionExpires
    <2>4. /\ session' \in [Sessions -> Null(SessionRow)]
          /\ account' \in [Employees -> Null(AccountRow)]
          /\ \A t \in Sessions : session'[t] = IF t = s THEN row ELSE session[t]
      BY <2>2, <2>3, TypeParts DEF TablesTyped, Null
    <2>5. row # NULL
      BY NullIsNoRow
    <2>6. TablesTyped' /\ TablesRefer' /\ Forward
      BY <2>1, <2>2, <2>3, <2>4, <2>5, RowsTyped, SessionsMarked
    <2> QED
      BY <2>3, <2>6, CallsStay
  <1>2. ASSUME NEW l \in Links, LinkExpires(l)
        PROVE  AccessTypeOK' /\ Forward
    <2>1. /\ link[l] # NULL
          /\ link' = [link EXCEPT ![l] = Expired(link[l])]
          /\ UNCHANGED <<company, account, mailbox, session, call>>
      BY <1>2 DEF LinkExpires, live, Expired
    <2>2. /\ link' = [k \in Links |-> link'[k]]
          /\ \A k \in Links : link'[k] = IF k = l THEN Expired(link[l]) ELSE link[k]
      BY <2>1, TypeParts DEF TablesTyped
    <2>3. TablesTyped' /\ TablesRefer' /\ Forward
      <3>1. /\ company' \in [Companies -> {"ABSENT", "PENDING", "ACTIVE"}]
            /\ account' \in [Employees -> Null(AccountRow)]
            /\ session' \in [Sessions -> Null(SessionRow)]
        BY <2>1, TypeParts DEF TablesTyped
      <3> QED
        BY <2>1, <2>2, <3>1, RowsTyped, LinksMarked
    <2> QED
      BY <2>1, <2>3, CallsStay
  <1>3. CASE AccessRestart
    <2>1. call' \in [Calls -> Null(Call)] /\ \A c \in Calls : call'[c] = NULL
      BY <1>3 DEF AccessRestart, Null
    <2>2. TablesTyped' /\ TablesRefer' /\ Forward
      BY <1>3, TablesStay DEF AccessRestart
    <2> QED
      BY <2>1, <2>2, TypePartsPrimed
  <1> QED
    BY <1>1, <1>2, <1>3

\* Every step.
LEMMA TypedStep ==
    ASSUME AccessTypeOK, [AccessNext]_accessVars
    PROVE  AccessTypeOK' /\ Forward
  <1>1. CASE AccessNext
    BY <1>1, BeginTyped, GoesOnTyped, TimeTyped DEF AccessNext
  <1>2. CASE UNCHANGED accessVars
    BY <1>2, TablesStay, CallsStay DEF accessVars
  <1> QED
    BY <1>1, <1>2

\* The rows the database starts with have their shape.
LEMMA TypedStart == AccessInit => AccessTypeOK
  BY DEF AccessInit, AccessTypeOK, Null

\* Tables and calls in flight keep their shape and their references, whatever calls
\* race, expire, roll back or are lost in a restart (the schema's foreign keys).
THEOREM AccessTyped == AccessSpec => []AccessTypeOK
  BY TypedStart, TypedStep, PTL DEF AccessSpec

-----------------------------------------------------------------------------
(* Which handler changes what. *)

\* Only sign-up and verification write a company.
LEMMA CompanyForms ==
    ASSUME AccessTypeOK, AccessNext
    PROVE  \/ company' = company
           \/ \E c \in Calls, l \in Links : signupCommit(c, l)
           \/ \E c \in Calls : verifyEmail(c)
  BY DEF AccessNext, CallBegins, CallGoesOn, tables, signupCompany, requestPasswordReset, login,
     openLink, inviteStaff, administer, changePassword, inviteCommit, resetCommit, resetRetire,
     Rollback, acceptInvitation, resetPassword, LinkUsed, loginCommit, changeCommit,
     restoreCommit, removeCommit, revokeAccess, logout, rejectExpired, SessionExpires,
     LinkExpires, AccessRestart

\* The operations that write an account.
LEMMA AccountForms ==
    ASSUME AccessTypeOK, AccessNext
    PROVE  \/ account' = account
           \/ \E c \in Calls, l \in Links : signupCommit(c, l) \/ inviteCommit(c, l)
           \/ \E c \in Calls : verifyEmail(c) \/ acceptInvitation(c) \/ resetPassword(c)
           \/ \E c \in Calls : changeCommit(c) \/ restoreCommit(c) \/ removeCommit(c)
  BY DEF AccessNext, CallBegins, CallGoesOn, tables, signupCompany, requestPasswordReset, login,
     openLink, inviteStaff, administer, changePassword, resetCommit, resetRetire,
     Rollback, LinkUsed, loginCommit, revokeAccess, logout, rejectExpired, SessionExpires,
     LinkExpires, AccessRestart

\* Only three transactions store a link.
LEMMA LinkForms ==
    ASSUME AccessTypeOK, AccessNext, NEW l \in Links, link[l] = NULL, link'[l] # NULL
    PROVE  \E c \in Calls : signupCommit(c, l) \/ inviteCommit(c, l) \/ resetCommit(c, l)
  <1>1. \/ link' = link
        \/ \E c \in Calls, k \in Links : signupCommit(c, k) \/ inviteCommit(c, k) \/ resetCommit(c, k)
        \/ \E c \in Calls : verifyEmail(c) \/ acceptInvitation(c) \/ resetPassword(c)
        \/ \E c \in Calls : revokeAccess(c)
        \/ \E k \in Links : LinkExpires(k)
    BY DEF AccessNext, CallBegins, CallGoesOn, tables, signupCompany, requestPasswordReset, login,
       openLink, inviteStaff, administer, changePassword, resetRetire,
       Rollback, LinkUsed, loginCommit, changeCommit, restoreCommit, removeCommit, logout,
       rejectExpired, SessionExpires, AccessRestart
  <1>2. ASSUME NEW c \in Calls, NEW k \in Links, signupCommit(c, k) \/ inviteCommit(c, k) \/ resetCommit(c, k)
        PROVE  k = l
    <2>1. CASE signupCommit(c, k) \/ inviteCommit(c, k)
      BY <2>1, TypeParts DEF signupCommit, inviteCommit, TablesTyped
    <2>2. CASE resetCommit(c, k)
      <3>1. \A m \in call[c].older : link[m] # NULL
        BY <2>2, TypeParts DEF resetCommit, Is, Refers
      <3> QED
        BY <2>2, <3>1 DEF resetCommit
    <2> QED
      BY <1>2, <2>1, <2>2
  <1>3. ASSUME NEW c \in Calls, verifyEmail(c) \/ acceptInvitation(c) \/ resetPassword(c)
        PROVE  FALSE
    <2>1. Is(c, "open") /\ claimLink(call[c].link)
      BY <1>3 DEF verifyEmail, acceptInvitation, resetPassword
    <2>2. call[c].link \in Links /\ link[call[c].link] # NULL
      BY <2>1, OpenTyped
    <2> QED
      BY <2>1, <2>2, ClaimMarks
  <1>4. ASSUME NEW c \in Calls, revokeAccess(c)
        PROVE  FALSE
    BY <1>4 DEF revokeAccess, unusedLinks, linksOf
  <1>5. ASSUME NEW k \in Links, LinkExpires(k)
        PROVE  FALSE
    BY <1>5, TypeParts DEF LinkExpires, live, TablesTyped
  <1> QED
    BY <1>1, <1>2, <1>3, <1>4, <1>5

\* Only login opens a session.
LEMMA SessionForms ==
    ASSUME AccessTypeOK, AccessNext, NEW s \in Sessions, session[s] = NULL, session'[s] # NULL
    PROVE  \E c \in Calls : loginCommit(c, s)
  <1>1. \/ session' = session
        \/ \E c \in Calls, t \in Sessions : loginCommit(c, t)
        \/ \E c \in Calls : resetPassword(c) \/ changeCommit(c) \/ revokeAccess(c)
        \/ \E t \in Sessions : logout(t) \/ rejectExpired(t) \/ SessionExpires(t)
    BY DEF AccessNext, CallBegins, CallGoesOn, tables, signupCompany, requestPasswordReset, login,
       openLink, inviteStaff, administer, changePassword, signupCommit, inviteCommit, resetCommit,
       resetRetire, Rollback, LinkUsed, verifyEmail, acceptInvitation, restoreCommit, removeCommit,
       LinkExpires, AccessRestart
  <1>2. ASSUME NEW c \in Calls, NEW t \in Sessions, loginCommit(c, t)
        PROVE  t = s
    BY <1>2, TypeParts DEF loginCommit, TablesTyped
  <1>3. ASSUME NEW c \in Calls, resetPassword(c) \/ changeCommit(c) \/ revokeAccess(c)
        PROVE  FALSE
    <2>1. CASE resetPassword(c) \/ revokeAccess(c)
      BY <2>1 DEF resetPassword, revokeAccess, revokedSessions
    <2>2. CASE changeCommit(c)
      <3>1. call[c].session \in Sessions /\ session[call[c].session] # NULL
        BY <2>2, CallTyped, TypeParts DEF changeCommit, Is, Refers
      <3> QED
        BY <2>2, <3>1 DEF changeCommit, revokedSessions
    <2> QED
      BY <1>3, <2>1, <2>2
  <1>4. ASSUME NEW t \in Sessions, logout(t) \/ rejectExpired(t) \/ SessionExpires(t)
        PROVE  FALSE
    BY <1>4, TypeParts DEF logout, rejectExpired, SessionExpires, authenticate, open, TablesTyped
  <1> QED
    BY <1>1, <1>2, <1>3, <1>4

\* A call is what it was, is over, has just begun, or is one of two that go on.
LEMMA CallForms ==
    ASSUME AccessTypeOK, AccessNext, NEW k \in Calls
    PROVE  \/ call'[k] = call[k]
           \/ call'[k] = NULL
           \/ CallBegins(k)
           \/ resetRetire(k)
           \/ removeCommit(k)
  <1>1. ASSUME NEW c \in Calls, CallBegins(c)
        PROVE  c = k \/ call'[k] = call[k]
    BY <1>1, TypeParts DEF CallBegins, Starts, signupCompany, requestPasswordReset, login, openLink,
       inviteStaff, administer, changePassword
  <1>2. ASSUME NEW c \in Calls, CallGoesOn(c), ~resetRetire(c), ~removeCommit(c)
        PROVE  call'[k] = call[k] \/ call'[k] = NULL
    <2>1. Ends(c)
      BY <1>2 DEF CallGoesOn, signupCommit, inviteCommit, resetCommit, Rollback, verifyEmail,
         acceptInvitation, resetPassword, LinkUsed, loginCommit, changeCommit, restoreCommit, revokeAccess
    <2> QED
      BY <2>1, TypeParts DEF Ends
  <1>3. ASSUME NEW c \in Calls, resetRetire(c) \/ removeCommit(c)
        PROVE  c = k \/ call'[k] = call[k]
    BY <1>3, TypeParts DEF resetRetire, removeCommit
  <1>4. ASSUME \/ \E s \in Sessions : logout(s) \/ rejectExpired(s) \/ SessionExpires(s)
               \/ \E l \in Links : LinkExpires(l)
               \/ AccessRestart
        PROVE  call'[k] = call[k] \/ call'[k] = NULL
    BY <1>4 DEF logout, rejectExpired, SessionExpires, LinkExpires, AccessRestart
  <1> QED
    BY <1>1, <1>2, <1>3, <1>4 DEF AccessNext

-----------------------------------------------------------------------------
(* Who gets in. *)

\* The companies that are active stay active.
LEMMA ActiveStays ==
    ASSUME AccessInv, AccessNext, NEW e \in Employees, companyActive(e)
    PROVE  companyActive(e)'
  <1>1. CASE \E c \in Calls, l \in Links : signupCommit(c, l)
    <2>1. PICK c \in Calls, l \in Links : signupCommit(c, l)
      BY <1>1
    <2> DEFINE f == call[c].account
    <2>2. f \in Founders /\ account[f] = NULL /\ company' = [company EXCEPT ![CompanyOf[f]] = "PENDING"]
      BY <2>1 DEF signupCommit, Is, AccessInv, CallsStillFit
    <2> HIDE DEF f
    <2>3. PICK g \in Founders : CompanyOf[g] = CompanyOf[e] /\ account[g] # NULL
      BY DEF AccessInv, FounderFirst
    <2>4. CompanyOf[f] # CompanyOf[e]
      BY <2>2, <2>3, FoundersAssumption
    <2> QED
      BY <2>2, <2>4, TypeParts, FoundersAssumption DEF companyActive, AccessInv, TablesTyped
  <1>2. CASE ~\E c \in Calls, l \in Links : signupCommit(c, l)
    <2>1. company' = company \/ \E c \in Calls : verifyEmail(c)
      BY <1>2, CompanyForms DEF AccessInv
    <2> QED
      BY <2>1, TypeParts, FoundersAssumption DEF verifyEmail, companyActive, AccessInv, TablesTyped
  <1> QED
    BY <1>1, <1>2

\* An opened mail stays opened.
LEMMA MailStays ==
    ASSUME AccessTypeOK, Forward, NEW e, ThroughMail(e)
    PROVE  ThroughMail(e)'
  <1>1. PICK l \in mailbox : /\ link[l] # NULL /\ link[l].account = e
                            /\ link[l].purpose \in {"verify", "invite"} /\ link[l].used
    BY DEF ThroughMail
  <1>2. l \in Links /\ l \in mailbox'
    BY <1>1 DEF AccessTypeOK, Forward
  <1>3. /\ link'[l] # NULL /\ link'[l].account = e
        /\ link'[l].purpose \in {"verify", "invite"} /\ link'[l].used
    BY <1>1, <1>2 DEF Forward
  <1> QED
    BY <1>2, <1>3 DEF ThroughMail

\* Whoever is signed in, or could be, is in an active company and came through the mail.
LEMMA AuthenticFits ==
    ASSUME AccessInv, NEW s \in Sessions, authenticate(s)
    PROVE  /\ session[s] # NULL /\ session[s].account \in Employees
           /\ companyActive(session[s].account)
           /\ ThroughMail(session[s].account)
  BY RowsTyped DEF AccessInv, authenticate, open, SignedInThroughMail, ThroughMail

\* Who can sign in belongs to an active company and was reached by mail.
LEMMA SignInFits ==
    ASSUME AccessInv, NEW e \in Employees, canSignIn(e)
    PROVE  companyActive(e) /\ ThroughMail(e)
  BY DEF AccessInv, canSignIn, PasswordThroughMail

\* A company becomes active when its founder verifies the email.
LEMMA ActivatedByFounder ==
    ASSUME AccessInv, AccessNext, NEW e \in Employees, companyActive(e)', ~companyActive(e)
    PROVE  \E c \in Calls :
              LET l == call[c].link
              IN  /\ verifyEmail(c)
                  /\ l \in Links /\ link[l] # NULL /\ link[l].purpose = "verify"
                  /\ link[l].account \in Founders
                  /\ account[link[l].account] # NULL
                  /\ CompanyOf[link[l].account] = CompanyOf[e]
  <1>1. TablesTyped /\ CompanyOf \in [Employees -> Companies] /\ Founders \subseteq Employees
    BY TypeParts, FoundersAssumption DEF AccessInv
  <1>2. ASSUME NEW c \in Calls, NEW l \in Links, signupCommit(c, l)
        PROVE  FALSE
    <2>1. call[c].account \in Employees
      BY <1>2, CallTyped DEF signupCommit, Is, AccessInv
    <2> QED
      BY <1>1, <1>2, <2>1 DEF signupCommit, companyActive, TablesTyped
  <1>3. PICK c \in Calls : verifyEmail(c)
    BY <1>2, CompanyForms DEF AccessInv, companyActive
  <1> DEFINE l == call[c].link
  <1>4. /\ l \in Links /\ link[l] # NULL /\ link[l].purpose = "verify"
        /\ link[l].account \in Employees /\ account[link[l].account] # NULL
    BY <1>3, OpenTyped DEF verifyEmail, AccessInv
  <1>5. link[l].account \in Founders
    BY <1>4 DEF AccessInv, LinksAreMailed
  <1>6. CompanyOf[link[l].account] = CompanyOf[e]
    BY <1>1, <1>3, <1>4 DEF verifyEmail, companyActive, TablesTyped
  <1> QED
    BY <1>3, <1>4, <1>5, <1>6

\* An account of a company that is not active changes only when it is made.
LEMMA PendingStays ==
    ASSUME AccessInv, AccessNext, NEW e \in Employees, account[e] # NULL,
           ~companyActive(e), ~companyActive(e)'
    PROVE  account'[e] = account[e]
  <1>1. TablesTyped /\ PendingCompanyIsClosed
    BY TypeParts DEF AccessInv
  <1>2. ASSUME NEW c \in Calls, NEW l \in Links, signupCommit(c, l) \/ inviteCommit(c, l)
        PROVE  account'[e] = account[e]
    <2>1. account[call[c].account] = NULL
      BY <1>2 DEF signupCommit, inviteCommit
    <2> QED
      BY <1>1, <1>2, <2>1 DEF signupCommit, inviteCommit, TablesTyped
  <1>3. ASSUME NEW c \in Calls, verifyEmail(c) \/ acceptInvitation(c) \/ resetPassword(c)
        PROVE  account'[e] = account[e]
    <2> DEFINE l == call[c].link
    <2>1. l \in Links /\ link[l] # NULL /\ link[l].account \in Employees
      BY <1>3, OpenTyped DEF verifyEmail, acceptInvitation, resetPassword, AccessInv
    <2>2. CASE link[l].account # e
      BY <1>1, <1>3, <2>1, <2>2 DEF verifyEmail, acceptInvitation, resetPassword, TablesTyped
    <2>3. CASE link[l].account = e
      <3>1. CASE verifyEmail(c)
        <4>1. company' = [company EXCEPT ![CompanyOf[e]] = "ACTIVE"]
          BY <2>3, <3>1 DEF verifyEmail
        <4> QED
          BY <1>1, <4>1, FoundersAssumption DEF companyActive, TablesTyped
      <3>2. CASE acceptInvitation(c) \/ resetPassword(c)
        <4>1. l \in linksOf(e, "invite") \cup linksOf(e, "reset")
          BY <2>1, <2>3, <3>2 DEF acceptInvitation, resetPassword, linksOf
        <4> QED
          BY <1>1, <4>1 DEF PendingCompanyIsClosed
      <3> QED
        BY <1>3, <3>1, <3>2
    <2> QED
      BY <2>2, <2>3
  <1>4. ASSUME NEW c \in Calls, changeCommit(c)
        PROVE  account'[e] = account[e]
    <2>1. call[c].session \in Sessions /\ session[call[c].session] # NULL
      BY <1>4, CallTyped, TypeParts DEF changeCommit, Is, Refers, AccessInv
    <2>2. session[call[c].session].account # e
      BY <1>1, <2>1 DEF PendingCompanyIsClosed
    <2> QED
      BY <1>1, <1>4, <2>2 DEF changeCommit, TablesTyped
  <1>5. ASSUME NEW c \in Calls, restoreCommit(c) \/ removeCommit(c)
        PROVE  account'[e] = account[e]
    <2>1. companyActive(call[c].account)
      BY <1>5 DEF restoreCommit, removeCommit, Is, AccessInv, CallsStillFit
    <2> QED
      BY <1>1, <1>5, <2>1 DEF restoreCommit, removeCommit, TablesTyped
  <1> QED
    BY <1>2, <1>3, <1>4, <1>5, AccountForms DEF AccessInv

\* A new account is a founder that cannot sign in, or an invited one without a password.
LEMMA NewAccount ==
    ASSUME AccessInv, AccessNext, NEW e \in Employees, account[e] = NULL, account'[e] # NULL
    PROVE  \/ companyActive(e) /\ account'[e].password = NULL
           \/ e \in Founders /\ ~account'[e].active /\ ~companyActive(e)'
  <1>1. TablesTyped
    BY TypeParts DEF AccessInv
  <1>2. ASSUME NEW c \in Calls, NEW l \in Links, signupCommit(c, l)
        PROVE  e \in Founders /\ ~account'[e].active /\ ~companyActive(e)'
    <2>1. call[c].account \in Founders /\ call[c].account \in Employees
      BY <1>2, FoundersAssumption DEF signupCommit, Is, AccessInv, CallsStillFit
    <2>2. e = call[c].account
      BY <1>1, <1>2, <2>1 DEF signupCommit, TablesTyped
    <2> QED
      BY <1>1, <1>2, <2>1, <2>2, FoundersAssumption DEF signupCommit, TablesTyped, companyActive
  <1>3. ASSUME NEW c \in Calls, NEW l \in Links, inviteCommit(c, l)
        PROVE  companyActive(e) /\ account'[e].password = NULL
    <2>1. companyActive(call[c].account) /\ call[c].account \in Employees
      BY <1>3, CallTyped DEF inviteCommit, Is, AccessInv, CallsStillFit
    <2>2. e = call[c].account
      BY <1>1, <1>3, <2>1 DEF inviteCommit, TablesTyped
    <2> QED
      BY <1>1, <1>3, <2>1, <2>2 DEF inviteCommit, TablesTyped
  <1>4. ASSUME NEW c \in Calls, verifyEmail(c) \/ acceptInvitation(c) \/ resetPassword(c)
        PROVE  FALSE
    <2>1. link[call[c].link].account \in Employees /\ account[link[call[c].link].account] # NULL
      BY <1>4, OpenTyped DEF verifyEmail, acceptInvitation, resetPassword, AccessInv
    <2> QED
      BY <1>1, <1>4, <2>1 DEF verifyEmail, acceptInvitation, resetPassword, TablesTyped
  <1>5. ASSUME NEW c \in Calls, changeCommit(c)
        PROVE  FALSE
    <2>1. account[session[call[c].session].account] # NULL
      BY <1>5, CallTyped, TypeParts, RowsTyped DEF changeCommit, Is, Refers, AccessInv
    <2> QED
      BY <1>1, <1>5, <2>1 DEF changeCommit, TablesTyped
  <1>6. ASSUME NEW c \in Calls, restoreCommit(c) \/ removeCommit(c)
        PROVE  FALSE
    <2>1. account[call[c].account] # NULL
      BY <1>6, TypeParts DEF restoreCommit, removeCommit, Is, Refers, AccessInv
    <2> QED
      BY <1>1, <1>6, <2>1 DEF restoreCommit, removeCommit, TablesTyped
  <1> QED
    BY <1>2, <1>3, <1>4, <1>5, <1>6, AccountForms DEF AccessInv

\* The rows of a company begin with its founder.
LEMMA FounderFirstStep ==
    ASSUME AccessInv, AccessNext, AccessTypeOK', Forward
    PROVE  FounderFirst'
  <1> SUFFICES ASSUME NEW e \in Employees, account'[e] # NULL \/ companyActive(e)'
               PROVE  \E f \in Founders : CompanyOf[f] = CompanyOf[e] /\ account'[f] # NULL
    BY DEF FounderFirst, companyActive
  <1>1. CASE account[e] # NULL \/ companyActive(e)
    BY <1>1, FoundersAssumption DEF AccessInv, FounderFirst, Forward
  <1>2. CASE account[e] = NULL /\ ~companyActive(e) /\ companyActive(e)'
    BY <1>2, ActivatedByFounder, FoundersAssumption DEF Forward
  <1>3. CASE account[e] = NULL /\ ~companyActive(e) /\ account'[e] # NULL
    BY <1>3, NewAccount
  <1> QED
    BY <1>1, <1>2, <1>3

\* Links are mailed, and for the accounts their purpose allows.
LEMMA LinksStep ==
    ASSUME AccessInv, AccessNext, AccessTypeOK', Forward
    PROVE  LinksAreMailed'
  <1> SUFFICES ASSUME NEW l \in Links, link'[l] # NULL
               PROVE  /\ l \in mailbox'
                      /\ link'[l].purpose = "verify" => link'[l].account \in Founders
                      /\ link'[l].purpose = "reset" => ThroughMail(link[l].account)'
    BY DEF LinksAreMailed, ThroughMail
  <1>1. CASE link[l] # NULL
    <2>1. /\ l \in mailbox
          /\ link[l].purpose = "verify" => link[l].account \in Founders
          /\ link[l].purpose = "reset" => ThroughMail(link[l].account)
          /\ link'[l].purpose = link[l].purpose /\ link'[l].account = link[l].account
      BY <1>1 DEF AccessInv, LinksAreMailed, Forward
    <2>2. ThroughMail(link[l].account) => ThroughMail(link[l].account)'
      <3> DEFINE e == link[l].account
      <3>1. ASSUME ThroughMail(e)
            PROVE  \E m \in mailbox' : /\ link'[m] # NULL /\ link'[m].account = e
                                       /\ link'[m].purpose \in {"verify", "invite"} /\ link'[m].used
        BY <3>1 DEF AccessInv, AccessTypeOK, ThroughMail, Forward
      <3> QED
        BY <2>1, <3>1 DEF ThroughMail
    <2> QED
      BY <2>1, <2>2 DEF Forward
  <1>2. CASE link[l] = NULL
    <2>1. PICK c \in Calls : signupCommit(c, l) \/ inviteCommit(c, l) \/ resetCommit(c, l)
      BY <1>2, LinkForms DEF AccessInv
    <2> DEFINE e == call[c].account
    <2>2. /\ l \in mailbox' /\ link'[l].account = e
          /\ link'[l].purpose = "verify" => signupCommit(c, l)
          /\ link'[l].purpose = "reset" => resetCommit(c, l)
      BY <2>1, TypeParts DEF signupCommit, inviteCommit, resetCommit, newLink, AccessInv, TablesTyped
    <2>3. signupCommit(c, l) => e \in Founders
      BY DEF signupCommit, Is, AccessInv, CallsStillFit
    <2>4. resetCommit(c, l) => ThroughMail(e)
      BY DEF resetCommit, Is, AccessInv, CallsStillFit
    <2>5. ASSUME ThroughMail(e)
          PROVE  \E m \in mailbox' : /\ link'[m] # NULL /\ link'[m].account = e
                                     /\ link'[m].purpose \in {"verify", "invite"} /\ link'[m].used
      BY <2>5 DEF AccessInv, AccessTypeOK, ThroughMail, Forward
    <2> QED
      BY <2>2, <2>3, <2>4, <2>5 DEF ThroughMail
  <1> QED
    BY <1>1, <1>2

\* What a call in flight has checked still holds.
LEMMA CallsStep ==
    ASSUME AccessInv, AccessNext, AccessTypeOK', Forward
    PROVE  CallsStillFit'
  <1> DEFINE Late == {"invite", "login", "reset", "retire", "remove", "revoke", "restore"}
  <1> SUFFICES ASSUME NEW k \in Calls, call'[k] # NULL
               PROVE  /\ call'[k].op = "signup" => call'[k].account \in Founders
                      /\ call'[k].op \in Late => companyActive(call[k].account)'
                      /\ call'[k].op \in {"login", "reset", "retire"} => ThroughMail(call[k].account)'
    BY DEF CallsStillFit
  <1>1. ASSUME NEW e \in Employees, e = call'[k].account,
               call'[k].op \in Late => companyActive(e),
               call'[k].op \in {"login", "reset", "retire"} => ThroughMail(e)
        PROVE  /\ call'[k].op \in Late => companyActive(call[k].account)'
               /\ call'[k].op \in {"login", "reset", "retire"} => ThroughMail(call[k].account)'
    <2>1. call'[k].op \in Late => companyActive(e)'
      BY <1>1, ActiveStays
    <2>2. call'[k].op \in {"login", "reset", "retire"} => ThroughMail(e)'
      BY <1>1, MailStays DEF AccessInv
    <2> QED
      BY <1>1, <2>1, <2>2 DEF companyActive, ThroughMail
  <1>2. CASE call'[k] = call[k]
    <2>1. call'[k].op \in Late => call'[k].account \in Employees
      BY <1>2, CallTyped DEF AccessInv
    <2> QED
      BY <1>1, <1>2, <2>1 DEF AccessInv, CallsStillFit
  <1>3. ASSUME CallBegins(k), call[k] = NULL
        PROVE  \/ call'[k].op = "open" \/ call'[k].op = "change"
               \/ call'[k].op = "signup" /\ call'[k].account \in Founders
               \/ \E e \in Employees :
                      /\ e = call'[k].account /\ call'[k].op # "signup" /\ companyActive(e)
                      /\ call'[k].op \in {"login", "reset", "retire"} => ThroughMail(e)
    <2> DEFINE Goal == \/ call'[k].op = "open" \/ call'[k].op = "change"
                       \/ call'[k].op = "signup" /\ call'[k].account \in Founders
                       \/ \E e \in Employees :
                              /\ e = call'[k].account /\ call'[k].op # "signup" /\ companyActive(e)
                              /\ call'[k].op \in {"login", "reset", "retire"} => ThroughMail(e)
    <2>1. \A new : Starts(k, new) => call'[k] = new
      BY TypeParts DEF Starts, AccessInv
    <2>2. ASSUME NEW e \in Founders, NEW p \in Passwords, signupCompany(k, e, p)
          PROVE  Goal
      BY <2>1, <2>2 DEF signupCompany
    <2>3. ASSUME NEW e \in Employees, requestPasswordReset(k, e)
          PROVE  Goal
      BY <2>1, <2>3, SignInFits DEF requestPasswordReset
    <2>4. ASSUME NEW e \in Employees, NEW p \in Passwords, login(k, e, p)
          PROVE  Goal
      BY <2>1, <2>4, SignInFits DEF login
    <2>5. ASSUME NEW l \in Links, NEW p \in Passwords, openLink(k, l, p)
          PROVE  Goal
      BY <2>1, <2>5 DEF openLink
    <2>6. ASSUME NEW s \in Sessions, NEW e \in Employees, inviteStaff(k, s, e)
          PROVE  Goal
      BY <2>1, <2>6, AuthenticFits DEF inviteStaff, companyActive
    <2>7. ASSUME NEW s \in Sessions, NEW e \in Employees, NEW op \in {"remove", "restore"},
                 administer(k, s, e, op)
          PROVE  Goal
      BY <2>1, <2>7, AuthenticFits DEF administer, companyActive
    <2>8. ASSUME NEW s \in Sessions, NEW current \in Passwords, NEW p \in Passwords,
                 changePassword(k, s, current, p)
          PROVE  Goal
      BY <2>1, <2>8 DEF changePassword
    <2> QED
      BY <1>3, <2>2, <2>3, <2>4, <2>5, <2>6, <2>7, <2>8 DEF CallBegins
  <1>4. CASE CallBegins(k) /\ call[k] = NULL
    BY <1>1, <1>3, <1>4
  <1>5. CASE resetRetire(k) \/ removeCommit(k)
    <2>1. /\ call[k].op \in {"reset", "remove"} /\ call[k] # NULL
          /\ call'[k].account = call[k].account
          /\ call'[k].op = IF call[k].op = "reset" THEN "retire" ELSE "revoke"
      BY <1>5, TypeParts DEF resetRetire, removeCommit, Is, AccessInv
    <2>2. call'[k].account \in Employees
      BY <2>1, CallTyped DEF AccessInv
    <2>3. companyActive(call[k].account) /\ (call[k].op = "reset" => ThroughMail(call[k].account))
      BY <2>1 DEF AccessInv, CallsStillFit
    <2> QED
      BY <1>1, <2>1, <2>2, <2>3
  <1>6. CallBegins(k) => call[k] = NULL
    BY DEF CallBegins, Starts, signupCompany, requestPasswordReset, login, openLink, inviteStaff,
       administer, changePassword
  <1> QED
    BY <1>2, <1>4, <1>5, <1>6, CallForms DEF AccessInv

\* Sessions belong to accounts that were reached by mail.
LEMMA SessionsStep ==
    ASSUME AccessInv, AccessNext, AccessTypeOK', Forward
    PROVE  SignedInThroughMail'
  <1> SUFFICES ASSUME NEW s \in Sessions, session'[s] # NULL
               PROVE  ThroughMail(session[s].account)'
    BY DEF SignedInThroughMail, ThroughMail
  <1>1. PICK e \in Employees : e = session'[s].account
    BY DEF AccessTypeOK, Null, SessionRow
  <1>2. CASE session[s] # NULL
    <2>1. session[s].account = e
      BY <1>1, <1>2 DEF Forward
    <2> QED
      BY <1>1, <1>2, <2>1, MailStays DEF AccessInv, SignedInThroughMail, ThroughMail
  <1>3. CASE session[s] = NULL
    <2>1. PICK c \in Calls : loginCommit(c, s)
      BY <1>3, SessionForms DEF AccessInv
    <2>2. call[c].account = e
      BY <1>1, <2>1, TypeParts DEF loginCommit, AccessInv, TablesTyped
    <2>3. ThroughMail(e)
      BY <2>1, <2>2 DEF loginCommit, Is, AccessInv, CallsStillFit
    <2>4. ThroughMail(e)'
      BY <2>3, MailStays DEF AccessInv
    <2> QED
      BY <1>1, <2>4 DEF ThroughMail
  <1> QED
    BY <1>2, <1>3

\* Nobody gets into a company that is not verified.
LEMMA PendingStep ==
    ASSUME AccessInv, AccessNext, AccessTypeOK', Forward
    PROVE  PendingCompanyIsClosed'
  <1> SUFFICES ASSUME NEW e \in Employees, account'[e] # NULL, ~companyActive(e)'
               PROVE  /\ e \in Founders /\ ~account'[e].active
                      /\ linksOf(e, "invite")' \cup linksOf(e, "reset")' = {}
                      /\ \A s \in Sessions : session'[s] # NULL => session'[s].account # e
    BY DEF PendingCompanyIsClosed
  <1>1. ~companyActive(e)
    BY ActiveStays
  <1>2. e \in Founders /\ ~account'[e].active
    <2>1. CASE account[e] # NULL
      BY <1>1, <2>1, PendingStays DEF AccessInv, PendingCompanyIsClosed
    <2>2. CASE account[e] = NULL
      BY <1>1, <2>2, NewAccount
    <2> QED
      BY <2>1, <2>2
  <1>3. ASSUME NEW l \in Links, link'[l] # NULL, link'[l].account = e, link'[l].purpose \in {"invite", "reset"}
        PROVE  FALSE
    <2>1. CASE link[l] # NULL
      <3>1. link[l].account = e /\ link[l].purpose \in {"invite", "reset"} /\ account[e] # NULL
        BY <1>3, <2>1, RowsTyped DEF AccessInv, Forward
      <3> QED
        BY <1>1, <2>1, <3>1 DEF AccessInv, PendingCompanyIsClosed, linksOf
    <2>2. CASE link[l] = NULL
      <3>1. PICK c \in Calls : signupCommit(c, l) \/ inviteCommit(c, l) \/ resetCommit(c, l)
        BY <1>3, <2>2, LinkForms DEF AccessInv
      <3>2. link'[l].account = call[c].account /\ (signupCommit(c, l) => link'[l].purpose = "verify")
        BY <3>1, TypeParts DEF signupCommit, inviteCommit, resetCommit, newLink, AccessInv, TablesTyped
      <3>3. inviteCommit(c, l) \/ resetCommit(c, l) => companyActive(call[c].account)
        BY DEF inviteCommit, resetCommit, Is, AccessInv, CallsStillFit
      <3> QED
        BY <1>1, <1>3, <3>1, <3>2, <3>3
    <2> QED
      BY <2>1, <2>2
  <1>4. ASSUME NEW s \in Sessions, session'[s] # NULL, session'[s].account = e
        PROVE  FALSE
    <2>1. CASE session[s] # NULL
      <3>1. session[s].account = e /\ account[e] # NULL
        BY <1>4, <2>1, RowsTyped DEF AccessInv, Forward
      <3> QED
        BY <1>1, <2>1, <3>1 DEF AccessInv, PendingCompanyIsClosed
    <2>2. CASE session[s] = NULL
      <3>1. PICK c \in Calls : loginCommit(c, s)
        BY <1>4, <2>2, SessionForms DEF AccessInv
      <3>2. call[c].account = e
        BY <1>4, <3>1, TypeParts DEF loginCommit, AccessInv, TablesTyped
      <3> QED
        BY <1>1, <3>1, <3>2 DEF loginCommit, Is, AccessInv, CallsStillFit
    <2> QED
      BY <2>1, <2>2
  <1> QED
    BY <1>2, <1>3, <1>4 DEF linksOf

\* Passwords belong to accounts that were reached by mail.
LEMMA PasswordStep ==
    ASSUME AccessInv, AccessNext, AccessTypeOK', Forward
    PROVE  PasswordThroughMail'
  <1> SUFFICES ASSUME NEW e \in Employees, account'[e] # NULL, account'[e].password # NULL, companyActive(e)'
               PROVE  ThroughMail(e)'
    BY DEF PasswordThroughMail
  <1>1. TablesTyped /\ (ThroughMail(e) => ThroughMail(e)')
    BY TypeParts, MailStays DEF AccessInv
  <1>2. account[e] # NULL
    BY NewAccount
  <1>3. ASSUME NEW c \in Calls, verifyEmail(c) \/ acceptInvitation(c) \/ resetPassword(c)
        PROVE  LET l == call[c].link
               IN  /\ l \in Links /\ l \in mailbox' /\ link[l] # NULL
                   /\ link'[l].used /\ link'[l] # NULL /\ link'[l].account = link[l].account
                   /\ link'[l].purpose = link[l].purpose /\ link[l].account \in Employees
    <2> DEFINE l == call[c].link
    <2>1. l \in Links /\ link[l] # NULL /\ link[l] \in LinkRow /\ claimLink(l)
      BY <1>3, OpenTyped DEF verifyEmail, acceptInvitation, resetPassword, AccessInv
    <2> HIDE DEF l
    <2>2. link'[l] = Used(link[l])
      BY <2>1, ClaimMarks DEF AccessInv
    <2>3. l \in mailbox'
      BY <2>1 DEF AccessInv, LinksAreMailed, Forward
    <2>4. l \in Links /\ l \in mailbox' /\ link[l] # NULL
          /\ link'[l].used /\ link'[l] # NULL /\ link'[l].account = link[l].account
          /\ link'[l].purpose = link[l].purpose /\ link[l].account \in Employees
      BY <2>1, <2>2, <2>3, MarkTyped, RowsTyped, NullIsNoRow DEF AccessInv
    <2> QED
      BY <2>4 DEF l
  <1>4. CASE ~companyActive(e)
    <2>1. PICK c \in Calls : /\ verifyEmail(c) /\ link[call[c].link].purpose = "verify"
                             /\ link[call[c].link].account \in Founders
                             /\ CompanyOf[link[call[c].link].account] = CompanyOf[e]
      BY <1>4, ActivatedByFounder
    <2>2. e \in Founders
      BY <1>2, <1>4 DEF AccessInv, PendingCompanyIsClosed
    <2>3. link[call[c].link].account = e
      BY <2>1, <2>2, FoundersAssumption
    <2> QED
      BY <1>3, <2>1, <2>3 DEF ThroughMail
  <1>5. CASE companyActive(e) /\ account[e].password # NULL
    BY <1>1, <1>2, <1>5 DEF AccessInv, PasswordThroughMail
  <1>6. CASE companyActive(e) /\ account[e].password = NULL
    <2>1. ASSUME NEW c \in Calls, NEW l \in Links, signupCommit(c, l) \/ inviteCommit(c, l)
          PROVE  FALSE
      <3>1. account[call[c].account] = NULL
        BY <2>1 DEF signupCommit, inviteCommit
      <3> QED
        BY <1>1, <1>2, <1>6, <2>1, <3>1 DEF signupCommit, inviteCommit, TablesTyped
    <2>2. ASSUME NEW c \in Calls, verifyEmail(c) \/ acceptInvitation(c) \/ resetPassword(c)
          PROVE  ThroughMail(e)'
      <3> DEFINE l == call[c].link
      <3>1. link[l].account = e /\ ~verifyEmail(c)
        <4>1. account[e] \in AccountRow
          BY <1>2, RowsTyped DEF AccessInv
        <4>2. link[l].account \in Employees
          BY <1>3, <2>2
        <4>3. link[l].account = e
          <5>1. \E row : account' = [account EXCEPT ![link[l].account] = row]
            BY <2>2 DEF verifyEmail, acceptInvitation, resetPassword
          <5> QED
            BY <1>1, <1>6, <4>2, <5>1 DEF TablesTyped
        <4>4. ASSUME verifyEmail(c)
              PROVE  FALSE
          <5>1. account' = [account EXCEPT ![e] = [account[e] EXCEPT !.active = TRUE]]
            BY <4>3, <4>4 DEF verifyEmail
          <5>2. account'[e] = [account[e] EXCEPT !.active = TRUE]
            BY <1>1, <5>1 DEF TablesTyped
          <5> QED
            BY <1>6, <4>1, <5>2 DEF AccountRow
        <4> QED
          BY <4>3, <4>4
      <3>2. CASE acceptInvitation(c)
        BY <1>3, <2>2, <3>1, <3>2 DEF acceptInvitation, ThroughMail
      <3>3. CASE resetPassword(c)
        <4>1. l \in Links /\ link[l] # NULL /\ link[l].purpose = "reset"
          BY <1>3, <2>2, <3>3 DEF resetPassword
        <4>2. ThroughMail(e)
          BY <3>1, <4>1 DEF AccessInv, LinksAreMailed, ThroughMail
        <4> QED
          BY <1>1, <4>2
      <3> QED
        BY <2>2, <3>1, <3>2, <3>3
    <2>3. ASSUME NEW c \in Calls, changeCommit(c)
          PROVE  ThroughMail(e)'
      <3> DEFINE s == call[c].session
      <3>1. s \in Sessions /\ session[s] # NULL
        BY <2>3, CallTyped, TypeParts DEF changeCommit, Is, Refers, AccessInv
      <3>2. session[s].account = e
        BY <1>1, <1>6, <2>3 DEF changeCommit, TablesTyped
      <3>3. ThroughMail(e)
        BY <3>1, <3>2 DEF AccessInv, SignedInThroughMail, ThroughMail
      <3> QED
        BY <1>1, <3>3
    <2>4. ASSUME NEW c \in Calls, restoreCommit(c) \/ removeCommit(c)
          PROVE  FALSE
      <3>1. account[e] \in AccountRow
        BY <1>2, RowsTyped DEF AccessInv
      <3>2. account'[e].password = account[e].password
        BY <1>1, <2>4, <3>1 DEF restoreCommit, removeCommit, TablesTyped, AccountRow
      <3> QED
        BY <1>6, <3>2
    <2> QED
      BY <1>6, <2>1, <2>2, <2>3, <2>4, AccountForms DEF AccessInv
  <1> QED
    BY <1>4, <1>5, <1>6

-----------------------------------------------------------------------------
(* The theorems. *)

\* The invariant holds of the rows the database starts with.
LEMMA AccessStart == AccessInit => AccessInv
  <1> SUFFICES ASSUME AccessInit
               PROVE  AccessInv
    OBVIOUS
  <1>1. AccessTypeOK
    BY TypedStart
  <1>2. \A e \in Employees : account[e] = NULL /\ ~companyActive(e)
    BY FoundersAssumption DEF AccessInit, companyActive
  <1> QED
    BY <1>1, <1>2 DEF AccessInit, AccessInv, FounderFirst, LinksAreMailed, CallsStillFit,
       PasswordThroughMail, PendingCompanyIsClosed, SignedInThroughMail

\* Every conjunct is kept, each by its own lemma.
LEMMA AccessStep == AccessInv /\ [AccessNext]_accessVars => AccessInv'
  <1>1. ASSUME AccessInv, AccessNext
        PROVE  AccessInv'
    <2>1. AccessTypeOK' /\ Forward
      BY <1>1, TypedStep DEF AccessInv
    <2> QED
      BY <1>1, <2>1, FounderFirstStep, LinksStep, CallsStep, PasswordStep, PendingStep, SessionsStep
      DEF AccessInv
  <1>2. ASSUME AccessInv, UNCHANGED accessVars
        PROVE  AccessInv'
    BY <1>2 DEF accessVars, tables, AccessInv, AccessTypeOK, FounderFirst, LinksAreMailed,
       CallsStillFit, PasswordThroughMail, PendingCompanyIsClosed, SignedInThroughMail,
       ThroughMail, companyActive, linksOf
  <1> QED
    BY <1>1, <1>2

\* One step of LinkWorksOnce: the conditional update lets one of two calls through.
LEMMA PasswordChanged ==
    ASSUME AccessTypeOK, [AccessNext]_accessVars, NEW e \in Employees, account[e] # NULL,
           account'[e].password # account[e].password
    PROVE  \/ \E l \in Links : /\ link[l] # NULL
                               /\ link[l].account = e
                               /\ ~link[l].used
                               /\ link'[l].used
           \/ \E c \in Calls : /\ Is(c, "change")
                               /\ session[call[c].session].account = e
  <1>1. TablesTyped /\ account' # account /\ AccessNext /\ account[e] \in AccountRow
    BY TypeParts, RowsTyped DEF accessVars, tables
  <1>2. ASSUME NEW c \in Calls, NEW l \in Links, signupCommit(c, l) \/ inviteCommit(c, l)
        PROVE  FALSE
    <2>1. account[call[c].account] = NULL
      BY <1>2 DEF signupCommit, inviteCommit
    <2> QED
      BY <1>1, <1>2, <2>1 DEF signupCommit, inviteCommit, TablesTyped
  <1>3. ASSUME NEW c \in Calls, verifyEmail(c) \/ acceptInvitation(c) \/ resetPassword(c)
        PROVE  \E l \in Links : link[l] # NULL /\ link[l].account = e /\ ~link[l].used /\ link'[l].used
    <2> DEFINE l == call[c].link
    <2>1. Is(c, "open") /\ stillUnused(l) /\ claimLink(l)
      BY <1>3 DEF verifyEmail, acceptInvitation, resetPassword
    <2>2. l \in Links /\ link[l] # NULL /\ link[l] \in LinkRow /\ link[l].account \in Employees
      BY <2>1, OpenTyped
    <2>3. link[l].account = e
      <3>1. \E row : account' = [account EXCEPT ![link[l].account] = row]
        BY <1>3 DEF verifyEmail, acceptInvitation, resetPassword
      <3> QED
        BY <1>1, <2>2, <3>1 DEF TablesTyped
    <2> HIDE DEF l
    <2>4. link'[l].used /\ ~link[l].used
      BY <2>1, <2>2, ClaimMarks, MarkTyped DEF stillUnused
    <2> QED
      BY <2>2, <2>3, <2>4
  <1>4. ASSUME NEW c \in Calls, changeCommit(c)
        PROVE  Is(c, "change") /\ session[call[c].session].account = e
    BY <1>1, <1>4 DEF changeCommit, TablesTyped
  <1>5. ASSUME NEW c \in Calls, restoreCommit(c) \/ removeCommit(c)
        PROVE  FALSE
    <2>1. CASE call[c].account # e
      BY <1>1, <1>5, <2>1 DEF restoreCommit, removeCommit, TablesTyped
    <2>2. CASE call[c].account = e
      <3>1. PICK b \in BOOLEAN : account' = [account EXCEPT ![e] = [account[e] EXCEPT !.active = b]]
        BY <1>5, <2>2 DEF restoreCommit, removeCommit
      <3>2. account'[e] = [account[e] EXCEPT !.active = b]
        BY <1>1, <3>1 DEF TablesTyped
      <3> QED
        BY <1>1, <3>2 DEF AccountRow
    <2> QED
      BY <2>1, <2>2
  <1> QED
    BY <1>1, <1>2, <1>3, <1>4, <1>5, AccountForms

\* What holds at every moment of every run, for any number of accounts, links,
\* sessions and calls in flight (AuthService with revokeAccess of AdminService).
THEOREM AccessInvariance == AccessSpec => []AccessInv
  BY AccessStart, AccessStep, PTL DEF AccessSpec

\* Until its founder has opened the mailed link, a company is one inactive account
\* (signupCompany, verifyEmail, and the guards that ask for an active company).
THEOREM ClosedUntilVerified == AccessSpec => []PendingCompanyIsClosed
  BY AccessInvariance, PTL DEF AccessInv

\* Nobody is signed in who has not opened a link mailed to the address of the account
\* (verifyEmail, acceptInvitation; login asks for a password and an active company).
THEOREM OnlyThroughMail == AccessSpec => []SignedInThroughMail
  BY AccessInvariance, PTL DEF AccessInv

\* A link works once (resetPassword and acceptInvitation claim it with a conditional
\* update), and without a link only who is signed in changes a password.
THEOREM PasswordsNeedALink == AccessSpec => LinkWorksOnce
  <1>1. AccessTypeOK /\ [AccessNext]_accessVars =>
          [\A e \in Employees :
            (account[e] # NULL /\ account'[e].password # account[e].password) =>
                \/ \E l \in Links : /\ link[l] # NULL
                                    /\ link[l].account = e
                                    /\ ~link[l].used
                                    /\ link'[l].used
                \/ \E c \in Calls : /\ Is(c, "change")
                                    /\ session[call[c].session].account = e]_accessVars
    BY PasswordChanged
  <1> QED
    BY <1>1, AccessTyped, PTL DEF AccessSpec, LinkWorksOnce

-----------------------------------------------------------------------------
(* Calls that set a password, and the sessions they end. *)

\* An account has one link of its own that lets it in, the one it was created with.
OneWayIn ==
    \A k, l \in Links : /\ link[k] # NULL /\ link[l] # NULL /\ link[k].account = link[l].account
                        /\ {link[k].purpose, link[l].purpose} \subseteq {"verify", "invite"}
                        => k = l

\* The invariant of passwords.
PasswordInv == AccessInv /\ OneWayIn

\* A new account comes with its first link.
LEMMA OneWayInStep ==
    ASSUME AccessInv, OneWayIn, AccessNext, Forward
    PROVE  OneWayIn'
  <1> SUFFICES ASSUME NEW k \in Links, NEW l \in Links, link'[k] # NULL, link'[l] # NULL,
                      link'[k].account = link'[l].account,
                      {link'[k].purpose, link'[l].purpose} \subseteq {"verify", "invite"}, k # l
               PROVE  FALSE
    BY DEF OneWayIn
  <1>1. TablesTyped
    BY TypeParts DEF AccessInv
  <1>2. ASSUME NEW m \in Links, link[m] = NULL, link'[m] # NULL, link'[m].purpose \in {"verify", "invite"}
        PROVE  account[link'[m].account] = NULL /\ \A n \in Links \ {m} : link'[n] = link[n]
    <2>1. PICK c \in Calls : signupCommit(c, m) \/ inviteCommit(c, m) \/ resetCommit(c, m)
      BY <1>2, LinkForms DEF AccessInv
    <2>2. ~resetCommit(c, m)
      BY <1>1, <1>2 DEF resetCommit, newLink, TablesTyped
    <2> QED
      BY <1>1, <2>1, <2>2 DEF signupCommit, inviteCommit, newLink, TablesTyped
  <1>3. ASSUME NEW m \in Links, link[m] # NULL
        PROVE  account[link[m].account] # NULL /\ link'[m].account = link[m].account
               /\ link'[m].purpose = link[m].purpose
    BY <1>3, RowsTyped DEF AccessInv, Forward
  <1>4. CASE link[k] # NULL /\ link[l] # NULL
    BY <1>3, <1>4 DEF OneWayIn
  <1>5. CASE link[k] = NULL /\ link[l] = NULL
    BY <1>2, <1>5
  <1>6. CASE link[k] = NULL /\ link[l] # NULL
    BY <1>2, <1>3, <1>6
  <1>7. CASE link[k] # NULL /\ link[l] = NULL
    BY <1>2, <1>3, <1>7
  <1> QED
    BY <1>4, <1>5, <1>6, <1>7

\* An account that is still to be let in by its invitation has no session.
LEMMA InvitedHasNoSession ==
    ASSUME AccessInv, OneWayIn, NEW c \in Calls, acceptInvitation(c), NEW s \in Sessions, session[s] # NULL
    PROVE  session[s].account # link[call[c].link].account
  <1> DEFINE l == call[c].link
  <1>1. l \in Links /\ link[l] # NULL /\ link[l].purpose = "invite" /\ ~link[l].used
    BY OpenTyped DEF acceptInvitation, stillUnused, AccessInv
  <1> HIDE DEF l
  <1>2. PICK k \in mailbox : /\ link[k] # NULL /\ link[k].account = session[s].account
                             /\ link[k].purpose \in {"verify", "invite"} /\ link[k].used
    BY DEF AccessInv, SignedInThroughMail
  <1>3. k \in Links
    BY TypeParts DEF AccessInv, TablesTyped
  <1>4. ASSUME session[s].account = link[l].account
        PROVE  FALSE
    BY <1>1, <1>2, <1>3, <1>4 DEF OneWayIn
  <1> QED
    BY <1>4 DEF l

\* What keeps a session open keeps what it was proven with, but for a change of password
\* that the session itself asked for.
LEMMA SessionKept ==
    ASSUME AccessTypeOK, AccessNext, NEW s \in Sessions, session[s] # NULL, ~session'[s].revoked
    PROVE  /\ ~session[s].revoked
           /\ \/ session'[s].openedWith = session[s].openedWith
              \/ \E c \in Calls : changeCommit(c) /\ s = call[c].session
  <1>1. \/ session' = session
        \/ \E c \in Calls, t \in Sessions : loginCommit(c, t)
        \/ \E c \in Calls : resetPassword(c) \/ changeCommit(c) \/ revokeAccess(c)
        \/ \E t \in Sessions : logout(t) \/ rejectExpired(t) \/ SessionExpires(t)
    BY DEF AccessNext, CallBegins, CallGoesOn, tables, signupCompany, requestPasswordReset, login,
       openLink, inviteStaff, administer, changePassword, signupCommit, inviteCommit, resetCommit,
       resetRetire, Rollback, LinkUsed, verifyEmail, acceptInvitation, restoreCommit, removeCommit,
       LinkExpires, AccessRestart
  <1>2. session[s] \in SessionRow /\ TablesTyped
    BY RowsTyped, TypeParts
  <1>3. CASE session'[s] = session[s]
    BY <1>3
  <1>4. ASSUME NEW c \in Calls, NEW t \in Sessions, loginCommit(c, t)
        PROVE  session'[s] = session[s]
    BY <1>2, <1>4 DEF loginCommit, TablesTyped
  <1>5. ASSUME NEW e, NEW spared, s \notin spared \/ session[s].account # e
        PROVE  revokedSessions(e, spared)[s] \in {session[s], [session[s] EXCEPT !.revoked = TRUE]}
    BY DEF revokedSessions
  <1>6. [session[s] EXCEPT !.revoked = TRUE].revoked
    BY <1>2 DEF SessionRow
  <1>7. ASSUME NEW c \in Calls, resetPassword(c) \/ revokeAccess(c)
        PROVE  session'[s] = session[s]
    <2>1. PICK e : session' = revokedSessions(e, {})
      BY <1>7 DEF resetPassword, revokeAccess
    <2> QED
      BY <1>5, <1>6, <2>1
  <1>8. ASSUME NEW c \in Calls, changeCommit(c)
        PROVE  session'[s] = session[s] \/ (s = call[c].session /\ ~session[s].revoked)
    <2> DEFINE t == call[c].session
               e == session[t].account
               ss == revokedSessions(e, {t})
    <2>1. t \in Sessions /\ session[t] # NULL
      BY <1>8, CallTyped, TypeParts DEF changeCommit, Is, Refers
    <2>2. session' = [ss EXCEPT ![t].openedWith = call[c].password]
      BY <1>8 DEF changeCommit
    <2>3. DOMAIN ss = Sessions /\ ss[t] = session[t] /\ (s # t => ss[s] \in {session[s], [session[s] EXCEPT !.revoked = TRUE]})
      BY <2>1 DEF revokedSessions
    <2> HIDE DEF ss
    <2>4. CASE s # t
      <3>1. session'[s] = ss[s]
        BY <2>2, <2>3, <2>4
      <3> QED
        BY <1>6, <2>3, <2>4, <3>1
    <2>5. CASE s = t
      <3>1. session'[s] = [session[s] EXCEPT !.openedWith = call[c].password]
        BY <2>1, <2>2, <2>3, <2>5
      <3>2. session'[s].revoked = session[s].revoked
        BY <1>2, <3>1 DEF SessionRow
      <3> QED
        BY <2>5, <3>2
    <2> QED
      BY <2>4, <2>5
  <1>9. ASSUME NEW t \in Sessions, logout(t) \/ rejectExpired(t)
        PROVE  session'[s] = session[s]
    <2>1. session' = [session EXCEPT ![t].revoked = TRUE]
      BY <1>9 DEF logout, rejectExpired
    <2>2. s # t => session'[s] = session[s]
      BY <1>2, <2>1 DEF TablesTyped
    <2>3. s = t => session'[s] = [session[s] EXCEPT !.revoked = TRUE]
      BY <1>2, <2>1 DEF TablesTyped
    <2> QED
      BY <1>6, <2>2, <2>3
  <1>10. ASSUME NEW t \in Sessions, SessionExpires(t)
         PROVE  session'[s].revoked = session[s].revoked /\ session'[s].openedWith = session[s].openedWith
    <2>1. session' = [session EXCEPT ![t].expired = TRUE]
      BY <1>10 DEF SessionExpires
    <2>2. s # t => session'[s] = session[s]
      BY <1>2, <2>1 DEF TablesTyped
    <2>3. s = t => session'[s] = [session[s] EXCEPT !.expired = TRUE]
      BY <1>2, <2>1 DEF TablesTyped
    <2> QED
      BY <1>2, <2>2, <2>3 DEF SessionRow
  <1> QED
    BY <1>1, <1>3, <1>4, <1>7, <1>8, <1>9, <1>10

\* Who sets a password: whoever opens an invitation or a reset, or has proved the one before.
LEMMA PasswordForms ==
    ASSUME AccessTypeOK, AccessNext, NEW e \in Employees, account[e] # NULL,
           account'[e].password # account[e].password
    PROVE  \/ \E c \in Calls : /\ acceptInvitation(c) \/ resetPassword(c)
                               /\ link[call[c].link].account = e
           \/ \E c \in Calls : changeCommit(c) /\ session[call[c].session].account = e
  <1>1. TablesTyped /\ account' # account /\ account[e] \in AccountRow
    BY TypeParts, RowsTyped
  <1>2. ASSUME NEW c \in Calls, NEW l \in Links, signupCommit(c, l) \/ inviteCommit(c, l)
        PROVE  FALSE
    <2>1. account[call[c].account] = NULL
      BY <1>2 DEF signupCommit, inviteCommit
    <2> QED
      BY <1>1, <1>2, <2>1 DEF signupCommit, inviteCommit, TablesTyped
  <1>3. ASSUME NEW f \in Employees, NEW b \in BOOLEAN, account' = [account EXCEPT ![f].active = b]
        PROVE  FALSE
    <2>1. f = e
      BY <1>1, <1>3 DEF TablesTyped
    <2>2. account'[e] = [account[e] EXCEPT !.active = b]
      BY <1>1, <1>3, <2>1 DEF TablesTyped
    <2> QED
      BY <1>1, <2>2 DEF AccountRow
  <1>4. ASSUME NEW c \in Calls, verifyEmail(c)
        PROVE  FALSE
    <2>1. link[call[c].link].account \in Employees
      BY <1>4, OpenTyped DEF verifyEmail
    <2> QED
      BY <1>3, <1>4, <2>1 DEF verifyEmail
  <1>5. ASSUME NEW c \in Calls, restoreCommit(c) \/ removeCommit(c)
        PROVE  FALSE
    <2>1. call[c].account \in Employees
      BY <1>5, CallTyped DEF restoreCommit, removeCommit, Is
    <2> QED
      BY <1>3, <1>5, <2>1 DEF restoreCommit, removeCommit
  <1>6. ASSUME NEW c \in Calls, acceptInvitation(c) \/ resetPassword(c)
        PROVE  link[call[c].link].account = e
    <2>1. \E row : account' = [account EXCEPT ![link[call[c].link].account] = row]
      BY <1>6 DEF acceptInvitation, resetPassword
    <2> QED
      BY <1>1, <2>1 DEF TablesTyped
  <1>7. ASSUME NEW c \in Calls, changeCommit(c)
        PROVE  session[call[c].session].account = e
    BY <1>1, <1>7 DEF changeCommit, TablesTyped
  <1> QED
    BY <1>1, <1>2, <1>4, <1>5, <1>6, <1>7, AccountForms

\* A session stays open over a change of its password only if that password is the one it is
\* proven with from then on.
LEMMA ReplacedOutdates ==
    ASSUME PasswordInv, AccessNext, Forward, NEW s \in Sessions, session[s] # NULL,
           ~session'[s].revoked
    PROVE  LET e == session[s].account
           IN  \/ /\ ~session[s].revoked
                  /\ session'[s].openedWith = session[s].openedWith
                  /\ account'[e].password = account[e].password
               \/ session'[s].openedWith = account'[e].password
  <1>1. AccessTypeOK /\ TablesTyped
    BY TypeParts DEF PasswordInv, AccessInv
  <1> DEFINE e == session[s].account
  <1>2. /\ e \in Employees /\ account[e] # NULL /\ account[e] \in AccountRow
        /\ session[s] \in SessionRow /\ session'[s].account = e
    BY <1>1, RowsTyped DEF Forward
  <1> HIDE DEF e
  <1>3. /\ ~session[s].revoked
        /\ \/ session'[s].openedWith = session[s].openedWith
           \/ \E c \in Calls : changeCommit(c) /\ s = call[c].session
    BY <1>1, SessionKept
  <1>4. ASSUME NEW c \in Calls, changeCommit(c), s = call[c].session
        PROVE  session'[s].openedWith = account'[e].password
    <2> DEFINE ss == revokedSessions(e, {s})
               p == call[c].password
    <2>1. session' = [ss EXCEPT ![s].openedWith = p] /\ account' = [account EXCEPT ![e].password = p]
      BY <1>4 DEF changeCommit, e
    <2>2. DOMAIN ss = Sessions /\ ss[s] = session[s]
      BY DEF revokedSessions
    <2> HIDE DEF ss, p
    <2>3. session'[s] = [session[s] EXCEPT !.openedWith = p] /\ account'[e] = [account[e] EXCEPT !.password = p]
      BY <1>1, <1>2, <2>1, <2>2 DEF TablesTyped
    <2> QED
      BY <1>2, <2>3 DEF SessionRow, AccountRow
  <1>5. ASSUME NEW c \in Calls, changeCommit(c), s # call[c].session, session[call[c].session].account = e
        PROVE  FALSE
    <2> DEFINE t == call[c].session
               ss == revokedSessions(e, {t})
    <2>1. session' = [ss EXCEPT ![t].openedWith = call[c].password]
      BY <1>5 DEF changeCommit
    <2>2. DOMAIN ss = Sessions /\ ss[s] = [session[s] EXCEPT !.revoked = TRUE]
      BY <1>5 DEF revokedSessions, e
    <2> HIDE DEF ss
    <2>3. session'[s] = [session[s] EXCEPT !.revoked = TRUE]
      BY <1>5, <2>1, <2>2
    <2> QED
      BY <1>2, <2>3 DEF SessionRow
  <1>6. ASSUME NEW c \in Calls, resetPassword(c), link[call[c].link].account = e
        PROVE  FALSE
    <2>1. session'[s] = [session[s] EXCEPT !.revoked = TRUE]
      BY <1>6 DEF resetPassword, revokedSessions, e
    <2> QED
      BY <1>2, <2>1 DEF SessionRow
  <1>7. ASSUME NEW c \in Calls, acceptInvitation(c), link[call[c].link].account = e
        PROVE  FALSE
    BY <1>7, InvitedHasNoSession DEF PasswordInv, e
  <1>8. CASE account'[e].password = account[e].password
    BY <1>2, <1>3, <1>4, <1>8 DEF e
  <1>9. CASE account'[e].password # account[e].password
    <2>1. \/ \E c \in Calls : (acceptInvitation(c) \/ resetPassword(c)) /\ link[call[c].link].account = e
          \/ \E c \in Calls : changeCommit(c) /\ session[call[c].session].account = e
      BY <1>1, <1>2, <1>9, PasswordForms
    <2> QED
      BY <1>2, <1>4, <1>5, <1>6, <1>7, <2>1 DEF e
  <1> QED
    BY <1>8, <1>9

\* Where an open session that does not know the password of today comes from.
LEMMA OutdatedStep ==
    ASSUME PasswordInv, AccessNext, Forward, NEW s \in Sessions, outdated(s)'
    PROVE  \/ /\ outdated(s)
              /\ account'[session[s].account].password = account[session[s].account].password
           \/ /\ session[s] = NULL
              /\ \E c \in Calls : Is(c, "login") /\ call[c].password # account[call[c].account].password
  <1>1. AccessTypeOK /\ TablesTyped
    BY TypeParts DEF PasswordInv, AccessInv
  <1>2. /\ session'[s] # NULL /\ ~session'[s].revoked
        /\ session'[s].openedWith # account'[session'[s].account].password
    BY DEF outdated, open
  <1>3. CASE session[s] = NULL
    <2>1. PICK c \in Calls : loginCommit(c, s)
      BY <1>1, <1>2, <1>3, SessionForms
    <2>2. /\ account' = account /\ Is(c, "login")
          /\ session'[s] = [account |-> call[c].account, revoked |-> FALSE, expired |-> FALSE,
                            openedWith |-> call[c].password]
      BY <1>1, <2>1 DEF loginCommit, TablesTyped
    <2>3. session'[s].openedWith = call[c].password /\ session'[s].account = call[c].account
      BY <2>2
    <2> QED
      BY <1>2, <1>3, <2>2, <2>3
  <1>4. CASE session[s] # NULL
    <2>1. session'[s].account = session[s].account
      BY <1>4 DEF Forward
    <2> QED
      BY <1>2, <1>4, <2>1, ReplacedOutdates DEF outdated, open
  <1> QED
    BY <1>3, <1>4

\* Nothing is stored at first.
LEMMA PasswordStart == AccessInit => PasswordInv
  BY AccessStart DEF AccessInit, PasswordInv, OneWayIn

\* Every step keeps the invariant of passwords.
LEMMA PasswordInvStep == PasswordInv /\ [AccessNext]_accessVars => PasswordInv'
  <1>1. ASSUME PasswordInv, AccessNext
        PROVE  PasswordInv'
    <2>1. AccessInv' /\ Forward
      BY <1>1, AccessStep, TypedStep DEF PasswordInv, AccessInv
    <2> QED
      BY <1>1, <2>1, OneWayInStep DEF PasswordInv
  <1>2. ASSUME PasswordInv, UNCHANGED accessVars
        PROVE  PasswordInv'
    <2>1. AccessInv'
      BY <1>2, AccessStep DEF PasswordInv
    <2> QED
      BY <1>2, <2>1 DEF PasswordInv, OneWayIn, accessVars, tables
  <1> QED
    BY <1>1, <1>2

\* An account has one link that lets its owner in for the first time, for any number of
\* accounts, links and calls: signupCompany and inviteStaff create it with the account, and
\* neither is ever repeated for an account that exists.
THEOREM PasswordInvariance == AccessSpec => []PasswordInv
  BY PasswordStart, PasswordInvStep, PTL DEF AccessSpec

\* resetPassword revokes every session of the account and changePassword every other one, so
\* that a session which does not know the password of today comes from a login that verified
\* before the password was replaced, and goes with the next replacement: for any number of
\* accounts, links and sessions, and of calls that overlap.
THEOREM OnlyLateLoginsAreOutdated == AccessSpec => OnlyALateLoginIsOutdated
  <1> DEFINE Explained(s) ==
        \/ /\ outdated(s)
           /\ account'[session[s].account].password = account[session[s].account].password
        \/ /\ session[s] = NULL
           /\ \E c \in Calls : /\ Is(c, "login")
                               /\ call[c].password # account[call[c].account].password
  <1>1. ASSUME PasswordInv, [AccessNext]_accessVars
        PROVE  [\A s \in Sessions : outdated(s)' => Explained(s)]_accessVars
    <2>1. CASE AccessNext
      <3>1. Forward
        BY <1>1, <2>1, TypedStep DEF PasswordInv, AccessInv
      <3> QED
        BY <1>1, <2>1, <3>1, OutdatedStep
    <2> QED
      BY <1>1, <2>1
  <1>2. PasswordInv /\ [AccessNext]_accessVars =>
          [\A s \in Sessions : outdated(s)' => Explained(s)]_accessVars
    BY <1>1
  <1> QED
    BY <1>2, PasswordInvariance, PTL DEF AccessSpec, OnlyALateLoginIsOutdated
=============================================================================
