---------------------------- MODULE AccountAccess ----------------------------
(***************************************************************************)
(* AuthService: how an account comes to exist and to be signed in.  A      *)
(* company signs up and verifies its email, invites its staff, and anyone  *)
(* resets a forgotten password or changes a known one.  Each handler is    *)
(* split where it awaits: what it has read, hashed or verified before its  *)
(* transaction is a copy.  A transaction mails its link before it commits. *)
(***************************************************************************)
EXTENDS Integers, FiniteSets

CONSTANTS
    Employees,      \* accounts, one per email address
    Founders,       \* those created by signupCompany, the others by inviteStaff
    Companies,
    CompanyOf,      \* the company an account belongs to once it exists
    Passwords,
    Links,          \* the secret tokens of verification, invitation and reset links
    Sessions,       \* session ids
    Calls,          \* slots of the server for calls in flight
    NULL

ASSUME FoundersAssumption ==
    /\ Founders \subseteq Employees
    /\ CompanyOf \in [Employees -> Companies]
    /\ \A e, f \in Founders : CompanyOf[e] = CompanyOf[f] => e = f

VARIABLES
    company,        \* status of each company
    account,        \* Employee table, or NULL before the account exists
    link,           \* EmailVerification, Invitation and PasswordReset rows
    mailbox,        \* the links that went out by mail
    session,        \* Session table
    call            \* what each slot is handling, or NULL

tables == <<company, account, link, mailbox, session>>
accessVars == <<tables, call>>

Null(S) == S \cup {NULL}

AccountRow == [password: Null(Passwords), active: BOOLEAN]
LinkRow == [purpose: {"verify", "invite", "reset"}, account: Employees,
            used: BOOLEAN, expired: BOOLEAN]

\* openedWith is a history variable: the password the session was last proven with.
SessionRow == [account: Employees, revoked: BOOLEAN, expired: BOOLEAN, openedWith: Passwords]

Call ==
    [op: {"signup", "login"}, account: Employees, password: Passwords]
        \cup [op: {"invite", "reset"}, account: Employees]
        \cup [op: {"retire"}, account: Employees, older: SUBSET Links]
        \cup [op: {"open"}, link: Links, password: Passwords]
        \cup [op: {"change"}, session: Sessions, password: Passwords]
        \cup [op: {"remove", "revoke", "restore"}, account: Employees]

ASSUME NoRowAssumption ==
    NULL \notin AccountRow \cup LinkRow \cup SessionRow \cup Call \cup Passwords

\* Tables and calls in flight hold rows of their own shape, and what they refer to
\* exists (foreign keys, and the rows a call has found).
AccessTypeOK ==
    /\ company \in [Companies -> {"ABSENT", "PENDING", "ACTIVE"}]
    /\ account \in [Employees -> Null(AccountRow)]
    /\ link \in [Links -> Null(LinkRow)]
    /\ mailbox \subseteq Links
    /\ session \in [Sessions -> Null(SessionRow)]
    /\ call \in [Calls -> Null(Call)]
    /\ \A l \in Links : link[l] # NULL => account[link[l].account] # NULL
    /\ \A s \in Sessions : session[s] # NULL => account[session[s].account] # NULL
    /\ \A c \in Calls : call[c] # NULL =>
          /\ call[c].op \in {"login", "reset", "retire", "remove", "revoke", "restore"} =>
                account[call[c].account] # NULL
          /\ call[c].op = "open" => link[call[c].link] # NULL
          /\ call[c].op = "retire" => \A l \in call[c].older : link[l] # NULL
          /\ call[c].op = "change" => session[call[c].session] # NULL

AccessInit ==
    /\ company = [c \in Companies |-> "ABSENT"]
    /\ account = [e \in Employees |-> NULL]
    /\ link = [l \in Links |-> NULL]
    /\ mailbox = {}
    /\ session = [s \in Sessions |-> NULL]
    /\ call = [c \in Calls |-> NULL]

-----------------------------------------------------------------------------
\* What the handlers look up.

companyActive(e) == company[CompanyOf[e]] = "ACTIVE"

\* An active account of an active company that has a password.
canSignIn(e) ==
    account[e] # NULL /\ account[e].password # NULL /\ account[e].active /\ companyActive(e)

open(s) == session[s] # NULL /\ ~session[s].revoked

authenticate(s) ==
    /\ open(s)
    /\ ~session[s].expired
    /\ account[session[s].account].active
    /\ companyActive(session[s].account)

live(l) == link[l] # NULL /\ ~link[l].used /\ ~link[l].expired

linksOf(e, purpose) ==
    {l \in Links : link[l] # NULL /\ link[l].account = e /\ link[l].purpose = purpose}

unusedLinks(e, purpose) == {l \in linksOf(e, purpose) : ~link[l].used}

fresh(l) == link[l] = NULL /\ l \notin mailbox

newLink(e, purpose) == [purpose |-> purpose, account |-> e, used |-> FALSE, expired |-> FALSE]

\* Every session of e revoked, those in spared left alone.
revokedSessions(e, spared) ==
    [s \in Sessions |->
        IF session[s] # NULL /\ session[s].account = e /\ s \notin spared
        THEN [session[s] EXCEPT !.revoked = TRUE] ELSE session[s]]

Starts(c, new) == call[c] = NULL /\ call' = [call EXCEPT ![c] = new]
Is(c, op) == call[c] # NULL /\ call[c].op = op
Ends(c) == call' = [call EXCEPT ![c] = NULL]

-----------------------------------------------------------------------------
\* A transaction that mails a link: signup, invitation, reset.

\* POST /auth/signup has hashed the password.
signupCompany(c, e, p) ==
    /\ Starts(c, [op |-> "signup", account |-> e, password |-> p])
    /\ UNCHANGED tables

\* The email is free: company, inactive founder and verification in one commit.
signupCommit(c, l) ==
    /\ Is(c, "signup")
    /\ LET e == call[c].account
       IN  /\ account[e] = NULL
           /\ company' = [company EXCEPT ![CompanyOf[e]] = "PENDING"]
           /\ account' = [account EXCEPT ![e] =
                [password |-> call[c].password, active |-> FALSE]]
           /\ link' = [link EXCEPT ![l] = newLink(e, "verify")]
    /\ fresh(l)
    /\ mailbox' = mailbox \cup {l}
    /\ Ends(c)
    /\ UNCHANGED session

\* POST /auth/invitations, from a signed-in account of the company.
inviteStaff(c, s, e) ==
    /\ authenticate(s)
    /\ CompanyOf[e] = CompanyOf[session[s].account]
    /\ Starts(c, [op |-> "invite", account |-> e])
    /\ UNCHANGED tables

\* The email is free: inactive account without a password, and its invitation.
inviteCommit(c, l) ==
    /\ Is(c, "invite")
    /\ LET e == call[c].account
       IN  /\ account[e] = NULL
           /\ account' = [account EXCEPT ![e] = [password |-> NULL, active |-> FALSE]]
           /\ link' = [link EXCEPT ![l] = newLink(e, "invite")]
    /\ fresh(l)
    /\ mailbox' = mailbox \cup {l}
    /\ Ends(c)
    /\ UNCHANGED <<company, session>>

\* POST /auth/forgot-password, the account read before the transaction.
requestPasswordReset(c, e) ==
    /\ canSignIn(e)
    /\ Starts(c, [op |-> "reset", account |-> e])
    /\ UNCHANGED tables

\* The first statement of the transaction: it sees the links committed so far,
\* and what it writes shows when the transaction commits.
resetRetire(c) ==
    /\ Is(c, "reset")
    /\ call' = [call EXCEPT ![c] =
          [op |-> "retire", account |-> @.account, older |-> unusedLinks(@.account, "reset")]]
    /\ UNCHANGED tables

resetCommit(c, l) ==
    /\ Is(c, "retire")
    /\ fresh(l)
    /\ link' = [k \in Links |->
          IF k = l THEN newLink(call[c].account, "reset")
          ELSE IF k \in call[c].older THEN [link[k] EXCEPT !.used = TRUE]
          ELSE link[k]]
    /\ mailbox' = mailbox \cup {l}
    /\ Ends(c)
    /\ UNCHANGED <<company, account, session>>

\* The email is taken, or mail or database fail: rolled back, with the mail of a
\* link that no table knows perhaps on its way.
Rollback(c, sent) ==
    /\ call[c] # NULL /\ call[c].op \in {"signup", "invite", "retire"}
    /\ \A l \in sent : fresh(l)
    /\ call[c].op # "retire" => (sent # {} => account[call[c].account] = NULL)
    /\ mailbox' = mailbox \cup sent
    /\ Ends(c)
    /\ UNCHANGED <<company, account, link, session>>

-----------------------------------------------------------------------------
\* Opening a mailed link: verifyEmail, acceptInvitation, resetPassword.

\* What the transaction reads before it claims the link.
linkOpens(l) ==
    /\ live(l)
    /\ link[l].purpose \in {"invite", "reset"} => companyActive(link[l].account)
    /\ link[l].purpose = "reset" => account[link[l].account].active

openLink(c, l, p) ==
    /\ l \in mailbox
    /\ linkOpens(l)
    /\ Starts(c, [op |-> "open", link |-> l, password |-> p])
    /\ UNCHANGED tables

\* Mutant: the claim does not ask whether the link is still unused.
stillUnused_asRead(l) == TRUE

\* The conditional update finds the link unused; expiry is judged by the time the
\* call started, which has not changed.
stillUnused(l) == ~link[l].used

\* Mutant: the link is not marked as used.
claimLink_forgotten(l) == UNCHANGED link

claimLink(l) == link' = [link EXCEPT ![l].used = TRUE]

\* Mutant: the company keeps its status.
verifyEmail_accountOnly(c) ==
    /\ Is(c, "open")
    /\ LET l == call[c].link
       IN  /\ link[l].purpose = "verify"
           /\ stillUnused(l)
           /\ claimLink(l)
           /\ account' = [account EXCEPT ![link[l].account].active = TRUE]
    /\ Ends(c)
    /\ UNCHANGED <<company, mailbox, session>>

verifyEmail(c) ==
    /\ Is(c, "open")
    /\ LET l == call[c].link
       IN  /\ link[l].purpose = "verify"
           /\ stillUnused(l)
           /\ claimLink(l)
           /\ company' = [company EXCEPT ![CompanyOf[link[l].account]] = "ACTIVE"]
           /\ account' = [account EXCEPT ![link[l].account].active = TRUE]
    /\ Ends(c)
    /\ UNCHANGED <<mailbox, session>>

acceptInvitation(c) ==
    /\ Is(c, "open")
    /\ LET l == call[c].link
       IN  /\ link[l].purpose = "invite"
           /\ stillUnused(l)
           /\ claimLink(l)
           /\ account' = [account EXCEPT ![link[l].account] =
                [password |-> call[c].password, active |-> TRUE]]
    /\ Ends(c)
    /\ UNCHANGED <<company, mailbox, session>>

\* Mutant: the sessions stay.
resetPassword_sessionsStay(c) ==
    /\ Is(c, "open")
    /\ LET l == call[c].link
       IN  /\ link[l].purpose = "reset"
           /\ stillUnused(l)
           /\ claimLink(l)
           /\ account' = [account EXCEPT ![link[l].account].password = call[c].password]
    /\ Ends(c)
    /\ UNCHANGED <<company, mailbox, session>>

resetPassword(c) ==
    /\ Is(c, "open")
    /\ LET l == call[c].link
       IN  /\ link[l].purpose = "reset"
           /\ stillUnused(l)
           /\ claimLink(l)
           /\ account' = [account EXCEPT ![link[l].account].password = call[c].password]
           /\ session' = revokedSessions(link[l].account, {})
    /\ Ends(c)
    /\ UNCHANGED <<company, mailbox>>

\* 400: somebody else has used the link meanwhile.
LinkUsed(c) ==
    /\ Is(c, "open")
    /\ ~stillUnused(call[c].link)
    /\ Ends(c)
    /\ UNCHANGED tables

-----------------------------------------------------------------------------
\* Sessions.

\* login has read the account and verifies the password against the hash it read.
login(c, e, p) ==
    /\ canSignIn(e)
    /\ account[e].password = p
    /\ Starts(c, [op |-> "login", account |-> e, password |-> p])
    /\ UNCHANGED tables

loginCommit(c, s) ==
    /\ Is(c, "login")
    /\ session[s] = NULL
    /\ session' = [session EXCEPT ![s] =
          [account |-> call[c].account, revoked |-> FALSE, expired |-> FALSE,
           openedWith |-> call[c].password]]
    /\ Ends(c)
    /\ UNCHANGED <<company, account, link, mailbox>>

logout(s) ==
    /\ authenticate(s)
    /\ session' = [session EXCEPT ![s].revoked = TRUE]
    /\ UNCHANGED <<company, account, link, mailbox, call>>

\* The guard meets a session past its idle or absolute limit.
rejectExpired(s) ==
    /\ open(s)
    /\ session[s].expired
    /\ session' = [session EXCEPT ![s].revoked = TRUE]
    /\ UNCHANGED <<company, account, link, mailbox, call>>

currentPassword(s, p) == account[session[s].account].password = p

\* changePassword has verified the current password and hashed the new one.
changePassword(c, s, current, p) ==
    /\ authenticate(s)
    /\ currentPassword(s, current)
    /\ Starts(c, [op |-> "change", session |-> s, password |-> p])
    /\ UNCHANGED tables

\* The new password, and every other session of the account revoked.
changeCommit(c) ==
    /\ Is(c, "change")
    /\ LET s == call[c].session
           e == session[s].account
       IN  /\ account' = [account EXCEPT ![e].password = call[c].password]
           /\ session' = [revokedSessions(e, {s}) EXCEPT ![s].openedWith = call[c].password]
    /\ Ends(c)
    /\ UNCHANGED <<company, link, mailbox>>

-----------------------------------------------------------------------------
\* AdminService, as far as it decides who can sign in (see Staff for its checks).

administer(c, s, e, op) ==
    /\ authenticate(s)
    /\ account[e] # NULL
    /\ CompanyOf[e] = CompanyOf[session[s].account]
    /\ e # session[s].account
    /\ op \in {"remove", "restore"}
    /\ Starts(c, [op |-> op, account |-> e])
    /\ UNCHANGED tables

\* active true, by an edit of the account.
restoreCommit(c) ==
    /\ Is(c, "restore")
    /\ account' = [account EXCEPT ![call[c].account].active = TRUE]
    /\ Ends(c)
    /\ UNCHANGED <<company, link, mailbox, session>>

removeCommit(c) ==
    /\ Is(c, "remove")
    /\ account' = [account EXCEPT ![call[c].account].active = FALSE]
    /\ call' = [call EXCEPT ![c] = [op |-> "revoke", account |-> @.account]]
    /\ UNCHANGED <<company, link, mailbox, session>>

revokeAccess(c) ==
    /\ Is(c, "revoke")
    /\ session' = revokedSessions(call[c].account, {})
    /\ link' = [l \in Links |->
          IF l \in unusedLinks(call[c].account, "invite")
          THEN [link[l] EXCEPT !.used = TRUE] ELSE link[l]]
    /\ Ends(c)
    /\ UNCHANGED <<company, account, mailbox>>

-----------------------------------------------------------------------------
\* Time, and the process.

LinkExpires(l) ==
    /\ live(l)
    /\ link' = [link EXCEPT ![l].expired = TRUE]
    /\ UNCHANGED <<company, account, mailbox, session, call>>

SessionExpires(s) ==
    /\ open(s)
    /\ session' = [session EXCEPT ![s].expired = TRUE]
    /\ UNCHANGED <<company, account, link, mailbox, call>>

\* A restart drops the calls in flight; their transactions roll back.
AccessRestart ==
    /\ call' = [c \in Calls |-> NULL]
    /\ UNCHANGED tables

CallBegins(c) ==
    \/ \E e \in Founders, p \in Passwords : signupCompany(c, e, p)
    \/ \E e \in Employees : requestPasswordReset(c, e)
    \/ \E e \in Employees, p \in Passwords : login(c, e, p)
    \/ \E l \in Links, p \in Passwords : openLink(c, l, p)
    \/ \E s \in Sessions, e \in Employees :
          inviteStaff(c, s, e) \/ administer(c, s, e, "remove") \/ administer(c, s, e, "restore")
    \/ \E s \in Sessions, current, p \in Passwords : changePassword(c, s, current, p)

CallGoesOn(c) ==
    \/ \E l \in Links : signupCommit(c, l) \/ inviteCommit(c, l) \/ resetCommit(c, l)
    \/ resetRetire(c)
    \/ Rollback(c, {}) \/ \E l \in Links : Rollback(c, {l})
    \/ verifyEmail(c) \/ acceptInvitation(c) \/ resetPassword(c) \/ LinkUsed(c)
    \/ \E s \in Sessions : loginCommit(c, s)
    \/ changeCommit(c)
    \/ restoreCommit(c) \/ removeCommit(c) \/ revokeAccess(c)

AccessNext ==
    \/ \E c \in Calls : CallBegins(c) \/ CallGoesOn(c)
    \/ \E s \in Sessions : logout(s) \/ rejectExpired(s) \/ SessionExpires(s)
    \/ \E l \in Links : LinkExpires(l)
    \/ AccessRestart

AccessSpec == AccessInit /\ [][AccessNext]_accessVars

-----------------------------------------------------------------------------
\* Properties.

\* Until somebody has opened the link mailed to its founder, a company is one
\* inactive account: no session, no second account, no other link, whatever calls
\* are sent and in flight.
PendingCompanyIsClosed ==
    \A e \in Employees : (account[e] # NULL /\ ~companyActive(e)) =>
        /\ e \in Founders /\ ~account[e].active
        /\ linksOf(e, "invite") \cup linksOf(e, "reset") = {}
        /\ \A s \in Sessions : session[s] # NULL => session[s].account # e

\* Whoever is signed in has opened a link that was mailed to the address of the
\* account; an administrator who activates an invited account does not get around it.
SignedInThroughMail ==
    \A s \in Sessions : session[s] # NULL =>
        \E l \in mailbox : /\ link[l] # NULL
                           /\ link[l].account = session[s].account
                           /\ link[l].purpose \in {"verify", "invite"}
                           /\ link[l].used

\* A link works once (ADR-004, "A second use is rejected"): two calls that open it
\* at the same time do not both set a password, and without a link only a change
\* that proved a password does.
LinkWorksOnce ==
    [][\A e \in Employees :
        (account[e] # NULL /\ account'[e].password # account[e].password) =>
            \/ \E l \in Links : /\ link[l] # NULL
                                /\ link[l].account = e
                                /\ ~link[l].used
                                /\ link'[l].used
            \/ \E c \in Calls : /\ Is(c, "change")
                                /\ session[call[c].session].account = e]_accessVars

\* An open session that was last proven with another password than the one of today.
outdated(s) == open(s) /\ session[s].openedWith # account[session[s].account].password

\* docs/decisions/ADR-004:91, "Revoking sessions means the previous password's cookie
\* cannot keep working": replacing a password leaves no open session behind that does not
\* know the new one, also when calls overlap.  Such a session is only ever opened by a
\* login that verified its password before the replacement and stores its session after
\* it, which nothing in the code prevents, and the next replacement ends that one too.
OnlyALateLoginIsOutdated ==
    [][\A s \in Sessions : outdated(s)' =>
        \/ /\ outdated(s)
           /\ account'[session[s].account].password = account[session[s].account].password
        \/ /\ session[s] = NULL
           /\ \E c \in Calls : /\ Is(c, "login")
                               /\ call[c].password # account[call[c].account].password]_accessVars
=============================================================================
