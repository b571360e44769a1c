---------------------------- MODULE ClientSession ----------------------------
(***************************************************************************)
(* Who is signed in, as the tabs of one browser see it (App and api.ts):   *)
(* the session generation and the CSRF token of each tab, the cookie that  *)
(* the tabs share, the calls in flight and what is done with their answers *)
(* and failures, the server's guards, and the staff invitations that a     *)
(* sign-up leaves in the tab for the founder's first sign-in.              *)
(*                                                                         *)
(* A session and its CSRF token are the session's index in sessions; 0 is  *)
(* no cookie and an empty token.  The two lookups that App always awaits   *)
(* together are one call.  Accounts are verified as soon as they sign up.  *)
(***************************************************************************)
EXTENDS Naturals, FiniteSets, Sequences, SequencesExt

CONSTANTS
    Tabs,
    Accounts,
    Founders,           \* the accounts that sign up here, each with a company of its own
    CompanyOf,          \* account -> company
    SuperAdmins,
    Prepared,           \* founder -> the invitations that the sign-up prepares
    Failing,            \* bound: the kinds of calls that fail
    Renamed,            \* the invitations whose department may not be there any more
    NULL,
    MaxSessions,        \* bound: sign-ins that succeed
    MaxLoads,           \* bound: page loads
    MaxFaults,          \* bound: failed calls and sessions that end elsewhere
    Mailed,             \* the accounts that have a reset mail
    MaxGeneration,      \* bound: tab -> the generation at which it starts nothing more
    MaxCalls            \* bound: calls in flight when a tab starts another

VARIABLES
    sessions,           \* the server's sessions, as [account, live]
    known,              \* the accounts that can sign in
    invited,            \* the invitations the server has made, each with its company
    cookie,             \* the session cookie of the browser
    tabs,               \* what App and api.ts keep in each tab
    store,              \* hub-pending-invites in the sessionStorage of each tab
    calls,              \* the calls in flight
    loads,              \* page loads so far
    faults              \* faults so far

vars == <<sessions, known, invited, cookie, tabs, store, calls, loads, faults>>

Invites == UNION {Range(Prepared[f]) : f \in Founders}

PublicKinds == {"login", "signup", "reset"}
WriteKinds == {"logout", "write", "invite"}
ReadKinds == {"me", "startLookups", "loginLookups", "lookups", "refresh", "page", "inviteLookups"}
Kinds == PublicKinds \cup WriteKinds \cup ReadKinds
LoopKinds == {"inviteLookups", "invite"}

\* What a tab's sessionStorage holds for the founder who has signed up in it.
Pending == [founder : Accounts, invites : Seq(Invites)]

ASSUME ClientAssumption ==
    /\ Founders \subseteq Accounts /\ SuperAdmins \subseteq Accounts
    /\ Prepared \in [Founders -> Seq(Invites)]
    /\ \A f \in Founders : IsInjective(Prepared[f])
    /\ \A f, g \in Founders : f # g => /\ CompanyOf[f] # CompanyOf[g]
                                       /\ Range(Prepared[f]) \cap Range(Prepared[g]) = {}
    /\ NULL \notin Accounts \cup {"ok", "401", "refused", "network"} /\ NULL \notin Pending
    /\ Mailed \subseteq Accounts /\ Renamed \subseteq Invites /\ Failing \subseteq Kinds
    /\ {MaxSessions, MaxLoads, MaxFaults, MaxCalls} \subseteq Nat /\ MaxGeneration \in [Tabs -> Nat]

Statuses == {"ok", "401", "refused", "network", NULL}

\* What sendPreparedInvites has in hand: the invitation it is sending, those after it, and
\* those that could not be sent.
Loop == [founder : Accounts, generation : Nat, rest : Seq(Invites), failed : Seq(Invites), company : Range(CompanyOf) \cup {NULL}]

\* account: whom the call is about, for the public calls; else the user who asked for it.
\* gone: the page that made the call has been left.
Call == [tab : Tabs, kind : Kinds, generation : Nat, cookie : Nat, csrf : Nat,
         account : Accounts \cup {NULL}, loop : Loop \cup {NULL},
         status : Statuses, session : Nat, gone : BOOLEAN]

\* link: the page was opened from the mail of a reset.  data and feedback: the account that
\* asked for the requests, lookups and drafts in App, and the one whose invitations the
\* notice is about.
Tab == [open : BOOLEAN, ready : BOOLEAN, link : BOOLEAN, busy : BOOLEAN,
        user : Accounts \cup {NULL}, generation : Nat, csrf : Nat,
        data : Accounts \cup {NULL}, feedback : Accounts \cup {NULL}]

\* Sessions, tabs, the store and the calls have their shape.
ClientTypeOK ==
    /\ sessions \in Seq([account : Accounts, live : BOOLEAN]) /\ Len(sessions) <= MaxSessions
    /\ known \subseteq Accounts
    /\ invited \subseteq Invites \X Range(CompanyOf)
    /\ cookie \in 0..Len(sessions)
    /\ tabs \in [Tabs -> Tab] /\ \A t \in Tabs : tabs[t].csrf \in 0..Len(sessions)
    /\ store \in [Tabs -> Pending \cup {NULL}]
    /\ calls \subseteq Call
    /\ loads \in 0..MaxLoads /\ faults \in 0..MaxFaults

noTab == [open |-> FALSE, ready |-> FALSE, link |-> FALSE, busy |-> FALSE, user |-> NULL,
          generation |-> 0, csrf |-> 0, data |-> NULL, feedback |-> NULL]

Init ==
    /\ sessions = <<>>
    /\ known = Accounts \ Founders
    /\ invited = {}
    /\ cookie = 0
    /\ tabs = [t \in Tabs |-> noTab]
    /\ store = [t \in Tabs |-> NULL]
    /\ calls = {}
    /\ loads = 0
    /\ faults = 0

-----------------------------------------------------------------------------
\* The client session of a tab.

beginClientSession(tb, s) == [tb EXCEPT !.generation = @ + 1, !.csrf = s]

endClientSession(tb) == [tb EXCEPT !.generation = @ + 1, !.csrf = 0]

resetWorkspaceData(tb) == [tb EXCEPT !.data = NULL]

clearAccountWorkspace(tb) == [resetWorkspaceData(tb) EXCEPT !.user = NULL, !.feedback = NULL]

\* A call leaves with the generation, the token and the cookie of this moment.
Send(t, kind, account, loop) ==
    [tab |-> t, kind |-> kind, generation |-> tabs'[t].generation, cookie |-> cookie',
     csrf |-> tabs'[t].csrf, account |-> account, loop |-> loop,
     status |-> NULL, session |-> 0, gone |-> FALSE]

IsStale(c) == c.generation # tabs[c.tab].generation

thisRequestEndedSession(c) == c.status = "401" /\ c.kind # "login" /\ ~IsStale(c)

Outcome_keepsOld(c) ==
    IF c.status = "401" THEN "401"
    ELSE IF c.status \in {"network", "refused"} THEN "failed"
    ELSE c.status

\* How send ends.  A fetch that fails is rejected before the generation is looked at.
Outcome(c) ==
    IF c.status = "network" THEN "failed"
    ELSE IF thisRequestEndedSession(c) THEN "401"
    ELSE IF IsStale(c) THEN "stale"
    ELSE IF c.status = "refused" THEN "failed"
    ELSE c.status

\* The tab as send leaves it.
AfterSend(c) == IF thisRequestEndedSession(c) THEN endClientSession(tabs[c.tab]) ELSE tabs[c.tab]

\* The cookie once the answer has arrived, whatever the page does with it.
SetCookie(c) ==
    IF c.status = "ok" /\ c.kind = "login" THEN c.session
    ELSE IF c.status = "ok" /\ c.kind = "logout" THEN 0
    ELSE cookie

\* run, when its action has ended with o.
RunEnds(tb, o) ==
    [(IF o = "401" THEN clearAccountWorkspace(tb) ELSE tb) EXCEPT !.busy = FALSE]

-----------------------------------------------------------------------------
\* The staff invitations of a sign-up.

Stored(t) == IF store[t] = NULL THEN {} ELSE Range(store[t].invites)

savePendingInvites(t, founder, invites) ==
    store' = [store EXCEPT ![t] = IF invites = <<>> THEN NULL
                                  ELSE [founder |-> founder, invites |-> invites]]

takePendingInvites_anyones(t, founder) == IF store[t] # NULL THEN store[t].invites ELSE <<>>

takePendingInvites(t, founder) ==
    IF store[t] # NULL /\ store[t].founder = founder THEN store[t].invites ELSE <<>>

\* applySession has put a session in the tab: sendPreparedInvites starts with its lookup.
sendPreparedInvites(t, account) ==
    LET pending == IF account \in SuperAdmins THEN takePendingInvites(t, account) ELSE <<>>
    IN  IF pending = <<>> THEN {}
        ELSE {Send(t, "inviteLookups", account,
                   [founder |-> account, generation |-> tabs'[t].generation,
                    rest |-> pending, failed |-> <<>>, company |-> NULL])}

\* The tab's session is that of call c; next is the kind of the lookups that follow.
applySession(c, next) ==
    LET account == sessions[c.session].account
        begun == [resetWorkspaceData(beginClientSession(tabs[c.tab], c.session))
                    EXCEPT !.user = account, !.feedback = NULL]
    IN  /\ tabs' = [tabs EXCEPT ![c.tab] = begun]
        /\ LET first == sendPreparedInvites(c.tab, account)
           IN  /\ calls' = (calls \ {c}) \cup {Send(c.tab, next, account, NULL)} \cup first
               /\ store' = [store EXCEPT ![c.tab] = IF first = {} THEN @ ELSE NULL]

\* The loop is over: what failed is saved over what is there, and the notice is shown if the
\* generation is still the one it started in.
LoopEnds(c, tb, loop) ==
    /\ calls' = calls \ {c}
    /\ tabs' = [tabs EXCEPT ![c.tab] =
                  IF tb.generation = loop.generation THEN [tb EXCEPT !.feedback = loop.founder] ELSE tb]
    /\ IF loop.failed = <<>> THEN UNCHANGED store
       ELSE savePendingInvites(c.tab, loop.founder, loop.failed)

\* The next n invitations fail without a call: the lookup does not list their departments.
Skipped(loop, n) ==
    [loop EXCEPT !.failed = @ \o SubSeq(loop.rest, 1, n), !.rest = SubSeq(@, n + 1, Len(@))]

\* The next invitation whose department is listed, or the end.
LoopGoesOn(c, tb, loop) ==
    \E n \in 0..Len(loop.rest) :
        LET next == Skipped(loop, n)
        IN  /\ Range(SubSeq(loop.rest, 1, n)) \subseteq Renamed
            /\ IF next.rest = <<>>
               THEN LoopEnds(c, tb, next)
               ELSE /\ tabs' = [tabs EXCEPT ![c.tab] = tb]
                    /\ calls' = (calls \ {c}) \cup {Send(c.tab, "invite", next.founder, next)}
                    /\ UNCHANGED store

inviteFailed_forgetsRest(loop, o) ==
    IF o \in {"stale", "401"}
    THEN [loop EXCEPT !.failed = Append(@, Head(loop.rest)), !.rest = <<>>]
    ELSE [loop EXCEPT !.failed = Append(@, Head(loop.rest)), !.rest = Tail(@)]

\* The invitation could not be sent; once the session is over no other is tried.
inviteFailed(loop, o) ==
    IF o \in {"stale", "401"}
    THEN [loop EXCEPT !.failed = @ \o loop.rest, !.rest = <<>>]
    ELSE [loop EXCEPT !.failed = Append(@, Head(loop.rest)), !.rest = Tail(@)]

-----------------------------------------------------------------------------
\* What a person starts.

MayStart(t) == tabs[t].ready /\ tabs[t].generation < MaxGeneration[t] /\ Cardinality(calls) < MaxCalls

\* A page load, also over a page whose calls are in flight; the person opened a reset mail or not.
Load(t, link) ==
    /\ loads < MaxLoads
    /\ loads' = loads + 1
    /\ tabs' = [tabs EXCEPT ![t] = [noTab EXCEPT !.open = TRUE, !.link = link]]
    /\ UNCHANGED <<sessions, known, invited, cookie, store, faults>>
    /\ calls' = {c \in calls : c.tab # t}
                  \cup {[c EXCEPT !.gone = TRUE] :
                            c \in {d \in calls : d.tab = t /\ d.status = NULL /\ d.kind \notin ReadKinds}}
                  \cup {Send(t, "me", NULL, NULL)}

\* A button that waits: busy until the call and what follows it have ended.
Start(t, kind, account) ==
    /\ MayStart(t)
    /\ ~tabs[t].busy
    /\ tabs' = [tabs EXCEPT ![t].busy = TRUE]
    /\ UNCHANGED <<sessions, known, invited, cookie, store, loads, faults>>
    /\ calls' = calls \cup {Send(t, kind, account, NULL)}

AtGate(t) == tabs[t].user = NULL /\ ~tabs[t].link
AtWork(t) == tabs[t].user # NULL /\ ~tabs[t].link

onLogin(t, account) == AtGate(t) /\ Start(t, "login", account)
onSignup(t, founder) == AtGate(t) /\ Start(t, "signup", founder)
onReset(t, account) == tabs[t].link /\ Start(t, "reset", account)
onLogout(t) == AtWork(t) /\ Start(t, "logout", tabs[t].user)
onWrite(t) == AtWork(t) /\ Start(t, "write", tabs[t].user)

\* A page is opened and reads its list ("page"), or the form is and reads the lookups; one of
\* them at a time, as a bound.
onOpen(t, kind) ==
    /\ AtWork(t)
    /\ MayStart(t)
    /\ \A c \in calls : c.tab = t => c.kind \notin {"page", "lookups"}
    /\ UNCHANGED <<sessions, known, invited, cookie, tabs, store, loads, faults>>
    /\ calls' = calls \cup {Send(t, kind, tabs[t].user, NULL)}

-----------------------------------------------------------------------------
\* The server.

\* What the call has carried to the server is of no use any more.
Answer(c, status, session) ==
    calls' = (calls \ {c}) \cup {[c EXCEPT !.status = status, !.session = session, !.cookie = 0, !.csrf = 0]}

Live(s) == s # 0 /\ sessions[s].live

csrfPasses_ifAny(c) == c.kind \in WriteKinds => c.csrf # 0

csrfPasses(c) == c.kind \in WriteKinds => c.csrf = c.cookie

\* SessionGuard and CsrfGuard, in this order.
Refuse(c) ==
    /\ c.kind \notin PublicKinds
    /\ ~Live(c.cookie) \/ ~csrfPasses(c)
    /\ Answer(c, IF Live(c.cookie) THEN "refused" ELSE "401", 0)
    /\ UNCHANGED <<sessions, known, invited>>

Allowed(c) == c.kind \notin PublicKinds /\ Live(c.cookie) /\ csrfPasses(c)

ServeLogin(c) ==
    /\ c.kind = "login"
    /\ UNCHANGED <<known, invited>>
    /\ IF c.account \notin known
       THEN Answer(c, "401", 0) /\ UNCHANGED sessions
       ELSE /\ Len(sessions) < MaxSessions
            /\ sessions' = Append(sessions, [account |-> c.account, live |-> TRUE])
            /\ Answer(c, "ok", Len(sessions'))

ServeSignup(c) ==
    /\ c.kind = "signup"
    /\ known' = known \cup {c.account}
    /\ Answer(c, IF c.account \in known THEN "refused" ELSE "ok", 0)
    /\ UNCHANGED <<sessions, invited>>

Revoked(ss) == [s \in DOMAIN sessions |-> IF s \in ss THEN [sessions[s] EXCEPT !.live = FALSE] ELSE sessions[s]]

ServeReset(c) ==
    /\ c.kind = "reset"
    /\ sessions' = Revoked({s \in DOMAIN sessions : sessions[s].account = c.account})
    /\ Answer(c, IF c.account \in known THEN "ok" ELSE "refused", 0)
    /\ UNCHANGED <<known, invited>>

ServeLogout(c) ==
    /\ c.kind = "logout" /\ Allowed(c)
    /\ sessions' = Revoked({c.cookie})
    /\ Answer(c, "ok", c.cookie)
    /\ UNCHANGED <<known, invited>>

\* The department that the lookup has found must be one of the account's company, and the
\* email nobody's yet.
ServeInvite(c) ==
    LET i == Head(c.loop.rest)
        account == sessions[c.cookie].account
    IN  /\ c.kind = "invite" /\ Allowed(c)
        /\ IF account \in SuperAdmins /\ CompanyOf[account] = c.loop.company /\ i \notin {p[1] : p \in invited}
           THEN invited' = invited \cup {<<i, c.loop.company>>} /\ Answer(c, "ok", c.cookie)
           ELSE invited' = invited /\ Answer(c, "refused", 0)
        /\ UNCHANGED <<sessions, known>>

ServeOther(c) ==
    /\ c.kind \in ReadKinds \cup {"write"} /\ Allowed(c)
    /\ Answer(c, "ok", c.cookie)
    /\ UNCHANGED <<sessions, known, invited>>

\* The server fails before it has done anything, or the call or its answer is lost.
Fail(c) ==
    /\ Answer(c, "network", 0) \/ (c.status = NULL /\ Answer(c, "refused", 0))
    /\ UNCHANGED <<sessions, known, invited>>

Serve(c) ==
    /\ c.status = NULL
    /\ \/ Refuse(c)
       \/ ServeLogin(c)
       \/ ServeSignup(c)
       \/ ServeReset(c)
       \/ ServeLogout(c)
       \/ ServeInvite(c)
       \/ ServeOther(c)
    /\ UNCHANGED <<cookie, tabs, store, loads, faults>>

Fault == faults < MaxFaults /\ faults' = faults + 1

Lose(c) == c.kind \in Failing /\ c.status # "network" /\ Fail(c) /\ Fault /\ UNCHANGED <<cookie, tabs, store, loads>>

\* A session ends elsewhere: it expires, or its account is deactivated or changes its password.
Expire(s) ==
    /\ s = cookie /\ Live(s)
    /\ Fault
    /\ sessions' = Revoked({s})
    /\ UNCHANGED <<known, invited, cookie, tabs, store, calls, loads>>

-----------------------------------------------------------------------------
\* What the tab does with an answer.

\* The page is gone; the browser may still have read the header.
DeliverGone(c) ==
    /\ c.gone
    /\ cookie' \in {cookie, SetCookie(c)}
    /\ calls' = calls \ {c}
    /\ UNCHANGED <<tabs, store>>

\* The end of the action that c was the last call of.
Settle(c, tb) ==
    /\ tabs' = [tabs EXCEPT ![c.tab] = tb]
    /\ calls' = calls \ {c}
    /\ UNCHANGED store

startupFails_stays(tb, o) ==
    IF o = "stale" THEN tb
    ELSE IF o = "401" THEN [clearAccountWorkspace(tb) EXCEPT !.ready = TRUE]
    ELSE [tb EXCEPT !.user = NULL, !.ready = TRUE]

\* The catch and the finally of the first effect.
startupFails(tb, o) ==
    [(IF o = "stale" THEN tb
      ELSE IF o = "401" THEN clearAccountWorkspace(tb)
      ELSE [tb EXCEPT !.user = NULL]) EXCEPT !.ready = TRUE]

DeliverMe(c) ==
    /\ c.kind = "me"
    /\ IF Outcome(c) = "ok"
       THEN applySession(c, "startLookups")
       ELSE Settle(c, startupFails(AfterSend(c), Outcome(c)))

DeliverStartLookups(c) ==
    /\ c.kind = "startLookups"
    /\ Settle(c, IF Outcome(c) = "ok"
                 THEN [tabs[c.tab] EXCEPT !.data = c.account, !.ready = TRUE]
                 ELSE startupFails(AfterSend(c), Outcome(c)))

DeliverLogin(c) ==
    /\ c.kind = "login"
    /\ IF Outcome(c) = "ok"
       THEN applySession(c, "loginLookups")
       ELSE Settle(c, RunEnds(AfterSend(c), Outcome(c)))

\* The last call of a run that shows what it has read.
DeliverRunRead(c) ==
    /\ c.kind \in {"loginLookups", "refresh"}
    /\ Settle(c, RunEnds(IF Outcome(c) = "ok" THEN [tabs[c.tab] EXCEPT !.data = c.account] ELSE AfterSend(c),
                         Outcome(c)))

DeliverLogout(c) ==
    /\ c.kind = "logout"
    /\ Settle(c, RunEnds(IF Outcome(c) = "ok" THEN clearAccountWorkspace(endClientSession(tabs[c.tab]))
                         ELSE AfterSend(c), Outcome(c)))

DeliverWrite(c) ==
    /\ c.kind = "write"
    /\ IF Outcome(c) = "ok"
       THEN /\ UNCHANGED <<tabs, store>>
            /\ calls' = (calls \ {c}) \cup {Send(c.tab, "refresh", c.account, NULL)}
       ELSE Settle(c, RunEnds(AfterSend(c), Outcome(c)))

\* A page's list goes to the page; a 401 calls its onUnauthorized.
DeliverPage(c) ==
    /\ c.kind = "page"
    /\ Settle(c, IF Outcome(c) = "401" THEN clearAccountWorkspace(AfterSend(c)) ELSE AfterSend(c))

\* The effect of the form has no catch.
DeliverLookups(c) ==
    /\ c.kind = "lookups"
    /\ Settle(c, IF Outcome(c) = "ok" THEN [tabs[c.tab] EXCEPT !.data = c.account] ELSE AfterSend(c))

DeliverSignup(c) ==
    /\ c.kind = "signup"
    /\ tabs' = [tabs EXCEPT ![c.tab] = [AfterSend(c) EXCEPT !.busy = FALSE]]
    /\ calls' = calls \ {c}
    /\ IF Outcome(c) = "ok" THEN savePendingInvites(c.tab, c.account, Prepared[c.account]) ELSE UNCHANGED store

DeliverReset(c) ==
    /\ c.kind = "reset"
    /\ Settle(c, RunEnds(IF Outcome(c) = "ok"
                         THEN [endClientSession(tabs[c.tab]) EXCEPT !.user = NULL, !.link = FALSE]
                         ELSE AfterSend(c), Outcome(c)))

DeliverInviteLookups(c) ==
    /\ c.kind = "inviteLookups"
    /\ IF Outcome(c) = "ok"
       THEN LoopGoesOn(c, tabs[c.tab], [c.loop EXCEPT !.company = CompanyOf[sessions[c.session].account]])
       ELSE LoopEnds(c, AfterSend(c), [c.loop EXCEPT !.failed = c.loop.rest, !.rest = <<>>])

DeliverInvite(c) ==
    /\ c.kind = "invite"
    /\ LoopGoesOn(c, AfterSend(c), IF Outcome(c) = "ok" THEN [c.loop EXCEPT !.rest = Tail(@)]
                                   ELSE inviteFailed(c.loop, Outcome(c)))

Deliver(c) ==
    /\ c.status # NULL
    /\ UNCHANGED <<sessions, known, invited, loads, faults>>
    /\ \/ DeliverGone(c)
       \/ /\ ~c.gone
          /\ cookie' = SetCookie(c)
          /\ \/ DeliverMe(c)
             \/ DeliverStartLookups(c)
             \/ DeliverLogin(c)
             \/ DeliverRunRead(c)
             \/ DeliverLogout(c)
             \/ DeliverWrite(c)
             \/ DeliverPage(c)
             \/ DeliverLookups(c)
             \/ DeliverSignup(c)
             \/ DeliverReset(c)
             \/ DeliverInviteLookups(c)
             \/ DeliverInvite(c)

Next ==
    \/ \E t \in Tabs, link \in BOOLEAN : Load(t, link /\ Mailed # {})
    \/ \E t \in Tabs, a \in Accounts : onLogin(t, a)
    \/ \E t \in Tabs, a \in Mailed : onReset(t, a)
    \/ \E t \in Tabs, f \in Founders : onSignup(t, f)
    \/ \E t \in Tabs : onLogout(t) \/ onWrite(t)
    \/ \E t \in Tabs, kind \in {"page", "lookups"} : onOpen(t, kind)
    \/ \E c \in calls : Serve(c) \/ Lose(c) \/ Deliver(c)
    \/ \E s \in DOMAIN sessions : Expire(s)

\* The calls of a page that starts end, one way or the other, and the tab goes on.
Fairness ==
    \A t \in Tabs :
        WF_vars(\E c \in calls : c.tab = t /\ c.kind \in {"me", "startLookups"} /\ ~c.gone
                                    /\ (Serve(c) \/ Lose(c) \/ Deliver(c)))

Spec == Init /\ [][Next]_vars /\ Fairness

-----------------------------------------------------------------------------
\* Properties.

\* What a person asked for is done in that person's name: a write or a sign-out that the
\* server has carried out ran under the account that the tab showed when it was asked for,
\* whatever other tabs have done to the cookie since.
WritesAreTheAskers ==
    \A c \in calls : c.kind \in {"write", "logout"} /\ c.status = "ok" => sessions[c.session].account = c.account

\* The staff that a founder has prepared is invited by that founder, into the founder's
\* company, whoever signs in to the tab first and whatever other tabs do to the cookie, as
\* long as the session lasts in which the loop began.
InvitesStayHome ==
    \A c \in calls : (c.kind = "invite" /\ c.status = "ok" /\ c.generation = c.loop.generation) =>
        /\ sessions[c.session].account = c.loop.founder
        /\ c.loop.founder \in Founders /\ Head(c.loop.rest) \in Range(Prepared[c.loop.founder])

\* What a tab shows was asked for by the account that it shows: an answer to an earlier one
\* that comes late, also after the next sign-in, changes nothing.
OldAnswersAreIgnored ==
    \A t \in Tabs : tabs[t].user # NULL => {tabs[t].data, tabs[t].feedback} \subseteq {NULL, tabs[t].user}

InHand(loop) == Range(loop.rest) \cup Range(loop.failed)

\* The invitations of a tab: those stored, and those that a loop has in hand.
Held(t) ==
    Stored(t) \cup UNION {InHand(c.loop) : c \in {d \in calls : d.tab = t /\ ~d.gone /\ d.kind \in LoopKinds}}

\* A prepared invitation is made or kept for another try: failures, late answers and the end
\* of the session lose none.  Only a page load in the middle of the loop does, and a later
\* list that is saved over the stored one, that of a sign-up also when it is empty.
InvitesAreKept ==
    [][\A t \in Tabs : \A i \in Held(t) \ Held(t)' :
          \/ \E p \in invited : p[1] = i
          \/ loads' # loads
          \/ i \in Stored(t) /\ (store'[t] # NULL \/ \E c \in calls \ calls' : c.tab = t /\ c.kind = "signup")]_vars

\* Loading ends, with the account or with the sign-in form.
StartupEnds == \A t \in Tabs : (tabs[t].open /\ ~tabs[t].ready) ~> tabs[t].ready
=============================================================================
