------------------------ MODULE ClientSessionProofs ------------------------
(***************************************************************************)
(* Proofs about ClientSession, for any tabs, accounts, calls in flight and *)
(* failures: what a tab shows was asked for by the account it shows, a     *)
(* write runs under the account that the tab showed, and the invitations   *)
(* that a founder has prepared are sent by that founder and not lost.      *)
(*                                                                         *)
(* The shapes are kept as weak as the argument allows: the fields of a     *)
(* record and the few values that are compared.  What is said of one tab   *)
(* and one call is an operator of that tab, that call and the sessions, so *)
(* that the same facts serve before and after a step.                      *)
(***************************************************************************)
EXTENDS ClientSession, SequenceTheorems, TLAPS

CallFields == {"tab", "kind", "generation", "cookie", "csrf", "account", "loop", "status", "session", "gone"}
LoopFields == {"founder", "generation", "rest", "failed", "company"}
TabFields == {"open", "ready", "link", "busy", "user", "generation", "csrf", "data", "feedback"}

\* The calls whose account is the user of the tab, as long as the generation lasts.
UserKinds == {"startLookups", "loginLookups", "lookups", "refresh", "write"}

Ids(ss) == {0} \cup DOMAIN ss

\* The account of a token, when there is one.
BelongsTo(s, account, ss) == s # 0 => ss[s].account = account

TabLike(tb) == DOMAIN tb = TabFields /\ tb.generation \in Nat

CallLike(c) ==
    /\ DOMAIN c = CallFields /\ c.tab \in Tabs /\ c.generation \in Nat
    /\ c.kind = "login" => c.account \in Accounts
    /\ c.kind \in LoopKinds => DOMAIN c.loop = LoopFields /\ c.loop.generation \in Nat

\* The token of a tab is its user's, and what it shows is about its user.
TabFits(tb, ss) ==
    /\ tb.csrf \in Ids(ss)
    /\ tb.user # NULL => /\ BelongsTo(tb.csrf, tb.user, ss)
                         /\ {tb.data, tb.feedback} \subseteq {NULL, tb.user}

\* The call was made with the account of its token, and an answer to it came from there.
CallFits(c, ss) ==
    /\ c.cookie \in Ids(ss) /\ c.csrf \in Ids(ss)
    /\ c.status = "ok" /\ c.kind \notin {"signup", "reset"} => c.session \in DOMAIN ss
    /\ c.kind \in {"write", "logout"} =>
          /\ BelongsTo(c.csrf, c.account, ss)
          /\ c.status = "ok" => ss[c.session].account = c.account
    /\ c.kind = "invite" /\ c.generation = c.loop.generation =>
          /\ BelongsTo(c.csrf, c.loop.founder, ss)
          /\ c.status = "ok" => ss[c.session].account = c.loop.founder

\* The page that made the call is there: generations only grow, and in the same one the user
\* and the token are those of then.
CallCurrent(c, tb, ss) ==
    ~c.gone =>
      /\ c.generation <= tb.generation
      /\ c.kind \in UserKinds /\ c.generation = tb.generation /\ tb.user # NULL => c.account = tb.user
      /\ c.kind \in LoopKinds =>
            /\ c.loop.generation <= tb.generation
            /\ c.loop.generation = tb.generation =>
                  /\ BelongsTo(tb.csrf, c.loop.founder, ss)
                  /\ tb.user # NULL => c.loop.founder = tb.user

SessionRecords == [account : Accounts, live : BOOLEAN]

\* The inductive invariant.
ClientInv ==
    /\ sessions \in Seq(SessionRecords)
    /\ cookie \in Ids(sessions)
    /\ tabs = [t \in Tabs |-> tabs[t]]
    /\ \A t \in Tabs : TabLike(tabs[t]) /\ TabFits(tabs[t], sessions)
    /\ \A c \in calls : /\ CallLike(c) /\ CallFits(c, sessions)
                        /\ CallCurrent(c, tabs[c.tab], sessions)

\* A tab may become nb: it is as before, or a later generation has begun or ended.
Follows(tb, nb, ss) ==
    /\ TabLike(nb) /\ TabFits(nb, ss)
    /\ nb.generation >= tb.generation
    /\ nb.generation = tb.generation => nb.csrf = tb.csrf /\ nb.user \in {tb.user, NULL}

\* Sessions are added or end, and keep their accounts.
Grows(ss, ns) == \A s \in DOMAIN ss : s \in DOMAIN ns /\ ns[s].account = ss[s].account

\* A call that is new in tab t, whose state is tb.
NewCall(c, t, tb, ss) == CallLike(c) /\ c.tab = t /\ CallFits(c, ss) /\ CallCurrent(c, tb, ss)

-----------------------------------------------------------------------------
\* Of sessions, tabs and calls.

\* 0 is no session.
LEMMA SessionIds ==
  ASSUME NEW ss \in Seq(SessionRecords)
  PROVE 0 \notin DOMAIN ss /\ \A s \in DOMAIN ss : ss[s] \in SessionRecords
<1>1. Len(ss) \in Nat /\ DOMAIN ss = 1..Len(ss) /\ ss \in [1..Len(ss) -> SessionRecords]
  BY LenProperties
<1> QED BY <1>1

\* What fits goes on to do so when sessions grow.
LEMMA TabStillFits ==
  ASSUME NEW ss, NEW ns, Grows(ss, ns), NEW tb, TabFits(tb, ss)
  PROVE TabFits(tb, ns)
  BY DEF Grows, TabFits, Ids, BelongsTo

\* The same of a call, whose token and session keep their accounts.
LEMMA CallStillFits ==
  ASSUME NEW ss, NEW ns, Grows(ss, ns), 0 \notin DOMAIN ss, NEW c, CallFits(c, ss)
  PROVE CallFits(c, ns)
<1> USE DEF Grows, CallFits, Ids, BelongsTo
<1>1. c.cookie \in Ids(ns) /\ c.csrf \in Ids(ns)  OBVIOUS
<1>2. c.csrf # 0 => ns[c.csrf].account = ss[c.csrf].account  OBVIOUS
<1>3. c.status = "ok" /\ c.kind \notin {"signup", "reset"} =>
         c.session \in DOMAIN ns /\ ns[c.session].account = ss[c.session].account  OBVIOUS
<1> QED BY <1>1, <1>2, <1>3

\* And of what a call and its tab have in common.
LEMMA CallStillCurrent ==
  ASSUME NEW ss, NEW ns, Grows(ss, ns), NEW c, NEW tb, TabFits(tb, ss), CallCurrent(c, tb, ss)
  PROVE CallCurrent(c, tb, ns)
  BY DEF Grows, CallCurrent, Ids, BelongsTo, TabFits

\* Calls of a tab stay current when the tab goes on.
LEMMA TabGoesOn ==
  ASSUME NEW ss, NEW c, CallLike(c), NEW tb, TabLike(tb), NEW nb, Follows(tb, nb, ss),
         CallCurrent(c, tb, ss)
  PROVE CallCurrent(c, nb, ss)
  BY DEF CallLike, TabLike, Follows, CallCurrent, TabFits, BelongsTo

-----------------------------------------------------------------------------
\* The three ways in which a step changes tabs, sessions and calls.

\* One tab goes on, with calls that are over and calls that are new.
LEMMA OneTabSteps ==
  ASSUME ClientInv, NEW t \in Tabs, NEW nb, NEW new,
         tabs' = [tabs EXCEPT ![t] = nb], sessions' = sessions, cookie' \in Ids(sessions),
         Follows(tabs[t], nb, sessions), calls' \subseteq calls \cup new,
         \A c \in new : NewCall(c, t, nb, sessions)
  PROVE ClientInv'
<1>1. sessions' \in Seq(SessionRecords) /\ cookie' \in Ids(sessions') /\ tabs' = [u \in Tabs |-> tabs'[u]]
  BY DEF ClientInv
<1>2. tabs'[t] = nb /\ \A u \in Tabs \ {t} : tabs'[u] = tabs[u]
  BY DEF ClientInv
<1>3. \A u \in Tabs : TabLike(tabs'[u]) /\ TabFits(tabs'[u], sessions')
  BY <1>2 DEF ClientInv, Follows
<1>4. ASSUME NEW c \in calls'
      PROVE CallLike(c) /\ CallFits(c, sessions') /\ CallCurrent(c, tabs'[c.tab], sessions')
  <2>1. CASE c \in new
    BY <2>1, <1>2 DEF NewCall
  <2>2. CASE c \in calls
    <3>1. CallLike(c) /\ CallFits(c, sessions) /\ CallCurrent(c, tabs[c.tab], sessions) /\ c.tab \in Tabs
      BY <2>2 DEF ClientInv, CallLike
    <3>2. CASE c.tab = t
      <4>1. TabLike(tabs[t])
        BY DEF ClientInv
      <4>2. CallCurrent(c, nb, sessions)
        BY <3>1, <3>2, <4>1, TabGoesOn
      <4> QED BY <3>1, <3>2, <4>2, <1>2
    <3>3. CASE c.tab # t
      BY <3>1, <3>3, <1>2
    <3> QED BY <3>2, <3>3
  <2> QED BY <2>1, <2>2
<1> QED BY <1>1, <1>3, <1>4 DEF ClientInv

\* A call is answered, or none is, and sessions may grow.
LEMMA ServerSteps ==
  ASSUME ClientInv, tabs' = tabs, cookie' = cookie, NEW answered,
         sessions' \in Seq(SessionRecords), Grows(sessions, sessions'),
         calls' \subseteq calls \cup answered,
         \A d \in answered : \E c \in calls :
             /\ CallLike(d) /\ CallFits(d, sessions')
             /\ d.tab = c.tab /\ d.kind = c.kind /\ d.generation = c.generation
             /\ d.account = c.account /\ d.loop = c.loop /\ d.gone = c.gone
  PROVE ClientInv'
<1>1. 0 \notin DOMAIN sessions
  BY SessionIds DEF ClientInv
<1>2. cookie' \in Ids(sessions') /\ tabs' = [u \in Tabs |-> tabs'[u]]
  BY DEF ClientInv, Ids, Grows
<1>3. \A u \in Tabs : TabLike(tabs'[u]) /\ TabFits(tabs'[u], sessions')
  BY TabStillFits DEF ClientInv
<1>4. ASSUME NEW c \in calls
      PROVE CallLike(c) /\ CallFits(c, sessions') /\ CallCurrent(c, tabs'[c.tab], sessions')
  <2>1. CallLike(c) /\ CallFits(c, sessions) /\ CallCurrent(c, tabs[c.tab], sessions) /\ TabFits(tabs[c.tab], sessions)
    BY DEF ClientInv, CallLike
  <2> QED BY <2>1, <1>1, CallStillFits, CallStillCurrent
<1>5. ASSUME NEW d \in answered
      PROVE CallLike(d) /\ CallFits(d, sessions') /\ CallCurrent(d, tabs'[d.tab], sessions')
  <2>1. PICK c \in calls : /\ CallLike(d) /\ CallFits(d, sessions')
                           /\ d.tab = c.tab /\ d.kind = c.kind /\ d.generation = c.generation
                           /\ d.account = c.account /\ d.loop = c.loop /\ d.gone = c.gone
    OBVIOUS
  <2>2. CallCurrent(c, tabs'[c.tab], sessions')
    BY <1>4
  <2> QED BY <2>1, <2>2 DEF CallCurrent
<1> QED BY <1>2, <1>3, <1>4, <1>5 DEF ClientInv

\* The same with no call that is new, or answered, and with one.
LEMMA TabOnlySteps ==
  ASSUME ClientInv, NEW t \in Tabs, NEW nb,
         tabs' = [tabs EXCEPT ![t] = nb], sessions' = sessions, cookie' \in Ids(sessions),
         Follows(tabs[t], nb, sessions), calls' \subseteq calls
  PROVE ClientInv'
<1> DEFINE new == {}
<1>1. calls' \subseteq calls \cup new /\ \A c \in new : NewCall(c, t, nb, sessions)
  OBVIOUS
<1> HIDE DEF new
<1> QED BY <1>1, OneTabSteps

\* With one call that is new.
LEMMA TabCallSteps ==
  ASSUME ClientInv, NEW t \in Tabs, NEW nb, NEW d,
         tabs' = [tabs EXCEPT ![t] = nb], sessions' = sessions, cookie' \in Ids(sessions),
         Follows(tabs[t], nb, sessions), calls' \subseteq calls \cup {d}, NewCall(d, t, nb, sessions)
  PROVE ClientInv'
<1> DEFINE new == {d}
<1>1. calls' \subseteq calls \cup new /\ \A c \in new : NewCall(c, t, nb, sessions)
  OBVIOUS
<1> HIDE DEF new
<1> QED BY <1>1, OneTabSteps

\* With sessions that grow and calls that are over, and no answer.
LEMMA SessionSteps ==
  ASSUME ClientInv, tabs' = tabs, cookie' = cookie,
         sessions' \in Seq(SessionRecords), Grows(sessions, sessions'), calls' \subseteq calls
  PROVE ClientInv'
<1> DEFINE answered == {}
<1>1. /\ calls' \subseteq calls \cup answered
      /\ \A d \in answered : \E c \in calls :
             /\ CallLike(d) /\ CallFits(d, sessions')
             /\ d.tab = c.tab /\ d.kind = c.kind /\ d.generation = c.generation
             /\ d.account = c.account /\ d.loop = c.loop /\ d.gone = c.gone
  OBVIOUS
<1> HIDE DEF answered
<1> QED BY <1>1, ServerSteps

-----------------------------------------------------------------------------
\* Of the operators of one tab and one call.

\* What every case below takes from the invariant about a call in flight.
LEMMA CallParts ==
  ASSUME ClientInv, NEW c \in calls
  PROVE /\ CallLike(c) /\ CallFits(c, sessions) /\ CallCurrent(c, tabs[c.tab], sessions)
        /\ c.tab \in Tabs /\ TabLike(tabs[c.tab]) /\ TabFits(tabs[c.tab], sessions)
        /\ sessions \in Seq(SessionRecords) /\ 0 \notin DOMAIN sessions
        /\ cookie \in Ids(sessions)
  BY SessionIds DEF ClientInv, CallLike

\* The accepted answers, and those that send has let through as such.
LEMMA OutcomeOk ==
  ASSUME NEW c, Outcome(c) = "ok"
  PROVE c.status = "ok" /\ c.generation = tabs[c.tab].generation
  BY DEF Outcome, IsStale

\* A tab goes on whatever its flags and what it shows of its user.
LEMMA TabSame ==
  ASSUME NEW ss, NEW tb, TabLike(tb), TabFits(tb, ss)
  PROVE Follows(tb, tb, ss)
  BY DEF Follows, TabLike

\* send leaves the tab as it was or ends its session.
LEMMA AfterSendFollows ==
  ASSUME ClientInv, NEW c \in calls
  PROVE Follows(tabs[c.tab], AfterSend(c), sessions)
<1>1. TabLike(tabs[c.tab]) /\ TabFits(tabs[c.tab], sessions)
  BY CallParts
<1> DEFINE tb == tabs[c.tab]
<1>2. Follows(tb, tb, sessions)
  BY <1>1, TabSame
<1>3. Follows(tb, endClientSession(tb), sessions)
  BY <1>1 DEF endClientSession, Follows, TabLike, TabFits, TabFields, BelongsTo, Ids
<1> QED BY <1>2, <1>3 DEF AfterSend

\* The flags of a tab and what it forgets leave it as fit as it was.
LEMMA FlagsFollow ==
  ASSUME NEW ss, NEW tb, NEW nb, Follows(tb, nb, ss), NEW flag \in BOOLEAN
  PROVE /\ Follows(tb, [nb EXCEPT !.busy = flag], ss)
        /\ Follows(tb, [nb EXCEPT !.ready = flag], ss)
        /\ Follows(tb, [nb EXCEPT !.link = flag], ss)
  BY DEF Follows, TabLike, TabFits, TabFields, BelongsTo

\* A tab without a user shows nothing that could be another's.
LEMMA NobodyFollows ==
  ASSUME NEW ss, NEW tb, NEW nb, Follows(tb, nb, ss)
  PROVE /\ Follows(tb, [nb EXCEPT !.user = NULL], ss)
        /\ Follows(tb, clearAccountWorkspace(nb), ss)
  BY DEF Follows, TabLike, TabFits, TabFields, clearAccountWorkspace, resetWorkspaceData

\* What run does to the tab at its end.
LEMMA RunEndsFollows ==
  ASSUME NEW ss, NEW tb, NEW nb, Follows(tb, nb, ss), NEW o
  PROVE Follows(tb, RunEnds(nb, o), ss)
  BY NobodyFollows, FlagsFollow DEF RunEnds

\* What the first effect does to the tab when it fails.
LEMMA StartupFailsFollows ==
  ASSUME NEW ss, NEW tb, NEW nb, Follows(tb, nb, ss), NEW o
  PROVE Follows(tb, startupFails(nb, o), ss)
  BY NobodyFollows, FlagsFollow DEF startupFails

\* What an accepted answer shows was asked for by the user of the tab.
LEMMA ShownFollows ==
  ASSUME ClientInv, NEW c \in calls, ~c.gone, c.kind \in UserKinds, Outcome(c) = "ok"
  PROVE Follows(tabs[c.tab], [tabs[c.tab] EXCEPT !.data = c.account], sessions)
<1>1. c.generation = tabs[c.tab].generation
  BY OutcomeOk
<1>2. TabLike(tabs[c.tab]) /\ TabFits(tabs[c.tab], sessions) /\ CallCurrent(c, tabs[c.tab], sessions)
  BY CallParts
<1>3. tabs[c.tab].user # NULL => c.account = tabs[c.tab].user
  BY <1>1, <1>2 DEF CallCurrent
<1> QED BY <1>2, <1>3 DEF Follows, TabLike, TabFits, TabFields, BelongsTo

\* A sign-out that succeeded ends the session and forgets the user.
LEMMA LogoutFollows ==
  ASSUME NEW ss, NEW tb, TabLike(tb)
  PROVE Follows(tb, clearAccountWorkspace(endClientSession(tb)), ss)
  BY DEF Follows, TabLike, TabFits, TabFields, Ids, BelongsTo, clearAccountWorkspace,
         resetWorkspaceData, endClientSession

\* So does a reset that succeeded.
LEMMA ResetFollows ==
  ASSUME NEW ss, NEW tb, TabLike(tb)
  PROVE Follows(tb, [endClientSession(tb) EXCEPT !.user = NULL, !.link = FALSE], ss)
  BY DEF Follows, TabLike, TabFits, TabFields, Ids, endClientSession

\* The cookie stays a session or none.
LEMMA CookieKept ==
  ASSUME ClientInv, NEW c \in calls
  PROVE SetCookie(c) \in Ids(sessions)
<1>1. CallFits(c, sessions) /\ cookie \in Ids(sessions)
  BY CallParts
<1> QED BY <1>1 DEF SetCookie, CallFits, Ids

-----------------------------------------------------------------------------
\* New calls.

\* A call that is no part of a loop, made with the account of the tab.
LEMMA SendFits ==
  ASSUME NEW t \in Tabs, NEW nb, tabs'[t] = nb, TabLike(nb), TabFits(nb, sessions),
         cookie' \in Ids(sessions), NEW kind, NEW account, NEW loop, kind \notin LoopKinds,
         kind = "login" => account \in Accounts,
         kind \in {"write", "logout"} => nb.user # NULL /\ account = nb.user,
         kind \in UserKinds /\ nb.user # NULL => account = nb.user
  PROVE NewCall(Send(t, kind, account, loop), t, nb, sessions)
<1> DEFINE d == Send(t, kind, account, loop)
<1>1. /\ DOMAIN d = CallFields /\ d.tab = t /\ d.kind = kind /\ d.account = account
      /\ d.generation = nb.generation /\ d.csrf = nb.csrf /\ d.cookie = cookie'
      /\ d.status = NULL /\ d.gone = FALSE
  BY DEF Send, CallFields
<1> HIDE DEF d
<1>2. d.status # "ok"
  BY <1>1, ClientAssumption
<1>3. CallLike(d)
  BY <1>1 DEF CallLike, TabLike
<1>4. CallFits(d, sessions)
  BY <1>1, <1>2 DEF CallFits, TabFits, LoopKinds
<1>5. CallCurrent(d, nb, sessions)
  BY <1>1 DEF CallCurrent, TabLike
<1>6. NewCall(d, t, nb, sessions)
  BY <1>1, <1>3, <1>4, <1>5 DEF NewCall
<1> QED BY <1>6 DEF d

\* What a loop has in hand, in a tab that is tb by now.
LoopFits(loop, tb, ss) ==
    /\ DOMAIN loop = LoopFields /\ loop.generation \in Nat
    /\ loop.generation <= tb.generation
    /\ loop.generation = tb.generation =>
          /\ BelongsTo(tb.csrf, loop.founder, ss)
          /\ tb.user # NULL => loop.founder = tb.user

\* A call of a loop, made with the token of a tab that the loop fits.
LEMMA SendLoopFits ==
  ASSUME NEW t \in Tabs, NEW nb, tabs'[t] = nb, TabLike(nb), TabFits(nb, sessions),
         cookie' \in Ids(sessions), NEW kind \in LoopKinds, NEW account, NEW loop,
         LoopFits(loop, nb, sessions)
  PROVE NewCall(Send(t, kind, account, loop), t, nb, sessions)
<1> DEFINE d == Send(t, kind, account, loop)
<1>1. /\ DOMAIN d = CallFields /\ d.tab = t /\ d.kind = kind /\ d.account = account /\ d.loop = loop
      /\ d.generation = nb.generation /\ d.csrf = nb.csrf /\ d.cookie = cookie'
      /\ d.status = NULL /\ d.gone = FALSE
  BY DEF Send, CallFields
<1> HIDE DEF d
<1>2. d.status # "ok"
  BY <1>1, ClientAssumption
<1>3. CallLike(d)
  BY <1>1 DEF CallLike, TabLike, LoopKinds, LoopFits
<1>4. CallFits(d, sessions)
  BY <1>1, <1>2 DEF CallFits, TabFits, LoopKinds, LoopFits
<1>5. CallCurrent(d, nb, sessions)
  BY <1>1 DEF CallCurrent, TabLike, LoopKinds, UserKinds, LoopFits
<1>6. NewCall(d, t, nb, sessions)
  BY <1>1, <1>3, <1>4, <1>5 DEF NewCall
<1> QED BY <1>6 DEF d

\* The loop of a call goes on in the tab as send leaves it.
LEMMA LoopStillFits ==
  ASSUME ClientInv, NEW c \in calls, ~c.gone, c.kind \in LoopKinds,
         NEW nb, Follows(tabs[c.tab], nb, sessions), NEW rest, NEW failed, NEW company
  PROVE /\ LoopFits(c.loop, nb, sessions)
        /\ LoopFits([c.loop EXCEPT !.rest = rest], nb, sessions)
        /\ LoopFits([c.loop EXCEPT !.rest = rest, !.failed = failed], nb, sessions)
        /\ LoopFits([c.loop EXCEPT !.failed = failed, !.rest = rest], nb, sessions)
        /\ LoopFits([c.loop EXCEPT !.company = company], nb, sessions)
<1>1. CallLike(c) /\ TabLike(tabs[c.tab]) /\ CallCurrent(c, tabs[c.tab], sessions)
  BY CallParts
<1>2. CallCurrent(c, nb, sessions)
  BY <1>1, TabGoesOn
<1>3. LoopFits(c.loop, nb, sessions)
  BY <1>1, <1>2 DEF CallLike, CallCurrent, LoopFits
<1> QED BY <1>3 DEF LoopFits, LoopFields

-----------------------------------------------------------------------------
\* The steps of the server.

\* A call is answered: what is carried out ran under the session of its token.
LEMMA AnswerSteps ==
  ASSUME ClientInv, NEW c \in calls, tabs' = tabs, cookie' = cookie,
         sessions' \in Seq(SessionRecords), Grows(sessions, sessions'),
         NEW status, NEW session, Answer(c, status, session),
         status = "ok" /\ c.kind \notin {"signup", "reset"} => session \in DOMAIN sessions',
         status = "ok" /\ c.kind \in {"write", "logout", "invite"} => session = c.csrf /\ c.csrf # 0
  PROVE ClientInv'
<1> DEFINE d == [c EXCEPT !.status = status, !.session = session, !.cookie = 0, !.csrf = 0]
<1>1. CallLike(c) /\ CallFits(c, sessions) /\ 0 \notin DOMAIN sessions
  BY CallParts
<1>2. CallFits(c, sessions')
  BY <1>1, CallStillFits
<1>3. /\ DOMAIN d = CallFields /\ d.tab = c.tab /\ d.kind = c.kind /\ d.generation = c.generation
      /\ d.account = c.account /\ d.loop = c.loop /\ d.gone = c.gone
      /\ d.status = status /\ d.session = session /\ d.cookie = 0 /\ d.csrf = 0
  BY <1>1 DEF CallLike, CallFields
<1> DEFINE answered == {d}
<1>4. calls' \subseteq calls \cup answered
  BY DEF Answer
<1> HIDE DEF d
<1>5. CallLike(d)
  BY <1>1, <1>3 DEF CallLike
<1>6. CallFits(d, sessions')
  BY <1>2, <1>3 DEF CallFits, BelongsTo, Ids
<1>7. \A e \in answered : \E b \in calls :
         /\ CallLike(e) /\ CallFits(e, sessions')
         /\ e.tab = b.tab /\ e.kind = b.kind /\ e.generation = b.generation
         /\ e.account = b.account /\ e.loop = b.loop /\ e.gone = b.gone
  BY <1>3, <1>5, <1>6
<1> HIDE DEF answered
<1> QED BY <1>4, <1>7, ServerSteps

\* Sessions that are revoked keep their accounts.
LEMMA RevokedGrows ==
  ASSUME ClientInv, NEW ss
  PROVE Revoked(ss) \in Seq(SessionRecords) /\ Grows(sessions, Revoked(ss))
<1>1. /\ Len(sessions) \in Nat /\ DOMAIN sessions = 1..Len(sessions)
      /\ sessions \in [1..Len(sessions) -> SessionRecords]
  BY LenProperties DEF ClientInv
<1>2. \A s \in DOMAIN sessions : Revoked(ss)[s] \in SessionRecords /\ Revoked(ss)[s].account = sessions[s].account
  BY <1>1 DEF Revoked, SessionRecords
<1>3. DOMAIN Revoked(ss) = 1..Len(sessions) /\ Revoked(ss) \in [1..Len(sessions) -> SessionRecords]
  BY <1>1, <1>2 DEF Revoked
<1>4. Revoked(ss) \in Seq(SessionRecords)
  BY <1>1, <1>3, SeqDef
<1> QED BY <1>1, <1>2, <1>3, <1>4 DEF Grows

\* Sessions that stay as they are.
LEMMA SameGrows ==
  ASSUME ClientInv, sessions' = sessions
  PROVE sessions' \in Seq(SessionRecords) /\ Grows(sessions, sessions')
  BY DEF ClientInv, Grows

\* A session that is added changes no other.
LEMMA AppendGrows ==
  ASSUME ClientInv, NEW r \in SessionRecords, sessions' = Append(sessions, r)
  PROVE /\ sessions' \in Seq(SessionRecords) /\ Grows(sessions, sessions')
        /\ Len(sessions') \in DOMAIN sessions'
<1>1. /\ Len(sessions) \in Nat /\ DOMAIN sessions = 1..Len(sessions)
  BY LenProperties DEF ClientInv
<1>2. /\ sessions' \in Seq(SessionRecords) /\ Len(sessions') = Len(sessions) + 1
      /\ \A i \in 1..Len(sessions) : sessions'[i] = sessions[i]
  BY AppendProperties DEF ClientInv
<1>3. DOMAIN sessions' = 1..Len(sessions')
  BY <1>2, LenProperties
<1> QED BY <1>1, <1>2, <1>3 DEF Grows

\* The session that the guards have let a call through under.
LEMMA AllowedSession ==
  ASSUME ClientInv, NEW c \in calls, Allowed(c)
  PROVE /\ c.cookie \in DOMAIN sessions /\ c.cookie # 0
        /\ c.kind \in {"write", "logout", "invite"} => c.cookie = c.csrf
<1>1. c.cookie \in Ids(sessions)
  BY CallParts DEF CallFits
<1> QED BY <1>1 DEF Allowed, Live, Ids, csrfPasses, WriteKinds

\* The server answers.
LEMMA ServeSteps ==
  ASSUME ClientInv, NEW c \in calls, Serve(c)
  PROVE ClientInv'
<1>1. cookie' = cookie /\ tabs' = tabs
  BY DEF Serve
<1>2. CASE Refuse(c)
  BY <1>1, <1>2, SameGrows, AnswerSteps DEF Refuse
<1>3. CASE ServeLogin(c)
  <2>1. CASE c.account \notin known
    BY <1>1, <1>3, <2>1, SameGrows, AnswerSteps DEF ServeLogin
  <2>2. CASE c.account \in known
    <3>1. c.account \in Accounts /\ c.kind = "login"
      BY <1>3, CallParts DEF ServeLogin, CallLike
    <3> DEFINE r == [account |-> c.account, live |-> TRUE]
    <3>2. r \in SessionRecords
      BY <3>1 DEF SessionRecords
    <3>3. sessions' = Append(sessions, r) /\ Answer(c, "ok", Len(sessions'))
      BY <1>3, <2>2 DEF ServeLogin
    <3> HIDE DEF r
    <3>4. sessions' \in Seq(SessionRecords) /\ Grows(sessions, sessions') /\ Len(sessions') \in DOMAIN sessions'
      BY <3>2, <3>3, AppendGrows
    <3> QED BY <1>1, <3>1, <3>3, <3>4, AnswerSteps
  <2> QED BY <2>1, <2>2
<1>4. CASE ServeSignup(c)
  BY <1>1, <1>4, SameGrows, AnswerSteps DEF ServeSignup
<1>5. CASE ServeReset(c)
  BY <1>1, <1>5, RevokedGrows, AnswerSteps DEF ServeReset
<1>6. CASE ServeLogout(c)
  <2>1. sessions' \in Seq(SessionRecords) /\ Grows(sessions, sessions') /\ Answer(c, "ok", c.cookie) /\ Allowed(c)
    BY <1>6, RevokedGrows DEF ServeLogout
  <2>2. /\ c.cookie \in DOMAIN sessions' /\ c.cookie # 0
        /\ c.kind \in {"write", "logout", "invite"} => c.cookie = c.csrf
    BY <2>1, AllowedSession DEF Grows
  <2> QED BY <1>1, <2>1, <2>2, AnswerSteps
<1>7. CASE ServeInvite(c)
  <2>1. Allowed(c) /\ sessions' = sessions
    BY <1>7 DEF ServeInvite
  <2>2. Answer(c, "ok", c.cookie) \/ Answer(c, "refused", 0)
    BY <1>7 DEF ServeInvite
  <2> QED BY <1>1, <2>1, <2>2, SameGrows, AllowedSession, AnswerSteps
<1>8. CASE ServeOther(c)
  <2>1. Allowed(c) /\ sessions' = sessions /\ Answer(c, "ok", c.cookie)
    BY <1>8 DEF ServeOther
  <2> QED BY <1>1, <2>1, SameGrows, AllowedSession, AnswerSteps
<1> QED BY <1>2, <1>3, <1>4, <1>5, <1>6, <1>7, <1>8 DEF Serve

\* A call or its answer is lost.
LEMMA LoseSteps ==
  ASSUME ClientInv, NEW c \in calls, Lose(c)
  PROVE ClientInv'
<1>1. cookie' = cookie /\ tabs' = tabs /\ sessions' = sessions
  BY DEF Lose, Fail
<1>2. Answer(c, "network", 0) \/ Answer(c, "refused", 0)
  BY DEF Lose, Fail
<1> QED BY <1>1, <1>2, SameGrows, AnswerSteps

\* A session ends elsewhere.
LEMMA ExpireSteps ==
  ASSUME ClientInv, NEW s, Expire(s)
  PROVE ClientInv'
<1>1. cookie' = cookie /\ tabs' = tabs /\ calls' \subseteq calls
  BY DEF Expire
<1>2. sessions' \in Seq(SessionRecords) /\ Grows(sessions, sessions')
  BY RevokedGrows DEF Expire
<1> QED BY <1>1, <1>2, SessionSteps

-----------------------------------------------------------------------------
\* What a person starts.

\* A page load: the tab starts again, and what it leaves in flight is gone.
LEMMA LoadSteps ==
  ASSUME ClientInv, NEW t \in Tabs, NEW link \in BOOLEAN, Load(t, link)
  PROVE ClientInv'
<1> DEFINE nb == [noTab EXCEPT !.open = TRUE, !.link = link]
           left == {[c EXCEPT !.gone = TRUE] : c \in {d \in calls : d.tab = t /\ d.status = NULL /\ d.kind \notin ReadKinds}}
           me == Send(t, "me", NULL, NULL)
<1>1. /\ sessions' = sessions /\ cookie' = cookie /\ tabs' = [tabs EXCEPT ![t] = nb]
      /\ calls' = {c \in calls : c.tab # t} \cup left \cup {me}
  BY DEF Load
<1>2. TabLike(nb) /\ TabFits(nb, sessions)
  BY DEF TabLike, TabFits, TabFields, noTab, Ids
<1> HIDE DEF nb
<1>3. tabs' = [u \in Tabs |-> tabs'[u]] /\ tabs'[t] = nb /\ \A u \in Tabs \ {t} : tabs'[u] = tabs[u]
  BY <1>1 DEF ClientInv
<1>4. sessions' \in Seq(SessionRecords) /\ cookie' \in Ids(sessions)
  BY <1>1 DEF ClientInv
<1>5. NewCall(me, t, nb, sessions)
  BY <1>2, <1>3, <1>4, SendFits DEF LoopKinds, UserKinds
<1> HIDE DEF me
<1>6. ASSUME NEW d \in left
      PROVE CallLike(d) /\ CallFits(d, sessions) /\ d.gone
  <2>1. PICK c \in calls : d = [c EXCEPT !.gone = TRUE]
    OBVIOUS
  <2>2. CallLike(c) /\ CallFits(c, sessions)
    BY CallParts
  <2>3. /\ DOMAIN d = CallFields /\ d.tab = c.tab /\ d.kind = c.kind /\ d.generation = c.generation
        /\ d.account = c.account /\ d.loop = c.loop /\ d.gone = TRUE
        /\ d.status = c.status /\ d.session = c.session /\ d.cookie = c.cookie /\ d.csrf = c.csrf
    BY <2>1, <2>2 DEF CallLike, CallFields
  <2> QED BY <2>2, <2>3 DEF CallLike, CallFits
<1> HIDE DEF left
<1>7. ASSUME NEW c \in calls'
      PROVE CallLike(c) /\ CallFits(c, sessions') /\ CallCurrent(c, tabs'[c.tab], sessions')
  <2>1. CASE c = me
    BY <2>1, <1>1, <1>3, <1>5 DEF NewCall
  <2>2. CASE c \in left
    BY <2>2, <1>1, <1>6 DEF CallCurrent
  <2>3. CASE c \in calls /\ c.tab # t
    BY <2>3, <1>1, <1>3, CallParts
  <2> QED BY <1>1, <2>1, <2>2, <2>3
<1>8. \A u \in Tabs : TabLike(tabs'[u]) /\ TabFits(tabs'[u], sessions')
  BY <1>1, <1>2, <1>3 DEF ClientInv
<1> QED BY <1>1, <1>3, <1>4, <1>7, <1>8 DEF ClientInv

\* The account of a call is the tab's, for what is done at work.
LEMMA StartSteps ==
  ASSUME ClientInv, NEW t \in Tabs, NEW kind, NEW account, Start(t, kind, account),
         kind \notin LoopKinds, kind = "login" => account \in Accounts,
         kind \in {"logout"} \cup UserKinds => tabs[t].user # NULL /\ account = tabs[t].user
  PROVE ClientInv'
<1> DEFINE nb == [tabs[t] EXCEPT !.busy = TRUE]
<1>1. TabLike(tabs[t]) /\ TabFits(tabs[t], sessions)
  BY DEF ClientInv
<1>2. Follows(tabs[t], nb, sessions)
  BY <1>1, TabSame, FlagsFollow
<1>3. nb.user = tabs[t].user
  BY <1>1 DEF TabLike, TabFields
<1>4. /\ sessions' = sessions /\ cookie' \in Ids(sessions) /\ tabs' = [tabs EXCEPT ![t] = nb] /\ tabs'[t] = nb
      /\ calls' = calls \cup {Send(t, kind, account, NULL)}
  BY DEF Start, ClientInv
<1> HIDE DEF nb
<1>5. NewCall(Send(t, kind, account, NULL), t, nb, sessions)
  BY <1>2, <1>3, <1>4, SendFits DEF Follows, UserKinds
<1> QED BY <1>2, <1>4, <1>5, TabCallSteps

\* A page or the form is opened.
LEMMA OpenSteps ==
  ASSUME ClientInv, NEW t \in Tabs, NEW kind \in {"page", "lookups"}, onOpen(t, kind)
  PROVE ClientInv'
<1>1. TabLike(tabs[t]) /\ TabFits(tabs[t], sessions) /\ tabs[t].user # NULL
  BY DEF ClientInv, onOpen, AtWork
<1>2. Follows(tabs[t], tabs[t], sessions)
  BY <1>1, TabSame
<1>3. /\ sessions' = sessions /\ cookie' \in Ids(sessions) /\ tabs' = [tabs EXCEPT ![t] = tabs[t]] /\ tabs'[t] = tabs[t]
      /\ calls' = calls \cup {Send(t, kind, tabs[t].user, NULL)}
  BY DEF onOpen, ClientInv
<1>4. NewCall(Send(t, kind, tabs[t].user, NULL), t, tabs[t], sessions)
  BY <1>1, <1>3, SendFits DEF LoopKinds
<1> QED BY <1>2, <1>3, <1>4, TabCallSteps

-----------------------------------------------------------------------------
\* What the tab does with an answer.

\* What every delivery to a page that is there has in common.
Arrives(c) == c \in calls /\ ~c.gone /\ cookie' = SetCookie(c) /\ sessions' = sessions

\* The last call of an action is over and leaves the tab fit.
LEMMA SettleSteps ==
  ASSUME ClientInv, NEW c, Arrives(c), NEW nb, Follows(tabs[c.tab], nb, sessions), Settle(c, nb)
  PROVE ClientInv'
<1>1. c \in calls /\ c.tab \in Tabs /\ cookie' \in Ids(sessions) /\ sessions' = sessions
  BY CallParts, CookieKept DEF Arrives
<1>2. tabs' = [tabs EXCEPT ![c.tab] = nb] /\ calls' \subseteq calls
  BY DEF Settle
<1> QED BY <1>1, <1>2, TabOnlySteps

\* A session in the tab, with the lookups that follow and perhaps the founder's loop.
LEMMA ApplySteps ==
  ASSUME ClientInv, NEW c, Arrives(c), c.kind \in {"me", "login"}, Outcome(c) = "ok",
         NEW next \in {"startLookups", "loginLookups"}, applySession(c, next)
  PROVE ClientInv'
<1> DEFINE account == sessions[c.session].account
           tb == tabs[c.tab]
           nb == [resetWorkspaceData(beginClientSession(tb, c.session)) EXCEPT !.user = account, !.feedback = NULL]
           look == Send(c.tab, next, account, NULL)
           first == sendPreparedInvites(c.tab, account)
<1>1. /\ c \in calls /\ c.tab \in Tabs /\ cookie' \in Ids(sessions) /\ sessions' = sessions
      /\ TabLike(tb) /\ CallFits(c, sessions) /\ c.status = "ok"
  BY CallParts, CookieKept, OutcomeOk DEF Arrives
<1>2. c.session \in DOMAIN sessions
  BY <1>1 DEF CallFits
<1>3. /\ TabLike(nb) /\ TabFits(nb, sessions) /\ nb.generation = tb.generation + 1
      /\ nb.user = account /\ nb.csrf = c.session
  BY <1>1, <1>2 DEF TabLike, TabFields, TabFits, Ids, BelongsTo, resetWorkspaceData, beginClientSession
<1>4. tabs' = [tabs EXCEPT ![c.tab] = nb] /\ calls' \subseteq calls \cup ({look} \cup first)
  BY DEF applySession
<1>5. Follows(tb, nb, sessions) /\ tabs'[c.tab] = nb
  BY <1>1, <1>3, <1>4 DEF Follows, TabLike, ClientInv
<1>6. NewCall(look, c.tab, nb, sessions)
  BY <1>1, <1>3, <1>5, SendFits DEF LoopKinds
<1>7. ASSUME NEW d \in first
      PROVE NewCall(d, c.tab, nb, sessions)
  <2> DEFINE loop == [founder |-> account, generation |-> tabs'[c.tab].generation,
                      rest |-> takePendingInvites(c.tab, account), failed |-> <<>>, company |-> NULL]
  <2>1. d = Send(c.tab, "inviteLookups", account, loop)
    BY DEF sendPreparedInvites
  <2>2. LoopFits(loop, nb, sessions)
    BY <1>3, <1>5 DEF LoopFits, LoopFields, TabLike, BelongsTo
  <2> HIDE DEF loop
  <2>3. "inviteLookups" \in LoopKinds
    BY DEF LoopKinds
  <2> QED BY <1>1, <1>3, <1>5, <2>1, <2>2, <2>3, SendLoopFits
<1> HIDE DEF nb, look, first
<1> DEFINE new == {look} \cup first
<1>8. calls' \subseteq calls \cup new /\ \A d \in new : NewCall(d, c.tab, nb, sessions)
  BY <1>4, <1>6, <1>7
<1> HIDE DEF new
<1> QED BY <1>1, <1>4, <1>5, <1>8, OneTabSteps

\* Invitations that are skipped do not change whose loop it is.
LEMMA SkippedFits ==
  ASSUME NEW loop, NEW nb, NEW ss, LoopFits(loop, nb, ss), NEW n
  PROVE LoopFits(Skipped(loop, n), nb, ss)
<1> DEFINE failed == loop.failed \o SubSeq(loop.rest, 1, n)
           rest == SubSeq(loop.rest, n + 1, Len(loop.rest))
<1>1. Skipped(loop, n) = [loop EXCEPT !.failed = failed, !.rest = rest]
  BY DEF Skipped, LoopFits, LoopFields
<1> HIDE DEF failed, rest
<1> QED BY <1>1 DEF LoopFits, LoopFields

\* The loop ends or goes on with the next invitation.
LEMMA LoopSteps ==
  ASSUME ClientInv, NEW c, Arrives(c), NEW nb, Follows(tabs[c.tab], nb, sessions),
         NEW loop, LoopFits(loop, nb, sessions), LoopGoesOn(c, nb, loop) \/ LoopEnds(c, nb, loop)
  PROVE ClientInv'
<1>1. c \in calls /\ c.tab \in Tabs /\ cookie' \in Ids(sessions) /\ sessions' = sessions
  BY CallParts, CookieKept DEF Arrives
<1>2. ASSUME NEW next, LoopFits(next, nb, sessions), LoopEnds(c, nb, next)
      PROVE ClientInv'
  <2> DEFINE eb == IF nb.generation = next.generation THEN [nb EXCEPT !.feedback = next.founder] ELSE nb
  <2>1. Follows(tabs[c.tab], eb, sessions)
    BY <1>2 DEF Follows, LoopFits, TabLike, TabFields, TabFits, BelongsTo
  <2>2. tabs' = [tabs EXCEPT ![c.tab] = eb] /\ calls' \subseteq calls
    BY <1>2 DEF LoopEnds
  <2> HIDE DEF eb
  <2> QED BY <1>1, <2>1, <2>2, TabOnlySteps
<1>3. ASSUME NEW next, LoopFits(next, nb, sessions), tabs' = [tabs EXCEPT ![c.tab] = nb],
             calls' = (calls \ {c}) \cup {Send(c.tab, "invite", next.founder, next)}
      PROVE ClientInv'
  <2> DEFINE d == Send(c.tab, "invite", next.founder, next)
  <2>1. tabs' = [tabs EXCEPT ![c.tab] = nb] /\ calls' \subseteq calls \cup {d}
    BY <1>3
  <2>2. tabs'[c.tab] = nb
    BY <1>1, <2>1 DEF ClientInv
  <2>3. "invite" \in LoopKinds
    BY DEF LoopKinds
  <2>4. NewCall(d, c.tab, nb, sessions)
    BY <1>1, <1>3, <2>2, <2>3, SendLoopFits DEF Follows
  <2> HIDE DEF d
  <2> QED BY <1>1, <2>1, <2>4, TabCallSteps
<1>4. CASE LoopGoesOn(c, nb, loop)
  <2>1. PICK n \in 0..Len(loop.rest) :
           \/ LoopEnds(c, nb, Skipped(loop, n))
           \/ /\ tabs' = [tabs EXCEPT ![c.tab] = nb]
              /\ calls' = (calls \ {c}) \cup {Send(c.tab, "invite", Skipped(loop, n).founder, Skipped(loop, n))}
    BY <1>4 DEF LoopGoesOn
  <2>2. LoopFits(Skipped(loop, n), nb, sessions)
    BY SkippedFits
  <2> QED BY <1>2, <1>3, <2>1, <2>2
<1> QED BY <1>2, <1>4

\* One case per kind of call; each leaves a tab that follows the one before.
LEMMA DeliverSteps ==
  ASSUME ClientInv, NEW c \in calls, Deliver(c)
  PROVE ClientInv'
<1> DEFINE tb == tabs[c.tab]
           o == Outcome(c)
<1>1. /\ c.tab \in Tabs /\ TabLike(tb) /\ TabFits(tb, sessions) /\ sessions' = sessions
      /\ CallLike(c) /\ CallCurrent(c, tb, sessions)
  BY CallParts DEF Deliver
<1>2. Follows(tb, tb, sessions) /\ Follows(tb, AfterSend(c), sessions)
  BY <1>1, TabSame, AfterSendFollows
<1>3. CASE DeliverGone(c)
  <2>1. cookie' \in Ids(sessions) /\ calls' \subseteq calls /\ tabs' = [tabs EXCEPT ![c.tab] = tb]
    BY <1>3, CallParts, CookieKept DEF DeliverGone, ClientInv
  <2> QED BY <1>1, <1>2, <2>1, TabOnlySteps
<1>4. ASSUME ~c.gone, cookie' = SetCookie(c)
      PROVE /\ Arrives(c)
            /\ \A nb : Follows(tb, nb, sessions) /\ Settle(c, nb) => ClientInv'
  <2>1. Arrives(c)
    BY <1>1, <1>4 DEF Arrives
  <2> QED BY <2>1, SettleSteps
<1>5. CASE DeliverMe(c) /\ Arrives(c)
  <2>1. CASE o = "ok"
    BY <1>5, <2>1, ApplySteps DEF DeliverMe
  <2>2. CASE o # "ok"
    BY <1>2, <1>4, <1>5, <2>2, StartupFailsFollows DEF DeliverMe, Arrives
  <2> QED BY <2>1, <2>2
<1>6. CASE DeliverStartLookups(c) /\ Arrives(c)
  <2>1. CASE o = "ok"
    <3>1. Follows(tb, [tb EXCEPT !.data = c.account], sessions)
      BY <1>6, <2>1, ShownFollows DEF DeliverStartLookups, Arrives, UserKinds
    <3>2. Follows(tb, [[tb EXCEPT !.data = c.account] EXCEPT !.ready = TRUE], sessions)
      BY <3>1, FlagsFollow
    <3>3. [[tb EXCEPT !.data = c.account] EXCEPT !.ready = TRUE] = [tb EXCEPT !.data = c.account, !.ready = TRUE]
      OBVIOUS
    <3> QED BY <1>4, <1>6, <2>1, <3>2, <3>3 DEF DeliverStartLookups, Arrives
  <2>2. CASE o # "ok"
    BY <1>2, <1>4, <1>6, <2>2, StartupFailsFollows DEF DeliverStartLookups, Arrives
  <2> QED BY <2>1, <2>2
<1>7. CASE DeliverLogin(c) /\ Arrives(c)
  <2>1. CASE o = "ok"
    BY <1>7, <2>1, ApplySteps DEF DeliverLogin
  <2>2. CASE o # "ok"
    BY <1>2, <1>4, <1>7, <2>2, RunEndsFollows DEF DeliverLogin, Arrives
  <2> QED BY <2>1, <2>2
<1>8. CASE DeliverRunRead(c) /\ Arrives(c)
  <2>1. o = "ok" => Follows(tb, [tb EXCEPT !.data = c.account], sessions)
    BY <1>8, ShownFollows DEF DeliverRunRead, Arrives, UserKinds
  <2> QED BY <1>2, <1>4, <1>8, <2>1, RunEndsFollows DEF DeliverRunRead, Arrives
<1>9. CASE DeliverLogout(c) /\ Arrives(c)
  BY <1>1, <1>2, <1>4, <1>9, LogoutFollows, RunEndsFollows DEF DeliverLogout, Arrives
<1>10. CASE DeliverWrite(c) /\ Arrives(c)
  <2>1. CASE o = "ok"
    <3> DEFINE d == Send(c.tab, "refresh", c.account, NULL)
    <3>1. /\ tabs' = [tabs EXCEPT ![c.tab] = tb] /\ tabs'[c.tab] = tb /\ calls' \subseteq calls \cup {d}
          /\ cookie' \in Ids(sessions)
      BY <1>1, <1>10, <2>1, CookieKept DEF DeliverWrite, ClientInv, Arrives
    <3>2. tb.user # NULL => c.account = tb.user
      BY <1>1, <1>10, <2>1, OutcomeOk DEF CallCurrent, UserKinds, DeliverWrite, Arrives
    <3>3. NewCall(d, c.tab, tb, sessions)
      BY <1>1, <3>1, <3>2, SendFits DEF LoopKinds
    <3> HIDE DEF d
    <3> QED BY <1>1, <1>2, <3>1, <3>3, TabCallSteps
  <2>2. CASE o # "ok"
    BY <1>2, <1>4, <1>10, <2>2, RunEndsFollows DEF DeliverWrite, Arrives
  <2> QED BY <2>1, <2>2
<1>11. CASE DeliverPage(c) /\ Arrives(c)
  BY <1>2, <1>4, <1>11, NobodyFollows DEF DeliverPage, Arrives
<1>12. CASE DeliverLookups(c) /\ Arrives(c)
  <2>1. o = "ok" => Follows(tb, [tb EXCEPT !.data = c.account], sessions)
    BY <1>12, ShownFollows DEF DeliverLookups, Arrives, UserKinds
  <2> QED BY <1>2, <1>4, <1>12, <2>1 DEF DeliverLookups, Arrives
<1>13. CASE DeliverSignup(c) /\ Arrives(c)
  <2>1. Follows(tb, [AfterSend(c) EXCEPT !.busy = FALSE], sessions)
    BY <1>2, FlagsFollow
  <2>2. /\ tabs' = [tabs EXCEPT ![c.tab] = [AfterSend(c) EXCEPT !.busy = FALSE]] /\ calls' \subseteq calls
        /\ cookie' \in Ids(sessions)
    BY <1>13, CookieKept DEF DeliverSignup, Arrives
  <2> QED BY <1>1, <2>1, <2>2, TabOnlySteps
<1>14. CASE DeliverReset(c) /\ Arrives(c)
  BY <1>1, <1>2, <1>4, <1>14, ResetFollows, RunEndsFollows DEF DeliverReset, Arrives
<1>15. CASE DeliverInviteLookups(c) /\ Arrives(c)
  <2>1. c.kind \in LoopKinds /\ ~c.gone
    BY <1>15 DEF DeliverInviteLookups, LoopKinds, Arrives
  <2>2. CASE o = "ok"
    <3> DEFINE loop == [c.loop EXCEPT !.company = CompanyOf[sessions[c.session].account]]
    <3>1. LoopGoesOn(c, tb, loop)
      BY <1>15, <2>2 DEF DeliverInviteLookups
    <3>2. LoopFits(loop, tb, sessions)
      BY <1>2, <2>1, LoopStillFits
    <3> HIDE DEF loop
    <3> QED BY <1>2, <1>15, <3>1, <3>2, LoopSteps
  <2>3. CASE o # "ok"
    <3> DEFINE loop == [c.loop EXCEPT !.failed = c.loop.rest, !.rest = <<>>]
    <3>1. LoopEnds(c, AfterSend(c), loop)
      BY <1>15, <2>3 DEF DeliverInviteLookups
    <3>2. LoopFits(loop, AfterSend(c), sessions)
      BY <1>2, <2>1, LoopStillFits
    <3> HIDE DEF loop
    <3> QED BY <1>2, <1>15, <3>1, <3>2, LoopSteps
  <2> QED BY <2>2, <2>3
<1>16. CASE DeliverInvite(c) /\ Arrives(c)
  <2>1. c.kind \in LoopKinds /\ ~c.gone
    BY <1>16 DEF DeliverInvite, LoopKinds, Arrives
  <2> DEFINE loop == IF o = "ok" THEN [c.loop EXCEPT !.rest = Tail(@)] ELSE inviteFailed(c.loop, o)
  <2>2. LoopGoesOn(c, AfterSend(c), loop)
    BY <1>16 DEF DeliverInvite
  <2>3. LoopFits(loop, AfterSend(c), sessions)
    BY <1>2, <2>1, LoopStillFits DEF inviteFailed
  <2> HIDE DEF loop
  <2> QED BY <1>2, <1>16, <2>2, <2>3, LoopSteps
<1> QED BY <1>3, <1>4, <1>5, <1>6, <1>7, <1>8, <1>9, <1>10, <1>11, <1>12, <1>13, <1>14, <1>15, <1>16 DEF Deliver

-----------------------------------------------------------------------------
\* The invariant and what it gives.

\* At first nothing is open, signed in or in flight.
LEMMA ClientStarts == Init => ClientInv
<1> SUFFICES ASSUME Init PROVE ClientInv
  OBVIOUS
<1>1. sessions \in Seq(SessionRecords)
  BY EmptySeq DEF Init
<1>2. \A t \in Tabs : TabLike(tabs[t]) /\ TabFits(tabs[t], sessions)
  BY DEF Init, noTab, TabLike, TabFields, TabFits, Ids
<1>3. tabs = [t \in Tabs |-> tabs[t]] /\ cookie \in Ids(sessions) /\ calls = {}
  BY DEF Init, Ids
<1> QED BY <1>1, <1>2, <1>3 DEF ClientInv

\* One case per action.
LEMMA ClientSteps == ClientInv /\ [Next]_vars => ClientInv'
<1> SUFFICES ASSUME ClientInv, [Next]_vars PROVE ClientInv'
  OBVIOUS
<1>1. ASSUME NEW t \in Tabs, NEW link \in BOOLEAN, Load(t, link /\ Mailed # {})
      PROVE ClientInv'
  <2>1. (link /\ Mailed # {}) \in BOOLEAN
    OBVIOUS
  <2> QED BY <1>1, <2>1, LoadSteps
<1>2. ASSUME NEW t \in Tabs, NEW a \in Accounts, onLogin(t, a)
      PROVE ClientInv'
  BY <1>2, StartSteps DEF onLogin, LoopKinds, UserKinds
<1>3. ASSUME NEW t \in Tabs, NEW a \in Mailed, onReset(t, a)
      PROVE ClientInv'
  BY <1>3, StartSteps DEF onReset, LoopKinds, UserKinds
<1>4. ASSUME NEW t \in Tabs, NEW f \in Founders, onSignup(t, f)
      PROVE ClientInv'
  BY <1>4, StartSteps DEF onSignup, LoopKinds, UserKinds
<1>5. ASSUME NEW t \in Tabs, onLogout(t) \/ onWrite(t)
      PROVE ClientInv'
  BY <1>5, StartSteps DEF onLogout, onWrite, AtWork, LoopKinds
<1>6. ASSUME NEW t \in Tabs, NEW kind \in {"page", "lookups"}, onOpen(t, kind)
      PROVE ClientInv'
  BY <1>6, OpenSteps
<1>7. ASSUME NEW c \in calls, Serve(c) \/ Lose(c) \/ Deliver(c)
      PROVE ClientInv'
  BY <1>7, ServeSteps, LoseSteps, DeliverSteps
<1>8. ASSUME NEW s \in DOMAIN sessions, Expire(s)
      PROVE ClientInv'
  BY <1>8, ExpireSteps
<1>9. CASE UNCHANGED vars
  BY <1>9 DEF vars, ClientInv
<1> QED BY <1>1, <1>2, <1>3, <1>4, <1>5, <1>6, <1>7, <1>8, <1>9 DEF Next

\* Tokens, answers and what is shown belong to the accounts they are taken for, in every tab
\* and every call in flight.
THEOREM ClientInvariance == Spec => []ClientInv
  BY ClientStarts, ClientSteps, PTL DEF Spec

\* However many tabs share the cookie and however late an answer comes, a tab shows nothing
\* that another account than the one it shows has asked for.
THEOREM ShowsItsUsers == Spec => []OldAnswersAreIgnored
<1>1. ClientInv => OldAnswersAreIgnored
  BY DEF ClientInv, TabFits, OldAnswersAreIgnored
<1> QED BY <1>1, ClientInvariance, PTL

\* The server carries out a write or a sign-out only under the account that the tab showed
\* when it was asked for.
THEOREM RunsForTheAsker == Spec => []WritesAreTheAskers
<1>1. ClientInv => WritesAreTheAskers
  BY DEF ClientInv, CallFits, WritesAreTheAskers
<1> QED BY <1>1, ClientInvariance, PTL

-----------------------------------------------------------------------------
\* The prepared invitations: whose they are, and that none gets lost.

\* The invitations that the server has made.
Made == {p[1] : p \in invited}

\* A list of invitations that founder f has prepared.
PreparedBy(f, list) == f \in Founders /\ list \in Seq(Range(Prepared[f]))

\* What a loop has in hand are its founder's.
LoopHome(loop) == PreparedBy(loop.founder, loop.rest) /\ PreparedBy(loop.founder, loop.failed)

\* A call of a loop carries its founder's invitations; none has failed before the lookup, and
\* the one that an accepted call was about is made.
CallHome(c, made) ==
    /\ c.kind = "signup" => c.account \in Founders
    /\ c.kind \in LoopKinds => LoopHome(c.loop)
    /\ c.kind = "inviteLookups" => c.loop.failed = <<>>
    /\ c.kind = "invite" => c.loop.rest # <<>> /\ (c.status = "ok" => Head(c.loop.rest) \in made)

\* What is stored in a tab is the list of the founder that it names.
StoreHome ==
    /\ store = [t \in Tabs |-> store[t]]
    /\ \A t \in Tabs : store[t] # NULL => PreparedBy(store[t].founder, store[t].invites)

\* The invariant of prepared invitations: wherever they are, they are their founder's.
HomeInv == StoreHome /\ loads \in Nat /\ \A c \in calls : CallHome(c, Made)

\* What InvitesAreKept says of a step.
StepKeeps ==
    \A t \in Tabs : \A i \in Held(t) \ Held(t)' :
        \/ i \in Made
        \/ loads' # loads
        \/ i \in Stored(t) /\ (store'[t] # NULL \/ \E c \in calls \ calls' : c.tab = t /\ c.kind = "signup")

\* An invitation of a tab is stored or in the hand of a loop of the tab's page.
LEMMA HeldIs ==
  ASSUME NEW t, NEW i
  PROVE /\ i \in Held(t) <=>
              i \in Stored(t) \/ \E c \in calls : c.tab = t /\ ~c.gone /\ c.kind \in LoopKinds /\ i \in InHand(c.loop)
        /\ i \in Held(t)' <=>
              i \in Stored(t)' \/ \E c \in calls' : c.tab = t /\ ~c.gone /\ c.kind \in LoopKinds /\ i \in InHand(c.loop)
  BY DEF Held

\* Nothing is lost while the store stays and every loop that was under way still is.
LEMMA LoopsStay ==
  ASSUME store' = store,
         \A c \in calls : c.kind \in LoopKinds /\ ~c.gone =>
             \E d \in calls' : d.tab = c.tab /\ d.kind \in LoopKinds /\ ~d.gone /\ d.loop = c.loop
  PROVE StepKeeps
<1>1. ASSUME NEW t \in Tabs, NEW i \in Held(t)
      PROVE i \in Held(t)'
  <2>1. i \in Stored(t) \/ \E c \in calls : c.tab = t /\ ~c.gone /\ c.kind \in LoopKinds /\ i \in InHand(c.loop)
    BY <1>1, HeldIs
  <2>2. i \in Stored(t)' \/ \E d \in calls' : d.tab = t /\ ~d.gone /\ d.kind \in LoopKinds /\ i \in InHand(d.loop)
    BY <2>1 DEF Stored
  <2> QED BY <2>2, HeldIs
<1> QED BY <1>1 DEF StepKeeps

\* When one call is over, what a tab had is in store, in that call or still held.
LEMMA HeldBut ==
  ASSUME NEW c, calls \ {c} \subseteq calls', NEW t, NEW i \in Held(t)
  PROVE \/ i \in Held(t)'
        \/ i \in Stored(t)
        \/ c.tab = t /\ ~c.gone /\ c.kind \in LoopKinds /\ i \in InHand(c.loop)
  BY HeldIs

\* New calls and a store that are their founders' keep the invariant.
LEMMA HomeSteps ==
  ASSUME HomeInv, StoreHome', loads' \in Nat, Made \subseteq Made', NEW new, calls' \subseteq calls \cup new,
         \A c \in new : CallHome(c, Made')
  PROVE HomeInv'
<1>1. \A c \in calls : CallHome(c, Made')
  BY DEF HomeInv, CallHome
<1> QED BY <1>1 DEF HomeInv

\* The same when no call is new.
LEMMA HomeStays ==
  ASSUME HomeInv, StoreHome', loads' \in Nat, Made \subseteq Made', calls' \subseteq calls
  PROVE HomeInv'
<1> DEFINE new == {}
<1>1. calls' \subseteq calls \cup new /\ \A c \in new : CallHome(c, Made')
  OBVIOUS
<1> HIDE DEF new
<1> QED BY <1>1, HomeSteps

\* With one that is new.
LEMMA HomeCall ==
  ASSUME HomeInv, StoreHome', loads' \in Nat, Made \subseteq Made', NEW d, calls' \subseteq calls \cup {d},
         CallHome(d, Made')
  PROVE HomeInv'
<1> DEFINE new == {d}
<1>1. calls' \subseteq calls \cup new /\ \A c \in new : CallHome(c, Made')
  OBVIOUS
<1> HIDE DEF new
<1> QED BY <1>1, HomeSteps

\* A call that is no part of a loop; a sign-up is a founder's.
LEMMA SendHome ==
  ASSUME NEW t, NEW kind, NEW account, NEW loop, kind \notin LoopKinds, kind = "signup" => account \in Founders,
         NEW made
  PROVE CallHome(Send(t, kind, account, loop), made)
<1> DEFINE d == Send(t, kind, account, loop)
<1>1. d.kind = kind /\ d.account = account
  BY DEF Send
<1> HIDE DEF d
<1>2. CallHome(d, made)
  BY <1>1 DEF CallHome, LoopKinds
<1> QED BY <1>2 DEF d

\* A list that is saved is its founder's, and an empty one removes what was there.
LEMMA SavedHome ==
  ASSUME StoreHome, NEW t \in Tabs, NEW f, NEW list, PreparedBy(f, list), savePendingInvites(t, f, list)
  PROVE /\ StoreHome'
        /\ \A u \in Tabs \ {t} : store'[u] = store[u]
        /\ list # <<>> => store'[t] # NULL /\ Stored(t)' = Range(list)
<1>1. CASE list = <<>>
  <2>1. store' = [store EXCEPT ![t] = NULL]
    BY <1>1 DEF savePendingInvites
  <2> QED BY <1>1, <2>1 DEF StoreHome
<1>2. CASE list # <<>>
  <2> DEFINE saved == [founder |-> f, invites |-> list]
  <2>1. store' = [store EXCEPT ![t] = saved]
    BY <1>2 DEF savePendingInvites
  <2>2. Prepared[f] \in Seq(Invites) /\ f \in Accounts
    BY ClientAssumption DEF PreparedBy
  <2>3. list \in Seq(Invites)
    <3>1. Range(Prepared[f]) \subseteq Invites
      BY DEF PreparedBy, Invites
    <3> QED BY <3>1, SeqMonotonic DEF PreparedBy
  <2>4. saved \in Pending /\ saved.founder = f /\ saved.invites = list
    BY <2>2, <2>3 DEF Pending
  <2> HIDE DEF saved
  <2>5. saved # NULL
    BY <2>4, ClientAssumption
  <2>6. store'[t] = saved /\ \A u \in Tabs \ {t} : store'[u] = store[u]
    BY <2>1 DEF StoreHome
  <2>7. store' = [u \in Tabs |-> store'[u]]
    BY <2>1 DEF StoreHome
  <2>8. StoreHome'
    BY <2>4, <2>6, <2>7 DEF StoreHome
  <2> QED BY <2>4, <2>5, <2>6, <2>8 DEF Stored
<1> QED BY <1>1, <1>2

\* What a loop has in hand, part by part.
LEMMA HandParts ==
  ASSUME NEW S, NEW rest \in Seq(S), NEW failed \in Seq(S)
  PROVE /\ Range(failed \o rest) = Range(rest) \cup Range(failed)
        /\ rest # <<>> => /\ Head(rest) \in S /\ Tail(rest) \in Seq(S) /\ Append(failed, Head(rest)) \in Seq(S)
                          /\ Range(rest) = {Head(rest)} \cup Range(Tail(rest))
                          /\ Range(Append(failed, Head(rest))) = Range(failed) \cup {Head(rest)}
        /\ \A n \in 0..Len(rest) :
              /\ SubSeq(rest, 1, n) \in Seq(S) /\ SubSeq(rest, n + 1, Len(rest)) \in Seq(S)
              /\ Range(rest) = Range(SubSeq(rest, 1, n)) \cup Range(SubSeq(rest, n + 1, Len(rest)))
<1>1. Range(failed \o rest) = Range(rest) \cup Range(failed)
  BY RangeConcatenation
<1>2. Len(rest) \in Nat /\ \A i \in 1..Len(rest) : rest[i] \in S
  BY LenProperties, ElementOfSeq
<1>3. ASSUME rest # <<>>
      PROVE /\ Head(rest) \in S /\ Tail(rest) \in Seq(S) /\ Append(failed, Head(rest)) \in Seq(S)
            /\ Range(rest) = {Head(rest)} \cup Range(Tail(rest))
            /\ Range(Append(failed, Head(rest))) = Range(failed) \cup {Head(rest)}
  <2>1. Head(rest) \in S /\ Tail(rest) \in Seq(S)
    BY <1>3, HeadTailProperties
  <2> DEFINE one == <<Head(rest)>>
  <2>2. Append(failed, Head(rest)) \in Seq(S) /\ Append(failed, Head(rest)) = failed \o one
    BY <2>1, AppendProperties, AppendIsConcat
  <2>3. one \in Seq(S) /\ Len(one) = 1 /\ one[1] = Head(rest)
    BY <2>1
  <2> HIDE DEF one
  <2>4. Range(Append(failed, Head(rest))) = Range(failed) \cup {Head(rest)}
    <3>1. Range(one) = {one[i] : i \in 1..1}
      BY <2>3, RangeEquality
    <3>2. Range(one) = {Head(rest)}
      BY <2>3, <3>1
    <3>3. Range(failed \o one) = Range(failed) \cup Range(one)
      BY <2>3, RangeConcatenation
    <3> QED BY <2>2, <3>2, <3>3
  <2>5. /\ Head(rest) = rest[1] /\ Len(rest) >= 1 /\ Len(Tail(rest)) = Len(rest) - 1
        /\ \A i \in 1..Len(Tail(rest)) : Tail(rest)[i] = rest[i + 1]
    <3>1. Len(rest) \in Nat \ {0}
      BY <1>3, EmptySeq
    <3> QED BY <1>3, <3>1, HeadTailProperties
  <2>6. Range(rest) = {Head(rest)} \cup Range(Tail(rest))
    <3>1. /\ Range(rest) = {rest[i] : i \in 1..Len(rest)}
          /\ Range(Tail(rest)) = {Tail(rest)[i] : i \in 1..Len(Tail(rest))}
      BY <2>1, RangeEquality
    <3>2. ASSUME NEW i \in 1..Len(rest)
          PROVE rest[i] = Head(rest) \/ (i - 1 \in 1..Len(Tail(rest)) /\ rest[i] = Tail(rest)[i - 1])
      BY <1>2, <2>5
    <3>3. ASSUME NEW i \in 1..Len(Tail(rest))
          PROVE i + 1 \in 1..Len(rest) /\ Tail(rest)[i] = rest[i + 1]
      BY <1>2, <2>5
    <3>4. 1 \in 1..Len(rest)
      BY <1>2, <2>5
    <3>5. Range(rest) \subseteq {Head(rest)} \cup Range(Tail(rest))
      BY <3>1, <3>2
    <3>6. Range(Tail(rest)) \subseteq Range(rest)
      BY <3>1, <3>3
    <3>7. Head(rest) \in Range(rest)
      BY <2>5, <3>1, <3>4
    <3> QED BY <3>5, <3>6, <3>7
  <2> QED BY <2>1, <2>2, <2>4, <2>6
<1>4. ASSUME NEW n \in 0..Len(rest)
      PROVE /\ SubSeq(rest, 1, n) \in Seq(S) /\ SubSeq(rest, n + 1, Len(rest)) \in Seq(S)
            /\ Range(rest) = Range(SubSeq(rest, 1, n)) \cup Range(SubSeq(rest, n + 1, Len(rest)))
  <2>1. n \in Nat /\ n <= Len(rest)
    BY <1>2
  <2>2. SubSeq(rest, 1, n) \in Seq(S) /\ SubSeq(rest, n + 1, Len(rest)) \in Seq(S)
    BY <1>2, <2>1, SubSeqProperties
  <2>3. SubSeq(rest, 1, n) \o SubSeq(rest, n + 1, Len(rest)) = rest
    <3>1. /\ 1 \in 1..Len(rest) + 1 /\ n \in (1 - 1)..Len(rest) /\ Len(rest) \in n..Len(rest)
      BY <1>2, <2>1
    <3>2. SubSeq(rest, 1, n) \o SubSeq(rest, n + 1, Len(rest)) = SubSeq(rest, 1, Len(rest))
      BY <3>1, ConcatAdjacentSubSeq
    <3> QED BY <3>2, SubSeqFull
  <2> QED BY <2>2, <2>3, RangeConcatenation
<1> QED BY <1>1, <1>3, <1>4

-----------------------------------------------------------------------------
\* What the steps do to the prepared invitations.

\* Invitations that are skipped stay in the loop's hand.
LEMMA SkippedHome ==
  ASSUME NEW loop, DOMAIN loop = LoopFields, LoopHome(loop), NEW n \in 0..Len(loop.rest)
  PROVE LoopHome(Skipped(loop, n)) /\ InHand(Skipped(loop, n)) = InHand(loop)
<1> DEFINE S == Range(Prepared[loop.founder])
           rest == loop.rest
           skip == SubSeq(rest, 1, n)
           after == SubSeq(rest, n + 1, Len(rest))
           next == Skipped(loop, n)
<1>1. rest \in Seq(S) /\ loop.failed \in Seq(S) /\ loop.founder \in Founders
  BY DEF LoopHome, PreparedBy
<1>2. next.founder = loop.founder /\ next.rest = after /\ next.failed = loop.failed \o skip
  BY DEF Skipped, LoopFields
<1> HIDE DEF S, next
<1>3. skip \in Seq(S) /\ after \in Seq(S) /\ Range(rest) = Range(skip) \cup Range(after)
  BY <1>1, HandParts
<1> HIDE DEF skip, after
<1>4. loop.failed \o skip \in Seq(S) /\ Range(loop.failed \o skip) = Range(skip) \cup Range(loop.failed)
  BY <1>1, <1>3, HandParts, ConcatProperties
<1>5. LoopHome(next)
  BY <1>1, <1>2, <1>3, <1>4 DEF LoopHome, PreparedBy, S
<1>6. InHand(next) = InHand(loop)
  BY <1>2, <1>3, <1>4 DEF InHand
<1> QED BY <1>5, <1>6 DEF next

\* An invitation that fails stays in the loop's hand, and so do those after it.
LEMMA FailedHome ==
  ASSUME NEW loop, DOMAIN loop = LoopFields, LoopHome(loop), loop.rest # <<>>, NEW o
  PROVE /\ LoopHome(inviteFailed(loop, o)) /\ InHand(inviteFailed(loop, o)) = InHand(loop)
        /\ DOMAIN inviteFailed(loop, o) = LoopFields
<1> DEFINE S == Range(Prepared[loop.founder])
           next == inviteFailed(loop, o)
           rest == loop.rest
           failed == loop.failed
<1>1. rest \in Seq(S) /\ failed \in Seq(S) /\ loop.founder \in Founders /\ rest # <<>>
  BY DEF LoopHome, PreparedBy
<1>2. /\ next.founder = loop.founder /\ DOMAIN next = LoopFields
      /\ \/ next.rest = <<>> /\ next.failed = failed \o rest
         \/ next.rest = Tail(rest) /\ next.failed = Append(failed, Head(rest))
  BY DEF inviteFailed, LoopFields
<1>3. InHand(loop) = Range(rest) \cup Range(failed)
  BY DEF InHand
<1> HIDE DEF S, next, rest, failed
<1>4. <<>> \in Seq(S) /\ Range(<<>>) = {}
  BY EmptySeq, RangeEquality DEF Range
<1>5. /\ failed \o rest \in Seq(S)
      /\ Range(failed \o rest) = Range(rest) \cup Range(failed)
  BY <1>1, HandParts, ConcatProperties
<1>6. /\ Tail(rest) \in Seq(S) /\ Append(failed, Head(rest)) \in Seq(S)
      /\ Range(rest) = {Head(rest)} \cup Range(Tail(rest))
      /\ Range(Append(failed, Head(rest))) = Range(failed) \cup {Head(rest)}
  BY <1>1, HandParts
<1>7. next.rest \in Seq(S) /\ next.failed \in Seq(S)
  BY <1>2, <1>4, <1>5, <1>6
<1>8. InHand(next) = InHand(loop)
  BY <1>2, <1>3, <1>4, <1>5, <1>6 DEF InHand
<1> QED BY <1>1, <1>2, <1>7, <1>8 DEF LoopHome, PreparedBy, S, next

\* A call is answered: its loop stays under way, and an invitation that was accepted is made.
LEMMA AnswerHome ==
  ASSUME ClientInv, HomeInv, NEW c \in calls, NEW status, NEW session, Answer(c, status, session),
         store' = store, loads' = loads, Made \subseteq Made',
         c.kind = "invite" /\ status = "ok" => Head(c.loop.rest) \in Made'
  PROVE HomeInv' /\ StepKeeps
<1> DEFINE d == [c EXCEPT !.status = status, !.session = session, !.cookie = 0, !.csrf = 0]
<1>1. DOMAIN c = CallFields /\ CallHome(c, Made)
  BY DEF ClientInv, CallLike, HomeInv
<1>2. /\ d.tab = c.tab /\ d.kind = c.kind /\ d.account = c.account /\ d.loop = c.loop /\ d.gone = c.gone
      /\ d.status = status
  BY <1>1 DEF CallFields
<1>3. calls' = (calls \ {c}) \cup {d}
  BY DEF Answer
<1> HIDE DEF d
<1>4. CallHome(d, Made')
  BY <1>1, <1>2 DEF CallHome
<1>5. StoreHome' /\ loads' \in Nat
  BY DEF HomeInv, StoreHome
<1>6. HomeInv'
  BY <1>3, <1>4, <1>5, HomeCall
<1>7. \A b \in calls : \E e \in calls' : e.tab = b.tab /\ e.kind = b.kind /\ e.gone = b.gone /\ e.loop = b.loop
  BY <1>2, <1>3
<1>8. StepKeeps
  BY <1>7, LoopsStay
<1> QED BY <1>6, <1>8

\* The server makes invitations and takes none back.
LEMMA ServeHome ==
  ASSUME ClientInv, HomeInv, NEW c \in calls, Serve(c)
  PROVE HomeInv' /\ StepKeeps
<1>1. store' = store /\ loads' = loads
  BY DEF Serve
<1>2. ASSUME invited' = invited, c.kind # "invite", NEW status, NEW session, Answer(c, status, session)
      PROVE HomeInv' /\ StepKeeps
  BY <1>1, <1>2, AnswerHome DEF Made
<1>3. ASSUME invited' = invited, NEW status, status # "ok", NEW session, Answer(c, status, session)
      PROVE HomeInv' /\ StepKeeps
  BY <1>1, <1>3, AnswerHome DEF Made
<1>4. CASE Refuse(c)
  <2>1. invited' = invited /\ (Answer(c, "refused", 0) \/ Answer(c, "401", 0))
    BY <1>4 DEF Refuse
  <2> QED BY <1>3, <2>1
<1>5. CASE ServeLogin(c)
  <2>1. invited' = invited /\ c.kind # "invite" /\ (Answer(c, "401", 0) \/ Answer(c, "ok", Len(sessions')))
    BY <1>5 DEF ServeLogin
  <2> QED BY <1>2, <2>1
<1>6. CASE ServeSignup(c)
  <2>1. invited' = invited /\ c.kind # "invite" /\ (Answer(c, "refused", 0) \/ Answer(c, "ok", 0))
    BY <1>6 DEF ServeSignup
  <2> QED BY <1>2, <2>1
<1>7. CASE ServeReset(c)
  <2>1. invited' = invited /\ c.kind # "invite" /\ (Answer(c, "refused", 0) \/ Answer(c, "ok", 0))
    BY <1>7 DEF ServeReset
  <2> QED BY <1>2, <2>1
<1>8. CASE ServeLogout(c)
  <2>1. invited' = invited /\ c.kind # "invite" /\ Answer(c, "ok", c.cookie)
    BY <1>8 DEF ServeLogout
  <2> QED BY <1>2, <2>1
<1>9. CASE ServeInvite(c)
  <2>1. CASE invited' = invited /\ Answer(c, "refused", 0)
    BY <1>3, <2>1
  <2>2. CASE invited' = invited \cup {<<Head(c.loop.rest), c.loop.company>>} /\ Answer(c, "ok", c.cookie)
    <3> DEFINE pair == <<Head(c.loop.rest), c.loop.company>>
    <3>1. pair[1] = Head(c.loop.rest)
      OBVIOUS
    <3>2. invited' = invited \cup {pair}
      BY <2>2
    <3> HIDE DEF pair
    <3>3. Made \subseteq Made' /\ Head(c.loop.rest) \in Made'
      BY <3>1, <3>2 DEF Made
    <3> QED BY <1>1, <2>2, <3>3, AnswerHome
  <2> QED BY <1>9, <2>1, <2>2 DEF ServeInvite
<1>10. CASE ServeOther(c)
  <2>1. invited' = invited /\ c.kind # "invite" /\ Answer(c, "ok", c.cookie)
    BY <1>10 DEF ServeOther, ReadKinds
  <2> QED BY <1>2, <2>1
<1> QED BY <1>4, <1>5, <1>6, <1>7, <1>8, <1>9, <1>10 DEF Serve

\* A call that is lost leaves its loop as it is.
LEMMA LoseHome ==
  ASSUME ClientInv, HomeInv, NEW c \in calls, Lose(c)
  PROVE HomeInv' /\ StepKeeps
<1>1. store' = store /\ loads' = loads /\ invited' = invited
  BY DEF Lose, Fail
<1>2. Answer(c, "network", 0) \/ Answer(c, "refused", 0)
  BY DEF Lose, Fail
<1> QED BY <1>1, <1>2, AnswerHome DEF Made

\* A page load is the one step that may forget what a loop has in hand.
LEMMA LoadHome ==
  ASSUME ClientInv, HomeInv, NEW t \in Tabs, NEW link, Load(t, link)
  PROVE HomeInv' /\ StepKeeps
<1> DEFINE left == {[c EXCEPT !.gone = TRUE] : c \in {d \in calls : d.tab = t /\ d.status = NULL /\ d.kind \notin ReadKinds}}
           me == Send(t, "me", NULL, NULL)
<1>1. /\ store' = store /\ invited' = invited /\ loads' = loads + 1
      /\ calls' \subseteq calls \cup (left \cup {me})
  BY DEF Load
<1>2. CallHome(me, Made')
  BY SendHome DEF LoopKinds
<1> HIDE DEF me
<1>3. ASSUME NEW e \in left
      PROVE CallHome(e, Made')
  <2>1. PICK c \in calls : e = [c EXCEPT !.gone = TRUE]
    OBVIOUS
  <2>2. DOMAIN c = CallFields /\ CallHome(c, Made)
    BY DEF ClientInv, CallLike, HomeInv
  <2>3. e.kind = c.kind /\ e.account = c.account /\ e.loop = c.loop /\ e.status = c.status
    BY <2>1, <2>2 DEF CallFields
  <2> QED BY <1>1, <2>2, <2>3 DEF CallHome, Made
<1> HIDE DEF left
<1> DEFINE new == left \cup {me}
<1>4. calls' \subseteq calls \cup new /\ \A d \in new : CallHome(d, Made')
  BY <1>1, <1>2, <1>3
<1> HIDE DEF new
<1>5. StoreHome' /\ loads' \in Nat /\ loads' # loads /\ Made \subseteq Made'
  BY <1>1 DEF HomeInv, StoreHome, Made
<1>6. HomeInv'
  BY <1>4, <1>5, HomeSteps
<1> QED BY <1>5, <1>6 DEF StepKeeps

\* What a person starts adds calls that are no part of a loop.
LEMMA StartHome ==
  ASSUME HomeInv, store' = store, loads' = loads, invited' = invited,
         NEW t, NEW kind, NEW account, kind \notin LoopKinds, kind = "signup" => account \in Founders,
         calls' = calls \cup {Send(t, kind, account, NULL)}
  PROVE HomeInv' /\ StepKeeps
<1> DEFINE d == Send(t, kind, account, NULL)
<1>1. CallHome(d, Made') /\ calls' = calls \cup {d}
  BY SendHome
<1> HIDE DEF d
<1>2. StoreHome' /\ loads' \in Nat /\ Made \subseteq Made'
  BY DEF HomeInv, StoreHome, Made
<1>3. HomeInv'
  BY <1>1, <1>2, HomeCall
<1>4. StepKeeps
  BY <1>1, LoopsStay
<1> QED BY <1>3, <1>4

\* Steps that add no call, end only calls that are no loop's and leave the store.
LEMMA QuietHome ==
  ASSUME HomeInv, store' = store, loads' = loads, invited' = invited, calls' \subseteq calls,
         \A c \in calls \ calls' : c.kind \notin LoopKinds \/ c.gone
  PROVE HomeInv' /\ StepKeeps
<1>1. StoreHome' /\ loads' \in Nat /\ Made \subseteq Made'
  BY DEF HomeInv, StoreHome, Made
<1>2. HomeInv'
  BY <1>1, HomeStays
<1>3. \A c \in calls : c.kind \in LoopKinds /\ ~c.gone => c \in calls'
  OBVIOUS
<1>4. StepKeeps
  BY <1>3, LoopsStay
<1> QED BY <1>2, <1>4

\* A loop that is over saves what failed, and one that goes on keeps the rest in hand.
LEMMA LoopHomeSteps ==
  ASSUME ClientInv, HomeInv, NEW c \in calls, ~c.gone, c.kind \in LoopKinds,
         loads' = loads, invited' = invited,
         NEW nb, NEW loop, DOMAIN loop = LoopFields, LoopHome(loop), InHand(c.loop) \subseteq InHand(loop) \cup Made,
         LoopGoesOn(c, nb, loop) \/ (LoopEnds(c, nb, loop) /\ loop.rest = <<>>)
  PROVE HomeInv' /\ StepKeeps
<1>1. c.tab \in Tabs /\ StoreHome /\ loads' \in Nat /\ Made' = Made
  BY DEF ClientInv, CallLike, HomeInv, Made
<1>2. ASSUME NEW next, LoopHome(next), InHand(next) = InHand(loop), next.rest = <<>>, LoopEnds(c, nb, next)
      PROVE HomeInv' /\ StepKeeps
  <2>1. /\ calls' = calls \ {c}
        /\ IF next.failed = <<>> THEN store' = store ELSE savePendingInvites(c.tab, next.founder, next.failed)
    BY <1>2 DEF LoopEnds
  <2>2. StoreHome' /\ \A u \in Tabs \ {c.tab} : Stored(u)' = Stored(u)
    BY <1>1, <1>2, <2>1, SavedHome DEF StoreHome, LoopHome, Stored
  <2>3. HomeInv'
    BY <1>1, <2>1, <2>2, HomeStays
  <2>4. InHand(next) = Range(next.failed)
    <3>1. Range(<<>>) = {}
      BY DEF Range
    <3> QED BY <1>2, <3>1 DEF InHand
  <2>5. ASSUME NEW t \in Tabs, NEW i \in Held(t), i \notin Held(t)', i \notin Made
        PROVE i \in Stored(t) /\ store'[t] # NULL
    <3>1. i \in Stored(t) \/ (c.tab = t /\ i \in InHand(c.loop))
      BY <2>1, <2>5, HeldBut
    <3>2. i \notin Stored(t)'
      BY <2>5, HeldIs
    <3>3. CASE t # c.tab
      BY <2>2, <3>1, <3>2, <3>3
    <3>4. CASE t = c.tab /\ next.failed = <<>>
      <4>1. Stored(t)' = Stored(t)
        BY <2>1, <3>4 DEF Stored
      <4>2. i \in Range(next.failed)
        BY <1>2, <2>4, <2>5, <3>1, <3>2, <4>1
      <4> QED BY <3>4, <4>2 DEF Range
    <3>5. CASE t = c.tab /\ next.failed # <<>>
      <4>1. store'[t] # NULL /\ Stored(t)' = Range(next.failed)
        BY <1>1, <1>2, <2>1, <3>5, SavedHome DEF LoopHome
      <4>2. i \notin InHand(c.loop)
        BY <1>2, <2>4, <2>5, <3>2, <4>1
      <4> QED BY <3>1, <4>1, <4>2
    <3> QED BY <3>3, <3>4, <3>5
  <2> QED BY <2>3, <2>5 DEF StepKeeps
<1>3. ASSUME NEW next, LoopHome(next), InHand(next) = InHand(loop), next.rest # <<>>, store' = store,
             calls' = (calls \ {c}) \cup {Send(c.tab, "invite", next.founder, next)}
      PROVE HomeInv' /\ StepKeeps
  <2> DEFINE d == Send(c.tab, "invite", next.founder, next)
  <2>1. d.tab = c.tab /\ d.kind = "invite" /\ d.loop = next /\ d.gone = FALSE /\ d.status = NULL
    BY DEF Send
  <2>2. calls' = (calls \ {c}) \cup {d}
    BY <1>3
  <2> HIDE DEF d
  <2>3. CallHome(d, Made')
    BY <1>3, <2>1, ClientAssumption DEF CallHome, LoopKinds
  <2>4. StoreHome'
    BY <1>1, <1>3 DEF StoreHome
  <2>5. HomeInv'
    BY <1>1, <2>2, <2>3, <2>4, HomeCall
  <2>6. ASSUME NEW t \in Tabs, NEW i \in Held(t), i \notin Held(t)', i \notin Made
        PROVE FALSE
    <3>1. i \in Stored(t) \/ (c.tab = t /\ i \in InHand(c.loop))
      BY <2>2, <2>6, HeldBut
    <3>2. i \notin Stored(t)
      BY <1>3, <2>6, HeldIs DEF Stored
    <3>3. c.tab = t /\ i \in InHand(next)
      BY <1>3, <2>6, <3>1, <3>2
    <3>4. d \in calls' /\ d.kind \in LoopKinds /\ ~d.gone
      BY <2>1, <2>2 DEF LoopKinds
    <3> QED BY <2>1, <2>6, <3>3, <3>4, HeldIs
  <2> QED BY <2>5, <2>6 DEF StepKeeps
<1>4. CASE LoopGoesOn(c, nb, loop)
  <2>1. PICK n \in 0..Len(loop.rest) :
          IF Skipped(loop, n).rest = <<>> THEN LoopEnds(c, nb, Skipped(loop, n))
          ELSE /\ calls' = (calls \ {c}) \cup {Send(c.tab, "invite", Skipped(loop, n).founder, Skipped(loop, n))}
               /\ store' = store
    BY <1>4 DEF LoopGoesOn
  <2>2. LoopHome(Skipped(loop, n)) /\ InHand(Skipped(loop, n)) = InHand(loop)
    BY SkippedHome
  <2> QED BY <1>2, <1>3, <2>1, <2>2
<1> QED BY <1>2, <1>4

\* A session in the tab: the founder's loop takes what is stored for the founder.
LEMMA ApplyHome ==
  ASSUME ClientInv, HomeInv, NEW c \in calls, c.kind \in {"me", "login"}, loads' = loads, invited' = invited,
         NEW next \in {"startLookups", "loginLookups"}, applySession(c, next)
  PROVE HomeInv' /\ StepKeeps
<1> DEFINE account == sessions[c.session].account
           look == Send(c.tab, next, account, NULL)
           first == sendPreparedInvites(c.tab, account)
           loop == [founder |-> account, generation |-> tabs'[c.tab].generation,
                    rest |-> store[c.tab].invites, failed |-> <<>>, company |-> NULL]
           send == Send(c.tab, "inviteLookups", account, loop)
<1>1. /\ c.tab \in Tabs /\ StoreHome /\ loads' \in Nat /\ Made' = Made /\ c.kind \notin LoopKinds
  BY DEF ClientInv, CallLike, HomeInv, Made, LoopKinds
<1>2. /\ calls' = (calls \ {c}) \cup {look} \cup first
      /\ store' = [store EXCEPT ![c.tab] = IF first = {} THEN @ ELSE NULL]
  BY DEF applySession
<1>3. CallHome(look, Made')
  BY SendHome DEF LoopKinds
<1>4. first = {} \/ (first = {send} /\ store[c.tab] # NULL /\ store[c.tab].founder = account)
  BY DEF sendPreparedInvites, takePendingInvites
<1>5. /\ loop.founder = account /\ loop.rest = store[c.tab].invites /\ loop.failed = <<>>
      /\ send.tab = c.tab /\ send.kind = "inviteLookups" /\ send.loop = loop /\ send.gone = FALSE
  BY DEF Send
<1> HIDE DEF account, look, first, send, loop
<1>6. ASSUME first # {}
      PROVE CallHome(send, Made') /\ InHand(loop) = Stored(c.tab)
  <2>1. PreparedBy(account, store[c.tab].invites) /\ store[c.tab] # NULL
    BY <1>1, <1>4, <1>6 DEF StoreHome
  <2>2. LoopHome(loop)
    BY <1>5, <2>1, EmptySeq DEF LoopHome, PreparedBy
  <2>3. Range(<<>>) = {}
    BY DEF Range
  <2> QED BY <1>5, <2>1, <2>2, <2>3 DEF CallHome, LoopKinds, InHand, Stored
<1> DEFINE new == {look} \cup first
<1>7. calls' \subseteq calls \cup new /\ \A d \in new : CallHome(d, Made')
  BY <1>2, <1>3, <1>4, <1>6
<1>8. StoreHome' /\ \A t \in Tabs : t # c.tab \/ first = {} => store'[t] = store[t]
  BY <1>1, <1>2 DEF StoreHome
<1>9. ASSUME NEW t \in Tabs, NEW i \in Held(t), i \notin Held(t)'
      PROVE FALSE
  <2>1. i \in Stored(t)
    BY <1>1, <1>2, <1>9, HeldBut
  <2>2. i \notin Stored(t)'
    BY <1>9, HeldIs
  <2>3. t = c.tab /\ first # {}
    BY <1>8, <2>1, <2>2 DEF Stored
  <2>4. send \in calls' /\ send.tab = t /\ ~send.gone /\ send.kind \in LoopKinds /\ i \in InHand(send.loop)
    BY <1>2, <1>4, <1>5, <1>6, <2>1, <2>3 DEF LoopKinds
  <2> QED BY <1>9, <2>4, HeldIs
<1> HIDE DEF new
<1>10. HomeInv'
  BY <1>1, <1>7, <1>8, HomeSteps
<1> QED BY <1>9, <1>10 DEF StepKeeps

\* A sign-up that was accepted saves its list, also over another's.
LEMMA SignupHome ==
  ASSUME ClientInv, HomeInv, NEW c \in calls, loads' = loads, invited' = invited, DeliverSignup(c)
  PROVE HomeInv' /\ StepKeeps
<1>1. c.tab \in Tabs /\ StoreHome /\ loads' \in Nat /\ Made' = Made /\ c.kind \notin LoopKinds /\ c.account \in Founders
  BY DEF ClientInv, CallLike, HomeInv, Made, LoopKinds, CallHome, DeliverSignup
<1>2. calls' = calls \ {c} /\ c.kind = "signup"
  BY DEF DeliverSignup
<1>3. CASE store' = store
  BY <1>1, <1>2, <1>3, QuietHome
<1>4. CASE savePendingInvites(c.tab, c.account, Prepared[c.account])
  <2>1. PreparedBy(c.account, Prepared[c.account])
    <3>1. Prepared[c.account] \in Seq(Invites)
      BY <1>1, ClientAssumption
    <3> QED BY <1>1, <3>1, SeqOfRange DEF PreparedBy
  <2>2. StoreHome' /\ \A u \in Tabs \ {c.tab} : store'[u] = store[u]
    BY <1>1, <1>4, <2>1, SavedHome
  <2>3. HomeInv'
    BY <1>1, <1>2, <2>2, HomeStays
  <2>4. ASSUME NEW t \in Tabs, NEW i \in Held(t), i \notin Held(t)'
        PROVE i \in Stored(t) /\ t = c.tab
    <3>1. i \in Stored(t)
      BY <1>1, <1>2, <2>4, HeldBut
    <3> QED BY <2>2, <2>4, <3>1, HeldIs DEF Stored
  <2> QED BY <1>2, <2>3, <2>4 DEF StepKeeps
<1> QED BY <1>3, <1>4 DEF DeliverSignup

\* One case per kind of call.
LEMMA DeliverHome ==
  ASSUME ClientInv, HomeInv, NEW c \in calls, Deliver(c)
  PROVE HomeInv' /\ StepKeeps
<1>1. invited' = invited /\ loads' = loads /\ DOMAIN c = CallFields /\ CallHome(c, Made)
  BY DEF Deliver, ClientInv, CallLike, HomeInv
<1>2. CASE DeliverGone(c)
  <2>1. store' = store /\ calls' = calls \ {c} /\ c.gone
    BY <1>2 DEF DeliverGone
  <2> QED BY <1>1, <2>1, QuietHome
<1>3. ASSUME NEW nb, Settle(c, nb), c.kind \notin LoopKinds
      PROVE HomeInv' /\ StepKeeps
  <2>1. store' = store /\ calls' = calls \ {c}
    BY <1>3 DEF Settle
  <2> QED BY <1>1, <1>3, <2>1, QuietHome
<1>4. CASE DeliverMe(c)
  BY <1>1, <1>3, <1>4, ApplyHome DEF DeliverMe, LoopKinds
<1>5. CASE DeliverLogin(c)
  BY <1>1, <1>3, <1>5, ApplyHome DEF DeliverLogin, LoopKinds
<1>6. CASE DeliverStartLookups(c)
  BY <1>3, <1>6 DEF DeliverStartLookups, LoopKinds
<1>7. CASE DeliverRunRead(c)
  BY <1>3, <1>7 DEF DeliverRunRead, LoopKinds
<1>8. CASE DeliverLogout(c)
  BY <1>3, <1>8 DEF DeliverLogout, LoopKinds
<1>9. CASE DeliverPage(c)
  BY <1>3, <1>9 DEF DeliverPage, LoopKinds
<1>10. CASE DeliverLookups(c)
  BY <1>3, <1>10 DEF DeliverLookups, LoopKinds
<1>11. CASE DeliverReset(c)
  BY <1>3, <1>11 DEF DeliverReset, LoopKinds
<1>12. CASE DeliverSignup(c)
  BY <1>1, <1>12, SignupHome
<1>13. CASE DeliverWrite(c)
  <2>1. c.kind \notin LoopKinds
    BY <1>13 DEF DeliverWrite, LoopKinds
  <2>2. CASE Outcome(c) # "ok"
    BY <1>3, <1>13, <2>1, <2>2 DEF DeliverWrite
  <2>3. CASE Outcome(c) = "ok"
    <3> DEFINE d == Send(c.tab, "refresh", c.account, NULL)
    <3>1. store' = store /\ calls' = (calls \ {c}) \cup {d}
      BY <1>13, <2>3 DEF DeliverWrite
    <3>2. CallHome(d, Made')
      BY SendHome DEF LoopKinds
    <3> HIDE DEF d
    <3>3. StoreHome' /\ loads' \in Nat /\ Made \subseteq Made'
      BY <1>1, <3>1 DEF HomeInv, StoreHome, Made
    <3>4. HomeInv'
      BY <3>1, <3>2, <3>3, HomeCall
    <3>5. \A b \in calls : b.kind \in LoopKinds /\ ~b.gone => b \in calls'
      BY <2>1, <3>1
    <3>6. StepKeeps
      BY <3>1, <3>5, LoopsStay
    <3> QED BY <3>4, <3>6
  <2> QED BY <2>2, <2>3
<1>14. CASE DeliverInviteLookups(c) /\ ~c.gone
  <2>1. DOMAIN c.loop = LoopFields /\ LoopHome(c.loop) /\ c.loop.failed = <<>> /\ c.kind \in LoopKinds
    BY <1>1, <1>14 DEF DeliverInviteLookups, LoopKinds, CallHome, ClientInv, CallLike
  <2>2. CASE Outcome(c) = "ok"
    <3> DEFINE loop == [c.loop EXCEPT !.company = CompanyOf[sessions[c.session].account]]
    <3>1. LoopGoesOn(c, tabs[c.tab], loop)
      BY <1>14, <2>2 DEF DeliverInviteLookups
    <3>2. /\ DOMAIN loop = LoopFields /\ loop.founder = c.loop.founder /\ loop.rest = c.loop.rest
          /\ loop.failed = c.loop.failed
      BY <2>1 DEF LoopFields
    <3> HIDE DEF loop
    <3>3. LoopHome(loop) /\ InHand(loop) = InHand(c.loop)
      BY <2>1, <3>2 DEF LoopHome, InHand
    <3> QED BY <1>1, <1>14, <2>1, <3>1, <3>2, <3>3, LoopHomeSteps
  <2>3. CASE Outcome(c) # "ok"
    <3> DEFINE loop == [c.loop EXCEPT !.failed = c.loop.rest, !.rest = <<>>]
    <3>1. LoopEnds(c, AfterSend(c), loop)
      BY <1>14, <2>3 DEF DeliverInviteLookups
    <3>2. DOMAIN loop = LoopFields /\ loop.founder = c.loop.founder /\ loop.rest = <<>> /\ loop.failed = c.loop.rest
      BY <2>1 DEF LoopFields
    <3> HIDE DEF loop
    <3>3. LoopHome(loop) /\ InHand(loop) = InHand(c.loop)
      BY <2>1, <3>2, EmptySeq DEF LoopHome, PreparedBy, InHand
    <3> QED BY <1>1, <1>14, <2>1, <3>1, <3>2, <3>3, LoopHomeSteps
  <2> QED BY <2>2, <2>3
<1>15. CASE DeliverInvite(c) /\ ~c.gone
  <2>1. DOMAIN c.loop = LoopFields /\ LoopHome(c.loop) /\ c.loop.rest # <<>> /\ c.kind \in LoopKinds
    BY <1>1, <1>15 DEF DeliverInvite, LoopKinds, CallHome, ClientInv, CallLike
  <2>2. CASE Outcome(c) = "ok"
    <3> DEFINE loop == [c.loop EXCEPT !.rest = Tail(@)]
               S == Range(Prepared[c.loop.founder])
               rest == c.loop.rest
    <3>1. LoopGoesOn(c, AfterSend(c), loop)
      BY <1>15, <2>2 DEF DeliverInvite
    <3>2. /\ DOMAIN loop = LoopFields /\ loop.founder = c.loop.founder /\ loop.rest = Tail(rest)
          /\ loop.failed = c.loop.failed
      BY <2>1 DEF LoopFields
    <3> HIDE DEF loop
    <3>3. rest \in Seq(S) /\ c.loop.failed \in Seq(S) /\ rest # <<>>
      BY <2>1 DEF LoopHome, PreparedBy
    <3>4. Head(rest) \in Made
      BY <1>1, <1>15, <2>2, OutcomeOk DEF CallHome, DeliverInvite
    <3>5. InHand(c.loop) = Range(rest) \cup Range(c.loop.failed) /\ InHand(loop) = Range(Tail(rest)) \cup Range(c.loop.failed)
      BY <3>2 DEF InHand
    <3> HIDE DEF S, rest
    <3>6. Tail(rest) \in Seq(S) /\ Range(rest) = {Head(rest)} \cup Range(Tail(rest))
      BY <3>3, HandParts
    <3>7. LoopHome(loop)
      BY <2>1, <3>2, <3>6 DEF LoopHome, PreparedBy, S
    <3>8. InHand(c.loop) \subseteq InHand(loop) \cup Made
      BY <3>4, <3>5, <3>6
    <3> QED BY <1>1, <1>15, <2>1, <3>1, <3>2, <3>7, <3>8, LoopHomeSteps
  <2>3. CASE Outcome(c) # "ok"
    <3> DEFINE loop == inviteFailed(c.loop, Outcome(c))
    <3>1. LoopGoesOn(c, AfterSend(c), loop)
      BY <1>15, <2>3 DEF DeliverInvite
    <3>2. DOMAIN loop = LoopFields /\ LoopHome(loop) /\ InHand(loop) = InHand(c.loop)
      BY <2>1, FailedHome
    <3> HIDE DEF loop
    <3> QED BY <1>1, <1>15, <2>1, <3>1, <3>2, LoopHomeSteps
  <2> QED BY <2>2, <2>3
<1> QED BY <1>2, <1>4, <1>5, <1>6, <1>7, <1>8, <1>9, <1>10, <1>11, <1>12, <1>13, <1>14, <1>15 DEF Deliver

\* Nothing is prepared or stored at first.
LEMMA HomeStarts == Init => HomeInv
  BY DEF Init, HomeInv, StoreHome

\* One case per action.
LEMMA HomeNext == ClientInv /\ HomeInv /\ [Next]_vars => HomeInv' /\ StepKeeps
<1> SUFFICES ASSUME ClientInv, HomeInv, [Next]_vars PROVE HomeInv' /\ StepKeeps
  OBVIOUS
<1>1. ASSUME NEW t \in Tabs, NEW link \in BOOLEAN, Load(t, link /\ Mailed # {})
      PROVE HomeInv' /\ StepKeeps
  BY <1>1, LoadHome
<1>2. ASSUME NEW t, NEW kind, NEW account, Start(t, kind, account), kind \notin LoopKinds,
             kind = "signup" => account \in Founders
      PROVE HomeInv' /\ StepKeeps
  BY <1>2, StartHome DEF Start
<1>3. ASSUME NEW t \in Tabs, NEW a \in Accounts, onLogin(t, a)
      PROVE HomeInv' /\ StepKeeps
  BY <1>2, <1>3 DEF onLogin, LoopKinds
<1>4. ASSUME NEW t \in Tabs, NEW a \in Mailed, onReset(t, a)
      PROVE HomeInv' /\ StepKeeps
  BY <1>2, <1>4 DEF onReset, LoopKinds
<1>5. ASSUME NEW t \in Tabs, NEW f \in Founders, onSignup(t, f)
      PROVE HomeInv' /\ StepKeeps
  BY <1>2, <1>5 DEF onSignup, LoopKinds
<1>6. ASSUME NEW t \in Tabs, onLogout(t) \/ onWrite(t)
      PROVE HomeInv' /\ StepKeeps
  BY <1>2, <1>6 DEF onLogout, onWrite, LoopKinds
<1>7. ASSUME NEW t \in Tabs, NEW kind \in {"page", "lookups"}, onOpen(t, kind)
      PROVE HomeInv' /\ StepKeeps
  BY <1>7, StartHome DEF onOpen, LoopKinds
<1>8. ASSUME NEW c \in calls, Serve(c) \/ Lose(c) \/ Deliver(c)
      PROVE HomeInv' /\ StepKeeps
  BY <1>8, ServeHome, LoseHome, DeliverHome
<1>9. ASSUME NEW s \in DOMAIN sessions, Expire(s)
      PROVE HomeInv' /\ StepKeeps
  BY <1>9, QuietHome DEF Expire
<1>10. CASE UNCHANGED vars
  BY <1>10, QuietHome DEF vars
<1> QED BY <1>1, <1>3, <1>4, <1>5, <1>6, <1>7, <1>8, <1>9, <1>10 DEF Next

\* Stored lists, loops and accepted invitations are their founders', in every reachable state.
THEOREM HomeInvariance == Spec => []HomeInv
  BY HomeStarts, HomeNext, ClientInvariance, PTL DEF Spec

\* However sign-ins, sign-outs and tabs interleave, what the server makes in the session in
\* which a loop began is an invitation that this very founder has prepared.
THEOREM InvitesByTheirFounder == Spec => []InvitesStayHome
<1>1. ClientInv /\ HomeInv => InvitesStayHome
  <2> SUFFICES ASSUME ClientInv, HomeInv, NEW c \in calls, c.kind = "invite", c.status = "ok",
                      c.generation = c.loop.generation
               PROVE /\ sessions[c.session].account = c.loop.founder
                     /\ c.loop.founder \in Founders /\ Head(c.loop.rest) \in Range(Prepared[c.loop.founder])
    BY DEF InvitesStayHome
  <2>1. CallFits(c, sessions) /\ CallHome(c, Made)
    BY DEF ClientInv, HomeInv
  <2>2. c.loop.founder \in Founders /\ c.loop.rest \in Seq(Range(Prepared[c.loop.founder])) /\ c.loop.rest # <<>>
    BY <2>1 DEF CallHome, LoopKinds, LoopHome, PreparedBy
  <2> QED BY <2>1, <2>2, HeadTailProperties DEF CallFits
<1> QED BY <1>1, ClientInvariance, HomeInvariance, PTL

\* No failure, late answer or end of a session loses a prepared invitation, in any number of
\* tabs: it is made, stored or in the hand of the loop, until a page load or a later list.
THEOREM InvitationsSurvive == Spec => InvitesAreKept
<1>1. HomeInv /\ StepKeeps => [\A t \in Tabs : \A i \in Held(t) \ Held(t)' :
          \/ \E p \in invited : p[1] = i
          \/ loads' # loads
          \/ i \in Stored(t) /\ (store'[t] # NULL \/ \E c \in calls \ calls' : c.tab = t /\ c.kind = "signup")]_vars
  BY DEF StepKeeps, Made
<1> QED BY <1>1, HomeNext, ClientInvariance, HomeInvariance, PTL DEF Spec, InvitesAreKept
=============================================================================
