---------------------------- MODULE RequestPages ----------------------------
(***************************************************************************)
(* The two pages on which requests are worked on, with their calls in      *)
(* flight: StaffRequestList (staff.tsx), where handlers open, claim, start *)
(* and complete, and ApprovalInbox (approvals.tsx), where approvers        *)
(* decide.  Each shows a list and, in an overlay over it, one request.     *)
(* Answers come in any order; Navigation mounts and unmounts the pages.    *)
(* What a 401 does is in ClientSession; a request and its history, or the  *)
(* two lists that a page awaits together, are one call.                    *)
(***************************************************************************)
EXTENDS Navigation, SequencesExt, FiniteSets

CONSTANTS
    Requests,
    Captured,       \* bound: the approval policies that requests have captured
    ShownTabs,      \* bound: the tabs that a handler turns to
    Filters,        \* bound: the approval states that an inbox is filtered by
    Actions,        \* bound: what a handler does with a request
    MaxCalls        \* bound: calls in flight, and entries that Back can return to, after another call

VARIABLES
    served,         \* the server's requests
    list,           \* StaffRequestList
    inbox,          \* ApprovalInbox
    calls           \* in the order they were sent

pageVars == <<served, list, inbox, calls>>
vars == <<navVars, pageVars>>

\* "mine" and "started" are owned by the person at the page, "others" is not.
Stages == {"pending", "denied", "open", "mine", "started", "done", "others"}

ASSUME PagesAssumption ==
    /\ Captured \subseteq {"NONE", "DEPARTMENT_ADMIN", "SUPER_ADMIN"} /\ Captured # {}
    /\ Filters \subseteq {"all", "awaiting", "approved", "denied"} /\ "all" \in Filters
    /\ ShownTabs \subseteq {"all", "available", "claimed", "completed"}
    /\ Actions \subseteq {"mine", "started", "done"}
    /\ MaxCalls \in Nat

\* NULL, for no answer and nothing, is none of the values of a call.
ASSUME AnswerAssumption == NULL \notin {"ok", "failed", "mine", "started", "done", "open", "denied"}

Tabs == {"all", "available", "claimed", "completed"}

Kinds == {"load", "open", "act", "inbox", "history", "decide", "inboxAgain"}

\* id: the request it is about; filter: the tab or status of a list; then: a refresh after an
\* action, on which busy waits; reopens: openItem, as that action found it, takes the request.
\* rows, marked and seen are the answer, marked being the rows of a list that cannot be opened
\* and those of an inbox that can be decided.  cancelled: the effect that asked has been
\* cleaned up; gone: the page is no longer there.
Call == [kind : Kinds, id : Requests \cup {NULL}, filter : Tabs \cup Filters \cup {NULL},
         to : {"mine", "started", "done", "open", "denied", NULL}, then : BOOLEAN,
         reopens : BOOLEAN, status : {"ok", "failed", NULL}, rows : SUBSET Requests,
         marked : SUBSET Requests, seen : Stages \cup {NULL},
         cancelled : BOOLEAN, gone : BOOLEAN]

\* closed: the rows that cannot be opened; detail: the overlay, with the stage it shows.
List == [mounted : BOOLEAN, tab : Tabs, rows : SUBSET Requests, closed : SUBSET Requests, loading : BOOLEAN, busy : BOOLEAN,
         openRequestId : Requests \cup {NULL}, detail : [id : Requests, stage : Stages] \cup {NULL}]

\* pending: the items that can be decided.
Inbox == [mounted : BOOLEAN, status : Filters, items : SUBSET Requests, pending : SUBSET Requests,
          loading : BOOLEAN, busy : BOOLEAN, selectedId : Requests \cup {NULL}, history : Requests \cup {NULL}]

\* Pages, requests and calls have their shape.
PagesTypeOK ==
    /\ nav \in Nav /\ past \in Seq(Location) /\ Len(past) <= MaxPast
    /\ served \in [Requests -> [policy : Captured, stage : Stages]]
    /\ list \in List
    /\ inbox \in Inbox
    /\ calls \in Seq(Call)

-----------------------------------------------------------------------------
\* The server.

isApprover(who, r) == served[r].policy = who

\* A handler may open what can be claimed and what is the handler's own, an approver anything
\* that the policy gives to approve.
canOpen(who, r) == isApprover(who, r) \/ served[r].stage \in {"open", "mine", "started", "done"}

listed(tab, r) ==
    \/ tab = "all"
    \/ tab = "available" /\ served[r].stage = "open"
    \/ tab = "claimed" /\ served[r].stage \in {"mine", "started"}
    \/ tab = "completed" /\ served[r].stage = "done"

inboxListed(who, status, r) ==
    /\ isApprover(who, r)
    /\ status = "awaiting" => served[r].stage = "pending"
    /\ status = "denied" => served[r].stage = "denied"
    /\ status = "approved" => served[r].stage \notin {"pending", "denied"}

\* The stage from which an action leads to the given one.
before(to) ==
    CASE to = "mine" -> "open"
      [] to = "started" -> "mine"
      [] to = "done" -> "started"
      [] to \in {"open", "denied"} -> "pending"

-----------------------------------------------------------------------------
\* Calls.

blank == [kind |-> "load", id |-> NULL, filter |-> NULL, to |-> NULL, then |-> FALSE, reopens |-> TRUE,
          status |-> NULL, rows |-> {}, marked |-> {}, seen |-> NULL, cancelled |-> FALSE, gone |-> FALSE]

loadCall(tab) == [blank EXCEPT !.filter = tab]
refreshCall(c) == [loadCall(c.filter) EXCEPT !.then = TRUE, !.id = c.id, !.reopens = c.reopens]
openCall(id, then) == [blank EXCEPT !.kind = "open", !.id = id, !.then = then]
inboxCall(status) == [blank EXCEPT !.kind = "inbox", !.filter = status]

Without(i) == RemoveAt(calls, i)

MayStart == Len(calls) + Len(past) < MaxCalls

\* The cleanup of an effect: what it has asked for is no longer wanted.
cancel(cs, kind) ==
    [i \in DOMAIN cs |-> IF cs[i].kind = kind THEN [cs[i] EXCEPT !.cancelled = TRUE] ELSE cs[i]]

-----------------------------------------------------------------------------
\* Mounting.

noList == [mounted |-> FALSE, tab |-> "all", rows |-> {}, closed |-> {}, loading |-> FALSE, busy |-> FALSE,
           openRequestId |-> NULL, detail |-> NULL]
noInbox == [mounted |-> FALSE, status |-> "all", items |-> {}, pending |-> {}, loading |-> FALSE,
            busy |-> FALSE, selectedId |-> NULL, history |-> NULL]

\* queue: of the address, as a figure of a dashboard gives it.
initialRequestTab(who, queue) ==
    IF queue # NULL THEN queue ELSE IF who = "DEPARTMENT_ADMIN" THEN "all" ELSE "available"

requestTabs(who) == {"available", "claimed", "completed"} \cup (IF who = "DEPARTMENT_ADMIN" THEN {"all"} ELSE {})

selected == IF inbox.selectedId \in inbox.items THEN inbox.selectedId ELSE NULL

overlayOpen == list.detail # NULL \/ selected # NULL

\* The calls of a page that is left: what was asked of the server is still done, in any order.
left ==
    LET kept == SetToSeq({i \in DOMAIN calls : calls[i].kind \in {"act", "decide"} /\ calls[i].status = NULL})
    IN  [n \in DOMAIN kept |-> [calls[kept[n]] EXCEPT !.gone = TRUE]]

\* The page that App renders after a step of the navigation, as it was or mounted anew.
mount ==
    LET page == shownPage(nav')
        kept == IF nav'.user = nav.user THEN left ELSE <<>>
        handler == page = "requests" /\ nav'.user # "SUPER_ADMIN"
    IN  IF page = shownPage(nav) THEN UNCHANGED <<list, inbox, calls>>
        ELSE \E queue \in IF handler THEN {NULL} \cup (ShownTabs \ {"all"}) ELSE {NULL},
                status \in IF page = "approvals" THEN Filters ELSE {"all"} :
             LET tab == initialRequestTab(nav'.user, queue)
             IN  /\ list' = IF handler THEN [noList EXCEPT !.mounted = TRUE, !.tab = tab, !.loading = TRUE] ELSE noList
                 /\ inbox' = IF page = "approvals"
                             THEN [noInbox EXCEPT !.mounted = TRUE, !.status = status, !.loading = TRUE] ELSE noInbox
                 /\ calls' = kept \o (IF handler THEN <<loadCall(tab)>>
                                      ELSE IF page = "approvals" THEN <<inboxCall(status)>> ELSE <<>>)

\* Who signs in finds requests in any state in which nobody at the page has worked on them
\* (nothing shows while nobody is signed in: one state stands for all);
\* they are followed to the end of the session.
Found(who) ==
    IF who = NULL THEN {[r \in Requests |-> [policy |-> CHOOSE p \in Captured : TRUE, stage |-> "open"]]}
    ELSE [Requests -> {q \in [policy : Captured, stage : {"pending", "open"}] : q.policy = "NONE" => q.stage = "open"}]

Navigate ==
    /\ \/ \E who \in People : restore(who) \/ signIn(who)
       \/ signOut
       \/ ~overlayOpen /\ \E view \in Visited : select(view)
       \/ \E mode \in Forms : openForm(mode)
       \/ closeForm
       \/ back
    /\ mount
    /\ served' \in IF nav'.user = nav.user THEN {served} ELSE Found(nav'.user)

-----------------------------------------------------------------------------
\* StaffRequestList.

selectTab(tab) ==
    /\ list.mounted /\ list.detail = NULL /\ MayStart
    /\ tab \in requestTabs(nav.user) \ {list.tab}
    /\ list' = [list EXCEPT !.tab = tab, !.loading = TRUE]
    /\ calls' = Append(calls, loadCall(tab))
    /\ UNCHANGED <<navVars, served, inbox>>

onSearch ==
    /\ list.mounted /\ list.detail = NULL /\ MayStart
    /\ list' = [list EXCEPT !.loading = TRUE]
    /\ calls' = Append(calls, loadCall(list.tab))
    /\ UNCHANGED <<navVars, served, inbox>>

openItem(id) ==
    /\ list.mounted /\ ~list.loading /\ list.detail = NULL /\ MayStart
    /\ id \in list.rows \ list.closed
    /\ list' = [list EXCEPT !.openRequestId = id]
    /\ calls' = Append(calls, openCall(id, FALSE))
    /\ UNCHANGED <<navVars, served, inbox>>

closeItem ==
    /\ list.detail # NULL
    /\ list' = [list EXCEPT !.openRequestId = NULL, !.detail = NULL]
    /\ UNCHANGED <<navVars, served, inbox, calls>>

\* Claim, Start Work and Complete.  What follows the answer has the tab and the rows of now.
act(to) ==
    /\ list.detail # NULL /\ ~list.busy /\ MayStart
    /\ list.detail.stage = before(to)
    /\ list' = [list EXCEPT !.busy = TRUE]
    /\ calls' = Append(calls, [blank EXCEPT !.kind = "act", !.id = list.detail.id, !.to = to, !.filter = list.tab,
                                             !.reopens = list.detail.id \notin list.closed])
    /\ UNCHANGED <<navVars, served, inbox>>

Sent(i, kind) == calls[i].kind = kind /\ calls[i].status # NULL /\ ~calls[i].gone

wanted_any(id) == TRUE

\* The request is still the one that was opened last.
wanted(id) == list.openRequestId = id

goesOn_always(id) == TRUE

\* refreshOpen goes on to the request itself if nobody has closed it or opened another.
goesOn(id) == wanted(id)

\* A list has arrived; after an action the request is read again.
loaded(i) ==
    LET c == calls[i]
        again == c.status = "ok" /\ c.then /\ goesOn(c.id) /\ c.reopens
    IN  /\ Sent(i, "load")
        /\ list' = [list EXCEPT !.loading = FALSE,
                                !.rows = IF c.status = "ok" THEN c.rows ELSE @,
                                !.closed = IF c.status = "ok" THEN c.marked ELSE @,
                                !.busy = @ /\ (c.then => again),
                                !.openRequestId = IF again THEN c.id ELSE @]
        /\ calls' = IF again THEN Append(Without(i), openCall(c.id, TRUE)) ELSE Without(i)
        /\ UNCHANGED <<navVars, served, inbox>>

itemOpened(i) ==
    LET c == calls[i]
    IN  /\ Sent(i, "open")
        /\ list' = [list EXCEPT !.detail = IF c.status = "ok" /\ wanted(c.id)
                                           THEN [id |-> c.id, stage |-> c.seen] ELSE @,
                                !.busy = @ /\ ~c.then]
        /\ calls' = Without(i)
        /\ UNCHANGED <<navVars, served, inbox>>

acted_staysBusy(i) ==
    LET c == calls[i]
    IN  /\ Sent(i, "act")
        /\ list' = [list EXCEPT !.loading = c.status = "ok"]
        /\ calls' = IF c.status = "ok" THEN Append(Without(i), refreshCall(c)) ELSE Without(i)
        /\ UNCHANGED <<navVars, served, inbox>>

acted(i) ==
    LET c == calls[i]
    IN  /\ Sent(i, "act")
        /\ IF c.status = "ok"
           THEN /\ list' = [list EXCEPT !.loading = TRUE]
                /\ calls' = Append(Without(i), refreshCall(c))
           ELSE /\ list' = [list EXCEPT !.busy = FALSE]
                /\ calls' = Without(i)
        /\ UNCHANGED <<navVars, served, inbox>>

-----------------------------------------------------------------------------
\* ApprovalInbox.

\* By the filter, or by an address with another query.
setStatus(status) ==
    /\ inbox.mounted /\ inbox.status # status /\ MayStart
    /\ inbox' = [inbox EXCEPT !.status = status, !.loading = TRUE]
    /\ calls' = Append(cancel(calls, "inbox"), inboxCall(status))
    /\ UNCHANGED <<navVars, served, list>>

deselect_lateHistory(cs) == cs

\* The history of a request that is no longer the selected one is not waited for.
deselect(cs) == cancel(cs, "history")

selectItem(id) ==
    /\ inbox.mounted /\ ~inbox.loading /\ selected = NULL /\ MayStart
    /\ id \in inbox.items
    /\ inbox' = [inbox EXCEPT !.selectedId = id]
    /\ calls' = Append(deselect(calls), [blank EXCEPT !.kind = "history", !.id = id])
    /\ UNCHANGED <<navVars, served, list>>

closeInboxItem ==
    /\ selected # NULL
    /\ inbox' = [inbox EXCEPT !.selectedId = NULL, !.history = NULL]
    /\ calls' = deselect(calls)
    /\ UNCHANGED <<navVars, served, list>>

onDecide(to) ==
    /\ selected # NULL /\ selected \in inbox.pending /\ ~inbox.busy /\ MayStart
    /\ to \in {"open", "denied"}
    /\ inbox' = [inbox EXCEPT !.busy = TRUE]
    /\ calls' = Append(calls, [blank EXCEPT !.kind = "decide", !.id = selected, !.to = to])
    /\ UNCHANGED <<navVars, served, list>>

inboxLoaded(i) ==
    LET c == calls[i]
    IN  /\ Sent(i, "inbox")
        /\ inbox' = IF c.cancelled THEN inbox
                    ELSE IF c.status = "failed" THEN [inbox EXCEPT !.loading = FALSE]
                    ELSE [inbox EXCEPT !.loading = FALSE, !.items = c.rows,
                                       !.pending = c.marked]
        /\ calls' = Without(i)
        /\ UNCHANGED <<navVars, served, list>>

\* A decision is followed by the list of the status that is chosen by then.
decided(i) ==
    LET c == calls[i]
    IN  /\ Sent(i, "decide")
        /\ IF c.status = "ok"
           THEN /\ inbox' = inbox
                /\ calls' = Append(Without(i), [inboxCall(inbox.status) EXCEPT !.kind = "inboxAgain"])
           ELSE /\ inbox' = [inbox EXCEPT !.busy = FALSE]
                /\ calls' = Without(i)
        /\ UNCHANGED <<navVars, served, list>>

inboxRefreshed(i) ==
    LET c == calls[i]
        keeps == c.status = "failed" \/ inbox.selectedId \in c.rows
    IN  /\ Sent(i, "inboxAgain")
        /\ inbox' = [inbox EXCEPT !.busy = FALSE,
                                  !.items = IF c.status = "ok" THEN c.rows ELSE @,
                                  !.pending = IF c.status = "ok" THEN c.marked ELSE @,
                                  !.selectedId = IF keeps THEN @ ELSE NULL,
                                  !.history = IF keeps THEN @ ELSE NULL]
        /\ calls' = IF keeps THEN Without(i) ELSE deselect(Without(i))
        /\ UNCHANGED <<navVars, served, list>>

historyArrived(i) ==
    LET c == calls[i]
    IN  /\ Sent(i, "history")
        /\ inbox' = [inbox EXCEPT !.history = IF c.cancelled THEN @ ELSE IF c.status = "ok" THEN c.id ELSE NULL]
        /\ calls' = Without(i)
        /\ UNCHANGED <<navVars, served, list>>

Arrive(i) ==
    loaded(i) \/ itemOpened(i) \/ acted(i) \/ inboxLoaded(i) \/ decided(i) \/ inboxRefreshed(i) \/ historyArrived(i)

\* The answer to a page that has been left.
Forgotten(i) ==
    /\ calls[i].gone /\ calls[i].status # NULL
    /\ calls' = Without(i)
    /\ UNCHANGED <<navVars, served, list, inbox>>

-----------------------------------------------------------------------------
\* The server answers, in any order.

answered(i, rows, marked, seen) ==
    calls' = [calls EXCEPT ![i] = [@ EXCEPT !.status = "ok", !.rows = rows, !.marked = marked, !.seen = seen]]

refused(i) == calls' = [calls EXCEPT ![i].status = "failed"]

read(i) ==
    LET c == calls[i]
        who == nav.user
    IN  /\ CASE c.kind = "load" ->
                    LET rows == {r \in Requests : listed(c.filter, r)}
                    IN  answered(i, rows, {r \in rows : ~canOpen(who, r)}, NULL)
             [] c.kind \in {"inbox", "inboxAgain"} ->
                    LET rows == {r \in Requests : inboxListed(who, c.filter, r)}
                    IN  answered(i, rows, {r \in rows : served[r].stage = "pending"}, NULL)
             [] c.kind = "open" -> IF canOpen(who, c.id) THEN answered(i, {}, {}, served[c.id].stage) ELSE refused(i)
             [] c.kind = "history" -> answered(i, {}, {}, NULL)
        /\ UNCHANGED served

write(i) ==
    LET c == calls[i]
    IN  IF served[c.id].stage = before(c.to)
        THEN served' = [served EXCEPT ![c.id].stage = c.to] /\ answered(i, {}, {}, NULL)
        ELSE refused(i) /\ UNCHANGED served

serve(i) ==
    /\ calls[i].status = NULL
    /\ IF calls[i].kind \in {"act", "decide"} THEN write(i) ELSE read(i)
    /\ UNCHANGED <<navVars, list, inbox>>

\* A call is lost on its way to the server.
fail(i) ==
    /\ calls[i].status = NULL
    /\ refused(i)
    /\ UNCHANGED <<navVars, served, list, inbox>>

\* Another approver decides, another handler claims.
elsewhere(r) ==
    /\ nav.user # NULL
    /\ \E s \in {"open", "denied", "others"} :
          /\ served[r].stage = IF s = "others" THEN "open" ELSE "pending"
          /\ served' = [served EXCEPT ![r].stage = s]
    /\ UNCHANGED <<navVars, list, inbox, calls>>

-----------------------------------------------------------------------------
Init ==
    /\ NavInit
    /\ served \in Found(NULL)
    /\ list = noList /\ inbox = noInbox /\ calls = <<>>

Next ==
    \/ Navigate
    \/ \E tab \in ShownTabs : selectTab(tab)
    \/ onSearch
    \/ \E r \in Requests : openItem(r) \/ selectItem(r) \/ elsewhere(r)
    \/ closeItem \/ closeInboxItem
    \/ \E to \in Actions : act(to)
    \/ \E status \in Filters : setStatus(status)
    \/ \E to \in {"open", "denied"} : onDecide(to)
    \/ \E i \in DOMAIN calls : Arrive(i) \/ Forgotten(i) \/ serve(i) \/ fail(i)

Spec == Init /\ [][Next]_vars

-----------------------------------------------------------------------------
\* Properties.

\* The overlay of a handler's list shows the request that was opened last, however late the
\* answers about others come.
OverlayIsLastOpened == list.detail # NULL => list.detail.id = list.openRequestId

\* A request that was closed while an action on it was under way is not opened again by the
\* refresh that follows the action: only a row that somebody opens, with a call of its own, is.
ClosedStaysClosed ==
    [][list.openRequestId = NULL /\ list'.openRequestId # NULL => IsPrefix(calls, calls')]_vars

\* The history beside an approval is that of the selected request, or that one is on its way:
\* a late history does not take the place of the one that belongs there.
HistoryIsSelected ==
    inbox.history \in {NULL, inbox.selectedId}
        \/ \E i \in DOMAIN calls : calls[i].kind = "history" /\ calls[i].id = inbox.selectedId /\ ~calls[i].cancelled

\* The calls that an action of the page awaits.
Waited(c) == ~c.gone /\ (c.then \/ c.kind \in {"act", "decide", "inboxAgain"})

\* The buttons of a page come back: while it is busy exactly one call is under way whose
\* answer, good or bad, goes on to the next call or ends the action, and none when it is not.
BusyIsAwaited ==
    LET awaited == {i \in DOMAIN calls : Waited(calls[i])}
    IN  /\ list.busy \/ inbox.busy <=> awaited # {}
        /\ \A i, j \in awaited : i = j
=============================================================================
