----------------------------- MODULE Navigation -----------------------------
(***************************************************************************)
(* Which page the web client shows (App and routing.ts): the address, the  *)
(* entries that Back returns to, and the three pieces of state that App    *)
(* derives from the address when it loads and sets by hand afterwards:     *)
(* view, staffView and formMode.  The queries of lists are left out, but   *)
(* for the form's; so are the forward entries of the browser's history.    *)
(***************************************************************************)
EXTENDS Naturals, Sequences

CONSTANTS
    NULL,
    Visited,        \* bound: the views that a person goes to
    MaxPast         \* bound: entries that Back can return to

VARIABLES
    nav,            \* App's state and the address
    past            \* earlier addresses, the last one first

navVars == <<nav, past>>

ASSUME NavigationAssumption == MaxPast \in Nat

\* Who signs in: a role, and for an employee whether the account can handle.
People == {"SUPER_ADMIN", "DEPARTMENT_ADMIN", "HANDLER", "EMPLOYEE"}

AdminViews == {"dashboard", "employees", "departments", "requests", "my-requests", "approvals", "settings"}
StaffViews == AdminViews \ {"departments"}
Forms == {"create", "intake"}

\* /requests/new and /requests/intake, of an earlier version of the client.
Legacy == {"requests/new", "requests/intake"}

\* admin: the path starts with /admin.  "dashboard" stands for the path without a name, and
\* "unknown" for any other one.
Location == [admin : BOOLEAN, name : AdminViews \cup Legacy \cup {"unknown"}, form : Forms \cup {NULL}]

\* started: the first getMe has been answered.
Nav == [started : BOOLEAN, user : People \cup {NULL}, view : AdminViews \cup {"home"}, staffView : StaffViews,
        formMode : Forms \cup {NULL}, location : Location]

\* NULL, for nobody and nothing, is not one of the names.
ASSUME NameAssumption == NULL \notin People \cup AdminViews \cup Forms \cup {"home", "nothing"}

canActAsHandler(who) == who \in {"DEPARTMENT_ADMIN", "HANDLER"}

-----------------------------------------------------------------------------
\* routing.ts

adminPath(view, form) == [admin |-> TRUE, name |-> view, form |-> form]
staffPath(view, form) == [admin |-> FALSE, name |-> view, form |-> form]

samePathname(l, m) == l.admin = m.admin /\ l.name = m.name

parseAdminView(l) == IF l.admin /\ l.name \in AdminViews THEN l.name ELSE "dashboard"

parseStaffView(l) ==
    IF l.admin THEN "dashboard"
    ELSE IF l.name \in Legacy THEN "my-requests"
    ELSE IF l.name \in StaffViews THEN l.name
    ELSE "dashboard"

viewFromLocation(who, l) == IF who = "SUPER_ADMIN" THEN parseAdminView(l) ELSE "home"

legacyForm(l) == IF l.name = "requests/new" THEN "create" ELSE "intake"

formFromLocation(l) == IF ~l.admin /\ l.name \in Legacy THEN legacyForm(l) ELSE l.form

rewriteLegacyComposePath(l) ==
    IF ~l.admin /\ l.name \in Legacy THEN staffPath("my-requests", legacyForm(l)) ELSE l

\* A query goes with the pathname that it belonged to.
replacePathname(l, path) == IF samePathname(l, path) THEN l ELSE path

syncUrl(n, view) ==
    IF n.user = "SUPER_ADMIN" THEN [n EXCEPT !.location = replacePathname(@, adminPath(view, NULL))] ELSE n

-----------------------------------------------------------------------------
\* What is on the screen.

staffLinks(who) ==
    {"dashboard", "my-requests", "settings"}
        \cup (IF canActAsHandler(who) THEN {"requests"} ELSE {})
        \cup (IF who = "DEPARTMENT_ADMIN" THEN {"approvals", "employees"} ELSE {})

Links(who) == IF who = "SUPER_ADMIN" THEN AdminViews ELSE staffLinks(who)

\* NULL is the sign-in form; "nothing" is a view of another role, for which App renders no page.
shownPage(n) ==
    IF n.user = NULL THEN NULL
    ELSE IF n.user = "SUPER_ADMIN" THEN (IF n.view = "home" THEN "dashboard" ELSE n.view)
    ELSE IF n.staffView \in staffLinks(n.user) THEN n.staffView
    ELSE "nothing"

\* The overlay of the form belongs to My Requests.
shownForm(n) == IF shownPage(n) = "my-requests" THEN n.formMode ELSE NULL

-----------------------------------------------------------------------------
\* Sessions.

\* The effect on user and view.
followUser(old, n) ==
    IF n.user = old.user /\ n.view = old.view THEN n
    ELSE IF n.user = "SUPER_ADMIN" /\ ~n.location.admin
    THEN syncUrl(n, IF n.view = "home" THEN "dashboard" ELSE n.view)
    ELSE IF n.user # NULL /\ n.user # "SUPER_ADMIN" /\ n.location.admin
    THEN [n EXCEPT !.view = "home", !.staffView = "dashboard", !.location = staffPath("dashboard", NULL)]
    ELSE n

\* applySession for a page that was opened with a session.
restored(n, who) ==
    LET view == viewFromLocation(who, n.location)
        staff == parseStaffView(n.location)
        landed == IF who = "SUPER_ADMIN" THEN n.location
                  ELSE replacePathname(rewriteLegacyComposePath(n.location), staffPath(staff, NULL))
        m == [n EXCEPT !.started = TRUE, !.user = who, !.view = view,
                       !.staffView = IF who = "SUPER_ADMIN" THEN @ ELSE staff,
                       !.location = landed, !.formMode = formFromLocation(landed)]
    IN  followUser(n, syncUrl(m, view))

\* A page load, before anything is known about the session.
opened(l) ==
    [started |-> FALSE, user |-> NULL, view |-> "home", staffView |-> parseStaffView(l),
     formMode |-> formFromLocation(l), location |-> l]

restore(who) ==
    /\ ~nav.started
    /\ nav' = restored(nav, who)
    /\ UNCHANGED past

clearAccountWorkspace == [nav EXCEPT !.started = TRUE, !.user = NULL, !.view = "home", !.formMode = NULL]

\* The first getMe is a 401, or the session ends, by its button or by a 401.
signOut ==
    /\ nav.user # NULL \/ ~nav.started
    /\ nav' = clearAccountWorkspace
    /\ UNCHANGED past

signIn(who) ==
    /\ nav.started /\ nav.user = NULL
    /\ nav' = followUser(nav,
                [nav EXCEPT !.user = who, !.formMode = NULL, !.staffView = "dashboard",
                            !.view = IF who = "SUPER_ADMIN" THEN "dashboard" ELSE "home",
                            !.location = IF who = "SUPER_ADMIN" THEN adminPath("dashboard", NULL)
                                         ELSE staffPath("dashboard", NULL)])
    /\ UNCHANGED past

-----------------------------------------------------------------------------
\* Moving about.

\* pushState, unless the address is this one already.
push(n, l) ==
    IF nav.location = l
    THEN nav' = followUser(nav, n) /\ UNCHANGED past
    ELSE /\ Len(past) < MaxPast
         /\ past' = <<nav.location>> \o past
         /\ nav' = followUser(nav, [n EXCEPT !.location = l])

\* The form stays open only on the way to itself.
goTo(view, form) ==
    push([nav EXCEPT !.view = view,
                     !.formMode = IF view = "my-requests" /\ form # NULL THEN @ ELSE NULL],
         adminPath(view, form))

\* A link of the sidebar or a figure of a dashboard.
select(view) ==
    /\ nav.user # NULL
    /\ view \in Links(nav.user) \cap Visited
    /\ IF nav.user = "SUPER_ADMIN"
       THEN goTo(view, NULL)
       ELSE push([nav EXCEPT !.staffView = view, !.formMode = NULL], staffPath(view, NULL))

openForm(mode) ==
    /\ shownPage(nav) \in {"dashboard", "my-requests"} /\ shownForm(nav) = NULL
    /\ IF nav.user = "SUPER_ADMIN"
       THEN push([nav EXCEPT !.formMode = mode, !.view = "my-requests"], adminPath("my-requests", mode))
       ELSE push([nav EXCEPT !.formMode = mode, !.staffView = "my-requests"], staffPath("my-requests", mode))

closeForm_keepsQuery ==
    /\ shownForm(nav) # NULL
    /\ nav' = [nav EXCEPT !.formMode = NULL]
    /\ UNCHANGED past

closeForm ==
    /\ shownForm(nav) # NULL
    /\ nav' = [nav EXCEPT !.formMode = NULL, !.location.form = NULL]
    /\ UNCHANGED past

\* The popstate listener.
back ==
    /\ past # <<>>
    /\ past' = Tail(past)
    /\ LET l == Head(past)
       IN  nav' = followUser(nav, [nav EXCEPT !.location = l, !.view = viewFromLocation(nav.user, l),
                                              !.staffView = parseStaffView(l), !.formMode = formFromLocation(l)])

NavInit ==
    /\ \E l \in Location :
          /\ l.form # NULL => l.name = "my-requests"
          /\ l.name \in Visited \cup Legacy \cup {"unknown"}
          /\ l.admin => l.name \notin Legacy
          /\ nav = opened(l)
    /\ past = <<>>

-----------------------------------------------------------------------------
\* Properties.

\* The address says what is shown: an account that loads the page again at the address it
\* is at, or bookmarks it, gets the same page, with the form open over it or not.
ReloadShowsTheSame ==
    nav.user # NULL =>
        LET again == restored(opened(nav.location), nav.user)
        IN  shownPage(again) = shownPage(nav) /\ shownForm(again) = shownForm(nav)
=============================================================================
