------------------------- MODULE RequestPagesProofs -------------------------
(***************************************************************************)
(* Proofs about Navigation and RequestPages, for any requests, any bounds  *)
(* and any order of answers: the address shows the page again, the overlay *)
(* and its history belong to the request that was opened, and a page that  *)
(* is busy waits for exactly one call.                                     *)
(***************************************************************************)
EXTENDS RequestPages, SequenceTheorems, FiniteSetTheorems, TLAPS

-----------------------------------------------------------------------------
(* Navigation. *)

Staff == People \ {"SUPER_ADMIN"}

\* What App derives from the address when it loads is what it has set by hand: the view of a
\* super-administrator, the staffView of anybody else, and under My Requests the form.
SuperAdminFits(n) ==
    n.user = "SUPER_ADMIN" =>
        /\ n.view = parseAdminView(n.location)
        /\ n.view = "my-requests" => n.formMode = formFromLocation(n.location)

StaffFits(n) ==
    n.user \in Staff =>
        /\ n.view = "home"
        /\ n.staffView = parseStaffView(n.location)
        /\ n.staffView = "my-requests" => n.formMode = formFromLocation(n.location)

\* Nobody is signed in before the first getMe has been answered; an account that is signed in
\* has left the old addresses.
NavFits(n) ==
    /\ ~n.started => n.user = NULL
    /\ n.user # NULL => n.location.name \notin Legacy
    /\ SuperAdminFits(n)
    /\ StaffFits(n)

\* The invariant of the address and the page.
NavIInv ==
    /\ nav \in Nav /\ NavFits(nav)
    /\ past \in Seq(Location) /\ Len(past) <= MaxPast
    /\ \A i \in 1..Len(past) : past[i].name \notin Legacy

\* What the steps of the pages make of the navigation.
NavNext ==
    \/ \E who \in People : restore(who) \/ signIn(who)
    \/ signOut
    \/ \E view \in Visited : select(view)
    \/ \E mode \in Forms : openForm(mode)
    \/ closeForm
    \/ back

\* The parsers and builders of routing.ts give what the state can hold.
LEMMA RoutingTyped ==
    /\ \A l \in Location : parseAdminView(l) \in AdminViews /\ parseStaffView(l) \in StaffViews
    /\ \A l \in Location : formFromLocation(l) \in Forms \cup {NULL}
    /\ \A l \in Location : rewriteLegacyComposePath(l) \in Location
    /\ \A view \in AdminViews, form \in Forms \cup {NULL} :
          adminPath(view, form) \in Location /\ staffPath(view, form) \in Location
    /\ StaffViews \subseteq AdminViews
BY DEF Location, parseAdminView, parseStaffView, formFromLocation, legacyForm, rewriteLegacyComposePath,
       adminPath, staffPath, AdminViews, StaffViews, Legacy, Forms

\* syncUrl moves the address only, and for a super-administrator only.
LEMMA SyncUrl ==
    ASSUME NEW n \in Nav, NEW view \in AdminViews \cup {"home"}, n.user = "SUPER_ADMIN" => view \in AdminViews
    PROVE  LET r == syncUrl(n, view)
           IN  /\ r \in Nav
               /\ \A f \in {"started", "user", "view", "staffView", "formMode"} : r[f] = n[f]
               /\ r.location = IF n.user = "SUPER_ADMIN" THEN replacePathname(n.location, adminPath(view, NULL))
                               ELSE n.location
<1> DEFINE l == replacePathname(n.location, adminPath(view, NULL))
<1>1. n.location \in Location
      BY DEF Nav
<1>2. n.user = "SUPER_ADMIN" => l \in Location
      BY <1>1, RoutingTyped DEF replacePathname
<1>3. syncUrl(n, view) = IF n.user = "SUPER_ADMIN" THEN [n EXCEPT !.location = l] ELSE n
      BY DEF syncUrl
<1> HIDE DEF l
<1>4. n.user = "SUPER_ADMIN" =>
         LET r == [n EXCEPT !.location = l]
         IN  /\ r \in Nav /\ r.location = l
             /\ \A f \in {"started", "user", "view", "staffView", "formMode"} : r[f] = n[f]
      BY <1>2 DEF Nav
<1> QED BY <1>3, <1>4 DEF l

\* The effect on user and view leaves a state that the page could have been in.
LEMMA FollowTyped ==
    ASSUME NEW old, NEW n \in Nav
    PROVE  /\ followUser(old, n) \in Nav
           /\ followUser(old, n).user = n.user
           /\ followUser(old, n).started = n.started
<1> DEFINE view == IF n.view = "home" THEN "dashboard" ELSE n.view
           r == syncUrl(n, view)
           home == [n EXCEPT !.view = "home", !.staffView = "dashboard", !.location = staffPath("dashboard", NULL)]
<1>1. view \in AdminViews
      BY DEF Nav, AdminViews
<1>2. r \in Nav /\ r.user = n.user /\ r.started = n.started
      BY <1>1, SyncUrl
<1>3. staffPath("dashboard", NULL) \in Location
      BY RoutingTyped DEF AdminViews
<1>4. home \in Nav /\ home.user = n.user /\ home.started = n.started
      BY <1>3 DEF Nav, StaffViews, AdminViews
<1>5. followUser(old, n) \in {n, r, home}
      BY DEF followUser
<1> HIDE DEF r, home
<1> QED BY <1>2, <1>4, <1>5

\* The effect on user and view keeps the address in step with what is shown.
LEMMA FollowFits ==
    ASSUME NEW old, NEW n \in Nav, NavFits(n)
    PROVE  NavFits(followUser(old, n))
<1>1. n.view \in AdminViews \cup {"home"} /\ n.location \in Location /\ n.user \in People \cup {NULL}
      BY DEF Nav
<1>2. CASE followUser(old, n) = n
      BY <1>2
<1>3. CASE n.user = "SUPER_ADMIN" /\ ~n.location.admin
  <2> DEFINE view == IF n.view = "home" THEN "dashboard" ELSE n.view
             r == syncUrl(n, view)
  <2>1. n.view = "dashboard" /\ view = "dashboard"
        BY <1>3 DEF NavFits, SuperAdminFits, parseAdminView
  <2>2. view \in AdminViews
        BY <2>1 DEF AdminViews
  <2>3. r.user = n.user /\ r.view = n.view /\ r.started = n.started
        BY <2>2, SyncUrl
  <2>4. r.location = adminPath("dashboard", NULL)
        BY <1>1, <1>3, <2>1, <2>2, SyncUrl DEF replacePathname, samePathname, adminPath, Location
  <2>5. followUser(old, n) = r \/ followUser(old, n) = n
        BY <1>3 DEF followUser
  <2> HIDE DEF r
  <2>6. NavFits(r)
        BY <1>3, <2>1, <2>3, <2>4
        DEF NavFits, SuperAdminFits, StaffFits, Staff, parseAdminView, adminPath, AdminViews, Legacy
  <2> QED BY <2>5, <2>6
<1>4. CASE n.user \notin {NULL, "SUPER_ADMIN"} /\ n.location.admin
  <2> DEFINE r == [n EXCEPT !.view = "home", !.staffView = "dashboard", !.location = staffPath("dashboard", NULL)]
  <2>1. /\ r.user = n.user /\ r.view = "home" /\ r.started = n.started /\ r.staffView = "dashboard"
        /\ r.location = staffPath("dashboard", NULL)
        BY DEF Nav
  <2>2. followUser(old, n) = r \/ followUser(old, n) = n
        BY <1>4 DEF followUser
  <2> HIDE DEF r
  <2>3. NavFits(r)
        BY <1>4, <2>1 DEF NavFits, SuperAdminFits, StaffFits, parseStaffView, staffPath, StaffViews, AdminViews, Legacy
  <2> QED BY <2>2, <2>3
<1> QED BY <1>2, <1>3, <1>4 DEF followUser

\* A page that was opened with a session shows what its address says.
LEMMA RestoredFits ==
    ASSUME NEW n \in Nav, NEW who \in People
    PROVE  LET r == restored(n, who)
           IN  /\ r \in Nav /\ NavFits(r) /\ r.user = who
               /\ who = "SUPER_ADMIN" =>
                     /\ parseAdminView(r.location) = parseAdminView(n.location)
                     /\ parseAdminView(n.location) = "my-requests" =>
                           formFromLocation(r.location) = formFromLocation(n.location)
               /\ who # "SUPER_ADMIN" =>
                     /\ parseStaffView(r.location) = parseStaffView(n.location)
                     /\ parseStaffView(n.location) = "my-requests" =>
                           formFromLocation(r.location) = formFromLocation(n.location)
<1> DEFINE view == viewFromLocation(who, n.location)
           staff == parseStaffView(n.location)
           landed == IF who = "SUPER_ADMIN" THEN n.location
                     ELSE replacePathname(rewriteLegacyComposePath(n.location), staffPath(staff, NULL))
           m == [n EXCEPT !.started = TRUE, !.user = who, !.view = view,
                          !.staffView = IF who = "SUPER_ADMIN" THEN @ ELSE staff,
                          !.location = landed, !.formMode = formFromLocation(landed)]
           s == syncUrl(m, view)
<1>1. restored(n, who) = followUser(n, s)
      BY DEF restored
<1>2. n.location \in Location
      BY DEF Nav
<1>3. view \in AdminViews \cup {"home"} /\ staff \in StaffViews /\ (who = "SUPER_ADMIN" => view \in AdminViews)
      BY <1>2, RoutingTyped DEF viewFromLocation
<1>4. landed \in Location
      BY <1>2, <1>3, RoutingTyped DEF replacePathname
<1>5. m \in Nav
      BY <1>3, <1>4, RoutingTyped DEF Nav
<1>6. /\ m.started /\ m.user = who /\ m.view = view /\ (who # "SUPER_ADMIN" => m.staffView = staff)
      /\ m.location = landed /\ m.formMode = formFromLocation(landed)
      BY DEF Nav
<1>7. who # "SUPER_ADMIN" => landed.name \notin Legacy /\ parseStaffView(landed) = staff
      BY <1>2, <1>3
      DEF replacePathname, samePathname, rewriteLegacyComposePath, staffPath, parseStaffView, Location,
          AdminViews, StaffViews, Legacy
<1> HIDE DEF m
<1>8. /\ s \in Nav /\ s.started /\ s.user = who /\ s.view = view /\ (who # "SUPER_ADMIN" => s.staffView = staff)
      /\ s.formMode = formFromLocation(landed)
      /\ s.location = IF who = "SUPER_ADMIN" THEN replacePathname(landed, adminPath(view, NULL)) ELSE landed
      BY <1>3, <1>5, <1>6, SyncUrl
<1> HIDE DEF s
<1>9. NavFits(s)
  <2>1. CASE who = "SUPER_ADMIN"
    <3>1. view = parseAdminView(n.location) /\ landed = n.location
          BY <2>1 DEF viewFromLocation
    <3>2. CASE n.location.admin /\ n.location.name = view
          BY <2>1, <3>1, <3>2, <1>2, <1>3, <1>8
          DEF NavFits, SuperAdminFits, StaffFits, Staff, replacePathname, samePathname, adminPath, AdminViews, Legacy
    <3>3. CASE ~(n.location.admin /\ n.location.name = view)
      <4>1. view = "dashboard"
            BY <3>1, <3>3, <1>2 DEF parseAdminView
      <4>2. s.location = adminPath("dashboard", NULL)
            BY <2>1, <3>1, <3>3, <4>1, <1>2, <1>8 DEF replacePathname, samePathname, adminPath, Location
      <4> QED BY <2>1, <4>1, <4>2, <1>8
              DEF NavFits, SuperAdminFits, StaffFits, Staff, adminPath, parseAdminView, AdminViews, Legacy
    <3> QED BY <3>2, <3>3
  <2>2. CASE who # "SUPER_ADMIN"
    <3>1. view = "home"
          BY <2>2 DEF viewFromLocation
    <3> HIDE DEF landed, staff
    <3> QED BY <2>2, <3>1, <1>7, <1>8, NameAssumption DEF NavFits, SuperAdminFits, StaffFits
  <2> QED BY <2>1, <2>2
<1>10. (who = "SUPER_ADMIN" => s.location.admin) /\ (who # "SUPER_ADMIN" => ~s.location.admin)
  <2>1. landed.admin \in BOOLEAN /\ (who # "SUPER_ADMIN" => ~landed.admin)
        BY <1>2, <1>3, <1>4
        DEF replacePathname, samePathname, rewriteLegacyComposePath, staffPath, Location
  <2> HIDE DEF landed, view
  <2>2. who # "SUPER_ADMIN" => ~s.location.admin
        BY <1>8, <2>1
  <2>3. who = "SUPER_ADMIN" => (s.location = landed /\ landed.admin = TRUE) \/ s.location = adminPath(view, NULL)
        BY <1>8 DEF replacePathname, samePathname, adminPath
  <2> QED BY <2>2, <2>3 DEF adminPath
<1>11. restored(n, who) = s
      BY <1>1, <1>8, <1>10 DEF followUser
<1>12. who = "SUPER_ADMIN" =>
          /\ parseAdminView(s.location) = parseAdminView(n.location)
          /\ parseAdminView(n.location) = "my-requests" => s.location = n.location
  <2> SUFFICES ASSUME who = "SUPER_ADMIN"
               PROVE  /\ parseAdminView(s.location) = parseAdminView(n.location)
                      /\ parseAdminView(n.location) = "my-requests" => s.location = n.location
      OBVIOUS
  <2>1. landed = n.location /\ view = parseAdminView(n.location) /\ view \in AdminViews
        BY <1>3 DEF viewFromLocation
  <2>2. s.location = replacePathname(n.location, adminPath(view, NULL))
        BY <1>8, <2>1
  <2> HIDE DEF landed, view
  <2>3. parseAdminView(adminPath(view, NULL)) = view
        BY <2>1 DEF parseAdminView, adminPath
  <2>4. s.location = n.location \/ s.location = adminPath(view, NULL)
        BY <2>2 DEF replacePathname
  <2>5. view = "my-requests" => s.location = n.location
        BY <1>2, <2>1, <2>2 DEF replacePathname, samePathname, adminPath, parseAdminView, Location
  <2> QED BY <2>1, <2>3, <2>4, <2>5
<1>13. who # "SUPER_ADMIN" /\ staff = "my-requests" => formFromLocation(landed) = formFromLocation(n.location)
  <2>1. ASSUME who # "SUPER_ADMIN", staff = "my-requests"
        PROVE  landed = rewriteLegacyComposePath(n.location)
        BY <2>1, <1>2
        DEF replacePathname, samePathname, rewriteLegacyComposePath, staffPath, parseStaffView, Location
  <2> QED BY <1>2, <2>1 DEF rewriteLegacyComposePath, formFromLocation, legacyForm, staffPath, Legacy
<1> QED BY <1>7, <1>8, <1>9, <1>11, <1>12, <1>13

\* A pushed entry is an address that was left, and the new one is what is shown.
LEMMA PushFits ==
    ASSUME NavIInv, NEW n \in Nav, NEW l \in Location, n.location = nav.location, nav.user # NULL,
           n.user = nav.user, NavFits([n EXCEPT !.location = l]), push(n, l)
    PROVE  NavIInv' /\ nav'.user = nav.user
<1> DEFINE moved == [n EXCEPT !.location = l]
<1>1. moved \in Nav /\ moved.user = nav.user /\ (nav.location = l => n = moved)
      BY DEF Nav
<1>2. nav' = followUser(nav, moved)
      BY <1>1 DEF push
<1>3. nav' \in Nav /\ NavFits(nav') /\ nav'.user = nav.user
  <2>1. NavFits(moved)
        OBVIOUS
  <2> HIDE DEF moved
  <2> QED BY <1>1, <1>2, <2>1, FollowTyped, FollowFits
<1>4. CASE past' = past
      BY <1>3, <1>4 DEF NavIInv
<1>5. CASE Len(past) < MaxPast /\ past' = <<nav.location>> \o past
  <2>1. nav.location \in Location /\ nav.location.name \notin Legacy
        BY DEF NavIInv, NavFits, Nav
  <2>2. <<nav.location>> \in Seq(Location) /\ Len(<<nav.location>>) = 1 /\ <<nav.location>>[1] = nav.location
        BY <2>1
  <2>3. past \in Seq(Location) /\ Len(past) \in Nat
        BY LenProperties DEF NavIInv
  <2>4. /\ past' \in Seq(Location) /\ Len(past') = 1 + Len(past)
        /\ \A i \in 1..(1 + Len(past)) : past'[i] = IF i <= 1 THEN nav.location ELSE past[i - 1]
        BY <1>5, <2>2, <2>3, ConcatProperties
  <2>5. ASSUME NEW i \in 1..Len(past')
        PROVE  past'[i].name \notin Legacy
    <3>1. i = 1 \/ i - 1 \in 1..Len(past)
          BY <2>3, <2>4
    <3> QED BY <2>1, <2>3, <2>4, <3>1 DEF NavIInv
  <2> QED BY <1>3, <1>5, <2>3, <2>4, <2>5, NavigationAssumption DEF NavIInv
<1> QED BY <1>4, <1>5 DEF push

\* A step of the navigation keeps the address in step with what is shown.
LEMMA NavStep ==
    ASSUME NavIInv, NavNext
    PROVE  /\ NavIInv'
           /\ nav.user # NULL /\ nav'.user # NULL => nav'.user = nav.user
<1>0. /\ nav \in Nav /\ NavFits(nav) /\ past \in Seq(Location) /\ nav.location \in Location
      /\ nav.user \in People \cup {NULL}
      BY DEF NavIInv, Nav
<1>1. CASE \E who \in People : restore(who)
  <2>1. PICK who \in People : restore(who)
        BY <1>1
  <2>2. nav' \in Nav /\ NavFits(nav') /\ UNCHANGED past
        BY <1>0, <2>1, RestoredFits DEF restore
  <2> QED BY <2>1, <2>2, <1>0 DEF NavIInv, restore, NavFits
<1>2. CASE \E who \in People : signIn(who)
  <2>1. PICK who \in People : signIn(who)
        BY <1>2
  <2> DEFINE l == IF who = "SUPER_ADMIN" THEN adminPath("dashboard", NULL) ELSE staffPath("dashboard", NULL)
             n == [nav EXCEPT !.user = who, !.formMode = NULL, !.staffView = "dashboard",
                              !.view = IF who = "SUPER_ADMIN" THEN "dashboard" ELSE "home", !.location = l]
  <2>2. l \in Location /\ l.name = "dashboard" /\ l.admin = (who = "SUPER_ADMIN")
        BY RoutingTyped DEF AdminViews, adminPath, staffPath
  <2>3. nav' = followUser(nav, n) /\ nav.started /\ nav.user = NULL /\ UNCHANGED past
        BY <2>1 DEF signIn
  <2> HIDE DEF l
  <2>4. /\ n \in Nav /\ n.started /\ n.user = who /\ n.staffView = "dashboard" /\ n.location = l
        /\ n.view = IF who = "SUPER_ADMIN" THEN "dashboard" ELSE "home"
        BY <1>0, <2>2, <2>3 DEF Nav, AdminViews, StaffViews
  <2> HIDE DEF n
  <2>5. NavFits(n)
        BY <2>2, <2>4
        DEF NavFits, SuperAdminFits, StaffFits, Staff, parseAdminView, parseStaffView, Legacy, AdminViews, StaffViews
  <2> QED BY <1>0, <2>3, <2>4, <2>5, FollowTyped, FollowFits DEF NavIInv
<1>3. CASE signOut
  <2>1. /\ nav' \in Nav /\ nav'.user = NULL /\ nav'.started /\ UNCHANGED past
        BY <1>0, <1>3 DEF signOut, clearAccountWorkspace, Nav
  <2> QED BY <1>0, <2>1, NameAssumption DEF NavIInv, NavFits, SuperAdminFits, StaffFits, Staff, People
<1>4. CASE \E view \in Visited : select(view)
  <2>1. PICK view \in Visited : select(view)
        BY <1>4
  <2>2. nav.user # NULL /\ view \in Links(nav.user)
        BY <2>1 DEF select
  <2>3. CASE nav.user = "SUPER_ADMIN"
    <3> DEFINE l == adminPath(view, NULL)
               n == [nav EXCEPT !.view = view, !.formMode = NULL]
    <3>1. view \in AdminViews /\ l \in Location
          BY <2>2, <2>3, RoutingTyped DEF Links
    <3>2. push(n, l)
          BY <2>1, <2>3 DEF select, goTo
    <3>3. n \in Nav /\ n.location = nav.location /\ n.user = nav.user
          BY <1>0, <3>1 DEF Nav
    <3>4. NavFits([n EXCEPT !.location = l])
      <4> DEFINE m == [n EXCEPT !.location = l]
      <4>1. /\ m.started = nav.started /\ m.user = nav.user /\ m.view = view /\ m.formMode = NULL /\ m.location = l
            BY <1>0 DEF Nav
      <4> HIDE DEF m
      <4> QED BY <1>0, <2>2, <2>3, <3>1, <4>1
              DEF NavFits, SuperAdminFits, StaffFits, Staff, adminPath, parseAdminView, formFromLocation, AdminViews, Legacy
    <3> HIDE DEF n, l
    <3> QED BY <2>2, <3>1, <3>2, <3>3, <3>4, PushFits
  <2>4. CASE nav.user # "SUPER_ADMIN"
    <3> DEFINE l == staffPath(view, NULL)
               n == [nav EXCEPT !.staffView = view, !.formMode = NULL]
    <3>1. view \in StaffViews /\ l \in Location
          BY <2>2, <2>4, RoutingTyped DEF Links, staffLinks, StaffViews, AdminViews
    <3>2. push(n, l)
          BY <2>1, <2>4 DEF select
    <3>3. n \in Nav /\ n.location = nav.location /\ n.user = nav.user
          BY <1>0, <3>1 DEF Nav
    <3>4. NavFits([n EXCEPT !.location = l])
      <4> DEFINE m == [n EXCEPT !.location = l]
      <4>1. /\ m.started = nav.started /\ m.user = nav.user /\ m.view = nav.view /\ m.staffView = view
            /\ m.formMode = NULL /\ m.location = l
            BY <1>0 DEF Nav
      <4> HIDE DEF m
      <4> QED BY <1>0, <2>2, <2>4, <3>1, <4>1
              DEF NavFits, SuperAdminFits, StaffFits, Staff, staffPath, parseStaffView, formFromLocation, AdminViews,
                  StaffViews, Legacy
    <3> HIDE DEF n, l
    <3> QED BY <2>2, <3>1, <3>2, <3>3, <3>4, PushFits
  <2> QED BY <2>3, <2>4
<1>5. CASE \E mode \in Forms : openForm(mode)
  <2>1. PICK mode \in Forms : openForm(mode)
        BY <1>5
  <2>2. nav.user # NULL
        BY <2>1, NameAssumption DEF openForm, shownPage, AdminViews
  <2>3. CASE nav.user = "SUPER_ADMIN"
    <3> DEFINE l == adminPath("my-requests", mode)
               n == [nav EXCEPT !.formMode = mode, !.view = "my-requests"]
    <3>1. l \in Location
          BY RoutingTyped DEF AdminViews
    <3>2. push(n, l)
          BY <2>1, <2>3 DEF openForm
    <3>3. n \in Nav /\ n.location = nav.location /\ n.user = nav.user
          BY <1>0 DEF Nav, AdminViews
    <3>4. NavFits([n EXCEPT !.location = l])
      <4> DEFINE m == [n EXCEPT !.location = l]
      <4>1. /\ m.started = nav.started /\ m.user = nav.user /\ m.view = "my-requests" /\ m.formMode = mode /\ m.location = l
            BY <1>0 DEF Nav
      <4> HIDE DEF m
      <4> QED BY <1>0, <2>2, <2>3, <3>1, <4>1
              DEF NavFits, SuperAdminFits, StaffFits, Staff, adminPath, parseAdminView, formFromLocation, AdminViews, Legacy
    <3> HIDE DEF n, l
    <3> QED BY <2>2, <3>1, <3>2, <3>3, <3>4, PushFits
  <2>4. CASE nav.user # "SUPER_ADMIN"
    <3> DEFINE l == staffPath("my-requests", mode)
               n == [nav EXCEPT !.formMode = mode, !.staffView = "my-requests"]
    <3>1. l \in Location
          BY RoutingTyped DEF AdminViews
    <3>2. push(n, l)
          BY <2>1, <2>4 DEF openForm
    <3>3. n \in Nav /\ n.location = nav.location /\ n.user = nav.user
          BY <1>0 DEF Nav, StaffViews, AdminViews
    <3>4. NavFits([n EXCEPT !.location = l])
      <4> DEFINE m == [n EXCEPT !.location = l]
      <4>1. /\ m.started = nav.started /\ m.user = nav.user /\ m.view = nav.view /\ m.staffView = "my-requests"
            /\ m.formMode = mode /\ m.location = l
            BY <1>0 DEF Nav
      <4> HIDE DEF m
      <4> QED BY <1>0, <2>2, <2>4, <3>1, <4>1
              DEF NavFits, SuperAdminFits, StaffFits, Staff, staffPath, parseStaffView, formFromLocation, AdminViews,
                  StaffViews, Legacy
    <3> HIDE DEF n, l
    <3> QED BY <2>2, <3>1, <3>2, <3>3, <3>4, PushFits
  <2> QED BY <2>3, <2>4
<1>6. CASE closeForm
  <2> DEFINE n == [nav EXCEPT !.formMode = NULL, !.location.form = NULL]
  <2>1. nav.user # NULL
        BY <1>6, NameAssumption DEF closeForm, shownForm, shownPage, AdminViews
  <2>2. /\ n \in Nav /\ n.started = nav.started /\ n.user = nav.user /\ n.view = nav.view /\ n.staffView = nav.staffView
        /\ n.formMode = NULL /\ n.location.form = NULL
        /\ n.location.name = nav.location.name /\ n.location.admin = nav.location.admin
        BY <1>0 DEF Nav, Location
  <2>3. nav' = n /\ UNCHANGED past
        BY <1>6 DEF closeForm
  <2> HIDE DEF n
  <2>4. NavFits(n)
        BY <1>0, <2>1, <2>2
        DEF NavFits, SuperAdminFits, StaffFits, Staff, parseAdminView, parseStaffView, formFromLocation
  <2> QED BY <1>0, <2>2, <2>3, <2>4 DEF NavIInv
<1>7. CASE back
  <2> DEFINE l == Head(past)
             n == [nav EXCEPT !.location = l, !.view = viewFromLocation(nav.user, l),
                              !.staffView = parseStaffView(l), !.formMode = formFromLocation(l)]
  <2>1. /\ nav' = followUser(nav, n) /\ past' = Tail(past) /\ past # <<>>
        BY <1>7 DEF back
  <2>2. /\ l \in Location /\ l.name \notin Legacy /\ l = past[1]
        BY <1>0, <2>1, HeadTailProperties, EmptySeq, LenProperties DEF NavIInv
  <2> HIDE DEF l
  <2>3. /\ n \in Nav /\ n.started = nav.started /\ n.user = nav.user /\ n.view = viewFromLocation(nav.user, l)
        /\ n.staffView = parseStaffView(l) /\ n.formMode = formFromLocation(l) /\ n.location = l
        BY <1>0, <2>2, RoutingTyped DEF Nav, viewFromLocation
  <2> HIDE DEF n
  <2>4. NavFits(n)
        BY <1>0, <2>2, <2>3 DEF NavFits, SuperAdminFits, StaffFits, Staff, viewFromLocation
  <2>5. /\ past' \in Seq(Location) /\ Len(past') = Len(past) - 1
        /\ \A i \in 1..Len(past') : past'[i] = past[i + 1]
        BY <1>0, <2>1, HeadTailProperties
  <2>6. Len(past) \in Nat
        BY <1>0, LenProperties
  <2>7. \A i \in 1..Len(past') : past'[i].name \notin Legacy
        BY <2>5, <2>6 DEF NavIInv
  <2> QED BY <2>1, <2>3, <2>4, <2>5, <2>6, <2>7, FollowTyped, FollowFits, NavigationAssumption DEF NavIInv
<1> QED BY <1>1, <1>2, <1>3, <1>4, <1>5, <1>6, <1>7 DEF NavNext

\* A page that is loaded at its own address shows the same page, with the form or without it.
LEMMA ReloadAgrees ==
    ASSUME NavIInv
    PROVE  ReloadShowsTheSame
<1> SUFFICES ASSUME nav.user # NULL
             PROVE  LET again == restored(opened(nav.location), nav.user)
                    IN  shownPage(again) = shownPage(nav) /\ shownForm(again) = shownForm(nav)
    BY DEF ReloadShowsTheSame
<1> DEFINE l == nav.location
           o == opened(l)
           again == restored(o, nav.user)
<1>1. nav \in Nav /\ NavFits(nav) /\ nav.user \in People /\ l \in Location /\ l.name \notin Legacy
      BY DEF NavIInv, Nav, NavFits
<1>2. o \in Nav /\ o.location = l
      BY <1>1, RoutingTyped DEF opened, Nav
<1> HIDE DEF o
<1>3. /\ again \in Nav /\ NavFits(again) /\ again.user = nav.user
      /\ nav.user = "SUPER_ADMIN" =>
            /\ parseAdminView(again.location) = parseAdminView(l)
            /\ parseAdminView(l) = "my-requests" => formFromLocation(again.location) = formFromLocation(l)
      /\ nav.user # "SUPER_ADMIN" =>
            /\ parseStaffView(again.location) = parseStaffView(l)
            /\ parseStaffView(l) = "my-requests" => formFromLocation(again.location) = formFromLocation(l)
      BY <1>1, <1>2, RestoredFits
<1> HIDE DEF again
<1>4. CASE nav.user = "SUPER_ADMIN"
  <2>1. /\ again.view = nav.view
        /\ nav.view = "my-requests" => again.formMode = nav.formMode
        BY <1>1, <1>3, <1>4 DEF NavFits, SuperAdminFits
  <2>2. shownPage(again) = shownPage(nav) /\ (shownPage(nav) = "my-requests" => nav.view = "my-requests")
        BY <1>3, <1>4, <2>1 DEF shownPage
  <2> QED BY <2>1, <2>2 DEF shownForm, o, again
<1>5. CASE nav.user # "SUPER_ADMIN"
  <2>1. /\ again.staffView = nav.staffView
        /\ nav.staffView = "my-requests" => again.formMode = nav.formMode
        BY <1>1, <1>3, <1>5 DEF NavFits, StaffFits, Staff
  <2>2. shownPage(again) = shownPage(nav) /\ (shownPage(nav) = "my-requests" => nav.staffView = "my-requests")
        BY <1>1, <1>3, <1>5, <2>1, NameAssumption DEF shownPage
  <2> QED BY <2>1, <2>2 DEF shownForm, o, again
<1> QED BY <1>4, <1>5

-----------------------------------------------------------------------------
(* Calls in flight. *)

\* What the answer to a call makes use of is there.
CallComplete(c) ==
    /\ c.kind \in {"open", "act", "decide", "history"} \/ c.then => c.id \in Requests
    /\ c.kind \in {"load", "act"} => c.filter \in Tabs
    /\ c.kind \in {"inbox", "inboxAgain"} => c.filter \in Filters
    /\ c.kind \in {"act", "decide"} => c.to # NULL
    /\ c.kind = "open" /\ c.status = "ok" => c.seen \in Stages

GoodCalls == {c \in Call : CallComplete(c)}

\* Only what has been asked of the server outlives its page; the history that is still wanted
\* is that of the selected request; who waits for a list or a request has acted on it.
CallFits(c, handling, deciding, selectedId) ==
    /\ c.gone => c.kind \in {"act", "decide"}
    /\ c.then => c.kind \in {"load", "open"}
    /\ ~c.gone /\ c.kind \in {"load", "open", "act"} => handling
    /\ ~c.gone /\ c.kind \in {"inbox", "history", "decide", "inboxAgain"} => deciding
    /\ c.kind = "history" /\ ~c.cancelled => c.id = selectedId

CallsFit(cs, handling, deciding, selectedId) ==
    \A i \in DOMAIN cs : CallFits(cs[i], handling, deciding, selectedId)

Awaited(cs) == {i \in DOMAIN cs : Waited(cs[i])}

\* The page is busy with exactly one call.
OneAwaited(cs, busy) ==
    /\ busy <=> Awaited(cs) # {}
    /\ \A i, j \in Awaited(cs) : i = j

HistoryFits(cs, history, selectedId) ==
    history \in {NULL, selectedId}
        \/ \E i \in DOMAIN cs : cs[i].kind = "history" /\ cs[i].id = selectedId /\ ~cs[i].cancelled

\* What is left of a sequence without one of its elements.
LEMMA WithoutOne ==
    ASSUME NEW S, NEW s \in Seq(S), NEW i \in 1..Len(s)
    PROVE  /\ RemoveAt(s, i) \in Seq(S)
           /\ Len(RemoveAt(s, i)) = Len(s) - 1
           /\ \A j \in 1..(Len(s) - 1) : RemoveAt(s, i)[j] = IF j < i THEN s[j] ELSE s[j + 1]
<1> DEFINE a == SubSeq(s, 1, i - 1)
           b == SubSeq(s, i + 1, Len(s))
<1>1. Len(s) \in Nat /\ i \in Nat /\ 1 <= i /\ i <= Len(s)
      BY LenProperties
<1>2. \A j \in 1..Len(s) : s[j] \in S
      BY ElementOfSeq
<1>3. a \in Seq(S) /\ Len(a) = i - 1 /\ \A j \in 1..(i - 1) : a[j] = s[j]
  <2>1. \A j \in 1..(i - 1) : s[j] \in S
        BY <1>1, <1>2
  <2>2. /\ a \in Seq(S) /\ Len(a) = (IF 1 <= i - 1 THEN (i - 1) - 1 + 1 ELSE 0)
        /\ \A j \in 1..((i - 1) - 1 + 1) : a[j] = s[1 + j - 1]
        BY <1>1, <2>1, SubSeqProperties
  <2> QED BY <1>1, <2>2
<1>4. b \in Seq(S) /\ Len(b) = Len(s) - i /\ \A j \in 1..(Len(s) - i) : b[j] = s[i + j]
  <2>1. \A j \in (i + 1)..Len(s) : s[j] \in S
        BY <1>1, <1>2
  <2>2. /\ b \in Seq(S) /\ Len(b) = (IF i + 1 <= Len(s) THEN Len(s) - (i + 1) + 1 ELSE 0)
        /\ \A j \in 1..(Len(s) - (i + 1) + 1) : b[j] = s[(i + 1) + j - 1]
        BY <1>1, <2>1, SubSeqProperties
  <2> QED BY <1>1, <2>2
<1>5. RemoveAt(s, i) = a \o b
      BY DEF RemoveAt
<1> HIDE DEF a, b
<1>6. /\ a \o b \in Seq(S) /\ Len(a \o b) = Len(a) + Len(b)
      /\ \A j \in 1..(Len(a) + Len(b)) : (a \o b)[j] = IF j <= Len(a) THEN a[j] ELSE b[j - Len(a)]
      BY <1>3, <1>4, ConcatProperties
<1>7. ASSUME NEW j \in 1..(Len(s) - 1)
      PROVE  (a \o b)[j] = IF j < i THEN s[j] ELSE s[j + 1]
  <2>1. (a \o b)[j] = IF j <= i - 1 THEN a[j] ELSE b[j - (i - 1)]
        BY <1>1, <1>3, <1>4, <1>6
  <2>2. CASE j < i
        BY <1>1, <1>3, <2>1, <2>2
  <2>3. CASE ~(j < i)
    <3>1. j - (i - 1) \in 1..(Len(s) - i) /\ i + (j - (i - 1)) = j + 1
          BY <1>1, <2>3
    <3>2. b[j - (i - 1)] = s[i + (j - (i - 1))]
          BY <1>4, <3>1
    <3> QED BY <1>1, <2>1, <2>3, <3>1, <3>2
  <2> QED BY <2>2, <2>3
<1> QED BY <1>1, <1>3, <1>4, <1>5, <1>6, <1>7

\* Each call that is still there after one has been answered was there before, and the
\* others are all still there.
LEMMA WithoutKeeps ==
    ASSUME NEW S, NEW s \in Seq(S), NEW i \in DOMAIN s
    PROVE  LET t == RemoveAt(s, i)
               was(j) == IF j < i THEN j ELSE j + 1
           IN  /\ t \in Seq(S)
               /\ \A j \in DOMAIN t : was(j) \in DOMAIN s /\ was(j) # i /\ t[j] = s[was(j)]
               /\ \A k \in DOMAIN s \ {i} : \E j \in DOMAIN t : was(j) = k
<1> DEFINE t == RemoveAt(s, i)
           was(j) == IF j < i THEN j ELSE j + 1
<1>1. Len(s) \in Nat /\ DOMAIN s = 1..Len(s)
      BY LenProperties
<1>2. /\ t \in Seq(S) /\ Len(t) = Len(s) - 1
      /\ \A j \in 1..(Len(s) - 1) : t[j] = IF j < i THEN s[j] ELSE s[j + 1]
      BY <1>1, WithoutOne
<1>3. DOMAIN t = 1..(Len(s) - 1)
      BY <1>2, LenProperties
<1> HIDE DEF t
<1>4. ASSUME NEW j \in DOMAIN t
      PROVE  was(j) \in DOMAIN s /\ was(j) # i /\ t[j] = s[was(j)]
      BY <1>1, <1>2, <1>3
<1>5. ASSUME NEW k \in DOMAIN s \ {i}
      PROVE  \E j \in DOMAIN t : was(j) = k
  <2>1. CASE k < i
        BY <1>1, <1>3, <2>1
  <2>2. CASE ~(k < i)
    <3>1. k - 1 \in DOMAIN t /\ was(k - 1) = k
          BY <1>1, <1>3, <2>2
    <3> QED BY <3>1
  <2> QED BY <2>1, <2>2
<1> QED BY <1>2, <1>4, <1>5 DEF t

\* One call more.
LEMMA OneMore ==
    ASSUME NEW S, NEW s \in Seq(S), NEW c \in S
    PROVE  LET t == Append(s, c)
           IN  /\ t \in Seq(S)
               /\ \A j \in DOMAIN t : (j \in DOMAIN s /\ t[j] = s[j]) \/ (j \notin DOMAIN s /\ t[j] = c)
               /\ \A k \in DOMAIN s : k \in DOMAIN t /\ t[k] = s[k]
               /\ \E j \in DOMAIN t : j \notin DOMAIN s /\ t[j] = c
               /\ \A j, k \in DOMAIN t : j \notin DOMAIN s /\ k \notin DOMAIN s => j = k
<1> DEFINE t == Append(s, c)
<1>1. /\ t \in Seq(S) /\ Len(t) = Len(s) + 1
      /\ \A j \in 1..Len(s) : t[j] = s[j]
      /\ t[Len(s) + 1] = c
      BY AppendProperties
<1>2. Len(s) \in Nat /\ DOMAIN s = 1..Len(s) /\ DOMAIN t = 1..(Len(s) + 1)
      BY <1>1, LenProperties
<1> HIDE DEF t
<1>3. Len(s) + 1 \in DOMAIN t /\ Len(s) + 1 \notin DOMAIN s
      BY <1>2
<1>4. \A j \in DOMAIN t : j \in DOMAIN s \/ j = Len(s) + 1
      BY <1>2
<1>5. \A k \in DOMAIN s : k \in DOMAIN t /\ t[k] = s[k]
      BY <1>1, <1>2
<1>6. ASSUME NEW j \in DOMAIN t
      PROVE  (j \in DOMAIN s /\ t[j] = s[j]) \/ (j \notin DOMAIN s /\ t[j] = c)
  <2>1. CASE j \in DOMAIN s
        BY <1>5, <2>1
  <2>2. CASE j = Len(s) + 1
        BY <1>1, <1>3, <2>2
  <2> QED BY <1>4, <2>1, <2>2
<1>7. \A j, k \in DOMAIN t : j \notin DOMAIN s /\ k \notin DOMAIN s => j = k
      BY <1>4
<1> QED BY <1>1, <1>3, <1>5, <1>6, <1>7 DEF t

\* A call that nobody waits for leaves the page as busy as it was.
LEMMA AwaitedOneMore ==
    ASSUME NEW cs \in Seq(GoodCalls), NEW c \in GoodCalls, NEW busy, OneAwaited(cs, busy)
    PROVE  /\ ~Waited(c) => OneAwaited(Append(cs, c), busy)
           /\ Waited(c) /\ ~busy => OneAwaited(Append(cs, c), TRUE)
<1> DEFINE t == Append(cs, c)
<1>1. /\ \A j \in DOMAIN t : (j \in DOMAIN cs /\ t[j] = cs[j]) \/ (j \notin DOMAIN cs /\ t[j] = c)
      /\ \A k \in DOMAIN cs : k \in DOMAIN t /\ t[k] = cs[k]
      /\ \E j \in DOMAIN t : j \notin DOMAIN cs /\ t[j] = c
      /\ \A j, k \in DOMAIN t : j \notin DOMAIN cs /\ k \notin DOMAIN cs => j = k
      BY OneMore
<1> HIDE DEF t
<1>2. ASSUME ~Waited(c)
      PROVE  Awaited(t) = Awaited(cs)
      BY <1>1, <1>2 DEF Awaited
<1>3. ASSUME Waited(c), ~busy
      PROVE  OneAwaited(t, TRUE)
  <2>1. Awaited(cs) = {}
        BY <1>3 DEF OneAwaited
  <2>2. \A j \in Awaited(t) : j \notin DOMAIN cs
        BY <1>1, <2>1 DEF Awaited
  <2>3. Awaited(t) # {}
        BY <1>1, <1>3 DEF Awaited
  <2>4. \A i, j \in Awaited(t) : i = j
        BY <1>1, <2>2 DEF Awaited
  <2> QED BY <2>3, <2>4 DEF OneAwaited
<1>4. ASSUME ~Waited(c)
      PROVE  OneAwaited(t, busy)
      BY <1>2, <1>4 DEF OneAwaited
<1> QED BY <1>3, <1>4 DEF t

\* When the call that the page waits for has been answered, none is left.
LEMMA AwaitedOneLess ==
    ASSUME NEW cs \in Seq(GoodCalls), NEW i \in DOMAIN cs, NEW busy, OneAwaited(cs, busy)
    PROVE  /\ ~Waited(cs[i]) => OneAwaited(RemoveAt(cs, i), busy)
           /\ Waited(cs[i]) => busy /\ OneAwaited(RemoveAt(cs, i), FALSE)
<1> DEFINE t == RemoveAt(cs, i)
           was(j) == IF j < i THEN j ELSE j + 1
<1>1. /\ t \in Seq(GoodCalls)
      /\ \A j \in DOMAIN t : was(j) \in DOMAIN cs /\ was(j) # i /\ t[j] = cs[was(j)]
      /\ \A k \in DOMAIN cs \ {i} : \E j \in DOMAIN t : was(j) = k
      BY WithoutKeeps
<1>2. \A j, k \in DOMAIN t : was(j) = was(k) => j = k
  <2>1. DOMAIN t \subseteq Int /\ DOMAIN cs \subseteq Int
        BY <1>1, LenProperties
  <2> QED BY <2>1
<1> HIDE DEF t, was
<1>3. \A j \in Awaited(t) : was(j) \in Awaited(cs)
      BY <1>1 DEF Awaited
<1>4. ASSUME ~Waited(cs[i])
      PROVE  OneAwaited(t, busy)
  <2>1. Awaited(cs) # {} => Awaited(t) # {}
        BY <1>1, <1>4 DEF Awaited
  <2>2. busy <=> Awaited(t) # {}
        BY <1>3, <2>1 DEF OneAwaited
  <2>3. \A j, k \in Awaited(t) : j \in DOMAIN t /\ k \in DOMAIN t /\ was(j) = was(k)
        BY <1>3 DEF OneAwaited, Awaited
  <2> QED BY <1>2, <2>2, <2>3 DEF OneAwaited
<1>5. ASSUME Waited(cs[i])
      PROVE  busy /\ OneAwaited(t, FALSE)
  <2>1. i \in Awaited(cs)
        BY <1>5 DEF Awaited
  <2>2. Awaited(t) = {}
        BY <1>1, <1>3, <2>1 DEF OneAwaited, Awaited
  <2> QED BY <2>1, <2>2 DEF OneAwaited
<1> QED BY <1>4, <1>5 DEF t

\* A change of the calls, one by one, that leaves alone whether a page waits for each.
LEMMA AwaitedSame ==
    ASSUME NEW cs, NEW ds, NEW busy, OneAwaited(cs, busy), DOMAIN ds = DOMAIN cs,
           \A i \in DOMAIN cs : Waited(ds[i]) <=> Waited(cs[i])
    PROVE  OneAwaited(ds, busy)
<1>1. Awaited(ds) = Awaited(cs)
      BY DEF Awaited
<1> QED BY <1>1 DEF OneAwaited

\* What fits of the calls still does with one less or, when it fits, one more.
LEMMA FitOneMore ==
    ASSUME NEW cs \in Seq(GoodCalls), NEW c \in GoodCalls, NEW h, NEW d, NEW id,
           CallsFit(cs, h, d, id), CallFits(c, h, d, id)
    PROVE  CallsFit(Append(cs, c), h, d, id)
BY OneMore DEF CallsFit

\* A call that has been answered is missed by none of the others.
LEMMA FitOneLess ==
    ASSUME NEW cs \in Seq(GoodCalls), NEW i \in DOMAIN cs, NEW h, NEW d, NEW id,
           CallsFit(cs, h, d, id)
    PROVE  CallsFit(RemoveAt(cs, i), h, d, id)
BY WithoutKeeps DEF CallsFit

\* A history asked for joins those that fit.
LEMMA HistoryOneMore ==
    ASSUME NEW cs \in Seq(GoodCalls), NEW c \in GoodCalls, NEW history, NEW id, HistoryFits(cs, history, id)
    PROVE  HistoryFits(Append(cs, c), history, id)
BY OneMore DEF HistoryFits

\* The history of another selection is missed by nobody.
LEMMA HistoryOneLess ==
    ASSUME NEW cs \in Seq(GoodCalls), NEW i \in DOMAIN cs, NEW history, NEW id, HistoryFits(cs, history, id),
           cs[i].kind # "history" \/ cs[i].cancelled
    PROVE  HistoryFits(RemoveAt(cs, i), history, id)
<1> DEFINE t == RemoveAt(cs, i)
           was(j) == IF j < i THEN j ELSE j + 1
<1>1. /\ \A j \in DOMAIN t : was(j) \in DOMAIN cs /\ was(j) # i /\ t[j] = cs[was(j)]
      /\ \A k \in DOMAIN cs \ {i} : \E j \in DOMAIN t : was(j) = k
      BY WithoutKeeps
<1> HIDE DEF t, was
<1>2. HistoryFits(t, history, id)
  <2>1. CASE history \in {NULL, id}
        BY <2>1 DEF HistoryFits
  <2>2. CASE history \notin {NULL, id}
    <3>1. PICK k \in DOMAIN cs : cs[k].kind = "history" /\ cs[k].id = id /\ ~cs[k].cancelled
          BY <2>2 DEF HistoryFits
    <3>2. PICK j \in DOMAIN t : was(j) = k
          BY <1>1, <3>1
    <3>3. t[j] = cs[k]
          BY <1>1, <3>2
    <3> QED BY <3>1, <3>3 DEF HistoryFits
  <2> QED BY <2>1, <2>2
<1> QED BY <1>2 DEF t

\* All of it, of the calls in flight.
InFlight(cs, handling, deciding, selectedId, history, busy) ==
    /\ cs \in Seq(GoodCalls)
    /\ CallsFit(cs, handling, deciding, selectedId)
    /\ HistoryFits(cs, history, selectedId)
    /\ OneAwaited(cs, busy)

\* A call is sent.
LEMMA SentFits ==
    ASSUME NEW cs, NEW c \in GoodCalls, NEW h, NEW d, NEW id, NEW history, NEW busy,
           InFlight(cs, h, d, id, history, busy), CallFits(c, h, d, id)
    PROVE  /\ ~Waited(c) => InFlight(Append(cs, c), h, d, id, history, busy)
           /\ Waited(c) /\ ~busy => InFlight(Append(cs, c), h, d, id, history, TRUE)
<1>1. /\ cs \in Seq(GoodCalls) /\ CallsFit(cs, h, d, id) /\ HistoryFits(cs, history, id) /\ OneAwaited(cs, busy)
      BY DEF InFlight
<1>2. Append(cs, c) \in Seq(GoodCalls)
      BY <1>1, OneMore
<1>3. CallsFit(Append(cs, c), h, d, id)
      BY <1>1, FitOneMore
<1>4. HistoryFits(Append(cs, c), history, id)
      BY <1>1, HistoryOneMore
<1>5. ~Waited(c) => OneAwaited(Append(cs, c), busy)
      BY <1>1, AwaitedOneMore
<1>6. Waited(c) /\ ~busy => OneAwaited(Append(cs, c), TRUE)
  <2> SUFFICES ASSUME Waited(c), ~busy
               PROVE  OneAwaited(Append(cs, c), TRUE)
      OBVIOUS
  <2>1. OneAwaited(cs, FALSE)
        BY <1>1 DEF OneAwaited
  <2> QED BY <1>1, <2>1, AwaitedOneMore
<1> QED BY <1>2, <1>3, <1>4, <1>5, <1>6 DEF InFlight

\* The answer to a call has been dealt with.
LEMMA AnsweredFits ==
    ASSUME NEW cs, NEW i \in DOMAIN cs, NEW h, NEW d, NEW id, NEW history, NEW busy,
           InFlight(cs, h, d, id, history, busy), cs[i].kind # "history" \/ cs[i].cancelled
    PROVE  /\ ~Waited(cs[i]) => InFlight(RemoveAt(cs, i), h, d, id, history, busy)
           /\ Waited(cs[i]) => busy /\ InFlight(RemoveAt(cs, i), h, d, id, history, FALSE)
<1>1. /\ cs \in Seq(GoodCalls) /\ CallsFit(cs, h, d, id) /\ HistoryFits(cs, history, id) /\ OneAwaited(cs, busy)
      BY DEF InFlight
<1>2. RemoveAt(cs, i) \in Seq(GoodCalls)
      BY <1>1, WithoutKeeps
<1>3. CallsFit(RemoveAt(cs, i), h, d, id)
      BY <1>1, FitOneLess
<1>4. HistoryFits(RemoveAt(cs, i), history, id)
      BY <1>1, HistoryOneLess
<1>5. ~Waited(cs[i]) => OneAwaited(RemoveAt(cs, i), busy)
      BY <1>1, AwaitedOneLess
<1>6. Waited(cs[i]) => busy /\ OneAwaited(RemoveAt(cs, i), FALSE)
      BY <1>1, AwaitedOneLess
<1> QED BY <1>2, <1>3, <1>4, <1>5, <1>6 DEF InFlight

\* A new call carries what its answer makes use of.
LEMMA NewCalls ==
    /\ \A tab \in Tabs : LET c == loadCall(tab) IN c \in GoodCalls /\ c.kind = "load" /\ ~c.then /\ ~c.gone
    /\ \A c \in GoodCalls :
          c.kind = "act" =>
             LET d == refreshCall(c) IN d \in GoodCalls /\ d.kind = "load" /\ d.then /\ ~d.gone
    /\ \A id \in Requests, then \in BOOLEAN :
          LET c == openCall(id, then) IN c \in GoodCalls /\ c.kind = "open" /\ c.then = then /\ ~c.gone
    /\ \A status \in Filters : LET c == inboxCall(status) IN c \in GoodCalls /\ c.kind = "inbox" /\ ~c.then /\ ~c.gone
<1>1. ASSUME NEW tab \in Tabs
      PROVE  LET c == loadCall(tab) IN c \in GoodCalls /\ c.kind = "load" /\ ~c.then /\ ~c.gone
      BY DEF loadCall, blank, GoodCalls, Call, CallComplete, Kinds
<1>2. ASSUME NEW c \in GoodCalls, c.kind = "act"
      PROVE  LET d == refreshCall(c) IN d \in GoodCalls /\ d.kind = "load" /\ d.then /\ ~d.gone
  <2> DEFINE l == loadCall(c.filter)
             d == refreshCall(c)
  <2>1. c.filter \in Tabs /\ c.id \in Requests /\ c.reopens \in BOOLEAN
        BY <1>2 DEF GoodCalls, Call, CallComplete
  <2>2. /\ l \in Call /\ l.kind = "load" /\ ~l.gone /\ l.filter = c.filter
        BY <2>1 DEF loadCall, blank, Call, Kinds
  <2>3. d = [l EXCEPT !.then = TRUE, !.id = c.id, !.reopens = c.reopens]
        BY DEF refreshCall
  <2> HIDE DEF l, d
  <2>4. d \in Call /\ d.kind = "load" /\ d.then /\ ~d.gone /\ d.filter = c.filter /\ d.id = c.id
        BY <2>1, <2>2, <2>3 DEF Call
  <2>5. d \in GoodCalls
        BY <2>1, <2>4 DEF GoodCalls, CallComplete
  <2> QED BY <2>4, <2>5 DEF d
<1>3. ASSUME NEW id \in Requests, NEW then \in BOOLEAN
      PROVE  LET c == openCall(id, then) IN c \in GoodCalls /\ c.kind = "open" /\ c.then = then /\ ~c.gone
  <2> DEFINE c == openCall(id, then)
  <2>1. c \in Call /\ c.kind = "open" /\ c.then = then /\ ~c.gone /\ c.id = id /\ c.status = NULL
        BY DEF openCall, blank, Call, Kinds
  <2> HIDE DEF c
  <2>2. c \in GoodCalls
        BY <2>1, AnswerAssumption DEF GoodCalls, CallComplete
  <2> QED BY <2>1, <2>2 DEF c
<1>4. ASSUME NEW status \in Filters
      PROVE  LET c == inboxCall(status) IN c \in GoodCalls /\ c.kind = "inbox" /\ ~c.then /\ ~c.gone
      BY DEF inboxCall, blank, GoodCalls, Call, CallComplete, Kinds
<1> QED BY <1>1, <1>2, <1>3, <1>4

-----------------------------------------------------------------------------
(* The pages. *)

handlerPage(n) == shownPage(n) = "requests" /\ n.user # "SUPER_ADMIN"

MountFits ==
    /\ list.mounted <=> handlerPage(nav)
    /\ inbox.mounted <=> shownPage(nav) = "approvals"
    /\ list.busy \/ list.detail # NULL => list.mounted
    /\ inbox.busy \/ inbox.items # {} => inbox.mounted

pagesBusy == list.busy \/ inbox.busy

\* The invariant of the pages and their calls.
PagesIInv ==
    /\ NavIInv
    /\ served \in [Requests -> [policy : Captured, stage : Stages]]
    /\ list \in List /\ inbox \in Inbox
    /\ MountFits
    /\ InFlight(calls, list.mounted, inbox.mounted, inbox.selectedId, inbox.history, pagesBusy)
    /\ OverlayIsLastOpened

\* One page is shown at a time.
LEMMA OnePage ==
    ASSUME MountFits
    PROVE  ~(list.mounted /\ inbox.mounted)
BY DEF MountFits, handlerPage

\* What a step of the handlers' page has to leave.
LEMMA HandlerStep ==
    ASSUME PagesIInv, UNCHANGED <<navVars, served, inbox>>, list.mounted,
           list' \in List, list'.mounted, OverlayIsLastOpened',
           InFlight(calls', list.mounted, inbox.mounted, inbox.selectedId, inbox.history, list'.busy)
    PROVE  PagesIInv'
<1>1. list.mounted \in BOOLEAN /\ list'.mounted \in BOOLEAN
      BY DEF PagesIInv, List
<1>2. ~inbox.busy /\ list'.mounted = list.mounted
      BY <1>1, OnePage DEF PagesIInv, MountFits
<1>3. MountFits' /\ NavIInv'
      BY <1>2 DEF PagesIInv, MountFits, NavIInv, handlerPage, navVars
<1>4. OneAwaited(calls', pagesBusy')
      BY <1>2 DEF InFlight, OneAwaited, pagesBusy
<1> QED BY <1>2, <1>3, <1>4 DEF PagesIInv, InFlight

\* What a step of the approval inbox has to leave.
LEMMA InboxStep ==
    ASSUME PagesIInv, UNCHANGED <<navVars, served, list>>, inbox.mounted,
           inbox' \in Inbox, inbox'.mounted,
           InFlight(calls', list.mounted, inbox.mounted, inbox'.selectedId, inbox'.history, inbox'.busy)
    PROVE  PagesIInv'
<1>1. inbox.mounted \in BOOLEAN /\ inbox'.mounted \in BOOLEAN
      BY DEF PagesIInv, Inbox
<1>2. ~list.busy /\ inbox'.mounted = inbox.mounted
      BY <1>1, OnePage DEF PagesIInv, MountFits
<1>3. MountFits' /\ NavIInv'
      BY <1>2 DEF PagesIInv, MountFits, NavIInv, handlerPage, navVars
<1>4. OneAwaited(calls', pagesBusy')
      BY <1>2 DEF InFlight, OneAwaited, pagesBusy
<1> QED BY <1>2, <1>3, <1>4 DEF PagesIInv, OverlayIsLastOpened, InFlight

\* What a page is busy with, seen from that page.
LEMMA OwnCalls ==
    ASSUME PagesIInv
    PROVE  /\ list.mounted =>
                 /\ ~inbox.mounted
                 /\ InFlight(calls, list.mounted, inbox.mounted, inbox.selectedId, inbox.history, list.busy)
           /\ inbox.mounted =>
                 /\ ~list.mounted
                 /\ InFlight(calls, list.mounted, inbox.mounted, inbox.selectedId, inbox.history, inbox.busy)
<1>1. list.mounted => ~inbox.mounted /\ ~inbox.busy
      BY OnePage DEF PagesIInv, MountFits
<1>2. inbox.mounted => ~list.mounted /\ ~list.busy
      BY OnePage DEF PagesIInv, MountFits
<1>3. InFlight(calls, list.mounted, inbox.mounted, inbox.selectedId, inbox.history, pagesBusy)
      BY DEF PagesIInv
<1> QED BY <1>1, <1>2, <1>3 DEF InFlight, OneAwaited, pagesBusy

\* A read for a list: another tab, a search.
LEMMA ListReadStep ==
    ASSUME PagesIInv, UNCHANGED <<navVars, served, inbox>>, list.mounted, NEW tab \in Tabs,
           list' = [list EXCEPT !.tab = tab, !.loading = TRUE], calls' = Append(calls, loadCall(tab))
    PROVE  PagesIInv'
<1> DEFINE c == loadCall(tab)
<1>1. c \in GoodCalls /\ c.kind = "load" /\ ~c.then /\ ~c.gone
      BY NewCalls
<1> HIDE DEF c
<1>2. /\ list' \in List /\ list'.mounted /\ list'.busy = list.busy
      /\ list'.detail = list.detail /\ list'.openRequestId = list.openRequestId
      BY DEF PagesIInv, List
<1>3. CallFits(c, list.mounted, inbox.mounted, inbox.selectedId) /\ ~Waited(c)
      BY <1>1 DEF CallFits, Waited
<1>4. InFlight(calls', list.mounted, inbox.mounted, inbox.selectedId, inbox.history, list'.busy)
      BY <1>1, <1>2, <1>3, OwnCalls, SentFits DEF c
<1> QED BY <1>2, <1>4, HandlerStep DEF PagesIInv, OverlayIsLastOpened

\* A row is opened.
LEMMA OpenItemStep ==
    ASSUME PagesIInv, NEW id, openItem(id)
    PROVE  PagesIInv'
<1> DEFINE c == openCall(id, FALSE)
<1>1. list.mounted /\ list.detail = NULL /\ id \in Requests /\ list \in List
      BY DEF openItem, PagesIInv, List
<1>2. c \in GoodCalls /\ c.kind = "open" /\ ~c.then /\ ~c.gone
      BY <1>1, NewCalls
<1>3. list' = [list EXCEPT !.openRequestId = id] /\ calls' = Append(calls, c) /\ UNCHANGED <<navVars, served, inbox>>
      BY DEF openItem
<1> HIDE DEF c
<1>4. list' \in List /\ list'.mounted /\ list'.busy = list.busy /\ list'.detail = NULL
      BY <1>1, <1>3 DEF List
<1>5. CallFits(c, list.mounted, inbox.mounted, inbox.selectedId) /\ ~Waited(c)
      BY <1>1, <1>2 DEF CallFits, Waited
<1>6. InFlight(calls', list.mounted, inbox.mounted, inbox.selectedId, inbox.history, list'.busy)
      BY <1>1, <1>2, <1>3, <1>4, <1>5, OwnCalls, SentFits
<1> QED BY <1>1, <1>3, <1>4, <1>6, HandlerStep DEF OverlayIsLastOpened

\* The overlay is closed: only an open page has one.
LEMMA CloseItemStep ==
    ASSUME PagesIInv, closeItem
    PROVE  PagesIInv'
<1>1. list' = [list EXCEPT !.openRequestId = NULL, !.detail = NULL] /\ UNCHANGED <<navVars, served, inbox, calls>>
      BY DEF closeItem
<1>2. list \in List
      BY DEF PagesIInv
<1>3. list' \in List /\ list'.mounted = list.mounted /\ list'.busy = list.busy /\ list'.detail = NULL
      BY <1>1, <1>2 DEF List
<1>4. MountFits' /\ NavIInv' /\ pagesBusy' = pagesBusy /\ OverlayIsLastOpened'
      BY <1>1, <1>3 DEF PagesIInv, MountFits, NavIInv, handlerPage, navVars, pagesBusy, OverlayIsLastOpened
<1> QED BY <1>1, <1>3, <1>4 DEF PagesIInv

\* Claim, Start Work, Complete.
LEMMA ActStep ==
    ASSUME PagesIInv, NEW to \in Actions, act(to)
    PROVE  PagesIInv'
<1> DEFINE c == [blank EXCEPT !.kind = "act", !.id = list.detail.id, !.to = to, !.filter = list.tab,
                              !.reopens = list.detail.id \notin list.closed]
<1>1. /\ list \in List /\ list.detail # NULL /\ ~list.busy /\ list.mounted
      /\ to \in {"mine", "started", "done"}
      BY PagesAssumption DEF act, PagesIInv, MountFits
<1>2. list.detail.id \in Requests /\ list.tab \in Tabs
      BY <1>1 DEF List
<1>3. c \in Call /\ c.kind = "act" /\ ~c.then /\ ~c.gone /\ c.id = list.detail.id /\ c.filter = list.tab /\ c.to = to
      BY <1>1, <1>2 DEF Call, blank, Kinds
<1>4. list' = [list EXCEPT !.busy = TRUE] /\ calls' = Append(calls, c) /\ UNCHANGED <<navVars, served, inbox>>
      BY DEF act
<1> HIDE DEF c
<1>5. c \in GoodCalls
      BY <1>1, <1>2, <1>3, AnswerAssumption DEF GoodCalls, CallComplete
<1>6. CallFits(c, list.mounted, inbox.mounted, inbox.selectedId) /\ Waited(c)
      BY <1>1, <1>3 DEF CallFits, Waited
<1>7. /\ list' \in List /\ list'.mounted /\ list'.busy = TRUE /\ list'.detail = list.detail
      /\ list'.openRequestId = list.openRequestId
  <2>1. list \in List /\ list' = [list EXCEPT !.busy = TRUE] /\ list.mounted
        BY <1>1, <1>4
  <2> QED BY <2>1 DEF List
<1>8. InFlight(calls', list.mounted, inbox.mounted, inbox.selectedId, inbox.history, list'.busy)
  <2>1. InFlight(calls, list.mounted, inbox.mounted, inbox.selectedId, inbox.history, FALSE)
        BY <1>1, OwnCalls DEF InFlight, OneAwaited
  <2>2. InFlight(Append(calls, c), list.mounted, inbox.mounted, inbox.selectedId, inbox.history, TRUE)
        BY <1>1, <1>5, <1>6, <2>1, SentFits
  <2> QED BY <1>4, <1>7, <2>2
<1> QED BY <1>1, <1>4, <1>7, <1>8, HandlerStep DEF PagesIInv, OverlayIsLastOpened

\* A list has arrived.
LEMMA LoadedStep ==
    ASSUME PagesIInv, NEW i \in DOMAIN calls, loaded(i)
    PROVE  PagesIInv'
<1> DEFINE c == calls[i]
           again == c.status = "ok" /\ c.then /\ goesOn(c.id) /\ c.reopens
           d == openCall(c.id, TRUE)
<1>1. /\ calls \in Seq(GoodCalls) /\ list \in List
      /\ CallsFit(calls, list.mounted, inbox.mounted, inbox.selectedId)
      BY DEF PagesIInv, InFlight
<1>2. c \in GoodCalls
      BY <1>1, LenProperties, ElementOfSeq
<1>3. c.kind = "load" /\ ~c.gone /\ (Waited(c) <=> c.then)
      BY DEF loaded, Sent, Waited
<1>4. list.mounted
      BY <1>1, <1>3 DEF CallsFit, CallFits
<1>5. /\ list' = [list EXCEPT !.loading = FALSE,
                              !.rows = IF c.status = "ok" THEN c.rows ELSE @,
                              !.closed = IF c.status = "ok" THEN c.marked ELSE @,
                              !.busy = @ /\ (c.then => again),
                              !.openRequestId = IF again THEN c.id ELSE @]
      /\ calls' = IF again THEN Append(Without(i), d) ELSE Without(i)
      /\ UNCHANGED <<navVars, served, inbox>>
      BY DEF loaded
<1>6. again => c.then /\ c.id = list.openRequestId /\ c.id \in Requests /\ d \in GoodCalls
                   /\ d.kind = "open" /\ d.then = TRUE /\ ~d.gone
  <2>1. again => c.then /\ c.id = list.openRequestId /\ c.id \in Requests
        BY <1>2 DEF goesOn, wanted, GoodCalls, CallComplete
  <2> QED BY <2>1, NewCalls
<1>7. c.rows \subseteq Requests /\ c.marked \subseteq Requests
      BY <1>2 DEF GoodCalls, Call
<1> HIDE DEF d
<1>8. again \in BOOLEAN /\ c.then \in BOOLEAN
      BY <1>2 DEF GoodCalls, Call
<1> HIDE DEF again
<1>9. /\ list' \in List /\ list'.mounted /\ list'.busy = (list.busy /\ (c.then => again))
      /\ list'.detail = list.detail /\ list'.openRequestId = list.openRequestId
      BY <1>1, <1>4, <1>5, <1>6, <1>7 DEF List
<1> HIDE DEF c
<1>10. /\ ~c.then => InFlight(Without(i), list.mounted, inbox.mounted, inbox.selectedId, inbox.history, list.busy)
       /\ c.then => list.busy /\ InFlight(Without(i), list.mounted, inbox.mounted, inbox.selectedId, inbox.history, FALSE)
      BY <1>3, <1>4, OwnCalls, AnsweredFits DEF c, Without
<1>11. InFlight(calls', list.mounted, inbox.mounted, inbox.selectedId, inbox.history, list'.busy)
  <2>1. CASE again
    <3>1. CallFits(d, list.mounted, inbox.mounted, inbox.selectedId) /\ Waited(d)
          BY <1>4, <1>6, <2>1 DEF CallFits, Waited
    <3>2. InFlight(Append(Without(i), d), list.mounted, inbox.mounted, inbox.selectedId, inbox.history, TRUE)
          BY <1>6, <1>10, <2>1, <3>1, SentFits
    <3>3. list'.busy = TRUE
          BY <1>1, <1>6, <1>9, <1>10, <2>1 DEF List
    <3> QED BY <1>5, <2>1, <3>2, <3>3
  <2>2. CASE ~again /\ c.then
    <3>1. list'.busy = FALSE
          BY <1>9, <2>2
    <3> QED BY <1>5, <1>10, <2>2, <3>1
  <2>3. CASE ~again /\ ~c.then
    <3>1. list'.busy = list.busy
          BY <1>1, <1>9, <2>3 DEF List
    <3> QED BY <1>5, <1>10, <2>3, <3>1
  <2> QED BY <2>1, <2>2, <2>3
<1> QED BY <1>4, <1>5, <1>9, <1>11, HandlerStep DEF PagesIInv, OverlayIsLastOpened

\* The request that was opened arrives, or cannot be read.
LEMMA ItemOpenedStep ==
    ASSUME PagesIInv, NEW i \in DOMAIN calls, itemOpened(i)
    PROVE  PagesIInv'
<1> DEFINE c == calls[i]
           arrives == c.status = "ok" /\ wanted(c.id)
<1>1. /\ calls \in Seq(GoodCalls) /\ list \in List
      /\ CallsFit(calls, list.mounted, inbox.mounted, inbox.selectedId)
      BY DEF PagesIInv, InFlight
<1>2. c \in GoodCalls
      BY <1>1, LenProperties, ElementOfSeq
<1>3. c.kind = "open" /\ ~c.gone /\ (Waited(c) <=> c.then) /\ c.then \in BOOLEAN
      BY <1>2 DEF itemOpened, Sent, Waited, GoodCalls, Call
<1>4. list.mounted
      BY <1>1, <1>3 DEF CallsFit, CallFits
<1>5. /\ list' = [list EXCEPT !.detail = IF arrives THEN [id |-> c.id, stage |-> c.seen] ELSE @,
                              !.busy = @ /\ ~c.then]
      /\ calls' = Without(i) /\ UNCHANGED <<navVars, served, inbox>>
      BY DEF itemOpened
<1>6. arrives => [id |-> c.id, stage |-> c.seen] \in [id : Requests, stage : Stages] /\ c.id = list.openRequestId
      BY <1>2, <1>3 DEF GoodCalls, CallComplete, wanted
<1> HIDE DEF arrives
<1>7. /\ list' \in List /\ list'.mounted /\ list'.busy = (list.busy /\ ~c.then)
      /\ list'.openRequestId = list.openRequestId
      /\ list'.detail = IF arrives THEN [id |-> c.id, stage |-> c.seen] ELSE list.detail
      BY <1>1, <1>4, <1>5, <1>6 DEF List
<1>8. OverlayIsLastOpened'
      BY <1>6, <1>7 DEF PagesIInv, OverlayIsLastOpened
<1>9. /\ ~c.then => InFlight(Without(i), list.mounted, inbox.mounted, inbox.selectedId, inbox.history, list.busy)
      /\ c.then => InFlight(Without(i), list.mounted, inbox.mounted, inbox.selectedId, inbox.history, FALSE)
  <2> HIDE DEF c
  <2> QED BY <1>3, <1>4, OwnCalls, AnsweredFits DEF c, Without
<1>10. InFlight(calls', list.mounted, inbox.mounted, inbox.selectedId, inbox.history, list'.busy)
  <2>1. CASE c.then
    <3>1. list'.busy = FALSE
          BY <1>7, <2>1
    <3> QED BY <1>5, <1>9, <2>1, <3>1
  <2>2. CASE ~c.then
    <3>1. list'.busy = list.busy
          BY <1>1, <1>7, <2>2 DEF List
    <3> QED BY <1>5, <1>9, <2>2, <3>1
  <2> QED BY <2>1, <2>2
<1> QED BY <1>4, <1>5, <1>7, <1>8, <1>10, HandlerStep

\* An action has been answered; the list is read again, or the buttons come back.
LEMMA ActedStep ==
    ASSUME PagesIInv, NEW i \in DOMAIN calls, acted(i)
    PROVE  PagesIInv'
<1> DEFINE c == calls[i]
           d == refreshCall(c)
<1>1. /\ calls \in Seq(GoodCalls) /\ list \in List
      /\ CallsFit(calls, list.mounted, inbox.mounted, inbox.selectedId)
      BY DEF PagesIInv, InFlight
<1>2. c \in GoodCalls
      BY <1>1, LenProperties, ElementOfSeq
<1>3. c.kind = "act" /\ ~c.gone /\ Waited(c)
      BY DEF acted, Sent, Waited
<1>4. list.mounted
      BY <1>1, <1>3 DEF CallsFit, CallFits
<1>5. list.busy /\ InFlight(Without(i), list.mounted, inbox.mounted, inbox.selectedId, inbox.history, FALSE)
  <2> HIDE DEF c
  <2> QED BY <1>3, <1>4, OwnCalls, AnsweredFits DEF c, Without
<1>6. UNCHANGED <<navVars, served, inbox>>
      BY DEF acted
<1>7. CASE c.status = "ok"
  <2>1. list' = [list EXCEPT !.loading = TRUE] /\ calls' = Append(Without(i), d)
        BY <1>7 DEF acted
  <2>2. d \in GoodCalls /\ d.kind = "load" /\ d.then /\ ~d.gone
        BY <1>2, <1>3, NewCalls
  <2> HIDE DEF d, c
  <2>3. /\ list' \in List /\ list'.mounted /\ list'.busy = TRUE /\ list'.detail = list.detail
        /\ list'.openRequestId = list.openRequestId
        BY <1>1, <1>4, <1>5, <2>1 DEF List
  <2>4. CallFits(d, list.mounted, inbox.mounted, inbox.selectedId) /\ Waited(d)
        BY <1>4, <2>2 DEF CallFits, Waited
  <2>5. InFlight(Append(Without(i), d), list.mounted, inbox.mounted, inbox.selectedId, inbox.history, TRUE)
        BY <1>5, <2>2, <2>4, SentFits
  <2>6. InFlight(calls', list.mounted, inbox.mounted, inbox.selectedId, inbox.history, list'.busy)
        BY <2>1, <2>3, <2>5
  <2> QED BY <1>4, <1>6, <2>3, <2>6, HandlerStep DEF PagesIInv, OverlayIsLastOpened
<1>8. CASE c.status # "ok"
  <2>1. list' = [list EXCEPT !.busy = FALSE] /\ calls' = Without(i)
        BY <1>8 DEF acted
  <2> HIDE DEF c
  <2>2. /\ list' \in List /\ list'.mounted /\ list'.busy = FALSE /\ list'.detail = list.detail
        /\ list'.openRequestId = list.openRequestId
        BY <1>1, <1>4, <2>1 DEF List
  <2>3. InFlight(calls', list.mounted, inbox.mounted, inbox.selectedId, inbox.history, list'.busy)
        BY <1>5, <2>1, <2>2
  <2> QED BY <1>4, <1>6, <2>2, <2>3, HandlerStep DEF PagesIInv, OverlayIsLastOpened
<1> QED BY <1>7, <1>8

\* The cleanup of an effect: only that a call is no longer wanted changes.
LEMMA CancelKeeps ==
    ASSUME NEW cs \in Seq(GoodCalls), NEW kind
    PROVE  LET ds == cancel(cs, kind)
           IN  /\ ds \in Seq(GoodCalls) /\ DOMAIN ds = DOMAIN cs
               /\ \A i \in DOMAIN cs :
                     /\ ds[i].kind = cs[i].kind /\ ds[i].id = cs[i].id /\ ds[i].then = cs[i].then
                     /\ ds[i].gone = cs[i].gone
                     /\ cs[i].kind = kind => ds[i].cancelled
                     /\ cs[i].kind # kind => ds[i] = cs[i]
<1> DEFINE ds == cancel(cs, kind)
<1>1. /\ Len(cs) \in Nat /\ DOMAIN cs = 1..Len(cs) /\ \A i \in 1..Len(cs) : cs[i] \in GoodCalls
      BY LenProperties, ElementOfSeq
<1>2. DOMAIN ds = 1..Len(cs)
      BY <1>1 DEF cancel
<1>3. ASSUME NEW i \in 1..Len(cs)
      PROVE  /\ ds[i] \in GoodCalls
             /\ ds[i].kind = cs[i].kind /\ ds[i].id = cs[i].id /\ ds[i].then = cs[i].then
             /\ ds[i].gone = cs[i].gone
             /\ cs[i].kind = kind => ds[i].cancelled
             /\ cs[i].kind # kind => ds[i] = cs[i]
  <2> DEFINE c == cs[i]
             d == [c EXCEPT !.cancelled = TRUE]
  <2>1. c \in Call /\ CallComplete(c)
        BY <1>1 DEF GoodCalls
  <2>2. ds[i] = IF c.kind = kind THEN d ELSE c
        BY <1>1 DEF cancel
  <2> HIDE DEF c
  <2>3. /\ d \in Call /\ d.kind = c.kind /\ d.id = c.id /\ d.then = c.then /\ d.gone = c.gone /\ d.cancelled
        /\ d.filter = c.filter /\ d.to = c.to /\ d.status = c.status /\ d.seen = c.seen
        BY <2>1 DEF Call
  <2> HIDE DEF d
  <2>4. CallComplete(d)
        BY <2>1, <2>3 DEF CallComplete
  <2> QED BY <2>1, <2>2, <2>3, <2>4 DEF GoodCalls, c
<1>4. ds \in Seq(GoodCalls)
  <2>1. ds = [i \in 1..Len(cs) |-> ds[i]]
        BY <1>1 DEF cancel
  <2> HIDE DEF ds
  <2>2. ds \in [1..Len(cs) -> GoodCalls]
        BY <1>3, <2>1
  <2> QED BY <1>1, <2>2, SeqDef
<1> QED BY <1>1, <1>2, <1>3, <1>4

\* After the cleanup no history is waited for, whichever request is selected next.
LEMMA DeselectFits ==
    ASSUME NEW cs, NEW h, NEW d, NEW id, NEW history, NEW busy, NEW id2,
           InFlight(cs, h, d, id, history, busy)
    PROVE  /\ deselect(cs) \in Seq(GoodCalls)
           /\ CallsFit(deselect(cs), h, d, id2)
           /\ OneAwaited(deselect(cs), busy)
<1> DEFINE ds == cancel(cs, "history")
<1>1. cs \in Seq(GoodCalls) /\ CallsFit(cs, h, d, id) /\ OneAwaited(cs, busy)
      BY DEF InFlight
<1>2. /\ ds \in Seq(GoodCalls) /\ DOMAIN ds = DOMAIN cs
      /\ \A i \in DOMAIN cs :
            /\ ds[i].kind = cs[i].kind /\ ds[i].id = cs[i].id /\ ds[i].then = cs[i].then
            /\ ds[i].gone = cs[i].gone
            /\ cs[i].kind = "history" => ds[i].cancelled
      BY <1>1, CancelKeeps
<1>3. deselect(cs) = ds
      BY DEF deselect
<1> HIDE DEF ds
<1>4. CallsFit(ds, h, d, id2)
      BY <1>1, <1>2 DEF CallsFit, CallFits
<1>5. OneAwaited(ds, busy)
  <2>1. \A i \in DOMAIN cs : Waited(ds[i]) <=> Waited(cs[i])
        BY <1>2 DEF Waited
  <2> QED BY <1>1, <1>2, <2>1, AwaitedSame
<1> QED BY <1>2, <1>3, <1>4, <1>5

\* Another filter: the list that was on its way is not wanted any more.
LEMMA SetStatusStep ==
    ASSUME PagesIInv, NEW status \in Filters, setStatus(status)
    PROVE  PagesIInv'
<1> DEFINE c == inboxCall(status)
           ds == cancel(calls, "inbox")
<1>1. inbox \in Inbox /\ inbox.mounted
      BY DEF PagesIInv, setStatus
<1>2. InFlight(calls, list.mounted, inbox.mounted, inbox.selectedId, inbox.history, inbox.busy)
      BY <1>1, OwnCalls
<1>3. c \in GoodCalls /\ c.kind = "inbox" /\ ~c.then /\ ~c.gone
      BY NewCalls
<1>4. /\ ds \in Seq(GoodCalls) /\ DOMAIN ds = DOMAIN calls
      /\ \A i \in DOMAIN calls :
            /\ ds[i].kind = calls[i].kind /\ ds[i].id = calls[i].id /\ ds[i].then = calls[i].then
            /\ ds[i].gone = calls[i].gone
            /\ calls[i].kind # "inbox" => ds[i] = calls[i]
      BY <1>2, CancelKeeps DEF InFlight
<1>5. /\ inbox' = [inbox EXCEPT !.status = status, !.loading = TRUE] /\ calls' = Append(ds, c)
      /\ UNCHANGED <<navVars, served, list>>
      BY DEF setStatus
<1> HIDE DEF c, ds
<1>6. CallsFit(ds, list.mounted, inbox.mounted, inbox.selectedId)
      BY <1>2, <1>4 DEF InFlight, CallsFit, CallFits
<1>7. OneAwaited(ds, inbox.busy)
  <2>1. \A i \in DOMAIN calls : Waited(ds[i]) <=> Waited(calls[i])
        BY <1>4 DEF Waited
  <2> QED BY <1>2, <1>4, <2>1, AwaitedSame DEF InFlight
<1>8. HistoryFits(ds, inbox.history, inbox.selectedId)
      BY <1>2, <1>4 DEF InFlight, HistoryFits
<1>9. InFlight(ds, list.mounted, inbox.mounted, inbox.selectedId, inbox.history, inbox.busy)
      BY <1>4, <1>6, <1>7, <1>8 DEF InFlight
<1>10. /\ inbox' \in Inbox /\ inbox'.mounted /\ inbox'.busy = inbox.busy /\ inbox'.selectedId = inbox.selectedId
       /\ inbox'.history = inbox.history
      BY <1>1, <1>5 DEF Inbox
<1>11. CallFits(c, list.mounted, inbox.mounted, inbox.selectedId) /\ ~Waited(c)
      BY <1>1, <1>3 DEF CallFits, Waited
<1>12. InFlight(calls', list.mounted, inbox.mounted, inbox'.selectedId, inbox'.history, inbox'.busy)
      BY <1>3, <1>5, <1>9, <1>10, <1>11, SentFits
<1> QED BY <1>1, <1>5, <1>10, <1>12, InboxStep

\* A request is selected, and its history is asked for.
LEMMA SelectItemStep ==
    ASSUME PagesIInv, NEW id, selectItem(id)
    PROVE  PagesIInv'
<1> DEFINE c == [blank EXCEPT !.kind = "history", !.id = id]
           ds == deselect(calls)
<1>1. inbox \in Inbox /\ inbox.mounted /\ id \in Requests
      BY DEF PagesIInv, selectItem, Inbox
<1>2. InFlight(calls, list.mounted, inbox.mounted, inbox.selectedId, inbox.history, inbox.busy)
      BY <1>1, OwnCalls
<1>3. c \in Call /\ c.kind = "history" /\ ~c.then /\ ~c.gone /\ ~c.cancelled /\ c.id = id
      BY <1>1 DEF Call, blank, Kinds
<1>4. /\ inbox' = [inbox EXCEPT !.selectedId = id] /\ calls' = Append(ds, c) /\ UNCHANGED <<navVars, served, list>>
      BY DEF selectItem
<1>5. ds \in Seq(GoodCalls) /\ CallsFit(ds, list.mounted, inbox.mounted, id) /\ OneAwaited(ds, inbox.busy)
      BY <1>2, DeselectFits
<1> HIDE DEF c, ds
<1>6. c \in GoodCalls
      BY <1>1, <1>3 DEF GoodCalls, CallComplete
<1>7. CallFits(c, list.mounted, inbox.mounted, id) /\ ~Waited(c)
      BY <1>1, <1>3 DEF CallFits, Waited
<1>8. /\ inbox' \in Inbox /\ inbox'.mounted /\ inbox'.busy = inbox.busy /\ inbox'.selectedId = id
      /\ inbox'.history = inbox.history
      BY <1>1, <1>4 DEF Inbox
<1>9. calls' \in Seq(GoodCalls) /\ CallsFit(calls', list.mounted, inbox.mounted, id)
      BY <1>4, <1>5, <1>6, <1>7, OneMore, FitOneMore
<1>10. OneAwaited(calls', inbox'.busy)
      BY <1>4, <1>5, <1>6, <1>7, <1>8, AwaitedOneMore
<1>11. HistoryFits(calls', inbox'.history, id)
  <2>1. \E j \in DOMAIN calls' : calls'[j] = c
        BY <1>4, <1>5, <1>6, OneMore
  <2> QED BY <1>3, <2>1 DEF HistoryFits
<1> QED BY <1>1, <1>4, <1>8, <1>9, <1>10, <1>11, InboxStep DEF InFlight

\* The selected request is one of the list, so that the inbox is there.
LEMMA SelectedIsThere ==
    ASSUME PagesIInv, selected # NULL
    PROVE  inbox.mounted /\ selected = inbox.selectedId /\ selected \in Requests
BY DEF PagesIInv, MountFits, selected, Inbox

\* The request is closed, and with it its history.
LEMMA CloseInboxItemStep ==
    ASSUME PagesIInv, closeInboxItem
    PROVE  PagesIInv'
<1>1. inbox.mounted /\ inbox \in Inbox
      BY SelectedIsThere DEF closeInboxItem, PagesIInv
<1>2. InFlight(calls, list.mounted, inbox.mounted, inbox.selectedId, inbox.history, inbox.busy)
      BY <1>1, OwnCalls
<1>3. /\ inbox' = [inbox EXCEPT !.selectedId = NULL, !.history = NULL] /\ calls' = deselect(calls)
      /\ UNCHANGED <<navVars, served, list>>
      BY DEF closeInboxItem
<1>4. /\ inbox' \in Inbox /\ inbox'.mounted /\ inbox'.busy = inbox.busy /\ inbox'.selectedId = NULL
      /\ inbox'.history = NULL
      BY <1>1, <1>3 DEF Inbox
<1>5. /\ calls' \in Seq(GoodCalls) /\ CallsFit(calls', list.mounted, inbox.mounted, NULL)
      /\ OneAwaited(calls', inbox.busy)
      BY <1>2, <1>3, DeselectFits
<1>6. HistoryFits(calls', NULL, NULL)
      BY DEF HistoryFits
<1>7. InFlight(calls', list.mounted, inbox.mounted, inbox'.selectedId, inbox'.history, inbox'.busy)
      BY <1>4, <1>5, <1>6 DEF InFlight
<1> QED BY <1>1, <1>3, <1>4, <1>7, InboxStep

\* An approver decides.
LEMMA OnDecideStep ==
    ASSUME PagesIInv, NEW to, onDecide(to)
    PROVE  PagesIInv'
<1> DEFINE c == [blank EXCEPT !.kind = "decide", !.id = selected, !.to = to]
<1>1. /\ inbox.mounted /\ inbox \in Inbox /\ selected \in Requests /\ ~inbox.busy
      /\ to \in {"open", "denied"}
      BY SelectedIsThere DEF onDecide, PagesIInv
<1>2. c \in Call /\ c.kind = "decide" /\ ~c.then /\ ~c.gone /\ c.id = selected /\ c.to = to
      BY <1>1 DEF Call, blank, Kinds
<1>3. inbox' = [inbox EXCEPT !.busy = TRUE] /\ calls' = Append(calls, c) /\ UNCHANGED <<navVars, served, list>>
      BY DEF onDecide
<1> HIDE DEF c
<1>4. c \in GoodCalls
      BY <1>1, <1>2, AnswerAssumption DEF GoodCalls, CallComplete
<1>5. CallFits(c, list.mounted, inbox.mounted, inbox.selectedId) /\ Waited(c)
      BY <1>1, <1>2 DEF CallFits, Waited
<1>6. /\ inbox' \in Inbox /\ inbox'.mounted /\ inbox'.busy = TRUE /\ inbox'.selectedId = inbox.selectedId
      /\ inbox'.history = inbox.history
  <2>1. inbox \in Inbox /\ inbox.mounted
        BY <1>1
  <2> QED BY <1>3, <2>1 DEF Inbox
<1>7. InFlight(calls', list.mounted, inbox.mounted, inbox'.selectedId, inbox'.history, inbox'.busy)
  <2>1. InFlight(calls, list.mounted, inbox.mounted, inbox.selectedId, inbox.history, FALSE)
        BY <1>1, OwnCalls DEF InFlight, OneAwaited
  <2>2. InFlight(Append(calls, c), list.mounted, inbox.mounted, inbox.selectedId, inbox.history, TRUE)
        BY <1>4, <1>5, <2>1, SentFits
  <2> QED BY <1>3, <1>6, <2>2
<1> QED BY <1>1, <1>3, <1>6, <1>7, InboxStep

\* A list of the inbox has arrived, wanted or not.
LEMMA InboxLoadedStep ==
    ASSUME PagesIInv, NEW i \in DOMAIN calls, inboxLoaded(i)
    PROVE  PagesIInv'
<1> DEFINE c == calls[i]
<1>1. /\ calls \in Seq(GoodCalls) /\ inbox \in Inbox
      /\ CallsFit(calls, list.mounted, inbox.mounted, inbox.selectedId)
      BY DEF PagesIInv, InFlight
<1>2. c \in GoodCalls
      BY <1>1, LenProperties, ElementOfSeq
<1>3. c.kind = "inbox" /\ ~c.gone
      BY DEF inboxLoaded, Sent
<1>4. inbox.mounted
      BY <1>1, <1>3 DEF CallsFit, CallFits
<1>5. ~Waited(c)
      BY <1>1, <1>3 DEF CallsFit, CallFits, Waited
<1>6. /\ inbox' = IF c.cancelled THEN inbox
                  ELSE IF c.status = "failed" THEN [inbox EXCEPT !.loading = FALSE]
                  ELSE [inbox EXCEPT !.loading = FALSE, !.items = c.rows, !.pending = c.marked]
      /\ calls' = Without(i) /\ UNCHANGED <<navVars, served, list>>
      BY DEF inboxLoaded
<1>7. c.rows \subseteq Requests /\ c.marked \subseteq Requests
      BY <1>2 DEF GoodCalls, Call
<1>8. InFlight(Without(i), list.mounted, inbox.mounted, inbox.selectedId, inbox.history, inbox.busy)
  <2> HIDE DEF c
  <2> QED BY <1>3, <1>4, <1>5, OwnCalls, AnsweredFits DEF c, Without
<1> HIDE DEF c
<1>9. /\ inbox' \in Inbox /\ inbox'.mounted /\ inbox'.busy = inbox.busy /\ inbox'.selectedId = inbox.selectedId
      /\ inbox'.history = inbox.history
      BY <1>1, <1>4, <1>6, <1>7 DEF Inbox
<1> QED BY <1>4, <1>6, <1>8, <1>9, InboxStep

\* A decision has been answered; the list is read again, or the buttons come back.
LEMMA DecidedStep ==
    ASSUME PagesIInv, NEW i \in DOMAIN calls, decided(i)
    PROVE  PagesIInv'
<1> DEFINE c == calls[i]
           d == [inboxCall(inbox.status) EXCEPT !.kind = "inboxAgain"]
<1>1. /\ calls \in Seq(GoodCalls) /\ inbox \in Inbox
      /\ CallsFit(calls, list.mounted, inbox.mounted, inbox.selectedId)
      BY DEF PagesIInv, InFlight
<1>2. c.kind = "decide" /\ ~c.gone /\ Waited(c)
      BY DEF decided, Sent, Waited
<1>3. inbox.mounted
      BY <1>1, <1>2 DEF CallsFit, CallFits
<1>4. inbox.busy /\ InFlight(Without(i), list.mounted, inbox.mounted, inbox.selectedId, inbox.history, FALSE)
  <2> HIDE DEF c
  <2> QED BY <1>2, <1>3, OwnCalls, AnsweredFits DEF c, Without
<1>5. UNCHANGED <<navVars, served, list>>
      BY DEF decided
<1>6. CASE c.status = "ok"
  <2>1. inbox' = inbox /\ calls' = Append(Without(i), d)
        BY <1>6 DEF decided
  <2>2. d \in GoodCalls /\ d.kind = "inboxAgain" /\ ~d.then /\ ~d.gone
    <3>1. inbox.status \in Filters
          BY <1>1 DEF Inbox
    <3> QED BY <3>1 DEF inboxCall, blank, GoodCalls, Call, CallComplete, Kinds
  <2> HIDE DEF d, c
  <2>3. CallFits(d, list.mounted, inbox.mounted, inbox.selectedId) /\ Waited(d)
        BY <1>3, <2>2 DEF CallFits, Waited
  <2>4. InFlight(Append(Without(i), d), list.mounted, inbox.mounted, inbox.selectedId, inbox.history, TRUE)
        BY <1>4, <2>2, <2>3, SentFits
  <2>5. inbox.busy = TRUE
        BY <1>1, <1>4 DEF Inbox
  <2> QED BY <1>1, <1>3, <1>5, <2>1, <2>4, <2>5, InboxStep
<1>7. CASE c.status # "ok"
  <2>1. inbox' = [inbox EXCEPT !.busy = FALSE] /\ calls' = Without(i)
        BY <1>7 DEF decided
  <2> HIDE DEF c
  <2>2. /\ inbox' \in Inbox /\ inbox'.mounted /\ inbox'.busy = FALSE /\ inbox'.selectedId = inbox.selectedId
        /\ inbox'.history = inbox.history
        BY <1>1, <1>3, <2>1 DEF Inbox
  <2> QED BY <1>3, <1>4, <1>5, <2>1, <2>2, InboxStep
<1> QED BY <1>6, <1>7

\* The list after a decision: the request that has left it is not selected any more.
LEMMA InboxRefreshedStep ==
    ASSUME PagesIInv, NEW i \in DOMAIN calls, inboxRefreshed(i)
    PROVE  PagesIInv'
<1> DEFINE c == calls[i]
           keeps == c.status = "failed" \/ inbox.selectedId \in c.rows
<1>1. /\ calls \in Seq(GoodCalls) /\ inbox \in Inbox
      /\ CallsFit(calls, list.mounted, inbox.mounted, inbox.selectedId)
      BY DEF PagesIInv, InFlight
<1>2. c \in GoodCalls
      BY <1>1, LenProperties, ElementOfSeq
<1>3. c.kind = "inboxAgain" /\ ~c.gone /\ Waited(c)
      BY DEF inboxRefreshed, Sent, Waited
<1>4. inbox.mounted
      BY <1>1, <1>3 DEF CallsFit, CallFits
<1>5. InFlight(Without(i), list.mounted, inbox.mounted, inbox.selectedId, inbox.history, FALSE)
  <2> HIDE DEF c
  <2> QED BY <1>3, <1>4, OwnCalls, AnsweredFits DEF c, Without
<1>6. /\ inbox' = [inbox EXCEPT !.busy = FALSE,
                                !.items = IF c.status = "ok" THEN c.rows ELSE @,
                                !.pending = IF c.status = "ok" THEN c.marked ELSE @,
                                !.selectedId = IF keeps THEN @ ELSE NULL,
                                !.history = IF keeps THEN @ ELSE NULL]
      /\ calls' = IF keeps THEN Without(i) ELSE deselect(Without(i))
      /\ UNCHANGED <<navVars, served, list>>
      BY DEF inboxRefreshed
<1>7. c.rows \subseteq Requests /\ c.marked \subseteq Requests
      BY <1>2 DEF GoodCalls, Call
<1> HIDE DEF keeps
<1>8. /\ inbox' \in Inbox /\ inbox'.mounted /\ inbox'.busy = FALSE
      /\ inbox'.selectedId = IF keeps THEN inbox.selectedId ELSE NULL
      /\ inbox'.history = IF keeps THEN inbox.history ELSE NULL
      BY <1>1, <1>4, <1>6, <1>7 DEF Inbox
<1>9. InFlight(calls', list.mounted, inbox.mounted, inbox'.selectedId, inbox'.history, inbox'.busy)
  <2>1. CASE keeps
        BY <1>5, <1>6, <1>8, <2>1
  <2>2. CASE ~keeps
    <3>1. /\ calls' \in Seq(GoodCalls) /\ CallsFit(calls', list.mounted, inbox.mounted, NULL)
          /\ OneAwaited(calls', FALSE)
          BY <1>5, <1>6, <2>2, DeselectFits
    <3>2. HistoryFits(calls', NULL, NULL)
          BY DEF HistoryFits
    <3> QED BY <1>8, <2>2, <3>1, <3>2 DEF InFlight
  <2> QED BY <2>1, <2>2
<1> QED BY <1>4, <1>6, <1>8, <1>9, InboxStep

\* A history has arrived: it is shown only beside the request that it belongs to.
LEMMA HistoryArrivedStep ==
    ASSUME PagesIInv, NEW i \in DOMAIN calls, historyArrived(i)
    PROVE  PagesIInv'
<1> DEFINE c == calls[i]
<1>1. /\ calls \in Seq(GoodCalls) /\ inbox \in Inbox
      /\ CallsFit(calls, list.mounted, inbox.mounted, inbox.selectedId)
      BY DEF PagesIInv, InFlight
<1>2. c \in GoodCalls
      BY <1>1, LenProperties, ElementOfSeq
<1>3. c.kind = "history" /\ ~c.gone
      BY DEF historyArrived, Sent
<1>4. inbox.mounted /\ ~Waited(c) /\ (~c.cancelled => c.id = inbox.selectedId)
      BY <1>1, <1>3 DEF CallsFit, CallFits, Waited
<1>5. InFlight(calls, list.mounted, inbox.mounted, inbox.selectedId, inbox.history, inbox.busy)
      BY <1>4, OwnCalls
<1>6. /\ inbox' = [inbox EXCEPT !.history = IF c.cancelled THEN @ ELSE IF c.status = "ok" THEN c.id ELSE NULL]
      /\ calls' = Without(i) /\ UNCHANGED <<navVars, served, list>>
      BY DEF historyArrived
<1>7. c.id \in Requests
      BY <1>2, <1>3 DEF GoodCalls, CallComplete
<1>8. /\ inbox' \in Inbox /\ inbox'.mounted /\ inbox'.busy = inbox.busy /\ inbox'.selectedId = inbox.selectedId
      /\ inbox'.history = IF c.cancelled THEN inbox.history ELSE IF c.status = "ok" THEN c.id ELSE NULL
  <2> HIDE DEF c
  <2> QED BY <1>1, <1>4, <1>6, <1>7 DEF Inbox
<1>9. InFlight(calls', list.mounted, inbox.mounted, inbox'.selectedId, inbox'.history, inbox'.busy)
  <2>1. CASE c.cancelled
    <3> HIDE DEF c
    <3> QED BY <1>4, <1>5, <1>6, <1>8, <2>1, AnsweredFits DEF c, Without
  <2>2. CASE ~c.cancelled
    <3>1. calls' \in Seq(GoodCalls) /\ CallsFit(calls', list.mounted, inbox.mounted, inbox.selectedId)
          BY <1>1, <1>6, WithoutKeeps, FitOneLess DEF Without
    <3>2. OneAwaited(calls', inbox.busy)
          BY <1>1, <1>4, <1>5, <1>6, AwaitedOneLess DEF Without, InFlight
    <3>3. HistoryFits(calls', inbox'.history, inbox.selectedId)
          BY <1>4, <1>8, <2>2 DEF HistoryFits
    <3> QED BY <1>8, <3>1, <3>2, <3>3 DEF InFlight
  <2> QED BY <2>1, <2>2
<1> QED BY <1>4, <1>6, <1>8, <1>9, InboxStep

\* The answer to a page that has been left changes no page.
LEMMA ForgottenStep ==
    ASSUME PagesIInv, NEW i \in DOMAIN calls, Forgotten(i)
    PROVE  PagesIInv'
<1> DEFINE c == calls[i]
<1>1. c.gone /\ calls' = Without(i) /\ UNCHANGED <<navVars, served, list, inbox>>
      BY DEF Forgotten
<1>2. /\ InFlight(calls, list.mounted, inbox.mounted, inbox.selectedId, inbox.history, pagesBusy)
      /\ CallFits(c, list.mounted, inbox.mounted, inbox.selectedId)
      BY DEF PagesIInv, InFlight, CallsFit
<1>3. c.kind # "history" /\ ~Waited(c)
      BY <1>1, <1>2 DEF CallFits, Waited
<1>4. InFlight(calls', list.mounted, inbox.mounted, inbox.selectedId, inbox.history, pagesBusy)
  <2> HIDE DEF c
  <2> QED BY <1>1, <1>2, <1>3, AnsweredFits DEF c, Without
<1> QED BY <1>1, <1>4
        DEF PagesIInv, MountFits, NavIInv, handlerPage, navVars, pagesBusy, OverlayIsLastOpened

\* What the server does with a call does not make it another call.
LEMMA AnswerKeeps ==
    ASSUME NEW cs, NEW i \in DOMAIN cs, NEW h, NEW d, NEW id, NEW history, NEW busy,
           InFlight(cs, h, d, id, history, busy), NEW c \in GoodCalls,
           c.kind = cs[i].kind, c.id = cs[i].id, c.then = cs[i].then, c.gone = cs[i].gone,
           c.cancelled = cs[i].cancelled
    PROVE  InFlight([cs EXCEPT ![i] = c], h, d, id, history, busy)
<1> DEFINE ds == [cs EXCEPT ![i] = c]
<1>1. cs \in Seq(GoodCalls) /\ DOMAIN cs = 1..Len(cs)
      BY LenProperties DEF InFlight
<1>2. ds \in Seq(GoodCalls)
      BY <1>1, ExceptSeq
<1>3. /\ DOMAIN ds = DOMAIN cs
      /\ \A j \in DOMAIN cs : /\ ds[j].kind = cs[j].kind /\ ds[j].id = cs[j].id /\ ds[j].then = cs[j].then
                              /\ ds[j].gone = cs[j].gone /\ ds[j].cancelled = cs[j].cancelled
      OBVIOUS
<1> HIDE DEF ds
<1>4. CallsFit(ds, h, d, id)
      BY <1>3 DEF InFlight, CallsFit, CallFits
<1>5. HistoryFits(ds, history, id)
      BY <1>3 DEF InFlight, HistoryFits
<1>6. OneAwaited(ds, busy)
  <2>1. \A j \in DOMAIN cs : Waited(ds[j]) <=> Waited(cs[j])
        BY <1>3 DEF Waited
  <2> QED BY <1>3, <2>1, AwaitedSame DEF InFlight
<1> QED BY <1>2, <1>4, <1>5, <1>6 DEF InFlight, ds

\* The server answers a call, or it is lost on the way.
LEMMA ServerStep ==
    ASSUME PagesIInv, NEW i \in DOMAIN calls, serve(i) \/ fail(i)
    PROVE  PagesIInv'
<1> DEFINE c == calls[i]
           ok(rows, marked, seen) == [c EXCEPT !.status = "ok", !.rows = rows, !.marked = marked, !.seen = seen]
           no == [c EXCEPT !.status = "failed"]
           new == calls'[i]
<1>1. /\ InFlight(calls, list.mounted, inbox.mounted, inbox.selectedId, inbox.history, pagesBusy)
      /\ calls \in Seq(GoodCalls) /\ served \in [Requests -> [policy : Captured, stage : Stages]]
      BY DEF PagesIInv, InFlight
<1>2. c \in Call /\ CallComplete(c)
      BY <1>1, LenProperties, ElementOfSeq DEF GoodCalls
<1>3. UNCHANGED <<navVars, list, inbox>>
      BY DEF serve, fail
<1>4. ASSUME NEW rows \in SUBSET Requests, NEW marked \in SUBSET Requests, NEW seen \in Stages \cup {NULL},
             c.kind = "open" => seen \in Stages
      PROVE  /\ ok(rows, marked, seen) \in GoodCalls
             /\ ok(rows, marked, seen).kind = c.kind /\ ok(rows, marked, seen).id = c.id
             /\ ok(rows, marked, seen).then = c.then
             /\ ok(rows, marked, seen).gone = c.gone /\ ok(rows, marked, seen).cancelled = c.cancelled
  <2> DEFINE o == ok(rows, marked, seen)
  <2> HIDE DEF c
  <2>1. /\ o \in Call /\ o.kind = c.kind /\ o.id = c.id /\ o.then = c.then /\ o.gone = c.gone
        /\ o.cancelled = c.cancelled /\ o.filter = c.filter /\ o.to = c.to /\ o.seen = seen
        BY <1>2 DEF Call
  <2> HIDE DEF o
  <2>2. o \in GoodCalls
        BY <1>2, <1>4, <2>1 DEF GoodCalls, CallComplete
  <2> QED BY <2>1, <2>2 DEF o
<1>5. /\ no \in GoodCalls /\ no.kind = c.kind /\ no.id = c.id /\ no.then = c.then
      /\ no.gone = c.gone /\ no.cancelled = c.cancelled
  <2> HIDE DEF c
  <2>1. /\ no \in Call /\ no.kind = c.kind /\ no.id = c.id /\ no.then = c.then /\ no.gone = c.gone
        /\ no.cancelled = c.cancelled /\ no.filter = c.filter /\ no.to = c.to /\ no.status = "failed"
        BY <1>2 DEF Call
  <2> HIDE DEF no
  <2>2. no \in GoodCalls
        BY <1>2, <2>1 DEF GoodCalls, CallComplete
  <2> QED BY <2>1, <2>2
<1>6. /\ \/ \E rows, marked \in SUBSET Requests, seen \in Stages \cup {NULL} :
               /\ c.kind = "open" => seen \in Stages
               /\ calls' = [calls EXCEPT ![i] = ok(rows, marked, seen)]
         \/ calls' = [calls EXCEPT ![i] = no]
      /\ served' \in [Requests -> [policy : Captured, stage : Stages]]
  <2>1. CASE fail(i)
        BY <1>1, <2>1 DEF fail, refused
  <2>2. CASE serve(i) /\ c.kind \in {"act", "decide"}
    <3>1. write(i)
          BY <2>2 DEF serve
    <3>2. /\ \/ calls' = [calls EXCEPT ![i] = ok({}, {}, NULL)] /\ served' = [served EXCEPT ![c.id].stage = c.to]
             \/ calls' = [calls EXCEPT ![i] = no] /\ served' = served
          BY <3>1 DEF write, answered, refused
    <3>3. c.id \in Requests /\ c.to \in Stages
          BY <1>2, <2>2 DEF Call, CallComplete, Stages
    <3>4. [served EXCEPT ![c.id].stage = c.to] \in [Requests -> [policy : Captured, stage : Stages]]
      <4> HIDE DEF c
      <4> QED BY <1>1, <3>3
    <3>5. CASE calls' = [calls EXCEPT ![i] = ok({}, {}, NULL)] /\ served' = [served EXCEPT ![c.id].stage = c.to]
      <4>1. served' \in [Requests -> [policy : Captured, stage : Stages]]
            BY <3>4, <3>5
      <4>2. c.kind # "open"
            BY <2>2
      <4>3. \E rows, marked \in SUBSET Requests, seen \in Stages \cup {NULL} :
               /\ c.kind = "open" => seen \in Stages
               /\ calls' = [calls EXCEPT ![i] = ok(rows, marked, seen)]
        <5>1. {} \in SUBSET Requests /\ NULL \in Stages \cup {NULL}
              OBVIOUS
        <5> HIDE DEF ok
        <5> QED BY <3>5, <4>2, <5>1
      <4> QED BY <4>1, <4>3
    <3>6. CASE calls' = [calls EXCEPT ![i] = no] /\ served' = served
          BY <1>1, <3>6
    <3> QED BY <3>2, <3>5, <3>6
  <2>3. CASE serve(i) /\ c.kind \notin {"act", "decide"}
    <3>1. read(i)
          BY <2>3 DEF serve
    <3>2. served' = served
          BY <3>1 DEF read
    <3>3. \/ \E rows, marked \in SUBSET Requests, seen \in Stages \cup {NULL} :
                /\ c.kind = "open" => seen \in Stages
                /\ calls' = [calls EXCEPT ![i] = ok(rows, marked, seen)]
          \/ calls' = [calls EXCEPT ![i] = no]
      <4>1. CASE c.kind = "load"
        <5> DEFINE rows == {r \in Requests : listed(c.filter, r)}
                   marked == {r \in rows : ~canOpen(nav.user, r)}
        <5>1. calls' = [calls EXCEPT ![i] = ok(rows, marked, NULL)]
              BY <3>1, <4>1 DEF read, answered
        <5>2. rows \in SUBSET Requests /\ marked \in SUBSET Requests
              OBVIOUS
        <5> HIDE DEF rows, marked
        <5> QED BY <4>1, <5>1, <5>2
      <4>2. CASE c.kind \in {"inbox", "inboxAgain"}
        <5> DEFINE rows == {r \in Requests : inboxListed(nav.user, c.filter, r)}
                   marked == {r \in rows : served[r].stage = "pending"}
        <5>1. calls' = [calls EXCEPT ![i] = ok(rows, marked, NULL)]
              BY <3>1, <4>2 DEF read, answered
        <5>2. rows \in SUBSET Requests /\ marked \in SUBSET Requests
              OBVIOUS
        <5> HIDE DEF rows, marked
        <5> QED BY <4>2, <5>1, <5>2
      <4>3. CASE c.kind = "open"
        <5>1. served[c.id].stage \in Stages
              BY <1>1, <1>2, <4>3 DEF CallComplete
        <5>2. \/ calls' = [calls EXCEPT ![i] = ok({}, {}, served[c.id].stage)]
              \/ calls' = [calls EXCEPT ![i] = no]
              BY <3>1, <4>3 DEF read, answered, refused
        <5> QED BY <5>1, <5>2
      <4>4. CASE c.kind = "history"
        <5>1. calls' = [calls EXCEPT ![i] = ok({}, {}, NULL)]
              BY <3>1, <4>4 DEF read, answered
        <5> QED BY <4>4, <5>1
      <4> QED BY <1>2, <2>3, <4>1, <4>2, <4>3, <4>4 DEF Call, Kinds
    <3> QED BY <1>1, <3>2, <3>3
  <2> QED BY <2>1, <2>2, <2>3
<1>7. InFlight(calls', list.mounted, inbox.mounted, inbox.selectedId, inbox.history, pagesBusy)
  <2>1. CASE calls' = [calls EXCEPT ![i] = no]
    <3> HIDE DEF no
    <3> QED BY <1>1, <1>5, <2>1, AnswerKeeps
  <2>2. ASSUME NEW rows \in SUBSET Requests, NEW marked \in SUBSET Requests, NEW seen \in Stages \cup {NULL},
               c.kind = "open" => seen \in Stages, calls' = [calls EXCEPT ![i] = ok(rows, marked, seen)]
        PROVE  InFlight(calls', list.mounted, inbox.mounted, inbox.selectedId, inbox.history, pagesBusy)
    <3> DEFINE o == ok(rows, marked, seen)
    <3>1. /\ o \in GoodCalls /\ o.kind = c.kind /\ o.id = c.id /\ o.then = c.then
          /\ o.gone = c.gone /\ o.cancelled = c.cancelled
      <4> HIDE DEF c
      <4>1. c.kind = "open" => seen \in Stages
            BY <2>2
      <4> HIDE DEF ok
      <4> QED BY <1>4, <4>1
    <3>2. calls' = [calls EXCEPT ![i] = o]
          BY <2>2
    <3> HIDE DEF o
    <3> QED BY <1>1, <3>1, <3>2, AnswerKeeps
  <2> QED BY <1>6, <2>1, <2>2
<1> QED BY <1>3, <1>6, <1>7
        DEF PagesIInv, MountFits, NavIInv, handlerPage, navVars, pagesBusy, OverlayIsLastOpened

\* Others work on the requests, which no page hears of.
LEMMA ElsewhereStep ==
    ASSUME PagesIInv, NEW r \in Requests, elsewhere(r)
    PROVE  PagesIInv'
<1>1. PICK s \in {"open", "denied", "others"} : served' = [served EXCEPT ![r].stage = s]
      BY DEF elsewhere
<1>2. served' \in [Requests -> [policy : Captured, stage : Stages]]
      BY <1>1 DEF PagesIInv, Stages
<1>3. UNCHANGED <<navVars, list, inbox, calls>>
      BY DEF elsewhere
<1> QED BY <1>2, <1>3
        DEF PagesIInv, MountFits, NavIInv, handlerPage, navVars, pagesBusy, OverlayIsLastOpened

-----------------------------------------------------------------------------
(* Pages come and go. *)

\* Of a page that is left, only what was asked of the server is still under way.
LEMMA LeftFits ==
    ASSUME PagesIInv, NEW h, NEW d
    PROVE  InFlight(left, h, d, NULL, NULL, FALSE)
<1> DEFINE S == {i \in DOMAIN calls : calls[i].kind \in {"act", "decide"} /\ calls[i].status = NULL}
           kept == SetToSeq(S)
           n == Cardinality(S)
<1>1. /\ calls \in Seq(GoodCalls) /\ Len(calls) \in Nat /\ DOMAIN calls = 1..Len(calls)
      /\ CallsFit(calls, list.mounted, inbox.mounted, inbox.selectedId)
      BY LenProperties DEF PagesIInv, InFlight
<1>2. n \in Nat /\ kept \in [1..n -> S]
  <2>1. IsFiniteSet(1..Len(calls))
        BY <1>1, FS_Interval
  <2>2. IsFiniteSet(S)
        BY <1>1, <2>1, FS_Subset
  <2>3. n \in Nat /\ ExistsBijection(1..n, S)
        BY <2>2, FS_CardinalityType
  <2>4. \E f \in [1..n -> S] : IsInjective(f)
        BY <2>3 DEF ExistsBijection, Bijection, Injection
  <2> HIDE DEF S, n
  <2> QED BY <2>3, <2>4 DEF SetToSeq, n
<1>3. left = [m \in 1..n |-> [calls[kept[m]] EXCEPT !.gone = TRUE]]
  <2>1. DOMAIN kept = 1..n
        BY <1>2
  <2> QED BY <2>1 DEF left
<1>4. ASSUME NEW i \in S
      PROVE  /\ [calls[i] EXCEPT !.gone = TRUE] \in GoodCalls
             /\ [calls[i] EXCEPT !.gone = TRUE].kind \in {"act", "decide"}
             /\ [calls[i] EXCEPT !.gone = TRUE].gone
             /\ ~[calls[i] EXCEPT !.gone = TRUE].then
  <2> DEFINE c == calls[i]
             e == [c EXCEPT !.gone = TRUE]
  <2>1. c \in Call /\ CallComplete(c) /\ c.kind \in {"act", "decide"}
        BY <1>1, ElementOfSeq DEF GoodCalls
  <2>2. ~c.then
        BY <1>1, <2>1 DEF CallsFit, CallFits
  <2> HIDE DEF c
  <2>3. /\ e \in Call /\ e.kind = c.kind /\ e.id = c.id /\ e.then = c.then /\ e.gone /\ e.filter = c.filter
        /\ e.to = c.to
        BY <2>1 DEF Call
  <2> HIDE DEF e
  <2>4. e \in GoodCalls
        BY <2>1, <2>2, <2>3 DEF GoodCalls, CallComplete
  <2> QED BY <2>1, <2>2, <2>3, <2>4 DEF c, e
<1> HIDE DEF S, kept, n
<1>5. /\ DOMAIN left = 1..n
      /\ \A m \in 1..n : left[m] \in GoodCalls /\ left[m].kind \in {"act", "decide"} /\ left[m].gone /\ ~left[m].then
      BY <1>2, <1>3, <1>4
<1>6. left \in Seq(GoodCalls)
  <2>1. left = [m \in 1..n |-> left[m]]
        BY <1>3
  <2>2. left \in [1..n -> GoodCalls]
        BY <1>5, <2>1
  <2> QED BY <1>2, <2>2, SeqDef
<1>7. CallsFit(left, h, d, NULL)
      BY <1>5 DEF CallsFit, CallFits
<1>8. OneAwaited(left, FALSE)
      BY <1>5 DEF OneAwaited, Awaited, Waited
<1> QED BY <1>6, <1>7, <1>8 DEF InFlight, HistoryFits

\* Nothing is under way.
LEMMA NoCalls ==
    ASSUME NEW h, NEW d
    PROVE  InFlight(<<>>, h, d, NULL, NULL, FALSE)
<1>1. <<>> \in Seq(GoodCalls) /\ DOMAIN <<>> = {}
      BY EmptySeq, LenProperties
<1> QED BY <1>1 DEF InFlight, CallsFit, HistoryFits, OneAwaited, Awaited

\* A page that is mounted knows nothing yet, and asks for its list.
LEMMA MountStep ==
    ASSUME PagesIInv, NavIInv', nav.user # NULL /\ nav'.user # NULL => nav'.user = nav.user, mount
    PROVE  /\ list' \in List /\ inbox' \in Inbox /\ MountFits'
           /\ InFlight(calls', list'.mounted, inbox'.mounted, inbox'.selectedId, inbox'.history, pagesBusy')
           /\ OverlayIsLastOpened'
<1> DEFINE page == shownPage(nav')
           handler == page = "requests" /\ nav'.user # "SUPER_ADMIN"
           kept == IF nav'.user = nav.user THEN left ELSE <<>>
<1>0. nav \in Nav /\ nav' \in Nav
      BY DEF PagesIInv, NavIInv
<1>1. CASE page = shownPage(nav)
  <2>1. UNCHANGED <<list, inbox, calls>>
        BY <1>1 DEF mount
  <2>2. nav'.user = nav.user
    <3>1. \A n \in Nav : shownPage(n) = NULL <=> n.user = NULL
          BY NameAssumption DEF shownPage, Nav, StaffViews, AdminViews, staffLinks
    <3> QED BY <1>0, <1>1, <3>1
  <2>3. MountFits'
        BY <1>1, <2>1, <2>2 DEF PagesIInv, MountFits, handlerPage
  <2> QED BY <2>1, <2>3 DEF PagesIInv, pagesBusy, OverlayIsLastOpened
<1>2. CASE page # shownPage(nav)
  <2>1. PICK queue \in IF handler THEN {NULL} \cup (ShownTabs \ {"all"}) ELSE {NULL},
             status \in IF page = "approvals" THEN Filters ELSE {"all"} :
             LET tab == initialRequestTab(nav'.user, queue)
             IN  /\ list' = IF handler THEN [noList EXCEPT !.mounted = TRUE, !.tab = tab, !.loading = TRUE] ELSE noList
                 /\ inbox' = IF page = "approvals"
                             THEN [noInbox EXCEPT !.mounted = TRUE, !.status = status, !.loading = TRUE] ELSE noInbox
                 /\ calls' = kept \o (IF handler THEN <<loadCall(tab)>>
                                      ELSE IF page = "approvals" THEN <<inboxCall(status)>> ELSE <<>>)
        BY <1>2 DEF mount
  <2> DEFINE tab == initialRequestTab(nav'.user, queue)
  <2>2. handler => tab \in Tabs
        BY PagesAssumption DEF initialRequestTab, Tabs
  <2>3. status \in Filters
        BY PagesAssumption
  <2>4. /\ noList \in List /\ noInbox \in Inbox
        /\ handler => [noList EXCEPT !.mounted = TRUE, !.tab = tab, !.loading = TRUE] \in List
        /\ [noInbox EXCEPT !.mounted = TRUE, !.status = status, !.loading = TRUE] \in Inbox
    <3> HIDE DEF tab, handler
    <3> QED BY <2>2, <2>3, PagesAssumption DEF noList, noInbox, List, Inbox, Tabs
  <2>5. /\ list'.mounted = handler /\ list'.busy = FALSE /\ list'.detail = NULL /\ list'.openRequestId = NULL
        BY <2>1 DEF noList
  <2>6. /\ inbox'.mounted = (page = "approvals") /\ inbox'.busy = FALSE /\ inbox'.selectedId = NULL
        /\ inbox'.history = NULL /\ inbox'.items = {}
        BY <2>1 DEF noInbox
  <2>7. list' \in List /\ inbox' \in Inbox
        BY <2>1, <2>4
  <2>8. MountFits'
        BY <2>5, <2>6 DEF MountFits, handlerPage
  <2>9. InFlight(kept, list'.mounted, inbox'.mounted, NULL, NULL, FALSE)
        BY LeftFits, NoCalls
  <2>10. kept \in Seq(GoodCalls)
        BY <2>9 DEF InFlight
  <2> HIDE DEF kept
  <2>11. InFlight(calls', list'.mounted, inbox'.mounted, NULL, NULL, FALSE)
    <3>1. CASE handler
      <4> DEFINE c == loadCall(tab)
      <4>1. c \in GoodCalls /\ c.kind = "load" /\ ~c.then /\ ~c.gone
            BY <2>2, <3>1, NewCalls
      <4> HIDE DEF c
      <4>2. CallFits(c, list'.mounted, inbox'.mounted, NULL) /\ ~Waited(c)
            BY <2>5, <3>1, <4>1 DEF CallFits, Waited
      <4>3. calls' = kept \o <<c>>
            BY <2>1, <3>1 DEF c
      <4>4. calls' = Append(kept, c)
            BY <2>10, <4>1, <4>3, AppendIsConcat
      <4> QED BY <2>9, <4>1, <4>2, <4>4, SentFits
    <3>2. CASE ~handler /\ page = "approvals"
      <4> DEFINE c == inboxCall(status)
      <4>1. c \in GoodCalls /\ c.kind = "inbox" /\ ~c.then /\ ~c.gone
            BY <2>3, NewCalls
      <4> HIDE DEF c
      <4>2. CallFits(c, list'.mounted, inbox'.mounted, NULL) /\ ~Waited(c)
            BY <2>6, <3>2, <4>1 DEF CallFits, Waited
      <4>3. calls' = kept \o <<c>>
            BY <2>1, <3>2 DEF c
      <4>4. calls' = Append(kept, c)
            BY <2>10, <4>1, <4>3, AppendIsConcat
      <4> QED BY <2>9, <4>1, <4>2, <4>4, SentFits
    <3>3. CASE ~handler /\ page # "approvals"
      <4>1. calls' = kept \o <<>>
            BY <2>1, <3>3
      <4> QED BY <2>9, <2>10, <4>1, ConcatEmptySeq
    <3> QED BY <3>1, <3>2, <3>3
  <2>12. pagesBusy' = FALSE
        BY <2>5, <2>6 DEF pagesBusy
  <2> QED BY <2>5, <2>6, <2>7, <2>8, <2>11, <2>12 DEF OverlayIsLastOpened
<1> QED BY <1>1, <1>2

\* The requests that are found have a captured policy and a stage.
LEMMA FoundTyped ==
    ASSUME NEW who
    PROVE  Found(who) \subseteq [Requests -> [policy : Captured, stage : Stages]]
<1>1. (CHOOSE p \in Captured : TRUE) \in Captured
      BY PagesAssumption
<1>2. CASE who = NULL
      BY <1>1, <1>2 DEF Found, Stages
<1>3. CASE who # NULL
  <2>1. {q \in [policy : Captured, stage : {"pending", "open"}] : q.policy = "NONE" => q.stage = "open"}
            \subseteq [policy : Captured, stage : Stages]
        BY DEF Stages
  <2> QED BY <1>3, <2>1 DEF Found
<1> QED BY <1>2, <1>3

\* A link, a form, a session or Back.
LEMMA NavigateStep ==
    ASSUME PagesIInv, Navigate
    PROVE  PagesIInv'
<1>1. NavNext /\ mount
      BY DEF Navigate, NavNext
<1>2. NavIInv' /\ (nav.user # NULL /\ nav'.user # NULL => nav'.user = nav.user)
      BY <1>1, NavStep DEF PagesIInv
<1>3. /\ list' \in List /\ inbox' \in Inbox /\ MountFits'
      /\ InFlight(calls', list'.mounted, inbox'.mounted, inbox'.selectedId, inbox'.history, pagesBusy')
      /\ OverlayIsLastOpened'
      BY <1>1, <1>2, MountStep
<1>4. served' \in [Requests -> [policy : Captured, stage : Stages]]
  <2>1. served' \in IF nav'.user = nav.user THEN {served} ELSE Found(nav'.user)
        BY DEF Navigate
  <2> QED BY <2>1, FoundTyped DEF PagesIInv
<1> QED BY <1>2, <1>3, <1>4 DEF PagesIInv

\* The pages start with nothing on them.
LEMMA InitFits ==
    ASSUME Init
    PROVE  PagesIInv
<1>1. NavIInv
  <2>1. PICK l \in Location : nav = opened(l)
        BY DEF Init, NavInit
  <2>2. nav \in Nav /\ nav.user = NULL
        BY <2>1, RoutingTyped DEF opened, Nav
  <2>3. past = <<>> /\ past \in Seq(Location) /\ Len(past) = 0
        BY EmptySeq DEF Init, NavInit
  <2> QED BY <2>2, <2>3, NavigationAssumption, NameAssumption
          DEF NavIInv, NavFits, SuperAdminFits, StaffFits, Staff, People
<1>2. nav.user = NULL
      BY DEF Init, NavInit, opened
<1>3. list = noList /\ inbox = noInbox /\ calls = <<>>
      BY DEF Init
<1>4. list \in List /\ inbox \in Inbox
      BY <1>3, PagesAssumption DEF noList, noInbox, List, Inbox, Tabs
<1>5. MountFits /\ pagesBusy = FALSE /\ OverlayIsLastOpened
      BY <1>2, <1>3, NameAssumption
      DEF MountFits, handlerPage, shownPage, noList, noInbox, pagesBusy, OverlayIsLastOpened, AdminViews
<1>6. InFlight(calls, list.mounted, inbox.mounted, inbox.selectedId, inbox.history, pagesBusy)
  <2>1. inbox.selectedId = NULL /\ inbox.history = NULL
        BY <1>3 DEF noInbox
  <2> QED BY <1>3, <1>5, <2>1, NoCalls
<1>7. served \in [Requests -> [policy : Captured, stage : Stages]]
      BY FoundTyped DEF Init
<1> QED BY <1>1, <1>4, <1>5, <1>6, <1>7 DEF PagesIInv

\* Every step of the pages.
LEMMA PagesStep ==
    ASSUME PagesIInv, [Next]_vars
    PROVE  PagesIInv'
<1>1. CASE Navigate
      BY <1>1, NavigateStep
<1>2. ASSUME NEW tab \in ShownTabs, selectTab(tab)
      PROVE  PagesIInv'
  <2>1. tab \in Tabs
        BY PagesAssumption DEF Tabs
  <2>2. list' = [list EXCEPT !.tab = tab, !.loading = TRUE] /\ calls' = Append(calls, loadCall(tab))
            /\ list.mounted /\ UNCHANGED <<navVars, served, inbox>>
        BY <1>2 DEF selectTab
  <2> QED BY <2>1, <2>2, ListReadStep
<1>3. CASE onSearch
  <2>1. list.tab \in Tabs /\ list \in List
        BY DEF PagesIInv, List
  <2>2. list' = [list EXCEPT !.tab = list.tab, !.loading = TRUE] /\ calls' = Append(calls, loadCall(list.tab))
            /\ list.mounted /\ UNCHANGED <<navVars, served, inbox>>
        BY <1>3, <2>1 DEF onSearch, List
  <2> QED BY <2>1, <2>2, ListReadStep
<1>4. ASSUME NEW r \in Requests, openItem(r) \/ selectItem(r) \/ elsewhere(r)
      PROVE  PagesIInv'
      BY <1>4, OpenItemStep, SelectItemStep, ElsewhereStep
<1>5. CASE closeItem \/ closeInboxItem
      BY <1>5, CloseItemStep, CloseInboxItemStep
<1>6. ASSUME NEW to \in Actions, act(to)
      PROVE  PagesIInv'
      BY <1>6, ActStep
<1>7. ASSUME NEW status \in Filters, setStatus(status)
      PROVE  PagesIInv'
      BY <1>7, SetStatusStep
<1>8. ASSUME NEW to \in {"open", "denied"}, onDecide(to)
      PROVE  PagesIInv'
      BY <1>8, OnDecideStep
<1>9. ASSUME NEW i \in DOMAIN calls, Arrive(i)
      PROVE  PagesIInv'
      BY <1>9, LoadedStep, ItemOpenedStep, ActedStep, InboxLoadedStep, DecidedStep, InboxRefreshedStep,
         HistoryArrivedStep DEF Arrive
<1>10. ASSUME NEW i \in DOMAIN calls, Forgotten(i) \/ serve(i) \/ fail(i)
      PROVE  PagesIInv'
      BY <1>10, ForgottenStep, ServerStep
<1>11. CASE UNCHANGED vars
      BY <1>11 DEF vars, pageVars, navVars, PagesIInv, NavIInv, MountFits, handlerPage, pagesBusy, OverlayIsLastOpened
<1> QED BY <1>1, <1>2, <1>3, <1>4, <1>5, <1>6, <1>7, <1>8, <1>9, <1>10, <1>11 DEF Next

\* The inductive invariant of the pages.
THEOREM PagesInvariance == Spec => []PagesIInv
<1>1. Init => PagesIInv
      BY InitFits
<1>2. PagesIInv /\ [Next]_vars => PagesIInv'
      BY PagesStep
<1> QED BY <1>1, <1>2, PTL DEF Spec

\* The pages, the requests and the calls in flight keep their shape, whatever the order in
\* which answers, navigation and other people come.
THEOREM PagesTyped == Spec => []PagesTypeOK
<1>1. PagesIInv => PagesTypeOK
  <2>1. GoodCalls \subseteq Call
        BY DEF GoodCalls
  <2> QED BY <2>1, SeqMonotonic DEF PagesIInv, PagesTypeOK, NavIInv, InFlight
<1> QED BY <1>1, PagesInvariance, PTL

\* An account that loads the page again, at whatever address and after whatever way it came
\* there, gets the page that it sees, and the form over it when there is one.
THEOREM ReloadsShowTheSame == Spec => []ReloadShowsTheSame
<1>1. PagesIInv => ReloadShowsTheSame
      BY ReloadAgrees DEF PagesIInv
<1> QED BY <1>1, PagesInvariance, PTL

\* The overlay shows the request that was opened last, however late the others answer.
THEOREM OverlaysAreLastOpened == Spec => []OverlayIsLastOpened
<1>1. PagesIInv => OverlayIsLastOpened
      BY DEF PagesIInv
<1> QED BY <1>1, PagesInvariance, PTL

\* The history beside an approval is that of the selected request, or it is on its way.
THEOREM HistoriesAreSelected == Spec => []HistoryIsSelected
<1>1. PagesIInv => HistoryIsSelected
      BY DEF PagesIInv, InFlight, HistoryFits, HistoryIsSelected
<1> QED BY <1>1, PagesInvariance, PTL

\* A page is busy exactly while one call is under way that ends it or goes on: no order of
\* answers leaves its buttons dead or lets a second action start.
THEOREM BusyAwaitsOneCall == Spec => []BusyIsAwaited
<1>1. PagesIInv => BusyIsAwaited
      BY DEF PagesIInv, InFlight, OneAwaited, Awaited, pagesBusy, BusyIsAwaited
<1> QED BY <1>1, PagesInvariance, PTL

\* Sending a call leaves the calls before it where they were.
LEMMA SendExtends ==
    ASSUME NEW S, NEW cs \in Seq(S), NEW c \in S
    PROVE  IsPrefix(cs, Append(cs, c))
<1> DEFINE t == Append(cs, c)
           a == SubSeq(cs, 1, Len(cs))
           b == SubSeq(t, 1, Len(cs))
<1>1. /\ t \in Seq(S) /\ Len(t) = Len(cs) + 1 /\ Len(cs) \in Nat
      /\ \A i \in 1..Len(cs) : t[i] = cs[i] /\ cs[i] \in S
      BY AppendProperties, LenProperties, ElementOfSeq
<1> HIDE DEF t
<1>2. a \in Seq(S) /\ Len(a) = Len(cs) /\ \A i \in 1..Len(cs) : a[i] = cs[i]
  <2>1. /\ a \in Seq(S) /\ Len(a) = (IF 1 <= Len(cs) THEN Len(cs) - 1 + 1 ELSE 0)
        /\ \A i \in 1..(Len(cs) - 1 + 1) : a[i] = cs[1 + i - 1]
        BY <1>1, SubSeqProperties
  <2> QED BY <1>1, <2>1
<1>3. b \in Seq(S) /\ Len(b) = Len(cs) /\ \A i \in 1..Len(cs) : b[i] = t[i]
  <2>1. \A i \in 1..Len(cs) : t[i] \in S
        BY <1>1
  <2>2. /\ b \in Seq(S) /\ Len(b) = (IF 1 <= Len(cs) THEN Len(cs) - 1 + 1 ELSE 0)
        /\ \A i \in 1..(Len(cs) - 1 + 1) : b[i] = t[1 + i - 1]
        BY <1>1, <2>1, SubSeqProperties
  <2> QED BY <1>1, <2>2
<1> HIDE DEF a, b
<1>4. a = b
      BY <1>1, <1>2, <1>3, SeqEqual
<1> QED BY <1>1, <1>4 DEF IsPrefix, t, a, b

\* What can put a request over a list from which nothing was open.
LEMMA OpenedByHand ==
    ASSUME PagesIInv, [Next]_vars, list.openRequestId = NULL, list'.openRequestId # NULL
    PROVE  IsPrefix(calls, calls')
<1>0. list \in List /\ calls \in Seq(GoodCalls)
      BY DEF PagesIInv, InFlight
<1> DEFINE stays == list'.openRequestId = list.openRequestId \/ list'.openRequestId = NULL
<1>1. CASE Navigate
  <2>1. mount
        BY <1>1 DEF Navigate
  <2>2. CASE shownPage(nav') = shownPage(nav)
        BY <2>1, <2>2 DEF mount
  <2>3. CASE shownPage(nav') # shownPage(nav)
    <3> DEFINE new(tab) == [noList EXCEPT !.mounted = TRUE, !.tab = tab, !.loading = TRUE]
    <3>1. list' = noList \/ \E tab : list' = new(tab)
          BY <2>1, <2>3 DEF mount
    <3>2. noList.openRequestId = NULL /\ \A tab : new(tab).openRequestId = NULL
          BY DEF noList
    <3> HIDE DEF new
    <3> QED BY <3>1, <3>2
  <2> QED BY <2>2, <2>3
<1>2. ASSUME NEW tab \in ShownTabs, selectTab(tab)
      PROVE  stays
      BY <1>0, <1>2 DEF selectTab, List
<1>3. CASE onSearch
  <2>1. stays
        BY <1>0, <1>3 DEF onSearch, List
  <2> QED BY <2>1
<1>4. ASSUME NEW r \in Requests, openItem(r)
      PROVE  IsPrefix(calls, calls')
  <2>1. calls' = Append(calls, openCall(r, FALSE))
        BY <1>4 DEF openItem
  <2>2. openCall(r, FALSE) \in GoodCalls
        BY NewCalls
  <2> QED BY <1>0, <2>1, <2>2, SendExtends
<1>5. ASSUME NEW r \in Requests, selectItem(r) \/ elsewhere(r)
      PROVE  stays
      BY <1>5 DEF selectItem, elsewhere
<1>6. CASE closeItem
  <2>1. stays
        BY <1>0, <1>6 DEF closeItem, List
  <2> QED BY <2>1
<1>7. CASE closeInboxItem
      BY <1>7 DEF closeInboxItem
<1>8. ASSUME NEW to \in Actions, act(to)
      PROVE  stays
      BY <1>0, <1>8 DEF act, List
<1>9. ASSUME NEW status \in Filters, setStatus(status)
      PROVE  stays
      BY <1>9 DEF setStatus
<1>10. ASSUME NEW to \in {"open", "denied"}, onDecide(to)
       PROVE  stays
       BY <1>10 DEF onDecide
<1>11. ASSUME NEW i \in DOMAIN calls, loaded(i)
       PROVE  stays
  <2> DEFINE c == calls[i]
             again == c.status = "ok" /\ c.then /\ goesOn(c.id) /\ c.reopens
  <2>1. again => c.id = list.openRequestId
        BY DEF goesOn, wanted
  <2>2. list' = [list EXCEPT !.loading = FALSE,
                              !.rows = IF c.status = "ok" THEN c.rows ELSE @,
                              !.closed = IF c.status = "ok" THEN c.marked ELSE @,
                              !.busy = @ /\ (c.then => again),
                              !.openRequestId = IF again THEN c.id ELSE @]
        BY <1>11 DEF loaded
  <2> HIDE DEF again, c
  <2> QED BY <1>0, <2>1, <2>2 DEF List
<1>12. ASSUME NEW i \in DOMAIN calls, itemOpened(i) \/ acted(i)
       PROVE  stays
  <2>1. CASE itemOpened(i)
        BY <1>0, <2>1 DEF itemOpened, List
  <2>2. CASE acted(i)
        BY <1>0, <2>2 DEF acted, List
  <2> QED BY <1>12, <2>1, <2>2
<1>13. ASSUME NEW i \in DOMAIN calls,
              inboxLoaded(i) \/ decided(i) \/ inboxRefreshed(i) \/ historyArrived(i) \/ Forgotten(i) \/ serve(i) \/ fail(i)
       PROVE  stays
       BY <1>13 DEF inboxLoaded, decided, inboxRefreshed, historyArrived, Forgotten, serve, fail
<1>14. CASE UNCHANGED vars
       BY <1>14 DEF vars, pageVars
<1> QED BY <1>1, <1>2, <1>3, <1>4, <1>5, <1>6, <1>7, <1>8, <1>9, <1>10, <1>11, <1>12, <1>13, <1>14 DEF Next, Arrive

\* A request that was closed while an action on it was under way stays closed: what opens one
\* is somebody who opens a row.
THEOREM ClosedRequestsStayClosed == Spec => ClosedStaysClosed
<1>1. PagesIInv /\ [Next]_vars
         => [list.openRequestId = NULL /\ list'.openRequestId # NULL => IsPrefix(calls, calls')]_vars
      BY OpenedByHand
<1> QED BY <1>1, PagesInvariance, PTL DEF Spec, ClosedStaysClosed
=============================================================================
