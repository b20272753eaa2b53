----------------------------- MODULE Dashboard ------------------------------
(***************************************************************************)
(* The two pages that only read, the dashboard (DashboardComponent) and    *)
(* "Administration" (AdminComponent), in one tab: its role (AuthService),  *)
(* its routes with their guard, and GET /api/users and /api/users/stats,   *)
(* each taken to be answered in one step.                                  *)
(*                                                                         *)
(* A component asks for its data when it is created, by the role of that   *)
(* moment; its template follows the role of the present.  Replies arrive   *)
(* in any order, or not at all, and neither page handles an error.         *)
(***************************************************************************)
EXTENDS Integers, FiniteSets, Listing

CONSTANTS
  Ids,         \* users
  Statuses,    \* what a row shows of a user: last name, role and flag
  LastName,    \* the last name of each status, numbered in their order
  Active,      \* the statuses whose flag is set
  Admins,      \* the statuses whose role is "Admin"
  Terms,       \* contents of the search field, each as the users it matches
  PageSize,    \* rows on a page of the dashboard (8)
  RecentSize,  \* rows of the list on "Administration" (5)
  MaxPage,     \* bound: the pages that are ever asked for
  MaxRequests, \* bound: the requests whose replies are awaited
  None         \* no status, no figures, no reply

ASSUME ConstantsAssumption ==
  /\ IsFiniteSet(Ids) /\ LastName \in [Statuses -> Nat]
  /\ Ids \in Terms /\ None \notin Statuses
  /\ {PageSize, RecentSize} \subseteq Nat \ {0}
  /\ MaxPage \in Nat /\ MaxRequests \in Nat \ {0, 1}

VARIABLES
  accounts,                           \* the server: the status of each user
  role,                               \* of the tab: AuthService's copy
  route,                              \* the page on display
  term, page, users, total, loading,  \* the list and its controls
  figures,                            \* signal stats
  requests,                           \* those under way
  shows,   \* history: where what a page displays comes from (Origins)
  unseen   \* history: what has changed since the latest request was answered

list == <<term, page, users, total, loading>>
vars == <<accounts, role, route, list, figures, requests, shows, unseen>>

UserRoles  == {"User", "Admin", "SuperAdmin"}
IsAdmin(r) == r \in {"Admin", "SuperAdmin"}

\* The pages of the shell, "profile" for those that need no role; its own guard
\* is asked when the shell is entered, and not between its pages.
Pages == {"dashboard", "admin", "profile"}
Guest == "auth"

\* A kind was not on the page when it was created; no reply has come yet; the
\* only requests have failed; an older reply is on display; the latest one is.
Origins == {"absent", "awaited", "failed", "older", "latest"}

Slots     == 1 .. MaxRequests
Kinds     == {"users", "figures"}
NoRequest == [stage |-> "none", kind |-> "users", latest |-> FALSE,
              page |-> 1, term |-> Ids, reply |-> None]

\* What the tables and the cards show.
UserRows == [id : Ids, status : Statuses]
Figures  == [total : Nat, active : Nat, admins : Nat]

-----------------------------------------------------------------------------
(* The server.                                                             *)

Present == {id \in Ids : accounts[id] # None}

\* The rows that page p may have of those whom the term matches.
Rows(p, size, t) ==
  LET found == Present \cap t IN
  {{[id |-> id, status |-> accounts[id]] : id \in slice} :
     slice \in Cuts(found, [id \in found |-> LastName[accounts[id]]], p, size)}

\* What GET /api/users may answer.
GetAll(p, size, t) ==
  [users : Rows(p, size, t), total : {Cardinality(Present \cap t)}]

\* GET /api/users/stats.
Stats == [total  |-> Cardinality(Present),
          active |-> Cardinality({id \in Present : accounts[id] \in Active}),
          admins |-> Cardinality({id \in Present : accounts[id] \in Admins})]

Size == IF route = "admin" THEN RecentSize ELSE PageSize

Answers(kind, p, t) == IF kind = "users" THEN GetAll(p, Size, t) ELSE {Stats}

-----------------------------------------------------------------------------
(* The routes, and what a component asks for when it is created.           *)

\* What the templates display, on the page `at` and in the role r.
Displays(kind, at, r) ==
  \/ at = "admin"
  \/ at = "dashboard" /\ IF kind = "figures" THEN IsAdmin(r) ELSE r = "SuperAdmin"

\* Variant: the figures of the dashboard are for super-administrators only.
DueToFew(kind, at, r) == at = "admin" \/ (at = "dashboard" /\ r = "SuperAdmin")

\* What ngOnInit asks for.
Due(kind, at, r) ==
  \/ at = "admin"
  \/ at = "dashboard" /\ kind = "figures" /\ IsAdmin(r)
  \/ at = "dashboard" /\ kind = "users" /\ r = "SuperAdmin"

\* AuthGuard, on the routes whose data names the administrators' roles.
Landing(url, r) == IF url = "admin" /\ ~IsAdmin(r) THEN "dashboard" ELSE url

\* The interceptor attaches the token, and the API looks at its roles.
Sent(kind, p, t, r) ==
  [stage |-> IF IsAdmin(r) THEN "sent" ELSE "refused", kind |-> kind,
   latest |-> TRUE, page |-> p, term |-> t, reply |-> None]

\* The component at `at` is created; replies to the requests of the one before
\* reach signals that nothing shows any more.
Open(at, r) ==
  /\ role' = r /\ route' = at
  /\ term' = Ids /\ page' = 1 /\ users' = {} /\ total' = 0 /\ figures' = None
  /\ loading' = (at = "dashboard" /\ Due("users", at, r))
  /\ requests' = [q \in Slots |->
       CASE q = 1 /\ Due("users", at, r)   -> Sent("users", 1, Ids, r)
         [] q = 2 /\ Due("figures", at, r) -> Sent("figures", 1, Ids, r)
         [] OTHER                          -> NoRequest]
  /\ shows' = [kind \in Kinds |-> IF Displays(kind, at, r) THEN "awaited" ELSE "absent"]
  /\ unseen' = {}
  /\ UNCHANGED accounts

\* The pages of a guest lead to Keycloak, and from there to the dashboard.
Login(r) == role = "None" /\ Open("dashboard", r)

\* The application is loaded at `url`, after the guard has asked for a login if
\* there was none.
Arrive(url, r) == Open(Landing(url, r), r)

\* A link of the menu or of the dashboard, also when the session has ended: then
\* only the guard of the administrators' pages asks for a login (Arrive).  The
\* router ignores the page it is on.
Follow(url) ==
  /\ route # Guest
  /\ url = "admin" => role # "None"
  /\ Landing(url, role) # route
  /\ Open(Landing(url, role), role)

Init ==
  /\ accounts \in [Ids -> Statuses \cup {None}]
  /\ role = "None" /\ route = Guest
  /\ term = Ids /\ page = 1 /\ users = {} /\ total = 0 /\ figures = None
  /\ loading = FALSE
  /\ requests = [q \in Slots |-> NoRequest]
  /\ shows = [kind \in Kinds |-> "absent"] /\ unseen = {}

\* The refreshed token brings the role that the user has at Keycloak by now.
Refresh(r) ==
  /\ role # "None"
  /\ role' = r
  /\ UNCHANGED <<accounts, route, list, figures, requests, shows, unseen>>

\* OnAuthLogout: the page stays on display.
SessionEnds ==
  /\ role' = "None"
  /\ UNCHANGED <<accounts, route, list, figures, requests, shows, unseen>>

-----------------------------------------------------------------------------
(* The administrator on the two pages.                                     *)

\* Nothing cancels the requests before, or waits for them.
Ask(q, kind, p, t) ==
  /\ requests[q] = NoRequest
  /\ requests' = [k \in Slots |->
       IF k = q THEN Sent(kind, p, t, role)
       ELSE [requests[k] EXCEPT !.latest = @ /\ requests[k].kind # kind]]
  /\ shows' = [shows EXCEPT ![kind] = IF @ = "latest" THEN "older" ELSE @]
  /\ UNCHANGED <<accounts, role, route, users, total, figures, unseen>>

LoadUsers(q, p, t) ==
  /\ route = "dashboard" /\ role = "SuperAdmin"
  /\ Ask(q, "users", p, t)
  /\ page' = p /\ term' = t /\ loading' = TRUE

\* One request for each character that is typed, also if it matches the same.
OnSearch(q, t) == LoadUsers(q, 1, t)

TotalPages  == IF total = 0 THEN 1 ELSE (total + PageSize - 1) \div PageSize
PageNumbers == {p \in 1 .. TotalPages : p \in page - 2 .. page + 2}

\* Variant: the button "‹" is never disabled.
GoToPageUnguarded(q, p) ==
  /\ ~loading /\ TotalPages > 1
  /\ p \in {page - 1, page + 1} \cup PageNumbers
  /\ p <= MaxPage
  /\ LoadUsers(q, p, term)

\* "‹", "›" and the numbered buttons, which a list that is loading covers.  The
\* last page's number disables "›"; a greater one does not.
GoToPage(q, p) ==
  /\ ~loading /\ TotalPages > 1
  /\ \/ p = page - 1 /\ page # 1
     \/ p = page + 1 /\ page # TotalPages
     \/ p \in PageNumbers
  /\ p <= MaxPage
  /\ LoadUsers(q, p, term)

RefreshStats(q) ==
  /\ route = "admin"
  /\ Ask(q, "figures", 1, Ids)
  /\ UNCHANGED <<page, term, loading>>

-----------------------------------------------------------------------------
(* The answers and the network.                                            *)

Answer(q) ==
  LET r == requests[q] IN
  /\ r.stage = "sent"
  /\ \E reply \in Answers(r.kind, r.page, r.term) :
       requests' = [requests EXCEPT ![q] = [r EXCEPT !.stage = "answered",
                                                     !.reply = reply]]
  /\ unseen' = IF r.latest THEN unseen \ {r.kind} ELSE unseen
  /\ UNCHANGED <<accounts, role, route, list, figures, shows>>

Received(q, kind) ==
  /\ requests[q].stage = "answered" /\ requests[q].kind = kind
  /\ requests' = [requests EXCEPT ![q] = NoRequest]
  /\ shows' = [shows EXCEPT ![kind] =
                 IF requests[q].latest THEN "latest" ELSE "older"]
  /\ UNCHANGED <<accounts, role, route, term, page, unseen>>

\* Variant: the reply's total is not kept.
ShowUsersOnly(q) ==
  /\ Received(q, "users")
  /\ users' = requests[q].reply.users
  /\ loading' = FALSE
  /\ UNCHANGED <<total, figures>>

\* The list on "Administration" has no total.
ShowUsers(q) ==
  /\ Received(q, "users")
  /\ users' = requests[q].reply.users
  /\ total' = IF route = "dashboard" THEN requests[q].reply.total ELSE total
  /\ loading' = FALSE
  /\ UNCHANGED figures

ShowFigures(q) ==
  /\ Received(q, "figures")
  /\ figures' = requests[q].reply
  /\ UNCHANGED <<users, total, loading>>

\* A lost reply, an error, a refusal for want of a role: no handler is there.
Fails(q) ==
  /\ requests[q] # NoRequest
  /\ requests' = [requests EXCEPT ![q] = NoRequest]
  /\ shows' = [shows EXCEPT ![requests[q].kind] =
                 IF @ = "awaited" THEN "failed" ELSE @]
  /\ UNCHANGED <<accounts, role, route, list, figures, unseen>>

\* Accounts are created, changed and deleted elsewhere.
Others(id, s) ==
  /\ accounts[id] # s
  /\ accounts' = [accounts EXCEPT ![id] = s]
  /\ unseen' = Kinds
  /\ UNCHANGED <<role, route, list, figures, requests, shows>>

-----------------------------------------------------------------------------
Next ==
  \/ \E r \in UserRoles : Login(r) \/ \E url \in Pages : Arrive(url, r)
  \/ \E url \in Pages : Follow(url)
  \/ \E r \in UserRoles : Refresh(r)
  \/ SessionEnds
  \/ \E q \in Slots : \/ \E t \in Terms : OnSearch(q, t)
                      \/ \E p \in 0 .. MaxPage : GoToPage(q, p)
                      \/ RefreshStats(q)
                      \/ Answer(q) \/ ShowUsers(q) \/ ShowFigures(q) \/ Fails(q)
  \/ \E id \in Ids, s \in Statuses \cup {None} : Others(id, s)

Spec == Init /\ [][Next]_vars

-----------------------------------------------------------------------------
(* Properties.                                                             *)

Replies  == [users : SUBSET UserRows, total : Nat]
Requests == [stage : {"none", "sent", "refused", "answered"}, kind : Kinds,
             latest : BOOLEAN, page : Nat, term : Terms,
             reply : Replies \cup Figures \cup {None}]

\* The types of the variables, and that a reply is what its request asked for.
\* That pages count from 1 is for the buttons to ensure: the API computes an
\* offset from the number that it is sent.
TypeOK ==
  /\ accounts \in [Ids -> Statuses \cup {None}]
  /\ role \in UserRoles \cup {"None"} /\ route \in Pages \cup {Guest}
  /\ term \in Terms /\ page \in Nat \ {0} /\ users \in SUBSET UserRows
  /\ total \in Nat /\ loading \in BOOLEAN /\ figures \in Figures \cup {None}
  /\ requests \in [Slots -> Requests]
  /\ \A q \in Slots : requests[q].stage = "answered" =>
       requests[q].reply \in IF requests[q].kind = "users" THEN Replies ELSE Figures
  /\ shows \in [Kinds -> Origins] /\ unseen \in SUBSET Kinds

UnderWay(kind) == {q \in Slots : requests[q] # NoRequest /\ requests[q].kind = kind}

AtRest(kind) == UnderWay(kind) = {} /\ shows[kind] = "latest" /\ kind \notin unseen

\* When a page has come to rest, its list is what the server may answer to
\* the search term and the page number that it shows, and the figures are those
\* of the accounts, however the requests of the keystrokes and of the button
\* "Actualiser" have overtaken each other.
ShowsTheServer ==
  /\ AtRest("users") =>
       /\ ~loading
       /\ users \in Rows(page, Size, term)
       /\ route = "dashboard" => total = Cardinality(Present \cap term)
  /\ AtRest("figures") => figures = Stats

\* Nothing is left out: what a page displays to the role of the present, the
\* skeletons and the text "Aucun utilisateur trouvé" included, is filled or will
\* be by a request under way, unless a request has failed or the role was
\* lesser when the page was created.
NothingLeftOut ==
  \A kind \in Kinds :
    Displays(kind, route, role) /\ UnderWay(kind) = {} => shows[kind] # "awaited"
=============================================================================
