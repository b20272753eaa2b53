------------------------------- MODULE Profile ------------------------------
(***************************************************************************)
(* The profile of one user: his row of table Users, the copy of it that    *)
(* his browser keeps (AuthService.currentUser, shown by the shell and the  *)
(* profile page), and those who write the row, he himself on the page "Mon *)
(* profil" and administrators on the page "Utilisateurs".                  *)
(*                                                                         *)
(* A request outlives the page that sent it, which may be left, and the    *)
(* tab, which may be reloaded.  The form of the page is filled only if the *)
(* profile is there when the page is opened; what an administrator sends   *)
(* is any row, as his comes from a table that may be old.                  *)
(***************************************************************************)
EXTENDS EfCore

CONSTANTS
  Fields,    \* the columns both forms write (names, telephone, department)
  Values,    \* what a form accepts in them
  Blank,     \* the value of a field that has not been filled
  Required,  \* the fields without which the form sends nothing (the names)
  Requests,  \* slots for requests under way
  None

ASSUME ConstantsAssumption ==
  None \notin [Fields -> Values] /\ Blank \in Values /\ Required \subseteq Fields

Rows == [Fields -> Values]

VARIABLES
  row,      \* table Users
  boot,     \* how far the application in the tab has come
  current,  \* AuthService._currentUser
  view,     \* the page "Mon profil" and its two `saving` flags
  form,     \* infoForm
  req,      \* the requests under way
  known,    \* history: `current` comes from a reply with no save of somebody
            \* else between the read it rests on and now
  filled,   \* history: the form was filled with such a copy, and nobody else
            \* has saved since
  typed     \* history: the fields the user has typed into

page == <<view, form, filled, typed>>
app  == <<boot, current, known, page>>
vars == <<row, req, app>>

\* kind: GET /me, PUT /me, PUT /{id} or PUT /me/password.
\* to: what is still there to take the reply: the page that sent the request,
\* only the tab (and AuthService in it), or nothing.
\* clean: history, no other save since this request has read the row.
NoRequest == [kind |-> "none", stage |-> "none", to |-> "nobody",
              read |-> None, asked |-> None, clean |-> FALSE]
Away      == [open |-> FALSE, saving |-> FALSE, savingPwd |-> FALSE]
Empty     == [f \in Fields |-> Blank]

NoForm == form' = Empty /\ filled' = FALSE /\ typed' = {}

Init ==
  /\ row \in Rows
  /\ boot = "starting" /\ current = None /\ view = Away
  /\ req = [q \in Requests |-> NoRequest]
  /\ known = FALSE
  /\ form = Empty /\ filled = FALSE /\ typed = {}

\* After a logout the interceptor has no token to add, and the API refuses.
Send(q, kind, to, asked) ==
  /\ req[q] = NoRequest
  /\ req' = [req EXCEPT ![q] = [NoRequest EXCEPT
               !.kind = kind, !.to = to, !.asked = asked,
               !.stage = IF boot = "out" THEN "refused" ELSE "sent"]]

Free(q) == req' = [req EXCEPT ![q] = NoRequest]

-----------------------------------------------------------------------------
(* The session.                                                            *)

\* APP_INITIALIZER waits for keycloak.init, which finds the user logged in and
\* emits OnAuthSuccess and OnReady: nobody has subscribed yet.
KeycloakInit ==
  /\ boot = "starting"
  /\ boot' = "bootstrapped"
  /\ UNCHANGED <<row, current, page, req, known>>

\* The first component that injects AuthService, behind AuthGuard.
AuthServiceCreated ==
  /\ boot = "bootstrapped"
  /\ boot' = "running"
  /\ UNCHANGED <<row, current, page, req, known>>

\* Variant: the events of a login load the profile, a refresh does not.
TokenRefreshedUnheard(q) ==
  /\ boot = "running" /\ current = None
  /\ UNCHANGED vars

\* OnAuthRefreshSuccess; it changes nothing once the profile is there.
TokenRefreshed(q) ==
  /\ boot = "running" /\ current = None
  /\ Send(q, "load", "tab", None)
  /\ UNCHANGED <<row, app>>

\* OnAuthLogout: the refresh was refused, or the single sign-on session ended.
LoggedOut ==
  /\ boot = "running"
  /\ boot' = "out" /\ current' = None
  /\ known' = FALSE
  /\ UNCHANGED <<row, page, req>>

\* The tab is loaded again; so it is by login() and logout().
Reload ==
  /\ boot # "starting"
  /\ boot' = "starting" /\ current' = None /\ view' = Away /\ NoForm
  /\ req' = [q \in Requests |-> [req[q] EXCEPT !.to = "nobody"]]
  /\ known' = FALSE
  /\ UNCHANGED row

-----------------------------------------------------------------------------
(* The page "Mon profil".                                                  *)

\* Variant: the form is not filled.
OpenPageBlank ==
  /\ boot \in {"running", "out"} /\ ~view.open
  /\ view' = [Away EXCEPT !.open = TRUE]
  /\ form' = Empty /\ filled' = known
  /\ UNCHANGED <<row, boot, current, req, known, typed>>

\* AuthGuard lets the user into the shell; it is not asked again for the pages
\* inside, also after a logout.  ngOnInit fills the form, once.
OpenPage ==
  /\ boot \in {"running", "out"} /\ ~view.open
  /\ view' = [Away EXCEPT !.open = TRUE]
  /\ form' = IF current = None THEN Empty ELSE current
  /\ filled' = known
  /\ UNCHANGED <<row, boot, current, req, known, typed>>

LeavePage ==
  /\ view.open
  /\ view' = Away /\ NoForm
  /\ req' = [q \in Requests |->
               [req[q] EXCEPT !.to = IF @ = "page" THEN "tab" ELSE @]]
  /\ UNCHANGED <<row, boot, current, known>>

Type(f, v) ==
  /\ view.open
  /\ form' = [form EXCEPT ![f] = v]
  /\ typed' = typed \cup {f}
  /\ UNCHANGED <<row, boot, current, known, view, filled, req>>

\* All fields are sent, those that the user has not touched too.
SaveInfo(q) ==
  /\ view.open /\ ~view.saving
  /\ \A f \in Required : form[f] # Blank
  /\ Send(q, "own", "page", form)
  /\ view' = [view EXCEPT !.saving = TRUE]
  /\ UNCHANGED <<row, boot, current, known, form, filled, typed>>

SavePassword(q) ==
  /\ view.open /\ ~view.savingPwd
  /\ Send(q, "password", "page", None)
  /\ view' = [view EXCEPT !.savingPwd = TRUE]
  /\ UNCHANGED <<row, boot, current, known, form, filled, typed>>

-----------------------------------------------------------------------------
(* Administrators, in tabs of their own.                                   *)

AdministratorSaves(q, asked) ==
  /\ req[q] = NoRequest
  /\ req' = [req EXCEPT ![q] = [NoRequest EXCEPT !.kind = "admin",
                                  !.stage = "sent", !.asked = asked]]
  /\ UNCHANGED <<row, app>>

-----------------------------------------------------------------------------
(* UsersController.                                                        *)

\* FindAsync of GetMe, UpdateMe and Update.
Find(q) ==
  /\ req[q].stage = "sent" /\ req[q].kind # "password"
  /\ req' = [req EXCEPT ![q].stage = "read", ![q].read = row, ![q].clean = TRUE]
  /\ UNCHANGED <<row, app>>

\* SaveChangesAsync of UpdateMe and Update.
SaveChanges(q) ==
  LET asked == req[q].asked IN
  /\ req[q].stage = "read" /\ req[q].kind \in {"own", "admin"}
  /\ row' = [f \in Fields |-> Column(row[f], req[q].read[f], asked[f])]
  /\ req' = [k \in Requests |-> IF k = q THEN [req[q] EXCEPT !.stage = "saved"]
                                ELSE [req[k] EXCEPT !.clean = FALSE]]
  /\ known' = FALSE
  /\ filled' = (filled /\ req[q].kind = "own" /\ req[q].to = "page")
  /\ UNCHANGED <<boot, current, view, form, typed>>

\* No action of the controller has the route of the password.
NoSuchRoute(q) ==
  /\ req[q].stage = "sent" /\ req[q].kind = "password"
  /\ req' = [req EXCEPT ![q].stage = "unrouted"]
  /\ UNCHANGED <<row, app>>

-----------------------------------------------------------------------------
(* Replies.                                                                *)

\* The subscription of loadProfile has no error handler and nothing ends it.
Loaded(q) ==
  /\ req[q].kind = "load" /\ req[q].stage = "read"
  /\ Free(q)
  /\ IF req[q].to = "nobody" THEN UNCHANGED <<current, known>>
     ELSE current' = req[q].read /\ known' = req[q].clean
  /\ UNCHANGED <<row, boot, page>>

Saving(q, flag) == IF req[q].to = "page" /\ req[q].kind = "own" THEN flag
                                                               ELSE view.saving

\* Variant: the page does not pass the profile on to AuthService.
SavedOnly(q) ==
  /\ req[q].kind = "own" /\ req[q].stage = "saved"
  /\ Free(q)
  /\ view' = [view EXCEPT !.saving = Saving(q, FALSE)]
  /\ IF req[q].to = "nobody" THEN UNCHANGED known ELSE known' = req[q].clean
  /\ UNCHANGED <<row, boot, current, form, filled, typed>>

\* UpdateMe answers with the entity, all of whose fields it has assigned.
Saved(q) ==
  /\ req[q].kind = "own" /\ req[q].stage = "saved"
  /\ Free(q)
  /\ view' = [view EXCEPT !.saving = Saving(q, FALSE)]
  /\ IF req[q].to = "nobody" THEN UNCHANGED <<current, known>>
     ELSE current' = req[q].asked /\ known' = req[q].clean
  /\ UNCHANGED <<row, boot, form, filled, typed>>

AdministratorDone(q) ==
  /\ req[q].kind = "admin" /\ req[q].stage = "saved"
  /\ Free(q)
  /\ UNCHANGED <<row, app>>

\* An error, at any stage: GetUserStatusAsync may fail after the row is saved.
Failed(q) ==
  /\ req[q] # NoRequest
  /\ Free(q)
  /\ view' = [view EXCEPT !.saving = Saving(q, FALSE),
                !.savingPwd = @ /\ ~(req[q].kind = "password" /\ req[q].to = "page")]
  /\ UNCHANGED <<row, boot, current, known, form, filled, typed>>

-----------------------------------------------------------------------------
Session == KeycloakInit \/ AuthServiceCreated \/ LoggedOut \/ Reload

User == \/ OpenPage \/ LeavePage
        \/ \E f \in Fields, v \in Values : Type(f, v)
        \/ \E q \in Requests : SavePassword(q) \/ SaveInfo(q)

Ends(q) == Loaded(q) \/ Saved(q) \/ AdministratorDone(q) \/ Failed(q)

Next ==
  \/ Session \/ User
  \/ \E q \in Requests :
       \/ TokenRefreshed(q)
       \/ \E asked \in Rows : AdministratorSaves(q, asked)
       \/ Find(q) \/ SaveChanges(q) \/ NoSuchRoute(q) \/ Ends(q)

Spec == Init /\ [][Next]_vars

\* The tab starts up, every request ends, and not every profile request fails.
FairSpec ==
  /\ Spec
  /\ WF_vars(KeycloakInit) /\ WF_vars(AuthServiceCreated)
  /\ \A q \in Requests : /\ WF_vars(Ends(q))
                         /\ SF_vars(req[q].kind = "load" /\ Find(q))
                         /\ SF_vars(Loaded(q))

\* Moreover the user stays long enough for his token to be refreshed.
LongSession == FairSpec /\ SF_vars(\E q \in Requests : TokenRefreshed(q))

-----------------------------------------------------------------------------
(* Properties.                                                             *)

MaybeRow == Rows \cup {None}
Kinds    == {"none", "load", "own", "admin", "password"}
Stages   == {"none", "sent", "refused", "read", "saved", "unrouted"}

TypeOK ==
  /\ row \in Rows
  /\ boot \in {"starting", "bootstrapped", "running", "out"}
  /\ current \in MaybeRow
  /\ view \in [open : BOOLEAN, saving : BOOLEAN, savingPwd : BOOLEAN]
  /\ req \in [Requests -> [kind : Kinds, stage : Stages,
                           to : {"page", "tab", "nobody"}, read : MaybeRow,
                           asked : MaybeRow, clean : BOOLEAN]]
  /\ known \in BOOLEAN /\ filled \in BOOLEAN
  /\ form \in Rows /\ typed \subseteq Fields

\* The shell and the profile page show the row as it is stored, unless someone
\* else has saved it since the request they show the reply of has read it:
\* UpdateMe answers with its entity and never reads the row again, its UPDATE
\* names only some columns, and pages and tabs come and go meanwhile.
HeaderFaithful == known => current = row

\* The form sends every field, so that those the user leaves alone must show the
\* row as it is stored: his own saves from this page keep that so, and it holds
\* unless the page was opened before the profile was there, or with one that was
\* old, or somebody else (or an earlier page of his) has saved since.
FormFaithful ==
  view.open /\ filled => \A f \in Fields \ typed : form[f] = row[f]

\* What the design says of currentUser: loaded through GET /api/users/me after
\* a login that succeeded.
ProfileShown == boot = "running" ~> current # None \/ boot # "running"
=============================================================================
