------------------------------ MODULE Accounts ------------------------------
(***************************************************************************)
(* The accounts API: UsersController, KeycloakAdminService and the profile *)
(* provisioning of the request pipeline, over two stores that share no     *)
(* transaction, Keycloak's realm and the PostgreSQL table Users.           *)
(*                                                                         *)
(* One action per awaited call, as in Memoires; `Leave` ends a request     *)
(* wherever it stands (its reply, an HTTP error of Keycloak, an exception, *)
(* the API process stopping).  The administrators who send requests have   *)
(* profiles of their own, which are not among Ids.                         *)
(***************************************************************************)
CONSTANTS
  Ids,         \* Keycloak's user ids; bounds how many accounts are ever made
  Emails,      \* addresses in lower case, as Keycloak and the API store them
  Roles,       \* the application's realm roles (AppRoles)
  RealmRoles,  \* every role of the realm, Keycloak's own included
  Requested,   \* role names that clients send; some may be no realm role
  Requests,    \* slots for requests in progress
  Managers,    \* the slots that may serve Create, SetRole or ToggleActive
  Deleters,    \* the slots that may serve Delete
  Null

ASSUME ConstantsAssumption ==
  /\ Roles \subseteq RealmRoles
  /\ Managers \subseteq Requests
  /\ Deleters \subseteq Requests
  /\ Null \notin Ids \cup Emails \cup Requested

VARIABLES
  address,   \* the e-mail an id was created with (Null: id not yet given out)
  accounts,  \* Keycloak: the ids of existing accounts
  enabled,   \* Keycloak: those that may log in
  roles,     \* Keycloak: the application roles mapped to each account
  tokens,    \* the subs of access tokens that still validate
  profiles,  \* the ids that have a row in table Users
  req        \* where each request stands and what it holds

Keycloak == <<address, accounts, enabled, roles, tokens>>
vars     == <<Keycloak, profiles, req>>

PCs == {"idle", "provision", "served", "post", "list", "detach", "lookup",
        "attach", "insert", "status", "enable", "kcdelete", "rowdelete"}

Request == [pc       : PCs,
            id       : Ids \cup {Null},
            email    : Emails \cup {Null},
            role     : Requested \cup {Null},
            listed   : SUBSET Roles,    \* the roles it found, to be removed
            creating : BOOLEAN,         \* SetRoleAsync called by CreateUserAsync
            active   : BOOLEAN]         \* the `enabled` flag it read

Idle == [pc |-> "idle", id |-> Null, email |-> Null, role |-> Null,
         listed |-> {}, creating |-> FALSE, active |-> FALSE]

Init == /\ address = [id \in Ids |-> Null]
        /\ accounts = {}
        /\ enabled = {}
        /\ roles = [id \in Ids |-> {}]
        /\ tokens = {}
        /\ profiles = {}
        /\ req = [r \in Requests |-> Idle]

At(r, pc)    == req[r].pc = pc
Become(r, q) == req' = [req EXCEPT ![r] = q]
Goto(r, pc)  == Become(r, [req[r] EXCEPT !.pc = pc])
End(r)       == Become(r, Idle)

\* Variant: no unique index on Users.Email.
NoUniqueEmail(e) == FALSE

\* The unique index on Users.Email, and Keycloak's unique e-mails.
ProfileHas(e) == \E id \in profiles : address[id] = e
AccountHas(e) == \E id \in accounts : address[id] = e

Leave(r) == /\ ~At(r, "idle")
            /\ End(r)
            /\ UNCHANGED <<Keycloak, profiles>>

-----------------------------------------------------------------------------
(* Keycloak itself.                                                        *)

NewAccount(id, e) ==
  /\ address[id] = Null
  /\ ~AccountHas(e)
  /\ address' = [address EXCEPT ![id] = e]
  /\ accounts' = accounts \cup {id}
  /\ enabled' = enabled \cup {id}

\* Someone registers on Keycloak's own page, and gets no application role.
Register(id, e) ==
  /\ NewAccount(id, e)
  /\ UNCHANGED <<roles, tokens, profiles, req>>

\* A login.  The API validates the token offline, so it stays good until it
\* expires, whatever becomes of the account.
IssueToken(id) ==
  /\ id \in accounts \cap enabled
  /\ tokens' = tokens \cup {id}
  /\ UNCHANGED <<address, accounts, enabled, roles, profiles, req>>

ExpireToken(id) ==
  /\ id \in tokens
  /\ tokens' = tokens \ {id}
  /\ UNCHANGED <<address, accounts, enabled, roles, profiles, req>>

-----------------------------------------------------------------------------
(* Any authenticated request: EnsureProfileAsync, then the handler.        *)

Visit(r, id) ==
  /\ At(r, "idle")
  /\ id \in tokens
  /\ Become(r, [req[r] EXCEPT !.id = id,
                              !.pc = IF id \in profiles THEN "served"
                                                        ELSE "provision"])
  /\ UNCHANGED <<Keycloak, profiles>>

\* Variant: the new row is never saved.
ProvisionUnsaved(r) == /\ At(r, "provision")
                       /\ Goto(r, "served")
                       /\ UNCHANGED <<Keycloak, profiles>>

\* The INSERT fails when the id or the e-mail has a row already; either
\* exception is logged and the request goes on.
Provision(r) ==
  LET id == req[r].id IN
  /\ At(r, "provision")
  /\ profiles' = IF id \in profiles \/ ProfileHas(address[id])
                 THEN profiles ELSE profiles \cup {id}
  /\ Goto(r, "served")
  /\ UNCHANGED Keycloak

-----------------------------------------------------------------------------
(* POST /api/users                                                         *)

\* The existing e-mails are compared with the text the client sent: a row is
\* found only if that text was in lower case (the answer is then 409).
Create(r, e, role, lower) ==
  /\ At(r, "idle")
  /\ r \in Managers
  /\ lower => ~ProfileHas(e)
  /\ Become(r, [req[r] EXCEPT !.pc = "post", !.email = e, !.role = role,
                              !.creating = TRUE])
  /\ UNCHANGED <<Keycloak, profiles>>

\* Variant: the profile is inserted before the role has been given.
PostUserWithoutRole(r, id) ==
  /\ At(r, "post")
  /\ NewAccount(id, req[r].email)
  /\ Become(r, [req[r] EXCEPT !.pc = "insert", !.id = id])
  /\ UNCHANGED <<roles, tokens, profiles>>

PostUser(r, id) ==
  /\ At(r, "post")
  /\ NewAccount(id, req[r].email)
  /\ Become(r, [req[r] EXCEPT !.pc = "list", !.id = id])
  /\ UNCHANGED <<roles, tokens, profiles>>

\* No exception is caught here: a second row for the id or the e-mail is a 500.
InsertProfile(r) ==
  /\ At(r, "insert")
  /\ req[r].id \notin profiles
  /\ ~ProfileHas(req[r].email)
  /\ profiles' = profiles \cup {req[r].id}
  /\ End(r)
  /\ UNCHANGED Keycloak

-----------------------------------------------------------------------------
(* PATCH /api/users/{id}/role, and SetRoleAsync within Create.             *)

SetRole(r, id, role) ==
  /\ At(r, "idle")
  /\ r \in Managers
  /\ id \in profiles                                            \* else 404
  /\ Become(r, [req[r] EXCEPT !.pc = "list", !.id = id, !.role = role])
  /\ UNCHANGED <<Keycloak, profiles>>

\* Variant: the old role is listed but not removed.
ListRolesOnly(r) ==
  /\ At(r, "list")
  /\ req[r].id \in accounts
  /\ Goto(r, "lookup")
  /\ UNCHANGED <<Keycloak, profiles>>

\* Every call for an account that is gone is answered 404 and throws: Leave.
ListRoles(r) ==
  LET listed == roles[req[r].id] IN
  /\ At(r, "list")
  /\ req[r].id \in accounts
  /\ Become(r, [req[r] EXCEPT !.listed = listed,
                              !.pc = IF listed = {} THEN "lookup"
                                                    ELSE "detach"])
  /\ UNCHANGED <<Keycloak, profiles>>

RemoveRoles(r) ==
  /\ At(r, "detach")
  /\ req[r].id \in accounts
  /\ roles' = [roles EXCEPT ![req[r].id] = @ \ req[r].listed]
  /\ Goto(r, "lookup")
  /\ UNCHANGED <<address, accounts, enabled, tokens, profiles>>

\* An unknown role is found out only now, after the old one was removed.
LookupRole(r) ==
  /\ At(r, "lookup")
  /\ req[r].role \in RealmRoles
  /\ Goto(r, "attach")
  /\ UNCHANGED <<Keycloak, profiles>>

\* Variant: roles of the realm that are not the application's count as its own.
GrantedAny(r) == {req[r].role}

\* Any role of the realm can be asked for, and takes the place of the
\* application's role.
Granted(r) == {req[r].role} \cap Roles

AddRole(r) ==
  /\ At(r, "attach")
  /\ req[r].id \in accounts
  /\ roles' = [roles EXCEPT ![req[r].id] = @ \cup Granted(r)]
  /\ IF req[r].creating THEN Goto(r, "insert") ELSE End(r)
  /\ UNCHANGED <<address, accounts, enabled, tokens, profiles>>

-----------------------------------------------------------------------------
(* PATCH /api/users/{id}/toggle-active                                     *)

ToggleActive(r, id) ==
  /\ At(r, "idle")
  /\ r \in Managers
  /\ id \in profiles                                            \* else 404
  /\ Become(r, [req[r] EXCEPT !.pc = "status", !.id = id])
  /\ UNCHANGED <<Keycloak, profiles>>

\* Variant: the `enabled` flag of Keycloak's answer is never read.
ReadStatusDefault(r) ==
  /\ At(r, "status")
  /\ Become(r, [req[r] EXCEPT !.pc = "enable", !.active = FALSE])
  /\ UNCHANGED <<Keycloak, profiles>>

\* An account that is gone reads as disabled.
ReadStatus(r) ==
  /\ At(r, "status")
  /\ Become(r, [req[r] EXCEPT !.pc = "enable",
                              !.active = req[r].id \in accounts \cap enabled])
  /\ UNCHANGED <<Keycloak, profiles>>

PutEnabled(r) ==
  /\ At(r, "enable")
  /\ req[r].id \in accounts
  /\ enabled' = IF req[r].active THEN enabled \ {req[r].id}
                                 ELSE enabled \cup {req[r].id}
  /\ End(r)
  /\ UNCHANGED <<address, accounts, roles, tokens, profiles>>

-----------------------------------------------------------------------------
(* DELETE /api/users/{id}                                                  *)

\* Variant: the profile is deleted first, and the account left for later.
DeleteRowFirst(r, id) ==
  /\ At(r, "idle")
  /\ r \in Deleters
  /\ id \in profiles
  /\ Become(r, [req[r] EXCEPT !.pc = "rowdelete", !.id = id])
  /\ UNCHANGED <<Keycloak, profiles>>

Delete(r, id) ==
  /\ At(r, "idle")
  /\ r \in Deleters
  /\ id \in profiles                                            \* else 404
  /\ Become(r, [req[r] EXCEPT !.pc = "kcdelete", !.id = id])
  /\ UNCHANGED <<Keycloak, profiles>>

\* An account that is gone already is a 404, which throws: Leave.
DeleteAccount(r) ==
  LET id == req[r].id IN
  /\ At(r, "kcdelete")
  /\ id \in accounts
  /\ accounts' = accounts \ {id}
  /\ enabled' = enabled \ {id}
  /\ roles' = [roles EXCEPT ![id] = {}]
  /\ Goto(r, "rowdelete")
  /\ UNCHANGED <<address, tokens, profiles>>

DeleteProfile(r) ==
  /\ At(r, "rowdelete")
  /\ req[r].id \in profiles
  /\ profiles' = profiles \ {req[r].id}
  /\ End(r)
  /\ UNCHANGED Keycloak

-----------------------------------------------------------------------------
Identity(id) == \/ \E e \in Emails : Register(id, e)
                \/ IssueToken(id) \/ ExpireToken(id)

CreateStep(r) ==
  \/ \E e \in Emails, role \in Requested, lower \in BOOLEAN :
       Create(r, e, role, lower)
  \/ \E id \in Ids : PostUser(r, id)
  \/ InsertProfile(r)

RoleStep(r) == \/ \E id \in Ids, role \in Requested : SetRole(r, id, role)
               \/ ListRoles(r) \/ RemoveRoles(r) \/ LookupRole(r) \/ AddRole(r)

ToggleStep(r) == \/ \E id \in Ids : ToggleActive(r, id)
                 \/ ReadStatus(r) \/ PutEnabled(r)

DeleteStep(r) == \/ \E id \in Ids : Delete(r, id)
                 \/ DeleteAccount(r) \/ DeleteProfile(r)

Step(r) == \/ \E id \in Ids : Visit(r, id)
           \/ Provision(r)
           \/ CreateStep(r) \/ RoleStep(r) \/ ToggleStep(r) \/ DeleteStep(r)
           \/ Leave(r)

Next == \/ \E id \in Ids : Identity(id)
        \/ \E r \in Requests : Step(r)

Spec == Init /\ [][Next]_vars

-----------------------------------------------------------------------------
(* Properties.                                                             *)

\* What a request in progress holds at each stage.
StageOK(q) ==
  /\ q.pc \in {"provision", "served", "list", "detach", "lookup", "attach",
               "insert", "status", "enable", "kcdelete", "rowdelete"}
       => q.id \in Ids /\ address[q.id] # Null
  /\ q.pc \in {"post", "insert"} \/ q.creating => q.email \in Emails
  /\ q.pc \in {"post", "list", "detach", "lookup", "attach", "insert"}
       => q.role \in Requested

\* Every variable keeps its type, and only ids that were given out are in use.
TypeOK ==
  /\ address \in [Ids -> Emails \cup {Null}]
  /\ accounts \subseteq Ids
  /\ enabled \subseteq accounts
  /\ roles \in [Ids -> SUBSET Roles]
  /\ tokens \subseteq Ids
  /\ profiles \subseteq Ids
  /\ \A id \in accounts \cup tokens \cup profiles : address[id] # Null
  /\ req \in [Requests -> Request]
  /\ \A r \in Requests : StageOK(req[r])

\* A profile is removed only after its account: at no time can the account
\* still log in while the profile, and with it the user's mémoires, is going.
ProfileGoesLast == [][\A id \in profiles \ profiles' : id \notin accounts]_vars

\* An account has at most one of the application's roles at any time, although
\* its role is replaced in three calls and any of them may be the last.
AtMostOneRole == \A id \in accounts : \A a, b \in roles[id] : a = b

\* When a creation ends well, its account (if it was not deleted meanwhile)
\* has the application role that was asked for and no other, though the user
\* may have logged in and used the API while it was being created.
CreatedAsAsked ==
  [][\A r \in Requests :
       InsertProfile(r) /\ req[r].id \in accounts
         => roles[req[r].id] = Granted(r)]_vars

\* A toggle that ends well has changed whether the account may log in.
ToggleFlips == [][\A r \in Requests : PutEnabled(r) => enabled' # enabled]_vars

\* The e-mail of an account belonged, before, to an account that was deleted.
EmailReused(id) == \E other \in Ids \ accounts : address[other] = address[id]

\* The exception that EnsureProfileAsync swallows is only ever a lost race: a
\* request is served although its user has no profile only if the e-mail was
\* taken over from a deleted account, whose profile may still hold it.
ServedHasProfile ==
  \A r \in Requests : At(r, "served") /\ req[r].id \in accounts
                        => req[r].id \in profiles \/ EmailReused(req[r].id)

\* The directory that the administrators see, over the two stores.
DirectoryView ==
  [id \in Ids |->
     [email   |-> address[id],
      login   |-> IF id \notin accounts THEN "none"
                  ELSE IF id \in enabled THEN "open" ELSE "blocked",
      roles   |-> roles[id],
      profile |-> IF id \in profiles THEN "kept" ELSE "none"]]

People == INSTANCE Directory WITH directory <- DirectoryView

\* With one request at a time creating, toggling or giving roles, every call to
\* either store is one change of one directory, or none, whatever logins,
\* first requests, failures and deletions run beside it: addresses stay unique
\* in each store, a role is given only when there is none, and a profile is
\* erased only after its account.
ImplementsDirectory == People!Spec

\* The account that r is changing has a role that r has not listed.
RoleMissed(r) ==
  ~ (roles[req[r].id] \subseteq IF At(r, "detach") THEN req[r].listed ELSE {})

\* Whatever the number of administrators, only one kind of step is no change of
\* the directory: SetRoleAsync removes or adds a role while the account has one
\* that somebody else has added since SetRoleAsync listed them.  A toggle that
\* another one overtakes changes the account still, or nothing.
ChangesIndivisible ==
  [][\/ People!Next
     \/ \E r \in Requests : (RemoveRoles(r) \/ AddRole(r)) /\ RoleMissed(r)
    ]_DirectoryView

\* Keycloak is the source of truth about accounts: when no request is under
\* way, no profile is left of an account that does not exist.
NoProfileWithoutAccount ==
  (\A r \in Requests : At(r, "idle")) => profiles \subseteq accounts
=============================================================================
