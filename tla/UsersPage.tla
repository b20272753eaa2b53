----------------------------- MODULE UsersPage ------------------------------
(***************************************************************************)
(* The page "Utilisateurs" (UsersComponent) over GET /api/users and the    *)
(* requests that change accounts, each taken to be one step of the server  *)
(* (Accounts shows what such a step is made of).                           *)
(*                                                                         *)
(* Clicks and replies are one action each, replies arrive in any order,    *)
(* and a dialog covers the page.  Unlike the pages of the mémoires, the    *)
(* table and its buttons stay in reach while a list is loading.            *)
(***************************************************************************)
EXTENDS Integers, FiniteSets, Listing

CONSTANTS
  Ids,       \* users
  Names,     \* last names, numbered in their order
  Roles,     \* what GetUserStatusAsync reports
  PageSize,  \* rows on a page (10)
  Loads,     \* slots for list requests whose replies are awaited
  Saves,     \* slots for creations and edits whose replies are awaited
  Calls,     \* slots for toggles and deletions whose replies are awaited
  None       \* no user, no role: neither is a number or a role

ASSUME ConstantsAssumption ==
  /\ IsFiniteSet(Ids) /\ Names \subseteq Nat
  /\ PageSize \in Nat \ {0}
  /\ None \notin Ids \cup Roles

VARIABLES
  accounts,                                \* the server: name, role and status
  page, roleFilter, users, total, loading, \* the table and its controls
  modal, saving, deleteTarget,             \* the two dialogs
  loads, saves, calls,                     \* the requests under way
  current,   \* history: the table shows the reply of the latest load()
  unseen     \* history: a change that the latest load() cannot have seen

table   == <<page, roleFilter, users, total, loading>>
dialogs == <<modal, saving, deleteTarget>>
vars    == <<accounts, table, dialogs, loads, saves, calls, current, unseen>>

Account == [name : Names, role : Roles, active : BOOLEAN]
Absent  == [name |-> None, role |-> None, active |-> FALSE]
People  == {id \in Ids : accounts[id] # Absent}

NoModal == [mode |-> "closed", user |-> None]
NoLoad  == [stage |-> "none", latest |-> FALSE, page |-> 1, role |-> None,
            users |-> {}, total |-> 0]
NoSave  == [stage |-> "none", modal |-> NoModal]
NoCall  == [stage |-> "none", kind |-> "toggle", id |-> None]

-----------------------------------------------------------------------------
(* GET /api/users.                                                         *)

\* Who may be on page p of the list by last name; the search term, which narrows
\* it, is left out.
Slices(p) == Cuts(People, [id \in People |-> accounts[id].name], p, PageSize)

HasRole(id, role) == role = None \/ accounts[id].role = role

Row(id) == [id |-> id, name |-> accounts[id].name, role |-> accounts[id].role,
            active |-> accounts[id].active]

\* The rows that may be answered; the role is looked at only after the page has
\* been cut out.
GetAll(p, role) == {{Row(id) : id \in {i \in slice : HasRole(i, role)}} :
                      slice \in Slices(p)}

Sent(p, role) == [NoLoad EXCEPT !.stage = "sent", !.latest = TRUE,
                                !.page = p, !.role = role]

Load(l, p, role) ==
  /\ loads[l] = NoLoad
  /\ loads' = [k \in Loads |-> IF k = l THEN Sent(p, role)
                                        ELSE [loads[k] EXCEPT !.latest = FALSE]]
  /\ page' = p
  /\ roleFilter' = role
  /\ loading' = TRUE
  /\ current' = FALSE
  /\ UNCHANGED <<users, total>>

\* ngOnInit has just called load().
Init ==
  /\ accounts \in [Ids -> [name : Names, role : Roles, active : {TRUE}]
                            \cup {Absent}]
  /\ page = 1 /\ roleFilter = None /\ users = {} /\ total = 0 /\ loading = TRUE
  /\ modal = NoModal /\ saving = FALSE /\ deleteTarget = None
  /\ \E l \in Loads : loads = [k \in Loads |-> IF k = l THEN Sent(1, None)
                                                        ELSE NoLoad]
  /\ saves = [s \in Saves |-> NoSave]
  /\ calls = [c \in Calls |-> NoCall]
  /\ current = FALSE /\ unseen = FALSE

-----------------------------------------------------------------------------
(* The administrator.                                                      *)

NoDialog == modal = NoModal /\ deleteTarget = None

\* The search field does the same with the role left as it is.
Filter(l, role) ==
  /\ NoDialog
  /\ Load(l, 1, role)
  /\ UNCHANGED <<accounts, dialogs, saves, calls, unseen>>

\* Variant: the button "Précédent" is never disabled.
PreviousUnguarded(l) ==
  /\ NoDialog
  /\ Load(l, page - 1, roleFilter)
  /\ UNCHANGED <<accounts, dialogs, saves, calls, unseen>>

Previous(l) ==
  /\ NoDialog
  /\ page > 1
  /\ Load(l, page - 1, roleFilter)
  /\ UNCHANGED <<accounts, dialogs, saves, calls, unseen>>

\* Variant: the button "Suivant" is enabled as long as the page shows rows.
HasNextWhileRows == users # {}

HasNext == page * PageSize < total

Following(l) ==
  /\ NoDialog
  /\ HasNext
  /\ Load(l, page + 1, roleFilter)
  /\ UNCHANGED <<accounts, dialogs, saves, calls, unseen>>

\* The numbered buttons: two pages on either side.
TotalPages  == (total + PageSize - 1) \div PageSize
PageNumbers == {p \in 1 .. TotalPages : p \in page - 2 .. page + 2}

GoTo(l, p) ==
  /\ NoDialog
  /\ p \in PageNumbers
  /\ Load(l, p, roleFilter)
  /\ UNCHANGED <<accounts, dialogs, saves, calls, unseen>>

\* Variant: opening a dialog resets the flag of a save that is under way.
OpenModalResets(m) ==
  /\ NoDialog
  /\ modal' = m
  /\ saving' = FALSE
  /\ UNCHANGED <<accounts, table, deleteTarget, loads, saves, calls, current,
                 unseen>>

OpenModal(m) ==
  /\ NoDialog
  /\ modal' = m
  /\ UNCHANGED <<accounts, table, saving, deleteTarget, loads, saves, calls,
                 current, unseen>>

ConfirmDelete(id) ==
  /\ NoDialog
  /\ deleteTarget' = id
  /\ UNCHANGED <<accounts, table, modal, saving, loads, saves, calls, current,
                 unseen>>

Close ==
  /\ ~NoDialog
  /\ modal' = NoModal
  /\ deleteTarget' = None
  /\ UNCHANGED <<accounts, table, saving, loads, saves, calls, current, unseen>>

OnSubmit(s) ==
  /\ modal # NoModal
  /\ ~saving
  /\ saves[s] = NoSave
  /\ saves' = [saves EXCEPT ![s] = [stage |-> "sent", modal |-> modal]]
  /\ saving' = TRUE
  /\ UNCHANGED <<accounts, table, modal, deleteTarget, loads, calls, current,
                 unseen>>

Call(c, kind, id) ==
  /\ calls[c] = NoCall
  /\ calls' = [calls EXCEPT ![c] = [stage |-> "sent", kind |-> kind, id |-> id]]
  /\ UNCHANGED <<accounts, table, dialogs, loads, saves, current, unseen>>

\* Nothing disables these two buttons while a call is under way.
ToggleActive(c, id) == NoDialog /\ Call(c, "toggle", id)
DeleteUser(c)       == deleteTarget # None /\ Call(c, "delete", deleteTarget)

-----------------------------------------------------------------------------
(* The server and the network.                                             *)

Answer(l) ==
  LET q == loads[l] IN
  /\ q.stage = "sent"
  /\ \E rows \in GetAll(q.page, q.role) :
       loads' = [loads EXCEPT ![l] = [q EXCEPT !.stage = "answered",
                                               !.users = rows,
                                               !.total = Cardinality(People)]]
  /\ unseen' = (unseen /\ ~q.latest)
  /\ UNCHANGED <<accounts, table, dialogs, saves, calls, current>>

Show(l) ==
  LET q == loads[l] IN
  /\ q.stage = "answered"
  /\ users' = q.users
  /\ total' = q.total
  /\ loading' = FALSE
  /\ current' = q.latest
  /\ loads' = [loads EXCEPT ![l] = NoLoad]
  /\ UNCHANGED <<accounts, page, roleFilter, dialogs, saves, calls, unseen>>

\* There is no error handler.
LoadFailed(l) ==
  /\ loads[l] # NoLoad
  /\ loads' = [loads EXCEPT ![l] = NoLoad]
  /\ UNCHANGED <<accounts, table, dialogs, saves, calls, current, unseen>>

\* A creation makes an active account; an edit changes the name and the like, but
\* neither the role, which the form sends and the API ignores, nor the status.
ApplySave(s, id, name, role) ==
  LET m == saves[s].modal IN
  /\ saves[s].stage = "sent"
  /\ \/ /\ m.mode = "create"
        /\ accounts[id] = Absent
        /\ accounts' = [accounts EXCEPT ![id] = [name |-> name, role |-> role,
                                                 active |-> TRUE]]
     \/ /\ m.mode = "edit" /\ m.user = id /\ id \in People
        /\ accounts' = [accounts EXCEPT ![id].name = name]
  /\ saves' = [saves EXCEPT ![s].stage = "applied"]
  /\ UNCHANGED <<table, dialogs, loads, calls, current, unseen>>

\* The reply closes the dialog that is open, whichever it is.
SaveDone(s, l) ==
  /\ saves[s].stage = "applied"
  /\ saves' = [saves EXCEPT ![s] = NoSave]
  /\ modal' = NoModal
  /\ saving' = FALSE
  /\ Load(l, page, roleFilter)
  /\ UNCHANGED <<accounts, deleteTarget, calls, unseen>>

SaveFailed(s) ==
  /\ saves[s] # NoSave
  /\ saves' = [saves EXCEPT ![s] = NoSave]
  /\ saving' = FALSE
  /\ unseen' = (unseen \/ saves[s].stage = "applied")
  /\ UNCHANGED <<accounts, table, modal, deleteTarget, loads, calls, current>>

ApplyCall(c) ==
  LET id == calls[c].id IN
  /\ calls[c].stage = "sent"
  /\ id \in People
  /\ accounts' = IF calls[c].kind = "toggle"
                 THEN [accounts EXCEPT ![id].active = ~@]
                 ELSE [accounts EXCEPT ![id] = Absent]
  /\ calls' = [calls EXCEPT ![c].stage = "applied"]
  /\ UNCHANGED <<table, dialogs, loads, saves, current, unseen>>

\* Variant: the table is not loaded again after a toggle or a deletion.
CallDoneOnly(c, l) ==
  /\ calls[c].stage = "applied"
  /\ calls' = [calls EXCEPT ![c] = NoCall]
  /\ deleteTarget' = IF calls[c].kind = "delete" THEN None ELSE deleteTarget
  /\ UNCHANGED <<accounts, table, modal, saving, loads, saves, current, unseen>>

CallDone(c, l) ==
  /\ calls[c].stage = "applied"
  /\ calls' = [calls EXCEPT ![c] = NoCall]
  /\ deleteTarget' = IF calls[c].kind = "delete" THEN None ELSE deleteTarget
  /\ Load(l, page, roleFilter)
  /\ UNCHANGED <<accounts, modal, saving, saves, unseen>>

\* An error is not handled: a deletion's dialog stays open.
CallFailed(c) ==
  /\ calls[c] # NoCall
  /\ calls' = [calls EXCEPT ![c] = NoCall]
  /\ unseen' = (unseen \/ calls[c].stage = "applied")
  /\ UNCHANGED <<accounts, table, dialogs, loads, saves, current>>

\* Other administrators, and people who register, change what they like.
Others(id) ==
  /\ \E a \in Account \cup {Absent} : accounts' = [accounts EXCEPT ![id] = a]
  /\ accounts' # accounts
  /\ unseen' = TRUE
  /\ UNCHANGED <<table, dialogs, loads, saves, calls, current>>

-----------------------------------------------------------------------------
Administrator ==
  \/ \E l \in Loads : Previous(l) \/ Following(l)
  \/ \E l \in Loads, p \in PageNumbers : GoTo(l, p)
  \/ \E l \in Loads, role \in Roles \cup {None} : Filter(l, role)
  \/ OpenModal([mode |-> "create", user |-> None])
  \/ \E row \in users : OpenModal([mode |-> "edit", user |-> row.id])
  \/ \E row \in users : ConfirmDelete(row.id)
  \/ Close
  \/ \E s \in Saves : OnSubmit(s)
  \/ \E c \in Calls, row \in users : ToggleActive(c, row.id)
  \/ \E c \in Calls : DeleteUser(c)

Network ==
  \/ \E l \in Loads : Answer(l) \/ Show(l) \/ LoadFailed(l)
  \/ \E s \in Saves, id \in Ids, name \in Names, role \in Roles :
       ApplySave(s, id, name, role)
  \/ \E s \in Saves : SaveFailed(s) \/ \E l \in Loads : SaveDone(s, l)
  \/ \E c \in Calls : \/ ApplyCall(c) \/ CallFailed(c)
                      \/ \E l \in Loads : CallDone(c, l)

Next == Administrator \/ Network \/ \E id \in Ids : Others(id)

Spec == Init /\ [][Next]_vars

-----------------------------------------------------------------------------
(* Properties.                                                             *)

Pages  == Nat \ {0}
Rows   == [id : Ids, name : Names \cup {None}, role : Roles \cup {None},
           active : BOOLEAN]
Modals == [mode : {"closed", "create", "edit"}, user : Ids \cup {None}]

ListRequests == [stage : {"none", "sent", "answered"}, latest : BOOLEAN,
                 page : Pages, role : Roles \cup {None},
                 users : SUBSET Rows, total : Nat]
SaveRequests == [stage : {"none", "sent", "applied"}, modal : Modals]
CallRequests == [stage : {"none", "sent", "applied"},
                 kind : {"toggle", "delete"}, id : Ids \cup {None}]

\* The types of the variables.  That pages count from 1 is for the buttons to
\* ensure: the API computes an offset from the number it is sent.
TypeOK ==
  /\ accounts \in [Ids -> Account \cup {Absent}]
  /\ page \in Pages /\ roleFilter \in Roles \cup {None}
  /\ users \in SUBSET Rows /\ total \in Nat /\ loading \in BOOLEAN
  /\ modal \in Modals /\ saving \in BOOLEAN
  /\ deleteTarget \in Ids \cup {None}
  /\ loads \in [Loads -> ListRequests]
  /\ saves \in [Saves -> SaveRequests]
  /\ calls \in [Calls -> CallRequests]
  /\ current \in BOOLEAN /\ unseen \in BOOLEAN

Saving == {s \in Saves : saves[s] # NoSave}

\* At most one save of the page is under way, and `saving` says so, although
\* the dialog is closed and opened for somebody else while it is (the disabled
\* button against onSubmit): nobody is created twice by a second click.
OneSave == /\ \A s, t \in Saving : s = t
           /\ saving = (Saving # {})

AtRest == /\ \A l \in Loads : loads[l] = NoLoad
          /\ Saving = {}
          /\ \A c \in Calls : calls[c] = NoCall
          /\ current /\ ~unseen

\* When the page has come to rest, the table is what the server may answer
\* to the page and role that the controls show, the administrator's own saves,
\* toggles and deletions included.
TableFaithful == AtRest => /\ ~loading
                           /\ users \in GetAll(page, roleFilter)
                           /\ total = Cardinality(People)

\* Somebody of the name is on page p, whatever the order; one of the orders puts
\* the person there.
SureOfName(id, p) ==
  \A slice \in Slices(p) : \E i \in slice : accounts[i].name = accounts[id].name
Possible(id, p) == \E slice \in Slices(p) : id \in slice

\* No name is out of reach of the buttons: at rest, where "Suivant" is disabled,
\* every person's name is certain to be found on this page or an earlier one,
\* on a page where the person may be, although the role filter leaves pages with
\* few rows or none.  Who shares the name with nobody is thus found for certain;
\* those who share one may be shown twice, and hidden, from one page to the next.
NobodyHidden ==
  AtRest /\ ~HasNext =>
    \A id \in People : \E p \in 1 .. page : SureOfName(id, p) /\ Possible(id, p)
=============================================================================
