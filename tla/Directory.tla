----------------------------- MODULE Directory ------------------------------
(***************************************************************************)
(* What the accounts API promises its administrators: one directory of     *)
(* people, every change of which is one indivisible step, although an      *)
(* entry is kept in two stores and the API changes it call by call.        *)
(***************************************************************************)
CONSTANTS Ids, Emails, Roles, Null

VARIABLE directory   \* for each id, the person behind it

Person(email, login, roles, profile) ==
  [email   |-> email,     \* the address it was created with, for ever
   login   |-> login,     \* "none" (no account), "open" or "blocked"
   roles   |-> roles,     \* of the application
   profile |-> profile]   \* "none" or "kept": the application's own row

Nobody == Person(Null, "none", {}, "none")

HasAccount(id) == directory[id].login \in {"open", "blocked"}
HasProfile(id) == directory[id].profile = "kept"

Init == directory = [id \in Ids |-> Nobody]

Change(id, person) == directory' = [directory EXCEPT ![id] = person]

\* An id is given out once; no two accounts have one address.
Join(id, e) ==
  /\ directory[id] = Nobody
  /\ \A other \in Ids : HasAccount(other) => directory[other].email # e
  /\ Change(id, Person(e, "open", {}, "none"))

\* No two profiles have one address.  The account may be gone by now.
Enrol(id) ==
  /\ directory[id].email # Null
  /\ ~HasProfile(id)
  /\ \A other \in Ids :
       HasProfile(other) => directory[other].email # directory[id].email
  /\ Change(id, [directory[id] EXCEPT !.profile = "kept"])

\* A role is given to a person who has none,
Grant(id, role) ==
  /\ HasAccount(id) /\ directory[id].roles = {}
  /\ Change(id, [directory[id] EXCEPT !.roles = {role}])

\* and taken from one who has it.
Revoke(id) ==
  /\ HasAccount(id) /\ directory[id].roles # {}
  /\ Change(id, [directory[id] EXCEPT !.roles = {}])

Toggle(id) ==
  /\ HasAccount(id)
  /\ Change(id, [directory[id] EXCEPT !.login = IF @ = "open" THEN "blocked"
                                                             ELSE "open"])

\* A person leaves in two steps, and the profile is the second.
Dismiss(id) ==
  /\ HasAccount(id)
  /\ Change(id, Person(directory[id].email, "none", {},
                       directory[id].profile))

Erase(id) ==
  /\ HasProfile(id) /\ ~HasAccount(id)
  /\ Change(id, [directory[id] EXCEPT !.profile = "none"])

Next == \E id \in Ids : \/ \E e \in Emails : Join(id, e)
                        \/ \E role \in Roles : Grant(id, role)
                        \/ Enrol(id) \/ Revoke(id) \/ Toggle(id)
                        \/ Dismiss(id) \/ Erase(id)

Spec == Init /\ [][Next]_directory
=============================================================================
