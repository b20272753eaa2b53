--------------------------- MODULE AccountsProofs ---------------------------
(***************************************************************************)
(* Proofs about Accounts, for any sets of ids, e-mails, roles and request  *)
(* slots.                                                                  *)
(***************************************************************************)
EXTENDS Accounts, TLAPS

LEMMA IdleTyped == Idle \in Request /\ StageOK(Idle)
  BY DEF Idle, Request, PCs, StageOK

\* A step that replaces at most one request's record by one of the right type
\* and gives out ids without taking any back.
LEMMA TypeOfStep ==
  ASSUME TypeOK, NEW r \in Requests, NEW q,
         Become(r, q), q \in Request, StageOK(q),
         UNCHANGED address,
         accounts' \subseteq accounts, enabled' \subseteq accounts',
         roles' \in [Ids -> SUBSET Roles],
         UNCHANGED tokens,
         profiles' \subseteq Ids,
         \A id \in profiles' : address[id] # Null
  PROVE  TypeOK'
  <1>1. req' \in [Requests -> Request]
    BY DEF TypeOK, Become
  <1>2. \A s \in Requests : StageOK(req'[s])
    BY DEF TypeOK, Become
  <1>3. \A s \in Requests : StageOK(req[s])'
    BY <1>2 DEF StageOK
  <1> QED
    BY <1>1, <1>3 DEF TypeOK

LEMMA TypeIdentity ==
  ASSUME TypeOK, NEW id \in Ids, Identity(id)
  PROVE  TypeOK'
  <1>1. ASSUME NEW e \in Emails, Register(id, e) PROVE TypeOK'
    <2>1. \A r \in Requests : StageOK(req[r])'
      BY <1>1, ConstantsAssumption DEF Register, NewAccount, TypeOK, StageOK
    <2> QED BY <1>1, <2>1, ConstantsAssumption DEF Register, NewAccount, TypeOK
  <1>2. CASE IssueToken(id) \/ ExpireToken(id)
    <2>1. \A r \in Requests : StageOK(req[r])'
      BY <1>2 DEF IssueToken, ExpireToken, TypeOK, StageOK
    <2> QED BY <1>2, <2>1 DEF IssueToken, ExpireToken, TypeOK
  <1> QED BY <1>1, <1>2 DEF Identity

LEMMA TypeVisit ==
  ASSUME TypeOK, NEW r \in Requests,
         (\E id \in Ids : Visit(r, id)) \/ Provision(r) \/ Leave(r)
  PROVE  TypeOK'
  <1> USE DEF TypeOK, Keycloak, At, Goto, End
  <1>1. ASSUME NEW id \in Ids, Visit(r, id) PROVE TypeOK'
    <2> DEFINE q == [req[r] EXCEPT !.id = id,
                                   !.pc = IF id \in profiles THEN "served"
                                                             ELSE "provision"]
    <2>1. /\ q \in Request /\ q.id = id /\ q.pc \in {"served", "provision"}
          /\ q.email = req[r].email /\ q.creating = req[r].creating
      BY DEF Request, PCs
    <2>2. id \in tokens /\ StageOK(req[r])
      BY <1>1 DEF Visit
    <2>3. StageOK(q)
      BY <2>1, <2>2 DEF StageOK
    <2> QED BY <1>1, <2>1, <2>3, TypeOfStep DEF Visit
  <1>2. CASE Provision(r)
    BY <1>2, TypeOfStep DEF Provision, Request, PCs, StageOK
  <1>3. CASE Leave(r)
    BY <1>3, IdleTyped, TypeOfStep DEF Leave
  <1> QED BY <1>1, <1>2, <1>3

LEMMA TypeCreate ==
  ASSUME TypeOK, NEW r \in Requests, CreateStep(r)
  PROVE  TypeOK'
  <1> USE DEF TypeOK, Keycloak, At, Goto, End
  <1>1. ASSUME NEW e \in Emails, NEW role \in Requested, NEW lower \in BOOLEAN,
               Create(r, e, role, lower)
        PROVE  TypeOK'
    <2> DEFINE q == [req[r] EXCEPT !.pc = "post", !.email = e, !.role = role,
                                   !.creating = TRUE]
    <2>1. q \in Request /\ StageOK(q)
      BY <1>1 DEF Create, Request, PCs, StageOK
    <2> QED BY <1>1, <2>1, TypeOfStep DEF Create
  <1>2. ASSUME NEW id \in Ids, PostUser(r, id) PROVE TypeOK'
    <2> DEFINE q == [req[r] EXCEPT !.pc = "list", !.id = id]
    <2>1. q \in Request /\ q.pc = "list" /\ q.id = id /\ q.role = req[r].role
      BY DEF Request, PCs
    <2>2. req[r].email \in Emails
      BY <1>2 DEF PostUser, StageOK
    <2>3. address' = [address EXCEPT ![id] = req[r].email]
          /\ address[id] = Null
      BY <1>2 DEF PostUser, NewAccount
    <2>4. req' = [req EXCEPT ![r] = q]
      BY <1>2 DEF PostUser, Become
    <2>5. req' \in [Requests -> Request]
      BY <2>1, <2>4
    <2>6. q.role \in Requested
      <3>1. req[r].pc = "post"
        BY <1>2 DEF PostUser
      <3> QED BY <2>1, <3>1 DEF StageOK
    <2>7. \A s \in Requests : StageOK(req[s])'
      BY <2>1, <2>2, <2>3, <2>4, <2>6, ConstantsAssumption DEF StageOK
    <2> QED BY <1>2, <2>2, <2>5, <2>7, ConstantsAssumption
            DEF PostUser, NewAccount
  <1>3. CASE InsertProfile(r)
    BY <1>3, IdleTyped, TypeOfStep DEF InsertProfile, StageOK
  <1> QED BY <1>1, <1>2, <1>3 DEF CreateStep

LEMMA TypeRole ==
  ASSUME TypeOK, NEW r \in Requests, RoleStep(r)
  PROVE  TypeOK'
  <1> USE DEF TypeOK, Keycloak, At, Goto, End
  <1>1. ASSUME NEW id \in Ids, NEW role \in Requested, SetRole(r, id, role)
        PROVE  TypeOK'
    <2> DEFINE q == [req[r] EXCEPT !.pc = "list", !.id = id, !.role = role]
    <2>1. q \in Request /\ StageOK(q)
      BY <1>1 DEF SetRole, Request, PCs, StageOK
    <2> QED BY <1>1, <2>1, TypeOfStep DEF SetRole
  <1>2. CASE ListRoles(r)
    <2> DEFINE listed == roles[req[r].id]
               q == [req[r] EXCEPT !.listed = listed,
                                   !.pc = IF listed = {} THEN "lookup"
                                                         ELSE "detach"]
    <2>1. /\ req[r].id \in Ids /\ address[req[r].id] # Null
          /\ req[r].role \in Requested
      BY <1>2 DEF ListRoles, StageOK
    <2>2. /\ q \in Request /\ q.id = req[r].id /\ q.role = req[r].role
          /\ q.pc \in {"lookup", "detach"}
          /\ q.email = req[r].email /\ q.creating = req[r].creating
      BY <2>1 DEF Request, PCs
    <2>3. StageOK(q)
      BY <2>1, <2>2 DEF StageOK
    <2> QED BY <1>2, <2>2, <2>3, TypeOfStep DEF ListRoles
  <1>3. CASE RemoveRoles(r)
    BY <1>3, TypeOfStep DEF RemoveRoles, Request, PCs, StageOK
  <1>4. CASE LookupRole(r)
    BY <1>4, TypeOfStep DEF LookupRole, Request, PCs, StageOK
  <1>5. CASE AddRole(r)
    <2> DEFINE q == IF req[r].creating
                      THEN [req[r] EXCEPT !.pc = "insert"] ELSE Idle
    <2>1. Become(r, q)
      BY <1>5 DEF AddRole
    <2>2. req[r].creating => req[r].email \in Emails
      BY <1>5 DEF AddRole, StageOK
    <2>3. q \in Request /\ StageOK(q)
      BY <1>5, <2>2, IdleTyped DEF AddRole, Request, PCs, StageOK
    <2> QED BY <1>5, <2>1, <2>3, TypeOfStep DEF AddRole, Granted
  <1> QED BY <1>1, <1>2, <1>3, <1>4, <1>5 DEF RoleStep

LEMMA TypeToggle ==
  ASSUME TypeOK, NEW r \in Requests, ToggleStep(r)
  PROVE  TypeOK'
  <1> USE DEF TypeOK, Keycloak, At, Goto, End
  <1>1. ASSUME NEW id \in Ids, ToggleActive(r, id) PROVE TypeOK'
    <2> DEFINE q == [req[r] EXCEPT !.pc = "status", !.id = id]
    <2>1. q \in Request /\ StageOK(q)
      BY <1>1 DEF ToggleActive, Request, PCs, StageOK
    <2> QED BY <1>1, <2>1, TypeOfStep DEF ToggleActive
  <1>2. CASE ReadStatus(r)
    <2> DEFINE b == req[r].id \in accounts \cap enabled
               q == [req[r] EXCEPT !.pc = "enable", !.active = b]
    <2>1. b \in BOOLEAN
      OBVIOUS
    <2>2. /\ q \in Request /\ q.pc = "enable" /\ q.id = req[r].id
          /\ q.email = req[r].email /\ q.creating = req[r].creating
      BY <2>1 DEF Request, PCs
    <2>3. StageOK(q)
      BY <1>2, <2>2 DEF ReadStatus, StageOK
    <2> QED BY <1>2, <2>2, <2>3, TypeOfStep DEF ReadStatus
  <1>3. CASE PutEnabled(r)
    BY <1>3, IdleTyped, TypeOfStep DEF PutEnabled
  <1> QED BY <1>1, <1>2, <1>3 DEF ToggleStep

LEMMA TypeDelete ==
  ASSUME TypeOK, NEW r \in Requests, DeleteStep(r)
  PROVE  TypeOK'
  <1> USE DEF TypeOK, Keycloak, At, Goto, End
  <1>1. ASSUME NEW id \in Ids, Delete(r, id) PROVE TypeOK'
    <2> DEFINE q == [req[r] EXCEPT !.pc = "kcdelete", !.id = id]
    <2>1. q \in Request /\ StageOK(q)
      BY <1>1 DEF Delete, Request, PCs, StageOK
    <2> QED BY <1>1, <2>1, TypeOfStep DEF Delete
  <1>2. CASE DeleteAccount(r)
    BY <1>2, TypeOfStep DEF DeleteAccount, Request, PCs, StageOK
  <1>3. CASE DeleteProfile(r)
    BY <1>3, IdleTyped, TypeOfStep DEF DeleteProfile
  <1> QED BY <1>1, <1>2, <1>3 DEF DeleteStep

LEMMA TypeNext == TypeOK /\ [Next]_vars => TypeOK'
  <1> SUFFICES ASSUME TypeOK, [Next]_vars PROVE TypeOK'
    OBVIOUS
  <1>1. CASE UNCHANGED vars
    <2>1. \A r \in Requests : StageOK(req[r])'
      BY <1>1 DEF vars, Keycloak, TypeOK, StageOK
    <2> QED BY <1>1, <2>1 DEF vars, Keycloak, TypeOK
  <1> QED BY <1>1, TypeIdentity, TypeVisit, TypeCreate, TypeRole, TypeToggle,
             TypeDelete DEF Next, Step

\* Every variable of the accounts API keeps its type, and no id is in use that
\* Keycloak has not given out, for any number of accounts and requests.
THEOREM TypeCorrect == Spec => []TypeOK
  <1>1. Init => TypeOK
    BY IdleTyped DEF Init, TypeOK
  <1> QED BY <1>1, TypeNext, PTL DEF Spec

-----------------------------------------------------------------------------
(* Deletion.                                                               *)

\* The stage a step leaves its request in, and who may enter it.
LEMMA NewStage ==
  ASSUME TypeOK, NEW r \in Requests, Step(r)
  PROVE  \E q : /\ Become(r, q)
                /\ q.pc = "rowdelete" => DeleteAccount(r) /\ q.id = req[r].id
                /\ q.pc = "kcdelete" => r \in Deleters
                /\ q.pc = "served"
                     => \/ q.id \in profiles
                        \/ Provision(r) /\ q.id = req[r].id
  <1> USE DEF Keycloak, At, Goto, End
  <1>0. req[r] \in Request
    BY DEF TypeOK
  <1>1. Idle.pc = "idle"
    BY DEF Idle
  <1>2. ASSUME NEW id \in Ids, Visit(r, id)
        PROVE  \E q : /\ Become(r, q)
                      /\ q.pc \in {"served", "provision"}
                      /\ q.pc = "served" => q.id \in profiles
    <2> DEFINE pc == IF id \in profiles THEN "served" ELSE "provision"
               q  == [req[r] EXCEPT !.id = id, !.pc = pc]
    <2>1. q.pc = pc /\ q.id = id
      <3> HIDE DEF pc
      <3> QED BY <1>0 DEF Request
    <2>2. Become(r, q)
      BY <1>2 DEF Visit
    <2> HIDE DEF q
    <2> QED BY <2>1, <2>2
  <1>3. ASSUME NEW e \in Emails, NEW role \in Requested, NEW lower \in BOOLEAN,
               Create(r, e, role, lower)
        PROVE  \E q : Become(r, q) /\ q.pc = "post"
    <2> DEFINE q == [req[r] EXCEPT !.pc = "post", !.email = e, !.role = role,
                                   !.creating = TRUE]
    <2>1. q.pc = "post"
      BY <1>0 DEF Request
    <2> QED BY <1>3, <2>1 DEF Create
  <1>4. ASSUME NEW id \in Ids, PostUser(r, id)
        PROVE  \E q : Become(r, q) /\ q.pc = "list"
    <2> DEFINE q == [req[r] EXCEPT !.pc = "list", !.id = id]
    <2>1. q.pc = "list"
      BY <1>0 DEF Request
    <2> QED BY <1>4, <2>1 DEF PostUser
  <1>5. ASSUME NEW id \in Ids, NEW role \in Requested, SetRole(r, id, role)
        PROVE  \E q : Become(r, q) /\ q.pc = "list"
    <2> DEFINE q == [req[r] EXCEPT !.pc = "list", !.id = id, !.role = role]
    <2>1. q.pc = "list"
      BY <1>0 DEF Request
    <2> QED BY <1>5, <2>1 DEF SetRole
  <1>6. ASSUME ListRoles(r)
        PROVE  \E q : Become(r, q) /\ q.pc \in {"lookup", "detach"}
    <2> DEFINE q == [req[r] EXCEPT !.listed = roles[req[r].id],
                                   !.pc = IF roles[req[r].id] = {}
                                            THEN "lookup" ELSE "detach"]
    <2>1. q.pc \in {"lookup", "detach"}
      BY <1>0 DEF Request
    <2> QED BY <1>6, <2>1 DEF ListRoles
  <1>7. ASSUME AddRole(r)
        PROVE  \E q : Become(r, q) /\ q.pc \in {"insert", "idle"}
    <2> DEFINE q == IF req[r].creating
                      THEN [req[r] EXCEPT !.pc = "insert"] ELSE Idle
    <2>1. Become(r, q) /\ q.pc \in {"insert", "idle"}
      BY <1>0, <1>1, <1>7 DEF AddRole, Request
    <2> QED BY <2>1
  <1>8. CASE Provision(r) \/ RemoveRoles(r) \/ LookupRole(r)
    <2>1. PICK pc \in {"served", "lookup", "attach"} :
            /\ Become(r, [req[r] EXCEPT !.pc = pc])
            /\ pc = "served" => Provision(r)
      BY <1>8 DEF Provision, RemoveRoles, LookupRole
    <2> DEFINE q == [req[r] EXCEPT !.pc = pc]
    <2>2. q.pc = pc /\ q.id = req[r].id
      BY <1>0 DEF Request
    <2> HIDE DEF q
    <2>3. Become(r, q)
      BY <2>1 DEF q
    <2> QED BY <2>1, <2>2, <2>3
  <1>9. ASSUME NEW id \in Ids, ToggleActive(r, id)
        PROVE  \E q : Become(r, q) /\ q.pc = "status"
    <2> DEFINE q == [req[r] EXCEPT !.pc = "status", !.id = id]
    <2>1. q.pc = "status"
      BY <1>0 DEF Request
    <2> QED BY <1>9, <2>1 DEF ToggleActive
  <1>10. ASSUME ReadStatus(r)
         PROVE  \E q : Become(r, q) /\ q.pc = "enable"
    <2> DEFINE b == req[r].id \in accounts \cap enabled
               q == [req[r] EXCEPT !.pc = "enable", !.active = b]
    <2> HIDE DEF b
    <2>1. q.pc = "enable"
      BY <1>0 DEF Request
    <2> QED BY <1>10, <2>1 DEF ReadStatus, b
  <1>11. ASSUME NEW id \in Ids, Delete(r, id)
         PROVE  \E q : Become(r, q) /\ q.pc = "kcdelete" /\ r \in Deleters
    BY <1>0, <1>11 DEF Delete, Request
  <1>12. ASSUME DeleteAccount(r)
         PROVE  \E q : Become(r, q) /\ q.pc = "rowdelete" /\ q.id = req[r].id
    BY <1>0, <1>12 DEF DeleteAccount, Request
  <1>13. CASE InsertProfile(r) \/ PutEnabled(r) \/ DeleteProfile(r) \/ Leave(r)
    BY <1>1, <1>13 DEF InsertProfile, PutEnabled, DeleteProfile, Leave
  <1> QED BY <1>2, <1>3, <1>4, <1>5, <1>6, <1>7, <1>8, <1>9, <1>10, <1>11,
             <1>12, <1>13
          DEF Step, CreateStep, RoleStep, ToggleStep, DeleteStep

\* A profile about to be deleted has no account any more.
DeletingInv ==
  \A r \in Requests : req[r].pc = "rowdelete" => req[r].id \notin accounts

\* An account appears only under an id that was never given out.
LEMMA AccountsFresh ==
  ASSUME Next
  PROVE  \A id \in accounts' \ accounts : address[id] = Null
  BY DEF Next, Identity, Register, NewAccount, IssueToken, ExpireToken, Step,
         Visit, Provision, CreateStep, Create, PostUser, InsertProfile,
         RoleStep, SetRole, ListRoles, RemoveRoles, LookupRole, AddRole,
         ToggleStep, ToggleActive, ReadStatus, PutEnabled, DeleteStep, Delete,
         DeleteAccount, DeleteProfile, Leave, Keycloak

LEMMA DeletingNext == TypeOK /\ DeletingInv /\ [Next]_vars => DeletingInv'
  <1> SUFFICES ASSUME TypeOK, DeletingInv, [Next]_vars PROVE DeletingInv'
    OBVIOUS
  <1>1. ASSUME NEW r \in Requests, Step(r) PROVE DeletingInv'
    <2>1. PICK q : /\ req' = [req EXCEPT ![r] = q]
                   /\ q.pc = "rowdelete"
                        => DeleteAccount(r) /\ q.id = req[r].id
      BY <1>1, NewStage DEF Become
    <2>2. \A id \in accounts' \ accounts : address[id] = Null
      BY <1>1, AccountsFresh DEF Next
    <2>3. q.pc = "rowdelete" => q.id \notin accounts'
      BY <2>1 DEF DeleteAccount
    <2>4. \A s \in Requests : req[s].pc = "rowdelete" => address[req[s].id] # Null
      BY DEF TypeOK, StageOK
    <2> QED BY <2>1, <2>2, <2>3, <2>4 DEF DeletingInv, TypeOK
  <1>2. ASSUME NEW id \in Ids, Identity(id) PROVE DeletingInv'
    <2>1. UNCHANGED req
      BY <1>2 DEF Identity, Register, IssueToken, ExpireToken
    <2>2. \A other \in accounts' \ accounts : address[other] = Null
      BY <1>2, AccountsFresh DEF Next
    <2>3. \A s \in Requests : req[s].pc = "rowdelete" => address[req[s].id] # Null
      BY DEF TypeOK, StageOK
    <2> QED BY <2>1, <2>2, <2>3 DEF DeletingInv
  <1>3. CASE UNCHANGED vars
    BY <1>3 DEF vars, Keycloak, DeletingInv
  <1> QED BY <1>1, <1>2, <1>3 DEF Next

\* Only DeleteProfile takes a profile away.
LEMMA ProfilesKept ==
  ASSUME Next, \A r \in Requests : ~DeleteProfile(r)
  PROVE  profiles \subseteq profiles'
  BY DEF Next, Identity, Register, IssueToken, ExpireToken, Step,
         Visit, Provision, CreateStep, Create, PostUser, InsertProfile,
         RoleStep, SetRole, ListRoles, RemoveRoles, LookupRole, AddRole,
         ToggleStep, ToggleActive, ReadStatus, PutEnabled, DeleteStep, Delete,
         DeleteAccount, Leave, Keycloak

\* Whatever creations, logins and deletions run at the same time, a profile is
\* taken away only when its account can never log in again.
THEOREM ProfileGoesLastHolds == Spec => ProfileGoesLast
  <1>1. Init => DeletingInv
    BY DEF Init, Idle, DeletingInv
  <1>2. DeletingInv /\ [Next]_vars
          => [\A id \in profiles \ profiles' : id \notin accounts]_vars
    <2> SUFFICES ASSUME DeletingInv, Next, NEW id \in profiles \ profiles'
                 PROVE  id \notin accounts
      OBVIOUS
    <2>1. PICK r \in Requests : DeleteProfile(r)
      BY ProfilesKept
    <2> QED BY <2>1 DEF DeleteProfile, DeletingInv, At
  <1> QED BY <1>1, <1>2, DeletingNext, TypeCorrect, PTL
          DEF Spec, ProfileGoesLast

-----------------------------------------------------------------------------
(* Provisioning.                                                           *)

\* Keycloak lets no two accounts have one e-mail at the same time.
EmailsDistinct == \A i, j \in accounts : address[i] = address[j] => i = j

\* An id keeps its e-mail for good.
LEMMA AddressKept ==
  ASSUME Next, TypeOK, NEW id \in Ids, address[id] # Null
  PROVE  address'[id] = address[id]
  BY DEF Next, Identity, Register, NewAccount, IssueToken, ExpireToken, Step,
         Visit, Provision, CreateStep, Create, PostUser, InsertProfile,
         RoleStep, SetRole, ListRoles, RemoveRoles, LookupRole, AddRole,
         ToggleStep, ToggleActive, ReadStatus, PutEnabled, DeleteStep, Delete,
         DeleteAccount, DeleteProfile, Leave, Keycloak, TypeOK

\* A new account has an e-mail that no other account has.
LEMMA NewAccountDistinct ==
  ASSUME TypeOK, EmailsDistinct, NEW id \in Ids, NEW e \in Emails,
         NewAccount(id, e)
  PROVE  EmailsDistinct'
  BY DEF TypeOK, EmailsDistinct, NewAccount, AccountHas

LEMMA EmailsDistinctNext ==
  TypeOK /\ EmailsDistinct /\ [Next]_vars => EmailsDistinct'
  <1> SUFFICES ASSUME TypeOK, EmailsDistinct, [Next]_vars PROVE EmailsDistinct'
    OBVIOUS
  <1>1. ASSUME NEW id \in Ids, NEW e \in Emails, Register(id, e)
        PROVE  EmailsDistinct'
    BY <1>1, NewAccountDistinct DEF Register
  <1>2. ASSUME NEW r \in Requests, NEW id \in Ids, PostUser(r, id)
        PROVE  EmailsDistinct'
    <2>1. req[r].email \in Emails
      BY <1>2 DEF PostUser, At, TypeOK, StageOK
    <2> QED BY <1>2, <2>1, NewAccountDistinct DEF PostUser
  <1>3. ASSUME NEW r \in Requests, DeleteAccount(r) PROVE EmailsDistinct'
    BY <1>3 DEF DeleteAccount, EmailsDistinct
  <1>4. CASE /\ Next
             /\ \A id \in Ids, e \in Emails : ~Register(id, e)
             /\ \A r \in Requests : /\ \A id \in Ids : ~PostUser(r, id)
                                   /\ ~DeleteAccount(r)
    <2>1. UNCHANGED <<address, accounts>>
      BY <1>4
      DEF Next, Identity, IssueToken, ExpireToken, Step, Visit, Provision,
          CreateStep, Create, InsertProfile, RoleStep, SetRole, ListRoles,
          RemoveRoles, LookupRole, AddRole, ToggleStep, ToggleActive,
          ReadStatus, PutEnabled, DeleteStep, Delete, DeleteProfile, Leave,
          Keycloak
    <2> QED BY <2>1 DEF EmailsDistinct
  <1>5. CASE UNCHANGED vars
    BY <1>5 DEF vars, Keycloak, EmailsDistinct
  <1> QED BY <1>1, <1>2, <1>3, <1>4, <1>5

\* What a request needs to be served: once true of an id it stays true as long
\* as its account is there.
Provided(id) == id \in accounts => id \in profiles \/ EmailReused(id)

LEMMA ProvidedKept ==
  ASSUME TypeOK, DeletingInv, Next, NEW id \in Ids, address[id] # Null,
         Provided(id)
  PROVE  Provided(id)'
  <1> SUFFICES ASSUME id \in accounts', id \notin profiles'
               PROVE  EmailReused(id)'
    BY DEF Provided
  <1>1. \A other \in accounts' \ accounts : address[other] = Null
    BY AccountsFresh
  <1>2. id \in accounts
    BY <1>1
  <1>3. address'[id] = address[id]
    BY AddressKept
  <1>4. CASE id \in profiles
    <2>1. PICK r \in Requests : DeleteProfile(r)
      BY <1>4, ProfilesKept
    <2> QED BY <1>2, <1>4, <2>1 DEF DeleteProfile, DeletingInv, At
  <1>5. CASE EmailReused(id)
    <2>1. PICK other \in Ids \ accounts : address[other] = address[id]
      BY <1>5 DEF EmailReused
    <2>2. address'[other] = address[other]
      BY <2>1, AddressKept
    <2>3. other \notin accounts'
      BY <1>1, <2>1
    <2> QED BY <1>3, <2>1, <2>2, <2>3 DEF EmailReused
  <1> QED BY <1>2, <1>4, <1>5 DEF Provided

\* The INSERT succeeds, or finds the row of the same user, or that of somebody
\* whose account is gone: two accounts never have one e-mail.
LEMMA ProvisionProvides ==
  ASSUME TypeOK, EmailsDistinct, NEW r \in Requests, Provision(r),
         NEW id, id = req[r].id
  PROVE  Provided(id)'
  <1>1. id \in Ids /\ UNCHANGED <<address, accounts>>
    BY DEF Provision, At, TypeOK, StageOK, Keycloak
  <1>2. id \in profiles' \/ \E other \in profiles : address[other] = address[id]
    BY DEF Provision, ProfileHas
  <1>3. profiles \subseteq profiles' /\ profiles \subseteq Ids
    BY DEF Provision, TypeOK
  <1> QED BY <1>1, <1>2, <1>3 DEF Provided, EmailReused, EmailsDistinct

\* ServedHasProfile, of every request that was let through.
ServedInv ==
  \A r \in Requests : req[r].pc = "served" => Provided(req[r].id)

LEMMA ServedNext ==
  ASSUME TypeOK, DeletingInv, EmailsDistinct, ServedInv, [Next]_vars
  PROVE  ServedInv'
  <1>1. ASSUME Next, NEW s \in Requests, req[s].pc = "served",
               NEW id, id = req[s].id
        PROVE  Provided(id)'
    <2>1. id \in Ids /\ address[id] # Null
      BY <1>1 DEF TypeOK, StageOK
    <2> QED BY <1>1, <2>1, ProvidedKept DEF ServedInv
  <1>2. ASSUME NEW r \in Requests, Step(r) PROVE ServedInv'
    <2>0. Next
      BY <1>2 DEF Next
    <2>1. PICK q : /\ Become(r, q)
                   /\ q.pc = "served" => \/ q.id \in profiles
                                         \/ Provision(r) /\ q.id = req[r].id
      BY <1>2, NewStage
    <2>2. CASE q.pc = "served" /\ q.id \in profiles
      <3>1. q.id \in Ids /\ address[q.id] # Null
        BY <2>2 DEF TypeOK
      <3>2. Provided(q.id)
        BY <2>2 DEF Provided
      <3>3. Provided(q.id)'
        BY <2>0, <3>1, <3>2, ProvidedKept
      <3> QED BY <2>1, <3>3, <2>0, <1>1
              DEF ServedInv, Become, Provided, EmailReused, TypeOK
    <2>3. CASE q.pc = "served" /\ Provision(r) /\ q.id = req[r].id
      <3>1. Provided(q.id)'
        BY <2>3, ProvisionProvides
      <3> QED BY <2>1, <3>1, <2>0, <1>1
              DEF ServedInv, Become, Provided, EmailReused, TypeOK
    <2>4. CASE q.pc # "served"
      BY <2>1, <2>4, <2>0, <1>1
      DEF ServedInv, Become, Provided, EmailReused, TypeOK
    <2> QED BY <2>1, <2>2, <2>3, <2>4
  <1>3. ASSUME NEW id \in Ids, Identity(id) PROVE ServedInv'
    <2>1. Next /\ UNCHANGED req
      BY <1>3 DEF Next, Identity, Register, IssueToken, ExpireToken
    <2> QED BY <2>1, <1>1 DEF ServedInv, Provided, EmailReused
  <1>4. CASE UNCHANGED vars
    BY <1>4 DEF vars, Keycloak, ServedInv, Provided, EmailReused
  <1> QED BY <1>2, <1>3, <1>4 DEF Next

\* Whatever creations, first requests and deletions race, the exception that
\* EnsureProfileAsync swallows costs a user their profile only if a deleted
\* account had the same e-mail.
THEOREM ServedHasProfileHolds == Spec => []ServedHasProfile
  <1>1. Init => DeletingInv /\ EmailsDistinct /\ ServedInv
    BY DEF Init, Idle, DeletingInv, EmailsDistinct, ServedInv
  <1>2. TypeOK /\ DeletingInv /\ EmailsDistinct /\ ServedInv /\ [Next]_vars
          => DeletingInv' /\ EmailsDistinct' /\ ServedInv'
    BY DeletingNext, EmailsDistinctNext, ServedNext
  <1>3. ServedInv => ServedHasProfile
    BY DEF ServedInv, Provided, ServedHasProfile, At
  <1> QED BY <1>1, <1>2, <1>3, TypeCorrect, PTL DEF Spec

-----------------------------------------------------------------------------
(* Roles and toggles, while one slot at a time changes accounts.           *)

OneManager == \A r, s \in Managers : r = s

ManagerStages == {"post", "list", "detach", "lookup", "attach", "insert",
                  "status", "enable"}

\* What a request q knows of the account it is changing, given the accounts,
\* the enabled ones and their roles.
RoleFacts(q, acc, ena, rol) ==
  /\ q.pc = "detach" => rol[q.id] \subseteq q.listed
  /\ q.pc \in {"lookup", "attach"} => rol[q.id] = {}
  /\ q.pc = "insert" /\ q.id \in acc => rol[q.id] = {q.role} \cap Roles
  /\ q.pc = "enable" /\ q.id \in acc => (q.active <=> q.id \in ena)

RoleStage(q) == RoleFacts(q, accounts, enabled, roles)

RoleInv ==
  /\ \A id \in Ids \ accounts : roles[id] = {}
  /\ AtMostOneRole
  /\ \A r \in Requests : /\ req[r].pc \in ManagerStages => r \in Managers
                         /\ RoleStage(req[r])

\* A step that leaves Keycloak's accounts as they are.
LEMMA RoleOfQuietStep ==
  ASSUME TypeOK, RoleInv, NEW r \in Requests, NEW q, Become(r, q),
         UNCHANGED <<accounts, enabled, roles>>,
         q.pc \in ManagerStages => r \in Managers,
         RoleStage(q)
  PROVE  RoleInv'
  <1>1. \A s \in Requests : /\ req'[s].pc \in ManagerStages => s \in Managers
                           /\ RoleStage(req'[s])
    BY DEF TypeOK, RoleInv, Become
  <1>2. \A s \in Requests : RoleStage(req[s])'
    BY <1>1 DEF RoleStage, RoleFacts
  <1> QED BY <1>1, <1>2 DEF RoleInv, AtMostOneRole

\* The slot that changes an account is the only one.
LEMMA OthersQuiet ==
  ASSUME OneManager, RoleInv, NEW r \in Requests, req[r].pc \in ManagerStages
  PROVE  \A s \in Requests \ {r} : req[s].pc \notin ManagerStages
  BY DEF OneManager, RoleInv

LEMMA RoleQuietSteps ==
  ASSUME TypeOK, RoleInv, NEW r \in Requests,
         \/ \E id \in Ids : Visit(r, id) \/ ToggleActive(r, id) \/ Delete(r, id)
         \/ \E id \in Ids, role \in Requested : SetRole(r, id, role)
         \/ \E e \in Emails, role \in Requested, lower \in BOOLEAN :
              Create(r, e, role, lower)
         \/ Provision(r) \/ InsertProfile(r) \/ ListRoles(r) \/ LookupRole(r)
         \/ ReadStatus(r) \/ DeleteProfile(r) \/ Leave(r)
  PROVE  RoleInv'
  <1> USE DEF Keycloak, At, Goto, End
  <1>0. /\ req[r] \in Request
        /\ req[r].pc \in ManagerStages => r \in Managers
        /\ RoleStage(req[r])
        /\ Idle.pc = "idle"
    BY DEF TypeOK, RoleInv, Idle
  <1>1. ASSUME NEW q, Become(r, q), UNCHANGED <<accounts, enabled, roles>>,
               \/ q.pc \in {"idle", "served", "provision", "kcdelete"}
               \/ q.pc \in {"post", "list", "status"} /\ r \in Managers
        PROVE  RoleInv'
    BY <1>1, RoleOfQuietStep DEF RoleStage, RoleFacts, ManagerStages
  <1>2. ASSUME NEW id \in Ids, Visit(r, id) PROVE RoleInv'
    <2> DEFINE q == [req[r] EXCEPT !.id = id,
                                   !.pc = IF id \in profiles THEN "served"
                                                             ELSE "provision"]
    <2>1. q.pc \in {"served", "provision"}
      BY <1>0 DEF Request
    <2> QED BY <1>1, <1>2, <2>1 DEF Visit
  <1>3. ASSUME NEW id \in Ids, ToggleActive(r, id) PROVE RoleInv'
    <2> DEFINE q == [req[r] EXCEPT !.pc = "status", !.id = id]
    <2>1. q.pc = "status"
      BY <1>0 DEF Request
    <2> QED BY <1>1, <1>3, <2>1 DEF ToggleActive
  <1>4. ASSUME NEW id \in Ids, Delete(r, id) PROVE RoleInv'
    <2> DEFINE q == [req[r] EXCEPT !.pc = "kcdelete", !.id = id]
    <2>1. q.pc = "kcdelete"
      BY <1>0 DEF Request
    <2> QED BY <1>1, <1>4, <2>1 DEF Delete
  <1>5. ASSUME NEW id \in Ids, NEW role \in Requested, SetRole(r, id, role)
        PROVE  RoleInv'
    <2> DEFINE q == [req[r] EXCEPT !.pc = "list", !.id = id, !.role = role]
    <2>1. q.pc = "list"
      BY <1>0 DEF Request
    <2> QED BY <1>1, <1>5, <2>1 DEF SetRole
  <1>6. ASSUME NEW e \in Emails, NEW role \in Requested, NEW lower \in BOOLEAN,
               Create(r, e, role, lower)
        PROVE  RoleInv'
    <2> DEFINE q == [req[r] EXCEPT !.pc = "post", !.email = e, !.role = role,
                                   !.creating = TRUE]
    <2>1. q.pc = "post"
      BY <1>0 DEF Request
    <2> QED BY <1>1, <1>6, <2>1 DEF Create
  <1>7. CASE Provision(r)
    <2> DEFINE q == [req[r] EXCEPT !.pc = "served"]
    <2>1. q.pc = "served"
      BY <1>0 DEF Request
    <2> QED BY <1>1, <1>7, <2>1 DEF Provision
  <1>8. CASE InsertProfile(r) \/ DeleteProfile(r) \/ Leave(r)
    BY <1>0, <1>1, <1>8 DEF InsertProfile, DeleteProfile, Leave
  <1>9. CASE ListRoles(r)
    <2> DEFINE listed == roles[req[r].id]
               q == [req[r] EXCEPT !.listed = listed,
                                   !.pc = IF listed = {} THEN "lookup"
                                                         ELSE "detach"]
    <2>1. /\ q.id = req[r].id /\ q.listed = roles[req[r].id]
          /\ q.pc = IF roles[req[r].id] = {} THEN "lookup" ELSE "detach"
      BY <1>0 DEF Request
    <2>2. Become(r, q) /\ UNCHANGED <<accounts, enabled, roles>> /\ r \in Managers
      BY <1>0, <1>9 DEF ListRoles, ManagerStages
    <2> HIDE DEF q, listed
    <2>3. RoleStage(q)
      BY <2>1 DEF RoleStage, RoleFacts
    <2> QED BY <2>2, <2>3, RoleOfQuietStep
  <1>10. CASE LookupRole(r)
    <2> DEFINE q == [req[r] EXCEPT !.pc = "attach"]
    <2>1. q.pc = "attach" /\ q.id = req[r].id
      BY <1>0 DEF Request
    <2>2. roles[q.id] = {} /\ r \in Managers
      BY <1>0, <1>10, <2>1 DEF LookupRole, RoleStage, RoleFacts, ManagerStages
    <2>3. RoleStage(q)
      BY <2>1, <2>2 DEF RoleStage, RoleFacts
    <2> QED BY <1>10, <2>2, <2>3, RoleOfQuietStep DEF LookupRole
  <1>11. CASE ReadStatus(r)
    <2> DEFINE b == req[r].id \in accounts \cap enabled
               q == [req[r] EXCEPT !.pc = "enable", !.active = b]
    <2>1. Become(r, q) /\ UNCHANGED <<accounts, enabled, roles>> /\ r \in Managers
      BY <1>0, <1>11 DEF ReadStatus, ManagerStages
    <2>2. b <=> req[r].id \in accounts /\ req[r].id \in enabled
      OBVIOUS
    <2> HIDE DEF b
    <2>3. q.pc = "enable" /\ q.id = req[r].id /\ q.active = b
      BY <1>0 DEF Request
    <2>4. RoleStage(q)
      BY <2>2, <2>3 DEF RoleStage, RoleFacts
    <2> QED BY <2>1, <2>4, RoleOfQuietStep
  <1> QED BY <1>2, <1>3, <1>4, <1>5, <1>6, <1>7, <1>8, <1>9, <1>10, <1>11

\* A new account has a fresh id, which no request in progress knows.
LEMMA RoleNewAccount ==
  ASSUME TypeOK, RoleInv, NEW id \in Ids, NEW e \in Emails, NewAccount(id, e),
         UNCHANGED roles
  PROVE  /\ \A other \in Ids \ accounts' : roles'[other] = {}
         /\ AtMostOneRole'
         /\ \A r \in Requests :
              RoleStage(req[r]) => RoleFacts(req[r], accounts', enabled', roles')
  <1>1. /\ id \notin accounts /\ accounts' = accounts \cup {id}
        /\ enabled' = enabled \cup {id} /\ address[id] = Null
    BY DEF NewAccount, TypeOK
  <1>2. \A r \in Requests :
          req[r].pc \in {"insert", "enable"} => req[r].id # id
    BY <1>1 DEF TypeOK, StageOK
  <1>3. roles[id] = {}
    BY <1>1 DEF RoleInv
  <1>4. \A other \in Ids \ accounts' : roles'[other] = {}
    BY <1>1 DEF RoleInv
  <1>5. AtMostOneRole'
    BY <1>1, <1>3 DEF RoleInv, AtMostOneRole
  <1>6. ASSUME NEW r \in Requests, RoleStage(req[r])
        PROVE  RoleFacts(req[r], accounts', enabled', roles')
    BY <1>1, <1>2, <1>6 DEF RoleStage, RoleFacts
  <1> QED BY <1>4, <1>5, <1>6

LEMMA RoleIdentity ==
  ASSUME TypeOK, RoleInv, NEW id \in Ids, Identity(id)
  PROVE  RoleInv'
  <1>1. ASSUME NEW e \in Emails, Register(id, e) PROVE RoleInv'
    <2>1. /\ \A other \in Ids \ accounts' : roles'[other] = {}
          /\ AtMostOneRole'
          /\ \A r \in Requests :
               RoleStage(req[r]) => RoleFacts(req[r], accounts', enabled', roles')
      BY <1>1, RoleNewAccount DEF Register
    <2>2. \A r \in Requests : RoleStage(req[r])'
      BY <1>1, <2>1 DEF Register, RoleInv, RoleStage
    <2> QED BY <1>1, <2>1, <2>2 DEF Register, RoleInv
  <1>2. CASE IssueToken(id) \/ ExpireToken(id)
    <2>1. \A r \in Requests : RoleStage(req[r])'
      BY <1>2 DEF IssueToken, ExpireToken, RoleInv, RoleStage, RoleFacts
    <2> QED BY <1>2, <2>1 DEF IssueToken, ExpireToken, RoleInv, AtMostOneRole
  <1> QED BY <1>1, <1>2 DEF Identity

LEMMA RoleChangingSteps ==
  ASSUME OneManager, TypeOK, RoleInv, NEW r \in Requests,
         \/ \E id \in Ids : PostUser(r, id)
         \/ RemoveRoles(r) \/ AddRole(r) \/ PutEnabled(r) \/ DeleteAccount(r)
  PROVE  RoleInv'
  <1> USE DEF At, Goto, End
  <1>0. /\ req[r] \in Request
        /\ req[r].pc \in ManagerStages => r \in Managers
        /\ RoleStage(req[r])
        /\ Idle.pc = "idle"
    BY DEF TypeOK, RoleInv, Idle
  <1>1. ASSUME NEW id \in Ids, PostUser(r, id) PROVE RoleInv'
    <2> DEFINE q == [req[r] EXCEPT !.pc = "list", !.id = id]
    <2>1. q.pc = "list"
      BY <1>0 DEF Request
    <2>2. req' = [req EXCEPT ![r] = q] /\ r \in Managers
      BY <1>0, <1>1 DEF PostUser, Become, ManagerStages
    <2>3. req[r].email \in Emails
      BY <1>1 DEF PostUser, TypeOK, StageOK
    <2>4. /\ \A other \in Ids \ accounts' : roles'[other] = {}
          /\ AtMostOneRole'
      BY <1>1, <2>3, RoleNewAccount DEF PostUser
    <2>5. \A s \in Requests \ {r} : RoleStage(req[s])'
      BY <1>1, <2>3, RoleNewAccount, <2>2 DEF PostUser, RoleInv, RoleStage, RoleFacts, TypeOK
    <2>6. RoleStage(req[r])'
      BY <2>1, <2>2 DEF RoleStage, RoleFacts, TypeOK
    <2> QED BY <2>1, <2>2, <2>4, <2>5, <2>6 DEF RoleInv, TypeOK
  <1>2. ASSUME NEW q, Become(r, q), q.pc \in ManagerStages => r \in Managers,
               RoleFacts(q, accounts', enabled', roles'), req[r].pc \in ManagerStages
        PROVE  \A s \in Requests : /\ req'[s].pc \in ManagerStages => s \in Managers
                                  /\ RoleStage(req[s])'
    <2>1. \A s \in Requests \ {r} : req'[s].pc \notin ManagerStages
      BY <1>2, OthersQuiet DEF Become, TypeOK
    <2>2. req'[r] = q
      BY <1>2 DEF Become, TypeOK
    <2> QED BY <1>2, <2>1, <2>2 DEF RoleStage, RoleFacts, ManagerStages
  <1>3. CASE RemoveRoles(r)
    <2> DEFINE q == [req[r] EXCEPT !.pc = "lookup"]
    <2>1. q.pc = "lookup" /\ q.id = req[r].id /\ q.id \in Ids
      BY <1>0, <1>3 DEF Request, RemoveRoles, TypeOK, StageOK
    <2>2. /\ roles' = [roles EXCEPT ![q.id] = {}]
          /\ r \in Managers /\ req[r].pc \in ManagerStages
          /\ Become(r, q) /\ UNCHANGED <<accounts, enabled>>
      BY <1>0, <1>3, <2>1 DEF RemoveRoles, RoleStage, RoleFacts, ManagerStages
    <2> HIDE DEF q
    <2>3. RoleFacts(q, accounts', enabled', roles')
      BY <2>1, <2>2 DEF RoleStage, RoleFacts, TypeOK
    <2> QED BY <1>2, <2>1, <2>2, <2>3 DEF RoleInv, AtMostOneRole, TypeOK
  <1>4. CASE AddRole(r)
    <2> DEFINE q == IF req[r].creating
                      THEN [req[r] EXCEPT !.pc = "insert"] ELSE Idle
               id == req[r].id
    <2>1. \/ q.pc = "insert" /\ q.id = id /\ q.role = req[r].role
          \/ q.pc = "idle"
      BY <1>0 DEF Request
    <2>2. /\ id \in accounts /\ id \in Ids
          /\ roles' = [roles EXCEPT ![id] = {req[r].role} \cap Roles]
          /\ r \in Managers /\ req[r].pc \in ManagerStages
          /\ Become(r, q) /\ UNCHANGED <<accounts, enabled>>
      BY <1>0, <1>4 DEF AddRole, Granted, RoleStage, RoleFacts, ManagerStages, TypeOK
    <2> HIDE DEF q, id
    <2>3. RoleFacts(q, accounts', enabled', roles')
      BY <2>1, <2>2 DEF RoleStage, RoleFacts, TypeOK
    <2> QED BY <1>2, <2>2, <2>3 DEF RoleInv, AtMostOneRole, TypeOK
  <1>5. CASE PutEnabled(r)
    <2>1. /\ r \in Managers /\ req[r].pc \in ManagerStages
          /\ Become(r, Idle) /\ UNCHANGED <<accounts, roles>>
      BY <1>0, <1>5 DEF PutEnabled, ManagerStages
    <2>2. RoleFacts(Idle, accounts', enabled', roles')
      BY DEF RoleStage, RoleFacts, Idle
    <2> QED BY <1>2, <2>1, <2>2 DEF RoleInv, AtMostOneRole
  <1>6. CASE DeleteAccount(r)
    <2> DEFINE q == [req[r] EXCEPT !.pc = "rowdelete"]
               id == req[r].id
    <2>1. q.pc = "rowdelete"
      BY <1>0 DEF Request
    <2>2. /\ id \in Ids
          /\ accounts' = accounts \ {id} /\ enabled' = enabled \ {id}
          /\ roles' = [roles EXCEPT ![id] = {}]
          /\ req' = [req EXCEPT ![r] = q]
      BY <1>6 DEF DeleteAccount, Become, TypeOK
    <2> HIDE DEF q, id
    <2>3. \A s \in Requests : /\ req'[s].pc \in ManagerStages => s \in Managers
                             /\ req'[s] \in {q, req[s]}
      BY <2>1, <2>2 DEF RoleInv, ManagerStages, TypeOK
    <2>4. \A other : other \in accounts' => other \in accounts /\ roles'[other] = roles[other]
                       /\ (other \in enabled' <=> other \in enabled)
      BY <2>2 DEF TypeOK
    <2>5. \A s \in Requests : RoleStage(req[s])'
      <3> SUFFICES ASSUME NEW s \in Requests PROVE RoleStage(req[s])'
        OBVIOUS
      <3>1. CASE req'[s] = q
        BY <2>1, <3>1 DEF RoleStage, RoleFacts
      <3>2. CASE req'[s] = req[s]
        <4>1. RoleStage(req[s]) /\ (req[s].pc \in ManagerStages \ {"post"}
                                     => req[s].id \in Ids)
          BY DEF RoleInv, TypeOK, StageOK, ManagerStages
        <4>2. req[s].id \in Ids => roles'[req[s].id] \subseteq roles[req[s].id]
          BY <2>2 DEF TypeOK
        <4> QED BY <2>4, <3>2, <4>1, <4>2 DEF RoleStage, RoleFacts, ManagerStages
      <3> QED BY <2>3, <3>1, <3>2
    <2>6. AtMostOneRole' /\ \A other \in Ids \ accounts' : roles'[other] = {}
      BY <2>2, <2>4 DEF RoleInv, AtMostOneRole, TypeOK
    <2> QED BY <2>3, <2>5, <2>6 DEF RoleInv
  <1> QED BY <1>1, <1>3, <1>4, <1>5, <1>6

LEMMA RoleNext ==
  ASSUME OneManager, TypeOK, RoleInv, [Next]_vars
  PROVE  RoleInv'
  <1>1. CASE UNCHANGED vars
    <2>1. \A s \in Requests : RoleStage(req[s])'
      BY <1>1 DEF vars, Keycloak, RoleInv, RoleStage, RoleFacts
    <2> QED BY <1>1, <2>1 DEF vars, Keycloak, RoleInv, AtMostOneRole
  <1> QED BY <1>1, RoleIdentity, RoleQuietSteps, RoleChangingSteps
          DEF Next, Step, CreateStep, RoleStep, ToggleStep, DeleteStep

LEMMA RoleInvariant ==
  ASSUME OneManager
  PROVE  Spec => []RoleInv
  <1>1. Init => RoleInv
    BY DEF Init, Idle, RoleInv, AtMostOneRole, ManagerStages, RoleStage, RoleFacts
  <1>2. TypeOK /\ RoleInv /\ [Next]_vars => RoleInv'
    BY RoleNext
  <1> QED BY <1>1, <1>2, TypeCorrect, PTL DEF Spec

\* While one request at a time changes accounts, no account ever has two of the
\* application's roles, wherever a change of role is abandoned.
THEOREM AtMostOneRoleHolds ==
  ASSUME OneManager
  PROVE  Spec => []AtMostOneRole
  <1>1. RoleInv => AtMostOneRole
    BY DEF RoleInv
  <1> QED BY <1>1, RoleInvariant, PTL

\* Under the same condition a creation that ends well has given its account
\* the role that was asked for, even if its user was active before the end.
THEOREM CreatedAsAskedHolds ==
  ASSUME OneManager
  PROVE  Spec => CreatedAsAsked
  <1>1. RoleInv /\ [Next]_vars =>
          [\A r \in Requests : InsertProfile(r) /\ req[r].id \in accounts
                                => roles[req[r].id] = Granted(r)]_vars
    BY DEF RoleInv, RoleStage, RoleFacts, InsertProfile, At, Granted
  <1> QED BY <1>1, RoleInvariant, PTL DEF Spec, CreatedAsAsked

\* And a toggle that ends well has changed the flag, never restored it.
THEOREM ToggleFlipsHolds ==
  ASSUME OneManager
  PROVE  Spec => ToggleFlips
  <1>1. RoleInv /\ [Next]_vars =>
          [\A r \in Requests : PutEnabled(r) => enabled' # enabled]_vars
    BY DEF RoleInv, RoleStage, RoleFacts, PutEnabled, At
  <1> QED BY <1>1, RoleInvariant, PTL DEF Spec, ToggleFlips

-----------------------------------------------------------------------------
(* The directory.                                                          *)

\* A creation that has its account knows the address of that account, and only
\* a creation inserts a profile of its own.
CreatedFacts(q, addr) ==
  /\ q.pc = "idle" => ~q.creating
  /\ q.creating /\ q.pc # "post" => addr[q.id] = q.email
  /\ q.pc = "insert" => q.creating

CreatedInv == \A r \in Requests : CreatedFacts(req[r], address)

\* What a step does to the part of its request that CreatedFacts reads.
LEMMA CreatedStep ==
  ASSUME TypeOK, CreatedInv, NEW r \in Requests, Step(r)
  PROVE  \E q : Become(r, q) /\ CreatedFacts(q, address')
  <1> USE DEF At, Goto, End, Keycloak
  <1>0. /\ req[r] \in Request /\ CreatedFacts(req[r], address)
        /\ req[r].creating \in BOOLEAN
    BY DEF TypeOK, CreatedInv, Request
  <1>1. CreatedFacts(Idle, address')
    BY DEF Idle, CreatedFacts
  <1>2. ASSUME NEW q, Become(r, q), UNCHANGED address,
               q.creating = req[r].creating,
               q.pc # "idle",
               ~req[r].creating \/ /\ q.id = req[r].id /\ q.email = req[r].email
                                   /\ req[r].pc # "post",
               q.pc = "insert" => q.creating
        PROVE  \E p : Become(r, p) /\ CreatedFacts(p, address')
    <2>1. CreatedFacts(q, address')
      BY <1>0, <1>2 DEF CreatedFacts
    <2> QED BY <1>2, <2>1
  <1>3. ASSUME NEW pc \in PCs \ {"idle", "insert"}, Goto(r, pc),
               UNCHANGED address, req[r].pc # "post"
        PROVE  \E p : Become(r, p) /\ CreatedFacts(p, address')
    <2> DEFINE q == [req[r] EXCEPT !.pc = pc]
    <2>1. /\ q.pc = pc /\ q.creating = req[r].creating /\ q.id = req[r].id
          /\ q.email = req[r].email
      BY <1>0 DEF Request
    <2>2. Become(r, q)
      BY <1>3
    <2> HIDE DEF q
    <2> QED BY <1>2, <1>3, <2>1, <2>2
  <1>4. ASSUME NEW id \in Ids, Visit(r, id)
        PROVE  \E p : Become(r, p) /\ CreatedFacts(p, address')
    <2> DEFINE pc == IF id \in profiles THEN "served" ELSE "provision"
               q  == [req[r] EXCEPT !.id = id, !.pc = pc]
    <2>1. q.pc = pc /\ q.creating = req[r].creating
      <3> HIDE DEF pc
      <3> QED BY <1>0 DEF Request
    <2>2. ~req[r].creating /\ Become(r, q) /\ UNCHANGED address
      BY <1>0, <1>4 DEF Visit, CreatedFacts
    <2> HIDE DEF q
    <2> QED BY <1>2, <2>1, <2>2
  <1>5. ASSUME NEW e \in Emails, NEW role \in Requested, NEW lower \in BOOLEAN,
               Create(r, e, role, lower)
        PROVE  \E p : Become(r, p) /\ CreatedFacts(p, address')
    <2> DEFINE q == [req[r] EXCEPT !.pc = "post", !.email = e, !.role = role,
                                   !.creating = TRUE]
    <2>1. q.pc = "post"
      BY <1>0 DEF Request
    <2>2. CreatedFacts(q, address') /\ Become(r, q)
      BY <1>5, <2>1 DEF CreatedFacts, Create
    <2> QED BY <2>2
  <1>6. ASSUME NEW id \in Ids, PostUser(r, id)
        PROVE  \E p : Become(r, p) /\ CreatedFacts(p, address')
    <2> DEFINE q == [req[r] EXCEPT !.pc = "list", !.id = id]
    <2>1. q.pc = "list" /\ q.id = id /\ q.email = req[r].email
      BY <1>0 DEF Request
    <2>2. address'[id] = req[r].email /\ Become(r, q)
      BY <1>6 DEF PostUser, NewAccount, TypeOK
    <2>3. CreatedFacts(q, address')
      BY <2>1, <2>2 DEF CreatedFacts
    <2> QED BY <2>2, <2>3
  <1>7. ASSUME NEW id \in Ids,
               \/ ToggleActive(r, id) \/ Delete(r, id)
               \/ \E role \in Requested : SetRole(r, id, role)
        PROVE  \E p : Become(r, p) /\ CreatedFacts(p, address')
    <2>1. PICK q : /\ Become(r, q) /\ UNCHANGED address
                   /\ q.creating = req[r].creating
                   /\ q.pc \in {"status", "kcdelete", "list"}
                   /\ req[r].pc = "idle"
      <3>1. CASE ToggleActive(r, id)
        BY <1>0, <3>1 DEF ToggleActive, Request
      <3>2. CASE Delete(r, id)
        BY <1>0, <3>2 DEF Delete, Request
      <3>3. ASSUME NEW role \in Requested, SetRole(r, id, role)
            PROVE  \E q : /\ Become(r, q) /\ UNCHANGED address
                          /\ q.creating = req[r].creating
                          /\ q.pc \in {"status", "kcdelete", "list"}
                          /\ req[r].pc = "idle"
        BY <1>0, <3>3 DEF SetRole, Request
      <3> QED BY <1>7, <3>1, <3>2, <3>3
    <2>2. ~req[r].creating
      BY <1>0, <2>1 DEF CreatedFacts
    <2> QED BY <1>2, <2>1, <2>2
  <1>8. CASE ListRoles(r)
    <2> DEFINE pc == IF roles[req[r].id] = {} THEN "lookup" ELSE "detach"
               q == [req[r] EXCEPT !.listed = roles[req[r].id], !.pc = pc]
    <2>1. /\ q.pc = pc /\ q.creating = req[r].creating /\ q.id = req[r].id
          /\ q.email = req[r].email
      <3> HIDE DEF pc
      <3> QED BY <1>0 DEF Request
    <2>2. Become(r, q) /\ UNCHANGED address /\ req[r].pc = "list"
      BY <1>8 DEF ListRoles
    <2> HIDE DEF q
    <2> QED BY <1>2, <2>1, <2>2
  <1>9. CASE Provision(r) \/ RemoveRoles(r) \/ LookupRole(r) \/ DeleteAccount(r)
    <2>1. PICK pc \in {"served", "lookup", "attach", "rowdelete"} : Goto(r, pc)
      BY <1>9 DEF Provision, RemoveRoles, LookupRole, DeleteAccount
    <2>2. UNCHANGED address /\ req[r].pc # "post"
      BY <1>9 DEF Provision, RemoveRoles, LookupRole, DeleteAccount
    <2>3. pc \in PCs \ {"idle", "insert"}
      BY DEF PCs
    <2> QED BY <1>3, <2>1, <2>2, <2>3
  <1>10. CASE AddRole(r)
    <2> DEFINE q == [req[r] EXCEPT !.pc = "insert"]
    <2>1. CASE req[r].creating
      <3>1. /\ q.pc = "insert" /\ q.creating = req[r].creating
            /\ q.id = req[r].id /\ q.email = req[r].email
        BY <1>0 DEF Request
      <3>2. Become(r, q) /\ UNCHANGED address /\ req[r].pc = "attach"
        BY <1>10, <2>1 DEF AddRole
      <3> HIDE DEF q
      <3> QED BY <1>2, <2>1, <3>1, <3>2
    <2>2. CASE ~req[r].creating
      BY <1>1, <1>10, <2>2 DEF AddRole
    <2> QED BY <2>1, <2>2
  <1>11. CASE ReadStatus(r)
    <2> DEFINE b == req[r].id \in accounts \cap enabled
               q == [req[r] EXCEPT !.pc = "enable", !.active = b]
    <2>0. Become(r, q) /\ UNCHANGED address /\ req[r].pc = "status"
      BY <1>11 DEF ReadStatus
    <2> HIDE DEF b
    <2>1. /\ q.pc = "enable" /\ q.creating = req[r].creating
          /\ q.id = req[r].id /\ q.email = req[r].email
      BY <1>0 DEF Request
    <2> HIDE DEF q
    <2> QED BY <1>2, <2>0, <2>1
  <1>12. CASE InsertProfile(r) \/ PutEnabled(r) \/ DeleteProfile(r) \/ Leave(r)
    BY <1>1, <1>12 DEF InsertProfile, PutEnabled, DeleteProfile, Leave
  <1> QED BY <1>4, <1>5, <1>6, <1>7, <1>8, <1>9, <1>10, <1>11, <1>12
          DEF Step, CreateStep, RoleStep, ToggleStep, DeleteStep

LEMMA CreatedNext == TypeOK /\ CreatedInv /\ [Next]_vars => CreatedInv'
  <1> SUFFICES ASSUME TypeOK, CreatedInv, [Next]_vars PROVE CreatedInv'
    OBVIOUS
  <1>1. ASSUME Next, NEW s \in Requests, req'[s] = req[s]
        PROVE  CreatedFacts(req'[s], address')
    <2>1. CreatedFacts(req[s], address) /\ req[s] \in Request /\ StageOK(req[s])
      BY DEF CreatedInv, TypeOK
    <2>2. req[s].creating /\ req[s].pc # "post"
            => address'[req[s].id] = address[req[s].id]
      <3> SUFFICES ASSUME req[s].creating, req[s].pc # "post"
                   PROVE  address'[req[s].id] = address[req[s].id]
        OBVIOUS
      <3>1. req[s].pc # "idle" /\ req[s].pc \in PCs
        BY <2>1 DEF CreatedFacts, Request
      <3>2. req[s].id \in Ids /\ address[req[s].id] # Null
        BY <2>1, <3>1 DEF StageOK, PCs
      <3> QED BY <1>1, <3>2, AddressKept
    <2> QED BY <1>1, <2>1, <2>2 DEF CreatedFacts
  <1>2. ASSUME NEW r \in Requests, Step(r) PROVE CreatedInv'
    <2>1. PICK q : Become(r, q) /\ CreatedFacts(q, address')
      BY <1>2, CreatedStep
    <2>2. ASSUME NEW s \in Requests PROVE CreatedFacts(req'[s], address')
      BY <1>1, <1>2, <2>1 DEF Become, TypeOK, Next
    <2> QED BY <2>2 DEF CreatedInv
  <1>3. ASSUME NEW id \in Ids, Identity(id) PROVE CreatedInv'
    <2>1. UNCHANGED req
      BY <1>3 DEF Identity, Register, IssueToken, ExpireToken
    <2> QED BY <1>1, <1>3, <2>1 DEF CreatedInv, Next
  <1>4. CASE UNCHANGED vars
    BY <1>4 DEF vars, Keycloak, CreatedInv, CreatedFacts
  <1> QED BY <1>2, <1>3, <1>4 DEF Next

\* An account that is gone has taken its roles with it.
RolesGo == \A id \in Ids \ accounts : roles[id] = {}

LEMMA RolesGoNext == TypeOK /\ RolesGo /\ [Next]_vars => RolesGo'
  <1> SUFFICES ASSUME TypeOK, RolesGo, [Next]_vars,
                      NEW id \in Ids, id \notin accounts'
               PROVE  roles'[id] = {}
    BY DEF RolesGo
  <1>1. ASSUME UNCHANGED roles, accounts \subseteq accounts'
        PROVE  roles'[id] = {}
    BY <1>1 DEF RolesGo
  <1>2. ASSUME NEW r \in Requests, Step(r) PROVE roles'[id] = {}
    <2>1. CASE RemoveRoles(r) \/ AddRole(r)
      <3>1. req[r].id # id /\ UNCHANGED accounts
        BY <2>1 DEF RemoveRoles, AddRole
      <3>2. roles'[id] = roles[id]
        BY <2>1, <3>1 DEF RemoveRoles, AddRole, TypeOK
      <3> QED BY <3>1, <3>2 DEF RolesGo
    <2>2. CASE DeleteAccount(r)
      <3>1. roles'[id] = IF id = req[r].id THEN {} ELSE roles[id]
        BY <2>2 DEF DeleteAccount, TypeOK
      <3>2. id \in accounts => id = req[r].id
        BY <2>2 DEF DeleteAccount
      <3> QED BY <3>1, <3>2 DEF RolesGo
    <2>3. CASE UNCHANGED roles /\ accounts \subseteq accounts'
      BY <1>1, <2>3
    <2> QED BY <1>2, <2>1, <2>2, <2>3
            DEF Step, CreateStep, RoleStep, ToggleStep, DeleteStep, Keycloak,
                Visit, Provision, Create, PostUser, NewAccount, InsertProfile,
                SetRole, ListRoles, LookupRole, ToggleActive, ReadStatus,
                PutEnabled, Delete, DeleteProfile, Leave
  <1>3. ASSUME NEW new \in Ids, Identity(new) PROVE roles'[id] = {}
    BY <1>1, <1>3 DEF Identity, Register, NewAccount, IssueToken, ExpireToken
  <1>4. CASE UNCHANGED vars
    BY <1>1, <1>4 DEF vars, Keycloak
  <1> QED BY <1>2, <1>3, <1>4 DEF Next

\* What stands in the directory, given both stores.
LEMMA EntryOf ==
  ASSUME NEW id \in Ids
  PROVE  /\ DirectoryView[id].email = address[id]
         /\ DirectoryView[id].roles = roles[id]
         /\ People!HasAccount(id) <=> id \in accounts
         /\ People!HasProfile(id) <=> id \in profiles
         /\ id \in accounts =>
              DirectoryView[id].login = IF id \in enabled THEN "open"
                                                          ELSE "blocked"
  BY DEF DirectoryView, People!HasAccount, People!HasProfile

\* A step that touches both stores at one id only changes one entry.
LEMMA OneEntry ==
  ASSUME NEW id \in Ids, NEW p,
         \A other \in Ids \ {id} :
           /\ address'[other] = address[other]
           /\ other \in accounts' <=> other \in accounts
           /\ other \in enabled' <=> other \in enabled
           /\ roles'[other] = roles[other]
           /\ other \in profiles' <=> other \in profiles,
         DirectoryView'[id] = p
  PROVE  People!Change(id, p)
  BY DEF DirectoryView, People!Change

\* Creating an account is joining the directory.
LEMMA NewAccountJoins ==
  ASSUME TypeOK, RolesGo, NEW id \in Ids, NEW e \in Emails, NewAccount(id, e),
         UNCHANGED <<roles, profiles>>
  PROVE  People!Next
  <1>1. /\ address[id] = Null /\ id \notin accounts
        /\ id \notin profiles /\ roles[id] = {}
    BY DEF NewAccount, TypeOK, RolesGo
  <1>2. /\ address' = [address EXCEPT ![id] = e]
        /\ accounts' = accounts \cup {id} /\ enabled' = enabled \cup {id}
    BY DEF NewAccount
  <1>3. DirectoryView'[id] = People!Person(e, "open", {}, "none")
    BY <1>1, <1>2 DEF DirectoryView, People!Person, TypeOK
  <1>4. People!Change(id, People!Person(e, "open", {}, "none"))
    BY <1>2, <1>3, OneEntry DEF TypeOK
  <1>5. DirectoryView[id] = People!Nobody
    BY <1>1 DEF DirectoryView, People!Nobody, People!Person
  <1>6. \A other \in Ids :
          People!HasAccount(other) => DirectoryView[other].email # e
    BY EntryOf DEF NewAccount, AccountHas
  <1>7. People!Join(id, e)
    BY <1>4, <1>5, <1>6 DEF People!Join
  <1> QED BY <1>7 DEF People!Next

\* Inserting a profile under an address that no profile has.
LEMMA InsertEnrols ==
  ASSUME TypeOK, NEW id \in Ids, address[id] # Null, id \notin profiles,
         ~ProfileHas(address[id]), profiles' = profiles \cup {id},
         UNCHANGED Keycloak
  PROVE  People!Next
  <1>1. DirectoryView'[id] = [DirectoryView[id] EXCEPT !.profile = "kept"]
    BY DEF DirectoryView, Keycloak
  <1>2. People!Change(id, [DirectoryView[id] EXCEPT !.profile = "kept"])
    BY <1>1, OneEntry DEF Keycloak
  <1>3. \A other \in Ids :
          People!HasProfile(other)
            => DirectoryView[other].email # DirectoryView[id].email
    BY EntryOf DEF ProfileHas
  <1>4. People!Enrol(id)
    BY <1>2, <1>3, EntryOf DEF People!Enrol
  <1> QED BY <1>4 DEF People!Next

\* Every step of a request is one change of the directory or none, unless it
\* removes or adds a role beside one that its request has missed.
LEMMA StepChanges ==
  ASSUME TypeOK, RolesGo, CreatedInv, DeletingInv, NEW r \in Requests, Step(r),
         ~ ((RemoveRoles(r) \/ AddRole(r)) /\ RoleMissed(r))
  PROVE  [People!Next]_DirectoryView
  <1> DEFINE id == req[r].id
  <1> USE DEF At
  <1>0. CreatedFacts(req[r], address) /\ StageOK(req[r])
    BY DEF CreatedInv, TypeOK
  <1>1. ASSUME NEW new \in Ids, PostUser(r, new) PROVE People!Next
    <2>1. req[r].email \in Emails
      BY <1>0, <1>1 DEF PostUser, StageOK
    <2> QED BY <1>1, <2>1, NewAccountJoins DEF PostUser
  <1>2. ASSUME Provision(r) PROVE [People!Next]_DirectoryView
    <2>1. id \in Ids /\ address[id] # Null
      BY <1>0, <1>2 DEF Provision, StageOK
    <2>2. CASE id \in profiles \/ ProfileHas(address[id])
      BY <1>2, <2>2 DEF Provision, Keycloak, DirectoryView
    <2>3. CASE id \notin profiles /\ ~ProfileHas(address[id])
      BY <1>2, <2>1, <2>3, InsertEnrols DEF Provision
    <2> QED BY <2>2, <2>3
  <1>3. ASSUME InsertProfile(r) PROVE People!Next
    <2>1. id \in Ids /\ address[id] # Null /\ address[id] = req[r].email
      BY <1>0, <1>3 DEF InsertProfile, StageOK, CreatedFacts
    <2> QED BY <1>3, <2>1, InsertEnrols DEF InsertProfile
  <1>4. ASSUME RemoveRoles(r) PROVE [People!Next]_DirectoryView
    <2>1. /\ id \in Ids /\ id \in accounts
          /\ roles' = [roles EXCEPT ![id] = {}]
          /\ UNCHANGED <<address, accounts, enabled, profiles>>
      <3>1. roles[id] \ req[r].listed = {}
        BY <1>4 DEF RemoveRoles, RoleMissed
      <3> QED BY <1>0, <1>4, <3>1 DEF RemoveRoles, StageOK
    <2> HIDE DEF id
    <2>2. CASE roles[id] = {}
      BY <2>1, <2>2 DEF DirectoryView, TypeOK
    <2>3. CASE roles[id] # {}
      <3>1. DirectoryView'[id] = [DirectoryView[id] EXCEPT !.roles = {}]
        BY <2>1 DEF DirectoryView, TypeOK
      <3>2. People!Change(id, [DirectoryView[id] EXCEPT !.roles = {}])
        BY <2>1, <3>1, OneEntry DEF TypeOK
      <3>3. People!Revoke(id)
        BY <2>1, <2>3, <3>2, EntryOf DEF People!Revoke
      <3> QED BY <2>1, <3>3 DEF People!Next
    <2> QED BY <2>2, <2>3
  <1>5. ASSUME AddRole(r) PROVE [People!Next]_DirectoryView
    <2>1. /\ id \in Ids /\ id \in accounts /\ roles[id] = {}
          /\ roles' = [roles EXCEPT ![id] = {req[r].role} \cap Roles]
          /\ UNCHANGED <<address, accounts, enabled, profiles>>
      <3>1. roles[id] = {}
        BY <1>5 DEF AddRole, RoleMissed
      <3> QED BY <1>0, <1>5, <3>1 DEF AddRole, Granted, StageOK
    <2> HIDE DEF id
    <2>2. CASE req[r].role \notin Roles
      <3>1. roles' = [roles EXCEPT ![id] = {}]
        BY <2>1, <2>2
      <3>2. roles' = roles
        BY <2>1, <3>1 DEF TypeOK
      <3> QED BY <2>1, <3>2 DEF DirectoryView
    <2>3. CASE req[r].role \in Roles
      <3> DEFINE given == {req[r].role}
      <3>1. roles' = [roles EXCEPT ![id] = given]
        BY <2>1, <2>3
      <3> HIDE DEF given
      <3>2. DirectoryView'[id] = [DirectoryView[id] EXCEPT !.roles = given]
        <4>1. roles'[id] = given
          BY <2>1, <3>1 DEF TypeOK
        <4> QED BY <2>1, <4>1 DEF DirectoryView
      <3>3. People!Change(id, [DirectoryView[id] EXCEPT !.roles = given])
        BY <2>1, <3>2, OneEntry DEF TypeOK
      <3>4. People!Grant(id, req[r].role)
        BY <2>1, <3>3, EntryOf DEF People!Grant, given
      <3> QED BY <2>1, <2>3, <3>4 DEF People!Next
    <2> QED BY <2>2, <2>3
  <1>6. ASSUME PutEnabled(r) PROVE [People!Next]_DirectoryView
    <2> DEFINE flag == IF id \in enabled THEN "blocked" ELSE "open"
    <2>1. /\ id \in Ids /\ id \in accounts
          /\ \/ enabled' = enabled
             \/ enabled' = IF id \in enabled THEN enabled \ {id}
                                             ELSE enabled \cup {id}
          /\ UNCHANGED <<address, accounts, roles, profiles>>
      BY <1>0, <1>6 DEF PutEnabled, StageOK
    <2> HIDE DEF id
    <2>2. CASE enabled' = enabled
      BY <2>1, <2>2 DEF DirectoryView
    <2>3. CASE enabled' # enabled
      <3>1. DirectoryView'[id] = [DirectoryView[id] EXCEPT !.login = flag]
        BY <2>1, <2>3 DEF DirectoryView
      <3>2. People!Change(id, [DirectoryView[id] EXCEPT !.login = flag])
        BY <2>1, <2>3, <3>1, OneEntry
      <3>3. flag = IF DirectoryView[id].login = "open" THEN "blocked" ELSE "open"
        BY <2>1, EntryOf
      <3> HIDE DEF flag
      <3>4. People!Toggle(id)
        BY <2>1, <3>2, <3>3, EntryOf DEF People!Toggle
      <3> QED BY <2>1, <3>4 DEF People!Next
    <2> QED BY <2>2, <2>3
  <1>7. ASSUME DeleteAccount(r) PROVE People!Next
    <2>1. /\ id \in Ids /\ id \in accounts
          /\ accounts' = accounts \ {id} /\ enabled' = enabled \ {id}
          /\ roles' = [roles EXCEPT ![id] = {}]
          /\ UNCHANGED <<address, profiles>>
      BY <1>0, <1>7 DEF DeleteAccount, StageOK
    <2> HIDE DEF id
    <2> DEFINE gone == People!Person(DirectoryView[id].email, "none", {},
                                     DirectoryView[id].profile)
    <2>2. DirectoryView'[id] = gone
      <3>1. roles'[id] = {} /\ id \notin accounts'
        BY <2>1 DEF TypeOK
      <3> QED BY <2>1, <3>1 DEF DirectoryView, People!Person
    <2>3. People!Change(id, gone)
      BY <2>1, <2>2, OneEntry DEF TypeOK
    <2>4. People!Dismiss(id)
      BY <2>1, <2>3, EntryOf DEF People!Dismiss
    <2> QED BY <2>1, <2>4 DEF People!Next
  <1>8. ASSUME DeleteProfile(r) PROVE People!Next
    <2>1. /\ id \in Ids /\ id \in profiles /\ id \notin accounts
          /\ profiles' = profiles \ {id}
          /\ UNCHANGED Keycloak
      BY <1>0, <1>8 DEF DeleteProfile, StageOK, DeletingInv
    <2> HIDE DEF id
    <2>2. DirectoryView'[id] = [DirectoryView[id] EXCEPT !.profile = "none"]
      BY <2>1 DEF DirectoryView, Keycloak
    <2>3. People!Change(id, [DirectoryView[id] EXCEPT !.profile = "none"])
      BY <2>1, <2>2, OneEntry DEF Keycloak
    <2>4. People!Erase(id)
      BY <2>1, <2>3, EntryOf DEF People!Erase
    <2> QED BY <2>1, <2>4 DEF People!Next
  <1>9. CASE UNCHANGED <<Keycloak, profiles>>
    BY <1>9 DEF Keycloak, DirectoryView
  <1> QED BY <1>1, <1>2, <1>3, <1>4, <1>5, <1>6, <1>7, <1>8, <1>9
          DEF Step, CreateStep, RoleStep, ToggleStep, DeleteStep, Visit, Create,
              SetRole, ListRoles, LookupRole, ToggleActive, ReadStatus, Delete,
              Leave

LEMMA NextChanges ==
  ASSUME TypeOK, RolesGo, CreatedInv, DeletingInv, [Next]_vars,
         \A r \in Requests : ~ ((RemoveRoles(r) \/ AddRole(r)) /\ RoleMissed(r))
  PROVE  [People!Next]_DirectoryView
  <1>1. ASSUME NEW id \in Ids, Identity(id) PROVE [People!Next]_DirectoryView
    <2>1. ASSUME NEW e \in Emails, Register(id, e) PROVE People!Next
      BY <2>1, NewAccountJoins DEF Register
    <2>2. CASE IssueToken(id) \/ ExpireToken(id)
      BY <2>2 DEF IssueToken, ExpireToken, DirectoryView
    <2> QED BY <1>1, <2>1, <2>2 DEF Identity
  <1>2. CASE UNCHANGED vars
    BY <1>2 DEF vars, Keycloak, DirectoryView
  <1> QED BY <1>1, <1>2, StepChanges DEF Next

LEMMA DirectoryInvariant == Spec => [](TypeOK /\ RolesGo /\ CreatedInv /\ DeletingInv)
  <1>1. Init => RolesGo /\ CreatedInv /\ DeletingInv
    BY DEF Init, Idle, RolesGo, CreatedInv, CreatedFacts, DeletingInv
  <1> QED BY <1>1, TypeCorrect, RolesGoNext, CreatedNext, DeletingNext, PTL DEF Spec

\* For any number of administrators, the two stores change as one directory does,
\* but for roles that are removed or added over a role that was missed.
THEOREM ChangesIndivisibleHolds == Spec => ChangesIndivisible
  <1>1. TypeOK /\ RolesGo /\ CreatedInv /\ DeletingInv /\ [Next]_vars
          => [\/ People!Next
              \/ \E r \in Requests :
                   (RemoveRoles(r) \/ AddRole(r)) /\ RoleMissed(r)
             ]_DirectoryView
    BY NextChanges
  <1> QED BY <1>1, DirectoryInvariant, PTL DEF Spec, ChangesIndivisible

\* With one managing slot no role is missed, and both stores together are the
\* directory, for any number of deletions, logins and first requests.
THEOREM DirectoryImplemented ==
  ASSUME OneManager
  PROVE  Spec => ImplementsDirectory
  <1>1. Init => People!Init
    BY DEF Init, DirectoryView, People!Init, People!Nobody, People!Person
  <1>2. RoleInv => \A r \in Requests :
                     ~ ((RemoveRoles(r) \/ AddRole(r)) /\ RoleMissed(r))
    BY DEF RoleInv, RoleStage, RoleFacts, RoleMissed, RemoveRoles, AddRole, At
  <1>3. ASSUME TypeOK, RolesGo, CreatedInv, DeletingInv, RoleInv, [Next]_vars
        PROVE  [People!Next]_DirectoryView
    BY <1>2, <1>3, NextChanges
  <1> QED BY <1>1, <1>3, RoleInvariant, DirectoryInvariant, PTL
          DEF Spec, ImplementsDirectory, People!Spec
=============================================================================
