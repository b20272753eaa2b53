-------------------------- MODULE UsersPageProofs ---------------------------
(***************************************************************************)
(* Proofs about UsersPage, for any number of users, rows on a page and     *)
(* requests under way.                                                     *)
(***************************************************************************)
EXTENDS UsersPage, FiniteSetTheorems, TLAPS

-----------------------------------------------------------------------------
(* Type correctness.                                                       *)

LEMMA GetAllTyped ==
  ASSUME TypeOK, NEW p \in Pages, NEW r \in Roles \cup {None}
  PROVE  GetAll(p, r) \subseteq SUBSET Rows /\ Cardinality(People) \in Nat
  <1>1. \A id \in Ids : Row(id) \in Rows
    <2>1. \A a \in Account : /\ a.name \in Names /\ a.role \in Roles
                             /\ a.active \in BOOLEAN
      BY DEF Account
    <2>2. Absent.name = None /\ Absent.role = None /\ Absent.active = FALSE
      BY DEF Absent
    <2>3. \A id \in Ids : /\ accounts[id].name \in Names \cup {None}
                          /\ accounts[id].role \in Roles \cup {None}
                          /\ accounts[id].active \in BOOLEAN
      BY <2>1, <2>2 DEF TypeOK
    <2> QED BY <2>3 DEF Row, Rows
  <1>2. \A slice \in Slices(p) : slice \subseteq Ids
    BY DEF Slices, Cuts, People
  <1>3. GetAll(p, r) \subseteq SUBSET Rows
    BY <1>1, <1>2 DEF GetAll
  <1>4. IsFiniteSet(People)
    BY ConstantsAssumption, FS_Subset DEF People
  <1> QED BY <1>3, <1>4, FS_CardinalityType

LEMMA NothingTyped ==
  /\ NoLoad \in ListRequests /\ NoSave \in SaveRequests
  /\ NoCall \in CallRequests /\ NoModal \in Modals
  BY DEF NoLoad, ListRequests, Pages, NoSave, SaveRequests, NoModal, Modals,
         NoCall, CallRequests

LEMMA SentTyped ==
  ASSUME NEW p \in Pages, NEW r \in Roles \cup {None}
  PROVE  Sent(p, r) \in ListRequests
  BY DEF Sent, NoLoad, ListRequests, Pages

LEMMA TypeInit == Init => TypeOK
  <1> SUFFICES ASSUME Init PROVE TypeOK
    OBVIOUS
  <1>1. loads \in [Loads -> ListRequests]
    BY SentTyped, NothingTyped DEF Init, Pages
  <1>2. [name : Names, role : Roles, active : {TRUE}] \subseteq Account
    BY DEF Account
  <1>3. accounts \in [Ids -> Account \cup {Absent}]
    BY <1>2 DEF Init
  <1>4. saves \in [Saves -> SaveRequests] /\ calls \in [Calls -> CallRequests]
    BY NothingTyped DEF Init
  <1>5. page \in Pages /\ roleFilter \in Roles \cup {None} /\ modal \in Modals
    BY NothingTyped DEF Init, Pages
  <1> QED BY <1>1, <1>3, <1>4, <1>5 DEF Init, TypeOK

\* What load() leaves behind.
LEMMA LoadTyped ==
  ASSUME TypeOK, NEW l \in Loads, NEW p \in Pages, NEW r \in Roles \cup {None},
         Load(l, p, r)
  PROVE  /\ loads' \in [Loads -> ListRequests]
         /\ page' \in Pages /\ roleFilter' \in Roles \cup {None}
         /\ users' \in SUBSET Rows /\ total' \in Nat /\ loading' \in BOOLEAN
         /\ current' \in BOOLEAN
  <1>1. \A k \in Loads : [loads[k] EXCEPT !.latest = FALSE] \in ListRequests
    BY DEF TypeOK, ListRequests
  <1> QED BY <1>1, SentTyped DEF Load, TypeOK

LEMMA TypeAdministrator == TypeOK /\ Administrator => TypeOK'
  <1> SUFFICES ASSUME TypeOK, Administrator PROVE TypeOK'
    OBVIOUS
  <1> USE DEF dialogs, table
  <1>1. page \in Pages /\ roleFilter \in Roles \cup {None}
    BY DEF TypeOK
  <1>2. ASSUME NEW l \in Loads, Previous(l) PROVE TypeOK'
    <2>1. page - 1 \in Pages
      BY <1>1, <1>2 DEF Previous, Pages
    <2> QED BY <1>1, <1>2, <2>1, LoadTyped DEF Previous, TypeOK
  <1>3. ASSUME NEW l \in Loads, Following(l) PROVE TypeOK'
    <2>1. page + 1 \in Pages
      BY <1>1 DEF Pages
    <2> QED BY <1>1, <1>3, <2>1, LoadTyped DEF Following, TypeOK
  <1>4. ASSUME NEW l \in Loads, NEW p \in PageNumbers, GoTo(l, p) PROVE TypeOK'
    <2>1. p \in Pages
      BY DEF PageNumbers, Pages
    <2> QED BY <1>1, <1>4, <2>1, LoadTyped DEF GoTo, TypeOK
  <1>5. ASSUME NEW l \in Loads, NEW r \in Roles \cup {None}, Filter(l, r)
        PROVE  TypeOK'
    BY <1>5, LoadTyped DEF Filter, TypeOK, Pages
  <1>6. ASSUME NEW m \in Modals, OpenModal(m) PROVE TypeOK'
    BY <1>6 DEF OpenModal, TypeOK
  <1>7. [mode |-> "create", user |-> None] \in Modals
    BY DEF Modals
  <1>8. \A row \in users : [mode |-> "edit", user |-> row.id] \in Modals
    BY DEF Modals, TypeOK, Rows
  <1>9. ASSUME NEW row \in users, ConfirmDelete(row.id) PROVE TypeOK'
    BY <1>9 DEF ConfirmDelete, TypeOK, Rows
  <1>10. CASE Close
    BY <1>10, NothingTyped DEF Close, TypeOK
  <1>11. ASSUME NEW s \in Saves, OnSubmit(s) PROVE TypeOK'
    <2>1. [stage |-> "sent", modal |-> modal] \in SaveRequests
      BY DEF SaveRequests, TypeOK
    <2> QED BY <1>11, <2>1 DEF OnSubmit, TypeOK
  <1>12. ASSUME NEW c \in Calls, NEW k \in {"toggle", "delete"},
                NEW id \in Ids \cup {None}, Call(c, k, id)
         PROVE  TypeOK'
    <2>1. [stage |-> "sent", kind |-> k, id |-> id] \in CallRequests
      BY DEF CallRequests
    <2> QED BY <1>12, <2>1 DEF Call, TypeOK
  <1>13. ASSUME NEW c \in Calls, NEW row \in users, ToggleActive(c, row.id)
         PROVE  TypeOK'
    BY <1>12, <1>13 DEF ToggleActive, TypeOK, Rows
  <1>14. ASSUME NEW c \in Calls, DeleteUser(c) PROVE TypeOK'
    BY <1>12, <1>14 DEF DeleteUser, TypeOK
  <1> QED
    BY <1>2, <1>3, <1>4, <1>5, <1>6, <1>7, <1>8, <1>9, <1>10, <1>11, <1>13,
       <1>14 DEF Administrator

LEMMA TypeNetwork == TypeOK /\ Network => TypeOK'
  <1> SUFFICES ASSUME TypeOK, Network PROVE TypeOK'
    OBVIOUS
  <1> USE DEF dialogs, table
  <1>1. page \in Pages /\ roleFilter \in Roles \cup {None}
    BY DEF TypeOK
  <1>2. ASSUME NEW l \in Loads, Answer(l) PROVE TypeOK'
    <2>1. PICK rows \in GetAll(loads[l].page, loads[l].role) :
            loads' = [loads EXCEPT ![l] = [loads[l] EXCEPT
                        !.stage = "answered", !.users = rows,
                        !.total = Cardinality(People)]]
      BY <1>2 DEF Answer
    <2> DEFINE q == [loads[l] EXCEPT !.stage = "answered", !.users = rows,
                                     !.total = Cardinality(People)]
    <2>2. q \in ListRequests
      <3>1. loads[l] \in ListRequests
        BY DEF TypeOK
      <3>2. rows \in SUBSET Rows /\ Cardinality(People) \in Nat
        BY <3>1, GetAllTyped DEF ListRequests
      <3> QED BY <3>1, <3>2 DEF ListRequests
    <2> HIDE DEF q
    <2>3. loads' = [loads EXCEPT ![l] = q]
      BY <2>1 DEF q
    <2> QED BY <1>2, <2>2, <2>3 DEF Answer, TypeOK
  <1>3. ASSUME NEW l \in Loads, Show(l) PROVE TypeOK'
    <2>1. loads[l] \in ListRequests
      BY DEF TypeOK
    <2> QED BY <1>3, <2>1, NothingTyped DEF Show, TypeOK, ListRequests
  <1>4. ASSUME NEW l \in Loads, LoadFailed(l) PROVE TypeOK'
    BY <1>4, NothingTyped DEF LoadFailed, TypeOK
  <1>5. ASSUME NEW s \in Saves, NEW id \in Ids, NEW name \in Names,
               NEW role \in Roles, ApplySave(s, id, name, role)
        PROVE  TypeOK'
    <2>1. [name |-> name, role |-> role, active |-> TRUE] \in Account
      BY DEF Account
    <2>2. id \in People => [accounts[id] EXCEPT !.name = name] \in Account
      BY DEF Account, People, TypeOK
    <2>3. accounts' \in [Ids -> Account \cup {Absent}]
      BY <1>5, <2>1, <2>2 DEF ApplySave, TypeOK
    <2>4. saves' \in [Saves -> SaveRequests]
      BY <1>5 DEF ApplySave, TypeOK, SaveRequests
    <2> QED BY <1>5, <2>3, <2>4 DEF ApplySave, TypeOK
  <1>6. ASSUME NEW s \in Saves, NEW l \in Loads, SaveDone(s, l) PROVE TypeOK'
    BY <1>1, <1>6, LoadTyped, NothingTyped DEF SaveDone, TypeOK
  <1>7. ASSUME NEW s \in Saves, SaveFailed(s) PROVE TypeOK'
    BY <1>7, NothingTyped DEF SaveFailed, TypeOK
  <1>8. ASSUME NEW c \in Calls, ApplyCall(c) PROVE TypeOK'
    <2>1. calls' \in [Calls -> CallRequests]
      BY <1>8 DEF ApplyCall, TypeOK, CallRequests
    <2>2. calls[c].id \in Ids /\ accounts[calls[c].id] \in Account
      BY <1>8 DEF ApplyCall, People, TypeOK
    <2>3. [accounts[calls[c].id] EXCEPT !.active = ~@] \in Account
      BY <2>2 DEF Account
    <2>4. accounts' \in [Ids -> Account \cup {Absent}]
      BY <1>8, <2>2, <2>3 DEF ApplyCall, TypeOK
    <2> QED BY <1>8, <2>1, <2>4 DEF ApplyCall, TypeOK
  <1>9. ASSUME NEW c \in Calls, NEW l \in Loads, CallDone(c, l) PROVE TypeOK'
    BY <1>1, <1>9, LoadTyped, NothingTyped DEF CallDone, TypeOK
  <1>10. ASSUME NEW c \in Calls, CallFailed(c) PROVE TypeOK'
    BY <1>10, NothingTyped DEF CallFailed, TypeOK
  <1> QED
    BY <1>2, <1>3, <1>4, <1>5, <1>6, <1>7, <1>8, <1>9, <1>10 DEF Network

LEMMA TypeNext == TypeOK /\ [Next]_vars => TypeOK'
  <1> SUFFICES ASSUME TypeOK, [Next]_vars PROVE TypeOK'
    OBVIOUS
  <1>1. ASSUME NEW id \in Ids, Others(id) PROVE TypeOK'
    BY <1>1 DEF Others, TypeOK, table, dialogs
  <1>2. CASE UNCHANGED vars
    BY <1>2 DEF TypeOK, vars, table, dialogs
  <1> QED BY <1>1, <1>2, TypeAdministrator, TypeNetwork DEF Next

\* The page, its dialogs and its requests keep their types; in particular the
\* page buttons never ask for a page before the first.
THEOREM TypeCorrect == Spec => []TypeOK
  BY TypeInit, TypeNext, PTL DEF Spec

-----------------------------------------------------------------------------
(* One save at a time.                                                     *)

LEMMA OneSaveInit == Init => OneSave
  BY DEF Init, OneSave, Saving

LEMMA OneSaveNext == TypeOK /\ OneSave /\ [Next]_vars => OneSave'
  <1> SUFFICES ASSUME TypeOK, OneSave, [Next]_vars PROVE OneSave'
    OBVIOUS
  <1> USE DEF OneSave, Saving, TypeOK
  <1>1. CASE saves' = saves /\ saving' = saving
    BY <1>1
  <1>2. ASSUME NEW s \in Saves, OnSubmit(s) PROVE OneSave'
    <2>1. /\ saves'[s] # NoSave /\ \A t \in Saves \ {s} : saves'[t] = saves[t]
          /\ saving' /\ ~saving
      BY <1>2 DEF OnSubmit, NoSave, SaveRequests
    <2> QED BY <2>1
  <1>3. ASSUME NEW s \in Saves, NEW id \in Ids, NEW name \in Names,
               NEW role \in Roles, ApplySave(s, id, name, role)
        PROVE  OneSave'
    <2>1. /\ saves[s] # NoSave /\ saves'[s] # NoSave
          /\ \A t \in Saves \ {s} : saves'[t] = saves[t]
          /\ saving' = saving
      BY <1>3 DEF ApplySave, NoSave, SaveRequests, dialogs
    <2> QED BY <2>1
  <1>4. ASSUME NEW s \in Saves, SaveFailed(s) \/ \E l \in Loads : SaveDone(s, l)
        PROVE  OneSave'
    <2>1. /\ saves[s] # NoSave /\ saves' = [saves EXCEPT ![s] = NoSave]
          /\ saving' = FALSE
      BY <1>4 DEF SaveFailed, SaveDone, NoSave
    <2>2. \A t \in Saves : saves'[t] = NoSave
      BY <2>1
    <2> QED BY <2>1, <2>2
  <1>5. CASE Administrator
    BY <1>1, <1>2, <1>5 DEF Administrator, Previous, Following, GoTo, Filter,
                            OpenModal, ConfirmDelete, Close, ToggleActive,
                            DeleteUser, Call, dialogs
  <1>6. CASE Network
    BY <1>1, <1>3, <1>4, <1>6 DEF Network, Answer, Show, LoadFailed, ApplyCall,
                                  CallDone, CallFailed, dialogs
  <1>7. ASSUME NEW id \in Ids, Others(id) PROVE OneSave'
    BY <1>1, <1>7 DEF Others, dialogs
  <1>8. CASE UNCHANGED vars
    BY <1>1, <1>8 DEF vars, dialogs
  <1> QED BY <1>5, <1>6, <1>7, <1>8 DEF Next

\* However the dialog is closed and opened, the page never has two saves under
\* way, and its flag is set exactly while it has one.
THEOREM OneSaveHolds == Spec => []OneSave
  BY OneSaveInit, OneSaveNext, TypeCorrect, PTL DEF Spec

-----------------------------------------------------------------------------
(* The table.                                                              *)

\* Nothing has changed the accounts behind the back of the latest list request.
Settled ==
  /\ ~unseen
  /\ \A s \in Saves : saves[s].stage # "applied"
  /\ \A c \in Calls : calls[c].stage # "applied"

Shows(us, n) == us \in GetAll(page, roleFilter) /\ n = Cardinality(People)

\* The latest request carries the page and the role of the controls; its
\* answer, and the table that shows it, are what the server may answer now.
TableInv ==
  /\ \A l \in Loads : loads[l].latest =>
       ~current /\ loads[l].page = page /\ loads[l].role = roleFilter
  /\ \A l, k \in Loads : loads[l].latest /\ loads[k].latest => l = k
  /\ Settled => \A l \in Loads :
       loads[l].latest /\ loads[l].stage = "answered"
         => Shows(loads[l].users, loads[l].total)
  /\ current => ~loading
  /\ Settled /\ current => Shows(users, total)

LEMMA TableInit == Init => TableInv
  BY DEF Init, TableInv, Sent, NoLoad

\* load() makes its own request the only latest one; none is answered.
LEMMA TableAfterLoad ==
  ASSUME TypeOK, NEW l \in Loads, NEW p \in Pages, NEW r \in Roles \cup {None},
         Load(l, p, r)
  PROVE  TableInv'
  <1>1. /\ loads'[l].latest /\ loads'[l].stage = "sent"
        /\ loads'[l].page = p /\ loads'[l].role = r
    BY DEF Load, Sent, NoLoad
  <1>2. \A k \in Loads \ {l} : ~loads'[k].latest
    BY DEF Load, TypeOK, ListRequests
  <1> QED BY <1>1, <1>2 DEF Load, TableInv

\* A step that leaves the table alone, and changes the accounts only where the
\* latest request may have missed it, preserves the invariant.
LEMMA TableFrame ==
  ASSUME TableInv, UNCHANGED <<table, loads, current>>,
         Settled' => Settled /\ accounts' = accounts
  PROVE  TableInv'
  <1>1. Settled' => /\ GetAll(page, roleFilter)' = GetAll(page, roleFilter)
                    /\ Cardinality(People)' = Cardinality(People)
    BY DEF GetAll, Slices, People, Row, HasRole, table
  <1> QED BY <1>1 DEF TableInv, table, Shows

LEMMA TableShow ==
  ASSUME TypeOK, TableInv, NEW l \in Loads, Show(l)
  PROVE  TableInv'
  <1>1. ~loads'[l].latest /\ \A k \in Loads \ {l} : loads'[k] = loads[k]
    BY DEF Show, TypeOK, NoLoad
  <1>2. UNCHANGED <<accounts, page, roleFilter, saves, calls, unseen>>
    BY DEF Show
  <1>3. /\ GetAll(page, roleFilter)' = GetAll(page, roleFilter)
        /\ Cardinality(People)' = Cardinality(People)
        /\ Settled' <=> Settled
    BY <1>2 DEF GetAll, Slices, People, Row, HasRole, Settled
  <1>4. /\ loads[l].stage = "answered" /\ current' = loads[l].latest
        /\ users' = loads[l].users /\ total' = loads[l].total /\ ~loading'
    BY DEF Show
  <1> QED BY <1>1, <1>2, <1>3, <1>4 DEF TableInv, Shows

LEMMA TableAnswer ==
  ASSUME TypeOK, TableInv, NEW l \in Loads, Answer(l)
  PROVE  TableInv'
  <1> DEFINE q == loads[l]
  <1>1. q \in ListRequests
    BY DEF TypeOK
  <1>2. /\ loads'[l].latest = q.latest /\ loads'[l].page = q.page
        /\ loads'[l].role = q.role
        /\ loads'[l].users \in GetAll(q.page, q.role)
        /\ loads'[l].total = Cardinality(People)
    BY <1>1 DEF Answer, TypeOK, ListRequests
  <1>3. \A k \in Loads \ {l} : loads'[k] = loads[k]
    BY DEF Answer, TypeOK
  <1>4. UNCHANGED <<accounts, table, saves, calls, current>>
    BY DEF Answer
  <1>5. /\ GetAll(page, roleFilter)' = GetAll(page, roleFilter)
        /\ Cardinality(People)' = Cardinality(People)
    BY <1>4 DEF GetAll, Slices, People, Row, HasRole, table
  <1>6. CASE q.latest
    <2>1. q.page = page /\ q.role = roleFilter /\ ~current
      BY <1>6 DEF TableInv
    <2> QED
      BY <1>2, <1>3, <1>4, <1>5, <1>6, <2>1 DEF TableInv, Shows, table
  <1>7. CASE ~q.latest
    <2>1. Settled' => Settled
      BY <1>4, <1>7 DEF Answer, Settled
    <2> QED
      BY <1>2, <1>3, <1>4, <1>5, <1>7, <2>1 DEF TableInv, Shows, table
  <1> QED BY <1>6, <1>7

LEMMA TableNetwork ==
  ASSUME TypeOK, TableInv, Network
  PROVE  TableInv'
  <1>1. ASSUME NEW l \in Loads, LoadFailed(l) PROVE TableInv'
    <2>1. ~loads'[l].latest /\ \A k \in Loads \ {l} : loads'[k] = loads[k]
      BY <1>1 DEF LoadFailed, TypeOK, NoLoad
    <2>2. UNCHANGED <<accounts, table, saves, calls, current, unseen>>
      BY <1>1 DEF LoadFailed
    <2>3. /\ GetAll(page, roleFilter)' = GetAll(page, roleFilter)
          /\ Cardinality(People)' = Cardinality(People)
          /\ Settled' <=> Settled
      BY <2>2 DEF GetAll, Slices, People, Row, HasRole, Settled, table
    <2> QED BY <2>1, <2>2, <2>3 DEF TableInv, Shows, table
  <1>2. ASSUME NEW s \in Saves, NEW id \in Ids, NEW name \in Names,
               NEW role \in Roles, ApplySave(s, id, name, role)
        PROVE  TableInv'
    <2>1. ~Settled'
      BY <1>2 DEF ApplySave, TypeOK, SaveRequests, Settled
    <2> QED BY <1>2, <2>1, TableFrame DEF ApplySave
  <1>3. ASSUME NEW s \in Saves, SaveFailed(s) PROVE TableInv'
    <2>1. Settled' => Settled /\ accounts' = accounts
      BY <1>3 DEF SaveFailed, TypeOK, Settled
    <2> QED BY <1>3, <2>1, TableFrame DEF SaveFailed
  <1>4. ASSUME NEW c \in Calls, ApplyCall(c) PROVE TableInv'
    <2>1. ~Settled'
      BY <1>4 DEF ApplyCall, TypeOK, CallRequests, Settled
    <2> QED BY <1>4, <2>1, TableFrame DEF ApplyCall
  <1>5. ASSUME NEW c \in Calls, CallFailed(c) PROVE TableInv'
    <2>1. Settled' => Settled /\ accounts' = accounts
      BY <1>5 DEF CallFailed, TypeOK, Settled
    <2> QED BY <1>5, <2>1, TableFrame DEF CallFailed
  <1>6. ASSUME NEW l \in Loads, \/ \E s \in Saves : SaveDone(s, l)
                                \/ \E c \in Calls : CallDone(c, l)
        PROVE  TableInv'
    <2>1. page \in Pages /\ roleFilter \in Roles \cup {None}
      BY DEF TypeOK
    <2>2. Load(l, page, roleFilter)
      BY <1>6 DEF SaveDone, CallDone
    <2> QED BY <2>1, <2>2, TableAfterLoad
  <1> QED
    BY <1>1, <1>2, <1>3, <1>4, <1>5, <1>6, TableAnswer, TableShow DEF Network

LEMMA TableAdministrator ==
  ASSUME TypeOK, TableInv, Administrator
  PROVE  TableInv'
  <1>1. page \in Pages /\ roleFilter \in Roles \cup {None}
    BY DEF TypeOK
  <1>2. ASSUME NEW l \in Loads, Previous(l) PROVE TableInv'
    <2>1. page - 1 \in Pages
      BY <1>1, <1>2 DEF Previous, Pages
    <2> QED BY <1>1, <1>2, <2>1, TableAfterLoad DEF Previous
  <1>3. ASSUME NEW l \in Loads, Following(l) PROVE TableInv'
    <2>1. page + 1 \in Pages
      BY <1>1 DEF Pages
    <2> QED BY <1>1, <1>3, <2>1, TableAfterLoad DEF Following
  <1>4. ASSUME NEW l \in Loads, NEW p \in PageNumbers, GoTo(l, p)
        PROVE  TableInv'
    <2>1. p \in Pages
      BY DEF PageNumbers, Pages
    <2> QED BY <1>1, <1>4, <2>1, TableAfterLoad DEF GoTo
  <1>5. ASSUME NEW l \in Loads, NEW r \in Roles \cup {None}, Filter(l, r)
        PROVE  TableInv'
    BY <1>5, TableAfterLoad DEF Filter, Pages
  <1>6. ASSUME NEW s \in Saves, OnSubmit(s) PROVE TableInv'
    <2>1. Settled' => Settled /\ accounts' = accounts
      BY <1>6 DEF OnSubmit, TypeOK, Settled, NoSave
    <2> QED BY <1>6, <2>1, TableFrame DEF OnSubmit
  <1>7. ASSUME NEW c \in Calls, NEW k, NEW id, Call(c, k, id) PROVE TableInv'
    <2>1. Settled' => Settled /\ accounts' = accounts
      BY <1>7 DEF Call, TypeOK, Settled, NoCall
    <2> QED BY <1>7, <2>1, TableFrame DEF Call
  <1>8. ASSUME \/ \E c \in Calls, row \in users : ToggleActive(c, row.id)
               \/ \E c \in Calls : DeleteUser(c)
        PROVE  TableInv'
    BY <1>7, <1>8 DEF ToggleActive, DeleteUser
  <1>9. CASE UNCHANGED <<accounts, table, loads, saves, calls, current, unseen>>
    BY <1>9, TableFrame DEF Settled
  <1> QED
    BY <1>2, <1>3, <1>4, <1>5, <1>6, <1>8, <1>9
    DEF Administrator, OpenModal, ConfirmDelete, Close

LEMMA TableNext == TypeOK /\ TableInv /\ [Next]_vars => TableInv'
  <1> SUFFICES ASSUME TypeOK, TableInv, [Next]_vars PROVE TableInv'
    OBVIOUS
  <1>1. ASSUME NEW id \in Ids, Others(id) PROVE TableInv'
    BY <1>1, TableFrame DEF Others, Settled
  <1>2. CASE UNCHANGED vars
    BY <1>2, TableFrame DEF vars, Settled
  <1> QED BY <1>1, <1>2, TableNetwork, TableAdministrator DEF Next

\* When every reply has come, in whatever order, the table is what the server
\* may answer to the page and role that the controls show, for any number of
\* requests, users and rows on a page.
THEOREM TableFaithfulHolds == Spec => []TableFaithful
  <1>1. TypeOK /\ TableInv => TableFaithful
    BY DEF TableInv, TableFaithful, AtRest, Settled, Shows, Saving, NoSave,
           NoCall, TypeOK
  <1> QED BY <1>1, TableInit, TableNext, TypeCorrect, PTL DEF Spec

-----------------------------------------------------------------------------
(* The pages together.                                                     *)

LEMMA Division ==
  ASSUME NEW n \in Nat, NEW k \in Nat \ {0}
  PROVE  /\ n \div k \in Nat
         /\ (n \div k) * k <= n
         /\ n < (n \div k + 1) * k
  <1>1. n \div k \in Int
    OBVIOUS
  <1>2. (n \div k) * k <= n
    OBVIOUS
  <1>3. n < (n \div k + 1) * k
    OBVIOUS
  <1>4. n \div k >= 0
    <2>1. CASE n \div k + 1 <= 0
      <3>1. (n \div k + 1) * k <= 0
        BY <1>1, <2>1
      <3> QED BY <1>1, <1>3, <3>1
    <2>2. CASE n \div k + 1 > 0
      BY <1>1, <2>2
    <2> QED BY <1>1, <2>1, <2>2
  <1> QED BY <1>1, <1>2, <1>3, <1>4

\* The first of the places that the rows of i's key share.
First(S, key, i) == Cardinality({j \in S : key[j] < key[i]}) + 1

LEMMA FirstBounds ==
  ASSUME NEW S, IsFiniteSet(S), NEW key, NEW i \in S, key[i] \in Nat
  PROVE  First(S, key, i) \in 1 .. Cardinality(S)
  <1> DEFINE B == {j \in S : key[j] < key[i]}
  <1>1. B \subseteq S /\ i \notin B
    OBVIOUS
  <1>2. /\ IsFiniteSet(B) /\ Cardinality(B) <= Cardinality(S)
        /\ Cardinality(B) # Cardinality(S)
    <2> HIDE DEF B
    <2> QED BY <1>1, FS_Subset
  <1>3. Cardinality(B) \in Nat /\ Cardinality(S) \in Nat
    BY <1>2, FS_CardinalityType
  <1> QED BY <1>2, <1>3 DEF First

\* Each place is somebody's: as many rows as places, and no place twice.
LEMMA PlaceOnto ==
  ASSUME NEW S, IsFiniteSet(S), NEW key, NEW place \in Orders(S, key),
         NEW n \in 1 .. Cardinality(S)
  PROVE  \E i \in S : place[i] = n
  <1> DEFINE T == 1 .. Cardinality(S)
  <1>1. place \in Injection(S, T)
    BY DEF Orders
  <1>2. Cardinality(S) \in Nat
    BY FS_CardinalityType
  <1>3. IsFiniteSet(T) /\ Cardinality(T) = Cardinality(S)
    BY <1>2, FS_Interval
  <1>4. place \in Surjection(S, T)
    <2> HIDE DEF T
    <2> QED BY <1>1, <1>3, FS_Injection
  <1> QED BY <1>4 DEF Surjection

\* The first n places are taken by n rows.
LEMMA PlacesUpTo ==
  ASSUME NEW S, IsFiniteSet(S), NEW key, NEW place \in Orders(S, key),
         NEW n \in 0 .. Cardinality(S)
  PROVE  /\ IsFiniteSet({i \in S : place[i] <= n})
         /\ Cardinality({i \in S : place[i] <= n}) = n
  <1> DEFINE A == {i \in S : place[i] <= n}
             T == 1 .. n
             f == [i \in A |-> place[i]]
  <1>1. /\ place \in [S -> 1 .. Cardinality(S)]
        /\ \A i, j \in S : place[i] = place[j] => i = j
    BY DEF Orders, Injection, IsInjective
  <1>2. Cardinality(S) \in Nat /\ n \in Nat
    BY FS_CardinalityType
  <1>3. f \in [A -> T]
    BY <1>1, <1>2
  <1>4. f \in Injection(A, T)
    BY <1>1, <1>3 DEF Injection, IsInjective
  <1>5. \A t \in T : \E i \in A : f[i] = t
    <2> SUFFICES ASSUME NEW t \in T PROVE \E i \in A : f[i] = t
      OBVIOUS
    <2>1. t \in 1 .. Cardinality(S)
      BY <1>2
    <2>2. PICK i \in S : place[i] = t
      BY <2>1, PlaceOnto
    <2> QED BY <2>2
  <1>6. f \in Surjection(A, T)
    BY <1>3, <1>5 DEF Surjection
  <1>7. IsFiniteSet(T) /\ Cardinality(T) = n
    BY <1>2, FS_Interval
  <1> QED
    <2> HIDE DEF A, T, f
    <2>1. IsFiniteSet(A) /\ Cardinality(A) = n
      BY <1>4, <1>6, <1>7, FS_Injection
    <2> QED BY <2>1 DEF A

\* Whatever the order, a row with the key of i is at the first of their places.
LEMMA FirstHasTheKey ==
  ASSUME NEW S, IsFiniteSet(S), NEW key, \A j \in S : key[j] \in Nat,
         NEW i \in S, NEW place \in Orders(S, key)
  PROVE  \E x \in S : place[x] = First(S, key, i) /\ key[x] = key[i]
  <1> DEFINE B == {j \in S : key[j] < key[i]}
             m == Cardinality(B) + 1
  <1>1. m \in 1 .. Cardinality(S) /\ First(S, key, i) = m
    BY FirstBounds DEF First
  <1>2. IsFiniteSet(B) /\ Cardinality(B) \in Nat
    BY FS_Subset, FS_CardinalityType
  <1>3. PICK x \in S : place[x] = m
    BY <1>1, PlaceOnto
  <1>4. /\ place \in [S -> 1 .. Cardinality(S)]
        /\ \A j, k \in S : key[j] < key[k] => place[j] < place[k]
    BY DEF Orders, Injection
  <1>5. ~(key[x] < key[i])
    <2> SUFFICES ASSUME key[x] < key[i] PROVE FALSE
      OBVIOUS
    <2> DEFINE A == {j \in S : place[j] <= m}
    <2>1. Cardinality(A) = m
      BY <1>1, PlacesUpTo
    <2>2. A \subseteq B
      BY <1>2, <1>3, <1>4
    <2>3. Cardinality(A) <= Cardinality(B)
      <3> HIDE DEF A, B
      <3> QED BY <1>2, <2>2, FS_Subset
    <2> QED BY <1>2, <2>1, <2>3
  <1>6. ~(key[i] < key[x])
    <2> SUFFICES ASSUME key[i] < key[x] PROVE FALSE
      OBVIOUS
    <2> DEFINE A == {j \in S : place[j] <= m - 1}
    <2>1. m - 1 \in 0 .. Cardinality(S)
      BY <1>1, <1>2, FS_CardinalityType
    <2>2. IsFiniteSet(A) /\ Cardinality(A) = m - 1
      BY <2>1, PlacesUpTo
    <2>3. B \cup {i} \subseteq A
      <3>1. \A j \in S : key[j] < key[x] => place[j] <= m - 1
        BY <1>2, <1>3, <1>4
      <3>2. \A j \in B \cup {i} : j \in S /\ key[j] < key[x]
        OBVIOUS
      <3> QED BY <3>1, <3>2
    <2>4. i \notin B
      OBVIOUS
    <2>5. Cardinality(B \cup {i}) = m
      <3> HIDE DEF A, B
      <3>1. Cardinality(B \cup {i}) = Cardinality(B) + 1
        BY <1>2, <2>4, FS_AddElement
      <3> QED BY <3>1
    <2>6. Cardinality(B \cup {i}) <= Cardinality(A)
      <3> HIDE DEF A, B
      <3> QED BY <2>2, <2>3, FS_Subset
    <2> QED BY <1>2, <2>2, <2>5, <2>6
  <1>7. key[x] = key[i]
    <2>1. key[x] \in Nat /\ key[i] \in Nat
      OBVIOUS
    <2> QED BY <1>5, <1>6, <2>1
  <1> QED BY <1>1, <1>3, <1>7

\* Some order puts i itself there: the one that breaks ties by a numbering in
\* which i comes first.
LEMMA FirstMayBe ==
  ASSUME NEW S, IsFiniteSet(S), NEW key, \A j \in S : key[j] \in Nat, NEW i \in S
  PROVE  \E place \in Orders(S, key) : place[i] = First(S, key, i)
  <1> DEFINE n == Cardinality(S)
  <1>1. n \in Nat
    BY FS_CardinalityType
  <1>2. PICK h \in Bijection(1 .. n, S) : TRUE
    BY FS_CardinalityType DEF ExistsBijection
  <1>3. \A j \in S : \E t \in 1 .. n : h[t] = j
    BY <1>2 DEF Bijection, Surjection
  <1> DEFINE tie == [j \in S |-> IF j = i THEN 0
                                 ELSE CHOOSE t \in 1 .. n : h[t] = j]
             Less(j, k) == key[j] < key[k] \/ (key[j] = key[k] /\ tie[j] < tie[k])
             Low(j) == {k \in S : k = j \/ Less(k, j)}
             place == [j \in S |-> Cardinality(Low(j))]
  <1>4. \A j \in S : j # i => tie[j] \in 1 .. n /\ h[tie[j]] = j
    BY <1>3
  <1>5. /\ tie \in [S -> Nat] /\ tie[i] = 0
        /\ \A j \in S : j # i => tie[j] > 0
    BY <1>1, <1>4
  <1>6. \A j, k \in S : tie[j] = tie[k] => j = k
    BY <1>4, <1>5
  <1> HIDE DEF tie
  <1>7. \A j \in S : /\ Low(j) \subseteq S /\ j \in Low(j)
                     /\ IsFiniteSet(Low(j)) /\ Cardinality(Low(j)) \in Nat
                     /\ Cardinality(Low(j)) # 0 /\ Cardinality(Low(j)) <= n
    <2> SUFFICES ASSUME NEW j \in S
                 PROVE  /\ Low(j) \subseteq S /\ j \in Low(j)
                        /\ IsFiniteSet(Low(j)) /\ Cardinality(Low(j)) \in Nat
                        /\ Cardinality(Low(j)) # 0 /\ Cardinality(Low(j)) <= n
      OBVIOUS
    <2>1. Low(j) \subseteq S /\ j \in Low(j)
      OBVIOUS
    <2> HIDE DEF Low
    <2>2. IsFiniteSet(Low(j)) /\ Cardinality(Low(j)) <= n
      BY <2>1, FS_Subset
    <2> QED BY <2>1, <2>2, FS_CardinalityType, FS_EmptySet
  <1>8. ASSUME NEW j \in S, NEW k \in S, Less(j, k)
        PROVE  Cardinality(Low(j)) < Cardinality(Low(k))
    <2>1. Low(j) \subseteq Low(k)
      BY <1>5, <1>8
    <2>2. k \in Low(k) /\ k \notin Low(j)
      BY <1>5, <1>8
    <2> HIDE DEF Low
    <2> QED BY <1>7, <2>1, <2>2, FS_Subset
  <1>9. \A j, k \in S : j # k => Less(j, k) \/ Less(k, j)
    BY <1>5, <1>6
  <1>10. place \in [S -> 1 .. n]
    <2> HIDE DEF Low
    <2> QED BY <1>1, <1>7
  <1>11. \A j, k \in S : /\ place[j] = place[k] => j = k
                         /\ key[j] < key[k] => place[j] < place[k]
    <2> SUFFICES ASSUME NEW j \in S, NEW k \in S
                 PROVE  /\ place[j] = place[k] => j = k
                        /\ key[j] < key[k] => place[j] < place[k]
      OBVIOUS
    <2>1. place[j] = Cardinality(Low(j)) /\ place[k] = Cardinality(Low(k))
      OBVIOUS
    <2>2. key[j] < key[k] => Less(j, k)
      OBVIOUS
    <2> HIDE DEF place, Low, Less
    <2> QED BY <1>7, <1>8, <1>9, <2>1, <2>2
  <1>12. place \in Orders(S, key)
    <2>1. place \in Injection(S, 1 .. n)
      <3> HIDE DEF place
      <3> QED BY <1>10, <1>11 DEF Injection, IsInjective
    <2> HIDE DEF place
    <2> QED BY <1>11, <2>1 DEF Orders
  <1>13. place[i] = First(S, key, i)
    <2> DEFINE B == {j \in S : key[j] < key[i]}
    <2>1. Low(i) = B \cup {i} /\ i \notin B
      BY <1>5
    <2>2. IsFiniteSet(B)
      BY FS_Subset
    <2>3. Cardinality(Low(i)) = Cardinality(B) + 1
      <3> HIDE DEF Low, B
      <3> QED BY <2>1, <2>2, FS_AddElement
    <2> QED BY <2>3 DEF First
  <1> QED BY <1>12, <1>13

\* The page on which the n-th place is.
LEMMA PageOfPlace ==
  ASSUME NEW last \in Pages, NEW n \in Nat \ {0}, n <= last * PageSize
  PROVE  \E p \in 1 .. last : n \in Window(p, PageSize)
  <1> DEFINE d == (n - 1) \div PageSize
  <1>1. PageSize \in Nat \ {0} /\ n - 1 \in Nat
    BY ConstantsAssumption
  <1>2. d \in Nat /\ d * PageSize <= n - 1 /\ n - 1 < (d + 1) * PageSize
    BY <1>1, Division
  <1> HIDE DEF d
  <1>3. d < last
    <2>1. CASE last <= d
      <3>1. last * PageSize <= d * PageSize
        BY <1>1, <1>2, <2>1 DEF Pages
      <3> QED BY <1>1, <1>2, <3>1 DEF Pages
    <2> QED BY <1>2, <2>1 DEF Pages
  <1>4. d + 1 \in 1 .. last
    BY <1>2, <1>3 DEF Pages
  <1>5. n \in Window(d + 1, PageSize)
    <2>1. (d + 1) - 1 = d
      BY <1>2
    <2>2. d * PageSize \in Nat /\ (d + 1) * PageSize \in Nat
      BY <1>1, <1>2
    <2> QED BY <1>1, <1>2, <2>1, <2>2 DEF Window
  <1> QED BY <1>4, <1>5

LEMMA NamesReached ==
  ASSUME TypeOK, NEW last \in Pages, ~(last * PageSize < Cardinality(People)),
         NEW id \in People
  PROVE  \E p \in 1 .. last : SureOfName(id, p) /\ Possible(id, p)
  <1> DEFINE name == [i \in People |-> accounts[i].name]
             m    == First(People, name, id)
  <1>1. IsFiniteSet(People) /\ Cardinality(People) \in Nat
    BY ConstantsAssumption, FS_Subset, FS_CardinalityType DEF People
  <1>2. \A i \in People : name[i] \in Nat /\ name[i] = accounts[i].name
    BY ConstantsAssumption DEF TypeOK, People, Account
  <1> HIDE DEF name
  <1>3. m \in 1 .. Cardinality(People)
    BY <1>1, <1>2, FirstBounds
  <1>4. PICK p \in 1 .. last : m \in Window(p, PageSize)
    <2>1. last * PageSize \in Nat
      BY ConstantsAssumption DEF Pages
    <2>2. m \in Nat \ {0} /\ m <= last * PageSize
      BY <1>1, <1>3, <2>1
    <2> HIDE DEF m
    <2> QED BY <2>2, PageOfPlace
  <1> DEFINE Slice(place) == {i \in People : place[i] \in Window(p, PageSize)}
  <1>5. Slices(p) = {Slice(place) : place \in Orders(People, name)}
    BY DEF Slices, Cuts, name
  <1>6. SureOfName(id, p)
    <2> SUFFICES ASSUME NEW place \in Orders(People, name)
                 PROVE  \E i \in Slice(place) : accounts[i].name = accounts[id].name
      BY <1>5 DEF SureOfName
    <2>1. PICK x \in People : place[x] = m /\ name[x] = name[id]
      BY <1>1, <1>2, FirstHasTheKey
    <2> QED BY <1>2, <1>4, <2>1
  <1>7. Possible(id, p)
    <2>1. PICK place \in Orders(People, name) : place[id] = m
      BY <1>1, <1>2, FirstMayBe
    <2>2. id \in Slice(place)
      BY <1>4, <2>1
    <2>3. Slice(place) \in Slices(p)
      BY <1>5
    <2> QED BY <2>2, <2>3 DEF Possible
  <1> QED BY <1>6, <1>7

\* For any page size and any names: where "Suivant" is disabled, this page and
\* those before it are certain to show somebody of every name, whatever roles
\* are filtered out of them, and may show each person.
THEOREM NobodyHiddenHolds == Spec => []NobodyHidden
  <1>1. TypeOK /\ TableFaithful => NobodyHidden
    BY NamesReached DEF TypeOK, TableFaithful, NobodyHidden, HasNext
  <1> QED BY <1>1, TypeCorrect, TableFaithfulHolds, PTL
=============================================================================
