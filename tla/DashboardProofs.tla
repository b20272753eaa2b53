--------------------------- MODULE DashboardProofs --------------------------
(***************************************************************************)
(* Proofs about Dashboard, for any users, page sizes and requests under    *)
(* way.                                                                    *)
(***************************************************************************)
EXTENDS Dashboard, FiniteSetTheorems, TLAPS

-----------------------------------------------------------------------------
(* Type correctness.                                                       *)

LEMMA NoRequestTyped == NoRequest \in Requests
  BY ConstantsAssumption DEF ConstantsAssumption, NoRequest, Requests, Kinds

LEMMA SentTyped ==
  ASSUME NEW kind \in Kinds, NEW p \in Nat, NEW t \in Terms, NEW r
  PROVE  /\ Sent(kind, p, t, r) \in Requests
         /\ Sent(kind, p, t, r).stage \in {"sent", "refused"}
         /\ Sent(kind, p, t, r).kind = kind /\ Sent(kind, p, t, r).latest
         /\ Sent(kind, p, t, r).page = p /\ Sent(kind, p, t, r).term = t
         /\ Sent(kind, p, t, r) # NoRequest
  BY DEF Sent, Requests, NoRequest

\* What the server answers has the type of a reply.
LEMMA RowsTyped ==
  ASSUME TypeOK, NEW p, NEW size, NEW t
  PROVE  Rows(p, size, t) \subseteq SUBSET UserRows
  <1>1. \A i \in Present : [id |-> i, status |-> accounts[i]] \in UserRows
    BY DEF TypeOK, Present, UserRows
  <1> DEFINE found == Present \cap t
             name  == [id \in found |-> LastName[accounts[id]]]
             cuts  == Cuts(found, name, p, size)
  <1>2. \A slice \in cuts : slice \subseteq Present
    BY DEF Cuts
  <1>3. Rows(p, size, t) =
          {{[id |-> id, status |-> accounts[id]] : id \in slice} : slice \in cuts}
    BY DEF Rows
  <1> HIDE DEF cuts
  <1> QED BY <1>1, <1>2, <1>3

LEMMA PresentFinite ==
  ASSUME NEW S \in SUBSET Present PROVE Cardinality(S) \in Nat
  <1>1. S \subseteq Ids
    BY DEF Present
  <1> QED BY <1>1, ConstantsAssumption, FS_Subset, FS_CardinalityType
          DEF ConstantsAssumption

LEMMA AnswersTyped ==
  ASSUME TypeOK, NEW p, NEW size, NEW t
  PROVE  GetAll(p, size, t) \subseteq Replies /\ Stats \in Figures
  <1>1. Cardinality(Present \cap t) \in Nat
    BY PresentFinite
  <1>2. GetAll(p, size, t) \subseteq Replies
    BY <1>1, RowsTyped DEF GetAll, Replies
  <1>3. /\ Cardinality(Present) \in Nat
        /\ Cardinality({id \in Present : accounts[id] \in Active}) \in Nat
        /\ Cardinality({id \in Present : accounts[id] \in Admins}) \in Nat
    <2>1. /\ {id \in Present : accounts[id] \in Active} \in SUBSET Present
          /\ {id \in Present : accounts[id] \in Admins} \in SUBSET Present
      OBVIOUS
    <2> QED BY <2>1, PresentFinite
  <1>4. Stats \in Figures
    BY <1>3 DEF Stats, Figures
  <1> QED BY <1>2, <1>4

LEMMA TypeInit == Init => TypeOK
  <1> SUFFICES ASSUME Init PROVE TypeOK
    OBVIOUS
  <1>1. /\ requests \in [Slots -> Requests]
        /\ \A q \in Slots : requests[q].stage # "answered"
    BY NoRequestTyped DEF Init, NoRequest
  <1>2. Ids \in Terms
    BY ConstantsAssumption DEF ConstantsAssumption
  <1>3. shows \in [Kinds -> Origins] /\ unseen \in SUBSET Kinds
    BY DEF Init, Origins
  <1>4. role = "None" /\ route \in Pages \cup {Guest}
    BY DEF Init
  <1>5. users \in SUBSET UserRows
    BY DEF Init
  <1>6. page = 1 /\ total = 0
    BY DEF Init
  <1>7. loading \in BOOLEAN
    BY DEF Init
  <1> QED BY <1>1, <1>2, <1>3, <1>4, <1>5, <1>6, <1>7 DEF Init, TypeOK

\* The two requests of a component that is created.
LEMMA Opened ==
  ASSUME NEW at, NEW r, Open(at, r)
  PROVE  /\ 1 \in Slots /\ 2 \in Slots
         /\ \A q \in Slots :
              /\ q = 1 /\ Due("users", at, r) =>
                   requests'[q] = Sent("users", 1, Ids, r)
              /\ q = 2 /\ Due("figures", at, r) =>
                   requests'[q] = Sent("figures", 1, Ids, r)
              /\ \/ q = 1 /\ Due("users", at, r)
                 \/ q = 2 /\ Due("figures", at, r)
                 \/ requests'[q] = NoRequest
  BY ConstantsAssumption DEF ConstantsAssumption, Open, Slots

LEMMA TypeOpen ==
  ASSUME TypeOK, NEW at \in Pages, NEW r \in UserRoles \cup {"None"}, Open(at, r)
  PROVE  TypeOK'
  <1>1. Ids \in Terms /\ 1 \in Nat
    BY ConstantsAssumption DEF ConstantsAssumption
  <1>2. /\ requests' \in [Slots -> Requests]
        /\ \A q \in Slots : requests'[q].stage # "answered"
    <2>1. \A q \in Slots : /\ requests'[q] \in Requests
                           /\ requests'[q].stage # "answered"
      BY <1>1, Opened, NoRequestTyped, SentTyped DEF Kinds, NoRequest
    <2> QED BY <2>1 DEF Open
  <1>3. shows' \in [Kinds -> Origins] /\ loading' \in BOOLEAN
    BY DEF Open, Origins, Due
  <1> QED BY <1>1, <1>2, <1>3 DEF Open, TypeOK

\* The request that is sent, and the others, of which those of its kind are no
\* longer the latest.
LEMMA Asked ==
  ASSUME TypeOK, NEW q \in Slots, NEW kind \in Kinds, NEW p, NEW t,
         Ask(q, kind, p, t)
  PROVE  /\ requests'[q] = Sent(kind, p, t, role)
         /\ \A k \in Slots \ {q} :
              /\ requests'[k] \in Requests
              /\ requests'[k].stage = requests[k].stage
              /\ requests'[k].kind = requests[k].kind
              /\ requests'[k].reply = requests[k].reply
              /\ requests[k].kind = kind => ~requests'[k].latest
              /\ requests[k].kind # kind => requests'[k] = requests[k]
  <1> DEFINE new(k) == [requests[k] EXCEPT !.latest = @ /\ requests[k].kind # kind]
  <1>1. /\ requests'[q] = Sent(kind, p, t, role)
        /\ \A k \in Slots \ {q} : requests'[k] = new(k)
    BY DEF Ask
  <1>2. \A k \in Slots : /\ new(k) \in Requests /\ new(k).stage = requests[k].stage
                         /\ new(k).kind = requests[k].kind
                         /\ new(k).reply = requests[k].reply
                         /\ requests[k].kind = kind => ~new(k).latest
    BY DEF TypeOK, Requests
  <1>3. \A k \in Slots : requests[k].kind # kind => new(k) = requests[k]
    BY DEF TypeOK, Requests
  <1> HIDE DEF new
  <1> QED BY <1>1, <1>2, <1>3

LEMMA TypeAsk ==
  ASSUME TypeOK, NEW q \in Slots, NEW kind \in Kinds, NEW p \in Nat,
         NEW t \in Terms, Ask(q, kind, p, t)
  PROVE  /\ requests' \in [Slots -> Requests] /\ shows' \in [Kinds -> Origins]
         /\ \A k \in Slots : requests'[k].stage = "answered" =>
              requests'[k].reply \in IF requests'[k].kind = "users" THEN Replies
                                                                    ELSE Figures
  <1>1. \A k \in Slots : requests'[k] \in Requests
    BY Asked, SentTyped
  <1>2. requests' \in [Slots -> Requests]
    BY <1>1 DEF Ask
  <1>3. shows' \in [Kinds -> Origins]
    BY DEF Ask, TypeOK, Origins
  <1> QED BY <1>2, <1>3, Asked, SentTyped DEF TypeOK

LEMMA TypeLoad ==
  ASSUME TypeOK, NEW q \in Slots, NEW p \in Nat \ {0}, NEW t \in Terms,
         LoadUsers(q, p, t)
  PROVE  TypeOK'
  <1>1. Ask(q, "users", p, t) /\ "users" \in Kinds
    BY DEF LoadUsers, Kinds
  <1>2. /\ requests' \in [Slots -> Requests] /\ shows' \in [Kinds -> Origins]
        /\ \A k \in Slots : requests'[k].stage = "answered" =>
             requests'[k].reply \in IF requests'[k].kind = "users" THEN Replies
                                                                   ELSE Figures
    BY <1>1, TypeAsk
  <1>3. UNCHANGED <<accounts, role, route, users, total, figures, unseen>>
    BY <1>1 DEF Ask
  <1> QED BY <1>2, <1>3 DEF LoadUsers, TypeOK

LEMMA TypePages ==
  ASSUME TypeOK, NEW q \in Slots, NEW p \in 0 .. MaxPage, GoToPage(q, p)
  PROVE  TypeOK'
  <1>1. p \in Nat \ {0}
    BY ConstantsAssumption DEF ConstantsAssumption, GoToPage, PageNumbers, TypeOK
  <1> QED BY <1>1, TypeLoad DEF GoToPage, TypeOK

LEMMA TypeReplies ==
  ASSUME TypeOK, NEW q \in Slots,
         Answer(q) \/ ShowUsers(q) \/ ShowFigures(q) \/ Fails(q)
  PROVE  TypeOK'
  <1>1. CASE Answer(q)
    <2>0. PICK answer \in Answers(requests[q].kind, requests[q].page, requests[q].term) :
            requests' = [requests EXCEPT ![q] = [requests[q] EXCEPT
                           !.stage = "answered", !.reply = answer]]
      BY <1>1 DEF Answer
    <2> DEFINE new == [requests[q] EXCEPT !.stage = "answered", !.reply = answer]
    <2>1. answer \in IF requests[q].kind = "users" THEN Replies ELSE Figures
      BY <2>0, AnswersTyped DEF Answers
    <2>2. /\ new \in Requests /\ new.kind = requests[q].kind /\ new.reply = answer
      BY <2>1 DEF TypeOK, Requests
    <2>3. requests' = [requests EXCEPT ![q] = new]
      BY <2>0
    <2> HIDE DEF new
    <2>4. \A k \in Slots : requests'[k] = IF k = q THEN new ELSE requests[k]
      BY <2>3 DEF TypeOK
    <2>5. requests' \in [Slots -> Requests]
      BY <2>2, <2>3 DEF TypeOK
    <2>6. \A k \in Slots : requests'[k].stage = "answered" =>
            requests'[k].reply \in IF requests'[k].kind = "users" THEN Replies
                                                                  ELSE Figures
      BY <2>1, <2>2, <2>4 DEF TypeOK
    <2>7. unseen' \in SUBSET Kinds
      BY <1>1 DEF Answer, TypeOK
    <2> QED BY <1>1, <2>5, <2>6, <2>7 DEF Answer, list, TypeOK
  <1>2. ASSUME \/ ShowUsers(q) \/ ShowFigures(q) \/ Fails(q)
        PROVE  /\ requests' \in [Slots -> Requests]
               /\ \A k \in Slots : requests'[k].stage = "answered" =>
                    requests'[k].reply \in IF requests'[k].kind = "users"
                                           THEN Replies ELSE Figures
               /\ shows' \in [Kinds -> Origins]
    <2>1. requests' = [requests EXCEPT ![q] = NoRequest]
      BY <1>2 DEF ShowUsers, ShowFigures, Received, Fails
    <2>2. \A k \in Slots : requests'[k] = IF k = q THEN NoRequest ELSE requests[k]
      BY <2>1 DEF TypeOK
    <2>3. shows' \in [Kinds -> Origins]
      BY <1>2 DEF ShowUsers, ShowFigures, Received, Fails, TypeOK, Origins
    <2> QED BY <2>1, <2>2, <2>3, NoRequestTyped DEF TypeOK, NoRequest
  <1>3. CASE ShowUsers(q)
    <2>1. requests[q].reply \in Replies
      BY <1>3 DEF ShowUsers, Received, TypeOK
    <2>2. users' \in SUBSET UserRows /\ total' \in Nat
      BY <1>3, <2>1 DEF ShowUsers, Replies, TypeOK
    <2> QED BY <1>2, <1>3, <2>2 DEF ShowUsers, Received, TypeOK
  <1>4. CASE ShowFigures(q)
    <2>1. requests[q].reply \in Figures
      BY <1>4 DEF ShowFigures, Received, TypeOK
    <2> QED BY <1>2, <1>4, <2>1 DEF ShowFigures, Received, TypeOK
  <1>5. CASE Fails(q)
    BY <1>2, <1>5 DEF Fails, list, TypeOK
  <1> QED BY <1>1, <1>3, <1>4, <1>5

LEMMA TypeNext == TypeOK /\ [Next]_vars => TypeOK'
  <1> SUFFICES ASSUME TypeOK, [Next]_vars PROVE TypeOK'
    OBVIOUS
  <1>1. ASSUME NEW r \in UserRoles, Login(r) \/ \E url \in Pages : Arrive(url, r)
        PROVE  TypeOK'
    <2>1. "dashboard" \in Pages /\ \A url \in Pages : Landing(url, r) \in Pages
      BY DEF Pages, Landing
    <2> QED BY <1>1, <2>1, TypeOpen DEF Login, Arrive
  <1>2. ASSUME NEW url \in Pages, Follow(url) PROVE TypeOK'
    <2>1. Landing(url, role) \in Pages /\ role \in UserRoles \cup {"None"}
      BY <1>2 DEF Pages, Landing, Follow, TypeOK
    <2> QED BY <1>2, <2>1, TypeOpen DEF Follow
  <1>3. ASSUME SessionEnds \/ (\E r \in UserRoles : Refresh(r)) PROVE TypeOK'
    BY <1>3 DEF SessionEnds, Refresh, list, TypeOK
  <1>4. ASSUME NEW q \in Slots, NEW t \in Terms, OnSearch(q, t) PROVE TypeOK'
    BY <1>4, TypeLoad DEF OnSearch
  <1>5. ASSUME NEW q \in Slots, RefreshStats(q) PROVE TypeOK'
    <2>1. Ask(q, "figures", 1, Ids) /\ "figures" \in Kinds /\ Ids \in Terms
      BY <1>5, ConstantsAssumption DEF RefreshStats, Kinds, ConstantsAssumption
    <2>2. /\ requests' \in [Slots -> Requests] /\ shows' \in [Kinds -> Origins]
          /\ \A k \in Slots : requests'[k].stage = "answered" =>
               requests'[k].reply \in IF requests'[k].kind = "users" THEN Replies
                                                                     ELSE Figures
      BY <2>1, TypeAsk
    <2> QED BY <1>5, <2>1, <2>2 DEF RefreshStats, Ask, TypeOK
  <1>6. ASSUME NEW id \in Ids, NEW s \in Statuses \cup {None}, Others(id, s)
        PROVE  TypeOK'
    BY <1>6 DEF Others, list, TypeOK
  <1>7. CASE UNCHANGED vars
    BY <1>7 DEF vars, list, TypeOK
  <1> QED BY <1>1, <1>2, <1>3, <1>4, <1>5, <1>6, <1>7, TypePages, TypeReplies
          DEF Next

\* The pages keep their types and never ask for a page before the first.
THEOREM TypeCorrect == Spec => []TypeOK
  BY TypeInit, TypeNext, PTL DEF Spec

-----------------------------------------------------------------------------
(* Nothing is left out.                                                    *)

\* ngOnInit asks for what the template displays.
LEMMA DisplaysDue ==
  \A kind \in Kinds : \A at, r : Displays(kind, at, r) => Due(kind, at, r)
  BY DEF Kinds, Displays, Due

\* What has never been answered is under way.
Real(kind) == {q \in Slots : requests[q].stage # "none" /\ requests[q].kind = kind}
AwaitedInv == \A kind \in Kinds : shows[kind] = "awaited" => Real(kind) # {}

LEMMA RealUnderWay == \A kind : Real(kind) \subseteq UnderWay(kind)
  BY DEF Real, UnderWay, NoRequest

LEMMA AwaitedOpen ==
  ASSUME NEW at, NEW r, Open(at, r) PROVE AwaitedInv'
  <1> SUFFICES ASSUME NEW kind \in Kinds, shows'[kind] = "awaited"
               PROVE  Real(kind)' # {}
    BY DEF AwaitedInv
  <1>1. Due(kind, at, r)
    <2>1. shows'[kind] = IF Displays(kind, at, r) THEN "awaited" ELSE "absent"
      BY DEF Open
    <2>2. Displays(kind, at, r)
      BY <2>1
    <2> QED BY <2>2, DisplaysDue
  <1>2. Ids \in Terms /\ 1 \in Nat
    BY ConstantsAssumption DEF ConstantsAssumption
  <1>3. CASE kind = "users"
    <2>1. requests'[1] = Sent("users", 1, Ids, r) /\ 1 \in Slots
      BY <1>1, <1>3, Opened
    <2> QED BY <1>2, <1>3, <2>1, SentTyped DEF Real, Kinds
  <1>4. CASE kind = "figures"
    <2>1. requests'[2] = Sent("figures", 1, Ids, r) /\ 2 \in Slots
      BY <1>1, <1>4, Opened
    <2> QED BY <1>2, <1>4, <2>1, SentTyped DEF Real, Kinds
  <1> QED BY <1>3, <1>4 DEF Kinds

LEMMA AwaitedAsk ==
  ASSUME TypeOK, AwaitedInv, NEW q \in Slots, NEW k \in Kinds, NEW p, NEW t,
         Ask(q, k, p, t)
  PROVE  AwaitedInv'
  <1> SUFFICES ASSUME NEW kind \in Kinds, shows'[kind] = "awaited"
               PROVE  Real(kind)' # {}
    BY DEF AwaitedInv
  <1>1. shows[kind] = "awaited"
    BY DEF Ask, TypeOK
  <1>2. PICK o \in Slots : requests[o].stage # "none" /\ requests[o].kind = kind
    BY <1>1 DEF AwaitedInv, Real
  <1>3. o # q
    BY <1>2 DEF Ask, NoRequest
  <1>4. requests'[o].stage = requests[o].stage /\ requests'[o].kind = requests[o].kind
    BY <1>2, <1>3, Asked
  <1> QED BY <1>2, <1>4 DEF Real

LEMMA AwaitedReplies ==
  ASSUME TypeOK, AwaitedInv, NEW q \in Slots,
         Answer(q) \/ ShowUsers(q) \/ ShowFigures(q) \/ Fails(q)
  PROVE  AwaitedInv'
  <1> SUFFICES ASSUME NEW kind \in Kinds, shows'[kind] = "awaited"
               PROVE  Real(kind)' # {}
    BY DEF AwaitedInv
  <1>1. /\ shows[kind] = "awaited"
        /\ Answer(q) \/ requests[q].kind # kind
    <2>1. CASE Answer(q)
      BY <2>1 DEF Answer
    <2>2. CASE ShowUsers(q)
      BY <2>2 DEF ShowUsers, Received, TypeOK, Kinds
    <2>3. CASE ShowFigures(q)
      BY <2>3 DEF ShowFigures, Received, TypeOK, Kinds
    <2>4. CASE Fails(q)
      <3>1. requests[q].kind \in Kinds
        BY DEF TypeOK, Requests
      <3> QED BY <2>4, <3>1 DEF Fails, TypeOK
    <2> QED BY <2>1, <2>2, <2>3, <2>4
  <1>2. PICK o \in Slots : requests[o].stage # "none" /\ requests[o].kind = kind
    BY <1>1 DEF AwaitedInv, Real
  <1>3. requests'[o].stage # "none" /\ requests'[o].kind = kind
    <2>1. CASE o # q
      <3>1. requests'[o] = requests[o]
        BY <2>1 DEF Answer, ShowUsers, ShowFigures, Received, Fails, TypeOK
      <3> QED BY <1>2, <3>1
    <2>2. CASE o = q
      <3>1. Answer(q)
        BY <1>1, <1>2, <2>2
      <3> QED BY <1>2, <2>2, <3>1 DEF Answer, TypeOK, Requests
    <2> QED BY <2>1, <2>2
  <1> QED BY <1>3 DEF Real

LEMMA AwaitedSame ==
  ASSUME AwaitedInv, UNCHANGED <<requests, shows>> PROVE AwaitedInv'
  BY DEF AwaitedInv, Real

LEMMA AwaitedNext == TypeOK /\ AwaitedInv /\ [Next]_vars => AwaitedInv'
  <1> SUFFICES ASSUME TypeOK, AwaitedInv, [Next]_vars PROVE AwaitedInv'
    OBVIOUS
  <1>1. ASSUME NEW r \in UserRoles, Login(r) \/ \E url \in Pages : Arrive(url, r)
        PROVE  AwaitedInv'
    BY <1>1, AwaitedOpen DEF Login, Arrive
  <1>2. ASSUME NEW url \in Pages, Follow(url) PROVE AwaitedInv'
    BY <1>2, AwaitedOpen DEF Follow
  <1>3. CASE SessionEnds \/ (\E r \in UserRoles : Refresh(r))
    BY <1>3, AwaitedSame DEF SessionEnds, Refresh
  <1>4. ASSUME NEW q \in Slots, NEW t \in Terms, OnSearch(q, t) PROVE AwaitedInv'
    BY <1>4, AwaitedAsk DEF OnSearch, LoadUsers, Kinds
  <1>5. ASSUME NEW q \in Slots, NEW p \in 0 .. MaxPage, GoToPage(q, p)
        PROVE  AwaitedInv'
    BY <1>5, AwaitedAsk DEF GoToPage, LoadUsers, Kinds
  <1>6. ASSUME NEW q \in Slots, RefreshStats(q) PROVE AwaitedInv'
    BY <1>6, AwaitedAsk DEF RefreshStats, Kinds
  <1>7. ASSUME NEW id \in Ids, NEW s \in Statuses \cup {None}, Others(id, s)
        PROVE  AwaitedInv'
    BY <1>7, AwaitedSame DEF Others
  <1>8. CASE UNCHANGED vars
    BY <1>8, AwaitedSame DEF vars
  <1> QED BY <1>1, <1>2, <1>3, <1>4, <1>5, <1>6, <1>7, <1>8, AwaitedReplies DEF Next

\* What a page displays is filled, or a request is under way, or has failed.
THEOREM NothingLeftOutHolds == Spec => []NothingLeftOut
  <1>1. Init => AwaitedInv
    BY DEF Init, AwaitedInv
  <1>2. AwaitedInv => NothingLeftOut
    BY RealUnderWay DEF AwaitedInv, NothingLeftOut
  <1> QED BY <1>1, <1>2, TypeInit, TypeNext, AwaitedNext, PTL DEF Spec
-----------------------------------------------------------------------------
(* The pages show the server.                                              *)

\* The requests that no other of their kind has followed.
Latest(kind) == {q \in Slots : requests[q].latest /\ requests[q].kind = kind}

\* A reply carries what the server may answer by now; the page displays it.
Serves(kind, q) ==
  requests[q].reply \in Answers(kind, requests[q].page, requests[q].term)
Displayed(kind) ==
  IF kind = "users"
  THEN /\ users \in Rows(page, Size, term)
       /\ route = "dashboard" => total = Cardinality(Present \cap term)
  ELSE figures = Stats

\* A latest request is the only one, asks for what the controls say and, when
\* nothing has changed since, carries what the server may answer; where the
\* latest reply is on display, nothing newer is under way.
OneLatest    == \A kind \in Kinds : \A i, j \in Latest(kind) : i = j
LatestAsked  == \A q \in Latest("users") :
                  requests[q].page = page /\ requests[q].term = term
LatestServed == \A kind \in Kinds \ unseen : \A q \in Latest(kind) :
                  requests[q].stage = "answered" => Serves(kind, q)
LatestShown  == \A kind \in Kinds : shows[kind] = "latest" =>
                  /\ Latest(kind) = {}
                  /\ kind = "users" => ~loading
                  /\ kind \notin unseen => Displayed(kind)
ShowsInv == OneLatest /\ LatestAsked /\ LatestServed /\ LatestShown

\* The server's answers depend on the accounts and on the page alone.
LEMMA ServerSame ==
  ASSUME UNCHANGED <<accounts, route>>, NEW kind, NEW p, NEW t
  PROVE  /\ Answers(kind, p, t)' = Answers(kind, p, t)
         /\ Rows(p, Size, t)' = Rows(p, Size, t)
         /\ Cardinality(Present \cap t)' = Cardinality(Present \cap t)
         /\ Stats' = Stats
  <1>1. /\ Rows(p, Size, t)' = Rows(p, Size, t) /\ Stats' = Stats
        /\ Cardinality(Present \cap t)' = Cardinality(Present \cap t)
    BY DEF Rows, Present, Stats, Size
  <1>2. GetAll(p, Size, t)' = GetAll(p, Size, t)
    BY <1>1 DEF GetAll
  <1> QED BY <1>1, <1>2 DEF Answers

LEMMA ServesSame ==
  ASSUME UNCHANGED <<accounts, route>>, NEW kind, NEW q, requests'[q] = requests[q]
  PROVE  Serves(kind, q)' = Serves(kind, q)
  <1>1. \A k, p, t : Answers(k, p, t)' = Answers(k, p, t)
    BY ServerSame
  <1> DEFINE p == requests[q].page
             t == requests[q].term
  <1>2. Answers(kind, p, t)' = Answers(kind, p', t') /\ p' = p /\ t' = t
    BY DEF Answers, GetAll, Rows, Present, Stats, Size
  <1> QED BY <1>1, <1>2 DEF Serves

LEMMA DisplayedSame ==
  ASSUME UNCHANGED <<accounts, route, users, total, figures, page, term>>, NEW kind
  PROVE  Displayed(kind)' = Displayed(kind)
  <1>1. \A p, t : /\ Rows(p, Size, t)' = Rows(p, Size, t)
                   /\ Cardinality(Present \cap t)' = Cardinality(Present \cap t)
                   /\ Stats' = Stats
    BY ServerSame
  <1>2. /\ Rows(page, Size, term)' = Rows(page, Size, term)
        /\ Cardinality(Present \cap term)' = Cardinality(Present \cap term)
    BY DEF Rows, Present, Size
  <1> QED BY <1>1, <1>2 DEF Displayed

LEMMA ShowsOpen ==
  ASSUME NEW at, NEW r, Open(at, r) PROVE ShowsInv'
  <1>1. Ids \in Terms /\ 1 \in Nat /\ "users" \in Kinds /\ "figures" \in Kinds
    BY ConstantsAssumption DEF ConstantsAssumption, Kinds
  <1>2. \A q \in Slots :
          requests'[q].latest =>
            \/ q = 1 /\ requests'[q] = Sent("users", 1, Ids, r)
            \/ q = 2 /\ requests'[q] = Sent("figures", 1, Ids, r)
    BY Opened DEF NoRequest
  <1>3. \A q \in Slots : requests'[q].latest =>
          /\ \/ q = 1 /\ requests'[q].kind = "users"
             \/ q = 2 /\ requests'[q].kind = "figures"
          /\ requests'[q].stage # "answered"
          /\ requests'[q].page = 1 /\ requests'[q].term = Ids
    BY <1>1, <1>2, SentTyped
  <1>4. \A kind \in Kinds : shows'[kind] # "latest"
    BY DEF Open
  <1>5. OneLatest'
    BY <1>3 DEF OneLatest, Latest
  <1>6. LatestAsked'
    BY <1>3 DEF LatestAsked, Latest, Open
  <1>7. LatestServed'
    BY <1>3 DEF LatestServed, Latest
  <1> QED BY <1>4, <1>5, <1>6, <1>7 DEF LatestShown, ShowsInv

LEMMA ShowsAsk ==
  ASSUME TypeOK, ShowsInv, NEW q \in Slots, NEW kind \in Kinds, NEW p \in Nat,
         NEW t \in Terms, Ask(q, kind, p, t),
         IF kind = "users" THEN page' = p /\ term' = t
                           ELSE UNCHANGED <<page, term, loading>>
  PROVE  ShowsInv'
  <1>1. /\ requests'[q] = Sent(kind, p, t, role)
        /\ \A k \in Slots \ {q} :
             \/ requests[k].kind = kind /\ ~requests'[k].latest
             \/ requests[k].kind # kind /\ requests'[k] = requests[k]
    BY Asked
  <1>2. \A k \in Slots : requests'[k].latest =>
          \/ k = q
          \/ k # q /\ requests[k].kind # kind /\ requests'[k] = requests[k]
    BY <1>1
  <1>3. /\ requests'[q].kind = kind /\ requests'[q].stage # "answered"
        /\ requests'[q].page = p /\ requests'[q].term = t
    BY <1>1, SentTyped
  <1>4. /\ Latest(kind)' \subseteq {q}
        /\ \A k \in Kinds \ {kind} : Latest(k)' \subseteq Latest(k) \ {q}
    BY <1>2, <1>3 DEF Latest
  <1>5. OneLatest'
    BY <1>4 DEF ShowsInv, OneLatest
  <1>6. LatestAsked'
    <2>1. CASE kind = "users"
      BY <1>3, <1>4, <2>1 DEF LatestAsked
    <2>2. CASE kind # "users"
      BY <1>1, <1>4, <2>2 DEF ShowsInv, LatestAsked, Latest, Kinds
    <2> QED BY <2>1, <2>2
  <1>7. LatestServed'
    <2>1. SUFFICES ASSUME NEW k \in Kinds \ unseen', NEW o \in Latest(k)',
                          requests'[o].stage = "answered"
                   PROVE  Serves(k, o)'
      BY DEF LatestServed
    <2>2. o # q /\ k # kind /\ o \in Latest(k) /\ o \in Slots
      BY <1>3, <1>4, <2>1 DEF Latest
    <2>3. requests'[o] = requests[o] /\ k \in Kinds \ unseen
      BY <1>1, <2>2 DEF Latest, Ask
    <2>4. Serves(k, o)
      BY <2>1, <2>2, <2>3 DEF ShowsInv, LatestServed
    <2> QED BY <2>3, <2>4, ServesSame DEF Ask
  <1>8. LatestShown'
    <2> SUFFICES ASSUME NEW k \in Kinds, shows'[k] = "latest"
                 PROVE  /\ Latest(k)' = {}
                        /\ k = "users" => ~loading'
                        /\ k \notin unseen' => Displayed(k)'
      BY DEF LatestShown
    <2>1. k # kind /\ shows[k] = "latest"
      BY DEF Ask, TypeOK
    <2>2. Latest(k)' = {}
      BY <1>4, <2>1 DEF ShowsInv, LatestShown
    <2>3. k = "users" => ~loading'
      BY <2>1 DEF ShowsInv, LatestShown, Kinds
    <2>4. ASSUME k \notin unseen' PROVE Displayed(k)'
      <3>1. Displayed(k)
        BY <2>1, <2>4 DEF ShowsInv, LatestShown, Ask
      <3>2. CASE kind = "users"
        <4>1. Stats' = Stats
          BY DEF Ask, Stats, Present
        <4> QED BY <2>1, <3>1, <3>2, <4>1 DEF Displayed, Ask, Kinds
      <3>3. CASE kind # "users"
        BY <3>1, <3>3, DisplayedSame DEF Ask
      <3> QED BY <3>2, <3>3
    <2> QED BY <2>2, <2>3, <2>4
  <1> QED BY <1>5, <1>6, <1>7, <1>8 DEF ShowsInv
LEMMA ShowsAnswer ==
  ASSUME TypeOK, ShowsInv, NEW q \in Slots, Answer(q) PROVE ShowsInv'
  <1> DEFINE r == requests[q]
  <1>0. PICK reply \in Answers(r.kind, r.page, r.term) :
          requests' = [requests EXCEPT ![q] = [r EXCEPT !.stage = "answered",
                                                        !.reply = reply]]
    BY DEF Answer
  <1> DEFINE new == [r EXCEPT !.stage = "answered", !.reply = reply]
  <1>1. /\ r.kind \in Kinds /\ new.kind = r.kind /\ new.latest = r.latest
        /\ new.page = r.page /\ new.term = r.term
        /\ new.reply \in Answers(r.kind, r.page, r.term)
    BY <1>0 DEF TypeOK, Requests
  <1>2. /\ requests' = [requests EXCEPT ![q] = new]
        /\ unseen' = IF r.latest THEN unseen \ {r.kind} ELSE unseen
        /\ UNCHANGED <<accounts, route, term, page, users, total, loading, figures, shows>>
    BY <1>0 DEF Answer, list
  <1> HIDE DEF new
  <1>3. \A k \in Slots : requests'[k] = IF k = q THEN new ELSE requests[k]
    BY <1>2 DEF TypeOK
  <1>4. \A kind \in Kinds : Latest(kind)' = Latest(kind)
    BY <1>1, <1>3 DEF Latest
  <1>5. OneLatest'
    BY <1>4 DEF ShowsInv, OneLatest
  <1>6. LatestAsked'
    BY <1>1, <1>2, <1>3, <1>4 DEF ShowsInv, LatestAsked, Latest, Kinds
  <1>7. LatestServed'
    <2>1. SUFFICES ASSUME NEW k \in Kinds \ unseen', NEW o \in Latest(k)',
                          requests'[o].stage = "answered"
                   PROVE  Serves(k, o)'
      BY DEF LatestServed
    <2>2. o \in Slots /\ o \in Latest(k) /\ requests[o].kind = k
      BY <1>4 DEF Latest
    <2>3. CASE o = q
      <3>1. requests'[o].reply \in Answers(k, requests'[o].page, requests'[o].term)
        BY <1>1, <1>3, <2>2, <2>3
      <3>2. \A p, t : Answers(k, p, t)' = Answers(k, p, t)
        BY <1>2, ServerSame
      <3> QED BY <3>1, <3>2 DEF Serves, Answers, GetAll, Rows, Present, Stats, Size
    <2>4. CASE o # q
      <3>1. requests'[o] = requests[o]
        BY <1>3, <2>2, <2>4
      <3>2. k \notin unseen
        <4>1. CASE r.latest /\ r.kind = k
          <5>1. q \in Latest(k)
            BY <4>1 DEF Latest
          <5> QED BY <2>2, <2>4, <5>1 DEF ShowsInv, OneLatest
        <4>2. CASE ~(r.latest /\ r.kind = k)
          BY <1>2, <4>2
        <4> QED BY <4>1, <4>2
      <3>3. Serves(k, o)
        BY <2>1, <2>2, <3>1, <3>2 DEF ShowsInv, LatestServed
      <3> QED BY <1>2, <3>1, <3>3, ServesSame
    <2> QED BY <2>3, <2>4
  <1>8. LatestShown'
    <2> SUFFICES ASSUME NEW k \in Kinds, shows'[k] = "latest"
                 PROVE  /\ Latest(k)' = {}
                        /\ k = "users" => ~loading'
                        /\ k \notin unseen' => Displayed(k)'
      BY DEF LatestShown
    <2>1. /\ shows[k] = "latest" /\ Latest(k) = {} /\ Latest(k)' = {}
          /\ k = "users" => ~loading
          /\ k \notin unseen => Displayed(k)
      BY <1>2, <1>4 DEF ShowsInv, LatestShown
    <2>2. k \notin unseen' => k \notin unseen
      BY <1>2, <2>1 DEF Latest
    <2>3. Displayed(k)' = Displayed(k)
      BY <1>2, DisplayedSame
    <2> QED BY <1>2, <2>1, <2>2, <2>3
  <1> QED BY <1>5, <1>6, <1>7, <1>8 DEF ShowsInv

\* A request that ends leaves the others what they are.
LEMMA ShowsEnded ==
  ASSUME TypeOK, ShowsInv, NEW q \in Slots,
         requests' = [requests EXCEPT ![q] = NoRequest],
         UNCHANGED <<accounts, route, term, page, unseen>>
  PROVE  /\ OneLatest' /\ LatestAsked' /\ LatestServed'
         /\ \A kind \in Kinds : Latest(kind)' = Latest(kind) \ {q}
  <1>1. /\ requests'[q].latest = FALSE
        /\ \A k \in Slots \ {q} : requests'[k] = requests[k]
    BY DEF TypeOK, NoRequest
  <1>2. \A kind \in Kinds : Latest(kind)' = Latest(kind) \ {q}
    BY <1>1 DEF Latest
  <1>3. OneLatest'
    BY <1>2 DEF ShowsInv, OneLatest
  <1>4. LatestAsked'
    BY <1>1, <1>2 DEF ShowsInv, LatestAsked, Latest, Kinds
  <1>5. LatestServed'
    <2>1. SUFFICES ASSUME NEW k \in Kinds \ unseen', NEW o \in Latest(k)',
                          requests'[o].stage = "answered"
                   PROVE  Serves(k, o)'
      BY DEF LatestServed
    <2>2. o # q /\ o \in Latest(k) /\ o \in Slots /\ k \in Kinds \ unseen
      BY <1>2 DEF Latest
    <2>3. requests'[o] = requests[o]
      BY <1>1, <2>2
    <2>4. Serves(k, o)
      BY <2>1, <2>2, <2>3 DEF ShowsInv, LatestServed
    <2> QED BY <2>3, <2>4, ServesSame
  <1> QED BY <1>2, <1>3, <1>4, <1>5

\* What else a reply changes is for its own kind.
LEMMA ShowsReceived ==
  ASSUME TypeOK, ShowsInv, NEW q \in Slots, NEW kind \in Kinds, Received(q, kind),
         kind # "users" => UNCHANGED <<users, total, loading>>,
         kind # "figures" => UNCHANGED figures,
         kind = "users" => ~loading',
         Serves(kind, q) /\ requests[q].latest => Displayed(kind)'
  PROVE  ShowsInv'
  <1>1. /\ requests' = [requests EXCEPT ![q] = NoRequest]
        /\ requests[q].stage = "answered" /\ requests[q].kind = kind
        /\ UNCHANGED <<accounts, route, term, page, unseen>>
    BY DEF Received
  <1>2. /\ OneLatest' /\ LatestAsked' /\ LatestServed'
        /\ \A k \in Kinds : Latest(k)' = Latest(k) \ {q}
    BY <1>1, ShowsEnded
  <1>3. LatestShown'
    <2> SUFFICES ASSUME NEW k \in Kinds, shows'[k] = "latest"
                 PROVE  /\ Latest(k)' = {}
                        /\ k = "users" => ~loading'
                        /\ k \notin unseen' => Displayed(k)'
      BY DEF LatestShown
    <2>1. CASE k = kind
      <3>1. q \in Latest(kind)
        BY <1>1, <2>1 DEF Received, TypeOK, Latest
      <3>2. Latest(k)' = {}
        BY <1>2, <2>1, <3>1 DEF ShowsInv, OneLatest
      <3>3. k \notin unseen' => Serves(kind, q)
        BY <1>1, <2>1, <3>1 DEF ShowsInv, LatestServed
      <3> QED BY <2>1, <3>1, <3>2, <3>3 DEF Latest
    <2>2. CASE k # kind
      <3>1. shows[k] = "latest"
        BY <2>2 DEF Received, TypeOK
      <3>2. /\ Latest(k) = {}
            /\ k = "users" => ~loading
            /\ k \notin unseen => Displayed(k)
        BY <3>1 DEF ShowsInv, LatestShown
      <3>3. /\ Rows(page, Size, term)' = Rows(page, Size, term)
            /\ Cardinality(Present \cap term)' = Cardinality(Present \cap term)
            /\ Stats' = Stats
        BY <1>1 DEF Rows, Present, Size, Stats
      <3>4. CASE k = "users"
        <4>1. UNCHANGED <<users, total, loading>>
          BY <2>2, <3>4
        <4>2. Displayed(k)' = Displayed(k)
          BY <1>1, <3>3, <3>4, <4>1 DEF Displayed
        <4>3. ~loading'
          BY <3>2, <3>4, <4>1
        <4>4. k \notin unseen' => Displayed(k)'
          BY <1>1, <3>2, <4>2
        <4> QED BY <1>2, <3>2, <4>3, <4>4
      <3>5. CASE k = "figures"
        <4>1. UNCHANGED figures
          BY <2>2, <3>5 DEF Kinds
        <4>2. Displayed(k)' = Displayed(k)
          BY <1>1, <3>3, <3>5, <4>1 DEF Displayed
        <4>3. k \notin unseen' => Displayed(k)'
          BY <1>1, <3>2, <4>2
        <4> QED BY <1>2, <3>2, <3>5, <4>3
      <3> QED BY <3>4, <3>5 DEF Kinds
    <2> QED BY <2>1, <2>2
  <1> QED BY <1>2, <1>3 DEF ShowsInv
LEMMA ShowsReplies ==
  ASSUME TypeOK, ShowsInv, NEW q \in Slots, ShowUsers(q) \/ ShowFigures(q) \/ Fails(q)
  PROVE  ShowsInv'
  <1>1. CASE ShowUsers(q)
    <2>1. Received(q, "users") /\ requests[q].kind = "users"
      BY <1>1 DEF ShowUsers, Received
    <2>2. ASSUME Serves("users", q), requests[q].latest
          PROVE  Displayed("users")'
      <3>1. requests[q].page = page /\ requests[q].term = term
        BY <2>1, <2>2 DEF ShowsInv, LatestAsked, Latest
      <3>2. /\ Rows(page, Size, term)' = Rows(page, Size, term)
            /\ Cardinality(Present \cap term)' = Cardinality(Present \cap term)
            /\ UNCHANGED route
        BY <2>1 DEF Received, Rows, Present, Size
      <3>3. /\ requests[q].reply.users \in Rows(page, Size, term)
            /\ requests[q].reply.total = Cardinality(Present \cap term)
        BY <2>2, <3>1 DEF Serves, Answers, GetAll
      <3>4. /\ users' = requests[q].reply.users
            /\ route = "dashboard" => total' = requests[q].reply.total
        BY <1>1 DEF ShowUsers
      <3> QED BY <3>2, <3>3, <3>4 DEF Displayed
    <2>3. ~loading' /\ UNCHANGED figures
      BY <1>1 DEF ShowUsers
    <2> QED BY <2>1, <2>2, <2>3, ShowsReceived DEF Kinds
  <1>2. CASE ShowFigures(q)
    <2>1. Received(q, "figures") /\ figures' = requests[q].reply
      BY <1>2 DEF ShowFigures
    <2>2. Serves("figures", q) => Displayed("figures")'
      BY <2>1 DEF Serves, Displayed, Answers, Received, Stats, Present
    <2>3. UNCHANGED <<users, total, loading>>
      BY <1>2 DEF ShowFigures
    <2> QED BY <2>1, <2>2, <2>3, ShowsReceived DEF Kinds
  <1>3. CASE Fails(q)
    <2>1. /\ requests' = [requests EXCEPT ![q] = NoRequest]
          /\ UNCHANGED <<accounts, route, users, total, loading, figures, term,
                         page, unseen>>
      BY <1>3 DEF Fails, list
    <2>2. /\ OneLatest' /\ LatestAsked' /\ LatestServed'
          /\ \A k \in Kinds : Latest(k)' = Latest(k) \ {q}
      BY <2>1, ShowsEnded
    <2>3. \A k \in Kinds : shows'[k] = "latest" => shows[k] = "latest"
      BY <1>3 DEF Fails, TypeOK
    <2>4. \A k \in Kinds : Displayed(k)' = Displayed(k)
      BY <2>1, DisplayedSame
    <2>5. UNCHANGED loading /\ UNCHANGED unseen
      BY <2>1
    <2>6. LatestShown'
      BY <2>2, <2>3, <2>4, <2>5 DEF ShowsInv, LatestShown
    <2> QED BY <2>2, <2>6 DEF ShowsInv
  <1> QED BY <1>1, <1>2, <1>3

LEMMA ShowsSame ==
  ASSUME ShowsInv, UNCHANGED <<accounts, route, list, figures, requests, shows, unseen>>
  PROVE  ShowsInv'
  <1>1. \A k : Latest(k)' = Latest(k)
    BY DEF Latest
  <1>2. \A k, q : Serves(k, q)' = Serves(k, q)
    BY ServesSame
  <1>3. \A k : Displayed(k)' = Displayed(k)
    BY DisplayedSame DEF list
  <1>4. UNCHANGED <<page, term, requests, shows, unseen>> /\ UNCHANGED loading
    BY DEF list
  <1>5. LatestAsked' /\ OneLatest' /\ LatestServed'
    BY <1>1, <1>2, <1>4 DEF ShowsInv, OneLatest, LatestAsked, LatestServed
  <1>6. LatestShown'
    BY <1>1, <1>3, <1>4 DEF ShowsInv, LatestShown
  <1> QED BY <1>5, <1>6 DEF ShowsInv

LEMMA ShowsNext == TypeOK /\ ShowsInv /\ [Next]_vars => ShowsInv'
  <1> SUFFICES ASSUME TypeOK, ShowsInv, [Next]_vars PROVE ShowsInv'
    OBVIOUS
  <1>1. ASSUME NEW r \in UserRoles, Login(r) \/ \E url \in Pages : Arrive(url, r)
        PROVE  ShowsInv'
    BY <1>1, ShowsOpen DEF Login, Arrive
  <1>2. ASSUME NEW url \in Pages, Follow(url) PROVE ShowsInv'
    BY <1>2, ShowsOpen DEF Follow
  <1>3. CASE SessionEnds \/ (\E r \in UserRoles : Refresh(r))
    BY <1>3, ShowsSame DEF SessionEnds, Refresh
  <1>4. ASSUME NEW q \in Slots, NEW t \in Terms, OnSearch(q, t) PROVE ShowsInv'
    BY <1>4, ShowsAsk DEF OnSearch, LoadUsers, Kinds
  <1>5. ASSUME NEW q \in Slots, NEW p \in 0 .. MaxPage, GoToPage(q, p)
        PROVE  ShowsInv'
    <2>1. p \in Nat /\ term \in Terms
      BY ConstantsAssumption DEF ConstantsAssumption, TypeOK
    <2> QED BY <1>5, <2>1, ShowsAsk DEF GoToPage, LoadUsers, Kinds
  <1>6. ASSUME NEW q \in Slots, RefreshStats(q) PROVE ShowsInv'
    <2>1. Ids \in Terms /\ "figures" \in Kinds
      BY ConstantsAssumption DEF ConstantsAssumption, Kinds
    <2> QED BY <1>6, <2>1, ShowsAsk DEF RefreshStats
  <1>7. ASSUME NEW id \in Ids, NEW s \in Statuses \cup {None}, Others(id, s)
        PROVE  ShowsInv'
    <2>1. /\ UNCHANGED <<page, term, requests, shows>> /\ UNCHANGED loading
          /\ unseen' = Kinds
      BY <1>7 DEF Others, list
    <2>2. \A k : Latest(k)' = Latest(k)
      BY <2>1 DEF Latest
    <2> QED BY <2>1, <2>2 DEF ShowsInv, OneLatest, LatestAsked, LatestServed, LatestShown
  <1>8. ASSUME NEW q \in Slots,
               Answer(q) \/ ShowUsers(q) \/ ShowFigures(q) \/ Fails(q)
        PROVE  ShowsInv'
    BY <1>8, ShowsAnswer, ShowsReplies
  <1>9. CASE UNCHANGED vars
    BY <1>9, ShowsSame DEF vars
  <1> QED BY <1>1, <1>2, <1>3, <1>4, <1>5, <1>6, <1>7, <1>8, <1>9 DEF Next

\* At rest, the table is what the server would answer to the controls, and the
\* figures are those of the accounts.
THEOREM ShowsTheServerHolds == Spec => []ShowsTheServer
  <1>1. Init => ShowsInv
    BY DEF Init, ShowsInv, OneLatest, LatestAsked, LatestServed, LatestShown, Latest,
           NoRequest
  <1>2. ShowsInv => ShowsTheServer
    BY DEF ShowsInv, LatestShown, ShowsTheServer, AtRest, Displayed, Kinds
  <1> QED BY <1>1, <1>2, TypeInit, TypeNext, ShowsNext, PTL DEF Spec
=============================================================================
