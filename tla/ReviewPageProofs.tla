-------------------------- MODULE ReviewPageProofs --------------------------
(***************************************************************************)
(* Proofs about ReviewPage, for any number of mémoires, rows on a page and *)
(* requests under way.                                                     *)
(***************************************************************************)
EXTENDS ReviewPage, FiniteSetTheorems, TLAPS

\* The hypothesis of the invariant: nothing has changed the board behind the
\* back of the latest list request.
Settled == ~unseen /\ \A q \in Patches : patches[q].stage # "applied"

Shows(r, n) == r = Slice(page, filter) /\ n = Cardinality(Matches(filter))

\* The latest request carries the page and the filter of the controls; its
\* answer, and the table that shows it, are what the server would answer now.
TableInv ==
  /\ \A l \in Loads : loads[l].latest =>
       ~current /\ loads[l].page = page /\ loads[l].filter = filter
  /\ \A l, k \in Loads : loads[l].latest /\ loads[k].latest => l = k
  /\ Settled => \A l \in Loads :
       loads[l].latest /\ loads[l].stage = "answered"
         => Shows(loads[l].rows, loads[l].total)
  /\ current => ~loading
  /\ Settled /\ current => Shows(rows, total)

-----------------------------------------------------------------------------
(* Type correctness.                                                       *)

LEMMA SliceTyped ==
  ASSUME TypeOK, NEW p \in Pages, NEW f \in Filters
  PROVE  Slice(p, f) \in SUBSET Rows /\ Cardinality(Matches(f)) \in Nat
  <1>1. Matches(f) \subseteq MemoireIds
    BY DEF Matches, Board!Live
  <1>2. IsFiniteSet(Matches(f))
    BY <1>1, ConstantsAssumption, FS_Subset
  <1>3. \A i \in Matches(f) : Row(i) \in Rows
    BY <1>1 DEF Row, Rows, TypeOK
  <1>4. Slice(p, f) \subseteq Rows
    BY <1>3 DEF Slice
  <1> QED
    BY <1>2, <1>4, FS_CardinalityType

LEMMA SentTyped ==
  ASSUME NEW p \in Pages, NEW f \in Filters
  PROVE  Sent(p, f) \in ListRequests
  BY DEF Sent, NoLoad, ListRequests, Pages

LEMMA NothingTyped ==
  NoLoad \in ListRequests /\ NoPatch \in PatchRequests /\ NoReview \in Reviews
  BY ConstantsAssumption
  DEF ConstantsAssumption, NoLoad, ListRequests, Pages, NoPatch, PatchRequests,
      NoReview, Reviews, Modes

LEMMA TypeInit == Init => TypeOK
  <1> SUFFICES ASSUME Init PROVE TypeOK
    OBVIOUS
  <1>1. 1 \in Pages /\ "Tous" \in Filters
    BY ConstantsAssumption DEF ConstantsAssumption, Pages
  <1>2. loads \in [Loads -> ListRequests] /\ patches \in [Patches -> PatchRequests]
    BY <1>1, SentTyped, NothingTyped DEF Init
  <1>3. board \in [MemoireIds -> [statut : Statuts, note : Notes \cup {Null}]]
    BY DEF Init, Statuts, Board!Unsubmitted, Board!Entry
  <1> QED
    BY <1>1, <1>2, <1>3, NothingTyped DEF Init, TypeOK

\* What load() leaves behind.
LEMMA LoadTyped ==
  ASSUME TypeOK, NEW l \in Loads, NEW p \in Pages, NEW f \in Filters,
         Load(l, p, f), board' = board,
         selected' = selected, target' \in Reviews, acting' \in BOOLEAN,
         patches' \in [Patches -> PatchRequests], unseen' \in BOOLEAN
  PROVE  TypeOK'
  <1>1. loads' \in [Loads -> ListRequests]
    <2>1. \A k \in Loads : [loads[k] EXCEPT !.latest = FALSE] \in ListRequests
      BY DEF TypeOK, ListRequests
    <2> QED BY <2>1, SentTyped DEF Load
  <1> QED
    BY <1>1 DEF TypeOK, Load

LEMMA TypeUser == TypeOK /\ User => TypeOK'
  <1> SUFFICES ASSUME TypeOK, User PROVE TypeOK'
    OBVIOUS
  <1> USE DEF dialogs, table
  <1>1. ASSUME NEW l \in Loads, NEW f \in Filters, OnSearch(l, f)
        PROVE  TypeOK'
    BY <1>1, LoadTyped DEF OnSearch, TypeOK, Pages
  <1>2. ASSUME NEW l \in Loads, NEW p \in PageButtons, GoTo(l, p)
        PROVE  TypeOK'
    <2>1. p \in Pages
      BY DEF PageButtons, Pages, TypeOK
    <2>2. filter \in Filters
      BY DEF TypeOK
    <2> QED BY <1>2, <2>1, <2>2, LoadTyped DEF GoTo, TypeOK
  <1>3. ASSUME NEW row \in Rows, NEW m \in Modes, OpenReview(row, m)
        PROVE  TypeOK'
    BY <1>3 DEF OpenReview, TypeOK, Rows, Reviews
  <1>4. ASSUME NEW row \in rows, NEW m \in Modes, OpenFromTable(row, m)
        PROVE  TypeOK'
    BY <1>3, <1>4 DEF OpenFromTable, TypeOK
  <1>5. ASSUME NEW row \in rows, Select(row) PROVE TypeOK'
    BY <1>5 DEF Select, TypeOK
  <1>6. ASSUME NEW m \in Modes, OpenFromDetail(m) PROVE TypeOK'
    BY <1>3, <1>6 DEF OpenFromDetail, TypeOK
  <1>7. CASE Close
    BY <1>7, NothingTyped DEF Close, TypeOK
  <1>8. ASSUME NEW q \in Patches, NEW n \in Notes \cup {Null}, DoReview(q, n)
        PROVE  TypeOK'
    <2>1. [stage |-> "sent", review |-> target, note |-> n] \in PatchRequests
      BY DEF PatchRequests, TypeOK
    <2> QED BY <1>8, <2>1 DEF DoReview, TypeOK
  <1> QED
    BY <1>1, <1>2, <1>4, <1>5, <1>6, <1>7, <1>8 DEF User

LEMMA BoardTyped ==
  ASSUME board \in [MemoireIds -> [statut : Statuts, note : Notes \cup {Null}]],
         \/ Board!Next
         \/ \E id \in MemoireIds : Board!Approve(id)
         \/ \E id \in MemoireIds, n \in Notes \cup {Null} : Board!Reject(id, n)
  PROVE  board' \in [MemoireIds -> [statut : Statuts, note : Notes \cup {Null}]]
  <1>1. ASSUME NEW s \in Statuts, NEW n \in Notes \cup {Null}
        PROVE  Board!Entry(s, n) \in [statut : Statuts, note : Notes \cup {Null}]
    BY DEF Board!Entry
  <1>2. {"Delivre", "Valide", "Rejete", "Retire"} \subseteq Statuts
    BY DEF Statuts
  <1> QED
    BY <1>1, <1>2 DEF Board!Next, Board!Submit, Board!Approve, Board!Reject,
                      Board!Withdraw, Board!Withdrawn

LEMMA TypeNetwork == TypeOK /\ Network => TypeOK'
  <1> SUFFICES ASSUME TypeOK, Network PROVE TypeOK'
    OBVIOUS
  <1> USE DEF dialogs, table
  <1>1. ASSUME NEW l \in Loads, Answer(l) PROVE TypeOK'
    <2> DEFINE q == [loads[l] EXCEPT
                       !.stage = "answered",
                       !.rows  = Slice(loads[l].page, loads[l].filter),
                       !.total = Cardinality(Matches(loads[l].filter))]
    <2>1. loads[l] \in ListRequests
      BY DEF TypeOK
    <2>2. q \in ListRequests
      BY <2>1, SliceTyped DEF ListRequests
    <2> HIDE DEF q
    <2>3. loads' = [loads EXCEPT ![l] = q]
      BY <1>1 DEF Answer, q
    <2> QED BY <1>1, <2>2, <2>3 DEF Answer, TypeOK
  <1>2. ASSUME NEW l \in Loads, Show(l) PROVE TypeOK'
    <2>1. loads[l] \in ListRequests
      BY DEF TypeOK
    <2> QED BY <1>2, <2>1, NothingTyped DEF Show, TypeOK, ListRequests
  <1>3. ASSUME NEW l \in Loads, LoadFailed(l) PROVE TypeOK'
    BY <1>3, NothingTyped DEF LoadFailed, TypeOK
  <1>4. ASSUME NEW q \in Patches, Apply(q) PROVE TypeOK'
    <2>1. patches[q] \in PatchRequests
      BY DEF TypeOK
    <2>2. patches' \in [Patches -> PatchRequests]
      BY <1>4, <2>1 DEF Apply, TypeOK, PatchRequests
    <2>3. /\ patches[q].review.id \in MemoireIds
          /\ patches[q].note \in Notes \cup {Null}
      BY <1>4, <2>1 DEF Apply, Board!Live, PatchRequests
    <2>4. board' \in [MemoireIds -> [statut : Statuts, note : Notes \cup {Null}]]
      BY <1>4, <2>3, BoardTyped DEF Apply, TypeOK
    <2> QED BY <1>4, <2>2, <2>4 DEF Apply, TypeOK
  <1>5. ASSUME NEW q \in Patches, ReviewFailed(q) PROVE TypeOK'
    BY <1>5, NothingTyped DEF ReviewFailed, TypeOK
  <1>6. ASSUME NEW q \in Patches, NEW l \in Loads, ReviewDone(q, l)
        PROVE  TypeOK'
    <2>1. page \in Pages /\ filter \in Filters
      BY DEF TypeOK
    <2> QED BY <1>6, <2>1, NothingTyped, LoadTyped DEF ReviewDone, TypeOK
  <1> QED
    BY <1>1, <1>2, <1>3, <1>4, <1>5, <1>6 DEF Network

LEMMA TypeNext == TypeOK /\ [Next]_vars => TypeOK'
  <1> SUFFICES ASSUME TypeOK, [Next]_vars PROVE TypeOK'
    OBVIOUS
  <1>1. CASE Others
    BY <1>1, BoardTyped DEF Others, TypeOK, table, dialogs
  <1>2. CASE UNCHANGED vars
    BY <1>2 DEF TypeOK, vars, table, dialogs
  <1> QED BY <1>1, <1>2, TypeUser, TypeNetwork DEF Next

\* The page, its dialogs and its requests keep their types; in particular the
\* page buttons never ask for a page before the first.
THEOREM TypeCorrect == Spec => []TypeOK
  BY TypeInit, TypeNext, PTL DEF Spec

-----------------------------------------------------------------------------
(* One review at a time.                                                   *)

LEMMA OneReviewInit == Init => OneReview
  BY DEF Init, OneReview, UnderWay

LEMMA OneReviewNext == TypeOK /\ OneReview /\ [Next]_vars => OneReview'
  <1> SUFFICES ASSUME TypeOK, OneReview, [Next]_vars PROVE OneReview'
    OBVIOUS
  <1> USE DEF OneReview, UnderWay, TypeOK
  <1>1. CASE patches' = patches /\ acting' = acting
    BY <1>1
  <1>2. ASSUME NEW q \in Patches, NEW n \in Notes \cup {Null}, DoReview(q, n)
        PROVE  OneReview'
    <2>1. [stage |-> "sent", review |-> target, note |-> n] # NoPatch
      BY DEF NoPatch
    <2>2. patches' = [patches EXCEPT ![q] = [stage |-> "sent",
                                             review |-> target, note |-> n]]
      BY <1>2 DEF DoReview
    <2> QED BY <1>2, <2>1, <2>2 DEF DoReview
  <1>3. ASSUME NEW q \in Patches, Apply(q) PROVE OneReview'
    <2>1. patches[q] # NoPatch /\ patches'[q].stage = "applied"
      BY <1>3 DEF Apply, NoPatch, PatchRequests
    <2>2. patches'[q] # NoPatch
      BY <2>1 DEF NoPatch
    <2>3. \A p \in Patches \ {q} : patches'[p] = patches[p]
      BY <1>3 DEF Apply
    <2> QED BY <1>3, <2>1, <2>2, <2>3 DEF Apply, dialogs
  <1>4. ASSUME NEW q \in Patches,
               ReviewFailed(q) \/ \E l \in Loads : ReviewDone(q, l)
        PROVE  OneReview'
    <2>1. /\ patches[q] # NoPatch
          /\ patches' = [patches EXCEPT ![q] = NoPatch]
          /\ acting' = FALSE
      BY <1>4 DEF ReviewFailed, ReviewDone, NoPatch
    <2> QED BY <2>1
  <1>5. CASE Others
    BY <1>1, <1>5 DEF Others, dialogs
  <1>6. CASE User
    BY <1>1, <1>2, <1>6 DEF User, OnSearch, GoTo, OpenFromTable, OpenFromDetail,
                            OpenReview, Select, Close, dialogs
  <1>7. CASE Network
    BY <1>1, <1>3, <1>4, <1>7 DEF Network, Answer, Show, LoadFailed, dialogs
  <1>8. CASE UNCHANGED vars
    BY <1>1, <1>8 DEF vars, dialogs
  <1> QED BY <1>5, <1>6, <1>7, <1>8 DEF Next

\* However dialogs are closed and opened, the page never has two reviews under
\* way, and its flag is set exactly while it has one.
THEOREM OneReviewHolds == Spec => []OneReview
  BY OneReviewInit, OneReviewNext, TypeCorrect, PTL DEF Spec

-----------------------------------------------------------------------------
(* The table.                                                              *)

LEMMA TableInit == Init => TableInv
  BY DEF Init, TableInv, Sent, NoLoad

\* load() makes its own request the only latest one, and nothing is answered.
LEMMA TableAfterLoad ==
  ASSUME TypeOK, NEW l \in Loads, NEW p \in Pages, NEW f \in Filters,
         Load(l, p, f)
  PROVE  TableInv'
  <1>1. /\ loads'[l].latest /\ loads'[l].stage = "sent"
        /\ loads'[l].page = p /\ loads'[l].filter = f
    BY DEF Load, Sent, NoLoad
  <1>2. \A k \in Loads \ {l} : ~loads'[k].latest
    BY DEF Load, TypeOK, ListRequests
  <1> QED BY <1>1, <1>2 DEF Load, TableInv

\* A step that leaves the table and the board alone, and whatever is hidden
\* from the latest request hidden, preserves the invariant.
LEMMA TableFrame ==
  ASSUME TableInv, UNCHANGED table, UNCHANGED <<loads, current>>,
         Settled' => Settled /\ board' = board
  PROVE  TableInv'
  <1>1. ASSUME Settled', NEW r, NEW n, Shows(r, n) PROVE Shows(r, n)'
    BY <1>1 DEF Shows, Slice, Row, Matches, Board!Live, table
  <1> QED BY <1>1 DEF TableInv, table, Shows

LEMMA TableNext == TypeOK /\ TableInv /\ [Next]_vars => TableInv'
  <1> SUFFICES ASSUME TypeOK, TableInv, [Next]_vars PROVE TableInv'
    OBVIOUS
  <1>1. ASSUME NEW l \in Loads, Answer(l) PROVE TableInv'
    <2> DEFINE q == loads[l]
    <2>1. q \in ListRequests
      BY DEF TypeOK
    <2>2. /\ loads'[l].latest = q.latest /\ loads'[l].page = q.page
          /\ loads'[l].filter = q.filter
          /\ loads'[l].rows = Slice(q.page, q.filter)
          /\ loads'[l].total = Cardinality(Matches(q.filter))
      BY <1>1, <2>1 DEF Answer, TypeOK, ListRequests
    <2>3. \A k \in Loads \ {l} : loads'[k] = loads[k]
      BY <1>1 DEF Answer, TypeOK
    <2>4. UNCHANGED <<board, page, filter, rows, total, loading, patches, current>>
      BY <1>1 DEF Answer, table
    <2>5. \A r, n : Shows(r, n)' <=> Shows(r, n)
      BY <2>4 DEF Shows, Slice, Row, Matches, Board!Live
    <2>6. CASE q.latest
      <3>1. q.page = page /\ q.filter = filter /\ ~current
        BY <2>6 DEF TableInv
      <3>2. Shows(loads'[l].rows, loads'[l].total)
        BY <2>2, <3>1 DEF Shows
      <3> QED
        BY <2>2, <2>3, <2>4, <2>5, <2>6, <3>1, <3>2 DEF TableInv, Shows
    <2>7. CASE ~q.latest
      <3>1. Settled' => Settled
        BY <1>1, <2>4, <2>7 DEF Answer, Settled
      <3> QED
        BY <2>2, <2>3, <2>4, <2>5, <2>7, <3>1 DEF TableInv, Shows
    <2> QED BY <2>6, <2>7
  <1>2. ASSUME NEW l \in Loads, Show(l) PROVE TableInv'
    <2>1. ~loads'[l].latest /\ \A k \in Loads \ {l} : loads'[k] = loads[k]
      BY <1>2 DEF Show, TypeOK, NoLoad
    <2>2. UNCHANGED <<board, page, filter, patches, unseen>>
      BY <1>2 DEF Show
    <2>3. \A r, n : Shows(r, n)' <=> Shows(r, n)
      BY <2>2 DEF Shows, Slice, Row, Matches, Board!Live
    <2>4. /\ loads[l].stage = "answered" /\ current' = loads[l].latest
          /\ rows' = loads[l].rows /\ total' = loads[l].total /\ ~loading'
      BY <1>2 DEF Show
    <2>5. Settled' <=> Settled
      BY <2>2 DEF Settled
    <2> QED BY <2>1, <2>2, <2>3, <2>4, <2>5 DEF TableInv, Shows
  <1>3. ASSUME NEW l \in Loads, LoadFailed(l) PROVE TableInv'
    <2>1. ~loads'[l].latest /\ \A k \in Loads \ {l} : loads'[k] = loads[k]
      BY <1>3 DEF LoadFailed, TypeOK, NoLoad
    <2>2. UNCHANGED <<board, page, filter, rows, total, loading, patches,
                      current, unseen>>
      BY <1>3 DEF LoadFailed, table
    <2>3. \A r, n : Shows(r, n)' <=> Shows(r, n)
      BY <2>2 DEF Shows, Slice, Row, Matches, Board!Live
    <2>4. Settled' <=> Settled
      BY <2>2 DEF Settled
    <2> QED BY <2>1, <2>2, <2>3, <2>4 DEF TableInv, Shows
  <1>4. ASSUME NEW q \in Patches, Apply(q) PROVE TableInv'
    <2>1. ~Settled'
      BY <1>4 DEF Apply, TypeOK, PatchRequests, Settled
    <2> QED BY <1>4, <2>1, TableFrame DEF Apply
  <1>5. ASSUME NEW q \in Patches, ReviewFailed(q) PROVE TableInv'
    <2>1. Settled' => Settled /\ board' = board
      BY <1>5 DEF ReviewFailed, TypeOK, Settled
    <2> QED BY <1>5, <2>1, TableFrame DEF ReviewFailed
  <1>6. ASSUME NEW q \in Patches, NEW l \in Loads, ReviewDone(q, l)
        PROVE  TableInv'
    BY <1>6, TableAfterLoad DEF ReviewDone, TypeOK
  <1>7. CASE Network
    BY <1>1, <1>2, <1>3, <1>4, <1>5, <1>6, <1>7 DEF Network
  <1>8. ASSUME NEW l \in Loads, NEW f \in Filters, OnSearch(l, f)
        PROVE  TableInv'
    BY <1>8, TableAfterLoad DEF OnSearch, Pages
  <1>9. ASSUME NEW l \in Loads, NEW p \in PageButtons, GoTo(l, p)
        PROVE  TableInv'
    <2>1. p \in Pages /\ filter \in Filters
      BY DEF PageButtons, Pages, TypeOK
    <2> QED BY <1>9, <2>1, TableAfterLoad DEF GoTo
  <1>10. ASSUME NEW q \in Patches, NEW n \in Notes \cup {Null}, DoReview(q, n)
         PROVE  TableInv'
    <2>1. Settled' => Settled /\ board' = board
      BY <1>10 DEF DoReview, TypeOK, Settled, NoPatch
    <2> QED BY <1>10, <2>1, TableFrame DEF DoReview
  <1>11. CASE UNCHANGED <<board, table, loads, patches, current, unseen>>
    BY <1>11, TableFrame DEF Settled
  <1>12. CASE User
    BY <1>8, <1>9, <1>10, <1>11, <1>12
    DEF User, OpenFromTable, OpenFromDetail, OpenReview, Select, Close
  <1>13. CASE Others
    BY <1>13, TableFrame DEF Others, Settled
  <1>14. CASE UNCHANGED vars
    BY <1>11, <1>14 DEF vars
  <1> QED BY <1>7, <1>12, <1>13, <1>14 DEF Next

\* When every reply has come, in whatever order, the table is what the server
\* would answer to the page and filter that the controls show, for any number
\* of requests, mémoires and rows on a page.
THEOREM TableFaithfulHolds == Spec => []TableFaithful
  <1>1. TypeOK /\ TableInv => TableFaithful
    BY DEF TableInv, TableFaithful, AtRest, Settled, Shows, UnderWay, NoPatch,
           TypeOK
  <1> QED BY <1>1, TableInit, TableNext, TypeCorrect, PTL DEF Spec

-----------------------------------------------------------------------------
(* Pages.                                                                  *)

\* What division by a positive number means.
LEMMA Division ==
  ASSUME NEW n \in Nat, NEW k \in Nat \ {0}
  PROVE  /\ n \div k \in Nat
         /\ (n \div k) * k <= n
         /\ n < (n \div k + 1) * k
  <1>1. n \div k \in Int
    OBVIOUS
  <1>2. (n \div k) * k <= n
    OBVIOUS
  <1>3. n < (n \div k + 1) * k
    OBVIOUS
  <1>4. n \div k >= 0
    <2>1. CASE n \div k + 1 <= 0
      <3>1. (n \div k + 1) * k <= 0
        BY <1>1, <2>1
      <3> QED BY <1>1, <1>3, <3>1
    <2>2. CASE n \div k + 1 > 0
      BY <1>1, <2>2
    <2> QED BY <1>1, <2>1, <2>2
  <1> QED BY <1>1, <1>2, <1>3, <1>4

\* The pages of PageSize places that n places fill: each place is on one of
\* them, and each of them has a place.
LEMMA Paging ==
  ASSUME NEW n \in Nat \ {0}, NEW k \in Nat \ {0}
  PROVE  LET last == (n + k - 1) \div k IN
         /\ last \in Nat \ {0}
         /\ \A i \in 1 .. n : \E p \in 1 .. last : i \in (p - 1) * k + 1 .. p * k
         /\ \A p \in Nat \ {0} : p <= last <=> (p - 1) * k + 1 <= n
  <1> DEFINE last == (n + k - 1) \div k
  <1>1. n + k - 1 \in Nat
    OBVIOUS
  <1>2. last \in Nat /\ last * k <= n + k - 1 /\ n + k - 1 < (last + 1) * k
    BY <1>1, Division
  <1> HIDE DEF last
  <1>3. (last + 1) * k = last * k + k
    BY <1>2
  <1>4. n <= last * k
    BY <1>2, <1>3
  <1>5. last # 0
    BY <1>2, <1>4
  <1>6. ASSUME NEW p \in Nat \ {0} PROVE p <= last <=> (p - 1) * k + 1 <= n
    <2>1. (p - 1) * k \in Int /\ p * k = (p - 1) * k + k
      OBVIOUS
    <2>2. CASE p <= last
      <3>1. p * k <= last * k
        BY <1>2, <2>2
      <3> QED BY <1>2, <2>1, <2>2, <3>1
    <2>3. CASE ~(p <= last)
      <3>1. last <= p - 1
        BY <1>2, <2>3
      <3>2. last * k <= (p - 1) * k
        BY <1>2, <3>1
      <3> QED BY <1>2, <1>4, <2>1, <2>3, <3>2
    <2> QED BY <2>2, <2>3
  <1>7. ASSUME NEW i \in 1 .. n
        PROVE  \E p \in 1 .. last : i \in (p - 1) * k + 1 .. p * k
    <2> DEFINE d == (i - 1) \div k
    <2>1. i - 1 \in Nat
      OBVIOUS
    <2>2. d \in Nat /\ d * k <= i - 1 /\ i - 1 < (d + 1) * k
      BY <2>1, Division
    <2> HIDE DEF d
    <2>3. d + 1 \in Nat \ {0} /\ (d + 1) - 1 = d
      BY <2>2
    <2>4. d * k \in Nat /\ (d + 1) * k \in Nat
      BY <2>2
    <2>5. d + 1 <= last
      BY <1>6, <2>2, <2>3, <2>4
    <2>6. i \in ((d + 1) - 1) * k + 1 .. (d + 1) * k
      BY <2>2, <2>3, <2>4
    <2>7. d + 1 \in 1 .. last
      BY <1>2, <2>3, <2>5
    <2> QED BY <2>6, <2>7
  <1> QED BY <1>2, <1>5, <1>6, <1>7 DEF last

\* The place of a mémoire in the list, newest first.
Place(f, id) == Cardinality({j \in Matches(f) : j >= id})

LEMMA MatchesFinite ==
  ASSUME NEW f
  PROVE  /\ IsFiniteSet(Matches(f)) /\ Matches(f) \subseteq Nat
         /\ Cardinality(Matches(f)) \in Nat
  <1>1. Matches(f) \subseteq MemoireIds
    BY DEF Matches, Board!Live
  <1> QED BY <1>1, ConstantsAssumption, FS_Subset, FS_CardinalityType

LEMMA PlaceBounds ==
  ASSUME NEW f, NEW id \in Matches(f)
  PROVE  Place(f, id) \in 1 .. Cardinality(Matches(f))
  <1> DEFINE S == {j \in Matches(f) : j >= id}
  <1>1. S \subseteq Matches(f) /\ id \in S
    BY MatchesFinite
  <1>2. IsFiniteSet(S) /\ Cardinality(S) <= Cardinality(Matches(f))
    BY <1>1, MatchesFinite, FS_Subset
  <1>3. Cardinality(S) \in Nat /\ Cardinality(S) # 0
    BY <1>1, <1>2, FS_CardinalityType, FS_EmptySet
  <1> QED BY <1>2, <1>3, MatchesFinite DEF Place

\* Two mémoires never share a place.
LEMMA PlaceInjective ==
  ASSUME NEW f, NEW i \in Matches(f), NEW j \in Matches(f), i < j
  PROVE  Place(f, i) # Place(f, j)
  <1> DEFINE S(x) == {m \in Matches(f) : m >= x}
  <1>1. IsFiniteSet(S(i))
    BY MatchesFinite, FS_Subset
  <1>2. S(j) \subseteq S(i) /\ i \in S(i) /\ i \notin S(j)
    BY MatchesFinite
  <1>3. Cardinality(S(i)) # Cardinality(S(j))
    <2> HIDE DEF S
    <2> QED BY <1>1, <1>2, FS_Subset
  <1> QED BY <1>3 DEF Place

\* So every place is somebody's: as many mémoires as places, and no place twice.
LEMMA PlaceOnto ==
  ASSUME NEW f, NEW n \in 1 .. Cardinality(Matches(f))
  PROVE  \E id \in Matches(f) : Place(f, id) = n
  <1> DEFINE M == Matches(f)
             T == 1 .. Cardinality(M)
             g == [id \in M |-> Place(f, id)]
  <1>1. /\ IsFiniteSet(M) /\ M \subseteq Nat /\ Cardinality(M) \in Nat
    BY MatchesFinite
  <1>2. IsFiniteSet(T) /\ Cardinality(T) = Cardinality(M)
    BY <1>1, FS_Interval
  <1>3. g \in [M -> T]
    BY PlaceBounds
  <1>4. \A i, j \in M : g[i] = g[j] => i = j
    BY <1>1, PlaceInjective
  <1>5. g \in Injection(M, T)
    BY <1>3, <1>4 DEF Injection, IsInjective
  <1>6. g \in Surjection(M, T)
    <2> HIDE DEF M, T, g
    <2> QED BY <1>2, <1>5, FS_Injection
  <1> QED BY <1>6 DEF Surjection

\* Which places a page shows.
LEMMA SliceOfPlaces ==
  ASSUME NEW f, NEW p
  PROVE  /\ \A id \in Matches(f) :
              Place(f, id) \in (p - 1) * PageSize + 1 .. p * PageSize
                => Row(id) \in Slice(p, f)
         /\ Slice(p, f) # {} => \E id \in Matches(f) :
              Place(f, id) \in (p - 1) * PageSize + 1 .. p * PageSize
  BY DEF Slice, Place

\* A page has rows exactly if its first place is taken.
LEMMA SliceEmpty ==
  ASSUME NEW f, NEW p \in Pages
  PROVE  Slice(p, f) # {}
           <=> (p - 1) * PageSize + 1 <= Cardinality(Matches(f))
  <1> DEFINE first == (p - 1) * PageSize + 1
             n == Cardinality(Matches(f))
  <1>1. n \in Nat /\ PageSize \in Nat \ {0}
    BY MatchesFinite, ConstantsAssumption
  <1>2. first \in Nat \ {0} /\ first <= p * PageSize /\ p * PageSize \in Nat
    <2>1. (p - 1) * PageSize \in Nat /\ p * PageSize = (p - 1) * PageSize + PageSize
      BY <1>1 DEF Pages
    <2> QED BY <1>1, <2>1
  <1>3. ASSUME first <= n PROVE Slice(p, f) # {}
    <2>1. first \in 1 .. n
      BY <1>1, <1>2, <1>3
    <2>2. PICK id \in Matches(f) : Place(f, id) = first
      BY <2>1, PlaceOnto
    <2>3. first \in first .. p * PageSize
      BY <1>2
    <2> QED BY <2>2, <2>3, SliceOfPlaces
  <1>4. ASSUME Slice(p, f) # {} PROVE first <= n
    <2>1. PICK id \in Matches(f) : Place(f, id) \in first .. p * PageSize
      BY <1>4, SliceOfPlaces
    <2>2. Place(f, id) \in 1 .. n
      BY PlaceBounds
    <2> QED BY <1>1, <1>2, <2>1, <2>2
  <1> QED BY <1>3, <1>4

\* The pages that the controls count are those that have rows.
LEMMA PagesHaveRows ==
  ASSUME NEW f, Matches(f) # {}, total = Cardinality(Matches(f))
  PROVE  /\ TotalPages \in Nat \ {0}
         /\ \A id \in Matches(f) : \E p \in 1 .. TotalPages : Row(id) \in Slice(p, f)
         /\ \A p \in Pages : Slice(p, f) # {} <=> p <= TotalPages
  <1>1. total \in Nat \ {0} /\ PageSize \in Nat \ {0}
    BY MatchesFinite, ConstantsAssumption, FS_EmptySet
  <1>2. TotalPages = (total + PageSize - 1) \div PageSize
    BY <1>1 DEF TotalPages
  <1>3. /\ TotalPages \in Nat \ {0}
        /\ \A i \in 1 .. total : \E p \in 1 .. TotalPages :
             i \in (p - 1) * PageSize + 1 .. p * PageSize
        /\ \A p \in Nat \ {0} : p <= TotalPages
                                  <=> (p - 1) * PageSize + 1 <= total
    BY <1>1, <1>2, Paging
  <1>4. ASSUME NEW id \in Matches(f)
        PROVE  \E p \in 1 .. TotalPages : Row(id) \in Slice(p, f)
    <2>1. Place(f, id) \in 1 .. total
      BY PlaceBounds
    <2> QED BY <1>3, <2>1, SliceOfPlaces
  <1>5. ASSUME NEW p \in Pages PROVE Slice(p, f) # {} <=> p <= TotalPages
    <2>1. Slice(p, f) # {} <=> (p - 1) * PageSize + 1 <= total
      BY SliceEmpty
    <2>2. p \in Nat \ {0}
      BY DEF Pages
    <2> QED BY <1>3, <2>1, <2>2
  <1> QED BY <1>3, <1>4, <1>5

\* From a page that the controls count, a button leads nearer to any other.
LEMMA ButtonNearer ==
  ASSUME NEW last \in Nat, last = TotalPages, page \in Pages, page <= last,
         NEW p \in (1 .. last) \ {page}
  PROVE  \E b \in PageButtons : Distance(b, p) < Distance(page, p)
  <1>1. page \in Nat /\ page >= 1 /\ p \in Nat
    BY DEF Pages
  <1>2. CASE page < p
    <2>1. page + 1 \in PageButtons
      BY <1>1, <1>2 DEF PageButtons
    <2>2. Distance(page + 1, p) < Distance(page, p)
      BY <1>1, <1>2 DEF Distance
    <2> QED BY <2>1, <2>2
  <1>3. CASE p < page
    <2>1. page - 1 \in PageButtons
      BY <1>1, <1>3 DEF PageButtons
    <2>2. Distance(page - 1, p) < Distance(page, p)
      BY <1>1, <1>3 DEF Distance
    <2> QED BY <2>1, <2>2
  <1> QED BY <1>1, <1>2, <1>3

\* For any number of mémoires and of rows on a page: whatever reviews and
\* withdrawals move between the pages, at rest the pages that the controls
\* count hold everything that matches and are within reach of each other.
THEOREM NothingOutOfReachHolds == Spec => []NothingOutOfReach
  <1>1. ASSUME TypeOK, TableFaithful, AtRest
        PROVE  /\ \A id \in Matches(filter) :
                    \E p \in 1 .. TotalPages : Row(id) \in Slice(p, filter)
               /\ rows # {} => \A p \in (1 .. TotalPages) \ {page} :
                    \E b \in PageButtons : Distance(b, p) < Distance(page, p)
               /\ rows = {} <=> Matches(filter) = {} \/ page > TotalPages
    <2>1. /\ rows = Slice(page, filter)
          /\ total = Cardinality(Matches(filter))
          /\ page \in Pages
      BY <1>1 DEF TableFaithful, TypeOK
    <2>2. CASE Matches(filter) = {}
      BY <2>1, <2>2 DEF Slice
    <2>3. CASE Matches(filter) # {}
      <3>1. /\ TotalPages \in Nat \ {0}
            /\ rows # {} <=> page <= TotalPages
        BY <2>1, <2>3, PagesHaveRows
      <3>2. rows # {} => \A p \in (1 .. TotalPages) \ {page} :
              \E b \in PageButtons : Distance(b, p) < Distance(page, p)
        BY <2>1, <3>1, ButtonNearer
      <3>3. page > TotalPages <=> ~(page <= TotalPages)
        BY <2>1, <3>1 DEF Pages
      <3> QED BY <2>1, <2>3, <3>1, <3>2, <3>3, PagesHaveRows
    <2> QED BY <2>2, <2>3
  <1>2. TypeOK /\ TableFaithful => NothingOutOfReach
    BY <1>1 DEF NothingOutOfReach
  <1> QED BY <1>2, TypeCorrect, TableFaithfulHolds, PTL
=============================================================================
