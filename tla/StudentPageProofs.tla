------------------------- MODULE StudentPageProofs --------------------------
(***************************************************************************)
(* Proofs about StudentPage, for any number of mémoires and requests under *)
(* way.                                                                    *)
(***************************************************************************)
EXTENDS StudentPage, TLAPS

-----------------------------------------------------------------------------
(* Type correctness.                                                       *)

LEMMA NothingTyped ==
  /\ NoLoad \in ListRequests /\ Sent \in ListRequests
  /\ Blank \in Drafts /\ NoPost \in [stage : Stages, draft : Drafts]
  /\ NoCall \in [stage : Stages, id : MemoireIds \cup {Null}]
  BY DEF NoLoad, Sent, ListRequests, NoCall, NoPost, Stages, Drafts, Blank

LEMMA MineTyped == TypeOK => Mine \in SUBSET Rows
  <1> SUFFICES ASSUME TypeOK PROVE Mine \in SUBSET Rows
    OBVIOUS
  <1>1. \A id \in Board!Live : [id |-> id, statut |-> board[id].statut] \in Rows
    BY DEF Board!Live, Rows, TypeOK
  <1> QED BY <1>1 DEF Mine

LEMMA TypeInit == Init => TypeOK
  <1> SUFFICES ASSUME Init PROVE TypeOK
    OBVIOUS
  <1>1. loads \in [Loads -> ListRequests]
    BY NothingTyped DEF Init
  <1>2. board \in [MemoireIds -> [statut : Statuts, note : Notes \cup {Null}]]
    BY DEF Init, Statuts, Board!Unsubmitted, Board!Entry
  <1> QED BY <1>1, <1>2, NothingTyped DEF Init, TypeOK

\* What loadMine() leaves behind.
LEMMA LoadTyped ==
  ASSUME TypeOK, NEW l \in Loads, LoadMine(l)
  PROVE  /\ loads' \in [Loads -> ListRequests]
         /\ loading' \in BOOLEAN /\ current' \in BOOLEAN /\ rows' \in SUBSET Rows
  <1>1. \A k \in Loads : [loads[k] EXCEPT !.latest = FALSE] \in ListRequests
    BY DEF TypeOK, ListRequests
  <1> QED BY <1>1, NothingTyped DEF LoadMine, TypeOK

LEMMA BoardTyped ==
  ASSUME board \in [MemoireIds -> [statut : Statuts, note : Notes \cup {Null}]],
         \/ Board!Next
         \/ \E id \in MemoireIds : Board!Submit(id)
         \/ \E S \in SUBSET MemoireIds : Board!Withdraw(S)
  PROVE  board' \in [MemoireIds -> [statut : Statuts, note : Notes \cup {Null}]]
  <1>1. ASSUME NEW s \in Statuts, NEW n \in Notes \cup {Null}
        PROVE  Board!Entry(s, n) \in [statut : Statuts, note : Notes \cup {Null}]
    BY DEF Board!Entry
  <1>2. {"Delivre", "Valide", "Rejete", "Retire"} \subseteq Statuts
    BY DEF Statuts
  <1> QED
    BY <1>1, <1>2 DEF Board!Next, Board!Submit, Board!Approve, Board!Reject,
                      Board!Withdraw, Board!Withdrawn

LEMMA TypeStudent == TypeOK /\ Student => TypeOK'
  <1> SUFFICES ASSUME TypeOK, Student PROVE TypeOK'
    OBVIOUS
  <1> USE DEF TypeOK, page, form, history
  <1>1. ASSUME NEW open \in BOOLEAN, ShowForm(open) PROVE TypeOK'
    BY <1>1 DEF ShowForm
  <1>2. ASSUME NEW q \in Posts, OnSubmit(q) PROVE TypeOK'
    BY <1>2 DEF OnSubmit, Stages
  <1>3. ASSUME NEW row \in rows, ConfirmDelete(row) PROVE TypeOK'
    BY <1>3 DEF ConfirmDelete, Rows
  <1>4. CASE CloseDialog
    BY <1>4 DEF CloseDialog
  <1>5. ASSUME NEW d \in Deletes, DoDelete(d) PROVE TypeOK'
    BY <1>5 DEF DoDelete, Stages
  <1>6. ASSUME NEW part \in Parts, NEW content \in Contents \cup {Null},
               Fill(part, content)
        PROVE  TypeOK'
    BY <1>6 DEF Fill, Drafts
  <1> QED BY <1>1, <1>2, <1>3, <1>4, <1>5, <1>6 DEF Student

LEMMA TypeNetwork == TypeOK /\ Network => TypeOK'
  <1> SUFFICES ASSUME TypeOK, Network PROVE TypeOK'
    OBVIOUS
  <1> USE DEF page, form, history
  <1>1. ASSUME NEW l \in Loads, Answer(l) PROVE TypeOK'
    <2>1. loads' \in [Loads -> ListRequests]
      BY <1>1, MineTyped DEF Answer, TypeOK, ListRequests
    <2> QED BY <1>1, <2>1 DEF Answer, TypeOK
  <1>2. ASSUME NEW l \in Loads, Show(l) PROVE TypeOK'
    BY <1>2, NothingTyped DEF Show, TypeOK, ListRequests
  <1>3. ASSUME NEW l \in Loads, LoadFailed(l) PROVE TypeOK'
    BY <1>3, NothingTyped DEF LoadFailed, TypeOK
  <1>4. ASSUME NEW q \in Posts, NEW id \in MemoireIds, ApplyPost(q, id)
        PROVE  TypeOK'
    <2>1. posts' \in [Posts -> [stage : Stages, draft : Drafts]]
      BY <1>4 DEF ApplyPost, TypeOK, Stages
    <2>2. board' \in [MemoireIds -> [statut : Statuts, note : Notes \cup {Null}]]
      BY <1>4, BoardTyped DEF ApplyPost, TypeOK
    <2> QED BY <1>4, <2>1, <2>2 DEF ApplyPost, TypeOK
  <1>5. ASSUME NEW q \in Posts, NEW l \in Loads, PostDone(q, l) PROVE TypeOK'
    BY <1>5, LoadTyped, NothingTyped DEF PostDone, TypeOK
  <1>6. ASSUME NEW q \in Posts, PostFailed(q) PROVE TypeOK'
    BY <1>6, NothingTyped DEF PostFailed, TypeOK
  <1>7. ASSUME NEW d \in Deletes, ApplyDelete(d) PROVE TypeOK'
    <2>1. deletes' \in [Deletes -> [stage : Stages, id : MemoireIds \cup {Null}]]
      BY <1>7 DEF ApplyDelete, TypeOK, Stages
    <2>2. {deletes[d].id} \in SUBSET MemoireIds
      BY <1>7 DEF ApplyDelete, Board!Live
    <2>3. board' \in [MemoireIds -> [statut : Statuts, note : Notes \cup {Null}]]
      BY <1>7, <2>2, BoardTyped DEF ApplyDelete, TypeOK
    <2> QED BY <1>7, <2>1, <2>3 DEF ApplyDelete, TypeOK
  <1>8. ASSUME NEW d \in Deletes, NEW l \in Loads, DeleteDone(d, l)
        PROVE  TypeOK'
    BY <1>8, LoadTyped, NothingTyped DEF DeleteDone, TypeOK
  <1>9. ASSUME NEW d \in Deletes, DeleteFailed(d) PROVE TypeOK'
    BY <1>9, NothingTyped DEF DeleteFailed, TypeOK
  <1> QED
    BY <1>1, <1>2, <1>3, <1>4, <1>5, <1>6, <1>7, <1>8, <1>9 DEF Network

LEMMA TypeNext == TypeOK /\ [Next]_vars => TypeOK'
  <1> SUFFICES ASSUME TypeOK, [Next]_vars PROVE TypeOK'
    OBVIOUS
  <1>1. CASE Others
    BY <1>1, BoardTyped DEF Others, TypeOK, page, form
  <1>2. CASE UNCHANGED vars
    BY <1>2 DEF TypeOK, vars, page, form, history
  <1> QED BY <1>1, <1>2, TypeStudent, TypeNetwork DEF Next

\* The page, its form, its dialog and its requests keep their types.
THEOREM TypeCorrect == Spec => []TypeOK
  BY TypeInit, TypeNext, PTL DEF Spec

-----------------------------------------------------------------------------
(* One submission at a time.                                               *)

LEMMA OneSubmissionInit == Init => OneSubmission
  BY DEF Init, OneSubmission, Posting

LEMMA OneSubmissionNext == TypeOK /\ OneSubmission /\ [Next]_vars => OneSubmission'
  <1> SUFFICES ASSUME TypeOK, OneSubmission, [Next]_vars PROVE OneSubmission'
    OBVIOUS
  <1> USE DEF OneSubmission, Posting, TypeOK, form
  <1>1. CASE posts' = posts /\ saving' = saving
    BY <1>1
  <1>2. ASSUME NEW q \in Posts, OnSubmit(q) PROVE OneSubmission'
    <2>1. /\ posts'[q] # NoPost /\ \A p \in Posts \ {q} : posts'[p] = posts[p]
          /\ saving' /\ ~saving
      BY <1>2 DEF OnSubmit, NoPost
    <2> QED BY <2>1
  <1>3. ASSUME NEW q \in Posts, NEW id \in MemoireIds, ApplyPost(q, id)
        PROVE  OneSubmission'
    <2>1. /\ posts[q] # NoPost /\ posts'[q] # NoPost
          /\ \A p \in Posts \ {q} : posts'[p] = posts[p]
          /\ saving' = saving
      BY <1>3 DEF ApplyPost, NoPost, page
    <2> QED BY <2>1
  <1>4. ASSUME NEW q \in Posts, PostFailed(q) \/ \E l \in Loads : PostDone(q, l)
        PROVE  OneSubmission'
    <2>1. /\ posts[q] # NoPost /\ posts' = [posts EXCEPT ![q] = NoPost]
          /\ saving' = FALSE
      BY <1>4 DEF PostFailed, PostDone, NoPost
    <2> QED BY <2>1
  <1>5. CASE Student
    BY <1>1, <1>2, <1>5 DEF Student, ShowForm, Fill, ConfirmDelete, CloseDialog,
                            DoDelete, page
  <1>6. CASE Network
    BY <1>1, <1>3, <1>4, <1>6 DEF Network, Answer, Show, LoadFailed,
                                  ApplyDelete, DeleteDone, DeleteFailed, page
  <1>7. CASE Others \/ UNCHANGED vars
    BY <1>1, <1>7 DEF Others, vars, page
  <1> QED BY <1>5, <1>6, <1>7 DEF Next

\* However the form is closed and opened, the page never has two submissions
\* under way, and its flag is set exactly while it has one.
THEOREM OneSubmissionHolds == Spec => []OneSubmission
  BY OneSubmissionInit, OneSubmissionNext, TypeCorrect, PTL DEF Spec

LEMMA SentTwiceNext ==
  OneSubmission /\ NothingSentTwice /\ [Next]_vars => NothingSentTwice'
  <1> SUFFICES ASSUME OneSubmission, NothingSentTwice, [Next]_vars
               PROVE  NothingSentTwice'
    OBVIOUS
  <1> USE DEF NothingSentTwice
  <1>1. CASE UNCHANGED <<saving, taken, doubtful>>
    BY <1>1
  <1>2. ASSUME NEW q \in Posts, OnSubmit(q) \/ PostFailed(q) PROVE NothingSentTwice'
    BY <1>2 DEF OnSubmit, PostFailed
  <1>3. ASSUME NEW q \in Posts, NEW id \in MemoireIds, ApplyPost(q, id)
        PROVE  NothingSentTwice'
    <2>1. saving
      <3>1. Posting # {}
        BY <1>3 DEF ApplyPost, Posting, NoPost
      <3> QED BY <3>1, Zenon DEF OneSubmission
    <2>2. saving' = saving
      BY <1>3 DEF ApplyPost, page, form
    <2> QED BY <2>1, <2>2
  <1>4. ASSUME NEW q \in Posts, NEW l \in Loads, PostDone(q, l)
        PROVE  NothingSentTwice'
    BY <1>4 DEF PostDone
  <1>5. ASSUME NEW part \in Parts, NEW content \in Contents \cup {Null},
               Fill(part, content)
        PROVE  NothingSentTwice'
    BY <1>5 DEF Fill
  <1>6. CASE Student
    BY <1>1, <1>2, <1>5, <1>6 DEF Student, ShowForm, ConfirmDelete, CloseDialog,
                                  DoDelete, page, form, history
  <1>7. CASE Network
    BY <1>1, <1>2, <1>3, <1>4, <1>7 DEF Network, Answer, Show, LoadFailed,
                        ApplyDelete, DeleteDone, DeleteFailed, page, form, history
  <1>8. CASE Others \/ UNCHANGED vars
    BY <1>1, <1>8 DEF Others, vars, page, form, history
  <1> QED BY <1>6, <1>7, <1>8 DEF Next

\* Whatever is typed while a submission is under way, and however often the form
\* is opened, only an error makes a student submit again what the server has.
THEOREM NothingSentTwiceHolds == Spec => []NothingSentTwice
  <1>1. Init => NothingSentTwice
    BY DEF Init, NothingSentTwice
  <1> QED BY <1>1, SentTwiceNext, OneSubmissionHolds, PTL DEF Spec

-----------------------------------------------------------------------------
(* The list.                                                               *)

\* Nothing has changed the board behind the back of the latest list request.
Settled ==
  /\ ~unseen
  /\ \A q \in Posts : posts[q].stage # "applied"
  /\ \A d \in Deletes : deletes[d].stage # "applied"

\* The answer to the latest list request, and the list that shows it, are what
\* the server would answer now.
ListInv ==
  /\ \A l \in Loads : loads[l].latest => ~current
  /\ \A l, k \in Loads : loads[l].latest /\ loads[k].latest => l = k
  /\ Settled => \A l \in Loads :
       loads[l].latest /\ loads[l].stage = "answered" => loads[l].rows = Mine
  /\ current => ~loading
  /\ Settled /\ current => rows = Mine

LEMMA ListInit == Init => ListInv
  BY DEF Init, ListInv, Sent, NoLoad

\* loadMine() makes its own request the only latest one; none is answered.
LEMMA ListAfterLoad ==
  ASSUME TypeOK, NEW l \in Loads, LoadMine(l)
  PROVE  ListInv'
  <1>1. loads'[l].latest /\ loads'[l].stage = "sent"
    BY DEF LoadMine, Sent, NoLoad
  <1>2. \A k \in Loads \ {l} : ~loads'[k].latest
    BY DEF LoadMine, TypeOK, ListRequests
  <1> QED BY <1>1, <1>2 DEF LoadMine, ListInv

\* A step that leaves the list alone, and changes the board only where the
\* latest request may have missed it, preserves the invariant.
LEMMA ListFrame ==
  ASSUME ListInv, UNCHANGED <<rows, loading, loads, current>>,
         Settled' => Settled /\ board' = board
  PROVE  ListInv'
  <1>1. Settled' => Mine' = Mine
    BY DEF Mine, Board!Live
  <1> QED BY <1>1 DEF ListInv

LEMMA ListNext == TypeOK /\ ListInv /\ [Next]_vars => ListInv'
  <1> SUFFICES ASSUME TypeOK, ListInv, [Next]_vars PROVE ListInv'
    OBVIOUS
  <1>1. ASSUME NEW l \in Loads, Answer(l) PROVE ListInv'
    <2>1. /\ loads'[l].latest = loads[l].latest /\ loads'[l].rows = Mine
          /\ \A k \in Loads \ {l} : loads'[k] = loads[k]
      BY <1>1 DEF Answer, TypeOK, ListRequests
    <2>2. UNCHANGED <<board, rows, loading, posts, deletes, current>>
      BY <1>1 DEF Answer, page, form
    <2>3. Mine' = Mine
      BY <2>2 DEF Mine, Board!Live
    <2>4. loads[l].latest \/ (Settled' => Settled)
      BY <1>1, <2>2 DEF Answer, Settled
    <2> QED BY <2>1, <2>2, <2>3, <2>4 DEF ListInv
  <1>2. ASSUME NEW l \in Loads, Show(l) \/ LoadFailed(l) PROVE ListInv'
    <2>1. ~loads'[l].latest /\ \A k \in Loads \ {l} : loads'[k] = loads[k]
      BY <1>2 DEF Show, LoadFailed, TypeOK, NoLoad
    <2>2. UNCHANGED <<board, posts, deletes, unseen>> /\ ~loading'
      BY <1>2 DEF Show, LoadFailed, form, history
    <2>3. Mine' = Mine /\ (Settled' <=> Settled)
      BY <2>2 DEF Mine, Board!Live, Settled
    <2>4. \/ UNCHANGED <<rows, current>>
          \/ /\ loads[l].stage = "answered"
             /\ rows' = loads[l].rows /\ current' = loads[l].latest
      BY <1>2 DEF Show, LoadFailed, form, history
    <2> QED BY <2>1, <2>2, <2>3, <2>4 DEF ListInv
  <1>3. ASSUME \/ \E q \in Posts : PostFailed(q) \/ OnSubmit(q)
               \/ \E d \in Deletes : DeleteFailed(d) \/ DoDelete(d)
        PROVE  ListInv'
    <2>1. Settled' => Settled /\ board' = board
      <3>1. ASSUME NEW q \in Posts, PostFailed(q)
            PROVE  Settled' => Settled /\ board' = board
        BY <3>1 DEF PostFailed, Settled, TypeOK, NoPost
      <3>2. ASSUME NEW q \in Posts, OnSubmit(q)
            PROVE  Settled' => Settled /\ board' = board
        BY <3>2 DEF OnSubmit, Settled, TypeOK, NoPost, history
      <3>3. ASSUME NEW d \in Deletes, DeleteFailed(d)
            PROVE  Settled' => Settled /\ board' = board
        BY <3>3 DEF DeleteFailed, Settled, TypeOK, page, form
      <3>4. ASSUME NEW d \in Deletes, DoDelete(d)
            PROVE  Settled' => Settled /\ board' = board
        BY <3>4 DEF DoDelete, Settled, TypeOK, NoCall, history
      <3> QED BY <1>3, <3>1, <3>2, <3>3, <3>4
    <2>2. UNCHANGED <<rows, loading, loads, current>>
      BY <1>3 DEF PostFailed, OnSubmit, DeleteFailed, DoDelete, page, history
    <2> QED BY <2>1, <2>2, ListFrame
  <1>4. ASSUME \/ \E q \in Posts, id \in MemoireIds : ApplyPost(q, id)
               \/ \E d \in Deletes : ApplyDelete(d)
        PROVE  ListInv'
    <2>1. ~Settled'
      <3>1. ASSUME NEW q \in Posts, NEW id \in MemoireIds, ApplyPost(q, id)
            PROVE  ~Settled'
        BY <3>1 DEF ApplyPost, TypeOK, Stages, Settled
      <3>2. ASSUME NEW d \in Deletes, ApplyDelete(d) PROVE ~Settled'
        BY <3>2 DEF ApplyDelete, TypeOK, Stages, Settled
      <3> QED BY <1>4, <3>1, <3>2
    <2>2. UNCHANGED <<rows, loading, loads, current>>
      BY <1>4 DEF ApplyPost, ApplyDelete, page, history
    <2> QED BY <2>1, <2>2, ListFrame
  <1>5. ASSUME NEW l \in Loads,
               \/ \E q \in Posts : PostDone(q, l)
               \/ \E d \in Deletes : DeleteDone(d, l)
        PROVE  ListInv'
    BY <1>5, ListAfterLoad DEF PostDone, DeleteDone
  <1>6. CASE Network
    BY <1>1, <1>2, <1>3, <1>4, <1>5, <1>6 DEF Network
  <1>7. CASE UNCHANGED <<board, rows, loading, loads, posts, deletes, current,
                         unseen>>
    BY <1>7, ListFrame DEF Settled
  <1>8. CASE Student
    BY <1>3, <1>7, <1>8 DEF Student, ShowForm, Fill, ConfirmDelete,
                                CloseDialog, history
  <1>9. CASE Others
    BY <1>9, ListFrame DEF Others, Settled, page
  <1>10. CASE UNCHANGED vars
    BY <1>7, <1>10 DEF vars, page, history
  <1> QED BY <1>6, <1>8, <1>9, <1>10 DEF Next

\* When every reply has come, in whatever order, the list is what the server
\* would answer, the student's own submissions and deletions included.
THEOREM ListFaithfulHolds == Spec => []ListFaithful
  <1>1. TypeOK /\ ListInv => ListFaithful
    BY DEF ListInv, ListFaithful, AtRest, Settled, Posting, NoPost, NoCall, TypeOK
  <1> QED BY <1>1, ListInit, ListNext, TypeCorrect, PTL DEF Spec
-----------------------------------------------------------------------------
(* Loading.                                                                *)

LEMMA AwaitedNext == TypeOK /\ LoadingAwaited /\ [Next]_vars => LoadingAwaited'
  <1> SUFFICES ASSUME TypeOK, LoadingAwaited, [Next]_vars PROVE LoadingAwaited'
    OBVIOUS
  <1> USE DEF LoadingAwaited
  <1>1. CASE UNCHANGED <<loading, loads>>
    BY <1>1
  <1>2. ASSUME NEW l \in Loads, LoadMine(l) PROVE LoadingAwaited'
    BY <1>2 DEF LoadMine, Sent, NoLoad
  <1>3. ASSUME NEW l \in Loads, Answer(l) PROVE LoadingAwaited'
    <2>1. loads'[l].stage = "answered"
      BY <1>3 DEF Answer, TypeOK, ListRequests
    <2> QED BY <2>1 DEF NoLoad
  <1>4. ASSUME NEW l \in Loads, Show(l) \/ LoadFailed(l) PROVE LoadingAwaited'
    BY <1>4 DEF Show, LoadFailed
  <1>5. CASE Student
    BY <1>1, <1>5 DEF Student, ShowForm, Fill, OnSubmit, ConfirmDelete,
                      CloseDialog, DoDelete, page
  <1>6. CASE Network
    BY <1>1, <1>2, <1>3, <1>4, <1>6
       DEF Network, ApplyPost, PostDone, PostFailed, ApplyDelete, DeleteDone,
           DeleteFailed, page
  <1>7. CASE Others \/ UNCHANGED vars
    BY <1>1, <1>7 DEF Others, vars, page
  <1> QED BY <1>5, <1>6, <1>7 DEF Next

\* While the list is loading there is a request whose end will stop it: what
\* LoadingEnds asks of the handlers, as distinct from the network.
THEOREM LoadingAwaitedHolds == Spec => []LoadingAwaited
  <1>1. ASSUME Init PROVE LoadingAwaited
    <2>1. PICK l \in Loads :
            loads = [k \in Loads |-> IF k = l THEN Sent ELSE NoLoad]
      BY <1>1 DEF Init
    <2>2. loads[l] = Sent /\ Sent # NoLoad
      BY <2>1 DEF Sent, NoLoad
    <2> QED BY <2>2 DEF LoadingAwaited
  <1> QED BY <1>1, AwaitedNext, TypeCorrect, PTL DEF Spec
=============================================================================
