--------------------------- MODULE MemoiresProofs ---------------------------
(***************************************************************************)
(* Proofs about Memoires, for any sets of users, mémoires, objects, notes  *)
(* and request slots.                                                      *)
(***************************************************************************)
EXTENDS Memoires, TLAPS

LEMMA IdleTyped == Idle \in Request /\ StageOK(Idle)
  BY DEF Idle, Request, PCs, StageOK

LEMMA TypeInit == Init => TypeOK
  <1> SUFFICES ASSUME Init PROVE TypeOK
    OBVIOUS
  <1>1. /\ req \in [Requests -> Request]
        /\ \A r \in Requests : StageOK(req[r])
    BY IdleTyped DEF Init
  <1> QED
    BY <1>1 DEF Init, TypeOK

\* A step that replaces one request's record by one of the right type, and
\* keeps the tables and the store typed, keeps TypeOK.
LEMMA TypeOfStep ==
  ASSUME TypeOK, NEW r \in Requests, NEW q,
         Become(r, q), q \in Request, StageOK(q),
         users' \subseteq Users,
         memoires' \in [MemoireIds -> Row \cup {Null}],
         used' \subseteq MemoireIds,
         bucket' \in BOOLEAN,
         objects' \in [Keys -> Users \cup {Null}],
         stale' \subseteq MemoireIds
  PROVE  TypeOK'
  <1>1. req' \in [Requests -> Request]
    BY DEF TypeOK, Become
  <1>2. \A s \in Requests : StageOK(req'[s])
    BY DEF TypeOK, Become
  <1>3. \A s \in Requests : StageOK(req[s])'
    BY <1>2 DEF StageOK
  <1> QED
    BY <1>1, <1>3 DEF TypeOK

-----------------------------------------------------------------------------
(* Type correctness, one lemma per group of actions.                       *)

LEMMA TypePipeline ==
  ASSUME TypeOK, NEW r \in Requests,
         \/ \E u \in Users : Arrive(r, u)
         \/ Provision(r) \/ ProvisionRefused(r) \/ Fail(r)
  PROVE  TypeOK'
  <1> USE DEF TypeOK, Database, Storage, At, Goto, End
  <1>1. ASSUME NEW u \in Users, Arrive(r, u) PROVE TypeOK'
    <2> DEFINE q == [req[r] EXCEPT !.user = u,
                                   !.pc = IF u \in users THEN "ready"
                                                         ELSE "provision"]
    <2>1. q \in Request /\ StageOK(q)
      BY DEF Request, PCs, StageOK
    <2> QED
      BY <1>1, <2>1, TypeOfStep DEF Arrive
  <1>2. CASE Provision(r)
    BY <1>2, TypeOfStep DEF Provision, Request, PCs, StageOK
  <1>3. CASE ProvisionRefused(r)
    BY <1>3, TypeOfStep DEF ProvisionRefused, Request, PCs, StageOK
  <1>4. CASE Fail(r)
    BY <1>4, IdleTyped, TypeOfStep DEF Fail
  <1> QED BY <1>1, <1>2, <1>3, <1>4

LEMMA TypeCreate ==
  ASSUME TypeOK, NEW r \in Requests,
         \/ CreateWithoutFile(r) \/ CreateWithFile(r) \/ PutBucket(r)
         \/ \E k \in Keys : PutObject(r, k)
         \/ CacheKey(r)
         \/ \E id \in MemoireIds : InsertMemoire(r, id)
         \/ InsertRefused(r)
  PROVE  TypeOK'
  <1> USE DEF TypeOK, Database, Storage, At, Goto, End
  <1>1. CASE CreateWithoutFile(r)
    BY <1>1, TypeOfStep DEF CreateWithoutFile, Request, PCs, StageOK
  <1>2. CASE CreateWithFile(r)
    BY <1>2, TypeOfStep DEF CreateWithFile, Request, PCs, StageOK
  <1>3. CASE PutBucket(r)
    BY <1>3, TypeOfStep DEF PutBucket, Request, PCs, StageOK
  <1>4. ASSUME NEW k \in Keys, PutObject(r, k) PROVE TypeOK'
    <2> DEFINE q == [req[r] EXCEPT !.pc = "cache", !.key = k]
    <2>1. q \in Request /\ StageOK(q)
      BY <1>4 DEF Request, PCs, StageOK, PutObject
    <2> QED
      BY <1>4, <2>1, TypeOfStep DEF PutObject, StageOK
  <1>5. CASE CacheKey(r)
    BY <1>5, TypeOfStep DEF CacheKey, Request, PCs, StageOK
  <1>6. ASSUME NEW id \in MemoireIds, InsertMemoire(r, id) PROVE TypeOK'
    <2>1. NewMemoire(r) \in Row
      BY <1>6 DEF InsertMemoire, NewMemoire, Row, Review, Statuts, Request,
                  StageOK
    <2> QED
      BY <1>6, <2>1, IdleTyped, TypeOfStep DEF InsertMemoire
  <1>7. CASE InsertRefused(r)
    BY <1>7, IdleTyped, TypeOfStep DEF InsertRefused
  <1> QED BY <1>1, <1>2, <1>3, <1>4, <1>5, <1>6, <1>7

\* An UPDATE stores in each column either what is there or what was assigned.
LEMMA MergedReviewTyped ==
  ASSUME NEW stored \in Review, NEW read \in Review, NEW new \in Review
  PROVE  /\ MergedReview(stored, read, new) \in Review
         /\ stored = read => MergedReview(stored, read, new) = new
  BY DEF MergedReview, Column, Review

LEMMA TypeReview ==
  ASSUME TypeOK, NEW r \in Requests,
         \/ \E id \in MemoireIds : Valider(r, id)
         \/ \E id \in MemoireIds, n \in Notes : Rejeter(r, id, n)
         \/ SaveReview(r) \/ SaveMissed(r)
  PROVE  TypeOK'
  <1> USE DEF TypeOK, Database, Storage, At, Goto, End
  <1>1. ASSUME NEW id \in MemoireIds, NEW new \in Review,
               FindForReview(r, id, new)
        PROVE  TypeOK'
    <2> DEFINE q == [req[r] EXCEPT !.pc = "review", !.id = id,
                                   !.read = memoires[id].review, !.new = new]
    <2>1. CASE id \in Rows
      <3>1. memoires[id].review \in Review
        BY <2>1 DEF Rows, Row
      <3>2. q \in Request /\ StageOK(q)
        BY <1>1, <3>1 DEF Request, PCs, StageOK, FindForReview
      <3> QED
        BY <1>1, <2>1, <3>2, TypeOfStep DEF FindForReview
    <2>2. CASE id \notin Rows
      BY <1>1, <2>2, IdleTyped, TypeOfStep DEF FindForReview
    <2> QED BY <2>1, <2>2
  <1>2. ASSUME NEW id \in MemoireIds, Valider(r, id) PROVE TypeOK'
    BY <1>1, <1>2 DEF Valider, Review, Statuts
  <1>3. ASSUME NEW id \in MemoireIds, NEW n \in Notes, Rejeter(r, id, n)
        PROVE  TypeOK'
    BY <1>1, <1>3 DEF Rejeter, Review, Statuts
  <1>4. CASE SaveReview(r)
    <2> DEFINE id == req[r].id
               m  == MergedReview(memoires[id].review, req[r].read, req[r].new)
    <2>1. id \in MemoireIds /\ req[r].read \in Review /\ req[r].new \in Review
      BY <1>4 DEF SaveReview, StageOK
    <2>2. memoires[id] \in Row
      BY <1>4 DEF SaveReview, Rows
    <2>3. m \in Review
      BY <2>1, <2>2, MergedReviewTyped DEF Row
    <2>4. memoires' \in [MemoireIds -> Row \cup {Null}]
      BY <1>4, <2>2, <2>3 DEF SaveReview, Row
    <2> QED
      BY <1>4, <2>1, <2>4, IdleTyped, TypeOfStep DEF SaveReview
  <1>5. CASE SaveMissed(r)
    BY <1>5, IdleTyped, TypeOfStep DEF SaveMissed
  <1> QED BY <1>2, <1>3, <1>4, <1>5

LEMMA TypeDelete ==
  ASSUME TypeOK, NEW r \in Requests,
         (\E id \in MemoireIds : FindForDelete(r, id)) \/ Remove(r)
  PROVE  TypeOK'
  <1> USE DEF TypeOK, Database, Storage, At, Goto, End
  <1>1. ASSUME NEW id \in MemoireIds, FindForDelete(r, id) PROVE TypeOK'
    <2> DEFINE q == [req[r] EXCEPT !.pc = "remove", !.id = id]
    <2>1. q \in Request /\ StageOK(q)
      BY <1>1 DEF Request, PCs, StageOK, FindForDelete
    <2> QED
      BY <1>1, <2>1, IdleTyped, TypeOfStep DEF FindForDelete
  <1>2. CASE Remove(r)
    BY <1>2, IdleTyped, TypeOfStep DEF Remove
  <1> QED BY <1>1, <1>2

LEMMA TypeNext == TypeOK /\ [Next]_vars => TypeOK'
  <1> SUFFICES ASSUME TypeOK, [Next]_vars PROVE TypeOK'
    OBVIOUS
  <1>1. ASSUME NEW r \in Requests, Step(r) PROVE TypeOK'
    BY <1>1, TypePipeline, TypeCreate, TypeReview, TypeDelete DEF Step
  <1>2. ASSUME NEW u \in Users, DeleteUser(u) PROVE TypeOK'
    BY <1>2 DEF TypeOK, DeleteUser, Storage
  <1>3. CASE UNCHANGED vars
    BY <1>3 DEF TypeOK, vars
  <1> QED BY <1>1, <1>2, <1>3 DEF Next

\* Every variable of the mémoires API keeps its type, for any number of users,
\* mémoires and concurrent requests.
THEOREM TypeCorrect == Spec => []TypeOK
  BY TypeInit, TypeNext, PTL DEF Spec

-----------------------------------------------------------------------------
(* The tables.                                                             *)

\* Only five steps of a request touch the tables.
LEMMA TableSteps ==
  ASSUME NEW r \in Requests, Step(r)
  PROVE  \/ Provision(r)
         \/ \E id \in MemoireIds : InsertMemoire(r, id)
         \/ SaveReview(r)
         \/ Remove(r)
         \/ UNCHANGED Database
  BY DEF Step, Arrive, ProvisionRefused, CreateWithoutFile, CreateWithFile,
         PutBucket, PutObject, CacheKey, InsertRefused, Valider, Rejeter,
         FindForReview, SaveMissed, FindForDelete, Fail, Database

LEMMA OwnerNext == TypeOK /\ OwnerPresent /\ [Next]_vars => OwnerPresent'
  <1> SUFFICES ASSUME TypeOK, OwnerPresent, [Next]_vars PROVE OwnerPresent'
    OBVIOUS
  <1> USE DEF TypeOK, OwnerPresent, Rows
  <1>1. ASSUME NEW r \in Requests, Step(r) PROVE OwnerPresent'
    <2>1. CASE Provision(r)
      BY <2>1 DEF Provision
    <2>2. ASSUME NEW id \in MemoireIds, InsertMemoire(r, id)
          PROVE  OwnerPresent'
      BY <2>2 DEF InsertMemoire, NewMemoire, OwnerRowExists
    <2>3. CASE SaveReview(r)
      BY <2>3 DEF SaveReview, Row
    <2>4. CASE Remove(r)
      BY <2>4 DEF Remove
    <2>5. CASE UNCHANGED Database
      BY <2>5 DEF Database
    <2> QED BY <1>1, <2>1, <2>2, <2>3, <2>4, <2>5, TableSteps
  <1>2. ASSUME NEW u \in Users, DeleteUser(u) PROVE OwnerPresent'
    BY <1>2 DEF DeleteUser
  <1>3. CASE UNCHANGED vars
    BY <1>3 DEF vars
  <1> QED BY <1>1, <1>2, <1>3 DEF Next

\* The foreign key and its cascade keep every mémoire attached to an existing
\* profile, whatever requests are in progress when a profile is deleted.
THEOREM OwnerAlwaysPresent == Spec => []OwnerPresent
  <1>1. Init => OwnerPresent
    BY DEF Init, OwnerPresent, Rows
  <1> QED BY <1>1, OwnerNext, TypeCorrect, PTL DEF Spec

\* A row that is gone stays gone: no step writes a Null entry of a used id.
THEOREM NeverResurrectedHolds == Spec => NeverResurrected
  <1>1. TypeOK /\ [Next]_vars
          => [\A id \in used \ Rows : memoires'[id] = Null]_vars
    <2> SUFFICES ASSUME TypeOK, Next, NEW id \in used \ Rows
                 PROVE  memoires'[id] = Null
      OBVIOUS
    <2> USE DEF TypeOK, Rows
    <2>1. ASSUME NEW r \in Requests, Step(r) PROVE memoires'[id] = Null
      BY <2>1, TableSteps
      DEF Provision, InsertMemoire, SaveReview, Remove, Database
    <2>2. ASSUME NEW u \in Users, DeleteUser(u) PROVE memoires'[id] = Null
      BY <2>2 DEF DeleteUser
    <2> QED BY <2>1, <2>2 DEF Next
  <1> QED BY <1>1, TypeCorrect, PTL DEF Spec, NeverResurrected

-----------------------------------------------------------------------------
(* Decisions.                                                              *)

\* Every review in progress is about to assign a status and a note that agree.
SavesConsistent ==
  \A r \in Requests : req[r].pc = "review" => Consistent(req[r].new)

ReviewInv == ReviewConsistent /\ SavesConsistent

\* A step that leaves the table of mémoires alone, and gives r a record that
\* is consistent if it is a review's, keeps the invariant.
LEMMA ReviewOfStep ==
  ASSUME TypeOK, ReviewInv, NEW r \in Requests, NEW q, Become(r, q),
         q.pc = "review" => Consistent(q.new),
         UNCHANGED <<memoires, stale>>
  PROVE  ReviewInv'
  BY DEF TypeOK, ReviewInv, ReviewConsistent, SavesConsistent, Rows, Become,
         Consistent

LEMMA ReviewNext == TypeOK /\ ReviewInv /\ [Next]_vars => ReviewInv'
  <1> SUFFICES ASSUME TypeOK, ReviewInv, [Next]_vars PROVE ReviewInv'
    OBVIOUS
  <1>0. Idle.pc # "review"
    BY DEF Idle
  <1>1. ASSUME NEW r \in Requests, Step(r) PROVE ReviewInv'
    <2> USE DEF Database, Storage, At, Goto, End
    <2>1. ASSUME NEW u \in Users, Arrive(r, u) PROVE ReviewInv'
      <3> DEFINE q == [req[r] EXCEPT !.user = u,
                                     !.pc = IF u \in users THEN "ready"
                                                           ELSE "provision"]
      <3>1. q.pc # "review"
        BY DEF TypeOK, Request
      <3> QED BY <2>1, <3>1, ReviewOfStep DEF Arrive
    <2>2. CASE \/ Provision(r) \/ ProvisionRefused(r)
               \/ CreateWithoutFile(r) \/ CreateWithFile(r)
               \/ PutBucket(r) \/ CacheKey(r)
      <3> DEFINE Q(pc) == [req[r] EXCEPT !.pc = pc]
      <3>1. PICK pc \in {"ready", "insert", "put", "mkbucket"} :
              Become(r, Q(pc)) /\ UNCHANGED <<memoires, stale>>
        BY <2>2 DEF Provision, ProvisionRefused, CreateWithoutFile,
                    CreateWithFile, PutBucket, CacheKey
      <3>2. Q(pc).pc # "review"
        BY DEF TypeOK, Request
      <3> QED BY <3>1, <3>2, ReviewOfStep
    <2>3. ASSUME NEW k \in Keys, PutObject(r, k) PROVE ReviewInv'
      <3> DEFINE q == [req[r] EXCEPT !.pc = "cache", !.key = k]
      <3>1. q.pc # "review"
        BY DEF TypeOK, Request
      <3> QED BY <2>3, <3>1, ReviewOfStep DEF PutObject
    <2>4. CASE Fail(r) \/ InsertRefused(r) \/ SaveMissed(r)
      BY <1>0, <2>4, ReviewOfStep DEF Fail, InsertRefused, SaveMissed
    <2>5. ASSUME NEW id \in MemoireIds, InsertMemoire(r, id) PROVE ReviewInv'
      BY <1>0, <2>5
      DEF TypeOK, ReviewInv, ReviewConsistent, SavesConsistent, Rows, Become,
          Consistent, InsertMemoire, NewMemoire
    <2>6. ASSUME NEW id \in MemoireIds, NEW new, Consistent(new),
                 FindForReview(r, id, new)
          PROVE  ReviewInv'
      <3> DEFINE q == [req[r] EXCEPT !.pc = "review", !.id = id,
                                     !.read = memoires[id].review, !.new = new]
      <3>1. q.new = new
        BY DEF TypeOK, Request
      <3> QED BY <1>0, <2>6, <3>1, ReviewOfStep DEF FindForReview
    <2>7. ASSUME NEW id \in MemoireIds, Valider(r, id) PROVE ReviewInv'
      BY <2>6, <2>7 DEF Valider, Consistent
    <2>8. ASSUME NEW id \in MemoireIds, NEW n \in Notes, Rejeter(r, id, n)
          PROVE  ReviewInv'
      BY <2>6, <2>8 DEF Rejeter, Consistent
    <2>9. CASE SaveReview(r)
      <3> DEFINE id == req[r].id
                 m  == MergedReview(memoires[id].review, req[r].read,
                                    req[r].new)
      <3>1. /\ id \in MemoireIds /\ memoires[id] \in Row
            /\ req[r].read \in Review /\ req[r].new \in Review
            /\ Consistent(req[r].new)
        BY <2>9 DEF SaveReview, TypeOK, StageOK, Rows, ReviewInv,
                    SavesConsistent
      <3>2. /\ memoires'[id].review = m
            /\ \A other \in MemoireIds \ {id} :
                  memoires'[other] = memoires[other]
        BY <2>9, <3>1 DEF SaveReview, TypeOK, Row
      <3>3. id \notin stale' => Consistent(m)
        BY <2>9, <3>1, MergedReviewTyped DEF SaveReview, Row
      <3>4. \A other \in MemoireIds \ {id} : other \in stale <=> other \in stale'
        BY <2>9 DEF SaveReview
      <3>5. ReviewConsistent'
        BY <3>1, <3>2, <3>3, <3>4
        DEF ReviewInv, ReviewConsistent, Rows, Consistent
      <3>6. SavesConsistent'
        BY <1>0, <2>9 DEF TypeOK, ReviewInv, SavesConsistent, SaveReview, Become,
                          Consistent
      <3> QED BY <3>5, <3>6 DEF ReviewInv
    <2>10. ASSUME NEW id \in MemoireIds, FindForDelete(r, id) PROVE ReviewInv'
      <3> DEFINE q == [req[r] EXCEPT !.pc = "remove", !.id = id]
      <3>1. q.pc # "review"
        BY DEF TypeOK, Request
      <3> QED BY <1>0, <2>10, <3>1, ReviewOfStep DEF FindForDelete
    <2>11. CASE Remove(r)
      BY <1>0, <2>11
      DEF TypeOK, ReviewInv, ReviewConsistent, SavesConsistent, Rows, Become,
          Consistent, Remove
    <2> QED BY <1>1, <2>1, <2>2, <2>3, <2>4, <2>5, <2>7, <2>8, <2>9, <2>10,
               <2>11 DEF Step
  <1>2. ASSUME NEW u \in Users, DeleteUser(u) PROVE ReviewInv'
    BY <1>2 DEF TypeOK, ReviewInv, ReviewConsistent, SavesConsistent, Rows,
                Consistent, DeleteUser
  <1>3. CASE UNCHANGED vars
    BY <1>3 DEF vars, ReviewInv, ReviewConsistent, SavesConsistent, Rows,
                Consistent
  <1> QED BY <1>1, <1>2, <1>3 DEF Next

\* Status and note can only disagree in a mémoire whose last review saved over
\* a change it had not read, for any number of concurrent administrators.
THEOREM ReviewsConsistent == Spec => []ReviewConsistent
  <1>1. Init => ReviewInv
    BY DEF Init, Idle, ReviewInv, ReviewConsistent, SavesConsistent, Rows
  <1>2. ReviewInv => ReviewConsistent
    BY DEF ReviewInv
  <1> QED BY <1>1, <1>2, ReviewNext, TypeCorrect, PTL DEF Spec

-----------------------------------------------------------------------------
(* Files.                                                                  *)

\* The object of an upload in progress is its user's, and no other request's.
UploadsPrivate ==
  \A r \in Requests : req[r].key # Null =>
    /\ req[r].pc \in {"cache", "insert"}
    /\ objects[req[r].key] = req[r].user
    /\ \A s \in Requests \ {r} : req[s].key # req[r].key

FileInv == FileFaithful /\ UploadsPrivate

\* The owner and the file of a mémoire never change while it has a row.
KeepsFiles ==
  \A id \in Rows' : /\ id \in Rows
                    /\ memoires'[id].owner = memoires[id].owner
                    /\ memoires'[id].file = memoires[id].file

\* A step that uploads nothing, inserts no mémoire, and lets the request
\* either keep its object and stay in the upload or forget it.
LEMMA FileOfStep ==
  ASSUME TypeOK, FileInv, NEW r \in Requests, NEW q, Become(r, q),
         q.key # Null => /\ q.key = req[r].key /\ q.user = req[r].user
                         /\ q.pc \in {"cache", "insert"},
         KeepsFiles, UNCHANGED objects
  PROVE  FileInv'
  <1> USE DEF TypeOK, Become
  <1>1. FileFaithful'
    BY DEF FileInv, FileFaithful, KeepsFiles
  <1>2. UploadsPrivate'
    BY DEF FileInv, UploadsPrivate
  <1> QED BY <1>1, <1>2 DEF FileInv

LEMMA FileNext == TypeOK /\ FileInv /\ [Next]_vars => FileInv'
  <1> SUFFICES ASSUME TypeOK, FileInv, [Next]_vars PROVE FileInv'
    OBVIOUS
  <1>0. Idle.key = Null
    BY DEF Idle
  <1>1. ASSUME NEW r \in Requests, Step(r) PROVE FileInv'
    <2> USE DEF Database, Storage, At, Goto, End
    <2>0. /\ req[r] \in Request
          /\ req[r].pc \notin {"cache", "insert"} => req[r].key = Null
      BY DEF TypeOK, FileInv, UploadsPrivate
    <2>1. ASSUME NEW u \in Users, Arrive(r, u) PROVE FileInv'
      <3> DEFINE q == [req[r] EXCEPT !.user = u,
                                     !.pc = IF u \in users THEN "ready"
                                                           ELSE "provision"]
      <3>1. q.key = Null
        BY <2>0, <2>1 DEF Arrive, Request
      <3> QED BY <2>1, <3>1, FileOfStep DEF Arrive, KeepsFiles, Rows
    <2>2. CASE \/ Provision(r) \/ ProvisionRefused(r)
               \/ CreateWithoutFile(r) \/ CreateWithFile(r) \/ PutBucket(r)
      <3> DEFINE Q(pc) == [req[r] EXCEPT !.pc = pc]
      <3>1. PICK pc \in {"ready", "insert", "put", "mkbucket"} :
              Become(r, Q(pc)) /\ UNCHANGED <<memoires, objects>>
        BY <2>2 DEF Provision, ProvisionRefused, CreateWithoutFile,
                    CreateWithFile, PutBucket
      <3>2. Q(pc).key = Null
        BY <2>0, <2>2 DEF Request, Provision, ProvisionRefused,
                          CreateWithoutFile, CreateWithFile, PutBucket
      <3> QED BY <3>1, <3>2, FileOfStep DEF KeepsFiles, Rows
    <2>3. CASE CacheKey(r)
      <3> DEFINE q == [req[r] EXCEPT !.pc = "insert"]
      <3>1. q.key = req[r].key /\ q.user = req[r].user /\ q.pc = "insert"
        BY <2>0 DEF Request
      <3> QED BY <2>3, <3>1, FileOfStep DEF CacheKey, KeepsFiles, Rows
    <2>4. CASE Fail(r) \/ InsertRefused(r) \/ SaveMissed(r)
      BY <1>0, <2>4, FileOfStep
      DEF Fail, InsertRefused, SaveMissed, KeepsFiles, Rows
    <2>5. ASSUME NEW id \in MemoireIds, NEW new, FindForReview(r, id, new)
          PROVE  FileInv'
      <3> DEFINE q == [req[r] EXCEPT !.pc = "review", !.id = id,
                                     !.read = memoires[id].review, !.new = new]
      <3>1. q.key = Null
        BY <2>0, <2>5 DEF Request, FindForReview
      <3> QED BY <1>0, <2>5, <3>1, FileOfStep
              DEF FindForReview, KeepsFiles, Rows
    <2>6. CASE \/ \E id \in MemoireIds : Valider(r, id)
               \/ \E id \in MemoireIds, n \in Notes : Rejeter(r, id, n)
      BY <2>5, <2>6 DEF Valider, Rejeter
    <2>7. ASSUME NEW id \in MemoireIds, FindForDelete(r, id) PROVE FileInv'
      <3> DEFINE q == [req[r] EXCEPT !.pc = "remove", !.id = id]
      <3>1. q.key = Null
        BY <2>0, <2>7 DEF Request, FindForDelete
      <3> QED BY <1>0, <2>7, <3>1, FileOfStep
              DEF FindForDelete, KeepsFiles, Rows
    <2>8. CASE SaveReview(r)
      <3>1. req[r].id \in MemoireIds /\ memoires[req[r].id] \in Row
        BY <2>8 DEF SaveReview, TypeOK, StageOK, Rows
      <3>2. KeepsFiles
        BY <2>8, <3>1 DEF SaveReview, KeepsFiles, Rows, TypeOK, Row
      <3> QED BY <1>0, <2>8, <3>2, FileOfStep DEF SaveReview
    <2>9. CASE Remove(r)
      <3>1. KeepsFiles
        BY <2>9 DEF Remove, KeepsFiles, Rows, TypeOK
      <3> QED BY <1>0, <2>9, <3>1, FileOfStep DEF Remove
    <2>10. ASSUME NEW k \in Keys, PutObject(r, k) PROVE FileInv'
      <3> DEFINE q == [req[r] EXCEPT !.pc = "cache", !.key = k]
      <3>1. /\ q.key = k /\ q.user = req[r].user /\ q.pc = "cache"
            /\ req[r].user \in Users
        BY <2>0, <2>10 DEF Request, PutObject, TypeOK, StageOK
      <3>2. /\ objects[k] = Null /\ objects' = [objects EXCEPT ![k] = q.user]
            /\ req' = [req EXCEPT ![r] = q]
            /\ UNCHANGED memoires
        BY <2>10, <3>1 DEF PutObject, ObjectName, Become
      <3>3. /\ \A id \in Rows : memoires[id].file # k
            /\ \A s \in Requests : req[s].key # k
        <4>1. \A id \in Rows : memoires[id].owner # Null
          BY ConstantsAssumption DEF Rows, TypeOK, Row
        <4>2. \A s \in Requests : req[s].key # Null => req[s].user # Null
          BY ConstantsAssumption
          DEF TypeOK, StageOK, FileInv, UploadsPrivate
        <4> QED BY <3>2, <4>1, <4>2, ConstantsAssumption
                DEF FileInv, FileFaithful, UploadsPrivate
      <3>4. FileFaithful'
        BY <3>1, <3>2, <3>3 DEF FileInv, FileFaithful, Rows, TypeOK
      <3>5. UploadsPrivate'
        BY <3>1, <3>2, <3>3 DEF FileInv, UploadsPrivate, TypeOK
      <3> QED BY <3>4, <3>5 DEF FileInv
    <2>11. ASSUME NEW id \in MemoireIds, InsertMemoire(r, id) PROVE FileInv'
      <3>1. /\ memoires' = [memoires EXCEPT ![id] = NewMemoire(r)]
            /\ req' = [req EXCEPT ![r] = Idle]
            /\ UNCHANGED objects
        BY <2>11 DEF InsertMemoire, Become
      <3>2. /\ NewMemoire(r).owner = req[r].user
            /\ NewMemoire(r).file = req[r].key
        BY DEF NewMemoire
      <3>3. FileFaithful'
        BY <1>0, <3>1, <3>2
        DEF FileInv, FileFaithful, UploadsPrivate, Rows, TypeOK
      <3>4. UploadsPrivate'
        BY <1>0, <3>1 DEF FileInv, UploadsPrivate, TypeOK
      <3> QED BY <3>3, <3>4 DEF FileInv
    <2> QED BY <1>1, <2>1, <2>2, <2>3, <2>4, <2>6, <2>7, <2>8, <2>9, <2>10,
               <2>11 DEF Step
  <1>2. ASSUME NEW u \in Users, DeleteUser(u) PROVE FileInv'
    BY <1>2 DEF DeleteUser, FileInv, FileFaithful, UploadsPrivate, Rows,
                TypeOK, Storage
  <1>3. CASE UNCHANGED vars
    BY <1>3 DEF vars, FileInv, FileFaithful, UploadsPrivate, Rows
  <1> QED BY <1>1, <1>2, <1>3 DEF Next

\* No interleaving of uploads, aborted submissions, reviews and deletions makes
\* a mémoire name a missing object, another student's, or a shared one.
THEOREM FilesFaithful == Spec => []FileFaithful
  <1>1. Init => FileInv
    BY DEF Init, Idle, FileInv, FileFaithful, UploadsPrivate, Rows
  <1>2. FileInv => FileFaithful
    BY DEF FileInv
  <1> QED BY <1>1, <1>2, FileNext, TypeCorrect, PTL DEF Spec

-----------------------------------------------------------------------------
(* The board.                                                              *)

\* What a step of r does to the reviews in progress: only FindAsync on a row
\* begins one, in r, and leaves the tables alone.
LEMMA ReviewsUnderWay ==
  ASSUME TypeOK, NEW r \in Requests, Step(r)
  PROVE  /\ \A s \in Requests \ {r} : req'[s] = req[s]
         /\ \/ req'[r].pc # "review"
            \/ /\ UNCHANGED Database
               /\ r \in Reviewers
               /\ \E id \in Rows, new \in Columns!Decisions :
                    /\ req'[r].id = id
                    /\ req'[r].read = memoires[id].review
                    /\ req'[r].new = new
  <1> DEFINE Goal ==
        /\ \A s \in Requests \ {r} : req'[s] = req[s]
        /\ \/ req'[r].pc # "review"
           \/ /\ UNCHANGED Database
              /\ r \in Reviewers
              /\ \E id \in Rows, new \in Columns!Decisions :
                   /\ req'[r].id = id
                   /\ req'[r].read = memoires[id].review
                   /\ req'[r].new = new
  <1> SUFFICES Goal
    OBVIOUS
  <1> USE DEF At, Goto, End
  <1>1. req \in [Requests -> Request] /\ req[r] \in Request
    BY DEF TypeOK
  <1>2. ASSUME NEW q, Become(r, q), q.pc # "review" PROVE Goal
    BY <1>1, <1>2 DEF Become
  <1>3. CASE End(r)
    BY <1>2, <1>3 DEF Idle
  <1>4. ASSUME NEW pc \in PCs \ {"review"}, Goto(r, pc) PROVE Goal
    BY <1>1, <1>2, <1>4 DEF Request
  <1>5. ASSUME NEW u \in Users, Arrive(r, u) PROVE Goal
    BY <1>1, <1>2, <1>5 DEF Arrive, Request
  <1>6. ASSUME NEW k \in Keys, PutObject(r, k) PROVE Goal
    BY <1>1, <1>2, <1>6 DEF PutObject, Request
  <1>7. ASSUME NEW id \in MemoireIds, FindForDelete(r, id) PROVE Goal
    BY <1>1, <1>2, <1>3, <1>7 DEF FindForDelete, Request
  <1>8. ASSUME NEW id \in MemoireIds, NEW new \in Columns!Decisions,
               FindForReview(r, id, new)
        PROVE  Goal
    <2>1. CASE id \in Rows
      <3> DEFINE q == [req[r] EXCEPT !.pc = "review", !.id = id,
                                     !.read = memoires[id].review, !.new = new]
      <3>1. q.id = id /\ q.read = memoires[id].review /\ q.new = new
        BY <1>1 DEF Request
      <3>2. req'[r] = q /\ \A s \in Requests \ {r} : req'[s] = req[s]
        BY <1>1, <1>8, <2>1 DEF FindForReview, Become
      <3> QED BY <1>8, <2>1, <3>1, <3>2 DEF FindForReview
    <2>2. CASE id \notin Rows
      BY <1>3, <1>8, <2>2 DEF FindForReview
    <2> QED BY <2>1, <2>2
  <1>9. CASE \/ \E id \in MemoireIds : Valider(r, id)
             \/ \E id \in MemoireIds, n \in Notes : Rejeter(r, id, n)
    BY <1>8, <1>9 DEF Valider, Rejeter, Columns!Decisions, Columns!Entry
  <1>10. CASE \/ Provision(r) \/ ProvisionRefused(r) \/ CreateWithoutFile(r)
              \/ CreateWithFile(r) \/ PutBucket(r) \/ CacheKey(r)
    BY <1>4, <1>10 DEF PCs, Provision, ProvisionRefused, CreateWithoutFile,
                       CreateWithFile, PutBucket, CacheKey
  <1>11. CASE \/ Fail(r) \/ InsertRefused(r) \/ SaveMissed(r) \/ Remove(r)
              \/ SaveReview(r) \/ \E id \in MemoireIds : InsertMemoire(r, id)
    BY <1>3, <1>11 DEF Fail, InsertRefused, SaveMissed, Remove, SaveReview,
                       InsertMemoire
  <1> HIDE DEF Goal
  <1> QED BY <1>5, <1>6, <1>7, <1>9, <1>10, <1>11 DEF Step

\* A row has a used id, and a review in progress will assign a decision to a
\* mémoire that has been submitted.
DecisionInv ==
  /\ Rows \subseteq used
  /\ \A r \in Requests : req[r].pc = "review" =>
       req[r].id \in used /\ req[r].new \in Columns!Decisions

\* Which rows there are after a step of a request.
LEMMA RowsOfStep ==
  ASSUME TypeOK, NEW r \in Requests, Step(r)
  PROVE  /\ used \subseteq used'
         /\ Rows' \ Rows \subseteq used'
  BY TableSteps
  DEF TypeOK, Rows, Provision, InsertMemoire, SaveReview, Remove, Database

LEMMA DecisionNext == TypeOK /\ DecisionInv /\ [Next]_vars => DecisionInv'
  <1> SUFFICES ASSUME TypeOK, DecisionInv, [Next]_vars PROVE DecisionInv'
    OBVIOUS
  <1>1. ASSUME NEW r \in Requests, Step(r) PROVE DecisionInv'
    <2>1. (Rows \subseteq used)'
      BY <1>1, RowsOfStep DEF DecisionInv
    <2>2. ASSUME NEW s \in Requests, req'[s].pc = "review"
          PROVE  req'[s].id \in used' /\ req'[s].new \in Columns!Decisions
      <3>1. used \subseteq used'
        BY <1>1, RowsOfStep
      <3>2. CASE s # r
        BY <1>1, <2>2, <3>1, <3>2, ReviewsUnderWay DEF DecisionInv
      <3>3. CASE s = r
        BY <1>1, <2>2, <3>1, <3>3, ReviewsUnderWay DEF DecisionInv
      <3> QED BY <3>2, <3>3
    <2>3. Columns!Decisions' = Columns!Decisions
      BY DEF Columns!Decisions, Columns!Entry
    <2> QED BY <2>1, <2>2, <2>3 DEF DecisionInv
  <1>2. ASSUME NEW u \in Users, DeleteUser(u) PROVE DecisionInv'
    BY <1>2 DEF TypeOK, DecisionInv, Rows, DeleteUser, Columns!Decisions,
                Columns!Entry
  <1>3. CASE UNCHANGED vars
    BY <1>3 DEF vars, DecisionInv, Rows, Columns!Decisions, Columns!Entry
  <1> QED BY <1>1, <1>2, <1>3 DEF Next

LEMMA DecisionInvariant == Spec => [](TypeOK /\ DecisionInv)
  <1>1. Init => DecisionInv
    BY DEF Init, Idle, DecisionInv, Rows
  <1> QED BY <1>1, DecisionNext, TypeCorrect, PTL DEF Spec

\* The entries of the board that stand for a row.
LEMMA BoardLive ==
  ASSUME TypeOK, DecisionInv
  PROVE  \A id \in MemoireIds :
           /\ id \in Rows => id \in Board!Live
           /\ id \notin used => BoardView[id] = Board!Unsubmitted
  BY DEF TypeOK, DecisionInv, BoardView, Rows, Row, Review, Statuts, Board!Live,
         Board!Unsubmitted, Board!Withdrawn, Board!Entry

\* Every step is one of the board's decisions, unless it is an overlapping save.
LEMMA BoardNext ==
  ASSUME TypeOK, TypeOK', DecisionInv, [Next]_vars
  PROVE  \/ [Board!Next]_BoardView
         \/ \E r \in Requests : Overlaps(r) /\ SaveReview(r)
  <1>1. ASSUME NEW r \in Requests, Step(r), ~(Overlaps(r) /\ SaveReview(r))
        PROVE  [Board!Next]_BoardView
    <2>1. ASSUME UNCHANGED <<memoires, used>> PROVE UNCHANGED BoardView
      BY <2>1 DEF BoardView, Rows
    <2>2. CASE Provision(r)
      BY <2>1, <2>2 DEF Provision
    <2>3. ASSUME NEW id \in MemoireIds, InsertMemoire(r, id)
          PROVE  Board!Submit(id)
      <3>1. BoardView' = [BoardView EXCEPT ![id] = Board!Entry("Delivre", Null)]
        <4> DEFINE new == NewMemoire(r)
        <4>1. new # Null /\ new.review = Board!Entry("Delivre", Null)
          <5>1. new \in Row
            BY <2>3 DEF InsertMemoire, NewMemoire, Row, Review, Statuts, TypeOK,
                        Request, StageOK, At
          <5> QED BY <5>1, ConstantsAssumption DEF NewMemoire, Board!Entry
        <4> HIDE DEF new
        <4>2. memoires' = [memoires EXCEPT ![id] = new]
              /\ used' = used \cup {id}
          BY <2>3 DEF InsertMemoire, new
        <4> QED BY <4>1, <4>2 DEF TypeOK, BoardView, Rows
      <3> QED BY <2>3, <3>1, BoardLive DEF InsertMemoire, Board!Submit
    <2>4. ASSUME SaveReview(r)
          PROVE  \/ Board!Approve(req[r].id)
                 \/ \E n \in Notes : Board!Reject(req[r].id, n)
      <3> DEFINE id == req[r].id
      <3>1. /\ id \in MemoireIds /\ id \in Rows /\ memoires[id] \in Row
            /\ memoires[id].review = req[r].read
            /\ req[r].read \in Review /\ req[r].new \in Review
            /\ req[r].new \in Columns!Decisions
        BY <1>1, <2>4
        DEF SaveReview, At, TypeOK, StageOK, Rows, DecisionInv, Overlaps
      <3>2. MergedReview(memoires[id].review, req[r].read, req[r].new)
              = req[r].new
        BY <3>1, MergedReviewTyped
      <3>3. memoires' = [memoires EXCEPT ![id].review = req[r].new]
        BY <2>4, <3>2 DEF SaveReview
      <3>4. BoardView' = [BoardView EXCEPT ![id] = req[r].new]
        <4>1. /\ memoires'[id].review = req[r].new /\ memoires'[id] # Null
              /\ \A other \in MemoireIds \ {id} :
                    memoires'[other] = memoires[other]
          BY <3>1, <3>3, ConstantsAssumption DEF TypeOK, Row
        <4>2. UNCHANGED used
          BY <2>4 DEF SaveReview
        <4> HIDE DEF id
        <4> QED BY <3>1, <4>1, <4>2 DEF BoardView, Rows
      <3> QED BY <3>1, <3>4, BoardLive
              DEF Columns!Decisions, Columns!Entry, Board!Approve, Board!Reject,
                  Board!Entry
    <2>5. ASSUME Remove(r) PROVE Board!Withdraw({req[r].id})
      <3>1. /\ req[r].id \in MemoireIds /\ req[r].id \in Rows
            /\ req[r].id \in used
        BY <2>5 DEF Remove, At, TypeOK, StageOK, DecisionInv
      <3>2. BoardView' = [id \in MemoireIds |->
                            IF id \in {req[r].id} THEN Board!Withdrawn
                                                  ELSE BoardView[id]]
        BY <2>5, <3>1
        DEF Remove, TypeOK, BoardView, Rows, Board!Withdrawn, Board!Entry
      <3> QED BY <3>1, <3>2, BoardLive DEF Board!Withdraw
    <2>6. CASE UNCHANGED Database
      BY <2>1, <2>6 DEF Database
    <2>7. ASSUME SaveReview(r) PROVE req[r].id \in MemoireIds
      BY <2>7 DEF SaveReview, At, TypeOK, StageOK
    <2>8. ASSUME Remove(r) PROVE {req[r].id} \in SUBSET MemoireIds
      BY <2>8 DEF Remove, At, TypeOK, StageOK
    <2> QED BY <1>1, <2>2, <2>3, <2>4, <2>5, <2>6, <2>7, <2>8, TableSteps
            DEF Board!Next
  <1>2. ASSUME NEW u \in Users, DeleteUser(u) PROVE [Board!Next]_BoardView
    <2> DEFINE S == {id \in Rows : memoires[id].owner = u}
    <2>1. BoardView' = [id \in MemoireIds |->
                          IF id \in S THEN Board!Withdrawn ELSE BoardView[id]]
      BY <1>2 DEF DeleteUser, TypeOK, DecisionInv, BoardView, Rows,
                  Board!Withdrawn, Board!Entry
    <2>2. CASE S = {}
      BY <2>1, <2>2 DEF BoardView
    <2>3. CASE S # {}
      <3>1. S \in SUBSET MemoireIds /\ S \subseteq Board!Live
        BY BoardLive DEF Rows
      <3>2. Board!Withdraw(S)
        BY <2>1, <2>3, <3>1 DEF Board!Withdraw
      <3> QED BY <3>1, <3>2 DEF Board!Next
    <2> QED BY <2>2, <2>3
  <1>3. CASE UNCHANGED vars
    BY <1>3 DEF vars, BoardView, Rows
  <1> QED BY <1>1, <1>2, <1>3 DEF Next

\* For any number of administrators, the only steps that are not indivisible
\* decisions of the board are saves over a review that was not read.
THEOREM DecisionsIndivisibleHolds == Spec => DecisionsIndivisible
  <1>1. TypeOK /\ TypeOK' /\ DecisionInv /\ [Next]_vars
          => [Board!Next \/ \E r \in Requests : Overlaps(r) /\ SaveReview(r)
               ]_BoardView
    BY BoardNext
  <1> QED BY <1>1, DecisionInvariant, PTL DEF Spec, DecisionsIndivisible

\* A review in progress is a reviewer's and has read what its row still holds.
SnapshotInv ==
  \A r \in Requests : req[r].pc = "review" =>
    /\ r \in Reviewers
    /\ req[r].id \in Rows => memoires[req[r].id].review = req[r].read

OneReviewer == \A r, s \in Reviewers : r = s

\* The only review in progress is never overtaken.
LEMMA SnapshotNext ==
  ASSUME OneReviewer, TypeOK, DecisionInv, SnapshotInv, [Next]_vars
  PROVE  SnapshotInv'
  <1>1. ASSUME NEW r \in Requests, Step(r) PROVE SnapshotInv'
    <2> SUFFICES ASSUME NEW s \in Requests, req'[s].pc = "review"
                 PROVE  /\ s \in Reviewers
                        /\ req'[s].id \in Rows' =>
                             memoires'[req'[s].id].review = req'[s].read
      BY DEF SnapshotInv
    <2>1. CASE s = r
      BY <1>1, <2>1, ReviewsUnderWay DEF Database, Rows
    <2>2. CASE s # r
      <3>1. req'[s] = req[s] /\ s \in Reviewers
        BY <1>1, <2>2, ReviewsUnderWay DEF SnapshotInv
      <3>2. ~SaveReview(r)
        BY <2>2, <3>1 DEF SaveReview, At, SnapshotInv, OneReviewer
      <3>3. req[s].id \in used
        BY <3>1 DEF DecisionInv
      <3>4. req[s].id \in Rows' => /\ req[s].id \in Rows
                                   /\ memoires'[req[s].id] = memoires[req[s].id]
        BY <1>1, <3>2, <3>3, TableSteps
        DEF TypeOK, Rows, Provision, InsertMemoire, Remove, Database
      <3> QED BY <3>1, <3>4 DEF SnapshotInv
    <2> QED BY <2>1, <2>2
  <1>2. ASSUME NEW u \in Users, DeleteUser(u) PROVE SnapshotInv'
    BY <1>2 DEF TypeOK, SnapshotInv, Rows, DeleteUser
  <1>3. CASE UNCHANGED vars
    BY <1>3 DEF vars, SnapshotInv, Rows
  <1> QED BY <1>1, <1>2, <1>3 DEF Next

\* With at most one review in progress at a time, the API implements the board
\* of indivisible decisions, for any number of other requests beside it.
THEOREM BoardImplemented ==
  ASSUME OneReviewer
  PROVE  Spec => ImplementsBoard
  <1>1. Init => SnapshotInv
    BY DEF Init, Idle, SnapshotInv
  <1>2. TypeOK /\ DecisionInv /\ SnapshotInv /\ [Next]_vars => SnapshotInv'
    BY SnapshotNext
  <1>3. SnapshotInv => ~\E r \in Requests : Overlaps(r)
    BY DEF SnapshotInv, Overlaps, At
  <1>4. Init => Board!Init
    BY DEF Init, BoardView, Rows, Board!Init, Board!Unsubmitted, Board!Entry
  <1>5. /\ TypeOK /\ TypeOK' /\ DecisionInv /\ SnapshotInv /\ [Next]_vars
        => [Board!Next]_BoardView
    BY <1>3, BoardNext
  <1> QED BY <1>1, <1>2, <1>4, <1>5, DecisionInvariant, PTL
          DEF Spec, ImplementsBoard, Board!Spec

\* A decision of the board is a decision of the column board that stores both
\* of its columns.
LEMMA DecisionIsColumnwise == Board!Next => Columns!ColumnNext
  <1> USE DEF Board!Entry, Columns!Entry, Board!Live, Columns!Live,
              Board!Unsubmitted, Columns!Unsubmitted, Board!Withdrawn,
              Columns!Withdrawn
  <1>1. ASSUME NEW id \in MemoireIds, Board!Submit(id)
        PROVE  Columns!Submit(id)
    BY <1>1 DEF Board!Submit, Columns!Submit
  <1>2. ASSUME NEW id \in MemoireIds, Board!Approve(id)
        PROVE  Columns!Write(id, Columns!Entry("Valide", Null))
    BY <1>2 DEF Board!Approve, Columns!Write
  <1>3. ASSUME NEW id \in MemoireIds, NEW n \in Notes, Board!Reject(id, n)
        PROVE  Columns!Write(id, Columns!Entry("Rejete", n))
    BY <1>3 DEF Board!Reject, Columns!Write
  <1>4. ASSUME NEW S \in SUBSET MemoireIds, Board!Withdraw(S)
        PROVE  Columns!Withdraw(S)
    BY <1>4 DEF Board!Withdraw, Columns!Withdraw
  <1>5. /\ Columns!Entry("Valide", Null) \in Columns!Decisions
        /\ \A n \in Notes : Columns!Entry("Rejete", n) \in Columns!Decisions
    BY DEF Columns!Decisions
  <1> QED BY <1>1, <1>2, <1>3, <1>4, <1>5 DEF Board!Next, Columns!ColumnNext

\* A save writes each column as stored or as decided, whatever it has read.
LEMMA SaveIsColumnwise ==
  ASSUME TypeOK, DecisionInv, NEW r \in Requests, SaveReview(r)
  PROVE  Columns!ColumnNext
  <1> DEFINE id == req[r].id
             d  == req[r].new
             m  == MergedReview(memoires[id].review, req[r].read, d)
  <1>1. /\ id \in MemoireIds /\ id \in Rows /\ memoires[id] \in Row
        /\ d \in Columns!Decisions
    BY DEF SaveReview, At, TypeOK, StageOK, Rows, DecisionInv
  <1>2. /\ m = Columns!Entry(m.statut, m.note)
        /\ m.statut \in {memoires[id].review.statut, d.statut}
        /\ m.note \in {memoires[id].review.note, d.note}
    BY DEF MergedReview, Column, Columns!Entry
  <1>3. memoires' = [memoires EXCEPT ![id].review = m]
    BY DEF SaveReview
  <1>4. /\ memoires'[id].review = m /\ memoires'[id] # Null
        /\ \A other \in MemoireIds \ {id} : memoires'[other] = memoires[other]
    BY <1>1, <1>3, MergedReviewTyped, ConstantsAssumption
    DEF TypeOK, Row, SaveReview, StageOK, At
  <1>5. BoardView[id] = memoires[id].review
    BY <1>1 DEF BoardView
  <1>6. BoardView' = [BoardView EXCEPT ![id] = m]
    <2>1. UNCHANGED used
      BY DEF SaveReview
    <2> HIDE DEF id, m
    <2> QED BY <1>1, <1>4, <2>1 DEF BoardView, Rows
  <1>7. id \in Columns!Live
    BY <1>1, BoardLive
    DEF Board!Live, Columns!Live, Board!Unsubmitted, Columns!Unsubmitted,
        Board!Withdrawn, Columns!Withdrawn, Board!Entry, Columns!Entry
  <1>8. Columns!Write(id, d)
    <2> HIDE DEF id, d, m
    <2> QED BY <1>2, <1>5, <1>6, <1>7 DEF Columns!Write
  <1> QED BY <1>1, <1>8 DEF Columns!ColumnNext

\* For any number of administrators at once, no column of a review ever takes
\* a value that was neither stored in it nor just decided.
THEOREM ColumnsImplemented == Spec => ImplementsColumns
  <1>1. Init => Columns!Init
    BY DEF Init, BoardView, Rows, Columns!Init, Columns!Unsubmitted,
           Columns!Entry
  <1>2. TypeOK /\ TypeOK' /\ DecisionInv /\ [Next]_vars
          => [Columns!ColumnNext]_BoardView
    BY BoardNext, DecisionIsColumnwise, SaveIsColumnwise
  <1> QED BY <1>1, <1>2, DecisionInvariant, PTL
          DEF Spec, ImplementsColumns, Columns!ColumnSpec
-----------------------------------------------------------------------------
(* Uploaded files.                                                         *)

\* A row that survives a step keeps its file.
LEMMA SurvivorsKeepFiles ==
  ASSUME TypeOK, DecisionInv, Next, NEW id \in Rows, id \in Rows'
  PROVE  memoires'[id].file = memoires[id].file
  <1>1. memoires \in [MemoireIds -> Row \cup {Null}] /\ memoires[id] \in Row
    BY DEF TypeOK, Rows
  <1>2. ASSUME NEW r \in Requests, Step(r)
        PROVE  memoires'[id].file = memoires[id].file
    <2>1. ASSUME NEW new \in MemoireIds, InsertMemoire(r, new)
          PROVE  memoires'[id].file = memoires[id].file
      BY <1>1, <2>1 DEF InsertMemoire, DecisionInv, Rows
    <2>2. CASE SaveReview(r)
      BY <1>1, <2>2 DEF SaveReview, Row
    <2>3. CASE Remove(r)
      BY <1>1, <2>3 DEF Remove, Rows
    <2> QED BY <1>2, <2>1, <2>2, <2>3, TableSteps DEF Provision, Database
  <1>3. ASSUME NEW u \in Users, DeleteUser(u)
        PROVE  memoires'[id].file = memoires[id].file
    BY <1>1, <1>3 DEF DeleteUser, Rows
  <1> QED BY <1>2, <1>3 DEF Next

\* The request that holds an object keeps it, hands it over to the row it
\* inserts, or ends without a row.
LEMMA HolderHandsOver ==
  ASSUME TypeOK, FileInv, NEW r \in Requests, Step(r), req[r].key # Null
  PROVE  \/ req'[r].key = req[r].key
         \/ \E id \in Rows' : memoires'[id].file = req[r].key
         \/ Fail(r) \/ InsertRefused(r)
  <1> USE DEF At, Goto, Become
  <1>1. req \in [Requests -> Request] /\ req[r].pc \in {"cache", "insert"}
    BY DEF TypeOK, FileInv, UploadsPrivate
  <1>2. CASE CacheKey(r)
    BY <1>1, <1>2 DEF CacheKey, Request
  <1>3. ASSUME NEW id \in MemoireIds, InsertMemoire(r, id)
        PROVE  \E new \in Rows' : memoires'[new].file = req[r].key
    <2>1. NewMemoire(r) \in Row /\ NewMemoire(r).file = req[r].key
      BY <1>1, <1>3 DEF InsertMemoire, NewMemoire, Row, Review, Statuts,
                        Request, TypeOK, StageOK
    <2>2. memoires'[id] = NewMemoire(r)
      BY <1>3 DEF InsertMemoire, TypeOK
    <2> QED BY <2>1, <2>2, ConstantsAssumption DEF Rows
  <1> QED BY <1>1, <1>2, <1>3
          DEF Step, Arrive, Provision, ProvisionRefused, CreateWithoutFile,
              CreateWithFile, PutBucket, PutObject, Valider, Rejeter,
              FindForReview, SaveReview, SaveMissed, FindForDelete, Remove

\* However uploads, failures, reviews and deletions interleave, an object that
\* was named stops being named only with its row or with a submission that
\* ends without one.
THEOREM NoFileForgottenHolds == Spec => NoFileForgotten
  <1> DEFINE Kept == \A k \in Named \ Named' :
               \/ \E id \in Rows \ Rows' : memoires[id].file = k
               \/ \E r \in Requests : req[r].key = k /\ (Fail(r) \/ InsertRefused(r))
  <1>1. TypeOK /\ DecisionInv /\ FileInv /\ [Next]_vars => [Kept]_vars
    <2> SUFFICES ASSUME TypeOK, DecisionInv, FileInv, Next,
                        NEW k \in Named, k \notin Named'
                 PROVE  \/ \E id \in Rows \ Rows' : memoires[id].file = k
                        \/ \E r \in Requests : /\ req[r].key = k
                                               /\ Fail(r) \/ InsertRefused(r)
      OBVIOUS
    <2>1. k \in Keys /\ k # Null
      BY ConstantsAssumption DEF Named
    <2>2. /\ \A id \in Rows' : memoires'[id].file # k
          /\ \A r \in Requests : req'[r].key # k
      BY <2>1 DEF Named
    <2>3. ASSUME NEW id \in Rows, memoires[id].file = k
          PROVE  id \in Rows \ Rows'
      BY <2>2, <2>3, SurvivorsKeepFiles
    <2>4. ASSUME NEW s \in Requests, req[s].key = k
          PROVE  Fail(s) \/ InsertRefused(s)
      <3>1. ASSUME NEW r \in Requests, Step(r)
            PROVE  Fail(s) \/ InsertRefused(s)
        <4>1. s = r
          BY <2>2, <2>4, <3>1, ReviewsUnderWay
        <4> QED BY <2>1, <2>2, <2>4, <3>1, <4>1, HolderHandsOver
      <3>2. ASSUME NEW u \in Users, DeleteUser(u) PROVE FALSE
        BY <2>2, <2>4, <3>2 DEF DeleteUser
      <3> QED BY <3>1, <3>2 DEF Next
    <2> QED BY <2>3, <2>4 DEF Named
  <1>2. Init => FileInv
    BY DEF Init, Idle, FileInv, FileFaithful, UploadsPrivate, Rows
  <1> QED BY <1>1, <1>2, FileNext, DecisionInvariant, PTL
          DEF Spec, NoFileForgotten
=============================================================================
