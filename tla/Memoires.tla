------------------------------ MODULE Memoires ------------------------------
(***************************************************************************)
(* The mémoires API: MemoiresController with what it calls on the way, the *)
(* profile provisioning of the request pipeline, the object store and the  *)
(* two PostgreSQL tables.                                                  *)
(*                                                                         *)
(* A request is a slot of Requests.  A handler runs without interruption   *)
(* from one `await` to the next, so there is one action per awaited call,  *)
(* and between two of them any other request may run.  `Fail` ends a       *)
(* request at whatever call it stands: an exception (HTTP 500), a client   *)
(* that hangs up, or the API process stopping.                             *)
(***************************************************************************)
EXTENDS EfCore

CONSTANTS
  Users,       \* identities (the `sub` of a token)
  Admins,      \* those whose tokens carry the role Admin or SuperAdmin
  MemoireIds,  \* Guids for rows of Memoires; bounds how many are ever created
  Keys,        \* object names in the bucket; bounds how many are ever uploaded
  Notes,       \* the NoteRejet values clients send with a rejection
  Requests,    \* slots for requests in progress
  Reviewers,   \* the slots that may serve a Valider or a Rejeter
  Null         \* C#'s null, and "no such row / object"

Statuts == {"Delivre", "Valide", "Rejete"}
Review  == [statut : Statuts, note : Notes \cup {Null}]
Row     == [review : Review, owner : Users, file : Keys \cup {Null}]

ASSUME ConstantsAssumption ==
  /\ Admins \subseteq Users
  /\ Reviewers \subseteq Requests
  /\ Null \notin Users \cup MemoireIds \cup Keys
  /\ Null \notin Row \cup Review

VARIABLES
  users,     \* the ids that have a row in table Users
  memoires,  \* table Memoires: a Row, or Null, for each id
  used,      \* the ids ever given to a row (Guid.NewGuid never repeats)
  bucket,    \* the MinIO bucket exists
  objects,   \* for each object name, who uploaded it (Null: no such object)
  req,       \* where each request stands and what it holds
  stale      \* history: mémoires whose last review overwrote an unseen change

vars == <<users, memoires, used, bucket, objects, req, stale>>

PCs == {"idle", "provision", "ready", "mkbucket", "put", "cache", "insert",
        "review", "remove"}

Request == [pc   : PCs,
            user : Users \cup {Null},
            id   : MemoireIds \cup {Null},
            key  : Keys \cup {Null},
            read : Review \cup {Null},   \* EF Core's snapshot
            new  : Review \cup {Null}]   \* the values assigned to the entity

Idle == [pc |-> "idle", user |-> Null, id |-> Null, key |-> Null,
         read |-> Null, new |-> Null]

Rows == {id \in MemoireIds : memoires[id] # Null}

Init == /\ users = {}
        /\ memoires = [id \in MemoireIds |-> Null]
        /\ used = {}
        /\ bucket = FALSE
        /\ objects = [k \in Keys |-> Null]
        /\ req = [r \in Requests |-> Idle]
        /\ stale = {}

-----------------------------------------------------------------------------
(* The request pipeline.                                                   *)

At(r, pc)    == req[r].pc = pc
Become(r, q) == req' = [req EXCEPT ![r] = q]
Goto(r, pc)  == Become(r, [req[r] EXCEPT !.pc = pc])
End(r)       == Become(r, Idle)

Database == <<users, memoires, used, stale>>
Storage  == <<bucket, objects>>

\* A request of u passes authentication; the middleware looks for its profile.
Arrive(r, u) ==
  /\ At(r, "idle")
  /\ Become(r, [req[r] EXCEPT !.user = u,
                              !.pc = IF u \in users THEN "ready"
                                                    ELSE "provision"])
  /\ UNCHANGED <<Database, Storage>>

\* The profile is inserted, unless an INSERT of the same id was faster: that
\* exception is swallowed and the request goes on.
Provision(r) ==
  /\ At(r, "provision")
  /\ users' = users \cup {req[r].user}
  /\ Goto(r, "ready")
  /\ UNCHANGED <<memoires, used, stale, Storage>>

\* The same catch swallows a collision on the unique e-mail: the request goes
\* on although its user has no profile.
ProvisionRefused(r) ==
  /\ At(r, "provision")
  /\ Goto(r, "ready")
  /\ UNCHANGED <<Database, Storage>>

Fail(r) ==
  /\ ~At(r, "idle")
  /\ End(r)
  /\ UNCHANGED <<Database, Storage>>

-----------------------------------------------------------------------------
(* POST /api/memoires                                                      *)

CreateWithoutFile(r) ==
  /\ At(r, "ready")
  /\ Goto(r, "insert")
  /\ UNCHANGED <<Database, Storage>>

\* A file that is no PDF is refused before anything happens (as Fail does).
CreateWithFile(r) ==
  /\ At(r, "ready")
  /\ Goto(r, IF bucket THEN "put" ELSE "mkbucket")
  /\ UNCHANGED <<Database, Storage>>

\* When another upload made the bucket first, the store may refuse: then Fail.
PutBucket(r) ==
  /\ At(r, "mkbucket")
  /\ bucket' = TRUE
  /\ Goto(r, "put")
  /\ UNCHANGED <<Database, objects>>

\* Variant: object names without the Guid, as if two files never shared a name.
ObjectNameWithoutGuid(k) == TRUE

\* The object name contains a new Guid, so it names no object yet.
ObjectName(k) == objects[k] = Null

PutObject(r, k) ==
  /\ At(r, "put")
  /\ ObjectName(k)
  /\ objects' = [objects EXCEPT ![k] = req[r].user]
  /\ Become(r, [req[r] EXCEPT !.pc = "cache", !.key = k])
  /\ UNCHANGED <<Database, bucket>>

\* A Redis entry is written for the object; nothing ever reads it, so only
\* the call, which may fail, is modelled.
CacheKey(r) ==
  /\ At(r, "cache")
  /\ Goto(r, "insert")
  /\ UNCHANGED <<Database, Storage>>

\* Variant: no foreign key on Memoires.UserId.
NoForeignKey(r) == TRUE

\* The foreign key to Users makes the INSERT fail when the owner has no row.
OwnerRowExists(r) == req[r].user \in users

\* Variant: a new mémoire gets a status the other handlers do not know.
NewMemoireSoumis(r) == [review |-> [statut |-> "Soumis", note |-> Null],
                        owner  |-> req[r].user,
                        file   |-> req[r].key]

\* Variant: the new row forgets the object that was uploaded for it.
NewMemoireFileless(r) == [review |-> [statut |-> "Delivre", note |-> Null],
                          owner  |-> req[r].user,
                          file   |-> Null]

NewMemoire(r) == [review |-> [statut |-> "Delivre", note |-> Null],
                  owner  |-> req[r].user,
                  file   |-> req[r].key]

\* Reloading the owner for the reply, which follows, changes nothing.
InsertMemoire(r, id) ==
  /\ At(r, "insert")
  /\ id \notin used
  /\ OwnerRowExists(r)
  /\ memoires' = [memoires EXCEPT ![id] = NewMemoire(r)]
  /\ used' = used \cup {id}
  /\ End(r)
  /\ UNCHANGED <<users, stale, Storage>>

InsertRefused(r) ==
  /\ At(r, "insert")
  /\ ~OwnerRowExists(r)
  /\ End(r)
  /\ UNCHANGED <<Database, Storage>>

-----------------------------------------------------------------------------
(* PATCH /api/memoires/{id}/valider and /rejeter                           *)

\* FindAsync, then the assignments to the tracked entity.
FindForReview(r, id, new) ==
  /\ At(r, "ready")
  /\ r \in Reviewers
  /\ req[r].user \in Admins
  /\ IF id \in Rows
       THEN Become(r, [req[r] EXCEPT !.pc = "review", !.id = id,
                                     !.read = memoires[id].review,
                                     !.new = new])
       ELSE End(r)                                                   \* 404
  /\ UNCHANGED <<Database, Storage>>

\* Variant: validating forgets to clear the note of an earlier rejection.
ValiderKeepsNote(r, id) ==
  FindForReview(r, id, [statut |-> "Valide",
                        note   |-> IF id \in Rows THEN memoires[id].review.note
                                                  ELSE Null])

Valider(r, id) == FindForReview(r, id, [statut |-> "Valide", note |-> Null])

Rejeter(r, id, n) == FindForReview(r, id, [statut |-> "Rejete", note |-> n])

\* Variant: the UPDATE writes the status and leaves the note as it is.
MergedStatusOnly(stored, read, new) ==
  [statut |-> Column(stored.statut, read.statut, new.statut),
   note   |-> stored.note]

\* Variant: the UPDATE writes every column from the entity, and an approval
\* leaves the note the entity was read with.
MergedWholeEntity(stored, read, new) ==
  [statut |-> new.statut,
   note   |-> IF new.note = Null THEN read.note ELSE new.note]

\* The UPDATE is sent in every case, because UpdatedAt always changes.
MergedReview(stored, read, new) ==
  [statut |-> Column(stored.statut, read.statut, new.statut),
   note   |-> Column(stored.note, read.note, new.note)]

\* Variant: the save inserts the row again when it finds it gone.
SaveReviewUpsert(r) ==
  LET id == req[r].id IN
  /\ At(r, "review")
  /\ memoires' = [memoires EXCEPT ![id] =
                    IF id \in Rows
                    THEN [@ EXCEPT !.review =
                            MergedReview(@, req[r].read, req[r].new)]
                    ELSE [review |-> req[r].new, owner |-> req[r].user,
                          file |-> Null]]
  /\ UNCHANGED stale
  /\ End(r)
  /\ UNCHANGED <<users, used, Storage>>

SaveReview(r) ==
  LET id == req[r].id IN
  /\ At(r, "review")
  /\ id \in Rows
  /\ memoires' = [memoires EXCEPT ![id].review =
                    MergedReview(@, req[r].read, req[r].new)]
  /\ stale' = IF memoires[id].review = req[r].read THEN stale \ {id}
                                                   ELSE stale \cup {id}
  /\ End(r)
  /\ UNCHANGED <<users, used, Storage>>

\* The UPDATE or the DELETE finds no row: DbUpdateConcurrencyException, 500.
SaveMissed(r) ==
  /\ At(r, "review") \/ At(r, "remove")
  /\ req[r].id \notin Rows
  /\ End(r)
  /\ UNCHANGED <<Database, Storage>>

-----------------------------------------------------------------------------
(* DELETE /api/memoires/{id}, and the cascade of DELETE /api/users/{id}    *)

\* The row's owner may delete it, and so may an administrator.
MayDelete(r, id) == req[r].user \in Admins \cup {memoires[id].owner}

\* Otherwise the answer is 404 or 403.
FindForDelete(r, id) ==
  /\ At(r, "ready")
  /\ IF id \in Rows /\ MayDelete(r, id)
       THEN Become(r, [req[r] EXCEPT !.pc = "remove", !.id = id])
       ELSE End(r)
  /\ UNCHANGED <<Database, Storage>>

\* Only the row goes: the object it names stays in the bucket.
Remove(r) ==
  /\ At(r, "remove")
  /\ req[r].id \in Rows
  /\ memoires' = [memoires EXCEPT ![req[r].id] = Null]
  /\ End(r)
  /\ UNCHANGED <<users, used, stale, Storage>>

\* An administrator deletes a profile: the DELETE of the Users row takes the
\* mémoires of that user with it (ON DELETE CASCADE).
DeleteUser(u) ==
  /\ u \in users
  /\ users' = users \ {u}
  /\ memoires' = [id \in MemoireIds |->
                    IF id \in Rows /\ memoires[id].owner = u
                    THEN Null ELSE memoires[id]]
  /\ UNCHANGED <<used, req, stale, Storage>>

-----------------------------------------------------------------------------
Step(r) ==
  \/ \E u \in Users : Arrive(r, u)
  \/ Provision(r) \/ ProvisionRefused(r)
  \/ CreateWithoutFile(r) \/ CreateWithFile(r) \/ PutBucket(r)
  \/ \E k \in Keys : PutObject(r, k)
  \/ CacheKey(r)
  \/ \E id \in MemoireIds : InsertMemoire(r, id)
  \/ InsertRefused(r)
  \/ \E id \in MemoireIds : Valider(r, id)
  \/ \E id \in MemoireIds, n \in Notes : Rejeter(r, id, n)
  \/ SaveReview(r) \/ SaveMissed(r)
  \/ \E id \in MemoireIds : FindForDelete(r, id)
  \/ Remove(r)
  \/ Fail(r)

Next == \/ \E r \in Requests : Step(r)
        \/ \E u \in Users : DeleteUser(u)

Spec == Init /\ [][Next]_vars

-----------------------------------------------------------------------------
(* Properties.                                                             *)

\* What a request in progress holds at each stage.
StageOK(q) ==
  /\ q.pc # "idle" => q.user \in Users
  /\ q.pc \in {"review", "remove"} => q.id \in MemoireIds
  /\ q.pc = "review" => q.read \in Review /\ q.new \in Review

\* Every variable keeps its type; a request holds the data of its stage.
TypeOK ==
  /\ users \subseteq Users
  /\ memoires \in [MemoireIds -> Row \cup {Null}]
  /\ used \subseteq MemoireIds
  /\ bucket \in BOOLEAN
  /\ objects \in [Keys -> Users \cup {Null}]
  /\ req \in [Requests -> Request]
  /\ stale \subseteq MemoireIds
  /\ \A r \in Requests : StageOK(req[r])

\* A row always belongs to an existing profile, although the profile may be
\* deleted between any two calls of a submission (the foreign key and its
\* cascade against Create and Delete of both controllers).
OwnerPresent == \A id \in Rows : memoires[id].owner \in users

\* The file a mémoire names was uploaded by its owner, is still in the store,
\* and belongs to no other mémoire and to no upload in progress: no sequence
\* of uploads, aborted submissions and deletions mixes two students' PDFs.
FileFaithful ==
  \A id \in Rows :
    LET k == memoires[id].file IN
    k # Null => /\ objects[k] = memoires[id].owner
                /\ \A other \in Rows \ {id} : memoires[other].file # k
                /\ \A r \in Requests : req[r].key # k

\* The two columns of a decision agree: a rejection has a note that a client
\* sent with one, any other status has none.
Consistent(d) == IF d.statut = "Rejete" THEN d.note \in Notes ELSE d.note = Null

\* Status and rejection note agree, whatever requests interleave, in every
\* mémoire whose last review saved over the row it had read: Valider and
\* Rejeter assign both columns, but EF Core sends only the changed ones.
ReviewConsistent ==
  \A id \in Rows \ stale : Consistent(memoires[id].review)

\* A deleted mémoire stays deleted: a review or an insertion that was under
\* way when the row went does not bring it back (0 rows updated is an error).
NeverResurrected ==
  [][\A id \in used \ Rows : memoires'[id] = Null]_vars

\* What the review dialog tells the administrator: a rejection has a reason.
RejectionHasReason ==
  \A id \in Rows :
    memoires[id].review.statut = "Rejete" => memoires[id].review.note # Null

\* The board a reader sees.
BoardView ==
  [id \in MemoireIds |->
     IF id \in Rows THEN memoires[id].review
     ELSE [statut |-> IF id \in used THEN "Retire" ELSE "Absent",
           note   |-> Null]]

Board == INSTANCE ReviewBoard WITH board <- BoardView

\* With one review in progress at a time, each handler takes effect at one
\* point, as the board's indivisible decision, whatever submissions, deletions
\* and profile deletions run beside it.
ImplementsBoard == Board!Spec

\* A save of r that would overwrite a change r has not read.
Overlaps(r) ==
  /\ At(r, "review")
  /\ req[r].id \in Rows
  /\ memoires[req[r].id].review # req[r].read

\* Whatever the number of administrators, only one kind of step is not one of
\* the board's indivisible decisions: a save of Valider or Rejeter over a
\* review that was saved after its FindAsync.
DecisionsIndivisible ==
  [][Board!Next \/ \E r \in Requests : Overlaps(r) /\ SaveReview(r)]_BoardView

Columns == INSTANCE ColumnBoard WITH board <- BoardView

\* Even such a save writes in each column what is stored there or what was
\* just decided: the UPDATE of changed columns never brings back a value that
\* somebody else has replaced in the meantime.
ImplementsColumns == Columns!ColumnSpec

\* The objects that a row names, or that a request holds for the row it will
\* insert.
Named == {k \in Keys : \/ \E id \in Rows : memoires[id].file = k
                      \/ \E r \in Requests : req[r].key = k}

\* An uploaded file is lost from view only with the row that names it, or
\* when its submission ends without a row (an error between UploadPdfAsync and
\* the INSERT, or the INSERT refused): the hand-over from the upload to the
\* row forgets none, and no review or other submission makes a row drop its
\* file.
NoFileForgotten ==
  [][\A k \in Named \ Named' :
       \/ \E id \in Rows \ Rows' : memoires[id].file = k
       \/ \E r \in Requests : req[r].key = k /\ (Fail(r) \/ InsertRefused(r))
    ]_vars
=============================================================================
