---------------------------- MODULE StudentPage -----------------------------
(***************************************************************************)
(* The page "Mes mémoires" (MemoiresComponent) over the board that the API *)
(* implements; every mémoire here belongs to the student who looks at it.  *)
(*                                                                         *)
(* As in ReviewPage a click and the arrival of a reply are one action each *)
(* and replies arrive in any order; the deletion dialog covers the page.   *)
(***************************************************************************)
EXTENDS Integers

CONSTANTS
  MemoireIds, Notes, Null,
  Contents, \* what the required fields of the form, or its file, may hold
  Loads,    \* slots for list requests whose replies are awaited
  Posts,    \* slots for submissions whose replies are awaited
  Deletes   \* slots for deletions whose replies are awaited

ASSUME ConstantsAssumption == Null \notin MemoireIds \cup Notes \cup Contents

VARIABLES
  board,                   \* the server: see ReviewBoard
  rows, loading,           \* the list
  showForm, saving, draft, \* the submission form and what it holds
  deleteTarget,            \* the deletion dialog
  loads, posts, deletes,   \* the requests under way and their replies
  current,   \* history: the list shows the reply of the latest loadMine()
  unseen,    \* history: a change that the latest loadMine() cannot have seen
  taken,     \* history: the parts of `draft` that the server has already got
  doubtful   \* history: those of them whose submission has ended in an error

form    == <<showForm, saving, draft>>
page    == <<rows, loading, form, deleteTarget>>
history == <<current, unseen, taken, doubtful>>
vars    == <<board, page, loads, posts, deletes, history>>

Board == INSTANCE ReviewBoard

NoLoad == [stage |-> "none", latest |-> FALSE, rows |-> {}]
NoCall == [stage |-> "none", id |-> Null]
Parts  == {"text", "file"}
Blank  == [part \in Parts |-> Null]
NoPost == [stage |-> "none", draft |-> Blank]

\* GET /api/memoires/mine
Mine == {[id |-> id, statut |-> board[id].statut] : id \in Board!Live}

Sent == [NoLoad EXCEPT !.stage = "sent", !.latest = TRUE]

LoadMine(l) ==
  /\ loads[l] = NoLoad
  /\ loads' = [k \in Loads |-> IF k = l THEN Sent
                                        ELSE [loads[k] EXCEPT !.latest = FALSE]]
  /\ loading' = TRUE
  /\ current' = FALSE
  /\ UNCHANGED rows

\* ngOnInit has just called loadMine().
Init ==
  /\ board \in [MemoireIds -> {Board!Unsubmitted, Board!Entry("Delivre", Null)}]
  /\ rows = {} /\ loading = TRUE
  /\ showForm = FALSE /\ saving = FALSE /\ draft = Blank /\ deleteTarget = Null
  /\ \E l \in Loads : loads = [k \in Loads |-> IF k = l THEN Sent ELSE NoLoad]
  /\ posts = [q \in Posts |-> NoPost]
  /\ deletes = [d \in Deletes |-> NoCall]
  /\ current = FALSE /\ unseen = FALSE /\ taken = {} /\ doubtful = {}

-----------------------------------------------------------------------------
(* The student.                                                            *)

\* Variant: opening the form afresh also forgets that a submission is running.
ShowFormAfresh(open) ==
  /\ deleteTarget = Null
  /\ showForm' = open
  /\ saving' = FALSE
  /\ UNCHANGED <<board, rows, loading, draft, deleteTarget, loads, posts,
                 deletes, history>>

\* The form is opened and closed by several buttons, while a submission is
\* under way too.
ShowForm(open) ==
  /\ deleteTarget = Null
  /\ showForm' = open
  /\ UNCHANGED <<board, rows, loading, saving, draft, deleteTarget, loads,
                 posts, deletes, history>>

\* Fields are typed into or emptied, while a submission is under way too; a file
\* that is no PDF, or none, takes the place of the one before (onFileSelected).
Fill(part, content) ==
  /\ deleteTarget = Null
  /\ showForm
  /\ draft' = [draft EXCEPT ![part] = content]
  /\ taken' = taken \ {part} /\ doubtful' = doubtful \ {part}
  /\ UNCHANGED <<board, rows, loading, showForm, saving, deleteTarget, loads,
                 posts, deletes, current, unseen>>

\* A form without its required fields sends nothing; the file is optional.
OnSubmit(q) ==
  /\ deleteTarget = Null
  /\ showForm /\ ~saving
  /\ draft["text"] # Null
  /\ posts[q] = NoPost
  /\ posts' = [posts EXCEPT ![q] = [stage |-> "sent", draft |-> draft]]
  /\ saving' = TRUE
  /\ UNCHANGED <<board, rows, loading, showForm, draft, deleteTarget, loads,
                 deletes, history>>

\* The button is disabled on a row that shows the status Valide.
ConfirmDelete(row) ==
  /\ deleteTarget = Null
  /\ ~loading
  /\ row.statut # "Valide"
  /\ deleteTarget' = row.id
  /\ UNCHANGED <<board, rows, loading, form, loads, posts, deletes, history>>

CloseDialog ==
  /\ deleteTarget # Null
  /\ deleteTarget' = Null
  /\ UNCHANGED <<board, rows, loading, form, loads, posts, deletes, history>>

\* Nothing disables the button while a deletion is under way.
DoDelete(d) ==
  /\ deleteTarget # Null
  /\ deletes[d] = NoCall
  /\ deletes' = [deletes EXCEPT ![d] = [stage |-> "sent", id |-> deleteTarget]]
  /\ UNCHANGED <<board, page, loads, posts, history>>

-----------------------------------------------------------------------------
(* The server and the network.                                             *)

Answer(l) ==
  /\ loads[l].stage = "sent"
  /\ loads' = [loads EXCEPT ![l].stage = "answered", ![l].rows = Mine]
  /\ unseen' = (unseen /\ ~loads[l].latest)
  /\ UNCHANGED <<board, page, posts, deletes, current, taken, doubtful>>

Show(l) ==
  /\ loads[l].stage = "answered"
  /\ rows' = loads[l].rows
  /\ loading' = FALSE
  /\ current' = loads[l].latest
  /\ loads' = [loads EXCEPT ![l] = NoLoad]
  /\ UNCHANGED <<board, form, deleteTarget, posts, deletes, unseen, taken,
                 doubtful>>

\* Variant: no error handler, as on the other pages.
LoadFailedSilently(l) ==
  /\ loads[l] # NoLoad
  /\ loads' = [loads EXCEPT ![l] = NoLoad]
  /\ UNCHANGED <<board, page, posts, deletes, history>>

LoadFailed(l) ==
  /\ loads[l] # NoLoad
  /\ loads' = [loads EXCEPT ![l] = NoLoad]
  /\ loading' = FALSE
  /\ UNCHANGED <<board, rows, form, deleteTarget, posts, deletes, history>>

ApplyPost(q, id) ==
  /\ posts[q].stage = "sent"
  /\ Board!Submit(id)
  /\ posts' = [posts EXCEPT ![q].stage = "applied"]
  /\ taken' = taken \cup {part \in Parts : draft[part] # Null
                                          /\ draft[part] = posts[q].draft[part]}
  /\ UNCHANGED <<page, loads, deletes, current, unseen, doubtful>>

\* Variant: the reply closes the form and keeps the file.
PostDoneKeepsFile(q, l) ==
  /\ posts[q].stage = "applied"
  /\ posts' = [posts EXCEPT ![q] = NoPost]
  /\ saving' = FALSE /\ showForm' = FALSE
  /\ draft' = [draft EXCEPT !["text"] = Null]
  /\ LoadMine(l)
  /\ UNCHANGED <<board, deleteTarget, deletes, unseen, taken, doubtful>>

\* The reply closes and empties the form, whatever was typed meanwhile.
PostDone(q, l) ==
  /\ posts[q].stage = "applied"
  /\ posts' = [posts EXCEPT ![q] = NoPost]
  /\ saving' = FALSE /\ showForm' = FALSE
  /\ draft' = Blank
  /\ taken' = {} /\ doubtful' = {}
  /\ LoadMine(l)
  /\ UNCHANGED <<board, deleteTarget, deletes, unseen>>

\* An error, after the mémoire has been inserted perhaps: the form stays.
PostFailed(q) ==
  /\ posts[q] # NoPost
  /\ posts' = [posts EXCEPT ![q] = NoPost]
  /\ saving' = FALSE
  /\ unseen' = (unseen \/ posts[q].stage = "applied")
  /\ doubtful' = taken
  /\ UNCHANGED <<board, rows, loading, showForm, draft, deleteTarget, loads,
                 deletes, current, taken>>

ApplyDelete(d) ==
  /\ deletes[d].stage = "sent"
  /\ deletes[d].id \in Board!Live
  /\ Board!Withdraw({deletes[d].id})
  /\ deletes' = [deletes EXCEPT ![d].stage = "applied"]
  /\ UNCHANGED <<page, loads, posts, history>>

\* Variant: the list is not loaded again after a deletion.
DeleteDoneOnly(d, l) ==
  /\ deletes[d].stage = "applied"
  /\ deletes' = [deletes EXCEPT ![d] = NoCall]
  /\ deleteTarget' = Null
  /\ UNCHANGED <<board, rows, loading, form, loads, posts, history>>

\* The reply closes the dialog that is open, whichever mémoire it is about.
DeleteDone(d, l) ==
  /\ deletes[d].stage = "applied"
  /\ deletes' = [deletes EXCEPT ![d] = NoCall]
  /\ deleteTarget' = Null
  /\ LoadMine(l)
  /\ UNCHANGED <<board, form, posts, unseen, taken, doubtful>>

\* An error (the mémoire is gone, say) is not handled: the dialog stays.
DeleteFailed(d) ==
  /\ deletes[d] # NoCall
  /\ deletes' = [deletes EXCEPT ![d] = NoCall]
  /\ unseen' = (unseen \/ deletes[d].stage = "applied")
  /\ UNCHANGED <<board, page, loads, posts, current, taken, doubtful>>

\* Administrators review, and delete; other tabs of the student submit.
Others == /\ Board!Next
          /\ unseen' = TRUE
          /\ UNCHANGED <<page, loads, posts, deletes, current, taken, doubtful>>

-----------------------------------------------------------------------------
Student == \/ \E open \in BOOLEAN : ShowForm(open)
           \/ \E part \in Parts, content \in Contents \cup {Null} : Fill(part, content)
           \/ \E q \in Posts : OnSubmit(q)
           \/ \E row \in rows : ConfirmDelete(row)
           \/ CloseDialog
           \/ \E d \in Deletes : DoDelete(d)

Network == \/ \E l \in Loads : Answer(l) \/ Show(l) \/ LoadFailed(l)
           \/ \E q \in Posts, id \in MemoireIds : ApplyPost(q, id)
           \/ \E q \in Posts : PostFailed(q) \/ \E l \in Loads : PostDone(q, l)
           \/ \E d \in Deletes : \/ ApplyDelete(d) \/ DeleteFailed(d)
                                 \/ \E l \in Loads : DeleteDone(d, l)

Next == Student \/ Network \/ Others

Spec == Init /\ [][Next]_vars

\* Every list request ends: with a reply of the API, or with an error of the
\* gateway, which waits for the API no longer than its time limit.
Replies == \A l \in Loads : /\ WF_vars(Answer(l) \/ LoadFailed(l))
                            /\ WF_vars(Show(l) \/ LoadFailed(l))

FairSpec == Spec /\ Replies

-----------------------------------------------------------------------------
(* Properties.                                                             *)

Statuts == {"Absent", "Delivre", "Valide", "Rejete", "Retire"}
Rows    == [id : MemoireIds, statut : Statuts]

ListRequests == [stage : {"none", "sent", "answered"}, latest : BOOLEAN,
                 rows : SUBSET Rows]
Stages == {"none", "sent", "applied"}
Drafts == [Parts -> Contents \cup {Null}]

\* The types of the variables.
TypeOK ==
  /\ board \in [MemoireIds -> [statut : Statuts, note : Notes \cup {Null}]]
  /\ rows \in SUBSET Rows /\ loading \in BOOLEAN
  /\ showForm \in BOOLEAN /\ saving \in BOOLEAN /\ draft \in Drafts
  /\ deleteTarget \in MemoireIds \cup {Null}
  /\ loads \in [Loads -> ListRequests]
  /\ posts \in [Posts -> [stage : Stages, draft : Drafts]]
  /\ deletes \in [Deletes -> [stage : Stages, id : MemoireIds \cup {Null}]]
  /\ current \in BOOLEAN /\ unseen \in BOOLEAN
  /\ taken \subseteq Parts /\ doubtful \subseteq Parts

Posting == {q \in Posts : posts[q] # NoPost}

\* At most one submission of the page is under way, and `saving` says so,
\* although the form is closed and opened while it is: a mémoire is not sent
\* twice by an impatient student (the disabled button against onSubmit).
OneSubmission == /\ \A p, q \in Posting : p = q
                 /\ saving = (Posting # {})

AtRest == /\ \A l \in Loads : loads[l] = NoLoad
          /\ Posting = {}
          /\ \A d \in Deletes : deletes[d] = NoCall
          /\ current /\ ~unseen

\* When the page has come to rest, the list is what the server would answer,
\* the student's own submissions and deletions included.
ListFaithful == AtRest => ~loading /\ rows = Mine

\* What the server has got is not in the form for another submission: neither is
\* a mémoire submitted again nor its file sent with the next one, unless the
\* reply to its submission was an error, or was lost.
NothingSentTwice == taken \subseteq doubtful \/ saving

\* The list is loading only while a request is under way whose end, be it an
\* error, will say otherwise: of several requests it is the first to end that
\* takes the sign away, and nothing else may lose one.
LoadingAwaited == loading => \E l \in Loads : loads[l] # NoLoad

\* The list never goes on loading for ever, not even when requests fail.
LoadingEnds == loading ~> ~loading
=============================================================================
