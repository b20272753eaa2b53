----------------------------- MODULE ReviewPage -----------------------------
(***************************************************************************)
(* The page "Gestion des mémoires" (AdminMemoiresComponent) over the board *)
(* that the API implements.                                                *)
(*                                                                         *)
(* JavaScript runs one callback at a time, so a click and the arrival of a *)
(* reply are one action each.  Replies arrive in any order: nothing in the *)
(* component cancels a request or ignores the reply to an older one.  A    *)
(* dialog covers the whole page, so that only its own buttons are in reach.*)
(***************************************************************************)
EXTENDS Integers, FiniteSets

CONSTANTS
  MemoireIds,  \* numbered in the order of CreatedAt
  Notes,       \* the reasons an administrator types
  Null,
  PageSize,    \* rows on a page (10)
  Filters,     \* the statuses to filter by, and "Tous" for all of them
  Loads,       \* slots for list requests whose replies are awaited
  Patches      \* slots for reviews whose replies are awaited

ASSUME ConstantsAssumption ==
  /\ MemoireIds \subseteq Nat /\ IsFiniteSet(MemoireIds)
  /\ PageSize \in Nat \ {0}
  /\ "Tous" \in Filters /\ Filters \subseteq {"Tous", "Delivre", "Valide", "Rejete"}
  /\ Null \notin Notes

VARIABLES
  board,                               \* the server: see ReviewBoard
  page, filter, rows, total, loading,  \* the table and its controls
  selected, target, acting,            \* the detail and the review dialog
  loads, patches,  \* the requests under way and their replies
  current,   \* history: the table shows the reply of the latest load()
  unseen     \* history: a change that the latest load() cannot have seen

table   == <<page, filter, rows, total, loading>>
dialogs == <<selected, target, acting>>
vars    == <<board, table, dialogs, loads, patches, current, unseen>>

Board == INSTANCE ReviewBoard

Modes       == {"valider", "rejeter"}
Decision(m) == IF m = "valider" THEN "Valide" ELSE "Rejete"
NoRow       == [id |-> Null, statut |-> "Absent"]
NoReview    == [id |-> Null, mode |-> "valider"]
NoPatch     == [stage |-> "none", review |-> NoReview, note |-> Null]
NoLoad      == [stage |-> "none", latest |-> FALSE, page |-> 1, filter |-> "Tous",
                rows |-> {}, total |-> 0]

Row(id)    == [id |-> id, statut |-> board[id].statut]
Matches(f) == {id \in Board!Live : f = "Tous" \/ board[id].statut = f}

\* What GET /api/memoires answers, newest first.  The search term is left out:
\* it narrows the rows as the status does.
Slice(p, f) ==
  {Row(id) : id \in {i \in Matches(f) :
     Cardinality({j \in Matches(f) : j >= i})
       \in (p - 1) * PageSize + 1 .. p * PageSize}}

Sent(p, f) == [NoLoad EXCEPT !.stage = "sent", !.latest = TRUE,
                             !.page = p, !.filter = f]

\* load(), with the page and the filter set just before.  Its second request,
\* which only feeds the counters above the table, is left out.
Load(l, p, f) ==
  /\ loads[l] = NoLoad
  /\ loads' = [k \in Loads |-> IF k = l THEN Sent(p, f)
                                        ELSE [loads[k] EXCEPT !.latest = FALSE]]
  /\ page' = p
  /\ filter' = f
  /\ loading' = TRUE
  /\ current' = FALSE
  /\ UNCHANGED <<rows, total>>

\* ngOnInit has just called load().
Init ==
  /\ board \in [MemoireIds -> {Board!Unsubmitted, Board!Entry("Delivre", Null)}]
  /\ page = 1 /\ filter = "Tous" /\ rows = {} /\ total = 0 /\ loading = TRUE
  /\ selected = NoRow /\ target = NoReview /\ acting = FALSE
  /\ \E l \in Loads : loads = [k \in Loads |-> IF k = l THEN Sent(1, "Tous")
                                                        ELSE NoLoad]
  /\ patches = [q \in Patches |-> NoPatch]
  /\ current = FALSE /\ unseen = FALSE

-----------------------------------------------------------------------------
(* The administrator.                                                      *)

NoDialog   == selected = NoRow /\ target = NoReview
TotalPages == IF total = 0 THEN 1 ELSE (total + PageSize - 1) \div PageSize

OnSearch(l, f) ==
  /\ NoDialog
  /\ Load(l, 1, f)
  /\ UNCHANGED <<board, dialogs, patches, unseen>>

\* Variant: the arrow back is never disabled.
PageButtonsUnguarded == ((page - 2 .. page + 2) \cap (1 .. TotalPages))
                          \cup {page - 1}

\* Variant: the numbers stop before the last page.
PageButtonsShort == ((page - 2 .. page + 2) \cap (1 .. TotalPages - 1))
                      \cup (IF page > 1 THEN {page - 1} ELSE {})

\* Two pages on either side, and the arrow back, which does not look at the
\* number of pages.
PageButtons == ((page - 2 .. page + 2) \cap (1 .. TotalPages))
                 \cup (IF page > 1 THEN {page - 1} ELSE {})

\* The page buttons are part of the table: none while it loads or is empty.
GoTo(l, p) ==
  /\ NoDialog
  /\ ~loading /\ rows # {}
  /\ TotalPages > 1 /\ p \in PageButtons
  /\ Load(l, p, filter)
  /\ UNCHANGED <<board, dialogs, patches, unseen>>

\* Variant: opening a dialog resets the flag of a review that is under way.
OpenReviewResets(row, m) ==
  /\ row.statut # Decision(m)
  /\ target' = [id |-> row.id, mode |-> m]
  /\ selected' = NoRow
  /\ acting' = FALSE
  /\ UNCHANGED <<board, table, loads, patches, current, unseen>>

\* A decision is offered unless the row shows that it was made already.
OpenReview(row, m) ==
  /\ row.statut # Decision(m)
  /\ target' = [id |-> row.id, mode |-> m]
  /\ selected' = NoRow
  /\ UNCHANGED <<board, table, acting, loads, patches, current, unseen>>

OpenFromTable(row, m) == /\ NoDialog
                         /\ ~loading
                         /\ OpenReview(row, m)

\* The detail keeps the row as it was when it was opened.
Select(row) ==
  /\ NoDialog
  /\ ~loading
  /\ selected' = row
  /\ UNCHANGED <<board, table, target, acting, loads, patches, current, unseen>>

OpenFromDetail(m) == selected # NoRow /\ OpenReview(selected, m)

Close ==
  /\ ~NoDialog
  /\ selected' = NoRow
  /\ target' = NoReview
  /\ UNCHANGED <<board, table, acting, loads, patches, current, unseen>>

\* A rejection without a reason only shows an error.
DoReview(q, n) ==
  /\ target # NoReview
  /\ ~acting
  /\ (target.mode = "rejeter") = (n # Null)
  /\ patches[q] = NoPatch
  /\ patches' = [patches EXCEPT ![q] = [stage |-> "sent", review |-> target,
                                        note |-> n]]
  /\ acting' = TRUE
  /\ UNCHANGED <<board, table, selected, target, loads, current, unseen>>

-----------------------------------------------------------------------------
(* The server and the network.                                             *)

Answer(l) ==
  LET q == loads[l] IN
  /\ q.stage = "sent"
  /\ loads' = [loads EXCEPT
                 ![l] = [q EXCEPT !.stage = "answered",
                                  !.rows  = Slice(q.page, q.filter),
                                  !.total = Cardinality(Matches(q.filter))]]
  /\ unseen' = (unseen /\ ~q.latest)
  /\ UNCHANGED <<board, table, dialogs, patches, current>>

Show(l) ==
  LET q == loads[l] IN
  /\ q.stage = "answered"
  /\ rows' = q.rows
  /\ total' = q.total
  /\ loading' = FALSE
  /\ current' = q.latest
  /\ loads' = [loads EXCEPT ![l] = NoLoad]
  /\ UNCHANGED <<board, page, filter, dialogs, patches, unseen>>

\* There is no error handler: the table goes on loading.
LoadFailed(l) ==
  /\ loads[l] # NoLoad
  /\ loads' = [loads EXCEPT ![l] = NoLoad]
  /\ UNCHANGED <<board, table, dialogs, patches, current, unseen>>

Apply(q) ==
  LET p == patches[q] IN
  /\ p.stage = "sent"
  /\ p.review.id \in Board!Live
  /\ IF p.review.mode = "valider" THEN Board!Approve(p.review.id)
                                  ELSE Board!Reject(p.review.id, p.note)
  /\ patches' = [patches EXCEPT ![q].stage = "applied"]
  /\ UNCHANGED <<table, dialogs, loads, current, unseen>>

\* Variant: the table is not loaded again after a review.
ReviewDoneOnly(q, l) ==
  /\ patches[q].stage = "applied"
  /\ patches' = [patches EXCEPT ![q] = NoPatch]
  /\ target' = NoReview
  /\ acting' = FALSE
  /\ UNCHANGED <<board, table, selected, loads, current, unseen>>

\* The reply closes the review dialog that is open, whichever it is.
ReviewDone(q, l) ==
  /\ patches[q].stage = "applied"
  /\ patches' = [patches EXCEPT ![q] = NoPatch]
  /\ target' = NoReview
  /\ acting' = FALSE
  /\ Load(l, page, filter)
  /\ UNCHANGED <<board, selected, unseen>>

\* An error reply (the mémoire is gone, say), a lost request or a lost reply.
ReviewFailed(q) ==
  /\ patches[q] # NoPatch
  /\ patches' = [patches EXCEPT ![q] = NoPatch]
  /\ acting' = FALSE
  /\ unseen' = (unseen \/ patches[q].stage = "applied")
  /\ UNCHANGED <<board, table, selected, target, loads, current>>

\* Everybody else: students submit and withdraw, others review.
Others ==
  /\ Board!Next
  /\ \A id, j \in MemoireIds :   \* submitted in the order of their numbers
       j > id /\ board'[id] # board[id] /\ board[id] = Board!Unsubmitted
         => board[j] = Board!Unsubmitted
  /\ unseen' = TRUE
  /\ UNCHANGED <<table, dialogs, loads, patches, current>>

-----------------------------------------------------------------------------
User == \/ \E l \in Loads, f \in Filters : OnSearch(l, f)
        \/ \E l \in Loads, p \in PageButtons : GoTo(l, p)
        \/ \E row \in rows, m \in Modes : OpenFromTable(row, m)
        \/ \E row \in rows : Select(row)
        \/ \E m \in Modes : OpenFromDetail(m)
        \/ Close
        \/ \E q \in Patches, n \in Notes \cup {Null} : DoReview(q, n)

Network == \/ \E l \in Loads : Answer(l) \/ Show(l) \/ LoadFailed(l)
           \/ \E q \in Patches : Apply(q) \/ ReviewFailed(q)
           \/ \E q \in Patches, l \in Loads : ReviewDone(q, l)

Next == User \/ Network \/ Others

Spec == Init /\ [][Next]_vars

-----------------------------------------------------------------------------
(* Properties.                                                             *)

Statuts == {"Absent", "Delivre", "Valide", "Rejete", "Retire"}
Rows    == [id : MemoireIds, statut : Statuts]
Pages   == Nat \ {0}
Reviews == [id : MemoireIds \cup {Null}, mode : Modes]

ListRequests == [stage : {"none", "sent", "answered"}, latest : BOOLEAN,
                 page : Pages, filter : Filters,
                 rows : SUBSET Rows, total : Nat]
PatchRequests == [stage : {"none", "sent", "applied"}, review : Reviews,
                  note : Notes \cup {Null}]

\* The types of the variables.  That pages count from 1 is for the buttons to
\* ensure: the API computes an offset from the number it is sent.
TypeOK ==
  /\ board \in [MemoireIds -> [statut : Statuts, note : Notes \cup {Null}]]
  /\ page \in Pages /\ filter \in Filters
  /\ rows \in SUBSET Rows /\ total \in Nat /\ loading \in BOOLEAN
  /\ selected \in Rows \cup {NoRow}
  /\ target \in Reviews /\ acting \in BOOLEAN
  /\ loads \in [Loads -> ListRequests]
  /\ patches \in [Patches -> PatchRequests]
  /\ current \in BOOLEAN /\ unseen \in BOOLEAN

UnderWay == {q \in Patches : patches[q] # NoPatch}

\* At most one review of the page is under way, and `acting` says so, although
\* dialogs are closed and opened while it is and `acting` belongs to all of
\* them (the disabled button of the dialog against doReview and its replies).
OneReview == /\ \A p, q \in UnderWay : p = q
             /\ acting = (UnderWay # {})

\* Nothing is awaited, and the table shows the reply of the latest load(),
\* which nobody else's change has made old.
AtRest == /\ \A l \in Loads : loads[l] = NoLoad
          /\ UnderWay = {}
          /\ current /\ ~unseen

\* When the page has come to rest, the table is what the server would answer
\* to the page and filter that the controls show, the administrator's own
\* reviews included: whatever changes one of them loads the table again.
TableFaithful == AtRest => /\ ~loading
                           /\ rows = Slice(page, filter)
                           /\ total = Cardinality(Matches(filter))

Distance(p, q) == IF p < q THEN q - p ELSE p - q

\* Nothing that matches is out of reach.  At rest, every mémoire of the filter
\* is on one of the pages that the controls count, and from a page with rows
\* some button leads nearer to each of them.  An empty table means that
\* nothing matches, except where reviews or withdrawals have emptied the last
\* page under the administrator: the number of the page is kept by load(), and
\* only a new search leads back.
NothingOutOfReach ==
  AtRest =>
    /\ \A id \in Matches(filter) :
         \E p \in 1 .. TotalPages : Row(id) \in Slice(p, filter)
    /\ rows # {} => \A p \in (1 .. TotalPages) \ {page} :
         \E b \in PageButtons : Distance(b, p) < Distance(page, p)
    /\ rows = {} <=> Matches(filter) = {} \/ page > TotalPages
=============================================================================
