---------------------------- MODULE ProfileProofs ---------------------------
(***************************************************************************)
(* Proofs about Profile: the types, and that the profile on display is the *)
(* stored row as long as nobody else's save came in between.               *)
(***************************************************************************)
EXTENDS Profile, TLAPS

RequestType == [kind : Kinds, stage : Stages, to : {"page", "tab", "nobody"},
                read : MaybeRow, asked : MaybeRow, clean : BOOLEAN]

LEMMA NoRequestType == NoRequest \in RequestType
BY DEF NoRequest, RequestType, Kinds, Stages, MaybeRow

(* Sending, freeing and moving on keep requests well typed. *)
LEMMA SendType ==
  ASSUME req \in [Requests -> RequestType], NEW q \in Requests, NEW kind \in Kinds,
         NEW to \in {"page", "tab", "nobody"}, NEW asked \in MaybeRow,
         Send(q, kind, to, asked)
  PROVE  req' \in [Requests -> RequestType]
BY NoRequestType DEF Send, NoRequest, RequestType, Stages, MaybeRow

LEMMA FreeType ==
  ASSUME req \in [Requests -> RequestType], NEW q \in Requests, Free(q)
  PROVE  req' \in [Requests -> RequestType]
BY NoRequestType DEF Free

(* The UPDATE of a row gives a row. *)
LEMMA MergeType ==
  ASSUME row \in Rows, NEW read \in Rows, NEW asked \in Rows
  PROVE  [f \in Fields |-> Column(row[f], read[f], asked[f])] \in Rows
BY DEF Rows, Column

(* An UPDATE of the row that was read writes what was asked for. *)
LEMMA MergeFresh ==
  ASSUME row \in Rows, NEW asked \in Rows
  PROVE  [f \in Fields |-> Column(row[f], row[f], asked[f])] = asked
BY DEF Rows, Column

-----------------------------------------------------------------------------
(* The invariant.                                                          *)

\* What a request holds at each stage, and what it knows of the row while
\* nobody else saves it.
Holds(q) ==
  /\ req[q].kind \in {"own", "admin"} => req[q].asked \in Rows
  /\ req[q].stage = "read" => req[q].read \in Rows
  /\ req[q].stage = "read" /\ req[q].clean => req[q].read = row
  /\ req[q].stage = "saved" => req[q].kind \in {"own", "admin"}
  /\ req[q].stage = "saved" /\ req[q].clean => req[q].asked = row

\* TypeOK without the form.
Typed ==
  /\ row \in Rows
  /\ boot \in {"starting", "bootstrapped", "running", "out"}
  /\ current \in MaybeRow
  /\ view \in [open : BOOLEAN, saving : BOOLEAN, savingPwd : BOOLEAN]
  /\ req \in [Requests -> RequestType]
  /\ known \in BOOLEAN

ProfileInv == Typed /\ (\A q \in Requests : Holds(q)) /\ HeaderFaithful

LEMMA InvInit == Init => ProfileInv
  <1> SUFFICES ASSUME Init PROVE ProfileInv
    OBVIOUS
  <1>1. Typed
    BY NoRequestType DEF Init, Typed, MaybeRow, Away, RequestType
  <1>2. \A q \in Requests : Holds(q)
    BY DEF Init, Holds, NoRequest
  <1> QED BY <1>1, <1>2 DEF ProfileInv, HeaderFaithful, Init

\* Steps that touch neither the row nor what is displayed, and leave each
\* request as it is or give it contents that still hold.
LEMMA Quiet ==
  ASSUME ProfileInv, UNCHANGED <<row, current, known>>,
         req' \in [Requests -> RequestType],
         boot' \in {"starting", "bootstrapped", "running", "out"},
         view' \in [open : BOOLEAN, saving : BOOLEAN, savingPwd : BOOLEAN],
         \A q \in Requests : Holds(q)'
  PROVE  ProfileInv'
BY DEF ProfileInv, Typed, HeaderFaithful, RequestType

LEMMA SendHolds ==
  ASSUME ProfileInv, NEW q \in Requests, NEW kind, NEW to, NEW asked,
         kind \in {"own", "admin"} => asked \in Rows,
         Send(q, kind, to, asked), UNCHANGED row
  PROVE  \A k \in Requests : Holds(k)'
  <1> DEFINE sent == [NoRequest EXCEPT !.kind = kind, !.to = to, !.asked = asked,
                        !.stage = IF boot = "out" THEN "refused" ELSE "sent"]
  <1>1. \A k \in Requests : req'[k] = IF k = q THEN sent ELSE req[k]
    BY DEF Send, ProfileInv, Typed
  <1>2. /\ sent.kind = kind /\ sent.asked = asked
        /\ sent.stage \in {"sent", "refused"}
    BY DEF NoRequest
  <1> HIDE DEF sent
  <1> QED BY <1>1, <1>2 DEF Holds, ProfileInv

LEMMA FreeHolds ==
  ASSUME ProfileInv, NEW q \in Requests, Free(q), UNCHANGED row
  PROVE  \A k \in Requests : Holds(k)'
  <1>1. \A k \in Requests : req'[k] = IF k = q THEN NoRequest ELSE req[k]
    BY DEF Free, ProfileInv, Typed
  <1> QED BY <1>1 DEF Holds, ProfileInv, NoRequest

LEMMA ReqTyped == Typed => req \in [Requests -> RequestType]
  BY DEF Typed, RequestType

-----------------------------------------------------------------------------
(* Every step preserves it.                                                *)

\* Leaving the page and reloading the tab only change who takes the replies.
LEMMA Readdressed ==
  ASSUME ProfileInv, UNCHANGED row,
         NEW to \in [Requests -> {"page", "tab", "nobody"}],
         req' = [q \in Requests |-> [req[q] EXCEPT !.to = to[q]]]
  PROVE  /\ req' \in [Requests -> RequestType]
         /\ \A q \in Requests : Holds(q)'
  <1>1. \A q \in Requests :
          /\ req'[q] \in RequestType
          /\ req'[q].kind = req[q].kind /\ req'[q].stage = req[q].stage
          /\ req'[q].read = req[q].read /\ req'[q].asked = req[q].asked
          /\ req'[q].clean = req[q].clean
    BY ReqTyped DEF ProfileInv, RequestType
  <1> QED BY <1>1 DEF Holds, ProfileInv

LEMMA StepLoggedOut == ProfileInv /\ LoggedOut => ProfileInv'
  <1> SUFFICES ASSUME ProfileInv, LoggedOut PROVE ProfileInv'
    OBVIOUS
  <1>1. \A q \in Requests : Holds(q)'
    BY DEF ProfileInv, LoggedOut, Holds
  <1> QED BY <1>1 DEF ProfileInv, LoggedOut, Typed, MaybeRow, HeaderFaithful, page

LEMMA StepReload == ProfileInv /\ Reload => ProfileInv'
  <1> SUFFICES ASSUME ProfileInv, Reload PROVE ProfileInv'
    OBVIOUS
  <1> DEFINE to == [q \in Requests |-> "nobody"]
  <1>1. req' = [q \in Requests |-> [req[q] EXCEPT !.to = to[q]]]
    BY DEF Reload
  <1>2. /\ req' \in [Requests -> RequestType]
        /\ \A q \in Requests : Holds(q)'
    BY <1>1, Readdressed DEF Reload
  <1> QED BY <1>2 DEF ProfileInv, Reload, Typed, MaybeRow, HeaderFaithful,
                      RequestType, Away

LEMMA StepLeavePage == ProfileInv /\ LeavePage => ProfileInv'
  <1> SUFFICES ASSUME ProfileInv, LeavePage PROVE ProfileInv'
    OBVIOUS
  <1> DEFINE to == [q \in Requests |-> IF req[q].to = "page" THEN "tab"
                                                           ELSE req[q].to]
  <1>1. to \in [Requests -> {"page", "tab", "nobody"}]
    BY ReqTyped DEF ProfileInv, RequestType
  <1>2. req' = [q \in Requests |-> [req[q] EXCEPT !.to = to[q]]]
    BY DEF LeavePage
  <1>3. /\ req' \in [Requests -> RequestType]
        /\ \A q \in Requests : Holds(q)'
    BY <1>1, <1>2, Readdressed DEF LeavePage
  <1> QED BY <1>3, Quiet DEF LeavePage, Away, ProfileInv, Typed

LEMMA StepBoot ==
  ProfileInv /\ (KeycloakInit \/ AuthServiceCreated \/ OpenPage) => ProfileInv'
  <1> SUFFICES ASSUME ProfileInv, KeycloakInit \/ AuthServiceCreated \/ OpenPage
               PROVE  ProfileInv'
    OBVIOUS
  <1>1. UNCHANGED <<row, current, req, known>>
    BY DEF KeycloakInit, AuthServiceCreated, OpenPage, page
  <1>2. /\ boot' \in {"starting", "bootstrapped", "running", "out"}
        /\ view' \in [open : BOOLEAN, saving : BOOLEAN, savingPwd : BOOLEAN]
    BY DEF KeycloakInit, AuthServiceCreated, OpenPage, Away, ProfileInv, Typed, page
  <1>3. \A q \in Requests : Holds(q)'
    BY <1>1 DEF ProfileInv, Holds
  <1> QED BY <1>1, <1>2, <1>3, Quiet, ReqTyped DEF ProfileInv

LEMMA StepTokenRefreshed ==
  ASSUME ProfileInv, NEW q \in Requests, TokenRefreshed(q)
  PROVE  ProfileInv'
  <1>1. /\ req' \in [Requests -> RequestType]
        /\ \A k \in Requests : Holds(k)'
    BY SendType, SendHolds, ReqTyped DEF TokenRefreshed, ProfileInv, Kinds, MaybeRow
  <1> QED BY <1>1, Quiet DEF TokenRefreshed, app, page, ProfileInv, Typed

LEMMA StepSavePassword ==
  ASSUME ProfileInv, NEW q \in Requests, SavePassword(q)
  PROVE  ProfileInv'
  <1>1. /\ req' \in [Requests -> RequestType]
        /\ \A k \in Requests : Holds(k)'
    BY SendType, SendHolds, ReqTyped DEF SavePassword, ProfileInv, Kinds, MaybeRow
  <1> QED BY <1>1, Quiet DEF SavePassword, ProfileInv, Typed

LEMMA StepType ==
  ASSUME ProfileInv, NEW f \in Fields, NEW v \in Values, Type(f, v)
  PROVE  ProfileInv'
  <1>1. \A k \in Requests : Holds(k)'
    BY DEF ProfileInv, Holds, Type
  <1> QED BY <1>1, Quiet DEF Type, ProfileInv, Typed

LEMMA StepSaveInfo ==
  ASSUME ProfileInv, form \in Rows, NEW q \in Requests, SaveInfo(q)
  PROVE  ProfileInv'
  <1>1. /\ req' \in [Requests -> RequestType]
        /\ \A k \in Requests : Holds(k)'
    BY SendType, SendHolds, ReqTyped DEF SaveInfo, ProfileInv, Kinds, MaybeRow
  <1> QED BY <1>1, Quiet DEF SaveInfo, ProfileInv, Typed

LEMMA StepAdministrator ==
  ASSUME ProfileInv, NEW q \in Requests, NEW asked \in Rows,
         AdministratorSaves(q, asked)
  PROVE  ProfileInv'
  <1> DEFINE sent == [NoRequest EXCEPT !.kind = "admin", !.stage = "sent",
                                       !.asked = asked]
  <1>1. /\ sent \in RequestType /\ sent.kind = "admin"
        /\ sent.stage = "sent" /\ sent.asked = asked
    BY DEF NoRequest, RequestType, Kinds, Stages, MaybeRow
  <1>2. \A k \in Requests : req'[k] = IF k = q THEN sent ELSE req[k]
    BY ReqTyped DEF AdministratorSaves, ProfileInv
  <1>3. req' \in [Requests -> RequestType]
    BY <1>1, ReqTyped DEF AdministratorSaves, ProfileInv
  <1> HIDE DEF sent
  <1>4. \A k \in Requests : Holds(k)'
    BY <1>1, <1>2 DEF Holds, ProfileInv, AdministratorSaves
  <1> QED BY <1>3, <1>4, Quiet DEF AdministratorSaves, app, page, ProfileInv, Typed

LEMMA StepFind ==
  ASSUME ProfileInv, NEW q \in Requests, Find(q) \/ NoSuchRoute(q)
  PROVE  ProfileInv'
  <1>1. CASE Find(q)
    <2> DEFINE found == [req[q] EXCEPT !.stage = "read", !.read = row,
                                       !.clean = TRUE]
    <2>1. /\ found \in RequestType /\ found.kind = req[q].kind
          /\ found.stage = "read" /\ found.read = row
          /\ found.asked = req[q].asked
      BY ReqTyped DEF ProfileInv, Typed, RequestType, Stages, MaybeRow
    <2>2. req' = [req EXCEPT ![q] = found]
      BY <1>1, ReqTyped DEF Find, ProfileInv, RequestType
    <2> HIDE DEF found
    <2>3. /\ req' \in [Requests -> RequestType]
          /\ \A k \in Requests : req'[k] = IF k = q THEN found ELSE req[k]
      BY <2>1, <2>2, ReqTyped DEF ProfileInv
    <2>4. \A k \in Requests : Holds(k)'
      BY <1>1, <2>1, <2>3 DEF Holds, ProfileInv, Find, Typed
    <2> QED BY <1>1, <2>3, <2>4, Quiet DEF Find, app, page, ProfileInv, Typed
  <1>2. CASE NoSuchRoute(q)
    <2> DEFINE lost == [req[q] EXCEPT !.stage = "unrouted"]
    <2>1. /\ lost \in RequestType /\ lost.kind = req[q].kind
          /\ lost.stage = "unrouted" /\ lost.asked = req[q].asked
      BY ReqTyped DEF ProfileInv, RequestType, Stages
    <2>2. req' = [req EXCEPT ![q] = lost]
      BY <1>2, ReqTyped DEF NoSuchRoute, ProfileInv, RequestType
    <2> HIDE DEF lost
    <2>3. /\ req' \in [Requests -> RequestType]
          /\ \A k \in Requests : req'[k] = IF k = q THEN lost ELSE req[k]
      BY <2>1, <2>2, ReqTyped DEF ProfileInv
    <2>4. \A k \in Requests : Holds(k)'
      BY <1>2, <2>1, <2>3 DEF Holds, ProfileInv, NoSuchRoute
    <2> QED BY <1>2, <2>3, <2>4, Quiet DEF NoSuchRoute, app, page, ProfileInv, Typed
  <1> QED BY <1>1, <1>2

\* The save makes every other request's knowledge of the row void; its own, if
\* nobody else saved since it read, is that the row is now what it asked for.
LEMMA StepSaveChanges ==
  ASSUME ProfileInv, NEW q \in Requests, SaveChanges(q)
  PROVE  ProfileInv'
  <1> DEFINE saved == [req[q] EXCEPT !.stage = "saved"]
             void(k) == [req[k] EXCEPT !.clean = FALSE]
  <1>1. /\ row \in Rows /\ req[q].read \in Rows /\ req[q].asked \in Rows
        /\ req[q].kind \in {"own", "admin"}
    BY DEF SaveChanges, ProfileInv, Holds, Typed
  <1>2. row' \in Rows
    BY <1>1, MergeType DEF SaveChanges
  <1>3. req[q].clean => row' = req[q].asked
    BY <1>1, MergeFresh DEF SaveChanges, ProfileInv, Holds
  <1>4. /\ saved \in RequestType /\ saved.kind = req[q].kind
        /\ saved.stage = "saved" /\ saved.asked = req[q].asked
        /\ saved.clean = req[q].clean
    BY ReqTyped DEF ProfileInv, RequestType, Stages
  <1>5. ASSUME NEW k \in Requests
        PROVE  /\ void(k) \in RequestType /\ void(k).kind = req[k].kind
               /\ void(k).stage = req[k].stage /\ void(k).asked = req[k].asked
               /\ void(k).read = req[k].read /\ void(k).clean = FALSE
    BY ReqTyped DEF ProfileInv, RequestType
  <1>6. \A k \in Requests : req'[k] = IF k = q THEN saved ELSE void(k)
    BY DEF SaveChanges
  <1>7. req' \in [Requests -> RequestType]
    BY <1>4, <1>5 DEF SaveChanges
  <1> HIDE DEF saved, void
  <1>8. \A k \in Requests : Holds(k)'
    <2>1. Holds(q)'
      BY <1>1, <1>3, <1>4, <1>6 DEF Holds
    <2>2. ASSUME NEW k \in Requests \ {q} PROVE Holds(k)'
      <3>1. Holds(k)
        BY DEF ProfileInv
      <3>2. /\ req'[k].kind = req[k].kind /\ req'[k].stage = req[k].stage
            /\ req'[k].read = req[k].read /\ req'[k].asked = req[k].asked
            /\ req'[k].clean = FALSE
        BY <1>5, <1>6
      <3> QED BY <3>1, <3>2 DEF Holds
    <2> QED BY <2>1, <2>2
  <1> QED BY <1>2, <1>7, <1>8
          DEF SaveChanges, ProfileInv, Typed, HeaderFaithful, RequestType

\* A reply that is delivered brings what its request knew.
LEMMA StepLoaded ==
  ASSUME ProfileInv, NEW q \in Requests, Loaded(q)
  PROVE  ProfileInv'
  <1>1. /\ req' \in [Requests -> RequestType]
        /\ \A k \in Requests : Holds(k)'
    BY FreeType, FreeHolds, ReqTyped DEF Loaded, ProfileInv
  <1>2. /\ req[q].read \in Rows /\ (req[q].clean => req[q].read = row)
        /\ req[q].clean \in BOOLEAN
    BY ReqTyped DEF Loaded, ProfileInv, Holds, RequestType
  <1>3. current' \in MaybeRow /\ known' \in BOOLEAN /\ (known' => current' = row)
    BY <1>2 DEF Loaded, ProfileInv, Typed, HeaderFaithful, MaybeRow
  <1> QED BY <1>1, <1>3
          DEF Loaded, page, ProfileInv, Typed, HeaderFaithful, RequestType

LEMMA StepSaved ==
  ASSUME ProfileInv, NEW q \in Requests, Saved(q)
  PROVE  ProfileInv'
  <1>1. /\ req' \in [Requests -> RequestType]
        /\ \A k \in Requests : Holds(k)'
    BY FreeType, FreeHolds, ReqTyped DEF Saved, ProfileInv
  <1>2. /\ req[q].asked \in Rows /\ (req[q].clean => req[q].asked = row)
        /\ req[q].clean \in BOOLEAN
    BY ReqTyped DEF Saved, ProfileInv, Holds, RequestType
  <1>3. current' \in MaybeRow /\ known' \in BOOLEAN /\ (known' => current' = row)
    BY <1>2 DEF Saved, ProfileInv, Typed, HeaderFaithful, MaybeRow
  <1>4. view' \in [open : BOOLEAN, saving : BOOLEAN, savingPwd : BOOLEAN]
    BY DEF Saved, Saving, ProfileInv, Typed
  <1> QED BY <1>1, <1>3, <1>4
          DEF Saved, ProfileInv, Typed, HeaderFaithful, RequestType

LEMMA StepOver ==
  ASSUME ProfileInv, NEW q \in Requests, AdministratorDone(q) \/ Failed(q)
  PROVE  ProfileInv'
  <1>1. Free(q) /\ UNCHANGED <<row, boot, current, known>>
    BY DEF AdministratorDone, Failed, app, page
  <1>2. /\ req' \in [Requests -> RequestType]
        /\ \A k \in Requests : Holds(k)'
    BY <1>1, FreeType, FreeHolds, ReqTyped DEF ProfileInv
  <1>3. view' \in [open : BOOLEAN, saving : BOOLEAN, savingPwd : BOOLEAN]
    <2> DEFINE pwd == view.savingPwd /\ ~(req[q].kind = "password" /\ req[q].to = "page")
    <2>1. /\ view \in [open : BOOLEAN, saving : BOOLEAN, savingPwd : BOOLEAN]
          /\ Saving(q, FALSE) \in BOOLEAN /\ pwd \in BOOLEAN
      BY DEF Saving, ProfileInv, Typed
    <2>2. CASE AdministratorDone(q)
      BY <2>1, <2>2 DEF AdministratorDone, app, page
    <2>3. CASE Failed(q)
      <3>1. view' = [view EXCEPT !.saving = Saving(q, FALSE), !.savingPwd = pwd]
        BY <2>3 DEF Failed
      <3> HIDE DEF pwd
      <3> QED BY <2>1, <3>1
    <2> QED BY <2>2, <2>3
  <1> QED BY <1>1, <1>2, <1>3, Quiet DEF ProfileInv, Typed

LEMMA InvNext == ProfileInv /\ form \in Rows /\ [Next]_vars => ProfileInv'
  <1> SUFFICES ASSUME ProfileInv, form \in Rows, [Next]_vars PROVE ProfileInv'
    OBVIOUS
  <1>1. CASE Session
    BY <1>1, StepBoot, StepLoggedOut, StepReload DEF Session
  <1>2. CASE User
    <2>1. CASE OpenPage \/ LeavePage
      BY <2>1, StepBoot, StepLeavePage
    <2>2. ASSUME NEW q \in Requests, SavePassword(q) PROVE ProfileInv'
      BY <2>2, StepSavePassword
    <2>3. ASSUME NEW q \in Requests, SaveInfo(q) PROVE ProfileInv'
      BY <2>3, StepSaveInfo
    <2>4. ASSUME NEW f \in Fields, NEW v \in Values, Type(f, v) PROVE ProfileInv'
      BY <2>4, StepType
    <2> QED BY <1>2, <2>1, <2>2, <2>3, <2>4 DEF User
  <1>3. ASSUME NEW q \in Requests, TokenRefreshed(q) PROVE ProfileInv'
    BY <1>3, StepTokenRefreshed
  <1>4. ASSUME NEW q \in Requests, NEW asked \in Rows, AdministratorSaves(q, asked)
        PROVE  ProfileInv'
    BY <1>4, StepAdministrator
  <1>5. ASSUME NEW q \in Requests,
               Find(q) \/ SaveChanges(q) \/ NoSuchRoute(q) \/ Ends(q)
        PROVE  ProfileInv'
    BY <1>5, StepFind, StepSaveChanges, StepLoaded, StepSaved, StepOver DEF Ends
  <1>6. CASE UNCHANGED vars
    BY <1>6 DEF vars, app, page, ProfileInv, Typed, Holds, HeaderFaithful
  <1> QED BY <1>1, <1>2, <1>3, <1>4, <1>5, <1>6 DEF Next

-----------------------------------------------------------------------------
(* The form.                                                               *)

\* The save of the page on display asks for the row in the fields that nobody
\* has typed into; no other page's reply is taken for its own.
FormInv ==
  /\ form \in Rows /\ typed \subseteq Fields /\ filled \in BOOLEAN
  /\ ~view.open => \A q \in Requests : req[q].to # "page"
  /\ FormFaithful
  /\ filled => \A q \in Requests : req[q].to = "page" /\ req[q].kind = "own" =>
                 \A f \in Fields \ typed : req[q].asked[f] = row[f]

LEMMA FormInit == Init => FormInv
  <1> SUFFICES ASSUME Init PROVE FormInv
    OBVIOUS
  <1>1. form \in Rows
    BY ConstantsAssumption DEF ConstantsAssumption, Init, Rows, Empty
  <1>2. ~filled /\ filled \in BOOLEAN /\ typed = {}
    BY DEF Init
  <1>3. \A q \in Requests : req[q].to # "page"
    BY DEF Init, NoRequest
  <1> QED BY <1>1, <1>2, <1>3 DEF FormInv, FormFaithful

\* Steps that leave the form and the row alone, and send nothing from the page.
LEMMA FormQuiet ==
  ASSUME FormInv, UNCHANGED <<row, form, filled, typed>>, view'.open = view.open,
         \A q \in Requests :
           \/ /\ req'[q].to = req[q].to /\ req'[q].kind = req[q].kind
              /\ req'[q].asked = req[q].asked
           \/ req'[q].to # "page"
  PROVE  FormInv'
  BY DEF FormInv, FormFaithful

\* Steps after which there is no page.
LEMMA FormGone ==
  ASSUME NoForm, ~view'.open, \A q \in Requests : req'[q].to # "page"
  PROVE  FormInv'
  BY ConstantsAssumption DEF ConstantsAssumption, NoForm, FormInv, FormFaithful, Rows, Empty

LEMMA FormSession == ProfileInv /\ FormInv /\ Session => FormInv'
  <1> SUFFICES ASSUME ProfileInv, FormInv, Session PROVE FormInv'
    OBVIOUS
  <1>1. CASE Reload
    <2>1. \A q \in Requests : req'[q].to # "page"
      BY <1>1 DEF Reload, ProfileInv, Typed, RequestType
    <2> QED BY <1>1, <2>1, FormGone DEF Reload, Away
  <1>2. CASE KeycloakInit \/ AuthServiceCreated \/ LoggedOut
    BY <1>2, FormQuiet DEF KeycloakInit, AuthServiceCreated, LoggedOut, page
  <1> QED BY <1>1, <1>2 DEF Session

LEMMA FormOpenLeave == ProfileInv /\ FormInv /\ (OpenPage \/ LeavePage) => FormInv'
  <1> SUFFICES ASSUME ProfileInv, FormInv, OpenPage \/ LeavePage PROVE FormInv'
    OBVIOUS
  <1>1. CASE OpenPage
    <2>1. form' \in Rows /\ (filled' => form' = row')
      BY <1>1, ConstantsAssumption
         DEF ConstantsAssumption, OpenPage, ProfileInv, Typed, HeaderFaithful,
             MaybeRow, Rows, Empty
    <2>2. \A q \in Requests : req'[q].to # "page"
      BY <1>1 DEF OpenPage, FormInv
    <2> QED BY <1>1, <2>1, <2>2 DEF OpenPage, FormInv, FormFaithful, ProfileInv, Typed
  <1>2. CASE LeavePage
    <2>1. \A q \in Requests : req'[q].to # "page"
      BY <1>2 DEF LeavePage, ProfileInv, Typed, RequestType
    <2> QED BY <1>2, <2>1, FormGone DEF LeavePage, Away
  <1> QED BY <1>1, <1>2

LEMMA FormType ==
  ASSUME FormInv, NEW f \in Fields, NEW v \in Values, Type(f, v)
  PROVE  FormInv'
  <1>1. form' \in Rows /\ \A g \in Fields \ {f} : form'[g] = form[g]
    BY DEF Type, FormInv, Rows
  <1> QED BY <1>1 DEF Type, FormInv, FormFaithful

\* What a request that has just been sent is.
LEMMA FormSend ==
  ASSUME ProfileInv, NEW q \in Requests, NEW kind, NEW to, NEW asked,
         Send(q, kind, to, asked)
  PROVE  /\ req'[q].kind = kind /\ req'[q].to = to /\ req'[q].asked = asked
         /\ \A k \in Requests \ {q} : req'[k] = req[k]
  BY DEF Send, ProfileInv, Typed, NoRequest

LEMMA FormRequests ==
  ASSUME ProfileInv, FormInv, NEW q \in Requests,
         TokenRefreshed(q) \/ SavePassword(q) \/ SaveInfo(q)
  PROVE  FormInv'
  <1>1. CASE TokenRefreshed(q)
    BY <1>1, FormSend, FormQuiet DEF TokenRefreshed, app, page
  <1>2. CASE SavePassword(q)
    <2>1. /\ req'[q].kind = "password" /\ \A k \in Requests \ {q} : req'[k] = req[k]
          /\ view.open /\ view'.open
          /\ UNCHANGED <<row, form, filled, typed>>
      BY <1>2, FormSend DEF SavePassword, ProfileInv, Typed
    <2> QED BY <2>1 DEF FormInv, FormFaithful
  <1>3. CASE SaveInfo(q)
    <2>1. /\ req'[q].asked = form /\ \A k \in Requests \ {q} : req'[k] = req[k]
          /\ view.open /\ view'.open
          /\ UNCHANGED <<row, form, filled, typed>>
      BY <1>3, FormSend DEF SaveInfo, ProfileInv, Typed
    <2> QED BY <2>1 DEF FormInv, FormFaithful
  <1> QED BY <1>1, <1>2, <1>3

LEMMA FormServer ==
  ASSUME ProfileInv, FormInv, NEW q \in Requests,
         \/ \E asked \in Rows : AdministratorSaves(q, asked)
         \/ Find(q) \/ NoSuchRoute(q)
  PROVE  FormInv'
  <1>1. /\ UNCHANGED <<row, form, filled, typed, view>>
        /\ \A k \in Requests \ {q} : req'[k] = req[k]
    BY DEF AdministratorSaves, Find, NoSuchRoute, app, page, ProfileInv, Typed
  <1>2. \/ req'[q].to # "page"
        \/ /\ req'[q].to = req[q].to /\ req'[q].kind = req[q].kind
           /\ req'[q].asked = req[q].asked
    <2>1. ASSUME NEW asked \in Rows, AdministratorSaves(q, asked)
          PROVE  req'[q].to # "page"
      BY <2>1 DEF AdministratorSaves, NoRequest, ProfileInv, Typed
    <2>2. ASSUME Find(q) \/ NoSuchRoute(q)
          PROVE  /\ req'[q].to = req[q].to /\ req'[q].kind = req[q].kind
                 /\ req'[q].asked = req[q].asked
      BY <2>2 DEF Find, NoSuchRoute, ProfileInv, Typed, RequestType
    <2> QED BY <2>1, <2>2
  <1> QED BY <1>1, <1>2, FormQuiet

\* The UPDATE of the page's own save writes no column that has not been typed
\* into; after anybody else's the form promises nothing.
LEMMA FormSaveChanges ==
  ASSUME ProfileInv, FormInv, NEW q \in Requests, SaveChanges(q)
  PROVE  FormInv'
  <1>1. /\ UNCHANGED <<view, form, typed>>
        /\ filled' = (filled /\ req[q].kind = "own" /\ req[q].to = "page")
        /\ \A k \in Requests : /\ req'[k].to = req[k].to
                               /\ req'[k].kind = req[k].kind
                               /\ req'[k].asked = req[k].asked
    BY DEF SaveChanges, ProfileInv, Typed, RequestType
  <1>2. ASSUME filled' PROVE \A f \in Fields \ typed : row'[f] = row[f]
    <2>1. \A f \in Fields \ typed : req[q].asked[f] = row[f]
      BY <1>1, <1>2 DEF FormInv
    <2> QED BY <2>1 DEF SaveChanges, Column
  <1> QED BY <1>1, <1>2 DEF FormInv, FormFaithful

LEMMA FormEnds ==
  ASSUME ProfileInv, FormInv, NEW q \in Requests, Ends(q)
  PROVE  FormInv'
  <1>1. UNCHANGED <<row, form, filled, typed>> /\ view'.open = view.open
    BY DEF Ends, Loaded, Saved, AdministratorDone, Failed, app, page,
           ProfileInv, Typed
  <1>2. req'[q] = NoRequest /\ \A k \in Requests \ {q} : req'[k] = req[k]
    BY DEF Ends, Loaded, Saved, AdministratorDone, Failed, Free, ProfileInv, Typed
  <1> QED BY <1>1, <1>2, FormQuiet DEF NoRequest

LEMMA FormNext == ProfileInv /\ FormInv /\ [Next]_vars => FormInv'
  <1> SUFFICES ASSUME ProfileInv, FormInv, [Next]_vars PROVE FormInv'
    OBVIOUS
  <1>1. CASE User
    BY <1>1, FormOpenLeave, FormType, FormRequests DEF User
  <1>2. CASE UNCHANGED vars
    BY <1>2, FormQuiet DEF vars, app, page
  <1> QED BY <1>1, <1>2, FormSession, FormRequests, FormServer, FormSaveChanges,
             FormEnds DEF Next

LEMMA BothNext == ProfileInv /\ FormInv /\ [Next]_vars => ProfileInv' /\ FormInv'
  BY InvNext, FormNext DEF FormInv

\* The types of the variables, for any number of requests and fields.
THEOREM TypeCorrect == Spec => []TypeOK
  <1>1. ProfileInv /\ FormInv => TypeOK
    BY DEF ProfileInv, FormInv, Typed, TypeOK, RequestType
  <1> QED BY InvInit, FormInit, BothNext, <1>1, PTL DEF Spec

\* However many requests, pages, reloads and administrators: what the shell and
\* the profile page show is the row as it is stored, unless somebody else has
\* saved it since the request whose reply they show has read it.
THEOREM HeaderFaithfulHolds == Spec => []HeaderFaithful
  <1>1. ProfileInv => HeaderFaithful
    BY DEF ProfileInv
  <1> QED BY InvInit, FormInit, BothNext, <1>1, PTL DEF Spec

\* A save of the page leaves alone what the user has not typed, for any fields,
\* writers and late replies, while its form shows what it was filled with.
THEOREM FormFaithfulHolds == Spec => []FormFaithful
  <1>1. FormInv => FormFaithful
    BY DEF FormInv
  <1> QED BY InvInit, FormInit, BothNext, <1>1, PTL DEF Spec
=============================================================================
