# Verification of the mémoires and user management application

The repository is a web application in which students submit their mémoires
(theses, with a PDF), administrators validate or reject them, and
administrators manage accounts: an ASP.NET Core API, an Angular client, a
PostgreSQL database, Keycloak for identities, MinIO for files, and nginx in
front. This directory holds TLA+ models of its components, the TLC runs that
check them on small instances, and TLAPS proofs for every instance.

Modules and runs are listed in `PROJECT.json`, whose `map` gives the source lines
behind each definition. To check one by hand:
`tlc -config MCMemoires_reviews.cfg MCMemoires`, `tlapm MemoiresProofs.tla`.

## 1. Inventory

### Backend

| Component | State | Operations | What makes it correct |
|---|---|---|---|
| Mémoires API: `MemoiresController` | table `Memoires` (status, note, owner, file) | `Create`, `GetMine`, `GetAll`, `Valider`, `Rejeter`, `GetFile`, `Delete` | status and note agree; a row has its owner; a deleted row stays deleted; a decision takes effect at one point |
| Files: `StorageService` | MinIO bucket, Redis entry that nobody reads | upload (bucket made on demand), presigned reads | a mémoire's file is its owner's, exists, and is no other mémoire's |
| Provisioning: middleware and `UserProfileService` | table `Users` | insert the profile on a first request | whoever is served has a profile |
| Accounts API: `UsersController` | tables `Users`; Keycloak through `KeycloakAdminService` | `Create`, `SetRole`, `ToggleActive`, `Delete`, `Update`, `UpdateMe`, lists, `Stats` | account and profile agree; one role each; a toggle changes something |
| `KeycloakAdminService` | cached service token | several HTTP calls for each operation, none in a transaction | as above; a token is valid when used |
| Entity Framework | per request: snapshot of the rows read | `SaveChanges` writes the changed columns | (external) modelled in `EfCore` |
| Identity: Keycloak | accounts, roles, tokens | (external) | a token outlives its account |

### Frontend

| Component | State | Operations | What makes it correct |
|---|---|---|---|
| Mémoires of a student: `MemoiresComponent` | list, form, deletion dialog, flags | load, fill, submit, delete | one submission at a time, nothing of it sent again with the next; list agrees with the server at rest; loading ends |
| Links to files: `getFileUrl`, `getFileName`, with `StorageService` and `GetFile` | none | the name of a file on its way to a key, a URL, a link and back | a link leads to its mémoire's file and to no other |
| All mémoires: `AdminMemoiresComponent` | table, filter, page, dialogs, flag `acting` | load, filter, page, review | one review at a time; table agrees with filter and page |
| Users: `UsersComponent` | table, filter, page, dialogs, flag `saving` | load, filter, page, create, edit, toggle, delete | one save at a time; table agrees; no name gets out of reach |
| Session: `AuthService`, guards, interceptor | `currentUser`, roles, subscription to Keycloak's events | load the profile, logout, reload | the profile on display is the stored one, and is there |
| Profile page: `ProfileComponent` | two forms and their flags | fill, save profile, change password | a save reaches row and header, and leaves alone what the user did |
| Dashboard and administration: `DashboardComponent`, `AdminComponent` | list, search term, page, figures | load by role, search, page, refresh | what a role is shown has been asked for; it agrees with the server at rest |
| Login, shell, routes, `AuthGuard` | roles of the session | login, links, redirections by role | each page is created with the data its reader may see |

Gateway, containers, realm, theme, monitoring and migrations are configuration
or generated code.

### Interaction, and what is hard about it

Pages call the API over HTTP through nginx; replies come in any order, late or
never, and update whatever component state there is by then. The API handles
requests concurrently; a handler runs alone only between two `await`s, and most
handlers touch two or three stores (PostgreSQL, Keycloak, MinIO, Redis) in
separate calls with no transaction across them. Any call may fail, and the
process may stop, after some stores have changed. Entities have no concurrency
token. The client of Keycloak raises events that components may or may not hear.

The places where this bites are the `hazards` of `PROJECT.json`, each with its
line; the properties below were written for them.

## 2. Modules

### `EfCore`, `Memoires`, `ReviewBoard`, `ColumnBoard`

`Memoires` models the mémoires API down to the awaited call. A request occupies
a slot of `Requests`; its record `req[r]` holds `pc`, the call it is waiting
for, and the locals that live across it: who sent it, the mémoire, the object it
has uploaded, Entity Framework's snapshot (`read`), and the values assigned
(`new`). The actions follow the code:

- `Arrive`, `Provision`, `ProvisionRefused`: authentication and the middleware.
- `CreateWithoutFile`, `CreateWithFile`, `PutBucket`, `PutObject`, `CacheKey`,
  `InsertMemoire`, `InsertRefused`: `Create` with `StorageService.UploadPdfAsync`.
- `FindForReview` (`Valider`, `Rejeter`), `SaveReview`, `SaveMissed`.
- `FindForDelete`, `Remove`; `DeleteUser` is the cascade from table `Users`.
- `Fail`: an exception, a client that hangs up, or a crash, wherever the request
  stands. What the stores hold by then stays.

`MergedReview` applies `EfCore!Column` to status and note: the UPDATE names only
the columns that differ from the snapshot, which may be older than the row.

`ReviewBoard` is the abstract specification: decisions are indivisible, a
mémoire is absent, pending, decided or withdrawn. `Memoires!ImplementsBoard`
states the refinement under `BoardView`, for one review at a time.

Several at a time are another matter, because of `MergedReview`. Two properties
say what is left of the promise then. `DecisionsIndivisible`: every step is still
one of the board's, except a save over a review that was saved after this
request's `FindAsync` (`Overlaps`). `ImplementsColumns`: even with such saves the
API implements `ColumnBoard`, where a decision is stored column by column, each
keeping the value that is stored there or taking the one decided; no column goes
back to a value that somebody has replaced.

`NoFileForgotten` is about the hand-over of a file from the upload to the row:
the object's name is lost only with its row, or when its submission ends without
one. Nothing collects such objects.

`stale` is a history variable: the mémoires whose last review overwrote a
change that it had not seen. `RejectionHasReason`, with no such exception, is
violated (section 4).

### `Accounts`, `Directory`

The accounts API over Keycloak and table `Users`, again one action per call:
`Create`, `PostUser`, then the role (`ListRoles`, `RemoveRoles`, `LookupRole`,
`AddRole`), `InsertProfile`; `ToggleActive`, `ReadStatus`, `PutEnabled`;
`Delete`, `DeleteAccount`, `DeleteProfile`; `Visit` and `Provision` for any
authenticated request. `Register`, `IssueToken` and `ExpireToken` are Keycloak's
own. A token validates until it expires, whatever becomes of its account.
`Managers` and `Deleters` say which slots may serve which operations, so that a
run or a theorem can say "one change at a time" and mean it.

`Directory` is the abstract specification: one directory of people, each with an
address, a login, roles and a profile, changed one indivisible step at a time
(`Join`, `Enrol`, `Grant`, `Revoke`, `Toggle`, `Dismiss`, `Erase`), though the API
keeps an entry in two stores and each operation takes several calls. With one
manager `Accounts` implements it (`ImplementsDirectory`); with several, every step
is still one of the directory's or none, except that `SetRoleAsync` may remove or add
a role beside one that was added after it had listed them (`ChangesIndivisible`).

### `StudentPage`, `ReviewPage`, `UsersPage`, `Listing`

A page is the state of its component (signals, filter, dialogs, flags) and the
requests it is waiting for, one slot each; clicks and replies are actions. The
server's side of a request is one step here (`Answer`, `Apply...`): what such
a step is made of is the subject of the other modules. `Others` is everything
that anybody else does to the same data. Replies come in any order, and so do
errors; where the code has no error handler, the action changes no signal.

Two history variables say when a page is at rest: `current`, the reply shown is
the one to the latest `load()`; `unseen`, something changed that this `load()`
cannot have seen. `StudentPage` takes the steps of `ReviewBoard` for its server.

`StudentPage` has the submission form too. `draft` is what it holds, its required
fields as one part and the file as another. `taken` is a history variable: the
parts of `draft` that the server has already got; `doubtful`, those of them whose
submission has ended in an error, as when the reply was lost. The code cannot
tell that case from a submission that failed, keeps the form, and sends it again
on the next click.

`Listing` is the query of `GET /api/users`: `OrderBy(u => u.LastName)`, `Skip`,
`Take`. Last names are not unique, and the database may return those who share one
in any order, another one for the next page. `Orders` are therefore all the orders
that the sort allows, `Cuts` the sets of rows that a page may consist of, and each
`Answer` of `UsersPage` and of `Dashboard` chooses one. `NobodyHidden` is about what is certain
all the same (`SureOfName`) and about what may be (`Possible`).

### `FileKey`

No state: the functions that a file's name goes through, from `UploadPdfAsync`
(sanitised, prefixed with a Guid, escaped into the row's URL) through
`getFileUrl` (the query is read and written again) to `GetFile` (the framework
reads the parameter and the handler unescapes it once more), and `getFileName`,
which proposes the name of the download. A text is a sequence of tokens, each a
character with the number of times it is escaped; escaping adds one to what needs
it, unescaping takes one away where there is one. That keeps apart what the
properties need: a name that holds a `/`, one that holds `%2F`, and so on.
`StudentLinks` puts the two together: the links of the rows of the page, for a
given set of names. `MCStudentPage` takes all short names, `FileKeyProofs` any.

### `Profile`

The user's row, his browser's copy of it (`AuthService.currentUser`) and those who
write it: the user on his profile page, and administrators. The tab goes through
`starting`, `bootstrapped` (`keycloak.init` is over), `running` (`AuthService`
exists and listens) and perhaps `out`. Pages are left and tabs reloaded while
requests are under way: `req[q].to` says what is still there to take the reply.
`known` is a history variable: the copy comes from a reply with no save of
somebody else between the read it rests on and now.

`form` is the form of the page: filled once, when the page is opened, from the
copy there is, if there is one; `SaveInfo` sends every field. `filled` and `typed`
are history variables: it was filled from a `known` copy and nobody else has saved
since; the fields the user has typed into. The page can be opened after a logout
too: only the shell's route has the guard, and it is not asked again between its pages. `Required` are the fields that must not
be `Blank`, the two names.

### `Dashboard`

The two pages that only read, in one tab: `role` (of the token, as `AuthService`
has it), `route`, the list with its search term and page, the figures, and the
requests under way. A component is created by a navigation (`Login`, `Arrive`,
`Follow`, by way of `Landing`, the guard; `Follow` works without a session too, as
the shell's own guard is asked only when the shell is entered, and `Guest` stands for the
pages outside it) and asks for what `Due` says of the role
of that moment; the templates show what `Displays` says of the role of the
present, which `Refresh` and `SessionEnds` change. `OnSearch`, `GoToPage` and
`RefreshStats` send further requests without cancelling those before; `Answer`,
`ShowUsers`, `ShowFigures` and `Fails` are their ends, in any order. `shows`, a
history variable, says where what is displayed comes from: nothing yet, the latest
reply, an older one, a failure. `unseen` is as above.

## 3. Runs and bounds

| Run | Checks | Instance |
|---|---|---|
| `memoires_reviews` | `TypeOK`, `ReviewConsistent`, `NeverResurrected`, `DecisionsIndivisible`, `ImplementsColumns` | 3 requests that review, delete and submit one mémoire; 2 notes |
| `memoires_board` | `OwnerPresent`, `FileFaithful`, `NoFileForgotten`, `ImplementsBoard` | a student and an administrator, 2 mémoires, 2 objects, 2 requests, one of which reviews |
| `accounts_manage` | `TypeOK`, `AtMostOneRole`, `ServedHasProfile`, `ProfileGoesLast`, `CreatedAsAsked`, `ToggleFlips`, `ImplementsDirectory` | 2 people, 2 e-mails, 2 roles, a realm role that is not the application's, an unknown one; one manager, one deleter |
| `review_page` | `TypeOK`, `OneReview`, `TableFaithful`, `NothingOutOfReach` | 2 mémoires on pages of one row, 2 filters, 2 list requests, 2 reviews |
| `student_page` | `OneSubmission`, `ListFaithful`, `NothingSentTwice`, `LoadingAwaited`, `LoadingEnds`; `LinksFind`, `LinksFindNoOther`, `NamesKept` | 1 mémoire, 1 content for each part of the form, 2 requests of each kind; names of up to 3 tokens (2 against each other) |
| `users_page_table` | `OneSave`, `TableFaithful` | 1 user of 1 name, 2 roles, 2 list requests, 2 saves, 1 toggle or deletion |
| `users_page_paging` | `TypeOK`, `NobodyHidden` | 2 users, 2 last names, pages of one row, 2 roles, 1 list request; all changes are made by others |
| `profile` | `HeaderFaithful`, `FormFaithful`, `ProfileShown` | 1 column of 2 values, one of them blank, 2 requests of any kind |
| `dashboard` | `TypeOK`, `ShowsTheServer`, `NothingLeftOut` | 2 users of 1 status and so 1 last name, pages of one row, 2 search terms, 2 requests |
| `memoires_reason`, `accounts_orphan`, `profile_login` | one property each, which the code violates | see section 4 |

Why these are enough. The races of this code are between two requests about one
thing, or two replies to one page; the third slot of `memoires_reviews` puts a
deletion between two reviews. Two users, or mémoires, on pages of one row give
first, last and vanished pages; with one last name between them, page 1 and page 2
may show the same one. Names of three tokens can have a letter between
two separators, an escape beside a percent sign, and every reserved character.
The columns of a profile are independent, and one that may stay blank, the
telephone, is the one that an unfilled form would erase. Two values are what it
takes for an UPDATE to write a column or to leave it; that two columns of a profile
may come from two saves needs a second one, which the theorem `HeaderFaithfulHolds`
covers and `memoires_reviews` exercises on status and note. A second slot is there
for each submission, review or save that must not happen twice. Two requests of the
dashboard are the list's and the figures', or two of a kind whose replies overtake
each other. Ids and object names bound how many rows and objects are ever made; the slots bound how many requests
wait at once; and roles, notes and values stand for any number of them, the code
treating them alike. One number has a bound in a guard, `MaxPage` of `Dashboard`:
its button "›" is disabled on exactly the last page, so that it leads ever further
from a page that deletions have left beyond the last. No run uses a state
constraint. The proofs remove these bounds for the safety
properties. Symmetry is used where slots, ids or values are interchangeable and
the run checks no liveness.

Each property of a passing run has a mutant, a definition changed the way a bug
would (an UPDATE of one column only, an object name without its Guid, a
dialog that resets a flag, a list that is not loaded again...), defined beside
the original under a comment `Variant`, for which the same run fails.

### Fairness

Only two specifications use any.

- `StudentPage!FairSpec`: weak fairness on each list request's end, its reply
  shown or its error. nginx gives up on the API after its default time limits,
  and a browser ends a request when its connection does. No click is fair, and
  no reply need be a good one: `LoadingEnds` holds because of the error handler.
- `Profile!FairSpec` (run `profile_login`): the tab starts up, requests end (the
  same reasons), and a profile request asked for again and again does not fail
  for ever, which is an assumption about the network. `LongSession` (run
  `profile`) adds that tokens go on being refreshed while the profile is missing,
  an assumption about the user and Keycloak: `ProfileShown` is conditional on it.
  It shows that the handler tries again after any failure; the run without it
  shows that nothing else does.

## 4. Where code and documents disagree

Three runs check what a document or a text of the program says, and find it
violated; the quotations are in `findings`.

| Run | What happens |
|---|---|
| `memoires_reason` | It takes two overlaps, as each decision writes only the columns that it changed. A validation that read no note writes the status alone: if it overlaps a rejection, it may leave the row validated with the rejection's note. A second validation that reads this row writes the note alone, `null`, and a second rejection that reads it, with the same note, the status alone: together they leave the mémoire rejected with no reason. |
| `accounts_orphan` | A deletion that stops between Keycloak and the database leaves a profile that no later deletion can remove. |
| `profile_login` | The events of a login come before `AuthService` listens: the profile is not loaded after a login, only after a refresh of the token or a save on the profile page. `realm-export.json` gives tokens an hour. |

`profile_login` rests on keycloak-angular 15 not replaying its events, and on
Angular waiting for `keycloak.init` before it creates components.

Other behaviours are part of the models, without a run of their own:

- Two changes of role that overlap leave both roles, although the design has
  `SetRoleAsync` retire the old one (`2026-08-07-keycloak-integration-design.md`,
  line 129): listing, removing and adding are separate calls. `AtMostOneRole` holds
  with one manager. The role to add is looked up after the old one has been removed
  (`LookupRole`), so that an unknown name leaves a user without any.
- The dialog that edits a user has a field for the role and sends it; `Update` has
  no such parameter, and no page calls `PATCH /api/users/{id}/role`. Line 196 of the
  same design has the administrator change a role from the panel (`ApplySave` of
  `UsersPage`: an edit leaves the role as it was).
- `Create` may leave an account without a profile (`PostUser`, then `Leave`); the
  middleware makes one up on the first login.
- A deleted mémoire's PDF stays in the bucket (`Remove`).
- A file whose name holds an escape, `a%2Fb.pdf`, is looked for under another key
  than it has, because `GetFile` unescapes what the framework has unescaped already;
  `LinksFind` leaves such names out, `LinksFindNoOther` does not. A `%` that begins
  no escape makes the download's name `document.pdf`.
- A reply to a submission that is lost looks like an error; the student who tries
  again submits the mémoire a second time (`doubtful`).
- A new account with the e-mail of one deleted in Keycloak only is served for ever
  without a profile (`Provision`); `ServedHasProfile` says that this is the only way.
- After a review that empties the last page, the page says that there is no
  mémoire and offers no way back (`ReviewDone`); `NothingOutOfReach` says that this
  is the only way for a mémoire to get out of reach.
- The role filter works on one page of users: the first may look empty while the
  second has somebody (`GetAll`).
- The list of users is sorted by last name alone (`UsersController.cs`, line 68), and
  each page is a query of its own: of two people who share a name one may be shown on
  both pages and the other on none (`Cuts`). No text of the repository promises
  otherwise. `NobodyHidden` says how far it can go: at rest, the pages up to the last
  are certain to show somebody of every name, on a page where each who has the name may
  be, so that whoever shares his with nobody is found.
- The form that changes the password calls a route that no controller has
  (`NoSuchRoute`).
- "Derniers utilisateurs enregistrés" shows the first five by last name, as `GetAll`
  sorts them (`Rows` of `Dashboard`); the dashboard's "›" is enabled beyond the last
  page (`GoToPage`).
- A failed list request leaves every list but the student's loading; a reply closes
  whatever dialog is open; an administrator's save from an old table overwrites the user's;
  a late reply sets the user again after a logout. See `hazards`.

## 5. Proofs

Eight modules, for any sets of users, mémoires, requests, and so on. The
assumptions on constants are those of each module's `ConstantsAssumption`: that
`Null` or `None` is not a value of another kind, that special slots and roles are
among the slots and roles, that pages have a size, that last names are
numbered in their order, and that users are finitely many.

- **`MemoiresProofs`.** `TypeCorrect` carries what a request holds at each stage.
  `OwnerAlwaysPresent` and `NeverResurrectedHolds` follow from which steps touch
  the tables. `ReviewsConsistent` needs `ReviewInv`: a request about to save a
  review holds a consistent one, and a merge with the row that was read gives
  just that. `FilesFaithful` needs `FileInv`: an object that an upload in
  progress holds is its user's and nobody else's (`UploadsPrivate`).
  The refinements rest on `DecisionInv`: a review in progress will assign a
  decision to a mémoire that has been submitted. Given that, `BoardNext` goes
  through the steps once: each is a step of the board, a stutter, or a save that
  overlaps, which merges columns. Whence, for any number of reviewers,
  `DecisionsIndivisibleHolds` and `ColumnsImplemented`. `BoardImplemented` assumes
  `OneReviewer`, at most one slot that reviews; under it (`SnapshotInv`) the row, if
  still there, is what that slot read, so that no save overlaps.
  `NoFileForgottenHolds` looks at what each step does to the names of objects in
  rows and requests: only `InsertMemoire` moves one, from the request to its row.
- **`AccountsProofs`.** `TypeCorrect`; `ProfileGoesLastHolds`: a deletion that has
  reached the row has removed the account, and ids are not given out twice.
  `ServedHasProfileHolds` by `EmailsDistinct` (no two accounts have one e-mail at
  a time, so that an INSERT refused for its e-mail met a deleted account's row)
  and `Provided`, which once true of an id stays so while its account is there.
  `AtMostOneRoleHolds`, `CreatedAsAskedHolds` and `ToggleFlipsHolds` assume
  `OneManager`, which the first needs (section 4).
  `ChangesIndivisibleHolds` is for any number of managers, by `RolesGo` (an account
  that is gone has taken its roles with it), `CreatedInv` (a creation that has its
  account inserts a profile under that account's address) and `DeletingInv`; a
  toggle needs no assumption, as one that was overtaken changes the flag or
  nothing. `DirectoryImplemented` adds `OneManager`, under which no role is missed.
- **`ReviewPageProofs`, `StudentPageProofs`, `UsersPageProofs`.** Types; the flag
  that disables a button is true exactly while a request of its kind is under
  way (`OneReview`, `OneSubmission`, `OneSave`), inductive as it stands; and
  `TableFaithful`/`ListFaithful` by `TableInv`/`ListInv`: at most one request is
  the latest, it was sent with the page and filter that the controls show, and
  unless something unseen happened its answer is what the server would give (in
  `UsersPage`, where the answer is one of several: might give).
  `NobodyHiddenHolds` is arithmetic about `Orders`: whatever the order, the first place that
  anybody of a name takes is one more than the number of people whose names come before
  (`FirstHasTheKey`), and in one of the orders it is taken by the person in question
  (`FirstMayBe`), so that the page of that place will do;
  `NothingOutOfReachHolds` too, beside `TableFaithful`: each mémoire that matches has
  a place, places fill the pages without gaps (`PagesHaveRows`), and among the
  numbered buttons one leads nearer to any other page (`ButtonNearer`).
  `LoadingAwaitedHolds` is what `LoadingEnds` asks of the code as distinct from the
  network: while the list is loading, some request will stop it when it ends.
  `NothingSentTwiceHolds` is inductive given `OneSubmission`: a submission that the
  server gets is one for which `saving` is set, and only its own reply resets it.
- **`ProfileProofs`.** `HeaderFaithfulHolds` by `ProfileInv`: a request that has
  read, with no other save since, holds the row; one that has saved, the row it
  asked for, because an UPDATE merged with the snapshot it was computed from
  gives what was assigned. `FormFaithfulHolds` by `FormInv`: a save that the
  page on display has sent asks, in the fields that nobody has typed into, for
  what the row holds, and no page takes the reply to an earlier page's save.
- **`DashboardProofs`.** `NothingLeftOutHolds` by `AwaitedInv`: what is
  `awaited` has a request under way, since `Due` covers what `Displays` shows.
  `ShowsTheServerHolds` by `ShowsInv`: at most one request of a kind is the latest,
  it asked for what the controls show, and its reply, and then the display, is what
  the server may still answer.
- **`FileKeyProofs`.** `LinksFindHolds`, `LinksFindNoOtherHolds` and
  `NamesKeptHolds`, for names of any length; `RowLinksFind`,
  `RowLinksFindNoOther` and `RowNamesKept` state them of the rows of the page, for
  the sets of names that a run is given. Escapings are functions applied token
  by token, so that what a chain of them does is a fact about one token; the cuts
  at `&` and `/` fall where they should because an escaped text has neither
  (the last separator of a name is found by well-founded descent).

Every invariant, action property and refinement of a passing run is a theorem.
Left to TLC: liveness (`LoadingEnds`, `ProfileShown`), which needs `ENABLED`; and
the violations, which are single behaviours. The other way round,
`ChangesIndivisibleHolds` is about several managers, which no run of the list has:
`accounts_manage` checks properties that need one. With both of its slots in
`Managers`, one e-mail and no realm roles but the application's, TLC finds
`ChangesIndivisible` true, and `ImplementsDirectory` false.

## 6. What is abstracted, and what is left out

- Data: e-mails, notes, names and files are members of small sets; a search
  term is the set of users that it matches.
- Wording, styles and logs. Of a form's validation only this is kept, that required
  fields are filled.
- The creation times by which the review page's list is sorted are taken to differ
  (`Slice` of `ReviewPage`); last names are not (`Listing`).
- The columns of a row that are treated alike: one stands for any number of them.
- A list's total and rows are two queries of the API, modelled as one step: a change
  between them is left out.
- The search terms of the two administrators' tables (the dashboard has one); the
  fields of the users page's form; the counters of the review page, which come from
  a second request, for the first 1000 mémoires; the CSV export, for the first 1000
  users; error and success messages.
- `isActive` of `GetAll`, which no page sends; `GetById` of both controllers, called
  by no page.
- The two reads of `GetUserStatusAsync`, modelled as one where a list calls it.
- The service token that `AuthorizeAsync` keeps: the typed client is created for each
  request and a token lives an hour, so that one is never kept until it expires.

**Not modelled.** Gateway, containers, realm, theme, monitoring (configuration of
other programs); migrations (generated); start-up, health checks, metrics (no state
that another part reads); retrieval of signing keys (it decides whether a token
validates, which the models take as given).

## 7. What could be added

1. A composition of `Accounts` and `Memoires` over one table `Users`: deletions and
   their cascade against submissions. Each module has the other's effect on that
   table as an action of its own (`DeleteUser`, `Provision`).
2. An abstract specification of a table that shows a server's state, which the
   pages implement.
3. The counters of the review page against its table; a list whose count and rows
   are two queries with a change between them.
4. Liveness of the API's requests under time limits of their own; today only nginx's
   exist.
