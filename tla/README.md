# getbud, modelled in TLA+

getbud is a personal-budget server: a Go HTTP API over Postgres, with a React
front end. This directory holds TLA+ models of it, the TLC configurations that
check them, and TLAPS proofs. Paths below are relative to the repository's root.

## 1. The system

### Components

| Component | State it keeps | Operations | Talks to |
|---|---|---|---|
| Transactions and transfers (`internal/server/transactions.go`, `internal/store/transactions.go`) | table `transactions` | create, patch, delete, list, create transfer | accounts and categories, looked up before a write |
| Accounts, snapshots (`server/accounts.go`, `store/accounts.go`, `store/snapshots.go`) | `accounts`, `balance_snapshots` | create, patch, delete if empty, list with balance; put, delete, list snapshots | a delete cascades into batches, transactions, snapshots |
| Categories (`server/categories.go`, `store/categories.go`) | `categories` | create, patch, delete with or without `reassignTo` | a delete sets `transactions.category_id` to NULL |
| Imports (`server/imports.go`, `store/imports.go`) | `import_batches` | preview, commit, list, revert | `csvimport`; commit writes transactions, revert cascades |
| CSV (`internal/csvimport`) | none | parse, guess a mapping, normalize rows | called by preview and commit |
| Import wizard (`web/src/pages/Import.tsx`) | the page's | upload, adjust the mapping, exclude rows, commit | preview, commit |
| Authentication (`internal/auth`, `store/users.go`, `store/sessions.go`) | `users`, `sessions`, two cookies per sign-in | Google and OIDC sign-in, password login, logout, session lookup, hourly collection | runs before every handler (`WithUser`, `RequireUser`) |
| Reports, contribution room (`server/reports.go`, `server/contributions.go`) | `contribution_room` | summary, Sankey, trends, net worth, room | read every table above |
| Lifecycle (`cmd/server`, `migrations`) | process | wait for the database, migrate, serve, drain; `seed` | all |

Handlers share nothing in memory. Every request runs in a goroutine of its own
and issues SQL statements one at a time, each in its own implicit transaction;
three store methods, `Transactions.CreateTransfer`, `Imports.Commit` and
`Users.Create`, open an explicit one. So the interesting state is the database, and the interesting
behaviour is what other requests do between two statements of one handler.

### What is hard

* **Check, then act.** Handlers look an account or category up and rely on the
  answer statements later. No constraint of the schema says that a row and the
  rows it refers to belong to one user.
* **Read, modify, write.** The three PATCH handlers read a row, change fields in
  memory and write all columns back.
* **Two statements that should be one.** `deleteAccount` counts, then deletes;
  `deleteCategory` reassigns, then deletes.
* **Cascades.** Foreign keys delete or rewrite rows with no `user_id` filter.
* **Open transactions.** Staged rows are unseen by others, yet hold
  `FOR KEY SHARE` locks on the accounts they name; deletes and renames wait.
* **Failure.** A client that goes away, a failed statement or a killed process
  ends a handler between any two statements.
* **First sign-up, linking, logout, expiry** (authentication), **stale previews
  and repeated commits** (wizard), **numeric edges** (amounts, date formats,
  the Sankey's remainder).

`PROJECT.json` lists each hazard at its line, with the properties that cover it
or the reason that none does.

### What would make each component correct

* Transactions: legs come and go in pairs and are never edited; the fingerprint of a row
  that is no leg (a leg has that of the word "transfer") follows the row; a PATCH changes
  the fields it names.
* Accounts: only empty ones are deleted, references to them stay live.
* Categories: losing a category never loses a transaction; a merge keeps every
  transaction categorized.
* Imports: all or nothing, and gone after the revert.
* Everything: a user's requests touch that user's rows only; every handler
  answers.
* Authentication: an account answers to whom a provider vouched for and a session is
  for the account that was proved; the allowlist holds; a browser is signed in by a
  flow of its own; no request gets through on a session that a logout deleted; whose subject
  has an account is let in, unless another subject took it over.
* CSV: a file whose columns, signs and dates can be told reads back as the bank wrote it;
  a mapping learnt from a file errs, on files of its style, only in what that file left
  open.
* Wizard: what lands is what was on the screen and ticked, once; a repeat was chosen.
* Reports: statements that count the same rows agree; the Sankey's remainder is the
  net; contributions add up to the rows; paging shows all.

## 2. Modules

| Module | Models |
|---|---|
| `Schema.tla` | The tables of `migrations/` as sets of rows, and one operator per statement of `internal/store/queries/`: what the statement makes of the database, cascades included |
| `Ledger.tla` | The 14 write handlers of `internal/server` as concurrent processes over `Schema`, with the two database transactions, their locks, and aborts |
| `MCLedger.tla` | Small instances: two households and the menus of requests |
| `LedgerProofs.tla` | Types, ownership, isolation of users, live references and current fingerprints, proved |
| `LedgerEntries.tla` | What one step of a handler makes of the database: an entry of `Books`, proved statement by statement |
| `LedgerRefinement.tla` | `Ledger` implements `Books`, proved, with what follows from it: fixed columns, whole imports, no lost or resurrected rows, paired transfers, consistent books |
| `Auth.tla` | `internal/auth` over users and sessions: SSO start and callback, linking, sign-up, password login, logout, session lookup, the collector, and the `seed` command, as concurrent processes with browsers and identity providers as environment |
| `MCAuth.tla` | Small instances: scripts of five requests in two browsers |
| `AuthProofs.tla` | Types, vouched accounts, earned sessions, flows at home, the closed instance, whole sign-ups, that a deleted session serves nobody, and that only a rival subject shuts out who had an account, proved |
| `Books.tla` | Abstract: the database changes by entries of one user, with no handlers, statements, locks or failures |
| `LedgerBooks.tla` | States that `Ledger` implements `Books` |
| `CsvImport.tla` | `internal/csvimport` as operators: header, amounts, date layouts, the guessed mapping, normalization |
| `Exports.tla` | Reference: what a bank means by a file and how it writes it, to judge `CsvImport` by |
| `CsvProofs.tla` | What is guessed of an export, and what is read of it and of others in its style, proved |
| `Import.tla` | `web/src/pages/Import.tsx` over the import handlers: tabs, calls in flight, previews, commits and reverts |
| `ImportProofs.tla` | Types, one import per preview, nothing imported that was not shown, no repeat that was not chosen, nothing misread but what was left open, and that `Import` implements `Books`, proved |
| `MCImport.tla` | Small instances: styles of files and sessions of the wizard |
| `Reports.tla` | The reading handlers as functions of the database: summary, categories, Sankey, trends, net worth, balances, contributions, pages |
| `Readers.tla` | The pages that read: two statements per answer while the books change, a cache of answers, paging and filters |
| `ReportsProofs.tla` | Sums over finite sets, and with them what the reports of one database tell together, proved |
| `ReadersProofs.tla` | The same in every state of `Readers`; privacy, neutral transfers, whole lists, proved |
| `MCReaders.tla` | Small instances: sessions that each go through one part of the reports |

`Ledger` and `Auth` meet in one place: `WithUser` and `RequireUser` name the user a
ledger request runs for. `Auth` models that step (`Resolve`), `Ledger` starts after it.

`Books` is what the parts have in common. `Ledger` has the handlers' statements and
transactions and changes the database as `Books` says; `Import` and `Readers` work on
the same tables with whole entries, which that refinement justifies: the wizard's
commit is one step of `Import`, its rows one by one are in `Ledger`.

### State and actions

`Ledger` has the committed database `db` and, per request `r`, what it asks
(`in[r]`, fixed at the start), the statement its handler runs next (`pc[r]`),
the row a PATCH handler has loaded and patched (`row[r]`), the rows its open
database transaction has staged (`open[r]`) and the answer (`resp[r]`).

Each action is one SQL statement with the code around it, up to the next
statement. `createTransfer`, for instance, is `OwnAccount` (validation and the
first `ownAccount`), `OwnPeer` (the second), two steps of `CreateLeg`, then
`Commit`; `updateTransaction` is `LoadTransaction` (load, refuse transfer legs,
apply the fields), `OwnCategory` if the PATCH names a category, and
`WriteTransaction`. `Abort` ends any handler between two statements and rolls
its open transaction back. Malformed JSON, unparsable dates and ids, and unknown
types are refused before any statement and are not modelled; the refusals that
depend on amounts and accounts are.

`Auth` has the tables `users` and `sessions`, who has default categories (`seeded`),
which requests have `Users.Create`'s transaction open (`opened`), the clock, the
cookies of each browser (`jar`), what the provider answered to each flow (`granted`)
and whether its code was exchanged (`spent`). Per request there is what it asks, the
cookies it left with (`sent`, a snapshot: the jar may change while it is under way), the
handler's next statement, the user it found (`who`) and the row it inserts (`draft`). A
callback is `Exchange` (state, code, claims), `FindSubject`, `FindEmail`, then `Link`,
or `Count`, `InsertUser`, `SeedDefaultCategories`, `CommitUser`, and `SignIn`. An
answer may be lost: its cookies then do not reach the browser. `UpdateProfile` changes
names and pictures only and is left out, like `last_seen_at`; so is `WithUser`'s lookup
in front of the `/auth` routes, whose result no handler there reads. The server's and the
database's clock are one. Cookies do not run out by themselves: a browser that lost one
behaves like one that never got it. A logout answers 204 whether or not its delete
succeeded: `no_content` and `cookie_cleared` tell the two apart in `resp`, and a token is
good after the second.

`Import` has the database, the commits that landed, in order, every call that was sent
with what became of it on the server and in the page (`calls`), and the state of each
tab (`page`: the component's `useState` and the calls its buttons wait for). A preview is
`ChooseMapping` (the client's, the account's latest or a guess) and `FlagRows` (normalize,
then look for duplicates); a commit is one step. Answers come in any order (`Receive`)
or never (`GiveUp`), and the page may have moved on by then. `LatestMapping` orders
batches by when they landed. A call given up is not taken back: the server
may still carry it out.

A file is a sequence of records of cells; a cell is what its text says (a date in a
layout, an amount with its sign and mark, a heading). `Exports` writes a statement,
entries the bank means, in a style (columns, headings, layout, sign, decimals), and
`CsvImport` reads it. `FilesAssumption` says that every upload is such an export
(`IsExport`), which TLC evaluates for the files of `MCImport`. `Legible` says what an
export must have for a reader without other knowledge: headings that name the columns, or
none and columns in an order their values tell; a date in the sample that sets day apart
from month; money out negative or in a column of its own; decimal points; no amount of 0,
which is refused as an error. `WidthTold` is for exact reading only: a padded layout reads
no date that is not padded. Of what is not legible `TakenFor` says what a mapping guessed
from it makes of an entry: day and month either way if the sample does not set them apart,
money out for money in if that is positive in one column, cents for dollars if decimals
have a comma. What `encoding/csv` and `sniffDelimiter` do with bytes, the notes column and
the row limit are left out.

`Readers` has the books and `room` (`contribution_room`), which a session changes by
statements of `Schema` in a given order; per question that is asked, the call under way
with what its first statement found (`calls`) and the last answer (`cache`, as
`useQuery` keeps it by key); and the state of `TransactionsPage` (`view`). `Fetch` is the
first statement, `Answer` the second and the answer's arrival. Every fetched answer stays
in the cache. Rows of one date come in any order that the query allows: `created_at` is
not modelled. Where the order of equal totals decides (the folded categories), every
order is considered.

Postgres is external and modelled as the code relies on it: a statement is atomic
at READ COMMITTED, sees committed rows only, checks foreign keys and unique
constraints when it writes, and a row inserted by an open transaction keeps its
account locked FOR KEY SHARE (`KeyShared`), which a DELETE of the account and an
UPDATE of its name, a column of a unique index, wait for. A statement of an open
transaction sees what that transaction staged; neither of the two needs to.

Abstractions: an id names the request or user that drew it and never repeats, as
`gen_random_uuid()` never does in practice; sha256 is injective; payees are a few
strings and `Normalized` is any function on them; notes, colours, currencies,
institutions and timestamps are left out, since no property tells them apart.

Operators named `X_Something` with the comment "A slip" are deliberate mistakes,
used to confirm that the properties notice them; no specification uses them.

## 3. Runs

| Run | Instance | Shows |
|---|---|---|
| `ledger_full` | 2 users, 3 concurrent requests, 38 kinds of request covering all operations, refusals and cross-user attempts; symmetric in requests | `TypeOK`, `OwnersAgree`, `ReferencesLive`, `HashCurrent`, `DeletesHold`, `OthersUntouched`, `ColumnsFixed`, `OnlyAskedLoss`, `ImportsLandWhole`, `KeepsBooks` |
| `ledger_transfers` | 3 requests around transfers, no account deletion | `TransfersPaired`, and `Responds` under fairness |
| `ledger_empty` | account delete against transfer | violates `OnlyEmptyAccountsDeleted` |
| `ledger_merge` | merge against create and patch | violates `MergeKeepsCategory` |
| `ledger_patch` | patch against merge | violates `PatchLeavesCategory` |
| `auth_closed` | two users, of one of whom Google moves the email to another subject; two sign-in flows: in one browser with a seed, in two browsers with one callback handed over, through both providers with a logout, for one new user whom a seed creates, too | `TypeOK`, `AccountsVouched`, `SessionsEarned`, `FlowStaysHome`, `ClosedInstance`, `DefaultsWithUser`, `ReturningSignsIn` |
| `auth_sessions` | login, logout and an API request of one browser, two seeds, a clock that passes the session's end | `EndedServesNobody`; `EveryoneAnswered` and `ExpiredGo` under fairness |
| `auth_first` | no user, two strangers sign up at once | violates `OnlyFirstBypasses` |
| `auth_returning` | a user's email is given to another subject, and both sign in | violates `ExistingSignsIn` |
| `import_wizard` | statements in ten shapes and all layouts read once; a mapping learnt from a first file, legible or not, and a second file of its style; reviews with boxes, reverts, edits, two tabs, a lost answer; up to 4 calls | `TypeOK`, `GuessReadsBack`, `MisreadsOnlyTheUntold`, `ImportsWhatWasShown`, `RepeatsAreChosen`, `OncePerPreview`, `KeepsBooks` |
| `import_account` | the account is chosen again while its preview is on its way | violates `ReviewedForAccount` |
| `reports` | two users, four days in three months of two years; every pair of rows beside two expenses; sessions of filing, moving, measuring, searching, growing and shrinking lists | `TypeOK`, `ReportsAgree`, `SankeyTellsNet`, `SankeyLayered`, `ContributionsAddUp`, `NetWorthMatchesAccounts`, `UncategorizedListed`, `ReportsPrivate`, `TransferNeutral`, `PagesShowAll`, `EmptyOnlyAfterLoss` |

**Bounds.** Every race here is between a handler with two or more statements and
another write that falls between them; two requests exhibit each one, and three
let a third party prepare (the batch to revert, the transfer to delete) or spoil
a check another relies on. An import has two rows, so that it can fail after the
first; a transfer has its two legs. u1 starts with three accounts, the third one
empty, so that `deleteAccount` can go either way; u2 has rows that look the same
and asks for u1's. Names are four, so that collisions happen. Requests name rows
that exist at the start and rows other requests create (`<<r, 1>>`, `<<r, 0>>`).

For `Auth`, a fact established by one callback can be spoilt by one other callback or
seed, so two flows and one further request suffice; the claims include one subject
whose email changes, one whose email goes to another subject, one the two providers give
to different people, and unverified, unsaid and missing emails. `MaxTime` is 0 where only
sign-in is at stake and the session's lifetime, 1, where expiry is.

For `Import`, whether a file is read right depends on its style and on its first rows, so
each style is read with each of a few short statements; `SampleRows` and `SampleDates` are
2 where the code has more, so that a statement of three entries has one the guess did
not look at. Integers wrap at `Width` = 24 bits where the code has 64, as TLC's integers
end at 32; `Huge` is an amount that wraps. A page is at odds with the server through one
late or lost answer, and a repeat needs a preview, two commits and perhaps a revert: four
calls. For `Readers`, `MaxExpenseNodes` is 2 (12 in the code), `TopCategories` 1 (5) and
`PageSize` 2 (50): three expenses are folded, three rows make two pages, and equal
amounts make the orders that the queries leave open.

**Deadlock** is checked in the runs of `Ledger` and `Auth`: `Idle` is possible only when
every request is answered. In `import_wizard` and `reports` it is not, because a session
ends when its calls and writes are used up.

**Fairness.** `Responds` assumes weak fairness of each handler's next statement once it
has begun (`pc[r] # "start"`): the Go scheduler and Postgres run what can run. Nobody has
to send a request, nobody has to abort. Weak fairness is enough because a handler that
waits for a lock waits for an open transaction whose own steps are never blocked.
`FairSpec` of `Auth` assumes the same of its handlers (`Handle(r)`), and weak fairness of
the collector, which a ticker drives for as long as the server runs and the database
answers in the end. A handler there waits only for an open `Users.Create`, which commits
or aborts. `Import` and `Readers` state safety only and assume no fairness.

**Refinement.** `KeepsBooks` is `Books!Spec`, with the database for the only variable of
`Books`; the mapping is the identity on `db`, and all other state of `Ledger` and `Import`
is hidden. It says that each commit is one entry or nothing at all, in every interleaving:
a transfer, an import and a cascade are never seen by halves, and what is written is filed
under an account and a category its user has at that moment, with a current fingerprint.
It does not say that a request is one entry, or that it writes what it read: a merge is
two, `Refile` and `DropCategory`, of which the second may never come, and `Correct` may
write back a category that another request has changed since. Both are what the code does;
`MergeKeepsCategory` and `PatchLeavesCategory` show it.
`LedgerBooks` and `Import` each have their `B == INSTANCE Books WITH db <- db`; both
refinements are checked and proved (`LedgerKeepsBooks`, `ImportKeepsBooks`).

**What the violated properties show.** They are statements of comments and documents.

* `store/accounts.go:79`: "delete is only allowed when empty". Another request's
  transaction can commit between the count and the delete; it is deleted with the
  account. If it was a transfer, the leg on the other account stays alone, so
  `TransfersPaired` is checked without account deletion.
* `server/categories.go:137`: "its transactions move to another category first". One
  filed between the two statements goes uncategorized.
* `server/transactions.go:221`: a PATCH without a category means "leave as is". It
  writes back the one it read.
* `docs/CONFIGURATION.md:51`: "the first account becomes admin and bypasses the
  allowlist. After that, only `GETBUD_ALLOWED_EMAILS` addresses can register". Two
  sign-ups that both count no users both do.
* `auth/google.go:28`: "existing users always sign in". When Google gives the email of an
  existing user to another subject, that subject's sign-in replaces the link, and the
  user, coming back with a new email, is told to sign up. `ReturningSignsIn` holds and
  says that this is the only way.
* `web/src/pages/Import.tsx:96`: "You'll confirm the column mapping and review duplicates
  before anything is saved". The account can be chosen again while the preview is on its
  way: the flags on the screen are the first account's, the commit goes to the second.

## 4. Proofs

The constants of `Ledger` are arbitrary: any users, requests, payees, `Menu` of well-formed requests
and starting database that satisfies `InitialDBAssumption` (typed, references live,
owners agree, fingerprints current, ids named for their owners), `InitialKeysAssumption`
(no two rows of a table share an id, nor two snapshots an account and a date; transfer
legs have no category) and `PathAssumption` (a request about a row names one).

`TypeCorrect` and `OwnersAlwaysAgree` (`LedgerProofs`). `OwnersAgree` is not inductive:
what a handler checked may change before it writes. The strengthening `IInv` has three
parts. `Owned`: each row's own id and the ids it refers to were drawn on behalf of its
owner (`OwnerOf` reads that off the id, given the never-changing `in`). `Checked`: what
the handler at each label has established, as a fact about ids and therefore stable,
whatever others write or delete. And `TypeOK`. One lemma per statement shows that it
keeps `Owned`; one lemma per action shows that it keeps `IInv`; `Invariance` combines
them. `OwnersAgree` follows because equal ids have one owner.

`UsersIsolated`: `OthersUntouched`. From `Owned`, whatever a statement
changes, by filter, cascade or reassignment, is a row of the user it ran for; what an
open transaction staged was drawn by the request itself (`Drawn`), hence is its user's.

`ReferencesStayLive` and `HashesStayCurrent`: `LInv` adds that
staged rows are on live accounts, that a staged row's import is the staged batch or
none, and that the fingerprints of rows, committed or staged, that are in no transfer
are current. The first needs the lock: an account some open transaction refers to
cannot be deleted.

`AuthProofs` takes any requests, browsers, scripts, claims, allowlist and starting users
(`AuthAssumption`, `InitialUsersAssumption`: typed, unique ids, subjects vouched for).
What it proves holds between statements of other requests, so the inductive invariant
`IInv` says for each request what its handler has found out (`Facts`): after `Exchange`,
a claim that was checked and a flow of its own browser (`Proved`); before a link, a user
with the claimed email; before a session, a user it has proved to be (`Earned`); before
a commit, a fitting row (`DraftFit`). `FactsStay` shows that these facts survive others'
steps because users are only added and keep their ids and emails (`Grows`). `People`
adds unique ids and that a request's id is drawn at its commit, which `Link` needs to
change one account only; `CookiesHome` adds that cookies name flows of their browser.

`LedgerRefinement` proves `LedgerKeepsBooks` and what depends on a row being the one row
with its id. `KInv` adds to `LInv` that ids are unique within a table (`Keyed`) and that
an id a request draws is in the database only when the request is done (`IdsUsed`), so
that what it inserts is new; that a transfer has one owner (`GroupsOwned`); that the rows
an open transaction has staged are those its request asks for, in order (`Scripted`); and
that the row a PATCH holds is the one its path names, and still no transfer leg, or of the
kind it was read with (`Remembers`). `LedgerEntries` shows that what one action makes of
the database is then an entry of `Books`; from `StepIsEntry` follow `ColumnsStayFixed`,
`ImportsAlwaysLandWhole` and `LossesAreAsked`, each by cases of the entry or the
statement. `DeletesStay` has an invariant of its own, `DInv`: the id that was answered 204
is not in its table and was drawn by nobody who is still to insert it.
`TransfersStayPaired` assumes that the books are paired at the start and that `Menu` has
no `deleteAccount`, without which it is false (section 3).

What cookies tell comes last. `LogoutEndsSessions` (`EndedServesNobody`): a token
in a cookie was drawn by a request that is done (`TokensDrawn`), so no sign-in still under
way can begin a session with it, and a logout that deleted its session leaves none
(`Ended`); one that answers 204 without deleting (`cookie_cleared`) is the only exception.
`OnlyRivalsShutOut` (`ReturningSignsIn`): an account a subject had still has it, or a rival,
another subject of the provider, was led there (`Kept`), for `Link` alone replaces subjects
and a callback that is led to an account is led once (`Led`); so a callback that goes on to
the email, having found nobody with its subject, had no account or lost it to a rival
(`Strangers`). Nothing is assumed of what a provider claims.

`ImportProofs` takes any tabs, files, edits and calls. It assumes `ImportAssumption`
(calls are numbered by requests; the rows there before the session are the user's and of
no import; the cells of an upload can be payees and its days are `Date`s) and, for how
files are read, `FilesAssumption`. The proofs about imports open nothing of `CsvImport`:
they hold whatever `Parse`, `GuessMapping` and `Normalize` make of a file.
`Basis` says that a preview a page shows was told to that
page, that a commit call carries the preview's mapping, and, the heart of `ImportsOnce`
(`OncePerPreview`), that a commit call has failed, or its page still waits for it, or is
done, or shows another preview (`Attempt`): with that, a second click on the same preview
means that the first call failed (`Once`). It is inductive because a call is told once, so
a page never returns to a preview it has left. `Written` says that every row is an earlier
one or the row some landed commit call reads in its file (`FromFile`), and every batch is
whole; `AllRead`, that an answered preview still reads its file as it did and that no row
it could see repeats one it calls "ok", since rows that come later have ids of calls that
were unanswered then (`NewRowsUnseen`). A commit call whose file has the preview's content
reads it alike (`SameReading`), which gives `ImportsAreShown` (`ImportsWhatWasShown`) and
`RepeatsWereChosen` (`RepeatsAreChosen`).

`ImportTypes` and `ImportKeepsBooks` add `Typed`. That what lands has the tables' types
needs what a row can be (`RowsTyped`): a day of some layout, cents that are an integer
and not 0, a payee of the file; and that a commit call's file could be parsed, since the
preview it was clicked on could. A commit is then `Books`' `Land`, of as many rows as the
batch counts, with ids nobody has drawn; a revert is `TakeBack`.

`CsvProofs` is about `csvimport` itself. It assumes of `Width` only that powers of two are
what they are (`CsvAssumption`) and that a layout is no `None` (`LayoutAssumption`). The
loops of `guess.go` and of `Parse` are recursive functions, and what they compute is shown
by induction over the steps after which it holds (`Up`, `Iterates`): after k headers, or k
columns probed, exactly the roles found among the first k columns are mapped, each to its
place (`Mapped`, in `Named` and `Probed`); after n records, the layouts left over are
those that fit every sampled cell so far (`Left`, in `FormatGuessed`), never none, since
the style's own layout fits. `LayoutsAlike` compares any two layouts: of one shape they
differ in order or in padding, so the first one left over has the style's order if some
sampled day is beyond 12 (`FormatTold`), and may have either if none is. `AmountReads`
takes an amount through its marks, its hundredths, times 100 where a comma is dropped
(`ScaleIs`), and two's complement. `RowReads` puts them together for a record: what is
read is in `TakenFor`, or nothing. That is `StyleReads`; where the file is legible and its
width told, `TakenFor` is the entry itself, which is `GuessReads`. In `ImportProofs`,
`PreviewsTaken` says that the mapping of a preview is a guess of its own file or that of a
commit call; a commit call's is that of the preview it was clicked on (`Attempt`), so the
origin is known although the page and the database have moved on, and `GuessesReadBack`
(`GuessReadsBack`) and `TakenForNothingElse` (`MisreadsOnlyTheUntold`) follow. A mapping
the user has edited is no guess, and neither property speaks of it; nor of files whose
columns cannot be told, or of a file that follows one in another style, which may be read
as anything.

`ReportsProofs` and `ReadersProofs` take any sessions of writes whose books are consistent
throughout (`Consistent`, which `Ledger` and `Import` are proved to keep, see below),
any calendar that maps days to months and years in order (`ReportsAssumption`), and any
limits. `Inv` says that the books are the session's after `written` writes; what a property
says of `db` is then a fact about one consistent database. These facts are sums: that one
does not depend on the order of its terms, splits, can be grouped by a key and carried
along a bijection is shown once for `SumFunction` over any finite set (`SumIs`, `SumSplit`,
`SumGrouped`, `SumRenamed`), by a least counterexample or a minimal subset rather than by
the library's induction theorems. `ReportsAlwaysAgree` regroups the same rows three ways;
`SankeyAlwaysTellsNet` adds up the links before and after folding, in every order `Sorted`
allows, and asks that no category is called "Savings" or "From savings";
`SankeyStaysLayered` asks nothing of names: it traces a link that meets another back to the
rows of both (`EndsAre`), and two rows have one node only if they share a name or have a
word of the report's;
`ContributionsAlwaysAddUp` cancels the pairs of a transfer within a type;
`NetWorthAlwaysMatches` finds the same latest snapshot in two ways. `ReportsStayPrivate` and
`TransfersStayNeutral` compare the books before and after a step. For the pages, `Remembered`
says that each answer under way or in the cache is a page of the books of some earlier
moment, and that a page beyond the first was once not beyond the end (`Reached`);
`PagesAlwaysShowAll` and `EmptyAlwaysAfterLoss` need no more than that.

That assumption joins the parts. `Consistent` (`Schema`) says that the tables are typed and
finite, ids unique, references live and of one user, and that two legs of one transfer are
of one user and opposite, with no third row (a leg may be alone: an account may be closed
under its peer). `BooksStayConsistent` (`LedgerRefinement`) and `ImportStaysConsistent`
(`ImportProofs`) show that from a consistent database no handler, interleaving or failure
leads to another one. Both start from `Consistent` books, which `TwoHouseholds` and
`MCStartDB` are. In `Ledger` this goes by entries of `Books`: only `Move` adds legs, both
at once and in a group of their own (`EntryOpposes`), and each entry but an import adds
at most two rows (`EntryFinite`).

Not proved, only model-checked: `Responds`, `EveryoneAnswered` and `ExpiredGo`, which are
liveness under fairness and out of the prover's reach. The six statements that the code
does not keep (section 3) are refuted by a run and have no theorem.

## 5. Not modelled

* Process lifecycle (`cmd/server/main.go`, `migrations`): waiting for the database, migrating
  and draining are I/O in a straight line. What a killed process leaves is `Abort`
  in `Ledger` and `Auth`; the `seed` command is in `Auth`.
* The bytes of a CSV file: `encoding/csv`, the delimiter, the byte-order mark; the notes
  column and the limit on rows.
* Statements that only list (`ListSnapshots`, `ListCategories`, `ListImportBatches`) and the
  published contribution limits shown as hints.
* The pages other than the wizard, the transactions list and the tiles' cache: they render
  what the API answers. Charts, the embedded bundle, logging, JSON shapes, configuration.
* react-query's eviction of old answers: a page whose answer was evicted is one that was
  never fetched.

Hazards without a property, with the reason, are in `PROJECT.json`: quick edits of the
mapping that start from the mapping shown (no line says otherwise, and what is imported is
what the screen ends up showing), and rows of one date between two pages (their order is
the database's choice).
