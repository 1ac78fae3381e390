# A verification project for the BorrowChecker ledger

BorrowChecker is a double-entry ledger kept in one SQLite file (`crates/bc-core`),
with a command line, a web server and a desktop app on top. This project models the
parts of `bc-core` that decide what the ledger holds and what its budgets say, checks
them with TLC on small instances, and proves with TLAPS, for every value of the
constants, the account rules, what the declarations of imports and their discards leave
of the accounts, what the ledger keeps under concurrent imports and that imports one
after another implement a book of statement lines, what a transfer keeps under
concurrent merges, what a restore may serve, and what retention never deletes.
Paths below are relative to `src/crates/bc-core/src` unless they say otherwise.

Contents: [the system](#the-system), [the modules](#the-modules),
[what is checked](#what-is-checked), [what is proved](#what-is-proved),
[where code and words differ](#where-the-code-and-its-words-differ),
[what is left](#what-is-not-modelled-and-the-plan).

## The system

Every service works on one database. A write is one SQLite transaction, and SQLite
runs one writer at a time, so a method that reads and writes inside its transaction
is atomic. The hard behaviour is in what the code reads *before* it begins: a list of
accounts, the slots an import finds taken, the transaction it is about to extend.
Several writers are normal: the desktop app and the server each hold an advisory lock
on the file (`db_lock.rs`), but a command-line import or edit runs beside them
without it.

| component | state | operations | talks to | what makes it correct |
|---|---|---|---|---|
| Accounts (`account.rs`) | accounts, their parent, type, opening and closing date, archived mark, commodities; their events | create, create_paths, archive, close, reopen, set_opened_on, set_commodities | the event log, in the same transaction; import declarations call it | a forest with one type per tree and unique sibling names; nothing open below closed, nothing active below archived; the log explains the rows |
| Import run (`import_exec.rs`) | planned legs, what it read of the slots, the row it is at | resolve, read the slots once, then create / attach / skip each row, close | accounts, transactions, sources, batches | a statement imported any number of times is booked once; what the user rejected stays so |
| Source references (`source.rs`) | one row per occupied slot (account, fingerprint, occurrence) | attach, detach, release, existing_legs | written in the import's transaction; follows postings through `ON DELETE SET NULL` | a reference names its posting or is the tombstone of one |
| Transactions (`transaction.rs`) | transactions and postings | create, edit, edit_if_unchanged, delete (keep or forget), add_postings | relinks the references of surviving postings | no transaction without postings, no posting without its transaction |
| Batches and discard (`import/batch.rs`, `import/discard.rs`) | one row per run; what the run did | open, close, discard, preview | removes the run's references, postings and emptied transactions | a discard takes what the run wrote and nothing of the user's |
| Declarations (`import/declare.rs`) | accounts a run created or filled | apply, record_accounts, the discard's reversal | accounts, batches | the user's later change wins over the run and its discard; a run ends |
| Transfers (`transfer.rs`) | none of its own; it reads its merges back from the event log | merge, unmerge | moves postings and references between transactions | unmerge restores what merge fused, edits made meanwhile included |
| Backup, restore, lock (`backup.rs`, `db_lock.rs`, `bc-service/src/state.rs`) | snapshot files, the database file and its `-wal` file, the restore marker, the ledger id | backup, rotate, delete, rekey, restore_database, swap_in | replaces the database under everybody | an interrupted restore loses nothing and is taken up again; retention keeps what it must |
| Round trip (`roundtrip/`) | edited and deleted transactions of a run | plan, apply, the discard's reversal | batches, sources, transactions | a discard takes back what the run wrote and an edit made since is kept; a file adds its transactions once |
| Budgets (`budget.rs`, `budget_tree.rs`, `budget_partition.rs`, `bc-models/src/budget_timeline.rs`) | budgets and their dated revisions | create, revise, remove_revision, archive; status, overview and native periods read | accounts, tags, postings | the page counts every posting once; surplus carries from period to period |
| Metadata, tags (`metadata/`, `tag.rs`) | registered keys, a tag forest | declare, coerce, create_paths | transactions, discard | stored values fit their declared type |
| Balances, reports, loans, search | queries | none that write across components | read the above | arithmetic |
| Service, server, CLI, desktop, UI, plugins | sessions, the open ledger | call the above | all of them | they add concurrency, no state of the ledger |

The hazards, one by one with their lines, are in `PROJECT.json`. The main ones:

- rules enforced one level at a time (a parent, a set of descendants) have to hold at
  every depth after any sequence of calls;
- `create_paths`, `existing_legs`, `attach`, `edit`, `delete`, `detach`, `merge`,
  `unmerge`, `transaction apply`, the import's declarations and `remove_revision` read outside
  the transaction they write in;
- a run of many rows can crash, abort, or be discarded between any two of them, and be
  repeated afterwards;
- the user edits, deletes, rejects and releases what the run wrote while it writes;
- what is taken back (a discard, an unmerge) was written by somebody and changed by
  others since, in any order;
- a swap of the database file is several file system steps, of which any may be the
  last, beside processes that have the old file open;
- what a page shows is assembled from several passes that each decide a part of where
  a posting counts.

## The modules

### Accounts

`Accounts.tla` is `account.rs`. A state is the `accounts` table (`rows` and one
function per column) and the log (`eventCount`, and `logged`, what replaying an
account's events yields). One action per method of the service; a call the service
refuses changes nothing and is no step. `create_paths` is two steps, `ListAll` and
`CreatePath`, because it resolves its path against a list read before its
transaction; any writer may come between.

- `Descendants` is the least set closed under "child of", as the recursive SQL
  query computes it.
- `Create` and `CreatePath` share `MayAdopt` (the parent's row, type and states as
  `create_in_tx` checks them) and `NameFree` (the unique index on siblings).
  `create_in_tx` mints the missing segments in one SQL transaction from the top down;
  only the first has a parent that existed, the others a parent minted beside them.
  A caller mints one path per call here; a batch of several is the same rule per path,
  in one transaction.
- `MaxEvents` bounds the events of one account, `MaxDate` the business dates.

Left out: names other than as tokens, kinds, descriptions, tags and valuation fields,
which no rule here consults. There is no operation that moves or deletes an
account but a discard, which is in `Declarations`.

### ImportLedger and StatementBook

`ImportLedger.tla` is one ledger and the runs that write to it. A *slot* stands for
(account, fingerprint, occurrence): occurrences are handed out per run in document
order, so a leg of a document has the same slot on every import of it. `refs` is the
`transaction_sources` table keyed by its unique index. `live` says whether
`transaction_id` or `deleted_transaction_id` is set; a reference with no posting is a
tombstone, one that is not live an orphan.

A run goes `begun` (batch opened, legs resolved against the accounts it loaded),
`writing` (slots read once for all rows, one query and one step per account), then `closed`, `aborted` or `crashed`.
For the row at the head of `todo` it does what `write_row` does with the reading it
has:

| code | action |
|---|---|
| no leg stored: `Writer::create`, `Commit::create` | `CreateRow` |
| one owner: `find_by_id` in `Writer::attach` | `ReadOwner`, which leaves a `candidate` |
| its `provenance_by_posting` and `corroborate` | `Corroborate`, which leaves a `plan` |
| an unexplained posting | `FailCorroboration` |
| its write: `Commit::attach` | `AttachRow` |
| rejected, already imported, conflicting owners, slot taken | `SkipRow`, `SkipAttach` |
| an error `is_row_local` does not cover | `AbortRun` |
| `ImportBatchService::close` | `CloseBatch` |

`corroborate` is greedy over the postings in order. `Explains` says what it finds when
it succeeds: postings of equal value may take legs of equal value in any order, so
every matching is one it could produce up to such an exchange. It can miss one in a
single case, when a posting of the user's comes first and takes a leg that another
posting's reference names since the reading; `Contested` lets the run skip then too. `find_by_id` reads a transaction
and its postings in several queries; a deletion between them leaves the run where a
deletion after them does, with a candidate whose transaction is gone, so they are one
step.

The user's steps are `OpenAccounts`, edits, `DeleteTransaction`, `ReleaseLeg`,
`ReleaseTransaction` and `Detach`. `Discard` is the discard of a batch, at any time
after it was opened, its run still going or not.

There are two kinds of edit. The desktop app and the server call `edit_if_unchanged`
(`bc-service/src/commands/accounts.rs:403`), which compares and writes under one write
lock: `AddLeg`, `Revalue` and `DropLeg` are a step each. The command line calls `edit`
(`bc-cli/src/commands/transaction.rs:582`) with postings it worked out from a reading
(`:615`), and `edit` replaces all postings of the transaction without comparing
(`transaction.rs:1855-1931`). That is `ReadForEdit`, which leaves a `draft` of the
postings, and `WriteEdit`, which writes them with one change, whatever came in between;
`AbandonEdit` is its refusal or its end. A posting of the draft that is gone by then is
put back under its id, and nothing names it.

A posting's `from` records the slot it was inserted for. The table has no such
column: it is history, kept to state that the reference which stops a duplicate is
never lost. A detachment sets it to `Hand`, because that is what the user asks for. One
that an edit put back has `Stray`: `ImportedKeepProvenance` fails of these in the code,
so it is stated of the others.

Ids are never reused by the code. The model reuses one that nothing names any more,
references, readings and plans included, so no step could tell.

`StatementBook.tla` is what importing promises, without transactions or runs: each
slot is `absent`, `booked`, `dropped` or `rejected`; a run books absent legs of one
row none of whose legs is rejected; only freeing a slot brings it back.
`ImportLedger` refines it with `status` read off `refs`.

Left out of `ImportLedger`: elided amounts and residuals, metadata, tags, account
declarations (`Declarations`), balances, edits made by a round-trip run (`RoundTrip`),
transactions the user writes from nothing (no reference ever names
one, so no run or discard reaches it), and fresh `attach` calls outside an import.

### Declarations

`Declarations.tla` is `import/declare.rs` with the setters of `account.rs` it calls,
the records of `import/batch.rs` and `reverse_accounts` of `import/discard.rs`. A run
begins with the accounts it lists (`known`, paths that resolve), reads an account when
a declaration first needs it and decides later ones from that copy (`cache`). `Decide`
turns the next declaration into steps; `FailToRead` ends the run when an account it
knew is gone; `Create`, `SetOpenedOn`, `SetCommodities` and `Close` are one transaction
of the account service each, whose rules may refuse it; `Record` is `record_accounts`,
the transaction after. `Discard` is `reverse_accounts`: created accounts that nothing
names (`Named`; later events count) go, deepest first, then fields the run filled are
cleared from the root where they still hold its value. The user opens, closes, reopens,
sets, creates and uses accounts between any two steps.

Paths are sequences of names, closed under prefixes; `Resolves` and `Reuses` say how far
a path resolves in the run's snapshot and how far it exists now, and `Assumed` is how
`create` pairs the two. The declarations left are a set (`todo`), and the order
`application_order` puts them in is the order they are decided in (`Earlier`). The loops
of the discard over the deepest account first and from the root down are the largest sets
they end with (`Removed`, `Reopened`). Minted ids are free ones that `CHOOSE` picks,
which is no restriction: nothing compares ids. An account's `edited` is history, kept to
state `DiscardSparesNamed`.

### Transfers

`Transfers.tla` is `transfer.rs`. `ReadMerge` and `ReadLog` are everything a caller
reads before it begins, `Merge` and `Unmerge` the transactions that write; the code
reads in several queries, and reading them as one is exact, since what may change
between them either touches one side only or makes the pair unmergeable and is caught
again by the write. `merges[t]` is what the code works out of the event log: the merges
into `t` that no unmerge answers, newest last, each with `edited` once an event says
the absorbed leg was changed. The users' steps are `EditHeader`, `Reconcile`,
`EditLegs` and `Delete`, the imports' `Adopt` and `AddSourced`. `EditHeader` and
`EditLegs` compare and write in one step (`edit_if_unchanged`). An edit from the command
line is three: `StartEdit` reads what it will change, `ReadCurrent` is the second reading
`edit` makes before it begins (`transaction.rs:1962`), and `WriteEdit` writes the first
reading with one change and logs how that differs from the second
(`posting_edit_since` looks at what was removed and changed, `Heard`, not at what was
added).

History variables say what an outcome is measured against. `own` is the header its user
gave a transaction. `clouded` are the transactions about whose *header* the code itself
may be wrong: a merge, an unmerge or a command-line edit wrote from a reading that had
become stale, or the user wrote by hand exactly what a merge wrote. `torn` are those about
whose *legs* the log may be wrong: a merge moved another leg than the one it had read, an
unmerge took apart a merge that was no longer the newest, the survivor of an unmerge was
torn already, or a command-line edit changed or removed a leg that its second reading did
not have so (`Unheard`), and logged nothing of it.
`late` are the references attached to a leg behind a merge's back. Metadata is a bag, how
often each entry is there: `union` and `subtract_merged` count occurrences, and their
order is left out. So are descriptions, positions and the metadata of postings, and the
two delete modes are not told apart. `reconcile`'s own check of balance on a reading
taken before it begins shows in no outcome: it is the result of reconciling first.

### RoundTrip

`RoundTrip.tla` is `roundtrip/plan.rs`, `roundtrip/apply.rs` and the part of
`import/discard.rs` that reverses it. A run reads a file that was exported at some time
and edited (`ExportFile`), or the file another run read (`TakeFile`); `PlanFile` matches
the file's legs with the stored ones and counts slots; `StartApply` takes the slots the
run believes free; then one action per write, in any order, each of them comparing with
what the file was exported from: `EditTransaction`, `CreateTransaction`,
`DeleteTransaction`, or `LeaveAlone` when that has changed. `StopOnSlot` is the unique
index refusing a slot another run took since, which ends the run. `Discard` reverses
each edit and deletion whose transaction is as the run left it, after the runs that
depend on it (`Dependants`), and relinks the bank references the edit cut.

Beside the runs go the user's edits, of both kinds: `EditByUser` is `edit_if_unchanged`,
in one step; `ReadForEdit` and `WriteEdit` are the command line's `edit`, which writes
what it made of an old reading over whatever a run or a discard has written since, and
`AbandonEdit` its refusal or its end. A bank leg that such an edit drops counts as let go
by the user, and the version it writes as the user's. Its two readings are one here: the
second one feeds the event log, which this module does not have (`Transfers` does).

All transactions share a date and a description, so a leg's value is its fingerprint.
`PlanFile` reads in one step. A stopped run takes no further step. One batch belongs
to one run. The sidecar file, snapshot texts, the archive level, tags, metadata and
posting spreads are left out. What a discard removes of a *created* transaction is the
run's legs; what the user put on it stays.

`made`, `story`, `rejected`, `unsettled` and `echoed` are history. `story` is, per
transaction, what still stands of the writes to it. The last two name what the
properties are not about, and only where the code does otherwise (below): `echoed` the
transactions whose user wrote by hand what a run had written, or that runs at once wrote
against the order they began in; `unsettled` the files whose new transactions had a slot
freed or their positions moved by others while a run of the file was under way, or a part
of their slots freed.

### Restore and LiveLedger

`Restore.tla` is `swap_in` and what leads to it: `db_lock.rs`, `restore_database` and
the start of `bc-service/src/state.rs`, the `restore` command of `bc-cli`, and the
hosts' start and exit. Files are identities: the path names one (`main`), a `-wal` file
may lie beside it, and a process keeps what it opened when the name is removed or
renamed over. `Connect` and `Disconnect` are what SQLite does on open and on close (the
last connection checkpoints). One action per file system step of the swap: `Identify`,
`Copy`, `RemoveSidecars`, `Rename`, `DropMarker`; `SwapFails` is any of them failing and
`Crash` may come anywhere. Backups hold the set of writes they saved.

`LiveLedger.tla` is the promise: the book changes by one committed write, or is replaced
as a whole by what a backup holds. `WholeRestores` is the refinement, stated where only
hosts run; beside commands that ignore the lock it is false, as written below.

### BackupPool

`BackupPool.tla` is retention and ledger ids: `backup`, `rotate`, `prune_indices`,
`delete`, `rekey`, the settings, and a database file copied by hand. `Stamp` and
`Instant` are the conversion to a local time in the file name and back, with one clock
change in the horizon.

### BudgetTimeline, BudgetTree and Budgets

`BudgetTimeline.tla` and `BudgetTree.tla` are pure: operators for the functions of
`budget_timeline.rs`, the status engine in `budget.rs`, `budget_partition.rs` and
`budget_tree.rs`. `Budgets.tla` has the state, budgets and their revisions, one action
per writing method of `BudgetService` (`remove_revision` is two, `BeginRemove` and
`EndRemove`, as it counts before it begins), and what the readers compute of a state.

| code | definition |
|---|---|
| `periods_overlapping`, `carry_chain_start` | `PeriodsOverlapping` (with `Starts` and `PeriodEnd`), `CarryChain` |
| `period_share`, `prorated_target` | `PeriodShare`, `ProratedTarget` |
| `plan_loads`, `fetch_postings`, `fold_actuals`, `fold_rollover` | `Loads`, `Fetch`, `Spent`, `FoldRollover` |
| `status_for_window`, `window_postings` | `StatusForWindow`, `WindowPostings` |
| `envelope_parents`, `owners` | `EnvelopeParent`, `Owners` |
| `Skeleton`: new, `merge_unfiltered`, `prune`, `unbudgeted_parent`, `add_leftovers`, `double_counted` | `Skeleton`, `Standing`, `AccountRows`, `Walked` and `UnbudgetedParent`, `Unbudgeted`, `DoubleCounted` |
| `load`, `assemble`, `native_periods` | `Loaded`, `Assemble`, `NativePeriods` |

Days and amounts are integers, a period is a number of days, and there is one commodity
in cents, so nothing is unvalued. A reader's queries are one snapshot. Accounts may be
archived (`Archived`) and have postings, which the query of a root's subtree returns
(`legs.rs:117-125`) while the page loads active accounts only (`list_active`): a matched
one counts in its budget's row, and of one that no budget matches the walk up to a row
ends at once (`Walked`), so the page drops it (`Dropped`). No budget is on an archived
account (`OfferAssumption`), because a page with such a budget fails to load (below).
`revise` checks the date and writes in one step: the unique index backs its
check. The code builds rows, moves them and marks them dead; the model says which row
stands for an account and what the parent of each row is once that is done.

### MC modules and proofs

`MC*.tla` define the values the `.cfg` files give to the constants that are not sets of
model values. `AccountsProofs.tla`, `RestoreProofs.tla`, `TransfersProofs.tla` and
`BackupPoolProofs.tla` hold the theorems about the module each is named after;
`ImportLedgerProofs.tla` those about `ImportLedger` with any number of runs at once, and
`ImportBookProofs.tla` those about runs one at a time and `StatementBook`;
`RoundTripProofs.tla` those about `RoundTrip`. Operators marked "slip" are mutated forms
of the definition after them, used to confirm that a property notices the mistake; no
specification uses them. The `TypeOK` of `BackupPool`, `Transfers` and `RoundTrip`
documents their state; TLC confirmed it on their instances, but no run lists it (those of
`Transfers` and `RoundTrip` are theorems).

## What is checked

| run | instance | shows |
|---|---|---|
| `accounts_life` | 3 accounts of one name, so every tree is a chain; dates 1..2; 3 events each; one commodity list | `ClosedAboveClosed`, `ArchivedAboveArchived`, `LifeInOrder`, `EventsExplainDates`, `ClosingDateStands` |
| `accounts_paths` | 3 accounts, 2 names, 2 types, paths of one to three segments, two concurrent callers with stale lists | `OneTypePerTree`, `PathNamesOneAccount` |
| `ledger_race` | a statement of one row with 2 legs, and one with a leg of it alone; 2 overlapping runs; 2 transactions, 2 postings; one command-line edit at a time | `ImportedKeepProvenance`, `ReferencesPointHome`, `NoEmptyTransaction`, `DiscardReachesAll`, `HandEntriesStand` |
| `ledger_book` | one row of 2 legs, one of them on an account opened late; 2 runs, not overlapping; 2 transactions, 2 postings; one command-line edit at a time | `RowWhole`, `ImplementsBook` |
| `declare` | 2 paths, one above the other; 3 ids; 2 dates; 3 documents; 2 runs, 1 edit, 1 crash | `WindowsNest`, `DiscardUndoes`, `DiscardSparesNamed`, `StoredStands`, `RunEnds` |
| `declare_resolve` | 3 paths, 1 run, 2 edits | `PathsResolveHome` is violated |
| `transfers` | 2 transactions with 3 edits and one caller, or with 2 and two callers; 3 transactions with an edit and one caller, or two callers; 2 transactions, a caller, a command-line edit and another; 2 headers that differ in all a merge joins | `EditsStand`, `ReferencesFollow`, `MergesStand`, `MergesFuseTwo`, `LegsReturnAsMerged` |
| `transfers_adopted` | 2 transactions, one caller, 3 edits | `ReferencesAsAttached` is violated |
| `roundtrip` | one stored transaction of two equal legs, one of them a statement's; 2 runs in five scopes, 3 in a sixth; 2 runs and a command-line edit in two more | `DiscardsPeelOff`, `CreatedOnce` |
| `restore` | two hosts, or a host, the restore command and a command; 3 files, one write, 2 backups, 1 crash or failed step | `ServedIsLive`, `ServedStays`, `WholeRestores`, `RestoreApplied` |
| `pool` | 2 databases, 3 ids, one holder and one command; 4 policies; 5 instants with a clock change at 2; 3 backups | `HoldersKeepTheirPool`, `UnionPolicy`, `JustTakenStays` |
| `budgets` | 3 accounts in a chain and an archived one beside the lowest, 2 tags; 3 budgets, 3 revisions of 12 kinds; 2 windows, 14 postings, 2 views | `PageAddsUp`, `CarriesChain`, `SubRowsSum` |

### Why the bounds reach the cases

*Accounts.* Three give a grandparent, so a rule checked one level at a time can fail two
levels apart; two dates order a life both ways; three events allow create, close, reopen,
and no rule reads the count.

*ImportLedger.* Two slots, of which a statement may have both or one, or the account of
one is opened late, give a partial first import, an attachment, an adoption and a
conflict of owners. Two postings can stand on one transaction or on two, and either be
the user's. Two runs give every race of two readings, and a draft read before any of
their steps is written after any later one. Without command-line edits larger instances
hold too: the race with a third posting, so that the user's stands beside both legs
(172,070 states), and the book with a third import, so that a leg is booked, rejected,
refused and booked again (205,321).

*Declarations.* A leaf with its ancestor, opened by one file, closed by another and dated
otherwise by a third, makes every pair of decisions meet; one edit and a discard come
between any two steps of two runs.

*Transfers.* Merges nest in two ways, into one survivor and through a survivor that is
absorbed, and both take three transactions; edits that matter come singly or in pairs
between a merge and its unmerge. The scopes trade transactions, callers and edits
against each other; in that of the command-line edit a merge, an unmerge and one other
edit fall at any of its three steps. 3 transactions with two callers and an edit, and with one caller and 2
edits, were run once and hold too.

*RoundTrip.* The eight scopes are the hazards: dropped and deleted legs with two
changes by others, changed and added legs with one, new transactions of two legs with
one, added legs that compete with new transactions for a slot, twins, three runs of
one or more files, two at once, beside a change, and a command-line edit, as the one change
beside files that delete a transaction, drop a leg or change one, and as one of two
changes beside files that drop a leg (685,538 states in all). Two runs were
not enough: the third showed that `CreatedOnce` was too strong as first stated. Larger
scopes (three runs with edits, 2 million states) were run once and hold too.

*Restore.* The three files are the one at the path, the copy and one that a process
keeps unlinked; one write tells before from after; the one fault falls at every step.

*BackupPool.* Three backups exceed every limit of the policies; the horizon is two days
and a half, and the clock change repeats an hour inside it.

*Budgets.* Three budgets on a chain are an envelope, a sub-budget and a budget that
shares with either; the revisions offered track at every depth, with and without a tag,
from the first day or later, or carry on the deepest account under every policy, with a
change of length and a custom grid. Three revisions on one budget make a chain with a
break inside. The windows cut periods at both ends. The archived account lies under
budgets at two depths, with a posting some of them match and one they do not. On the
chain without it, a sibling account, a tag below a tag and more archived budgets were
checked as well (33,825, 59,761 and 62,833 states).

Permutations of accounts, callers, transactions, postings, runs, revisions, databases
and ids are symmetries where a run declares them: no constant singles one out, except
that an id is chosen among unused ones. No run with a liveness property has any.

### Fairness and deadlock

Two specifications assume fairness. `Declarations!FairSpec` lets a run that has begun go
on: it waits for nobody. `Restore!FairSpec` has a host that is asked to exit do so and
start again, and a started host run on: `docs/deploy/server.md` runs the server with
`Restart=always`, and the desktop app relaunches itself. Users, discards and commands
carry none. `RestoreApplied` is stated where only hosts run: a command may hold the
lock as long as it likes.

`CHECK_DEADLOCK` is off everywhere: with bounded events, dates, runs, files and edits a
state with nothing left to do is legitimate, and nothing forces a user to continue.

`RowWhole` and `ImplementsBook` are stated of runs that do not overlap (`AtOnce = 1`).
With overlap they are false: a run with an old reading may book one leg of a row
after the user has detached that leg's reference and while its sibling stands on
another run's transaction. No document or comment promises otherwise.

## What is proved

### The accounts

`AccountsProofs.tla`, for every set of accounts, names, types, lists, paths and
callers and every `MaxDate` and `MaxEvents`, from `AccountAssumption` alone:
type correctness, `ClosedAboveClosed`, `ArchivedAboveArchived`, `OneTypePerTree`,
`LifeInOrder`, `PathNamesOneAccount`, `EventsExplainDates` and the action property
`ClosingDateStands`.

The stated invariants quantify over descendants at any depth and are not inductive as
they stand. `AccountsInv` replaces them by their one-step forms: `Rooted` (a parent is
a row) and `ChildrenAgree` (type, closed and archived between a child and its parent),
beside types, lives, names and the log. Each action is a lemma:

- a cascade changes a whole set `hit` that holds, with every account, its
  children that are still open or active (`DescendantsHoldSubtree`), so no pair of
  child and parent is left split;
- a create adds leaves, or a chain of leaves, under a parent that accepts them;
  nothing already there becomes a child of a new row.

`DescendantsInherit` lifts the one-step form back: the descendants of `a` are the
*least* set closed under children, and the set of descendants that agree with `a` is
closed. `StepKeepsClosingDates` proves the action property from the same invariant.

### The declarations

`DeclarationsProofs.tla`, for every set of names, paths, ids, dates, commodity lists and
documents and any number of runs, edits and crashes, from `DeclarationsAssumption` alone
(types, paths closed under prefixes, and `None` is no id, date, list, account or record):
`TypeOK`, `WindowsNest`, `DiscardUndoes` and the action properties `StoredStands` and
`DiscardSparesNamed`. `Inv` has three parts.

- `RunsGood` is about a run between deciding and writing: the steps it has decided on
  name accounts it has a copy of (`StepFits`), and an opening or a list to write was
  decided because that copy lacks one. No step writes twice over a field, because an
  opening is followed by a list at most (`StepsFit`). `StoredStands` follows: a row that
  is written is one whose copy held nothing.
- `WindowsNest` is inductive given the types. One account changes (`RowChanges`, under
  `MayBecome`), accounts are added below open ones (`RowsCreated`), or a discard takes
  some away with all their children and reopens others under an open or reopened parent
  (`DiscardRows`, from `RemovedFacts` and `ReopenedFacts`). `ChildBelow` is why the
  account service's rule on descendants is enough for the children.
- `Batches` is why a discard spares what the user has touched: what a batch records
  stands and has no fewer events than were counted (`CountsHold`), an account it created
  and the user edited after the runs has more of them (`SinceCounted`), and such an edit
  comes after the run's last record (`SinceEnded`). `Named` compares just these counts.

`DiscardUndoes` needs one invariant more, `AloneHold`: while nobody else is at work, every
account is one the run made and has recorded or owes, unused and with the events the
record counted. The accounts then form a set that nothing outside names, so `Removed` is
all of them.

TLC confirmed the parts of `Inv` that are not properties on the instance of `declare` with
two edits (1.8 million states), and `AloneHold` on `declare` itself, before they were
proved.

### The ledger

`ImportLedgerProofs.tla`, for every set of ids, slots, values and documents, any
number of runs and of runs in flight together, from `LedgerAssumption` and
`NullAssumption` (what stands for "no row" is not a row): type correctness,
`ImportedKeepProvenance`, `ReferencesPointHome`, `NoEmptyTransaction`,
`DiscardReachesAll` and the action property `HandEntriesStand`.

The inductive invariant `IInv` has four parts, and adds to the stated properties what
each needs from the others.

- `LedgerInv` is about the tables. `OwnedByOrigin` and `OwnsOrigin` say that a
  reference owns exactly the posting inserted for its leg, and that what it only
  names is the user's. Without them a detachment or a discard could strip a posting
  of a reference another one relies on.
- `ReadingInv` is about what a run holds between reading and writing: what it was
  shown is still its candidate's or gone, and what it is about to adopt has no
  provenance. It holds because no id a reading names is given anew (`Persists`), and
  because a posting without a reference that names it was written by hand
  (`CorroborateKeepsReadings`). This is where a stale reading might do harm; all else
  a run believes is re-checked by the write.
- `DraftInv` is about command-line edits: a posting of a draft is on the draft's
  transaction or gone, and drafts and the readings of runs agree on whose it was. So what
  an edit puts back belongs to no other transaction, and a run that was shown it still
  has the candidate it believes in.
- `RunInv` is types, and that a reading belongs to a row the run is at.

The steps come in two kinds. A write adds postings under new ids and references at
free slots (`WriteKeepsLedger`, for `CreateRow` and `AttachRow`). A removal takes a
set of postings, transactions and references away at once (`RemovalKeepsLedger`), and
`MayRemove` states when it may: the edit that drops a leg, both deletions, both
releases and the discard are instances, so the discard's sweep is shown to take every
transaction it empties and none other. `AddLeg`, `Revalue` and `Detach` are lemmas of
their own, and so is `WriteEdit` (`EditedPostings`, `WriteEditKeepsLedger`): it removes
and adds at once, and what it puts back has no reference, which is why `Stray` is neither
a slot nor `Hand`. `DiscardReachesAll` is inductive given `IInv`: only a run that is writing
stamps a reference, and it does not close a batch that was discarded.

TLC confirmed `IInv` on the instance of `ledger_race` before it was proved.

### Imports one at a time

`ImportBookProofs.tla`, from the same assumptions and two more: `OneAtATime` (`AtOnce =
1`; with overlap the statements are false, as said above) and `StableRows` (two
documents that share a slot read the same row there, which is what makes "the row of a
slot" mean something: a fingerprint is of the line's content). It proves `RowWhole` and
that `ImportLedger` implements `StatementBook`.

`BookInv`, beside `IInv`, is what a lone run may believe. Only users and discards work
beside it, and they take references away or turn them into tombstones (`Fades`). A
reading then errs on one side only (`SeenStands`): what it saw free is free, and what it
saw on a transaction is on no other. `PendingOwner` carries that to the transaction a
run is about to extend, `RowsApart` and `LateLegsFree` to the rows still to be written.
With it each write maps to one booking of legs of one row (`BooksStep`), each dropped
leg (by either kind of edit), deletion, detachment, release and discard to a drop, a rejection, a clearing or a freeing
(`DropsStep`, `RejectsStep`, `ClearsStep`, `FreesStep`), and every other step to a
stutter.

### Transfers

`TransfersProofs.tla`, for every number of transactions, legs, references, callers, edits
and editors, from `TransferAssumption`: type correctness, `ReferencesFollow`, `MergesStand`,
`EditsStand`, and the action properties `MergesFuseTwo` and `LegsReturnAsMerged`.
`TransferInv`, about legs, references and logs, rests on the types (a draft must be of
legs and values) and has three parts.

- `Rows`: a leg is on a transaction there is, a reference to nothing names no leg.
- `LogInv` is about the open merges. `LegsStand` strengthens `MergesStand` to the value
  the leg had. It is not inductive alone, because an unmerge pops one record and leaves
  the others standing: `LegsApart` says that records of one log that no edit touched are
  about different legs, so popping one does not move another's. `LogsAgree` is about
  nesting: what a transaction absorbed before it was absorbed itself is about the one leg
  and the value of the record that took it away, so its own log is right again when it
  comes back. `NamedOnce` is why a transaction comes back once.
- `RefInv`: besides `ReferencesFollow` it says that what a record, or a caller between
  reading and writing, has noted of a leg's references is exact but for late ones
  (`Sourced`). An unmerge moves references by those ids, so this is what keeps them with
  their leg.

Everything is stated of transactions that are not torn, and `LogKept` is the common
part of all steps that only forget. Proving it corrected the model: `MergesStand` had
first been stated of transactions that are not `clouded`, which TLC accepted on the
instance and which is false of larger ones (see the transfers below). `LogsAgree` and
`torn` came out of the failed attempt, and TLC confirmed the whole of `LogInv` on the
instance before it was proved.

`HeadInv` is about headers, and `EditsStand` is the case of it where no merge is open.
For a transaction that is not clouded it says what undoing its open merges one by one,
newest first, would leave: what the user made it (`Stands`). Date and reconciliation go
back while they are what the merge wrote, so there is a chain of values from the one the
table holds to the user's (`DatesStand`, `StatesStand`). Tags that only merges brought go
together, whatever the order (`TagsStand`). Of one metadata entry the newest merge that
brought it takes back as many as it brought; were there two such merges, the user had
removed all the first one brought, and so has none of his own (`EntryStands`), because a
merge brings an entry only to a survivor that has none. The second half of `HeadInv`
(`AbsentStand`) says the same of the header a record keeps of the transaction it
absorbed, with that transaction's own log: this is what makes an unmerge bring back a
transaction that had absorbed others. `MergeStands`, `UnmergeStands` and `WriteStands`
are the three ways a header changes. TLC confirmed `HeadInv` on the instance first, with
entries given twice.

An edit changes legs in one way, whoever makes it (`Edited`, `EditedKeeps`): it writes
legs of its transaction and logs all it removes or changes. That is what a compared edit
does; a command-line edit does it unless it is `Unheard`, and then its transaction is torn
(`WriteEditEdits`, from `UnheardIs`). Its header is the one it read with one change, which
is a user's edit while that reading is still what is stored (`WriteEditHeads`).

Two lemmas carry the concurrency of callers: `MergeFuses` shows that the recount inside the
transaction fixes which legs move whatever was read, and `NewestIs` that a record
compared with the newest one has its leg where it says.

### Restore

`RestoreProofs.tla`, for any number of files, backups, processes, crashes and failed
steps: type correctness, `ServedIsLive`, the action property `ServedStays`, and, where
only hosts run, that `Restore` implements `LiveLedger` (`WholeRestores`). The invariant
`RestoreInv` is the lock's: how far each kind of process may come (`Roles`), that only
the holder of the lock is at work (`LockHeld`), and that a pool is open exactly while a
service or a command uses it (`PoolsOpen`). `AloneInv` adds, for hosts alone, that a swap
finds no `-wal` file once it has looked at the ledger id, and that the copy it is about
to rename holds what a backup holds.

### Retention

`BackupPoolProofs.tla`, for any number of databases, ids, policies and backups and every
`Stamp` and `Instant`: `HoldersKeepTheirPool`, `UnionPolicy` and `JustTakenStays`.
`BackupInv` says what names are in use and what a holder has cached. The argument about
rotation is about the order of a listing: `NewestFirst` is unique up to backups of one
stamp, so the index a backup has in it, which is what `prune_indices` works on, counts
exactly the newer ones. `JustTakenStays` assumes `KeepsSome`, that a policy is not 0
days with no count; with that one the code deletes what it has just written (below).
`PoolAssumption` has counts from 1, since a count of 0 is read as no limit
(`bc-config/src/lib.rs:806`).

### The round trip

`RoundTripProofs.tla`, for any numbers of transactions, postings, references, runs,
files, users' and imports' changes and every document a file may state: type correctness,
`LegsComeBack`, `DiscardsPeelOff` and `CreatedOnce`. The assumptions are
`RoundTripAssumption` (ids are numbered and finitely many, a new transaction has a leg)
and `OpeningAssumption` (at the start each leg is one transaction's and each reference on
a leg of its owner).

`LegInv` is where legs and references are. Rows have their fields (`RowsWhole`), and what
is stored or recorded has legs (`VersionsWhole`); a leg, those that records or a
command-line edit's reading would bring back included, is one transaction's, and references and links name legs of their owner
(`LegsHome`); whoever made a transaction or put a reference on it has written, and what
a run has still to write it has not written (`RunsWrite`); what a run put on a
transaction is on no leg that the run's record would bring back (`OwnAside`). `LegsComeBack` is inductive with these
and not without: that a discard's relinking finds the leg again needs the leg to be among
those the discard brings back, and the link to name no leg of another transaction.

`StoryInv` ties each record of an edit to the story: a run's entry is what its record
left and stands on what the record found, except the maker's, which comes first; runs
are told of in the order they began; what a user wrote after a run is not what the run
left; a deletion is the last entry. So
when `Discard(b)` is allowed, no later run has written to a transaction that is as `b`
left it, `b`'s entry is the last one and what is under it is what the record brings back;
and when the transaction is not as `b` left it, taking the entry from the middle changes
nothing on top.

`SlotInv` is about slots. `FilesRight`: a file is read under its exporter's name, and
never names a transaction it adds. `SlotsRight`: a transaction has no more of its maker's
rows than a new transaction has legs. `PlacesRight` is the heart, and is about the files
not in `unsettled`: every run of the file under way knows every slot the file aims at, as
held or as planned (`KnowsSlots`), and each transaction the file added holds slots of one
of the file's n places, all slots of such a place are held, and no other transaction it
added holds any of them (`HasPlaces`). A run that goes to add a place's transaction again finds
its slots held, and the check at the write stops it. Three lemmas carry the invariant:
`PlaceStays`, that slots taken beyond those aimed at move no place; `ClaimsAre`, that a
claimed slot is the one wished for or beyond all that are known; and `TurnsApart`, on
which it rests that places share no slot. `FilesAddOnce` then counts: the added
transactions map one to one into 1..n.

TLC checked each of these invariants before its proof, `SlotInv` on 2 million states of
an instance with three runs and edits.

### What is only model-checked

- Everything about `Budgets`. The chains, sums and folds of the budget modules are
  recursive definitions over data, which the provers cannot reason about.
- The liveness properties `RunEnds` and `RestoreApplied`: fairness and ENABLED are out
  of the prover's reach.

## Where the code and its words differ

Two are runs that TLC refutes; `PROJECT.json` quotes the words. The others that a run
shows are told here and left out of a property by name, so that the rest of the property
is still checked.

1. `declare_resolve`: `create` (`import/declare.rs:720`) pairs the ids of the prefix the
   run knew with the ids minted now. A prefix somebody created in between is neither, so
   the ids shift and a path resolves to another path's account.
2. `transfers_adopted`: `unmerge` (`transfer.rs:441`) moves back the references whose ids
   the merge recorded. One attached to the absorbed leg while it was merged stays on the
   survivor and names a posting of another transaction.

The others were met while modelling. Each was seen in a counterexample or follows from
one step of a model; the properties above are stated beside them.

*Accounts and imports.*

- `AccountCreated` leaves out the commodity list, while `events.rs:57-59` holds it up as
  the event with the full state.
- An adoption is corroborated on a reading and written later; the write
  (`import_exec.rs:2954`) re-checks transaction and account but not the amount, so an
  edit in between leaves a reference on a posting of another amount. The comment at
  `import_exec.rs:2220` says the adopted leg carries the same amount.
- A matched transaction deleted between the reading of the slots and the row aborts the
  run: `NotFound` is not row-local (`import_exec.rs:3592`), though the comment at the
  lookup says a failure there is.
- `edit`, which the command line calls, writes what it read without comparing
  (`transaction.rs:1960-1967`). When a discard took an imported leg away since the reading,
  the leg comes back without its reference, and the next import of the statement books the
  line once more; when another edit did, it comes back beside its tombstone.
  `edit_if_unchanged` says it compares (`transaction.rs:1970`), and `edit` promises nothing.
  `ImportedKeepProvenance` leaves out the legs that came back so (`Stray`).
- A batch discarded while its run goes on keeps receiving what it writes
  (`import/discard.rs:181`), against "a discarded batch is a run that never happened";
  `import/batch.rs:303-307` knows it. A discarded apply likewise.
- `set_opened_on` is decided on a copy and overwrites a value the user stored since
  (`import/declare.rs:500`), against "fills each empty field and leaves a stored value
  alone" (`docs/DESIGN.md:443`). `StoredStands` speaks of values the run had read.
- A user's edit between a write and its `record_accounts` is counted as the run's own
  (`import/batch.rs:201`), and a discard takes it back.

*Transfers.*

- A command-line edit begun while a transaction was merged and written after the unmerge
  puts the merged date, tags and metadata back, though no merge is open and the user set
  none of them; `EditsStand` leaves such transactions out (`clouded`). One whose second
  reading comes before a merge and whose write comes after it deletes the leg the merge
  moved in and logs no `PostingRemoved`, so an open merge names a leg that is gone
  (`MergesStand` leaves it out, `torn`). `transfer.rs:411-413` calls its own count of rows
  a backstop "for any path that writes the projection without a per-posting event": that
  is such a path, and the unmerge is then refused.
- `merge` and `unmerge` write date, metadata and reconciliation as read before they
  begin (`transfer.rs:202`, `:331`): a concurrent edit of them is lost.
- `set_posting_spread` writes no event (`transaction.rs:2203`), so `unmerge` does not
  refuse after it, as it does after any other change of the absorbed leg.
- After the survivor's own leg was dropped, `unmerge` leaves a transaction without
  postings. A merge after a reordering may give two legs one position
  (`transfer.rs:183`).
- What a user writes by hand is taken for the merge's when it equals what the merge
  wrote, and an unmerge takes it back.
- `unmerge` undoes the merge it read and the log then drops the newest
  (`transfer.rs:303`). After another merge into the survivor in between, the record that
  is left names a transaction that is back: a third caller may have given it to another
  survivor by then, and a further unmerge brings it into being twice over, or fails on
  its id. It takes five transactions and three callers, so no run reaches it; the
  attempt to prove `MergesStand` without `torn` did.

*Backups and restore.*

- A command that does not take the lock may have the database open during a swap
  (`bc-service/src/state.rs:296`), and what it commits then goes to the replaced file,
  against `backup.rs:328`. `rekey` does not see such commands either
  (`docs/DESIGN.md:390`).
- A write between the safety snapshot and the restart is in no backup
  (`docs/DESIGN.md:384`).
- Another backup taken before the restart may prune the candidate (`backup.rs:411`).
- A policy of 0 days and no count deletes the backup it was called after
  (`backup.rs:153-172`): 0 days keeps nothing, while a count of 0 is read as no limit.
- In the hour the clock shows twice the newest backup may be taken for an old one and
  pruned (`docs/DESIGN.md:388`).

*Round trip.*

- "A rerun finds each one at the slot it took" (`roundtrip/apply.rs:619`) fails in three
  ways once others free or take slots, and the rerun adds a transaction again. A slot
  beside the file's own is freed: a file that adds a twin of a transaction it names takes
  slot 1, and when a discard frees slot 0, a rerun looks there. A slot of the file's own
  is freed between the plan of one run and that of another, or only some slots of a
  transaction are. Another file's edit adds a leg, and with it a slot, to a transaction
  this file names: the position to take moves past it. TLC finds each; `CreatedOnce`
  leaves out such files (`unsettled`).
- "A discarded batch is a run that never happened" (`import/discard.rs:3`) fails when
  runs cross. One run begins with another transaction; the user changes `t`; a second run
  writes `t` back to what the first one's file holds; the first run, whose base stands
  again, deletes `t`. The second began later and edited nothing after the first in the
  order of `started_at`, so its batch may be discarded before the first's, and the
  discard of the first then brings back what the discarded run wrote. `DiscardsPeelOff`
  leaves out such transactions (`echoed`).
- "It never stands for a create" (`roundtrip/apply.rs:620`) is so of the plan; the check
  at the write also counts slots of a transaction the file itself names.
- A statement's legs are protected as of the plan (`docs/DESIGN.md:615`); a leg adopted
  after it is edited away.
- A merge moves references off an absorbed transaction, so a later discard's detachment
  of kept edits misses the legs added there; and releasing the orphan of a deleted
  transaction hides that one run depends on the other.

*Budgets.*

- "A row's children sum to the row, except" where flagged (`budget_tree.rs:6-9`) fails
  when a sub-budget's revisions reach back before its envelope's first one, or filters
  change inside the window: the sub-budget counts a posting that its envelope does not,
  and a merged root loses it. `PageAddsUp` is stated of the other postings
  (`Consistent`). An unbudgeted row under a merged root is not part of the root's sum
  either, which `docs/DESIGN.md` section 7 says.
- Two concurrent `remove_revision` calls leave a budget without revisions
  (`budget.rs:641`), against "rejects removing the last remaining revision". The run has
  one remover.
- "Rounding per period makes the shares of adjacent sub-windows sum exactly"
  (`budget.rs:1685`) holds of windows cut where periods begin, which is how
  `native_periods` cuts them (`SubRowsSum`), and not of others.
- A posting on an archived account that no budget matches is on no row of the page:
  `unbudgeted_parent` (`budget_tree.rs:1010-1035`) looks the account up among the active
  ones (`:359`) and finds none, and `add_leftovers` (`:1070-1077`) drops it with a warning.
  The root's unbudgeted part is then less than what was spent. `PageAddsUp` leaves out
  these postings (`Dropped`) and shows that matched ones on the same account are counted.
- Archiving an account that has an active budget makes the whole overview fail with
  `NotFound` (`budget_tree.rs`, `load`).

## What is not modelled, and the plan

Modelled: accounts, source references, declarations, transfers, backup and restore.
Partly: the import run, transactions, batches, the round trip, the event log, budgets
(labels, verdicts, currencies and unvalued amounts, the target of unallocated rows are
left out). Next, in order:

1. Proofs about the budgets that do not rest on a sum, once the timelines carry no
   recursive definition.
2. Tags: a forest with the accounts' sibling index, the import's `record_tags` and the
   discard's `reverse_tags`.
3. The metadata registry: declared keys and the coercion of what is stored.
4. Pure algorithms with reference definitions: the residual of a transaction and the
   balances built on it.
5. `reverse`, posting spreads and positions in `Transfers`.

Left out for good: search and the query language, reports, loans, plugins and the user
interface: parsing, arithmetic and rendering without interaction between writers.
