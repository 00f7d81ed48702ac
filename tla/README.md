# Flowybooks in TLA+

Flowybooks is a double-entry bookkeeping application: a Next.js server, Drizzle,
and an embedded PGlite database. This directory models the part of it where
money is recorded, read and protected, checks it with TLC, and proves its central
properties with TLAPS. Paths are relative to `src/`.

**Execution model.** One Node process holds one PGlite connection. A
`db.transaction` is therefore atomic, and so is a statement outside one; other
requests run, and the process may die, only between two of them. An operation
that is one transaction is one action; an operation of several statements is one
action per statement, with a record per request of where it is and what it has
read. A request that is rejected before it writes is an action that is not enabled,
or one that ends the request, where others could see the difference.

## 1. Inventory

| component | state | operations | what is hard |
|---|---|---|---|
| Line rules: `lib/accounting/journals.ts`, the journal form | none | postability, balance per GL day, reversal lines, the normalized content behind an adjustment key | balance per day against balance in total; two-sided and negative lines |
| Journal lifecycle: `lib/accounting/journal-service/*`, `journal/_lib/journal-operations.ts` | `journal_batches`, `journal_lines`, `audit_log` | create, post, edit draft, delete draft, adjust, void | revisions of revisions; retried and concurrent adjustments; a lifecycle voided from any of its versions; stale reads before a transaction |
| Journal list: `journal-list-state.ts` | none (a reading) | latest version of each journal | it must agree with the sums of the reports |
| CSV import and source deduplication: `journal-import.ts`, `createJournalBatchWithStatus` | source hash of a batch | find, release, re-check, insert, look up after a violation | every await is a race; groups are imported one by one, a crash leaves some |
| Statement imports: `lib/imports/statement-import/**`, `statement-imports/actions.ts` | `statement_imports`, `parsed_transactions` | upload, classify, extract, categorize, review, post, unpost, delete | AI calls between a read and a write; batches of several files; the journal page acts on the same batches |
| Statement reading: `extractors/*`, `extraction-helpers.ts`, `reconciliation.ts` | lines and reconciliation being made | answer, chunks, normalize, reconcile, correct, spreadsheet rows | what is stored must be of the lines that are stored |
| Accounts: `lib/db/queries/accounts.ts`, `accounts-import.ts`, `chart-of-accounts-service.ts`, `account-management-service.ts` | `accounts` | import a chart, edit, create, ensure system accounts, Kevin's proposals | plans computed before their transaction; find-then-insert |
| Opening balances, prior-period adjustments: `journal-service/specialized.ts` | a posted batch, books start date | create with a plug line | writes that are not one transaction |
| Reports: `lib/accounting/reports/*` | none (readings) | balance sheet, income statement, trial balance, ledger, comparison columns | fiscal years, several SELECTs without a transaction |
| Report tabs and controls: `report-tabs-context.tsx`, `report-periods.ts`, `report-controls.tsx` | tabs of a window, browser storage | open, close, activate, duplicate, reload, choose a period | effects that run after the navigation that caused them; dates |
| Time Machine: `time-machine-service.ts` | snapshots | checkpoint, restore | a restore between two steps of another request |
| Kevin: `lib/kevin/*` | `kevin_threads`, `kevin_actions` | journals, accounts, standard chart, undo | checkpoint, write, record and message are separate writes |
| Organizations and signup: `api/auth/post-signup`, `api/orgs`, `lib/db/queries/{orgs,auth}.ts`, `lib/auth/middleware.ts` | users, organizations, members, settings | sign up, create, switch, choose the team of a page, delete the account | no request uses a transaction; any can be cut off; forms outlive a switch |
| Rate limiting: `lib/rate-limit.ts` | counts in memory | consume | refusals in the middle of a reading |

Interaction: every component that records money calls the journal service, in
its own transaction (statement posting, adjustments) or through
`createJournalBatchWithStatus` (imports, Kevin, opening balances). The journal
page and the reports read what they wrote. Time Machine rewrites all of it, and
Kevin's undo is a restore. Every page finds its organization by `getTeamForUser`.

What makes each correct, in one line:

- lines: whatever is stored can be posted and balances on every day;
- lifecycle: a correction takes back exactly what it replaces, once; posted
  batches are never edited; a journal is voided as a whole;
- list and reports say the same; a balance sheet balances and one year rolls into the next;
- import: a source is on the books at most once, and the answer is what was done;
- statements: a bank transaction is on the books at most once, on the right side, and can
  always be posted again; a failed reading ends; the stored reconciliation is current;
- accounts: system accounts stay what they are, used accounts stay, imports are repeatable;
- Time Machine and Kevin: references stay intact, an undo takes back its action;
- organizations: people work only where they are members; an interrupted signup can be completed;
- tabs: one well-formed set of tabs, periods that fit together.

## 2. Modules

| module | models | notes |
|---|---|---|
| `JournalLines` | line rules | pure operators; `Fault variant` operators, here and elsewhere, are deliberate bugs that a property must catch |
| `Journal` | journal lifecycle | the core; one action per transaction |
| `EntryBook` | nothing in the code | the abstract specification: entries are entered, posted, edited, removed, and balances move with them |
| `JournalBook` | list, posted sums | the refinement mapping from `Journal` to `EntryBook` |
| `DataLemmas` | nothing in the code | lemmas about sums, finite sets, sequences and selections that the proofs share |
| `Selections` | `filter`, `slice`, spreads | the part of a sequence at some of its places: `ReportTabs` and `StatementReading` are made of it |
| `JournalInvariant`, `JournalProofs` | nothing in the code | inductive invariant, theorems |
| `JournalImport` | CSV import, source deduplication | EXTENDS `Journal`: requests around the same insert |
| `JournalImportInvariant`, `JournalImportProofs` | nothing in the code | inductive invariant, theorems |
| `StatementPosting` | review, posting, unposting | EXTENDS `Journal`: postings are its `CreateBatch`; its void and adjust are the journal page |
| `StatementBook` | nothing in the code | the abstract specification: lines come and go, postings put them on the books and come and go as a whole |
| `StatementProofs` | nothing in the code | inductive invariants of posting, of the readings beside it and of the data of a reading, what a posting adds to an account, the refinement of `StatementBook`, theorems |
| `StatementClassification` | what the classifier makes of a file | pure operators |
| `StatementExtraction` | upload, classification, extraction | EXTENDS `StatementPosting`: each await of a reading is a step |
| `StatementReading` | the data of one reading | answers of a model, whole or in chunks, to the rows that are inserted |
| `TimeMachine` | checkpoints, restores | EXTENDS `StatementPosting`: all tables that refer to each other |
| `Kevin` | Kevin's requests | EXTENDS `TimeMachine`: awaits beside the journal, statement and Time Machine pages |
| `KevinProofs` | nothing in the code | inductive invariant of tables, checkpoints and requests, theorems |
| `AccountImport` | plan of a chart import | pure operators; a name the code spells with a space has an underscore |
| `ChartOfAccounts` | the accounts table and its requests | EXTENDS `AccountImport` |
| `OpeningBalances` | opening balances, adjustments | EXTENDS `ChartOfAccounts`: ensures system accounts, then posts |
| `BooksProofs` | nothing in the code | inductive invariant of accounts and opening balances, theorems |
| `Calendar` | days, fiscal years, named periods, comparison periods | pure operators on day numbers |
| `Reports` | the four reports | EXTENDS `JournalBook`, `Calendar`: one step per SELECT |
| `ReportsProofs` | nothing in the code | theorems about `JournalBook` and its refinement, inductive invariants of `Reports` and `ReportTabs`, the calendar, theorems |
| `ReportTabs` | tabs and report controls | EXTENDS `Calendar`, `Selections` |
| `Organizations` | signup, creation, switch, pages, forms, deletion | one step per query |
| `OrganizationsInvariant`, `OrganizationsProofs` | nothing in the code | inductive invariant, theorems |
| `MC*` | nothing in the code | instances for TLC |

```
JournalLines <- Journal <- JournalImport <- JournalImportInvariant <- JournalImportProofs
                  | \ \ <- StatementPosting -- implements --> StatementBook
                  |  \ \    \ <- StatementExtraction -> StatementClassification
                  |  \        \ <- TimeMachine <- Kevin
                  |   \ <- JournalInvariant <- JournalProofs
                   \ <- JournalBook -- implements --> EntryBook
                          |   \ <- Reports -> Calendar <- ReportTabs -> Selections
                          |            \ <- ReportsProofs -> ReportTabs, JournalProofs, DataLemmas
StatementReading -> Selections <- DataLemmas
StatementExtraction, StatementReading, JournalProofs, DataLemmas <- StatementProofs
Kevin, StatementProofs <- KevinProofs
AccountImport <- ChartOfAccounts <- OpeningBalances <- BooksProofs -> DataLemmas
Organizations <- OrganizationsInvariant <- OrganizationsProofs
```

### Journal

`rows` is `journal_batches` joined with its lines, in insertion order; the id is
the index, and a removed row stays as `"deleted"` because ids are never reused.
`content` holds the lines and `memo`, which stands for the description and header
date. `source` is `source_ref_hash` of a batch that came from an import, and
`released` says that the hash has been replaced by the one of
`buildReleasedSourceRefHash`. `supersedes` is `supersedes_batch_id`;
`originalBatchId`, `reversalBatchId` and `adjustmentKey` are the fields of the
source reference that the code reads back. (Revisions and reversals have a hash of
their own, which contains the adjustment key and cannot collide; the model keeps
`NoSource` for them.) `audit` is the set of actions logged for the batch;
`createdBy` says whether the caller named a user. `answers` is a history of what
`adjustJournalBatch` returned. `AdjustmentKey` abstracts the SHA-256 by the tuple it
is computed from, with the lines as a bag (the code sorts them). Amounts beyond the
32-bit columns are rejected by the database and are not modelled. `Descendants` is
the breadth-first walk of `voidJournalEntryLifecycleTx` written as the least closed
set.

### CSV import

A request has `pc`, its file, what it has reported, and the batch it found.
`Recognised` is the set of answers `isUniqueConstraintViolation` may give for a
violated index: it looks at `error.code`, and depending on its version the ORM wraps
the driver's error, so both are possible.

### Statements

`imports` is `statement_imports` (status and linked account) and `txns` is
`parsed_transactions`, a function on the rows that are in the table. A
transaction's id is its file, its line and the reading that inserted it, because
reading a file twice inserts its lines twice. `Printed` is what the files say;
`payment` says whether `looksLikeCardPayment` recognises a description. The source
key of a posting is the set of transactions it was made from, so the unique index of
`Journal` applies to it as it stands.

| action | code |
|---|---|
| `Upload`, `Extract` | `uploadStatement`, `extractStatement` |
| `SetLinkedAccount`, `Categorize`, `Allocate`, `ToggleExcluded`, `BulkSetExcluded`, `Describe`, `DeleteImport` | the server actions of `statement-imports/actions.ts` |
| `PostStatement`, `UnpostStatement` | `postStatementImportBatchToJournalTx`, `unpostStatementImportBatchTx` |
| `JournalPage` | `VoidLifecycle` and `AdjustBatch` of `Journal`, on a posting |

`StatementExtraction` takes `Extract` apart. A reading has `pc`, the file, the
parser (`model` for `extractStatement`, whose `catch` sets the status; `spreadsheet`
for a CSV that is parsed in the request of its upload) and `left`, the transactions
it still has to write a suggestion for. Kevin's upload classifies before it reads;
he names no account, so the classifier's conflict cannot occur. `Crash` loses
every reading at once, since they run in one process.

`StatementReading` is the data of one reading: what a model may answer, that it may
time out and be asked chunk by chunk, that lines are made readable, signed, rid of
the repetitions of overlapping chunks, reconciled, perhaps corrected by a second
answer (whose confidence decides how much it may drop), and joined by value-change
lines. `recon` is the reconciliation stored with them. Metadata comes with its days
and amounts parsed (`StatementMetadata`). What `filter` leaves of a list is `AtPlaces`
of the places that pass, which can be proved about where a fold cannot.

### Time Machine and Kevin

`Restore` is `restoreTimeMachineSnapshot`: a `pre_restore` checkpoint and the
replacement of every table, in one transaction. Ids given out since then are not
given out again. A request of Kevin goes from page to message, checkpoint, write,
record and reply; each is a transaction or a statement of its own, foreign keys
refuse a record of a thread or journal that is gone, and a request that stops for
ever is a crash. A request proposes one journal.

### Accounts and opening balances

`accounts` holds every row ever inserted. A request first reads and plans
(`PlanImport`), then applies in one transaction what it planned, with the columns as
they were planned and the unique code and the foreign key of journal lines refusing;
then `ensureSystemEquityAccounts` finds, inserts or repairs the two system accounts
one statement at a time. `settled` is a history of the file last written to the chart
it was planned for; an edit, a new account or a proposal forgets it, and so does the
repair of a system account, while drafting, posting and voiding journals and the
insertion of system accounts do not. `OpeningBalances` goes on from there: validate (an
entry of no lines, or of a line that is not one-sided, is refused), post with the plug
line, set the books start date. The retained-earnings account is read
together with the validation.

### Reports

`report` is the report being made, with one field per SELECT; `undisturbed` is
history: no journal changed since it began. `Calendar` counts days from 1970 and
computes months, fiscal years, quarters and comparison periods as the code's date
helpers do. A change to or from summer time is left out.

### Report tabs

A window has the page it shows, the one it navigates to, its tabs, the active tab
and the controls of its report; `storage` and `saved` are the browser's. Effects run
when the page arrives, after later clicks. A tab is its address and its id follows
from it.

### Organizations

Every query is a step; `calls` holds what a request read, and stays as read. `Ends` cuts
a request off anywhere. `form` is a page that stays open: `Submit` is the request it
sends, which finds its user and organization anew while its accounts are those of
the page. `rows` is any accounting row, with the check of account ids that every
service makes. Better Auth is external: it makes and deletes accounts. The two
membership queries of `getTeamForUser` are one step; retries of a
public id show in nothing. Only `owner` is ever inserted as a role, so role checks
that ask for a member are all there is.

## 3. Runs

| run | question | instance | result |
|---|---|---|---|
| `journal` | do the invariants of the lifecycle, the inductive invariant among them, hold, and does the journal as read by its list and reports implement `EntryBook`? | 8 contents (valid, permuted, moved, unbalanced, balanced only across days, negative, foreign account, empty), 2 entries, 6 rows | holds, 39 457 states |
| `journal_import` | two imports, a user, crashes: at most one live batch per source, and answers that are true? | 3 rows, files with a bad second group and with an amount that rounds to zero | holds, 501 053 states (symmetric requests) |
| `statement_posting` | is a transaction on the books at most once, as its file says, cash counted once, can it always be posted again, and does it all implement `StatementBook`? | a card import of two files, a deposit and a charge, splits, linked accounts, 4 rows, one correction | holds, 476 352 states |
| `statement_extraction` | is a retry refused, and does every reading end the status that forbids deletion? | one file of one line, two readings, three kinds of clues, rate limiter, crashes, 2 rows | holds, 295 072 states |
| `reading` | is the stored reconciliation of the stored lines, and is every line accounted for? | answers of up to 2 lines, 2 chunks, bank and card, balances printed or not, three spreadsheets | holds, 106 663 states |
| `reports` | do undisturbed reports balance, roll forward and adjoin? | fiscal year to 30 June, its last and first day, 2 journals with corrections, an account opened late | holds, 381 097 states |
| `kevin` | do references stay intact and does an undo take back what it should? | two requests, 2 checkpoints, 3 batches, one statement line, one account to add | holds, 3 614 589 states (symmetric requests) |
| `books` | are system and used accounts kept, single, and is a chart import repeatable; does the plug balance? | 2 requests at a time, 3 in all, 6 rows, four files, a hand-made account, two entries | holds, 2 048 730 states (symmetric requests) |
| `organizations` | does what a request checked stay good until it acts? | one address, 2 user rows, 2 organizations, 2 requests | holds, 1 401 117 states (symmetric) |
| `report_tabs` | are tabs and periods well-formed? | one window, a report and a plain page, one duplicate, leap day and first day of a fiscal year, every fiscal year end | holds, 1 164 634 states |
| `statement_twice` | is a line on the books at most once? (docs/STATEMENT_PARSERS.md:22) | two readings | violated: both see `uploaded` and both insert the lines |
| `statement_unread` | is every imported file read? (docs/STATEMENT_PARSERS.md:10-14) | two files | violated: posting the first marks the second as imported, and it can no longer be read |

What each property says is in the comment before it.

Bounds. `MaxBatches` rows and `MaxEntries` rows that are not adjustments: six and
two allow one journal revised twice (where the void walk has two levels) or two
revised once. Three rows are enough for an import: two requests and a batch in the
way. Two files are the least for which the files of an import can differ in status
and one can be deleted; two readings, two chunks and two requests the least that
overlap. Two checkpoints make an undo of an older action after a newer restore; the
restore's own checkpoint counts. Six account rows hold the two system accounts, a
duplicate of each attempt, and two others; a third request sees what two made.
One person needs two user rows because a deleted one stays; two organizations are
the least to switch between. A journal, a posting and a checkpoint that no bound
allows are not made, and the actions that need them are not taken.
`CompareMode` is bounded in `reports` to the harder of its two values; the other
is in `report_tabs` through `PeriodsWellFormed`. Symmetry is used only in runs
without liveness, over requests, users and organizations, which no definition tells
apart. Deadlock checking is off where a finished instance stops; it is on in
`statement_posting`, `statement_unread`, `reports` and `report_tabs`.

Fairness: only in `statement_extraction`. Everything is a request of a user, who
need not make it. A reading that was started goes on: each await returns, that of
the provider included (it answers, fails or times out), so every reading has weak
fairness (`FairExtractionSpec`). `ExtractionSettles` exempts readings lost in a
crash: nothing takes their file out of `extracting`.

## 4. Proofs

`JournalProofs`, for any number of rows, accounts, contents and sources; the
assumption is `JournalAssumption`, the types of the constants:

| theorem | property |
|---|---|
| `Invariance` | `IndInv` |
| `TypeCorrect` | `TypeOK` |
| `AlwaysPostable` | `EveryBatchPostable`, which no run checks by itself: `EveryDayBalances` rests on it |
| `LifecycleVoidedAsAWhole` | `LifecycleAllOrNothing` |
| `AdjustmentExact` | `SupersededExactlyReversed` |
| `AdjustmentIdempotent` | `ConsistentAnswers` |
| `PostedNeverEdited` | `PostedPreserved` |
| `LedgerIsAudited` | `AuditTrail` |

None of the safety properties is inductive alone. That an adjustment is exact needs
that revisions and reversals come in pairs (`Pairs`) and that nothing but a revision
or a reversal points back, and only at a batch that has been posted (`Links`); that a
void takes all or nothing needs that a lifecycle is closed under both pointers, which
is proved as lemmas about the least closed set. `IndInv` is the conjunction of these
with the type invariant, the exact reversals and the record of answers. The audit
trail needs only that steps keep the links and add to the log (`Logged`).

`JournalImportProofs`, for any number of imports, files, groups, rows and sources,
whatever errors are recognised; the assumptions are `JournalAssumption` and
`ImportAssumption` (a file has a group, and one row fits into the table):

| theorem | property |
|---|---|
| `ImportStaysSound` | `ImportIInv`, which holds on the instance of `journal_import` |
| `SourceJournaledOnce` | `OneLivePerSource` |
| `ReportsAreTrue` | `ResultsMatchFile` |
| `OnlyLiveBatchesBlock` | `DuplicatesAreLive` |

`ImportIInv` adds to the types that a source is held by one row (`OneHolder`, which is
what the index gives), that only voided rows have given it up (`ReleasedIsVoided`, the
step from the index to draft and posted rows), and for each request that it is where
its file says (`Progress`), that past the release no voided row holds its source
(`Reclaimed`), and that its reports are true (`ReportHolds`, `CreatedOnce`). Other
requests and the user are dealt with once, by `Evolve`: rows keep their source, and no
step makes a voided row a holder. This is where voiding must release
(with `VoidRowUnlogged` it fails). A consequence is that the second release, after a
violated index, never finds a batch to release.

`OrganizationsProofs`, for any number of people, organizations and requests; the
assumption is `OrganizationsAssumption` (the two null values are no ids, and there is
an address):

| theorem | property |
|---|---|
| `RequestsStaySound` | `OrgIInv` |
| `CurrentOrgIsMembers` | `CurrentIsMember` |
| `SignupsComplete` | `SignupCompletes` |
| `RowsStayInTheirOrg` | `RowsKeepToTheirOrg` |

`OrgIInv` says of each request what it knows at each place (`CallOK`) and of the
tables that they do not contradict each other (`TablesOK`). The argument is one of
non-interference: `Kept` is what no step takes away (a deleted user stays deleted;
until then memberships, a current organization and settings stay), `OthersKeep` shows
that what a request knows survives any step that keeps it, and every action is
shown to keep it and to leave its own request sound. The order of the deletion is
what it rests on: a membership goes only when its user is deleted. With the
membership first (`MemberBeforeUser`) the invariant fails.

`ReportsProofs`, first about `JournalBook`, for any chart and history; the assumptions
are `JournalAssumption` and `BookAssumption` (an organization has finitely many accounts):

| theorem | property |
|---|---|
| `BooksStaySound` | `SoundBooks` |
| `LedgerBalancesDaily` | `EveryDayBalances` |
| `ListMatchesReports` | `ReportsMatchList` |
| `JournalIsEntryBook` | `ImplementsEntryBook` |

`SoundBooks` is `IndInv` with two facts that the readings rest on: whatever is stored
balances on every day, and a revision has a larger id than what it replaces. The second
makes the list's walk from version to version end, in one batch that nothing
supersedes; the reversed versions before it cancel what they reversed, so that the sum
over all posted lines is the sum over the latest versions. The refinement has one lemma
per kind of step (`CreateChange`, `DraftChange`, `AdjustChange`, `VoidChange`): which
entry of `EntryBook` it changes, and by how much each balance moves.

Sums are folds over finite sets, which no installed prover can induct on.
`DataLemmas` does without an induction schema: among the subsets on which a claim about
a sum fails there is a smallest one, and taking one element out of it contradicts that
it fails. From that come the lemmas on splitting, exchanging, grouping, renaming and
cancelling sums that the other modules cite.

`ReportsProofs`, then about `Reports`, for any fiscal year, chart and calendar day; the
assumptions are `JournalAssumption`, `BookAssumption` and `ReportAssumption`:

| theorem | property |
|---|---|
| `ReportsReadTheBooks` | `ReportInv` |
| `TrialBalances` | `DebitsEqualCredits` |
| `TrialBalancesAdjoin` | `PeriodsAdjoin` |
| `EarningsRollForward` | `YearRollsForward` |
| `BalanceSheetsBalance` | `BalanceSheetBalances` |

`ReportInv` says what the SELECTs of a report have read: for a trial balance and a ledger
of all accounts, amounts that add up to nothing, whatever is written meanwhile; for a
trial balance and a balance sheet, what the books hold, as long as nothing was written
since the report began. What is added to that is arithmetic of periods (a
period and the one before it are the time up to its end, `PeriodsAdd`), of the calendar
(a day has one fiscal year, which begins where the last one ended), and of the chart
(the five types of accounts are all there are, `ChartParts`).

`ReportsProofs`, last about `Calendar` and `ReportTabs`, for any number of windows, tabs
and instances, any fiscal year end and any days after 27 September 1972. Before that a
named period could reach back to the year that the model's `NoDay` stands for; pages are
used after it. This is the only restriction in `ReportTabsAssumption`:

| theorem | property |
|---|---|
| `TabsStayWellFormed` | `TabsInv`, which holds on the instance of `report_tabs` |
| `TabsAlwaysSound` | `TabsSound` |
| `PeriodsStayInOrder` | `PeriodsInOrder` |
| `PeriodsAlwaysFit` | `PeriodsWellFormed` |

The calendar is arithmetic: months are numbered, the first days of months grow with
their numbers (`MonthsGrow`), every day is in one month (`MonthFound`), and a date that
is shifted by months is capped to the length of the month, so shifting keeps the order of
dates (`ShiftsInOrder`). From that every named period is found, is not empty, and begins
less than 800 days ago (`PeriodsFound`, `PeriodsBounded`). `TabsInv` says of windows,
storage and saved periods alike that tabs are of known pages, no two the same, the
active one among them, and that every period anywhere, in an address, in controls or saved,
is in order. There is one lemma per effect and one per click. Removing a tab cannot
remove the active one unnoticed because its neighbour is taken from what is left
(`TabClosed`), and a period is saved only from controls that are in order. A named
period is saved by its name and is computed again on the day it is used, so that being
in order must hold of the calendar, not of what was stored.

`BooksProofs`, for any number of requests, accounts, files and entries; the assumptions
are `ChartAssumption` and `EntryAssumption`:

| theorem | property |
|---|---|
| `BooksHold` | `BooksInv` |
| `SystemAccountsStay` | `SystemAccountsKept` |
| `LedgerAccountsStay` | `LedgerAccountsKept` |
| `SystemAccountsOnce` | `OneSystemAccountEach` |
| `PlugAlwaysBalances` | `PlugBalances` |
| `ReimportIsIdempotent` | `ReimportChangesNothing` |

`BooksInv` adds to a sound table (unique codes, system accounts of the right kind) what
each request may still assume of what it has read and planned. Steps of others are
dealt with once: `TableStep` is what they may do to the table, `RequestKept` that a
plan survives it. `PlugEvens` is the arithmetic of the plug. A second import is planned
from a chart that agrees with the file in every row the file names (`SettledBy`), and
that agreement survives all steps but the edits after which `settled` is forgotten.

`StatementProofs`, for any number of files, transactions, splits and accounts; the
assumptions are `JournalAssumption` and `StatementAssumption`:

| theorem | property |
|---|---|
| `PostingsStaySound` | `PostingInv` |
| `PostedOnce` | `OnBooksOnce` |
| `RepostAlwaysFree` | `RepostNeverBlocked` |
| `PostingsFollowStatements` | `PostingFollowsStatement` |
| `CashIsCountedOnce` | `CashCountedOnce` |
| `StatementsStayApart` | `FilesThere` and `Apart` |
| `PostingIsStatementBook` | `ImplementsStatementBook` |

`OnBooksOnce` speaks of lifecycles; the invariant speaks of the posted batch alone,
because all of a lifecycle has one status (`LifecycleOneStatus`). `PostingInv` is
`IndInv`, carried through postings and unpostings (`SubmittedInv`, `VoidStepInv`), with
the types of files and transactions and three links between the tables: a batch made
from transactions is posted or voided, is nobody's revision, and gives up its source
when it is voided (`PostingsOK`); a transaction is marked with the one posted batch that
has it in its source (`MarksOK`); and nothing refers to the lines of a file that was
never read (`UnreadHasNone`), without which a reading could insert transactions that
are on the books already. What a posting adds to an account needs no invariant but the
types: the net of lists that are joined is the sum of their nets (`NetOfAllJoined`), and
the transactions come in some order that names each of them once.

The refinement maps the transactions in the table to `lines` and the sources of the
posted batches to `postings`; revisions and reversals show in nothing. It needs two more
facts: a transaction goes with its file (`FilesThere`), so that unposting, which looks
through the files that are left, meets every line; and no two batches on the books share
a transaction, also one that is no longer in the table (`Apart`), so that a void takes
one posting away and no other. `MarksOK` says the latter of present transactions only.
There is one lemma per action (`PostShown`, `UnpostShown`, `VoidShown` and so on);
that voiding a lifecycle takes away one statement's posting at most is
`LifecyclePostings`. The abstract specification shows what the code does with a posting
whose lines were all discarded: unposting no longer reaches it, and it can only be taken
back from the journal page.

`StatementProofs`, then with the readings of `StatementExtraction` beside it, for any
number of readings; the assumption added is `ExtractionAssumption`:

| theorem | property |
|---|---|
| `ReadingsStaySound` | `ExtractionInv` |
| `ReadOnlyOnce` | `RetryRefused` |
| `PostedOnceWhileRead` | `OnBooksOnce` |
| `RepostFreeWhileRead` | `RepostNeverBlocked` |
| `FollowedWhileRead` | `PostingFollowsStatement` |
| `StatementBookWhileRead` | `ImplementsStatementBook` |

`PostingInv` does not survive as it is: it says that an unread file has no lines, and two
overlapping readings may both insert them. What it was needed for is that inserted
transactions are on no books yet. Here that follows from their ids, which contain the
reading: `RowsOfReadings` says that whatever is in the table or was ever posted
is of a reading that has got past its insertion, so that the rows of one that has not
are new. A retry is refused because no step leads a file back to `uploaded` once the
model's reading has claimed it (`ReadingOK`); Kevin's parser of spreadsheets claims
nothing, which is why the invariant distinguishes the two.

`StatementProofs`, last about `StatementReading`, for answers, chunks and spreadsheets of
any length and any amounts; the assumption is `ReadingAssumption`, the types of the
constants:

| theorem | property |
|---|---|
| `AnswersStayHeld` | `AnswerHeld`, which holds on the instance of `reading` |
| `ReconciliationStaysCurrent` | `ReconciliationCurrent` |
| `LinesStayAccountedFor` | `LinesAccountedFor` |

Between normalization and storing the reconciliation is that of the lines and value
changes as they are, and unless a correction was applied every readable line of the
answer is at its place among them (`ReadingHeld`). It rests on what the steps of a list
do: normalizing keeps its length and its order (`NormalizedIs`), skipping nothing keeps all
(`AtAllPlaces`), and value changes only follow what is there (`ListsJoined`).

`KevinProofs`, for any number of requests, checkpoints, journals and statements; the
assumptions are those of `StatementProofs` (which say nothing that relates the constants of
one module to those of another), `TimeMachineAssumption` and `KevinAssumption`
(Kevin's proposals are journals, and no thread has the null value for its name):

| theorem | property |
|---|---|
| `KevinStaysSound` | `KevinInv` |
| `RestoredReferencesIntact` | `ReferencesIntact` |
| `RecordedActionsUndoable` | `ActionsUndoable` |
| `UndoingTakesBack` | `UndoTakesBack` |

A restoration replaces every table, so an invariant of the tables alone is not
inductive: the same must hold of the tables in every checkpoint. `Intact` and
`ActionsSound` therefore speak of any payload, and `KevinInv` says them of the current
one and of all snapshots. The links of `IndInv` do not survive as they are: a removed
row may have descendants that are back after a restore of an older checkpoint, so
`RowsIntact` asks of the rows that are there only, and that voiding takes all or nothing
of them is shown again (`RootNoReversal`, `BothOrNone`). An undo finds what it should
because a recorded action names a checkpoint older than the one it is itself part of
(`before`), and a journal whose id no row had when that checkpoint was taken: ids are
not given out twice, and no checkpoint holds an id that `rows` does not. `AskSound` is
what a request has read and still needs between its awaits; nothing takes it away,
because rows and checkpoints only grow (`Grown`), also when a checkpoint is restored.
`KevinInv` holds on the instance of `kevin`.

Every invariant and action property of the passing runs is stated by a theorem. Only
model-checked, and out of the prover's reach: liveness and everything else under
fairness (`ExtractionSettles`), and what a recursive definition computes for every input,
so operators that fold in a given order are proved about only as far as their types
(`AmountOf`) or were written without the recursion where the code's loop has a plain
meaning (`AtPlaces`). The violation runs show behaviours, which are no theorems.

## 5. Where the code and its words part

Besides the two violation runs, met while modelling and kept in the models as the
code has them:

- statement posting names no user (`posting-service.ts:384`), so what it posts and
  voids has no audit entry, which docs/ARCHITECTURE.md:65 says every posting has;
- Kevin's page classifies each file of an upload by itself, and `posting-service.ts:243`
  goes by the first file of an import batch for all: in a batch of both kinds (`OneKind`
  is false) payments on a card may move cash, or deposits at a bank be taken for them;
- an import with `skipExisting` can end in the driver's error (`shared.ts:438`),
  which `journal-import.ts:36` does not expect;
- unposting voids, and makes no reversing journal as `unpost-button.tsx:18` says;
- a failed second insert of `ensureOrgSettings` fails the request, and `member` has no
  unique constraint on user and organization;
- a deletion that is cut off once Better Auth's account is gone leaves a live user, whom
  the next signup with that address takes over; memberships of other organizations
  stay with a deleted user;
- amounts without decimals are taken as cents (`normalizeAmountToCents`);
- a general-ledger page that is given an unknown account shows the whole ledger;
- the income-statement export divides accounts by sign where the page goes by type;
- reports run outside a transaction and can be torn by a posting;
- the controls of a report show its period as of today, the page as it was chosen;
  the balance sheet's drill-down shows only the fiscal year;
- two windows write one tab storage, the last one wins; tabs survive a switch of
  organization;
- a restore inserts each table in one statement, which has a limit of parameters.

## 6. Plan

1. Done: the models above; a theorem for every safety property of the passing runs.
2. Done: the abstract specifications `EntryBook` of the journal and `StatementBook` of
   statement postings, with proofs that `Journal`, `StatementPosting` and
   `StatementExtraction` implement them.
3. To model: two windows over one tab storage, mapping rules and memories in a
   checkpoint, the sliding window of the rate limiter.

## 7. Not modelled

- Prompts, models and documents of Kevin, the text of PDFs, redaction, number and
  date formats, parsers of single banks: text whose results enter as inputs.
- Pages, layout, exports (but the ledger's), the sidebar and other components: markup.
- `replaceOpeningBalance` and `replacePriorPeriodAdjustment`: no caller.
- Merging suggestions with saved mapping rules, the name and layout of a file, the undo
  of a description. A saved mapping and a suggestion are both `WriteSuggestion`.
- Roles beyond `owner`, invitations: nothing creates them.
- The window of the rate limiter: its refusals are actions.
- Better Auth's sessions, scripts of setup, seed and release.

The pages disable buttons by what they showed when they were rendered; a second tab
may still call the server action, which does not check again, and so may the models.
