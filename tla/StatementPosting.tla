-------------------------- MODULE StatementPosting --------------------------
(***************************************************************************)
(* Bank and credit card statements, from the upload to the journal: the    *)
(* statement import actions and lib/imports/statement-import/              *)
(* posting-service.  An import batch is one or more statement files that   *)
(* are posted and unposted together.                                       *)
(*                                                                         *)
(* Each operation is one database transaction or one UPDATE, hence one     *)
(* action.  Reading the file is one action here, Extract; it is taken      *)
(* apart in StatementExtraction.  The pages disable some buttons by what   *)
(* they showed when they were rendered; the server actions do not check    *)
(* again, so a second tab may still call them and so may the model.        *)
(***************************************************************************)
EXTENDS Journal, SequencesExt

CONSTANTS
  Statement,     \* the files that are ever uploaded
  BatchOf,       \* the import batch of each file
  CardStatement, \* the files uploaded as credit card statements
  Printed,       \* what each file says: its lines [date, amountCents, payment]
  Run,           \* readings of a file: each inserts transactions with ids of its own
  Linkable,      \* the statement accounts a file may be linked to
  Liability,     \* the accounts of type liability
  CashAccount,   \* the asset accounts marked as statement accounts
  Category,      \* the accounts a transaction may be given
  Split,         \* the splits a user may enter: sequences [account, amountCents]
  ImportMemo     \* stands for the description and date of a posting

NoAccount == "none"

ImportBatch == {BatchOf[s] : s \in Statement}

\* A parsed transaction is identified by its file, its line and the reading.
TxnId == UNION {{<<s, i, r>> : i \in DOMAIN Printed[s], r \in Run} : s \in Statement}

ASSUME StatementAssumption ==
  /\ Linkable \in [Statement -> SUBSET OrgAccount] /\ Category \subseteq OrgAccount
  /\ CardStatement \subseteq Statement /\ Liability \subseteq OrgAccount \ CashAccount
  /\ NoAccount \notin AccountId
  /\ ImportMemo \in Memo
  /\ SourceKey = (SUBSET TxnId) \ {{}}
  /\ Printed \in [Statement -> Seq([date : Date, amountCents : Int, payment : BOOLEAN])]
  /\ Split \subseteq Seq([account : OrgAccount, amountCents : Nat \ {0}])

VARIABLES
  imports,   \* statement_imports: status and linked account of each file
  txns       \* parsed_transactions: a function on the ids that are in the table

postingVars == <<rows, answers, imports, txns>>

Present == {s \in Statement : imports[s].status \notin {"absent", "deleted"}}

FilesOf(g) == {s \in Present : BatchOf[s] = g}

TxnsOf(S) == {t \in DOMAIN txns : t[1] \in S}

SetTxn(t, field, value) == txns' = [txns EXCEPT ![t][field] = value]

SetStatus(S, status) ==
  imports' = [s \in Statement |-> IF s \in S THEN [imports[s] EXCEPT !.status = status]
                                             ELSE imports[s]]
-----------------------------------------------------------------------------
(* Uploading and reading a file *)

Upload(s) ==
  /\ imports[s].status = "absent"
  /\ \E a \in Linkable[s] \cup {NoAccount} :
       imports' = [imports EXCEPT ![s] = [status |-> "uploaded", linkedAccountId |-> a]]
  /\ UNCHANGED <<rows, answers, txns>>

ParsedTxn(line) ==
  [date |-> line.date, amountCents |-> line.amountCents, payment |-> line.payment,
   confirmedAccountId |-> NoAccount, allocations |-> <<>>,
   isExcluded |-> FALSE, journalBatchId |-> None]

\* The table with the rows that reading r of the file inserts.
Inserted(s, r) ==
  LET new == {<<s, i, r>> : i \in DOMAIN Printed[s]}
  IN  [t \in new \cup DOMAIN txns |->
         IF t \in new THEN ParsedTxn(Printed[s][t[2]]) ELSE txns[t]]

Extract(s, r) ==
  /\ imports[s].status = "uploaded"
  /\ \/ SetStatus({s}, "extracted") /\ txns' = Inserted(s, r)
     \/ SetStatus({s}, "failed") /\ UNCHANGED txns
  /\ UNCHANGED <<rows, answers>>
-----------------------------------------------------------------------------
(* Reviewing the transactions *)

SetLinkedAccount(s) ==
  /\ \E a \in Linkable[s] \cup {NoAccount} : imports' = [imports EXCEPT ![s].linkedAccountId = a]
  /\ UNCHANGED <<rows, answers, txns>>

Categorize(t, a) ==
  /\ SetTxn(t, "confirmedAccountId", a)
  /\ UNCHANGED <<rows, answers, imports>>

AmountOf(allocations) == FoldSeq(LAMBDA x, sum : x.amountCents + sum, 0, allocations)

Magnitude(n) == IF n < 0 THEN -n ELSE n

\* The amounts of a split are positive and add up to the transaction.
Allocate(t, split) ==
  /\ split # <<>>
  /\ AmountOf(split) = Magnitude(txns[t].amountCents)
  /\ txns' = [txns EXCEPT ![t].confirmedAccountId = split[1].account,
                          ![t].allocations = IF Len(split) > 1 THEN split ELSE <<>>]
  /\ UNCHANGED <<rows, answers, imports>>

ToggleExcluded(t) ==
  /\ SetTxn(t, "isExcluded", ~txns[t].isExcluded)
  /\ UNCHANGED <<rows, answers, imports>>

\* The bulk action, here for the whole import, passes over what is posted.
BulkSetExcluded(T, excluded) ==
  /\ txns' = [t \in DOMAIN txns |->
                IF t \in T /\ txns[t].journalBatchId = None
                  THEN [txns[t] EXCEPT !.isExcluded = excluded] ELSE txns[t]]
  /\ UNCHANGED <<rows, answers, imports>>

\* A new description can make a transaction look like a card payment; the raw
\* description, which is looked at too, stays.  Nothing reads it on a bank file.
Describe(t) ==
  /\ t[1] \in CardStatement
  /\ \E p \in {TRUE, Printed[t[1]][t[2]].payment} : SetTxn(t, "payment", p)
  /\ UNCHANGED <<rows, answers, imports>>

Surviving(s) == DOMAIN txns \ TxnsOf({s})

\* The file goes and its transactions with it, posted or not.
DeleteImport(s) ==
  /\ s \in Present /\ imports[s].status # "extracting"
  /\ imports' = [imports EXCEPT ![s] = [status |-> "deleted", linkedAccountId |-> NoAccount]]
  /\ txns' = [t \in Surviving(s) |-> txns[t]]
  /\ UNCHANGED <<rows, answers>>
-----------------------------------------------------------------------------
(* Posting *)

\* Fault variant of Postable: what is on the books is posted again.
PostableAgain(T) == {t \in T : txns[t].confirmedAccountId # NoAccount /\ ~txns[t].isExcluded}

Postable(T) ==
  {t \in T : /\ txns[t].confirmedAccountId # NoAccount
             /\ ~txns[t].isExcluded /\ txns[t].journalBatchId = None}

ActiveUnposted(T) == {t \in T : ~txns[t].isExcluded /\ txns[t].journalBatchId = None}

\* The accounts that the user or a suggestion gave the transaction.
GivenTo(t) ==
  IF txns[t].allocations = <<>> THEN {txns[t].confirmedAccountId}
  ELSE {txns[t].allocations[i].account : i \in DOMAIN txns[t].allocations}

\* Fault variant of CardPayment: the payment is posted like any other transaction.
NoCardPayment(t, card) == FALSE

\* A payment on a card statement that was given a cash account: the bank's own
\* statement will bring it.
CardPayment(t, card) ==
  /\ card /\ txns[t].amountCents > 0 /\ txns[t].payment
  /\ GivenTo(t) \cap CashAccount # {}

Allocations(t, linked, card) ==
  LET whole(a) == <<[account |-> a, amountCents |-> Magnitude(txns[t].amountCents)]>>
  IN  IF CardPayment(t, card) THEN whole(linked)
      ELSE IF txns[t].allocations # <<>> THEN txns[t].allocations
      ELSE whole(txns[t].confirmedAccountId)

Side(a, d, n, isDebit) ==
  [account |-> a, date |-> d, debit |-> IF isDebit THEN n ELSE 0,
   credit |-> IF isDebit THEN 0 ELSE n]

\* Fault variant of IsDeposit: the sign is read the other way round.
IsWithdrawal(t) == txns[t].amountCents < 0

IsDeposit(t) == txns[t].amountCents > 0

\* The statement's account against the allocations, on the day of the transaction.
PostingLines(t, linked, card) ==
  LET others == Allocations(t, linked, card)
  IN  <<Side(linked, txns[t].date, Magnitude(txns[t].amountCents), IsDeposit(t))>>
      \o [i \in DOMAIN others |->
            Side(others[i].account, txns[t].date, others[i].amountCents, ~IsDeposit(t))]

\* The transactions come from the table in no particular order.
PostingContent(T, linked, card) ==
  [memo  |-> ImportMemo,
   lines |-> FlattenSeq([i \in 1 .. Cardinality(T) |->
                           PostingLines(SetToSeq(T)[i], linked, card)])]

Marked(T, b) ==
  [t \in DOMAIN txns |-> IF t \in T THEN [txns[t] EXCEPT !.journalBatchId = b] ELSE txns[t]]

\* Everything categorized becomes one posted batch; when nothing active is left,
\* all files of the import batch are done, whatever state they were in.
PostStatement(g) ==
  LET files  == FilesOf(g)
      toPost == Postable(TxnsOf(files))
      rest   == ActiveUnposted(TxnsOf(files)) \ toPost
  IN  \E primary \in files :
        LET linked == imports[primary].linkedAccountId
            card   == primary \in CardStatement /\ linked \in Liability
        IN  /\ linked # NoAccount
            /\ \A s \in files : imports[s].linkedAccountId = linked
            /\ \/ /\ toPost # {}
                  /\ \A t \in toPost :
                       AmountOf(Allocations(t, linked, card)) = Magnitude(txns[t].amountCents)
                  /\ CreateBatch(PostingContent(toPost, linked, card), "posted", toPost, FALSE)
                  /\ txns' = Marked(toPost, Len(rows) + 1)
               \/ /\ toPost = {} /\ rest = {}
                  /\ UNCHANGED <<rows, answers, txns>>
            /\ IF rest = {} THEN SetStatus(files, "imported") ELSE UNCHANGED imports

\* Fault variant of Lifecycles: only the batches that were posted from the import.
NamedOnly(B) == B

\* What unposting the batches in B takes off the books.
Lifecycles(B) ==
  UNION {LifecycleOf(r) : r \in {x \in DOMAIN rows : \E b \in B : IsRootOf(x, b)}}

\* The lifecycles are voided without audit entries of their own; each named batch
\* gets one for the unposting.
Unposted(B) ==
  LET voided == Voided(Lifecycles(B))
  IN  [x \in DOMAIN rows |->
         [voided[x] EXCEPT !.audit = rows[x].audit \cup IF x \in B THEN {"unpost"} ELSE {}]]

UnpostStatement(g) ==
  LET posted == {t \in TxnsOf(FilesOf(g)) : txns[t].journalBatchId # None}
      B      == {txns[t].journalBatchId : t \in posted}
  IN  /\ posted # {}
      /\ \A b \in B : rows[b].status # "draft"
      /\ rows' = Unposted(B)
      /\ txns' = Marked(posted, None)
      /\ SetStatus({s \in FilesOf(g) : imports[s].status = "imported"}, "extracted")
      /\ UNCHANGED answers
-----------------------------------------------------------------------------
(* The specification *)

PostingInit ==
  /\ Init
  /\ imports = [s \in Statement |-> [status |-> "absent", linkedAccountId |-> NoAccount]]
  /\ txns = <<>>

\* What the journal page may do to a statement's posting.
JournalPage ==
  /\ \E b \in UserFacing : VoidLifecycle(b) \/ \E c \in Content : AdjustBatch(b, c)
  /\ UNCHANGED <<imports, txns>>

Review(t) ==
  \/ \E a \in Category \cup {NoAccount} : Categorize(t, a)
  \/ \E split \in Split : Allocate(t, split)
  \/ ToggleExcluded(t)
  \/ Describe(t)

PostingNext ==
  \/ \E s \in Statement : Upload(s) \/ \E r \in Run : Extract(s, r)
  \/ \E s \in Present : SetLinkedAccount(s) \/ DeleteImport(s)
  \/ \E t \in DOMAIN txns : Review(t)
  \/ \E excluded \in BOOLEAN, g \in ImportBatch :
       BulkSetExcluded(TxnsOf(FilesOf(g)), excluded)
  \/ \E g \in ImportBatch : PostStatement(g) \/ UnpostStatement(g)
  \/ JournalPage

PostingSpec == PostingInit /\ [][PostingNext]_postingVars
-----------------------------------------------------------------------------
(* Properties *)

\* The batch, a revision of it or a reversal is on the books.
OnBooks(b) == \E x \in LifecycleOf(b) : rows[x].status = "posted"

PostingsOf(t) == {b \in DOMAIN rows : rows[b].sourceType = "import" /\ t \in rows[b].source}

\* A transaction is on the books only through the batch it is marked with, however
\* often its import is posted and unposted and whatever the journal page has made
\* of the postings; and the batch it is marked with was posted from it.
OnBooksOnce ==
  \A t \in DOMAIN txns :
    /\ \A b \in PostingsOf(t) : OnBooks(b) => b = txns[t].journalBatchId
    /\ txns[t].journalBatchId # None => txns[t].journalBatchId \in PostingsOf(t)

\* Whatever was posted before and taken back, the source key of the next posting
\* is free: the unique index never refuses it.
RepostNeverBlocked ==
  \A g \in ImportBatch :
    LET toPost == Postable(TxnsOf(FilesOf(g))) IN toPost # {} => SourceFree(toPost)

\* The batches of statements that are on the books.
PostedImports == {b \in DOMAIN rows : rows[b].sourceType = "import" /\ rows[b].status = "posted"}

Book == INSTANCE StatementBook WITH
  Line     <- TxnId,
  Import   <- ImportBatch,
  ImportOf <- [t \in TxnId |-> BatchOf[t[1]]],
  lines    <- DOMAIN txns,
  postings <- {rows[b].source : b \in PostedImports}

\* Whatever is uploaded, read, deleted, posted, unposted, and corrected or voided on
\* the journal page: each step brings lines that were never on the books, discards
\* lines, posts lines of one import that are not on the books, takes back one posting,
\* or takes back exactly the postings of one import.
ImplementsStatementBook == Book!Spec

\* Batch b is being posted from the import batch g.
Posting(b, g) ==
  /\ Len(rows') = b /\ Len(rows) < b
  /\ rows'[b].sourceType = "import" /\ \A t \in rows'[b].source : BatchOf[t[1]] = g

\* The page uploads one kind of statement at a time; only Kevin's page, which
\* classifies each file of an upload, can mix them, and then the first file decides.
OneKind(g) == \A s, u \in FilesOf(g) : s \in CardStatement <=> u \in CardStatement

PaymentReceived(t) == t[1] \in CardStatement /\ txns[t].amountCents > 0 /\ txns[t].payment

\* A posting moves the statement's account, day by day, by what the file says; only
\* transactions that the user gave to that account itself, and payments received on
\* a card from a cash account, which the bank's statement brings, are not in this sum.
PostingFollowsStatement ==
  [][\A b \in BatchId, s \in Statement, d \in Date :
       /\ Posting(b, BatchOf[s]) /\ OneKind(BatchOf[s])
       /\ imports[s].linkedAccountId # NoAccount
       =>
         LET own == imports[s].linkedAccountId
             T   == {t \in rows'[b].source : txns[t].date = d}
         IN  (\A t \in T : /\ own \notin GivenTo(t)
                           /\ PaymentReceived(t) => GivenTo(t) \cap CashAccount = {}) =>
               NetOf(rows'[b].content.lines, own, d)
                 = SumFunction([t \in T |-> txns[t].amountCents])]_postingVars

\* USER_GUIDE.md:69-71: cash is not counted twice.  A card statement posted to its
\* card moves no cash when all that was given to a cash account are payments
\* received: the bank's own statement brings those.
CashCountedOnce ==
  [][\A b \in BatchId, s \in CardStatement :
       /\ Posting(b, BatchOf[s]) /\ OneKind(BatchOf[s])
       /\ imports[s].linkedAccountId \in Liability
       /\ \A t \in rows'[b].source :
            GivenTo(t) \cap CashAccount # {} => PaymentReceived(t)
       => \A a \in CashAccount, d \in Date : NetOf(rows'[b].content.lines, a, d) = 0]_postingVars

\* docs/STATEMENT_PARSERS.md:7-16: a file is extracted and reviewed before it is posted.
\* When transactions of an import are on the books, each of its files that counts as
\* imported has been read: it has transactions too.
ReadBeforeImported ==
  \A s \in Present, t \in DOMAIN txns :
    /\ BatchOf[t[1]] = BatchOf[s] /\ txns[t].journalBatchId # None
    /\ imports[s].status = "imported"
    => TxnsOf({s}) # {}
=============================================================================
