------------------------------- MODULE Journal -------------------------------
(***************************************************************************)
(* The journal lifecycle of one organization: lib/accounting/journal-      *)
(* service together with the journal page's operations that call it.       *)
(*                                                                         *)
(* Every operation is one PGlite transaction, and the process has one      *)
(* connection, so every operation is one action.  A rejected request       *)
(* changes nothing and is an action that is not enabled.  The status that  *)
(* adjustJournalForCurrentTeam reads before its transaction only picks     *)
(* which transaction runs; both re-read it, so UpdateDraft and AdjustBatch *)
(* cover every outcome of a stale read.                                    *)
(***************************************************************************)
EXTENDS JournalLines

CONSTANTS
  MaxBatches,   \* bound: how many batch rows are ever inserted
  MaxEntries,   \* bound: how many of them are journals entered, not adjustments
  AccountId,    \* account ids a request may name
  OrgAccount,   \* the accounts of this organization
  Date,         \* GL days
  Memo,         \* stands for the description and header date of a batch
  SourceKey,    \* hashes of (sourceType, sourceRef) of imported journals
  NoSource,     \* a null source_ref_hash
  Content       \* the journal contents that callers submit, valid or not

None == 0

Line == [account : AccountId, date : Date, debit : Int, credit : Int]

\* The CHECK constraints of journal_lines.
StoredLine == {line \in Line : OneSided(line)}

ASSUME JournalAssumption ==
  /\ MaxBatches \in Nat /\ MaxEntries \in Nat
  /\ OrgAccount \subseteq AccountId
  /\ NoSource \notin SourceKey
  /\ Content \subseteq [memo : Memo, lines : Seq(Line)]

VARIABLES
  rows,      \* journal_batches with their lines, in insertion order: the id is the index
  answers    \* what adjustJournalBatch has returned to its callers

vars == <<rows, answers>>

BatchId == 1 .. MaxBatches

\* "deleted" is a row that was there and has been removed; ids are never reused.
Status == {"draft", "posted", "voided", "deleted"}

AuditAction == {"create", "post", "update", "void", "unpost"}

\* hashJsonValue of the superseded id and the normalized revised content.
AdjustmentKey(b, c) == <<b, c.memo, NormalizedLines(c.lines)>>

Keys == {AdjustmentKey(b, c) : b \in BatchId, c \in Content}

NoKey == <<>>

\* audit holds the actions logged for the batch: an entry is written only when
\* the caller names a user.
PlainRow(c, st, k, byUser) ==
  [status          |-> st,
   content         |-> c,
   sourceType      |-> IF k = NoSource THEN "none" ELSE "import",
   source          |-> k,
   released        |-> FALSE,
   supersedes      |-> None,
   originalBatchId |-> None,
   reversalBatchId |-> None,
   adjustmentKey   |-> NoKey,
   createdBy       |-> byUser,
   audit           |-> IF ~byUser THEN {} ELSE IF st = "posted" THEN {"post"} ELSE {"create"}]

ReversalRow(b, key) ==
  [PlainRow([memo |-> rows[b].content.memo,
             lines |-> BuildReversalLines(rows[b].content.lines)],
            "posted", NoSource, TRUE)
     EXCEPT !.sourceType = "adjustment_reversal", !.originalBatchId = b,
            !.adjustmentKey = key]

RevisedRow(b, c, key, reversal) ==
  [PlainRow(c, "posted", NoSource, TRUE)
     EXCEPT !.sourceType = "adjustment", !.supersedes = b, !.originalBatchId = b,
            !.reversalBatchId = reversal, !.adjustmentKey = key]
-----------------------------------------------------------------------------
(* Validation *)

\* ensureLinesArePostable and ensureAccountsBelongToOrgTx.
LinesAccepted(ls) ==
  /\ CanPostJournal(ls)
  /\ \A i \in DOMAIN ls : ls[i].account \in OrgAccount

\* The journal form refuses what getBalanceMessage complains about; the other
\* callers build their lines so that each GL date balances.
Submittable(c) == BalancedOnEveryDate(c.lines) /\ LinesAccepted(c.lines)

\* Fault variant of SourceFree: without the index, only the reads before it count.
Unindexed(k) == TRUE

\* journal_batches_source_dedupe_idx: a hash is on one row only.
SourceFree(k) ==
  k # NoSource =>
    \A b \in DOMAIN rows :
      rows[b].source = k => rows[b].status = "deleted" \/ rows[b].released
-----------------------------------------------------------------------------
(* The revision tree *)

PostedChildren(b) ==
  {x \in DOMAIN rows : rows[x].supersedes = b /\ rows[x].status = "posted"}

ChildrenOf(S) == {x \in DOMAIN rows : rows[x].supersedes \in S}

\* The breadth-first walk from r: the least set with r that is closed under
\* taking children.
Descendants(r) ==
  {d \in DOMAIN rows :
     \A S \in SUBSET DOMAIN rows : (r \in S /\ ChildrenOf(S) \subseteq S) => d \in S}

ReversalsOf(S) ==
  {x \in DOMAIN rows :
     rows[x].sourceType = "adjustment_reversal" /\ rows[x].originalBatchId \in S}

\* The walk up from b ends in the ancestor without a parent.
IsRootOf(r, b) == rows[r].supersedes = None /\ b \in Descendants(r)

\* Fault variant of LifecycleOf: the reversals are forgotten.
LifecycleNoReversals(r) == Descendants(r)

\* Fault variant of LifecycleOf: one level of children instead of the walk.
LifecycleOneLevel(r) ==
  LET members == {r} \cup ChildrenOf({r}) IN members \cup ReversalsOf(members)

LifecycleOf(r) == Descendants(r) \cup ReversalsOf(Descendants(r))
-----------------------------------------------------------------------------
(* Operations *)

Init == rows = <<>> /\ answers = {}

\* A journal is entered on the form or by another service.  Posting from a bank
\* statement is the one caller that names no user.
CreateBatch(c, st, k, byUser) ==
  /\ Len(rows) < MaxBatches
  /\ Cardinality({b \in DOMAIN rows : rows[b].originalBatchId = None}) < MaxEntries
  /\ Submittable(c)
  /\ SourceFree(k)
  /\ byUser \/ st = "posted"
  /\ rows' = Append(rows, PlainRow(c, st, k, byUser))
  /\ UNCHANGED answers

PostBatch(b) ==
  /\ rows[b].status = "draft"
  /\ CanPostJournal(rows[b].content.lines)
  /\ rows' = [rows EXCEPT ![b].status = "posted", ![b].audit = @ \cup {"post"}]
  /\ UNCHANGED answers

\* Fault variant of UpdateDraft: the status is trusted from the earlier read.
UpdateWithoutStatusCheck(b, c) ==
  /\ rows[b].status # "deleted"
  /\ Submittable(c)
  /\ rows' = [rows EXCEPT ![b].content = c, ![b].audit = @ \cup {"update"}]
  /\ UNCHANGED answers

UpdateDraft(b, c) ==
  /\ rows[b].status = "draft"
  /\ Submittable(c)
  /\ rows' = [rows EXCEPT ![b].content = c, ![b].audit = @ \cup {"update"}]
  /\ UNCHANGED answers

DeleteDraft(b) ==
  /\ rows[b].status = "draft"
  /\ rows' = [rows EXCEPT ![b].status = "deleted"]
  /\ UNCHANGED answers

\* The pages and actions reach a batch that exists and is not an internal reversal.
UserFacing == {b \in DOMAIN rows : /\ rows[b].status # "deleted"
                                   /\ rows[b].sourceType # "adjustment_reversal"}

Answer(b, key, reversal, revised) ==
  [batchId |-> b, key |-> key, reversalBatchId |-> reversal, revisedBatchId |-> revised]

\* Fault variant of Adjustable: a batch that was revised before is revised again.
AdjustableAgain(b) == rows[b].status = "posted"

Adjustable(b) == rows[b].status = "posted" /\ PostedChildren(b) = {}

\* The first adjustment: reversal, revision and audit entry in one transaction.
AdjustBatch(b, c) ==
  LET key      == AdjustmentKey(b, c)
      reversal == Len(rows) + 1
      revised  == Len(rows) + 2
  IN  /\ Adjustable(b)
      /\ Len(rows) + 2 <= MaxBatches
      /\ Submittable(c)
      /\ rows' = Append(Append([rows EXCEPT ![b].audit = @ \cup {"update"}],
                               ReversalRow(b, key)),
                        RevisedRow(b, c, key, reversal))
      /\ answers' = answers \cup {Answer(b, key, reversal, revised)}

\* Fault variant of SameEdit: whatever was saved before counts as this edit.
AnyEdit(x, b, c) == TRUE

SameEdit(x, b, c) == rows[x].adjustmentKey = AdjustmentKey(b, c)

\* A retry, or a second tab: the revision exists.  It is returned when the key
\* matches; any other content is refused as "edited elsewhere".
RepeatAdjust(b, c) ==
  /\ rows[b].status = "posted"
  /\ BalancedOnEveryDate(c.lines)
  /\ \E x \in PostedChildren(b) :
       /\ PostedChildren(b) = {x}
       /\ SameEdit(x, b, c)
       /\ answers' = answers \cup
            {Answer(b, AdjustmentKey(b, c), rows[x].reversalBatchId, x)}
  /\ UNCHANGED rows

\* Fault variant of VoidRow: the audit entry is not written.
VoidRowUnlogged(row) == [row EXCEPT !.status = "voided"]

VoidRow(row) ==
  [row EXCEPT !.status = "voided", !.released = (row.source # NoSource),
              !.audit = @ \cup {"void"}]

\* The posted batches of S are voided and give up their source hash.
Voided(S) ==
  [x \in DOMAIN rows |-> IF x \in S /\ rows[x].status = "posted"
                          THEN VoidRow(rows[x]) ELSE rows[x]]

\* Void the whole lifecycle of b, whichever version of it was named.
VoidLifecycle(b) ==
  /\ rows[b].status # "draft"
  /\ \E r \in DOMAIN rows : IsRootOf(r, b) /\ rows' = Voided(LifecycleOf(r))
  /\ UNCHANGED answers

Next ==
  \/ \E c \in Content, st \in {"draft", "posted"}, k \in SourceKey \cup {NoSource},
        byUser \in BOOLEAN :
       CreateBatch(c, st, k, byUser)
  \/ \E b \in UserFacing :
       \/ PostBatch(b)
       \/ \E c \in Content : UpdateDraft(b, c) \/ AdjustBatch(b, c) \/ RepeatAdjust(b, c)
       \/ DeleteDraft(b)
       \/ VoidLifecycle(b)

Spec == Init /\ [][Next]_vars
-----------------------------------------------------------------------------
(* Properties *)

Row ==
  [status : Status, content : [memo : Memo, lines : Seq(StoredLine)],
   sourceType : {"none", "import", "adjustment", "adjustment_reversal"},
   source : SourceKey \cup {NoSource}, released : BOOLEAN,
   supersedes : BatchId \cup {None}, originalBatchId : BatchId \cup {None},
   reversalBatchId : BatchId \cup {None},
   adjustmentKey : {NoKey} \cup Keys,
   createdBy : BOOLEAN, audit : SUBSET AuditAction]

\* The stored rows are what the schema allows: column types, the CHECK
\* constraints of journal_lines, and at most MaxBatches rows.
TypeOK ==
  /\ rows \in Seq(Row) /\ Len(rows) <= MaxBatches
  /\ answers \subseteq [batchId : BatchId, reversalBatchId : BatchId,
                        revisedBatchId : BatchId,
                        key : Keys]

Live(b) == rows[b].status \in {"draft", "posted"}

\* Every draft or posted batch has lines that could be posted, on accounts of
\* the organization, also after edits and for the generated reversals.
EveryBatchPostable ==
  \A b \in DOMAIN rows : Live(b) => LinesAccepted(rows[b].content.lines)

\* A revision and a reversal share the fate of the batch they were made from:
\* both posted, or all voided.  A lifecycle is never voided in part.
LifecycleAllOrNothing ==
  \A b \in DOMAIN rows :
    rows[b].originalBatchId # None =>
      rows[b].status = rows[rows[b].originalBatchId].status

PostedReversals(b) == {x \in ReversalsOf({b}) : rows[x].status = "posted"}

\* A posted batch has been replaced exactly when it has been reversed: no batch
\* has two revisions or two reversals, and the one reversal, which the revision
\* names, takes back exactly the lines of the batch.
SupersededExactlyReversed ==
  \A b \in DOMAIN rows : rows[b].status = "posted" =>
    \/ PostedChildren(b) = {} /\ PostedReversals(b) = {}
    \/ \E x, y \in DOMAIN rows :
         /\ PostedChildren(b) = {x} /\ PostedReversals(b) = {y}
         /\ rows[x].reversalBatchId = y
         /\ rows[y].content.lines = BuildReversalLines(rows[b].content.lines)

\* However often an adjustment is submitted, and from however many tabs, the
\* callers that are not refused were all saving the same edit, and all get the
\* ids of the one reversal and the one revision that hold it.
ConsistentAnswers ==
  \A p, q \in answers : p.batchId = q.batchId => p = q

\* The audit log accounts for what users did to the ledger: postings, voidings,
\* and the replacement of a batch by its revision.
AuditTrail ==
  \A b \in DOMAIN rows :
    /\ rows[b].createdBy /\ rows[b].status \in {"posted", "voided"} => "post" \in rows[b].audit
    /\ rows[b].status = "voided" => "void" \in rows[b].audit
    /\ rows[b].supersedes # None => "update" \in rows[rows[b].supersedes].audit

\* A posted batch is never edited in place: it keeps its content and its links,
\* it can only be voided, and a voided or removed batch never comes back.
PostedPreserved ==
  [][\A b \in DOMAIN rows :
       rows[b].status # "draft" =>
         /\ rows'[b].content = rows[b].content
         /\ rows'[b].supersedes = rows[b].supersedes
         /\ rows'[b].originalBatchId = rows[b].originalBatchId
         /\ rows'[b].status \in {rows[b].status} \cup
              IF rows[b].status = "posted" THEN {"voided"} ELSE {}]_vars
=============================================================================
