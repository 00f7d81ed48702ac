-------------------------- MODULE JournalInvariant --------------------------
(***************************************************************************)
(* The inductive invariant behind the theorems of JournalProofs.           *)
(***************************************************************************)
EXTENDS Journal

IsReversal(x) == rows[x].sourceType = "adjustment_reversal"
IsRevision(x) == rows[x].supersedes # None

\* A revision or reversal points back at a batch that was posted and that is
\* not a reversal; nothing else points back.
Links ==
  \A x \in DOMAIN rows :
    /\ IsRevision(x) => rows[x].originalBatchId = rows[x].supersedes
    /\ IsReversal(x) => ~IsRevision(x) /\ rows[x].originalBatchId # None
    /\ rows[x].originalBatchId # None =>
         /\ IsRevision(x) \/ IsReversal(x)
         /\ rows[x].originalBatchId \in DOMAIN rows
         /\ ~IsReversal(rows[x].originalBatchId)
         /\ rows[x].status \in {"posted", "voided"}

\* Revisions and reversals come in pairs, one pair for each adjusted batch.
Pairs ==
  /\ \A x, y \in DOMAIN rows :
       IsRevision(x) /\ rows[x].supersedes = rows[y].supersedes => x = y
  /\ \A x, y \in DOMAIN rows :
       IsReversal(x) /\ IsReversal(y)
         /\ rows[x].originalBatchId = rows[y].originalBatchId => x = y
  /\ \A x \in DOMAIN rows : IsRevision(x) =>
       /\ rows[x].reversalBatchId \in DOMAIN rows
       /\ IsReversal(rows[x].reversalBatchId)
       /\ rows[rows[x].reversalBatchId].originalBatchId = rows[x].supersedes
  /\ \A y \in DOMAIN rows : IsReversal(y) =>
       \E x \in DOMAIN rows : rows[x].supersedes = rows[y].originalBatchId

\* A reversal takes back the lines that its original still has.
ExactReversals ==
  \A y \in DOMAIN rows : IsReversal(y) =>
    rows[y].content.lines = BuildReversalLines(rows[rows[y].originalBatchId].content.lines)

\* What a caller was told is what the revision's row records.
AnswersRecorded ==
  \A p \in answers :
    /\ p.revisedBatchId \in DOMAIN rows
    /\ rows[p.revisedBatchId].supersedes = p.batchId
    /\ rows[p.revisedBatchId].adjustmentKey = p.key
    /\ rows[p.revisedBatchId].reversalBatchId = p.reversalBatchId

IndInv ==
  /\ TypeOK
  /\ Links
  /\ Pairs
  /\ LifecycleAllOrNothing
  /\ ExactReversals
  /\ AnswersRecorded
=============================================================================
