----------------------------- MODULE JournalBook -----------------------------
(***************************************************************************)
(* The two readings of the journal tables that must agree: the list of     *)
(* journals the user sees (journal-list-state.ts) and the sums that every  *)
(* report takes over posted lines (lib/accounting/reports).  Journal is    *)
(* shown to implement EntryBook under this reading.                        *)
(***************************************************************************)
EXTENDS Journal

\* The accounts are rows of a table.
ASSUME BookAssumption == IsFiniteSet(OrgAccount)

NonInternal == {b \in DOMAIN rows : /\ rows[b].status # "deleted"
                                    /\ rows[b].sourceType # "adjustment_reversal"}

RootBatches == {b \in NonInternal : rows[b].supersedes = None}

LatestCandidates(b) ==
  {x \in NonInternal : rows[x].supersedes = b /\ rows[x].status # "voided"}

\* findLatestBatchForRoot: follow the most recent candidate until there is none.
LatestBatch ==
  LET latest[b \in DOMAIN rows] ==
        IF LatestCandidates(b) = {} THEN b
        ELSE latest[CHOOSE x \in LatestCandidates(b) :
                      \A y \in LatestCandidates(b) : y <= x]
  IN  latest

\* getVisibleJournalBatches: the latest batch of each root unless it is voided.
VisibleBatches ==
  {b \in {LatestBatch[r] : r \in RootBatches} : rows[b].status # "voided"}

\* Fault variant of ReportedBatches: a report that forgets the status filter.
AllBatches == {b \in DOMAIN rows : rows[b].status # "deleted"}

\* Every report joins journal_lines with posted batches.
ReportedBatches == {b \in DOMAIN rows : rows[b].status = "posted"}

NetOver(batches, a, d) ==
  SumFunction([b \in batches |-> NetOf(rows[b].content.lines, a, d)])

\* debitSum - creditSum of one account on one GL day.
ReportedNet(a, d) == NetOver(ReportedBatches, a, d)
-----------------------------------------------------------------------------
(* Properties *)

\* What the reports add up over all posted lines, reversals and superseded
\* batches included, is what the posted journals in the user's list say, for
\* every account and every day: a correction moves no other day's balance.
ReportsMatchList ==
  LET shown == {b \in VisibleBatches : rows[b].status = "posted"}
  IN  \A a \in OrgAccount, d \in Date : ReportedNet(a, d) = NetOver(shown, a, d)

\* On every day the posted lines balance, so every report balances whatever
\* its date range.
EveryDayBalances ==
  \A d \in Date : SumFunction([a \in OrgAccount |-> ReportedNet(a, d)]) = 0

\* The row of EntryBook that the batch with id e stands for.
EntryOf(e) ==
  IF e \in DOMAIN rows /\ rows[e].originalBatchId = None
    THEN LET b == LatestBatch[e]
         IN  IF e \in RootBatches /\ b \in VisibleBatches
               THEN [state |-> rows[b].status, content |-> rows[b].content]
               ELSE [state |-> "removed"]
    ELSE [state |-> "none"]

Book == INSTANCE EntryBook WITH
  Entry   <- BatchId,
  Account <- OrgAccount,
  Day     <- Date,
  entry   <- [e \in BatchId |-> EntryOf(e)],
  balance <- [p \in OrgAccount \X Date |-> ReportedNet(p[1], p[2])]

\* Seen through the list and the reports, the journal is a book of entries:
\* each step enters, posts, edits or removes one entry, or changes nothing,
\* and the balances move with it.
ImplementsEntryBook == Book!Spec
=============================================================================
