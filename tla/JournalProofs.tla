--------------------------- MODULE JournalProofs ---------------------------
(***************************************************************************)
(* Machine-checked proofs about Journal, for every value of its constants. *)
(***************************************************************************)
EXTENDS JournalInvariant, SequenceTheorems, TLAPS

(* Lines *)

\* A line list that ensureLinesArePostable accepts meets the CHECK constraints
\* of journal_lines.
LEMMA AcceptedLinesStorable ==
  ASSUME NEW ls \in Seq(Line), CanPostJournal(ls)
  PROVE  ls \in Seq(StoredLine)
<1>1. ls \in [1..Len(ls) -> Line] /\ Len(ls) \in Nat
  BY LenProperties
<1>2. \A i \in 1..Len(ls) : ls[i] \in StoredLine
  BY <1>1 DEF CanPostJournal, StoredLine
<1>3. ls \in [1..Len(ls) -> StoredLine]
  BY <1>1, <1>2
<1> QED  BY <1>1, <1>3, SeqDef

\* buildReversalLines swaps the sides: the list keeps its length and accounts,
\* and its debits and credits change places.
LEMMA ReversalLines ==
  ASSUME NEW ls \in Seq(StoredLine)
  PROVE  /\ BuildReversalLines(ls) \in Seq(StoredLine)
         /\ Debits(BuildReversalLines(ls)) = Credits(ls)
         /\ Credits(BuildReversalLines(ls)) = Debits(ls)
<1>1. ls \in [1..Len(ls) -> StoredLine] /\ Len(ls) \in Nat
  BY LenProperties
<1>2. \A i \in 1..Len(ls) : BuildReversalLines(ls)[i] \in StoredLine
  BY <1>1 DEF BuildReversalLines, StoredLine, Line, OneSided
<1>3. BuildReversalLines(ls) \in [1..Len(ls) -> StoredLine]
  BY <1>1, <1>2 DEF BuildReversalLines
<1>4. BuildReversalLines(ls) \in Seq(StoredLine)
  BY <1>1, <1>3, SeqDef
<1>5. /\ Debits(BuildReversalLines(ls)) = Credits(ls)
      /\ Credits(BuildReversalLines(ls)) = Debits(ls)
  BY <1>1 DEF BuildReversalLines, Debits, Credits
<1> QED  BY <1>4, <1>5

\* The reversal of an acceptable journal is acceptable: createJournalBatch-
\* WithStatusTx never refuses the reversal of a batch it once accepted.
LEMMA ReversalAccepted ==
  ASSUME NEW ls \in Seq(StoredLine), LinesAccepted(ls)
  PROVE  LinesAccepted(BuildReversalLines(ls))
<1> DEFINE rev == BuildReversalLines(ls)
<1>1. ls \in [1..Len(ls) -> StoredLine] /\ Len(ls) \in Nat
  BY LenProperties
<1>2. DOMAIN rev = DOMAIN ls /\ Len(ls) # 0
  <2>1. ls # <<>>  BY DEF LinesAccepted, CanPostJournal
  <2> QED  BY <2>1, EmptySeq DEF BuildReversalLines
<1>3. rev # <<>>
  BY <1>1, <1>2, DOMAIN <<>> = {}, DOMAIN ls = 1..Len(ls), 1 \in 1..Len(ls)
<1>4. \A i \in DOMAIN rev : OneSided(rev[i]) /\ rev[i].account \in OrgAccount
  <2> SUFFICES ASSUME NEW i \in DOMAIN ls
               PROVE  OneSided(rev[i]) /\ rev[i].account \in OrgAccount
    BY <1>2
  <2>1. ls[i] \in StoredLine /\ ls[i].account \in OrgAccount
    BY <1>1 DEF LinesAccepted
  <2> QED  BY <2>1 DEF BuildReversalLines, StoredLine, Line, OneSided
<1>5. Balances(CalculateJournalTotals(rev))
  BY ReversalLines DEF LinesAccepted, CanPostJournal, CalculateJournalTotals, Balances
<1> QED  BY <1>3, <1>4, <1>5 DEF LinesAccepted, CanPostJournal
-----------------------------------------------------------------------------
(* Rows *)

LEMMA Table ==
  ASSUME TypeOK
  PROVE  /\ Len(rows) \in 0..MaxBatches
         /\ DOMAIN rows = 1..Len(rows)
         /\ DOMAIN rows \subseteq BatchId
         /\ \A x \in DOMAIN rows : rows[x] \in Row
<1>1. rows \in [1..Len(rows) -> Row] /\ Len(rows) \in Nat /\ DOMAIN rows = 1..Len(rows)
  BY LenProperties DEF TypeOK
<1> QED  BY <1>1, JournalAssumption DEF TypeOK, BatchId

\* What a caller of the journal service hands over, checked or not: Content on the
\* journal page, lines made by the program when another service calls.
Submitted == [memo : Memo, lines : Seq(Line)]

LEMMA SubmittedRowType ==
  ASSUME NEW c \in Submitted, Submittable(c), NEW st \in {"draft", "posted"},
         NEW k \in SourceKey \cup {NoSource}, NEW u \in BOOLEAN
  PROVE  PlainRow(c, st, k, u) \in Row
<1>1. c.lines \in Seq(StoredLine)
  BY AcceptedLinesStorable DEF Submitted, Submittable, LinesAccepted
<1>2. c \in [memo : Memo, lines : Seq(StoredLine)]
  BY <1>1 DEF Submitted
<1> QED  BY <1>2 DEF PlainRow, Row, Status, AuditAction

LEMMA PlainRowType ==
  ASSUME NEW c \in Content, Submittable(c), NEW st \in {"draft", "posted"},
         NEW k \in SourceKey \cup {NoSource}, NEW u \in BOOLEAN
  PROVE  PlainRow(c, st, k, u) \in Row
<1>1. c \in Submitted
  BY JournalAssumption DEF Submitted
<1> QED  BY <1>1, SubmittedRowType

LEMMA RevisedRowType ==
  ASSUME NEW c \in Content, Submittable(c), NEW b \in BatchId, NEW reversal \in BatchId
  PROVE  RevisedRow(b, c, AdjustmentKey(b, c), reversal) \in Row
<1>1. PlainRow(c, "posted", NoSource, TRUE) \in Row
  BY PlainRowType
<1>2. AdjustmentKey(b, c) \in Keys
  BY DEF Keys
<1> QED  BY <1>1, <1>2 DEF RevisedRow, Row

LEMMA ReversalRowType ==
  ASSUME TypeOK, NEW b \in DOMAIN rows, NEW key \in Keys
  PROVE  ReversalRow(b, key) \in Row
<1> DEFINE content == [memo |-> rows[b].content.memo,
                       lines |-> BuildReversalLines(rows[b].content.lines)]
<1>1. rows[b] \in Row /\ b \in BatchId
  BY Table
<1>2. rows[b].content.lines \in Seq(StoredLine) /\ rows[b].content.memo \in Memo
  BY <1>1 DEF Row
<1>3. content \in [memo : Memo, lines : Seq(StoredLine)]
  BY <1>2, ReversalLines
<1> HIDE DEF content
<1>4. PlainRow(content, "posted", NoSource, TRUE) \in Row
  BY <1>3 DEF PlainRow, Row, Status, AuditAction
<1>5. ReversalRow(b, key) =
        [PlainRow(content, "posted", NoSource, TRUE)
           EXCEPT !.sourceType = "adjustment_reversal", !.originalBatchId = b,
                  !.adjustmentKey = key]
  BY DEF ReversalRow, content
<1> QED  BY <1>1, <1>4, <1>5 DEF Row
-----------------------------------------------------------------------------
(* What each operation does to the table *)

LEMMA SubmittedEffect ==
  ASSUME TypeOK, NEW c \in Submitted, NEW st \in {"draft", "posted"},
         NEW k \in SourceKey \cup {NoSource}, NEW u \in BOOLEAN, CreateBatch(c, st, k, u)
  PROVE  /\ rows' \in Seq(Row) /\ Len(rows') = Len(rows) + 1 /\ Len(rows') <= MaxBatches
         /\ DOMAIN rows' = DOMAIN rows \cup {Len(rows) + 1}
         /\ \A x \in DOMAIN rows : rows'[x] = rows[x]
         /\ rows'[Len(rows) + 1] = PlainRow(c, st, k, u)
<1>1. PlainRow(c, st, k, u) \in Row
  BY SubmittedRowType DEF CreateBatch
<1>2. rows \in Seq(Row) /\ Len(rows) \in Nat /\ DOMAIN rows = 1..Len(rows)
  BY Table DEF TypeOK
<1>3. rows' = Append(rows, PlainRow(c, st, k, u)) /\ Len(rows) < MaxBatches
  BY DEF CreateBatch
<1>4. /\ rows' \in Seq(Row) /\ Len(rows') = Len(rows) + 1
      /\ \A x \in 1..Len(rows) : rows'[x] = rows[x]
      /\ rows'[Len(rows) + 1] = PlainRow(c, st, k, u)
  BY <1>1, <1>2, <1>3, AppendProperties
<1>5. DOMAIN rows' = 1..Len(rows')
  BY <1>4, LenProperties
<1> QED  BY <1>2, <1>3, <1>4, <1>5, JournalAssumption

LEMMA CreateEffect ==
  ASSUME TypeOK, NEW c \in Content, NEW st \in {"draft", "posted"},
         NEW k \in SourceKey \cup {NoSource}, NEW u \in BOOLEAN, CreateBatch(c, st, k, u)
  PROVE  /\ rows' \in Seq(Row) /\ Len(rows') = Len(rows) + 1 /\ Len(rows') <= MaxBatches
         /\ DOMAIN rows' = DOMAIN rows \cup {Len(rows) + 1}
         /\ \A x \in DOMAIN rows : rows'[x] = rows[x]
         /\ rows'[Len(rows) + 1] = PlainRow(c, st, k, u)
<1>1. c \in Submitted
  BY JournalAssumption DEF Submitted
<1> QED  BY <1>1, SubmittedEffect

LEMMA AdjustEffect ==
  ASSUME TypeOK, NEW b \in DOMAIN rows, NEW c \in Content, AdjustBatch(b, c)
  PROVE  /\ rows' \in Seq(Row) /\ Len(rows') = Len(rows) + 2 /\ Len(rows') <= MaxBatches
         /\ DOMAIN rows' = DOMAIN rows \cup {Len(rows) + 1, Len(rows) + 2}
         /\ \A x \in DOMAIN rows \ {b} : rows'[x] = rows[x]
         /\ rows'[b] = [rows[b] EXCEPT !.audit = rows[b].audit \cup {"update"}]
         /\ rows'[Len(rows) + 1] = ReversalRow(b, AdjustmentKey(b, c))
         /\ rows'[Len(rows) + 2] = RevisedRow(b, c, AdjustmentKey(b, c), Len(rows) + 1)
<1> DEFINE key == AdjustmentKey(b, c)
           rev == ReversalRow(b, key)
           new == RevisedRow(b, c, key, Len(rows) + 1)
           t0  == [rows EXCEPT ![b].audit = @ \cup {"update"}]
           t1  == Append(t0, rev)
<1>1. /\ rows \in Seq(Row) /\ Len(rows) \in Nat /\ DOMAIN rows = 1..Len(rows)
      /\ b \in BatchId /\ rows[b] \in Row
  BY Table DEF TypeOK
<1>2. Len(rows) + 2 <= MaxBatches /\ Submittable(c) /\ rows' = Append(t1, new)
  BY DEF AdjustBatch
<1>3. Len(rows) + 1 \in BatchId
  BY <1>1, <1>2, JournalAssumption DEF BatchId
<1>4. rev \in Row
  <2>1. key \in Keys  BY <1>1 DEF Keys
  <2> QED  BY <2>1, ReversalRowType
<1>5. new \in Row
  BY <1>1, <1>2, <1>3, RevisedRowType
<1>6. [rows[b] EXCEPT !.audit = rows[b].audit \cup {"update"}] \in Row
  BY <1>1 DEF Row, AuditAction
<1>7. /\ t0 \in Seq(Row) /\ Len(t0) = Len(rows)
      /\ \A x \in DOMAIN rows \ {b} : t0[x] = rows[x]
      /\ t0[b] = [rows[b] EXCEPT !.audit = rows[b].audit \cup {"update"}]
  BY <1>1, <1>6, ExceptSeq
<1> HIDE DEF rev, new, t0
<1>8. /\ t1 \in Seq(Row) /\ Len(t1) = Len(rows) + 1
      /\ \A x \in 1..Len(rows) : t1[x] = t0[x]
      /\ t1[Len(rows) + 1] = rev
  BY <1>4, <1>7, AppendProperties
<1> HIDE DEF t1
<1>9. /\ rows' \in Seq(Row) /\ Len(rows') = Len(rows) + 2
      /\ \A x \in 1..(Len(rows) + 1) : rows'[x] = t1[x]
      /\ rows'[Len(rows) + 2] = new
  BY <1>1, <1>2, <1>5, <1>8, AppendProperties
<1>10. DOMAIN rows' = 1..Len(rows')
  BY <1>9, LenProperties
<1>11. DOMAIN rows' = DOMAIN rows \cup {Len(rows) + 1, Len(rows) + 2}
  BY <1>1, <1>9, <1>10
<1>12. \A x \in DOMAIN rows : rows'[x] = t0[x]
  BY <1>1, <1>8, <1>9
<1>13. rows'[Len(rows) + 1] = rev
  BY <1>1, <1>8, <1>9
<1> HIDE DEF key
<1> QED
  BY <1>1, <1>2, <1>7, <1>9, <1>11, <1>12, <1>13 DEF rev, new, key

LEMMA ReversalRowFields ==
  ASSUME NEW b, NEW key
  PROVE  LET r == ReversalRow(b, key)
         IN  /\ r.status = "posted" /\ r.sourceType = "adjustment_reversal"
             /\ r.supersedes = None /\ r.originalBatchId = b
             /\ r.content.lines = BuildReversalLines(rows[b].content.lines)
BY DEF ReversalRow, PlainRow

LEMMA RevisedRowFields ==
  ASSUME NEW b, NEW c, NEW key, NEW reversal
  PROVE  LET r == RevisedRow(b, c, key, reversal)
         IN  /\ r.status = "posted" /\ r.sourceType = "adjustment"
             /\ r.supersedes = b /\ r.originalBatchId = b
             /\ r.reversalBatchId = reversal /\ r.adjustmentKey = key
             /\ r.content = c
BY DEF RevisedRow, PlainRow

\* The columns that tie batches to each other are never rewritten.
Kept ==
  /\ DOMAIN rows' = DOMAIN rows
  /\ \A x \in DOMAIN rows :
       /\ rows'[x].sourceType = rows[x].sourceType
       /\ rows'[x].supersedes = rows[x].supersedes
       /\ rows'[x].originalBatchId = rows[x].originalBatchId
       /\ rows'[x].reversalBatchId = rows[x].reversalBatchId
       /\ rows'[x].adjustmentKey = rows[x].adjustmentKey
       /\ rows'[x].createdBy = rows[x].createdBy

\* An operation on a draft leaves every other row alone.
DraftStep(b) ==
  /\ rows' \in Seq(Row) /\ Len(rows') = Len(rows)
  /\ Kept
  /\ \A x \in DOMAIN rows \ {b} : rows'[x] = rows[x]

LEMMA OneRowChanged ==
  ASSUME TypeOK, NEW b \in DOMAIN rows, NEW r \in Row,
         rows' = [rows EXCEPT ![b] = r],
         r.sourceType = rows[b].sourceType, r.supersedes = rows[b].supersedes,
         r.originalBatchId = rows[b].originalBatchId,
         r.reversalBatchId = rows[b].reversalBatchId,
         r.adjustmentKey = rows[b].adjustmentKey, r.createdBy = rows[b].createdBy
  PROVE  DraftStep(b) /\ rows'[b] = r
<1>1. rows \in Seq(Row) /\ DOMAIN rows = 1..Len(rows)
  BY Table DEF TypeOK
<1>2. /\ rows' \in Seq(Row) /\ Len(rows') = Len(rows) /\ DOMAIN rows' = DOMAIN rows
      /\ \A x \in DOMAIN rows \ {b} : rows'[x] = rows[x]
      /\ rows'[b] = r
  BY <1>1, ExceptSeq, LenProperties
<1> QED  BY <1>2 DEF DraftStep, Kept

LEMMA PostEffect ==
  ASSUME TypeOK, NEW b \in DOMAIN rows, PostBatch(b)
  PROVE  /\ DraftStep(b)
         /\ rows'[b].status = "posted" /\ rows'[b].content = rows[b].content
         /\ rows'[b].audit = rows[b].audit \cup {"post"}
<1> DEFINE r == [rows[b] EXCEPT !.status = "posted", !.audit = rows[b].audit \cup {"post"}]
<1>1. rows[b] \in Row
  BY Table
<1>2. /\ r \in Row
      /\ r.sourceType = rows[b].sourceType /\ r.supersedes = rows[b].supersedes
      /\ r.originalBatchId = rows[b].originalBatchId
      /\ r.reversalBatchId = rows[b].reversalBatchId
      /\ r.adjustmentKey = rows[b].adjustmentKey /\ r.createdBy = rows[b].createdBy
      /\ r.status = "posted" /\ r.content = rows[b].content
      /\ r.audit = rows[b].audit \cup {"post"}
  BY <1>1 DEF Row, Status, AuditAction
<1>3. rows' = [rows EXCEPT ![b] = r]
  BY DEF PostBatch
<1> HIDE DEF r
<1> QED  BY <1>2, <1>3, OneRowChanged

LEMMA UpdateEffect ==
  ASSUME TypeOK, NEW b \in DOMAIN rows, NEW c \in Content, UpdateDraft(b, c)
  PROVE  /\ DraftStep(b)
         /\ rows'[b].status = rows[b].status /\ rows'[b].content = c
         /\ rows'[b].audit = rows[b].audit \cup {"update"}
<1> DEFINE r == [rows[b] EXCEPT !.content = c, !.audit = rows[b].audit \cup {"update"}]
<1>1. rows[b] \in Row
  BY Table
<1>2. c \in [memo : Memo, lines : Seq(StoredLine)]
  <2>1. c \in [memo : Memo, lines : Seq(Line)]
    BY JournalAssumption
  <2>2. c.lines \in Seq(StoredLine)
    BY <2>1, AcceptedLinesStorable DEF UpdateDraft, Submittable, LinesAccepted
  <2> QED  BY <2>1, <2>2
<1>3. /\ r \in Row
      /\ r.sourceType = rows[b].sourceType /\ r.supersedes = rows[b].supersedes
      /\ r.originalBatchId = rows[b].originalBatchId
      /\ r.reversalBatchId = rows[b].reversalBatchId
      /\ r.adjustmentKey = rows[b].adjustmentKey /\ r.createdBy = rows[b].createdBy
      /\ r.status = rows[b].status /\ r.content = c
      /\ r.audit = rows[b].audit \cup {"update"}
  BY <1>1, <1>2 DEF Row, Status, AuditAction
<1>4. rows' = [rows EXCEPT ![b] = r]
  BY DEF UpdateDraft
<1> HIDE DEF r
<1> QED  BY <1>3, <1>4, OneRowChanged

LEMMA DeleteEffect ==
  ASSUME TypeOK, NEW b \in DOMAIN rows, DeleteDraft(b)
  PROVE  /\ DraftStep(b)
         /\ rows'[b].status = "deleted" /\ rows'[b].content = rows[b].content
         /\ rows'[b].audit = rows[b].audit
<1> DEFINE r == [rows[b] EXCEPT !.status = "deleted"]
<1>1. rows[b] \in Row
  BY Table
<1>2. /\ r \in Row
      /\ r.sourceType = rows[b].sourceType /\ r.supersedes = rows[b].supersedes
      /\ r.originalBatchId = rows[b].originalBatchId
      /\ r.reversalBatchId = rows[b].reversalBatchId
      /\ r.adjustmentKey = rows[b].adjustmentKey /\ r.createdBy = rows[b].createdBy
      /\ r.status = "deleted" /\ r.content = rows[b].content
      /\ r.audit = rows[b].audit
  BY <1>1 DEF Row, Status
<1>3. rows' = [rows EXCEPT ![b] = r]
  BY DEF DeleteDraft
<1> HIDE DEF r
<1> QED  BY <1>2, <1>3, OneRowChanged

LEMMA VoidEffect ==
  ASSUME TypeOK, NEW S, rows' = Voided(S)
  PROVE  /\ rows' \in Seq(Row) /\ Len(rows') = Len(rows)
         /\ Kept
         /\ \A x \in DOMAIN rows :
              /\ rows'[x].content = rows[x].content
              /\ IF x \in S /\ rows[x].status = "posted"
                   THEN rows'[x].status = "voided"
                        /\ rows'[x].audit = rows[x].audit \cup {"void"}
                   ELSE rows'[x] = rows[x]
<1>1. Len(rows) \in Nat /\ DOMAIN rows = 1..Len(rows) /\ \A x \in DOMAIN rows : rows[x] \in Row
  BY Table
<1>2. ASSUME NEW row \in Row
      PROVE  /\ VoidRow(row) \in Row
             /\ VoidRow(row).status = "voided"
             /\ VoidRow(row).audit = row.audit \cup {"void"}
             /\ VoidRow(row).content = row.content
             /\ VoidRow(row).sourceType = row.sourceType
             /\ VoidRow(row).supersedes = row.supersedes
             /\ VoidRow(row).originalBatchId = row.originalBatchId
             /\ VoidRow(row).reversalBatchId = row.reversalBatchId
             /\ VoidRow(row).adjustmentKey = row.adjustmentKey
             /\ VoidRow(row).createdBy = row.createdBy
  BY DEF VoidRow, Row, Status, AuditAction
<1>3. DOMAIN rows' = DOMAIN rows
  BY DEF Voided
<1>4. \A x \in DOMAIN rows :
        rows'[x] = IF x \in S /\ rows[x].status = "posted" THEN VoidRow(rows[x]) ELSE rows[x]
  BY DEF Voided
<1>5. rows' \in Seq(Row) /\ Len(rows') = Len(rows)
  <2>1. rows' \in [1..Len(rows) -> Row]
    BY <1>1, <1>2, <1>4 DEF Voided
  <2>2. rows' \in Seq(Row)
    BY <1>1, <2>1, SeqDef
  <2> QED  BY <1>1, <1>3, <2>2, LenProperties
<1>6. Kept
  BY <1>1, <1>2, <1>3, <1>4 DEF Kept
<1> QED  BY <1>1, <1>2, <1>4, <1>5, <1>6
-----------------------------------------------------------------------------
(* The breadth-first walk *)

\* The walk contains its root and follows every child link.
LEMMA DescendantsClosed ==
  ASSUME NEW r \in DOMAIN rows
  PROVE  /\ r \in Descendants(r)
         /\ ChildrenOf(Descendants(r)) \subseteq Descendants(r)
<1>1. r \in Descendants(r)
  BY DEF Descendants
<1>2. ASSUME NEW x \in ChildrenOf(Descendants(r)),
             NEW S \in SUBSET DOMAIN rows, r \in S, ChildrenOf(S) \subseteq S
      PROVE  x \in S
  <2>1. rows[x].supersedes \in S
    BY <1>2 DEF ChildrenOf, Descendants
  <2> QED  BY <1>2, <2>1 DEF ChildrenOf
<1> QED  BY <1>1, <1>2 DEF Descendants, ChildrenOf

\* The walk reaches a batch other than its root through the batch's parent only.
LEMMA ParentInDescendants ==
  ASSUME NEW r \in DOMAIN rows, NEW d \in Descendants(r), d # r
  PROVE  rows[d].supersedes \in Descendants(r)
<1> DEFINE S == Descendants(r) \ {d}
<1> SUFFICES ASSUME rows[d].supersedes \notin Descendants(r)
             PROVE  FALSE
  OBVIOUS
<1>1. S \in SUBSET DOMAIN rows /\ r \in S
  BY DescendantsClosed DEF Descendants
<1>2. ChildrenOf(S) \subseteq S
  BY DescendantsClosed DEF ChildrenOf
<1>3. d \in S
  BY <1>1, <1>2 DEF Descendants
<1> QED  BY <1>3

\* A walk that starts at a reversal stays there, so the root of a batch that
\* users can name is not a reversal.
LEMMA RootIsNoReversal ==
  ASSUME TypeOK, Links, NEW r \in DOMAIN rows, NEW b \in Descendants(r), ~IsReversal(b)
  PROVE  ~IsReversal(r)
<1> SUFFICES ASSUME IsReversal(r) PROVE FALSE
  OBVIOUS
<1>1. \A x \in DOMAIN rows : rows[x].supersedes # r
  <2> SUFFICES ASSUME NEW x \in DOMAIN rows, rows[x].supersedes = r PROVE FALSE
    OBVIOUS
  <2>1. r # None
    BY Table DEF BatchId, None
  <2> QED  BY <2>1 DEF Links, IsRevision
<1>2. ChildrenOf({r}) \subseteq {r}
  BY <1>1 DEF ChildrenOf
<1>3. b \in {r}
  BY <1>2 DEF Descendants
<1> QED  BY <1>3

\* Voiding takes a revision or reversal if and only if it takes its original.
LEMMA LifecycleTakesBothOrNone ==
  ASSUME TypeOK, Links, NEW r \in DOMAIN rows, NEW b \in UserFacing, IsRootOf(r, b),
         NEW x \in DOMAIN rows, rows[x].originalBatchId # None
  PROVE  x \in LifecycleOf(r) <=> rows[x].originalBatchId \in LifecycleOf(r)
<1> DEFINE o == rows[x].originalBatchId
           D == Descendants(r)
<1>1. ~IsReversal(r) /\ rows[r].supersedes = None
  BY RootIsNoReversal DEF IsRootOf, UserFacing, IsReversal
<1>2. o \in DOMAIN rows /\ ~IsReversal(o) /\ None \notin DOMAIN rows
  BY Table DEF Links, BatchId, None
<1>3. o \in LifecycleOf(r) <=> o \in D
  BY <1>2 DEF LifecycleOf, ReversalsOf, IsReversal
<1>4. CASE IsRevision(x)
  <2>1. o = rows[x].supersedes /\ ~IsReversal(x)
    BY <1>4 DEF Links
  <2>2. x \in LifecycleOf(r) <=> x \in D
    BY <2>1 DEF LifecycleOf, ReversalsOf, IsReversal
  <2>3. x # r
    BY <1>1, <1>4 DEF IsRevision
  <2>4. x \in D <=> o \in D
    BY <2>1, <2>3, ParentInDescendants, DescendantsClosed DEF ChildrenOf
  <2> QED  BY <1>3, <2>2, <2>4
<1>5. CASE IsReversal(x)
  <2>1. rows[x].supersedes = None /\ x # r
    BY <1>1, <1>5 DEF Links, IsRevision
  <2>2. x \notin D
    BY <1>2, <2>1, ParentInDescendants DEF Descendants
  <2>3. x \in LifecycleOf(r) <=> o \in D
    BY <1>5, <2>2 DEF LifecycleOf, ReversalsOf, IsReversal
  <2> QED  BY <1>3, <2>3
<1> QED  BY <1>4, <1>5 DEF Links
-----------------------------------------------------------------------------
(* The invariant is preserved by each operation *)

LEMMA KeptPairs ==
  ASSUME Pairs, Kept
  PROVE  Pairs'
BY DEF Pairs, Kept, IsReversal, IsRevision

LEMMA KeptAnswers ==
  ASSUME AnswersRecorded, Kept, UNCHANGED answers
  PROVE  AnswersRecorded'
BY DEF AnswersRecorded, Kept

LEMMA KeptLinks ==
  ASSUME Links, Kept,
         \A x \in DOMAIN rows : rows[x].status \in {"posted", "voided"}
                                  => rows'[x].status \in {"posted", "voided"}
  PROVE  Links'
BY DEF Links, Kept, IsReversal, IsRevision

\* A draft is neither made from another batch nor the origin of one.
LEMMA DraftIsUnlinked ==
  ASSUME IndInv, NEW b \in DOMAIN rows, rows[b].status = "draft"
  PROVE  /\ rows[b].originalBatchId = None
         /\ \A x \in DOMAIN rows : rows[x].originalBatchId # b
<1>1. rows[b].originalBatchId = None
  BY DEF IndInv, Links
<1>2. ASSUME NEW x \in DOMAIN rows, rows[x].originalBatchId = b PROVE FALSE
  <2>1. b # None
    BY Table DEF IndInv, BatchId, None
  <2> QED  BY <1>2, <2>1 DEF IndInv, Links, LifecycleAllOrNothing
<1> QED  BY <1>1, <1>2

LEMMA DraftStepInv ==
  ASSUME IndInv, NEW b \in DOMAIN rows, rows[b].status = "draft",
         DraftStep(b), UNCHANGED answers
  PROVE  IndInv'
<1>1. /\ rows[b].originalBatchId = None
      /\ \A x \in DOMAIN rows : rows[x].originalBatchId # b
  BY DraftIsUnlinked
<1>2. TypeOK'
  BY DEF IndInv, TypeOK, DraftStep
<1>3. Links'
  BY KeptLinks DEF IndInv, DraftStep
<1>4. Pairs' /\ AnswersRecorded'
  BY KeptPairs, KeptAnswers DEF IndInv, DraftStep
<1>5. LifecycleAllOrNothing'
  BY <1>1 DEF IndInv, LifecycleAllOrNothing, DraftStep, Kept, Links
<1>6. ExactReversals'
  <2> SUFFICES ASSUME NEW y \in DOMAIN rows', IsReversal(y)'
               PROVE  rows'[y].content.lines
                        = BuildReversalLines(rows'[rows'[y].originalBatchId].content.lines)
    BY DEF ExactReversals
  <2>1. y \in DOMAIN rows /\ IsReversal(y) /\ rows'[y].originalBatchId = rows[y].originalBatchId
    BY DEF DraftStep, Kept, IsReversal
  <2>2. /\ rows[y].originalBatchId # None /\ rows[y].originalBatchId \in DOMAIN rows
        /\ rows[y].originalBatchId # b /\ y # b
    BY <1>1, <2>1 DEF IndInv, Links
  <2> QED  BY <2>1, <2>2 DEF IndInv, ExactReversals, DraftStep
<1> QED  BY <1>2, <1>3, <1>4, <1>5, <1>6 DEF IndInv

LEMMA SubmittedInv ==
  ASSUME IndInv, NEW c \in Submitted, NEW st \in {"draft", "posted"},
         NEW k \in SourceKey \cup {NoSource}, NEW u \in BOOLEAN, CreateBatch(c, st, k, u)
  PROVE  IndInv'
<1> DEFINE n == Len(rows) + 1
<1>0. n \notin DOMAIN rows
  BY Table DEF IndInv
<1>1. /\ rows' \in Seq(Row) /\ Len(rows') <= MaxBatches
      /\ DOMAIN rows' = DOMAIN rows \cup {n} /\ n \notin DOMAIN rows
      /\ \A x \in DOMAIN rows : rows'[x] = rows[x]
      /\ rows'[n] = PlainRow(c, st, k, u)
  BY <1>0, SubmittedEffect DEF IndInv
<1> HIDE DEF n
<1>2. /\ rows'[n].originalBatchId = None /\ rows'[n].supersedes = None
      /\ rows'[n].sourceType # "adjustment_reversal"
  BY <1>1 DEF PlainRow
<1>3. answers' = answers
  BY DEF CreateBatch
<1>4. TypeOK'
  BY <1>1, <1>3 DEF IndInv, TypeOK
<1>5. Links'
  BY <1>1, <1>2 DEF IndInv, Links, IsReversal, IsRevision
<1>6. Pairs'
  BY <1>1, <1>2 DEF IndInv, Pairs, Links, IsReversal, IsRevision
<1>7. LifecycleAllOrNothing'
  BY <1>1, <1>2 DEF IndInv, LifecycleAllOrNothing, Links
<1>8. ExactReversals'
  BY <1>1, <1>2 DEF IndInv, ExactReversals, Links, IsReversal
<1>9. AnswersRecorded'
  BY <1>1, <1>3 DEF IndInv, AnswersRecorded
<1> QED  BY <1>4, <1>5, <1>6, <1>7, <1>8, <1>9 DEF IndInv

LEMMA CreateInv ==
  ASSUME IndInv, NEW c \in Content, NEW st \in {"draft", "posted"},
         NEW k \in SourceKey \cup {NoSource}, NEW u \in BOOLEAN, CreateBatch(c, st, k, u)
  PROVE  IndInv'
<1>1. c \in Submitted
  BY JournalAssumption DEF Submitted
<1> QED  BY <1>1, SubmittedInv

LEMMA VoidInv ==
  ASSUME IndInv, NEW b \in UserFacing, VoidLifecycle(b)
  PROVE  IndInv'
<1>1. PICK r \in DOMAIN rows : IsRootOf(r, b) /\ rows' = Voided(LifecycleOf(r))
  BY DEF VoidLifecycle
<1> DEFINE L == LifecycleOf(r)
<1>2. /\ rows' \in Seq(Row) /\ Len(rows') = Len(rows) /\ Kept
      /\ \A x \in DOMAIN rows :
           /\ rows'[x].content = rows[x].content
           /\ IF x \in L /\ rows[x].status = "posted"
                THEN rows'[x].status = "voided" ELSE rows'[x] = rows[x]
  BY <1>1, VoidEffect DEF IndInv
<1>3. answers' = answers
  BY DEF VoidLifecycle
<1>4. TypeOK'
  BY <1>2, <1>3 DEF IndInv, TypeOK
<1>5. Links' /\ Pairs' /\ AnswersRecorded'
  BY <1>2, <1>3, KeptLinks, KeptPairs, KeptAnswers DEF IndInv
<1>6. LifecycleAllOrNothing'
  <2> SUFFICES ASSUME NEW x \in DOMAIN rows, rows[x].originalBatchId # None
               PROVE  rows'[x].status = rows'[rows[x].originalBatchId].status
    BY <1>2 DEF LifecycleAllOrNothing, Kept
  <2>1. x \in L <=> rows[x].originalBatchId \in L
    BY <1>1, LifecycleTakesBothOrNone DEF IndInv
  <2>2. /\ rows[x].originalBatchId \in DOMAIN rows
        /\ rows[x].status = rows[rows[x].originalBatchId].status
    BY DEF IndInv, Links, LifecycleAllOrNothing
  <2> HIDE DEF L
  <2> QED  BY <1>2, <2>1, <2>2
<1>7. ExactReversals'
  BY <1>2 DEF IndInv, ExactReversals, Kept, Links, IsReversal
<1> QED  BY <1>4, <1>5, <1>6, <1>7 DEF IndInv

LEMMA RepeatInv ==
  ASSUME IndInv, NEW b \in UserFacing, NEW c \in Content, RepeatAdjust(b, c)
  PROVE  IndInv'
<1>1. PICK x \in PostedChildren(b) :
        /\ SameEdit(x, b, c)
        /\ answers' = answers \cup
             {Answer(b, AdjustmentKey(b, c), rows[x].reversalBatchId, x)}
  BY DEF RepeatAdjust
<1>2. rows' = rows
  BY DEF RepeatAdjust
<1>3. b \in BatchId /\ DOMAIN rows \subseteq BatchId /\ b # None
  BY Table DEF IndInv, UserFacing, BatchId, None
<1>4. /\ x \in DOMAIN rows /\ rows[x].supersedes = b
      /\ rows[x].adjustmentKey = AdjustmentKey(b, c)
      /\ rows[x].reversalBatchId \in DOMAIN rows
  BY <1>1, <1>3 DEF PostedChildren, SameEdit, IndInv, Pairs, IsRevision
<1>5. TypeOK'
  <2>1. AdjustmentKey(b, c) \in Keys
    BY <1>3 DEF Keys
  <2> QED  BY <1>1, <1>2, <1>3, <1>4, <2>1 DEF IndInv, TypeOK, Answer
<1>6. AnswersRecorded'
  BY <1>1, <1>2, <1>4 DEF IndInv, AnswersRecorded, Answer
<1>7. Links' /\ Pairs' /\ LifecycleAllOrNothing' /\ ExactReversals'
  BY <1>2 DEF IndInv, Links, Pairs, LifecycleAllOrNothing, ExactReversals,
              IsReversal, IsRevision
<1> QED  BY <1>5, <1>6, <1>7 DEF IndInv

\* The first adjustment of b appends exactly one reversal and one revision, and b
\* had none: its children would be posted, because they share its status.
LEMMA AdjustInv ==
  ASSUME IndInv, NEW b \in UserFacing, NEW c \in Content, AdjustBatch(b, c)
  PROVE  IndInv'
<1> DEFINE m == Len(rows) + 1
           n == Len(rows) + 2
           key == AdjustmentKey(b, c)
<1>0. m \notin DOMAIN rows /\ n \notin DOMAIN rows /\ m # n
  BY Table DEF IndInv
<1>1. b \in DOMAIN rows /\ ~IsReversal(b) /\ b # None /\ rows[b].status = "posted"
  BY Table DEF UserFacing, IsReversal, AdjustBatch, Adjustable, IndInv, BatchId, None
<1>2. /\ rows' \in Seq(Row) /\ Len(rows') <= MaxBatches
      /\ DOMAIN rows' = DOMAIN rows \cup {m, n}
      /\ \A x \in DOMAIN rows \ {b} : rows'[x] = rows[x]
      /\ rows'[b] = [rows[b] EXCEPT !.audit = rows[b].audit \cup {"update"}]
      /\ rows'[m] = ReversalRow(b, key)
      /\ rows'[n] = RevisedRow(b, c, key, m)
  BY <1>1, AdjustEffect DEF IndInv
<1>3. answers' = answers \cup {Answer(b, key, m, n)}
  BY DEF AdjustBatch
<1>4. /\ m \in BatchId /\ n \in BatchId /\ b \in BatchId /\ key \in Keys
      /\ m # None /\ n # None
  <2>1. Len(rows) \in Nat /\ Len(rows) + 2 <= MaxBatches /\ b \in BatchId
    BY <1>1, Table DEF AdjustBatch, IndInv
  <2> QED  BY <2>1, JournalAssumption DEF BatchId, Keys, None
<1> HIDE DEF m, n, key
<1>5. ASSUME NEW x \in DOMAIN rows
      PROVE  /\ rows'[x].status = rows[x].status
             /\ rows'[x].content = rows[x].content
             /\ rows'[x].sourceType = rows[x].sourceType
             /\ rows'[x].supersedes = rows[x].supersedes
             /\ rows'[x].originalBatchId = rows[x].originalBatchId
             /\ rows'[x].reversalBatchId = rows[x].reversalBatchId
             /\ rows'[x].adjustmentKey = rows[x].adjustmentKey
  <2>1. rows[b] \in Row
    BY <1>1, Table DEF IndInv
  <2> QED  BY <1>2, <2>1 DEF Row
<1>6. /\ rows'[m].status = "posted" /\ rows'[m].sourceType = "adjustment_reversal"
      /\ rows'[m].supersedes = None /\ rows'[m].originalBatchId = b
      /\ rows'[m].content.lines = BuildReversalLines(rows[b].content.lines)
  BY <1>2, ReversalRowFields
<1>7. /\ rows'[n].status = "posted" /\ rows'[n].sourceType = "adjustment"
      /\ rows'[n].supersedes = b /\ rows'[n].originalBatchId = b
      /\ rows'[n].reversalBatchId = m /\ rows'[n].adjustmentKey = key
  BY <1>2, RevisedRowFields
<1>8. \A x \in DOMAIN rows : rows[x].supersedes # b
  <2> SUFFICES ASSUME NEW x \in DOMAIN rows, rows[x].supersedes = b PROVE FALSE
    OBVIOUS
  <2>1. rows[x].originalBatchId = b
    BY <1>1 DEF IndInv, Links, IsRevision
  <2>2. rows[x].status = "posted"
    BY <1>1, <2>1 DEF IndInv, LifecycleAllOrNothing
  <2>3. x \in PostedChildren(b)
    BY <2>2 DEF PostedChildren
  <2> QED  BY <2>3 DEF AdjustBatch, Adjustable
<1>9. \A y \in DOMAIN rows : IsReversal(y) => rows[y].originalBatchId # b
  BY <1>8 DEF IndInv, Pairs
<1>10. TypeOK'
  BY <1>2, <1>3, <1>4 DEF IndInv, TypeOK, Answer
<1>11. Links'
  BY <1>0, <1>1, <1>2, <1>5, <1>6, <1>7 DEF IndInv, Links, IsReversal, IsRevision
<1>12. Pairs'
  <2>1. \A x, y \in DOMAIN rows' :
          (IsRevision(x) /\ rows[x].supersedes = rows[y].supersedes => x = y)'
    BY <1>2, <1>4, <1>5, <1>6, <1>7, <1>8 DEF IndInv, Pairs, IsRevision
  <2>2. \A x, y \in DOMAIN rows' :
          (IsReversal(x) /\ IsReversal(y)
             /\ rows[x].originalBatchId = rows[y].originalBatchId => x = y)'
    BY <1>2, <1>5, <1>6, <1>7, <1>9 DEF IndInv, Pairs, IsReversal
  <2>3. \A x \in DOMAIN rows' : IsRevision(x)' =>
          /\ rows'[x].reversalBatchId \in DOMAIN rows'
          /\ rows'[rows'[x].reversalBatchId].sourceType = "adjustment_reversal"
          /\ rows'[rows'[x].reversalBatchId].originalBatchId = rows'[x].supersedes
    BY <1>2, <1>5, <1>6, <1>7 DEF IndInv, Pairs, IsReversal, IsRevision
  <2>4. \A y \in DOMAIN rows' : IsReversal(y)' =>
          \E x \in DOMAIN rows' : rows'[x].supersedes = rows'[y].originalBatchId
    <3> SUFFICES ASSUME NEW y \in DOMAIN rows', IsReversal(y)'
                 PROVE  \E x \in DOMAIN rows' : rows'[x].supersedes = rows'[y].originalBatchId
      OBVIOUS
    <3>1. CASE y = m
      BY <1>2, <1>6, <1>7, <3>1
    <3>2. CASE y = n
      BY <1>7, <3>2 DEF IsReversal
    <3>3. CASE y \in DOMAIN rows
      <4>1. IsReversal(y)
        BY <1>5, <3>3 DEF IsReversal
      <4>2. PICK x \in DOMAIN rows : rows[x].supersedes = rows[y].originalBatchId
        BY <3>3, <4>1 DEF IndInv, Pairs
      <4> QED  BY <1>2, <1>5, <3>3, <4>2
    <3> QED  BY <1>2, <3>1, <3>2, <3>3
  <2> QED  BY <2>1, <2>2, <2>3, <2>4 DEF Pairs, IsReversal
<1>13. LifecycleAllOrNothing'
  BY <1>1, <1>2, <1>5, <1>6, <1>7 DEF IndInv, LifecycleAllOrNothing, Links
<1>14. ExactReversals'
  BY <1>1, <1>2, <1>5, <1>6, <1>7 DEF IndInv, ExactReversals, Links, IsReversal
<1>15. AnswersRecorded'
  <2> SUFFICES ASSUME NEW p \in answers'
               PROVE  /\ p.revisedBatchId \in DOMAIN rows'
                      /\ rows'[p.revisedBatchId].supersedes = p.batchId
                      /\ rows'[p.revisedBatchId].adjustmentKey = p.key
                      /\ rows'[p.revisedBatchId].reversalBatchId = p.reversalBatchId
    BY DEF AnswersRecorded
  <2>1. CASE p \in answers
    BY <1>2, <1>5, <2>1 DEF IndInv, AnswersRecorded
  <2>2. CASE p = Answer(b, key, m, n)
    BY <1>2, <1>7, <2>2 DEF Answer
  <2> QED  BY <1>3, <2>1, <2>2
<1> QED  BY <1>10, <1>11, <1>12, <1>13, <1>14, <1>15 DEF IndInv

LEMMA InitInv == Init => IndInv
<1> SUFFICES ASSUME Init PROVE IndInv
  OBVIOUS
<1>1. rows = <<>> /\ DOMAIN rows = {} /\ answers = {} /\ Len(rows) = 0
  BY DEF Init
<1>2. rows \in Seq(Row)
  BY <1>1
<1>3. TypeOK
  BY <1>1, <1>2, JournalAssumption DEF TypeOK
<1> QED
  BY <1>1, <1>3 DEF IndInv, Links, Pairs, LifecycleAllOrNothing, ExactReversals,
                    AnswersRecorded

LEMMA NextInv == IndInv /\ [Next]_vars => IndInv'
<1> SUFFICES ASSUME IndInv, [Next]_vars PROVE IndInv'
  OBVIOUS
<1>1. ASSUME NEW c \in Content, NEW st \in {"draft", "posted"},
             NEW k \in SourceKey \cup {NoSource}, NEW u \in BOOLEAN, CreateBatch(c, st, k, u)
      PROVE  IndInv'
  BY <1>1, CreateInv
<1>2. ASSUME NEW b \in UserFacing, PostBatch(b) PROVE IndInv'
  BY <1>2, PostEffect, DraftStepInv DEF PostBatch, UserFacing, IndInv
<1>3. ASSUME NEW b \in UserFacing, NEW c \in Content, UpdateDraft(b, c) PROVE IndInv'
  BY <1>3, UpdateEffect, DraftStepInv DEF UpdateDraft, UserFacing, IndInv
<1>4. ASSUME NEW b \in UserFacing, NEW c \in Content, AdjustBatch(b, c) PROVE IndInv'
  BY <1>4, AdjustInv
<1>5. ASSUME NEW b \in UserFacing, NEW c \in Content, RepeatAdjust(b, c) PROVE IndInv'
  BY <1>5, RepeatInv
<1>6. ASSUME NEW b \in UserFacing, DeleteDraft(b) PROVE IndInv'
  BY <1>6, DeleteEffect, DraftStepInv DEF DeleteDraft, UserFacing, IndInv
<1>7. ASSUME NEW b \in UserFacing, VoidLifecycle(b) PROVE IndInv'
  BY <1>7, VoidInv
<1>8. CASE UNCHANGED vars
  BY <1>8 DEF vars, IndInv, TypeOK, Links, Pairs, LifecycleAllOrNothing, ExactReversals,
              AnswersRecorded, IsReversal, IsRevision
<1> QED  BY <1>1, <1>2, <1>3, <1>4, <1>5, <1>6, <1>7, <1>8 DEF Next
-----------------------------------------------------------------------------
(* Theorems *)

\* Every reachable state satisfies the inductive invariant.
THEOREM Invariance == Spec => []IndInv
<1>1. Init => IndInv
  BY InitInv
<1>2. IndInv /\ [Next]_vars => IndInv'
  BY NextInv
<1> QED  BY <1>1, <1>2, PTL DEF Spec

\* The rows that the services of journal-service store are rows the schema allows.
THEOREM TypeCorrect == Spec => []TypeOK
<1>1. IndInv => TypeOK
  BY DEF IndInv
<1> QED  BY <1>1, Invariance, PTL

\* voidJournalEntryLifecycleTx voids a lifecycle as a whole, whatever its shape
\* and whichever batch of it was named: a revision or reversal is posted exactly
\* as long as the batch it was made from.
THEOREM LifecycleVoidedAsAWhole == Spec => []LifecycleAllOrNothing
<1>1. IndInv => LifecycleAllOrNothing
  BY DEF IndInv
<1> QED  BY <1>1, Invariance, PTL

\* resolveExistingAdjustmentOrThrowTx: all callers that adjustJournalBatch has
\* answered for one batch saved the same edit and hold the same two ids.
THEOREM AdjustmentIdempotent == Spec => []ConsistentAnswers
<1>1. IndInv => ConsistentAnswers
  <2> SUFFICES ASSUME IndInv, NEW p \in answers, NEW q \in answers, p.batchId = q.batchId
               PROVE  p = q
    BY DEF ConsistentAnswers
  <2>1. p.batchId # None
    BY DEF IndInv, TypeOK, BatchId, None
  <2>2. p.revisedBatchId = q.revisedBatchId
    BY <2>1 DEF IndInv, AnswersRecorded, Pairs, IsRevision
  <2>3. p.key = q.key /\ p.reversalBatchId = q.reversalBatchId
    BY <2>2 DEF IndInv, AnswersRecorded
  <2> QED  BY <2>2, <2>3 DEF IndInv, TypeOK
<1> QED  BY <1>1, Invariance, PTL

LEMMA SupersededReversed == IndInv => SupersededExactlyReversed
<1> SUFFICES ASSUME IndInv, NEW b \in DOMAIN rows, rows[b].status = "posted"
             PROVE  \/ PostedChildren(b) = {} /\ PostedReversals(b) = {}
                    \/ \E x, y \in DOMAIN rows :
                         /\ PostedChildren(b) = {x} /\ PostedReversals(b) = {y}
                         /\ rows[x].reversalBatchId = y
                         /\ rows[y].content.lines
                              = BuildReversalLines(rows[b].content.lines)
  BY DEF SupersededExactlyReversed
<1>0. b # None
  BY Table DEF IndInv, BatchId, None
<1>1. CASE \A x \in DOMAIN rows : rows[x].supersedes # b
  <2>1. PostedChildren(b) = {}
    BY <1>1 DEF PostedChildren
  <2>2. PostedReversals(b) = {}
    BY <1>1 DEF PostedReversals, ReversalsOf, IndInv, Pairs, IsReversal
  <2> QED  BY <2>1, <2>2
<1>2. ASSUME NEW x \in DOMAIN rows, rows[x].supersedes = b
      PROVE  \E y \in DOMAIN rows :
               /\ PostedChildren(b) = {x} /\ PostedReversals(b) = {y}
               /\ rows[x].reversalBatchId = y
               /\ rows[y].content.lines = BuildReversalLines(rows[b].content.lines)
  <2> DEFINE y == rows[x].reversalBatchId
  <2>1. IsRevision(x) /\ rows[x].originalBatchId = b
    BY <1>0, <1>2 DEF IsRevision, IndInv, Links
  <2>2. y \in DOMAIN rows /\ IsReversal(y) /\ rows[y].originalBatchId = b
    BY <1>2, <2>1 DEF IndInv, Pairs
  <2>3. rows[x].status = "posted" /\ rows[y].status = "posted"
    BY <1>0, <2>1, <2>2 DEF IndInv, LifecycleAllOrNothing
  <2>4. PostedChildren(b) = {x}
    BY <1>2, <2>1, <2>3 DEF PostedChildren, IndInv, Pairs
  <2>5. PostedReversals(b) = {y}
    BY <2>2, <2>3 DEF PostedReversals, ReversalsOf, IsReversal, IndInv, Pairs
  <2>6. rows[y].content.lines = BuildReversalLines(rows[b].content.lines)
    BY <2>2 DEF IndInv, ExactReversals
  <2> QED  BY <2>2, <2>4, <2>5, <2>6
<1> QED  BY <1>1, <1>2

\* adjustJournalBatchWithKeyTx: a posted batch is superseded once and reversed
\* once, by the same adjustment, and the reversal takes back exactly its lines.
THEOREM AdjustmentExact == Spec => []SupersededExactlyReversed
BY SupersededReversed, Invariance, PTL

\* The step of PostedPreserved for one batch.
Preserved(b) ==
  /\ rows'[b].content = rows[b].content
  /\ rows'[b].supersedes = rows[b].supersedes
  /\ rows'[b].originalBatchId = rows[b].originalBatchId
  /\ rows'[b].status \in {rows[b].status} \cup
       IF rows[b].status = "posted" THEN {"voided"} ELSE {}

\* updateDraftJournalBatch, deleteDraftJournalBatch, voidJournalEntryLifecycleTx
\* and adjustJournalBatchTx leave the content of a posted batch alone: its only
\* way on is to be voided, and a voided or removed batch stays so.
THEOREM PostedNeverEdited == Spec => PostedPreserved
<1>1. ASSUME IndInv, Next, NEW x \in DOMAIN rows, rows[x].status # "draft"
      PROVE  Preserved(x)
  <2>1. ASSUME NEW c \in Content, NEW st \in {"draft", "posted"},
               NEW k \in SourceKey \cup {NoSource}, NEW u \in BOOLEAN, CreateBatch(c, st, k, u)
        PROVE  Preserved(x)
    <3>1. rows'[x] = rows[x]
      BY <1>1, <2>1, CreateEffect DEF IndInv
    <3> QED  BY <3>1 DEF Preserved
  <2>2. ASSUME NEW b \in UserFacing, rows[b].status = "draft", DraftStep(b)
        PROVE  Preserved(x)
    <3>1. rows'[x] = rows[x]
      BY <1>1, <2>2 DEF DraftStep
    <3> QED  BY <3>1 DEF Preserved
  <2>3. ASSUME NEW b \in UserFacing, PostBatch(b) PROVE Preserved(x)
    BY <1>1, <2>2, <2>3, PostEffect DEF PostBatch, UserFacing, IndInv
  <2>4. ASSUME NEW b \in UserFacing, NEW c \in Content, UpdateDraft(b, c)
        PROVE  Preserved(x)
    BY <1>1, <2>2, <2>4, UpdateEffect DEF UpdateDraft, UserFacing, IndInv
  <2>5. ASSUME NEW b \in UserFacing, DeleteDraft(b) PROVE Preserved(x)
    BY <1>1, <2>2, <2>5, DeleteEffect DEF DeleteDraft, UserFacing, IndInv
  <2>6. ASSUME NEW b \in UserFacing, NEW c \in Content, AdjustBatch(b, c)
        PROVE  Preserved(x)
    <3>1. rows'[x] = rows[x] \/ rows'[x] = [rows[x] EXCEPT !.audit = rows[x].audit \cup {"update"}]
      BY <1>1, <2>6, AdjustEffect DEF IndInv, UserFacing
    <3>2. rows[x] \in Row
      BY <1>1, Table DEF IndInv
    <3> QED  BY <3>1, <3>2 DEF Preserved, Row
  <2>7. ASSUME NEW b \in UserFacing, NEW c \in Content, RepeatAdjust(b, c)
        PROVE  Preserved(x)
    BY <2>7 DEF RepeatAdjust, Preserved
  <2>8. ASSUME NEW b \in UserFacing, VoidLifecycle(b) PROVE Preserved(x)
    <3>1. PICK S : rows' = Voided(S)
      BY <2>8 DEF VoidLifecycle
    <3> QED  BY <1>1, <3>1, VoidEffect DEF IndInv, Preserved, Kept
  <2> QED  BY <1>1, <2>1, <2>3, <2>4, <2>5, <2>6, <2>7, <2>8 DEF Next
<1>2. IndInv /\ [Next]_vars =>
        [\A b \in DOMAIN rows :
           rows[b].status # "draft" =>
             /\ rows'[b].content = rows[b].content
             /\ rows'[b].supersedes = rows[b].supersedes
             /\ rows'[b].originalBatchId = rows[b].originalBatchId
             /\ rows'[b].status \in {rows[b].status} \cup
                  IF rows[b].status = "posted" THEN {"voided"} ELSE {}]_vars
  BY <1>1 DEF Preserved
<1> QED  BY <1>2, Invariance, PTL DEF Spec, PostedPreserved

\* Where the lines of a draft or posted row of the next table come from: they were
\* there before, a caller has submitted them, or they reverse those of a row.
HasOrigin(x) ==
  \/ x \in DOMAIN rows /\ Live(x) /\ rows'[x].content = rows[x].content
  \/ \E c \in Content : Submittable(c) /\ rows'[x].content = c
  \/ \E b \in DOMAIN rows :
       Live(b) /\ rows'[x].content.lines = BuildReversalLines(rows[b].content.lines)

LEMMA ContentOrigin ==
  ASSUME IndInv, Next, NEW x \in DOMAIN rows', Live(x)'
  PROVE  HasOrigin(x)
<1>1. ASSUME NEW c \in Content, NEW st \in {"draft", "posted"},
             NEW k \in SourceKey \cup {NoSource}, NEW u \in BOOLEAN, CreateBatch(c, st, k, u)
      PROVE  HasOrigin(x)
  <2>1. CASE x \in DOMAIN rows
    BY <1>1, <2>1, CreateEffect DEF IndInv, Live, HasOrigin
  <2>2. CASE x = Len(rows) + 1
    BY <1>1, <2>2, CreateEffect DEF IndInv, PlainRow, CreateBatch, HasOrigin
  <2> QED  BY <1>1, <2>1, <2>2, CreateEffect DEF IndInv
<1>2. ASSUME NEW b \in UserFacing, rows[b].status = "draft", DraftStep(b),
             \/ rows'[b].content = rows[b].content
             \/ \E c \in Content : Submittable(c) /\ rows'[b].content = c
      PROVE  HasOrigin(x)
  <2>1. CASE x # b
    BY <1>2, <2>1 DEF DraftStep, Kept, Live, HasOrigin
  <2>2. CASE x = b
    BY <1>2, <2>2 DEF UserFacing, Live, HasOrigin
  <2> QED  BY <2>1, <2>2
<1>3. ASSUME NEW b \in UserFacing, PostBatch(b) PROVE HasOrigin(x)
  BY <1>2, <1>3, PostEffect DEF PostBatch, UserFacing, IndInv
<1>4. ASSUME NEW b \in UserFacing, NEW c \in Content, UpdateDraft(b, c) PROVE HasOrigin(x)
  BY <1>2, <1>4, UpdateEffect DEF UpdateDraft, UserFacing, IndInv
<1>5. ASSUME NEW b \in UserFacing, DeleteDraft(b) PROVE HasOrigin(x)
  BY <1>2, <1>5, DeleteEffect DEF DeleteDraft, UserFacing, IndInv
<1>6. ASSUME NEW b \in UserFacing, NEW c \in Content, AdjustBatch(b, c) PROVE HasOrigin(x)
  <2> DEFINE key == AdjustmentKey(b, c)
  <2>1. b \in DOMAIN rows /\ rows[b].status = "posted"
    BY <1>6 DEF UserFacing, AdjustBatch, Adjustable
  <2>2. CASE x \in DOMAIN rows
    <3>1. rows'[x] = rows[x] \/ rows'[x] = [rows[x] EXCEPT !.audit = rows[x].audit \cup {"update"}]
      BY <1>6, <2>1, <2>2, AdjustEffect DEF IndInv
    <3>2. rows[x] \in Row
      BY <2>2, Table DEF IndInv
    <3>3. rows'[x].content = rows[x].content /\ rows'[x].status = rows[x].status
      BY <3>1, <3>2 DEF Row
    <3> QED  BY <2>2, <3>3 DEF Live, HasOrigin
  <2>3. CASE x = Len(rows) + 1
    <3>1. rows'[x] = ReversalRow(b, key)
      BY <1>6, <2>1, <2>3, AdjustEffect DEF IndInv
    <3>2. rows'[x].content.lines = BuildReversalLines(rows[b].content.lines)
      BY <3>1, ReversalRowFields
    <3> QED  BY <2>1, <3>2 DEF Live, HasOrigin
  <2>4. CASE x = Len(rows) + 2
    <3>1. rows'[x] = RevisedRow(b, c, key, Len(rows) + 1)
      BY <1>6, <2>1, <2>4, AdjustEffect DEF IndInv
    <3>2. rows'[x].content = c
      BY <3>1, RevisedRowFields
    <3> QED  BY <1>6, <3>2 DEF AdjustBatch, HasOrigin
  <2> QED  BY <1>6, <2>1, <2>2, <2>3, <2>4, AdjustEffect DEF IndInv
<1>7. ASSUME NEW b \in UserFacing, NEW c \in Content, RepeatAdjust(b, c) PROVE HasOrigin(x)
  BY <1>7 DEF RepeatAdjust, Live, HasOrigin
<1>8. ASSUME NEW b \in UserFacing, VoidLifecycle(b) PROVE HasOrigin(x)
  <2>1. PICK S : rows' = Voided(S)
    BY <1>8 DEF VoidLifecycle
  <2> QED  BY <2>1, VoidEffect DEF IndInv, Kept, Live, HasOrigin
<1> QED
  BY <1>1, <1>3, <1>4, <1>5, <1>6, <1>7, <1>8 DEF Next

\* The lines of a stored row are what the CHECK constraints allow.
LEMMA StoredLines ==
  ASSUME TypeOK, NEW b \in DOMAIN rows
  PROVE  rows[b].content.lines \in Seq(StoredLine)
BY Table DEF Row

LEMMA PostableStep == IndInv /\ EveryBatchPostable /\ [Next]_vars => EveryBatchPostable'
<1> SUFFICES ASSUME IndInv, EveryBatchPostable, Next, NEW x \in DOMAIN rows', Live(x)'
             PROVE  LinesAccepted(rows'[x].content.lines)
  <2>1. CASE UNCHANGED vars
    BY <2>1 DEF vars, EveryBatchPostable, Live
  <2> QED  BY <2>1 DEF EveryBatchPostable
<1>1. HasOrigin(x)
  BY ContentOrigin
<1>2. ASSUME NEW b \in DOMAIN rows, Live(b)
      PROVE  LinesAccepted(BuildReversalLines(rows[b].content.lines))
  BY <1>2, StoredLines, ReversalAccepted DEF EveryBatchPostable, IndInv
<1> QED
  BY <1>1, <1>2 DEF HasOrigin, EveryBatchPostable, Submittable

\* ensureLinesArePostable and ensureAccountsBelongToOrgTx guard every way into the
\* table: what is a draft or posted can be posted, generated reversals included.
THEOREM AlwaysPostable == Spec => []EveryBatchPostable
<1>1. Init => EveryBatchPostable
  BY DEF Init, EveryBatchPostable
<1> QED  BY <1>1, PostableStep, Invariance, PTL DEF Spec

\* What a step that only adds to the log, and logs what it does, has to show.
Logged ==
  /\ Kept
  /\ \A x \in DOMAIN rows :
       /\ rows[x].audit \subseteq rows'[x].audit
       /\ rows'[x].status \in {"posted", "voided"} =>
            rows[x].status \in {"posted", "voided"} \/ "post" \in rows'[x].audit
       /\ rows'[x].status = "voided" => rows[x].status = "voided" \/ "void" \in rows'[x].audit

\* The parent of a revision is in the table.
LEMMA ParentInTable ==
  ASSUME IndInv, NEW x \in DOMAIN rows, rows[x].supersedes # None
  PROVE  rows[x].supersedes \in DOMAIN rows
BY DEF IndInv, Links, IsRevision

LEMMA LoggedAudit ==
  ASSUME IndInv, AuditTrail, Logged
  PROVE  AuditTrail'
<1> SUFFICES ASSUME NEW x \in DOMAIN rows
             PROVE  /\ rows'[x].createdBy /\ rows'[x].status \in {"posted", "voided"}
                         => "post" \in rows'[x].audit
                    /\ rows'[x].status = "voided" => "void" \in rows'[x].audit
                    /\ rows'[x].supersedes # None
                         => "update" \in rows'[rows'[x].supersedes].audit
  BY DEF AuditTrail, Logged, Kept
<1>1. /\ rows'[x].createdBy /\ rows'[x].status \in {"posted", "voided"}
           => "post" \in rows'[x].audit
      /\ rows'[x].status = "voided" => "void" \in rows'[x].audit
  BY DEF AuditTrail, Logged, Kept
<1>2. rows'[x].supersedes # None => "update" \in rows'[rows'[x].supersedes].audit
  BY ParentInTable DEF AuditTrail, Logged, Kept
<1> QED  BY <1>1, <1>2

\* insertAuditLog: each operation that posts, voids or replaces a batch on behalf of
\* a user writes its entry in the transaction that does it, for the whole lifecycle
\* that it voids, and the log only grows.
THEOREM LedgerIsAudited == Spec => []AuditTrail
<1>1. Init => AuditTrail
  BY DEF Init, AuditTrail
<1>2. IndInv /\ AuditTrail /\ [Next]_vars => AuditTrail'
  <2> SUFFICES ASSUME IndInv, AuditTrail, [Next]_vars PROVE AuditTrail'
    OBVIOUS
  <2>1. ASSUME NEW c \in Content, NEW st \in {"draft", "posted"},
               NEW k \in SourceKey \cup {NoSource}, NEW u \in BOOLEAN, CreateBatch(c, st, k, u)
        PROVE  AuditTrail'
    <3>1. PICK n : n = Len(rows) + 1
      OBVIOUS
    <3>2. /\ DOMAIN rows' = DOMAIN rows \cup {n}
          /\ \A x \in DOMAIN rows : rows'[x] = rows[x]
          /\ rows'[n] = PlainRow(c, st, k, u)
      BY <2>1, <3>1, CreateEffect DEF IndInv
    <3>3. /\ rows'[n].createdBy /\ rows'[n].status \in {"posted", "voided"}
               => "post" \in rows'[n].audit
          /\ rows'[n].status # "voided" /\ rows'[n].supersedes = None
      BY <3>2 DEF PlainRow
    <3> QED  BY <3>2, <3>3, ParentInTable DEF AuditTrail
  <2>2. ASSUME NEW b \in UserFacing, DraftStep(b), rows[b].status = "draft",
               rows[b].audit \subseteq rows'[b].audit, rows'[b].status # "voided",
               rows'[b].status = "posted" => "post" \in rows'[b].audit
        PROVE  AuditTrail'
    <3>1. Logged
      BY <2>2 DEF DraftStep, Logged
    <3> QED  BY <3>1, LoggedAudit
  <2>3. ASSUME NEW b \in UserFacing, PostBatch(b) PROVE AuditTrail'
    BY <2>2, <2>3, PostEffect DEF PostBatch, UserFacing, IndInv
  <2>4. ASSUME NEW b \in UserFacing, NEW c \in Content, UpdateDraft(b, c) PROVE AuditTrail'
    BY <2>2, <2>4, UpdateEffect DEF UpdateDraft, UserFacing, IndInv
  <2>5. ASSUME NEW b \in UserFacing, DeleteDraft(b) PROVE AuditTrail'
    BY <2>2, <2>5, DeleteEffect DEF DeleteDraft, UserFacing, IndInv
  <2>6. ASSUME NEW b \in UserFacing, NEW c \in Content, AdjustBatch(b, c) PROVE AuditTrail'
    <3>1. PICK m, n, key : m = Len(rows) + 1 /\ n = Len(rows) + 2 /\ key = AdjustmentKey(b, c)
      OBVIOUS
    <3>2. b \in DOMAIN rows
      BY DEF UserFacing
    <3>3. /\ DOMAIN rows' = DOMAIN rows \cup {m, n}
          /\ \A x \in DOMAIN rows \ {b} : rows'[x] = rows[x]
          /\ rows'[b] = [rows[b] EXCEPT !.audit = rows[b].audit \cup {"update"}]
          /\ rows'[m] = ReversalRow(b, key) /\ rows'[n] = RevisedRow(b, c, key, m)
      BY <2>6, <3>1, <3>2, AdjustEffect DEF IndInv
    <3>4. rows[b] \in Row
      BY <3>2, Table DEF IndInv
    <3>5. ASSUME NEW x \in DOMAIN rows
          PROVE  /\ rows'[x].status = rows[x].status /\ rows'[x].createdBy = rows[x].createdBy
                 /\ rows'[x].supersedes = rows[x].supersedes
                 /\ rows[x].audit \subseteq rows'[x].audit
      BY <3>3, <3>4 DEF Row
    <3>6. "update" \in rows'[b].audit
      BY <3>3, <3>4 DEF Row
    <3>7. /\ rows'[m].status = "posted" /\ "post" \in rows'[m].audit
          /\ rows'[m].supersedes = None
      BY <3>3 DEF ReversalRow, PlainRow
    <3>8. /\ rows'[n].status = "posted" /\ "post" \in rows'[n].audit
          /\ rows'[n].supersedes = b
      BY <3>3 DEF RevisedRow, PlainRow
    <3> QED  BY <3>3, <3>5, <3>6, <3>7, <3>8, ParentInTable DEF AuditTrail
  <2>7. ASSUME NEW b \in UserFacing, NEW c \in Content, RepeatAdjust(b, c) PROVE AuditTrail'
    BY <2>7 DEF RepeatAdjust, AuditTrail
  <2>8. ASSUME NEW b \in UserFacing, VoidLifecycle(b) PROVE AuditTrail'
    <3>1. PICK S : rows' = Voided(S)
      BY <2>8 DEF VoidLifecycle
    <3>2. /\ Kept
          /\ \A x \in DOMAIN rows :
               IF x \in S /\ rows[x].status = "posted"
                 THEN rows'[x].status = "voided"
                      /\ rows'[x].audit = rows[x].audit \cup {"void"}
                 ELSE rows'[x] = rows[x]
      BY <3>1, VoidEffect DEF IndInv
    <3>3. Logged
      BY <3>2 DEF Logged
    <3> QED  BY <3>3, LoggedAudit
  <2>9. CASE UNCHANGED vars
    BY <2>9 DEF vars, AuditTrail
  <2> QED  BY <2>1, <2>3, <2>4, <2>5, <2>6, <2>7, <2>8, <2>9 DEF Next
<1> QED  BY <1>1, <1>2, Invariance, PTL DEF Spec
=============================================================================
