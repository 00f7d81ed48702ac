----------------------------- MODULE KevinProofs -----------------------------
(***************************************************************************)
(* Machine-checked proofs about the Time Machine and Kevin, for any number *)
(* of requests, checkpoints, journals and statements: whatever is restored *)
(* while requests are on their way, the tables fit together.               *)
(***************************************************************************)
EXTENDS Kevin, StatementProofs

(* The inductive invariant *)

\* A row that points back does so within the table, at a batch that shares its fate
\* and is no reversal.
PointsBack(table, b) ==
  /\ table[b].supersedes # None => table[b].originalBatchId = table[b].supersedes
  /\ table[b].sourceType = "adjustment_reversal" => table[b].supersedes = None
  /\ table[b].originalBatchId # None =>
       LET original == table[table[b].originalBatchId]
       IN  /\ table[b].supersedes # None \/ table[b].sourceType = "adjustment_reversal"
           /\ table[b].originalBatchId \in DOMAIN table
           /\ original.sourceType # "adjustment_reversal"
           /\ original.status = table[b].status /\ table[b].status # "draft"

LinesIn(row, accounts) == \A i \in DOMAIN row.content.lines : row.content.lines[i].account \in accounts

\* The journals of the tables p refer to each other and to accounts of the chart.
RowsIntact(p) ==
  /\ p.rows \in Seq(Row) /\ Len(p.rows) <= MaxBatches
  /\ \A b \in DOMAIN p.rows : p.rows[b].status # "deleted" =>
       PointsBack(p.rows, b) /\ LinesIn(p.rows[b], p.chart)

\* The accounts and the batch of a statement line are there.
TxnIntact(p, x) ==
  /\ x.confirmedAccountId \in p.chart \cup {NoAccount}
  /\ \A i \in DOMAIN x.allocations : x.allocations[i].account \in p.chart
  /\ x.journalBatchId # None =>
       /\ x.journalBatchId \in DOMAIN p.rows
       /\ p.rows[x.journalBatchId].sourceType = "import"
       /\ p.rows[x.journalBatchId].status \in {"posted", "voided"}

TxnsIntact(p) ==
  /\ IsFiniteSet(DOMAIN p.txns) /\ DOMAIN p.txns \subseteq TxnId
  /\ p.txns \in [DOMAIN p.txns -> Txn]
  /\ \A t \in DOMAIN p.txns : TxnIntact(p, p.txns[t])

ImportsIntact(p) ==
  /\ p.imports \in [Statement -> SomeImport]
  /\ \A s \in Statement : p.imports[s].linkedAccountId \in p.chart \cup {NoAccount}

\* A recorded action comes after the checkpoint it names, and its journal too.
ActionSound(p, x, before) ==
  /\ x = [type |-> x.type, snapshot |-> x.snapshot, journalBatchId |-> x.journalBatchId]
  /\ x.snapshot \in DOMAIN snapshots /\ x.snapshot < before
  /\ x.journalBatchId # None =>
       /\ x.journalBatchId \in DOMAIN p.rows /\ p.rows[x.journalBatchId].status # "deleted"
       /\ x.journalBatchId \notin DOMAIN snapshots[x.snapshot].payload.rows

ActionsSound(p, before) ==
  /\ IsList(p.actions)
  /\ \A i \in DOMAIN p.actions : ActionSound(p, p.actions[i], before)

\* What the tables p held together is what they hold together now.
Intact(p) == RowsIntact(p) /\ TxnsIntact(p) /\ ImportsIntact(p)

SnapshotsSound ==
  /\ IsList(snapshots)
  /\ \A n \in DOMAIN snapshots :
       /\ Intact(snapshots[n].payload) /\ ActionsSound(snapshots[n].payload, n)
       /\ DOMAIN snapshots[n].payload.rows \subseteq DOMAIN rows

WritesBooks == {"journal", "accounts", "standard_chart"}

IsAsk(a) ==
  a = [pc |-> a.pc, kind |-> a.kind, thread |-> a.thread, content |-> a.content,
       status |-> a.status, snapshot |-> a.snapshot, batch |-> a.batch]

\* What a request has read so far is still good for what it does next.
AskSound(a) ==
  /\ IsAsk(a)
  /\ a.pc = "message" => a.kind \in {"accounts", "standard_chart", "undo", "question"}
  /\ a.pc = "propose" => a.kind = "accounts"
  /\ a.pc \in {"find", "read", "thread_again"} => a.kind = "undo"
  /\ a.pc = "restore" => a.kind \in {"undo", "undo_route"}
  /\ a.kind = "journal" /\ a.pc \in {"checkpoint", "write"} =>
       a.content \in Proposal /\ a.status \in {"draft", "posted"}
  /\ a.pc \in {"write", "record", "read", "restore"}
       \/ (a.pc = "reply" /\ a.kind \in WritesBooks) => a.snapshot \in DOMAIN snapshots
  /\ a.pc \notin {"record", "reply", "done", "refused"} => a.batch = None
  /\ a.batch # None =>
       /\ a.batch \in DOMAIN rows /\ a.snapshot \in DOMAIN snapshots
       /\ a.batch \notin DOMAIN snapshots[a.snapshot].payload.rows

AsksSound == \A r \in Request : r \in DOMAIN asks /\ AskSound(asks[r])

KevinInv ==
  /\ answers \subseteq [batchId : BatchId, reversalBatchId : BatchId,
                        revisedBatchId : BatchId, key : Keys]
  /\ Intact(Payload) /\ ActionsSound(Payload, Len(snapshots) + 1)
  /\ SnapshotsSound /\ AsksSound
-----------------------------------------------------------------------------
(* Sequences *)

LEMMA SeqShape ==
  ASSUME NEW q, IsList(q)
  PROVE  Len(q) \in Nat /\ DOMAIN q = 1 .. Len(q)
BY LenProperties DEF IsList

LEMMA FunctionIsSeq ==
  ASSUME NEW n \in Nat, NEW f, DOMAIN f = 1 .. n, f = [i \in 1 .. n |-> f[i]]
  PROVE  IsList(f)
<1>1. PICK S : S = {f[i] : i \in DOMAIN f}
  OBVIOUS
<1>2. f \in [1 .. n -> S]
  BY <1>1
<1>3. f \in Seq(S)
  BY <1>2, SeqDef
<1> QED BY <1>1, <1>3 DEF IsList

IsAppended(q, e, s) == s = Append(q, e)

HasLast(q, e, s) ==
  /\ IsList(s) /\ Len(s) = Len(q) + 1 /\ Len(q) + 1 \notin DOMAIN q
  /\ DOMAIN s = DOMAIN q \cup {Len(q) + 1}
  /\ \A i \in DOMAIN q : s[i] = q[i]
  /\ s[Len(q) + 1] = e

LEMMA AppendAny ==
  ASSUME NEW q, NEW e, NEW s, IsList(q), IsAppended(q, e, s)
  PROVE  HasLast(q, e, s)
<1>1. PICK S : S = {q[i] : i \in DOMAIN q} \cup {e}
  OBVIOUS
<1>2. PICK n : n = Len(q)
  OBVIOUS
<1>3. n \in Nat /\ DOMAIN q = 1 .. n
  BY <1>2, SeqShape
<1>4. q \in Seq(S)
  <2>1. q \in [1 .. n -> S]
    <3>1. q = [i \in 1 .. n |-> q[i]]
      BY <1>2, LenProperties DEF IsList
    <3> QED BY <1>1, <1>3, <3>1
  <2> QED BY <1>3, <2>1, SeqDef
<1>5. e \in S
  BY <1>1
<1>6. /\ s \in Seq(S) /\ Len(s) = n + 1
      /\ \A i \in 1 .. n : s[i] = q[i]
      /\ s[n + 1] = e
  BY <1>2, <1>4, <1>5, AppendProperties DEF IsAppended
<1>7. DOMAIN s = 1 .. (n + 1) /\ s = [i \in 1 .. (n + 1) |-> s[i]]
  BY <1>6, LenProperties
<1>8. DOMAIN s = DOMAIN q \cup {n + 1} /\ n + 1 \notin DOMAIN q
  BY <1>3, <1>7
<1>9. IsList(s)
  BY <1>3, <1>7, FunctionIsSeq
<1> QED BY <1>2, <1>3, <1>6, <1>8, <1>9 DEF HasLast
-----------------------------------------------------------------------------
(* Steps that leave most tables alone *)

\* No journal that was there is removed.
NoneRemoved ==
  /\ DOMAIN rows \subseteq DOMAIN rows'
  /\ \A b \in DOMAIN rows : rows[b].status # "deleted" => rows'[b].status # "deleted"

\* The postings of statements stay what they are.
PostingsStay ==
  \A b \in DOMAIN rows :
    rows[b].sourceType = "import" /\ rows[b].status \in {"posted", "voided"} =>
      /\ b \in DOMAIN rows' /\ rows'[b].sourceType = "import"
      /\ rows'[b].status \in {"posted", "voided"}

LEMMA RowsSame ==
  ASSUME RowsIntact(Payload), UNCHANGED rows, chart \subseteq chart'
  PROVE  RowsIntact(Payload)' /\ NoneRemoved /\ PostingsStay
<1>1. ASSUME NEW b \in DOMAIN rows, rows[b].status # "deleted"
      PROVE  PointsBack(rows, b)' /\ LinesIn(rows[b], chart)'
  <2>1. PointsBack(rows, b) /\ LinesIn(rows[b], chart)
    BY <1>1 DEF RowsIntact, Payload
  <2> QED BY <2>1 DEF PointsBack, LinesIn
<1>2. RowsIntact(Payload)'
  BY <1>1 DEF RowsIntact, Payload
<1> QED BY <1>2 DEF NoneRemoved, PostingsStay

LEMMA TxnsSame ==
  ASSUME TxnsIntact(Payload), UNCHANGED txns, chart \subseteq chart', PostingsStay
  PROVE  TxnsIntact(Payload)'
<1>1. ASSUME NEW t \in DOMAIN txns PROVE TxnIntact(Payload, txns[t])'
  <2>1. TxnIntact(Payload, txns[t])
    BY DEF TxnsIntact, Payload
  <2> QED BY <2>1 DEF TxnIntact, Payload, PostingsStay
<1> QED BY <1>1 DEF TxnsIntact, Payload

LEMMA ImportsSame ==
  ASSUME ImportsIntact(Payload), UNCHANGED imports, chart \subseteq chart'
  PROVE  ImportsIntact(Payload)'
BY DEF ImportsIntact, Payload

LEMMA ActionsSame ==
  ASSUME ActionsSound(Payload, Len(snapshots) + 1), UNCHANGED <<actions, snapshots>>, NoneRemoved
  PROVE  ActionsSound(Payload, Len(snapshots) + 1)'
<1>1. ASSUME NEW i \in DOMAIN actions
      PROVE  ActionSound(Payload, actions[i], Len(snapshots) + 1)'
  <2>1. ActionSound(Payload, actions[i], Len(snapshots) + 1)
    BY DEF ActionsSound, Payload
  <2> QED BY <2>1 DEF ActionSound, Payload, NoneRemoved
<1> QED BY <1>1 DEF ActionsSound, Payload

LEMMA SnapshotsSame ==
  ASSUME SnapshotsSound, UNCHANGED snapshots, DOMAIN rows \subseteq DOMAIN rows'
  PROVE  SnapshotsSound'
<1>1. ASSUME NEW n \in DOMAIN snapshots
      PROVE  ActionsSound(snapshots[n].payload, n)' /\ Intact(snapshots[n].payload)'
  <2>1. PICK p : p = snapshots[n].payload
    OBVIOUS
  <2>2. Intact(p) /\ ActionsSound(p, n)
    BY <2>1 DEF SnapshotsSound
  <2>3. ActionsSound(p, n)'
    BY <2>2 DEF ActionsSound, ActionSound
  <2>4. snapshots'[n].payload = p
    BY <2>1
  <2> QED BY <2>2, <2>3, <2>4
<1> QED BY <1>1 DEF SnapshotsSound
-----------------------------------------------------------------------------
(* Requests *)

\* What a request holds stays good when tables and checkpoints only grow.
Grown ==
  /\ DOMAIN rows \subseteq DOMAIN rows' /\ DOMAIN snapshots \subseteq DOMAIN snapshots'
  /\ \A n \in DOMAIN snapshots : snapshots'[n] = snapshots[n]

LEMMA AskKept ==
  ASSUME NEW a, AskSound(a), Grown
  PROVE  AskSound(a)'
BY DEF AskSound, Grown

LEMMA AsksSame ==
  ASSUME AsksSound, Grown, UNCHANGED asks
  PROVE  AsksSound'
<1>1. ASSUME NEW r \in Request PROVE r \in DOMAIN asks' /\ AskSound(asks[r])'
  <2>1. PICK a : a = asks[r]
    OBVIOUS
  <2>2. r \in DOMAIN asks /\ AskSound(a) /\ asks'[r] = a
    BY <2>1 DEF AsksSound
  <2>3. AskSound(a)'
    BY <2>2, AskKept
  <2> QED BY <2>2, <2>3
<1> QED BY <1>1 DEF AsksSound

LEMMA AskMoves ==
  ASSUME AsksSound, Grown, NEW r \in Request, NEW a, asks' = [asks EXCEPT ![r] = a], AskSound(a)'
  PROVE  AsksSound'
<1>1. ASSUME NEW q \in Request PROVE q \in DOMAIN asks' /\ AskSound(asks[q])'
  <2>1. PICK old : old = asks[q]
    OBVIOUS
  <2>2. q \in DOMAIN asks /\ AskSound(old)
    BY <2>1 DEF AsksSound
  <2>3. AskSound(old)'
    BY <2>2, AskKept
  <2>4. q \in DOMAIN asks' /\ asks'[q] = IF q = r THEN a ELSE old
    BY <2>1, <2>2
  <2> QED BY <2>3, <2>4
<1> QED BY <1>1 DEF AsksSound

LEMMA SnapshotsShape ==
  ASSUME SnapshotsSound
  PROVE  Len(snapshots) \in Nat /\ DOMAIN snapshots = 1 .. Len(snapshots)
BY SeqShape DEF SnapshotsSound

\* A step that writes nothing but a request or a thread, which nothing here depends on.
Unwritten == UNCHANGED <<rows, imports, txns, chart, actions, answers, snapshots>>

LEMMA UntouchedIs == Untouched => Unwritten
BY DEF Untouched, tables, Unwritten

LEMMA Unwriting ==
  ASSUME KevinInv, Unwritten, AsksSound'
  PROVE  KevinInv'
<1>1. /\ UNCHANGED rows /\ UNCHANGED imports /\ UNCHANGED txns /\ UNCHANGED chart
      /\ UNCHANGED actions /\ UNCHANGED answers /\ UNCHANGED snapshots
  BY DEF Unwritten
<1>2. chart \subseteq chart'
  BY <1>1
<1>3. RowsIntact(Payload)' /\ NoneRemoved /\ PostingsStay
  BY <1>1, <1>2, RowsSame DEF KevinInv, Intact
<1>4. TxnsIntact(Payload)' /\ ImportsIntact(Payload)'
  BY <1>1, <1>2, <1>3, TxnsSame, ImportsSame DEF KevinInv, Intact
<1>5. ActionsSound(Payload, Len(snapshots) + 1)' /\ SnapshotsSound'
  BY <1>1, <1>3, ActionsSame, SnapshotsSame DEF KevinInv
<1> QED BY <1>1, <1>3, <1>4, <1>5 DEF KevinInv, Intact

LEMMA NothingGrows ==
  ASSUME UNCHANGED rows, UNCHANGED snapshots
  PROVE  Grown
BY DEF Grown
-----------------------------------------------------------------------------
(* Journals *)

LEMMA RowsAre ==
  ASSUME KevinInv
  PROVE  /\ TypeOK
         /\ Len(rows) \in 0 .. MaxBatches /\ DOMAIN rows = 1 .. Len(rows)
         /\ DOMAIN rows \subseteq BatchId /\ None \notin DOMAIN rows
         /\ \A b \in DOMAIN rows : rows[b] \in Row
         /\ \A b \in DOMAIN rows : rows[b].status # "deleted" =>
              PointsBack(rows, b) /\ LinesIn(rows[b], chart)
<1>1. TypeOK
  BY DEF KevinInv, Intact, RowsIntact, Payload, TypeOK
<1>2. \A b \in DOMAIN rows : rows[b].status # "deleted" =>
        PointsBack(rows, b) /\ LinesIn(rows[b], chart)
  BY DEF KevinInv, Intact, RowsIntact, Payload
<1>3. None \notin DOMAIN rows
  BY <1>1, Table DEF BatchId, None
<1> QED BY <1>1, <1>2, <1>3, Table

\* A step that adds or changes journals, and nothing else but perhaps a request.
LEMMA RowsMove ==
  ASSUME KevinInv, UNCHANGED <<imports, txns, chart, actions, snapshots>>, TypeOK',
         NoneRemoved, PostingsStay,
         \A b \in DOMAIN rows' : rows'[b].status # "deleted" =>
           PointsBack(rows', b) /\ LinesIn(rows'[b], chart)
  PROVE  AsksSound' => KevinInv'
<1>1. RowsIntact(Payload)'
  BY DEF RowsIntact, Payload, TypeOK
<1>2. chart \subseteq chart'
  OBVIOUS
<1>3. TxnsIntact(Payload)' /\ ImportsIntact(Payload)'
  BY <1>2, TxnsSame, ImportsSame DEF KevinInv, Intact
<1>4. ActionsSound(Payload, Len(snapshots) + 1)' /\ SnapshotsSound'
  BY ActionsSame, SnapshotsSame DEF KevinInv, NoneRemoved
<1> QED BY <1>1, <1>3, <1>4 DEF KevinInv, Intact, TypeOK

\* A new journal on accounts of the chart that refers to no other one.
LEMMA CreatedIntact ==
  ASSUME KevinInv, NEW c \in Submitted, NEW st \in {"draft", "posted"},
         NEW k \in SourceKey \cup {NoSource}, NEW u \in BOOLEAN, CreateBatch(c, st, k, u),
         \A i \in DOMAIN c.lines : c.lines[i].account \in chart
  PROVE  /\ TypeOK' /\ NoneRemoved /\ PostingsStay
         /\ \A b \in DOMAIN rows' : rows'[b].status # "deleted" =>
              PointsBack(rows', b) /\ LinesIn(rows'[b], chart)
         /\ DOMAIN rows' = DOMAIN rows \cup {Len(rows) + 1}
         /\ Len(rows) + 1 \in BatchId \ DOMAIN rows
         /\ rows'[Len(rows) + 1] = PlainRow(c, st, k, u)
<1>1. PICK n : n = Len(rows) + 1
  OBVIOUS
<1>2. /\ rows' \in Seq(Row) /\ Len(rows') = n /\ Len(rows') <= MaxBatches
      /\ DOMAIN rows' = DOMAIN rows \cup {n}
      /\ \A x \in DOMAIN rows : rows'[x] = rows[x]
      /\ rows'[n] = PlainRow(c, st, k, u)
  BY <1>1, RowsAre, SubmittedEffect
<1>3. n \in BatchId \ DOMAIN rows
  <2>1. Len(rows) \in 0 .. MaxBatches /\ DOMAIN rows = 1 .. Len(rows) /\ MaxBatches \in Nat
    BY RowsAre, JournalAssumption
  <2> QED BY <1>1, <1>2, <2>1 DEF BatchId
<1>4. TypeOK'
  BY <1>2, RowsAre DEF TypeOK, CreateBatch
<1>5. NoneRemoved /\ PostingsStay
  BY <1>2 DEF NoneRemoved, PostingsStay
<1>6. ASSUME NEW b \in DOMAIN rows', rows'[b].status # "deleted"
      PROVE  PointsBack(rows', b) /\ LinesIn(rows'[b], chart)
  <2>1. CASE b = n
    <3>1. /\ rows'[b].supersedes = None /\ rows'[b].originalBatchId = None
          /\ rows'[b].sourceType # "adjustment_reversal" /\ rows'[b].content = c
      BY <1>2, <2>1 DEF PlainRow
    <3> QED BY <3>1 DEF PointsBack, LinesIn
  <2>2. CASE b \in DOMAIN rows
    <3>1. rows'[b] = rows[b] /\ PointsBack(rows, b) /\ LinesIn(rows[b], chart)
      BY <1>2, <1>6, <2>2, RowsAre
    <3>2. rows[b].originalBatchId # None => rows[b].originalBatchId \in DOMAIN rows
      BY <3>1 DEF PointsBack
    <3>3. rows[b].originalBatchId # None =>
            rows'[rows[b].originalBatchId] = rows[rows[b].originalBatchId]
      BY <1>2, <3>2
    <3>4. PointsBack(rows', b)
      BY <1>2, <3>1, <3>2, <3>3 DEF PointsBack
    <3> QED BY <3>1, <3>4
  <2> QED BY <1>2, <1>6, <2>1, <2>2
<1> QED BY <1>1, <1>2, <1>3, <1>4, <1>5, <1>6

LEMMA DraftStepIntact ==
  ASSUME KevinInv, NEW b \in DOMAIN rows, rows[b].status = "draft", DraftStep(b),
         UNCHANGED <<answers, chart>>, rows'[b].content = rows[b].content,
         rows'[b].status \in {"posted", "deleted"}
  PROVE  /\ TypeOK' /\ PostingsStay /\ DOMAIN rows' = DOMAIN rows
         /\ rows'[b].status # "deleted" => NoneRemoved
         /\ \A x \in DOMAIN rows' : rows'[x].status # "deleted" =>
              PointsBack(rows', x) /\ LinesIn(rows'[x], chart)
<1>1. TypeOK'
  BY RowsAre DEF DraftStep, TypeOK
<1>2. /\ DOMAIN rows' = DOMAIN rows /\ Kept
      /\ \A x \in DOMAIN rows \ {b} : rows'[x] = rows[x]
  BY DEF DraftStep, Kept
<1>3. PostingsStay
  BY <1>2 DEF PostingsStay
<1>4. rows'[b].status # "deleted" => NoneRemoved
  BY <1>2 DEF NoneRemoved
<1>5. ASSUME NEW x \in DOMAIN rows, rows'[x].status # "deleted"
      PROVE  PointsBack(rows', x) /\ LinesIn(rows'[x], chart)
  <2>1. /\ rows[x].status # "deleted" /\ rows'[x].content = rows[x].content
        /\ rows'[x].supersedes = rows[x].supersedes
        /\ rows'[x].originalBatchId = rows[x].originalBatchId
        /\ rows'[x].sourceType = rows[x].sourceType
    BY <1>2, <1>5 DEF Kept
  <2>2. PointsBack(rows, x) /\ LinesIn(rows[x], chart)
    BY <2>1, RowsAre
  <2>3. CASE rows[x].originalBatchId = None
    BY <2>1, <2>2, <2>3 DEF PointsBack, LinesIn
  <2>4. CASE rows[x].originalBatchId # None
    <3>1. PICK o : o = rows[x].originalBatchId
      OBVIOUS
    <3>2. /\ o \in DOMAIN rows /\ rows[o].status = rows[x].status /\ rows[x].status # "draft"
          /\ rows[o].sourceType # "adjustment_reversal"
      BY <2>2, <2>4, <3>1 DEF PointsBack
    <3>3. rows'[o] = rows[o] /\ rows'[x] = rows[x]
      BY <1>2, <3>2
    <3> QED BY <1>2, <2>2, <3>1, <3>2, <3>3 DEF PointsBack
  <2> QED BY <2>3, <2>4
<1> QED BY <1>1, <1>2, <1>3, <1>4, <1>5

\* The root of a journal that is there and no reversal is no reversal either, though
\* journals that a restoration removed may hang below it.
LEMMA RootNoReversal ==
  ASSUME KevinInv, NEW r \in DOMAIN rows, NEW b \in Descendants(r),
         rows[b].status # "deleted", rows[b].sourceType # "adjustment_reversal"
  PROVE  rows[r].sourceType # "adjustment_reversal"
<1> SUFFICES ASSUME rows[r].sourceType = "adjustment_reversal" PROVE FALSE
  OBVIOUS
<1>1. PICK S : S = {d \in DOMAIN rows : d = r \/ rows[d].status = "deleted"}
  OBVIOUS
<1>2. ChildrenOf(S) \subseteq S
  <2> SUFFICES ASSUME NEW c \in ChildrenOf(S), rows[c].status # "deleted" PROVE FALSE
    BY <1>1 DEF ChildrenOf
  <2>1. PICK o : o = rows[c].supersedes
    OBVIOUS
  <2>2. c \in DOMAIN rows /\ o \in S /\ o # None
    BY <1>1, <2>1, RowsAre DEF ChildrenOf
  <2>3. PointsBack(rows, c)
    BY <2>2, RowsAre
  <2>4. rows[o].status = rows[c].status /\ rows[o].sourceType # "adjustment_reversal"
    BY <2>1, <2>2, <2>3 DEF PointsBack
  <2> QED BY <1>1, <2>2, <2>4
<1>3. S \in SUBSET DOMAIN rows /\ r \in S
  BY <1>1
<1>4. b \in S
  BY <1>2, <1>3 DEF Descendants
<1> QED BY <1>1, <1>4

\* A lifecycle holds a journal that is there exactly when it holds what it was made from.
LEMMA BothOrNone ==
  ASSUME KevinInv, NEW b \in UserFacing, NEW r \in DOMAIN rows, IsRootOf(r, b),
         NEW x \in DOMAIN rows, rows[x].status # "deleted", rows[x].originalBatchId # None
  PROVE  x \in LifecycleOf(r) <=> rows[x].originalBatchId \in LifecycleOf(r)
<1>1. PICK D, o : D = Descendants(r) /\ o = rows[x].originalBatchId
  OBVIOUS
<1>2. /\ rows[r].supersedes = None /\ rows[r].sourceType # "adjustment_reversal"
      /\ r \in D /\ D \subseteq DOMAIN rows
  BY <1>1, RootNoReversal, DescendantsClosed DEF IsRootOf, UserFacing, Descendants
<1>3. /\ o \in DOMAIN rows /\ rows[o].sourceType # "adjustment_reversal"
      /\ \/ rows[x].supersedes = o /\ rows[x].sourceType # "adjustment_reversal"
         \/ rows[x].supersedes = None /\ rows[x].sourceType = "adjustment_reversal"
  <2>1. PointsBack(rows, x)
    BY RowsAre
  <2> QED BY <1>1, <2>1 DEF PointsBack
<1>4. LifecycleOf(r) = D \cup ReversalsOf(D)
  BY <1>1 DEF LifecycleOf
<1>5. ASSUME o \in LifecycleOf(r) PROVE x \in LifecycleOf(r)
  <2>1. o \in D
    BY <1>3, <1>4, <1>5 DEF ReversalsOf
  <2>2. CASE rows[x].supersedes = o
    <3>1. x \in ChildrenOf(D)
      BY <2>1, <2>2 DEF ChildrenOf
    <3> QED BY <1>1, <1>4, <3>1, DescendantsClosed
  <2>3. CASE rows[x].sourceType = "adjustment_reversal"
    BY <1>1, <1>4, <2>1, <2>3 DEF ReversalsOf
  <2> QED BY <1>3, <2>2, <2>3
<1>6. ASSUME x \in LifecycleOf(r) PROVE o \in LifecycleOf(r)
  <2>1. CASE x \in ReversalsOf(D)
    BY <1>1, <1>4, <2>1 DEF ReversalsOf
  <2>2. CASE x \in D /\ x = r
    <3>1. FALSE
      <4>1. o # None
        BY <1>1
      <4> QED BY <1>2, <1>3, <2>2, <4>1
    <3> QED BY <3>1
  <2>3. CASE x \in D /\ x # r
    <3>1. rows[x].supersedes \in D
      BY <1>1, <2>3, ParentInDescendants
    <3>2. rows[x].supersedes # None
      BY <1>2, <3>1, RowsAre
    <3> QED BY <1>3, <1>4, <3>1, <3>2
  <2> QED BY <1>4, <1>6, <2>1, <2>2, <2>3
<1> QED BY <1>1, <1>5, <1>6

LEMMA VoidIntact ==
  ASSUME KevinInv, NEW L, VoidStep(L), UNCHANGED <<answers, chart>>,
         \A x \in DOMAIN rows : rows[x].status # "deleted" /\ rows[x].originalBatchId # None =>
           (x \in L <=> rows[x].originalBatchId \in L)
  PROVE  /\ TypeOK' /\ NoneRemoved /\ PostingsStay /\ DOMAIN rows' = DOMAIN rows
         /\ \A x \in DOMAIN rows' : rows'[x].status # "deleted" =>
              PointsBack(rows', x) /\ LinesIn(rows'[x], chart)
<1>1. TypeOK'
  BY RowsAre DEF VoidStep, TypeOK
<1>2. /\ DOMAIN rows' = DOMAIN rows
      /\ \A x \in DOMAIN rows :
           /\ rows'[x].content = rows[x].content
           /\ rows'[x].supersedes = rows[x].supersedes
           /\ rows'[x].originalBatchId = rows[x].originalBatchId
           /\ rows'[x].sourceType = rows[x].sourceType
           /\ rows'[x].status = IF x \in L /\ rows[x].status = "posted" THEN "voided"
                                ELSE rows[x].status
  BY DEF VoidStep, Kept
<1>3. NoneRemoved /\ PostingsStay
  BY <1>2 DEF NoneRemoved, PostingsStay
<1>4. ASSUME NEW x \in DOMAIN rows, rows'[x].status # "deleted"
      PROVE  PointsBack(rows', x) /\ LinesIn(rows'[x], chart)
  <2>1. rows[x].status # "deleted"
    BY <1>2, <1>4
  <2>2. PointsBack(rows, x) /\ LinesIn(rows[x], chart)
    BY <2>1, RowsAre
  <2>3. CASE rows[x].originalBatchId = None
    BY <1>2, <2>2, <2>3 DEF PointsBack, LinesIn
  <2>4. CASE rows[x].originalBatchId # None
    <3>1. PICK o : o = rows[x].originalBatchId
      OBVIOUS
    <3>2. /\ o \in DOMAIN rows /\ rows[o].status = rows[x].status /\ rows[x].status # "draft"
          /\ rows[o].sourceType # "adjustment_reversal" /\ (x \in L <=> o \in L)
      BY <2>1, <2>2, <2>4, <3>1 DEF PointsBack
    <3>3. rows'[o].status = rows'[x].status /\ rows'[x].status # "draft"
      BY <1>2, <3>2
    <3> QED BY <1>2, <2>2, <3>1, <3>2, <3>3 DEF PointsBack, LinesIn
  <2> QED BY <2>3, <2>4
<1> QED BY <1>1, <1>2, <1>3, <1>4

LEMMA AdjustedIntact ==
  ASSUME KevinInv, NEW b \in UserFacing, NEW c \in Content, InChart(c), AdjustBatch(b, c),
         UNCHANGED chart
  PROVE  /\ TypeOK' /\ NoneRemoved /\ PostingsStay
         /\ \A x \in DOMAIN rows' : rows'[x].status # "deleted" =>
              PointsBack(rows', x) /\ LinesIn(rows'[x], chart)
<1>1. b \in DOMAIN rows /\ rows[b].status = "posted" /\ rows[b].sourceType # "adjustment_reversal"
  BY DEF UserFacing, AdjustBatch, Adjustable
<1>2. PICK m, n, key : m = Len(rows) + 1 /\ n = Len(rows) + 2 /\ key = AdjustmentKey(b, c)
  OBVIOUS
<1>3. /\ rows' \in Seq(Row) /\ Len(rows') <= MaxBatches
      /\ DOMAIN rows' = DOMAIN rows \cup {m, n}
      /\ \A x \in DOMAIN rows \ {b} : rows'[x] = rows[x]
      /\ rows'[b] = [rows[b] EXCEPT !.audit = rows[b].audit \cup {"update"}]
      /\ rows'[m] = ReversalRow(b, key) /\ rows'[n] = RevisedRow(b, c, key, m)
  BY <1>1, <1>2, RowsAre, AdjustEffect
<1>4. /\ m \notin DOMAIN rows /\ n \notin DOMAIN rows /\ m # n
      /\ m \in BatchId /\ n \in BatchId /\ b \in BatchId
  <2>1. Len(rows) \in 0 .. MaxBatches /\ DOMAIN rows = 1 .. Len(rows) /\ MaxBatches \in Nat
    BY RowsAre, JournalAssumption
  <2>2. Len(rows) + 2 <= MaxBatches
    BY DEF AdjustBatch
  <2> QED BY <1>1, <1>2, <2>1, <2>2 DEF BatchId
<1>5. TypeOK'
  <2>1. answers' = answers \cup {Answer(b, key, m, n)}
    BY <1>2 DEF AdjustBatch
  <2>2. key \in Keys
    BY <1>2, <1>4 DEF Keys
  <2>3. Answer(b, key, m, n) \in [batchId : BatchId, reversalBatchId : BatchId,
                                  revisedBatchId : BatchId, key : Keys]
    BY <1>4, <2>2 DEF Answer
  <2>4. answers \subseteq [batchId : BatchId, reversalBatchId : BatchId,
                           revisedBatchId : BatchId, key : Keys]
    BY DEF KevinInv
  <2> QED BY <1>3, <2>1, <2>3, <2>4 DEF TypeOK
<1>6. \A x \in DOMAIN rows :
        /\ rows'[x].sourceType = rows[x].sourceType /\ rows'[x].status = rows[x].status
        /\ rows'[x].supersedes = rows[x].supersedes
        /\ rows'[x].originalBatchId = rows[x].originalBatchId
        /\ rows'[x].content = rows[x].content
  <2>1. rows[b] \in Row
    BY <1>1, RowsAre
  <2>2. /\ rows'[b].sourceType = rows[b].sourceType /\ rows'[b].status = rows[b].status
        /\ rows'[b].supersedes = rows[b].supersedes
        /\ rows'[b].originalBatchId = rows[b].originalBatchId
        /\ rows'[b].content = rows[b].content
    BY <1>3, <2>1 DEF Row
  <2> QED BY <1>3, <2>2
<1>7. NoneRemoved /\ PostingsStay
  BY <1>3, <1>6 DEF NoneRemoved, PostingsStay
<1>8. ASSUME NEW x \in DOMAIN rows', rows'[x].status # "deleted"
      PROVE  PointsBack(rows', x) /\ LinesIn(rows'[x], chart)
  <2>1. CASE x = m
    <3>1. /\ rows'[x].status = "posted" /\ rows'[x].sourceType = "adjustment_reversal"
          /\ rows'[x].supersedes = None /\ rows'[x].originalBatchId = b
          /\ rows'[x].content.lines = BuildReversalLines(rows[b].content.lines)
      BY <1>3, <2>1, ReversalRowFields
    <3>2. LinesIn(rows[b], chart)
      BY <1>1, RowsAre
    <3>3. LinesIn(rows'[x], chart)
      <4>1. rows[b].content.lines \in Seq(StoredLine)
        BY <1>1, RowsAre DEF Row
      <4>2. PICK ls : ls = rows[b].content.lines
        OBVIOUS
      <4>3. \A i \in DOMAIN ls : ls[i].account \in chart
        BY <3>2, <4>2 DEF LinesIn
      <4>4. DOMAIN BuildReversalLines(ls) = DOMAIN ls
        BY DEF BuildReversalLines
      <4>5. \A i \in DOMAIN ls : BuildReversalLines(ls)[i].account \in chart
        <5> TAKE i \in DOMAIN ls
        <5>1. ls[i] \in StoredLine
          BY <4>1, <4>2, SeqElements
        <5> QED BY <4>3, <5>1 DEF BuildReversalLines, StoredLine, Line
      <4> QED BY <3>1, <4>2, <4>4, <4>5 DEF LinesIn
    <3>4. PointsBack(rows', x)
      BY <1>1, <1>3, <1>6, <3>1 DEF PointsBack
    <3> QED BY <3>3, <3>4
  <2>2. CASE x = n
    <3>1. /\ rows'[x].status = "posted" /\ rows'[x].sourceType = "adjustment"
          /\ rows'[x].supersedes = b /\ rows'[x].originalBatchId = b
          /\ rows'[x].content = c
      BY <1>3, <2>2, RevisedRowFields
    <3>2. PointsBack(rows', x)
      BY <1>1, <1>3, <1>6, <3>1 DEF PointsBack
    <3> QED BY <3>1, <3>2 DEF LinesIn, InChart
  <2>3. CASE x \in DOMAIN rows
    <3>1. rows[x].status # "deleted"
      BY <1>6, <1>8, <2>3
    <3>2. PointsBack(rows, x) /\ LinesIn(rows[x], chart)
      BY <2>3, <3>1, RowsAre
    <3>3. rows[x].originalBatchId # None => rows[x].originalBatchId \in DOMAIN rows
      BY <3>2 DEF PointsBack
    <3>4. PointsBack(rows', x)
      BY <1>3, <1>6, <2>3, <3>2, <3>3 DEF PointsBack
    <3>5. LinesIn(rows'[x], chart)
      BY <1>6, <2>3, <3>2 DEF LinesIn
    <3> QED BY <3>4, <3>5
  <2> QED BY <1>3, <2>1, <2>2, <2>3
<1> QED BY <1>5, <1>7, <1>8
-----------------------------------------------------------------------------
(* What the user does to journals *)

LEMMA AsksStay ==
  ASSUME KevinInv, UNCHANGED <<asks, snapshots>>, DOMAIN rows \subseteq DOMAIN rows'
  PROVE  AsksSound'
<1>1. Grown
  BY DEF Grown
<1> QED BY <1>1, AsksSame DEF KevinInv

LEMMA RowsMoveAlone ==
  ASSUME KevinInv, UNCHANGED <<imports, txns, chart, actions, snapshots>>, UNCHANGED asks,
         TypeOK', NoneRemoved, PostingsStay,
         \A b \in DOMAIN rows' : rows'[b].status # "deleted" =>
           PointsBack(rows', b) /\ LinesIn(rows'[b], chart)
  PROVE  KevinInv'
<1>1. AsksSound'
  BY AsksStay DEF NoneRemoved
<1> QED BY <1>1, RowsMove

LEMMA PostBatchKeeps ==
  ASSUME KevinInv, NEW b \in UserFacing, PostBatch(b),
         UNCHANGED <<imports, txns, chart, actions, snapshots>>, UNCHANGED asks
  PROVE  KevinInv'
<1>1. b \in DOMAIN rows /\ rows[b].status = "draft" /\ UNCHANGED <<answers, chart>>
  BY DEF UserFacing, PostBatch
<1>2. DraftStep(b) /\ rows'[b].status = "posted" /\ rows'[b].content = rows[b].content
  BY <1>1, RowsAre, PostEffect
<1> QED BY <1>1, <1>2, DraftStepIntact, RowsMoveAlone

LEMMA VoidKeeps ==
  ASSUME KevinInv, NEW b \in UserFacing, VoidLifecycle(b),
         UNCHANGED <<imports, txns, chart, actions, snapshots>>, UNCHANGED asks
  PROVE  KevinInv'
<1>1. PICK r \in DOMAIN rows : IsRootOf(r, b) /\ rows' = Voided(LifecycleOf(r))
  BY DEF VoidLifecycle
<1>2. PICK L : L = LifecycleOf(r)
  OBVIOUS
<1>3. VoidStep(L)
  BY <1>1, <1>2, RowsAre, VoidedStep
<1>4. \A x \in DOMAIN rows : rows[x].status # "deleted" /\ rows[x].originalBatchId # None =>
        (x \in L <=> rows[x].originalBatchId \in L)
  BY <1>1, <1>2, BothOrNone
<1>5. UNCHANGED <<answers, chart>>
  BY DEF VoidLifecycle
<1> QED BY <1>3, <1>4, <1>5, VoidIntact, RowsMoveAlone

LEMMA AdjustmentKeeps ==
  ASSUME KevinInv, NEW b \in UserFacing, NEW c \in Content, InChart(c), AdjustBatch(b, c),
         UNCHANGED <<imports, txns, chart, actions, snapshots>>, UNCHANGED asks
  PROVE  KevinInv'
BY AdjustedIntact, RowsMoveAlone

\* Kevin's action lets go of a draft that the user deletes.
LEMMA DeleteDraftKeeps ==
  ASSUME KevinInv, NEW b \in UserFacing, DeleteDraft(b), actions' = Detached(b),
         UNCHANGED <<imports, txns, chart, snapshots>>, UNCHANGED asks
  PROVE  KevinInv'
<1>1. b \in DOMAIN rows /\ rows[b].status = "draft" /\ UNCHANGED <<answers, chart>>
  BY DEF UserFacing, DeleteDraft
<1>2. /\ DraftStep(b) /\ rows'[b].status = "deleted" /\ rows'[b].content = rows[b].content
  BY <1>1, RowsAre, DeleteEffect
<1>3. /\ TypeOK' /\ PostingsStay /\ DOMAIN rows' = DOMAIN rows
      /\ \A x \in DOMAIN rows' : rows'[x].status # "deleted" =>
           PointsBack(rows', x) /\ LinesIn(rows'[x], chart)
  BY <1>1, <1>2, DraftStepIntact
<1>4. chart \subseteq chart'
  OBVIOUS
<1>5. RowsIntact(Payload)'
  BY <1>3 DEF RowsIntact, Payload, TypeOK
<1>6. TxnsIntact(Payload)' /\ ImportsIntact(Payload)'
  BY <1>3, <1>4, TxnsSame, ImportsSame DEF KevinInv, Intact
<1>7. SnapshotsSound' /\ AsksSound'
  BY <1>3, SnapshotsSame, AsksStay DEF KevinInv
<1>8. ActionsSound(Payload, Len(snapshots) + 1)'
  <2>1. /\ IsList(actions)
        /\ \A i \in DOMAIN actions : ActionSound(Payload, actions[i], Len(snapshots) + 1)
    BY DEF KevinInv, ActionsSound, Payload
  <2>2. /\ DOMAIN actions' = DOMAIN actions
        /\ \A i \in DOMAIN actions :
             actions'[i] = IF actions[i].journalBatchId = b
                           THEN [actions[i] EXCEPT !.journalBatchId = None] ELSE actions[i]
        /\ actions' = [i \in DOMAIN actions |-> actions'[i]]
    BY DEF Detached
  <2>3. IsList(actions')
    <3>1. Len(actions) \in Nat /\ DOMAIN actions = 1 .. Len(actions)
      BY <2>1, SeqShape
    <3>2. PICK f : f = actions'
      OBVIOUS
    <3>3. IsList(f)
      BY <2>2, <3>1, <3>2, FunctionIsSeq
    <3> QED BY <3>2, <3>3
  <2>4. ASSUME NEW i \in DOMAIN actions
        PROVE  ActionSound(Payload, actions[i], Len(snapshots) + 1)'
    <3>1. PICK x, y : x = actions[i] /\ y = actions'[i]
      OBVIOUS
    <3>2. ActionSound(Payload, x, Len(snapshots) + 1)
      BY <2>1, <3>1
    <3>3. CASE x.journalBatchId = b
      <4>1. y = [x EXCEPT !.journalBatchId = None]
        BY <2>2, <3>1, <3>3
      <4>2. y = [type |-> y.type, snapshot |-> y.snapshot, journalBatchId |-> y.journalBatchId]
            /\ y.snapshot = x.snapshot /\ y.journalBatchId = None
        BY <3>2, <4>1 DEF ActionSound
      <4> QED BY <3>1, <3>2, <4>2 DEF ActionSound
    <3>4. CASE x.journalBatchId # b
      <4>1. y = x
        BY <2>2, <3>1, <3>4
      <4>2. \A j \in DOMAIN rows \ {b} : rows'[j] = rows[j]
        BY <1>2 DEF DraftStep
      <4> QED BY <1>3, <3>1, <3>2, <3>4, <4>1, <4>2 DEF ActionSound, Payload
    <3> QED BY <3>3, <3>4
  <2> QED BY <2>2, <2>3, <2>4 DEF ActionsSound, Payload
<1> QED BY <1>3, <1>5, <1>6, <1>7, <1>8 DEF KevinInv, Intact, TypeOK

LEMMA UserOnJournalsKeeps ==
  ASSUME KevinInv, UserOnJournals, UNCHANGED asks
  PROVE  KevinInv'
<1>1. PICK b \in UserFacing :
        \/ PostBatch(b) /\ UNCHANGED actions
        \/ VoidLifecycle(b) /\ UNCHANGED actions
        \/ (\E c \in Content : InChart(c) /\ AdjustBatch(b, c)) /\ UNCHANGED actions
        \/ DeleteDraft(b) /\ actions' = Detached(b)
  BY DEF UserOnJournals
<1>2. UNCHANGED <<imports, txns, chart, snapshots>>
  BY DEF UserOnJournals
<1>3. CASE PostBatch(b) /\ UNCHANGED actions
  BY <1>2, <1>3, PostBatchKeeps
<1>4. CASE VoidLifecycle(b) /\ UNCHANGED actions
  BY <1>2, <1>4, VoidKeeps
<1>5. ASSUME NEW c \in Content, InChart(c), AdjustBatch(b, c), UNCHANGED actions
      PROVE  KevinInv'
  BY <1>2, <1>5, AdjustmentKeeps
<1>6. CASE DeleteDraft(b) /\ actions' = Detached(b)
  BY <1>2, <1>6, DeleteDraftKeeps
<1> QED BY <1>1, <1>3, <1>4, <1>5, <1>6
-----------------------------------------------------------------------------
(* What a request does without writing to the books *)

LEMMA AskIs ==
  ASSUME KevinInv, NEW r \in Request
  PROVE  r \in DOMAIN asks /\ AskSound(asks[r])
BY DEF KevinInv, AsksSound

\* A request moves on and everything else stays.
LEMMA AskMovesAlone ==
  ASSUME KevinInv, Unwritten, NEW r \in Request, NEW a, asks' = [asks EXCEPT ![r] = a],
         AskSound(a)
  PROVE  KevinInv'
<1>1. UNCHANGED rows /\ UNCHANGED snapshots
  BY DEF Unwritten
<1>2. Grown
  BY <1>1, NothingGrows
<1>3. AskSound(a)'
  BY <1>2, AskKept
<1>4. AsksSound'
  BY <1>2, <1>3, AskMoves DEF KevinInv
<1> QED BY <1>4, Unwriting

LEMMA GoneTo ==
  ASSUME KevinInv, NEW r \in Request, NEW pc, AskGoesTo(r, pc)
  PROVE  \E a : /\ asks' = [asks EXCEPT ![r] = a] /\ IsAsk(a) /\ a.pc = pc
                /\ a.kind = asks[r].kind /\ a.thread = asks[r].thread
                /\ a.content = asks[r].content /\ a.status = asks[r].status
                /\ a.snapshot = asks[r].snapshot /\ a.batch = asks[r].batch
<1>1. PICK x : x = asks[r]
  OBVIOUS
<1>2. IsAsk(x)
  BY <1>1, AskIs DEF AskSound
<1>3. PICK a : a = [x EXCEPT !.pc = pc]
  OBVIOUS
<1>4. asks' = [asks EXCEPT ![r] = a]
  BY <1>1, <1>3 DEF AskGoesTo
<1>5. /\ IsAsk(a) /\ a.pc = pc /\ a.kind = x.kind /\ a.thread = x.thread
      /\ a.content = x.content /\ a.status = x.status
      /\ a.snapshot = x.snapshot /\ a.batch = x.batch
  BY <1>2, <1>3 DEF IsAsk
<1> QED BY <1>1, <1>4, <1>5

LEMMA OpenPageKeeps ==
  ASSUME KevinInv, NEW r \in Request, OpenPage(r)
  PROVE  KevinInv'
<1>1. PICK th : asks' = [asks EXCEPT ![r].pc = "page", ![r].thread = th]
  BY DEF OpenPage
<1>2. PICK x, a : x = asks[r] /\ a = [asks[r] EXCEPT !.pc = "page", !.thread = th]
  OBVIOUS
<1>3. AskSound(x) /\ x.pc = "idle"
  BY <1>2, AskIs DEF OpenPage, AskAt
<1>4. IsAsk(a) /\ a.pc = "page" /\ a.batch = None
  BY <1>2, <1>3 DEF AskSound, IsAsk
<1>5. AskSound(a)
  BY <1>4 DEF AskSound
<1>6. asks' = [asks EXCEPT ![r] = a]
  BY <1>1, <1>2
<1> QED BY <1>5, <1>6, UntouchedIs, AskMovesAlone DEF OpenPage

LEMMA SendJournalKeeps ==
  ASSUME KevinInv, NEW r \in Request, NEW c \in Proposal, NEW st \in {"draft", "posted"},
         SendJournal(r, c, st)
  PROVE  KevinInv'
<1>1. PICK x, a : x = asks[r] /\ a = [asks[r] EXCEPT !.pc = "checkpoint", !.kind = "journal",
                                                     !.content = c, !.status = st]
  OBVIOUS
<1>2. AskSound(x) /\ x.pc = "page"
  BY <1>1, AskIs DEF SendJournal, AskAt
<1>3. /\ IsAsk(a) /\ a.pc = "checkpoint" /\ a.kind = "journal" /\ a.content = c
      /\ a.status = st /\ a.batch = None
  BY <1>1, <1>2 DEF AskSound, IsAsk
<1>4. AskSound(a)
  BY <1>3 DEF AskSound
<1>5. asks' = [asks EXCEPT ![r] = a]
  BY <1>1 DEF SendJournal
<1> QED BY <1>4, <1>5, UntouchedIs, AskMovesAlone DEF SendJournal

LEMMA SendUndoKeeps ==
  ASSUME KevinInv, NEW r \in Request, NEW i \in DOMAIN actions, SendUndo(r, i)
  PROVE  KevinInv'
<1>1. PICK n : n = actions[i].snapshot
  OBVIOUS
<1>2. n \in DOMAIN snapshots
  BY <1>1 DEF KevinInv, ActionsSound, ActionSound, Payload
<1>3. PICK x, a : x = asks[r] /\ a = [asks[r] EXCEPT !.pc = "restore", !.kind = "undo_route",
                                                     !.snapshot = n]
  OBVIOUS
<1>4. AskSound(x) /\ x.pc = "page"
  BY <1>3, AskIs DEF SendUndo, AskAt
<1>5. /\ IsAsk(a) /\ a.pc = "restore" /\ a.kind = "undo_route" /\ a.snapshot = n
      /\ a.batch = None
  BY <1>3, <1>4 DEF AskSound, IsAsk
<1>6. AskSound(a)
  BY <1>2, <1>5 DEF AskSound
<1>7. asks' = [asks EXCEPT ![r] = a]
  BY <1>1, <1>3 DEF SendUndo
<1> QED BY <1>6, <1>7, UntouchedIs, AskMovesAlone DEF SendUndo

\* A thread may begin with the message.
LEMMA SendChatKeeps ==
  ASSUME KevinInv, NEW r \in Request,
         NEW kind \in {"accounts", "standard_chart", "undo", "question"}, SendChat(r, kind)
  PROVE  KevinInv'
<1>1. PICK th : asks' = [asks EXCEPT ![r].pc = "message", ![r].kind = kind, ![r].thread = th]
  BY DEF SendChat
<1>2. PICK x, a : x = asks[r] /\ a = [asks[r] EXCEPT !.pc = "message", !.kind = kind,
                                                     !.thread = th]
  OBVIOUS
<1>3. AskSound(x) /\ x.pc = "page"
  BY <1>2, AskIs DEF SendChat, AskAt
<1>4. IsAsk(a) /\ a.pc = "message" /\ a.kind = kind /\ a.batch = None
  BY <1>2, <1>3 DEF AskSound, IsAsk
<1>5. AskSound(a)
  BY <1>4 DEF AskSound
<1>6. asks' = [asks EXCEPT ![r] = a]
  BY <1>1, <1>2
<1> QED BY <1>5, <1>6, AskMovesAlone DEF SendChat, Unwritten

LEMMA StoreMessageKeeps ==
  ASSUME KevinInv, NEW r \in Request, StoreMessage(r)
  PROVE  KevinInv'
<1>1. PICK pc : pc = IF ThreadExists(r) THEN AfterMessage(asks[r].kind) ELSE "refused"
  OBVIOUS
<1>2. AskGoesTo(r, pc) /\ Untouched
  BY <1>1 DEF StoreMessage
<1>3. PICK a : /\ asks' = [asks EXCEPT ![r] = a] /\ IsAsk(a) /\ a.pc = pc
               /\ a.kind = asks[r].kind /\ a.batch = asks[r].batch
  BY <1>2, GoneTo
<1>4. PICK x : x = asks[r]
  OBVIOUS
<1>5. AskSound(x) /\ x.pc = "message"
  BY <1>4, AskIs DEF StoreMessage, AskAt
<1>6. /\ x.kind \in {"accounts", "standard_chart", "undo", "question"} /\ x.batch = None
      /\ \/ pc = "refused"
         \/ x.kind = "accounts" /\ pc = "propose"
         \/ x.kind = "standard_chart" /\ pc = "checkpoint"
         \/ x.kind = "undo" /\ pc = "find"
         \/ x.kind = "question" /\ pc = "reply"
  BY <1>1, <1>4, <1>5 DEF AskSound, AfterMessage
<1>7. AskSound(a)
  BY <1>3, <1>4, <1>6 DEF AskSound, WritesBooks
<1> QED BY <1>2, <1>3, <1>7, UntouchedIs, AskMovesAlone

LEMMA ProposeKeeps ==
  ASSUME KevinInv, NEW r \in Request, ProposeAccounts(r)
  PROVE  KevinInv'
<1>1. PICK x : x = asks[r]
  OBVIOUS
<1>2. AskSound(x) /\ x.pc = "propose" /\ x.kind = "accounts" /\ x.batch = None
  BY <1>1, AskIs DEF ProposeAccounts, AskAt, AskSound
<1>3. CASE AskGoesTo(r, "checkpoint")
  <2>1. PICK a : /\ asks' = [asks EXCEPT ![r] = a] /\ IsAsk(a) /\ a.pc = "checkpoint"
                 /\ a.kind = asks[r].kind /\ a.batch = asks[r].batch
    BY <1>3, GoneTo
  <2>2. AskSound(a)
    BY <1>1, <1>2, <2>1 DEF AskSound
  <2> QED BY <2>1, <2>2, UntouchedIs, AskMovesAlone DEF ProposeAccounts
<1>4. CASE asks' = [asks EXCEPT ![r].pc = "reply", ![r].kind = "question"]
  <2>1. PICK a : a = [asks[r] EXCEPT !.pc = "reply", !.kind = "question"]
    OBVIOUS
  <2>2. asks' = [asks EXCEPT ![r] = a]
    BY <1>4, <2>1
  <2>3. IsAsk(a) /\ a.pc = "reply" /\ a.kind = "question" /\ a.batch = None
    BY <1>1, <1>2, <2>1 DEF AskSound, IsAsk
  <2>4. AskSound(a)
    BY <2>3 DEF AskSound, WritesBooks
  <2> QED BY <2>2, <2>4, UntouchedIs, AskMovesAlone DEF ProposeAccounts
<1> QED BY <1>3, <1>4 DEF ProposeAccounts

LEMMA ReplyKeeps ==
  ASSUME KevinInv, NEW r \in Request, Reply(r)
  PROVE  KevinInv'
<1>1. PICK pc : pc = IF ~ThreadExists(r) THEN "refused"
                     ELSE IF asks[r].kind \in {"accounts", "standard_chart"} THEN "record"
                     ELSE "done"
  OBVIOUS
<1>2. AskGoesTo(r, pc) /\ Untouched
  BY <1>1 DEF Reply
<1>3. PICK a : /\ asks' = [asks EXCEPT ![r] = a] /\ IsAsk(a) /\ a.pc = pc
               /\ a.kind = asks[r].kind /\ a.batch = asks[r].batch
               /\ a.snapshot = asks[r].snapshot
  BY <1>2, GoneTo
<1>4. PICK x : x = asks[r]
  OBVIOUS
<1>5. AskSound(x) /\ x.pc = "reply"
  BY <1>4, AskIs DEF Reply, AskAt
<1>6. pc \in {"refused", "done"} \/ (pc = "record" /\ x.kind \in WritesBooks)
  BY <1>1, <1>4 DEF WritesBooks
<1>7. AskSound(a)
  BY <1>3, <1>4, <1>5, <1>6 DEF AskSound
<1> QED BY <1>2, <1>3, <1>7, UntouchedIs, AskMovesAlone

LEMMA FindLatestKeeps ==
  ASSUME KevinInv, NEW r \in Request, FindLatest(r)
  PROVE  KevinInv'
<1>1. PICK x : x = asks[r]
  OBVIOUS
<1>2. AskSound(x) /\ x.pc = "find" /\ x.kind = "undo" /\ x.batch = None
  BY <1>1, AskIs DEF FindLatest, AskAt, AskSound
<1>3. ASSUME NEW i \in DOMAIN actions,
             asks' = [asks EXCEPT ![r].pc = "read", ![r].snapshot = actions[i].snapshot]
      PROVE  KevinInv'
  <2>1. PICK n : n = actions[i].snapshot
    OBVIOUS
  <2>2. n \in DOMAIN snapshots
    BY <2>1 DEF KevinInv, ActionsSound, ActionSound, Payload
  <2>3. PICK a : a = [asks[r] EXCEPT !.pc = "read", !.snapshot = n]
    OBVIOUS
  <2>4. asks' = [asks EXCEPT ![r] = a]
    BY <1>3, <2>1, <2>3
  <2>5. IsAsk(a) /\ a.pc = "read" /\ a.kind = "undo" /\ a.snapshot = n /\ a.batch = None
    BY <1>1, <1>2, <2>3 DEF AskSound, IsAsk
  <2>6. AskSound(a)
    BY <2>2, <2>5 DEF AskSound
  <2> QED BY <2>4, <2>6, UntouchedIs, AskMovesAlone DEF FindLatest
<1>4. CASE AskGoesTo(r, "reply")
  <2>1. PICK a : /\ asks' = [asks EXCEPT ![r] = a] /\ IsAsk(a) /\ a.pc = "reply"
                 /\ a.kind = asks[r].kind /\ a.batch = asks[r].batch
    BY <1>4, GoneTo
  <2>2. AskSound(a)
    BY <1>1, <1>2, <2>1 DEF AskSound, WritesBooks
  <2> QED BY <2>1, <2>2, UntouchedIs, AskMovesAlone DEF FindLatest
<1> QED BY <1>3, <1>4 DEF FindLatest

LEMMA ReadActionKeeps ==
  ASSUME KevinInv, NEW r \in Request, ReadAction(r)
  PROVE  KevinInv'
<1>1. PICK pc : pc = IF \E x \in Range(actions) : x.snapshot = asks[r].snapshot
                     THEN "restore" ELSE "refused"
  OBVIOUS
<1>2. AskGoesTo(r, pc) /\ Untouched /\ pc \in {"restore", "refused"}
  BY <1>1 DEF ReadAction
<1>3. PICK a : /\ asks' = [asks EXCEPT ![r] = a] /\ IsAsk(a) /\ a.pc = pc
               /\ a.kind = asks[r].kind /\ a.batch = asks[r].batch
               /\ a.snapshot = asks[r].snapshot
  BY <1>2, GoneTo
<1>4. PICK x : x = asks[r]
  OBVIOUS
<1>5. AskSound(x) /\ x.pc = "read"
  BY <1>4, AskIs DEF ReadAction, AskAt
<1>6. AskSound(a)
  BY <1>2, <1>3, <1>4, <1>5 DEF AskSound
<1> QED BY <1>2, <1>3, <1>6, UntouchedIs, AskMovesAlone
-----------------------------------------------------------------------------
(* Writing to the books *)

LEMMA WriteJournalKeeps ==
  ASSUME KevinInv, NEW r \in Request, WriteJournal(r)
  PROVE  KevinInv'
<1>1. PICK x, c, st, n : x = asks[r] /\ c = asks[r].content /\ st = asks[r].status
                         /\ n = Len(rows) + 1
  OBVIOUS
<1>2. /\ AskSound(x) /\ x.pc = "write" /\ x.kind = "journal" /\ x.batch = None
      /\ x.snapshot \in DOMAIN snapshots
  BY <1>1, AskIs DEF WriteJournal, AskAt, AskSound
<1>3. c \in Submitted /\ st \in {"draft", "posted"}
  BY <1>1, <1>2, KevinAssumption DEF AskSound, Submitted
<1>4. UNCHANGED <<imports, txns, chart, actions, snapshots>>
  BY DEF WriteJournal
<1>5. CASE InChart(c)
  <2>1. /\ CreateBatch(c, st, NoSource, TRUE)
        /\ asks' = [asks EXCEPT ![r] = [@ EXCEPT !.pc = "record", !.batch = n,
                                                 !.content = <<>>, !.status = "none"]]
    BY <1>1, <1>5 DEF WriteJournal
  <2>2. \A i \in DOMAIN c.lines : c.lines[i].account \in chart
    BY <1>5 DEF InChart
  <2>3. /\ TypeOK' /\ NoneRemoved /\ PostingsStay
        /\ \A b \in DOMAIN rows' : rows'[b].status # "deleted" =>
             PointsBack(rows', b) /\ LinesIn(rows'[b], chart)
        /\ DOMAIN rows' = DOMAIN rows \cup {n} /\ n \notin DOMAIN rows
    BY <1>1, <1>3, <2>1, <2>2, CreatedIntact
  <2>4. PICK a : a = [x EXCEPT !.pc = "record", !.batch = n, !.content = <<>>, !.status = "none"]
    OBVIOUS
  <2>5. asks' = [asks EXCEPT ![r] = a]
    BY <1>1, <2>1, <2>4
  <2>6. /\ IsAsk(a) /\ a.pc = "record" /\ a.kind = "journal" /\ a.batch = n
        /\ a.snapshot = x.snapshot
    BY <1>2, <2>4 DEF AskSound, IsAsk
  <2>7. n \in DOMAIN rows' /\ n \notin DOMAIN snapshots[x.snapshot].payload.rows
    BY <1>2, <2>3 DEF KevinInv, SnapshotsSound
  <2>8. AskSound(a)'
    BY <1>2, <1>4, <2>6, <2>7 DEF AskSound
  <2>9. Grown
    BY <1>4, <2>3 DEF Grown
  <2>10. AsksSound'
    BY <2>5, <2>8, <2>9, AskMoves DEF KevinInv
  <2> QED BY <1>4, <2>3, <2>10, RowsMove
<1>6. CASE ~InChart(c)
  <2>1. UNCHANGED <<rows, answers>> /\ AskGoesTo(r, "refused")
    BY <1>1, <1>6 DEF WriteJournal
  <2>2. PICK a : /\ asks' = [asks EXCEPT ![r] = a] /\ IsAsk(a) /\ a.pc = "refused"
                 /\ a.kind = asks[r].kind /\ a.batch = asks[r].batch
    BY <2>1, GoneTo
  <2>3. AskSound(a)
    BY <1>1, <1>2, <2>2 DEF AskSound
  <2>4. Unwritten
    BY <1>4, <2>1 DEF Unwritten
  <2> QED BY <2>2, <2>3, <2>4, AskMovesAlone
<1> QED BY <1>5, <1>6

\* The chart grows and a request moves on.
LEMMA ChartGrows ==
  ASSUME KevinInv, UNCHANGED <<rows, imports, txns, actions, answers, snapshots>>,
         chart \subseteq chart', AsksSound'
  PROVE  KevinInv'
<1>1. /\ UNCHANGED rows /\ UNCHANGED imports /\ UNCHANGED txns
      /\ UNCHANGED actions /\ UNCHANGED answers /\ UNCHANGED snapshots
  OBVIOUS
<1>2. RowsIntact(Payload)' /\ NoneRemoved /\ PostingsStay
  BY <1>1, RowsSame DEF KevinInv, Intact
<1>3. TxnsIntact(Payload)' /\ ImportsIntact(Payload)'
  BY <1>1, <1>2, TxnsSame, ImportsSame DEF KevinInv, Intact
<1>4. ActionsSound(Payload, Len(snapshots) + 1)' /\ SnapshotsSound'
  BY <1>1, <1>2, ActionsSame, SnapshotsSame DEF KevinInv
<1> QED BY <1>1, <1>2, <1>3, <1>4 DEF KevinInv, Intact

LEMMA WriteAccountsKeeps ==
  ASSUME KevinInv, NEW r \in Request, WriteAccounts(r)
  PROVE  KevinInv'
<1>1. PICK x : x = asks[r]
  OBVIOUS
<1>2. /\ AskSound(x) /\ x.pc = "write" /\ x.kind \in {"accounts", "standard_chart"}
      /\ x.batch = None /\ x.snapshot \in DOMAIN snapshots
  BY <1>1, AskIs DEF WriteAccounts, AskAt, AskSound
<1>3. UNCHANGED <<rows, imports, txns, actions, answers, snapshots>>
  BY DEF WriteAccounts
<1>4. chart \subseteq chart'
  BY DEF WriteAccounts
<1>5. Grown
  BY <1>3, NothingGrows
<1>6. ASSUME NEW a, asks' = [asks EXCEPT ![r] = a], AskSound(a)
      PROVE  KevinInv'
  <2>1. AskSound(a)'
    BY <1>5, <1>6, AskKept
  <2>2. AsksSound'
    BY <1>5, <1>6, <2>1, AskMoves DEF KevinInv
  <2> QED BY <1>3, <1>4, <2>2, ChartGrows
<1>7. ASSUME NEW pc \in {"reply", "refused"}, AskGoesTo(r, pc) PROVE KevinInv'
  <2>1. PICK a : /\ asks' = [asks EXCEPT ![r] = a] /\ IsAsk(a) /\ a.pc = pc
                 /\ a.kind = asks[r].kind /\ a.batch = asks[r].batch
                 /\ a.snapshot = asks[r].snapshot
    BY <1>7, GoneTo
  <2>2. AskSound(a)
    BY <1>1, <1>2, <1>7, <2>1 DEF AskSound
  <2> QED BY <1>6, <2>1, <2>2
<1>8. CASE asks' = [asks EXCEPT ![r].pc = "reply", ![r].kind = "question"]
  <2>1. PICK a : a = [asks[r] EXCEPT !.pc = "reply", !.kind = "question"]
    OBVIOUS
  <2>2. asks' = [asks EXCEPT ![r] = a]
    BY <1>8, <2>1
  <2>3. IsAsk(a) /\ a.pc = "reply" /\ a.kind = "question" /\ a.batch = None
    BY <1>1, <1>2, <2>1 DEF AskSound, IsAsk
  <2>4. AskSound(a)
    BY <2>3 DEF AskSound, WritesBooks
  <2> QED BY <1>6, <2>2, <2>4
<1> QED BY <1>7, <1>8 DEF WriteAccounts

LEMMA RecordActionKeeps ==
  ASSUME KevinInv, NEW r \in Request, RecordAction(r)
  PROVE  KevinInv'
<1>1. PICK x : x = asks[r]
  OBVIOUS
<1>2. AskSound(x) /\ x.pc = "record" /\ x.snapshot \in DOMAIN snapshots
  BY <1>1, AskIs DEF RecordAction, AskAt, AskSound
<1>3. UNCHANGED <<rows, imports, txns, chart, answers, snapshots>>
  BY DEF RecordAction
<1>4. CASE ~Recordable(r)
  <2>1. UNCHANGED actions /\ AskGoesTo(r, "refused")
    BY <1>4 DEF RecordAction
  <2>2. PICK a : /\ asks' = [asks EXCEPT ![r] = a] /\ IsAsk(a) /\ a.pc = "refused"
                 /\ a.kind = asks[r].kind /\ a.batch = asks[r].batch
                 /\ a.snapshot = asks[r].snapshot
    BY <2>1, GoneTo
  <2>3. AskSound(a)
    BY <1>1, <1>2, <2>2 DEF AskSound
  <2>4. Unwritten
    BY <1>3, <2>1 DEF Unwritten
  <2> QED BY <2>2, <2>3, <2>4, AskMovesAlone
<1>5. CASE Recordable(r)
  <2>1. PICK pc, e : /\ pc = (IF asks[r].kind = "journal" /\ asks[r].thread # NoThread
                              THEN "reply" ELSE "done")
                     /\ e = Action(r)
    OBVIOUS
  <2>2. actions' = Append(actions, e) /\ AskGoesTo(r, pc) /\ pc \in {"reply", "done"}
    BY <1>5, <2>1 DEF RecordAction
  <2>3. PICK a : /\ asks' = [asks EXCEPT ![r] = a] /\ IsAsk(a) /\ a.pc = pc
                 /\ a.kind = asks[r].kind /\ a.batch = asks[r].batch
                 /\ a.snapshot = asks[r].snapshot
    BY <2>2, GoneTo
  <2>4. AskSound(a)
    BY <1>1, <1>2, <2>2, <2>3 DEF AskSound
  <2>5. Grown
    BY <1>3, NothingGrows
  <2>6. AsksSound'
    <3>1. AskSound(a)'
      BY <2>4, <2>5, AskKept
    <3> QED BY <2>3, <2>5, <3>1, AskMoves DEF KevinInv
  <2>7. ActionSound(Payload, e, Len(snapshots) + 1)
    <3>1. e = [type |-> x.kind, snapshot |-> x.snapshot, journalBatchId |-> x.batch]
      BY <1>1, <2>1 DEF Action
    <3>2. x.snapshot < Len(snapshots) + 1
      BY <1>2, SnapshotsShape DEF KevinInv
    <3>3. x.batch # None => /\ x.batch \in DOMAIN rows /\ rows[x.batch].status # "deleted"
                            /\ x.batch \notin DOMAIN snapshots[x.snapshot].payload.rows
      BY <1>1, <1>2, <1>5 DEF AskSound, Recordable
    <3> QED BY <1>2, <3>1, <3>2, <3>3 DEF ActionSound, Payload
  <2>8. PICK old, new : old = actions /\ new = actions'
    OBVIOUS
  <2>9. IsList(old) /\ \A i \in DOMAIN old : ActionSound(Payload, old[i], Len(snapshots) + 1)
    BY <2>8 DEF KevinInv, ActionsSound, Payload
  <2>10. /\ IsList(new) /\ DOMAIN new = DOMAIN old \cup {Len(old) + 1}
         /\ \A i \in DOMAIN old : new[i] = old[i]
         /\ new[Len(old) + 1] = e
    <3>1. IsAppended(old, e, new)
      BY <2>2, <2>8 DEF IsAppended
    <3>2. HasLast(old, e, new)
      BY <2>9, <3>1, AppendAny
    <3> QED BY <3>2 DEF HasLast
  <2>11. \A i \in DOMAIN new : ActionSound(Payload, new[i], Len(snapshots) + 1)
    BY <2>7, <2>9, <2>10
  <2>12. \A i \in DOMAIN new : ActionSound(Payload, new[i], Len(snapshots) + 1)'
    BY <1>3, <2>11 DEF ActionSound, Payload
  <2>13. ActionsSound(Payload, Len(snapshots) + 1)'
    BY <2>8, <2>10, <2>12 DEF ActionsSound, Payload
  <2>14. /\ UNCHANGED rows /\ UNCHANGED imports /\ UNCHANGED txns /\ UNCHANGED answers
         /\ UNCHANGED snapshots /\ chart \subseteq chart'
    BY <1>3
  <2>15. RowsIntact(Payload)' /\ NoneRemoved /\ PostingsStay
    BY <2>14, RowsSame DEF KevinInv, Intact
  <2>16. TxnsIntact(Payload)' /\ ImportsIntact(Payload)'
    BY <2>14, <2>15, TxnsSame, ImportsSame DEF KevinInv, Intact
  <2>17. SnapshotsSound'
    BY <2>14, SnapshotsSame DEF KevinInv
  <2> QED BY <2>6, <2>13, <2>14, <2>15, <2>16, <2>17 DEF KevinInv, Intact
<1> QED BY <1>4, <1>5

\* The thread that is put back is none that anything here depends on.
LEMMA EnsureThreadKeeps ==
  ASSUME KevinInv, NEW r \in Request, EnsureThread(r)
  PROVE  KevinInv'
<1>1. PICK x : x = asks[r]
  OBVIOUS
<1>2. AskSound(x) /\ x.pc = "thread_again" /\ x.kind = "undo" /\ x.batch = None
  BY <1>1, AskIs DEF EnsureThread, AskAt, AskSound
<1>3. PICK a : /\ asks' = [asks EXCEPT ![r] = a] /\ IsAsk(a) /\ a.pc = "reply"
               /\ a.kind = asks[r].kind /\ a.batch = asks[r].batch
  BY GoneTo DEF EnsureThread
<1>4. AskSound(a)
  BY <1>1, <1>2, <1>3 DEF AskSound, WritesBooks
<1>5. Unwritten
  BY DEF EnsureThread, Unwritten
<1> QED BY <1>3, <1>4, <1>5, AskMovesAlone
-----------------------------------------------------------------------------
(* Checkpoints and their restoration *)

\* A checkpoint holds tables that fit together, and is not touched again.
LEMMA SnapshotAdded ==
  ASSUME KevinInv, NEW reason, CreateSnapshot(reason), DOMAIN rows \subseteq DOMAIN rows'
  PROVE  /\ SnapshotsSound' /\ Grown
         /\ Len(snapshots') = Len(snapshots) + 1
         /\ Len(snapshots') \in DOMAIN snapshots'
<1>1. PICK old, new, p, n : /\ old = snapshots /\ new = snapshots' /\ p = Payload
                            /\ n = Len(snapshots) + 1
  OBVIOUS
<1>2. IsList(old) /\ new = Append(old, [reason |-> reason, payload |-> p])
  BY <1>1 DEF CreateSnapshot, Snapshot, KevinInv, SnapshotsSound
<1>3. /\ IsList(new) /\ Len(new) = n /\ n \notin DOMAIN old
      /\ DOMAIN new = DOMAIN old \cup {n}
      /\ \A i \in DOMAIN old : new[i] = old[i]
      /\ new[n] = [reason |-> reason, payload |-> p]
  <2>1. PICK e : e = [reason |-> reason, payload |-> p]
    OBVIOUS
  <2>2. IsAppended(old, e, new)
    BY <1>2, <2>1 DEF IsAppended
  <2>3. HasLast(old, e, new)
    BY <1>2, <2>2, AppendAny
  <2> QED BY <1>1, <2>1, <2>3 DEF HasLast
<1>4. Grown
  BY <1>1, <1>3 DEF Grown
<1>5. ASSUME NEW q, NEW m, ActionsSound(q, m) PROVE ActionsSound(q, m)'
  BY <1>1, <1>3, <1>5 DEF ActionsSound, ActionSound
<1>6. ASSUME NEW m \in DOMAIN new
      PROVE  /\ Intact(new[m].payload) /\ ActionsSound(new[m].payload, m)'
             /\ DOMAIN new[m].payload.rows \subseteq DOMAIN rows'
  <2>1. CASE m \in DOMAIN old
    <3>1. PICK q : q = new[m].payload
      OBVIOUS
    <3>2. Intact(q) /\ ActionsSound(q, m) /\ DOMAIN q.rows \subseteq DOMAIN rows
      BY <1>1, <1>3, <2>1, <3>1 DEF KevinInv, SnapshotsSound
    <3>3. ActionsSound(q, m)'
      BY <1>5, <3>2
    <3> QED BY <3>1, <3>2, <3>3
  <2>2. CASE m = n
    <3>1. Intact(p) /\ ActionsSound(p, n) /\ DOMAIN p.rows = DOMAIN rows
      BY <1>1 DEF KevinInv, Payload
    <3>2. ActionsSound(p, n)'
      BY <1>5, <3>1
    <3>3. new[m].payload = p
      BY <1>3, <2>2
    <3> QED BY <2>2, <3>1, <3>2, <3>3
  <2> QED BY <1>3, <2>1, <2>2
<1>7. SnapshotsSound'
  BY <1>1, <1>3, <1>6 DEF SnapshotsSound
<1> QED BY <1>1, <1>3, <1>4, <1>7

\* Recorded actions keep their checkpoints when one more is taken.
LEMMA CheckpointStep ==
  ASSUME KevinInv, NEW reason, CreateSnapshot(reason), UNCHANGED <<tables, answers>>, AsksSound'
  PROVE  KevinInv'
<1>1. /\ UNCHANGED rows /\ UNCHANGED imports /\ UNCHANGED txns /\ UNCHANGED chart
      /\ UNCHANGED actions /\ UNCHANGED answers
  BY DEF tables
<1>2. chart \subseteq chart' /\ DOMAIN rows \subseteq DOMAIN rows'
  BY <1>1
<1>3. SnapshotsSound' /\ Grown /\ Len(snapshots') = Len(snapshots) + 1
  BY <1>2, SnapshotAdded
<1>4. RowsIntact(Payload)' /\ PostingsStay
  BY <1>1, <1>2, RowsSame DEF KevinInv, Intact
<1>5. TxnsIntact(Payload)' /\ ImportsIntact(Payload)'
  BY <1>1, <1>2, <1>4, TxnsSame, ImportsSame DEF KevinInv, Intact
<1>6. ActionsSound(Payload, Len(snapshots) + 1)'
  <2>1. ASSUME NEW i \in DOMAIN actions
        PROVE  ActionSound(Payload, actions[i], Len(snapshots) + 1)'
    <3>1. PICK x : x = actions[i]
      OBVIOUS
    <3>2. ActionSound(Payload, x, Len(snapshots) + 1)
      BY <3>1 DEF KevinInv, ActionsSound, Payload
    <3>3. x.snapshot < Len(snapshots') + 1
      BY <1>3, <3>2, SnapshotsShape DEF ActionSound, KevinInv
    <3>4. ActionSound(Payload, x, Len(snapshots) + 1)'
      BY <1>1, <1>3, <3>2, <3>3 DEF ActionSound, Payload, Grown
    <3> QED BY <1>1, <3>1, <3>4
  <2> QED BY <1>1, <2>1 DEF ActionsSound, Payload, KevinInv
<1> QED BY <1>1, <1>3, <1>4, <1>5, <1>6 DEF KevinInv, Intact

LEMMA CheckpointKeeps ==
  ASSUME KevinInv, NEW r \in Request, Checkpoint(r)
  PROVE  KevinInv'
<1>1. CreateSnapshot("kevin_action") /\ UNCHANGED <<tables, answers>>
  BY DEF Checkpoint
<1>2. DOMAIN rows \subseteq DOMAIN rows'
  BY <1>1 DEF tables
<1>3. PICK n : n = Len(snapshots) + 1
  OBVIOUS
<1>4. Grown /\ n \in DOMAIN snapshots'
  BY <1>1, <1>2, <1>3, SnapshotAdded
<1>5. PICK x, a : x = asks[r] /\ a = [asks[r] EXCEPT !.pc = "write", !.snapshot = n]
  OBVIOUS
<1>6. AskSound(x) /\ x.pc = "checkpoint" /\ x.batch = None
  BY <1>5, AskIs DEF Checkpoint, AskAt, AskSound
<1>7. /\ IsAsk(a) /\ a.pc = "write" /\ a.kind = x.kind /\ a.content = x.content
      /\ a.status = x.status /\ a.snapshot = n /\ a.batch = None
  BY <1>5, <1>6 DEF AskSound, IsAsk
<1>8. AskSound(a)'
  BY <1>4, <1>6, <1>7 DEF AskSound
<1>9. asks' = [asks EXCEPT ![r] = a]
  BY <1>3, <1>5 DEF Checkpoint
<1>10. AsksSound'
  BY <1>4, <1>8, <1>9, AskMoves DEF KevinInv
<1> QED BY <1>1, <1>10, CheckpointStep

\* A checkpoint brings back tables that fit together, actions included.
LEMMA RestoredTables ==
  ASSUME KevinInv, NEW n \in DOMAIN snapshots, Restore(n)
  PROVE  DOMAIN rows' = DOMAIN rows /\ Grown /\ (AsksSound' => KevinInv')
<1>1. PICK p : p = snapshots[n].payload
  OBVIOUS
<1>2. RowsIntact(p) /\ TxnsIntact(p) /\ ImportsIntact(p) /\ ActionsSound(p, n)
      /\ DOMAIN p.rows \subseteq DOMAIN rows
  BY <1>1 DEF KevinInv, SnapshotsSound, Intact
<1>3. /\ CreateSnapshot("pre_restore") /\ rows' = RestoredRows(p) /\ imports' = p.imports
      /\ txns' = p.txns /\ chart' = p.chart /\ actions' = p.actions /\ UNCHANGED answers
  BY <1>1 DEF Restore, RestoredTxns, RestoredActions
<1>4. /\ DOMAIN rows' = DOMAIN rows /\ rows' = [b \in DOMAIN rows |-> rows'[b]]
      /\ \A b \in DOMAIN p.rows : rows'[b] = [p.rows[b] EXCEPT !.audit = rows[b].audit]
      /\ \A b \in DOMAIN rows \ DOMAIN p.rows : rows'[b] = [rows[b] EXCEPT !.status = "deleted"]
  BY <1>2, <1>3 DEF RestoredRows
<1>5. /\ \A b \in DOMAIN rows : rows[b] \in Row
      /\ \A b \in DOMAIN p.rows : p.rows[b] \in Row
  <2>1. p.rows \in Seq(Row)
    BY <1>2 DEF RowsIntact
  <2>2. PICK old : old = p.rows
    OBVIOUS
  <2>3. \A b \in DOMAIN old : old[b] \in Row
    BY <2>1, <2>2, SeqElements
  <2> QED BY <2>2, <2>3, RowsAre
<1>6. ASSUME NEW b \in DOMAIN p.rows
      PROVE  /\ rows'[b] \in Row /\ rows'[b].status = p.rows[b].status
             /\ rows'[b].supersedes = p.rows[b].supersedes
             /\ rows'[b].originalBatchId = p.rows[b].originalBatchId
             /\ rows'[b].sourceType = p.rows[b].sourceType
             /\ rows'[b].content = p.rows[b].content
  <2>1. PICK x, y : x = p.rows[b] /\ y = rows[b]
    OBVIOUS
  <2>2. x \in Row /\ y \in Row /\ rows'[b] = [x EXCEPT !.audit = y.audit]
    BY <1>2, <1>4, <1>5, <2>1
  <2> QED BY <2>1, <2>2 DEF Row
<1>7. ASSUME NEW b \in DOMAIN rows \ DOMAIN p.rows
      PROVE  rows'[b] \in Row /\ rows'[b].status = "deleted"
  <2>1. PICK y : y = rows[b]
    OBVIOUS
  <2>2. y \in Row /\ rows'[b] = [y EXCEPT !.status = "deleted"]
    BY <1>4, <1>5, <2>1
  <2> QED BY <2>2 DEF Row, Status
<1>8. rows' \in Seq(Row) /\ Len(rows') <= MaxBatches
  <2>1. Len(rows) \in 0 .. MaxBatches /\ DOMAIN rows = 1 .. Len(rows)
    BY RowsAre
  <2>2. rows' \in [1 .. Len(rows) -> Row]
    BY <1>4, <1>6, <1>7, <2>1
  <2>3. rows' \in Seq(Row) /\ Len(rows') = Len(rows)
    BY <2>1, <2>2, SeqDef, LenProperties
  <2> QED BY <2>1, <2>3, JournalAssumption
<1>9. RowsIntact(Payload)'
  <2>1. ASSUME NEW b \in DOMAIN rows', rows'[b].status # "deleted"
        PROVE  PointsBack(rows', b) /\ LinesIn(rows'[b], chart')
    <3>1. b \in DOMAIN p.rows /\ p.rows[b].status # "deleted"
      BY <1>4, <1>6, <1>7, <2>1
    <3>2. PointsBack(p.rows, b) /\ LinesIn(p.rows[b], p.chart)
      BY <1>2, <3>1 DEF RowsIntact
    <3>3. p.rows[b].originalBatchId # None => p.rows[b].originalBatchId \in DOMAIN p.rows
      BY <3>2 DEF PointsBack
    <3>4. PointsBack(rows', b)
      BY <1>2, <1>4, <1>6, <3>1, <3>2, <3>3 DEF PointsBack
    <3>5. LinesIn(rows'[b], chart')
      BY <1>3, <1>6, <3>1, <3>2 DEF LinesIn
    <3> QED BY <3>4, <3>5
  <2> QED BY <1>8, <2>1 DEF RowsIntact, Payload
<1>10. TxnsIntact(Payload)'
  <2>1. ASSUME NEW t \in DOMAIN txns' PROVE TxnIntact(Payload, txns[t])'
    <3>1. TxnIntact(p, txns'[t])
      BY <1>2, <1>3 DEF TxnsIntact
    <3> QED BY <1>2, <1>3, <1>4, <1>6, <3>1 DEF TxnIntact, Payload
  <2> QED BY <1>2, <1>3, <2>1 DEF TxnsIntact, Payload
<1>11. ImportsIntact(Payload)'
  BY <1>2, <1>3 DEF ImportsIntact, Payload
<1>12. SnapshotsSound' /\ Grown /\ Len(snapshots') = Len(snapshots) + 1
  BY <1>3, <1>4, SnapshotAdded
<1>13. ActionsSound(Payload, Len(snapshots) + 1)'
  <2>1. ASSUME NEW i \in DOMAIN actions'
        PROVE  ActionSound(Payload, actions[i], Len(snapshots) + 1)'
    <3>1. PICK x : x = actions'[i]
      OBVIOUS
    <3>2. ActionSound(p, x, n)
      BY <1>2, <1>3, <2>1, <3>1 DEF ActionsSound
    <3>3. x.snapshot < Len(snapshots') + 1
      BY <1>12, <3>2, SnapshotsShape DEF ActionSound, KevinInv
    <3>4. ActionSound(Payload, x, Len(snapshots) + 1)'
      BY <1>2, <1>4, <1>6, <1>12, <3>2, <3>3 DEF ActionSound, Payload, Grown
    <3> QED BY <3>1, <3>4
  <2> QED BY <1>2, <1>3, <2>1 DEF ActionsSound, Payload
<1>14. answers' \subseteq [batchId : BatchId, reversalBatchId : BatchId,
                           revisedBatchId : BatchId, key : Keys]
  BY <1>3 DEF KevinInv
<1>15. AsksSound' => KevinInv'
  BY <1>9, <1>10, <1>11, <1>12, <1>13, <1>14 DEF KevinInv, Intact
<1> QED BY <1>4, <1>12, <1>15

LEMMA UndoRestoreKeeps ==
  ASSUME KevinInv, NEW r \in Request, UndoRestore(r)
  PROVE  KevinInv'
<1>1. PICK x, pc : x = asks[r]
                   /\ pc = IF asks[r].kind = "undo_route" THEN "done" ELSE "thread_again"
  OBVIOUS
<1>2. /\ AskSound(x) /\ x.pc = "restore" /\ x.kind \in {"undo", "undo_route"}
      /\ x.batch = None /\ x.snapshot \in DOMAIN snapshots
  BY <1>1, AskIs DEF UndoRestore, AskAt, AskSound
<1>3. Restore(x.snapshot) /\ AskGoesTo(r, pc)
  BY <1>1 DEF UndoRestore
<1>4. PICK a : /\ asks' = [asks EXCEPT ![r] = a] /\ IsAsk(a) /\ a.pc = pc
               /\ a.kind = asks[r].kind /\ a.batch = asks[r].batch
  BY <1>3, GoneTo
<1>5. Grown /\ (AsksSound' => KevinInv')
  BY <1>2, <1>3, RestoredTables
<1>6. AskSound(a)
  BY <1>1, <1>2, <1>4 DEF AskSound
<1>7. AsksSound'
  <2>1. AskSound(a)'
    BY <1>5, <1>6, AskKept
  <2> QED BY <1>4, <1>5, <2>1, AskMoves DEF KevinInv
<1> QED BY <1>5, <1>7

LEMMA TimeMachinePageKeeps ==
  ASSUME KevinInv, TimeMachinePage, UNCHANGED asks
  PROVE  KevinInv'
<1>1. ASSUME CreateSnapshot("manual"), UNCHANGED <<tables, answers>> PROVE KevinInv'
  <2>1. DOMAIN rows \subseteq DOMAIN rows'
    BY <1>1 DEF tables
  <2>2. Grown
    BY <1>1, <2>1, SnapshotAdded
  <2>3. AsksSound'
    BY <2>2, AsksSame DEF KevinInv
  <2> QED BY <1>1, <2>3, CheckpointStep
<1>2. ASSUME NEW n \in DOMAIN snapshots, Restore(n) PROVE KevinInv'
  <2>1. Grown /\ (AsksSound' => KevinInv')
    BY <1>2, RestoredTables
  <2> QED BY <2>1, AsksSame DEF KevinInv
<1> QED BY <1>1, <1>2 DEF TimeMachinePage
-----------------------------------------------------------------------------
(* What the user does to statements *)

LEMMA TxnsTyped ==
  ASSUME KevinInv
  PROVE  TxnsOK /\ \A t \in DOMAIN txns : TxnIntact(Payload, txns[t])
BY DEF KevinInv, Intact, TxnsIntact, TxnsOK, Payload

LEMMA ImportsTyped ==
  ASSUME KevinInv
  PROVE  /\ imports \in [Statement -> SomeImport]
         /\ \A s \in Statement : imports[s].linkedAccountId \in chart \cup {NoAccount}
BY DEF KevinInv, Intact, ImportsIntact, Payload

\* A step of the user on the statements' pages, which takes no checkpoint.
OnStatements == UNCHANGED <<chart, actions, snapshots>> /\ UNCHANGED asks

LEMMA StatementStep ==
  ASSUME KevinInv, OnStatements, RowsIntact(Payload)', TxnsIntact(Payload)', ImportsIntact(Payload)',
         answers' \subseteq [batchId : BatchId, reversalBatchId : BatchId,
                             revisedBatchId : BatchId, key : Keys],
         NoneRemoved
  PROVE  KevinInv'
<1>1. UNCHANGED <<actions, snapshots>> /\ UNCHANGED snapshots /\ UNCHANGED <<asks, snapshots>>
      /\ DOMAIN rows \subseteq DOMAIN rows'
  BY DEF OnStatements, NoneRemoved
<1>2. ActionsSound(Payload, Len(snapshots) + 1)' /\ SnapshotsSound' /\ AsksSound'
  BY <1>1, ActionsSame, SnapshotsSame, AsksStay DEF KevinInv
<1> QED BY <1>2 DEF KevinInv, Intact

\* A step that writes no journal.
LEMMA NoJournalStep ==
  ASSUME KevinInv, OnStatements, UNCHANGED <<rows, answers>>,
         TxnsIntact(Payload)', ImportsIntact(Payload)'
  PROVE  KevinInv'
<1>1. UNCHANGED rows /\ UNCHANGED answers /\ chart \subseteq chart'
  BY DEF OnStatements
<1>2. RowsIntact(Payload)' /\ NoneRemoved
  BY <1>1, RowsSame DEF KevinInv, Intact
<1> QED BY <1>1, <1>2, StatementStep DEF KevinInv

LEMMA TxnsStay ==
  ASSUME KevinInv, OnStatements, UNCHANGED rows, UNCHANGED txns
  PROVE  TxnsIntact(Payload)'
<1>1. chart \subseteq chart' /\ PostingsStay
  BY DEF OnStatements, PostingsStay
<1> QED BY <1>1, TxnsSame DEF KevinInv, Intact

LEMMA ImportsStay ==
  ASSUME KevinInv, OnStatements, UNCHANGED imports
  PROVE  ImportsIntact(Payload)'
<1>1. chart \subseteq chart'
  BY DEF OnStatements
<1> QED BY <1>1, ImportsSame DEF KevinInv, Intact

\* A new status leaves the account of a file alone.
LEMMA StatusIntact ==
  ASSUME KevinInv, OnStatements, NEW S, NEW st \in {"extracted", "failed", "imported"},
         SetStatus(S, st)
  PROVE  ImportsIntact(Payload)'
<1>1. /\ imports' = [s \in Statement |-> IF s \in S THEN [imports[s] EXCEPT !.status = st]
                                                    ELSE imports[s]]
      /\ \A s \in Statement : imports[s] \in SomeImport
  BY ImportsTyped DEF SetStatus
<1>2. ASSUME NEW s \in Statement
      PROVE  imports'[s] \in SomeImport /\ imports'[s].linkedAccountId = imports[s].linkedAccountId
  <2>1. CASE s \in S
    BY <1>1, <2>1 DEF SomeImport, ImportStatus
  <2>2. CASE s \notin S
    BY <1>1, <2>2
  <2> QED BY <2>1, <2>2
<1>3. imports' \in [Statement -> SomeImport]
  BY <1>1, <1>2
<1> QED BY <1>2, <1>3, ImportsTyped DEF ImportsIntact, Payload, OnStatements

LEMMA UserUploadKeeps ==
  ASSUME KevinInv, OnStatements, NEW s \in Statement, Upload(s),
         imports'[s].linkedAccountId \in chart \cup {NoAccount}
  PROVE  KevinInv'
<1>1. PICK a \in Linkable[s] \cup {NoAccount} :
        imports' = [imports EXCEPT ![s] = [status |-> "uploaded", linkedAccountId |-> a]]
  BY DEF Upload
<1>2. UNCHANGED <<rows, answers>> /\ UNCHANGED rows /\ UNCHANGED txns
  BY DEF Upload
<1>3. PICK x : x = [status |-> "uploaded", linkedAccountId |-> a]
  OBVIOUS
<1>4. x \in SomeImport
  BY <1>3, StatementAssumption DEF SomeImport, ImportStatus
<1>5. /\ imports' \in [Statement -> SomeImport]
      /\ \A u \in Statement \ {s} : imports'[u] = imports[u]
  BY <1>1, <1>3, <1>4, ImportsTyped
<1>6. ImportsIntact(Payload)'
  BY <1>5, ImportsTyped DEF ImportsIntact, Payload, OnStatements
<1> QED BY <1>2, <1>6, TxnsStay, NoJournalStep

LEMMA UserExtractKeeps ==
  ASSUME KevinInv, OnStatements, NEW s \in Statement, NEW r \in Run, Extract(s, r)
  PROVE  KevinInv'
<1>1. UNCHANGED <<rows, answers>> /\ UNCHANGED rows
  BY DEF Extract
<1>2. CASE SetStatus({s}, "failed") /\ UNCHANGED txns
  BY <1>1, <1>2, StatusIntact, TxnsStay, NoJournalStep
<1>3. CASE SetStatus({s}, "extracted") /\ txns' = Inserted(s, r)
  <2>1. /\ TxnsOK'
        /\ \A t \in DOMAIN txns' :
             \/ t \in DOMAIN txns /\ txns'[t] = txns[t]
             \/ /\ txns'[t].journalBatchId = None
                /\ txns'[t].confirmedAccountId = NoAccount /\ txns'[t].allocations = <<>>
    BY <1>3, InsertedIs, TxnsTyped
  <2>2. ASSUME NEW t \in DOMAIN txns' PROVE TxnIntact(Payload, txns[t])'
    <3>1. CASE t \in DOMAIN txns /\ txns'[t] = txns[t]
      BY <1>1, <3>1, TxnsTyped DEF TxnIntact, Payload, OnStatements
    <3>2. CASE /\ txns'[t].journalBatchId = None
               /\ txns'[t].confirmedAccountId = NoAccount /\ txns'[t].allocations = <<>>
      <4>1. DOMAIN txns'[t].allocations = {}
        BY <3>2
      <4> QED BY <3>2, <4>1 DEF TxnIntact, Payload
    <3> QED BY <2>1, <3>1, <3>2
  <2>3. TxnsIntact(Payload)'
    BY <2>1, <2>2 DEF TxnsIntact, TxnsOK, Payload
  <2> QED BY <1>1, <1>3, <2>3, StatusIntact, NoJournalStep
<1> QED BY <1>2, <1>3 DEF Extract

LEMMA UserCategorizeKeeps ==
  ASSUME KevinInv, OnStatements, NEW t \in DOMAIN txns, NEW a \in Category \cap chart,
         Categorize(t, a)
  PROVE  KevinInv'
<1>1. /\ UNCHANGED <<rows, answers>> /\ UNCHANGED rows /\ UNCHANGED imports
  BY DEF Categorize
<1>2. PICK old, x : old = txns[t] /\ x = [txns[t] EXCEPT !.confirmedAccountId = a]
  OBVIOUS
<1>3. old \in Txn /\ TxnIntact(Payload, old)
  BY <1>2, TxnsTyped DEF TxnsOK
<1>4. /\ x \in Txn /\ x.confirmedAccountId = a /\ x.allocations = old.allocations
      /\ x.journalBatchId = old.journalBatchId
  BY <1>2, <1>3, StatementAssumption DEF Txn
<1>5. /\ TxnsOK' /\ DOMAIN txns' = DOMAIN txns /\ txns'[t] = x
      /\ \A u \in DOMAIN txns \ {t} : txns'[u] = txns[u]
  <2>1. txns' = [txns EXCEPT ![t] = x]
    BY <1>2 DEF Categorize, SetTxn
  <2> QED BY <1>4, <2>1, TxnsTyped, TxnSet
<1>6. ASSUME NEW u \in DOMAIN txns' PROVE TxnIntact(Payload, txns[u])'
  <2>1. CASE u = t
    <3>1. txns'[u] = x
      BY <1>5, <2>1
    <3> QED BY <1>1, <1>3, <1>4, <3>1 DEF TxnIntact, Payload, OnStatements
  <2>2. CASE u # t
    <3>1. u \in DOMAIN txns /\ txns'[u] = txns[u]
      BY <1>5, <2>2
    <3> QED BY <1>1, <3>1, TxnsTyped DEF TxnIntact, Payload, OnStatements
  <2> QED BY <2>1, <2>2
<1>7. TxnsIntact(Payload)'
  BY <1>5, <1>6 DEF TxnsIntact, TxnsOK, Payload
<1> QED BY <1>1, <1>7, ImportsStay, NoJournalStep

\* Marked transactions keep their accounts.
LEMMA MarkedIntact ==
  ASSUME KevinInv, OnStatements, PostingsStay, NEW T \in SUBSET DOMAIN txns,
         NEW b \in BatchId \cup {None}, txns' = Marked(T, b),
         b # None => /\ b \in DOMAIN rows' /\ rows'[b].sourceType = "import"
                     /\ rows'[b].status \in {"posted", "voided"}
  PROVE  TxnsIntact(Payload)'
<1>1. TxnsOK' /\ DOMAIN txns' = DOMAIN txns
  BY TxnsTyped, MarkedIs
<1>2. ASSUME NEW t \in DOMAIN txns PROVE TxnIntact(Payload, txns[t])'
  <2>1. PICK old : old = txns[t]
    OBVIOUS
  <2>2. old \in Txn /\ TxnIntact(Payload, old)
    BY <2>1, TxnsTyped DEF TxnsOK
  <2>3. CASE t \in T
    <3>1. txns'[t] = [old EXCEPT !.journalBatchId = b]
      BY <2>1, <2>3 DEF Marked
    <3>2. /\ txns'[t].journalBatchId = b /\ txns'[t].allocations = old.allocations
          /\ txns'[t].confirmedAccountId = old.confirmedAccountId
      BY <2>2, <3>1 DEF Txn
    <3> QED BY <2>2, <3>2 DEF TxnIntact, Payload, OnStatements
  <2>4. CASE t \notin T
    <3>1. txns'[t] = old
      BY <2>1, <2>4 DEF Marked
    <3> QED BY <2>2, <3>1 DEF TxnIntact, Payload, OnStatements, PostingsStay
  <2> QED BY <2>3, <2>4
<1> QED BY <1>1, <1>2 DEF TxnsIntact, TxnsOK, Payload

LEMMA UserPostKeeps ==
  ASSUME KevinInv, OnStatements, NEW g, PostStatement(g)
  PROVE  KevinInv'
<1>1. PICK primary \in FilesOf(g), T \in SUBSET DOMAIN txns, linked \in OrgAccount, card \in BOOLEAN :
           /\ T = Postable(TxnsOf(FilesOf(g))) /\ linked = imports[primary].linkedAccountId
           /\ card = (primary \in CardStatement /\ linked \in Liability)
           /\ \A s \in FilesOf(g) : imports[s].linkedAccountId = linked
           /\ \/ /\ T # {} /\ CreateBatch(PostingContent(T, linked, card), "posted", T, FALSE)
                 /\ txns' = Marked(T, Len(rows) + 1)
              \/ UNCHANGED <<rows, answers, txns>>
           /\ SetStatus(FilesOf(g), "imported") \/ UNCHANGED imports
  BY ImportsTyped, PostStatementIs
<1>2. ImportsIntact(Payload)'
  BY <1>1, StatusIntact, ImportsStay
<1>3. CASE UNCHANGED <<rows, answers, txns>>
  <2>1. UNCHANGED <<rows, answers>> /\ UNCHANGED rows /\ UNCHANGED txns
    BY <1>3
  <2> QED BY <1>2, <2>1, TxnsStay, NoJournalStep
<1>4. CASE /\ T # {} /\ CreateBatch(PostingContent(T, linked, card), "posted", T, FALSE)
           /\ txns' = Marked(T, Len(rows) + 1)
  <2>1. PICK c, n : c = PostingContent(T, linked, card) /\ n = Len(rows) + 1
    OBVIOUS
  <2>2. \A t \in T : txns[t].confirmedAccountId # NoAccount
    BY <1>1 DEF Postable
  <2>3. c \in Submitted
    BY <2>1, <2>2, TxnsTyped, PostingSubmitted
  <2>4. T \in SourceKey /\ T # NoSource
    <3>1. T \in SUBSET TxnId
      BY TxnsTyped DEF TxnsOK
    <3> QED BY <1>4, <3>1, StatementAssumption, JournalAssumption
  <2>5. \A i \in DOMAIN c.lines : c.lines[i].account \in chart
    <3>1. linked \in chart
      <4>1. primary \in Statement
        BY DEF FilesOf, Present
      <4> QED BY <1>1, <4>1, ImportsTyped, StatementAssumption, JournalAssumption
    <3>2. ASSUME NEW t \in T PROVE GivenTo(t) \subseteq chart
      <4>1. txns[t].confirmedAccountId \in chart
            /\ \A i \in DOMAIN txns[t].allocations : txns[t].allocations[i].account \in chart
        BY <2>2, TxnsTyped DEF TxnIntact, Payload
      <4> QED BY <4>1 DEF GivenTo
    <3>3. PICK A : A = chart
      OBVIOUS
    <3>4. c.lines \in Seq(LineOn(A))
      BY <2>1, <3>1, <3>2, <3>3, TxnsTyped, PostingContentTyped
    <3>5. PICK ls : ls = c.lines
      OBVIOUS
    <3>6. \A i \in DOMAIN ls : ls[i] \in LineOn(A)
      BY <3>4, <3>5, SeqElements
    <3> QED BY <3>3, <3>5, <3>6 DEF LineOn
  <2>6. /\ TypeOK' /\ NoneRemoved /\ PostingsStay
        /\ \A b \in DOMAIN rows' : rows'[b].status # "deleted" =>
             PointsBack(rows', b) /\ LinesIn(rows'[b], chart)
        /\ DOMAIN rows' = DOMAIN rows \cup {n} /\ n \in BatchId \ DOMAIN rows
        /\ rows'[n] = PlainRow(c, "posted", T, FALSE)
    <3>1. CreateBatch(c, "posted", T, FALSE)
      BY <1>4, <2>1
    <3> QED BY <2>1, <2>3, <2>4, <2>5, <3>1, CreatedIntact
  <2>7. n \in DOMAIN rows' /\ rows'[n].status = "posted" /\ rows'[n].sourceType = "import"
    BY <2>4, <2>6 DEF PlainRow
  <2>8. TxnsIntact(Payload)'
    <3>1. txns' = Marked(T, n)
      BY <1>4, <2>1
    <3> QED BY <2>6, <2>7, <3>1, MarkedIntact
  <2>9. RowsIntact(Payload)'
    BY <2>6 DEF RowsIntact, Payload, TypeOK, OnStatements
  <2> QED BY <1>2, <2>6, <2>8, <2>9, StatementStep DEF TypeOK
<1> QED BY <1>1, <1>3, <1>4

LEMMA UserUnpostKeeps ==
  ASSUME KevinInv, OnStatements, NEW g, UnpostStatement(g)
  PROVE  KevinInv'
<1>1. PICK T : T = {t \in TxnsOf(FilesOf(g)) : txns[t].journalBatchId # None}
  OBVIOUS
<1>2. PICK B : B = {txns[t].journalBatchId : t \in T}
  OBVIOUS
<1>3. PICK L : L = Lifecycles(B)
  OBVIOUS
<1>4. /\ rows' = Unposted(B) /\ txns' = Marked(T, None) /\ UNCHANGED answers
      /\ SetStatus({s \in FilesOf(g) : imports[s].status = "imported"}, "extracted")
  BY <1>1, <1>2 DEF UnpostStatement
<1>5. T \in SUBSET DOMAIN txns
  BY <1>1 DEF TxnsOf
<1>6. VoidStep(L)
  BY <1>3, <1>4, UnpostedStep, RowsAre
<1>7. \A b \in B : b \in UserFacing
  <2> SUFFICES ASSUME NEW t \in T PROVE txns[t].journalBatchId \in UserFacing
    BY <1>2
  <2> QED BY <1>1, <1>5, TxnsTyped DEF TxnIntact, Payload, UserFacing
<1>8. \A x \in DOMAIN rows : rows[x].status # "deleted" /\ rows[x].originalBatchId # None =>
        (x \in L <=> rows[x].originalBatchId \in L)
  <2> SUFFICES ASSUME NEW x \in DOMAIN rows, rows[x].status # "deleted",
                      rows[x].originalBatchId # None
               PROVE  x \in L <=> rows[x].originalBatchId \in L
    OBVIOUS
  <2>1. ASSUME NEW r \in DOMAIN rows, NEW b \in B, IsRootOf(r, b)
        PROVE  x \in LifecycleOf(r) <=> rows[x].originalBatchId \in LifecycleOf(r)
    BY <1>7, <2>1, BothOrNone
  <2> QED BY <1>3, <2>1 DEF Lifecycles
<1>9. UNCHANGED <<answers, chart>>
  BY <1>4 DEF OnStatements
<1>10. /\ TypeOK' /\ NoneRemoved /\ PostingsStay
       /\ \A x \in DOMAIN rows' : rows'[x].status # "deleted" =>
            PointsBack(rows', x) /\ LinesIn(rows'[x], chart)
  BY <1>6, <1>8, <1>9, VoidIntact
<1>11. TxnsIntact(Payload)'
  BY <1>4, <1>5, <1>10, MarkedIntact
<1>12. ImportsIntact(Payload)'
  BY <1>4, StatusIntact
<1>13. RowsIntact(Payload)'
  BY <1>9, <1>10 DEF RowsIntact, Payload, TypeOK
<1> QED BY <1>10, <1>11, <1>12, <1>13, StatementStep DEF TypeOK

LEMMA UserOnStatementsKeeps ==
  ASSUME KevinInv, UserOnStatements, UNCHANGED asks
  PROVE  KevinInv'
<1>1. OnStatements
  BY DEF UserOnStatements, OnStatements
<1>2. ASSUME NEW s \in Statement, Upload(s), imports'[s].linkedAccountId \in chart \cup {NoAccount}
      PROVE  KevinInv'
  BY <1>1, <1>2, UserUploadKeeps
<1>3. ASSUME NEW s \in Statement, NEW r \in Run, Extract(s, r) PROVE KevinInv'
  BY <1>1, <1>3, UserExtractKeeps
<1>4. ASSUME NEW t \in DOMAIN txns, NEW a \in Category \cap chart, Categorize(t, a)
      PROVE  KevinInv'
  BY <1>1, <1>4, UserCategorizeKeeps
<1>5. ASSUME NEW g \in ImportBatch, PostStatement(g) PROVE KevinInv'
  BY <1>1, <1>5, UserPostKeeps
<1>6. ASSUME NEW g \in ImportBatch, UnpostStatement(g) PROVE KevinInv'
  BY <1>1, <1>6, UserUnpostKeeps
<1> QED BY <1>2, <1>3, <1>4, <1>5, <1>6 DEF UserOnStatements
-----------------------------------------------------------------------------
(* All steps together *)

LEMMA KevinStart == KevinInit => KevinInv
<1> SUFFICES ASSUME KevinInit PROVE KevinInv
  OBVIOUS
<1>1. /\ rows = <<>> /\ answers = {} /\ txns = <<>> /\ actions = <<>> /\ snapshots = <<>>
      /\ imports = [s \in Statement |-> [status |-> "absent", linkedAccountId |-> NoAccount]]
      /\ asks = [r \in Request |-> NotAsked]
  BY DEF KevinInit, TimeMachineInit, PostingInit, Init
<1>2. rows \in Seq(Row) /\ Len(rows) <= MaxBatches /\ DOMAIN rows = {}
  <2>1. <<>> \in Seq(Row) /\ Len(<<>>) = 0 /\ DOMAIN <<>> = {}
    BY EmptySeq
  <2> QED BY <1>1, <2>1, JournalAssumption
<1>3. RowsIntact(Payload)
  BY <1>2 DEF RowsIntact, Payload
<1>4. TxnsIntact(Payload)
  <2>1. DOMAIN txns = {} /\ txns \in [{} -> Txn]
    BY <1>1, EmptySeq
  <2> QED BY <2>1, FS_EmptySet DEF TxnsIntact, Payload
<1>5. ImportsIntact(Payload)
  BY <1>1 DEF ImportsIntact, Payload, SomeImport, ImportStatus
<1>6. IsList(<<>>) /\ DOMAIN <<>> = {}
  BY EmptySeq DEF IsList
<1>7. ActionsSound(Payload, Len(snapshots) + 1) /\ SnapshotsSound
  BY <1>1, <1>6 DEF ActionsSound, SnapshotsSound, Payload
<1>8. AsksSound
  <2>1. AskSound(NotAsked)
    BY DEF NotAsked, AskSound, IsAsk, None
  <2> QED BY <1>1, <2>1 DEF AsksSound
<1> QED BY <1>1, <1>3, <1>4, <1>5, <1>7, <1>8 DEF KevinInv, Intact

LEMMA SendRequestKeeps ==
  ASSUME KevinInv, NEW r \in Request, SendRequest(r)
  PROVE  KevinInv'
<1>1. CASE OpenPage(r)
  BY <1>1, OpenPageKeeps
<1>2. ASSUME NEW c \in Proposal, NEW st \in {"draft", "posted"}, SendJournal(r, c, st)
      PROVE  KevinInv'
  BY <1>2, SendJournalKeeps
<1>3. ASSUME NEW kind \in {"accounts", "standard_chart", "undo", "question"}, SendChat(r, kind)
      PROVE  KevinInv'
  BY <1>3, SendChatKeeps
<1>4. ASSUME NEW i \in DOMAIN actions, SendUndo(r, i) PROVE KevinInv'
  BY <1>4, SendUndoKeeps
<1> QED BY <1>1, <1>2, <1>3, <1>4 DEF SendRequest

LEMMA KevinStepKeeps ==
  ASSUME KevinInv, NEW r \in Request, KevinStep(r)
  PROVE  KevinInv'
<1>1. CASE StoreMessage(r)
  BY <1>1, StoreMessageKeeps
<1>2. CASE ProposeAccounts(r)
  BY <1>2, ProposeKeeps
<1>3. CASE Checkpoint(r)
  BY <1>3, CheckpointKeeps
<1>4. CASE WriteJournal(r)
  BY <1>4, WriteJournalKeeps
<1>5. CASE WriteAccounts(r)
  BY <1>5, WriteAccountsKeeps
<1>6. CASE RecordAction(r)
  BY <1>6, RecordActionKeeps
<1>7. CASE Reply(r)
  BY <1>7, ReplyKeeps
<1>8. CASE FindLatest(r)
  BY <1>8, FindLatestKeeps
<1>9. CASE ReadAction(r)
  BY <1>9, ReadActionKeeps
<1>10. CASE UndoRestore(r)
  BY <1>10, UndoRestoreKeeps
<1>11. CASE EnsureThread(r)
  BY <1>11, EnsureThreadKeeps
<1> QED BY <1>1, <1>2, <1>3, <1>4, <1>5, <1>6, <1>7, <1>8, <1>9, <1>10, <1>11 DEF KevinStep

LEMMA KevinMoves == KevinInv /\ [KevinNext]_kevinVars => KevinInv'
<1> SUFFICES ASSUME KevinInv, [KevinNext]_kevinVars PROVE KevinInv'
  OBVIOUS
<1>1. ASSUME NEW r \in Request, SendRequest(r) \/ KevinStep(r) PROVE KevinInv'
  BY <1>1, SendRequestKeeps, KevinStepKeeps
<1>2. CASE UserOnJournals /\ UNCHANGED asks
  BY <1>2, UserOnJournalsKeeps
<1>3. CASE UserOnStatements /\ UNCHANGED asks
  BY <1>3, UserOnStatementsKeeps
<1>4. CASE TimeMachinePage /\ UNCHANGED asks
  BY <1>4, TimeMachinePageKeeps
<1>5. CASE UNCHANGED kevinVars
  <2>1. Unwritten /\ UNCHANGED rows /\ UNCHANGED snapshots /\ UNCHANGED asks
    BY <1>5 DEF kevinVars, timeVars, tables, Unwritten
  <2>2. AsksSound'
    BY <2>1, NothingGrows, AsksSame DEF KevinInv
  <2> QED BY <2>1, <2>2, Unwriting
<1> QED BY <1>1, <1>2, <1>3, <1>4, <1>5 DEF KevinNext

\* The inductive invariant holds: the tables of the books, those of every checkpoint and
\* what the requests on their way have read fit together, in whatever order checkpoints
\* are taken and restored between the awaits of Kevin's requests.
THEOREM KevinStaysSound == KevinSpec => []KevinInv
<1>1. KevinInit => KevinInv
  BY KevinStart
<1>2. KevinInv /\ [KevinNext]_kevinVars => KevinInv'
  BY KevinMoves
<1> QED BY <1>1, <1>2, PTL DEF KevinSpec

LEMMA IntactRefers == KevinInv => ReferencesIntact
<1> SUFFICES ASSUME KevinInv PROVE ReferencesIntact
  OBVIOUS
<1>1. ASSUME NEW b \in DOMAIN rows, rows[b].status # "deleted"
      PROVE  /\ AccountsOf(b) \subseteq chart
             /\ rows[b].originalBatchId # None =>
                  rows[rows[b].originalBatchId].status = rows[b].status
  <2>1. PointsBack(rows, b) /\ LinesIn(rows[b], chart)
    BY <1>1, RowsAre
  <2> QED BY <2>1 DEF PointsBack, LinesIn, AccountsOf
<1>2. ASSUME NEW t \in DOMAIN txns, txns[t].journalBatchId # None
      PROVE  rows[txns[t].journalBatchId].status # "deleted"
  <2>1. TxnIntact(Payload, txns[t])
    BY TxnsTyped
  <2> QED BY <1>2, <2>1 DEF TxnIntact, Payload
<1> QED BY <1>1, <1>2 DEF ReferencesIntact

\* Whatever checkpoint is restored, and whatever Kevin's requests write before and after,
\* no journal is left on an account that is gone, no correction without what it corrects,
\* and no statement line marked with a journal that is gone.
THEOREM RestoredReferencesIntact == KevinSpec => []ReferencesIntact
BY KevinStaysSound, IntactRefers, PTL

LEMMA SoundUndoable == KevinInv => ActionsUndoable
<1> SUFFICES ASSUME KevinInv, NEW i \in DOMAIN actions
             PROVE  LET payload == snapshots[actions[i].snapshot].payload
                    IN  /\ actions[i] \notin Range(payload.actions)
                        /\ actions[i].journalBatchId # None =>
                             /\ rows[actions[i].journalBatchId].status # "deleted"
                             /\ actions[i].journalBatchId \notin DOMAIN payload.rows
  BY DEF ActionsUndoable, Range
<1>1. PICK a, n, p : a = actions[i] /\ n = actions[i].snapshot
                     /\ p = snapshots[actions[i].snapshot].payload
  OBVIOUS
<1>2. ActionSound(Payload, a, Len(snapshots) + 1)
  BY <1>1 DEF KevinInv, ActionsSound, Payload
<1>3. n \in DOMAIN snapshots /\ n \in Int
  BY <1>1, <1>2, SnapshotsShape DEF ActionSound, KevinInv
<1>4. ActionsSound(p, n)
  BY <1>1, <1>3 DEF KevinInv, SnapshotsSound
<1>5. ASSUME a \in Range(p.actions) PROVE FALSE
  <2>1. ActionSound(p, a, n)
    BY <1>4, <1>5 DEF ActionsSound, Range
  <2>2. n < n
    BY <1>1, <2>1 DEF ActionSound
  <2> QED BY <1>3, <2>2
<1>6. a.journalBatchId # None => rows[a.journalBatchId].status # "deleted"
                                 /\ a.journalBatchId \notin DOMAIN p.rows
  BY <1>1, <1>2 DEF ActionSound, Payload
<1> QED BY <1>1, <1>5, <1>6

\* An action on record can be undone: the checkpoint it names knows neither the action
\* nor its journal, however the awaits of its request were interleaved with the others.
THEOREM RecordedActionsUndoable == KevinSpec => []ActionsUndoable
BY KevinStaysSound, SoundUndoable, PTL

\* A step of one request does not move another.
LEMMA OthersStay ==
  ASSUME KevinInv, NEW q \in Request, NEW r \in Request, r # q, SendRequest(q) \/ KevinStep(q)
  PROVE  asks'[r] = asks[r]
<1>1. r \in DOMAIN asks
  BY AskIs
<1>2. ASSUME NEW a, asks' = [asks EXCEPT ![q] = a] PROVE asks'[r] = asks[r]
  BY <1>1, <1>2
<1>3. ASSUME NEW pc, AskGoesTo(q, pc) PROVE asks'[r] = asks[r]
  BY <1>2, <1>3, GoneTo
<1>4. CASE SendRequest(q)
  <2>1. CASE OpenPage(q)
    <3>1. PICK th : asks' = [asks EXCEPT ![q].pc = "page", ![q].thread = th]
      BY <2>1 DEF OpenPage
    <3> QED BY <1>1, <3>1
  <2>2. CASE \E c \in Proposal, st \in {"draft", "posted"} : SendJournal(q, c, st)
    <3>1. PICK c, st : asks' = [asks EXCEPT ![q].pc = "checkpoint", ![q].kind = "journal",
                                           ![q].content = c, ![q].status = st]
      BY <2>2 DEF SendJournal
    <3> QED BY <1>1, <3>1
  <2>3. CASE \E kind \in {"accounts", "standard_chart", "undo", "question"} : SendChat(q, kind)
    <3>1. PICK kind, th : asks' = [asks EXCEPT ![q].pc = "message", ![q].kind = kind,
                                              ![q].thread = th]
      BY <2>3 DEF SendChat
    <3> QED BY <1>1, <3>1
  <2>4. CASE \E i \in DOMAIN actions : SendUndo(q, i)
    <3>1. PICK n : asks' = [asks EXCEPT ![q].pc = "restore", ![q].kind = "undo_route",
                                       ![q].snapshot = n]
      BY <2>4 DEF SendUndo
    <3> QED BY <1>1, <3>1
  <2> QED BY <1>4, <2>1, <2>2, <2>3, <2>4 DEF SendRequest
<1>5. CASE \/ StoreMessage(q) \/ Reply(q) \/ ReadAction(q) \/ UndoRestore(q)
           \/ EnsureThread(q)
  BY <1>3, <1>5 DEF StoreMessage, Reply, ReadAction, UndoRestore, EnsureThread
<1>6. ASSUME asks' = [asks EXCEPT ![q].pc = "reply", ![q].kind = "question"]
      PROVE  asks'[r] = asks[r]
  BY <1>1, <1>6
<1>7. CASE ProposeAccounts(q) \/ WriteAccounts(q)
  BY <1>3, <1>6, <1>7 DEF ProposeAccounts, WriteAccounts
<1>8. CASE FindLatest(q)
  <2>1. ASSUME NEW n, asks' = [asks EXCEPT ![q].pc = "read", ![q].snapshot = n]
        PROVE  asks'[r] = asks[r]
    BY <1>1, <2>1
  <2> QED BY <1>3, <1>8, <2>1 DEF FindLatest
<1>9. CASE Checkpoint(q)
  <2>1. PICK n : asks' = [asks EXCEPT ![q].pc = "write", ![q].snapshot = n]
    BY <1>9 DEF Checkpoint
  <2> QED BY <1>1, <2>1
<1>10. CASE WriteJournal(q)
  <2>1. ASSUME NEW n, asks' = [asks EXCEPT ![q] = [@ EXCEPT !.pc = "record", !.batch = n,
                                               !.content = <<>>, !.status = "none"]]
        PROVE  asks'[r] = asks[r]
    BY <1>1, <2>1
  <2> QED BY <1>3, <1>10, <2>1 DEF WriteJournal
<1>11. CASE RecordAction(q)
  BY <1>3, <1>11 DEF RecordAction
<1> QED BY <1>4, <1>5, <1>7, <1>8, <1>9, <1>10, <1>11 DEF KevinStep

\* A request that is about to restore a checkpoint does nothing else.
LEMMA OnlyRestores ==
  ASSUME KevinInv, [KevinNext]_kevinVars, NEW r \in Request, AskAt(r, "restore"),
         asks'[r].pc # "restore"
  PROVE  UndoRestore(r)
<1>1. asks'[r] # asks[r]
  BY DEF AskAt
<1>2. PICK q \in Request : SendRequest(q) \/ KevinStep(q)
  BY <1>1 DEF KevinNext, kevinVars
<1>3. q = r
  BY <1>1, <1>2, OthersStay
<1>4. ~SendRequest(r)
  BY DEF SendRequest, OpenPage, SendJournal, SendChat, SendUndo, AskAt
<1>5. ~(StoreMessage(r) \/ ProposeAccounts(r) \/ Checkpoint(r) \/ WriteJournal(r)
        \/ WriteAccounts(r) \/ RecordAction(r) \/ Reply(r)
        \/ FindLatest(r) \/ ReadAction(r) \/ EnsureThread(r))
  BY DEF StoreMessage, ProposeAccounts, Checkpoint, WriteJournal, WriteAccounts, RecordAction,
         Reply, FindLatest, ReadAction, EnsureThread, AskAt
<1> QED BY <1>2, <1>3, <1>4, <1>5 DEF KevinStep

LEMMA UndoTakes ==
  ASSUME KevinInv, [KevinNext]_kevinVars, NEW r \in Request, NEW i \in DOMAIN actions,
         AskAt(r, "restore"), asks'[r].pc # "restore", actions[i].snapshot = asks[r].snapshot
  PROVE  /\ actions[i] \notin Range(actions')
         /\ actions[i].journalBatchId # None =>
              rows'[actions[i].journalBatchId].status = "deleted"
<1>1. PICK a, p : a = actions[i] /\ p = snapshots[actions[i].snapshot].payload
  OBVIOUS
<1>2. UndoRestore(r)
  BY OnlyRestores
<1>3. rows' = RestoredRows(p) /\ actions' = p.actions
  BY <1>1, <1>2 DEF UndoRestore, Restore, RestoredActions
<1>4. /\ a \notin Range(p.actions)
      /\ a.journalBatchId # None => a.journalBatchId \notin DOMAIN p.rows
  BY <1>1, SoundUndoable DEF ActionsUndoable, Range
<1>5. a.journalBatchId # None => a.journalBatchId \in DOMAIN rows
  BY <1>1 DEF KevinInv, ActionsSound, ActionSound, Payload
<1>6. ASSUME a.journalBatchId # None PROVE rows'[a.journalBatchId].status = "deleted"
  <2>1. PICK b, y : b = a.journalBatchId /\ y = rows[a.journalBatchId]
    OBVIOUS
  <2>2. y \in Row /\ rows'[b] = [y EXCEPT !.status = "deleted"]
    BY <1>3, <1>4, <1>5, <1>6, <2>1, RowsAre DEF RestoredRows
  <2> QED BY <2>1, <2>2 DEF Row
<1> QED BY <1>1, <1>3, <1>4, <1>6

\* Undoing removes the journal of the action and its record, whatever was done or restored
\* since the undo was asked for.
THEOREM UndoingTakesBack == KevinSpec => UndoTakesBack
<1>1. KevinInv /\ [KevinNext]_kevinVars =>
        [\A r \in Request, i \in DOMAIN actions :
           /\ AskAt(r, "restore") /\ asks'[r].pc # "restore"
           /\ actions[i].snapshot = asks[r].snapshot
           => /\ actions[i] \notin Range(actions')
              /\ actions[i].journalBatchId # None =>
                   rows'[actions[i].journalBatchId].status = "deleted"]_kevinVars
  BY UndoTakes
<1>2. KevinSpec => []KevinInv
  BY KevinStaysSound
<1> QED BY <1>1, <1>2, PTL DEF KevinSpec, UndoTakesBack
=============================================================================
