---------------------------- MODULE ReportsProofs ----------------------------
(***************************************************************************)
(* Machine-checked proofs about what is read from the journal, for every   *)
(* value of the constants: any chart of accounts, any days, any fiscal     *)
(* year.  First JournalBook, the journal list and the sums that reports    *)
(* are made of, and that it implements EntryBook; then Reports.  Last the  *)
(* pages: the calendar that their periods come from, for every day and     *)
(* every fiscal year, and the tabs and controls that hold those periods.   *)
(***************************************************************************)
EXTENDS Reports, ReportTabs, JournalProofs, DataLemmas

(* The lines of one journal *)

LEMMA LinesType ==
  ASSUME NEW ls \in Seq(StoredLine)
  PROVE  /\ IsFiniteSet(DOMAIN ls)
         /\ \A i \in DOMAIN ls : /\ ls[i].debit \in Nat /\ ls[i].credit \in Nat
                                 /\ ls[i].account \in AccountId /\ ls[i].date \in Date
<1>1. ls \in [1..Len(ls) -> StoredLine] /\ Len(ls) \in Nat
  BY LenProperties
<1>2. \A i \in DOMAIN ls : ls[i] \in StoredLine
  BY <1>1
<1>3. IsFiniteSet(DOMAIN ls)
  BY <1>1, FS_Interval
<1> QED  BY <1>2, <1>3 DEF StoredLine, Line, OneSided

\* A stored line has no negative amounts, so a total is the sum of the amounts.
LEMMA TotalIsSum ==
  ASSUME NEW S, IsFiniteSet(S), NEW f, \A i \in S : f[i] \in Nat
  PROVE  Total([i \in S |-> f[i]]) = SumFunctionOnSet(f, S)
<1> DEFINE g == [i \in S |-> Positive(f[i])]
           amounts == [i \in S |-> f[i]]
<1>1. \A i \in S : g[i] = f[i]
  BY DEF Positive
<1>2. [i \in DOMAIN amounts |-> Positive(amounts[i])] = g
  OBVIOUS
<1>3. Total(amounts) = SumFunctionOnSet(g, S)
  BY <1>2, DOMAIN g = S DEF Total, SumFunction
<1>4. SumFunctionOnSet(g, S) = SumFunctionOnSet(f, S)
  <2> HIDE DEF g
  <2> QED BY <1>1, SumSame
<1> QED BY <1>3, <1>4

LineNets(ls) == [i \in DOMAIN ls |-> ls[i].debit - ls[i].credit]

OnDay(ls, d) == {i \in DOMAIN ls : ls[i].date = d}

LEMMA NetIsSum ==
  ASSUME NEW ls \in Seq(StoredLine), NEW a, NEW d
  PROVE  /\ NetOf(ls, a, d) = SumFunctionOnSet(LineNets(ls), {i \in OnDay(ls, d) : ls[i].account = a})
         /\ NetOf(ls, a, d) \in Int
<1> DEFINE S == {j \in DOMAIN ls : ls[j].account = a /\ ls[j].date = d}
           g == [i \in S |-> ls[i].debit - ls[i].credit]
<1>1. IsFiniteSet(S) /\ \A i \in S : g[i] = LineNets(ls)[i] /\ LineNets(ls)[i] \in Int
  BY LinesType, FS_Subset DEF LineNets
<1>2. NetOf(ls, a, d) = SumFunctionOnSet(g, S)
  BY DOMAIN g = S DEF NetOf, SumFunction
<1>3. SumFunctionOnSet(g, S) = SumFunctionOnSet(LineNets(ls), S)
  <2> HIDE DEF g, S
  <2> QED BY <1>1, SumSame
<1>4. SumFunctionOnSet(LineNets(ls), S) \in Int
  <2> HIDE DEF g, S
  <2> QED BY <1>1, SumInt
<1>5. S = {i \in OnDay(ls, d) : ls[i].account = a}
  BY DEF OnDay
<1> QED BY <1>2, <1>3, <1>4, <1>5

\* What a journal that balances on every date adds to a day, it adds to some
\* account and takes from another.
LEMMA NetsCancel ==
  ASSUME NEW ls \in Seq(StoredLine), BalancedOnEveryDate(ls),
         \A i \in DOMAIN ls : ls[i].account \in OrgAccount, NEW d
  PROVE  SumFunctionOnSet([a \in OrgAccount |-> NetOf(ls, a, d)], OrgAccount) = 0
<1> DEFINE S == OnDay(ls, d)
           key == [i \in DOMAIN ls |-> ls[i].account]
           nets == LineNets(ls)
           debits == Debits(ls)
           credits == Credits(ls)
<1>1. IsFiniteSet(S) /\ S \subseteq DOMAIN ls
  BY LinesType, FS_Subset DEF OnDay
<1>2. \A i \in S : /\ key[i] \in OrgAccount
                   /\ debits[i] \in Nat /\ credits[i] \in Nat
                   /\ debits[i] \in Int /\ credits[i] \in Int /\ nets[i] \in Int
                   /\ nets[i] = debits[i] - credits[i]
  BY <1>1, LinesType DEF LineNets, Debits, Credits
<1>3. \A a \in OrgAccount : NetOf(ls, a, d) = SumFunctionOnSet(nets, {i \in S : key[i] = a})
  <2> TAKE a \in OrgAccount
  <2>1. {i \in S : key[i] = a} = {i \in OnDay(ls, d) : ls[i].account = a}
    BY <1>1
  <2>2. NetOf(ls, a, d) = SumFunctionOnSet(nets, {i \in OnDay(ls, d) : ls[i].account = a})
    BY NetIsSum
  <2> HIDE DEF nets, key, S
  <2> QED BY <2>1, <2>2
<1>4. SumFunctionOnSet(nets, S) = 0
  <2>1. SumFunctionOnSet(nets, S) = SumFunctionOnSet(debits, S) - SumFunctionOnSet(credits, S)
    <3> HIDE DEF nets, debits, credits, S, key
    <3> QED BY <1>1, <1>2, SumMinus
  <2>2. SumFunctionOnSet(debits, S) \in Int
    <3> HIDE DEF nets, debits, credits, S, key
    <3> QED BY <1>1, <1>2, SumInt
  <2>3. SumFunctionOnSet(debits, S) = SumFunctionOnSet(credits, S)
    <3>1. CASE S = {}
      BY <3>1, SumEmpty
    <3>2. CASE S # {}
      <4>1. d \in GlDates(ls)
        BY <3>2 DEF GlDates, OnDay
      <4>2. OnDate(debits, ls, d) = [i \in S |-> debits[i]] /\ OnDate(credits, ls, d) = [i \in S |-> credits[i]]
        BY DEF OnDate, OnDay
      <4>3. Total([i \in S |-> debits[i]]) = Total([i \in S |-> credits[i]])
        BY <4>1, <4>2 DEF BalancedOnEveryDate
      <4> HIDE DEF nets, debits, credits, S, key
      <4> QED BY <1>1, <1>2, <4>3, TotalIsSum
    <3> QED BY <3>1, <3>2
  <2> QED BY <2>1, <2>2, <2>3
<1>5. [a \in OrgAccount |-> NetOf(ls, a, d)]
        = [a \in OrgAccount |-> SumFunctionOnSet(nets, {i \in S : key[i] = a})]
  BY <1>3
<1> HIDE DEF nets, debits, credits, S, key
<1>7. SumFunctionOnSet([a \in OrgAccount |-> SumFunctionOnSet(nets, {i \in S : key[i] = a})], OrgAccount)
        = SumFunctionOnSet(nets, S)
  <2>1. \A i \in S : key[i] \in OrgAccount /\ nets[i] \in Int
    BY <1>2
  <2> QED BY <1>1, <2>1, BookAssumption, SumByKey
<1> QED BY <1>4, <1>5, <1>7
-----------------------------------------------------------------------------
(* All journals *)

\* Every draft or posted batch balances on every day, not only in total.
EveryBatchBalances ==
  \A b \in DOMAIN rows : Live(b) => BalancedOnEveryDate(rows[b].content.lines)

\* A reversal has the dates of its original, and its totals change places.
LEMMA ReversalBalances ==
  ASSUME NEW ls \in Seq(StoredLine), BalancedOnEveryDate(ls)
  PROVE  BalancedOnEveryDate(BuildReversalLines(ls))
<1> DEFINE rev == BuildReversalLines(ls)
<1>1. DOMAIN rev = DOMAIN ls /\ \A i \in DOMAIN ls : rev[i].date = ls[i].date
  BY DEF BuildReversalLines
<1>2. Debits(rev) = Credits(ls) /\ Credits(rev) = Debits(ls)
  BY ReversalLines
<1> HIDE DEF rev
<1>3. GlDates(rev) = GlDates(ls)
  BY <1>1 DEF GlDates
<1>4. \A d, amounts : OnDate(amounts, rev, d) = OnDate(amounts, ls, d)
  BY <1>1 DEF OnDate
<1>5. BalancedOnEveryDate(rev)
  BY <1>2, <1>3, <1>4 DEF BalancedOnEveryDate
<1> QED BY <1>5 DEF rev

LEMMA BalancedStep == IndInv /\ EveryBatchBalances /\ [Next]_vars => EveryBatchBalances'
<1> SUFFICES ASSUME IndInv, EveryBatchBalances, Next, NEW x \in DOMAIN rows', Live(x)'
             PROVE  BalancedOnEveryDate(rows'[x].content.lines)
  <2>1. CASE UNCHANGED vars
    BY <2>1 DEF vars, EveryBatchBalances, Live
  <2> QED  BY <2>1 DEF EveryBatchBalances
<1>1. HasOrigin(x)
  BY ContentOrigin
<1>2. ASSUME NEW b \in DOMAIN rows, Live(b)
      PROVE  BalancedOnEveryDate(BuildReversalLines(rows[b].content.lines))
  BY <1>2, StoredLines, ReversalBalances DEF EveryBatchBalances, IndInv
<1> QED
  BY <1>1, <1>2 DEF HasOrigin, EveryBatchBalances, Submittable

\* A revision or a reversal is younger than what it was made from.
OlderFirst == \A x \in DOMAIN rows : rows[x].originalBatchId < x

LEMMA OlderStep == IndInv /\ OlderFirst /\ [Next]_vars => OlderFirst'
<1> SUFFICES ASSUME IndInv, OlderFirst, Next, NEW x \in DOMAIN rows'
             PROVE  rows'[x].originalBatchId < x
  <2>1. CASE UNCHANGED vars
    BY <2>1 DEF vars, OlderFirst
  <2> QED  BY <2>1 DEF OlderFirst
<1>0. TypeOK /\ DOMAIN rows = 1 .. Len(rows) /\ Len(rows) \in Nat
  BY Table DEF IndInv
<1>1. ASSUME x \in DOMAIN rows, rows'[x].originalBatchId = rows[x].originalBatchId
      PROVE  rows'[x].originalBatchId < x
  BY <1>1 DEF OlderFirst
<1>2. ASSUME Kept PROVE rows'[x].originalBatchId < x
  BY <1>1, <1>2 DEF Kept
<1>3. ASSUME NEW c \in Content, NEW st \in {"draft", "posted"},
             NEW k \in SourceKey \cup {NoSource}, NEW u \in BOOLEAN, CreateBatch(c, st, k, u)
      PROVE  rows'[x].originalBatchId < x
  <2>1. CASE x \in DOMAIN rows
    BY <1>0, <1>1, <1>3, <2>1, CreateEffect
  <2>2. CASE x = Len(rows) + 1
    <3>0. rows'[x] = PlainRow(c, st, k, u)
      BY <1>0, <1>3, <2>2, CreateEffect
    <3>1. rows'[x].originalBatchId = 0
      BY <3>0 DEF PlainRow, None
    <3> QED BY <1>0, <2>2, <3>1
  <2> QED  BY <1>0, <1>3, <2>1, <2>2, CreateEffect
<1>4. ASSUME NEW b \in UserFacing, PostBatch(b) \/ DeleteDraft(b) \/ \E c \in Content : UpdateDraft(b, c)
      PROVE  rows'[x].originalBatchId < x
  BY <1>0, <1>2, <1>4, PostEffect, DeleteEffect, UpdateEffect DEF UserFacing, DraftStep
<1>5. ASSUME NEW b \in UserFacing, NEW c \in Content, AdjustBatch(b, c)
      PROVE  rows'[x].originalBatchId < x
  <2>1. b \in DOMAIN rows
    BY DEF UserFacing
  <2>2. CASE x \in DOMAIN rows
    <3>1. rows'[x] = rows[x] \/ rows'[x] = [rows[x] EXCEPT !.audit = rows[x].audit \cup {"update"}]
      BY <1>0, <1>5, <2>1, <2>2, AdjustEffect
    <3>2. rows'[x].originalBatchId = rows[x].originalBatchId
      BY <1>0, <2>2, <3>1, Table DEF Row
    <3> QED  BY <1>1, <2>2, <3>2
  <2>3. CASE x = Len(rows) + 1
    <3>0. rows'[x] = ReversalRow(b, AdjustmentKey(b, c))
      BY <1>0, <1>5, <2>1, <2>3, AdjustEffect
    <3>1. rows'[x].originalBatchId = b
      BY <3>0, ReversalRowFields
    <3> QED  BY <1>0, <2>1, <2>3, <3>1
  <2>4. CASE x = Len(rows) + 2
    <3>0. rows'[x] = RevisedRow(b, c, AdjustmentKey(b, c), Len(rows) + 1)
      BY <1>0, <1>5, <2>1, <2>4, AdjustEffect
    <3>1. rows'[x].originalBatchId = b
      BY <3>0, RevisedRowFields
    <3> QED  BY <1>0, <2>1, <2>4, <3>1
  <2> QED  BY <1>0, <1>5, <2>1, <2>2, <2>3, <2>4, AdjustEffect
<1>6. ASSUME NEW b \in UserFacing, NEW c \in Content, RepeatAdjust(b, c)
      PROVE  rows'[x].originalBatchId < x
  BY <1>1, <1>6 DEF RepeatAdjust
<1>7. ASSUME NEW b \in UserFacing, VoidLifecycle(b) PROVE rows'[x].originalBatchId < x
  <2>1. PICK S : rows' = Voided(S)
    BY <1>7 DEF VoidLifecycle
  <2> QED  BY <1>0, <1>2, <2>1, VoidEffect
<1> QED
  BY <1>3, <1>4, <1>5, <1>6, <1>7 DEF Next

\* What the theorems about the books rest on.
SoundBooks == IndInv /\ EveryBatchPostable /\ EveryBatchBalances /\ OlderFirst

LEMMA SoundInit == Init => SoundBooks
BY InitInv DEF Init, SoundBooks, EveryBatchPostable, EveryBatchBalances, OlderFirst

LEMMA SoundStep == SoundBooks /\ [Next]_vars => SoundBooks'
BY NextInv, PostableStep, BalancedStep, OlderStep DEF SoundBooks

THEOREM BooksStaySound == Spec => []SoundBooks
BY SoundInit, SoundStep, PTL DEF Spec

LEMMA TableFinite ==
  ASSUME TypeOK
  PROVE  IsFiniteSet(DOMAIN rows) /\ \A S \in SUBSET DOMAIN rows : IsFiniteSet(S)
<1>1. IsFiniteSet(DOMAIN rows)
  BY Table, FS_Interval
<1> QED BY <1>1, FS_Subset

LEMMA NetOverInt ==
  ASSUME TypeOK, NEW S \in SUBSET DOMAIN rows, NEW a, NEW d
  PROVE  NetOver(S, a, d) \in Int
<1> DEFINE g == [b \in S |-> NetOf(rows[b].content.lines, a, d)]
<1>1. IsFiniteSet(S)
  BY TableFinite
<1>2. \A b \in S : g[b] \in Int
  BY StoredLines, NetIsSum
<1>3. NetOver(S, a, d) = SumFunctionOnSet(g, S)
  BY DOMAIN g = S DEF NetOver, SumFunction
<1> HIDE DEF g
<1> QED BY <1>1, <1>2, <1>3, SumInt

\* The nets of all accounts cancel, over any set of live batches.
LEMMA NetsOverCancel ==
  ASSUME SoundBooks, NEW S \in SUBSET {b \in DOMAIN rows : Live(b)}, NEW d
  PROVE  SumFunctionOnSet([a \in OrgAccount |-> NetOver(S, a, d)], OrgAccount) = 0
<1> DEFINE m == [a \in OrgAccount |-> [b \in S |-> NetOf(rows[b].content.lines, a, d)]]
           column(b) == [a \in OrgAccount |-> m[a][b]]
           total == [b \in S |-> SumFunctionOnSet(column(b), OrgAccount)]
           nets == [a \in OrgAccount |-> SumFunctionOnSet(m[a], S)]
<1>1. TypeOK /\ IsFiniteSet(S) /\ S \subseteq DOMAIN rows
  BY TableFinite DEF SoundBooks, IndInv
<1>2. \A a \in OrgAccount, b \in S : m[a][b] \in Int
  BY <1>1, StoredLines, NetIsSum
<1>3. \A b \in S : total[b] = 0
  <2> TAKE b \in S
  <2>1. /\ rows[b].content.lines \in Seq(StoredLine)
        /\ BalancedOnEveryDate(rows[b].content.lines)
        /\ \A i \in DOMAIN rows[b].content.lines : rows[b].content.lines[i].account \in OrgAccount
    BY <1>1, StoredLines DEF SoundBooks, EveryBatchBalances, EveryBatchPostable, LinesAccepted
  <2>2. SumFunctionOnSet([a \in OrgAccount |-> NetOf(rows[b].content.lines, a, d)], OrgAccount) = 0
    BY <2>1, NetsCancel
  <2>3. column(b) = [a \in OrgAccount |-> NetOf(rows[b].content.lines, a, d)]
    OBVIOUS
  <2> HIDE DEF m, column
  <2> QED BY <2>2, <2>3
<1>4. [a \in OrgAccount |-> NetOver(S, a, d)] = nets
  BY DEF NetOver, SumFunction
<1>5. SumFunctionOnSet(nets, OrgAccount) = SumFunctionOnSet(total, S)
  <2> HIDE DEF m
  <2> QED BY <1>1, <1>2, BookAssumption, SumSwap
<1>6. SumFunctionOnSet(total, S) = 0
  <2> HIDE DEF total
  <2> QED BY <1>1, <1>3, SumZero
<1> HIDE DEF nets, total, m
<1> QED BY <1>4, <1>5, <1>6

\* getBalanceMessage holds for the ledger as a whole: whatever is posted, adjusted,
\* reversed and voided, the posted lines of every single day balance.
THEOREM LedgerBalancesDaily == Spec => []EveryDayBalances
<1>1. SoundBooks => EveryDayBalances
  <2> SUFFICES ASSUME SoundBooks, NEW d \in Date
               PROVE  SumFunction([a \in OrgAccount |-> ReportedNet(a, d)]) = 0
    BY DEF EveryDayBalances
  <2> DEFINE g == [a \in OrgAccount |-> NetOver(ReportedBatches, a, d)]
  <2>1. ReportedBatches \in SUBSET {b \in DOMAIN rows : Live(b)}
    BY DEF ReportedBatches, Live
  <2>2. SumFunctionOnSet(g, OrgAccount) = 0
    BY <2>1, NetsOverCancel
  <2>3. [a \in OrgAccount |-> ReportedNet(a, d)] = g /\ DOMAIN g = OrgAccount
    BY DEF ReportedNet
  <2> HIDE DEF g
  <2> QED BY <2>2, <2>3 DEF SumFunction
<1> QED BY <1>1, BooksStaySound, PTL
-----------------------------------------------------------------------------
(* The walk to the latest batch *)

\* A batch that is not voided or removed has at most one revision on the list, and
\* that revision is posted as it is.
LEMMA OneCandidate ==
  ASSUME IndInv, OlderFirst, NEW b \in DOMAIN rows, NEW x \in LatestCandidates(b)
  PROVE  /\ x \in DOMAIN rows /\ b < x /\ LatestCandidates(b) = {x}
         /\ rows[x].status = "posted" /\ rows[b].status = "posted"
         /\ x \in NonInternal /\ b \in NonInternal
         /\ (CHOOSE z \in LatestCandidates(b) : \A y \in LatestCandidates(b) : y <= z) = x
<1>1. x \in DOMAIN rows /\ rows[x].supersedes = b /\ x \in NonInternal /\ rows[x].status # "voided"
  BY DEF LatestCandidates, NonInternal
<1>2. b # None /\ b \in Nat /\ x \in Nat
  BY <1>1, Table DEF IndInv, BatchId, None
<1>3. IsRevision(x) /\ rows[x].originalBatchId = b
  BY <1>1, <1>2 DEF IsRevision, IndInv, Links
<1>4. b < x
  BY <1>1, <1>3 DEF OlderFirst
<1>5. rows[x].status = "posted" /\ rows[b].status = "posted" /\ ~IsReversal(b)
  BY <1>1, <1>2, <1>3 DEF IndInv, Links, LifecycleAllOrNothing
<1>6. \A y \in LatestCandidates(b) : y = x
  BY <1>1, <1>3 DEF IndInv, Pairs, LatestCandidates, NonInternal, IsRevision
<1>7. LatestCandidates(b) = {x}
  BY <1>6
<1>8. (CHOOSE z \in LatestCandidates(b) : \A y \in LatestCandidates(b) : y <= z) = x
  BY <1>2, <1>7
<1> QED  BY <1>1, <1>4, <1>5, <1>7, <1>8 DEF NonInternal, IsReversal

\* findLatestBatchForRoot comes to an end: each step goes to a younger batch.
Walks(g, from) ==
  g = [b \in from .. Len(rows) |->
         IF LatestCandidates(b) = {} THEN b
         ELSE g[CHOOSE x \in LatestCandidates(b) : \A y \in LatestCandidates(b) : y <= x]]

LEMMA WalkExists ==
  ASSUME IndInv, OlderFirst
  PROVE  \E g : Walks(g, 1)
<1> DEFINE n == Len(rows)
           next(b) == CHOOSE x \in LatestCandidates(b) : \A y \in LatestCandidates(b) : y <= x
           C == {k \in 1 .. n + 1 : ~ \E g : Walks(g, k)}
<1>0. n \in Nat /\ DOMAIN rows = 1 .. n
  BY Table DEF IndInv
<1> SUFFICES ASSUME C # {} PROVE FALSE
  <2>1. 1 \in 1 .. n + 1
    BY <1>0
  <2> QED BY <2>1
<1>1. PICK k \in C : \A y \in C : y <= k
  <2>1. C \in SUBSET (1 .. n + 1) /\ n + 1 \in Int
    BY <1>0
  <2> HIDE DEF C, n
  <2> QED BY <2>1, LargestNumber
<1>2. k \in 1 .. n + 1 /\ ~ \E g : Walks(g, k)
  OBVIOUS
<1>3. k # n + 1
  <2> SUFFICES ASSUME k = n + 1 PROVE FALSE
    OBVIOUS
  <2> DEFINE g == [b \in {} |-> b]
  <2>1. k .. n = {}
    BY <1>0
  <2>2. Walks(g, k)
    BY <2>1 DEF Walks
  <2> QED BY <1>2, <2>2
<1>4. k + 1 \in 1 .. n + 1 /\ k + 1 \notin C /\ k \in DOMAIN rows
  BY <1>0, <1>1, <1>2, <1>3
<1>5. PICK g1 : Walks(g1, k + 1)
  BY <1>4
<1> DEFINE g == [b \in k .. n |-> IF b = k
                                   THEN IF LatestCandidates(k) = {} THEN k ELSE g1[next(k)]
                                   ELSE g1[b]]
<1>6. \A b \in k + 1 .. n :
        /\ g[b] = g1[b]
        /\ g1[b] = IF LatestCandidates(b) = {} THEN b ELSE g1[next(b)]
  <2> TAKE b \in k + 1 .. n
  <2>1. b \in k .. n /\ b # k
    BY <1>0, <1>2
  <2>2. g1[b] = IF LatestCandidates(b) = {} THEN b ELSE g1[next(b)]
    BY <1>5 DEF Walks
  <2>3. g[b] = g1[b]
    BY <2>1
  <2> HIDE DEF g, next
  <2> QED BY <2>2, <2>3
<1>7. \A b \in k .. n : LatestCandidates(b) # {} => next(b) \in k + 1 .. n
  <2> TAKE b \in k .. n
  <2> HAVE LatestCandidates(b) # {}
  <2>1. PICK x : x \in LatestCandidates(b)
    OBVIOUS
  <2>2. b \in DOMAIN rows
    BY <1>0, <1>2
  <2>3. x \in DOMAIN rows /\ b < x /\ next(b) = x
    BY <2>1, <2>2, OneCandidate
  <2> HIDE DEF next
  <2> QED BY <1>0, <1>2, <2>3
<1>8. \A b \in k .. n : g[b] = IF LatestCandidates(b) = {} THEN b ELSE g[next(b)]
  <2> TAKE b \in k .. n
  <2>1. CASE b = k
    <3>1. g[b] = IF LatestCandidates(b) = {} THEN b ELSE g1[next(b)]
      BY <2>1
    <3> HIDE DEF g, next
    <3> QED BY <1>6, <1>7, <3>1
  <2>2. CASE b # k
    <3>1. b \in k + 1 .. n
      BY <1>0, <1>2, <2>2
    <3> HIDE DEF g, next
    <3> QED BY <1>6, <1>7, <3>1
  <2> QED BY <2>1, <2>2
<1>9. g = [b \in k .. n |-> g[b]]
  OBVIOUS
<1> HIDE DEF g
<1>10. Walks(g, k)
  BY <1>8, <1>9 DEF Walks
<1> QED BY <1>2, <1>10

LEMMA LatestStep ==
  ASSUME IndInv, OlderFirst, NEW b \in DOMAIN rows
  PROVE  /\ LatestCandidates(b) = {} => LatestBatch[b] = b
         /\ \A x \in LatestCandidates(b) : LatestBatch[b] = LatestBatch[x]
<1>0. Len(rows) \in Nat /\ DOMAIN rows = 1 .. Len(rows)
  BY Table DEF IndInv
<1> DEFINE latest == CHOOSE g : Walks(g, 1)
<1>1. Walks(latest, 1)
  BY WalkExists
<1>2. LatestBatch = latest
  BY <1>0 DEF LatestBatch, Walks
<1> HIDE DEF latest
<1>3. LatestBatch[b] = IF LatestCandidates(b) = {} THEN b
        ELSE LatestBatch[CHOOSE x \in LatestCandidates(b) : \A y \in LatestCandidates(b) : y <= x]
  BY <1>0, <1>1, <1>2 DEF Walks
<1>4. ASSUME NEW x \in LatestCandidates(b) PROVE LatestBatch[b] = LatestBatch[x]
  <2>1. (CHOOSE z \in LatestCandidates(b) : \A y \in LatestCandidates(b) : y <= z) = x
    BY OneCandidate
  <2> QED BY <1>3, <2>1
<1> QED BY <1>3, <1>4

\* A journal that is not the revision of another leads its own line of revisions;
\* every posted journal ends in the one that nobody has revised.
WalkFacts ==
  \A b \in NonInternal :
    /\ LatestBatch[b] \in NonInternal
    /\ LatestCandidates(LatestBatch[b]) = {}
    /\ rows[LatestBatch[b]].status = rows[b].status
    /\ rows[b].status # "posted" => LatestBatch[b] = b

LEMMA WalkEnds == IndInv /\ OlderFirst => WalkFacts
<1> SUFFICES ASSUME IndInv, OlderFirst PROVE WalkFacts
  OBVIOUS
<1> DEFINE Ends(b) == /\ LatestBatch[b] \in NonInternal
                      /\ LatestCandidates(LatestBatch[b]) = {}
                      /\ rows[LatestBatch[b]].status = rows[b].status
                      /\ rows[b].status # "posted" => LatestBatch[b] = b
           C == {b \in NonInternal : ~Ends(b)}
<1> SUFFICES ASSUME C # {} PROVE FALSE
  BY DEF WalkFacts
<1>0. Len(rows) \in Int /\ DOMAIN rows = 1 .. Len(rows)
  BY Table DEF IndInv
<1>1. PICK b \in C : \A y \in C : y <= b
  <2>1. C \in SUBSET (1 .. Len(rows))
    BY <1>0 DEF NonInternal
  <2> HIDE DEF C
  <2> QED BY <1>0, <2>1, LargestNumber
<1>2. b \in NonInternal /\ b \in DOMAIN rows /\ ~Ends(b)
  BY DEF NonInternal
<1>3. CASE LatestCandidates(b) = {}
  <2>1. LatestBatch[b] = b
    BY <1>2, <1>3, LatestStep
  <2> QED BY <1>2, <1>3, <2>1
<1>4. ASSUME NEW x \in LatestCandidates(b) PROVE FALSE
  <2>1. /\ x \in NonInternal /\ b < x /\ x \in DOMAIN rows
        /\ rows[x].status = "posted" /\ rows[b].status = "posted"
    BY <1>2, <1>4, OneCandidate
  <2>2. LatestBatch[b] = LatestBatch[x]
    BY <1>2, <1>4, LatestStep
  <2>3. x \notin C
    BY <1>0, <1>1, <1>2, <2>1
  <2>4. Ends(x)
    BY <2>1, <2>3
  <2> QED BY <1>2, <2>1, <2>2, <2>4
<1> QED BY <1>3, <1>4

\* Every posted journal on the list belongs to the line of some root.
LEMMA EveryLineHasRoot ==
  ASSUME IndInv, OlderFirst, NEW b \in NonInternal, rows[b].status = "posted"
  PROVE  \E r \in RootBatches : rows[r].status = "posted" /\ LatestBatch[r] = LatestBatch[b]
<1> DEFINE HasRoot(x) == \E r \in RootBatches : rows[r].status = "posted" /\ LatestBatch[r] = LatestBatch[x]
           C == {x \in NonInternal : rows[x].status = "posted" /\ ~HasRoot(x)}
<1> SUFFICES ASSUME C # {} PROVE FALSE
  OBVIOUS
<1>0. Len(rows) \in Int /\ DOMAIN rows = 1 .. Len(rows)
  BY Table DEF IndInv
<1>1. PICK x \in C : \A y \in C : x <= y
  <2>1. C \in SUBSET (1 .. Len(rows))
    BY <1>0 DEF NonInternal
  <2> HIDE DEF C
  <2> QED BY <1>0, <2>1, SmallestNumber
<1>2. x \in NonInternal /\ x \in DOMAIN rows /\ rows[x].status = "posted" /\ ~HasRoot(x)
  BY DEF NonInternal
<1>3. rows[x].supersedes # None
  <2> SUFFICES ASSUME rows[x].supersedes = None PROVE FALSE
    OBVIOUS
  <2>1. x \in RootBatches
    BY <1>2 DEF RootBatches
  <2> QED BY <1>2, <2>1
<1> DEFINE p == rows[x].supersedes
<1>4. /\ p \in DOMAIN rows /\ p = rows[x].originalBatchId /\ ~IsReversal(p)
      /\ rows[p].status = "posted" /\ p < x
  BY <1>2, <1>3 DEF IndInv, Links, IsRevision, LifecycleAllOrNothing, OlderFirst
<1>5. p \in NonInternal /\ x \in LatestCandidates(p)
  BY <1>2, <1>4 DEF NonInternal, IsReversal, LatestCandidates
<1>6. LatestBatch[p] = LatestBatch[x]
  BY <1>4, <1>5, LatestStep
<1> HIDE DEF p
<1>7. p \notin C
  BY <1>0, <1>1, <1>2, <1>4
<1> QED BY <1>2, <1>4, <1>5, <1>6, <1>7

\* The posted journals that no posted journal revises.
CurrentBatches ==
  {b \in NonInternal : rows[b].status = "posted" /\ LatestCandidates(b) = {}}

LEMMA ShownIsCurrent ==
  ASSUME IndInv, OlderFirst
  PROVE  {b \in VisibleBatches : rows[b].status = "posted"} = CurrentBatches
<1>1. ASSUME NEW b \in VisibleBatches, rows[b].status = "posted" PROVE b \in CurrentBatches
  <2>1. PICK r \in RootBatches : b = LatestBatch[r]
    BY <1>1 DEF VisibleBatches
  <2>2. r \in NonInternal
    BY DEF RootBatches
  <2> QED BY <1>1, <2>1, <2>2, WalkEnds DEF WalkFacts, CurrentBatches
<1>2. ASSUME NEW b \in CurrentBatches PROVE b \in VisibleBatches /\ rows[b].status = "posted"
  <2>1. b \in NonInternal /\ b \in DOMAIN rows /\ rows[b].status = "posted" /\ LatestCandidates(b) = {}
    BY DEF CurrentBatches, NonInternal
  <2>2. PICK r \in RootBatches : LatestBatch[r] = LatestBatch[b]
    BY <2>1, EveryLineHasRoot
  <2>3. LatestBatch[b] = b
    BY <2>1, LatestStep
  <2> QED BY <2>1, <2>2, <2>3 DEF VisibleBatches
<1> QED BY <1>1, <1>2
-----------------------------------------------------------------------------
(* What the reports add up *)

LEMMA ReversalNet ==
  ASSUME NEW ls \in Seq(StoredLine), NEW a, NEW d
  PROVE  NetOf(BuildReversalLines(ls), a, d) = -NetOf(ls, a, d)
<1> DEFINE rev == BuildReversalLines(ls)
           S == {i \in OnDay(ls, d) : ls[i].account = a}
           f == LineNets(ls)
           g == LineNets(rev)
<1>1. DOMAIN rev = DOMAIN ls /\ \A i \in DOMAIN ls : /\ rev[i].date = ls[i].date /\ rev[i].account = ls[i].account
                                                     /\ rev[i].debit = ls[i].credit /\ rev[i].credit = ls[i].debit
  BY DEF BuildReversalLines
<1>2. rev \in Seq(StoredLine)
  BY ReversalLines
<1>3. {i \in OnDay(rev, d) : rev[i].account = a} = S
  BY <1>1 DEF OnDay
<1>4. IsFiniteSet(S) /\ \A i \in S : f[i] \in Int /\ g[i] = -f[i]
  <2>1. IsFiniteSet(S)
    BY LinesType, FS_Subset DEF OnDay
  <2>2. ASSUME NEW i \in S PROVE f[i] \in Int /\ g[i] = -f[i]
    <3>1. i \in DOMAIN ls
      BY DEF OnDay
    <3>2. f[i] = ls[i].debit - ls[i].credit /\ g[i] = ls[i].credit - ls[i].debit
      BY <1>1, <3>1 DEF LineNets
    <3>3. ls[i].debit \in Nat /\ ls[i].credit \in Nat
      BY <3>1, LinesType
    <3> HIDE DEF f, g
    <3> QED BY <3>2, <3>3
  <2> HIDE DEF f, g
  <2> QED BY <2>1, <2>2
<1>5. NetOf(rev, a, d) = SumFunctionOnSet(g, S)
  <2>1. NetOf(rev, a, d) = SumFunctionOnSet(g, {i \in OnDay(rev, d) : rev[i].account = a})
    <3> HIDE DEF rev
    <3> QED BY <1>2, NetIsSum
  <2> QED BY <1>3, <2>1
<1>6. NetOf(ls, a, d) = SumFunctionOnSet(f, S)
  BY NetIsSum
<1> HIDE DEF f, g, S
<1>7. SumFunctionOnSet(g, S) = -SumFunctionOnSet(f, S)
  BY <1>4, SumNegated
<1> QED BY <1>5, <1>6, <1>7

\* The posted journals that a revision replaced, and the reversals that take
\* them out of the books.
SupersededBatches ==
  {b \in NonInternal : rows[b].status = "posted" /\ LatestCandidates(b) # {}}

ReversalBatches == {b \in DOMAIN rows : IsReversal(b) /\ rows[b].status = "posted"}

\* Each replaced journal has one reversal.
LEMMA ReversalsPair ==
  ASSUME IndInv
  PROVE  /\ \A y \in ReversalBatches : rows[y].originalBatchId \in SupersededBatches
         /\ \A b \in SupersededBatches : \E y \in ReversalBatches :
              {z \in ReversalBatches : rows[z].originalBatchId = b} = {y}
<1>0. None \notin DOMAIN rows
  BY Table DEF IndInv, BatchId, None
<1>1. ASSUME NEW y \in ReversalBatches PROVE rows[y].originalBatchId \in SupersededBatches
  <2> DEFINE b == rows[y].originalBatchId
  <2>1. y \in DOMAIN rows /\ IsReversal(y) /\ rows[y].status = "posted" /\ b # None
    BY DEF ReversalBatches, IndInv, Links
  <2>2. b \in DOMAIN rows /\ ~IsReversal(b) /\ rows[b].status = "posted"
    BY <2>1 DEF IndInv, Links, LifecycleAllOrNothing
  <2>3. PICK x \in DOMAIN rows : rows[x].supersedes = b
    BY <2>1 DEF IndInv, Pairs
  <2>4. IsRevision(x) /\ rows[x].originalBatchId = b
    BY <1>0, <2>2, <2>3 DEF IndInv, Links, IsRevision
  <2>5. rows[x].status = "posted" /\ ~IsReversal(x)
    BY <2>1, <2>2, <2>4 DEF IndInv, Links, LifecycleAllOrNothing
  <2>6. x \in LatestCandidates(b)
    BY <2>3, <2>5 DEF LatestCandidates, NonInternal, IsReversal
  <2>7. b \in NonInternal
    BY <2>2 DEF NonInternal, IsReversal
  <2> QED BY <2>2, <2>6, <2>7 DEF SupersededBatches
<1>2. ASSUME NEW b \in SupersededBatches
      PROVE  \E y \in ReversalBatches : {z \in ReversalBatches : rows[z].originalBatchId = b} = {y}
  <2>1. PICK x : x \in LatestCandidates(b)
    BY DEF SupersededBatches
  <2>2. x \in DOMAIN rows /\ rows[x].supersedes = b /\ b # None /\ b \in DOMAIN rows /\ rows[b].status = "posted"
    BY <1>0, <2>1 DEF LatestCandidates, SupersededBatches, NonInternal
  <2>3. /\ rows[x].reversalBatchId \in DOMAIN rows /\ IsReversal(rows[x].reversalBatchId)
        /\ rows[rows[x].reversalBatchId].originalBatchId = b
    BY <2>2 DEF IndInv, Pairs, IsRevision
  <2>4. rows[rows[x].reversalBatchId].status = "posted"
    BY <2>2, <2>3 DEF IndInv, LifecycleAllOrNothing
  <2>5. rows[x].reversalBatchId \in ReversalBatches
    BY <2>3, <2>4 DEF ReversalBatches
  <2>6. ASSUME NEW z \in ReversalBatches, rows[z].originalBatchId = b
        PROVE  z = rows[x].reversalBatchId
    BY <2>3, <2>6 DEF ReversalBatches, IndInv, Pairs
  <2> QED BY <2>3, <2>5, <2>6
<1> QED BY <1>1, <1>2

\* A replaced journal and its reversal cancel.
LEMMA ReplacedCancel ==
  ASSUME IndInv, NEW a, NEW d
  PROVE  NetOver(SupersededBatches \cup ReversalBatches, a, d) = 0
<1> DEFINE f == [b \in DOMAIN rows |-> NetOf(rows[b].content.lines, a, d)]
           S == SupersededBatches
           R == ReversalBatches
           key == [y \in R |-> rows[y].originalBatchId]
           undone(b) == {y \in R : key[y] = b}
           taken == [b \in S |-> SumFunctionOnSet(f, undone(b))]
           A == S \cup R
           g == [b \in A |-> NetOf(rows[b].content.lines, a, d)]
<1>1. /\ TypeOK /\ A \subseteq DOMAIN rows /\ S \subseteq DOMAIN rows /\ R \subseteq DOMAIN rows
      /\ IsFiniteSet(S) /\ IsFiniteSet(R) /\ IsFiniteSet(A) /\ S \cap R = {}
  <2>1. TypeOK /\ A \subseteq DOMAIN rows /\ S \cap R = {}
    BY DEF SupersededBatches, ReversalBatches, NonInternal, IndInv, IsReversal
  <2> HIDE DEF S, R
  <2> QED BY <2>1, TableFinite
<1>2. \A b \in DOMAIN rows : f[b] \in Int
  BY <1>1, StoredLines, NetIsSum
<1>3. NetOver(A, a, d) = SumFunctionOnSet(f, A)
  <2>1. NetOver(A, a, d) = SumFunctionOnSet(g, A)
    BY DOMAIN g = A DEF NetOver, SumFunction
  <2>2. \A b \in A : g[b] = f[b]
    BY <1>1
  <2> HIDE DEF f, g, A
  <2> QED BY <1>1, <2>1, <2>2, SumSame
<1>4. \A b \in S : taken[b] = -f[b]
  <2> TAKE b \in S
  <2>1. PICK y \in R : {z \in R : rows[z].originalBatchId = b} = {y}
    BY ReversalsPair
  <2>2. undone(b) = {y}
    BY <2>1
  <2>3. y \in DOMAIN rows /\ IsReversal(y) /\ rows[y].originalBatchId = b /\ b \in DOMAIN rows
    BY <1>1, <2>1 DEF ReversalBatches
  <2>4. rows[y].content.lines = BuildReversalLines(rows[b].content.lines)
    BY <2>3 DEF IndInv, ExactReversals
  <2>5. rows[b].content.lines \in Seq(StoredLine)
    BY <1>1, <2>3, StoredLines
  <2>6. NetOf(rows[y].content.lines, a, d) = -NetOf(rows[b].content.lines, a, d)
    BY <2>4, <2>5, ReversalNet
  <2>7. f[y] = -f[b] /\ f[y] \in Int
    BY <1>2, <2>3, <2>6
  <2>8. taken[b] = SumFunctionOnSet(f, {y})
    BY <2>2
  <2> HIDE DEF f, taken
  <2> QED BY <2>7, <2>8, SumSingle
<1>5. SumFunctionOnSet(taken, S) = -SumFunctionOnSet(f, S)
  <2>1. \A b \in S : f[b] \in Int /\ taken[b] = -f[b]
    BY <1>1, <1>2, <1>4
  <2> HIDE DEF f, taken, S
  <2> QED BY <1>1, <2>1, SumNegated
<1>6. SumFunctionOnSet(taken, S) = SumFunctionOnSet(f, R)
  <2>1. \A y \in R : key[y] \in S /\ f[y] \in Int
    BY <1>1, <1>2, ReversalsPair
  <2>2. taken = [b \in S |-> SumFunctionOnSet(f, {y \in R : key[y] = b})]
    OBVIOUS
  <2> HIDE DEF f, taken, S, R, key
  <2> QED BY <1>1, <2>1, <2>2, SumByKey
<1>7. SumFunctionOnSet(f, A) = SumFunctionOnSet(f, S) + SumFunctionOnSet(f, R)
  <2>1. \A b \in S \cup R : f[b] \in Int
    BY <1>1, <1>2
  <2> HIDE DEF f, S, R
  <2> QED BY <1>1, <2>1, SumSplit
<1>8. SumFunctionOnSet(f, S) \in Int
  <2>1. \A b \in S : f[b] \in Int
    BY <1>1, <1>2
  <2> HIDE DEF f, S
  <2> QED BY <1>1, <2>1, SumInt
<1> HIDE DEF f, S, R, taken, A
<1>9. NetOver(A, a, d) = 0
  BY <1>3, <1>5, <1>6, <1>7, <1>8
<1> QED BY <1>9 DEF A, S, R

\* NetOver adds up disjoint sets of batches.
LEMMA NetOverSplit ==
  ASSUME TypeOK, NEW A \in SUBSET DOMAIN rows, NEW B \in SUBSET DOMAIN rows, A \cap B = {},
         NEW a, NEW d
  PROVE  NetOver(A \cup B, a, d) = NetOver(A, a, d) + NetOver(B, a, d)
<1> DEFINE f == [b \in DOMAIN rows |-> NetOf(rows[b].content.lines, a, d)]
<1>1. \A S \in SUBSET DOMAIN rows : IsFiniteSet(S) /\ NetOver(S, a, d) = SumFunctionOnSet(f, S)
  <2> TAKE S \in SUBSET DOMAIN rows
  <2> DEFINE g == [b \in S |-> NetOf(rows[b].content.lines, a, d)]
  <2>1. NetOver(S, a, d) = SumFunctionOnSet(g, S)
    BY DOMAIN g = S DEF NetOver, SumFunction
  <2>2. \A b \in S : g[b] = f[b]
    OBVIOUS
  <2>3. IsFiniteSet(S)
    BY TableFinite
  <2> HIDE DEF f, g
  <2> QED BY <2>1, <2>2, <2>3, SumSame
<1>2. \A b \in A \cup B : f[b] \in Int
  BY StoredLines, NetIsSum
<1>3. A \cup B \in SUBSET DOMAIN rows
  OBVIOUS
<1> HIDE DEF f
<1> QED BY <1>1, <1>2, <1>3, SumSplit

LEMMA ReportedIsCurrent ==
  ASSUME IndInv, NEW a, NEW d
  PROVE  ReportedNet(a, d) = NetOver(CurrentBatches, a, d)
<1> DEFINE R == SupersededBatches \cup ReversalBatches
<1>1. /\ TypeOK /\ CurrentBatches \in SUBSET DOMAIN rows /\ R \in SUBSET DOMAIN rows
      /\ CurrentBatches \cap R = {} /\ ReportedBatches = CurrentBatches \cup R
  BY DEF IndInv, CurrentBatches, SupersededBatches, ReversalBatches, NonInternal, IsReversal,
         ReportedBatches
<1>2. NetOver(R, a, d) = 0
  BY ReplacedCancel
<1>3. NetOver(CurrentBatches, a, d) \in Int
  BY <1>1, NetOverInt
<1> HIDE DEF R
<1>4. NetOver(CurrentBatches \cup R, a, d) = NetOver(CurrentBatches, a, d) + NetOver(R, a, d)
  BY <1>1, NetOverSplit
<1> QED BY <1>1, <1>2, <1>3, <1>4 DEF ReportedNet

\* getVisibleJournalBatches and the reports agree: what is added up over all
\* posted lines, with the reversals and the journals they take back, is what the
\* posted journals on the user's list say.
THEOREM ListMatchesReports == Spec => []ReportsMatchList
<1>1. SoundBooks => ReportsMatchList
  BY ShownIsCurrent, ReportedIsCurrent DEF SoundBooks, ReportsMatchList
<1> QED BY <1>1, BooksStaySound, PTL
-----------------------------------------------------------------------------
(* The journal as a book of entries *)

\* The journals that the user entered, as against their revisions and reversals.
EnteredBatches == {e \in DOMAIN rows : rows[e].originalBatchId = None}

EntryFacts ==
  \A e \in BatchId :
    /\ e \notin EnteredBatches => EntryOf(e) = [state |-> "none"]
    /\ e \in EnteredBatches =>
         /\ rows[e].status = "draft" => EntryOf(e) = [state |-> "draft", content |-> rows[e].content]
         /\ rows[e].status = "posted" =>
              EntryOf(e) = [state |-> "posted", content |-> rows[LatestBatch[e]].content]
         /\ rows[e].status \in {"voided", "deleted"} => EntryOf(e) = [state |-> "removed"]

LEMMA EntryCases == IndInv /\ OlderFirst => EntryFacts
<1> SUFFICES ASSUME IndInv, OlderFirst, NEW e \in BatchId
             PROVE  /\ e \notin EnteredBatches => EntryOf(e) = [state |-> "none"]
                    /\ e \in EnteredBatches =>
                         /\ rows[e].status = "draft" =>
                              EntryOf(e) = [state |-> "draft", content |-> rows[e].content]
                         /\ rows[e].status = "posted" =>
                              EntryOf(e) = [state |-> "posted", content |-> rows[LatestBatch[e]].content]
                         /\ rows[e].status \in {"voided", "deleted"} => EntryOf(e) = [state |-> "removed"]
  BY DEF EntryFacts
<1>1. ASSUME e \notin EnteredBatches PROVE EntryOf(e) = [state |-> "none"]
  BY <1>1 DEF EnteredBatches, EntryOf
<1>2. ASSUME e \in EnteredBatches
      PROVE  /\ e \in RootBatches <=> rows[e].status # "deleted"
             /\ EntryOf(e) = IF e \in RootBatches /\ LatestBatch[e] \in VisibleBatches
                               THEN [state |-> rows[LatestBatch[e]].status,
                                     content |-> rows[LatestBatch[e]].content]
                               ELSE [state |-> "removed"]
  <2>1. e \in DOMAIN rows /\ rows[e].originalBatchId = None
    BY <1>2 DEF EnteredBatches
  <2>2. rows[e].supersedes = None /\ ~IsReversal(e)
    BY <2>1 DEF IndInv, Links, IsRevision
  <2>3. e \in RootBatches <=> rows[e].status # "deleted"
    BY <2>1, <2>2 DEF RootBatches, NonInternal, IsReversal
  <2> QED BY <2>1, <2>3 DEF EntryOf
<1>3. ASSUME e \in EnteredBatches, rows[e].status = "deleted" PROVE EntryOf(e) = [state |-> "removed"]
  BY <1>2, <1>3
<1>4. ASSUME e \in EnteredBatches, rows[e].status # "deleted"
      PROVE  EntryOf(e) = IF rows[e].status # "voided"
                            THEN [state |-> rows[e].status, content |-> rows[LatestBatch[e]].content]
                            ELSE [state |-> "removed"]
  <2>1. e \in RootBatches /\ e \in NonInternal
    BY <1>2, <1>4 DEF RootBatches
  <2>2. rows[LatestBatch[e]].status = rows[e].status
    BY <2>1, WalkEnds DEF WalkFacts
  <2>3. LatestBatch[e] \in VisibleBatches <=> rows[e].status # "voided"
    BY <2>1, <2>2 DEF VisibleBatches
  <2> QED BY <1>2, <1>4, <2>1, <2>2, <2>3
<1>5. ASSUME e \in EnteredBatches, rows[e].status = "draft" PROVE LatestBatch[e] = e
  <2>1. e \in NonInternal
    BY <1>2, <1>5 DEF RootBatches
  <2> QED BY <1>5, <2>1, WalkEnds DEF WalkFacts
<1> QED BY <1>1, <1>3, <1>4, <1>5

\* Two roots never share a line of revisions.
LEMMA LatestBelow ==
  ASSUME IndInv, OlderFirst, NEW r \in DOMAIN rows
  PROVE  LatestBatch[r] \in Descendants(r)
<1> DEFINE C == {x \in Descendants(r) : LatestBatch[x] \notin Descendants(r)}
<1>0. Len(rows) \in Int /\ DOMAIN rows = 1 .. Len(rows)
  BY Table DEF IndInv
<1>1. r \in Descendants(r) /\ ChildrenOf(Descendants(r)) \subseteq Descendants(r)
  BY DescendantsClosed
<1> SUFFICES ASSUME C # {} PROVE FALSE
  BY <1>1
<1>2. PICK x \in C : \A y \in C : y <= x
  <2>1. C \in SUBSET (1 .. Len(rows))
    BY <1>0 DEF Descendants
  <2> HIDE DEF C
  <2> QED BY <1>0, <2>1, LargestNumber
<1>3. x \in DOMAIN rows /\ x \in Descendants(r) /\ LatestBatch[x] \notin Descendants(r)
  BY DEF Descendants
<1>4. PICK y : y \in LatestCandidates(x)
  <2>1. LatestCandidates(x) # {}
    BY <1>3, LatestStep
  <2> QED BY <2>1
<1>5. y \in DOMAIN rows /\ x < y /\ rows[y].supersedes = x /\ LatestBatch[x] = LatestBatch[y]
  <2>1. rows[y].supersedes = x
    BY <1>4 DEF LatestCandidates
  <2> QED BY <1>3, <1>4, <2>1, OneCandidate, LatestStep
<1>6. y \in Descendants(r)
  BY <1>1, <1>3, <1>5 DEF ChildrenOf
<1>7. y \in C
  BY <1>3, <1>5, <1>6
<1> QED BY <1>0, <1>2, <1>3, <1>5, <1>7

LEMMA OneRootBelow ==
  ASSUME IndInv, OlderFirst, NEW r1 \in DOMAIN rows, NEW r2 \in DOMAIN rows,
         rows[r1].supersedes = None, rows[r2].supersedes = None,
         NEW b, b \in Descendants(r1), b \in Descendants(r2)
  PROVE  r1 = r2
<1> DEFINE C == Descendants(r1) \cap Descendants(r2)
<1> SUFFICES ASSUME r1 # r2 PROVE FALSE
  OBVIOUS
<1>0. Len(rows) \in Int /\ DOMAIN rows = 1 .. Len(rows) /\ None \notin DOMAIN rows
  BY Table DEF IndInv, BatchId, None
<1>1. PICK x \in C : \A y \in C : x <= y
  <2>1. C \in SUBSET (1 .. Len(rows)) /\ C # {}
    BY <1>0 DEF Descendants
  <2> HIDE DEF C
  <2> QED BY <1>0, <2>1, SmallestNumber
<1>2. x \in DOMAIN rows /\ x \in Descendants(r1) /\ x \in Descendants(r2)
  BY DEF Descendants
<1>3. x # r1 /\ x # r2
  <2>1. ASSUME NEW r \in DOMAIN rows, rows[x].supersedes = None, x \in Descendants(r) PROVE x = r
    <3> SUFFICES ASSUME x # r PROVE FALSE
      OBVIOUS
    <3>1. rows[x].supersedes \in Descendants(r)
      BY <2>1, ParentInDescendants
    <3> QED BY <1>0, <2>1, <3>1 DEF Descendants
  <2> QED BY <1>2, <2>1
<1>4. rows[x].supersedes \in C
  BY <1>2, <1>3, ParentInDescendants
<1>5. rows[x].supersedes < x /\ rows[x].supersedes \in Int
  <2>1. rows[x].supersedes \in DOMAIN rows
    BY <1>4 DEF Descendants
  <2>2. rows[x].originalBatchId = rows[x].supersedes
    BY <1>0, <1>2, <2>1 DEF IndInv, Links, IsRevision
  <2> QED BY <1>0, <1>2, <2>1, <2>2 DEF OlderFirst
<1> QED BY <1>0, <1>1, <1>2, <1>4, <1>5

LEMMA RootsApart ==
  ASSUME IndInv, OlderFirst, NEW r1 \in DOMAIN rows, NEW r2 \in DOMAIN rows,
         rows[r1].supersedes = None, rows[r2].supersedes = None,
         LatestBatch[r1] = LatestBatch[r2]
  PROVE  r1 = r2
BY LatestBelow, OneRootBelow

\* What an entry contributes to the balance of an account on a day.
Share(entry, a, d) == IF entry.state = "posted" THEN NetOf(entry.content.lines, a, d) ELSE 0

Shares(a, d) == [e \in BatchId |-> Share(EntryOf(e), a, d)]

BalanceFacts ==
  \A a \in OrgAccount, d \in Date :
    /\ \A e \in BatchId : Shares(a, d)[e] \in Int
    /\ ReportedNet(a, d) = SumFunctionOnSet(Shares(a, d), BatchId)

LEMMA BalanceIsShares == IndInv /\ OlderFirst => BalanceFacts
<1> SUFFICES ASSUME IndInv, OlderFirst, NEW a \in OrgAccount, NEW d \in Date
             PROVE  /\ \A e \in BatchId : Shares(a, d)[e] \in Int
                    /\ ReportedNet(a, d) = SumFunctionOnSet(Shares(a, d), BatchId)
  BY DEF BalanceFacts
<1> DEFINE g == Shares(a, d)
           T == {e \in EnteredBatches : rows[e].status = "posted"}
           K == CurrentBatches
           f == [b \in K |-> NetOf(rows[b].content.lines, a, d)]
           key == [e \in T |-> LatestBatch[e]]
           sums == [k \in K |-> SumFunctionOnSet(g, {e \in T : key[e] = k})]
<1>0. /\ TypeOK /\ DOMAIN rows \subseteq BatchId /\ T \subseteq DOMAIN rows /\ K \subseteq DOMAIN rows
      /\ IsFiniteSet(K) /\ IsFiniteSet(BatchId)
  <2>1. TypeOK /\ DOMAIN rows \subseteq BatchId /\ T \subseteq DOMAIN rows /\ K \subseteq DOMAIN rows
    BY Table DEF IndInv, EnteredBatches, CurrentBatches, NonInternal
  <2>2. IsFiniteSet(BatchId)
    BY JournalAssumption, FS_Interval DEF BatchId
  <2> QED BY <2>1, <2>2, TableFinite
<1>1. \A e \in T : /\ rows[e].supersedes = None /\ e \in RootBatches /\ e \in NonInternal
                   /\ LatestBatch[e] \in K
                   /\ g[e] = f[LatestBatch[e]]
  <2> TAKE e \in T
  <2>1. e \in DOMAIN rows /\ e \in EnteredBatches /\ rows[e].status = "posted" /\ e \in BatchId
    BY <1>0
  <2>2. rows[e].supersedes = None /\ ~IsReversal(e)
    BY <2>1 DEF EnteredBatches, IndInv, Links, IsRevision
  <2>3. e \in NonInternal /\ e \in RootBatches
    BY <2>1, <2>2 DEF NonInternal, IsReversal, RootBatches
  <2>4. LatestBatch[e] \in K
    BY <2>1, <2>3, WalkEnds DEF WalkFacts, CurrentBatches
  <2>5. EntryOf(e) = [state |-> "posted", content |-> rows[LatestBatch[e]].content]
    BY <2>1, EntryCases DEF EntryFacts
  <2>6. g[e] = NetOf(rows[LatestBatch[e]].content.lines, a, d)
    BY <2>1, <2>5 DEF Shares, Share
  <2> QED BY <2>2, <2>3, <2>4, <2>6
<1>2. \A b \in K : f[b] \in Int
  BY <1>0, StoredLines, NetIsSum
<1>3. \A e \in T : g[e] \in Int
  <2> HIDE DEF g, f, K, T
  <2> QED BY <1>1, <1>2
<1>4. \A e \in BatchId \ T : g[e] = 0
  <2> TAKE e \in BatchId \ T
  <2>1. EntryOf(e).state # "posted"
    <3>1. CASE e \notin EnteredBatches
      <4>1. EntryOf(e) = [state |-> "none"]
        BY <3>1, EntryCases DEF EntryFacts
      <4> QED BY <4>1
    <3>2. CASE e \in EnteredBatches
      <4>1. rows[e].status \in {"draft", "voided", "deleted"}
        BY <1>0, <3>2, Table DEF EnteredBatches, Row, Status
      <4>2. EntryOf(e) = [state |-> "draft", content |-> rows[e].content] \/ EntryOf(e) = [state |-> "removed"]
        BY <3>2, <4>1, EntryCases DEF EntryFacts
      <4> QED BY <4>2
    <3> QED BY <3>1, <3>2
  <2> QED BY <2>1 DEF Shares, Share
<1>5. SumFunctionOnSet(g, BatchId) = SumFunctionOnSet(g, T)
  <2>1. T \in SUBSET BatchId
    BY <1>0
  <2> HIDE DEF g, T
  <2> QED BY <1>0, <1>3, <1>4, <2>1, SumSupport
<1>6. IsFiniteSet(T)
  BY <1>0, TableFinite
<1>7. SumFunctionOnSet(sums, K) = SumFunctionOnSet(g, T)
  <2>1. \A e \in T : key[e] \in K /\ g[e] \in Int
    BY <1>1, <1>3
  <2> HIDE DEF g, T, K, key
  <2> QED BY <1>0, <1>6, <2>1, SumByKey
<1>8. \A k \in K : sums[k] = f[k]
  <2> TAKE k \in K
  <2>1. k \in NonInternal /\ rows[k].status = "posted" /\ LatestCandidates(k) = {} /\ k \in DOMAIN rows
    BY <1>0 DEF CurrentBatches
  <2>2. LatestBatch[k] = k
    BY <2>1, LatestStep
  <2>3. PICK r \in RootBatches : rows[r].status = "posted" /\ LatestBatch[r] = k
    BY <2>1, <2>2, EveryLineHasRoot
  <2>4. r \in DOMAIN rows /\ rows[r].supersedes = None /\ ~IsReversal(r)
    BY DEF RootBatches, NonInternal, IsReversal
  <2>5. r \in T
    BY <2>3, <2>4 DEF EnteredBatches, IndInv, Links, IsRevision
  <2>6. ASSUME NEW e \in T, key[e] = k PROVE e = r
    <3>1. e \in DOMAIN rows /\ rows[e].supersedes = None /\ LatestBatch[e] = k
      BY <1>0, <1>1, <2>6
    <3> QED BY <2>3, <2>4, <3>1, RootsApart
  <2>7. {e \in T : key[e] = k} = {r}
    BY <2>3, <2>5, <2>6
  <2>8. g[r] = f[k] /\ g[r] \in Int
    BY <1>1, <1>3, <2>3, <2>5
  <2>9. sums[k] = SumFunctionOnSet(g, {r})
    BY <2>7
  <2> HIDE DEF g, f, T, key, sums
  <2> QED BY <2>8, <2>9, SumSingle
<1>9. SumFunctionOnSet(sums, K) = SumFunctionOnSet(f, K)
  <2> HIDE DEF g, f, T, K, key, sums
  <2> QED BY <1>0, <1>8, SumSame
<1>10. ReportedNet(a, d) = SumFunctionOnSet(f, K)
  <2>1. NetOver(K, a, d) = SumFunctionOnSet(f, K)
    BY DOMAIN f = K DEF NetOver, SumFunction
  <2> QED BY <2>1, ReportedIsCurrent
<1>11. \A e \in BatchId : g[e] \in Int
  BY <1>3, <1>4
<1> HIDE DEF f, T, K, key, sums
<1> QED BY <1>5, <1>7, <1>9, <1>10, <1>11

\* What a step does to one entry of the book, seen from its two ends.
EntryChange(e) ==
  /\ \A x \in BatchId \ {e} : EntryOf(x)' = EntryOf(x)
  /\ \/ EntryOf(e)' = EntryOf(e)
     \/ /\ EntryOf(e) = [state |-> "none"]
        /\ \E c \in Content, st \in {"draft", "posted"} : EntryOf(e)' = [state |-> st, content |-> c]
     \/ \E old : /\ EntryOf(e) = [state |-> "draft", content |-> old]
                 /\ EntryOf(e)' = [state |-> "posted", content |-> old]
     \/ \E st \in {"draft", "posted"} :
          /\ \E old : EntryOf(e) = [state |-> st, content |-> old]
          /\ \/ \E c \in Content : EntryOf(e)' = [state |-> st, content |-> c]
             \/ EntryOf(e)' = [state |-> "removed"]

\* The balances follow the entries.
LEMMA BalanceFollows ==
  ASSUME BalanceFacts, BalanceFacts', NEW e \in BatchId, NEW a \in OrgAccount, NEW d \in Date,
         \A x \in BatchId \ {e} : EntryOf(x)' = EntryOf(x)
  PROVE  /\ ReportedNet(a, d)' = ReportedNet(a, d) - Share(EntryOf(e), a, d) + Share(EntryOf(e)', a, d)
         /\ ReportedNet(a, d) \in Int
         /\ Share(EntryOf(e), a, d) \in Int /\ Share(EntryOf(e)', a, d) \in Int
<1> DEFINE f == Shares(a, d)
<1>1. IsFiniteSet(BatchId)
  BY JournalAssumption, FS_Interval DEF BatchId
<1>2. PICK g : g = Shares(a, d)'
  OBVIOUS
<1>3. \A x \in BatchId : /\ f[x] \in Int /\ f[x] = Share(EntryOf(x), a, d)
                         /\ g[x] \in Int /\ g[x] = Share(EntryOf(x)', a, d)
  BY <1>2 DEF BalanceFacts, Shares
<1>4. \A x \in BatchId \ {e} : g[x] = f[x]
  BY <1>3
<1>5. ReportedNet(a, d) = SumFunctionOnSet(f, BatchId)
  BY DEF BalanceFacts
<1>6. ReportedNet(a, d)' = SumFunctionOnSet(g, BatchId)
  BY <1>2 DEF BalanceFacts
<1> HIDE DEF f
<1>7. SumFunctionOnSet(g, BatchId) = SumFunctionOnSet(f, BatchId) - f[e] + g[e]
  BY <1>1, <1>3, <1>4, SumChange
<1>8. SumFunctionOnSet(f, BatchId) \in Int
  BY <1>1, <1>3, SumInt
<1> QED BY <1>3, <1>5, <1>6, <1>7, <1>8

\* EntryBook reads the lines with the same operators.
LEMMA SameSum ==
  ASSUME NEW f, NEW S
  PROVE  Book!SumFunctionOnSet(f, S) = SumFunctionOnSet(f, S)
BY DEF SumFunctionOnSet, FoldFunctionOnSet, MapThenFoldSet,
       Book!SumFunctionOnSet, Book!FoldFunctionOnSet, Book!MapThenFoldSet

LEMMA SameNet ==
  ASSUME NEW ls, NEW a, NEW d
  PROVE  Book!NetOf(ls, a, d) = NetOf(ls, a, d)
BY SameSum DEF NetOf, SumFunction, Book!NetOf, Book!SumFunction

LEMMA BookStep ==
  ASSUME BalanceFacts, BalanceFacts', NEW e \in BatchId, EntryChange(e)
  PROVE  [Book!Next]_(Book!bookVars)
<1> DEFINE P == OrgAccount \X Date
<1>1. PICK E : E = [x \in BatchId |-> EntryOf(x)]
  OBVIOUS
<1>2. PICK B : B = [p \in P |-> ReportedNet(p[1], p[2])]
  OBVIOUS
<1>3. PICK E1 : E1 = [x \in BatchId |-> EntryOf(x)']
  OBVIOUS
<1>4. PICK B1 : B1 = [p \in P |-> ReportedNet(p[1], p[2])']
  OBVIOUS
<1>5. \A x \in BatchId \ {e} : EntryOf(x)' = EntryOf(x)
  BY DEF EntryChange
<1>6. \A p \in P : LET old == Share(E[e], p[1], p[2])
                       new == Share(E1[e], p[1], p[2])
                   IN  B[p] \in Int /\ old \in Int /\ new \in Int /\ B1[p] = B[p] - old + new
  <2> TAKE p \in P
  <2>1. p[1] \in OrgAccount /\ p[2] \in Date
    OBVIOUS
  <2>2. /\ B[p] = ReportedNet(p[1], p[2]) /\ B1[p] = ReportedNet(p[1], p[2])'
        /\ E[e] = EntryOf(e) /\ E1[e] = EntryOf(e)'
    BY <1>1, <1>2, <1>3, <1>4
  <2> QED BY <1>5, <2>1, <2>2, BalanceFollows
<1>7. E1 = [E EXCEPT ![e] = E1[e]] /\ E[e] = EntryOf(e) /\ E1[e] = EntryOf(e)'
  BY <1>1, <1>3, <1>5
<1>8. DOMAIN E = BatchId /\ B = [p \in P |-> B[p]] /\ B1 = [p \in P |-> B1[p]]
  BY <1>1, <1>2, <1>4
<1>9. CASE E1[e] = E[e]
  <2>1. E1 = E
    BY <1>1, <1>7, <1>9
  <2>2. \A p \in P : B1[p] = B[p]
    BY <1>6, <1>9
  <2>3. B1 = B
    BY <1>8, <2>2
  <2> QED BY <1>1, <1>2, <1>3, <1>4, <2>1, <2>3 DEF Book!bookVars
<1>10. CASE E1[e] # E[e]
  <2>1. SUFFICES Book!Step(e)
    BY <1>1, <1>3, <1>10 DEF Book!Next
  <2>2. ASSUME NEW c \in Content, NEW st \in {"draft", "posted"},
               E[e] = [state |-> "none"], E1[e] = [state |-> st, content |-> c]
        PROVE  Book!Enter(e, c)
    <3>1. CASE st = "draft"
      <4>1. \A p \in P : B1[p] = B[p]
        BY <1>6, <2>2, <3>1 DEF Share
      <4>2. B1 = B
        BY <1>8, <4>1
      <4>3. E[e] = Book!Blank /\ E1 = [E EXCEPT ![e] = [state |-> "draft", content |-> c]]
        BY <1>7, <2>2, <3>1 DEF Book!Blank
      <4> QED BY <1>1, <1>2, <1>3, <1>4, <4>2, <4>3 DEF Book!Enter
    <3>2. CASE st = "posted"
      <4>1. \A p \in P : B1[p] = B[p] + 1 * Book!NetOf(c.lines, p[1], p[2])
        BY <1>6, <2>2, <3>2, SameNet DEF Share
      <4>2. B1 = Book!Moved(B, c, 1)
        BY <1>8, <4>1 DEF Book!Moved
      <4>3. E[e] = Book!Blank /\ E1 = [E EXCEPT ![e] = [state |-> "posted", content |-> c]]
        BY <1>7, <2>2, <3>2 DEF Book!Blank
      <4> QED BY <1>1, <1>2, <1>3, <1>4, <4>2, <4>3 DEF Book!Enter
    <3> QED BY <3>1, <3>2
  <2>3. ASSUME NEW old, E[e] = [state |-> "draft", content |-> old],
               E1[e] = [state |-> "posted", content |-> old]
        PROVE  Book!Post(e)
    <3>1. \A p \in P : B1[p] = B[p] + 1 * Book!NetOf(old.lines, p[1], p[2])
      BY <1>6, <2>3, SameNet DEF Share
    <3>2. B1 = Book!Moved(B, E[e].content, 1)
      BY <1>8, <2>3, <3>1 DEF Book!Moved
    <3>3. E[e].state = "draft" /\ E1 = [E EXCEPT ![e].state = "posted"]
      BY <1>7, <1>8, <2>3
    <3> QED BY <1>1, <1>2, <1>3, <1>4, <3>2, <3>3 DEF Book!Post
  <2>4. ASSUME NEW old, NEW st \in {"draft", "posted"}, E[e] = [state |-> st, content |-> old],
               NEW c \in Content, E1[e] = [state |-> st, content |-> c]
        PROVE  Book!Edit(e, c)
    <3>0. E[e].state = st /\ E[e].content = old /\ E1 = [E EXCEPT ![e].content = c]
      BY <1>7, <1>8, <2>4
    <3>1. CASE st = "draft"
      <4>1. \A p \in P : B1[p] = B[p]
        BY <1>6, <2>4, <3>1 DEF Share
      <4>2. B1 = B
        BY <1>8, <4>1
      <4> QED BY <1>1, <1>2, <1>3, <1>4, <3>0, <3>1, <4>2 DEF Book!Edit
    <3>2. CASE st = "posted"
      <4> DEFINE M == Book!Moved(B, old, -1)
      <4>1. \A p \in P : B1[p] = (B[p] + (-1) * Book!NetOf(old.lines, p[1], p[2]))
                                   + 1 * Book!NetOf(c.lines, p[1], p[2])
        BY <1>6, <2>4, <3>2, SameNet DEF Share
      <4>2. \A p \in P : M[p] = B[p] + (-1) * Book!NetOf(old.lines, p[1], p[2])
        BY DEF Book!Moved
      <4> HIDE DEF M
      <4>3. B1 = Book!Moved(M, c, 1)
        BY <1>8, <4>1, <4>2 DEF Book!Moved
      <4> QED BY <1>1, <1>2, <1>3, <1>4, <3>0, <3>2, <4>3 DEF Book!Edit, M
    <3> QED BY <3>1, <3>2
  <2>5. ASSUME NEW old, NEW st \in {"draft", "posted"}, E[e] = [state |-> st, content |-> old],
               E1[e] = [state |-> "removed"]
        PROVE  Book!Remove(e)
    <3>0. E[e].state = st /\ E[e].content = old /\ E1 = [E EXCEPT ![e] = Book!Removed]
      BY <1>7, <1>8, <2>5 DEF Book!Removed
    <3>1. CASE st = "draft"
      <4>1. \A p \in P : B1[p] = B[p]
        BY <1>6, <2>5, <3>1 DEF Share
      <4>2. B1 = B
        BY <1>8, <4>1
      <4> QED BY <1>1, <1>2, <1>3, <1>4, <3>0, <3>1, <4>2 DEF Book!Remove
    <3>2. CASE st = "posted"
      <4>1. \A p \in P : B1[p] = B[p] + (-1) * Book!NetOf(old.lines, p[1], p[2])
        BY <1>6, <2>5, <3>2, SameNet DEF Share
      <4>2. B1 = Book!Moved(B, old, -1)
        BY <1>8, <4>1 DEF Book!Moved
      <4> QED BY <1>1, <1>2, <1>3, <1>4, <3>0, <3>2, <4>2 DEF Book!Remove
    <3> QED BY <3>1, <3>2
  <2> QED BY <1>7, <1>10, <2>2, <2>3, <2>4, <2>5 DEF EntryChange, Book!Step
<1> QED BY <1>9, <1>10

\* What one step of findLatestBatchForRoot does.
LatestFacts ==
  \A b \in DOMAIN rows :
    /\ LatestCandidates(b) = {} => LatestBatch[b] = b
    /\ \A x \in LatestCandidates(b) : LatestBatch[b] = LatestBatch[x]

LEMMA LatestSteps == IndInv /\ OlderFirst => LatestFacts
BY LatestStep DEF LatestFacts

\* All that the reading of a step as a step of the book needs, of either state.
BookFacts == SoundBooks /\ LatestFacts /\ WalkFacts /\ EntryFacts /\ BalanceFacts

LEMMA FactsHold == SoundBooks => BookFacts
BY LatestSteps, WalkEnds, EntryCases, BalanceIsShares DEF SoundBooks, BookFacts

\* The walk takes the same way as before, up to where it ends.
LEMMA WalkKept ==
  ASSUME BookFacts, BookFacts', NEW S \in SUBSET DOMAIN rows, S \subseteq DOMAIN rows', NEW to,
         \A x \in S : LatestCandidates(x) = {} => LatestBatch'[x] = to[x],
         \A x \in S : LatestCandidates(x) # {} =>
                        LatestCandidates(x)' = LatestCandidates(x) /\ LatestCandidates(x) \subseteq S
  PROVE  \A x \in S : LatestBatch'[x] = to[LatestBatch[x]]
<1> DEFINE C == {x \in S : LatestBatch'[x] # to[LatestBatch[x]]}
<1>0. IndInv /\ OlderFirst /\ Len(rows) \in Int /\ DOMAIN rows = 1 .. Len(rows)
  BY Table DEF BookFacts, SoundBooks, IndInv
<1> SUFFICES ASSUME C # {} PROVE FALSE
  OBVIOUS
<1>1. PICK x \in C : \A y \in C : y <= x
  <2>1. C \in SUBSET (1 .. Len(rows))
    BY <1>0
  <2> HIDE DEF C
  <2> QED BY <1>0, <2>1, LargestNumber
<1>2. x \in S /\ x \in DOMAIN rows /\ x \in DOMAIN rows' /\ LatestBatch'[x] # to[LatestBatch[x]]
  OBVIOUS
<1>3. PICK y : y \in LatestCandidates(x)
  <2>1. LatestCandidates(x) # {}
    BY <1>2 DEF BookFacts, LatestFacts
  <2> QED BY <2>1
<1>4. y \in LatestCandidates(x)' /\ y \in S
  BY <1>2, <1>3
<1>5. LatestBatch[x] = LatestBatch[y] /\ LatestBatch'[x] = LatestBatch'[y]
  BY <1>2, <1>3, <1>4 DEF BookFacts, LatestFacts
<1>6. x < y /\ y \in DOMAIN rows
  BY <1>0, <1>2, <1>3, OneCandidate
<1>7. y \in C
  BY <1>2, <1>4, <1>5
<1> QED BY <1>0, <1>1, <1>2, <1>6, <1>7

\* A step that leaves every row as it is leaves every walk as it is.
LEMMA WalkUnchanged ==
  ASSUME BookFacts, BookFacts', DOMAIN rows \subseteq DOMAIN rows',
         \A x \in DOMAIN rows : LatestCandidates(x)' = LatestCandidates(x)
  PROVE  \A x \in DOMAIN rows : LatestBatch'[x] = LatestBatch[x]
<1> DEFINE to == [x \in DOMAIN rows |-> x]
<1>1. \A x \in DOMAIN rows : LatestCandidates(x) = {} => LatestBatch'[x] = to[x]
  BY DEF BookFacts, LatestFacts
<1>2. \A x \in DOMAIN rows : LatestCandidates(x) \subseteq DOMAIN rows
  BY DEF LatestCandidates, NonInternal
<1> HIDE DEF to
<1>3. \A x \in DOMAIN rows : LatestBatch'[x] = to[LatestBatch[x]]
  BY <1>1, <1>2, WalkKept
<1>4. \A x \in DOMAIN rows : LatestBatch[x] \in DOMAIN rows
  BY LatestBelow DEF BookFacts, SoundBooks, Descendants
<1> QED BY <1>3, <1>4 DEF to

\* An entry stays as it is when its batch and the last revision of it do.
LEMMA EntryStays ==
  ASSUME BookFacts, BookFacts', NEW e \in BatchId,
         e \in EnteredBatches' <=> e \in EnteredBatches,
         e \in EnteredBatches =>
           /\ rows'[e].status = rows[e].status
           /\ rows[e].status = "draft" => rows'[e].content = rows[e].content
           /\ rows[e].status = "posted" => rows'[LatestBatch'[e]].content = rows[LatestBatch[e]].content
  PROVE  EntryOf(e)' = EntryOf(e)
<1>1. CASE e \notin EnteredBatches
  BY <1>1 DEF BookFacts, EntryFacts
<1>2. CASE e \in EnteredBatches
  <2>1. rows[e].status \in {"draft", "posted", "voided", "deleted"}
    BY <1>2, Table DEF BookFacts, SoundBooks, IndInv, EnteredBatches, Row, Status
  <2> QED BY <1>2, <2>1 DEF BookFacts, EntryFacts
<1> QED BY <1>1, <1>2

LEMMA CreateChange ==
  ASSUME BookFacts, BookFacts', NEW c \in Content, NEW st \in {"draft", "posted"},
         NEW k \in SourceKey \cup {NoSource}, NEW u \in BOOLEAN, CreateBatch(c, st, k, u)
  PROVE  \E e \in BatchId : EntryChange(e)
<1>a. PICK n : n = Len(rows) + 1
  OBVIOUS
<1>0. TypeOK /\ IndInv /\ Len(rows) \in Nat /\ DOMAIN rows = 1 .. Len(rows) /\ n \notin DOMAIN rows /\ None \notin DOMAIN rows
      /\ n # None
  BY <1>a, Table DEF BookFacts, SoundBooks, IndInv, BatchId, None
<1>1. /\ DOMAIN rows' = DOMAIN rows \cup {n} /\ Len(rows') <= MaxBatches /\ Len(rows') = n
      /\ \A x \in DOMAIN rows : rows'[x] = rows[x]
      /\ rows'[n] = PlainRow(c, st, k, u)
  BY <1>0, <1>a, CreateEffect
<1>2. n \in BatchId
  BY <1>0, <1>1, <1>a, JournalAssumption DEF BatchId
<1>3. /\ rows'[n].originalBatchId = None /\ rows'[n].supersedes = None
      /\ rows'[n].status = st /\ rows'[n].content = c
  BY <1>1 DEF PlainRow
<1>4. \A x \in DOMAIN rows : LatestCandidates(x)' = LatestCandidates(x)
  BY <1>0, <1>1, <1>3 DEF LatestCandidates, NonInternal
<1>5. \A x \in DOMAIN rows : LatestBatch'[x] = LatestBatch[x]
  BY <1>1, <1>4, WalkUnchanged
<1>6. ASSUME NEW e \in BatchId \ {n} PROVE EntryOf(e)' = EntryOf(e)
  <2>1. e \in EnteredBatches' <=> e \in EnteredBatches
    BY <1>1 DEF EnteredBatches
  <2>2. \A x \in DOMAIN rows : LatestBatch[x] \in DOMAIN rows
    BY LatestBelow DEF BookFacts, SoundBooks, Descendants
  <2> QED BY <1>1, <1>5, <2>1, <2>2, EntryStays DEF EnteredBatches
<1>7. EntryOf(n) = [state |-> "none"]
  BY <1>0, <1>2 DEF BookFacts, EntryFacts, EnteredBatches
<1>8. EntryOf(n)' = [state |-> st, content |-> c]
  <2>1. n \in EnteredBatches'
    BY <1>1, <1>3 DEF EnteredBatches
  <2>2. LatestBatch'[n] = n
    <3>1. LatestCandidates(n)' = {}
      <4> SUFFICES ASSUME NEW x \in DOMAIN rows', rows'[x].supersedes = n PROVE FALSE
        BY DEF LatestCandidates, NonInternal
      <4>1. x \in DOMAIN rows /\ rows[x].supersedes = n
        BY <1>0, <1>1, <1>3
      <4> QED BY <1>0, <4>1 DEF IndInv, Links, IsRevision
    <3> QED BY <1>1, <3>1 DEF BookFacts, LatestFacts
  <2> QED BY <1>2, <1>3, <2>1, <2>2 DEF BookFacts, EntryFacts
<1> QED BY <1>2, <1>6, <1>7, <1>8 DEF EntryChange

\* Posting, changing or deleting a draft touches the one entry that it is.
LEMMA DraftChange ==
  ASSUME BookFacts, BookFacts', NEW b \in DOMAIN rows, rows[b].status = "draft", DraftStep(b),
         \/ rows'[b].status = "posted" /\ rows'[b].content = rows[b].content
         \/ rows'[b].status = "draft" /\ rows'[b].content \in Content
         \/ rows'[b].status = "deleted"
  PROVE  \E e \in BatchId : EntryChange(e)
<1>0. /\ IndInv /\ DOMAIN rows \subseteq BatchId /\ None \notin DOMAIN rows
      /\ \A x \in DOMAIN rows : LatestBatch[x] \in DOMAIN rows
      /\ DOMAIN rows' = DOMAIN rows
  BY Table, LatestBelow DEF BookFacts, SoundBooks, IndInv, BatchId, None, Descendants, DraftStep, Kept
<1>1. /\ rows[b].originalBatchId = None /\ rows[b].supersedes = None /\ ~IsReversal(b)
      /\ \A x \in DOMAIN rows : rows[x].originalBatchId # b /\ rows[x].supersedes # b
  BY <1>0, DraftIsUnlinked DEF IndInv, Links, IsRevision
<1>2. \A x \in DOMAIN rows : LatestCandidates(x)' = LatestCandidates(x)
  <2> TAKE x \in DOMAIN rows
  <2>1. x # None
    BY <1>0
  <2>2. \A y \in DOMAIN rows : y \in LatestCandidates(x)' <=> y \in LatestCandidates(x)
    BY <1>0, <1>1, <2>1 DEF LatestCandidates, NonInternal, DraftStep, Kept
  <2>3. LatestCandidates(x)' \subseteq DOMAIN rows /\ LatestCandidates(x) \subseteq DOMAIN rows
    BY <1>0 DEF LatestCandidates, NonInternal
  <2> QED BY <2>2, <2>3
<1>3. \A x \in DOMAIN rows : LatestBatch'[x] = LatestBatch[x]
  BY <1>0, <1>2, WalkUnchanged
<1>4. \A e \in BatchId : e \in EnteredBatches' <=> e \in EnteredBatches
  BY <1>0 DEF EnteredBatches, DraftStep, Kept
<1>5. ASSUME NEW e \in BatchId \ {b} PROVE EntryOf(e)' = EntryOf(e)
  <2>1. ASSUME e \in EnteredBatches, rows[e].status = "posted" PROVE LatestBatch[e] # b
    <3>1. e \in RootBatches /\ e \in NonInternal
      BY <1>0, <2>1 DEF EnteredBatches, IndInv, Links, IsRevision, IsReversal, RootBatches, NonInternal
    <3>2. rows[LatestBatch[e]].status = "posted"
      BY <2>1, <3>1 DEF BookFacts, WalkFacts
    <3> QED BY <3>2
  <2>2. \A x \in DOMAIN rows \ {b} : rows'[x] = rows[x]
    BY DEF DraftStep
  <2> QED BY <1>0, <1>3, <1>4, <2>1, <2>2, EntryStays DEF EnteredBatches
<1>6. b \in BatchId /\ b \in EnteredBatches /\ b \in EnteredBatches'
  BY <1>0, <1>1, <1>4 DEF EnteredBatches
<1>7. EntryOf(b) = [state |-> "draft", content |-> rows[b].content]
  BY <1>6 DEF BookFacts, EntryFacts
<1>8. CASE rows'[b].status = "posted" /\ rows'[b].content = rows[b].content
  <2>1. LatestBatch[b] = b
    BY <1>1, <1>6 DEF BookFacts, WalkFacts, NonInternal, IsReversal
  <2>2. EntryOf(b)' = [state |-> "posted", content |-> rows[b].content]
    BY <1>3, <1>6, <1>8, <2>1 DEF BookFacts, EntryFacts
  <2> QED BY <1>5, <1>6, <1>7, <2>2 DEF EntryChange
<1>9. CASE rows'[b].status = "draft" /\ rows'[b].content \in Content
  <2>1. EntryOf(b)' = [state |-> "draft", content |-> rows'[b].content]
    BY <1>6, <1>9 DEF BookFacts, EntryFacts
  <2> QED BY <1>5, <1>6, <1>7, <1>9, <2>1 DEF EntryChange
<1>10. CASE rows'[b].status = "deleted"
  <2>1. EntryOf(b)' = [state |-> "removed"]
    BY <1>6, <1>10 DEF BookFacts, EntryFacts
  <2> QED BY <1>5, <1>6, <1>7, <2>1 DEF EntryChange
<1> QED BY <1>8, <1>9, <1>10

\* A reversal and a revision of the last batch of a line edit the entry at its head.
LEMMA AdjustChange ==
  ASSUME BookFacts, BookFacts', NEW b \in UserFacing, NEW c \in Content, AdjustBatch(b, c)
  PROVE  \E e \in BatchId : EntryChange(e)
<1>a. PICK n : n = Len(rows) + 2
  OBVIOUS
<1>b. PICK m : m = Len(rows) + 1
  OBVIOUS
<1>0. /\ IndInv /\ OlderFirst /\ TypeOK /\ Len(rows) \in Nat /\ DOMAIN rows = 1 .. Len(rows)
      /\ DOMAIN rows \subseteq BatchId
      /\ n \notin DOMAIN rows /\ m \notin DOMAIN rows /\ m # n /\ n # None /\ m # None
      /\ None \notin DOMAIN rows /\ b \in DOMAIN rows
      /\ \A x \in DOMAIN rows : LatestBatch[x] \in DOMAIN rows
  <2>1. IndInv /\ OlderFirst /\ TypeOK /\ b \in DOMAIN rows
    BY DEF BookFacts, SoundBooks, IndInv, UserFacing
  <2>2. \A x \in DOMAIN rows : LatestBatch[x] \in DOMAIN rows
    BY <2>1, LatestBelow DEF Descendants
  <2> QED BY <1>a, <1>b, <2>1, <2>2, Table DEF BatchId, None
<1>1. /\ DOMAIN rows' = DOMAIN rows \cup {m, n}
      /\ \A x \in DOMAIN rows \ {b} : rows'[x] = rows[x]
      /\ rows'[b] = [rows[b] EXCEPT !.audit = rows[b].audit \cup {"update"}]
      /\ rows'[m] = ReversalRow(b, AdjustmentKey(b, c))
      /\ rows'[n] = RevisedRow(b, c, AdjustmentKey(b, c), m)
  BY <1>a, <1>b, <1>0, AdjustEffect
<1>2. /\ rows'[m].sourceType = "adjustment_reversal" /\ rows'[m].originalBatchId = b
      /\ rows'[n].status = "posted" /\ rows'[n].sourceType = "adjustment"
      /\ rows'[n].supersedes = b /\ rows'[n].originalBatchId = b /\ rows'[n].content = c
  BY <1>1, ReversalRowFields, RevisedRowFields
<1>3. \A x \in DOMAIN rows : /\ rows'[x].status = rows[x].status /\ rows'[x].content = rows[x].content
                             /\ rows'[x].sourceType = rows[x].sourceType
                             /\ rows'[x].supersedes = rows[x].supersedes
                             /\ rows'[x].originalBatchId = rows[x].originalBatchId
  <2> TAKE x \in DOMAIN rows
  <2>1. rows[x] \in Row
    BY <1>0, Table
  <2> QED BY <1>1, <2>1 DEF Row
<1>4. rows[b].status = "posted" /\ PostedChildren(b) = {}
  BY DEF AdjustBatch, Adjustable
<1>5. LatestCandidates(b) = {}
  <2> SUFFICES ASSUME NEW x \in LatestCandidates(b) PROVE FALSE
    OBVIOUS
  <2>1. x \in DOMAIN rows /\ rows[x].status = "posted" /\ rows[x].supersedes = b
    BY <1>0, OneCandidate DEF LatestCandidates
  <2> QED BY <1>4, <2>1 DEF PostedChildren
<1>6. \A x \in DOMAIN rows \ {b} : LatestCandidates(x)' = LatestCandidates(x)
  <2> TAKE x \in DOMAIN rows \ {b}
  <2>1. \A y \in DOMAIN rows : y \in LatestCandidates(x)' <=> y \in LatestCandidates(x)
    BY <1>1, <1>3 DEF LatestCandidates, NonInternal
  <2>2. m \notin LatestCandidates(x)' /\ n \notin LatestCandidates(x)'
    BY <1>2 DEF LatestCandidates, NonInternal
  <2>3. LatestCandidates(x)' \subseteq DOMAIN rows \cup {m, n} /\ LatestCandidates(x) \subseteq DOMAIN rows
    BY <1>1 DEF LatestCandidates, NonInternal
  <2> QED BY <2>1, <2>2, <2>3
<1>7. LatestBatch'[n] = n /\ LatestBatch'[b] = n
  <2>1. LatestCandidates(n)' = {}
    <3> SUFFICES ASSUME NEW x \in DOMAIN rows', rows'[x].supersedes = n,
                        rows'[x].sourceType # "adjustment_reversal" PROVE FALSE
      BY DEF LatestCandidates, NonInternal
    <3>1. x \in DOMAIN rows /\ rows[x].supersedes = n
      BY <1>0, <1>1, <1>2, <1>3
    <3> QED BY <1>0, <3>1 DEF IndInv, Links, IsRevision
  <2>2. n \in LatestCandidates(b)'
    BY <1>1, <1>2 DEF LatestCandidates, NonInternal
  <2> QED BY <1>0, <1>1, <2>1, <2>2 DEF BookFacts, LatestFacts
<1> DEFINE to == [x \in DOMAIN rows |-> IF x = b THEN n ELSE x]
<1>8. \A x \in DOMAIN rows : LatestBatch'[x] = to[LatestBatch[x]]
  <2>1. \A x \in DOMAIN rows : LatestCandidates(x) = {} => LatestBatch'[x] = to[x]
    <3> TAKE x \in DOMAIN rows
    <3>1. CASE x = b
      BY <1>7, <3>1
    <3>2. CASE x # b
      BY <1>1, <1>6, <3>2 DEF BookFacts, LatestFacts
    <3> QED BY <3>1, <3>2
  <2>2. \A x \in DOMAIN rows : LatestCandidates(x) # {} =>
           LatestCandidates(x)' = LatestCandidates(x) /\ LatestCandidates(x) \subseteq DOMAIN rows
    BY <1>5, <1>6 DEF LatestCandidates, NonInternal
  <2> HIDE DEF to
  <2> QED BY <1>1, <2>1, <2>2, WalkKept
<1>9. \A e \in BatchId : e \in EnteredBatches' <=> e \in EnteredBatches
  BY <1>0, <1>1, <1>2, <1>3 DEF EnteredBatches
<1>10. PICK r \in RootBatches : rows[r].status = "posted" /\ LatestBatch[r] = b
  <2>1. b \in NonInternal
    BY DEF UserFacing, NonInternal
  <2>2. LatestBatch[b] = b
    BY <1>0, <1>5 DEF BookFacts, LatestFacts
  <2> QED BY <1>0, <1>4, <2>1, <2>2, EveryLineHasRoot
<1>11. /\ r \in DOMAIN rows /\ r \in BatchId /\ rows[r].supersedes = None
       /\ r \in EnteredBatches /\ r \in EnteredBatches'
  <2>1. r \in DOMAIN rows /\ rows[r].supersedes = None /\ ~IsReversal(r)
    BY DEF RootBatches, NonInternal, IsReversal
  <2> QED BY <1>0, <1>9, <2>1 DEF EnteredBatches, IndInv, Links, IsRevision
<1>12. ASSUME NEW e \in BatchId \ {r} PROVE EntryOf(e)' = EntryOf(e)
  <2>1. ASSUME e \in EnteredBatches PROVE LatestBatch'[e] = LatestBatch[e]
    <3>1. e \in DOMAIN rows /\ rows[e].supersedes = None
      BY <1>0, <2>1 DEF EnteredBatches, IndInv, Links, IsRevision
    <3>2. LatestBatch[e] # b
      BY <1>0, <1>10, <1>11, <3>1, RootsApart
    <3> QED BY <1>0, <1>8, <3>1, <3>2
  <2> QED BY <1>0, <1>3, <1>9, <2>1, EntryStays DEF EnteredBatches
<1>13. EntryOf(r) = [state |-> "posted", content |-> rows[b].content]
  BY <1>10, <1>11 DEF BookFacts, EntryFacts
<1>14. EntryOf(r)' = [state |-> "posted", content |-> c]
  <2>1. LatestBatch'[r] = n
    BY <1>0, <1>8, <1>10, <1>11
  <2> QED BY <1>2, <1>3, <1>10, <1>11, <2>1 DEF BookFacts, EntryFacts
<1> QED BY <1>11, <1>12, <1>13, <1>14 DEF EntryChange

\* Voiding a lifecycle removes the entry at its head.
LEMMA VoidChange ==
  ASSUME BookFacts, BookFacts', NEW b \in UserFacing, VoidLifecycle(b)
  PROVE  \E e \in BatchId : EntryChange(e)
<1>0. /\ IndInv /\ TypeOK /\ Links /\ DOMAIN rows \subseteq BatchId /\ None \notin DOMAIN rows
      /\ \A x \in DOMAIN rows : rows[x].status \in Status
      /\ \A x \in DOMAIN rows : LatestBatch[x] \in DOMAIN rows
  BY Table, LatestBelow DEF BookFacts, SoundBooks, IndInv, BatchId, None, Descendants, Row
<1>1. PICK r \in DOMAIN rows : IsRootOf(r, b) /\ rows' = Voided(LifecycleOf(r))
  BY DEF VoidLifecycle
<1>2. PICK L : L = LifecycleOf(r)
  OBVIOUS
<1>3. /\ Kept
      /\ \A x \in DOMAIN rows : /\ rows'[x].content = rows[x].content
                                /\ IF x \in L /\ rows[x].status = "posted"
                                     THEN rows'[x].status = "voided"
                                     ELSE rows'[x] = rows[x]
  BY <1>0, <1>1, <1>2, VoidEffect
<1>4. r \in L /\ rows[r].supersedes = None
  BY <1>1, <1>2, DescendantsClosed DEF LifecycleOf, IsRootOf
<1> DEFINE S == DOMAIN rows \ L
           to == [x \in DOMAIN rows |-> x]
<1>5. \A x \in S : LatestCandidates(x)' = LatestCandidates(x) /\ LatestCandidates(x) \subseteq S
  <2> TAKE x \in S
  <2>1. ASSUME NEW y \in DOMAIN rows, rows[y].supersedes = x PROVE y \notin L
    <3>1. rows[y].originalBatchId = x /\ rows[y].originalBatchId # None
      BY <1>0, <2>1 DEF Links, IsRevision
    <3> QED BY <1>0, <1>1, <1>2, <3>1, LifecycleTakesBothOrNone
  <2>2. \A y \in DOMAIN rows : y \in LatestCandidates(x)' <=> y \in LatestCandidates(x)
    BY <1>3, <2>1 DEF LatestCandidates, NonInternal, Kept
  <2>3. LatestCandidates(x)' \subseteq DOMAIN rows /\ LatestCandidates(x) \subseteq DOMAIN rows
    BY <1>3 DEF LatestCandidates, NonInternal, Kept
  <2>4. \A y \in LatestCandidates(x) : y \notin L
    BY <2>1, <2>3 DEF LatestCandidates
  <2> QED BY <2>2, <2>3, <2>4
<1>6. \A x \in S : LatestBatch'[x] = LatestBatch[x]
  <2>1. \A x \in S : LatestCandidates(x) = {} => LatestBatch'[x] = to[x]
    BY <1>3, <1>5 DEF BookFacts, LatestFacts, Kept
  <2>2. S \in SUBSET DOMAIN rows /\ S \subseteq DOMAIN rows'
    BY <1>3 DEF Kept
  <2>3. \A x \in S : to[LatestBatch[x]] = LatestBatch[x]
    BY <1>0
  <2> HIDE DEF S, to
  <2>4. \A x \in S : LatestBatch'[x] = to[LatestBatch[x]]
    BY <1>5, <2>1, <2>2, WalkKept
  <2> QED BY <2>3, <2>4
<1>7. \A e \in BatchId : e \in EnteredBatches' <=> e \in EnteredBatches
  BY <1>3 DEF EnteredBatches, Kept
<1>8. ASSUME NEW e \in BatchId \ {r} PROVE EntryOf(e)' = EntryOf(e)
  <2>1. ASSUME e \in EnteredBatches PROVE e \in S
    <3>1. e \in DOMAIN rows /\ rows[e].supersedes = None /\ ~IsReversal(e)
      BY <1>0, <2>1 DEF EnteredBatches, Links, IsRevision
    <3>2. e \notin Descendants(r)
      <4> SUFFICES ASSUME e \in Descendants(r) PROVE FALSE
        OBVIOUS
      <4>1. rows[e].supersedes \in Descendants(r)
        BY <1>8, ParentInDescendants
      <4> QED BY <1>0, <3>1, <4>1 DEF Descendants
    <3> QED BY <1>2, <3>1, <3>2 DEF LifecycleOf, ReversalsOf, IsReversal
  <2> QED BY <1>0, <1>3, <1>6, <1>7, <2>1, EntryStays DEF EnteredBatches
<1>9. CASE r \notin EnteredBatches
  BY <1>0, <1>7, <1>8, <1>9 DEF EntryChange, BookFacts, EntryFacts
<1>10. CASE r \in EnteredBatches /\ rows[r].status = "posted"
  <2>1. EntryOf(r) = [state |-> "posted", content |-> rows[LatestBatch[r]].content]
    BY <1>0, <1>10 DEF BookFacts, EntryFacts
  <2>2. EntryOf(r)' = [state |-> "removed"]
    BY <1>0, <1>3, <1>4, <1>7, <1>10 DEF BookFacts, EntryFacts
  <2> QED BY <1>0, <1>8, <2>1, <2>2 DEF EntryChange
<1>11. CASE r \in EnteredBatches /\ rows[r].status # "posted"
  <2>1. rows'[r] = rows[r]
    BY <1>3, <1>11
  <2>2. EntryOf(r)' = EntryOf(r)
    BY <1>0, <1>7, <1>11, <2>1, EntryStays
  <2> QED BY <1>0, <1>8, <2>2 DEF EntryChange
<1> QED BY <1>9, <1>10, <1>11

\* A retry answers from what is there.
LEMMA SameRows ==
  ASSUME BookFacts, BookFacts', UNCHANGED rows
  PROVE  UNCHANGED Book!bookVars
<1>1. \A x \in DOMAIN rows : LatestCandidates(x)' = LatestCandidates(x)
  BY DEF LatestCandidates, NonInternal
<1>2. \A x \in DOMAIN rows : LatestBatch'[x] = LatestBatch[x]
  BY <1>1, WalkUnchanged
<1>3. \A e \in BatchId : EntryOf(e)' = EntryOf(e)
  BY <1>2, EntryStays DEF EnteredBatches
<1>4. \A a \in OrgAccount, d \in Date : ReportedNet(a, d)' = ReportedNet(a, d)
  BY DEF ReportedNet, ReportedBatches, NetOver
<1> QED BY <1>3, <1>4 DEF Book!bookVars

LEMMA BookNext ==
  ASSUME BookFacts, BookFacts', Next
  PROVE  [Book!Next]_(Book!bookVars)
<1>0. TypeOK /\ BalanceFacts /\ BalanceFacts'
  BY DEF BookFacts, SoundBooks, IndInv
<1>1. ASSUME \E e \in BatchId : EntryChange(e) PROVE [Book!Next]_(Book!bookVars)
  BY <1>0, <1>1, BookStep
<1>2. ASSUME NEW b \in UserFacing,
             PostBatch(b) \/ DeleteDraft(b) \/ \E c \in Content : UpdateDraft(b, c)
      PROVE  [Book!Next]_(Book!bookVars)
  <2>1. b \in DOMAIN rows /\ rows[b].status = "draft"
    BY <1>2 DEF UserFacing, PostBatch, DeleteDraft, UpdateDraft
  <2>2. /\ DraftStep(b)
        /\ \/ rows'[b].status = "posted" /\ rows'[b].content = rows[b].content
           \/ rows'[b].status = "draft" /\ rows'[b].content \in Content
           \/ rows'[b].status = "deleted"
    BY <1>0, <1>2, <2>1, PostEffect, DeleteEffect, UpdateEffect
  <2> QED BY <1>1, <2>1, <2>2, DraftChange
<1>3. ASSUME NEW b \in UserFacing, NEW c \in Content, RepeatAdjust(b, c)
      PROVE  [Book!Next]_(Book!bookVars)
  BY <1>3, SameRows DEF RepeatAdjust
<1> QED BY <1>1, <1>2, <1>3, CreateChange, AdjustChange, VoidChange DEF Next

\* Seen through the list and the reports, journal-service is the book of entries
\* that it promises to be: adjusting, reversing and voiding batches enters, posts,
\* edits or removes one entry at a time, and moves the balances by exactly that.
THEOREM JournalIsEntryBook == Spec => ImplementsEntryBook
<1>1. Init => Book!Init
  <2> SUFFICES ASSUME Init PROVE Book!Init
    OBVIOUS
  <2>1. \A e \in BatchId : EntryOf(e) = [state |-> "none"]
    BY DEF Init, EntryOf
  <2>2. \A a \in OrgAccount, d \in Date : ReportedNet(a, d) = 0
    <3> TAKE a \in OrgAccount, d \in Date
    <3> DEFINE g == [b \in {} |-> NetOf(rows[b].content.lines, a, d)]
    <3>1. ReportedBatches = {}
      BY DEF Init, ReportedBatches
    <3>2. ReportedNet(a, d) = SumFunctionOnSet(g, {})
      BY <3>1, DOMAIN g = {} DEF ReportedNet, NetOver, SumFunction
    <3> QED BY <3>2, SumEmpty
  <2> QED BY <2>1, <2>2 DEF Book!Init, Book!Blank
<1>2. BookFacts /\ BookFacts' /\ [Next]_vars => [Book!Next]_(Book!bookVars)
  BY BookNext, SameRows DEF vars
<1>3. Spec => []BookFacts
  BY BooksStaySound, FactsHold, PTL
<1> QED BY <1>1, <1>2, <1>3, PTL DEF Spec, ImplementsEntryBook, Book!Spec
-----------------------------------------------------------------------------
(* Days, months and years *)

\* 1 January of year y.
NewYear(y) == 365 * (y - 1970) + LeapDaysBefore(y)

LEMMA NewYears ==
  ASSUME NEW y \in Int
  PROVE  /\ DayOf(y, 1, 1) = NewYear(y) /\ NewYear(y) \in Int
         /\ DayOf(y, 13, 1) = NewYear(y + 1)
         /\ NewYear(y + 1) - NewYear(y) \in {365, 366}
<1>1. LeapDaysBefore(y) \in Int /\ LeapDaysBefore(y + 1) \in Int
  BY DEF LeapDaysBefore
<1>2. LeapDaysBefore(y + 1) - LeapDaysBefore(y) \in {0, 1}
  <2> DEFINE z == y - 1
  <2>1. z \in Int /\ LeapDaysBefore(y) = z \div 4 - z \div 100 + z \div 400 - 477
    BY DEF LeapDaysBefore
  <2>2. LeapDaysBefore(y + 1) = (z + 1) \div 4 - (z + 1) \div 100 + (z + 1) \div 400 - 477
    <3>1. (y + 1) - 1 = z + 1
      OBVIOUS
    <3> QED BY <3>1 DEF LeapDaysBefore
  <2> HIDE DEF z
  <2>3. (z + 1) \div 4 - z \div 4 \in {0, 1} /\ (z + 1) \div 100 - z \div 100 \in {0, 1}
        /\ (z + 1) \div 400 - z \div 400 \in {0, 1}
    BY <2>1
  <2>4. (z + 1) \div 100 - z \div 100 = 1 => (z + 1) \div 4 - z \div 4 = 1
    BY <2>1
  <2>5. (z + 1) \div 400 - z \div 400 = 1 => (z + 1) \div 100 - z \div 100 = 1
    BY <2>1
  <2>6. z \div 4 \in Int /\ z \div 100 \in Int /\ z \div 400 \in Int
        /\ (z + 1) \div 4 \in Int /\ (z + 1) \div 100 \in Int /\ (z + 1) \div 400 \in Int
    BY <2>1
  <2> QED BY <2>1, <2>2, <2>3, <2>4, <2>5, <2>6
<1>3. DayOf(y, 1, 1) = NewYear(y)
  <2>1. (1 - 1) \div 12 = 0 /\ (1 - 1) % 12 = 0
    OBVIOUS
  <2> QED BY <1>1, <2>1 DEF DayOf, NewYear, DaysBeforeMonth
<1>4. DayOf(y, 13, 1) = NewYear(y + 1)
  <2>1. (13 - 1) \div 12 = 1 /\ (13 - 1) % 12 = 0
    OBVIOUS
  <2> QED BY <1>1, <2>1 DEF DayOf, NewYear, DaysBeforeMonth
<1> QED BY <1>1, <1>2, <1>3, <1>4 DEF NewYear

\* The days that the reports reach: the first of them is far before 1970.
Reached == {d \in Int : d >= -3000}

LEMMA YearExists ==
  ASSUME NEW d \in Reached
  PROVE  /\ YearOf(d) \in YearsAround(d) /\ YearOf(d) \in Int
         /\ NewYear(YearOf(d)) <= d /\ d < NewYear(YearOf(d) + 1)
<1> DEFINE q == d \div 366
           p == d \div 365
           low == 1969 + q
           high == 1971 + p
<1>0. d \in Int /\ d >= -3000
  BY DEF Reached
<1>1. /\ q \in Int /\ 366 * q <= d /\ d < 366 * q + 366
      /\ p \in Int /\ 365 * p <= d /\ d < 365 * p + 365
  BY <1>0
<1>2. q >= -10 /\ p >= -10 /\ q <= p + 2 /\ low \in Int /\ high \in Int /\ low <= high
  <2> HIDE DEF p, q
  <2> QED BY <1>0, <1>1
<1>3. NewYear(low) <= d
  <2> HIDE DEF p, q
  <2>1. low - 1 = 1968 + q
    BY <1>1
  <2>2. LeapDaysBefore(low) = (1968 + q) \div 4 - (1968 + q) \div 100 + (1968 + q) \div 400 - 477
    BY <2>1 DEF LeapDaysBefore
  <2>3. LeapDaysBefore(low) <= q + 365 /\ LeapDaysBefore(low) \in Int
    BY <1>1, <1>2, <2>2
  <2> HIDE DEF low
  <2>4. NewYear(low) = 365 * (low - 1970) + LeapDaysBefore(low)
    BY DEF NewYear
  <2> QED BY <1>0, <1>1, <1>2, <2>3, <2>4 DEF low
<1>4. d < NewYear(high + 1)
  <2> HIDE DEF p, q
  <2>1. (high + 1) - 1 = 1971 + p
    BY <1>1
  <2>2. LeapDaysBefore(high + 1) = (1971 + p) \div 4 - (1971 + p) \div 100 + (1971 + p) \div 400 - 477
    BY <2>1 DEF LeapDaysBefore
  <2>3. LeapDaysBefore(high + 1) >= -360 /\ LeapDaysBefore(high + 1) \in Int
    BY <1>1, <1>2, <2>2
  <2>4. NewYear(high + 1) = 365 * (2 + p) + LeapDaysBefore(high + 1)
    BY <1>1 DEF NewYear
  <2> QED BY <1>0, <1>1, <2>3, <2>4
<1> DEFINE S == {i \in 1 .. high - low + 1 : d < NewYear(low + i)}
<1>5. PICK i \in S : \A j \in S : i <= j
  <2> HIDE DEF low, high
  <2>1. high - low + 1 \in S
    <3>1. high - low + 1 \in 1 .. high - low + 1 /\ low + (high - low + 1) = high + 1
      BY <1>2
    <3> QED BY <1>4, <3>1
  <2>2. high - low + 1 \in Int
    BY <1>2
  <2>3. S \in SUBSET (1 .. high - low + 1) /\ S # {}
    BY <2>1
  <2> HIDE DEF S
  <2> QED BY <2>2, <2>3, SmallestNumber
<1> HIDE DEF low, high
<1>6. PICK y : y = low + i - 1
  OBVIOUS
<1>7. y \in Int /\ low <= y /\ y <= high /\ d < NewYear(y + 1)
  BY <1>2, <1>5, <1>6
<1>8. NewYear(y) <= d
  <2>1. CASE i = 1
    BY <1>2, <1>3, <1>6, <2>1
  <2>2. CASE i # 1
    <3>1. i - 1 \in 1 .. high - low + 1 /\ low + (i - 1) = y /\ i - 1 < i
      BY <1>2, <1>5, <1>6, <2>2
    <3>2. ~(d < NewYear(y))
      BY <1>5, <3>1
    <3> QED BY <1>0, <1>7, <3>2, NewYears
  <2> QED BY <2>1, <2>2
<1>9. YearsAround(d) = low .. high /\ y \in YearsAround(d)
  BY <1>2, <1>7 DEF YearsAround, low, high
<1>10. DayOf(y, 1, 1) <= d /\ d < DayOf(y + 1, 1, 1)
  BY <1>7, <1>8, NewYears
<1>11. YearOf(d) \in YearsAround(d) /\ DayOf(YearOf(d), 1, 1) <= d /\ d < DayOf(YearOf(d) + 1, 1, 1)
  BY <1>9, <1>10 DEF YearOf
<1>12. YearOf(d) \in Int
  BY <1>2, <1>9, <1>11
<1> QED BY <1>11, <1>12, NewYears

LEMMA MonthDays ==
  ASSUME NEW y \in Int, NEW m \in Int, NEW day \in Int
  PROVE  DayOf(y, m, day) \in Int
<1>1. (m - 1) \div 12 \in Int /\ ((m - 1) % 12) + 1 \in 1 .. 12
  OBVIOUS
<1>2. \A k \in 1 .. 12 : DaysBeforeMonth[k] \in Int
  BY DEF DaysBeforeMonth
<1>3. LeapDaysBefore(y + (m - 1) \div 12) \in Int
  BY <1>1 DEF LeapDaysBefore
<1> QED BY <1>1, <1>2, <1>3 DEF DayOf

LEMMA MonthExists ==
  ASSUME NEW d \in Reached
  PROVE  MonthOf(d) \in 1 .. 12
<1>1. PICK y \in YearsAround(d) : y \in Int /\ NewYear(y) <= d /\ d < NewYear(y + 1)
  BY YearExists
<1> DEFINE S == {m \in 1 .. 12 : d < DayOf(y, m + 1, 1)}
<1>2. PICK m \in S : \A k \in S : m <= k
  <2>1. 12 \in S
    BY <1>1, NewYears
  <2>2. S \in SUBSET (1 .. 12) /\ S # {} /\ 12 \in Int
    BY <2>1
  <2> HIDE DEF S
  <2> QED BY <2>2, SmallestNumber
<1>3. m \in 1 .. 12 /\ d < DayOf(y, m + 1, 1)
  OBVIOUS
<1>4. DayOf(y, m, 1) <= d
  <2>1. CASE m = 1
    BY <1>1, <2>1, NewYears
  <2>2. CASE m # 1
    <3>1. m - 1 \in 1 .. 12 /\ (m - 1) + 1 = m /\ m - 1 < m
      BY <1>3, <2>2
    <3>2. ~(d < DayOf(y, m, 1))
      BY <1>2, <3>1
    <3>3. d \in Int /\ DayOf(y, m, 1) \in Int
      BY <1>1, <1>3, MonthDays DEF Reached
    <3> QED BY <3>2, <3>3
  <2> QED BY <2>1, <2>2
<1> QED BY <1>1, <1>3, <1>4 DEF MonthOf

LEMMA MonthStart ==
  ASSUME NEW y \in Int, NEW m \in 1 .. 13
  PROVE  /\ NewYear(y) <= DayOf(y, m, 1) /\ DayOf(y, m, 1) <= NewYear(y + 1)
         /\ DayOf(y, m, 0) = DayOf(y, m, 1) - 1
         /\ DayOf(y, m, 1) \in Int
<1>0. /\ NewYear(y) \in Int /\ NewYear(y + 1) \in Int
      /\ NewYear(y) + 365 <= NewYear(y + 1) /\ NewYear(y + 1) <= NewYear(y) + 366
  BY NewYears
<1>1. DayOf(y, m, 1) \in Int
  BY MonthDays
<1>2. DayOf(y, m, 0) = DayOf(y, m, 1) - 1
  <2>1. (m - 1) \div 12 \in Int /\ ((m - 1) % 12) + 1 \in 1 .. 12
    OBVIOUS
  <2>2. \A k \in 1 .. 12 : DaysBeforeMonth[k] \in Int
    BY DEF DaysBeforeMonth
  <2>3. LeapDaysBefore(y + (m - 1) \div 12) \in Int
    BY <2>1 DEF LeapDaysBefore
  <2> QED BY <2>1, <2>2, <2>3 DEF DayOf
<1>3. CASE m = 13
  BY <1>0, <1>1, <1>2, <1>3, NewYears
<1>4. CASE m # 13
  <2>1. (m - 1) \div 12 = 0 /\ (m - 1) % 12 = m - 1
    BY <1>4
  <2>2. DaysBeforeMonth[m] \in 0 .. 334
    BY <1>4 DEF DaysBeforeMonth
  <2>3. DayOf(y, m, 1) = NewYear(y) + DaysBeforeMonth[m] + (IF IsLeap(y) /\ m > 2 THEN 1 ELSE 0)
    <3>1. LeapDaysBefore(y) \in Int
      BY DEF LeapDaysBefore
    <3> QED BY <2>1, <2>2, <3>1 DEF DayOf, NewYear
  <2> QED BY <1>0, <1>2, <2>2, <2>3
<1> QED BY <1>3, <1>4

\* The fiscal year of a day does not start after it.
LEMMA FirstDayEarly ==
  ASSUME NEW d \in Reached
  PROVE  FirstDay(d) \in Int /\ FirstDay(d) <= d
<1> DEFINE Y == YearOf(d)
           m == FiscalYearEndMonth + 1
<1>0. d \in Int /\ m \in 1 .. 13 /\ Y \in Int /\ NewYear(Y) <= d /\ NewYear(Y) \in Int
  BY ReportAssumption, YearExists, NewYears DEF Reached
<1>1. CASE d <= DayOf(Y, m, 0)
  <2>1. FirstDay(d) = DayOf(Y - 1, m, 1)
    BY <1>1 DEF FirstDay, FiscalYearStart, FiscalEndYear
  <2> HIDE DEF Y, m
  <2>2. Y - 1 \in Int /\ (Y - 1) + 1 = Y
    BY <1>0
  <2>3. DayOf(Y - 1, m, 1) \in Int /\ DayOf(Y - 1, m, 1) <= NewYear(Y)
    BY <1>0, <2>2, MonthStart
  <2> QED BY <1>0, <2>1, <2>3
<1>2. CASE ~(d <= DayOf(Y, m, 0))
  <2>1. FirstDay(d) = DayOf((Y + 1) - 1, m, 1)
    BY <1>2 DEF FirstDay, FiscalYearStart, FiscalEndYear
  <2> HIDE DEF Y, m
  <2>2. (Y + 1) - 1 = Y
    BY <1>0
  <2>3. DayOf(Y, m, 1) \in Int /\ DayOf(Y, m, 0) = DayOf(Y, m, 1) - 1
    BY <1>0, MonthStart
  <2> QED BY <1>0, <1>2, <2>1, <2>2, <2>3
<1> QED BY <1>1, <1>2

\* Months run over into the year before.
LEMMA YearBefore ==
  ASSUME NEW y \in Int, NEW m \in Int, m < 1, m >= -11
  PROVE  DayOf(y, m, 1) = DayOf(y - 1, m + 12, 1)
<1>1. y + (m - 1) \div 12 = y - 1 /\ (y - 1) + ((m + 12) - 1) \div 12 = y - 1
  <2>1. (m - 1) \div 12 = -1 /\ ((m + 12) - 1) \div 12 = 0
    OBVIOUS
  <2> QED BY <2>1
<1>2. (m - 1) % 12 = ((m + 12) - 1) % 12
  OBVIOUS
<1> QED BY <1>1, <1>2 DEF DayOf

\* A month or a year before a day that can be reported on, there is a day.
LEMMA Shifted ==
  ASSUME NEW d \in Nat, NEW n \in {-1, -12}
  PROVE  ShiftByMonths(d, n) \in Reached
<1> DEFINE Y == YearOf(d)
           M == MonthOf(d)
           first == DayOf(Y, M + n, 1)
           last == EndOfMonth(first)
           nth == DayOfMonth(d)
<1>0. /\ d \in Reached /\ d \in Int /\ Y \in Int /\ M \in 1 .. 12
      /\ NewYear(Y) \in Int /\ NewYear(Y + 1) \in Int /\ NewYear(Y - 1) \in Int
      /\ d < NewYear(Y + 1) /\ NewYear(Y) <= d
      /\ NewYear(Y + 1) <= NewYear(Y) + 366 /\ NewYear(Y) <= NewYear(Y - 1) + 366
  <2>1. d \in Reached
    BY DEF Reached
  <2>2. Y \in Int /\ NewYear(Y) <= d /\ d < NewYear(Y + 1) /\ M \in 1 .. 12
    BY <2>1, YearExists, MonthExists
  <2> HIDE DEF Y, M
  <2>3. Y - 1 \in Int /\ Y + 1 \in Int /\ (Y - 1) + 1 = Y
    BY <2>2
  <2>4. \A y \in Int : NewYear(y) \in Int /\ NewYear(y + 1) <= NewYear(y) + 366
    BY NewYears
  <2> QED BY <2>1, <2>2, <2>3, <2>4
<1>1. first \in Int /\ first >= NewYear(Y - 1)
  <2> HIDE DEF Y, M
  <2>1. CASE M + n >= 1
    <3>1. M + n \in 1 .. 13
      BY <1>0, <2>1
    <3>2. first \in Int /\ NewYear(Y) <= first
      BY <1>0, <3>1, MonthStart
    <3>3. NewYear(Y - 1) <= NewYear(Y)
      <4>1. Y - 1 \in Int /\ (Y - 1) + 1 = Y
        BY <1>0
      <4> QED BY <1>0, <4>1, NewYears
    <3> QED BY <1>0, <3>2, <3>3
  <2>2. CASE M + n < 1
    <3>1. M + n + 12 \in 1 .. 13 /\ M + n \in Int
      BY <1>0, <2>2
    <3>2. M + n >= -11
      BY <1>0
    <3>3. first = DayOf(Y - 1, M + n + 12, 1)
      BY <1>0, <2>2, <3>1, <3>2, YearBefore
    <3>4. Y - 1 \in Int
      BY <1>0
    <3> QED BY <3>1, <3>3, <3>4, MonthStart
  <2> QED BY <1>0, <2>1, <2>2
<1>2. first \in Reached /\ first >= -732
  <2> HIDE DEF Y, first
  <2> QED BY <1>0, <1>1 DEF Reached
<1>3. last \in Int /\ last >= -1200
  <2>1. YearOf(first) \in Int /\ NewYear(YearOf(first)) <= first /\ first < NewYear(YearOf(first) + 1)
        /\ MonthOf(first) \in 1 .. 12
    BY <1>2, YearExists, MonthExists
  <2>2. last = DayOf(YearOf(first), MonthOf(first) + 1, 0)
    BY DEF EndOfMonth
  <2> HIDE DEF first, last
  <2>3. MonthOf(first) + 1 \in 1 .. 13
    BY <2>1
  <2>4. /\ last = DayOf(YearOf(first), MonthOf(first) + 1, 1) - 1
        /\ NewYear(YearOf(first)) <= DayOf(YearOf(first), MonthOf(first) + 1, 1)
        /\ DayOf(YearOf(first), MonthOf(first) + 1, 1) \in Int
    BY <2>1, <2>2, <2>3, MonthStart
  <2>5. NewYear(YearOf(first)) \in Int /\ NewYear(YearOf(first) + 1) \in Int
        /\ NewYear(YearOf(first) + 1) <= NewYear(YearOf(first)) + 366
    <3>1. YearOf(first) + 1 \in Int
      BY <2>1
    <3> QED BY <2>1, <3>1, NewYears
  <2> QED BY <1>1, <1>2, <2>1, <2>4, <2>5
<1>4. nth \in Int /\ nth >= -366
  <2>1. nth = d - DayOf(Y, M, 1) + 1
    BY DEF DayOfMonth
  <2> HIDE DEF Y, M, nth
  <2>2. M \in 1 .. 13
    BY <1>0
  <2>3. DayOf(Y, M, 1) \in Int /\ DayOf(Y, M, 1) <= NewYear(Y + 1)
    BY <1>0, <2>2, MonthStart
  <2> QED BY <1>0, <2>1, <2>3
<1>5. ShiftByMonths(d, n) = IF first + nth - 1 < last THEN first + nth - 1 ELSE last
  BY DEF ShiftByMonths
<1> HIDE DEF first, last, nth
<1> QED BY <1>1, <1>2, <1>3, <1>4, <1>5 DEF Reached
-----------------------------------------------------------------------------
(* What an account gains over a number of days *)

DaysIn(from, to) == {x \in Date : from <= x /\ x <= to}

NetIn(a, from, to) == SumFunction([d \in DaysIn(from, to) |-> ReportedNet(a, d)])

LEMMA NetsAre ==
  ASSUME NEW S, NEW from, NEW to
  PROVE  NetsIn(S, from, to) = [a \in S |-> NetIn(a, from, to)]
BY DEF NetsIn, NetIn, DaysIn

LEMMA DaysFinite ==
  ASSUME NEW from \in Int, NEW to \in Int
  PROVE  IsFiniteSet(DaysIn(from, to))
<1>1. IsFiniteSet(from .. to)
  BY FS_Interval
<1>2. DaysIn(from, to) \subseteq from .. to
  <2> SUFFICES ASSUME NEW x \in Date, from <= x, x <= to PROVE x \in from .. to
    BY DEF DaysIn
  <2>1. x \in Nat
    BY ReportAssumption
  <2> QED BY <2>1
<1> QED BY <1>1, <1>2, FS_Subset

LEMMA NetInIs ==
  ASSUME TypeOK, NEW from \in Int, NEW to \in Int, NEW a
  PROVE  /\ NetIn(a, from, to)
              = SumFunctionOnSet([d \in DaysIn(from, to) |-> ReportedNet(a, d)], DaysIn(from, to))
         /\ \A d : ReportedNet(a, d) \in Int
         /\ NetIn(a, from, to) \in Int
<1> DEFINE S == DaysIn(from, to)
           f == [d \in S |-> ReportedNet(a, d)]
<1>1. NetIn(a, from, to) = SumFunctionOnSet(f, S)
  BY DOMAIN f = S DEF NetIn, SumFunction
<1>2. \A d : ReportedNet(a, d) \in Int
  BY NetOverInt DEF ReportedNet, ReportedBatches
<1>3. \A d \in S : f[d] \in Int
  BY <1>2
<1>4. IsFiniteSet(S)
  BY DaysFinite
<1>5. SumFunctionOnSet(f, S) \in Int
  <2> HIDE DEF f, S
  <2> QED BY <1>3, <1>4, SumInt
<1> QED BY <1>1, <1>2, <1>5

\* What is gained up to a day is what was gained before a period that ends on the day,
\* and in the period: no day is counted twice and none is left out.
LEMMA PeriodsAdd ==
  ASSUME TypeOK, NEW m \in Int, NEW to \in Int, m <= to + 1, NEW a
  PROVE  NetIn(a, 0, to) = NetIn(a, 0, m - 1) + NetIn(a, m, to)
<1> DEFINE A == DaysIn(0, m - 1)
           B == DaysIn(m, to)
           C == DaysIn(0, to)
           f == [d \in Date |-> ReportedNet(a, d)]
           g == [d \in A |-> ReportedNet(a, d)]
           h == [d \in B |-> ReportedNet(a, d)]
           k == [d \in C |-> ReportedNet(a, d)]
<1>0. \A d \in Date : f[d] \in Int
  BY NetInIs
<1>1. A \cup B = C /\ A \cap B = {} /\ A \subseteq Date /\ B \subseteq Date
  <2>1. ASSUME NEW d \in Date
        PROVE  /\ d \in A <=> d <= m - 1
               /\ d \in B <=> m <= d /\ d <= to
               /\ d \in C <=> d <= to
               /\ d <= m - 1 => d <= to
               /\ d <= m - 1 <=> ~(m <= d)
    <3>1. d \in Nat
      BY ReportAssumption
    <3> QED BY <3>1 DEF DaysIn
  <2>2. A \subseteq Date /\ B \subseteq Date /\ C \subseteq Date
    BY DEF DaysIn
  <2> HIDE DEF A, B, C
  <2> QED BY <2>1, <2>2
<1>2. IsFiniteSet(A) /\ IsFiniteSet(B) /\ IsFiniteSet(C)
  BY DaysFinite
<1>3. /\ NetIn(a, 0, to) = SumFunctionOnSet(k, C)
      /\ NetIn(a, 0, m - 1) = SumFunctionOnSet(g, A)
      /\ NetIn(a, m, to) = SumFunctionOnSet(h, B)
  BY NetInIs
<1>4. /\ \A d \in A : g[d] = f[d]
      /\ \A d \in B : h[d] = f[d]
      /\ \A d \in C : k[d] = f[d]
  BY <1>1
<1>5. \A d \in A \cup B : f[d] \in Int
  BY <1>0, <1>1
<1> HIDE DEF A, B, C, f, g, h, k
<1>6. /\ SumFunctionOnSet(k, C) = SumFunctionOnSet(f, C)
      /\ SumFunctionOnSet(g, A) = SumFunctionOnSet(f, A)
      /\ SumFunctionOnSet(h, B) = SumFunctionOnSet(f, B)
  BY <1>2, <1>4, SumSame
<1>7. SumFunctionOnSet(f, A \cup B) = SumFunctionOnSet(f, A) + SumFunctionOnSet(f, B)
  BY <1>1, <1>2, <1>5, SumSplit
<1> QED BY <1>1, <1>3, <1>6, <1>7

\* Over any days, the accounts together gain nothing.
LEMMA GainsCancel ==
  ASSUME SoundBooks, NEW from \in Int, NEW to \in Int
  PROVE  SumFunctionOnSet([a \in OrgAccount |-> NetIn(a, from, to)], OrgAccount) = 0
<1> DEFINE S == DaysIn(from, to)
           m == [a \in OrgAccount |-> [d \in S |-> ReportedNet(a, d)]]
           column(d) == [a \in OrgAccount |-> m[a][d]]
           total == [d \in S |-> SumFunctionOnSet(column(d), OrgAccount)]
           nets == [a \in OrgAccount |-> SumFunctionOnSet(m[a], S)]
<1>1. TypeOK /\ IsFiniteSet(S)
  BY DaysFinite DEF SoundBooks, IndInv
<1>2. \A a \in OrgAccount, d \in S : m[a][d] \in Int
  BY <1>1, NetInIs
<1>3. \A d \in S : total[d] = 0
  <2> TAKE d \in S
  <2>1. ReportedBatches \in SUBSET {b \in DOMAIN rows : Live(b)}
    BY DEF ReportedBatches, Live
  <2>2. SumFunctionOnSet([a \in OrgAccount |-> NetOver(ReportedBatches, a, d)], OrgAccount) = 0
    BY <2>1, NetsOverCancel
  <2>3. column(d) = [a \in OrgAccount |-> NetOver(ReportedBatches, a, d)]
    BY DEF ReportedNet
  <2> HIDE DEF m, column
  <2> QED BY <2>2, <2>3
<1>4. [a \in OrgAccount |-> NetIn(a, from, to)] = nets
  <2>1. \A a \in OrgAccount : NetIn(a, from, to) = nets[a]
    BY <1>1, NetInIs
  <2> QED BY <2>1
<1>5. SumFunctionOnSet(nets, OrgAccount) = SumFunctionOnSet(total, S)
  <2> HIDE DEF m, S
  <2> QED BY <1>1, <1>2, BookAssumption, SumSwap
<1>6. SumFunctionOnSet(total, S) = 0
  <2> HIDE DEF total, S
  <2> QED BY <1>1, <1>3, SumZero
<1> HIDE DEF nets, total, m, S
<1> QED BY <1>4, <1>5, <1>6

\* An account that is not open has gained nothing.
LEMMA UnopenedGainsNothing ==
  ASSUME TypeOK, Opened, NEW a, a \notin chart, NEW from \in Int, NEW to \in Int
  PROVE  NetIn(a, from, to) = 0
<1> DEFINE S == DaysIn(from, to)
           f == [d \in S |-> ReportedNet(a, d)]
<1>1. ASSUME NEW d, NEW b \in DOMAIN rows PROVE NetOf(rows[b].content.lines, a, d) = 0
  <2>1. PICK ls : ls = rows[b].content.lines
    OBVIOUS
  <2>2. {j \in DOMAIN ls : ls[j].account = a /\ ls[j].date = d} = {}
    BY <2>1 DEF Opened
  <2> DEFINE g == [i \in {} |-> ls[i].debit - ls[i].credit]
  <2>3. NetOf(ls, a, d) = SumFunctionOnSet(g, {})
    BY <2>2, DOMAIN g = {} DEF NetOf, SumFunction
  <2> QED BY <2>1, <2>3, SumEmpty
<1>2. ASSUME NEW d PROVE ReportedNet(a, d) = 0
  <2> DEFINE B == ReportedBatches
             g == [b \in B |-> NetOf(rows[b].content.lines, a, d)]
  <2>1. IsFiniteSet(B) /\ B \subseteq DOMAIN rows
    BY TableFinite DEF ReportedBatches
  <2>2. \A b \in B : g[b] = 0
    BY <1>1, <2>1
  <2>3. ReportedNet(a, d) = SumFunctionOnSet(g, B)
    BY DOMAIN g = B DEF ReportedNet, NetOver, SumFunction
  <2> HIDE DEF g, B
  <2> QED BY <2>1, <2>2, <2>3, SumZero
<1>3. NetIn(a, from, to) = SumFunctionOnSet(f, S)
  BY NetInIs
<1>4. IsFiniteSet(S) /\ \A d \in S : f[d] = 0
  BY <1>2, DaysFinite
<1> HIDE DEF f, S
<1> QED BY <1>3, <1>4, SumZero
-----------------------------------------------------------------------------
(* What a report has read so far *)

\* All accounts together: what one gained, another lost, and what is not open took no part.
Whole(nets) ==
  /\ \A a \in OrgAccount : nets[a] \in Int
  /\ SumFunctionOnSet(nets, OrgAccount) = 0
  /\ \A a \in OrgAccount \ chart : nets[a] = 0

LEMMA NetsWhole ==
  ASSUME SoundBooks, Opened, NEW from \in Int, NEW to \in Int
  PROVE  Whole(NetsIn(OrgAccount, from, to))
<1>1. TypeOK
  BY DEF SoundBooks, IndInv
<1> DEFINE nets == [a \in OrgAccount |-> NetIn(a, from, to)]
<1>2. NetsIn(OrgAccount, from, to) = nets
  BY NetsAre
<1>3. SumFunctionOnSet(nets, OrgAccount) = 0
  BY GainsCancel
<1>4. /\ \A a \in OrgAccount : nets[a] \in Int
      /\ \A a \in OrgAccount \ chart : nets[a] = 0
  BY <1>1, NetInIs, UnopenedGainsNothing
<1> HIDE DEF nets
<1> QED BY <1>2, <1>3, <1>4 DEF Whole

IsReport(r) ==
  r = [kind |-> r.kind, pc |-> r.pc, from |-> r.from, to |-> r.to, accounts |-> r.accounts,
       pnl |-> r.pnl, before |-> r.before, within |-> r.within, ytd |-> r.ytd,
       retained |-> r.retained, prior |-> r.prior, undisturbed |-> r.undisturbed,
       mode |-> r.mode, beside |-> r.beside]

\* The steps that each kind of report is made in.
PcOf ==
  [kind \in {"none", "balance_sheet", "trial_balance", "income_statement", "general_ledger"} |->
     CASE kind = "none"             -> {"none"}
       [] kind = "balance_sheet"    -> {"before", "retained", "prior", "accounts", "within", "ytd", "done"}
       [] kind = "trial_balance"    -> {"before", "within", "done"}
       [] kind = "income_statement" -> {"accounts", "within", "ytd", "done"}
       [] kind = "general_ledger"   -> {"lines", "done"}]

PeriodFacts(r) ==
  /\ r.kind \in DOMAIN PcOf /\ r.pc \in PcOf[r.kind]
  /\ r.mode \in {"none", "previous_period", "previous_year"}
  /\ r.from \in Int /\ r.to \in Reached
  /\ r.mode = "none" => r.to \in Nat /\ (r.kind \notin {"balance_sheet", "general_ledger"} => r.from \in Nat)
  /\ r.kind = "trial_balance" /\ r.mode # "previous_year" => r.from <= r.to

\* What holds of the nets that were read, whatever happened to the journal since.
WholeFacts(r) ==
  /\ r.kind = "trial_balance" /\ r.pc # "before" => Whole(r.before)
  /\ r.kind = "trial_balance" /\ r.pc = "done" => Whole(r.within)
  /\ r.kind = "general_ledger" /\ r.pc = "done" /\ r.accounts = OrgAccount =>
       /\ SumFunctionOnSet(r.within, OrgAccount) = 0
       /\ \A a \in OrgAccount : r.within[a] \in Int

\* Nothing was written since the report was started: what it has read is what is there.
FreshTrial(r) ==
  /\ r.accounts = chart
  /\ r.pc # "before" => r.before = NetsIn(OrgAccount, 0, r.from - 1)
  /\ r.pc = "done" => r.within = NetsIn(OrgAccount, r.from, r.to)
  /\ r.mode = "previous_period" =>
       /\ r.beside[1].accounts = chart
       /\ r.beside[1].before = NetsIn(OrgAccount, 0, r.to)

FreshSheet(r) ==
  /\ r.accounts = chart
  /\ r.pc # "before" => r.before = NetsIn(OrgAccount, 0, r.to)
  /\ r.pc \notin {"before", "retained"} => r.retained = RetainedLedger(r.to)
  /\ r.pc \notin {"before", "retained", "prior"} => r.prior = PriorYearsNetIncome(r.to)
  /\ r.pc \in {"within", "ytd", "done"} => r.pnl = OfType({"income", "expense"}) \cap chart
  /\ r.pc = "done" => r.ytd = NetsIn(OrgAccount, FirstDay(r.to), r.to)

ReportFacts(r) ==
  /\ IsReport(r) /\ PeriodFacts(r) /\ WholeFacts(r)
  /\ r.kind = "trial_balance" /\ r.undisturbed => FreshTrial(r)
  /\ r.kind = "balance_sheet" /\ r.undisturbed => FreshSheet(r)

LedgerFacts == SoundBooks /\ Opened /\ chart \subseteq OrgAccount

\* The inductive invariant of Reports.
ReportInv == LedgerFacts /\ \A r \in {report} : ReportFacts(r)

LEMMA NoReportFacts == ReportFacts(NoReport)
<1>1. IsReport(NoReport)
  BY DEF NoReport, IsReport
<1>2. NoReport.kind = "none" /\ NoReport.pc = "none" /\ NoReport.from = 0 /\ NoReport.to = 0 /\ NoReport.mode = "none"
  BY DEF NoReport
<1>3. PeriodFacts(NoReport)
  BY <1>2 DEF PeriodFacts, PcOf, Reached
<1> QED BY <1>1, <1>2, <1>3 DEF ReportFacts, WholeFacts

Field == {"kind", "pc", "from", "to", "accounts", "pnl", "before", "within", "ytd",
          "retained", "prior", "undisturbed", "mode", "beside"}

Written(r, field, value) == [r EXCEPT ![field] = value]

\* One more field of a report.
LEMMA FieldSet ==
  ASSUME NEW r, IsReport(r), NEW field \in Field, NEW value
  PROVE  /\ IsReport(Written(r, field, value)) /\ Written(r, field, value)[field] = value
         /\ \A g \in Field \ {field} : Written(r, field, value)[g] = r[g]
<1> DEFINE s == Written(r, field, value)
<1>1. DOMAIN r = Field /\ r = [g \in DOMAIN r |-> r[g]]
  BY DEF IsReport, Field
<1>2. s = [g \in Field |-> IF g = field THEN value ELSE r[g]]
  BY <1>1 DEF Written
<1> HIDE DEF s
<1>3. s[field] = value /\ \A g \in Field \ {field} : s[g] = r[g]
  BY <1>2
<1>4. IsReport(s)
  BY <1>2 DEF Field, IsReport
<1>5. IsReport(s) /\ s[field] = value /\ \A g \in Field \ {field} : s[g] = r[g]
  BY <1>3, <1>4
<1> QED BY <1>5 DEF s

LEMMA BegunIs ==
  ASSUME NEW kind, NEW from, NEW to
  PROVE  LET r == Begun(kind, from, to)
         IN  /\ IsReport(r) /\ r.kind = kind /\ r.from = from /\ r.to = to /\ r.accounts = chart
             /\ r.pc = FirstQuery(kind) /\ r.mode = "none"
<1> DEFINE r == Begun(kind, from, to)
<1>1. NoReport.mode = "none" /\ IsReport(NoReport)
  BY DEF NoReport, IsReport
<1>2. PICK r1 : r1 = Written(NoReport, "kind", kind)
  OBVIOUS
<1>3. IsReport(r1) /\ r1.kind = kind /\ r1.mode = "none"
  BY <1>1, <1>2, FieldSet DEF Field
<1>4. PICK r2 : r2 = Written(r1, "from", from)
  OBVIOUS
<1>5. IsReport(r2) /\ r2.kind = kind /\ r2.mode = "none" /\ r2.from = from
  BY <1>3, <1>4, FieldSet DEF Field
<1>6. PICK r3 : r3 = Written(r2, "to", to)
  OBVIOUS
<1>7. IsReport(r3) /\ r3.kind = kind /\ r3.mode = "none" /\ r3.from = from /\ r3.to = to
  BY <1>5, <1>6, FieldSet DEF Field
<1>8. PICK r4 : r4 = Written(r3, "accounts", chart)
  OBVIOUS
<1>9. /\ IsReport(r4) /\ r4.kind = kind /\ r4.mode = "none" /\ r4.from = from /\ r4.to = to
      /\ r4.accounts = chart
  BY <1>7, <1>8, FieldSet DEF Field
<1>10. r = Written(r4, "pc", FirstQuery(kind))
  BY <1>2, <1>4, <1>6, <1>8 DEF Begun, Written
<1> HIDE DEF r
<1>11. /\ IsReport(r) /\ r.kind = kind /\ r.from = from /\ r.to = to /\ r.accounts = chart
       /\ r.pc = FirstQuery(kind) /\ r.mode = "none"
  BY <1>9, <1>10, FieldSet DEF Field
<1> QED BY <1>11 DEF r

\* A report that has just been begun has read its accounts only.
LEMMA BegunFacts ==
  ASSUME NEW kind \in {"balance_sheet", "trial_balance", "income_statement"},
         NEW from \in Int, NEW to \in Nat, from <= to, kind # "balance_sheet" => from \in Nat
  PROVE  ReportFacts(Begun(kind, from, to))
<1> DEFINE r == Begun(kind, from, to)
<1>1. /\ IsReport(r) /\ r.kind = kind /\ r.from = from /\ r.to = to /\ r.accounts = chart
      /\ r.pc = FirstQuery(kind) /\ r.mode = "none"
  BY BegunIs
<1>2. FirstQuery(kind) = IF kind = "income_statement" THEN "accounts" ELSE "before"
  BY DEF FirstQuery
<1>3. to \in Reached
  BY DEF Reached
<1> HIDE DEF r
<1>4. PeriodFacts(r)
  BY <1>1, <1>2, <1>3 DEF PeriodFacts, PcOf
<1>5. ReportFacts(r)
  BY <1>1, <1>2, <1>4 DEF ReportFacts, WholeFacts, FreshTrial, FreshSheet
<1> QED BY <1>5 DEF r

LEMMA LedgerBegunFacts ==
  ASSUME NEW from \in Int, NEW to \in Nat, from <= to, NEW accounts
  PROVE  ReportFacts([Begun("general_ledger", from, to) EXCEPT !.accounts = accounts])
<1> DEFINE b == Begun("general_ledger", from, to)
           r == [b EXCEPT !.accounts = accounts]
<1>1. /\ IsReport(b) /\ b.kind = "general_ledger" /\ b.from = from /\ b.to = to
      /\ b.pc = FirstQuery("general_ledger") /\ b.mode = "none"
  BY BegunIs
<1> HIDE DEF b
<1>2. r = Written(b, "accounts", accounts)
  BY DEF Written
<1> HIDE DEF r
<1>3. /\ IsReport(r) /\ r.kind = "general_ledger" /\ r.from = from /\ r.to = to
      /\ r.pc = FirstQuery("general_ledger") /\ r.mode = "none"
  BY <1>1, <1>2, FieldSet DEF Field
<1>4. FirstQuery("general_ledger") = "lines" /\ to \in Reached
  BY DEF FirstQuery, Reached
<1>5. PeriodFacts(r)
  BY <1>3, <1>4 DEF PeriodFacts, PcOf
<1>6. ReportFacts(r)
  BY <1>3, <1>4, <1>5 DEF ReportFacts, WholeFacts, FreshTrial, FreshSheet
<1> QED BY <1>6 DEF r, b

\* One query more has been answered.
With(r, field, value, pc) == [r EXCEPT ![field] = value, !.pc = pc]

LEMMA ReadIs ==
  ASSUME NEW r, IsReport(r), NEW field \in Field \ {"pc"}, NEW value, NEW pc
  PROVE  /\ IsReport(With(r, field, value, pc))
         /\ With(r, field, value, pc)[field] = value /\ With(r, field, value, pc).pc = pc
         /\ \A g \in Field \ {field, "pc"} : With(r, field, value, pc)[g] = r[g]
<1>1. PICK q : q = Written(r, field, value)
  OBVIOUS
<1>2. With(r, field, value, pc) = Written(q, "pc", pc)
  BY <1>1 DEF Written, With
<1>3. IsReport(q) /\ q[field] = value /\ \A g \in Field \ {field} : q[g] = r[g]
  BY <1>1, FieldSet
<1>4. /\ IsReport(Written(q, "pc", pc)) /\ Written(q, "pc", pc).pc = pc
      /\ \A g \in Field \ {"pc"} : Written(q, "pc", pc)[g] = q[g]
  BY <1>3, FieldSet DEF Field
<1> QED BY <1>2, <1>3, <1>4

\* The fields that stay what they were when another one is read.
SameReport(s, r) == /\ s.kind = r.kind /\ s.from = r.from /\ s.to = r.to /\ s.accounts = r.accounts
                    /\ s.undisturbed = r.undisturbed /\ s.mode = r.mode /\ s.beside = r.beside

LEMMA BeforeFacts ==
  ASSUME LedgerFacts, NEW r, ReportFacts(r), r.pc = "before", NEW value, NEW pc,
         value = NetsIn(OrgAccount, 0, IF r.kind = "balance_sheet" THEN r.to ELSE r.from - 1),
         pc = IF r.kind = "balance_sheet" THEN "retained" ELSE "within"
  PROVE  ReportFacts(With(r, "before", value, pc))
<1>1. PICK s : s = With(r, "before", value, pc)
  OBVIOUS
<1>2. r.kind \in {"balance_sheet", "trial_balance"}
  BY DEF ReportFacts, PeriodFacts, PcOf
<1>3. IsReport(s) /\ s.before = value /\ s.pc = pc /\ SameReport(s, r)
  BY <1>1, ReadIs DEF ReportFacts, Field, SameReport
<1>4. PeriodFacts(s)
  BY <1>2, <1>3 DEF ReportFacts, PeriodFacts, PcOf, SameReport
<1>5. CASE r.kind = "trial_balance"
  <2>1. r.from - 1 \in Int
    BY DEF ReportFacts, PeriodFacts
  <2>2. Whole(s.before)
    BY <1>3, <1>5, <2>1, NetsWhole DEF LedgerFacts
  <2>3. r.undisturbed => FreshTrial(s)
    BY <1>3, <1>5 DEF ReportFacts, FreshTrial, SameReport
  <2> QED BY <1>1, <1>3, <1>4, <1>5, <2>2, <2>3 DEF ReportFacts, WholeFacts, SameReport
<1>6. CASE r.kind = "balance_sheet"
  <2>1. r.undisturbed => FreshSheet(s)
    BY <1>3, <1>6 DEF ReportFacts, FreshSheet, SameReport
  <2> QED BY <1>1, <1>3, <1>4, <1>6, <2>1 DEF ReportFacts, WholeFacts, SameReport
<1> QED BY <1>2, <1>5, <1>6

LEMMA RetainedFacts ==
  ASSUME NEW r, ReportFacts(r), r.pc = "retained"
  PROVE  ReportFacts(With(r, "retained", RetainedLedger(r.to), "prior"))
<1>1. PICK s : s = With(r, "retained", RetainedLedger(r.to), "prior")
  OBVIOUS
<1>2. r.kind = "balance_sheet"
  BY DEF ReportFacts, PeriodFacts, PcOf
<1>3. /\ IsReport(s) /\ s.retained = RetainedLedger(r.to) /\ s.pc = "prior" /\ SameReport(s, r)
      /\ s.before = r.before
  BY <1>1, ReadIs DEF ReportFacts, Field, SameReport
<1>4. PeriodFacts(s)
  BY <1>2, <1>3 DEF ReportFacts, PeriodFacts, PcOf, SameReport
<1>5. r.undisturbed => FreshSheet(s)
  BY <1>2, <1>3 DEF ReportFacts, FreshSheet, SameReport
<1> QED BY <1>1, <1>2, <1>3, <1>4, <1>5 DEF ReportFacts, WholeFacts, SameReport

LEMMA PriorFacts ==
  ASSUME NEW r, ReportFacts(r), r.pc = "prior"
  PROVE  ReportFacts(With(r, "prior", PriorYearsNetIncome(r.to), "accounts"))
<1>1. PICK s : s = With(r, "prior", PriorYearsNetIncome(r.to), "accounts")
  OBVIOUS
<1>2. r.kind = "balance_sheet"
  BY DEF ReportFacts, PeriodFacts, PcOf
<1>3. /\ IsReport(s) /\ s.prior = PriorYearsNetIncome(r.to) /\ s.pc = "accounts" /\ SameReport(s, r)
      /\ s.before = r.before /\ s.retained = r.retained
  BY <1>1, ReadIs DEF ReportFacts, Field, SameReport
<1>4. PeriodFacts(s)
  BY <1>2, <1>3 DEF ReportFacts, PeriodFacts, PcOf, SameReport
<1>5. r.undisturbed => FreshSheet(s)
  BY <1>2, <1>3 DEF ReportFacts, FreshSheet, SameReport
<1> QED BY <1>1, <1>2, <1>3, <1>4, <1>5 DEF ReportFacts, WholeFacts, SameReport

LEMMA PnlFacts ==
  ASSUME NEW r, ReportFacts(r), r.pc = "accounts"
  PROVE  ReportFacts(With(r, "pnl", OfType({"income", "expense"}) \cap chart, "within"))
<1>1. PICK s : s = With(r, "pnl", OfType({"income", "expense"}) \cap chart, "within")
  OBVIOUS
<1>2. r.kind \in {"balance_sheet", "income_statement"}
  BY DEF ReportFacts, PeriodFacts, PcOf
<1>3. /\ IsReport(s) /\ s.pnl = OfType({"income", "expense"}) \cap chart /\ s.pc = "within"
      /\ SameReport(s, r) /\ s.before = r.before /\ s.retained = r.retained /\ s.prior = r.prior
  BY <1>1, ReadIs DEF ReportFacts, Field, SameReport
<1>4. PeriodFacts(s)
  BY <1>2, <1>3 DEF ReportFacts, PeriodFacts, PcOf, SameReport
<1>5. r.kind = "balance_sheet" /\ r.undisturbed => FreshSheet(s)
  BY <1>2, <1>3 DEF ReportFacts, FreshSheet, SameReport
<1> QED BY <1>1, <1>2, <1>3, <1>4, <1>5 DEF ReportFacts, WholeFacts, SameReport

LEMMA WithinFacts ==
  ASSUME LedgerFacts, NEW r, ReportFacts(r), r.pc = "within", NEW value, NEW pc,
         value = NetsIn(OrgAccount, r.from, r.to),
         pc = IF r.kind = "trial_balance" THEN "done" ELSE "ytd"
  PROVE  ReportFacts(With(r, "within", value, pc))
<1>1. PICK s : s = With(r, "within", value, pc)
  OBVIOUS
<1>2. r.kind \in {"balance_sheet", "income_statement", "trial_balance"}
  BY DEF ReportFacts, PeriodFacts, PcOf
<1>3. /\ IsReport(s) /\ s.within = value /\ s.pc = pc /\ SameReport(s, r) /\ s.before = r.before
      /\ s.retained = r.retained /\ s.prior = r.prior /\ s.pnl = r.pnl
  BY <1>1, ReadIs DEF ReportFacts, Field, SameReport
<1>4. PeriodFacts(s)
  BY <1>2, <1>3 DEF ReportFacts, PeriodFacts, PcOf, SameReport
<1>5. CASE r.kind = "trial_balance"
  <2>1. r.from \in Int /\ r.to \in Int
    BY DEF ReportFacts, PeriodFacts, Reached
  <2>2. Whole(s.within)
    BY <1>3, <1>5, <2>1, NetsWhole DEF LedgerFacts
  <2>3. r.undisturbed => FreshTrial(s)
    BY <1>3, <1>5 DEF ReportFacts, FreshTrial, SameReport
  <2> QED BY <1>1, <1>3, <1>4, <1>5, <2>2, <2>3 DEF ReportFacts, WholeFacts, SameReport
<1>6. CASE r.kind # "trial_balance"
  <2>1. r.kind = "balance_sheet" /\ r.undisturbed => FreshSheet(s)
    BY <1>3, <1>6 DEF ReportFacts, FreshSheet, SameReport
  <2> QED BY <1>1, <1>2, <1>3, <1>4, <1>6, <2>1 DEF ReportFacts, WholeFacts, SameReport
<1> QED BY <1>5, <1>6

LEMMA YtdFacts ==
  ASSUME NEW r, ReportFacts(r), r.pc = "ytd", NEW value,
         value = NetsIn(OrgAccount, FirstDay(r.to), r.to)
  PROVE  ReportFacts(With(r, "ytd", value, "done"))
<1>1. PICK s : s = With(r, "ytd", value, "done")
  OBVIOUS
<1>2. r.kind \in {"balance_sheet", "income_statement"}
  BY DEF ReportFacts, PeriodFacts, PcOf
<1>3. /\ IsReport(s) /\ s.ytd = value /\ s.pc = "done" /\ SameReport(s, r) /\ s.before = r.before
      /\ s.retained = r.retained /\ s.prior = r.prior /\ s.pnl = r.pnl
  BY <1>1, ReadIs DEF ReportFacts, Field, SameReport
<1>4. PeriodFacts(s)
  BY <1>2, <1>3 DEF ReportFacts, PeriodFacts, PcOf, SameReport
<1>5. r.kind = "balance_sheet" /\ r.undisturbed => FreshSheet(s)
  BY <1>2, <1>3 DEF ReportFacts, FreshSheet, SameReport
<1> QED BY <1>1, <1>2, <1>3, <1>4, <1>5 DEF ReportFacts, WholeFacts, SameReport

LEMMA LinesFacts ==
  ASSUME LedgerFacts, NEW r, ReportFacts(r), r.pc = "lines", NEW value,
         value = NetsIn(r.accounts, r.from, r.to)
  PROVE  ReportFacts(With(r, "within", value, "done"))
<1>1. PICK s : s = With(r, "within", value, "done")
  OBVIOUS
<1>2. r.kind = "general_ledger"
  BY DEF ReportFacts, PeriodFacts, PcOf
<1>3. IsReport(s) /\ s.within = value /\ s.pc = "done" /\ SameReport(s, r)
  BY <1>1, ReadIs DEF ReportFacts, Field, SameReport
<1>4. PeriodFacts(s)
  BY <1>2, <1>3 DEF ReportFacts, PeriodFacts, PcOf, SameReport
<1>5. r.from \in Int /\ r.to \in Int
  BY DEF ReportFacts, PeriodFacts, Reached
<1>6. r.accounts = OrgAccount => Whole(s.within)
  BY <1>3, <1>5, NetsWhole DEF LedgerFacts
<1>7. WholeFacts(s)
  BY <1>2, <1>3, <1>6 DEF WholeFacts, Whole, SameReport
<1> QED BY <1>1, <1>2, <1>3, <1>4, <1>7 DEF ReportFacts, SameReport

\* The report that is set beside one that is done.
Beside(r, mode, from, to) ==
  [Begun(r.kind, from, to) EXCEPT
     !.mode = mode, !.undisturbed = r.undisturbed,
     !.beside = <<[accounts |-> r.accounts, before |-> r.before]>>]

LEMMA BesideIs ==
  ASSUME NEW r, NEW mode, NEW from, NEW to
  PROVE  LET s == Beside(r, mode, from, to)
         IN  /\ IsReport(s) /\ s.kind = r.kind /\ s.from = from /\ s.to = to
             /\ s.accounts = chart /\ s.pc = FirstQuery(r.kind) /\ s.mode = mode
             /\ s.undisturbed = r.undisturbed
             /\ s.beside = <<[accounts |-> r.accounts, before |-> r.before]>>
<1> DEFINE s == Beside(r, mode, from, to)
           b == <<[accounts |-> r.accounts, before |-> r.before]>>
<1>1. PICK q : q = Begun(r.kind, from, to)
  OBVIOUS
<1>2. /\ IsReport(q) /\ q.kind = r.kind /\ q.from = from /\ q.to = to /\ q.accounts = chart
      /\ q.pc = FirstQuery(r.kind)
  BY <1>1, BegunIs
<1>3. PICK q1 : q1 = Written(q, "mode", mode)
  OBVIOUS
<1>4. /\ IsReport(q1) /\ q1.kind = r.kind /\ q1.from = from /\ q1.to = to /\ q1.accounts = chart
      /\ q1.pc = FirstQuery(r.kind) /\ q1.mode = mode
  BY <1>2, <1>3, FieldSet DEF Field
<1>5. PICK q2 : q2 = Written(q1, "undisturbed", r.undisturbed)
  OBVIOUS
<1>6. /\ IsReport(q2) /\ q2.kind = r.kind /\ q2.from = from /\ q2.to = to /\ q2.accounts = chart
      /\ q2.pc = FirstQuery(r.kind) /\ q2.mode = mode /\ q2.undisturbed = r.undisturbed
  BY <1>4, <1>5, FieldSet DEF Field
<1>7. s = Written(q2, "beside", b)
  BY <1>1, <1>3, <1>5 DEF Beside, Written
<1> HIDE DEF s, b
<1>8. /\ IsReport(s) /\ s.kind = r.kind /\ s.from = from /\ s.to = to /\ s.accounts = chart
      /\ s.pc = FirstQuery(r.kind) /\ s.mode = mode /\ s.undisturbed = r.undisturbed
      /\ s.beside = b
  BY <1>6, <1>7, FieldSet DEF Field
<1> QED BY <1>8 DEF s, b

LEMMA BesideFacts ==
  ASSUME NEW r, ReportFacts(r), r.pc = "done", r.mode = "none", r.kind # "general_ledger",
         NEW mode \in CompareMode, NEW period,
         period = IF r.kind = "balance_sheet"
                    THEN [from |-> FirstDay(GetCompareAsOf(mode, r.to)),
                          to   |-> GetCompareAsOf(mode, r.to)]
                    ELSE GetCompareRange(mode, [from |-> r.from, to |-> r.to])
  PROVE  ReportFacts(Beside(r, mode, period.from, period.to))
<1>1. PICK s : s = Beside(r, mode, period.from, period.to)
  OBVIOUS
<1>2. /\ r.kind \in {"balance_sheet", "income_statement", "trial_balance"} /\ r.to \in Nat
      /\ r.kind # "balance_sheet" => r.from \in Nat
      /\ r.kind = "trial_balance" => r.from <= r.to
  BY DEF ReportFacts, PeriodFacts, PcOf
<1>3. mode \in {"previous_period", "previous_year"}
  BY ReportAssumption
<1>4. /\ IsReport(s) /\ s.kind = r.kind /\ s.from = period.from /\ s.to = period.to
      /\ s.accounts = chart /\ s.pc = FirstQuery(r.kind) /\ s.mode = mode
      /\ s.undisturbed = r.undisturbed
      /\ s.beside = <<[accounts |-> r.accounts, before |-> r.before]>>
  BY <1>1, BesideIs
<1>5. s.pc = IF r.kind = "income_statement" THEN "accounts" ELSE "before"
  BY <1>2, <1>4 DEF FirstQuery
<1>6. CASE r.kind = "balance_sheet"
  <2>1. GetCompareAsOf(mode, r.to) \in Reached
    BY <1>2, <1>3, Shifted DEF GetCompareAsOf
  <2>2. s.from \in Int /\ s.to \in Reached
    BY <1>4, <1>6, <2>1, FirstDayEarly
  <2>3. PeriodFacts(s)
    BY <1>3, <1>4, <1>5, <1>6, <2>2 DEF PeriodFacts, PcOf
  <2>4. FreshSheet(s)
    BY <1>4, <1>5, <1>6 DEF FreshSheet
  <2> QED BY <1>1, <1>4, <1>5, <1>6, <2>3, <2>4 DEF ReportFacts, WholeFacts
<1>7. CASE r.kind # "balance_sheet" /\ mode = "previous_year"
  <2>1. ShiftByMonths(r.from, -12) \in Reached /\ ShiftByMonths(r.to, -12) \in Reached
    BY <1>2, <1>7, Shifted
  <2>2. s.from = ShiftByMonths(r.from, -12) /\ s.to = ShiftByMonths(r.to, -12)
    BY <1>4, <1>7 DEF GetCompareRange
  <2>3. s.from \in Int /\ s.to \in Reached
    BY <2>1, <2>2 DEF Reached
  <2>4. PeriodFacts(s)
    BY <1>2, <1>4, <1>5, <1>7, <2>3 DEF PeriodFacts, PcOf
  <2>5. FreshTrial(s) \/ s.kind # "trial_balance"
    BY <1>4, <1>5, <1>7 DEF FreshTrial
  <2> QED BY <1>1, <1>4, <1>5, <1>7, <2>4, <2>5 DEF ReportFacts, WholeFacts
<1>8. CASE r.kind # "balance_sheet" /\ mode = "previous_period"
  <2>1. s.from = r.from - 1 - (r.to - r.from) /\ s.to = r.from - 1
    BY <1>4, <1>8 DEF GetCompareRange
  <2>2. /\ s.from \in Int /\ s.to \in Reached
        /\ r.kind = "trial_balance" => s.from <= s.to
    BY <1>2, <1>8, <2>1 DEF Reached
  <2>3. PeriodFacts(s)
    BY <1>2, <1>4, <1>5, <1>8, <2>2 DEF PeriodFacts, PcOf
  <2>4. CASE r.kind = "trial_balance" /\ r.undisturbed
    <3>1. r.accounts = chart /\ r.before = NetsIn(OrgAccount, 0, r.from - 1)
      BY <2>4 DEF ReportFacts, FreshTrial
    <3>2. s.beside[1].accounts = r.accounts /\ s.beside[1].before = r.before
      BY <1>4
    <3>3. FreshTrial(s)
      BY <1>4, <1>5, <2>1, <2>4, <3>1, <3>2 DEF FreshTrial
    <3> QED BY <1>1, <1>4, <1>5, <2>3, <2>4, <3>3 DEF ReportFacts, WholeFacts
  <2> QED BY <1>1, <1>2, <1>4, <1>5, <1>8, <2>3, <2>4 DEF ReportFacts, WholeFacts
<1> QED BY <1>3, <1>6, <1>7, <1>8
-----------------------------------------------------------------------------
(* The invariant of the reports *)

LEMMA WholeKept ==
  ASSUME chart \subseteq chart', NEW r, WholeFacts(r)
  PROVE  WholeFacts(r)'
<1>1. \A nets : Whole(nets) => Whole(nets)'
  BY DEF Whole
<1> QED BY <1>1 DEF WholeFacts

\* What was read is still there as long as neither the journal nor the chart changes.
LEMMA FactsKept ==
  ASSUME UNCHANGED <<rows, chart>>, NEW r, ReportFacts(r)
  PROVE  ReportFacts(r)'
<1>1. \A a, d : ReportedNet(a, d)' = ReportedNet(a, d)
  BY DEF ReportedNet, NetOver, ReportedBatches, NetOf
<1>2. \A S, from, to : NetsIn(S, from, to)' = NetsIn(S, from, to)
  BY <1>1 DEF NetsIn
<1>3. RetainedLedger(r.to)' = RetainedLedger(r.to)
  BY <1>2 DEF RetainedLedger
<1>4. PriorYearsNetIncome(r.to)' = PriorYearsNetIncome(r.to)
  BY <1>2 DEF PriorYearsNetIncome, NetIncome
<1>5. WholeFacts(r)'
  BY WholeKept DEF ReportFacts
<1>6. FreshTrial(r) => FreshTrial(r)'
  BY <1>2 DEF FreshTrial
<1>7. FreshSheet(r) => FreshSheet(r)'
  BY <1>2, <1>3, <1>4 DEF FreshSheet
<1> QED BY <1>5, <1>6, <1>7 DEF ReportFacts

\* A write disturbs the report that is being made; what it has read stays whole.
LEMMA DisturbedFacts ==
  ASSUME ReportFacts(report), chart \subseteq chart', report' = Disturbed
  PROVE  ReportFacts(report)'
<1>1. PICK r : r = report
  OBVIOUS
<1>2. PICK s : s = Disturbed
  OBVIOUS
<1>3. ReportFacts(r)
  BY <1>1
<1>4. CASE r.pc = "none"
  <2>1. s = r
    BY <1>1, <1>2, <1>4 DEF Disturbed, At
  <2>2. r.kind = "none"
    BY <1>3, <1>4 DEF ReportFacts, PeriodFacts, PcOf
  <2>3. ReportFacts(s)'
    BY <1>3, <2>1, <2>2 DEF ReportFacts, WholeFacts
  <2> QED BY <1>2, <2>3
<1>5. CASE r.pc # "none"
  <2>0. PICK no : no = FALSE
    OBVIOUS
  <2>1. s = Written(r, "undisturbed", no)
    BY <1>1, <1>2, <1>5, <2>0 DEF Disturbed, At, Written
  <2>2. /\ IsReport(s) /\ s.undisturbed = no
        /\ s.kind = r.kind /\ s.pc = r.pc /\ s.from = r.from /\ s.to = r.to
        /\ s.accounts = r.accounts /\ s.before = r.before /\ s.within = r.within
        /\ s.mode = r.mode
    <3>1. IsReport(r)
      BY <1>3 DEF ReportFacts
    <3> QED BY <2>1, <3>1, FieldSet DEF Field
  <2>3. PeriodFacts(s)
    BY <1>3, <2>2 DEF ReportFacts, PeriodFacts
  <2>4. WholeFacts(s)
    BY <1>3, <2>2 DEF ReportFacts, WholeFacts
  <2>5. WholeFacts(s)'
    BY <2>4, WholeKept
  <2>6. ReportFacts(s)'
    BY <2>0, <2>2, <2>3, <2>5 DEF ReportFacts
  <2> QED BY <1>2, <2>6
<1> QED BY <1>4, <1>5

LEMMA ReportInitInv == ReportInit => ReportInv
<1> SUFFICES ASSUME ReportInit PROVE ReportInv
  OBVIOUS
<1>1. SoundBooks
  BY SoundInit DEF ReportInit
<1>2. Opened /\ chart \subseteq OrgAccount
  BY DEF ReportInit, Init, Opened
<1> QED BY <1>1, <1>2, NoReportFacts DEF ReportInit, ReportInv, LedgerFacts

\* A report never changes the books it is read from.
LEMMA StartStepFacts ==
  ASSUME LedgerFacts, StartReport
  PROVE  ReportFacts(report') /\ UNCHANGED <<rows, answers, chart>>
<1>1. PICK to \in Date :
        \/ Start("balance_sheet", FirstDay(to), to)
        \/ \E from \in Date, kind \in {"trial_balance", "income_statement"} : Start(kind, from, to)
        \/ \E from \in Date \cup {FirstDay(to)}, asked \in LedgerLinks :
             StartLedger(asked, from, to) \/ ExportLedger(asked, from, to)
  BY DEF StartReport
<1>2. to \in Nat /\ FirstDay(to) \in Int /\ \A d \in Date : d \in Nat
  BY ReportAssumption, FirstDayEarly DEF Reached
<1>3. ASSUME Start("balance_sheet", FirstDay(to), to)
      PROVE  ReportFacts(report') /\ UNCHANGED <<rows, answers, chart>>
  BY <1>2, <1>3, BegunFacts DEF Start
<1>4. ASSUME NEW from \in Date, NEW kind \in {"trial_balance", "income_statement"},
             Start(kind, from, to)
      PROVE  ReportFacts(report') /\ UNCHANGED <<rows, answers, chart>>
  <2>1. from \in Int /\ from \in Nat
    BY <1>2
  <2> QED BY <1>2, <1>4, <2>1, BegunFacts DEF Start
<1>5. ASSUME NEW from \in Date \cup {FirstDay(to)}, NEW asked,
             StartLedger(asked, from, to) \/ ExportLedger(asked, from, to)
      PROVE  ReportFacts(report') /\ UNCHANGED <<rows, answers, chart>>
  <2>1. from \in Int
    BY <1>2
  <2> QED BY <1>2, <1>5, <2>1, LedgerBegunFacts DEF StartLedger, ExportLedger
<1> QED BY <1>1, <1>3, <1>4, <1>5

LEMMA ReadStepFacts ==
  ASSUME LedgerFacts, ReportFacts(report), ReportStep
  PROVE  ReportFacts(report') /\ UNCHANGED <<rows, answers, chart>>
<1>1. PICK r : r = report
  OBVIOUS
<1>2. ReportFacts(r)
  BY <1>1
<1>3. ASSUME ReadBefore PROVE ReportFacts(report') /\ UNCHANGED <<rows, answers, chart>>
  BY <1>1, <1>2, <1>3, BeforeFacts DEF ReadBefore, Read, At, With
<1>4. ASSUME ReadRetained PROVE ReportFacts(report') /\ UNCHANGED <<rows, answers, chart>>
  BY <1>1, <1>2, <1>4, RetainedFacts DEF ReadRetained, Read, At, With
<1>5. ASSUME ReadPrior PROVE ReportFacts(report') /\ UNCHANGED <<rows, answers, chart>>
  BY <1>1, <1>2, <1>5, PriorFacts DEF ReadPrior, Read, At, With
<1>6. ASSUME ReadPnlAccounts PROVE ReportFacts(report') /\ UNCHANGED <<rows, answers, chart>>
  BY <1>1, <1>2, <1>6, PnlFacts DEF ReadPnlAccounts, Read, At, With
<1>7. ASSUME ReadWithin PROVE ReportFacts(report') /\ UNCHANGED <<rows, answers, chart>>
  BY <1>1, <1>2, <1>7, WithinFacts DEF ReadWithin, Read, At, With
<1>8. ASSUME ReadYtd PROVE ReportFacts(report') /\ UNCHANGED <<rows, answers, chart>>
  BY <1>1, <1>2, <1>8, YtdFacts DEF ReadYtd, Read, At, With
<1>9. ASSUME ReadLines PROVE ReportFacts(report') /\ UNCHANGED <<rows, answers, chart>>
  BY <1>1, <1>2, <1>9, LinesFacts DEF ReadLines, Read, At, With
<1>10. ASSUME NEW mode \in CompareMode, Compare(mode)
       PROVE  ReportFacts(report') /\ UNCHANGED <<rows, answers, chart>>
  <2>1. PICK period :
          period = IF r.kind = "balance_sheet"
                     THEN [from |-> FirstDay(GetCompareAsOf(mode, r.to)),
                           to   |-> GetCompareAsOf(mode, r.to)]
                     ELSE GetCompareRange(mode, [from |-> r.from, to |-> r.to])
    OBVIOUS
  <2>2. report' = Beside(r, mode, period.from, period.to)
    BY <1>1, <1>10, <2>1 DEF Compare, Beside
  <2>3. r.pc = "done" /\ r.mode = "none" /\ r.kind # "general_ledger"
    BY <1>1, <1>10 DEF Compare, At
  <2> QED BY <1>2, <1>10, <2>1, <2>2, <2>3, BesideFacts DEF Compare
<1>11. ASSUME Sent PROVE ReportFacts(report') /\ UNCHANGED <<rows, answers, chart>>
  BY <1>11, NoReportFacts DEF Sent
<1> QED BY <1>3, <1>4, <1>5, <1>6, <1>7, <1>8, <1>9, <1>10, <1>11 DEF ReportStep

LEMMA ReportStepInv == ReportInv /\ [ReportNext]_reportVars => ReportInv'
<1> SUFFICES ASSUME ReportInv, [ReportNext]_reportVars PROVE ReportInv'
  OBVIOUS
<1>1. LedgerFacts /\ ReportFacts(report)
  BY DEF ReportInv
<1>2. ASSUME UNCHANGED <<rows, answers, chart>>, ReportFacts(report')
      PROVE  ReportInv'
  <2>1. SoundBooks'
    BY <1>1, <1>2, SoundStep DEF LedgerFacts, vars
  <2>2. Opened' /\ chart' \subseteq OrgAccount
    BY <1>1, <1>2 DEF LedgerFacts, Opened
  <2>3. PICK r : r = report'
    OBVIOUS
  <2>4. ReportFacts(r)'
    BY <1>2, <2>3, FactsKept
  <2> QED BY <2>1, <2>2, <2>3, <2>4 DEF ReportInv, LedgerFacts
<1>3. ASSUME LedgerStep PROVE ReportInv'
  <2>1. SoundBooks'
    BY <1>1, <1>3, SoundStep DEF LedgerFacts, LedgerStep
  <2>2. ReportFacts(report)'
    BY <1>1, <1>3, DisturbedFacts DEF LedgerStep
  <2> QED BY <1>1, <1>3, <2>1, <2>2 DEF ReportInv, LedgerFacts, LedgerStep
<1>4. ASSUME NEW a \in OrgAccount, OpenAccount(a) PROVE ReportInv'
  <2>1. SoundBooks'
    BY <1>1, <1>4, SoundStep DEF LedgerFacts, OpenAccount, vars
  <2>2. ReportFacts(report)'
    BY <1>1, <1>4, DisturbedFacts DEF OpenAccount
  <2>3. Opened' /\ chart' \subseteq OrgAccount
    BY <1>1, <1>4 DEF LedgerFacts, OpenAccount, Opened
  <2> QED BY <2>1, <2>2, <2>3 DEF ReportInv, LedgerFacts
<1>5. CASE UNCHANGED reportVars
  <2>1. UNCHANGED <<rows, answers, chart>> /\ report' = report
    BY <1>5 DEF reportVars
  <2> QED BY <1>1, <1>2, <2>1
<1>6. CASE StartReport
  BY <1>1, <1>2, <1>6, StartStepFacts
<1>7. CASE ReportStep
  BY <1>1, <1>2, <1>7, ReadStepFacts
<1> QED BY <1>3, <1>4, <1>5, <1>6, <1>7 DEF ReportNext

\* A report adds up over what it has read whenever it has read it, and holds what the
\* journal holds as long as nothing is written meanwhile.
THEOREM ReportsReadTheBooks == ReportSpec => []ReportInv
BY ReportInitInv, ReportStepInv, PTL DEF ReportSpec
-----------------------------------------------------------------------------
(* What the reports show *)

LEMMA WholeChart ==
  ASSUME LedgerFacts, NEW nets, Whole(nets)
  PROVE  /\ IsFiniteSet(chart) /\ \A a \in chart : nets[a] \in Int
         /\ SumFunctionOnSet(nets, chart) = 0
<1>1. chart \in SUBSET OrgAccount /\ IsFiniteSet(OrgAccount)
  BY BookAssumption DEF LedgerFacts
<1>2. IsFiniteSet(chart)
  BY <1>1, FS_Subset
<1>3. /\ SumFunctionOnSet(nets, OrgAccount) = 0
      /\ \A a \in chart : nets[a] \in Int
      /\ \A a \in OrgAccount \ chart : nets[a] = 0
  BY <1>1 DEF Whole
<1> QED BY <1>1, <1>2, <1>3, SumSupport

LEMMA ColumnsAgree ==
  ASSUME LedgerFacts, NEW nets, Whole(nets), NEW r, r.accounts = chart
  PROVE  DebitColumn(r, nets) = CreditColumn(r, nets)
<1> DEFINE f == [a \in chart |-> Positive(nets[a])]
           g == [a \in chart |-> Positive(-nets[a])]
           x == SumFunctionOnSet(f, chart)
           y == SumFunctionOnSet(g, chart)
<1>1. /\ IsFiniteSet(chart) /\ \A a \in chart : nets[a] \in Int
      /\ SumFunctionOnSet(nets, chart) = 0
  BY WholeChart
<1>2. \A a \in chart : f[a] \in Int /\ g[a] \in Int /\ nets[a] = f[a] - g[a]
  BY <1>1 DEF Positive
<1>3. DebitColumn(r, nets) = x /\ CreditColumn(r, nets) = y
  BY DOMAIN f = chart, DOMAIN g = chart DEF DebitColumn, CreditColumn, SumFunction
<1> HIDE DEF f, g
<1>4. SumFunctionOnSet(nets, chart) = x - y
  BY <1>1, <1>2, SumMinus
<1>5. x \in Int /\ y \in Int
  BY <1>1, <1>2, SumInt
<1> HIDE DEF x, y
<1> QED BY <1>1, <1>3, <1>4, <1>5

LEMMA EndNetsWhole ==
  ASSUME LedgerFacts, NEW r, Whole(r.before), Whole(r.within)
  PROVE  Whole(EndNets(r))
<1>1. PICK f, g : f = r.before /\ g = r.within
  OBVIOUS
<1>2. PICK h : h = [a \in OrgAccount |-> f[a] + g[a]]
  OBVIOUS
<1>3. \A a \in OrgAccount : f[a] \in Int /\ g[a] \in Int /\ h[a] = f[a] + g[a]
  BY <1>1, <1>2 DEF Whole
<1>4. SumFunctionOnSet(h, OrgAccount) = SumFunctionOnSet(f, OrgAccount) + SumFunctionOnSet(g, OrgAccount)
  BY <1>3, BookAssumption, SumPlus
<1>5. SumFunctionOnSet(h, OrgAccount) = 0
  BY <1>1, <1>4 DEF Whole
<1>6. \A a \in OrgAccount \ chart : h[a] = 0
  BY <1>1, <1>3 DEF Whole
<1>7. Whole(h)
  BY <1>3, <1>5, <1>6 DEF Whole
<1> QED BY <1>1, <1>2, <1>7 DEF EndNets

\* The trial balance and the complete general ledger balance, whatever was written
\* between their queries.
THEOREM TrialBalances == ReportSpec => []DebitsEqualCredits
<1>1. ReportInv => DebitsEqualCredits
  <2> SUFFICES ASSUME ReportInv PROVE DebitsEqualCredits
    OBVIOUS
  <2>1. PICK r : r = report
    OBVIOUS
  <2>2. LedgerFacts /\ WholeFacts(r)
    BY <2>1 DEF ReportInv, ReportFacts
  <2>3. ASSUME r.kind = "trial_balance", r.pc = "done", r.accounts = chart
        PROVE  /\ DebitColumn(r, r.before) = CreditColumn(r, r.before)
               /\ DebitColumn(r, EndNets(r)) = CreditColumn(r, EndNets(r))
    <3>1. Whole(r.before) /\ Whole(r.within)
      BY <2>2, <2>3 DEF WholeFacts
    <3>2. Whole(EndNets(r))
      BY <2>2, <3>1, EndNetsWhole
    <3> QED BY <2>2, <2>3, <3>1, <3>2, ColumnsAgree
  <2>4. ASSUME r.kind = "general_ledger", r.pc = "done", r.accounts = OrgAccount
        PROVE  SumOver(r.within, OrgAccount) = 0
    <3>1. PICK f : f = r.within
      OBVIOUS
    <3>2. SumFunctionOnSet(f, OrgAccount) = 0
      BY <2>2, <2>4, <3>1 DEF WholeFacts
    <3> DEFINE g == [a \in OrgAccount |-> f[a]]
    <3>3. SumOver(r.within, OrgAccount) = SumFunctionOnSet(g, OrgAccount)
      BY <3>1, DOMAIN g = OrgAccount DEF SumOver, SumFunction
    <3>4. \A a \in OrgAccount : g[a] = f[a]
      OBVIOUS
    <3> HIDE DEF g
    <3>5. SumFunctionOnSet(g, OrgAccount) = SumFunctionOnSet(f, OrgAccount)
      BY <3>4, BookAssumption, SumSame
    <3> QED BY <3>2, <3>3, <3>5
  <2> QED BY <2>1, <2>3, <2>4 DEF DebitsEqualCredits, Done, At
<1> QED BY <1>1, ReportsReadTheBooks, PTL

\* What an account has at the end of the previous period is what it starts this one with.
THEOREM TrialBalancesAdjoin == ReportSpec => []PeriodsAdjoin
<1>1. ReportInv => PeriodsAdjoin
  <2> SUFFICES ASSUME ReportInv PROVE PeriodsAdjoin
    OBVIOUS
  <2>1. PICK r : r = report
    OBVIOUS
  <2>2. LedgerFacts /\ PeriodFacts(r)
        /\ (r.kind = "trial_balance" /\ r.undisturbed => FreshTrial(r))
    BY <2>1 DEF ReportInv, ReportFacts
  <2>3. ASSUME r.kind = "trial_balance", r.pc = "done", r.mode = "previous_period", r.undisturbed,
               NEW a \in r.beside[1].accounts
        PROVE  CompareNet(r, a) = r.beside[1].before[a]
    <3>1. /\ r.accounts = chart /\ r.before = NetsIn(OrgAccount, 0, r.from - 1)
          /\ r.within = NetsIn(OrgAccount, r.from, r.to)
          /\ r.beside[1].accounts = chart /\ r.beside[1].before = NetsIn(OrgAccount, 0, r.to)
      BY <2>2, <2>3 DEF FreshTrial
    <3>2. a \in r.accounts /\ a \in OrgAccount
      BY <2>2, <2>3, <3>1 DEF LedgerFacts
    <3>3. r.from \in Int /\ r.to \in Int /\ r.from <= r.to + 1
      BY <2>2, <2>3 DEF PeriodFacts, Reached
    <3>4. /\ r.before[a] = NetIn(a, 0, r.from - 1) /\ r.within[a] = NetIn(a, r.from, r.to)
          /\ r.beside[1].before[a] = NetIn(a, 0, r.to)
      BY <3>1, <3>2, NetsAre
    <3>5. NetIn(a, 0, r.to) = NetIn(a, 0, r.from - 1) + NetIn(a, r.from, r.to)
      BY <2>2, <3>3, PeriodsAdd DEF LedgerFacts, SoundBooks, IndInv
    <3> QED BY <3>2, <3>4, <3>5 DEF CompareNet, EndNets
  <2> QED BY <2>1, <2>3 DEF PeriodsAdjoin, Done, At
<1> QED BY <1>1, ReportsReadTheBooks, PTL

\* The accounts of a chart in their parts.
PnlAccounts == OfType({"income", "expense"}) \cap chart

LEMMA IncomeIs ==
  ASSUME LedgerFacts, NEW from \in Int, NEW to \in Int
  PROVE  /\ NetIncome(from, to)
              = -SumFunctionOnSet([a \in PnlAccounts |-> NetIn(a, from, to)], PnlAccounts)
         /\ IsFiniteSet(PnlAccounts) /\ \A a : NetIn(a, from, to) \in Int
<1> DEFINE f == [a \in PnlAccounts |-> NetIn(a, from, to)]
<1>1. NetIncome(from, to) = -SumFunctionOnSet(f, PnlAccounts)
  BY NetsAre, DOMAIN f = PnlAccounts DEF NetIncome, PnlAccounts, SumFunction
<1>2. IsFiniteSet(PnlAccounts)
  BY BookAssumption, FS_Subset DEF LedgerFacts, PnlAccounts
<1>3. TypeOK
  BY DEF LedgerFacts, SoundBooks, IndInv
<1>4. \A a : NetIn(a, from, to) \in Int
  BY <1>3, NetInIs
<1> QED BY <1>1, <1>2, <1>4

\* What was earned up to a day is what was earned before another and since.
LEMMA EarningsAdd ==
  ASSUME LedgerFacts, NEW m \in Int, NEW to \in Int, m <= to + 1
  PROVE  /\ NetIncome(0, to) = NetIncome(0, m - 1) + NetIncome(m, to)
         /\ NetIncome(0, m - 1) \in Int /\ NetIncome(m, to) \in Int
<1> DEFINE f == [a \in PnlAccounts |-> NetIn(a, 0, m - 1)]
           g == [a \in PnlAccounts |-> NetIn(a, m, to)]
           h == [a \in PnlAccounts |-> NetIn(a, 0, to)]
           x == SumFunctionOnSet(f, PnlAccounts)
           y == SumFunctionOnSet(g, PnlAccounts)
<1>1. /\ NetIncome(0, m - 1) = -x /\ NetIncome(m, to) = -y
      /\ NetIncome(0, to) = -SumFunctionOnSet(h, PnlAccounts)
      /\ IsFiniteSet(PnlAccounts)
  BY IncomeIs
<1>2. \A a : NetIn(a, 0, m - 1) \in Int /\ NetIn(a, m, to) \in Int
  <2>1. m - 1 \in Int /\ 0 \in Int
    OBVIOUS
  <2>2. \A a : NetIn(a, 0, m - 1) \in Int
    BY <2>1, IncomeIs
  <2>3. \A a : NetIn(a, m, to) \in Int
    BY IncomeIs
  <2> QED BY <2>2, <2>3
<1>3. \A a : NetIn(a, 0, to) = NetIn(a, 0, m - 1) + NetIn(a, m, to)
  BY PeriodsAdd DEF LedgerFacts, SoundBooks, IndInv
<1>4. \A a \in PnlAccounts : f[a] \in Int /\ g[a] \in Int /\ h[a] = f[a] + g[a]
  BY <1>2, <1>3
<1> HIDE DEF f, g, h
<1>5. SumFunctionOnSet(h, PnlAccounts) = x + y
  BY <1>1, <1>4, SumPlus
<1>6. x \in Int /\ y \in Int
  BY <1>1, <1>4, SumInt
<1> HIDE DEF x, y
<1> QED BY <1>1, <1>5, <1>6

\* On the first day of a year, the prior years have taken in the year that ended.
THEOREM EarningsRollForward == ReportSpec => []YearRollsForward
<1>1. ReportInv => YearRollsForward
  <2> SUFFICES ASSUME ReportInv, NEW d \in Date, FirstDay(d) = d
               PROVE  PriorYearsNetIncome(d)
                        = PriorYearsNetIncome(d - 1) + NetIncome(FirstDay(d - 1), d - 1)
    BY DEF YearRollsForward
  <2>1. d \in Nat /\ d - 1 \in Reached /\ d - 1 \in Int
    BY ReportAssumption DEF Reached
  <2>2. FirstDay(d - 1) \in Int /\ FirstDay(d - 1) <= d - 1
    BY <2>1, FirstDayEarly
  <2>3. NetIncome(0, d - 1) = NetIncome(0, FirstDay(d - 1) - 1) + NetIncome(FirstDay(d - 1), d - 1)
    BY <2>1, <2>2, EarningsAdd DEF ReportInv
  <2> QED BY <2>3 DEF PriorYearsNetIncome
<1> QED BY <1>1, ReportsReadTheBooks, PTL

\* Retained Earnings apart, the accounts of a chart are of one type each.
LEMMA ChartParts ==
  ASSUME LedgerFacts, NEW f, \A a \in chart : f[a] \in Int
  PROVE  LET Sum(S) == SumFunctionOnSet(f, S)
             A == {a \in chart : Type[a] = "asset"}
             L == {a \in chart : Type[a] = "liability"}
             E == {a \in chart : Type[a] = "equity"} \ RetainedEarnings
             R == RetainedEarnings \cap chart
         IN  /\ Sum(chart) = Sum(A) + Sum(L) + Sum(E) + Sum(R) + Sum(PnlAccounts)
             /\ \A S \in {A, L, E, R, PnlAccounts} : IsFiniteSet(S) /\ Sum(S) \in Int
<1> DEFINE Sum(S) == SumFunctionOnSet(f, S)
           A == {a \in chart : Type[a] = "asset"}
           L == {a \in chart : Type[a] = "liability"}
           E == {a \in chart : Type[a] = "equity"} \ RetainedEarnings
           R == RetainedEarnings \cap chart
           P == PnlAccounts
<1>1. chart \subseteq OrgAccount /\ IsFiniteSet(chart)
  BY BookAssumption, FS_Subset DEF LedgerFacts
<1>2. /\ A \subseteq chart /\ L \subseteq chart /\ E \subseteq chart /\ R \subseteq chart
      /\ P \subseteq chart
  BY DEF PnlAccounts
<1>3. /\ A \cap L = {} /\ (A \cup L) \cap E = {} /\ (A \cup L \cup E) \cap R = {}
      /\ (A \cup L \cup E \cup R) \cap P = {} /\ A \cup L \cup E \cup R \cup P = chart
  <2>1. \A a \in chart : Type[a] \in AccountType /\ (a \in RetainedEarnings => Type[a] = "equity")
    BY <1>1, ReportAssumption
  <2>2. \A a : a \in P <=> a \in chart /\ Type[a] \in {"income", "expense"}
    BY <1>1 DEF PnlAccounts, OfType
  <2> HIDE DEF P
  <2> QED BY <1>2, <2>1, <2>2 DEF AccountType
<1> HIDE DEF A, L, E, R, P
<1>4. \A S \in SUBSET chart : IsFiniteSet(S) /\ (\A a \in S : f[a] \in Int) /\ Sum(S) \in Int
  BY <1>1, FS_Subset, SumInt
<1> HIDE DEF Sum
<1>5. \A S, T \in SUBSET chart : S \cap T = {} => Sum(S \cup T) = Sum(S) + Sum(T)
  <2> TAKE S, T \in SUBSET chart
  <2>1. /\ IsFiniteSet(S) /\ IsFiniteSet(T) /\ \A a \in S \cup T : f[a] \in Int
    BY <1>4
  <2> QED BY <2>1, SumSplit DEF Sum
<1>6. Sum(A \cup L) = Sum(A) + Sum(L)
  BY <1>2, <1>3, <1>5
<1>7. Sum(A \cup L \cup E) = Sum(A \cup L) + Sum(E)
  <2>1. A \cup L \in SUBSET chart /\ E \in SUBSET chart
    BY <1>2
  <2> QED BY <1>3, <1>5, <2>1
<1>8. Sum(A \cup L \cup E \cup R) = Sum(A \cup L \cup E) + Sum(R)
  <2>1. A \cup L \cup E \in SUBSET chart /\ R \in SUBSET chart
    BY <1>2
  <2> QED BY <1>3, <1>5, <2>1
<1>9. Sum(chart) = Sum(A \cup L \cup E \cup R) + Sum(P)
  <2>1. A \cup L \cup E \cup R \in SUBSET chart /\ P \in SUBSET chart
    BY <1>2
  <2> QED BY <1>3, <1>5, <2>1
<1>10. Sum(chart) = Sum(A) + Sum(L) + Sum(E) + Sum(R) + Sum(P)
  BY <1>2, <1>4, <1>6, <1>7, <1>8, <1>9
<1>11. \A S \in {A, L, E, R, P} : IsFiniteSet(S) /\ Sum(S) \in Int
  BY <1>2, <1>4
<1> QED BY <1>10, <1>11 DEF A, L, E, R, P, Sum

\* Read by different queries, assets are liabilities and equity, earnings included.
THEOREM BalanceSheetsBalance == ReportSpec => []BalanceSheetBalances
<1>1. ReportInv => BalanceSheetBalances
  <2> SUFFICES ASSUME ReportInv, report.kind = "balance_sheet", report.pc = "done",
                      report.undisturbed
               PROVE  LET sheet == BalanceSheet(report)
                      IN  sheet.assets = sheet.liabilities + sheet.equity
    BY DEF BalanceSheetBalances, Done, At
  <2>1. PICK r : r = report
    OBVIOUS
  <2>2. LedgerFacts /\ PeriodFacts(r) /\ FreshSheet(r)
    BY <2>1 DEF ReportInv, ReportFacts
  <2>3. PICK to, m : to = r.to /\ m = FirstDay(to)
    OBVIOUS
  <2>4. to \in Int /\ m \in Int /\ m <= to
    BY <2>2, <2>3, FirstDayEarly DEF PeriodFacts, Reached
  <2>5. /\ r.accounts = chart /\ r.before = NetsIn(OrgAccount, 0, to)
        /\ r.retained = RetainedLedger(to) /\ r.prior = PriorYearsNetIncome(to)
        /\ r.pnl = PnlAccounts /\ r.ytd = NetsIn(OrgAccount, m, to)
    BY <2>1, <2>2, <2>3 DEF FreshSheet, PnlAccounts
  <2>6. PICK f : f = NetsIn(OrgAccount, 0, to)
    OBVIOUS
  <2>7. Whole(f)
    BY <2>2, <2>4, <2>6, NetsWhole DEF LedgerFacts
  <2>8. /\ IsFiniteSet(chart) /\ chart \subseteq OrgAccount /\ \A a \in chart : f[a] \in Int
        /\ SumFunctionOnSet(f, chart) = 0
    BY <2>2, <2>7, WholeChart DEF LedgerFacts
  <2>9. PICK A, L, E, R : /\ A = {a \in chart : Type[a] = "asset"}
                          /\ L = {a \in chart : Type[a] = "liability"}
                          /\ E = {a \in chart : Type[a] = "equity"} \ RetainedEarnings
                          /\ R = RetainedEarnings \cap chart
    OBVIOUS
  <2>10. PICK a, l, e, q, p : /\ a = SumFunctionOnSet(f, A) /\ l = SumFunctionOnSet(f, L)
                              /\ e = SumFunctionOnSet(f, E) /\ q = SumFunctionOnSet(f, R)
                              /\ p = SumFunctionOnSet(f, PnlAccounts)
    OBVIOUS
  <2>11. /\ 0 = a + l + e + q + p
         /\ a \in Int /\ l \in Int /\ e \in Int /\ q \in Int /\ p \in Int
         /\ IsFiniteSet(A) /\ IsFiniteSet(L) /\ IsFiniteSet(E) /\ IsFiniteSet(R)
         /\ IsFiniteSet(PnlAccounts)
    BY <2>2, <2>8, <2>9, <2>10, ChartParts
  <2>12. ASSUME NEW S, IsFiniteSet(S)
         PROVE  SumOver(f, S) = SumFunctionOnSet(f, S)
    <3> DEFINE g == [x \in S |-> f[x]]
    <3>1. SumOver(f, S) = SumFunctionOnSet(g, S)
      BY DOMAIN g = S DEF SumOver, SumFunction
    <3>2. \A x \in S : g[x] = f[x]
      OBVIOUS
    <3> HIDE DEF g
    <3> QED BY <2>12, <3>1, <3>2, SumSame
  <2>13. /\ SumOver(r.before, {x \in r.accounts : Type[x] = "asset"}) = a
         /\ SumOver(r.before, {x \in r.accounts : Type[x] = "liability"}) = l
         /\ SumOver(r.before, ShownEquity(r)) = e
    BY <2>5, <2>6, <2>9, <2>10, <2>11, <2>12 DEF ShownEquity
  <2>14. r.retained = -q
    <3>1. R \subseteq OrgAccount
      BY <2>8, <2>9
    <3> DEFINE g == [x \in R |-> NetIn(x, 0, to)]
    <3>2. \A x \in R : g[x] = f[x]
      BY <2>6, <3>1, NetsAre
    <3>3. r.retained = -SumFunctionOnSet(g, R)
      BY <2>5, <2>9, NetsAre, DOMAIN g = R DEF RetainedLedger, SumFunction
    <3> HIDE DEF g
    <3> QED BY <2>10, <2>11, <3>2, <3>3, SumSame
  <2>15. r.prior + YtdNetIncome(r) = -p /\ r.prior \in Int /\ YtdNetIncome(r) \in Int
    <3>1. /\ NetIncome(0, to) = NetIncome(0, m - 1) + NetIncome(m, to)
          /\ NetIncome(0, m - 1) \in Int /\ NetIncome(m, to) \in Int
      BY <2>2, <2>4, EarningsAdd
    <3>2. r.prior = NetIncome(0, m - 1)
      BY <2>3, <2>5 DEF PriorYearsNetIncome
    <3>3. PnlAccounts \subseteq OrgAccount
      BY <2>8 DEF PnlAccounts
    <3>4. YtdNetIncome(r) = NetIncome(m, to)
      <4> DEFINE g == [x \in PnlAccounts |-> NetIn(x, m, to)]
                 h == [x \in PnlAccounts |-> r.ytd[x]]
      <4>1. YtdNetIncome(r) = -SumFunctionOnSet(h, PnlAccounts)
        BY <2>5, DOMAIN h = PnlAccounts DEF YtdNetIncome, SumOver, SumFunction
      <4>2. \A x \in PnlAccounts : h[x] = g[x]
        BY <2>5, <3>3, NetsAre
      <4>3. NetIncome(m, to) = -SumFunctionOnSet(g, PnlAccounts)
        BY <2>2, <2>4, IncomeIs
      <4> HIDE DEF g, h
      <4> QED BY <2>11, <4>1, <4>2, <4>3, SumSame
    <3>5. NetIncome(0, to) = -p
      <4> DEFINE g == [x \in PnlAccounts |-> NetIn(x, 0, to)]
      <4>1. NetIncome(0, to) = -SumFunctionOnSet(g, PnlAccounts)
        BY <2>2, <2>4, IncomeIs
      <4>2. \A x \in PnlAccounts : g[x] = f[x]
        BY <2>6, <3>3, NetsAre
      <4> HIDE DEF g
      <4> QED BY <2>10, <2>11, <4>1, <4>2, SumSame
    <3> QED BY <3>1, <3>2, <3>4, <3>5
  <2>16. BalanceSheet(r).assets = a /\ BalanceSheet(r).liabilities = -l
         /\ BalanceSheet(r).equity = -e + r.retained + r.prior + YtdNetIncome(r)
    BY <2>13 DEF BalanceSheet
  <2> QED BY <2>1, <2>11, <2>14, <2>15, <2>16
<1> QED BY <1>1, ReportsReadTheBooks, PTL
-----------------------------------------------------------------------------
(* The calendar: months by their numbers, fiscal years, quarters and the periods of reports *)

\* The first day of month n, counted from January of year 0.
First(n) == DayOf(0, n, 1)

\* Month m of year y is month n; m may run over into other years.
Numbered(y, m, n) == n \in Int /\ n = 12 * y + m

LEMMA DaysNumbered ==
  ASSUME NEW y \in Int, NEW m \in Int, NEW day \in Int, NEW n, Numbered(y, m, n)
  PROVE  DayOf(y, m, day) = First(n) + day - 1 /\ First(n) \in Int
<1>2. n \in Int /\ (n - 1) \div 12 = y + (m - 1) \div 12 /\ (n - 1) % 12 = (m - 1) % 12
  BY DEF Numbered
<1>3. PICK z, k : z = y + (m - 1) \div 12 /\ k = ((m - 1) % 12) + 1
  OBVIOUS
<1>4. /\ z \in Int /\ k \in 1 .. 12 /\ 0 + (n - 1) \div 12 = z /\ ((n - 1) % 12) + 1 = k
      /\ LeapDaysBefore(z) \in Int /\ DaysBeforeMonth[k] \in Int
  BY <1>2, <1>3 DEF LeapDaysBefore, DaysBeforeMonth
<1>5. DayOf(y, m, day) = 365 * (z - 1970) + LeapDaysBefore(z) + DaysBeforeMonth[k]
        + (IF IsLeap(z) /\ k > 2 THEN 1 ELSE 0) + day - 1
  BY <1>3 DEF DayOf
<1>6. First(n) = 365 * (z - 1970) + LeapDaysBefore(z) + DaysBeforeMonth[k]
        + (IF IsLeap(z) /\ k > 2 THEN 1 ELSE 0) + 1 - 1
  BY <1>4 DEF DayOf, First
<1> QED BY <1>4, <1>5, <1>6

LEMMA LeapYears ==
  ASSUME NEW y \in Int
  PROVE  NewYear(y + 1) - NewYear(y) = IF IsLeap(y) THEN 366 ELSE 365
<1>1. \A k \in {4, 100, 400} : y \div k - (y - 1) \div k = IF y % k = 0 THEN 1 ELSE 0
  OBVIOUS
<1>2. y % 400 = 0 => y % 100 = 0
  OBVIOUS
<1>3. y % 100 = 0 => y % 4 = 0
  OBVIOUS
<1>4. LeapDaysBefore(y + 1) = y \div 4 - y \div 100 + y \div 400 - 477
  <2>1. (y + 1) - 1 = y
    OBVIOUS
  <2> QED BY <2>1 DEF LeapDaysBefore
<1>5. \A k \in {4, 100, 400} : y \div k \in Int /\ (y - 1) \div k \in Int
  OBVIOUS
<1> QED BY <1>1, <1>2, <1>3, <1>4, <1>5 DEF IsLeap, LeapDaysBefore, NewYear

LeapDay(y, m) == IF IsLeap(y) /\ m > 2 THEN 1 ELSE 0

LEMMA LeapDays ==
  ASSUME NEW y \in Int, NEW m \in 1 .. 12
  PROVE  /\ LeapDay(y, m) \in Int /\ 0 <= LeapDay(y, m) /\ LeapDay(y, m) <= 1
         /\ DaysBeforeMonth[m] \in Int /\ 0 <= DaysBeforeMonth[m] /\ DaysBeforeMonth[m] <= 334
         /\ m < 12 => /\ LeapDay(y, m) <= LeapDay(y, m + 1)
                      /\ DaysBeforeMonth[m + 1] - DaysBeforeMonth[m] >= 28
BY DEF LeapDay, DaysBeforeMonth

\* A month by its year and its place in it.
LEMMA MonthIn ==
  ASSUME NEW n \in Int
  PROVE  \E y \in Int, m \in 1 .. 12 :
           /\ n = 12 * y + m
           /\ First(n) = NewYear(y) + DaysBeforeMonth[m] + LeapDay(y, m)
<1>1. PICK y, m : y = (n - 1) \div 12 /\ m = ((n - 1) % 12) + 1
  OBVIOUS
<1>2. y \in Int /\ m \in 1 .. 12 /\ n = 12 * y + m
  BY <1>1
<1>3. LeapDaysBefore(y) \in Int /\ DaysBeforeMonth[m] \in Int
  BY <1>2 DEF LeapDaysBefore, DaysBeforeMonth
<1>4. First(n) = 365 * (y - 1970) + LeapDaysBefore(y) + DaysBeforeMonth[m]
        + (IF IsLeap(y) /\ m > 2 THEN 1 ELSE 0) + 1 - 1
  <2>1. 0 + (n - 1) \div 12 = y
    BY <1>1, <1>2
  <2> QED BY <1>1, <2>1 DEF First, DayOf
<1> QED BY <1>2, <1>3, <1>4 DEF NewYear, LeapDay

LEMMA MonthsFollow ==
  ASSUME NEW n \in Int
  PROVE  First(n) \in Int /\ First(n) + 28 <= First(n + 1)
<1>1. PICK y \in Int, m \in 1 .. 12 :
           /\ n = 12 * y + m
           /\ First(n) = NewYear(y) + DaysBeforeMonth[m] + LeapDay(y, m)
  BY MonthIn
<1>2. NewYear(y) \in Int /\ NewYear(y + 1) >= NewYear(y) + 365 /\ NewYear(y + 1) \in Int
  BY NewYears
<1>3. DaysBeforeMonth[m] \in Int /\ LeapDay(y, m) \in Int
  BY LeapDays
<1>4. First(n) \in Int
  BY <1>1, <1>2, <1>3
<1>5. CASE m = 12
  <2>1. n + 1 = 12 * (y + 1) + 1 /\ y + 1 \in Int
    BY <1>1, <1>5
  <2>2. First(n + 1) = NewYear(y + 1)
    <3>1. PICK z \in Int : z = y + 1
      BY <2>1
    <3>2. PICK k \in Int : k = 1
      OBVIOUS
    <3>5. PICK p \in Int : p = n + 1
      OBVIOUS
    <3>3. DayOf(z, k, k) = First(p) + k - 1 /\ First(p) \in Int
      <4>1. Numbered(z, k, p)
        BY <2>1, <3>1, <3>2, <3>5 DEF Numbered
      <4> QED BY <4>1, DaysNumbered
    <3>4. DayOf(z, 1, 1) = NewYear(z)
      BY NewYears
    <3> QED BY <1>2, <2>1, <3>1, <3>2, <3>3, <3>4, <3>5
  <2>3. NewYear(y + 1) - NewYear(y) = IF IsLeap(y) THEN 366 ELSE 365
    BY LeapYears
  <2>4. DaysBeforeMonth[m] = 334 /\ LeapDay(y, m) = IF IsLeap(y) THEN 1 ELSE 0
    BY <1>5 DEF DaysBeforeMonth, LeapDay
  <2>5. First(n) + 31 = NewYear(y + 1)
    BY <1>1, <1>2, <2>3, <2>4
  <2> QED BY <1>2, <1>4, <2>2, <2>5
<1>6. CASE m # 12
  <2>1. PICK z \in Int, k \in 1 .. 12 :
           /\ n + 1 = 12 * z + k
           /\ First(n + 1) = NewYear(z) + DaysBeforeMonth[k] + LeapDay(z, k)
    <3>1. n + 1 \in Int
      OBVIOUS
    <3> QED BY <3>1, MonthIn
  <2>2. z = y /\ k = m + 1 /\ m < 12
    BY <1>1, <1>6, <2>1
  <2>3. /\ LeapDay(y, m) <= LeapDay(y, k) /\ DaysBeforeMonth[k] - DaysBeforeMonth[m] >= 28
    BY <2>2, LeapDays
  <2>4. DaysBeforeMonth[k] \in Int /\ LeapDay(y, k) \in Int
    BY LeapDays
  <2> QED BY <1>1, <1>2, <1>3, <2>1, <2>2, <2>3, <2>4
<1> QED BY <1>4, <1>5, <1>6

LEMMA YearsFollow ==
  ASSUME NEW n \in Int
  PROVE  First(n + 12) - First(n) \in {365, 366}
<1>1. PICK y \in Int, m \in 1 .. 12 :
           /\ n = 12 * y + m
           /\ First(n) = NewYear(y) + DaysBeforeMonth[m] + LeapDay(y, m)
  BY MonthIn
<1>2. PICK z \in Int, k \in 1 .. 12 :
           /\ n + 12 = 12 * z + k
           /\ First(n + 12) = NewYear(z) + DaysBeforeMonth[k] + LeapDay(z, k)
  BY MonthIn
<1>3. z = y + 1 /\ k = m
  BY <1>1, <1>2
<1>4. /\ NewYear(y) \in Int /\ NewYear(y + 1) \in Int /\ DaysBeforeMonth[m] \in Int
      /\ NewYear(y + 1) - NewYear(y) = IF IsLeap(y) THEN 366 ELSE 365
  <2>1. DaysBeforeMonth[m] \in Int
    BY LeapDays
  <2>2. y + 1 \in Int
    OBVIOUS
  <2>3. NewYear(y) \in Int /\ NewYear(y + 1) \in Int
    BY <2>2, NewYears
  <2> QED BY <2>1, <2>3, LeapYears
<1>5. IsLeap(y) => ~IsLeap(y + 1)
  BY DEF IsLeap
<1>6. /\ LeapDay(y, m) = IF IsLeap(y) /\ m > 2 THEN 1 ELSE 0
      /\ LeapDay(z, m) = IF IsLeap(y + 1) /\ m > 2 THEN 1 ELSE 0
  BY <1>3 DEF LeapDay
<1> QED BY <1>1, <1>2, <1>3, <1>4, <1>5, <1>6

LEMMA YearsGrow ==
  ASSUME NEW y \in Int, NEW z \in Int, y <= z
  PROVE  NewYear(y) <= NewYear(z)
<1>1. PICK a, b : a = y - 1 /\ b = z - 1
  OBVIOUS
<1>2. a \in Int /\ b \in Int /\ a <= b
  BY <1>1
<1>3. a \div 4 <= b \div 4 /\ a \div 4 \in Int /\ b \div 4 \in Int
  BY <1>2
<1>4. a \div 400 <= b \div 400 /\ a \div 400 \in Int /\ b \div 400 \in Int
  BY <1>2
<1>5. b \div 100 - a \div 100 <= b - a + 1 /\ a \div 100 \in Int /\ b \div 100 \in Int
  BY <1>2
<1>6. a = b => a \div 100 = b \div 100
  OBVIOUS
<1>7. /\ LeapDaysBefore(y) = a \div 4 - a \div 100 + a \div 400 - 477
      /\ LeapDaysBefore(z) = b \div 4 - b \div 100 + b \div 400 - 477
  BY <1>1 DEF LeapDaysBefore
<1> QED BY <1>1, <1>2, <1>3, <1>4, <1>5, <1>6, <1>7 DEF NewYear

LEMMA MonthsGrow ==
  ASSUME NEW n \in Int, NEW p \in Int, n < p
  PROVE  First(n) < First(p)
<1>1. PICK y \in Int, m \in 1 .. 12 :
           /\ n = 12 * y + m
           /\ First(n) = NewYear(y) + DaysBeforeMonth[m] + LeapDay(y, m)
  BY MonthIn
<1>2. PICK z \in Int, k \in 1 .. 12 :
           /\ p = 12 * z + k
           /\ First(p) = NewYear(z) + DaysBeforeMonth[k] + LeapDay(z, k)
  BY MonthIn
<1>3. /\ NewYear(y) \in Int /\ NewYear(y + 1) \in Int /\ NewYear(z) \in Int
      /\ NewYear(y + 1) - NewYear(y) = IF IsLeap(y) THEN 366 ELSE 365
      /\ DaysBeforeMonth[m] \in Int /\ 0 <= DaysBeforeMonth[m] /\ DaysBeforeMonth[m] <= 334
      /\ DaysBeforeMonth[k] \in Int /\ 0 <= DaysBeforeMonth[k] /\ DaysBeforeMonth[k] <= 334
      /\ LeapDay(y, m) \in Int /\ 0 <= LeapDay(y, m) /\ LeapDay(y, m) <= 1
      /\ LeapDay(z, k) \in Int /\ 0 <= LeapDay(z, k) /\ LeapDay(z, k) <= 1
      /\ LeapDay(y, m) = 1 => IsLeap(y)
  <2>1. y + 1 \in Int
    OBVIOUS
  <2>2. NewYear(y) \in Int /\ NewYear(y + 1) \in Int /\ NewYear(z) \in Int
    BY <2>1, NewYears
  <2>3. NewYear(y + 1) - NewYear(y) = IF IsLeap(y) THEN 366 ELSE 365
    BY LeapYears
  <2>4. /\ DaysBeforeMonth[m] \in Int /\ 0 <= DaysBeforeMonth[m] /\ DaysBeforeMonth[m] <= 334
        /\ DaysBeforeMonth[k] \in Int /\ 0 <= DaysBeforeMonth[k] /\ DaysBeforeMonth[k] <= 334
        /\ LeapDay(y, m) \in Int /\ 0 <= LeapDay(y, m) /\ LeapDay(y, m) <= 1
        /\ LeapDay(z, k) \in Int /\ 0 <= LeapDay(z, k) /\ LeapDay(z, k) <= 1
    BY LeapDays
  <2>5. LeapDay(y, m) = 1 => IsLeap(y)
    BY DEF LeapDay
  <2> QED BY <2>2, <2>3, <2>4, <2>5
<1>4. CASE y = z
  <2>1. m < k
    BY <1>1, <1>2, <1>4
  <2>2. DaysBeforeMonth[m] < DaysBeforeMonth[k] /\ LeapDay(y, m) <= LeapDay(y, k)
    BY <2>1 DEF DaysBeforeMonth, LeapDay
  <2>3. LeapDay(y, m) \in Int /\ LeapDay(y, k) \in Int
    BY <1>3, <1>4
  <2>4. NewYear(y) + DaysBeforeMonth[m] + LeapDay(y, m)
          < NewYear(y) + DaysBeforeMonth[k] + LeapDay(y, k)
    BY <1>3, <2>2, <2>3
  <2> QED BY <1>1, <1>2, <1>4, <2>4
<1>5. CASE y # z
  <2>1. y + 1 <= z /\ y + 1 \in Int
    BY <1>1, <1>2, <1>5
  <2>2. NewYear(y + 1) <= NewYear(z)
    BY <2>1, YearsGrow
  <2>3. NewYear(y) + DaysBeforeMonth[m] + LeapDay(y, m) < NewYear(y + 1)
    BY <1>3
  <2>4. NewYear(z) <= NewYear(z) + DaysBeforeMonth[k] + LeapDay(z, k)
    BY <1>3
  <2>5. NewYear(y) + DaysBeforeMonth[m] + LeapDay(y, m) < NewYear(z) + DaysBeforeMonth[k] + LeapDay(z, k)
    BY <1>3, <2>2, <2>3, <2>4
  <2> QED BY <1>1, <1>2, <2>5
<1> QED BY <1>4, <1>5

\* A day is in one month only.
LEMMA OneMonth ==
  ASSUME NEW n \in Int, NEW p \in Int, NEW d \in Int,
         First(n) <= d, d < First(n + 1), First(p) <= d, d < First(p + 1)
  PROVE  n = p
<1>1. \A i, j \in Int : First(i) \in Int /\ (i < j => First(i) < First(j))
  BY MonthsFollow, MonthsGrow
<1>2. ~(n + 1 < p) /\ ~(p + 1 < n) /\ n + 1 # p /\ p + 1 # n
  <2>1. n + 1 \in Int /\ p + 1 \in Int
    OBVIOUS
  <2> QED BY <1>1, <2>1
<1> QED BY <1>2

\* A month by its number, with what DayOf says of it.
LEMMA MonthBounds ==
  ASSUME NEW y \in Int, NEW m \in Int, NEW n, Numbered(y, m, n)
  PROVE  /\ DayOf(y, m, 1) = First(n) /\ DayOf(y, m, 0) = First(n) - 1
         /\ DayOf(y, m + 1, 1) = First(n + 1) /\ DayOf(y, m + 1, 0) = First(n + 1) - 1
         /\ First(n) \in Int /\ First(n + 1) \in Int
<1>1. PICK l \in Int, o \in Int, p \in Int, q \in Int : l = 0 /\ o = 1 /\ p = m + 1 /\ q = n + 1
  BY DEF Numbered
<1>2. DayOf(y, m, o) = First(n) + o - 1 /\ DayOf(y, m, l) = First(n) + l - 1 /\ First(n) \in Int
  BY DaysNumbered
<1>3. Numbered(y, p, q)
  BY <1>1 DEF Numbered
<1>4. DayOf(y, p, o) = First(q) + o - 1 /\ DayOf(y, p, l) = First(q) + l - 1 /\ First(q) \in Int
  BY <1>3, DaysNumbered
<1> QED BY <1>1, <1>2, <1>4

\* The month of a day: its number, its first and last day, and the place of the day in it.
InMonth(d, n) ==
  /\ n \in Int /\ MonthNumber(d) = n
  /\ First(n) \in Int /\ First(n + 1) \in Int /\ First(n) <= d /\ d < First(n + 1)
  /\ StartOfMonth(d) = First(n) /\ EndOfMonth(d) = First(n + 1) - 1
  /\ DayOfMonth(d) = d - First(n) + 1
  /\ YearOf(d) \in Int /\ MonthOf(d) \in 1 .. 12 /\ n = 12 * YearOf(d) + MonthOf(d)

LEMMA MonthFound ==
  ASSUME NEW d \in Reached
  PROVE  \E n \in Int : InMonth(d, n)
<1>1. PICK y \in Int : /\ y = YearOf(d) /\ y \in YearsAround(d)
                       /\ NewYear(y) <= d /\ d < NewYear(y + 1)
  BY YearExists
<1>2. d \in Int /\ NewYear(y) \in Int /\ NewYear(y + 1) \in Int /\ y + 1 \in Int
  BY <1>1, NewYears DEF Reached
<1>3. \A m \in 1 .. 12, z \in Int :
        /\ DayOf(z, m, 1) = First(12 * z + m) /\ DayOf(z, m + 1, 1) = First(12 * z + m + 1)
        /\ DayOf(z, m + 1, 0) = First(12 * z + m + 1) - 1
        /\ 12 * z + m \in Int /\ First(12 * z + m) \in Int /\ First(12 * z + m + 1) \in Int
  <2> TAKE m \in 1 .. 12, z \in Int
  <2>1. PICK l \in Int, n \in Int : l = m /\ n = 12 * z + l /\ Numbered(z, l, n)
    BY DEF Numbered
  <2>2. /\ DayOf(z, l, 1) = First(n) /\ DayOf(z, l + 1, 1) = First(n + 1)
        /\ DayOf(z, l + 1, 0) = First(n + 1) - 1
        /\ First(n) \in Int /\ First(n + 1) \in Int
    BY <2>1, MonthBounds
  <2> QED BY <2>1, <2>2
<1>4. DayOf(y, 1, 1) = NewYear(y) /\ DayOf(y, 13, 1) = NewYear(y + 1)
  BY NewYears
<1>5. \E m \in 1 .. 12 : DayOf(y, m, 1) <= d /\ d < DayOf(y, m + 1, 1)
  <2>1. PICK S : S = {m \in 1 .. 12 : d < DayOf(y, m + 1, 1)}
    OBVIOUS
  <2>2. 12 \in S
    BY <1>1, <1>4, <2>1
  <2>3. S \in SUBSET (1 .. 12) /\ S # {} /\ 12 \in Int
    BY <2>1, <2>2
  <2>4. PICK m \in S : \A k \in S : m <= k
    BY <2>3, SmallestNumber
  <2>5. m \in 1 .. 12 /\ d < DayOf(y, m + 1, 1)
    BY <2>1
  <2>6. CASE m = 1
    BY <1>1, <1>4, <2>5, <2>6
  <2>7. CASE m # 1
    <3>1. PICK l \in 1 .. 12 : l + 1 = m /\ l < m
      BY <2>5, <2>7
    <3>2. ~(d < DayOf(y, l + 1, 1))
      BY <2>1, <2>4, <3>1
    <3>3. DayOf(y, m, 1) \in Int
      BY <1>3, <2>5
    <3> QED BY <1>2, <2>5, <3>1, <3>2, <3>3
  <2> QED BY <2>6, <2>7
<1>6. PICK m \in 1 .. 12 : DayOf(y, m, 1) <= d /\ d < DayOf(y, m + 1, 1)
  BY <1>5
<1>7. ASSUME NEW k \in 1 .. 12, NEW z \in YearsAround(d),
             DayOf(z, k, 1) <= d, d < DayOf(z, k + 1, 1)
      PROVE  k = m
  <2>1. d \div 366 \in Int /\ d \div 365 \in Int
    BY <1>2
  <2>2. z \in Int
    BY <2>1 DEF YearsAround
  <2>3. PICK p \in Int, n \in Int : p = 12 * z + k /\ n = 12 * y + m
    BY <2>2
  <2>4. /\ DayOf(z, k, 1) = First(p) /\ DayOf(z, k + 1, 1) = First(p + 1)
        /\ DayOf(y, m, 1) = First(n) /\ DayOf(y, m + 1, 1) = First(n + 1)
    BY <1>3, <2>2, <2>3
  <2>5. p = n
    BY <1>2, <1>6, <1>7, <2>4, OneMonth
  <2> QED BY <2>2, <2>3, <2>5
<1>8. MonthOf(d) = m
  <2>1. \E z \in YearsAround(d) : DayOf(z, m, 1) <= d /\ d < DayOf(z, m + 1, 1)
    BY <1>1, <1>6
  <2> QED BY <1>7, <2>1 DEF MonthOf
<1>9. PICK n : n = 12 * y + m
  OBVIOUS
<1>10. n \in Int /\ n = y * 12 + m
  BY <1>9
<1>11. First(n) \in Int /\ First(n + 1) \in Int
  BY <1>3, <1>9
<1>12. /\ DayOf(y, m, 1) = First(n) /\ DayOf(y, m + 1, 1) = First(n + 1)
       /\ DayOf(y, m + 1, 0) = First(n + 1) - 1
  BY <1>3, <1>9
<1>13. StartOfMonth(d) = First(n) /\ EndOfMonth(d) = First(n + 1) - 1 /\ DayOfMonth(d) = d - First(n) + 1
  BY <1>1, <1>8, <1>12 DEF StartOfMonth, EndOfMonth, DayOfMonth
<1>14. MonthNumber(d) = n
  BY <1>1, <1>8, <1>10 DEF MonthNumber
<1> QED BY <1>1, <1>6, <1>8, <1>9, <1>10, <1>11, <1>12, <1>13, <1>14 DEF InMonth

\* A day some months before or after is in the month so many before or after.
LEMMA ShiftedIs ==
  ASSUME NEW d \in Reached, NEW n \in Int, InMonth(d, n), NEW k \in Int,
         First(n + k) \in Reached
  PROVE  /\ First(n + k) \in Int /\ First(n + k + 1) \in Int
         /\ First(n + k) + 28 <= First(n + k + 1)
         /\ ShiftByMonths(d, k) = IF First(n + k) + (d - First(n)) < First(n + k + 1) - 1
                                  THEN First(n + k) + (d - First(n)) ELSE First(n + k + 1) - 1
<1>1. PICK p \in Int : p = n + k
  OBVIOUS
<1>2. First(p) \in Int /\ First(p + 1) \in Int /\ First(p) + 28 <= First(p + 1) /\ p + 1 \in Int
  BY MonthsFollow
<1>3. DayOf(YearOf(d), MonthOf(d) + k, 1) = First(p)
  <2>1. PICK y \in Int, m \in Int : y = YearOf(d) /\ m = MonthOf(d) + k /\ Numbered(y, m, p)
    BY <1>1 DEF InMonth, Numbered
  <2>2. DayOf(y, m, 1) = First(p)
    BY <2>1, MonthBounds
  <2> QED BY <2>1, <2>2
<1>4. EndOfMonth(First(p)) = First(p + 1) - 1
  <2>1. PICK q \in Int : InMonth(First(p), q)
    BY <1>1, MonthFound
  <2>2. p = q
    <3>1. First(q) <= First(p) /\ First(p) < First(q + 1)
      BY <2>1 DEF InMonth
    <3>2. First(p) <= First(p) /\ First(p) < First(p + 1)
      BY <1>2
    <3> QED BY <1>2, <3>1, <3>2, OneMonth
  <2> QED BY <2>1, <2>2 DEF InMonth
<1>5. DayOfMonth(d) = d - First(n) + 1 /\ d \in Int /\ First(n) \in Int
  BY DEF InMonth, Reached
<1>6. First(p) + DayOfMonth(d) - 1 = First(p) + (d - First(n))
  BY <1>2, <1>5
<1> QED BY <1>1, <1>2, <1>3, <1>4, <1>6 DEF ShiftByMonths

\* Days are shifted in order, and to days before them by months before theirs.
LEMMA ShiftsInOrder ==
  ASSUME NEW d \in Reached, NEW e \in Reached, d <= e, d >= -2000
  PROVE  /\ ShiftByMonths(d, -12) \in Int /\ ShiftByMonths(e, -12) \in Int
         /\ ShiftByMonths(d, -12) <= ShiftByMonths(e, -12) /\ ShiftByMonths(e, -12) < e
<1>1. PICK n \in Int : InMonth(d, n)
  BY MonthFound
<1>2. PICK p \in Int : InMonth(e, p)
  BY MonthFound
<1>3. d \in Int /\ e \in Int
  BY DEF Reached
<1>4. \A i \in Int : First(i) \in Int /\ First(i) + 28 <= First(i + 1)
  BY MonthsFollow
<1>5. \A i, j \in Int : i < j => First(i) < First(j)
  BY MonthsGrow
<1>6. PICK n1 \in Int, p1 \in Int, n2 \in Int, p2 \in Int :
        n1 = n + -12 /\ p1 = p + -12 /\ n2 = n + -12 + 1 /\ p2 = p + -12 + 1
  OBVIOUS
<1>7. First(n) - First(n1) \in {365, 366} /\ First(p) - First(p1) \in {365, 366}
  <2>1. n1 + 12 = n /\ p1 + 12 = p
    BY <1>6
  <2> QED BY <2>1, YearsFollow
<1>8. First(n) <= d /\ d < First(n + 1) /\ First(p) <= e /\ e < First(p + 1)
  BY <1>1, <1>2 DEF InMonth
<1>9. n <= p
  <2>1. PICK q \in Int : q = p + 1
    OBVIOUS
  <2>2. ~(First(q) <= First(n))
    <3>1. First(q) \in Int /\ First(n) \in Int /\ e < First(q)
      BY <1>4, <1>8, <2>1
    <3> QED BY <1>3, <1>8, <3>1
  <2>3. ~(q < n) /\ q # n
    <3>1. First(q) \in Int /\ First(n) \in Int
      BY <1>4
    <3> QED BY <1>5, <2>2, <3>1
  <2> QED BY <2>1, <2>3
<1>10. First(n1) \in Reached /\ First(p1) \in Reached
  <2>1. First(n) >= d - 400
    <3>1. First(n + 12) - First(n) \in {365, 366}
      BY YearsFollow
    <3>2. PICK q \in Int, r \in Int : q = n + 1 /\ r = n + 12
      OBVIOUS
    <3>3. First(q) < First(r) /\ First(q) \in Int /\ First(r) \in Int /\ First(n) \in Int
      BY <1>4, <1>5, <3>2
    <3> QED BY <1>3, <1>8, <3>1, <3>2, <3>3
  <2>2. n = p => First(n) = First(p)
    OBVIOUS
  <2>3. First(n) <= First(p) /\ First(n) \in Int /\ First(p) \in Int
    BY <1>4, <1>5, <1>9, <2>2
  <2>4. First(n1) \in Int /\ First(p1) \in Int
    BY <1>4
  <2> QED BY <1>3, <1>7, <2>1, <2>3, <2>4 DEF Reached
<1>11. PICK x, y : x = ShiftByMonths(d, -12) /\ y = ShiftByMonths(e, -12)
  OBVIOUS
<1>12. /\ x = IF First(n1) + (d - First(n)) < First(n2) - 1
              THEN First(n1) + (d - First(n)) ELSE First(n2) - 1
       /\ First(n1) \in Int /\ First(n2) \in Int /\ First(n1) + 28 <= First(n2)
  <2>1. PICK k \in Int : k = -12 /\ n1 = n + k /\ n2 = n + k + 1
    BY <1>6
  <2> QED BY <1>1, <1>10, <1>11, <2>1, ShiftedIs
<1>13. /\ y = IF First(p1) + (e - First(p)) < First(p2) - 1
              THEN First(p1) + (e - First(p)) ELSE First(p2) - 1
       /\ First(p1) \in Int /\ First(p2) \in Int /\ First(p1) + 28 <= First(p2)
  <2>1. PICK k \in Int : k = -12 /\ p1 = p + k /\ p2 = p + k + 1
    BY <1>6
  <2> QED BY <1>2, <1>10, <1>11, <2>1, ShiftedIs
<1>14. First(n) \in Int /\ First(p) \in Int
  BY <1>4
<1>15. x \in Int /\ y \in Int /\ x <= First(n2) - 1 /\ First(p1) <= y /\ y <= First(p2) - 1
  BY <1>3, <1>8, <1>12, <1>13, <1>14
<1>16. First(p2) < First(p)
  <2>1. p2 < p
    BY <1>6
  <2> QED BY <1>5, <2>1
<1>17. CASE n = p
  <2>1. n1 = p1 /\ n2 = p2
    BY <1>6, <1>17
  <2>2. x <= y
    BY <1>3, <1>12, <1>13, <1>14, <1>17, <2>1
  <2> QED BY <1>3, <1>8, <1>11, <1>13, <1>14, <1>15, <1>16, <2>2
<1>18. CASE n < p
  <2>1. n2 < p1 \/ n2 = p1
    BY <1>6, <1>18
  <2>2. First(n2) <= First(p1)
    BY <1>5, <1>12, <1>13, <2>1
  <2> QED BY <1>3, <1>8, <1>11, <1>12, <1>13, <1>14, <1>15, <1>16, <2>2
<1> QED BY <1>9, <1>17, <1>18

LEMMA MonthsOrdered ==
  ASSUME NEW i \in Int, NEW j \in Int
  PROVE  /\ First(i) \in Int /\ First(j) \in Int
         /\ First(i) < First(j) <=> i < j
         /\ First(i) <= First(j) <=> i <= j
<1>1. First(i) \in Int /\ First(j) \in Int
  BY MonthsFollow
<1>2. (i < j => First(i) < First(j)) /\ (j < i => First(j) < First(i))
  BY MonthsGrow
<1>3. i = j => First(i) = First(j)
  OBVIOUS
<1>4. i < j \/ i = j \/ j < i
  OBVIOUS
<1> QED BY <1>1, <1>2, <1>3, <1>4

\* Month s is the first of the fiscal year that day d is in.
FiscalFrom(endMonth, d, s) ==
  /\ s \in Int /\ (s - endMonth - 1) % 12 = 0
  /\ First(s) <= d /\ d < First(s + 12)
  /\ FiscalYearStart(endMonth, d) = First(s)
  /\ FiscalYear(endMonth, d) = [from |-> First(s), to |-> First(s + 12) - 1]

LEMMA FiscalYearFound ==
  ASSUME NEW endMonth \in 1 .. 12, NEW d \in Reached
  PROVE  \E s \in Int : FiscalFrom(endMonth, d, s)
<1>1. PICK n \in Int : InMonth(d, n)
  BY MonthFound
<1>2. PICK y \in Int : y = YearOf(d) /\ 12 * y + 1 <= n /\ n <= 12 * y + 12
  BY <1>1 DEF InMonth
<1>3. PICK m \in Int : m = endMonth + 1
  OBVIOUS
<1>4. PICK q \in Int : q = 12 * y + m
  OBVIOUS
<1>5. d \in Int /\ First(n) <= d /\ d < First(n + 1)
  BY <1>1 DEF InMonth, Reached
<1>6. /\ DayOf(y, m, 0) = First(q) - 1 /\ DayOf(y, m, 1) = First(q) /\ First(q) \in Int
  <2>1. Numbered(y, m, q)
    BY <1>4 DEF Numbered
  <2> QED BY <2>1, MonthBounds
<1>7. CASE d <= First(q) - 1
  <2>1. PICK z \in Int, s \in Int : z = y - 1 /\ s = q - 12
    OBVIOUS
  <2>2. DayOf(z, m, 1) = First(s) /\ First(s) \in Int
    <3>1. Numbered(z, m, s)
      BY <1>4, <2>1 DEF Numbered
    <3> QED BY <3>1, MonthBounds
  <2>3. FiscalEndYear(endMonth, d) = y
    BY <1>2, <1>3, <1>6, <1>7 DEF FiscalEndYear
  <2>4. FiscalYearStart(endMonth, d) = First(s) /\ FiscalYearEnd(endMonth, d) = First(q) - 1
    BY <1>3, <1>6, <2>1, <2>2, <2>3 DEF FiscalYearStart, FiscalYearEnd
  <2>5. s + 12 = q /\ (s - endMonth - 1) % 12 = 0 /\ s <= n
    BY <1>2, <1>3, <1>4, <2>1
  <2>6. First(s) <= First(n) /\ First(n) \in Int
    BY <2>5, MonthsOrdered
  <2>7. First(s) <= d /\ d < First(q)
    BY <1>5, <1>6, <1>7, <2>2, <2>6
  <2> QED BY <2>4, <2>5, <2>7 DEF FiscalFrom, FiscalYear
<1>8. CASE ~(d <= First(q) - 1)
  <2>1. PICK z \in Int, s \in Int : z = y + 1 /\ s = q + 12
    OBVIOUS
  <2>2. DayOf(z, m, 0) = First(s) - 1 /\ First(s) \in Int
    <3>1. Numbered(z, m, s)
      BY <1>4, <2>1 DEF Numbered
    <3> QED BY <3>1, MonthBounds
  <2>3. FiscalEndYear(endMonth, d) = z /\ z - 1 = y
    BY <1>2, <1>3, <1>6, <1>8, <2>1 DEF FiscalEndYear
  <2>4. FiscalYearStart(endMonth, d) = First(q) /\ FiscalYearEnd(endMonth, d) = First(s) - 1
    BY <1>3, <1>6, <2>2, <2>3 DEF FiscalYearStart, FiscalYearEnd
  <2>5. PICK r \in Int : r = n + 1
    OBVIOUS
  <2>6. q + 12 = s /\ (q - endMonth - 1) % 12 = 0 /\ r <= s
    BY <1>2, <1>3, <1>4, <2>1, <2>5
  <2>7. First(r) <= First(s) /\ First(r) \in Int
    BY <2>6, MonthsOrdered
  <2>8. First(q) <= d /\ d < First(s)
    BY <1>5, <1>6, <1>8, <2>2, <2>5, <2>7
  <2> QED BY <2>4, <2>6, <2>8 DEF FiscalFrom, FiscalYear
<1> QED BY <1>7, <1>8

\* What the named periods of a day are, by the numbers of their months: n is the day's
\* month, s the first one of its fiscal year, q the first one of its quarter.
PeriodsBy(endMonth, d, n, s, q) ==
  /\ n \in Int /\ s \in Int /\ q \in Int
  /\ InMonth(d, n) /\ FiscalFrom(endMonth, d, s)
  /\ q \in {s, s + 3, s + 6, s + 9} /\ q <= n /\ n < q + 3
  /\ GetRangeForPeriod("current_month", d, endMonth) = [from |-> First(n), to |-> d]
  /\ GetRangeForPeriod("last_month", d, endMonth) = [from |-> First(n - 1), to |-> First(n) - 1]
  /\ GetRangeForPeriod("year_to_date", d, endMonth) = [from |-> First(s), to |-> d]
  /\ GetRangeForPeriod("last_year", d, endMonth) = [from |-> First(s - 12), to |-> First(s) - 1]
  /\ LastFiscalQuarter(endMonth, d) = [from |-> First(q - 3), to |-> First(q) - 1]
  /\ GetRangeForPeriod("last_quarter", d, endMonth) = LastFiscalQuarter(endMonth, d)

LEMMA PeriodsFound ==
  ASSUME NEW endMonth \in 1 .. 12, NEW d \in Nat
  PROVE  \E n, s, q \in Int : PeriodsBy(endMonth, d, n, s, q)
<1>0. d \in Reached
  BY DEF Reached
<1>1. PICK n \in Int : InMonth(d, n)
  BY <1>0, MonthFound
<1>2. PICK s \in Int : FiscalFrom(endMonth, d, s)
  BY <1>0, FiscalYearFound
<1>3. First(s) \in Int /\ First(s) - 1 \in Reached
  <2>1. PICK t \in Int : t = s + 12
    OBVIOUS
  <2>2. First(t) - First(s) \in {365, 366} /\ First(s) \in Int /\ First(t) \in Int
    BY <2>1, YearsFollow, MonthsFollow
  <2>3. First(s) > d - 367
    <3>1. d < First(t)
      BY <1>2, <2>1 DEF FiscalFrom
    <3> QED BY <2>2, <3>1
  <2> QED BY <2>2, <2>3 DEF Reached
<1>4. MonthNumber(First(s)) = s
  <2>1. First(s) \in Reached
    BY <1>3 DEF Reached
  <2>2. PICK p \in Int : InMonth(First(s), p)
    BY <2>1, MonthFound
  <2>3. First(p) <= First(s) /\ First(s) < First(p + 1)
    BY <2>2 DEF InMonth
  <2>4. First(s) <= First(s) /\ First(s) < First(s + 1)
    BY <1>3, MonthsFollow
  <2>5. p = s
    BY <1>3, <2>3, <2>4, OneMonth
  <2> QED BY <2>2, <2>5 DEF InMonth
<1>5. s <= n /\ n < s + 12
  <2>1. PICK r \in Int, t \in Int : r = n + 1 /\ t = s + 12
    OBVIOUS
  <2>2. First(s) <= d /\ d < First(t) /\ First(n) <= d /\ d < First(r)
    BY <1>1, <1>2, <2>1 DEF FiscalFrom, InMonth
  <2>3. First(n) \in Int /\ First(r) \in Int /\ First(t) \in Int
    BY MonthsFollow
  <2>4. First(s) < First(r) /\ First(n) < First(t)
    BY <1>3, <2>2, <2>3
  <2>5. s < r /\ n < t
    BY <2>4, MonthsOrdered
  <2> QED BY <2>1, <2>5
<1>6. PICK q : q = QuarterMonth(s, n)
  OBVIOUS
<1>7. q \in Int /\ q \in {s, s + 3, s + 6, s + 9} /\ q <= n /\ n < q + 3
  <2>1. PICK k : k = n - s
    OBVIOUS
  <2>2. k \in 0 .. 11 /\ n = s + k
    BY <1>5, <2>1
  <2>3. k \div 3 \in 0 .. 3 /\ 3 * (k \div 3) <= k /\ k < 3 * (k \div 3) + 3
    BY <2>2
  <2>4. q = s + 3 * (k \div 3)
    BY <1>6, <2>1 DEF QuarterMonth
  <2> QED BY <2>2, <2>3, <2>4
<1>8. GetRangeForPeriod("current_month", d, endMonth) = [from |-> First(n), to |-> d]
  BY <1>1 DEF InMonth, GetRangeForPeriod
<1>9. GetRangeForPeriod("last_month", d, endMonth) = [from |-> First(n - 1), to |-> First(n) - 1]
  <2>1. PICK y \in Int, m \in Int, l \in Int, p \in Int :
          y = YearOf(d) /\ m = MonthOf(d) /\ l = m - 1 /\ p = n - 1 /\ n = 12 * y + m
    BY <1>1 DEF InMonth
  <2>2. Numbered(y, m, n) /\ Numbered(y, l, p)
    BY <2>1 DEF Numbered
  <2>3. DayOf(y, m, 0) = First(n) - 1 /\ DayOf(y, l, 1) = First(p)
    BY <2>2, MonthBounds
  <2> QED BY <2>1, <2>3 DEF LastMonth, GetRangeForPeriod
<1>10. GetRangeForPeriod("year_to_date", d, endMonth) = [from |-> First(s), to |-> d]
  BY <1>2 DEF FiscalFrom, GetRangeForPeriod
<1>11. GetRangeForPeriod("last_year", d, endMonth) = [from |-> First(s - 12), to |-> First(s) - 1]
  <2>1. PICK e : e = First(s) - 1
    OBVIOUS
  <2>2. PICK p \in Int : FiscalFrom(endMonth, e, p)
    BY <1>3, <2>1, FiscalYearFound
  <2>3. PICK t \in Int : t = p + 12
    OBVIOUS
  <2>4. First(p) < First(s) /\ First(s) <= First(t)
    <3>1. First(p) <= e /\ e < First(t)
      BY <2>2, <2>3 DEF FiscalFrom
    <3>2. First(p) \in Int /\ First(t) \in Int
      BY MonthsFollow
    <3> QED BY <1>3, <2>1, <3>1, <3>2
  <2>5. p < s /\ s <= t
    BY <2>4, MonthsOrdered
  <2>6. p = s - 12
    <3>1. (s - endMonth - 1) % 12 = 0 /\ (p - endMonth - 1) % 12 = 0
      BY <1>2, <2>2 DEF FiscalFrom
    <3> QED BY <2>3, <2>5, <3>1
  <2>7. FiscalYear(endMonth, e) = [from |-> First(p), to |-> First(t) - 1]
    BY <2>2, <2>3 DEF FiscalFrom
  <2>8. LastFiscalYear(endMonth, d) = FiscalYear(endMonth, e)
    BY <1>2, <2>1 DEF LastFiscalYear, FiscalFrom
  <2>9. t = s
    BY <2>3, <2>6
  <2> QED BY <2>6, <2>7, <2>8, <2>9 DEF GetRangeForPeriod
<1>12. LastFiscalQuarter(endMonth, d) = [from |-> First(q - 3), to |-> First(q) - 1]
  <2>1. LastFiscalQuarter(endMonth, d) = QuarterBefore(q)
    BY <1>1, <1>2, <1>4, <1>6 DEF LastFiscalQuarter, FiscalFrom, InMonth
  <2>2. PICK l \in Int : l = 0
    OBVIOUS
  <2>3. Numbered(l, q, q)
    BY <1>7, <2>2 DEF Numbered
  <2>4. DayOf(l, q, 0) = First(q) - 1
    BY <1>7, <2>3, MonthBounds
  <2> QED BY <2>1, <2>2, <2>4 DEF QuarterBefore, First
<1>13. GetRangeForPeriod("last_quarter", d, endMonth) = LastFiscalQuarter(endMonth, d)
  BY DEF GetRangeForPeriod
<1> QED BY <1>1, <1>2, <1>7, <1>8, <1>9, <1>10, <1>11, <1>12, <1>13 DEF PeriodsBy

\* The bounds of the named periods: in order, not after the day and two years back at most.
Bounded(p, d) ==
  /\ p = [from |-> p.from, to |-> p.to] /\ p.from \in Int /\ p.to \in Int
  /\ d - 800 <= p.from /\ p.from <= p.to /\ p.to <= d

LEMMA MonthRange ==
  ASSUME NEW i \in Int, NEW j \in Int, NEW d \in Int, i < j, First(j) <= d, d - 800 <= First(i),
         NEW p, p = [from |-> First(i), to |-> First(j) - 1]
  PROVE  Bounded(p, d) /\ p.from = First(i) /\ p.to = First(j) - 1 /\ p.to < d
<1>1. First(i) \in Int /\ First(j) \in Int /\ First(i) < First(j)
  BY MonthsOrdered
<1>2. First(i) <= First(j) - 1
  BY <1>1
<1> QED BY <1>1, <1>2 DEF Bounded

\* How far back the months of the named periods begin.
LEMMA MonthsNear ==
  ASSUME NEW d \in Nat, NEW endMonth \in 1 .. 12, NEW n, NEW s, NEW q,
         PeriodsBy(endMonth, d, n, s, q)
  PROVE  /\ d - 366 <= First(s) /\ First(s) <= d /\ First(s) \in Int
         /\ d - 800 <= First(s - 12) /\ First(q) <= d
         /\ First(n) <= d /\ s <= n /\ d - 800 <= First(n - 1) /\ d - 800 <= First(q - 3)
<1>1. PICK t \in Int, u \in Int, m \in Int, p \in Int :
        t = s + 12 /\ u = s - 12 /\ m = n - 1 /\ p = q - 3 /\ t = s + 12 /\ s = u + 12
  BY DEF PeriodsBy
<1>2. s \in Int /\ n \in Int /\ q \in Int /\ q <= n /\ s <= q
  BY DEF PeriodsBy
<1>3. First(t) - First(s) \in {365, 366} /\ First(s) - First(u) \in {365, 366}
  BY <1>1, <1>2, YearsFollow
<1>4. First(s) \in Int /\ First(t) \in Int /\ First(u) \in Int
  BY <1>1, <1>2, MonthsFollow
<1>5. First(s) <= d /\ d < First(t) /\ First(n) <= d
  BY <1>1 DEF PeriodsBy, FiscalFrom, InMonth
<1>6. First(q) <= First(n) /\ First(u) <= First(m) /\ First(u) <= First(p)
  <2>1. u <= m /\ u <= p
    BY <1>1, <1>2
  <2> QED BY <1>1, <1>2, <2>1, MonthsOrdered
<1>7. /\ First(n) \in Int /\ First(m) \in Int /\ First(p) \in Int /\ First(q) \in Int
  BY <1>1, <1>2, MonthsFollow
<1>8. d - 366 <= First(s) /\ d - 800 <= First(u)
  BY <1>3, <1>4, <1>5
<1>9. d - 800 <= First(m) /\ d - 800 <= First(p) /\ First(q) <= d
  BY <1>4, <1>5, <1>6, <1>7, <1>8
<1> QED BY <1>1, <1>2, <1>4, <1>5, <1>8, <1>9

LEMMA PeriodsBounded ==
  ASSUME NEW endMonth \in 1 .. 12, NEW d \in Nat, NEW mode \in RangePeriods
  PROVE  Bounded(GetRangeForPeriod(mode, d, endMonth), d)
<1>1. PICK n \in Int, s \in Int, q \in Int : PeriodsBy(endMonth, d, n, s, q)
  BY PeriodsFound
<1>2. /\ d - 366 <= First(s) /\ First(s) <= d /\ First(s) \in Int
      /\ d - 800 <= First(s - 12) /\ First(q) <= d
      /\ First(n) <= d /\ s <= n /\ d - 800 <= First(n - 1) /\ d - 800 <= First(q - 3)
  BY <1>1, MonthsNear
<1>3. PICK u \in Int, m \in Int, p \in Int : u = s - 12 /\ m = n - 1 /\ p = q - 3
  OBVIOUS
<1>4. u < s /\ m < n /\ p < q
  BY <1>3
<1>5. PICK r : r = GetRangeForPeriod(mode, d, endMonth)
  OBVIOUS
<1>6. CASE mode = "current_month"
  <2>1. r = [from |-> First(n), to |-> d]
    BY <1>1, <1>5, <1>6 DEF PeriodsBy
  <2>2. First(s) <= First(n) /\ First(n) \in Int
    BY <1>2, MonthsOrdered
  <2> QED BY <1>2, <1>5, <2>1, <2>2 DEF Bounded
<1>7. CASE mode = "year_to_date"
  <2>1. r = [from |-> First(s), to |-> d]
    BY <1>1, <1>5, <1>7 DEF PeriodsBy
  <2> QED BY <1>2, <1>5, <2>1 DEF Bounded
<1>8. CASE mode = "last_month"
  <2>1. r = [from |-> First(m), to |-> First(n) - 1]
    BY <1>1, <1>3, <1>5, <1>8 DEF PeriodsBy
  <2> QED BY <1>2, <1>3, <1>4, <1>5, <2>1, MonthRange
<1>9. CASE mode = "last_year"
  <2>1. r = [from |-> First(u), to |-> First(s) - 1]
    BY <1>1, <1>3, <1>5, <1>9 DEF PeriodsBy
  <2> QED BY <1>2, <1>3, <1>4, <1>5, <2>1, MonthRange
<1>10. CASE mode = "last_quarter"
  <2>1. r = [from |-> First(p), to |-> First(q) - 1]
    BY <1>1, <1>3, <1>5, <1>10 DEF PeriodsBy
  <2> QED BY <1>2, <1>3, <1>4, <1>5, <2>1, MonthRange
<1> QED BY <1>6, <1>7, <1>8, <1>9, <1>10 DEF RangePeriods

\* What a period is compared with comes before it.
LEMMA ComparedBefore ==
  ASSUME NEW d \in Nat, NEW p, Bounded(p, d), NEW against \in {"previous_period", "previous_year"},
         NEW other, other = GetCompareRange(against, p)
  PROVE  /\ other.from <= other.to /\ other.to < p.to
         /\ against = "previous_period" =>
              other.to = p.from - 1 /\ other.to - other.from = p.to - p.from
<1>1. /\ p.from \in Int /\ p.to \in Int /\ d - 800 <= p.from /\ p.from <= p.to
  BY DEF Bounded
<1>2. CASE against = "previous_period"
  <2>1. other = [from |-> p.from - 1 - (p.to - p.from), to |-> p.from - 1]
    BY <1>2 DEF GetCompareRange
  <2> QED BY <1>1, <2>1
<1>3. CASE against = "previous_year"
  <2>1. other = [from |-> ShiftByMonths(p.from, -12), to |-> ShiftByMonths(p.to, -12)]
    BY <1>3 DEF GetCompareRange
  <2>2. PICK x, y : x = p.from /\ y = p.to
    OBVIOUS
  <2>3. x \in Reached /\ y \in Reached /\ x <= y /\ x >= -2000
    BY <1>1, <2>2 DEF Reached
  <2>4. ShiftByMonths(x, -12) <= ShiftByMonths(y, -12) /\ ShiftByMonths(y, -12) < y
    BY <2>3, ShiftsInOrder
  <2> QED BY <1>3, <2>1, <2>2, <2>4
<1> QED BY <1>2, <1>3

LEMMA FirstInMonth ==
  ASSUME NEW i \in Int, First(i) \in Reached
  PROVE  InMonth(First(i), i)
<1>1. PICK p \in Int : InMonth(First(i), p)
  BY MonthFound
<1>2. First(p) <= First(i) /\ First(i) < First(p + 1)
  BY <1>1 DEF InMonth
<1>3. First(i) \in Int /\ First(i) <= First(i) /\ First(i) < First(i + 1)
  BY MonthsFollow
<1>4. p = i
  BY <1>2, <1>3, OneMonth
<1> QED BY <1>1, <1>4

\* The first day of a month is shifted to the first day of another one.
LEMMA FirstShifted ==
  ASSUME NEW i \in Int, NEW k \in Int, NEW j \in Int, j = i + k,
         First(i) \in Reached, First(j) \in Reached
  PROVE  ShiftByMonths(First(i), k) = First(j) /\ EndOfMonth(First(j)) = First(j + 1) - 1
<1>1. PICK d : d = First(i)
  OBVIOUS
<1>2. InMonth(d, i) /\ d \in Reached
  BY <1>1, FirstInMonth
<1>3. /\ First(i + k) \in Int /\ First(i + k + 1) \in Int
      /\ First(i + k) + 28 <= First(i + k + 1)
      /\ ShiftByMonths(d, k) = IF First(i + k) + (d - First(i)) < First(i + k + 1) - 1
                               THEN First(i + k) + (d - First(i)) ELSE First(i + k + 1) - 1
  BY <1>2, ShiftedIs
<1>4. d - First(i) = 0
  BY <1>1, <1>2 DEF Reached
<1>5. ShiftByMonths(d, k) = First(i + k)
  BY <1>3, <1>4
<1>6. EndOfMonth(First(j)) = First(j + 1) - 1
  BY FirstInMonth DEF InMonth
<1> QED BY <1>1, <1>5, <1>6

\* report-periods.ts, fiscal-year.ts and compare-period.ts on any day and for any month
\* that a fiscal year ends with.
LEMMA PeriodsFit ==
  ASSUME NEW day \in Nat, NEW endMonth \in 1 .. 12,
         NEW period, period = [mode \in RangePeriods |-> GetRangeForPeriod(mode, day, endMonth)],
         NEW year, year = FiscalYear(endMonth, day),
         NEW quarter, quarter = LastFiscalQuarter(endMonth, day)
  PROVE  Fit(day, period, year, quarter)
<1>1. PICK n \in Int, s \in Int, q \in Int : PeriodsBy(endMonth, day, n, s, q)
  BY PeriodsFound
<1>2. /\ day - 366 <= First(s) /\ First(s) <= day /\ First(s) \in Int
      /\ day - 800 <= First(s - 12) /\ First(q) <= day
      /\ First(n) <= day /\ s <= n /\ day - 800 <= First(n - 1) /\ day - 800 <= First(q - 3)
  BY <1>1, MonthsNear
<1>3. PICK t \in Int, p \in Int, f \in Int, g \in Int : t = s + 12 /\ p = q - 3 /\ f = q + 2 /\ g = q + 3
  OBVIOUS
<1>4. /\ First(t) \in Int /\ First(p) \in Int /\ First(q) \in Int /\ First(f) \in Int
      /\ First(g) \in Int /\ First(n) \in Int
  BY MonthsFollow
<1>5. /\ q \in {s, s + 3, s + 6, s + 9} /\ q <= n /\ n < g
      /\ InMonth(day, n) /\ day < First(t)
      /\ year = [from |-> First(s), to |-> First(t) - 1]
      /\ quarter = [from |-> First(p), to |-> First(q) - 1]
  BY <1>1, <1>3 DEF PeriodsBy, FiscalFrom
<1>6. year.from <= day /\ day <= year.to /\ year.to - year.from \in {364, 365}
  <2>1. First(t) - First(s) \in {365, 366}
    BY <1>3, YearsFollow
  <2> QED BY <1>2, <1>4, <1>5, <2>1
<1>7. /\ period["last_year"].to = period["year_to_date"].from - 1
      /\ period["last_month"].to = period["current_month"].from - 1
  BY <1>1 DEF PeriodsBy, RangePeriods
<1>8. First(s) <= First(q) /\ First(q) < First(f) /\ First(p) < First(q) /\ First(n + 1) <= First(g)
  <2>1. s <= q /\ q < f /\ p < q /\ n + 1 <= g /\ n + 1 \in Int
    BY <1>3, <1>5
  <2> QED BY <2>1, MonthsOrdered
<1>9. quarter.to < day /\ day <= EndOfMonth(ShiftByMonths(quarter.to + 1, 2))
  <2>1. First(q) \in Reached /\ First(f) \in Reached
    BY <1>2, <1>4, <1>8 DEF Reached
  <2>2. PICK k \in Int : k = 2
    OBVIOUS
  <2>3. ShiftByMonths(First(q), k) = First(f) /\ EndOfMonth(First(f)) = First(f + 1) - 1
    BY <1>3, <2>1, <2>2, FirstShifted
  <2>4. quarter.to + 1 = First(q) /\ quarter.to < day
    BY <1>2, <1>4, <1>5
  <2>5. EndOfMonth(ShiftByMonths(quarter.to + 1, 2)) = First(g) - 1
    <3>1. f + 1 = g
      BY <1>3
    <3> QED BY <2>2, <2>3, <2>4, <3>1
  <2>6. day < First(n + 1) /\ First(n + 1) \in Int
    BY <1>5 DEF InMonth
  <2> QED BY <1>4, <1>8, <2>4, <2>5, <2>6
<1>10. \E k \in -1 .. 2 : ShiftByMonths(year.from, 3 * k) = quarter.from
  <2>1. PICK k \in -1 .. 2 : p = s + 3 * k
    <3>1. CASE q = s
      BY <1>3, <3>1
    <3>2. CASE q = s + 3
      BY <1>3, <3>2
    <3>3. CASE q = s + 6
      BY <1>3, <3>3
    <3>4. CASE q = s + 9
      BY <1>3, <3>4
    <3> QED BY <1>5, <3>1, <3>2, <3>3, <3>4
  <2>2. First(s) \in Reached /\ First(p) \in Reached
    BY <1>2, <1>3, <1>4 DEF Reached
  <2>3. PICK l \in Int : l = 3 * k
    BY <2>1
  <2>4. ShiftByMonths(First(s), l) = First(p)
    BY <2>1, <2>2, <2>3, FirstShifted
  <2> QED BY <1>5, <2>3, <2>4
<1>11. ASSUME NEW mode \in RangePeriods
       PROVE  /\ period[mode].from <= period[mode].to /\ period[mode].to <= day
              /\ \A against \in {"previous_period", "previous_year"} :
                   LET other == GetCompareRange(against, period[mode])
                   IN  /\ other.from <= other.to /\ other.to < period[mode].to
                       /\ against = "previous_period" =>
                            /\ other.to = period[mode].from - 1
                            /\ other.to - other.from = period[mode].to - period[mode].from
  <2>1. PICK r : r = period[mode]
    OBVIOUS
  <2>2. Bounded(r, day)
    BY <2>1, PeriodsBounded
  <2>3. ASSUME NEW against \in {"previous_period", "previous_year"},
               NEW other, other = GetCompareRange(against, r)
        PROVE  /\ other.from <= other.to /\ other.to < r.to
               /\ against = "previous_period" =>
                    other.to = r.from - 1 /\ other.to - other.from = r.to - r.from
    BY <2>2, <2>3, ComparedBefore
  <2>4. r.from <= r.to /\ r.to <= day
    BY <2>2 DEF Bounded
  <2> QED BY <2>1, <2>3, <2>4
<1> QED BY <1>6, <1>7, <1>9, <1>10, <1>11 DEF Fit
-----------------------------------------------------------------------------
(* The tabs of the windows and the periods of their reports *)

Instance == Created \cup {"own", "default"}

\* What an address may hold: a report's period that is a known one and in order, nothing else's.
Address ==
  [type : PageType \cup {"workspace", "nowhere"}, instance : Instance,
   period : RangePeriods \cup {"none", "custom"}, from : Int, to : Int]

PeriodOK(type, p) ==
  /\ p.from \in Int /\ p.to \in Int
  /\ type \in RangeType => (p.from = NoDay <=> p.to = NoDay) /\ p.from <= p.to
  /\ type \in AsOfType => p.from = NoDay /\ p.period # "current_month"

AddressOK(href) ==
  /\ href \in Address /\ PeriodOK(href.type, href)
  /\ href.type \notin CanDuplicate => href.from = NoDay

\* What the controls of a report and the period saved for it hold.
Controls == [period : RangePeriods \cup {"custom"}, from : Int, to : Int, day : Int]

FormOK(type, form) ==
  form \in Controls /\ PeriodOK(type, form) /\ (type \in RangeType => form.from # NoDay)

\* Tabs of known pages, no two the same, and the active one among them.
TabsOK(tabs, active) ==
  /\ tabs \in Seq(Address) /\ active \in {NoTab} \cup Ids(tabs)
  /\ \A i \in DOMAIN tabs : AddressOK(tabs[i]) /\ tabs[i].type \in PageType
  /\ \A i, j \in DOMAIN tabs : TabId(tabs[i]) = TabId(tabs[j]) => i = j

ControlsOK(type, form) ==
  IF type \in CanDuplicate THEN FormOK(type, form) /\ form.day \in Day ELSE form = NoForm

WindowOK(win) ==
  /\ win = [url |-> win.url, next |-> win.next, tabs |-> win.tabs, active |-> win.active, form |-> win.form]
  /\ AddressOK(win.url) /\ AddressOK(win.next) /\ TabsOK(win.tabs, win.active)
  /\ ControlsOK(win.url.type, win.form)

WindowsOK == DOMAIN windows = Window /\ \A w \in Window : WindowOK(windows[w])

StorageOK == storage = [tabs |-> storage.tabs, active |-> storage.active] /\ TabsOK(storage.tabs, storage.active)

SavedOK ==
  /\ DOMAIN saved = (PageType \cap CanDuplicate) \X Instance
  /\ \A key \in DOMAIN saved : saved[key] = NoForm \/ FormOK(key[1], saved[key])

NowOK == now \in Day

TabsInv == NowOK /\ WindowsOK /\ StorageOK /\ SavedOK

\* What a report may be shown for.
PeriodFor(type, p) ==
  /\ p.from \in Int /\ p.to \in Int
  /\ type \in RangeType => p.from # NoDay /\ p.to # NoDay /\ p.from <= p.to
  /\ type \in AsOfType => p.from = NoDay

LEMMA DayFacts ==
  ASSUME NEW day \in Day
  PROVE  day \in Nat /\ day > 1000 /\ EndMonth \in 1 .. 12
BY ReportTabsAssumption

LEMMA ReportTypes ==
  /\ CanDuplicate = {"balance-sheet", "income-statement", "trial-balance", "general-ledger"}
  /\ \A type \in CanDuplicate : type \in AsOfType <=> type \notin RangeType
  /\ "workspace" \notin CanDuplicate \cup PageType /\ "nowhere" \notin CanDuplicate \cup PageType
  /\ "none" \notin PageType
BY ReportTabsAssumption DEF CanDuplicate, AsOfType, RangeType, PlainType

LEMMA NamedPeriod ==
  ASSUME NEW type \in CanDuplicate, NEW day \in Day, NEW mode \in RangePeriods,
         type \in AsOfType => mode # "current_month",
         NEW p, p = PeriodOf(type, mode, day)
  PROVE  PeriodFor(type, p) /\ p = [from |-> p.from, to |-> p.to]
<1>1. day \in Nat /\ day > 1000 /\ EndMonth \in 1 .. 12
  BY DayFacts
<1>2. PICK r : r = GetRangeForPeriod(mode, day, EndMonth)
  OBVIOUS
<1>3. Bounded(r, day)
  BY <1>1, <1>2, PeriodsBounded
<1>4. CASE type \in AsOfType
  <2>1. p = [from |-> NoDay, to |-> r.to]
    BY <1>2, <1>4 DEF PeriodOf, EndOn, AsOfPeriods, GetAsOfForPeriod
  <2> QED BY <1>3, <1>4, <2>1, ReportTypes DEF PeriodFor, Bounded, NoDay
<1>5. CASE type \notin AsOfType
  <2>1. p = r
    BY <1>2, <1>5 DEF PeriodOf, PeriodOn
  <2>2. r.from > 0 /\ r.to > 0 /\ r.from \in Int /\ r.to \in Int
    BY <1>1, <1>3 DEF Bounded
  <2> QED BY <1>3, <1>5, <2>1, <2>2 DEF PeriodFor, Bounded, NoDay
<1> QED BY <1>4, <1>5

LEMMA MonthEnds ==
  ASSUME NEW day \in Day
  PROVE  /\ EndOfMonth(day) \in Int
         /\ DayOf(YearOf(day), 1, 1) \in Int /\ DayOf(YearOf(day), 1, 1) <= day
         /\ DayOf(YearOf(day), 1, 1) > 0
<1>1. day \in Nat /\ day > 1000 /\ day \in Reached
  BY DayFacts DEF Reached
<1>2. PICK n \in Int : InMonth(day, n)
  BY <1>1, MonthFound
<1>3. PICK y \in Int, m \in Int, l \in Int, p \in Int :
        /\ y = YearOf(day) /\ m = MonthOf(day) /\ n = 12 * y + m /\ m >= 1 /\ m <= 12
        /\ l = m + 1 /\ p = n + 1
  BY <1>2 DEF InMonth
<1>4. Numbered(y, l, p)
  BY <1>3 DEF Numbered
<1>5. DayOf(y, l, 0) = First(p) - 1 /\ First(p) \in Int
  BY <1>4, MonthBounds
<1>6. PICK s \in Int, t \in Int, k \in Int : k = 1 /\ s = 12 * y + k /\ t = s + 12
  OBVIOUS
<1>7. Numbered(y, k, s)
  BY <1>6 DEF Numbered
<1>8. DayOf(y, k, 1) = First(s) /\ First(s) \in Int
  BY <1>7, MonthBounds
<1>9. First(t) - First(s) \in {365, 366} /\ First(t) \in Int /\ First(n) \in Int
  BY <1>6, YearsFollow, MonthsFollow
<1>10. First(s) <= First(n) /\ First(p) <= First(t)
  <2>1. s <= n /\ p <= t
    BY <1>3, <1>6
  <2> QED BY <2>1, MonthsOrdered
<1>11. First(n) <= day /\ day < First(p)
  BY <1>2, <1>3 DEF InMonth
<1>12. First(s) <= day /\ First(s) > 0
  BY <1>1, <1>5, <1>8, <1>9, <1>10, <1>11
<1> QED BY <1>3, <1>5, <1>6, <1>8, <1>12 DEF EndOfMonth

LEMMA DefaultPeriod ==
  ASSUME NEW type \in CanDuplicate, NEW day \in Day, NEW p, p = PageDefault[day][type]
  PROVE  PeriodFor(type, p)
<1>1. day \in Nat /\ day > 1000 /\ EndMonth \in 1 .. 12
  BY DayFacts
<1>2. CASE type = "income-statement"
  <2>1. PICK mode \in RangePeriods : mode = "last_month"
    BY DEF RangePeriods
  <2>2. p = LastMonth(day)
    BY <1>2 DEF PageDefault, LastMonthDefault
  <2>3. PeriodOf(type, mode, day) = p
    BY <1>2, <2>1, <2>2, ReportTypes DEF PeriodOf, PeriodOn, GetRangeForPeriod, AsOfType
  <2>4. type \notin AsOfType
    BY <1>2 DEF AsOfType
  <2> QED BY <2>3, <2>4, NamedPeriod
<1>3. CASE type = "balance-sheet"
  <2>1. p = [from |-> NoDay, to |-> EndOfMonth(day)]
    BY <1>3 DEF PageDefault, EndOfMonthDefault
  <2> QED BY <1>3, <2>1, MonthEnds DEF PeriodFor, RangeType, NoDay
<1>4. CASE type \notin {"income-statement", "balance-sheet"}
  <2>1. p = [from |-> DayOf(YearOf(day), 1, 1), to |-> day]
    BY <1>4 DEF PageDefault, YearToDateDefault
  <2> QED BY <1>1, <1>4, <2>1, MonthEnds DEF PeriodFor, AsOfType, NoDay
<1> QED BY <1>2, <1>3, <1>4

LEMMA OptionsKnown ==
  ASSUME NEW type \in CanDuplicate, NEW i \in DOMAIN Options(type)
  PROVE  /\ Options(type)[i] \in RangePeriods
         /\ type \in AsOfType => Options(type)[i] # "current_month"
         /\ DOMAIN Options(type) \in SUBSET (1 .. 5)
<1>1. CASE type \in AsOfType
  BY <1>1 DEF Options, RangePeriods
<1>2. CASE type \notin AsOfType
  BY <1>2 DEF Options, RangePeriods
<1> QED BY <1>1, <1>2

LEMMA InferredKnown ==
  ASSUME NEW type \in CanDuplicate, NEW period, NEW day, NEW mode,
         mode = InferPeriodMode(type, period, day)
  PROVE  mode = "custom" \/ (mode \in RangePeriods /\ (type \in AsOfType => mode # "current_month"))
<1> DEFINE matching == {i \in DOMAIN Options(type) : PeriodOf(type, Options(type)[i], day) = period}
<1>1. CASE matching = {}
  BY <1>1 DEF InferPeriodMode
<1>2. CASE matching # {}
  <2>1. PICK n \in Int : n = 5
    OBVIOUS
  <2>2. matching \in SUBSET (1 .. n)
    BY <2>1, OptionsKnown
  <2>3. \E i \in matching : \A j \in matching : i <= j
    <3> HIDE DEF matching
    <3> QED BY <1>2, <2>2, SmallestNumber
  <2>4. PICK i : i = CHOOSE k \in matching : \A j \in matching : k <= j
    OBVIOUS
  <2>5. i \in matching
    <3> HIDE DEF matching
    <3> QED BY <2>3, <2>4
  <2>6. mode = Options(type)[i]
    BY <1>2, <2>4 DEF InferPeriodMode
  <2> QED BY <2>5, <2>6, OptionsKnown
<1> QED BY <1>1, <1>2

\* The controls of a report begin with a period in order, whatever its address says.
LEMMA FormStarts ==
  ASSUME NowOK, NEW href, AddressOK(href), href.type \in CanDuplicate, NEW day \in Day,
         NEW form, form = Form(href, day)
  PROVE  FormOK(href.type, form) /\ form.day = day
<1> DEFINE shown == Shown(href)
           mode  == IF href.period # "none" THEN href.period ELSE InferPeriodMode(href.type, shown, day)
           period == IF mode = "custom" THEN shown ELSE PeriodOf(href.type, mode, day)
<1>1. PICK type \in CanDuplicate : type = href.type
  OBVIOUS
<1>2. /\ href.from \in Int /\ href.to \in Int /\ href.period \in RangePeriods \cup {"none", "custom"}
      /\ type \in RangeType => (href.from = NoDay <=> href.to = NoDay) /\ href.from <= href.to
      /\ type \in AsOfType => href.from = NoDay /\ href.period # "current_month"
  BY <1>1 DEF AddressOK, PeriodOK, Address
<1>3. PeriodFor(type, shown) /\ shown = [from |-> shown.from, to |-> shown.to]
  <2>1. PICK default : default = PageDefault[now][type]
    OBVIOUS
  <2>2. PeriodFor(type, default)
    BY <2>1, DefaultPeriod DEF NowOK
  <2>3. /\ shown.from = IF href.from = NoDay THEN default.from ELSE href.from
        /\ shown.to = IF href.to = NoDay THEN default.to ELSE href.to
        /\ shown = [from |-> shown.from, to |-> shown.to]
    BY <1>1, <2>1 DEF Shown
  <2> HIDE DEF shown
  <2>4. CASE type \in RangeType
    <3>1. CASE href.from = NoDay
      BY <1>2, <2>2, <2>3, <2>4, <3>1, ReportTypes DEF PeriodFor
    <3>2. CASE href.from # NoDay
      BY <1>2, <2>2, <2>3, <2>4, <3>2, ReportTypes DEF PeriodFor
    <3> QED BY <3>1, <3>2
  <2>5. CASE type \notin RangeType
    BY <1>2, <2>2, <2>3, <2>5, ReportTypes DEF PeriodFor
  <2> QED BY <2>4, <2>5
<1>4. mode = "custom" \/ (mode \in RangePeriods /\ (type \in AsOfType => mode # "current_month"))
  <2>1. CASE href.period # "none"
    BY <1>2, <2>1
  <2>2. CASE href.period = "none"
    <3>1. mode = InferPeriodMode(type, shown, day)
      BY <1>1, <2>2
    <3> HIDE DEF mode, shown
    <3> QED BY <3>1, InferredKnown
  <2> QED BY <2>1, <2>2
<1>5. PeriodFor(type, period) /\ period = [from |-> period.from, to |-> period.to]
  <2>1. CASE mode = "custom"
    BY <1>3, <2>1
  <2>2. CASE mode # "custom"
    <3>1. period = PeriodOf(type, mode, day)
      BY <1>1, <2>2
    <3>2. mode \in RangePeriods /\ (type \in AsOfType => mode # "current_month")
      BY <1>4, <2>2
    <3> HIDE DEF period, mode
    <3> QED BY <3>1, <3>2, NamedPeriod
  <2> QED BY <2>1, <2>2
<1>6. form = [period |-> mode, from |-> period.from, to |-> period.to, day |-> day]
  BY DEF Form
<1> HIDE DEF period, mode, shown
<1>7. day \in Int
  BY DayFacts
<1>8. form \in Controls
  BY <1>4, <1>5, <1>6, <1>7 DEF Controls, PeriodFor
<1>9. PeriodOK(type, form)
  BY <1>4, <1>5, <1>6 DEF PeriodOK, PeriodFor
<1> QED BY <1>1, <1>5, <1>6, <1>8, <1>9 DEF FormOK, PeriodFor

\* A tab that is opened anew has its type, its instance and a period in order.
LEMMA BuiltInOrder ==
  ASSUME NowOK, NEW type \in PageType, NEW instance \in Instance,
         NEW href, href = BuildTabHref(type, instance)
  PROVE  /\ AddressOK(href) /\ href.type = type
         /\ href.instance = IF type \in CanDuplicate THEN instance ELSE "default"
<1>1. CASE type \notin CanDuplicate
  <2>1. href = [type |-> type, instance |-> "default", period |-> "none", from |-> NoDay, to |-> NoDay]
    BY <1>1 DEF BuildTabHref, Bare
  <2> QED BY <1>1, <2>1 DEF AddressOK, PeriodOK, Address, Instance, NoDay
<1>2. CASE type \in CanDuplicate
  <2>1. PICK mode \in RangePeriods : mode = "last_month"
    BY DEF RangePeriods
  <2>2. PICK p : p = PeriodOf(type, mode, now)
    OBVIOUS
  <2>3. PeriodFor(type, p)
    BY <1>2, <2>1, <2>2, NamedPeriod DEF NowOK
  <2>4. href = [type |-> type, instance |-> instance, period |-> "none", from |-> p.from, to |-> p.to]
    BY <1>2, <2>1, <2>2 DEF BuildTabHref, Bare
  <2>5. href \in Address
    BY <2>3, <2>4 DEF PeriodFor, Address
  <2>6. PeriodOK(type, href)
    BY <1>2, <2>3, <2>4, ReportTypes DEF PeriodFor, PeriodOK
  <2> QED BY <1>2, <2>4, <2>5, <2>6 DEF AddressOK
<1> QED BY <1>1, <1>2

LEMMA BareOK ==
  ASSUME NEW type \in PageType \cup {"workspace", "nowhere"}, NEW instance \in Instance,
         NEW href, href = Bare(type, instance)
  PROVE  AddressOK(href) /\ href.type = type /\ href.instance = instance
BY DEF Bare, AddressOK, PeriodOK, Address, NoDay

LEMMA FixedAddresses ==
  /\ AddressOK(Workspace) /\ Workspace.type = "workspace"
  /\ AddressOK(Nowhere) /\ Nowhere.type = "nowhere"
BY BareOK DEF Workspace, Nowhere, Instance

LEMMA AppliedOK ==
  ASSUME NEW href, AddressOK(href), href.type \in CanDuplicate, NEW form, FormOK(href.type, form),
         NEW h, h = Applied(href, form)
  PROVE  AddressOK(h) /\ h.type = href.type /\ h.instance = href.instance
<1>1. href \in Address /\ form \in Controls
  BY DEF AddressOK, FormOK
<1>2. h = [type |-> href.type, instance |-> href.instance, period |-> form.period,
           from |-> form.from, to |-> form.to]
  BY <1>1 DEF Applied, Address
<1>3. h \in Address
  BY <1>1, <1>2 DEF Address, Controls
<1>4. PeriodOK(href.type, h)
  BY <1>2 DEF FormOK, PeriodOK
<1> QED BY <1>2, <1>3, <1>4 DEF AddressOK

\* The ids of tabs, by what they are made of.
LEMMA SameId ==
  ASSUME NEW h \in Address, NEW g \in Address
  PROVE  /\ TabId(h) = TabId(g) => h.type = g.type
         /\ h.type = g.type /\ h.instance = g.instance => TabId(h) = TabId(g)
         /\ h.type \in PageType => TabId(h) # NoTab
BY ReportTypes DEF TabId, NoTab

LEMMA NoTabs ==
  TabsOK(<<>>, NoTab)
BY DEF TabsOK

LEMMA TabAdded ==
  ASSUME NEW tabs, NEW active, TabsOK(tabs, active),
         NEW href, AddressOK(href), href.type \in PageType, TabId(href) \notin Ids(tabs)
  PROVE  TabsOK(Append(tabs, href), TabId(href))
<1>1. tabs \in Seq(Address) /\ href \in Address
  BY DEF TabsOK, AddressOK
<1>2. PICK n \in Nat : n = Len(tabs) /\ DOMAIN tabs = 1 .. n
  BY <1>1, LenProperties
<1>3. PICK m \in Nat : m = n + 1
  BY <1>2
<1> DEFINE new == Append(tabs, href)
<1>4. /\ new \in Seq(Address) /\ DOMAIN new = 1 .. m
      /\ (\A i \in 1 .. n : new[i] = tabs[i]) /\ new[m] = href
  BY <1>1, <1>2, <1>3, AppendProperties, LenProperties
<1>5. \A i \in 1 .. m : i \in 1 .. n \/ i = m
  BY <1>2, <1>3
<1> HIDE DEF new
<1>6. \A i \in 1 .. m : AddressOK(new[i]) /\ new[i].type \in PageType
  BY <1>2, <1>4, <1>5 DEF TabsOK
<1>7. \A i \in 1 .. n : TabId(new[i]) # TabId(new[m])
  BY <1>2, <1>4 DEF Ids
<1>8. \A i, j \in 1 .. m : TabId(new[i]) = TabId(new[j]) => i = j
  <2>1. \A i, j \in 1 .. n : TabId(new[i]) = TabId(new[j]) => i = j
    BY <1>2, <1>4 DEF TabsOK
  <2> QED BY <1>5, <1>7, <2>1
<1>9. TabId(href) \in Ids(new)
  <2>1. m \in 1 .. m
    BY <1>2, <1>3
  <2> QED BY <1>4, <2>1 DEF Ids
<1> QED BY <1>3, <1>4, <1>6, <1>8, <1>9 DEF TabsOK, new

\* A page that arrives has its tab added, or takes the address of the tab it has.
LEMMA PageHasTab ==
  ASSUME NEW tabs, NEW active, TabsOK(tabs, active),
         NEW href, AddressOK(href), href.type \in PageType
  PROVE  TabsOK(WithPage(tabs, href), TabId(href))
<1>1. tabs \in Seq(Address) /\ href \in Address
  BY DEF TabsOK, AddressOK
<1>2. PICK n \in Nat : n = Len(tabs) /\ DOMAIN tabs = 1 .. n
  BY <1>1, LenProperties
<1>3. CASE TabId(href) \in Ids(tabs)
  <2>1. PICK new : new = [i \in DOMAIN tabs |-> IF TabId(tabs[i]) = TabId(href) THEN href ELSE tabs[i]]
    OBVIOUS
  <2>2. DOMAIN new = 1 .. n /\ \A i \in 1 .. n : new[i] \in {href, tabs[i]} /\ TabId(new[i]) = TabId(tabs[i])
    BY <1>2, <2>1
  <2>3. \A i \in 1 .. n : new[i] \in Address /\ AddressOK(new[i]) /\ new[i].type \in PageType
    BY <1>1, <1>2, <2>2 DEF TabsOK
  <2>4. new \in Seq(Address)
    <3>1. new = [i \in 1 .. n |-> new[i]]
      BY <1>2, <2>1
    <3> QED BY <2>3, <3>1
  <2>5. TabId(href) \in Ids(new)
    BY <1>2, <1>3, <2>2 DEF Ids
  <2>6. \A i, j \in DOMAIN new : TabId(new[i]) = TabId(new[j]) => i = j
    BY <1>2, <2>2 DEF TabsOK
  <2>7. WithPage(tabs, href) = new
    BY <1>3, <2>1 DEF WithPage
  <2> QED BY <2>2, <2>3, <2>4, <2>5, <2>6, <2>7 DEF TabsOK
<1>4. CASE TabId(href) \notin Ids(tabs)
  <2>1. WithPage(tabs, href) = Append(tabs, href)
    BY <1>4 DEF WithPage
  <2> QED BY <1>4, <2>1, TabAdded
<1> QED BY <1>3, <1>4

LEMMA Activated ==
  ASSUME NEW tabs, NEW active, TabsOK(tabs, active), NEW i \in DOMAIN tabs
  PROVE  AddressOK(tabs[i]) /\ TabsOK(tabs, TabId(tabs[i]))
BY DEF TabsOK, Ids

\* A tab is closed: the others stay, in their order, and there is one in its place or before it.
LEMMA TabClosed ==
  ASSUME NEW tabs, NEW active, TabsOK(tabs, active), NEW i \in DOMAIN tabs,
         NEW left, left = Without(tabs, i)
  PROVE  /\ active # TabId(tabs[i]) => TabsOK(left, active)
         /\ TabsOK(left, NoTab)
         /\ left # <<>> => (IF i = 1 THEN 1 ELSE i - 1) \in DOMAIN left
<1> DEFINE K == {j \in DOMAIN tabs : tabs[j] # tabs[i]}
<1>1. tabs \in Seq(Address)
  BY DEF TabsOK
<1>2. PICK n \in Nat : n = Len(tabs) /\ DOMAIN tabs = 1 .. n
  BY <1>1, LenProperties
<1>3. \A j \in DOMAIN tabs : tabs[j] = tabs[i] => j = i
  BY DEF TabsOK
<1>4. K = (DOMAIN tabs) \ {i}
  BY <1>3
<1>5. left = AtPlaces(tabs, (DOMAIN tabs) \ {i})
  BY <1>4 DEF Without
<1>6. PICK P : P = (DOMAIN tabs) \ {i}
  OBVIOUS
<1>7. PICK m \in Nat : m = Len(left) /\ DOMAIN left = 1 .. m /\ m = n - 1 /\ left \in Seq(Address)
  <2>1. left \in Seq(Address) /\ Len(left) = Len(tabs) - 1
    BY <1>1, <1>5, AtPlacesIs, OneFewer
  <2> QED BY <1>2, <2>1, LenProperties
<1>8. /\ \A j \in DOMAIN left : Nth(P, j) \in P /\ left[j] = tabs[Nth(P, j)]
      /\ \A p \in P : \E j \in DOMAIN left : left[j] = tabs[p]
      /\ \A j, k \in DOMAIN left : j < k => Nth(P, j) < Nth(P, k)
  <2>1. P \in SUBSET (DOMAIN tabs) /\ left = AtPlaces(tabs, P)
    BY <1>5, <1>6
  <2> QED BY <1>1, <2>1, AtPlacesIs
<1>9. \A j \in DOMAIN left : AddressOK(left[j]) /\ left[j].type \in PageType
  BY <1>6, <1>8 DEF TabsOK
<1>10. ASSUME NEW j \in DOMAIN left, NEW k \in DOMAIN left, TabId(left[j]) = TabId(left[k])
       PROVE  j = k
  <2>1. Nth(P, j) = Nth(P, k) /\ Nth(P, j) \in P
    <3>1. PICK p \in P, q \in P : p = Nth(P, j) /\ q = Nth(P, k) /\ left[j] = tabs[p] /\ left[k] = tabs[q]
      BY <1>8
    <3> QED BY <1>6, <1>10, <3>1 DEF TabsOK
  <2>2. Nth(P, j) \in Int /\ j \in Int /\ k \in Int
    <3>1. \A p \in P : p \in Int
      BY <1>2, <1>6
    <3> QED BY <1>7, <2>1, <3>1
  <2>3. j < k \/ j = k \/ k < j
    BY <2>2
  <2>4. ~(j < k) /\ ~(k < j)
    BY <1>8, <2>1, <2>2
  <2> QED BY <2>3, <2>4
<1>11. active # TabId(tabs[i]) => active \in {NoTab} \cup Ids(left)
  <2> SUFFICES ASSUME active # TabId(tabs[i]), active # NoTab
               PROVE  active \in Ids(left)
    OBVIOUS
  <2>1. PICK p \in DOMAIN tabs : active = TabId(tabs[p])
    BY DEF TabsOK, Ids
  <2>2. p \in P
    BY <1>6, <2>1
  <2> QED BY <1>8, <2>1, <2>2 DEF Ids
<1>12. left # <<>> => (IF i = 1 THEN 1 ELSE i - 1) \in DOMAIN left
  <2>1. left # <<>> => m # 0
    BY <1>7
  <2>2. i \in Int /\ 1 <= i /\ i <= n
    BY <1>2
  <2> QED BY <1>2, <1>7, <2>1, <2>2
<1> QED BY <1>7, <1>9, <1>10, <1>11, <1>12 DEF TabsOK

\* The tabs of a type are tabs, and there is one when any has the type.
LEMMA TabsOfType ==
  ASSUME NEW tabs, NEW active, TabsOK(tabs, active), NEW type,
         NEW open, open = TabsOf(tabs, type)
  PROVE  /\ \A i \in DOMAIN open : \E j \in DOMAIN tabs : open[i] = tabs[j]
         /\ open = <<>> => \A j \in DOMAIN tabs : tabs[j].type # type
<1> DEFINE K == {i \in DOMAIN tabs : tabs[i].type = type}
<1>1. tabs \in Seq(Address) /\ K \in SUBSET (DOMAIN tabs)
  BY DEF TabsOK
<1>2. open = AtPlaces(tabs, K)
  BY DEF TabsOf
<1> HIDE DEF K
<1>3. /\ \A j \in DOMAIN open : Nth(K, j) \in K /\ open[j] = tabs[Nth(K, j)]
      /\ \A p \in K : \E j \in DOMAIN open : open[j] = tabs[p]
  BY <1>1, <1>2, AtPlacesIs
<1>4. open = <<>> => K = {}
  <2>1. open = <<>> => DOMAIN open = {}
    OBVIOUS
  <2> QED BY <1>3, <2>1
<1> QED BY <1>1, <1>3, <1>4 DEF K

LEMMA ArrivedOK ==
  ASSUME NowOK, SavedOK, NEW win, WindowOK(win), NEW href, AddressOK(href),
         NEW next, next = Arrived(win, href)
  PROVE  WindowOK(next)
<1>1. /\ win = [url |-> win.url, next |-> win.next, tabs |-> win.tabs, active |-> win.active, form |-> win.form]
      /\ TabsOK(win.tabs, win.active) /\ ControlsOK(win.url.type, win.form)
  BY DEF WindowOK
<1>2. AddressOK(Nowhere)
  BY FixedAddresses
<1>3. CASE href.type \notin PageType
  <2>1. next = [url |-> href, next |-> Nowhere, tabs |-> win.tabs, active |-> win.active, form |-> NoForm]
    <3>1. next = [win EXCEPT !.url = href, !.next = Nowhere, !.form = NoForm]
      BY <1>3 DEF Arrived
    <3> QED BY <1>1, <3>1
  <2>2. href.type \notin CanDuplicate
    <3>1. href.type \in {"workspace", "nowhere"}
      BY <1>3 DEF AddressOK, Address
    <3> QED BY <3>1, ReportTypes
  <2>3. ControlsOK(href.type, NoForm)
    BY <2>2 DEF ControlsOK
  <2> QED BY <1>1, <1>2, <2>1, <2>3 DEF WindowOK
<1>4. CASE href.type \in PageType
  <2> DEFINE later == IF href.type \in CanDuplicate /\ IsBare(href) /\ saved[Key(href)] # NoForm
                      THEN Applied(href, saved[Key(href)]) ELSE Nowhere
             form == IF href.type \notin CanDuplicate THEN NoForm
                     ELSE Form(href, IF win.url.type = href.type THEN win.form.day ELSE now)
  <2>1. next = [url |-> href, next |-> later, tabs |-> WithPage(win.tabs, href),
                active |-> TabId(href), form |-> form]
    BY <1>4 DEF Arrived
  <2>2. AddressOK(later)
    <3>1. CASE href.type \in CanDuplicate /\ saved[Key(href)] # NoForm
      <4>1. Key(href) \in DOMAIN saved /\ Key(href)[1] = href.type
        BY <1>4, <3>1 DEF SavedOK, Key, AddressOK, Address
      <4>2. FormOK(href.type, saved[Key(href)])
        BY <3>1, <4>1 DEF SavedOK
      <4>3. PICK f : f = saved[Key(href)]
        OBVIOUS
      <4>4. AddressOK(Applied(href, f))
        BY <3>1, <4>2, <4>3, AppliedOK
      <4> QED BY <1>2, <4>3, <4>4
    <3>2. CASE ~(href.type \in CanDuplicate /\ saved[Key(href)] # NoForm)
      BY <1>2, <3>2
    <3> QED BY <3>1, <3>2
  <2>3. ControlsOK(href.type, form)
    <3>1. CASE href.type \notin CanDuplicate
      BY <3>1 DEF ControlsOK
    <3>2. CASE href.type \in CanDuplicate
      <4>1. PICK day : day = IF win.url.type = href.type THEN win.form.day ELSE now
        OBVIOUS
      <4>2. day \in Day
        BY <1>1, <3>2, <4>1 DEF ControlsOK, NowOK
      <4>3. form = Form(href, day)
        BY <3>2, <4>1
      <4> HIDE DEF form
      <4>4. FormOK(href.type, form) /\ form.day = day
        BY <3>2, <4>2, <4>3, FormStarts
      <4> QED BY <3>2, <4>2, <4>4 DEF ControlsOK
    <3> QED BY <3>1, <3>2
  <2>4. TabsOK(WithPage(win.tabs, href), TabId(href))
    BY <1>1, <1>4, PageHasTab
  <2> HIDE DEF later, form
  <2> QED BY <2>1, <2>2, <2>3, <2>4 DEF WindowOK
<1> QED BY <1>3, <1>4

\* A click in a window whose tabs change: the tab that is shown as active, and its address.
LEMMA PushOK ==
  ASSUME NEW win, WindowOK(win), NEW tabs, NEW active, NEW href, AddressOK(href),
         TabsOK(tabs, active), NEW next,
         \/ next = [win EXCEPT !.tabs = tabs, !.active = active, !.next = href]
         \/ next = [[win EXCEPT !.tabs = tabs] EXCEPT !.active = active, !.next = href]
         \/ tabs = win.tabs /\ next = [win EXCEPT !.active = active, !.next = href]
  PROVE  WindowOK(next)
<1>1. win = [url |-> win.url, next |-> win.next, tabs |-> win.tabs, active |-> win.active, form |-> win.form]
  BY DEF WindowOK
<1>2. next = [url |-> win.url, next |-> href, tabs |-> tabs, active |-> active, form |-> win.form]
  BY <1>1
<1> QED BY <1>2 DEF WindowOK

LEMMA BecomesOK ==
  ASSUME TabsInv, NEW w \in Window, NEW win, WindowOK(win), Becomes(w, win), now' = now, saved' = saved
  PROVE  TabsInv'
<1>1. NowOK' /\ SavedOK'
  BY DEF TabsInv, NowOK, SavedOK
<1>2. WindowsOK'
  BY DEF TabsInv, WindowsOK, Becomes
<1>3. StorageOK'
  <2>1. CASE storage' = storage
    BY <2>1 DEF TabsInv, StorageOK
  <2>2. CASE storage' = [tabs |-> win.tabs, active |-> win.active]
    BY <2>2 DEF StorageOK, WindowOK
  <2> QED BY <2>1, <2>2 DEF Becomes
<1> QED BY <1>1, <1>2, <1>3 DEF TabsInv

LEMMA LoadOK ==
  ASSUME TabsInv, NEW w \in Window, Load(w)
  PROVE  TabsInv'
<1>1. PICK stored : stored = [url |-> Nowhere, next |-> Nowhere, tabs |-> storage.tabs,
                              active |-> storage.active, form |-> NoForm]
  OBVIOUS
<1>2. PICK href \in {windows[w].url, Workspace} \cup {Bare(type, "default") : type \in PageType} :
        /\ windows' = [windows EXCEPT ![w] = Arrived(stored, href)]
        /\ storage' = [tabs |-> Arrived(stored, href).tabs, active |-> Arrived(stored, href).active]
        /\ UNCHANGED <<now, saved>>
  BY <1>1 DEF Load
<1>3. AddressOK(href)
  <2>1. CASE href = windows[w].url
    BY <2>1 DEF TabsInv, WindowsOK, WindowOK
  <2>2. CASE href = Workspace
    BY <2>2, FixedAddresses
  <2>3. CASE \E type \in PageType : href = Bare(type, "default")
    BY <2>3, BareOK DEF Instance
  <2> QED BY <1>2, <2>1, <2>2, <2>3
<1>4. WindowOK(stored)
  <2>1. ControlsOK("nowhere", NoForm)
    BY ReportTypes DEF ControlsOK
  <2> QED BY <1>1, <2>1, FixedAddresses DEF WindowOK, TabsInv, StorageOK
<1>5. PICK win : win = Arrived(stored, href)
  OBVIOUS
<1>6. WindowOK(win)
  BY <1>3, <1>4, <1>5, ArrivedOK DEF TabsInv
<1>7. NowOK' /\ SavedOK'
  BY <1>2 DEF TabsInv, NowOK, SavedOK
<1>8. WindowsOK'
  BY <1>2, <1>5, <1>6 DEF TabsInv, WindowsOK
<1>9. StorageOK'
  BY <1>2, <1>5, <1>6 DEF StorageOK, WindowOK
<1> QED BY <1>7, <1>8, <1>9 DEF TabsInv

LEMMA ArriveOK ==
  ASSUME TabsInv, NEW w \in Window, Arrive(w)
  PROVE  TabsInv'
<1>1. PICK win : win = windows[w]
  OBVIOUS
<1>2. WindowOK(win) /\ AddressOK(win.next)
  BY <1>1 DEF TabsInv, WindowsOK, WindowOK
<1>3. PICK next : next = IF win.next = win.url THEN [win EXCEPT !.next = Nowhere] ELSE Arrived(win, win.next)
  OBVIOUS
<1>4. Becomes(w, next) /\ now' = now /\ saved' = saved
  BY <1>1, <1>3 DEF Arrive
<1>5. WindowOK(next)
  <2>1. CASE win.next = win.url
    <3>1. win = [url |-> win.url, next |-> win.next, tabs |-> win.tabs, active |-> win.active, form |-> win.form]
      BY <1>2 DEF WindowOK
    <3>2. next = [url |-> win.url, next |-> Nowhere, tabs |-> win.tabs, active |-> win.active, form |-> win.form]
      BY <1>3, <2>1, <3>1
    <3> QED BY <1>2, <3>2, FixedAddresses DEF WindowOK
  <2>2. CASE win.next # win.url
    <3>1. PICK href : href = win.next
      OBVIOUS
    <3> QED BY <1>2, <1>3, <2>2, <3>1, ArrivedOK DEF TabsInv
  <2> QED BY <2>1, <2>2
<1> QED BY <1>4, <1>5, BecomesOK

LEMMA WindowFacts ==
  ASSUME TabsInv, NEW w \in Window, NEW win, win = windows[w]
  PROVE  /\ WindowOK(win) /\ TabsOK(win.tabs, win.active) /\ AddressOK(win.url)
         /\ ControlsOK(win.url.type, win.form)
         /\ win.url.type \in CanDuplicate => win.url.type \in PageType
<1>1. WindowOK(win)
  BY DEF TabsInv, WindowsOK
<1>2. win.url \in Address
  BY <1>1 DEF WindowOK, AddressOK
<1>3. win.url.type \in CanDuplicate => win.url.type \in PageType
  BY <1>2, ReportTypes DEF Address
<1> QED BY <1>1, <1>3 DEF WindowOK

LEMMA OpenTabOK ==
  ASSUME TabsInv, NEW w \in Window, NEW type \in PageType, OpenTab(w, type)
  PROVE  TabsInv'
<1>1. PICK win : win = windows[w]
  OBVIOUS
<1>2. WindowOK(win) /\ TabsOK(win.tabs, win.active) /\ NowOK
  BY <1>1, WindowFacts DEF TabsInv
<1>3. PICK open, href : open = TabsOf(win.tabs, type) /\ href = BuildTabHref(type, "own")
  OBVIOUS
<1>4. now' = now /\ saved' = saved
  BY DEF OpenTab
<1>5. CASE \E i \in DOMAIN open : Becomes(w, Push(win, open[i]))
  <2>1. PICK i \in DOMAIN open : Becomes(w, Push(win, open[i]))
    BY <1>5
  <2>2. PICK j \in DOMAIN win.tabs : open[i] = win.tabs[j]
    BY <1>2, <1>3, TabsOfType
  <2>3. AddressOK(open[i]) /\ TabsOK(win.tabs, TabId(open[i]))
    BY <1>2, <2>2, Activated
  <2>4. PICK next : next = Push(win, open[i])
    OBVIOUS
  <2>5. next = [win EXCEPT !.active = TabId(open[i]), !.next = open[i]]
    BY <2>4 DEF Push
  <2>6. PICK tabs : tabs = win.tabs
    OBVIOUS
  <2>7. WindowOK(next)
    BY <1>2, <2>3, <2>5, <2>6, PushOK
  <2> QED BY <1>4, <2>1, <2>4, <2>7, BecomesOK
<1>6. CASE open = <<>> /\ Becomes(w, Push([win EXCEPT !.tabs = Append(@, href)], href))
  <2>1. PICK instance \in Instance : instance = "own"
    BY DEF Instance
  <2>2. AddressOK(href) /\ href.type = type
    BY <1>2, <1>3, <2>1, BuiltInOrder
  <2>3. \A j \in DOMAIN win.tabs : win.tabs[j].type # type
    BY <1>2, <1>3, <1>6, TabsOfType
  <2>4. TabId(href) \notin Ids(win.tabs)
    <3>1. \A j \in DOMAIN win.tabs : win.tabs[j] \in Address
      BY <1>2 DEF TabsOK, AddressOK
    <3>2. \A j \in DOMAIN win.tabs : TabId(win.tabs[j]) # TabId(href)
      BY <2>2, <2>3, <3>1, SameId DEF AddressOK
    <3> QED BY <3>2 DEF Ids
  <2>5. PICK tabs : tabs = Append(win.tabs, href)
    OBVIOUS
  <2>6. TabsOK(tabs, TabId(href))
    BY <1>2, <2>2, <2>4, <2>5, TabAdded
  <2>7. PICK next : next = Push([win EXCEPT !.tabs = Append(@, href)], href)
    OBVIOUS
  <2>8. next = [[win EXCEPT !.tabs = tabs] EXCEPT !.active = TabId(href), !.next = href]
    BY <2>5, <2>7 DEF Push
  <2>9. WindowOK(next)
    BY <1>2, <2>2, <2>6, <2>8, PushOK
  <2> QED BY <1>4, <1>6, <2>7, <2>9, BecomesOK
<1> QED BY <1>1, <1>3, <1>5, <1>6 DEF OpenTab

LEMMA NewTabOK ==
  ASSUME TabsInv, NEW w \in Window, NEW href, AddressOK(href), href.type \in PageType, NewTab(w, href)
  PROVE  TabsInv'
<1>1. PICK win : win = windows[w]
  OBVIOUS
<1>2. WindowOK(win) /\ TabsOK(win.tabs, win.active)
  BY <1>1, WindowFacts
<1>3. TabId(href) \notin Ids(win.tabs)
  BY <1>1 DEF NewTab
<1>4. PICK tabs : tabs = Append(win.tabs, href)
  OBVIOUS
<1>5. TabsOK(tabs, TabId(href))
  BY <1>2, <1>3, <1>4, TabAdded
<1>6. PICK next : next = Push([windows[w] EXCEPT !.tabs = Append(@, href)], href)
  OBVIOUS
<1>7. next = [[win EXCEPT !.tabs = tabs] EXCEPT !.active = TabId(href), !.next = href]
  BY <1>1, <1>4, <1>6 DEF Push
<1>8. WindowOK(next)
  BY <1>2, <1>5, <1>7, PushOK
<1>9. Becomes(w, next) /\ now' = now /\ saved' = saved
  BY <1>6 DEF NewTab
<1> QED BY <1>8, <1>9, BecomesOK

LEMMA CloseTabOK ==
  ASSUME TabsInv, NEW w \in Window, CloseTab(w)
  PROVE  TabsInv'
<1>1. PICK win : win = windows[w]
  OBVIOUS
<1>2. WindowOK(win) /\ TabsOK(win.tabs, win.active)
  BY <1>1, WindowFacts
<1>3. PICK i \in DOMAIN win.tabs :
        Becomes(w, IF TabId(win.tabs[i]) = win.active THEN ActivateNeighbour(win, i)
                   ELSE [win EXCEPT !.tabs = Without(win.tabs, i)])
  BY <1>1 DEF CloseTab
<1>4. PICK left : left = Without(win.tabs, i)
  OBVIOUS
<1>5. /\ win.active # TabId(win.tabs[i]) => TabsOK(left, win.active)
      /\ TabsOK(left, NoTab)
      /\ left # <<>> => (IF i = 1 THEN 1 ELSE i - 1) \in DOMAIN left
  BY <1>2, <1>4, TabClosed
<1>6. win = [url |-> win.url, next |-> win.next, tabs |-> win.tabs, active |-> win.active, form |-> win.form]
  BY <1>2 DEF WindowOK
<1>7. now' = now /\ saved' = saved
  BY DEF CloseTab
<1>8. CASE TabId(win.tabs[i]) # win.active
  <2>1. PICK next : next = [win EXCEPT !.tabs = left]
    OBVIOUS
  <2>2. next = [url |-> win.url, next |-> win.next, tabs |-> left, active |-> win.active, form |-> win.form]
    BY <1>6, <2>1
  <2>3. WindowOK(next)
    BY <1>2, <1>5, <1>8, <2>2 DEF WindowOK
  <2>4. Becomes(w, next)
    BY <1>3, <1>4, <1>8, <2>1
  <2> QED BY <1>7, <2>3, <2>4, BecomesOK
<1>9. CASE TabId(win.tabs[i]) = win.active /\ left = <<>>
  <2>1. PICK next : next = [win EXCEPT !.tabs = left, !.active = NoTab]
    OBVIOUS
  <2>2. next = [url |-> win.url, next |-> win.next, tabs |-> left, active |-> NoTab, form |-> win.form]
    BY <1>6, <2>1
  <2>3. WindowOK(next)
    BY <1>2, <1>5, <2>2 DEF WindowOK
  <2>4. Becomes(w, next)
    BY <1>3, <1>4, <1>9, <2>1 DEF ActivateNeighbour
  <2> QED BY <1>7, <2>3, <2>4, BecomesOK
<1>10. CASE TabId(win.tabs[i]) = win.active /\ left # <<>>
  <2>1. PICK k \in DOMAIN left : k = IF i = 1 THEN 1 ELSE i - 1
    BY <1>5, <1>10
  <2>2. AddressOK(left[k]) /\ TabsOK(left, TabId(left[k]))
    BY <1>5, Activated
  <2>3. PICK next : next = Push([win EXCEPT !.tabs = left], left[k])
    OBVIOUS
  <2>4. next = [[win EXCEPT !.tabs = left] EXCEPT !.active = TabId(left[k]), !.next = left[k]]
    BY <2>3 DEF Push
  <2>5. WindowOK(next)
    BY <1>2, <2>2, <2>4, PushOK
  <2>6. Becomes(w, next)
    BY <1>3, <1>4, <1>10, <2>1, <2>3 DEF ActivateNeighbour
  <2> QED BY <1>7, <2>5, <2>6, BecomesOK
<1> QED BY <1>8, <1>9, <1>10

LEMMA CloseAllTabsOK ==
  ASSUME TabsInv, NEW w \in Window, CloseAllTabs(w)
  PROVE  TabsInv'
<1>1. PICK win : win = windows[w]
  OBVIOUS
<1>2. WindowOK(win)
  BY <1>1, WindowFacts
<1>3. PICK next : next = [win EXCEPT !.tabs = <<>>, !.active = NoTab, !.next = Workspace]
  OBVIOUS
<1>4. PICK tabs, active, href : tabs = <<>> /\ active = NoTab /\ href = Workspace
  OBVIOUS
<1>5. WindowOK(next)
  <2>1. next = [win EXCEPT !.tabs = tabs, !.active = active, !.next = href]
    BY <1>3, <1>4
  <2>2. TabsOK(tabs, active) /\ AddressOK(href)
    BY <1>4, NoTabs, FixedAddresses
  <2> QED BY <1>2, <2>1, <2>2, PushOK
<1>6. Becomes(w, next) /\ now' = now /\ saved' = saved
  BY <1>1, <1>3 DEF CloseAllTabs
<1> QED BY <1>5, <1>6, BecomesOK

LEMMA SetActiveTabOK ==
  ASSUME TabsInv, NEW w \in Window, SetActiveTab(w)
  PROVE  TabsInv'
<1>1. PICK win : win = windows[w]
  OBVIOUS
<1>2. WindowOK(win) /\ TabsOK(win.tabs, win.active)
  BY <1>1, WindowFacts
<1>3. PICK i \in DOMAIN win.tabs : Becomes(w, Push(win, win.tabs[i]))
  BY <1>1 DEF SetActiveTab
<1>4. PICK next, tabs, href : next = Push(win, win.tabs[i]) /\ tabs = win.tabs /\ href = win.tabs[i]
  OBVIOUS
<1>5. AddressOK(href) /\ TabsOK(tabs, TabId(href))
  BY <1>2, <1>4, Activated
<1>6. PICK active : active = TabId(href)
  OBVIOUS
<1>7. WindowOK(next)
  <2>1. next = [win EXCEPT !.active = active, !.next = href] /\ tabs = win.tabs
    BY <1>4, <1>6 DEF Push
  <2>2. TabsOK(tabs, active)
    BY <1>5, <1>6
  <2> QED BY <1>2, <1>5, <2>1, <2>2, PushOK
<1>8. now' = now /\ saved' = saved
  BY DEF SetActiveTab
<1> QED BY <1>3, <1>4, <1>7, <1>8, BecomesOK

\* The controls of a report page
LEMMA SetFormOK ==
  ASSUME TabsInv, NEW w \in Window, NEW win, win = windows[w], win.url.type \in CanDuplicate,
         NEW form, FormOK(win.url.type, form), form.day \in Day, SetForm(w, form)
  PROVE  TabsInv'
<1>1. WindowOK(win) /\ DOMAIN windows = Window
  BY WindowFacts DEF TabsInv, WindowsOK
<1>2. win = [url |-> win.url, next |-> win.next, tabs |-> win.tabs, active |-> win.active, form |-> win.form]
  BY <1>1 DEF WindowOK
<1>3. PICK next : next = [win EXCEPT !.form = form]
  OBVIOUS
<1>4. next = [url |-> win.url, next |-> win.next, tabs |-> win.tabs, active |-> win.active, form |-> form]
  BY <1>2, <1>3
<1>5. WindowOK(next)
  BY <1>1, <1>4 DEF WindowOK, ControlsOK
<1>6. windows' = [windows EXCEPT ![w] = next] /\ UNCHANGED <<now, storage, saved>>
  BY <1>3 DEF SetForm
<1>7. NowOK' /\ SavedOK' /\ StorageOK'
  BY <1>6 DEF TabsInv, NowOK, SavedOK, StorageOK
<1>8. WindowsOK'
  BY <1>1, <1>5, <1>6 DEF TabsInv, WindowsOK
<1> QED BY <1>7, <1>8 DEF TabsInv

LEMMA PickFromOK ==
  ASSUME TabsInv, NEW w \in Window, NEW day \in Picked, PickFrom(w, day)
  PROVE  TabsInv'
<1>1. PICK win, form, next :
        win = windows[w] /\ form = win.form /\ next = WithFrom(form, day)
  OBVIOUS
<1>2. win.url.type \in RangeType /\ win.url.type \in CanDuplicate /\ SetForm(w, next)
  BY <1>1 DEF PickFrom, CanDuplicate
<1>3. FormOK(win.url.type, form) /\ form.day \in Day
  BY <1>1, <1>2, WindowFacts DEF ControlsOK
<1>4. form \in Controls /\ form.to \in Int /\ day \in Nat
  BY <1>3, ReportTabsAssumption DEF FormOK, Controls
<1>5. PICK to : to = IF day > form.to THEN day ELSE form.to
  OBVIOUS
<1>6. next = [period |-> "custom", from |-> day, to |-> to, day |-> form.day]
  BY <1>1, <1>4, <1>5 DEF WithFrom, Controls
<1>7. to \in Int /\ day <= to /\ day # NoDay /\ to # NoDay
  BY <1>4, <1>5 DEF NoDay
<1>8. FormOK(win.url.type, next)
  BY <1>2, <1>4, <1>6, <1>7, ReportTypes DEF FormOK, PeriodOK, Controls
<1> QED BY <1>1, <1>2, <1>3, <1>6, <1>8, SetFormOK

LEMMA PickToOK ==
  ASSUME TabsInv, NEW w \in Window, NEW day \in Picked, PickTo(w, day)
  PROVE  TabsInv'
<1>1. PICK win, form, next :
        win = windows[w] /\ form = win.form /\ next = WithTo(form, day)
  OBVIOUS
<1>2. win.url.type \in CanDuplicate /\ SetForm(w, next)
  BY <1>1 DEF PickTo, Shows
<1>3. FormOK(win.url.type, form) /\ form.day \in Day
  BY <1>1, <1>2, WindowFacts DEF ControlsOK
<1>4. form \in Controls /\ form.from \in Int /\ day \in Nat
  BY <1>3, ReportTabsAssumption DEF FormOK, Controls
<1>5. PICK from : from = IF form.from # NoDay /\ day < form.from THEN day ELSE form.from
  OBVIOUS
<1>6. next = [period |-> "custom", from |-> from, to |-> day, day |-> form.day]
  BY <1>1, <1>4, <1>5 DEF WithTo, Controls
<1>7. from \in Int /\ day # NoDay /\ (form.from # NoDay => from # NoDay /\ from <= day)
      /\ (form.from = NoDay => from = NoDay)
  BY <1>4, <1>5 DEF NoDay
<1>8. next \in Controls
  BY <1>4, <1>6, <1>7 DEF Controls
<1>9. CASE win.url.type \in RangeType
  <2>1. form.from # NoDay
    BY <1>3, <1>9 DEF FormOK
  <2> QED BY <1>1, <1>2, <1>3, <1>4, <1>6, <1>7, <1>8, <1>9, <2>1, SetFormOK, ReportTypes DEF FormOK, PeriodOK
<1>10. CASE win.url.type \in AsOfType
  <2>1. form.from = NoDay
    BY <1>3, <1>10 DEF FormOK, PeriodOK
  <2> QED BY <1>1, <1>2, <1>3, <1>4, <1>6, <1>7, <1>8, <1>10, <2>1, SetFormOK, ReportTypes DEF FormOK, PeriodOK
<1> QED BY <1>2, <1>9, <1>10 DEF CanDuplicate

LEMMA PickPeriodOK ==
  ASSUME TabsInv, NEW w \in Window, PickPeriod(w)
  PROVE  TabsInv'
<1>1. PICK win, form, type : win = windows[w] /\ form = win.form /\ type = win.url.type
  OBVIOUS
<1>2. type \in CanDuplicate
  BY <1>1 DEF PickPeriod, Shows
<1>3. PICK i \in DOMAIN Options(type) :
        SetForm(w, [form EXCEPT !.period = Options(type)[i],
                                !.from = PeriodOf(type, Options(type)[i], form.day).from,
                                !.to = PeriodOf(type, Options(type)[i], form.day).to])
  BY <1>1 DEF PickPeriod
<1>4. PICK mode : mode = Options(type)[i]
  OBVIOUS
<1>5. mode \in RangePeriods /\ (type \in AsOfType => mode # "current_month")
  BY <1>2, <1>4, OptionsKnown
<1>6. FormOK(type, form) /\ form.day \in Day
  BY <1>1, <1>2, WindowFacts DEF ControlsOK
<1>7. PICK p : p = PeriodOf(type, mode, form.day)
  OBVIOUS
<1>8. PeriodFor(type, p)
  <2>1. PICK day \in Day : day = form.day
    BY <1>6
  <2> QED BY <1>2, <1>5, <1>7, <2>1, NamedPeriod
<1>9. PICK next : next = [form EXCEPT !.period = mode, !.from = p.from, !.to = p.to]
  OBVIOUS
<1>10. form \in Controls
  BY <1>6 DEF FormOK
<1>11. next = [period |-> mode, from |-> p.from, to |-> p.to, day |-> form.day]
  BY <1>9, <1>10 DEF Controls
<1>12. FormOK(type, next)
  <2>1. next \in Controls
    BY <1>5, <1>8, <1>10, <1>11 DEF Controls, PeriodFor
  <2>2. PeriodOK(type, next) /\ (type \in RangeType => next.from # NoDay)
    BY <1>5, <1>8, <1>11 DEF PeriodOK, PeriodFor
  <2> QED BY <2>1, <2>2 DEF FormOK
<1>13. SetForm(w, next)
  BY <1>3, <1>4, <1>7, <1>9
<1> QED BY <1>1, <1>2, <1>6, <1>11, <1>12, <1>13, SetFormOK

LEMMA ApplyOK ==
  ASSUME TabsInv, NEW w \in Window, Apply(w)
  PROVE  TabsInv'
<1>1. PICK win, form, type : win = windows[w] /\ form = win.form /\ type = win.url.type
  OBVIOUS
<1>2. /\ type \in CanDuplicate /\ UNCHANGED <<now, storage>>
      /\ saved' = [saved EXCEPT ![Key(win.url)] = [form EXCEPT !.day = NoDay]]
      /\ windows' = [windows EXCEPT ![w].next = Applied(win.url, form)]
  BY <1>1 DEF Apply, Shows
<1>3. FormOK(type, form) /\ AddressOK(win.url) /\ WindowOK(win)
  BY <1>1, <1>2, WindowFacts DEF ControlsOK
<1>4. PICK kept : kept = [form EXCEPT !.day = NoDay]
  OBVIOUS
<1>5. FormOK(type, kept)
  <2>1. form \in Controls
    BY <1>3 DEF FormOK
  <2>2. kept = [period |-> form.period, from |-> form.from, to |-> form.to, day |-> NoDay]
    BY <1>4, <2>1 DEF Controls
  <2> QED BY <1>3, <2>1, <2>2 DEF FormOK, PeriodOK, Controls, NoDay
<1>6. PICK href : href = Applied(win.url, form)
  OBVIOUS
<1>7. AddressOK(href)
  BY <1>1, <1>2, <1>3, <1>6, AppliedOK
<1>8. WindowsOK'
  <2>1. PICK next : next = [win EXCEPT !.next = href]
    OBVIOUS
  <2>2. win = [url |-> win.url, next |-> win.next, tabs |-> win.tabs, active |-> win.active, form |-> win.form]
    BY <1>3 DEF WindowOK
  <2>3. next = [url |-> win.url, next |-> href, tabs |-> win.tabs, active |-> win.active, form |-> win.form]
    BY <2>1, <2>2
  <2>4. WindowOK(next)
    BY <1>3, <1>7, <2>3 DEF WindowOK
  <2>5. windows' = [windows EXCEPT ![w] = next]
    BY <1>1, <1>2, <1>6, <2>1
  <2> QED BY <2>4, <2>5 DEF TabsInv, WindowsOK
<1>9. SavedOK'
  <2>1. PICK key : key = <<type, win.url.instance>>
    OBVIOUS
  <2>2. saved' = [saved EXCEPT ![key] = kept]
    BY <1>1, <1>2, <1>4, <2>1 DEF Key
  <2>3. key[1] = type
    BY <2>1
  <2> QED BY <1>5, <2>2, <2>3 DEF TabsInv, SavedOK
<1>10. NowOK' /\ StorageOK'
  BY <1>2 DEF TabsInv, NowOK, StorageOK
<1> QED BY <1>8, <1>9, <1>10 DEF TabsInv

LEMMA OpenReportOK ==
  ASSUME TabsInv, NEW w \in Window, NEW id \in Created, OpenReportInNewTab(w, id)
  PROVE  TabsInv'
<1>1. PICK win, form : win = windows[w] /\ form = win.form
  OBVIOUS
<1>2. win.url.type \in CanDuplicate
  BY <1>1 DEF OpenReportInNewTab, Shows
<1>3. FormOK(win.url.type, form) /\ win.url.type \in PageType
  BY <1>1, <1>2, WindowFacts DEF ControlsOK
<1>4. PICK type, instance, built :
        /\ type \in PageType /\ type = win.url.type
        /\ instance \in Instance /\ instance = id /\ built = BuildTabHref(type, instance)
  BY <1>3 DEF Instance
<1>5. AddressOK(built) /\ built.type = type
  BY <1>4, BuiltInOrder DEF TabsInv
<1>6. PICK href : href = Applied(built, form)
  OBVIOUS
<1>7. AddressOK(href) /\ href.type = type
  BY <1>2, <1>3, <1>4, <1>5, <1>6, AppliedOK
<1>8. NewTab(w, href)
  BY <1>1, <1>4, <1>6 DEF OpenReportInNewTab
<1> QED BY <1>4, <1>7, <1>8, NewTabOK

LEMMA NextDayOK ==
  ASSUME TabsInv, NextDay
  PROVE  TabsInv'
<1>1. now' \in Day /\ UNCHANGED <<windows, storage, saved>>
  BY DEF NextDay
<1>2. NowOK' /\ StorageOK' /\ SavedOK' /\ WindowsOK'
  BY <1>1 DEF TabsInv, NowOK, StorageOK, SavedOK, WindowsOK
<1> QED BY <1>2 DEF TabsInv

\* report-tabs-context.tsx and report-controls: what is stored, restored, opened, picked and
\* applied in whatever order stays well formed.
THEOREM TabsStayWellFormed == TabsSpec => []TabsInv
<1>1. TabsInit => TabsInv
  <2> SUFFICES ASSUME TabsInit PROVE TabsInv
    OBVIOUS
  <2>1. PICK win : win = [url |-> Nowhere, next |-> Nowhere, tabs |-> <<>>, active |-> NoTab, form |-> NoForm]
    OBVIOUS
  <2>2. WindowOK(win)
    BY <2>1, NoTabs, FixedAddresses, ReportTypes DEF WindowOK, ControlsOK
  <2>3. windows = [w \in Window |-> win]
    BY <2>1 DEF TabsInit
  <2>4. WindowsOK
    BY <2>2, <2>3 DEF WindowsOK
  <2>5. StorageOK
    BY NoTabs DEF TabsInit, StorageOK
  <2>6. SavedOK /\ NowOK
    BY DEF TabsInit, SavedOK, NowOK, Instance
  <2> QED BY <2>4, <2>5, <2>6 DEF TabsInv
<1>2. TabsInv /\ [TabsNext]_tabVars => TabsInv'
  <2> SUFFICES ASSUME TabsInv, [TabsNext]_tabVars PROVE TabsInv'
    OBVIOUS
  <2>1. CASE NextDay
    BY <2>1, NextDayOK
  <2>2. ASSUME NEW w \in Window, Load(w) PROVE TabsInv'
    BY <2>2, LoadOK
  <2>3. ASSUME NEW w \in Window, Arrive(w) PROVE TabsInv'
    BY <2>3, ArriveOK
  <2>4. ASSUME NEW w \in Window, CloseTab(w) PROVE TabsInv'
    BY <2>4, CloseTabOK
  <2>5. ASSUME NEW w \in Window, CloseAllTabs(w) PROVE TabsInv'
    BY <2>5, CloseAllTabsOK
  <2>6. ASSUME NEW w \in Window, SetActiveTab(w) PROVE TabsInv'
    BY <2>6, SetActiveTabOK
  <2>7. ASSUME NEW w \in Window, PickPeriod(w) PROVE TabsInv'
    BY <2>7, PickPeriodOK
  <2>8. ASSUME NEW w \in Window, Apply(w) PROVE TabsInv'
    BY <2>8, ApplyOK
  <2>9. ASSUME NEW w \in Window, NEW type \in PageType, OpenTab(w, type) PROVE TabsInv'
    BY <2>9, OpenTabOK
  <2>10. ASSUME NEW w \in Window, NEW type \in PageType \cap CanDuplicate, NEW id \in Created,
                NewTab(w, BuildTabHref(type, id))
         PROVE  TabsInv'
    <3>1. PICK instance, href : instance \in Instance /\ instance = id /\ href = BuildTabHref(type, instance)
      BY DEF Instance
    <3>2. AddressOK(href) /\ href.type = type /\ type \in PageType
      BY <3>1, BuiltInOrder DEF TabsInv
    <3> QED BY <2>10, <3>1, <3>2, NewTabOK
  <2>11. ASSUME NEW w \in Window, NEW id \in Created, OpenReportInNewTab(w, id) PROVE TabsInv'
    BY <2>11, OpenReportOK
  <2>12. ASSUME NEW w \in Window, NEW day \in Picked, PickFrom(w, day) PROVE TabsInv'
    BY <2>12, PickFromOK
  <2>13. ASSUME NEW w \in Window, NEW day \in Picked, PickTo(w, day) PROVE TabsInv'
    BY <2>13, PickToOK
  <2>14. CASE UNCHANGED tabVars
    BY <2>14 DEF tabVars, TabsInv, NowOK, WindowsOK, StorageOK, SavedOK
  <2> QED BY <2>1, <2>2, <2>3, <2>4, <2>5, <2>6, <2>7, <2>8, <2>9, <2>10, <2>11, <2>12, <2>13, <2>14 DEF TabsNext
<1> QED BY <1>1, <1>2, PTL DEF TabsSpec

\* report-tabs-context.tsx: a window, and what it restores from storage, never has a tab twice
\* nor an active tab that it does not have.
THEOREM TabsAlwaysSound == TabsSpec => []TabsSound
<1>1. TabsInv => TabsSound
  <2> SUFFICES ASSUME TabsInv, NEW t \in {windows[w] : w \in Window} \cup {storage}
               PROVE  /\ \A i, j \in DOMAIN t.tabs : TabId(t.tabs[i]) = TabId(t.tabs[j]) => i = j
                      /\ t.active # NoTab => t.active \in Ids(t.tabs)
    BY DEF TabsSound
  <2>1. TabsOK(t.tabs, t.active)
    <3>1. CASE t = storage
      BY <3>1 DEF TabsInv, StorageOK
    <3>2. CASE \E w \in Window : t = windows[w]
      BY <3>2, WindowFacts
    <3> QED BY <3>1, <3>2
  <2> QED BY <2>1 DEF TabsOK
<1> QED BY <1>1, TabsStayWellFormed, PTL

\* persisted-report-form.tsx and report-controls: no tab, saved period or control ever holds a
\* period that ends before it begins.
THEOREM PeriodsStayInOrder == TabsSpec => []PeriodsInOrder
<1>1. TabsInv => PeriodsInOrder
  <2> SUFFICES ASSUME TabsInv PROVE PeriodsInOrder
    OBVIOUS
  <2>1. ASSUME NEW key \in DOMAIN saved, saved[key].from # NoDay
        PROVE  saved[key].from <= saved[key].to
    <3>1. PICK p : p = saved[key]
      OBVIOUS
    <3>2. FormOK(key[1], p) /\ key[1] \in CanDuplicate
      BY <2>1, <3>1 DEF TabsInv, SavedOK, NoForm
    <3> QED BY <2>1, <3>1, <3>2, ReportTypes DEF FormOK, PeriodOK
  <2>2. ASSUME NEW w \in Window, windows[w].form.from # NoDay
        PROVE  windows[w].form.from <= windows[w].form.to
    <3>1. PICK win : win = windows[w]
      OBVIOUS
    <3>2. ControlsOK(win.url.type, win.form)
      BY <3>1, WindowFacts
    <3>3. win.url.type \in CanDuplicate /\ FormOK(win.url.type, win.form)
      BY <2>2, <3>1, <3>2 DEF ControlsOK, NoForm
    <3> QED BY <2>2, <3>1, <3>3, ReportTypes DEF FormOK, PeriodOK
  <2>3. ASSUME NEW w \in Window, NEW i \in DOMAIN windows[w].tabs, windows[w].tabs[i].from # NoDay
        PROVE  windows[w].tabs[i].from <= windows[w].tabs[i].to
    <3>1. PICK tabs, active : TabsOK(tabs, active) /\ tabs = windows[w].tabs
      BY WindowFacts
    <3>2. PICK href : href = tabs[i] /\ AddressOK(href)
      BY <3>1 DEF TabsOK
    <3>3. href.type \in CanDuplicate
      BY <2>3, <3>1, <3>2 DEF AddressOK
    <3> QED BY <2>3, <3>1, <3>2, <3>3, ReportTypes DEF AddressOK, PeriodOK
  <2> QED BY <2>1, <2>2, <2>3 DEF PeriodsInOrder
<1> QED BY <1>1, TabsStayWellFormed, PTL

\* report-periods.ts:60-125 with fiscal-year.ts and compare-period.ts: on whatever day a
\* page is opened and whichever month the fiscal year ends with, the periods it offers fit.
THEOREM PeriodsAlwaysFit == TabsSpec => []PeriodsWellFormed
<1>1. TabsInv => PeriodsWellFormed
  <2> SUFFICES ASSUME TabsInv, NEW endMonth \in 1 .. 12
               PROVE  Fit(now, [mode \in RangePeriods |-> GetRangeForPeriod(mode, now, endMonth)],
                          FiscalYear(endMonth, now), LastFiscalQuarter(endMonth, now))
    BY DEF PeriodsWellFormed, FitTogether, TabsInv, NowOK
  <2>1. now \in Nat
    BY DayFacts DEF TabsInv, NowOK
  <2> QED BY <2>1, PeriodsFit
<1> QED BY <1>1, TabsStayWellFormed, PTL
=============================================================================
