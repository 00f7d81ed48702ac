--------------------------- MODULE StatementProofs ---------------------------
(***************************************************************************)
(* Machine-checked proofs about StatementPosting and StatementExtraction,  *)
(* for any number of files, transactions, accounts, journals and readings, *)
(* and about StatementReading, whatever the model answers.                 *)
(***************************************************************************)
EXTENDS StatementReading, StatementExtraction, JournalProofs, DataLemmas

(* Sequences *)

LEMMA SetToSeqIs ==
  ASSUME NEW S, IsFiniteSet(S)
  PROVE  /\ Cardinality(S) \in Nat
         /\ SetToSeq(S) \in [1 .. Cardinality(S) -> S]
         /\ \A k, l \in 1 .. Cardinality(S) : SetToSeq(S)[k] = SetToSeq(S)[l] => k = l
         /\ \A x \in S : \E k \in 1 .. Cardinality(S) : SetToSeq(S)[k] = x
<1>1. PICK n : n = Cardinality(S)
  OBVIOUS
<1>2. n \in Nat /\ \E f : ExistsBijection(1 .. n, S)
  BY <1>1, FS_CardinalityType
<1>3. \E f \in [1 .. n -> S] : IsInjective(f)
  BY <1>2 DEF ExistsBijection, Bijection, Injection, IsInjective
<1>4. SetToSeq(S) \in [1 .. n -> S] /\ IsInjective(SetToSeq(S))
  BY <1>1, <1>3 DEF SetToSeq
<1>5. \A x \in S : \E k \in 1 .. n : SetToSeq(S)[k] = x
  <2>1. SetToSeq(S) \in Injection(1 .. n, S)
    BY <1>4 DEF Injection, IsInjective
  <2>2. Cardinality(1 .. n) = n
    BY <1>2, FS_Interval
  <2>3. SetToSeq(S) \in Surjection(1 .. n, S)
    BY <1>1, <2>1, <2>2, FS_Injection
  <2> QED BY <2>3 DEF Surjection
<1> QED BY <1>1, <1>2, <1>4, <1>5 DEF IsInjective

\* The recursion of FlattenSeq.
Joins(f, seqs, n) == f = [i \in 1 .. n |-> IF i = 1 THEN seqs[i] ELSE f[i - 1] \o seqs[i]]

LEMMA JoinsExists ==
  ASSUME NEW seqs, NEW n \in Nat, n > 0
  PROVE  \E f : Joins(f, seqs, n)
<1> DEFINE C == {k \in 1 .. n : ~ \E f : Joins(f, seqs, k)}
<1> SUFFICES ASSUME C # {} PROVE FALSE
  OBVIOUS
<1>1. PICK k \in C : \A l \in C : k <= l
  <2> C \in SUBSET (1 .. n)
    OBVIOUS
  <2>0. n \in Int
    OBVIOUS
  <2> HIDE DEF C
  <2> QED BY <2>0, SmallestNumber
<1>2. k \in 1 .. n /\ ~ \E f : Joins(f, seqs, k)
  BY <1>1
<1>3. CASE k = 1
  <2> DEFINE g == [i \in 1 .. 1 |-> seqs[i]]
  <2>1. Joins(g, seqs, 1)
    BY DEF Joins
  <2> QED BY <1>2, <1>3, <2>1
<1>4. CASE k # 1
  <2>1. k - 1 \in 1 .. n /\ k - 1 < k
    BY <1>2, <1>4
  <2>2. k - 1 \notin C
    BY <1>1, <2>1
  <2>3. PICK f : Joins(f, seqs, k - 1)
    BY <2>1, <2>2
  <2> DEFINE g == [i \in 1 .. k |-> IF i = k THEN f[k - 1] \o seqs[k] ELSE f[i]]
  <2>4. \A i \in 1 .. (k - 1) : f[i] = IF i = 1 THEN seqs[i] ELSE f[i - 1] \o seqs[i]
    BY <2>3 DEF Joins
  <2>5. \A i \in 1 .. k : g[i] = IF i = 1 THEN seqs[i] ELSE g[i - 1] \o seqs[i]
    <3> SUFFICES ASSUME NEW i \in 1 .. k
                 PROVE  g[i] = IF i = 1 THEN seqs[i] ELSE g[i - 1] \o seqs[i]
      OBVIOUS
    <3>1. CASE i = k
      <4>1. k - 1 \in 1 .. k /\ k - 1 # k
        BY <1>2, <1>4
      <4>2. g[k - 1] = f[k - 1]
        BY <4>1
      <4>3. g[k] = f[k - 1] \o seqs[k]
        <5>1. k \in 1 .. k
          BY <1>2
        <5> QED BY <5>1
      <4> QED BY <1>4, <3>1, <4>2, <4>3
    <3>2. CASE i # k /\ i = 1
      BY <1>2, <2>4, <3>2
    <3>3. CASE i # k /\ i # 1
      <4>1. i \in 1 .. (k - 1) /\ i - 1 \in 1 .. k /\ i - 1 # k
        BY <1>2, <3>3
      <4>2. g[i] = f[i] /\ g[i - 1] = f[i - 1]
        BY <3>3, <4>1
      <4> QED BY <2>4, <3>3, <4>1, <4>2
    <3> QED BY <3>1, <3>2, <3>3
  <2>6. g = [i \in 1 .. k |-> g[i]]
    OBVIOUS
  <2> HIDE DEF g
  <2>7. Joins(g, seqs, k)
    BY <2>5, <2>6 DEF Joins
  <2> QED BY <1>2, <2>7
<1> QED BY <1>3, <1>4

LEMMA FlattenIs ==
  ASSUME NEW n \in Nat, n > 0, NEW seqs, Len(seqs) = n
  PROVE  \E f : Joins(f, seqs, n) /\ FlattenSeq(seqs) = f[n]
<1> DEFINE flat == CHOOSE f : Joins(f, seqs, n)
<1>1. Joins(flat, seqs, n)
  BY JoinsExists
<1>2. FlattenSeq(seqs) = flat[n]
  BY n # 0 DEF FlattenSeq, Joins
<1> HIDE DEF flat
<1> QED BY <1>1, <1>2

\* What is joined has elements of what it is made of.
LEMMA JoinsTyped ==
  ASSUME NEW S, NEW n \in Nat, NEW seqs, \A i \in 1 .. n : seqs[i] \in Seq(S),
         NEW f, Joins(f, seqs, n)
  PROVE  \A i \in 1 .. n : f[i] \in Seq(S)
<1> DEFINE C == {k \in 1 .. n : f[k] \notin Seq(S)}
<1> SUFFICES ASSUME C # {} PROVE FALSE
  OBVIOUS
<1>1. PICK k \in C : \A l \in C : k <= l
  <2> C \in SUBSET (1 .. n)
    OBVIOUS
  <2>0. n \in Int
    OBVIOUS
  <2> HIDE DEF C
  <2> QED BY <2>0, SmallestNumber
<1>2. f[k] = IF k = 1 THEN seqs[k] ELSE f[k - 1] \o seqs[k]
  BY DEF Joins
<1>3. CASE k = 1
  BY <1>2, <1>3
<1>4. CASE k # 1
  <2>1. k - 1 \in 1 .. n /\ k - 1 < k
    BY <1>4
  <2>2. f[k - 1] \in Seq(S)
    BY <1>1, <2>1
  <2>3. f[k - 1] \o seqs[k] \in Seq(S)
    BY <2>2, ConcatProperties
  <2> QED BY <1>2, <1>4, <2>3
<1> QED BY <1>3, <1>4

LEMMA FlattenTyped ==
  ASSUME NEW S, NEW seqs \in Seq(Seq(S))
  PROVE  FlattenSeq(seqs) \in Seq(S)
<1>1. PICK n : n = Len(seqs)
  OBVIOUS
<1>2. n \in Nat /\ \A i \in 1 .. n : seqs[i] \in Seq(S)
  BY <1>1, LenProperties
<1>3. CASE n = 0
  <2>1. FlattenSeq(seqs) = seqs /\ seqs = <<>>
    BY <1>1, <1>3, EmptySeq DEF FlattenSeq
  <2> QED BY <2>1
<1>4. CASE n > 0
  <2>1. PICK f : Joins(f, seqs, n) /\ FlattenSeq(seqs) = f[n]
    BY <1>1, <1>2, <1>4, FlattenIs
  <2> QED BY <1>2, <1>4, <2>1, JoinsTyped
<1> QED BY <1>2, <1>3, <1>4
LEMMA SeqElements ==
  ASSUME NEW S, NEW q \in Seq(S)
  PROVE  /\ \A i \in DOMAIN q : q[i] \in S
         /\ q # <<>> => 1 \in DOMAIN q
<1>1. Len(q) \in Nat /\ DOMAIN q = 1 .. Len(q) /\ \A i \in 1 .. Len(q) : q[i] \in S
  BY LenProperties
<1>2. q # <<>> => Len(q) # 0
  BY EmptySeq
<1> QED BY <1>1, <1>2
-----------------------------------------------------------------------------
(* What a posting is made of *)

Txn == [date : Date, amountCents : Int, payment : BOOLEAN,
        confirmedAccountId : OrgAccount \cup {NoAccount}, allocations : Split \cup {<<>>},
        isExcluded : BOOLEAN, journalBatchId : BatchId \cup {None}]

TxnsOK ==
  /\ IsFiniteSet(DOMAIN txns) /\ DOMAIN txns \subseteq TxnId
  /\ txns \in [DOMAIN txns -> Txn]

PartOn(A) == [account : A, amountCents : Int]

LineOn(A) == [account : A, date : Date, debit : Int, credit : Int]

LEMMA SideTyped ==
  ASSUME NEW A, NEW a \in A, NEW d \in Date, NEW n \in Int, NEW isDebit \in BOOLEAN
  PROVE  Side(a, d, n, isDebit) \in LineOn(A)
BY DEF Side, LineOn

LEMMA MagnitudeTyped == ASSUME NEW n \in Int PROVE Magnitude(n) \in Nat
BY DEF Magnitude

\* The accounts a transaction is posted to, besides the statement's own.
LEMMA AllocationsTyped ==
  ASSUME TxnsOK, NEW t \in DOMAIN txns, NEW linked, NEW card \in BOOLEAN, NEW A,
         CardPayment(t, card) => linked \in A,
         ~CardPayment(t, card) => GivenTo(t) \subseteq A
  PROVE  Allocations(t, linked, card) \in Seq(PartOn(A))
<1> DEFINE whole(a) == <<[account |-> a, amountCents |-> Magnitude(txns[t].amountCents)]>>
<1>1. txns[t] \in Txn
  BY DEF TxnsOK
<1>2. Magnitude(txns[t].amountCents) \in Int
  BY <1>1, MagnitudeTyped DEF Txn
<1>3. ASSUME NEW a \in A PROVE whole(a) \in Seq(PartOn(A))
  <2>1. [account |-> a, amountCents |-> Magnitude(txns[t].amountCents)] \in PartOn(A)
    BY <1>2 DEF PartOn
  <2> QED BY <2>1
<1>4. CASE CardPayment(t, card)
  <2>1. Allocations(t, linked, card) = whole(linked)
    BY <1>4 DEF Allocations
  <2> HIDE DEF whole
  <2> QED BY <1>3, <1>4, <2>1
<1>5. CASE ~CardPayment(t, card) /\ txns[t].allocations = <<>>
  <2>1. Allocations(t, linked, card) = whole(txns[t].confirmedAccountId)
    BY <1>5 DEF Allocations
  <2>2. txns[t].confirmedAccountId \in A
    BY <1>5 DEF GivenTo
  <2> HIDE DEF whole
  <2> QED BY <1>3, <2>1, <2>2
<1>6. CASE ~CardPayment(t, card) /\ txns[t].allocations # <<>>
  <2>1. PICK q : q = txns[t].allocations
    OBVIOUS
  <2>2. Allocations(t, linked, card) = q
    BY <1>6, <2>1 DEF Allocations
  <2>3. q \in Seq([account : OrgAccount, amountCents : Nat \ {0}])
    BY <1>1, <1>6, <2>1, StatementAssumption DEF Txn
  <2>4. \A i \in DOMAIN q : q[i].account \in A
    BY <1>6, <2>1 DEF GivenTo
  <2>5. /\ Len(q) \in Nat /\ DOMAIN q = 1 .. Len(q)
        /\ q \in [1 .. Len(q) -> [account : OrgAccount, amountCents : Nat \ {0}]]
    BY <2>3, LenProperties
  <2>6. \A i \in 1 .. Len(q) : q[i] \in PartOn(A)
    BY <2>4, <2>5 DEF PartOn
  <2>7. q \in [1 .. Len(q) -> PartOn(A)]
    BY <2>5, <2>6
  <2> QED BY <2>2, <2>5, <2>7, SeqDef
<1> QED BY <1>4, <1>5, <1>6

LEMMA SidesTyped ==
  ASSUME NEW A, NEW others \in Seq(PartOn(A)), NEW d \in Date, NEW m \in BOOLEAN
  PROVE  [i \in DOMAIN others |-> Side(others[i].account, d, others[i].amountCents, m)]
           \in Seq(LineOn(A))
<1>1. /\ Len(others) \in Nat /\ DOMAIN others = 1 .. Len(others)
      /\ \A i \in 1 .. Len(others) : others[i] \in PartOn(A)
  BY LenProperties
<1>2. \A i \in 1 .. Len(others) : others[i].account \in A /\ others[i].amountCents \in Int
  BY <1>1 DEF PartOn
<1>3. PICK rest : rest = [i \in DOMAIN others |-> Side(others[i].account, d, others[i].amountCents, m)]
  OBVIOUS
<1>4. rest \in [1 .. Len(others) -> LineOn(A)]
  BY <1>1, <1>2, <1>3, SideTyped
<1> QED BY <1>1, <1>3, <1>4, SeqDef

LEMMA PostingLinesTyped ==
  ASSUME TxnsOK, NEW t \in DOMAIN txns, NEW linked, NEW card \in BOOLEAN, NEW A,
         linked \in A, CardPayment(t, card) \/ GivenTo(t) \subseteq A
  PROVE  PostingLines(t, linked, card) \in Seq(LineOn(A))
<1>1. PICK others : others = Allocations(t, linked, card)
  OBVIOUS
<1>2. PICK d, on, n, m : /\ d = txns[t].date /\ n = Magnitude(txns[t].amountCents)
                         /\ on = IsDeposit(t) /\ m = ~IsDeposit(t)
  OBVIOUS
<1>3. txns[t] \in Txn
  BY DEF TxnsOK
<1>4. d \in Date /\ n \in Int /\ on \in BOOLEAN /\ m \in BOOLEAN
  BY <1>2, <1>3, MagnitudeTyped DEF Txn, IsDeposit
<1>5. others \in Seq(PartOn(A))
  BY <1>1, AllocationsTyped
<1>6. PICK rest : rest = [i \in DOMAIN others |-> Side(others[i].account, d, others[i].amountCents, m)]
  OBVIOUS
<1>7. rest \in Seq(LineOn(A))
  BY <1>4, <1>5, <1>6, SidesTyped
<1>8. <<Side(linked, d, n, on)>> \in Seq(LineOn(A))
  <2>1. Side(linked, d, n, on) \in LineOn(A)
    BY <1>4, SideTyped
  <2> QED BY <2>1
<1>9. PostingLines(t, linked, card) = <<Side(linked, d, n, on)>> \o rest
  BY <1>1, <1>2, <1>6 DEF PostingLines
<1> QED BY <1>7, <1>8, <1>9, ConcatProperties

\* Whatever is posted is a list of lines that can be handed to the journal service.
LEMMA PostingContentTyped ==
  ASSUME TxnsOK, NEW T \in SUBSET DOMAIN txns, NEW linked, NEW card \in BOOLEAN, NEW A,
         linked \in A, \A t \in T : CardPayment(t, card) \/ GivenTo(t) \subseteq A
  PROVE  /\ PostingContent(T, linked, card).memo \in Memo
         /\ PostingContent(T, linked, card).lines \in Seq(LineOn(A))
<1>1. IsFiniteSet(T)
  BY FS_Subset DEF TxnsOK
<1>2. PICK n, order : n = Cardinality(T) /\ order = SetToSeq(T)
  OBVIOUS
<1>3. n \in Nat /\ order \in [1 .. n -> T]
  BY <1>1, <1>2, SetToSeqIs
<1>4. PICK seqs : seqs = [i \in 1 .. n |-> PostingLines(order[i], linked, card)]
  OBVIOUS
<1>5. \A i \in 1 .. n : PostingLines(order[i], linked, card) \in Seq(LineOn(A))
  <2> TAKE i \in 1 .. n
  <2>1. PICK t \in T : t = order[i]
    BY <1>3
  <2>2. CardPayment(t, card) \/ GivenTo(t) \subseteq A
    OBVIOUS
  <2> QED BY <2>1, <2>2, PostingLinesTyped
<1>6. seqs \in [1 .. n -> Seq(LineOn(A))]
  BY <1>4, <1>5
<1>7. seqs \in Seq(Seq(LineOn(A)))
  BY <1>3, <1>6, SeqDef
<1>8. PostingContent(T, linked, card) = [memo |-> ImportMemo, lines |-> FlattenSeq(seqs)]
  BY <1>2, <1>4 DEF PostingContent
<1>9. FlattenSeq(seqs) \in Seq(LineOn(A))
  BY <1>7, FlattenTyped
<1> QED BY <1>8, <1>9, StatementAssumption
-----------------------------------------------------------------------------
(* What takes batches off the books *)

\* A batch that is nobody's revision is where its lifecycle starts.
LEMMA OwnRoot ==
  ASSUME NEW b \in DOMAIN rows, rows[b].supersedes = None
  PROVE  IsRootOf(b, b) /\ b \in LifecycleOf(b)
BY DescendantsClosed DEF IsRootOf, LifecycleOf

\* All of a lifecycle is posted, or none of it.
LEMMA LifecycleOneStatus ==
  ASSUME IndInv, NEW b \in DOMAIN rows, NEW x \in LifecycleOf(b)
  PROVE  x \in DOMAIN rows /\ rows[x].status = rows[b].status
<1> DEFINE S == {d \in DOMAIN rows : rows[d].status = rows[b].status}
<1>1. None \notin DOMAIN rows
  BY Table DEF IndInv, BatchId, None
<1>2. ChildrenOf(S) \subseteq S
  <2> SUFFICES ASSUME NEW c \in ChildrenOf(S) PROVE c \in S
    OBVIOUS
  <2>1. c \in DOMAIN rows /\ rows[c].supersedes \in S /\ rows[c].supersedes # None
    BY <1>1 DEF ChildrenOf
  <2>2. rows[c].originalBatchId = rows[c].supersedes
    BY <2>1 DEF IndInv, Links, IsRevision
  <2> QED BY <2>1, <2>2 DEF IndInv, LifecycleAllOrNothing
<1>3. S \in SUBSET DOMAIN rows /\ b \in S
  OBVIOUS
<1> HIDE DEF S
<1>4. Descendants(b) \subseteq S
  BY <1>2, <1>3 DEF Descendants
<1>5. CASE x \in Descendants(b)
  BY <1>4, <1>5 DEF S
<1>6. CASE x \in ReversalsOf(Descendants(b))
  <2>1. x \in DOMAIN rows /\ rows[x].originalBatchId \in S /\ rows[x].originalBatchId # None
    BY <1>1, <1>3, <1>4, <1>6 DEF ReversalsOf
  <2>2. rows[x].status = rows[rows[x].originalBatchId].status
    BY <2>1 DEF IndInv, LifecycleAllOrNothing
  <2> QED BY <2>1, <2>2 DEF S
<1> QED BY <1>5, <1>6 DEF LifecycleOf

\* The posted batches of L are voided and release their source; the log may change.
VoidStep(L) ==
  /\ rows' \in Seq(Row) /\ Len(rows') = Len(rows) /\ Kept
  /\ \A x \in DOMAIN rows :
       /\ rows'[x].content = rows[x].content /\ rows'[x].source = rows[x].source
       /\ x \in L /\ rows[x].status = "posted" =>
            rows'[x].status = "voided" /\ rows'[x].released = (rows[x].source # NoSource)
       /\ ~(x \in L /\ rows[x].status = "posted") =>
            rows'[x].status = rows[x].status /\ rows'[x].released = rows[x].released

LEMMA VoidedStep ==
  ASSUME TypeOK, NEW L, rows' = Voided(L)
  PROVE  VoidStep(L)
<1>1. /\ rows' \in Seq(Row) /\ Len(rows') = Len(rows) /\ Kept
      /\ \A x \in DOMAIN rows :
           /\ rows'[x].content = rows[x].content
           /\ ~(x \in L /\ rows[x].status = "posted") => rows'[x] = rows[x]
           /\ x \in L /\ rows[x].status = "posted" => rows'[x].status = "voided"
  BY VoidEffect
<1>2. ASSUME NEW x \in DOMAIN rows, x \in L, rows[x].status = "posted"
      PROVE  /\ rows'[x].source = rows[x].source
             /\ rows'[x].released = (rows[x].source # NoSource)
  <2>1. rows'[x] = VoidRow(rows[x])
    BY <1>2 DEF Voided
  <2>2. rows[x] \in Row
    BY Table
  <2> QED BY <2>1, <2>2 DEF VoidRow, Row
<1>3. ASSUME NEW x \in DOMAIN rows, ~(x \in L /\ rows[x].status = "posted")
      PROVE  rows'[x] = rows[x]
  BY <1>1, <1>3
<1> QED BY <1>1, <1>2, <1>3 DEF VoidStep

LEMMA UnpostedStep ==
  ASSUME TypeOK, NEW B, rows' = Unposted(B)
  PROVE  VoidStep(Lifecycles(B))
<1>1. PICK L : L = Lifecycles(B)
  OBVIOUS
<1>2. /\ DOMAIN rows = 1 .. Len(rows) /\ Len(rows) \in Nat
      /\ \A x \in DOMAIN rows : rows[x] \in Row
  BY Table
<1> DEFINE log(x) == rows[x].audit \cup IF x \in B THEN {"unpost"} ELSE {}
           taken(x) == x \in L /\ rows[x].status = "posted"
           old(x) == IF taken(x) THEN VoidRow(rows[x]) ELSE rows[x]
<1>3. rows' = [x \in DOMAIN rows |-> [old(x) EXCEPT !.audit = log(x)]]
  BY <1>1 DEF Unposted, Voided
<1>4. ASSUME NEW x \in DOMAIN rows
      PROVE  /\ rows'[x] \in Row
             /\ rows'[x].content = rows[x].content /\ rows'[x].source = rows[x].source
             /\ taken(x) => rows'[x].status = "voided"
                            /\ rows'[x].released = (rows[x].source # NoSource)
             /\ ~taken(x) => rows'[x].status = rows[x].status
                             /\ rows'[x].released = rows[x].released
             /\ rows'[x].sourceType = rows[x].sourceType
             /\ rows'[x].supersedes = rows[x].supersedes
             /\ rows'[x].originalBatchId = rows[x].originalBatchId
             /\ rows'[x].reversalBatchId = rows[x].reversalBatchId
             /\ rows'[x].adjustmentKey = rows[x].adjustmentKey
             /\ rows'[x].createdBy = rows[x].createdBy
  <2>1. rows[x] \in Row
    BY <1>2
  <2>2. log(x) \in SUBSET AuditAction
    BY <2>1 DEF Row, AuditAction
  <2>3. CASE taken(x)
    <3>1. rows'[x] = [VoidRow(rows[x]) EXCEPT !.audit = log(x)]
      BY <1>3, <2>3
    <3> HIDE DEF log
    <3> QED BY <2>1, <2>2, <2>3, <3>1 DEF VoidRow, Row, Status
  <2>4. CASE ~taken(x)
    <3>1. rows'[x] = [rows[x] EXCEPT !.audit = log(x)]
      BY <1>3, <2>4
    <3> HIDE DEF log
    <3> QED BY <2>1, <2>2, <2>4, <3>1 DEF Row
  <2> QED BY <2>3, <2>4
<1>5. DOMAIN rows' = DOMAIN rows
  BY <1>3
<1>6. rows' \in [1 .. Len(rows) -> Row]
  <2>1. rows' = [x \in DOMAIN rows |-> rows'[x]]
    BY <1>3
  <2> QED BY <1>2, <1>4, <2>1
<1>7. rows' \in Seq(Row) /\ Len(rows') = Len(rows)
  BY <1>2, <1>6, SeqDef, LenProperties
<1>8. Kept
  BY <1>4, <1>5 DEF Kept
<1>9. VoidStep(L)
  BY <1>4, <1>7, <1>8 DEF VoidStep
<1> QED BY <1>1, <1>9

LEMMA VoidStepInv ==
  ASSUME IndInv, NEW L, VoidStep(L), UNCHANGED answers,
         \A x \in DOMAIN rows : rows[x].originalBatchId # None =>
           (x \in L <=> rows[x].originalBatchId \in L)
  PROVE  IndInv'
<1>1. TypeOK'
  BY DEF IndInv, TypeOK, VoidStep
<1>2. Links' /\ Pairs' /\ AnswersRecorded'
  <2>1. \A x \in DOMAIN rows : rows[x].status \in {"posted", "voided"}
                                 => rows'[x].status \in {"posted", "voided"}
    BY DEF VoidStep
  <2> QED BY <2>1, KeptLinks, KeptPairs, KeptAnswers DEF IndInv, VoidStep
<1>3. LifecycleAllOrNothing'
  <2> SUFFICES ASSUME NEW x \in DOMAIN rows, rows[x].originalBatchId # None
               PROVE  rows'[x].status = rows'[rows[x].originalBatchId].status
    BY DEF LifecycleAllOrNothing, Kept, VoidStep
  <2>1. PICK o : o = rows[x].originalBatchId
    OBVIOUS
  <2>2. o \in DOMAIN rows /\ rows[x].status = rows[o].status /\ (x \in L <=> o \in L)
    BY <2>1 DEF IndInv, Links, LifecycleAllOrNothing
  <2>3. rows'[x].status = rows'[o].status
    BY <2>2 DEF VoidStep
  <2> QED BY <2>1, <2>3
<1>4. ExactReversals'
  BY DEF IndInv, ExactReversals, Kept, Links, IsReversal, VoidStep
<1> QED BY <1>1, <1>2, <1>3, <1>4 DEF IndInv
-----------------------------------------------------------------------------
(* The inductive invariant *)

ImportStatus == {"absent", "uploaded", "extracting", "extracted", "failed", "imported", "deleted"}

SomeImport == [status : ImportStatus, linkedAccountId : OrgAccount \cup {NoAccount}]

\* A file that is not there has no account.
ImportsOK ==
  /\ imports \in [Statement -> SomeImport]
  /\ \A s \in Statement : s \notin Present => imports[s].linkedAccountId = NoAccount

\* A batch made from transactions is nobody's revision, is never a draft, and gives
\* its source up when it is voided.
PostingsOK ==
  \A b \in DOMAIN rows :
    /\ rows[b].sourceType = "import" <=> rows[b].source # NoSource
    /\ rows[b].sourceType = "import" =>
         /\ rows[b].supersedes = None /\ rows[b].originalBatchId = None
         /\ rows[b].status \in {"posted", "voided"}
         /\ rows[b].status = "voided" => rows[b].released

\* Nothing refers to the transactions of a file that has never been read.
UnreadHasNone ==
  \A s \in Statement : imports[s].status \in {"absent", "uploaded"} =>
    /\ \A t \in DOMAIN txns : t[1] # s
    /\ \A b \in DOMAIN rows : rows[b].sourceType = "import" => \A t \in rows[b].source : t[1] # s

\* A transaction is marked with a batch that was posted from it, and with the one of
\* them that is posted, if one is.
MarksOK ==
  \A t \in DOMAIN txns :
    /\ txns[t].journalBatchId # None => txns[t].journalBatchId \in PostingsOf(t)
    /\ \A b \in PostingsOf(t) : rows[b].status = "posted" => b = txns[t].journalBatchId

SoundImports == IndInv /\ ImportsOK /\ TxnsOK /\ PostingsOK /\ MarksOK

PostingInv == SoundImports /\ UnreadHasNone

LEMMA SourceTyped ==
  ASSUME TypeOK, PostingsOK, NEW b \in DOMAIN rows, rows[b].sourceType = "import"
  PROVE  rows[b].source \in SUBSET TxnId /\ rows[b].source # {}
<1>1. rows[b].source \in SourceKey
  BY Table DEF PostingsOK, Row
<1> QED BY <1>1, StatementAssumption

\* A step that makes no journal, and marks no transaction.
LEMMA UnmarkedStep ==
  ASSUME SoundImports, UNCHANGED <<rows, answers>>, ImportsOK', TxnsOK',
         \A t \in DOMAIN txns' :
           \/ t \in DOMAIN txns /\ txns'[t].journalBatchId = txns[t].journalBatchId
           \/ txns'[t].journalBatchId = None /\ PostingsOf(t) = {}
  PROVE  SoundImports'
<1>1. IndInv'
  BY DEF SoundImports, IndInv, TypeOK, Links, Pairs, LifecycleAllOrNothing, ExactReversals,
         AnswersRecorded, IsReversal, IsRevision
<1>2. PostingsOK'
  BY DEF SoundImports, PostingsOK
<1>3. MarksOK'
  BY DEF SoundImports, MarksOK, PostingsOf
<1> QED BY <1>1, <1>2, <1>3 DEF SoundImports

\* A file that has not been read since its upload, if it was uploaded.
Fresh(s) == imports[s].status \in {"absent", "uploaded"}

\* A step that brings no rows from a file, and makes no file one to be read again.
NothingNew ==
  /\ DOMAIN txns' \subseteq DOMAIN txns
  /\ \A b \in DOMAIN rows' : rows'[b].sourceType = "import" =>
       \/ b \in DOMAIN rows /\ rows[b].sourceType = "import" /\ rows'[b].source = rows[b].source
       \/ rows'[b].source \subseteq DOMAIN txns
  /\ \A s \in Statement : /\ imports'[s].status \in {"absent", "uploaded"} => Fresh(s)
                          /\ imports'[s].status = "absent" => imports[s].status = "absent"

LEMMA UnreadKept ==
  ASSUME UnreadHasNone, NothingNew
  PROVE  UnreadHasNone'
BY DEF UnreadHasNone, NothingNew, Fresh

\* Reviewing changes one transaction.
LEMMA TxnSet ==
  ASSUME TxnsOK, NEW t \in DOMAIN txns, NEW x \in Txn, txns' = [txns EXCEPT ![t] = x]
  PROVE  /\ TxnsOK' /\ DOMAIN txns' = DOMAIN txns /\ txns'[t] = x
         /\ \A u \in DOMAIN txns \ {t} : txns'[u] = txns[u]
BY DEF TxnsOK

LEMMA ReviewedStep ==
  ASSUME SoundImports, NEW t \in DOMAIN txns, NEW x \in Txn, txns' = [txns EXCEPT ![t] = x],
         x.journalBatchId = txns[t].journalBatchId, UNCHANGED <<rows, answers, imports>>
  PROVE  SoundImports' /\ NothingNew
<1>1. /\ TxnsOK' /\ DOMAIN txns' = DOMAIN txns
      /\ \A u \in DOMAIN txns : txns'[u].journalBatchId = txns[u].journalBatchId
  BY TxnSet DEF SoundImports
<1>2. ImportsOK'
  BY DEF SoundImports, ImportsOK, Present
<1>3. NothingNew
  BY <1>1 DEF NothingNew, Fresh
<1> QED BY <1>1, <1>2, <1>3, UnmarkedStep

LEMMA ReviewKeeps ==
  ASSUME SoundImports, NEW t \in DOMAIN txns, Review(t)
  PROVE  SoundImports' /\ NothingNew
<1>1. txns[t] \in Txn /\ t \in TxnId
  BY DEF SoundImports, TxnsOK
<1>2. ASSUME NEW a \in Category \cup {NoAccount}, Categorize(t, a) PROVE SoundImports' /\ NothingNew
  <2> DEFINE x == [txns[t] EXCEPT !.confirmedAccountId = a]
  <2>1. x \in Txn /\ x.journalBatchId = txns[t].journalBatchId
    BY <1>1, StatementAssumption DEF Txn
  <2>2. txns' = [txns EXCEPT ![t] = x] /\ UNCHANGED <<rows, answers, imports>>
    BY <1>2 DEF Categorize, SetTxn
  <2> HIDE DEF x
  <2> QED BY <2>1, <2>2, ReviewedStep
<1>3. ASSUME NEW split \in Split, Allocate(t, split) PROVE SoundImports' /\ NothingNew
  <2> DEFINE alloc == IF Len(split) > 1 THEN split ELSE <<>>
             x == [txns[t] EXCEPT !.confirmedAccountId = split[1].account, !.allocations = alloc]
  <2>1. split[1].account \in OrgAccount
    <3>1. split \in Seq([account : OrgAccount, amountCents : Nat \ {0}]) /\ split # <<>>
      BY <1>3, StatementAssumption DEF Allocate
    <3>2. split[1] \in [account : OrgAccount, amountCents : Nat \ {0}]
      BY <3>1, SeqElements
    <3> QED BY <3>2
  <2>2. alloc \in Split \cup {<<>>}
    OBVIOUS
  <2>3. txns' = [txns EXCEPT ![t] = x] /\ UNCHANGED <<rows, answers, imports>>
    BY <1>3 DEF Allocate
  <2> HIDE DEF alloc
  <2>4. x \in Txn /\ x.journalBatchId = txns[t].journalBatchId
    BY <1>1, <2>1, <2>2 DEF Txn
  <2> HIDE DEF x
  <2> QED BY <2>3, <2>4, ReviewedStep
<1>4. ASSUME ToggleExcluded(t) PROVE SoundImports' /\ NothingNew
  <2> DEFINE x == [txns[t] EXCEPT !.isExcluded = ~txns[t].isExcluded]
  <2>1. x \in Txn /\ x.journalBatchId = txns[t].journalBatchId
    BY <1>1 DEF Txn
  <2>2. txns' = [txns EXCEPT ![t] = x] /\ UNCHANGED <<rows, answers, imports>>
    BY <1>4 DEF ToggleExcluded, SetTxn
  <2> HIDE DEF x
  <2> QED BY <2>1, <2>2, ReviewedStep
<1>5. ASSUME Describe(t) PROVE SoundImports' /\ NothingNew
  <2>1. PICK p \in {TRUE, Printed[t[1]][t[2]].payment} : SetTxn(t, "payment", p)
    BY <1>5 DEF Describe
  <2>2. PICK s \in Statement : \E i \in DOMAIN Printed[s] : t[1] = s /\ t[2] = i
    BY <1>1 DEF TxnId
  <2>9. PICK i \in DOMAIN Printed[s] : t[1] = s /\ t[2] = i
    BY <2>2
  <2>3. Printed[s][i] \in [date : Date, amountCents : Int, payment : BOOLEAN]
    <3>1. Printed[s] \in Seq([date : Date, amountCents : Int, payment : BOOLEAN])
      BY StatementAssumption
    <3> QED BY <2>9, <3>1, SeqElements
  <2>4. p \in BOOLEAN
    BY <2>1, <2>9, <2>3
  <2> DEFINE x == [txns[t] EXCEPT !.payment = p]
  <2>5. x \in Txn /\ x.journalBatchId = txns[t].journalBatchId
    BY <1>1, <2>4 DEF Txn
  <2>6. txns' = [txns EXCEPT ![t] = x] /\ UNCHANGED <<rows, answers, imports>>
    BY <1>5, <2>1 DEF Describe, SetTxn
  <2> HIDE DEF x
  <2> QED BY <2>5, <2>6, ReviewedStep
<1> QED BY <1>2, <1>3, <1>4, <1>5 DEF Review

LEMMA BulkKeeps ==
  ASSUME SoundImports, NEW T, NEW excluded \in BOOLEAN, BulkSetExcluded(T, excluded)
  PROVE  SoundImports' /\ NothingNew
<1>1. /\ DOMAIN txns' = DOMAIN txns
      /\ \A t \in DOMAIN txns : txns'[t] = IF t \in T /\ txns[t].journalBatchId = None
                                             THEN [txns[t] EXCEPT !.isExcluded = excluded]
                                             ELSE txns[t]
  BY DEF BulkSetExcluded
<1>2. ASSUME NEW t \in DOMAIN txns
      PROVE  txns'[t] \in Txn /\ txns'[t].journalBatchId = txns[t].journalBatchId
  <2>1. txns[t] \in Txn
    BY DEF SoundImports, TxnsOK
  <2> QED BY <1>1, <2>1 DEF Txn
<1>3. TxnsOK'
  <2>1. txns' = [t \in DOMAIN txns' |-> txns'[t]]
    BY DEF BulkSetExcluded
  <2> QED BY <1>1, <1>2, <2>1 DEF SoundImports, TxnsOK
<1>4. UNCHANGED <<rows, answers, imports>>
  BY DEF BulkSetExcluded
<1>5. ImportsOK'
  BY <1>4 DEF SoundImports, ImportsOK, Present
<1>6. NothingNew
  BY <1>1, <1>4 DEF NothingNew, Fresh
<1> QED BY <1>1, <1>2, <1>3, <1>4, <1>5, <1>6, UnmarkedStep
-----------------------------------------------------------------------------
(* Files *)

LEMMA ImportSet ==
  ASSUME ImportsOK, NEW s \in Statement, NEW x \in SomeImport,
         x.status \in {"absent", "deleted"} => x.linkedAccountId = NoAccount,
         imports' = [imports EXCEPT ![s] = x]
  PROVE  /\ ImportsOK' /\ imports'[s] = x
         /\ \A u \in Statement \ {s} : imports'[u] = imports[u]
<1>1. /\ imports' \in [Statement -> SomeImport] /\ imports'[s] = x
      /\ \A u \in Statement \ {s} : imports'[u] = imports[u]
  BY DEF ImportsOK
<1>2. \A u \in Statement : u \notin Present' => imports'[u].linkedAccountId = NoAccount
  <2> SUFFICES ASSUME NEW u \in Statement, u \notin Present'
               PROVE  imports'[u].linkedAccountId = NoAccount
    OBVIOUS
  <2>1. CASE u = s
    BY <1>1, <2>1 DEF Present
  <2>2. CASE u # s
    <3>1. u \notin Present
      BY <1>1, <2>2 DEF Present
    <3> QED BY <1>1, <2>2, <3>1 DEF ImportsOK
  <2> QED BY <2>1, <2>2
<1> QED BY <1>1, <1>2 DEF ImportsOK

LEMMA StatusSet ==
  ASSUME ImportsOK, NEW S \in SUBSET Present, NEW st \in {"extracting", "extracted", "failed", "imported"},
         SetStatus(S, st)
  PROVE  /\ ImportsOK'
         /\ \A s \in S : imports'[s].status = st
         /\ \A s \in Statement \ S : imports'[s] = imports[s]
<1>1. /\ imports' = [s \in Statement |-> IF s \in S THEN [imports[s] EXCEPT !.status = st]
                                                    ELSE imports[s]]
      /\ \A s \in Statement : imports[s] \in SomeImport
  BY DEF SetStatus, ImportsOK
<1>2. ASSUME NEW s \in Statement
      PROVE  /\ imports'[s] \in SomeImport
             /\ s \in S => imports'[s].status = st
             /\ s \notin S => imports'[s] = imports[s]
  <2>1. CASE s \in S
    BY <1>1, <2>1 DEF SomeImport, ImportStatus
  <2>2. CASE s \notin S
    BY <1>1, <2>2
  <2> QED BY <2>1, <2>2
<1>3. imports' \in [Statement -> SomeImport]
  BY <1>1, <1>2
<1>4. ASSUME NEW s \in Statement, s \notin Present'
      PROVE  imports'[s].linkedAccountId = NoAccount
  <2>1. s \notin S /\ s \notin Present
    BY <1>2, <1>4 DEF Present
  <2> QED BY <1>2, <2>1 DEF ImportsOK
<1>5. S \subseteq Statement
  BY DEF Present
<1> QED BY <1>2, <1>3, <1>4, <1>5 DEF ImportsOK

LEMMA UploadedIs ==
  ASSUME SoundImports, NEW s \in Statement, NEW a \in Linkable[s] \cup {NoAccount},
         imports[s].status = "absent", UNCHANGED <<rows, answers, txns>>,
         imports' = [imports EXCEPT ![s] = [status |-> "uploaded", linkedAccountId |-> a]]
  PROVE  SoundImports' /\ NothingNew /\ imports'[s].status = "uploaded"
<1>1. PICK x : x = [status |-> "uploaded", linkedAccountId |-> a]
  OBVIOUS
<1>2. a \in OrgAccount \cup {NoAccount}
  BY StatementAssumption
<1>3. x \in SomeImport /\ x.status = "uploaded"
  BY <1>1, <1>2 DEF SomeImport, ImportStatus
<1>4. /\ ImportsOK' /\ imports'[s].status = "uploaded"
      /\ \A u \in Statement \ {s} : imports'[u] = imports[u]
  BY <1>1, <1>3, ImportSet DEF SoundImports
<1>5. TxnsOK'
  BY DEF SoundImports, TxnsOK
<1>6. NothingNew
  BY <1>4 DEF NothingNew, Fresh
<1> QED BY <1>4, <1>5, <1>6, UnmarkedStep

LEMMA UploadKeeps ==
  ASSUME SoundImports, NEW s \in Statement, Upload(s)
  PROVE  SoundImports' /\ NothingNew
BY UploadedIs DEF Upload

LEMMA LinkKeeps ==
  ASSUME SoundImports, NEW s \in Present, SetLinkedAccount(s)
  PROVE  SoundImports' /\ NothingNew
<1>1. PICK a \in Linkable[s] \cup {NoAccount} : imports' = [imports EXCEPT ![s].linkedAccountId = a]
  BY DEF SetLinkedAccount
<1>2. s \in Statement /\ imports[s] \in SomeImport /\ imports[s].status \notin {"absent", "deleted"}
  BY DEF SoundImports, ImportsOK, Present
<1>3. PICK x : x = [imports[s] EXCEPT !.linkedAccountId = a]
  OBVIOUS
<1>4. a \in OrgAccount \cup {NoAccount}
  BY <1>2, StatementAssumption
<1>5. x \in SomeImport /\ x.status = imports[s].status
  BY <1>2, <1>3, <1>4 DEF SomeImport
<1>6. imports' = [imports EXCEPT ![s] = x]
  BY <1>1, <1>3
<1>7. /\ ImportsOK' /\ imports'[s] = x
      /\ \A u \in Statement \ {s} : imports'[u] = imports[u]
  BY <1>2, <1>5, <1>6, ImportSet DEF SoundImports
<1>8. UNCHANGED <<rows, answers, txns>>
  BY DEF SetLinkedAccount
<1>9. TxnsOK'
  BY <1>8 DEF SoundImports, TxnsOK
<1>10. NothingNew
  BY <1>5, <1>7, <1>8 DEF NothingNew, Fresh
<1> QED BY <1>7, <1>8, <1>9, <1>10, UnmarkedStep

LEMMA DeleteKeeps ==
  ASSUME SoundImports, NEW s \in Present, DeleteImport(s)
  PROVE  SoundImports' /\ NothingNew
<1>1. PICK x : x = [status |-> "deleted", linkedAccountId |-> NoAccount]
  OBVIOUS
<1>2. x \in SomeImport /\ x.status = "deleted" /\ x.linkedAccountId = NoAccount
  BY <1>1 DEF SomeImport, ImportStatus
<1>3. s \in Statement
  BY DEF Present
<1>4. imports' = [imports EXCEPT ![s] = x]
  BY <1>1 DEF DeleteImport
<1>5. /\ ImportsOK' /\ imports'[s] = x
      /\ \A u \in Statement \ {s} : imports'[u] = imports[u]
  BY <1>2, <1>3, <1>4, ImportSet DEF SoundImports
<1>6. UNCHANGED <<rows, answers>>
  BY DEF DeleteImport
<1>7. txns' = [t \in Surviving(s) |-> txns[t]] /\ Surviving(s) \subseteq DOMAIN txns
  BY DEF DeleteImport, Surviving
<1>8. DOMAIN txns' \subseteq DOMAIN txns /\ \A t \in DOMAIN txns' : txns'[t] = txns[t]
  BY <1>7
<1>9. TxnsOK'
  <2>1. IsFiniteSet(DOMAIN txns')
    BY <1>8, FS_Subset DEF SoundImports, TxnsOK
  <2>2. txns' = [t \in DOMAIN txns' |-> txns'[t]]
    BY <1>7
  <2>3. \A t \in DOMAIN txns' : txns'[t] \in Txn
    BY <1>8 DEF SoundImports, TxnsOK
  <2> QED BY <1>8, <2>1, <2>2, <2>3 DEF SoundImports, TxnsOK
<1>10. NothingNew
  BY <1>2, <1>5, <1>6, <1>8 DEF NothingNew, Fresh
<1> QED BY <1>5, <1>6, <1>8, <1>9, <1>10, UnmarkedStep

\* The rows that a reading inserts have no account and are not posted.
LEMMA InsertedIs ==
  ASSUME TxnsOK, NEW s \in Statement, NEW r \in Run, txns' = Inserted(s, r)
  PROVE  /\ TxnsOK' /\ DOMAIN txns \subseteq DOMAIN txns'
         /\ \A t \in DOMAIN txns' :
              \/ t \in DOMAIN txns /\ txns'[t] = txns[t]
              \/ /\ t[1] = s /\ t[3] = r /\ txns'[t].journalBatchId = None
                 /\ txns'[t].confirmedAccountId = NoAccount /\ txns'[t].allocations = <<>>
<1>1. PICK new : new = {<<s, i, r>> : i \in DOMAIN Printed[s]}
  OBVIOUS
<1>2. /\ DOMAIN txns' = new \cup DOMAIN txns
      /\ \A t \in new : txns'[t] = ParsedTxn(Printed[s][t[2]])
      /\ \A t \in DOMAIN txns \ new : txns'[t] = txns[t]
      /\ txns' = [t \in DOMAIN txns' |-> txns'[t]]
  BY <1>1 DEF Inserted
<1>3. Printed[s] \in Seq([date : Date, amountCents : Int, payment : BOOLEAN])
  BY StatementAssumption
<1>4. ASSUME NEW t \in new
      PROVE  /\ t \in TxnId /\ t[1] = s /\ t[3] = r /\ txns'[t] \in Txn
             /\ txns'[t].journalBatchId = None
             /\ txns'[t].confirmedAccountId = NoAccount /\ txns'[t].allocations = <<>>
  <2>1. PICK i \in DOMAIN Printed[s] : t = <<s, i, r>>
    BY <1>1
  <2>2. PICK line : line = Printed[s][i]
    OBVIOUS
  <2>3. line \in [date : Date, amountCents : Int, payment : BOOLEAN]
    BY <1>3, <2>2, SeqElements
  <2>4. txns'[t] = ParsedTxn(line)
    BY <1>2, <2>1, <2>2
  <2>5. /\ ParsedTxn(line) \in Txn /\ ParsedTxn(line).journalBatchId = None
        /\ ParsedTxn(line).confirmedAccountId = NoAccount /\ ParsedTxn(line).allocations = <<>>
    BY <2>3 DEF ParsedTxn, Txn
  <2>6. t \in TxnId
    BY <2>1 DEF TxnId
  <2> QED BY <2>1, <2>4, <2>5, <2>6
<1>5. IsFiniteSet(new)
  <2>1. PICK n : n = Len(Printed[s])
    OBVIOUS
  <2>2. n \in Nat /\ DOMAIN Printed[s] = 1 .. n
    BY <1>3, <2>1, LenProperties
  <2>3. IsFiniteSet(1 .. n)
    BY <2>2, FS_Interval
  <2> DEFINE f == [i \in 1 .. n |-> <<s, i, r>>]
  <2>4. f \in Surjection(1 .. n, new)
    BY <1>1, <2>2 DEF Surjection
  <2> HIDE DEF f
  <2> QED BY <2>3, <2>4, FS_Surjection
<1>6. TxnsOK'
  <2>1. IsFiniteSet(DOMAIN txns')
    <3>1. PICK old : old = DOMAIN txns
      OBVIOUS
    <3>2. IsFiniteSet(old)
      BY <3>1 DEF TxnsOK
    <3>3. IsFiniteSet(new \cup old)
      BY <1>5, <3>2, FS_Union
    <3> QED BY <1>2, <3>1, <3>3
  <2>2. \A t \in DOMAIN txns' : txns'[t] \in Txn /\ t \in TxnId
    BY <1>2, <1>4 DEF TxnsOK
  <2> QED BY <1>2, <2>1, <2>2 DEF TxnsOK
<1> QED BY <1>2, <1>4, <1>6

LEMMA ExtractKeeps ==
  ASSUME PostingInv, NEW s \in Statement, NEW r \in Run, Extract(s, r)
  PROVE  PostingInv'
<1>1. imports[s].status = "uploaded" /\ UNCHANGED <<rows, answers>>
  BY DEF Extract
<1>2. s \in Present
  BY <1>1 DEF Present
<1>3. CASE SetStatus({s}, "failed") /\ UNCHANGED txns
  <2>1. /\ ImportsOK' /\ imports'[s].status = "failed"
        /\ \A u \in Statement \ {s} : imports'[u] = imports[u]
    BY <1>2, <1>3, StatusSet DEF PostingInv, SoundImports
  <2>2. TxnsOK'
    BY <1>3 DEF PostingInv, SoundImports, TxnsOK
  <2>3. UnreadHasNone'
    BY <1>1, <1>3, <2>1 DEF PostingInv, UnreadHasNone
  <2> QED BY <1>1, <1>3, <2>1, <2>2, <2>3, UnmarkedStep DEF PostingInv
<1>4. CASE SetStatus({s}, "extracted") /\ txns' = Inserted(s, r)
  <2>1. /\ ImportsOK' /\ imports'[s].status = "extracted"
        /\ \A u \in Statement \ {s} : imports'[u] = imports[u]
    BY <1>2, <1>4, StatusSet DEF PostingInv, SoundImports
  <2>2. /\ TxnsOK'
        /\ \A t \in DOMAIN txns' :
             \/ t \in DOMAIN txns /\ txns'[t] = txns[t]
             \/ t[1] = s /\ txns'[t].journalBatchId = None
    BY <1>4, InsertedIs DEF PostingInv, SoundImports
  <2>3. \A t : t[1] = s => PostingsOf(t) = {}
    BY <1>1 DEF PostingInv, SoundImports, UnreadHasNone, PostingsOf
  <2>4. UnreadHasNone'
    BY <1>1, <2>1, <2>2 DEF PostingInv, SoundImports, UnreadHasNone
  <2> QED BY <1>1, <2>1, <2>2, <2>3, <2>4, UnmarkedStep DEF PostingInv
<1> QED BY <1>3, <1>4 DEF Extract
-----------------------------------------------------------------------------
(* Posting, unposting and the journal page *)

\* One who posts: the first of the files, its account and whether it is a card's.
LEMMA PostStatementIs ==
  ASSUME imports \in [Statement -> SomeImport], NEW g, PostStatement(g)
  PROVE  \E primary \in FilesOf(g), T \in SUBSET DOMAIN txns, linked \in OrgAccount, card \in BOOLEAN :
           /\ T = Postable(TxnsOf(FilesOf(g))) /\ linked = imports[primary].linkedAccountId
           /\ card = (primary \in CardStatement /\ linked \in Liability)
           /\ \A s \in FilesOf(g) : imports[s].linkedAccountId = linked
           /\ \/ /\ T # {} /\ CreateBatch(PostingContent(T, linked, card), "posted", T, FALSE)
                 /\ txns' = Marked(T, Len(rows) + 1)
              \/ UNCHANGED <<rows, answers, txns>>
           /\ SetStatus(FilesOf(g), "imported") \/ UNCHANGED imports
<1>1. PICK T : T = Postable(TxnsOf(FilesOf(g)))
  OBVIOUS
<1>2. PICK rest : rest = ActiveUnposted(TxnsOf(FilesOf(g))) \ T
  OBVIOUS
<1>3. PICK primary \in FilesOf(g) :
        LET linked == imports[primary].linkedAccountId
            card   == primary \in CardStatement /\ linked \in Liability
        IN  /\ linked # NoAccount
            /\ \A s \in FilesOf(g) : imports[s].linkedAccountId = linked
            /\ \/ /\ T # {}
                  /\ \A t \in T :
                       AmountOf(Allocations(t, linked, card)) = Magnitude(txns[t].amountCents)
                  /\ CreateBatch(PostingContent(T, linked, card), "posted", T, FALSE)
                  /\ txns' = Marked(T, Len(rows) + 1)
               \/ /\ T = {} /\ rest = {}
                  /\ UNCHANGED <<rows, answers, txns>>
            /\ IF rest = {} THEN SetStatus(FilesOf(g), "imported") ELSE UNCHANGED imports
  BY <1>1, <1>2 DEF PostStatement
<1>4. PICK linked : linked = imports[primary].linkedAccountId
  OBVIOUS
<1>5. PICK card : card = (primary \in CardStatement /\ linked \in Liability)
  OBVIOUS
<1>6. card \in BOOLEAN
  BY <1>5
<1>7. linked \in OrgAccount
  <2>1. imports[primary] \in SomeImport
    BY DEF FilesOf, Present
  <2> QED BY <1>3, <1>4, <2>1 DEF SomeImport
<1>8. T \in SUBSET DOMAIN txns
  BY <1>1 DEF Postable, TxnsOf
<1>9. card = (primary \in CardStatement /\ imports[primary].linkedAccountId \in Liability)
  BY <1>4, <1>5
<1>10. /\ \A s \in FilesOf(g) : imports[s].linkedAccountId = linked
       /\ \/ /\ T # {} /\ CreateBatch(PostingContent(T, linked, card), "posted", T, FALSE)
             /\ txns' = Marked(T, Len(rows) + 1)
          \/ UNCHANGED <<rows, answers, txns>>
       /\ SetStatus(FilesOf(g), "imported") \/ UNCHANGED imports
  BY <1>3, <1>4, <1>9
<1> QED BY <1>1, <1>4, <1>5, <1>6, <1>7, <1>8, <1>10

LEMMA MarkedIs ==
  ASSUME TxnsOK, NEW T \in SUBSET DOMAIN txns, NEW b \in BatchId \cup {None},
         txns' = Marked(T, b)
  PROVE  /\ TxnsOK' /\ DOMAIN txns' = DOMAIN txns
         /\ \A t \in T : txns'[t].journalBatchId = b
         /\ \A t \in DOMAIN txns \ T : txns'[t] = txns[t]
<1>1. /\ DOMAIN txns' = DOMAIN txns /\ txns' = [t \in DOMAIN txns' |-> txns'[t]]
      /\ \A t \in T : txns'[t] = [txns[t] EXCEPT !.journalBatchId = b]
      /\ \A t \in DOMAIN txns \ T : txns'[t] = txns[t]
  BY DEF Marked
<1>2. \A t \in T : txns'[t] \in Txn /\ txns'[t].journalBatchId = b
  <2> TAKE t \in T
  <2>1. txns[t] \in Txn
    BY DEF TxnsOK
  <2> QED BY <1>1, <2>1 DEF Txn
<1>3. \A t \in DOMAIN txns' : txns'[t] \in Txn
  BY <1>1, <1>2 DEF TxnsOK
<1> QED BY <1>1, <1>2, <1>3 DEF TxnsOK

LEMMA GivenTyped ==
  ASSUME TxnsOK, NEW t \in DOMAIN txns, txns[t].confirmedAccountId # NoAccount
  PROVE  GivenTo(t) \subseteq OrgAccount
<1>1. txns[t] \in Txn
  BY DEF TxnsOK
<1>2. CASE txns[t].allocations = <<>>
  BY <1>1, <1>2 DEF GivenTo, Txn
<1>3. CASE txns[t].allocations # <<>>
  <2>1. PICK q : q = txns[t].allocations
    OBVIOUS
  <2>2. q \in Seq([account : OrgAccount, amountCents : Nat \ {0}])
    BY <1>1, <1>3, <2>1, StatementAssumption DEF Txn
  <2>3. \A i \in DOMAIN q : q[i] \in [account : OrgAccount, amountCents : Nat \ {0}]
    BY <2>2, SeqElements
  <2>4. GivenTo(t) = {q[i].account : i \in DOMAIN q}
    BY <1>3, <2>1 DEF GivenTo
  <2> QED BY <2>3, <2>4
<1> QED BY <1>2, <1>3

\* The content of a posting can be handed to the journal service.
LEMMA PostingSubmitted ==
  ASSUME TxnsOK, NEW T \in SUBSET DOMAIN txns,
         \A t \in T : txns[t].confirmedAccountId # NoAccount,
         NEW linked \in OrgAccount, NEW card \in BOOLEAN
  PROVE  PostingContent(T, linked, card) \in Submitted
<1>1. \A t \in T : GivenTo(t) \subseteq OrgAccount
  BY GivenTyped
<1>2. PICK ls : PostingContent(T, linked, card) = [memo |-> ImportMemo, lines |-> ls]
  BY DEF PostingContent
<1>3. ls \in Seq(LineOn(OrgAccount))
  BY <1>1, <1>2, PostingContentTyped
<1>4. Len(ls) \in Nat /\ ls \in [1 .. Len(ls) -> LineOn(OrgAccount)]
  BY <1>3, LenProperties
<1>5. LineOn(OrgAccount) \subseteq Line
  BY JournalAssumption DEF LineOn, Line
<1>6. ls \in Seq(Line)
  BY <1>4, <1>5, SeqDef
<1> QED BY <1>2, <1>6, StatementAssumption DEF Submitted

LEMMA PostKeeps ==
  ASSUME SoundImports, NEW g, PostStatement(g)
  PROVE  SoundImports' /\ NothingNew
<1>1. PICK primary \in FilesOf(g), T \in SUBSET DOMAIN txns, linked \in OrgAccount, card \in BOOLEAN :
           /\ T = Postable(TxnsOf(FilesOf(g))) /\ linked = imports[primary].linkedAccountId
           /\ card = (primary \in CardStatement /\ linked \in Liability)
           /\ \A s \in FilesOf(g) : imports[s].linkedAccountId = linked
           /\ \/ /\ T # {} /\ CreateBatch(PostingContent(T, linked, card), "posted", T, FALSE)
                 /\ txns' = Marked(T, Len(rows) + 1)
              \/ UNCHANGED <<rows, answers, txns>>
           /\ SetStatus(FilesOf(g), "imported") \/ UNCHANGED imports
  BY PostStatementIs DEF SoundImports, ImportsOK
<1>2. /\ ImportsOK'
      /\ \A s \in Statement : imports'[s].status \in {"absent", "uploaded"} =>
                                imports'[s] = imports[s]
  <2>1. CASE SetStatus(FilesOf(g), "imported")
    <3>1. FilesOf(g) \in SUBSET Present
      BY DEF FilesOf
    <3> QED BY <2>1, <3>1, StatusSet DEF SoundImports
  <2>2. CASE UNCHANGED imports
    BY <2>2 DEF SoundImports, ImportsOK, Present
  <2> QED BY <1>1, <2>1, <2>2
<1>3. CASE UNCHANGED <<rows, answers, txns>>
  <2>1. TxnsOK'
    BY <1>3 DEF SoundImports, TxnsOK
  <2>2. NothingNew
    BY <1>2, <1>3 DEF NothingNew, Fresh
  <2> QED BY <1>2, <1>3, <2>1, <2>2, UnmarkedStep
<1>4. CASE /\ T # {} /\ CreateBatch(PostingContent(T, linked, card), "posted", T, FALSE)
           /\ txns' = Marked(T, Len(rows) + 1)
  <2>1. PICK c, n : c = PostingContent(T, linked, card) /\ n = Len(rows) + 1
    OBVIOUS
  <2>2. TypeOK /\ TxnsOK /\ IndInv
    BY DEF SoundImports, IndInv
  <2>3. \A t \in T : /\ txns[t].confirmedAccountId # NoAccount
                     /\ txns[t].journalBatchId = None
    BY <1>1 DEF Postable
  <2>4. c \in Submitted
    BY <2>1, <2>2, <2>3, PostingSubmitted
  <2>5. T \in SourceKey /\ T # NoSource
    <3>1. T \in SUBSET TxnId
      BY <2>2 DEF TxnsOK
    <3> QED BY <1>4, <3>1, StatementAssumption, JournalAssumption
  <2>6. CreateBatch(c, "posted", T, FALSE)
    BY <1>4, <2>1
  <2>7. IndInv'
    BY <2>2, <2>4, <2>5, <2>6, SubmittedInv
  <2>8. /\ Len(rows') = n /\ n <= MaxBatches
        /\ DOMAIN rows' = DOMAIN rows \cup {n}
        /\ \A x \in DOMAIN rows : rows'[x] = rows[x]
        /\ rows'[n] = PlainRow(c, "posted", T, FALSE)
    BY <2>1, <2>2, <2>4, <2>5, <2>6, SubmittedEffect
  <2>9. n \in BatchId /\ n \notin DOMAIN rows /\ None \notin DOMAIN rows
    <3>1. Len(rows) \in 0 .. MaxBatches /\ DOMAIN rows = 1 .. Len(rows)
      BY <2>2, Table
    <3>2. n \in Int /\ 1 <= n
      BY <2>1, <3>1
    <3> QED BY <2>1, <2>8, <3>1, <3>2, JournalAssumption DEF BatchId, None
  <2>10. /\ rows'[n].status = "posted" /\ rows'[n].sourceType = "import" /\ rows'[n].source = T
         /\ rows'[n].supersedes = None /\ rows'[n].originalBatchId = None
    BY <2>5, <2>8 DEF PlainRow
  <2>11. /\ TxnsOK' /\ DOMAIN txns' = DOMAIN txns
         /\ \A t \in T : txns'[t].journalBatchId = n
         /\ \A t \in DOMAIN txns \ T : txns'[t] = txns[t]
    BY <1>4, <2>1, <2>2, <2>9, MarkedIs
  <2>12. PostingsOK'
    BY <2>5, <2>8, <2>10 DEF SoundImports, PostingsOK
  <2>13. NothingNew
    BY <1>2, <2>8, <2>10, <2>11 DEF NothingNew, Fresh
  <2>14. MarksOK'
    <3> SUFFICES ASSUME NEW t \in DOMAIN txns
                 PROVE  /\ txns'[t].journalBatchId # None =>
                             txns'[t].journalBatchId \in PostingsOf(t)'
                        /\ \A b \in PostingsOf(t)' : rows'[b].status = "posted" =>
                             b = txns'[t].journalBatchId
      BY <2>11 DEF MarksOK
    <3>1. PostingsOf(t)' = PostingsOf(t) \cup (IF t \in T THEN {n} ELSE {})
      BY <2>8, <2>9, <2>10 DEF PostingsOf
    <3>2. \A b \in PostingsOf(t) : b \in DOMAIN rows
      BY DEF PostingsOf
    <3>3. CASE t \in T
      <4>1. \A b \in PostingsOf(t) : rows'[b].status # "posted"
        BY <2>3, <2>8, <2>9, <3>2, <3>3 DEF SoundImports, MarksOK
      <4> QED BY <2>11, <3>1, <3>3, <4>1
    <3>4. CASE t \notin T
      <4>1. PostingsOf(t)' = PostingsOf(t) /\ txns'[t] = txns[t]
        BY <2>11, <3>1, <3>4
      <4> QED BY <2>8, <3>2, <4>1 DEF SoundImports, MarksOK
    <3> QED BY <3>3, <3>4
  <2> QED BY <1>2, <2>7, <2>11, <2>12, <2>13, <2>14 DEF SoundImports
<1> QED BY <1>1, <1>3, <1>4

\* Voiding keeps what ties batches to transactions.
LEMMA VoidStepPostings ==
  ASSUME SoundImports, NEW L, VoidStep(L)
  PROVE  /\ PostingsOK' /\ DOMAIN rows' = DOMAIN rows
         /\ \A t : PostingsOf(t)' = PostingsOf(t)
         /\ \A b \in DOMAIN rows : rows'[b].status = "posted" => rows[b].status = "posted"
         /\ \A b \in DOMAIN rows : rows'[b].sourceType = rows[b].sourceType
                                   /\ rows'[b].source = rows[b].source
<1>1. /\ DOMAIN rows' = DOMAIN rows
      /\ \A b \in DOMAIN rows : /\ rows'[b].sourceType = rows[b].sourceType
                                /\ rows'[b].source = rows[b].source
                                /\ rows'[b].supersedes = rows[b].supersedes
                                /\ rows'[b].originalBatchId = rows[b].originalBatchId
  BY DEF VoidStep, Kept
<1>2. PostingsOK'
  <2> SUFFICES ASSUME NEW b \in DOMAIN rows
               PROVE  /\ rows'[b].sourceType = "import" <=> rows'[b].source # NoSource
                      /\ rows'[b].sourceType = "import" =>
                           /\ rows'[b].supersedes = None /\ rows'[b].originalBatchId = None
                           /\ rows'[b].status \in {"posted", "voided"}
                           /\ rows'[b].status = "voided" => rows'[b].released
    BY <1>1 DEF PostingsOK
  <2>1. /\ rows[b].sourceType = "import" <=> rows[b].source # NoSource
        /\ rows[b].sourceType = "import" =>
             /\ rows[b].supersedes = None /\ rows[b].originalBatchId = None
             /\ rows[b].status \in {"posted", "voided"}
             /\ rows[b].status = "voided" => rows[b].released
    BY DEF SoundImports, PostingsOK
  <2>2. PICK was, new : was = rows[b] /\ new = rows'[b]
    OBVIOUS
  <2>3. CASE b \in L /\ rows[b].status = "posted"
    <3>1. new.status = "voided" /\ (new.released <=> was.source # NoSource)
      BY <2>2, <2>3 DEF VoidStep
    <3> QED BY <1>1, <2>1, <2>2, <3>1
  <2>4. CASE ~(b \in L /\ rows[b].status = "posted")
    <3>1. new.status = was.status /\ new.released = was.released
      BY <2>2, <2>4 DEF VoidStep
    <3> QED BY <1>1, <2>1, <2>2, <3>1
  <2> QED BY <2>3, <2>4
<1>3. \A t : PostingsOf(t)' = PostingsOf(t)
  BY <1>1 DEF PostingsOf
<1>4. \A b \in DOMAIN rows : rows'[b].status = "posted" => rows[b].status = "posted"
  BY DEF VoidStep
<1> QED BY <1>1, <1>2, <1>3, <1>4

LEMMA UnpostKeeps ==
  ASSUME SoundImports, NEW g, UnpostStatement(g)
  PROVE  SoundImports' /\ NothingNew
<1>1. PICK T : T = {t \in TxnsOf(FilesOf(g)) : txns[t].journalBatchId # None}
  OBVIOUS
<1>2. PICK B : B = {txns[t].journalBatchId : t \in T}
  OBVIOUS
<1>3. PICK L : L = Lifecycles(B)
  OBVIOUS
<1>4. /\ rows' = Unposted(B) /\ txns' = Marked(T, None) /\ UNCHANGED answers
      /\ SetStatus({s \in FilesOf(g) : imports[s].status = "imported"}, "extracted")
  BY <1>1, <1>2 DEF UnpostStatement
<1>5. T \in SUBSET DOMAIN txns
  BY <1>1 DEF TxnsOf
<1>6. VoidStep(L)
  BY <1>3, <1>4, UnpostedStep DEF SoundImports, IndInv
<1>7. \A b \in B : /\ b \in DOMAIN rows /\ rows[b].sourceType = "import"
                   /\ rows[b].supersedes = None /\ b \in UserFacing
  <2> TAKE b \in B
  <2>1. PICK t \in T : b = txns[t].journalBatchId
    BY <1>2
  <2>2. b \in PostingsOf(t)
    BY <1>1, <1>5, <2>1 DEF SoundImports, MarksOK
  <2> QED BY <2>2 DEF PostingsOf, SoundImports, PostingsOK, UserFacing
<1>8. B \subseteq L
  <2> SUFFICES ASSUME NEW b \in B PROVE b \in L
    OBVIOUS
  <2>1. IsRootOf(b, b) /\ b \in LifecycleOf(b)
    BY <1>7, OwnRoot
  <2> QED BY <1>3, <1>7, <2>1 DEF Lifecycles
<1>9. \A x \in DOMAIN rows : rows[x].originalBatchId # None =>
        (x \in L <=> rows[x].originalBatchId \in L)
  <2> SUFFICES ASSUME NEW x \in DOMAIN rows, rows[x].originalBatchId # None
               PROVE  x \in L <=> rows[x].originalBatchId \in L
    OBVIOUS
  <2>1. ASSUME NEW r \in DOMAIN rows, NEW b \in B, IsRootOf(r, b)
        PROVE  x \in LifecycleOf(r) <=> rows[x].originalBatchId \in LifecycleOf(r)
    BY <1>7, <2>1, LifecycleTakesBothOrNone DEF SoundImports, IndInv
  <2> QED BY <1>3, <2>1 DEF Lifecycles
<1>10. IndInv'
  BY <1>4, <1>6, <1>9, VoidStepInv DEF SoundImports
<1>11. /\ PostingsOK' /\ DOMAIN rows' = DOMAIN rows
       /\ \A t : PostingsOf(t)' = PostingsOf(t)
       /\ \A b \in DOMAIN rows : rows'[b].status = "posted" => rows[b].status = "posted"
       /\ \A b \in DOMAIN rows : rows'[b].sourceType = rows[b].sourceType
                                 /\ rows'[b].source = rows[b].source
  BY <1>6, VoidStepPostings
<1>12. \A b \in B : rows'[b].status # "posted"
  <2> TAKE b \in B
  <2>1. b \in L /\ b \in DOMAIN rows
    BY <1>7, <1>8
  <2> QED BY <1>6, <2>1 DEF VoidStep
<1>13. /\ TxnsOK' /\ DOMAIN txns' = DOMAIN txns
       /\ \A t \in T : txns'[t].journalBatchId = None
       /\ \A t \in DOMAIN txns \ T : txns'[t] = txns[t]
  BY <1>4, <1>5, MarkedIs DEF SoundImports
<1>14. /\ ImportsOK'
       /\ \A s \in Statement : imports'[s].status \in {"absent", "uploaded"} =>
                                 imports'[s] = imports[s]
  <2>1. {s \in FilesOf(g) : imports[s].status = "imported"} \in SUBSET Present
    BY DEF FilesOf
  <2> QED BY <1>4, <2>1, StatusSet DEF SoundImports
<1>15. NothingNew
  BY <1>11, <1>13, <1>14 DEF NothingNew, Fresh
<1>16. MarksOK'
  <2> SUFFICES ASSUME NEW t \in DOMAIN txns
               PROVE  /\ txns'[t].journalBatchId # None =>
                           txns'[t].journalBatchId \in PostingsOf(t)
                      /\ \A b \in PostingsOf(t) : rows'[b].status = "posted" =>
                           b = txns'[t].journalBatchId
    BY <1>11, <1>13 DEF MarksOK
  <2>1. \A b \in PostingsOf(t) : b \in DOMAIN rows
    BY DEF PostingsOf
  <2>2. CASE t \in T
    <3>1. \A b \in PostingsOf(t) : rows'[b].status # "posted"
      <4> SUFFICES ASSUME NEW b \in PostingsOf(t), rows'[b].status = "posted" PROVE FALSE
        OBVIOUS
      <4>1. b = txns[t].journalBatchId
        BY <1>11, <2>1 DEF SoundImports, MarksOK
      <4> QED BY <1>2, <1>12, <2>2, <4>1
    <3> QED BY <1>13, <2>2, <3>1
  <2>3. CASE t \notin T
    BY <1>11, <1>13, <2>1, <2>3 DEF SoundImports, MarksOK
  <2> QED BY <2>2, <2>3
<1> QED BY <1>10, <1>11, <1>13, <1>14, <1>15, <1>16 DEF SoundImports
-----------------------------------------------------------------------------
(* The journal page *)

\* What the journal page does to the batches changes nothing about their sources.
LEMMA JournalStep ==
  ASSUME PostingInv, UNCHANGED <<imports, txns>>, IndInv', PostingsOK',
         \A t : PostingsOf(t)' = PostingsOf(t),
         \A b \in DOMAIN rows : rows'[b].status = "posted" => rows[b].status = "posted",
         \A b \in DOMAIN rows' : rows'[b].sourceType = "import" =>
           /\ b \in DOMAIN rows /\ rows[b].sourceType = "import"
           /\ rows'[b].source = rows[b].source
  PROVE  PostingInv'
<1>1. ImportsOK' /\ TxnsOK'
  BY DEF PostingInv, SoundImports, ImportsOK, TxnsOK, Present
<1>2. UnreadHasNone'
  BY DEF PostingInv, SoundImports, UnreadHasNone
<1>3. MarksOK'
  <2> SUFFICES ASSUME NEW t \in DOMAIN txns
               PROVE  /\ txns[t].journalBatchId # None =>
                           txns[t].journalBatchId \in PostingsOf(t)
                      /\ \A b \in PostingsOf(t) : rows'[b].status = "posted" =>
                           b = txns[t].journalBatchId
    BY DEF MarksOK
  <2>1. \A b \in PostingsOf(t) : b \in DOMAIN rows
    BY DEF PostingsOf
  <2> QED BY <2>1 DEF PostingInv, SoundImports, MarksOK
<1> QED BY <1>1, <1>2, <1>3 DEF PostingInv, SoundImports

LEMMA VoidLifecycleKeeps ==
  ASSUME PostingInv, NEW b \in UserFacing, VoidLifecycle(b), UNCHANGED <<imports, txns>>
  PROVE  PostingInv'
<1>1. PICK r \in DOMAIN rows : rows' = Voided(LifecycleOf(r))
  BY DEF VoidLifecycle
<1>2. PICK L : L = LifecycleOf(r)
  OBVIOUS
<1>3. VoidStep(L)
  BY <1>1, <1>2, VoidedStep DEF PostingInv, SoundImports, IndInv
<1>4. IndInv'
  BY VoidInv DEF PostingInv, SoundImports
<1> QED BY <1>3, <1>4, VoidStepPostings, JournalStep DEF PostingInv

LEMMA AdjustKeeps ==
  ASSUME PostingInv, NEW b \in UserFacing, NEW c \in Content, AdjustBatch(b, c),
         UNCHANGED <<imports, txns>>
  PROVE  PostingInv'
<1>1. TypeOK /\ IndInv /\ IndInv' /\ b \in DOMAIN rows
  BY AdjustInv DEF PostingInv, SoundImports, IndInv, UserFacing
<1>2. PICK m, n, key : m = Len(rows) + 1 /\ n = Len(rows) + 2 /\ key = AdjustmentKey(b, c)
  OBVIOUS
<1>3. /\ DOMAIN rows' = DOMAIN rows \cup {m, n}
      /\ \A x \in DOMAIN rows \ {b} : rows'[x] = rows[x]
      /\ rows'[b] = [rows[b] EXCEPT !.audit = rows[b].audit \cup {"update"}]
      /\ rows'[m] = ReversalRow(b, key) /\ rows'[n] = RevisedRow(b, c, key, m)
  BY <1>1, <1>2, AdjustEffect
<1>4. /\ rows'[m].sourceType = "adjustment_reversal" /\ rows'[m].source = NoSource
      /\ rows'[n].sourceType = "adjustment" /\ rows'[n].source = NoSource
  BY <1>3 DEF ReversalRow, RevisedRow, PlainRow
<1>5. m \notin DOMAIN rows /\ n \notin DOMAIN rows
  BY <1>1, <1>2, Table
<1>6. /\ rows[b] \in Row
      /\ rows'[b].sourceType = rows[b].sourceType /\ rows'[b].source = rows[b].source
      /\ rows'[b].status = rows[b].status /\ rows'[b].released = rows[b].released
      /\ rows'[b].supersedes = rows[b].supersedes
      /\ rows'[b].originalBatchId = rows[b].originalBatchId
  BY <1>1, <1>3, Table DEF Row
<1>7. \A x \in DOMAIN rows :
        /\ rows'[x].sourceType = rows[x].sourceType /\ rows'[x].source = rows[x].source
        /\ rows'[x].status = rows[x].status /\ rows'[x].released = rows[x].released
        /\ rows'[x].supersedes = rows[x].supersedes
        /\ rows'[x].originalBatchId = rows[x].originalBatchId
  BY <1>3, <1>6
<1>8. PostingsOK'
  BY <1>3, <1>4, <1>7 DEF PostingInv, SoundImports, PostingsOK
<1>9. \A t : PostingsOf(t)' = PostingsOf(t)
  BY <1>3, <1>4, <1>5, <1>7 DEF PostingsOf
<1> QED BY <1>1, <1>3, <1>4, <1>7, <1>8, <1>9, JournalStep
-----------------------------------------------------------------------------
(* The theorems *)

LEMMA PostingStart ==
  ASSUME PostingInit
  PROVE  PostingInv
<1>1. IndInv
  BY InitInv DEF PostingInit
<1>2. rows = <<>> /\ DOMAIN rows = {}
  BY DEF PostingInit, Init
<1>3. txns = <<>> /\ DOMAIN txns = {}
  BY DEF PostingInit
<1>4. ImportsOK
  BY DEF PostingInit, ImportsOK, SomeImport, ImportStatus, Present
<1>5. TxnsOK
  <2>1. IsFiniteSet(DOMAIN txns)
    BY <1>3, FS_EmptySet
  <2>2. txns = [t \in DOMAIN txns |-> txns[t]]
    BY <1>3
  <2> QED BY <1>3, <2>1, <2>2 DEF TxnsOK
<1>6. PostingsOK /\ MarksOK /\ UnreadHasNone
  BY <1>2, <1>3 DEF PostingsOK, MarksOK, UnreadHasNone
<1> QED BY <1>1, <1>4, <1>5, <1>6 DEF PostingInv, SoundImports

LEMMA PostingStep ==
  ASSUME PostingInv, [PostingNext]_postingVars
  PROVE  PostingInv'
<1>1. ASSUME NEW s \in Statement, Upload(s) PROVE PostingInv'
  BY <1>1, UploadKeeps, UnreadKept DEF PostingInv
<1>2. ASSUME NEW s \in Statement, NEW r \in Run, Extract(s, r) PROVE PostingInv'
  BY <1>2, ExtractKeeps
<1>3. ASSUME NEW s \in Present, SetLinkedAccount(s) PROVE PostingInv'
  BY <1>3, LinkKeeps, UnreadKept DEF PostingInv
<1>4. ASSUME NEW s \in Present, DeleteImport(s) PROVE PostingInv'
  BY <1>4, DeleteKeeps, UnreadKept DEF PostingInv
<1>5. ASSUME NEW t \in DOMAIN txns, Review(t) PROVE PostingInv'
  BY <1>5, ReviewKeeps, UnreadKept DEF PostingInv
<1>6. ASSUME NEW excluded \in BOOLEAN, NEW g \in ImportBatch,
             BulkSetExcluded(TxnsOf(FilesOf(g)), excluded)
      PROVE  PostingInv'
  BY <1>6, BulkKeeps, UnreadKept DEF PostingInv
<1>7. ASSUME NEW g \in ImportBatch, PostStatement(g) PROVE PostingInv'
  BY <1>7, PostKeeps, UnreadKept DEF PostingInv
<1>8. ASSUME NEW g \in ImportBatch, UnpostStatement(g) PROVE PostingInv'
  BY <1>8, UnpostKeeps, UnreadKept DEF PostingInv
<1>9. ASSUME NEW b \in UserFacing, VoidLifecycle(b), UNCHANGED <<imports, txns>>
      PROVE  PostingInv'
  BY <1>9, VoidLifecycleKeeps
<1>10. ASSUME NEW b \in UserFacing, NEW c \in Content, AdjustBatch(b, c),
              UNCHANGED <<imports, txns>>
       PROVE  PostingInv'
  BY <1>10, AdjustKeeps
<1>11. CASE UNCHANGED postingVars
  <2>1. UNCHANGED <<rows, answers>> /\ UNCHANGED <<imports, txns>>
    BY <1>11 DEF postingVars
  <2>2. ImportsOK' /\ TxnsOK' /\ UnreadHasNone'
    BY <2>1 DEF PostingInv, SoundImports, ImportsOK, TxnsOK, UnreadHasNone, Present
  <2> QED BY <2>1, <2>2, UnmarkedStep DEF PostingInv
<1> QED BY <1>1, <1>2, <1>3, <1>4, <1>5, <1>6, <1>7, <1>8, <1>9, <1>10, <1>11
        DEF PostingNext, JournalPage

\* Whatever is uploaded, read, reviewed, posted, unposted or deleted, and whatever the
\* journal page makes of the postings meanwhile, the journal stays sound and no two
\* posted batches come from one transaction: statement-import-actions.ts,
\* posting-service.ts and the journal service write to the same tables.
THEOREM PostingsStaySound == PostingSpec => []PostingInv
<1>1. PostingInit => PostingInv
  BY PostingStart
<1>2. PostingInv /\ [PostingNext]_postingVars => PostingInv'
  BY PostingStep
<1> QED BY <1>1, <1>2, PTL DEF PostingSpec

LEMMA MarkedAreOnBooks ==
  ASSUME SoundImports
  PROVE  OnBooksOnce
<1> SUFFICES ASSUME NEW t \in DOMAIN txns
             PROVE  /\ \A b \in PostingsOf(t) : OnBooks(b) => b = txns[t].journalBatchId
                    /\ txns[t].journalBatchId # None =>
                         txns[t].journalBatchId \in PostingsOf(t)
  BY DEF OnBooksOnce
<1>1. ASSUME NEW b \in PostingsOf(t), OnBooks(b) PROVE b = txns[t].journalBatchId
  <2>1. b \in DOMAIN rows
    BY DEF PostingsOf
  <2>2. PICK x \in LifecycleOf(b) : rows[x].status = "posted"
    BY <1>1 DEF OnBooks
  <2>3. rows[b].status = "posted"
    BY <2>1, <2>2, LifecycleOneStatus DEF SoundImports
  <2> QED BY <2>3 DEF SoundImports, MarksOK
<1> QED BY <1>1 DEF SoundImports, MarksOK

\* posting-service.ts marks a transaction with the batch it is posted in: that batch
\* and its revisions are the only ones by which the transaction is ever on the books.
THEOREM PostedOnce == PostingSpec => []OnBooksOnce
<1>1. PostingInv => OnBooksOnce
  BY MarkedAreOnBooks DEF PostingInv
<1> QED BY <1>1, PostingsStaySound, PTL

LEMMA UnmarkedIsFree ==
  ASSUME SoundImports
  PROVE  RepostNeverBlocked
<1> SUFFICES ASSUME NEW g \in ImportBatch, NEW T, T = Postable(TxnsOf(FilesOf(g))), T # {}
             PROVE  SourceFree(T)
  BY DEF RepostNeverBlocked
<1>1. ASSUME NEW b \in DOMAIN rows, rows[b].source = T, ~rows[b].released PROVE FALSE
  <2>1. PICK t \in T : t \in DOMAIN txns /\ txns[t].journalBatchId = None
    BY DEF Postable, TxnsOf
  <2>2. T \in SUBSET TxnId
    BY DEF Postable, TxnsOf, SoundImports, TxnsOK
  <2>3. T \in SourceKey /\ T # NoSource
    BY <2>2, StatementAssumption, JournalAssumption
  <2>4. /\ rows[b].sourceType = "import" /\ rows[b].status \in {"posted", "voided"}
        /\ rows[b].status = "voided" => rows[b].released
    BY <1>1, <2>3 DEF SoundImports, PostingsOK
  <2>5. b \in PostingsOf(t)
    BY <1>1, <2>1, <2>4 DEF PostingsOf
  <2>6. rows[b].status = "posted" /\ b = None
    BY <1>1, <2>1, <2>4, <2>5 DEF SoundImports, MarksOK
  <2>7. None \notin DOMAIN rows
    BY Table DEF SoundImports, IndInv, None
  <2> QED BY <2>6, <2>7
<1> QED BY <1>1 DEF SourceFree

\* Unposting or voiding gives the source key back (sourceRef and its unique index in
\* the journal service), so that what is to be posted again is never refused.
THEOREM RepostAlwaysFree == PostingSpec => []RepostNeverBlocked
<1>1. PostingInv => RepostNeverBlocked
  BY UnmarkedIsFree DEF PostingInv
<1> QED BY <1>1, PostingsStaySound, PTL
-----------------------------------------------------------------------------
(* What the imports promise *)

\* A transaction goes with its file.
FilesThere == \A t \in DOMAIN txns : t[1] \in Present

\* No two batches on the books have a transaction in common, also one that is no
\* longer in the table.
Apart ==
  \A b, c \in PostedImports : b # c => rows[b].source \cap rows[c].source = {}

BookInv == SoundImports /\ FilesThere /\ Apart

BookKept == FilesThere' /\ Apart'

BookMoves == [Book!Next]_(Book!bookVars)

Sources == {rows[b].source : b \in PostedImports}

\* The posted batches and what they were made from stay.
SamePostings ==
  /\ PostedImports' = PostedImports
  /\ \A b \in PostedImports : rows'[b].source = rows[b].source

LEMMA SameSources ==
  ASSUME SamePostings
  PROVE  Sources' = Sources /\ (Apart => Apart')
BY DEF SamePostings, Sources, Apart

LEMMA SameRowsSamePostings ==
  ASSUME UNCHANGED rows
  PROVE  SamePostings
BY DEF SamePostings, PostedImports

\* A step that shows nothing.
LEMMA NothingShown ==
  ASSUME BookInv, SamePostings, DOMAIN txns' = DOMAIN txns, \A s \in Present : s \in Present'
  PROVE  BookMoves /\ BookKept
<1>1. Sources' = Sources /\ Apart'
  BY SameSources DEF BookInv
<1>2. FilesThere'
  BY DEF BookInv, FilesThere
<1> QED BY <1>1, <1>2 DEF BookMoves, BookKept, Sources, Book!bookVars

\* A step that brings or discards lines.
LEMMA ReadShown ==
  ASSUME BookInv, UNCHANGED rows, NEW T \in SUBSET TxnId, T \cap DOMAIN txns = {},
         \A b \in PostedImports : T \cap rows[b].source = {},
         DOMAIN txns' = DOMAIN txns \cup T, FilesThere'
  PROVE  BookMoves /\ BookKept
<1>1. Sources' = Sources /\ Apart'
  BY SameRowsSamePostings, SameSources DEF BookInv
<1>2. T \cap (DOMAIN txns \cup UNION Sources) = {}
  BY DEF Sources
<1>3. Book!Read(T)
  BY <1>1, <1>2 DEF Book!Read, Book!OnTheBooks, Sources
<1>4. Book!Next
  BY <1>3 DEF Book!Next
<1> QED BY <1>1, <1>4 DEF BookMoves, BookKept

LEMMA DiscardShown ==
  ASSUME BookInv, UNCHANGED rows, NEW T \in SUBSET DOMAIN txns,
         DOMAIN txns' = (DOMAIN txns) \ T, FilesThere'
  PROVE  BookMoves /\ BookKept
<1>1. Sources' = Sources /\ Apart'
  BY SameRowsSamePostings, SameSources DEF BookInv
<1>2. Book!Discard(T)
  BY <1>1 DEF Book!Discard, Sources
<1>3. Book!Next
  BY <1>2 DEF Book!Next
<1> QED BY <1>1, <1>3 DEF BookMoves, BookKept

LEMMA PresentSet ==
  ASSUME ImportsOK, NEW S \in SUBSET Present, NEW st \in {"extracting", "extracted", "failed", "imported"},
         SetStatus(S, st)
  PROVE  \A s \in Present : s \in Present'
<1>1. /\ \A s \in S : imports'[s].status = st
      /\ \A s \in Statement \ S : imports'[s] = imports[s]
  BY StatusSet
<1> QED BY <1>1 DEF Present

LEMMA UploadShown ==
  ASSUME BookInv, NEW s \in Statement, Upload(s)
  PROVE  BookMoves /\ BookKept
<1>1. PICK a : imports' = [imports EXCEPT ![s] = [status |-> "uploaded", linkedAccountId |-> a]]
  BY DEF Upload
<1>2. \A u \in Present : u \in Present'
  BY <1>1 DEF Present, BookInv, SoundImports, ImportsOK
<1>3. UNCHANGED <<rows, txns>>
  BY DEF Upload
<1> QED BY <1>2, <1>3, SameRowsSamePostings, NothingShown

LEMMA LinkShown ==
  ASSUME BookInv, NEW s \in Present, SetLinkedAccount(s)
  PROVE  BookMoves /\ BookKept
<1>1. PICK a : imports' = [imports EXCEPT ![s].linkedAccountId = a]
  BY DEF SetLinkedAccount
<1>2. s \in Statement /\ imports \in [Statement -> SomeImport]
  BY DEF BookInv, SoundImports, ImportsOK, Present
<1>3. \A u \in Statement : imports'[u].status = imports[u].status
  <2>1. PICK x : x = [imports[s] EXCEPT !.linkedAccountId = a]
    OBVIOUS
  <2>2. x.status = imports[s].status
    BY <1>2, <2>1 DEF SomeImport
  <2>3. imports' = [imports EXCEPT ![s] = x]
    BY <1>1, <2>1
  <2> QED BY <1>2, <2>2, <2>3
<1>4. \A u \in Present : u \in Present'
  BY <1>3 DEF Present
<1>5. UNCHANGED <<rows, txns>>
  BY DEF SetLinkedAccount
<1> QED BY <1>4, <1>5, SameRowsSamePostings, NothingShown

LEMMA ReviewShown ==
  ASSUME BookInv, NEW t \in DOMAIN txns, Review(t)
  PROVE  BookMoves /\ BookKept
<1>1. DOMAIN txns' = DOMAIN txns
  BY DEF Review, Categorize, Allocate, ToggleExcluded, Describe, SetTxn
<1>2. UNCHANGED <<rows, imports>>
  BY DEF Review, Categorize, Allocate, ToggleExcluded, Describe
<1>3. \A s \in Present : s \in Present'
  BY <1>2 DEF Present
<1> QED BY <1>1, <1>2, <1>3, SameRowsSamePostings, NothingShown

LEMMA BulkShown ==
  ASSUME BookInv, NEW T, NEW excluded, BulkSetExcluded(T, excluded)
  PROVE  BookMoves /\ BookKept
<1>1. DOMAIN txns' = DOMAIN txns /\ UNCHANGED <<rows, imports>>
  BY DEF BulkSetExcluded
<1>2. \A s \in Present : s \in Present'
  BY <1>1 DEF Present
<1> QED BY <1>1, <1>2, SameRowsSamePostings, NothingShown

LEMMA ExtractShown ==
  ASSUME BookInv, UnreadHasNone, NEW s \in Statement, NEW r \in Run, Extract(s, r)
  PROVE  BookMoves /\ BookKept
<1>1. imports[s].status = "uploaded" /\ UNCHANGED rows /\ s \in Present
  BY DEF Extract, Present
<1>2. ImportsOK /\ TxnsOK /\ {s} \in SUBSET Present
  BY <1>1 DEF BookInv, SoundImports
<1>3. CASE SetStatus({s}, "failed") /\ UNCHANGED txns
  <2>1. \A u \in Present : u \in Present'
    BY <1>2, <1>3, PresentSet
  <2> QED BY <1>1, <1>3, <2>1, SameRowsSamePostings, NothingShown
<1>4. CASE SetStatus({s}, "extracted") /\ txns' = Inserted(s, r)
  <2>1. \A u \in Present : u \in Present'
    BY <1>2, <1>4, PresentSet
  <2>2. /\ TxnsOK' /\ DOMAIN txns \subseteq DOMAIN txns'
        /\ \A t \in DOMAIN txns' : t \in DOMAIN txns \/ t[1] = s
    BY <1>2, <1>4, InsertedIs
  <2>3. PICK T : T = (DOMAIN txns') \ (DOMAIN txns)
    OBVIOUS
  <2>4. T \in SUBSET TxnId /\ T \cap DOMAIN txns = {} /\ DOMAIN txns' = DOMAIN txns \cup T
    BY <2>2, <2>3 DEF TxnsOK
  <2>5. \A t \in T : t[1] = s
    BY <2>2, <2>3
  <2>6. \A b \in PostedImports : T \cap rows[b].source = {}
    BY <1>1, <2>5 DEF UnreadHasNone, PostedImports
  <2>7. FilesThere'
    BY <1>1, <2>1, <2>2 DEF BookInv, FilesThere
  <2> QED BY <1>1, <2>4, <2>6, <2>7, ReadShown
<1> QED BY <1>3, <1>4 DEF Extract

LEMMA DeleteShown ==
  ASSUME BookInv, NEW s \in Present, DeleteImport(s)
  PROVE  BookMoves /\ BookKept
<1>1. PICK T : T = TxnsOf({s})
  OBVIOUS
<1>2. T \in SUBSET DOMAIN txns /\ DOMAIN txns' = (DOMAIN txns) \ T /\ UNCHANGED rows
  BY <1>1 DEF DeleteImport, Surviving, TxnsOf
<1>3. \A u \in Present : u # s => u \in Present'
  BY DEF DeleteImport, Present, BookInv, SoundImports, ImportsOK
<1>4. FilesThere'
  <2>1. \A t \in DOMAIN txns' : t \in DOMAIN txns /\ t[1] # s
    BY <1>1, <1>2 DEF TxnsOf
  <2> QED BY <1>3, <2>1 DEF BookInv, FilesThere
<1> QED BY <1>2, <1>4, DiscardShown

\* Of the batches made from transactions, a lifecycle has the one it starts with at most.
LEMMA LifecyclePostings ==
  ASSUME IndInv, PostingsOK, NEW r \in DOMAIN rows, NEW b \in LifecycleOf(r),
         b \in DOMAIN rows, rows[b].sourceType = "import"
  PROVE  b = r
<1> DEFINE S == {d \in DOMAIN rows : d = r \/ rows[d].supersedes # None}
<1>1. None \notin DOMAIN rows
  BY Table DEF IndInv, BatchId, None
<1>2. r \in S /\ S \in SUBSET DOMAIN rows /\ ChildrenOf(S) \subseteq S
  BY <1>1 DEF ChildrenOf
<1>3. rows[b].supersedes = None /\ b \notin ReversalsOf(Descendants(r))
  BY DEF PostingsOK, ReversalsOf
<1>4. b \in Descendants(r)
  BY <1>3 DEF LifecycleOf
<1> HIDE DEF S
<1>5. b \in S
  BY <1>2, <1>4 DEF Descendants
<1> QED BY <1>3, <1>5 DEF S

\* Voiding takes exactly the posted batches of L away.
LEMMA VoidStepPosted ==
  ASSUME BookInv, NEW L, VoidStep(L)
  PROVE  /\ PostedImports' = PostedImports \ L
         /\ \A b \in PostedImports : rows'[b].source = rows[b].source
         /\ Apart'
<1>1. /\ DOMAIN rows' = DOMAIN rows
      /\ \A b \in DOMAIN rows : rows'[b].sourceType = rows[b].sourceType
                                /\ rows'[b].source = rows[b].source
  BY VoidStepPostings DEF BookInv
<1>2. \A b \in DOMAIN rows :
        rows'[b].status = "posted" <=> rows[b].status = "posted" /\ b \notin L
  BY DEF VoidStep
<1>3. PostedImports' = PostedImports \ L
  BY <1>1, <1>2 DEF PostedImports
<1>4. \A b \in PostedImports : rows'[b].source = rows[b].source
  BY <1>1 DEF PostedImports
<1> QED BY <1>3, <1>4 DEF BookInv, Apart

LEMMA VoidShown ==
  ASSUME BookInv, NEW b \in UserFacing, VoidLifecycle(b), UNCHANGED <<imports, txns>>
  PROVE  BookMoves /\ BookKept
<1>1. PICK r \in DOMAIN rows : rows[r].supersedes = None /\ rows' = Voided(LifecycleOf(r))
  BY DEF VoidLifecycle, IsRootOf
<1>2. PICK L : L = LifecycleOf(r)
  OBVIOUS
<1>3. TypeOK /\ IndInv /\ PostingsOK
  BY DEF BookInv, SoundImports, IndInv
<1>4. VoidStep(L)
  BY <1>1, <1>2, <1>3, VoidedStep
<1>5. /\ PostedImports' = PostedImports \ L
      /\ \A x \in PostedImports : rows'[x].source = rows[x].source
      /\ Apart'
  BY <1>4, VoidStepPosted
<1>6. r \in L /\ \A x \in PostedImports : x \in L => x = r
  BY <1>1, <1>2, <1>3, OwnRoot, LifecyclePostings DEF PostedImports
<1>7. FilesThere'
  BY DEF BookInv, FilesThere, Present
<1>8. CASE r \notin PostedImports
  <2>1. SamePostings
    BY <1>5, <1>6, <1>8 DEF SamePostings
  <2>2. \A s \in Present : s \in Present'
    BY DEF Present
  <2> QED BY <2>1, <2>2, NothingShown
<1>9. CASE r \in PostedImports
  <2>1. PICK T : T = rows[r].source
    OBVIOUS
  <2>2. T # {}
    BY <1>3, <1>9, <2>1, SourceTyped DEF PostedImports
  <2>3. \A x \in PostedImports : x # r => rows[x].source # T
    BY <1>9, <2>1, <2>2 DEF BookInv, Apart
  <2>4. PostedImports' = PostedImports \ {r}
    BY <1>5, <1>6
  <2>5. Sources' = Sources \ {T}
    BY <1>5, <2>1, <2>3, <2>4 DEF Sources
  <2>6. Book!TakeBack(T) /\ T \in Sources
    BY <1>9, <2>1, <2>5 DEF Book!TakeBack, Sources
  <2>7. Book!Next
    BY <2>6 DEF Book!Next, Sources
  <2> QED BY <1>5, <1>7, <2>7 DEF BookMoves, BookKept
<1> QED BY <1>8, <1>9

LEMMA UnpostShown ==
  ASSUME BookInv, NEW g \in ImportBatch, UnpostStatement(g)
  PROVE  BookMoves /\ BookKept
<1>1. PICK T : T = {t \in TxnsOf(FilesOf(g)) : txns[t].journalBatchId # None}
  OBVIOUS
<1>2. PICK B : B = {txns[t].journalBatchId : t \in T}
  OBVIOUS
<1>3. PICK L : L = Lifecycles(B)
  OBVIOUS
<1>4. /\ rows' = Unposted(B) /\ txns' = Marked(T, None)
      /\ SetStatus({s \in FilesOf(g) : imports[s].status = "imported"}, "extracted")
  BY <1>1, <1>2 DEF UnpostStatement
<1>5. SoundImports /\ TypeOK /\ IndInv /\ PostingsOK /\ ImportsOK
  BY DEF BookInv, SoundImports, IndInv
<1>6. VoidStep(L)
  BY <1>3, <1>4, <1>5, UnpostedStep
<1>7. /\ PostedImports' = PostedImports \ L
      /\ \A x \in PostedImports : rows'[x].source = rows[x].source
      /\ Apart'
  BY <1>6, VoidStepPosted
<1>8. PICK Lines : Lines = Book!LinesOf(g)
  OBVIOUS
<1>9. \A t : t \in Lines <=> t \in DOMAIN txns /\ BatchOf[t[1]] = g
  <2>1. \A t \in DOMAIN txns : [u \in TxnId |-> BatchOf[u[1]]][t] = BatchOf[t[1]]
    BY <1>5 DEF SoundImports, TxnsOK
  <2> QED BY <1>8, <2>1 DEF Book!LinesOf
<1>10. \A x \in B : x \in DOMAIN rows /\ rows[x].sourceType = "import" /\ rows[x].supersedes = None
  BY <1>1, <1>2, <1>5 DEF SoundImports, MarksOK, PostingsOf, PostingsOK, TxnsOf
<1>11. \A x \in PostedImports : x \in L <=> x \in B
  <2> SUFFICES ASSUME NEW x \in PostedImports PROVE x \in L <=> x \in B
    OBVIOUS
  <2>1. x \in DOMAIN rows /\ rows[x].sourceType = "import"
    BY DEF PostedImports
  <2>2. ASSUME x \in B PROVE x \in L
    <3>1. IsRootOf(x, x) /\ x \in LifecycleOf(x)
      BY <1>10, <2>2, OwnRoot
    <3> QED BY <1>3, <2>1, <2>2, <3>1 DEF Lifecycles
  <2>3. ASSUME x \in L PROVE x \in B
    <3>1. PICK r \in DOMAIN rows : x \in LifecycleOf(r) /\ \E b \in B : IsRootOf(r, b)
      BY <1>3, <2>3 DEF Lifecycles
    <3>2. PICK b \in B : IsRootOf(r, b)
      BY <3>1
    <3>3. b \in LifecycleOf(r)
      BY <3>2 DEF IsRootOf, LifecycleOf
    <3>4. b = r /\ x = r
      BY <1>5, <1>10, <2>1, <3>1, <3>3, LifecyclePostings
    <3> QED BY <3>4
  <2> QED BY <2>2, <2>3
<1>12. \A x \in PostedImports : x \in B <=> rows[x].source \cap Lines # {}
  <2> SUFFICES ASSUME NEW x \in PostedImports PROVE x \in B <=> rows[x].source \cap Lines # {}
    OBVIOUS
  <2>1. x \in DOMAIN rows /\ rows[x].sourceType = "import" /\ rows[x].status = "posted" /\ x # None
    BY <1>5, Table DEF PostedImports, BatchId, None
  <2>2. ASSUME x \in B PROVE rows[x].source \cap Lines # {}
    <3>1. PICK t \in T : x = txns[t].journalBatchId
      BY <1>2, <2>2
    <3>2. t \in DOMAIN txns /\ BatchOf[t[1]] = g /\ txns[t].journalBatchId # None
      BY <1>1 DEF TxnsOf, FilesOf
    <3>3. t \in rows[x].source
      BY <1>5, <3>1, <3>2 DEF SoundImports, MarksOK, PostingsOf
    <3> QED BY <1>9, <3>2, <3>3
  <2>3. ASSUME rows[x].source \cap Lines # {} PROVE x \in B
    <3>1. PICK t \in rows[x].source : t \in DOMAIN txns /\ BatchOf[t[1]] = g
      BY <1>9, <2>3
    <3>2. x = txns[t].journalBatchId
      BY <1>5, <2>1, <3>1 DEF SoundImports, MarksOK, PostingsOf
    <3>3. t[1] \in FilesOf(g)
      BY <3>1 DEF BookInv, FilesThere, FilesOf
    <3>4. t \in T
      BY <1>1, <2>1, <3>1, <3>2, <3>3 DEF TxnsOf
    <3> QED BY <1>2, <3>2, <3>4
  <2> QED BY <2>2, <2>3
<1>13. PostedImports' = {x \in PostedImports : rows[x].source \cap Lines = {}}
  BY <1>7, <1>11, <1>12
<1>14. Sources' = {S \in Sources : S \cap Lines = {}}
  BY <1>7, <1>13 DEF Sources
<1>15. DOMAIN txns' = DOMAIN txns
  BY <1>4 DEF Marked
<1>16. FilesThere'
  <2>1. {s \in FilesOf(g) : imports[s].status = "imported"} \in SUBSET Present
    BY DEF FilesOf
  <2>2. \A s \in Present : s \in Present'
    BY <1>4, <1>5, <2>1, PresentSet
  <2> QED BY <1>15, <2>2 DEF BookInv, FilesThere
<1>17. Book!Unpost(g)
  BY <1>8, <1>14, <1>15 DEF Book!Unpost, Sources
<1>18. Book!Next
  BY <1>17 DEF Book!Next
<1> QED BY <1>7, <1>16, <1>18 DEF BookMoves, BookKept

LEMMA AdjustShown ==
  ASSUME BookInv, NEW b \in UserFacing, NEW c \in Content, AdjustBatch(b, c),
         UNCHANGED <<imports, txns>>
  PROVE  BookMoves /\ BookKept
<1>1. TypeOK /\ b \in DOMAIN rows
  BY DEF BookInv, SoundImports, IndInv, UserFacing
<1>2. PICK m, n, key : m = Len(rows) + 1 /\ n = Len(rows) + 2 /\ key = AdjustmentKey(b, c)
  OBVIOUS
<1>3. /\ DOMAIN rows' = DOMAIN rows \cup {m, n}
      /\ \A x \in DOMAIN rows \ {b} : rows'[x] = rows[x]
      /\ rows'[b] = [rows[b] EXCEPT !.audit = rows[b].audit \cup {"update"}]
      /\ rows'[m] = ReversalRow(b, key) /\ rows'[n] = RevisedRow(b, c, key, m)
  BY <1>1, <1>2, AdjustEffect
<1>4. rows'[m].sourceType # "import" /\ rows'[n].sourceType # "import"
  BY <1>3 DEF ReversalRow, RevisedRow, PlainRow
<1>5. \A x \in DOMAIN rows : /\ rows'[x].sourceType = rows[x].sourceType
                             /\ rows'[x].source = rows[x].source
                             /\ rows'[x].status = rows[x].status
  BY <1>1, <1>3, Table DEF Row
<1>6. SamePostings
  BY <1>3, <1>4, <1>5 DEF SamePostings, PostedImports
<1>7. \A s \in Present : s \in Present'
  BY DEF Present
<1> QED BY <1>6, <1>7, NothingShown

LEMMA PostShown ==
  ASSUME BookInv, NEW g \in ImportBatch, PostStatement(g)
  PROVE  BookMoves /\ BookKept
<1>1. PICK primary \in FilesOf(g), T \in SUBSET DOMAIN txns, linked \in OrgAccount, card \in BOOLEAN :
           /\ T = Postable(TxnsOf(FilesOf(g))) /\ linked = imports[primary].linkedAccountId
           /\ card = (primary \in CardStatement /\ linked \in Liability)
           /\ \A s \in FilesOf(g) : imports[s].linkedAccountId = linked
           /\ \/ /\ T # {} /\ CreateBatch(PostingContent(T, linked, card), "posted", T, FALSE)
                 /\ txns' = Marked(T, Len(rows) + 1)
              \/ UNCHANGED <<rows, answers, txns>>
           /\ SetStatus(FilesOf(g), "imported") \/ UNCHANGED imports
  BY PostStatementIs DEF BookInv, SoundImports, ImportsOK
<1>2. TypeOK /\ TxnsOK /\ ImportsOK /\ SoundImports
  BY DEF BookInv, SoundImports, IndInv
<1>3. \A s \in Present : s \in Present'
  <2>1. CASE SetStatus(FilesOf(g), "imported")
    <3>1. FilesOf(g) \in SUBSET Present
      BY DEF FilesOf
    <3> QED BY <1>2, <2>1, <3>1, PresentSet
  <2>2. CASE UNCHANGED imports
    BY <2>2 DEF Present
  <2> QED BY <1>1, <2>1, <2>2
<1>4. CASE UNCHANGED <<rows, answers, txns>>
  BY <1>3, <1>4, SameRowsSamePostings, NothingShown
<1>5. CASE /\ T # {} /\ CreateBatch(PostingContent(T, linked, card), "posted", T, FALSE)
           /\ txns' = Marked(T, Len(rows) + 1)
  <2>1. PICK c, n : c = PostingContent(T, linked, card) /\ n = Len(rows) + 1
    OBVIOUS
  <2>2. \A t \in T : /\ txns[t].confirmedAccountId # NoAccount
                     /\ txns[t].journalBatchId = None
                     /\ BatchOf[t[1]] = g
    BY <1>1 DEF Postable, TxnsOf, FilesOf
  <2>3. c \in Submitted
    BY <1>2, <2>1, <2>2, PostingSubmitted
  <2>4. T \in SUBSET TxnId
    BY <1>2 DEF TxnsOK
  <2>5. T \in SourceKey /\ T # NoSource
    BY <1>5, <2>4, StatementAssumption, JournalAssumption
  <2>6. CreateBatch(c, "posted", T, FALSE)
    BY <1>5, <2>1
  <2>7. /\ DOMAIN rows' = DOMAIN rows \cup {n}
        /\ \A x \in DOMAIN rows : rows'[x] = rows[x]
        /\ rows'[n] = PlainRow(c, "posted", T, FALSE)
    BY <1>2, <2>1, <2>3, <2>5, <2>6, SubmittedEffect
  <2>8. n \notin DOMAIN rows /\ None \notin DOMAIN rows
    <3>1. Len(rows) \in Nat /\ DOMAIN rows = 1 .. Len(rows)
      BY <1>2, Table
    <3> QED BY <2>1, <3>1 DEF None
  <2>9. rows'[n].status = "posted" /\ rows'[n].sourceType = "import" /\ rows'[n].source = T
    BY <2>5, <2>7 DEF PlainRow
  <2>10. PostedImports' = PostedImports \cup {n} /\ n \notin PostedImports
    BY <2>7, <2>8, <2>9 DEF PostedImports
  <2>11. \A x \in PostedImports : rows'[x].source = rows[x].source
    BY <2>7 DEF PostedImports
  <2>12. \A x \in PostedImports : rows[x].source \cap T = {}
    <3> SUFFICES ASSUME NEW x \in PostedImports, NEW t \in T, t \in rows[x].source PROVE FALSE
      OBVIOUS
    <3>1. x \in DOMAIN rows /\ x \in PostingsOf(t) /\ rows[x].status = "posted"
      BY DEF PostedImports, PostingsOf
    <3>2. x = txns[t].journalBatchId
      BY <1>2, <3>1 DEF SoundImports, MarksOK
    <3> QED BY <2>2, <2>8, <3>1, <3>2
  <2>13. Sources' = Sources \cup {T}
    BY <2>9, <2>10, <2>11 DEF Sources
  <2>14. Apart'
    BY <2>9, <2>10, <2>11, <2>12 DEF BookInv, Apart
  <2>15. DOMAIN txns' = DOMAIN txns
    BY <1>5 DEF Marked
  <2>16. FilesThere'
    BY <1>3, <2>15 DEF BookInv, FilesThere
  <2>17. T \in SUBSET Book!LinesOf(g)
    BY <2>2, <2>4 DEF Book!LinesOf
  <2>18. Book!Post(g, T)
    <3>1. T \cap UNION Sources = {}
      BY <2>12 DEF Sources
    <3> QED BY <1>5, <2>13, <2>15, <3>1 DEF Book!Post, Book!OnTheBooks, Sources
  <2>19. Book!Next
    BY <2>17, <2>18 DEF Book!Next
  <2> QED BY <2>14, <2>16, <2>19 DEF BookMoves, BookKept
<1> QED BY <1>1, <1>4, <1>5

LEMMA BookStart ==
  ASSUME PostingInit
  PROVE  PostingInv /\ BookInv /\ Book!Init
<1>1. rows = <<>> /\ DOMAIN rows = {} /\ txns = <<>> /\ DOMAIN txns = {}
  BY DEF PostingInit, Init
<1>2. PostedImports = {}
  BY <1>1 DEF PostedImports
<1> QED BY <1>1, <1>2, PostingStart DEF PostingInv, BookInv, FilesThere, Apart, Book!Init

LEMMA StepShown ==
  ASSUME BookInv, UnreadHasNone, [PostingNext]_postingVars
  PROVE  BookMoves /\ BookKept
<1>1. ASSUME NEW s \in Statement, Upload(s) PROVE BookMoves /\ BookKept
  BY <1>1, UploadShown
<1>2. ASSUME NEW s \in Statement, NEW r \in Run, Extract(s, r) PROVE BookMoves /\ BookKept
  BY <1>2, ExtractShown
<1>3. ASSUME NEW s \in Present, SetLinkedAccount(s) PROVE BookMoves /\ BookKept
  BY <1>3, LinkShown
<1>4. ASSUME NEW s \in Present, DeleteImport(s) PROVE BookMoves /\ BookKept
  BY <1>4, DeleteShown
<1>5. ASSUME NEW t \in DOMAIN txns, Review(t) PROVE BookMoves /\ BookKept
  BY <1>5, ReviewShown
<1>6. ASSUME NEW excluded \in BOOLEAN, NEW g \in ImportBatch,
             BulkSetExcluded(TxnsOf(FilesOf(g)), excluded)
      PROVE  BookMoves /\ BookKept
  <2>1. PICK T : T = TxnsOf(FilesOf(g))
    OBVIOUS
  <2> QED BY <1>6, <2>1, BulkShown
<1>7. ASSUME NEW g \in ImportBatch, PostStatement(g) PROVE BookMoves /\ BookKept
  BY <1>7, PostShown
<1>8. ASSUME NEW g \in ImportBatch, UnpostStatement(g) PROVE BookMoves /\ BookKept
  BY <1>8, UnpostShown
<1>9. ASSUME NEW b \in UserFacing, VoidLifecycle(b), UNCHANGED <<imports, txns>>
      PROVE  BookMoves /\ BookKept
  BY <1>9, VoidShown
<1>10. ASSUME NEW b \in UserFacing, NEW c \in Content, AdjustBatch(b, c),
              UNCHANGED <<imports, txns>>
       PROVE  BookMoves /\ BookKept
  BY <1>10, AdjustShown
<1>11. CASE UNCHANGED postingVars
  <2>1. UNCHANGED rows /\ DOMAIN txns' = DOMAIN txns /\ \A s \in Present : s \in Present'
    BY <1>11 DEF postingVars, Present
  <2> QED BY <2>1, SameRowsSamePostings, NothingShown
<1> QED BY <1>1, <1>2, <1>3, <1>4, <1>5, <1>6, <1>7, <1>8, <1>9, <1>10, <1>11
        DEF PostingNext, JournalPage

LEMMA BookStep ==
  ASSUME PostingInv, BookInv, [PostingNext]_postingVars
  PROVE  BookMoves /\ PostingInv' /\ BookInv'
<1>1. PostingInv'
  BY PostingStep
<1> QED BY <1>1, StepShown DEF BookInv, BookKept, PostingInv

\* deleteStatementImport removes the transactions with the file, and postStatementImport
\* posts what is not marked: a transaction without its file does not exist, and no two
\* posted batches share one, also when the transactions are gone and only the batches
\* remember them.
THEOREM StatementsStayApart == PostingSpec => [](FilesThere /\ Apart)
<1>1. PostingInit => PostingInv /\ BookInv
  BY BookStart
<1>2. PostingInv /\ BookInv /\ [PostingNext]_postingVars => PostingInv' /\ BookInv'
  BY BookStep
<1>3. BookInv => FilesThere /\ Apart
  BY DEF BookInv
<1> QED BY <1>1, <1>2, <1>3, PTL DEF PostingSpec

\* Every step of the statement pages and of the journal page is, for the lines that
\* statements brought and the postings that put them on the books, one of the five
\* steps of StatementBook, or none.
THEOREM PostingIsStatementBook == PostingSpec => ImplementsStatementBook
<1>1. PostingInit => PostingInv /\ BookInv /\ Book!Init
  BY BookStart
<1>2. PostingInv /\ BookInv /\ [PostingNext]_postingVars => BookMoves /\ PostingInv' /\ BookInv'
  BY BookStep
<1> QED BY <1>1, <1>2, PTL DEF PostingSpec, ImplementsStatementBook, Book!Spec, BookMoves
-----------------------------------------------------------------------------
(* What a posting adds to an account *)

NetAt(ls, a, d) ==
  [i \in DOMAIN ls |-> IF ls[i].account = a /\ ls[i].date = d
                         THEN ls[i].debit - ls[i].credit ELSE 0]

LEMMA NetOfLines ==
  ASSUME NEW ls \in Seq(LineOn(OrgAccount)), NEW a, NEW d
  PROVE  /\ Len(ls) \in Nat /\ DOMAIN ls = 1 .. Len(ls) /\ IsFiniteSet(1 .. Len(ls))
         /\ \A i \in 1 .. Len(ls) : NetAt(ls, a, d)[i] \in Int
         /\ NetOf(ls, a, d) = SumFunctionOnSet(NetAt(ls, a, d), 1 .. Len(ls))
         /\ NetOf(ls, a, d) \in Int
<1>1. Len(ls) \in Nat /\ DOMAIN ls = 1 .. Len(ls) /\ \A i \in 1 .. Len(ls) : ls[i] \in LineOn(OrgAccount)
  BY LenProperties
<1>2. PICK D : D = 1 .. Len(ls)
  OBVIOUS
<1>3. IsFiniteSet(D)
  BY <1>1, <1>2, FS_Interval
<1>4. PICK f : f = NetAt(ls, a, d)
  OBVIOUS
<1>5. PICK S : S = {i \in D : ls[i].account = a /\ ls[i].date = d}
  OBVIOUS
<1>6. \A i \in D : ls[i].debit \in Int /\ ls[i].credit \in Int
  BY <1>1, <1>2 DEF LineOn
<1>7. /\ \A i \in D : f[i] \in Int
      /\ \A i \in S : f[i] = ls[i].debit - ls[i].credit
      /\ \A i \in D \ S : f[i] = 0
  BY <1>1, <1>2, <1>4, <1>5, <1>6 DEF NetAt
<1>8. S \in SUBSET D /\ IsFiniteSet(S)
  <2>1. S \in SUBSET D
    BY <1>5
  <2> QED BY <1>3, <2>1, FS_Subset
<1>9. SumFunctionOnSet(f, D) = SumFunctionOnSet(f, S)
  BY <1>3, <1>7, <1>8, SumSupport
<1> DEFINE g == [i \in S |-> ls[i].debit - ls[i].credit]
<1>10. NetOf(ls, a, d) = SumFunctionOnSet(g, S)
  <2>1. S = {j \in DOMAIN ls : ls[j].account = a /\ ls[j].date = d}
    BY <1>1, <1>2, <1>5
  <2> QED BY <2>1, DOMAIN g = S DEF NetOf, SumFunction
<1>11. \A i \in S : g[i] = f[i]
  BY <1>7
<1> HIDE DEF g
<1>12. SumFunctionOnSet(g, S) = SumFunctionOnSet(f, S)
  BY <1>8, <1>11, SumSame
<1>13. SumFunctionOnSet(f, D) \in Int
  BY <1>3, <1>7, SumInt
<1> QED BY <1>1, <1>2, <1>3, <1>4, <1>7, <1>9, <1>10, <1>12, <1>13

LEMMA NetOfJoined ==
  ASSUME NEW p \in Seq(LineOn(OrgAccount)), NEW q \in Seq(LineOn(OrgAccount)), NEW a, NEW d
  PROVE  NetOf(p \o q, a, d) = NetOf(p, a, d) + NetOf(q, a, d)
<1>1. PICK r, m, n : r = p \o q /\ m = Len(p) /\ n = Len(q)
  OBVIOUS
<1>2. /\ r \in Seq(LineOn(OrgAccount)) /\ m \in Nat /\ n \in Nat /\ Len(r) = m + n
      /\ \A i \in 1 .. m : r[i] = p[i]
      /\ \A i \in 1 .. n : r[m + i] = q[i]
  BY <1>1, ConcatProperties, LenProperties
<1>3. PICK f, g, h : f = NetAt(p, a, d) /\ g = NetAt(q, a, d) /\ h = NetAt(r, a, d)
  OBVIOUS
<1>4. PICK A, B, K : A = 1 .. m /\ B = (m + 1) .. (m + n) /\ K = 1 .. n
  OBVIOUS
<1>5. /\ NetOf(p, a, d) = SumFunctionOnSet(f, A) /\ NetOf(q, a, d) = SumFunctionOnSet(g, K)
      /\ NetOf(r, a, d) = SumFunctionOnSet(h, 1 .. (m + n))
      /\ \A i \in 1 .. (m + n) : h[i] \in Int
      /\ DOMAIN p = 1 .. m /\ DOMAIN q = 1 .. n /\ DOMAIN r = 1 .. (m + n)
  BY <1>1, <1>2, <1>3, <1>4, NetOfLines
<1>6. IsFiniteSet(A) /\ IsFiniteSet(B) /\ IsFiniteSet(K)
  <2>1. \A i, j \in Int : IsFiniteSet(i .. j)
    BY FS_Interval
  <2>2. 1 \in Int /\ m \in Int /\ n \in Int /\ m + 1 \in Int /\ m + n \in Int
    BY <1>2
  <2> QED BY <1>4, <2>1, <2>2
<1>7. A \cup B = 1 .. (m + n) /\ A \cap B = {}
  BY <1>2, <1>4
<1>8. NetOf(r, a, d) = SumFunctionOnSet(h, A) + SumFunctionOnSet(h, B)
  <2>1. \A i \in A \cup B : h[i] \in Int
    BY <1>5, <1>7
  <2>2. IsFiniteSet(A) /\ IsFiniteSet(B) /\ A \cap B = {}
    BY <1>6, <1>7
  <2>3. SumFunctionOnSet(h, A \cup B) = SumFunctionOnSet(h, A) + SumFunctionOnSet(h, B)
    BY <2>1, <2>2, SumSplit
  <2> QED BY <1>5, <1>7, <2>3
<1>9. SumFunctionOnSet(h, A) = SumFunctionOnSet(f, A)
  <2>1. \A i \in A : h[i] = f[i]
    <3> TAKE i \in A
    <3>1. i \in 1 .. m /\ i \in 1 .. (m + n)
      BY <1>2, <1>4
    <3> QED BY <1>2, <1>3, <1>5, <3>1 DEF NetAt
  <2> QED BY <1>6, <2>1, SumSame
<1>10. SumFunctionOnSet(g, K) = SumFunctionOnSet(h, B)
  <2>1. PICK key : key = [x \in B |-> x - m]
    OBVIOUS
  <2>2. \A x \in B : key[x] \in K /\ h[x] \in Int
    BY <1>2, <1>4, <1>5, <2>1
  <2>3. ASSUME NEW k \in K
        PROVE  \E x \in B : /\ key[x] = k /\ g[k] = h[x]
                            /\ \A y \in B : key[y] = k => y = x
    <3>1. PICK x : x = m + k
      OBVIOUS
    <3>2. x \in B /\ x \in 1 .. (m + n) /\ k \in 1 .. n
      BY <1>2, <1>4, <3>1
    <3>3. key[x] = k /\ \A y \in B : key[y] = k => y = x
      BY <1>2, <1>4, <2>1, <3>1, <3>2
    <3>4. r[x] = q[k]
      BY <1>2, <3>1, <3>2
    <3>5. g[k] = h[x]
      BY <1>3, <1>5, <3>2, <3>4 DEF NetAt
    <3> QED BY <3>2, <3>3, <3>5
  <2>4. IsFiniteSet(B) /\ IsFiniteSet(K)
    BY <1>6
  <2>5. \A k \in K : \E x \in B : /\ key[x] = k /\ g[k] = h[x]
                                   /\ \A y \in B : key[y] = k => y = x
    BY <2>3
  <2>6. Renames(key, h, B, g, K)
    BY <2>2, <2>5 DEF Renames
  <2> QED BY <2>4, <2>6, SumRenamed
<1> QED BY <1>1, <1>5, <1>8, <1>9, <1>10

JoinedNets(n, seqs, f, a, d, net) ==
  /\ n \in Nat /\ n > 0 /\ Joins(f, seqs, n)
  /\ \A i \in 1 .. n : /\ seqs[i] \in Seq(LineOn(OrgAccount))
                      /\ net[i] = NetOf(seqs[i], a, d)

\* What joined lists add to an account is the sum of what each of them adds.
LEMMA NetOfAllJoined ==
  ASSUME NEW n, NEW seqs, NEW f, NEW a, NEW d, NEW net, JoinedNets(n, seqs, f, a, d, net)
  PROVE  NetOf(f[n], a, d) = SumFunctionOnSet(net, 1 .. n)
<1>0. /\ n \in Nat /\ n > 0 /\ Joins(f, seqs, n)
      /\ \A i \in 1 .. n : /\ seqs[i] \in Seq(LineOn(OrgAccount))
                          /\ net[i] = NetOf(seqs[i], a, d)
  BY DEF JoinedNets
<1> DEFINE C == {k \in 1 .. n : NetOf(f[k], a, d) # SumFunctionOnSet(net, 1 .. k)}
<1> SUFFICES ASSUME C # {} PROVE FALSE
  BY <1>0
<1>1. PICK k \in C : \A l \in C : k <= l
  <2> C \in SUBSET (1 .. n)
    OBVIOUS
  <2>0. n \in Int
    BY <1>0
  <2> HIDE DEF C
  <2> QED BY <2>0, SmallestNumber
<1>2. f[k] = IF k = 1 THEN seqs[k] ELSE f[k - 1] \o seqs[k]
  BY <1>0 DEF Joins
<1>3. net[k] = NetOf(seqs[k], a, d) /\ seqs[k] \in Seq(LineOn(OrgAccount))
  BY <1>0
<1>4. \A i \in 1 .. n : net[i] \in Int
  BY <1>0, NetOfLines
<1>5. CASE k = 1
  <2>1. 1 .. k = {1}
    BY <1>5
  <2>2. SumFunctionOnSet(net, {1}) = net[1]
    BY <1>4, <1>5, SumSingle
  <2> QED BY <1>2, <1>3, <1>5, <2>1, <2>2
<1>6. CASE k # 1
  <2>1. PICK l : l = k - 1
    OBVIOUS
  <2>2. l \in 1 .. n /\ l < k /\ k \in Int
    BY <1>0, <1>6, <2>1
  <2>3. NetOf(f[l], a, d) = SumFunctionOnSet(net, 1 .. l)
    BY <1>1, <2>1, <2>2
  <2>4. f[l] \in Seq(LineOn(OrgAccount))
    BY <1>0, <2>2, JoinsTyped
  <2>5. f[k] = f[l] \o seqs[k]
    BY <1>2, <1>6, <2>1
  <2>6. NetOf(f[k], a, d) = SumFunctionOnSet(net, 1 .. l) + net[k]
    BY <1>3, <2>3, <2>4, <2>5, NetOfJoined
  <2>7. PICK S, T : S = 1 .. k /\ T = 1 .. l
    OBVIOUS
  <2>8. S \ {k} = T /\ k \in S /\ \A x \in S : net[x] \in Int
    BY <1>0, <1>4, <2>1, <2>2, <2>7
  <2>9. IsFiniteSet(S) /\ IsFiniteSet(T)
    <3>1. \A i, j \in Int : IsFiniteSet(i .. j)
      BY FS_Interval
    <3> QED BY <2>2, <2>7, <2>8, <3>1, FS_Subset
  <2>10. SumFunctionOnSet(net, S) = net[k] + SumFunctionOnSet(net, T)
    BY <2>8, <2>9, SumRemove
  <2>11. SumFunctionOnSet(net, T) \in Int
    <3>1. \A x \in T : net[x] \in Int
      BY <2>8
    <3> QED BY <2>9, <3>1, SumInt
  <2> QED BY <2>6, <2>7, <2>8, <2>10, <2>11
<1> QED BY <1>5, <1>6

LEMMA NetOfOthers ==
  ASSUME NEW A \in SUBSET OrgAccount, NEW ls \in Seq(LineOn(A)), NEW a, a \notin A, NEW d
  PROVE  ls \in Seq(LineOn(OrgAccount)) /\ NetOf(ls, a, d) = 0
<1>1. /\ Len(ls) \in Nat /\ DOMAIN ls = 1 .. Len(ls) /\ ls \in [1 .. Len(ls) -> LineOn(A)]
      /\ \A i \in 1 .. Len(ls) : ls[i] \in LineOn(A)
  BY LenProperties
<1>2. LineOn(A) \subseteq LineOn(OrgAccount)
  BY DEF LineOn
<1>3. ls \in Seq(LineOn(OrgAccount))
  BY <1>1, <1>2, SeqDef
<1>4. PICK f, D : f = NetAt(ls, a, d) /\ D = 1 .. Len(ls)
  OBVIOUS
<1>5. NetOf(ls, a, d) = SumFunctionOnSet(f, D) /\ IsFiniteSet(D)
  BY <1>3, <1>4, NetOfLines
<1>6. \A i \in D : f[i] = 0
  <2> TAKE i \in D
  <2>1. i \in DOMAIN ls /\ ls[i].account # a
    BY <1>1, <1>4 DEF LineOn
  <2> QED BY <1>4, <2>1 DEF NetAt
<1>7. SumFunctionOnSet(f, D) = 0
  BY <1>5, <1>6, SumZero
<1> QED BY <1>3, <1>5, <1>7

LEMMA NetOfOne ==
  ASSUME NEW a \in OrgAccount, NEW d \in Date, NEW n \in Int, NEW isDebit \in BOOLEAN, NEW e
  PROVE  /\ <<Side(a, d, n, isDebit)>> \in Seq(LineOn(OrgAccount))
         /\ NetOf(<<Side(a, d, n, isDebit)>>, a, e)
              = IF d = e THEN IF isDebit THEN n ELSE -n ELSE 0
<1>1. PICK l, ls : l = Side(a, d, n, isDebit) /\ ls = <<l>>
  OBVIOUS
<1>2. l \in LineOn(OrgAccount)
  BY <1>1, SideTyped
<1>3. ls \in Seq(LineOn(OrgAccount)) /\ Len(ls) = 1 /\ ls[1] = l
  BY <1>1, <1>2
<1>4. PICK f : f = NetAt(ls, a, e)
  OBVIOUS
<1>5. NetOf(ls, a, e) = SumFunctionOnSet(f, 1 .. 1) /\ 1 \in DOMAIN ls /\ f[1] \in Int
  BY <1>3, <1>4, NetOfLines
<1>6. SumFunctionOnSet(f, 1 .. 1) = f[1]
  <2>1. 1 .. 1 = {1}
    OBVIOUS
  <2>2. SumFunctionOnSet(f, {1}) = f[1]
    BY <1>5, SumSingle
  <2> QED BY <2>1, <2>2
<1>7. f[1] = IF l.account = a /\ l.date = e THEN l.debit - l.credit ELSE 0
  BY <1>3, <1>4, <1>5 DEF NetAt
<1>8. /\ l.account = a /\ l.date = d
      /\ l.debit = (IF isDebit THEN n ELSE 0) /\ l.credit = (IF isDebit THEN 0 ELSE n)
  BY <1>1 DEF Side
<1>9. l.debit - l.credit = IF isDebit THEN n ELSE -n
  BY <1>8
<1> QED BY <1>1, <1>3, <1>5, <1>6, <1>7, <1>8, <1>9

\* A transaction moves the statement's account by its amount, on its day.
LEMMA NetOfPosting ==
  ASSUME TxnsOK, NEW t \in DOMAIN txns, txns[t].confirmedAccountId # NoAccount,
         NEW linked \in OrgAccount, NEW card \in BOOLEAN, NEW e,
         txns[t].date = e => ~CardPayment(t, card) /\ linked \notin GivenTo(t)
  PROVE  /\ PostingLines(t, linked, card) \in Seq(LineOn(OrgAccount))
         /\ NetOf(PostingLines(t, linked, card), linked, e)
              = IF txns[t].date = e THEN txns[t].amountCents ELSE 0
<1>1. PICK others, d, on, n, m, x :
        /\ others = Allocations(t, linked, card) /\ d = txns[t].date
        /\ n = Magnitude(txns[t].amountCents) /\ x = txns[t].amountCents
        /\ on = IsDeposit(t) /\ m = ~IsDeposit(t)
  OBVIOUS
<1>2. txns[t] \in Txn
  BY DEF TxnsOK
<1>3. d \in Date /\ x \in Int /\ n \in Int /\ on \in BOOLEAN /\ m \in BOOLEAN
  BY <1>1, <1>2, MagnitudeTyped DEF Txn, IsDeposit
<1>4. (IF on THEN n ELSE -n) = x
  <2>1. n = IF x < 0 THEN -x ELSE x
    BY <1>1 DEF Magnitude
  <2>2. on <=> x > 0
    BY <1>1 DEF IsDeposit
  <2>3. CASE x > 0
    BY <1>3, <2>1, <2>2, <2>3
  <2>4. CASE ~(x > 0)
    <3>1. -n = x
      BY <1>3, <2>1, <2>4
    <3> QED BY <2>2, <2>4, <3>1
  <2> QED BY <2>3, <2>4
<1>5. PICK given : given = GivenTo(t)
  OBVIOUS
<1>6. given \subseteq OrgAccount
  BY <1>5, GivenTyped
<1>7. PICK rest : rest = [i \in DOMAIN others |-> Side(others[i].account, d, others[i].amountCents, m)]
  OBVIOUS
<1>8. PICK own : own = <<Side(linked, d, n, on)>>
  OBVIOUS
<1>9. PostingLines(t, linked, card) = own \o rest
  BY <1>1, <1>7, <1>8 DEF PostingLines
<1>10. /\ own \in Seq(LineOn(OrgAccount))
       /\ NetOf(own, linked, e) = IF d = e THEN IF on THEN n ELSE -n ELSE 0
  BY <1>3, <1>8, NetOfOne
<1>11. rest \in Seq(LineOn(OrgAccount)) /\ NetOf(rest, linked, e) = 0
  <2>1. CASE d = e
    <3>1. others \in Seq(PartOn(given))
      BY <1>1, <1>5, <2>1, AllocationsTyped
    <3>2. rest \in Seq(LineOn(given))
      BY <1>3, <1>7, <3>1, SidesTyped
    <3>3. linked \notin given /\ given \in SUBSET OrgAccount
      BY <1>1, <1>5, <1>6, <2>1
    <3> QED BY <3>2, <3>3, NetOfOthers
  <2>2. CASE d # e
    <3>1. others \in Seq(PartOn(OrgAccount))
      BY <1>1, <1>5, <1>6, AllocationsTyped
    <3>2. rest \in Seq(LineOn(OrgAccount))
      BY <1>3, <1>7, <3>1, SidesTyped
    <3>3. PICK f, D : f = NetAt(rest, linked, e) /\ D = 1 .. Len(rest)
      OBVIOUS
    <3>4. NetOf(rest, linked, e) = SumFunctionOnSet(f, D) /\ IsFiniteSet(D) /\ D = DOMAIN rest
      BY <3>2, <3>3, NetOfLines
    <3>5. \A i \in D : f[i] = 0
      <4> TAKE i \in D
      <4>1. i \in DOMAIN rest /\ rest[i].date = d
        BY <1>7, <3>4 DEF Side
      <4> QED BY <2>2, <3>3, <4>1 DEF NetAt
    <3>6. SumFunctionOnSet(f, D) = 0
      BY <3>4, <3>5, SumZero
    <3> QED BY <3>2, <3>4, <3>6
  <2> QED BY <2>1, <2>2
<1>12. NetOf(own \o rest, linked, e) = NetOf(own, linked, e) + NetOf(rest, linked, e)
  BY <1>10, <1>11, NetOfJoined
<1>13. own \o rest \in Seq(LineOn(OrgAccount))
  BY <1>10, <1>11, ConcatProperties
<1>14. NetOf(own, linked, e) = IF d = e THEN x ELSE 0
  BY <1>4, <1>10
<1>15. NetOf(own \o rest, linked, e) = IF d = e THEN x ELSE 0
  BY <1>3, <1>11, <1>12, <1>14
<1> QED BY <1>1, <1>9, <1>13, <1>15

\* What is posted of a day is all booked against the statement's account.
SeenOn(e, T, linked, card) ==
  \A t \in T : txns[t].date = e => ~CardPayment(t, card) /\ linked \notin GivenTo(t)

\* What a posting adds to the statement's account on a day is what the transactions
\* of that day say.
LEMMA NetOfContent ==
  ASSUME TxnsOK, NEW T \in SUBSET DOMAIN txns, T # {},
         \A t \in T : txns[t].confirmedAccountId # NoAccount,
         NEW linked \in OrgAccount, NEW card \in BOOLEAN, NEW e,
         SeenOn(e, T, linked, card)
  PROVE  NetOf(PostingContent(T, linked, card).lines, linked, e)
           = SumFunction([t \in {u \in T : txns[u].date = e} |-> txns[t].amountCents])
<1>1. PICK n, order : n = Cardinality(T) /\ order = SetToSeq(T)
  OBVIOUS
<1>2. IsFiniteSet(T)
  BY FS_Subset DEF TxnsOK
<1>3. /\ n \in Nat /\ order \in [1 .. n -> T]
      /\ \A k, l \in 1 .. n : order[k] = order[l] => k = l
      /\ \A x \in T : \E k \in 1 .. n : order[k] = x
  BY <1>1, <1>2, SetToSeqIs
<1>4. n > 0
  <2>1. PICK x \in T : TRUE
    OBVIOUS
  <2>2. PICK k \in 1 .. n : order[k] = x
    BY <1>3
  <2> QED BY <1>3, <2>2
<1>5. PICK seqs : seqs = [i \in 1 .. n |-> PostingLines(order[i], linked, card)]
  OBVIOUS
<1>6. PICK amount : amount = [t \in T |-> IF txns[t].date = e THEN txns[t].amountCents ELSE 0]
  OBVIOUS
<1>7. PICK net : net = [i \in 1 .. n |-> amount[order[i]]]
  OBVIOUS
<1>8. \A i \in 1 .. n : seqs[i] \in Seq(LineOn(OrgAccount)) /\ net[i] = NetOf(seqs[i], linked, e)
  <2> TAKE i \in 1 .. n
  <2>1. PICK t \in T : t = order[i]
    BY <1>3
  <2>2. /\ txns[t].confirmedAccountId # NoAccount
        /\ txns[t].date = e => ~CardPayment(t, card) /\ linked \notin GivenTo(t)
    BY DEF SeenOn
  <2>3. /\ PostingLines(t, linked, card) \in Seq(LineOn(OrgAccount))
        /\ NetOf(PostingLines(t, linked, card), linked, e) = amount[t]
    BY <1>6, <2>2, NetOfPosting
  <2>4. seqs[i] = PostingLines(t, linked, card) /\ net[i] = amount[t]
    BY <1>5, <1>7, <2>1
  <2> QED BY <2>3, <2>4
<1>9. Len(seqs) = n
  <2>1. seqs \in [1 .. n -> Seq(LineOn(OrgAccount))]
    BY <1>5, <1>8
  <2>2. seqs \in Seq(Seq(LineOn(OrgAccount)))
    BY <1>3, <2>1, SeqDef
  <2>3. Len(seqs) \in Nat /\ DOMAIN seqs = 1 .. Len(seqs) /\ DOMAIN seqs = 1 .. n
    BY <1>5, <2>2, LenProperties
  <2>4. \A k, l \in Nat : 1 .. k = 1 .. l => k = l
    <3> SUFFICES ASSUME NEW k \in Nat, NEW l \in Nat, 1 .. k = 1 .. l, k < l PROVE FALSE
      OBVIOUS
    <3> QED BY l \in 1 .. l
  <2> QED BY <1>3, <2>3, <2>4
<1>10. PICK f : Joins(f, seqs, n) /\ FlattenSeq(seqs) = f[n]
  BY <1>3, <1>4, <1>9, FlattenIs
<1>11. PICK K : K = 1 .. n
  OBVIOUS
<1>12. NetOf(f[n], linked, e) = SumFunctionOnSet(net, K)
  <2>1. JoinedNets(n, seqs, f, linked, e, net)
    BY <1>3, <1>4, <1>8, <1>10 DEF JoinedNets
  <2> QED BY <1>11, <2>1, NetOfAllJoined
<1>13. \A t \in T : txns[t].amountCents \in Int /\ amount[t] \in Int
  <2> TAKE t \in T
  <2>1. txns[t] \in Txn
    BY DEF TxnsOK
  <2> QED BY <1>6, <2>1 DEF Txn
<1>14. IsFiniteSet(K)
  <2>1. \A i, j \in Int : IsFiniteSet(i .. j)
    BY FS_Interval
  <2> QED BY <1>3, <1>11, <2>1
<1>15. SumFunctionOnSet(net, K) = SumFunctionOnSet(amount, T)
  <2>1. PICK key : key = [t \in T |-> CHOOSE k \in K : order[k] = t]
    OBVIOUS
  <2>2. \A t \in T : key[t] \in K /\ order[key[t]] = t
    BY <1>3, <1>11, <2>1
  <2>3. \A t \in T : key[t] \in K /\ amount[t] \in Int
    BY <1>13, <2>2
  <2>4. \A k \in K : \E t \in T : /\ key[t] = k /\ net[k] = amount[t]
                                   /\ \A u \in T : key[u] = k => u = t
    <3> TAKE k \in K
    <3>1. PICK t \in T : t = order[k]
      BY <1>3, <1>11
    <3>2. key[t] = k
      BY <1>3, <1>11, <2>2, <3>1
    <3>3. \A u \in T : key[u] = k => u = t
      BY <2>2, <3>1
    <3>4. net[k] = amount[t]
      BY <1>7, <1>11, <3>1
    <3> QED BY <3>2, <3>3, <3>4
  <2>5. IsFiniteSet(T) /\ IsFiniteSet(K)
    BY <1>2, <1>14
  <2>6. Renames(key, amount, T, net, K)
    BY <2>3, <2>4 DEF Renames
  <2> QED BY <2>5, <2>6, SumRenamed
<1>16. PICK U : U = {u \in T : txns[u].date = e}
  OBVIOUS
<1>17. U \in SUBSET T /\ IsFiniteSet(U)
  <2>1. U \in SUBSET T
    BY <1>16
  <2> QED BY <1>2, <2>1, FS_Subset
<1>18. SumFunctionOnSet(amount, T) = SumFunctionOnSet(amount, U)
  <2>1. /\ \A t \in U : amount[t] \in Int
        /\ \A t \in T \ U : amount[t] = 0
    BY <1>6, <1>13, <1>16
  <2> QED BY <1>2, <1>17, <2>1, SumSupport
<1> DEFINE g == [t \in U |-> txns[t].amountCents]
<1>19. SumFunction(g) = SumFunctionOnSet(g, U)
  BY DOMAIN g = U DEF SumFunction
<1>20. \A t \in U : amount[t] = g[t]
  BY <1>6, <1>16
<1>21. SumFunctionOnSet(amount, U) = SumFunctionOnSet(g, U)
  <2> HIDE DEF g
  <2> QED BY <1>17, <1>20, SumSame
<1>22. PostingContent(T, linked, card).lines = f[n]
  BY <1>1, <1>5, <1>10 DEF PostingContent
<1>23. SumFunction(g) = SumFunctionOnSet(net, K)
  <2> HIDE DEF g
  <2> QED BY <1>15, <1>18, <1>19, <1>21
<1> QED BY <1>12, <1>16, <1>22, <1>23

\* What a step may do to the journal: every change to it is one of these.
JournalMoves ==
  \/ UNCHANGED rows
  \/ \E x \in UserFacing : VoidLifecycle(x) \/ \E c \in Content : AdjustBatch(x, c)
  \/ \E h \in ImportBatch : PostStatement(h) \/ UnpostStatement(h)

\* A new posting comes from one of the import batch's own postings.
LEMMA PostingIsPost ==
  ASSUME SoundImports, JournalMoves, NEW b, NEW g, Posting(b, g)
  PROVE  \E primary \in FilesOf(g), T \in SUBSET DOMAIN txns, linked \in OrgAccount,
            card \in BOOLEAN :
           /\ linked = imports[primary].linkedAccountId
           /\ card = (primary \in CardStatement /\ linked \in Liability)
           /\ \A s \in FilesOf(g) : imports[s].linkedAccountId = linked
           /\ T # {} /\ rows'[b].source = T
           /\ \A t \in T : txns[t].confirmedAccountId # NoAccount /\ t[1] \in FilesOf(g)
           /\ rows'[b].content.lines = PostingContent(T, linked, card).lines
<1>1. Len(rows') = b /\ Len(rows) < b /\ rows'[b].sourceType = "import"
      /\ \A t \in rows'[b].source : BatchOf[t[1]] = g
  BY DEF Posting
<1>2. TypeOK /\ Len(rows) \in Nat /\ DOMAIN rows = 1 .. Len(rows) /\ TxnsOK
  BY Table DEF SoundImports, IndInv
<1>3. rows' # rows
  BY <1>1, <1>2
<1>4. ASSUME NEW L, VoidStep(L) PROVE FALSE
  BY <1>1, <1>2, <1>4 DEF VoidStep
<1>5. ASSUME NEW x \in UserFacing, VoidLifecycle(x) PROVE FALSE
  <2>1. PICK r \in DOMAIN rows : rows' = Voided(LifecycleOf(r))
    BY <1>5 DEF VoidLifecycle
  <2>2. PICK L : L = LifecycleOf(r)
    OBVIOUS
  <2>3. VoidStep(L)
    BY <1>2, <2>1, <2>2, VoidedStep
  <2> QED BY <1>4, <2>3
<1>6. ASSUME NEW x \in UserFacing, NEW c \in Content, AdjustBatch(x, c) PROVE FALSE
  <2>1. PICK m, n, key : m = Len(rows) + 1 /\ n = Len(rows) + 2 /\ key = AdjustmentKey(x, c)
    OBVIOUS
  <2>2. x \in DOMAIN rows
    BY DEF UserFacing
  <2>3. Len(rows') = n /\ rows'[n] = RevisedRow(x, c, key, m)
    BY <1>2, <1>6, <2>1, <2>2, AdjustEffect
  <2>4. rows'[n].sourceType = "adjustment"
    BY <2>3 DEF RevisedRow, PlainRow
  <2> QED BY <1>1, <2>3, <2>4
<1>7. ASSUME NEW h \in ImportBatch, UnpostStatement(h) PROVE FALSE
  <2>1. PICK T : T = {t \in TxnsOf(FilesOf(h)) : txns[t].journalBatchId # None}
    OBVIOUS
  <2>2. PICK B : B = {txns[t].journalBatchId : t \in T}
    OBVIOUS
  <2>3. rows' = Unposted(B)
    BY <1>7, <2>1, <2>2 DEF UnpostStatement
  <2>4. PICK L : L = Lifecycles(B)
    OBVIOUS
  <2>5. VoidStep(L)
    BY <1>2, <2>3, <2>4, UnpostedStep
  <2> QED BY <1>4, <2>5
<1>8. PICK h \in ImportBatch : PostStatement(h)
  BY <1>3, <1>5, <1>6, <1>7 DEF JournalMoves
<1>9. PICK primary \in FilesOf(h), T \in SUBSET DOMAIN txns, linked \in OrgAccount, card \in BOOLEAN :
           /\ T = Postable(TxnsOf(FilesOf(h))) /\ linked = imports[primary].linkedAccountId
           /\ card = (primary \in CardStatement /\ linked \in Liability)
           /\ \A s \in FilesOf(h) : imports[s].linkedAccountId = linked
           /\ \/ /\ T # {} /\ CreateBatch(PostingContent(T, linked, card), "posted", T, FALSE)
                 /\ txns' = Marked(T, Len(rows) + 1)
              \/ UNCHANGED <<rows, answers, txns>>
           /\ SetStatus(FilesOf(h), "imported") \/ UNCHANGED imports
  BY <1>8, PostStatementIs DEF SoundImports, ImportsOK
<1>10. /\ T # {} /\ CreateBatch(PostingContent(T, linked, card), "posted", T, FALSE)
       /\ \A t \in T : txns[t].confirmedAccountId # NoAccount /\ t[1] \in FilesOf(h)
  BY <1>3, <1>9 DEF Postable, TxnsOf
<1>11. PICK c, n : c = PostingContent(T, linked, card) /\ n = Len(rows) + 1
  OBVIOUS
<1>12. T \in SourceKey /\ T # NoSource
  <2>1. T \in SUBSET TxnId
    BY <1>2 DEF TxnsOK
  <2> QED BY <1>10, <2>1, StatementAssumption, JournalAssumption
<1>13. c \in Submitted
  BY <1>2, <1>10, <1>11, PostingSubmitted
<1>14. Len(rows') = n /\ rows'[n] = PlainRow(c, "posted", T, FALSE)
  BY <1>2, <1>10, <1>11, <1>12, <1>13, SubmittedEffect
<1>15. rows'[b].source = T /\ rows'[b].content = c
  BY <1>1, <1>14 DEF PlainRow
<1>16. g = h
  <2>1. PICK t \in T : BatchOf[t[1]] = g /\ t[1] \in FilesOf(h)
    BY <1>1, <1>10, <1>15
  <2> QED BY <2>1 DEF FilesOf
<1>17. rows'[b].content.lines = PostingContent(T, linked, card).lines
  BY <1>11, <1>15
<1> QED BY <1>9, <1>10, <1>15, <1>16, <1>17

LEMMA PostingMoves ==
  ASSUME [PostingNext]_postingVars
  PROVE  JournalMoves
BY DEF PostingNext, JournalPage, Upload, Extract, SetLinkedAccount, DeleteImport, Review,
   Categorize, Allocate, ToggleExcluded, Describe, BulkSetExcluded, postingVars, JournalMoves

LEMMA PostingFollows ==
  ASSUME SoundImports, JournalMoves,
         NEW b \in BatchId, NEW s \in Statement, NEW d \in Date,
         Posting(b, BatchOf[s]), OneKind(BatchOf[s]), imports[s].linkedAccountId # NoAccount,
         NEW own, own = imports[s].linkedAccountId,
         NEW U, U = {t \in rows'[b].source : txns[t].date = d},
         \A t \in U : /\ own \notin GivenTo(t)
                      /\ PaymentReceived(t) => GivenTo(t) \cap CashAccount = {}
  PROVE  NetOf(rows'[b].content.lines, own, d)
           = SumFunction([t \in U |-> txns[t].amountCents])
<1>1. PICK g : g = BatchOf[s]
  OBVIOUS
<1>2. PICK primary \in FilesOf(g), T \in SUBSET DOMAIN txns, linked \in OrgAccount, card \in BOOLEAN :
           /\ linked = imports[primary].linkedAccountId
           /\ card = (primary \in CardStatement /\ linked \in Liability)
           /\ \A u \in FilesOf(g) : imports[u].linkedAccountId = linked
           /\ T # {} /\ rows'[b].source = T
           /\ \A t \in T : txns[t].confirmedAccountId # NoAccount /\ t[1] \in FilesOf(g)
           /\ rows'[b].content.lines = PostingContent(T, linked, card).lines
  BY <1>1, PostingIsPost
<1>3. s \in FilesOf(g) /\ linked = own
  <2>1. s \in Present
    BY DEF SoundImports, ImportsOK
  <2> QED BY <1>1, <1>2, <2>1 DEF FilesOf
<1>4. \A t \in T : card => t[1] \in CardStatement
  BY <1>1, <1>2 DEF OneKind
<1>5. SeenOn(d, T, linked, card)
  <2> SUFFICES ASSUME NEW t \in T, txns[t].date = d
               PROVE  ~CardPayment(t, card) /\ linked \notin GivenTo(t)
    BY DEF SeenOn
  <2>1. t \in U
    BY <1>2
  <2>2. own \notin GivenTo(t) /\ (PaymentReceived(t) => GivenTo(t) \cap CashAccount = {})
    BY <2>1
  <2>3. CardPayment(t, card) => PaymentReceived(t) /\ GivenTo(t) \cap CashAccount # {}
    BY <1>4 DEF CardPayment, PaymentReceived
  <2> QED BY <1>3, <2>2, <2>3
<1>6. TxnsOK
  BY DEF SoundImports
<1>7. \A t \in T : txns[t].confirmedAccountId # NoAccount
  BY <1>2
<1>8. T # {} /\ T \in SUBSET DOMAIN txns
  BY <1>2
<1>9. NetOf(PostingContent(T, linked, card).lines, linked, d)
        = SumFunction([t \in {u \in T : txns[u].date = d} |-> txns[t].amountCents])
  BY <1>5, <1>6, <1>7, <1>8, NetOfContent
<1>10. U = {u \in T : txns[u].date = d}
  BY <1>2
<1> QED BY <1>2, <1>3, <1>9, <1>10

LEMMA StatementsFollowed ==
  ASSUME SoundImports, JournalMoves
  PROVE  \A b \in BatchId, s \in Statement, d \in Date :
           /\ Posting(b, BatchOf[s]) /\ OneKind(BatchOf[s])
           /\ imports[s].linkedAccountId # NoAccount
           =>
            LET own == imports[s].linkedAccountId
                T   == {t \in rows'[b].source : txns[t].date = d}
            IN  (\A t \in T : /\ own \notin GivenTo(t)
                              /\ PaymentReceived(t) => GivenTo(t) \cap CashAccount = {}) =>
                  NetOf(rows'[b].content.lines, own, d)
                    = SumFunction([t \in T |-> txns[t].amountCents])
<1>1. ASSUME NEW b \in BatchId, NEW s \in Statement, NEW d \in Date,
             Posting(b, BatchOf[s]), OneKind(BatchOf[s]),
             imports[s].linkedAccountId # NoAccount,
             NEW U, U = {t \in rows'[b].source : txns[t].date = d},
             \A t \in U : /\ imports[s].linkedAccountId \notin GivenTo(t)
                          /\ PaymentReceived(t) => GivenTo(t) \cap CashAccount = {}
      PROVE  NetOf(rows'[b].content.lines, imports[s].linkedAccountId, d)
               = SumFunction([t \in U |-> txns[t].amountCents])
  <2>1. PICK own : own = imports[s].linkedAccountId
    OBVIOUS
  <2> QED BY <1>1, <2>1, PostingFollows
<1> QED BY <1>1

LEMMA CashUntouched ==
  ASSUME SoundImports, JournalMoves
  PROVE  \A b \in BatchId, s \in CardStatement :
           /\ Posting(b, BatchOf[s]) /\ OneKind(BatchOf[s])
           /\ imports[s].linkedAccountId \in Liability
           /\ \A t \in rows'[b].source :
                GivenTo(t) \cap CashAccount # {} => PaymentReceived(t)
           => \A a \in CashAccount, d \in Date : NetOf(rows'[b].content.lines, a, d) = 0
<1>1. ASSUME NEW b \in BatchId, NEW s \in CardStatement,
             Posting(b, BatchOf[s]), OneKind(BatchOf[s]),
             imports[s].linkedAccountId \in Liability,
             \A t \in rows'[b].source : GivenTo(t) \cap CashAccount # {} => PaymentReceived(t),
             NEW a \in CashAccount, NEW d \in Date
      PROVE  NetOf(rows'[b].content.lines, a, d) = 0
  <2>1. PICK g : g = BatchOf[s]
    OBVIOUS
  <2>2. PICK primary \in FilesOf(g), T \in SUBSET DOMAIN txns, linked \in OrgAccount, card \in BOOLEAN :
             /\ linked = imports[primary].linkedAccountId
             /\ card = (primary \in CardStatement /\ linked \in Liability)
             /\ \A u \in FilesOf(g) : imports[u].linkedAccountId = linked
             /\ T # {} /\ rows'[b].source = T
             /\ \A t \in T : txns[t].confirmedAccountId # NoAccount /\ t[1] \in FilesOf(g)
             /\ rows'[b].content.lines = PostingContent(T, linked, card).lines
    BY <1>1, <2>1, PostingIsPost
  <2>3. s \in FilesOf(g) /\ linked \in Liability
    <3>1. s \in Statement /\ imports[s].linkedAccountId # NoAccount
      BY <1>1, StatementAssumption, JournalAssumption
    <3>2. s \in Present
      BY <3>1, <1>1 DEF SoundImports, ImportsOK
    <3> QED BY <1>1, <2>1, <2>2, <3>2 DEF FilesOf
  <2>4. card /\ \A t \in T : t[1] \in CardStatement
    BY <1>1, <2>1, <2>2, <2>3 DEF OneKind
  <2>5. PICK A : A = OrgAccount \ CashAccount
    OBVIOUS
  <2>6. linked \in A /\ A \in SUBSET OrgAccount /\ a \notin A
    BY <2>3, <2>5, StatementAssumption
  <2>7. TxnsOK
    BY DEF SoundImports
  <2>8. \A t \in T : CardPayment(t, card) \/ GivenTo(t) \subseteq A
    <3> TAKE t \in T
    <3>1. GivenTo(t) \subseteq OrgAccount
      BY <2>2, <2>7, GivenTyped
    <3>2. CASE GivenTo(t) \cap CashAccount = {}
      BY <2>5, <3>1, <3>2
    <3>3. CASE GivenTo(t) \cap CashAccount # {}
      BY <1>1, <2>2, <2>4, <3>3 DEF CardPayment, PaymentReceived
    <3> QED BY <3>2, <3>3
  <2>9. PICK ls : ls = PostingContent(T, linked, card).lines
    OBVIOUS
  <2>10. ls \in Seq(LineOn(A))
    BY <2>6, <2>7, <2>8, <2>9, PostingContentTyped
  <2>11. NetOf(ls, a, d) = 0
    BY <2>6, <2>10, NetOfOthers
  <2> QED BY <2>2, <2>9, <2>11
<1> QED BY <1>1

\* posting-service.ts books each transaction on its day, debit or credit by its sign,
\* against the accounts it was given: however many transactions, splits and files are
\* posted at once, the statement's account moves by what the file says.
THEOREM PostingsFollowStatements == PostingSpec => PostingFollowsStatement
<1>1. PostingInv /\ [PostingNext]_postingVars => SoundImports /\ JournalMoves
  BY PostingMoves DEF PostingInv
<1>2. PostingInv /\ [PostingNext]_postingVars =>
        [\A b \in BatchId, s \in Statement, d \in Date :
          /\ Posting(b, BatchOf[s]) /\ OneKind(BatchOf[s])
          /\ imports[s].linkedAccountId # NoAccount
          =>
           LET own == imports[s].linkedAccountId
               T   == {t \in rows'[b].source : txns[t].date = d}
           IN  (\A t \in T : /\ own \notin GivenTo(t)
                             /\ PaymentReceived(t) => GivenTo(t) \cap CashAccount = {}) =>
                 NetOf(rows'[b].content.lines, own, d)
                   = SumFunction([t \in T |-> txns[t].amountCents])]_postingVars
  BY <1>1, StatementsFollowed
<1> QED BY <1>2, PostingsStaySound, PTL DEF PostingSpec, PostingFollowsStatement

\* posting-service.ts, with USER_GUIDE.md:69-71: payments received on a card are booked
\* against the card itself, so that no posting of card statements moves cash by them.
THEOREM CashIsCountedOnce == PostingSpec => CashCountedOnce
<1>1. PostingInv /\ [PostingNext]_postingVars => SoundImports /\ JournalMoves
  BY PostingMoves DEF PostingInv
<1>2. PostingInv /\ [PostingNext]_postingVars =>
        [\A b \in BatchId, s \in CardStatement :
          /\ Posting(b, BatchOf[s]) /\ OneKind(BatchOf[s])
          /\ imports[s].linkedAccountId \in Liability
          /\ \A t \in rows'[b].source :
               GivenTo(t) \cap CashAccount # {} => PaymentReceived(t)
          => \A a \in CashAccount, d \in Date : NetOf(rows'[b].content.lines, a, d) = 0]_postingVars
  BY <1>1, CashUntouched
<1> QED BY <1>2, PostingsStaySound, PTL DEF PostingSpec, CashCountedOnce
-----------------------------------------------------------------------------
(* While files are read, by overlapping requests that may stop half-way *)

\* Where a reading is: not yet claimed, working on the file's rows, or over.
Pc == {"idle", "look", "claim", "check", "ask", "insert", "record", "categorize", "suggest",
       "failing", "done", "failed", "lost"}

Reading == [pc : Pc, file : Statement \cup {NoAccount}, parser : {"model", "spreadsheet"},
            left : SUBSET TxnId]

PastClaim == {"ask", "insert", "record", "categorize", "suggest", "failing", "done", "failed"}

PastInsert == {"record", "categorize", "suggest", "failing", "done", "failed", "lost"}

\* A reading has a file that was uploaded, and once the model's reading has claimed it, no
\* other will: no status leads back to "uploaded".
ReadingOK(r) ==
  /\ reading[r].pc # "idle" =>
       reading[r].file \in Statement /\ imports[reading[r].file].status # "absent"
  /\ reading[r].pc = "check" => reading[r].parser = "spreadsheet"
  /\ reading[r].parser = "model" /\ reading[r].pc \in PastClaim => ~Fresh(reading[r].file)

\* A row of the table was inserted by the reading in its id.
InsertedBy(t, r) ==
  /\ reading[r].file = t[1] /\ reading[r].pc \in PastInsert
  /\ reading[r].parser = "model" => ~Fresh(t[1])

RowsOfReadings ==
  /\ \A t \in DOMAIN txns : InsertedBy(t, t[3])
  /\ \A b \in DOMAIN rows : rows[b].sourceType = "import" =>
       \A t \in rows[b].source : InsertedBy(t, t[3])

ReadingsOK == reading \in [Run -> Reading] /\ \A r \in Run : ReadingOK(r)

ExtractionInv == SoundImports /\ ReadingsOK /\ RowsOfReadings

LEMMA IdParts ==
  ASSUME NEW t \in TxnId
  PROVE  t[1] \in Statement /\ t[3] \in Run
BY DEF TxnId

LEMMA ReadingSet ==
  ASSUME ReadingsOK, NEW r \in Run, NEW x \in Reading, reading' = [reading EXCEPT ![r] = x]
  PROVE  /\ reading' \in [Run -> Reading] /\ reading'[r] = x
         /\ \A q \in Run \ {r} : reading'[q] = reading[q]
BY DEF ReadingsOK

LEMMA GotoIs ==
  ASSUME ReadingsOK, NEW r \in Run, NEW pc \in Pc, Goto(r, pc)
  PROVE  \E x \in Reading : /\ x.pc = pc /\ x.file = reading[r].file
                            /\ x.parser = reading[r].parser
                            /\ reading' = [reading EXCEPT ![r] = x]
<1>1. reading[r] \in Reading
  BY DEF ReadingsOK
<1>2. PICK x : x = [reading[r] EXCEPT !.pc = pc]
  OBVIOUS
<1>3. x \in Reading /\ x.pc = pc /\ x.file = reading[r].file /\ x.parser = reading[r].parser
  BY <1>1, <1>2 DEF Reading
<1>4. reading' = [reading EXCEPT ![r] = x]
  BY <1>2 DEF Goto
<1> QED BY <1>3, <1>4

\* A reading that has inserted its rows stays the one that did.
StaysInserted(r) ==
  reading[r].pc \in PastInsert =>
    /\ reading'[r].pc \in PastInsert
    /\ reading'[r].file = reading[r].file /\ reading'[r].parser = reading[r].parser

LEMMA Continued ==
  ASSUME ExtractionInv, SoundImports', NothingNew, reading' \in [Run -> Reading],
         \A r \in Run : ReadingOK(r)', \A r \in Run : StaysInserted(r)
  PROVE  ExtractionInv'
<1>1. ASSUME NEW t \in TxnId, InsertedBy(t, t[3]) PROVE InsertedBy(t, t[3])'
  <2>1. t[1] \in Statement /\ t[3] \in Run
    BY IdParts
  <2> QED BY <1>1, <2>1 DEF InsertedBy, StaysInserted, NothingNew, Fresh
<1>2. \A t \in DOMAIN txns : InsertedBy(t, t[3])'
  BY <1>1 DEF ExtractionInv, RowsOfReadings, SoundImports, TxnsOK
<1>3. ASSUME NEW b \in DOMAIN rows', rows'[b].sourceType = "import", NEW t \in rows'[b].source
      PROVE  InsertedBy(t, t[3])'
  <2>1. CASE b \in DOMAIN rows /\ rows[b].sourceType = "import" /\ rows'[b].source = rows[b].source
    <3>1. t \in TxnId
      BY <1>3, <2>1, SourceTyped DEF ExtractionInv, SoundImports, IndInv
    <3> QED BY <1>1, <1>3, <2>1, <3>1 DEF ExtractionInv, RowsOfReadings
  <2>2. CASE rows'[b].source \subseteq DOMAIN txns
    BY <1>2, <1>3, <2>2
  <2> QED BY <1>3, <2>1, <2>2 DEF NothingNew
<1>4. RowsOfReadings'
  BY <1>2, <1>3 DEF RowsOfReadings, NothingNew
<1> QED BY <1>4 DEF ExtractionInv, ReadingsOK

LEMMA StepOf ==
  ASSUME ExtractionInv, SoundImports', NothingNew, NEW r \in Run, NEW x \in Reading,
         reading' = [reading EXCEPT ![r] = x],
         x.pc # "idle" => x.file \in Statement /\ imports'[x.file].status # "absent",
         x.pc = "check" => x.parser = "spreadsheet",
         x.parser = "model" /\ x.pc \in PastClaim =>
           imports'[x.file].status \notin {"absent", "uploaded"},
         reading[r].pc \in PastInsert =>
           x.pc \in PastInsert /\ x.file = reading[r].file /\ x.parser = reading[r].parser
  PROVE  ExtractionInv'
<1>1. /\ reading' \in [Run -> Reading] /\ reading'[r] = x
      /\ \A q \in Run \ {r} : reading'[q] = reading[q]
  BY ReadingSet DEF ExtractionInv
<1>2. ReadingOK(r)' /\ StaysInserted(r)
  BY <1>1 DEF ReadingOK, StaysInserted, Fresh
<1>3. ASSUME NEW q \in Run \ {r} PROVE ReadingOK(q)' /\ StaysInserted(q)
  <2>1. ReadingOK(q) /\ reading'[q] = reading[q]
    BY <1>1 DEF ExtractionInv, ReadingsOK
  <2>2. StaysInserted(q)
    BY <2>1 DEF StaysInserted
  <2>3. reading[q].pc # "idle" => /\ reading[q].file \in Statement
                                  /\ imports'[reading[q].file].status # "absent"
    BY <2>1 DEF ReadingOK, NothingNew
  <2>4. reading[q].parser = "model" /\ reading[q].pc \in PastClaim =>
          imports'[reading[q].file].status \notin {"absent", "uploaded"}
    <3>1. reading[q].pc \in PastClaim => reading[q].pc # "idle"
      BY DEF PastClaim
    <3> QED BY <2>1, <2>3, <3>1 DEF ReadingOK, NothingNew, Fresh
  <2> QED BY <2>1, <2>2, <2>3, <2>4 DEF ReadingOK, Fresh
<1> QED BY <1>1, <1>2, <1>3, Continued

\* A step of the users.
LEMMA Besides ==
  ASSUME ExtractionInv, SoundImports', NothingNew, UNCHANGED reading
  PROVE  ExtractionInv'
<1>1. ASSUME NEW q \in Run PROVE ReadingOK(q)' /\ StaysInserted(q)
  <2>1. ReadingOK(q)
    BY DEF ExtractionInv, ReadingsOK
  <2>2. StaysInserted(q)
    BY DEF StaysInserted
  <2>3. reading[q].pc \in PastClaim => reading[q].pc # "idle"
    BY DEF PastClaim
  <2> QED BY <2>1, <2>2, <2>3 DEF ReadingOK, NothingNew, Fresh
<1>2. reading' \in [Run -> Reading]
  BY DEF ExtractionInv, ReadingsOK
<1> QED BY <1>1, <1>2, Continued

LEMMA TablesKept ==
  ASSUME SoundImports, UNCHANGED <<rows, answers, imports, txns>>
  PROVE  SoundImports' /\ NothingNew
<1>1. ImportsOK' /\ TxnsOK'
  BY DEF SoundImports, ImportsOK, TxnsOK, Present
<1>2. NothingNew
  BY DEF NothingNew, Fresh
<1> QED BY <1>1, <1>2, UnmarkedStep

LEMMA RecordIs ==
  ASSUME SoundImports, NEW s \in Statement,
         NEW st \in {"extracting", "extracted", "failed", "imported"},
         Record(s, st), UNCHANGED <<rows, answers, txns>>
  PROVE  /\ SoundImports' /\ NothingNew
         /\ imports[s].status # "absent" => imports'[s].status \in {st, "deleted"}
<1>1. PICK S : S = {s} \cap Present
  OBVIOUS
<1>2. S \in SUBSET Present /\ SetStatus(S, st)
  BY <1>1 DEF Record
<1>3. /\ ImportsOK' /\ \A u \in S : imports'[u].status = st
      /\ \A u \in Statement \ S : imports'[u] = imports[u]
  BY <1>2, StatusSet DEF SoundImports
<1>4. imports[s].status # "absent" => imports'[s].status \in {st, "deleted"}
  <2>1. CASE s \in Present
    BY <1>1, <1>3, <2>1
  <2>2. CASE s \notin Present
    BY <1>1, <1>3, <2>2 DEF Present
  <2> QED BY <2>1, <2>2
<1>5. TxnsOK'
  BY DEF SoundImports, TxnsOK
<1>6. NothingNew
  BY <1>1, <1>3 DEF NothingNew, Fresh
<1> QED BY <1>3, <1>4, <1>5, <1>6, UnmarkedStep

\* What is known of a reading that is being made.
LEMMA Underway ==
  ASSUME ExtractionInv, NEW r \in Run
  PROVE  /\ reading[r] \in Reading /\ ReadingsOK /\ SoundImports
         /\ reading[r].pc # "idle" =>
              reading[r].file \in Statement /\ imports[reading[r].file].status # "absent"
         /\ reading[r].pc = "check" => reading[r].parser = "spreadsheet"
         /\ reading[r].parser = "model" /\ reading[r].pc \in PastClaim =>
              imports[reading[r].file].status \notin {"absent", "uploaded"}
BY DEF ExtractionInv, ReadingsOK, ReadingOK, Fresh

LEMMA StartKeeps ==
  ASSUME ExtractionInv, NEW r \in Run, NEW s \in Statement, StartReading(r, s)
  PROVE  ExtractionInv'
<1>1. PICK x : x = [NotStarted EXCEPT !.pc = "claim", !.file = s]
  OBVIOUS
<1>2. x \in Reading /\ x.pc = "claim" /\ x.file = s
  BY <1>1 DEF NotStarted, Reading, Pc
<1>3. /\ reading[r].pc = "idle" /\ imports[s].status = "uploaded"
      /\ reading' = [reading EXCEPT ![r] = x] /\ UNCHANGED <<rows, answers, imports, txns>>
  BY <1>1 DEF StartReading, At, Startable
<1>4. SoundImports' /\ NothingNew
  BY <1>3, TablesKept, Underway
<1> QED BY <1>2, <1>3, <1>4, StepOf DEF PastClaim, PastInsert

LEMMA ClaimKeeps ==
  ASSUME ExtractionInv, NEW r \in Run, Claim(r)
  PROVE  ExtractionInv'
<1>1. reading[r].pc = "claim"
  BY DEF Claim, At
<1>2. PICK x \in Reading : /\ x.pc = "ask" /\ x.file = reading[r].file
                           /\ x.parser = reading[r].parser /\ reading' = [reading EXCEPT ![r] = x]
  BY GotoIs, Underway DEF Claim, Pc
<1>3. /\ SoundImports' /\ NothingNew
      /\ x.file \in Statement /\ imports'[x.file].status \in {"extracting", "deleted"}
  BY <1>1, <1>2, RecordIs, Underway DEF Claim
<1> QED BY <1>1, <1>2, <1>3, StepOf DEF PastInsert

LEMMA UploadSheetKeeps ==
  ASSUME ExtractionInv, NEW r \in Run, NEW s \in Statement, UploadSpreadsheet(r, s)
  PROVE  ExtractionInv'
<1>1. PICK x : x = [NotStarted EXCEPT !.pc = "check", !.file = s, !.parser = "spreadsheet"]
  OBVIOUS
<1>2. x \in Reading /\ x.pc = "check" /\ x.file = s /\ x.parser = "spreadsheet"
  BY <1>1 DEF NotStarted, Reading, Pc
<1>3. reading[r].pc = "idle" /\ Upload(s) /\ reading' = [reading EXCEPT ![r] = x]
  BY <1>1 DEF UploadSpreadsheet, At
<1>4. SoundImports' /\ NothingNew
  BY <1>3, UploadKeeps, Underway
<1>5. imports'[s].status = "uploaded"
  BY <1>3, Underway DEF Upload, SoundImports, ImportsOK
<1> QED BY <1>2, <1>3, <1>4, <1>5, StepOf DEF PastClaim, PastInsert

LEMMA CheckKeeps ==
  ASSUME ExtractionInv, NEW r \in Run, CheckSpreadsheet(r)
  PROVE  ExtractionInv'
<1>1. reading[r].pc = "check" /\ UNCHANGED <<rows, answers, imports, txns>>
  BY DEF CheckSpreadsheet, At
<1>2. PICK pc \in {"ask", "failing"} : Goto(r, pc)
  BY DEF CheckSpreadsheet
<1>3. PICK x \in Reading : /\ x.pc = pc /\ x.file = reading[r].file
                           /\ x.parser = reading[r].parser /\ reading' = [reading EXCEPT ![r] = x]
  BY <1>2, GotoIs, Underway DEF Pc
<1>4. SoundImports' /\ NothingNew
  BY <1>1, TablesKept, Underway
<1> QED BY <1>1, <1>3, <1>4, StepOf, Underway DEF PastInsert

LEMMA LookKeeps ==
  ASSUME ExtractionInv, NEW r \in Run, KevinReads(r)
  PROVE  ExtractionInv'
<1>1. reading[r].pc = "look" /\ UNCHANGED <<rows, answers, imports, txns>>
  BY DEF KevinReads, At
<1>2. /\ reading[r].file \in Statement /\ imports[reading[r].file].status # "absent"
      /\ SoundImports' /\ NothingNew
  BY <1>1, TablesKept, Underway
<1>3. CASE imports[reading[r].file].status = "uploaded"
  <2>1. PICK x \in Reading : /\ x.pc = "claim" /\ x.file = reading[r].file
                             /\ x.parser = reading[r].parser /\ reading' = [reading EXCEPT ![r] = x]
    BY <1>3, GotoIs, Underway DEF KevinReads, Startable, Pc
  <2> QED BY <1>1, <1>2, <2>1, StepOf DEF PastInsert, PastClaim
<1>4. CASE imports[reading[r].file].status # "uploaded"
  <2>1. PICK x \in Reading : /\ x.pc = "failed" /\ x.file = reading[r].file
                             /\ x.parser = reading[r].parser /\ reading' = [reading EXCEPT ![r] = x]
    BY <1>4, GotoIs, Underway DEF KevinReads, Startable, Pc
  <2> QED BY <1>1, <1>2, <1>4, <2>1, StepOf DEF PastInsert
<1> QED BY <1>3, <1>4

LEMMA AnsweredKeeps ==
  ASSUME ExtractionInv, NEW r \in Run, Answered(r)
  PROVE  ExtractionInv'
<1>1. reading[r].pc = "ask" /\ UNCHANGED <<rows, answers, imports, txns>>
  BY DEF Answered, At
<1>2. PICK pc \in {"insert", "failing"} : Goto(r, pc)
  BY DEF Answered
<1>3. PICK x \in Reading : /\ x.pc = pc /\ x.file = reading[r].file
                           /\ x.parser = reading[r].parser /\ reading' = [reading EXCEPT ![r] = x]
  BY <1>2, GotoIs, Underway DEF Pc
<1>4. SoundImports' /\ NothingNew
  BY <1>1, TablesKept, Underway
<1> QED BY <1>1, <1>3, <1>4, StepOf, Underway DEF PastInsert, PastClaim

LEMMA RecordKeeps ==
  ASSUME ExtractionInv, NEW r \in Run, RecordMetadata(r)
  PROVE  ExtractionInv'
<1>1. reading[r].pc = "record" /\ UNCHANGED <<rows, answers, txns>>
  BY DEF RecordMetadata, At
<1>2. reading[r].file \in Statement /\ imports[reading[r].file].status # "absent"
  BY <1>1, Underway
<1>3. PICK pc \in {"categorize", "failing"} : Goto(r, pc)
  BY DEF RecordMetadata
<1>4. PICK x \in Reading : /\ x.pc = pc /\ x.file = reading[r].file
                           /\ x.parser = reading[r].parser /\ reading' = [reading EXCEPT ![r] = x]
  BY <1>3, GotoIs, Underway DEF Pc
<1>5. CASE UNCHANGED imports
  <2>1. SoundImports' /\ NothingNew
    BY <1>1, <1>5, TablesKept, Underway
  <2> QED BY <1>1, <1>2, <1>4, <1>5, <2>1, StepOf, Underway DEF PastInsert, PastClaim
<1>6. CASE Record(reading[r].file, "extracted")
  <2>1. /\ SoundImports' /\ NothingNew
        /\ imports'[x.file].status \in {"extracted", "deleted"}
    BY <1>1, <1>2, <1>4, <1>6, RecordIs, Underway
  <2> QED BY <1>1, <1>2, <1>4, <2>1, StepOf DEF PastInsert, PastClaim
<1> QED BY <1>5, <1>6 DEF RecordMetadata

LEMMA FinishKeeps ==
  ASSUME ExtractionInv, NEW r \in Run, FinishReading(r) \/ FailReading(r)
  PROVE  ExtractionInv'
<1>1. reading[r].pc \in {"suggest", "failing"} /\ UNCHANGED <<rows, answers, txns>>
  BY DEF FinishReading, FailReading, At
<1>2. /\ reading[r].file \in Statement /\ imports[reading[r].file].status # "absent"
      /\ reading[r] \in Reading
  BY <1>1, Underway
<1>3. PICK x \in Reading : /\ x.pc \in {"done", "failed"} /\ x.file = reading[r].file
                           /\ x.parser = reading[r].parser /\ reading' = [reading EXCEPT ![r] = x]
  <2>1. CASE FinishReading(r)
    <3>1. PICK x : x = [reading[r] EXCEPT !.pc = "done", !.left = {}]
      OBVIOUS
    <3>2. x \in Reading /\ x.pc = "done" /\ x.file = reading[r].file /\ x.parser = reading[r].parser
      BY <1>2, <3>1 DEF Reading, Pc
    <3>3. reading' = [reading EXCEPT ![r] = x]
      BY <2>1, <3>1 DEF FinishReading
    <3> QED BY <3>2, <3>3
  <2>2. CASE FailReading(r)
    BY <2>2, GotoIs, Underway DEF FailReading, Pc
  <2> QED BY <2>1, <2>2
<1>4. CASE UNCHANGED imports
  <2>1. SoundImports' /\ NothingNew
    BY <1>1, <1>4, TablesKept, Underway
  <2> QED BY <1>1, <1>2, <1>3, <1>4, <2>1, StepOf, Underway DEF PastInsert, PastClaim
<1>5. CASE \E st \in {"extracted", "failed"} : Record(reading[r].file, st)
  <2>1. PICK st \in {"extracted", "failed"} : Record(reading[r].file, st)
    BY <1>5
  <2>2. /\ SoundImports' /\ NothingNew
        /\ imports'[x.file].status \in {st, "deleted"}
    BY <1>1, <1>2, <1>3, <2>1, RecordIs, Underway
  <2> QED BY <1>1, <1>2, <1>3, <2>1, <2>2, StepOf DEF PastInsert, PastClaim
<1> QED BY <1>4, <1>5 DEF FinishReading, FailReading, FailureStatus

\* An account that a file is linked to by itself is one it may be linked to.
LEMMA MatchesAre ==
  ASSUME NEW s \in Statement, NEW clues
  PROVE  Matches(clues, Candidates(s, clues)) \subseteq Linkable[s]
<1>1. PICK S : S = Candidates(s, clues)
  OBVIOUS
<1>2. S \subseteq Linkable[s]
  BY <1>1 DEF Candidates
<1>3. Standout(clues, S) \subseteq S
  BY DEF Standout
<1>4. Matches(clues, S) \subseteq S
  BY <1>3 DEF Matches
<1> QED BY <1>1, <1>2, <1>4

LEMMA KevinUploadKeeps ==
  ASSUME ExtractionInv, NEW r \in Run, NEW s \in Statement, KevinUpload(r, s)
  PROVE  ExtractionInv'
<1>1. reading[r].pc = "idle" /\ imports[s].status = "absent" /\ UNCHANGED <<rows, answers, txns>>
  BY DEF KevinUpload, At
<1>2. PICK clues \in Clues[s] :
        LET S == Candidates(s, clues) IN
        /\ \E a \in IF Matches(clues, S) = {} THEN {NoAccount} ELSE Matches(clues, S) :
             imports' = [imports EXCEPT ![s] = [status |-> "uploaded", linkedAccountId |-> a]]
        /\ \/ UNCHANGED reading
           \/ \E parser \in {"model", "spreadsheet"} :
                reading' = [reading EXCEPT ![r] =
                  [NotStarted EXCEPT !.file = s, !.parser = parser,
                     !.pc = IF parser = "model" THEN "look" ELSE "check"]]
  BY DEF KevinUpload
<1>3. PICK a \in Linkable[s] \cup {NoAccount} :
        imports' = [imports EXCEPT ![s] = [status |-> "uploaded", linkedAccountId |-> a]]
  <2>1. PICK M : M = Matches(clues, Candidates(s, clues))
    OBVIOUS
  <2>2. M \subseteq Linkable[s]
    BY <2>1, MatchesAre
  <2> QED BY <1>2, <2>1, <2>2
<1>4. SoundImports' /\ NothingNew /\ imports'[s].status = "uploaded"
  BY <1>1, <1>3, UploadedIs, Underway
<1>5. CASE UNCHANGED reading
  BY <1>4, <1>5, Besides
<1>6. ASSUME NEW parser \in {"model", "spreadsheet"},
             reading' = [reading EXCEPT ![r] =
                  [NotStarted EXCEPT !.file = s, !.parser = parser,
                     !.pc = IF parser = "model" THEN "look" ELSE "check"]]
      PROVE  ExtractionInv'
  <2>1. PICK pc : pc = IF parser = "model" THEN "look" ELSE "check"
    OBVIOUS
  <2>2. PICK x : x = [NotStarted EXCEPT !.file = s, !.parser = parser, !.pc = pc]
    OBVIOUS
  <2>3. x \in Reading /\ x.pc = pc /\ x.file = s /\ x.parser = parser
    BY <2>1, <2>2 DEF NotStarted, Reading, Pc
  <2>4. reading' = [reading EXCEPT ![r] = x]
    BY <1>6, <2>1, <2>2
  <2> QED BY <1>1, <1>4, <2>1, <2>3, <2>4, StepOf DEF PastInsert, PastClaim
<1> QED BY <1>2, <1>5, <1>6

LEMMA LoadKeeps ==
  ASSUME ExtractionInv, NEW r \in Run, LoadCandidates(r)
  PROVE  ExtractionInv'
<1>1. reading[r].pc = "categorize" /\ UNCHANGED <<rows, answers, imports, txns>>
  BY DEF LoadCandidates, At
<1>2. PICK T : T = {t \in ActiveUnposted(TxnsOf({reading[r].file})) :
                      txns[t].confirmedAccountId = NoAccount}
  OBVIOUS
<1>3. T \subseteq TxnId
  BY <1>2 DEF ActiveUnposted, TxnsOf, ExtractionInv, SoundImports, TxnsOK
<1>4. PICK x : x = [reading[r] EXCEPT !.pc = "suggest", !.left = T]
  OBVIOUS
<1>5. /\ x \in Reading /\ x.pc = "suggest"
      /\ x.file = reading[r].file /\ x.parser = reading[r].parser
  BY <1>3, <1>4, Underway DEF Reading, Pc
<1>6. reading' = [reading EXCEPT ![r] = x]
  BY <1>2, <1>4 DEF LoadCandidates
<1>7. SoundImports' /\ NothingNew
  BY <1>1, TablesKept, Underway
<1> QED BY <1>1, <1>5, <1>6, <1>7, StepOf, Underway DEF PastInsert, PastClaim

LEMMA SuggestKeeps ==
  ASSUME ExtractionInv, NEW r \in Run, NEW t \in reading[r].left, WriteSuggestion(r, t)
  PROVE  ExtractionInv'
<1>1. reading[r].pc = "suggest" /\ UNCHANGED <<rows, answers, imports>>
  BY DEF WriteSuggestion, At
<1>2. PICK x : x = [reading[r] EXCEPT !.left = reading[r].left \ {t}]
  OBVIOUS
<1>3. /\ x \in Reading /\ x.pc = "suggest"
      /\ x.file = reading[r].file /\ x.parser = reading[r].parser
  BY <1>1, <1>2, Underway DEF Reading
<1>4. reading' = [reading EXCEPT ![r] = x]
  BY <1>2 DEF WriteSuggestion
<1>5. SoundImports' /\ NothingNew
  <2>1. CASE UNCHANGED txns
    BY <1>1, <2>1, TablesKept, Underway
  <2>2. ASSUME t \in DOMAIN txns, NEW a \in Category \cup {NoAccount},
               SetTxn(t, "confirmedAccountId", a)
        PROVE  SoundImports' /\ NothingNew
    BY <1>1, <2>2, ReviewKeeps, Underway DEF Review, Categorize
  <2> QED BY <2>1, <2>2 DEF WriteSuggestion
<1> QED BY <1>1, <1>3, <1>4, <1>5, StepOf, Underway DEF PastInsert, PastClaim

\* Rows are inserted under ids that nothing refers to, for only this reading makes them.
LEMMA InsertKeeps ==
  ASSUME ExtractionInv, NEW r \in Run, InsertTransactions(r)
  PROVE  ExtractionInv'
<1>1. reading[r].pc = "insert" /\ UNCHANGED <<rows, answers, imports>>
  BY DEF InsertTransactions, At
<1>2. PICK s \in Statement : s = reading[r].file
  BY <1>1, Underway
<1>3. CASE UNCHANGED txns /\ Goto(r, "failing")
  <2>1. PICK x \in Reading : /\ x.pc = "failing" /\ x.file = reading[r].file
                             /\ x.parser = reading[r].parser /\ reading' = [reading EXCEPT ![r] = x]
    BY <1>3, GotoIs, Underway DEF Pc
  <2>2. SoundImports' /\ NothingNew
    BY <1>1, <1>3, TablesKept, Underway
  <2> QED BY <1>1, <2>1, <2>2, StepOf, Underway DEF PastInsert, PastClaim
<1>4. CASE txns' = Inserted(s, r) /\ Goto(r, "record")
  <2>1. PICK x \in Reading : /\ x.pc = "record" /\ x.file = reading[r].file
                             /\ x.parser = reading[r].parser /\ reading' = [reading EXCEPT ![r] = x]
    BY <1>4, GotoIs, Underway DEF Pc
  <2>2. /\ TxnsOK'
        /\ \A t \in DOMAIN txns' :
             \/ t \in DOMAIN txns /\ txns'[t] = txns[t]
             \/ t[1] = s /\ t[3] = r /\ txns'[t].journalBatchId = None
    BY <1>4, InsertedIs, Underway DEF SoundImports
  <2>3. ASSUME NEW t, t[3] = r PROVE ~InsertedBy(t, t[3])
    BY <1>1, <2>3 DEF InsertedBy, PastInsert
  <2>4. \A t : t[3] = r => PostingsOf(t) = {}
    BY <2>3 DEF PostingsOf, ExtractionInv, RowsOfReadings
  <2>5. SoundImports'
    <3>1. ImportsOK'
      BY <1>1, Underway DEF SoundImports, ImportsOK, Present
    <3> QED BY <1>1, <2>2, <2>4, <3>1, UnmarkedStep, Underway
  <2>6. /\ reading' \in [Run -> Reading] /\ reading'[r] = x
        /\ \A q \in Run \ {r} : reading'[q] = reading[q]
    BY <2>1, ReadingSet, Underway
  <2>7. ReadingsOK'
    <3>1. \A q \in Run \ {r} : ReadingOK(q)'
      BY <1>1, <2>6 DEF ExtractionInv, ReadingsOK, ReadingOK, Fresh
    <3>2. ReadingOK(r)'
      BY <1>1, <2>1, <2>6, Underway DEF ReadingOK, Fresh, PastClaim
    <3> QED BY <2>6, <3>1, <3>2 DEF ReadingsOK
  <2>8. ASSUME NEW t \in TxnId, InsertedBy(t, t[3]) PROVE InsertedBy(t, t[3])'
    <3>1. t[3] \in Run \ {r}
      BY <2>3, <2>8, IdParts
    <3> QED BY <1>1, <2>6, <2>8, <3>1 DEF InsertedBy, Fresh
  <2>9. ASSUME NEW t \in DOMAIN txns' PROVE InsertedBy(t, t[3])'
    <3>1. CASE t \in DOMAIN txns
      BY <2>8, <3>1 DEF ExtractionInv, RowsOfReadings, SoundImports, TxnsOK
    <3>2. CASE t[1] = s /\ t[3] = r
      BY <1>1, <1>2, <2>1, <2>6, <3>2, Underway DEF InsertedBy, Fresh, PastInsert, PastClaim
    <3> QED BY <2>2, <3>1, <3>2
  <2>10. ASSUME NEW b \in DOMAIN rows, rows[b].sourceType = "import", NEW t \in rows[b].source
         PROVE  InsertedBy(t, t[3])'
    <3>1. t \in TxnId
      BY <2>10, SourceTyped DEF ExtractionInv, SoundImports, IndInv
    <3> QED BY <2>8, <2>10, <3>1 DEF ExtractionInv, RowsOfReadings
  <2>11. RowsOfReadings'
    BY <1>1, <2>9, <2>10 DEF RowsOfReadings
  <2> QED BY <2>5, <2>7, <2>11 DEF ExtractionInv
<1> QED BY <1>2, <1>3, <1>4 DEF InsertTransactions

LEMMA RefuseKeeps ==
  ASSUME ExtractionInv, NEW s \in Statement, RefuseExtraction(s)
  PROVE  ExtractionInv'
<1>1. s \in Present /\ UNCHANGED <<rows, answers, txns, reading>> /\ SetStatus({s}, "failed")
  BY DEF RefuseExtraction
<1>2. Record(s, "failed")
  <2>1. {s} \cap Present = {s}
    BY <1>1
  <2> QED BY <1>1, <2>1 DEF Record
<1>3. SoundImports' /\ NothingNew
  BY <1>1, <1>2, RecordIs DEF ExtractionInv
<1> QED BY <1>1, <1>3, Besides

LEMMA CrashKeeps ==
  ASSUME ExtractionInv, Crash
  PROVE  ExtractionInv'
<1>1. /\ UNCHANGED <<rows, answers, imports, txns>> /\ DOMAIN reading' = Run
      /\ reading' = [r \in Run |-> reading'[r]]
      /\ \A r \in Run : reading'[r] = IF reading[r].pc \in Over THEN reading[r]
                                      ELSE [reading[r] EXCEPT !.pc = "lost", !.left = {}]
  BY DEF Crash
<1>2. SoundImports' /\ NothingNew
  BY <1>1, TablesKept DEF ExtractionInv
<1>3. ASSUME NEW r \in Run
      PROVE  reading'[r] \in Reading /\ ReadingOK(r)' /\ StaysInserted(r)
  <2>1. reading[r] \in Reading /\ ReadingOK(r)
    BY DEF ExtractionInv, ReadingsOK
  <2>2. CASE reading[r].pc \in Over
    BY <1>1, <2>1, <2>2 DEF ReadingOK, StaysInserted, Fresh
  <2>3. CASE reading[r].pc \notin Over
    <3>1. /\ reading'[r] \in Reading /\ reading'[r].pc = "lost"
          /\ reading'[r].file = reading[r].file /\ reading'[r].parser = reading[r].parser
      BY <1>1, <2>1, <2>3 DEF Reading, Pc
    <3> QED BY <1>1, <2>1, <2>3, <3>1 DEF ReadingOK, StaysInserted, Over, PastClaim, PastInsert
  <2> QED BY <2>2, <2>3
<1>4. reading' \in [Run -> Reading]
  BY <1>1, <1>3
<1> QED BY <1>2, <1>3, <1>4, Continued

LEMMA UserKeeps ==
  ASSUME ExtractionInv, UserStep
  PROVE  ExtractionInv'
<1>1. SoundImports /\ UNCHANGED reading
  BY DEF ExtractionInv, UserStep
<1>2. ASSUME NEW s \in Statement, Upload(s) PROVE SoundImports' /\ NothingNew
  BY <1>1, <1>2, UploadKeeps
<1>3. ASSUME NEW s \in Present, DeleteImport(s) PROVE SoundImports' /\ NothingNew
  BY <1>1, <1>3, DeleteKeeps
<1>4. ASSUME NEW t \in DOMAIN txns, ToggleExcluded(t) PROVE SoundImports' /\ NothingNew
  BY <1>1, <1>4, ReviewKeeps DEF Review
<1>5. ASSUME NEW t \in DOMAIN txns, NEW a \in Category, Categorize(t, a)
      PROVE  SoundImports' /\ NothingNew
  BY <1>1, <1>5, ReviewKeeps DEF Review
<1>6. ASSUME NEW g \in ImportBatch, PostStatement(g) PROVE SoundImports' /\ NothingNew
  BY <1>1, <1>6, PostKeeps
<1>7. ASSUME NEW g \in ImportBatch, UnpostStatement(g) PROVE SoundImports' /\ NothingNew
  BY <1>1, <1>7, UnpostKeeps
<1>8. SoundImports' /\ NothingNew
  BY <1>2, <1>3, <1>4, <1>5, <1>6, <1>7 DEF UserStep
<1> QED BY <1>1, <1>8, Besides

LEMMA ExtractionStart ==
  ASSUME ExtractionInit
  PROVE  ExtractionInv
<1>1. PostingInv /\ DOMAIN rows = {} /\ DOMAIN txns = {}
  BY PostingStart DEF ExtractionInit, PostingInit, Init
<1>2. RowsOfReadings
  BY <1>1 DEF RowsOfReadings
<1>3. reading = [r \in Run |-> NotStarted] /\ NotStarted \in Reading /\ NotStarted.pc = "idle"
  BY DEF ExtractionInit, NotStarted, Reading, Pc
<1>4. ReadingsOK
  BY <1>3 DEF ReadingsOK, ReadingOK, PastClaim
<1> QED BY <1>1, <1>2, <1>4 DEF ExtractionInv, PostingInv

LEMMA ReadingKeeps ==
  ASSUME ExtractionInv, NEW r \in Run, ReadingStep(r)
  PROVE  ExtractionInv'
<1>1. CASE Claim(r)
  BY <1>1, ClaimKeeps
<1>2. CASE KevinReads(r)
  BY <1>2, LookKeeps
<1>3. CASE CheckSpreadsheet(r)
  BY <1>3, CheckKeeps
<1>4. CASE Answered(r)
  BY <1>4, AnsweredKeeps
<1>5. CASE InsertTransactions(r)
  BY <1>5, InsertKeeps
<1>6. CASE RecordMetadata(r)
  BY <1>6, RecordKeeps
<1>7. CASE LoadCandidates(r)
  BY <1>7, LoadKeeps
<1>8. CASE FinishReading(r) \/ FailReading(r)
  BY <1>8, FinishKeeps
<1>9. CASE \E t \in reading[r].left : WriteSuggestion(r, t)
  BY <1>9, SuggestKeeps
<1> QED BY <1>1, <1>2, <1>3, <1>4, <1>5, <1>6, <1>7, <1>8, <1>9 DEF ReadingStep

LEMMA ExtractionStep ==
  ASSUME ExtractionInv, [ExtractionNext]_extractionVars
  PROVE  ExtractionInv'
<1>1. CASE UNCHANGED extractionVars
  <2>1. UNCHANGED <<rows, answers, imports, txns>> /\ UNCHANGED reading
    BY <1>1 DEF extractionVars
  <2> QED BY <2>1, TablesKept, Besides DEF ExtractionInv
<1>2. ASSUME NEW r \in Run, NEW s \in Statement,
             StartReading(r, s) \/ UploadSpreadsheet(r, s) \/ KevinUpload(r, s)
      PROVE  ExtractionInv'
  BY <1>2, StartKeeps, UploadSheetKeeps, KevinUploadKeeps
<1>3. ASSUME NEW r \in Run, ReadingStep(r) PROVE ExtractionInv'
  BY <1>3, ReadingKeeps
<1>4. ASSUME NEW s \in Statement, RefuseExtraction(s) PROVE ExtractionInv'
  BY <1>4, RefuseKeeps
<1> QED BY <1>1, <1>2, <1>3, <1>4, UserKeeps, CrashKeeps DEF ExtractionNext

\* Whatever readings of the same files overlap, stop half-way or lose their answers,
\* beside a user who reviews, posts and deletes what they insert: the journal stays
\* sound and every row, and every posting made from it, is of a reading that claimed
\* the file (extract.ts:49-61, spreadsheet-upload.ts, deletion.ts, posting-service.ts).
THEOREM ReadingsStaySound == ExtractionSpec => []ExtractionInv
<1>1. ExtractionInit => ExtractionInv
  BY ExtractionStart
<1>2. ExtractionInv /\ [ExtractionNext]_extractionVars => ExtractionInv'
  BY ExtractionStep
<1> QED BY <1>1, <1>2, PTL DEF ExtractionSpec

\* A reading is only started on a file that is as it was uploaded.
LEMMA StartedOnFresh ==
  ASSUME ExtractionInv, [ExtractionNext]_extractionVars, NEW r \in Run,
         reading[r].pc # "claim", reading'[r].pc = "claim"
  PROVE  /\ reading'[r].file \in Statement /\ imports[reading'[r].file].status = "uploaded"
         /\ UNCHANGED txns
<1>1. reading \in [Run -> Reading] /\ reading' # reading
  BY DEF ExtractionInv, ReadingsOK
<1>2. ASSUME NEW q \in Run, NEW x \in Reading, reading' = [reading EXCEPT ![q] = x], x.pc # "claim"
      PROVE  FALSE
  BY <1>1, <1>2
<1>3. ASSUME NEW q \in Run, NEW pc \in Pc, Goto(q, pc)
      PROVE  pc = "claim" /\ q = r /\ reading'[r].file = reading[r].file
  BY <1>1, <1>3 DEF Goto
<1>4. ASSUME NEW q \in Run, NEW s \in Statement, StartReading(q, s)
      PROVE  /\ reading'[r].file = s /\ imports[s].status = "uploaded" /\ UNCHANGED txns
  <2>1. PICK x : x = [NotStarted EXCEPT !.pc = "claim", !.file = s]
    OBVIOUS
  <2>2. x.file = s /\ reading' = [reading EXCEPT ![q] = x]
    BY <1>4, <2>1 DEF StartReading, NotStarted
  <2>3. reading'[r] = x
    BY <1>1, <2>2
  <2> QED BY <1>4, <2>2, <2>3 DEF StartReading, Startable
<1>5. ASSUME NEW q \in Run, NEW s \in Statement, UploadSpreadsheet(q, s) PROVE FALSE
  <2>1. PICK x : x = [NotStarted EXCEPT !.pc = "check", !.file = s, !.parser = "spreadsheet"]
    OBVIOUS
  <2>2. x \in Reading /\ x.pc = "check"
    BY <2>1 DEF NotStarted, Reading, Pc
  <2>3. reading' = [reading EXCEPT ![q] = x]
    BY <1>5, <2>1 DEF UploadSpreadsheet
  <2> QED BY <1>2, <2>2, <2>3
<1>6. ASSUME NEW q \in Run, NEW s \in Statement, KevinUpload(q, s) PROVE FALSE
  <2>1. PICK parser \in {"model", "spreadsheet"} :
           reading' = [reading EXCEPT ![q] =
                    [NotStarted EXCEPT !.file = s, !.parser = parser,
                       !.pc = IF parser = "model" THEN "look" ELSE "check"]]
    BY <1>1, <1>6 DEF KevinUpload
  <2>2. PICK x : x = [NotStarted EXCEPT !.file = s, !.parser = parser,
                        !.pc = IF parser = "model" THEN "look" ELSE "check"]
    OBVIOUS
  <2>3. x \in Reading /\ x.pc # "claim"
    BY <2>2 DEF NotStarted, Reading, Pc
  <2> QED BY <1>2, <2>1, <2>2, <2>3
<1>7. ASSUME NEW q \in Run, KevinReads(q)
      PROVE  /\ reading'[r].file \in Statement /\ imports[reading'[r].file].status = "uploaded"
             /\ UNCHANGED txns
  <2>1. CASE Goto(q, "failed")
    BY <1>3, <2>1 DEF Pc
  <2>2. CASE Goto(q, "claim") /\ imports[reading[q].file].status = "uploaded"
    <3>1. q = r /\ reading'[r].file = reading[r].file
      BY <1>3, <2>2 DEF Pc
    <3>2. reading[r].file \in Statement
      BY <1>7, <3>1 DEF KevinReads, At, ExtractionInv, ReadingsOK, ReadingOK
    <3> QED BY <1>7, <2>2, <3>1, <3>2 DEF KevinReads
  <2> QED BY <1>7, <2>1, <2>2 DEF KevinReads, Startable
<1>8. ASSUME NEW q \in Run,
             \/ Claim(q) \/ CheckSpreadsheet(q) \/ Answered(q) \/ InsertTransactions(q)
             \/ RecordMetadata(q) \/ FailReading(q)
      PROVE  FALSE
  <2>1. PICK pc \in Pc \ {"claim"} : Goto(q, pc)
    BY <1>8 DEF Claim, CheckSpreadsheet, Answered, InsertTransactions, RecordMetadata,
       FailReading, Pc
  <2> QED BY <1>3, <2>1
<1>9. ASSUME NEW q \in Run,
             \/ LoadCandidates(q) \/ FinishReading(q) \/ \E t \in reading[q].left : WriteSuggestion(q, t)
      PROVE  FALSE
  <2>1. reading[q].pc \in {"categorize", "suggest"} /\ reading'[q].pc \in {"suggest", "done"}
        /\ \A p \in Run \ {q} : reading'[p] = reading[p]
    BY <1>1, <1>9 DEF LoadCandidates, FinishReading, WriteSuggestion, At, Reading
  <2> QED BY <2>1
<1>10. ASSUME Crash PROVE FALSE
  <2>1. reading'[r] = IF reading[r].pc \in Over THEN reading[r]
                      ELSE [reading[r] EXCEPT !.pc = "lost", !.left = {}]
    BY <1>10 DEF Crash
  <2> QED BY <1>1, <2>1 DEF Reading
<1> QED BY <1>1, <1>4, <1>5, <1>6, <1>7, <1>8, <1>9, <1>10
        DEF ExtractionNext, ReadingStep, RefuseExtraction, UserStep, extractionVars

\* extract.ts:41-46 reads only an uploaded file, and no status leads back to that one:
\* a file whose lines the model has brought in is never read from the start again.
THEOREM ReadOnlyOnce == ExtractionSpec => RetryRefused
<1>1. ASSUME ExtractionInv, [ExtractionNext]_extractionVars, NEW r \in Run,
             ~At(r, "claim"), reading'[r].pc = "claim",
             NEW t \in DOMAIN txns, t[1] = reading'[r].file
      PROVE  reading[t[3]].parser # "model"
  <2>1. /\ reading'[r].file \in Statement /\ imports[reading'[r].file].status = "uploaded"
        /\ UNCHANGED txns
    BY <1>1, StartedOnFresh DEF At
  <2>2. InsertedBy(t, t[3])
    BY <1>1 DEF ExtractionInv, RowsOfReadings
  <2> QED BY <1>1, <2>1, <2>2 DEF InsertedBy, Fresh
<1>2. ExtractionInv /\ [ExtractionNext]_extractionVars =>
        [\A r \in Run :
          ~At(r, "claim") /\ reading'[r].pc = "claim" =>
            \A t \in TxnsOf({reading'[r].file}) : reading[t[3]].parser # "model"]_extractionVars
  BY <1>1 DEF TxnsOf
<1> QED BY <1>2, ReadingsStaySound, PTL DEF ExtractionSpec, RetryRefused

\* deletion.ts, posting-service.ts beside extract.ts: readings that overlap insert rows
\* of their own, and each of those is still on the books by its own batch alone.
THEOREM PostedOnceWhileRead == ExtractionSpec => []OnBooksOnce
<1>1. ExtractionInv => OnBooksOnce
  BY MarkedAreOnBooks DEF ExtractionInv
<1> QED BY <1>1, ReadingsStaySound, PTL

\* The same for the source key: no row that a reading adds to the file blocks it.
THEOREM RepostFreeWhileRead == ExtractionSpec => []RepostNeverBlocked
<1>1. ExtractionInv => RepostNeverBlocked
  BY UnmarkedIsFree DEF ExtractionInv
<1> QED BY <1>1, ReadingsStaySound, PTL

\* A step that is not a user's writes no journal; only an insertion brings lines.
LEMMA UpdateShown ==
  ASSUME BookInv, UNCHANGED rows, DOMAIN txns' = DOMAIN txns, \A s \in Present : s \in Present'
  PROVE  BookMoves /\ BookKept
BY SameRowsSamePostings, NothingShown

LEMMA RecordKeepsFiles ==
  ASSUME ImportsOK, NEW s, NEW st \in {"extracting", "extracted", "failed", "imported"},
         Record(s, st)
  PROVE  \A u \in Present : u \in Present'
<1>1. PICK S : S = {s} \cap Present
  OBVIOUS
<1> QED BY <1>1, PresentSet DEF Record

LEMMA KevinUploadShown ==
  ASSUME BookInv, NEW r \in Run, NEW s \in Statement, KevinUpload(r, s)
  PROVE  BookMoves /\ BookKept
<1>1. PICK a : imports' = [imports EXCEPT ![s] = [status |-> "uploaded", linkedAccountId |-> a]]
  BY DEF KevinUpload
<1>2. \A u \in Present : u \in Present'
  BY <1>1 DEF Present, BookInv, SoundImports, ImportsOK
<1>3. UNCHANGED <<rows, txns>>
  BY DEF KevinUpload
<1> QED BY <1>2, <1>3, UpdateShown

\* The rows that a reading inserts have ids that only this reading makes.
LEMMA InsertShown ==
  ASSUME ExtractionInv, BookInv, NEW r \in Run, InsertTransactions(r)
  PROVE  BookMoves /\ BookKept
<1>1. reading[r].pc = "insert" /\ UNCHANGED <<rows, imports>>
  BY DEF InsertTransactions, At
<1>2. PICK s \in Statement : s = reading[r].file
  BY <1>1, Underway
<1>3. \A u : u \in Present <=> u \in Present'
  BY <1>1 DEF Present
<1>4. CASE UNCHANGED txns
  BY <1>1, <1>3, <1>4, UpdateShown
<1>5. CASE s \in Present /\ txns' = Inserted(s, r)
  <2>1. /\ TxnsOK' /\ DOMAIN txns \subseteq DOMAIN txns'
        /\ \A t \in DOMAIN txns' : t \in DOMAIN txns \/ (t[1] = s /\ t[3] = r)
    BY <1>5, InsertedIs, Underway DEF SoundImports
  <2>2. PICK T : T = (DOMAIN txns') \ (DOMAIN txns)
    OBVIOUS
  <2>3. T \in SUBSET TxnId /\ T \cap DOMAIN txns = {} /\ DOMAIN txns' = DOMAIN txns \cup T
    BY <2>1, <2>2 DEF TxnsOK
  <2>4. \A t \in T : ~InsertedBy(t, t[3])
    BY <1>1, <2>1, <2>2 DEF InsertedBy, PastInsert
  <2>5. \A b \in PostedImports : T \cap rows[b].source = {}
    BY <2>4 DEF ExtractionInv, RowsOfReadings, PostedImports
  <2>6. FilesThere'
    BY <1>3, <1>5, <2>1 DEF BookInv, FilesThere
  <2> QED BY <1>1, <2>3, <2>5, <2>6, ReadShown
<1> QED BY <1>2, <1>4, <1>5 DEF InsertTransactions, Insertable

LEMMA ReadingShown ==
  ASSUME ExtractionInv, BookInv, NEW r \in Run, ReadingStep(r)
  PROVE  BookMoves /\ BookKept
<1>1. ImportsOK
  BY DEF BookInv, SoundImports
<1>2. \A u : UNCHANGED imports => (u \in Present <=> u \in Present')
  BY DEF Present
<1>3. CASE KevinReads(r) \/ CheckSpreadsheet(r) \/ Answered(r) \/ LoadCandidates(r)
  <2>1. UNCHANGED <<rows, txns, imports>>
    BY <1>3 DEF KevinReads, CheckSpreadsheet, Answered, LoadCandidates
  <2> QED BY <1>2, <2>1, UpdateShown
<1>4. CASE Claim(r) \/ RecordMetadata(r) \/ FinishReading(r) \/ FailReading(r)
  <2>1. UNCHANGED <<rows, txns>>
    BY <1>4 DEF Claim, RecordMetadata, FinishReading, FailReading
  <2>2. \/ UNCHANGED imports
        \/ \E st \in {"extracting", "extracted", "failed"} : Record(reading[r].file, st)
    BY <1>4 DEF Claim, RecordMetadata, FinishReading, FailReading, FailureStatus
  <2>3. PICK s : s = reading[r].file
    OBVIOUS
  <2>4. \A u \in Present : u \in Present'
    BY <1>1, <1>2, <2>2, <2>3, RecordKeepsFiles
  <2> QED BY <2>1, <2>4, UpdateShown
<1>5. CASE InsertTransactions(r)
  BY <1>5, InsertShown
<1>6. CASE \E t \in reading[r].left : WriteSuggestion(r, t)
  <2>1. UNCHANGED <<rows, imports>> /\ DOMAIN txns' = DOMAIN txns
    BY <1>6 DEF WriteSuggestion, SetTxn
  <2> QED BY <1>2, <2>1, UpdateShown
<1> QED BY <1>3, <1>4, <1>5, <1>6 DEF ReadingStep

LEMMA UserShown ==
  ASSUME BookInv, UserStep
  PROVE  BookMoves /\ BookKept
<1>1. ASSUME NEW t \in DOMAIN txns, NEW a \in Category, Categorize(t, a)
      PROVE  BookMoves /\ BookKept
  BY <1>1, ReviewShown DEF Review
<1>2. ASSUME NEW t \in DOMAIN txns, ToggleExcluded(t) PROVE BookMoves /\ BookKept
  BY <1>2, ReviewShown DEF Review
<1> QED BY <1>1, <1>2, UploadShown, DeleteShown, PostShown, UnpostShown DEF UserStep

LEMMA ExtractionShown ==
  ASSUME ExtractionInv, BookInv, [ExtractionNext]_extractionVars
  PROVE  BookMoves /\ BookKept
<1>1. ASSUME NEW s \in Statement, RefuseExtraction(s) PROVE BookMoves /\ BookKept
  <2>1. {s} \in SUBSET Present /\ SetStatus({s}, "failed") /\ UNCHANGED <<rows, txns>>
    BY <1>1 DEF RefuseExtraction
  <2>2. \A u \in Present : u \in Present'
    BY <2>1, PresentSet DEF BookInv, SoundImports
  <2> QED BY <2>1, <2>2, UpdateShown
<1>2. ASSUME UNCHANGED <<rows, imports, txns>> PROVE BookMoves /\ BookKept
  BY <1>2, UpdateShown DEF Present
<1>3. ASSUME NEW r \in Run, NEW s \in Statement, UploadSpreadsheet(r, s)
      PROVE  BookMoves /\ BookKept
  BY <1>3, UploadShown DEF UploadSpreadsheet
<1>4. ASSUME NEW r \in Run, NEW s \in Statement, StartReading(r, s)
      PROVE  UNCHANGED <<rows, imports, txns>>
  BY <1>4 DEF StartReading
<1>5. Crash \/ UNCHANGED extractionVars => UNCHANGED <<rows, imports, txns>>
  BY DEF Crash, extractionVars
<1> QED BY <1>1, <1>2, <1>3, <1>4, <1>5, KevinUploadShown, ReadingShown, UserShown
        DEF ExtractionNext

LEMMA BookWhileRead ==
  ASSUME ExtractionInv, BookInv, [ExtractionNext]_extractionVars
  PROVE  BookMoves /\ ExtractionInv' /\ BookInv'
<1>1. ExtractionInv'
  BY ExtractionStep
<1> QED BY <1>1, ExtractionShown DEF BookInv, BookKept, ExtractionInv

\* extract.ts beside deletion.ts and posting-service.ts: however the readings of a file
\* overlap, fail or stop half-way, what they and the users do is still one of the five
\* steps of StatementBook, or none: rows are inserted only while the file is there, and
\* never under the ids of rows that a posting remembers.
THEOREM StatementBookWhileRead == ExtractionSpec => ImplementsStatementBook
<1>1. ExtractionInit => ExtractionInv /\ BookInv /\ Book!Init
  BY ExtractionStart, BookStart DEF ExtractionInit
<1>2. ExtractionInv /\ BookInv /\ [ExtractionNext]_extractionVars =>
        BookMoves /\ ExtractionInv' /\ BookInv'
  BY BookWhileRead
<1> QED BY <1>1, <1>2, PTL DEF ExtractionSpec, ImplementsStatementBook, Book!Spec, BookMoves

LEMMA ExtractionMoves ==
  ASSUME [ExtractionNext]_extractionVars
  PROVE  JournalMoves
BY DEF ExtractionNext, ReadingStep, StartReading, UploadSpreadsheet, KevinUpload, Claim, KevinReads,
   CheckSpreadsheet, Answered, InsertTransactions, RecordMetadata, LoadCandidates,
   WriteSuggestion, FinishReading, FailReading, RefuseExtraction, UserStep, Crash, Upload,
   DeleteImport, ToggleExcluded, Categorize, extractionVars, JournalMoves

\* posting-service.ts:199-427 while files are read: what is posted meanwhile still moves
\* the statement's account by what its transactions say, half-read files included.
THEOREM FollowedWhileRead == ExtractionSpec => PostingFollowsStatement
<1>1. ExtractionInv /\ [ExtractionNext]_extractionVars => SoundImports /\ JournalMoves
  BY ExtractionMoves DEF ExtractionInv
<1>2. ExtractionInv /\ [ExtractionNext]_extractionVars =>
        [\A b \in BatchId, s \in Statement, d \in Date :
          /\ Posting(b, BatchOf[s]) /\ OneKind(BatchOf[s])
          /\ imports[s].linkedAccountId # NoAccount
          =>
           LET own == imports[s].linkedAccountId
               T   == {t \in rows'[b].source : txns[t].date = d}
           IN  (\A t \in T : /\ own \notin GivenTo(t)
                             /\ PaymentReceived(t) => GivenTo(t) \cap CashAccount = {}) =>
                 NetOf(rows'[b].content.lines, own, d)
                   = SumFunction([t \in T |-> txns[t].amountCents])]_postingVars
  BY <1>1, StatementsFollowed
<1> QED BY <1>2, ReadingsStaySound, PTL DEF ExtractionSpec, PostingFollowsStatement
-----------------------------------------------------------------------------
(* What is read from a statement *)

LEMMA DistinctOf ==
  ASSUME NEW A, NEW s \in Seq(A)
  PROVE  Distinct(s) \in Seq(A)
<1>1. PICK K : K = {k \in DOMAIN s : \A j \in DOMAIN s : s[j] = s[k] => k <= j}
  OBVIOUS
<1>2. K \in SUBSET (DOMAIN s) /\ Distinct(s) = AtPlaces(s, K)
  BY <1>1 DEF Distinct
<1> QED BY <1>2, AtPlacesIs

LinesOK(ls) == IsList(ls) /\ \A k \in DOMAIN ls : ls[k].cents \in Int

LEMMA SumOfLines ==
  ASSUME NEW ls, LinesOK(ls)
  PROVE  SumCents(ls) \in Int
<1>1. IsFiniteSet(DOMAIN ls)
  BY ListIs DEF LinesOK, IsList
<1>2. PICK f : f = [k \in DOMAIN ls |-> ls[k].cents]
  OBVIOUS
<1>3. SumCents(ls) = SumFunctionOnSet(f, DOMAIN ls)
  <2>1. DOMAIN f = DOMAIN ls
    BY <1>2
  <2> QED BY <1>2, <2>1 DEF SumCents, Amounts, SumFunction
<1>4. \A k \in DOMAIN ls : f[k] \in Int
  BY <1>2 DEF LinesOK
<1> QED BY <1>1, <1>3, <1>4, SumInt

LEMMA AdjustmentsOK ==
  ASSUME NEW s \in Seq(Adjustment)
  PROVE  LinesOK(s)
BY ListIs, ReadingAssumption DEF LinesOK

\* Normalizing keeps every readable line: its day, its text and its amount but for the sign.
LEMMA NormalizedIs ==
  ASSUME NEW type, NEW s \in Seq(AnswerLine), NEW r, r = Normalized(type, s),
         NEW readable, readable = ReadableOf(s)
  PROVE  /\ LinesOK(r) /\ Len(r) = Len(readable) /\ Len(r) \in Nat
         /\ \A k \in DOMAIN readable :
              /\ r[k].day = readable[k].day /\ r[k].text = readable[k].text
              /\ Abs(r[k].cents) = Abs(AmountToCents(readable[k].amount))
<1>1. PICK K : K = {k \in DOMAIN s : Readable(s[k])}
  OBVIOUS
<1>2. /\ readable \in Seq(AnswerLine)
      /\ \A j \in DOMAIN readable : \E p \in K : readable[j] = s[p]
  <2>1. K \in SUBSET (DOMAIN s) /\ readable = AtPlaces(s, K)
    BY <1>1 DEF ReadableOf
  <2> QED BY <2>1, AtPlacesIs
<1>3. PICK n \in Nat : n = Len(readable) /\ DOMAIN readable = 1 .. n
  BY <1>2, LenProperties
<1>4. r = [k \in 1 .. n |-> Signed(type, AsLine(readable[k]))]
  BY <1>3 DEF Normalized
<1>5. ASSUME NEW k \in 1 .. n
      PROVE  /\ r[k].day = readable[k].day /\ r[k].text = readable[k].text /\ r[k].cents \in Int
             /\ Abs(r[k].cents) = Abs(AmountToCents(readable[k].amount))
  <2>1. PICK line \in AnswerLine : line = readable[k] /\ line.amount # Null
    BY <1>1, <1>2, <1>3, ListIs DEF Readable
  <2>2. line.amount \in [hundredths : Int, decimals : BOOLEAN]
    BY <2>1, ReadingAssumption
  <2>3. PICK c \in Int : c = AmountToCents(line.amount)
    BY <2>2 DEF AmountToCents
  <2>4. PICK l : l = [day |-> line.day, text |-> line.text, cents |-> c]
    OBVIOUS
  <2>5. r[k] = Signed(type, l)
    BY <1>4, <2>1, <2>3, <2>4 DEF AsLine
  <2>6. PICK d : d = CASE l.text \in InterestLike -> -Abs(c)
                       [] l.text \in PaymentLike /\ type = "credit_card_statement" -> Abs(c)
                       [] OTHER -> c
    OBVIOUS
  <2>7. r[k] = [day |-> line.day, text |-> line.text, cents |-> d]
    BY <2>4, <2>5, <2>6 DEF Signed
  <2>8. d \in {-Abs(c), Abs(c), c}
    <3>1. CASE l.text \in InterestLike
      <4>1. ~(l.text \in PaymentLike)
        BY <3>1, ReadingAssumption
      <4> QED BY <2>6, <3>1, <4>1
    <3>2. CASE l.text \notin InterestLike
      BY <2>6, <3>2
    <3> QED BY <3>1, <3>2
  <2>9. d \in Int /\ Abs(d) = Abs(c)
    BY <2>8 DEF Abs
  <2> QED BY <2>1, <2>3, <2>7, <2>9
<1>6. IsList(r) /\ Len(r) = n /\ DOMAIN r = 1 .. n
  <2>1. r = [k \in 1 .. n |-> r[k]]
    BY <1>4
  <2> QED BY <2>1, ListMade
<1> QED BY <1>3, <1>5, <1>6 DEF LinesOK

LEMMA WithoutIs ==
  ASSUME NEW ls, LinesOK(ls), NEW exclude, NEW r, r = Without(ls, exclude)
  PROVE  LinesOK(r)
<1>1. PICK A : A = {ls[k] : k \in DOMAIN ls} /\ ls \in Seq(A)
  BY DEF LinesOK, IsList
<1>2. PICK K : K = (DOMAIN ls) \ exclude
  OBVIOUS
<1>3. r \in Seq(A) /\ \A j \in DOMAIN r : \E p \in K : r[j] = ls[p]
  <2>1. K \in SUBSET (DOMAIN ls) /\ r = AtPlaces(ls, K)
    BY <1>2 DEF Without
  <2> QED BY <1>1, <2>1, AtPlacesIs
<1>4. IsList(r)
  BY <1>3, ListIs
<1> QED BY <1>2, <1>3, <1>4 DEF LinesOK

LEMMA ValueLinesAre ==
  ASSUME NEW m \in StatementMetadata, NEW ls, NEW r, r = ValueLines(m, ls)
  PROVE  LinesOK(r)
<1>1. PICK changes \in Seq(Adjustment) : changes = Distinct(m.adjustments)
  BY DistinctOf DEF StatementMetadata
<1>2. PICK K : K = {i \in DOMAIN changes :
                      /\ changes[i].cents # 0
                      /\ \A k \in DOMAIN ls : <<ls[k].text, ls[k].cents>> # <<changes[i].text, changes[i].cents>>}
  OBVIOUS
<1>3. PICK new \in Seq(Adjustment) : new = AtPlaces(changes, K)
  <2>1. K \in SUBSET (DOMAIN changes)
    BY <1>2
  <2> QED BY <2>1, AtPlacesIs
<1>4. r = [k \in DOMAIN new |-> [day |-> ValueDay(m, ls), text |-> new[k].text, cents |-> new[k].cents]]
  BY <1>1, <1>2, <1>3 DEF ValueLines
<1>5. PICK n \in Nat : DOMAIN new = 1 .. n
  BY <1>3, LenProperties
<1>6. \A k \in 1 .. n : r[k].cents \in Int
  <2>1. \A k \in 1 .. n : new[k].cents \in Int
    BY <1>3, <1>5, ListIs, ReadingAssumption
  <2> QED BY <1>4, <1>5, <2>1
<1>7. IsList(r) /\ DOMAIN r = 1 .. n
  <2>1. r = [k \in 1 .. n |-> r[k]]
    BY <1>4, <1>5
  <2> QED BY <2>1, ListMade
<1> QED BY <1>6, <1>7 DEF LinesOK

\* What is kept of the model's answer, against the answer.
Accounted ==
  LET readable == ReadableOf(answered)
  IN  /\ "skipped" \notin issues => readable = answered
      /\ Len(lines) >= Len(readable)
      /\ \A k \in DOMAIN readable :
           /\ lines[k].day = readable[k].day /\ lines[k].text = readable[k].text
           /\ Abs(lines[k].cents) = Abs(AmountToCents(readable[k].amount))
      /\ recon.status # "ok" => Len(lines) = Len(readable)

ReadingHeld ==
  /\ meta \in StatementMetadata /\ answered \in Seq(AnswerLine) /\ LinesOK(lines)
  /\ recon = Reconciled(meta, lines)
  /\ resolution.outcome # "applied" => Accounted

\* Until the answer is normalized there is nothing to reconcile; from then on the
\* reconciliation is that of the lines and value changes as they are.
AnswerHeld ==
  /\ chosen \in {Null, "bank_statement", "credit_card_statement"}
  /\ stage \in {"ask", "metadata", "chunk", "normalize", "resolve", "value", "stored", "failed"}
  /\ stage \in {"ask", "metadata", "chunk", "normalize"} =>
       recon = NotReconciled /\ answered \in Seq(AnswerLine)
  /\ stage \in {"ask", "metadata", "chunk", "normalize", "resolve"} => resolution = NoSecondAnswer
  /\ stage \in {"chunk", "normalize"} => meta \in StatementMetadata
  /\ stage \in {"resolve", "value"} => ReadingHeld
  /\ stage = "stored" /\ recon # NotReconciled => ReadingHeld

LEMMA AnswersAre ==
  ASSUME NEW max \in Nat, NEW ls \in Answers(max)
  PROVE  ls \in Seq(AnswerLine)
<1>1. PICK n \in 0 .. max : ls \in [1 .. n -> AnswerLine]
  BY DEF Answers
<1>2. n \in Nat
  OBVIOUS
<1> QED BY <1>1, <1>2

LEMMA AnswerChunkHeld ==
  ASSUME AnswerHeld, NEW ls \in Seq(AnswerLine), AnswerChunk(ls)
  PROVE  AnswerHeld'
<1>1. answered \in Seq(AnswerLine) /\ recon = NotReconciled /\ meta \in StatementMetadata
      /\ resolution = NoSecondAnswer /\ chosen \in {Null, "bank_statement", "credit_card_statement"}
  BY DEF AnswerHeld, AnswerChunk
<1>2. PICK all : all = answered \o ls
  OBVIOUS
<1>3. all \in Seq(AnswerLine)
  BY <1>1, <1>2, ConcatProperties
<1>4. Distinct(AtPlaces(all, {k \in DOMAIN all : all[k].day # Null})) \in Seq(AnswerLine)
  <2>1. PICK K : K = {k \in DOMAIN all : all[k].day # Null}
    OBVIOUS
  <2>2. K \in SUBSET (DOMAIN all)
    BY <2>1
  <2>3. AtPlaces(all, K) \in Seq(AnswerLine)
    BY <1>3, <2>2, AtPlacesIs
  <2> QED BY <2>1, <2>3, DistinctOf
<1>5. answered' \in Seq(AnswerLine)
  BY <1>2, <1>3, <1>4 DEF AnswerChunk
<1>6. stage' \in {"chunk", "normalize"} /\ UNCHANGED <<chosen, meta, recon, resolution>>
  BY DEF AnswerChunk
<1> QED BY <1>1, <1>5, <1>6 DEF AnswerHeld

LEMMA NormalizeHeld ==
  ASSUME AnswerHeld, Normalize
  PROVE  AnswerHeld'
<1>1. answered \in Seq(AnswerLine) /\ meta \in StatementMetadata /\ resolution = NoSecondAnswer
  BY DEF AnswerHeld, Normalize
<1>2. PICK type, ls, readable : /\ type = TypeRead /\ ls = Normalized(type, answered)
                                /\ readable = ReadableOf(answered)
  OBVIOUS
<1>3. /\ lines' = ls /\ recon' = Reconciled(meta, ls) /\ stage' = "resolve"
      /\ UNCHANGED <<chosen, meta, answered, resolution>>
  BY <1>2 DEF Normalize
<1>4. /\ LinesOK(ls) /\ Len(ls) = Len(readable) /\ Len(ls) \in Nat
      /\ \A k \in DOMAIN readable :
           /\ ls[k].day = readable[k].day /\ ls[k].text = readable[k].text
           /\ Abs(ls[k].cents) = Abs(AmountToCents(readable[k].amount))
  BY <1>1, <1>2, NormalizedIs
<1>5. ASSUME "skipped" \notin issues'
      PROVE  readable = answered
  <2>1. \A k \in DOMAIN answered : Readable(answered[k])
    BY <1>5 DEF Normalize
  <2>2. readable = AtPlaces(answered, DOMAIN answered)
    <3>1. {k \in DOMAIN answered : Readable(answered[k])} = DOMAIN answered
      BY <2>1
    <3> QED BY <1>2, <3>1 DEF ReadableOf
  <2> QED BY <1>1, <2>2, AtAllPlaces
<1>6. Accounted'
  BY <1>2, <1>3, <1>4, <1>5 DEF Accounted
<1>7. ReadingHeld'
  BY <1>1, <1>3, <1>4, <1>6 DEF ReadingHeld
<1>8. chosen' \in {Null, "bank_statement", "credit_card_statement"} /\ resolution' = NoSecondAnswer
  BY <1>1, <1>3 DEF AnswerHeld
<1> QED BY <1>3, <1>7, <1>8 DEF AnswerHeld

LEMMA ResolveHeld ==
  ASSUME AnswerHeld, NEW exclude, NEW add \in Seq(Adjustment), NEW confidence,
         Resolve(exclude, add, confidence)
  PROVE  AnswerHeld'
<1>1. /\ meta \in StatementMetadata /\ answered \in Seq(AnswerLine) /\ LinesOK(lines)
      /\ recon = Reconciled(meta, lines) /\ (resolution.outcome # "applied" => Accounted)
  BY DEF AnswerHeld, Resolve, ReadingHeld
<1>2. stage' = "value" /\ UNCHANGED <<chosen, answered, issues>>
  BY DEF Resolve
<1>3. CASE Acceptable(exclude, add, confidence)
  <2>1. PICK m, ls : m = WithAdjustments(meta, add) /\ ls = Without(lines, exclude)
    OBVIOUS
  <2>2. /\ meta' = m /\ lines' = ls /\ recon' = Reconciled(m, ls)
        /\ resolution' = [outcome |-> "applied", exclude |-> exclude, add |-> add]
    BY <1>3, <2>1 DEF Resolve, ReconAfter
  <2>3. m \in StatementMetadata
    <3>1. PICK a \in Seq(Adjustment) : a = Distinct(meta.adjustments \o add)
      <4>1. meta.adjustments \o add \in Seq(Adjustment)
        BY <1>1, ConcatProperties DEF StatementMetadata
      <4> QED BY <4>1, DistinctOf
    <3>2. m = [meta EXCEPT !.adjustments = a]
      BY <2>1, <3>1 DEF WithAdjustments
    <3> QED BY <1>1, <3>2 DEF StatementMetadata
  <2>4. LinesOK(ls)
    BY <1>1, <2>1, WithoutIs
  <2>5. ReadingHeld'
    BY <1>1, <1>2, <2>2, <2>3, <2>4 DEF ReadingHeld
  <2> QED BY <1>2, <2>5 DEF AnswerHeld
<1>4. CASE ~Acceptable(exclude, add, confidence)
  <2>1. UNCHANGED <<meta, lines, recon>> /\ resolution' = [NoSecondAnswer EXCEPT !.outcome = "refused"]
    BY <1>4 DEF Resolve
  <2>2. Accounted
    <3>1. resolution = NoSecondAnswer
      BY DEF AnswerHeld, Resolve
    <3> QED BY <1>1, <3>1 DEF NoSecondAnswer
  <2>3. Accounted'
    BY <1>2, <2>1, <2>2 DEF Accounted
  <2>4. ReadingHeld'
    BY <1>1, <1>2, <2>1, <2>3 DEF ReadingHeld
  <2> QED BY <1>2, <2>4 DEF AnswerHeld
<1> QED BY <1>3, <1>4

LEMMA ValueChangesHeld ==
  ASSUME AnswerHeld, BookValueChanges
  PROVE  AnswerHeld'
<1>1. /\ meta \in StatementMetadata /\ answered \in Seq(AnswerLine) /\ LinesOK(lines)
      /\ recon = Reconciled(meta, lines) /\ (resolution.outcome # "applied" => Accounted)
  BY DEF AnswerHeld, BookValueChanges, ReadingHeld
<1>2. /\ stage' = "stored" /\ UNCHANGED <<chosen, answered, resolution>>
      /\ "skipped" \notin issues' => "skipped" \notin issues
  BY DEF BookValueChanges
<1>3. PICK booked, extra, all : /\ booked = [meta EXCEPT !.adjustments = <<>>]
                                /\ extra = ValueLines(meta, lines) /\ all = lines \o extra
  OBVIOUS
<1>4. CASE UNCHANGED <<meta, lines, recon>>
  <2>1. Accounted => Accounted'
    BY <1>2, <1>4 DEF Accounted
  <2>2. ReadingHeld'
    BY <1>1, <1>2, <1>4, <2>1 DEF ReadingHeld
  <2> QED BY <1>2, <2>2 DEF AnswerHeld
<1>5. CASE /\ meta' = booked /\ lines' = all /\ recon' = Reconciled(booked, all)
           /\ Reconciled(booked, all).status = "ok"
  <2>1. LinesOK(extra)
    BY <1>1, <1>3, ValueLinesAre
  <2>2. /\ IsList(all) /\ Len(all) = Len(lines) + Len(extra) /\ Len(lines) \in Nat /\ Len(extra) \in Nat
        /\ \A k \in DOMAIN lines : k \in DOMAIN all /\ all[k] = lines[k]
        /\ ComesFrom(all, lines, extra)
    <3>1. IsList(lines) /\ IsList(extra)
      BY <1>1, <2>1 DEF LinesOK
    <3>2. /\ IsList(all) /\ Len(all) = Len(lines) + Len(extra) /\ Len(lines) \in Nat /\ Len(extra) \in Nat
          /\ \A k \in DOMAIN lines : k \in DOMAIN all /\ all[k] = lines[k]
          /\ ComesFrom(all, lines, extra)
      BY <1>3, <3>1, ListsJoined
    <3> QED BY <3>2
  <2>3. LinesOK(all)
    BY <1>1, <2>1, <2>2 DEF LinesOK, ComesFrom
  <2>4. booked \in StatementMetadata
    <3>1. <<>> \in Seq(Adjustment)
      OBVIOUS
    <3> QED BY <1>1, <1>3, <3>1 DEF StatementMetadata
  <2>5. Accounted => Accounted'
    <3> SUFFICES ASSUME Accounted PROVE Accounted'
      OBVIOUS
    <3>1. PICK readable : readable = ReadableOf(answered)
      OBVIOUS
    <3>2. readable \in Seq(AnswerLine)
      <4>1. PICK K : K = {k \in DOMAIN answered : Readable(answered[k])}
        OBVIOUS
      <4>2. K \in SUBSET (DOMAIN answered) /\ readable = AtPlaces(answered, K)
        BY <3>1, <4>1 DEF ReadableOf
      <4> QED BY <1>1, <4>2, AtPlacesIs
    <3>3. Len(readable) \in Nat /\ DOMAIN readable = 1 .. Len(readable)
          /\ Len(lines) \in Nat /\ DOMAIN lines = 1 .. Len(lines)
      BY <1>1, <3>2, ListIs DEF LinesOK, IsList
    <3>4. Len(lines) >= Len(readable) /\ ("skipped" \notin issues => readable = answered)
      BY <3>1 DEF Accounted
    <3>5. \A k \in DOMAIN readable :
            /\ lines[k].day = readable[k].day /\ lines[k].text = readable[k].text
            /\ Abs(lines[k].cents) = Abs(AmountToCents(readable[k].amount))
      BY <3>1 DEF Accounted
    <3>6. \A k \in DOMAIN readable : all[k] = lines[k]
      BY <2>2, <3>3, <3>4
    <3>7. Len(all) >= Len(readable)
      BY <2>2, <3>3, <3>4
    <3> QED BY <1>2, <1>5, <3>1, <3>4, <3>5, <3>6, <3>7 DEF Accounted
  <2>6. ReadingHeld'
    BY <1>1, <1>2, <1>5, <2>3, <2>4, <2>5 DEF ReadingHeld
  <2> QED BY <1>2, <2>6 DEF AnswerHeld
<1> QED BY <1>3, <1>4, <1>5 DEF BookValueChanges, ReconAfter

\* extract.ts:54-91, ai-extractor.ts and extraction-helpers.ts, whatever the model answers,
\* in one piece or in chunks, and whatever it proposes to leave out or to add.
THEOREM AnswersStayHeld == ReadingSpec => []AnswerHeld
<1>1. ReadingInit => AnswerHeld
  <2>1. <<>> \in Seq(AnswerLine)
    OBVIOUS
  <2> QED BY <2>1 DEF ReadingInit, AnswerHeld
<1>2. AnswerHeld /\ [ReadingNext]_readingVars => AnswerHeld'
  <2> SUFFICES ASSUME AnswerHeld, [ReadingNext]_readingVars PROVE AnswerHeld'
    OBVIOUS
  <2>1. ASSUME NEW m \in Metadata, NEW ls \in Answers(MaxLines), AnswerWhole(m, ls)
        PROVE  AnswerHeld'
    <3>1. MaxLines \in Nat /\ m \in StatementMetadata
      BY ReadingAssumption
    <3>2. ls \in Seq(AnswerLine)
      BY <3>1, AnswersAre
    <3> QED BY <2>1, <3>1, <3>2 DEF AnswerWhole, AnswerHeld
  <2>2. CASE FallBack
    BY <2>2 DEF FallBack, AnswerHeld
  <2>3. ASSUME NEW m \in Metadata \cup {NoMetadata}, AnswerMetadata(m)
        PROVE  AnswerHeld'
    <3>1. m \in StatementMetadata
      <4>1. NoMetadata \in StatementMetadata
        <5>1. <<>> \in Seq(Adjustment)
          OBVIOUS
        <5> QED BY <5>1 DEF NoMetadata, StatementMetadata, AnswerHeld
      <4> QED BY <4>1, ReadingAssumption
    <3> QED BY <2>3, <3>1 DEF AnswerMetadata, AnswerHeld
  <2>4. ASSUME NEW ls \in Answers(MaxChunkLines), AnswerChunk(ls)
        PROVE  AnswerHeld'
    <3>1. MaxChunkLines \in Nat
      BY ReadingAssumption
    <3>2. ls \in Seq(AnswerLine)
      BY <3>1, AnswersAre
    <3> QED BY <2>4, <3>2, AnswerChunkHeld
  <2>5. CASE FailAnswer
    BY <2>5 DEF FailAnswer, AnswerHeld
  <2>6. CASE Normalize
    BY <2>6, NormalizeHeld
  <2>7. CASE KeepReading
    <3>1. ReadingHeld /\ stage' = "value" /\ UNCHANGED <<chosen, meta, answered, lines, recon, issues, resolution>>
      BY <2>7 DEF KeepReading, AnswerHeld
    <3>2. ReadingHeld'
      BY <3>1 DEF ReadingHeld, Accounted
    <3> QED BY <3>1, <3>2 DEF AnswerHeld
  <2>8. ASSUME NEW exclude, NEW a \in Adjustment \cup {Null}, NEW confidence,
               Resolve(exclude, IF a = Null THEN <<>> ELSE <<a>>, confidence)
        PROVE  AnswerHeld'
    <3>1. PICK add : add = IF a = Null THEN <<>> ELSE <<a>>
      OBVIOUS
    <3>2. add \in Seq(Adjustment)
      BY <3>1
    <3> QED BY <2>8, <3>1, <3>2, ResolveHeld
  <2>9. CASE BookValueChanges
    BY <2>9, ValueChangesHeld
  <2>10. ASSUME NEW sheet \in Sheet, ReadSheet(sheet)
         PROVE  AnswerHeld'
    BY <2>10 DEF ReadSheet, AnswerHeld
  <2>11. CASE UNCHANGED readingVars
    <3>1. ReadingHeld => ReadingHeld'
      BY <2>11 DEF readingVars, ReadingHeld, Accounted
    <3> QED BY <2>11, <3>1 DEF readingVars, AnswerHeld
  <2> QED BY <2>1, <2>2, <2>3, <2>4, <2>5, <2>6, <2>7, <2>8, <2>9, <2>10, <2>11 DEF ReadingNext
<1> QED BY <1>1, <1>2, PTL DEF ReadingSpec

\* extraction-helpers.ts:78-128 and 227-268: the reconciliation that is stored is computed
\* again from what is stored, whatever the second answer and the value changes changed.
THEOREM ReconciliationStaysCurrent == ReadingSpec => []ReconciliationCurrent
<1>1. AnswerHeld => ReconciliationCurrent
  <2> SUFFICES ASSUME AnswerHeld, stage = "stored", recon # NotReconciled
               PROVE  LET open == IF Null \in {meta.beginning, meta.ending} THEN Null
                                  ELSE meta.ending - meta.beginning - SumCents(lines) - SumCents(meta.adjustments)
                      IN  /\ recon.diff = open
                          /\ recon.status = "ok" <=> open # Null /\ Abs(open) <= Tolerance
    BY DEF ReconciliationCurrent
  <2>1. meta \in StatementMetadata /\ LinesOK(lines) /\ recon = Reconciled(meta, lines)
    BY DEF AnswerHeld, ReadingHeld
  <2>2. PICK s \in Int, t \in Int : s = SumCents(lines) /\ t = SumCents(meta.adjustments)
    <3>1. SumCents(lines) \in Int
      BY <2>1, SumOfLines
    <3>2. SumCents(meta.adjustments) \in Int
      BY <2>1, AdjustmentsOK, SumOfLines DEF StatementMetadata
    <3> QED BY <3>1, <3>2
  <2>3. CASE Null \in {meta.beginning, meta.ending}
    BY <2>1, <2>3 DEF Reconciled
  <2>4. CASE Null \notin {meta.beginning, meta.ending}
    <3>1. PICK b \in Int, e \in Int : b = meta.beginning /\ e = meta.ending
      BY <2>1, <2>4 DEF StatementMetadata
    <3>2. PICK diff \in Int : diff = e - b - (s + t)
      OBVIOUS
    <3>3. diff = e - b - s - t /\ diff # Null
      BY <2>2, <3>1, <3>2, ReadingAssumption
    <3>4. recon = [status |-> IF Abs(diff) <= Tolerance THEN "ok" ELSE "warning", diff |-> diff]
      BY <2>1, <2>2, <2>4, <3>1, <3>2 DEF Reconciled
    <3> QED BY <2>2, <2>4, <3>1, <3>3, <3>4
  <2> QED BY <2>3, <2>4
<1> QED BY <1>1, AnswersStayHeld, PTL

\* extraction-normalizer.ts:196-252 and the steps after it: no line of the answer is lost or
\* changed, and none is added, without the stored reading telling so.
THEOREM LinesStayAccountedFor == ReadingSpec => []LinesAccountedFor
<1>1. AnswerHeld => LinesAccountedFor
  BY DEF AnswerHeld, ReadingHeld, Accounted, LinesAccountedFor
<1> QED BY <1>1, AnswersStayHeld, PTL
=============================================================================
