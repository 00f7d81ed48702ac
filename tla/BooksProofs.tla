----------------------------- MODULE BooksProofs -----------------------------
(***************************************************************************)
(* Machine-checked proofs about ChartOfAccounts and OpeningBalances: any   *)
(* number of accounts and of requests that run at the same time, any       *)
(* files, edits, proposals and entries.                                    *)
(***************************************************************************)
EXTENDS OpeningBalances, DataLemmas

(* Types *)

SomeName == Name \cup NewName \cup {SystemAccount[n].name : n \in {1, 2}}

SomeCode == Code \cup {SystemAccount[n].code : n \in {1, 2}}

SomeAccount == [code : SomeCode, name : SomeName, type : AccountType,
               classification : Classification \cup {Unclassified}, isActive : BOOLEAN]

SomeRow == [row : SomeAccount, present : BOOLEAN, by : {"import", "system", "user", "kevin"},
           born : [name : SomeName, type : AccountType]]

ProtectedBorn(i) == accounts[i].born.type = "equity" /\ accounts[i].born.name \in ProtectedName

\* What holds of the table of accounts.  The properties of the accounts are in it.
TableOK ==
  /\ accounts \in Seq(SomeRow)
  /\ \A i, j \in Present : accounts[i].row.code = accounts[j].row.code => i = j
  /\ SystemAccountsKept
  /\ \A i \in AccountIds : accounts[i].by = "system" =>
       \E n \in {1, 2} : /\ accounts[i].born.name = SystemAccount[n].name
                         /\ accounts[i].born.type = "equity"
                         /\ accounts[i].row.code = SystemAccount[n].code
  /\ LedgerAccountsKept

LEMMA TableFacts ==
  ASSUME TableOK
  PROVE  /\ Len(accounts) \in Nat /\ AccountIds = 1 .. Len(accounts)
         /\ \A i \in AccountIds : accounts[i] \in SomeRow
         /\ Present \subseteq AccountIds /\ DOMAIN Chart = Present
         /\ \A i \in Present : Chart[i] = accounts[i].row /\ Chart[i] \in SomeAccount
<1>1. Len(accounts) \in Nat /\ AccountIds = 1 .. Len(accounts)
  BY DEF TableOK, AccountIds
<1>2. \A i \in AccountIds : accounts[i] \in SomeRow
  BY DEF TableOK, AccountIds
<1>3. Present \subseteq AccountIds /\ DOMAIN Chart = Present
  BY DEF Present, Chart
<1>4. \A i \in Present : Chart[i] = accounts[i].row /\ Chart[i] \in SomeAccount
  BY <1>2, <1>3 DEF Chart, SomeRow
<1> QED BY <1>1, <1>2, <1>3, <1>4

\* The unique index: a code is of one account.
LEMMA OneAccountOfACode ==
  ASSUME TableOK, NEW i \in Present
  PROVE  ByCode(Chart, Chart[i].code) = i /\ Chart[i].code \in Codes(Chart)
<1>1. \A j \in DOMAIN Chart : Chart[j].code = Chart[i].code => j = i
  BY TableFacts DEF TableOK
<1>2. i \in DOMAIN Chart
  BY TableFacts
<1> QED BY <1>1, <1>2 DEF ByCode, Codes

LEMMA ProtectedNow ==
  ASSUME TableOK, NEW i \in AccountIds, ProtectedBorn(i)
  PROVE  /\ i \in Present /\ Protected(Chart[i])
         /\ Chart[i].name = accounts[i].born.name /\ Chart[i].type = "equity"
BY DEF TableOK, SystemAccountsKept, ProtectedBorn, Protected, Present
-----------------------------------------------------------------------------
(* What an import plans *)

\* A row of a file, and the account it stands for.
LEMMA RowTyped ==
  ASSUME NEW file \in File, NEW row \in RowsOf(file)
  PROVE  /\ row \in CoaRow /\ NewAccount(row) \in SomeAccount
         /\ row.code \in SomeCode /\ row.name \in SomeName /\ row.type \in AccountType
         /\ row.classification \in Classification
<1>1. row \in CoaRow
  BY ChartAssumption DEF RowsOf
<1>2. /\ row.code \in SomeCode /\ row.name \in SomeName /\ row.type \in AccountType
      /\ row.classification \in Classification
  BY <1>1 DEF CoaRow, SomeCode, SomeName
<1> QED BY <1>1, <1>2 DEF NewAccount, SomeAccount

LEMMA UpdatedTyped ==
  ASSUME NEW file \in File, NEW row \in RowsOf(file), NEW account \in SomeAccount
  PROVE  /\ Updated(row, account) \in SomeAccount
         /\ Updated(row, account).code = account.code
         /\ Updated(row, account).name = row.name /\ Updated(row, account).type = row.type
         /\ Updated(row, account).classification = row.classification
BY RowTyped DEF Updated, SomeAccount

\* A row for an account that is there: it stands for that account and keeps what is protected.
LEMMA RowAccepted ==
  ASSUME TableOK, NEW file \in File, ~BulkRefused(file, Chart, Used), NEW i \in Present,
         NEW row \in RowsOf(file), row.code = Chart[i].code
  PROVE  /\ Mode(row, Chart) = "delete" => ~Protected(Chart[i])
         /\ Mode(row, Chart) # "delete" =>
              Mode(row, Chart) = "update" /\ ~UpdateRefused(row, Chart[i], i \in Used)
<1>1. ByCode(Chart, row.code) = i /\ row.code \in Codes(Chart)
  BY OneAccountOfACode
<1>2. ~RowRefused(row, Chart, Used)
  BY DEF BulkRefused
<1>3. row.mode \in {"none", "create", "update", "delete"}
  BY RowTyped DEF CoaRow
<1>4. Mode(row, Chart) \in {"update", "delete"}
  BY <1>1, <1>3 DEF Mode
<1>5. Mode(row, Chart) = "update" => ~UpdateRefused(row, Chart[i], i \in Used)
  BY <1>1, <1>2 DEF RowRefused
<1>6. Mode(row, Chart) = "delete" => ~DeleteRefused(Chart[i], i \in Used)
  BY <1>1, <1>2 DEF RowRefused
<1> QED BY <1>4, <1>5, <1>6 DEF DeleteRefused

LEMMA RowForIs ==
  ASSUME NEW file, ~CodesTwice(file), NEW row \in RowsOf(file)
  PROVE  RowFor(file, row.code) = row
<1>1. \A other \in RowsOf(file) : other.code = row.code => other = row
  BY DEF CodesTwice, RowsOf
<1> QED BY <1>1 DEF RowFor

LEMMA AfterRow ==
  ASSUME TableOK, NEW file \in File, ~BulkRefused(file, Chart, Used), NEW i \in Present
  PROVE  /\ i \in ToDelete(file, Chart) => ~Protected(Chart[i])
         /\ i \notin ToDelete(file, Chart) =>
              /\ i \in DOMAIN AfterFile(file, Chart)
              /\ AfterFile(file, Chart)[i] \in SomeAccount
              /\ AfterFile(file, Chart)[i].code = Chart[i].code
              /\ Protected(Chart[i]) =>
                   /\ AfterFile(file, Chart)[i].name = Chart[i].name
                   /\ AfterFile(file, Chart)[i].type = "equity"
<1>1. PICK a : a = Chart[i]
  OBVIOUS
<1>2. a \in SomeAccount /\ i \in DOMAIN Chart
  BY <1>1, TableFacts
<1>3. ASSUME i \in ToDelete(file, Chart) PROVE ~Protected(Chart[i])
  BY <1>3, RowAccepted DEF ToDelete
<1>4. ASSUME i \notin ToDelete(file, Chart)
      PROVE  /\ i \in DOMAIN AfterFile(file, Chart)
             /\ AfterFile(file, Chart)[i] \in SomeAccount
             /\ AfterFile(file, Chart)[i].code = a.code
             /\ Protected(a) => /\ AfterFile(file, Chart)[i].name = a.name
                                /\ AfterFile(file, Chart)[i].type = "equity"
  <2>1. i \in DOMAIN AfterFile(file, Chart)
    BY <1>2, <1>4 DEF AfterFile
  <2>2. CASE \E row \in RowsOf(file) : row.code = a.code
    <3>1. PICK row \in RowsOf(file) : row.code = a.code
      BY <2>2
    <3>2. RowFor(file, a.code) = row
      BY <3>1, RowForIs DEF BulkRefused
    <3>3. AfterFile(file, Chart)[i] = Updated(row, a)
      BY <1>1, <1>2, <1>4, <2>2, <3>2 DEF AfterFile
    <3>4. Mode(row, Chart) # "delete"
      BY <1>1, <1>2, <1>4, <3>1 DEF ToDelete
    <3>5. ~UpdateRefused(row, a, i \in Used)
      BY <1>1, <3>1, <3>4, RowAccepted
    <3>6. Protected(a) => row.name = a.name /\ row.type = "equity"
      BY <3>5 DEF UpdateRefused
    <3> QED BY <1>2, <2>1, <3>3, <3>6, UpdatedTyped
  <2>3. CASE ~\E row \in RowsOf(file) : row.code = a.code
    <3>1. AfterFile(file, Chart)[i] = [a EXCEPT !.isActive = a.isActive /\ ~Superseded(a)]
      BY <1>1, <1>2, <1>4, <2>3 DEF AfterFile
    <3>2. PICK on \in BOOLEAN : on = (a.isActive /\ ~Superseded(a))
      OBVIOUS
    <3>3. AfterFile(file, Chart)[i] = [a EXCEPT !.isActive = on]
      BY <3>1, <3>2
    <3> QED BY <1>2, <2>1, <3>3 DEF SomeAccount, Protected
  <2> QED BY <2>2, <2>3
<1> QED BY <1>1, <1>3, <1>4

\* What an import may still do when it is applied, however old its plan is.
PlanOK(plan) ==
  /\ plan.create \in Seq(SomeAccount)
  /\ \A k, l \in DOMAIN plan.create : plan.create[k].code = plan.create[l].code => k = l
  /\ plan.delete \subseteq AccountIds /\ \A i \in plan.delete : ~ProtectedBorn(i)
  /\ \A i \in DOMAIN plan.update :
       /\ i \in AccountIds /\ plan.update[i] \in SomeAccount
       /\ plan.update[i].code = accounts[i].row.code
       /\ ProtectedBorn(i) =>
            plan.update[i].name = accounts[i].born.name /\ plan.update[i].type = "equity"

\* The rows of a file that are new accounts.
NewRows(file, chart) == {row \in RowsOf(file) : row.code \notin Codes(chart)}

Ordered(S) == SetToSeq(S)

LEMMA OrderedIs ==
  ASSUME NEW S, IsFiniteSet(S)
  PROVE  /\ Ordered(S) \in Seq(S)
         /\ \A k, l \in DOMAIN Ordered(S) : Ordered(S)[k] = Ordered(S)[l] => k = l
         /\ \A x \in S : \E k \in DOMAIN Ordered(S) : Ordered(S)[k] = x
         /\ S = {} => Ordered(S) = <<>>
<1>1. PICK n : n = Cardinality(S)
  OBVIOUS
<1>2. n \in Nat /\ \E f : ExistsBijection(1 .. n, S)
  BY <1>1, FS_CardinalityType
<1>3. \E f \in [1 .. n -> S] : IsInjective(f)
  BY <1>2 DEF ExistsBijection, Bijection, Injection, IsInjective
<1>4. Ordered(S) \in [1 .. n -> S] /\ IsInjective(Ordered(S))
  BY <1>1, <1>3 DEF Ordered, SetToSeq
<1>5. S = {} => n = 0
  BY <1>1, FS_EmptySet
<1>6. \A x \in S : \E k \in 1 .. n : Ordered(S)[k] = x
  <2>1. Ordered(S) \in Injection(1 .. n, S)
    BY <1>4 DEF Injection, IsInjective
  <2>2. Cardinality(1 .. n) = n
    BY <1>2, FS_Interval
  <2>3. Ordered(S) \in Surjection(1 .. n, S)
    BY <1>1, <2>1, <2>2, FS_Injection
  <2> QED BY <2>3 DEF Surjection
<1> QED BY <1>2, <1>4, <1>5, <1>6 DEF IsInjective

LEMMA ImageFinite ==
  ASSUME NEW S, IsFiniteSet(S), NEW f, DOMAIN f = S, f = [x \in S |-> f[x]]
  PROVE  IsFiniteSet({f[x] : x \in S})
<1> DEFINE T == {f[x] : x \in S}
<1>1. f \in Surjection(S, T)
  BY DEF Surjection
<1> HIDE DEF T
<1>2. IsFiniteSet(T)
  BY <1>1, FS_Surjection
<1> QED BY <1>2 DEF T

LEMMA RowsFinite ==
  ASSUME NEW file \in File
  PROVE  IsFiniteSet(RowsOf(file))
<1>1. PICK n \in Nat : DOMAIN file = 1 .. n
  BY ChartAssumption
<1>2. IsFiniteSet(DOMAIN file) /\ file = [k \in DOMAIN file |-> file[k]]
  BY <1>1, FS_Interval, ChartAssumption
<1> QED BY <1>2, ImageFinite DEF RowsOf

LEMMA BulkPlanOK ==
  ASSUME TableOK, NEW file \in File, ~BulkRefused(file, Chart, Used)
  PROVE  PlanOK(BulkPlan(file, Chart))
<1> DEFINE new == {NewAccount(row) : row \in NewRows(file, Chart)}
           after == AfterFile(file, Chart)
           plan == BulkPlan(file, Chart)
<1>1. /\ plan.create = Ordered(new)
      /\ plan.update = [i \in {x \in DOMAIN after : after[x] # Chart[x]} |-> after[i]]
      /\ plan.delete = ToDelete(file, Chart)
  BY DEF BulkPlan, Ordered, NewRows
<1>2. IsFiniteSet(new)
  <2>1. NewRows(file, Chart) \subseteq RowsOf(file)
    BY DEF NewRows
  <2>2. IsFiniteSet(NewRows(file, Chart))
    BY <2>1, RowsFinite, FS_Subset
  <2>3. PICK f : f = [row \in NewRows(file, Chart) |-> NewAccount(row)]
    OBVIOUS
  <2>4. IsFiniteSet({f[row] : row \in NewRows(file, Chart)})
    BY <2>2, <2>3, ImageFinite
  <2> QED BY <2>3, <2>4
<1>3. new \subseteq SomeAccount
  BY RowTyped DEF NewRows
<1>4. \A a, b \in new : a.code = b.code => a = b
  <2>1. \A x, y \in RowsOf(file) : x.code = y.code => x = y
    BY DEF BulkRefused, CodesTwice, RowsOf
  <2> QED BY <2>1 DEF NewRows, NewAccount
<1> HIDE DEF new
<1>5. /\ plan.create \in Seq(new)
      /\ \A k, l \in DOMAIN plan.create : plan.create[k] = plan.create[l] => k = l
  BY <1>1, <1>2, OrderedIs
<1>6. /\ plan.create \in Seq(SomeAccount)
      /\ \A k, l \in DOMAIN plan.create : plan.create[k].code = plan.create[l].code => k = l
  BY <1>3, <1>4, <1>5
<1>7. \A i \in plan.delete : i \in Present /\ ~Protected(Chart[i])
  BY <1>1, AfterRow, TableFacts DEF ToDelete
<1>8. \A i \in plan.delete : ~ProtectedBorn(i)
  BY <1>7, ProtectedNow, TableFacts
<1>9. DOMAIN after = Present \ ToDelete(file, Chart)
  BY TableFacts DEF AfterFile
<1> HIDE DEF after, plan
<1>10. ASSUME NEW i \in DOMAIN plan.update
       PROVE  /\ i \in AccountIds /\ plan.update[i] \in SomeAccount
              /\ plan.update[i].code = accounts[i].row.code
              /\ ProtectedBorn(i) =>
                   plan.update[i].name = accounts[i].born.name /\ plan.update[i].type = "equity"
  <2>1. i \in DOMAIN after /\ plan.update[i] = after[i]
    BY <1>1
  <2>2. i \in Present /\ i \in AccountIds /\ Chart[i] = accounts[i].row
    BY <1>9, <2>1, TableFacts
  <2>3. /\ after[i] \in SomeAccount /\ after[i].code = Chart[i].code
        /\ Protected(Chart[i]) => after[i].name = Chart[i].name /\ after[i].type = "equity"
    BY <1>9, <2>1, <2>2, AfterRow DEF after
  <2> QED BY <2>1, <2>2, <2>3, ProtectedNow
<1>11. PlanOK(plan)
  BY <1>6, <1>7, <1>8, <1>10, TableFacts DEF PlanOK
<1> QED BY <1>11 DEF plan

LEMMA InitialPlanOK ==
  ASSUME TableOK, NEW file \in File, ~InitialRefused(file)
  PROVE  PlanOK(InitialPlan(file))
<1> DEFINE plan == InitialPlan(file)
<1>1. /\ plan.create = [k \in DOMAIN file |-> NewAccount(file[k])]
      /\ plan.update = <<>> /\ plan.delete = {}
  BY DEF InitialPlan
<1>2. PICK n \in Nat : DOMAIN file = 1 .. n
  BY ChartAssumption
<1>3. \A k \in 1 .. n : NewAccount(file[k]) \in SomeAccount /\ NewAccount(file[k]).code = file[k].code
  BY <1>2, RowTyped DEF RowsOf, NewAccount
<1> HIDE DEF plan
<1>4. plan.create \in Seq(SomeAccount)
  BY <1>1, <1>2, <1>3
<1>5. \A k, l \in DOMAIN plan.create : plan.create[k].code = plan.create[l].code => k = l
  BY <1>1, <1>2, <1>3 DEF InitialRefused, CodesTwice
<1>6. PlanOK(plan)
  BY <1>1, <1>4, <1>5 DEF PlanOK
<1> QED BY <1>6 DEF plan

LEMMA PlanAccepted ==
  ASSUME TableOK, NEW file \in File, ~Refused(file, Chart, Used)
  PROVE  PlanOK(Plan(file, Chart))
BY BulkPlanOK, InitialPlanOK DEF Plan, Refused
-----------------------------------------------------------------------------
(* The requests *)

\* The lines that a form of an opening balance or an adjustment may submit.
EntryOK(entry) == entry \in Entry /\ entry # <<>> /\ Normalized(entry)

\* What goes on when the system accounts are there.
SpecialOK(q) ==
  /\ q = [step |-> q.step, kind |-> q.kind, entry |-> q.entry, start |-> q.start,
          pnl |-> q.pnl, ids |-> q.ids]
  /\ q.step \in {"validate", "post", "settings"}
  /\ EntryOK(q.entry)

\* A request that makes sure of the system accounts.
EnsureOK(q) ==
  /\ q = [step |-> q.step, nth |-> q.nth, ids |-> q.ids, id |-> q.id, then |-> q.then]
  /\ q.step \in {"find", "insert", "repair"}
  /\ q.nth \in {1, 2} /\ q.ids \in Seq(Nat) /\ Len(q.ids) = q.nth - 1
  /\ q.step = "repair" => q.id \in AccountIds
  /\ q.then = Idle \/ SpecialOK(q.then)

RequestOK(q) ==
  \/ q = Idle
  \/ q.step = "apply" /\ q.file \in File /\ PlanOK(q.plan)
  \/ EnsureOK(q)
  \/ SpecialOK(q)
  \/ /\ q.step = "edit" /\ q.name \in NewName /\ q.isActive \in BOOLEAN
     /\ q.id \in AccountIds /\ ~ProtectedBorn(q.id)
  \/ q.step = "propose" /\ q.account \in SomeAccount /\ q.account.name \notin ProtectedName

\* The inductive invariant of ChartOfAccounts and OpeningBalances.
BooksInv ==
  /\ TableOK
  /\ requests = [r \in Request |-> requests[r]]
  /\ \A r \in Request : RequestOK(requests[r])

\* No step takes an account's row away, gives it another code or forgets what it was.
Grown ==
  /\ AccountIds \subseteq AccountIds'
  /\ \A i \in AccountIds : /\ accounts'[i].born = accounts[i].born
                           /\ accounts'[i].row.code = accounts[i].row.code

\* What a request has read and planned stays good.
LEMMA RequestKept ==
  ASSUME Grown, NEW q, RequestOK(q)
  PROVE  RequestOK(q)'
<1>1. \A i \in AccountIds : i \in AccountIds' /\ (ProtectedBorn(i)' <=> ProtectedBorn(i))
  BY DEF Grown, ProtectedBorn
<1>2. \A plan : PlanOK(plan) => PlanOK(plan)'
  BY <1>1 DEF PlanOK, Grown
<1>3. EnsureOK(q) => EnsureOK(q)'
  BY <1>1 DEF EnsureOK
<1> QED BY <1>1, <1>2, <1>3 DEF RequestOK
-----------------------------------------------------------------------------
(* What a step may do to the table *)

\* A row that was there: its code and its history stay; what is protected stays.
KeptRow(i) ==
  /\ accounts'[i].by = accounts[i].by /\ accounts'[i].born = accounts[i].born
  /\ accounts'[i].row.code = accounts[i].row.code
  /\ accounts'[i].present => accounts[i].present
  /\ ProtectedBorn(i) =>
       /\ accounts'[i].present
       /\ accounts'[i].row.name = accounts[i].born.name /\ accounts'[i].row.type = "equity"

\* A row that was not: its code was free.
NewRow(i) ==
  /\ accounts'[i].present
  /\ accounts'[i].born.name = accounts'[i].row.name
  /\ accounts'[i].born.type = accounts'[i].row.type
  /\ accounts'[i].row.code \notin Codes(Chart)
  /\ accounts'[i].by = "system" =>
       \E n \in {1, 2} : /\ accounts'[i].row.name = SystemAccount[n].name
                         /\ accounts'[i].row.type = "equity"
                         /\ accounts'[i].row.code = SystemAccount[n].code

LEMMA TableStep ==
  ASSUME TableOK, accounts' \in Seq(SomeRow), AccountIds \subseteq AccountIds',
         \A i \in AccountIds : KeptRow(i),
         \A i \in AccountIds' : i \notin AccountIds => NewRow(i),
         \A i, j \in AccountIds' : i \notin AccountIds /\ j \notin AccountIds =>
           (accounts'[i].row.code = accounts'[j].row.code => i = j),
         (Used \subseteq Present)'
  PROVE  TableOK' /\ Grown
<1>1. Grown
  BY DEF Grown, KeptRow
<1>2. \A i \in AccountIds : i \in Present' => i \in Present
  BY DEF Present, KeptRow
<1>3. \A i \in Present : accounts[i].row.code \in Codes(Chart)
  BY TableFacts DEF Codes
<1>4. ASSUME NEW i \in Present', NEW j \in Present', accounts'[i].row.code = accounts'[j].row.code
      PROVE  i = j
  <2>1. i \in AccountIds' /\ j \in AccountIds'
    BY DEF Present
  <2>2. i \in AccountIds <=> j \in AccountIds
    BY <1>2, <1>3, <1>4, <2>1 DEF KeptRow, NewRow
  <2> QED BY <1>2, <1>4, <2>1, <2>2 DEF TableOK, KeptRow
<1>5. ASSUME NEW i \in AccountIds', ProtectedBorn(i)'
      PROVE  i \in Present' /\ accounts'[i].row.name = accounts'[i].born.name
             /\ accounts'[i].row.type = "equity"
  <2>1. CASE i \in AccountIds
    BY <1>5, <2>1 DEF ProtectedBorn, KeptRow, Present
  <2>2. CASE i \notin AccountIds
    BY <1>5, <2>2 DEF ProtectedBorn, NewRow, Present
  <2> QED BY <2>1, <2>2
<1>6. SystemAccountsKept'
  BY <1>5 DEF SystemAccountsKept, ProtectedBorn, Chart, Present
<1>7. ASSUME NEW i \in AccountIds', accounts'[i].by = "system"
      PROVE  \E n \in {1, 2} : /\ accounts'[i].born.name = SystemAccount[n].name
                               /\ accounts'[i].born.type = "equity"
                               /\ accounts'[i].row.code = SystemAccount[n].code
  <2>1. CASE i \in AccountIds
    BY <1>7, <2>1 DEF TableOK, KeptRow
  <2>2. CASE i \notin AccountIds
    BY <1>7, <2>2 DEF NewRow
  <2> QED BY <2>1, <2>2
<1> QED BY <1>1, <1>4, <1>6, <1>7 DEF TableOK, LedgerAccountsKept

LEMMA TableAppended ==
  ASSUME TableOK, NEW row \in SomeAccount, NEW by \in {"import", "system", "user", "kevin"},
         accounts' = Append(accounts, Row(row, by)), CodeFree(row.code),
         by = "system" => \E n \in {1, 2} : /\ row.name = SystemAccount[n].name
                                            /\ row.type = "equity"
                                            /\ row.code = SystemAccount[n].code,
         UNCHANGED <<drafted, posted>>
  PROVE  TableOK' /\ Grown
<1>1. PICK new : new = Row(row, by)
  OBVIOUS
<1>2. /\ new \in SomeRow /\ new.row = row /\ new.present /\ new.by = by
      /\ new.born.name = row.name /\ new.born.type = row.type
  BY <1>1 DEF Row, SomeRow, SomeAccount
<1>3. PICK n \in Nat : n = Len(accounts) /\ AccountIds = 1 .. n
  BY TableFacts
<1>4. accounts \in Seq(SomeRow) /\ accounts' = Append(accounts, new)
  BY <1>1 DEF TableOK
<1>5. /\ accounts' \in Seq(SomeRow) /\ DOMAIN accounts' = 1 .. (n + 1)
      /\ accounts'[n + 1] = new /\ \A i \in 1 .. n : accounts'[i] = accounts[i]
  BY <1>2, <1>3, <1>4
<1>6. AccountIds' = 1 .. (n + 1)
  BY <1>5 DEF AccountIds
<1>7. AccountIds \subseteq AccountIds' /\ \A i \in AccountIds' : i \notin AccountIds => i = n + 1
  BY <1>3, <1>6
<1>8. \A i \in AccountIds : accounts'[i] = accounts[i]
  BY <1>3, <1>5
<1>9. \A i \in AccountIds : KeptRow(i)
  BY <1>8, ProtectedNow, TableFacts DEF KeptRow, Present
<1>10. NewRow(n + 1)
  BY <1>2, <1>5 DEF NewRow, CodeFree
<1>11. (Used \subseteq Present)'
  BY <1>7, <1>8 DEF TableOK, LedgerAccountsKept, Used, Present
<1> QED BY <1>5, <1>7, <1>9, <1>10, <1>11, TableStep

\* One account is written to: its code stays, and what is protected.
LEMMA TableEdited ==
  ASSUME TableOK, NEW i \in Present, NEW row \in SomeAccount, row.code = accounts[i].row.code,
         ProtectedBorn(i) => row.name = accounts[i].born.name /\ row.type = "equity",
         accounts' = [accounts EXCEPT ![i].row = row], UNCHANGED <<drafted, posted>>
  PROVE  TableOK' /\ Grown
<1>1. i \in AccountIds /\ accounts[i] \in SomeRow
  BY TableFacts
<1>2. PICK new : new = [accounts[i] EXCEPT !.row = row]
  OBVIOUS
<1>3. /\ new \in SomeRow /\ new.row = row /\ new.present = accounts[i].present
      /\ new.by = accounts[i].by /\ new.born = accounts[i].born
  BY <1>1, <1>2 DEF SomeRow
<1>4. accounts' = [accounts EXCEPT ![i] = new]
  BY <1>2
<1>5. accounts' \in Seq(SomeRow) /\ DOMAIN accounts' = AccountIds
  BY <1>1, <1>3, <1>4 DEF TableOK, AccountIds
<1>6. accounts'[i] = new /\ \A j \in AccountIds : j # i => accounts'[j] = accounts[j]
  BY <1>1, <1>4 DEF AccountIds
<1>7. AccountIds' = AccountIds
  BY <1>5 DEF AccountIds
<1>8. \A j \in AccountIds : accounts'[j].present = accounts[j].present
  BY <1>3, <1>6
<1>9. \A j \in AccountIds : KeptRow(j)
  <2> SUFFICES ASSUME NEW j \in AccountIds PROVE KeptRow(j)
    OBVIOUS
  <2>1. CASE j = i
    BY <1>3, <1>6, <2>1 DEF KeptRow, Present
  <2>2. CASE j # i
    BY <1>6, <2>2, ProtectedNow, TableFacts DEF KeptRow, Present
  <2> QED BY <2>1, <2>2
<1>10. (Used \subseteq Present)'
  BY <1>7, <1>8 DEF TableOK, LedgerAccountsKept, Used, Present
<1> QED BY <1>5, <1>7, <1>9, <1>10, TableStep

\* Nothing but what the journal uses may change.
LEMMA TableUsed ==
  ASSUME TableOK, UNCHANGED accounts, (Used \subseteq Present)'
  PROVE  TableOK' /\ Grown
BY DEF TableOK, Grown, SystemAccountsKept, LedgerAccountsKept, AccountIds, Present, Chart

LEMMA TableUnchanged ==
  ASSUME TableOK, UNCHANGED <<accounts, drafted, posted>>
  PROVE  TableOK' /\ Grown
<1>1. (Used \subseteq Present)'
  BY DEF TableOK, LedgerAccountsKept, Used, Present, AccountIds
<1> QED BY <1>1, TableUsed

\* The transaction of an import, however old its plan is.
LEMMA TableWritten ==
  ASSUME TableOK, NEW plan, PlanOK(plan), Applicable(plan), accounts' = Written(plan),
         UNCHANGED <<drafted, posted>>
  PROVE  TableOK' /\ Grown
<1>1. PICK n \in Nat : n = Len(accounts) /\ AccountIds = 1 .. n
  BY TableFacts
<1>2. PICK m \in Nat : m = Len(plan.create) /\ DOMAIN plan.create = 1 .. m
  BY DEF PlanOK
<1>3. PICK old : old = [i \in AccountIds |->
                          IF i \in DOMAIN plan.update /\ accounts[i].present
                          THEN [accounts[i] EXCEPT !.row = plan.update[i]]
                          ELSE [accounts[i] EXCEPT !.present = @ /\ i \notin plan.delete]]
  OBVIOUS
<1>4. PICK new : new = [k \in DOMAIN plan.create |-> Row(plan.create[k], "import")]
  OBVIOUS
<1>5. accounts' = old \o new
  BY <1>3, <1>4 DEF Written
<1>6. ASSUME NEW i \in AccountIds
      PROVE  /\ old[i] \in SomeRow /\ old[i].by = accounts[i].by /\ old[i].born = accounts[i].born
             /\ old[i].row.code = accounts[i].row.code
             /\ old[i].present => accounts[i].present
             /\ accounts[i].present /\ i \notin plan.delete => old[i].present
             /\ ProtectedBorn(i) => /\ old[i].present
                                    /\ old[i].row.name = accounts[i].born.name
                                    /\ old[i].row.type = "equity"
  <2>1. PICK a : a = accounts[i]
    OBVIOUS
  <2>2. a \in SomeRow
    BY <2>1, TableFacts
  <2>3. ProtectedBorn(i) => a.present /\ a.row.name = a.born.name /\ a.row.type = "equity"
    BY <2>1, ProtectedNow, TableFacts DEF Present
  <2>4. CASE i \in DOMAIN plan.update /\ a.present
    <3>1. PICK r : r = plan.update[i]
      OBVIOUS
    <3>2. /\ r \in SomeAccount /\ r.code = a.row.code
          /\ ProtectedBorn(i) => r.name = a.born.name /\ r.type = "equity"
      BY <2>1, <2>4, <3>1 DEF PlanOK
    <3>3. old[i] = [a EXCEPT !.row = r]
      BY <1>3, <2>1, <2>4, <3>1
    <3>4. /\ old[i] \in SomeRow /\ old[i].by = a.by /\ old[i].born = a.born
          /\ old[i].row = r /\ old[i].present = a.present
      BY <2>2, <3>2, <3>3 DEF SomeRow
    <3> QED BY <2>1, <2>3, <3>2, <3>4
  <2>5. CASE ~(i \in DOMAIN plan.update /\ a.present)
    <3>1. PICK here \in BOOLEAN : here = (a.present /\ i \notin plan.delete)
      OBVIOUS
    <3>2. old[i] = [a EXCEPT !.present = here]
      BY <1>3, <2>1, <2>5, <3>1
    <3>3. /\ old[i] \in SomeRow /\ old[i].by = a.by /\ old[i].born = a.born
          /\ old[i].row = a.row /\ old[i].present = here
      BY <2>2, <3>2 DEF SomeRow
    <3>4. ProtectedBorn(i) => i \notin plan.delete
      BY DEF PlanOK
    <3> QED BY <2>1, <2>3, <3>1, <3>3, <3>4
  <2> QED BY <2>4, <2>5
<1>7. ASSUME NEW k \in 1 .. m
      PROVE  /\ new[k] \in SomeRow /\ new[k].row = plan.create[k] /\ new[k].present
             /\ new[k].by = "import" /\ new[k].born.name = new[k].row.name
             /\ new[k].born.type = new[k].row.type
  <2>1. PICK a : a = plan.create[k]
    OBVIOUS
  <2>2. a \in SomeAccount /\ new[k] = Row(a, "import")
    BY <1>2, <1>4, <2>1 DEF PlanOK
  <2> QED BY <2>1, <2>2 DEF Row, SomeRow, SomeAccount
<1>8. old \in Seq(SomeRow) /\ Len(old) = n
  <2>1. old \in [1 .. n -> SomeRow]
    BY <1>1, <1>3, <1>6
  <2> QED BY <1>1, <2>1
<1>9. new \in Seq(SomeRow) /\ Len(new) = m
  <2>1. new \in [1 .. m -> SomeRow]
    BY <1>2, <1>4, <1>7
  <2> QED BY <1>2, <2>1
<1>10. /\ accounts' \in Seq(SomeRow) /\ AccountIds' = 1 .. (n + m)
       /\ \A i \in AccountIds : accounts'[i] = old[i]
       /\ \A i \in (n + 1) .. (n + m) : accounts'[i] = new[i - n] /\ i - n \in 1 .. m
  <2>1. /\ old \o new \in Seq(SomeRow) /\ Len(old \o new) = n + m
        /\ \A i \in 1 .. n : (old \o new)[i] = old[i]
        /\ \A i \in (n + 1) .. (n + m) : (old \o new)[i] = new[i - n]
    BY <1>8, <1>9
  <2>2. DOMAIN (old \o new) = 1 .. (n + m)
    BY <2>1
  <2>3. \A i \in (n + 1) .. (n + m) : i - n \in 1 .. m
    OBVIOUS
  <2> QED BY <1>1, <1>5, <2>1, <2>2, <2>3 DEF AccountIds
<1>11. AccountIds \subseteq AccountIds'
  BY <1>1, <1>2, <1>10
<1>12. \A i \in AccountIds' : i \notin AccountIds => i \in (n + 1) .. (n + m)
  BY <1>1, <1>2, <1>10
<1>13. \A i \in AccountIds : KeptRow(i)
  BY <1>6, <1>10 DEF KeptRow
<1>14. \A i \in AccountIds' : i \notin AccountIds => NewRow(i)
  <2>1. \A k \in 1 .. m : plan.create[k].code \notin Codes(Chart)
    BY <1>2 DEF Applicable, CodeFree
  <2> QED BY <1>7, <1>10, <1>12, <2>1 DEF NewRow
<1>15. ASSUME NEW i \in AccountIds', NEW j \in AccountIds', i \notin AccountIds, j \notin AccountIds,
              accounts'[i].row.code = accounts'[j].row.code
       PROVE  i = j
  <2>1. i - n \in 1 .. m /\ j - n \in 1 .. m /\ i \in Nat /\ j \in Nat
    BY <1>1, <1>2, <1>10, <1>12, <1>15
  <2>2. plan.create[i - n].code = plan.create[j - n].code
    BY <1>7, <1>10, <1>12, <1>15, <2>1
  <2>3. i - n = j - n
    BY <1>2, <2>1, <2>2 DEF PlanOK
  <2> QED BY <1>1, <2>1, <2>3
<1>16. (Used \subseteq Present)'
  <2>1. Used' = Used
    BY DEF Used
  <2>2. ASSUME NEW i \in Used PROVE i \in Present'
    <3>1. i \in Present /\ i \in AccountIds
      BY TableFacts DEF TableOK, LedgerAccountsKept
    <3>2. i \notin plan.delete
      BY <3>1 DEF Applicable, Removable
    <3> QED BY <1>6, <1>10, <1>11, <3>1, <3>2 DEF Present
  <2> QED BY <2>1, <2>2
<1> QED BY <1>10, <1>11, <1>13, <1>14, <1>15, <1>16, TableStep
-----------------------------------------------------------------------------
(* Every step keeps the invariant *)

LEMMA RequestStep ==
  ASSUME BooksInv, TableOK', Grown, NEW r \in Request, NEW q, RequestOK(q),
         requests' = [requests EXCEPT ![r] = q]
  PROVE  BooksInv'
<1>1. PICK old : old = requests
  OBVIOUS
<1>2. \A s \in Request : RequestOK(old[s])
  BY <1>1 DEF BooksInv
<1>3. \A s \in Request : RequestOK(old[s])'
  BY <1>2, RequestKept
<1>4. RequestOK(q)'
  BY RequestKept
<1>5. old = [s \in Request |-> old[s]] /\ requests' = [old EXCEPT ![r] = q]
  BY <1>1 DEF BooksInv
<1>6. \A s \in Request : (requests'[s] = q /\ s = r) \/ requests'[s] = old[s]
  BY <1>5
<1>7. ASSUME NEW s \in Request
      PROVE  RequestOK(requests[s])'
  <2>1. PICK now : now = requests'[s]
    OBVIOUS
  <2>2. RequestOK(now)'
    BY <1>3, <1>4, <1>6, <2>1
  <2> QED BY <2>1, <2>2
<1>8. requests' = [s \in Request |-> requests'[s]]
  BY <1>5
<1> QED BY <1>7, <1>8 DEF BooksInv

LEMMA RequestsSame ==
  ASSUME BooksInv, TableOK', Grown, UNCHANGED requests
  PROVE  BooksInv'
<1>1. ASSUME NEW s \in Request
      PROVE  RequestOK(requests[s])'
  <2>1. PICK now : now = requests[s]
    OBVIOUS
  <2>2. RequestOK(now)'
    BY <2>1, RequestKept DEF BooksInv
  <2> QED BY <2>1, <2>2
<1> QED BY <1>1 DEF BooksInv

LEMMA IdleOK == RequestOK(Idle)
BY DEF RequestOK

LEMMA EnsureBegins ==
  ASSUME NEW then, then = Idle \/ SpecialOK(then)
  PROVE  RequestOK(EnsureSystemAccounts(then))
<1>1. EnsureOK(EnsureSystemAccounts(then))
  BY DEF EnsureSystemAccounts, EnsureOK
<1> QED BY <1>1 DEF RequestOK

\* A system account is there: on to the next one, or to what comes then.
LEMMA FoundOK ==
  ASSUME NEW r, EnsureOK(requests[r]), NEW i \in Nat
  PROVE  RequestOK(Found(r, i))
<1>1. PICK q : q = requests[r]
  OBVIOUS
<1>2. EnsureOK(q)
  BY <1>1
<1>3. PICK ids : ids = Append(q.ids, i)
  OBVIOUS
<1>4. ids \in Seq(Nat) /\ Len(ids) = q.nth /\ Len(SystemAccount) = 2
  BY <1>2, <1>3 DEF EnsureOK, SystemAccount
<1>5. CASE q.nth = 1
  <2>1. Found(r, i) = [q EXCEPT !.step = "find", !.nth = 2, !.ids = ids]
    BY <1>1, <1>3, <1>4, <1>5 DEF Found
  <2>2. Found(r, i) = [step |-> "find", nth |-> 2, ids |-> ids, id |-> q.id, then |-> q.then]
    BY <1>2, <2>1 DEF EnsureOK
  <2>3. PICK next : next = Found(r, i)
    OBVIOUS
  <2>4. /\ next.step = "find" /\ next.nth = 2 /\ next.ids = ids /\ next.id = q.id
        /\ next.then = q.then
    BY <2>2, <2>3
  <2>5. EnsureOK(next)
    BY <1>2, <1>4, <1>5, <2>2, <2>3, <2>4 DEF EnsureOK
  <2> QED BY <2>3, <2>5 DEF RequestOK
<1>6. CASE q.nth = 2
  <2>1. CASE q.then = Idle
    <3>1. Found(r, i) = Idle
      BY <1>1, <1>3, <1>4, <1>6, <2>1 DEF Found
    <3> QED BY <3>1, IdleOK
  <2>2. CASE q.then # Idle
    <3>1. PICK then : then = q.then
      OBVIOUS
    <3>2. SpecialOK(then)
      BY <1>2, <2>2, <3>1 DEF EnsureOK
    <3>3. Found(r, i) = [then EXCEPT !.ids = ids]
      BY <1>1, <1>3, <1>4, <1>6, <2>2, <3>1 DEF Found
    <3>4. Found(r, i) = [step |-> then.step, kind |-> then.kind, entry |-> then.entry,
                         start |-> then.start, pnl |-> then.pnl, ids |-> ids]
      BY <3>2, <3>3 DEF SpecialOK
    <3>5. SpecialOK(Found(r, i))
      BY <3>2, <3>4 DEF SpecialOK
    <3> QED BY <3>5 DEF RequestOK
  <2> QED BY <2>1, <2>2
<1> QED BY <1>2, <1>5, <1>6 DEF EnsureOK

\* What a request is that is at a step.
LEMMA StepsApart ==
  ASSUME NEW q, RequestOK(q)
  PROVE  /\ q.step = "apply" => q.file \in File /\ PlanOK(q.plan)
         /\ q.step \in {"find", "insert", "repair"} => EnsureOK(q)
         /\ q.step \in {"validate", "post", "settings"} => SpecialOK(q)
         /\ q.step = "edit" => /\ q.name \in NewName /\ q.isActive \in BOOLEAN
                               /\ q.id \in AccountIds /\ ~ProtectedBorn(q.id)
         /\ q.step = "propose" => q.account \in SomeAccount /\ q.account.name \notin ProtectedName
<1>1. q = Idle => q.step = "idle"
  BY DEF Idle
<1>2. EnsureOK(q) => q.step \in {"find", "insert", "repair"}
  BY DEF EnsureOK
<1>3. SpecialOK(q) => q.step \in {"validate", "post", "settings"}
  BY DEF SpecialOK
<1> QED BY <1>1, <1>2, <1>3 DEF RequestOK

LEMMA PlanImportKeeps ==
  ASSUME BooksInv, NEW r \in Request, NEW file \in File, PlanImport(r, file)
  PROVE  BooksInv'
<1>1. PICK q : q = [step |-> "apply", file |-> file, plan |-> Plan(file, Chart)]
  OBVIOUS
<1>2. PlanOK(Plan(file, Chart))
  BY PlanAccepted DEF BooksInv, PlanImport
<1>3. q.step = "apply" /\ q.file \in File /\ PlanOK(q.plan)
  BY <1>1, <1>2
<1>4. RequestOK(q)
  BY <1>3 DEF RequestOK
<1>5. requests' = [requests EXCEPT ![r] = q] /\ UNCHANGED <<accounts, drafted, posted>>
  BY <1>1 DEF PlanImport, Begin, Continue
<1>6. TableOK' /\ Grown
  BY <1>5, TableUnchanged DEF BooksInv
<1> QED BY <1>4, <1>5, <1>6, RequestStep

LEMMA ApplyImportKeeps ==
  ASSUME BooksInv, NEW r \in Request, ApplyImport(r)
  PROVE  BooksInv'
<1>1. PICK plan : plan = requests[r].plan
  OBVIOUS
<1>2. PlanOK(plan)
  BY <1>1, StepsApart DEF BooksInv, ApplyImport
<1>3. CASE Applicable(plan)
  <2>1. PICK q : q = EnsureSystemAccounts(Idle)
    OBVIOUS
  <2>2. RequestOK(q)
    BY <2>1, EnsureBegins
  <2>3. /\ requests' = [requests EXCEPT ![r] = q] /\ accounts' = Written(plan)
        /\ UNCHANGED <<drafted, posted>>
    BY <1>1, <1>3, <2>1 DEF ApplyImport, Continue
  <2>4. TableOK' /\ Grown
    BY <1>2, <1>3, <2>3, TableWritten DEF BooksInv
  <2> QED BY <2>2, <2>3, <2>4, RequestStep
<1>4. CASE ~Applicable(plan)
  <2>1. PICK q : q = Idle
    OBVIOUS
  <2>2. requests' = [requests EXCEPT ![r] = q] /\ UNCHANGED <<accounts, drafted, posted>>
    BY <1>1, <1>4, <2>1 DEF ApplyImport, Continue, End
  <2>3. TableOK' /\ Grown
    BY <2>2, TableUnchanged DEF BooksInv
  <2> QED BY <2>1, <2>2, <2>3, IdleOK, RequestStep
<1> QED BY <1>3, <1>4

LEMMA FindSystemAccountKeeps ==
  ASSUME BooksInv, NEW r \in Request, FindSystemAccount(r)
  PROVE  BooksInv'
<1>1. EnsureOK(requests[r])
  BY StepsApart DEF BooksInv, FindSystemAccount
<1>2. TableOK' /\ Grown
  BY TableUnchanged DEF BooksInv, FindSystemAccount
<1>3. ASSUME NEW q, RequestOK(q), Continue(r, q)
      PROVE  BooksInv'
  BY <1>2, <1>3, RequestStep DEF Continue
<1>4. PICK now : now = requests[r]
  OBVIOUS
<1>5. EnsureOK(now)
  BY <1>1, <1>4
<1>6. CASE Continue(r, [now EXCEPT !.step = "insert"])
  <2>1. PICK q : q = [now EXCEPT !.step = "insert"]
    OBVIOUS
  <2>2. q = [step |-> "insert", nth |-> now.nth, ids |-> now.ids, id |-> now.id,
             then |-> now.then]
    BY <1>5, <2>1 DEF EnsureOK
  <2>3. EnsureOK(q)
    BY <1>5, <2>2 DEF EnsureOK
  <2> QED BY <1>3, <1>6, <2>1, <2>3 DEF RequestOK
<1>7. CASE End(r)
  <2>1. PICK q : q = Idle
    OBVIOUS
  <2> QED BY <1>3, <1>7, <2>1, IdleOK DEF End
<1>8. ASSUME NEW i \in Present, Continue(r, Found(r, i))
      PROVE  BooksInv'
  <2>1. PICK q : q = Found(r, i)
    OBVIOUS
  <2>2. i \in Nat
    BY TableFacts DEF BooksInv
  <2> QED BY <1>1, <1>3, <1>8, <2>1, <2>2, FoundOK
<1>9. ASSUME NEW i \in Present, Continue(r, [now EXCEPT !.step = "repair", !.id = i])
      PROVE  BooksInv'
  <2>1. PICK q : q = [now EXCEPT !.step = "repair", !.id = i]
    OBVIOUS
  <2>2. q = [step |-> "repair", nth |-> now.nth, ids |-> now.ids, id |-> i, then |-> now.then]
    BY <1>5, <2>1 DEF EnsureOK
  <2>3. i \in AccountIds
    BY TableFacts DEF BooksInv
  <2>4. EnsureOK(q)
    BY <1>5, <2>2, <2>3 DEF EnsureOK
  <2> QED BY <1>3, <1>9, <2>1, <2>4 DEF RequestOK
<1> QED BY <1>4, <1>6, <1>7, <1>8, <1>9 DEF FindSystemAccount

LEMMA InsertSystemAccountKeeps ==
  ASSUME BooksInv, NEW r \in Request, InsertSystemAccount(r)
  PROVE  BooksInv'
<1>1. EnsureOK(requests[r])
  BY StepsApart DEF BooksInv, InsertSystemAccount
<1>2. PICK new : new = SystemAccount[requests[r].nth]
  OBVIOUS
<1>3. \E n \in {1, 2} : new = SystemAccount[n]
  BY <1>1, <1>2 DEF EnsureOK
<1>4. PICK row : row = [code |-> new.code, name |-> new.name, type |-> "equity",
                        classification |-> "other_equity", isActive |-> TRUE]
  OBVIOUS
<1>5. row \in SomeAccount /\ row.code = new.code /\ row.name = new.name /\ row.type = "equity"
  BY <1>3, <1>4 DEF SomeAccount, SomeCode, SomeName, AccountType, Classification, TypeOf
<1>6. CASE CodeFree(new.code)
  <2> DEFINE i == Len(accounts) + 1
  <2>1. PICK q : q = Found(r, i)
    OBVIOUS
  <2>2. RequestOK(q)
    <3>1. i \in Nat
      BY TableFacts DEF BooksInv
    <3> HIDE DEF i
    <3> QED BY <1>1, <2>1, <3>1, FoundOK
  <2>3. /\ accounts' = Append(accounts, Row(row, "system"))
        /\ requests' = [requests EXCEPT ![r] = q] /\ UNCHANGED <<drafted, posted>>
    BY <1>2, <1>4, <1>6, <2>1 DEF InsertSystemAccount, Continue
  <2>4. TableOK' /\ Grown
    BY <1>3, <1>5, <1>6, <2>3, TableAppended DEF BooksInv
  <2> QED BY <2>2, <2>3, <2>4, RequestStep
<1>7. CASE ~CodeFree(new.code)
  <2>1. PICK q : q = Idle
    OBVIOUS
  <2>2. requests' = [requests EXCEPT ![r] = q] /\ UNCHANGED <<accounts, drafted, posted>>
    BY <1>2, <1>7, <2>1 DEF InsertSystemAccount, Continue, End
  <2>3. TableOK' /\ Grown
    BY <2>2, TableUnchanged DEF BooksInv
  <2> QED BY <2>1, <2>2, <2>3, IdleOK, RequestStep
<1> QED BY <1>6, <1>7

LEMMA RepairSystemAccountKeeps ==
  ASSUME BooksInv, NEW r \in Request, RepairSystemAccount(r)
  PROVE  BooksInv'
<1>1. EnsureOK(requests[r]) /\ requests[r].step = "repair"
  BY StepsApart DEF BooksInv, RepairSystemAccount
<1>2. PICK i : i = requests[r].id
  OBVIOUS
<1>3. i \in AccountIds /\ i \in Nat
  BY <1>1, <1>2, TableFacts DEF EnsureOK, BooksInv
<1>4. PICK q : q = Found(r, i)
  OBVIOUS
<1>5. RequestOK(q)
  BY <1>1, <1>3, <1>4, FoundOK
<1>6. /\ requests' = [requests EXCEPT ![r] = q] /\ UNCHANGED <<drafted, posted>>
      /\ accounts' = IF accounts[i].present
                     THEN [accounts EXCEPT ![i].row.classification = "other_equity",
                                           ![i].row.isActive = TRUE]
                     ELSE accounts
  BY <1>2, <1>4 DEF RepairSystemAccount, Continue
<1>7. CASE accounts[i].present
  <2>1. i \in Present /\ accounts[i] \in SomeRow
    BY <1>3, <1>7, TableFacts DEF Present, BooksInv
  <2>2. PICK old : old = accounts[i].row
    OBVIOUS
  <2>3. PICK row : row = [old EXCEPT !.classification = "other_equity", !.isActive = TRUE]
    OBVIOUS
  <2>4. old \in SomeAccount
    BY <2>1, <2>2 DEF SomeRow
  <2>5. row \in SomeAccount /\ row.code = old.code /\ row.name = old.name /\ row.type = old.type
    BY <2>3, <2>4 DEF SomeAccount, Classification, TypeOf
  <2>6. accounts' = [accounts EXCEPT ![i].row = row]
    BY <1>3, <1>6, <1>7, <2>2, <2>3 DEF AccountIds
  <2>7. ProtectedBorn(i) => row.name = accounts[i].born.name /\ row.type = "equity"
    BY <1>3, <2>1, <2>2, <2>5, ProtectedNow, TableFacts DEF BooksInv
  <2>8. TableOK' /\ Grown
    BY <1>6, <2>1, <2>2, <2>5, <2>6, <2>7, TableEdited DEF BooksInv
  <2> QED BY <1>5, <1>6, <2>8, RequestStep
<1>8. CASE ~accounts[i].present
  <2>1. TableOK' /\ Grown
    BY <1>6, <1>8, TableUnchanged DEF BooksInv
  <2> QED BY <1>5, <1>6, <2>1, RequestStep
<1> QED BY <1>7, <1>8

LEMMA CreateByHandKeeps ==
  ASSUME BooksInv, NEW account \in HandMade, CreateByHand(account)
  PROVE  BooksInv'
<1>1. account \in SomeAccount
  <2>1. account \in Account
    BY ChartAssumption
  <2> QED BY <2>1 DEF Account, SomeAccount, SomeCode, SomeName
<1>2. /\ accounts' = Append(accounts, Row(account, "user")) /\ CodeFree(account.code)
      /\ UNCHANGED <<drafted, posted>> /\ UNCHANGED requests
  BY DEF CreateByHand
<1>3. TableOK' /\ Grown
  BY <1>1, <1>2, TableAppended DEF BooksInv
<1> QED BY <1>2, <1>3, RequestsSame

LEMMA ReadForEditKeeps ==
  ASSUME BooksInv, NEW r \in Request, NEW i \in AccountIds, NEW name \in NewName,
         NEW isActive \in BOOLEAN, ReadForEdit(r, i, name, isActive)
  PROVE  BooksInv'
<1>1. PICK on \in BOOLEAN : on = isActive
  OBVIOUS
<1>2. PICK q : q = [step |-> "edit", id |-> i, name |-> name, isActive |-> on]
  OBVIOUS
<1>3. ~ProtectedBorn(i)
  <2>1. ProtectedBorn(i) => Chart[i].name = accounts[i].born.name
    BY ProtectedNow DEF BooksInv
  <2> QED BY <2>1 DEF ReadForEdit, Editable, ProtectedBorn
<1>4. q.step = "edit" /\ q.id = i /\ q.name = name /\ q.isActive = on
  BY <1>2
<1>5. RequestOK(q)
  BY <1>1, <1>3, <1>4 DEF RequestOK
<1>6. requests' = [requests EXCEPT ![r] = q] /\ UNCHANGED <<accounts, drafted, posted>>
  BY <1>1, <1>2 DEF ReadForEdit, Begin, Continue
<1>7. TableOK' /\ Grown
  BY <1>6, TableUnchanged DEF BooksInv
<1> QED BY <1>5, <1>6, <1>7, RequestStep

LEMMA WriteEditKeeps ==
  ASSUME BooksInv, NEW r \in Request, WriteEdit(r)
  PROVE  BooksInv'
<1>1. PICK q : q = requests[r]
  OBVIOUS
<1>2. q.name \in NewName /\ q.isActive \in BOOLEAN /\ q.id \in AccountIds /\ ~ProtectedBorn(q.id)
  BY <1>1, StepsApart DEF BooksInv, WriteEdit
<1>3. PICK i \in AccountIds : i = q.id
  BY <1>2
<1>4. PICK idle : idle = Idle
  OBVIOUS
<1>5. /\ requests' = [requests EXCEPT ![r] = idle] /\ UNCHANGED <<drafted, posted>>
      /\ accounts' = IF accounts[i].present
                     THEN [accounts EXCEPT ![i].row.name = q.name,
                                           ![i].row.isActive = q.isActive]
                     ELSE accounts
  BY <1>1, <1>3, <1>4 DEF WriteEdit, End, Continue
<1>6. CASE accounts[i].present
  <2>1. i \in Present /\ accounts[i] \in SomeRow
    BY <1>6, TableFacts DEF Present, BooksInv
  <2>2. PICK old : old = accounts[i].row
    OBVIOUS
  <2>3. PICK row : row = [old EXCEPT !.name = q.name, !.isActive = q.isActive]
    OBVIOUS
  <2>4. old \in SomeAccount
    BY <2>1, <2>2 DEF SomeRow
  <2>5. q.name \in SomeName
    BY <1>2 DEF SomeName
  <2>6. row \in SomeAccount /\ row.code = old.code
    BY <1>2, <2>3, <2>4, <2>5 DEF SomeAccount
  <2>7. accounts' = [accounts EXCEPT ![i].row = row]
    BY <1>5, <1>6, <2>2, <2>3 DEF AccountIds
  <2>8. TableOK' /\ Grown
    BY <1>2, <1>3, <1>5, <2>1, <2>2, <2>6, <2>7, TableEdited DEF BooksInv
  <2> QED BY <1>4, <1>5, <2>8, IdleOK, RequestStep
<1>7. CASE ~accounts[i].present
  <2>1. TableOK' /\ Grown
    BY <1>5, <1>7, TableUnchanged DEF BooksInv
  <2> QED BY <1>4, <1>5, <2>1, IdleOK, RequestStep
<1> QED BY <1>6, <1>7

LEMMA ReadForProposalKeeps ==
  ASSUME BooksInv, NEW r \in Request, NEW account \in Proposal, ReadForProposal(r, account)
  PROVE  BooksInv'
<1>1. account \in Account /\ account.name \notin ProtectedName
  BY ChartAssumption
<1>2. PICK c \in Code : Begin(r, [step |-> "propose", account |-> [account EXCEPT !.code = c]])
  BY <1>1 DEF ReadForProposal, Account
<1>3. PICK new : new = [account EXCEPT !.code = c]
  OBVIOUS
<1>4. new \in SomeAccount /\ new.name = account.name
  BY <1>1, <1>3 DEF Account, SomeAccount, SomeCode, SomeName
<1>5. PICK q : q = [step |-> "propose", account |-> new]
  OBVIOUS
<1>6. q.step = "propose" /\ q.account = new
  BY <1>5
<1>7. RequestOK(q)
  BY <1>1, <1>4, <1>6 DEF RequestOK
<1>8. requests' = [requests EXCEPT ![r] = q] /\ UNCHANGED <<accounts, drafted, posted>>
  BY <1>2, <1>3, <1>5 DEF ReadForProposal, Begin, Continue
<1>9. TableOK' /\ Grown
  BY <1>8, TableUnchanged DEF BooksInv
<1> QED BY <1>7, <1>8, <1>9, RequestStep

LEMMA WriteProposalKeeps ==
  ASSUME BooksInv, NEW r \in Request, WriteProposal(r)
  PROVE  BooksInv'
<1>1. PICK account : account = requests[r].account
  OBVIOUS
<1>2. account \in SomeAccount
  BY <1>1, StepsApart DEF BooksInv, WriteProposal
<1>3. PICK idle : idle = Idle
  OBVIOUS
<1>4. requests' = [requests EXCEPT ![r] = idle] /\ UNCHANGED <<drafted, posted>>
  BY <1>3 DEF WriteProposal, End, Continue
<1>5. CASE CodeFree(account.code)
  <2>1. accounts' = Append(accounts, Row(account, "kevin"))
    BY <1>1, <1>5 DEF WriteProposal
  <2>2. TableOK' /\ Grown
    BY <1>2, <1>4, <1>5, <2>1, TableAppended DEF BooksInv
  <2> QED BY <1>3, <1>4, <2>2, IdleOK, RequestStep
<1>6. CASE ~CodeFree(account.code)
  <2>1. UNCHANGED <<accounts, drafted, posted>>
    BY <1>1, <1>6 DEF WriteProposal
  <2>2. TableOK' /\ Grown
    BY <2>1, TableUnchanged DEF BooksInv
  <2> QED BY <1>3, <1>4, <2>2, IdleOK, RequestStep
<1> QED BY <1>5, <1>6

LEMMA JournalUseKeeps ==
  ASSUME BooksInv, NEW i \in AccountIds, DraftOn(i) \/ PostDraft(i) \/ DeleteDraft(i)
  PROVE  BooksInv'
<1>1. UNCHANGED accounts /\ UNCHANGED requests
  BY DEF DraftOn, PostDraft, DeleteDraft
<1>2. Present' = Present
  BY <1>1 DEF Present, AccountIds
<1>3. Used' \subseteq Used \cup (Used' \cap Present)
  BY DEF DraftOn, PostDraft, DeleteDraft, Used
<1>4. (Used \subseteq Present)'
  BY <1>2, <1>3 DEF BooksInv, TableOK, LedgerAccountsKept
<1>5. TableOK' /\ Grown
  BY <1>1, <1>4, TableUsed DEF BooksInv
<1> QED BY <1>1, <1>5, RequestsSame

LEMMA ChartKeeps ==
  ASSUME BooksInv, ChartNext
  PROVE  BooksInv'
<1>1. ASSUME NEW r \in Request, ChartStep(r)
      PROVE  BooksInv'
  BY <1>1, PlanImportKeeps, ApplyImportKeeps, FindSystemAccountKeeps, InsertSystemAccountKeeps,
     RepairSystemAccountKeeps, ReadForEditKeeps, WriteEditKeeps, ReadForProposalKeeps,
     WriteProposalKeeps DEF ChartStep
<1> QED BY <1>1, CreateByHandKeeps, JournalUseKeeps DEF ChartNext
-----------------------------------------------------------------------------
(* Opening balances and prior-period adjustments *)

LEMMA SpecialNext ==
  ASSUME BooksInv, NEW r \in Request, NEW q, RequestOK(q), Continue(r, q),
         UNCHANGED <<accounts, drafted, posted>>
  PROVE  BooksInv'
<1>1. TableOK' /\ Grown
  BY TableUnchanged DEF BooksInv
<1> QED BY <1>1, RequestStep DEF Continue

LEMMA EndsWell ==
  ASSUME BooksInv, NEW r \in Request, End(r), UNCHANGED <<accounts, drafted, posted>>
  PROVE  BooksInv'
<1>1. PICK q : q = Idle
  OBVIOUS
<1> QED BY <1>1, IdleOK, SpecialNext DEF End

LEMMA SubmitKeeps ==
  ASSUME BooksInv, NEW r \in Request, NEW kind, NEW entry \in Entry, NEW start,
         Submit(r, kind, entry, start)
  PROVE  BooksInv'
<1>1. PICK no \in BOOLEAN : no = FALSE
  OBVIOUS
<1>2. PICK then : then = [step |-> "validate", kind |-> kind, entry |-> entry, start |-> start,
                          pnl |-> no, ids |-> <<>>]
  OBVIOUS
<1>3. SpecialOK(then)
  BY <1>2 DEF SpecialOK, EntryOK, Submit
<1>4. PICK q : q = EnsureSystemAccounts(then)
  OBVIOUS
<1>5. RequestOK(q)
  BY <1>3, <1>4, EnsureBegins
<1>6. Continue(r, q)
  BY <1>1, <1>2, <1>4 DEF Submit, Begin
<1> QED BY <1>5, <1>6, SpecialNext DEF Submit

LEMMA ValidateKeeps ==
  ASSUME BooksInv, NEW r \in Request, Validate(r)
  PROVE  BooksInv'
<1>1. PICK now : now = requests[r]
  OBVIOUS
<1>2. SpecialOK(now)
  BY <1>1, StepsApart DEF BooksInv, Validate
<1>3. PICK pnl : pnl = (\E i \in AccountsOf(now.entry) : ProfitOrLoss(i))
  OBVIOUS
<1>4. PICK then : then = [now EXCEPT !.step = "post", !.pnl = pnl]
  OBVIOUS
<1>5. then = [step |-> "post", kind |-> now.kind, entry |-> now.entry, start |-> now.start,
              pnl |-> pnl, ids |-> now.ids]
  BY <1>2, <1>4 DEF SpecialOK
<1>6. SpecialOK(then)
  BY <1>2, <1>5 DEF SpecialOK
<1>7. PICK q : q = EnsureSystemAccounts(then)
  OBVIOUS
<1>8. RequestOK(q)
  BY <1>6, <1>7, EnsureBegins
<1>9. Continue(r, q) \/ End(r)
  BY <1>1, <1>3, <1>4, <1>7 DEF Validate
<1> QED BY <1>8, <1>9, SpecialNext, EndsWell DEF Validate

LEMMA PostBatchKeeps ==
  ASSUME BooksInv, NEW r \in Request, PostBatch(r)
  PROVE  BooksInv'
<1>1. PICK now : now = requests[r]
  OBVIOUS
<1>2. SpecialOK(now)
  BY <1>1, StepsApart DEF BooksInv, PostBatch
<1>3. PICK next : next = [now EXCEPT !.step = "settings"]
  OBVIOUS
<1>4. next = [step |-> "settings", kind |-> now.kind, entry |-> now.entry, start |-> now.start,
              pnl |-> now.pnl, ids |-> now.ids]
  BY <1>2, <1>3 DEF SpecialOK
<1>5. SpecialOK(next)
  BY <1>2, <1>4 DEF SpecialOK
<1>6. PICK q : q = IF now.kind = "opening" THEN next ELSE Idle
  OBVIOUS
<1>7. RequestOK(q)
  BY <1>5, <1>6, IdleOK DEF RequestOK
<1>8. CASE /\ AccountsOf(LinesToPost(r)) \subseteq Present
           /\ posted' = posted \cup AccountsOf(LinesToPost(r))
           /\ Continue(r, q)
  <2>1. UNCHANGED <<accounts, drafted>>
    BY DEF PostBatch
  <2>2. (Used \subseteq Present)'
    BY <1>8, <2>1 DEF BooksInv, TableOK, LedgerAccountsKept, Used, Present, AccountIds
  <2>3. TableOK' /\ Grown
    BY <2>1, <2>2, TableUsed DEF BooksInv
  <2> QED BY <1>7, <1>8, <2>3, RequestStep DEF Continue
<1>9. CASE End(r) /\ UNCHANGED posted
  BY <1>9, EndsWell DEF PostBatch
<1> QED BY <1>1, <1>3, <1>6, <1>8, <1>9 DEF PostBatch

LEMMA SpecialKeeps ==
  ASSUME BooksInv, NEW r \in Request, SpecialStep(r)
  PROVE  BooksInv'
<1>1. CASE SetBooksStart(r) \/ Crash(r)
  BY <1>1, EndsWell DEF SetBooksStart, Crash
<1> QED BY <1>1, SubmitKeeps, ValidateKeeps, PostBatchKeeps DEF SpecialStep

LEMMA BooksBegin == Init => BooksInv
<1> SUFFICES ASSUME Init PROVE BooksInv
  OBVIOUS
<1>1. AccountIds = {} /\ Present = {} /\ Used = {} /\ accounts \in Seq(SomeRow)
  BY DEF Init, ChartInit, AccountIds, Present, Used
<1>2. TableOK
  BY <1>1 DEF TableOK, SystemAccountsKept, LedgerAccountsKept
<1>3. \A r \in Request : RequestOK(requests[r])
  BY IdleOK DEF Init, ChartInit
<1>4. requests = [r \in Request |-> requests[r]]
  BY DEF Init, ChartInit
<1> QED BY <1>2, <1>3, <1>4 DEF BooksInv

LEMMA BooksKeep == BooksInv /\ [Next]_vars => BooksInv'
<1> SUFFICES ASSUME BooksInv, [Next]_vars PROVE BooksInv'
  OBVIOUS
<1>1. ASSUME UNCHANGED <<accounts, drafted, posted, requests>>
      PROVE  BooksInv'
  BY <1>1, TableUnchanged, RequestsSame DEF BooksInv
<1>2. CASE UNCHANGED vars
  BY <1>1, <1>2 DEF vars, chartVars
<1>3. CASE \E b \in DOMAIN batches : VoidBatch(b)
  BY <1>1, <1>3 DEF VoidBatch, chartVars
<1> QED BY <1>2, <1>3, ChartKeeps, SpecialKeeps DEF Next

\* The inductive invariant: what a request has read and planned stays good however
\* the chart changes before it is written.
THEOREM BooksHold == Spec => []BooksInv
<1>1. Init => BooksInv
  BY BooksBegin
<1>2. BooksInv /\ [Next]_vars => BooksInv'
  BY BooksKeep
<1> QED BY <1>1, <1>2, PTL DEF Spec

\* The system's equity accounts keep their name and type and are never removed.
THEOREM SystemAccountsStay == Spec => []SystemAccountsKept
<1>1. BooksInv => SystemAccountsKept
  BY DEF BooksInv, TableOK
<1> QED BY <1>1, BooksHold, PTL

\* No import takes away an account that a journal line names.
THEOREM LedgerAccountsStay == Spec => []LedgerAccountsKept
<1>1. BooksInv => LedgerAccountsKept
  BY DEF BooksInv, TableOK
<1> QED BY <1>1, BooksHold, PTL

\* However many requests find a system account missing, it is inserted once.
THEOREM SystemAccountsOnce == Spec => []OneSystemAccountEach
<1>1. BooksInv => OneSystemAccountEach
  <2> SUFFICES ASSUME BooksInv, NEW i \in AccountIds, NEW j \in AccountIds,
                      accounts[i].by = "system", accounts[j].by = "system",
                      accounts[i].born = accounts[j].born
               PROVE  i = j
    BY DEF OneSystemAccountEach
  <2>1. PICK m \in {1, 2} : /\ accounts[i].born.name = SystemAccount[m].name
                            /\ accounts[i].born.type = "equity"
                            /\ accounts[i].row.code = SystemAccount[m].code
    BY DEF BooksInv, TableOK
  <2>2. PICK n \in {1, 2} : /\ accounts[j].born.name = SystemAccount[n].name
                            /\ accounts[j].born.type = "equity"
                            /\ accounts[j].row.code = SystemAccount[n].code
    BY DEF BooksInv, TableOK
  <2>3. m = n
    BY <2>1, <2>2 DEF SystemAccount
  <2>4. SystemAccount[m].name \in ProtectedName
    BY DEF SystemAccount, ProtectedName, RequiredClassification
  <2>5. ProtectedBorn(i) /\ ProtectedBorn(j)
    BY <2>1, <2>2, <2>3, <2>4 DEF ProtectedBorn
  <2>6. i \in Present /\ j \in Present
    BY <2>5, ProtectedNow DEF BooksInv
  <2> QED BY <2>1, <2>2, <2>3, <2>6 DEF BooksInv, TableOK
<1> QED BY <1>1, BooksHold, PTL
-----------------------------------------------------------------------------
(* The plug *)

LEMMA TotalIs ==
  ASSUME NEW f, NEW n \in Nat, DOMAIN f = 1 .. n, \A k \in 1 .. n : f[k] \in Int
  PROVE  /\ Total(f) \in Nat
         /\ \A k \in 1 .. n : Positive(f[k]) <= Total(f)
<1> DEFINE g == [k \in 1 .. n |-> Positive(f[k])]
<1>1. \A k \in 1 .. n : g[k] \in Nat /\ g[k] = Positive(f[k])
  BY DEF Positive
<1>2. IsFiniteSet(1 .. n)
  BY FS_Interval
<1>3. Total(f) = SumFunctionOnSet(g, 1 .. n)
  <2>1. Total(f) = SumFunction(g) /\ DOMAIN g = 1 .. n
    BY DEF Total
  <2> HIDE DEF g
  <2> QED BY <2>1 DEF SumFunction
<1> HIDE DEF g
<1> QED BY <1>1, <1>2, <1>3, SumNonNegative

LEMMA TotalAppended ==
  ASSUME NEW f, NEW g, NEW n \in Nat, DOMAIN f = 1 .. n, DOMAIN g = 1 .. (n + 1),
         \A k \in 1 .. n : f[k] \in Int /\ g[k] = f[k], g[n + 1] \in Int
  PROVE  Total(g) = Total(f) + Positive(g[n + 1])
<1> DEFINE a == [k \in 1 .. n |-> Positive(f[k])]
           b == [k \in 1 .. (n + 1) |-> Positive(g[k])]
           S == 1 .. (n + 1)
<1>1. /\ \A k \in S : b[k] \in Int
      /\ \A k \in 1 .. n : a[k] = b[k]
      /\ b[n + 1] = Positive(g[n + 1])
  BY DEF Positive
<1>2. IsFiniteSet(S) /\ IsFiniteSet(1 .. n) /\ n + 1 \in S /\ S \ {n + 1} = 1 .. n
  <2>1. IsFiniteSet(S) /\ IsFiniteSet(1 .. n)
    BY FS_Interval
  <2>2. n + 1 \in S /\ S \ {n + 1} = 1 .. n
    OBVIOUS
  <2> QED BY <2>1, <2>2
<1>3. Total(f) = SumFunctionOnSet(a, 1 .. n)
  <2>1. Total(f) = SumFunction(a) /\ DOMAIN a = 1 .. n
    BY DEF Total
  <2> HIDE DEF a
  <2> QED BY <2>1 DEF SumFunction
<1>4. Total(g) = SumFunctionOnSet(b, S)
  <2>1. Total(g) = SumFunction(b) /\ DOMAIN b = S
    BY DEF Total
  <2> HIDE DEF b
  <2> QED BY <2>1 DEF SumFunction
<1>5. SumFunctionOnSet(a, 1 .. n) \in Int
  <2>1. \A k \in 1 .. n : a[k] \in Int
    BY DEF Positive
  <2> HIDE DEF a
  <2> QED BY <1>2, <2>1, SumInt
<1> HIDE DEF a, b, S
<1>6. SumFunctionOnSet(b, S) = b[n + 1] + SumFunctionOnSet(b, S \ {n + 1})
  BY <1>1, <1>2, SumRemove
<1>7. SumFunctionOnSet(a, 1 .. n) = SumFunctionOnSet(b, 1 .. n)
  BY <1>1, <1>2, SumSame
<1>8. Positive(g[n + 1]) \in Int
  BY DEF Positive
<1>9. Total(g) = Positive(g[n + 1]) + Total(f)
  BY <1>1, <1>2, <1>3, <1>4, <1>6, <1>7
<1>10. Total(f) \in Int
  BY <1>3, <1>5
<1> QED BY <1>8, <1>9, <1>10

\* A list with a line of one side and amounts in whole cents: the plug evens it out.
LEMMA PlugEvens ==
  ASSUME NEW lines, NEW plug, NEW n \in Nat, n # 0, DOMAIN lines = 1 .. n,
         NEW L, lines \in Seq(L),
         \A k \in 1 .. n : lines[k].debit \in Int /\ lines[k].credit \in Int,
         \A k \in 1 .. n : OneSided(lines[k])
  PROVE  CanPostJournal(WithPlug(lines, plug))
<1> DEFINE d == Total(Debits(lines))
           c == Total(Credits(lines))
<1>1. /\ DOMAIN Debits(lines) = 1 .. n /\ DOMAIN Credits(lines) = 1 .. n
      /\ \A k \in 1 .. n : Debits(lines)[k] = lines[k].debit /\ Debits(lines)[k] \in Int
      /\ \A k \in 1 .. n : Credits(lines)[k] = lines[k].credit /\ Credits(lines)[k] \in Int
  BY DEF Debits, Credits
<1>2. d \in Nat /\ c \in Nat
  BY <1>1, TotalIs
<1>3. Positive(lines[1].debit) <= d /\ Positive(lines[1].credit) <= c
  <2>1. 1 \in 1 .. n
    OBVIOUS
  <2>2. Positive(Debits(lines)[1]) <= d
    BY <1>1, <2>1, TotalIs
  <2>3. Positive(Credits(lines)[1]) <= c
    BY <1>1, <2>1, TotalIs
  <2> QED BY <1>1, <2>1, <2>2, <2>3
<1>4. d # 0 \/ c # 0
  <2>1. OneSided(lines[1]) /\ lines[1].debit \in Int /\ lines[1].credit \in Int
    BY <1>1
  <2> HIDE DEF d, c
  <2> QED BY <1>2, <1>3, <2>1 DEF OneSided, Positive
<1>5. Difference(lines) = d - c
  BY DEF Difference, CalculateJournalTotals
<1>6. CASE d = c
  <2>1. WithPlug(lines, plug) = lines
    BY <1>2, <1>5, <1>6 DEF WithPlug
  <2>2. Balances(CalculateJournalTotals(lines))
    BY <1>4, <1>6 DEF Balances, CalculateJournalTotals
  <2> QED BY <2>1, <2>2 DEF CanPostJournal
<1>7. CASE d # c
  <2>1. PICK line : line = [account |-> plug, date |-> 1,
                            debit  |-> IF d - c < 0 THEN -(d - c) ELSE 0,
                            credit |-> IF d - c > 0 THEN d - c ELSE 0]
    OBVIOUS
  <2>2. PICK x \in Int : x = d - c
    BY <1>2
  <2>3. /\ line.debit = IF x < 0 THEN -x ELSE 0
        /\ line.credit = IF x > 0 THEN x ELSE 0
        /\ x # 0
    BY <1>2, <1>7, <2>1, <2>2
  <2>4. PICK all : all = Append(lines, line)
    OBVIOUS
  <2>5. WithPlug(lines, plug) = all
    BY <1>5, <2>1, <2>2, <2>3, <2>4 DEF WithPlug
  <2>6. DOMAIN all = 1 .. (n + 1) /\ all[n + 1] = line /\ \A k \in 1 .. n : all[k] = lines[k]
    BY <2>4
  <2>7. OneSided(line) /\ line.debit \in Int /\ line.credit \in Int
    BY <2>3 DEF OneSided
  <2>8. \A k \in DOMAIN all : OneSided(all[k])
    <3>1. \A k \in DOMAIN all : k = n + 1 \/ k \in 1 .. n
      BY <2>6
    <3> QED BY <2>6, <2>7, <3>1
  <2>9. /\ DOMAIN Debits(all) = 1 .. (n + 1) /\ Debits(all)[n + 1] = line.debit
        /\ \A k \in 1 .. n : Debits(all)[k] = Debits(lines)[k]
        /\ DOMAIN Credits(all) = 1 .. (n + 1) /\ Credits(all)[n + 1] = line.credit
        /\ \A k \in 1 .. n : Credits(all)[k] = Credits(lines)[k]
    BY <1>1, <2>6 DEF Debits, Credits
  <2>10. /\ \A k \in 1 .. n : Debits(lines)[k] \in Int /\ Debits(all)[k] = Debits(lines)[k]
         /\ Debits(all)[n + 1] \in Int
         /\ \A k \in 1 .. n : Credits(lines)[k] \in Int /\ Credits(all)[k] = Credits(lines)[k]
         /\ Credits(all)[n + 1] \in Int
    BY <1>1, <2>7, <2>9
  <2>11. Total(Debits(all)) = d + Positive(line.debit)
    <3>1. PICK f, g : f = Debits(lines) /\ g = Debits(all)
      OBVIOUS
    <3>2. Total(g) = Total(f) + Positive(g[n + 1])
      BY <1>1, <2>9, <2>10, <3>1, TotalAppended
    <3> QED BY <2>9, <3>1, <3>2
  <2>12. Total(Credits(all)) = c + Positive(line.credit)
    <3>1. PICK f, g : f = Credits(lines) /\ g = Credits(all)
      OBVIOUS
    <3>2. Total(g) = Total(f) + Positive(g[n + 1])
      BY <1>1, <2>9, <2>10, <3>1, TotalAppended
    <3> QED BY <2>9, <3>1, <3>2
  <2>13. Balances(CalculateJournalTotals(all))
    <3>1. /\ CalculateJournalTotals(all).totalDebit = d + Positive(line.debit)
          /\ CalculateJournalTotals(all).totalCredit = c + Positive(line.credit)
      BY <2>11, <2>12 DEF CalculateJournalTotals
    <3> HIDE DEF d, c
    <3>2. /\ Positive(line.debit) = IF d < c THEN c - d ELSE 0
          /\ Positive(line.credit) = IF c < d THEN d - c ELSE 0
      BY <1>2, <2>2, <2>3 DEF Positive
    <3>3. d + Positive(line.debit) = c + Positive(line.credit) /\ d + Positive(line.debit) # 0
      BY <1>2, <1>4, <3>2
    <3> QED BY <3>1, <3>3 DEF Balances
  <2>14. all # <<>>
    BY <2>6
  <2> QED BY <2>5, <2>8, <2>13, <2>14 DEF CanPostJournal
<1> QED BY <1>6, <1>7

\* Whatever an opening balance or an adjustment is submitted with, the plug makes it
\* a journal that can be posted, into whichever accounts the request has found.
THEOREM PlugAlwaysBalances == Spec => []PlugBalances
<1>1. ASSUME BooksInv, NEW r \in Request, requests[r].step = "post"
      PROVE  CanPostJournal(LinesToPost(r))
  <2>1. PICK entry : entry = requests[r].entry
    OBVIOUS
  <2>2. EntryOK(entry)
    BY <1>1, <2>1, StepsApart DEF BooksInv, SpecialOK
  <2>3. PICK n \in Nat : DOMAIN entry = 1 .. n /\ n # 0
    BY <2>2, EntryAssumption DEF EntryOK
  <2>4. ASSUME NEW k \in 1 .. n
        PROVE  entry[k].debit \in Int /\ entry[k].credit \in Int /\ OneSided(entry[k])
    <3>1. entry \in Seq([account : 1 .. MaxAccounts, debit : Int, credit : Int])
      BY <2>2, EntryAssumption DEF EntryOK
    <3>2. PICK L : L = [account : 1 .. MaxAccounts, debit : Int, credit : Int]
      OBVIOUS
    <3>4. entry \in Seq(L)
      BY <3>1, <3>2
    <3>5. entry[k] \in L
      BY <2>3, <3>4
    <3>3. OneSided(entry[k])
      BY <2>2, <2>3 DEF EntryOK, Normalized
    <3> QED BY <3>2, <3>3, <3>5
  <2>5. PICK lines : lines = Dated(entry)
    OBVIOUS
  <2>6. /\ DOMAIN lines = 1 .. n /\ lines \in Seq({lines[k] : k \in 1 .. n})
        /\ \A k \in 1 .. n : lines[k].debit = entry[k].debit /\ lines[k].credit = entry[k].credit
    BY <2>3, <2>5 DEF Dated
  <2>7. /\ \A k \in 1 .. n : lines[k].debit \in Int /\ lines[k].credit \in Int
        /\ \A k \in 1 .. n : OneSided(lines[k])
    BY <2>4, <2>6 DEF OneSided
  <2>8. \A plug : CanPostJournal(WithPlug(lines, plug))
    BY <2>3, <2>6, <2>7, PlugEvens
  <2> QED BY <2>1, <2>5, <2>8 DEF LinesToPost
<1>2. BooksInv => PlugBalances
  BY <1>1 DEF PlugBalances
<1> QED BY <1>2, BooksHold, PTL
-----------------------------------------------------------------------------
(* Importing a file again *)

\* The account that a row of the file stands for is as the row says.
Agrees(row, account) ==
  /\ account.name = row.name /\ account.type = row.type
  /\ account.classification = row.classification
  /\ row.isActive # "none" => account.isActive = (row.isActive = "yes")

\* The chart is as the file says: nothing is left to create, write or switch off.
SettledBy(file, chart) ==
  /\ ~CodesTwice(file)
  /\ \A row \in RowsOf(file) : \E i \in DOMAIN chart : chart[i].code = row.code /\ Agrees(row, chart[i])
  /\ \A i \in DOMAIN chart : (\A row \in RowsOf(file) : row.code # chart[i].code) => ~Superseded(chart[i])
  /\ \E i \in DOMAIN chart : IsRetainedEarnings(chart[i])

\* An update that asks for what is there writes nothing.
LEMMA AgreesSame ==
  ASSUME NEW account \in SomeAccount, NEW row, Agrees(row, account)
  PROVE  Updated(row, account) = account
<1>1. PICK on : on = IF row.isActive = "none" THEN account.isActive ELSE row.isActive = "yes"
  OBVIOUS
<1>2. on = account.isActive
  BY <1>1 DEF Agrees
<1>3. Updated(row, account) = [account EXCEPT !.name = row.name, !.type = row.type,
                                 !.classification = row.classification, !.isActive = on]
  BY <1>1 DEF Updated
<1> QED BY <1>2, <1>3 DEF Agrees, SomeAccount

LEMMA SettledRepeats ==
  ASSUME NEW file \in File, NEW chart, NEW used,
         \A i \in DOMAIN chart : chart[i] \in SomeAccount,
         \A i, j \in DOMAIN chart : chart[i].code = chart[j].code => i = j,
         Repeatable(file), SettledBy(file, chart)
  PROVE  ~Refused(file, chart, used) /\ ChangesNothing(Plan(file, chart))
<1>1. ASSUME NEW row \in RowsOf(file)
      PROVE  /\ row.code \in Codes(chart) /\ ByCode(chart, row.code) \in DOMAIN chart
             /\ Agrees(row, chart[ByCode(chart, row.code)])
             /\ chart[ByCode(chart, row.code)].code = row.code
  <2>1. PICK i \in DOMAIN chart : chart[i].code = row.code /\ Agrees(row, chart[i])
    BY DEF SettledBy
  <2>2. ByCode(chart, row.code) = i
    BY <2>1 DEF ByCode
  <2> QED BY <2>1, <2>2 DEF Codes
<1>2. ASSUME NEW row \in RowsOf(file) PROVE Mode(row, chart) = "update"
  <2>1. row.mode \in {"none", "create", "update"}
    BY RowTyped DEF CoaRow, Repeatable
  <2> QED BY <1>1, <2>1 DEF Mode
<1>3. ToDelete(file, chart) = {}
  BY <1>2 DEF ToDelete
<1>4. ASSUME NEW i \in DOMAIN chart PROVE AfterFile(file, chart)[i] = chart[i]
  <2>1. PICK a : a = chart[i]
    OBVIOUS
  <2>2. a \in SomeAccount
    BY <2>1
  <2>3. CASE \E row \in RowsOf(file) : row.code = a.code
    <3>1. PICK row \in RowsOf(file) : row.code = a.code
      BY <2>3
    <3>2. RowFor(file, a.code) = row
      BY <3>1, RowForIs DEF SettledBy
    <3>3. ByCode(chart, row.code) = i
      BY <1>1, <2>1, <3>1
    <3>4. Agrees(row, a)
      BY <1>1, <2>1, <3>3
    <3>5. AfterFile(file, chart)[i] = Updated(row, a)
      BY <1>3, <2>1, <2>3, <3>2 DEF AfterFile
    <3> QED BY <2>1, <2>2, <3>4, <3>5, AgreesSame
  <2>4. CASE ~\E row \in RowsOf(file) : row.code = a.code
    <3>1. ~Superseded(a)
      BY <2>1, <2>4 DEF SettledBy
    <3>2. AfterFile(file, chart)[i] = [a EXCEPT !.isActive = a.isActive /\ ~Superseded(a)]
      BY <1>3, <2>1, <2>4 DEF AfterFile
    <3>3. PICK on : on = (a.isActive /\ ~Superseded(a))
      OBVIOUS
    <3>4. a.isActive \in BOOLEAN
      BY <2>2 DEF SomeAccount
    <3>5. on = a.isActive
      BY <3>1, <3>3, <3>4
    <3> QED BY <2>1, <2>2, <3>2, <3>3, <3>5 DEF SomeAccount
  <2> QED BY <2>3, <2>4
<1>5. DOMAIN AfterFile(file, chart) = DOMAIN chart /\ DOMAIN chart # {}
  BY <1>3 DEF AfterFile, SettledBy
<1>6. ASSUME NEW row \in RowsOf(file) PROVE ~RowRefused(row, chart, used)
  <2>1. PICK i, a : i = ByCode(chart, row.code) /\ a = chart[i]
    OBVIOUS
  <2>2. Agrees(row, a) /\ row.code \in Codes(chart)
    BY <1>1, <2>1
  <2>3. ~UpdateRefused(row, a, i \in used)
    BY <2>2 DEF UpdateRefused, Agrees, Protected, Repeatable
  <2> QED BY <1>2, <2>1, <2>2, <2>3 DEF RowRefused
<1>7. ~BulkRefused(file, chart, used)
  BY <1>4, <1>5, <1>6 DEF BulkRefused, SettledBy
<1>8. {NewAccount(row) : row \in {x \in RowsOf(file) : x.code \notin Codes(chart)}} = {}
  BY <1>1
<1>9. Ordered({}) = <<>>
  BY OrderedIs, FS_EmptySet
<1>10. BulkPlan(file, chart).create = <<>>
  BY <1>8, <1>9 DEF BulkPlan, Ordered
<1>11. DOMAIN BulkPlan(file, chart).update = {}
  BY <1>4, <1>5 DEF BulkPlan
<1>12. BulkPlan(file, chart).delete = {}
  BY <1>3 DEF BulkPlan
<1> QED BY <1>5, <1>7, <1>10, <1>11, <1>12 DEF Refused, Plan, ChangesNothing

\* The chart after the transaction of an import.
LEMMA WrittenIs ==
  ASSUME TableOK, NEW plan, PlanOK(plan), accounts' = Written(plan)
  PROVE  /\ \A i \in Present : i \notin plan.delete =>
              /\ i \in Present'
              /\ i \in DOMAIN plan.update => accounts'[i].row = plan.update[i]
              /\ i \notin DOMAIN plan.update => accounts'[i].row = accounts[i].row
         /\ \A k \in DOMAIN plan.create :
              Len(accounts) + k \in Present' /\ accounts'[Len(accounts) + k].row = plan.create[k]
         /\ \A i \in Present' :
              i \in Present \/ \E k \in DOMAIN plan.create : i = Len(accounts) + k
<1>1. PICK n \in Nat : n = Len(accounts) /\ AccountIds = 1 .. n
  BY TableFacts
<1>2. PICK m \in Nat : m = Len(plan.create) /\ DOMAIN plan.create = 1 .. m
  BY DEF PlanOK
<1>3. PICK old : old = [i \in AccountIds |->
                          IF i \in DOMAIN plan.update /\ accounts[i].present
                          THEN [accounts[i] EXCEPT !.row = plan.update[i]]
                          ELSE [accounts[i] EXCEPT !.present = @ /\ i \notin plan.delete]]
  OBVIOUS
<1>4. PICK new : new = [k \in DOMAIN plan.create |-> Row(plan.create[k], "import")]
  OBVIOUS
<1>5. accounts' = old \o new
  BY <1>3, <1>4 DEF Written
<1>6. ASSUME NEW i \in AccountIds
      PROVE  /\ old[i].present => accounts[i].present
             /\ accounts[i].present /\ i \notin plan.delete => old[i].present
             /\ accounts[i].present /\ i \in DOMAIN plan.update => old[i].row = plan.update[i]
             /\ i \notin DOMAIN plan.update => old[i].row = accounts[i].row
  <2>1. PICK a : a = accounts[i]
    OBVIOUS
  <2>2. a \in SomeRow
    BY <2>1, TableFacts
  <2>3. CASE i \in DOMAIN plan.update /\ a.present
    <3>1. PICK r : r = plan.update[i]
      OBVIOUS
    <3>2. old[i] = [a EXCEPT !.row = r]
      BY <1>3, <2>1, <2>3, <3>1
    <3>3. old[i].row = r /\ old[i].present = a.present
      BY <2>2, <3>2 DEF SomeRow
    <3> QED BY <2>1, <2>3, <3>1, <3>3
  <2>4. CASE ~(i \in DOMAIN plan.update /\ a.present)
    <3>1. PICK here : here = (a.present /\ i \notin plan.delete)
      OBVIOUS
    <3>2. old[i] = [a EXCEPT !.present = here]
      BY <1>3, <2>1, <2>4, <3>1
    <3>3. old[i].row = a.row /\ old[i].present = here
      BY <2>2, <3>2 DEF SomeRow
    <3> QED BY <2>1, <2>4, <3>1, <3>3
  <2> QED BY <2>3, <2>4
<1>7. ASSUME NEW k \in 1 .. m PROVE new[k].row = plan.create[k] /\ new[k].present
  BY <1>2, <1>4 DEF Row
<1>8. \E S : old \in Seq(S) /\ Len(old) = n /\ new \in Seq(S) /\ Len(new) = m
  <2>1. PICK S : S = {old[i] : i \in 1 .. n} \cup {new[k] : k \in 1 .. m}
    OBVIOUS
  <2>2. old \in [1 .. n -> S] /\ new \in [1 .. m -> S]
    BY <1>1, <1>2, <1>3, <1>4, <2>1
  <2>3. old \in Seq(S) /\ Len(old) = n
    BY <1>1, <2>2
  <2>4. new \in Seq(S) /\ Len(new) = m
    BY <1>2, <2>2
  <2> QED BY <2>3, <2>4
<1>9. /\ Len(old \o new) = n + m /\ DOMAIN (old \o new) = 1 .. (n + m)
      /\ \A i \in 1 .. n : (old \o new)[i] = old[i]
      /\ \A k \in 1 .. m : (old \o new)[n + k] = new[k]
  <2>1. PICK S : old \in Seq(S) /\ Len(old) = n /\ new \in Seq(S) /\ Len(new) = m
    BY <1>8
  <2>2. Len(old \o new) = n + m /\ \A i \in 1 .. n : (old \o new)[i] = old[i]
    BY <2>1
  <2>3. DOMAIN (old \o new) = 1 .. (n + m)
    BY <2>1
  <2>4. ASSUME NEW k \in 1 .. m PROVE (old \o new)[n + k] = new[k]
    <3>1. n + k \in 1 .. (n + m) /\ ~(n + k <= n) /\ n + k - n = k
      BY <1>1, <1>2
    <3> QED BY <1>1, <1>2, <2>1, <3>1
  <2> QED BY <2>2, <2>3, <2>4
<1>10. AccountIds' = 1 .. (n + m) /\ (\A i \in AccountIds : accounts'[i] = old[i])
       /\ \A k \in 1 .. m : accounts'[n + k] = new[k] /\ n + k \in 1 .. (n + m)
  <2>1. AccountIds' = 1 .. (n + m)
    BY <1>5, <1>9 DEF AccountIds
  <2>2. \A k \in 1 .. m : n + k \in 1 .. (n + m)
    OBVIOUS
  <2> QED BY <1>1, <1>5, <1>9, <2>1, <2>2
<1>11. \A i \in AccountIds : i \in AccountIds'
  BY <1>1, <1>2, <1>10
<1>12. ASSUME NEW i \in Present, i \notin plan.delete
       PROVE  /\ i \in Present'
              /\ i \in DOMAIN plan.update => accounts'[i].row = plan.update[i]
              /\ i \notin DOMAIN plan.update => accounts'[i].row = accounts[i].row
  BY <1>6, <1>10, <1>11, <1>12 DEF Present
<1>13. ASSUME NEW k \in DOMAIN plan.create
       PROVE  n + k \in Present' /\ accounts'[n + k].row = plan.create[k]
  BY <1>2, <1>7, <1>10 DEF Present
<1>14. ASSUME NEW i \in Present'
       PROVE  i \in Present \/ \E k \in DOMAIN plan.create : i = n + k
  <2>1. i \in 1 .. (n + m) /\ accounts'[i].present
    BY <1>10 DEF Present
  <2>2. CASE i \in 1 .. n
    BY <1>1, <1>6, <1>10, <2>1, <2>2 DEF Present
  <2>3. CASE i \notin 1 .. n
    <3>1. i - n \in 1 .. m /\ i = n + (i - n)
      BY <1>1, <1>2, <2>1, <2>3
    <3> QED BY <1>2, <3>1
  <2> QED BY <2>2, <2>3
<1> QED BY <1>1, <1>12, <1>13, <1>14

\* An account as a new row asks for it.
LEMMA NewAgrees ==
  ASSUME NEW file \in File, NEW row \in RowsOf(file)
  PROVE  Agrees(row, NewAccount(row)) /\ NewAccount(row).code = row.code
BY RowTyped DEF NewAccount, Agrees, CoaRow

LEMMA UpdatedAgrees ==
  ASSUME NEW file \in File, NEW row \in RowsOf(file), NEW account \in SomeAccount
  PROVE  Agrees(row, Updated(row, account)) /\ Updated(row, account).code = account.code
<1>1. PICK on : on = IF row.isActive = "none" THEN account.isActive ELSE row.isActive = "yes"
  OBVIOUS
<1>2. Updated(row, account) = [account EXCEPT !.name = row.name, !.type = row.type,
                                 !.classification = row.classification, !.isActive = on]
  BY <1>1 DEF Updated
<1>3. Updated(row, account).isActive = on
  BY <1>2 DEF SomeAccount
<1> QED BY <1>1, <1>3, UpdatedTyped DEF Agrees

LEMMA SettledByFirst ==
  ASSUME TableOK, NEW file \in File, DOMAIN Chart = {}, ~InitialRefused(file),
         accounts' = Written(InitialPlan(file))
  PROVE  SettledBy(file, Chart')
<1>1. PICK plan : plan = InitialPlan(file)
  OBVIOUS
<1>2. PlanOK(plan)
  BY <1>1, InitialPlanOK
<1>3. PICK next : next = Chart'
  OBVIOUS
<1>4. DOMAIN next = Present' /\ \A i \in DOMAIN next : next[i] = accounts'[i].row
  BY <1>3 DEF Chart
<1>5. Present = {}
  BY TableFacts
<1>6. DOMAIN plan.create = DOMAIN file /\ \A k \in DOMAIN file : plan.create[k] = NewAccount(file[k])
  BY <1>1 DEF InitialPlan
<1>7. /\ \A k \in DOMAIN file : Len(accounts) + k \in DOMAIN next
                                /\ next[Len(accounts) + k] = NewAccount(file[k])
      /\ \A i \in DOMAIN next : \E k \in DOMAIN file : i = Len(accounts) + k
  BY <1>1, <1>2, <1>4, <1>5, <1>6, WrittenIs
<1>8. ASSUME NEW row \in RowsOf(file)
      PROVE  \E i \in DOMAIN next : next[i] = NewAccount(row)
  BY <1>7 DEF RowsOf
<1>9. \A i \in DOMAIN next : \E row \in RowsOf(file) : next[i] = NewAccount(row)
  BY <1>7 DEF RowsOf
<1>10. \A row \in RowsOf(file) : \E i \in DOMAIN next : next[i].code = row.code /\ Agrees(row, next[i])
  BY <1>8, NewAgrees
<1>11. \A i \in DOMAIN next : \E row \in RowsOf(file) : row.code = next[i].code
  BY <1>9, NewAgrees
<1>12. \E i \in DOMAIN next : IsRetainedEarnings(next[i])
  <2>1. PICK row \in RowsOf(file) : IsRetainedEarnings(row)
    BY DEF InitialRefused
  <2>2. IsRetainedEarnings(NewAccount(row))
    BY <2>1 DEF IsRetainedEarnings, NewAccount
  <2> QED BY <1>8, <2>2
<1>13. ~CodesTwice(file)
  BY DEF InitialRefused
<1>14. SettledBy(file, next)
  BY <1>10, <1>11, <1>12, <1>13 DEF SettledBy
<1> QED BY <1>3, <1>14

LEMMA SettledByBulk ==
  ASSUME TableOK, NEW file \in File, ~BulkRefused(file, Chart, Used), Repeatable(file),
         accounts' = Written(BulkPlan(file, Chart))
  PROVE  SettledBy(file, Chart')
<1>1. PICK plan, after, chart : /\ plan = BulkPlan(file, Chart) /\ after = AfterFile(file, Chart)
                                /\ chart = Chart
  OBVIOUS
<1>2. PlanOK(plan)
  BY <1>1, BulkPlanOK
<1>3. PICK next : next = Chart'
  OBVIOUS
<1>4. DOMAIN next = Present' /\ \A i \in DOMAIN next : next[i] = accounts'[i].row
  BY <1>3 DEF Chart
<1>5. ~CodesTwice(file)
  BY DEF BulkRefused
<1>6. DOMAIN chart = Present /\ \A i \in Present : chart[i] = accounts[i].row /\ chart[i] \in SomeAccount
  BY <1>1, TableFacts
<1>7. ToDelete(file, chart) = {}
  <2>1. \A row \in RowsOf(file) : row.mode # "delete"
    BY DEF Repeatable
  <2>2. \A row \in RowsOf(file) : Mode(row, chart) # "delete"
    BY <2>1 DEF Mode
  <2> QED BY <2>2 DEF ToDelete
<1>8. DOMAIN after = Present
  BY <1>1, <1>6, <1>7 DEF AfterFile
<1>9. /\ plan.delete = {}
      /\ \A i \in Present : IF i \in DOMAIN plan.update THEN plan.update[i] = after[i]
                                                        ELSE after[i] = chart[i]
  BY <1>1, <1>7, <1>8 DEF BulkPlan
<1>10. ASSUME NEW i \in Present PROVE i \in DOMAIN next /\ next[i] = after[i]
  BY <1>1, <1>2, <1>4, <1>6, <1>9, WrittenIs
<1>11. /\ \A row \in NewRows(file, chart) : \E k \in DOMAIN plan.create : plan.create[k] = NewAccount(row)
       /\ \A k \in DOMAIN plan.create : \E row \in NewRows(file, chart) : plan.create[k] = NewAccount(row)
  <2>1. PICK new : new = {NewAccount(row) : row \in NewRows(file, chart)}
    OBVIOUS
  <2>2. IsFiniteSet(new)
    <3>1. IsFiniteSet(NewRows(file, chart))
      BY RowsFinite, FS_Subset DEF NewRows
    <3>2. PICK f : f = [row \in NewRows(file, chart) |-> NewAccount(row)]
      OBVIOUS
    <3>3. IsFiniteSet({f[row] : row \in NewRows(file, chart)})
      BY <3>1, <3>2, ImageFinite
    <3> QED BY <2>1, <3>2, <3>3
  <2>3. plan.create = Ordered(new)
    BY <1>1, <2>1 DEF BulkPlan, Ordered, NewRows
  <2>4. /\ \A x \in new : \E k \in DOMAIN plan.create : plan.create[k] = x
        /\ \A k \in DOMAIN plan.create : plan.create[k] \in new
    BY <2>2, <2>3, OrderedIs
  <2> QED BY <2>1, <2>4
<1>12. /\ \A k \in DOMAIN plan.create :
            Len(accounts) + k \in DOMAIN next /\ next[Len(accounts) + k] = plan.create[k]
       /\ \A i \in DOMAIN next : i \in Present \/ \E k \in DOMAIN plan.create : i = Len(accounts) + k
  BY <1>1, <1>2, <1>4, WrittenIs
<1>13. ASSUME NEW row \in RowsOf(file), NEW i \in Present, row.code = chart[i].code
       PROVE  after[i] = Updated(row, chart[i])
  <2>1. RowFor(file, chart[i].code) = row
    BY <1>5, <1>13, RowForIs
  <2> QED BY <1>1, <1>6, <1>7, <1>13, <2>1 DEF AfterFile
<1>14. ASSUME NEW row \in RowsOf(file)
       PROVE  \E i \in DOMAIN next : next[i].code = row.code /\ Agrees(row, next[i])
  <2>1. CASE row.code \in Codes(chart)
    <3>1. PICK i \in Present : chart[i].code = row.code
      BY <1>6, <2>1 DEF Codes
    <3>2. next[i] = Updated(row, chart[i])
      BY <1>10, <1>13, <3>1
    <3> QED BY <1>6, <1>10, <3>1, <3>2, UpdatedAgrees
  <2>2. CASE row.code \notin Codes(chart)
    <3>1. PICK k \in DOMAIN plan.create : plan.create[k] = NewAccount(row)
      BY <1>11, <2>2 DEF NewRows
    <3> QED BY <1>12, <3>1, NewAgrees
  <2> QED BY <2>1, <2>2
<1>15. ASSUME NEW i \in DOMAIN next, \A row \in RowsOf(file) : row.code # next[i].code
       PROVE  ~Superseded(next[i])
  <2>1. CASE i \in Present
    <3>1. PICK a : a = chart[i]
      OBVIOUS
    <3>2. a \in SomeAccount
      BY <1>6, <2>1, <3>1
    <3>3. ~\E row \in RowsOf(file) : row.code = a.code
      <4>1. ASSUME NEW row \in RowsOf(file), row.code = a.code PROVE FALSE
        <5>1. next[i] = Updated(row, a)
          BY <1>10, <1>13, <2>1, <3>1, <4>1
        <5> QED BY <1>15, <3>2, <4>1, <5>1, UpdatedTyped
      <4> QED BY <4>1
    <3>4. PICK on : on = (a.isActive /\ ~Superseded(a))
      OBVIOUS
    <3>5. next[i] = [a EXCEPT !.isActive = on]
      BY <1>1, <1>6, <1>7, <1>10, <2>1, <3>1, <3>3, <3>4 DEF AfterFile
    <3>6. next[i].isActive = on /\ next[i].type = a.type /\ next[i].name = a.name
      BY <3>2, <3>5 DEF SomeAccount
    <3> QED BY <3>4, <3>6 DEF Superseded, Protected
  <2>2. CASE i \notin Present
    <3>1. PICK k \in DOMAIN plan.create : next[i] = plan.create[k]
      BY <1>12, <2>2
    <3>2. PICK row \in NewRows(file, chart) : next[i] = NewAccount(row)
      BY <1>11, <3>1
    <3> QED BY <1>15, <3>2, NewAgrees DEF NewRows
  <2> QED BY <2>1, <2>2
<1>16. \E i \in DOMAIN next : IsRetainedEarnings(next[i])
  <2>1. PICK i \in DOMAIN after : IsRetainedEarnings(after[i])
    BY <1>1 DEF BulkRefused
  <2> QED BY <1>8, <1>10, <2>1
<1>17. SettledBy(file, next)
  BY <1>5, <1>14, <1>15, <1>16 DEF SettledBy
<1> QED BY <1>3, <1>17

\* The chart stays as the file says: only what the file says, or a protected account, comes.
SettledOK ==
  settled # NoFile => /\ settled \in File
                      /\ Repeatable(settled) => SettledBy(settled, Chart)

LEMMA SettledSame ==
  ASSUME SettledOK, UNCHANGED settled, UNCHANGED accounts
  PROVE  SettledOK'
BY DEF SettledOK, Chart, Present, AccountIds

LEMMA SettledForgot ==
  ASSUME settled' = NoFile
  PROVE  SettledOK'
BY DEF SettledOK

LEMMA ApplyImportSettles ==
  ASSUME BooksInv, SettledOK, NEW r \in Request, ApplyImport(r)
  PROVE  SettledOK'
<1>1. PICK plan, file : plan = requests[r].plan /\ file = requests[r].file
  OBVIOUS
<1>2. file \in File
  BY <1>1, StepsApart DEF BooksInv, ApplyImport
<1>3. CASE ~Applicable(plan)
  BY <1>1, <1>3, SettledSame DEF ApplyImport
<1>4. CASE Applicable(plan) /\ ~(~Refused(file, Chart, Used) /\ plan = Plan(file, Chart))
  BY <1>1, <1>4, SettledForgot DEF ApplyImport
<1>5. CASE Applicable(plan) /\ ~Refused(file, Chart, Used) /\ plan = Plan(file, Chart)
  <2>1. accounts' = Written(plan) /\ settled' = file
    BY <1>1, <1>5 DEF ApplyImport
  <2>2. Repeatable(file) => SettledBy(file, Chart')
    BY <1>2, <1>5, <2>1, SettledByFirst, SettledByBulk DEF BooksInv, Refused, Plan
  <2> QED BY <1>2, <2>1, <2>2 DEF SettledOK
<1> QED BY <1>3, <1>4, <1>5

LEMMA InsertStaysSettled ==
  ASSUME BooksInv, SettledOK, NEW r \in Request, InsertSystemAccount(r)
  PROVE  SettledOK'
<1>1. EnsureOK(requests[r]) /\ UNCHANGED settled
  BY StepsApart DEF BooksInv, InsertSystemAccount
<1>2. PICK new : new = SystemAccount[requests[r].nth]
  OBVIOUS
<1>3. \E n \in {1, 2} : new = SystemAccount[n]
  BY <1>1, <1>2 DEF EnsureOK
<1>4. PICK row : row = [code |-> new.code, name |-> new.name, type |-> "equity",
                        classification |-> "other_equity", isActive |-> TRUE]
  OBVIOUS
<1>5. row.code = new.code /\ Protected(row)
  BY <1>3, <1>4 DEF Protected, ProtectedName, RequiredClassification, SystemAccount
<1>6. CASE ~CodeFree(new.code)
  BY <1>1, <1>2, <1>6, SettledSame DEF InsertSystemAccount
<1>7. CASE CodeFree(new.code) /\ settled # NoFile /\ Repeatable(settled)
  <2>1. PICK chart, next, n : chart = Chart /\ next = Chart' /\ n = Len(accounts) + 1
    OBVIOUS
  <2>2. accounts' = Append(accounts, Row(row, "system"))
    BY <1>2, <1>4, <1>7 DEF InsertSystemAccount
  <2>3. PICK added : added = Row(row, "system")
    OBVIOUS
  <2>4. added.present /\ added.row = row
    BY <2>3 DEF Row
  <2>5. /\ DOMAIN accounts' = DOMAIN accounts \cup {n} /\ n \notin DOMAIN accounts
        /\ accounts'[n] = added /\ \A i \in DOMAIN accounts : accounts'[i] = accounts[i]
    BY <2>1, <2>2, <2>3 DEF BooksInv, TableOK
  <2>6. Present' = Present \cup {n} /\ n \notin Present
    BY <2>4, <2>5 DEF Present, AccountIds
  <2>7. /\ DOMAIN chart = Present /\ DOMAIN next = Present \cup {n}
        /\ next[n] = row /\ \A i \in Present : next[i] = chart[i]
    BY <2>1, <2>4, <2>5, <2>6 DEF Chart, Present, AccountIds
  <2>8. \A i \in DOMAIN chart : chart[i].code # row.code
    BY <1>5, <1>7, <2>1 DEF CodeFree, Codes
  <2>9. PICK file : file = settled
    OBVIOUS
  <2>10. SettledBy(file, chart)
    BY <1>7, <2>1, <2>9 DEF SettledOK
  <2>11. SettledBy(file, next)
    BY <1>5, <2>7, <2>10 DEF SettledBy, Superseded
  <2> QED BY <1>1, <2>1, <2>9, <2>11 DEF SettledOK
<1>8. CASE settled = NoFile \/ ~Repeatable(settled)
  BY <1>1, <1>8 DEF SettledOK
<1> QED BY <1>6, <1>7, <1>8

LEMMA SettledKeeps ==
  ASSUME BooksInv, SettledOK, [Next]_vars
  PROVE  SettledOK'
<1>1. ASSUME NEW r \in Request, ChartStep(r)
      PROVE  SettledOK'
  <2>1. ASSUME NEW file \in File, PlanImport(r, file) PROVE SettledOK'
    BY <2>1, SettledSame DEF PlanImport
  <2>2. CASE FindSystemAccount(r)
    BY <2>2, SettledSame DEF FindSystemAccount
  <2>3. CASE RepairSystemAccount(r)
    BY <2>3, SettledForgot DEF RepairSystemAccount
  <2>4. ASSUME NEW i, NEW name, NEW isActive, ReadForEdit(r, i, name, isActive) PROVE SettledOK'
    BY <2>4, SettledSame DEF ReadForEdit
  <2>5. CASE WriteEdit(r)
    BY <2>5, SettledForgot DEF WriteEdit
  <2>6. ASSUME NEW account, ReadForProposal(r, account) PROVE SettledOK'
    BY <2>6, SettledSame DEF ReadForProposal
  <2>7. CASE WriteProposal(r)
    BY <2>7, SettledSame, SettledForgot DEF WriteProposal
  <2> QED BY <1>1, <2>1, <2>2, <2>3, <2>4, <2>5, <2>6, <2>7, ApplyImportSettles,
             InsertStaysSettled DEF ChartStep
<1>2. ASSUME NEW account, CreateByHand(account) PROVE SettledOK'
  BY <1>2, SettledForgot DEF CreateByHand
<1>3. ASSUME NEW i, DraftOn(i) \/ PostDraft(i) \/ DeleteDraft(i) PROVE SettledOK'
  BY <1>3, SettledSame DEF DraftOn, PostDraft, DeleteDraft
<1>4. CASE ChartNext
  BY <1>1, <1>2, <1>3, <1>4 DEF ChartNext
<1>5. ASSUME NEW r \in Request, SpecialStep(r) PROVE SettledOK'
  BY <1>5, SettledSame DEF SpecialStep, Submit, Validate, PostBatch, SetBooksStart, Crash
<1>6. ASSUME NEW b, VoidBatch(b) PROVE SettledOK'
  BY <1>6, SettledSame DEF VoidBatch, chartVars
<1>7. CASE UNCHANGED vars
  BY <1>7, SettledSame DEF vars, chartVars
<1> QED BY <1>4, <1>5, <1>6, <1>7 DEF Next

\* A file that was accepted, and was planned for the chart it was written to, is
\* accepted again and then changes nothing, whatever was drafted, posted and voided
\* since and whichever system accounts came.
THEOREM ReimportIsIdempotent == Spec => []ReimportChangesNothing
<1>1. Init => BooksInv /\ SettledOK
  BY BooksBegin DEF Init, ChartInit, SettledOK
<1>2. BooksInv /\ SettledOK /\ [Next]_vars => BooksInv' /\ SettledOK'
  BY BooksKeep, SettledKeeps
<1>3. BooksInv /\ SettledOK => ReimportChangesNothing
  <2> SUFFICES ASSUME BooksInv, SettledOK, settled # NoFile, Repeatable(settled)
               PROVE  /\ ~Refused(settled, Chart, Used)
                      /\ ChangesNothing(Plan(settled, Chart))
    BY DEF ReimportChangesNothing
  <2>1. settled \in File /\ SettledBy(settled, Chart)
    BY DEF SettledOK
  <2>2. \A i \in DOMAIN Chart : Chart[i] \in SomeAccount
    BY TableFacts DEF BooksInv
  <2>3. \A i, j \in DOMAIN Chart : Chart[i].code = Chart[j].code => i = j
    BY TableFacts DEF BooksInv, TableOK
  <2> QED BY <2>1, <2>2, <2>3, SettledRepeats
<1> QED BY <1>1, <1>2, <1>3, PTL DEF Spec
=============================================================================
