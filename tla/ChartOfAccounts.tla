--------------------------- MODULE ChartOfAccounts ---------------------------
(***************************************************************************)
(* The accounts table of one organization and the requests that change it: *)
(* the CSV import and the standard chart (chart-of-accounts-service.ts),   *)
(* the system equity accounts created on first use and the edits of the    *)
(* accounts page (db/queries/accounts.ts, accounts/actions.ts), and the    *)
(* accounts Kevin proposes (account-management-service.ts).                *)
(*                                                                         *)
(* A request reads and writes in separate statements, outside one          *)
(* transaction, and other requests run in between: each await is a step of *)
(* its own, and what a request has read is in its record.                  *)
(***************************************************************************)
EXTENDS AccountImport, FiniteSets

CONSTANTS
  Request,       \* requests that may be in progress at the same time
  MaxAccounts,   \* bound: how many account rows are ever inserted
  MaxRequests,   \* bound: how many requests are ever let in
  File,          \* import files, the standard chart among them
  NoFile,
  HandMade,      \* what the accounts page's form can be filled in with
  NewName,       \* names given by an edit
  Proposal       \* account proposals of Kevin's

SystemAccount ==
  <<[name |-> "Opening_Balance_Equity", code |-> "39900"],
    [name |-> "Prior_Period_Adjustments", code |-> "39800"]>>

\* An account as its columns hold it.
Account == [code : Code, name : Name, type : AccountType,
            classification : Classification \cup {Unclassified}, isActive : BOOLEAN]

ASSUME ChartAssumption ==
  /\ MaxAccounts \in Nat /\ MaxRequests \in Nat
  /\ File \subseteq Seq(CoaRow) /\ NoFile \notin File
  /\ HandMade \subseteq Account
  /\ \A a \in HandMade : a.name \notin ProtectedName
  /\ \A a \in Proposal : a \in Account /\ a.name \notin ProtectedName

VARIABLES
  accounts,   \* every row ever inserted: the id is the index; removed rows stay
              \* with present = FALSE.  by and born are history: who inserted
              \* the row, and as what
  drafted,    \* ids that a line of a draft journal names
  posted,     \* ids that a line of a posted or voided journal names
  requests,   \* what each request does next, and with what it has read
  started,    \* how many requests were let in
  settled     \* history: the file imported last, unless the chart it was planned
              \* for was another one or accounts were changed otherwise since

chartVars == <<accounts, drafted, posted, requests, started, settled>>

AccountIds == DOMAIN accounts
Present == {i \in AccountIds : accounts[i].present}
Chart == [i \in Present |-> accounts[i].row]

\* hasActivity: a line of a journal in any status.
Used == drafted \cup posted

Row(account, by) ==
  [row |-> account, present |-> TRUE, by |-> by,
   born |-> [name |-> account.name, type |-> account.type]]

Idle == [step |-> "idle"]

Waiting(r) == requests[r].step = "idle" /\ started < MaxRequests

Continue(r, step) == requests' = [requests EXCEPT ![r] = step]

Begin(r, step) == Continue(r, step) /\ started' = started + 1

End(r) == Continue(r, Idle)

\* Fault variant of CodeFree: the table has no unique index.
AnyCode(c) == TRUE

\* accounts_org_id_code_unique.
CodeFree(c) == c \notin Codes(Chart)

\* Fault variant of Removable: the key cascades.
Cascades(i) == TRUE

\* The foreign key of journal_lines.account_id.
Removable(i) == i \notin Used

\* What a request does that calls ensureSystemEquityAccounts and goes on with
\* then: ids are the accounts found so far, id the one being repaired.
EnsureSystemAccounts(then) ==
  [step |-> "find", nth |-> 1, ids |-> <<>>, id |-> 0, then |-> then]
-----------------------------------------------------------------------------
(* applyChartOfAccountsRows *)

\* requireCoaClassification throws on the first account made without one.
Readable == \A i \in Present : Chart[i].classification # Unclassified

\* The existing accounts are read and the import planned before the transaction.
PlanImport(r, file) ==
  /\ Waiting(r)
  /\ Readable
  /\ ~Refused(file, Chart, Used)
  /\ Begin(r, [step |-> "apply", file |-> file, plan |-> Plan(file, Chart)])
  /\ UNCHANGED <<accounts, drafted, posted, settled>>

Applicable(plan) ==
  /\ \A k \in DOMAIN plan.create : CodeFree(plan.create[k].code)
  /\ \A i \in plan.delete \cap Present : Removable(i)

\* The updates write every column as it was planned, whatever it holds by now.
Written(plan) ==
  [i \in AccountIds |->
     IF i \in DOMAIN plan.update /\ accounts[i].present
     THEN [accounts[i] EXCEPT !.row = plan.update[i]]
     ELSE [accounts[i] EXCEPT !.present = @ /\ i \notin plan.delete]]
  \o [k \in DOMAIN plan.create |-> Row(plan.create[k], "import")]

\* The transaction, and the first statement of ensureSystemEquityAccounts next.
ApplyImport(r) ==
  /\ requests[r].step = "apply"
  /\ LET plan == requests[r].plan
         file == requests[r].file
     IN  IF Applicable(plan)
         THEN /\ Len(accounts) + Len(plan.create) <= MaxAccounts
              /\ accounts' = Written(plan)
              /\ settled' = IF ~Refused(file, Chart, Used) /\ plan = Plan(file, Chart)
                            THEN file ELSE NoFile
              /\ Continue(r, EnsureSystemAccounts(Idle))
         ELSE End(r) /\ UNCHANGED <<accounts, settled>>
  /\ UNCHANGED <<drafted, posted, started>>
-----------------------------------------------------------------------------
(* The steps of ensureSystemEquityAccounts *)

Found(r, i) ==
  LET ids == Append(requests[r].ids, i)
  IN  IF Len(ids) < Len(SystemAccount)
      THEN [requests[r] EXCEPT !.step = "find", !.nth = @ + 1, !.ids = ids]
      ELSE IF requests[r].then = Idle
           THEN Idle
           ELSE [requests[r].then EXCEPT !.ids = ids]

\* The SELECT names no order: any account of that name may be the one.
FindSystemAccount(r) ==
  /\ requests[r].step = "find"
  /\ LET named == {i \in Present : Chart[i].name = SystemAccount[requests[r].nth].name}
     IN  IF named = {}
         THEN Continue(r, [requests[r] EXCEPT !.step = "insert"])
         ELSE \E i \in named :
                IF Chart[i].type # "equity" THEN End(r)
                ELSE IF Chart[i].classification = "other_equity"
                     THEN Continue(r, Found(r, i))
                     ELSE Continue(r, [requests[r] EXCEPT !.step = "repair", !.id = i])
  /\ UNCHANGED <<accounts, drafted, posted, started, settled>>

InsertSystemAccount(r) ==
  /\ requests[r].step = "insert"
  /\ LET new == SystemAccount[requests[r].nth]
     IN  IF CodeFree(new.code)
         THEN /\ Len(accounts) < MaxAccounts
              /\ accounts' = Append(accounts,
                   Row([code |-> new.code, name |-> new.name, type |-> "equity",
                        classification |-> "other_equity", isActive |-> TRUE], "system"))
              /\ Continue(r, Found(r, Len(accounts) + 1))
         ELSE End(r) /\ UNCHANGED accounts
  /\ UNCHANGED <<drafted, posted, started, settled>>

RepairSystemAccount(r) ==
  /\ requests[r].step = "repair"
  /\ LET i == requests[r].id
     IN  accounts' = IF accounts[i].present
                     THEN [accounts EXCEPT ![i].row.classification = "other_equity",
                                           ![i].row.isActive = TRUE]
                     ELSE accounts
  /\ Continue(r, Found(r, requests[r].id))
  /\ settled' = NoFile
  /\ UNCHANGED <<drafted, posted, started>>
-----------------------------------------------------------------------------
(* The accounts page and Kevin's proposals *)

\* createAccountAction: one INSERT, and reserved names are refused.
CreateByHand(account) ==
  /\ CodeFree(account.code)
  /\ Len(accounts) < MaxAccounts
  /\ started < MaxRequests
  /\ started' = started + 1
  /\ accounts' = Append(accounts, Row(account, "user"))
  /\ settled' = NoFile
  /\ UNCHANGED <<drafted, posted, requests>>

\* Fault variant of Editable: the system's accounts can be edited too.
AnyEditable(i) == TRUE

\* updateAccountForTeam: only the name that the account has is checked.
Editable(i) == Chart[i].name \notin ProtectedName

ReadForEdit(r, i, name, isActive) ==
  /\ Waiting(r)
  /\ i \in Present
  /\ Editable(i)
  /\ Begin(r, [step |-> "edit", id |-> i, name |-> name, isActive |-> isActive])
  /\ UNCHANGED <<accounts, drafted, posted, settled>>

WriteEdit(r) ==
  /\ requests[r].step = "edit"
  /\ LET i == requests[r].id
     IN  accounts' = IF accounts[i].present
                     THEN [accounts EXCEPT ![i].row.name = requests[r].name,
                                           ![i].row.isActive = requests[r].isActive]
                     ELSE accounts
  /\ End(r)
  /\ settled' = NoFile
  /\ UNCHANGED <<drafted, posted, started>>

\* applyAccountProposals with one proposal: its code, or a free one of its type.
ReadForProposal(r, account) ==
  /\ Waiting(r)
  /\ \A i \in Present : Chart[i].name # account.name
  /\ \E c \in IF CodeFree(account.code) THEN {account.code}
              ELSE {x \in Code : CodeFree(x)} :
       Begin(r, [step |-> "propose", account |-> [account EXCEPT !.code = c]])
  /\ UNCHANGED <<accounts, drafted, posted, settled>>

WriteProposal(r) ==
  /\ requests[r].step = "propose"
  /\ IF CodeFree(requests[r].account.code)
     THEN /\ Len(accounts) < MaxAccounts
          /\ accounts' = Append(accounts, Row(requests[r].account, "kevin"))
          /\ settled' = NoFile
     ELSE UNCHANGED <<accounts, settled>>
  /\ End(r)
  /\ UNCHANGED <<drafted, posted, started>>
-----------------------------------------------------------------------------
(* The journal's use of the accounts *)

\* A draft with a line on account i is saved, posted or deleted.
DraftOn(i) ==
  /\ i \in Present /\ i \notin Used
  /\ drafted' = drafted \cup {i}
  /\ UNCHANGED <<accounts, posted, requests, started, settled>>

PostDraft(i) ==
  /\ i \in drafted
  /\ drafted' = drafted \ {i}
  /\ posted' = posted \cup {i}
  /\ UNCHANGED <<accounts, requests, started, settled>>

DeleteDraft(i) ==
  /\ i \in drafted
  /\ drafted' = drafted \ {i}
  /\ UNCHANGED <<accounts, posted, requests, started, settled>>
-----------------------------------------------------------------------------
ChartInit ==
  /\ accounts = <<>>
  /\ drafted = {} /\ posted = {}
  /\ requests = [r \in Request |-> Idle]
  /\ started = 0
  /\ settled = NoFile

ChartStep(r) ==
  \/ \E file \in File : PlanImport(r, file)
  \/ ApplyImport(r)
  \/ FindSystemAccount(r)
  \/ InsertSystemAccount(r)
  \/ RepairSystemAccount(r)
  \/ \E i \in AccountIds, name \in NewName, isActive \in BOOLEAN :
       ReadForEdit(r, i, name, isActive)
  \/ WriteEdit(r)
  \/ \E account \in Proposal : ReadForProposal(r, account)
  \/ WriteProposal(r)

ChartNext ==
  \/ \E r \in Request : ChartStep(r)
  \/ \E account \in HandMade : CreateByHand(account)
  \/ \E i \in AccountIds : DraftOn(i) \/ PostDraft(i) \/ DeleteDraft(i)
-----------------------------------------------------------------------------
(* Properties *)

\* An account that came into the chart as one of the system's equity accounts
\* keeps its name and its type and is never removed, whatever imports, edits and
\* proposals run at the same time and however old what they have read is.
SystemAccountsKept ==
  \A i \in AccountIds :
    accounts[i].born.type = "equity" /\ accounts[i].born.name \in ProtectedName =>
      /\ accounts[i].present
      /\ Chart[i].name = accounts[i].born.name
      /\ Chart[i].type = "equity"

\* An account that a journal line names stays in the chart: an import planned
\* before the line was written cannot take the account away.
LedgerAccountsKept == Used \subseteq Present

\* Requests that all find a system account missing do not create it twice.
OneSystemAccountEach ==
  \A i, j \in AccountIds :
    /\ accounts[i].by = "system" /\ accounts[j].by = "system"
    /\ accounts[i].born = accounts[j].born
    => i = j

\* A file without delete rows that uses the protected names for nothing but what
\* they stand for.
Repeatable(file) ==
  \A row \in RowsOf(file) :
    /\ row.mode # "delete"
    /\ row.type = "equity" /\ row.name \in ProtectedName =>
         row.classification = RequiredClassification[row.name]

\* Importing such a file a second time is accepted and changes nothing, with the
\* journals written and the system accounts created since the first time.
ReimportChangesNothing ==
  settled # NoFile /\ Repeatable(settled) =>
    /\ ~Refused(settled, Chart, Used)
    /\ ChangesNothing(Plan(settled, Chart))
==============================================================================
