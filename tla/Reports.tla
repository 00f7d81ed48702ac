------------------------------- MODULE Reports -------------------------------
(***************************************************************************)
(* The financial reports: lib/accounting/reports and what the pages and    *)
(* CSV exports make of them, beside the journal they are read from.        *)
(*                                                                         *)
(* A report is a handful of SELECTs without a transaction around them.     *)
(* Each is one step here; between two of them any other request may enter, *)
(* post, correct or void a journal, or open an account.                    *)
(***************************************************************************)
EXTENDS JournalBook, Calendar

CONSTANTS
  Type,                 \* the type of each account
  RetainedEarnings,     \* the equity accounts with the name Retained Earnings
  Late,                 \* bound: the accounts that are opened while reports are made
  CompareMode,          \* bound: what a report is compared with
  FiscalYearEndMonth

AccountType == {"asset", "liability", "equity", "income", "expense"}

\* Income before 1970 is in no year, so days start there.
ASSUME ReportAssumption ==
  /\ Type \in [OrgAccount -> AccountType]
  /\ RetainedEarnings \subseteq {a \in OrgAccount : Type[a] = "equity"}
  /\ FiscalYearEndMonth \in 1 .. 12 /\ Late \subseteq OrgAccount
  /\ Date \subseteq Nat
  /\ CompareMode \subseteq {"previous_period", "previous_year"}

VARIABLES
  chart,    \* the accounts that have been opened
  report    \* the report being made: its kind and period, and what it has read

reportVars == <<rows, answers, chart, report>>

OfType(T) == {a \in OrgAccount : Type[a] \in T}

\* What each account of S gained, debits positive, on the posted days from .. to.
NetsIn(S, from, to) ==
  [a \in S |-> SumFunction([d \in {x \in Date : from <= x /\ x <= to} |-> ReportedNet(a, d)])]

\* The first day of the fiscal year that d is in.
FirstDay(d) == FiscalYearStart(FiscalYearEndMonth, d)

\* getNetIncomeForRange: credit less debit on the income and expense accounts.
NetIncome(from, to) == -SumFunction(NetsIn(OfType({"income", "expense"}) \cap chart, from, to))

RetainedLedger(d) == -SumFunction(NetsIn(RetainedEarnings \cap chart, 0, d))

\* Fault variant of PriorYearsNetIncome: the first day of the year is counted as well.
PriorAndFirstDay(d) == NetIncome(0, FirstDay(d))

PriorYearsNetIncome(d) == NetIncome(0, FirstDay(d) - 1)
-----------------------------------------------------------------------------
(* One step per query of a report *)

NoReport ==
  [kind |-> "none", pc |-> "none", from |-> 0, to |-> 0, accounts |-> {}, pnl |-> {},
   before |-> <<>>, within |-> <<>>, ytd |-> <<>>, retained |-> 0, prior |-> 0,
   undisturbed |-> TRUE, mode |-> "none", beside |-> <<>>]

\* report' is the report with one more field read.
Read(field, value, pc) ==
  /\ report' = [report EXCEPT ![field] = value, !.pc = pc]
  /\ UNCHANGED <<rows, answers, chart>>

At(pc) == report.pc = pc

FirstQuery(kind) ==
  CASE kind = "income_statement" -> "accounts"
    [] kind = "general_ledger"   -> "lines"
    [] OTHER                     -> "before"

\* The accounts are read first.
Begun(kind, from, to) ==
  [NoReport EXCEPT !.kind = kind, !.from = from, !.to = to, !.accounts = chart,
                   !.pc = FirstQuery(kind)]

Start(kind, from, to) ==
  /\ At("none")
  /\ from <= to
  /\ report' = Begun(kind, from, to)
  /\ UNCHANGED <<rows, answers, chart>>

\* The page leaves out accounts it does not know, and no account means every account;
\* the export refuses what it does not know.
Selected(asked) == IF asked = {} THEN OrgAccount ELSE asked

StartLedger(asked, from, to) ==
  /\ At("none")
  /\ from <= to
  /\ report' = [Begun("general_ledger", from, to) EXCEPT !.accounts = Selected(asked \cap chart)]
  /\ UNCHANGED <<rows, answers, chart>>

ExportLedger(asked, from, to) == asked \subseteq chart /\ StartLedger(asked, from, to)

\* When its own columns are read, a page may read a second report to set beside them.
Compare(mode) ==
  /\ At("done") /\ report.mode = "none" /\ report.kind # "general_ledger"
  /\ LET asOf   == GetCompareAsOf(mode, report.to)
         period == IF report.kind = "balance_sheet" THEN [from |-> FirstDay(asOf), to |-> asOf]
                   ELSE GetCompareRange(mode, [from |-> report.from, to |-> report.to])
     IN  report' = [Begun(report.kind, period.from, period.to) EXCEPT
                      !.mode = mode, !.undisturbed = report.undisturbed,
                      !.beside = <<[accounts |-> report.accounts, before |-> report.before]>>]
  /\ UNCHANGED <<rows, answers, chart>>

\* A trial balance sums what is before its period; a balance sheet, which starts
\* with the fiscal year, everything up to its day.
ReadBefore ==
  /\ At("before")
  /\ Read("before",
          NetsIn(OrgAccount, 0, IF report.kind = "balance_sheet" THEN report.to ELSE report.from - 1),
          IF report.kind = "balance_sheet" THEN "retained" ELSE "within")

ReadRetained == At("retained") /\ Read("retained", RetainedLedger(report.to), "prior")

ReadPrior == At("prior") /\ Read("prior", PriorYearsNetIncome(report.to), "accounts")

\* getIncomeStatement, by itself or for the balance sheet.
ReadPnlAccounts ==
  At("accounts") /\ Read("pnl", OfType({"income", "expense"}) \cap chart, "within")

ReadWithin ==
  /\ At("within")
  /\ Read("within", NetsIn(OrgAccount, report.from, report.to),
          IF report.kind = "trial_balance" THEN "done" ELSE "ytd")

ReadYtd ==
  At("ytd") /\ Read("ytd", NetsIn(OrgAccount, FirstDay(report.to), report.to), "done")

\* The one query of a general ledger: the posted lines of its accounts.
ReadLines == At("lines") /\ Read("within", NetsIn(report.accounts, report.from, report.to), "done")
-----------------------------------------------------------------------------
(* What is shown *)

SumOver(nets, S) == SumFunction([a \in S |-> nets[a]])

\* Fault variant of ShownEquity: Retained Earnings is listed with the other accounts too.
EveryEquity(r) == {a \in r.accounts : Type[a] = "equity"}

\* Retained Earnings is a line of its own.
ShownEquity(r) == {a \in r.accounts : Type[a] = "equity"} \ RetainedEarnings

YtdNetIncome(r) == -SumOver(r.ytd, r.pnl)

BalanceSheet(r) ==
  [assets      |-> SumOver(r.before, {a \in r.accounts : Type[a] = "asset"}),
   liabilities |-> -SumOver(r.before, {a \in r.accounts : Type[a] = "liability"}),
   equity      |-> -SumOver(r.before, ShownEquity(r)) + r.retained + r.prior + YtdNetIncome(r)]

\* Each account's net goes into the debit or the credit column.
DebitColumn(r, nets)  == SumFunction([a \in r.accounts |-> Positive(nets[a])])
CreditColumn(r, nets) == SumFunction([a \in r.accounts |-> Positive(-nets[a])])

EndNets(r) == [a \in OrgAccount |-> r.before[a] + r.within[a]]

\* What stands beside an account's row: nothing, if it was not there to be compared.
CompareNet(r, a) == IF a \in r.accounts THEN EndNets(r)[a] ELSE 0
-----------------------------------------------------------------------------
(* The specification *)

ReportInit == Init /\ report = NoReport /\ chart = OrgAccount \ Late

\* The page or the file has been sent.
Sent ==
  /\ At("done")
  /\ report' = NoReport
  /\ UNCHANGED <<rows, answers, chart>>

ReportStep ==
  \/ ReadBefore \/ ReadRetained \/ ReadPrior
  \/ ReadPnlAccounts \/ ReadWithin \/ ReadYtd \/ ReadLines
  \/ \E mode \in CompareMode : Compare(mode)
  \/ Sent

\* A line of a report links to the ledger of its account.
LedgerLinks == {{}} \cup {{a} : a \in OrgAccount}

StartReport ==
  \E to \in Date :
    \/ Start("balance_sheet", FirstDay(to), to)
    \/ \E from \in Date, kind \in {"trial_balance", "income_statement"} : Start(kind, from, to)
    \/ \E from \in Date \cup {FirstDay(to)}, asked \in LedgerLinks :
         StartLedger(asked, from, to) \/ ExportLedger(asked, from, to)

\* A journal names accounts that have been opened.
Opened == \A b \in DOMAIN rows : \A i \in DOMAIN rows[b].content.lines :
            rows[b].content.lines[i].account \in chart

Disturbed == IF At("none") THEN report ELSE [report EXCEPT !.undisturbed = FALSE]

LedgerStep ==
  /\ Next
  /\ UNCHANGED chart
  /\ Opened'
  /\ report' = Disturbed

OpenAccount(a) ==
  /\ a \notin chart
  /\ chart' = chart \cup {a}
  /\ report' = Disturbed
  /\ UNCHANGED <<rows, answers>>

ReportNext ==
  \/ StartReport
  \/ ReportStep
  \/ LedgerStep
  \/ \E a \in OrgAccount : OpenAccount(a)

ReportSpec == ReportInit /\ [][ReportNext]_reportVars
-----------------------------------------------------------------------------
(* Properties *)

Done(kind) == report.kind = kind /\ At("done")

\* Assets equal liabilities and equity: the ledger, the earnings of the prior years
\* and those of the current one, read by different queries, add up to one whole.
BalanceSheetBalances ==
  Done("balance_sheet") /\ report.undisturbed =>
    LET sheet == BalanceSheet(report) IN sheet.assets = sheet.liabilities + sheet.equity

\* Debits equal credits in a trial balance, whatever was posted, corrected or voided
\* between its queries as long as no account was opened meanwhile, and in a general
\* ledger of every account.
DebitsEqualCredits ==
  /\ Done("trial_balance") /\ report.accounts = chart =>
       /\ DebitColumn(report, report.before) = CreditColumn(report, report.before)
       /\ DebitColumn(report, EndNets(report)) = CreditColumn(report, EndNets(report))
  /\ Done("general_ledger") /\ report.accounts = OrgAccount =>
       SumOver(report.within, OrgAccount) = 0

\* Periods adjoin: in a trial balance beside the one of the previous period, each
\* account starts with what it had at the end of that period.
PeriodsAdjoin ==
  Done("trial_balance") /\ report.mode = "previous_period" /\ report.undisturbed =>
    \A a \in report.beside[1].accounts : CompareNet(report, a) = report.beside[1].before[a]

\* Earnings roll forward: on the first day of a fiscal year, prior years hold what
\* they held the day before and that year's earnings, and nothing is left out.
YearRollsForward ==
  \A d \in Date :
    FirstDay(d) = d =>
      PriorYearsNetIncome(d) = PriorYearsNetIncome(d - 1) + NetIncome(FirstDay(d - 1), d - 1)
=============================================================================
