\* Reports over the last and the first day of a fiscal year, beside the journal.
CONSTANTS
  MaxBatches = 2
  MaxEntries = 2
  AccountId <- MCAccount
  OrgAccount <- MCAccount
  Date <- MCDate
  Memo = {"entry"}
  SourceKey = {}
  NoSource = NoSource
  Content <- MCContent
  Type <- MCType
  RetainedEarnings = {"re"}
  Late = {"rent"}
  CompareMode = {"previous_period"}
  FiscalYearEndMonth = 6
SPECIFICATION ReportSpec
INVARIANTS
  BalanceSheetBalances
  DebitsEqualCredits
  PeriodsAdjoin
  YearRollsForward
