\* The journal lifecycle, its list and its reports: two entries and two revisions of them.
CONSTANTS
  MaxBatches = 6
  MaxEntries = 2
  AccountId <- MCAccountId
  OrgAccount <- MCOrgAccount
  Date = {1, 2}
  Memo = {"sale"}
  SourceKey = {}
  NoSource = NoSource
  Content <- MCContent
SPECIFICATION Spec
\* Once every journal is removed and no row is left to insert, nothing is enabled.
CHECK_DEADLOCK FALSE
INVARIANTS
  IndInv
  LifecycleAllOrNothing
  SupersededExactlyReversed
  ConsistentAnswers
  AuditTrail
  ReportsMatchList
  EveryDayBalances
PROPERTIES
  PostedPreserved
  ImplementsEntryBook
