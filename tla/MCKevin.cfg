\* Requests of Kevin's page beside a user, with crashes and restores.
CONSTANTS
  MaxBatches = 3
  MaxEntries = 1
  AccountId <- MCAccountId
  OrgAccount <- MCAccountId
  Date = {1}
  Memo = {"entry"}
  SourceKey <- MCSourceKey
  NoSource = {}
  Content <- MCContent
  Statement = {"file"}
  BatchOf <- OneBatch
  CardStatement = {}
  Printed <- OneLine
  Run = {1}
  Linkable <- CashOnly
  Liability = {}
  CashAccount = {"cash"}
  Category = {"rent"}
  Split = {}
  ImportMemo = "entry"
  MaxSnapshots = 2
  NewAccount = {"added"}
  Request = {r1, r2}
  Proposal <- MCProposal
SYMMETRY RequestSymmetry
SPECIFICATION KevinSpec
CHECK_DEADLOCK FALSE
INVARIANTS
  ReferencesIntact
  ActionsUndoable
 
