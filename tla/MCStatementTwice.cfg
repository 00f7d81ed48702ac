\* Whether a line of a file can be on the books twice.
CONSTANTS
  MaxBatches = 2
  MaxEntries = 2
  AccountId <- MCAccountId
  OrgAccount <- MCAccountId
  Date = {1}
  Memo = {"statement"}
  SourceKey <- MCSourceKey
  NoSource = {}
  Content = {}
  Statement = {"file"}
  BatchOf <- OneBatch
  CardStatement = {}
  Printed <- OneLine
  Run = {1, 2}
  Linkable <- BankOnly
  Liability = {}
  CashAccount = {"bank"}
  Category = {"rent"}
  Split = {}
  ImportMemo = "statement"
  Crashes = FALSE
  Limited = FALSE
  Clues <- MCClues
SPECIFICATION ExtractionSpec
CHECK_DEADLOCK FALSE
INVARIANT LineOnBooksOnce
