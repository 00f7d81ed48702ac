\* Two readings of one file beside a user who reviews, posts, unposts and deletes.
CONSTANTS
  MaxBatches = 2
  MaxEntries = 2
  AccountId <- MCAccountId
  OrgAccount <- MCAccountId
  Date = {1}
  Memo = {"statement"}
  SourceKey <- MCSourceKey
  NoSource = {}
  Content = {}
  Statement = {"file"}
  BatchOf <- OneBatch
  CardStatement = {}
  Printed <- OneLine
  Run = {1, 2}
  Linkable <- BankOnly
  Liability = {}
  CashAccount = {"bank"}
  Category = {"rent"}
  Split = {}
  ImportMemo = "statement"
  Crashes = TRUE
  Limited = TRUE
  Clues <- MCClues
SPECIFICATION FairExtractionSpec
\* Once the file is deleted and the readings have ended, nothing is left to do.
CHECK_DEADLOCK FALSE
PROPERTIES
  RetryRefused
  ExtractionSettles
