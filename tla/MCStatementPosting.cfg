\* One import batch of two files, posted, corrected, unposted and posted again.
CONSTANTS
  MaxBatches = 4
  MaxEntries = 2
  AccountId <- MCAccountId
  OrgAccount <- MCAccountId
  Date = {1, 2}
  Memo = {"statement"}
  SourceKey <- MCSourceKey
  NoSource = {}
  Content <- MCContent
  Statement = {"one", "two"}
  BatchOf <- OneBatch
  CardStatement = {"one", "two"}
  Printed <- TwoPrinted
  Run = {1}
  Linkable <- CardOnly
  Liability <- MCLiability
  CashAccount <- MCCash
  Category = {"rent"}
  Split <- CashSplit
  ImportMemo = "statement"
SPECIFICATION PostingSpec
INVARIANTS
  OnBooksOnce
  RepostNeverBlocked
PROPERTIES
  PostingFollowsStatement
  CashCountedOnce
  ImplementsStatementBook
