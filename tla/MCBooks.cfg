SPECIFICATION Spec
CONSTANTS
  r1 = r1
  r2 = r2
  NoFile = NoFile
  NoDate = NoDate
  Request = {r1, r2}
  MaxAccounts = 6
  MaxRequests = 3
  MaxBatches = 1
  Code <- MCCode
  Name <- MCName
  File <- MCFile
  HandMade <- MCHandMade
  NewName = {"Opening_Balance_Equity"}
  Proposal <- MCProposal
  Entry <- MCEntry
  StartDate = {"jan"}
INVARIANTS
  SystemAccountsKept
  LedgerAccountsKept
  OneSystemAccountEach
  ReimportChangesNothing
  
SYMMETRY MCSymmetry
CHECK_DEADLOCK FALSE
