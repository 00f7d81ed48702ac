\* Two imports, double-submitted or retried, beside a user who voids and deletes.
CONSTANTS
  MaxBatches = 3
  MaxEntries = 3
  AccountId <- MCAccountId
  OrgAccount <- MCAccountId
  Date = {1, 2}
  Memo = {"rent", "sale"}
  SourceKey = {"rent", "sale"}
  NoSource = NoSource
  Content <- MCContent
  Job = {first, second}
  File <- MCFile
  Recognised = {TRUE, FALSE}
SYMMETRY MCSymmetry
SPECIFICATION ImportSpec
\* When both requests have ended and every journal is voided, nothing is left to do.
CHECK_DEADLOCK FALSE
INVARIANTS
  OneLivePerSource
  ResultsMatchFile
PROPERTY DuplicatesAreLive
