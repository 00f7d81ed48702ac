\* Two requests of one person beside each other, each cut off anywhere.
CONSTANTS
  Email = {e1}
  User = {u1, u2}
  Org = {o1, o2}
  Request = {r1, r2}
SYMMETRY OrgSymmetry
SPECIFICATION OrgSpec
CHECK_DEADLOCK FALSE
INVARIANTS
  OrgIInv
  CurrentIsMember
  SignupCompletes
  RowsKeepToTheirOrg
