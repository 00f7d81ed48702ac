------------------------------- MODULE MCBooks -------------------------------
(***************************************************************************)
(* A chart of at most six rows and two requests at a time: the first       *)
(* import, a second file that retypes, deletes and supersedes, a file that *)
(* takes a system account's name, a form that makes an unclassified equity *)
(* account, and opening balances with and without profit and loss.         *)
(***************************************************************************)
EXTENDS OpeningBalances

MCCode == {"10000", "31000", "39800", "39900"}

MCName == ProtectedName \cup {"Cash", "Rent"}

MCRow(mode, code, name, classification) ==
  [mode |-> mode, code |-> code, name |-> name, type |-> TypeOf[classification],
   classification |-> classification, isActive |-> "none"]

RetainedEarnings == MCRow("none", "31000", "Retained_Earnings", "retained_earnings")

Standard == <<RetainedEarnings, MCRow("create", "10000", "Cash", "current_asset")>>

Retyped == <<RetainedEarnings, MCRow("none", "10000", "Rent", "operating_expense")>>

Removed == <<MCRow("delete", "10000", "Cash", "current_asset"),
             [RetainedEarnings EXCEPT !.isActive = "no"]>>

Renamed == <<MCRow("update", "10000", "Opening_Balance_Equity", "other_equity"), RetainedEarnings>>

MCFile == {Standard, Retyped, Removed, Renamed}

MCHandMade ==
  {[code |-> "39900", name |-> "Cash", type |-> "equity",
    classification |-> Unclassified, isActive |-> TRUE]}

MCProposal ==
  {[code |-> "10000", name |-> "Rent", type |-> "expense",
    classification |-> "operating_expense", isActive |-> TRUE]}

MCLine(i, debit, credit) == [account |-> i, debit |-> debit, credit |-> credit]

MCEntry == {<<MCLine(1, 0, 5)>>, <<MCLine(2, 3, 0), MCLine(1, 0, 5)>>}

MCSymmetry == Permutations(Request)
==============================================================================
