----------------------------- MODULE MCReports -----------------------------
(* A small instance of Reports: a fiscal year that ends on 30 June, and the
   last and the first day of two fiscal years. *)
EXTENDS Reports, TLC

MCAccount == {"cash", "re", "rent", "sales"}
MCType == "cash" :> "asset" @@ "re" :> "equity" @@ "rent" :> "expense" @@ "sales" :> "income"

LastDay  == DayOf(2024, 6, 30)
NextYear == DayOf(2024, 7, 1)
MCDate   == {LastDay, NextYear}

Dr(a, d, n) == [account |-> a, date |-> d, debit |-> n, credit |-> 0]
Cr(a, d, n) == [account |-> a, date |-> d, debit |-> 0, credit |-> n]

Sale    == [memo |-> "entry", lines |-> <<Dr("cash", LastDay, 3), Cr("sales", LastDay, 3)>>]
\* Rent, and capital that is put into Retained Earnings.
Mixed   == [memo |-> "entry", lines |-> <<Dr("rent", NextYear, 1), Cr("cash", NextYear, 1),
                                          Dr("cash", NextYear, 2), Cr("re", NextYear, 2)>>]
\* Balanced only across the two days, which is refused.
Straddled == [memo |-> "entry", lines |-> <<Dr("cash", LastDay, 1), Cr("rent", NextYear, 1)>>]

MCContent == {Sale, Mixed, Straddled}
=============================================================================
