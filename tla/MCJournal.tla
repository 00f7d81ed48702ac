------------------------------ MODULE MCJournal ------------------------------
(* A small instance of Journal: two accounts and one of another organization,
   two days, and contents that probe every validation rule. *)
EXTENDS JournalBook, JournalInvariant

MCAccountId  == {"cash", "sales", "foreign"}
MCOrgAccount == {"cash", "sales"}

Dr(a, d, n) == [account |-> a, date |-> d, debit |-> n, credit |-> 0]
Cr(a, d, n) == [account |-> a, date |-> d, debit |-> 0, credit |-> n]

Sale      == [memo |-> "sale", lines |-> <<Dr("cash", 1, 1), Cr("sales", 1, 1)>>]
\* The same edit with its lines the other way round.
Permuted  == [memo |-> "sale", lines |-> <<Cr("sales", 1, 1), Dr("cash", 1, 1)>>]
Corrected == [memo |-> "sale", lines |-> <<Dr("cash", 2, 2), Cr("sales", 2, 2)>>]
\* Refused: unbalanced, balanced only across days, a negative line, a foreign
\* account, and nothing at all.
OneLegged == [memo |-> "sale", lines |-> <<Dr("cash", 1, 1)>>]
Straddled == [memo |-> "sale", lines |-> <<Dr("cash", 1, 1), Cr("sales", 2, 1)>>]
Negative  == [memo |-> "sale",
              lines |-> <<Dr("cash", 1, 1), Cr("sales", 1, 1), Dr("cash", 1, -1)>>]
Foreign   == [memo |-> "sale", lines |-> <<Dr("cash", 1, 1), Cr("foreign", 1, 1)>>]
Empty     == [memo |-> "sale", lines |-> <<>>]

MCContent == {Sale, Permuted, Corrected, OneLegged, Straddled, Negative, Foreign, Empty}

=============================================================================
