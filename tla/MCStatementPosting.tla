-------------------------- MODULE MCStatementPosting --------------------------
(* A small instance of StatementPosting: an import batch of two files of a credit
   card, with a payment that the bank's statement brings too and a charge. *)
EXTENDS StatementPosting

MCAccountId == {"bank", "card", "rent"}
MCCash      == {"bank"}
MCLiability == {"card"}
MCSourceKey == (SUBSET TxnId) \ {{}}

Entry(d, n, payment) == [date |-> d, amountCents |-> n, payment |-> payment]
Part(a, n) == [account |-> a, amountCents |-> n]

\* A deposit in the first file, which the user may describe as a payment, and in the
\* second a charge whose description reads like one.
OneBatch   == [s \in Statement |-> "batch"]
TwoPrinted == "one" :> <<Entry(1, 2, FALSE)>> @@ "two" :> <<Entry(2, -1, TRUE)>>
CardOnly   == [s \in Statement |-> {"card"}]
CashSplit  == {<<Part("rent", 1), Part("bank", 1)>>}

Dr(a, d, n) == [account |-> a, date |-> d, debit |-> n, credit |-> 0]
Cr(a, d, n) == [account |-> a, date |-> d, debit |-> 0, credit |-> n]

\* What a posting is corrected to on the journal page.
Corrected  == [memo |-> "statement", lines |-> <<Dr("bank", 1, 1), Cr("card", 1, 1)>>]
MCContent  == {Corrected}
=============================================================================
