------------------------------- MODULE MCKevin -------------------------------
(* A small instance of Kevin: requests of one page, a user who corrects journals,
   and a statement of one line. *)
EXTENDS Kevin, TLC

MCAccountId == {"cash", "rent", "added"}
MCSourceKey == (SUBSET TxnId) \ {{}}

Dr(a, n) == [account |-> a, date |-> 1, debit |-> n, credit |-> 0]
Cr(a, n) == [account |-> a, date |-> 1, debit |-> 0, credit |-> n]

Rent  == [memo |-> "entry", lines |-> <<Dr("rent", 1), Cr("cash", 1)>>]
Added == [memo |-> "entry", lines |-> <<Dr("added", 1), Cr("cash", 1)>>]

\* What a user corrects a journal to, and what Kevin proposes.
MCContent  == {Added}
MCProposal == {Rent}

RequestSymmetry == Permutations(Request)

OneBatch == [s \in Statement |-> "batch"]
OneLine  == [s \in Statement |-> <<[date |-> 1, amountCents |-> -1, payment |-> FALSE]>>]
CashOnly == [s \in Statement |-> {"cash"}]
=============================================================================
