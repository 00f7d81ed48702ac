------------------------ MODULE MCStatementExtraction ------------------------
(* A small instance of StatementExtraction: one file of one line, two readings. *)
EXTENDS StatementExtraction

MCAccountId == {"bank", "rent"}
MCSourceKey == (SUBSET TxnId) \ {{}}

OneBatch == [s \in Statement |-> "batch"]
OneLine  == [s \in Statement |-> <<[date |-> 1, amountCents |-> -1, payment |-> FALSE]>>]
BankOnly == [s \in Statement |-> {"bank"}]

\* A bank statement that is certain, likely or neither.
MCClues == [s \in Statement |->
  {[credit |-> 0, bank |-> n, points |-> [a \in OrgAccount |-> 0]] : n \in {9, 5, 4}}]
=============================================================================
