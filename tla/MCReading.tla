------------------------------- MODULE MCReading -------------------------------
(***************************************************************************)
(* Statements whose balance rises by two cents or was not printed, of a    *)
(* bank or a card, with and without a value change and an end date, and    *)
(* answers of up to two lines, some unreadable.                            *)
(***************************************************************************)
EXTENDS StatementReading

Dollars(n)  == [hundredths |-> n, decimals |-> TRUE]
\* Two cents, written as a number without decimals.
TwoAsWhole == [hundredths |-> 200, decimals |-> FALSE]

MCLine ==
  {[day |-> d, text |-> t, amount |-> a] :
     d \in {1, 9}, t \in {"payment", "gain"}, a \in {Dollars(-4), TwoAsWhole}}
  \cup {[day |-> Null, text |-> "payment", amount |-> TwoAsWhole],
        [day |-> 1, text |-> "interest charge", amount |-> Dollars(4)],
        [day |-> 1, text |-> "payment", amount |-> Null]}

MCAdjustment == {[text |-> "gain", cents |-> c] : c \in {2, 4}}

MCMetadata ==
  {[type |-> t, from |-> 1, to |-> e, beginning |-> b, ending |-> 2, adjustments |-> a] :
     t \in {"bank_statement", "credit_card_statement"}, e \in {5, Null}, b \in {0, Null},
     a \in {<<>>} \cup {<<x>> : x \in MCAdjustment}}

MCSheet ==
  {<<[day |-> 1, text |-> "payment", cells |-> [amount |-> -2]],
     [day |-> 1, text |-> "gain", cells |-> [amount |-> Null]]>>,
   <<[day |-> 2, text |-> "gain", cells |-> [debit |-> 3, credit |-> Empty]],
     [day |-> 2, text |-> "gain", cells |-> [debit |-> Empty, credit |-> 4]]>>,
   <<[day |-> Null, text |-> "gain", cells |-> [credit |-> 4]]>>}
================================================================================
