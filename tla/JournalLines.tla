---------------------------- MODULE JournalLines ----------------------------
(***************************************************************************)
(* The pure rules on the lines of a journal: the checks a line list passes *)
(* before it is stored (journals.ts, the journal form), the swap that      *)
(* builds a reversal, and the order-insensitive form that an adjustment    *)
(* key is computed from.  A line is a record with an account, a GL date    *)
(* (a day), and integer debit and credit cents.                            *)
(***************************************************************************)
EXTENDS Integers, Sequences, FiniteSets, Functions

Positive(n) == IF n > 0 THEN n ELSE 0

Debits(ls)  == [i \in DOMAIN ls |-> ls[i].debit]
Credits(ls) == [i \in DOMAIN ls |-> ls[i].credit]

\* Negative amounts do not count.
Total(amounts) == SumFunction([i \in DOMAIN amounts |-> Positive(amounts[i])])

CalculateJournalTotals(ls) ==
  [totalDebit |-> Total(Debits(ls)), totalCredit |-> Total(Credits(ls))]

OneSided(line) ==
  /\ line.debit >= 0 /\ line.credit >= 0
  /\ ~(line.debit > 0 /\ line.credit > 0)
  /\ ~(line.debit = 0 /\ line.credit = 0)

Balances(totals) ==
  /\ totals.totalDebit # 0 /\ totals.totalCredit # 0
  /\ totals.totalDebit = totals.totalCredit

CanPostJournal(ls) ==
  /\ ls # <<>>
  /\ \A i \in DOMAIN ls : OneSided(ls[i])
  /\ Balances(CalculateJournalTotals(ls))

GlDates(ls) == {ls[i].date : i \in DOMAIN ls}

OnDate(amounts, ls, d) == [i \in {j \in DOMAIN ls : ls[j].date = d} |-> amounts[i]]

\* Fault variant of BalancedOnEveryDate: the form compares only the grand totals.
BalancedOverall(ls) == Total(Debits(ls)) = Total(Credits(ls))

\* getBalanceMessage returns null.
BalancedOnEveryDate(ls) ==
  /\ \A d \in GlDates(ls) :
       Total(OnDate(Debits(ls), ls, d)) = Total(OnDate(Credits(ls), ls, d))
  /\ Total(Debits(ls)) = Total(Credits(ls))

\* Fault variant of BuildReversalLines: the lines are copied, not swapped.
CopiedLines(ls) == [i \in DOMAIN ls |-> ls[i]]

BuildReversalLines(ls) ==
  [i \in DOMAIN ls |->
     [account |-> ls[i].account, date  |-> ls[i].date,
      debit   |-> ls[i].credit,  credit |-> ls[i].debit]]

\* Sorting the lines before hashing keeps how often each line occurs and
\* forgets the order.
NormalizedLines(ls) ==
  [l \in Range(ls) |-> Cardinality({i \in DOMAIN ls : ls[i] = l})]

\* What the lines add to one account on one day, debits positive.
NetOf(ls, a, d) ==
  SumFunction([i \in {j \in DOMAIN ls : ls[j].account = a /\ ls[j].date = d} |->
                 ls[i].debit - ls[i].credit])
=============================================================================
