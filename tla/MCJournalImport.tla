--------------------------- MODULE MCJournalImport ---------------------------
(* A small instance of JournalImport: two requests over files of two groups,
   some of which cannot be imported to the end. *)
EXTENDS JournalImport

Dr(a, d, n) == [account |-> a, date |-> d, debit |-> n, credit |-> 0]
Cr(a, d, n) == [account |-> a, date |-> d, debit |-> 0, credit |-> n]

Rent  == [memo |-> "rent", lines |-> <<Dr("rent", 1, 2), Cr("cash", 1, 2)>>]
Sale  == [memo |-> "sale", lines |-> <<Dr("cash", 1, 1), Cr("rent", 1, 1)>>]
\* Two GL dates in one group.
Split == [memo |-> "sale", lines |-> <<Dr("cash", 1, 1), Cr("rent", 2, 1)>>]

\* An amount that rounds to no cents.
Dust  == [memo |-> "sale",
          lines |-> <<Dr("cash", 1, 1), Cr("rent", 1, 1), Dr("cash", 1, 0)>>]

MCAccountId == {"cash", "rent"}
MCContent   == {Rent, Sale, Split, Dust}

GroupOf(k, c) == [key |-> k, content |-> c]

MCFile == {<<GroupOf("rent", Rent), GroupOf("sale", Sale)>>,
           <<GroupOf("rent", Rent), GroupOf("sale", Split)>>,
           <<GroupOf("sale", Dust)>>}

\* The two requests are interchangeable.
MCSymmetry == Permutations(Job)
=============================================================================
