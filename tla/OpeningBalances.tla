--------------------------- MODULE OpeningBalances ---------------------------
(***************************************************************************)
(* Opening balances and prior-period adjustments (journal-service/         *)
(* specialized.ts and the journal page's operations that call it) over the *)
(* chart of accounts, with the books start date that follows an opening    *)
(* balance.  Each await of a request is a step of its own; a crash may end *)
(* a request after any of them.                                            *)
(***************************************************************************)
EXTENDS ChartOfAccounts, JournalLines

CONSTANTS
  MaxBatches,   \* bound: how many opening balances and adjustments are posted
  Entry,        \* the line lists that the forms submit, as account ids and amounts
  StartDate,    \* books start dates
  NoDate        \* a null books start date

ASSUME EntryAssumption ==
  /\ MaxBatches \in Nat
  /\ Entry \subseteq Seq([account : 1 .. MaxAccounts, debit : Int, credit : Int])
  /\ NoDate \notin StartDate

VARIABLES
  batches,      \* the special journals posted: kind, lines, start date, live or not
  booksStart    \* org_settings.books_start_date

vars == <<chartVars, batches, booksStart>>

\* Every entry is as of one day; the GL date of all its lines is that day.
Dated(entry) ==
  [k \in DOMAIN entry |->
     [account |-> entry[k].account, date |-> 1,
      debit |-> entry[k].debit, credit |-> entry[k].credit]]

\* normalizeLinesWithDate throws on any other line.
Normalized(entry) == \A k \in DOMAIN entry : OneSided(entry[k])

AccountsOf(entry) == {entry[k].account : k \in DOMAIN entry}

ProfitOrLoss(i) == Chart[i].type = "expense"

\* Where the plug goes: the first system account, or the second.
PlugOf(kind) == IF kind = "opening" THEN 1 ELSE 2

Difference(lines) ==
  CalculateJournalTotals(lines).totalDebit - CalculateJournalTotals(lines).totalCredit

\* Fault variant of WithPlug: the plug is on the side that is larger already.
PlugOnSameSide(lines, plug) ==
  LET diff == Difference(lines)
  IN  IF diff = 0 THEN lines
      ELSE Append(lines, [account |-> plug, date |-> 1,
                          debit  |-> IF diff > 0 THEN diff ELSE 0,
                          credit |-> IF diff < 0 THEN -diff ELSE 0])

\* computePlugLine.
WithPlug(lines, plug) ==
  LET diff == Difference(lines)
  IN  IF diff = 0 THEN lines
      ELSE Append(lines, [account |-> plug, date |-> 1,
                          debit  |-> IF diff < 0 THEN -diff ELSE 0,
                          credit |-> IF diff > 0 THEN diff ELSE 0])
-----------------------------------------------------------------------------
(* createOpeningBalanceForCurrentTeam, createPriorPeriodAdjustmentForCurrentTeam *)

\* requireActiveCoa.  The form offers the accounts that are there.
Submit(r, kind, entry, start) ==
  /\ Waiting(r)
  /\ \E i \in Present : Chart[i].isActive
  /\ AccountsOf(entry) \subseteq Present
  /\ entry # <<>> /\ Normalized(entry)
  /\ Begin(r, EnsureSystemAccounts(
                [step |-> "validate", kind |-> kind, entry |-> entry, start |-> start,
                 pnl |-> FALSE, ids |-> <<>>]))
  /\ UNCHANGED <<accounts, drafted, posted, settled, batches, booksStart>>

OpeningAllowed(entry) ==
  /\ \A i \in AccountsOf(entry) :
       Chart[i].name \notin {"Opening_Balance_Equity", "Prior_Period_Adjustments"}
  /\ (\E i \in AccountsOf(entry) : ProfitOrLoss(i)) =>
       \E i \in AccountsOf(entry) : IsRetainedEarnings(Chart[i])

AdjustmentAllowed(entry) ==
  \A i \in AccountsOf(entry) :
    ~ProfitOrLoss(i) /\ Chart[i].name # "Prior_Period_Adjustments"

Validate(r) ==
  /\ requests[r].step = "validate"
  /\ LET entry == requests[r].entry
         kind  == requests[r].kind
     IN  IF /\ AccountsOf(entry) \subseteq Present
            /\ kind = "opening" => OpeningAllowed(entry)
            /\ kind = "prior"   => AdjustmentAllowed(entry)
         THEN Continue(r, EnsureSystemAccounts(
                [requests[r] EXCEPT !.step = "post",
                                    !.pnl = \E i \in AccountsOf(entry) : ProfitOrLoss(i)]))
         ELSE End(r)
  /\ UNCHANGED <<accounts, drafted, posted, started, settled, batches, booksStart>>

LinesToPost(r) ==
  WithPlug(Dated(requests[r].entry), requests[r].ids[PlugOf(requests[r].kind)])

\* The source reference holds the as-of day, the start date and whether there
\* is profit or loss; a voided batch has released it.
SourceOf(r) == <<requests[r].kind, requests[r].start, requests[r].pnl>>

Duplicate(r) ==
  \E b \in DOMAIN batches : batches[b].live /\ batches[b].source = SourceOf(r)

PostBatch(r) ==
  /\ requests[r].step = "post"
  /\ IF /\ CanPostJournal(LinesToPost(r))
        /\ AccountsOf(LinesToPost(r)) \subseteq Present
        /\ ~Duplicate(r)
     THEN /\ Len(batches) < MaxBatches
          /\ batches' = Append(batches, [source |-> SourceOf(r), lines |-> LinesToPost(r),
                                         live |-> TRUE])
          /\ posted' = posted \cup AccountsOf(LinesToPost(r))
          /\ Continue(r, IF requests[r].kind = "opening" THEN [requests[r] EXCEPT !.step = "settings"] ELSE Idle)
     ELSE End(r) /\ UNCHANGED <<batches, posted>>
  /\ UNCHANGED <<accounts, drafted, started, settled, booksStart>>

\* setBooksStartDateForTeam.
SetBooksStart(r) ==
  /\ requests[r].step = "settings"
  /\ booksStart' = requests[r].start
  /\ End(r)
  /\ UNCHANGED <<accounts, drafted, posted, started, settled, batches>>

\* The process dies: what it was doing is not finished.
Crash(r) ==
  /\ requests[r].step # "idle"
  /\ End(r)
  /\ UNCHANGED <<accounts, drafted, posted, started, settled, batches, booksStart>>

\* The journal page voids a posted batch; its lines stay, and so does the date.
VoidBatch(b) ==
  /\ batches[b].live
  /\ batches' = [batches EXCEPT ![b].live = FALSE]
  /\ UNCHANGED <<chartVars, booksStart>>
-----------------------------------------------------------------------------
Init == ChartInit /\ batches = <<>> /\ booksStart = NoDate

SpecialStep(r) ==
  \/ \E entry \in Entry, start \in StartDate \cup {NoDate} : Submit(r, "opening", entry, start)
  \/ \E entry \in Entry : Submit(r, "prior", entry, NoDate)
  \/ Validate(r)
  \/ PostBatch(r)
  \/ SetBooksStart(r)
  \/ Crash(r)

Next ==
  \/ ChartNext /\ UNCHANGED <<batches, booksStart>>
  \/ \E r \in Request : SpecialStep(r)
  \/ \E b \in DOMAIN batches : VoidBatch(b)

Spec == Init /\ [][Next]_vars
-----------------------------------------------------------------------------
(* Properties *)

\* Whatever lines an opening balance or an adjustment was submitted with, the
\* plug makes them a journal that can be posted: lines of one side only, lines
\* that cancel out and anything between.
PlugBalances ==
  \A r \in Request :
    requests[r].step = "post" => CanPostJournal(LinesToPost(r))
==============================================================================
