--------------------------- MODULE StatementReading ---------------------------
(***************************************************************************)
(* What is read from one statement: the data side of StatementExtraction.  *)
(* The model provider answers in one piece, or in chunks when it timed out *)
(* or its answer had the wrong shape (extractors/ai-extractor.ts); the     *)
(* answer is normalized, reconciled with the printed balances, perhaps     *)
(* corrected by a second answer, and the value changes become lines        *)
(* (statement-import-service/extract.ts and extraction-helpers.ts).  A     *)
(* spreadsheet is read without a model (spreadsheet-parser.ts).            *)
(*                                                                         *)
(* The model is the environment: it may answer anything of the right       *)
(* shape.  Amounts are cents, days are numbers, and a description is a     *)
(* word, which is all that the sign rules and the duplicates look at.      *)
(***************************************************************************)
EXTENDS Integers, Sequences, FiniteSets, Functions, Selections

CONSTANTS
  Null,           \* a value that was not printed or could not be parsed
  Empty,          \* an empty spreadsheet cell
  Metadata,       \* the metadata the model may answer with, days and amounts parsed
  AnswerLine,     \* the lines it may answer with: day, text, amount
  MaxLines,       \* bound: lines in one answer about the whole statement
  MaxChunkLines,  \* bound: lines in the answer about one chunk
  MaxChunks,      \* bound: chunks of a long statement
  Adjustment,     \* value changes: text, cents
  PaymentLike,    \* texts with a payment or refund keyword
  InterestLike,   \* texts of interest charges
  Sheet,          \* spreadsheets: their columns, and rows of cells
  Tolerance,      \* cents a reconciled statement may be off (1)
  SmallExclusion  \* cents a correction of medium confidence may drop (5000)

\* What an answer holds when its dates and amounts are parsed.
StatementMetadata ==
  [type : {"bank_statement", "credit_card_statement"}, from : Int \cup {Null}, to : Int \cup {Null},
   beginning : Int \cup {Null}, ending : Int \cup {Null}, adjustments : Seq(Adjustment)]

ASSUME ReadingAssumption ==
  /\ \A a \in Adjustment : a.cents \in Int
  /\ {Tolerance, SmallExclusion, MaxLines, MaxChunkLines, MaxChunks} \subseteq Nat
  /\ PaymentLike \cap InterestLike = {}
  /\ Null \notin Int
  /\ Metadata \subseteq StatementMetadata
  /\ \A line \in AnswerLine : line.amount # Null =>
       line.amount \in [hundredths : Int, decimals : BOOLEAN]

VARIABLES
  stage,      \* what happens next
  chunks,     \* chunks that the model has answered
  chosen,     \* the statement type chosen at the upload, or Null
  meta,       \* the statement's metadata
  answered,   \* the lines the model has answered with
  lines,      \* the lines kept
  recon,      \* the reconciliation that is stored with them
  issues,     \* extraction warnings
  resolution  \* the second answer: not asked, kept out, or applied, with what

readingVars == <<stage, chunks, chosen, meta, answered, lines, recon, issues, resolution>>

Abs(n) == IF n < 0 THEN -n ELSE n

Amounts(ls) == [k \in DOMAIN ls |-> ls[k].cents]
SumCents(ls) == SumFunction(Amounts(ls))
SumAbs(ls) == SumFunction([k \in DOMAIN ls |-> Abs(ls[k].cents)])

NotReconciled == [status |-> "none", diff |-> Null]

NoSecondAnswer == [outcome |-> "none", exclude |-> {}, add |-> <<>>]
-----------------------------------------------------------------------------
(* Pure steps *)

\* reconcileStatementActivity.
Reconciled(m, ls) ==
  IF Null \in {m.beginning, m.ending}
  THEN [status |-> "warning", diff |-> Null]
  ELSE LET diff == m.ending - m.beginning - (SumCents(ls) + SumCents(m.adjustments))
       IN  [status |-> IF Abs(diff) <= Tolerance THEN "ok" ELSE "warning", diff |-> diff]

\* normalizeAmountToCents.  An amount is Null or the hundredths of the number that was
\* answered, and whether it has decimals: without them it is taken as cents.
AmountToCents(amount) ==
  IF amount.decimals THEN amount.hundredths ELSE amount.hundredths \div 100

\* What normalizeDateToYmd or normalizeAmountToCents cannot read is skipped.
Readable(line) == line.day # Null /\ line.amount # Null

AsLine(line) == [day |-> line.day, text |-> line.text, cents |-> AmountToCents(line.amount)]

\* normalizeTransactionAmountsForStatementType.
Signed(type, line) ==
  [line EXCEPT !.cents =
     CASE line.text \in InterestLike -> -Abs(@)
       [] line.text \in PaymentLike /\ type = "credit_card_statement" -> Abs(@)
       [] OTHER -> @]

\* The first of every group of equal elements stays, in order.
Distinct(ls) ==
  AtPlaces(ls, {k \in DOMAIN ls : \A j \in DOMAIN ls : ls[j] = ls[k] => k <= j})

ReadableOf(ls) == AtPlaces(ls, {k \in DOMAIN ls : Readable(ls[k])})

\* Fault variant of Normalized: the repeated lines of a whole answer go as well.
NormalizedOnce(type, ls) ==
  LET kept == Distinct(ReadableOf(ls))
  IN  [k \in DOMAIN kept |-> Signed(type, AsLine(kept[k]))]

Normalized(type, ls) ==
  LET kept == ReadableOf(ls)
  IN  [k \in DOMAIN kept |-> Signed(type, AsLine(kept[k]))]

\* Without both its days, a statement's lines cannot be held against its period.
PeriodUnread(m) == IF Null \in {m.from, m.to} THEN {"period"} ELSE {}

Without(ls, exclude) == AtPlaces(ls, (DOMAIN ls) \ exclude)

PeriodIssues(m, ls) ==
  IF Null \notin {m.from, m.to} /\ \E k \in DOMAIN ls : ls[k].day \notin m.from .. m.to
  THEN {"out_of_period"} ELSE {}

\* The day that value changes are booked on.
ValueDay(m, ls) ==
  IF m.to # Null THEN m.to
  ELSE IF ls = <<>> THEN Null
  ELSE CHOOSE d \in {ls[k].day : k \in DOMAIN ls} : \A k \in DOMAIN ls : ls[k].day <= d

\* The value changes that no line has already, as lines of that day.
ValueLines(m, ls) ==
  LET changes == Distinct(m.adjustments)
      new == AtPlaces(changes, {i \in DOMAIN changes :
               /\ changes[i].cents # 0
               /\ \A k \in DOMAIN ls : <<ls[k].text, ls[k].cents>> # <<changes[i].text, changes[i].cents>>})
  IN  [k \in DOMAIN new |-> [day |-> ValueDay(m, ls), text |-> new[k].text,
                             cents |-> new[k].cents]]
-----------------------------------------------------------------------------
(* The model's answers *)

ReadingInit ==
  /\ stage = "ask" /\ chunks = 0
  /\ chosen \in {Null, "bank_statement", "credit_card_statement"}
  /\ meta = Null
  /\ answered = <<>> /\ lines = <<>>
  /\ recon = NotReconciled /\ issues = {} /\ resolution = NoSecondAnswer

AnswerWhole(m, ls) ==
  /\ stage = "ask"
  /\ meta' = m /\ answered' = ls
  /\ stage' = "normalize"
  /\ UNCHANGED <<chunks, chosen, lines, recon, issues, resolution>>

\* A timeout or an answer of the wrong shape; any other error fails the reading.
FallBack ==
  /\ stage = "ask"
  /\ stage' = "metadata"
  /\ UNCHANGED <<chunks, chosen, meta, answered, lines, recon, issues, resolution>>

NoMetadata ==
  [type |-> IF chosen = Null THEN "bank_statement" ELSE chosen, from |-> Null, to |-> Null,
   beginning |-> Null, ending |-> Null, adjustments |-> <<>>]

AnswerMetadata(m) ==
  /\ stage = "metadata"
  /\ meta' = m
  /\ stage' = "chunk"
  /\ UNCHANGED <<chunks, chosen, answered, lines, recon, issues, resolution>>

\* The lines of the next chunk; ls is empty when the chunk is skipped, which
\* leaves no trace.  After the last, lines without a date and repeated lines go.
AnswerChunk(ls) ==
  /\ stage = "chunk"
  /\ LET all  == answered \o ls
         last == chunks + 1 = MaxChunks
     IN  /\ answered' = IF last THEN Distinct(AtPlaces(all, {k \in DOMAIN all : all[k].day # Null})) ELSE all
         /\ stage' = IF last THEN "normalize" ELSE "chunk"
  /\ chunks' = chunks + 1
  /\ UNCHANGED <<chosen, meta, lines, recon, issues, resolution>>

FailAnswer ==
  /\ stage \in {"ask", "metadata", "chunk"}
  /\ stage' = "failed"
  /\ UNCHANGED <<chunks, chosen, meta, answered, lines, recon, issues, resolution>>
-----------------------------------------------------------------------------
(* What becomes of them *)

\* The type chosen at the upload decides the signs.
TypeRead == IF chosen = Null THEN meta.type ELSE chosen

Normalize ==
  /\ stage = "normalize"
  /\ lines' = Normalized(TypeRead, answered)
  /\ recon' = Reconciled(meta, lines')
  /\ issues' = PeriodUnread(meta) \cup
               (IF \E k \in DOMAIN answered : ~Readable(answered[k]) THEN {"skipped"} ELSE {})
  /\ stage' = "resolve"
  /\ UNCHANGED <<chunks, chosen, meta, answered, resolution>>

\* Fault variant of ReconAfter: the status of the first reconciliation stays.
ReconBefore(m, ls) == recon

\* What is stored when the lines or the value changes have been corrected.
ReconAfter(m, ls) == Reconciled(m, ls)

Unexplained == recon.status = "warning" /\ recon.diff # Null

\* Nothing to ask about, or the second question fails.
KeepReading ==
  /\ stage = "resolve"
  /\ stage' = "value"
  /\ UNCHANGED <<chunks, chosen, meta, answered, lines, recon, issues, resolution>>

WithAdjustments(m, add) == [m EXCEPT !.adjustments = Distinct(@ \o add)]

Acceptable(exclude, add, confidence) ==
  /\ Reconciled(WithAdjustments(meta, add), Without(lines, exclude)).status = "ok"
  /\ \/ confidence = "high"
     \/ /\ confidence = "medium"
        /\ SumAbs(add) = 0
        /\ SumAbs([k \in exclude |-> lines[k]]) <= SmallExclusion

\* The second answer names lines that are none and value changes it missed.
Resolve(exclude, add, confidence) ==
  /\ stage = "resolve"
  /\ Unexplained
  /\ IF Acceptable(exclude, add, confidence)
     THEN /\ meta' = WithAdjustments(meta, add)
          /\ lines' = Without(lines, exclude)
          /\ recon' = ReconAfter(meta', lines')
          /\ resolution' = [outcome |-> "applied", exclude |-> exclude, add |-> add]
     ELSE /\ resolution' = [NoSecondAnswer EXCEPT !.outcome = "refused"]
          /\ UNCHANGED <<meta, lines, recon>>
  /\ stage' = "value"
  /\ UNCHANGED <<chunks, chosen, answered, issues>>

Valued ==
  /\ recon.status = "ok"
  /\ meta.type = "bank_statement"
  /\ meta.adjustments # <<>>

\* applyValuationAdjustments.
BookValueChanges ==
  /\ stage = "value"
  /\ LET booked == [meta EXCEPT !.adjustments = <<>>]
         all    == lines \o ValueLines(meta, lines)
     IN  IF /\ Valued
            /\ ValueDay(meta, lines) # Null
            /\ Reconciled(booked, all).status = "ok"
         THEN /\ meta' = booked /\ lines' = all
              /\ recon' = ReconAfter(booked, all)
         ELSE UNCHANGED <<meta, lines, recon>>
  /\ issues' = issues \cup PeriodIssues(meta', lines')
                 \cup (IF Valued /\ ValueDay(meta, lines) = Null THEN {"period"} ELSE {})
  /\ stage' = "stored"
  /\ UNCHANGED <<chunks, chosen, answered, resolution>>
-----------------------------------------------------------------------------
(* Spreadsheets *)

\* toCents of a cell: an empty one is zero, one that is no number is nothing.
CellCents(row, column) ==
  IF column \notin DOMAIN row.cells THEN Null
  ELSE IF row.cells[column] = Empty THEN 0 ELSE row.cells[column]

\* computeAmountCents: the amount column wins, then the debits, then the credits.
RowCents(row) ==
  LET amount == CellCents(row, "amount")
      debit  == CellCents(row, "debit")
      credit == CellCents(row, "credit")
  IN  IF amount # Null THEN amount
      ELSE IF debit # Null /\ (debit # 0 \/ credit \in {Null, 0}) THEN -Abs(debit)
      ELSE IF credit # Null THEN Abs(credit)
      ELSE Null

SheetLines(sheet) ==
  LET ls   == [k \in DOMAIN sheet |->
                 [day |-> sheet[k].day, text |-> sheet[k].text, cents |-> RowCents(sheet[k])]]
      kept == AtPlaces(ls, {k \in DOMAIN ls : ls[k].day # Null /\ ls[k].cents # Null})
  IN  [k \in DOMAIN kept |-> Signed(chosen, kept[k])]

\* parseSpreadsheetStatement throws when no row is left.
ReadSheet(sheet) ==
  /\ stage = "ask" /\ chosen # Null
  /\ lines' = SheetLines(sheet)
  /\ answered' = lines'
  /\ stage' = IF lines' = <<>> THEN "failed" ELSE "stored"
  /\ UNCHANGED <<chunks, chosen, meta, recon, issues, resolution>>
-----------------------------------------------------------------------------
Answers(max) == UNION {[1 .. n -> AnswerLine] : n \in 0 .. max}

ConfidenceLevel == {"high", "medium", "low"}

ReadingNext ==
  \/ \E m \in Metadata, ls \in Answers(MaxLines) : AnswerWhole(m, ls)
  \/ FallBack
  \/ \E m \in Metadata \cup {NoMetadata} : AnswerMetadata(m)
  \/ \E ls \in Answers(MaxChunkLines) : AnswerChunk(ls)
  \/ FailAnswer
  \/ Normalize
  \/ KeepReading
  \/ \E exclude \in SUBSET DOMAIN lines, a \in Adjustment \cup {Null}, confidence \in ConfidenceLevel :
       Resolve(exclude, IF a = Null THEN <<>> ELSE <<a>>, confidence)
  \/ BookValueChanges
  \/ \E sheet \in Sheet : ReadSheet(sheet)

ReadingSpec == ReadingInit /\ [][ReadingNext]_readingVars
-----------------------------------------------------------------------------
(* Properties *)

\* The reconciliation that the review page shows is that of the lines and value
\* changes that were stored, not of an earlier version of the reading: correcting
\* the lines and booking value changes both come after the first reconciliation.
ReconciliationCurrent ==
  stage = "stored" /\ recon # NotReconciled =>
    LET open == IF Null \in {meta.beginning, meta.ending} THEN Null
                ELSE meta.ending - meta.beginning - SumCents(lines) - SumCents(meta.adjustments)
    IN  /\ recon.diff = open
        /\ recon.status = "ok" <=> open # Null /\ Abs(open) <= Tolerance

\* Lines change only for a reason that the stored reading tells: without skipped
\* lines, a correction or value changes, exactly the lines the model answered with
\* are stored, in order and to the cent but for their signs, and a statement
\* whose balances were not printed or did not agree gets no line the model has
\* not called a transaction.
LinesAccountedFor ==
  stage = "stored" /\ recon # NotReconciled /\ resolution.outcome # "applied" =>
    LET readable == ReadableOf(answered)
    IN  /\ "skipped" \notin issues => readable = answered
        /\ Len(lines) >= Len(readable)
        /\ \A k \in DOMAIN readable :
             /\ lines[k].day = readable[k].day /\ lines[k].text = readable[k].text
             /\ Abs(lines[k].cents) = Abs(AmountToCents(readable[k].amount))
        /\ recon.status # "ok" => Len(lines) = Len(readable)
===============================================================================
