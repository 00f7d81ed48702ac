------------------------- MODULE StatementExtraction -------------------------
(***************************************************************************)
(* How a statement file is read: lib/imports/statement-import/             *)
(* statement-import-service, step by step.                                 *)
(*                                                                         *)
(* StatementPosting's Extract is one action.  Here every await of it is a  *)
(* step: the status is read and then written, the model provider is asked, *)
(* rows are inserted, categories are suggested and written one by one, and *)
(* meanwhile other tabs start readings of the same file (each open list    *)
(* page does, for a file it sees as uploaded), the user reviews and posts, *)
(* deletes the file, or the process stops.                                 *)
(***************************************************************************)
EXTENDS StatementPosting, StatementClassification

CONSTANTS
  Crashes,      \* whether the process may stop
  Limited,      \* whether the extraction route's rate limiter may refuse
  Clues         \* what the text of each file may give away about it

ASSUME ExtractionAssumption ==
  /\ Crashes \in BOOLEAN /\ Limited \in BOOLEAN
  /\ \A s \in Statement : \A clues \in Clues[s] : clues \in ClueType(OrgAccount)

VARIABLE reading   \* per reading: its file, which parser, where it is, what is left to categorize

extractionVars == <<rows, answers, imports, txns, reading>>

NotStarted == [pc |-> "idle", file |-> NoAccount, parser |-> "model", left |-> {}]

Over == {"idle", "done", "failed", "lost"}

At(r, pc) == reading[r].pc = pc

Goto(r, pc) == reading' = [reading EXCEPT ![r].pc = pc]

\* An UPDATE of the file's row, which finds none when the file was deleted.
Record(s, status) == SetStatus({s} \cap Present, status)
-----------------------------------------------------------------------------
(* Steps of a reading, one per await *)

\* Fault variant of Startable: whatever is not being read may be read again.
StartableAgain(s) == imports[s].status \in {"uploaded", "extracted", "failed"}

Startable(s) == imports[s].status = "uploaded"

\* extractStatement looks at the status ...
StartReading(r, s) ==
  /\ At(r, "idle") /\ Startable(s)
  /\ reading' = [reading EXCEPT ![r] = [NotStarted EXCEPT !.pc = "claim", !.file = s]]
  /\ UNCHANGED <<rows, answers, imports, txns>>

\* ... and then writes it.
Claim(r) ==
  /\ At(r, "claim")
  /\ Record(reading[r].file, "extracting")
  /\ Goto(r, "ask")
  /\ UNCHANGED <<rows, answers, txns>>

\* The upload of a spreadsheet goes on to parse it, with no status of its own.
UploadSpreadsheet(r, s) ==
  /\ At(r, "idle")
  /\ Upload(s)
  /\ reading' = [reading EXCEPT ![r] = [NotStarted EXCEPT !.pc = "check", !.file = s,
                                                          !.parser = "spreadsheet"]]

CheckSpreadsheet(r) ==
  /\ At(r, "check")
  /\ Goto(r, IF imports[reading[r].file].status = "uploaded" THEN "ask" ELSE "failing")
  /\ UNCHANGED <<rows, answers, imports, txns>>

\* The statement accounts of the type that the classification expects.
Candidates(s, clues) == Linkable[s] \cap (IF IsCard(clues) THEN Liability ELSE CashAccount)

\* A file given to Kevin is classified and linked first; if he was asked to do something
\* with it and needs no confirmation, the same request goes on to read it.  The type it
\* is uploaded as is the one that is detected.
KevinUpload(r, s) ==
  /\ At(r, "idle") /\ imports[s].status = "absent"
  /\ \E clues \in Clues[s] :
       LET S == Candidates(s, clues) IN
       /\ IsCard(clues) <=> s \in CardStatement
       /\ \E a \in IF Matches(clues, S) = {} THEN {NoAccount} ELSE Matches(clues, S) :
            imports' = [imports EXCEPT ![s] = [status |-> "uploaded", linkedAccountId |-> a]]
       /\ \/ UNCHANGED reading
          \/ /\ ~RequiresConfirmation(clues, S)
             /\ \E parser \in {"model", "spreadsheet"} :
                  reading' = [reading EXCEPT ![r] =
                    [NotStarted EXCEPT !.file = s, !.parser = parser,
                       !.pc = IF parser = "model" THEN "look" ELSE "check"]]
  /\ UNCHANGED <<rows, answers, txns>>

\* By now the list page may have started a reading of the file, or the user deleted it.
KevinReads(r) ==
  /\ At(r, "look")
  /\ Goto(r, IF Startable(reading[r].file) THEN "claim" ELSE "failed")
  /\ UNCHANGED <<rows, answers, imports, txns>>

\* The model provider answers with the lines of the file, or the text is refused.
Answered(r) ==
  /\ At(r, "ask")
  /\ Goto(r, "insert") \/ Goto(r, "failing")
  /\ UNCHANGED <<rows, answers, imports, txns>>

Insertable(s) == s \in Present

InsertTransactions(r) ==
  /\ At(r, "insert")
  /\ IF Insertable(reading[r].file)
       THEN txns' = Inserted(reading[r].file, r) /\ Goto(r, "record")
       ELSE UNCHANGED txns /\ Goto(r, "failing")
  /\ UNCHANGED <<rows, answers, imports>>

\* The metadata of the file, with which a spreadsheet is extracted.
RecordMetadata(r) ==
  /\ At(r, "record")
  /\ \/ /\ IF reading[r].parser = "spreadsheet" THEN Record(reading[r].file, "extracted")
                                                ELSE UNCHANGED imports
        /\ Goto(r, "categorize")
     \/ UNCHANGED imports /\ Goto(r, "failing")
  /\ UNCHANGED <<rows, answers, txns>>

\* What nobody has categorized, posted or excluded so far.
LoadCandidates(r) ==
  /\ At(r, "categorize")
  /\ reading' = [reading EXCEPT ![r].pc = "suggest",
                   ![r].left = {t \in ActiveUnposted(TxnsOf({reading[r].file})) :
                                  txns[t].confirmedAccountId = NoAccount}]
  /\ UNCHANGED <<rows, answers, imports, txns>>

\* A saved mapping or a suggestion is written, whatever has happened to the
\* transaction since; the model may also have found no account.
WriteSuggestion(r, t) ==
  /\ At(r, "suggest") /\ t \in reading[r].left
  /\ IF t \in DOMAIN txns
       THEN \E a \in Category \cup {NoAccount} : SetTxn(t, "confirmedAccountId", a)
       ELSE UNCHANGED txns
  /\ reading' = [reading EXCEPT ![r].left = @ \ {t}]
  /\ UNCHANGED <<rows, answers, imports>>

\* All written, or categorization failed, which does not fail the reading.
FinishReading(r) ==
  /\ At(r, "suggest")
  /\ IF reading[r].parser = "model" THEN Record(reading[r].file, "extracted")
                                    ELSE UNCHANGED imports
  /\ reading' = [reading EXCEPT ![r].pc = "done", ![r].left = {}]
  /\ UNCHANGED <<rows, answers, txns>>

\* Fault variant of FailureStatus: the handler only rethrows.
NoFailureStatus(s) == UNCHANGED imports

FailureStatus(s) == Record(s, "failed")

\* The catch of extractStatement; a spreadsheet's error is left to the caller.
FailReading(r) ==
  /\ At(r, "failing")
  /\ IF reading[r].parser = "model" THEN FailureStatus(reading[r].file) ELSE UNCHANGED imports
  /\ Goto(r, "failed")
  /\ UNCHANGED <<rows, answers, txns>>

\* The route answers 429 and marks the file, whatever its status.
RefuseExtraction(s) ==
  /\ Limited /\ s \in Present
  /\ SetStatus({s}, "failed")
  /\ UNCHANGED <<rows, answers, txns, reading>>

Crash ==
  /\ Crashes
  /\ reading' = [r \in Run |-> IF reading[r].pc \in Over THEN reading[r]
                               ELSE [reading[r] EXCEPT !.pc = "lost", !.left = {}]]
  /\ UNCHANGED <<rows, answers, imports, txns>>
-----------------------------------------------------------------------------
(* The specification *)

ExtractionInit == PostingInit /\ reading = [r \in Run |-> NotStarted]

ReadingStep(r) ==
  \/ Claim(r) \/ KevinReads(r) \/ CheckSpreadsheet(r) \/ Answered(r) \/ InsertTransactions(r)
  \/ RecordMetadata(r) \/ LoadCandidates(r) \/ FinishReading(r) \/ FailReading(r)
  \/ \E t \in reading[r].left : WriteSuggestion(r, t)

\* What the users do meanwhile on the pages.
UserStep ==
  /\ \/ \E s \in Statement : Upload(s)
     \/ \E s \in Present : DeleteImport(s)
     \/ \E t \in DOMAIN txns : ToggleExcluded(t) \/ \E a \in Category : Categorize(t, a)
     \/ \E g \in ImportBatch : PostStatement(g) \/ UnpostStatement(g)
  /\ UNCHANGED reading

ExtractionNext ==
  \/ \E r \in Run, s \in Statement : StartReading(r, s) \/ UploadSpreadsheet(r, s) \/ KevinUpload(r, s)
  \/ \E r \in Run : ReadingStep(r)
  \/ \E s \in Statement : RefuseExtraction(s)
  \/ UserStep
  \/ Crash

ExtractionSpec == ExtractionInit /\ [][ExtractionNext]_extractionVars

\* A request that is being handled goes on: every await returns, the call of the
\* model provider included, which answers or times out.
FairExtractionSpec == ExtractionSpec /\ \A r \in Run : WF_extractionVars(ReadingStep(r))
-----------------------------------------------------------------------------
(* Properties *)

\* A file whose lines the model has brought into the table is never read from the
\* start again, whether the reading succeeded, failed or was lost in a crash, and
\* whatever was posted and unposted since: only overlapping requests both read it.
RetryRefused ==
  [][\A r \in Run :
       ~At(r, "claim") /\ reading'[r].pc = "claim" =>
         \A t \in TxnsOf({reading'[r].file}) : reading[t[3]].parser # "model"]_extractionVars

\* A file does not stay in the status that forbids deleting it, unless a crash cut its
\* reading off: every other reading ends, however it ends, and ends the status.
ExtractionSettles ==
  \A s \in Statement :
    imports[s].status = "extracting" ~>
      \/ imports[s].status # "extracting"
      \/ \E r \in Run : At(r, "lost") /\ reading[r].file = s

\* docs/STATEMENT_PARSERS.md:22: "Idempotency matters: retrying an import should not
\* duplicate posted journals", ARCHITECTURE.md:64 asks the same of the transactions.
\* A line of a file should be on the books once.
LineOnBooksOnce ==
  \A t, u \in DOMAIN txns :
    /\ t[1] = u[1] /\ t[2] = u[2]
    /\ \E b \in PostingsOf(t) : OnBooks(b)
    /\ \E b \in PostingsOf(u) : OnBooks(b)
    => t = u
=============================================================================
