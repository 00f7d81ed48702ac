---------------------------- MODULE JournalImport ----------------------------
(***************************************************************************)
(* CSV journal imports (lib/accounting/journal-import.ts) and the          *)
(* statement-by-statement protocol by which createJournalBatchWithStatus   *)
(* keeps a source from being journaled twice.                              *)
(*                                                                         *)
(* Journal's CreateBatch is the insert of that protocol.  Here the reads   *)
(* and writes around it are steps of their own, because other requests run *)
(* at every await: a second import of the same file, a user who voids or   *)
(* deletes what the import made, a crash.                                  *)
(***************************************************************************)
EXTENDS Journal, SequencesExt

CONSTANTS
  Job,          \* import requests; a second one is a double click or a retry
  File,         \* the parsed files: sequences of groups [key, content]
  Recognised    \* whether isUniqueConstraintViolation knows the driver's error

Group == [key : SourceKey, content : Content]

\* A file without lines is refused at once.  The bound leaves room for the row
\* that may be there from the start.
ASSUME ImportAssumption ==
  /\ Recognised \subseteq BOOLEAN
  /\ File \subseteq Seq(Group) \ {<<>>}
  /\ MaxBatches >= 1

VARIABLE job    \* per request: its file, where it is, and what it has to report

importVars == <<rows, answers, job>>

Idle == [pc |-> "idle", file |-> <<>>, skipExisting |-> FALSE, status |-> "draft",
         results |-> <<>>, found |-> None]

Ended == {"done", "failed", "duplicate", "rethrown", "lost"}

\* The group being imported.  results has one entry for each group before it.
Current(j) == job[j].file[Len(job[j].results) + 1]

\* findDuplicateBatch: the one batch that has the hash, or none.
Holders(k) == {b \in DOMAIN rows : /\ rows[b].source = k /\ ~rows[b].released
                                   /\ rows[b].status # "deleted"}

Goto(j, pc) == job' = [job EXCEPT ![j].pc = pc]

\* Fault variant of Report: the import stops at the first group it deals with.
ReportOnce(j, b, created) ==
  job' = [job EXCEPT ![j].results = Append(@, [batchId |-> b, created |-> created]),
                     ![j].pc = "done"]

\* The group is dealt with, by a new batch or an existing one; take the next.
Report(j, b, created) ==
  job' = [job EXCEPT ![j].results = Append(@, [batchId |-> b, created |-> created]),
                     ![j].pc = IF Len(job[j].results) + 1 = Len(job[j].file)
                                 THEN "done" ELSE "check"]

\* DuplicateJournalBatchError: skipped, or the end of the import.
Duplicate(j, b) ==
  IF job[j].skipExisting THEN Report(j, b, FALSE) ELSE Goto(j, "duplicate")

\* One day, equal totals, and what createJournalBatchWithStatus asks of the lines.
Importable(c) == Cardinality(GlDates(c.lines)) = 1 /\ LinesAccepted(c.lines)
-----------------------------------------------------------------------------
(* Steps of an import, one per await *)

StartImport(j) ==
  /\ job[j].pc = "idle"
  /\ \E f \in File, skip \in BOOLEAN, st \in {"draft", "posted"} :
       job' = [job EXCEPT ![j] = [Idle EXCEPT !.pc = "check", !.file = f,
                                              !.skipExisting = skip, !.status = st]]
  /\ UNCHANGED <<rows, answers>>

\* A bad group ends the import; the groups before it stay.
CheckGroup(j) ==
  /\ job[j].pc = "check"
  /\ Goto(j, IF Importable(Current(j).content) THEN "find" ELSE "failed")
  /\ UNCHANGED <<rows, answers>>

FindExisting(j) ==
  /\ job[j].pc = "find"
  /\ LET voided == {b \in Holders(Current(j).key) : rows[b].status = "voided"}
     IN  IF voided = {} THEN Goto(j, "recheck")
         ELSE \E b \in voided :
                job' = [job EXCEPT ![j].pc = "release", ![j].found = b]
  /\ UNCHANGED <<rows, answers>>

\* Fault variant of Releases: the release before the insert is left out.
ReleasesLate(j) == job[j].pc = "release again"

Releases(j) == job[j].pc \in {"release", "release again"}

\* releaseVoidedBatchSourceKey: a conditional UPDATE of one row.
ReleaseKey(j) ==
  /\ job[j].pc \in {"release", "release again"}
  /\ LET b == job[j].found
     IN  rows' = IF Releases(j) /\ rows[b].status = "voided"
                   THEN [rows EXCEPT ![b].released = TRUE] ELSE rows
  /\ Goto(j, IF job[j].pc = "release" THEN "recheck" ELSE "insert again")
  /\ UNCHANGED answers

RecheckExisting(j) ==
  /\ job[j].pc = "recheck"
  /\ IF Holders(Current(j).key) = {} THEN Goto(j, "insert")
     ELSE \E b \in Holders(Current(j).key) : Duplicate(j, b)
  /\ UNCHANGED <<rows, answers>>

\* The insert transaction, which the unique index may refuse.  A refusal is
\* looked into when the error is recognised and this was the first attempt.
InsertGroup(j) ==
  /\ job[j].pc \in {"insert", "insert again"}
  /\ LET g == Current(j) IN
       \/ /\ CreateBatch(g.content, job[j].status, g.key, TRUE)
          /\ Report(j, Len(rows) + 1, TRUE)
       \/ /\ ~SourceFree(g.key)
          /\ \E known \in Recognised :
               Goto(j, IF known /\ job[j].pc = "insert" THEN "find again" ELSE "rethrown")
          /\ UNCHANGED <<rows, answers>>

FindAfterViolation(j) ==
  /\ job[j].pc = "find again"
  /\ LET holders == Holders(Current(j).key)
     IN  \/ holders = {} /\ Goto(j, "rethrown")
         \/ \E b \in holders :
              IF rows[b].status = "voided"
                THEN job' = [job EXCEPT ![j].pc = "release again", ![j].found = b]
                ELSE Duplicate(j, b)
  /\ UNCHANGED <<rows, answers>>
-----------------------------------------------------------------------------
(* The rest of the system *)

\* What the user may do meanwhile to the journals that imports have made.
UserStep ==
  /\ \E b \in UserFacing :
       \/ PostBatch(b) \/ DeleteDraft(b) \/ VoidLifecycle(b)
       \/ \E c \in Content : UpdateDraft(b, c)
  /\ UNCHANGED job

\* The process stops: requests under way are gone, the database stays.
Crash ==
  /\ job' = [j \in Job |-> IF job[j].pc \in Ended \cup {"idle"} THEN job[j]
                           ELSE [job[j] EXCEPT !.pc = "lost"]]
  /\ UNCHANGED <<rows, answers>>

\* A database may hold a batch voided by a release that did not yet give up the
\* source key; the code releases such keys on demand.
LegacyVoided(c, k) ==
  [PlainRow(c, "posted", k, TRUE) EXCEPT !.status = "voided", !.audit = @ \cup {"void"}]

ImportInit ==
  /\ rows \in {<<>>} \cup {<<LegacyVoided(g.content, g.key)>> :
                             g \in {h \in UNION {Range(f) : f \in File} : Importable(h.content)}}
  /\ answers = {}
  /\ job = [j \in Job |-> Idle]

ImportStep(j) ==
  \/ StartImport(j) \/ CheckGroup(j) \/ FindExisting(j) \/ ReleaseKey(j)
  \/ RecheckExisting(j) \/ InsertGroup(j) \/ FindAfterViolation(j)

ImportNext ==
  \/ \E j \in Job : ImportStep(j)
  \/ UserStep
  \/ Crash

ImportSpec == ImportInit /\ [][ImportNext]_importVars
-----------------------------------------------------------------------------
(* Properties *)

\* However imports of the same source overlap, crash and are repeated, at most
\* one draft or posted batch comes from it.
OneLivePerSource ==
  \A b, c \in DOMAIN rows :
    Live(b) /\ Live(c) /\ rows[b].source = rows[c].source /\ rows[b].source # NoSource
      => b = c

\* An import that ends as done accounts for every group of its file, in order:
\* with a batch that it created or with one that was there, made from the same
\* source.  One that stops early has reported the groups before the stop.
ResultsMatchFile ==
  \A j \in Job :
    LET results == job[j].results
    IN  /\ job[j].pc = "done" => Len(results) = Len(job[j].file)
        /\ \A i \in DOMAIN results :
             /\ rows[results[i].batchId].source = job[j].file[i].key
             /\ results[i].created =>
                  \/ rows[results[i].batchId].content = job[j].file[i].content
                  \/ "update" \in rows[results[i].batchId].audit
        /\ \A k \in Job \ {j} : \A i \in DOMAIN results, h \in DOMAIN job[k].results :
             results[i].created /\ job[k].results[h].created =>
               results[i].batchId # job[k].results[h].batchId

\* A group is skipped, or refused as a duplicate, only for a batch that is in the
\* books at that moment: a journal the user has voided or deleted never blocks the
\* import of its source.
DuplicatesAreLive ==
  [][\A j \in Job :
       /\ Len(job'[j].results) > Len(job[j].results) /\ ~Last(job'[j].results).created
            => Live(Last(job'[j].results).batchId)
       /\ job[j].pc # "duplicate" /\ job'[j].pc = "duplicate"
            => \E b \in Holders(Current(j).key) : Live(b)]_importVars
=============================================================================
