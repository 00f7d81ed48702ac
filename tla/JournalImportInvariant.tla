----------------------- MODULE JournalImportInvariant -----------------------
(***************************************************************************)
(* The inductive invariant behind the theorems of JournalImportProofs.     *)
(***************************************************************************)
EXTENDS JournalImport

UnderWay == {"check", "find", "release", "recheck", "insert",
             "find again", "release again", "insert again"}

JobState ==
  [pc : {"idle"} \cup UnderWay \cup Ended, file : Seq(Group), skipExisting : BOOLEAN,
   status : {"draft", "posted"}, found : BatchId \cup {None},
   results : Seq([batchId : BatchId, created : BOOLEAN])]

\* The stored rows and the requests have the values that the schema and the types
\* of the import allow.
ImportTypeOK == TypeOK /\ job \in [Job -> JobState]

\* A row that keeps the index from accepting its source again.
Holds(b) == rows[b].source # NoSource /\ rows[b].status # "deleted" /\ ~rows[b].released

OneHolder ==
  \A b, c \in DOMAIN rows : Holds(b) /\ Holds(c) /\ rows[b].source = rows[c].source => b = c

ReleasedIsVoided ==
  \A b \in DOMAIN rows : rows[b].released => rows[b].status = "voided"

\* An import that is under way has a group to deal with, one that is done has none.
Progress(j) ==
  /\ Len(job[j].results) <= Len(job[j].file)
  /\ job[j].pc \in UnderWay => Len(job[j].results) < Len(job[j].file)
  /\ job[j].pc = "done" => Len(job[j].results) = Len(job[j].file)

VoidedHolders(k) == {b \in Holders(k) : rows[b].status = "voided"}

\* The voided batch of a source is the one that the request has found, and after
\* its release there is none.
Reclaimed(j) ==
  /\ job[j].pc = "release" => VoidedHolders(Current(j).key) \subseteq {job[j].found}
  /\ job[j].pc \in UnderWay \ {"check", "find", "release"}
       => VoidedHolders(Current(j).key) = {}

\* What an import has reported about the i-th group of its file.
ReportHolds(j, i) ==
  LET r == job[j].results[i]
  IN  /\ r.batchId \in DOMAIN rows
      /\ rows[r.batchId].source = job[j].file[i].key
      /\ r.created => \/ rows[r.batchId].content = job[j].file[i].content
                      \/ "update" \in rows[r.batchId].audit

JobOK(j) == Progress(j) /\ Reclaimed(j) /\ \A i \in DOMAIN job[j].results : ReportHolds(j, i)

\* No two imports report that they have created the same batch.
CreatedOnce ==
  \A j \in Job, k \in Job : j # k =>
    \A i \in DOMAIN job[j].results, h \in DOMAIN job[k].results :
      job[j].results[i].created /\ job[k].results[h].created =>
        job[j].results[i].batchId # job[k].results[h].batchId

ImportIInv ==
  /\ ImportTypeOK
  /\ OneHolder
  /\ ReleasedIsVoided
  /\ \A j \in Job : JobOK(j)
  /\ CreatedOnce
=============================================================================
