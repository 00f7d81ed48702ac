------------------------ MODULE JournalImportProofs ------------------------
(***************************************************************************)
(* Machine-checked proofs about JournalImport, for every number of         *)
(* requests, every file and every bound on the rows.                       *)
(***************************************************************************)
EXTENDS JournalImportInvariant, JournalProofs

(* What a step does to the rows *)

\* Batches keep their source, and what an import stored or a user edited; a
\* source given up stays so, and none is held by a voided batch that was not.
Evolve ==
  /\ DOMAIN rows \subseteq DOMAIN rows'
  /\ \A x \in DOMAIN rows :
       /\ rows'[x].source = rows[x].source
       /\ rows'[x].content = rows[x].content \/ "update" \in rows'[x].audit
       /\ rows[x].audit \subseteq rows'[x].audit
       /\ Holds(x)' => Holds(x)
       /\ Holds(x)' /\ rows'[x].status = "voided" => rows[x].status = "voided"
       /\ rows'[x].released => rows'[x].status = "voided"

\* Nothing else changes hands: what the two invariants of the rows need.
LEMMA EvolveSame ==
  ASSUME TypeOK, OneHolder, ReleasedIsVoided, Evolve, DOMAIN rows' = DOMAIN rows
  PROVE  OneHolder' /\ ReleasedIsVoided'
<1>1. OneHolder'
  BY DEF OneHolder, Evolve
<1>2. ReleasedIsVoided'
  BY DEF ReleasedIsVoided, Evolve
<1> QED  BY <1>1, <1>2

\* One row is rewritten.
LEMMA RowEvolves ==
  ASSUME TypeOK, ReleasedIsVoided, NEW b \in DOMAIN rows, NEW r \in Row,
         rows' = [rows EXCEPT ![b] = r],
         r.source = rows[b].source, rows[b].audit \subseteq r.audit,
         r.content = rows[b].content \/ "update" \in r.audit,
         rows[b].released => r.released \/ r.status = "deleted",
         rows[b].status = "deleted" => r.status = "deleted",
         r.status = "voided" => rows[b].status = "voided" \/ r.released \/ r.source = NoSource,
         r.released => r.status = "voided"
  PROVE  /\ rows' \in Seq(Row) /\ Len(rows') = Len(rows) /\ DOMAIN rows' = DOMAIN rows
         /\ Evolve
<1>1. rows \in Seq(Row) /\ DOMAIN rows = 1..Len(rows)
  BY Table DEF TypeOK
<1>2. /\ rows' \in Seq(Row) /\ Len(rows') = Len(rows) /\ DOMAIN rows' = DOMAIN rows
      /\ \A x \in DOMAIN rows \ {b} : rows'[x] = rows[x]
      /\ rows'[b] = r
  BY <1>1, ExceptSeq, LenProperties
<1>3. ASSUME NEW x \in DOMAIN rows
      PROVE  /\ rows'[x].source = rows[x].source
             /\ rows'[x].content = rows[x].content \/ "update" \in rows'[x].audit
             /\ rows[x].audit \subseteq rows'[x].audit
             /\ Holds(x)' => Holds(x)
             /\ Holds(x)' /\ rows'[x].status = "voided" => rows[x].status = "voided"
             /\ rows'[x].released => rows'[x].status = "voided"
  <2>1. CASE x = b
    BY <1>2, <2>1 DEF Holds
  <2>2. CASE x # b
    BY <1>2, <2>2 DEF Holds, ReleasedIsVoided
  <2> QED  BY <2>1, <2>2
<1> QED  BY <1>2, <1>3 DEF Evolve

\* The operations a user has on a draft, and releaseVoidedBatchSourceKey.
LEMMA PostEvolves ==
  ASSUME TypeOK, ReleasedIsVoided, NEW b \in DOMAIN rows, PostBatch(b)
  PROVE  /\ rows' \in Seq(Row) /\ Len(rows') = Len(rows) /\ DOMAIN rows' = DOMAIN rows
         /\ Evolve
<1> DEFINE r == [rows[b] EXCEPT !.status = "posted", !.audit = rows[b].audit \cup {"post"}]
<1>1. rows[b] \in Row /\ rows[b].status = "draft" /\ ~rows[b].released
  BY Table DEF PostBatch, ReleasedIsVoided
<1>2. /\ r \in Row /\ r.source = rows[b].source /\ rows[b].audit \subseteq r.audit
      /\ r.content = rows[b].content /\ r.released = rows[b].released /\ r.status = "posted"
  BY <1>1 DEF Row, Status, AuditAction
<1>3. rows' = [rows EXCEPT ![b] = r]
  BY DEF PostBatch
<1> HIDE DEF r
<1> QED  BY <1>1, <1>2, <1>3, RowEvolves

LEMMA UpdateEvolves ==
  ASSUME TypeOK, ReleasedIsVoided, NEW b \in DOMAIN rows, NEW c \in Content, UpdateDraft(b, c)
  PROVE  /\ rows' \in Seq(Row) /\ Len(rows') = Len(rows) /\ DOMAIN rows' = DOMAIN rows
         /\ Evolve
<1> DEFINE r == [rows[b] EXCEPT !.content = c, !.audit = rows[b].audit \cup {"update"}]
<1>1. rows[b] \in Row /\ rows[b].status = "draft" /\ ~rows[b].released
  BY Table DEF UpdateDraft, ReleasedIsVoided
<1>2. c \in [memo : Memo, lines : Seq(StoredLine)]
  <2>1. c \in [memo : Memo, lines : Seq(Line)]
    BY JournalAssumption
  <2>2. c.lines \in Seq(StoredLine)
    BY <2>1, AcceptedLinesStorable DEF UpdateDraft, Submittable, LinesAccepted
  <2> QED  BY <2>1, <2>2
<1>3. /\ r \in Row /\ r.source = rows[b].source /\ rows[b].audit \subseteq r.audit
      /\ "update" \in r.audit /\ r.released = rows[b].released /\ r.status = "draft"
  BY <1>1, <1>2 DEF Row, AuditAction
<1>4. rows' = [rows EXCEPT ![b] = r]
  BY DEF UpdateDraft
<1> HIDE DEF r
<1> QED  BY <1>1, <1>3, <1>4, RowEvolves

LEMMA DeleteEvolves ==
  ASSUME TypeOK, ReleasedIsVoided, NEW b \in DOMAIN rows, DeleteDraft(b)
  PROVE  /\ rows' \in Seq(Row) /\ Len(rows') = Len(rows) /\ DOMAIN rows' = DOMAIN rows
         /\ Evolve
<1> DEFINE r == [rows[b] EXCEPT !.status = "deleted"]
<1>1. rows[b] \in Row /\ rows[b].status = "draft" /\ ~rows[b].released
  BY Table DEF DeleteDraft, ReleasedIsVoided
<1>2. /\ r \in Row /\ r.source = rows[b].source /\ r.audit = rows[b].audit
      /\ r.content = rows[b].content /\ r.released = rows[b].released /\ r.status = "deleted"
  BY <1>1 DEF Row, Status
<1>3. rows' = [rows EXCEPT ![b] = r]
  BY DEF DeleteDraft
<1> HIDE DEF r
<1> QED  BY <1>1, <1>2, <1>3, RowEvolves

LEMMA ReleaseEvolves ==
  ASSUME TypeOK, ReleasedIsVoided, NEW b \in DOMAIN rows, rows[b].status = "voided",
         rows' = [rows EXCEPT ![b].released = TRUE]
  PROVE  /\ rows' \in Seq(Row) /\ Len(rows') = Len(rows) /\ DOMAIN rows' = DOMAIN rows
         /\ Evolve
         /\ \A x \in DOMAIN rows : x # b => rows'[x] = rows[x]
         /\ rows'[b].released
<1> DEFINE r == [rows[b] EXCEPT !.released = TRUE]
<1>1. rows[b] \in Row
  BY Table
<1>2. /\ r \in Row /\ r.source = rows[b].source /\ r.audit = rows[b].audit
      /\ r.content = rows[b].content /\ r.released = TRUE /\ r.status = "voided"
  BY <1>1 DEF Row
<1>3. rows' = [rows EXCEPT ![b] = r]
  OBVIOUS
<1> HIDE DEF r
<1>4. /\ \A x \in DOMAIN rows : x # b => rows'[x] = rows[x]
      /\ rows'[b] = r
  BY <1>3
<1> QED  BY <1>2, <1>3, <1>4, RowEvolves

LEMMA VoidEvolves ==
  ASSUME TypeOK, ReleasedIsVoided, NEW S, rows' = Voided(S)
  PROVE  /\ rows' \in Seq(Row) /\ Len(rows') = Len(rows) /\ DOMAIN rows' = DOMAIN rows
         /\ Evolve
<1>1. rows' \in Seq(Row) /\ Len(rows') = Len(rows) /\ DOMAIN rows' = DOMAIN rows
  BY VoidEffect DEF Kept
<1>2. ASSUME NEW row \in Row
      PROVE  /\ VoidRow(row).status = "voided" /\ VoidRow(row).source = row.source
             /\ VoidRow(row).released = (row.source # NoSource)
             /\ VoidRow(row).content = row.content
             /\ VoidRow(row).audit = row.audit \cup {"void"}
  BY DEF VoidRow, Row
<1>3. ASSUME NEW x \in DOMAIN rows
      PROVE  /\ rows'[x].source = rows[x].source
             /\ rows'[x].content = rows[x].content
             /\ rows[x].audit \subseteq rows'[x].audit
             /\ Holds(x)' => Holds(x)
             /\ Holds(x)' /\ rows'[x].status = "voided" => rows[x].status = "voided"
             /\ rows'[x].released => rows'[x].status = "voided"
  <2>1. rows[x] \in Row
    BY Table
  <2>2. CASE x \in S /\ rows[x].status = "posted"
    <3>1. rows'[x] = VoidRow(rows[x])
      BY <2>2 DEF Voided
    <3> QED  BY <1>2, <2>1, <2>2, <3>1 DEF Holds
  <2>3. CASE ~(x \in S /\ rows[x].status = "posted")
    <3>1. rows'[x] = rows[x]
      BY <2>3 DEF Voided
    <3> QED  BY <3>1 DEF Holds, ReleasedIsVoided
  <2> QED  BY <2>2, <2>3
<1> QED  BY <1>1, <1>3 DEF Evolve

\* The insert: the unique index accepts a source that no batch holds.
LEMMA CreateEvolves ==
  ASSUME TypeOK, OneHolder, ReleasedIsVoided, NEW c \in Content,
         NEW st \in {"draft", "posted"}, NEW k \in SourceKey, CreateBatch(c, st, k, TRUE)
  PROVE  /\ TypeOK' /\ OneHolder' /\ ReleasedIsVoided' /\ Evolve
         /\ Len(rows) + 1 \in BatchId /\ Len(rows) + 1 \in DOMAIN rows'
         /\ Len(rows) + 1 \notin DOMAIN rows
         /\ DOMAIN rows' = DOMAIN rows \cup {Len(rows) + 1}
         /\ rows'[Len(rows) + 1].source = k /\ rows'[Len(rows) + 1].content = c
         /\ rows'[Len(rows) + 1].status # "voided"
<1> DEFINE n == Len(rows) + 1
<1>1. /\ rows' \in Seq(Row) /\ n <= MaxBatches /\ Len(rows') <= MaxBatches
      /\ DOMAIN rows' = DOMAIN rows \cup {n}
      /\ \A x \in DOMAIN rows : rows'[x] = rows[x]
      /\ rows'[n] = PlainRow(c, st, k, TRUE)
  BY CreateEffect
<1>2. n \notin DOMAIN rows /\ n \in Nat /\ n >= 1
  BY Table
<1>3. answers' = answers
  BY DEF CreateBatch
<1>4. TypeOK'
  BY <1>1, <1>3 DEF TypeOK
<1>5. n \in BatchId
  BY <1>1, <1>2, JournalAssumption DEF BatchId
<1> HIDE DEF n
<1>6. /\ rows'[n].source = k /\ rows'[n].content = c
      /\ rows'[n].status \in {"draft", "posted"} /\ ~rows'[n].released
  BY <1>1 DEF PlainRow
<1>7. ReleasedIsVoided'
  BY <1>1, <1>6 DEF ReleasedIsVoided
<1>8. Evolve
  BY <1>1 DEF Evolve, Holds, ReleasedIsVoided
<1>9. k # NoSource
  BY JournalAssumption
<1>10. \A x \in DOMAIN rows : rows[x].source = k => ~Holds(x)
  BY <1>9 DEF CreateBatch, SourceFree, Holds
<1>11. OneHolder'
  BY <1>1, <1>6, <1>10 DEF OneHolder, Holds
<1> QED  BY <1>1, <1>2, <1>4, <1>5, <1>6, <1>7, <1>8, <1>11 DEF n
-----------------------------------------------------------------------------
(* What a step does to the requests *)

\* A step leaves good rows, and adds none that is voided from the start.
RowStep ==
  /\ TypeOK' /\ OneHolder' /\ ReleasedIsVoided' /\ Evolve
  /\ \A x \in DOMAIN rows' \ DOMAIN rows : rows'[x].status # "voided"

LEMMA RowsStand ==
  ASSUME ImportIInv, UNCHANGED <<rows, answers>>
  PROVE  RowStep
<1>1. TypeOK' /\ OneHolder' /\ ReleasedIsVoided'
  BY DEF ImportIInv, ImportTypeOK, TypeOK, OneHolder, ReleasedIsVoided, Holds
<1>2. Evolve
  BY DEF Evolve, Holds, ImportIInv, ReleasedIsVoided
<1> QED  BY <1>1, <1>2 DEF RowStep

LEMMA JobRecord ==
  ASSUME ImportIInv, NEW j \in Job
  PROVE  /\ job[j] \in JobState
         /\ Len(job[j].results) \in Nat /\ DOMAIN job[j].results = 1..Len(job[j].results)
         /\ Len(job[j].file) \in Nat
         /\ job[j].results \in Seq([batchId : BatchId, created : BOOLEAN])
<1>1. job[j] \in JobState
  BY DEF ImportIInv, ImportTypeOK
<1>2. /\ job[j].results \in Seq([batchId : BatchId, created : BOOLEAN])
      /\ job[j].file \in Seq(Group)
  BY <1>1 DEF JobState
<1> QED  BY <1>1, <1>2, LenProperties

LEMMA CurrentGroup ==
  ASSUME ImportIInv, NEW j \in Job, job[j].pc \in UnderWay
  PROVE  /\ Current(j).key \in SourceKey /\ Current(j).key # NoSource
         /\ Current(j).content \in Content
<1>1. job[j].file \in Seq(Group)
  BY JobRecord DEF JobState
<1>2. Len(job[j].results) + 1 \in 1..Len(job[j].file)
  BY JobRecord DEF ImportIInv, JobOK, Progress
<1>3. Current(j) \in Group
  BY <1>1, <1>2, ElementOfSeq DEF Current
<1> QED  BY <1>3, JournalAssumption DEF Group

\* A step of another request, or of the user, does not harm a request.
LEMMA HoldersShrink ==
  ASSUME RowStep, NEW k \in SourceKey
  PROVE  VoidedHolders(k)' \subseteq VoidedHolders(k)
<1>1. k # NoSource
  BY JournalAssumption
<1> SUFFICES ASSUME NEW x \in VoidedHolders(k)' PROVE x \in VoidedHolders(k)
  OBVIOUS
<1>2. /\ x \in DOMAIN rows' /\ rows'[x].source = k /\ ~rows'[x].released
      /\ rows'[x].status = "voided"
  BY DEF VoidedHolders, Holders
<1>3. x \in DOMAIN rows
  BY <1>2 DEF RowStep
<1>4. Holds(x)'
  BY <1>1, <1>2 DEF Holds
<1> QED  BY <1>2, <1>3, <1>4 DEF RowStep, Evolve, Holds, VoidedHolders, Holders

LEMMA ReportsStand ==
  ASSUME RowStep, NEW j \in Job, NEW i \in DOMAIN job[j].results, ReportHolds(j, i),
         job'[j].results[i] = job[j].results[i], job'[j].file = job[j].file
  PROVE  ReportHolds(j, i)'
BY DEF RowStep, Evolve, ReportHolds

LEMMA JobStands ==
  ASSUME ImportIInv, RowStep, NEW j \in Job, job'[j] = job[j]
  PROVE  JobOK(j)'
<1>1. Progress(j)'
  BY DEF ImportIInv, JobOK, Progress
<1>2. Reclaimed(j)'
  <2>1. CASE job[j].pc \in UnderWay
    <3> DEFINE k == Current(j).key
    <3>1. k \in SourceKey /\ Current(j)' = Current(j)
      BY <2>1, CurrentGroup DEF Current
    <3>2. /\ job[j].pc = "release" => VoidedHolders(k) \subseteq {job[j].found}
          /\ job[j].pc \in UnderWay \ {"check", "find", "release"} => VoidedHolders(k) = {}
      BY DEF ImportIInv, JobOK, Reclaimed
    <3>3. PICK key \in SourceKey : key = k
      BY <3>1
    <3>4. VoidedHolders(key)' \subseteq VoidedHolders(key)
      BY HoldersShrink
    <3>5. Current(j)'.key = key
      BY <3>1, <3>3
    <3> HIDE DEF k
    <3> QED  BY <3>2, <3>3, <3>4, <3>5 DEF Reclaimed
  <2>2. CASE job[j].pc \notin UnderWay
    BY <2>2 DEF Reclaimed, UnderWay
  <2> QED  BY <2>1, <2>2
<1>3. \A i \in DOMAIN job'[j].results : ReportHolds(j, i)'
  BY ReportsStand DEF ImportIInv, JobOK
<1> QED  BY <1>1, <1>2, <1>3 DEF JobOK

\* One request moves.
LEMMA OneJobStep ==
  ASSUME ImportIInv, RowStep, NEW j \in Job, job' \in [Job -> JobState],
         \A k \in Job \ {j} : job'[k] = job[k], JobOK(j)', CreatedOnce'
  PROVE  ImportIInv'
<1>1. \A k \in Job : JobOK(k)'
  BY JobStands
<1> QED  BY <1>1 DEF ImportIInv, ImportTypeOK, RowStep

\* A request takes a step within its group, or ends.
LEMMA MoveStep ==
  ASSUME ImportIInv, RowStep, NEW j \in Job, job[j].pc \in UnderWay,
         job' \in [Job -> JobState], \A k \in Job \ {j} : job'[k] = job[k],
         job'[j].file = job[j].file, job'[j].results = job[j].results, job'[j].pc # "done",
         NEW key \in SourceKey, key = Current(j).key,
         job'[j].pc = "release" => VoidedHolders(key)' \subseteq {job'[j].found},
         job'[j].pc \in UnderWay \ {"check", "find", "release"} => VoidedHolders(key)' = {}
  PROVE  ImportIInv'
<1>1. Progress(j)'
  BY DEF ImportIInv, JobOK, Progress
<1>2. Current(j)'.key = key
  BY DEF Current
<1>3. Reclaimed(j)'
  BY <1>2 DEF Reclaimed
<1>4. \A i \in DOMAIN job'[j].results : ReportHolds(j, i)'
  BY ReportsStand DEF ImportIInv, JobOK
<1>5. \A k \in Job : job'[k].results = job[k].results
  OBVIOUS
<1>6. CreatedOnce'
  BY <1>5 DEF ImportIInv, CreatedOnce
<1> QED  BY <1>1, <1>3, <1>4, <1>6, OneJobStep DEF JobOK

LEMMA GotoEffect ==
  ASSUME ImportIInv, NEW j \in Job, NEW pc \in UnderWay \cup Ended, Goto(j, pc)
  PROVE  /\ job' \in [Job -> JobState] /\ \A k \in Job \ {j} : job'[k] = job[k]
         /\ job'[j].file = job[j].file /\ job'[j].results = job[j].results
         /\ job'[j].found = job[j].found /\ job'[j].pc = pc
BY DEF ImportIInv, ImportTypeOK, Goto, JobState

LEMMA FoundEffect ==
  ASSUME ImportIInv, NEW j \in Job, NEW pc \in UnderWay, NEW b \in BatchId,
         job' = [job EXCEPT ![j].pc = pc, ![j].found = b]
  PROVE  /\ job' \in [Job -> JobState] /\ \A k \in Job \ {j} : job'[k] = job[k]
         /\ job'[j].file = job[j].file /\ job'[j].results = job[j].results
         /\ job'[j].found = b /\ job'[j].pc = pc
BY DEF ImportIInv, ImportTypeOK, JobState

LEMMA ReportEffect ==
  ASSUME ImportIInv, NEW j \in Job, NEW b \in BatchId, NEW created \in BOOLEAN,
         Report(j, b, created)
  PROVE  /\ job' \in [Job -> JobState] /\ \A k \in Job \ {j} : job'[k] = job[k]
         /\ job'[j].file = job[j].file
         /\ job'[j].results = Append(job[j].results, [batchId |-> b, created |-> created])
         /\ job'[j].pc = IF Len(job[j].results) + 1 = Len(job[j].file) THEN "done" ELSE "check"
         /\ Len(job'[j].results) = Len(job[j].results) + 1
         /\ DOMAIN job'[j].results = DOMAIN job[j].results \cup {Len(job[j].results) + 1}
         /\ \A i \in DOMAIN job[j].results : job'[j].results[i] = job[j].results[i]
         /\ job'[j].results[Len(job[j].results) + 1] = [batchId |-> b, created |-> created]
<1> DEFINE R == [batchId : BatchId, created : BOOLEAN]
           r == [batchId |-> b, created |-> created]
           old == job[j].results
           new == Append(old, r)
           pc == IF Len(old) + 1 = Len(job[j].file) THEN "done" ELSE "check"
<1>1. /\ old \in Seq(R) /\ Len(old) \in Nat /\ DOMAIN old = 1..Len(old)
      /\ job[j] \in JobState
  BY JobRecord
<1>2. r \in R
  OBVIOUS
<1>3. /\ new \in Seq(R) /\ Len(new) = Len(old) + 1
      /\ \A i \in 1..Len(old) : new[i] = old[i]
      /\ new[Len(old) + 1] = r
  BY <1>1, <1>2, AppendProperties
<1>4. DOMAIN new = 1..Len(new)
  BY <1>3, LenProperties
<1>5. DOMAIN new = DOMAIN old \cup {Len(old) + 1}
  BY <1>1, <1>3, <1>4
<1>6. pc \in UnderWay \cup Ended
  BY DEF UnderWay, Ended
<1>7. job' = [job EXCEPT ![j].results = new, ![j].pc = pc]
  BY DEF Report
<1> HIDE DEF new, pc
<1>8. /\ job' \in [Job -> JobState] /\ \A k \in Job \ {j} : job'[k] = job[k]
      /\ job'[j].file = job[j].file /\ job'[j].results = new /\ job'[j].pc = pc
  BY <1>1, <1>3, <1>6, <1>7 DEF ImportIInv, ImportTypeOK, JobState
<1> QED  BY <1>1, <1>3, <1>5, <1>8 DEF new, pc

\* A request has dealt with its group, by a batch that is made from its source.
LEMMA ReportStep ==
  ASSUME ImportIInv, RowStep, NEW j \in Job, job[j].pc \in UnderWay,
         NEW b \in BatchId, NEW created \in BOOLEAN, Report(j, b, created),
         b \in DOMAIN rows', rows'[b].source = Current(j).key,
         created => rows'[b].content = Current(j).content /\ b \notin DOMAIN rows
  PROVE  ImportIInv'
<1>0. PICK n \in Nat : n = Len(job[j].results) + 1
  BY JobRecord
<1>1. /\ job' \in [Job -> JobState] /\ \A k \in Job \ {j} : job'[k] = job[k]
      /\ job'[j].file = job[j].file /\ Len(job'[j].results) = n
      /\ DOMAIN job'[j].results = DOMAIN job[j].results \cup {n}
      /\ \A i \in DOMAIN job[j].results : job'[j].results[i] = job[j].results[i]
      /\ job'[j].results[n] = [batchId |-> b, created |-> created]
      /\ job'[j].pc = IF n = Len(job[j].file) THEN "done" ELSE "check"
  BY <1>0, ReportEffect
<1>2. Len(job[j].file) \in Nat /\ n <= Len(job[j].file)
  BY <1>0, JobRecord DEF ImportIInv, JobOK, Progress
<1>3. Current(j) = job[j].file[n]
  BY <1>0 DEF Current
<1>4. \A k \in Job : \A i \in DOMAIN job[k].results : job[k].results[i].batchId \in DOMAIN rows
  BY DEF ImportIInv, JobOK, ReportHolds
<1>5. Progress(j)'
  <2>1. CASE n = Len(job[j].file)
    <3>1. job'[j].pc = "done"
      BY <1>1, <2>1
    <3> QED  BY <1>1, <1>2, <2>1, <3>1 DEF Progress, UnderWay
  <2>2. CASE n # Len(job[j].file)
    <3>1. job'[j].pc = "check"
      BY <1>1, <2>2
    <3>2. n < Len(job[j].file)
      BY <1>2, <2>2
    <3> QED  BY <1>1, <1>2, <3>1, <3>2 DEF Progress
  <2> QED  BY <2>1, <2>2
<1>6. Reclaimed(j)'
  BY <1>1 DEF Reclaimed, UnderWay
<1>7. \A i \in DOMAIN job'[j].results : ReportHolds(j, i)'
  <2>1. ReportHolds(j, n)'
    <3>1. job'[j].results[n].batchId = b /\ job'[j].results[n].created = created
      BY <1>1
    <3>2. job'[j].file[n] = Current(j)
      BY <1>1, <1>3
    <3> QED  BY <3>1, <3>2 DEF ReportHolds
  <2>2. ASSUME NEW i \in DOMAIN job[j].results PROVE ReportHolds(j, i)'
    <3>1. ReportHolds(j, i)
      BY DEF ImportIInv, JobOK
    <3>2. job'[j].results[i] = job[j].results[i] /\ job'[j].file = job[j].file
      BY <1>1
    <3> QED  BY <3>1, <3>2, ReportsStand
  <2> QED  BY <1>1, <2>1, <2>2
<1>8. CreatedOnce'
  <2> SUFFICES ASSUME NEW p \in Job, NEW q \in Job, p # q,
                      NEW i \in DOMAIN job'[p].results, NEW h \in DOMAIN job'[q].results,
                      job'[p].results[i].created, job'[q].results[h].created
               PROVE  job'[p].results[i].batchId # job'[q].results[h].batchId
    BY DEF CreatedOnce
  <2>1. CASE p = j /\ i = n
    BY <1>1, <1>4, <2>1
  <2>2. CASE q = j /\ h = n
    BY <1>1, <1>4, <2>2
  <2>3. CASE ~(p = j /\ i = n) /\ ~(q = j /\ h = n)
    <3>1. i \in DOMAIN job[p].results /\ job'[p].results[i] = job[p].results[i]
      BY <1>1, <2>3
    <3>2. h \in DOMAIN job[q].results /\ job'[q].results[h] = job[q].results[h]
      BY <1>1, <2>3
    <3> QED  BY <3>1, <3>2 DEF ImportIInv, CreatedOnce
  <2> QED  BY <2>1, <2>2, <2>3
<1> QED  BY <1>1, <1>5, <1>6, <1>7, <1>8, OneJobStep DEF JobOK
-----------------------------------------------------------------------------
(* The invariant is preserved by each step *)

LEMMA StartInv ==
  ASSUME ImportIInv, NEW j \in Job, StartImport(j)
  PROVE  ImportIInv'
<1>1. PICK f \in File, skip \in BOOLEAN, st \in {"draft", "posted"} :
        job' = [job EXCEPT ![j] = [Idle EXCEPT !.pc = "check", !.file = f,
                                               !.skipExisting = skip, !.status = st]]
  BY DEF StartImport
<1>2. f \in Seq(Group) /\ Len(f) \in Nat /\ Len(f) > 0
  <2>1. f \in Seq(Group) /\ f # <<>>
    BY ImportAssumption
  <2> QED  BY <2>1, EmptySeq, LenProperties
<1>3. RowStep
  BY RowsStand DEF StartImport
<1>4. <<>> \in Seq([batchId : BatchId, created : BOOLEAN])
  BY EmptySeq
<1>5. /\ job' \in [Job -> JobState] /\ \A k \in Job \ {j} : job'[k] = job[k]
      /\ job'[j].pc = "check" /\ job'[j].file = f /\ job'[j].results = <<>>
  BY <1>1, <1>2, <1>4 DEF ImportIInv, ImportTypeOK, JobState, Idle, UnderWay
<1>6. JobOK(j)'
  <2>1. Progress(j)'
    BY <1>2, <1>5, Len(<<>>) = 0 DEF Progress
  <2>2. Reclaimed(j)'
    BY <1>5 DEF Reclaimed
  <2>3. DOMAIN job'[j].results = {}
    BY <1>5
  <2> QED  BY <2>1, <2>2, <2>3 DEF JobOK
<1>7. CreatedOnce'
  BY <1>5, DOMAIN <<>> = {} DEF ImportIInv, CreatedOnce
<1> QED  BY <1>3, <1>5, <1>6, <1>7, OneJobStep

LEMMA CheckInv ==
  ASSUME ImportIInv, NEW j \in Job, CheckGroup(j)
  PROVE  ImportIInv'
<1>1. PICK pc \in {"find", "failed"} : Goto(j, pc)
  BY DEF CheckGroup
<1>2. job[j].pc \in UnderWay /\ pc \in UnderWay \cup Ended
  BY DEF CheckGroup, UnderWay, Ended
<1>3. RowStep
  BY RowsStand DEF CheckGroup
<1>4. PICK key \in SourceKey : key = Current(j).key
  BY <1>2, CurrentGroup
<1> QED  BY <1>1, <1>2, <1>3, <1>4, GotoEffect, MoveStep DEF UnderWay

LEMMA FindInv ==
  ASSUME ImportIInv, NEW j \in Job, FindExisting(j)
  PROVE  ImportIInv'
<1>1. job[j].pc \in UnderWay /\ rows' = rows
  BY DEF FindExisting, UnderWay
<1>2. RowStep
  BY RowsStand DEF FindExisting
<1>3. PICK key \in SourceKey : key = Current(j).key
  BY <1>1, CurrentGroup
<1>4. VoidedHolders(key)' = VoidedHolders(key)
  BY <1>1 DEF VoidedHolders, Holders
<1>5. CASE VoidedHolders(key) = {} /\ Goto(j, "recheck")
  <2>1. "recheck" \in UnderWay
    BY DEF UnderWay
  <2> QED  BY <1>1, <1>2, <1>3, <1>4, <1>5, <2>1, GotoEffect, MoveStep
<1>6. ASSUME NEW b \in VoidedHolders(key),
             job' = [job EXCEPT ![j].pc = "release", ![j].found = b]
      PROVE  ImportIInv'
  <2>1. b \in DOMAIN rows /\ Holds(b) /\ rows[b].source = key
    <3>1. key # NoSource
      BY JournalAssumption
    <3> QED  BY <3>1 DEF VoidedHolders, Holders, Holds
  <2>2. VoidedHolders(key) \subseteq {b}
    <3>1. key # NoSource
      BY JournalAssumption
    <3> QED  BY <2>1, <3>1 DEF VoidedHolders, Holders, Holds, ImportIInv, OneHolder
  <2>3. b \in BatchId /\ "release" \in UnderWay
    BY <2>1, Table DEF ImportIInv, ImportTypeOK, UnderWay
  <2>4. /\ job' \in [Job -> JobState] /\ \A k \in Job \ {j} : job'[k] = job[k]
        /\ job'[j].file = job[j].file /\ job'[j].results = job[j].results
        /\ job'[j].found = b /\ job'[j].pc = "release"
    BY <1>6, <2>3, FoundEffect
  <2> QED  BY <1>1, <1>2, <1>3, <1>4, <2>2, <2>4, MoveStep
<1> QED  BY <1>3, <1>5, <1>6 DEF FindExisting, VoidedHolders

\* The release touches the batch that the request has found, if it is still voided.
LEMMA ReleaseStep ==
  ASSUME ImportIInv, NEW j \in Job, ReleaseKey(j)
  PROVE  /\ RowStep
         /\ \A key \in SourceKey : key = Current(j).key => VoidedHolders(key)' = {}
<1> DEFINE b == job[j].found
<1>1. TypeOK /\ OneHolder /\ ReleasedIsVoided
  BY DEF ImportIInv, ImportTypeOK
<1>2. SUFFICES ASSUME NEW key \in SourceKey
               PROVE  RowStep /\ (key = Current(j).key => VoidedHolders(key)' = {})
  <2>1. job[j].pc \in UnderWay
    BY DEF ReleaseKey, UnderWay
  <2>2. Current(j).key \in SourceKey
    BY <2>1, CurrentGroup
  <2> QED  BY <1>2, <2>2
<1>3. key = Current(j).key => VoidedHolders(key) \subseteq {b}
  BY DEF ImportIInv, JobOK, Reclaimed, ReleaseKey, UnderWay
<1>4. CASE b \in DOMAIN rows /\ rows[b].status = "voided"
  <2>1. rows' = [rows EXCEPT ![b].released = TRUE]
    BY <1>4 DEF ReleaseKey, Releases
  <2> HIDE DEF b
  <2>2. /\ rows' \in Seq(Row) /\ Len(rows') = Len(rows) /\ DOMAIN rows' = DOMAIN rows
        /\ Evolve
        /\ rows'[b].released
    BY <1>1, <1>4, <2>1, ReleaseEvolves
  <2>3. RowStep
    BY <1>1, <2>2, EvolveSame DEF RowStep, TypeOK, ReleaseKey
  <2>4. b \notin VoidedHolders(key)'
    BY <2>2 DEF VoidedHolders, Holders
  <2>5. VoidedHolders(key)' \subseteq VoidedHolders(key)
    BY <2>3, HoldersShrink
  <2> QED  BY <1>3, <2>3, <2>4, <2>5
<1>5. CASE ~(b \in DOMAIN rows /\ rows[b].status = "voided")
  <2>1. rows' = rows
    <3>1. rows = [x \in DOMAIN rows |-> rows[x]]
      BY <1>1, LenProperties DEF TypeOK
    <3>2. CASE b \notin DOMAIN rows
      <4>1. rows' = rows \/ rows' = [rows EXCEPT ![b].released = TRUE]
        BY DEF ReleaseKey
      <4> HIDE DEF b
      <4> QED  BY <3>1, <3>2, <4>1
    <3>3. CASE rows[b].status # "voided"
      BY <3>3 DEF ReleaseKey
    <3> QED  BY <1>5, <3>2, <3>3
  <2>2. RowStep
    BY <2>1, RowsStand DEF ReleaseKey
  <2>3. b \notin VoidedHolders(key)
    BY <1>5 DEF VoidedHolders, Holders
  <2>4. VoidedHolders(key)' = VoidedHolders(key)
    BY <2>1 DEF VoidedHolders, Holders
  <2> QED  BY <1>3, <2>2, <2>3, <2>4
<1> QED  BY <1>4, <1>5

LEMMA ReleaseInv ==
  ASSUME ImportIInv, NEW j \in Job, ReleaseKey(j)
  PROVE  ImportIInv'
<1>1. PICK pc \in {"recheck", "insert again"} : Goto(j, pc)
  BY DEF ReleaseKey
<1>2. job[j].pc \in UnderWay /\ pc \in UnderWay
  BY DEF ReleaseKey, UnderWay
<1>3. PICK key \in SourceKey : key = Current(j).key
  BY <1>2, CurrentGroup
<1>4. RowStep /\ VoidedHolders(key)' = {}
  BY <1>3, ReleaseStep
<1> QED  BY <1>1, <1>2, <1>3, <1>4, GotoEffect, MoveStep

\* What a request that has reclaimed its source finds for it is on the books.
LEMMA FoundIsLive ==
  ASSUME ImportIInv, NEW j \in Job, job[j].pc \in {"recheck", "find again"},
         NEW b \in Holders(Current(j).key)
  PROVE  Live(b) /\ b \in DOMAIN rows /\ b \in BatchId /\ rows[b].source = Current(j).key
<1>1. VoidedHolders(Current(j).key) = {}
  BY DEF ImportIInv, JobOK, Reclaimed, UnderWay
<1>2. b \in DOMAIN rows /\ rows[b].status # "deleted" /\ rows[b].source = Current(j).key
  BY DEF Holders
<1>3. rows[b].status # "voided"
  BY <1>1 DEF VoidedHolders
<1>4. rows[b] \in Row /\ b \in BatchId
  BY <1>2, Table DEF ImportIInv, ImportTypeOK
<1> QED  BY <1>2, <1>3, <1>4 DEF Live, Row, Status

LEMMA DuplicateInv ==
  ASSUME ImportIInv, NEW j \in Job, job[j].pc \in {"recheck", "find again"},
         NEW b \in Holders(Current(j).key), Duplicate(j, b), UNCHANGED <<rows, answers>>
  PROVE  ImportIInv'
<1>1. RowStep
  BY RowsStand
<1>2. job[j].pc \in UnderWay /\ "duplicate" \in UnderWay \cup Ended /\ "duplicate" \notin UnderWay
  BY DEF UnderWay, Ended
<1>3. b \in DOMAIN rows' /\ b \in BatchId /\ rows'[b].source = Current(j).key
  BY FoundIsLive
<1>4. CASE Report(j, b, FALSE)
  BY <1>1, <1>2, <1>3, <1>4, ReportStep
<1>5. CASE Goto(j, "duplicate")
  <2>1. PICK key \in SourceKey : key = Current(j).key
    BY <1>2, CurrentGroup
  <2> QED  BY <1>1, <1>2, <1>5, <2>1, GotoEffect, MoveStep
<1> QED  BY <1>4, <1>5 DEF Duplicate

LEMMA RecheckInv ==
  ASSUME ImportIInv, NEW j \in Job, RecheckExisting(j)
  PROVE  ImportIInv'
<1>1. job[j].pc \in UnderWay /\ job[j].pc = "recheck" /\ "insert" \in UnderWay
  BY DEF RecheckExisting, UnderWay
<1>2. PICK key \in SourceKey : key = Current(j).key
  BY <1>1, CurrentGroup
<1>3. RowStep
  BY RowsStand DEF RecheckExisting
<1>4. CASE Goto(j, "insert")
  <2>1. VoidedHolders(key) = {}
    BY <1>1, <1>2 DEF ImportIInv, JobOK, Reclaimed
  <2>2. VoidedHolders(key)' = {}
    BY <1>3, <2>1, HoldersShrink
  <2> QED  BY <1>1, <1>2, <1>3, <1>4, <2>2, GotoEffect, MoveStep
<1>5. CASE \E b \in Holders(Current(j).key) : Duplicate(j, b)
  BY <1>1, <1>5, DuplicateInv DEF RecheckExisting
<1> QED  BY <1>4, <1>5 DEF RecheckExisting

LEMMA FindAgainInv ==
  ASSUME ImportIInv, NEW j \in Job, FindAfterViolation(j)
  PROVE  ImportIInv'
<1>1. job[j].pc \in UnderWay /\ job[j].pc = "find again" /\ "rethrown" \in UnderWay \cup Ended
      /\ "rethrown" \notin UnderWay
  BY DEF FindAfterViolation, UnderWay, Ended
<1>2. PICK key \in SourceKey : key = Current(j).key
  BY <1>1, CurrentGroup
<1>3. RowStep
  BY RowsStand DEF FindAfterViolation
<1>4. CASE Goto(j, "rethrown")
  BY <1>1, <1>2, <1>3, <1>4, GotoEffect, MoveStep
<1>5. CASE \E b \in Holders(Current(j).key) : rows[b].status # "voided" /\ Duplicate(j, b)
  BY <1>1, <1>5, DuplicateInv DEF FindAfterViolation
<1>6. \A b \in Holders(Current(j).key) : rows[b].status # "voided"
  BY <1>1, FoundIsLive DEF Live
<1> QED  BY <1>4, <1>5, <1>6 DEF FindAfterViolation

LEMMA InsertInv ==
  ASSUME ImportIInv, NEW j \in Job, InsertGroup(j)
  PROVE  ImportIInv'
<1>1. job[j].pc \in UnderWay
  BY DEF InsertGroup, UnderWay
<1>2. PICK key \in SourceKey : key = Current(j).key
  BY <1>1, CurrentGroup
<1>3. CASE /\ CreateBatch(Current(j).content, job[j].status, Current(j).key, TRUE)
           /\ Report(j, Len(rows) + 1, TRUE)
  <2>1. PICK c \in Content, st \in {"draft", "posted"} :
          c = Current(j).content /\ st = job[j].status
    BY <1>1, CurrentGroup, JobRecord DEF JobState
  <2>2. PICK n : n = Len(rows) + 1
    OBVIOUS
  <2>3. /\ TypeOK' /\ OneHolder' /\ ReleasedIsVoided' /\ Evolve
        /\ n \in BatchId /\ n \in DOMAIN rows' /\ n \notin DOMAIN rows
        /\ DOMAIN rows' = DOMAIN rows \cup {n}
        /\ rows'[n].source = key /\ rows'[n].content = c /\ rows'[n].status # "voided"
    BY <1>2, <1>3, <2>1, <2>2, CreateEvolves DEF ImportIInv, ImportTypeOK
  <2>4. RowStep
    BY <2>3 DEF RowStep
  <2> QED  BY <1>1, <1>2, <1>3, <2>1, <2>2, <2>3, <2>4, ReportStep
<1>4. ASSUME NEW pc \in {"find again", "rethrown"}, Goto(j, pc), UNCHANGED <<rows, answers>>
      PROVE  ImportIInv'
  <2>1. RowStep
    BY <1>4, RowsStand
  <2>2. VoidedHolders(key) = {}
    BY <1>2 DEF ImportIInv, JobOK, Reclaimed, InsertGroup, UnderWay
  <2>3. VoidedHolders(key)' = {}
    BY <2>1, <2>2, HoldersShrink
  <2>4. pc \in UnderWay \cup Ended /\ pc # "release" /\ pc # "done"
    BY DEF UnderWay, Ended
  <2> QED  BY <1>1, <1>2, <1>4, <2>1, <2>3, <2>4, GotoEffect, MoveStep
<1> QED  BY <1>3, <1>4 DEF InsertGroup

LEMMA UserInv ==
  ASSUME ImportIInv, UserStep
  PROVE  ImportIInv'
<1>1. TypeOK /\ OneHolder /\ ReleasedIsVoided
  BY DEF ImportIInv, ImportTypeOK
<1>2. PICK b \in UserFacing :
        \/ PostBatch(b) \/ DeleteDraft(b) \/ VoidLifecycle(b)
        \/ \E c \in Content : UpdateDraft(b, c)
  BY DEF UserStep
<1>3. b \in DOMAIN rows
  BY DEF UserFacing
<1>4. /\ rows' \in Seq(Row) /\ Len(rows') = Len(rows) /\ DOMAIN rows' = DOMAIN rows
      /\ Evolve
  <2>1. CASE VoidLifecycle(b)
    <3>1. PICK S : rows' = Voided(S)
      BY <2>1 DEF VoidLifecycle
    <3> QED  BY <1>1, <3>1, VoidEvolves
  <2> QED  BY <1>1, <1>2, <1>3, <2>1, PostEvolves, DeleteEvolves, UpdateEvolves
<1>5. answers' = answers /\ job' = job
  BY <1>2 DEF UserStep, PostBatch, DeleteDraft, VoidLifecycle, UpdateDraft
<1>6. RowStep
  BY <1>1, <1>4, <1>5, EvolveSame DEF RowStep, TypeOK
<1>7. \A j \in Job : JobOK(j)'
  BY <1>5, <1>6, JobStands
<1>8. CreatedOnce'
  BY <1>5 DEF ImportIInv, CreatedOnce
<1> QED  BY <1>5, <1>6, <1>7, <1>8 DEF ImportIInv, ImportTypeOK, RowStep

LEMMA CrashInv ==
  ASSUME ImportIInv, Crash
  PROVE  ImportIInv'
<1>1. RowStep
  BY RowsStand DEF Crash
<1>2. ASSUME NEW j \in Job
      PROVE  /\ job'[j] \in JobState
             /\ job'[j] = job[j] \/ job'[j].pc = "lost"
             /\ job'[j].results = job[j].results /\ job'[j].file = job[j].file
  <2>1. job[j] \in JobState
    BY JobRecord
  <2>2. job'[j] = job[j] \/ job'[j] = [job[j] EXCEPT !.pc = "lost"]
    BY DEF Crash
  <2> QED  BY <2>1, <2>2 DEF JobState, Ended
<1>3. job' \in [Job -> JobState]
  BY <1>2 DEF Crash
<1>4. ASSUME NEW j \in Job PROVE JobOK(j)'
  <2>1. CASE job'[j] = job[j]
    BY <1>1, <2>1, JobStands
  <2>2. CASE job'[j].pc = "lost"
    <3>1. Progress(j)'
      BY <1>2, <2>2 DEF ImportIInv, JobOK, Progress, UnderWay
    <3>2. Reclaimed(j)'
      BY <2>2 DEF Reclaimed, UnderWay
    <3>3. \A i \in DOMAIN job'[j].results : ReportHolds(j, i)'
      BY <1>1, <1>2, ReportsStand DEF ImportIInv, JobOK
    <3> QED  BY <3>1, <3>2, <3>3 DEF JobOK
  <2> QED  BY <1>2, <2>1, <2>2
<1>5. CreatedOnce'
  BY <1>2 DEF ImportIInv, CreatedOnce
<1> QED  BY <1>1, <1>3, <1>4, <1>5 DEF ImportIInv, ImportTypeOK, RowStep

LEMMA ImportInitInv == ImportInit => ImportIInv
<1> SUFFICES ASSUME ImportInit PROVE ImportIInv
  OBVIOUS
<1>1. /\ answers = {} /\ job = [j \in Job |-> Idle]
      /\ \/ rows = <<>>
         \/ \E c \in Content, k \in SourceKey : LinesAccepted(c.lines) /\ rows = <<LegacyVoided(c, k)>>
  <2>1. ASSUME NEW f \in File, NEW g \in Range(f)
        PROVE  g.content \in Content /\ g.key \in SourceKey
    <3>1. f \in Seq(Group)
      BY ImportAssumption
    <3>2. PICK i \in 1..Len(f) : g = f[i]
      BY <3>1, LenProperties DEF Range
    <3>3. g \in Group
      BY <3>1, <3>2, ElementOfSeq
    <3> QED  BY <3>3 DEF Group
  <2>2. ASSUME NEW g \in {h \in UNION {Range(f) : f \in File} : Importable(h.content)}
        PROVE  g.content \in Content /\ g.key \in SourceKey /\ LinesAccepted(g.content.lines)
    BY <2>1 DEF Importable
  <2> QED  BY <2>2 DEF ImportInit
<1>2. ASSUME NEW c \in Content, NEW k \in SourceKey, LinesAccepted(c.lines)
      PROVE  /\ LegacyVoided(c, k) \in Row
             /\ LegacyVoided(c, k).status = "voided" /\ ~LegacyVoided(c, k).released
  <2>1. c \in [memo : Memo, lines : Seq(Line)]
    BY JournalAssumption
  <2>2. c.lines \in Seq(StoredLine)
    BY <1>2, <2>1, AcceptedLinesStorable DEF LinesAccepted
  <2>3. c \in [memo : Memo, lines : Seq(StoredLine)]
    BY <2>1, <2>2
  <2>4. PlainRow(c, "posted", k, TRUE) \in Row /\ ~PlainRow(c, "posted", k, TRUE).released
    BY <2>3 DEF PlainRow, Row, Status, AuditAction
  <2> QED  BY <2>4 DEF LegacyVoided, Row, Status, AuditAction
<1>3. /\ rows \in Seq(Row) /\ Len(rows) \in {0, 1} /\ DOMAIN rows = 1..Len(rows)
      /\ \A x \in DOMAIN rows : ~rows[x].released
  <2>1. CASE rows = <<>>
    <3>1. Len(rows) = 0 /\ rows \in Seq(Row)
      BY <2>1, EmptySeq
    <3> QED  BY <2>1, <3>1, LenProperties
  <2>2. ASSUME NEW r \in Row, rows = <<r>>, ~r.released
        PROVE  /\ rows \in Seq(Row) /\ Len(rows) = 1 /\ DOMAIN rows = 1..Len(rows)
               /\ \A x \in DOMAIN rows : ~rows[x].released
    BY <2>2
  <2> QED  BY <1>1, <1>2, <2>1, <2>2
<1>4. TypeOK
  BY <1>1, <1>3, ImportAssumption, JournalAssumption DEF TypeOK
<1>5. OneHolder
  BY <1>3 DEF OneHolder
<1>6. ReleasedIsVoided
  BY <1>3 DEF ReleasedIsVoided
<1>7. \A j \in Job : job[j].pc = "idle" /\ job[j].results = <<>> /\ job[j].file = <<>>
  BY <1>1 DEF Idle
<1>8. job \in [Job -> JobState]
  BY <1>1, EmptySeq DEF Idle, JobState
<1>9. \A j \in Job : JobOK(j)
  <2> SUFFICES ASSUME NEW j \in Job PROVE JobOK(j)
    OBVIOUS
  <2>1. Progress(j)
    <3>1. Len(job[j].results) = 0 /\ Len(job[j].file) = 0 /\ job[j].pc = "idle"
      BY <1>7
    <3> QED  BY <3>1 DEF Progress, UnderWay
  <2>2. Reclaimed(j)
    BY <1>7 DEF Reclaimed, UnderWay
  <2> QED  BY <1>7, <2>1, <2>2, DOMAIN <<>> = {} DEF JobOK
<1>10. CreatedOnce
  BY <1>7, DOMAIN <<>> = {} DEF CreatedOnce
<1> QED  BY <1>4, <1>5, <1>6, <1>8, <1>9, <1>10 DEF ImportIInv, ImportTypeOK

LEMMA ImportNextInv == ImportIInv /\ [ImportNext]_importVars => ImportIInv'
<1> SUFFICES ASSUME ImportIInv, [ImportNext]_importVars PROVE ImportIInv'
  OBVIOUS
<1>1. ASSUME NEW j \in Job, ImportStep(j) PROVE ImportIInv'
  BY <1>1, StartInv, CheckInv, FindInv, ReleaseInv, RecheckInv, InsertInv, FindAgainInv
     DEF ImportStep
<1>2. CASE UserStep
  BY <1>2, UserInv
<1>3. CASE Crash
  BY <1>3, CrashInv
<1>4. CASE UNCHANGED importVars
  <2>1. rows' = rows /\ answers' = answers /\ job' = job
    BY <1>4 DEF importVars
  <2>2. RowStep
    BY <2>1, RowsStand
  <2>3. \A j \in Job : JobOK(j)'
    BY <2>1, <2>2, JobStands
  <2> QED  BY <2>1, <2>2, <2>3 DEF ImportIInv, ImportTypeOK, RowStep, CreatedOnce
<1> QED  BY <1>1, <1>2, <1>3, <1>4 DEF ImportNext
-----------------------------------------------------------------------------
(* Theorems *)

\* Every reachable state of an import satisfies the inductive invariant, with the
\* types of the rows and the requests in it.
THEOREM ImportStaysSound == ImportSpec => []ImportIInv
<1> QED  BY ImportInitInv, ImportNextInv, PTL DEF ImportSpec

\* createJournalBatchWithStatus: however many imports of a source overlap, stop in
\* the middle and are repeated, beside a user who voids and deletes what they made,
\* at most one draft or posted batch comes from the source.
THEOREM SourceJournaledOnce == ImportSpec => []OneLivePerSource
<1>1. ImportIInv => OneLivePerSource
  <2> SUFFICES ASSUME ImportIInv, NEW b \in DOMAIN rows, NEW c \in DOMAIN rows,
                      Live(b), Live(c), rows[b].source = rows[c].source,
                      rows[b].source # NoSource
               PROVE  b = c
    BY DEF OneLivePerSource
  <2>1. Holds(b) /\ Holds(c)
    BY DEF ImportIInv, ReleasedIsVoided, Live, Holds
  <2> QED  BY <2>1 DEF ImportIInv, OneHolder
<1> QED  BY <1>1, ImportStaysSound, PTL

\* importCsvJournals: what an import reports about a group is a batch made from
\* the group's source, a created batch holds the group's lines until a user edits
\* it, no two imports claim to have created the same batch, and an import that ends
\* as done has reported about every group.
THEOREM ReportsAreTrue == ImportSpec => []ResultsMatchFile
<1>1. ImportIInv => ResultsMatchFile
  <2> SUFFICES ASSUME ImportIInv PROVE ResultsMatchFile
    OBVIOUS
  <2>1. ASSUME NEW j \in Job
        PROVE  /\ job[j].pc = "done" => Len(job[j].results) = Len(job[j].file)
               /\ \A i \in DOMAIN job[j].results :
                    /\ rows[job[j].results[i].batchId].source = job[j].file[i].key
                    /\ job[j].results[i].created =>
                         \/ rows[job[j].results[i].batchId].content = job[j].file[i].content
                         \/ "update" \in rows[job[j].results[i].batchId].audit
    BY DEF ImportIInv, JobOK, Progress, ReportHolds
  <2>2. ASSUME NEW j \in Job, NEW k \in Job \ {j},
               NEW i \in DOMAIN job[j].results, NEW h \in DOMAIN job[k].results,
               job[j].results[i].created, job[k].results[h].created
        PROVE  job[j].results[i].batchId # job[k].results[h].batchId
    BY <2>2 DEF ImportIInv, CreatedOnce
  <2> QED  BY <2>1, <2>2 DEF ResultsMatchFile
<1> QED  BY <1>1, ImportStaysSound, PTL

\* What DuplicatesAreLive asks of one request.
Answered(j) ==
  /\ Len(job'[j].results) > Len(job[j].results) /\ ~Last(job'[j].results).created
       => Live(Last(job'[j].results).batchId)
  /\ job[j].pc # "duplicate" /\ job'[j].pc = "duplicate"
       => \E b \in Holders(Current(j).key) : Live(b)

LEMMA QuietStep ==
  ASSUME ImportIInv, NEW j \in Job, job'[j].results = job[j].results,
         \/ job'[j].pc = "duplicate" => job[j].pc = "duplicate"
         \/ \E b \in Holders(Current(j).key) : Live(b)
  PROVE  Answered(j)
<1>1. Len(job[j].results) \in Nat
  BY JobRecord
<1> QED  BY <1>1 DEF Answered

LEMMA CreatedStep ==
  ASSUME ImportIInv, NEW j \in Job, NEW b \in BatchId, NEW created \in BOOLEAN,
         Report(j, b, created), created \/ Live(b)
  PROVE  Answered(j)
<1>1. job'[j].results[Len(job'[j].results)] = [batchId |-> b, created |-> created]
  BY ReportEffect
<1>2. Last(job'[j].results) = [batchId |-> b, created |-> created]
  BY <1>1 DEF Last
<1>3. job'[j].pc # "duplicate"
  BY ReportEffect
<1> QED  BY <1>2, <1>3 DEF Answered

LEMMA DuplicateStep ==
  ASSUME ImportIInv, NEW j \in Job, job[j].pc \in {"recheck", "find again"},
         NEW b \in Holders(Current(j).key), Duplicate(j, b)
  PROVE  Answered(j)
<1>1. Live(b) /\ b \in BatchId
  BY FoundIsLive
<1>2. CASE Report(j, b, FALSE)
  BY <1>1, <1>2, CreatedStep
<1>3. CASE Goto(j, "duplicate")
  <2>1. job'[j].results = job[j].results
    BY <1>3, GotoEffect DEF Ended
  <2> QED  BY <1>1, <2>1, QuietStep
<1> QED  BY <1>2, <1>3 DEF Duplicate

\* findDuplicateBatch and DuplicateJournalBatchError: a group is skipped or refused
\* only for a batch that is a draft or posted at that moment.  What keeps a voided
\* batch from being that batch is the release before the second look.
THEOREM OnlyLiveBatchesBlock == ImportSpec => DuplicatesAreLive
<1>1. ASSUME ImportIInv, ImportNext, NEW j \in Job
      PROVE  Answered(j)
  <2>1. ASSUME NEW k \in Job, ImportStep(k), k # j PROVE Answered(j)
    <3>1. job'[j] = job[j]
      BY <1>1, <2>1 DEF ImportStep, StartImport, CheckGroup, FindExisting, ReleaseKey,
         RecheckExisting, InsertGroup, FindAfterViolation, Duplicate, Report, Goto,
         ImportIInv, ImportTypeOK
    <3> QED  BY <1>1, <3>1, QuietStep
  <2>2. CASE StartImport(j)
    <3>1. /\ job'[j].results = <<>> /\ job'[j].pc = "check" /\ Len(job[j].results) \in Nat
      BY <1>1, <2>2, JobRecord DEF StartImport, Idle, ImportIInv, ImportTypeOK
    <3> QED  BY <3>1, Len(<<>>) = 0 DEF Answered
  <2>3. ASSUME NEW pc \in UnderWay \cup Ended, Goto(j, pc), pc # "duplicate"
        PROVE  Answered(j)
    BY <1>1, <2>3, GotoEffect, QuietStep
  <2>4. CASE CheckGroup(j)
    BY <2>3, <2>4 DEF CheckGroup, UnderWay, Ended
  <2>5. CASE FindExisting(j)
    <3>1. CASE Goto(j, "recheck")
      BY <2>3, <3>1 DEF UnderWay
    <3>2. ASSUME NEW b, job' = [job EXCEPT ![j].pc = "release", ![j].found = b]
          PROVE  Answered(j)
      <4>1. job'[j].results = job[j].results /\ job'[j].pc = "release"
        BY <1>1, <3>2 DEF ImportIInv, ImportTypeOK, JobState
      <4> QED  BY <1>1, <4>1, QuietStep
    <3> QED  BY <2>5, <3>1, <3>2 DEF FindExisting
  <2>6. CASE ReleaseKey(j)
    BY <2>3, <2>6 DEF ReleaseKey, UnderWay
  <2>7. CASE RecheckExisting(j)
    <3>1. CASE Goto(j, "insert")
      BY <2>3, <3>1 DEF UnderWay
    <3>2. CASE \E b \in Holders(Current(j).key) : Duplicate(j, b)
      BY <1>1, <2>7, <3>2, DuplicateStep DEF RecheckExisting
    <3> QED  BY <2>7, <3>1, <3>2 DEF RecheckExisting
  <2>8. CASE InsertGroup(j)
    <3>1. ASSUME CreateBatch(Current(j).content, job[j].status, Current(j).key, TRUE),
                 Report(j, Len(rows) + 1, TRUE)
          PROVE  Answered(j)
      <4>1. Len(rows) \in Nat /\ Len(rows) < MaxBatches
        BY <1>1, <3>1, Table DEF CreateBatch, ImportIInv, ImportTypeOK
      <4>2. Len(rows) + 1 \in BatchId
        BY <4>1, JournalAssumption DEF BatchId
      <4> QED  BY <1>1, <3>1, <4>2, CreatedStep
    <3>2. ASSUME NEW pc \in {"find again", "rethrown"}, Goto(j, pc) PROVE Answered(j)
      BY <2>3, <3>2 DEF UnderWay, Ended
    <3> QED  BY <2>8, <3>1, <3>2 DEF InsertGroup
  <2>9. CASE FindAfterViolation(j)
    <3>1. CASE Goto(j, "rethrown")
      BY <2>3, <3>1 DEF Ended
    <3>2. ASSUME NEW b \in Holders(Current(j).key), Duplicate(j, b) PROVE Answered(j)
      BY <1>1, <2>9, <3>2, DuplicateStep DEF FindAfterViolation
    <3>3. \A b \in Holders(Current(j).key) : rows[b].status # "voided"
      BY <1>1, <2>9, FoundIsLive DEF FindAfterViolation, Live
    <3> QED  BY <2>9, <3>1, <3>2, <3>3 DEF FindAfterViolation
  <2>10. CASE UserStep
    BY <1>1, <2>10, QuietStep DEF UserStep
  <2>11. CASE Crash
    <3>1. job'[j] = job[j] \/ job'[j] = [job[j] EXCEPT !.pc = "lost"]
      BY <2>11 DEF Crash
    <3>2. job[j] \in JobState
      BY <1>1, JobRecord
    <3>3. job'[j].results = job[j].results /\ (job'[j].pc = job[j].pc \/ job'[j].pc = "lost")
      BY <3>1, <3>2 DEF JobState
    <3> QED  BY <1>1, <3>3, QuietStep
  <2> QED
    BY <1>1, <2>1, <2>2, <2>4, <2>5, <2>6, <2>7, <2>8, <2>9, <2>10, <2>11
       DEF ImportNext, ImportStep
<1>2. ImportIInv /\ [ImportNext]_importVars =>
        [\A j \in Job :
           /\ Len(job'[j].results) > Len(job[j].results) /\ ~Last(job'[j].results).created
                => Live(Last(job'[j].results).batchId)
           /\ job[j].pc # "duplicate" /\ job'[j].pc = "duplicate"
                => \E b \in Holders(Current(j).key) : Live(b)]_importVars
  BY <1>1 DEF Answered
<1> QED  BY <1>2, ImportStaysSound, PTL DEF ImportSpec, DuplicatesAreLive
=============================================================================
