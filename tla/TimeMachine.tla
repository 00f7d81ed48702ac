----------------------------- MODULE TimeMachine -----------------------------
(***************************************************************************)
(* Checkpoints of an organization's books and their restoration:           *)
(* lib/accounting/time-machine-service.ts.                                 *)
(*                                                                         *)
(* A checkpoint holds the rows of every table of the organization but      *)
(* users, the audit log and the checkpoints themselves.  Both operations   *)
(* are one transaction, which the one connection of PGlite keeps apart     *)
(* from every other, and one step here.  Of the tables that nothing here   *)
(* looks into (settings, mapping rules, memories, documents) the model     *)
(* keeps none.                                                             *)
(***************************************************************************)
EXTENDS StatementPosting

CONSTANTS
  MaxSnapshots,  \* bound: how many checkpoints are ever taken
  NewAccount     \* the accounts that are not in the chart from the start

ASSUME TimeMachineAssumption ==
  /\ MaxSnapshots \in Nat
  /\ NewAccount \subseteq OrgAccount

VARIABLES
  chart,      \* accounts: those in the chart of accounts
  threads,    \* kevin_threads
  actions,    \* kevin_actions, oldest first
  snapshots   \* time_machine_snapshots, oldest first: the id is the index

tables == <<rows, imports, txns, chart, threads, actions>>

timeVars == <<tables, answers, snapshots>>

\* captureOrgPayload
Payload ==
  [rows |-> rows, imports |-> imports, txns |-> txns,
   chart |-> chart, threads |-> threads, actions |-> actions]

Snapshot(reason) == [reason |-> reason, payload |-> Payload]

CreateSnapshot(reason) ==
  /\ Len(snapshots) < MaxSnapshots
  /\ snapshots' = Append(snapshots, Snapshot(reason))

\* The batches of the checkpoint are back as they were; those that came later are
\* gone.  The audit log is not touched, and no id is given out twice.
RestoredRows(payload) ==
  [b \in DOMAIN rows |->
     IF b \in DOMAIN payload.rows
       THEN [payload.rows[b] EXCEPT !.audit = rows[b].audit]
       ELSE [rows[b] EXCEPT !.status = "deleted"]]

\* Fault variant of RestoredTxns: parsed_transactions is not among the tables.
TxnsLeftAlone(payload) == txns

RestoredTxns(payload) == payload.txns

\* Fault variant of RestoredActions: kevin_actions is not among the tables.
ActionsLeftAlone(payload) == actions

RestoredActions(payload) == payload.actions

Restore(n) ==
  LET payload == snapshots[n].payload
  IN  /\ CreateSnapshot("pre_restore")
      /\ rows'    = RestoredRows(payload)
      /\ imports' = payload.imports
      /\ txns'    = RestoredTxns(payload)
      /\ chart'   = payload.chart
      /\ threads' = payload.threads
      /\ actions' = RestoredActions(payload)
      /\ UNCHANGED answers

\* The two operations of the Time Machine page; it lists the newest 30 checkpoints,
\* the route takes any.
TimeMachinePage ==
  \/ CreateSnapshot("manual") /\ UNCHANGED <<tables, answers>>
  \/ \E n \in DOMAIN snapshots : Restore(n)

TimeMachineInit ==
  /\ PostingInit
  /\ chart = OrgAccount \ NewAccount
  /\ threads = {} /\ actions = <<>> /\ snapshots = <<>>

AccountsOf(b) == {rows[b].content.lines[i].account : i \in DOMAIN rows[b].content.lines}
-----------------------------------------------------------------------------
(* Properties *)

\* After any restore the tables still refer to each other: journals to accounts in
\* the chart, corrections to the journals they correct, statement lines to the
\* journal they are posted in.
ReferencesIntact ==
  /\ \A b \in DOMAIN rows : rows[b].status # "deleted" =>
       /\ AccountsOf(b) \subseteq chart
       /\ rows[b].originalBatchId # None => rows[rows[b].originalBatchId].status = rows[b].status
  /\ \A t \in DOMAIN txns :
       txns[t].journalBatchId # None => rows[txns[t].journalBatchId].status # "deleted"
=============================================================================
