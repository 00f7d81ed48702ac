-------------------------------- MODULE Kevin --------------------------------
(***************************************************************************)
(* What Kevin, the assistant, does to the books: lib/kevin/service.ts,     *)
(* journal-actions-service.ts, action-history-service.ts and the routes    *)
(* that call them.                                                         *)
(*                                                                         *)
(* A request of Kevin's page is handled in several awaits, each a step     *)
(* here: the checkpoint, the write, the record of the action and the       *)
(* message are separate transactions.  Between them other requests of      *)
(* Kevin go on, and the user works on the other pages or restores          *)
(* checkpoints.  A request that a crash cuts off is one that takes no      *)
(* further step, which is among the behaviours, as nothing is fair.  Which *)
(* accounts or journals the model behind Kevin proposes is any of a set.   *)
(***************************************************************************)
EXTENDS TimeMachine

CONSTANTS
  Request,        \* requests that the page sends; one creates at most one thread, named after it
  Proposal        \* the journals that Kevin proposes

NoThread == "none"

ASSUME KevinAssumption ==
  Proposal \subseteq [memo : Memo, lines : Seq(Line)] /\ NoThread \notin Request

VARIABLE asks     \* per request: where it is and what it has read so far

kevinVars == <<timeVars, asks>>

NotAsked ==
  [pc |-> "idle", kind |-> "none", thread |-> NoThread, content |-> <<>>, status |-> "none",
   snapshot |-> None, batch |-> None]

AskAt(r, pc) == asks[r].pc = pc

AskGoesTo(r, pc) == asks' = [asks EXCEPT ![r].pc = pc]

\* messages and actions refer to the thread they belong to.
ThreadExists(r) == asks[r].thread \in threads

InChart(c) == \A i \in DOMAIN c.lines : c.lines[i].account \in chart

Untouched == UNCHANGED <<tables, answers, snapshots>>
-----------------------------------------------------------------------------
(* The page and the start of a request *)

\* The page shows the latest thread and keeps its id until it is loaded again.
OpenPage(r) ==
  /\ AskAt(r, "idle")
  /\ \E th \in threads \cup {NoThread} :
       asks' = [asks EXCEPT ![r].pc = "page", ![r].thread = th]
  /\ Untouched

\* POST /api/kevin/journals: unknown and inactive accounts are refused.
SendJournal(r, c, st) ==
  /\ AskAt(r, "page") /\ InChart(c)
  /\ asks' = [asks EXCEPT ![r].pc = "checkpoint", ![r].kind = "journal",
                          ![r].content = c, ![r].status = st]
  /\ Untouched

\* POST /api/kevin/chat, with the thread of the page or, if it is gone, a new one.
SendChat(r, kind) ==
  /\ AskAt(r, "page")
  /\ LET th == IF ThreadExists(r) THEN asks[r].thread ELSE r
     IN  /\ threads' = threads \cup {th}
         /\ asks' = [asks EXCEPT ![r].pc = "message", ![r].kind = kind, ![r].thread = th]
  /\ UNCHANGED <<rows, imports, txns, chart, actions, answers, snapshots>>

\* POST /api/kevin/actions/[id]/undo
SendUndo(r, i) ==
  /\ AskAt(r, "page")
  /\ asks' = [asks EXCEPT ![r].pc = "restore", ![r].kind = "undo_route",
                          ![r].snapshot = actions[i].snapshot]
  /\ Untouched

AfterMessage(kind) ==
  CASE kind = "accounts" -> "propose" [] kind = "standard_chart" -> "checkpoint"
    [] kind = "undo" -> "find" [] kind = "question" -> "reply"

StoreMessage(r) ==
  /\ AskAt(r, "message")
  /\ AskGoesTo(r, IF ThreadExists(r) THEN AfterMessage(asks[r].kind) ELSE "refused")
  /\ Untouched

\* The model proposes accounts, or it asks back or fails and that is all.
ProposeAccounts(r) ==
  /\ AskAt(r, "propose")
  /\ \/ AskGoesTo(r, "checkpoint")
     \/ asks' = [asks EXCEPT ![r].pc = "reply", ![r].kind = "question"]
  /\ Untouched
-----------------------------------------------------------------------------
(* Writing to the books *)

Checkpoint(r) ==
  /\ AskAt(r, "checkpoint")
  /\ CreateSnapshot("kevin_action")
  /\ asks' = [asks EXCEPT ![r].pc = "write", ![r].snapshot = Len(snapshots) + 1]
  /\ UNCHANGED <<tables, answers>>

\* Nothing makes a second journal of the same proposal a duplicate: the source
\* reference holds the time.
WriteJournal(r) ==
  /\ AskAt(r, "write") /\ asks[r].kind = "journal"
  /\ IF InChart(asks[r].content)
       THEN /\ CreateBatch(asks[r].content, asks[r].status, NoSource, TRUE)
            /\ asks' = [asks EXCEPT ![r] = [@ EXCEPT !.pc = "record", !.batch = Len(rows) + 1,
                                                     !.content = <<>>, !.status = "none"]]
       ELSE UNCHANGED <<rows, answers>> /\ AskGoesTo(r, "refused")
  /\ UNCHANGED <<imports, txns, chart, threads, actions, snapshots>>

\* The new accounts are inserted in one transaction, or none is and Kevin says so.
WriteAccounts(r) ==
  /\ AskAt(r, "write") /\ asks[r].kind \in {"accounts", "standard_chart"}
  /\ \/ /\ \E S \in SUBSET NewAccount : chart' = chart \cup S
        /\ AskGoesTo(r, "reply")
     \/ /\ UNCHANGED chart
        /\ IF asks[r].kind = "accounts"
             THEN asks' = [asks EXCEPT ![r].pc = "reply", ![r].kind = "question"]
             ELSE AskGoesTo(r, "refused")
  /\ UNCHANGED <<rows, imports, txns, threads, actions, answers, snapshots>>

\* The foreign keys of kevin_actions: a thread that exists, a journal that exists.
Recordable(r) ==
  /\ asks[r].thread \in threads \cup {NoThread}
  /\ asks[r].batch # None => rows[asks[r].batch].status # "deleted"

Action(r) ==
  [type |-> asks[r].kind, snapshot |-> asks[r].snapshot, journalBatchId |-> asks[r].batch]

RecordAction(r) ==
  /\ AskAt(r, "record")
  /\ IF Recordable(r)
       THEN /\ actions' = Append(actions, Action(r))
            /\ AskGoesTo(r, IF asks[r].kind = "journal" /\ asks[r].thread # NoThread
                         THEN "reply" ELSE "done")
       ELSE UNCHANGED actions /\ AskGoesTo(r, "refused")
  /\ UNCHANGED <<rows, imports, txns, chart, threads, answers, snapshots>>

\* Kevin's own message; changes of the chart are recorded after it.
Reply(r) ==
  /\ AskAt(r, "reply")
  /\ AskGoesTo(r, IF ~ThreadExists(r) THEN "refused"
             ELSE IF asks[r].kind \in {"accounts", "standard_chart"} THEN "record" ELSE "done")
  /\ Untouched
-----------------------------------------------------------------------------
(* Undoing *)

CanUndo(action) == action.type # "standard_chart"

\* The latest action that can be undone.
LatestToUndo(i) ==
  CanUndo(actions[i]) /\ \A j \in DOMAIN actions : j > i => ~CanUndo(actions[j])

FindLatest(r) ==
  /\ AskAt(r, "find")
  /\ \/ \E i \in DOMAIN actions :
          /\ LatestToUndo(i)
          /\ asks' = [asks EXCEPT ![r].pc = "read", ![r].snapshot = actions[i].snapshot]
     \/ (\A i \in DOMAIN actions : ~CanUndo(actions[i])) /\ AskGoesTo(r, "reply")
  /\ Untouched

\* It is looked up again by its id.
ReadAction(r) ==
  /\ AskAt(r, "read")
  /\ AskGoesTo(r, IF \E a \in Range(actions) : a.snapshot = asks[r].snapshot
               THEN "restore" ELSE "refused")
  /\ Untouched

UndoRestore(r) ==
  /\ AskAt(r, "restore")
  /\ Restore(asks[r].snapshot)
  /\ AskGoesTo(r, IF asks[r].kind = "undo_route" THEN "done" ELSE "thread_again")

\* The conversation may have been newer than the checkpoint.
EnsureThread(r) ==
  /\ AskAt(r, "thread_again")
  /\ threads' = threads \cup {asks[r].thread}
  /\ AskGoesTo(r, "reply")
  /\ UNCHANGED <<rows, imports, txns, chart, actions, answers, snapshots>>
-----------------------------------------------------------------------------
(* What else happens *)

\* Fault variant of Detached: the foreign key does not let go of a deleted journal.
StillAttached(b) == actions

\* An action of Kevin outlives a draft that the user deletes.
Detached(b) ==
  [i \in DOMAIN actions |-> IF actions[i].journalBatchId = b
                              THEN [actions[i] EXCEPT !.journalBatchId = None] ELSE actions[i]]

UserOnJournals ==
  /\ \E b \in UserFacing :
       \/ PostBatch(b) /\ UNCHANGED actions
       \/ VoidLifecycle(b) /\ UNCHANGED actions
       \/ (\E c \in Content : InChart(c) /\ AdjustBatch(b, c)) /\ UNCHANGED actions
       \/ DeleteDraft(b) /\ actions' = Detached(b)
  /\ UNCHANGED <<imports, txns, chart, threads, snapshots>>

\* The accounts to choose from are those in the chart.
UserOnStatements ==
  /\ \/ \E s \in Statement : Upload(s) /\ imports'[s].linkedAccountId \in chart \cup {NoAccount}
     \/ \E s \in Statement, r \in Run : Extract(s, r)
     \/ \E t \in DOMAIN txns, a \in Category \cap chart : Categorize(t, a)
     \/ \E g \in ImportBatch : PostStatement(g) \/ UnpostStatement(g)
  /\ UNCHANGED <<chart, threads, actions, snapshots>>

KevinStep(r) ==
  \/ StoreMessage(r) \/ ProposeAccounts(r) \/ Checkpoint(r) \/ WriteJournal(r)
  \/ WriteAccounts(r) \/ RecordAction(r) \/ Reply(r)
  \/ FindLatest(r) \/ ReadAction(r) \/ UndoRestore(r) \/ EnsureThread(r)

SendRequest(r) ==
  \/ OpenPage(r)
  \/ \E c \in Proposal, st \in {"draft", "posted"} : SendJournal(r, c, st)
  \/ \E kind \in {"accounts", "standard_chart", "undo", "question"} : SendChat(r, kind)
  \/ \E i \in DOMAIN actions : SendUndo(r, i)

KevinInit == TimeMachineInit /\ asks = [r \in Request |-> NotAsked]

KevinNext ==
  \/ \E r \in Request : SendRequest(r) \/ KevinStep(r)
  \/ (UserOnJournals \/ UserOnStatements \/ TimeMachinePage) /\ UNCHANGED asks

KevinSpec == KevinInit /\ [][KevinNext]_kevinVars
-----------------------------------------------------------------------------
(* Properties *)

\* An action on record names a checkpoint from before it and, as long as it has one,
\* a journal that is there and is not in that checkpoint.
ActionsUndoable ==
  \A a \in Range(actions) :
    LET payload == snapshots[a.snapshot].payload
    IN  /\ a \notin Range(payload.actions)
        /\ a.journalBatchId # None =>
             rows[a.journalBatchId].status # "deleted" /\ a.journalBatchId \notin DOMAIN payload.rows

\* Undoing an action removes its journal and the record of the action, whatever was
\* done or restored in between, so the next undo takes the action before it.
UndoTakesBack ==
  [][\A r \in Request, i \in DOMAIN actions :
       /\ AskAt(r, "restore") /\ asks'[r].pc # "restore"
       /\ actions[i].snapshot = asks[r].snapshot
       => /\ actions[i] \notin Range(actions')
          /\ actions[i].journalBatchId # None =>
               rows'[actions[i].journalBatchId].status = "deleted"]_kevinVars
=============================================================================
