---------------------------- MODULE AccountImport ----------------------------
(***************************************************************************)
(* The chart-of-accounts import as parseCoaCsv and planCoaImport compute   *)
(* it: a file is a sequence of rows that parsed, a chart is a function     *)
(* from account ids to the accounts one SELECT has read, and a plan is     *)
(* what the transaction that follows will write.                           *)
(* Its only caller always passes supersedeMissing, so that flag is gone.   *)
(***************************************************************************)
EXTENDS Integers, Sequences, SequencesExt

CONSTANTS
  Code,      \* account codes
  Name       \* account names, the protected ones among them (_ stands for a space)

\* CLASSIFICATION_TO_TYPE; classifications of one type that nothing here tells
\* apart are one.
TypeOf == [current_asset     |-> "asset",
           fixed_asset       |-> "asset",
           retained_earnings |-> "equity",
           other_equity      |-> "equity",
           operating_expense |-> "expense"]

Classification == DOMAIN TypeOf
AccountType == {"asset", "equity", "expense"}

\* A null classification, which only an account made by hand can have, keeps
\* the type chosen for it.
Unclassified == "none"

\* What a row of the file holds after parseMode, parseType, parseClassification,
\* parseBoolean and validateClassificationMatchesType have let it through.
CoaRow ==
  {row \in [mode : {"none", "create", "update", "delete"}, code : Code, name : Name,
            type : AccountType, classification : Classification,
            isActive : {"none", "yes", "no"}] :
     TypeOf[row.classification] = row.type}

RequiredClassification ==
  [Retained_Earnings        |-> "retained_earnings",
   Opening_Balance_Equity   |-> "other_equity",
   Prior_Period_Adjustments |-> "other_equity"]

ProtectedName == DOMAIN RequiredClassification

\* isProtectedSystemAccount of the planner: by name, among equity accounts.
Protected(account) == account.type = "equity" /\ account.name \in ProtectedName

IsRetainedEarnings(account) ==
  account.type = "equity" /\ account.name = "Retained_Earnings"
-----------------------------------------------------------------------------
(* One row against the chart *)

Codes(chart) == {chart[i].code : i \in DOMAIN chart}

ByCode(chart, c) == CHOOSE i \in DOMAIN chart : chart[i].code = c

\* effectiveMode: with supersedeMissing, a create row for a known code updates.
Mode(row, chart) ==
  CASE row.code \in Codes(chart) /\ row.mode \in {"none", "create"} -> "update"
    [] row.code \notin Codes(chart) /\ row.mode = "none"            -> "create"
    [] OTHER                                                        -> row.mode

NewAccount(row) ==
  [code |-> row.code, name |-> row.name, type |-> row.type,
   classification |-> row.classification, isActive |-> row.isActive # "no"]

\* The update a row asks for; what it may not change has been refused.
Updated(row, account) ==
  [account EXCEPT !.name = row.name,
                  !.type = row.type,
                  !.classification = row.classification,
                  !.isActive = IF row.isActive = "none" THEN @ ELSE row.isActive = "yes"]

UpdateRefused(row, account, active) ==
  IF Protected(account)
  THEN \/ row.name # account.name
       \/ row.type # "equity"
       \/ row.classification # RequiredClassification[account.name]
  ELSE active /\ <<row.type, row.classification>> # <<account.type, account.classification>>

DeleteRefused(account, active) == Protected(account) \/ active

RowRefused(row, chart, used) ==
  LET known == row.code \in Codes(chart)
      i     == ByCode(chart, row.code)
  IN  \/ Mode(row, chart) = "create" /\ (known \/ Protected(row))
      \/ Mode(row, chart) # "create" /\ ~known
      \/ Mode(row, chart) = "update" /\ UpdateRefused(row, chart[i], i \in used)
      \/ Mode(row, chart) = "delete" /\ DeleteRefused(chart[i], i \in used)
-----------------------------------------------------------------------------
(* The whole file *)

RowsOf(file) == {file[k] : k \in DOMAIN file}

CodesTwice(file) ==
  \E k, l \in DOMAIN file : k # l /\ file[k].code = file[l].code

\* The first import into an empty chart reads no Mode.
InitialRefused(file) ==
  \/ CodesTwice(file)
  \/ \A row \in RowsOf(file) : ~IsRetainedEarnings(row)
  \/ \E row \in RowsOf(file) :
       Protected(row) /\ row.classification # RequiredClassification[row.name]

InitialPlan(file) ==
  [create |-> [k \in DOMAIN file |-> NewAccount(file[k])],
   update |-> <<>>, delete |-> {}]

RowFor(file, c) == CHOOSE row \in RowsOf(file) : row.code = c

ToDelete(file, chart) ==
  {i \in DOMAIN chart :
     \E row \in RowsOf(file) : row.code = chart[i].code /\ Mode(row, chart) = "delete"}

\* Fault variant of Superseded: the system's own accounts are not spared.
SupersedesAll(account) == account.isActive

\* An account the file does not list is switched off, unless it is protected.
Superseded(account) == ~Protected(account) /\ account.isActive

AfterFile(file, chart) ==
  [i \in DOMAIN chart \ ToDelete(file, chart) |->
     IF \E row \in RowsOf(file) : row.code = chart[i].code
     THEN Updated(RowFor(file, chart[i].code), chart[i])
     ELSE [chart[i] EXCEPT !.isActive = @ /\ ~Superseded(chart[i])]]

\* In which order the accounts are inserted shows in nothing.
BulkPlan(file, chart) ==
  LET after == AfterFile(file, chart)
      new   == {row \in RowsOf(file) : row.code \notin Codes(chart)}
  IN  [create |-> SetToSeq({NewAccount(row) : row \in new}),
       update |-> [i \in {x \in DOMAIN after : after[x] # chart[x]} |-> after[i]],
       delete |-> ToDelete(file, chart)]

BulkRefused(file, chart, used) ==
  \/ CodesTwice(file)
  \/ \E row \in RowsOf(file) : RowRefused(row, chart, used)
  \/ \A i \in DOMAIN AfterFile(file, chart) : ~IsRetainedEarnings(AfterFile(file, chart)[i])

\* planCoaImport: used holds the accounts some journal line names.
Refused(file, chart, used) ==
  IF DOMAIN chart = {} THEN InitialRefused(file) ELSE BulkRefused(file, chart, used)

Plan(file, chart) ==
  IF DOMAIN chart = {} THEN InitialPlan(file) ELSE BulkPlan(file, chart)

ChangesNothing(plan) ==
  plan.create = <<>> /\ DOMAIN plan.update = {} /\ plan.delete = {}
==============================================================================
