----------------------- MODULE StatementClassification -----------------------
(***************************************************************************)
(* How a file that is given to Kevin is classified before anything is read *)
(* from it: lib/imports/statement-import/statement-classifier.  The words  *)
(* found in the text give points to each type of statement and to each     *)
(* account.  Kevin names no account, so none can be in conflict.           *)
(***************************************************************************)
EXTENDS Integers, FiniteSets

\* What a text gives away: the points of each type, and of each account beyond those
\* it has for being a statement account of the type.
ClueType(A) == [credit : Nat, bank : Nat, points : [A -> Nat]]

IsCard(clues) == clues.credit > clues.bank

Distance(a, b) == IF a > b THEN a - b ELSE b - a

Confidence(clues) ==
  LET score  == IF IsCard(clues) THEN clues.credit ELSE clues.bank
      margin == Distance(clues.credit, clues.bank)
  IN  CASE score >= 9 /\ margin >= 4 -> "high"
        [] score >= 5 /\ margin >= 2 /\ ~(score >= 9 /\ margin >= 4) -> "medium"
        [] OTHER -> "low"

\* An account of the expected type that is marked as a statement account has 6 points.
Score(clues, a) == 6 + clues.points[a]

\* The account that is best by 3 points, and has 8.
Standout(clues, S) ==
  {a \in S : /\ Score(clues, a) >= 8
             /\ \A b \in S \ {a} : Score(clues, a) - Score(clues, b) >= 3}

\* S holds the active statement accounts of the type that the classification expects.
\* An only candidate needs no points.
Matches(clues, S) ==
  CASE Confidence(clues) # "high" -> {}
    [] Confidence(clues) = "high" /\ Cardinality(S) = 1 -> S
    [] OTHER -> Standout(clues, S)

RequiresConfirmation(clues, S) ==
  \/ Confidence(clues) = "low"
  \/ Confidence(clues) = "high" /\ S # {} /\ Matches(clues, S) = {}
=============================================================================
