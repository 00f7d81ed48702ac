------------------------------ MODULE EntryBook ------------------------------
(***************************************************************************)
(* What the journal promises its user: a book of entries.  An entry is a   *)
(* draft or it is posted; editing it replaces its content, removing it     *)
(* takes it out of the book, and the balance of every account on every day *)
(* is moved by the posted entries and by nothing else.  Revisions,         *)
(* reversals and voided batches do not exist at this level.                *)
(***************************************************************************)
EXTENDS JournalLines

CONSTANTS Entry, Account, Day, Content

VARIABLES entry, balance

bookVars == <<entry, balance>>

Blank == [state |-> "none"]
Removed == [state |-> "removed"]

\* The balances after the lines of c are added (sign 1) or taken out (sign -1).
Moved(bal, c, sign) ==
  [p \in Account \X Day |-> bal[p] + sign * NetOf(c.lines, p[1], p[2])]

Init ==
  /\ entry = [e \in Entry |-> Blank]
  /\ balance = [p \in Account \X Day |-> 0]

Enter(e, c) ==
  /\ entry[e] = Blank
  /\ \/ /\ entry' = [entry EXCEPT ![e] = [state |-> "draft", content |-> c]]
        /\ UNCHANGED balance
     \/ /\ entry' = [entry EXCEPT ![e] = [state |-> "posted", content |-> c]]
        /\ balance' = Moved(balance, c, 1)

Post(e) ==
  /\ entry[e].state = "draft"
  /\ entry' = [entry EXCEPT ![e].state = "posted"]
  /\ balance' = Moved(balance, entry[e].content, 1)

Edit(e, c) ==
  /\ entry[e].state \in {"draft", "posted"}
  /\ entry' = [entry EXCEPT ![e].content = c]
  /\ balance' = IF entry[e].state = "draft" THEN balance
                ELSE Moved(Moved(balance, entry[e].content, -1), c, 1)

Remove(e) ==
  /\ entry[e].state \in {"draft", "posted"}
  /\ entry' = [entry EXCEPT ![e] = Removed]
  /\ balance' = IF entry[e].state = "draft" THEN balance
                ELSE Moved(balance, entry[e].content, -1)

Step(e) ==
  \/ \E c \in Content : Enter(e, c) \/ Edit(e, c)
  \/ Post(e)
  \/ Remove(e)

\* Each step changes one entry.
Next == \E e \in Entry : entry'[e] # entry[e] /\ Step(e)

Spec == Init /\ [][Next]_bookVars
=============================================================================
