---------------------------- MODULE StatementBook ----------------------------
(***************************************************************************)
(* What statement imports promise their user: the lines of statements, and *)
(* the postings that put them on the books.  A line is on the books through *)
(* one posting at most, a posting comes and goes as a whole, and it stays  *)
(* when its lines are discarded.  Accounts, corrections, marks and the      *)
(* status of files do not exist at this level.                             *)
(***************************************************************************)
EXTENDS Naturals

CONSTANTS
  Line,      \* the lines that files may bring
  Import,    \* what is posted and unposted together
  ImportOf   \* the import of each line

VARIABLES
  lines,     \* the lines under review
  postings   \* sets of lines: what is on the books

bookVars == <<lines, postings>>

OnTheBooks == UNION postings

LinesOf(g) == {t \in lines : ImportOf[t] = g}

Init == lines = {} /\ postings = {}

\* A file is read: its lines have never been on the books.
Read(T) ==
  /\ T \cap (lines \cup OnTheBooks) = {}
  /\ lines' = lines \cup T
  /\ UNCHANGED postings

Discard(T) ==
  /\ lines' = lines \ T
  /\ UNCHANGED postings

Post(g, T) ==
  /\ T # {} /\ T \cap OnTheBooks = {}
  /\ postings' = postings \cup {T}
  /\ UNCHANGED lines

\* The journal page voids one posting, with all that was made of it.
TakeBack(T) ==
  /\ postings' = postings \ {T}
  /\ UNCHANGED lines

\* An import is unposted: every posting that has a line of it goes, and no other.
Unpost(g) ==
  /\ postings' = {T \in postings : T \cap LinesOf(g) = {}}
  /\ UNCHANGED lines

Next ==
  \/ \E T \in SUBSET Line : Read(T)
  \/ \E T \in SUBSET lines : Discard(T)
  \/ \E g \in Import : \E T \in SUBSET LinesOf(g) : Post(g, T)
  \/ \E T \in postings : TakeBack(T)
  \/ \E g \in Import : Unpost(g)

Spec == Init /\ [][Next]_bookVars
===============================================================================
