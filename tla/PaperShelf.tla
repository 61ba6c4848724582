------------------------------ MODULE PaperShelf ------------------------------
(***************************************************************************)
(* What the local database manager promises, without files, previews and   *)
(* errors: a shelf of papers and the part of it that is shown.  A step     *)
(* concerns one paper, as a whole: it is put on the shelf, exchanged or    *)
(* taken off, and what is shown follows in the same step.  No paper is     *)
(* shown that is not on the shelf, a new one is shown at once, and the     *)
(* process may end at any time, with which only what is shown is lost.     *)
(***************************************************************************)
CONSTANTS
  Papers,   \* identifiers
  Copies,   \* what can be kept of a paper
  Nothing   \* what is kept of a paper that is not on the shelf

VARIABLES
  kept,     \* kept[p]: what is on the shelf of p
  shown,    \* the identifiers of the papers that are shown
  given     \* the identifiers that are in use, on the shelf or not

vars == <<kept, shown, given>>

OnShelf == {p \in Papers : kept[p] # Nothing}

Init == kept = [p \in Papers |-> Nothing] /\ shown = {} /\ given = {}

(* A step that should show the papers S does, or ends with the process.    *)
Show(S) == shown' = S \/ shown' = {}

(* Of p there is now a copy on the shelf, and of other papers what was.    *)
Keeps(p) == kept'[p] \in Copies /\ kept' = [kept EXCEPT ![p] = kept'[p]]

Put(p) ==
  /\ p \notin given
  /\ given' = given \cup {p}
  /\ Keeps(p) /\ Show(shown \cup {p})

(* An attempt to put p on the shelf gets no further than its identifier.   *)
Attempt(p) ==
  /\ given' = given \cup {p}
  /\ UNCHANGED kept /\ Show(shown)

(* A copy of a known paper replaces the one on the shelf, or comes back to *)
(* it without being shown so far.                                          *)
Exchange(p) ==
  /\ p \in given
  /\ Keeps(p) /\ Show(shown) /\ UNCHANGED given

TakeOff(p) ==
  /\ kept[p] # Nothing
  /\ kept' = [kept EXCEPT ![p] = Nothing]
  /\ Show(shown \ {p}) /\ UNCHANGED given

(* Somebody else looks at the shelf: some papers are theirs to see.        *)
LookAgain ==
  /\ shown' \subseteq OnShelf
  /\ UNCHANGED <<kept, given>>

Next ==
  \/ \E p \in Papers : Put(p) \/ Attempt(p) \/ Exchange(p) \/ TakeOff(p)
  \/ LookAgain

Spec == Init /\ [][Next]_vars
=============================================================================
