----------------------------- MODULE Certificate -----------------------------
(***************************************************************************)
(* What a certification promises, independently of how it comes about.     *)
(* An examination is answered once, and its answer stands.  A unit is      *)
(* graded by an answer to an examination of its own, on the instructions   *)
(* that examination was about; some units may instead be certified by a    *)
(* declaration.  Where nothing was heard, a unit that has a grade keeps    *)
(* it, unless it is one of those.  A grade may be withdrawn at any time,   *)
(* and a withdrawn one comes back only by an answer or a declaration.  An  *)
(* examination is settled only when it was answered.  Exams implements     *)
(* this specification.                                                     *)
(***************************************************************************)
CONSTANTS
    Units,
    Bases,      \* what instructions a unit may be certified on
    Exams,      \* records with a unit and a basis
    Deferrable  \* units that may be certified by declaration

VARIABLES
    said,       \* [exam, grade]: what the examiner has answered
    standing,   \* what a unit stands at: its grade, on which basis, by what
    settled     \* examinations The Office waits for no longer

certificateVars == <<said, standing, settled>>

Grades == {"certified", "provisional", "failed", "revoked"}
Withdrawn == {"stale_instructions", "stale_forge"}
Waiting == {"in_training", "never_certified"}

Ungraded == [grade |-> "none"]

Init ==
    /\ said = {}
    /\ standing = [u \in Units |-> Ungraded]
    /\ settled = {}

Answer(e, g) ==
    /\ \A a \in said : a.exam # e
    /\ said' = said \cup {[exam |-> e, grade |-> g]}
    /\ UNCHANGED <<standing, settled>>

Stands(e, g) ==
    standing' = [standing EXCEPT ![e.unit] = [grade |-> g, basis |-> e.basis, by |-> "exam"]]

Award(e, g) ==
    /\ [exam |-> e, grade |-> g] \in said
    /\ Stands(e, g)
    /\ UNCHANGED <<said, settled>>

\* No answer, so far.
Await(e) ==
    /\ standing[e.unit] = Ungraded \/ e.unit \in Deferrable
    /\ \E g \in Waiting : Stands(e, g)
    /\ UNCHANGED <<said, settled>>

Declare(u, b) ==
    /\ standing' = [standing EXCEPT ![u] = [grade |-> "certified", basis |-> b, by |-> "declaration"]]
    /\ UNCHANGED <<said, settled>>

\* Of any number of units at once.
Withdraw(units) ==
    /\ \E g \in [units -> Withdrawn] :
          standing' = [u \in Units |->
                         IF u \in units THEN [standing[u] EXCEPT !.grade = g[u]] ELSE standing[u]]
    /\ UNCHANGED <<said, settled>>

Settle(e) ==
    /\ \E a \in said : a.exam = e
    /\ settled' = settled \cup {e}
    /\ UNCHANGED <<said, standing>>

Next ==
    \/ \E e \in Exams, g \in Grades : Answer(e, g) \/ Award(e, g)
    \/ \E e \in Exams : Await(e) \/ Settle(e)
    \/ \E u \in Deferrable, b \in Bases : Declare(u, b)
    \/ \E units \in SUBSET {u \in Units : standing[u] # Ungraded} : Withdraw(units)

Spec == Init /\ [][Next]_certificateVars
=============================================================================
