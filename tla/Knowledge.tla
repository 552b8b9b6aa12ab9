------------------------------ MODULE Knowledge ------------------------------
(***************************************************************************)
(* The compliance library of one venture (broker/knowledge.py) and whether *)
(* the venture is declared in simulation (broker/simulation.py): the text  *)
(* of each entry, whose account is its author, who approved it, who        *)
(* recorded counsel's review of it, and the humans who read before they    *)
(* write.                                                                  *)
(*                                                                         *)
(* An entry's status is "approved" exactly when approved_by is not null    *)
(* (migration 0057's CHECK), so it is not kept apart.                      *)
(***************************************************************************)
EXTENDS Naturals

CONSTANTS
    Entries,    \* entry_ref
    Texts,      \* the words of an entry
    Humans,     \* accounts with the roles these acts ask for
    None

ASSUME KnowledgeConstants == None \notin Entries \cup Texts \cup Humans

VARIABLES
    text,           \* the entry's text, or None: no row
    authored_by,    \* the column: the account of the first author
    approved_by,
    counsel_by,     \* counsel_recorded_by, with counsel_reviewed_at
    simulated,      \* a live declaration of simulation
    opening,        \* what a human has read and is about to write, or None
    \* history, read by properties only
    approvedText,   \* what the approver read
    counselText,    \* what the recorder of counsel's review read
    crossed         \* entries rewritten between such a reading and its write

entryVars == <<text, authored_by, approved_by, counsel_by>>
readVars == <<approvedText, counselText, crossed>>
libraryVars == <<entryVars, simulated, opening, readVars>>

Openings ==
    [do : {"approve", "counsel"}, entry : Entries, text : Texts]
    \cup [do : {"declare", "leave"}, entry : {None}, text : {None}]

LibraryTypeOK ==
    /\ text \in [Entries -> Texts \cup {None}]
    /\ authored_by \in [Entries -> Humans \cup {None}]
    /\ approved_by \in [Entries -> Humans \cup {None}]
    /\ counsel_by \in [Entries -> Humans \cup {None}]
    /\ simulated \in BOOLEAN
    /\ opening \in [Humans -> Openings \cup {None}]
    /\ approvedText \in [Entries -> Texts \cup {None}]
    /\ counselText \in [Entries -> Texts \cup {None}]
    /\ crossed \subseteq Entries
    /\ \A e \in Entries : text[e] = None =>
          authored_by[e] = None /\ approved_by[e] = None /\ counsel_by[e] = None

LibraryInit ==
    /\ text = [e \in Entries |-> None]
    /\ authored_by = [e \in Entries |-> None]
    /\ approved_by = [e \in Entries |-> None]
    /\ counsel_by = [e \in Entries |-> None]
    /\ simulated = FALSE
    /\ opening = [h \in Humans |-> None]
    /\ approvedText = [e \in Entries |-> None]
    /\ counselText = [e \in Entries |-> None]
    /\ crossed = {}

\* RELIED_ON_SQL: both, or it is a draft.
ReliedOn(e) == approved_by[e] # None /\ counsel_by[e] # None

\* What V28 and Gate 6 ask of an entry: simulation defers, it does not supply.
Usable(e) == text[e] # None /\ (ReliedOn(e) \/ simulated)

-----------------------------------------------------------------------------
(* Acts.                                                                   *)

\* Mutant of Kept: re-authoring leaves the approval and the review.
Kept_Approved(column) == column

\* What the upsert leaves of the approval and the review: nothing.
Kept(column) == None

\* author_compliance_entry: one upsert.  DO UPDATE does not set authored_by.
Author(h, e, t) ==
    /\ text' = [text EXCEPT ![e] = t]
    /\ authored_by' = [authored_by EXCEPT ![e] = IF text[e] = None THEN h ELSE @]
    /\ approved_by' = [approved_by EXCEPT ![e] = Kept(@)]
    /\ counsel_by' = [counsel_by EXCEPT ![e] = Kept(@)]
    /\ crossed' = crossed \ {e}
    /\ UNCHANGED <<simulated, opening, approvedText, counselText>>

NotHis(h, e) == authored_by[e] # h

\* approve_compliance_entry and record_counsel_review read the row ...
Open(h, deed, e) ==
    /\ opening[h] = None
    /\ text[e] # None
    /\ NotHis(h, e)
    /\ \/ deed = "approve" /\ approved_by[e] = None
       \/ deed = "counsel" /\ counsel_by[e] = None
    /\ opening' = [opening EXCEPT ![h] = [do |-> deed, entry |-> e, text |-> text[e]]]
    /\ UNCHANGED <<entryVars, simulated, readVars>>

Done(h) == opening' = [opening EXCEPT ![h] = None]

Crossing(h) ==
    LET e == opening[h].entry IN
    IF opening[h].text # text[e] THEN crossed \cup {e} ELSE crossed

\* ... and write by its key, whatever the row has become.  The CHECK refuses
\* the author; authored_by never changes, so it refuses nobody else.
Approve(h) ==
    /\ opening[h] # None /\ opening[h].do = "approve"
    /\ LET e == opening[h].entry IN
       /\ approved_by' = [approved_by EXCEPT ![e] = h]
       /\ approvedText' = [approvedText EXCEPT ![e] = opening[h].text]
    /\ crossed' = Crossing(h)
    /\ Done(h)
    /\ UNCHANGED <<text, authored_by, counsel_by, simulated, counselText>>

RecordCounselReview(h) ==
    /\ opening[h] # None /\ opening[h].do = "counsel"
    /\ LET e == opening[h].entry IN
       /\ counsel_by' = [counsel_by EXCEPT ![e] = h]
       /\ counselText' = [counselText EXCEPT ![e] = opening[h].text]
    /\ crossed' = Crossing(h)
    /\ Done(h)
    /\ UNCHANGED <<text, authored_by, approved_by, simulated, approvedText>>

\* simulation.declare and leave ask for the current declaration ...
Ask(h, deed) ==
    /\ opening[h] = None
    /\ \/ deed = "declare" /\ ~ simulated
       \/ deed = "leave" /\ simulated
    /\ opening' = [opening EXCEPT ![h] = [do |-> deed, entry |-> None, text |-> None]]
    /\ UNCHANGED <<entryVars, simulated, readVars>>

\* ... and an INSERT that the index refuses when there is one, or an UPDATE of
\* that declaration if it is live: another's leave of it then changes nothing.
Declare(h) ==
    /\ opening[h] # None /\ opening[h].do = "declare"
    /\ simulated' = TRUE
    /\ Done(h)
    /\ UNCHANGED <<entryVars, readVars>>

Leave(h) ==
    /\ opening[h] # None /\ opening[h].do = "leave"
    /\ simulated' = FALSE
    /\ opening' = [g \in Humans |-> IF g = h \/ (opening[g] # None /\ opening[g].do = "leave")
                                    THEN None ELSE opening[g]]
    /\ UNCHANGED <<entryVars, readVars>>

\* A refusal by the database, a lost connection, a crash: nothing is written.
Lose(h) ==
    /\ opening[h] # None
    /\ Done(h)
    /\ UNCHANGED <<entryVars, simulated, readVars>>

Authors(h) == \E e \in Entries, t \in Texts : Author(h, e, t)

Reads(h) ==
    \/ \E e \in Entries, deed \in {"approve", "counsel"} : Open(h, deed, e)
    \/ Approve(h) \/ RecordCounselReview(h)

Simulates(h) == (\E deed \in {"declare", "leave"} : Ask(h, deed)) \/ Declare(h) \/ Leave(h)

-----------------------------------------------------------------------------
(* Properties.                                                             *)

\* An entry that is relied on carries the words its approver and the recorder
\* of counsel's review had in front of them, unless it was rewritten between
\* such a reading and its write (author_compliance_entry 349-364, "an
\* approval that survived a rewrite would be an approver's name on words they
\* never read").
ReliedOnWasRead ==
    \A e \in Entries \ crossed : ReliedOn(e) => {approvedText[e], counselText[e]} = {text[e]}
=============================================================================
