----------------------------- MODULE MCGovernance -----------------------------
(* Governance on a small instance: two people, one fixture, two requests at   *)
(* a time.  What one agenda asks for touches little that another's does, so   *)
(* a behaviour keeps to one of them.                                          *)
EXTENDS Governance, TLC

Sym == Permutations(Requests) \cup Permutations(Texts)

Agenda(deeds, whats, n) == [deeds |-> deeds, whats |-> whats \cup {None}, requests |-> n]
MCAgendas ==
    {Agenda({"grant", "revoke", "create", "suspend", "activate", "fixtures"}, Roles, 2),
     Agenda({"grant", "revoke", "suspend"}, {IVAN}, 3),
     Agenda({"name", "receive", "answer"}, Texts, 4),
     Agenda({"suspend", "name", "receive"}, {}, 3),
     Agenda({"file", "account", "resolve"}, {}, 3),
     Agenda({"discharge"}, {}, 3)}
=============================================================================
