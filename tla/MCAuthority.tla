----------------------------- MODULE MCAuthority -----------------------------
(* Authority on a small instance: two agents, because a sync refuses an empty *)
(* Village, and two requests at a time.  A behaviour keeps to one agenda.     *)
EXTENDS Authority, TLC

Sym == Permutations(Agents) \cup Permutations(Requests)

Agenda(deeds, n) == [deeds |-> deeds, requests |-> n]
MCAgendas ==
    {Agenda({"move", "issue", "sync", "ladder"}, 4),
     Agenda({"move", "return", "sync", "import", "lift"}, 4),
     Agenda({"move", "sync", "return", "ladder"}, 5),
     Agenda({"move", "sync", "deactivate", "lift"}, 4),
     Agenda({"register", "import", "issue", "bar"}, 3),
     Agenda({"revoke", "lift", "ladder", "bar"}, 3),
     Agenda({"retire", "ladder"}, 4)}
=============================================================================
