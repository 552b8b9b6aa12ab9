------------------------------- MODULE MCPacks -------------------------------
(* Packs and Knowledge on a small instance: one source cites nothing, the     *)
(* other the one entry.  A behaviour keeps to one agenda.                     *)
EXTENDS Packs, TLC

Sym == Permutations(Versions) \cup Permutations(Requests) \cup Permutations(Humans)

MCSources == {"uncited", "cited"}
MCCites == [s \in MCSources |-> IF s = "cited" THEN Entries ELSE {}]

Agenda(deeds, sources, n) == [deeds |-> deeds, sources |-> sources, requests |-> n]
MCAgendas ==
    {Agenda({"run", "draft"}, MCSources, 1),
     Agenda({"run"}, MCSources, 2),
     Agenda({"run", "author", "simulate"}, {"cited"}, 1),
     Agenda({"draft", "tighten"}, MCSources, 2),
     Agenda({"author", "read"}, {}, 0)}
=============================================================================
