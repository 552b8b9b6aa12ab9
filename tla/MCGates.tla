------------------------------- MODULE MCGates -------------------------------
(* Gates on a small instance: two seats, each over a module, two agents and   *)
(* one flag.  A behaviour keeps to one agenda.                                *)
EXTENDS Gates, TLC

CONSTANTS m1, m2, p1, p2, a1, a2, f1, good, better, old, hollow

MCImplied == (m1 :> {}) @@ (m2 :> {f1})
MCRank == (a1 :> 1) @@ (a2 :> 2)
MCTitle == (p1 :> 1) @@ (p2 :> 2)

Plain(modules, ceiling) ==
    [modules |-> modules, ceiling |-> ceiling, override |-> [m \in Modules |-> None],
     staged |-> modules, steps |-> modules,
     volume |-> [m \in Modules |-> IF m \in modules THEN 10 ELSE None],
     reviewer |-> [m \in Modules |-> None], flags |-> {}, headcount |-> 1,
     pending |-> FALSE, department |-> "real"]

Staff == {[role |-> "venture_operator", hours |-> 5, minutes |-> 10],
          [role |-> "compliance_officer", hours |-> 5, minutes |-> 10]}

\* The operator has minutes for eighteen approvals a day, the officer as well.
Base ==
    [position |-> (p1 :> Plain({m1}, "auto_execute")) @@ (p2 :> [Plain({m2}, "propose") EXCEPT !.flags = {f1}]),
     humans |-> Staff, declared |-> Modules, hard |-> TRUE, gap |-> FALSE,
     flags |-> {f1}, cites |-> {f1}, libraryGap |-> {}, held |-> {f1}, deferred |-> {},
     exercised |-> {f1}, broken |-> {}]

\* More than anyone could review, were it not unattended; few enough to be
\* reviewed; one module lifted
\* above its seat; the second seat not filled yet; both seats over m1; a module
\* nobody declared, or staged nowhere, or both declared nowhere and staged in no
\* service line; no hard dependency; a rule of the document not met.
Busy == [Base EXCEPT !.position[p1].volume[m1] = 20]
Milder == [Base EXCEPT !.position[p1].ceiling = "propose"]
Lifting == [Base EXCEPT !.position[p1].ceiling = "propose", !.position[p1].override[m1] = "auto_execute",
                        !.position[p2].pending = TRUE]
Doubled == [Base EXCEPT !.position[p2].modules = Modules, !.position[p2].staged = Modules,
                        !.position[p2].steps = Modules, !.position[p2].volume[m1] = 5,
                        !.position[p1].headcount = 2]
Undeclared == [Base EXCEPT !.declared = {m1}]
Unstaged == [Base EXCEPT !.position[p2].staged = {}, !.position[p2].steps = {}]
Aside == [Base EXCEPT !.declared = {m1}, !.position[p2].steps = {}]
Soft == [Base EXCEPT !.hard = FALSE]
Broken == [Base EXCEPT !.broken = {"V9"}]
MCPacks == {Base, Soft, Aside, Busy, Milder, Lifting, Doubled, Undeclared, Unstaged, Broken}

\* A good world, in which everyone is certified to the highest tier.
World0 ==
    [packs |-> {Base}, may |-> {}, moves |-> 0, attended |-> {"4", "10"}, forge |-> {"manifest"},
     registry |-> {[m \in Modules |-> "safe"]}, text |-> {(m1 :> good) @@ (m2 :> better)},
     unitA |-> {[a \in Agents |-> [m \in Modules |-> "auto_execute"]]}, unitB |-> {"certified"}]

Standings(S) == {[a \in Agents |-> [m \in Modules |-> s[a]]] : s \in [Agents -> S]}

MCAgendas ==
    {[World0 EXCEPT !.packs = MCPacks, !.unitA = Standings(Tiers \cup {None})],
     [World0 EXCEPT !.packs = {Base, Lifting}, !.may = {"agents"}, !.attended = Gate, !.moves = 2],
     [World0 EXCEPT !.packs = {Base, Soft, Aside}, !.may = {"forge", "exclude"}, !.moves = 2,
            !.forge = {"manifest", "probe", "silent"}],
     [World0 EXCEPT !.packs = {Base, Lifting}, !.may = {"registry"}, !.moves = 1, !.forge = {"manifest", "probe"},
            !.registry = [Modules -> {"none", "hand", "safe", "unsafe"}]],
     [World0 EXCEPT !.packs = {Soft}, !.may = {"text", "exclude"}, !.moves = 2, 
            !.text = {(m1 :> t) @@ (m2 :> better) : t \in Texts \cup {None}}],
     [World0 EXCEPT !.may = {"library"}, !.moves = 3],
     [World0 EXCEPT !.packs = {Busy}, !.may = {"certs"}, !.moves = 2, 
            !.unitA = {[a \in Agents |-> [m \in Modules |-> s]] : s \in {"propose", None}}, !.unitB = {"none", "certified"}],
     [World0 EXCEPT !.packs = {Busy, Milder}, !.may = {"exclude"}, !.moves = 2],
     [World0 EXCEPT !.may = {"agents", "content"}, !.moves = 2]}
=============================================================================
