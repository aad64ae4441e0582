----------------------------- MODULE MCSkillGraph -----------------------------
(* One package with any facts next to a router, or up to four clean contracts. *)
EXTENDS SkillGraph

Contract(id, st, cat, k, nxt) ==
    [state |-> st, id |-> id, category |-> cat, kind |-> k, semver |-> TRUE, next |-> nxt,
     gates |-> TRUE, admin |-> FALSE]
Capability(id, st) == [state |-> st, id |-> id, semver |-> TRUE]
Package(nm, contract, capability) ==
    [reads |-> {"validator", "loader"}, name |-> nm, described |-> TRUE, extra |-> FALSE, schema |-> TRUE,
     contract |-> contract, capability |-> capability, openai |-> None, unsafe |-> FALSE, badDir |-> FALSE, unknownDir |-> FALSE]

Clean(d, cat, nxt) == Package(d, Contract(d, "ok", cat, "producer", nxt), None)
Router(d, nxt) == Package(d, Contract(d, "ok", "routing", "router", nxt), None)

\* The lists a node may name as its next ones.
Lists(S) == {SetToSeq(T) : T \in SUBSET S} \cup {Reverse(SetToSeq(T)) : T \in SUBSET S}

Odd ==
    {[q EXCEPT !.reads = r, !.schema = sc, !.unsafe = u] :
        q \in {Package(nm, c, k) : nm \in {0, 1, 2, None},
                 c \in {None} \cup {Contract(i, st, cat, "router", <<1>>) : i \in {1, 2},
                          st \in {"json", "shape", "direct", "schema", "ok"}, cat \in {"discipline", "routing"}},
                 k \in {None} \cup {Capability(i, st) : i \in {1, 2}, st \in {"bad", "ok"}}},
        r \in {None, {}, {"validator"}, {"loader"}, {"validator", "loader"}},
        sc \in BOOLEAN, u \in BOOLEAN}
Marred ==
    {[Clean(2, "engineering", nxt) EXCEPT !.described = de, !.extra = ex, !.openai = o, !.unknownDir = dir, !.badDir = ~de,
        !.contract.semver = sem, !.contract.gates = g, !.contract.admin = ad] :
        nxt \in {<<1>>, <<1, 1>>}, de \in BOOLEAN, ex \in BOOLEAN, o \in {None, "ok", "bad", "other name"},
        dir \in BOOLEAN, sem \in BOOLEAN, g \in BOOLEAN, ad \in BOOLEAN}

MCTrees ==
    {<<Router(1, nxt), p>> : nxt \in {<<>>, <<2>>}, p \in Odd}
    \cup {<<Router(1, <<2>>), p>> : p \in Marred}
    \cup {<<Router(1, l1), Clean(2, "engineering", l2), Clean(3, "engineering", l3), Clean(4, "discipline", l4)>> :
             l1 \in Lists({2, 3}), l2 \in Lists({1, 3, 4}), l3 \in Lists({2, 4}), l4 \in Lists({1, 2, 3})}
=============================================================================
