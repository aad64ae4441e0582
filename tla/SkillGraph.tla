------------------------------ MODULE SkillGraph ------------------------------
(***************************************************************************)
(* The routing graph of the Skill packages under a root (graph.py) and the  *)
(* commands of the CLI that judge them (cli.py): the registry resolves the  *)
(* packages in the order of their directories, each entry becomes a node    *)
(* under its id, and a depth-first search looks for cycles.                 *)
(***************************************************************************)
EXTENDS SkillPackages, FiniteSetsExt, SequencesExt

CONSTANT Trees  \* the packages on disk, each in the directory of its number

\* The schema of a manifest has strings for its id and for the targets of nextSkills;
\* None is no such string, and no entry of the registry.
ASSUME TreesAssumption ==
    /\ None \notin Nat
    /\ None \notin [dir : Nat, manifest : {"contract", "capability", "external"}, id : Nat]
    /\ \A t \in Trees :
        /\ Len(t) \in Nat /\ DOMAIN t = 1..Len(t)
        /\ \A d \in DOMAIN t :
              /\ t[d].name \in Nat \cup {None}
              /\ Parsed(t[d].contract) => t[d].contract.id \in Nat /\ t[d].contract.next \in Seq(Nat)
              /\ Parsed(t[d].capability) => t[d].capability.id \in Nat

VARIABLES tree,
          order,   \* of the ids of the nodes in graph.nodes
          node,    \* the nodes: the metadata of each and its edges
          todo,    \* nodes the search has not been started from, in their order
          visited,
          stack,   \* of the search, with the targets each node has left
          cycles   \* as they are appended

graph == <<order, node>>
search == <<todo, visited, stack, cycles>>
vars == <<tree, graph, search>>

-----------------------------------------------------------------------------
(* build_graph                                                             *)

\* discover: the directories with a SKILL.md
Discovered == {d \in DOMAIN tree : tree[d].reads # None}

\* resolve_all: the packages with an entry, and those with an entry under an id
Entries == {d \in Discovered : Resolve(d, tree[d]) # None}
Named(id) == {d \in Entries : Resolve(d, tree[d]).id = id}

\* The contract is read again, whatever the registry made of the package.
Targets(p) == IF Parsed(p.contract) THEN p.contract.next ELSE <<>>

\* A later entry with the id of an earlier one takes its node, and keeps its place.
BuildGraph ==
    LET ids == {Resolve(d, tree[d]).id : d \in Entries}
        first == [id \in ids |-> Min(Named(id))]
        NodeOf(d) == LET p == tree[d]  meta == Resolve(d, p) IN
            [category |-> Category(p, meta), kind |-> Kind(p, meta), edges |-> Targets(p)]
    IN /\ node = [id \in ids |-> NodeOf(Max(Named(id)))]
       /\ order = [i \in 1..Cardinality(ids) |->
                      CHOOSE id \in ids : Cardinality({e \in ids : first[e] < first[id]}) = i - 1]

Nodes == DOMAIN node
Edges(id) == IF id \in Nodes THEN node[id].edges ELSE <<>>

-----------------------------------------------------------------------------
(* _find_cycles                                                            *)

Init ==
    /\ tree \in Trees
    /\ BuildGraph
    /\ todo = order
    /\ visited = {} /\ stack = <<>> /\ cycles = <<>>

OnStack(id) == \E i \in DOMAIN stack : stack[i].id = id

Push(s, id) == Append(s, [id |-> id, left |-> Edges(id)])

\* Mutant: a node that was visited is not looked for on the stack.
DfsVisitedFirst(id, s) ==
    IF id \in visited THEN stack' = s /\ UNCHANGED <<visited, cycles>>
    ELSE visited' = visited \cup {id} /\ stack' = Push(s, id) /\ UNCHANGED cycles

\* A call of dfs, from a stack that is s but for the call.
Dfs(id, s) ==
    CASE OnStack(id) ->
           LET start == SelectInSeq(stack, LAMBDA frame : frame.id = id) IN
           /\ cycles' = Append(cycles, [i \in 1..(Len(stack) - start + 2) |->
                                          IF i <= Len(stack) - start + 1 THEN stack[start + i - 1].id ELSE id])
           /\ stack' = s /\ UNCHANGED visited
      [] ~OnStack(id) /\ id \in visited -> stack' = s /\ UNCHANGED <<visited, cycles>>
      [] OTHER -> visited' = visited \cup {id} /\ stack' = Push(s, id) /\ UNCHANGED cycles

Start ==
    /\ stack = <<>> /\ todo # <<>>
    /\ todo' = Tail(todo)
    /\ Dfs(Head(todo), stack)
    /\ UNCHANGED <<tree, graph>>

Descend ==
    /\ stack # <<>> /\ Last(stack).left # <<>>
    /\ Dfs(Head(Last(stack).left), [stack EXCEPT ![Len(stack)].left = Tail(@)])
    /\ UNCHANGED <<tree, graph, todo>>

Return ==
    /\ stack # <<>> /\ Last(stack).left = <<>>
    /\ stack' = Front(stack)
    /\ UNCHANGED <<tree, graph, todo, visited, cycles>>

Next == Start \/ Descend \/ Return
Spec == Init /\ [][Next]_vars

Done == todo = <<>> /\ stack = <<>>

\* The rotation that starts at the smallest id, of the list with its first node twice.
Rotated(c) ==
    LET first == Min({i \in DOMAIN c : \A j \in DOMAIN c : c[i] <= c[j]})
    IN Front(SubSeq(c, first, Len(c)) \o SubSeq(c, 1, first - 1))
Unique == {Rotated(cycles[i]) : i \in DOMAIN cycles}

-----------------------------------------------------------------------------
(* validate_graph, and the exit codes of the commands.                     *)

Routers == {id \in Nodes : node[id].category = "routing"}

\* Mutant: an edge to a Skill that is not there is left to the semantic validator.
GraphFindingsNoEdges ==
    When(Nodes # {} /\ Routers = {}, Error("GRAPH_NO_ROUTER"))
    \cup When(Cardinality(Routers) > 1, Error("GRAPH_MULTIPLE_ROUTERS"))
    \cup When(Unique # {}, Error("GRAPH_CYCLE"))

GraphFindings ==
    IF Nodes = {} THEN {}
    ELSE When(Routers = {}, Error("GRAPH_NO_ROUTER"))
         \cup When(Cardinality(Routers) > 1, Error("GRAPH_MULTIPLE_ROUTERS"))
         \cup When(\E id \in Nodes : ToSet(Edges(id)) \ Nodes # {}, Error("GRAPH_MISSING_EDGE"))
         \cup When(Unique # {}, Error("GRAPH_CYCLE"))
         \cup When(\E id \in Nodes : node[id].category = "discipline" /\ node[id].kind = "router",
                   Error("GRAPH_DISCIPLINE_AS_CONTROLLER"))
         \cup When(Cardinality(Nodes) > 3 /\ \E r \in Routers : Routers = {r} /\ Len(Edges(r)) = 1,
                   Warning("GRAPH_ROUTER_SINGLE_CHAIN"))

GraphExit == IF \E f \in GraphFindings : f.severity = "error" THEN 1 ELSE 0
CheckExit(d) == IF Passed(d, tree[d]) THEN 0 ELSE 1
ValidateExit == IF \A d \in Discovered : Passed(d, tree[d]) THEN 0 ELSE 1

-----------------------------------------------------------------------------
\* The elementary cycles of the graph, by definition.
IsCycle(c) ==
    /\ \A i \in DOMAIN c : c[IF i = Len(c) THEN 1 ELSE i + 1] \in ToSet(Edges(c[i]))
    /\ IsInjective(c)
Elementary == UNION {{c \in [1..k -> Nodes] : IsCycle(c)} : k \in 1..Cardinality(Nodes)}

\* A cycle is reported if and only if there is one, wherever the search meets it, and
\* a report names nodes of one cycle and no other node (graph.py 193-230).
CycleFound ==
    Done => LET all == Elementary IN
            /\ (Unique # {}) = (all # {})
            /\ \A c \in Unique : c # <<>> /\ \E e \in all : ToSet(c) \subseteq ToSet(e)

\* Where a package without a manifest is not named like its directory, which is not
\* checked (validation.py 394), it takes the node of the package it is named like.
Misnamed == \E d \in DOMAIN tree :
    tree[d].contract = None /\ tree[d].capability = None /\ tree[d].name # d

\* The contracts of the packages that have an entry in the registry, and the packages
\* with a contract that have none: the graph is built without these.
Contracts == {d \in DOMAIN tree : Resolve(d, tree[d]) # None /\ tree[d].contract # None}
Overlooked == {d \in DOMAIN tree : Resolve(d, tree[d]) = None /\ tree[d].contract # None}

\* docs/superpowers/specs/2026-06-29-skill-sdk-design.md 123, 173 and 177 promise that
\* if validate and graph both succeed every nextSkills names a Skill that is there,
\* following them ends, and there is one router.  The commands keep this promise, but
\* for two cases in which they succeed all the same.  Where a package is misnamed,
\* nothing is promised.  A contract in a package that the registry cannot resolve is
\* not looked at at all: its nextSkills may name nothing, be part of a cycle, or make
\* a second router.  Such a package passes validate because its frontmatter is one
\* that only the validator reads (630), its name is empty (404), or its values are
\* not looked at (capabilities.py 24-43).  The others never name one of these.
RoutingSound ==
    Done /\ ValidateExit = 0 /\ GraphExit = 0 /\ ~Misnamed =>
        LET AfterAll(S) == UNION {NextIds(tree[d].contract) : d \in S}
        IN /\ AfterAll(Contracts) \subseteq Discovered \ Overlooked
           /\ \A S \in SUBSET Contracts : S # {} => ~(S \subseteq AfterAll(S))
           /\ Nodes # {} => Cardinality({d \in Contracts : tree[d].contract.category = "routing"}) = 1
           /\ \A d \in Overlooked \cap Discovered :
                 "loader" \notin tree[d].reads \/ tree[d].name = 0 \/ ~tree[d].schema

\* Line 119 of the same design: directory, name and id are the same.  Of a package with
\* a manifest that passes, the id of the manifest is the directory and the name, but
\* for an empty name, which is neither missing nor compared (validation.py 306, 404);
\* the registry shows no package as valid but one that the loader takes, with the same
\* name in all three places (validation.py 397, registry.py 80).
PassedIsOneSkill ==
    \A d \in DOMAIN tree :
        LET p == tree[d] IN
        p.contract # None \/ p.capability # None =>
            /\ CheckExit(d) = 0 => Manifest(p).id = d /\ p.name \in {d, 0}
            /\ Valid(d, p) => Loads(d, p) /\ Resolve(d, p).id = d /\ p.name = d

\* graph.py 194: "Find all elementary cycles": each report is a cycle of the graph
\* without a node twice, and each such cycle is reported.
CyclesExact ==
    Done => Unique = {c \in Elementary : \A i \in DOMAIN c : c[1] <= c[i]}
=============================================================================
