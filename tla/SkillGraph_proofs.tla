--------------------------- MODULE SkillGraph_proofs ---------------------------
(***************************************************************************)
(* For every set of packages: the search finds a cycle exactly where there  *)
(* is one (CycleFound), and the packages that validate and graph let pass   *)
(* are a sound routing (RoutingSound), of what the registry resolves, each  *)
(* with one id in all the places that are compared (PassedIsOneSkill).      *)
(***************************************************************************)
EXTENDS SkillGraph, FiniteSetTheorems, SequenceTheorems, WellFoundedInduction, TLAPS

-----------------------------------------------------------------------------
(* The inductive invariant.                                                *)

Frames == [id : Nat, left : Seq(Nat)]

\* The graph is the one of the packages, and the search has the types of its code.
Typed ==
    /\ tree \in Trees /\ BuildGraph
    /\ todo \in Seq(Nat) /\ visited \in SUBSET Nat
    /\ stack \in Seq(Frames)
    /\ cycles \in Seq(Seq(Nat))

\* The stack is a path of the graph without a node twice, of visited nodes, and each
\* frame has targets of its node left.
StackIsPath ==
    /\ \A i \in 1..Len(stack) : /\ stack[i].id \in visited
                                /\ ToSet(stack[i].left) \subseteq ToSet(Edges(stack[i].id))
    /\ \A i, j \in 1..Len(stack) : stack[i].id = stack[j].id => i = j
    /\ \A i \in 1..(Len(stack) - 1) : stack[i + 1].id \in ToSet(Edges(stack[i].id))

\* A report is at least a node twice, and names nodes of one elementary cycle.
ReportsSound ==
    \A i \in 1..Len(cycles) :
        Len(cycles[i]) > 1 /\ \E e \in Elementary : ToSet(cycles[i]) \subseteq ToSet(e)

\* The nodes that were visited and left.
Left == visited \ {stack[i].id : i \in 1..Len(stack)}

\* Each node of S is a target of a node of S.
LeadsBack(S) == \A t \in S : \E n \in S : t \in ToSet(Edges(n))

\* While nothing is reported, the nodes that were left lead only to nodes that were
\* left, no part of them leads back into itself, and of the targets of a frame each was
\* left, is still to be looked at, or is the next frame.
LeftAcyclic ==
    cycles = <<>> =>
        /\ \A n \in Left : ToSet(Edges(n)) \subseteq Left
        /\ \A S \in SUBSET Left : LeadsBack(S) => S = {}
        /\ \A i \in 1..Len(stack) : \A t \in ToSet(Edges(stack[i].id)) :
              \/ t \in Left \/ t \in ToSet(stack[i].left)
              \/ i < Len(stack) /\ t = stack[i + 1].id

\* No node is forgotten.
Covered == Nodes \subseteq visited \cup ToSet(todo)

IInv == Typed /\ StackIsPath /\ ReportsSound /\ LeftAcyclic /\ Covered

-----------------------------------------------------------------------------
(* Sequences, and the numbers of a set.                                    *)

\* Some numbers have a smallest one among them.
LEMMA SmallestNumber ==
  ASSUME NEW S \in SUBSET Nat, S # {}
  PROVE  Min(S) \in S /\ \A k \in S : Min(S) <= k
<1> DEFINE R == {p \in Nat \X Nat : p[1] < p[2]}
<1>1. IsWellFoundedOn(R, Nat)
  <2>1. R = OpToRel(<, Nat)
    BY DEF OpToRel
  <2> QED BY <2>1, NatLessThanWellFounded
<1>2. \E m \in S : \A k \in S : ~(<<k, m>> \in R)
  <2> HIDE DEF R
  <2> QED BY <1>1, WFMin
<1>3. \E m \in S : \A k \in S : m <= k
  <2>1. PICK m \in S : \A k \in S : ~(<<k, m>> \in R)
    BY <1>2
  <2>2. ASSUME NEW k \in S PROVE m <= k
    <3>1. m \in Nat /\ k \in Nat /\ <<k, m>> \in Nat \X Nat
      OBVIOUS
    <3>2. ~(k < m)
      BY <2>1, <3>1
    <3> QED BY <3>1, <3>2
  <2> QED BY <2>2
<1> QED BY <1>3 DEF Min

\* Some positions of a sequence have a last one among them.
LEMMA LargestPosition ==
  ASSUME NEW n \in Nat, NEW I \in SUBSET (1..n), I # {}
  PROVE  Max(I) \in I
<1> DEFINE T == {n - i : i \in I}
<1>0. \A i \in I : i \in Nat /\ i <= n
  OBVIOUS
<1>1. T \in SUBSET Nat /\ T # {}
  <2>1. \A i \in I : n - i \in Nat
    BY <1>0
  <2> QED BY <2>1
<1>2. PICK i \in I : Min(T) = n - i
  <2>1. Min(T) \in T
    BY <1>1, SmallestNumber
  <2> QED BY <2>1
<1>3. ASSUME NEW j \in I PROVE i >= j
  <2>1. n - j \in T
    OBVIOUS
  <2>2. n - i <= n - j
    <3> HIDE DEF T
    <3> QED BY <1>1, <1>2, <2>1, SmallestNumber
  <2> QED BY <1>0, <2>2
<1> QED BY <1>3 DEF Max

\* A list of numbers that is not empty is its head and the list of the others.
LEMMA HeadAndTail ==
  ASSUME NEW s \in Seq(Nat), s # <<>>
  PROVE  /\ Head(s) \in Nat /\ Tail(s) \in Seq(Nat)
         /\ Head(s) \in ToSet(s)
         /\ ToSet(Tail(s)) \subseteq ToSet(s)
         /\ \A t \in ToSet(s) : t = Head(s) \/ t \in ToSet(Tail(s))
<1>1. /\ Head(s) \in Nat /\ Tail(s) \in Seq(Nat) /\ Len(Tail(s)) = Len(s) - 1
      /\ \A i \in 1..Len(Tail(s)) : Tail(s)[i] = s[i + 1]
  BY HeadTailProperties
<1>2. Head(s) = s[1] /\ Len(s) \in Nat /\ Len(s) >= 1
  BY EmptySeq
<1>3. DOMAIN s = 1..Len(s) /\ DOMAIN Tail(s) = 1..Len(Tail(s))
  BY <1>1
<1>4. Head(s) \in ToSet(s)
  BY <1>2, <1>3 DEF ToSet
<1>5. ToSet(Tail(s)) \subseteq ToSet(s)
  <2> SUFFICES ASSUME NEW i \in 1..Len(Tail(s)) PROVE Tail(s)[i] \in ToSet(s)
    BY <1>3 DEF ToSet
  <2>1. i + 1 \in 1..Len(s)
    BY <1>1, <1>2
  <2> QED BY <1>1, <1>3, <2>1 DEF ToSet
<1>6. ASSUME NEW i \in 1..Len(s) PROVE s[i] = Head(s) \/ s[i] \in ToSet(Tail(s))
  <2>1. CASE i = 1
    BY <1>2, <2>1
  <2>2. CASE i # 1
    <3>1. i - 1 \in 1..Len(Tail(s)) /\ (i - 1) + 1 = i
      BY <1>1, <1>2, <2>2
    <3>2. Tail(s)[i - 1] = s[i]
      BY <1>1, <3>1
    <3> QED BY <1>3, <3>1, <3>2 DEF ToSet
  <2> QED BY <2>1, <2>2
<1> QED BY <1>1, <1>3, <1>4, <1>5, <1>6 DEF ToSet

\* The rotation of a list of at least two numbers is not empty, and names no other.
LEMMA RotatedNames ==
  ASSUME NEW c \in Seq(Nat), Len(c) > 1
  PROVE  Rotated(c) # <<>> /\ ToSet(Rotated(c)) \subseteq ToSet(c)
<1> DEFINE Smallest == {i \in DOMAIN c : \A j \in DOMAIN c : c[i] <= c[j]}
           m == Min(Smallest)
           a == SubSeq(c, m, Len(c))
           b == SubSeq(c, 1, m - 1)
           r == a \o b
<1>1. DOMAIN c = 1..Len(c) /\ Len(c) \in Nat /\ \A i \in 1..Len(c) : c[i] \in Nat
  OBVIOUS
<1>2. Smallest # {}
  <2>1. ToSet(c) \in SUBSET Nat /\ ToSet(c) # {}
    BY <1>1 DEF ToSet
  <2>2. Min(ToSet(c)) \in ToSet(c) /\ \A k \in ToSet(c) : Min(ToSet(c)) <= k
    BY <2>1, SmallestNumber
  <2>3. PICK i \in DOMAIN c : c[i] = Min(ToSet(c))
    BY <2>2 DEF ToSet
  <2>4. \A j \in DOMAIN c : c[i] <= c[j]
    BY <2>2, <2>3 DEF ToSet
  <2> QED BY <2>4
<1>3. m \in 1..Len(c)
  <2>1. Smallest \in SUBSET Nat /\ Smallest \subseteq 1..Len(c)
    BY <1>1
  <2> HIDE DEF Smallest
  <2> QED BY <1>2, <2>1, SmallestNumber
<1> HIDE DEF m
<1>4. /\ a \in Seq(Nat) /\ Len(a) = Len(c) - m + 1
      /\ \A i \in 1..(Len(c) - m + 1) : a[i] = c[m + i - 1]
  <2>1. m \in Int /\ Len(c) \in Int /\ \A i \in m..Len(c) : c[i] \in Nat
    BY <1>1, <1>3
  <2> QED BY <1>3, <2>1, SubSeqProperties
<1>5. /\ b \in Seq(Nat) /\ Len(b) = m - 1
      /\ \A i \in 1..(m - 1) : b[i] = c[i]
  <2>1. 1 \in Int /\ m - 1 \in Int /\ \A i \in 1..(m - 1) : c[i] \in Nat
    BY <1>1, <1>3
  <2>2. /\ b \in Seq(Nat) /\ Len(b) = IF 1 <= m - 1 THEN (m - 1) - 1 + 1 ELSE 0
        /\ \A i \in 1..((m - 1) - 1 + 1) : b[i] = c[1 + i - 1]
    BY <2>1, SubSeqProperties
  <2> QED BY <1>3, <2>2
<1> HIDE DEF a, b
<1>6. /\ r \in Seq(Nat) /\ Len(r) = Len(c)
      /\ \A i \in 1..Len(c) : r[i] = IF i <= Len(a) THEN a[i] ELSE b[i - Len(a)]
  <2>1. Len(a) + Len(b) = Len(c)
    BY <1>1, <1>3, <1>4, <1>5
  <2>2. /\ r \in Seq(Nat) /\ Len(r) = Len(a) + Len(b)
        /\ \A i \in 1..Len(a) + Len(b) : r[i] = IF i <= Len(a) THEN a[i] ELSE b[i - Len(a)]
    BY <1>4, <1>5, ConcatProperties
  <2> HIDE DEF r
  <2> QED BY <2>1, <2>2
<1>7. \A i \in 1..Len(c) : r[i] \in ToSet(c)
  <2> SUFFICES ASSUME NEW i \in 1..Len(c) PROVE r[i] \in ToSet(c)
    OBVIOUS
  <2>1. CASE i <= Len(a)
    <3>1. i \in 1..(Len(c) - m + 1) /\ m + i - 1 \in 1..Len(c)
      BY <1>1, <1>3, <1>4, <2>1
    <3> QED BY <1>1, <1>4, <1>6, <2>1, <3>1 DEF ToSet
  <2>2. CASE ~(i <= Len(a))
    <3>1. i - Len(a) \in 1..(m - 1) /\ i - Len(a) \in 1..Len(c)
      BY <1>1, <1>3, <1>4, <2>2
    <3> QED BY <1>1, <1>5, <1>6, <2>2, <3>1 DEF ToSet
  <2> QED BY <2>1, <2>2
<1> HIDE DEF r
<1>8. Rotated(c) = Front(r)
  BY DEF Rotated, r, a, b, m
<1>9. /\ Front(r) \in Seq(Nat) /\ Len(Front(r)) = Len(c) - 1
      /\ \A i \in 1..(Len(c) - 1) : Front(r)[i] = r[i]
  <2>1. 1 \in Int /\ Len(r) - 1 \in Int /\ \A i \in 1..(Len(r) - 1) : r[i] \in Nat
    BY <1>1, <1>6
  <2>2. /\ Front(r) \in Seq(Nat)
        /\ Len(Front(r)) = IF 1 <= Len(r) - 1 THEN (Len(r) - 1) - 1 + 1 ELSE 0
        /\ \A i \in 1..((Len(r) - 1) - 1 + 1) : Front(r)[i] = r[1 + i - 1]
    BY <2>1, SubSeqProperties DEF Front
  <2>3. Len(Front(r)) = Len(c) - 1
    <3>1. 1 <= Len(r) - 1 /\ (Len(r) - 1) - 1 + 1 = Len(c) - 1
      BY <1>1, <1>6
    <3> QED BY <2>2, <3>1
  <2>4. ASSUME NEW i \in 1..(Len(c) - 1) PROVE Front(r)[i] = r[i]
    <3>1. i \in 1..((Len(r) - 1) - 1 + 1) /\ 1 + i - 1 = i
      BY <1>1, <1>6
    <3> QED BY <2>2, <3>1
  <2> QED BY <2>2, <2>3, <2>4
<1>10. ToSet(Front(r)) \subseteq ToSet(c)
  <2> SUFFICES ASSUME NEW i \in 1..Len(Front(r)) PROVE Front(r)[i] \in ToSet(c)
    <3>1. DOMAIN Front(r) = 1..Len(Front(r))
      BY <1>9
    <3> QED BY <3>1 DEF ToSet
  <2>1. i \in 1..(Len(c) - 1) /\ i \in 1..Len(c)
    BY <1>1, <1>9
  <2> QED BY <1>7, <1>9, <2>1
<1>11. Front(r) # <<>>
  BY <1>1, <1>9
<1> QED BY <1>8, <1>10, <1>11

-----------------------------------------------------------------------------
(* The graph of the packages.                                              *)

\* An entry of the registry is of a package that the loader can read, and under a name;
\* a package that the loader can read has an entry.
LEMMA EntryOfPackage ==
  ASSUME tree \in Trees, NEW d \in DOMAIN tree
  PROVE  /\ LoadsFrontmatter(tree[d]) <=> Resolve(d, tree[d]) # None
         /\ LoadsFrontmatter(tree[d]) => Resolve(d, tree[d]).id \in Nat
<1> DEFINE p == tree[d]
           Records == [dir : Nat, manifest : {"contract", "capability", "external"}, id : Nat]
<1>1. /\ d \in Nat /\ None \notin Records
      /\ p.name \in Nat \cup {None}
      /\ Parsed(p.contract) => p.contract.id \in Nat
      /\ Parsed(p.capability) => p.capability.id \in Nat
  BY TreesAssumption
<1> HIDE DEF p
<1>2. LoadsFrontmatter(p) => p.name \in Nat
  BY <1>1 DEF LoadsFrontmatter, FollowsSchema
<1>3. Resolve(d, p) # None => LoadsFrontmatter(p)
  BY DEF Resolve, InvalidMetadata, Loads
<1>4. ASSUME LoadsFrontmatter(p) PROVE Resolve(d, p) \in Records
  <2>1. CASE Loads(d, p)
    <3>1. Resolve(d, p) = [dir |-> d, manifest |-> LoadedManifest(p), id |-> p.name]
      BY <2>1 DEF Resolve
    <3>2. LoadedManifest(p) \in {"contract", "capability", "external"}
      BY DEF LoadedManifest
    <3> QED BY <1>1, <1>2, <1>4, <3>1, <3>2
  <2>2. CASE ~Loads(d, p)
    <3> DEFINE m == InvalidManifest(p)
               id == CASE m = "contract"   -> p.contract.id
                       [] m = "capability" -> p.capability.id
                       [] m = "external"   -> p.name
    <3>1. Resolve(d, p) = [dir |-> d, manifest |-> m, id |-> id]
      BY <1>4, <2>2 DEF Resolve, InvalidMetadata
    <3>2. m \in {"contract", "capability", "external"} /\ id \in Nat
      <4>1. CASE Parsed(p.contract)
        <5>1. m = "contract"
          BY <4>1 DEF InvalidManifest, Parsed
        <5> QED BY <1>1, <4>1, <5>1
      <4>2. CASE ~Parsed(p.contract) /\ p.contract = None /\ Parsed(p.capability)
        <5>1. m = "capability"
          BY <4>2 DEF InvalidManifest
        <5> QED BY <1>1, <4>2, <5>1
      <4>3. CASE ~Parsed(p.contract) /\ ~(p.contract = None /\ Parsed(p.capability))
        <5>1. m = "external"
          BY <4>3 DEF InvalidManifest
        <5> QED BY <1>2, <1>4, <5>1
      <4> QED BY <4>1, <4>2, <4>3
    <3> HIDE DEF m, id
    <3> QED BY <1>1, <3>1, <3>2
  <2> QED BY <2>1, <2>2
<1>5. \A r \in Records : r.id \in Nat
  OBVIOUS
<1> HIDE DEF Records
<1>6. LoadsFrontmatter(p) => Resolve(d, p) # None /\ Resolve(d, p).id \in Nat
  BY <1>1, <1>4, <1>5
<1> QED BY <1>3, <1>6 DEF p

\* The registry numbers its entries with numbers of packages.
LEMMA EntryIsNumbered ==
  ASSUME tree \in Trees, NEW d \in Entries
  PROVE  d \in 1..Len(tree) /\ Len(tree) \in Nat /\ Resolve(d, tree[d]).id \in Nat
<1>1. d \in 1..Len(tree) /\ Len(tree) \in Nat /\ d \in DOMAIN tree /\ Resolve(d, tree[d]) # None
  BY TreesAssumption DEF Entries, Discovered
<1> QED BY <1>1, EntryOfPackage

\* The packages that have an entry under an id are positions in the list of packages.
LEMMA NamedPositions ==
  ASSUME tree \in Trees, NEW id \in {Resolve(d, tree[d]).id : d \in Entries}
  PROVE  /\ Max(Named(id)) \in Named(id)
         /\ Min(Named(id)) \in Named(id) /\ Named(id) \in SUBSET Nat
<1>1. Named(id) \in SUBSET (1..Len(tree)) /\ Named(id) # {} /\ Len(tree) \in Nat
  BY EntryIsNumbered DEF Named
<1>2. Named(id) \in SUBSET Nat
  BY <1>1
<1> QED BY <1>1, <1>2, LargestPosition, SmallestNumber

\* Numbering the members of a finite set by how many come before them reaches each.
LEMMA Ranking ==
  ASSUME NEW ids, IsFiniteSet(ids), NEW first \in [ids -> Nat],
         \A a, b \in ids : first[a] = first[b] => a = b
  PROVE  LET nth(i) == CHOOSE id \in ids : Cardinality({e \in ids : first[e] < first[id]}) = i - 1
         IN  /\ \A i \in 1..Cardinality(ids) : nth(i) \in ids
             /\ \A id \in ids : \E i \in 1..Cardinality(ids) : nth(i) = id
<1> DEFINE Before(id) == {e \in ids : first[e] < first[id]}
           n == Cardinality(ids)
           nth(i) == CHOOSE id \in ids : Cardinality(Before(id)) = i - 1
           rank == [id \in ids |-> Cardinality(Before(id)) + 1]
<1>1. n \in Nat
  BY FS_CardinalityType
<1>2. ASSUME NEW id \in ids
      PROVE  /\ IsFiniteSet(Before(id)) /\ Cardinality(Before(id)) \in Nat
             /\ Cardinality(Before(id)) < n
  <2>1. Before(id) \in SUBSET ids /\ id \notin Before(id)
    OBVIOUS
  <2> HIDE DEF Before
  <2>2. IsFiniteSet(Before(id)) /\ Cardinality(Before(id)) <= n /\ Cardinality(Before(id)) # n
    BY <2>1, FS_Subset
  <2> QED BY <1>1, <2>2, FS_CardinalityType
<1>3. ASSUME NEW a \in ids, NEW b \in ids, first[a] < first[b]
      PROVE  Cardinality(Before(a)) # Cardinality(Before(b))
  <2>1. Before(a) \in SUBSET Before(b) /\ a \in Before(b) /\ a \notin Before(a)
    BY <1>3
  <2> HIDE DEF Before
  <2> QED BY <1>2, <2>1, FS_Subset
<1> HIDE DEF Before, n
<1>4. \A a, b \in ids : Cardinality(Before(a)) = Cardinality(Before(b)) => a = b
  <2> SUFFICES ASSUME NEW a \in ids, NEW b \in ids, Cardinality(Before(a)) = Cardinality(Before(b))
               PROVE  a = b
    OBVIOUS
  <2>1. ~(first[a] < first[b]) /\ ~(first[b] < first[a])
    BY <1>3
  <2> QED BY <2>1
<1>5. rank \in Injection(ids, 1..n)
  <2>1. \A id \in ids : rank[id] \in 1..n
    BY <1>1, <1>2
  <2>2. \A a, b \in ids : rank[a] = rank[b] => a = b
    BY <1>2, <1>4
  <2> QED BY <2>1, <2>2 DEF Injection, IsInjective
<1>6. rank \in Surjection(ids, 1..n)
  <2>1. IsFiniteSet(1..n) /\ Cardinality(1..n) = n
    BY <1>1, FS_Interval
  <2> HIDE DEF rank
  <2> QED BY <1>5, <2>1, FS_Injection DEF n
<1>7. ASSUME NEW i \in 1..n PROVE nth(i) \in ids /\ Cardinality(Before(nth(i))) = i - 1
  <2>1. PICK id \in ids : rank[id] = i
    BY <1>6 DEF Surjection
  <2>2. Cardinality(Before(id)) = i - 1
    BY <1>2, <2>1
  <2> QED BY <2>2
<1>8. ASSUME NEW id \in ids PROVE \E i \in 1..n : nth(i) = id
  <2> DEFINE i == Cardinality(Before(id)) + 1
  <2>1. i \in 1..n /\ i - 1 = Cardinality(Before(id))
    BY <1>1, <1>2
  <2>2. nth(i) \in ids /\ Cardinality(Before(nth(i))) = Cardinality(Before(id))
    BY <1>7, <2>1
  <2>3. nth(i) = id
    <3> HIDE DEF nth
    <3> QED BY <1>4, <2>2
  <2> QED BY <2>1, <2>3
<1> QED BY <1>7, <1>8 DEF n, Before

\* The nodes are finitely many, each is in the order once, and their edges are lists
\* of numbers.
LEMMA GraphTyped ==
  ASSUME tree \in Trees, BuildGraph
  PROVE  /\ IsFiniteSet(Nodes) /\ Nodes \subseteq Nat
         /\ order \in Seq(Nat) /\ ToSet(order) = Nodes
         /\ \A id : Edges(id) \in Seq(Nat)
<1> DEFINE ids == {Resolve(d, tree[d]).id : d \in Entries}
           idOf == [d \in Entries |-> Resolve(d, tree[d]).id]
<1>1. ids \subseteq Nat
  BY EntryIsNumbered
<1>2. IsFiniteSet(ids) /\ Cardinality(ids) \in Nat
  <2>1. Entries \in SUBSET (1..Len(tree)) /\ IsFiniteSet(1..Len(tree))
    BY EntryIsNumbered, TreesAssumption, FS_Interval DEF Entries, Discovered
  <2>2. IsFiniteSet(Entries)
    BY <2>1, FS_Subset
  <2>3. idOf \in Surjection(Entries, ids)
    BY DEF Surjection
  <2>4. IsFiniteSet(ids)
    <3> HIDE DEF ids, idOf
    <3> QED BY <2>2, <2>3, FS_Surjection
  <2> QED BY <2>4, FS_CardinalityType
<1>3. Nodes = ids
  BY DEF BuildGraph, Nodes
<1>4. order \in [1..Cardinality(ids) -> ids] /\ ToSet(order) = ids
  <2> DEFINE first == [id \in ids |-> Min(Named(id))]
             nth(i) == CHOOSE id \in ids : Cardinality({e \in ids : first[e] < first[id]}) = i - 1
  <2>1. order = [i \in 1..Cardinality(ids) |-> nth(i)]
    BY DEF BuildGraph
  <2>2. \A id \in ids : first[id] \in Named(id) /\ first[id] \in Nat
    BY NamedPositions
  <2>3. \A a, b \in ids : first[a] = first[b] => a = b
    BY <2>2 DEF Named
  <2>4. first \in [ids -> Nat]
    BY <2>2
  <2> HIDE DEF ids, first
  <2>5. /\ \A i \in 1..Cardinality(ids) : nth(i) \in ids
        /\ \A id \in ids : \E i \in 1..Cardinality(ids) : nth(i) = id
    BY <1>2, <2>3, <2>4, Ranking
  <2> HIDE DEF nth
  <2> QED BY <2>1, <2>5 DEF ToSet
<1>5. ASSUME NEW id PROVE Edges(id) \in Seq(Nat)
  <2>1. CASE id \in ids
    <3> DEFINE d == Max(Named(id))
    <3>1. d \in Named(id)
      BY <2>1, NamedPositions
    <3>2. d \in DOMAIN tree
      BY <3>1 DEF Named, Entries, Discovered
    <3>3. node[id].edges = Targets(tree[d])
      BY <2>1 DEF BuildGraph
    <3>4. Targets(tree[d]) \in Seq(Nat)
      <4> HIDE DEF d
      <4> QED BY <3>2, TreesAssumption DEF Targets
    <3> QED BY <1>3, <2>1, <3>3, <3>4 DEF Edges
  <2>2. CASE id \notin ids
    BY <1>3, <2>2 DEF Edges
  <2> QED BY <2>1, <2>2
<1>6. order \in Seq(Nat)
  <2> HIDE DEF ids
  <2>1. order \in [1..Cardinality(ids) -> Nat]
    BY <1>1, <1>4
  <2> QED BY <1>2, <2>1, SeqDef
<1> QED BY <1>1, <1>2, <1>3, <1>4, <1>5, <1>6

\* A node that leads somewhere is one of the graph.
LEMMA SourcesAreNodes ==
  ASSUME NEW n, NEW t \in ToSet(Edges(n))
  PROVE  n \in Nodes
BY DEF Edges, ToSet

-----------------------------------------------------------------------------
(* The steps of the search.                                                *)

\* The search does not change the graph.
LEMMA GraphStays ==
  ASSUME UNCHANGED <<tree, graph>>
  PROVE  /\ BuildGraph' = BuildGraph /\ Nodes' = Nodes /\ Elementary' = Elementary
         /\ \A id : Edges(id)' = Edges(id)
         /\ \A S : LeadsBack(S)' = LeadsBack(S)
<1> DEFINE EdgesOf(g, id) == IF id \in DOMAIN g THEN g[id].edges ELSE <<>>
           Cycles(g, k) == {c \in [1..k -> DOMAIN g] :
               /\ \A i \in DOMAIN c :
                     c[IF i = Len(c) THEN 1 ELSE i + 1] \in ToSet(EdgesOf(g, c[i]))
               /\ IsInjective(c)}
           All(g) == UNION {Cycles(g, k) : k \in 1..Cardinality(DOMAIN g)}
<1>1. tree' = tree /\ order' = order /\ node' = node
  BY DEF graph
<1>2. Elementary = All(node) /\ Elementary' = All(node')
  BY DEF Elementary, IsCycle, Nodes, Edges
<1>3. All(node') = All(node)
  <2> HIDE DEF All
  <2> QED BY <1>1
<1>4. \A id : Edges(id)' = Edges(id)
  BY <1>1 DEF Edges, Nodes
<1>5. \A S : LeadsBack(S)' = LeadsBack(S)
  BY <1>4 DEF LeadsBack
<1>6. BuildGraph' = BuildGraph
  BY <1>1 DEF BuildGraph, Entries, Discovered, Named
<1>7. Nodes' = Nodes
  BY <1>1 DEF Nodes
<1> QED BY <1>2, <1>3, <1>4, <1>5, <1>6, <1>7

\* Initially no node was visited, and each is in the order.
LEMMA InitIInv == Init => IInv
<1> SUFFICES ASSUME Init PROVE IInv
  OBVIOUS
<1>1. /\ tree \in Trees /\ BuildGraph /\ todo = order
      /\ visited = {} /\ stack = <<>> /\ cycles = <<>>
  BY DEF Init
<1>2. order \in Seq(Nat) /\ ToSet(order) = Nodes
  BY <1>1, GraphTyped
<1>3. Typed
  BY <1>1, <1>2 DEF Typed
<1>4. StackIsPath /\ ReportsSound
  BY <1>1 DEF StackIsPath, ReportsSound
<1>5. LeftAcyclic
  BY <1>1 DEF LeftAcyclic, Left
<1>6. Covered
  BY <1>1, <1>2 DEF Covered
<1> QED BY <1>3, <1>4, <1>5, <1>6 DEF IInv

\* The search starts from the next node, which was visited or is pushed.
LEMMA StartIInv ==
  ASSUME IInv, Start
  PROVE  IInv'
<1> DEFINE id == Head(todo)
           frame == [id |-> id, left |-> Edges(id)]
<1>1. /\ stack = <<>> /\ todo # <<>> /\ todo' = Tail(todo)
      /\ UNCHANGED <<tree, graph>> /\ Dfs(id, stack)
  BY DEF Start
<1>2. /\ tree \in Trees /\ BuildGraph /\ todo \in Seq(Nat) /\ visited \in SUBSET Nat
      /\ cycles \in Seq(Seq(Nat))
  BY DEF IInv, Typed
<1>3. /\ id \in Nat /\ Tail(todo) \in Seq(Nat)
      /\ \A t \in ToSet(todo) : t = id \/ t \in ToSet(Tail(todo))
  BY <1>1, <1>2, HeadAndTail
<1>4. /\ tree' = tree /\ BuildGraph' /\ Nodes' = Nodes /\ Elementary' = Elementary
      /\ \A n : Edges(n)' = Edges(n)
      /\ \A S : LeadsBack(S)' = LeadsBack(S)
      /\ \A n : Edges(n) \in Seq(Nat)
  BY <1>1, <1>2, GraphStays, GraphTyped
<1>5. frame \in Frames
  BY <1>3, <1>4 DEF Frames
<1>6. /\ cycles' = cycles
      /\ \/ id \in visited /\ visited' = visited /\ stack' = <<>>
         \/ id \notin visited /\ visited' = visited \cup {id} /\ stack' = <<frame>>
  <2>1. ~OnStack(id)
    BY <1>1 DEF OnStack
  <2>2. CASE id \in visited
    BY <1>1, <2>1, <2>2 DEF Dfs
  <2>3. CASE id \notin visited
    <3>1. visited' = visited \cup {id} /\ stack' = Push(stack, id) /\ cycles' = cycles
      BY <1>1, <2>1, <2>3 DEF Dfs
    <3>2. Push(stack, id) = <<frame>>
      BY <1>1 DEF Push
    <3> QED BY <2>3, <3>1, <3>2
  <2> QED BY <2>2, <2>3
<1> HIDE DEF id, frame
<1>7. /\ stack' \in Seq(Frames) /\ visited' \in SUBSET Nat
      /\ \/ stack' = <<>>
         \/ Len(stack') = 1 /\ stack'[1] = frame
  <2>1. visited' \in SUBSET Nat
    BY <1>2, <1>3, <1>6
  <2>2. <<frame>> \in Seq(Frames) /\ Len(<<frame>>) = 1 /\ <<frame>>[1] = frame
    BY <1>5
  <2>3. <<>> \in Seq(Frames)
    OBVIOUS
  <2> QED BY <1>6, <2>1, <2>2, <2>3
<1>8. Typed'
  BY <1>1, <1>2, <1>3, <1>4, <1>6, <1>7 DEF Typed
<1>9. StackIsPath'
  <2>1. CASE stack' = <<>>
    BY <2>1 DEF StackIsPath
  <2>2. CASE stack' = <<frame>>
    BY <1>4, <1>6, <1>7, <2>2 DEF StackIsPath, frame
  <2> QED BY <1>6, <2>1, <2>2
<1>10. ReportsSound'
  BY <1>4, <1>6 DEF IInv, ReportsSound
<1>11. LeftAcyclic'
  <2>1. Left = visited
    BY <1>1 DEF Left
  <2>2. Left' = visited
    <3>1. CASE stack' = <<>>
      BY <1>6, <3>1 DEF Left
    <3>2. CASE stack' = <<frame>>
      <4>1. {stack'[i].id : i \in 1..Len(stack')} = {id}
        BY <3>2 DEF frame
      <4> QED BY <1>6, <3>2, <4>1 DEF Left
    <3> QED BY <1>6, <3>1, <3>2
  <2>3. ASSUME NEW i \in 1..Len(stack') PROVE stack'[i].left = Edges(stack'[i].id)
    BY <1>6, <1>7, <2>3 DEF frame
  <2> QED BY <1>4, <1>6, <2>1, <2>2, <2>3 DEF IInv, LeftAcyclic
<1>12. Covered'
  BY <1>1, <1>3, <1>4, <1>6 DEF IInv, Covered
<1> QED BY <1>8, <1>9, <1>10, <1>11, <1>12 DEF IInv

\* The search returns from a node: nothing leads from it but to nodes that were left.
LEMMA ReturnIInv ==
  ASSUME IInv, Return
  PROVE  IInv'
<1> DEFINE n == Len(stack)
           b == stack[n].id
<1>1. /\ stack # <<>> /\ stack[n].left = <<>> /\ stack' = Front(stack)
      /\ UNCHANGED <<tree, graph>> /\ UNCHANGED <<todo, visited, cycles>>
  BY DEF Return, Last
<1>2. /\ tree \in Trees /\ BuildGraph /\ todo \in Seq(Nat) /\ visited \in SUBSET Nat
      /\ stack \in Seq(Frames) /\ cycles \in Seq(Seq(Nat))
  BY DEF IInv, Typed
<1>3. /\ tree' = tree /\ BuildGraph' /\ Nodes' = Nodes /\ Elementary' = Elementary
      /\ \A m : Edges(m)' = Edges(m)
      /\ \A S : LeadsBack(S)' = LeadsBack(S)
  BY <1>1, <1>2, GraphStays
<1>4. /\ n \in Nat /\ n >= 1
      /\ \A i \in 1..n : stack[i] \in Frames
  BY <1>1, <1>2, EmptySeq
<1>5. /\ stack' \in Seq(Frames) /\ Len(stack') = n - 1
      /\ \A i \in 1..(n - 1) : stack'[i] = stack[i]
  <2>1. 1 \in Int /\ n - 1 \in Int /\ \A i \in 1..(n - 1) : stack[i] \in Frames
    BY <1>4
  <2>2. /\ stack' \in Seq(Frames)
        /\ Len(stack') = IF 1 <= n - 1 THEN (n - 1) - 1 + 1 ELSE 0
        /\ \A i \in 1..((n - 1) - 1 + 1) : stack'[i] = stack[1 + i - 1]
    BY <1>1, <2>1, SubSeqProperties DEF Front
  <2>3. Len(stack') = n - 1
    <3> HIDE DEF n
    <3>1. CASE 1 <= n - 1
      BY <1>4, <2>2, <3>1
    <3>2. CASE ~(1 <= n - 1)
      BY <1>4, <2>2, <3>2
    <3> QED BY <3>1, <3>2
  <2>4. ASSUME NEW i \in 1..(n - 1) PROVE stack'[i] = stack[i]
    <3>1. i \in 1..((n - 1) - 1 + 1) /\ 1 + i - 1 = i
      BY <1>4
    <3> QED BY <2>2, <3>1
  <2> QED BY <2>2, <2>3, <2>4
<1> HIDE DEF n, b
<1>6. /\ \A i \in 1..n : stack[i].id \in visited
      /\ \A i \in 1..n : ToSet(stack[i].left) \subseteq ToSet(Edges(stack[i].id))
      /\ \A i, j \in 1..n : stack[i].id = stack[j].id => i = j
      /\ \A i \in 1..(n - 1) : stack[i + 1].id \in ToSet(Edges(stack[i].id))
  BY DEF IInv, StackIsPath, n
<1>7. Typed'
  BY <1>1, <1>2, <1>3, <1>5 DEF Typed
<1>8. StackIsPath'
  <2>1. \A i \in 1..(n - 1) : i \in 1..n
    BY <1>4
  <2>2. \A i \in 1..((n - 1) - 1) : i \in 1..(n - 1) /\ i + 1 \in 1..(n - 1)
    BY <1>4
  <2>3. \A i \in 1..(n - 1) : /\ stack'[i].id \in visited
                              /\ ToSet(stack'[i].left) \subseteq ToSet(Edges(stack'[i].id))
    BY <1>5, <1>6, <2>1
  <2>4. \A i, j \in 1..(n - 1) : stack'[i].id = stack'[j].id => i = j
    BY <1>5, <1>6, <2>1
  <2>5. \A i \in 1..((n - 1) - 1) : stack'[i + 1].id \in ToSet(Edges(stack'[i].id))
    BY <1>5, <1>6, <2>2
  <2> QED BY <1>1, <1>3, <1>5, <2>3, <2>4, <2>5 DEF StackIsPath
<1>9. ReportsSound'
  BY <1>1, <1>3 DEF IInv, ReportsSound
<1>10. LeftAcyclic'
  <2> SUFFICES ASSUME cycles = <<>>
               PROVE  /\ \A m \in Left' : ToSet(Edges(m)) \subseteq Left'
                      /\ \A S \in SUBSET Left' : LeadsBack(S) => S = {}
                      /\ \A i \in 1..Len(stack') : \A t \in ToSet(Edges(stack'[i].id)) :
                            \/ t \in Left' \/ t \in ToSet(stack'[i].left)
                            \/ i < Len(stack') /\ t = stack'[i + 1].id
    BY <1>1, <1>3 DEF LeftAcyclic
  <2>1. /\ \A m \in Left : ToSet(Edges(m)) \subseteq Left
        /\ \A S \in SUBSET Left : LeadsBack(S) => S = {}
        /\ \A i \in 1..n : \A t \in ToSet(Edges(stack[i].id)) :
              \/ t \in Left \/ t \in ToSet(stack[i].left)
              \/ i < n /\ t = stack[i + 1].id
    BY DEF IInv, LeftAcyclic, n
  <2>2. Left' = Left \cup {b} /\ b \notin Left
    <3>1. n \in 1..n /\ \A i \in 1..n : i = n \/ i \in 1..(n - 1)
      BY <1>4
    <3>2. \A x : x \in {stack[i].id : i \in 1..n} <=>
                    x = b \/ x \in {stack'[i].id : i \in 1..(n - 1)}
      BY <1>4, <1>5, <3>1 DEF b
    <3>3. b \notin {stack'[i].id : i \in 1..(n - 1)}
      <4> SUFFICES ASSUME NEW i \in 1..(n - 1), stack[i].id = b PROVE FALSE
        BY <1>5
      <4>1. i \in 1..n /\ i # n
        BY <1>4
      <4> QED BY <1>6, <3>1, <4>1 DEF b
    <3>4. b \in visited
      BY <1>6, <3>1 DEF b
    <3>5. Left = visited \ {stack[i].id : i \in 1..n}
      BY DEF Left, n
    <3>6. Left' = visited \ {stack'[i].id : i \in 1..(n - 1)}
      BY <1>1, <1>5 DEF Left
    <3> QED BY <3>2, <3>3, <3>4, <3>5, <3>6
  <2>3. ToSet(Edges(b)) \subseteq Left
    <3>1. n \in 1..n /\ ~(n < n) /\ ToSet(stack[n].left) = {}
      BY <1>1, <1>4 DEF ToSet
    <3> QED BY <2>1, <3>1 DEF b
  <2>4. \A m \in Left' : ToSet(Edges(m)) \subseteq Left'
    BY <2>1, <2>2, <2>3
  <2>5. ASSUME NEW S \in SUBSET Left', LeadsBack(S) PROVE S = {}
    <3>1. b \notin S
      <4> SUFFICES ASSUME b \in S PROVE FALSE
        OBVIOUS
      <4>1. PICK m \in S : b \in ToSet(Edges(m))
        BY <2>5 DEF LeadsBack
      <4> QED BY <2>1, <2>2, <2>3, <4>1
    <3> QED BY <2>1, <2>2, <2>5, <3>1
  <2>6. ASSUME NEW i \in 1..(n - 1), NEW t \in ToSet(Edges(stack[i].id))
        PROVE  \/ t \in Left' \/ t \in ToSet(stack[i].left)
               \/ i < n - 1 /\ t = stack[i + 1].id
    <3>1. i \in 1..n /\ i < n /\ (i < n - 1 \/ i + 1 = n)
      BY <1>4
    <3> QED BY <2>1, <2>2, <3>1 DEF b
  <2>7. \A i \in 1..(n - 1) : i < n - 1 => i + 1 \in 1..(n - 1)
    BY <1>4
  <2> QED BY <1>5, <2>4, <2>5, <2>6, <2>7
<1>11. Covered'
  BY <1>1, <1>3 DEF IInv, Covered
<1> QED BY <1>7, <1>8, <1>9, <1>10, <1>11 DEF IInv

\* A node that is met on the stack closes an elementary cycle: the stack from it on.
LEMMA ClosedCycle ==
  ASSUME IInv, NEW start \in 1..Len(stack),
         stack[start].id \in ToSet(Edges(stack[Len(stack)].id))
  PROVE  [i \in 1..(Len(stack) - start + 1) |-> stack[start + i - 1].id] \in Elementary
<1> DEFINE n == Len(stack)
           k == n - start + 1
           c == [i \in 1..k |-> stack[start + i - 1].id]
<1>1. /\ n \in Nat /\ start \in 1..n
      /\ \A i, j \in 1..n : stack[i].id = stack[j].id => i = j
      /\ \A i \in 1..(n - 1) : stack[i + 1].id \in ToSet(Edges(stack[i].id))
      /\ stack[start].id \in ToSet(Edges(stack[n].id))
      /\ IsFiniteSet(Nodes)
  BY GraphTyped DEF IInv, Typed, StackIsPath
<1> HIDE DEF n
<1>2. k \in Nat /\ k >= 1 /\ DOMAIN c = 1..k /\ Len(c) = k
  BY <1>1
<1>3. ASSUME NEW i \in 1..k
      PROVE  c[IF i = Len(c) THEN 1 ELSE i + 1] \in ToSet(Edges(c[i]))
  <2>1. CASE i = k
    <3>1. c[i] = stack[n].id /\ c[1] = stack[start].id
      BY <1>1, <1>2, <2>1
    <3> QED BY <1>1, <1>2, <2>1, <3>1
  <2>2. CASE i # k
    <3>1. i + 1 \in 1..k /\ start + i - 1 \in 1..(n - 1) /\ start + (i + 1) - 1 = (start + i - 1) + 1
      BY <1>1, <1>2, <2>2
    <3>2. c[i] = stack[start + i - 1].id /\ c[i + 1] = stack[(start + i - 1) + 1].id
      BY <3>1
    <3> QED BY <1>1, <1>2, <2>2, <3>1, <3>2
  <2> QED BY <2>1, <2>2
<1>4. IsInjective(c)
  <2> SUFFICES ASSUME NEW i \in 1..k, NEW j \in 1..k, c[i] = c[j] PROVE i = j
    BY <1>2 DEF IsInjective
  <2>1. start + i - 1 \in 1..n /\ start + j - 1 \in 1..n
    BY <1>1
  <2>2. start + i - 1 = start + j - 1
    BY <1>1, <2>1
  <2> QED BY <1>1, <2>2
<1>5. c \in [1..k -> Nodes]
  <2>1. \A i \in 1..k : c[i] \in Nodes
    BY <1>3, SourcesAreNodes
  <2> QED BY <2>1
<1> HIDE DEF c
<1>6. k \in 1..Cardinality(Nodes)
  <2>1. c \in Injection(1..k, Nodes)
    BY <1>4, <1>5 DEF Injection, IsInjective
  <2>2. Cardinality(1..k) <= Cardinality(Nodes) /\ Cardinality(Nodes) \in Nat
    BY <1>1, <2>1, FS_Injection, FS_CardinalityType
  <2>3. Cardinality(1..k) = k
    <3> HIDE DEF k
    <3> QED BY <1>2, FS_Interval
  <2> QED BY <1>2, <2>2, <2>3
<1>7. IsCycle(c)
  BY <1>2, <1>3, <1>4 DEF IsCycle
<1>8. c \in Elementary
  <2> HIDE DEF k
  <2> QED BY <1>5, <1>6, <1>7 DEF Elementary
<1> QED BY <1>8 DEF c, k, n

\* The search looks at the next target of the node it is at: on the stack, it is
\* reported; visited and left, it is passed over; otherwise it is pushed.
LEMMA DescendIInv ==
  ASSUME IInv, Descend
  PROVE  IInv'
<1> DEFINE n == Len(stack)
           l == stack[n].left
           id == Head(l)
           s == [stack EXCEPT ![n].left = Tail(@)]
           frame == [id |-> id, left |-> Edges(id)]
<1>1. /\ stack # <<>> /\ l # <<>> /\ Dfs(id, s)
      /\ UNCHANGED <<tree, graph>> /\ todo' = todo
  BY DEF Descend, Last
<1>2. /\ tree \in Trees /\ BuildGraph /\ todo \in Seq(Nat) /\ visited \in SUBSET Nat
      /\ stack \in Seq(Frames) /\ cycles \in Seq(Seq(Nat))
  BY DEF IInv, Typed
<1>3. /\ tree' = tree /\ BuildGraph' /\ Nodes' = Nodes /\ Elementary' = Elementary
      /\ \A m : Edges(m)' = Edges(m)
      /\ \A S : LeadsBack(S)' = LeadsBack(S)
      /\ \A m : Edges(m) \in Seq(Nat)
  BY <1>1, <1>2, GraphStays, GraphTyped
<1>4. /\ n \in Nat /\ n >= 1 /\ n \in 1..n
      /\ \A i \in 1..n : stack[i] \in Frames /\ stack[i].id \in Nat /\ stack[i].left \in Seq(Nat)
  <2>1. n \in Nat /\ n >= 1
    BY <1>1, <1>2, EmptySeq
  <2>2. \A i \in 1..n : stack[i] \in Frames
    BY <1>2
  <2>3. \A f \in Frames : f.id \in Nat /\ f.left \in Seq(Nat)
    BY DEF Frames
  <2> QED BY <2>1, <2>2, <2>3
<1>5. /\ id \in Nat /\ Tail(l) \in Seq(Nat) /\ id \in ToSet(l)
      /\ ToSet(Tail(l)) \subseteq ToSet(l)
      /\ \A t \in ToSet(l) : t = id \/ t \in ToSet(Tail(l))
  BY <1>1, <1>4, HeadAndTail
<1>6. /\ s \in Seq(Frames) /\ Len(s) = n
      /\ \A i \in 1..n : s[i].id = stack[i].id
      /\ \A i \in 1..n : i # n => s[i].left = stack[i].left
      /\ s[n].left = Tail(l)
  <2>1. \A f \in Frames : [f EXCEPT !.left = Tail(l)] \in Frames
    BY <1>5 DEF Frames
  <2>2. \A f \in Frames : [f EXCEPT !.left = Tail(l)].id = f.id /\ [f EXCEPT !.left = Tail(l)].left = Tail(l)
    BY DEF Frames
  <2>3. s = [stack EXCEPT ![n] = [stack[n] EXCEPT !.left = Tail(l)]]
    OBVIOUS
  <2> HIDE DEF s, l
  <2>4. /\ s \in Seq(Frames) /\ Len(s) = n
        /\ s[n] = [stack[n] EXCEPT !.left = Tail(l)]
        /\ \A i \in 1..n : i # n => s[i] = stack[i]
    <3> DEFINE e == [stack[n] EXCEPT !.left = Tail(l)]
    <3>1. e \in Frames /\ n \in 1..Len(stack)
      BY <1>4, <2>1
    <3> HIDE DEF e
    <3>2. s = [stack EXCEPT ![n] = e]
      BY <2>3 DEF e
    <3>3. \A i \in 1..Len(s) : i # n => s[i] = stack[i]
      BY <1>2, <3>1, <3>2, ExceptSeq
    <3>4. s \in Seq(Frames) /\ Len(s) = n /\ s[n] = e
      BY <1>2, <3>1, <3>2, ExceptSeq
    <3> QED BY <3>3, <3>4 DEF e
  <2>5. s[n].id = stack[n].id /\ s[n].left = Tail(l)
    BY <1>4, <2>2, <2>4
  <2> QED BY <2>4, <2>5
<1> HIDE DEF s
<1>7. /\ \A i \in 1..n : stack[i].id \in visited
      /\ \A i \in 1..n : ToSet(stack[i].left) \subseteq ToSet(Edges(stack[i].id))
      /\ \A i, j \in 1..n : stack[i].id = stack[j].id => i = j
      /\ \A i \in 1..(n - 1) : stack[i + 1].id \in ToSet(Edges(stack[i].id))
  BY DEF IInv, StackIsPath
<1>8. id \in ToSet(Edges(stack[n].id))
  BY <1>4, <1>5, <1>7
<1>9. cycles = <<>> =>
        /\ \A m \in Left : ToSet(Edges(m)) \subseteq Left
        /\ \A S \in SUBSET Left : LeadsBack(S) => S = {}
        /\ \A i \in 1..n : \A t \in ToSet(Edges(stack[i].id)) :
              \/ t \in Left \/ t \in ToSet(stack[i].left)
              \/ i < n /\ t = stack[i + 1].id
  BY DEF IInv, LeftAcyclic
<1>10. \A i \in 1..n : ToSet(s[i].left) \subseteq ToSet(Edges(stack[i].id))
  BY <1>4, <1>5, <1>6, <1>7
<1> HIDE DEF n, l, id, frame
<1>11. CASE OnStack(id)
  <2> DEFINE I == {i \in 1..n : stack[i].id = id}
             start == Min(I)
             k == n - start + 1
             c == [i \in 1..k |-> stack[start + i - 1].id]
             r == [i \in 1..(n - start + 2) |-> IF i <= n - start + 1 THEN stack[start + i - 1].id ELSE id]
  <2>1. start \in 1..n /\ stack[start].id = id /\ I # {}
    <3>1. I # {} /\ I \in SUBSET Nat
      <4>1. DOMAIN stack = 1..n
        BY <1>2 DEF n
      <4> QED BY <1>4, <1>11, <4>1 DEF OnStack
    <3>2. start \in I
      <4> HIDE DEF I
      <4> QED BY <3>1, SmallestNumber
    <3> QED BY <3>1, <3>2
  <2>2. SelectInSeq(stack, LAMBDA frm : frm.id = id) = start
    BY <2>1 DEF SelectInSeq, Min, n
  <2>3. cycles' = Append(cycles, r) /\ stack' = s /\ visited' = visited
    <3> HIDE DEF start
    <3> QED BY <1>1, <1>11, <2>2 DEF Dfs, n
  <2> HIDE DEF I, start
  <2>4. /\ k \in Nat /\ k >= 1 /\ DOMAIN r = 1..(k + 1)
        /\ \A i \in 1..k : r[i] = c[i] /\ c[i] \in Nat
        /\ r[k + 1] = c[1] /\ c[1] \in Nat
    <3>1. k \in Nat /\ k >= 1 /\ n - start + 2 = k + 1
      BY <1>4, <2>1
    <3>2. \A i \in 1..k : start + i - 1 \in 1..n
      BY <1>4, <2>1
    <3>3. \A i \in 1..k : r[i] = c[i] /\ c[i] \in Nat
      BY <1>4, <3>1, <3>2
    <3>4. c[1] = id /\ r[k + 1] = id
      BY <2>1, <3>1
    <3> QED BY <1>5, <3>1, <3>3, <3>4
  <2>5. c \in Elementary
    BY <1>8, <2>1, ClosedCycle DEF n
  <2> HIDE DEF c, r
  <2>6. r \in Seq(Nat) /\ Len(r) = k + 1 /\ Len(r) > 1 /\ ToSet(r) \subseteq ToSet(c)
    <3>1. \A i \in 1..(k + 1) : i \in 1..k \/ i = k + 1
      BY <2>4
    <3>2. \A i \in 1..(k + 1) : r[i] \in Nat
      BY <2>4, <3>1
    <3>3. r \in Seq(Nat) /\ Len(r) = k + 1
      <4>1. k + 1 \in Nat /\ r = [i \in 1..(k + 1) |-> r[i]]
        BY <2>4 DEF r
      <4> HIDE DEF k
      <4> QED BY <3>2, <4>1, SeqDef
    <3>4. DOMAIN c = 1..k /\ 1 \in 1..k
      BY <2>4 DEF c
    <3>5. ToSet(r) \subseteq ToSet(c)
      BY <2>4, <3>1, <3>4 DEF ToSet
    <3> QED BY <2>4, <3>3, <3>5
  <2> HIDE DEF k
  <2>7. /\ cycles' \in Seq(Seq(Nat)) /\ Len(cycles') = Len(cycles) + 1 /\ Len(cycles) \in Nat
        /\ \A i \in 1..Len(cycles) : cycles'[i] = cycles[i]
        /\ cycles'[Len(cycles) + 1] = r /\ cycles' # <<>>
    <3>1. Len(cycles) \in Nat
      BY <1>2
    <3> DEFINE T == Seq(Nat)
    <3>2. cycles \in Seq(T) /\ r \in T
      BY <1>2, <2>6
    <3> HIDE DEF T
    <3>3. /\ Append(cycles, r) \in Seq(T) /\ Append(cycles, r) # <<>>
          /\ Len(Append(cycles, r)) = Len(cycles) + 1
          /\ \A i \in 1..Len(cycles) : Append(cycles, r)[i] = cycles[i]
          /\ Append(cycles, r)[Len(cycles) + 1] = r
      BY <3>2, AppendProperties
    <3> QED BY <2>3, <3>1, <3>3 DEF T
  <2>8. Typed'
    BY <1>1, <1>2, <1>3, <1>6, <2>3, <2>7 DEF Typed
  <2>9. StackIsPath'
    <3>1. \A i \in 1..(n - 1) : i \in 1..n /\ i + 1 \in 1..n
      BY <1>4
    <3> QED BY <1>3, <1>6, <1>7, <1>10, <2>3, <3>1 DEF StackIsPath
  <2>10. ReportsSound'
    <3>1. \A i \in 1..(Len(cycles) + 1) : i \in 1..Len(cycles) \/ i = Len(cycles) + 1
      BY <2>7
    <3>2. \A i \in 1..Len(cycles) :
            Len(cycles[i]) > 1 /\ \E e \in Elementary : ToSet(cycles[i]) \subseteq ToSet(e)
      BY DEF IInv, ReportsSound
    <3> QED BY <1>3, <2>5, <2>6, <2>7, <3>1, <3>2 DEF ReportsSound
  <2>11. LeftAcyclic'
    BY <2>7 DEF LeftAcyclic
  <2>12. Covered'
    BY <1>1, <1>3, <2>3 DEF IInv, Covered
  <2> QED BY <2>8, <2>9, <2>10, <2>11, <2>12 DEF IInv
<1>12. CASE ~OnStack(id) /\ id \in visited
  <2>1. stack' = s /\ visited' = visited /\ cycles' = cycles
    BY <1>1, <1>12 DEF Dfs
  <2>2. Typed'
    BY <1>1, <1>2, <1>3, <1>6, <2>1 DEF Typed
  <2>3. StackIsPath'
    <3>1. \A i \in 1..(n - 1) : i \in 1..n /\ i + 1 \in 1..n
      BY <1>4
    <3> QED BY <1>3, <1>6, <1>7, <1>10, <2>1, <3>1 DEF StackIsPath
  <2>4. ReportsSound'
    BY <1>3, <2>1 DEF IInv, ReportsSound
  <2>5. LeftAcyclic'
    <3>1. Left' = Left
      BY <1>6, <2>1 DEF Left, n
    <3>2. id \in Left
      BY <1>2, <1>12 DEF Left, OnStack
    <3>3. ASSUME cycles = <<>>, NEW i \in 1..n, NEW t \in ToSet(Edges(stack[i].id))
          PROVE  t \in Left \/ t \in ToSet(s[i].left) \/ (i < n /\ t = s[i + 1].id)
      <4>1. i < n => i + 1 \in 1..n
        BY <1>4
      <4>2. CASE t \in ToSet(stack[i].left)
        <5>1. CASE i = n
          BY <1>5, <1>6, <3>2, <4>2, <5>1 DEF l
        <5>2. CASE i # n
          BY <1>6, <4>2, <5>2
        <5> QED BY <5>1, <5>2
      <4> QED BY <1>6, <1>9, <3>3, <4>1, <4>2
    <3> QED BY <1>3, <1>6, <1>9, <2>1, <3>1, <3>3 DEF LeftAcyclic
  <2>6. Covered'
    BY <1>1, <1>3, <2>1 DEF IInv, Covered
  <2> QED BY <2>2, <2>3, <2>4, <2>5, <2>6 DEF IInv
<1>13. CASE ~OnStack(id) /\ id \notin visited
  <2>1. stack' = Append(s, frame) /\ visited' = visited \cup {id} /\ cycles' = cycles
    BY <1>1, <1>13 DEF Dfs, Push, frame
  <2>2. /\ stack' \in Seq(Frames) /\ Len(stack') = n + 1
        /\ \A i \in 1..n : stack'[i] = s[i]
        /\ stack'[n + 1] = frame /\ frame.id = id /\ frame.left = Edges(id)
    <3>1. frame \in Frames /\ frame.id = id /\ frame.left = Edges(id)
      BY <1>3, <1>5 DEF Frames, frame
    <3> QED BY <1>6, <2>1, <3>1, AppendProperties
  <2>3. Typed'
    BY <1>1, <1>2, <1>3, <1>5, <2>1, <2>2 DEF Typed
  <2>4. \A i \in 1..(n + 1) : i \in 1..n \/ i = n + 1
    BY <1>4
  <2>5. \A i \in 1..n : stack'[i].id = stack[i].id /\ stack[i].id # id
    BY <1>6, <1>7, <1>13, <2>2
  <2>6. StackIsPath'
    <3>1. \A i \in 1..(n + 1) : /\ stack'[i].id \in visited'
                                /\ ToSet(stack'[i].left) \subseteq ToSet(Edges(stack'[i].id))
      <4>1. \A i \in 1..n : stack'[i].id \in visited'
        BY <1>7, <2>1, <2>5
      <4>2. \A i \in 1..n : ToSet(stack'[i].left) \subseteq ToSet(Edges(stack'[i].id))
        BY <1>10, <2>2, <2>5
      <4>3. stack'[n + 1].id \in visited' /\ stack'[n + 1].left = Edges(stack'[n + 1].id)
        BY <2>1, <2>2
      <4> QED BY <2>4, <4>1, <4>2, <4>3
    <3>2. \A i, j \in 1..(n + 1) : stack'[i].id = stack'[j].id => i = j
      BY <1>7, <2>2, <2>4, <2>5
    <3>3. \A i \in 1..((n + 1) - 1) : stack'[i + 1].id \in ToSet(Edges(stack'[i].id))
      <4> SUFFICES ASSUME NEW i \in 1..n
                   PROVE  stack'[i + 1].id \in ToSet(Edges(stack'[i].id))
        BY <1>4
      <4>1. CASE i = n
        BY <1>8, <2>2, <2>5, <4>1
      <4>2. CASE i # n
        <5>1. i \in 1..(n - 1) /\ i + 1 \in 1..n
          BY <1>4, <4>2
        <5> QED BY <1>7, <2>5, <5>1
      <4> QED BY <4>1, <4>2
    <3> QED BY <1>3, <2>2, <3>1, <3>2, <3>3 DEF StackIsPath
  <2>7. ReportsSound'
    BY <1>3, <2>1 DEF IInv, ReportsSound
  <2>8. LeftAcyclic'
    <3>1. Left' = Left
      <4>1. Left = visited \ {stack[i].id : i \in 1..n}
        BY DEF Left, n
      <4>2. Left' = (visited \cup {id}) \ {stack'[i].id : i \in 1..(n + 1)}
        BY <2>1, <2>2 DEF Left
      <4>3. n + 1 \in 1..(n + 1) /\ \A i \in 1..n : i \in 1..(n + 1)
        BY <1>4
      <4>4. \A x : x \in {stack'[i].id : i \in 1..(n + 1)} <=>
                      x = id \/ x \in {stack[i].id : i \in 1..n}
        BY <2>2, <2>4, <2>5, <4>3
      <4> QED BY <1>13, <4>1, <4>2, <4>4
    <3>2. ASSUME cycles = <<>>, NEW i \in 1..(n + 1), NEW t \in ToSet(Edges(stack'[i].id))
          PROVE  t \in Left \/ t \in ToSet(stack'[i].left) \/ (i < n + 1 /\ t = stack'[i + 1].id)
      <4>1. CASE i = n + 1
        BY <2>2, <3>2, <4>1
      <4>2. CASE i \in 1..n /\ i = n
        <5>1. t \in Left \/ t \in ToSet(l)
          <6>1. ~(n < n) /\ n \in 1..n /\ t \in ToSet(Edges(stack[n].id))
            BY <1>4, <2>5, <3>2, <4>2
          <6> QED BY <1>9, <3>2, <6>1 DEF l
        <5>2. n < n + 1
          BY <1>4
        <5> QED BY <1>5, <1>6, <2>2, <4>2, <5>1, <5>2
      <4>3. CASE i \in 1..n /\ i # n
        <5>1. i < n + 1 /\ i + 1 \in 1..n
          BY <1>4, <4>3
        <5>2. stack'[i].left = stack[i].left /\ stack'[i + 1].id = stack[i + 1].id
          BY <1>6, <2>2, <2>5, <4>3, <5>1
        <5> QED BY <1>9, <2>5, <3>2, <4>3, <5>1, <5>2
      <4> QED BY <2>4, <4>1, <4>2, <4>3
    <3> QED BY <1>3, <1>9, <2>1, <2>2, <3>1, <3>2 DEF LeftAcyclic
  <2>9. Covered'
    BY <1>1, <1>3, <2>1 DEF IInv, Covered
  <2> QED BY <2>3, <2>6, <2>7, <2>8, <2>9 DEF IInv
<1> QED BY <1>11, <1>12, <1>13

\* Every step of the search preserves the invariant.
LEMMA NextIInv == IInv /\ [Next]_vars => IInv'
<1>1. ASSUME IInv, UNCHANGED vars PROVE IInv'
  <2>1. /\ BuildGraph' = BuildGraph /\ Nodes' = Nodes /\ Elementary' = Elementary
        /\ \A m : Edges(m)' = Edges(m)
        /\ \A S : LeadsBack(S)' = LeadsBack(S)
    BY <1>1, GraphStays DEF vars
  <2>2. /\ tree' = tree /\ todo' = todo /\ visited' = visited /\ stack' = stack
        /\ cycles' = cycles
    BY <1>1 DEF vars, search
  <2>3. Left' = Left
    BY <2>2 DEF Left
  <2> QED BY <1>1, <2>1, <2>2, <2>3
          DEF IInv, Typed, StackIsPath, ReportsSound, LeftAcyclic, Covered
<1> QED BY <1>1, StartIInv, DescendIInv, ReturnIInv DEF Next

\* The invariant holds in every reachable state.
THEOREM SearchInvariant == Spec => []IInv
  BY InitIInv, NextIInv, PTL DEF Spec

-----------------------------------------------------------------------------
(* The cycles.                                                             *)

\* Where the search has ended without a report, no nodes lead back into themselves.
LEMMA NoReportNoCycle ==
  ASSUME IInv, Done, cycles = <<>>, NEW S \in SUBSET Nodes, LeadsBack(S)
  PROVE  S = {}
<1>1. Left = visited
  BY DEF Done, Left
<1>2. ToSet(todo) = {}
  BY DEF Done, ToSet
<1>3. S \in SUBSET Left
  BY <1>1, <1>2 DEF IInv, Covered
<1> QED BY <1>3 DEF IInv, LeftAcyclic

\* A cycle is reported if and only if there is one, wherever the depth-first search
\* meets it, and a report names nodes of one cycle only (_find_cycles, graph.py 193-230).
THEOREM CyclesAreFound == Spec => []CycleFound
<1>1. IInv => CycleFound
  <2> SUFFICES ASSUME IInv, Done
               PROVE  /\ (Unique # {}) = (Elementary # {})
                      /\ \A c \in Unique :
                            c # <<>> /\ \E e \in Elementary : ToSet(c) \subseteq ToSet(e)
    BY DEF CycleFound
  <2>1. cycles \in Seq(Seq(Nat)) /\ DOMAIN cycles = 1..Len(cycles) /\ Len(cycles) \in Nat
    BY DEF IInv, Typed
  <2>2. ASSUME NEW i \in 1..Len(cycles)
        PROVE  /\ Rotated(cycles[i]) # <<>>
               /\ \E e \in Elementary : ToSet(Rotated(cycles[i])) \subseteq ToSet(e)
    <3>1. cycles[i] \in Seq(Nat) /\ Len(cycles[i]) > 1
      BY <2>1 DEF IInv, ReportsSound
    <3>2. \E e \in Elementary : ToSet(cycles[i]) \subseteq ToSet(e)
      BY DEF IInv, ReportsSound
    <3> QED BY <3>1, <3>2, RotatedNames
  <2>3. \A c \in Unique : c # <<>> /\ \E e \in Elementary : ToSet(c) \subseteq ToSet(e)
    BY <2>1, <2>2 DEF Unique
  <2>4. Unique # {} => Elementary # {}
    BY <2>3
  <2>5. ASSUME Unique = {} PROVE Elementary = {}
    <3>1. cycles = <<>>
      <4>1. \A i \in 1..Len(cycles) : FALSE
        BY <2>1, <2>5 DEF Unique
      <4>2. Len(cycles) = 0
        BY <2>1, <4>1
      <4> QED BY <2>1, <4>2, EmptySeq
    <3> SUFFICES ASSUME NEW c \in Elementary PROVE FALSE
      OBVIOUS
    <3>2. PICK k \in 1..Cardinality(Nodes) : c \in [1..k -> Nodes] /\ IsCycle(c)
      BY DEF Elementary
    <3>3. k \in Nat /\ k >= 1
      <4>1. Cardinality(Nodes) \in Nat
        BY GraphTyped, FS_CardinalityType DEF IInv, Typed
      <4> QED BY <4>1
    <3>4. DOMAIN c = 1..k /\ Len(c) = k /\ ToSet(c) \in SUBSET Nodes /\ ToSet(c) # {}
      <4>1. DOMAIN c = 1..k /\ Len(c) = k /\ c \in Seq(Nodes)
        BY <3>2, <3>3, SeqDef
      <4> QED BY <3>2, <3>3, <4>1 DEF ToSet
    <3>5. LeadsBack(ToSet(c))
      <4> SUFFICES ASSUME NEW j \in 1..k
                   PROVE  \E m \in ToSet(c) : c[j] \in ToSet(Edges(m))
        BY <3>4 DEF LeadsBack, ToSet
      <4> DEFINE i == IF j = 1 THEN k ELSE j - 1
      <4>1. i \in 1..k /\ (IF i = k THEN 1 ELSE i + 1) = j
        BY <3>3
      <4>2. c[j] \in ToSet(Edges(c[i]))
        BY <3>2, <3>4, <4>1 DEF IsCycle
      <4>3. c[i] \in ToSet(c)
        BY <3>4, <4>1 DEF ToSet
      <4> QED BY <4>2, <4>3
    <3> QED BY <3>1, <3>4, <3>5, NoReportNoCycle
  <2> QED BY <2>3, <2>4, <2>5
<1> QED BY SearchInvariant, <1>1, PTL

-----------------------------------------------------------------------------
(* The packages that pass.                                                 *)

\* A rule whose condition holds keeps a package from passing.
LEMMA RuleApplies ==
  ASSUME NEW findings, NEW condition \in BOOLEAN, NEW code,
         When(condition, Error(code)) \subseteq findings,
         \A f \in findings : f.severity # "error"
  PROVE  ~condition
<1> SUFFICES ASSUME condition PROVE FALSE
  OBVIOUS
<1>1. Finding(code, "error") \in findings
  BY DEF When, Error
<1> QED BY <1>1 DEF Finding

\* What the rules for structure, frontmatter and manifests demand of a package.
LEMMA PassedRules ==
  ASSUME NEW d, NEW p, Passed(d, p)
  PROVE  /\ p.reads # None /\ ~HasBoth(p) /\ SeesFrontmatter(p)
         /\ ~p.extra /\ p.name # None /\ p.described
         /\ p.capability # None => Parsed(p.capability)
         /\ p.contract # None => Parsed(p.contract)
         /\ Parsed(p.contract) \/ Parsed(p.capability) =>
              {d, SeenName(p)} \subseteq {None, 0, Manifest(p).id}
<1>1. \A f \in Lint(d, p) : f.severity # "error"
  BY DEF Passed
<1>2. /\ Structural(p) \subseteq Lint(d, p) /\ FrontmatterFindings(p) \subseteq Lint(d, p)
      /\ ManifestFindings(p) \subseteq Lint(d, p)
      /\ When(Parsed(p.contract) \/ Parsed(p.capability), IdentityFindings(d, p)) \subseteq Lint(d, p)
  BY DEF Lint, Semantic
<1>3. p.reads # None
  <2>1. When(p.reads = None, Error("STRUCT_MISSING_FILE")) \subseteq Lint(d, p)
    BY <1>2 DEF Structural
  <2> QED BY <1>1, <2>1, RuleApplies
<1>4. ~HasBoth(p)
  <2>1. When(HasBoth(p), Error("STRUCT_MULTIPLE_MANIFESTS")) \subseteq Lint(d, p)
    BY <1>2 DEF Structural
  <2>2. HasBoth(p) \in BOOLEAN
    BY DEF HasBoth
  <2> QED BY <1>1, <2>1, <2>2, RuleApplies
<1>5. SeesFrontmatter(p)
  <2> SUFFICES ASSUME ~SeesFrontmatter(p) PROVE FALSE
    OBVIOUS
  <2>1. When(p.reads # None, Error("SEMANTIC_SKILL_NO_FRONTMATTER")) \subseteq Lint(d, p)
    BY <1>2 DEF FrontmatterFindings
  <2> QED BY <1>1, <1>3, <2>1, RuleApplies
<1>6. ~p.extra /\ p.name # None /\ p.described
  <2>1. /\ When(p.extra, Error("SEMANTIC_EXTRA_FRONTMATTER")) \subseteq Lint(d, p)
        /\ When(p.name = None, Error("SEMANTIC_MISSING_NAME")) \subseteq Lint(d, p)
        /\ When(~p.described, Error("SEMANTIC_MISSING_DESC")) \subseteq Lint(d, p)
    BY <1>2, <1>5 DEF FrontmatterFindings
  <2>2. ~p.extra
    <3> SUFFICES ASSUME p.extra PROVE FALSE
      OBVIOUS
    <3>1. When(TRUE, Error("SEMANTIC_EXTRA_FRONTMATTER")) \subseteq Lint(d, p)
      BY <2>1 DEF When
    <3> QED BY <1>1, <3>1, RuleApplies
  <2>3. p.name # None
    BY <1>1, <2>1, RuleApplies
  <2>4. p.described
    <3> SUFFICES ASSUME ~p.described PROVE FALSE
      OBVIOUS
    <3>1. When(TRUE, Error("SEMANTIC_MISSING_DESC")) \subseteq Lint(d, p)
      BY <2>1 DEF When
    <3> QED BY <1>1, <3>1, RuleApplies
  <2> QED BY <2>2, <2>3, <2>4
<1>7. p.capability # None => Parsed(p.capability)
  <2>1. When(p.capability # None /\ ~Parsed(p.capability), Error("SEMANTIC_CAPABILITY_PARSE"))
          \subseteq Lint(d, p)
    BY <1>2 DEF ManifestFindings
  <2> QED BY <1>1, <2>1, RuleApplies
<1>8. p.contract # None => Parsed(p.contract)
  <2> DEFINE code == IF p.contract.state = "json" THEN "SEMANTIC_CONTRACT_JSON"
                                                  ELSE "SEMANTIC_CONTRACT_PARSE"
  <2>1. When(p.contract # None /\ ~Parsed(p.contract), Error(code)) \subseteq Lint(d, p)
    BY <1>2 DEF ManifestFindings
  <2> HIDE DEF code
  <2> QED BY <1>1, <2>1, RuleApplies
<1>9. ASSUME Parsed(p.contract) \/ Parsed(p.capability)
      PROVE  {d, SeenName(p)} \subseteq {None, 0, Manifest(p).id}
  <2>1. IdentityFindings(d, p) \subseteq Lint(d, p)
    BY <1>2, <1>9 DEF When
  <2>2. When({d, SeenName(p)} \ {None, 0, Manifest(p).id} # {}, Error("SEMANTIC_NAME_MISMATCH"))
          \subseteq Lint(d, p)
    BY <2>1 DEF IdentityFindings
  <2>3. ~({d, SeenName(p)} \ {None, 0, Manifest(p).id} # {})
    <3> HIDE <1>9
    <3> QED BY <1>1, <2>2, RuleApplies
  <2> QED BY <2>3
<1> QED BY <1>3, <1>4, <1>5, <1>6, <1>7, <1>8, <1>9

\* A package with a manifest that passes has one, that is parsed; its id is the name of
\* the directory and of the package, unless that is empty, which the loader rejects.
LEMMA PassedIdentity ==
  ASSUME tree \in Trees, NEW d \in DOMAIN tree, NEW p, p = tree[d], Passed(d, p),
         p.contract # None \/ p.capability # None
  PROVE  /\ Manifest(p).id = d /\ p.name \in {d, 0}
         /\ LoadsFrontmatter(p) => Loads(d, p) /\ p.name = d
<1>1. d \notin {None, 0}
  BY TreesAssumption
<1>2. /\ ~HasBoth(p) /\ SeesFrontmatter(p) /\ p.name # None
      /\ p.capability # None => Parsed(p.capability)
      /\ p.contract # None => Parsed(p.contract)
      /\ Parsed(p.contract) \/ Parsed(p.capability) =>
            {d, SeenName(p)} \subseteq {None, 0, Manifest(p).id}
  BY PassedRules
<1>3. Manifest(p).id = d /\ SeenName(p) = p.name /\ p.name \in {d, 0}
  BY <1>1, <1>2 DEF SeenName
<1>4. p.contract # None <=> p.capability = None
  BY <1>2 DEF HasBoth
<1>5. ASSUME LoadsFrontmatter(p) PROVE Loads(d, p) /\ p.name = d
  <2>1. p.name = d
    BY <1>3, <1>5 DEF LoadsFrontmatter, FollowsSchema
  <2>2. CASE p.contract # None
    <3>1. Manifest(p) = p.contract /\ Parsed(p.contract) /\ p.capability = None
      BY <1>2, <1>4, <2>2 DEF Manifest
    <3> QED BY <1>2, <1>3, <1>5, <2>1, <2>2, <3>1 DEF Loads, SameIdentity
  <2>3. CASE p.capability # None
    <3>1. Manifest(p) = p.capability /\ Parsed(p.capability) /\ p.contract = None
      BY <1>2, <1>4, <2>3 DEF Manifest, Parsed
    <3> QED BY <1>2, <1>3, <1>5, <2>1, <2>3, <3>1 DEF Loads, SameIdentity
  <2> QED BY <1>4, <2>1, <2>2, <2>3
<1> QED BY <1>3, <1>5

\* An entry of the registry is of a package that the loader can read; a package that
\* the loader takes is in the registry under its name.
LEMMA Resolving ==
  ASSUME NEW d, NEW p
  PROVE  /\ Resolve(d, p) # None => LoadsFrontmatter(p)
         /\ Loads(d, p) => Resolve(d, p) = [dir |-> d, manifest |-> LoadedManifest(p), id |-> p.name]
BY DEF Resolve, InvalidMetadata, Loads

\* A package that passes and is not in the registry has a frontmatter that the loader
\* does not find, an empty name or values that are not of the schema.
LEMMA OverlookedHow ==
  ASSUME tree \in Trees, NEW d \in DOMAIN tree, NEW p, p = tree[d],
         Passed(d, p), Resolve(d, p) = None
  PROVE  "loader" \notin p.reads \/ p.name = 0 \/ ~p.schema
<1>1. p.reads # None /\ ~p.extra /\ p.name # None /\ p.described
  BY PassedRules
<1>2. ~LoadsFrontmatter(p)
  BY EntryOfPackage
<1> QED BY <1>1, <1>2 DEF LoadsFrontmatter, FollowsSchema

\* Of a package with a manifest that passes the check, the id of the manifest is the
\* directory and the name, but for an empty name; and one that the registry shows as
\* valid is one the loader takes, with the same name in all three places
\* (validation.py 306, 397, 404, registry.py 80).
THEOREM PassedSkills == Spec => []PassedIsOneSkill
<1>1. IInv => PassedIsOneSkill
  <2> SUFFICES ASSUME IInv, NEW d \in DOMAIN tree, NEW p, p = tree[d],
                      p.contract # None \/ p.capability # None
               PROVE  /\ CheckExit(d) = 0 => Manifest(p).id = d /\ p.name \in {d, 0}
                      /\ Valid(d, p) => Loads(d, p) /\ Resolve(d, p).id = d /\ p.name = d
    BY DEF PassedIsOneSkill
  <2>1. tree \in Trees
    BY DEF IInv, Typed
  <2>2. ASSUME CheckExit(d) = 0 PROVE Manifest(p).id = d /\ p.name \in {d, 0}
    <3>1. Passed(d, p)
      BY <2>2 DEF CheckExit
    <3> QED BY <2>1, <3>1, PassedIdentity
  <2>3. ASSUME Valid(d, p) PROVE Loads(d, p) /\ Resolve(d, p).id = d /\ p.name = d
    <3>1. Resolve(d, p) # None /\ Passed(d, p)
      BY <2>3 DEF Valid
    <3>2. LoadsFrontmatter(p)
      BY <3>1, Resolving
    <3>3. Loads(d, p) /\ p.name = d
      BY <2>1, <3>1, <3>2, PassedIdentity
    <3> QED BY <3>3, Resolving
  <2> QED BY <2>2, <2>3
<1> QED BY SearchInvariant, <1>1, PTL

-----------------------------------------------------------------------------
(* The routing.                                                            *)

\* Where validate succeeds and no package is misnamed, every entry of the registry is
\* under the name of its directory, so that it has a node of its own.
LEMMA EntriesKeepTheirNames ==
  ASSUME tree \in Trees, BuildGraph, ValidateExit = 0, ~Misnamed
  PROVE  /\ Nodes = Entries
         /\ \A d \in Entries :
               /\ Resolve(d, tree[d]).id = d
               /\ node[d].edges = Targets(tree[d])
               /\ node[d].category = Category(tree[d], Resolve(d, tree[d]))
               /\ tree[d].contract # None => Parsed(tree[d].contract) /\ Loads(d, tree[d])
<1>1. \A d \in Entries : d \in DOMAIN tree /\ d \in Nat /\ Resolve(d, tree[d]) # None
  BY EntryIsNumbered DEF Entries, Discovered
<1>2. \A d \in Entries : Passed(d, tree[d])
  BY DEF ValidateExit, Entries
<1>3. ASSUME NEW d \in Entries
      PROVE  /\ Resolve(d, tree[d]).id = d
             /\ tree[d].contract # None => Parsed(tree[d].contract) /\ Loads(d, tree[d])
  <2> DEFINE p == tree[d]
  <2>1. LoadsFrontmatter(p)
    BY <1>1, Resolving
  <2>2. CASE p.contract # None \/ p.capability # None
    <3>1. Loads(d, p) /\ p.name = d
      BY <1>1, <1>2, <2>1, <2>2, PassedIdentity
    <3>2. Resolve(d, p).id = d
      BY <3>1, Resolving
    <3>3. p.contract # None => Parsed(p.contract)
      BY <1>2, PassedRules
    <3> QED BY <3>1, <3>2, <3>3
  <2>3. CASE p.contract = None /\ p.capability = None
    <3>1. p.name = d
      BY <1>1, <2>3 DEF Misnamed
    <3> HIDE DEF p
    <3>2. Resolve(d, p).id = p.name
      <4>1. CASE Loads(d, p)
        BY <4>1, Resolving
      <4>2. CASE ~Loads(d, p)
        BY <2>1, <2>3, <4>2 DEF Resolve, InvalidMetadata, InvalidManifest, Parsed
      <4> QED BY <4>1, <4>2
    <3> QED BY <2>3, <3>1, <3>2 DEF p
  <2> QED BY <2>2, <2>3
<1>4. {Resolve(d, tree[d]).id : d \in Entries} = Entries
  BY <1>3
<1>5. \A d \in Entries : Named(d) = {d} /\ Max(Named(d)) = d
  <2> SUFFICES ASSUME NEW d \in Entries PROVE Named(d) = {d} /\ Max(Named(d)) = d
    OBVIOUS
  <2>1. Named(d) = {d}
    BY <1>3 DEF Named
  <2>2. Max(Named(d)) \in Named(d)
    BY <1>4, NamedPositions
  <2> QED BY <2>1, <2>2
<1>6. Nodes = Entries
  BY <1>4 DEF BuildGraph, Nodes
<1>7. ASSUME NEW d \in Entries
      PROVE  /\ node[d].edges = Targets(tree[d])
             /\ node[d].category = Category(tree[d], Resolve(d, tree[d]))
  BY <1>4, <1>5 DEF BuildGraph
<1> QED BY <1>3, <1>6, <1>7

\* What the command graph demands of the graph.
LEMMA GraphRules ==
  ASSUME GraphExit = 0, Nodes # {}
  PROVE  /\ Routers # {} /\ ~(Cardinality(Routers) > 1)
         /\ \A id \in Nodes : ToSet(Edges(id)) \subseteq Nodes
         /\ Unique = {}
<1>1. \A f \in GraphFindings : f.severity # "error"
  BY DEF GraphExit
<1>2. ~(Routers = {})
  <2>1. When(Routers = {}, Error("GRAPH_NO_ROUTER")) \subseteq GraphFindings
    BY DEF GraphFindings
  <2> QED BY <1>1, <2>1, RuleApplies
<1>3. ~(Cardinality(Routers) > 1)
  <2>1. When(Cardinality(Routers) > 1, Error("GRAPH_MULTIPLE_ROUTERS")) \subseteq GraphFindings
    BY DEF GraphFindings
  <2> QED BY <1>1, <2>1, RuleApplies
<1>4. ~(\E id \in Nodes : ToSet(Edges(id)) \ Nodes # {})
  <2>1. When(\E id \in Nodes : ToSet(Edges(id)) \ Nodes # {}, Error("GRAPH_MISSING_EDGE"))
          \subseteq GraphFindings
    BY DEF GraphFindings
  <2> QED BY <1>1, <2>1, RuleApplies
<1>5. ~(Unique # {})
  <2>1. When(Unique # {}, Error("GRAPH_CYCLE")) \subseteq GraphFindings
    BY DEF GraphFindings
  <2> QED BY <1>1, <2>1, RuleApplies
<1> QED BY <1>2, <1>3, <1>4, <1>5

\* If validate and graph both succeed and no package is misnamed, every nextSkills of a
\* contract that the registry resolves names a package that it resolves, following them
\* ends, and there is one router among them; and a contract that is overlooked is in a
\* package whose frontmatter only the validator takes
\* (docs/superpowers/specs/2026-06-29-skill-sdk-design.md 123, 173 and 177).
THEOREM RoutingIsSound == Spec => []RoutingSound
<1>1. IInv => RoutingSound
  <2> DEFINE AfterAll(S) == UNION {NextIds(tree[d].contract) : d \in S}
             OnDisk == {d \in Contracts : tree[d].contract.category = "routing"}
  <2> SUFFICES ASSUME IInv, Done, ValidateExit = 0, GraphExit = 0, ~Misnamed
               PROVE  /\ AfterAll(Contracts) \subseteq Discovered \ Overlooked
                      /\ \A S \in SUBSET Contracts : S # {} => ~(S \subseteq AfterAll(S))
                      /\ Nodes # {} => Cardinality(OnDisk) = 1
                      /\ \A d \in Overlooked \cap Discovered :
                            "loader" \notin tree[d].reads \/ tree[d].name = 0 \/ ~tree[d].schema
    BY DEF RoutingSound
  <2>1. tree \in Trees /\ BuildGraph
    BY DEF IInv, Typed
  <2>2. /\ Nodes = Entries
        /\ \A d \in Entries :
              /\ node[d].edges = Targets(tree[d])
              /\ node[d].category = Category(tree[d], Resolve(d, tree[d]))
              /\ tree[d].contract # None => Parsed(tree[d].contract) /\ Loads(d, tree[d])
    BY <2>1, EntriesKeepTheirNames
  <2>3. Contracts \subseteq Nodes
    <3>1. \A d \in Contracts : tree[d].reads # None
      BY Resolving DEF Contracts, LoadsFrontmatter
    <3> QED BY <2>2, <3>1 DEF Contracts, Entries, Discovered
  <2>4. \A d \in Contracts : NextIds(tree[d].contract) = ToSet(Edges(d))
    <3> SUFFICES ASSUME NEW d \in Contracts PROVE NextIds(tree[d].contract) = ToSet(Edges(d))
      OBVIOUS
    <3>1. Edges(d) = tree[d].contract.next
      BY <2>2, <2>3 DEF Contracts, Edges, Targets
    <3> QED BY <3>1 DEF NextIds, ToSet
  <2>5. ASSUME NEW d \in Overlooked \cap Discovered
        PROVE  "loader" \notin tree[d].reads \/ tree[d].name = 0 \/ ~tree[d].schema
    <3>1. d \in DOMAIN tree /\ Passed(d, tree[d]) /\ Resolve(d, tree[d]) = None
      BY DEF ValidateExit, Overlooked
    <3> QED BY <2>1, <3>1, OverlookedHow
  <2>6. CASE Nodes = {}
    <3>1. Contracts = {}
      BY <2>3, <2>6
    <3> QED BY <2>5, <2>6, <3>1
  <2>7. CASE Nodes # {}
    <3>1. /\ Routers # {} /\ ~(Cardinality(Routers) > 1)
          /\ \A id \in Nodes : ToSet(Edges(id)) \subseteq Nodes
          /\ Unique = {}
      BY <2>7, GraphRules
    <3>2. AfterAll(Contracts) \subseteq Discovered \ Overlooked
      <4>1. Nodes \subseteq Discovered \ Overlooked
        BY <2>2 DEF Entries, Overlooked
      <4> QED BY <2>3, <2>4, <3>1, <4>1
    <3>3. ASSUME NEW S \in SUBSET Contracts, S # {}, S \subseteq AfterAll(S) PROVE FALSE
      <4>1. cycles = <<>>
        <5>1. DOMAIN cycles = 1..Len(cycles) /\ Len(cycles) \in Nat /\ cycles \in Seq(Seq(Nat))
          BY DEF IInv, Typed
        <5>2. \A i \in 1..Len(cycles) : FALSE
          BY <3>1, <5>1 DEF Unique
        <5>3. Len(cycles) = 0
          BY <5>1, <5>2
        <5> QED BY <5>1, <5>3, EmptySeq
      <4>2. LeadsBack(S)
        BY <2>4, <3>3 DEF LeadsBack
      <4> QED BY <2>3, <3>3, <4>1, <4>2, NoReportNoCycle
    <3>4. Routers = OnDisk
      <4>1. ASSUME NEW d \in Nodes, tree[d].contract # None
            PROVE  d \in Contracts /\ node[d].category = tree[d].contract.category
        <5>1. Resolve(d, tree[d]).manifest = "contract"
          <6> DEFINE p == tree[d]
          <6>1. Loads(d, p) /\ p.contract # None
            BY <2>2, <4>1
          <6> HIDE DEF p
          <6>2. p.capability = None
            BY <6>1 DEF Loads, HasBoth
          <6>3. LoadedManifest(p) = "contract"
            BY <6>1, <6>2 DEF LoadedManifest
          <6>4. Resolve(d, p).manifest = LoadedManifest(p)
            BY <6>1, Resolving
          <6> QED BY <6>3, <6>4 DEF p
        <5>2. d \in Contracts
          BY <2>2, <4>1 DEF Contracts, Entries, Discovered
        <5> QED BY <2>2, <5>1, <5>2 DEF Category
      <4>2. ASSUME NEW d \in Nodes, tree[d].contract = None
            PROVE  node[d].category # "routing"
        <5>1. Resolve(d, tree[d]).manifest \in {"capability", "external"}
          <6> DEFINE p == tree[d]
          <6>1. Resolve(d, p) # None /\ p.contract = None
            BY <2>2, <4>2 DEF Entries
          <6> HIDE DEF p
          <6>2. CASE Loads(d, p)
            <7>1. Resolve(d, p).manifest = LoadedManifest(p)
              BY <6>2, Resolving
            <7>2. LoadedManifest(p) \in {"capability", "external"}
              <8>1. CASE p.capability # None
                BY <6>1, <8>1 DEF LoadedManifest
              <8>2. CASE p.capability = None
                BY <6>1, <8>2 DEF LoadedManifest
              <8> QED BY <8>1, <8>2
            <7> QED BY <7>1, <7>2 DEF p
          <6>3. CASE ~Loads(d, p)
            <7>1. Resolve(d, p) = InvalidMetadata(d, p) /\ LoadsFrontmatter(p)
              BY <6>1, <6>3 DEF Resolve, InvalidMetadata
            <7>2. Resolve(d, p).manifest = InvalidManifest(p)
              BY <7>1 DEF InvalidMetadata
            <7>3. InvalidManifest(p) \in {"capability", "external"}
              <8>1. CASE Parsed(p.capability)
                BY <6>1, <8>1 DEF InvalidManifest, Parsed
              <8>2. CASE ~Parsed(p.capability)
                BY <6>1, <8>2 DEF InvalidManifest, Parsed
              <8> QED BY <8>1, <8>2
            <7> QED BY <7>2, <7>3 DEF p
          <6> QED BY <6>2, <6>3 DEF p
        <5> QED BY <2>2, <5>1 DEF Category
      <4> QED BY <2>3, <4>1, <4>2 DEF Routers, Contracts
    <3>5. Cardinality(Routers) = 1
      <4>1. IsFiniteSet(Routers)
        <5>1. IsFiniteSet(Nodes) /\ Routers \in SUBSET Nodes
          BY <2>1, GraphTyped DEF Routers
        <5> QED BY <5>1, FS_Subset
      <4>2. Cardinality(Routers) \in Nat /\ Cardinality(Routers) # 0
        BY <3>1, <4>1, FS_CardinalityType, FS_EmptySet
      <4> QED BY <3>1, <4>2
    <3> QED BY <2>5, <3>2, <3>3, <3>4, <3>5
  <2> QED BY <2>6, <2>7
<1> QED BY SearchInvariant, <1>1, PTL
=================================================================================
