------------------------- MODULE KnowledgeHealth_proofs -------------------------
(***************************************************************************)
(* Proofs about the health projection, for any files, texts, threads and   *)
(* requests: no decision about a signal is lost, a claim without evidence  *)
(* has its signal, and a claim that stays in the vault is found unless an  *)
(* older snapshot was written over it or its document was not read.        *)
(***************************************************************************)
EXTENDS KnowledgeHealth, SequenceTheorems, WellFoundedInduction, TLAPS

-----------------------------------------------------------------------------
(* The last of the entries of a document that declare a claim.             *)

\* Some positions of a sequence have a last one among them.
LEMMA LastPosition ==
  ASSUME NEW n \in Nat, NEW I \in SUBSET (1..n), I # {}
  PROVE  Max(I) \in I
<1> DEFINE T == {n - i : i \in I}
           R == {p \in Nat \X Nat : p[1] < p[2]}
<1>0. \A i \in I : i \in Nat /\ i <= n
  OBVIOUS
<1>1. T \subseteq Nat /\ T # {}
  <2>1. \A i \in I : n - i \in Nat
    BY <1>0
  <2> QED BY <2>1
<1>2. IsWellFoundedOn(R, Nat)
  <2>1. R = OpToRel(<, Nat)
    BY DEF OpToRel
  <2> QED BY <2>1, NatLessThanWellFounded
<1>3. \E x \in T : \A y \in T : ~(<<y, x>> \in R)
  <2> HIDE DEF T, R
  <2> QED BY <1>1, <1>2, WFMin
<1>4. PICK x \in T : \A y \in T : ~(y < x)
  BY <1>1, <1>3
<1>5. PICK i \in I : x = n - i
  BY <1>4
<1>6. ASSUME NEW j \in I PROVE i >= j
  <2>1. n - j \in T
    OBVIOUS
  <2>2. ~(n - j < n - i)
    BY <1>4, <1>5, <2>1
  <2> QED BY <1>0, <2>2
<1> QED BY <1>6 DEF Max

\* What a document says about a claim is what its last entry says.
LEMMA StoredEntry ==
  ASSUME NEW doc, doc.claims \in Seq(ToSet(doc.claims)), NEW S, NEW c \in DOMAIN Stored(doc, S)
  PROVE  \E claim \in ToSet(doc.claims) :
            claim.id = c /\ Stored(doc, S)[c] = Evidence(doc, claim, S)
<1> DEFINE I == {i \in 1..Len(doc.claims) : doc.claims[i].id = c}
           k == SelectLastInSeq(doc.claims, LAMBDA e : e.id = c)
<1>1. c \in {claim.id : claim \in ToSet(doc.claims)}
  BY DEF Stored
<1>2. ToSet(doc.claims) = {doc.claims[i] : i \in 1..Len(doc.claims)}
  BY DEF ToSet
<1>3. I # {} /\ Len(doc.claims) \in Nat
  <2>1. PICK claim \in ToSet(doc.claims) : c = claim.id
    BY <1>1
  <2>2. PICK i \in 1..Len(doc.claims) : claim = doc.claims[i]
    BY <1>2
  <2>3. i \in I
    BY <2>1, <2>2
  <2> QED BY <2>3
<1>4. k = Max(I)
  BY <1>3 DEF SelectLastInSeq
<1>5. k \in I
  BY <1>3, <1>4, LastPosition
<1>6. Stored(doc, S)[c] = Evidence(doc, doc.claims[k], S)
  BY <1>1 DEF Stored
<1> QED BY <1>2, <1>5, <1>6

LEMMA StoredDomain ==
  ASSUME NEW doc, NEW S
  PROVE  DOMAIN Stored(doc, S) = {claim.id : claim \in ToSet(doc.claims)}
  BY DEF Stored

-----------------------------------------------------------------------------
(* Types, and what a request holds.                                        *)

Documents(f) == Texts(f) \cup {Blank}

WorldType ==
    /\ DOMAIN vault = Files
    /\ \A f \in Files : vault[f] # None => vault[f] \in Texts(f)
    /\ index = None \/ index \in SUBSET Files

ThreadType ==
    /\ pc \in [Threads -> {"idle", "ensure", "reconcile", "locked", "select"}]
    /\ DOMAIN calls = Threads /\ DOMAIN arg = Threads
    /\ snap \in [Threads -> SUBSET Files]
    /\ there \in [Threads -> BOOLEAN] /\ late \in [Threads -> BOOLEAN]
    /\ elders \in [Threads -> SUBSET Threads]
    /\ unread \in [Threads -> SUBSET Topics] /\ missed \in [Threads -> BOOLEAN]

\* Documents are read under the lock, from the topics of the snapshot.
DocsFit ==
    /\ DOMAIN docs = Threads
    /\ \A t \in Threads :
         /\ DOMAIN docs[t] \subseteq snap[t] \cap Topics
         /\ pc[t] # "locked" => DOMAIN docs[t] = {}
         /\ \A f \in DOMAIN docs[t] : docs[t][f] \in Documents(f)

Types == WorldType /\ ThreadType /\ DocsFit

\* A document is a sequence of claims, and so is that of a file that is gone.
LEMMA DocumentClaims ==
  ASSUME NEW f \in Files, NEW d \in Documents(f)
  PROVE  d.claims \in Seq(ToSet(d.claims))
<1>1. CASE d = Blank
  BY <1>1 DEF Blank
<1> QED BY <1>1, KnowledgeHealthAssumption DEF Documents, Files

LEMMA TextIsDocument ==
  ASSUME WorldType, NEW f \in Files
  PROVE  Text(f) \in Documents(f)
  BY DEF WorldType, Text, Documents

\* The states a run starts in fit.
LEMMA InitTypes == Init => Types
<1> SUFFICES ASSUME Init PROVE Types
  OBVIOUS
<1>1. WorldType
  BY DEF Init, WorldType
<1>2. ThreadType
  BY DEF Init, ThreadType
<1>3. DocsFit
  <2>1. DOMAIN <<>> = {}
    OBVIOUS
  <2> QED BY <2>1 DEF Init, DocsFit
<1> QED BY <1>1, <1>2, <1>3 DEF Types

\* What the actions of a thread are.
Asking(t) == \E cs, a : Begin(t, cs, a)
Answering(t) == Select(t) \/ Act(t)

LEMMA Requests ==
  ASSUME NEW t \in Threads, GetClaim(t) \/ ListSignals(t) \/ GetSignal(t) \/ Decide(t)
  PROVE  Asking(t)
  BY DEF GetClaim, ListSignals, GetSignal, Decide, Asking

LEMMA Answers ==
  ASSUME Types, NEW t \in Threads, Answering(t)
  PROVE  /\ pc[t] = "select"
         /\ \E l \in {"ensure", "idle"} : pc' = [pc EXCEPT ![t] = l]
         /\ DOMAIN calls' = Threads /\ \A u \in Threads \ {t} : calls'[u] = calls[u]
         /\ UNCHANGED <<world, claims, arg, snap, docs, ghosts>>
<1>1. \E b : Answered(t, b)
  BY DEF Answering, Select, Act
<1>2. /\ \E l \in {"ensure", "idle"} : pc' = [pc EXCEPT ![t] = l]
      /\ DOMAIN calls' = Threads /\ \A u \in Threads \ {t} : calls'[u] = calls[u]
  BY <1>1 DEF Types, ThreadType, Answered
<1>3. pc[t] = "select" /\ UNCHANGED <<world, claims, arg, snap, docs, ghosts>>
  BY DEF Answering, Select, Act, tables
<1> QED BY <1>2, <1>3

\* A document is read as it is, or as an empty one that is noted as unread.
LEMMA ReadsIt ==
  ASSUME Types, NEW t \in Threads, NEW f \in Topics, ReadDocument(t, f)
  PROVE  \E d \in {Text(f), Blank}, m \in SUBSET {f} :
            /\ m = {} => d = Text(f)
            /\ docs' = [docs EXCEPT ![t] =
                          [g \in DOMAIN docs[t] \cup {f} |-> IF g # f THEN docs[t][g] ELSE d]]
            /\ unread' = [unread EXCEPT ![t] = unread[t] \cup m]
<1>1. PICK read \in BOOLEAN :
         /\ docs' = [docs EXCEPT ![t] =
                       [g \in DOMAIN docs[t] \cup {f} |->
                          IF g # f THEN docs[t][g] ELSE IF read THEN Text(f) ELSE Blank]]
         /\ unread' = [unread EXCEPT ![t] = IF read THEN unread[t] ELSE unread[t] \cup {f}]
  BY DEF ReadDocument
<1>2. CASE read
  <2>1. unread' = [unread EXCEPT ![t] = unread[t] \cup {}]
    BY <1>1, <1>2
  <2> QED BY <1>1, <1>2, <2>1
<1>3. CASE ~read
  BY <1>1, <1>3
<1> QED BY <1>2, <1>3

LEMMA StepTypes == Types /\ [Next]_vars => Types'
<1> SUFFICES ASSUME Types, [Next]_vars PROVE Types'
  OBVIOUS
<1> USE DEF Types
<1>1. ASSUME NEW f \in Files, Edit(f) PROVE Types'
  <2>1. WorldType'
    BY <1>1 DEF Edit, WorldType
  <2>2. ThreadType'
    BY <1>1 DEF Edit, StillThere, ThreadType, thread
  <2> QED BY <1>1, <2>1, <2>2 DEF Edit, DocsFit, thread
<1>2. CASE Refresh
  <2>1. WorldType'
    BY <1>2 DEF Refresh, Scans, WorldType
  <2>2. ThreadType'
    BY <1>2 DEF Refresh, StillThere, ThreadType, thread
  <2> QED BY <1>2, <2>1, <2>2 DEF Refresh, DocsFit, thread
<1>3. ASSUME NEW t \in Threads, Asking(t) PROVE Types'
  <2>1. PICK cs, a : Begin(t, cs, a)
    BY <1>3 DEF Asking
  <2>2. WorldType'
    BY <2>1 DEF Begin, WorldType, world
  <2>3. ThreadType'
    BY <2>1 DEF Begin, ThreadType
  <2>4. DocsFit'
    BY <2>1 DEF Begin, DocsFit, ThreadType
  <2> QED BY <2>2, <2>3, <2>4
<1>4. ASSUME NEW t \in Threads, TakeSnapshot(t) PROVE Types'
  <2>1. WorldType' /\ index' \in SUBSET Files
    BY <1>4 DEF TakeSnapshot, Scans, WorldType
  <2>2. ThreadType'
    BY <1>4, <2>1 DEF TakeSnapshot, StillThere, ThreadType
  <2>3. DocsFit'
    BY <1>4 DEF TakeSnapshot, DocsFit, ThreadType
  <2> QED BY <2>1, <2>2, <2>3
<1>5. ASSUME NEW t \in Threads, Lock(t) PROVE Types'
  <2>1. WorldType' /\ ThreadType'
    BY <1>5 DEF Lock, WorldType, ThreadType, world, ghosts
  <2>2. DocsFit'
    BY <1>5 DEF Lock, DocsFit, ThreadType
  <2> QED BY <2>1, <2>2
<1>6. ASSUME NEW t \in Threads, NEW f \in Topics, ReadDocument(t, f) PROVE Types'
  <2>1. /\ pc[t] = "locked" /\ f \in snap[t] \cap Topics
        /\ UNCHANGED <<world, pc, calls, arg, snap, there, elders, late, missed>>
    BY <1>6 DEF ReadDocument
  <2>2. PICK d \in {Text(f), Blank}, m \in SUBSET {f} :
           /\ m = {} => d = Text(f)
           /\ docs' = [docs EXCEPT ![t] =
                         [g \in DOMAIN docs[t] \cup {f} |-> IF g # f THEN docs[t][g] ELSE d]]
           /\ unread' = [unread EXCEPT ![t] = unread[t] \cup m]
    BY <1>6, ReadsIt
  <2>3. d \in Documents(f)
    BY TextIsDocument DEF Files, Documents
  <2>4. WorldType'
    BY <2>1 DEF WorldType, world
  <2>5. ThreadType'
    BY <2>1, <2>2 DEF ThreadType
  <2>6. DocsFit'
    BY <2>1, <2>2, <2>3 DEF DocsFit
  <2> QED BY <2>4, <2>5, <2>6
<1>7. ASSUME NEW t \in Threads, Commit(t) \/ Rollback(t) PROVE Types'
  <2>1. WorldType'
    BY <1>7 DEF Commit, Rollback, WorldType, world
  <2>2. /\ docs' = [docs EXCEPT ![t] = <<>>] /\ snap' = [snap EXCEPT ![t] = {}]
        /\ \E l \in {"select", "idle"} : pc' = [pc EXCEPT ![t] = l]
        /\ elders' = [u \in Threads |-> elders[u] \ {t}]
        /\ UNCHANGED <<calls, arg, there>>
    BY <1>7 DEF Commit, Rollback, Unlock
  <2>3. late' \in [Threads -> BOOLEAN] /\ unread' = [unread EXCEPT ![t] = {}]
    <3>1. CASE Rollback(t)
      BY <3>1 DEF Rollback, ThreadType
    <3>2. CASE Commit(t)
      <4>1. /\ late' = [u \in Threads |-> late[u] \/ (pc[u] = "select" /\ t \in elders[u])]
            /\ unread' = [unread EXCEPT ![t] = {}]
        BY <3>2 DEF Commit
      <4> QED BY <4>1 DEF ThreadType
    <3> QED BY <1>7, <3>1, <3>2
  <2>4. missed' \in [Threads -> BOOLEAN]
    <3>1. CASE Rollback(t)
      BY <3>1 DEF Rollback, ThreadType
    <3>2. CASE Commit(t)
      <4> DEFINE M(u) == /\ there[u] /\ pc'[u] = "select"
                         /\ \E f \in unread[t] : arg[u][1] \in ClaimsIn(f)
      <4>1. missed' = [u \in Threads |-> M(u)]
        BY <3>2 DEF Commit
      <4>2. \A u \in Threads : M(u) \in BOOLEAN
        OBVIOUS
      <4> HIDE DEF M
      <4> QED BY <4>1, <4>2
    <3> QED BY <1>7, <3>1, <3>2
  <2>5. ThreadType'
    BY <2>2, <2>3, <2>4 DEF ThreadType
  <2>6. DOMAIN <<>> = {}
    OBVIOUS
  <2>7. DocsFit'
    BY <2>2, <2>6 DEF DocsFit, ThreadType
  <2> QED BY <2>1, <2>5, <2>7
<1>8. ASSUME NEW t \in Threads, Answering(t) PROVE Types'
  <2>1. PICK l \in {"ensure", "idle"} : pc' = [pc EXCEPT ![t] = l]
    BY <1>8, Answers
  <2>2. DOMAIN calls' = Threads
    BY <1>8, Answers
  <2>3. pc[t] = "select" /\ UNCHANGED <<vault, index, arg, snap, docs, ghosts>>
    BY <1>8, Answers DEF world
  <2>4. WorldType' /\ ThreadType'
    BY <2>1, <2>2, <2>3 DEF WorldType, ThreadType, ghosts
  <2>5. DocsFit'
    BY <2>1, <2>3 DEF DocsFit, ThreadType
  <2> QED BY <2>4, <2>5
<1>9. CASE UNCHANGED vars \/ \E r \in Reviews : CreateReview(r) \/ DecideReview(r)
  <2>1. UNCHANGED <<world, thread, ghosts>>
    BY <1>9 DEF vars, CreateReview, DecideReview
  <2> QED BY <2>1 DEF world, thread, ghosts, WorldType, ThreadType, DocsFit
<1> QED BY <1>1, <1>2, <1>3, <1>4, <1>5, <1>6, <1>7, <1>8, <1>9, Requests DEF Next, Answering

THEOREM TypeCorrect == Spec => []Types
<1>1. Init => Types
  BY InitTypes
<1>2. Types /\ [Next]_vars => Types'
  BY StepTypes
<1> QED BY <1>1, <1>2, PTL DEF Spec

-----------------------------------------------------------------------------
(* What a reconciliation stores.                                           *)

\* The signals of the documents of t.
RaisedBy(t) == UNION {Signals(docs[t][f], snap[t]) : f \in DOMAIN docs[t]}

\* The claims in the documents are stored as one of the documents has them, those
\* that are not there stay as they were, or go.
LEMMA Stores ==
  ASSUME NEW t \in Threads, Commit(t)
  PROVE  /\ DOMAIN docs[t] = snap[t] \cap Topics
         /\ Seen(Found(t)) \subseteq DOMAIN claims'
         /\ \A c \in Seen(Found(t)) : \E f \in DOMAIN docs[t] :
               /\ c \in DOMAIN Stored(docs[t][f], snap[t])
               /\ claims'[c] = Stored(docs[t][f], snap[t])[c]
         /\ \A c \in DOMAIN claims' \ Seen(Found(t)) :
               c \in DOMAIN claims /\ claims'[c] = claims[c]
         /\ signals' = Extended(signals, RaisedBy(t), [status |-> "open", version |-> 1])
         /\ decisions' = Extended(decisions, RaisedBy(t), <<>>)
<1> DEFINE found == Found(t)
           seen == Seen(found)
           kept == IF seen = {} THEN DOMAIN claims ELSE seen
           F(c) == CHOOSE f \in DOMAIN found : c \in DOMAIN found[f]
<1>1. /\ DOMAIN docs[t] = snap[t] \cap Topics
      /\ claims' = [c \in kept |-> IF c \in seen THEN found[F(c)][c] ELSE claims[c]]
      /\ signals' = Extended(signals, RaisedBy(t), [status |-> "open", version |-> 1])
      /\ decisions' = Extended(decisions, RaisedBy(t), <<>>)
  BY DEF Commit, RaisedBy
<1>2. /\ DOMAIN found = DOMAIN docs[t]
      /\ \A f \in DOMAIN docs[t] : found[f] = Stored(docs[t][f], snap[t])
  BY DEF Found
<1>3. ASSUME NEW c \in seen
      PROVE  /\ F(c) \in DOMAIN docs[t]
             /\ c \in DOMAIN found[F(c)]
  <2>1. \E f \in DOMAIN found : c \in DOMAIN found[f]
    BY <1>3 DEF Seen
  <2> QED BY <1>2, <2>1
<1>4. \A c \in seen : c \in DOMAIN claims' /\ claims'[c] = found[F(c)][c]
  BY <1>1
<1>5. \A c \in DOMAIN claims' \ seen : c \in DOMAIN claims /\ claims'[c] = claims[c]
  BY <1>1
<1> QED BY <1>1, <1>2, <1>3, <1>4, <1>5

\* What the other steps leave to the tables.
LEMMA TablesKept ==
  ASSUME Types, [Next]_vars
  PROVE  \/ UNCHANGED <<claims, signals, decisions>>
         \/ \E t \in Threads : Commit(t)
         \/ \E t \in Threads : Act(t) /\ UNCHANGED claims
<1>1. ASSUME NEW t \in Threads, Asking(t) \/ Rollback(t) \/ Select(t) \/ Lock(t)
                  \/ TakeSnapshot(t) \/ \E f \in Topics : ReadDocument(t, f)
      PROVE  UNCHANGED <<claims, signals, decisions>>
  BY <1>1 DEF Asking, Begin, Rollback, Select, Lock, TakeSnapshot, ReadDocument, tables
<1>2. CASE \/ \E f \in Files : Edit(f)
           \/ Refresh
           \/ \E r \in Reviews : CreateReview(r) \/ DecideReview(r)
           \/ UNCHANGED vars
  BY <1>2 DEF Edit, Refresh, CreateReview, DecideReview, vars, tables
<1>3. ASSUME NEW t \in Threads, Act(t) PROVE UNCHANGED claims
  BY <1>3 DEF Act
<1> QED BY <1>1, <1>2, <1>3, Requests DEF Next

-----------------------------------------------------------------------------
(* Claims without evidence.                                                *)

LEMMA StepGaps == Types /\ EveryGapSignalled /\ [Next]_vars => EveryGapSignalled'
<1> SUFFICES ASSUME Types, EveryGapSignalled, [Next]_vars PROVE EveryGapSignalled'
  OBVIOUS
<1>1. CASE UNCHANGED <<claims, signals, decisions>>
  BY <1>1 DEF EveryGapSignalled
<1>2. ASSUME NEW t \in Threads, Act(t), UNCHANGED claims PROVE EveryGapSignalled'
  <2>1. DOMAIN signals' = DOMAIN signals
    BY <1>2 DEF Act
  <2> QED BY <1>2, <2>1 DEF EveryGapSignalled
<1>3. ASSUME NEW t \in Threads, Commit(t) PROVE EveryGapSignalled'
  <2> SUFFICES ASSUME NEW c \in DOMAIN claims', claims'[c] = {}
               PROVE  <<c, "unsupported">> \in DOMAIN signals'
    BY DEF EveryGapSignalled
  <2>1. DOMAIN signals' = DOMAIN signals \cup RaisedBy(t)
    BY <1>3, Stores DEF Extended
  <2>2. CASE c \notin Seen(Found(t))
    <3>1. c \in DOMAIN claims /\ claims[c] = {}
      BY <1>3, <2>2, Stores
    <3> QED BY <2>1, <3>1 DEF EveryGapSignalled
  <2>3. CASE c \in Seen(Found(t))
    <3>1. PICK f \in DOMAIN docs[t] : /\ c \in DOMAIN Stored(docs[t][f], snap[t])
                                      /\ claims'[c] = Stored(docs[t][f], snap[t])[c]
      BY <1>3, <2>3, Stores
    <3>2. docs[t][f] \in Documents(f) /\ f \in Files
      BY <3>1 DEF Types, DocsFit, Files
    <3>3. PICK claim \in ToSet(docs[t][f].claims) :
             claim.id = c /\ Evidence(docs[t][f], claim, snap[t]) = {}
      BY <3>1, <3>2, DocumentClaims, StoredEntry
    <3>4. <<c, "unsupported">> \in Signals(docs[t][f], snap[t])
      BY <3>3 DEF Signals
    <3> QED BY <2>1, <3>1, <3>4 DEF RaisedBy
  <2> QED BY <2>2, <2>3
<1> QED BY <1>1, <1>2, <1>3, TablesKept

\* A claim stored without evidence has its signal, whatever became of the evidence it
\* had (knowledge_health.py, 144-173, 251).
THEOREM GapsAreSignalled == Spec => []EveryGapSignalled
<1>1. Init => EveryGapSignalled
  BY DEF Init, EveryGapSignalled
<1>2. Types /\ EveryGapSignalled /\ [Next]_vars => EveryGapSignalled'
  BY StepGaps
<1> QED BY <1>1, <1>2, TypeCorrect, PTL DEF Spec

-----------------------------------------------------------------------------
(* Decisions.                                                              *)

DecisionsFit ==
    /\ DOMAIN decisions = DOMAIN signals
    /\ \A s \in DOMAIN signals : \E S : decisions[s] \in Seq(S)

LEMMA StepDecisions ==
  Types /\ DecisionsFit /\ NoDecisionLost /\ [Next]_vars => DecisionsFit' /\ NoDecisionLost'
<1> SUFFICES ASSUME Types, DecisionsFit, NoDecisionLost, [Next]_vars
             PROVE  DecisionsFit' /\ NoDecisionLost'
  OBVIOUS
<1>1. CASE UNCHANGED <<claims, signals, decisions>>
  BY <1>1 DEF DecisionsFit, NoDecisionLost
<1>2. ASSUME NEW t \in Threads, Commit(t) PROVE DecisionsFit' /\ NoDecisionLost'
  <2>1. /\ signals' = Extended(signals, RaisedBy(t), [status |-> "open", version |-> 1])
        /\ decisions' = Extended(decisions, RaisedBy(t), <<>>)
    BY <1>2, Stores
  <2>2. /\ DOMAIN signals' = DOMAIN signals \cup RaisedBy(t)
        /\ DOMAIN decisions' = DOMAIN signals \cup RaisedBy(t)
        /\ \A s \in DOMAIN signals : signals'[s] = signals[s] /\ decisions'[s] = decisions[s]
        /\ \A s \in RaisedBy(t) \ DOMAIN signals :
              signals'[s] = [status |-> "open", version |-> 1] /\ decisions'[s] = <<>>
    BY <2>1 DEF Extended, DecisionsFit
  <2>3. <<>> \in Seq({}) /\ Len(<<>>) = 0
    OBVIOUS
  <2>4. DecisionsFit'
    BY <2>2, <2>3 DEF DecisionsFit
  <2>5. NoDecisionLost'
    BY <2>2, <2>3 DEF NoDecisionLost
  <2> QED BY <2>4, <2>5
<1>3. ASSUME NEW t \in Threads, Act(t), ~UNCHANGED <<signals, decisions>>
      PROVE  DecisionsFit' /\ NoDecisionLost'
  <2> DEFINE s == SubSeq(arg[t], 1, 2)
             d == Decision(arg[t])
  <2>1. /\ signals[s].version = d.version
        /\ signals' = [signals EXCEPT ![s] =
                         [status |-> d.status, version |-> signals[s].version + 1]]
        /\ decisions' = [decisions EXCEPT ![s] = Append(decisions[s], d)]
    BY <1>3 DEF Act
  <2> HIDE DEF s, d
  <2>2. /\ DOMAIN signals' = DOMAIN signals /\ DOMAIN decisions' = DOMAIN signals
        /\ \A r \in DOMAIN signals \ {s} : signals'[r] = signals[r] /\ decisions'[r] = decisions[r]
    BY <2>1 DEF DecisionsFit
  <2>3. CASE s \notin DOMAIN signals
    BY <2>2, <2>3 DEF DecisionsFit, NoDecisionLost
  <2>4. CASE s \in DOMAIN signals
    <3>1. PICK S : decisions[s] \in Seq(S)
      BY <2>4 DEF DecisionsFit
    <3>2. decisions[s] \in Seq(S \cup {d})
      BY <3>1
    <3> DEFINE mine == decisions[s]
               more == Append(mine, d)
    <3>3. /\ more \in Seq(S \cup {d}) /\ Len(more) = Len(mine) + 1 /\ Len(mine) \in Nat
          /\ \A i \in 1..Len(mine) : more[i] = mine[i]
          /\ more[Len(mine) + 1] = d
      BY <3>2
    <3>4. signals'[s] = [status |-> d.status, version |-> signals[s].version + 1]
      BY <2>1, <2>4
    <3>5. decisions'[s] = more
      BY <2>1, <2>4 DEF DecisionsFit
    <3>6. signals[s].version = Len(mine) + 1 /\ \A i \in 1..Len(mine) : mine[i].version = i
      BY <2>4 DEF NoDecisionLost
    <3> HIDE DEF mine, more
    <3>7. signals'[s].version = Len(more) + 1 /\ signals'[s].status = more[Len(more)].status
      BY <3>3, <3>4, <3>6
    <3>8. \A i \in 1..Len(more) : more[i].version = i
      <4> SUFFICES ASSUME NEW i \in 1..Len(more) PROVE more[i].version = i
        OBVIOUS
      <4>1. i = Len(mine) + 1 \/ i \in 1..Len(mine)
        BY <3>3
      <4>2. CASE i = Len(mine) + 1
        <5>1. more[i] = d /\ d.version = Len(mine) + 1
          BY <2>1, <3>3, <3>6, <4>2
        <5> QED BY <4>2, <5>1
      <4>3. CASE i \in 1..Len(mine)
        BY <3>3, <3>6, <4>3
      <4> QED BY <4>1, <4>2, <4>3
    <3>9. more # <<>>
      BY <3>3
    <3>10. DecisionsFit'
      BY <2>2, <3>3, <3>5 DEF DecisionsFit
    <3>11. NoDecisionLost'
      BY <2>2, <3>5, <3>7, <3>8, <3>9 DEF NoDecisionLost
    <3> QED BY <3>10, <3>11
  <2> QED BY <2>3, <2>4
<1> QED BY <1>1, <1>2, <1>3, TablesKept

\* The decisions stored about a signal were taken on its versions 1, 2, ... without a
\* gap, and its status is the last one's: none is lost to another decision or to a
\* reconciliation (knowledge_health.py, 337-345, 157-172).
THEOREM DecisionsAreKept == Spec => []NoDecisionLost
<1>1. Init => DecisionsFit /\ NoDecisionLost
  <2> SUFFICES ASSUME Init PROVE DOMAIN decisions = {} /\ DOMAIN signals = {}
    BY DEF DecisionsFit, NoDecisionLost
  <2> QED BY DEF Init
<1>2. Types /\ DecisionsFit /\ NoDecisionLost /\ [Next]_vars => DecisionsFit' /\ NoDecisionLost'
  BY StepDecisions
<1> QED BY <1>1, <1>2, TypeCorrect, PTL DEF Spec

-----------------------------------------------------------------------------
(* Claims that stay in the vault.                                          *)

Asked(t) == arg[t][1]
Holds(u) == pc[u] \in {"reconcile", "locked"}

ThereIsPresent == \A t \in Threads : there[t] => Asked(t) \in Present
OthersAreElders == \A t \in Threads : t \notin elders[t]

\* A snapshot that was taken since the request began has the file of the claim, and
\* the document, if it was read since then and not taken for empty, has the claim.
YoungerHaveIt ==
    \A t, u \in Threads : there[t] /\ Holds(u) /\ u \notin elders[t] =>
        \A f \in Topics : Asked(t) \in ClaimsIn(f) =>
            /\ f \in snap[u]
            /\ f \in DOMAIN docs[u] \ unread[u] => Asked(t) \in DOMAIN Stored(docs[u][f], {})

\* A claim is in the documents of one topic only.
LEMMA OneTopic ==
  ASSUME NEW f \in Topics, NEW d \in Documents(f), NEW g \in Topics, NEW e \in Documents(g),
         NEW c \in DOMAIN Stored(d, {}), c \in DOMAIN Stored(e, {})
  PROVE  f = g
<1>1. \A S : DOMAIN Stored(Blank, S) = {}
  <2>1. ToSet(Blank.claims) = {}
    BY DEF Blank, ToSet
  <2> QED BY <2>1, StoredDomain
<1>2. d \in Texts(f) /\ e \in Texts(g)
  BY <1>1 DEF Documents
<1>3. PICK x \in ToSet(d.claims) : c = x.id
  <2>1. c \in {claim.id : claim \in ToSet(d.claims)}
    BY StoredDomain
  <2> QED BY <2>1
<1>4. PICK y \in ToSet(e.claims) : c = y.id
  <2>1. c \in {claim.id : claim \in ToSet(e.claims)}
    BY StoredDomain
  <2> QED BY <2>1
<1> QED BY <1>2, <1>3, <1>4, KnowledgeHealthAssumption

LEMMA SomeTopicHasIt ==
  ASSUME NEW c \in Present
  PROVE  \E f \in Topics : c \in ClaimsIn(f) /\ (index # None => f \in index)
  BY DEF Present

\* As long as the files are the same, so are the claims in them.
LEMMA SameClaims ==
  ASSUME UNCHANGED vault
  PROVE  \A f : ClaimsIn(f)' = ClaimsIn(f) /\ Text(f)' = Text(f)
  BY DEF ClaimsIn, Text

\* The steps, as they concern the claim of a request.
LEMMA Steps ==
  ASSUME Types, [Next]_vars
  PROVE  \/ \E f \in Files : Edit(f)
         \/ Refresh
         \/ \E t \in Threads :
              \/ Asking(t) \/ TakeSnapshot(t) \/ Lock(t) \/ Commit(t) \/ Rollback(t)
              \/ Answering(t)
              \/ \E f \in Topics : ReadDocument(t, f)
         \/ UNCHANGED <<world, claims, thread, ghosts>>
<1>1. ASSUME UNCHANGED vars \/ \E r \in Reviews : CreateReview(r) \/ DecideReview(r)
      PROVE  UNCHANGED <<world, claims, thread, ghosts>>
  BY <1>1 DEF vars, tables, CreateReview, DecideReview
<1> QED BY <1>1, Requests DEF Next, Answering

\* The claim that was there is.
LEMMA StepThere == Types /\ ThereIsPresent /\ [Next]_vars => ThereIsPresent'
<1> SUFFICES ASSUME Types, ThereIsPresent, [Next]_vars PROVE ThereIsPresent'
  OBVIOUS
<1>1. ASSUME \/ \E f \in Files : Edit(f)
             \/ Refresh
             \/ \E t \in Threads : TakeSnapshot(t)
      PROVE  ThereIsPresent'
  <2>1. StillThere /\ UNCHANGED arg
    BY <1>1 DEF Edit, Refresh, TakeSnapshot, thread
  <2> QED BY <2>1 DEF StillThere, ThereIsPresent, Asked
<1>2. ASSUME UNCHANGED <<world, there, arg>> PROVE ThereIsPresent'
  <2>1. Present' = Present
    BY <1>2 DEF world, Present, ClaimsIn, Text
  <2> QED BY <1>2, <2>1 DEF ThereIsPresent, Asked
<1>3. ASSUME NEW t \in Threads, Asking(t) PROVE ThereIsPresent'
  <2>1. PICK cs, a : Begin(t, cs, a)
    BY <1>3 DEF Asking
  <2>2. /\ arg' = [arg EXCEPT ![t] = a]
        /\ there' = [there EXCEPT ![t] = Head(cs) = "claim" /\ a[1] \in Present]
        /\ UNCHANGED world
    BY <2>1 DEF Begin
  <2>3. Present' = Present
    BY <2>2 DEF world, Present, ClaimsIn, Text
  <2> SUFFICES ASSUME NEW u \in Threads, there'[u] PROVE arg'[u][1] \in Present
    BY <2>3 DEF ThereIsPresent, Asked
  <2>4. CASE u = t
    BY <2>2, <2>4 DEF Types, ThreadType
  <2>5. CASE u # t
    BY <2>2, <2>5 DEF Types, ThreadType, ThereIsPresent, Asked
  <2> QED BY <2>4, <2>5
<1>4. ASSUME NEW t \in Threads,
             Lock(t) \/ Commit(t) \/ Rollback(t) \/ \E f \in Topics : ReadDocument(t, f)
      PROVE  UNCHANGED <<world, there, arg>>
  BY <1>4 DEF Lock, Commit, Rollback, ReadDocument, ghosts
<1>5. ASSUME NEW t \in Threads, Answering(t) PROVE UNCHANGED <<world, there, arg>>
  BY <1>5, Answers DEF ghosts
<1>6. ASSUME UNCHANGED <<world, claims, thread, ghosts>> PROVE UNCHANGED <<world, there, arg>>
  BY <1>6 DEF thread, ghosts
<1> QED BY <1>1, <1>2, <1>3, <1>4, <1>5, <1>6, Steps

LEMMA StepElders == Types /\ OthersAreElders /\ [Next]_vars => OthersAreElders'
<1> SUFFICES ASSUME Types, OthersAreElders, [Next]_vars PROVE OthersAreElders'
  OBVIOUS
<1>1. ASSUME UNCHANGED elders PROVE OthersAreElders'
  BY <1>1 DEF OthersAreElders
<1>2. ASSUME NEW t \in Threads, Asking(t) PROVE OthersAreElders'
  <2>1. /\ pc[t] = "idle"
        /\ elders' = [elders EXCEPT ![t] =
                        {u \in Threads : there'[t] /\ pc[u] \in {"reconcile", "locked"}}]
    BY <1>2 DEF Asking, Begin
  <2> QED BY <2>1 DEF OthersAreElders, Types, ThreadType
<1>3. ASSUME NEW t \in Threads, Commit(t) \/ Rollback(t) PROVE OthersAreElders'
  <2>1. elders' = [u \in Threads |-> elders[u] \ {t}]
    BY <1>3 DEF Commit, Rollback
  <2> QED BY <2>1 DEF OthersAreElders
<1>4. ASSUME \/ \E f \in Files : Edit(f)
             \/ Refresh
             \/ \E t \in Threads : \/ TakeSnapshot(t) \/ Lock(t) \/ Answering(t)
                                   \/ \E f \in Topics : ReadDocument(t, f)
             \/ UNCHANGED <<world, claims, thread, ghosts>>
      PROVE  UNCHANGED elders
  <2>1. ASSUME NEW t \in Threads, Answering(t) PROVE UNCHANGED elders
    BY <2>1, Answers DEF ghosts
  <2> QED BY <1>4, <2>1 DEF Edit, Refresh, TakeSnapshot, Lock, ReadDocument, ghosts
<1> QED BY <1>1, <1>2, <1>3, <1>4, Steps

\* A snapshot that is held already: its file is there as long as the claim is.
LEMMA StepYounger ==
  Types /\ ThereIsPresent /\ YoungerHaveIt /\ [Next]_vars => YoungerHaveIt'
<1> SUFFICES ASSUME Types, ThereIsPresent, YoungerHaveIt, [Next]_vars PROVE YoungerHaveIt'
  OBVIOUS
<1>0. Types'
  BY StepTypes
<1>1. ASSUME UNCHANGED <<vault, arg, pc, snap, docs, unread, there, elders>> PROVE YoungerHaveIt'
  BY <1>1, SameClaims DEF YoungerHaveIt, Holds, Asked
<1>2. ASSUME NEW f \in Files, Edit(f) PROVE YoungerHaveIt'
  <2>1. StillThere /\ UNCHANGED <<arg, pc, snap, docs, unread, elders>>
    BY <1>2 DEF Edit, thread
  <2> SUFFICES ASSUME NEW t \in Threads, NEW u \in Threads, NEW g \in Topics,
                      there'[t], Holds(u), u \notin elders[t], Asked(t) \in ClaimsIn(g)'
               PROVE  /\ g \in snap[u]
                      /\ g \in DOMAIN docs[u] \ unread[u] => Asked(t) \in DOMAIN Stored(docs[u][g], {})
    BY <2>1 DEF YoungerHaveIt, Holds, Asked
  <2>2. there[t]
    BY <2>1 DEF StillThere
  <2>3. PICK h \in Topics : Asked(t) \in ClaimsIn(h)
    BY <2>2, SomeTopicHasIt DEF ThereIsPresent
  <2>4. Text(h) \in Documents(h) /\ Text(g)' \in Documents(g)
    BY <1>0 DEF Types, WorldType, Text, Documents, Files
  <2>5. h = g
    BY <2>3, <2>4, OneTopic DEF ClaimsIn
  <2> QED BY <2>2, <2>3, <2>5 DEF YoungerHaveIt
<1>3. CASE Refresh
  <2>1. StillThere /\ UNCHANGED <<vault, arg, pc, snap, docs, unread, elders>>
    BY <1>3 DEF Refresh, thread
  <2>2. \A t \in Threads : there'[t] => there[t]
    BY <2>1 DEF StillThere
  <2> QED BY <2>1, <2>2, SameClaims DEF YoungerHaveIt, Holds, Asked
<1>4. ASSUME NEW s \in Threads, Asking(s) PROVE YoungerHaveIt'
  <2>1. PICK cs, a : Begin(s, cs, a)
    BY <1>4 DEF Asking
  <2>2. /\ pc' = [pc EXCEPT ![s] = "ensure"] /\ arg' = [arg EXCEPT ![s] = a]
        /\ there' = [there EXCEPT ![s] = Head(cs) = "claim" /\ a[1] \in Present]
        /\ elders' = [elders EXCEPT ![s] =
                        {u \in Threads : there'[s] /\ pc[u] \in {"reconcile", "locked"}}]
        /\ UNCHANGED <<vault, snap, docs, unread>>
    BY <2>1 DEF Begin, world
  <2>3. \A u \in Threads : Holds(u)' => Holds(u) /\ u # s
    BY <2>2 DEF Types, ThreadType, Holds
  <2> SUFFICES ASSUME NEW t \in Threads, NEW u \in Threads, NEW f \in Topics,
                      there'[t], Holds(u)', u \notin elders'[t], Asked(t)' \in ClaimsIn(f)
               PROVE  /\ f \in snap[u]
                      /\ f \in DOMAIN docs[u] \ unread[u] => Asked(t)' \in DOMAIN Stored(docs[u][f], {})
    BY <2>2, SameClaims DEF YoungerHaveIt
  <2>4. CASE t = s
    BY <2>2, <2>3, <2>4 DEF Types, ThreadType, Holds
  <2>5. CASE t # s
    <3>1. there[t] /\ Asked(t)' = Asked(t) /\ u \notin elders[t]
      BY <2>2, <2>5 DEF Types, ThreadType, Asked
    <3> QED BY <2>3, <3>1 DEF YoungerHaveIt
  <2> QED BY <2>4, <2>5
<1>5. ASSUME NEW s \in Threads, TakeSnapshot(s) PROVE YoungerHaveIt'
  <2>1. /\ pc[s] = "ensure" /\ pc' = [pc EXCEPT ![s] = "reconcile"]
        /\ snap' = [snap EXCEPT ![s] = index']
        /\ StillThere /\ UNCHANGED <<vault, arg, docs, unread, elders>>
    BY <1>5 DEF TakeSnapshot
  <2>2. index' # None
    <3>1. Scans \subseteq SUBSET (Topics \cup Sources)
      BY DEF Scans, Files
    <3> QED BY <1>5, <3>1, KnowledgeHealthAssumption DEF TakeSnapshot
  <2>3. ThereIsPresent'
    BY StepThere
  <2> SUFFICES ASSUME NEW t \in Threads, NEW u \in Threads, NEW f \in Topics,
                      there'[t], Holds(u)', u \notin elders[t], Asked(t) \in ClaimsIn(f)
               PROVE  /\ f \in snap'[u]
                      /\ f \in DOMAIN docs[u] \ unread[u] => Asked(t) \in DOMAIN Stored(docs[u][f], {})
    BY <2>1, SameClaims DEF YoungerHaveIt, Asked
  <2>4. there[t]
    BY <2>1 DEF StillThere
  <2>5. CASE u = s
    <3>1. DOMAIN docs[u] = {} /\ snap'[u] = index'
      BY <2>1, <2>5 DEF Types, ThreadType, DocsFit
    <3>2. Asked(t) \in Present'
      BY <2>1, <2>3 DEF ThereIsPresent, Asked
    <3>3. PICK g \in Topics : Asked(t) \in ClaimsIn(g)' /\ g \in index'
      BY <2>2, <3>2 DEF Present
    <3>4. Text(f) \in Documents(f) /\ Text(g) \in Documents(g)
      BY TextIsDocument DEF Types, Files
    <3>5. Asked(t) \in ClaimsIn(g)
      BY <2>1, <3>3, SameClaims
    <3>6. f = g
      BY <3>4, <3>5, OneTopic DEF ClaimsIn
    <3> QED BY <3>1, <3>3, <3>6
  <2>6. CASE u # s
    <3>1. Holds(u) /\ snap'[u] = snap[u]
      BY <2>1, <2>6 DEF Types, ThreadType, Holds
    <3> QED BY <2>4, <3>1 DEF YoungerHaveIt
  <2> QED BY <2>5, <2>6
<1>6. ASSUME NEW s \in Threads, Lock(s) PROVE YoungerHaveIt'
  <2>1. /\ pc[s] = "reconcile" /\ pc' = [pc EXCEPT ![s] = "locked"]
        /\ UNCHANGED <<vault, arg, snap, docs, unread, there, elders>>
    BY <1>6 DEF Lock, world, ghosts
  <2>2. \A u \in Threads : Holds(u)' => Holds(u)
    BY <2>1 DEF Types, ThreadType, Holds
  <2> QED BY <2>1, <2>2, SameClaims DEF YoungerHaveIt, Asked
<1>7. ASSUME NEW s \in Threads, NEW g \in Topics, ReadDocument(s, g) PROVE YoungerHaveIt'
  <2>1. UNCHANGED <<vault, pc, arg, snap, there, elders>>
    BY <1>7 DEF ReadDocument, world
  <2>2. PICK d \in {Text(g), Blank}, m \in SUBSET {g} :
           /\ m = {} => d = Text(g)
           /\ docs' = [docs EXCEPT ![s] =
                         [h \in DOMAIN docs[s] \cup {g} |-> IF h # g THEN docs[s][h] ELSE d]]
           /\ unread' = [unread EXCEPT ![s] = unread[s] \cup m]
    BY <1>7, ReadsIt
  <2> SUFFICES ASSUME NEW t \in Threads, NEW u \in Threads, NEW f \in Topics,
                      there[t], Holds(u), u \notin elders[t], Asked(t) \in ClaimsIn(f)
               PROVE  /\ f \in snap[u]
                      /\ f \in DOMAIN docs'[u] \ unread'[u] =>
                            Asked(t) \in DOMAIN Stored(docs'[u][f], {})
    BY <2>1, SameClaims DEF YoungerHaveIt, Holds, Asked
  <2>3. /\ f \in snap[u]
        /\ f \in DOMAIN docs[u] \ unread[u] => Asked(t) \in DOMAIN Stored(docs[u][f], {})
    BY DEF YoungerHaveIt
  <2>4. unread[u] \subseteq unread'[u]
    BY <2>2 DEF Types, ThreadType
  <2>5. CASE u = s /\ f = g
    <3>1. docs'[u][f] = d /\ unread'[u] = unread[u] \cup m
      BY <2>2, <2>5 DEF Types, DocsFit, ThreadType
    <3>2. f \notin unread'[u] => d = Text(f)
      BY <2>2, <2>5, <3>1
    <3> QED BY <2>3, <3>1, <3>2 DEF ClaimsIn
  <2>6. CASE ~(u = s /\ f = g)
    <3>1. f \in DOMAIN docs'[u] => f \in DOMAIN docs[u] /\ docs'[u][f] = docs[u][f]
      BY <2>2, <2>6 DEF Types, DocsFit
    <3> QED BY <2>3, <2>4, <3>1
  <2> QED BY <2>5, <2>6
<1>8. ASSUME NEW s \in Threads, Commit(s) \/ Rollback(s) PROVE YoungerHaveIt'
  <2>1. /\ \E l \in {"select", "idle"} : pc' = [pc EXCEPT ![s] = l]
        /\ elders' = [u \in Threads |-> elders[u] \ {s}]
        /\ docs' = [docs EXCEPT ![s] = <<>>] /\ snap' = [snap EXCEPT ![s] = {}]
        /\ unread' = [unread EXCEPT ![s] = {}]
        /\ UNCHANGED <<vault, arg, there>>
    BY <1>8 DEF Commit, Rollback, Unlock, world
  <2>2. \A u \in Threads : Holds(u)' =>
           /\ Holds(u) /\ u # s
           /\ docs'[u] = docs[u] /\ snap'[u] = snap[u] /\ unread'[u] = unread[u]
    BY <2>1 DEF Types, ThreadType, DocsFit, Holds
  <2>3. \A t, u \in Threads : u # s /\ u \notin elders'[t] => u \notin elders[t]
    BY <2>1
  <2> QED BY <2>1, <2>2, <2>3, SameClaims DEF YoungerHaveIt, Asked
<1>9. ASSUME NEW s \in Threads, Answering(s) PROVE YoungerHaveIt'
  <2>1. PICK l \in {"ensure", "idle"} : pc' = [pc EXCEPT ![s] = l]
    BY <1>9, Answers
  <2>2. UNCHANGED <<vault, arg, snap, docs, unread, there, elders>>
    BY <1>9, Answers DEF world, ghosts
  <2>3. \A u \in Threads : Holds(u)' => Holds(u)
    BY <2>1 DEF Types, ThreadType, Holds
  <2> QED BY <2>2, <2>3, SameClaims DEF YoungerHaveIt, Asked
<1>10. ASSUME UNCHANGED <<world, claims, thread, ghosts>> PROVE YoungerHaveIt'
  BY <1>1, <1>10 DEF world, thread, ghosts
<1> QED BY <1>2, <1>3, <1>4, <1>5, <1>6, <1>7, <1>8, <1>9, <1>10, Steps

\* The select is answered from what the last of the snapshots wrote.
LEMMA StepFound ==
  /\ Types /\ ThereIsPresent /\ YoungerHaveIt /\ OthersAreElders
  /\ FoundUnlessLateOrUnread /\ [Next]_vars
  => FoundUnlessLateOrUnread'
<1> SUFFICES ASSUME Types, ThereIsPresent, YoungerHaveIt, OthersAreElders, FoundUnlessLateOrUnread,
                    [Next]_vars
             PROVE  FoundUnlessLateOrUnread'
  OBVIOUS
<1>1. ASSUME \A t \in Threads :
                pc'[t] = "select" =>
                  /\ pc[t] = "select" /\ calls'[t] = calls[t] /\ arg'[t] = arg[t]
                  /\ there'[t] => there[t]
                  /\ late[t] => late'[t]
                  /\ missed[t] => missed'[t],
             UNCHANGED claims
      PROVE  FoundUnlessLateOrUnread'
  BY <1>1 DEF FoundUnlessLateOrUnread
<1>2. ASSUME (\E f \in Files : Edit(f)) \/ Refresh PROVE FoundUnlessLateOrUnread'
  <2>1. StillThere /\ UNCHANGED <<pc, calls, arg, late, missed, claims>>
    BY <1>2 DEF Edit, Refresh, thread, tables
  <2> QED BY <1>1, <2>1 DEF StillThere
<1>3. ASSUME NEW s \in Threads, Asking(s) PROVE FoundUnlessLateOrUnread'
  <2>1. PICK cs, a : Begin(s, cs, a)
    BY <1>3 DEF Asking
  <2>2. /\ pc' = [pc EXCEPT ![s] = "ensure"] /\ calls' = [calls EXCEPT ![s] = cs]
        /\ arg' = [arg EXCEPT ![s] = a]
        /\ \E b : there' = [there EXCEPT ![s] = b]
        /\ late' = [late EXCEPT ![s] = FALSE] /\ missed' = [missed EXCEPT ![s] = FALSE]
        /\ UNCHANGED claims
    BY <2>1 DEF Begin, tables
  <2>3. \A t \in Threads : pc'[t] = "select" => t # s
    BY <2>2 DEF Types, ThreadType
  <2> QED BY <1>1, <2>2, <2>3 DEF Types, ThreadType
<1>4. ASSUME NEW s \in Threads, TakeSnapshot(s) \/ Lock(s) \/ Rollback(s)
      PROVE  FoundUnlessLateOrUnread'
  <2>1. /\ \E l \in {"reconcile", "locked", "idle"} : pc' = [pc EXCEPT ![s] = l]
        /\ StillThere \/ UNCHANGED there
        /\ UNCHANGED <<calls, arg, late, missed, claims>>
    BY <1>4 DEF TakeSnapshot, Lock, Rollback, Unlock, tables, ghosts
  <2>2. \A t \in Threads : pc'[t] = "select" => pc[t] = "select"
    BY <2>1 DEF Types, ThreadType
  <2> QED BY <1>1, <2>1, <2>2 DEF StillThere
<1>5. ASSUME NEW s \in Threads, NEW f \in Topics, ReadDocument(s, f) PROVE FoundUnlessLateOrUnread'
  <2>1. UNCHANGED <<pc, calls, arg, there, late, missed, claims>>
    BY <1>5 DEF ReadDocument, tables, ghosts
  <2> QED BY <1>1, <2>1
<1>6. ASSUME NEW s \in Threads, Answering(s) PROVE FoundUnlessLateOrUnread'
  <2>1. PICK l \in {"ensure", "idle"} : pc' = [pc EXCEPT ![s] = l]
    BY <1>6, Answers
  <2>2. /\ \A u \in Threads \ {s} : calls'[u] = calls[u]
        /\ UNCHANGED <<arg, there, late, missed, claims>>
    BY <1>6, Answers DEF ghosts
  <2>3. \A t \in Threads : pc'[t] = "select" => pc[t] = "select" /\ t # s
    BY <2>1 DEF Types, ThreadType
  <2> QED BY <1>1, <2>2, <2>3
<1>7. ASSUME NEW s \in Threads, Commit(s) PROVE FoundUnlessLateOrUnread'
  <2>1. /\ pc[s] = "locked" /\ pc' = [pc EXCEPT ![s] = "select"]
        /\ late' = [u \in Threads |-> late[u] \/ (pc[u] = "select" /\ s \in elders[u])]
        /\ missed' = [u \in Threads |-> /\ there[u] /\ pc'[u] = "select"
                                       /\ \E f \in unread[s] : arg[u][1] \in ClaimsIn(f)]
        /\ UNCHANGED <<vault, index, calls, arg, there>>
    BY <1>7 DEF Commit, Unlock, world
  <2> SUFFICES ASSUME NEW t \in Threads, pc'[t] = "select", there[t], ~late'[t], ~missed'[t]
               PROVE  Asked(t) \in DOMAIN claims'
    BY <2>1 DEF FoundUnlessLateOrUnread, Asked
  <2>2. s \notin elders[t]
    BY <2>1 DEF Types, ThreadType, OthersAreElders
  <2>3. PICK f \in Topics : Asked(t) \in ClaimsIn(f)
    BY SomeTopicHasIt DEF ThereIsPresent
  <2>4. f \notin unread[s]
    BY <2>1, <2>3 DEF Asked
  <2>5. f \in DOMAIN docs[s]
    BY <1>7, <2>1, <2>2, <2>3, Stores DEF YoungerHaveIt, Holds
  <2>6. Asked(t) \in DOMAIN Stored(docs[s][f], {})
    BY <2>1, <2>2, <2>3, <2>4, <2>5 DEF YoungerHaveIt, Holds
  <2>7. Asked(t) \in DOMAIN Stored(docs[s][f], snap[s])
    BY <2>6, StoredDomain
  <2>8. Asked(t) \in Seen(Found(s))
    BY <2>5, <2>7 DEF Seen, Found
  <2> QED BY <1>7, <2>8, Stores
<1>8. ASSUME UNCHANGED <<world, claims, thread, ghosts>> PROVE FoundUnlessLateOrUnread'
  BY <1>1, <1>8 DEF thread, ghosts
<1> QED BY <1>2, <1>3, <1>4, <1>5, <1>6, <1>7, <1>8, Steps

\* A claim that is in the vault and in the index all through a request is found,
\* unless a request with an older snapshot has reconciled in between, or the last one
\* to reconcile failed to read the document that has the claim
\* (knowledge_health.py, 120, 174-176, 192-196).
THEOREM ClaimsAreFound == Spec => []FoundUnlessLateOrUnread
<1>1. Init => ThereIsPresent /\ OthersAreElders /\ YoungerHaveIt /\ FoundUnlessLateOrUnread
  <2> SUFFICES ASSUME Init
               PROVE ThereIsPresent /\ OthersAreElders /\ YoungerHaveIt /\ FoundUnlessLateOrUnread
    OBVIOUS
  <2>1. \A t \in Threads : ~there[t] /\ elders[t] = {}
    BY DEF Init
  <2> QED BY <2>1 DEF ThereIsPresent, OthersAreElders, YoungerHaveIt, FoundUnlessLateOrUnread
<1>2. /\ Types /\ ThereIsPresent /\ OthersAreElders /\ YoungerHaveIt /\ FoundUnlessLateOrUnread
      /\ [Next]_vars
      => ThereIsPresent' /\ OthersAreElders' /\ YoungerHaveIt' /\ FoundUnlessLateOrUnread'
  BY StepThere, StepElders, StepYounger, StepFound
<1> QED BY <1>1, <1>2, TypeCorrect, PTL DEF Spec
=================================================================================
