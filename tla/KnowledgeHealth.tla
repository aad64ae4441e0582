---------------------------- MODULE KnowledgeHealth ----------------------------
(***************************************************************************)
(* The health projection of the vault (knowledge_health.py): claims, their  *)
(* evidence and the signals about them in SQLite, reconciled with the files *)
(* at the start of every request, and what people decide about signals and  *)
(* reviews.  Requests run in threads of their own.                          *)
(*                                                                         *)
(* A reconciliation takes the snapshot of the graph index before the lock,  *)
(* reads the documents under it and writes in one transaction, which is     *)
(* visible when it commits.  A document that cannot be read is taken for    *)
(* empty.  A select comes after the commit, without the lock.               *)
(***************************************************************************)
EXTENDS Naturals, Sequences, FiniteSets, SequencesExt

CONSTANTS Threads,
          Topics, Sources, \* files: those with claims, and those cited as evidence
          Texts(_),        \* the documents a file may hold
          Unreadable,      \* the files that may fail to be read while they are there
          Reviews,
          Verdicts,        \* statuses a signal may be given
          MaxEdits, MaxRequests, MaxVersion,
          None

ASSUME KnowledgeHealthAssumption ==
    /\ MaxEdits \in Nat /\ MaxRequests \in Nat /\ MaxVersion \in Nat
    /\ Verdicts \subseteq {"acknowledged", "resolved", "dismissed", "open"}
    /\ Topics \cap Sources = {}
    /\ \A S \in SUBSET (Topics \cup Sources) : S # None
    /\ \A f \in Topics \cup Sources : \A d \in Texts(f) : d.claims \in Seq(ToSet(d.claims))
    \* The identity of a claim is that of its topic and its text.
    /\ \A f, g \in Topics : \A d \in Texts(f), e \in Texts(g) :
          f # g => \A x \in ToSet(d.claims), y \in ToSet(e.claims) : x.id # y.id

VARIABLES
    vault,    \* the document of each file; None if there is no such file
    index,    \* the files the graph snapshot has; None before the first scan
    claims,   \* knowledge_claims with the evidence of each
    signals,  \* knowledge_signals: status and version of each
    reviews,  \* the status of each review; None before it is created
    pc, calls,\* of a thread; the selects of its request that are left
    arg,      \* of its request
    snap,     \* the snapshot its reconciliation works on
    docs,     \* the documents it has read
    lock,     \* who holds the lock
    edits, requests,
    decisions,\* of each signal, in the order they were stored
    there,    \* the claim it asks for has been in the vault since the request began
    elders,   \* if so, the threads with a snapshot taken before the request began
    late,     \* one of them has committed before the select
    unread,   \* the documents that are there and that its reconciliation failed to read
    missed    \* the document with the claim was one of these, when one last committed

world == <<vault, index, edits>>
tables == <<claims, signals, reviews, decisions>>
thread == <<pc, calls, arg, snap, docs, lock>>
ghosts == <<there, elders, late, unread, missed>>
vars == <<world, tables, thread, requests, ghosts>>

Files == Topics \cup Sources

\* What a scan of the files may find: one that cannot be read is passed over.
Scans == {{f \in Files : vault[f] # None} \ left : left \in SUBSET Unreadable}

-----------------------------------------------------------------------------
(* What a document says, with the sources of a snapshot.                   *)

\* Declared evidence, and the sources that the body mentions.
Evidence(doc, claim, snapshot) ==
    claim.evidence \cup (doc.mentions \cap snapshot)

\* A claim declared twice is stored as it is declared last.
Stored(doc, snapshot) ==
    [c \in {claim.id : claim \in ToSet(doc.claims)} |->
        Evidence(doc, doc.claims[SelectLastInSeq(doc.claims, LAMBDA e : e.id = c)], snapshot)]

\* Mutant: only claims that are new to the table are looked at.
SignalsOfNew(doc, snapshot) ==
    UNION {{<<claim.id, type>> : type \in
                doc.flags \cup (IF Evidence(doc, claim, snapshot) = {} THEN {"unsupported"} ELSE {})} :
           claim \in {e \in ToSet(doc.claims) : e.id \notin DOMAIN claims}}

\* _signals: for each claim, the flags of its document and the lack of evidence.
Signals(doc, snapshot) ==
    UNION {{<<claim.id, type>> : type \in
                doc.flags \cup (IF Evidence(doc, claim, snapshot) = {} THEN {"unsupported"} ELSE {})} :
           claim \in ToSet(doc.claims)}

\* A file that is gone reads as an empty document, and so does one that cannot be read.
Blank == [claims |-> <<>>, mentions |-> {}, flags |-> {}]
Text(f) == IF vault[f] = None THEN Blank ELSE vault[f]
ClaimsIn(f) == DOMAIN Stored(Text(f), {})
Present == IF index = None THEN UNION {ClaimsIn(f) : f \in Topics}
                           ELSE UNION {ClaimsIn(f) : f \in Topics \cap index}

-----------------------------------------------------------------------------
Init ==
    /\ vault \in {v \in [Files -> {None} \cup UNION {Texts(f) : f \in Files}] :
                     \A f \in Files : v[f] \in {None} \cup Texts(f)}
    /\ index = None
    /\ claims = <<>> /\ signals = <<>>
    /\ reviews = [r \in Reviews |-> None]
    /\ pc = [t \in Threads |-> "idle"] /\ calls = [t \in Threads |-> <<>>]
    /\ arg = [t \in Threads |-> None]
    /\ snap = [t \in Threads |-> {}] /\ docs = [t \in Threads |-> <<>>]
    /\ lock = None
    /\ edits = 0 /\ requests = 0 /\ decisions = [s \in {} |-> <<>>]
    /\ there = [t \in Threads |-> FALSE] /\ elders = [t \in Threads |-> {}]
    /\ late = [t \in Threads |-> FALSE]
    /\ unread = [t \in Threads |-> {}] /\ missed = [t \in Threads |-> FALSE]

-----------------------------------------------------------------------------
(* The files and their index.                                              *)

StillThere == there' = [t \in Threads |-> there[t] /\ arg[t][1] \in Present']

Edit(f) ==
    /\ edits < MaxEdits /\ edits' = edits + 1
    /\ \E d \in (Texts(f) \cup {None}) \ {vault[f]} : vault' = [vault EXCEPT ![f] = d]
    /\ UNCHANGED index /\ StillThere
    /\ UNCHANGED <<tables, thread, requests, elders, late, unread, missed>>

Refresh ==
    /\ index # None /\ index' \in Scans \ {index}
    /\ UNCHANGED vault /\ StillThere
    /\ UNCHANGED <<edits, tables, thread, requests, elders, late, unread, missed>>

-----------------------------------------------------------------------------
(* Requests.  calls names the selects; each comes after a reconciliation, as *)
(* does that of the evidence of each claim of a list, which is left out.    *)

Begin(t, cs, a) ==
    /\ pc[t] = "idle" /\ requests < MaxRequests
    /\ requests' = requests + 1
    /\ pc' = [pc EXCEPT ![t] = "ensure"] /\ calls' = [calls EXCEPT ![t] = cs]
    /\ arg' = [arg EXCEPT ![t] = a]
    /\ there' = [there EXCEPT ![t] = Head(cs) = "claim" /\ a[1] \in Present]
    /\ elders' = [elders EXCEPT ![t] = {u \in Threads : there'[t] /\ pc[u] \in {"reconcile", "locked"}}]
    /\ late' = [late EXCEPT ![t] = FALSE] /\ missed' = [missed EXCEPT ![t] = FALSE]
    /\ UNCHANGED <<world, tables, snap, docs, lock, unread>>

GetClaim(t) == \E c \in UNION {ClaimsIn(f) : f \in Topics} \cup DOMAIN claims :
    Begin(t, <<"claim", "evidence">>, <<c>>)

ListSignals(t) == Begin(t, <<"signals">>, None)

GetSignal(t) == \E s \in DOMAIN signals : Begin(t, <<"signal", "claims">>, s)

\* Somebody decides about a signal as it was when they saw it.
Decide(t) ==
    \E s \in DOMAIN signals, status \in Verdicts :
        \E v \in 1..signals[s].version :
            Begin(t, <<"action", "signal", "claims">>,
                  s \o <<status, v>>)

\* reconcile, up to the lock.
TakeSnapshot(t) ==
    /\ pc[t] = "ensure" /\ pc' = [pc EXCEPT ![t] = "reconcile"]
    /\ index' \in IF index = None THEN Scans ELSE {index}
    /\ snap' = [snap EXCEPT ![t] = index']
    /\ UNCHANGED vault /\ StillThere
    /\ UNCHANGED <<edits, tables, calls, arg, docs, lock, requests, elders, late, unread, missed>>

Lock(t) ==
    /\ pc[t] = "reconcile" /\ lock = None
    /\ lock' = t /\ pc' = [pc EXCEPT ![t] = "locked"]
    /\ UNCHANGED <<world, tables, calls, arg, snap, docs, requests, ghosts>>

\* _document: the file as it is now, not as it was when it was indexed.  Whatever
\* keeps a file from being read or decoded, it is as if it were empty.
ReadDocument(t, f) ==
    /\ pc[t] = "locked" /\ f \in (snap[t] \cap Topics) \ DOMAIN docs[t]
    /\ \E read \in IF f \in Unreadable /\ vault[f] # None THEN BOOLEAN ELSE {TRUE} :
         /\ docs' = [docs EXCEPT ![t] = [g \in DOMAIN @ \cup {f} |->
                        IF g # f THEN @[g] ELSE IF read THEN Text(f) ELSE Blank]]
         /\ unread' = [unread EXCEPT ![t] = IF read THEN @ ELSE @ \cup {f}]
    /\ UNCHANGED <<world, tables, pc, calls, arg, snap, lock, requests, there, elders, late, missed>>

Unlock(t, to) == lock' = None /\ pc' = [pc EXCEPT ![t] = to]

\* The claims of the documents, as they are stored.
Found(t) == [f \in DOMAIN docs[t] |-> Stored(docs[t][f], snap[t])]

\* Mutant: a claim that has not changed is passed over.
SeenIfChanged(found) ==
    UNION {{c \in DOMAIN found[f] : c \in DOMAIN claims => claims[c] # found[f][c]} : f \in DOMAIN found}

Seen(found) == UNION {DOMAIN found[f] : f \in DOMAIN found}

\* New keys get the value e, the others keep theirs.
Extended(table, keys, e) ==
    [k \in DOMAIN table \cup keys |-> IF k \in DOMAIN table THEN table[k] ELSE e]

\* Claims that were not seen are deleted, unless none was seen; a signal is kept for
\* ever, with the status it has.
Commit(t) ==
    /\ pc[t] = "locked" /\ DOMAIN docs[t] = snap[t] \cap Topics
    /\ LET found == Found(t)
           seen == Seen(found)
           kept == IF seen = {} THEN DOMAIN claims ELSE seen
           raised == UNION {Signals(docs[t][f], snap[t]) : f \in DOMAIN docs[t]}
       IN /\ claims' = [c \in kept |->
                          IF c \in seen THEN found[CHOOSE f \in DOMAIN found : c \in DOMAIN found[f]][c]
                                        ELSE claims[c]]
          /\ signals' = Extended(signals, raised, [status |-> "open", version |-> 1])
          /\ decisions' = Extended(decisions, raised, <<>>)
    /\ Unlock(t, "select")
    /\ late' = [u \in Threads |-> late[u] \/ (pc[u] = "select" /\ t \in elders[u])]
    /\ elders' = [u \in Threads |-> elders[u] \ {t}]
    /\ missed' = [u \in Threads |-> /\ there[u] /\ pc'[u] = "select"
                                   /\ \E f \in unread[t] : arg[u][1] \in ClaimsIn(f)]
    /\ unread' = [unread EXCEPT ![t] = {}]
    /\ docs' = [docs EXCEPT ![t] = <<>>] /\ snap' = [snap EXCEPT ![t] = {}]
    /\ UNCHANGED <<world, reviews, calls, arg, requests, there>>

\* SQLite raises: the transaction is rolled back and the request fails.
Rollback(t) ==
    /\ pc[t] = "locked" /\ DOMAIN docs[t] = snap[t] \cap Topics
    /\ Unlock(t, "idle")
    /\ elders' = [u \in Threads |-> elders[u] \ {t}]
    /\ docs' = [docs EXCEPT ![t] = <<>>] /\ snap' = [snap EXCEPT ![t] = {}]
    /\ unread' = [unread EXCEPT ![t] = {}]
    /\ UNCHANGED <<world, tables, calls, arg, requests, there, late, missed>>

\* After a select: the next one, after another reconciliation, or the answer.
Answered(t, found) ==
    IF found /\ Len(calls[t]) > 1
    THEN pc' = [pc EXCEPT ![t] = "ensure"] /\ calls' = [calls EXCEPT ![t] = Tail(@)]
    ELSE pc' = [pc EXCEPT ![t] = "idle"] /\ UNCHANGED calls

Select(t) ==
    /\ pc[t] = "select" /\ Head(calls[t]) # "action"
    /\ Answered(t, Head(calls[t]) = "claim" => arg[t][1] \in DOMAIN claims)
    /\ UNCHANGED <<world, tables, arg, snap, docs, lock, requests, ghosts>>

Decision(a) == [status |-> a[3], version |-> a[4]]

\* Mutant: the version is checked in the WHERE clause only, as "at least".
ActBlind(t) ==
    /\ pc[t] = "select" /\ Head(calls[t]) = "action" /\ lock = None
    /\ LET s == SubSeq(arg[t], 1, 2)  d == Decision(arg[t]) IN
          IF signals[s].version >= d.version /\ d.version < MaxVersion
          THEN /\ signals' = [signals EXCEPT ![s] = [status |-> d.status, version |-> d.version + 1]]
               /\ decisions' = [decisions EXCEPT ![s] = Append(@, d)]
               /\ Answered(t, TRUE)
          ELSE UNCHANGED <<signals, decisions>> /\ Answered(t, FALSE)
    /\ UNCHANGED <<world, claims, reviews, arg, snap, docs, lock, requests, ghosts>>

\* action, in the lock: the decision is stored if the version is the one it is about.
Act(t) ==
    /\ pc[t] = "select" /\ Head(calls[t]) = "action" /\ lock = None
    /\ LET s == SubSeq(arg[t], 1, 2)  d == Decision(arg[t]) IN
          IF signals[s].version = d.version /\ d.version < MaxVersion
          THEN /\ signals' = [signals EXCEPT ![s] = [status |-> d.status, version |-> @.version + 1]]
               /\ decisions' = [decisions EXCEPT ![s] = Append(@, d)]
               /\ Answered(t, TRUE)
          ELSE UNCHANGED <<signals, decisions>> /\ Answered(t, FALSE)
    /\ UNCHANGED <<world, claims, reviews, arg, snap, docs, lock, requests, ghosts>>

\* Reviews are created and decided without the lock; a decision finds a pending one.
CreateReview(r) ==
    /\ requests < MaxRequests /\ requests' = requests + 1
    /\ reviews[r] = None /\ reviews' = [reviews EXCEPT ![r] = "pending"]
    /\ UNCHANGED <<world, claims, signals, decisions, thread, ghosts>>

DecideReview(r) ==
    /\ requests < MaxRequests /\ requests' = requests + 1
    /\ reviews[r] = "pending"
    /\ \E d \in {"accepted", "rejected", "cancelled"} : reviews' = [reviews EXCEPT ![r] = d]
    /\ UNCHANGED <<world, claims, signals, decisions, thread, ghosts>>

Next ==
    \/ \E f \in Files : Edit(f)
    \/ Refresh
    \/ \E t \in Threads :
         \/ GetClaim(t) \/ ListSignals(t) \/ GetSignal(t) \/ Decide(t)
         \/ TakeSnapshot(t) \/ Lock(t) \/ Commit(t) \/ Rollback(t) \/ Select(t) \/ Act(t)
         \/ \E f \in Topics : ReadDocument(t, f)
    \/ \E r \in Reviews : CreateReview(r) \/ DecideReview(r)

Spec == Init /\ [][Next]_vars

-----------------------------------------------------------------------------
\* No decision is lost, to another or to a reconciliation: the decisions stored about
\* a signal were taken on versions 1, 2, ... of it, and its status is the last one's.
NoDecisionLost ==
    \A s \in DOMAIN signals :
        LET mine == decisions[s] IN
        /\ signals[s].version = Len(mine) + 1
        /\ \A i \in 1..Len(mine) : mine[i].version = i
        /\ signals[s].status = IF mine = <<>> THEN "open" ELSE mine[Len(mine)].status

\* A claim stored without evidence has its signal, whatever became of the evidence
\* it had or of another claim with its text (knowledge_health.py 144-173, 251).
EveryGapSignalled ==
    \A c \in DOMAIN claims : claims[c] = {} => <<c, "unsupported">> \in DOMAIN signals

\* A claim that is in the vault and in the index all through a request is found, but
\* in two cases: a request with an older snapshot has reconciled in between (120, 175),
\* or the last to reconcile failed to read the very document that has the claim, which
\* is taken for empty, and its claims for gone (192-196, 174-176).
FoundUnlessLateOrUnread ==
    \A t \in Threads :
        pc[t] = "select" /\ Head(calls[t]) = "claim" /\ there[t] /\ ~late[t] /\ ~missed[t]
            => arg[t][1] \in DOMAIN claims

=============================================================================
