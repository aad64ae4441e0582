--------------------------- MODULE GraphIndex_proofs ---------------------------
(***************************************************************************)
(* Proofs about the index: its type, that no edit is forgotten, and that    *)
(* neither the index nor a client of the graph stream goes back.            *)
(*                                                                         *)
(* None of them is inductive alone.  What a refresh installs is newer than  *)
(* what it replaces because what it saves is, and that because the lock is  *)
(* held from the first read to the installation; an edit that a scan has    *)
(* missed is remembered by the watcher, the timer or the executor.  And a   *)
(* client that has missed no update shows the snapshot or has one coming.   *)
(***************************************************************************)
EXTENDS GraphIndex, TLAPS

\* The versions of a file come in one order: installed, saved, read, on disk.
Ordered ==
    /\ lock = None => scan = Unread
    /\ \A f \in Files :
         /\ snapshot[f] <= saved[f] /\ saved[f] <= disk[f]
         /\ scan[f] # None => saved[f] <= scan[f] /\ scan[f] <= disk[f]

Pending == unseen \/ timer # None \/ jobs # <<>>

\* What a scan or the installed snapshot has missed is still pending.
Owed ==
    /\ \A f \in Files : scan[f] # None /\ scan[f] # disk[f] => Pending
    /\ lock = None /\ snapshot # disk => Pending \/ failed

\* A client of the graph stream shows nothing that the index does not have yet.
ShownBehind ==
    \A c \in Clients : stream[c] = "graph" /\ shown[c] # None =>
        \A f \in Files : shown[c][f] <= snapshot[f]

IInv == TypeOK /\ Ordered /\ Owed /\ ShownBehind

-----------------------------------------------------------------------------
LEMMA ScannedSnapshot == ASSUME TypeOK, Scanned PROVE scan \in Snapshots
  BY DEF TypeOK, Scanned, Snapshots

\* A snapshot is put into the queues as it is.
LEMMA EventTypes ==
    /\ NodeEvent \in Events
    /\ \A s \in Snapshots : Updated(s) \in Events
  BY DEF Events, Updated, NodeEvent

LEMMA InitType == Init => TypeOK
  <1> SUFFICES ASSUME Init PROVE TypeOK
    OBVIOUS
  <1>1. Empty \in Snapshots /\ disk \in Snapshots
    BY DEF Init, Snapshots, Empty
  <1>2. scan \in [Files -> Nat \cup {None}]
    BY DEF Init, Unread
  <1>3. /\ jobs \in Seq(Reasons) /\ bus \in Seq(Events)
        /\ queue \in [Clients -> Seq(Events)]
    BY DEF Init
  <1>4. /\ conn \in [Clients -> {"off", "gap", "live"}]
        /\ shown \in [Clients -> Snapshots \cup {None}]
        /\ missed \in [Clients -> BOOLEAN]
    BY DEF Init
  <1> QED
    BY <1>1, <1>2, <1>3, <1>4 DEF Init, TypeOK, Reasons

LEMMA StepType == TypeOK /\ [Next]_vars => TypeOK'
  <1> SUFFICES ASSUME TypeOK, [Next]_vars PROVE TypeOK'
    OBVIOUS
  <1> USE DEF TypeOK, index, streams, counts
  <1>1. ASSUME NEW f \in Files, Edit(f) PROVE TypeOK'
    BY <1>1 DEF Edit, Snapshots
  <1>2. ASSUME NEW f \in Files, ReadFile(f) PROVE TypeOK'
    BY <1>2 DEF ReadFile, Snapshots
  <1>3. ASSUME Notice PROVE TypeOK'
    BY <1>3 DEF Notice, Reasons
  <1>4. ASSUME Fire PROVE TypeOK'
    BY <1>4 DEF Fire
  <1>5. ASSUME Save PROVE TypeOK'
    BY <1>5, ScannedSnapshot DEF Save
  <1>6. ASSUME Fail PROVE TypeOK'
    <2>1. scan' \in [Files -> Nat \cup {None}]
      BY <1>6 DEF Fail, Unread
    <2> QED
      BY <1>6, <2>1 DEF Fail
  <1>7. ASSUME Install PROVE TypeOK'
    <2>1. scan \in Snapshots
      BY <1>7, ScannedSnapshot DEF Install
    <2>2. bus' \in Seq(Events)
      BY <1>7, <2>1, EventTypes DEF Install
    <2>3. scan' \in [Files -> Nat \cup {None}]
      BY <1>7 DEF Install, Leave, Unread
    <2> QED
      BY <1>7, <2>1, <2>2, <2>3 DEF Install, Leave
  <1>8. ASSUME PublishNode PROVE TypeOK'
    BY <1>8, EventTypes DEF PublishNode
  <1>9. ASSUME Fanout PROVE TypeOK'
    <2>1. Head(bus) \in Events /\ Tail(bus) \in Seq(Events)
      BY <1>9 DEF Fanout
    <2>2. \A q \in Seq(Events) : Offer(q, Head(bus)) \in Seq(Events)
      <3> SUFFICES ASSUME NEW q \in Seq(Events) PROVE Offer(q, Head(bus)) \in Seq(Events)
        OBVIOUS
      <3>1. Len(q) = QueueCap => q # <<>>
        BY GraphAssumption
      <3> QED
        BY <2>1, <3>1 DEF Offer
    <2>3. queue' \in [Clients -> Seq(Events)]
      BY <1>9, <2>1, <2>2 DEF Fanout
    <2>4. missed' \in [Clients -> BOOLEAN]
      BY <1>9 DEF Fanout, Lost
    <2> QED
      BY <1>9, <2>1, <2>3, <2>4 DEF Fanout
  <1>10. ASSUME Restart PROVE TypeOK'
    <2>1. scan' \in [Files -> Nat \cup {None}]
      BY <1>10 DEF Restart, Unread
    <2>2. /\ jobs' \in Seq(Reasons) /\ bus' \in Seq(Events)
          /\ queue' \in [Clients -> Seq(Events)]
      BY <1>10 DEF Restart
    <2>3. conn' \in [Clients -> {"off", "gap", "live"}]
      BY <1>10 DEF Restart
    <2>4. timer' \in Reasons /\ lock' = None /\ reason' = None
      BY <1>10 DEF Restart, Reasons
    <2>5. snapshot' \in Snapshots /\ faults' \in Nat
      BY <1>10 DEF Restart
    <2>6. unseen' \in BOOLEAN /\ failed' \in BOOLEAN
      BY <1>10 DEF Restart
    <2>7. UNCHANGED <<disk, saved, stream, shown, missed, nodes>>
      BY <1>10 DEF Restart
    <2> QED
      BY <2>1, <2>2, <2>3, <2>4, <2>5, <2>6, <2>7
  <1>11. ASSUME NEW t \in Threads, Enter(t) PROVE TypeOK'
    <2>1. scan' \in [Files -> Nat \cup {None}]
      BY <1>11 DEF Enter, Unread
    <2>2. /\ jobs' \in Seq(Reasons)
          /\ reason' \in Reasons \cup {"request", None}
      <3>1. CASE t = "executor" /\ jobs # <<>> /\ reason' = Head(jobs) /\ jobs' = Tail(jobs)
        BY <3>1
      <3>2. CASE reason' = "request" /\ jobs' = jobs
        BY <3>2
      <3> QED
        BY <1>11, <3>1, <3>2 DEF Enter
    <2> QED
      BY <1>11, <2>1, <2>2 DEF Enter
  <1>12. ASSUME NEW c \in Clients, Connect(c) PROVE TypeOK'
    BY <1>12 DEF Connect
  <1>13. ASSUME NEW c \in Clients, Subscribe(c) PROVE TypeOK'
    BY <1>13 DEF Subscribe
  <1>14. ASSUME NEW c \in Clients, Deliver(c) PROVE TypeOK'
    <2> DEFINE e == Head(queue[c])
    <2>1. e \in Events /\ Tail(queue[c]) \in Seq(Events)
      BY <1>14 DEF Deliver
    <2>2. Current(c, e) \in Snapshots
      BY <2>1 DEF Current, IsUpdate, Events, NodeEvent
    <2>3. shown' \in [Clients -> Snapshots \cup {None}]
      BY <1>14, <2>2 DEF Deliver
    <2>4. missed' \in [Clients -> BOOLEAN]
      BY <1>14 DEF Deliver, Shows, IsUpdate
    <2>5. queue' \in [Clients -> Seq(Events)]
      BY <1>14, <2>1 DEF Deliver
    <2> QED
      BY <1>14, <2>3, <2>4, <2>5 DEF Deliver
  <1>15. ASSUME NEW c \in Clients, Hangup(c) PROVE TypeOK'
    BY <1>15 DEF Hangup
  <1>16. CASE UNCHANGED vars
    BY <1>16 DEF vars
  <1> QED
    BY <1>1, <1>2, <1>3, <1>4, <1>5, <1>6, <1>7, <1>8, <1>9, <1>10, <1>11, <1>12, <1>13, <1>14, <1>15, <1>16 DEF Next

\* Type correctness, for every value of the constants: whichever threads refresh, the
\* snapshot has a version of every file (graph_index.py 368-443, main.py 251-279).
THEOREM TypeCorrect == Spec => []TypeOK
  BY InitType, StepType, PTL DEF Spec

-----------------------------------------------------------------------------
\* The steps of the streams and of the bus do not touch the index.
LEMMA StreamsLeaveIndex ==
    ASSUME \/ PublishNode \/ Fanout \/ UNCHANGED vars
           \/ \E c \in Clients : Connect(c) \/ Subscribe(c) \/ Deliver(c) \/ Hangup(c)
    PROVE  UNCHANGED index
  BY DEF PublishNode, Fanout, Connect, Subscribe, Deliver, Hangup, vars

LEMMA StepOrdered == TypeOK /\ Ordered /\ [Next]_vars => Ordered'
  <1> SUFFICES ASSUME TypeOK, Ordered, [Next]_vars PROVE Ordered'
    OBVIOUS
  <1> USE DEF Ordered
  <1>0. /\ disk \in [Files -> Nat] /\ saved \in [Files -> Nat] /\ snapshot \in [Files -> Nat]
        /\ scan \in [Files -> Nat \cup {None}]
        /\ \A t \in Threads : t # None
    BY GraphAssumption DEF TypeOK, Snapshots
  <1>1. \A f \in Files : Unread[f] = None
    BY DEF Unread
  <1>2. ASSUME NEW f \in Files, Edit(f) PROVE Ordered'
    BY <1>0, <1>2 DEF Edit
  <1>3. ASSUME NEW f \in Files, ReadFile(f) PROVE Ordered'
    BY <1>0, <1>3 DEF ReadFile
  <1>4. CASE Save
    BY <1>0, <1>4 DEF Save, Scanned
  <1>5. CASE Fail
    BY <1>0, <1>1, <1>5 DEF Fail
  <1>6. CASE Install
    BY <1>0, <1>1, <1>6 DEF Install, Leave, Scanned
  <1>7. CASE Restart
    BY <1>0, <1>1, <1>7 DEF Restart
  <1>8. ASSUME NEW t \in Threads, Enter(t) PROVE Ordered'
    BY <1>0, <1>1, <1>8 DEF Enter
  <1>9. CASE Notice \/ Fire
    BY <1>9 DEF Notice, Fire
  <1>10. CASE UNCHANGED index
    BY <1>10 DEF index
  <1> QED
    BY <1>2, <1>3, <1>4, <1>5, <1>6, <1>7, <1>8, <1>9, <1>10, StreamsLeaveIndex DEF Next

LEMMA StepOwed == TypeOK /\ Ordered /\ Owed /\ [Next]_vars => Owed'
  <1> SUFFICES ASSUME TypeOK, Ordered, Owed, [Next]_vars PROVE Owed'
    OBVIOUS
  <1> USE DEF Owed, Pending
  <1>0. /\ disk \in [Files -> Nat] /\ snapshot \in [Files -> Nat]
        /\ scan \in [Files -> Nat \cup {None}]
        /\ \A t \in Threads : t # None
    BY GraphAssumption DEF TypeOK, Snapshots
  <1>1. \A f \in Files : Unread[f] = None
    BY DEF Unread
  <1>2. ASSUME NEW f \in Files, Edit(f) PROVE Owed'
    BY <1>2 DEF Edit
  <1>3. ASSUME NEW f \in Files, ReadFile(f) PROVE Owed'
    <2>1. \A g \in Files : scan'[g] = IF g = f THEN disk[f] ELSE scan[g]
      BY <1>0, <1>3 DEF ReadFile
    <2> QED
      BY <1>3, <2>1 DEF ReadFile
  <1>4. CASE Save
    BY <1>4 DEF Save
  <1>5. CASE Fail
    BY <1>1, <1>5 DEF Fail
  \* What the installed snapshot has missed, its scan had missed.
  <1>6. CASE Install
    <2>1. ASSUME scan # disk PROVE Pending
      <3>1. PICK f \in Files : scan[f] # disk[f]
        BY <1>0, <2>1
      <3> QED
        BY <1>6, <3>1 DEF Install, Scanned
    <2> QED
      BY <1>1, <1>6, <2>1 DEF Install, Leave
  <1>7. CASE Restart
    <2>1. timer' = "startup" /\ None # "startup"
      BY <1>7, GraphAssumption DEF Restart
    <2> QED
      BY <2>1
  \* The lock was free: nothing had been read.
  <1>8. ASSUME NEW t \in Threads, Enter(t) PROVE Owed'
    BY <1>0, <1>1, <1>8 DEF Enter
  <1>9. CASE Notice
    <2>1. timer' = "watcher" /\ None # "watcher"
      BY <1>9, GraphAssumption DEF Notice
    <2> QED
      BY <2>1
  <1>10. CASE Fire
    <2>1. jobs' # <<>>
      BY <1>10 DEF Fire, TypeOK
    <2> QED
      BY <2>1
  <1>11. CASE UNCHANGED index
    BY <1>11 DEF index
  <1> QED
    BY <1>2, <1>3, <1>4, <1>5, <1>6, <1>7, <1>8, <1>9, <1>10, <1>11, StreamsLeaveIndex DEF Next

-----------------------------------------------------------------------------
\* A step installs what is saved, which is as new as what it replaces.
LEMMA StepForward ==
    ASSUME TypeOK, Ordered, [Next]_vars
    PROVE  \A f \in Files : snapshot'[f] >= snapshot[f]
  <1>0. /\ snapshot \in [Files -> Nat] /\ saved \in [Files -> Nat]
        /\ \A f \in Files : saved[f] >= snapshot[f]
    BY DEF TypeOK, Snapshots, Ordered
  <1>1. snapshot' \in {snapshot, saved}
    <2>1. CASE Install
      BY <2>1 DEF Install, Leave
    <2>2. CASE Restart
      BY <2>2 DEF Restart
    <2>3. CASE UNCHANGED index
      BY <2>3 DEF index
    <2>4. CASE Notice \/ Fire \/ Save \/ Fail
      BY <2>4 DEF Notice, Fire, Save, Fail
    <2>5. CASE \E f \in Files : Edit(f) \/ ReadFile(f)
      BY <2>5 DEF Edit, ReadFile
    <2>6. CASE \E t \in Threads : Enter(t)
      BY <2>6 DEF Enter
    <2> QED
      BY <2>1, <2>2, <2>3, <2>4, <2>5, <2>6, StreamsLeaveIndex DEF Next
  <1> QED
    BY <1>0, <1>1

\* A step leaves a client of the graph stream what it shows, or shows it the current
\* snapshot.
LEMMA StepShown ==
    ASSUME TypeOK, [Next]_vars, NEW c \in Clients, stream[c] = "graph"
    PROVE  shown'[c] = shown[c] \/ (shown'[c] = snapshot /\ snapshot' = snapshot)
  <1>1. ASSUME NEW d \in Clients, Connect(d)
        PROVE  shown'[c] = shown[c] \/ (shown'[c] = snapshot /\ snapshot' = snapshot)
    BY <1>1 DEF Connect, TypeOK, index
  <1>2. ASSUME NEW d \in Clients, Deliver(d)
        PROVE  shown'[c] = shown[c] \/ (shown'[c] = snapshot /\ snapshot' = snapshot)
    <2>1. Shows(c, Head(queue[c])) => Current(c, Head(queue[c])) = snapshot
      BY DEF Current
    <2> QED
      BY <1>2, <2>1 DEF Deliver, TypeOK, index
  <1>3. CASE \E d \in Clients : Subscribe(d) \/ Hangup(d)
    BY <1>3 DEF Subscribe, Hangup
  <1>4. CASE PublishNode \/ Fanout \/ Restart \/ UNCHANGED vars
    BY <1>4 DEF PublishNode, Fanout, Restart, vars, streams
  <1>5. CASE UNCHANGED streams
    BY <1>5 DEF streams
  <1>6. ASSUME \/ Notice \/ Fire \/ Save \/ Fail \/ Install
               \/ \E f \in Files : Edit(f) \/ ReadFile(f)
               \/ \E t \in Threads : Enter(t)
        PROVE  UNCHANGED streams
    BY <1>6 DEF Notice, Fire, Save, Fail, Install, Leave, Edit, ReadFile, Enter
  <1> QED
    BY <1>1, <1>2, <1>3, <1>4, <1>5, <1>6 DEF Next

LEMMA StreamFixed == [Next]_vars => stream' = stream
  BY DEF Next, vars, streams, Edit, ReadFile, Notice, Fire, Save, Fail, Install, Leave,
         PublishNode, Fanout, Restart, Enter, Connect, Subscribe, Deliver, Hangup

LEMMA StepShownBehind == TypeOK /\ Ordered /\ ShownBehind /\ [Next]_vars => ShownBehind'
  <1> SUFFICES ASSUME TypeOK, Ordered, ShownBehind, [Next]_vars,
                      NEW c \in Clients, stream'[c] = "graph", shown'[c] # None,
                      NEW f \in Files
               PROVE  shown'[c][f] <= snapshot'[f]
    BY DEF ShownBehind
  <1>1. stream[c] = "graph"
    BY StreamFixed
  <1>2. snapshot'[f] >= snapshot[f]
    BY StepForward
  <1>3. snapshot[f] \in Nat /\ snapshot'[f] \in Nat
    BY StepType DEF TypeOK, Snapshots
  <1>4. CASE shown'[c] = shown[c]
    <2>1. shown[c][f] <= snapshot[f] /\ shown[c][f] \in Nat
      BY <1>1, <1>4 DEF ShownBehind, TypeOK, Snapshots
    <2> QED
      BY <1>2, <1>3, <1>4, <2>1
  <1>5. CASE shown'[c] = snapshot /\ snapshot' = snapshot
    BY <1>3, <1>5
  <1> QED
    BY <1>1, <1>4, <1>5, StepShown

LEMMA InitInv == Init => IInv
  <1> SUFFICES ASSUME Init PROVE IInv
    OBVIOUS
  <1>1. TypeOK
    BY InitType
  <1>2. \A f \in Files : Empty[f] = 0 /\ disk[f] = 1 /\ Unread[f] = None
    BY DEF Init, Empty, Unread
  <1>3. Ordered
    BY <1>2 DEF Init, Ordered
  <1>4. Owed
    BY <1>2, GraphAssumption DEF Init, Owed, Pending
  <1>5. ShownBehind
    BY DEF Init, ShownBehind
  <1> QED
    BY <1>1, <1>3, <1>4, <1>5 DEF IInv

\* IInv is inductive: every step of the index and of the streams keeps it
\* (graph_index.py 368-443, main.py 251-279).
THEOREM Invariant == Spec => []IInv
  <1>1. IInv /\ [Next]_vars => IInv'
    BY StepType, StepOrdered, StepOwed, StepShownBehind DEF IInv
  <1> QED
    BY <1>1, InitInv, PTL DEF Spec

-----------------------------------------------------------------------------
\* No edit is forgotten, for any number of files, requests and faults: what the index
\* does not show is still to be refreshed, or a refresh has failed (graph_index.py 422-443).
THEOREM EditsRemembered == Spec => []NoEditForgotten
  <1>1. IInv => NoEditForgotten
    BY DEF IInv, Owed, Pending, NoEditForgotten
  <1> QED
    BY <1>1, Invariant, PTL

\* The index never goes back to an older version of any file (graph_index.py 119-186, 422-430).
THEOREM IndexForward == Spec => IndexNeverBack
  <1>1. IInv /\ [Next]_vars => [\A f \in Files : snapshot'[f] >= snapshot[f]]_snapshot
    BY StepForward DEF IInv
  <1> QED
    BY <1>1, Invariant, PTL DEF Spec, IndexNeverBack

\* A client of the graph stream never sees the graph go back, over queues,
\* reconnections and restarts (main.py 251-279).
THEOREM GraphForward == Spec => GraphNeverBack
  <1>1. ASSUME IInv, [Next]_vars, NEW c \in Clients, stream[c] = "graph", shown[c] # None,
               NEW f \in Files
        PROVE  shown'[c][f] >= shown[c][f]
    <2>1. shown[c][f] \in Nat /\ snapshot[f] \in Nat /\ shown[c][f] <= snapshot[f]
      BY <1>1 DEF IInv, TypeOK, Snapshots, ShownBehind
    <2> QED
      BY <1>1, <2>1, StepShown DEF IInv
  <1>2. IInv /\ [Next]_vars =>
          [\A c \in Clients : stream[c] = "graph" /\ shown[c] # None =>
              \A f \in Files : shown'[c][f] >= shown[c][f]]_shown
    BY <1>1
  <1> QED
    BY <1>2, Invariant, PTL DEF Spec, GraphNeverBack

-----------------------------------------------------------------------------
(* The clients that have been sent everything.                             *)

HasUpdate(q) == \E i \in 1..Len(q) : IsUpdate(q[i])

\* An update that says what the index shows now.
Carries(e) == IsUpdate(e) => e.snapshot = snapshot

\* The newest event carries the current snapshot, if it carries one: in the bus, and
\* in a queue when the bus is empty.
NewestCurrent ==
    /\ bus # <<>> => Carries(bus[Len(bus)])
    /\ \A c \in Clients :
         /\ conn[c] # "live" => queue[c] = <<>>
         /\ bus = <<>> /\ queue[c] # <<>> => Carries(queue[c][Len(queue[c])])

\* A client that has missed nothing shows the current snapshot, or is about to be
\* sent it.
Informed ==
    \A c \in Clients : ~missed[c] =>
        /\ conn[c] = "gap" => shown[c] = snapshot \/ HasUpdate(bus)
        /\ conn[c] = "live" /\ stream[c] = "graph" =>
             shown[c] = snapshot \/ HasUpdate(bus) \/ HasUpdate(queue[c])
        /\ conn[c] = "live" /\ bus = <<>> /\ queue[c] = <<>> => shown[c] = snapshot

\* What is left of a queue when its head is taken.
LEMMA Taking ==
    ASSUME NEW q \in Seq(Events), q # <<>>
    PROVE  /\ HasUpdate(q) => IsUpdate(Head(q)) \/ HasUpdate(Tail(q))
           /\ Tail(q) # <<>> => Tail(q)[Len(Tail(q))] = q[Len(q)]
           /\ Tail(q) = <<>> => Head(q) = q[Len(q)]
  <1>1. /\ Len(q) \in Nat \ {0} /\ Len(Tail(q)) = Len(q) - 1 /\ Head(q) = q[1]
        /\ \A i \in 1..(Len(q) - 1) : Tail(q)[i] = q[i + 1]
    OBVIOUS
  <1>2. ASSUME NEW i \in 1..Len(q), IsUpdate(q[i]), i # 1 PROVE HasUpdate(Tail(q))
    <2>1. i - 1 \in 1..(Len(q) - 1) /\ (i - 1) + 1 = i
      BY <1>1, <1>2
    <2>2. Tail(q)[i - 1] = q[i]
      BY <1>1, <2>1
    <2> QED
      BY <1>1, <1>2, <2>1, <2>2 DEF HasUpdate
  <1>3. HasUpdate(q) => IsUpdate(Head(q)) \/ HasUpdate(Tail(q))
    BY <1>1, <1>2 DEF HasUpdate
  <1>4. Tail(q) # <<>> => Tail(q)[Len(Tail(q))] = q[Len(q)]
    <2> SUFFICES ASSUME Tail(q) # <<>> PROVE Tail(q)[Len(q) - 1] = q[Len(q)]
      BY <1>1
    <2>1. Len(q) - 1 # 0
      BY <1>1
    <2>2. Len(q) - 1 \in 1..(Len(q) - 1) /\ (Len(q) - 1) + 1 = Len(q)
      BY <1>1, <2>1
    <2> QED
      BY <1>1, <2>2
  <1>5. Tail(q) = <<>> => Head(q) = q[Len(q)]
    <2>1. \A t \in Seq(Events) : t = <<>> => Len(t) = 0
      OBVIOUS
    <2>2. Tail(q) = <<>> => Len(q) = 1
      <3>1. Tail(q) \in Seq(Events)
        OBVIOUS
      <3>2. Tail(q) = <<>> => Len(Tail(q)) = 0
        BY <2>1, <3>1, Zenon
      <3> QED
        BY <1>1, <3>2
    <2> QED
      BY <1>1, <2>2
  <1> QED
    BY <1>3, <1>4, <1>5

\* What an event appended to a sequence of events leaves there.
LEMMA Appending ==
    ASSUME NEW q \in Seq(Events), NEW e \in Events
    PROVE  /\ Append(q, e) \in Seq(Events) \ {<<>>}
           /\ Append(q, e)[Len(Append(q, e))] = e
           /\ HasUpdate(Append(q, e)) <=> HasUpdate(q) \/ IsUpdate(e)
  <1>1. /\ Len(q) \in Nat /\ Len(Append(q, e)) = Len(q) + 1 /\ Append(q, e)[Len(q) + 1] = e
        /\ \A i \in 1..Len(q) : Append(q, e)[i] = q[i]
    OBVIOUS
  <1>2. 1..(Len(q) + 1) = (1..Len(q)) \cup {Len(q) + 1}
    BY <1>1
  <1> QED
    BY <1>1, <1>2 DEF HasUpdate

\* A queue that takes an event ends with it, and loses an update only from its head.
LEMMA Offering ==
    ASSUME NEW q \in Seq(Events), NEW e \in Events
    PROVE  /\ Offer(q, e) # <<>> /\ Offer(q, e)[Len(Offer(q, e))] = e
           /\ IsUpdate(e) => HasUpdate(Offer(q, e))
           /\ HasUpdate(q) => \/ HasUpdate(Offer(q, e))
                              \/ Len(q) = QueueCap /\ IsUpdate(Head(q))
  <1>1. CASE Len(q) = QueueCap
    <2>1. q # <<>> /\ Tail(q) \in Seq(Events)
      BY <1>1, GraphAssumption
    <2> QED
      BY <1>1, <2>1, Taking, Appending DEF Offer
  <1>2. CASE Len(q) # QueueCap
    BY <1>2, Appending DEF Offer
  <1> QED
    BY <1>1, <1>2

\* The steps that touch neither the snapshot nor an event nor a client.
LEMMA QuietStep ==
    UNCHANGED <<snapshot, bus, streams>> /\ NewestCurrent /\ Informed
      => NewestCurrent' /\ Informed'
  BY DEF NewestCurrent, Informed, Carries, HasUpdate, streams

\* A refresh that changes the snapshot says so behind everything that waits.
LEMMA InstallInforms ==
    ASSUME TypeOK, NewestCurrent, Informed, Install PROVE NewestCurrent' /\ Informed'
  <1>1. /\ scan \in Snapshots /\ snapshot' = scan /\ bus \in Seq(Events)
        /\ UNCHANGED <<stream, conn, queue, shown, missed>>
    BY ScannedSnapshot DEF Install, Leave, streams, TypeOK
  <1>2. CASE bus' = Append(bus, Updated(scan))
    <2>1. /\ Updated(scan) \in Events /\ IsUpdate(Updated(scan)) /\ Updated(scan).snapshot = scan
      BY <1>1, EventTypes DEF IsUpdate, Updated
    <2>2. bus' # <<>> /\ bus'[Len(bus')] = Updated(scan) /\ HasUpdate(bus')
      BY <1>1, <1>2, <2>1, Appending
    <2>3. NewestCurrent'
      BY <1>1, <2>1, <2>2 DEF NewestCurrent, Carries
    <2> QED
      BY <1>1, <2>2, <2>3 DEF Informed
  <1>3. CASE bus' = bus /\ scan = snapshot
    BY <1>1, <1>3, QuietStep DEF streams
  <1> QED
    BY <1>2, <1>3 DEF Install

\* A node event behind everything changes nobody's prospects.
LEMMA PublishInforms ==
    ASSUME TypeOK, NewestCurrent, Informed, PublishNode PROVE NewestCurrent' /\ Informed'
  <1>1. /\ bus' = Append(bus, NodeEvent) /\ bus \in Seq(Events) /\ snapshot' = snapshot
        /\ UNCHANGED <<stream, conn, queue, shown, missed>>
    BY DEF PublishNode, TypeOK, index, streams
  <1>2. NodeEvent \in Events /\ ~IsUpdate(NodeEvent)
    BY EventTypes DEF IsUpdate, NodeEvent
  <1>3. /\ bus' # <<>> /\ bus'[Len(bus')] = NodeEvent
        /\ HasUpdate(bus) => HasUpdate(bus')
    BY <1>1, <1>2, Appending
  <1>4. NewestCurrent'
    BY <1>1, <1>2, <1>3 DEF NewestCurrent, Carries
  <1> QED
    BY <1>1, <1>3, <1>4 DEF Informed

\* An event goes from the bus into the queues; who loses an update is marked.
LEMMA FanoutInforms ==
    ASSUME TypeOK, NewestCurrent, Informed, Fanout PROVE NewestCurrent' /\ Informed'
  <1> DEFINE e == Head(bus)
  <1>1. /\ bus \in Seq(Events) /\ bus # <<>> /\ bus' = Tail(bus) /\ e \in Events
        /\ UNCHANGED <<snapshot, stream, conn, shown>>
    BY DEF Fanout, TypeOK, index
  <1>2. /\ \A c \in Clients : /\ queue[c] \in Seq(Events)
                              /\ queue'[c] = IF conn[c] = "live" THEN Offer(queue[c], e)
                                                                 ELSE queue[c]
                              /\ missed'[c] = (missed[c] \/ Lost(c, e))
    BY DEF Fanout, TypeOK
  <1>3. /\ HasUpdate(bus) => IsUpdate(e) \/ HasUpdate(bus')
        /\ bus' # <<>> => bus'[Len(bus')] = bus[Len(bus)]
        /\ bus' = <<>> => e = bus[Len(bus)]
    BY <1>1, Taking
  <1>4. Carries(bus[Len(bus)])
    BY <1>1 DEF NewestCurrent
  <1>5. NewestCurrent'
    <2>1. bus' # <<>> /\ IsUpdate(bus'[Len(bus')]) => bus'[Len(bus')].snapshot = snapshot'
      BY <1>1, <1>3, <1>4 DEF Carries
    <2>2. ASSUME NEW c \in Clients
          PROVE  /\ conn'[c] # "live" => queue'[c] = <<>>
                 /\ bus' = <<>> /\ queue'[c] # <<>> /\ IsUpdate(queue'[c][Len(queue'[c])]) =>
                      queue'[c][Len(queue'[c])].snapshot = snapshot'
      <3>1. CASE conn[c] = "live"
        <4>1. queue'[c][Len(queue'[c])] = e
          BY <1>1, <1>2, <3>1, Offering
        <4> QED
          BY <1>1, <1>3, <1>4, <3>1, <4>1 DEF Carries
      <3>2. CASE conn[c] # "live"
        BY <1>1, <1>2, <3>2 DEF NewestCurrent
      <3> QED
        BY <3>1, <3>2
    <2> QED
      BY <2>1, <2>2 DEF NewestCurrent, Carries
  <1>6. ASSUME NEW c \in Clients, ~missed'[c]
        PROVE  /\ conn'[c] = "gap" => shown'[c] = snapshot' \/ HasUpdate(bus')
               /\ conn'[c] = "live" /\ stream'[c] = "graph" =>
                    shown'[c] = snapshot' \/ HasUpdate(bus') \/ HasUpdate(queue'[c])
               /\ conn'[c] = "live" /\ bus' = <<>> /\ queue'[c] = <<>> => shown'[c] = snapshot'
    <2>1. ~missed[c] /\ ~Lost(c, e)
      BY <1>2, <1>6
    <2>2. CASE conn[c] = "gap"
      BY <1>1, <1>3, <2>1, <2>2 DEF Informed, Lost
    <2>3. CASE conn[c] = "live"
      <3>1. /\ queue'[c] = Offer(queue[c], e) /\ queue[c] \in Seq(Events)
            /\ queue'[c] # <<>>
            /\ IsUpdate(e) => HasUpdate(queue'[c])
            /\ HasUpdate(queue[c]) => \/ HasUpdate(queue'[c])
                                      \/ Len(queue[c]) = QueueCap /\ IsUpdate(Head(queue[c]))
        BY <1>1, <1>2, <2>3, Offering
      <3>2. Len(queue[c]) = QueueCap /\ IsUpdate(Head(queue[c])) /\ stream[c] = "graph"
              => IsUpdate(e)
        BY <2>1, <2>3 DEF Lost, Shows
      <3> QED
        BY <1>1, <1>3, <2>1, <2>3, <3>1, <3>2 DEF Informed
    <2> QED
      BY <1>1, <2>2, <2>3
  <1> QED
    BY <1>5, <1>6 DEF Informed

\* A client is sent an event: afterwards it shows the snapshot, or more is coming.
LEMMA DeliverInforms ==
    ASSUME TypeOK, NewestCurrent, Informed, NEW c \in Clients, Deliver(c)
    PROVE  NewestCurrent' /\ Informed'
  <1> DEFINE q == queue[c]
             e == Head(q)
  <1>1. /\ q \in Seq(Events) /\ q # <<>> /\ conn[c] = "live"
        /\ UNCHANGED <<snapshot, bus, stream, conn>>
    BY DEF Deliver, TypeOK, index
  <1>2. /\ queue'[c] = Tail(q)
        /\ shown'[c] = IF Shows(c, e) THEN Current(c, e) ELSE shown[c]
        /\ ~missed'[c] => ~missed[c] \/ Shows(c, e)
        /\ \A d \in Clients \ {c} : /\ queue'[d] = queue[d] /\ shown'[d] = shown[d]
                                    /\ missed'[d] = missed[d]
    BY DEF Deliver, TypeOK
  <1>3. /\ HasUpdate(q) => IsUpdate(e) \/ HasUpdate(Tail(q))
        /\ Tail(q) # <<>> => Tail(q)[Len(Tail(q))] = q[Len(q)]
        /\ Tail(q) = <<>> => e = q[Len(q)]
    BY <1>1, Taking
  <1>4. bus = <<>> => Carries(q[Len(q)])
    BY <1>1 DEF NewestCurrent
  <1>5. NewestCurrent'
    BY <1>1, <1>2, <1>3, <1>4 DEF NewestCurrent, Carries
  <1>6. ASSUME NEW d \in Clients, ~missed'[d]
        PROVE  /\ conn'[d] = "gap" => shown'[d] = snapshot' \/ HasUpdate(bus')
               /\ conn'[d] = "live" /\ stream'[d] = "graph" =>
                    shown'[d] = snapshot' \/ HasUpdate(bus') \/ HasUpdate(queue'[d])
               /\ conn'[d] = "live" /\ bus' = <<>> /\ queue'[d] = <<>> => shown'[d] = snapshot'
    <2>1. CASE d # c
      BY <1>1, <1>2, <1>6, <2>1 DEF Informed
    <2>2. CASE d = c /\ stream[c] = "graph"
      <3>1. Shows(c, e) <=> IsUpdate(e)
        BY <2>2 DEF Shows
      <3>2. IsUpdate(e) => shown'[c] = snapshot
        BY <1>2, <2>2, <3>1 DEF Current
      <3>3. ~IsUpdate(e) => shown'[c] = shown[c] /\ ~missed[c]
        BY <1>2, <1>6, <2>2, <3>1
      <3>4. shown'[c] = snapshot \/ HasUpdate(bus) \/ HasUpdate(Tail(q))
        BY <1>1, <1>3, <2>2, <3>2, <3>3 DEF Informed
      <3>5. ~HasUpdate(<<>>)
        BY DEF HasUpdate
      <3> QED
        BY <1>1, <1>2, <2>2, <3>4, <3>5
    <2>3. CASE d = c /\ stream[c] # "graph"
      <3>1. shown'[c] = IF IsUpdate(e) THEN e.snapshot ELSE snapshot
        BY <1>2, <2>3 DEF Shows, Current, TypeOK
      <3>2. bus = <<>> /\ Tail(q) = <<>> => shown'[c] = snapshot
        BY <1>3, <1>4, <3>1 DEF Carries
      <3> QED
        BY <1>1, <1>2, <2>3, <3>2
    <2> QED
      BY <2>1, <2>2, <2>3
  <1> QED
    BY <1>5, <1>6 DEF Informed

\* A connection begins with the snapshot and an empty queue.
LEMMA ConnectionInforms ==
    ASSUME TypeOK, NewestCurrent, Informed, NEW c \in Clients,
           Connect(c) \/ Subscribe(c) \/ Hangup(c)
    PROVE  NewestCurrent' /\ Informed'
  <1>1. UNCHANGED <<snapshot, bus, stream>>
    BY DEF Connect, Subscribe, Hangup, index
  <1>2. ~HasUpdate(<<>>)
    BY DEF HasUpdate
  <1>3. CASE Connect(c)
    BY <1>1, <1>3 DEF Connect, NewestCurrent, Informed, Carries, TypeOK
  <1>4. CASE Subscribe(c)
    BY <1>1, <1>2, <1>4 DEF Subscribe, NewestCurrent, Informed, Carries, TypeOK
  <1>5. CASE Hangup(c)
    BY <1>1, <1>5 DEF Hangup, NewestCurrent, Informed, Carries, TypeOK
  <1> QED
    BY <1>3, <1>4, <1>5

\* Every step keeps the prospects of every client.
LEMMA StepInforms == TypeOK /\ NewestCurrent /\ Informed /\ [Next]_vars => NewestCurrent' /\ Informed'
  <1> SUFFICES ASSUME TypeOK, NewestCurrent, Informed, [Next]_vars
               PROVE  NewestCurrent' /\ Informed'
    OBVIOUS
  <1>1. CASE Restart
    <2>1. /\ bus' = <<>> /\ \A c \in Clients : conn'[c] = "off" /\ queue'[c] = <<>>
      BY <1>1 DEF Restart
    <2> QED
      BY <2>1 DEF NewestCurrent, Informed
  <1>2. CASE \/ Notice \/ Fire \/ Save \/ Fail \/ UNCHANGED vars
             \/ \E f \in Files : Edit(f) \/ ReadFile(f)
             \/ \E t \in Threads : Enter(t)
    <2>1. UNCHANGED <<snapshot, bus, streams>>
      BY <1>2 DEF Notice, Fire, Save, Fail, Edit, ReadFile, Enter, vars, index
    <2> QED
      BY <2>1, QuietStep
  <1>3. CASE \E c \in Clients : Connect(c) \/ Subscribe(c) \/ Deliver(c) \/ Hangup(c)
    BY <1>3, ConnectionInforms, DeliverInforms
  <1> QED
    BY <1>1, <1>2, <1>3, InstallInforms, PublishInforms, FanoutInforms DEF Next

\* A client that was sent everything shows the current snapshot, unless it is known to
\* have missed an update (main.py 261-265, graph_index.py 368-377).
THEOREM QuietClientsAreCurrent == Spec => []QuietMeansCurrent
  <1>1. Init => NewestCurrent /\ Informed
    BY DEF Init, NewestCurrent, Informed
  <1>2. Informed => QuietMeansCurrent
    BY DEF Informed, QuietMeansCurrent
  <1> QED
    BY <1>1, <1>2, StepInforms, TypeCorrect, PTL DEF Spec
=============================================================================
