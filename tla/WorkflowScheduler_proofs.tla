----------------------- MODULE WorkflowScheduler_proofs -----------------------
(***************************************************************************)
(* For every set of stages, every graph and every concurrency limit: the   *)
(* bookkeeping of WorkflowScheduler is exact, and the scheduler implements *)
(* the abstract execution of DagExecution.                                 *)
(***************************************************************************)
EXTENDS WorkflowScheduler, FiniteSetTheorems, TLAPS

\* A stage a worker carries is nobody else's: not queued, without a result,
\* carried by one worker only, and all its dependencies have results.
CarriedStages ==
    /\ \A w \in Workers : pc[w] \in Carrying =>
         /\ cur[w] \in Stages \ (ready \cup results)
         /\ wf.deps[cur[w]] \subseteq results
    /\ \A v, w \in Workers :
         v # w /\ pc[v] \in Carrying /\ pc[w] \in Carrying => cur[v] # cur[w]

\* A queued stage can start: its dependencies have results and it never ran.
QueuedStages ==
    \A s \in ready : wf.deps[s] \subseteq results /\ s \notin results \cup entered

\* Stages with a result, or whose runner was called, had their dependencies.
PastStages ==
    /\ \A s \in results \cup entered : wf.deps[s] \subseteq results
    /\ \A w \in Workers : pc[w] \in {"starting", "lock"} => cur[w] \notin entered

\* An effect lock is held exactly by the worker running a stage of the effect.
LocksHeld ==
    /\ \A e \in Locks : lock[e] # None =>
         lock[e] \in Workers /\ pc[lock[e]] = "run" /\ wf.effect[cur[lock[e]]] = e
    /\ \A w \in Workers : pc[w] = "run" /\ wf.effect[cur[w]] \in Locks =>
         lock[wf.effect[cur[w]]] = w

\* The inductive invariant.
IInv == /\ TypeOK
        /\ IndegreeExact
        /\ CarriedStages
        /\ QueuedStages
        /\ PastStages
        /\ LocksHeld

-----------------------------------------------------------------------------
(* Facts about the data.                                                   *)

\* The graph of an admitted workflow is a function to sets of stages.
LEMMA WorkflowType ==
  ASSUME wf \in Workflows
  PROVE  /\ wf.deps \in [Stages -> SUBSET Stages]
         /\ wf.effect \in [Stages -> Effects]
  BY SchedulerAssumption

\* Removing one member of a set of stages lowers its cardinality by one.
LEMMA RemoveOne ==
  ASSUME NEW S \in SUBSET Stages, NEW x \in S
  PROVE  /\ Cardinality(S) \in Nat \ {0}
         /\ Cardinality(S \ {x}) = Cardinality(S) - 1
<1>1. IsFiniteSet(S)
  BY SchedulerAssumption, FS_Subset
<1>2. Cardinality(S) \in Nat /\ (Cardinality(S) = 0 <=> S = {})
  BY <1>1, FS_CardinalityType, FS_EmptySet
<1>3. Cardinality(S \ {x}) = Cardinality(S) - 1
  BY <1>1, FS_RemoveElement
<1> QED BY <1>2, <1>3

\* A stage with one missing dependency, whose dependency s gets its result, has
\* no missing dependency left.
LEMMA LastDependency ==
  ASSUME NEW S \in SUBSET Stages, NEW x \in S, Cardinality(S) = 1
  PROVE  S = {x}
<1>1. IsFiniteSet(S \ {x})
  BY SchedulerAssumption, FS_Subset
<1>2. Cardinality(S \ {x}) = 0
  BY RemoveOne
<1>3. S \ {x} = {}
  BY <1>1, <1>2, FS_EmptySet
<1> QED BY <1>3

\* The cardinality of a set of stages is a natural number.
LEMMA CardinalityOfStages ==
  ASSUME NEW S \in SUBSET Stages
  PROVE  Cardinality(S) \in Nat
<1>1. IsFiniteSet(S)
  BY SchedulerAssumption, FS_Subset
<1> QED BY <1>1, FS_CardinalityType

-----------------------------------------------------------------------------
\* Nothing has a result and the stages without dependencies are queued.
LEMMA InitIInv == Init => IInv
<1> SUFFICES ASSUME Init PROVE IInv
  OBVIOUS
<1> USE DEF Init
<1>1. wf.deps \in [Stages -> SUBSET Stages]
  BY WorkflowType
<1>2. \A s \in Stages : Cardinality(wf.deps[s]) \in Nat /\ wf.deps[s] \ {} = wf.deps[s]
  BY <1>1, CardinalityOfStages
<1>3. TypeOK
  <2>1. completedOrder \in Seq(Stages)
    OBVIOUS
  <2>2. indegree \in [Stages -> Nat]
    BY <1>2
  <2>3. status \in [Stages -> Statuses]
    BY DEF Statuses
  <2> QED BY <2>1, <2>2, <2>3 DEF TypeOK, MainLabels, WorkerLabels
<1>4. IndegreeExact
  BY <1>2 DEF IndegreeExact
<1>5. CarriedStages /\ QueuedStages /\ PastStages /\ LocksHeld
  BY DEF CarriedStages, QueuedStages, PastStages, LocksHeld, Carrying
<1> QED BY <1>3, <1>4, <1>5 DEF IInv

-----------------------------------------------------------------------------
(* A worker that moves without touching the queue, the results or `cur'.   *)

\* A move that changes nothing but one worker's place, where the new place
\* carries no stage (and its lock is given back), or is the wait for the lock.
LEMMA MoveKeepsIInv ==
  ASSUME IInv, NEW w \in Workers, NEW l \in WorkerLabels,
         pc' = [pc EXCEPT ![w] = l],
         \/ l \notin Carrying
         \/ pc[w] = "starting" /\ l = "lock"
         \/ pc[w] = "run" /\ l = "failing",
         lock' = Unlocked(w),
         main' \in MainLabels, failure' \in Stages \cup {None},
         allDone' \in BOOLEAN, cancelled' \in BOOLEAN, kill' \subseteq Workers,
         status' \in [Stages -> Statuses],
         UNCHANGED <<wf, indegree, ready, results, completedOrder, cur, entered>>
  PROVE  IInv'
<1> USE DEF IInv
<1>1. TypeOK'
  BY DEF TypeOK, Unlocked
<1>2. IndegreeExact'
  BY DEF IndegreeExact
<1>3. CarriedStages'
  BY DEF CarriedStages, TypeOK, Carrying
<1>4. QueuedStages'
  BY DEF QueuedStages
<1>5. PastStages'
  BY DEF PastStages, TypeOK, Carrying
<1>6. LocksHeld'
  <2>1. ASSUME NEW e \in Locks, lock'[e] # None
        PROVE  lock'[e] \in Workers /\ pc'[lock'[e]] = "run" /\ wf.effect[cur[lock'[e]]] = e
    <3>1. lock'[e] = lock[e] /\ lock[e] # w
      BY <2>1 DEF Unlocked
    <3> QED BY <2>1, <3>1 DEF LocksHeld, TypeOK
  <2>2. ASSUME NEW v \in Workers, pc'[v] = "run", wf.effect[cur[v]] \in Locks
        PROVE  lock'[wf.effect[cur[v]]] = v
    <3>1. v # w /\ pc[v] = "run"
      BY <2>2 DEF TypeOK, Carrying
    <3> QED BY <2>2, <3>1 DEF LocksHeld, Unlocked
  <2> QED BY <2>1, <2>2 DEF LocksHeld
<1> QED BY <1>1, <1>2, <1>3, <1>4, <1>5, <1>6

\* A worker that runs nothing holds no lock.
LEMMA NothingToUnlock ==
  ASSUME IInv, NEW w \in Workers, pc[w] # "run"
  PROVE  lock = Unlocked(w)
<1>1. \A e \in Locks : lock[e] # w
  BY NoneIsNoWorker DEF IInv, LocksHeld
<1> QED BY <1>1 DEF IInv, TypeOK, Unlocked

-----------------------------------------------------------------------------
(* The steps of a worker.                                                  *)

\* The head of the loop and its poll.
LEMMA LoopKeepsIInv ==
  ASSUME IInv, NEW w \in Workers, Loop(w) \/ PollTimeout(w)
  PROVE  IInv'
<1>1. lock = Unlocked(w)
  BY NothingToUnlock DEF Loop, PollTimeout, At
<1>2. \E l \in {"exit", "get", "top"} : pc' = [pc EXCEPT ![w] = l]
  BY DEF Loop, PollTimeout, Goto
<1>3. PICK l \in {"exit", "get", "top"} : pc' = [pc EXCEPT ![w] = l]
  BY <1>2
<1>4. l \in WorkerLabels /\ l \notin Carrying
  BY DEF WorkerLabels, Carrying
<1> QED
  BY <1>1, <1>3, <1>4, MoveKeepsIInv
  DEF Loop, PollTimeout, progress, IInv, TypeOK

\* Where a worker is after it handed an event to the sink.
LEMMA EmitMoves ==
  ASSUME NEW w, NEW type, NEW s, NEW emitting, NEW next, NEW d \in BOOLEAN,
         Emit(w, type, s, emitting, next, d)
  PROVE  /\ \E l \in {emitting, next, "exit"} : pc' = [pc EXCEPT ![w] = l]
         /\ allDone' \in BOOLEAN
         /\ d => allDone'
  BY DEF Emit, Taken, SinkRaised, Goto

\* A stage is taken from the queue: it becomes the worker's.
LEMMA TakeKeepsIInv ==
  ASSUME IInv, NEW w \in Workers, NEW s \in ready, Take(w, s)
  PROVE  IInv'
<1> USE DEF IInv
<1>1. PICK l \in {"starting", "lock", "exit"} : pc' = [pc EXCEPT ![w] = l]
  BY EmitMoves DEF Take, TypeOK
<1>2. allDone' \in BOOLEAN
  BY EmitMoves DEF Take, TypeOK
<1>3. /\ pc[w] = "get" /\ s \in Stages
      /\ ready' = ready \ {s}
      /\ status' = [status EXCEPT ![s] = "running"]
      /\ cur' = [cur EXCEPT ![w] = s]
      /\ UNCHANGED <<wf, main, indegree, results, completedOrder, failure,
                     cancelled, lock, kill, entered>>
  BY DEF Take, At, TypeOK
<1>4. TypeOK'
  BY <1>1, <1>2, <1>3 DEF TypeOK, WorkerLabels, Statuses
<1>5. IndegreeExact'
  BY <1>3 DEF IndegreeExact
<1>6. CarriedStages'
  <2>1. \A v \in Workers : v # w /\ pc'[v] \in Carrying => pc[v] \in Carrying /\ cur'[v] = cur[v] /\ cur[v] # s
    BY <1>1, <1>3 DEF TypeOK, CarriedStages
  <2>2. cur'[w] = s /\ s \in Stages \ (ready' \cup results) /\ wf.deps[s] \subseteq results
    BY <1>3 DEF TypeOK, QueuedStages
  <2> QED BY <1>3, <2>1, <2>2 DEF CarriedStages
<1>7. QueuedStages'
  BY <1>3 DEF QueuedStages
<1>8. PastStages'
  BY <1>1, <1>3 DEF PastStages, QueuedStages, TypeOK
<1>9. LocksHeld'
  <2>1. \A e \in Locks : lock[e] # w
    BY <1>3, NoneIsNoWorker DEF LocksHeld
  <2>2. \A v \in Workers : (pc'[v] = "run") = (pc[v] = "run") /\ (v # w => cur'[v] = cur[v])
    BY <1>1, <1>3 DEF TypeOK
  <2> QED BY <1>1, <1>3, <2>1, <2>2 DEF LocksHeld, TypeOK
<1> QED BY <1>4, <1>5, <1>6, <1>7, <1>8, <1>9

\* The worker gets the lock of its stage's effect and calls the runner.
LEMMA EnterRunnerKeepsIInv ==
  ASSUME IInv, NEW w \in Workers, EnterRunner(w)
  PROVE  IInv'
<1> USE DEF IInv
<1> DEFINE e == wf.effect[cur[w]]
<1>1. /\ pc[w] = "lock"
      /\ pc' = [pc EXCEPT ![w] = "run"]
      /\ entered' = entered \cup {cur[w]}
      /\ UNCHANGED <<wf, main, status, indegree, ready, results, completedOrder,
                     failure, allDone, cancelled, cur, kill>>
  BY DEF EnterRunner, At, Goto, progress
<1>2. \/ e \in Locks /\ lock[e] = None /\ lock' = [lock EXCEPT ![e] = w]
      \/ e \notin Locks /\ lock' = lock
  BY DEF EnterRunner
<1>3. cur[w] \in Stages \ (ready \cup results) /\ wf.deps[cur[w]] \subseteq results
  BY <1>1 DEF CarriedStages, Carrying
<1>4. TypeOK'
  BY <1>1, <1>2, <1>3 DEF TypeOK, WorkerLabels
<1>5. IndegreeExact'
  BY <1>1 DEF IndegreeExact
<1>6. CarriedStages'
  BY <1>1 DEF CarriedStages, TypeOK, Carrying
<1>7. QueuedStages'
  BY <1>1, <1>3 DEF QueuedStages
<1>8. PastStages'
  BY <1>1, <1>3 DEF PastStages, CarriedStages, TypeOK, Carrying
<1>9. LocksHeld'
  BY <1>1, <1>2, NoneIsNoWorker DEF LocksHeld, TypeOK
<1> QED BY <1>4, <1>5, <1>6, <1>7, <1>8, <1>9

\* The runner returned: the heart of Kahn's algorithm.
LEMMA SucceedKeepsIInv ==
  ASSUME IInv, NEW w \in Workers, Succeed(w)
  PROVE  IInv'
<1> USE DEF IInv
<1> DEFINE s == cur[w]
           freed == {t \in Dependents(s) : indegree[t] = 1}
<1>1. /\ \E l \in {"completing", "top", "exit"} : pc' = [pc EXCEPT ![w] = l]
      /\ allDone' \in BOOLEAN
  <2>1. Emit(w, "stage.completed", s, "completing", "top", allDone \/ results' = Stages)
    BY DEF Succeed
  <2> QED BY <2>1 DEF Emit, Taken, SinkRaised, Goto, TypeOK
<1>2. PICK l \in {"completing", "top", "exit"} : pc' = [pc EXCEPT ![w] = l]
  BY <1>1
<1>3. /\ pc[w] = "run"
      /\ lock' = Unlocked(w)
      /\ results' = results \cup {s}
      /\ completedOrder' = Append(completedOrder, s)
      /\ indegree' = [t \in Stages |-> IF t \in Dependents(s)
                                       THEN indegree[t] - 1 ELSE indegree[t]]
      /\ status' = [t \in Stages |-> IF t = s THEN "succeeded"
                                     ELSE IF t \in freed THEN "ready" ELSE status[t]]
      /\ ready' = ready \cup freed
      /\ UNCHANGED <<wf, main, failure, cancelled, cur, kill, entered>>
  BY DEF Succeed, Freed, At
<1>4. s \in Stages \ (ready \cup results) /\ wf.deps[s] \subseteq results
  BY <1>3 DEF CarriedStages, Carrying
<1>5. wf.deps \in [Stages -> SUBSET Stages]
  BY WorkflowType DEF TypeOK
<1>6. \A t \in Stages :
        /\ indegree'[t] = Cardinality(wf.deps[t] \ results')
        /\ indegree'[t] \in Nat
  <2> SUFFICES ASSUME NEW t \in Stages
               PROVE  /\ indegree'[t] = Cardinality(wf.deps[t] \ results')
                      /\ indegree'[t] \in Nat
    OBVIOUS
  <2>1. CASE s \in wf.deps[t]
    <3>1. s \in wf.deps[t] \ results /\ wf.deps[t] \ results \in SUBSET Stages
      BY <1>4, <1>5, <2>1
    <3>2. wf.deps[t] \ results' = (wf.deps[t] \ results) \ {s}
      BY <1>3
    <3>3. /\ Cardinality(wf.deps[t] \ results) \in Nat \ {0}
          /\ Cardinality((wf.deps[t] \ results) \ {s}) = Cardinality(wf.deps[t] \ results) - 1
      BY <3>1, RemoveOne
    <3>4. indegree'[t] = indegree[t] - 1
      BY <1>3, <2>1 DEF Dependents
    <3>5. indegree[t] = Cardinality(wf.deps[t] \ results)
      BY DEF IndegreeExact
    <3>6. ASSUME NEW n \in Nat \ {0} PROVE n - 1 \in Nat
      OBVIOUS
    <3>7. indegree'[t] = Cardinality((wf.deps[t] \ results) \ {s})
      BY <3>3, <3>4, <3>5
    <3> QED BY <3>2, <3>3, <3>6, <3>7
  <2>2. CASE s \notin wf.deps[t]
    <3>1. wf.deps[t] \ results' = wf.deps[t] \ results
      BY <1>3, <2>2
    <3>2. indegree'[t] = indegree[t]
      BY <1>3, <2>2 DEF Dependents
    <3> QED BY <3>1, <3>2 DEF IndegreeExact, TypeOK
  <2> QED BY <2>1, <2>2
<1>7. \A t \in freed : t \in Stages /\ wf.deps[t] \ results = {s}
  <2> SUFFICES ASSUME NEW t \in freed
               PROVE  t \in Stages /\ wf.deps[t] \ results = {s}
    OBVIOUS
  <2>1. t \in Stages /\ s \in wf.deps[t] \ results /\ wf.deps[t] \ results \in SUBSET Stages
    BY <1>4, <1>5 DEF Dependents
  <2>2. Cardinality(wf.deps[t] \ results) = 1
    BY <2>1 DEF IndegreeExact
  <2> QED BY <2>1, <2>2, LastDependency
<1>8. \A t \in freed : /\ wf.deps[t] \subseteq results'
                       /\ t \notin results' /\ t \notin entered /\ t \notin ready
                       /\ \A v \in Workers : pc[v] \in Carrying => cur[v] # t
  <2> SUFFICES ASSUME NEW t \in freed
               PROVE  /\ wf.deps[t] \subseteq results'
                      /\ t \notin results' /\ t \notin entered /\ t \notin ready
                      /\ \A v \in Workers : pc[v] \in Carrying => cur[v] # t
    OBVIOUS
  <2>1. ~(wf.deps[t] \subseteq results)
    BY <1>7
  <2>2. wf.deps[t] \subseteq results'
    BY <1>3, <1>7
  <2> QED BY <1>3, <1>4, <2>1, <2>2 DEF PastStages, QueuedStages, CarriedStages
<1>9. TypeOK'
  <2>1. indegree' \in [Stages -> Nat]
    BY <1>3, <1>6
  <2>2. completedOrder' \in Seq(Stages)
    BY <1>3, <1>4 DEF TypeOK
  <2>3. pc' \in [Workers -> WorkerLabels]
    BY <1>2 DEF TypeOK, WorkerLabels
  <2>4. status' \in [Stages -> Statuses]
    BY <1>3 DEF TypeOK, Statuses
  <2>5. ready' \subseteq Stages /\ results' \subseteq Stages
    BY <1>3, <1>4, <1>7 DEF TypeOK
  <2> QED BY <1>1, <1>3, <2>1, <2>2, <2>3, <2>4, <2>5 DEF TypeOK, Unlocked
<1>10. IndegreeExact'
  BY <1>3, <1>6 DEF IndegreeExact
<1>11. \A v \in Workers : pc'[v] \in Carrying => v # w /\ pc[v] \in Carrying /\ pc'[v] = pc[v]
  BY <1>2 DEF TypeOK, Carrying
<1>12. CarriedStages'
  <2>1. ASSUME NEW v \in Workers, pc'[v] \in Carrying
        PROVE  /\ cur[v] \in Stages \ (ready' \cup results')
               /\ wf.deps[cur[v]] \subseteq results'
    <3>1. v # w /\ pc[v] \in Carrying
      BY <1>11, <2>1
    <3>2. cur[v] # s
      BY <1>3, <3>1 DEF CarriedStages, Carrying
    <3>3. cur[v] \notin freed
      BY <1>8, <3>1
    <3> QED BY <1>3, <3>1, <3>2, <3>3 DEF CarriedStages
  <2> QED BY <1>3, <1>11, <2>1 DEF CarriedStages
<1>13. QueuedStages'
  <2>1. ASSUME NEW t \in ready
        PROVE  wf.deps[t] \subseteq results' /\ t \notin results' \cup entered
    BY <1>3, <1>4 DEF QueuedStages
  <2> QED BY <1>3, <1>8, <2>1 DEF QueuedStages
<1>14. PastStages'
  BY <1>3, <1>4, <1>11 DEF PastStages, Carrying
<1>15. LocksHeld'
  <2>1. ASSUME NEW e \in Locks, lock'[e] # None
        PROVE  lock'[e] \in Workers /\ pc'[lock'[e]] = "run" /\ wf.effect[cur[lock'[e]]] = e
    <3>1. lock'[e] = lock[e] /\ lock[e] # w
      BY <1>3, <2>1 DEF Unlocked
    <3> QED BY <1>2, <2>1, <3>1 DEF LocksHeld, TypeOK
  <2>2. ASSUME NEW v \in Workers, pc'[v] = "run", wf.effect[cur[v]] \in Locks
        PROVE  lock'[wf.effect[cur[v]]] = v
    <3>1. v # w /\ pc[v] = "run"
      BY <1>11, <2>2 DEF Carrying
    <3> QED BY <1>3, <2>2, <3>1 DEF LocksHeld, Unlocked
  <2> QED BY <1>3, <2>1, <2>2 DEF LocksHeld
<1> QED BY <1>9, <1>10, <1>12, <1>13, <1>14, <1>15

\* The runner raised, on its own account or meeting a cancellation.
LEMMA RaisedKeepsIInv ==
  ASSUME IInv, NEW w \in Workers, pc[w] = "run", RunnerRaised(w), kill' \subseteq kill
  PROVE  IInv'
<1>1. /\ \E l \in {"failing", "exit"} : pc' = [pc EXCEPT ![w] = l]
      /\ allDone' \in BOOLEAN
  BY DEF RunnerRaised, Emit, Taken, SinkRaised, Goto, IInv, TypeOK
<1>2. PICK l \in {"failing", "exit"} : pc' = [pc EXCEPT ![w] = l]
  BY <1>1
<1>3. cur[w] \in Stages
  BY DEF IInv, CarriedStages, Carrying
<1>4. /\ status' \in [Stages -> Statuses]
      /\ failure' \in Stages \cup {None}
      /\ lock' = Unlocked(w)
  BY <1>3 DEF RunnerRaised, IInv, TypeOK, Statuses
<1>5. l \in WorkerLabels /\ (l \notin Carrying \/ l = "failing")
  BY DEF WorkerLabels, Carrying
<1> QED
  BY <1>1, <1>2, <1>4, <1>5, MoveKeepsIInv DEF RunnerRaised, IInv, TypeOK

\* The sink takes a pending event, or raises.
LEMMA DeliverKeepsIInv ==
  ASSUME IInv, NEW w \in Workers, NEW type, NEW emitting, NEW next,
         Deliver(w, emitting, type, next),
         \/ emitting = "starting" /\ next = "lock"
         \/ emitting = "completing" /\ next = "top"
         \/ emitting = "failing" /\ next = "exit"
  PROVE  IInv'
<1>1. /\ \E l \in {next, "exit"} : pc' = [pc EXCEPT ![w] = l]
      /\ allDone' \in BOOLEAN
  BY DEF Deliver, Taken, SinkRaised, Goto, IInv, TypeOK
<1>2. PICK l \in {next, "exit"} : pc' = [pc EXCEPT ![w] = l]
  BY <1>1
<1>3. pc[w] = emitting
  BY DEF Deliver, At
<1>4. l \in WorkerLabels /\ (l \notin Carrying \/ (pc[w] = "starting" /\ l = "lock"))
  BY <1>3 DEF WorkerLabels, Carrying
<1>5. lock = Unlocked(w)
  BY <1>3, NothingToUnlock
<1> QED
  BY <1>1, <1>2, <1>4, <1>5, MoveKeepsIInv DEF Deliver, progress, IInv, TypeOK

\* A pending CancelledError ends the worker.
LEMMA KilledKeepsIInv ==
  ASSUME IInv, NEW w \in Workers, Killed(w)
  PROVE  IInv'
<1>1. "exit" \in WorkerLabels /\ "exit" \notin Carrying
  BY DEF WorkerLabels, Carrying
<1> QED
  BY <1>1, MoveKeepsIInv DEF Killed, Goto, progress, IInv, TypeOK

\* Every step of a worker keeps the invariant.
LEMMA WorkerKeepsIInv ==
  ASSUME IInv, NEW w \in Workers, Worker(w)
  PROVE  IInv'
<1>1. CASE Loop(w) \/ PollTimeout(w)
  BY <1>1, LoopKeepsIInv
<1>2. CASE \E s \in ready : Take(w, s)
  BY <1>2, TakeKeepsIInv
<1>3. CASE EnterRunner(w)
  BY <1>3, EnterRunnerKeepsIInv
<1>4. CASE Succeed(w)
  BY <1>4, SucceedKeepsIInv
<1>5. CASE Fail(w) \/ KilledRaise(w)
  BY <1>5, RaisedKeepsIInv DEF Fail, KilledRaise, At
<1>6. CASE Deliver(w, "starting", "stage.started", "lock")
  BY <1>6, DeliverKeepsIInv
<1>7. CASE Deliver(w, "completing", "stage.completed", "top")
  BY <1>7, DeliverKeepsIInv
<1>8. CASE Deliver(w, "failing", "stage.failed", "exit")
  BY <1>8, DeliverKeepsIInv
<1>9. CASE Killed(w)
  BY <1>9, KilledKeepsIInv
<1> QED BY <1>1, <1>2, <1>3, <1>4, <1>5, <1>6, <1>7, <1>8, <1>9 DEF Worker

-----------------------------------------------------------------------------
(* The life of the workers as the coroutine of execute sees it.            *)

\* Only gather cancels workers, and execute returns when all of them ended.
Lifetimes ==
    /\ main = "validate" => \A w \in Workers : pc[w] = "unborn"
    /\ main \in {"validate", "wait"} => kill = {}
    /\ \A w \in kill : pc[w] # "exit"
    /\ main \in {"completed", "cancelled", "failed"} =>
         \A w \in Workers : pc[w] = "exit"

\* Every step keeps the order of spawn, join and return.
LEMMA NextLifetimes == TypeOK /\ Lifetimes /\ [Next]_vars => Lifetimes'
<1> SUFFICES ASSUME TypeOK, Lifetimes, [Next]_vars PROVE Lifetimes'
  OBVIOUS
<1> USE DEF TypeOK, Lifetimes
<1>1. ASSUME NEW w \in Workers, Worker(w) PROVE Lifetimes'
  <2>1. main' = main
    BY <1>1 DEF Worker, Loop, PollTimeout, Take, EnterRunner, Succeed, Fail,
                KilledRaise, RunnerRaised, Deliver, Killed
  <2>2. \E l \in WorkerLabels : pc' = [pc EXCEPT ![w] = l]
    BY <1>1 DEF Worker, Loop, PollTimeout, Take, EnterRunner, Succeed, Fail, Killed,
                KilledRaise, RunnerRaised, Deliver, Emit, Taken, SinkRaised, Goto, WorkerLabels
  <2>3. kill' = kill \/ (w \in kill /\ kill' = kill \ {w})
    BY <1>1 DEF Worker, Loop, PollTimeout, Take, EnterRunner, Succeed, Fail,
                KilledRaise, RunnerRaised, Deliver, Killed
  <2>4. pc[w] \notin {"exit", "unborn"} \/ w \in kill
    BY <1>1 DEF Worker, Loop, PollTimeout, Take, EnterRunner, Succeed, Fail,
                KilledRaise, RunnerRaised, Deliver, Killed, At
  <2>5. w \notin kill'
    BY <1>1 DEF Worker, Loop, PollTimeout, Take, EnterRunner, Succeed, Fail,
                KilledRaise, RunnerRaised, Deliver, Killed, At
  <2>6. pc[w] # "exit"
    BY <2>4
  <2>7. main # "validate"
    BY <2>4
  <2> QED BY <2>1, <2>2, <2>3, <2>5, <2>6, <2>7
<1>2. CASE Main
  BY <1>2 DEF Main, Reject, Spawn, Join, ReturnCancelled, RaiseFailure,
              ReturnCompleted, SinkRaisesInMain, Joined, MainLabels
<1>3. CASE SetCancel \/ Abort
  BY <1>3 DEF SetCancel, Abort
<1>4. CASE UNCHANGED vars
  BY <1>4 DEF vars
<1> QED BY <1>1, <1>2, <1>3, <1>4 DEF Next

\* What a step that does not move a worker may change.
LEMMA MainKeepsIInv ==
  ASSUME IInv, main' \in MainLabels, status' \in [Stages -> Statuses],
         cancelled' \in BOOLEAN, kill' \subseteq Workers,
         UNCHANGED <<wf, indegree, ready, results, completedOrder, failure,
                     allDone, lock, pc, cur, entered>>
  PROVE  IInv'
  BY DEF IInv, TypeOK, IndegreeExact, CarriedStages, QueuedStages, PastStages, LocksHeld

\* Every step keeps the invariant.
LEMMA NextIInv == IInv /\ Lifetimes /\ [Next]_vars => IInv'
<1> SUFFICES ASSUME IInv, Lifetimes, [Next]_vars PROVE IInv'
  OBVIOUS
<1>1. CASE Spawn
  <2>1. \A w \in Workers : pc[w] = "unborn"
    BY <1>1 DEF Spawn, Lifetimes
  <2>2. /\ pc' = [w \in Workers |-> "top"] /\ main' = "wait"
        /\ UNCHANGED <<wf, progress, failure, allDone, cancelled, lock, cur, kill, entered>>
    BY <1>1 DEF Spawn
  <2>3. TypeOK'
    BY <2>2 DEF IInv, TypeOK, progress, MainLabels, WorkerLabels
  <2> QED
    BY <2>1, <2>2, <2>3
    DEF IInv, IndegreeExact, CarriedStages, QueuedStages, PastStages, LocksHeld,
        progress, Carrying
<1>2. CASE Reject \/ Join \/ Abort \/ SetCancel
  BY <1>2, MainKeepsIInv
  DEF Reject, Join, Abort, SetCancel, IInv, TypeOK, MainLabels, progress
<1>3. CASE ReturnCancelled \/ RaiseFailure \/ ReturnCompleted \/ SinkRaisesInMain
  <2>1. status' \in [Stages -> Statuses]
    BY <1>3 DEF ReturnCancelled, RaiseFailure, ReturnCompleted, SinkRaisesInMain,
                Settle, progress, IInv, TypeOK, Statuses
  <2> QED
    BY <1>3, <2>1, MainKeepsIInv
    DEF ReturnCancelled, RaiseFailure, ReturnCompleted, SinkRaisesInMain, IInv,
        TypeOK, MainLabels, progress
<1>4. ASSUME NEW w \in Workers, Worker(w) PROVE IInv'
  BY <1>4, WorkerKeepsIInv
<1>5. CASE UNCHANGED vars
  BY <1>5, MainKeepsIInv DEF vars, progress, IInv, TypeOK
<1> QED BY <1>1, <1>2, <1>3, <1>4, <1>5 DEF Next, Main

\* The invariant and the lifetimes hold in every reachable state.
THEOREM Invariant == Spec => [](IInv /\ Lifetimes)
<1>1. Init => Lifetimes
  BY DEF Init, Lifetimes
<1>2. IInv => TypeOK
  BY DEF IInv
<1> QED BY <1>1, <1>2, InitIInv, NextIInv, NextLifetimes, PTL DEF Spec

\* Every state has the declared types.
THEOREM TypeCorrect == Spec => []TypeOK
<1>1. IInv => TypeOK
  BY DEF IInv
<1> QED BY <1>1, Invariant, PTL

\* The counters of Kahn's algorithm are exact in every interleaving.
THEOREM IndegreesAreExact == Spec => []IndegreeExact
<1>1. IInv => IndegreeExact
  BY DEF IInv
<1> QED BY <1>1, Invariant, PTL

\* When execute returned, its workers have ended and the effect locks are free.
THEOREM ReturnedIsQuiet == Spec => []ReturnMeansQuiet
<1>1. IInv /\ Lifetimes => ReturnMeansQuiet
  <2> SUFFICES ASSUME IInv, Lifetimes, main \in {"completed", "cancelled", "failed"}
               PROVE  /\ \A w \in Workers : pc[w] = "exit" /\ w \notin kill
                      /\ \A e \in Locks : lock[e] = None
    BY DEF ReturnMeansQuiet
  <2>1. \A w \in Workers : pc[w] = "exit" /\ w \notin kill
    BY DEF Lifetimes
  <2> QED BY <2>1 DEF IInv, LocksHeld
<1> QED BY <1>1, Invariant, PTL

-----------------------------------------------------------------------------
(* No validated graph strands its workers.                                 *)

\* While execute waits, every stage is queued, has a result, misses a
\* dependency, or is carried by a worker.
Accounted ==
    main = "wait" /\ ~allDone /\ ~SinkRaises =>
        /\ Acyclic(wf.deps)
        /\ results # Stages
        /\ \A s \in Stages :
             \/ s \in ready \cup results
             \/ indegree[s] # 0
             \/ \E w \in Workers : pc[w] \in Carrying /\ cur[w] = s

\* Before the workers exist the queue holds exactly the stages without
\* dependencies, and nothing has a result.
Unstarted == main = "validate" =>
    /\ results = {}
    /\ ready = {s \in Stages : wf.deps[s] = {}}

\* Every step keeps the stages accounted for.
LEMMA NextAccounted ==
  IInv /\ Lifetimes /\ Unstarted /\ Accounted /\ [Next]_vars => Unstarted' /\ Accounted'
<1> SUFFICES ASSUME IInv, Lifetimes, Unstarted, Accounted, [Next]_vars
             PROVE  Unstarted' /\ Accounted'
  OBVIOUS
<1> USE DEF IInv, TypeOK
<1>1. ASSUME NEW w \in Workers, Worker(w) PROVE Unstarted' /\ Accounted'
  <2>1. main' = main /\ wf' = wf
    BY <1>1 DEF Worker, Loop, PollTimeout, Take, EnterRunner, Succeed, Fail,
                KilledRaise, RunnerRaised, Deliver, Killed
  <2>2. main # "validate"
    BY <1>1 DEF Worker, Loop, PollTimeout, Take, EnterRunner, Succeed, Fail,
                KilledRaise, RunnerRaised, Deliver, Killed, At, Lifetimes
  <2>3. SUFFICES ASSUME main = "wait", ~allDone', ~SinkRaises
                 PROVE  /\ results' # Stages
                        /\ \A s \in Stages :
                             \/ s \in ready' \cup results'
                             \/ indegree'[s] # 0
                             \/ \E v \in Workers : pc'[v] \in Carrying /\ cur'[v] = s
    <3>1. main = "wait" /\ ~allDone' /\ ~SinkRaises => ~allDone
      BY <1>1 DEF Worker, Loop, PollTimeout, Take, EnterRunner, Succeed, Fail, Emit,
                  Taken, SinkRaised, KilledRaise, RunnerRaised, Deliver, Killed
    <3> QED BY <2>1, <2>2, <3>1 DEF Unstarted, Accounted, Acyclic
  <2>4. ~allDone /\ kill = {}
    BY <1>1, <2>3 DEF Lifetimes, Worker, Loop, PollTimeout, Take, EnterRunner, Succeed,
                      Fail, Emit, Taken, SinkRaised, KilledRaise, RunnerRaised, Deliver, Killed
  <2>5. CASE Loop(w) \/ PollTimeout(w)
    BY <2>3, <2>4, <2>5 DEF Accounted, Loop, PollTimeout, At, Goto, Carrying, progress
  <2>6. CASE \E s \in ready : Take(w, s)
    <3>1. PICK s \in ready : Take(w, s)
      BY <2>6
    <3>2. PICK l \in {"starting", "lock"} : pc' = [pc EXCEPT ![w] = l]
      BY <2>3, <3>1 DEF Take, Emit, Taken, SinkRaised, Goto
    <3>3. pc[w] = "get" /\ ready' = ready \ {s} /\ cur' = [cur EXCEPT ![w] = s]
          /\ indegree' = indegree /\ results' = results
      BY <3>1 DEF Take, At
    <3> QED BY <2>3, <2>4, <3>2, <3>3 DEF Accounted, Carrying
  <2>7. CASE EnterRunner(w)
    BY <2>3, <2>4, <2>7 DEF Accounted, EnterRunner, At, Goto, Carrying, progress
  <2>8. CASE Succeed(w)
    <3>1. pc[w] = "run" /\ cur' = cur /\ results' = results \cup {cur[w]}
      BY <2>8 DEF Succeed, At
    <3>2. results' # Stages
      BY <2>3, <2>8 DEF Succeed, Emit, Taken, SinkRaised
    <3>3. PICK l \in {"completing", "top", "exit"} : pc' = [pc EXCEPT ![w] = l]
      BY <2>8 DEF Succeed, Emit, Taken, SinkRaised, Goto
    <3>4. ASSUME NEW s \in Stages, s \notin ready' \cup results', indegree'[s] = 0
          PROVE  \E v \in Workers : pc'[v] \in Carrying /\ cur'[v] = s
      <4>1. indegree[s] = 0 /\ s \notin ready \cup results /\ s # cur[w]
        <5>1. indegree'[s] = IF s \in Dependents(cur[w]) THEN indegree[s] - 1 ELSE indegree[s]
          BY <2>8 DEF Succeed
        <5>2. ready' = ready \cup {t \in Dependents(cur[w]) : indegree[t] = 1}
          BY <2>8 DEF Succeed, Freed
        <5>3. indegree[s] \in Nat /\ ~(s \in Dependents(cur[w]) /\ indegree[s] = 1)
          BY <3>4, <5>2
        <5> QED BY <3>1, <3>4, <5>1, <5>2, <5>3
      <4>2. PICK v \in Workers : pc[v] \in Carrying /\ cur[v] = s
        BY <2>3, <2>4, <4>1 DEF Accounted
      <4>3. v # w
        BY <4>1, <4>2
      <4> QED BY <3>1, <3>3, <4>2, <4>3
    <3> QED BY <3>2, <3>4
  <2>9. CASE Fail(w)
    <3>1. pc' = [pc EXCEPT ![w] = "failing"] /\ cur' = cur /\ indegree' = indegree
          /\ ready' = ready /\ results' = results
      BY <2>3, <2>9 DEF Fail, RunnerRaised, Emit, Taken, SinkRaised, Goto
    <3> QED BY <2>3, <2>4, <2>9, <3>1 DEF Accounted, Fail, At, Carrying
  <2>10. CASE Deliver(w, "starting", "stage.started", "lock")
    BY <2>3, <2>4, <2>10 DEF Accounted, Deliver, Taken, SinkRaised, At, Goto, Carrying, progress
  <2>11. CASE Deliver(w, "completing", "stage.completed", "top")
    BY <2>3, <2>4, <2>11 DEF Accounted, Deliver, Taken, SinkRaised, At, Goto, Carrying, progress
  <2>12. CASE Deliver(w, "failing", "stage.failed", "exit")
    BY <2>3, <2>12 DEF Deliver, Taken, SinkRaised
  <2>13. CASE Killed(w) \/ KilledRaise(w)
    BY <2>4, <2>13 DEF Killed, KilledRaise
  <2> QED BY <1>1, <2>5, <2>6, <2>7, <2>8, <2>9, <2>10, <2>11, <2>12, <2>13 DEF Worker
<1>2. CASE Spawn
  <2>1. /\ Acyclic(wf.deps) /\ main = "validate" /\ main' = "wait"
        /\ UNCHANGED <<wf, ready, results, indegree>>
    BY <1>2 DEF Spawn, progress
  <2>2. wf.deps \in [Stages -> SUBSET Stages]
    BY WorkflowType
  <2>3. \A s \in Stages : s \in ready \/ indegree[s] # 0
    <3> SUFFICES ASSUME NEW s \in Stages, s \notin ready PROVE indegree[s] # 0
      OBVIOUS
    <3>1. wf.deps[s] \in SUBSET Stages /\ wf.deps[s] # {} /\ wf.deps[s] \ results = wf.deps[s]
      BY <2>1, <2>2 DEF Unstarted
    <3>2. PICK d \in wf.deps[s] : TRUE
      BY <3>1
    <3>3. Cardinality(wf.deps[s]) \in Nat \ {0}
      BY <3>1, <3>2, RemoveOne
    <3> QED BY <3>1, <3>3 DEF IndegreeExact
  <2>4. results # Stages
    BY <2>1, SchedulerAssumption DEF Unstarted
  <2> QED BY <2>1, <2>3, <2>4 DEF Unstarted, Accounted, Acyclic
<1>3. CASE Reject \/ Join \/ ReturnCancelled \/ RaiseFailure \/ ReturnCompleted
           \/ SinkRaisesInMain \/ Abort
  <2>1. main' \notin {"validate", "wait"}
    BY <1>3 DEF Reject, Join, ReturnCancelled, RaiseFailure, ReturnCompleted,
                SinkRaisesInMain, Abort
  <2> QED BY <2>1 DEF Unstarted, Accounted
<1>4. CASE SetCancel \/ UNCHANGED vars
  BY <1>4 DEF SetCancel, vars, progress, Unstarted, Accounted, Acyclic
<1> QED BY <1>1, <1>2, <1>3, <1>4 DEF Next, Main

\* An acyclic graph with unfinished stages has one whose dependencies are all
\* done; being accounted for, it is queued or carried.
LEMMA AccountedIsNotStranded == IInv /\ Accounted => NothingStranded
<1> SUFFICES ASSUME IInv, Accounted, ~SinkRaises, main = "wait", ~allDone
             PROVE  ready # {} \/ \E w \in Workers : pc[w] \in Carrying
  BY DEF NothingStranded
<1> USE DEF IInv, TypeOK
<1>1. Stages \ results # {} /\ Stages \ results \in SUBSET Stages
  BY DEF Accounted
<1>2. PICK s \in Stages \ results : wf.deps[s] \cap (Stages \ results) = {}
  BY <1>1 DEF Accounted, Acyclic
<1>3. wf.deps[s] \ results = {}
  BY <1>2, WorkflowType
<1>4. indegree[s] = 0
  BY <1>2, <1>3, FS_EmptySet DEF IndegreeExact
<1> QED BY <1>2, <1>4 DEF Accounted

\* execute never waits for workers that have nothing left to do.
THEOREM NeverStranded == Spec => []NothingStranded
<1>1. Init => Unstarted /\ Accounted
  BY DEF Init, Unstarted, Accounted
<1> QED BY <1>1, Invariant, NextAccounted, AccountedIsNotStranded, PTL DEF Spec

-----------------------------------------------------------------------------
(* completed_order is a topological order of the results.                  *)

\* Appending a stage that has no result yet and whose dependencies have theirs.
LEMMA AppendKeepsOrder ==
  ASSUME TypeOK, CompletedOrderTopological, NEW s \in Stages \ results,
         wf.deps[s] \subseteq results, wf' = wf,
         completedOrder' = Append(completedOrder, s), results' = results \cup {s}
  PROVE  CompletedOrderTopological'
<1> DEFINE n == Len(completedOrder)
<1>1. n \in Nat /\ completedOrder \in Seq(Stages)
  BY DEF TypeOK
<1>2. /\ Len(completedOrder') = n + 1
      /\ completedOrder'[n + 1] = s
      /\ \A i \in 1..n : completedOrder'[i] = completedOrder[i]
  BY <1>1
<1>3. 1..(n + 1) = (1..n) \cup {n + 1} /\ n + 1 \notin 1..n
  BY <1>1
<1>4. results = {completedOrder[i] : i \in 1..n}
  BY DEF CompletedOrderTopological
<1>5. results' = {completedOrder'[i] : i \in 1..(n + 1)}
  BY <1>2, <1>3, <1>4
<1>6. \A i, j \in 1..(n + 1) : completedOrder'[i] = completedOrder'[j] => i = j
  <2>1. \A i \in 1..n : completedOrder[i] # s
    BY <1>4
  <2> QED BY <1>2, <1>3, <2>1 DEF CompletedOrderTopological
<1>7. ASSUME NEW i \in 1..(n + 1)
      PROVE  wf.deps[completedOrder'[i]] \subseteq {completedOrder'[j] : j \in 1..(i - 1)}
  <2>1. CASE i = n + 1
    <3>1. 1..(i - 1) = 1..n
      BY <1>1, <2>1
    <3>2. {completedOrder'[j] : j \in 1..(i - 1)} = results
      BY <1>2, <1>4, <3>1
    <3> QED BY <1>2, <2>1, <3>2
  <2>2. CASE i \in 1..n
    <3>1. \A j \in 1..(i - 1) : j \in 1..n
      BY <1>1, <2>2
    <3>2. {completedOrder'[j] : j \in 1..(i - 1)} = {completedOrder[j] : j \in 1..(i - 1)}
      BY <1>2, <3>1
    <3> QED BY <1>2, <2>2, <3>2 DEF CompletedOrderTopological
  <2> QED BY <1>3, <2>1, <2>2
<1> QED BY <1>2, <1>5, <1>6, <1>7 DEF CompletedOrderTopological

\* completed_order lists each result once and after its dependencies.
THEOREM CompletedOrderIsTopological == Spec => []CompletedOrderTopological
<1>1. Init => CompletedOrderTopological
  BY DEF Init, CompletedOrderTopological
<1>2. IInv /\ CompletedOrderTopological /\ [Next]_vars => CompletedOrderTopological'
  <2> SUFFICES ASSUME IInv, CompletedOrderTopological, [Next]_vars
               PROVE  CompletedOrderTopological'
    OBVIOUS
  <2>1. ASSUME NEW w \in Workers, Succeed(w) PROVE CompletedOrderTopological'
    <3>1. cur[w] \in Stages \ results /\ wf.deps[cur[w]] \subseteq results
      BY <2>1 DEF Succeed, At, IInv, CarriedStages, Carrying
    <3> QED BY <2>1, <3>1, AppendKeepsOrder DEF Succeed, IInv
  <2>2. CASE UNCHANGED <<wf, results, completedOrder>>
    BY <2>2, SMTT(20) DEF CompletedOrderTopological
  <2>3. ASSUME NEW w \in Workers, Worker(w) PROVE CompletedOrderTopological'
    BY <2>1, <2>2, <2>3
    DEF Worker, Loop, PollTimeout, Take, EnterRunner, Fail, KilledRaise, RunnerRaised,
        Deliver, Killed, progress
  <2>4. CASE Main \/ SetCancel \/ Abort \/ UNCHANGED vars
    BY <2>2, <2>4
    DEF Main, Reject, Spawn, Join, ReturnCancelled, RaiseFailure, ReturnCompleted,
        SinkRaisesInMain, SetCancel, Abort, vars, progress
  <2> QED BY <2>3, <2>4 DEF Next
<1> QED BY <1>1, <1>2, Invariant, PTL DEF Spec

-----------------------------------------------------------------------------
(* The scheduler implements DagExecution.                                  *)

Running == {cur[w] : w \in {v \in Workers : pc[v] = "run"}}

\* There are at most max_concurrency workers, so when one of them is not in a
\* runner, fewer than max_concurrency stages are.
LEMMA BelowLimit ==
  ASSUME IInv, NEW w \in Workers, pc[w] # "run"
  PROVE  Cardinality(Running) < MaxConcurrency
<1> DEFINE R == {v \in Workers : pc[v] = "run"}
           f == [v \in R |-> cur[v]]
<1>1. IsFiniteSet(Workers) /\ Cardinality(Workers) \in Nat
      /\ Cardinality(Workers) <= MaxConcurrency
  <2> DEFINE k == IF MaxConcurrency < Cardinality(Stages) THEN MaxConcurrency
                                                          ELSE Cardinality(Stages)
  <2>1. k \in Nat /\ k <= MaxConcurrency
    BY CardinalityOfStages, SchedulerAssumption
  <2>2. Workers = 1..k
    BY DEF Workers
  <2> HIDE DEF k
  <2>3. IsFiniteSet(1..k) /\ Cardinality(1..k) = IF 1 > k THEN 0 ELSE k - 1 + 1
    BY <2>1, FS_Interval
  <2>4. Cardinality(1..k) = k
    BY <2>1, <2>3
  <2> QED BY <2>1, <2>2, <2>3, <2>4, SchedulerAssumption
<1>2. IsFiniteSet(Workers \ {w}) /\ Cardinality(Workers \ {w}) = Cardinality(Workers) - 1
  BY <1>1, FS_RemoveElement
<1>3. IsFiniteSet(R) /\ Cardinality(R) <= Cardinality(Workers) - 1
  BY <1>2, FS_Subset, R \in SUBSET (Workers \ {w})
<1>4. f \in Surjection(R, Running)
  BY DEF Surjection, Running
<1>5. IsFiniteSet(Running) /\ Cardinality(Running) <= Cardinality(R)
  BY <1>3, <1>4, FS_Surjection
<1>6. Cardinality(R) \in Nat /\ Cardinality(Running) \in Nat
  BY <1>3, <1>5, FS_CardinalityType
<1> QED BY <1>1, <1>3, <1>5, <1>6, SchedulerAssumption

\* EnterRunner is the abstract Enter.
LEMMA EnterRunnerRefines ==
  ASSUME IInv, IInv', NEW w \in Workers, EnterRunner(w)
  PROVE  Dag!Enter(cur[w])
<1> USE DEF IInv, TypeOK
<1>1. /\ pc[w] = "lock" /\ pc' = [pc EXCEPT ![w] = "run"]
      /\ entered' = entered \cup {cur[w]}
      /\ UNCHANGED <<wf, results, cur>>
  BY DEF EnterRunner, At, Goto, progress
<1>2. cur[w] \notin entered /\ wf.deps[cur[w]] \subseteq results
  BY <1>1 DEF PastStages, CarriedStages, Carrying
<1>3. Running' = Running \cup {cur[w]}
  BY <1>1 DEF Running
<1>4. Cardinality(Running) < MaxConcurrency
  BY <1>1, BelowLimit
<1>5. \A t \in Running :
        ~(wf.effect[cur[w]] = wf.effect[t] /\ wf.effect[cur[w]] \in Locks)
  <2> SUFFICES ASSUME NEW v \in Workers, pc[v] = "run", wf.effect[cur[w]] = wf.effect[cur[v]],
                      wf.effect[cur[w]] \in Locks
               PROVE  FALSE
    BY DEF Running
  <2>1. lock[wf.effect[cur[w]]] = v
    BY DEF LocksHeld
  <2>2. lock[wf.effect[cur[w]]] = None
    BY DEF EnterRunner
  <2> QED BY <2>1, <2>2, NoneIsNoWorker
<1>6. Dag!Cardinality(Running) = Cardinality(Running)
  BY DEF Cardinality, Dag!Cardinality
<1> QED
  BY <1>1, <1>2, <1>3, <1>4, <1>5, <1>6 DEF Dag!Enter, Dag!Clash, Running

\* A worker that leaves the runner takes exactly its stage out of Running.
LEMMA LeaveRunner ==
  ASSUME IInv, NEW w \in Workers, pc[w] = "run", cur' = cur,
         NEW l, l # "run", pc' = [pc EXCEPT ![w] = l]
  PROVE  cur[w] \in Running /\ Running' = Running \ {cur[w]}
<1>1. \A v \in Workers : v # w /\ pc[v] = "run" => cur[v] # cur[w]
  BY DEF IInv, CarriedStages, Carrying
<1>2. \A v \in Workers : pc'[v] = IF v = w THEN l ELSE pc[v]
  BY DEF IInv, TypeOK
<1>3. {v \in Workers : pc'[v] = "run"} = {v \in Workers : pc[v] = "run"} \ {w}
  BY <1>2
<1> QED BY <1>1, <1>3 DEF Running

\* Every step maps to an abstract step of one stage, or to a stutter.
LEMMA StepRefines ==
  IInv /\ Lifetimes /\ IInv' /\ [Next]_vars => [Dag!Next]_(Dag!dagVars)
<1> SUFFICES ASSUME IInv, Lifetimes, IInv', [Next]_vars
             PROVE  Dag!Next \/ UNCHANGED Dag!dagVars
  OBVIOUS
<1> USE DEF IInv, TypeOK
<1>1. CASE UNCHANGED <<wf, entered, results>> /\ Running' = Running
  BY <1>1 DEF Dag!dagVars, Running
<1>2. ASSUME NEW w \in Workers, EnterRunner(w) PROVE Dag!Next
  <2>1. pc[w] = "lock" /\ cur[w] \in Stages
    BY <1>2 DEF EnterRunner, At, CarriedStages, Carrying
  <2> HIDE DEF IInv, TypeOK
  <2>2. Dag!Enter(cur[w])
    BY <1>2, EnterRunnerRefines
  <2> QED BY <2>1, <2>2, Zenon DEF Dag!Next, Dag!Enter
<1>3. ASSUME NEW w \in Workers, Succeed(w) PROVE Dag!Next
  <2>1. pc[w] = "run" /\ cur' = cur /\ wf' = wf /\ entered' = entered
        /\ results' = results \cup {cur[w]}
    BY <1>3 DEF Succeed, At
  <2>2. PICK l \in {"completing", "top", "exit"} : pc' = [pc EXCEPT ![w] = l]
    BY <1>3 DEF Succeed, Emit, Taken, SinkRaised, Goto
  <2>3. cur[w] \in Running /\ Running' = Running \ {cur[w]} /\ cur[w] \in Stages
    BY <2>1, <2>2, LeaveRunner DEF CarriedStages, Carrying
  <2> QED BY <2>1, <2>3 DEF Dag!Next, Dag!Finish, Running
<1>4. ASSUME NEW w \in Workers, pc[w] = "run", Fail(w) \/ KilledRaise(w) \/ Killed(w)
      PROVE  Dag!Next
  <2>1. cur' = cur /\ wf' = wf /\ entered' = entered /\ results' = results
    BY <1>4 DEF Fail, KilledRaise, RunnerRaised, Killed, progress
  <2>2. PICK l \in {"failing", "exit"} : pc' = [pc EXCEPT ![w] = l]
    BY <1>4 DEF Fail, KilledRaise, RunnerRaised, Killed, Emit, Taken, SinkRaised, Goto
  <2>3. cur[w] \in Running /\ Running' = Running \ {cur[w]} /\ cur[w] \in Stages
    BY <1>4, <2>1, <2>2, LeaveRunner DEF CarriedStages, Carrying
  <2> QED BY <2>1, <2>3 DEF Dag!Next, Dag!Drop, Running
<1>5. ASSUME NEW w \in Workers, NEW l, l # "run", pc[w] # "run",
             pc' = [pc EXCEPT ![w] = l], \A v \in Workers \ {w} : cur'[v] = cur[v]
      PROVE  Running' = Running
  BY <1>5 DEF Running
<1>6. ASSUME NEW w \in Workers, Loop(w) \/ PollTimeout(w) PROVE UNCHANGED Dag!dagVars
  <2>1. \E l \in {"exit", "get", "top"} : pc' = [pc EXCEPT ![w] = l]
    BY <1>6 DEF Loop, PollTimeout, Goto
  <2> QED BY <1>1, <1>5, <1>6, <2>1 DEF Loop, PollTimeout, At, progress, Dag!dagVars, Running
<1>7. ASSUME NEW w \in Workers, NEW s \in ready, Take(w, s) PROVE UNCHANGED Dag!dagVars
  <2>1. \E l \in {"starting", "lock", "exit"} : pc' = [pc EXCEPT ![w] = l]
    BY <1>7 DEF Take, Emit, Taken, SinkRaised, Goto
  <2>2. \A v \in Workers \ {w} : cur'[v] = cur[v]
    BY <1>7 DEF Take
  <2>3. Running' = Running
    BY <1>5, <1>7, <2>1, <2>2 DEF Take, At
  <2> QED BY <1>7, <2>3 DEF Take, Dag!dagVars, Running
<1>8. ASSUME NEW w \in Workers, pc[w] # "run",
             \/ Deliver(w, "starting", "stage.started", "lock")
             \/ Deliver(w, "completing", "stage.completed", "top")
             \/ Deliver(w, "failing", "stage.failed", "exit")
             \/ Killed(w)
      PROVE  UNCHANGED Dag!dagVars
  <2>1. \E l \in {"lock", "top", "exit"} : pc' = [pc EXCEPT ![w] = l]
    BY <1>8 DEF Deliver, Killed, Taken, SinkRaised, Goto
  <2>2. cur' = cur /\ wf' = wf /\ entered' = entered /\ results' = results
    BY <1>8 DEF Deliver, Killed, progress
  <2>3. Running' = Running
    BY <1>5, <1>8, <2>1, <2>2
  <2> QED BY <2>2, <2>3 DEF Dag!dagVars, Running
<1>9. ASSUME NEW w \in Workers, Worker(w) PROVE Dag!Next \/ UNCHANGED Dag!dagVars
  <2>1. CASE Deliver(w, "starting", "stage.started", "lock")
             \/ Deliver(w, "completing", "stage.completed", "top")
             \/ Deliver(w, "failing", "stage.failed", "exit")
    BY <1>8, <2>1 DEF Deliver, At
  <2>2. CASE Fail(w) \/ KilledRaise(w)
    BY <1>4, <2>2 DEF Fail, KilledRaise, At
  <2>3. CASE Killed(w)
    BY <1>4, <1>8, <2>3
  <2> QED BY <1>2, <1>3, <1>6, <1>7, <1>9, <2>1, <2>2, <2>3 DEF Worker
<1>10. CASE Spawn
  <2>1. Running = {} /\ Running' = {}
    BY <1>10 DEF Spawn, Lifetimes, Running
  <2> QED BY <1>10, <2>1 DEF Spawn, progress, Dag!dagVars, Running
<1>11. CASE Reject \/ Join \/ ReturnCancelled \/ RaiseFailure \/ ReturnCompleted
            \/ SinkRaisesInMain \/ SetCancel \/ Abort \/ UNCHANGED vars
  <2>1. UNCHANGED <<wf, entered, results, pc, cur>>
    BY <1>11 DEF Reject, Join, ReturnCancelled, RaiseFailure, ReturnCompleted,
                 SinkRaisesInMain, SetCancel, Abort, vars, progress
  <2> QED BY <2>1 DEF Dag!dagVars
<1> QED BY <1>9, <1>10, <1>11 DEF Next, Main

\* The scheduler implements the abstract execution: every stage is entered at
\* most once and after its dependencies, at most max_concurrency stages run at
\* a time, and two stages of one serialised effect never run together.
THEOREM Refinement == Spec => ImplementsDag
<1>1. Init => Dag!Init
  BY DEF Init, Dag!Init
<1> QED BY <1>1, StepRefines, Invariant, PTL DEF Spec, ImplementsDag, Dag!Spec

-----------------------------------------------------------------------------
(* What the statuses and the log say.                                      *)

\* The status of a stage follows what happened to it, until execute settles what
\* has no outcome; all_done has a reason.
StatusFits ==
    /\ \A s \in Stages : status[s] = "succeeded" <=> s \in results
    /\ failure # None => status[failure] = "failed" /\ failure \in entered
    /\ failure = None => \A s \in Stages : status[s] # "failed"
    /\ \A w \in Workers : pc[w] \in {"starting", "lock", "run"} => status[cur[w]] = "running"
    /\ \A w \in Workers : pc[w] = "failing" => failure # None
    /\ \A w \in Workers : pc[w] = "run" => cur[w] \in entered
    /\ main \notin {"cancelled", "failed", "raised"} =>
         \A s \in Stages : status[s] \notin {"blocked", "cancelled"}
    /\ main = "join" => allDone
    /\ allDone => results = Stages \/ cancelled \/ failure # None

\* A step that leaves the statuses alone, and no worker nearer to a runner unless
\* it carries its stage there.
LEMMA StatusKept ==
  ASSUME TypeOK, StatusFits,
         UNCHANGED <<status, results, failure, cur, main>>,
         entered \subseteq entered', cancelled => cancelled',
         allDone' => allDone \/ cancelled \/ failure # None, allDone => allDone',
         \A w \in Workers : /\ pc'[w] \in {"starting", "lock", "run"} =>
                                 pc[w] \in {"starting", "lock", "run"}
                            /\ pc'[w] = "failing" => pc[w] = "failing"
                            /\ pc'[w] = "run" => pc[w] = "run" \/ cur[w] \in entered'
  PROVE  StatusFits'
  BY DEF TypeOK, StatusFits

\* A stage whose dependency s has no result has none, did not fail and is not carried.
LEMMA FreedIsFresh ==
  ASSUME IInv, StatusFits, NEW s \in Stages \ results, NEW t \in Freed(s)
  PROVE  /\ t \in Stages \ results /\ t # failure
         /\ \A w \in Workers : pc[w] \in Carrying => cur[w] # t
<1>1. t \in Stages /\ ~(wf.deps[t] \subseteq results)
  BY DEF Freed, Dependents
<1> QED BY <1>1, SchedulerAssumption DEF IInv, PastStages, CarriedStages, StatusFits

\* The runner returned: its stage has succeeded, the freed ones are ready again.
LEMMA SucceedKeepsStatus ==
  ASSUME IInv, StatusFits, NEW w \in Workers, Succeed(w)
  PROVE  StatusFits'
<1> DEFINE s == cur[w]
<1>1. /\ pc[w] = "run" /\ s \in Stages \ results
      /\ results' = results \cup {s} /\ UNCHANGED <<wf, main, failure, cancelled, cur, entered>>
  BY DEF Succeed, At, IInv, CarriedStages, Carrying
<1>2. PICK l \in {"completing", "top", "exit"} : pc' = [pc EXCEPT ![w] = l]
  BY DEF Succeed, Emit, Taken, SinkRaised, Goto
<1>3. \A t \in Stages : status'[t] = IF t = s THEN "succeeded"
                                     ELSE IF t \in Freed(s) THEN "ready" ELSE status[t]
  BY DEF Succeed
<1>4. allDone' => allDone \/ results' = Stages
  BY DEF Succeed, Emit, Taken, SinkRaised
<1>5. allDone => allDone'
  BY DEF Succeed, Emit, Taken, SinkRaised
<1>6. \A t \in Freed(s) : t \in Stages \ results /\ t # failure
                           /\ \A v \in Workers : pc[v] \in Carrying => cur[v] # t
  BY <1>1, FreedIsFresh
<1>7. s # failure
  BY <1>1, SchedulerAssumption DEF StatusFits
<1>8. \A v \in Workers : v # w /\ pc[v] \in Carrying => cur[v] # s
  BY <1>1 DEF IInv, CarriedStages, Carrying
<1>9. \A t \in Stages : status'[t] = "succeeded" <=> t \in results'
  BY <1>1, <1>3, <1>6 DEF StatusFits
<1>10. failure' # None => status'[failure'] = "failed" /\ failure' \in entered'
  BY <1>1, <1>3, <1>6, <1>7 DEF StatusFits, IInv, TypeOK
<1>11. \A v \in Workers : pc'[v] \in {"starting", "lock", "run"} => status'[cur'[v]] = "running"
  <2> SUFFICES ASSUME NEW v \in Workers, pc'[v] \in {"starting", "lock", "run"}
               PROVE  status'[cur[v]] = "running"
    BY <1>1
  <2>1. v # w /\ pc[v] \in {"starting", "lock", "run"}
    BY <1>2 DEF IInv, TypeOK
  <2>2. cur[v] \in Stages /\ cur[v] # s /\ cur[v] \notin Freed(s)
    BY <1>6, <1>8, <2>1 DEF IInv, CarriedStages, Carrying
  <2> QED BY <1>3, <2>1, <2>2 DEF StatusFits
<1>12. \A v \in Workers : pc'[v] = "failing" => failure' # None
  BY <1>1, <1>2 DEF StatusFits, IInv, TypeOK
<1>16. \A v \in Workers : pc'[v] = "run" => cur'[v] \in entered'
  BY <1>1, <1>2 DEF StatusFits, IInv, TypeOK
<1>13. main' \notin {"cancelled", "failed", "raised"} =>
         \A t \in Stages : status'[t] \notin {"blocked", "cancelled"}
  BY <1>1, <1>3 DEF StatusFits
<1>14. failure' = None => \A t \in Stages : status'[t] # "failed"
  BY <1>1, <1>3 DEF StatusFits
<1>15. allDone' => results' = Stages \/ cancelled' \/ failure' # None
  BY <1>1, <1>4 DEF StatusFits, IInv, TypeOK
<1> QED BY <1>1, <1>5, <1>9, <1>10, <1>11, <1>12, <1>13, <1>14, <1>15, <1>16 DEF StatusFits


\* The runner raised: its stage, which was running and was entered, is failed.
LEMMA RaisedKeepsStatus ==
  ASSUME IInv, StatusFits, NEW w \in Workers, pc[w] = "run", RunnerRaised(w)
  PROVE  StatusFits'
<1> DEFINE s == cur[w]
<1>1. /\ s \in Stages \ results /\ s # None /\ s \in entered
      /\ UNCHANGED <<results, main, cancelled, cur, entered>>
      /\ status' = [status EXCEPT ![s] = "failed"]
      /\ failure' = IF failure = None THEN s ELSE failure
  BY SchedulerAssumption DEF RunnerRaised, IInv, CarriedStages, Carrying, StatusFits
<1>2. PICK l \in {"failing", "exit"} : pc' = [pc EXCEPT ![w] = l]
  BY DEF RunnerRaised, Emit, Taken, SinkRaised, Goto
<1>3. allDone => allDone'
  BY DEF RunnerRaised, Emit, Taken, SinkRaised
<1>4. failure' # None /\ failure' \in Stages
  BY <1>1 DEF IInv, TypeOK
<1>5. \A t \in Stages : status'[t] = IF t = s THEN "failed" ELSE status[t]
  BY <1>1 DEF IInv, TypeOK
<1>6. \A v \in Workers : v # w /\ pc[v] \in Carrying => cur[v] # s /\ cur[v] \in Stages
  BY <1>1 DEF IInv, CarriedStages, Carrying
<1>7. \A v \in Workers : pc'[v] \in {"starting", "lock", "run"} => v # w /\ pc'[v] = pc[v]
  BY <1>2 DEF IInv, TypeOK
<1>8. \A v \in Workers : pc'[v] \in {"starting", "lock", "run"} => status'[cur'[v]] = "running"
  BY <1>1, <1>5, <1>6, <1>7 DEF StatusFits, Carrying
<1>9. \A t \in Stages : status'[t] = "succeeded" <=> t \in results'
  BY <1>1, <1>5 DEF StatusFits
<1>10. status'[failure'] = "failed" /\ failure' \in entered'
  BY <1>1, <1>4, <1>5 DEF StatusFits
<1>11. main' \notin {"cancelled", "failed", "raised"} =>
         \A t \in Stages : status'[t] \notin {"blocked", "cancelled"}
  BY <1>1, <1>5 DEF StatusFits
<1>12. \A v \in Workers : pc'[v] = "run" => cur'[v] \in entered'
  BY <1>1, <1>7 DEF StatusFits
<1> QED BY <1>1, <1>3, <1>4, <1>8, <1>9, <1>10, <1>11, <1>12 DEF StatusFits

\* A stage is taken: it was queued, so it has no result, never ran and did not fail.
LEMMA TakeKeepsStatus ==
  ASSUME IInv, StatusFits, NEW w \in Workers, NEW s \in ready, Take(w, s)
  PROVE  StatusFits'
<1>1. /\ s \in Stages \ (results \cup entered) /\ pc[w] = "get"
      /\ UNCHANGED <<main, results, failure, cancelled, entered>>
      /\ status' = [status EXCEPT ![s] = "running"]
      /\ cur' = [cur EXCEPT ![w] = s]
  BY DEF Take, At, IInv, TypeOK, QueuedStages
<1>2. PICK l \in {"starting", "lock", "exit"} : pc' = [pc EXCEPT ![w] = l]
  BY DEF Take, Emit, Taken, SinkRaised, Goto
<1>3. allDone' = allDone /\ (allDone => results = Stages \/ cancelled \/ failure # None)
  BY DEF Take, Emit, Taken, SinkRaised, IInv, TypeOK, StatusFits
<1>4. \A t \in Stages : status'[t] = IF t = s THEN "running" ELSE status[t]
  BY <1>1 DEF IInv, TypeOK
<1>5. \A v \in Workers : v # w => cur'[v] = cur[v] /\ pc'[v] = pc[v]
  BY <1>1, <1>2 DEF IInv, TypeOK
<1>6. \A v \in Workers : pc[v] \in Carrying => cur[v] # s /\ cur[v] \in Stages
  BY DEF IInv, CarriedStages
<1>7. cur'[w] = s /\ pc'[w] \notin {"failing", "run"}
  BY <1>1, <1>2 DEF IInv, TypeOK
<1>8. \A v \in Workers : pc'[v] \in {"starting", "lock", "run"} => status'[cur'[v]] = "running"
  BY <1>1, <1>4, <1>5, <1>6, <1>7 DEF StatusFits, Carrying
<1>9. failure' # None => status'[failure'] = "failed" /\ failure' \in entered'
  BY <1>1, <1>4 DEF StatusFits, IInv, TypeOK
<1>10. \A t \in Stages : status'[t] = "succeeded" <=> t \in results'
  BY <1>1, <1>4 DEF StatusFits
<1>11. \A v \in Workers : /\ pc'[v] = "run" => cur'[v] \in entered'
                          /\ pc'[v] = "failing" => failure' # None
  BY <1>1, <1>5, <1>7 DEF StatusFits
<1>12. main' \notin {"cancelled", "failed", "raised"} =>
         \A t \in Stages : status'[t] \notin {"blocked", "cancelled"}
  BY <1>1, <1>4 DEF StatusFits
<1>13. failure' = None => \A t \in Stages : status'[t] # "failed"
  BY <1>1, <1>4 DEF StatusFits
<1>14. /\ main' = "join" => allDone'
       /\ allDone' => results' = Stages \/ cancelled' \/ failure' # None
  BY <1>1, <1>3 DEF StatusFits, IInv, TypeOK
<1> QED BY <1>8, <1>9, <1>10, <1>11, <1>12, <1>13, <1>14 DEF StatusFits

\* The steps that leave every status alone.
LEMMA QuietStepKeepsStatus ==
  ASSUME IInv, StatusFits, NEW w \in Workers,
         \/ Loop(w) \/ PollTimeout(w) \/ EnterRunner(w)
         \/ Deliver(w, "starting", "stage.started", "lock")
         \/ Deliver(w, "completing", "stage.completed", "top")
         \/ Deliver(w, "failing", "stage.failed", "exit")
         \/ Killed(w)
  PROVE  StatusFits'
<1>1. /\ UNCHANGED <<status, results, failure, cur, main, cancelled>>
      /\ entered \subseteq entered'
  BY DEF Loop, PollTimeout, EnterRunner, Deliver, Killed, progress
<1>2. /\ allDone => allDone'
      /\ allDone' => allDone \/ cancelled \/ failure # None
  BY DEF Loop, PollTimeout, EnterRunner, Deliver, Killed, Taken, SinkRaised, At,
         StatusFits, IInv, TypeOK
<1>3. \/ pc[w] = "starting" /\ pc' = [pc EXCEPT ![w] = "lock"]
      \/ pc[w] = "lock" /\ pc' = [pc EXCEPT ![w] = "run"] /\ cur[w] \in entered'
      \/ \E l \in {"exit", "get", "top"} : pc' = [pc EXCEPT ![w] = l]
  BY DEF Loop, PollTimeout, EnterRunner, Deliver, Killed, Taken, SinkRaised, At, Goto
<1>4. \A v \in Workers : /\ pc'[v] \in {"starting", "lock", "run"} =>
                                pc[v] \in {"starting", "lock", "run"}
                         /\ pc'[v] = "failing" => pc[v] = "failing"
                         /\ pc'[v] = "run" => pc[v] = "run" \/ cur[v] \in entered'
  BY <1>3 DEF IInv, TypeOK
<1>5. TypeOK /\ (cancelled => cancelled')
  BY <1>1 DEF IInv
<1> QED BY <1>1, <1>2, <1>4, <1>5, StatusKept

\* A step of a worker keeps the statuses true.
LEMMA WorkerKeepsStatus ==
  ASSUME IInv, StatusFits, NEW w \in Workers, Worker(w)
  PROVE  StatusFits'
<1>1. CASE \E s \in ready : Take(w, s)
  BY <1>1, TakeKeepsStatus
<1>2. CASE Succeed(w)
  BY <1>2, SucceedKeepsStatus
<1>3. CASE Fail(w) \/ KilledRaise(w)
  BY <1>3, RaisedKeepsStatus DEF Fail, KilledRaise, At
<1>4. CASE \/ Loop(w) \/ PollTimeout(w) \/ EnterRunner(w)
           \/ Deliver(w, "starting", "stage.started", "lock")
           \/ Deliver(w, "completing", "stage.completed", "top")
           \/ Deliver(w, "failing", "stage.failed", "exit")
           \/ Killed(w)
  BY <1>4, QuietStepKeepsStatus
<1> QED BY <1>1, <1>2, <1>3, <1>4 DEF Worker

\* Every step keeps the statuses and the outcome true: execute settles them when
\* its workers have ended, and nothing moves after that.
LEMMA NextOutcome ==
  IInv /\ Lifetimes /\ StatusFits /\ OutcomeAccurate /\ [Next]_vars
    => StatusFits' /\ OutcomeAccurate'
<1> SUFFICES ASSUME IInv, Lifetimes, StatusFits, OutcomeAccurate, [Next]_vars
             PROVE  StatusFits' /\ OutcomeAccurate'
  OBVIOUS
<1>1. ASSUME NEW w \in Workers, Worker(w) PROVE StatusFits' /\ OutcomeAccurate'
  <2>1. main' = main /\ (pc[w] # "exit" \/ w \in kill)
    BY <1>1 DEF Worker, Loop, PollTimeout, Take, EnterRunner, Succeed, Fail,
                KilledRaise, RunnerRaised, Deliver, Killed, At
  <2>2. main' \notin {"completed", "cancelled", "failed"}
    BY <2>1 DEF Lifetimes
  <2> QED BY <1>1, <2>2, WorkerKeepsStatus DEF OutcomeAccurate
<1>2. CASE Spawn
  <2>1. StatusFits'
    BY <1>2 DEF Spawn, StatusFits, Lifetimes, progress, IInv, TypeOK
  <2> QED BY <1>2, <2>1 DEF Spawn, OutcomeAccurate
<1>3. CASE Reject \/ Join \/ Abort \/ SetCancel \/ UNCHANGED vars
  <2>1. /\ UNCHANGED <<status, results, failure, allDone, pc, cur, entered>>
        /\ \/ main' = main
           \/ main \in {"validate", "wait", "join"} /\ main' \in {"rejected", "join", "aborted"}
        /\ main' = "join" => allDone'
        /\ allDone' => results' = Stages \/ cancelled' \/ failure' # None
    BY <1>3 DEF Reject, Join, Abort, SetCancel, vars, progress, StatusFits, IInv, TypeOK
  <2>2. StatusFits'
    BY <2>1 DEF StatusFits
  <2>3. OutcomeAccurate'
    BY <2>1 DEF OutcomeAccurate
  <2> QED BY <2>2, <2>3
<1>4. ASSUME Joined PROVE allDone /\ \A w \in Workers : pc[w] = "exit"
  BY <1>4 DEF Joined, StatusFits
<1>5. CASE ReturnCompleted
  <2>1. /\ results = Stages /\ main' = "completed" /\ Joined /\ failure = None
        /\ UNCHANGED <<status, results, failure, allDone, cancelled, pc, cur, entered>>
    BY <1>4, <1>5 DEF ReturnCompleted, StatusFits, progress
  <2>2. main = "join"
    BY <2>1 DEF Joined
  <2>3. StatusFits'
    BY <2>1, <2>2 DEF StatusFits
  <2> QED BY <2>1, <2>3 DEF StatusFits, OutcomeAccurate
<1>6. ASSUME Joined, failure = None, Settle({"pending", "ready", "running"}, "cancelled"),
             main' \in {"cancelled", "raised"},
             UNCHANGED <<results, failure, allDone, cancelled, pc, cur, entered>>
      PROVE  StatusFits' /\ OutcomeAccurate'
  <2>1. main = "join"
    BY <1>6 DEF Joined
  <2>2. \A s \in Stages : status[s] \in {"pending", "ready", "running", "succeeded"}
    BY <1>6, <2>1 DEF IInv, TypeOK, Statuses, StatusFits
  <2>3. \A s \in Stages : status'[s] = IF s \in results THEN "succeeded" ELSE "cancelled"
    BY <1>6, <2>2 DEF Settle, StatusFits
  <2> QED BY <1>4, <1>6, <2>1, <2>3 DEF StatusFits, OutcomeAccurate
<1>7. CASE ReturnCancelled
  BY <1>6, <1>7 DEF ReturnCancelled
<1>8. CASE RaiseFailure
  <2>1. main = "join" /\ main' = "failed" /\ failure \in Stages
        /\ UNCHANGED <<results, failure, allDone, cancelled, pc, cur, entered>>
    BY <1>8 DEF RaiseFailure, Joined, IInv, TypeOK
  <2>2. \A s \in Stages : status'[s] = IF status[s] \in {"pending", "ready"} THEN "blocked"
                                        ELSE status[s]
    BY <1>8 DEF RaiseFailure, Settle
  <2> QED BY <1>4, <1>8, <2>1, <2>2 DEF RaiseFailure, StatusFits, OutcomeAccurate
<1>9. CASE SinkRaisesInMain
  <2>1. /\ main' = "raised"
        /\ UNCHANGED <<results, failure, allDone, cancelled, pc, cur, entered>>
    BY <1>9 DEF SinkRaisesInMain
  <2>2. CASE UNCHANGED status
    BY <2>1, <2>2 DEF StatusFits, OutcomeAccurate
  <2>3. CASE Joined /\ failure = None /\ Settle({"pending", "ready", "running"}, "cancelled")
    BY <1>6, <2>1, <2>3
  <2> QED BY <1>9, <2>2, <2>3 DEF SinkRaisesInMain
<1> QED BY <1>1, <1>2, <1>3, <1>5, <1>7, <1>8, <1>9 DEF Next, Main

\* The statuses follow what happened to the stages in every reachable state.
THEOREM OutcomeInvariant == Spec => [](StatusFits /\ OutcomeAccurate)
<1>1. Init => StatusFits /\ OutcomeAccurate
  BY DEF Init, StatusFits, OutcomeAccurate
<1> QED BY <1>1, Invariant, NextOutcome, PTL DEF Spec

\* What execute returns or raises says the truth about every stage.
THEOREM OutcomesAreAccurate == Spec => []OutcomeAccurate
  BY OutcomeInvariant, PTL

EventTypes == {"workflow.started", "workflow.completed", "workflow.cancelled",
               "stage.started", "stage.completed", "stage.failed"}

\* The log is a list of events about stages.
LogTyped == log \in Seq([type : EventTypes, stage : Stages \cup {None}])

\* One event is appended: a start whose dependencies have results, or any other;
\* a result appears only together with its stage.completed.
LEMMA AppendedEvent ==
  ASSUME LogTyped, LogTellsAll, wf' = wf,
         NEW type \in EventTypes, NEW s \in Stages \cup {None},
         log' = Append(log, Event(type, s)),
         type = "stage.started" => wf.deps[s] \subseteq results,
         results' = results \/ (type = "stage.completed" /\ results' = results \cup {s})
  PROVE  LogTyped' /\ LogTellsAll'
<1> DEFINE n == Len(log)
<1>1. n \in Nat /\ Event(type, s) \in [type : EventTypes, stage : Stages \cup {None}]
  BY DEF LogTyped, Event
<1>2. /\ LogTyped' /\ Len(log') = n + 1 /\ log'[n + 1] = Event(type, s)
      /\ \A i \in 1..n : log'[i] = log[i]
  BY <1>1 DEF LogTyped
<1>3. 1..(n + 1) = (1..n) \cup {n + 1}
  BY <1>1
<1>4. ASSUME ~SinkSuspends, ~SinkRaises, NEW i \in 1..(n + 1), log'[i].type = "stage.started",
             NEW d \in wf.deps[log'[i].stage]
      PROVE  \E j \in 1..(i - 1) : log'[j] = Event("stage.completed", d)
  <2>1. CASE i \in 1..n
    <3>1. PICK j \in 1..(i - 1) : log[j] = Event("stage.completed", d)
      BY <1>2, <1>4, <2>1 DEF LogTellsAll
    <3>2. j \in 1..n
      BY <1>1, <2>1
    <3> QED BY <1>2, <3>1, <3>2
  <2>2. CASE i = n + 1
    <3>1. type = "stage.started" /\ d \in results
      BY <1>2, <1>4, <2>2 DEF Event
    <3>2. PICK j \in 1..n : log[j] = Event("stage.completed", d)
      BY <1>4, <3>1 DEF LogTellsAll, Announced
    <3>3. j \in 1..(i - 1)
      BY <1>1, <2>2
    <3> QED BY <1>2, <3>2, <3>3
  <2> QED BY <1>3, <2>1, <2>2
<1>5. ASSUME ~SinkSuspends, ~SinkRaises, NEW t \in results'
      PROVE  \E i \in 1..(n + 1) : log'[i] = Event("stage.completed", t)
  <2>1. CASE t \in results
    <3>1. PICK i \in 1..n : log[i] = Event("stage.completed", t)
      BY <1>5, <2>1 DEF LogTellsAll, Announced
    <3> QED BY <1>2, <1>3, <3>1
  <2>2. CASE t \notin results
    BY <1>2, <1>3, <1>5, <2>2
  <2> QED BY <2>1, <2>2
<1>6. LogTellsAll'
  BY <1>2, <1>4, <1>5 DEF LogTellsAll, Announced, Event
<1> QED BY <1>2, <1>6

\* An event a worker hands to the sink keeps the log a history.
LEMMA EmitTells ==
  ASSUME LogTyped, LogTellsAll, wf' = wf, NEW w, NEW type \in EventTypes,
         NEW s \in Stages \cup {None}, NEW emitting, NEW next, NEW d,
         Emit(w, type, s, emitting, next, d),
         type = "stage.started" => wf.deps[s] \subseteq results,
         results' = results \/ (type = "stage.completed" /\ results' = results \cup {s})
  PROVE  LogTyped' /\ LogTellsAll'
<1>1. CASE log' = Append(log, Event(type, s))
  BY <1>1, AppendedEvent
<1>2. CASE UNCHANGED log /\ (SinkSuspends \/ SinkRaises)
  BY <1>2 DEF LogTyped, LogTellsAll
<1> QED BY <1>1, <1>2 DEF Emit, Taken, SinkRaised

\* A step that adds no result and logs nothing.
LEMMA SilentStepTells ==
  LogTyped /\ LogTellsAll /\ UNCHANGED <<wf, results, log>> => LogTyped' /\ LogTellsAll'
  BY DEF LogTyped, LogTellsAll, Announced

\* A step of a worker keeps the log a history.
LEMMA WorkerTells ==
  ASSUME IInv, LogTyped, LogTellsAll, NEW w \in Workers, Worker(w)
  PROVE  LogTyped' /\ LogTellsAll'
<1>1. CASE Loop(w) \/ PollTimeout(w) \/ EnterRunner(w) \/ Killed(w)
  BY <1>1, SilentStepTells DEF Loop, PollTimeout, EnterRunner, Killed, progress
<1>2. ASSUME NEW s \in ready, Take(w, s) PROVE LogTyped' /\ LogTellsAll'
  <2>1. s \in Stages /\ wf.deps[s] \subseteq results /\ wf' = wf /\ results' = results
    BY <1>2 DEF Take, IInv, TypeOK, QueuedStages
  <2>2. Emit(w, "stage.started", s, "starting", "lock", allDone)
    BY <1>2 DEF Take
  <2> QED BY <2>1, <2>2, EmitTells DEF EventTypes
<1>3. CASE Succeed(w)
  <2>1. cur[w] \in Stages /\ wf' = wf /\ results' = results \cup {cur[w]}
    BY <1>3 DEF Succeed, At, IInv, CarriedStages, Carrying
  <2>2. Emit(w, "stage.completed", cur[w], "completing", "top", allDone \/ results' = Stages)
    BY <1>3 DEF Succeed
  <2> QED BY <2>1, <2>2, EmitTells DEF EventTypes
<1>4. CASE Fail(w) \/ KilledRaise(w)
  <2>1. cur[w] \in Stages \cup {None} /\ wf' = wf /\ results' = results
    BY <1>4 DEF Fail, KilledRaise, RunnerRaised, IInv, TypeOK
  <2>2. Emit(w, "stage.failed", cur[w], "failing", "exit", allDone)
    BY <1>4 DEF Fail, KilledRaise, RunnerRaised
  <2> QED BY <2>1, <2>2, EmitTells DEF EventTypes
<1>5. ASSUME NEW emitting, NEW type \in EventTypes, NEW next, Deliver(w, emitting, type, next),
             type = "stage.started" => emitting = "starting"
      PROVE  LogTyped' /\ LogTellsAll'
  <2>1. cur[w] \in Stages \cup {None} /\ wf' = wf /\ results' = results
    BY <1>5 DEF Deliver, progress, IInv, TypeOK
  <2>2. type = "stage.started" => wf.deps[cur[w]] \subseteq results
    BY <1>5 DEF Deliver, At, IInv, CarriedStages, Carrying
  <2>3. CASE Taken(w, type, cur[w], next, allDone)
    BY <2>1, <2>2, <2>3, AppendedEvent DEF Taken
  <2>4. CASE SinkRaised(w, allDone)
    BY <2>1, <2>4, SilentStepTells DEF SinkRaised
  <2> QED BY <1>5, <2>3, <2>4 DEF Deliver
<1>6. CASE Deliver(w, "starting", "stage.started", "lock")
  BY <1>5, <1>6 DEF EventTypes
<1>7. CASE Deliver(w, "completing", "stage.completed", "top")
  BY <1>5, <1>7 DEF EventTypes
<1>8. CASE Deliver(w, "failing", "stage.failed", "exit")
  BY <1>5, <1>8 DEF EventTypes
<1> QED BY <1>1, <1>2, <1>3, <1>4, <1>6, <1>7, <1>8 DEF Worker

\* A sink that takes events at once reads a history: dependencies first, and no
\* result without its stage.completed.
THEOREM LogsTellAll == Spec => []LogTellsAll
<1>1. Init => LogTyped /\ LogTellsAll
  BY DEF Init, LogTyped, LogTellsAll
<1>2. IInv /\ LogTyped /\ LogTellsAll /\ [Next]_vars => LogTyped' /\ LogTellsAll'
  <2> SUFFICES ASSUME IInv, LogTyped, LogTellsAll, [Next]_vars
               PROVE  LogTyped' /\ LogTellsAll'
    OBVIOUS
  <2>1. ASSUME NEW type \in EventTypes, type # "stage.started",
               log' = Append(log, Event(type, None)), UNCHANGED <<wf, results>>
        PROVE  LogTyped' /\ LogTellsAll'
    BY <2>1, AppendedEvent
  <2>2. CASE Spawn \/ ReturnCancelled \/ ReturnCompleted
    BY <2>1, <2>2 DEF Spawn, ReturnCancelled, ReturnCompleted, progress, EventTypes
  <2>3. CASE Reject \/ Join \/ RaiseFailure \/ SinkRaisesInMain \/ SetCancel \/ Abort
             \/ UNCHANGED vars
    BY <2>3, SilentStepTells
    DEF Reject, Join, RaiseFailure, SinkRaisesInMain, SetCancel, Abort, vars, progress
  <2>4. ASSUME NEW w \in Workers, Worker(w) PROVE LogTyped' /\ LogTellsAll'
    BY <2>4, WorkerTells
  <2> QED BY <2>2, <2>3, <2>4 DEF Next, Main
<1> QED BY <1>1, <1>2, Invariant, PTL DEF Spec
=============================================================================
