----------------------------- MODULE AuditRun_proofs -----------------------------
(***************************************************************************)
(* Proofs about a run of the harness audit, for any specialists, workers,  *)
(* commits and faults.                                                     *)
(*                                                                         *)
(* The scheduler of the run takes only steps of WorkflowScheduler, so the  *)
(* theorems of WorkflowScheduler_proofs hold of it.  On them rest the      *)
(* invariants of the audit itself: the runner of a stage is active exactly *)
(* while a worker runs the stage, a session or a worktree exists only      *)
(* where its runner is, and what is written about the run follows from     *)
(* what the scheduler knows.                                               *)
(***************************************************************************)
EXTENDS AuditRun, PermissionBroker, FiniteSetTheorems, SequenceTheorems, TLAPS

SP == INSTANCE WorkflowScheduler_proofs WITH
    Workflows <- {Workflow}, SinkSuspends <- FALSE, SinkRaises <- FALSE,
    RunnersFail <- Stages, CanCancel <- TRUE, CanAbort <- FALSE

-----------------------------------------------------------------------------
(* The scheduler of the run.                                               *)

\* The stages of the audit are finitely many.
LEMMA FiniteStages == SP!IsFiniteSet(Stages) /\ Stages # {}
<1>1. IsFiniteSet(First) /\ IsFiniteSet(Later) /\ IsFiniteSet(Specialists)
  <2>1. IsFiniteSet({"preflight"} \cup {"collect-evidence"})
    BY FS_Singleton, FS_Union
  <2>2. IsFiniteSet(({"lead-reconcile"} \cup {"validate-findings"})
                      \cup ({"write-report"} \cup {"graph-refresh"}))
    BY FS_Singleton, FS_Union
  <2>3. /\ First = {"preflight"} \cup {"collect-evidence"}
        /\ Later = ({"lead-reconcile"} \cup {"validate-findings"})
                      \cup ({"write-report"} \cup {"graph-refresh"})
    BY DEF First, Later
  <2> QED BY <2>1, <2>2, <2>3, AuditRunAssumption
<1>2. IsFiniteSet(Stages)
  BY <1>1, FS_Union DEF Stages
<1>3. Stages # {}
  BY DEF Stages, First
<1> QED BY <1>2, <1>3 DEF IsFiniteSet, SP!IsFiniteSet

\* A stage depends on stages of the audit, and never on itself.
LEMMA DependenciesAreStages ==
  ASSUME NEW s \in Stages
  PROVE  Dependencies(s) \subseteq Stages
  BY AuditRunAssumption DEF Dependencies, Stages, First, Later

\* What WorkflowScheduler assumes of its constants holds of the audit.
LEMMA SchedulerAssumed ==
  /\ SP!IsFiniteSet(Stages) /\ Stages # {}
  /\ MaxConcurrency \in Nat \ {0}
  /\ Stages \subseteq Stages
  /\ FALSE \in BOOLEAN /\ FALSE \in BOOLEAN
  /\ TRUE \in BOOLEAN /\ FALSE \in BOOLEAN
  /\ {Workflow} \subseteq [deps : [Stages -> SUBSET Stages],
                           effect : [Stages -> SP!Effects]]
  /\ None \notin Stages
<1>1. Workflow \in [deps : [Stages -> SUBSET Stages], effect : [Stages -> SP!Effects]]
  <2>1. [s \in Stages |-> Dependencies(s)] \in [Stages -> SUBSET Stages]
    BY DependenciesAreStages
  <2>2. [s \in Stages |-> IF s \in {"write-report", "graph-refresh"}
                          THEN "vault_write" ELSE "read_only"] \in [Stages -> SP!Effects]
    BY DEF SP!Effects, SP!Locks
  <2> QED BY <2>1, <2>2 DEF Workflow
<1> QED BY <1>1, FiniteStages, AuditRunAssumption

LEMMA NoneAssumed == None \notin SP!Workers
<1>1. SP!Cardinality(Stages) \in Nat
  BY FiniteStages, FS_CardinalityType DEF SP!Cardinality, Cardinality, SP!IsFiniteSet, IsFiniteSet
<1>2. SP!Workers \subseteq Nat
  BY <1>1, AuditRunAssumption DEF SP!Workers
<1> QED BY <1>2, AuditRunAssumption

\* The workers of the run.
LEMMA SameWorkers == Sched!Workers = SP!Workers
  BY DEF Sched!Workers, SP!Workers, Sched!Cardinality, SP!Cardinality

LEMMA SameInit == Init => SP!Init
  BY SameWorkers DEF Init, Sched!Init, SP!Init, Sched!Locks, SP!Locks,
     Sched!Cardinality, SP!Cardinality

\* The actions of the scheduler in AuditRun are those of SP.
LEMMA SameMain ==
  /\ Sched!Spawn => SP!Main
  /\ Sched!Join => SP!Main
  /\ Sched!ReturnCompleted => SP!Main
  /\ Sched!ReturnCancelled => SP!Main
  /\ Sched!RaiseFailure => SP!Main
  /\ Sched!SetCancel => SP!SetCancel
  BY SameWorkers
  DEF SP!Main, Sched!Spawn, SP!Spawn, Sched!Acyclic, SP!Acyclic, Sched!Event, SP!Event,
      Sched!Join, SP!Join, Sched!Joined, SP!Joined, Sched!Settle, SP!Settle,
      Sched!ReturnCompleted, SP!ReturnCompleted, Sched!ReturnCancelled, SP!ReturnCancelled,
      Sched!RaiseFailure, SP!RaiseFailure, Sched!SetCancel, SP!SetCancel,
      Sched!progress, SP!progress

LEMMA SameWorker ==
  ASSUME NEW w
  PROVE  /\ Sched!Loop(w) => SP!Worker(w)
         /\ Sched!PollTimeout(w) => SP!Worker(w)
         /\ \A s : Sched!Take(w, s) => SP!Worker(w)
         /\ Sched!EnterRunner(w) => SP!Worker(w)
         /\ Sched!Succeed(w) => SP!Worker(w)
         /\ Sched!Fail(w) => SP!Worker(w)
         /\ Sched!Killed(w) => SP!Worker(w)
         /\ Sched!KilledRaise(w) => SP!Worker(w)
<1> USE DEF Sched!At, SP!At, Sched!Goto, SP!Goto, Sched!Unlocked, SP!Unlocked,
            Sched!Locks, SP!Locks, Sched!progress, SP!progress
<1>1. Sched!Loop(w) => SP!Loop(w)
  BY DEF Sched!Loop, SP!Loop
<1>2. Sched!PollTimeout(w) => SP!PollTimeout(w)
  BY DEF Sched!PollTimeout, SP!PollTimeout
<1>3. ASSUME NEW s, Sched!Take(w, s) PROVE s \in ready /\ SP!Take(w, s)
  BY <1>3 DEF Sched!Take, SP!Take, Sched!Emit, SP!Emit, Sched!Taken, SP!Taken,
     Sched!SinkRaised, SP!SinkRaised, Sched!Event, SP!Event
<1>4. Sched!EnterRunner(w) => SP!EnterRunner(w)
  BY DEF Sched!EnterRunner, SP!EnterRunner
<1>5. Sched!Succeed(w) => SP!Succeed(w)
  BY DEF Sched!Succeed, SP!Succeed, Sched!Dependents, SP!Dependents, Sched!Freed, SP!Freed,
     Sched!Emit, SP!Emit, Sched!Taken, SP!Taken,
     Sched!SinkRaised, SP!SinkRaised, Sched!Event, SP!Event
<1>6. Sched!RunnerRaised(w) => SP!RunnerRaised(w)
  BY DEF Sched!RunnerRaised, SP!RunnerRaised, Sched!Emit, SP!Emit, Sched!Taken, SP!Taken,
     Sched!SinkRaised, SP!SinkRaised, Sched!Event, SP!Event
<1>7. Sched!Fail(w) => SP!Fail(w)
  BY <1>6 DEF Sched!Fail, SP!Fail
<1>8. Sched!Killed(w) => SP!Killed(w)
  BY DEF Sched!Killed, SP!Killed
<1>9. Sched!KilledRaise(w) => SP!KilledRaise(w)
  BY <1>6 DEF Sched!KilledRaise, SP!KilledRaise
<1> QED BY <1>1, <1>2, <1>3, <1>4, <1>5, <1>7, <1>8, <1>9 DEF SP!Worker

\* The steps in a session: the runner goes on, has its result, or raises.
SessionStep(w) ==
    \/ Connected(w) \/ Retry(w) \/ Replaced(w) \/ Reconnected(w)
    \/ Complete(w) \/ Deliver(w) \/ Break(w) \/ Timeout(w) \/ TimedOut(w) \/ Abandon(w)
    \/ Leave(w) \/ Interrupted(w)

InSession == Streaming \cup Closing

LEMMA SessionSteps ==
  ASSUME NEW w, SessionStep(w)
  PROVE  /\ Working /\ pc[w] = "run" /\ step[cur[w]] \in {"starting"} \cup InSession
         /\ \/ /\ \E place \in InSession : GoesOn(w, place)
               /\ Emitted(1) \/ UNCHANGED events
            \/ \E n \in 1..2 : Delivering(w, n)
            \/ Raising(w)
<1> USE DEF InSession, Streaming, Closing, Suspended, Dying, At
<1>1. CASE Connected(w) \/ Retry(w) \/ Replaced(w) \/ Reconnected(w) \/ Leave(w) \/ Interrupted(w)
  BY <1>1 DEF Connected, Retry, Replaced, Reconnected, Leave, Interrupted
<1>2. CASE Complete(w) \/ Deliver(w)
  BY <1>2 DEF Complete, Deliver
<1>3. CASE Break(w) \/ Timeout(w) \/ TimedOut(w) \/ Abandon(w)
  BY <1>3 DEF Break, Timeout, TimedOut, Abandon, Fails
<1> QED BY <1>1, <1>2, <1>3 DEF SessionStep

\* A step of a runner is a step of its worker in the scheduler, or none.
LEMMA RunnerSched ==
  ASSUME NEW w, Runner(w)
  PROVE  SP!Worker(w) \/ UNCHANGED schedVars
<1> USE SameWorker
<1>1. CASE Enter(w)
  BY <1>1 DEF Enter
<1>2. CASE RefuseCancelled(w) \/ Preflight(w) \/ Probed(w) \/ Collect(w) \/ Validate(w)
           \/ WriteReport(w) \/ GraphRefresh(w) \/ AcquireFails(w)
  BY <1>2 DEF RefuseCancelled, Preflight, Probed, Collect, Validate, WriteReport,
              GraphRefresh, AcquireFails, Raise, Return
<1>3. CASE StartAgent(w) \/ ConnectFails(w)
  BY <1>3 DEF StartAgent, ConnectFails, Raise
<1>4. CASE SessionStep(w)
  <2>1. CASE \E place \in InSession : GoesOn(w, place)
    BY <2>1 DEF GoesOn
  <2>2. CASE (\E n \in 1..2 : Delivering(w, n)) \/ Raising(w)
    BY <2>2 DEF Delivering, Raising, Raise, Return
  <2> QED BY <1>4, <2>1, <2>2, SessionSteps
<1>5. CASE Die(w)
  BY <1>5 DEF Die
<1> QED BY <1>1, <1>2, <1>3, <1>4, <1>5 DEF Runner, SessionStep

\* Every step of the run is a step of its scheduler or leaves it alone.
LEMMA StepSched == [Next]_vars => [SP!Next]_(SP!vars)
<1> SUFFICES ASSUME [Next]_vars PROVE SP!Next \/ UNCHANGED SP!vars
  OBVIOUS
<1>1. UNCHANGED schedVars => UNCHANGED SP!vars
  BY DEF schedVars, SP!vars, SP!progress
<1>2. CASE Main
  BY <1>2, SameMain DEF Main, Open, Join, EndCompleted, EndCancelled, EndFailed, SP!Next
<1>3. ASSUME NEW w \in Workers, Idle(w) \/ Runner(w) \/ \E s \in Stages : Take(w, s)
      PROVE  SP!Next \/ UNCHANGED schedVars
  <2>1. w \in SP!Workers
    BY SameWorkers DEF Workers
  <2>2. CASE Idle(w)
    BY <2>1, <2>2, SameWorker DEF Idle, SP!Next
  <2>3. CASE Runner(w)
    BY <2>1, <2>3, RunnerSched DEF SP!Next
  <2>4. CASE \E s \in Stages : Take(w, s)
    BY <2>1, <2>4, SameWorker DEF Take, SP!Next
  <2> QED BY <1>3, <2>2, <2>3, <2>4
<1>4. CASE Cancel
  BY <1>4, SameMain DEF Cancel, SP!Next
<1>5. CASE CancelInterrupted \/ CancelClosed \/ Commit \/ Crash \/ Restart \/ UNCHANGED vars
  <2>1. UNCHANGED schedVars
    BY <1>5 DEF CancelInterrupted, CancelClosed, Commit, Crash, Restart, vars
  <2> QED BY <1>1, <2>1
<1> QED BY <1>1, <1>2, <1>3, <1>4, <1>5 DEF Next

\* The scheduler of the run keeps all its promises.
THEOREM SchedulerOfTheRun == Spec => SP!Spec
  BY SameInit, StepSched, PTL DEF Spec, SP!Spec

\* What the proofs below use of it.
SchedFacts == SP!IInv /\ SP!Lifetimes /\ SP!StatusFits /\ SP!OutcomeAccurate

THEOREM SchedulerInvariant == Spec => []SchedFacts
<1>1. SP!Spec => [](SP!IInv /\ SP!Lifetimes)
  BY SP!Invariant, SchedulerAssumed, NoneAssumed
<1>2. SP!Spec => [](SP!StatusFits /\ SP!OutcomeAccurate)
  BY SP!OutcomeInvariant, SchedulerAssumed, NoneAssumed
<1> QED BY <1>1, <1>2, SchedulerOfTheRun, PTL DEF SchedFacts

-----------------------------------------------------------------------------
(* What the steps of the scheduler do to the workers and the results.      *)

\* The types and the order of things in the scheduler, as used below.
LEMMA SchedTypes ==
  ASSUME SchedFacts
  PROVE  /\ wf = Workflow
         /\ pc \in [Workers -> SP!WorkerLabels]
         /\ cur \in [Workers -> Stages \cup {None}]
         /\ status \in [Stages -> SP!Statuses]
         /\ results \subseteq Stages /\ entered \subseteq Stages /\ ready \subseteq Stages
         /\ failure \in Stages \cup {None} /\ cancelled \in BOOLEAN
         /\ kill \subseteq Workers
  BY SameWorkers DEF SchedFacts, SP!IInv, SP!TypeOK, Workers

\* A worker in a runner has a stage of its own, without a result, that was entered
\* when its dependencies had their results; a stage about to be entered never was.
LEMMA Running ==
  ASSUME SchedFacts, NEW w \in Workers, pc[w] \in {"lock", "run"}
  PROVE  /\ cur[w] \in Stages \ results
         /\ Dependencies(cur[w]) \subseteq results
         /\ pc[w] = "run" => cur[w] \in entered
         /\ pc[w] = "lock" => cur[w] \notin entered
         /\ cur[w] # failure
         /\ \A v \in Workers : v # w /\ pc[v] \in {"lock", "run"} => cur[v] # cur[w]
<1>1. /\ cur[w] \in Stages \ results /\ wf.deps[cur[w]] \subseteq results
      /\ \A v \in Workers : v # w /\ pc[v] \in {"lock", "run"} => cur[v] # cur[w]
  BY SameWorkers DEF SchedFacts, SP!IInv, SP!CarriedStages, SP!Carrying, Workers
<1>2. Dependencies(cur[w]) \subseteq results
  BY <1>1, SchedTypes DEF Workflow
<1>3. /\ pc[w] = "run" => cur[w] \in entered
      /\ pc[w] = "lock" => cur[w] \notin entered
      /\ status[cur[w]] = "running"
  BY SameWorkers DEF SchedFacts, SP!IInv, SP!PastStages, SP!StatusFits, Workers
<1>4. failure # None => status[failure] = "failed"
  BY DEF SchedFacts, SP!StatusFits
<1>5. cur[w] # failure
  BY <1>1, <1>3, <1>4, AuditRunAssumption
<1> QED BY <1>1, <1>2, <1>3, <1>5

\* Once a stage was entered its dependencies have results.
LEMMA Entered ==
  ASSUME SchedFacts, NEW s \in results \cup entered
  PROVE  s \in Stages /\ Dependencies(s) \subseteq results
<1>1. s \in Stages /\ wf.deps[s] \subseteq results
  BY SchedTypes DEF SchedFacts, SP!IInv, SP!PastStages
<1> QED BY <1>1, SchedTypes DEF Workflow

\* The steps of a worker out of a runner.
LEMMA Leaving ==
  ASSUME NEW w \in Workers
  PROVE  /\ Sched!Succeed(w) =>
              /\ pc[w] = "run" /\ pc' = [pc EXCEPT ![w] = "top"]
              /\ results' = results \cup {cur[w]}
              /\ UNCHANGED <<wf, main, failure, cancelled, cur, entered>>
         /\ Sched!Fail(w) \/ Sched!KilledRaise(w) =>
              /\ pc[w] = "run" /\ pc' = [pc EXCEPT ![w] = "exit"]
              /\ failure' = IF failure = None THEN cur[w] ELSE failure
              /\ UNCHANGED <<wf, main, results, cancelled, cur, entered>>
         /\ Sched!Killed(w) =>
              /\ pc' = [pc EXCEPT ![w] = "exit"]
              /\ UNCHANGED <<wf, main, results, failure, cancelled, cur, entered>>
  BY DEF Sched!Succeed, Sched!Fail, Sched!KilledRaise, Sched!RunnerRaised, Sched!Killed,
         Sched!Emit, Sched!Taken, Sched!SinkRaised, Sched!Goto, Sched!At, Sched!progress

\* The steps of a worker into a runner.
LEMMA Entering ==
  ASSUME NEW w \in Workers
  PROVE  /\ \A s : Sched!Take(w, s) =>
              /\ pc[w] = "get" /\ pc' = [pc EXCEPT ![w] = "lock"]
              /\ s \in ready /\ cur' = [cur EXCEPT ![w] = s]
              /\ UNCHANGED <<wf, main, results, failure, cancelled, entered>>
         /\ Sched!EnterRunner(w) =>
              /\ pc[w] = "lock" /\ pc' = [pc EXCEPT ![w] = "run"]
              /\ entered' = entered \cup {cur[w]}
              /\ UNCHANGED <<wf, main, status, results, failure, cancelled, cur>>
  BY DEF Sched!Take, Sched!EnterRunner, Sched!Emit, Sched!Taken, Sched!SinkRaised,
         Sched!Goto, Sched!At, Sched!progress

\* A worker without a stage.
LEMMA Idling ==
  ASSUME NEW w \in Workers, Idle(w)
  PROVE  /\ pc[w] # "run"
         /\ \E l \in {"exit", "get", "top"} : pc' = [pc EXCEPT ![w] = l]
         /\ UNCHANGED <<wf, main, results, failure, cancelled, cur, entered>>
  BY DEF Idle, Sched!Loop, Sched!PollTimeout, Sched!Killed, Sched!Goto, Sched!At, Sched!progress

-----------------------------------------------------------------------------
(* Where the runners are.                                                  *)

Holding == {"starting"} \cup InSession
Busy == {"go", "probing"} \cup Holding

\* The runner of a stage is active exactly while a worker is in it, and it was called.
StepsFit ==
    /\ step \in [Stages -> {"idle", "over"} \cup Busy]
    /\ \A w \in Workers : pc[w] = "run" => step[cur[w]] \in Busy
    /\ \A s \in Stages : step[s] \in Busy => \E w \in Workers : pc[w] = "run" /\ cur[w] = s
    /\ \A s \in Stages : step[s] # "idle" => s \in entered

\* A runner goes on.
RunnerMoves(w, place) ==
    /\ pc[w] = "run" /\ place \in Busy
    /\ step' = [step EXCEPT ![cur[w]] = place]
    /\ UNCHANGED <<main, cancelled, pc, cur, results, entered>>

\* A runner ends.
RunnerEnds(w) ==
    /\ pc[w] = "run"
    /\ \E l \in {"top", "exit"} : pc' = [pc EXCEPT ![w] = l]
    /\ step' = [step EXCEPT ![cur[w]] = "over"]
    /\ UNCHANGED <<main, cancelled, cur, entered>>

\* What the steps of a runner are, apart from its call.
LEMMA RunnerSteps ==
  ASSUME NEW w \in Workers, Runner(w)
  PROVE  \/ Enter(w)
         \/ \E place \in Busy : RunnerMoves(w, place)
         \/ RunnerEnds(w)
<1>1. ASSUME (\E n : Return(w, n)) \/ (\E c, n : Raise(w, c, n)) PROVE RunnerEnds(w)
  BY <1>1, Leaving DEF Return, Raise, Raised, Goto, RunnerEnds
<1>2. CASE RefuseCancelled(w) \/ Probed(w) \/ Collect(w) \/ Validate(w)
           \/ WriteReport(w) \/ GraphRefresh(w) \/ AcquireFails(w) \/ ConnectFails(w)
  BY <1>1, <1>2 DEF RefuseCancelled, Probed, Collect, Validate, WriteReport, GraphRefresh,
                    AcquireFails, ConnectFails
<1>3. CASE Preflight(w)
  <2>1. CASE Goto("preflight", "probing") /\ UNCHANGED schedVars
    <3>1. RunnerMoves(w, "probing")
      BY <1>3, <2>1 DEF Preflight, Begin, At, Goto, RunnerMoves, schedVars, Busy
    <3> QED BY <3>1 DEF Busy
  <2> QED BY <1>1, <1>3, <2>1 DEF Preflight
<1>4. CASE StartAgent(w)
  <2>1. RunnerMoves(w, "starting")
    BY <1>4 DEF StartAgent, At, Goto, RunnerMoves, schedVars, Busy, Holding
  <2> QED BY <2>1 DEF Busy, Holding
<1>5. CASE SessionStep(w)
  <2>1. ASSUME NEW place \in InSession, GoesOn(w, place) PROVE RunnerMoves(w, place)
    BY <1>5, <2>1, SessionSteps DEF GoesOn, Goto, RunnerMoves, schedVars, Busy, Holding
  <2>2. CASE \E place \in InSession : GoesOn(w, place)
    BY <2>1, <2>2 DEF Busy, Holding
  <2>3. CASE (\E n \in 1..2 : Delivering(w, n)) \/ Raising(w)
    BY <1>1, <2>3 DEF Delivering, Raising
  <2> QED BY <1>5, <2>2, <2>3, SessionSteps
<1>9. CASE Die(w)
  <2>1. pc[w] = "run"
    BY <1>9 DEF Die, Dying
  <2>2. Goto(cur[w], "over")
    BY <1>9 DEF Die, Raised
  <2>3. Sched!Killed(w) \/ Sched!KilledRaise(w)
    BY <1>9 DEF Die
  <2> QED BY <2>1, <2>2, <2>3, Leaving DEF Goto, RunnerEnds
<1> QED BY <1>2, <1>3, <1>4, <1>5, <1>9 DEF Runner, SessionStep

\* The steps that touch neither the workers nor the runners.
LEMMA StillSteps ==
  ASSUME \/ Join \/ EndCompleted \/ EndCancelled \/ EndFailed
         \/ Cancel \/ CancelInterrupted \/ CancelClosed
         \/ Commit \/ Crash \/ Restart \/ UNCHANGED vars
  PROVE  UNCHANGED <<wf, pc, cur, results, failure, entered, step>>
<1>1. CASE CancelInterrupted \/ CancelClosed \/ Commit \/ Crash \/ Restart \/ UNCHANGED vars
  BY <1>1 DEF CancelInterrupted, CancelClosed, Commit, Crash, Restart, vars, schedVars
<1>2. CASE Join \/ Cancel
  BY <1>2 DEF Join, Sched!Join, Cancel, Sched!SetCancel, Sched!progress
<1>3. CASE EndCompleted \/ EndCancelled \/ EndFailed
  BY <1>3 DEF EndCompleted, EndCancelled, EndFailed, End, Sched!ReturnCompleted,
              Sched!ReturnCancelled, Sched!RaiseFailure, Sched!progress
<1> QED BY <1>1, <1>2, <1>3

\* Every step keeps the runners with their workers.
LEMMA NextSteps == SchedFacts /\ StepsFit /\ [Next]_vars => StepsFit'
<1> SUFFICES ASSUME SchedFacts, StepsFit, [Next]_vars PROVE StepsFit'
  OBVIOUS
<1>0. /\ pc \in [Workers -> SP!WorkerLabels] /\ cur \in [Workers -> Stages \cup {None}]
      /\ entered \subseteq Stages
  BY SchedTypes
<1>1. CASE UNCHANGED <<pc, cur, entered, step>>
  BY <1>1 DEF StepsFit
<1>2. CASE Open
  <2>1. /\ \A w \in Workers : pc[w] = "unborn"
        /\ pc' = [w \in Workers |-> "top"]
        /\ UNCHANGED <<cur, entered, step>>
    BY <1>2, SameWorkers
    DEF Open, Sched!Spawn, SchedFacts, SP!Lifetimes, Workers
  <2> QED BY <2>1 DEF StepsFit
<1>3. ASSUME NEW w \in Workers, Idle(w) PROVE StepsFit'
  <2>1. PICK l \in {"exit", "get", "top"} : pc' = [pc EXCEPT ![w] = l]
    BY <1>3, Idling
  <2>2. pc[w] # "run" /\ UNCHANGED <<cur, entered, step>>
    BY <1>3, Idling DEF Idle
  <2> QED BY <1>0, <2>1, <2>2 DEF StepsFit
<1>4. ASSUME NEW w \in Workers, NEW s \in Stages, Take(w, s) PROVE StepsFit'
  <2>1. /\ pc[w] = "get" /\ pc' = [pc EXCEPT ![w] = "lock"]
        /\ cur' = [cur EXCEPT ![w] = s]
        /\ UNCHANGED <<entered, step>>
    BY <1>4, Entering DEF Take
  <2> QED BY <1>0, <2>1 DEF StepsFit
<1>5. ASSUME NEW w \in Workers, Enter(w) PROVE StepsFit'
  <2>1. /\ pc[w] = "lock" /\ pc' = [pc EXCEPT ![w] = "run"]
        /\ entered' = entered \cup {cur[w]} /\ UNCHANGED cur
        /\ step' = [step EXCEPT ![cur[w]] = "go"]
    BY <1>5, Entering DEF Enter, Goto
  <2>2. cur[w] \in Stages
    BY <2>1, Running
  <2>3. /\ step' \in [Stages -> {"idle", "over"} \cup Busy]
        /\ step'[cur[w]] = "go" /\ pc'[w] = "run" /\ "go" \in Busy
        /\ \A s \in Stages : s # cur[w] => step'[s] = step[s]
        /\ \A v \in Workers : v # w => pc'[v] = pc[v]
    BY <1>0, <2>1, <2>2 DEF StepsFit, Busy
  <2> QED BY <2>1, <2>2, <2>3 DEF StepsFit
<1>6. ASSUME NEW w \in Workers, NEW place \in Busy, RunnerMoves(w, place) PROVE StepsFit'
  <2>1. cur[w] \in Stages /\ pc[w] = "run" /\ UNCHANGED <<pc, cur, entered>>
        /\ step' = [step EXCEPT ![cur[w]] = place]
    BY <1>6, Running DEF RunnerMoves
  <2>2. cur[w] \in entered
    BY <2>1, Running
  <2> QED BY <2>1, <2>2 DEF StepsFit
<1>7. ASSUME NEW w \in Workers, RunnerEnds(w) PROVE StepsFit'
  <2>1. PICK l \in {"top", "exit"} : pc' = [pc EXCEPT ![w] = l]
    BY <1>7 DEF RunnerEnds
  <2>2. /\ cur[w] \in Stages /\ cur[w] \in entered /\ pc[w] = "run"
        /\ UNCHANGED <<cur, entered>>
        /\ step' = [step EXCEPT ![cur[w]] = "over"]
        /\ \A v \in Workers : v # w /\ pc[v] = "run" => cur[v] # cur[w]
    BY <1>7, Running DEF RunnerEnds
  <2>3. /\ step' \in [Stages -> {"idle", "over"} \cup Busy]
        /\ step'[cur[w]] = "over" /\ pc'[w] # "run" /\ "over" \notin Busy
        /\ \A s \in Stages : s # cur[w] => step'[s] = step[s]
        /\ \A v \in Workers : v # w => pc'[v] = pc[v]
    BY <1>0, <2>1, <2>2 DEF StepsFit, Busy, Holding, InSession, Streaming, Closing
  <2>4. ASSUME NEW s \in Stages, step'[s] \in Busy
        PROVE  \E v \in Workers : pc'[v] = "run" /\ cur'[v] = s
    <3>1. s # cur[w] /\ step[s] \in Busy
      BY <2>3, <2>4
    <3>2. PICK v \in Workers : pc[v] = "run" /\ cur[v] = s
      BY <3>1 DEF StepsFit
    <3> QED BY <2>2, <2>3, <3>1, <3>2
  <2>5. \A v \in Workers : pc'[v] = "run" => step'[cur'[v]] \in Busy
    <3> SUFFICES ASSUME NEW v \in Workers, pc'[v] = "run" PROVE step'[cur[v]] \in Busy
      BY <2>2
    <3>1. v # w /\ pc[v] = "run" /\ cur[v] # cur[w]
      BY <2>2, <2>3
    <3>2. cur[v] \in Stages
      BY <3>1, Running
    <3> QED BY <2>3, <3>1, <3>2 DEF StepsFit
  <2>6. \A s \in Stages : step'[s] # "idle" => s \in entered'
    BY <2>2, <2>3 DEF StepsFit
  <2> QED BY <2>3, <2>4, <2>5, <2>6 DEF StepsFit
<1>8. ASSUME NEW w \in Workers, Runner(w) PROVE StepsFit'
  BY <1>5, <1>6, <1>7, <1>8, RunnerSteps
<1>9. CASE \/ Join \/ EndCompleted \/ EndCancelled \/ EndFailed
           \/ Cancel \/ CancelInterrupted \/ CancelClosed
           \/ Commit \/ Crash \/ Restart \/ UNCHANGED vars
  BY <1>1, <1>9, StillSteps
<1> QED BY <1>2, <1>3, <1>4, <1>8, <1>9 DEF Next, Main

-----------------------------------------------------------------------------
(* Sessions, worktrees and the commit they are about.                      *)

Holds(s) == step[s] \in Holding

SessionStates == [client : 0..2, open : BOOLEAN, closed : BOOLEAN]
CancelStates ==
    [phase : {"none", "done"}, index : Nat, at : {None}, client : {0}]
    \cup [phase : {"interrupting", "closing"}, index : Nat, at : AgentStages, client : 0..2]

HeldTypes ==
    /\ live \in Seq(AgentStages)
    /\ session \in [AgentStages -> SessionStates]
    /\ cancel \in CancelStates
    /\ worktree \in [Specialists -> Nat \cup {None}]
    /\ head \in Nat /\ bundleHead \in Nat \cup {None}

\* Somebody is still to disconnect the client of s, or just does: its runner, or
\* cancel().
Answered(s) ==
    \/ step[s] \in Streaming /\ ~session[s].closed
    \/ step[s] \in Closing /\ session[s].closed
    \/ ClosedByCancel(s)

\* A session is on the list once, while its runner is in it, and its client is not
\* forgotten; there is no request to cancel before it was made.
SessionsHeld ==
    /\ \A i \in 1..Len(live) : step[live[i]] \in InSession
    /\ \A i, j \in 1..Len(live) : live[i] = live[j] => i = j
    /\ \A s \in AgentStages : session[s].open => Answered(s)
    /\ cancelled \/ cancel.phase = "none"

\* A worktree is there while the runner of its specialist needs it, and it is at the
\* HEAD of the evidence, which specialists wait for.
WorktreesHeld ==
    /\ \A s \in Stages : /\ Holds(s) => s \in AgentStages
                         /\ step[s] = "probing" => s = "preflight"
    /\ task # "lost" => \A s \in Specialists : Holds(s) => worktree[s] # None
    /\ \A s \in Specialists : worktree[s] # None => worktree[s] = bundleHead /\ s \in entered
    /\ "collect-evidence" \in results => bundleHead # None

\* The task is at work while its workers are; a server that is down has lost it.
TaskFits ==
    /\ ~up => task = "lost"
    /\ task = "working" => main \in {"wait", "join"}
    /\ task = "gone" => \A w \in Workers : pc[w] = "exit"

Held == HeldTypes /\ SessionsHeld /\ WorktreesHeld

\* list.remove: the others stay, in their order.
LEMMA Removing ==
  ASSUME NEW S, NEW q \in Seq(S), NEW i \in 1..Len(q)
  PROVE  LET r == SubSeq(q, 1, i - 1) \o SubSeq(q, i + 1, Len(q)) IN
         /\ r \in Seq(S)
         /\ Len(r) = Len(q) - 1
         /\ \A j \in 1..Len(r) : r[j] = q[IF j < i THEN j ELSE j + 1]
<1> DEFINE a == SubSeq(q, 1, i - 1)
           b == SubSeq(q, i + 1, Len(q))
<1>1. a \in Seq(S) /\ Len(a) = i - 1 /\ \A j \in 1..(i - 1) : a[j] = q[j]
  OBVIOUS
<1>2. /\ b \in Seq(S) /\ Len(b) = Len(q) - i
      /\ \A j \in 1..(Len(q) - i) : b[j] = q[j + i]
  OBVIOUS
<1> HIDE DEF a, b
<1>3. /\ a \o b \in Seq(S) /\ Len(a \o b) = Len(q) - 1
      /\ \A j \in 1..(Len(q) - 1) : (a \o b)[j] = IF j <= i - 1 THEN a[j] ELSE b[j - (i - 1)]
  <2>1. /\ a \o b \in Seq(S) /\ Len(a \o b) = Len(a) + Len(b)
        /\ \A j \in 1..(Len(a) + Len(b)) :
              (a \o b)[j] = IF j <= Len(a) THEN a[j] ELSE b[j - Len(a)]
    BY <1>1, <1>2, ConcatProperties
  <2>2. Len(a) = i - 1 /\ Len(a) + Len(b) = Len(q) - 1
    BY <1>1, <1>2
  <2> QED BY <2>1, <2>2
<1>4. ASSUME NEW j \in 1..(Len(q) - 1)
      PROVE  (a \o b)[j] = q[IF j < i THEN j ELSE j + 1]
  <2>1. CASE j < i
    <3>1. j <= i - 1 /\ j \in 1..(i - 1)
      BY <2>1
    <3> QED BY <1>1, <1>3, <2>1, <3>1
  <2>2. CASE ~(j < i)
    <3>1. j - (i - 1) \in 1..(Len(q) - i) /\ (j - (i - 1)) + i = j + 1
      BY <2>2
    <3>2. b[j - (i - 1)] = q[j + 1]
      BY <1>2, <3>1
    <3>3. (a \o b)[j] = IF j <= i - 1 THEN a[j] ELSE b[j - (i - 1)]
      BY <1>3
    <3>4. ~(j <= i - 1)
      BY <2>2
    <3> QED BY <2>2, <3>2, <3>3, <3>4
  <2> QED BY <2>1, <2>2
<1> QED BY <1>3, <1>4 DEF a, b

\* A session that leaves the list: it is not there any more, the others are.
LEMMA Unregistered ==
  ASSUME live \in Seq(AgentStages), NEW s, Unregister(s),
         \A i, j \in 1..Len(live) : live[i] = live[j] => i = j
  PROVE  /\ live' \in Seq(AgentStages)
         /\ \A i \in 1..Len(live') : \E k \in 1..Len(live) : live'[i] = live[k] /\ live[k] # s
         /\ \A i, j \in 1..Len(live') : live'[i] = live'[j] => i = j
<1>1. CASE UNCHANGED live /\ \A i \in 1..Len(live) : live[i] # s
  BY <1>1
<1>2. ASSUME NEW n \in 1..Len(live), live[n] = s, live' = Without(n)
      PROVE  /\ live' \in Seq(AgentStages)
             /\ \A i \in 1..Len(live') : \E k \in 1..Len(live) : live'[i] = live[k] /\ live[k] # s
             /\ \A i, j \in 1..Len(live') : live'[i] = live'[j] => i = j
  <2> DEFINE p(j) == IF j < n THEN j ELSE j + 1
  <2>1. /\ live' \in Seq(AgentStages) /\ Len(live') = Len(live) - 1
        /\ \A j \in 1..Len(live') : live'[j] = live[p(j)]
    BY <1>2, Removing DEF Without
  <2>2. \A j \in 1..Len(live') : p(j) \in 1..Len(live) /\ p(j) # n
    BY <2>1
  <2>3. \A i, j \in 1..Len(live') : p(i) = p(j) => i = j
    OBVIOUS
  <2> HIDE DEF p
  <2>4. \A j \in 1..Len(live') : live[p(j)] # s
    BY <1>2, <2>2
  <2> QED BY <2>1, <2>2, <2>3, <2>4
<1> QED BY <1>1, <1>2 DEF Unregister

\* The stages with an agent session.
LEMMA StageNames ==
  /\ AgentStages \subseteq Stages /\ Specialists \subseteq AgentStages
  /\ {"preflight", "collect-evidence"} \subseteq Stages \ AgentStages
  /\ "preflight" # "collect-evidence"
  /\ \A s \in Specialists : Dependencies(s) = {"collect-evidence"}
  BY AuditRunAssumption DEF Stages, AgentStages, First, Later, Dependencies

\* A step that leaves sessions and worktrees alone, and in which no runner comes to
\* hold one or lets one go.
LEMMA QuietKeepsHeld ==
  ASSUME Held, UNCHANGED <<live, session, worktree, bundleHead>>, head' \in Nat,
         UNCHANGED cancel \/ (cancelled' /\ cancel' \in CancelStates /\ cancel.phase # "closing"),
         cancelled => cancelled',
         \A s \in Stages : \/ step'[s] = step[s]
                           \/ /\ ~Holds(s) /\ step'[s] \notin Holding
                              /\ step'[s] = "probing" => s = "preflight",
         entered \subseteq entered',
         "collect-evidence" \in results' => "collect-evidence" \in results,
         task = "lost" => task' = "lost"
  PROVE  Held'
<1>1. HeldTypes'
  BY DEF Held, HeldTypes
<1>2. \A s \in Stages : step'[s] \in Holding <=> step[s] \in Holding
  BY DEF Holds
<1>3. \A s \in Stages : step[s] \in Holding => step'[s] = step[s]
  BY DEF Holds
<1>4. SessionsHeld'
  <2>1. ASSUME NEW i \in 1..Len(live) PROVE step'[live[i]] \in InSession
    <3>1. live[i] \in Stages /\ step[live[i]] \in InSession
      BY StageNames DEF Held, HeldTypes, SessionsHeld
    <3> QED BY <1>3, <3>1 DEF Holding
  <2>2. ASSUME NEW s \in AgentStages, session[s].open PROVE Answered(s)'
    <3>1. s \in Stages /\ Answered(s)
      BY <2>2, StageNames DEF Held, SessionsHeld
    <3>2. CASE ClosedByCancel(s)
      BY <3>2 DEF ClosedByCancel, Answered
    <3>3. CASE step[s] \in InSession
      <4>1. step'[s] = step[s]
        BY <1>3, <3>1, <3>3 DEF Holding
      <4> QED BY <3>1, <3>2, <4>1 DEF Answered
    <3> QED BY <3>1, <3>2, <3>3 DEF Answered, InSession
  <2> QED BY <2>1, <2>2 DEF Held, SessionsHeld
<1>5. WorktreesHeld'
  BY <1>2, StageNames DEF Held, WorktreesHeld, Holds
<1> QED BY <1>1, <1>4, <1>5 DEF Held

\* A runner goes on with its worktree; nothing of others changes.
LEMMA HoldingMoves ==
  ASSUME SchedFacts, StepsFit, Held, NEW w \in Workers, NEW place \in Holding,
         RunnerMoves(w, place), cur[w] \in AgentStages,
         UNCHANGED <<task, head, bundleHead, cancel>>,
         \/ worktree' = worktree /\ Holds(cur[w])
         \/ worktree' = worktree /\ cur[w] \notin Specialists
         \/ cur[w] \in Specialists /\ worktree' = [worktree EXCEPT ![cur[w]] = bundleHead],
         live' \in Seq(AgentStages),
         \A i \in 1..Len(live') : step'[live'[i]] \in InSession,
         \A i, j \in 1..Len(live') : live'[i] = live'[j] => i = j,
         session' \in [AgentStages -> SessionStates],
         session'[cur[w]].open => Answered(cur[w])',
         \A s \in AgentStages \ {cur[w]} : session'[s] = session[s]
  PROVE  Held'
<1> DEFINE s == cur[w]
<1>1. /\ pc[w] = "run" /\ s \in Stages /\ s \in entered
      /\ step' = [step EXCEPT ![s] = place] /\ UNCHANGED <<cancelled, cur, results, entered>>
      /\ Dependencies(s) \subseteq results
  BY Running DEF RunnerMoves
<1>2. \A t \in Stages : step'[t] = IF t = s THEN place ELSE step[t]
  BY <1>1 DEF StepsFit
<1>3. s \in Specialists => bundleHead \in Nat /\ bundleHead # None
  BY <1>1, StageNames DEF Held, HeldTypes, WorktreesHeld
<1>4. HeldTypes'
  BY <1>3 DEF Held, HeldTypes
<1>5. SessionsHeld'
  <2>1. ASSUME NEW t \in AgentStages \ {s}, session[t].open PROVE Answered(t)'
    BY <1>2, <2>1, StageNames DEF Held, SessionsHeld, Answered, ClosedByCancel
  <2> QED BY <1>1, <2>1 DEF Held, SessionsHeld
<1>6. WorktreesHeld'
  <2>1. \A t \in Stages : /\ Holds(t)' => t \in AgentStages
                          /\ step'[t] = "probing" => t = "preflight"
    BY <1>2 DEF Held, WorktreesHeld, Holds, Holding, InSession, Streaming, Closing
  <2>2. \A t \in Specialists : worktree'[t] = IF t = s THEN worktree'[s] ELSE worktree[t]
    BY DEF Held, HeldTypes
  <2>3. task' # "lost" => \A t \in Specialists : Holds(t)' => worktree'[t] # None
    <3> SUFFICES ASSUME task # "lost", NEW t \in Specialists, Holds(t)'
                 PROVE  worktree'[t] # None
      OBVIOUS
    <3>1. CASE t # s
      BY <1>2, <2>2, <3>1, StageNames DEF Held, WorktreesHeld, Holds
    <3>2. CASE t = s
      BY <1>3, <3>2 DEF Held, HeldTypes, WorktreesHeld
    <3> QED BY <3>1, <3>2
  <2>4. \A t \in Specialists : worktree'[t] # None => worktree'[t] = bundleHead /\ t \in entered
    BY <1>1, <2>2 DEF Held, HeldTypes, WorktreesHeld
  <2> QED BY <1>1, <2>1, <2>3, <2>4 DEF Held, WorktreesHeld
<1> QED BY <1>4, <1>5, <1>6 DEF Held

\* A runner ends: its session is off the list, its client disconnected, given up or
\* left to cancel(), its worktree removed or not.
LEMMA ReleaseKeepsHeld ==
  ASSUME SchedFacts, StepsFit, Held, NEW w \in Workers, RunnerEnds(w),
         step[cur[w]] \in {"probing"} \cup Holding, cur[w] # "collect-evidence",
         results' = results \/ results' = results \cup {cur[w]},
         UNCHANGED <<task, head, bundleHead, cancel>>,
         NEW ok \in Removals(cur[w]), Removed(cur[w], ok),
         Unregister(cur[w]) \/ (UNCHANGED live /\ step[cur[w]] \notin InSession),
         session' \in [AgentStages -> SessionStates],
         cur[w] \in AgentStages /\ session'[cur[w]].open => ClosedByCancel(cur[w])',
         \A s \in AgentStages \ {cur[w]} : session'[s] = session[s]
  PROVE  Held'
<1> DEFINE s == cur[w]
<1>1. /\ pc[w] = "run" /\ s \in Stages /\ UNCHANGED <<cancelled, cur, entered>>
      /\ step' = [step EXCEPT ![s] = "over"]
  BY Running DEF RunnerEnds
<1>2. \A t \in Stages : step'[t] = IF t = s THEN "over" ELSE step[t]
  BY <1>1 DEF StepsFit
<1>3. "over" \notin Holding /\ "over" # "probing"
  BY DEF Holding, InSession, Streaming, Closing
<1>4. \A t \in Specialists : /\ worktree'[t] \in {worktree[t], None}
                             /\ t # s => worktree'[t] = worktree[t]
  BY DEF Removed, Held, HeldTypes
<1>5. HeldTypes'
  <2>1. worktree' \in [Specialists -> Nat \cup {None}]
    BY DEF Removed, Held, HeldTypes
  <2>2. live' \in Seq(AgentStages)
    BY Unregistered DEF Held, HeldTypes, SessionsHeld
  <2> QED BY <2>1, <2>2 DEF Held, HeldTypes
<1>6. SessionsHeld'
  <2>1. /\ \A i \in 1..Len(live') : \E k \in 1..Len(live) : live'[i] = live[k] /\ live[k] # s
        /\ \A i, j \in 1..Len(live') : live'[i] = live'[j] => i = j
    BY Unregistered DEF Held, HeldTypes, SessionsHeld
  <2>2. \A k \in 1..Len(live) : live[k] \in Stages
    BY StageNames DEF Held, HeldTypes
  <2>3. \A i \in 1..Len(live') : step'[live'[i]] \in InSession
    BY <1>2, <2>1, <2>2 DEF Held, SessionsHeld
  <2>4. ASSUME NEW t \in AgentStages, session'[t].open PROVE Answered(t)'
    <3>1. CASE t = s
      BY <1>1, <2>4, <3>1 DEF Answered
    <3>2. CASE t # s
      BY <1>2, <2>4, <3>2, StageNames DEF Held, SessionsHeld, Answered, ClosedByCancel
    <3> QED BY <3>1, <3>2
  <2> QED BY <1>1, <2>1, <2>3, <2>4 DEF Held, SessionsHeld
<1>7. WorktreesHeld'
  <2>1. "collect-evidence" \in results' => bundleHead # None
    BY DEF Held, WorktreesHeld
  <2>2. \A t \in Stages : /\ Holds(t)' => t \in AgentStages
                          /\ step'[t] = "probing" => t = "preflight"
    BY <1>2, <1>3 DEF Held, WorktreesHeld, Holds
  <2>3. task' # "lost" => \A t \in Specialists : Holds(t)' => worktree'[t] # None
    BY <1>2, <1>3, <1>4, StageNames DEF Held, WorktreesHeld, Holds
  <2>4. \A t \in Specialists : worktree'[t] # None => worktree'[t] = bundleHead /\ t \in entered
    BY <1>4 DEF Held, WorktreesHeld
  <2> QED BY <1>1, <2>1, <2>2, <2>3, <2>4 DEF WorktreesHeld
<1> QED BY <1>5, <1>6, <1>7 DEF Held

\* The steps of the run while its task is at work: all but the last three actors'.
LEMMA AtWork ==
  ASSUME \/ Join \/ EndCompleted \/ EndCancelled \/ EndFailed
         \/ \E w \in Workers : Idle(w) \/ Runner(w) \/ \E s \in Stages : Take(w, s)
  PROVE  Working /\ UNCHANGED up
<1>1. CASE Join \/ EndCompleted \/ EndCancelled \/ EndFailed
  BY <1>1 DEF Join, EndCompleted, EndCancelled, EndFailed, End, runVars
<1>2. ASSUME NEW w \in Workers, Idle(w) \/ \E s \in Stages : Take(w, s)
      PROVE  Working /\ UNCHANGED up
  BY <1>2 DEF Idle, Take, runVars
<1>3. ASSUME NEW w \in Workers, Runner(w) PROVE Working /\ UNCHANGED <<task, up>>
  <2>1. CASE Enter(w) \/ RefuseCancelled(w) \/ Preflight(w) \/ Probed(w) \/ Collect(w)
             \/ Validate(w) \/ WriteReport(w) \/ GraphRefresh(w) \/ AcquireFails(w)
    BY <2>1 DEF Enter, RefuseCancelled, Preflight, Probed, Collect, Validate, WriteReport,
                GraphRefresh, AcquireFails, Begin, Suspended, At, runVars
  <2>2. CASE StartAgent(w) \/ ConnectFails(w) \/ Die(w)
    BY <2>2 DEF StartAgent, ConnectFails, Die, Suspended, Dying, At, runVars
  <2>3. CASE SessionStep(w)
    BY <2>3, SessionSteps DEF GoesOn, Delivering, Raising, runVars
  <2> QED BY <1>3, <2>1, <2>2, <2>3 DEF Runner, SessionStep
<1> QED BY <1>1, <1>2, <1>3

\* A worker's steps leave the task at work.
LEMMA WorkersKeepTask ==
  ASSUME NEW w \in Workers, Idle(w) \/ Runner(w) \/ \E s \in Stages : Take(w, s)
  PROVE  UNCHANGED task
<1>1. CASE Idle(w) \/ \E s \in Stages : Take(w, s)
  BY <1>1 DEF Idle, Take, runVars
<1>2. CASE Enter(w) \/ RefuseCancelled(w) \/ Preflight(w) \/ Probed(w) \/ Collect(w)
           \/ Validate(w) \/ WriteReport(w) \/ GraphRefresh(w) \/ AcquireFails(w)
  BY <1>2 DEF Enter, RefuseCancelled, Preflight, Probed, Collect, Validate, WriteReport,
              GraphRefresh, AcquireFails, runVars
<1>3. CASE StartAgent(w) \/ ConnectFails(w) \/ Die(w)
  BY <1>3 DEF StartAgent, ConnectFails, Die, runVars
<1>4. CASE SessionStep(w)
  BY <1>4, SessionSteps DEF GoesOn, Delivering, Raising, runVars
<1> QED BY <1>1, <1>2, <1>3, <1>4 DEF Runner, SessionStep

\* Once the task of the run has ended only cancel() goes on.
LEMMA GoneRests ==
  ASSUME TaskFits, task = "gone", [Next]_vars
  PROVE  UNCHANGED <<schedVars, runVars, stageStates, head, bundleHead, step, code, live,
                     worktree, report>>
<1>1. ~(Main \/ Cancel \/ Commit \/ Crash \/ Restart)
  BY AtWork DEF TaskFits, Main, Working, Open, Cancel, Commit, Crash, Restart
<1>2. ~\E w \in Workers : Idle(w) \/ Runner(w) \/ \E s \in Stages : Take(w, s)
  BY AtWork DEF Working
<1>3. CASE CancelInterrupted \/ CancelClosed
  BY <1>3 DEF CancelInterrupted, CancelClosed
<1>4. CASE UNCHANGED vars
  BY <1>4 DEF vars, agentVars
<1> QED BY <1>1, <1>2, <1>3, <1>4 DEF Next

\* Every step keeps the task with its workers.
LEMMA NextTask == SchedFacts /\ TaskFits /\ [Next]_vars => TaskFits'
<1> SUFFICES ASSUME SchedFacts, TaskFits, [Next]_vars PROVE TaskFits'
  OBVIOUS
<1>1. CASE task = "gone"
  BY <1>1, GoneRests DEF TaskFits, runVars, schedVars
<1>2. CASE task # "gone" /\ task' # "gone"
  <2>1. CASE Open
    BY <1>2, <2>1 DEF Open, Sched!Spawn, TaskFits
  <2>2. CASE Join
    BY <1>2, <2>2, AtWork DEF Join, Sched!Join, Working, runVars, TaskFits
  <2>3. CASE EndCompleted \/ EndCancelled \/ EndFailed
    BY <1>2, <2>3 DEF EndCompleted, EndCancelled, EndFailed, End
  <2>4. ASSUME NEW w \in Workers, Idle(w) \/ Runner(w) \/ \E s \in Stages : Take(w, s)
        PROVE  TaskFits'
    <3>1. Working /\ UNCHANGED <<task, up>>
      BY <2>4, AtWork, WorkersKeepTask
    <3>2. UNCHANGED main
      <4>1. CASE Idle(w) \/ (\E s \in Stages : Take(w, s)) \/ Enter(w)
        BY <4>1, Idling, Entering DEF Take, Enter
      <4>2. CASE Runner(w)
        BY <4>1, <4>2, RunnerSteps DEF RunnerMoves, RunnerEnds
      <4> QED BY <2>4, <4>1, <4>2
    <3> QED BY <3>1, <3>2 DEF TaskFits, Working
  <2>5. CASE \/ Cancel \/ CancelInterrupted \/ CancelClosed
             \/ Commit \/ Crash \/ Restart \/ UNCHANGED vars
    <3>1. UNCHANGED main
      BY <2>5 DEF Cancel, Sched!SetCancel, CancelInterrupted, CancelClosed, Commit, Crash,
                  Restart, vars, schedVars
    <3> QED BY <1>2, <2>5, <3>1
            DEF Cancel, CancelInterrupted, CancelClosed, Commit, Crash, Restart, vars, runVars, TaskFits
  <2> QED BY <2>1, <2>2, <2>3, <2>4, <2>5 DEF Next, Main
<1>3. CASE task # "gone" /\ task' = "gone"
  <2>1. EndCompleted \/ EndCancelled \/ EndFailed
    <3>1. ~(\/ Open \/ Join \/ Cancel \/ CancelInterrupted \/ CancelClosed
            \/ Commit \/ Crash \/ Restart \/ UNCHANGED vars)
      BY <1>3 DEF Open, Join, Cancel, CancelInterrupted, CancelClosed, Commit, Crash, Restart, vars, runVars
    <3>2. ~\E w \in Workers : Idle(w) \/ Runner(w) \/ \E s \in Stages : Take(w, s)
      BY <1>3, WorkersKeepTask
    <3> QED BY <3>1, <3>2 DEF Next, Main
  <2>2. /\ \A w \in Workers : pc[w] = "exit"
        /\ UNCHANGED pc
    BY <2>1 DEF EndCompleted, EndCancelled, EndFailed, Sched!ReturnCompleted,
                Sched!ReturnCancelled, Sched!RaiseFailure, Sched!Joined, Workers
  <2>3. up' = up /\ up
    BY <2>1, AtWork DEF Working
  <2> QED BY <1>3, <2>2, <2>3 DEF TaskFits
<1> QED BY <1>1, <1>2, <1>3

\* A stage without a session that returns or raises leaves no session or worktree.
LEMMA PlainEnds ==
  ASSUME SchedFacts, StepsFit, Held, NEW w \in Workers, RunnerEnds(w),
         ~Holds(cur[w]), UNCHANGED <<task, live, session, worktree, head, bundleHead, cancel>>,
         \/ results' = results
         \/ results' = results \cup {cur[w]} /\ cur[w] # "collect-evidence"
  PROVE  Held'
<1>1. /\ cur[w] \in Stages /\ UNCHANGED <<cancelled, entered>>
      /\ step' = [step EXCEPT ![cur[w]] = "over"]
  BY Running DEF RunnerEnds
<1>2. \A s \in Stages : step'[s] = IF s = cur[w] THEN "over" ELSE step[s]
  BY <1>1 DEF StepsFit
<1>3. "over" \notin Holding /\ "over" # "probing"
  BY DEF Holding, InSession, Streaming, Closing
<1>4. head' \in Nat
  BY DEF Held, HeldTypes
<1> QED BY <1>1, <1>2, <1>3, <1>4, QuietKeepsHeld

\* Where a runner that has just been called, or that waits for a probe, stands.
LEMMA PlainPlaces == "go" \notin Holding /\ "probing" \notin Holding
  BY DEF Holding, InSession, Streaming, Closing

\* What returning and raising do to the results.
LEMMA RunnerResults ==
  ASSUME NEW w \in Workers
  PROVE  /\ \A n : Return(w, n) => RunnerEnds(w) /\ results' = results \cup {cur[w]}
         /\ \A c, n : Raise(w, c, n) => RunnerEnds(w) /\ results' = results
  BY Leaving DEF Return, Raise, Raised, Goto, RunnerEnds

\* The stages without a session leave what is held to the others.
LEMMA PlainKeepsHeld ==
  ASSUME SchedFacts, StepsFit, Held, NEW w \in Workers,
         \/ RefuseCancelled(w) \/ Preflight(w) \/ Probed(w) \/ Validate(w)
         \/ WriteReport(w) \/ GraphRefresh(w) \/ AcquireFails(w)
  PROVE  Held'
<1>1. UNCHANGED <<task, live, session, worktree, head, bundleHead, cancel>>
  BY DEF RefuseCancelled, Preflight, Probed, Validate, WriteReport, GraphRefresh,
         AcquireFails, runVars, agentVars, clientVars
<1>2. pc[w] = "run" /\ step[cur[w]] \in {"go", "probing"}
  BY DEF RefuseCancelled, Preflight, Probed, Validate, WriteReport, GraphRefresh,
         AcquireFails, Begin, Suspended, At
<1>3. ~Holds(cur[w]) /\ cur[w] \in Stages
  BY <1>2, PlainPlaces, Running DEF Holds
<1>4. CASE RefuseCancelled(w) \/ AcquireFails(w)
  BY <1>1, <1>3, <1>4, RunnerResults, PlainEnds DEF RefuseCancelled, AcquireFails
<1>5. CASE Validate(w) \/ WriteReport(w) \/ GraphRefresh(w)
  <2>1. cur[w] # "collect-evidence"
    BY <1>5 DEF Validate, WriteReport, GraphRefresh, Begin
  <2> QED BY <1>1, <1>3, <1>5, <2>1, RunnerResults, PlainEnds
          DEF Validate, WriteReport, GraphRefresh
<1>6. CASE Probed(w)
  <2>1. cur[w] = "preflight"
    BY <1>3, <1>6 DEF Probed, Suspended, At, Held, WorktreesHeld
  <2> QED BY <1>1, <1>3, <1>6, <2>1, RunnerResults, PlainEnds DEF Probed
<1>7. CASE Preflight(w)
  <2>1. cur[w] = "preflight"
    BY <1>7 DEF Preflight, Begin
  <2>2. CASE Goto("preflight", "probing") /\ UNCHANGED schedVars
    <3>1. \A s \in Stages : step'[s] = IF s = "preflight" THEN "probing" ELSE step[s]
      BY <2>2 DEF Goto, StepsFit
    <3>2. UNCHANGED <<cancelled, entered, results>> /\ head' \in Nat
      BY <1>1, <2>2 DEF schedVars, Held, HeldTypes
    <3> QED BY <1>1, <1>3, <2>1, <3>1, <3>2, PlainPlaces, QuietKeepsHeld
  <2> QED BY <1>1, <1>3, <1>7, <2>1, <2>2, RunnerResults, PlainEnds DEF Preflight
<1> QED BY <1>4, <1>5, <1>6, <1>7

\* The commit of the evidence is fixed before there is a worktree.
LEMMA CollectKeepsHeld ==
  ASSUME SchedFacts, StepsFit, Held, NEW w \in Workers, Collect(w)
  PROVE  Held'
<1>1. UNCHANGED <<task, live, session, worktree, head, cancel>>
  BY DEF Collect, runVars, agentVars, clientVars
<1>2. pc[w] = "run" /\ cur[w] = "collect-evidence" /\ step[cur[w]] = "go"
  BY DEF Collect, Begin, At
<1>3. ~Holds(cur[w]) /\ cur[w] \in Stages
  BY <1>2, PlainPlaces, Running DEF Holds
<1>4. CASE Raise(w, "INTERNAL", 0) /\ UNCHANGED bundleHead
  BY <1>1, <1>3, <1>4, RunnerResults, PlainEnds
<1>5. CASE Return(w, 1) /\ bundleHead' = head
  <2>1. RunnerEnds(w)
    BY <1>5, RunnerResults
  <2>2. /\ UNCHANGED <<cancelled, entered>>
        /\ \A s \in Stages : step'[s] = IF s = cur[w] THEN "over" ELSE step[s]
    BY <1>3, <2>1 DEF RunnerEnds, StepsFit
  <2>3. "over" \notin Holding /\ "over" # "probing"
    BY DEF Holding, InSession, Streaming, Closing
  <2>4. bundleHead' \in Nat /\ bundleHead' # None /\ head \in Nat
    BY <1>5, AuditRunAssumption DEF Held, HeldTypes
  <2>5. "collect-evidence" \notin results
    BY <1>2, Running
  <2>6. \A s \in Specialists : worktree[s] = None
    BY <2>5, Entered, StageNames DEF Held, WorktreesHeld
  <2>7. HeldTypes'
    BY <1>1, <2>4 DEF Held, HeldTypes
  <2>8. SessionsHeld'
    <3>1. \A i \in 1..Len(live) : live[i] \in Stages /\ step[live[i]] \in Holding
      BY StageNames DEF Held, HeldTypes, SessionsHeld, Holding
    <3>2. ASSUME NEW s \in AgentStages, session[s].open PROVE Answered(s)'
      <4>1. s \in Stages /\ Answered(s)
        BY <3>2, StageNames DEF Held, SessionsHeld
      <4>2. step[s] \in InSession => step'[s] = step[s]
        BY <1>3, <2>2, <4>1 DEF Holds, Holding
      <4> QED BY <1>1, <4>1, <4>2 DEF Answered, ClosedByCancel, InSession
    <3> QED BY <1>1, <1>3, <2>2, <3>1, <3>2, StageNames DEF Held, SessionsHeld, Holds
  <2>9. WorktreesHeld'
    BY <1>1, <1>3, <2>2, <2>3, <2>4, <2>6, StageNames DEF Held, WorktreesHeld, Holds
  <2> QED BY <2>7, <2>8, <2>9 DEF Held
<1> QED BY <1>4, <1>5 DEF Collect

\* The runner of a session is that of a stage with an agent, and its client is
\* answered for.
LEMMA InTheSession ==
  ASSUME SchedFacts, StepsFit, Held, NEW w \in Workers, pc[w] = "run", Holds(cur[w])
  PROVE  /\ cur[w] \in AgentStages /\ cur[w] \in Stages
         /\ session \in [AgentStages -> SessionStates]
         /\ session[cur[w]].open => Answered(cur[w])
  BY Running DEF Held, HeldTypes, SessionsHeld, WorktreesHeld

\* What a disconnection does to the sessions, and the setting of the flag.
LEMMA Disconnecting ==
  ASSUME session \in [AgentStages -> SessionStates],
         NEW s \in AgentStages, NEW n, NEW ok, Disconnected(s, n, ok)
  PROVE  /\ session' \in [AgentStages -> SessionStates]
         /\ \A t \in AgentStages \ {s} : session'[t] = session[t]
         /\ session'[s].closed = session[s].closed /\ session'[s].client = session[s].client
         /\ session'[s].open => session[s].open /\ session[s].client # n
<1>1. session[s] \in SessionStates
  OBVIOUS
<1>2. /\ session' = [session EXCEPT ![s] = [session[s] EXCEPT !.open =
                       session[s].open /\ ~(session[s].open /\ session[s].client = n)]]
      /\ session[s].open \in BOOLEAN
  BY <1>1 DEF Disconnected, SessionStates
<1> QED BY <1>1, <1>2 DEF SessionStates

LEMMA Shutting ==
  ASSUME session \in [AgentStages -> SessionStates], NEW s \in AgentStages, Shut(s)
  PROVE  /\ session' \in [AgentStages -> SessionStates]
         /\ \A t \in AgentStages \ {s} : session'[t] = session[t]
         /\ session'[s].closed /\ session'[s].client = session[s].client
<1>1. session[s] \in SessionStates
  OBVIOUS
<1>2. session' = [session EXCEPT ![s] = [session[s] EXCEPT !.closed = TRUE]]
  BY DEF Shut
<1> QED BY <1>1, <1>2 DEF SessionStates

\* A runner goes on in its session: in the stream as it was, in the stream with a
\* session that is not closed, or disconnecting one that is.
LEMMA GoingOnKeepsHeld ==
  ASSUME SchedFacts, StepsFit, Held, NEW w \in Workers, pc[w] = "run",
         step[cur[w]] \in InSession, NEW place \in InSession, GoesOn(w, place), UNCHANGED live,
         session' \in [AgentStages -> SessionStates],
         \A t \in AgentStages \ {cur[w]} : session'[t] = session[t],
         \/ /\ step[cur[w]] \in Streaming /\ place \in Streaming
            /\ session'[cur[w]].closed = session[cur[w]].closed
            /\ session'[cur[w]].client = session[cur[w]].client
            /\ session'[cur[w]].open => session[cur[w]].open
         \/ place \in Streaming /\ ~session'[cur[w]].closed
         \/ place \in Closing /\ session'[cur[w]].closed
  PROVE  Held'
<1> DEFINE s == cur[w]
<1>1. Holds(s) /\ place \in Holding
  BY DEF Holds, Holding
<1>2. s \in AgentStages /\ s \in Stages /\ (session[s].open => Answered(s))
  BY <1>1, InTheSession
<1>3. RunnerMoves(w, place)
  BY <1>1 DEF GoesOn, Goto, RunnerMoves, schedVars, Busy
<1>4. /\ UNCHANGED <<task, head, bundleHead, worktree, cancel>>
      /\ \A t \in Stages : step'[t] = IF t = s THEN place ELSE step[t]
      /\ cur' = cur
  BY DEF GoesOn, Goto, runVars, schedVars, StepsFit
<1>5. \A i \in 1..Len(live) : live[i] \in Stages /\ step[live[i]] \in InSession
  BY StageNames DEF Held, HeldTypes, SessionsHeld
<1>6. session'[s].open => Answered(s)'
  <2> SUFFICES ASSUME session'[s].open PROVE Answered(s)'
    OBVIOUS
  <2>1. step'[s] = place
    BY <1>2, <1>4
  <2>2. CASE /\ step[s] \in Streaming /\ place \in Streaming
             /\ session'[s].closed = session[s].closed
             /\ session'[s].client = session[s].client
             /\ session'[s].open => session[s].open
    <3>1. Answered(s) /\ step[s] \notin Closing
      BY <1>2, <2>2 DEF Streaming, Closing
    <3> QED BY <1>4, <2>1, <2>2, <3>1 DEF Answered, ClosedByCancel
  <2> QED BY <1>4, <2>1, <2>2 DEF Answered
<1>7. /\ live' \in Seq(AgentStages)
      /\ \A i \in 1..Len(live') : step'[live'[i]] \in InSession
      /\ \A i, j \in 1..Len(live') : live'[i] = live'[j] => i = j
  BY <1>4, <1>5 DEF Held, HeldTypes, SessionsHeld
<1> QED BY <1>1, <1>2, <1>3, <1>4, <1>6, <1>7, HoldingMoves

\* A runner leaves its session, and the client to cancel() if it is connected.
LEMMA EndOfSessionKeepsHeld ==
  ASSUME SchedFacts, StepsFit, Held, NEW w \in Workers, pc[w] = "run",
         step[cur[w]] \in InSession, (\E n \in 1..2 : Delivering(w, n)) \/ Raising(w),
         session' \in [AgentStages -> SessionStates],
         \A t \in AgentStages \ {cur[w]} : session'[t] = session[t],
         session'[cur[w]].open => ClosedByCancel(cur[w])'
  PROVE  Held'
<1> DEFINE s == cur[w]
<1>1. Holds(s) /\ step[s] \in Holding
  BY DEF Holds, Holding
<1>2. s \in AgentStages
  BY <1>1, InTheSession
<1>3. s # "collect-evidence"
  BY <1>2, StageNames
<1>4. RunnerEnds(w) /\ (results' = results \/ results' = results \cup {s})
  BY RunnerResults DEF Delivering, Raising
<1>5. UNCHANGED <<task, head, bundleHead, cancel>> /\ Unregister(s)
  BY DEF Delivering, Raising, runVars
<1>6. PICK ok \in Removals(s) : Removed(s, ok)
  BY DEF Delivering, Raising
<1> QED BY <1>1, <1>3, <1>4, <1>5, <1>6, ReleaseKeepsHeld

\* The runner of a specialist or of the lead takes a worktree and connects a client.
LEMMA StartKeepsHeld ==
  ASSUME SchedFacts, StepsFit, Held, NEW w \in Workers, StartAgent(w) \/ Connected(w)
  PROVE  Held'
<1> DEFINE s == cur[w]
<1>1. UNCHANGED <<task, head, bundleHead, cancel>> /\ UNCHANGED schedVars
  BY DEF StartAgent, Connected, GoesOn, runVars
<1>2. pc[w] = "run" /\ step[s] \in {"go", "starting"}
  BY DEF StartAgent, Connected, Suspended, At
<1>3. s \in Stages
  BY <1>2, Running
<1>4. s \in AgentStages
  <2>1. CASE StartAgent(w)
    BY <2>1 DEF StartAgent
  <2>2. CASE Connected(w)
    BY <1>2, <2>2, InTheSession DEF Connected, Suspended, At, Holds, Holding
  <2> QED BY <2>1, <2>2
<1>5. /\ live \in Seq(AgentStages)
      /\ \A i \in 1..Len(live) : live[i] \in Stages /\ step[live[i]] \in InSession
      /\ \A i, j \in 1..Len(live) : live[i] = live[j] => i = j
      /\ session \in [AgentStages -> SessionStates]
      /\ session[s].open => Answered(s)
      /\ step \in [Stages -> {"idle", "over"} \cup Busy]
  BY <1>4, StageNames DEF Held, HeldTypes, SessionsHeld, StepsFit
<1>6. ASSUME NEW place \in Holding, step' = [step EXCEPT ![s] = place] PROVE RunnerMoves(w, place)
  BY <1>1, <1>2, <1>6 DEF RunnerMoves, Busy, schedVars
<1>7. CASE StartAgent(w)
  <2>1. /\ step[s] = "go" /\ step' = [step EXCEPT ![s] = "starting"]
        /\ UNCHANGED <<live, session>>
    BY <1>7 DEF StartAgent, At, Goto, clientVars
  <2>2. "starting" \in Holding /\ "go" \notin InSession
    BY DEF Holding, InSession, Streaming, Closing
  <2>3. RunnerMoves(w, "starting")
    BY <1>6, <2>1, <2>2
  <2>4. \A i \in 1..Len(live) : step'[live[i]] \in InSession
    BY <1>3, <1>5, <2>1, <2>2
  <2>5. session'[s].open => Answered(s)'
    BY <1>1, <1>5, <2>1, <2>2 DEF Answered, ClosedByCancel, InSession, schedVars
  <2>6. \/ worktree' = worktree /\ s \notin Specialists
        \/ s \in Specialists /\ worktree' = [worktree EXCEPT ![s] = bundleHead]
    BY <1>7 DEF StartAgent
  <2> QED BY <1>1, <1>4, <1>5, <2>1, <2>2, <2>3, <2>4, <2>5, <2>6, HoldingMoves
<1>8. CASE Connected(w)
  <2>1. /\ step[s] = "starting" /\ step' = [step EXCEPT ![s] = "session"]
        /\ UNCHANGED worktree /\ live' = Append(live, s)
        /\ session' = [session EXCEPT ![s] = [client |-> 1, open |-> TRUE, closed |-> FALSE]]
    BY <1>8 DEF Connected, GoesOn, Suspended, At, Goto
  <2>2. /\ "session" \in Holding /\ "session" \in InSession /\ "session" \in Streaming
        /\ Holds(s) /\ "starting" \notin InSession
    BY <2>1 DEF Holding, InSession, Streaming, Closing, Holds
  <2>3. RunnerMoves(w, "session")
    BY <1>6, <2>1, <2>2
  <2>4. /\ live' \in Seq(AgentStages) /\ Len(live') = Len(live) + 1 /\ live'[Len(live) + 1] = s
        /\ \A i \in 1..Len(live) : live'[i] = live[i] /\ live'[i] # s
    BY <1>4, <1>5, <2>1, <2>2
  <2>5. \A i \in 1..Len(live') : step'[live'[i]] \in InSession
    <3> SUFFICES ASSUME NEW i \in 1..Len(live') PROVE step'[live'[i]] \in InSession
      OBVIOUS
    <3>1. CASE i = Len(live) + 1
      BY <1>3, <1>5, <2>1, <2>2, <2>4, <3>1
    <3>2. CASE i \in 1..Len(live)
      BY <1>3, <1>5, <2>1, <2>4, <3>2
    <3> QED BY <1>5, <2>4, <3>1, <3>2
  <2>6. \A i, j \in 1..Len(live') : live'[i] = live'[j] => i = j
    BY <1>5, <2>4
  <2>7. /\ session' \in [AgentStages -> SessionStates]
        /\ \A t \in AgentStages \ {s} : session'[t] = session[t]
        /\ session'[s] = [client |-> 1, open |-> TRUE, closed |-> FALSE]
    <3>1. [client |-> 1, open |-> TRUE, closed |-> FALSE] \in SessionStates
      BY DEF SessionStates
    <3> QED BY <1>4, <1>5, <2>1, <3>1
  <2>8. Answered(s)'
    BY <1>1, <1>3, <1>5, <2>1, <2>2, <2>7 DEF Answered, schedVars
  <2> QED BY <1>1, <1>4, <2>1, <2>2, <2>3, <2>4, <2>5, <2>6, <2>7, <2>8, HoldingMoves
<1> QED BY <1>7, <1>8

\* A session goes on, is retried, closed and left.
LEMMA SessionKeepsHeld ==
  ASSUME SchedFacts, StepsFit, Held, NEW w \in Workers, SessionStep(w)
  PROVE  Held'
<1> DEFINE s == cur[w]
<1>1. CASE Connected(w)
  BY <1>1, StartKeepsHeld
<1>2. CASE ~Connected(w)
  <2>1. pc[w] = "run" /\ step[s] \in InSession
    <3>1. pc[w] = "run"
      BY SessionSteps
    <3>2. CASE Retry(w) \/ Replaced(w) \/ Reconnected(w) \/ Complete(w) \/ Deliver(w) \/ Break(w)
      BY <3>2 DEF Retry, Replaced, Reconnected, Complete, Deliver, Break, Suspended, At,
                  InSession, Streaming, Closing
    <3>3. CASE Timeout(w) \/ TimedOut(w) \/ Abandon(w) \/ Leave(w) \/ Interrupted(w)
      BY <3>3 DEF Timeout, TimedOut, Abandon, Leave, Interrupted, Suspended, Dying, At,
                  InSession, Streaming, Closing
    <3> QED BY <1>2, <3>1, <3>2, <3>3 DEF SessionStep
  <2>2. Holds(s)
    BY <2>1 DEF Holds, Holding
  <2>3. /\ s \in AgentStages /\ session \in [AgentStages -> SessionStates]
        /\ session[s].open => Answered(s)
    BY <2>1, <2>2, InTheSession
  <2>4. /\ {"session", "replacing", "reconnecting", "timing", "interrupt"} \subseteq Streaming
        /\ {"closing", "failing", "leaving"} \subseteq Closing
        /\ Streaming \subseteq InSession /\ Closing \subseteq InSession
        /\ \A place \in Streaming : place \notin Closing
    BY DEF InSession, Streaming, Closing
  <2>5. ASSUME NEW place \in Streaming, GoesOn(w, place), UNCHANGED <<live, session>>,
               step[s] \in Streaming
        PROVE  Held'
    BY <2>1, <2>3, <2>4, <2>5, GoingOnKeepsHeld
  <2>6. ASSUME NEW place \in Closing, GoesOn(w, place), Shut(s), UNCHANGED live PROVE Held'
    BY <2>1, <2>3, <2>4, <2>6, Shutting, GoingOnKeepsHeld
  <2>7. ASSUME (\E n \in 1..2 : Delivering(w, n)) \/ Raising(w),
               UNCHANGED session, session[s].closed, step[s] \in Streaming
        PROVE  Held'
    <3>1. session[s].open => ClosedByCancel(s)
      BY <2>3, <2>4, <2>7 DEF Answered
    <3>2. UNCHANGED <<cancel, cur>>
      BY <2>7, RunnerResults DEF Delivering, Raising, RunnerEnds
    <3>3. session'[s].open => ClosedByCancel(s)'
      BY <2>7, <3>1, <3>2 DEF ClosedByCancel
    <3> QED BY <2>1, <2>3, <2>7, <3>3, EndOfSessionKeepsHeld
  <2>8. ASSUME (\E n \in 1..2 : Delivering(w, n)) \/ Raising(w),
               NEW ok, Disconnected(s, session[s].client, ok)
        PROVE  Held'
    BY <2>1, <2>3, <2>8, Disconnecting, EndOfSessionKeepsHeld
  <2>9. CASE Retry(w) \/ Leave(w)
    <3>1. step[s] \in Streaming /\ UNCHANGED <<live, session>>
      BY <2>4, <2>9 DEF Retry, Leave, Suspended, Dying, At, clientVars
    <3>2. \E place \in Streaming : GoesOn(w, place)
      BY <2>4, <2>9 DEF Retry, Leave
    <3> QED BY <2>5, <3>1, <3>2
  <2>10. CASE Replaced(w)
    <3>1. step[s] \in Streaming /\ GoesOn(w, "reconnecting") /\ UNCHANGED live
      BY <2>4, <2>10 DEF Replaced, Suspended, At
    <3>2. CASE UNCHANGED clientVars
      BY <2>4, <2>5, <3>1, <3>2 DEF clientVars
    <3>3. CASE Disconnected(s, 1, TRUE)
      BY <2>1, <2>3, <2>4, <3>1, <3>3, Disconnecting, GoingOnKeepsHeld
    <3> QED BY <2>10, <3>2, <3>3 DEF Replaced
  <2>11. CASE Reconnected(w)
    <3>1. GoesOn(w, "session") /\ UNCHANGED live
          /\ session' = [session EXCEPT ![s] = [client |-> 2, open |-> TRUE, closed |-> FALSE]]
      BY <2>11 DEF Reconnected
    <3>2. [client |-> 2, open |-> TRUE, closed |-> FALSE] \in SessionStates
      BY DEF SessionStates
    <3>3. /\ session' \in [AgentStages -> SessionStates]
          /\ \A t \in AgentStages \ {s} : session'[t] = session[t]
          /\ ~session'[s].closed
      BY <2>3, <3>1, <3>2
    <3> QED BY <2>1, <2>4, <3>1, <3>3, GoingOnKeepsHeld
  <2>12. CASE Complete(w)
    <3>1. step[s] \in Streaming
      BY <2>4, <2>12 DEF Complete, Suspended, At
    <3>2. CASE Shut(s) /\ GoesOn(w, "closing") /\ UNCHANGED live
      BY <2>4, <2>6, <3>2
    <3>3. CASE session[s].closed /\ Delivering(w, 2) /\ UNCHANGED clientVars
      BY <2>7, <3>1, <3>3 DEF clientVars
    <3> QED BY <2>12, <3>2, <3>3 DEF Complete
  <2>13. CASE Break(w) \/ TimedOut(w)
    <3>1. step[s] \in Streaming /\ Fails(w)
      BY <2>4, <2>13 DEF Break, TimedOut, Suspended, At
    <3>2. CASE Shut(s) /\ GoesOn(w, "failing") /\ UNCHANGED live
      BY <2>4, <2>6, <3>2
    <3>3. CASE session[s].closed /\ Raising(w) /\ UNCHANGED clientVars
      BY <2>7, <3>1, <3>3 DEF clientVars
    <3> QED BY <3>1, <3>2, <3>3 DEF Fails
  <2>14. CASE Timeout(w)
    <3>1. step[s] \in Streaming /\ UNCHANGED session
      BY <2>4, <2>14 DEF Timeout, Suspended, At
    <3>2. CASE GoesOn(w, "timing") /\ UNCHANGED live
      BY <2>4, <2>5, <3>1, <3>2
    <3>3. CASE session[s].closed /\ Raising(w)
      BY <2>7, <3>1, <3>3
    <3> QED BY <2>14, <3>2, <3>3 DEF Timeout
  <2>15. CASE Deliver(w) \/ Abandon(w)
    <3>1. (\E n \in 1..2 : Delivering(w, n)) \/ Raising(w)
      BY <2>15 DEF Deliver, Abandon
    <3>2. PICK ok : Disconnected(s, session[s].client, ok)
      BY <2>15 DEF Deliver, Abandon
    <3> QED BY <2>8, <3>1, <3>2
  <2>16. CASE Interrupted(w)
    BY <2>4, <2>6, <2>16 DEF Interrupted
  <2> QED BY <1>2, <2>9, <2>10, <2>11, <2>12, <2>13, <2>14, <2>15, <2>16 DEF SessionStep
<1> QED BY <1>1, <1>2

\* A connection that fails, or the death of a worker: its session is off the list, and
\* its client disconnected, given up or left to cancel().
LEMMA EndingKeepsHeld ==
  ASSUME SchedFacts, StepsFit, Held, NEW w \in Workers, ConnectFails(w) \/ Die(w)
  PROVE  Held'
<1> DEFINE s == cur[w]
<1>1. UNCHANGED <<task, head, bundleHead, cancel>>
  BY DEF ConnectFails, Die, runVars
<1>2. pc[w] = "run" /\ step[s] \in {"probing"} \cup Holding
  BY DEF ConnectFails, Die, Suspended, Dying, At, Holding, InSession, Streaming, Closing
<1>3. s \in Stages
  BY <1>2, Running
<1>4. s # "collect-evidence"
  BY <1>2, <1>3, StageNames DEF Held, WorktreesHeld, Holds
<1>5. PICK ok \in Removals(s) : Removed(s, ok)
  BY DEF ConnectFails, Die
<1>6. RunnerEnds(w) /\ (results' = results \/ results' = results \cup {s})
  <2>1. CASE ConnectFails(w)
    BY <2>1, RunnerResults DEF ConnectFails
  <2>2. CASE Die(w)
    <3>1. Sched!Killed(w) \/ Sched!KilledRaise(w)
      BY <2>2 DEF Die
    <3>2. Goto(s, "over")
      BY <2>2 DEF Die, Raised
    <3> QED BY <1>2, <3>1, <3>2, Leaving DEF Goto, RunnerEnds
  <2> QED BY <2>1, <2>2
<1>7. Unregister(s) \/ (UNCHANGED live /\ step[s] \notin InSession)
  BY DEF ConnectFails, Die, Suspended, At, InSession, Streaming, Closing
<1>8. /\ session \in [AgentStages -> SessionStates]
      /\ s \in AgentStages /\ session[s].open => Answered(s)
  BY DEF Held, HeldTypes, SessionsHeld
<1>9. /\ session' \in [AgentStages -> SessionStates]
      /\ \A t \in AgentStages \ {s} : session'[t] = session[t]
      /\ s \in AgentStages /\ session'[s].open => ClosedByCancel(s)'
  <2>1. CASE /\ UNCHANGED session
             /\ step[s] \notin InSession \/ (step[s] \in Streaming /\ session[s].closed)
    <3>1. s \in AgentStages /\ session[s].open => ClosedByCancel(s)
      BY <1>8, <2>1 DEF Answered, InSession, Streaming, Closing
    <3> QED BY <1>1, <1>6, <1>8, <2>1, <3>1 DEF ClosedByCancel, RunnerEnds
  <2>2. CASE Holds(s) /\ \E ok1 : Disconnected(s, session[s].client, ok1)
    <3>1. s \in AgentStages
      BY <1>3, <2>2 DEF Held, WorktreesHeld
    <3> QED BY <1>8, <2>2, <3>1, Disconnecting
  <2>3. CASE ConnectFails(w)
    <3>1. UNCHANGED session /\ step[s] = "starting"
      BY <2>3 DEF ConnectFails, Suspended, At
    <3> QED BY <2>1, <3>1 DEF InSession, Streaming, Closing
  <2>4. CASE Die(w)
    <3>1. ClientLeft(s)
      BY <2>4 DEF Die
    <3>2. CASE step[s] \in {"closing", "failing", "leaving"}
               /\ \E ok1 : Disconnected(s, session[s].client, ok1)
      BY <2>2, <3>2 DEF Holds, Holding, InSession, Closing
    <3>3. CASE step[s] \in {"probing", "starting"} /\ UNCHANGED session
      BY <2>1, <3>3 DEF InSession, Streaming, Closing
    <3>4. CASE step[s] \in Streaming /\ session[s].closed /\ UNCHANGED session
      BY <2>1, <3>4
    <3> QED BY <3>1, <3>2, <3>3, <3>4 DEF ClientLeft, clientVars
  <2> QED BY <2>3, <2>4
<1> QED BY <1>1, <1>2, <1>4, <1>5, <1>6, <1>7, <1>9, ReleaseKeepsHeld

\* cancel() goes on to a session on the list, or is done.
LEMMA VisitTypes ==
  ASSUME live \in Seq(AgentStages), NEW i \in Nat \ {0}, Visit(i)
  PROVE  cancel' \in CancelStates /\ cancel'.phase # "closing"
<1>1. CASE cancel' = [phase |-> "done", index |-> i, at |-> None, client |-> 0]
  BY <1>1 DEF CancelStates
<1>2. ASSUME NEW j \in i..Len(live),
             cancel' = [phase |-> "interrupting", index |-> j, at |-> live[j], client |-> 0]
      PROVE  cancel' \in CancelStates /\ cancel'.phase # "closing"
  <2>1. j \in Nat /\ j \in 1..Len(live)
    OBVIOUS
  <2>2. live[j] \in AgentStages
    BY <2>1
  <2> QED BY <1>2, <2>1, <2>2 DEF CancelStates
<1> QED BY <1>1, <1>2 DEF Visit

\* Every step keeps sessions and worktrees with their runners.
LEMMA NextHeld == SchedFacts /\ StepsFit /\ TaskFits /\ Held /\ [Next]_vars => Held'
<1> SUFFICES ASSUME SchedFacts, StepsFit, TaskFits, Held, [Next]_vars PROVE Held'
  OBVIOUS
<1>0. head \in Nat
  BY DEF Held, HeldTypes
<1>1. CASE Open \/ Join
  <2>1. UNCHANGED <<step, live, session, worktree, bundleHead, head, cancel>>
    BY <1>1 DEF Open, Join, agentVars, clientVars
  <2>2. UNCHANGED <<entered, results, cancelled>>
    BY <1>1 DEF Open, Join, Sched!Spawn, Sched!Join, Sched!progress
  <2>3. task # "lost"
    BY <1>1 DEF Open, Join, Working
  <2> QED BY <1>0, <2>1, <2>2, <2>3, QuietKeepsHeld
<1>2. CASE EndCompleted \/ EndCancelled \/ EndFailed
  <2>1. UNCHANGED <<step, live, session, worktree, bundleHead, head, cancel>>
    BY <1>2 DEF EndCompleted, EndCancelled, EndFailed, End, agentVars, clientVars
  <2>2. UNCHANGED <<entered, results, cancelled>>
    BY <1>2, StillSteps DEF EndCompleted, EndCancelled, EndFailed, Sched!ReturnCompleted,
                            Sched!ReturnCancelled, Sched!RaiseFailure
  <2>3. task # "lost"
    BY <1>2, AtWork DEF Working
  <2> QED BY <1>0, <2>1, <2>2, <2>3, QuietKeepsHeld
<1>3. CASE Commit \/ Crash \/ UNCHANGED vars
  <2>1. UNCHANGED <<step, live, session, worktree, bundleHead, cancel, entered, results, cancelled>>
    BY <1>3 DEF Commit, Crash, vars, agentVars, clientVars, schedVars
  <2>2. head' \in Nat /\ (task = "lost" => task' = "lost")
    BY <1>0, <1>3 DEF Commit, Crash, vars, runVars
  <2> QED BY <2>1, <2>2, QuietKeepsHeld
<1>4. CASE Cancel
  <2>1. /\ UNCHANGED <<task, step, live, session, worktree, bundleHead, head, entered, results>>
        /\ ~cancelled /\ cancelled'
    BY <1>4 DEF Cancel, Sched!SetCancel, Sched!progress, agentVars, clientVars, runVars
  <2>2. cancel' \in CancelStates
    BY <1>4, VisitTypes DEF Cancel, Held, HeldTypes
  <2>3. cancel.phase # "closing"
    BY <2>1 DEF Held, SessionsHeld
  <2> QED BY <1>0, <2>1, <2>2, <2>3, QuietKeepsHeld
<1>5. CASE Restart
  <2>1. /\ UNCHANGED <<task, step, live, session, cancel, bundleHead, head, entered, results, cancelled>>
        /\ worktree' = [s \in Specialists |-> None] /\ ~up
    BY <1>5 DEF Restart, schedVars, clientVars
  <2>2. task = "lost"
    BY <2>1 DEF TaskFits
  <2> QED BY <2>1, <2>2 DEF Held, HeldTypes, SessionsHeld, WorktreesHeld, Holds, Answered,
                            ClosedByCancel
<1>9. CASE CancelInterrupted \/ CancelClosed
  <2>1. UNCHANGED <<task, step, live, worktree, bundleHead, head, entered, results, cancelled>>
    BY <1>9 DEF CancelInterrupted, CancelClosed, runVars, schedVars
  <2>2. /\ session \in [AgentStages -> SessionStates] /\ cancel \in CancelStates
        /\ cancelled /\ cancel.index + 1 \in Nat \ {0}
    <3>1. session \in [AgentStages -> SessionStates] /\ cancel \in CancelStates
      BY DEF Held, HeldTypes
    <3>2. cancel.phase # "none"
      BY <1>9 DEF CancelInterrupted, CancelClosed, Cancelling
    <3> QED BY <3>1, <3>2 DEF Held, SessionsHeld, CancelStates
  <2>3. ASSUME cancel' \in CancelStates, session' \in [AgentStages -> SessionStates],
               \A s \in AgentStages : session'[s].open => Answered(s)'
        PROVE  Held'
    BY <2>1, <2>2, <2>3 DEF Held, HeldTypes, SessionsHeld, WorktreesHeld, Holds
  <2>4. CASE UNCHANGED session /\ cancel.phase = "interrupting" /\ Visit(cancel.index + 1)
    <3>1. cancel' \in CancelStates /\ cancel'.phase # "closing"
      BY <2>2, <2>4, VisitTypes DEF Held, HeldTypes
    <3>2. ASSUME NEW s \in AgentStages, session[s].open PROVE Answered(s)'
      BY <2>1, <2>4, <3>2 DEF Held, SessionsHeld, Answered, ClosedByCancel
    <3> QED BY <2>2, <2>3, <2>4, <3>1, <3>2
  <2>5. CASE /\ cancel.phase = "interrupting" /\ Shut(cancel.at)
             /\ cancel' = [cancel EXCEPT !.phase = "closing", !.client = session[cancel.at].client]
    <3>1. cancel.at \in AgentStages /\ session[cancel.at] \in SessionStates
      BY <2>2, <2>5 DEF CancelStates
    <3>2. /\ cancel' \in CancelStates /\ cancel'.phase = "closing" /\ cancel'.at = cancel.at
          /\ cancel'.client = session[cancel.at].client
      BY <2>2, <2>5, <3>1 DEF CancelStates, SessionStates
    <3>3. /\ session' \in [AgentStages -> SessionStates]
          /\ \A t \in AgentStages \ {cancel.at} : session'[t] = session[t]
          /\ session'[cancel.at].closed
          /\ session'[cancel.at].client = session[cancel.at].client
      BY <2>2, <2>5, <3>1, Shutting
    <3>4. ASSUME NEW s \in AgentStages, session'[s].open PROVE Answered(s)'
      <4>1. CASE s = cancel.at
        BY <3>2, <3>3, <4>1 DEF Answered, ClosedByCancel
      <4>2. CASE s # cancel.at
        BY <2>1, <2>5, <3>3, <3>4, <4>2 DEF Held, SessionsHeld, Answered, ClosedByCancel
      <4> QED BY <4>1, <4>2
    <3> QED BY <2>3, <3>2, <3>3, <3>4
  <2>6. CASE /\ cancel.phase = "closing" /\ Visit(cancel.index + 1)
             /\ \E ok \in Endings : Disconnected(cancel.at, cancel.client, ok)
    <3>1. cancel' \in CancelStates /\ cancel'.phase # "closing"
      BY <2>2, <2>6, VisitTypes DEF Held, HeldTypes
    <3>2. cancel.at \in AgentStages
      BY <2>2, <2>6 DEF CancelStates
    <3>3. /\ session' \in [AgentStages -> SessionStates]
          /\ \A t \in AgentStages \ {cancel.at} : session'[t] = session[t]
          /\ session'[cancel.at].closed = session[cancel.at].closed
          /\ session'[cancel.at].open =>
               session[cancel.at].open /\ session[cancel.at].client # cancel.client
      BY <2>2, <2>6, <3>2, Disconnecting
    <3>4. ASSUME NEW s \in AgentStages, session'[s].open PROVE Answered(s)'
      BY <2>1, <3>1, <3>3, <3>4 DEF Held, SessionsHeld, Answered, ClosedByCancel
    <3> QED BY <2>3, <3>1, <3>3, <3>4
  <2> QED BY <1>9, <2>4, <2>5, <2>6 DEF CancelInterrupted, CancelClosed, Cancelling
<1>6. ASSUME NEW w \in Workers, Idle(w) \/ \E s \in Stages : Take(w, s) PROVE Held'
  <2>1. UNCHANGED <<task, step, live, session, worktree, bundleHead, head, cancel>>
    BY <1>6 DEF Idle, Take, agentVars, clientVars, runVars
  <2>2. UNCHANGED <<entered, results, cancelled>>
    BY <1>6, Idling, Entering DEF Take
  <2> QED BY <1>0, <2>1, <2>2, QuietKeepsHeld
<1>7. ASSUME NEW w \in Workers, Enter(w) PROVE Held'
  <2>1. /\ UNCHANGED <<task, live, session, worktree, bundleHead, head, results, cancel, cancelled>>
        /\ entered' = entered \cup {cur[w]} /\ pc[w] = "lock"
        /\ step' = [step EXCEPT ![cur[w]] = "go"]
    BY <1>7, Entering DEF Enter, agentVars, clientVars, runVars, Goto
  <2>2. cur[w] \in Stages /\ cur[w] \notin entered
    BY <2>1, Running
  <2>3. step[cur[w]] = "idle" /\ step' \in [Stages -> {"idle", "over"} \cup Busy]
    BY <2>1, <2>2 DEF StepsFit, Busy
  <2>4. \A s \in Stages : s # cur[w] => step'[s] = step[s]
    BY <2>1
  <2>5. ~Holds(cur[w]) /\ step'[cur[w]] = "go" /\ "go" \notin Holding
    BY <2>1, <2>2, <2>3 DEF Holds, Holding, InSession, Streaming, Closing, StepsFit
  <2> QED BY <1>0, <2>1, <2>4, <2>5, QuietKeepsHeld
<1>8. ASSUME NEW w \in Workers, Runner(w) PROVE Held'
  BY <1>7, <1>8, PlainKeepsHeld, CollectKeepsHeld, SessionKeepsHeld, EndingKeepsHeld,
     StartKeepsHeld DEF Runner, SessionStep
<1> QED BY <1>1, <1>2, <1>3, <1>4, <1>5, <1>6, <1>8, <1>9 DEF Next, Main

-----------------------------------------------------------------------------
(* Nothing is used after it was removed, nothing is left behind.           *)

Placed == StepsFit /\ TaskFits /\ Held

LEMMA InitPlaced == Init => Placed
<1> SUFFICES ASSUME Init PROVE Placed
  OBVIOUS
<1>1. /\ pc = [w \in Workers |-> "unborn"] /\ results = {} /\ entered = {}
  BY DEF Init, Sched!Init, Workers
<1>2. StepsFit
  BY <1>1 DEF Init, StepsFit, Busy, Holding, InSession, Streaming, Closing
<1>3. TaskFits
  BY DEF Init, TaskFits
<1>4. HeldTypes
  BY DEF Init, HeldTypes, SessionStates, CancelStates, SourceHead
<1>5. SessionsHeld
  BY DEF Init, SessionsHeld
<1>6. WorktreesHeld
  <2>1. \A s \in Stages : ~Holds(s) /\ step[s] # "probing"
    BY DEF Init, Holds, Holding, InSession, Streaming, Closing
  <2> QED BY <1>1, <2>1, StageNames DEF Init, WorktreesHeld
<1> QED BY <1>2, <1>3, <1>4, <1>5, <1>6 DEF Placed, Held

\* Runners, sessions and worktrees stay in place.
THEOREM PlacedInvariant == Spec => []Placed
<1>1. SchedFacts /\ Placed /\ [Next]_vars => Placed'
  BY NextSteps, NextTask, NextHeld DEF Placed
<1> QED BY <1>1, InitPlaced, SchedulerInvariant, PTL DEF Spec

\* The directory of a specialist's connected client is there, whatever comes between:
\* its retry, cancel(), the failure of another stage; but cancel() may just be
\* disconnecting the client, and its runner goes on meanwhile (audit.py, 273-303,
\* 555-563; executor.py, 561-562, 588-597).
THEOREM AgentsHaveTheirWorktree == Spec => []WorktreeOutlivesSession
<1>1. Placed => WorktreeOutlivesSession
  <2> SUFFICES ASSUME Placed, task # "lost", NEW s \in Specialists, session[s].open
               PROVE  worktree[s] # None \/ ClosedByCancel(s)
    BY DEF WorktreeOutlivesSession
  <2>1. s \in AgentStages /\ s \in Stages
    BY StageNames
  <2>2. Answered(s)
    BY <2>1 DEF Placed, Held, SessionsHeld
  <2>3. Holds(s) \/ ClosedByCancel(s)
    BY <2>2 DEF Answered, Holds, Holding, InSession
  <2> QED BY <2>3 DEF Placed, Held, WorktreesHeld
<1> QED BY <1>1, PlacedInvariant, PTL

-----------------------------------------------------------------------------
(* What is written about the run.                                          *)

\* run.json marks a stage succeeded exactly when it has a result, and the stage
\* that failed first as failed.
StatesTold ==
    /\ stageStates \in [Stages -> SP!Statuses]
    /\ \A s \in Stages : stageStates[s] = "succeeded" <=> s \in results
    /\ failure # None => stageStates[failure] = "failed"
    /\ failure = None => \A s \in Stages : stageStates[s] # "failed"

\* Only a run whose cancel event is set is ended by a stage that refuses to start.
CodeFits == failure # None /\ code = "CANCELLED" => cancelled

\* The report and the status tell the same about HEAD from the return of write-report
\* on; the report comes after the evidence.
ReportFits ==
    /\ task = "created" => results = {}
    /\ task = "working" => runStatus \in {"running", "stale"}
    /\ runStatus = "stale" => "write-report" \in results /\ report # None /\ report.stale
    /\ task = "working" /\ "write-report" \in results =>
         report # None /\ report.stale = (runStatus = "stale")
    /\ report # None => report.repoHead = bundleHead /\ "collect-evidence" \in results

\* The final status.
Ended ==
    task = "gone" =>
        /\ runStatus \in {"succeeded", "stale"} =>
             results = Stages /\ report # None /\ report.stale = (runStatus = "stale")
        /\ runStatus = "failed" => \E s \in Stages : stageStates[s] = "failed"
        /\ runStatus = "cancelled" =>
             cancelled /\ \A s \in Stages : stageStates[s] \notin {"pending", "ready"}
        /\ cancelled => runStatus \in {"cancelled", "failed"}

Told == StatesTold /\ CodeFits /\ ReportFits /\ Ended

\* A step that writes nothing, or only the status of a run that is not at work.
LEMMA NothingWritten ==
  ASSUME Told, UNCHANGED <<stageStates, results, failure, code, runStatus, bundleHead, report>>,
         \/ task' = task /\ (task # "gone" \/ UNCHANGED cancelled)
         \/ task' = "lost",
         cancelled => cancelled'
  PROVE  Told'
  BY DEF Told, StatesTold, CodeFits, ReportFits, Ended

\* A stage gets its result.
LEMMA ReturnTells ==
  ASSUME SchedFacts, Told, NEW w \in Workers, NEW n, Return(w, n)
  PROVE  StatesTold' /\ CodeFits' /\ results' = results \cup {cur[w]}
<1>1. /\ pc[w] = "run" /\ results' = results \cup {cur[w]}
      /\ UNCHANGED <<failure, cancelled, code>>
      /\ stageStates' = [stageStates EXCEPT ![cur[w]] = "succeeded"]
  BY Leaving DEF Return
<1>2. cur[w] \in Stages \ results /\ cur[w] # failure
  BY <1>1, Running
<1>3. "succeeded" \in SP!Statuses
  BY DEF SP!Statuses
<1>4. failure \in Stages \cup {None}
  BY SchedTypes
<1>5. StatesTold'
  BY <1>1, <1>2, <1>3, <1>4 DEF Told, StatesTold
<1> QED BY <1>1, <1>5 DEF Told, CodeFits

\* A stage raises; the first one's code is kept.
LEMMA RaiseTells ==
  ASSUME SchedFacts, Told, NEW w \in Workers, NEW c, NEW n,
         Sched!Fail(w) \/ Sched!KilledRaise(w), Raised(w, c, n), c = "CANCELLED" => cancelled
  PROVE  StatesTold' /\ CodeFits' /\ results' = results
<1>1. /\ pc[w] = "run" /\ UNCHANGED <<results, cancelled>>
      /\ failure' = IF failure = None THEN cur[w] ELSE failure
      /\ stageStates' = [stageStates EXCEPT ![cur[w]] = "failed"]
      /\ code' = IF failure = None THEN c ELSE code
  BY Leaving DEF Raised
<1>2. cur[w] \in Stages \ results
  BY <1>1, Running
<1>3. "failed" \in SP!Statuses
  BY DEF SP!Statuses
<1>4. failure \in Stages \cup {None}
  BY SchedTypes
<1>5. StatesTold'
  BY <1>1, <1>2, <1>3, <1>4, AuditRunAssumption DEF Told, StatesTold
<1> QED BY <1>1, <1>5 DEF Told, CodeFits

\* The report of a run at work stays what it is unless write-report returns.
LEMMA ReportStays ==
  ASSUME Told, task = "working", UNCHANGED <<task, runStatus, bundleHead, report>>,
         NEW s, s # "write-report", results' = results \/ results' = results \cup {s}
  PROVE  ReportFits' /\ Ended'
  BY DEF Told, ReportFits, Ended

\* The runners but those of collect-evidence and write-report.
LEMMA RunnerTells ==
  ASSUME SchedFacts, StepsFit, Held, Told, NEW w \in Workers,
         \/ RefuseCancelled(w) \/ Preflight(w) \/ Probed(w) \/ Validate(w) \/ GraphRefresh(w)
         \/ AcquireFails(w) \/ StartAgent(w) \/ ConnectFails(w) \/ SessionStep(w) \/ Die(w)
  PROVE  Told'
<1>1. UNCHANGED <<task, runStatus, bundleHead, report>>
  <2>1. CASE SessionStep(w)
    BY <2>1, SessionSteps DEF GoesOn, Delivering, Raising, runVars
  <2> QED BY <2>1 DEF RefuseCancelled, Preflight, Probed, Validate, GraphRefresh, AcquireFails,
                      StartAgent, ConnectFails, Die, runVars
<1>2. Working /\ pc[w] = "run"
  <2>1. CASE SessionStep(w)
    BY <2>1, SessionSteps
  <2> QED BY <2>1 DEF RefuseCancelled, Preflight, Probed, Validate, GraphRefresh, AcquireFails,
                      StartAgent, ConnectFails, Die, Begin, Suspended, Dying, At
<1>3. cur[w] \in Stages
  BY <1>2, Running
<1>4. CASE RefuseCancelled(w)
  <2>1. Raise(w, "CANCELLED", 0) /\ cancelled
    BY <1>4 DEF RefuseCancelled
  <2>2. StatesTold' /\ CodeFits' /\ results' = results
    BY <2>1, RaiseTells DEF Raise
  <2> QED BY <1>1, <1>2, <2>2, ReportStays DEF Told, Working
<1>5. ASSUME NEW c \in {"FAILED", "INTERNAL"}, NEW n,
             Raised(w, c, n), Sched!Fail(w) \/ Sched!KilledRaise(w)
      PROVE  Told'
  <2>1. StatesTold' /\ CodeFits' /\ results' = results
    BY <1>5, RaiseTells
  <2> QED BY <1>1, <1>2, <2>1, ReportStays DEF Told, Working
<1>6. ASSUME NEW n, Return(w, n), cur[w] # "write-report" PROVE Told'
  <2>1. StatesTold' /\ CodeFits' /\ results' = results \cup {cur[w]}
    BY <1>6, ReturnTells
  <2> QED BY <1>1, <1>2, <1>6, <2>1, ReportStays DEF Told, Working
<1>7. ASSUME UNCHANGED <<stageStates, results, failure, code, cancelled>> PROVE Told'
  BY <1>1, <1>7, NothingWritten
<1>8. CASE Preflight(w)
  <2>1. cur[w] # "write-report"
    BY <1>8 DEF Preflight, Begin
  <2>2. CASE UNCHANGED <<schedVars, stageStates, code>>
    BY <1>7, <2>2 DEF schedVars
  <2> QED BY <1>5, <1>6, <1>8, <2>1, <2>2 DEF Preflight, Raise
<1>9. CASE Probed(w)
  <2>1. cur[w] # "write-report"
    BY <1>3, <1>9 DEF Probed, Suspended, At, Held, WorktreesHeld
  <2> QED BY <1>5, <1>6, <1>9, <2>1 DEF Probed, Raise
<1>10. CASE Validate(w) \/ GraphRefresh(w)
  <2>1. cur[w] # "write-report"
    BY <1>10 DEF Validate, GraphRefresh, Begin
  <2> QED BY <1>5, <1>6, <1>10, <2>1 DEF Validate, GraphRefresh, Raise
<1>11. CASE AcquireFails(w) \/ ConnectFails(w)
  BY <1>5, <1>11 DEF AcquireFails, ConnectFails, Raise
<1>12. CASE SessionStep(w)
  <2>1. Holds(cur[w])
    BY <1>12, SessionSteps DEF Holds, Holding
  <2>2. cur[w] # "write-report"
    BY <1>3, <2>1, AuditRunAssumption DEF Held, WorktreesHeld, AgentStages, Later
  <2>3. CASE \E place \in InSession : GoesOn(w, place)
    BY <1>7, <2>3 DEF GoesOn, schedVars
  <2>4. CASE (\E n \in 1..2 : Delivering(w, n)) \/ Raising(w)
    BY <1>5, <1>6, <2>2, <2>4 DEF Delivering, Raising, Raise
  <2> QED BY <1>12, <2>3, <2>4, SessionSteps
<1>14. CASE StartAgent(w)
  BY <1>7, <1>14 DEF StartAgent, schedVars
<1>13. CASE Die(w)
  <2>1. CASE Sched!Killed(w) /\ UNCHANGED <<stageStates, code>>
    BY <1>7, <2>1, Leaving
  <2> QED BY <1>5, <1>13, <2>1 DEF Die
<1> QED BY <1>4, <1>8, <1>9, <1>10, <1>11, <1>12, <1>13, <1>14

\* The evidence is collected before there is a report.
LEMMA CollectTells ==
  ASSUME SchedFacts, Told, NEW w \in Workers, Collect(w)
  PROVE  Told'
<1>1. UNCHANGED <<task, runStatus, report>> /\ task = "working"
  BY DEF Collect, runVars, Begin, At, Working
<1>2. pc[w] = "run" /\ cur[w] = "collect-evidence"
  BY DEF Collect, Begin, At
<1>3. report = None
  BY <1>2, Running DEF Told, ReportFits
<1>4. StatesTold' /\ CodeFits' /\ (results' = results \/ results' = results \cup {cur[w]})
  <2>1. CASE Return(w, 1)
    BY <2>1, ReturnTells
  <2>2. CASE Raise(w, "INTERNAL", 0)
    BY <2>2, RaiseTells DEF Raise
  <2> QED BY <2>1, <2>2 DEF Collect
<1> QED BY <1>1, <1>2, <1>3, <1>4 DEF Told, ReportFits, Ended

\* The report is written once, and the status with it.
LEMMA WriteReportTells ==
  ASSUME SchedFacts, Held, Told, NEW w \in Workers, WriteReport(w)
  PROVE  Told'
<1>1. UNCHANGED <<task, bundleHead>> /\ task = "working"
  BY DEF WriteReport, Begin, At, Working
<1>2. pc[w] = "run" /\ cur[w] = "write-report"
  BY DEF WriteReport, Begin, At
<1>3. "write-report" \notin results /\ "collect-evidence" \in results
  BY <1>2, Running, AuditRunAssumption DEF Dependencies, Later
<1>4. runStatus # "stale"
  BY <1>3 DEF Told, ReportFits
<1>5. CASE Raise(w, "INTERNAL", 0) /\ UNCHANGED <<report, runStatus>>
  <2>1. StatesTold' /\ CodeFits' /\ results' = results
    BY <1>5, RaiseTells DEF Raise
  <2> QED BY <1>1, <1>5, <2>1 DEF Told, ReportFits, Ended
<1>6. CASE report' = [repoHead |-> bundleHead, stale |-> head # bundleHead]
  <2>1. CASE Raise(w, "FAILED", 0) /\ UNCHANGED runStatus
    <3>1. StatesTold' /\ CodeFits' /\ results' = results
      BY <2>1, RaiseTells DEF Raise
    <3> QED BY <1>1, <1>3, <1>4, <1>6, <2>1, <3>1 DEF Told, ReportFits, Ended
  <2>2. CASE Return(w, 1) /\ runStatus' = IF report'.stale THEN "stale" ELSE "running"
    <3>1. StatesTold' /\ CodeFits' /\ results' = results \cup {"write-report"}
      BY <1>2, <2>2, ReturnTells
    <3>2. report' # None
      <4>1. report' \in [repoHead : Nat \cup {None}, stale : BOOLEAN]
        BY <1>6 DEF Held, HeldTypes
      <4> QED BY <4>1, AuditRunAssumption
    <3> QED BY <1>1, <1>3, <1>6, <2>2, <3>1, <3>2 DEF Told, ReportFits, Ended
  <2> QED BY <1>5, <1>6, <2>1, <2>2 DEF WriteReport
<1> QED BY <1>5, <1>6 DEF WriteReport

\* The end of execute is told as it is.
LEMMA EndTells ==
  ASSUME SchedFacts, Told, EndCompleted \/ EndCancelled \/ EndFailed
  PROVE  Told'
<1>1. /\ UNCHANGED <<results, failure, code, bundleHead, report, cancelled>>
      /\ task' = "gone" /\ task = "working" /\ main = "join"
  BY DEF EndCompleted, EndCancelled, EndFailed, End, Working, Sched!ReturnCompleted,
         Sched!ReturnCancelled, Sched!RaiseFailure, Sched!Joined, Sched!progress
<1>2. CodeFits'
  BY <1>1 DEF Told, CodeFits
<1>3. runStatus' = "stale" => runStatus = "stale"
  BY DEF EndCompleted, EndCancelled, EndFailed, End
<1>4. ReportFits'
  BY <1>1, <1>3 DEF Told, ReportFits
<1>5. /\ status \in [Stages -> SP!Statuses]
      /\ \A s \in Stages : status[s] = "succeeded" <=> s \in results
  BY SchedTypes DEF SchedFacts, SP!StatusFits
<1>6. CASE EndCompleted
  <2>1. /\ ~cancelled /\ failure = None /\ stageStates' = status
        /\ runStatus' = IF runStatus = "stale" THEN "stale" ELSE "succeeded"
    BY <1>6 DEF EndCompleted, End, Sched!ReturnCompleted
  <2>2. results = Stages
    BY <1>1, <2>1 DEF SchedFacts, SP!StatusFits
  <2>3. StatesTold'
    BY <1>1, <1>5, <2>1 DEF StatesTold, SchedFacts, SP!StatusFits
  <2>4. "write-report" \in results
    BY <2>2 DEF Stages, Later
  <2>5. Ended'
    BY <1>1, <2>1, <2>2, <2>4 DEF Told, ReportFits, Ended
  <2> QED BY <1>2, <1>4, <2>3, <2>5 DEF Told
<1>7. CASE EndCancelled
  <2>1. /\ cancelled /\ failure = None /\ runStatus' = "cancelled" /\ stageStates' = status'
        /\ status' = [s \in Stages |-> IF status[s] \in {"pending", "ready", "running"}
                                       THEN "cancelled" ELSE status[s]]
    BY <1>7 DEF EndCancelled, End, Sched!ReturnCancelled, Sched!Settle
  <2>2. StatesTold'
    <3>1. \A s \in Stages : status[s] # "failed"
      BY <2>1 DEF SchedFacts, SP!StatusFits
    <3> QED BY <1>1, <1>5, <2>1, <3>1 DEF StatesTold, SP!Statuses
  <2>3. Ended'
    BY <1>1, <2>1 DEF Ended
  <2> QED BY <1>2, <1>4, <2>2, <2>3 DEF Told
<1>8. CASE EndFailed
  <2>1. failure # None /\ failure \in Stages /\ stageStates[failure] = "failed"
    BY <1>8, SchedTypes DEF EndFailed, Sched!RaiseFailure, Told, StatesTold
  <2>2. PICK st \in {"cancelled", "blocked"} :
          \/ /\ Settled({"pending", "ready"}, st)
             /\ runStatus' = IF st = "cancelled" THEN "cancelled" ELSE "failed"
             /\ st = "cancelled" => cancelled
          \/ UNCHANGED stageStates /\ runStatus' = "failed"
    BY <1>8, <2>1 DEF EndFailed, End, Told, CodeFits
  <2>3. \A s \in Stages :
          \/ stageStates'[s] = stageStates[s]
          \/ stageStates[s] \in {"pending", "ready"} /\ stageStates'[s] = st
    <3>1. CASE Settled({"pending", "ready"}, st)
      BY <3>1 DEF Settled
    <3>2. CASE UNCHANGED stageStates
      BY <3>2
    <3> QED BY <2>2, <3>1, <3>2
  <2>4. stageStates' \in [Stages -> SP!Statuses]
    BY <2>2 DEF Told, StatesTold, Settled, SP!Statuses
  <2>5. StatesTold'
    BY <1>1, <2>1, <2>3, <2>4 DEF Told, StatesTold
  <2>6. Ended'
    <3>1. stageStates'[failure] = "failed"
      BY <2>1, <2>3
    <3>2. CASE runStatus' = "failed"
      BY <2>1, <3>1, <3>2 DEF Ended
    <3>3. CASE runStatus' = "cancelled"
      <4>1. Settled({"pending", "ready"}, "cancelled") /\ cancelled
        BY <2>2, <3>3
      <4> QED BY <1>1, <3>3, <4>1 DEF Settled, Ended
    <3> QED BY <2>2, <3>2, <3>3
  <2> QED BY <1>2, <1>4, <2>5, <2>6 DEF Told
<1> QED BY <1>6, <1>7, <1>8

\* Every step tells what it does.
LEMMA NextTold == SchedFacts /\ Placed /\ Told /\ [Next]_vars => Told'
<1> SUFFICES ASSUME SchedFacts, Placed, Told, [Next]_vars PROVE Told'
  OBVIOUS
<1>1. CASE task = "gone"
  <2>1. UNCHANGED <<schedVars, runVars, stageStates, bundleHead, code, report>>
    BY <1>1, GoneRests DEF Placed
  <2> QED BY <2>1, NothingWritten DEF schedVars, runVars
<1>2. CASE Open
  <2>1. UNCHANGED <<stageStates, results, failure, code, cancelled, bundleHead, report>>
    BY <1>2 DEF Open, Sched!Spawn, Sched!progress
  <2>2. task = "created" /\ task' = "working" /\ runStatus' = "running"
    BY <1>2 DEF Open
  <2> QED BY <2>1, <2>2 DEF Told, StatesTold, CodeFits, ReportFits, Ended
<1>3. CASE Join \/ Cancel \/ \E w \in Workers : Idle(w) \/ Enter(w)
  <2>1. UNCHANGED <<task, runStatus, stageStates, code, bundleHead, report>>
    BY <1>3 DEF Join, Cancel, Idle, Enter, runVars
  <2>2. UNCHANGED <<results, failure>> /\ (cancelled => cancelled')
    BY <1>3, Idling, Entering
    DEF Join, Sched!Join, Cancel, Sched!SetCancel, Sched!progress, Enter
  <2>3. task # "gone"
    BY <1>3, AtWork DEF Working, Cancel, Runner
  <2> QED BY <2>1, <2>2, <2>3, NothingWritten
<1>4. CASE CancelInterrupted \/ CancelClosed \/ Commit \/ Crash \/ UNCHANGED vars
  <2>1. UNCHANGED <<schedVars, runStatus, stageStates, code, bundleHead, report>>
    BY <1>4 DEF CancelInterrupted, CancelClosed, Commit, Crash, vars, runVars
  <2>2. task' = task \/ task' = "lost"
    BY <1>4 DEF CancelInterrupted, CancelClosed, Commit, Crash, vars, runVars
  <2> QED BY <2>1, <2>2, NothingWritten DEF schedVars
<1>5. CASE Restart
  <2>1. /\ UNCHANGED <<schedVars, task, stageStates, code, bundleHead, report>>
        /\ runStatus' = IF runStatus \in {"queued", "running"} THEN "interrupted" ELSE runStatus
    BY <1>5 DEF Restart
  <2>2. task = "lost"
    BY <1>5 DEF Restart, Placed, TaskFits
  <2> QED BY <2>1, <2>2 DEF schedVars, Told, StatesTold, CodeFits, ReportFits, Ended
<1>6. ASSUME NEW w \in Workers, NEW s \in Stages, Take(w, s) PROVE Told'
  <2>1. /\ UNCHANGED <<task, runStatus, code, bundleHead, report>>
        /\ stageStates' = [stageStates EXCEPT ![s] = "running"]
        /\ task = "working"
    BY <1>6 DEF Take, runVars, Working
  <2>2. s \in ready /\ UNCHANGED <<results, failure, cancelled>>
    BY <1>6, Entering DEF Take
  <2>3. s \notin results /\ s \notin entered
    BY <2>2 DEF SchedFacts, SP!IInv, SP!QueuedStages
  <2>4. failure # None => failure \in entered
    BY DEF SchedFacts, SP!StatusFits
  <2>5. "running" \in SP!Statuses
    BY DEF SP!Statuses
  <2>6. StatesTold'
    BY <2>1, <2>2, <2>3, <2>4, <2>5, SchedTypes DEF Told, StatesTold
  <2> QED BY <2>1, <2>2, <2>6 DEF Told, CodeFits, ReportFits, Ended
<1>7. ASSUME NEW w \in Workers, Runner(w) PROVE Told'
  BY <1>3, <1>7, RunnerTells, CollectTells, WriteReportTells DEF Runner, SessionStep, Placed
<1>8. CASE EndCompleted \/ EndCancelled \/ EndFailed
  BY <1>8, EndTells
<1> QED BY <1>2, <1>3, <1>4, <1>5, <1>6, <1>7, <1>8 DEF Next, Main

LEMMA InitTold == Init => Told
<1> SUFFICES ASSUME Init PROVE Told
  OBVIOUS
<1>1. results = {} /\ failure = None
  BY DEF Init, Sched!Init
<1>2. StatesTold
  BY <1>1 DEF Init, StatesTold, SP!Statuses
<1>3. CodeFits /\ ReportFits /\ Ended
  BY <1>1 DEF Init, CodeFits, ReportFits, Ended
<1> QED BY <1>2, <1>3 DEF Told

\* What is written of the run is true at every moment of it.
THEOREM ToldInvariant == Spec => [](Placed /\ Told)
<1>1. SchedFacts /\ Placed /\ Told /\ [Next]_vars => Told'
  BY NextTold
<1> QED BY <1>1, InitTold, SchedulerInvariant, PlacedInvariant, PTL DEF Spec

\* What a run may leave behind, while it is at work: a worktree whose removal raised,
\* and a client that was given up, for a reason that is still to be told.
Leftover ==
    \A s \in Specialists :
        worktree[s] # None => Holds(s) \/ (ReleaseFails /\ stageStates[s] = "failed")

Excused == DisconnectFails \/ cancelled \/ failure # None

GivenUpFits ==
    /\ givenUp => Excused \/ \E s \in Stages : step[s] \in {"timing", "failing"}
    /\ \A s \in AgentStages :
         /\ step[s] = "replacing" => session[s].client = 1
         /\ step[s] = "reconnecting" /\ session[s].open => DisconnectFails

\* Workers are cancelled when nothing is left to do for them, or something went wrong.
LEMMA KilledForAReason ==
  ASSUME SchedFacts, TaskFits, Working, NEW w \in Workers, w \in kill, pc[w] = "run"
  PROVE  Excused
<1>1. main = "join"
  BY DEF TaskFits, Working, SchedFacts, SP!Lifetimes
<1>2. results = Stages \/ cancelled \/ failure # None
  BY <1>1 DEF SchedFacts, SP!StatusFits
<1> QED BY <1>2, Running DEF Excused

\* A step in which no runner lets go, no worktree comes and no stage is told anew.
LEMMA LeftoverKept ==
  ASSUME Leftover, \A s \in Specialists : worktree'[s] \in {worktree[s], None},
         \A s \in Specialists : stageStates[s] = "failed" => stageStates'[s] = "failed",
         \A s \in Specialists : Holds(s) => step'[s] \in Holding
  PROVE  Leftover'
  BY DEF Leftover, Holds

\* A runner that ends leaves a worktree only where removing it raised.
LEMMA LeftoverAtEnd ==
  ASSUME SchedFacts, Placed, Told, Leftover, NEW w \in Workers, RunnerEnds(w),
         NEW st, stageStates' = [stageStates EXCEPT ![cur[w]] = st],
         \/ UNCHANGED worktree /\ ~Holds(cur[w]) /\ (cur[w] \in Specialists => st = "failed")
         \/ \E ok \in Removals(cur[w]) : Removed(cur[w], ok) /\ (ok \/ st = "failed")
  PROVE  Leftover'
<1> DEFINE c == cur[w]
<1>1. /\ c \in Stages
      /\ \A s \in Stages : s # c => step'[s] = step[s]
      /\ \A s \in Stages : stageStates'[s] = IF s = c THEN st ELSE stageStates[s]
  BY Running DEF RunnerEnds, Placed, StepsFit, Told, StatesTold
<1>2. worktree \in [Specialists -> Nat \cup {None}]
  BY DEF Placed, Held, HeldTypes
<1>3. ASSUME NEW s \in Specialists, worktree'[s] # None
      PROVE  Holds(s)' \/ (ReleaseFails /\ stageStates'[s] = "failed")
  <2>1. s \in Stages
    BY StageNames
  <2>2. CASE s # c
    <3>1. worktree'[s] = worktree[s]
      BY <1>2, <2>2 DEF Removed
    <3> QED BY <1>1, <1>3, <2>1, <2>2, <3>1 DEF Leftover, Holds
  <2>3. CASE s = c /\ UNCHANGED worktree /\ ~Holds(c) /\ (c \in Specialists => st = "failed")
    BY <1>1, <1>3, <2>1, <2>3 DEF Leftover
  <2>4. ASSUME NEW ok \in Removals(c), s = c, Removed(c, ok), ok \/ st = "failed"
        PROVE  ReleaseFails /\ stageStates'[s] = "failed"
    <3>1. ~ok
      BY <1>2, <1>3, <2>4 DEF Removed
    <3>2. ReleaseFails
      BY <3>1 DEF Removals
    <3> QED BY <1>1, <2>1, <2>4, <3>1, <3>2
  <2> QED BY <2>2, <2>3, <2>4
<1> QED BY <1>3 DEF Leftover

\* What is told of a stage whose runner returns or raises.
LEMMA EndIsTold ==
  ASSUME NEW w \in Workers
  PROVE  /\ \A n : Return(w, n) =>
              /\ RunnerEnds(w)
              /\ stageStates' = [stageStates EXCEPT ![cur[w]] = "succeeded"]
         /\ \A c, n : Raise(w, c, n) =>
              /\ RunnerEnds(w)
              /\ stageStates' = [stageStates EXCEPT ![cur[w]] = "failed"]
  BY RunnerResults DEF Return, Raise, Raised

\* Every step but those of the runners keeps the worktrees with their stages.
LEMMA OthersLeave ==
  ASSUME SchedFacts, Placed, Told, Leftover,
         \/ Main \/ Cancel \/ CancelInterrupted \/ CancelClosed \/ Commit \/ Crash \/ Restart
         \/ UNCHANGED vars
         \/ \E w \in Workers : Idle(w) \/ \E s \in Stages : Take(w, s)
  PROVE  Leftover'
<1>0. /\ worktree \in [Specialists -> Nat \cup {None}] /\ Specialists \subseteq Stages
      /\ stageStates \in [Stages -> SP!Statuses]
      /\ \A s \in Specialists : worktree[s] # None => s \in entered
  BY StageNames DEF Placed, Held, HeldTypes, WorktreesHeld, Told, StatesTold
<1>1. CASE \/ Open \/ Join \/ Cancel \/ CancelInterrupted \/ CancelClosed \/ Commit \/ Crash
           \/ UNCHANGED vars \/ \E w \in Workers : Idle(w)
  <2>1. UNCHANGED <<worktree, stageStates, step>>
    BY <1>1 DEF Open, Join, Cancel, CancelInterrupted, CancelClosed, Commit, Crash, vars, Idle,
                agentVars
  <2> QED BY <2>1, LeftoverKept DEF Holds
<1>2. CASE Restart
  BY <1>0, <1>2 DEF Restart, Leftover
<1>3. ASSUME NEW w \in Workers, NEW s \in Stages, Take(w, s) PROVE Leftover'
  <2>1. /\ UNCHANGED <<worktree, step>>
        /\ stageStates' = [stageStates EXCEPT ![s] = "running"]
    BY <1>3 DEF Take, agentVars
  <2>2. s \in ready /\ s \notin entered
    BY <1>3, Entering DEF Take, SchedFacts, SP!IInv, SP!QueuedStages
  <2> QED BY <1>0, <2>1, <2>2 DEF Leftover, Holds
<1>4. CASE EndCompleted \/ EndCancelled
  <2>1. UNCHANGED <<worktree, step>> /\ failure = None
    BY <1>4 DEF EndCompleted, EndCancelled, End, agentVars, Sched!ReturnCompleted,
                Sched!ReturnCancelled
  <2>2. \A s \in Specialists : stageStates[s] # "failed"
    BY <1>0, <2>1 DEF Told, StatesTold
  <2> QED BY <2>1, <2>2 DEF Leftover, Holds
<1>5. CASE EndFailed
  <2>1. UNCHANGED <<worktree, step>>
    BY <1>5 DEF EndFailed, End, agentVars
  <2>2. \A s \in Specialists : stageStates[s] = "failed" => stageStates'[s] = "failed"
    BY <1>0, <1>5 DEF EndFailed, Settled
  <2> QED BY <2>1, <2>2, LeftoverKept DEF Holds
<1> QED BY <1>1, <1>2, <1>3, <1>4, <1>5 DEF Main

\* The runners do, too.
LEMMA RunnersLeave ==
  ASSUME SchedFacts, Placed, Told, Leftover, NEW w \in Workers, Runner(w)
  PROVE  Leftover'
<1>0. StepsFit /\ Held /\ worktree \in [Specialists -> Nat \cup {None}]
      /\ Specialists \subseteq AgentStages /\ AgentStages \subseteq Stages
  BY StageNames DEF Placed, Held, HeldTypes
<1>1. ASSUME pc[w] = "run", NEW place \in Holding, Goto(cur[w], place),
             UNCHANGED stageStates,
             \/ UNCHANGED worktree
             \/ cur[w] \in Specialists /\ worktree' = [worktree EXCEPT ![cur[w]] = bundleHead]
      PROVE  Leftover'
  <2>1. cur[w] \in Stages
    BY <1>1, Running
  <2>2. \A s \in Stages : step'[s] = IF s = cur[w] THEN place ELSE step[s]
    BY <1>0, <1>1 DEF Goto, StepsFit
  <2>3. \A s \in Specialists : s # cur[w] => worktree'[s] = worktree[s]
    BY <1>0, <1>1
  <2> QED BY <1>0, <1>1, <2>1, <2>2, <2>3 DEF Leftover, Holds
<1>2. ASSUME NEW c, NEW n, NEW ok \in Removals(cur[w]), Removed(cur[w], ok),
             (ok /\ Return(w, n)) \/ Raise(w, c, n)
      PROVE  Leftover'
  <2>1. CASE ok /\ Return(w, n)
    BY <1>2, <2>1, EndIsTold, LeftoverAtEnd
  <2>2. CASE Raise(w, c, n)
    <3>1. RunnerEnds(w) /\ stageStates' = [stageStates EXCEPT ![cur[w]] = "failed"]
      BY <2>2, EndIsTold
    <3> QED BY <1>2, <3>1, LeftoverAtEnd
  <2> QED BY <1>2, <2>1, <2>2
<1>3. CASE Enter(w)
  <2>1. /\ pc[w] = "lock" /\ step' = [step EXCEPT ![cur[w]] = "go"]
        /\ UNCHANGED <<worktree, stageStates>>
    BY <1>3, Entering DEF Enter, Goto, agentVars
  <2>2. cur[w] \in Stages /\ cur[w] \notin entered
    BY <2>1, Running
  <2>3. step[cur[w]] = "idle"
    BY <1>0, <2>2 DEF StepsFit
  <2>4. ~Holds(cur[w])
    BY <2>3 DEF Holds, Holding, InSession, Streaming, Closing
  <2>5. \A s \in Specialists : Holds(s) => step'[s] \in Holding
    BY <1>0, <2>1, <2>4 DEF StepsFit, Holds
  <2> QED BY <2>1, <2>5, LeftoverKept
<1>4. CASE \/ RefuseCancelled(w) \/ Preflight(w) \/ Probed(w) \/ Collect(w) \/ Validate(w)
           \/ WriteReport(w) \/ GraphRefresh(w) \/ AcquireFails(w)
  <2>1. UNCHANGED worktree
    BY <1>4 DEF RefuseCancelled, Preflight, Probed, Collect, Validate, WriteReport,
                GraphRefresh, AcquireFails, agentVars
  <2>2. pc[w] = "run" /\ step[cur[w]] \in {"go", "probing"}
    BY <1>4 DEF RefuseCancelled, Preflight, Probed, Collect, Validate, WriteReport,
                GraphRefresh, AcquireFails, Begin, Suspended, At
  <2>3. ~Holds(cur[w]) /\ cur[w] \in Stages
    BY <2>2, PlainPlaces, Running DEF Holds
  <2>4. ASSUME NEW c, NEW n, Raise(w, c, n) PROVE Leftover'
    <3>1. RunnerEnds(w) /\ stageStates' = [stageStates EXCEPT ![cur[w]] = "failed"]
      BY <2>4, EndIsTold
    <3> QED BY <2>1, <2>3, <3>1, LeftoverAtEnd
  <2>5. ASSUME NEW n, Return(w, n), cur[w] \notin Specialists PROVE Leftover'
    BY <2>1, <2>3, <2>5, EndIsTold, LeftoverAtEnd
  <2>6. CASE Goto("preflight", "probing") /\ UNCHANGED stageStates /\ cur[w] = "preflight"
    <3>1. \A s \in Specialists : step'[s] = step[s]
      BY <1>0, <2>6, StageNames DEF Goto, StepsFit
    <3> QED BY <2>1, <2>6, <3>1, LeftoverKept DEF Holds
  <2>7. cur[w] \notin Specialists \/ RefuseCancelled(w) \/ AcquireFails(w)
    BY <1>0, <1>4, <2>3, AuditRunAssumption
    DEF Preflight, Probed, Collect, Validate, WriteReport, GraphRefresh, Begin, Suspended, At,
        First, Later, Held, WorktreesHeld
  <2>8. (\E c, n : Raise(w, c, n)) \/ (\E n : Return(w, n) /\ cur[w] \notin Specialists)
        \/ (Goto("preflight", "probing") /\ UNCHANGED stageStates /\ cur[w] = "preflight")
    BY <1>4, <2>7 DEF RefuseCancelled, Preflight, Probed, Collect, Validate, WriteReport,
                      GraphRefresh, AcquireFails, Begin, Raise
  <2> QED BY <2>4, <2>5, <2>6, <2>8
<1>5. CASE StartAgent(w)
  <2>1. pc[w] = "run" /\ Goto(cur[w], "starting") /\ UNCHANGED stageStates
        /\ "starting" \in Holding
    BY <1>5 DEF StartAgent, At, Holding
  <2>2. \/ UNCHANGED worktree
        \/ cur[w] \in Specialists /\ worktree' = [worktree EXCEPT ![cur[w]] = bundleHead]
    BY <1>5 DEF StartAgent
  <2> QED BY <1>1, <2>1, <2>2
<1>6. CASE ConnectFails(w)
  BY <1>2, <1>6 DEF ConnectFails
<1>7. CASE SessionStep(w)
  <2>1. pc[w] = "run"
    BY <1>7, SessionSteps
  <2>2. CASE \E place \in InSession : GoesOn(w, place)
    BY <1>1, <2>1, <2>2 DEF GoesOn, Holding
  <2>3. CASE (\E n \in 1..2 : Delivering(w, n)) \/ Raising(w)
    BY <1>2, <2>3 DEF Delivering, Raising
  <2> QED BY <1>7, <2>2, <2>3, SessionSteps
<1>8. CASE Die(w)
  <2>1. PICK ok \in Removals(cur[w]) :
          /\ Removed(cur[w], ok)
          /\ \/ ok /\ Sched!Killed(w) /\ Goto(cur[w], "over") /\ UNCHANGED stageStates
             \/ ~ok /\ Sched!KilledRaise(w) /\ Raised(w, "INTERNAL", 0)
    BY <1>8 DEF Die
  <2>2. pc[w] = "run" /\ cur[w] \in Stages
    BY <1>8, Running DEF Die, Dying
  <2>3. RunnerEnds(w)
    BY <2>1, <2>2, Leaving DEF Raised, Goto, RunnerEnds
  <2>4. CASE ~ok
    BY <2>1, <2>3, <2>4, LeftoverAtEnd DEF Raised
  <2>5. CASE ok
    <3>1. UNCHANGED stageStates
      BY <2>1, <2>5
    <3>2. stageStates' = [stageStates EXCEPT ![cur[w]] = stageStates[cur[w]]]
      BY <2>2, <3>1 DEF Told, StatesTold
    <3> QED BY <2>1, <2>3, <2>5, <3>2, LeftoverAtEnd
  <2> QED BY <2>4, <2>5
<1> QED BY <1>3, <1>4, <1>5, <1>6, <1>7, <1>8 DEF Runner, SessionStep

\* A runner that raises is an excuse; no step of a runner takes one away.
LEMMA RaisingExcuses ==
  ASSUME SchedFacts, NEW w \in Workers, Sched!Fail(w) \/ Sched!KilledRaise(w)
  PROVE  Excused'
<1>1. pc[w] = "run" /\ failure' = IF failure = None THEN cur[w] ELSE failure
  BY Leaving
<1>2. cur[w] # None
  BY <1>1, Running, AuditRunAssumption
<1> QED BY <1>1, <1>2 DEF Excused

LEMMA ExcusesStay ==
  ASSUME SchedFacts, Excused, NEW w \in Workers, Runner(w)
  PROVE  Excused'
<1>1. ASSUME (\E n : Return(w, n)) \/ (\E c, n : Raise(w, c, n)) PROVE Excused'
  BY <1>1, Leaving, RaisingExcuses DEF Return, Raise, Excused
<1>2. CASE Enter(w)
  BY <1>2, Entering DEF Enter, Excused
<1>3. CASE \/ RefuseCancelled(w) \/ Preflight(w) \/ Probed(w) \/ Collect(w) \/ Validate(w)
           \/ WriteReport(w) \/ GraphRefresh(w) \/ AcquireFails(w) \/ ConnectFails(w)
  <2>1. CASE UNCHANGED schedVars
    BY <2>1 DEF schedVars, Excused
  <2> QED BY <1>1, <1>3, <2>1 DEF RefuseCancelled, Preflight, Probed, Collect, Validate,
              WriteReport, GraphRefresh, AcquireFails, ConnectFails
<1>4. CASE StartAgent(w)
  BY <1>4 DEF StartAgent, schedVars, Excused
<1>5. CASE SessionStep(w)
  <2>1. CASE \E place \in InSession : GoesOn(w, place)
    BY <2>1 DEF GoesOn, schedVars, Excused
  <2>2. CASE (\E n \in 1..2 : Delivering(w, n)) \/ Raising(w)
    BY <1>1, <2>2 DEF Delivering, Raising
  <2> QED BY <1>5, <2>1, <2>2, SessionSteps
<1>6. CASE Die(w)
  BY <1>6, Leaving, RaisingExcuses DEF Die, Excused
<1> QED BY <1>2, <1>3, <1>4, <1>5, <1>6 DEF Runner, SessionStep

\* The runner of a stage goes to another place, or ends.
LEMMA GivenUpMoves ==
  ASSUME StepsFit, GivenUpFits, NEW s \in Stages, NEW place, Goto(s, place),
         \A t \in AgentStages \ {s} : session'[t] = session[t],
         s \in AgentStages /\ place = "replacing" => session'[s].client = 1,
         s \in AgentStages /\ place = "reconnecting" /\ session'[s].open => DisconnectFails,
         Excused => Excused',
         givenUp' => \/ Excused' \/ place \in {"timing", "failing"}
                     \/ givenUp /\ step[s] \notin {"timing", "failing"}
  PROVE  GivenUpFits'
<1>1. \A t \in Stages : step'[t] = IF t = s THEN place ELSE step[t]
  BY DEF Goto, StepsFit
<1>2. AgentStages \subseteq Stages
  BY StageNames
<1> QED BY <1>1, <1>2 DEF GivenUpFits

\* What the steps in a session do to the clients.
LEMMA SessionGivesUp ==
  ASSUME SchedFacts, Placed, GivenUpFits, NEW w \in Workers, SessionStep(w)
  PROVE  GivenUpFits'
<1> DEFINE s == cur[w]
           Elsewhere == \A t \in AgentStages \ {s} : session'[t] = session[t]
<1>1. pc[w] = "run" /\ Working /\ Holds(s) /\ StepsFit /\ TaskFits /\ Held
  BY SessionSteps DEF Placed, Holds, Holding
<1>2. /\ s \in AgentStages /\ s \in Stages /\ session \in [AgentStages -> SessionStates]
      /\ session[s] \in SessionStates
  BY <1>1, InTheSession
<1>3. Excused => Excused'
  BY ExcusesStay DEF Runner, SessionStep
<1>4. ASSUME NEW n, NEW ok, Disconnected(s, n, ok)
      PROVE  /\ Elsewhere /\ (session[s].client = n => ~session'[s].open)
             /\ givenUp' => givenUp \/ ~ok
  BY <1>2, <1>4, Disconnecting DEF Disconnected
<1>5. Shut(s) => Elsewhere /\ session'[s].open = session[s].open
                 /\ session'[s].client = session[s].client
  BY <1>2 DEF Shut, SessionStates
<1>6. ASSUME (\E n \in 1..2 : Delivering(w, n)) \/ Raising(w), Elsewhere,
             givenUp' => Excused' \/ (givenUp /\ step[s] \notin {"timing", "failing"})
      PROVE  GivenUpFits'
  <2>1. Goto(s, "over")
    BY <1>6 DEF Delivering, Raising, Return, Raise, Raised
  <2> QED BY <1>1, <1>2, <1>3, <1>6, <2>1, GivenUpMoves
<1>7. Raising(w) => Excused'
  BY RaisingExcuses DEF Raising, Raise
<1>8. ASSUME NEW place \in InSession, GoesOn(w, place), Elsewhere,
             place = "replacing" => session'[s].client = 1,
             place = "reconnecting" /\ session'[s].open => DisconnectFails,
             givenUp' => \/ Excused \/ place \in {"timing", "failing"}
                         \/ givenUp /\ step[s] \notin {"timing", "failing"}
      PROVE  GivenUpFits'
  <2>1. Goto(s, place)
    BY <1>8 DEF GoesOn
  <2> QED BY <1>1, <1>2, <1>3, <1>8, <2>1, GivenUpMoves
<1>9. Streaming \subseteq InSession /\ Closing \subseteq InSession
      /\ {"session", "replacing", "reconnecting", "timing", "interrupt", "closing", "failing",
          "leaving"} = InSession
  BY DEF InSession, Streaming, Closing
<1>10. CASE Connected(w)
  <2>1. /\ GoesOn(w, "session") /\ step[s] = "starting"
        /\ session' = [session EXCEPT ![s] = [client |-> 1, open |-> TRUE, closed |-> FALSE]]
        /\ givenUp' => givenUp \/ DisconnectFails
    BY <1>10 DEF Connected, Suspended, At, MayGiveUp
  <2> QED BY <1>2, <1>8, <1>9, <2>1 DEF Excused
<1>11. CASE Retry(w)
  <2>1. /\ GoesOn(w, "replacing") /\ step[s] = "session" /\ session[s].client = 1
        /\ UNCHANGED <<session, givenUp>>
    BY <1>11 DEF Retry, Suspended, At, clientVars
  <2> QED BY <1>8, <1>9, <2>1
<1>12. CASE Replaced(w)
  <2>1. GoesOn(w, "reconnecting") /\ step[s] = "replacing" /\ session[s].client = 1
    BY <1>2, <1>12 DEF Replaced, Suspended, At, GivenUpFits
  <2>2. CASE Disconnected(s, 1, TRUE)
    BY <1>4, <1>8, <1>9, <2>1, <2>2
  <2>3. CASE DisconnectFails /\ UNCHANGED clientVars
    BY <1>8, <1>9, <2>1, <2>3 DEF clientVars
  <2> QED BY <1>12, <2>2, <2>3 DEF Replaced
<1>13. CASE Reconnected(w)
  <2>1. /\ GoesOn(w, "session") /\ step[s] = "reconnecting"
        /\ session' = [session EXCEPT ![s] = [client |-> 2, open |-> TRUE, closed |-> FALSE]]
        /\ givenUp' => givenUp \/ DisconnectFails
    BY <1>2, <1>13 DEF Reconnected, Suspended, At, MayGiveUp, GivenUpFits
  <2> QED BY <1>2, <1>8, <1>9, <2>1 DEF Excused
<1>14. CASE Complete(w)
  <2>1. step[s] = "session"
    BY <1>14 DEF Complete, Suspended, At
  <2>2. CASE Shut(s) /\ GoesOn(w, "closing") /\ UNCHANGED givenUp
    BY <1>5, <1>8, <1>9, <2>1, <2>2
  <2>3. CASE Delivering(w, 2) /\ UNCHANGED clientVars
    BY <1>6, <2>1, <2>3 DEF clientVars
  <2> QED BY <1>14, <2>2, <2>3 DEF Complete
<1>15. CASE Deliver(w)
  <2>1. PICK ok \in Endings : Disconnected(s, session[s].client, ok)
    BY <1>15 DEF Deliver
  <2>2. step[s] = "closing" /\ Delivering(w, 1)
    BY <1>15 DEF Deliver, Suspended, At
  <2>3. ~ok => DisconnectFails
    BY <2>1 DEF Endings
  <2>4. givenUp' => givenUp \/ Excused'
    BY <1>4, <2>1, <2>3 DEF Excused
  <2> QED BY <1>4, <1>6, <2>1, <2>2, <2>4
<1>16. CASE Break(w) \/ TimedOut(w)
  <2>1. Fails(w)
    BY <1>16 DEF Break, TimedOut
  <2>2. CASE Shut(s) /\ GoesOn(w, "failing")
    BY <1>5, <1>8, <1>9, <2>2
  <2>3. CASE Raising(w) /\ UNCHANGED clientVars
    BY <1>6, <1>7, <2>3 DEF clientVars
  <2> QED BY <2>1, <2>2, <2>3 DEF Fails
<1>17. CASE Timeout(w)
  <2>1. UNCHANGED session
    BY <1>17 DEF Timeout
  <2>2. CASE GoesOn(w, "timing")
    BY <1>8, <1>9, <2>1, <2>2
  <2>3. CASE Raising(w)
    BY <1>6, <1>7, <2>1, <2>3
  <2> QED BY <1>17, <2>2, <2>3 DEF Timeout
<1>18. CASE Abandon(w)
  BY <1>4, <1>6, <1>7, <1>18 DEF Abandon
<1>19. CASE Leave(w) \/ Interrupted(w)
  <2>1. w \in kill
    BY <1>19 DEF Leave, Interrupted, Dying
  <2>2. Excused
    BY <1>1, <2>1, KilledForAReason
  <2>3. CASE Leave(w)
    BY <1>8, <1>9, <2>2, <2>3 DEF Leave
  <2>4. CASE Interrupted(w)
    BY <1>5, <1>8, <1>9, <2>2, <2>4 DEF Interrupted
  <2> QED BY <1>19, <2>3, <2>4
<1> QED BY <1>10, <1>11, <1>12, <1>13, <1>14, <1>15, <1>16, <1>17, <1>18, <1>19
        DEF SessionStep

\* The other runners.
LEMMA RunnersGiveUp ==
  ASSUME SchedFacts, Placed, GivenUpFits, NEW w \in Workers, Runner(w)
  PROVE  GivenUpFits'
<1> DEFINE s == cur[w]
<1>1. StepsFit /\ TaskFits /\ Held /\ session \in [AgentStages -> SessionStates]
  BY DEF Placed, Held, HeldTypes
<1>2. Excused => Excused'
  BY ExcusesStay
<1>3. CASE Enter(w)
  <2>1. s \in Stages /\ s \notin entered /\ Goto(s, "go") /\ UNCHANGED <<session, givenUp>>
    BY <1>3, Entering, Running DEF Enter, agentVars, clientVars
  <2>2. step[s] = "idle"
    BY <1>1, <2>1 DEF StepsFit
  <2> QED BY <1>1, <1>2, <2>1, <2>2, GivenUpMoves
<1>4. CASE \/ RefuseCancelled(w) \/ Preflight(w) \/ Probed(w) \/ Collect(w) \/ Validate(w)
           \/ WriteReport(w) \/ GraphRefresh(w) \/ AcquireFails(w) \/ StartAgent(w)
  <2>1. UNCHANGED <<session, givenUp>>
    BY <1>4 DEF RefuseCancelled, Preflight, Probed, Collect, Validate, WriteReport,
                GraphRefresh, AcquireFails, StartAgent, agentVars, clientVars
  <2>2. pc[w] = "run" /\ step[s] \in {"go", "probing"}
    BY <1>4 DEF RefuseCancelled, Preflight, Probed, Collect, Validate, WriteReport,
                GraphRefresh, AcquireFails, StartAgent, Begin, Suspended, At
  <2>3. s \in Stages
    BY <2>2, Running
  <2>4. \E place \in {"over", "probing", "starting"} : Goto(s, place)
    BY <1>4 DEF RefuseCancelled, Preflight, Probed, Collect, Validate, WriteReport,
                GraphRefresh, AcquireFails, StartAgent, Begin, Raise, Raised, Return
  <2> QED BY <1>1, <1>2, <2>1, <2>2, <2>3, <2>4, GivenUpMoves
<1>5. CASE ConnectFails(w)
  <2>1. pc[w] = "run" /\ Goto(s, "over") /\ UNCHANGED session /\ Sched!Fail(w)
    BY <1>5 DEF ConnectFails, Suspended, At, Raise, Raised
  <2> QED BY <1>1, <1>2, <2>1, Running, RaisingExcuses, GivenUpMoves
<1>6. CASE Die(w)
  <2>1. pc[w] = "run" /\ w \in kill /\ Working /\ Goto(s, "over") /\ ClientLeft(s)
    BY <1>6 DEF Die, Dying, Raised
  <2>2. s \in Stages /\ Excused
    BY <1>1, <2>1, KilledForAReason, Running
  <2>3. \A t \in AgentStages \ {s} : session'[t] = session[t]
    BY <1>1, <2>1 DEF ClientLeft, Disconnected, clientVars
  <2> QED BY <1>1, <1>2, <2>1, <2>2, <2>3, GivenUpMoves
<1> QED BY <1>3, <1>4, <1>5, <1>6, SessionGivesUp DEF Runner, SessionStep

\* The other actors, and the scheduler.
LEMMA OthersGiveUp ==
  ASSUME SchedFacts, Placed, GivenUpFits,
         \/ Main \/ Cancel \/ CancelInterrupted \/ CancelClosed \/ Commit \/ Crash \/ Restart
         \/ UNCHANGED vars
         \/ \E w \in Workers : Idle(w) \/ \E s \in Stages : Take(w, s)
  PROVE  GivenUpFits'
<1>1. /\ session \in [AgentStages -> SessionStates] /\ cancel \in CancelStates
      /\ cancelled \/ cancel.phase = "none"
  BY DEF Placed, Held, HeldTypes, SessionsHeld
<1>2. ASSUME UNCHANGED <<step, failure>>, cancelled => cancelled',
             givenUp' => givenUp \/ cancelled' \/ DisconnectFails,
             \A s \in AgentStages : /\ session'[s].client = session[s].client
                                    /\ session'[s].open => session[s].open
      PROVE  GivenUpFits'
  BY <1>2 DEF GivenUpFits, Excused
<1>3. CASE \/ Main \/ Cancel \/ Commit \/ Crash \/ Restart \/ UNCHANGED vars
           \/ \E w \in Workers : Idle(w) \/ \E s \in Stages : Take(w, s)
  <2>1. UNCHANGED <<step, session, givenUp>>
    BY <1>3 DEF Main, Open, Join, EndCompleted, EndCancelled, EndFailed, End, Cancel, Commit,
                Crash, Restart, vars, Idle, Take, agentVars, clientVars
  <2>2. UNCHANGED failure /\ (cancelled => cancelled')
    <3>1. CASE \E w \in Workers : Idle(w) \/ \E s \in Stages : Take(w, s)
      BY <3>1, Idling, Entering DEF Take
    <3>2. CASE Main \/ Cancel
      BY <3>2 DEF Main, Open, Join, EndCompleted, EndCancelled, EndFailed, Cancel,
                  Sched!Spawn, Sched!Join, Sched!ReturnCompleted, Sched!ReturnCancelled,
                  Sched!RaiseFailure, Sched!SetCancel
    <3>3. CASE Commit \/ Crash \/ Restart \/ UNCHANGED vars
      BY <3>3 DEF Commit, Crash, Restart, vars, schedVars
    <3> QED BY <1>3, <3>1, <3>2, <3>3
  <2> QED BY <1>2, <2>1, <2>2
<1>4. CASE CancelInterrupted
  <2>1. UNCHANGED <<step, failure, cancelled, givenUp>>
    BY <1>4 DEF CancelInterrupted, schedVars
  <2>2. UNCHANGED session \/ Shut(cancel.at)
    BY <1>4 DEF CancelInterrupted
  <2>3. \A s \in AgentStages : /\ session'[s].client = session[s].client
                               /\ session'[s].open => session[s].open
    BY <1>1, <2>2 DEF Shut, SessionStates
  <2> QED BY <1>2, <2>1, <2>3
<1>5. CASE CancelClosed
  <2>1. UNCHANGED <<step, failure, cancelled>> /\ cancelled /\ cancel.at \in AgentStages
    BY <1>1, <1>5 DEF CancelClosed, Cancelling, schedVars, CancelStates
  <2>2. PICK ok : Disconnected(cancel.at, cancel.client, ok)
    BY <1>5 DEF CancelClosed
  <2>3. \A s \in AgentStages : /\ session'[s].client = session[s].client
                               /\ session'[s].open => session[s].open
    BY <1>1, <2>1, <2>2, Disconnecting
  <2> QED BY <1>2, <2>1, <2>3
<1> QED BY <1>3, <1>4, <1>5

\* What is left behind has its reason, at every moment of the run.
THEOREM LeftoverInvariant == Spec => [](Leftover /\ GivenUpFits)
<1>1. Init => Leftover /\ GivenUpFits
  BY StageNames DEF Init, Leftover, GivenUpFits
<1>2. SchedFacts /\ Placed /\ Told /\ Leftover /\ GivenUpFits /\ [Next]_vars
        => (Leftover /\ GivenUpFits)'
  <2> SUFFICES ASSUME SchedFacts, Placed, Told, Leftover, GivenUpFits, [Next]_vars
               PROVE  (Leftover /\ GivenUpFits)'
    OBVIOUS
  <2>1. CASE \E w \in Workers : Runner(w)
    BY <2>1, RunnersLeave, RunnersGiveUp
  <2>2. CASE \/ Main \/ Cancel \/ CancelInterrupted \/ CancelClosed \/ Commit \/ Crash \/ Restart
             \/ UNCHANGED vars
             \/ \E w \in Workers : Idle(w) \/ \E s \in Stages : Take(w, s)
    BY <2>2, OthersLeave, OthersGiveUp
  <2> QED BY <2>1, <2>2 DEF Next
<1> QED BY <1>1, <1>2, SchedulerInvariant, ToldInvariant, PTL DEF Spec

\* When the task of a run has ended, its list of sessions is empty and a client is
\* connected only while cancel() disconnects it; a worktree is left only where its
\* removal raised, and its stage failed then; and where disconnecting works no client
\* was given up unless the run was cancelled or failed (audit.py, 421-430;
\* executor.py, 371-384, 588-597).
THEOREM RunsEndClean == Spec => []CleanEnd
<1>1. SchedFacts /\ Placed /\ Told /\ Leftover /\ GivenUpFits => CleanEnd
  <2> SUFFICES ASSUME SchedFacts, Placed, Told, Leftover, GivenUpFits, task = "gone"
               PROVE  CleanEnd
    BY DEF CleanEnd
  <2>1. \A s \in Stages : step[s] \notin Busy
    BY DEF Placed, TaskFits, StepsFit
  <2>2. \A s \in Stages : /\ ~Holds(s) /\ step[s] \notin InSession
                          /\ step[s] \notin {"timing", "failing"}
    BY <2>1 DEF Busy, Holds, Holding, InSession, Streaming, Closing
  <2>3. live = <<>>
    <3>1. live \in Seq(AgentStages) /\ \A i \in 1..Len(live) : live[i] \notin Stages
      BY <2>2 DEF Placed, Held, HeldTypes, SessionsHeld
    <3>2. \A i \in 1..Len(live) : live[i] \in Stages
      BY <3>1, StageNames
    <3>3. ~(1 \in 1..Len(live))
      BY <3>1, <3>2
    <3>4. Len(live) = 0
      BY <3>1, <3>3
    <3> QED BY <3>1, <3>4
  <2>4. \A s \in AgentStages : session[s].open => ClosedByCancel(s)
    BY <2>2, StageNames DEF Placed, Held, SessionsHeld, Answered, InSession
  <2>5. \A s \in Specialists : worktree[s] # None => ReleaseFails /\ stageStates[s] = "failed"
    BY <2>2, StageNames DEF Leftover
  <2>6. givenUp => \/ DisconnectFails \/ cancelled
                   \/ \E s \in Stages : stageStates[s] = "failed"
    BY <2>2, SchedTypes DEF GivenUpFits, Excused, Told, StatesTold
  <2> QED BY <2>3, <2>4, <2>5, <2>6 DEF CleanEnd
<1> QED BY <1>1, SchedulerInvariant, ToldInvariant, LeftoverInvariant, PTL

\* run.json marks a stage succeeded exactly when the scheduler has its result; a run
\* that ended well has only such stages, a failed one names a stage that failed and a
\* cancelled one leaves none waiting (audit.py, 209-227, 384-388, 396-408).
THEOREM StagesAreTold == Spec => []StagesTold
<1>1. Told => StagesTold
  BY DEF Told, StatesTold, Ended, StagesTold
<1> QED BY <1>1, ToldInvariant, PTL

\* An accepted cancellation ends the run cancelled, or failed when a stage fails first;
\* no other run ends as cancelled (audit.py, 131-140 against 378-396).
THEOREM CancellationsAreHonoured == Spec => []CancelHonoured
<1>1. Told => CancelHonoured
  BY DEF Told, Ended, CancelHonoured
<1> QED BY <1>1, ToldInvariant, PTL

\* The status and the report agree on whether HEAD has moved, and the report is about
\* the commit the worktrees were at (audit.py, 340-352, 378-383).
THEOREM ReportsAgree == Spec => []ReportAgrees
<1>1. Placed /\ Told => ReportAgrees
  BY DEF Placed, Held, WorktreesHeld, Told, ReportFits, Ended, ReportAgrees
<1> QED BY <1>1, ToldInvariant, PTL

-----------------------------------------------------------------------------
(* The audit is a run of RunRecord.                                        *)

\* A step of the run that appends n events, and maybe finds the run stale.
LEMMA Progresses ==
  ASSUME task = "working", UNCHANGED <<task, up>>, NEW n \in 1..4, Emitted(n),
         runStatus' \in {runStatus, "stale"}
  PROVE  Run!RunNext
<1>1. n \in 1..MaxBurst
  BY AuditRunAssumption
<1>2. Run!Progress(n)
  BY DEF Run!Progress, Emitted, Burst, Run!Burst
<1> QED BY <1>1, <1>2 DEF Run!RunNext

\* What returning and raising append.
LEMMA RunnerEmits ==
  ASSUME NEW w, NEW n \in 0..2, Return(w, n) \/ \E c : Raised(w, c, n)
  PROVE  \E k \in 1..4 : Emitted(k)
<1>1. Emitted(n + 1) /\ n + 1 \in 1..4
  BY DEF Return, Raised
<1> QED BY <1>1

\* The steps of the runners are the progress of the run.
LEMMA RunnerProgresses ==
  ASSUME SchedFacts, Told, NEW w \in Workers, Runner(w)
  PROVE  [Run!RunNext]_(Run!runVars)
<1>1. task = "working" /\ UNCHANGED <<task, up>>
  BY AtWork, WorkersKeepTask DEF Working
<1>2. CASE UNCHANGED <<runStatus, events>>
  BY <1>1, <1>2 DEF Run!runVars
<1>3. ASSUME NEW k \in 1..4, Emitted(k), runStatus' \in {runStatus, "stale"}
      PROVE  Run!RunNext
  BY <1>1, <1>3, Progresses
<1>4. CASE Enter(w)
  BY <1>2, <1>4 DEF Enter, runVars
<1>5. CASE WriteReport(w)
  <2>1. \E k \in 1..4 : Emitted(k)
    <3>1. Return(w, 1) \/ \E c : Raised(w, c, 0)
      BY <1>5 DEF WriteReport, Raise
    <3> QED BY <3>1, RunnerEmits
  <2>2. pc[w] = "run" /\ cur[w] = "write-report"
    BY <1>5 DEF WriteReport, Begin, At
  <2>3. runStatus = "running"
    BY <1>1, <2>2, Running DEF Told, ReportFits
  <2>4. runStatus' \in {runStatus, "stale"}
    BY <1>5, <2>3 DEF WriteReport
  <2> QED BY <1>3, <2>1, <2>4
<1>6. CASE \/ RefuseCancelled(w) \/ Probed(w) \/ Collect(w) \/ Validate(w) \/ GraphRefresh(w)
           \/ AcquireFails(w) \/ ConnectFails(w)
  <2>1. UNCHANGED runStatus
    BY <1>6 DEF RefuseCancelled, Probed, Collect, Validate, GraphRefresh, AcquireFails,
                ConnectFails, runVars
  <2>2. \E n \in 0..2 : Return(w, n) \/ \E c : Raised(w, c, n)
    BY <1>6 DEF RefuseCancelled, Probed, Collect, Validate, GraphRefresh, AcquireFails,
                ConnectFails, Raise
  <2> QED BY <1>3, <2>1, <2>2, RunnerEmits
<1>7. CASE Preflight(w)
  <2>1. UNCHANGED runStatus
    BY <1>7 DEF Preflight, runVars
  <2>2. Emitted(1) \/ \E n \in 0..2 : Return(w, n) \/ \E c : Raised(w, c, n)
    BY <1>7 DEF Preflight, Raise
  <2> QED BY <1>3, <2>1, <2>2, RunnerEmits
<1>8. CASE StartAgent(w)
  <2>1. UNCHANGED runStatus /\ Emitted(1)
    BY <1>8 DEF StartAgent, runVars
  <2> QED BY <1>3, <2>1
<1>10. CASE SessionStep(w)
  <2>1. CASE \E place \in InSession : GoesOn(w, place)
    <3>1. UNCHANGED runStatus
      BY <2>1 DEF GoesOn, runVars
    <3>2. Emitted(1) \/ UNCHANGED events \/ (\E n \in 1..2 : Delivering(w, n)) \/ Raising(w)
      BY <1>10, SessionSteps
    <3>3. Emitted(1) \/ UNCHANGED events \/ \E k \in 1..4 : Emitted(k)
      <4>1. ASSUME NEW n \in 0..2, Return(w, n) \/ \E c : Raised(w, c, n)
            PROVE  \E k \in 1..4 : Emitted(k)
        BY <4>1, RunnerEmits
      <4> QED BY <3>2, <4>1 DEF Delivering, Raising, Raise
    <3> QED BY <1>2, <1>3, <3>1, <3>3
  <2>2. CASE (\E n \in 1..2 : Delivering(w, n)) \/ Raising(w)
    <3>1. UNCHANGED runStatus
      BY <2>2 DEF Delivering, Raising, runVars
    <3>2. \E n \in 0..2 : Return(w, n) \/ \E c : Raised(w, c, n)
      BY <2>2 DEF Delivering, Raising, Raise
    <3> QED BY <1>3, <3>1, <3>2, RunnerEmits
  <2> QED BY <1>10, <2>1, <2>2, SessionSteps
<1>9. CASE Die(w)
  <2>1. UNCHANGED runStatus
    BY <1>9 DEF Die, runVars
  <2>2. Emitted(1) \/ Raised(w, "INTERNAL", 0)
    BY <1>9 DEF Die
  <2> QED BY <1>3, <2>1, <2>2, RunnerEmits
<1> QED BY <1>4, <1>5, <1>6, <1>7, <1>8, <1>9, <1>10 DEF Runner, SessionStep

\* Every step of the audit is a step of a run, or none.
LEMMA StepOfRun == SchedFacts /\ Told /\ [Next]_vars => [Run!RunNext]_(Run!runVars)
<1> SUFFICES ASSUME SchedFacts, Told, [Next]_vars PROVE [Run!RunNext]_(Run!runVars)
  OBVIOUS
<1>1. CASE Open
  <2>1. Run!Open
    BY <1>1 DEF Open, Run!Open
  <2> QED BY <2>1 DEF Run!RunNext
<1>2. CASE Join \/ Commit \/ UNCHANGED vars \/ \E w \in Workers : Idle(w)
  BY <1>2 DEF Join, Commit, Idle, vars, runVars, Run!runVars
<1>3. CASE EndCompleted \/ EndCancelled \/ EndFailed
  <2>1. task = "working" /\ UNCHANGED up
    BY <1>3, AtWork DEF Working
  <2>2. PICK st : End(st) /\ st \in Run!Outcomes
    <3>1. CASE EndCompleted
      BY <3>1 DEF EndCompleted, Run!Outcomes
    <3>2. CASE EndCancelled \/ EndFailed
      BY <3>2 DEF EndCancelled, EndFailed, Run!Outcomes
    <3> QED BY <1>3, <3>1, <3>2
  <2>3. Run!Conclude
    BY <2>1, <2>2 DEF End, Run!Conclude
  <2> QED BY <2>3 DEF Run!RunNext
<1>4. CASE Cancel \/ CancelInterrupted \/ CancelClosed
  <2>1. UNCHANGED <<task, up, runStatus>> /\ task \in {"working", "closing", "gone"} /\ up
    BY <1>4 DEF Cancel, CancelInterrupted, CancelClosed, Cancelling, runVars
  <2>2. UNCHANGED events \/ events' = Append(events, "late")
    BY <1>4 DEF Cancel, CancelInterrupted, CancelClosed, Visit
  <2>3. CASE events' = Append(events, "late")
    <3>1. Run!Late
      BY <2>1, <2>3 DEF Run!Late
    <3> QED BY <3>1 DEF Run!RunNext
  <2> QED BY <2>1, <2>2, <2>3 DEF Run!runVars
<1>5. CASE Crash
  <2>1. Run!Crash
    <3>1. <<runStatus, events>> \in Run!PartlyWritten
      BY DEF Run!PartlyWritten
    <3>2. \E disk \in Run!PartlyWritten : runStatus' = disk[1] /\ events' = disk[2]
      <4>1. runStatus' = <<runStatus, events>>[1] /\ events' = <<runStatus, events>>[2]
        BY <1>5 DEF Crash
      <4> QED BY <3>1, <4>1
    <3>3. up /\ up' = FALSE /\ task' = "lost"
      BY <1>5 DEF Crash
    <3> QED BY <3>2, <3>3 DEF Run!Crash
  <2> QED BY <2>1 DEF Run!RunNext
<1>6. CASE Restart
  <2>1. Run!Restart
    BY <1>6 DEF Restart, Run!Restart
  <2> QED BY <2>1 DEF Run!RunNext
<1>7. ASSUME NEW w \in Workers, NEW s \in Stages, Take(w, s) PROVE Run!RunNext
  <2>1. task = "working" /\ UNCHANGED <<task, up, runStatus>> /\ Emitted(1)
    BY <1>7 DEF Take, Working, runVars
  <2> QED BY <2>1, Progresses
<1>8. ASSUME NEW w \in Workers, Runner(w) PROVE [Run!RunNext]_(Run!runVars)
  BY <1>8, RunnerProgresses
<1>9. CASE Main
  BY <1>1, <1>2, <1>3, <1>9 DEF Main
<1>10. ASSUME NEW w \in Workers, Idle(w) \/ Runner(w) \/ \E s \in Stages : Take(w, s)
       PROVE  [Run!RunNext]_(Run!runVars)
  <2>1. CASE Idle(w)
    BY <1>2, <2>1
  <2>2. CASE Runner(w)
    BY <1>8, <2>2
  <2>3. CASE \E s \in Stages : Take(w, s)
    BY <1>7, <2>3
  <2> QED BY <1>10, <2>1, <2>2, <2>3
<1> QED BY <1>2, <1>4, <1>5, <1>6, <1>9, <1>10 DEF Next

\* The audit lives the life of a run: what is proved of RunRecord, that the statuses
\* are recovered, that stream.end is the last word and that a log only grows, holds of
\* it (audit.py, 194-207, 371-430 against run_store.py, 128-137).
THEOREM AuditIsARun == Spec => ImplementsRun
<1>1. Init => Run!RunInit
  BY DEF Init, Run!RunInit
<1>2. SchedFacts /\ Told /\ [Next]_vars => [Run!RunNext]_(Run!runVars)
  BY StepOfRun
<1> QED BY <1>1, <1>2, SchedulerInvariant, ToldInvariant, PTL DEF Spec, ImplementsRun, Run!RunSpec
-----------------------------------------------------------------------------
(* The approvals that the sessions of the runs wait for: the module        *)
(* PermissionBroker, for every set of permissions and runs.                *)

\* A hook that is waiting, or has been answered, has made its request.
HookHasRequested ==
    \A p \in Permissions :
        hook[p] \in {"waiting", "expiring"} => record[p] # "none"

\* The inductive invariant.  NoUnapprovedCommand is not inductive alone: what
\* Resume returns is the future, so the future must agree with the record, and
\* the record with the accepted decisions.
BrokerInv ==
    /\ BrokerTypeOK
    /\ FutureAgrees
    /\ VerdictsRecorded
    /\ HookHasRequested
    /\ AnsweredIsResolved
    /\ NoUnapprovedCommand

\* The initial state: nothing is requested.
LEMMA BrokerStarts == BrokerInit => BrokerInv
  BY DEF BrokerInit, BrokerInv, BrokerTypeOK, FutureAgrees, VerdictsRecorded, HookHasRequested,
         AnsweredIsResolved, NoUnapprovedCommand, Answers

\* Every handler of the broker preserves the invariant.
LEMMA BrokerSteps == BrokerInv /\ [BrokerNext]_(brokerVars) => BrokerInv'
<1> SUFFICES ASSUME BrokerInv, [BrokerNext]_(brokerVars)
             PROVE  BrokerInv'
  OBVIOUS
<1> USE DEF BrokerInv, BrokerTypeOK, FutureAgrees, VerdictsRecorded, HookHasRequested,
            AnsweredIsResolved, NoUnapprovedCommand, Answers
<1>1. ASSUME NEW p \in Permissions, Request(p) PROVE BrokerInv'
  BY <1>1 DEF Request, Record
<1>2. ASSUME NEW p \in Permissions, Resume(p) PROVE BrokerInv'
  BY <1>2 DEF Resume, Reply
<1>3. ASSUME NEW p \in Permissions, Timer(p) PROVE BrokerInv'
  BY <1>3 DEF Timer
<1>4. ASSUME NEW p \in Permissions, Expire(p) PROVE BrokerInv'
  <2>1. CASE record[p] = "pending"
    BY <1>4, <2>1 DEF Expire, Reply, Settle
  <2>2. CASE record[p] # "pending"
    BY <1>4, <2>2 DEF Expire, Reply
  <2> QED BY <2>1, <2>2
<1>5. ASSUME NEW p \in Permissions, NEW a \in Answers, Decide(p, a) PROVE BrokerInv'
  BY <1>5 DEF Decide, Settle
<1>6. ASSUME NEW r \in Runs, CancelRun(r) PROVE BrokerInv'
  BY <1>6 DEF CancelRun, PendingOf
<1>7. ASSUME NEW r \in Runs, TearDown(r) PROVE BrokerInv'
  BY <1>7 DEF TearDown
<1>8. CASE UNCHANGED brokerVars
  BY <1>8 DEF brokerVars
<1> QED BY <1>1, <1>2, <1>3, <1>4, <1>5, <1>6, <1>7, <1>8 DEF BrokerNext

\* The invariant holds in every reachable state.
THEOREM BrokerInvariant == BrokerSpec => []BrokerInv
  BY BrokerStarts, BrokerSteps, PTL DEF BrokerSpec

\* Every state has the declared types.
THEOREM BrokerTypeCorrect == BrokerSpec => []BrokerTypeOK
<1>1. BrokerInv => BrokerTypeOK BY DEF BrokerInv
<1> QED BY BrokerInvariant, <1>1, PTL

\* A reviewed command runs only on an accepted, undisputed approval: authorize
\* (audit.py 461-476) returns what decide (permissions.py 69-85) recorded.
THEOREM OnlyApprovedCommandsRun == BrokerSpec => []NoUnapprovedCommand
<1>1. BrokerInv => NoUnapprovedCommand BY DEF BrokerInv
<1> QED BY BrokerInvariant, <1>1, PTL

\* The record and the future never disagree.
THEOREM RecordAndFutureAgree == BrokerSpec => []FutureAgrees
<1>1. BrokerInv => FutureAgrees BY DEF BrokerInv
<1> QED BY BrokerInvariant, <1>1, PTL

\* The operators were told what the record says: an accepted decision is never hidden
\* by a timeout or a cancellation, and nothing else is recorded as one (permissions.py 58-103).
THEOREM VerdictsAreRecorded == BrokerSpec => []VerdictsRecorded
<1>1. BrokerInv => VerdictsRecorded BY DEF BrokerInv
<1> QED BY BrokerInvariant, <1>1, PTL

\* Resolved records are never rewritten, by any interleaving of decisions,
\* timeouts and cancellations.
THEOREM ApprovalsAreOneShot == BrokerSpec => ResolvedOnce
<1>1. BrokerInv /\ [BrokerNext]_(brokerVars) =>
        [\A p \in Permissions :
            record[p] \notin {"none", "pending"} =>
                record'[p] = record[p] /\ verdicts'[p] = verdicts[p]]_(brokerVars)
  <2> SUFFICES ASSUME BrokerInv, BrokerNext, NEW p \in Permissions,
                      record[p] \notin {"none", "pending"}
               PROVE  record'[p] = record[p] /\ verdicts'[p] = verdicts[p]
    BY DEF brokerVars
  <2> USE DEF BrokerInv, BrokerTypeOK
  <2>1. ASSUME NEW q \in Permissions,
               Request(q) \/ Resume(q) \/ Timer(q) \/ Expire(q)
                 \/ \E a \in Answers : Decide(q, a)
        PROVE  record'[p] = record[p] /\ verdicts'[p] = verdicts[p]
    BY <2>1 DEF Request, Record, Resume, Timer, Expire, Decide, Settle
  <2>2. ASSUME NEW r \in Runs, CancelRun(r) \/ TearDown(r)
        PROVE  record'[p] = record[p] /\ verdicts'[p] = verdicts[p]
    BY <2>2 DEF CancelRun, PendingOf, TearDown
  <2> QED BY <2>1, <2>2 DEF BrokerNext
<1> QED BY BrokerInvariant, <1>1, PTL DEF BrokerSpec, ResolvedOnce
=============================================================================
