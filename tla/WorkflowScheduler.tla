-------------------------- MODULE WorkflowScheduler --------------------------
(***************************************************************************)
(* One call of WorkflowScheduler.execute (harness/scheduler.py): a main    *)
(* coroutine, min(max_concurrency, n) workers, the queue of ready stages,  *)
(* the effect locks, the event sink and the caller's cancel_event.         *)
(*                                                                         *)
(* asyncio switches coroutines only at an await that suspends, so a step   *)
(* of this module is the code between two such awaits.  `kill' holds the   *)
(* workers whose task has been cancelled and which have not resumed yet:   *)
(* they resume with CancelledError at the await they were suspended in.    *)
(*                                                                         *)
(* The queue of ready stages is a set: workers are interchangeable and     *)
(* nothing below depends on the order in which it hands stages out.        *)
(***************************************************************************)
EXTENDS Integers, FiniteSets, Sequences

CONSTANTS Stages,         \* the stage ids
          Workflows,      \* the inputs of execute: records [deps, effect]
          MaxConcurrency, \* WorkflowScheduler(max_concurrency)
          SinkSuspends,   \* TRUE: await on_event(...) may suspend the worker
          SinkRaises,     \* TRUE: on_event(...) may raise
          RunnersFail,    \* the stages whose runner may raise
          CanCancel,      \* TRUE: the caller may set cancel_event
          CanAbort,       \* TRUE: the task running execute() may be cancelled
          None

Locks == {"workspace_write", "vault_write", "external"}
Effects == Locks \cup {"read_only"}

ASSUME SchedulerAssumption ==
    /\ IsFiniteSet(Stages) /\ Stages # {}
    /\ MaxConcurrency \in Nat \ {0}
    /\ RunnersFail \subseteq Stages
    /\ SinkSuspends \in BOOLEAN /\ SinkRaises \in BOOLEAN
    /\ CanCancel \in BOOLEAN /\ CanAbort \in BOOLEAN
    /\ Workflows \subseteq [deps : [Stages -> SUBSET Stages],
                            effect : [Stages -> Effects]]
    /\ None \notin Stages

Workers ==
    1..(IF MaxConcurrency < Cardinality(Stages) THEN MaxConcurrency
                                                ELSE Cardinality(Stages))

ASSUME NoneIsNoWorker == None \notin Workers

VARIABLES
    wf,             \* the stages given to execute: wf.deps, wf.effect
    main,           \* where the coroutine of execute is
    status,         \* states: the StageStatus of every stage
    indegree,       \* dependencies that have no result yet
    ready,          \* the ready queue
    results,        \* the stages with a result
    completedOrder, \* completed_order
    failure,        \* the stage whose exception will be raised, or None
    allDone,        \* the all_done event
    cancelled,      \* the caller's cancel_event
    lock,           \* _effect_locks: the worker that holds each, or None
    pc,             \* where each worker is
    cur,            \* the stage each worker works on
    kill,           \* workers with a pending CancelledError
    entered,        \* history: the stages whose runner was called
    log             \* the events the sink has taken

progress == <<status, indegree, ready, results, completedOrder>>
vars == <<wf, main, progress, failure, allDone, cancelled, lock, pc, cur,
          kill, entered, log>>

-----------------------------------------------------------------------------

Dependents(s) == {t \in Stages : s \in wf.deps[t]}

\* Mutant: only _validate_stages, which refuses a stage that depends on itself.
AcyclicSelfOnly(deps) == \A s \in Stages : s \notin deps[s]

\* _topological_layers fails to visit every stage exactly when there are stages
\* that all have a dependency among themselves.
Acyclic(deps) ==
    ~\E S \in SUBSET Stages : S # {} /\ \A s \in S : deps[s] \cap S # {}

\* Mutant: the test for zero is dropped.
FreedUntested(s) == Dependents(s)

\* The stages that become ready when s gets its result.
Freed(s) == {t \in Dependents(s) : indegree[t] = 1}

Event(type, s) == [type |-> type, stage |-> s]

Init ==
    /\ wf \in Workflows
    /\ main = "validate"
    /\ indegree = [s \in Stages |-> Cardinality(wf.deps[s])]
    /\ ready = {s \in Stages : wf.deps[s] = {}}
    /\ status = [s \in Stages |-> IF wf.deps[s] = {} THEN "ready" ELSE "pending"]
    /\ results = {}
    /\ completedOrder = <<>>
    /\ failure = None
    /\ allDone = FALSE
    /\ cancelled = FALSE
    /\ lock = [e \in Locks |-> None]
    /\ pc = [w \in Workers |-> "unborn"]
    /\ cur = [w \in Workers |-> None]
    /\ kill = {}
    /\ entered = {}
    /\ log = <<>>

-----------------------------------------------------------------------------
(* The coroutine of execute.                                               *)

Reject ==
    /\ main = "validate" /\ ~Acyclic(wf.deps)
    /\ main' = "rejected"
    /\ UNCHANGED <<wf, progress, failure, allDone, cancelled, lock, pc, cur, kill, entered, log>>

Spawn ==
    /\ main = "validate" /\ Acyclic(wf.deps)
    /\ main' = "wait"
    /\ log' = Append(log, Event("workflow.started", None))
    /\ pc' = [w \in Workers |-> "top"]
    /\ UNCHANGED <<wf, progress, failure, allDone, cancelled, lock, cur, kill, entered>>

\* all_done is set: cancel every worker and gather them.
Join ==
    /\ main = "wait" /\ allDone
    /\ main' = "join"
    /\ kill' = {w \in Workers : pc[w] # "exit"}
    /\ UNCHANGED <<wf, progress, failure, allDone, cancelled, lock, pc, cur, entered, log>>

Settle(from, to) ==
    status' = [s \in Stages |-> IF status[s] \in from THEN to ELSE status[s]]

Joined == main = "join" /\ \A w \in Workers : pc[w] = "exit"

\* Mutant: RUNNING is forgotten among the statuses to cancel.
ReturnCancelledKeepsRunning ==
    /\ Joined /\ cancelled /\ failure = None
    /\ main' = "cancelled"
    /\ Settle({"pending", "ready"}, "cancelled")
    /\ log' = Append(log, Event("workflow.cancelled", None))
    /\ UNCHANGED <<wf, indegree, ready, results, completedOrder, failure,
                   allDone, cancelled, lock, pc, cur, kill, entered>>

ReturnCancelled ==
    /\ Joined /\ cancelled /\ failure = None
    /\ main' = "cancelled"
    /\ Settle({"pending", "ready", "running"}, "cancelled")
    /\ log' = Append(log, Event("workflow.cancelled", None))
    /\ UNCHANGED <<wf, indegree, ready, results, completedOrder, failure,
                   allDone, cancelled, lock, pc, cur, kill, entered>>

RaiseFailure ==
    /\ Joined /\ failure # None
    /\ main' = "failed"
    /\ Settle({"pending", "ready"}, "blocked")
    /\ UNCHANGED <<wf, indegree, ready, results, completedOrder, failure,
                   allDone, cancelled, lock, pc, cur, kill, entered, log>>

\* Mutant: cancel_event is not looked at again after the workers have ended.
ReturnCompletedUnchecked ==
    /\ Joined /\ failure = None
    /\ main' = "completed"
    /\ log' = Append(log, Event("workflow.completed", None))
    /\ UNCHANGED <<wf, progress, failure, allDone, cancelled, lock, pc, cur, kill, entered>>

ReturnCompleted ==
    /\ Joined /\ ~cancelled /\ failure = None
    /\ main' = "completed"
    /\ log' = Append(log, Event("workflow.completed", None))
    /\ UNCHANGED <<wf, progress, failure, allDone, cancelled, lock, pc, cur, kill, entered>>

\* The sink raises on workflow.started, before there are workers, or on the
\* last event: the exception leaves execute.
SinkRaisesInMain ==
    /\ SinkRaises
    /\ main' = "raised"
    /\ \/ main = "validate" /\ Acyclic(wf.deps) /\ UNCHANGED status
       \/ /\ Joined /\ failure = None
          /\ IF cancelled THEN Settle({"pending", "ready", "running"}, "cancelled")
                          ELSE UNCHANGED status
    /\ UNCHANGED <<wf, indegree, ready, results, completedOrder, failure,
                   allDone, cancelled, lock, pc, cur, kill, entered, log>>

\* The task of execute is cancelled.  Waiting for all_done it owns no worker
\* (they are orphaned); in gather the cancellation is passed on to them.
Abort ==
    /\ CanAbort /\ main \in {"wait", "join"}
    /\ main' = "aborted"
    /\ kill' = IF main = "wait" THEN kill ELSE {w \in Workers : pc[w] # "exit"}
    /\ UNCHANGED <<wf, progress, failure, allDone, cancelled, lock, pc, cur, entered, log>>

SetCancel ==
    /\ CanCancel /\ ~cancelled
    /\ cancelled' = TRUE
    /\ UNCHANGED <<wf, main, progress, failure, allDone, lock, pc, cur, kill, entered, log>>

-----------------------------------------------------------------------------
(* A worker.                                                               *)

At(w, label) == pc[w] = label /\ w \notin kill
Goto(w, label) == pc' = [pc EXCEPT ![w] = label]

\* `await emit(type, s)' with all_done = d: the sink takes the event at once and
\* the worker goes on at `next' (all_done is set after a stage.failed is taken),
\* or the worker is suspended at `emitting' until Deliver, or the sink raises:
\* emit is outside the worker's try block, so the worker's task ends there.
TakenWithoutDone(w, type, s, next, d) ==   \* mutant: all_done.set() is missing
    /\ log' = Append(log, Event(type, s))
    /\ Goto(w, next)
    /\ allDone' = d
Taken(w, type, s, next, d) ==
    /\ log' = Append(log, Event(type, s))
    /\ Goto(w, next)
    /\ allDone' = (d \/ type = "stage.failed")

SinkRaised(w, d) ==
    /\ SinkRaises
    /\ Goto(w, "exit")
    /\ allDone' = d
    /\ UNCHANGED log

Emit(w, type, s, emitting, next, d) ==
    \/ ~SinkSuspends /\ Taken(w, type, s, next, d)
    \/ SinkSuspends /\ Goto(w, emitting) /\ allDone' = d /\ UNCHANGED log
    \/ SinkRaised(w, d)

\* The head of the loop: all_done, then cancel_event, then ready.get().
Loop(w) ==
    /\ At(w, "top")
    /\ allDone' = (allDone \/ cancelled)
    /\ Goto(w, IF allDone \/ cancelled THEN "exit" ELSE "get")
    /\ UNCHANGED <<wf, main, progress, failure, cancelled, lock, cur, kill, entered, log>>

\* wait_for(ready.get(), timeout=0.05) times out.
PollTimeout(w) ==
    /\ At(w, "get")
    /\ Goto(w, "top")
    /\ UNCHANGED <<wf, main, progress, failure, allDone, cancelled, lock, cur, kill, entered, log>>

Take(w, s) ==
    /\ At(w, "get") /\ s \in ready
    /\ ready' = ready \ {s}
    /\ status' = [status EXCEPT ![s] = "running"]
    /\ cur' = [cur EXCEPT ![w] = s]
    /\ Emit(w, "stage.started", s, "starting", "lock", allDone)
    /\ UNCHANGED <<wf, main, indegree, results, completedOrder, failure,
                   cancelled, lock, kill, entered>>

\* _effect_guard: wait for the lock of the stage's effect, call the runner.
EnterRunnerUnlocked(w) ==   \* mutant: the guard does not wait for the lock
    /\ At(w, "lock")
    /\ UNCHANGED lock
    /\ Goto(w, "run")
    /\ entered' = entered \cup {cur[w]}
    /\ UNCHANGED <<wf, main, progress, failure, allDone, cancelled, cur, kill, log>>
EnterRunner(w) ==
    /\ At(w, "lock")
    /\ LET e == wf.effect[cur[w]] IN
         \/ /\ e \in Locks /\ lock[e] = None
            /\ lock' = [lock EXCEPT ![e] = w]
         \/ /\ e \notin Locks
            /\ UNCHANGED lock
    /\ Goto(w, "run")
    /\ entered' = entered \cup {cur[w]}
    /\ UNCHANGED <<wf, main, progress, failure, allDone, cancelled, cur, kill, log>>

Unlocked(w) == [e \in Locks |-> IF lock[e] = w THEN None ELSE lock[e]]

\* The runner returns: release the lock, then the body of state_lock.
Succeed(w) ==
    /\ At(w, "run")
    /\ lock' = Unlocked(w)
    /\ LET s == cur[w]
       IN /\ results' = results \cup {s}
          /\ completedOrder' = Append(completedOrder, s)
          /\ indegree' = [t \in Stages |-> IF t \in Dependents(s)
                                           THEN indegree[t] - 1 ELSE indegree[t]]
          /\ status' = [t \in Stages |-> IF t = s THEN "succeeded"
                                         ELSE IF t \in Freed(s) THEN "ready"
                                         ELSE status[t]]
          /\ ready' = ready \cup Freed(s)
          /\ Emit(w, "stage.completed", s, "completing", "top",
                  allDone \/ results' = Stages)
    /\ UNCHANGED <<wf, main, failure, cancelled, cur, kill, entered>>

\* The runner raises an Exception.
RunnerRaised(w) ==
    /\ cur[w] \in RunnersFail
    /\ lock' = Unlocked(w)
    /\ status' = [status EXCEPT ![cur[w]] = "failed"]
    /\ failure' = IF failure = None THEN cur[w] ELSE failure
    /\ Emit(w, "stage.failed", cur[w], "failing", "exit", allDone)
    /\ UNCHANGED <<wf, main, indegree, ready, results, completedOrder,
                   cancelled, cur, entered>>

Fail(w) ==
    /\ At(w, "run")
    /\ RunnerRaised(w)
    /\ UNCHANGED kill

\* The sink takes an event a worker was suspended in, or raises.
Deliver(w, emitting, type, next) ==
    /\ At(w, emitting)
    /\ Taken(w, type, cur[w], next, allDone) \/ SinkRaised(w, allDone)
    /\ UNCHANGED <<wf, main, progress, failure, cancelled, lock, cur, kill, entered>>

\* CancelledError at the await the worker is suspended in.
KilledHoldingLock(w) ==   \* mutant: the lock is not released on the way out
    /\ w \in kill
    /\ Goto(w, "exit")
    /\ kill' = kill \ {w}
    /\ UNCHANGED <<wf, main, progress, failure, allDone, cancelled, lock, cur, entered, log>>
Killed(w) ==
    /\ w \in kill
    /\ Goto(w, "exit")
    /\ kill' = kill \ {w}
    /\ lock' = Unlocked(w)
    /\ UNCHANGED <<wf, main, progress, failure, allDone, cancelled, cur, entered, log>>

\* The runner meets the CancelledError and raises another exception (its
\* finally clause releases a worktree, which may fail).
KilledRaise(w) ==
    /\ w \in kill /\ pc[w] = "run"
    /\ RunnerRaised(w)
    /\ kill' = kill \ {w}

Worker(w) ==
    \/ Loop(w)
    \/ PollTimeout(w)
    \/ \E s \in ready : Take(w, s)
    \/ EnterRunner(w)
    \/ Succeed(w)
    \/ Fail(w)
    \/ Deliver(w, "starting", "stage.started", "lock")
    \/ Deliver(w, "completing", "stage.completed", "top")
    \/ Deliver(w, "failing", "stage.failed", "exit")
    \/ Killed(w)
    \/ KilledRaise(w)

Main ==
    \/ Reject \/ Spawn \/ Join
    \/ ReturnCancelled \/ RaiseFailure \/ ReturnCompleted \/ SinkRaisesInMain

Next == Main \/ SetCancel \/ Abort \/ \E w \in Workers : Worker(w)

Spec == Init /\ [][Next]_vars

-----------------------------------------------------------------------------
(* Fairness: the event loop runs every coroutine that is not suspended, the  *)
(* runner of a stage ends (every executor session has a timeout), the sink   *)
(* drains, and a worker that keeps polling a queue with a stage in it gets   *)
(* one (get() returns at once, its timeout cannot fire for ever).            *)

WorkerProgress(w) ==
    \/ Loop(w) \/ EnterRunner(w) \/ Succeed(w) \/ Fail(w)
    \/ Deliver(w, "starting", "stage.started", "lock")
    \/ Deliver(w, "completing", "stage.completed", "top")
    \/ Deliver(w, "failing", "stage.failed", "exit")
    \/ Killed(w) \/ KilledRaise(w) \/ PollTimeout(w)

FairSpec ==
    /\ Spec
    /\ WF_vars(Main)
    /\ \A w \in Workers : WF_vars(WorkerProgress(w))
    /\ \A w \in Workers : SF_vars(\E s \in ready : Take(w, s))

-----------------------------------------------------------------------------
(* What the scheduler promises.                                            *)

Statuses == {"pending", "ready", "running", "succeeded", "failed", "blocked", "cancelled"}
MainLabels == {"validate", "rejected", "wait", "join", "completed", "cancelled",
               "failed", "raised", "aborted"}
WorkerLabels == {"unborn", "top", "get", "starting", "lock", "run",
                 "completing", "failing", "exit"}
Carrying == {"starting", "lock", "run", "failing"}

TypeOK ==
    /\ wf \in Workflows
    /\ main \in MainLabels
    /\ status \in [Stages -> Statuses]
    /\ indegree \in [Stages -> Nat]
    /\ ready \subseteq Stages
    /\ results \subseteq Stages
    /\ completedOrder \in Seq(Stages)
    /\ failure \in Stages \cup {None}
    /\ allDone \in BOOLEAN /\ cancelled \in BOOLEAN
    /\ lock \in [Locks -> Workers \cup {None}]
    /\ pc \in [Workers -> WorkerLabels]
    /\ cur \in [Workers -> Stages \cup {None}]
    /\ kill \subseteq Workers
    /\ entered \subseteq Stages

\* The counters the workers decrement between awaits always hold the number of
\* dependencies that have no result (indegree, lines 59 and 128-132).
IndegreeExact ==
    \A s \in Stages : indegree[s] = Cardinality(wf.deps[s] \ results)

\* completed_order lists every result once, each after all its dependencies.
CompletedOrderTopological ==
    /\ \A i \in 1..Len(completedOrder) :
          wf.deps[completedOrder[i]] \subseteq {completedOrder[j] : j \in 1..(i - 1)}
    /\ \A i, j \in 1..Len(completedOrder) :
          completedOrder[i] = completedOrder[j] => i = j
    /\ results = {completedOrder[i] : i \in 1..Len(completedOrder)}

\* While execute waits for all_done there is a stage to take or a worker that
\* carries one: no validated graph leaves the workers polling an empty queue
\* for ever.  (A sink that raises kills workers, so it is excluded.)
NothingStranded ==
    ~SinkRaises /\ main = "wait" /\ ~allDone =>
        ready # {} \/ \E w \in Workers : pc[w] \in Carrying

\* When execute has returned or raised the failure, none of its workers is
\* left: every one has ended and no effect lock is held.
ReturnMeansQuiet ==
    main \in {"completed", "cancelled", "failed"} =>
        /\ \A w \in Workers : pc[w] = "exit" /\ w \notin kill
        /\ \A e \in Locks : lock[e] = None

Announced(s, type) == \E i \in 1..Len(log) : log[i] = Event(type, s)

\* What the result of execute says of the stages.  A sink that takes events at
\* once has been told of every completed stage, dependencies first.
OutcomeAccurate ==
    /\ main = "completed" =>
         /\ results = Stages
         /\ \A s \in Stages : status[s] = "succeeded"
    /\ main = "cancelled" =>
         \A s \in Stages : status[s] = IF s \in results THEN "succeeded" ELSE "cancelled"
    /\ main = "failed" =>
         /\ status[failure] = "failed" /\ failure \notin results
         /\ \A s \in Stages : status[s] \notin {"pending", "ready"}

\* For a sink that neither suspends nor raises, the log is a history of the
\* execution: a stage is announced as started after its dependencies are
\* announced as completed, and every result has been announced.
LogTellsAll ==
    ~SinkSuspends /\ ~SinkRaises =>
        /\ \A i \in 1..Len(log) : log[i].type = "stage.started" =>
             \A d \in wf.deps[log[i].stage] :
                \E j \in 1..(i - 1) : log[j] = Event("stage.completed", d)
        /\ \A s \in results : Announced(s, "stage.completed")

\* execute always comes to an end: a rejected graph, a result or a failure, unless
\* its own task is cancelled; and then the workers it leaves behind end as well.
Terminates ==
    /\ <>(main \in {"rejected", "completed", "cancelled", "failed", "raised", "aborted"})
    /\ main = "aborted" ~> \A w \in Workers : pc[w] = "exit"

\* The workers, the queue and the locks implement the abstract execution.
Dag == INSTANCE DagExecution WITH
    Serialised <- Locks, Limit <- MaxConcurrency,
    deps <- wf.deps, effect <- wf.effect, entered <- entered,
    running <- {cur[w] : w \in {v \in Workers : pc[v] = "run"}},
    done <- results

ImplementsDag == Dag!Spec

=============================================================================
