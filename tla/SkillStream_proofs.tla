--------------------------- MODULE SkillStream_proofs ---------------------------
(***************************************************************************)
(* Proofs about a request that streams its work, for any stages, graphs,   *)
(* workers, runners that fail, tokens and queue capacity: the verdict of a *)
(* stream comes last, a success is complete, and an artifact that is       *)
(* announced is known to the graph and took nobody's document by mistake.  *)
(*                                                                         *)
(* The workers are those of WorkflowScheduler with a sink that suspends    *)
(* now and then: a step is one with a sink that never does, or one with a  *)
(* sink that always does.  The invariant of WorkflowScheduler_proofs does  *)
(* not speak of the sink, so both keep it.                                 *)
(***************************************************************************)
EXTENDS SkillStream, FiniteSetTheorems, SequenceTheorems, TLAPS

FP == INSTANCE WorkflowScheduler_proofs WITH
    SinkSuspends <- FALSE, SinkRaises <- FALSE, CanCancel <- FALSE, CanAbort <- TRUE
HP == INSTANCE WorkflowScheduler_proofs WITH
    SinkSuspends <- TRUE, SinkRaises <- FALSE, CanCancel <- FALSE, CanAbort <- TRUE

-----------------------------------------------------------------------------
(* The scheduler of the stream.                                            *)

\* What WorkflowScheduler assumes of its constants holds.
LEMMA SchedulerAssumed ==
  /\ FP!IsFiniteSet(Stages) /\ HP!IsFiniteSet(Stages) /\ Stages # {}
  /\ MaxConcurrency \in Nat \ {0}
  /\ RunnersFail \subseteq Stages
  /\ TRUE \in BOOLEAN /\ FALSE \in BOOLEAN
  /\ Workflows \subseteq [deps : [Stages -> SUBSET Stages],
                          effect : [Stages -> FP!Effects]]
  /\ Workflows \subseteq [deps : [Stages -> SUBSET Stages],
                          effect : [Stages -> HP!Effects]]
  /\ None \notin Stages
  BY StreamedWorkflows DEF Free!Effects, FP!Effects, HP!Effects, Free!Locks, FP!Locks, HP!Locks,
     IsFiniteSet, FP!IsFiniteSet, HP!IsFiniteSet

LEMMA SameWorkers == Workers = FP!Workers /\ Workers = HP!Workers
  BY DEF Workers, Free!Workers, FP!Workers, HP!Workers, Free!Cardinality, FP!Cardinality,
     HP!Cardinality

LEMMA NoneAssumed == None \notin FP!Workers /\ None \notin HP!Workers
<1>1. FP!Cardinality(Stages) \in Nat
  BY StreamedWorkflows, FS_CardinalityType DEF FP!Cardinality, Cardinality
<1>2. FP!Workers \subseteq Nat
  BY <1>1, StreamedWorkflows DEF FP!Workers
<1> QED BY <1>2, SameWorkers, StreamedWorkflows

\* What the proofs below use of the scheduler.
SchedFacts == FP!IInv /\ FP!Lifetimes /\ FP!StatusFits /\ FP!OutcomeAccurate

\* It says the same of either sink.
LEMMA SameFacts ==
  /\ FP!IInv <=> HP!IInv
  /\ FP!Lifetimes <=> HP!Lifetimes
  /\ FP!StatusFits <=> HP!StatusFits
  /\ FP!OutcomeAccurate <=> HP!OutcomeAccurate
<1> USE SameWorkers DEF FP!Locks, HP!Locks, FP!Effects, HP!Effects, FP!Carrying, HP!Carrying
<1>1. FP!TypeOK <=> HP!TypeOK
  BY DEF FP!TypeOK, HP!TypeOK, FP!MainLabels, HP!MainLabels, FP!Statuses, HP!Statuses,
         FP!WorkerLabels, HP!WorkerLabels
<1>2. FP!IndegreeExact <=> HP!IndegreeExact
  BY DEF FP!IndegreeExact, HP!IndegreeExact, FP!Cardinality, HP!Cardinality
<1>3. FP!CarriedStages <=> HP!CarriedStages
  BY DEF FP!CarriedStages, HP!CarriedStages
<1>4. (FP!QueuedStages <=> HP!QueuedStages) /\ (FP!PastStages <=> HP!PastStages)
  BY DEF FP!QueuedStages, HP!QueuedStages, FP!PastStages, HP!PastStages
<1>5. FP!LocksHeld <=> HP!LocksHeld
  BY DEF FP!LocksHeld, HP!LocksHeld
<1>6. FP!IInv <=> HP!IInv
  BY <1>1, <1>2, <1>3, <1>4, <1>5 DEF FP!IInv, HP!IInv
<1>7. FP!Lifetimes <=> HP!Lifetimes
  BY DEF FP!Lifetimes, HP!Lifetimes
<1>8. FP!StatusFits <=> HP!StatusFits
  BY DEF FP!StatusFits, HP!StatusFits
<1>9. FP!OutcomeAccurate <=> HP!OutcomeAccurate
  BY DEF FP!OutcomeAccurate, HP!OutcomeAccurate
<1> QED BY <1>6, <1>7, <1>8, <1>9

LEMMA SameInit == Init => FP!Init
  BY SameWorkers DEF Init, Workers, Free!Init, FP!Init, Free!Locks, FP!Locks,
     Free!Cardinality, FP!Cardinality, Free!Workers, FP!Workers

\* The actions of the scheduler in SkillStream are those of the proofs.
LEMMA SameMain ==
  /\ Free!Spawn => FP!Main
  /\ Free!Reject => FP!Main
  /\ Free!Join => FP!Main
  /\ Free!ReturnCompleted => FP!Main
  /\ Free!RaiseFailure => FP!Main
  /\ Free!Abort => FP!Abort
  BY SameWorkers
  DEF Workers, FP!Main, Free!Spawn, FP!Spawn, Free!Acyclic, FP!Acyclic, Free!Event, FP!Event,
      Free!Reject, FP!Reject, Free!Join, FP!Join, Free!Joined, FP!Joined,
      Free!Settle, FP!Settle, Free!ReturnCompleted, FP!ReturnCompleted,
      Free!RaiseFailure, FP!RaiseFailure, Free!Abort, FP!Abort, Free!progress, FP!progress

LEMMA SameFree ==
  ASSUME NEW w
  PROVE  /\ Free!Loop(w) => FP!Worker(w)
         /\ Free!PollTimeout(w) => FP!Worker(w)
         /\ \A s : Free!Take(w, s) => FP!Worker(w)
         /\ Free!EnterRunner(w) => FP!Worker(w)
         /\ Free!Succeed(w) => FP!Worker(w)
         /\ Free!Fail(w) => FP!Worker(w)
         /\ Free!Killed(w) => FP!Worker(w)
<1> USE DEF Free!At, FP!At, Free!Goto, FP!Goto, Free!Unlocked, FP!Unlocked,
            Free!Locks, FP!Locks, Free!progress, FP!progress
<1>1. Free!Loop(w) => FP!Loop(w)
  BY DEF Free!Loop, FP!Loop
<1>2. Free!PollTimeout(w) => FP!PollTimeout(w)
  BY DEF Free!PollTimeout, FP!PollTimeout
<1>3. ASSUME NEW s, Free!Take(w, s) PROVE s \in ready /\ FP!Take(w, s)
  BY <1>3 DEF Free!Take, FP!Take, Free!Emit, FP!Emit, Free!Taken, FP!Taken,
     Free!SinkRaised, FP!SinkRaised, Free!Event, FP!Event
<1>4. Free!EnterRunner(w) => FP!EnterRunner(w)
  BY DEF Free!EnterRunner, FP!EnterRunner
<1>5. Free!Succeed(w) => FP!Succeed(w)
  BY DEF Free!Succeed, FP!Succeed, Free!Dependents, FP!Dependents, Free!Freed, FP!Freed,
     Free!Emit, FP!Emit, Free!Taken, FP!Taken,
     Free!SinkRaised, FP!SinkRaised, Free!Event, FP!Event
<1>6. Free!Fail(w) => FP!Fail(w)
  BY DEF Free!Fail, FP!Fail, Free!RunnerRaised, FP!RunnerRaised, Free!Emit, FP!Emit,
     Free!Taken, FP!Taken, Free!SinkRaised, FP!SinkRaised, Free!Event, FP!Event
<1>7. Free!Killed(w) => FP!Killed(w)
  BY DEF Free!Killed, FP!Killed
<1> QED BY <1>1, <1>2, <1>3, <1>4, <1>5, <1>6, <1>7 DEF FP!Worker

LEMMA SameHeld ==
  ASSUME NEW w
  PROVE  /\ \A s : Held!Take(w, s) => HP!Worker(w)
         /\ Held!Succeed(w) => HP!Worker(w)
         /\ Held!Fail(w) => HP!Worker(w)
         /\ Held!Deliver(w, "starting", "stage.started", "lock") => HP!Worker(w)
         /\ Held!Deliver(w, "completing", "stage.completed", "top") => HP!Worker(w)
         /\ Held!Deliver(w, "failing", "stage.failed", "exit") => HP!Worker(w)
<1> USE DEF Held!At, HP!At, Held!Goto, HP!Goto, Held!Unlocked, HP!Unlocked,
            Held!Locks, HP!Locks, Held!progress, HP!progress, Held!Taken, HP!Taken,
            Held!SinkRaised, HP!SinkRaised, Held!Event, HP!Event
<1>1. ASSUME NEW s, Held!Take(w, s) PROVE s \in ready /\ HP!Take(w, s)
  BY <1>1 DEF Held!Take, HP!Take, Held!Emit, HP!Emit
<1>2. Held!Succeed(w) => HP!Succeed(w)
  BY DEF Held!Succeed, HP!Succeed, Held!Dependents, HP!Dependents, Held!Freed, HP!Freed,
     Held!Emit, HP!Emit
<1>3. Held!Fail(w) => HP!Fail(w)
  BY DEF Held!Fail, HP!Fail, Held!RunnerRaised, HP!RunnerRaised, Held!Emit, HP!Emit
<1>4. \A emitting, type, next :
         Held!Deliver(w, emitting, type, next) => HP!Deliver(w, emitting, type, next)
  BY DEF Held!Deliver, HP!Deliver
<1> QED BY <1>1, <1>2, <1>3, <1>4 DEF HP!Worker

\* A step of a worker is one of the scheduler with a sink that never suspends, or
\* of the one with a sink that always does, or none.
LEMMA WorkerSched ==
  ASSUME NEW w \in Workers, Worker(w)
  PROVE  FP!Worker(w) \/ HP!Worker(w) \/ UNCHANGED schedVars
<1>1. CASE Token(w)
  BY <1>1 DEF Token
<1>2. CASE Quiet(w)
  BY <1>2, SameFree DEF Quiet
<1>3. ASSUME NEW s, Take(w, s) PROVE FP!Worker(w) \/ HP!Worker(w)
  BY <1>3, SameFree, SameHeld DEF Take, Emitting
<1>4. CASE Succeed(w) \/ Fail(w)
  BY <1>4, SameFree, SameHeld DEF Succeed, Fail, Emitting
<1>5. CASE Resume(w)
  BY <1>5, SameHeld DEF Resume
<1> QED BY <1>1, <1>2, <1>3, <1>4, <1>5 DEF Worker

LEMMA StepSched == [Next]_vars => [FP!Next]_(FP!vars) \/ [HP!Next]_(HP!vars)
<1> SUFFICES ASSUME [Next]_vars
             PROVE  [FP!Next]_(FP!vars) \/ [HP!Next]_(HP!vars)
  OBVIOUS
<1>1. UNCHANGED schedVars => UNCHANGED FP!vars
  BY DEF schedVars, FP!vars, FP!progress
<1>2. CASE Producer
  BY <1>1, <1>2, SameMain
  DEF Producer, Open, OpenRejected, BadSource, Join, Completed, Failed, Validate, Repair,
      Refresh, PutNext, FP!Next
<1>3. CASE \E scope \in BOOLEAN : Leave(scope)
  BY <1>1, <1>3, SameMain DEF Leave, FP!Next
<1>4. CASE Write \/ SaveByHand \/ Assemble \/ Receive \/ CancelAgain \/ UNCHANGED vars
  BY <1>1, <1>4 DEF Write, CheckTarget, Replace, SaveByHand, Assemble, Receive, CancelAgain, vars
<1>5. ASSUME NEW w \in Workers, Worker(w)
      PROVE  [FP!Next]_(FP!vars) \/ [HP!Next]_(HP!vars)
  BY <1>1, <1>5, WorkerSched, SameWorkers DEF FP!Next, HP!Next
<1> QED BY <1>2, <1>3, <1>4, <1>5 DEF Next

\* Every step keeps what the scheduler promises, whether its sink suspends or not.
LEMMA NextSched == SchedFacts /\ [Next]_vars => SchedFacts'
<1> SUFFICES ASSUME SchedFacts, [Next]_vars PROVE SchedFacts'
  OBVIOUS
<1>1. CASE [FP!Next]_(FP!vars)
  <2>1. FP!TypeOK
    BY DEF SchedFacts, FP!IInv
  <2>2. FP!IInv'
    BY <1>1, FP!NextIInv, SchedulerAssumed, NoneAssumed DEF SchedFacts
  <2>3. FP!Lifetimes'
    BY <1>1, <2>1, FP!NextLifetimes, SchedulerAssumed, NoneAssumed DEF SchedFacts
  <2>4. FP!StatusFits' /\ FP!OutcomeAccurate'
    BY <1>1, FP!NextOutcome, SchedulerAssumed, NoneAssumed DEF SchedFacts
  <2> QED BY <2>2, <2>3, <2>4 DEF SchedFacts
<1>2. CASE [HP!Next]_(HP!vars)
  <2>1. HP!IInv /\ HP!Lifetimes /\ HP!StatusFits /\ HP!OutcomeAccurate
    BY SameFacts DEF SchedFacts
  <2>2. HP!TypeOK
    BY <2>1 DEF HP!IInv
  <2>3. HP!IInv'
    BY <1>2, <2>1, HP!NextIInv, SchedulerAssumed, NoneAssumed
  <2>4. HP!Lifetimes'
    BY <1>2, <2>1, <2>2, HP!NextLifetimes, SchedulerAssumed, NoneAssumed
  <2>5. HP!StatusFits' /\ HP!OutcomeAccurate'
    BY <1>2, <2>1, HP!NextOutcome, SchedulerAssumed, NoneAssumed
  <2>6. (HP!IInv /\ HP!Lifetimes /\ HP!StatusFits /\ HP!OutcomeAccurate)' => SchedFacts'
    BY SameFacts, PTL DEF SchedFacts
  <2> QED BY <2>3, <2>4, <2>5, <2>6
<1> QED BY <1>1, <1>2, StepSched

\* The stages of a stream are executed as WorkflowScheduler promises, under a sink
\* that suspends on a full queue (engine.py 101-140, tech_solution.py 168-205).
THEOREM SchedulerOfTheStream == Spec => []SchedFacts
<1>1. Init => SchedFacts
  <2> SUFFICES ASSUME FP!Init PROVE SchedFacts
    BY SameInit
  <2>1. FP!IInv
    BY FP!InitIInv, SchedulerAssumed, NoneAssumed
  <2> QED BY <2>1 DEF SchedFacts, FP!Init, FP!Lifetimes, FP!StatusFits, FP!OutcomeAccurate
<1> QED BY <1>1, NextSched, PTL DEF Spec

-----------------------------------------------------------------------------
(* What a step puts.                                                       *)

Verdicts == {"result", "stream.error"}
OfWorkers == {"task.started", "task.completed", "task.failed", "token"}
Events == {"stream.open", "dag.started", "dag.completed", "artifact.validated",
           "artifact.written", "stream.end"} \cup Verdicts \cup OfWorkers
Frames == [event : Events, stage : Stages \cup {None}]

Places == {"start", "dead", "run", "validate", "revalidate", "repair", "validated",
           "check target", "replace", "refresh", "written", "result", "error", "end", "done"}
\* Those after the stages, if they have completed.
Beyond == {"validate", "revalidate", "repair", "validated", "check target", "replace",
           "refresh", "written", "result"}

AtRest == \A w \in Workers : pc[w] \in {"exit", "unborn"}

\* Where the producer is says where execute is.
PlacesFit ==
    /\ prod \in Places
    /\ prod \in {"start", "dead"} => main = "validate" /\ sent = <<>>
    /\ prod = "run" => main \in {"wait", "join"}
    /\ prod \in Beyond => main = "completed"
    /\ prod = "error" => main \in {"completed", "failed", "rejected"}
    /\ main = "rejected" => AtRest

FramesFit == sent \in Seq(Frames) /\ kind \in {"engine", "solution"}

\* What a step adds to the frames: nothing, or one.
Adds(e, s) ==
    /\ e \in Events /\ s \in Stages \cup {None}
    /\ sent' = Append(sent, Frame(e, s))

LEMMA AppendedFrame ==
  ASSUME FramesFit, NEW e, NEW s, Adds(e, s)
  PROVE  /\ sent' \in Seq(Frames) /\ Len(sent) \in Nat /\ Len(sent') = Len(sent) + 1
         /\ \A i \in 1..Len(sent) : sent'[i] = sent[i]
         /\ sent'[Len(sent')] = Frame(e, s)
<1>1. Frame(e, s) \in Frames
  BY DEF Adds, Frame, Frames
<1> QED BY <1>1 DEF Adds, FramesFit

\* The scheduler's types, as used below.
LEMMA SchedTypes ==
  ASSUME SchedFacts
  PROVE  /\ pc \in [Workers -> FP!WorkerLabels] /\ cur \in [Workers -> Stages \cup {None}]
         /\ results \subseteq Stages /\ ready \subseteq Stages
         /\ \A w \in Workers : pc[w] = "run" => cur[w] \in Stages \ results
         /\ \A s \in ready : s \notin results
         /\ main \in {"completed", "failed"} => AtRest
         /\ main = "completed" => results = Stages
<1>1. FP!TypeOK /\ FP!CarriedStages /\ FP!QueuedStages
  BY DEF SchedFacts, FP!IInv
<1>2. \A w \in Workers : pc[w] = "run" => cur[w] \in Stages \ results
  BY <1>1, SameWorkers DEF FP!CarriedStages, FP!Carrying
<1>3. main \in {"completed", "failed"} => AtRest
  BY SameWorkers DEF SchedFacts, FP!Lifetimes, AtRest
<1>4. main = "completed" => results = Stages
  BY DEF SchedFacts, FP!OutcomeAccurate
<1> QED BY <1>1, <1>2, <1>3, <1>4, SameWorkers DEF FP!TypeOK, FP!QueuedStages

\* What the actions of the scheduler do to a worker, whatever the sink.
Moved(w, from) ==
    /\ pc[w] \in from
    /\ \E l : pc' = [pc EXCEPT ![w] = l]
    /\ main' = main

LEMMA FreeMoves ==
  ASSUME NEW w
  PROVE  /\ \A s : Free!Take(w, s) => Moved(w, {"get"}) /\ s \in ready /\ results' = results
         /\ Free!Succeed(w) => Moved(w, {"run"}) /\ results' = results \cup {cur[w]}
         /\ Free!Fail(w) => Moved(w, {"run"}) /\ results' = results
         /\ Free!Loop(w) \/ Free!PollTimeout(w) \/ Free!EnterRunner(w) =>
              Moved(w, {"top", "get", "lock"}) /\ results' = results
         /\ Free!Killed(w) => /\ pc' = [pc EXCEPT ![w] = "exit"]
                              /\ main' = main /\ results' = results
  BY DEF Moved, Free!Take, Free!Succeed, Free!Fail, Free!RunnerRaised, Free!Loop,
         Free!PollTimeout, Free!EnterRunner, Free!Killed, Free!Emit, Free!Taken,
         Free!SinkRaised, Free!Goto, Free!At, Free!progress

LEMMA HeldMoves ==
  ASSUME NEW w
  PROVE  /\ \A s : Held!Take(w, s) => Moved(w, {"get"}) /\ s \in ready /\ results' = results
         /\ Held!Succeed(w) => Moved(w, {"run"}) /\ results' = results \cup {cur[w]}
         /\ Held!Fail(w) => Moved(w, {"run"}) /\ results' = results
         /\ \A from, type, to :
              Held!Deliver(w, from, type, to) => Moved(w, {from}) /\ results' = results
  BY DEF Moved, Held!Take, Held!Succeed, Held!Fail, Held!RunnerRaised, Held!Deliver,
         Held!Emit, Held!Taken, Held!SinkRaised, Held!Goto, Held!At, Held!progress

\* A step of a worker: workers at rest stay so and put nothing; the frames it puts are
\* those of workers; only a runner that returns gives a result.
Putting(w) ==
    \/ UNCHANGED <<sent, tokens>>
    \/ UNCHANGED tokens /\ \E e \in OfWorkers \ {"token"}, s \in Stages \cup {None} : Adds(e, s)
    \/ Token(w) /\ Adds("token", cur[w])

LEMMA WorkerStep ==
  ASSUME SchedFacts, NEW w \in Workers, Worker(w)
  PROVE  /\ main' = main /\ Putting(w)
         /\ AtRest => AtRest' /\ sent' = sent
         /\ results' = results \/ (Succeed(w) /\ results' = results \cup {cur[w]})
<1> USE SchedTypes DEF Putting, Adds, Put, OfWorkers, Events
<1>0. cur[w] \in Stages \cup {None} /\ pc[w] \in FP!WorkerLabels
  OBVIOUS
<1>1. CASE Token(w)
  <2>1. ~AtRest
    BY <1>1 DEF Token, AtRest
  <2> QED BY <1>0, <1>1, <2>1 DEF Token, schedVars
<1>2. ASSUME NEW s \in ready, Take(w, s) PROVE ~AtRest /\ main' = main /\ Putting(w) /\ results' = results
  <2>1. Free!Take(w, s) \/ Held!Take(w, s)
    BY <1>2 DEF Take, Emitting
  <2>2. Moved(w, {"get"}) /\ results' = results
    BY <2>1, FreeMoves, HeldMoves
  <2>3. ~AtRest /\ main' = main
    BY <2>2 DEF Moved, AtRest
  <2> QED BY <1>2, <2>2, <2>3 DEF Take, Emitting
<1>3. CASE Succeed(w)
  <2>1. Moved(w, {"run"}) /\ results' = results \cup {cur[w]}
    BY <1>3, FreeMoves, HeldMoves DEF Succeed, Emitting
  <2>2. ~AtRest /\ main' = main
    BY <2>1 DEF Moved, AtRest
  <2> QED BY <1>0, <1>3, <2>1, <2>2 DEF Succeed, Emitting
<1>4. CASE Fail(w)
  <2>1. Moved(w, {"run"}) /\ results' = results
    BY <1>4, FreeMoves, HeldMoves DEF Fail, Emitting
  <2>2. ~AtRest /\ main' = main
    BY <2>1 DEF Moved, AtRest
  <2> QED BY <1>0, <1>4, <2>1, <2>2 DEF Fail, Emitting
<1>5. CASE Resume(w)
  <2>1. PICK from \in {"starting", "completing", "failing"} :
           Moved(w, {from}) /\ results' = results
    BY <1>5, HeldMoves DEF Resume
  <2>2. ~AtRest /\ main' = main
    BY <2>1 DEF Moved, AtRest
  <2> QED BY <1>0, <1>5, <2>1, <2>2 DEF Resume
<1>6. CASE Quiet(w)
  <2>1. \/ Moved(w, {"top", "get", "lock"}) /\ results' = results
        \/ pc' = [pc EXCEPT ![w] = "exit"] /\ main' = main /\ results' = results
    BY <1>6, FreeMoves DEF Quiet
  <2>2. main' = main /\ results' = results /\ (AtRest => AtRest')
    BY <2>1 DEF Moved, AtRest
  <2> QED BY <1>6, <2>2 DEF Quiet
<1> QED BY <1>1, <1>2, <1>3, <1>4, <1>5, <1>6 DEF Worker

-----------------------------------------------------------------------------
(* The producer.                                                           *)

\* What leaving does, by the place of _produce.
LEMMA Leaving ==
  ASSUME NEW scope \in BOOLEAN, Leave(scope)
  PROVE  /\ client = "reading" /\ client' = "left"
         /\ UNCHANGED <<kind, sent, moved, out, got, tokens, file, raced, results, pc>>
         /\ prod \in {"start", "end", "done"} => prod' = "done" /\ main' = main
         /\ prod = "dead" => prod' = "dead" /\ main' = main
         /\ prod = "run" => prod' = "end" /\ main' = "aborted"
         /\ prod \notin {"start", "end", "done", "dead", "run"} => prod' = "end" /\ main' = main
         /\ lit' = IF prod' = "end" THEN lit \ {"source"} ELSE lit
         /\ indexed' \in IF prod = "refresh" THEN {indexed, file} ELSE {indexed}
<1>1. prod' = Unwound
  BY DEF Leave, Goto
<1>2. /\ prod \in {"start", "end", "done"} => prod' = "done"
      /\ prod = "dead" => prod' = "dead"
      /\ prod \notin {"start", "end", "done", "dead"} => prod' = "end"
  BY <1>1 DEF Unwound
<1>3. /\ prod = "run" => main' = "aborted"
      /\ prod # "run" => main' = main
      /\ UNCHANGED <<results, pc>>
  BY DEF Leave, Free!Abort, Free!progress, schedVars
<1>4. /\ client = "reading" /\ client' = "left"
      /\ UNCHANGED <<kind, sent, moved, out, got, tokens, file, raced>>
      /\ lit' = IF prod' = "end" THEN lit \ {"source"} ELSE lit
      /\ indexed' \in IF prod = "refresh" THEN {indexed, file} ELSE {indexed}
  BY DEF Leave, queues
<1> QED BY <1>2, <1>3, <1>4

\* The first frames.
LEMMA Opening ==
  ASSUME PlacesFit, FramesFit, Open \/ OpenRejected
  PROVE  /\ sent = <<>> /\ sent' \in Seq(Frames) /\ Len(sent') \in {1, 2}
         /\ \A i \in 1..Len(sent') :
               sent'[i].event \in {"stream.open", "dag.started"} /\ sent'[i].stage = None
<1>1. sent = <<>>
  BY DEF PlacesFit, Open, OpenRejected
<1>2. sent' = <<Frame("stream.open", None), Frame("dag.started", None)>>
      \/ sent' = <<Frame("stream.open", None)>>
  BY DEF Open, OpenRejected
<1>3. Frame("stream.open", None) \in Frames /\ Frame("dag.started", None) \in Frames
  BY DEF Frame, Frames, Events
<1>4. CASE sent' = <<Frame("stream.open", None)>>
  <2>1. Len(sent') = 1 /\ sent'[1] = Frame("stream.open", None)
    BY <1>4
  <2> QED BY <1>1, <1>3, <1>4, <2>1 DEF Frame
<1>5. CASE sent' = <<Frame("stream.open", None), Frame("dag.started", None)>>
  <2>1. Len(sent') = 2 /\ sent'[1] = Frame("stream.open", None)
        /\ sent'[2] = Frame("dag.started", None)
    BY <1>5
  <2>2. sent' \in Seq(Frames)
    BY <1>3, <1>5
  <2> QED BY <1>1, <2>1, <2>2 DEF Frame
<1> QED BY <1>2, <1>4, <1>5

\* What the producer itself puts later.
LEMMA PutNextAdds ==
  ASSUME PutNext
  PROVE  /\ Adds(EventOf(prod), None)
         /\ prod \in {"validated", "written", "result", "error", "end"}
         /\ prod' = AfterPut(prod)
  BY DEF PutNext, Adds, Put, Goto, EventOf, Events, Verdicts

LEMMA NextFrames == SchedFacts /\ PlacesFit /\ FramesFit /\ [Next]_vars => FramesFit'
<1> SUFFICES ASSUME SchedFacts, PlacesFit, FramesFit, [Next]_vars PROVE FramesFit'
  OBVIOUS
<1>1. ASSUME UNCHANGED <<sent, kind>> PROVE FramesFit'
  BY <1>1 DEF FramesFit
<1>2. ASSUME NEW e, NEW s, Adds(e, s), UNCHANGED kind PROVE FramesFit'
  BY <1>2, AppendedFrame DEF FramesFit
<1>3. ASSUME NEW w \in Workers, Worker(w) PROVE FramesFit'
  <2>1. Putting(w) /\ UNCHANGED kind
    BY <1>3, WorkerStep DEF Worker
  <2> QED BY <1>1, <1>2, <2>1 DEF Putting
<1>4. CASE Open \/ OpenRejected
  BY <1>4, Opening DEF Open, OpenRejected, Waiting, FramesFit
<1>5. CASE PutNext
  BY <1>2, <1>5, PutNextAdds DEF PutNext, Waiting
<1>6. CASE Completed \/ Repair
  <2>1. UNCHANGED kind
    BY <1>6 DEF Completed, Repair, Waiting
  <2>2. UNCHANGED sent \/ Adds("dag.completed", None) \/ Adds("token", None)
    BY <1>6 DEF Completed, Repair, Adds, Put, Events, OfWorkers
  <2> QED BY <1>1, <1>2, <2>1, <2>2
<1>7. ASSUME NEW scope \in BOOLEAN, Leave(scope) PROVE FramesFit'
  BY <1>1, <1>7, Leaving
<1>8. CASE BadSource \/ Join \/ Failed \/ Validate \/ Refresh \/ Write \/ SaveByHand
           \/ Assemble \/ Receive \/ CancelAgain \/ UNCHANGED vars
  BY <1>1, <1>8 DEF BadSource, Join, Failed, Validate, Refresh, Write, CheckTarget, Replace,
     SaveByHand, Assemble, Receive, CancelAgain, Waiting, vars, queues
<1> QED BY <1>3, <1>4, <1>5, <1>6, <1>7, <1>8 DEF Next, Producer

LEMMA NextPlaces == SchedFacts /\ PlacesFit /\ FramesFit /\ [Next]_vars => PlacesFit'
<1> SUFFICES ASSUME SchedFacts, PlacesFit, FramesFit, [Next]_vars PROVE PlacesFit'
  OBVIOUS
<1> USE DEF PlacesFit, Places, Beyond
<1>1. ASSUME UNCHANGED <<prod, main>>, AtRest => AtRest' /\ sent' = sent PROVE PlacesFit'
  <2>1. prod \in {"start", "dead"} => AtRest
    BY SameWorkers DEF SchedFacts, FP!Lifetimes, AtRest
  <2> QED BY <1>1, <2>1
<1>2. UNCHANGED schedVars => UNCHANGED main /\ (AtRest => AtRest')
  BY DEF schedVars, AtRest
<1>3. ASSUME NEW w \in Workers, Worker(w) PROVE PlacesFit'
  BY <1>1, <1>3, WorkerStep DEF Worker
<1>4. CASE Open
  BY <1>4 DEF Open, Goto, Free!Spawn
<1>5. CASE OpenRejected
  <2>1. AtRest
    BY <1>5, SameWorkers DEF OpenRejected, Free!Reject, SchedFacts, FP!Lifetimes, AtRest
  <2> QED BY <1>5, <2>1 DEF OpenRejected, Goto, Free!Reject, AtRest
<1>6. CASE BadSource
  BY <1>6, <1>2 DEF BadSource, Goto
<1>7. CASE Join
  BY <1>7 DEF Join, Free!Join
<1>8. CASE Completed
  BY <1>8 DEF Completed, Goto, Free!ReturnCompleted
<1>9. CASE Failed
  BY <1>9 DEF Failed, Goto, Free!RaiseFailure
<1>10. CASE Validate \/ Repair \/ Refresh \/ CheckTarget \/ Replace
  BY <1>2, <1>10 DEF Validate, Repair, Refresh, CheckTarget, Replace, Goto
<1>11. CASE PutNext
  BY <1>2, <1>11, PutNextAdds DEF PutNext, AfterPut
<1>12. ASSUME NEW scope \in BOOLEAN, Leave(scope) PROVE PlacesFit'
  BY <1>12, Leaving DEF AtRest
<1>13. CASE Assemble \/ Receive \/ SaveByHand \/ UNCHANGED vars
  BY <1>1, <1>2, <1>13 DEF Assemble, Receive, SaveByHand, vars, queues
<1>14. CASE CancelAgain
  BY <1>2, <1>14 DEF CancelAgain, Goto
<1> QED BY <1>3, <1>4, <1>5, <1>6, <1>7, <1>8, <1>9, <1>10, <1>11, <1>12, <1>13, <1>14
    DEF Next, Producer, Write

-----------------------------------------------------------------------------
(* The verdict comes last.                                                 *)

Judged == \E i \in 1..Len(sent) : Verdict(i)

\* Once there is a verdict the producer has only the end mark to put, and no worker
\* is left that could put a frame.
VerdictEnds == Judged => prod \in {"end", "done"} /\ AtRest

VerdictInv == SchedFacts /\ PlacesFit /\ FramesFit /\ VerdictEnds /\ NothingAfterVerdict

LEMMA AddedFrame ==
  ASSUME FramesFit, NothingAfterVerdict, NEW e, NEW s, Adds(e, s),
         Judged => e = "stream.end"
  PROVE  NothingAfterVerdict' /\ (Judged' => Judged \/ e \in Verdicts)
<1>1. /\ Len(sent) \in Nat /\ Len(sent') = Len(sent) + 1
      /\ \A i \in 1..Len(sent) : sent'[i] = sent[i]
      /\ sent'[Len(sent')].event = e
  <2>1. sent'[Len(sent')] = Frame(e, s)
    BY AppendedFrame
  <2>2. Frame(e, s).event = e
    BY DEF Frame
  <2>3. /\ Len(sent) \in Nat /\ Len(sent') = Len(sent) + 1
        /\ \A i \in 1..Len(sent) : sent'[i] = sent[i]
    BY AppendedFrame
  <2> QED BY <2>1, <2>2, <2>3
<1>2. ASSUME NEW i \in 1..Len(sent'), Verdict(i)'
      PROVE  (i \in 1..Len(sent) /\ Verdict(i)) \/ (i = Len(sent') /\ e \in Verdicts)
  BY <1>1, <1>2 DEF Verdict, Verdicts
<1>3. NothingAfterVerdict'
  <2> SUFFICES ASSUME NEW i \in 1..Len(sent'), NEW j \in 1..Len(sent'), Verdict(i)', i < j
               PROVE  sent'[j].event = "stream.end"
    BY DEF NothingAfterVerdict
  <2>1. i \in 1..Len(sent) /\ Verdict(i)
    BY <1>1, <1>2
  <2>2. CASE j \in 1..Len(sent)
    BY <1>1, <2>1, <2>2 DEF NothingAfterVerdict
  <2>3. CASE j = Len(sent')
    BY <1>1, <2>1, <2>3 DEF Judged
  <2> QED BY <1>1, <2>2, <2>3
<1> QED BY <1>2, <1>3 DEF Judged

LEMMA NextVerdict == VerdictInv /\ [Next]_vars => VerdictEnds' /\ NothingAfterVerdict'
<1> SUFFICES ASSUME VerdictInv, [Next]_vars PROVE VerdictEnds' /\ NothingAfterVerdict'
  OBVIOUS
<1> USE DEF VerdictInv
<1>1. ASSUME sent' = sent, AtRest => AtRest',
             prod \in {"end", "done"} => prod' \in {"end", "done"}
      PROVE  VerdictEnds' /\ NothingAfterVerdict'
  BY <1>1 DEF VerdictEnds, NothingAfterVerdict, Judged, Verdict
<1>2. ASSUME NEW e, NEW s, Adds(e, s), ~Judged, e \notin Verdicts
      PROVE  VerdictEnds' /\ NothingAfterVerdict'
  BY <1>2, AddedFrame DEF VerdictEnds
<1>3. UNCHANGED schedVars => (AtRest => AtRest')
  BY DEF schedVars, AtRest
<1>4. ASSUME NEW w \in Workers, Worker(w) PROVE VerdictEnds' /\ NothingAfterVerdict'
  <2>1. Putting(w) /\ (AtRest => AtRest' /\ sent' = sent) /\ prod' = prod
    BY <1>4, WorkerStep DEF Worker
  <2>2. CASE sent' = sent
    BY <1>1, <2>1, <2>2 DEF Worker
  <2>3. CASE sent' # sent
    <3>1. ~Judged
      BY <2>1, <2>3 DEF VerdictEnds
    <3>2. PICK e \in OfWorkers, s \in Stages \cup {None} : Adds(e, s)
      BY <2>1, <2>3 DEF Putting, OfWorkers, Adds
    <3> QED BY <1>2, <3>1, <3>2 DEF OfWorkers, Verdicts
  <2> QED BY <2>2, <2>3
<1>5. CASE Open \/ OpenRejected
  <2>1. ~Judged'
    BY <1>5, Opening DEF Judged, Verdict
  <2> QED BY <2>1 DEF VerdictEnds, NothingAfterVerdict, Judged, Verdict
<1>6. CASE PutNext
  <2>1. Adds(EventOf(prod), None) /\ prod' = AfterPut(prod) /\ UNCHANGED schedVars
    BY <1>6, PutNextAdds DEF PutNext
  <2>2. CASE prod \in {"validated", "written"}
    <3>1. EventOf(prod) \in {"artifact.validated", "artifact.written"}
      BY <2>2 DEF EventOf
    <3> QED BY <1>2, <2>1, <2>2, <3>1 DEF VerdictEnds, Verdicts
  <2>3. CASE prod \in {"result", "error"}
    <3>1. ~Judged /\ prod' = "end"
      BY <2>1, <2>3 DEF VerdictEnds, AfterPut
    <3>2. main \in {"completed", "failed", "rejected"}
      BY <2>3 DEF PlacesFit, Beyond
    <3>3. AtRest
      BY <3>2, SchedTypes DEF PlacesFit
    <3> QED BY <1>3, <2>1, <3>1, <3>3, AddedFrame DEF VerdictEnds
  <2>4. CASE prod = "end"
    <3>1. EventOf(prod) = "stream.end" /\ prod' = "done"
      BY <2>1, <2>4 DEF EventOf, AfterPut
    <3>2. NothingAfterVerdict' /\ (Judged' => Judged)
      BY <2>1, <3>1, AddedFrame DEF Verdicts
    <3> QED BY <1>3, <2>1, <3>1, <3>2 DEF VerdictEnds
  <2> QED BY <2>2, <2>3, <2>4, PutNextAdds, <1>6
<1>7. CASE Completed \/ Repair
  <2>1. ~Judged
    BY <1>7 DEF Completed, Repair, VerdictEnds
  <2>2. UNCHANGED sent \/ Adds("dag.completed", None) \/ Adds("token", None)
    BY <1>7 DEF Completed, Repair, Adds, Put, Events, OfWorkers
  <2>3. CASE UNCHANGED sent
    BY <2>1, <2>3 DEF VerdictEnds, NothingAfterVerdict, Judged, Verdict
  <2> QED BY <1>2, <2>1, <2>2, <2>3 DEF Verdicts
<1>8. ASSUME NEW scope \in BOOLEAN, Leave(scope) PROVE VerdictEnds' /\ NothingAfterVerdict'
  BY <1>1, <1>8, Leaving DEF AtRest
<1>9. CASE BadSource \/ Join \/ Failed \/ Validate \/ Refresh \/ Write
  <2>1. sent' = sent /\ prod \notin {"end", "done"}
    BY <1>9 DEF BadSource, Join, Failed, Validate, Refresh, Write, CheckTarget, Replace
  <2> QED BY <2>1 DEF VerdictEnds, NothingAfterVerdict, Judged, Verdict
<1>10. CASE SaveByHand \/ Assemble \/ Receive \/ CancelAgain \/ UNCHANGED vars
  <2>1. sent' = sent /\ UNCHANGED schedVars
        /\ (prod \in {"end", "done"} => prod' \in {"end", "done"})
    BY <1>10 DEF SaveByHand, Assemble, Receive, CancelAgain, Goto, vars, queues
  <2> QED BY <1>1, <1>3, <2>1
<1> QED BY <1>4, <1>5, <1>6, <1>7, <1>8, <1>9, <1>10 DEF Next, Producer

LEMMA Initially ==
  Init => /\ SchedFacts /\ PlacesFit /\ FramesFit /\ sent = <<>>
          /\ VerdictEnds /\ NothingAfterVerdict
<1> SUFFICES ASSUME Init
             PROVE  /\ SchedFacts /\ PlacesFit /\ FramesFit /\ sent = <<>>
                    /\ VerdictEnds /\ NothingAfterVerdict
  OBVIOUS
<1>1. FP!Init
  BY SameInit
<1>2. FP!IInv
  BY <1>1, FP!InitIInv, SchedulerAssumed, NoneAssumed
<1>3. SchedFacts
  BY <1>1, <1>2 DEF SchedFacts, FP!Init, FP!Lifetimes, FP!StatusFits, FP!OutcomeAccurate
<1>4. PlacesFit
  BY <1>1 DEF Init, PlacesFit, Places, Beyond, FP!Init
<1>5. FramesFit /\ sent = <<>>
  BY DEF Init, FramesFit
<1>6. ~Judged /\ Len(sent) = 0
  BY <1>5 DEF Judged
<1> QED BY <1>3, <1>4, <1>5, <1>6 DEF VerdictEnds, NothingAfterVerdict

LEMMA StreamInvariant == Spec => []VerdictInv
<1>1. Init => VerdictInv
  BY Initially DEF VerdictInv
<1>2. VerdictInv /\ [Next]_vars => VerdictInv'
  BY NextSched, NextFrames, NextPlaces, NextVerdict DEF VerdictInv
<1> QED BY <1>1, <1>2, PTL DEF Spec

\* One verdict, with nothing but the end mark behind it, however the workers that are
\* suspended on the full queue wake up (engine.py 101-162).
THEOREM VerdictComesLast == Spec => []NothingAfterVerdict
<1>1. VerdictInv => NothingAfterVerdict
  BY DEF VerdictInv
<1> QED BY <1>1, StreamInvariant, PTL

-----------------------------------------------------------------------------
(* The artifact.                                                           *)

\* The graph is asked to read a file that is there, and the announcement follows it.
ArtifactFits ==
    /\ prod = "refresh" => file # "nobody"
    /\ prod = "written" => indexed # "nobody"
    /\ WrittenIsIndexed

\* Between the check and the replacement only somebody else can save.
CheckedTarget == prod = "replace" /\ file = "another" => raced

\* A frame that is not the announcement leaves it as it was announced.
LEMMA NotAnnounced ==
  ASSUME FramesFit, WrittenIsIndexed, NEW e, NEW s, Adds(e, s), e # "artifact.written",
         indexed' = indexed
  PROVE  WrittenIsIndexed'
<1>1. sent'[Len(sent')] # Frame("artifact.written", None)
  <2>1. sent'[Len(sent')] = Frame(e, s)
    BY AppendedFrame
  <2>2. Frame(e, s).event # Frame("artifact.written", None).event
    BY DEF Frame
  <2> QED BY <2>1, <2>2
<1>2. \A i \in 1..Len(sent') : i \in 1..Len(sent) \/ i = Len(sent')
  BY AppendedFrame
<1>3. Has("artifact.written", None)' => Has("artifact.written", None)
  BY <1>1, <1>2, AppendedFrame DEF Has, Frame
<1> QED BY <1>3 DEF WrittenIsIndexed

LEMMA NextArtifact ==
  VerdictInv /\ ArtifactFits /\ CheckedTarget /\ [Next]_vars => ArtifactFits' /\ CheckedTarget'
<1> SUFFICES ASSUME VerdictInv, ArtifactFits, CheckedTarget, [Next]_vars
             PROVE  ArtifactFits' /\ CheckedTarget'
  OBVIOUS
<1>0. SchedFacts /\ PlacesFit /\ FramesFit /\ WrittenIsIndexed
  BY DEF VerdictInv, ArtifactFits
<1>1. ASSUME sent' = sent, indexed = "nobody" \/ indexed' # "nobody" PROVE WrittenIsIndexed'
  BY <1>0, <1>1 DEF WrittenIsIndexed, Has, Frame
<1>2. ASSUME prod' = prod, UNCHANGED artifact,
             sent' = sent \/ \E e \in Events \ {"artifact.written"} : \E s : Adds(e, s)
      PROVE  ArtifactFits' /\ CheckedTarget'
  <2>1. WrittenIsIndexed'
    BY <1>0, <1>1, <1>2, NotAnnounced DEF artifact
  <2> QED BY <1>2, <2>1 DEF ArtifactFits, CheckedTarget, artifact
<1>3. ASSUME UNCHANGED artifact, prod' \notin {"refresh", "written", "replace"},
             sent' = sent \/ \E e \in Events \ {"artifact.written"} : \E s : Adds(e, s)
      PROVE  ArtifactFits' /\ CheckedTarget'
  <2>1. WrittenIsIndexed'
    BY <1>0, <1>1, <1>3, NotAnnounced DEF artifact
  <2> QED BY <1>3, <2>1 DEF ArtifactFits, CheckedTarget
<1>4. ASSUME NEW w \in Workers, Worker(w) PROVE ArtifactFits' /\ CheckedTarget'
  <2>1. Putting(w) /\ prod' = prod /\ UNCHANGED artifact
    BY <1>0, <1>4, WorkerStep DEF Worker
  <2>2. sent' = sent \/ \E e \in Events \ {"artifact.written"} : \E s : Adds(e, s)
    BY <2>1 DEF Putting, OfWorkers, Events
  <2> QED BY <1>2, <2>1, <2>2
<1>5. CASE Open \/ OpenRejected
  <2>1. ~Has("artifact.written", None)'
    BY <1>0, <1>5, Opening DEF Has, Frame
  <2>2. prod' \in {"run", "error"}
    BY <1>5 DEF Open, OpenRejected, Goto
  <2> QED BY <2>1, <2>2 DEF ArtifactFits, CheckedTarget, WrittenIsIndexed
<1>6. CASE BadSource \/ Failed \/ Validate \/ CancelAgain
  BY <1>3, <1>6 DEF BadSource, Failed, Validate, CancelAgain, Goto, queues
<1>7. CASE Join \/ Assemble \/ Receive \/ UNCHANGED vars
  BY <1>2, <1>7 DEF Join, Assemble, Receive, vars, queues
<1>8. CASE Completed \/ Repair
  <2>1. UNCHANGED artifact /\ prod' \notin {"refresh", "written", "replace"}
    BY <1>8 DEF Completed, Repair, Goto
  <2>2. sent' = sent \/ Adds("dag.completed", None) \/ Adds("token", None)
    BY <1>8 DEF Completed, Repair, Adds, Put, Events, OfWorkers
  <2> QED BY <1>3, <2>1, <2>2 DEF Events, OfWorkers
<1>9. CASE PutNext
  <2>1. /\ Adds(EventOf(prod), None) /\ prod' = AfterPut(prod) /\ UNCHANGED artifact
        /\ prod \in {"validated", "written", "result", "error", "end"}
    BY <1>9, PutNextAdds DEF PutNext
  <2>2. prod' \notin {"refresh", "written", "replace"}
    BY <2>1 DEF AfterPut
  <2>3. CASE prod = "written"
    <3>1. indexed' # "nobody"
      BY <2>1, <2>3 DEF ArtifactFits, artifact
    <3> QED BY <2>2, <3>1 DEF ArtifactFits, CheckedTarget, WrittenIsIndexed
  <2>4. CASE prod # "written"
    <3>1. EventOf(prod) \in Events \ {"artifact.written"}
      BY <2>1, <2>4 DEF EventOf, Events, Verdicts
    <3> QED BY <1>3, <2>1, <2>2, <3>1
  <2> QED BY <2>3, <2>4
<1>10. CASE CheckTarget
  BY <1>0, <1>1, <1>10 DEF CheckTarget, Goto, ArtifactFits, CheckedTarget
<1>11. CASE Replace
  BY <1>0, <1>1, <1>11 DEF Replace, Goto, ArtifactFits, CheckedTarget
<1>12. CASE Refresh
  BY <1>0, <1>1, <1>12 DEF Refresh, Goto, ArtifactFits, CheckedTarget
<1>13. CASE SaveByHand
  BY <1>0, <1>1, <1>13 DEF SaveByHand, queues, ArtifactFits, CheckedTarget
<1>14. ASSUME NEW scope \in BOOLEAN, Leave(scope) PROVE ArtifactFits' /\ CheckedTarget'
  <2>1. prod' \in {"done", "dead", "end"} /\ sent' = sent
    BY <1>14, Leaving
  <2>2. indexed = "nobody" \/ indexed' # "nobody"
    BY <1>14, Leaving DEF ArtifactFits
  <2> QED BY <1>1, <2>1, <2>2 DEF ArtifactFits, CheckedTarget
<1> QED BY <1>4, <1>5, <1>6, <1>7, <1>8, <1>9, <1>10, <1>11, <1>12, <1>13, <1>14
    DEF Next, Producer, Write

LEMMA ArtifactInvariant == Spec => [](VerdictInv /\ ArtifactFits /\ CheckedTarget)
<1>1. Init => ArtifactFits /\ CheckedTarget
  <2> SUFFICES ASSUME Init PROVE ArtifactFits /\ CheckedTarget
    OBVIOUS
  <2>1. sent = <<>> /\ prod = "start"
    BY DEF Init
  <2>2. ~Has("artifact.written", None)
    BY <2>1 DEF Has
  <2> QED BY <2>1, <2>2 DEF ArtifactFits, CheckedTarget, WrittenIsIndexed
<1> QED BY <1>1, NextArtifact, StreamInvariant, PTL DEF Spec

\* artifact.written is sent of an artifact the graph has read (tech_solution.py
\* 218-226).
THEOREM WrittenArtifactsAreIndexed == Spec => []WrittenIsIndexed
<1>1. ArtifactFits => WrittenIsIndexed
  BY DEF ArtifactFits
<1> QED BY <1>1, ArtifactInvariant, PTL

\* A document of another author is replaced only if it was saved after the check
\* (tech_solution.py 604-627).
THEOREM OthersAreKept == Spec => OthersKept
<1>1. VerdictInv /\ ArtifactFits /\ CheckedTarget /\ [Next]_vars =>
        [file = "another" /\ file' # "another" => raced]_file
  <2> SUFFICES ASSUME CheckedTarget, [Next]_vars, file = "another", file' # "another"
               PROVE  raced
    OBVIOUS
  <2>1. CASE Producer \/ CancelAgain \/ Assemble \/ Receive \/ UNCHANGED vars
    BY <2>1 DEF Producer, Open, OpenRejected, BadSource, Join, Completed, Failed, Validate,
       Repair, Refresh, PutNext, CancelAgain, Assemble, Receive, vars, artifact
  <2>2. ASSUME NEW w \in Workers, Worker(w) PROVE FALSE
    BY <2>2 DEF Worker, artifact
  <2>3. ASSUME NEW scope \in BOOLEAN, Leave(scope) PROVE FALSE
    BY <2>3, Leaving
  <2>4. CASE Write \/ SaveByHand
    BY <2>4 DEF Write, CheckTarget, Replace, SaveByHand, CheckedTarget
  <2> QED BY <2>1, <2>2, <2>3, <2>4 DEF Next
<1> QED BY <1>1, ArtifactInvariant, PTL DEF Spec, OthersKept

-----------------------------------------------------------------------------
(* A success is complete.                                                  *)

QueuesFit ==
    /\ moved \in Nat /\ out \in Nat /\ got \in Nat
    /\ got <= out /\ out <= moved /\ moved <= Len(sent)

Ended(i) == sent[i].event = "stream.end"

\* A client that has not left gets a verdict before the end, and the end mark is
\* the last frame.
EndsFit ==
    /\ client # "left" =>
         /\ prod \in {"end", "done"} => Judged
         /\ \A i \in 1..Len(sent) : Ended(i) => i = Len(sent) /\ prod = "done"
    /\ client = "done" => got \in 1..Len(sent) /\ Ended(got)

\* There is a result only if every stage has completed.
ResultFits == (\E i \in 1..Len(sent) : sent[i].event = "result") => main = "completed"

TokensOf(s) == {i \in 1..Len(sent) : sent[i] = Frame("token", s)}

\* Every token is put, and a stage with a result has yielded all of them.
TokensFit ==
    /\ tokens \in [Stages -> Nat]
    /\ \A s \in Stages : Cardinality(TokensOf(s)) = tokens[s]
    /\ \A s \in results : tokens[s] = NumTokens

\* A command lights stages without a result, a Skill its source until the finally clause.
LitFits ==
    IF kind = "engine" THEN lit \subseteq Stages \ results
    ELSE /\ lit \subseteq {"source"}
         /\ prod \in {"start", "end", "done"} => lit = {}

LEMMA NextQueues == VerdictInv /\ QueuesFit /\ [Next]_vars => QueuesFit'
<1> SUFFICES ASSUME VerdictInv, QueuesFit, [Next]_vars PROVE QueuesFit'
  OBVIOUS
<1>0. SchedFacts /\ PlacesFit /\ FramesFit
  BY DEF VerdictInv
<1>1. ASSUME Len(sent') \in Nat, Len(sent') >= Len(sent), UNCHANGED <<moved, out, got>> PROVE QueuesFit'
  BY <1>0, <1>1 DEF QueuesFit, FramesFit
<1>2. ASSUME sent' = sent \/ \E e, s : Adds(e, s), UNCHANGED <<moved, out, got>> PROVE QueuesFit'
  <2>1. CASE sent' = sent
    BY <1>2, <2>1 DEF QueuesFit
  <2>2. ASSUME NEW e, NEW s, Adds(e, s) PROVE QueuesFit'
    <3>1. Len(sent) \in Nat /\ Len(sent') = Len(sent) + 1
      BY <1>0, <2>2, AppendedFrame
    <3> QED BY <1>1, <1>2, <3>1
  <2> QED BY <1>2, <2>1, <2>2
<1>3. ASSUME NEW w \in Workers, Worker(w) PROVE QueuesFit'
  <2>1. Putting(w) /\ UNCHANGED <<moved, out, got>>
    BY <1>0, <1>3, WorkerStep DEF Worker
  <2> QED BY <1>2, <2>1 DEF Putting
<1>4. CASE Open \/ OpenRejected
  <2>1. UNCHANGED <<moved, out, got>>
    BY <1>4 DEF Open, OpenRejected, Waiting
  <2>2. Len(sent) = 0 /\ Len(sent') \in {1, 2}
    BY <1>0, <1>4, Opening
  <2> QED BY <1>1, <2>1, <2>2
<1>5. CASE PutNext
  BY <1>2, <1>5, PutNextAdds DEF PutNext, Waiting
<1>6. CASE Completed \/ Repair
  <2>1. UNCHANGED <<moved, out, got>>
    BY <1>6 DEF Completed, Repair, Waiting
  <2>2. UNCHANGED sent \/ Adds("dag.completed", None) \/ Adds("token", None)
    BY <1>6 DEF Completed, Repair, Adds, Put, Events, OfWorkers
  <2> QED BY <1>2, <2>1, <2>2
<1>7. ASSUME NEW scope \in BOOLEAN, Leave(scope) PROVE QueuesFit'
  BY <1>2, <1>7, Leaving
<1>8. CASE BadSource \/ Join \/ Failed \/ Validate \/ Refresh \/ Write \/ SaveByHand
           \/ CancelAgain \/ UNCHANGED vars
  <2>1. UNCHANGED <<sent, moved, out, got>>
    BY <1>8 DEF BadSource, Join, Failed, Validate, Refresh, Write, CheckTarget, Replace,
       SaveByHand, CancelAgain, Waiting, vars, queues
  <2> QED BY <1>2, <2>1
<1>9. CASE Assemble
  <2>1. Len(sent) \in Nat
    BY <1>0 DEF FramesFit
  <2> QED BY <1>9, <2>1 DEF Assemble, QueuesFit
<1>10. CASE Receive
  BY <1>10 DEF Receive, QueuesFit
<1> QED BY <1>3, <1>4, <1>5, <1>6, <1>7, <1>8, <1>9, <1>10 DEF Next, Producer

LEMMA NextEnds == VerdictInv /\ QueuesFit /\ EndsFit /\ [Next]_vars => EndsFit'
<1> SUFFICES ASSUME VerdictInv, QueuesFit, EndsFit, [Next]_vars PROVE EndsFit'
  OBVIOUS
<1>0. SchedFacts /\ PlacesFit /\ FramesFit /\ VerdictEnds
  BY DEF VerdictInv
<1>1. ASSUME sent' = sent, UNCHANGED <<client, got>>,
             client = "left" \/ prod' = prod \/ (prod # "done" /\ prod' \notin {"end", "done"})
      PROVE  EndsFit'
  BY <1>1 DEF EndsFit, Ended, Judged, Verdict
<1>2. ASSUME NEW e, NEW s, Adds(e, s), UNCHANGED <<client, got>>,
             client # "left" =>
               /\ prod # "done"
               /\ prod' \in {"end", "done"} => Judged \/ e \in Verdicts
               /\ e = "stream.end" => prod' = "done"
      PROVE  EndsFit'
  <2>1. /\ Len(sent) \in Nat /\ Len(sent') = Len(sent) + 1
        /\ \A i \in 1..Len(sent) : sent'[i] = sent[i]
    BY <1>0, <1>2, AppendedFrame
  <2>2. sent'[Len(sent')].event = e
    <3>1. sent'[Len(sent')] = Frame(e, s)
      BY <1>0, <1>2, AppendedFrame
    <3> QED BY <3>1 DEF Frame
  <2>3. Judged \/ e \in Verdicts => Judged'
    BY <2>1, <2>2 DEF Judged, Verdict, Verdicts
  <2>4. \A i \in 1..Len(sent) : Ended(i)' <=> Ended(i)
    BY <2>1 DEF Ended
  <2>5. ASSUME client # "left", NEW i \in 1..Len(sent'), Ended(i)'
        PROVE  i = Len(sent') /\ prod' = "done"
    <3>1. i \notin 1..Len(sent)
      BY <1>2, <2>4, <2>5 DEF EndsFit
    <3>2. i = Len(sent')
      BY <2>1, <3>1
    <3> QED BY <1>2, <2>2, <2>5, <3>2 DEF Ended
  <2>6. client # "left" /\ prod' \in {"end", "done"} => Judged'
    BY <1>2, <2>3
  <2>7. client = "done" => got \in 1..Len(sent') /\ Ended(got)'
    BY <1>2, <2>1, <2>4 DEF EndsFit
  <2> QED BY <1>2, <2>5, <2>6, <2>7 DEF EndsFit
<1>3. ASSUME NEW w \in Workers, Worker(w) PROVE EndsFit'
  <2>1. /\ Putting(w) /\ (AtRest => sent' = sent)
        /\ UNCHANGED <<prod, client, got>>
    BY <1>0, <1>3, WorkerStep DEF Worker
  <2>2. CASE sent' = sent
    BY <1>1, <2>1, <2>2
  <2>3. CASE sent' # sent
    <3>1. ~Judged
      BY <1>0, <2>1, <2>3 DEF VerdictEnds
    <3>2. PICK e \in OfWorkers, s \in Stages \cup {None} : Adds(e, s)
      BY <2>1, <2>3 DEF Putting, OfWorkers, Adds
    <3>3. client # "left" => prod \notin {"end", "done"}
      BY <3>1 DEF EndsFit
    <3>4. e # "stream.end"
      BY <3>2 DEF OfWorkers
    <3> QED BY <1>2, <2>1, <3>2, <3>3, <3>4
  <2> QED BY <2>2, <2>3
<1>4. CASE Open \/ OpenRejected
  <2>1. /\ prod' \in {"run", "error"} /\ UNCHANGED <<client, got>>
        /\ \A i \in 1..Len(sent') : ~Ended(i)'
    BY <1>0, <1>4, Opening DEF Open, OpenRejected, Goto, Waiting, Ended
  <2>2. client # "done"
    BY <1>0, <1>4, Opening DEF EndsFit
  <2> QED BY <2>1, <2>2 DEF EndsFit
<1>5. CASE PutNext
  <2>1. /\ Adds(EventOf(prod), None) /\ prod' = AfterPut(prod) /\ UNCHANGED <<client, got>>
        /\ prod \in {"validated", "written", "result", "error", "end"}
    BY <1>5, PutNextAdds DEF PutNext, Waiting
  <2>2. CASE prod \in {"validated", "written"}
    <3>1. prod' \notin {"end", "done"} /\ EventOf(prod) # "stream.end"
      BY <2>1, <2>2 DEF AfterPut, EventOf
    <3> QED BY <1>2, <2>1, <2>2, <3>1
  <2>3. CASE prod \in {"result", "error"}
    <3>1. EventOf(prod) \in Verdicts /\ EventOf(prod) # "stream.end"
      BY <2>3 DEF EventOf, Verdicts
    <3> QED BY <1>2, <2>1, <2>3, <3>1
  <2>4. CASE prod = "end"
    <3>1. prod' = "done"
      BY <2>1, <2>4 DEF AfterPut
    <3>2. client # "left" => Judged
      BY <2>4 DEF EndsFit
    <3> QED BY <1>2, <2>1, <2>4, <3>1, <3>2
  <2> QED BY <2>1, <2>2, <2>3, <2>4
<1>6. CASE Completed \/ Repair
  <2>1. /\ prod \in {"run", "repair"} /\ prod' \notin {"end", "done"}
        /\ UNCHANGED <<client, got>>
    BY <1>6 DEF Completed, Repair, Goto, Waiting
  <2>2. UNCHANGED sent \/ Adds("dag.completed", None) \/ Adds("token", None)
    BY <1>6 DEF Completed, Repair, Adds, Put, Events, OfWorkers
  <2> QED BY <1>1, <1>2, <2>1, <2>2
<1>7. ASSUME NEW scope \in BOOLEAN, Leave(scope) PROVE EndsFit'
  BY <1>7, Leaving DEF EndsFit
<1>8. CASE BadSource \/ Join \/ Failed \/ Validate \/ Refresh \/ Write
  <2>1. /\ UNCHANGED <<sent, client, got>>
        /\ prod # "done" /\ prod' \notin {"end", "done"}
    BY <1>0, <1>8 DEF BadSource, Join, Failed, Validate, Refresh, Write, CheckTarget, Replace,
       Goto, Waiting
  <2> QED BY <1>1, <2>1
<1>9. CASE SaveByHand \/ Assemble \/ CancelAgain \/ UNCHANGED vars
  <2>1. UNCHANGED <<sent, client, got>> /\ (client = "left" \/ prod' = prod)
    BY <1>9 DEF SaveByHand, Assemble, CancelAgain, vars, queues
  <2> QED BY <1>1, <2>1
<1>10. CASE Receive
  <2>1. got + 1 \in 1..Len(sent)
    BY <1>0, <1>10 DEF Receive, QueuesFit, FramesFit
  <2> QED BY <1>10, <2>1 DEF Receive, EndsFit, Ended, Judged, Verdict
<1> QED BY <1>3, <1>4, <1>5, <1>6, <1>7, <1>8, <1>9, <1>10 DEF Next, Producer

\* A frame of another event than result does not need the stages.
LEMMA NextResult == VerdictInv /\ ResultFits /\ [Next]_vars => ResultFits'
<1> SUFFICES ASSUME VerdictInv, ResultFits, [Next]_vars PROVE ResultFits'
  OBVIOUS
<1>0. SchedFacts /\ PlacesFit /\ FramesFit
  BY DEF VerdictInv
<1>1. ASSUME sent' = sent, main = "completed" => main' = "completed" PROVE ResultFits'
  BY <1>1 DEF ResultFits
<1>2. ASSUME NEW e, NEW s, Adds(e, s), main' = main \/ main' = "completed",
             e = "result" => main' = "completed"
      PROVE  ResultFits'
  <2>1. sent'[Len(sent')].event = e
    <3>1. sent'[Len(sent')] = Frame(e, s)
      BY <1>0, <1>2, AppendedFrame
    <3> QED BY <3>1 DEF Frame
  <2>2. /\ Len(sent) \in Nat /\ Len(sent') = Len(sent) + 1
        /\ \A i \in 1..Len(sent) : sent'[i] = sent[i]
    BY <1>0, <1>2, AppendedFrame
  <2>3. ASSUME NEW i \in 1..Len(sent'), sent'[i].event = "result" PROVE main' = "completed"
    <3>1. CASE i = Len(sent')
      BY <1>2, <2>1, <2>3, <3>1
    <3>2. CASE i \in 1..Len(sent)
      BY <1>2, <2>2, <2>3, <3>2 DEF ResultFits
    <3> QED BY <2>2, <3>1, <3>2
  <2> QED BY <2>3 DEF ResultFits
<1>3. UNCHANGED schedVars => main' = main
  BY DEF schedVars
<1>4. ASSUME NEW w \in Workers, Worker(w) PROVE ResultFits'
  <2>1. Putting(w) /\ main' = main
    BY <1>0, <1>4, WorkerStep
  <2>2. sent' = sent \/ \E e \in OfWorkers : \E s : Adds(e, s)
    BY <2>1 DEF Putting, OfWorkers
  <2> QED BY <1>1, <1>2, <2>1, <2>2 DEF OfWorkers
<1>5. CASE Open \/ OpenRejected
  BY <1>0, <1>5, Opening DEF ResultFits
<1>6. CASE PutNext
  <2>1. Adds(EventOf(prod), None) /\ main' = main
    BY <1>3, <1>6, PutNextAdds DEF PutNext
  <2>2. EventOf(prod) = "result" => main = "completed"
    BY <1>0, <1>6, PutNextAdds DEF EventOf, PlacesFit, Beyond
  <2> QED BY <1>2, <2>1, <2>2
<1>7. CASE Completed \/ Repair
  <2>1. main' = main \/ main' = "completed"
    BY <1>3, <1>7 DEF Completed, Repair, Free!ReturnCompleted
  <2>2. UNCHANGED sent \/ Adds("dag.completed", None) \/ Adds("token", None)
    BY <1>7 DEF Completed, Repair, Adds, Put, Events, OfWorkers
  <2> QED BY <1>1, <1>2, <2>1, <2>2
<1>8. ASSUME NEW scope \in BOOLEAN, Leave(scope) PROVE ResultFits'
  <2>1. prod = "run" => main # "completed"
    BY <1>0 DEF PlacesFit
  <2>2. prod # "run" => main' = main
    BY <1>8, Leaving
  <2> QED BY <1>1, <1>8, <2>1, <2>2, Leaving
<1>9. CASE Join \/ Failed
  BY <1>1, <1>9 DEF Join, Failed, Free!Join, Free!RaiseFailure, Free!Joined
<1>10. CASE BadSource \/ Validate \/ Refresh \/ Write \/ SaveByHand \/ Assemble \/ Receive
            \/ CancelAgain \/ UNCHANGED vars
  <2>1. UNCHANGED <<sent, main>>
    BY <1>3, <1>10 DEF BadSource, Validate, Refresh, Write, CheckTarget, Replace, SaveByHand,
       Assemble, Receive, CancelAgain, vars, queues
  <2> QED BY <1>1, <2>1
<1> QED BY <1>4, <1>5, <1>6, <1>7, <1>8, <1>9, <1>10 DEF Next, Producer

LEMMA TokenCount ==
  ASSUME FramesFit, NEW e, NEW s, Adds(e, s), NEW t
  PROVE  /\ Cardinality(TokensOf(t)) \in Nat
         /\ Cardinality(TokensOf(t)') =
              IF e = "token" /\ s = t THEN Cardinality(TokensOf(t)) + 1
                                      ELSE Cardinality(TokensOf(t))
<1>1. /\ Len(sent) \in Nat /\ Len(sent') = Len(sent) + 1
      /\ \A i \in 1..Len(sent) : sent'[i] = sent[i]
      /\ sent'[Len(sent')] = Frame(e, s)
  BY AppendedFrame
<1>2. IsFiniteSet(TokensOf(t)) /\ Cardinality(TokensOf(t)) \in Nat
  <2>1. IsFiniteSet(1..Len(sent))
    BY <1>1, FS_Interval
  <2> QED BY <2>1, FS_Subset, FS_CardinalityType DEF TokensOf
<1>3. Frame(e, s) = Frame("token", t) <=> e = "token" /\ s = t
  BY DEF Frame
<1>4. CASE e = "token" /\ s = t
  <2>1. TokensOf(t)' = TokensOf(t) \cup {Len(sent')}
    BY <1>1, <1>3, <1>4 DEF TokensOf
  <2>2. Len(sent') \notin TokensOf(t)
    BY <1>1 DEF TokensOf
  <2> QED BY <1>2, <1>4, <2>1, <2>2, FS_AddElement
<1>5. CASE ~(e = "token" /\ s = t)
  <2>1. TokensOf(t)' = TokensOf(t)
    BY <1>1, <1>3, <1>5 DEF TokensOf
  <2> QED BY <1>2, <1>5, <2>1
<1> QED BY <1>4, <1>5

LEMMA NextTokens == VerdictInv /\ TokensFit /\ [Next]_vars => TokensFit'
<1> SUFFICES ASSUME VerdictInv, TokensFit, [Next]_vars PROVE TokensFit'
  OBVIOUS
<1>0. SchedFacts /\ PlacesFit /\ FramesFit /\ None \notin Stages
  BY StreamedWorkflows DEF VerdictInv
<1>1. ASSUME sent' = sent, tokens' = tokens PROVE \A s \in Stages : Cardinality(TokensOf(s))' = tokens'[s]
  BY <1>1 DEF TokensFit, TokensOf
<1>2. ASSUME NEW e, NEW s, Adds(e, s), e # "token" \/ s \notin Stages, tokens' = tokens
      PROVE \A t \in Stages : Cardinality(TokensOf(t))' = tokens'[t]
  BY <1>0, <1>2, TokenCount DEF TokensFit
<1>3. ASSUME UNCHANGED <<results, tokens>>,
             sent' = sent \/ \E e, s : Adds(e, s) /\ (e # "token" \/ s \notin Stages)
      PROVE TokensFit'
  BY <1>1, <1>2, <1>3 DEF TokensFit
<1>4. UNCHANGED schedVars => results' = results
  BY DEF schedVars
<1>5. ASSUME NEW w \in Workers, Worker(w) PROVE TokensFit'
  <2>1. /\ Putting(w)
        /\ results' = results \/ (Succeed(w) /\ results' = results \cup {cur[w]})
    BY <1>0, <1>5, WorkerStep
  <2>2. CASE Token(w) /\ Adds("token", cur[w])
    <3>1. cur[w] \in Stages \ results /\ results' = results
      BY <1>0, <1>4, <2>2, SchedTypes DEF Token
    <3>2. tokens' = [tokens EXCEPT ![cur[w]] = @ + 1]
      BY <2>2 DEF Token
    <3>3. tokens' \in [Stages -> Nat]
      BY <3>1, <3>2 DEF TokensFit
    <3>4. ASSUME NEW t \in Stages PROVE Cardinality(TokensOf(t))' = tokens'[t]
      BY <1>0, <2>2, <3>1, <3>2, TokenCount DEF TokensFit
    <3>5. \A s \in results' : tokens'[s] = NumTokens
      BY <1>0, <3>1, <3>2, SchedTypes DEF TokensFit
    <3> QED BY <3>3, <3>4, <3>5 DEF TokensFit
  <2>3. CASE UNCHANGED tokens
    <3>1. sent' = sent \/ \E e \in OfWorkers \ {"token"} : \E s : Adds(e, s)
      <4>1. CASE Token(w)
        <5>1. tokens[cur[w]] \in Nat
          BY <1>0, <4>1, SchedTypes DEF Token, TokensFit
        <5>2. tokens'[cur[w]] = tokens[cur[w]] + 1
          BY <1>0, <4>1, SchedTypes DEF Token, TokensFit
        <5> QED BY <2>3, <5>1, <5>2
      <4> QED BY <2>1, <4>1 DEF Putting
    <3>2. \A s \in Stages : Cardinality(TokensOf(s))' = tokens'[s]
      BY <1>1, <1>2, <2>3, <3>1
    <3>3. \A s \in results' : tokens'[s] = NumTokens
      BY <2>1, <2>3 DEF Succeed, TokensFit
    <3> QED BY <2>3, <3>2, <3>3 DEF TokensFit
  <2> QED BY <2>1, <2>2, <2>3 DEF Putting
<1>6. CASE Open \/ OpenRejected
  <2>1. UNCHANGED <<results, tokens>>
    BY <1>6 DEF Open, OpenRejected, Waiting, Free!Spawn, Free!Reject, Free!progress
  <2>2. sent = <<>>
    BY <1>0, <1>6, Opening
  <2>3. ASSUME NEW s \in Stages PROVE TokensOf(s) = {} /\ TokensOf(s)' = {}
    <3>1. ASSUME NEW i \in 1..Len(sent') PROVE sent'[i] # Frame("token", s)
      <4>1. sent'[i].event # "token"
        BY <1>0, <1>6, Opening
      <4>2. Frame("token", s).event = "token"
        BY DEF Frame
      <4> QED BY <4>1, <4>2
    <3> QED BY <2>2, <3>1 DEF TokensOf
  <2>4. \A s \in Stages : Cardinality(TokensOf(s))' = Cardinality(TokensOf(s))
    BY <2>3
  <2> QED BY <2>1, <2>4 DEF TokensFit
<1>7. CASE PutNext
  <2>1. Adds(EventOf(prod), None) /\ UNCHANGED <<results, tokens>>
    BY <1>4, <1>7, PutNextAdds DEF PutNext, Waiting
  <2> QED BY <1>0, <1>3, <2>1
<1>8. CASE Completed \/ Repair
  <2>1. UNCHANGED <<results, tokens>>
    BY <1>4, <1>8 DEF Completed, Repair, Waiting, Free!ReturnCompleted, Free!progress
  <2>2. UNCHANGED sent \/ Adds("dag.completed", None) \/ Adds("token", None)
    BY <1>8 DEF Completed, Repair, Adds, Put, Events, OfWorkers
  <2> QED BY <1>0, <1>3, <2>1, <2>2
<1>9. ASSUME NEW scope \in BOOLEAN, Leave(scope) PROVE TokensFit'
  BY <1>3, <1>9, Leaving
<1>10. CASE Join \/ Failed
  <2>1. UNCHANGED <<sent, results, tokens>>
    BY <1>10 DEF Join, Failed, Waiting, Free!Join, Free!RaiseFailure, Free!progress
  <2> QED BY <1>3, <2>1
<1>11. CASE BadSource \/ Validate \/ Refresh \/ Write \/ SaveByHand \/ Assemble \/ Receive
            \/ CancelAgain \/ UNCHANGED vars
  <2>1. UNCHANGED <<sent, results, tokens>>
    BY <1>4, <1>11 DEF BadSource, Validate, Refresh, Write, CheckTarget, Replace, SaveByHand,
       Assemble, Receive, CancelAgain, Waiting, vars, queues
  <2> QED BY <1>3, <2>1
<1> QED BY <1>5, <1>6, <1>7, <1>8, <1>9, <1>10, <1>11 DEF Next, Producer

LEMMA NextLit == VerdictInv /\ LitFits /\ [Next]_vars => LitFits'
<1> SUFFICES ASSUME VerdictInv, LitFits, [Next]_vars PROVE LitFits'
  OBVIOUS
<1>0. SchedFacts /\ PlacesFit /\ FramesFit
  BY DEF VerdictInv
<1>1. ASSUME UNCHANGED <<kind, lit, results>>,
             prod' = prod \/ prod' \notin {"start", "end", "done"}
                          \/ prod \in {"start", "end", "done"}
      PROVE  LitFits'
  BY <1>1 DEF LitFits
<1>2. ASSUME UNCHANGED <<kind, results>>,
             lit' = IF prod' = "end" THEN lit \ {"source"} ELSE lit,
             prod' = "done" => prod \in {"start", "end", "done"},
             prod' # "start"
      PROVE  LitFits'
  BY <1>2 DEF LitFits
<1>3. UNCHANGED schedVars => results' = results
  BY DEF schedVars
<1>4. ASSUME NEW w \in Workers, Worker(w) PROVE LitFits'
  <2>1. /\ results' = results \/ (Succeed(w) /\ results' = results \cup {cur[w]})
        /\ UNCHANGED <<kind, prod>>
    BY <1>0, <1>4, WorkerStep DEF Worker
  <2>2. CASE kind = "engine"
    <3>1. lit' \subseteq lit \cup ready /\ (Succeed(w) => lit' = lit \ {cur[w]})
      BY <1>4, <2>2 DEF Worker, Take, Token, Succeed, Fail, Resume, Quiet, Lights
    <3>2. lit \subseteq Stages \ results /\ ready \subseteq Stages \ results
      BY <1>0, <2>2, SchedTypes DEF LitFits
    <3> QED BY <2>1, <2>2, <3>1, <3>2 DEF LitFits
  <2>3. CASE kind # "engine"
    <3>1. lit' = lit
      BY <1>4, <2>3 DEF Worker, Take, Token, Succeed, Fail, Resume, Quiet, Lights
    <3> QED BY <2>1, <2>3, <3>1 DEF LitFits
  <2> QED BY <2>2, <2>3
<1>5. CASE Open
  BY <1>5 DEF Open, Goto, Waiting, Free!Spawn, Free!progress, LitFits
<1>6. CASE OpenRejected
  BY <1>1, <1>6 DEF OpenRejected, Goto, Waiting, Free!Reject, Free!progress
<1>7. CASE PutNext
  <2>1. /\ prod \in {"validated", "written", "result", "error", "end"}
        /\ prod' = AfterPut(prod)
    BY <1>7, PutNextAdds
  <2>2. prod' # "start" /\ (prod' = "done" => prod = "end")
    BY <2>1 DEF AfterPut
  <2> QED BY <1>2, <1>3, <1>7, <2>2 DEF PutNext, Waiting
<1>8. ASSUME NEW scope \in BOOLEAN, Leave(scope) PROVE LitFits'
  <2>1. prod' # "start" /\ (prod' = "done" => prod \in {"start", "end", "done"})
    BY <1>8, Leaving
  <2> QED BY <1>2, <1>8, <2>1, Leaving
<1>9. CASE Join \/ Completed \/ Failed
  <2>1. UNCHANGED <<kind, lit, results>>
    BY <1>9 DEF Join, Completed, Failed, Waiting, Free!Join, Free!ReturnCompleted,
       Free!RaiseFailure, Free!progress
  <2>2. prod' = prod \/ prod' \in {"result", "validate", "error"}
    BY <1>9 DEF Join, Completed, Failed, Goto
  <2> QED BY <1>1, <2>1, <2>2
<1>10. CASE BadSource \/ Validate \/ Repair \/ Refresh \/ Write
  <2>1. UNCHANGED <<kind, lit, results>> /\ prod' \notin {"start", "end", "done"}
    BY <1>3, <1>10 DEF BadSource, Validate, Repair, Refresh, Write, CheckTarget, Replace,
       Goto, Waiting
  <2> QED BY <1>1, <2>1
<1>11. CASE SaveByHand \/ Assemble \/ Receive \/ CancelAgain \/ UNCHANGED vars
  <2>1. UNCHANGED <<kind, lit, results>> /\ (prod' = prod \/ prod = "end")
    BY <1>3, <1>11 DEF SaveByHand, Assemble, Receive, CancelAgain, vars, queues
  <2> QED BY <1>1, <2>1
<1> QED BY <1>4, <1>5, <1>6, <1>7, <1>8, <1>9, <1>10, <1>11 DEF Next, Producer

\* The frames, the queues, the client, the tokens and the nodes that are lit.
CompleteInv == VerdictInv /\ QueuesFit /\ EndsFit /\ ResultFits /\ TokensFit /\ LitFits

LEMMA CompleteInvariant == Spec => []CompleteInv
<1>1. Init => QueuesFit /\ EndsFit /\ ResultFits /\ TokensFit /\ LitFits
  <2> SUFFICES ASSUME Init PROVE QueuesFit /\ EndsFit /\ ResultFits /\ TokensFit /\ LitFits
    OBVIOUS
  <2>1. /\ sent = <<>> /\ moved = 0 /\ out = 0 /\ got = 0 /\ client = "reading"
        /\ prod = "start" /\ tokens = [s \in Stages |-> 0] /\ lit = {}
    BY DEF Init
  <2>2. results = {}
    BY SameInit DEF FP!Init
  <2>3. ASSUME NEW s PROVE Cardinality(TokensOf(s)) = 0
    <3>1. TokensOf(s) = {}
      BY <2>1 DEF TokensOf
    <3> QED BY <3>1, FS_EmptySet
  <2> QED BY <2>1, <2>2, <2>3 DEF QueuesFit, EndsFit, ResultFits, TokensFit, LitFits
<1>2. CompleteInv /\ [Next]_vars =>
        QueuesFit' /\ EndsFit' /\ ResultFits' /\ TokensFit' /\ LitFits'
  BY NextQueues, NextEnds, NextResult, NextTokens, NextLit DEF CompleteInv
<1> QED BY <1>1, <1>2, StreamInvariant, PTL DEF Spec, CompleteInv

\* If the CLI exits with 0 there was a result, it has got every token of every stage,
\* and no node is left lit (cli.py 229-259, engine.py 115-157).
THEOREM SuccessesAreComplete == Spec => []SuccessIsComplete
<1>1. CompleteInv => SuccessIsComplete
  <2> SUFFICES ASSUME CompleteInv, client = "done", ExitCode = 0
               PROVE  /\ Received("result")
                      /\ \A s \in Stages :
                           Cardinality({i \in 1..got : sent[i] = Frame("token", s)}) = NumTokens
                      /\ lit = {}
    BY DEF SuccessIsComplete
  <2>1. SchedFacts /\ got \in 1..Len(sent) /\ got = Len(sent) /\ prod = "done" /\ Judged
    BY DEF CompleteInv, VerdictInv, EndsFit
  <2>2. ~Received("stream.error")
    BY DEF ExitCode, ExitOfSkill, ExitOfRun
  <2>3. Received("result")
    BY <2>1, <2>2 DEF Judged, Verdict, Received
  <2>4. main = "completed"
    BY <2>1, <2>3 DEF Received, CompleteInv, ResultFits
  <2>5. results = Stages
    BY <2>1, <2>4, SchedTypes
  <2>6. ASSUME NEW s \in Stages
        PROVE  Cardinality({i \in 1..got : sent[i] = Frame("token", s)}) = NumTokens
    BY <2>1, <2>5 DEF CompleteInv, TokensFit, TokensOf
  <2>7. lit = {}
    BY <2>1, <2>5 DEF CompleteInv, LitFits
  <2> QED BY <2>3, <2>6, <2>7
<1> QED BY <1>1, CompleteInvariant, PTL
=================================================================================
