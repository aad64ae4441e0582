------------------------------ MODULE SkillStream ------------------------------
(***************************************************************************)
(* One request that streams its work: a command of the engine (engine.py)   *)
(* or the tech-solution Skill (tech_solution.py).  A producer runs the      *)
(* stages in the workflow scheduler and puts frames into a bounded queue,   *)
(* an assembler numbers them and puts them into a second one, and the       *)
(* response takes them from there until the end or until its client leaves. *)
(*                                                                         *)
(* The scheduler is WorkflowScheduler: its sink takes an event at once      *)
(* while there is room in the queue and suspends the worker when there is   *)
(* none, so a step is one of `Free' or of `Held'.  Because both queues are  *)
(* first in, first out, the frames put so far and how many of them each     *)
(* side has moved stand for their contents.                                 *)
(***************************************************************************)
EXTENDS Integers, FiniteSets, Sequences

CONSTANTS Stages, Workflows, MaxConcurrency, RunnersFail,
          QueueCap,  \* the size of either queue (256)
          NumTokens, \* the tokens of a stage
          None

ASSUME SkillStreamAssumption == QueueCap \in Nat \ (0..1) /\ NumTokens \in Nat

VARIABLES
    wf, main, status, indegree, ready, results, completedOrder, failure, allDone,
    cancelled, lock, pc, cur, kill, entered, log,  \* of WorkflowScheduler
    kind,    \* engine or solution
    prod,    \* where _produce is
    sent,    \* the items ever put into producer_queue; the last may be None
    moved,   \* how many of them the assembler has taken
    out,     \* how many it has put into client_queue
    got,     \* how many the response has taken
    client,  \* reading, done or left
    recancel,\* the response was left inside a cancel scope, which cancels again
    tokens,  \* the tokens each stage has yielded
    lit,     \* graph nodes shown as active: of stages, or "source"
    file,    \* who wrote the artifact on disk: nobody, inkdesk or another
    indexed, \* what the graph knows of it
    raced    \* it was saved between the check and the replacement

schedVars == <<wf, main, status, indegree, ready, results, completedOrder, failure,
               allDone, cancelled, lock, pc, cur, kill, entered, log>>
queues == <<sent, moved, out, got>>
artifact == <<file, indexed, raced>>
vars == <<schedVars, kind, prod, queues, client, recancel, tokens, lit, artifact>>

Free == INSTANCE WorkflowScheduler WITH
    SinkSuspends <- FALSE, SinkRaises <- FALSE, CanCancel <- FALSE, CanAbort <- TRUE
Held == INSTANCE WorkflowScheduler WITH
    SinkSuspends <- TRUE, SinkRaises <- FALSE, CanCancel <- FALSE, CanAbort <- TRUE

Workers == Free!Workers

\* What the commands and Skills of the code are: graphs on their stages.
ASSUME StreamedWorkflows ==
    /\ IsFiniteSet(Stages) /\ Stages # {}
    /\ MaxConcurrency \in Nat \ {0}
    /\ RunnersFail \subseteq Stages
    /\ Workflows \subseteq [deps : [Stages -> SUBSET Stages],
                            effect : [Stages -> Free!Effects]]
    /\ None \notin Nat \cup Stages

Init ==
    /\ Free!Init
    /\ kind \in {"engine", "solution"}
    /\ prod = "start"
    /\ sent = <<>> /\ moved = 0 /\ out = 0 /\ got = 0
    /\ client = "reading" /\ recancel = FALSE
    /\ tokens = [s \in Stages |-> 0]
    /\ lit = {}
    /\ file \in IF kind = "engine" THEN {"nobody"} ELSE {"nobody", "another"}
    /\ indexed = file /\ raced = FALSE

-----------------------------------------------------------------------------
Frame(e, s) == [event |-> e, stage |-> s]
Room == Len(sent) - moved < QueueCap
Put(e, s) == sent' = Append(sent, Frame(e, s))

\* Between the check of the artifact and its replacement the event loop runs nobody.
Writing == prod \in {"check target", "replace"}

Lights(S) == lit' = IF kind = "engine" THEN S ELSE lit

-----------------------------------------------------------------------------
(* The workers: on_event and runner.                                       *)

\* A step of a worker that ends with an event: queue.put suspends when it is full.
Emitting(w, e, s, free, held) ==
    \/ Room /\ free /\ Put(e, s)
    \/ ~Room /\ held /\ UNCHANGED sent

Take(w, s) ==
    /\ Emitting(w, "task.started", s, Free!Take(w, s), Held!Take(w, s))
    /\ Lights(lit \cup {s})
    /\ UNCHANGED tokens

\* _tokens, _task_tokens: the runner yields one more token.
Token(w) ==
    /\ pc[w] = "run" /\ w \notin kill /\ Room
    /\ tokens[cur[w]] < NumTokens
    /\ tokens' = [tokens EXCEPT ![cur[w]] = @ + 1]
    /\ Put("token", cur[w])
    /\ UNCHANGED <<schedVars, lit>>

\* Mutant: the last token is not awaited.
SucceedEarly(w) ==
    /\ pc[w] = "run"
    /\ Emitting(w, "task.completed", cur[w], Free!Succeed(w), Held!Succeed(w))
    /\ Lights(lit \ {cur[w]})
    /\ UNCHANGED tokens

Succeed(w) ==
    /\ pc[w] = "run" /\ tokens[cur[w]] = NumTokens
    /\ Emitting(w, "task.completed", cur[w], Free!Succeed(w), Held!Succeed(w))
    /\ Lights(lit \ {cur[w]})
    /\ UNCHANGED tokens

Fail(w) ==
    /\ pc[w] = "run"
    /\ Emitting(w, "task.failed", cur[w], Free!Fail(w), Held!Fail(w))
    /\ Lights(lit \ {cur[w]})
    /\ UNCHANGED tokens

\* There is room again for the item a worker was suspended with.
Resume(w) ==
    /\ Room
    /\ \/ Held!Deliver(w, "starting", "stage.started", "lock") /\ Put("task.started", cur[w])
       \/ Held!Deliver(w, "completing", "stage.completed", "top") /\ Put("task.completed", cur[w])
       \/ Held!Deliver(w, "failing", "stage.failed", "exit") /\ Put("task.failed", cur[w])
    /\ UNCHANGED <<tokens, lit>>

Quiet(w) ==
    /\ Free!Loop(w) \/ Free!PollTimeout(w) \/ Free!EnterRunner(w) \/ Free!Killed(w)
    /\ UNCHANGED <<sent, tokens, lit>>

Worker(w) ==
    /\ (\E s \in ready : Take(w, s)) \/ Token(w) \/ Succeed(w) \/ Fail(w) \/ Resume(w) \/ Quiet(w)
    /\ UNCHANGED <<kind, prod, moved, out, got, client, recancel, artifact>>

-----------------------------------------------------------------------------
(* _produce.                                                               *)

Goto(p) == prod' = p
Waiting == UNCHANGED <<kind, moved, out, got, client, recancel, tokens>>

\* Up to the first wait for the workers.
Open ==
    /\ prod = "start" /\ Goto("run")
    /\ Free!Spawn
    /\ sent' = IF kind = "engine" THEN <<Frame("stream.open", None), Frame("dag.started", None)>>
                                  ELSE <<Frame("stream.open", None)>>
    /\ lit' \in IF kind = "engine" THEN {{}} ELSE {{}, {"source"}}
    /\ Waiting /\ UNCHANGED artifact

\* The graph of a command is refused.
OpenRejected ==
    /\ prod = "start" /\ kind = "engine" /\ Goto("error")
    /\ Free!Reject
    /\ sent' = <<Frame("stream.open", None)>>
    /\ Waiting /\ UNCHANGED <<lit, artifact>>

\* _source_reference raises before the try block: nothing is ever put.
BadSource ==
    /\ prod = "start" /\ kind = "solution" /\ Goto("dead")
    /\ Waiting /\ UNCHANGED <<schedVars, sent, lit, artifact>>

Join ==
    /\ prod = "run" /\ Free!Join
    /\ Waiting /\ UNCHANGED <<prod, sent, lit, artifact>>

Completed ==
    /\ prod = "run" /\ Free!ReturnCompleted
    /\ \/ kind = "engine" /\ Room /\ Put("dag.completed", None) /\ Goto("result")
       \/ kind = "solution" /\ Goto("validate") /\ UNCHANGED sent
    /\ Waiting /\ UNCHANGED <<lit, artifact>>

\* Mutant: the failure is raised while the other workers go on.
FailedAtOnce ==
    /\ prod = "run" /\ failure # None /\ Goto("error")
    /\ Waiting /\ UNCHANGED <<schedVars, sent, lit, artifact>>

Failed ==
    /\ prod = "run" /\ Free!RaiseFailure /\ Goto("error")
    /\ Waiting /\ UNCHANGED <<sent, lit, artifact>>

\* validate_solution_document; a provider may repair the document once.
Validate ==
    /\ \/ prod = "validate" /\ \E p \in {"validated", "repair", "error"} : Goto(p)
       \/ prod = "revalidate" /\ \E p \in {"validated", "error"} : Goto(p)
    /\ Waiting /\ UNCHANGED <<schedVars, sent, lit, artifact>>

Repair ==
    /\ prod = "repair"
    /\ (Room /\ Put("token", None)) \/ UNCHANGED sent
    /\ \E p \in {"revalidate", "error"} : Goto(p)
    /\ Waiting /\ UNCHANGED <<schedVars, lit, artifact>>

\* Mutant: an artifact of another author is not noticed.
CheckTargetBlind ==
    /\ prod = "check target"
    /\ Goto("replace")
    /\ raced' = FALSE
    /\ Waiting /\ UNCHANGED <<schedVars, sent, lit, file, indexed>>

\* _write_artifact, until it has read what is there.
CheckTarget ==
    /\ prod = "check target"
    /\ Goto(IF file = "another" THEN "error" ELSE "replace")
    /\ raced' = FALSE
    /\ Waiting /\ UNCHANGED <<schedVars, sent, lit, file, indexed>>

\* os.replace, or an OSError.
Replace ==
    /\ prod = "replace"
    /\ \/ file' = "inkdesk" /\ Goto("refresh")
       \/ file' = file /\ Goto("error")
    /\ Waiting /\ UNCHANGED <<schedVars, sent, lit, indexed, raced>>

\* Mutant: the refresh is started and not awaited.
RefreshLater ==
    /\ prod = "refresh" /\ Goto("written")
    /\ Waiting /\ UNCHANGED <<schedVars, sent, lit, artifact>>

Refresh ==
    /\ prod = "refresh"
    /\ \/ indexed' = file /\ Goto("written")
       \/ indexed' = indexed /\ Goto("error")
    /\ Waiting /\ UNCHANGED <<schedVars, sent, lit, file, raced>>

\* Mutant: the end mark is put in the except clauses' place only.
AfterPutNoFinally(p) ==
    CASE p = "validated" -> "check target"
      [] p = "written"   -> "result"
      [] p = "result"    -> "end"
      [] p \in {"error", "end"} -> "done"

AfterPut(p) ==
    CASE p = "validated" -> "check target"
      [] p = "written"   -> "result"
      [] p \in {"result", "error"} -> "end"
      [] p = "end"       -> "done"

EventOf(p) ==
    CASE p = "validated" -> "artifact.validated"
      [] p = "written"   -> "artifact.written"
      [] p = "result"    -> "result"
      [] p = "error"     -> "stream.error"
      [] p = "end"       -> "stream.end"

\* A put of the producer itself.  The node of the source goes idle in the finally.
PutNext ==
    /\ prod \in {"validated", "written", "result", "error", "end"} /\ Room
    /\ Put(EventOf(prod), None)
    /\ Goto(AfterPut(prod))
    /\ lit' = IF prod' = "end" THEN lit \ {"source"} ELSE lit
    /\ Waiting /\ UNCHANGED <<schedVars, artifact>>

Producer ==
    \/ Open \/ OpenRejected \/ BadSource \/ Join \/ Completed \/ Failed
    \/ Validate \/ Repair \/ Refresh \/ PutNext

Write == CheckTarget \/ Replace

-----------------------------------------------------------------------------
(* The assembler and the response.                                         *)

Assemble ==
    /\ client # "left"
    /\ \/ moved = out /\ moved < Len(sent) /\ moved' = moved + 1
       \/ moved > out /\ moved' = moved
    /\ out' = IF out - got < QueueCap THEN out + 1 ELSE out
    /\ moved' # moved \/ out' # out
    /\ UNCHANGED <<schedVars, kind, prod, sent, got, client, recancel, tokens, lit, artifact>>

Receive ==
    /\ client = "reading" /\ got < out
    /\ got' = got + 1
    /\ client' = IF sent[got'].event = "stream.end" THEN "done" ELSE "reading"
    /\ UNCHANGED <<schedVars, kind, prod, sent, moved, out, recancel, tokens, lit, artifact>>

\* Where CancelledError takes the producer: to its finally clause, if it has got
\* to the try block.
Unwound ==
    CASE prod \in {"start", "end", "done"} -> "done"
      [] prod = "dead" -> "dead"
      [] OTHER -> "end"

\* Mutant: only the assembler is cancelled.
LeaveProducer(scope) ==
    /\ client = "reading" /\ client' = "left"
    /\ IF scope THEN got = out ELSE got > 0
    /\ recancel' = scope
    /\ UNCHANGED <<schedVars, kind, prod, queues, tokens, lit, artifact>>

\* The client leaves.  While the response waits for a frame it is cancelled in its
\* cancel scope (again and again until it ends); while it sends one, the generator
\* is closed later by a task of its own, once.
Leave(scope) ==
    /\ client = "reading" /\ client' = "left"
    /\ IF scope THEN got = out ELSE got > 0
    /\ recancel' = scope
    /\ IF prod = "run" THEN Free!Abort ELSE UNCHANGED schedVars
    /\ Goto(Unwound)
    /\ lit' = IF prod' = "end" THEN lit \ {"source"} ELSE lit
    /\ indexed' \in IF prod = "refresh" THEN {indexed, file} ELSE {indexed}
    /\ UNCHANGED <<kind, queues, tokens, file, raced>>

CancelAgain ==
    /\ client = "left" /\ recancel /\ prod = "end"
    /\ Goto("done")
    /\ UNCHANGED <<schedVars, kind, queues, client, recancel, tokens, lit, artifact>>

\* Somebody saves a document under the name of the artifact (nobody has looked at
\* it before the document is validated).
SaveByHand ==
    /\ prod \in {"validated", "check target", "replace", "refresh"}
    /\ file # "another" /\ file' = "another"
    /\ raced' = (prod = "replace")
    /\ UNCHANGED <<schedVars, kind, prod, queues, client, recancel, tokens, lit, indexed>>

Next ==
    \/ Write \/ SaveByHand
    \/ /\ ~Writing
       /\ \/ Producer \/ Assemble \/ Receive \/ CancelAgain
          \/ \E w \in Workers : Worker(w)
          \/ \E scope \in BOOLEAN : Leave(scope)

Spec == Init /\ [][Next]_vars

\* The event loop runs the coroutines that are not suspended, providers and threads
\* answer, and a client that stays reads.  A worker that keeps polling gets a stage.
RestOfWorker == UNCHANGED <<kind, prod, moved, out, got, client, recancel, artifact>>
Progress ==
    \/ Producer \/ Write \/ CancelAgain \/ Assemble \/ Receive
    \/ /\ \E w \in Workers :
             \/ Token(w) \/ Succeed(w) \/ Resume(w)
             \/ (Free!EnterRunner(w) \/ Free!Killed(w)) /\ UNCHANGED <<sent, tokens, lit>>
       /\ RestOfWorker

FairSpec ==
    /\ Spec
    /\ WF_vars(Progress)
    /\ \A w \in Workers :
         /\ WF_vars(Free!Loop(w) /\ UNCHANGED <<sent, tokens, lit>> /\ RestOfWorker)
         /\ SF_vars((\E s \in ready : Take(w, s)) /\ RestOfWorker)

-----------------------------------------------------------------------------
Has(e, s) == \E i \in 1..Len(sent) : sent[i] = Frame(e, s)
Verdict(i) == sent[i].event \in {"result", "stream.error"}

\* There is one verdict, result or error, and only the end mark follows it, however
\* workers that were suspended on the full queue wake up (engine.py 101-162).
NothingAfterVerdict ==
    \A i, j \in 1..Len(sent) : Verdict(i) /\ i < j => sent[j].event = "stream.end"

\* What the CLI returns for a stream that has ended: only a stream.error makes a
\* command fail, and of a Skill it wants an artifact too.
Received(e) == \E i \in 1..got : sent[i].event = e
ExitOfRun == IF Received("stream.error") THEN 1 ELSE 0
ExitOfSkill == IF Received("artifact.written") \/ Received("result") THEN ExitOfRun ELSE 1
ExitCode == IF kind = "engine" THEN ExitOfRun ELSE ExitOfSkill

\* If the CLI exits with 0 there was a result, it has got all that the stages have
\* yielded, and no node is left lit, although the last task.completed frames of the
\* workers may have been lost (cli.py 229-259, engine.py 115-157).
SuccessIsComplete ==
    client = "done" /\ ExitCode = 0 =>
        /\ Received("result")
        /\ \A s \in Stages :
              Cardinality({i \in 1..got : sent[i] = Frame("token", s)}) = NumTokens
        /\ lit = {}

\* A document of another author is replaced only if it was saved between the check
\* and the replacement (tech_solution.py 604-627).
OthersKept == [][file = "another" /\ file' # "another" => raced]_file

\* artifact.written tells of an artifact that the graph has, or of one that somebody
\* has replaced since (tech_solution.py 218-226).
WrittenIsIndexed == Has("artifact.written", None) => indexed # "nobody"

\* Every request ends: whoever keeps reading gets stream.end, and when the client has
\* left the producer ends.  There are two exceptions: a source that cannot be resolved
\* (tech_solution.py 162: nothing is ever put), and a producer that is cancelled once
\* while the queue is full, which waits for ever to put its end mark (engine.py 162).
Stuck == prod = "dead" \/ (client = "left" /\ prod = "end" /\ ~recancel /\ ~Room)
RequestEnds == <>(client = "done" \/ (client = "left" /\ prod = "done") \/ Stuck)
=============================================================================
