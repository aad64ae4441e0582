# Inkdesk: models, checks and proofs

This directory models the parts of Inkdesk where the order of events decides
whether it is correct: the workflow scheduler and the streams built on it, the
approvals of tool calls, the record and the event stream of a run, the harness
audit that composes them, the development tasks, the index of the vault with its
streams, the health projection, and the routing of Skill packages.
The modules are written from the Python and TypeScript source; `PROJECT.json`
lists, for every definition, the lines it stands for.

Run a check with `tlc -workers 2 -config X.cfg M` in this directory and a proof with
`tlapm M.tla`; `PROJECT.json` names the module of every configuration.

## The system

Inkdesk is one server process (FastAPI on asyncio, with some threads), a web
client, a vault of Markdown files and a Skill SDK.

| component | source | state | operations | interacts with |
|---|---|---|---|---|
| workflow scheduler | `harness/scheduler.py` | ready queue, in-degrees, stage states, effect locks, workers | `execute` | runner and event sink of its caller |
| permission broker | `harness/permissions.py` | permission records, futures | `request`, `wait`, `decide`, `cancel_run` | tool hooks, HTTP handlers |
| run store | `harness/run_store.py` | `run.json`, `events.jsonl`, subscriber queues | `create_run`, `update_run`, `append_event`, `subscribe`, recovery | audit, SSE of runs |
| SSE of runs | `main.py` `run_events`, `web/lib/server-api.ts` | cursor of each connection, last event id of each client | connect, yield, wait, reconnect | run store |
| audit runtime | `harness/audit.py` | task, cancel event and session list of each run | `create_run`, `_execute`, `cancel`, `decide_permission`, `close` | all of the above, executor, workspaces |
| agent executor | `harness/executor.py` | client of each session | `start`, `stream`, `cancel`, probe, tool hooks | tool policy, broker, ledger |
| workspace manager | `harness/workspace.py` | worktrees and leases | `acquire`, `release`, `close`, cleanup at start | git |
| evidence | `harness/evidence.py`, `evidence_ledger.py` | the bundle of a run | collect, record, validate references | git, run store |
| tool policy, redaction | `harness/tool_policy.py`, `redaction.py` | none | classify a call, rewrite a text | executor |
| task runtime | `tasks.py` | SQLite table of tasks, event bus | create, assemble context, transition, recovery | graph snapshot |
| graph index | `graph_index.py` | snapshot and its file, debounce timer, executor, subscriber queues | refresh, schedule, publish, start, stop | vault files, streams |
| SSE of graph and knowledge | `main.py`, `web/lib/server-api.ts` | a subscriber queue per connection | first snapshot, subscribe, deliver | graph index |
| knowledge health | `knowledge_health.py` | claims, evidence, signals, reviews in SQLite | reconcile, list and get, act, review | graph index, vault files |
| engine | `engine.py` | two bounded queues, assembler, producer | stream a command | scheduler, graph index, client |
| technical solutions | `tech_solution.py` | the same two queues; a document in the vault | stream, validate, repair, write, refresh | scheduler, graph index, client |
| knowledge views | `knowledge.py` | none | derive topics and claims of a snapshot | graph index |
| Skill SDK | `inkdesk_skill_sdk/` | files of packages | discover, resolve, validate, graph, CLI | none |

What is hard in it:

- **Interleavings.** asyncio switches coroutines at every await that suspends:
  three workers, a cancel request, permission decisions and readers interleave.
  Some awaits never suspend (`append_event`: its lock body has no await), and the
  code relies on it. Tasks, the health projection and the index run in threads.
- **Cancellation.** A request sets an event, interrupts sessions and returns; the
  scheduler cancels worker tasks, whose `finally` clauses await again. A client that
  leaves a stream cancels a producer that may be suspended on a full queue.
- **Failure.** Stages, sessions, the removal of a worktree, the event sink, a scan, a
  transaction and the process itself may fail between any two steps.
- **Delivery.** Events are followed over lost connections, bounded queues
  and restarts.
- **Stale state.** Snapshots are read before a lock and used in it; files change
  between a check and a write, and while they are scanned.
- **Time.** Approvals, sessions, polling and the debounce timer race the answer.

## Modules

| module | models | composed from |
|---|---|---|
| `DagExecution` | abstract: what an execution of a workflow promises (a stage is entered after its dependencies, two stages of one write effect never overlap) | |
| `WorkflowScheduler` | `WorkflowScheduler.execute` | implements `DagExecution` |
| `MCWorkflowScheduler` | the graphs for TLC | `WorkflowScheduler` |
| `PermissionBroker` | `PermissionBroker` with the hook and the handlers that race | |
| `MCPermissionBroker` | which run each permission is of | `PermissionBroker` |
| `RunRecord` | one run as seen from outside: status, log, task, process | |
| `RunStream` | clients that follow `RunRecord` | extends `RunRecord` |
| `AuditRun` | a whole audit run | instance of `WorkflowScheduler`; implements `RunRecord` |
| `TaskRuntime` | one development task: its row, its timer, the threads and clients that change it | |
| `GraphIndex` | the index of the vault: watcher, timer, executor, refreshes, snapshot file, streams and clients | |
| `SkillStream` | one streamed command of the engine or of the tech-solution Skill: producer, two queues, assembler, client, artifact | two instances of `WorkflowScheduler` |
| `MCSkillStream` | the stages for TLC | `SkillStream` |
| `KnowledgeHealth` | the health projection, the requests that reconcile it, decisions and reviews | |
| `MCKnowledgeHealth` | the documents for TLC | `KnowledgeHealth` |
| `SkillPackages` | one package: what validators, loader and registry make of it | |
| `SkillGraph` | all packages under a root: registry, routing graph, search for cycles, exit codes | extends `SkillPackages` |
| `MCSkillGraph` | the trees of packages for TLC | `SkillGraph` |
| `*_proofs` | theorems of the module they extend; `AuditRun_proofs` also holds those of `PermissionBroker`, whose permissions the sessions of the runs wait for | |

A definition whose comment says "mutant" is a plausible bug, kept next to the
definition it deforms; nothing in a specification uses it. It is there so that
each property can be seen to fail.

### How steps correspond to code

A step is the code between two awaits that suspend. In `WorkflowScheduler`,
`pc[w]` says where worker `w` is (`top`: head of the loop; `get`: in
`wait_for(ready.get())`; `lock`: waiting in `_effect_guard`; `run`: in the runner;
`starting`, `completing`, `failing`: in `await emit(...)`), and `kill` holds
the workers whose task was cancelled and which have not resumed. The two switches
`SinkSuspends` and `SinkRaises` stand for the two event sinks of the code: the
audit's never suspends, the engine's puts into a bounded queue and does. The
queue of ready stages is a set: the order in which it hands stages out is
not fixed by anything the properties say.

In `PermissionBroker`, the bodies under the lock are single steps. What is split is
the wait: `Timer` (the timer fires) and `Expire` (the hook resumes with
`TimeoutError`) are two steps with anything in between.

In `RunRecord` the log is the sequence of event types, and a sequence number is an
index. `PartlyWritten` lists what a crash may leave when it comes inside a step.
`RunStream` adds, per client, the generator that serves it (cursor, batch, queue),
the bytes on the wire and what the client has dispatched.

In `AuditRun` every step of the scheduler is an action of `WorkflowScheduler`
joined with what the runner or the sink does in the same segment: the runner of
`w` returns (`Return`) with `Sched!Succeed(w)`, raises with `Sched!Fail(w)`, dies
with `Sched!Killed(w)`. `step[s]` says where the runner of stage `s` is suspended. Every
wait of `ClaudeExecutor` is a place of its own, since `cancel()` and the cancellation of
the worker can come in at each:

| `step[s]` | the runner waits for |
|---|---|
| `probing`, `starting` | the probe of the executor; the connection of the first client |
| `session` | the messages of the stream |
| `replacing`, `reconnecting` | in `_replace_client` (`executor.py:577-586`): the disconnection of the old client, the connection of the new one |
| `timing`, `interrupt` | the interrupt with which `adapter.cancel` begins (`executor.py:564`): after the session's timeout, after a CancelledError |
| `closing`, `failing`, `leaving` | the disconnection (`executor.py:594`) with a result, with an error, after a CancelledError |

`session[s]` is the number of the client, whether that client is connected and not given
up, and the flag `closed`, which `_disconnect` sets before it waits. A client is given up
when its connection or its disconnection fails or is aborted: nothing in the code names it
any more or looks at it again, though its process may still be there. `givenUp` is the
history of that and is read by no guard. A cancel request goes through the live list by
index, as the `for` loop over it does, and waits twice for each session, in the phases
`interrupting` and `closing`; a session whose flag is set is passed at once.

In `TaskRuntime` the row is [status, context, pack, version]. A handler runs in a
thread and holds the lock from its first read to its last write, so `lock` says who
is inside, and a handler is as many steps as there are commits that a reader or a
crash can come between: `Assemble` commits "searching" and goes to the graph,
`Assembled` writes what came of it; `CheckTransition` reads and compares,
`Transition` updates. Readers take no lock. A crash kills every thread and the
timer, and `Restart` is the recovery of `_initialize`. `seen[c]` is the task as
client `c` last read it, whose version it sends.

In `GraphIndex` a snapshot is the version of every file it was made from. A refresh
is `Enter` (the lock), one `ReadFile` for each file, `Save` (the file
`snapshot.json`), `Install` (the rest); an exception is `Fail`. The three ways to one
are the debounce timer (`Notice`, `Fire`, then the executor with its one thread), a
request, and the start of the service. `bus` holds the callbacks handed to the event
loop, and `conn[c]` is `gap` between the first snapshot of a stream and its
subscription. `missed[c]` records that an update got lost in that gap or was pushed
out of the queue: it is what `QuietMeansCurrent` makes an exception of, and no action
reads it.

In `SkillStream` the workers are those of `WorkflowScheduler` under a sink that
suspends exactly when the producer's queue is full: a step with an event is one of
the instance `Free` if there is room and of `Held` if there is none. `sent`, `moved`,
`out` and `got` count the frames through both queues, which are first in, first out.
`prod` is the place of `_produce`. The client may leave while the response waits for
a frame, inside the cancel scope of the response, which cancels again at every await
(`recancel`), or while it sends one; then the generator is closed once, by the task
that collects it. `file`, `indexed` and `raced` are the artifact of a technical solution:
who wrote it, what the index knows of it, and whether somebody saved it between the
check of `_write_artifact` and its replacement.

In `KnowledgeHealth` every request is a list of selects, each of them after a
reconciliation: `TakeSnapshot` (before the lock), `Lock`, one `ReadDocument` for each
topic, `Commit` or `Rollback`, `Select` or `Act`. Other requests come between any of
them. What a document declares is data of the instance; the rules from there to
stored evidence and signals are `Stored` and `Signals`. An instance may give any documents
in which a claim belongs to one topic: its id is that of its topic and its text
(`knowledge_health.py:225`). `decisions[s]` is the sequence of the decisions stored about
signal `s`, which the program does not keep; it and `there`, `elders`, `late`, `unread` and `missed`
are what `NoDecisionLost` and `FoundUnlessLateOrUnread` need and are read by no guard.
A file in `Unreadable` may fail to be read at any time (`OSError`, `UnicodeDecodeError`):
`_document` then takes it for empty, and a scan of the index passes over it. Reviews and the
decisions about them are modelled (`CreateReview`, `DecideReview`), for they are requests that
compete for the lock; no property is stated about them.

`SkillPackages` holds the rules of three readers of a package, which are three pieces of
code that have to agree: the validators, the loader and the registry. A package is the
record of the facts that these rules tell apart. `SkillGraph` builds the graph as
`build_graph` does: the last entry with an id gives its node, in the place of the first.
It runs the depth-first search one call or return at a time, with its stack. The cycles that
the search should find are functions on `1..k`, not the result of a second search.

## Runs

| run | question | instance | result |
|---|---|---|---|
| `scheduler` | is any stage stranded, is the execution the abstract one, does the log tell all, does everything come to an end? | all graphs on 3 stages, 2 workers, every stage may fail, cancel and abort at any time | holds |
| `sched_sinks` | what does a returned `execute` say of stages and workers, when the sink suspends and raises? | 2 graphs, 2 workers | holds |
| `permissions` | does an unapproved command run, are verdicts recorded, does every request end? | 3 permissions of 2 runs | holds |
| `stream` | does a client miss, repeat or reorder an event, what do crashes leave, is everything delivered in the end? | 1 client, queue of 2, 2 crashes, 1 lost connection, a torn line | holds |
| `audit_sessions` | do clients, worktrees, stage states and status stay in step? | 2 specialists on 2 workers, any failure, cancel, crash; removing a worktree may raise | holds |
| `audit_report` | do report, status and worktree agree on the commit; is it a `RunRecord`; does every run end? | 1 specialist, 2 workers, HEAD moves once; a disconnection may fail | holds |
| `tasks` | is a search ever abandoned, a task moved unseen or started without a context? | 2 clients, 1 request, the timer, 2 crashes | holds |
| `graph` | is an edit forgotten, do index or client go back, does the index follow the files? | 2 files, each edited once, a request and the executor, 1 client, queue of 1, one of: failed scan, crash, hang-up | holds |
| `skill_stream` | does the verdict come last and tell the truth, is a foreign document kept, does every request end? | 2 stages on 2 workers, queues of 2, a client that leaves, failures of a stage, a write, a refresh | holds |
| `health` | is a decision lost, a gap not signalled, a claim not found that is there? | 2 threads, 2 topics and a source, 1 edit, 3 requests; one topic may fail to be read | holds |
| `sdk` | is a cycle found if and only if there is one, is what the commands let pass a sound routing? | a router and one package with any combination of facts; all graphs over a router and 3 packages, with their targets in two orders | holds |
| `sdk_cycles` | are the cycles reported those of the graph? | same | violated, see findings |

### Bounds

- *Three stages, two workers.* Every way in which two workers meet in the
  counters needs a stage with two dependencies, or two stages that depend on one;
  both exist among the graphs on three stages. The proofs have no bound on either.
- *Three permissions, two runs.* Permissions interact only through a
  cancellation of their run: two of one run and one of another are all the cases.
- *One client of a run.* Clients share nothing but the log. The proofs have any number.
  A queue of one or two overflows at once where the code's 256 would
  take long; every overflow is alike.
- *Two specialists, two workers.* With two sessions the list that `cancel` goes
  through can shrink before, at and after its index, and both workers can be busy.
  The three of the code add no other kind of interleaving; they are out of TLC's
  reach in this model. `ReleaseFails` (removing a worktree may raise) is on in
  `audit_sessions` and off in `audit_report`, `DisconnectFails` (disconnecting may
  fail though nobody aborts it) the other way round: a client that is given up because a
  worker is cancelled or a session times out is in both. The proofs have either value of each.
- *Two clients, one request, the timer.* Two clients compete for a version, and two
  assemblers for the lock. `MaxVersion` of 7 (the timer may add 2) lets a task be
  assembled, started and assembled again. The proofs have no bound on any of them.
- *Two files.* One is edited after it was read and before the other is: a scan that
  mixes versions exists. A third scan at the same time would wait at the same lock.
- *Two stages, queues of two.* Both workers and the producer can be suspended on the
  full queue together, which is where frames could come in a wrong order; the code's
  256 only puts that off.
- *Two threads, one edit, three requests.* A snapshot taken before an edit and written
  after a request that saw it needs two requests; the third is the one that reads what is
  left. `MaxVersion` caps the decisions about one signal. One topic may fail to be read, the
  other not: a claim that goes because its own document was not read, and one that stays. The
  documents of the instance raise the signal of a claim without evidence, none of the flags
  of a document; the proofs have any.
- *Four packages.* A cycle through a node that was visited and left needs three nodes
  and a second way into them. Facts of one package that its neighbours do not see vary one
  package at a time (`MCSkillGraph`).
- `MaxBurst`, `MaxEvents`, `MaxLate`, `MaxCrashes`, `MaxDrops`, `MaxHead`, `MaxEdits`,
  `MaxNodeEvents`, `MaxFaults` and `NumTokens` cap
  counters that are unbounded in the program. `MaxBurst` is also an argument of the
  refinement `ImplementsRun`: the most events one step of the audit appends is 4.
- Deadlock is checked for `tasks` and `graph` only: runs, executions, connections and
  searches end.

### Fairness

Runs of safety properties need none. Liveness assumes, per coroutine, weak fairness: the
event loop resumes what is not suspended; a timer fires; a session ends because
its stream runs under `asyncio.timeout` and each connection, interrupt and disconnection
under `wait_for` (`executor.py:362`, `469`, `564`, `594`). A worker polls the ready queue with a timeout of
50 ms, so getting a stage is enabled again and again but not continuously; taking one has
strong fairness, since `get()` on a queue that has an item returns at once.
Nothing makes a person decide, a commit happen, a request arrive or a process
crash. `stream` gives the heartbeat of 15 s no fairness, so delivery is shown
to come from the wake-ups alone. A client reconnects and reads (an `EventSource`
does).

In `tasks` threads run to their end and the timer gets the lock; the other changes
are finitely many there, so weak fairness is enough. With requests that never
cease it would take a fair lock, which `RLock` is not.

In `graph` the watcher, the timer and a refresh inside the lock have weak fairness, the
executor's way into the lock strong fairness: requests may hold it again and again, and
the code has nothing better than the lock of `threading`. Edits are bounded: in a vault that
changes every 80 ms each event of the watcher would put the debounced refresh off again,
for ever, and `IndexFollows` would not hold.

In `skill_stream` the coroutines of one stream that are not waiting for a place in the
ready queue progress together (weak fairness of `Progress`: while one of them can step,
some one does, and each has finitely many steps); workers that poll have weak fairness for
the poll and strong fairness for `Take`, as in `scheduler`. A client that stays reads; one
that leaves need not.

## Proofs

| module | theorems | from |
|---|---|---|
| `WorkflowScheduler_proofs` | types, exact in-degrees, topological completion order, nothing stranded, a returned `execute` is quiet, the outcome is accurate, the log tells all, refinement of `DagExecution` | any finite set of stages, any graphs and effects, any number of workers, both sinks |
| `RunStream_proofs` | of `RunRecord`: a queued or running run has a task, `stream.end` is final, history only grows; of `RunStream`: it implements `RunRecord`, types, gapless delivery, a closed client has everything, no lost wake-up | any burst, both kinds of cleanup; any clients and queue capacity, any bounds |
| `TaskRuntime_proofs` | types, no search is abandoned, pack and status agree, a task starts only with its context, who moves a task has seen it | any requests, clients and bounds |
| `GraphIndex_proofs` | types, no edit is forgotten, neither the index nor a client of the graph stream goes back, a client that was sent everything is current | any files, clients and requests, any queue capacity, edits and faults |
| `AuditRun_proofs` | the stages of a run behave as `WorkflowScheduler`; a client somebody answers for has its worktree, runs end clean but for what is named below, stages are told truly, cancellations are honoured, report and status agree; refinement of `RunRecord` | any specialists, workers, commits, late events and faults |
| the same, of `PermissionBroker` | types, only approved commands run, record and future agree, verdicts are recorded, approvals are one-shot | any sets of permissions and runs |
| `KnowledgeHealth_proofs` | types, no decision is lost, every gap is signalled, a claim that stays is found unless an older snapshot came in between or its document could not be read | any files, documents, threads, requests and edits |
| `SkillStream_proofs` | the workers keep the invariants of `WorkflowScheduler_proofs`; the verdict comes last, a success is complete, an announced artifact is indexed, documents of others are kept | any stages, graphs, workers and failures, any number of tokens and places in the queues |
| `SkillGraph_proofs` | types, the search reports a cycle exactly where there is one and each report lies in one, what the commands let pass is a sound routing of the contracts that the registry resolves, a package with a manifest that passes has one id as directory, in the manifest and, unless that is empty, as its name | any packages on disk, in any directories, with any contracts; ids and targets are numbers |

*Scheduler.* `IInv` adds to the types how the places of the workers relate to the
shared state: a worker that carries a stage carries one that is running and that
no other carries, the in-degree of a stage is the number of its dependencies without a
result, a lock is held by a worker in a runner whose stage has that effect. The
hard case is a worker that records a result: the in-degrees of the dependents
drop by one while the set of missing dependencies loses one element, and the
dependents at one become ready. `Lifetimes` says which places of workers go with which
place of the main coroutine. That nothing is stranded needs acyclicity: the
stages that are neither ready, carried nor done would form a set in which every stage
has a dependency of the set.

What a returned `execute` says of the stages rests on `StatusFits`: the status of each
stage is fixed by whether it has a result, is ready, is carried by a worker, has failed or
waits, so that after the join, when no worker carries anything, what is neither done nor
settled cannot be. The log needs less: an event of a stage is appended in the step that
changes the stage, when the sink takes it at once.

*Permissions.* `BrokerInv` says when the future is open, when a hook has an answer, and
that a verdict was accepted exactly when the record says so; `expiring` hooks may
have any record, which is why `Expire` must look again.

*Run record.* The status of a run whose task exists is that of the task's phase,
and `stream.end` occurs only after the last status was written and is followed by late
events only.

*Stream.* The invariant says that wire and received events continue each other
without a gap up to the cursor, that a batch ends inside the log, and
that a waiting reader whose queue is empty has read up to the end. A step of the log
grows every subscribed queue.

*Tasks.* The version a client holds is never ahead of the row's; when it is the
row's, so is the status it has seen, and the context unless a restart, which does not
change the version, has failed it. What the holder of the lock has compared stays true
until it writes, because every other writer needs the lock and a crash takes it away.

*Graph index.* `Ordered` puts the versions of every file in one order: installed, saved,
read by the scan, on disk. It needs the lock, held from the first read to the
installation, and it gives that an installation or a restart never goes back. `Owed` says
that whatever a scan or the installed snapshot has missed is still with the watcher, the
timer or the executor; `ShownBehind` that a client of the graph stream is never ahead of
the index, so what it is sent next, the current snapshot, is not older.

A client's view is current because each of its places between two
snapshots (queue, wire, the callbacks handed to the event loop) still holds the one that
it lacks, or `missed` says why not.

*Audit.* Every action of `AuditRun` joins at most one action of the scheduler with
what the runner or the sink does in the same segment, so a step of the run is a step of
`WorkflowScheduler` or leaves its variables alone (`StepSched`), and `Spec` implies the
specification of the scheduler (`SchedulerOfTheRun`). The assumptions of that module are
proved of the audit's stages (`SchedulerAssumed`), so its theorems hold here and are not
proved again. On them rests `Placed`: a runner is somewhere exactly while its worker is in
`run`; who is in the list of sessions or has a worktree is in one of the
places of the runner where the code has it so, and a stage is in the list at most once,
which is what makes `list.remove` take the right entry. `Answered` says who is still to
disconnect a connected client: its runner, whose place then holds the worktree, or
`cancel()`, which has set the flag and waits (`ClosedByCancel`). When the scheduler is back
from its join no worker is in `run`, and nothing is left but that. `Leftover` and `GivenUpFits`
say why a worktree or a client that was given up is still there: its removal raised and the
stage failed; disconnecting fails, or the session timed out, or its worker was cancelled, and
a worker that carries a stage is cancelled only in a run that is cancelled or has failed
(`KilledForAReason`). `Told` relates the written states,
the code of the error, the report and the final status to the scheduler's results; its hard
cases are the ends of the run, where `OutcomeAccurate` of the scheduler gives what may be
written. `AuditIsARun` needs `Told` to know that each step appends at most `MaxBurst` events
and only while the run is not over.

*Health.* Decisions: a reconciliation adds keys to the table of signals and
changes none, and a decision is compared with the version in the same step as it is
stored. Gaps: the signals a document raises are those of all its declarations, so they
include that of the last one, which is what is stored (`StoredEntry`). Claims:
`YoungerHaveIt` says that a snapshot taken since the request began has the file of the
claim, and a document read since then and not taken for empty has the claim, because
neither has left the vault in between; a document that was taken for empty is what `missed`
notes when the reconciliation commits; `OthersAreElders` that a request is not an elder of itself. It is false when two
topics may declare one id: a claim could move from a file that was read to one that was
not. That is why the assumption on the documents is there.

*Skill stream.* A worker's step is one of the scheduler whose sink never suspends or of
the one whose sink always does. The invariants of `WorkflowScheduler_proofs` do not speak of
the sink (`SameFacts`), so its lemmas, instantiated twice, carry them through either kind of
step (`NextSched`); what they ask of the constants is `StreamedWorkflows`, which says that
the workflows are graphs on the stages. `PlacesFit` ties the place of `_produce` to that of `execute`:
past the stages `execute` has returned, so no worker is left (`Lifetimes`). Hence once there is
a verdict nothing but the end mark can be put (`VerdictEnds`). A success is complete because the
client that sees `stream.end` has taken the last frame (`EndsFit`), a result means that every
stage has one (`ResultFits`, `OutcomeAccurate`), and the token frames of a stage are counted with
its tokens (`TokensFit`); frames are only appended, so each count grows by one or not at
all (`TokenCount`). The artifact needs only its own places: `ArtifactFits` and `CheckedTarget`.

*Skill graph.* The search is proved to find a cycle exactly where there is one, for
graphs of any size. `StackIsPath` says that the stack is a path of the graph and that
what each frame has left are targets of its node; `ReportsSound` that the nodes of a
reported cycle lie in an elementary one. For the converse, `LeftAcyclic`, which holds
while nothing is reported: the nodes that were visited and left lead only to such nodes,
no non-empty set of them has every member as a target of a member, and each target of a
node on the stack was left, is still to be looked at, or is the next frame. The hard
step is the return, where a node joins those that were left: in a set with it, some
member would lead to it. One that was left cannot, as it leads only to nodes that were
left, nor can the node itself, as its targets have all been left. When the stack is
empty and no start is owed, every node is left (`Covered`), so without a report there is
no cycle. `Ranking` says that the order of the nodes, the rank of the first entry of
each id, lists every node once. `RoutingIsSound` follows an entry with its id through
`BuildGraph`, where another package may take its node (`EntriesKeepTheirNames`), and
`PassedSkills` compares the three readers of one package. `OverlookedHow` says in which
three ways a package that passes can be one the registry does not resolve.

The type invariants and some others (`IndegreeExact`, `CompletedOrderTopological`,
`FutureAgrees`, `ResolvedOnce`, `HistoryOnlyGrows`, `ClosedHasAll`, `NoLostWakeup`,
`PackAgrees`) are proved and no longer part of a run: the proofs say more than an
instance does, and TLC agreed before they were proved. What stays with TLC: all liveness
(the prover has no ENABLED), that is `Terminates`, `RequestsEnd`, `Delivered`,
`RunEnds`, `SearchEnds`, `IndexFollows` and `RequestEnds`. Every safety and action
property of the passing runs is a theorem.

## Findings

- `sdk_cycles`: `_find_cycles` does not find "all elementary cycles" (`graph.py:194`). A
  node that was visited and left is not entered again, so a cycle through it may be
  missed; and the rotation works on a list that holds its first node twice, so a cycle
  that is not met at its smallest id is reported with an edge from a node to itself that
  no contract has (`graph.py:224`). Whether there is a cycle at all is decided rightly
  (`CycleFound`).

Other disagreements between the text of the repository and its code, met while
modelling and not part of a run now:

- A decision accepted between the timer of `wait` and its resumption is recorded and
  announced as approved, and the command is denied (`permissions.py:58-67`;
  `test_harness_agent_runtime.py:68-69` has the waiter return True).
- `write-report` stores the terminal status `stale` while a stage and the end of the
  log are still to come (`audit.py:348-352`); the run inspector then says "Event log
  complete" (`run-inspector.tsx:128`).
- Worktrees are at the HEAD that `collect-evidence` read (`audit.py:277`), not at the
  Run's source HEAD (`audit.py:111`) as ADR-003 says in line 20.
- `src/README.md:29` says that the projections can be rebuilt from the files at any
  time. The tables keep signals whose cause is gone (`seen_signals`,
  `knowledge_health.py:127`, is not used), and the last claims when the vault declares
  none any more (line 174).
- A package without a manifest is not compared with the name of its directory
  (`validation.py:394`), although `skill-sdk-design.md:119` asks it of every package; it
  takes the node of the package it is named like. `RoutingSound` leaves such trees out.
- Of a package with a manifest the name may be empty: it is then neither missing nor compared
  (`validation.py:306`, `404`), although the same line 119 asks for directory, name
  and id to be consistent. `PassedIsOneSkill` says so.
- `skill-sdk-design.md:123` asks that every `nextSkills` exists and lines 173 and 177
  for one router and no cycle. A contract in a package that the registry cannot resolve is
  not in the graph: frontmatter that only the validator reads (`validation.py:630` against
  `capabilities.py:119-130`), an empty name, or values that only the loader rejects. `validate`
  and `graph` then succeed without a look at its `nextSkills`, and though it may be a
  second router. `RoutingSound` speaks of the contracts that the registry resolves, and says
  of the others (`Overlooked`) that none of those names them and which three ways there are.
- A document that is there and cannot be read is taken for empty
  (`knowledge_health.py:192-196`), so a reconciliation deletes its claims from the
  tables (lines 174-176) until the next one.

Properties that hold only with an exception the code makes, which they name:
`RequestsEnd` of a session that dies; `QuietMeansCurrent` of the gap between the first
snapshot of a stream and its subscription (`main.py:260-265`) and of a full queue;
`NoEditForgotten` and `IndexFollows` of a refresh that failed, which is not repeated;
`WorktreeOutlivesSession` and `CleanEnd` of a client that `cancel()` is just
disconnecting, for whom the runner does not wait (`executor.py:561-562`, `592-594`,
`audit.py:298`), and of one that was given up, because the connection or the disconnection
failed, or a CancelledError or the timeout of the session aborted it (`executor.py:584`,
`594`): such a client may stay for good, as the flag is set or no variable names it;
`FoundUnlessLateOrUnread` of a reconciliation with an older snapshot and of a document
that could not be read; `RoutingSound` of misnamed packages and of those the registry
overlooks, `PassedIsOneSkill` of an empty name; `OthersKept` of a document
saved between check and replacement (`tech_solution.py:604-627`); `RequestEnds` of
a source that does not resolve (`tech_solution.py:162`) and of a client that leaves
while the producer waits on a full queue (`engine.py:162`).

## What is not modelled

Within the modelled parts: the contents of events, prompts, evidence, reports and
documents; the messages, tool calls and permissions inside a session of `AuditRun`; a
second cancel request; `HarnessAuditRuntime.close`; two runs at once; the deterministic
and the fake executor (they never suspend and have no worktree); the matching of topics
with a task; what a scan makes of a file (titles, kinds, links) and `stop` of the graph
index; the stream `/api/events`, which the web client does not read; `preflight` and the
contexts of the tech-solution stages; two warnings about wording of the validators.

Left out as a whole, with the reason in `PROJECT.json`: the evidence ledger, tool
policy, redaction, the views of `knowledge.py` (pure functions of a snapshot), the copy of
the scheduler in the SDK, which the server does not use, scaffolder, `init` and harness
commands of the CLI, HTTP routing and settings, rendering in the web client, scripts,
infrastructure, data.

## Plan

In this order; each module gets its TLC runs first and its proofs after.

1. `AgentSession` (`executor.py:212-294`, `459-597`) with the tool policy and the
   evidence ledger: the hooks around a tool call, structured output and its one
   correction, the retry. Properties: no tool without policy and approval, evidence cited
   exists in the bundle.
2. The task event bus (`main.py:353-370`): a publication after the lock is released
   reads the task again.
