------------------------------- MODULE AuditRun -------------------------------
(***************************************************************************)
(* One harness-audit run (HarnessAuditRuntime in harness/audit.py): the    *)
(* task of _execute with its scheduler, the runner of every stage, the     *)
(* agent sessions and worktrees of the specialists (ClaudeExecutor and     *)
(* WorkspaceManager), a request that cancels the run, commits that move    *)
(* HEAD, and the death of the server.                                      *)
(*                                                                         *)
(* The scheduler is WorkflowScheduler itself: every step of it is one of   *)
(* its actions, joined with what the runner or the event sink does.  The   *)
(* sink of the audit never suspends.  A stage that does not suspend either *)
(* runs from ready.get() to its result without another coroutine, which    *)
(* ~Atomic in the guards of the other actions says.                        *)
(*                                                                         *)
(* The messages, tool calls and permissions inside a session are left out: *)
(* a session goes on until it completes, breaks, times out or is killed.   *)
(* Every wait of ClaudeExecutor is a place of its own, for cancel() and    *)
(* the cancellation of the worker can come in at each: the connection of a *)
(* client, the interrupt, and the disconnection, which stream(), cancel()  *)
(* and _replace_client share.                                              *)
(***************************************************************************)
EXTENDS Integers, FiniteSets, Sequences

CONSTANTS Specialists,    \* the three specialist stages
          MaxConcurrency, \* 3 in the code
          ReleaseFails,   \* TRUE: removing a worktree may raise
          DisconnectFails,\* TRUE: disconnecting a client may raise, or take its 10 s
          MaxHead,        \* bound on the commits that move HEAD
          MaxBurst,       \* bound of RunRecord, which this module implements
          None

First == {"preflight", "collect-evidence"}
Later == {"lead-reconcile", "validate-findings", "write-report", "graph-refresh"}
Stages == First \cup Specialists \cup Later
AgentStages == Specialists \cup {"lead-reconcile"}

ASSUME AuditRunAssumption ==
    /\ IsFiniteSet(Specialists) /\ Specialists # {}
    /\ Specialists \cap (First \cup Later) = {}
    /\ MaxConcurrency \in Nat \ {0} /\ MaxHead \in Nat /\ MaxBurst \in Nat \ (0..3)
    /\ ReleaseFails \in BOOLEAN /\ DisconnectFails \in BOOLEAN
    /\ None \notin Nat \cup Stages \cup [repoHead : Nat \cup {None}, stale : BOOLEAN]

VARIABLES
    wf, main, status, indegree, ready, results, completedOrder, failure, allDone,
    cancelled, lock, pc, cur, kill, entered, log,  \* of WorkflowScheduler
    task,        \* the task of _execute: created, working, gone, or lost
    up,          \* the server process exists
    runStatus,   \* run.json: status
    stageStates, \* run.json: stageStates
    events,      \* the types of the lines of events.jsonl, as in RunRecord
    head,        \* HEAD of the source repository, a number that grows
    bundleHead,  \* EvidenceBundle.repoHead, or None
    step,        \* where the runner of each stage is
    code,        \* the code of the exception that will end the run, or None
    live,        \* _sessions[run_id]: the stages with a registered session
    session,     \* _ClaudeState of each stage: the number of its client (0 before there
                 \* is one), whether that is connected and not given up, the flag closed
    givenUp,     \* history: a client was given up, for its disconnection failed or was
                 \* aborted, or its connection was; it may still be there
    worktree,    \* the HEAD each specialist's worktree is at, or None
    report,      \* report.md: the HEAD it is about and whether it is stale, or None
    cancel       \* the request in cancel(): its phase, index, session and client

schedVars == <<wf, main, status, indegree, ready, results, completedOrder, failure,
               allDone, cancelled, lock, pc, cur, kill, entered, log>>
clientVars == <<session, givenUp>>
agentVars == <<live, clientVars, worktree>>
runVars == <<task, up, runStatus>>
vars == <<schedVars, runVars, stageStates, events, head, bundleHead, step, code,
          agentVars, report, cancel>>

\* create_run has read HEAD into run.json.
SourceHead == 0

\* _workflow.
Dependencies(s) ==
    CASE s = "preflight"         -> {}
      [] s = "collect-evidence"  -> {"preflight"}
      [] s \in Specialists       -> {"collect-evidence"}
      [] s = "lead-reconcile"    -> {"collect-evidence"} \cup Specialists
      [] s = "validate-findings" -> {"collect-evidence", "lead-reconcile"}
      [] s = "write-report"      -> {"collect-evidence", "validate-findings"}
      [] s = "graph-refresh"     -> {"write-report"}

Workflow == [deps   |-> [s \in Stages |-> Dependencies(s)],
             effect |-> [s \in Stages |-> IF s \in {"write-report", "graph-refresh"}
                                          THEN "vault_write" ELSE "read_only"]]

Sched == INSTANCE WorkflowScheduler WITH
    Workflows <- {Workflow}, SinkSuspends <- FALSE, SinkRaises <- FALSE,
    RunnersFail <- Stages, CanCancel <- TRUE, CanAbort <- FALSE

Workers == Sched!Workers
Terminal == {"succeeded", "failed", "cancelled", "interrupted", "stale"}

\* create_run.
Init ==
    /\ Sched!Init
    /\ task = "created" /\ up = TRUE
    /\ runStatus = "queued"
    /\ stageStates = [s \in Stages |-> "pending"]
    /\ events = <<>>
    /\ head = SourceHead /\ bundleHead = None
    /\ step = [s \in Stages |-> "idle"]
    /\ code = None
    /\ live = <<>>
    /\ session = [s \in AgentStages |-> [client |-> 0, open |-> FALSE, closed |-> FALSE]]
    /\ givenUp = FALSE
    /\ worktree = [s \in Specialists |-> None]
    /\ report = None
    /\ cancel = [phase |-> "none", index |-> 0, at |-> None, client |-> 0]

-----------------------------------------------------------------------------
(* Helpers.                                                                *)

Burst(n) == [i \in 1..n |-> "event"]
Emitted(n) == events' = events \o Burst(n)

\* From ready.get() to the first await that suspends no other coroutine runs.
Atomic == \E w \in Workers :
    pc[w] = "lock" \/ (pc[w] = "run" /\ step[cur[w]] = "go")

Working == up /\ task = "working"
At(w, place) == Working /\ pc[w] = "run" /\ w \notin kill /\ step[cur[w]] = place
Suspended(w, place) == At(w, place) /\ ~Atomic
Dying(w, place) == Working /\ ~Atomic /\ pc[w] = "run" /\ w \in kill /\ step[cur[w]] = place

Goto(s, place) == step' = [step EXCEPT ![s] = place]

\* The finally clauses around a session: it leaves the list (remove() of a list,
\* which raises ValueError if it is not there, and that is passed over), and the
\* worktree of a specialist is removed, or (ok = FALSE) removing it raises.
Without(i) == SubSeq(live, 1, i - 1) \o SubSeq(live, i + 1, Len(live))
Unregister(s) ==
    \/ \E i \in 1..Len(live) : live[i] = s /\ live' = Without(i)
    \/ (\A i \in 1..Len(live) : live[i] # s) /\ UNCHANGED live
Removed(s, ok) ==
    worktree' = IF ok /\ s \in Specialists THEN [worktree EXCEPT ![s] = None] ELSE worktree
Removals(s) == IF ReleaseFails /\ s \in Specialists THEN BOOLEAN ELSE {TRUE}

\* The runner of w returns, or raises c, after n events of its own.  Only the
\* first failure is kept.
Return(w, n) ==
    /\ Sched!Succeed(w)
    /\ Goto(cur[w], "over")
    /\ stageStates' = [stageStates EXCEPT ![cur[w]] = "succeeded"]
    /\ Emitted(n + 1)
    /\ UNCHANGED code

Raised(w, c, n) ==
    /\ Goto(cur[w], "over")
    /\ stageStates' = [stageStates EXCEPT ![cur[w]] = "failed"]
    /\ code' = IF failure = None THEN c ELSE code
    /\ Emitted(n + 1)
Raise(w, c, n) == Sched!Fail(w) /\ Raised(w, c, n)

-----------------------------------------------------------------------------
(* The task of the run and its scheduler.                                  *)

Open ==
    /\ up /\ task = "created"
    /\ task' = "working" /\ runStatus' = "running"
    /\ events' = Append(events, "run.opened")
    /\ Sched!Spawn
    /\ UNCHANGED <<up, stageStates, head, bundleHead, step, code, agentVars, report, cancel>>

\* A worker that has no stage polls the queue, or ends.
Idle(w) ==
    /\ Working /\ ~Atomic
    /\ Sched!Loop(w) \/ Sched!PollTimeout(w) \/ (pc[w] # "run" /\ Sched!Killed(w))
    /\ UNCHANGED <<runVars, stageStates, events, head, bundleHead, step, code, agentVars,
                   report, cancel>>

Take(w, s) ==
    /\ Working /\ ~Atomic
    /\ Sched!Take(w, s)
    /\ stageStates' = [stageStates EXCEPT ![s] = "running"]
    /\ Emitted(1)
    /\ UNCHANGED <<runVars, head, bundleHead, step, code, agentVars, report, cancel>>

Enter(w) ==
    /\ Working
    /\ Sched!EnterRunner(w)
    /\ Goto(cur[w], "go")
    /\ UNCHANGED <<runVars, stageStates, events, head, bundleHead, code, agentVars,
                   report, cancel>>

Join ==
    /\ Working /\ ~Atomic
    /\ Sched!Join
    /\ UNCHANGED <<runVars, stageStates, events, head, bundleHead, step, code, agentVars,
                   report, cancel>>

\* Mutant: the finally clause comes before the status and its event.
EndStreamFirst(st) ==
    /\ task' = "gone" /\ runStatus' = st
    /\ events' = events \o <<"stream.end", "terminal">>
    /\ UNCHANGED <<up, head, bundleHead, step, code, agentVars, report, cancel>>

\* The final status, its event and stream.end.  Every worker has ended and taken
\* its session off the list, so the finally clause has none to wait for.
End(st) ==
    /\ task' = "gone" /\ runStatus' = st
    /\ events' = events \o <<"terminal", "stream.end">>
    /\ UNCHANGED <<up, head, bundleHead, step, code, agentVars, report, cancel>>

EndCompleted ==
    /\ Working /\ Sched!ReturnCompleted
    /\ stageStates' = status
    /\ End(IF runStatus = "stale" THEN "stale" ELSE "succeeded")

EndCancelled ==
    /\ Working /\ Sched!ReturnCancelled
    /\ stageStates' = status'
    /\ End("cancelled")

Settled(from, to) ==
    stageStates' = [s \in Stages |-> IF stageStates[s] \in from THEN to ELSE stageStates[s]]

\* Mutant: every stage that has not succeeded is blocked, the failed one too.
EndFailedBlocksAll ==
    /\ Working /\ Sched!RaiseFailure
    /\ Settled({"pending", "ready", "running", "failed"}, "blocked")
    /\ End(IF code = "CANCELLED" THEN "cancelled" ELSE "failed")

\* except (HarnessAuditError, ExecutorError), or except Exception, which leaves the
\* states of the stages as they are.
EndFailed ==
    /\ Working /\ Sched!RaiseFailure
    /\ \/ /\ code = "CANCELLED"
          /\ Settled({"pending", "ready"}, "cancelled")
          /\ End("cancelled")
       \/ /\ code = "FAILED"
          /\ Settled({"pending", "ready"}, "blocked")
          /\ End("failed")
       \/ /\ code = "INTERNAL"
          /\ UNCHANGED stageStates
          /\ End("failed")

-----------------------------------------------------------------------------
(* The runner: the stages without a session.                               *)

\* `if cancel_event.is_set()': every stage starts with it.
RefuseCancelled(w) ==
    /\ At(w, "go") /\ cancelled
    /\ Raise(w, "CANCELLED", 0)
    /\ UNCHANGED <<runVars, head, bundleHead, agentVars, report, cancel>>

Begin(w, s) == At(w, "go") /\ ~cancelled /\ cur[w] = s

\* A directory that is not a repository is refused; Claude is probed, which
\* suspends unless the last probe is recent.
Preflight(w) ==
    /\ Begin(w, "preflight")
    /\ \/ Raise(w, "FAILED", 0)
       \/ Return(w, 2)
       \/ /\ Goto("preflight", "probing")
          /\ Emitted(1)
          /\ UNCHANGED <<schedVars, stageStates, code>>
    /\ UNCHANGED <<runVars, head, bundleHead, agentVars, report, cancel>>

Probed(w) ==
    /\ Suspended(w, "probing")
    /\ Return(w, 1) \/ Raise(w, "FAILED", 0)
    /\ UNCHANGED <<runVars, head, bundleHead, agentVars, report, cancel>>

Collect(w) ==
    /\ Begin(w, "collect-evidence")
    /\ \/ Return(w, 1) /\ bundleHead' = head
       \/ Raise(w, "INTERNAL", 0) /\ UNCHANGED bundleHead
    /\ UNCHANGED <<runVars, head, agentVars, report, cancel>>

Validate(w) ==
    /\ Begin(w, "validate-findings")
    /\ Return(w, 2) \/ Raise(w, "FAILED", 0)
    /\ UNCHANGED <<runVars, head, bundleHead, agentVars, report, cancel>>

\* Mutant: the status does not tell that HEAD has moved.
WriteReportKeepsRunning(w) ==
    /\ Begin(w, "write-report")
    /\ report' = [repoHead |-> bundleHead, stale |-> head # bundleHead]
    /\ Return(w, 1)
    /\ UNCHANGED <<runVars, head, bundleHead, agentVars, cancel>>

\* git fails; or report.md is written and the proposal refused; or both are
\* written and the status tells whether HEAD has moved.
WriteReport(w) ==
    /\ Begin(w, "write-report")
    /\ \/ /\ Raise(w, "INTERNAL", 0)
          /\ UNCHANGED <<report, runStatus>>
       \/ /\ report' = [repoHead |-> bundleHead, stale |-> head # bundleHead]
          /\ \/ Raise(w, "FAILED", 0) /\ UNCHANGED runStatus
             \/ /\ Return(w, 1)
                /\ runStatus' = IF report'.stale THEN "stale" ELSE "running"
    /\ UNCHANGED <<task, up, head, bundleHead, agentVars, cancel>>

GraphRefresh(w) ==
    /\ Begin(w, "graph-refresh")
    /\ Return(w, 0) \/ Raise(w, "INTERNAL", 0)
    /\ UNCHANGED <<runVars, head, bundleHead, agentVars, report, cancel>>

-----------------------------------------------------------------------------
(* The runner: the stages with an agent session (_execute_agent).          *)

\* The places of a session: in its stream or interrupted, and being disconnected by
\* its own runner.
Streaming == {"session", "replacing", "reconnecting", "timing", "interrupt"}
Closing == {"closing", "failing", "leaving"}

Endings == IF DisconnectFails THEN BOOLEAN ELSE {TRUE}

\* A disconnection of client n ends.  That it failed (ok = FALSE) is passed over, and
\* nobody tries again.
Disconnected(s, n, ok) ==
    LET it == session[s].open /\ session[s].client = n IN
    /\ session' = [session EXCEPT ![s].open = @ /\ ~it]
    /\ givenUp' = (givenUp \/ (it /\ ~ok))

Shut(s) == session' = [session EXCEPT ![s].closed = TRUE]

\* A client that was connecting may be left behind.
MayGiveUp(may) == UNCHANGED givenUp \/ (may /\ givenUp' = TRUE)

\* The runner goes on in its session.
GoesOn(w, place) ==
    /\ Goto(cur[w], place)
    /\ UNCHANGED <<schedVars, runVars, stageStates, head, bundleHead, code, worktree,
                   report, cancel>>

\* The session is over for its stage, with a result, which is accepted or refused for
\* the evidence it cites, or with an error.
Delivering(w, n) ==
    /\ Unregister(cur[w])
    /\ \E ok \in Removals(cur[w]) :
         /\ Removed(cur[w], ok)
         /\ (ok /\ Return(w, n)) \/ Raise(w, IF ok THEN "FAILED" ELSE "INTERNAL", n)
    /\ UNCHANGED <<runVars, head, bundleHead, report, cancel>>

Raising(w) ==
    /\ Unregister(cur[w])
    /\ \E ok \in Removals(cur[w]) :
         /\ Removed(cur[w], ok)
         /\ Raise(w, IF ok THEN "FAILED" ELSE "INTERNAL", 1)
    /\ UNCHANGED <<runVars, head, bundleHead, report, cancel>>

\* git worktree add at the HEAD of the evidence, then adapter.start, which suspends
\* while Claude connects.
StartAgent(w) ==
    /\ At(w, "go") /\ ~cancelled /\ cur[w] \in AgentStages
    /\ worktree' = IF cur[w] \in Specialists
                   THEN [worktree EXCEPT ![cur[w]] = bundleHead] ELSE worktree
    /\ Goto(cur[w], "starting")
    /\ Emitted(1)
    /\ UNCHANGED <<schedVars, runVars, stageStates, head, bundleHead, code, live,
                   clientVars, report, cancel>>

AcquireFails(w) ==
    /\ At(w, "go") /\ ~cancelled /\ cur[w] \in Specialists
    /\ Raise(w, "INTERNAL", 0)
    /\ UNCHANGED <<runVars, head, bundleHead, agentVars, report, cancel>>

\* client_factory tries twice; the client of a first attempt that failed is
\* disconnected.
Connected(w) ==
    /\ Suspended(w, "starting")
    /\ GoesOn(w, "session")
    /\ live' = Append(live, cur[w])
    /\ session' = [session EXCEPT ![cur[w]] = [client |-> 1, open |-> TRUE, closed |-> FALSE]]
    /\ MayGiveUp(DisconnectFails)
    /\ Emitted(1)

\* Both attempts fail: there is no session yet, only a worktree.
ConnectFails(w) ==
    /\ Suspended(w, "starting")
    /\ \E ok \in Removals(cur[w]) :
         /\ Removed(cur[w], ok)
         /\ Raise(w, IF ok THEN "FAILED" ELSE "INTERNAL", 1)
    /\ MayGiveUp(DisconnectFails)
    /\ UNCHANGED <<runVars, head, bundleHead, live, session, report, cancel>>

\* The first EXECUTOR_FAILED of a session, an interruption by cancel() included:
\* _replace_client disconnects the old client, closed or not, and connects a new one.
Retry(w) ==
    /\ Suspended(w, "session") /\ session[cur[w]].client = 1
    /\ GoesOn(w, "replacing")
    /\ Emitted(1)
    /\ UNCHANGED <<live, clientVars>>

\* A disconnection that fails leaves the old client where it is for now.
Replaced(w) ==
    /\ Suspended(w, "replacing")
    /\ GoesOn(w, "reconnecting")
    /\ Disconnected(cur[w], 1, TRUE) \/ (DisconnectFails /\ UNCHANGED clientVars)
    /\ UNCHANGED <<live, events>>

\* Mutant: `closed = False' is missing.
ReconnectedStaysClosed(w) ==
    /\ Suspended(w, "reconnecting")
    /\ GoesOn(w, "session")
    /\ session' = [session EXCEPT ![cur[w]].client = 2, ![cur[w]].open = TRUE]
    /\ UNCHANGED <<live, givenUp, events>>

\* The new client takes the place of the old one, which nobody will name again, and
\* the session is not closed any more.
Reconnected(w) ==
    /\ Suspended(w, "reconnecting")
    /\ GoesOn(w, "session")
    /\ session' = [session EXCEPT ![cur[w]] = [client |-> 2, open |-> TRUE, closed |-> FALSE]]
    /\ IF session[cur[w]].open THEN givenUp' = TRUE ELSE MayGiveUp(DisconnectFails)
    /\ UNCHANGED <<live, events>>

\* The stream has its result, and _disconnect closes the session: the flag first,
\* then the client, which suspends.  If cancel() has set the flag it returns at once.
Complete(w) ==
    /\ Suspended(w, "session")
    /\ \/ /\ ~session[cur[w]].closed
          /\ Shut(cur[w])
          /\ GoesOn(w, "closing")
          /\ Emitted(1)
          /\ UNCHANGED <<live, givenUp>>
       \/ /\ session[cur[w]].closed
          /\ Delivering(w, 2)
          /\ UNCHANGED clientVars

Deliver(w) ==
    /\ Suspended(w, "closing")
    /\ \E ok \in Endings : Disconnected(cur[w], session[cur[w]].client, ok)
    /\ Delivering(w, 1)

\* The stream ends with an error: _disconnect, as above.
Fails(w) ==
    \/ /\ ~session[cur[w]].closed
       /\ Shut(cur[w])
       /\ GoesOn(w, "failing")
       /\ UNCHANGED <<live, givenUp, events>>
    \/ /\ session[cur[w]].closed
       /\ Raising(w)
       /\ UNCHANGED clientVars

Break(w) == Suspended(w, "session") /\ Fails(w)

\* The timeout of the session, or a new client that does not connect: adapter.cancel
\* interrupts the client before it disconnects it, or returns at once.
Timeout(w) ==
    /\ \E place \in {"session", "replacing", "reconnecting"} : Suspended(w, place)
    /\ MayGiveUp(step[cur[w]] = "reconnecting")
    /\ UNCHANGED session
    /\ \/ ~session[cur[w]].closed /\ GoesOn(w, "timing") /\ UNCHANGED <<live, events>>
       \/ session[cur[w]].closed /\ Raising(w)

TimedOut(w) == Suspended(w, "timing") /\ Fails(w)

\* The timeout of the session can abort the disconnection of a session that broke.
Abandon(w) ==
    /\ Suspended(w, "failing")
    /\ \E ok \in BOOLEAN : Disconnected(cur[w], session[cur[w]].client, ok)
    /\ Raising(w)

\* Mutant: the worktree is removed before the session is cancelled.
LeaveReleasingFirst(w) ==
    /\ Dying(w, "session") /\ ~session[cur[w]].closed
    /\ Goto(cur[w], "interrupt")
    /\ Removed(cur[w], TRUE)
    /\ UNCHANGED <<schedVars, runVars, stageStates, events, head, bundleHead, code, live,
                   clientVars, report, cancel>>

\* CancelledError in a session that is not closed: `finally: await
\* adapter.cancel(session)' interrupts its client, then disconnects it.
Leave(w) ==
    /\ \E place \in {"session", "replacing", "reconnecting", "timing"} : Dying(w, place)
    /\ ~session[cur[w]].closed
    /\ GoesOn(w, "interrupt")
    /\ MayGiveUp(step[cur[w]] = "reconnecting")
    /\ UNCHANGED <<live, session, events>>

Interrupted(w) ==
    /\ Dying(w, "interrupt") /\ ~session[cur[w]].closed
    /\ Shut(cur[w])
    /\ GoesOn(w, "leaving")
    /\ UNCHANGED <<live, givenUp, events>>

\* What CancelledError, or the finally clause after it, makes of the client of s.  A
\* connection or a disconnection it comes into is aborted, and where the flag is set
\* adapter.cancel returns at once.
ClientLeft(s) ==
    \/ step[s] = "probing" /\ UNCHANGED clientVars
    \/ step[s] = "starting" /\ MayGiveUp(TRUE) /\ UNCHANGED session
    \/ /\ step[s] \in Streaming /\ session[s].closed
       /\ MayGiveUp(step[s] = "reconnecting")
       /\ UNCHANGED session
    \/ /\ step[s] \in {"closing", "failing"}
       /\ \E ok \in BOOLEAN : Disconnected(s, session[s].client, ok)
    \/ /\ step[s] = "leaving"
       /\ \E ok \in Endings : Disconnected(s, session[s].client, ok)

\* The worker of a cancelled stage ends: its session is taken off the list and its
\* worktree removed, or that raises in place of CancelledError.
Die(w) ==
    /\ \E place \in {"probing", "starting"} \cup Streaming \cup Closing : Dying(w, place)
    /\ ClientLeft(cur[w])
    /\ Unregister(cur[w])
    /\ \E ok \in Removals(cur[w]) :
         /\ Removed(cur[w], ok)
         /\ \/ /\ ok
               /\ Sched!Killed(w)
               /\ Goto(cur[w], "over")
               /\ Emitted(1)
               /\ UNCHANGED <<stageStates, code>>
            \/ ~ok /\ Sched!KilledRaise(w) /\ Raised(w, "INTERNAL", 0)
    /\ UNCHANGED <<runVars, head, bundleHead, report, cancel>>

-----------------------------------------------------------------------------
(* The other actors.                                                       *)

\* cancel() goes through the list from index i, past the sessions that are closed,
\* to the next one it interrupts, or to its end.
Visit(i) ==
    \/ \E j \in i..Len(live) :
         /\ ~session[live[j]].closed
         /\ \A k \in i..(j - 1) : session[live[k]].closed
         /\ cancel' = [phase |-> "interrupting", index |-> j, at |-> live[j], client |-> 0]
         /\ UNCHANGED events
    \/ /\ \A k \in i..Len(live) : session[live[k]].closed
       /\ cancel' = [phase |-> "done", index |-> i, at |-> None, client |-> 0]
       /\ events' = Append(events, "late")

Cancel ==
    /\ up /\ task = "working" /\ ~Atomic
    /\ runStatus \notin Terminal
    /\ Sched!SetCancel
    /\ Visit(1)
    /\ UNCHANGED <<runVars, stageStates, head, bundleHead, step, code, agentVars, report>>

Cancelling(phase) == up /\ task \in {"working", "gone"} /\ ~Atomic /\ cancel.phase = phase

\* adapter.cancel has interrupted the client.  It sets the flag and waits for the
\* disconnection, or goes on if the session is closed by now.  The list may have
\* shrunk under the index meanwhile.
CancelInterrupted ==
    /\ Cancelling("interrupting")
    /\ \/ /\ ~session[cancel.at].closed
          /\ Shut(cancel.at)
          /\ cancel' = [cancel EXCEPT !.phase = "closing", !.client = session[cancel.at].client]
          /\ UNCHANGED events
       \/ /\ session[cancel.at].closed
          /\ Visit(cancel.index + 1)
          /\ UNCHANGED session
    /\ UNCHANGED <<schedVars, runVars, stageStates, head, bundleHead, step, code, live,
                   givenUp, worktree, report>>

CancelClosed ==
    /\ Cancelling("closing")
    /\ \E ok \in Endings : Disconnected(cancel.at, cancel.client, ok)
    /\ Visit(cancel.index + 1)
    /\ UNCHANGED <<schedVars, runVars, stageStates, head, bundleHead, step, code, live,
                   worktree, report>>

Commit ==
    /\ up /\ task \in {"created", "working"} /\ ~Atomic /\ head < MaxHead
    /\ head' = head + 1
    /\ UNCHANGED <<schedVars, runVars, stageStates, events, bundleHead, step, code,
                   agentVars, report, cancel>>

\* The process dies between two steps (RunRecord also lets it die inside one).
Crash ==
    /\ up /\ task \in {"created", "working"} /\ ~Atomic
    /\ up' = FALSE /\ task' = "lost"
    /\ UNCHANGED <<schedVars, runStatus, stageStates, events, head, bundleHead, step, code,
                   agentVars, report, cancel>>

\* RunStore recovers the status, WorkspaceManager removes the worktrees it owns.
Restart ==
    /\ ~up
    /\ up' = TRUE
    /\ runStatus' = IF runStatus \in {"queued", "running"} THEN "interrupted" ELSE runStatus
    /\ worktree' = [s \in Specialists |-> None]
    /\ UNCHANGED <<schedVars, task, stageStates, events, head, bundleHead, step, code, live,
                   clientVars, report, cancel>>

-----------------------------------------------------------------------------
Main == Open \/ Join \/ EndCompleted \/ EndCancelled \/ EndFailed

Runner(w) ==
    \/ Enter(w) \/ RefuseCancelled(w)
    \/ Preflight(w) \/ Probed(w) \/ Collect(w) \/ Validate(w) \/ WriteReport(w) \/ GraphRefresh(w)
    \/ StartAgent(w) \/ AcquireFails(w) \/ Connected(w) \/ ConnectFails(w)
    \/ Retry(w) \/ Replaced(w) \/ Reconnected(w)
    \/ Complete(w) \/ Deliver(w) \/ Break(w) \/ Timeout(w) \/ TimedOut(w) \/ Abandon(w)
    \/ Leave(w) \/ Interrupted(w) \/ Die(w)

Next ==
    \/ Main
    \/ \E w \in Workers : Idle(w) \/ Runner(w) \/ \E s \in Stages : Take(w, s)
    \/ Cancel \/ CancelInterrupted \/ CancelClosed \/ Commit \/ Crash \/ Restart

Spec == Init /\ [][Next]_vars

\* The event loop runs what is not suspended; a session ends, for its stream runs
\* under asyncio.timeout and its disconnection under wait_for; a worker that polls
\* a queue with a stage in it gets one.
FairSpec ==
    /\ Spec
    /\ WF_vars(Main)
    /\ \A w \in Workers : WF_vars(Idle(w) \/ Runner(w))
    /\ \A w \in Workers : SF_vars(\E s \in Stages : Take(w, s))

-----------------------------------------------------------------------------

\* cancel() has set the flag of a session and waits for its client to disconnect, for
\* up to 10 s: nobody else waits for it, for adapter.cancel returns at once.
ClosedByCancel(s) ==
    /\ cancel.phase = "closing" /\ cancel.at = s
    /\ session[s].closed /\ session[s].client = cancel.client

\* A client that somebody still answers for does not work in a directory that is gone:
\* while it is connected its worktree exists, whichever of cancel(), the retry, the
\* failure of another stage and the end of the run comes in between (_execute_agent,
\* 555-563, inside the try of 273-303).  Two exceptions, both in ClaudeExecutor: while
\* cancel() waits in disconnect (592-594) the runner of the stage goes on and removes
\* the worktree; and a client that was given up can outlive everything.
WorktreeOutlivesSession ==
    up /\ task # "lost" =>
        \A s \in Specialists :
            session[s].open => worktree[s] # None \/ ClosedByCancel(s)

\* What the task of a run leaves behind when it has ended (421-430): no session to wait
\* for in the finally clause; no connected client but one cancel() is just
\* disconnecting; a worktree only where its removal raised, which has made its stage
\* fail; and, where disconnecting works, no client that was given up unless the run was
\* cancelled or a stage has failed: only the cancellation of workers and the timeout of
\* a session abort a connection or a disconnection (executor.py, 371-384, 593-596).
CleanEnd ==
    task = "gone" =>
        /\ live = <<>>
        /\ \A s \in AgentStages : session[s].open => ClosedByCancel(s)
        /\ \A s \in Specialists :
             worktree[s] # None => ReleaseFails /\ stageStates[s] = "failed"
        /\ givenUp => \/ DisconnectFails \/ cancelled
                        \/ \E s \in Stages : stageStates[s] = "failed"

\* What run.json says of the stages is what happened: a stage is marked succeeded
\* exactly when the scheduler has its result; a run that ended well has only such
\* stages, a run that failed names a stage that failed, and a cancelled one leaves
\* none waiting (209-227, 384-388, 396-408).
StagesTold ==
    /\ \A s \in Stages : stageStates[s] = "succeeded" <=> s \in results
    /\ task = "gone" =>
         /\ runStatus \in {"succeeded", "stale"} => results = Stages
         /\ runStatus = "failed" => \E s \in Stages : stageStates[s] = "failed"
         /\ runStatus = "cancelled" => \A s \in Stages : stageStates[s] \notin {"pending", "ready"}

\* A cancellation that was accepted is never lost: the run ends cancelled, or
\* failed when a stage fails first, and nothing else ends a run as cancelled
\* (131-140 against 378-396).
CancelHonoured ==
    task = "gone" =>
        /\ cancelled => runStatus \in {"cancelled", "failed"}
        /\ runStatus = "cancelled" => cancelled

\* The status of a run and its report agree on whether HEAD has moved, and the
\* report is about the commit the worktrees were at (340-352, 378-383).
ReportAgrees ==
    /\ task = "gone" /\ runStatus \in {"succeeded", "stale"} =>
         report # None /\ report.stale = (runStatus = "stale")
    /\ runStatus = "stale" => report # None /\ report.stale
    /\ \A s \in Specialists : worktree[s] # None => worktree[s] = bundleHead
    /\ report # None => report.repoHead = bundleHead

\* Every run that is opened ends, or its server dies; a cancelled one too.
RunEnds == task = "created" ~> task \in {"gone", "lost"}

\* The audit implements the life of a run that RunRecord promises, with a finally
\* clause that never suspends.
Run == INSTANCE RunRecord WITH
    status <- runStatus, torn <- FALSE, SlowCleanup <- FALSE, CanTear <- FALSE
ImplementsRun == Run!RunSpec
=============================================================================
