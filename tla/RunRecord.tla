------------------------------ MODULE RunRecord ------------------------------
(***************************************************************************)
(* One run as everyone outside the audit runtime sees it: the status in    *)
(* run.json, the append-only events.jsonl, and whether the server process  *)
(* and the asyncio task of the run exist (harness/run_store.py and the     *)
(* lifecycle of HarnessAuditRuntime._execute).                             *)
(*                                                                         *)
(* A step is the code between two awaits that suspend.  The body of        *)
(* append_event's lock suspends nowhere, so a step may write the status    *)
(* and append several events; a crash may still come between two writes.   *)
(*                                                                         *)
(* append_event numbers a line one more than the line before it, so the    *)
(* sequence number of an event is its index.  Of the type only what        *)
(* matters is kept: "event" is every event that is not named here, "late"  *)
(* is one that another request appends.                                    *)
(***************************************************************************)
EXTENDS Integers, Sequences

CONSTANTS MaxBurst,     \* the most events one step of the run appends
          SlowCleanup,  \* TRUE: a session may be left for the finally clause to
                        \* cancel, which suspends before stream.end
          CanTear       \* TRUE: a crash may tear the line being appended

ASSUME RunRecordAssumption ==
    MaxBurst \in Nat \ {0} /\ SlowCleanup \in BOOLEAN /\ CanTear \in BOOLEAN

VARIABLES status,  \* run.json: status
          events,  \* the complete lines of events.jsonl
          torn,    \* events.jsonl ends in an incomplete line
          task,    \* the asyncio task of _execute; "lost" after a crash
          up       \* the server process exists

runVars == <<status, events, torn, task, up>>

\* RunStatus and TERMINAL_STATUSES.
Terminal == {"succeeded", "failed", "cancelled", "interrupted", "stale"}
RunStatuses == {"queued", "running"} \cup Terminal

Types == {"run.opened", "event", "terminal", "stream.end", "late"}

-----------------------------------------------------------------------------
\* create_run has written run.json and created the task.
RunInit == /\ status = "queued"
           /\ events = <<>>
           /\ torn = FALSE
           /\ task = "created"
           /\ up = TRUE

Burst(n) == [i \in 1..n |-> "event"]

Open == /\ task = "created"
        /\ task' = "working"
        /\ status' = "running"
        /\ events' = Append(events, "run.opened")
        /\ UNCHANGED <<torn, up>>

\* Events of the stages, sessions, tool calls and artifacts.  write-report also
\* writes a status: stale, which is terminal, if HEAD has moved, although a
\* stage remains to be run.
Progress(n) == /\ task = "working"
               /\ events' = events \o Burst(n)
               /\ status' \in {status, "stale"}
               /\ UNCHANGED <<torn, task, up>>

\* The statuses the try statement of _execute may end with.
Outcomes == {"failed", "cancelled", "interrupted"}
            \cup (IF status = "stale" THEN {"stale"} ELSE {"succeeded"})

\* Mutant: stream.end is appended before the final status and its event.
ConcludeEndFirst ==
    /\ task = "working"
    /\ status' \in Outcomes
    /\ \/ /\ task' = "gone"
          /\ events' = events \o <<"stream.end", "terminal">>
       \/ /\ SlowCleanup
          /\ task' = "closing"
          /\ events' = Append(events, "stream.end")
    /\ UNCHANGED <<torn, up>>

\* The end of the try statement: the final status and its event, and the finally
\* clause, which suspends only when there is a session left to cancel.
Conclude ==
    /\ task = "working"
    /\ status' \in Outcomes
    /\ \/ /\ task' = "gone"
          /\ events' = events \o <<"terminal", "stream.end">>
       \/ /\ SlowCleanup
          /\ task' = "closing"
          /\ events' = Append(events, "terminal")
    /\ UNCHANGED <<torn, up>>

Finish == /\ task = "closing"
          /\ task' = "gone"
          /\ events' = Append(events, "stream.end")
          /\ UNCHANGED <<status, torn, up>>

\* cancel, after it has waited for the sessions, and decide_permission append
\* without another look at the status: the run may have ended meanwhile.
Late == /\ task \in {"working", "closing", "gone"}
        /\ events' = Append(events, "late")
        /\ UNCHANGED <<status, torn, task, up>>

\* What a step that the crash interrupts may leave on disk.
PartlyWritten ==
    {<<status, events>>}
    \cup (IF task = "created" THEN {<<"running", events>>} ELSE {})
    \cup (IF task = "working"
          THEN {<<s, events>> : s \in Outcomes \cup {"stale"}}
               \cup {<<status, events \o Burst(n)>> : n \in 1..MaxBurst}
               \cup {<<s, Append(events, "terminal")>> : s \in Outcomes}
          ELSE {})

Crash == /\ up
         /\ up' = FALSE
         /\ task' = "lost"
         /\ \E disk \in PartlyWritten : status' = disk[1] /\ events' = disk[2]
         /\ torn' \in {torn, torn \/ (CanTear /\ task # "lost")}

\* Mutants: only RUNNING is recovered; every status is.
RestartQueuedKept == /\ ~up
                     /\ up' = TRUE
                     /\ status' = IF status = "running" THEN "interrupted" ELSE status
                     /\ UNCHANGED <<events, torn, task>>

\* RunStore.__init__: _recover_interrupted.
Restart == /\ ~up
           /\ up' = TRUE
           /\ status' = IF status \in {"queued", "running"} THEN "interrupted" ELSE status
           /\ UNCHANGED <<events, torn, task>>

RunNext == \/ Open \/ Conclude \/ Finish \/ Late \/ Crash \/ Restart
           \/ \E n \in 1..MaxBurst : Progress(n)

RunSpec == RunInit /\ [][RunNext]_runVars

-----------------------------------------------------------------------------
RunTypeOK ==
    /\ status \in RunStatuses
    /\ events \in Seq(Types)
    /\ torn \in BOOLEAN /\ up \in BOOLEAN
    /\ task \in {"created", "working", "closing", "gone", "lost"}

Ended == \E i \in 1..Len(events) : events[i] = "stream.end"

\* A run whose status says it is waiting or running is one that a live server is
\* working on, also after any number of crashes and restarts.
ActiveHasTask == up /\ status \in {"queued", "running"} => task \in {"created", "working"}

\* stream.end says that the run will add nothing: from then on the status is
\* final and only other requests append.
EndIsFinal ==
    [][Ended => /\ status' = status
                /\ events' = events \/ events' = Append(events, "late")]_runVars

\* A terminal status other than stale never changes, and the events are only
\* appended to: what a client has read stays true.
HistoryOnlyGrows ==
    [][/\ status \in Terminal \ {"stale"} => status' = status
       /\ Len(events') >= Len(events)
       /\ SubSeq(events', 1, Len(events)) = events]_runVars

=============================================================================
