----------------------------- MODULE TaskRuntime -----------------------------
(***************************************************************************)
(* One development task (tasks.py): its row in the database, the timer     *)
(* thread that main.py starts to assemble its context, the requests that   *)
(* assemble it again, the clients that move it over the board with the     *)
(* version they have last read, and restarts of the service.               *)
(*                                                                         *)
(* FastAPI runs these handlers in threads.  A thread holds the lock of the *)
(* runtime from its first read to its last write, but readers do not take  *)
(* it, and the death of the process leaves what has been committed.        *)
(*                                                                         *)
(* Of the context only its status and whether there is a pack are kept.    *)
(* The events that announce a change carry no data and are left out.       *)
(***************************************************************************)
EXTENDS Integers

CONSTANTS Requests,   \* the threads of POST /api/tasks/{id}/context
          Clients,    \* the clients that read the task and move it
          MaxVersion, \* bound on the changes, apart from those of the timer
          MaxCrashes,
          None

ASSUME TaskAssumption ==
    /\ "timer" \notin Requests \cup Clients
    /\ Requests \cap Clients = {}
    /\ None \notin Requests \cup Clients \cup {"timer"}
    /\ MaxVersion \in Nat /\ MaxCrashes \in Nat

VARIABLES row,     \* the row: status, context_status, pack and version; version 0: none
          lock,    \* TaskRuntime._lock: the thread that holds it, or None
          creator, \* the request that creates the task and its timer
          seen,    \* the row each client has last read
          target,  \* the status the client that holds the lock asks for
          up,      \* the service is running
          crashes

vars == <<row, lock, creator, seen, target, up, crashes>>

Assemblers == Requests \cup {"timer"}
Statuses == {"backlog", "ready", "doing", "review", "blocked", "done"}
Contexts == {"pending", "searching", "ready", "gap", "failed"}

\* ALLOWED_TRANSITIONS.
Allowed(s) ==
    CASE s = "backlog" -> {"ready", "blocked"}
      [] s = "ready"   -> {"backlog", "doing", "blocked"}
      [] s = "doing"   -> {"review", "blocked"}
      [] s = "review"  -> {"doing", "blocked", "done"}
      [] s = "blocked" -> {"backlog", "ready", "doing"}
      [] s = "done"    -> {}

Gated == {"ready", "doing"}       \* EXECUTION_GATE_STATUSES
ValidContexts == {"ready", "gap"} \* VALID_CONTEXT_STATUSES

NoRow == [status |-> "backlog", context |-> "pending", pack |-> FALSE, version |-> 0]

Init ==
    /\ row = NoRow
    /\ lock = None
    /\ creator = "none"
    /\ seen = [c \in Clients |-> NoRow]
    /\ target = None
    /\ up = TRUE
    /\ crashes = 0

-----------------------------------------------------------------------------
\* create; POST /api/tasks arms the timer when it has returned, in the meantime
\* others find the task in the list.
Create ==
    /\ up /\ creator = "none" /\ lock = None
    /\ row' = [NoRow EXCEPT !.version = 1]
    /\ creator' = "inserted"
    /\ UNCHANGED <<lock, seen, target, up, crashes>>

Arm ==
    /\ up /\ creator = "inserted"
    /\ creator' = "armed"
    /\ UNCHANGED <<row, lock, seen, target, up, crashes>>

\* _set_context_result.
SetContext(context, pack) ==
    row' = [row EXCEPT !.context = context, !.pack = pack, !.version = @ + 1]

MayAssemble(a) ==
    IF a = "timer" THEN creator = "armed"
                   ELSE row.version > 0 /\ row.version + 2 <= MaxVersion

TimerUsed(a) == creator' = IF a = "timer" THEN "fired" ELSE creator

\* assemble_context up to _build_context, which reads the graph.
Assemble(a, force) ==
    /\ up /\ lock = None /\ MayAssemble(a)
    /\ row.context \notin ValidContexts \/ force
    /\ lock' = a
    /\ SetContext("searching", FALSE)
    /\ TimerUsed(a)
    /\ UNCHANGED <<seen, target, up, crashes>>

\* There is a context already.
AssembleNothing(a) ==
    /\ up /\ lock = None /\ MayAssemble(a)
    /\ row.context \in ValidContexts
    /\ TimerUsed(a)
    /\ UNCHANGED <<row, lock, seen, target, up, crashes>>

\* _build_context: a pack of the topics that match the task, or a gap if none does.
BuildContext == {[context |-> "ready", pack |-> TRUE], [context |-> "gap", pack |-> FALSE]}

\* Mutant: an exception of _build_context is not caught.
AssembledUnguarded(a) ==
    /\ up /\ lock = a
    /\ lock' = None
    /\ \/ \E found \in BuildContext : SetContext(found.context, found.pack)
       \/ UNCHANGED row
    /\ UNCHANGED <<creator, seen, target, up, crashes>>

\* Assembled with what _build_context has found, or failed because it raised.
Assembled(a) ==
    /\ up /\ lock = a
    /\ lock' = None
    /\ \/ \E found \in BuildContext : SetContext(found.context, found.pack)
       \/ SetContext("failed", FALSE)
    /\ UNCHANGED <<creator, seen, target, up, crashes>>

\* get and list do not take the lock.
Read(c) ==
    /\ up /\ row.version > 0
    /\ seen' = [seen EXCEPT ![c] = row]
    /\ UNCHANGED <<row, lock, creator, target, up, crashes>>

\* Mutant: the version is not compared.
CheckTransitionAnyVersion(c, s) ==
    /\ up /\ lock = None /\ row.version \in 1..(MaxVersion - 1)
    /\ s \in Allowed(row.status)
    /\ s \in Gated => row.context \in ValidContexts
    /\ lock' = c /\ target' = s
    /\ UNCHANGED <<row, creator, seen, up, crashes>>

\* Mutant: the gate asks only that an assembly has been tried.
CheckTransitionUngated(c, s) ==
    /\ up /\ lock = None /\ row.version \in 1..(MaxVersion - 1)
    /\ seen[c].version = row.version
    /\ s \in Allowed(row.status)
    /\ s \in Gated => row.context # "pending"
    /\ lock' = c /\ target' = s
    /\ UNCHANGED <<row, creator, seen, up, crashes>>

\* transition: version, ALLOWED_TRANSITIONS and the gate; then the update.
CheckTransition(c, s) ==
    /\ up /\ lock = None /\ row.version \in 1..(MaxVersion - 1)
    /\ seen[c].version = row.version
    /\ s \in Allowed(row.status)
    /\ s \in Gated => row.context \in ValidContexts
    /\ lock' = c /\ target' = s
    /\ UNCHANGED <<row, creator, seen, up, crashes>>

Transition(c) ==
    /\ up /\ lock = c
    /\ row' = [row EXCEPT !.status = target, !.version = @ + 1]
    /\ lock' = None /\ target' = None
    /\ UNCHANGED <<creator, seen, up, crashes>>

\* The threads die with the process, the timer among them.
Crash ==
    /\ up /\ crashes < MaxCrashes
    /\ up' = FALSE /\ crashes' = crashes + 1
    /\ lock' = None /\ target' = None
    /\ creator' = IF creator = "none" THEN creator ELSE "fired"
    /\ UNCHANGED <<row, seen>>

\* Mutant: only the searches that had begun are settled.
RestartSearchingOnly ==
    /\ ~up
    /\ up' = TRUE
    /\ row' = IF row.version > 0 /\ row.context = "searching"
              THEN [row EXCEPT !.context = "failed"] ELSE row
    /\ UNCHANGED <<lock, creator, seen, target, crashes>>

\* _initialize settles the searches nobody works on; the version stays.
Restart ==
    /\ ~up
    /\ up' = TRUE
    /\ row' = IF row.version > 0 /\ row.context \in {"searching", "pending"}
              THEN [row EXCEPT !.context = "failed"] ELSE row
    /\ UNCHANGED <<lock, creator, seen, target, crashes>>

Next ==
    \/ Create \/ Arm \/ Crash \/ Restart
    \/ \E a \in Assemblers :
          \/ \E force \in (IF a = "timer" THEN {FALSE} ELSE BOOLEAN) : Assemble(a, force)
          \/ AssembleNothing(a)
          \/ Assembled(a)
    \/ \E c \in Clients :
          Read(c) \/ Transition(c) \/ \E s \in Statuses : CheckTransition(c, s)

Spec == Init /\ [][Next]_vars

\* Threads run, and the timer gets the lock when the others have done with it.
FairSpec ==
    /\ Spec
    /\ WF_vars(Arm)
    /\ WF_vars(Assemble("timer", FALSE) \/ AssembleNothing("timer"))
    /\ \A a \in Assemblers : WF_vars(Assembled(a))
    /\ \A c \in Clients : WF_vars(Transition(c))

-----------------------------------------------------------------------------
Rows == [status : Statuses, context : Contexts, pack : BOOLEAN, version : Nat]

TypeOK ==
    /\ row \in Rows
    /\ lock \in Assemblers \cup Clients \cup {None}
    /\ creator \in {"none", "inserted", "armed", "fired"}
    /\ seen \in [Clients -> Rows]
    /\ target \in Statuses \cup {None}
    /\ up \in BOOLEAN
    /\ crashes \in 0..MaxCrashes

\* No search is abandoned: while the service runs, a context that is being
\* searched has a thread at work and one that is pending has its timer, over any
\* restarts (129-133, main.py 344-351).
SearchHasWorker ==
    up /\ row.version > 0 =>
        /\ row.context = "searching" => lock \in Assemblers
        /\ row.context = "pending" => creator \in {"inserted", "armed"}

\* There is a context pack exactly when the status says so, at every moment at
\* which a reader, who takes no lock, can look.
PackAgrees == row.pack <=> row.context = "ready"

\* A task is made ready or started only with a context that is assembled, while
\* nobody is assembling another (258-268).
StartedWithContext ==
    [][row'.status # row.status /\ row'.status \in Gated =>
          row.context \in ValidContexts /\ row'.context = row.context]_vars

\* A client moves the task it has seen: status and context are those it read, or
\* the context is one that a restart has since declared failed.
MovesWhatItSaw ==
    [][row'.status # row.status =>
          \E c \in Clients :
              /\ lock = c
              /\ seen[c].status = row.status /\ seen[c].version = row.version
              /\ seen[c].context \in {row.context}
                   \cup (IF row.context = "failed" THEN {"searching", "pending"} ELSE {})]_vars

\* Every search comes to an end, unless the service stops first.
SearchEnds ==
    row.version > 0 /\ row.context \in {"pending", "searching"} ~>
        row.context \in {"ready", "gap", "failed"} \/ ~up
=============================================================================
