------------------------------ MODULE GraphIndex ------------------------------
(***************************************************************************)
(* The index of the Markdown files (graph_index.py) and the event streams   *)
(* that show it (main.py).                                                  *)
(*                                                                         *)
(* A watcher thread notices edits and arms a debounce timer, the timer      *)
(* submits a refresh to an executor with one thread, requests refresh in    *)
(* threads of their own.  A refresh reads the files one after the other     *)
(* under the refresh lock, saves the snapshot, installs it and hands an     *)
(* event to the event loop, which puts it into the queue of every           *)
(* subscriber.  The queues also carry the node events of running stages.    *)
(*                                                                         *)
(* A snapshot is the version of every file that it was made from.           *)
(***************************************************************************)
EXTENDS Integers, Sequences

CONSTANTS NumFiles,
          Clients,  \* connections of the web client to an event stream
          Requests, \* threads of requests that refresh
          QueueCap, \* the size of a subscriber queue (8)
          MaxEdits, MaxNodeEvents, MaxFaults,
          None

Files == 1..NumFiles \* in the order of the walk
Threads == Requests \cup {"executor"}

ASSUME GraphAssumption ==
    /\ "executor" \notin Requests
    /\ None \notin Threads \cup {"startup", "watcher", "request"} /\ None \notin Nat
    /\ QueueCap \in Nat \ {0}
    /\ {NumFiles, MaxEdits, MaxNodeEvents, MaxFaults} \subseteq Nat

VARIABLES disk,     \* the version of each file
          unseen,   \* the watcher has an event that it has not handled
          timer,    \* the reason of the armed debounce timer, or None
          jobs,     \* reasons of the refreshes submitted to the executor
          lock,     \* _refresh_lock: the thread inside, or None
          scan,     \* what that thread has read of each file, or None
          reason,   \* why it refreshes
          saved,    \* snapshot.json
          snapshot, \* GraphIndexRuntime._snapshot
          failed,   \* no refresh has succeeded since one failed
          bus,      \* callbacks of the event loop that fan out events
          stream,   \* the stream a client reads: graph or knowledge
          conn,     \* state of each connection
          queue,    \* its subscriber queue
          shown,    \* the snapshot its client shows
          missed,   \* it has missed an update since the last one it was sent
          nodes, faults

index == <<disk, unseen, timer, jobs, lock, scan, reason, saved, snapshot, failed>>
counts == <<nodes, faults>>
streams == <<stream, conn, queue, shown, missed>>
vars == <<index, bus, streams, counts>>

Empty == [f \in Files |-> 0]
Unread == [f \in Files |-> None]
Updated(s) == [event |-> "graph.updated", snapshot |-> s]
NodeEvent == [event |-> "node.active", snapshot |-> None]

Init ==
    /\ disk = [f \in Files |-> 1]
    /\ unseen = FALSE
    /\ timer = "startup"
    /\ jobs = <<>>
    /\ lock = None /\ scan = Unread /\ reason = None
    /\ saved = Empty
    /\ snapshot = saved
    /\ failed = FALSE
    /\ bus = <<>>
    /\ stream \in [Clients -> {"graph", "knowledge"}]
    /\ conn = [c \in Clients |-> "off"]
    /\ queue = [c \in Clients |-> <<>>]
    /\ shown = [c \in Clients |-> None]
    /\ missed = [c \in Clients |-> FALSE]
    /\ nodes = 0 /\ faults = 0

-----------------------------------------------------------------------------
\* Somebody saves a file.
Edit(f) ==
    /\ disk[f] <= MaxEdits
    /\ disk' = [disk EXCEPT ![f] = @ + 1]
    /\ unseen' = TRUE
    /\ UNCHANGED <<timer, jobs, lock, scan, reason, saved, snapshot, failed, bus, streams, counts>>

\* Mutant: events are ignored during a refresh.
NoticeWhenIdle ==
    /\ unseen /\ unseen' = FALSE
    /\ timer' = IF lock = None THEN "watcher" ELSE timer
    /\ UNCHANGED <<disk, jobs, lock, scan, reason, saved, snapshot, failed, bus, streams, counts>>

\* on_any_event and schedule_refresh: a new timer in the place of the old one.
Notice ==
    /\ unseen /\ unseen' = FALSE
    /\ timer' = "watcher"
    /\ UNCHANGED <<disk, jobs, lock, scan, reason, saved, snapshot, failed, bus, streams, counts>>

\* Mutant: nothing is submitted while the executor works.
FireUnlessBusy ==
    /\ timer # None
    /\ timer' = None
    /\ jobs' = IF lock = "executor" THEN jobs ELSE Append(jobs, timer)
    /\ UNCHANGED <<disk, unseen, lock, scan, reason, saved, snapshot, failed, bus, streams, counts>>

\* The timer submits the refresh.
Fire ==
    /\ timer # None
    /\ timer' = None
    /\ jobs' = Append(jobs, timer)
    /\ UNCHANGED <<disk, unseen, lock, scan, reason, saved, snapshot, failed, bus, streams, counts>>

\* refresh, up to the lock.
Enter(t) ==
    /\ lock = None
    /\ lock' = t /\ scan' = Unread
    /\ \/ /\ t = "executor" /\ jobs # <<>>
          /\ reason' = Head(jobs) /\ jobs' = Tail(jobs)
       \/ /\ t \in Requests
          /\ reason' = "request" /\ jobs' = jobs
    /\ UNCHANGED <<disk, unseen, timer, saved, snapshot, failed, bus, streams, counts>>

\* scan reads one more file; others are edited meanwhile.
ReadFile(f) ==
    /\ lock # None /\ scan[f] = None /\ \A g \in 1..(f - 1) : scan[g] # None
    /\ scan' = [scan EXCEPT ![f] = disk[f]]
    /\ UNCHANGED <<disk, unseen, timer, jobs, lock, reason, saved, snapshot, failed, bus, streams, counts>>

Scanned == lock # None /\ \A f \in Files : scan[f] # None

\* write_snapshot replaces the file.
Save ==
    /\ Scanned /\ saved # scan
    /\ saved' = scan
    /\ UNCHANGED <<disk, unseen, timer, jobs, lock, scan, reason, snapshot, failed, bus, streams, counts>>

\* An exception of the scan ends the refresh and is lost in its future.
Fail ==
    /\ lock # None /\ faults < MaxFaults
    /\ lock' = None /\ scan' = Unread /\ reason' = None
    /\ failed' = TRUE
    /\ faults' = faults + 1
    /\ UNCHANGED <<disk, unseen, timer, jobs, saved, snapshot, bus, streams, nodes>>

Leave(s) ==
    /\ snapshot' = s
    /\ failed' = FALSE
    /\ lock' = None /\ scan' = Unread /\ reason' = None
    /\ UNCHANGED <<disk, unseen, timer, jobs, saved, streams, counts>>

\* Mutants: the snapshot is installed before it is saved; it is compared with
\* itself after it is installed.
InstallUnsaved ==
    /\ Scanned
    /\ Leave(scan)
    /\ bus' = IF scan # snapshot \/ reason = "startup" THEN Append(bus, Updated(scan)) ELSE bus
InstallThenCompare ==
    /\ Scanned /\ saved = scan
    /\ Leave(scan)
    /\ bus' = IF reason = "startup" THEN Append(bus, Updated(scan)) ELSE bus

\* The rest of refresh: installs the snapshot and publishes it if it has changed.
Install ==
    /\ Scanned /\ saved = scan
    /\ Leave(scan)
    /\ bus' = IF scan # snapshot \/ reason = "startup" THEN Append(bus, Updated(scan)) ELSE bus

\* publish_runtime: a stage of the engine or of a skill shows where it works.
PublishNode ==
    /\ nodes < MaxNodeEvents
    /\ nodes' = nodes + 1
    /\ bus' = Append(bus, NodeEvent)
    /\ UNCHANGED <<index, streams, faults>>

-----------------------------------------------------------------------------
IsUpdate(e) == e.event = "graph.updated"

\* A client takes a node event of the graph stream for what it is, although the
\* server sends the snapshot along; the knowledge stream makes every event an update.
Shows(c, e) == stream[c] = "knowledge" \/ IsUpdate(e)

Offer(q, e) == Append(IF Len(q) = QueueCap THEN Tail(q) ELSE q, e)

Lost(c, e) ==
    \/ conn[c] = "gap" /\ IsUpdate(e)
    \/ conn[c] = "live" /\ Len(queue[c]) = QueueCap /\ Shows(c, Head(queue[c])) /\ ~Shows(c, e)

\* _fanout.
Fanout ==
    /\ bus # <<>>
    /\ bus' = Tail(bus)
    /\ queue' = [c \in Clients |->
                   IF conn[c] = "live" THEN Offer(queue[c], Head(bus)) ELSE queue[c]]
    /\ missed' = [c \in Clients |-> missed[c] \/ Lost(c, Head(bus))]
    /\ UNCHANGED <<index, stream, conn, shown, counts>>

\* The stream begins with the current snapshot and subscribes after it is sent.
\* The knowledge stream refreshes an empty index first, as a request does.
Connect(c) ==
    /\ conn[c] = "off" /\ (stream[c] = "graph" \/ snapshot # Empty)
    /\ conn' = [conn EXCEPT ![c] = "gap"]
    /\ shown' = [shown EXCEPT ![c] = snapshot]
    /\ missed' = [missed EXCEPT ![c] = FALSE]
    /\ UNCHANGED <<index, bus, stream, queue, counts>>

Subscribe(c) ==
    /\ conn[c] = "gap"
    /\ conn' = [conn EXCEPT ![c] = "live"]
    /\ UNCHANGED <<index, bus, stream, queue, shown, missed, counts>>

\* Mutant: the graph stream sends the snapshot of the event.
CurrentOfEvent(c, e) == IF IsUpdate(e) THEN e.snapshot ELSE snapshot

\* What the stream sends for e: the graph stream the current snapshot.
Current(c, e) == IF stream[c] = "graph" \/ ~IsUpdate(e) THEN snapshot ELSE e.snapshot

Deliver(c) ==
    /\ conn[c] = "live" /\ queue[c] # <<>>
    /\ LET e == Head(queue[c]) IN
         /\ shown' = [shown EXCEPT ![c] = IF Shows(c, e) THEN Current(c, e) ELSE @]
         /\ missed' = [missed EXCEPT ![c] = @ /\ ~Shows(c, e)]
    /\ queue' = [queue EXCEPT ![c] = Tail(@)]
    /\ UNCHANGED <<index, bus, stream, conn, counts>>

Hangup(c) ==
    /\ conn[c] # "off" /\ faults < MaxFaults
    /\ conn' = [conn EXCEPT ![c] = "off"]
    /\ queue' = [queue EXCEPT ![c] = <<>>]
    /\ faults' = faults + 1
    /\ UNCHANGED <<index, bus, stream, shown, missed, nodes>>

\* The service dies and starts again: load_snapshot, then a refresh.
Restart ==
    /\ faults < MaxFaults
    /\ faults' = faults + 1
    /\ snapshot' = saved
    /\ unseen' = FALSE /\ timer' = "startup" /\ jobs' = <<>>
    /\ lock' = None /\ scan' = Unread /\ reason' = None /\ failed' = FALSE
    /\ bus' = <<>>
    /\ conn' = [c \in Clients |-> "off"]
    /\ queue' = [c \in Clients |-> <<>>]
    /\ UNCHANGED <<disk, saved, stream, shown, missed, nodes>>

Next ==
    \/ \E f \in Files : Edit(f) \/ ReadFile(f)
    \/ Notice \/ Fire \/ Save \/ Fail \/ Install \/ PublishNode \/ Fanout \/ Restart
    \/ \E t \in Threads : Enter(t)
    \/ \E c \in Clients : Connect(c) \/ Subscribe(c) \/ Deliver(c) \/ Hangup(c)

Spec == Init /\ [][Next]_vars

\* The threads of the index run, and the executor gets the lock in the end although
\* requests may have it in between.  No file need be edited.
FairSpec ==
    /\ Spec
    /\ WF_vars(Notice) /\ WF_vars(Fire) /\ WF_vars(Save) /\ WF_vars(Install)
    /\ WF_vars(\E f \in Files : ReadFile(f))
    /\ SF_vars(Enter("executor"))

-----------------------------------------------------------------------------
Snapshots == [Files -> Nat]
Reasons == {"startup", "watcher"}
Events == [event : {"graph.updated"}, snapshot : Snapshots] \cup {NodeEvent}

\* Every variable has its type: a snapshot has a version of every file, a queue and
\* the callbacks of the loop hold updates and node events (graph_index.py 355-391).
TypeOK ==
    /\ disk \in Snapshots /\ saved \in Snapshots /\ snapshot \in Snapshots
    /\ unseen \in BOOLEAN /\ failed \in BOOLEAN
    /\ timer \in Reasons \cup {None}
    /\ jobs \in Seq(Reasons)
    /\ lock \in Threads \cup {None}
    /\ scan \in [Files -> Nat \cup {None}]
    /\ reason \in Reasons \cup {"request", None}
    /\ bus \in Seq(Events)
    /\ stream \in [Clients -> {"graph", "knowledge"}]
    /\ conn \in [Clients -> {"off", "gap", "live"}]
    /\ queue \in [Clients -> Seq(Events)]
    /\ shown \in [Clients -> Snapshots \cup {None}]
    /\ missed \in [Clients -> BOOLEAN]
    /\ nodes \in Nat /\ faults \in Nat

\* No edit is forgotten: as long as the snapshot is not what is on disk, the
\* watcher, the timer, the executor or a scan that has not read the old version
\* has it still to do, or a refresh has failed (which nobody repeats, graph_index.py 422-443).
NoEditForgotten ==
    \/ snapshot = disk
    \/ unseen \/ timer # None \/ jobs # <<>> \/ failed
    \/ lock # None /\ \A f \in Files : scan[f] \in {None, disk[f]}

\* The index never goes back to an older version of any file, whichever threads
\* refresh at the same time and whatever a restart loads (graph_index.py 119-186, 422-430).
IndexNeverBack == [][\A f \in Files : snapshot'[f] >= snapshot[f]]_snapshot

\* What a client of the graph stream is shown never goes back, although its events
\* wait in queues while the index moves on, over reconnects and restarts (main.py 260-279).
GraphNeverBack ==
    [][\A c \in Clients : stream[c] = "graph" /\ shown[c] # None =>
          \A f \in Files : shown'[c][f] >= shown[c][f]]_shown

\* A client that has been sent all its events shows the current snapshot, unless
\* an update came between its first snapshot and its subscription, or node events
\* have pushed one out of its queue (main.py 261-265, graph_index.py 368-377).
QuietMeansCurrent ==
    \A c \in Clients :
        conn[c] = "live" /\ queue[c] = <<>> /\ bus = <<>> /\ ~missed[c] => shown[c] = snapshot

\* The index follows the files in the end, unless its last refresh failed.
IndexFollows == <>[](snapshot = disk \/ failed)
=============================================================================
