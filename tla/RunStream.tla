------------------------------ MODULE RunStream ------------------------------
(***************************************************************************)
(* GET /api/runs/{id}/events (run_events in main.py): clients with an      *)
(* EventSource follow the events.jsonl of a run through server-sent        *)
(* events, over lost connections, restarts of the server and subscriber    *)
(* queues that overflow.                                                   *)
(*                                                                         *)
(* A batch that read_events returned is the interval cursor+1..upto; events *)
(* on the wire and in the queues are represented by their sequence numbers. *)
(***************************************************************************)
EXTENDS RunRecord

CONSTANTS Clients,    \* the clients that follow the run
          QueueCap,   \* capacity of a subscriber queue (256 in the code)
          MaxEvents,  \* bound on the events, beyond those that end the run
          MaxLate,    \* bound on the events of other requests
          MaxCrashes, \* bound on the crashes
          MaxDrops    \* bound on the lost connections

ASSUME RunStreamAssumption ==
    /\ QueueCap \in Nat \ {0}
    /\ MaxEvents \in Nat /\ MaxLate \in Nat /\ MaxCrashes \in Nat /\ MaxDrops \in Nat

VARIABLES pc,        \* the generator events() that serves each client
          cursor,    \* its cursor
          upto,      \* the last event of the batch it is yielding
          queue,     \* its subscriber queue
          wire,      \* yielded and not yet received
          received,  \* the sequence numbers the client has dispatched
          drops,     \* number of lost connections
          lates,     \* number of events of other requests
          crashes    \* number of crashes

counters == <<drops, lates, crashes>>
streamVars == <<pc, cursor, upto, queue, wire, received, counters>>
allVars == <<runVars, streamVars>>

StreamInit == /\ pc = [c \in Clients |-> "away"]
              /\ cursor = [c \in Clients |-> 0]
              /\ upto = [c \in Clients |-> 0]
              /\ queue = [c \in Clients |-> <<>>]
              /\ wire = [c \in Clients |-> <<>>]
              /\ received = [c \in Clients |-> <<>>]
              /\ drops = 0 /\ lates = 0 /\ crashes = 0

\* Mutant: the reader subscribes only when it starts to wait.
SubscribedLate(c) == pc[c] = "waiting"

Subscribed(c) == pc[c] \in {"yielding", "waiting"}

\* append_event offers every new line to every subscriber; a full queue loses
\* its oldest event.
Offered(q) ==
    LET all == q \o [i \in 1..(Len(events') - Len(events)) |-> Len(events) + i]
    IN IF Len(all) <= QueueCap THEN all
       ELSE SubSeq(all, Len(all) - QueueCap + 1, Len(all))

\* Mutant: the connection goes on where the last one had got to.
LastEventIdSent(c) == cursor[c]

\* The EventSource sends the id of the last event it has dispatched.
LastEventId(c) == IF received[c] = <<>> THEN 0 ELSE received[c][Len(received[c])]

\* read_events: a batch up to the last line; it raises if a line is torn.
ReadEvents(c) == ~torn /\ upto' = [upto EXCEPT ![c] = Len(events)]

\* subscribe: an empty queue.
Subscribe(c) == queue' = [queue EXCEPT ![c] = <<>>]

\* A client without a connection opens one: subscribe, then read the log.
Connect(c) ==
    /\ pc[c] = "away" /\ up
    /\ pc' = [pc EXCEPT ![c] = "yielding"]
    /\ cursor' = [cursor EXCEPT ![c] = LastEventId(c)]
    /\ Subscribe(c) /\ ReadEvents(c)
    /\ UNCHANGED <<runVars, wire, received, counters>>

Yield(c) ==
    /\ pc[c] = "yielding" /\ cursor[c] < upto[c]
    /\ cursor' = [cursor EXCEPT ![c] = @ + 1]
    /\ wire' = [wire EXCEPT ![c] = Append(@, cursor[c] + 1)]
    /\ UNCHANGED <<runVars, pc, upto, queue, received, counters>>

\* The batch is sent.  The generator returns if the status is terminal and the
\* log drained, and waits for its queue otherwise.
Drained(c) ==
    /\ pc[c] = "yielding" /\ cursor[c] >= upto[c]
    /\ IF status \in Terminal /\ Len(events) <= cursor[c]
         THEN /\ pc' = [pc EXCEPT ![c] = "returned"]
              /\ queue' = [queue EXCEPT ![c] = <<>>]
         ELSE /\ pc' = [pc EXCEPT ![c] = "waiting"]
              /\ UNCHANGED queue
    /\ UNCHANGED <<runVars, cursor, upto, wire, received, counters>>

\* queue.get() returns or times out (a heartbeat): in both cases, and whatever
\* the event is, the log is read again from the cursor.
Reread(c, q) ==
    /\ pc[c] = "waiting"
    /\ pc' = [pc EXCEPT ![c] = "yielding"]
    /\ ReadEvents(c)
    /\ queue' = [queue EXCEPT ![c] = q]
    /\ UNCHANGED <<runVars, cursor, wire, received, counters>>

Wake(c) == queue[c] # <<>> /\ Reread(c, Tail(queue[c]))
Heartbeat(c) == queue[c] = <<>> /\ Reread(c, <<>>)

\* The EventSource dispatches an event; the page closes it on stream.end.
Receive(c) ==
    /\ wire[c] # <<>>
    /\ received' = [received EXCEPT ![c] = Append(@, Head(wire[c]))]
    /\ IF events[Head(wire[c])] = "stream.end"
         THEN /\ pc' = [pc EXCEPT ![c] = "closed"]
              /\ wire' = [wire EXCEPT ![c] = <<>>]
              /\ queue' = [queue EXCEPT ![c] = <<>>]
         ELSE /\ wire' = [wire EXCEPT ![c] = Tail(@)]
              /\ UNCHANGED <<pc, queue>>
    /\ UNCHANGED <<runVars, cursor, upto, counters>>

\* The generator has returned and everything is dispatched: the EventSource
\* sees the end of the response and will reconnect.
Reopen(c) ==
    /\ pc[c] = "returned" /\ wire[c] = <<>>
    /\ pc' = [pc EXCEPT ![c] = "away"]
    /\ UNCHANGED <<runVars, cursor, upto, queue, wire, received, counters>>

\* The connection is lost with everything on it.
Drop(c) ==
    /\ Subscribed(c) \/ pc[c] = "returned"
    /\ drops < MaxDrops /\ drops' = drops + 1
    /\ pc' = [pc EXCEPT ![c] = "away"]
    /\ wire' = [wire EXCEPT ![c] = <<>>]
    /\ queue' = [queue EXCEPT ![c] = <<>>]
    /\ UNCHANGED <<runVars, cursor, upto, received, lates, crashes>>

\* A step of the run: its events reach the subscribers.
Announce ==
    /\ queue' = [c \in Clients |-> IF Subscribed(c) THEN Offered(queue[c]) ELSE queue[c]]
    /\ UNCHANGED <<pc, cursor, upto, wire, received, drops, crashes>>

RunStep ==
    /\ Open \/ Conclude \/ Finish \/ Restart
    /\ Announce
    /\ UNCHANGED lates

RunProgress(n) ==
    /\ Len(events) + n <= MaxEvents
    /\ Progress(n)
    /\ Announce
    /\ UNCHANGED lates

LateStep ==
    /\ lates < MaxLate /\ lates' = lates + 1
    /\ Late
    /\ Announce

\* The server dies and every connection with it.
ServerCrash ==
    /\ crashes < MaxCrashes /\ crashes' = crashes + 1
    /\ Crash
    /\ pc' = [c \in Clients |-> IF pc[c] = "closed" THEN "closed" ELSE "away"]
    /\ wire' = [c \in Clients |-> <<>>]
    /\ queue' = [c \in Clients |-> <<>>]
    /\ UNCHANGED <<cursor, upto, received, drops, lates>>

Serve(c) == Connect(c) \/ Yield(c) \/ Drained(c) \/ Wake(c) \/ Receive(c) \/ Reopen(c)

Init == RunInit /\ StreamInit
Next == \/ RunStep \/ LateStep \/ ServerCrash
        \/ \E n \in 1..MaxBurst : RunProgress(n)
        \/ \E c \in Clients : Serve(c) \/ Heartbeat(c) \/ Drop(c)
Spec == Init /\ [][Next]_allVars

-----------------------------------------------------------------------------
(* Fairness: the event loop resumes the task of the run and every generator, *)
(* the network delivers what is not lost, and a server that died is started  *)
(* again.  Nothing forces the heartbeat: the queue alone must wake a reader. *)

FairSpec == /\ Spec
            /\ WF_allVars(RunStep)
            /\ \A c \in Clients : WF_allVars(Serve(c))

-----------------------------------------------------------------------------
TypeOK ==
    /\ RunTypeOK
    /\ pc \in [Clients -> {"away", "yielding", "waiting", "returned", "closed"}]
    /\ cursor \in [Clients -> Nat] /\ upto \in [Clients -> Nat]
    /\ queue \in [Clients -> Seq(Nat \ {0})]
    /\ wire \in [Clients -> Seq(Nat \ {0})]
    /\ received \in [Clients -> Seq(Nat \ {0})]
    /\ drops \in 0..MaxDrops /\ lates \in 0..MaxLate /\ crashes \in 0..MaxCrashes

\* Whatever the queue loses and however often the connection breaks, a client
\* dispatches the events of the run from the first on, in order, each once.
GaplessDelivery ==
    \A c \in Clients :
        /\ Len(received[c]) <= Len(events)
        /\ \A i \in 1..Len(received[c]) : received[c][i] = i

\* A page that has closed its EventSource has the whole run: what it lacks was
\* appended by other requests.
ClosedHasAll ==
    \A c \in Clients : pc[c] = "closed" =>
        \A i \in 1..Len(events) : i > Len(received[c]) => events[i] = "late"

\* A reader waits for its queue only if it has sent everything, or its queue
\* holds something that will wake it.
NoLostWakeup ==
    \A c \in Clients : pc[c] = "waiting" /\ cursor[c] < Len(events) => queue[c] # <<>>

\* Once stream.end is in the log every client gets it, and closes.
Delivered == Ended /\ ~torn ~> torn \/ \A c \in Clients : pc[c] = "closed"

=============================================================================
