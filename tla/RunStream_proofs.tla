--------------------------- MODULE RunStream_proofs ---------------------------
(***************************************************************************)
(* Proofs about RunRecord and RunStream.  Of the record of a run: an active *)
(* status always has a task behind it, and the two action properties on     *)
(* which a client relies.  Of the clients that follow it: each dispatches   *)
(* the events from the first on, once and in order; one that has closed     *)
(* lacks nothing the run wrote; and a reader is never left waiting for an   *)
(* event that is already in the log.                                        *)
(***************************************************************************)
EXTENDS RunStream, SequenceTheorems, TLAPS

-----------------------------------------------------------------------------
(* The record of a run.                                                    *)

\* The status a task leaves in run.json, and the shape of the end of the log.
StatusOfTask ==
    /\ task = "created" => status = "queued"
    /\ task = "working" => status \in {"running", "stale"}
    /\ task \in {"closing", "gone"} => status \in Terminal
    /\ task = "lost" /\ up => status \in Terminal
    /\ ~up => task = "lost"

EndShape ==
    /\ \A i \in 1..Len(events) : events[i] = "stream.end" =>
         \A j \in 1..Len(events) : i < j => events[j] = "late"
    /\ Ended => task \in {"gone", "lost"} /\ status \in Terminal

RunIInv == RunTypeOK /\ StatusOfTask /\ EndShape

-----------------------------------------------------------------------------
\* What appending does to a sequence.
LEMMA AppendFacts ==
  ASSUME NEW S, NEW s \in Seq(S), NEW e \in S
  PROVE  /\ Append(s, e) \in Seq(S)
         /\ Len(Append(s, e)) = Len(s) + 1
         /\ \A i \in 1..Len(s) : Append(s, e)[i] = s[i]
         /\ Append(s, e)[Len(s) + 1] = e
OBVIOUS

LEMMA BurstFacts ==
  ASSUME NEW n \in Nat
  PROVE  /\ Burst(n) \in Seq(Types)
         /\ Len(Burst(n)) = n
         /\ \A i \in 1..n : Burst(n)[i] = "event"
BY DEF Burst, Types

\* What concatenation does to a sequence.
LEMMA ConcatFacts ==
  ASSUME NEW S, NEW s \in Seq(S), NEW t \in Seq(S)
  PROVE  /\ s \o t \in Seq(S)
         /\ Len(s \o t) = Len(s) + Len(t)
         /\ \A i \in 1..Len(s) : (s \o t)[i] = s[i]
         /\ \A i \in (Len(s) + 1)..(Len(s) + Len(t)) : (s \o t)[i] = t[i - Len(s)]
OBVIOUS

\* Every step keeps the events and adds a sequence of events: none, one of
\* another request, or what the task of the run writes.
Grows(added) ==
    /\ added \in Seq(Types)
    /\ events' = events \o added
    /\ \/ added = <<>>
       \/ added = <<"late">>
       \/ /\ \A i \in 1..Len(added) : added[i] # "stream.end"
          /\ task \notin {"gone", "lost"}
       \/ /\ added \in {<<"terminal", "stream.end">>, <<"stream.end">>}
          /\ task' = "gone" /\ status' \in Terminal

LEMMA AppendedIsConcat ==
  ASSUME NEW s \in Seq(Types), NEW e \in Types
  PROVE  Append(s, e) = s \o <<e>> /\ <<e>> \in Seq(Types) /\ s \o <<>> = s
OBVIOUS

LEMMA OneGrows ==
  ASSUME RunTypeOK, NEW e \in Types \ {"stream.end"}, events' = Append(events, e),
         task \notin {"gone", "lost"}
  PROVE  \E added : Grows(added)
<1>1. Len(<<e>>) = 1 /\ <<e>>[1] = e
  OBVIOUS
<1>2. \A i \in 1..Len(<<e>>) : <<e>>[i] # "stream.end"
  BY <1>1
<1>3. events' = events \o <<e>> /\ <<e>> \in Seq(Types)
  BY AppendedIsConcat DEF RunTypeOK
<1> QED BY <1>2, <1>3 DEF Grows

LEMMA BurstGrows ==
  ASSUME NEW n \in 1..MaxBurst, events' = events \o Burst(n), task \notin {"gone", "lost"}
  PROVE  \E added : Grows(added)
<1>1. n \in Nat
  BY RunRecordAssumption
<1>2. Burst(n) \in Seq(Types) /\ \A i \in 1..Len(Burst(n)) : Burst(n)[i] # "stream.end"
  BY <1>1, BurstFacts
<1> QED BY <1>2 DEF Grows

LEMMA Growth ==
  ASSUME RunTypeOK, StatusOfTask, [RunNext]_runVars
  PROVE  \E added : Grows(added)
<1> USE DEF RunTypeOK
<1>0. <<>> \in Seq(Types) /\ events \o <<>> = events
  OBVIOUS
<1>1. CASE UNCHANGED events
  BY <1>0, <1>1 DEF Grows
<1>2. CASE Open
  BY <1>2, OneGrows DEF Open, Types
<1>3. ASSUME NEW n \in 1..MaxBurst, Progress(n) PROVE \E added : Grows(added)
  BY <1>3, BurstGrows DEF Progress
<1>4. CASE Conclude
  <2>1. CASE events' = events \o <<"terminal", "stream.end">> /\ task' = "gone"
    <3>1. <<"terminal", "stream.end">> \in Seq(Types)
      BY DEF Types
    <3>2. status' \in Terminal
      BY <1>4 DEF Conclude, Outcomes, Terminal
    <3>3. Grows(<<"terminal", "stream.end">>)
      BY <2>1, <3>1, <3>2 DEF Grows
    <3> QED BY <3>3
  <2>2. CASE events' = Append(events, "terminal")
    BY <1>4, <2>2, OneGrows DEF Conclude, Types
  <2> QED BY <1>4, <2>1, <2>2 DEF Conclude
<1>5. CASE Finish
  <2>1. events' = events \o <<"stream.end">> /\ <<"stream.end">> \in Seq(Types)
    BY <1>5, AppendedIsConcat DEF Finish, Types
  <2>2. task' = "gone" /\ status' \in Terminal
    BY <1>5 DEF Finish, StatusOfTask
  <2>3. Grows(<<"stream.end">>)
    BY <2>1, <2>2 DEF Grows
  <2> QED BY <2>3
<1>6. CASE Late
  <2>1. events' = events \o <<"late">> /\ <<"late">> \in Seq(Types)
    BY <1>6, AppendedIsConcat DEF Late, Types
  <2> QED BY <2>1 DEF Grows
<1>7. CASE Crash
  <2>1. CASE task = "working"
    <3>1. ASSUME NEW n \in 1..MaxBurst, events' = events \o Burst(n)
          PROVE  \E added : Grows(added)
      BY <2>1, <3>1, BurstGrows
    <3>2. CASE events' = Append(events, "terminal")
      BY <2>1, <3>2, OneGrows DEF Types
    <3> QED BY <1>1, <1>7, <2>1, <3>1, <3>2 DEF Crash, PartlyWritten
  <2>2. CASE task # "working"
    BY <1>1, <1>7, <2>2 DEF Crash, PartlyWritten
  <2> QED BY <2>1, <2>2
<1>8. CASE Restart \/ UNCHANGED runVars
  BY <1>1, <1>8 DEF Restart, runVars
<1> QED BY <1>2, <1>3, <1>4, <1>5, <1>6, <1>7, <1>8 DEF RunNext

-----------------------------------------------------------------------------
\* The type of run.json, the log and the task.
LEMMA TypeAndStatusStep ==
  ASSUME RunTypeOK, StatusOfTask, [RunNext]_runVars
  PROVE  RunTypeOK' /\ StatusOfTask'
<1> USE DEF RunTypeOK, StatusOfTask
<1>1. events' \in Seq(Types)
  <2>1. PICK added : Grows(added)
    BY Growth
  <2> QED BY <2>1, ConcatFacts DEF Grows
<1>2. CASE Open \/ Finish \/ Late \/ Restart
  BY <1>1, <1>2 DEF Open, Finish, Late, Restart, RunStatuses, Terminal
<1>5. CASE Conclude
  BY <1>1, <1>5 DEF Conclude, RunStatuses, Terminal, Outcomes
<1>6. CASE UNCHANGED runVars
  BY <1>6 DEF runVars
<1>3. ASSUME NEW n \in 1..MaxBurst, Progress(n) PROVE RunTypeOK' /\ StatusOfTask'
  BY <1>1, <1>3 DEF Progress, RunStatuses, Terminal
<1>4. CASE Crash
  <2>1. status' \in RunStatuses
    BY <1>4 DEF Crash, PartlyWritten, Outcomes, RunStatuses, Terminal
  <2> QED BY <1>1, <1>4, <2>1, RunRecordAssumption DEF Crash
<1> QED BY <1>2, <1>3, <1>4, <1>5, <1>6 DEF RunNext

\* After stream.end there are only late events.
LEMMA EndShapeStep ==
  ASSUME RunIInv, [RunNext]_runVars
  PROVE  EndShape'
<1> USE DEF RunIInv, RunTypeOK
<1> DEFINE n == Len(events)
<1>1. PICK added : Grows(added)
  BY Growth
<1> DEFINE m == Len(added)
<1>2. /\ Len(events') = n + m /\ n \in Nat /\ m \in Nat
      /\ \A i \in 1..n : events'[i] = events[i]
      /\ \A i \in (n + 1)..(n + m) : events'[i] = added[i - n]
  BY <1>1, ConcatFacts DEF Grows
<1>3. Ended => task \in {"gone", "lost"}
  BY DEF EndShape
<1>4. Ended => added \in {<<>>, <<"late">>} /\ task' \in {"gone", "lost"} /\ status' = status
  <2> SUFFICES ASSUME Ended
               PROVE  /\ added \in {<<>>, <<"late">>}
                      /\ task' \in {"gone", "lost"} /\ status' = status
    OBVIOUS
  <2>1. task \in {"gone", "lost"} /\ status \in Terminal
    BY DEF EndShape
  <2>2. task' \in {"gone", "lost"} /\ status' = status
    BY <2>1 DEF RunNext, Open, Progress, Conclude, Finish, Late, Crash, Restart, runVars,
                PartlyWritten, Terminal
  <2>3. events' = events \/ events' = Append(events, "late")
    BY <2>1 DEF RunNext, Open, Progress, Conclude, Finish, Late, Crash, Restart, runVars,
                PartlyWritten
  <2>4. m = 0 \/ (m = 1 /\ added[1] = "late")
    <3>1. CASE events' = events
      BY <1>2, <3>1
    <3>2. CASE events' = Append(events, "late")
      <4>1. Len(events') = n + 1 /\ events'[n + 1] = "late"
        BY <3>2, AppendFacts DEF Types
      <4> HIDE DEF n, m
      <4>2. m = 1
        BY <1>2, <4>1
      <4>3. n + 1 \in (n + 1)..(n + m) /\ (n + 1) - n = 1
        BY <1>2, <4>2
      <4>4. events'[n + 1] = added[(n + 1) - n]
        BY <1>2, <4>3
      <4> QED BY <4>1, <4>2, <4>3, <4>4
    <3> QED BY <2>3, <3>1, <3>2
  <2> QED BY <1>1, <2>2, <2>4 DEF Grows
<1>5. CASE Ended
  <2>1. \A j \in (n + 1)..(n + m) : events'[j] = "late"
    BY <1>2, <1>4, <1>5
  <2>2. ASSUME NEW i \in 1..Len(events'), events'[i] = "stream.end",
               NEW j \in 1..Len(events'), i < j
        PROVE  events'[j] = "late"
    BY <1>2, <2>1, <2>2 DEF EndShape
  <2> QED BY <1>4, <1>5, <2>2 DEF EndShape
<1>6. CASE ~Ended
  <2>1. \A i \in 1..n : events'[i] # "stream.end"
    BY <1>2, <1>6 DEF Ended
  <2>2. CASE added = <<"terminal", "stream.end">>
    <3>1. m = 2 /\ added[1] = "terminal" /\ added[2] = "stream.end"
      BY <2>2
    <3> QED BY <1>1, <1>2, <2>1, <2>2, <3>1 DEF EndShape, Grows
  <2>3. CASE added = <<"stream.end">>
    <3>1. m = 1 /\ added[1] = "stream.end"
      BY <2>3
    <3> QED BY <1>1, <1>2, <2>1, <2>3, <3>1 DEF EndShape, Grows
  <2>4. CASE \A i \in 1..m : added[i] # "stream.end"
    <3>1. ~Ended'
      BY <1>2, <2>1, <2>4 DEF Ended
    <3> QED BY <3>1 DEF EndShape, Ended
  <2> QED BY <1>1, <2>2, <2>3, <2>4 DEF Grows
<1> QED BY <1>5, <1>6

LEMMA RunInvariant == RunSpec => []RunIInv
<1>1. RunInit => RunIInv
  <2> SUFFICES ASSUME RunInit PROVE RunIInv
    OBVIOUS
  <2>1. events = <<>> /\ Len(events) = 0 /\ events \in Seq(Types)
    BY DEF RunInit
  <2>2. ~Ended
    BY <2>1 DEF Ended
  <2>3. RunTypeOK /\ StatusOfTask
    BY <2>1 DEF RunInit, RunTypeOK, StatusOfTask, RunStatuses
  <2>4. EndShape
    BY <2>1, <2>2 DEF EndShape
  <2> QED BY <2>3, <2>4 DEF RunIInv
<1>2. RunIInv /\ [RunNext]_runVars => RunIInv'
  BY TypeAndStatusStep, EndShapeStep DEF RunIInv
<1> QED BY <1>1, <1>2, PTL DEF RunSpec

\* After any number of crashes and restarts, a run that run.json calls queued or
\* running has a task that works on it.
THEOREM ActiveRunsHaveTasks == RunSpec => []ActiveHasTask
<1>1. RunIInv => ActiveHasTask
  BY DEF RunIInv, RunTypeOK, StatusOfTask, ActiveHasTask, Terminal
<1> QED BY <1>1, RunInvariant, PTL

\* stream.end really is the end: the status is settled, and only other requests
\* append after it.
THEOREM StreamEndIsFinal == RunSpec => EndIsFinal
<1>1. ASSUME RunIInv, [RunNext]_runVars, Ended
      PROVE  status' = status /\ (events' = events \/ events' = Append(events, "late"))
  <2>1. task \in {"gone", "lost"} /\ status \in Terminal
    BY <1>1 DEF RunIInv, EndShape
  <2> QED
    BY <1>1, <2>1 DEF RunNext, Open, Progress, Conclude, Finish, Late, Crash, Restart,
       runVars, PartlyWritten, Terminal
<1>2. RunIInv /\ [RunNext]_runVars =>
        [Ended => /\ status' = status
                  /\ events' = events \/ events' = Append(events, "late")]_runVars
  BY <1>1
<1> QED BY <1>2, RunInvariant, PTL DEF RunSpec, EndIsFinal

\* What a client has read of a run stays true.
THEOREM HistoryGrows == RunSpec => HistoryOnlyGrows
<1>1. ASSUME RunIInv, [RunNext]_runVars
      PROVE  /\ status \in Terminal \ {"stale"} => status' = status
             /\ Len(events') >= Len(events)
             /\ SubSeq(events', 1, Len(events)) = events
  <2> USE DEF RunIInv, RunTypeOK
  <2>1. status \in Terminal \ {"stale"} => status' = status
    <3>1. status \in Terminal \ {"stale"} => task \in {"closing", "gone", "lost"}
      BY <1>1 DEF StatusOfTask, Terminal
    <3> QED
      BY <1>1, <3>1 DEF RunNext, Open, Progress, Conclude, Finish, Late, Crash, Restart,
         runVars, PartlyWritten, Terminal
  <2>2. PICK added : Grows(added)
    BY <1>1, Growth
  <2>3. /\ events' \in Seq(Types) /\ Len(events') >= Len(events)
        /\ \A i \in 1..Len(events) : events'[i] = events[i]
    <3>1. /\ events' \in Seq(Types) /\ Len(events') = Len(events) + Len(added)
          /\ \A i \in 1..Len(events) : events'[i] = events[i]
      BY <1>1, <2>2, ConcatFacts DEF Grows
    <3> QED BY <2>2, <3>1 DEF Grows
  <2>4. SubSeq(events', 1, Len(events)) = events
    <3>1. /\ SubSeq(events', 1, Len(events)) \in Seq(Types)
          /\ Len(SubSeq(events', 1, Len(events))) = Len(events)
          /\ \A i \in 1..Len(events) : SubSeq(events', 1, Len(events))[i] = events[i]
      BY <1>1, <2>3
    <3> QED BY <1>1, <3>1, SeqEqual
  <2> QED BY <2>1, <2>3, <2>4
<1>2. RunIInv /\ [RunNext]_runVars =>
        [/\ status \in Terminal \ {"stale"} => status' = status
         /\ Len(events') >= Len(events)
         /\ SubSeq(events', 1, Len(events)) = events]_runVars
  BY <1>1
<1> QED BY <1>2, RunInvariant, PTL DEF RunSpec, HistoryOnlyGrows

-----------------------------------------------------------------------------
(* The clients.                                                            *)

Connected(c) == pc[c] \in {"yielding", "waiting", "returned"}

\* received, wire and cursor are consecutive pieces of 1, 2, 3, ...
Consecutive(c) ==
    /\ \A i \in 1..Len(received[c]) : received[c][i] = i
    /\ \A i \in 1..Len(wire[c]) : wire[c][i] = Len(received[c]) + i
    /\ Len(received[c]) + Len(wire[c]) <= Len(events)
    /\ pc[c] \in {"away", "closed"} => wire[c] = <<>>
    /\ Connected(c) => /\ cursor[c] = Len(received[c]) + Len(wire[c])
                       /\ upto[c] <= Len(events)

\* The last event a closed client has dispatched.
ClosedByEnd(c) ==
    pc[c] = "closed" => /\ Len(received[c]) \in 1..Len(events)
                        /\ events[Len(received[c])] = "stream.end"

\* What the reader has not read is announced in its queue.
Woken(c) ==
    /\ pc[c] = "yielding" /\ upto[c] < Len(events) => queue[c] # <<>>
    /\ pc[c] = "waiting" /\ cursor[c] < Len(events) => queue[c] # <<>>

IInv == /\ TypeOK
        /\ RunIInv
        /\ \A c \in Clients : Consecutive(c) /\ ClosedByEnd(c) /\ Woken(c)

-----------------------------------------------------------------------------
\* Every step is a step of the run, or leaves it alone.
LEMMA StepOfRun == [Next]_allVars => [RunNext]_runVars
BY DEF Next, RunStep, RunProgress, LateStep, ServerCrash, Serve, Connect, Subscribe, ReadEvents,
       Yield, Drained, Wake, Heartbeat, Reread, Receive, Reopen, Drop, RunNext, allVars, runVars

\* The stream adds readers to a run and changes nothing of it.
THEOREM StreamImplementsRun == Spec => RunSpec
<1>1. Init => RunInit
  BY DEF Init
<1> QED BY <1>1, StepOfRun, PTL DEF Spec, RunSpec

LEMMA RunIInvAlways == Spec => []RunIInv
BY StreamImplementsRun, RunInvariant, PTL

\* The log of the next state extends the log.
LEMMA LogExtends ==
  ASSUME RunIInv, [RunNext]_runVars
  PROVE  /\ Len(events) \in Nat /\ Len(events') \in Nat /\ Len(events) <= Len(events')
         /\ \A i \in 1..Len(events) : events'[i] = events[i]
<1>1. PICK added : Grows(added)
  BY Growth DEF RunIInv
<1>2. /\ Len(events') = Len(events) + Len(added)
      /\ \A i \in 1..Len(events) : events'[i] = events[i]
  BY <1>1, ConcatFacts DEF Grows, RunIInv, RunTypeOK
<1> QED BY <1>1, <1>2 DEF Grows, RunIInv, RunTypeOK

\* A subscriber queue that is offered an event, or was not empty, is not empty.
LEMMA OfferedFacts ==
  ASSUME NEW q \in Seq(Nat \ {0}), Len(events) \in Nat, Len(events') \in Nat,
         Len(events) <= Len(events')
  PROVE  /\ Offered(q) \in Seq(Nat \ {0})
         /\ q # <<>> \/ Len(events) < Len(events') => Offered(q) # <<>>
<1> DEFINE new == [i \in 1..(Len(events') - Len(events)) |-> Len(events) + i]
           all == q \o new
<1>1. new \in Seq(Nat \ {0}) /\ Len(new) = Len(events') - Len(events)
  OBVIOUS
<1>2. all \in Seq(Nat \ {0}) /\ Len(all) = Len(q) + Len(new)
  BY <1>1, ConcatFacts
<1>3. QueueCap \in Nat \ {0}
  BY RunStreamAssumption
<1>4. CASE Len(all) <= QueueCap
  <2>1. Offered(q) = all
    BY <1>4 DEF Offered
  <2>2. q # <<>> \/ Len(events) < Len(events') => Len(all) # 0
    BY <1>1, <1>2
  <2> QED BY <1>2, <2>1, <2>2
<1>5. CASE ~(Len(all) <= QueueCap)
  <2> HIDE DEF all
  <2>1. Offered(q) = SubSeq(all, Len(all) - QueueCap + 1, Len(all))
    BY <1>5 DEF Offered, all
  <2>2. Len(all) \in Nat /\ Len(all) - QueueCap + 1 \in 1..Len(all)
    BY <1>2, <1>3, <1>5
  <2>3. /\ SubSeq(all, Len(all) - QueueCap + 1, Len(all)) \in Seq(Nat \ {0})
        /\ Len(SubSeq(all, Len(all) - QueueCap + 1, Len(all))) = QueueCap
    BY <1>2, <1>3, <2>2
  <2>4. Offered(q) \in Seq(Nat \ {0}) /\ Len(Offered(q)) # 0
    BY <1>3, <2>1, <2>3
  <2>5. Len(<<>>) = 0
    OBVIOUS
  <2> QED BY <2>4, <2>5
<1> QED BY <1>4, <1>5

-----------------------------------------------------------------------------
\* A step of the run lengthens the log and offers it to the connected readers.
LEMMA AnnounceStep ==
  ASSUME IInv, [RunNext]_runVars, Announce
  PROVE  /\ queue' \in [Clients -> Seq(Nat \ {0})]
         /\ \A c \in Clients : Consecutive(c)' /\ ClosedByEnd(c)' /\ Woken(c)'
<1>0. /\ TypeOK /\ RunIInv
      /\ \A c \in Clients : Consecutive(c) /\ ClosedByEnd(c) /\ Woken(c)
  BY DEF IInv
<1>1. /\ Len(events) \in Nat /\ Len(events') \in Nat /\ Len(events) <= Len(events')
      /\ \A i \in 1..Len(events) : events'[i] = events[i]
  BY <1>0, LogExtends
<1>2. /\ UNCHANGED <<pc, cursor, upto, wire, received>>
      /\ queue' = [c \in Clients |-> IF Subscribed(c) THEN Offered(queue[c]) ELSE queue[c]]
  BY DEF Announce
<1>3. ASSUME NEW c \in Clients
      PROVE  /\ queue'[c] \in Seq(Nat \ {0})
             /\ Subscribed(c) /\ (queue[c] # <<>> \/ Len(events) < Len(events')) => queue'[c] # <<>>
  BY <1>0, <1>1, <1>2, <1>3, OfferedFacts DEF TypeOK
<1>4. ASSUME NEW c \in Clients PROVE Consecutive(c)' /\ ClosedByEnd(c)'
  <2>1. Len(received[c]) \in Nat /\ Len(wire[c]) \in Nat /\ Consecutive(c) /\ ClosedByEnd(c)
    BY <1>0, <1>4 DEF TypeOK
  <2>2. received'[c] = received[c] /\ wire'[c] = wire[c] /\ pc'[c] = pc[c]
        /\ cursor'[c] = cursor[c] /\ upto'[c] = upto[c]
    BY <1>2
  <2>3. upto[c] \in Nat /\ cursor[c] \in Nat
    BY <1>0, <1>4 DEF TypeOK
  <2>4. Consecutive(c)'
    <3>1. /\ \A i \in 1..Len(received'[c]) : received'[c][i] = i
          /\ \A i \in 1..Len(wire'[c]) : wire'[c][i] = Len(received'[c]) + i
          /\ pc'[c] \in {"away", "closed"} => wire'[c] = <<>>
      BY <2>1, <2>2 DEF Consecutive
    <3>2. Len(received'[c]) + Len(wire'[c]) <= Len(events')
      <4>1. Len(received[c]) + Len(wire[c]) <= Len(events)
        BY <2>1 DEF Consecutive
      <4>2. Len(received'[c]) = Len(received[c]) /\ Len(wire'[c]) = Len(wire[c])
        BY <2>2
      <4>3. Len(events) \in Nat /\ Len(events') \in Nat /\ Len(events) <= Len(events')
        BY <1>1
      <4>4. Len(received[c]) \in Nat /\ Len(wire[c]) \in Nat
        BY <2>1
      <4>5. \A a, b, d, f \in Nat : a + b <= d /\ d <= f => a + b <= f
        OBVIOUS
      <4>6. Len(received[c]) + Len(wire[c]) <= Len(events')
        BY <4>1, <4>3, <4>4, <4>5
      <4> QED BY <4>2, <4>6
    <3>3. Connected(c)' => /\ cursor'[c] = Len(received'[c]) + Len(wire'[c])
                           /\ upto'[c] <= Len(events')
      <4>1. Connected(c) => cursor[c] = Len(received[c]) + Len(wire[c]) /\ upto[c] <= Len(events)
        BY <2>1 DEF Consecutive
      <4>2. Len(received'[c]) = Len(received[c]) /\ Len(wire'[c]) = Len(wire[c])
            /\ Connected(c)' = Connected(c)
        BY <2>2 DEF Connected
      <4>3. Len(events) \in Nat /\ Len(events') \in Nat /\ Len(events) <= Len(events')
        BY <1>1
      <4>4. upto[c] <= Len(events) => upto[c] <= Len(events')
        BY <2>3, <4>3
      <4> QED BY <2>2, <4>1, <4>2, <4>4
    <3> QED BY <3>1, <3>2, <3>3 DEF Consecutive
  <2>5. ClosedByEnd(c)'
    BY <1>1, <2>1, <2>2 DEF ClosedByEnd
  <2> QED BY <2>4, <2>5
<1>5. ASSUME NEW c \in Clients PROVE Woken(c)'
  <2>1. cursor[c] \in Nat /\ upto[c] \in Nat /\ Woken(c)
    BY <1>0, <1>5 DEF TypeOK
  <2> QED BY <1>1, <1>2, <1>3, <2>1 DEF Woken, Subscribed
<1> QED BY <1>2, <1>3, <1>4, <1>5

\* What is true of a client depends on its own variables only.
Mine(c) == <<pc[c], cursor[c], upto[c], wire[c], received[c], queue[c]>>

LEMMA OtherClient ==
  ASSUME IInv, NEW d \in Clients, events' = events, Mine(d)' = Mine(d)
  PROVE  Consecutive(d)' /\ ClosedByEnd(d)' /\ Woken(d)'
BY DEF IInv, Mine, Consecutive, Connected, ClosedByEnd, Woken

LEMMA ConnectStep ==
  ASSUME IInv, NEW c \in Clients, Connect(c)
  PROVE  Consecutive(c)' /\ ClosedByEnd(c)' /\ Woken(c)'
<1> USE DEF IInv, TypeOK
<1>1. wire[c] = <<>> /\ Len(received[c]) \in Nat /\ Len(wire[c]) = 0 /\ Len(events) \in Nat
  BY DEF Connect, Subscribe, ReadEvents, Consecutive, RunIInv, RunTypeOK
<1>2. LastEventId(c) = Len(received[c])
  <2> HIDE DEF IInv
  <2>1. Consecutive(c) /\ received[c] \in Seq(Nat \ {0})
    BY DEF IInv
  <2>2. CASE received[c] = <<>>
    BY <2>2 DEF LastEventId
  <2>3. CASE received[c] # <<>>
    <3>1. Len(received[c]) \in 1..Len(received[c])
      BY <2>1, <2>3
    <3> QED BY <2>1, <2>3, <3>1 DEF LastEventId, Consecutive
  <2> QED BY <2>2, <2>3
<1>3. /\ pc'[c] = "yielding" /\ cursor'[c] = Len(received[c]) /\ upto'[c] = Len(events)
      /\ wire' = wire /\ received' = received /\ events' = events
  BY <1>2 DEF Connect, Subscribe, ReadEvents, runVars
<1> QED BY <1>1, <1>3 DEF Consecutive, Connected, ClosedByEnd, Woken

LEMMA YieldStep ==
  ASSUME IInv, NEW c \in Clients, Yield(c)
  PROVE  Consecutive(c)' /\ ClosedByEnd(c)' /\ Woken(c)'
<1> USE DEF IInv, TypeOK
<1>1. /\ Len(received[c]) \in Nat /\ Len(wire[c]) \in Nat /\ Len(events) \in Nat
      /\ cursor[c] = Len(received[c]) + Len(wire[c]) /\ upto[c] <= Len(events)
      /\ cursor[c] < upto[c] /\ upto[c] \in Nat /\ cursor[c] \in Nat /\ pc[c] = "yielding"
  BY DEF Yield, Consecutive, Connected, RunIInv, RunTypeOK
<1>2. /\ cursor'[c] = cursor[c] + 1 /\ wire'[c] = Append(wire[c], cursor[c] + 1)
      /\ pc' = pc /\ upto' = upto /\ queue' = queue /\ received' = received /\ events' = events
  BY DEF Yield, runVars
<1>3. /\ Len(wire'[c]) = Len(wire[c]) + 1
      /\ \A i \in 1..Len(wire[c]) : wire'[c][i] = wire[c][i]
      /\ wire'[c][Len(wire[c]) + 1] = cursor[c] + 1
  BY <1>1, <1>2, AppendFacts
<1>4. cursor[c] + 1 = Len(received[c]) + (Len(wire[c]) + 1)
  <2> DEFINE n == Len(received[c])
             m == Len(wire[c])
             k == cursor[c]
  <2>1. n \in Nat /\ m \in Nat /\ k \in Nat /\ k = n + m
    BY <1>1
  <2> HIDE DEF n, m, k, IInv, TypeOK
  <2>2. k + 1 = n + (m + 1)
    BY <2>1
  <2> QED BY <2>2 DEF n, m, k
<1>5. Consecutive(c)'
  <2>1. Consecutive(c)
    OBVIOUS
  <2> HIDE DEF IInv, TypeOK
  <2>2. \A i \in 1..Len(wire'[c]) : wire'[c][i] = Len(received[c]) + i
    <3> SUFFICES ASSUME NEW i \in 1..Len(wire'[c]) PROVE wire'[c][i] = Len(received[c]) + i
      OBVIOUS
    <3>1. CASE i \in 1..Len(wire[c])
      BY <1>3, <2>1, <3>1 DEF Consecutive
    <3>2. CASE i = Len(wire[c]) + 1
      <4>1. wire'[c][i] = cursor[c] + 1
        BY <1>3, <3>2
      <4> QED BY <1>4, <3>2, <4>1
    <3> QED BY <1>1, <1>3, <3>1, <3>2
  <2>3. pc'[c] = "yielding" /\ cursor'[c] = Len(received[c]) + Len(wire'[c])
        /\ cursor'[c] <= Len(events)
    <3>1. cursor[c] + 1 <= Len(events)
      <4>1. \A a, b, d \in Nat : a < b /\ b <= d => a + 1 <= d
        OBVIOUS
      <4> QED BY <1>1, <4>1
    <3>2. Len(wire'[c]) = Len(wire[c]) + 1 /\ cursor'[c] = cursor[c] + 1 /\ pc'[c] = "yielding"
      BY <1>1, <1>2, <1>3
    <3> QED BY <1>4, <3>1, <3>2
  <2> QED BY <1>1, <1>2, <2>1, <2>2, <2>3 DEF Consecutive, Connected
<1> QED BY <1>1, <1>2, <1>5 DEF ClosedByEnd, Woken

LEMMA WaitStep ==
  ASSUME IInv, NEW c \in Clients, Drained(c) \/ Wake(c) \/ Heartbeat(c) \/ Reopen(c) \/ Drop(c)
  PROVE  Consecutive(c)' /\ ClosedByEnd(c)' /\ Woken(c)'
<1> USE DEF IInv, TypeOK
<1>1. /\ Len(received[c]) \in Nat /\ Len(wire[c]) \in Nat /\ Len(events) \in Nat
      /\ cursor[c] \in Nat /\ upto[c] \in Nat /\ Len(<<>>) = 0
  BY DEF RunIInv, RunTypeOK
<1>2. CASE Drained(c)
  <2>1. /\ events' = events /\ wire' = wire /\ received' = received
        /\ cursor' = cursor /\ upto' = upto /\ cursor[c] >= upto[c] /\ pc[c] = "yielding"
        /\ \/ pc'[c] = "returned"
           \/ pc'[c] = "waiting" /\ queue' = queue
    BY <1>2 DEF Drained, runVars
  <2>2. Consecutive(c)'
    BY <1>1, <2>1 DEF Consecutive, Connected
  <2>3. ClosedByEnd(c)' /\ Woken(c)'
    BY <1>1, <2>1 DEF Consecutive, Connected, ClosedByEnd, Woken
  <2> QED BY <2>2, <2>3
<1>3. CASE Wake(c) \/ Heartbeat(c)
  <2>1. /\ events' = events /\ wire' = wire /\ received' = received
        /\ cursor' = cursor /\ upto'[c] = Len(events) /\ pc[c] = "waiting"
        /\ pc'[c] = "yielding"
    BY <1>3 DEF Wake, Heartbeat, Reread, ReadEvents, runVars
  <2> QED BY <1>1, <2>1 DEF Consecutive, Connected, ClosedByEnd, Woken
<1>4. CASE Reopen(c) \/ Drop(c)
  <2>1. /\ events' = events /\ wire'[c] = <<>> /\ received' = received /\ pc'[c] = "away"
    BY <1>4 DEF Reopen, Drop, runVars
  <2> QED BY <1>1, <2>1 DEF Consecutive, Connected, ClosedByEnd, Woken
<1> QED BY <1>2, <1>3, <1>4

LEMMA ReceiveStep ==
  ASSUME IInv, NEW c \in Clients, Receive(c)
  PROVE  Consecutive(c)' /\ ClosedByEnd(c)' /\ Woken(c)'
<1> USE DEF IInv, TypeOK
<1> DEFINE n == Len(received[c])
           m == Len(wire[c])
           e == Head(wire[c])
<1>1. /\ n \in Nat /\ m \in Nat \ {0} /\ Len(events) \in Nat /\ n + m <= Len(events)
      /\ e = wire[c][1] /\ e = n + 1
      /\ wire[c] \in Seq(Nat \ {0}) /\ received[c] \in Seq(Nat \ {0})
  BY SMTT(20) DEF Receive, Consecutive, RunIInv, RunTypeOK
<1>2. /\ received'[c] = Append(received[c], e) /\ events' = events
      /\ cursor' = cursor /\ upto' = upto
      /\ \/ pc'[c] = "closed" /\ wire'[c] = <<>> /\ events[e] = "stream.end"
         \/ pc' = pc /\ queue' = queue /\ wire'[c] = Tail(wire[c])
  BY DEF Receive, runVars
<1>3. /\ Len(received'[c]) = n + 1
      /\ \A i \in 1..n : received'[c][i] = received[c][i]
      /\ received'[c][n + 1] = e
  BY <1>1, <1>2, AppendFacts
<1>4. /\ Len(Tail(wire[c])) = m - 1
      /\ \A i \in 1..(m - 1) : Tail(wire[c])[i] = wire[c][i + 1]
  BY <1>1
<1>5. \A i \in 1..(n + 1) : received'[c][i] = i
  <2>1. \A i \in 1..n : received[c][i] = i
    BY DEF Consecutive
  <2> HIDE DEF IInv, TypeOK, n, m, e
  <2> SUFFICES ASSUME NEW i \in 1..(n + 1) PROVE received'[c][i] = i
    OBVIOUS
  <2>2. CASE i \in 1..n
    BY <1>3, <2>1, <2>2
  <2>3. CASE i = n + 1
    BY <1>1, <1>3, <2>3
  <2> QED BY <1>1, <2>2, <2>3
<1>6. pc[c] \notin {"away", "closed"}
  BY <1>1 DEF Consecutive
<1>7. CASE pc'[c] = "closed" /\ wire'[c] = <<>> /\ events[e] = "stream.end"
  BY <1>1, <1>2, <1>3, <1>5, <1>7 DEF Consecutive, Connected, ClosedByEnd, Woken
<1>8. CASE pc' = pc /\ queue' = queue /\ wire'[c] = Tail(wire[c])
  <2>1. \A i \in 1..(m - 1) : wire'[c][i] = n + 1 + i
    BY <1>1, <1>4, <1>8 DEF Consecutive
  <2>2. Consecutive(c)'
    BY <1>1, <1>2, <1>3, <1>4, <1>5, <1>6, <1>8, <2>1 DEF Consecutive, Connected
  <2> QED BY <1>2, <1>6, <1>8, <2>2 DEF ClosedByEnd, Woken
<1> QED BY <1>2, <1>7, <1>8

-----------------------------------------------------------------------------
\* The steps of the run, as seen by the readers.
RunSide == \/ RunStep \/ LateStep
           \/ \E n \in 1..MaxBurst : RunProgress(n)

LEMMA RunSideFacts ==
  ASSUME RunSide
  PROVE  /\ Announce /\ UNCHANGED <<drops, crashes>>
         /\ lates' = lates \/ (lates < MaxLate /\ lates' = lates + 1)
<1>1. CASE RunStep
  BY <1>1 DEF RunStep, Announce
<1>2. CASE LateStep
  BY <1>2 DEF LateStep, Announce
<1>3. ASSUME NEW n \in 1..MaxBurst, RunProgress(n)
      PROVE  Announce /\ UNCHANGED <<drops, crashes>> /\ lates' = lates
  BY <1>3 DEF RunProgress, Announce
<1> QED BY <1>1, <1>2, <1>3 DEF RunSide

ClientStep(c) == Serve(c) \/ Heartbeat(c) \/ Drop(c)

LEMMA NextSplit == [Next]_allVars =>
    RunSide \/ ServerCrash \/ (\E c \in Clients : ClientStep(c)) \/ UNCHANGED allVars
BY DEF Next, RunSide, ClientStep

\* The variables of the readers keep their types.
LEMMA ReaderTypeStep ==
  ASSUME IInv, NEW c \in Clients, ClientStep(c)
  PROVE  TypeOK'
<1> USE DEF TypeOK
<1>0. TypeOK /\ RunTypeOK /\ RunStreamAssumption /\ Len(events) \in Nat
  BY RunStreamAssumption DEF IInv, RunTypeOK
<1> DEFINE Q == Seq(Nat \ {0})
<1>1. <<>> \in Q /\ \A q \in Q : q # <<>> => Tail(q) \in Q /\ Head(q) \in Nat \ {0}
  OBVIOUS
<1>2. \A q \in Q : \A e \in Nat \ {0} : Append(q, e) \in Q
  OBVIOUS
<1>3. LastEventId(c) \in Nat
  <2>1. received[c] \in Q
    BY <1>0
  <2>2. received[c] # <<>> => received[c][Len(received[c])] \in Nat
    BY <2>1
  <2> QED BY <2>2 DEF LastEventId
<1> HIDE DEF Q
<1>4. /\ queue[c] \in Q /\ wire[c] \in Q /\ received[c] \in Q
      /\ queue \in [Clients -> Q] /\ wire \in [Clients -> Q] /\ received \in [Clients -> Q]
      /\ cursor[c] \in Nat /\ cursor[c] + 1 \in Nat \ {0}
  BY <1>0 DEF Q
<1>5. CASE Connect(c) \/ Drained(c) \/ Reopen(c)
  <2>1. RunTypeOK' /\ wire' \in [Clients -> Q] /\ received' \in [Clients -> Q]
        /\ UNCHANGED counters
    BY <1>0, <1>4, <1>5 DEF Connect, Subscribe, ReadEvents, Drained, Reopen, RunTypeOK, runVars
  <2>2. queue' \in [Clients -> Q]
    BY <1>1, <1>4, <1>5 DEF Connect, Subscribe, ReadEvents, Drained, Reopen
  <2>3. cursor' \in [Clients -> Nat] /\ upto' \in [Clients -> Nat]
    BY <1>0, <1>3, <1>5 DEF Connect, ReadEvents, Drained, Reopen
  <2>4. pc' \in [Clients -> {"away", "yielding", "waiting", "returned", "closed"}]
    BY <1>0, <1>5 DEF Connect, Drained, Reopen
  <2> QED BY <1>0, <2>1, <2>2, <2>3, <2>4 DEF Q, counters
<1>6. CASE Yield(c)
  <2>1. RunTypeOK' /\ wire' \in [Clients -> Q]
    BY <1>0, <1>2, <1>4, <1>6 DEF Yield, RunTypeOK, runVars
  <2> QED BY <1>0, <1>4, <1>6, <2>1 DEF Yield, Q, counters
<1>7. CASE Wake(c) \/ Heartbeat(c)
  <2>1. RunTypeOK' /\ queue' \in [Clients -> Q]
    BY <1>0, <1>1, <1>4, <1>7 DEF Wake, Heartbeat, Reread, ReadEvents, RunTypeOK, runVars
  <2> QED BY <1>0, <1>7, <2>1 DEF Wake, Heartbeat, Reread, ReadEvents, Q, counters
<1>8. CASE Receive(c)
  <2>1. RunTypeOK' /\ UNCHANGED <<cursor, upto, counters>>
    BY <1>0, <1>8 DEF Receive, RunTypeOK, runVars
  <2>2. /\ queue' \in [Clients -> Q] /\ wire' \in [Clients -> Q]
        /\ received' \in [Clients -> Q]
    BY <1>1, <1>2, <1>4, <1>8 DEF Receive
  <2>3. pc' \in [Clients -> {"away", "yielding", "waiting", "returned", "closed"}]
    BY <1>0, <1>8 DEF Receive
  <2> QED BY <1>0, <2>1, <2>2, <2>3 DEF Q, counters
<1>9. CASE Drop(c)
  <2>1. RunTypeOK' /\ wire' \in [Clients -> Q] /\ queue' \in [Clients -> Q]
    BY <1>0, <1>1, <1>4, <1>9 DEF Drop, RunTypeOK, runVars
  <2>2. drops' \in 0..MaxDrops
    BY <1>0, <1>9 DEF Drop, RunStreamAssumption
  <2> QED BY <1>0, <1>9, <2>1, <2>2 DEF Drop, Q
<1> QED BY <1>5, <1>6, <1>7, <1>8, <1>9 DEF ClientStep, Serve

\* A step of a reader keeps what is true of it, and touches no other reader.
LEMMA ReaderStep ==
  ASSUME IInv, NEW c \in Clients, ClientStep(c)
  PROVE  \A d \in Clients : Consecutive(d)' /\ ClosedByEnd(d)' /\ Woken(d)'
<1>1. Consecutive(c)' /\ ClosedByEnd(c)' /\ Woken(c)'
  BY ConnectStep, YieldStep, WaitStep, ReceiveStep DEF ClientStep, Serve
<1>2. ASSUME NEW d \in Clients, d # c
      PROVE  Consecutive(d)' /\ ClosedByEnd(d)' /\ Woken(d)'
  <2>1. events' = events /\ Mine(d)' = Mine(d)
    BY <1>2 DEF ClientStep, Serve, Connect, Subscribe, ReadEvents, Yield, Drained,
       Wake, Heartbeat, Reread, Receive, Reopen, Drop, Mine, runVars, IInv, TypeOK
  <2> QED BY <1>2, <2>1, OtherClient
<1> QED BY <1>1, <1>2

\* A crash of the server cuts every connection.
LEMMA CrashStep ==
  ASSUME IInv, ServerCrash, RunIInv'
  PROVE  IInv'
<1>1. [RunNext]_runVars
  BY DEF ServerCrash, RunNext
<1>2. /\ Len(events) \in Nat /\ Len(events') \in Nat /\ Len(events) <= Len(events')
      /\ \A i \in 1..Len(events) : events'[i] = events[i]
  BY <1>1, LogExtends DEF IInv
<1>3. TypeOK'
  <2>1. <<>> \in Seq(Nat \ {0}) /\ RunTypeOK'
    BY DEF RunIInv
  <2>2. crashes' \in 0..MaxCrashes
    BY RunStreamAssumption DEF IInv, TypeOK, ServerCrash
  <2>3. pc' \in [Clients -> {"away", "yielding", "waiting", "returned", "closed"}]
    BY DEF ServerCrash
  <2> QED BY <2>1, <2>2, <2>3 DEF IInv, TypeOK, ServerCrash
<1>4. ASSUME NEW c \in Clients PROVE Consecutive(c)' /\ ClosedByEnd(c)' /\ Woken(c)'
  <2>1. /\ Len(received[c]) \in Nat /\ Len(wire[c]) \in Nat /\ Len(<<>>) = 0
        /\ Consecutive(c) /\ ClosedByEnd(c)
    BY DEF IInv, TypeOK
  <2>2. /\ received'[c] = received[c] /\ wire'[c] = <<>>
        /\ pc'[c] = IF pc[c] = "closed" THEN "closed" ELSE "away"
    BY DEF ServerCrash
  <2>3. Len(received[c]) <= Len(events)
    <3>1. \A a, b, d \in Nat : a + b <= d => a <= d
      OBVIOUS
    <3> QED BY <1>2, <2>1, <3>1 DEF Consecutive
  <2>4. Len(received[c]) <= Len(events')
    BY <1>2, <2>1, <2>3
  <2>5. Consecutive(c)'
    <3>1. Len(received'[c]) + Len(wire'[c]) <= Len(events')
      <4>1. Len(received'[c]) = Len(received[c]) /\ Len(wire'[c]) = 0
        BY <2>1, <2>2
      <4>2. Len(received[c]) + 0 <= Len(events')
        BY <2>1, <2>4
      <4> QED BY <4>1, <4>2
    <3>2. /\ \A i \in 1..Len(received'[c]) : received'[c][i] = i
          /\ \A i \in 1..Len(wire'[c]) : wire'[c][i] = Len(received'[c]) + i
          /\ ~Connected(c)'
      BY <2>1, <2>2 DEF Consecutive, Connected
    <3> QED BY <2>2, <3>1, <3>2 DEF Consecutive
  <2>6. ClosedByEnd(c)'
    BY <1>2, <2>1, <2>2 DEF ClosedByEnd
  <2> QED BY <2>2, <2>5, <2>6 DEF Woken
<1> QED BY <1>3, <1>4 DEF IInv

LEMMA NextIInv == IInv /\ RunIInv' /\ [Next]_allVars => IInv'
<1> SUFFICES ASSUME IInv, RunIInv', [Next]_allVars PROVE IInv'
  OBVIOUS
<1>1. CASE RunSide
  <2>1. [RunNext]_runVars
    BY StepOfRun
  <2>2. Announce /\ drops' = drops /\ crashes' = crashes
        /\ (lates' = lates \/ (lates < MaxLate /\ lates' = lates + 1))
    BY <1>1, RunSideFacts
  <2>3. /\ queue' \in [Clients -> Seq(Nat \ {0})]
        /\ \A c \in Clients : Consecutive(c)' /\ ClosedByEnd(c)' /\ Woken(c)'
    BY <2>1, <2>2, AnnounceStep
  <2>4. lates' \in 0..MaxLate
    BY <2>2, RunStreamAssumption DEF IInv, TypeOK
  <2>5. TypeOK'
    BY <2>2, <2>3, <2>4 DEF IInv, RunIInv, TypeOK, Announce
  <2> QED BY <2>3, <2>5 DEF IInv
<1>2. CASE ServerCrash
  BY <1>2, CrashStep
<1>3. CASE \E c \in Clients : ClientStep(c)
  BY <1>3, ReaderTypeStep, ReaderStep DEF IInv
<1>4. CASE UNCHANGED allVars
  <2>1. TypeOK'
    BY <1>4 DEF IInv, TypeOK, RunTypeOK, allVars, runVars, streamVars, counters
  <2>2. \A c \in Clients : events' = events /\ Mine(c)' = Mine(c)
    BY <1>4 DEF Mine, allVars, runVars, streamVars
  <2> QED BY <2>1, <2>2, OtherClient DEF IInv
<1> QED BY <1>1, <1>2, <1>3, <1>4, NextSplit

LEMMA StreamInvariant == Spec => []IInv
<1>1. Init /\ RunIInv => IInv
  <2> SUFFICES ASSUME Init, RunIInv PROVE IInv
    OBVIOUS
  <2>1. <<>> \in Seq(Nat \ {0}) /\ Len(<<>>) = 0 /\ events = <<>> /\ Len(events) = 0
    BY DEF Init, RunInit
  <2>2. TypeOK
    BY <2>1, RunStreamAssumption DEF Init, StreamInit, TypeOK, RunIInv
  <2>3. \A c \in Clients : Consecutive(c) /\ ClosedByEnd(c) /\ Woken(c)
    BY <2>1 DEF Init, StreamInit, Consecutive, Connected, ClosedByEnd, Woken
  <2> QED BY <2>2, <2>3 DEF IInv
<1> QED BY <1>1, NextIInv, RunIInvAlways, PTL DEF Spec

-----------------------------------------------------------------------------
\* Every reader's queue, cursor and batch have their types.
THEOREM StreamTypes == Spec => []TypeOK
<1>1. IInv => TypeOK
  BY DEF IInv
<1> QED BY <1>1, StreamInvariant, PTL

\* For any number of readers, queues of any capacity and any number of lost
\* connections and crashes: nothing is skipped, repeated or reordered.
THEOREM DeliveryIsGapless == Spec => []GaplessDelivery
<1>1. ASSUME IInv, NEW c \in Clients
      PROVE  /\ Len(received[c]) <= Len(events)
             /\ \A i \in 1..Len(received[c]) : received[c][i] = i
  <2>1. /\ Len(received[c]) \in Nat /\ Len(wire[c]) \in Nat /\ Len(events) \in Nat
        /\ Consecutive(c)
    BY <1>1 DEF IInv, TypeOK, RunIInv, RunTypeOK
  <2>2. \A a, b, d \in Nat : a + b <= d => a <= d
    OBVIOUS
  <2> QED BY <2>1, <2>2 DEF Consecutive
<1>2. IInv => GaplessDelivery
  BY <1>1 DEF GaplessDelivery
<1> QED BY <1>2, StreamInvariant, PTL

\* A page that stopped listening has the whole run.
THEOREM ClosedPagesAreComplete == Spec => []ClosedHasAll
<1>1. ASSUME IInv, NEW c \in Clients, pc[c] = "closed",
             NEW i \in 1..Len(events), i > Len(received[c])
      PROVE  events[i] = "late"
  BY <1>1 DEF IInv, ClosedByEnd, RunIInv, EndShape
<1>2. IInv => ClosedHasAll
  BY <1>1 DEF ClosedHasAll
<1> QED BY <1>2, StreamInvariant, PTL

\* No reader sleeps on an empty queue while the log holds events it has not sent.
THEOREM WakeupsAreNotLost == Spec => []NoLostWakeup
<1>1. IInv => NoLostWakeup
  BY DEF IInv, Woken, NoLostWakeup
<1> QED BY <1>1, StreamInvariant, PTL
=============================================================================
