---------------------------- MODULE DagExecution ----------------------------
(***************************************************************************)
(* What a caller of WorkflowScheduler.execute may rely on, whatever the    *)
(* workers, the queue, the locks and the cancellation do: a stage is       *)
(* entered at most once, after every dependency has a result; no more than *)
(* Limit stages are in their runner at a time; and two stages of the same  *)
(* serialised effect are never in their runners together.                  *)
(***************************************************************************)
EXTENDS Integers, FiniteSets

CONSTANTS Stages,      \* the stage ids
          Serialised,  \* the effects the scheduler serialises
          Limit        \* max_concurrency

VARIABLES deps,        \* [Stages -> SUBSET Stages], an input
          effect,      \* the effect of each stage, an input
          entered,     \* the stages whose runner was ever called
          running,     \* the stages whose runner is being executed
          done         \* the stages that have a result

dagVars == <<deps, effect, entered, running, done>>

Init == /\ entered = {}
        /\ running = {}
        /\ done = {}

Clash(s, t) == effect[s] = effect[t] /\ effect[s] \in Serialised

Enter(s) == /\ s \notin entered
            /\ deps[s] \subseteq done
            /\ Cardinality(running) < Limit
            /\ \A t \in running : ~Clash(s, t)
            /\ entered' = entered \cup {s}
            /\ running' = running \cup {s}
            /\ UNCHANGED <<deps, effect, done>>

Finish(s) == /\ s \in running
             /\ running' = running \ {s}
             /\ done' = done \cup {s}
             /\ UNCHANGED <<deps, effect, entered>>

\* The runner raised, or its worker was cancelled: the stage has no result.
Drop(s) == /\ s \in running
           /\ running' = running \ {s}
           /\ UNCHANGED <<deps, effect, entered, done>>

Next == \E s \in Stages : Enter(s) \/ Finish(s) \/ Drop(s)

Spec == Init /\ [][Next]_dagVars
=============================================================================
