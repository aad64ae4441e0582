-------------------------- MODULE TaskRuntime_proofs --------------------------
(***************************************************************************)
(* Proofs about TaskRuntime, for any number of requests and clients: no     *)
(* search is abandoned, and nobody moves a task he has not seen.            *)
(***************************************************************************)
EXTENDS TaskRuntime, TLAPS

\* There is a task once the creation has begun, and only then work on it.
TaskBegins ==
    /\ row.version = 0 <=> creator = "none"
    /\ lock # None => up /\ row.version > 0
    /\ row.version = 0 => row.status = "backlog"

\* What the holder of the lock has checked stays true until it writes.
HolderChecked ==
    \A c \in Clients : lock = c =>
        /\ seen[c].version = row.version
        /\ target \in Statuses
        /\ target \in Gated => row.context \in ValidContexts

\* A context a client that is up to date may have seen.
AsSeen(c) ==
    /\ seen[c].status = row.status
    /\ seen[c].context \in {row.context}
         \cup (IF row.context = "failed" THEN {"searching", "pending"} ELSE {})

\* A client that has the version of the row has its status, and its context
\* unless a restart has changed it.
VersionIdentifies ==
    \A c \in Clients :
        /\ seen[c].version \in 0..row.version
        /\ seen[c].version > 0 /\ seen[c].version = row.version => AsSeen(c)

TaskIInv ==
    TypeOK /\ SearchHasWorker /\ PackAgrees /\ TaskBegins /\ HolderChecked /\ VersionIdentifies

-----------------------------------------------------------------------------
LEMMA TaskInitInv == Init => TaskIInv
<1> SUFFICES ASSUME Init PROVE TaskIInv
  OBVIOUS
<1>1. NoRow \in Rows /\ NoRow.version = 0 /\ NoRow.status = "backlog" /\ NoRow.pack = FALSE /\ NoRow.context = "pending"
  BY DEF NoRow, Rows, Statuses, Contexts
<1>2. TypeOK
  BY <1>1, TaskAssumption DEF Init, TypeOK
<1>3. SearchHasWorker /\ PackAgrees /\ TaskBegins
  BY <1>1 DEF Init, SearchHasWorker, PackAgrees, TaskBegins
<1>4. HolderChecked
  BY TaskAssumption DEF Init, HolderChecked
<1>5. VersionIdentifies
  BY <1>1 DEF Init, VersionIdentifies
<1> QED
  BY <1>2, <1>3, <1>4, <1>5 DEF TaskIInv

\* What the writes do to the row.
LEMMA SetContextRow ==
  ASSUME row \in Rows, NEW context \in Contexts, NEW pack \in BOOLEAN, SetContext(context, pack)
  PROVE  /\ row' \in Rows
         /\ row'.status = row.status /\ row'.context = context /\ row'.pack = pack
         /\ row'.version = row.version + 1
<1> DEFINE next == row.version + 1
<1>1. next \in Nat
  BY DEF Rows
<1>2. row' = [row EXCEPT !.context = context, !.pack = pack, !.version = next]
  BY DEF SetContext
<1> HIDE DEF next
<1>3. row' \in Rows /\ row'.version = next
      /\ row'.status = row.status /\ row'.context = context /\ row'.pack = pack
  BY <1>1, <1>2 DEF Rows
<1> QED
  BY <1>3 DEF next

LEMMA TransitionRow ==
  ASSUME row \in Rows, target \in Statuses,
         row' = [row EXCEPT !.status = target, !.version = @ + 1]
  PROVE  /\ row' \in Rows
         /\ row'.status = target /\ row'.context = row.context /\ row'.pack = row.pack
         /\ row'.version = row.version + 1
<1> DEFINE next == row.version + 1
<1>1. next \in Nat
  BY DEF Rows
<1>2. row' = [row EXCEPT !.status = target, !.version = next]
  OBVIOUS
<1> HIDE DEF next
<1>3. row' \in Rows /\ row'.version = next
      /\ row'.status = target /\ row'.context = row.context /\ row'.pack = row.pack
  BY <1>1, <1>2 DEF Rows
<1> QED
  BY <1>3 DEF next

LEMMA RestartRow ==
  ASSUME row \in Rows, Restart
  PROVE  /\ row' \in Rows
         /\ row'.status = row.status /\ row'.pack = row.pack /\ row'.version = row.version
         /\ row'.context = IF row.version > 0 /\ row.context \in {"searching", "pending"}
                           THEN "failed" ELSE row.context
BY DEF Restart, Rows, Contexts

LEMMA CreateRow ==
  ASSUME Create
  PROVE  /\ row' \in Rows
         /\ row'.context = "pending" /\ row'.pack = FALSE /\ row'.version = 1
BY DEF Create, NoRow, Rows, Statuses, Contexts

\* A new version is one that nobody has seen.
LEMMA NewVersion ==
  ASSUME TypeOK, VersionIdentifies, row' \in Rows, row'.version = row.version + 1, seen' = seen
  PROVE  VersionIdentifies'
<1> SUFFICES ASSUME NEW c \in Clients
             PROVE  /\ seen[c].version \in 0..row'.version
                    /\ seen[c].version # row'.version
  BY DEF VersionIdentifies
<1>1. row.version \in Nat /\ seen[c].version \in 0..row.version
  BY DEF TypeOK, Rows, VersionIdentifies
<1> QED
  BY <1>1

\* When neither the row nor what has been seen changes, neither does this.
LEMMA SameVersion ==
  ASSUME VersionIdentifies, row' = row, seen' = seen
  PROVE  VersionIdentifies'
BY DEF VersionIdentifies, AsSeen

-----------------------------------------------------------------------------
\* The thread of an assembly: it begins, finds a context there, or ends.
LEMMA AssembleStep ==
  ASSUME TaskIInv, NEW a \in Assemblers, NEW force \in BOOLEAN,
         Assemble(a, force)
  PROVE  TaskIInv'
<1>1. row \in Rows /\ row.version \in Nat /\ up /\ row.version > 0
  <2>1. row \in Rows /\ row.version \in Nat /\ up
    BY DEF TaskIInv, TypeOK, Rows, Assemble
  <2>2. row.version # 0
    BY <2>1 DEF TaskIInv, TaskBegins, Assemble, MayAssemble
  <2> QED
    BY <2>1, <2>2
<1>2. /\ row' \in Rows
      /\ row'.status = row.status /\ row'.context = "searching" /\ row'.pack = FALSE
      /\ row'.version = row.version + 1
  BY <1>1, SetContextRow DEF Assemble, Contexts
<1>3. /\ lock' = a /\ a \notin Clients /\ a # None
      /\ UNCHANGED <<seen, target, up, crashes>>
      /\ creator' \in {creator, "fired"} /\ creator # "none"
  BY <1>1, TaskAssumption DEF Assemble, Assemblers, TimerUsed, TaskIInv, TaskBegins
<1>4. TypeOK'
  BY <1>2, <1>3 DEF TaskIInv, TypeOK
<1>5. (SearchHasWorker /\ PackAgrees /\ TaskBegins)'
  BY <1>1, <1>2, <1>3 DEF SearchHasWorker, PackAgrees, TaskBegins
<1>6. HolderChecked'
  BY <1>3 DEF HolderChecked
<1>7. VersionIdentifies'
  BY <1>2, <1>3, NewVersion DEF TaskIInv
<1> QED
  BY <1>4, <1>5, <1>6, <1>7 DEF TaskIInv

LEMMA AssembleNothingStep ==
  ASSUME TaskIInv, NEW a \in Assemblers, AssembleNothing(a)
  PROVE  TaskIInv'
<1>1. /\ UNCHANGED <<row, lock, seen, target, up, crashes>>
      /\ creator' \in {creator, "fired"}
  BY DEF AssembleNothing, TimerUsed, MayAssemble
<1>2. row.context \in {"ready", "gap"} /\ creator # "none"
  BY DEF AssembleNothing, MayAssemble, ValidContexts, TaskIInv, TaskBegins
<1>3. TypeOK'
  BY <1>1 DEF TaskIInv, TypeOK
<1>4. (SearchHasWorker /\ PackAgrees /\ TaskBegins /\ HolderChecked)'
  BY <1>1, <1>2 DEF TaskIInv, SearchHasWorker, PackAgrees, TaskBegins, HolderChecked
<1>5. VersionIdentifies'
  BY <1>1, SameVersion DEF TaskIInv
<1> QED
  BY <1>3, <1>4, <1>5 DEF TaskIInv

\* What Assembled stores: a pack exactly with the status ready.
LEMMA AssembledCases ==
  ASSUME NEW a, Assembled(a)
  PROVE  SetContext("ready", TRUE) \/ SetContext("gap", FALSE) \/ SetContext("failed", FALSE)
<1>1. CASE SetContext("failed", FALSE)
  BY <1>1
<1>2. ASSUME NEW found \in BuildContext, SetContext(found.context, found.pack)
      PROVE  SetContext("ready", TRUE) \/ SetContext("gap", FALSE)
  <2>1. CASE found = [context |-> "ready", pack |-> TRUE]
    <3>1. found.context = "ready" /\ found.pack = TRUE
      BY <2>1
    <3> QED BY <1>2, <3>1
  <2>2. CASE found = [context |-> "gap", pack |-> FALSE]
    <3>1. found.context = "gap" /\ found.pack = FALSE
      BY <2>2
    <3> QED BY <1>2, <3>1
  <2> QED BY <2>1, <2>2 DEF BuildContext
<1> QED BY <1>1, <1>2 DEF Assembled

LEMMA AssembledStep ==
  ASSUME TaskIInv, NEW a \in Assemblers, Assembled(a)
  PROVE  TaskIInv'
<1>1. /\ row \in Rows /\ row.version \in Nat /\ lock = a /\ lock # None
      /\ lock' = None /\ UNCHANGED <<creator, seen, target, up, crashes>>
  BY TaskAssumption DEF TaskIInv, TypeOK, Rows, Assembled, Assemblers
<1>2. PICK context \in {"ready", "gap", "failed"} : SetContext(context, context = "ready")
  <2>1. CASE SetContext("ready", TRUE)
    BY <2>1 DEF SetContext
  <2>2. CASE SetContext("gap", FALSE)
    BY <2>2 DEF SetContext
  <2>3. CASE SetContext("failed", FALSE)
    BY <2>3 DEF SetContext
  <2> QED
    BY <2>1, <2>2, <2>3, AssembledCases
<1>3. /\ row' \in Rows
      /\ row'.context = context /\ (row'.pack <=> context = "ready")
      /\ row'.version = row.version + 1
  BY <1>1, <1>2, SetContextRow DEF Contexts
<1>4. TypeOK'
  BY <1>1, <1>3 DEF TaskIInv, TypeOK
<1>5. (SearchHasWorker /\ PackAgrees /\ TaskBegins)'
  BY <1>1, <1>2, <1>3 DEF TaskIInv, SearchHasWorker, PackAgrees, TaskBegins
<1>6. HolderChecked'
  BY <1>1, TaskAssumption DEF HolderChecked
<1>7. VersionIdentifies'
  BY <1>1, <1>3, NewVersion DEF TaskIInv
<1> QED
  BY <1>4, <1>5, <1>6, <1>7 DEF TaskIInv

-----------------------------------------------------------------------------
\* What the clients do.
LEMMA ReadStep ==
  ASSUME TaskIInv, NEW c \in Clients, Read(c)
  PROVE  TaskIInv'
<1>1. /\ UNCHANGED <<row, lock, creator, target, up, crashes>>
      /\ row \in Rows /\ row.version \in Nat /\ seen \in [Clients -> Rows]
      /\ seen' = [seen EXCEPT ![c] = row]
  BY DEF TaskIInv, TypeOK, Rows, Read
<1>2. \A d \in Clients : seen'[d] = IF d = c THEN row ELSE seen[d]
  BY <1>1
<1>3. TypeOK'
  BY <1>1 DEF TaskIInv, TypeOK
<1>4. (SearchHasWorker /\ PackAgrees /\ TaskBegins)'
  BY <1>1 DEF TaskIInv, SearchHasWorker, PackAgrees, TaskBegins
<1>5. HolderChecked'
  BY <1>1, <1>2 DEF TaskIInv, HolderChecked
<1>6. VersionIdentifies'
  BY <1>1, <1>2 DEF TaskIInv, VersionIdentifies, AsSeen
<1> QED
  BY <1>3, <1>4, <1>5, <1>6 DEF TaskIInv

LEMMA CheckTransitionStep ==
  ASSUME TaskIInv, NEW c \in Clients, NEW s \in Statuses, CheckTransition(c, s)
  PROVE  TaskIInv'
<1>1. /\ UNCHANGED <<row, creator, seen, up, crashes>>
      /\ up /\ lock = None /\ lock' = c /\ target' = s /\ row.version > 0
      /\ seen[c].version = row.version
      /\ s \in Gated => row.context \in ValidContexts
  BY TaskAssumption DEF CheckTransition, TaskIInv, TypeOK, Rows
<1>2. c \notin Assemblers /\ None \notin Assemblers
  BY TaskAssumption DEF Assemblers
<1>3. TypeOK'
  BY <1>1 DEF TaskIInv, TypeOK
<1>4. (SearchHasWorker /\ PackAgrees /\ TaskBegins /\ HolderChecked)'
  BY <1>1, <1>2 DEF TaskIInv, SearchHasWorker, PackAgrees, TaskBegins, HolderChecked
<1>5. VersionIdentifies'
  BY <1>1, SameVersion DEF TaskIInv
<1> QED
  BY <1>3, <1>4, <1>5 DEF TaskIInv

LEMMA TransitionStep ==
  ASSUME TaskIInv, NEW c \in Clients, Transition(c)
  PROVE  TaskIInv'
<1>1. /\ row \in Rows /\ row.version \in Nat /\ lock = c /\ lock # None /\ lock \notin Assemblers
      /\ lock' = None /\ target' = None /\ UNCHANGED <<creator, seen, up, crashes>>
      /\ target \in Statuses
  BY TaskAssumption DEF TaskIInv, TypeOK, Rows, Transition, Assemblers, HolderChecked
<1>2. /\ row' \in Rows
      /\ row'.status = target /\ row'.context = row.context /\ row'.pack = row.pack
      /\ row'.version = row.version + 1
  BY <1>1, TransitionRow DEF Transition
<1>3. TypeOK'
  BY <1>1, <1>2 DEF TaskIInv, TypeOK
<1>4. (SearchHasWorker /\ PackAgrees /\ TaskBegins)'
  BY <1>1, <1>2 DEF TaskIInv, SearchHasWorker, PackAgrees, TaskBegins
<1>5. HolderChecked'
  BY <1>1, TaskAssumption DEF HolderChecked
<1>6. VersionIdentifies'
  BY <1>1, <1>2, NewVersion DEF TaskIInv
<1> QED
  BY <1>3, <1>4, <1>5, <1>6 DEF TaskIInv

-----------------------------------------------------------------------------
\* Creation, the timer, the death of the service and its next start.
LEMMA CreateStep == TaskIInv /\ Create => TaskIInv'
<1> SUFFICES ASSUME TaskIInv, Create PROVE TaskIInv'
  OBVIOUS
<1>1. /\ row.version = 0 /\ lock = None /\ lock' = None /\ creator' = "inserted"
      /\ UNCHANGED <<seen, target, up, crashes>>
  BY DEF Create, TaskIInv, TaskBegins
<1>2. row' \in Rows /\ row'.context = "pending" /\ row'.pack = FALSE /\ row'.version = 1
  BY CreateRow
<1>3. TypeOK'
  BY <1>1, <1>2 DEF TaskIInv, TypeOK
<1>4. (SearchHasWorker /\ PackAgrees /\ TaskBegins)'
  BY <1>1, <1>2 DEF SearchHasWorker, PackAgrees, TaskBegins
<1>5. HolderChecked'
  BY <1>1, TaskAssumption DEF HolderChecked
<1>6. VersionIdentifies'
  BY <1>1, <1>2, NewVersion DEF TaskIInv
<1> QED
  BY <1>3, <1>4, <1>5, <1>6 DEF TaskIInv

LEMMA ArmStep == TaskIInv /\ Arm => TaskIInv'
<1> SUFFICES ASSUME TaskIInv, Arm PROVE TaskIInv'
  OBVIOUS
<1>1. /\ creator = "inserted" /\ creator' = "armed"
      /\ UNCHANGED <<row, lock, seen, target, up, crashes>>
  BY DEF Arm
<1>2. TypeOK'
  BY <1>1 DEF TaskIInv, TypeOK
<1>3. (SearchHasWorker /\ PackAgrees /\ TaskBegins /\ HolderChecked)'
  BY <1>1 DEF TaskIInv, SearchHasWorker, PackAgrees, TaskBegins, HolderChecked
<1>4. VersionIdentifies'
  BY <1>1, SameVersion DEF TaskIInv
<1> QED
  BY <1>2, <1>3, <1>4 DEF TaskIInv

LEMMA CrashStep == TaskIInv /\ Crash => TaskIInv'
<1> SUFFICES ASSUME TaskIInv, Crash PROVE TaskIInv'
  OBVIOUS
<1>1. /\ crashes < MaxCrashes /\ crashes' = crashes + 1
      /\ up' = FALSE /\ lock' = None /\ target' = None
      /\ creator' = IF creator = "none" THEN creator ELSE "fired"
      /\ UNCHANGED <<row, seen>>
  BY DEF Crash
<1>2. crashes' \in 0..MaxCrashes
  BY <1>1, TaskAssumption DEF TaskIInv, TypeOK
<1>3. TypeOK'
  BY <1>1, <1>2 DEF TaskIInv, TypeOK
<1>4. (SearchHasWorker /\ PackAgrees /\ TaskBegins)'
  BY <1>1 DEF TaskIInv, SearchHasWorker, PackAgrees, TaskBegins
<1>5. HolderChecked'
  BY <1>1, TaskAssumption DEF HolderChecked
<1>6. VersionIdentifies'
  BY <1>1, SameVersion DEF TaskIInv
<1> QED
  BY <1>3, <1>4, <1>5, <1>6 DEF TaskIInv

LEMMA RestartStep == TaskIInv /\ Restart => TaskIInv'
<1> SUFFICES ASSUME TaskIInv, Restart PROVE TaskIInv'
  OBVIOUS
<1>1. /\ row \in Rows /\ ~up /\ up' = TRUE /\ UNCHANGED <<lock, creator, seen, target, crashes>>
      /\ lock = None
  BY DEF TaskIInv, TypeOK, TaskBegins, Restart
<1>2. /\ row' \in Rows
      /\ row'.status = row.status /\ row'.pack = row.pack /\ row'.version = row.version
      /\ row'.context = IF row.version > 0 /\ row.context \in {"searching", "pending"}
                        THEN "failed" ELSE row.context
  BY <1>1, RestartRow
<1>3. TypeOK'
  BY <1>1, <1>2 DEF TaskIInv, TypeOK
<1>4. (SearchHasWorker /\ PackAgrees /\ TaskBegins)'
  BY <1>1, <1>2 DEF TaskIInv, SearchHasWorker, PackAgrees, TaskBegins
<1>5. HolderChecked'
  BY <1>1, TaskAssumption DEF HolderChecked
<1>6. VersionIdentifies'
  <2> SUFFICES ASSUME NEW c \in Clients,
                      seen[c].version > 0, seen[c].version = row.version
               PROVE  AsSeen(c)'
    BY <1>1, <1>2 DEF TaskIInv, VersionIdentifies
  <2>1. AsSeen(c)
    BY DEF TaskIInv, VersionIdentifies
  <2> QED
    BY <1>1, <1>2, <2>1 DEF AsSeen
<1> QED
  BY <1>3, <1>4, <1>5, <1>6 DEF TaskIInv

-----------------------------------------------------------------------------
LEMMA TaskStepInv == TaskIInv /\ [Next]_vars => TaskIInv'
<1> SUFFICES ASSUME TaskIInv, [Next]_vars PROVE TaskIInv'
  OBVIOUS
<1>1. CASE UNCHANGED vars
  BY <1>1 DEF vars, TaskIInv, TypeOK, SearchHasWorker, PackAgrees, TaskBegins,
              HolderChecked, VersionIdentifies, AsSeen
<1>2. CASE \E a \in Assemblers : \E force \in BOOLEAN : Assemble(a, force)
  BY <1>2, AssembleStep
<1>3. CASE \E a \in Assemblers : AssembleNothing(a) \/ Assembled(a)
  BY <1>3, AssembleNothingStep, AssembledStep
<1>4. CASE \E c \in Clients : Read(c) \/ Transition(c) \/ \E s \in Statuses : CheckTransition(c, s)
  BY <1>4, ReadStep, TransitionStep, CheckTransitionStep
<1>5. CASE Create \/ Arm \/ Crash \/ Restart
  BY <1>5, CreateStep, ArmStep, CrashStep, RestartStep
<1> QED
  BY <1>1, <1>2, <1>3, <1>4, <1>5 DEF Next

LEMMA TaskInvariant == Spec => []TaskIInv
BY TaskInitInv, TaskStepInv, PTL DEF Spec

\* The variables keep their types.
THEOREM TypeCorrect == Spec => []TypeOK
BY TaskInvariant, PTL DEF TaskIInv

\* No search is abandoned, over any number of crashes: a running service has a
\* thread behind every context it calls searching or pending.
THEOREM NoSearchAbandoned == Spec => []SearchHasWorker
BY TaskInvariant, PTL DEF TaskIInv

\* A reader, who takes no lock, finds a pack exactly when the status says so.
THEOREM PackAgreesAlways == Spec => []PackAgrees
BY TaskInvariant, PTL DEF TaskIInv

\* Only Transition changes the status of a task.
LEMMA OnlyTransition ==
  ASSUME TaskIInv, [Next]_vars, row'.status # row.status
  PROVE  \E c \in Clients : Transition(c)
<1>1. row \in Rows
  BY DEF TaskIInv, TypeOK
<1>2. CASE \E a \in Assemblers : \E force \in BOOLEAN : Assemble(a, force)
  BY <1>1, <1>2, SetContextRow DEF Assemble, Contexts
<1>3. CASE \E a \in Assemblers : Assembled(a)
  BY <1>1, <1>3, AssembledCases, SetContextRow DEF Contexts
<1>4. CASE \E a \in Assemblers : AssembleNothing(a)
  BY <1>4 DEF AssembleNothing
<1>5. CASE \E c \in Clients : Read(c) \/ \E s \in Statuses : CheckTransition(c, s)
  BY <1>5 DEF Read, CheckTransition
<1>6. CASE Create
  <2>1. row.version = 0
    BY <1>6 DEF Create, TaskIInv, TaskBegins
  <2>2. row.status = "backlog"
    BY <2>1 DEF TaskIInv, TaskBegins
  <2> QED
    BY <1>6, <2>2 DEF Create, NoRow
<1>7. CASE Restart
  BY <1>1, <1>7, RestartRow
<1>8. CASE Arm \/ Crash \/ UNCHANGED vars
  BY <1>8 DEF Arm, Crash, vars
<1> QED
  BY <1>2, <1>3, <1>4, <1>5, <1>6, <1>7, <1>8 DEF Next

\* A task is made ready or started only with a context that is assembled and
\* that nobody is assembling again.
THEOREM StartsWithContext == Spec => StartedWithContext
<1>1. TaskIInv /\ [Next]_vars =>
        [row'.status # row.status /\ row'.status \in Gated =>
            row.context \in ValidContexts /\ row'.context = row.context]_vars
  <2> SUFFICES ASSUME TaskIInv, [Next]_vars, row'.status # row.status, row'.status \in Gated
               PROVE  row.context \in ValidContexts /\ row'.context = row.context
    OBVIOUS
  <2>1. PICK c \in Clients : Transition(c)
    BY OnlyTransition
  <2>2. row \in Rows /\ lock = c /\ target \in Statuses
    BY <2>1 DEF Transition, TaskIInv, TypeOK, HolderChecked
  <2>3. row'.status = target /\ row'.context = row.context
    BY <2>1, <2>2, TransitionRow DEF Transition
  <2> QED
    BY <2>2, <2>3 DEF TaskIInv, HolderChecked
<1> QED
  BY TaskInvariant, <1>1, PTL DEF Spec, StartedWithContext

\* A client moves the task it has seen, although a restart changes the context
\* without a new version.
THEOREM MovesSeenTask == Spec => MovesWhatItSaw
<1>1. TaskIInv /\ [Next]_vars =>
        [row'.status # row.status =>
          \E c \in Clients :
              /\ lock = c
              /\ seen[c].status = row.status /\ seen[c].version = row.version
              /\ seen[c].context \in {row.context}
                   \cup (IF row.context = "failed" THEN {"searching", "pending"} ELSE {})]_vars
  <2> SUFFICES ASSUME TaskIInv, [Next]_vars, row'.status # row.status
               PROVE  \E c \in Clients :
                        lock = c /\ seen[c].version = row.version /\ AsSeen(c)
    BY DEF AsSeen
  <2>1. PICK c \in Clients : Transition(c)
    BY OnlyTransition
  <2>2. lock = c /\ seen[c].version = row.version
    BY <2>1 DEF Transition, TaskIInv, HolderChecked
  <2>3. row.version \in Nat /\ row.version > 0
    BY <2>2, TaskAssumption DEF TaskIInv, TypeOK, Rows, TaskBegins
  <2>4. AsSeen(c)
    BY <2>2, <2>3 DEF TaskIInv, VersionIdentifies
  <2> QED
    BY <2>2, <2>4
<1> QED
  BY TaskInvariant, <1>1, PTL DEF Spec, MovesWhatItSaw
=============================================================================
