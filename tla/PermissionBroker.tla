--------------------------- MODULE PermissionBroker ---------------------------
(***************************************************************************)
(* The one-shot approvals of harness/permissions.py, with the two callers  *)
(* that race in it: the tool hook of an agent session, which requests an   *)
(* approval and waits for the answer (audit.py authorize), and the HTTP    *)
(* handlers that decide it (audit.py decide_permission) or cancel its run. *)
(*                                                                         *)
(* The bodies under the broker's lock contain no await, so each of them is *)
(* one step.  What is not atomic is the wait: between the moment its       *)
(* future or its timer fires and the moment the hook resumes, the event    *)
(* loop may run any other handler.                                         *)
(*                                                                         *)
(* The names are those of the broker alone, so that a module can extend    *)
(* this one together with the runs whose sessions wait in it.              *)
(***************************************************************************)
EXTENDS Integers, FiniteSets

CONSTANTS Permissions,  \* permission ids, each used once (uuid4)
          Runs,
          RunOf         \* the run a permission is requested for

ASSUME BrokerAssumption == RunOf \in [Permissions -> Runs]

VARIABLES record,   \* PermissionRecord.status; "none": not requested yet
          waiter,   \* the future in _waiters: "open", or its result
          hook,     \* the hook: "idle", "waiting", "expiring", "done", "gone"
          answer,   \* what wait() returned to the hook, or "none"
          alive,    \* the runs whose sessions are alive and may request
          verdicts  \* history: the decisions the HTTP handler accepted

brokerVars == <<record, waiter, hook, answer, alive, verdicts>>

Answers == {"allow", "deny"}

BrokerInit ==
    /\ record = [p \in Permissions |-> "none"]
    /\ waiter = [p \in Permissions |-> "open"]
    /\ hook = [p \in Permissions |-> "idle"]
    /\ answer = [p \in Permissions |-> "none"]
    /\ alive = Runs
    /\ verdicts = [p \in Permissions |-> {}]

-----------------------------------------------------------------------------
\* request: a pending record and an open future.
Record(p) ==
    /\ record[p] = "none"
    /\ record' = [record EXCEPT ![p] = "pending"]
    /\ waiter' = [waiter EXCEPT ![p] = "open"]

\* authorize: request, append executor.tool.requested, start to wait.  None of
\* the three suspends before the wait.
Request(p) ==
    /\ RunOf[p] \in alive
    /\ Record(p)
    /\ hook' = [hook EXCEPT ![p] = "waiting"]
    /\ UNCHANGED <<answer, alive, verdicts>>

Reply(p, a) ==
    /\ hook' = [hook EXCEPT ![p] = "done"]
    /\ answer' = [answer EXCEPT ![p] = a]

\* The hook resumes with the result of its future.
Resume(p) ==
    /\ hook[p] = "waiting" /\ waiter[p] # "open"
    /\ Reply(p, waiter[p])
    /\ UNCHANGED <<record, waiter, alive, verdicts>>

\* The timer of wait_for fires; the hook will resume with TimeoutError, even if
\* the future gets, or already has, a result that the hook has not seen.
Timer(p) ==
    /\ hook[p] = "waiting"
    /\ hook' = [hook EXCEPT ![p] = "expiring"]
    /\ UNCHANGED <<record, waiter, answer, alive, verdicts>>

Settle(p, s, a) ==
    /\ record' = [record EXCEPT ![p] = s]
    /\ waiter' = [waiter EXCEPT ![p] = IF @ = "open" THEN a ELSE @]

\* Mutants: the record is left pending; the record is not looked at again.
ExpireForgets(p) ==
    /\ hook[p] = "expiring"
    /\ Reply(p, "deny")
    /\ UNCHANGED <<record, waiter, alive, verdicts>>

ExpireBlindly(p) ==
    /\ hook[p] = "expiring"
    /\ Settle(p, "expired", "deny")
    /\ Reply(p, "deny")
    /\ UNCHANGED <<alive, verdicts>>

\* except TimeoutError: expire the record if it is still pending; return False.
Expire(p) ==
    /\ hook[p] = "expiring"
    /\ IF record[p] = "pending" THEN Settle(p, "expired", "deny")
                                ELSE UNCHANGED <<record, waiter>>
    /\ Reply(p, "deny")
    /\ UNCHANGED <<alive, verdicts>>

\* Mutant: a decision is accepted whatever the status of the record.
DecideAgain(p, a) ==
    /\ record[p] # "none"
    /\ Settle(p, IF a = "allow" THEN "allowed" ELSE "denied", a)
    /\ verdicts' = [verdicts EXCEPT ![p] = @ \cup {a}]
    /\ UNCHANGED <<hook, answer, alive>>

\* decide; a record that is not pending is refused with PERMISSION_NOT_PENDING.
Decide(p, a) ==
    /\ record[p] = "pending"
    /\ Settle(p, IF a = "allow" THEN "allowed" ELSE "denied", a)
    /\ verdicts' = [verdicts EXCEPT ![p] = @ \cup {a}]
    /\ UNCHANGED <<hook, answer, alive>>

PendingOf(r) == {p \in Permissions : RunOf[p] = r /\ record[p] = "pending"}

\* cancel_run.
CancelRun(r) ==
    /\ PendingOf(r) # {}
    /\ record' = [p \in Permissions |->
                    IF p \in PendingOf(r) THEN "cancelled" ELSE record[p]]
    /\ waiter' = [p \in Permissions |->
                    IF p \in PendingOf(r) /\ waiter[p] = "open" THEN "deny" ELSE waiter[p]]
    /\ UNCHANGED <<hook, answer, alive, verdicts>>

\* The sessions of a run are torn down (the run failed or was cancelled): its
\* hooks are cancelled in whatever they await, without touching their records.
TearDown(r) ==
    /\ r \in alive
    /\ alive' = alive \ {r}
    /\ hook' = [p \in Permissions |->
                  IF RunOf[p] = r /\ hook[p] \in {"waiting", "expiring"}
                  THEN "gone" ELSE hook[p]]
    /\ UNCHANGED <<record, waiter, answer, verdicts>>

BrokerNext ==
    \/ \E p \in Permissions :
          \/ Request(p) \/ Resume(p) \/ Timer(p) \/ Expire(p)
          \/ \E a \in Answers : Decide(p, a)
    \/ \E r \in Runs : CancelRun(r) \/ TearDown(r)

BrokerSpec == BrokerInit /\ [][BrokerNext]_brokerVars

\* The event loop resumes a hook whose future or timer has fired, and timers
\* fire.  Nothing obliges an operator to decide or to cancel.
Hook(p) == Resume(p) \/ Timer(p) \/ Expire(p)
FairBroker == BrokerSpec /\ \A p \in Permissions : WF_brokerVars(Hook(p))

-----------------------------------------------------------------------------
BrokerTypeOK ==
    /\ record \in [Permissions -> {"none", "pending", "allowed", "denied",
                                   "expired", "cancelled"}]
    /\ waiter \in [Permissions -> Answers \cup {"open"}]
    /\ hook \in [Permissions -> {"idle", "waiting", "expiring", "done", "gone"}]
    /\ answer \in [Permissions -> Answers \cup {"none"}]
    /\ alive \subseteq Runs
    /\ verdicts \in [Permissions -> SUBSET Answers]

\* A reviewed command runs only if its record says allowed, an operator allowed
\* it, and no operator was told that a denial of it was accepted.
NoUnapprovedCommand ==
    \A p \in Permissions :
        answer[p] = "allow" => record[p] = "allowed" /\ verdicts[p] = {"allow"}

\* The record and the future the hook waits on never tell different stories,
\* whichever of decide, the timeout and cancel_run came first.
FutureAgrees ==
    \A p \in Permissions :
        /\ waiter[p] = "open" <=> record[p] \in {"none", "pending"}
        /\ waiter[p] = "allow" <=> record[p] = "allowed"

\* The history agrees with the record: what the operators were told was accepted
\* is what the record says, and an expiry or a cancellation hides no decision.
VerdictsRecorded ==
    \A p \in Permissions :
        verdicts[p] = {a \in Answers : record[p] = IF a = "allow" THEN "allowed" ELSE "denied"}

\* An approval is resolved once: a record that left pending never changes, so a
\* replayed decision, a late timeout or a cancellation cannot rewrite it.
ResolvedOnce ==
    [][\A p \in Permissions :
          record[p] \notin {"none", "pending"} =>
              record'[p] = record[p] /\ verdicts'[p] = verdicts[p]]_brokerVars

\* A hook that was answered left a resolved record behind.
AnsweredIsResolved ==
    \A p \in Permissions : hook[p] = "done" => record[p] \notin {"none", "pending"}

\* A request of a session that stays alive does not wait for ever, whether or
\* not anyone decides it.
RequestsEnd ==
    \A p \in Permissions :
        record[p] = "pending" ~> record[p] # "pending" \/ RunOf[p] \notin alive

=============================================================================
