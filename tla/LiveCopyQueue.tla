--------------------------- MODULE LiveCopyQueue ---------------------------
(***************************************************************************)
(* The LIVE copy queue of services/live_copy.py: LiveCopyWorker.check_once *)
(* and LiveCopyDispatcher.process_claimed over live_execution_queue, each  *)
(* queue row driving one execution of LiveExecution, whose coordinator     *)
(* calls are made by the dispatchers.                                      *)
(*                                                                         *)
(* The grain is LiveExecution's: a transaction, or the answer to an awaited*)
(* adapter call, is one step.  A dispatcher is one LiveCopyWorker; "desk"  *)
(* is its place in check_once, "local" its place in the coordinator call   *)
(* it awaits.  An exception leaves the coordinator where it is: for the    *)
(* tables it is the same as a crash there.                                 *)
(***************************************************************************)
EXTENDS LiveExecution

CONSTANTS
    Dispatchers,  \* LiveCopyWorkers, one per process
    Mortal,       \* ... that may be killed
    MaxTries      \* live_execution_queue.max_attempts

ASSUME DispatchersAssumption ==
    /\ Dispatchers \subseteq Submitters \cap Reconcilers \cap Recoverers \cap Crashable
    /\ Mortal \subseteq Dispatchers
    /\ MaxTries \in Nat \ {0}

VARIABLES
    queue,  \* live_execution_queue.state, "NONE" before the row exists
    tries,  \* live_execution_queue.attempt_count
    desk,   \* a dispatcher's place in check_once and what it remembers
    ended,      \* dispatchers whose run_forever an exception has ended
    overlapped  \* history: a cycle has outlasted the worker's lease and another
                \* dispatcher has begun one beside it

rest == <<tries, ended, overlapped>>
queueVars == <<queue, desk, rest>>
allVars == <<vars, queueVars>>

-----------------------------------------------------------------------------
QueueStates ==
    {"PLANNED", "CLAIMED", "SUBMITTING", "ACKNOWLEDGED", "PARTIALLY_FILLED",
     "FILLED", "CANCELED", "REJECTED", "UNKNOWN", "RETRY_WAIT",
     "RECOVERY_REQUIRED"}

Held == {"CLAIMED", "SUBMITTING"}

Unresolved == {"SUBMITTING", "SUBMITTED", "UNKNOWN", "RECONCILING", "RECOVERY_REQUIRED"}
NoneIn(states) == \A e \in Executions : state[e] \notin states

\* Between cycles; the discovery, the expiry and the two lists; a row under
\* recovery; a claimed row, from its claim to the record of its outcome.
RowSteps == {"claimed", "ready", "eligible", "second", "sizing", "sealed",
             "admission", "submit", "submitting", "outcome"}
DeskSteps == {"away", "discover", "expire", "list", "stuck", "unsent", "retry",
              "recovering", "recovered", "due", "failed"} \cup RowSteps

Results == States \cup QueueStates \cup {"ABSENT", "NONE"}

Away == [pc |-> "away", job |-> NoExecution, list |-> {}, tries |-> 0, result |-> "NONE"]
Desks == [pc : DeskSteps, job : Executions \cup {NoExecution},
          list : SUBSET Executions, tries : Nat, result : Results]

QueueInit ==
    /\ Init
    /\ queue = [e \in Executions |-> "NONE"]
    /\ tries = [e \in Executions |-> 0]
    /\ desk = [d \in Dispatchers |-> Away]
    /\ ended = {}
    /\ overlapped = FALSE

DeskAt(d, step) == desk[d].pc = step
Row(d) == desk[d].job
Move(d, step) == desk' = [desk EXCEPT ![d].pc = step]
Close(d, step) ==
    desk' = [desk EXCEPT ![d] = [Away EXCEPT !.pc = step, !.list = desk[d].list]]

\* LiveExecutionQueueRepository.transition: a compare-and-set whose result its
\* callers ignore.
MoveRow(e, from, to) == queue' = [queue EXCEPT ![e] = IF @ = from THEN to ELSE @]

-----------------------------------------------------------------------------
(* The cycle *)

\* acquire_lease: the lease is free, or that of a dispatcher that has died or is
\* slow has expired; nothing renews it during a cycle.
BeginCycle(d) ==
    /\ DeskAt(d, "away")
    /\ d \notin ended
    /\ overlapped' = (overlapped \/ \E other \in Dispatchers : ~DeskAt(other, "away"))
    /\ Move(d, "discover")
    /\ UNCHANGED <<vars, queue, tries, ended>>

\* discover(): approved plans of enabled accounts get a row, at most one each.
Discover(d, found) ==
    /\ DeskAt(d, "discover")
    /\ \A e \in found : queue[e] = "NONE"
    /\ queue' = [e \in Executions |-> IF e \in found THEN "PLANNED" ELSE queue[e]]
    /\ Move(d, "expire")
    /\ UNCHANGED <<vars, rest>>

ExpirableSubmitting(e) == queue[e] = "SUBMITTING"  \* mutant

\* recover_expired(): the rows' own leases (120 s) last less than a cycle may.
Expirable(e) == queue[e] \in Held

RecoverExpired(d, expired) ==
    /\ DeskAt(d, "expire")
    /\ \A e \in expired : Expirable(e)
    /\ queue' = [e \in Executions |-> IF e \in expired THEN "RECOVERY_REQUIRED" ELSE queue[e]]
    /\ Move(d, "list")
    /\ UNCHANGED <<vars, rest>>

\* recovery_required()
ListStuck(d) ==
    /\ DeskAt(d, "list")
    /\ desk' = [desk EXCEPT ![d].pc = "stuck",
                  ![d].list = {e \in Executions : queue[e] = "RECOVERY_REQUIRED"}]
    /\ UNCHANGED <<vars, queue, rest>>

\* due(): planned rows, and those whose next_attempt_at has passed.
ListDue(d, waited) ==
    /\ DeskAt(d, "stuck")
    /\ desk[d].list = {}
    /\ \A e \in waited : queue[e] = "RETRY_WAIT"
    /\ desk' = [desk EXCEPT ![d].pc = "due",
                  ![d].list = waited \cup {e \in Executions : queue[e] = "PLANNED"}]
    /\ UNCHANGED <<vars, queue, rest>>

EndCycle(d) ==
    /\ DeskAt(d, "due")
    /\ desk[d].list = {}
    /\ Move(d, "away")
    /\ UNCHANGED <<vars, queue, rest>>

Take(d, e, step) ==
    /\ e \in desk[d].list
    /\ desk' = [desk EXCEPT ![d].pc = step, ![d].job = e, ![d].list = @ \ {e}]

-----------------------------------------------------------------------------
(* _recover_queue_row *)

FindUnsentHasty(d, e) ==  \* mutant
    /\ DeskAt(d, "stuck")
    /\ state[e] \in {"ABSENT", "CREATED", "VALIDATED", "QUEUED"}
    /\ Take(d, e, "unsent")
    /\ UNCHANGED <<vars, queue, rest>>

\* There is no execution: nothing was submitted, as far as this read shows.
FindUnsent(d, e) ==
    /\ DeskAt(d, "stuck")
    /\ state[e] = "ABSENT"
    /\ Take(d, e, "unsent")
    /\ UNCHANGED <<vars, queue, rest>>

\* schedule_retry: the count is read in one transaction, written in the next.
ReadTries(d) ==
    /\ DeskAt(d, "unsent")
    /\ desk' = [desk EXCEPT ![d].pc = "retry", ![d].tries = tries[Row(d)]]
    /\ UNCHANGED <<vars, queue, rest>>

RetriesLeftAtMost(d) == desk[d].tries <= MaxTries  \* mutant
RetriesLeft(d) == desk[d].tries < MaxTries

ScheduleRetry(d) ==
    /\ DeskAt(d, "retry")
    /\ MoveRow(Row(d), "RECOVERY_REQUIRED", IF RetriesLeft(d) THEN "RETRY_WAIT" ELSE "REJECTED")
    /\ Close(d, "stuck")
    /\ UNCHANGED <<vars, rest>>

RecoverSent(d, e) ==
    /\ DeskAt(d, "stuck")
    /\ Recover(d, e)
    /\ Take(d, e, "recovering")
    /\ UNCHANGED <<queue, rest>>

\* The call is over; what it returns is a read of its own.
ReadRecovered(d) ==
    /\ DeskAt(d, "recovering")
    /\ Resting(d)
    /\ desk' = [desk EXCEPT ![d].pc = "recovered", ![d].result = state[Row(d)]]
    /\ UNCHANGED <<vars, queue, rest>>

RecoveredAsUnknown(result) ==  \* mutant
    CASE result = "CANCELLED" -> "CANCELED"
      [] result = "UNKNOWN" -> "ACKNOWLEDGED"
      [] result \in {"ACKNOWLEDGED", "PARTIALLY_FILLED", "FILLED", "REJECTED"} -> result
      [] OTHER -> "RECOVERY_REQUIRED"

\* The row's state for a recovered execution's; the others leave the row.
RecoveredAs(result) ==
    CASE result = "CANCELLED" -> "CANCELED"
      [] result \in {"ACKNOWLEDGED", "PARTIALLY_FILLED", "FILLED", "REJECTED"} -> result
      [] OTHER -> "RECOVERY_REQUIRED"

RecordRecovered(d) ==
    /\ DeskAt(d, "recovered")
    /\ MoveRow(Row(d), "RECOVERY_REQUIRED", RecoveredAs(desk[d].result))
    /\ Close(d, "stuck")
    /\ UNCHANGED <<vars, rest>>

\* The coordinator call a dispatcher awaits, if any, ends where it is.
Abandon(d) == Crash(d) \/ (Resting(d) /\ UNCHANGED vars)

\* An exception in one row's recovery is counted and the next row taken.
SkipStuck(d) ==
    /\ DeskAt(d, "recovering")
    /\ Abandon(d)
    /\ Close(d, "stuck")
    /\ UNCHANGED <<queue, rest>>

-----------------------------------------------------------------------------
(* A due row: claim, recover the account, process_claimed *)

\* claim(): lost when the row is no longer due.
ClaimRow(d, e) ==
    /\ DeskAt(d, "due")
    /\ e \in desk[d].list
    /\ IF queue[e] \in {"PLANNED", "RETRY_WAIT"}
         THEN /\ queue' = [queue EXCEPT ![e] = "CLAIMED"]
              /\ tries' = [tries EXCEPT ![e] = @ + 1]
              /\ Take(d, e, "claimed")
         ELSE /\ desk' = [desk EXCEPT ![d].list = @ \ {e}]
              /\ UNCHANGED <<queue, tries>>
    /\ UNCHANGED <<vars, ended, overlapped>>

\* LiveReconciliationService.reconcile() by the dispatcher itself.
StartReconcile(d, here, there) ==
    /\ DeskAt(d, here)
    /\ IF Candidates = {} THEN UNCHANGED vars ELSE Reconcile(d)
    /\ Move(d, there)
    /\ UNCHANGED <<queue, rest>>

\* A read that stops the row with PermissionError unless it finds no execution
\* of the account in "states".
Pass(d, here, states, there) ==
    /\ DeskAt(d, here)
    /\ Resting(d)
    /\ NoneIn(states)
    /\ Move(d, there)
    /\ UNCHANGED <<vars, queue, rest>>

\* LiveRecoveryService.recover, then process_claimed up to its reconciliation
\* and on to the sealed request.
RecoverAccount(d) == StartReconcile(d, "claimed", "ready")
BecomeReady(d) == Pass(d, "ready", Unresolved, "eligible")
ReconcileAgain(d) == StartReconcile(d, "eligible", "second")
Match(d) == Pass(d, "second", UnresolvedLocalStates, "sizing")

Ineligible(d) ==
    /\ DeskAt(d, "eligible")
    /\ MoveRow(Row(d), "CLAIMED", "REJECTED")
    /\ Close(d, "due")
    /\ UNCHANGED <<vars, rest>>

\* seal_request: any CLAIMED row will do.
Seal(d) ==
    /\ DeskAt(d, "sizing")
    /\ queue[Row(d)] = "CLAIMED"
    /\ Move(d, "sealed")
    /\ UNCHANGED <<vars, queue, rest>>

StartSubmit(d) ==
    /\ DeskAt(d, "sealed")
    /\ MoveRow(Row(d), "CLAIMED", "SUBMITTING")
    /\ Move(d, "admission")
    /\ UNCHANGED <<vars, rest>>

\* submit()'s LIVE gate of the account, before it reads the positions.  The plan
\* check beside it compares the sealed request while the row is held, the plan's
\* own sizes otherwise, which may agree: the row's state alone refuses nothing.
Admit(d) == Pass(d, "admission", Unresolved, "submit")

Submit(d) ==
    /\ DeskAt(d, "submit")
    /\ SubmitNew(d, Row(d)) \/ SubmitRetry(d, Row(d))
    /\ Move(d, "submitting")
    /\ UNCHANGED <<queue, rest>>

\* A row submit() does not touch, or not yet: its state is the answer.
SubmitKnown(d) ==
    /\ DeskAt(d, "submit")
    /\ state[Row(d)] \notin {"ABSENT", "CREATED"}
    /\ desk' = [desk EXCEPT ![d].pc = "outcome", ![d].result = state[Row(d)]]
    /\ UNCHANGED <<vars, queue, rest>>

\* submit() returns what it decided, whatever its compare-and-set found, ...
Told(d, result) == desk' = [desk EXCEPT ![d].pc = "outcome", ![d].result = result]

SubmitFails(d) ==
    /\ DeskAt(d, "submitting")
    /\ \/ PlaceAmbiguous(d) /\ Told(d, "UNKNOWN")
       \/ PlaceRefused(d) /\ Told(d, "REJECTED")
    /\ UNCHANGED <<queue, rest>>

\* ... or the state read after its last step.
ReadOutcome(d) ==
    /\ DeskAt(d, "submitting")
    /\ Resting(d)
    /\ Told(d, state[Row(d)])
    /\ UNCHANGED <<vars, queue, rest>>

SubmittedAsSpelled(result) ==  \* mutant
    IF result \in {"ACKNOWLEDGED", "PARTIALLY_FILLED", "FILLED", "CANCELLED", "UNKNOWN"}
      THEN result ELSE "REJECTED"

\* The states of its table; any other is recorded as a rejection.
SubmittedAs(result) ==
    CASE result = "CANCELLED" -> "CANCELED"
      [] result \in {"ACKNOWLEDGED", "PARTIALLY_FILLED", "FILLED", "UNKNOWN"} -> result
      [] OTHER -> "REJECTED"

RecordOutcome(d) ==
    /\ DeskAt(d, "outcome")
    /\ MoveRow(Row(d), "SUBMITTING", SubmittedAs(desk[d].result))
    /\ Close(d, "due")
    /\ UNCHANGED <<vars, rest>>

\* An exception anywhere in a due row: the coordinator call is over, the row's
\* state is read, ...
Fail(d) ==
    /\ desk[d].pc \in RowSteps
    /\ Abandon(d)
    /\ desk' = [desk EXCEPT ![d].pc = "failed", ![d].result = queue[Row(d)]]
    /\ UNCHANGED <<queue, rest>>

\* ... and, when somebody holds it, sent to recovery.
RecordFailure(d) ==
    /\ DeskAt(d, "failed")
    /\ IF desk[d].result \in Held
         THEN MoveRow(Row(d), desk[d].result, "RECOVERY_REQUIRED")
         ELSE UNCHANGED queue
    /\ Close(d, "due")
    /\ UNCHANGED <<vars, rest>>

\* What lies outside the handlers of a row: the statements of the cycle itself, the
\* adapter's construction and its close(), and what the last handler does.
Unguarded == {"away", "discover", "expire", "list", "stuck", "due", "claimed", "failed"}

\* An exception there ends run_forever(), a bare task: the row stays as it is and
\* this process begins no cycle again.
Stop(d) ==
    /\ d \notin ended
    /\ desk[d].pc \in Unguarded
    /\ ended' = ended \cup {d}
    /\ desk' = [desk EXCEPT ![d] = Away]
    /\ UNCHANGED <<vars, queue, tries, overlapped>>

\* The process is killed, and started again.
Die(d) ==
    /\ d \in Mortal
    /\ ~DeskAt(d, "away") \/ d \in ended
    /\ Abandon(d)
    /\ ended' = ended \ {d}
    /\ desk' = [desk EXCEPT ![d] = Away]
    /\ UNCHANGED <<queue, tries, overlapped>>

-----------------------------------------------------------------------------
\* A coordinator call that a dispatcher awaits goes on.
Await(d) ==
    /\ ~Resting(d)
    /\ \/ Validate(d) \/ Enqueue(d) \/ StartSubmitting(d)
       \/ BeginAttempt(d) \/ SendOrder(d) \/ PlaceAccepted(d)
       \/ RecoverStep(d)
    /\ UNCHANGED queueVars

CycleStep(d) ==
    \/ BeginCycle(d)
    \/ \E found \in SUBSET Executions : Discover(d, found)
    \/ \E expired \in SUBSET Executions : RecoverExpired(d, expired)
    \/ ListStuck(d)
    \/ \E waited \in SUBSET Executions : ListDue(d, waited)
    \/ EndCycle(d)

StuckStep(d) ==
    \/ \E e \in Executions : FindUnsent(d, e) \/ RecoverSent(d, e)
    \/ ReadTries(d) \/ ScheduleRetry(d)
    \/ ReadRecovered(d) \/ RecordRecovered(d)

DueStep(d) ==
    \/ \E e \in Executions : ClaimRow(d, e)
    \/ RecoverAccount(d) \/ BecomeReady(d) \/ ReconcileAgain(d) \/ Match(d)
    \/ Seal(d) \/ StartSubmit(d) \/ Admit(d)
    \/ Submit(d) \/ SubmitKnown(d) \/ SubmitFails(d) \/ ReadOutcome(d)
    \/ RecordOutcome(d) \/ RecordFailure(d)

\* LiveReconciliationWorker, and the exchange.
OthersStep ==
    \/ \E p \in Workers \ Dispatchers : RecoverStep(p) \/ Crash(p)
    \/ ExchangeStep

QueueNext ==
    \/ \E d \in Dispatchers :
          \/ CycleStep(d) \/ StuckStep(d) \/ DueStep(d) \/ Await(d)
          \/ SkipStuck(d) \/ Ineligible(d) \/ Fail(d) \/ Stop(d) \/ Die(d)
    \/ OthersStep /\ UNCHANGED queueVars

QueueSpec == QueueInit /\ [][QueueNext]_allVars

\* A dispatcher goes on with its cycle, ending each row it took one way or another,
\* until it is killed or an exception ends it; no fairness says that it begins again
\* after that.  While it goes on, some cycle finds the rows whose lease is over.
QueueFairness ==
    \A d \in Dispatchers \ Mortal :
        /\ WF_allVars(Fail(d) \/ CycleStep(d) \/ StuckStep(d) \/ DueStep(d) \/ Await(d))
        /\ SF_allVars(RecoverExpired(d, {e \in Executions : Expirable(e)}))

FairQueueSpec == QueueSpec /\ QueueFairness

-----------------------------------------------------------------------------
(* Properties *)

QueueTypeOK ==
    /\ TypeOK
    /\ queue \in [Executions -> QueueStates \cup {"NONE"}]
    /\ tries \in [Executions -> Nat]
    /\ desk \in [Dispatchers -> Desks]
    /\ ended \subseteq Dispatchers
    /\ overlapped \in BOOLEAN

\* A row says of its order only what is so at the exchange, though the answer it
\* is written from was read earlier and by a dispatcher that may be late.
RowsAreTrue ==
    \A e \in Executions :
        /\ queue[e] = "FILLED" => market[e] = "FILLED"
        /\ queue[e] = "CANCELED" => market[e] = "CANCELLED"
        /\ queue[e] \in {"ACKNOWLEDGED", "PARTIALLY_FILLED"} => market[e] # "NONE"

\* While the worker's lease keeps cycles apart, a row that may be claimed has no
\* execution: "confirmed pre-submit" is true.
RetryMeansUntouched ==
    ~overlapped => \A e \in Executions :
        queue[e] \in {"NONE", "PLANNED", "RETRY_WAIT"} => state[e] = "ABSENT"

\* ... and a row is claimed at most max_attempts times.
TriesAreBounded == ~overlapped => \A e \in Executions : tries[e] <= MaxTries

\* A claim whose dispatcher was killed, or ended by the row itself, does not last for
\* ever, as long as one dispatcher is neither.  When none is left, as when the only one
\* deployed meets revoked credentials, it may last: the row stays CLAIMED.
ClaimsEnd ==
    \A e \in Executions :
        queue[e] \in Held ~> queue[e] \notin Held \/ Dispatchers \ Mortal \subseteq ended

\* No order can come of an execution any more, or the exchange has rejected it.
Resolved(e) == ~Possible(e) \/ market[e] = "REJECTED"

\* A row is recorded as rejected only when its execution is resolved.
RejectedIsResolved ==
    \A e \in Executions : queue[e] = "REJECTED" => Resolved(e)

\* ... and where that fails while cycles do not overlap, it is by one path only:
\* submit() returned a state that a reconciliation still looks at and that the
\* table of process_claimed() lacks.
RejectedByTable ==
    [][\A e \in Executions :
          ~overlapped' /\ queue[e] # "REJECTED" /\ queue'[e] = "REJECTED" /\ ~Resolved(e) =>
             \E d \in Dispatchers :
                 DeskAt(d, "outcome") /\ Row(d) = e /\ desk[d].result \in OpenLocalStates]_allVars

=============================================================================
