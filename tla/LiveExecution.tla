--------------------------- MODULE LiveExecution ---------------------------
(***************************************************************************)
(* The durable LIVE execution state machine of services/live_execution.py: *)
(* LiveExecutionCoordinator.submit / recover / cancel over the tables      *)
(* live_executions, live_execution_attempts, live_execution_fills and      *)
(* live_positions, against an exchange that may lose, delay or refuse a    *)
(* request, answer late or never, and list trades later than it makes      *)
(* them.                                                                   *)
(*                                                                         *)
(* Grain of atomicity: one database transaction, or the answer to one      *)
(* awaited adapter call, is one step.  A worker is a coroutine in any of   *)
(* the processes that share the database; it may be killed between any two *)
(* steps.  A read immediately followed by a compare-and-set on what was    *)
(* read is one step: when the row moved in between, the compare-and-set    *)
(* changes nothing and the coroutine returns, as if it had read later.     *)
(***************************************************************************)
EXTENDS Naturals

CONSTANTS
    Executions,   \* execution keys (rows of live_executions, one account and symbol)
    Workers,      \* coroutines that call the coordinator
    Submitters,   \* ... submit(): the copy dispatcher, the emergency close
    Reconcilers,  \* ... LiveReconciliationService.reconcile()
    Recoverers,   \* ... recover() on one execution: the queue recovery
    Cancellers,   \* ... cancel()
    Crashable,    \* workers that may be killed
    Quantity,     \* requested quantity, in units of one trade
    MaxAttempts,  \* LiveExecutionCoordinator.max_attempts
    FillsBeforeRejection, \* how many trades an order the exchange calls
                          \* rejected may have; {0} when it is consistent
    NoExecution   \* "not working on any execution"

ASSUME RolesAssumption ==
    /\ Submitters \subseteq Workers
    /\ Reconcilers \subseteq Workers
    /\ Recoverers \subseteq Workers
    /\ Cancellers \subseteq Workers
    /\ Crashable \subseteq Workers

ASSUME BoundsAssumption ==
    /\ Quantity \in Nat \ {0}
    /\ MaxAttempts \in Nat \ {0}
    /\ FillsBeforeRejection \subseteq 0..Quantity
    /\ NoExecution \notin Executions

VARIABLES
    state,     \* live_executions.state, "ABSENT" before the row exists
    orderId,   \* live_executions.exchange_order_id is set
    attempts,  \* number of rows of live_execution_attempts
    summary,   \* quantity of the order-summary fill row, 0 when there is none
    detail,    \* how many of the exchange's trades are stored as fill rows
    posted,    \* what live_positions was last computed from, per execution
    local,     \* a worker's place in its coroutine and what it remembers
    todo,      \* the candidates a reconciler still has to recover
    fate,      \* what became of each attempt's request
    market,    \* the order's status at the exchange
    filled     \* how many trades the exchange has made for it

row == <<state, orderId, attempts>>
ledger == <<summary, detail, posted>>
exchange == <<fate, market, filled>>
vars == <<row, ledger, local, todo, exchange>>

-----------------------------------------------------------------------------
States ==
    {"CREATED", "VALIDATED", "QUEUED", "SUBMITTING", "SUBMITTED",
     "ACKNOWLEDGED", "PARTIALLY_FILLED", "FILLED", "CANCEL_PENDING",
     "CANCELLED", "REJECTED", "RETRY_WAIT", "FAILED", "UNKNOWN",
     "RECONCILING", "RECOVERY_REQUIRED"}

\* What the exchange may say of an order; "UNLISTED" is a word outside the
\* five status sets of the module.
OrderStatuses ==
    {"OPEN", "PARTIALLY_FILLED", "FILLED", "CANCELLED", "REJECTED", "UNLISTED"}

\* An ExchangeOrder as far as recover() looks at it; NoOrder is None.
NoOrder == [status |-> "NONE", executed |-> 0]
Orders == [status : OrderStatuses, executed : 0..Quantity] \cup {NoOrder}

AttemptNumbers == 1..MaxAttempts

Fates == {"UNSENT", "ON_WIRE", "ACCEPTED", "REFUSED", "LOST"}

\* States a reconciliation looks at, and those recover() starts from
\* "CREATED" excluded; ALLOWED_LIVE_TRANSITIONS.
OpenLocalStates ==
    {"SUBMITTING", "SUBMITTED", "ACKNOWLEDGED", "PARTIALLY_FILLED",
     "UNKNOWN", "RECONCILING", "RECOVERY_REQUIRED"}

UnresolvedLocalStates == {"UNKNOWN", "RECONCILING", "RECOVERY_REQUIRED"}

StableSubmitted == {"SUBMITTED", "ACKNOWLEDGED", "PARTIALLY_FILLED"}  \* mutant
StableObservedStates == {"ACKNOWLEDGED", "PARTIALLY_FILLED"}

AllowedLiveTransitions(from) ==
    CASE from = "CREATED" -> {"VALIDATED", "REJECTED"}
      [] from = "VALIDATED" -> {"QUEUED", "REJECTED"}
      [] from = "QUEUED" -> {"SUBMITTING", "CANCELLED"}
      [] from = "SUBMITTING" ->
            {"SUBMITTED", "ACKNOWLEDGED", "RECONCILING", "UNKNOWN",
             "RETRY_WAIT", "REJECTED", "FAILED", "RECOVERY_REQUIRED"}
      [] from = "SUBMITTED" -> {"ACKNOWLEDGED", "RECONCILING", "UNKNOWN"}
      [] from = "ACKNOWLEDGED" ->
            {"PARTIALLY_FILLED", "FILLED", "CANCEL_PENDING", "RECONCILING",
             "CANCELLED", "REJECTED", "UNKNOWN", "RECOVERY_REQUIRED"}
      [] from = "PARTIALLY_FILLED" ->
            {"PARTIALLY_FILLED", "FILLED", "CANCEL_PENDING", "RECONCILING",
             "CANCELLED", "REJECTED", "UNKNOWN", "RECOVERY_REQUIRED"}
      [] from = "CANCEL_PENDING" -> {"CANCELLED", "UNKNOWN"}
      [] from = "RETRY_WAIT" -> {"SUBMITTING", "FAILED"}
      [] from = "UNKNOWN" ->
            {"ACKNOWLEDGED", "PARTIALLY_FILLED", "FILLED", "RECONCILING",
             "RECOVERY_REQUIRED"}
      [] from = "RECOVERY_REQUIRED" ->
            {"ACKNOWLEDGED", "PARTIALLY_FILLED", "FILLED", "RECONCILING"}
      [] from = "RECONCILING" ->
            {"ACKNOWLEDGED", "PARTIALLY_FILLED", "FILLED", "CANCELLED",
             "REJECTED", "UNKNOWN", "RECOVERY_REQUIRED"}
      [] OTHER -> {}

-----------------------------------------------------------------------------
(* A worker's local state. *)

Steps == {"idle", "created", "validated", "queued", "won", "begun", "placing",
          "answered", "lookup", "fills", "settle", "refill", "cancelling"}

Idle == [pc |-> "idle", job |-> NoExecution, attempt |-> 0, source |-> "QUEUED",
         seen |-> NoOrder, goal |-> "UNKNOWN"]

Locals == [pc : Steps, job : Executions \cup {NoExecution},
           attempt : 0..MaxAttempts, source : States, seen : Orders,
           goal : States]

Init ==
    /\ state = [e \in Executions |-> "ABSENT"]
    /\ orderId = [e \in Executions |-> FALSE]
    /\ attempts = [e \in Executions |-> 0]
    /\ summary = [e \in Executions |-> 0]
    /\ detail = [e \in Executions |-> 0]
    /\ posted = [e \in Executions |-> 0]
    /\ local = [p \in Workers |-> Idle]
    /\ todo = [p \in Workers |-> {}]
    /\ fate = [e \in Executions |-> [n \in AttemptNumbers |-> "UNSENT"]]
    /\ market = [e \in Executions |-> "NONE"]
    /\ filled = [e \in Executions |-> 0]

At(p, step) == local[p].pc = step
Resting(p) == At(p, "idle") /\ todo[p] = {}
Job(p) == local[p].job
Goto(p, step) == local' = [local EXCEPT ![p].pc = step]
Return(p) == local' = [local EXCEPT ![p] = Idle]

TransitionBlind(e, from, to, learned) ==  \* mutant
    /\ state' = [state EXCEPT ![e] = to]
    /\ orderId' = [orderId EXCEPT ![e] = @ \/ learned]

\* LiveExecutionRepository.transition: a compare-and-set on state that also
\* keeps the exchange's order id when the caller has learned it.
Transition(e, from, to, learned) ==
    /\ state' = [state EXCEPT ![e] = IF @ = from THEN to ELSE @]
    /\ orderId' = [orderId EXCEPT ![e] = @ \/ (state[e] = from /\ learned)]

Executed(e) == summary[e] + detail[e]

CountedWhenFilled(e) == IF state[e] = "FILLED" THEN Executed(e) ELSE 0  \* mutant

\* What the position ledger takes from an execution.
Counted(e) == IF state[e] \in {"REJECTED", "FAILED"} THEN 0 ELSE Executed(e)

\* Trades replace a summary that covers no more of the order than they do.
CoversAlways(e, listed) == listed > 0  \* mutant
Covers(e, listed) == listed > 0 /\ listed >= summary[e]

\* A summary is stored once, and only while no trade is.
LacksSummary(e) == summary[e] = 0  \* mutant
LacksFills(e) == summary[e] = 0 /\ detail[e] = 0

\* LiveExecutionRepository.ingest_fills.  "listed" trades arrived with their
\* own ids (0: none), or else a summary of "total" units was made from the
\* order (0: none).  The position row is recomputed from every execution in the
\* same transaction.
IngestFills(e, listed, total) ==
    /\ UNCHANGED row
    /\ detail' = [detail EXCEPT ![e] =
                    IF Covers(e, listed) /\ listed > @ THEN listed ELSE @]
    /\ summary' = [summary EXCEPT ![e] =
                    CASE Covers(e, listed) -> 0
                      [] listed = 0 /\ LacksFills(e) -> total
                      [] OTHER -> @]
    /\ posted' = [x \in Executions |-> Counted(x)']

-----------------------------------------------------------------------------
(* submit() *)

\* create() inserts the row or finds it; only a row still CREATED goes on.
SubmitNew(p, e) ==
    /\ p \in Submitters
    /\ Resting(p)
    /\ state[e] \in {"ABSENT", "CREATED"}
    /\ state' = [state EXCEPT ![e] = "CREATED"]
    /\ local' = [local EXCEPT ![p] = [Idle EXCEPT !.pc = "created", !.job = e]]
    /\ UNCHANGED <<orderId, attempts, ledger, todo, exchange>>

\* ... or one in RETRY_WAIT whose next_retry_at has passed.
SubmitRetry(p, e) ==
    /\ p \in Submitters
    /\ Resting(p)
    /\ state[e] = "RETRY_WAIT"
    /\ local' = [local EXCEPT ![p] =
                   [Idle EXCEPT !.pc = "queued", !.job = e, !.source = "RETRY_WAIT"]]
    /\ UNCHANGED <<row, ledger, todo, exchange>>

\* The three compare-and-sets; a loser reports the row's state and returns.
Claim(p, here, from, to, there) ==
    /\ At(p, here)
    /\ Transition(Job(p), from, to, FALSE)
    /\ IF state[Job(p)] = from THEN Goto(p, there) ELSE Return(p)
    /\ UNCHANGED <<attempts, ledger, todo, exchange>>

Validate(p) == Claim(p, "created", "CREATED", "VALIDATED", "validated")
Enqueue(p) == Claim(p, "validated", "VALIDATED", "QUEUED", "queued")
StartSubmitting(p) == Claim(p, "queued", local[p].source, "SUBMITTING", "won")

BeginAttempt(p) ==
    LET number == attempts[Job(p)] + 1 IN
    /\ At(p, "won")
    /\ attempts' = [attempts EXCEPT ![Job(p)] = number]
    /\ local' = [local EXCEPT ![p].pc = "begun", ![p].attempt = number]
    /\ UNCHANGED <<state, orderId, ledger, todo, exchange>>

\* place_order() posts the order, after the reads and the leverage calls that
\* may fail with any of its errors while nothing is on the wire.
SendOrder(p) ==
    /\ At(p, "begun")
    /\ Goto(p, "placing")
    /\ fate' = [fate EXCEPT ![Job(p)][local[p].attempt] = "ON_WIRE"]
    /\ UNCHANGED <<row, ledger, todo, market, filled>>

Answered(p) == fate[Job(p)][local[p].attempt]

\* The attempt ends, with or without the order's fate being known.
PlaceEnds(p, target) ==
    /\ Transition(Job(p), "SUBMITTING", target, FALSE)
    /\ Return(p)
    /\ UNCHANGED <<attempts, ledger, todo, exchange>>

PlaceRetried(p) ==  \* mutant
    /\ At(p, "begun") \/ At(p, "placing")
    /\ PlaceEnds(p, IF local[p].attempt < MaxAttempts THEN "RETRY_WAIT" ELSE "FAILED")
PlaceFailed(p) == (At(p, "begun") \/ At(p, "placing")) /\ PlaceEnds(p, "FAILED")  \* mutant

\* A timeout, or an error that does not say the order was refused.
PlaceAmbiguous(p) == (At(p, "begun") \/ At(p, "placing")) /\ PlaceEnds(p, "UNKNOWN")

\* A refusal (REJECTED), a rate limit or clock error (RETRY_WAIT while attempts
\* remain, then FAILED), an authentication or configuration error (FAILED).
Refused(p) == At(p, "begun") \/ (At(p, "placing") /\ Answered(p) = "REFUSED")

PlaceRefusedUnbounded(p) == Refused(p) /\ PlaceEnds(p, "RETRY_WAIT")  \* mutant
PlaceRefused(p) ==
    /\ Refused(p)
    /\ \E target \in {"REJECTED", "FAILED", "RETRY_WAIT"} :
          /\ target = "RETRY_WAIT" => local[p].attempt < MaxAttempts
          /\ PlaceEnds(p, target)

\* The order as the exchange shows it now.
Shown(e) ==
    [status |-> IF market[e] = "OPEN" /\ filled[e] > 0 THEN "PARTIALLY_FILLED"
                                                      ELSE market[e],
     executed |-> filled[e]]

PlaceAccepted(p) ==
    /\ At(p, "placing")
    /\ Answered(p) = "ACCEPTED"
    /\ Transition(Job(p), "SUBMITTING", "SUBMITTED", TRUE)
    /\ local' = [local EXCEPT ![p].pc = "answered", ![p].seen = Shown(Job(p))]
    /\ UNCHANGED <<attempts, ledger, todo, exchange>>

-----------------------------------------------------------------------------
(* recover() *)

\* Its first transaction.  A FILLED row only has its trades read again; an
\* observed row is looked up where it is; any other goes to RECONCILING.
BeginRecover(p, e, order) ==
    LET there == IF order = NoOrder THEN "lookup" ELSE "fills"
        job == [Idle EXCEPT !.job = e, !.seen = order] IN
    /\ \/ /\ state[e] = "FILLED" /\ orderId[e]
          /\ local' = [local EXCEPT ![p] = [job EXCEPT !.pc = "refill"]]
          /\ UNCHANGED row
       \/ /\ state[e] \in StableObservedStates \cup {"RECONCILING"}
          /\ local' = [local EXCEPT ![p] = [job EXCEPT !.pc = there, !.source = state[e]]]
          /\ UNCHANGED row
       \/ /\ state[e] \in OpenLocalStates \ (StableObservedStates \cup {"RECONCILING"})
          /\ local' = [local EXCEPT ![p] = [job EXCEPT !.pc = there, !.source = "RECONCILING"]]
          /\ Transition(e, state[e], "RECONCILING", order # NoOrder)
          /\ UNCHANGED attempts
       \/ /\ state[e] \notin OpenLocalStates
          /\ ~(state[e] = "FILLED" /\ orderId[e])
          /\ Return(p)
          /\ UNCHANGED row
    /\ UNCHANGED <<ledger, exchange>>

RecoverSubmitted(p) ==
    /\ At(p, "answered")
    /\ BeginRecover(p, Job(p), local[p].seen)
    /\ UNCHANGED todo

Recover(p, e) ==
    /\ p \in Recoverers
    /\ Resting(p)
    /\ state[e] # "ABSENT"
    /\ BeginRecover(p, e, NoOrder)
    /\ UNCHANGED todo

\* reconcile() selects its candidates once and recovers them one by one, here
\* in any order.
CandidatesOpen == {e \in Executions : state[e] \in OpenLocalStates}  \* mutant
Candidates ==
    {e \in Executions : \/ state[e] \in OpenLocalStates
                        \/ state[e] = "FILLED" /\ summary[e] > 0}

Reconcile(p) ==
    /\ p \in Reconcilers
    /\ Resting(p)
    /\ Candidates # {}
    /\ todo' = [todo EXCEPT ![p] = Candidates]
    /\ UNCHANGED <<row, ledger, local, exchange>>

ReconcileOne(p, e) ==
    /\ At(p, "idle")
    /\ e \in todo[p]
    /\ todo' = [todo EXCEPT ![p] = @ \ {e}]
    /\ BeginRecover(p, e, NoOrder)

\* _lookup_order: by order id, by client order id, among the open orders.
LookupFound(p, recognised) ==
    LET order == Shown(Job(p)) IN
    /\ At(p, "lookup")
    /\ market[Job(p)] # "NONE"
    /\ recognised \/ market[Job(p)] = "OPEN"
    /\ local' = [local EXCEPT ![p].pc = "fills",
                   ![p].seen = IF recognised THEN order
                                             ELSE [order EXCEPT !.status = "UNLISTED"]]
    /\ UNCHANGED <<row, ledger, todo, exchange>>

\* Not there yet, not there at all, or the provider failed.
LookupMissing(p) ==
    /\ At(p, "lookup")
    /\ Goto(p, "fills")
    /\ UNCHANGED <<row, ledger, todo, exchange>>

\* recover()'s decision over the order and the quantity the ledger now holds;
\* "doubt": a lookup, the trades or the positions could not be read.
RecoverTarget(order, quantity, doubt) ==
    CASE order.status = "REJECTED" -> IF quantity > 0 THEN "UNKNOWN" ELSE "REJECTED"
      [] order.status = "CANCELLED" -> "CANCELLED"
      [] order.status \notin {"REJECTED", "CANCELLED"} /\ quantity > 0 ->
            IF order.status = "FILLED" \/ quantity >= Quantity
              THEN "FILLED" ELSE "PARTIALLY_FILLED"
      [] order.status = "OPEN" /\ quantity = 0 -> "ACKNOWLEDGED"
      [] order = NoOrder /\ quantity = 0 /\ ~doubt -> "RECOVERY_REQUIRED"
      [] OTHER -> "UNKNOWN"

\* The trades the exchange lists so far, or a summary of the order when it lists
\* none and the order has an average price.
ReadFills(p, listed, priced, doubt) ==
    LET e == Job(p) IN
    /\ At(p, "fills")
    /\ listed \in 0..filled[e]
    /\ IngestFills(e, listed, IF priced THEN local[p].seen.executed ELSE 0)
    /\ local' = [local EXCEPT ![p].pc = "settle",
                   ![p].goal = RecoverTarget(local[p].seen, summary'[e] + detail'[e], doubt)]
    /\ UNCHANGED <<todo, exchange>>

Settle(p) ==
    LET self == local[p] IN
    /\ At(p, "settle")
    /\ IF self.goal = self.source
         THEN UNCHANGED <<state, orderId>>
         ELSE Transition(self.job, self.source, self.goal, self.seen # NoOrder)
    /\ Return(p)
    /\ UNCHANGED <<attempts, ledger, todo, exchange>>

\* A FILLED row: trades that arrive replace its summary.
ReadFillsAgain(p, listed) ==
    /\ At(p, "refill")
    /\ listed \in 0..filled[Job(p)]
    /\ IF listed > 0 THEN IngestFills(Job(p), listed, 0) ELSE UNCHANGED <<row, ledger>>
    /\ Return(p)
    /\ UNCHANGED <<todo, exchange>>

-----------------------------------------------------------------------------
(* cancel() *)

Cancel(p, e) ==
    /\ p \in Cancellers
    /\ Resting(p)
    /\ state[e] \in StableObservedStates
    /\ Transition(e, state[e], "CANCEL_PENDING", FALSE)
    /\ local' = [local EXCEPT ![p] = [Idle EXCEPT !.pc = "cancelling", !.job = e]]
    /\ UNCHANGED <<attempts, ledger, todo, exchange>>

CancelEnds(p, target, learned) ==
    /\ Transition(Job(p), "CANCEL_PENDING", target, learned)
    /\ Return(p)
    /\ UNCHANGED <<attempts, ledger, todo, exchange>>

CancelTimeoutDone(p) == At(p, "cancelling") /\ CancelEnds(p, "CANCELLED", FALSE)  \* mutant
CancelTimeout(p) == At(p, "cancelling") /\ CancelEnds(p, "UNKNOWN", FALSE)

\* The adapter answers with the order it cancelled, or with the one it found
\* already cancelled or filled; either way the row becomes CANCELLED.
CancelDone(p) ==
    /\ At(p, "cancelling")
    /\ market[Job(p)] \in {"CANCELLED", "FILLED"}
    /\ CancelEnds(p, "CANCELLED", TRUE)

\* Any other error leaves the row CANCEL_PENDING.
CancelFailed(p) ==
    /\ At(p, "cancelling")
    /\ Return(p)
    /\ UNCHANGED <<row, ledger, todo, exchange>>

-----------------------------------------------------------------------------
(* The process dies; the exchange goes on. *)

Crash(p) ==
    /\ p \in Crashable
    /\ ~Resting(p)
    /\ Return(p)
    /\ todo' = [todo EXCEPT ![p] = {}]
    /\ UNCHANGED <<row, ledger, exchange>>

Deliver(e, n, outcome) ==
    /\ fate[e][n] = "ON_WIRE"
    /\ fate' = [fate EXCEPT ![e][n] = outcome]
    /\ UNCHANGED <<row, ledger, local, todo, filled>>

AcceptOrder(e, n) ==
    /\ Deliver(e, n, "ACCEPTED")
    /\ market' = [market EXCEPT ![e] = IF @ = "NONE" THEN "OPEN" ELSE @]

DropOrder(e, n, outcome) ==
    /\ outcome \in {"REFUSED", "LOST"}
    /\ Deliver(e, n, outcome)
    /\ UNCHANGED market

FillOrder(e) ==
    /\ market[e] = "OPEN"
    /\ filled' = [filled EXCEPT ![e] = @ + 1]
    /\ market' = [market EXCEPT ![e] = IF filled[e] + 1 = Quantity THEN "FILLED" ELSE @]
    /\ UNCHANGED <<row, ledger, local, todo, fate>>

CloseOrder(e, status) ==
    /\ market[e] = "OPEN"
    /\ status \in {"CANCELLED", "REJECTED"}
    /\ status = "REJECTED" => filled[e] \in FillsBeforeRejection
    /\ market' = [market EXCEPT ![e] = status]
    /\ UNCHANGED <<row, ledger, local, todo, fate, filled>>

-----------------------------------------------------------------------------
SubmitStep(p) ==
    \/ \E e \in Executions : SubmitNew(p, e) \/ SubmitRetry(p, e)
    \/ Validate(p) \/ Enqueue(p) \/ StartSubmitting(p)
    \/ BeginAttempt(p) \/ SendOrder(p)
    \/ PlaceAmbiguous(p) \/ PlaceRefused(p) \/ PlaceAccepted(p)

RecoverStep(p) ==
    \/ RecoverSubmitted(p)
    \/ \E e \in Executions : Recover(p, e) \/ ReconcileOne(p, e)
    \/ Reconcile(p)
    \/ \E recognised \in BOOLEAN : LookupFound(p, recognised)
    \/ LookupMissing(p)
    \/ \E listed \in 0..Quantity, priced, doubt \in BOOLEAN : ReadFills(p, listed, priced, doubt)
    \/ Settle(p)
    \/ \E listed \in 0..Quantity : ReadFillsAgain(p, listed)

CancelStep(p) ==
    \/ \E e \in Executions : Cancel(p, e)
    \/ CancelDone(p) \/ CancelTimeout(p) \/ CancelFailed(p)

ExchangeStep ==
    \E e \in Executions :
        \/ \E n \in AttemptNumbers : AcceptOrder(e, n)
        \/ \E n \in AttemptNumbers, outcome \in {"REFUSED", "LOST"} : DropOrder(e, n, outcome)
        \/ FillOrder(e)
        \/ \E status \in {"CANCELLED", "REJECTED"} : CloseOrder(e, status)

Next ==
    \/ \E p \in Workers : SubmitStep(p) \/ RecoverStep(p) \/ CancelStep(p) \/ Crash(p)
    \/ ExchangeStep

Spec == Init /\ [][Next]_vars

-----------------------------------------------------------------------------
(* Properties *)

\* Rows, fills, coroutines and the exchange are well typed: attempts stay within
\* max_attempts and quantities within the order.
TypeOK ==
    /\ state \in [Executions -> States \cup {"ABSENT"}]
    /\ orderId \in [Executions -> BOOLEAN]
    /\ attempts \in [Executions -> 0..MaxAttempts]
    /\ summary \in [Executions -> 0..Quantity]
    /\ detail \in [Executions -> 0..Quantity]
    /\ posted \in [Executions -> Nat]
    /\ local \in [Workers -> Locals]
    /\ todo \in [Workers -> SUBSET Executions]
    /\ fate \in [Executions -> [AttemptNumbers -> Fates]]
    /\ market \in [Executions -> OrderStatuses \cup {"NONE"}]
    /\ filled \in [Executions -> 0..Quantity]

\* However submissions, retries, timeouts and crashes interleave, the exchange
\* never accepts two orders for one execution.
AtMostOneOrder ==
    \A e \in Executions, m, n \in AttemptNumbers :
        fate[e][m] = "ACCEPTED" /\ fate[e][n] = "ACCEPTED" => m = n

Possible(e) == \E n \in AttemptNumbers : fate[e][n] \in {"ON_WIRE", "ACCEPTED"}

\* An execution waits for a retry, or has failed, only when no request of it can
\* still become an order; it is rejected only then, or when the exchange says so.
RetryIsClean ==
    \A e \in Executions :
        /\ state[e] \in {"RETRY_WAIT", "FAILED"} => ~Possible(e)
        /\ state[e] = "REJECTED" => ~Possible(e) \/ market[e] = "REJECTED"

\* A row that stops before SUBMITTING, whoever died on the way, hides no order:
\* submit() and the reconciliation pass over it for ever.
UnsentIsClean ==
    \A e \in Executions :
        state[e] \in {"ABSENT", "CREATED", "VALIDATED", "QUEUED"} => ~Possible(e)

\* Whoever died on the way, an execution of which a request may still become an
\* order, or has become one, is in a state that the reconciliation looks at or says
\* how the order ended.  Only cancel() makes exceptions: while it waits, and when
\* the order was filled before it could be cancelled.
OrdersInSight ==
    \A e \in Executions : Possible(e) =>
        \/ state[e] \in OpenLocalStates \cup {"CANCEL_PENDING"}
        \/ state[e] = market[e]
        \/ state[e] = "CANCELLED" /\ market[e] = "FILLED"

\* A row that recover() concluded says what the exchange says.
ConclusionIsTrue ==
    \A e \in Executions :
        state[e] \in {"FILLED", "CANCELLED"} => market[e] = state[e]

\* No order is left working, or on its way, behind a row that no reconciliation
\* will look at again, cancelled rows included.
TerminalIsQuiet ==
    \A e \in Executions :
        state[e] \in {"FILLED", "CANCELLED", "REJECTED", "FAILED"} =>
            /\ market[e] # "OPEN"
            /\ \A n \in AttemptNumbers : fate[e][n] # "ON_WIRE"

\* The fills of an execution are never counted twice: its quantity is at most
\* what the exchange has executed, by trades or by a summary, not both.
LedgerIsHonest ==
    \A e \in Executions :
        /\ Executed(e) <= filled[e]
        /\ summary[e] = 0 \/ detail[e] = 0

\* No reconciliation, however late or incomplete its answer, lowers the quantity
\* an execution is known to have executed.
LedgerNeverShrinks == [][\A e \in Executions : Executed(e)' >= Executed(e)]_vars

\* The position ledger, recomputed only when fills are ingested, holds what the
\* execution rows add up to; it is stale in one case, a row that was rejected after
\* some trades of its order had been counted.
PositionIsCurrent ==
    \A e \in Executions :
        \/ posted[e] = Counted(e)
        \/ state[e] = "REJECTED" /\ posted[e] = Executed(e)

\* Whatever interleaves, a row moves only along ALLOWED_LIVE_TRANSITIONS: none is
\* reopened, and no concluded row ever says something else.
MovesAreLegal ==
    [][\A e \in Executions :
          \/ state'[e] = state[e]
          \/ state[e] = "ABSENT" /\ state'[e] = "CREATED"
          \/ state'[e] \in AllowedLiveTransitions(state[e])]_vars

\* recover() never asks transition() for a pair it refuses with ValueError, which
\* would abort the whole reconciliation of the account.
RecoverAsksAllowed ==
    \A p \in Workers :
        At(p, "settle") =>
            local[p].goal \in {local[p].source} \cup AllowedLiveTransitions(local[p].source)

\* An execution that says it is filled ends up with everything the exchange executed.
FillsAreComplete ==
    \A e \in Executions : state[e] = "FILLED" ~> Executed(e) = Quantity

\* Seen from outside, an execution is an order placed at most once, about which
\* ever more is known and one true verdict is given.
Verdict(e) ==
    CASE state[e] \in {"FILLED", "CANCELLED"} -> state[e]
      [] state[e] \in {"REJECTED", "FAILED"} ->
            IF market[e] = "NONE" THEN "NOT_PLACED" ELSE "REJECTED"
      [] OTHER -> "PENDING"

Truth == INSTANCE OrderTruth WITH
    Requests <- AttemptNumbers,
    taken <- [e \in Executions |-> {n \in AttemptNumbers : fate[e][n] = "ACCEPTED"}],
    order <- market,
    executed <- filled,
    known <- [e \in Executions |-> Executed(e)],
    verdict <- [e \in Executions |-> Verdict(e)]

KeepsTruth == Truth!Spec

=============================================================================
