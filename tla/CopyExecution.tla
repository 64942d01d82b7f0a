--------------------------- MODULE CopyExecution ---------------------------
(***************************************************************************)
(* The durable copy journal and the engine that works it off:              *)
(* services/copy_execution_journal.py, copy_execution_engine.py,           *)
(* execution_queue.py, copy_execution_worker.py and the order-and-fill     *)
(* half of paper_execution_lifecycle.py.                                   *)
(*                                                                         *)
(* Several workers run CopyExecutionWorker.check_once() over one database: *)
(* there is no lease on the cycle, only a lease on each journal row.  Each *)
(* cycle plans new signals (_open), hands expired claims back, and drains  *)
(* the due rows; engine.execute() is the procedure all of that calls.      *)
(*                                                                         *)
(* One transaction is one step.  An exception that leaves execute() ends   *)
(* the whole cycle (run_forever logs it and sleeps): Abort.  Time is not   *)
(* modelled: a lease may have expired, and a retry may be due, at any      *)
(* moment.                                                                 *)
(***************************************************************************)
EXTENDS Naturals

CONSTANTS
    Keys,         \* idempotency keys: one user, account and signal
    Workers,      \* copy execution workers, in any process
    Crashable,    \* workers that may be killed
    MaxAttempts,  \* copy_execution_journal.max_attempts
    Answers,      \* what the adapter may do with a dispatched plan
    NoKey         \* "not working on any key"

ASSUME CopyAssumption ==
    /\ Crashable \subseteq Workers
    /\ MaxAttempts \in Nat \ {0}
    /\ Answers \subseteq {"success", "refused", "raises"}
    /\ NoKey \notin Keys

\* A plan as the engine sees it: refused by the planner, approved but not fit
\* for an order, or approved with a quantity.  Two plans for one key differ when
\* the market or the portfolio moved between them.
Offers == {"REJECTED", "UNFIT", "SMALL", "LARGE"}
Quantity(offer) == CASE offer = "SMALL" -> 1 [] offer = "LARGE" -> 2 [] OTHER -> 0

VARIABLES
    status,     \* copy_execution_journal.status, "ABSENT" before the row exists
    plan,       \* its plan_json, written once
    attempts,   \* its attempt_count
    leased,     \* its lease_expires_at is set
    order,      \* paper_execution_orders.status, "NONE" before the row exists
    requested,  \* its requested_quantity
    bought,     \* its filled_quantity, which is also the position's
    projected,  \* paper_positions has a row for the key
    desk,       \* a worker's place in its cycle, and what it remembers
    list        \* the rows its cycle still has to visit

journal == <<status, plan, attempts, leased>>
paper == <<order, requested, bought>>
vars == <<journal, paper, projected, desk, list>>

-----------------------------------------------------------------------------
Terminal == {"REJECTED", "EXECUTED", "FAILED", "DEAD_LETTER", "CANCELLED"}
JournalStatuses == {"PLANNED", "EXECUTING", "RETRY_WAIT"} \cup Terminal

\* can_transition_journal_state
Allowed(from) ==
    {from} \cup
    CASE from = "PLANNED" -> {"EXECUTING", "REJECTED", "FAILED", "CANCELLED"}
      [] from = "EXECUTING" ->
            {"EXECUTED", "RETRY_WAIT", "FAILED", "DEAD_LETTER", "CANCELLED"}
      [] from = "RETRY_WAIT" -> {"EXECUTING", "DEAD_LETTER", "CANCELLED"}
      [] OTHER -> {}

OrderStatuses == {"SUBMITTED", "ACCEPTED", "PARTIALLY_FILLED", "FILLED", "REJECTED"}

Stages == {"syncing", "recovering", "draining"}
Steps == {"none", "reserve", "unfit", "claim", "dispatch", "submit", "accept", "fill",
          "finish", "failing", "retry", "unclaim", "withdraw", "reject", "return"}

Start == [stage |-> "syncing", pc |-> "none", key |-> NoKey, offer |-> "REJECTED",
        attempt |-> 0, executed |-> {}]
Desks == [stage : Stages, pc : Steps, key : Keys \cup {NoKey}, offer : Offers,
          attempt : Nat, executed : SUBSET Keys]

Init ==
    /\ status = [k \in Keys |-> "ABSENT"]
    /\ plan = [k \in Keys |-> "REJECTED"]
    /\ attempts = [k \in Keys |-> 0]
    /\ leased = [k \in Keys |-> FALSE]
    /\ order = [k \in Keys |-> "NONE"]
    /\ requested = [k \in Keys |-> 0]
    /\ bought = [k \in Keys |-> 0]
    /\ projected = [k \in Keys |-> FALSE]
    /\ desk = [w \in Workers |-> Start]
    /\ list = [w \in Workers |-> {}]

At(w, pc) == desk[w].pc = pc
Free(w, stage) == At(w, "none") /\ desk[w].stage = stage
Key(w) == desk[w].key
Goto(w, pc) == desk' = [desk EXCEPT ![w].pc = pc] /\ UNCHANGED list
Idle(w) == [Start EXCEPT !.stage = desk[w].stage, !.executed = desk[w].executed]
Done(w) == desk' = [desk EXCEPT ![w] = Idle(w)] /\ UNCHANGED list
Abort(w) == desk' = [desk EXCEPT ![w] = Start] /\ list' = [list EXCEPT ![w] = {}]

\* CopyExecutionJournal.transition: a legal pair is written, any other raises.
Transition(w, target, next) ==
    /\ IF target \in Allowed(status[Key(w)])
         THEN /\ status' = [status EXCEPT ![Key(w)] = target]
              /\ Goto(w, next)
         ELSE /\ UNCHANGED status
              /\ Abort(w)
    /\ UNCHANGED <<plan, attempts, leased, paper, projected>>

Keep == UNCHANGED <<journal, paper, projected>>

-----------------------------------------------------------------------------
(* The cycle: sync_all(), recover_expired_claims(), drain(). *)

\* sync_signal(): a signal that has neither a projection nor an open position is
\* planned afresh and executed at once.
Open(w, k, offer) ==
    /\ Free(w, "syncing")
    /\ ~projected[k]
    /\ bought[k] = 0
    /\ desk' = [desk EXCEPT ![w].pc = "reserve", ![w].key = k, ![w].offer = offer]
    /\ UNCHANGED list
    /\ Keep

\* ... one with a position and no projection gets the projection.
SyncExisting(w, k) ==
    /\ Free(w, "syncing")
    /\ ~projected[k]
    /\ bought[k] > 0
    /\ projected' = [projected EXCEPT ![k] = TRUE]
    /\ UNCHANGED <<journal, paper, desk, list>>

\* What recover_expired_claims() selects, for some clock: it keeps each row's
\* attempt_count as it was then.
ExpirableYoung ==  \* mutant
    {k \in Keys : status[k] = "EXECUTING" /\ leased[k] /\ attempts[k] < MaxAttempts}
Expirable == {k \in Keys : status[k] = "EXECUTING" /\ leased[k]}
Claims(expired) == {[key |-> k, attempt |-> attempts[k]] : k \in expired}

ListExpired(w, expired) ==
    /\ Free(w, "syncing") \/ (Free(w, "recovering") /\ list[w] = {})
    /\ expired \subseteq Expirable
    /\ list' = [list EXCEPT ![w] = Claims(expired)]
    /\ desk' = [desk EXCEPT ![w].stage = "recovering"]
    /\ Keep

HandBack(w, claim) ==
    /\ Free(w, "recovering")
    /\ claim \in list[w]
    /\ list' = [list EXCEPT ![w] = @ \ {claim}]
    /\ desk' = [desk EXCEPT ![w].pc = "retry", ![w].key = claim.key,
                            ![w].attempt = claim.attempt]
    /\ Keep

\* pending(): the due rows, with their own plans.
Due(k) == status[k] \in {"PLANNED", "RETRY_WAIT"}
ListPending(w, due) ==
    /\ Free(w, "recovering")
    /\ list[w] = {}
    /\ \A k \in due : Due(k)
    /\ {k \in Keys : status[k] = "PLANNED"} \subseteq due
    /\ list' = [list EXCEPT ![w] = [key : due, attempt : {0}]]
    /\ desk' = [desk EXCEPT ![w].stage = "draining"]
    /\ Keep

Drain(w, claim) ==
    /\ Free(w, "draining")
    /\ claim \in list[w]
    /\ list' = [list EXCEPT ![w] = @ \ {claim}]
    /\ desk' = [desk EXCEPT ![w].pc = "reserve", ![w].key = claim.key,
                            ![w].offer = plan[claim.key]]
    /\ Keep

\* project_execution() for every row this drain executed.
EndCycle(w) ==
    /\ Free(w, "draining")
    /\ list[w] = {}
    /\ projected' = [k \in Keys |-> projected[k] \/ (k \in desk[w].executed /\ bought[k] > 0)]
    /\ Abort(w)
    /\ UNCHANGED <<journal, paper>>

-----------------------------------------------------------------------------
(* engine.execute() *)

\* reserve(): the first plan of a key is stored, later ones meet its row.
Reserve(w) ==
    LET k == Key(w)
        fresh == status[k] = "ABSENT"
        refused == desk[w].offer = "REJECTED" IN
    /\ At(w, "reserve")
    /\ status' = [status EXCEPT ![k] = IF ~fresh THEN @ ELSE
                                       IF refused THEN "REJECTED" ELSE "PLANNED"]
    /\ plan' = [plan EXCEPT ![k] = IF fresh THEN desk[w].offer ELSE @]
    /\ Goto(w, CASE refused -> "withdraw"
                 [] ~refused /\ status[k] \in Terminal -> "return"
                 [] ~refused /\ status[k] \notin Terminal ->
                       IF desk[w].offer = "UNFIT" THEN "unfit" ELSE "claim")
    /\ UNCHANGED <<attempts, leased, paper, projected>>

\* The validation pipeline refuses a plan that cannot become an order.
Check(w) == At(w, "unfit") /\ Transition(w, "REJECTED", "return")

ClaimOf(w, claimable, lost) ==
    LET k == Key(w) IN
    /\ At(w, "claim")
    /\ IF claimable
         THEN /\ status' = [status EXCEPT ![k] = "EXECUTING"]
              /\ attempts' = [attempts EXCEPT ![k] = @ + 1]
              /\ leased' = [leased EXCEPT ![k] = TRUE]
              /\ desk' = [desk EXCEPT ![w].pc = "dispatch", ![w].attempt = attempts[k] + 1]
              /\ UNCHANGED list
         ELSE Goto(w, lost) /\ UNCHANGED <<status, attempts, leased>>
    /\ UNCHANGED <<plan, paper, projected>>

ClaimAny(w) == ClaimOf(w, status[Key(w)] \notin {"EXECUTING", "EXECUTED"}, "return")  \* mutant
ClaimIgnored(w) == ClaimOf(w, Due(Key(w)), "dispatch")  \* mutant
Claim(w) == ClaimOf(w, Due(Key(w)), "return")

DispatchDone(w, answer) ==  \* mutant
    /\ At(w, "dispatch")
    /\ answer \in Answers
    /\ Goto(w, CASE answer = "success" -> "finish" [] answer = "refused" -> "failing"
                 [] OTHER -> "retry")
    /\ Keep

Dispatch(w, answer) ==
    /\ At(w, "dispatch")
    /\ answer \in Answers
    /\ Goto(w, CASE answer = "success" -> "submit" [] answer = "refused" -> "failing"
                 [] OTHER -> "retry")
    /\ Keep

\* ExecutionRetryPolicy.decide, on the attempt this worker knows of; then the
\* first transaction of schedule_retry() or dead_letter().
GiveBackUnwritten(w) == At(w, "retry") /\ Goto(w, "unclaim") /\ Keep  \* mutant
GiveBack(w) ==
    /\ At(w, "retry")
    /\ Transition(w, IF desk[w].attempt < MaxAttempts THEN "RETRY_WAIT" ELSE "DEAD_LETTER",
                  "unclaim")

\* ... and the second, which clears whatever claim the row has by now.
Unclaim(w) ==
    /\ At(w, "unclaim")
    /\ leased' = [leased EXCEPT ![Key(w)] = FALSE]
    /\ Done(w)
    /\ UNCHANGED <<status, plan, attempts, paper, projected>>

Fail(w) == At(w, "failing") /\ Transition(w, "FAILED", "return")

-----------------------------------------------------------------------------
(* PaperExecutionLifecycle.execute_market() and reject() *)

\* submit(): the order row is created by whoever comes first, with his quantity.
OrderRow(w) ==
    LET k == Key(w)
        fresh == order[k] = "NONE" IN
    /\ order' = [order EXCEPT ![k] = IF fresh THEN "SUBMITTED" ELSE @]
    /\ requested' = [requested EXCEPT ![k] = IF fresh THEN Quantity(desk[w].offer) ELSE @]
    /\ UNCHANGED <<journal, bought, projected>>

Submit(w) ==
    /\ At(w, "submit")
    /\ OrderRow(w)
    /\ Goto(w, CASE order[Key(w)] \in {"FILLED", "PARTIALLY_FILLED"} -> "finish"
                 [] order[Key(w)] \in {"NONE", "SUBMITTED"} -> "accept"
                 [] OTHER -> "fill")

\* PaperExecutionLifecycle.transition
OrderMove(w, froms, target, next) ==
    /\ IF order[Key(w)] \in froms \cup {target}
         THEN /\ order' = [order EXCEPT ![Key(w)] = target]
              /\ Goto(w, next)
         ELSE /\ UNCHANGED order
              /\ Abort(w)
    /\ UNCHANGED <<journal, requested, bought, projected>>

Accept(w) == At(w, "accept") /\ OrderMove(w, {"SUBMITTED"}, "ACCEPTED", "fill")

\* record_fill(), under the fill key "<key>:full".
FillOf(w, applied) ==
    LET k == Key(w) IN
    /\ At(w, "fill")
    /\ IF order[k] = "REJECTED"
         THEN Abort(w) /\ UNCHANGED <<order, bought>>
         ELSE /\ bought' = [bought EXCEPT ![k] = @ + applied]
              /\ order' = [order EXCEPT ![k] =
                             IF applied = 0 THEN @
                             ELSE IF bought[k] + applied = requested[k] THEN "FILLED"
                             ELSE "PARTIALLY_FILLED"]
              /\ Goto(w, "finish")
    /\ UNCHANGED <<journal, requested, projected>>

Fitting(k, size) == IF size <= requested[k] - bought[k] THEN size ELSE requested[k] - bought[k]

FillTwice(w) == FillOf(w, Fitting(Key(w), Quantity(desk[w].offer)))  \* mutant
FillOver(w) == FillOf(w, Quantity(desk[w].offer))  \* mutant
Fill(w) ==
    FillOf(w, IF bought[Key(w)] > 0 THEN 0 ELSE Fitting(Key(w), Quantity(desk[w].offer)))

Finish(w) == At(w, "finish") /\ Transition(w, "EXECUTED", "return")

\* reject(): the order of a refused plan is created and withdrawn.
Withdraw(w) ==
    /\ At(w, "withdraw")
    /\ OrderRow(w)
    /\ Goto(w, IF order[Key(w)] = "REJECTED" THEN "return" ELSE "reject")

Reject(w) == At(w, "reject") /\ OrderMove(w, {"SUBMITTED"}, "REJECTED", "return")

\* execute() returns: _open() shows a refused plan or an executed one in
\* paper_positions, drain() keeps the result for the end of the cycle.
Return(w) ==
    LET k == Key(w)
        executed == status[k] = "EXECUTED" IN
    /\ At(w, "return")
    /\ \/ /\ desk[w].stage = "syncing"
          /\ projected' = [projected EXCEPT ![k] =
                              @ \/ desk[w].offer = "REJECTED" \/ (executed /\ bought[k] > 0)]
          /\ Done(w)
       \/ /\ desk[w].stage = "draining"
          /\ desk' = [desk EXCEPT ![w] =
                        [Idle(w) EXCEPT !.executed = IF executed THEN @ \cup {k} ELSE @]]
          /\ UNCHANGED <<projected, list>>
    /\ UNCHANGED <<journal, paper>>

Crash(w) ==
    /\ w \in Crashable
    /\ desk[w] # Start
    /\ Abort(w)
    /\ Keep

-----------------------------------------------------------------------------
CycleStep(w) ==
    \/ \E k \in Keys : SyncExisting(w, k) \/ \E offer \in Offers : Open(w, k, offer)
    \/ \E expired \in SUBSET Keys : ListExpired(w, expired)
    \/ \E due \in SUBSET Keys : ListPending(w, due)
    \/ \E claim \in list[w] : HandBack(w, claim) \/ Drain(w, claim)
    \/ EndCycle(w)

EngineStep(w) ==
    \/ Reserve(w) \/ Check(w) \/ Claim(w)
    \/ \E answer \in Answers : Dispatch(w, answer)
    \/ GiveBack(w) \/ Unclaim(w) \/ Fail(w)
    \/ Submit(w) \/ Accept(w) \/ Fill(w) \/ Finish(w)
    \/ Withdraw(w) \/ Reject(w) \/ Return(w)

Next == \E w \in Workers : CycleStep(w) \/ EngineStep(w) \/ Crash(w)

Spec == Init /\ [][Next]_vars

\* run_forever() survives every exception, and what has expired is found expired
\* by some later cycle.  Workers that may be killed owe nothing.
Fairness ==
    \A w \in Workers \ Crashable :
        /\ WF_vars(CycleStep(w) \/ EngineStep(w))
        /\ SF_vars(ListExpired(w, Expirable))

FairSpec == Spec /\ Fairness

-----------------------------------------------------------------------------
(* Properties *)

TypeOK ==
    /\ status \in [Keys -> JournalStatuses \cup {"ABSENT"}]
    /\ plan \in [Keys -> Offers]
    /\ attempts \in [Keys -> Nat]
    /\ leased \in [Keys -> BOOLEAN]
    /\ order \in [Keys -> OrderStatuses \cup {"NONE"}]
    /\ requested \in [Keys -> 0..2]
    /\ bought \in [Keys -> 0..2]
    /\ projected \in [Keys -> BOOLEAN]
    /\ desk \in [Workers -> Desks]
    /\ list \in [Workers -> SUBSET [key : Keys, attempt : Nat]]

\* However often a plan is executed - by two workers at once, after a lost lease,
\* after a crash before the journal was written - its order is filled once.
FilledOnce == [][\A k \in Keys : bought[k] > 0 => bought'[k] = bought[k]]_vars

\* A plan that was refused, or never claimed, has no position.
RefusedHasNoPosition ==
    \A k \in Keys : status[k] \in {"ABSENT", "PLANNED", "REJECTED"} => bought[k] = 0

\* The journal says EXECUTED only of a plan whose order was filled; the exception
\* is an order that a refused plan for the same key had created with no quantity.
ExecutedIsFilled ==
    \A k \in Keys :
        status[k] = "EXECUTED" => order[k] # "NONE" /\ (bought[k] > 0 \/ requested[k] = 0)

\* A row that has ended stays as it ended, whatever late workers still write.
TerminalIsFinal ==
    [][\A k \in Keys : status[k] \in Terminal => status'[k] = status[k]]_vars

\* A claim whose lease is set is given up or completed, whoever died holding it.
LeasedClaimsEnd ==
    \A k \in Keys :
        status[k] = "EXECUTING" /\ leased[k] ~> status[k] # "EXECUTING" \/ ~leased[k]

\* Every claim is (what V9_9_6_RECOVERY_RELIABILITY.md says).
ExpiredClaimsAreRecovered ==
    \A k \in Keys : status[k] = "EXECUTING" ~> status[k] # "EXECUTING"

\* A claim that is being executed loses its lease, and with it every chance of
\* being recovered, only to a worker that was giving an older claim of the same
\* row back: the row was claimed again between his two transactions.
OnlyOvertakenStrands ==
    [][\A k \in Keys :
          status[k] = "EXECUTING" /\ leased[k] /\ ~leased'[k] =>
              \E w \in Workers :
                  At(w, "unclaim") /\ Key(w) = k /\ desk[w].attempt < attempts[k]]_vars

\* Seen from outside a key is a job done at most once, and not at all once it is
\* refused.
Outcome(k) ==
    CASE status[k] = "ABSENT" -> "NONE"
      [] status[k] \in {"PLANNED", "EXECUTING", "RETRY_WAIT"} -> "OPEN"
      [] status[k] = "REJECTED" -> "REFUSED"
      [] status[k] = "EXECUTED" -> IF bought[k] > 0 THEN "DONE" ELSE "VOID"
      [] OTHER -> "GIVEN_UP"

Job == INSTANCE CopyJob WITH
    outcome <- [k \in Keys |-> Outcome(k)],
    effect <- bought

KeepsJob == Job!Spec

=============================================================================
