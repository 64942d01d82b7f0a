------------------------- MODULE LiveReconciliation -------------------------
(***************************************************************************)
(* The cycle of LiveReconciliationWorker over one account, whose           *)
(* executions are those of LiveExecution: the selection of the account,    *)
(* LiveReconciliationService.reconcile() with its comparison, and the      *)
(* suspension after which no cycle selects the account again.              *)
(*                                                                         *)
(* The reconcilers are the worker's coroutines.  Submissions go on beside  *)
(* them, for an account that is suspended too: submit() has passed its     *)
(* gate.  cancel() has no caller and is left out.                          *)
(***************************************************************************)
EXTENDS LiveExecution, Functions

\* An exception may end a recovery anywhere.
ASSUME ReconcilersMayFail == Reconcilers \subseteq Crashable

VARIABLES
    watched,  \* the worker selects the account: live_enabled and LIVE_ENABLED
    cycle,    \* a reconciler's place in check_once
    shown     \* ... and the quantity that the exchange's positions() answered it

watch == <<watched, cycle, shown>>
watchVars == <<vars, watch>>

Phases == {"away", "recovering", "comparing"}

WatchInit ==
    /\ Init
    /\ watched = TRUE
    /\ cycle = [p \in Reconcilers |-> "away"]
    /\ shown = [p \in Reconcilers |-> 0]

Phase(p, step) == cycle[p] = step
Enter(p, step) == cycle' = [cycle EXCEPT ![p] = step]

Total(f) == FoldFunction(LAMBDA m, n : m + n, 0, f)

-----------------------------------------------------------------------------
(* The cycle *)

\* _accounts(), then the candidates of the account, if there are any.
SelectAccount(p) ==
    /\ Phase(p, "away")
    /\ watched
    /\ IF Candidates = {} THEN UNCHANGED vars ELSE Reconcile(p)
    /\ Enter(p, "recovering")
    /\ UNCHANGED <<watched, shown>>

RecoverCandidates(p) ==
    /\ Phase(p, "recovering")
    /\ ~Resting(p)
    /\ RecoverStep(p)
    /\ UNCHANGED watch

\* open_orders(), which the local rows explain, and positions(), before the local
\* rows are read.  All executions are on one side of the symbol.
ReadPositions(p) ==
    /\ Phase(p, "recovering")
    /\ Resting(p)
    /\ shown' = [shown EXCEPT ![p] = Total(filled)]
    /\ Enter(p, "comparing")
    /\ UNCHANGED <<vars, watched>>

\* The position ledger, or what the rows add up to when it is empty.
LocalQuantity ==
    LET book == Total(posted) IN
    IF book > 0 THEN book ELSE Total([e \in Executions |-> Counted(e)])

DiffersUnknown(p) == (shown[p] > 0) # (LocalQuantity > 0)  \* mutant
Differs(p) == shown[p] # LocalQuantity

Mismatch(p) ==
    \/ \E e \in Executions : state[e] \in UnresolvedLocalStates
    \/ Differs(p)

\* A mismatch suspends the account, and so does what the owner did by hand at the
\* exchange ("other").
Compare(p, other) ==
    /\ Phase(p, "comparing")
    /\ watched' = (watched /\ ~Mismatch(p) /\ ~other)
    /\ shown' = [shown EXCEPT ![p] = 0]
    /\ Enter(p, "away")
    /\ UNCHANGED vars

\* Any exception in the cycle: _suspend_unavailable().  It leaves a recovery where it
\* was, as the end of the process would.
Unavailable(p) ==
    /\ ~Phase(p, "away")
    /\ watched' = FALSE
    /\ shown' = [shown EXCEPT ![p] = 0]
    /\ Enter(p, "away")
    /\ IF Resting(p) THEN UNCHANGED vars ELSE Crash(p)

CycleStep(p) ==
    \/ SelectAccount(p) \/ RecoverCandidates(p) \/ ReadPositions(p)
    \/ \E other \in BOOLEAN : Compare(p, other)

-----------------------------------------------------------------------------
\* The owner stops the account, or enables it again: see LiveAccount.
StopAccount ==
    /\ watched
    /\ watched' = FALSE
    /\ UNCHANGED <<vars, cycle, shown>>

EnableAccount ==
    /\ ~watched
    /\ watched' = TRUE
    /\ UNCHANGED <<vars, cycle, shown>>

OthersStep ==
    \/ \E p \in Workers \ Reconcilers : SubmitStep(p) \/ RecoverStep(p) \/ Crash(p)
    \/ ExchangeStep

WatchNext ==
    \/ \E p \in Reconcilers : CycleStep(p) \/ Unavailable(p)
    \/ StopAccount \/ EnableAccount
    \/ OthersStep /\ UNCHANGED watch

WatchSpec == WatchInit /\ [][WatchNext]_watchVars

\* run_forever() catches every exception and sleeps for a bounded time: a cycle that
\* can go on does, and begins again while the account is selected, and only then.
\* Of the exchange: asked again and again about an order, it finds it at some time, and
\* lists all its trades at some time; one cycle asks once.  Submitters may stall for ever.
Looks(p, e) == Phase(p, "recovering") /\ Job(p) = e /\ UNCHANGED watch

WatchFairness ==
    \A p \in Reconcilers :
        /\ WF_watchVars(CycleStep(p))
        /\ \A e \in Executions :
              /\ SF_watchVars(Looks(p, e) /\ LookupFound(p, TRUE))
              /\ SF_watchVars(Looks(p, e) /\ ReadFillsAgain(p, filled[e]))

FairWatchSpec == WatchSpec /\ WatchFairness

-----------------------------------------------------------------------------
(* Properties *)

\* The account's selection and every cycle's place are well typed.
WatchTypeOK ==
    /\ TypeOK
    /\ watched \in BOOLEAN
    /\ cycle \in [Reconcilers -> Phases]
    /\ shown \in [Reconcilers -> Nat]

\* Whoever died on the way, an order that has ended at the exchange does not stay
\* misjudged under the worker's eyes: its row learns how it ended, and all it executed,
\* or the account is suspended.  Suspended it may stay, and then nobody learns more.
TruthIsLearned ==
    \A e \in Executions :
        market[e] \in {"FILLED", "CANCELLED", "REJECTED"} ~>
            (state[e] = market[e] /\ Executed(e) = filled[e]) \/ ~watched

\* A filled execution known only by a summary gets its trades while the account is not
\* suspended, when its row holds the exchange's order id (without it there is nothing
\* to ask for, and it never does).
KnownSummaryIsReplaced ==
    \A e \in Executions :
        state[e] = "FILLED" /\ orderId[e] /\ summary[e] > 0 ~> summary[e] = 0 \/ ~watched

=============================================================================
