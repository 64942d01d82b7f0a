---------------------- MODULE LiveExecutionRefinement ----------------------
(***************************************************************************)
(* What the steps of LiveExecution may do, proved from its inductive       *)
(* invariant: rows move along the table, the quantity known of an          *)
(* execution never shrinks, the position ledger is current, conclusions    *)
(* are true, and LiveExecution implements OrderTruth.  TrueConclusion and  *)
(* Implementation assume that cancel() has no caller, which is so in       *)
(* production; ExactPosition assumes an exchange that gives no trades to   *)
(* an order it rejects.                                                    *)
(***************************************************************************)
EXTENDS LiveExecutionProofs

-----------------------------------------------------------------------------
(* The five kinds of steps.                                                *)

Terminal == {"FILLED", "CANCELLED", "REJECTED", "FAILED"}

\* A row's state may follow another: by the table, or when the row is created.
Follows(to, from) ==
    \/ to = "CREATED" /\ from \in {"ABSENT", "CREATED"}
    \/ to \in AllowedLiveTransitions(from)

\* A row moves as it may; if into a terminal state, truthfully.
Writes(e, to) ==
    /\ state' = [state EXCEPT ![e] = to]
    /\ Follows(to, state[e]) /\ to # "CANCEL_PENDING"
    /\ to \in {"FILLED", "CANCELLED"} => market[e] = to
    /\ to = "REJECTED" => Clean(e) \/ market[e] = "REJECTED"
    /\ to = "FAILED" => Clean(e)
    /\ UNCHANGED <<ledger, exchange>>

\* Trades or a summary that the exchange has executed enter the ledger.
Ingests(e, listed, total) ==
    /\ listed \in 0..filled[e]
    /\ total \in 0..filled[e]
    /\ IngestFills(e, listed, total)
    /\ UNCHANGED exchange

\* A request goes on the wire.
Sends(e, n) ==
    /\ fate[e][n] # "ACCEPTED"
    /\ fate' = [fate EXCEPT ![e][n] = "ON_WIRE"]
    /\ UNCHANGED <<state, ledger, market, filled>>

WorkerStep ==
    \/ UNCHANGED <<state, ledger, exchange>>
    \/ \E e \in Executions, to \in States : Writes(e, to)
    \/ \E e \in Executions, listed, total \in 0..Quantity : Ingests(e, listed, total)
    \/ \E e \in Executions, n \in AttemptNumbers : Sends(e, n)

\* The table has no way out of a terminal state.
LEMMA FinalStates ==
  ASSUME NEW from, NEW to, Follows(to, from)
  PROVE  from \notin Terminal
  BY DEF Follows, AllowedLiveTransitions, Terminal

\* A compare-and-set that the table allows writes, or does nothing.
LEMMA TransitionWrites ==
  ASSUME IInv, NEW e \in Executions, NEW from, NEW to \in States, NEW learned \in BOOLEAN,
         Transition(e, from, to, learned), UNCHANGED <<ledger, exchange>>,
         to \in AllowedLiveTransitions(from), to # "CANCEL_PENDING",
         to \in {"FILLED", "CANCELLED"} => market[e] = to,
         to = "REJECTED" => Clean(e) \/ market[e] = "REJECTED",
         to = "FAILED" => Clean(e)
  PROVE  WorkerStep
<1>1. TypeOK  BY DEF IInv
<1>2. CASE state[e] = from
  <2>1. state' = [state EXCEPT ![e] = to]  BY <1>1, <1>2 DEF Transition, TypeOK
  <2>2. Writes(e, to)  BY <1>2, <2>1 DEF Writes, Follows
  <2> QED  BY <2>2 DEF WorkerStep
<1>3. CASE state[e] # from
  <2>1. UNCHANGED state  BY <1>1, <1>3 DEF Transition, TypeOK
  <2> QED  BY <2>1 DEF WorkerStep
<1> QED  BY <1>2, <1>3

\* What submit() does, seen from outside a worker.
LEMMA SubmitKinds ==
  ASSUME IInv, NEW p \in Workers, SubmitStep(p)
  PROVE  WorkerStep
<1> DEFINE j == Job(p)
<1>1. SenderOK(p) /\ TypeOK  BY DEF IInv, WorkerInv
<1>2. ASSUME NEW e \in Executions, SubmitNew(p, e)  PROVE WorkerStep
  <2>1. Writes(e, "CREATED") /\ "CREATED" \in States
    BY <1>2 DEF SubmitNew, Writes, Follows, States
  <2> QED  BY <2>1 DEF WorkerStep
<1>3. ASSUME NEW e \in Executions, SubmitRetry(p, e)  PROVE WorkerStep
  BY <1>3 DEF SubmitRetry, WorkerStep, row
<1>4. ASSUME NEW here \in {"created", "validated", "queued"}, NEW from, NEW to \in States, NEW there,
             Claim(p, here, from, to, there), to \in AllowedLiveTransitions(from),
             to \notin Terminal \cup {"CANCEL_PENDING"}
      PROVE  WorkerStep
  <2>1. j \in Executions  BY <1>1, <1>4 DEF Claim, At, SenderOK
  <2>2. Transition(j, from, to, FALSE) /\ UNCHANGED <<ledger, exchange>>
    BY <1>4 DEF Claim
  <2> HIDE DEF j
  <2> QED  BY <1>4, <2>1, <2>2, TransitionWrites DEF Terminal
<1>5. CASE Validate(p)
  BY <1>4, <1>5 DEF Validate, Terminal, AllowedLiveTransitions, States
<1>6. CASE Enqueue(p)
  BY <1>4, <1>6 DEF Enqueue, Terminal, AllowedLiveTransitions, States
<1>7. CASE StartSubmitting(p)
  <2>1. local[p].source \in {"QUEUED", "RETRY_WAIT"}
    BY <1>1, <1>7 DEF StartSubmitting, Claim, At, SenderOK
  <2>2. "SUBMITTING" \in AllowedLiveTransitions(local[p].source)
    BY <2>1 DEF AllowedLiveTransitions
  <2> QED  BY <1>4, <1>7, <2>2 DEF StartSubmitting, Terminal, States
<1>8. CASE BeginAttempt(p)
  BY <1>8 DEF BeginAttempt, WorkerStep
<1>9. CASE SendOrder(p)
  <2> DEFINE n == local[p].attempt
  <2>1. j \in Executions /\ n = attempts[j] /\ n >= 1 /\ Clean(j)
    BY <1>1, <1>9 DEF SendOrder, At, SenderOK
  <2>2. n \in AttemptNumbers
    BY <1>1, <2>1, BoundsAssumption DEF TypeOK, AttemptNumbers
  <2>3. Sends(j, n)  BY <1>9, <2>1, <2>2 DEF SendOrder, Sends, Clean, row
  <2> QED  BY <2>1, <2>2, <2>3 DEF WorkerStep
<1>10. ASSUME NEW to \in {"UNKNOWN", "REJECTED", "FAILED", "RETRY_WAIT"}, PlaceEnds(p, to),
              local[p].pc \in {"begun", "placing"}, to # "UNKNOWN" => Clean(j)
       PROVE  WorkerStep
  <2>1. j \in Executions  BY <1>1, <1>10 DEF SenderOK
  <2>2. Transition(j, "SUBMITTING", to, FALSE) /\ UNCHANGED <<ledger, exchange>>
    BY <1>10 DEF PlaceEnds
  <2>3. to \in States /\ to \in AllowedLiveTransitions("SUBMITTING")
    BY DEF States, AllowedLiveTransitions
  <2>4. to # "UNKNOWN" => Clean(j)  BY <1>10
  <2> HIDE DEF j
  <2> QED  BY <2>1, <2>2, <2>3, <2>4, TransitionWrites
<1>11. CASE PlaceAmbiguous(p)
  BY <1>10, <1>11 DEF PlaceAmbiguous, At
<1>12. CASE PlaceRefused(p)
  <2>1. Clean(j) /\ local[p].pc \in {"begun", "placing"}  BY <1>12, RefusedIsClean
  <2> QED  BY <1>10, <1>12, <2>1 DEF PlaceRefused
<1>13. CASE PlaceAccepted(p)
  <2>1. j \in Executions  BY <1>1, <1>13 DEF PlaceAccepted, At, SenderOK
  <2>2. Transition(j, "SUBMITTING", "SUBMITTED", TRUE) /\ UNCHANGED <<ledger, exchange>>
    BY <1>13 DEF PlaceAccepted
  <2>3. "SUBMITTED" \in States /\ "SUBMITTED" \in AllowedLiveTransitions("SUBMITTING")
    BY DEF States, AllowedLiveTransitions
  <2> HIDE DEF j
  <2> QED  BY <2>1, <2>2, <2>3, TransitionWrites
<1> QED
  BY <1>2, <1>3, <1>5, <1>6, <1>7, <1>8, <1>9, <1>11, <1>12, <1>13 DEF SubmitStep

\* What recover() and reconcile() do.
LEMMA RecoverKinds ==
  ASSUME IInv, NEW p \in Workers, RecoverStep(p)
  PROVE  WorkerStep
<1> DEFINE j == Job(p)
<1>1. SenderOK(p) /\ GoalOK(p) /\ TypeOK  BY DEF IInv, WorkerInv
<1>2. ASSUME NEW e \in Executions, NEW order, BeginRecover(p, e, order)  PROVE WorkerStep
  <2>1. UNCHANGED <<ledger, exchange>>  BY <1>2 DEF BeginRecover
  <2>2. \/ UNCHANGED state
        \/ /\ state[e] \in OpenLocalStates \ (StableObservedStates \cup {"RECONCILING"})
           /\ Transition(e, state[e], "RECONCILING", order # NoOrder)
    BY <1>2 DEF BeginRecover, row
  <2>3. CASE UNCHANGED state  BY <2>1, <2>3 DEF WorkerStep
  <2>4. CASE /\ state[e] \in OpenLocalStates \ (StableObservedStates \cup {"RECONCILING"})
             /\ Transition(e, state[e], "RECONCILING", order # NoOrder)
    <3>1. (order # NoOrder) \in BOOLEAN /\ "RECONCILING" \in States  BY DEF States
    <3>2. "RECONCILING" \in AllowedLiveTransitions(state[e])
      BY <2>4 DEF OpenLocalStates, StableObservedStates, AllowedLiveTransitions
    <3> QED  BY <2>1, <2>4, <3>1, <3>2, TransitionWrites
  <2> QED  BY <2>2, <2>3, <2>4
<1>3. CASE RecoverSubmitted(p)
  <2>1. j \in Executions  BY <1>1, <1>3 DEF RecoverSubmitted, At, SenderOK
  <2> QED  BY <1>2, <1>3, <2>1 DEF RecoverSubmitted
<1>4. CASE \E e \in Executions : Recover(p, e) \/ ReconcileOne(p, e)
  BY <1>2, <1>4 DEF Recover, ReconcileOne
<1>5. CASE \/ Reconcile(p) \/ LookupMissing(p)
           \/ \E recognised \in BOOLEAN : LookupFound(p, recognised)
  BY <1>5 DEF Reconcile, LookupMissing, LookupFound, WorkerStep, row
<1>6. ASSUME NEW listed \in 0..Quantity, NEW priced \in BOOLEAN, NEW doubt \in BOOLEAN,
             ReadFills(p, listed, priced, doubt)
      PROVE  WorkerStep
  <2> DEFINE total == IF priced THEN local[p].seen.executed ELSE 0
  <2>1. j \in Executions  BY <1>1, <1>6 DEF ReadFills, At, SenderOK
  <2>2. total \in 0..filled[j] /\ filled[j] \in 0..Quantity
    BY <2>1, SummaryBound
  <2>3. Ingests(j, listed, total)  BY <1>6, <2>2 DEF ReadFills, Ingests
  <2>4. total \in 0..Quantity  BY <2>2, BoundsAssumption
  <2> QED  BY <2>1, <2>3, <2>4 DEF WorkerStep
<1>7. CASE Settle(p)
  <2>1. /\ local[p].pc = "settle" /\ j \in Executions /\ local[p].goal \in States
        /\ UNCHANGED <<ledger, exchange>>
    BY <1>1, <1>7 DEF Settle, At, SenderOK, GoalOK, States
  <2>2. local[p].goal \in {"FILLED", "CANCELLED", "REJECTED"} => market[j] = local[p].goal
    BY <1>1, <2>1 DEF GoalOK
  <2>3. local[p].goal \notin {"FAILED", "CANCEL_PENDING"}  BY <1>1, <2>1 DEF GoalOK
  <2>4. CASE UNCHANGED <<state, orderId>>  BY <2>1, <2>4 DEF WorkerStep
  <2>5. CASE /\ local[p].goal # local[p].source
             /\ Transition(j, local[p].source, local[p].goal, local[p].seen # NoOrder)
    <3>1. (local[p].seen # NoOrder) \in BOOLEAN  OBVIOUS
    <3>2. local[p].goal \in AllowedLiveTransitions(local[p].source)
      BY <2>1, <2>5, AllowedFact DEF RecoverAsksAllowed, At
    <3> HIDE DEF j
    <3> QED  BY <2>1, <2>2, <2>3, <2>5, <3>1, <3>2, TransitionWrites
  <2> QED  BY <1>7, <2>4, <2>5 DEF Settle, Job
<1>8. ASSUME NEW listed \in 0..Quantity, ReadFillsAgain(p, listed)  PROVE WorkerStep
  <2>1. j \in Executions  BY <1>1, <1>8 DEF ReadFillsAgain, At, SenderOK
  <2>2. CASE UNCHANGED <<row, ledger>>
    BY <1>8, <2>2 DEF ReadFillsAgain, WorkerStep, row
  <2>3. CASE IngestFills(j, listed, 0)
    <3>1. 0 \in 0..filled[j] /\ 0 \in 0..Quantity
      BY <1>1, <2>1, BoundsAssumption DEF TypeOK
    <3>2. Ingests(j, listed, 0)  BY <1>8, <2>3, <3>1 DEF ReadFillsAgain, Ingests
    <3> QED  BY <2>1, <3>1, <3>2 DEF WorkerStep
  <2> QED  BY <1>8, <2>2, <2>3 DEF ReadFillsAgain
<1> QED  BY <1>3, <1>4, <1>5, <1>6, <1>7, <1>8 DEF RecoverStep

\* cancel(), crashes and the exchange leave the ledger alone.
LEMMA OtherKinds ==
  ASSUME NEW p \in Workers
  PROVE  /\ CancelStep(p) => UNCHANGED <<ledger, exchange>>
         /\ Crash(p) => UNCHANGED <<state, ledger, exchange>>
         /\ ExchangeStep => UNCHANGED <<row, ledger, local>>
<1>1. CancelStep(p) => UNCHANGED <<ledger, exchange>>
  BY DEF CancelStep, Cancel, CancelDone, CancelTimeout, CancelFailed, CancelEnds
<1>2. Crash(p) => UNCHANGED <<state, ledger, exchange>>
  BY DEF Crash, row
<1>3. ExchangeStep => UNCHANGED <<row, ledger, local>>
  BY DEF ExchangeStep, AcceptOrder, DropOrder, Deliver, FillOrder, CloseOrder
<1> QED  BY <1>1, <1>2, <1>3

\* A row moves as the table allows, cancel() included.
LEMMA RowKinds ==
  ASSUME IInv, [Next]_vars, NEW e \in Executions
  PROVE  state'[e] = state[e] \/ Follows(state'[e], state[e])
<1>1. TypeOK  BY DEF IInv
<1>2. ASSUME WorkerStep  PROVE state'[e] = state[e] \/ Follows(state'[e], state[e])
  <2>1. CASE \E x \in Executions, to \in States : Writes(x, to)
    BY <1>1, <2>1 DEF Writes, TypeOK
  <2> QED  BY <1>2, <2>1 DEF WorkerStep, Ingests, IngestFills, Sends, row
<1>3. ASSUME NEW p \in Workers, CancelStep(p)
      PROVE  state'[e] = state[e] \/ Follows(state'[e], state[e])
  <2>1. ASSUME NEW x, NEW from, NEW to \in AllowedLiveTransitions(from), NEW learned,
               Transition(x, from, to, learned)
        PROVE  state'[e] = state[e] \/ Follows(state'[e], state[e])
    BY <1>1, <2>1 DEF Transition, Follows, TypeOK
  <2>2. \A from \in StableObservedStates : "CANCEL_PENDING" \in AllowedLiveTransitions(from)
    BY DEF StableObservedStates, AllowedLiveTransitions
  <2>3. {"CANCELLED", "UNKNOWN"} \subseteq AllowedLiveTransitions("CANCEL_PENDING")
    BY DEF AllowedLiveTransitions
  <2>4. CASE \E x \in Executions : Cancel(p, x)
    BY <2>1, <2>2, <2>4 DEF Cancel
  <2>5. CASE CancelDone(p) \/ CancelTimeout(p)
    BY <2>1, <2>3, <2>5 DEF CancelDone, CancelTimeout, CancelEnds
  <2>6. CASE CancelFailed(p)
    BY <2>6 DEF CancelFailed, row
  <2> QED  BY <1>3, <2>4, <2>5, <2>6 DEF CancelStep
<1>4. CASE \E p \in Workers : SubmitStep(p) \/ RecoverStep(p)
  BY <1>2, <1>4, SubmitKinds, RecoverKinds
<1>5. CASE \E p \in Workers : Crash(p)
  BY <1>5 DEF Crash, row
<1>6. CASE ExchangeStep \/ UNCHANGED vars
  BY <1>6
  DEF ExchangeStep, AcceptOrder, DropOrder, Deliver, FillOrder, CloseOrder, row, vars
<1> QED  BY <1>3, <1>4, <1>5, <1>6 DEF Next

\* Whatever submissions, recoveries, cancellations and deaths interleave, a row
\* moves only along the table, though every one of them writes what it decided
\* from an earlier reading.
THEOREM LegalMoves == Spec => MovesAreLegal
<1>1. IInv /\ [Next]_vars =>
        [\A e \in Executions :
           \/ state'[e] = state[e]
           \/ state[e] = "ABSENT" /\ state'[e] = "CREATED"
           \/ state'[e] \in AllowedLiveTransitions(state[e])]_vars
  BY RowKinds DEF Follows
<1> QED  BY <1>1, Invariance, PTL DEF Spec, MovesAreLegal

\* Only ingest_fills() changes the ledger.
LEMMA LedgerKinds ==
  ASSUME IInv, [Next]_vars
  PROVE  \/ UNCHANGED ledger
         \/ /\ \E e \in Executions, listed, total \in 0..Quantity : Ingests(e, listed, total)
            /\ UNCHANGED row
<1>1. ASSUME WorkerStep
      PROVE  \/ UNCHANGED ledger
             \/ /\ \E e \in Executions, listed, total \in 0..Quantity : Ingests(e, listed, total)
                /\ UNCHANGED row
  BY <1>1 DEF WorkerStep, Writes, Sends, Ingests, IngestFills
<1>2. CASE \E p \in Workers : SubmitStep(p) \/ RecoverStep(p)
  BY <1>1, <1>2, SubmitKinds, RecoverKinds
<1>3. CASE \E p \in Workers : CancelStep(p) \/ Crash(p)
  BY <1>3, OtherKinds
<1>4. CASE ExchangeStep
  BY <1>4 DEF ExchangeStep, AcceptOrder, DropOrder, Deliver, FillOrder, CloseOrder
<1>5. CASE UNCHANGED vars
  BY <1>5 DEF vars
<1> QED  BY <1>2, <1>3, <1>4, <1>5 DEF Next

-----------------------------------------------------------------------------
(* The ledger.                                                             *)

\* No answer, however late or incomplete, lowers a quantity already known:
\* trades replace a summary only when they cover it.
THEOREM GrowingLedger == Spec => LedgerNeverShrinks
<1>1. IInv /\ [Next]_vars => [\A e \in Executions : Executed(e)' >= Executed(e)]_vars
  <2> SUFFICES ASSUME IInv, [Next]_vars, NEW e \in Executions
               PROVE  Executed(e)' >= Executed(e)
    OBVIOUS
  <2>1. TypeOK /\ LedgerIsHonest  BY DEF IInv
  <2>2. CASE UNCHANGED ledger
    <3>1. Executed(e)' = Executed(e) /\ Executed(e) \in Nat
      BY <2>1, <2>2, BoundsAssumption DEF Executed, ledger, TypeOK
    <3> QED  BY <3>1
  <2>3. ASSUME NEW x \in Executions, NEW listed \in 0..Quantity, NEW total \in 0..Quantity,
               Ingests(x, listed, total)
        PROVE  Executed(e)' >= Executed(e)
    BY <2>1, <2>3, IngestFacts DEF Ingests, Executed
  <2> QED  BY <2>2, <2>3, LedgerKinds
<1> QED  BY <1>1, Invariance, PTL DEF Spec, LedgerNeverShrinks

\* Nothing is ever executed for a FAILED row, since none of its requests became
\* an order, nor for a REJECTED one when the exchange gives no trades to an order
\* that it rejects.
LEMMA NothingFilled ==
  ASSUME IInv, NEW e \in Executions,
         \/ state[e] = "FAILED"
         \/ state[e] = "REJECTED" /\ FillsBeforeRejection = {0}
  PROVE  filled[e] = 0 /\ Executed(e) = 0
<1>1. AttemptOK(e) /\ MarketOK(e) /\ TypeOK /\ LedgerIsHonest  BY DEF IInv, ExecutionInv
<1>2. filled[e] = 0
  BY <1>1 DEF AttemptOK, MarketOK, Clean
<1>3. Executed(e) \in Nat  BY <1>1, BoundsAssumption DEF TypeOK, Executed
<1> QED  BY <1>1, <1>2, <1>3 DEF LedgerIsHonest

\* Every transaction that changes a fill recomputes the position rows from all
\* of them; of the others only the one that rejects a row should do it too, and
\* a terminal row stays as it is.
THEOREM CurrentPosition == Spec => []PositionIsCurrent
<1>1. Init => PositionIsCurrent
  <2> SUFFICES ASSUME Init, NEW e \in Executions  PROVE posted[e] = Counted(e)
    BY DEF PositionIsCurrent
  <2>1. summary[e] = 0 /\ detail[e] = 0 /\ posted[e] = 0  BY DEF Init
  <2> QED  BY <2>1 DEF Counted, Executed
<1>2. IInv /\ IInv' /\ PositionIsCurrent /\ [Next]_vars => PositionIsCurrent'
  <2> SUFFICES ASSUME IInv, IInv', PositionIsCurrent, [Next]_vars, NEW e \in Executions
               PROVE  \/ posted'[e] = Counted(e)'
                      \/ state'[e] = "REJECTED" /\ posted'[e] = Executed(e)'
    BY DEF PositionIsCurrent
  <2>1. CASE UNCHANGED ledger
    <3>1. posted'[e] = posted[e] /\ Executed(e)' = Executed(e)
      BY <2>1 DEF ledger, Executed
    <3>2. \/ posted[e] = Counted(e)
          \/ state[e] = "REJECTED" /\ posted[e] = Executed(e)
      BY DEF PositionIsCurrent
    <3>3. CASE state'[e] = state[e]
      BY <3>1, <3>2, <3>3 DEF Counted
    <3>4. CASE state[e] \notin Terminal
      <4>1. posted'[e] = Executed(e)'  BY <3>1, <3>2, <3>4 DEF Counted, Terminal
      <4>2. state'[e] = "FAILED" => Executed(e)' = 0
        <5>1. /\ AttemptOK(e)' /\ MarketOK(e)' /\ LedgerIsHonest'
              /\ Executed(e)' \in Nat
          BY BoundsAssumption DEF IInv, ExecutionInv, TypeOK, Executed
        <5>2. state'[e] = "FAILED" => filled'[e] = 0  BY <5>1 DEF AttemptOK, MarketOK, Clean
        <5> QED  BY <5>1, <5>2 DEF LedgerIsHonest
      <4> QED  BY <4>1, <4>2 DEF Counted
    <3> QED  BY <3>3, <3>4, RowKinds, FinalStates
  <2>2. CASE \E x \in Executions, listed, total \in 0..Quantity : Ingests(x, listed, total)
    BY <2>2 DEF Ingests, IngestFills
  <2> QED  BY <2>1, <2>2, LedgerKinds
<1> QED  BY <1>1, <1>2, Invariance, PTL DEF Spec

\* So with an exchange that gives no trades to an order it rejects, live_positions
\* always is what the execution rows add up to.
COROLLARY ExactPosition ==
  ASSUME FillsBeforeRejection = {0}
  PROVE  Spec => [](\A e \in Executions : posted[e] = Counted(e))
<1>1. IInv /\ PositionIsCurrent => \A e \in Executions : posted[e] = Counted(e)
  BY NothingFilled DEF PositionIsCurrent, Counted
<1> QED  BY <1>1, CurrentPosition, Invariance, PTL

-----------------------------------------------------------------------------
(* Conclusions, when nobody calls cancel().                                *)

\* The steps there are then.
QuietNext ==
    \/ \E p \in Workers : SubmitStep(p) \/ RecoverStep(p) \/ Crash(p)
    \/ ExchangeStep

\* Nobody is cancelling.
NoCancel == \A p \in Workers : local[p].pc # "cancelling"

LEMMA QuietIsNext == [QuietNext]_vars => [Next]_vars
  BY DEF QuietNext, Next

\* Without callers of cancel() every step is one of these.
LEMMA NextIsQuiet ==
  ASSUME NoCancel, Cancellers = {}, [Next]_vars
  PROVE  [QuietNext]_vars
<1>1. \A p \in Workers : ~CancelStep(p)
  BY DEF NoCancel, CancelStep, Cancel, CancelDone, CancelTimeout, CancelFailed, At
<1> QED  BY <1>1 DEF Next, QuietNext

\* No worker waits for a cancellation, no row does, and one is CANCELLED only
\* because recover() read it from the exchange.
Uncancelled ==
    /\ NoCancel
    /\ \A e \in Executions :
          /\ state[e] # "CANCEL_PENDING"
          /\ state[e] = "CANCELLED" => market[e] = "CANCELLED"

\* So it is at first ...
LEMMA UncancelledInit == Init => Uncancelled
  BY DEF Init, Uncancelled, NoCancel, Idle

\* Nobody starts waiting for a cancellation.
LEMMA NoCancelStep ==
  ASSUME TypeOK, NoCancel, [QuietNext]_vars
  PROVE  NoCancel'
<1> SUFFICES ASSUME NEW q \in Workers  PROVE local'[q].pc # "cancelling"
  BY DEF NoCancel
<1>1. local[q].pc # "cancelling" /\ local \in [Workers -> Locals]  BY DEF NoCancel, TypeOK
<1>2. ASSUME NEW p \in Workers, NEW step \in Steps \ {"cancelling"}, Goto(p, step)
      PROVE  local'[q].pc # "cancelling"
  BY <1>1, <1>2, GotoTyped
<1>3. ASSUME NEW p \in Workers, Return(p)  PROVE local'[q].pc # "cancelling"
  BY <1>1, <1>3, IdleTyped, LocalTyped DEF Return
<1>4. ASSUME NEW p \in Workers, SubmitStep(p)  PROVE local'[q].pc # "cancelling"
  <2>1. ASSUME NEW e \in Executions, SubmitNew(p, e) \/ SubmitRetry(p, e)
        PROVE  local'[q].pc # "cancelling"
    BY <1>1, <2>1 DEF SubmitNew, SubmitRetry, Idle
  <2>2. CASE Validate(p) \/ Enqueue(p) \/ StartSubmitting(p)
    BY <1>2, <1>3, <2>2 DEF Validate, Enqueue, StartSubmitting, Claim, Steps
  <2>3. CASE BeginAttempt(p)
    BY <1>1, <2>3 DEF BeginAttempt, Locals
  <2>4. CASE SendOrder(p)
    BY <1>2, <2>4 DEF SendOrder, Steps
  <2>5. CASE PlaceAmbiguous(p) \/ PlaceRefused(p)
    BY <1>3, <2>5 DEF PlaceAmbiguous, PlaceRefused, PlaceEnds
  <2>6. CASE PlaceAccepted(p)
    BY <1>1, <2>6 DEF PlaceAccepted, Locals
  <2> QED  BY <1>4, <2>1, <2>2, <2>3, <2>4, <2>5, <2>6 DEF SubmitStep
<1>5. ASSUME NEW p \in Workers, RecoverStep(p)  PROVE local'[q].pc # "cancelling"
  <2>1. ASSUME NEW e, NEW order, BeginRecover(p, e, order)  PROVE local'[q].pc # "cancelling"
    BY <1>1, <1>3, <2>1 DEF BeginRecover, Idle
  <2> QED
    BY <1>1, <1>2, <1>3, <1>5, <2>1
    DEF RecoverStep, RecoverSubmitted, Recover, ReconcileOne, Reconcile, LookupFound,
        LookupMissing, ReadFills, Settle, ReadFillsAgain, Locals, Steps
<1>6. ASSUME NEW p \in Workers, Crash(p)  PROVE local'[q].pc # "cancelling"
  BY <1>3, <1>6 DEF Crash
<1>7. CASE ExchangeStep
  BY <1>1, <1>7, OtherKinds DEF ExchangeStep, AcceptOrder, DropOrder, Deliver, FillOrder, CloseOrder
<1>8. CASE UNCHANGED vars
  BY <1>1, <1>8 DEF vars
<1> QED  BY <1>4, <1>5, <1>6, <1>7, <1>8 DEF QuietNext

\* The kinds of steps there are then.
LEMMA Kinds ==
  ASSUME IInv, [QuietNext]_vars
  PROVE  WorkerStep \/ (ExchangeStep /\ UNCHANGED <<row, ledger>>)
<1>1. CASE \E p \in Workers : SubmitStep(p) \/ RecoverStep(p)
  BY <1>1, SubmitKinds, RecoverKinds
<1>2. CASE \E p \in Workers : Crash(p)
  BY <1>2, OtherKinds DEF WorkerStep
<1>3. CASE ExchangeStep
  BY <1>3 DEF ExchangeStep, AcceptOrder, DropOrder, Deliver, FillOrder, CloseOrder
<1>4. CASE UNCHANGED vars
  BY <1>4 DEF vars, row, WorkerStep
<1> QED  BY <1>1, <1>2, <1>3, <1>4 DEF QuietNext

\* The exchange does not reopen an order.
LEMMA ClosedStays ==
  ASSUME TypeOK, ExchangeStep, NEW e \in Executions, market[e] \notin {"NONE", "OPEN"}
  PROVE  market'[e] = market[e]
  BY DEF ExchangeStep, AcceptOrder, DropOrder, Deliver, FillOrder, CloseOrder, TypeOK

\* ... and after every step.
LEMMA UncancelledNext ==
  ASSUME IInv, Uncancelled, [QuietNext]_vars
  PROVE  Uncancelled'
<1>1. TypeOK /\ NoCancel  BY DEF IInv, Uncancelled
<1>2. NoCancel'  BY <1>1, NoCancelStep
<1>3. ASSUME NEW e \in Executions
      PROVE  /\ state'[e] # "CANCEL_PENDING"
             /\ state'[e] = "CANCELLED" => market'[e] = "CANCELLED"
  <2>1. CASE WorkerStep
    <3>1. market' = market  BY <2>1 DEF WorkerStep, Writes, Ingests, Sends, exchange
    <3>2. CASE state' = state  BY <3>1, <3>2 DEF Uncancelled
    <3>3. CASE \E x \in Executions, to \in States : Writes(x, to)
      BY <1>1, <3>1, <3>3 DEF Writes, Uncancelled, TypeOK
    <3> QED  BY <2>1, <3>2, <3>3 DEF WorkerStep, Ingests, IngestFills, Sends, row
  <2>2. CASE ExchangeStep /\ UNCHANGED <<row, ledger>>
    BY <1>1, <2>2, ClosedStays DEF Uncancelled, row
  <2> QED  BY <1>1, <2>1, <2>2, Kinds
<1> QED  BY <1>2, <1>3 DEF Uncancelled

\* What is uncancelled says what is so.
LEMMA UncancelledIsTrue == IInv /\ Uncancelled => ConclusionIsTrue
  BY DEF IInv, ExecutionInv, RowOK, Uncancelled, ConclusionIsTrue

\* When nobody can call cancel(), every state is uncancelled.
LEMMA UncancelledInvariance ==
  ASSUME Cancellers = {}
  PROVE  Spec => []Uncancelled
<1>1. IInv /\ Uncancelled /\ [Next]_vars => Uncancelled'
  BY NextIsQuiet, UncancelledNext DEF Uncancelled
<1> QED  BY <1>1, UncancelledInit, Invariance, PTL DEF Spec

\* A row that says FILLED or CANCELLED says what the exchange says.
THEOREM TrueConclusion ==
  ASSUME Cancellers = {}
  PROVE  Spec => []ConclusionIsTrue
  BY UncancelledInvariance, UncancelledIsTrue, Invariance, PTL

-----------------------------------------------------------------------------
(* LiveExecution implements OrderTruth.                                    *)

\* The refinement mapping, named.
Taken == [e \in Executions |-> {n \in AttemptNumbers : fate[e][n] = "ACCEPTED"}]
Known == [e \in Executions |-> Executed(e)]
Verdicts == [e \in Executions |-> Verdict(e)]

\* The initial state maps to the abstract one.
LEMMA TruthInit == Init => Truth!Init
<1> SUFFICES ASSUME Init  PROVE Truth!Init
  OBVIOUS
<1>1. Taken = [e \in Executions |-> {}]  BY DEF Init, Taken
<1>2. Known = [e \in Executions |-> 0]
  <2>1. \A e \in Executions : summary[e] = 0 /\ detail[e] = 0  BY DEF Init
  <2> QED  BY <2>1 DEF Known, Executed
<1>3. Verdicts = [e \in Executions |-> "PENDING"]  BY DEF Init, Verdicts, Verdict
<1>4. market = [e \in Executions |-> "NONE"] /\ filled = [e \in Executions |-> 0]  BY DEF Init
<1> QED  BY <1>1, <1>2, <1>3, <1>4 DEF Truth!Init, Taken, Known, Verdicts

\* A step that changes nothing the mapping shows.
LEMMA Stutter ==
  ASSUME Taken' = Taken, Known' = Known, Verdicts' = Verdicts, UNCHANGED <<market, filled>>
  PROVE  UNCHANGED Truth!vars
  BY DEF Truth!vars, Taken, Known, Verdicts

\* While an execution is not concluded its verdict is open, and it is concluded
\* only when its order is, or when none can come.
LEMMA VerdictFacts ==
  ASSUME IInv, NEW e \in Executions
  PROVE  /\ state[e] \notin Terminal <=> Verdict(e) = "PENDING"
         /\ state[e] \in Terminal =>
               market[e] # "OPEN" /\ \A n \in AttemptNumbers : fate[e][n] # "ON_WIRE"
<1>1. state[e] \notin Terminal <=> Verdict(e) = "PENDING"
  BY DEF Verdict, Terminal
<1>2. TerminalIsQuiet  BY QuietFact
<1> QED  BY <1>1, <1>2 DEF TerminalIsQuiet, Terminal

\* A verdict is written: the abstract specification concludes.
LEMMA WriteStep ==
  ASSUME IInv, NEW e \in Executions, NEW to \in States, Writes(e, to)
  PROVE  [Truth!Next]_(Truth!vars)
<1>1. Taken' = Taken /\ Known' = Known /\ UNCHANGED <<market, filled>>
  BY DEF Writes, ledger, exchange, Taken, Known, Executed
<1>2. /\ state' = [state EXCEPT ![e] = to] /\ state \in [Executions -> States \cup {"ABSENT"}]
      /\ state[e] \notin Terminal
  BY FinalStates DEF Writes, IInv, TypeOK
<1>3. \A x \in Executions : x # e => Verdict(x)' = Verdict(x)
  BY <1>1, <1>2 DEF Verdict
<1>4. Verdict(e) = "PENDING"  BY <1>2 DEF Verdict, Terminal
<1>5. CASE to \notin Terminal
  <2>1. Verdict(e)' = "PENDING"  BY <1>2, <1>5 DEF Verdict, Terminal
  <2>2. Verdicts' = Verdicts  BY <1>3, <1>4, <2>1 DEF Verdicts
  <2> QED  BY <1>1, <2>2, Stutter
<1>6. CASE to \in Terminal
  <2>1. MarketOK(e)  BY DEF IInv, ExecutionInv
  <2>2. Clean(e) => market[e] = "NONE"  BY <2>1 DEF MarketOK, Clean
  <2>3. /\ market[e] # "OPEN"
        /\ Verdict(e)' = IF market[e] = "NONE" THEN "NOT_PLACED" ELSE market[e]
    BY <1>1, <1>2, <1>6, <2>2 DEF Writes, Terminal, Verdict
  <2>4. Verdicts' = [Verdicts EXCEPT ![e] = IF market[e] = "NONE" THEN "NOT_PLACED" ELSE market[e]]
    BY <1>3, <2>3 DEF Verdicts
  <2>5. Verdicts[e] = "PENDING"  BY <1>4 DEF Verdicts
  <2>6. Truth!Conclude(e)
    BY <1>1, <2>3, <2>4, <2>5 DEF Truth!Conclude, Taken, Known, Verdicts
  <2> QED  BY <2>6 DEF Truth!Next
<1> QED  BY <1>5, <1>6

\* Fills are ingested: the abstract specification learns, or stutters.
LEMMA IngestStep ==
  ASSUME IInv, NEW e \in Executions, NEW listed \in 0..Quantity, NEW total \in 0..Quantity,
         Ingests(e, listed, total)
  PROVE  [Truth!Next]_(Truth!vars)
<1>1. TypeOK /\ LedgerIsHonest  BY DEF IInv
<1>2. UNCHANGED <<row, exchange>>  BY DEF Ingests, IngestFills
<1>3. Taken' = Taken /\ Verdicts' = Verdicts /\ UNCHANGED <<market, filled>>
  BY <1>2 DEF row, exchange, Taken, Verdicts, Verdict
<1>4. /\ summary' \in [Executions -> 0..Quantity] /\ detail' \in [Executions -> 0..Quantity]
      /\ summary'[e] + detail'[e] <= filled[e]
      /\ summary'[e] + detail'[e] >= summary[e] + detail[e]
  BY <1>1, IngestFacts DEF Ingests
<1>5. \A x \in Executions : x # e => Executed(x)' = Executed(x)
  BY <1>1 DEF Ingests, IngestFills, Executed, TypeOK
<1> DEFINE quantity == Executed(e)'
<1>6. /\ quantity \in Nat /\ Executed(e) \in Nat /\ quantity <= filled[e]
      /\ Executed(e) <= quantity /\ filled[e] \in 0..Quantity
  BY <1>1, <1>4, BoundsAssumption DEF Executed, TypeOK
<1>7. Known' = [Known EXCEPT ![e] = quantity]  BY <1>5 DEF Known
<1>8. CASE quantity = Executed(e)
  <2>1. Known' = Known  BY <1>5, <1>8 DEF Known
  <2> QED  BY <1>3, <2>1, Stutter
<1>9. CASE quantity # Executed(e)
  <2>1. Executed(e) < quantity /\ quantity \in 1..Quantity
    BY <1>6, <1>9, BoundsAssumption
  <2>2. Known[e] = Executed(e)  BY DEF Known
  <2>3. Truth!Learn(e, quantity)
    <3> HIDE DEF quantity
    <3> QED  BY <1>3, <1>6, <1>7, <2>1, <2>2 DEF Truth!Learn, Taken, Known, Verdicts
  <2> QED  BY <2>1, <2>3 DEF Truth!Next
<1> QED  BY <1>8, <1>9

\* A request that is sent is not yet taken.
LEMMA SendStep ==
  ASSUME IInv, NEW e \in Executions, NEW n \in AttemptNumbers, Sends(e, n)
  PROVE  [Truth!Next]_(Truth!vars)
<1>1. \A x \in Executions, m \in AttemptNumbers :
         fate'[x][m] = "ACCEPTED" <=> fate[x][m] = "ACCEPTED"
  BY DEF Sends, IInv, TypeOK
<1>2. Taken' = Taken  BY <1>1 DEF Taken
<1>3. Known' = Known /\ Verdicts' = Verdicts /\ UNCHANGED <<market, filled>>
  BY DEF Sends, ledger, Known, Executed, Verdicts, Verdict
<1> QED  BY <1>2, <1>3, Stutter

\* The exchange takes the only request that can still become an order.
LEMMA AcceptStep ==
  ASSUME IInv, NEW e \in Executions, NEW n \in AttemptNumbers, AcceptOrder(e, n)
  PROVE  [Truth!Next]_(Truth!vars)
<1>1. /\ fate[e][n] = "ON_WIRE" /\ fate' = [fate EXCEPT ![e][n] = "ACCEPTED"]
      /\ market' = [market EXCEPT ![e] = IF @ = "NONE" THEN "OPEN" ELSE @]
      /\ UNCHANGED <<row, ledger, local, todo, filled>>
  BY DEF AcceptOrder, Deliver
<1>2. AttemptOK(e) /\ MarketOK(e) /\ TypeOK  BY DEF IInv, ExecutionInv
<1>3. \A m \in AttemptNumbers : fate[e][m] # "ACCEPTED"
  BY <1>1, <1>2, OnlyOne
<1>4. market[e] = "NONE"  BY <1>2, <1>3 DEF MarketOK
<1>5. market' = [market EXCEPT ![e] = "OPEN"]  BY <1>1, <1>2, <1>4 DEF TypeOK
<1>6. \A x \in Executions, m \in AttemptNumbers :
         fate'[x][m] = IF x = e /\ m = n THEN "ACCEPTED" ELSE fate[x][m]
  BY <1>1, <1>2 DEF TypeOK
<1>7. Taken[e] = {}  BY <1>3 DEF Taken
<1>8. Taken' = [Taken EXCEPT ![e] = {n}]
  <2>1. \A x \in Executions : x # e => Taken'[x] = Taken[x]  BY <1>6 DEF Taken
  <2>2. Taken'[e] = {n}  BY <1>3, <1>6 DEF Taken
  <2> QED  BY <2>1, <2>2 DEF Taken
<1>9. Known' = Known  BY <1>1 DEF ledger, Known, Executed
<1>10. Verdicts[e] = "PENDING" /\ state[e] \notin Terminal
  BY <1>1, VerdictFacts DEF Verdicts
<1>11. Verdicts' = Verdicts
  <2> SUFFICES ASSUME NEW x \in Executions  PROVE Verdict(x)' = Verdict(x)
    BY DEF Verdicts
  <2>1. state'[x] = state[x]  BY <1>1 DEF row
  <2>2. CASE x # e
    <3>1. market'[x] = market[x]  BY <1>2, <1>5, <2>2 DEF TypeOK
    <3> QED  BY <2>1, <3>1 DEF Verdict
  <2>3. CASE x = e  BY <1>10, <2>1, <2>3 DEF Verdict, Terminal
  <2> QED  BY <2>2, <2>3
<1>12. Truth!Take(e, n)
  BY <1>1, <1>5, <1>7, <1>8, <1>9, <1>10, <1>11 DEF Truth!Take, Taken, Known, Verdicts
<1> QED  BY <1>12 DEF Truth!Next, AttemptNumbers

\* It drops one: nothing is seen of it.
LEMMA DropStep ==
  ASSUME IInv, NEW e \in Executions, NEW n \in AttemptNumbers, NEW outcome, DropOrder(e, n, outcome)
  PROVE  [Truth!Next]_(Truth!vars)
<1>1. /\ outcome # "ACCEPTED" /\ fate[e][n] = "ON_WIRE"
      /\ fate' = [fate EXCEPT ![e][n] = outcome]
      /\ UNCHANGED <<row, ledger, market, filled>>
  BY DEF DropOrder, Deliver
<1>2. \A x \in Executions, m \in AttemptNumbers :
         fate'[x][m] = "ACCEPTED" <=> fate[x][m] = "ACCEPTED"
  BY <1>1 DEF IInv, TypeOK
<1>3. Taken' = Taken  BY <1>2 DEF Taken
<1>4. Known' = Known /\ Verdicts' = Verdicts
  BY <1>1 DEF row, ledger, Known, Executed, Verdicts, Verdict
<1> QED  BY <1>1, <1>3, <1>4, Stutter

\* It trades, or ends the order; neither changes what the program says.
LEMMA MarketStep ==
  ASSUME IInv, NEW e \in Executions,
         FillOrder(e) \/ \E status \in {"CANCELLED", "REJECTED"} : CloseOrder(e, status)
  PROVE  [Truth!Next]_(Truth!vars)
<1>1. market[e] = "OPEN" /\ UNCHANGED <<row, ledger, fate>>
      /\ \A x \in Executions : x # e => market'[x] = market[x]
  BY DEF FillOrder, CloseOrder, IInv, TypeOK
<1>2. Taken' = Taken  BY <1>1 DEF Taken
<1>3. Known' = Known  BY <1>1 DEF ledger, Known, Executed
<1>4. state[e] \notin Terminal  BY <1>1, VerdictFacts
<1>5. Verdicts' = Verdicts
  <2> SUFFICES ASSUME NEW x \in Executions  PROVE Verdict(x)' = Verdict(x)
    BY DEF Verdicts
  <2>1. state'[x] = state[x]  BY <1>1 DEF row
  <2>2. CASE x # e  BY <1>1, <2>1, <2>2 DEF Verdict
  <2>3. CASE x = e  BY <1>4, <2>1, <2>3 DEF Verdict, Terminal
  <2> QED  BY <2>2, <2>3
<1>6. CASE FillOrder(e)
  <2>1. Truth!Trade(e)
    BY <1>2, <1>3, <1>5, <1>6 DEF FillOrder, Truth!Trade, Taken, Known, Verdicts
  <2> QED  BY <2>1 DEF Truth!Next
<1>7. ASSUME NEW status \in {"CANCELLED", "REJECTED"}, CloseOrder(e, status)
      PROVE  [Truth!Next]_(Truth!vars)
  <2>1. Truth!Close(e, status)
    BY <1>2, <1>3, <1>5, <1>7 DEF CloseOrder, Truth!Close, Taken, Known, Verdicts
  <2> QED  BY <2>1 DEF Truth!Next
<1> QED  BY <1>6, <1>7

\* Every step but those of cancel() maps to a step or a stutter.
LEMMA TruthNext ==
  ASSUME IInv, [QuietNext]_vars
  PROVE  [Truth!Next]_(Truth!vars)
<1>1. CASE WorkerStep
  <2>1. CASE UNCHANGED <<state, ledger, exchange>>
    <3>1. /\ Taken' = Taken /\ Known' = Known /\ Verdicts' = Verdicts
          /\ UNCHANGED <<market, filled>>
      BY <2>1 DEF ledger, exchange, Taken, Known, Executed, Verdicts, Verdict
    <3> QED  BY <3>1, Stutter
  <2> QED  BY <1>1, <2>1, WriteStep, IngestStep, SendStep DEF WorkerStep
<1>2. CASE ExchangeStep
  BY <1>2, AcceptStep, DropStep, MarketStep DEF ExchangeStep
<1> QED  BY <1>1, <1>2, Kinds

\* Seen from outside, an execution is an order placed at most once, about which
\* ever more is known and one true verdict is given.
THEOREM Implementation ==
  ASSUME Cancellers = {}
  PROVE  Spec => KeepsTruth
<1>1. IInv /\ Uncancelled /\ [Next]_vars => [Truth!Next]_(Truth!vars)
  BY NextIsQuiet, TruthNext DEF Uncancelled
<1> QED
  BY <1>1, UncancelledInvariance, TruthInit, Invariance, PTL DEF Spec, KeepsTruth, Truth!Spec

=============================================================================
