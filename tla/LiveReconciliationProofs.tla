---------------------- MODULE LiveReconciliationProofs ----------------------
(***************************************************************************)
(* The cycle of the reconciliation worker uses the coordinator as          *)
(* LiveExecution describes it, so that what is proved of the executions    *)
(* holds under it: for any number of executions, submitters and cycles.    *)
(***************************************************************************)
EXTENDS LiveReconciliation, LiveExecutionRefinement

\* A step of a cycle over the executions is one of their coordinator's; the rest of
\* the cycle leaves them alone, and none of it calls cancel().
LEMMA WatchStep ==
  ASSUME [WatchNext]_watchVars
  PROVE  [QuietNext]_vars
<1>1. ASSUME NEW p \in Reconcilers, CycleStep(p)  PROVE [QuietNext]_vars
  <2>1. p \in Workers  BY RolesAssumption
  <2>2. CASE SelectAccount(p)
    BY <2>1, <2>2 DEF SelectAccount, QuietNext, RecoverStep
  <2>3. CASE RecoverCandidates(p)
    BY <2>1, <2>3 DEF RecoverCandidates, QuietNext
  <2>4. CASE ReadPositions(p) \/ \E other \in BOOLEAN : Compare(p, other)
    BY <2>4 DEF ReadPositions, Compare
  <2> QED  BY <1>1, <2>2, <2>3, <2>4 DEF CycleStep
<1>2. ASSUME NEW p \in Reconcilers, Unavailable(p)  PROVE [QuietNext]_vars
  <2>1. p \in Workers  BY RolesAssumption
  <2> QED  BY <1>2, <2>1 DEF Unavailable, QuietNext
<1>3. CASE StopAccount \/ EnableAccount
  BY <1>3 DEF StopAccount, EnableAccount
<1>4. CASE OthersStep
  BY <1>4 DEF OthersStep, QuietNext
<1>5. CASE UNCHANGED watchVars
  BY <1>5 DEF watchVars
<1> QED  BY <1>1, <1>2, <1>3, <1>4, <1>5 DEF WatchNext

\* Whatever the cycle does, selected, suspended or in the middle of an exception, the
\* executions go the way LiveExecution describes.
THEOREM WatchKeepsExecution == WatchSpec => Spec
<1>1. WatchInit => Init  BY DEF WatchInit
<1>2. [WatchNext]_watchVars => [Next]_vars  BY WatchStep, QuietIsNext
<1> QED  BY <1>1, <1>2, PTL DEF WatchSpec, Spec

LEMMA WatchInvariance == WatchSpec => []IInv
  BY WatchKeepsExecution, Invariance, PTL

\* An execution places one order at most, although cycles take rows away from their
\* submitters and an exception leaves a recovery anywhere.
THEOREM WatchOneOrder == WatchSpec => []AtMostOneOrder
  BY WatchKeepsExecution, OneOrder, PTL

\* Nothing in a cycle leads to cancel(), ...
LEMMA WatchUncancelled == WatchSpec => []Uncancelled
<1>1. WatchInit => Uncancelled  BY UncancelledInit DEF WatchInit
<1>2. IInv /\ Uncancelled /\ [WatchNext]_watchVars => Uncancelled'
  BY WatchStep, UncancelledNext
<1> QED  BY <1>1, <1>2, WatchInvariance, PTL DEF WatchSpec

\* ... so that a row the worker sees FILLED or CANCELLED says what the exchange says.
THEOREM WatchConclusion == WatchSpec => []ConclusionIsTrue
  BY WatchUncancelled, WatchInvariance, UncancelledIsTrue, PTL

\* Submitters, the worker's cycles and the exchange together implement OrderTruth: an
\* order placed at most once, about which ever more is known, one true verdict.
THEOREM WatchKeepsTruth == WatchSpec => KeepsTruth
<1>1. WatchInit => Truth!Init  BY TruthInit DEF WatchInit
<1>2. IInv /\ [WatchNext]_watchVars => [Truth!Next]_(Truth!vars)
  BY WatchStep, TruthNext
<1> QED  BY <1>1, <1>2, WatchInvariance, PTL DEF WatchSpec, KeepsTruth, Truth!Spec

=============================================================================
