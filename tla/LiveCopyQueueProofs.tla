------------------------ MODULE LiveCopyQueueProofs ------------------------
(***************************************************************************)
(* Proofs about LiveCopyQueue, for any number of rows, dispatchers,        *)
(* reconciliation workers and attempts: the queue uses the coordinator as  *)
(* LiveExecution describes, so that what is proved there holds under it,   *)
(* what its rows say is true, and a row is rejected over a live order by   *)
(* one path only.                                                          *)
(***************************************************************************)
EXTENDS LiveCopyQueue, LiveExecutionRefinement

-----------------------------------------------------------------------------
(* Types, and the queue as a client of LiveExecution.                      *)

QueueTyped ==
    /\ queue \in [Executions -> QueueStates \cup {"NONE"}]
    /\ tries \in [Executions -> Nat]
    /\ desk \in [Dispatchers -> Desks]
    /\ ended \subseteq Dispatchers
    /\ overlapped \in BOOLEAN

\* Where a dispatcher has a row at hand.
RowPlaces == RowSteps \cup {"unsent", "retry", "recovering", "recovered", "failed"}

JobOK == \A d \in Dispatchers : desk[d].pc \in RowPlaces => Row(d) \in Executions

\* A dispatcher is every kind of worker.
LEMMA Roles ==
  ASSUME NEW d \in Dispatchers
  PROVE  /\ d \in Workers /\ d \in Submitters /\ d \in Reconcilers
         /\ d \in Recoverers /\ d \in Crashable
  BY DispatchersAssumption, RolesAssumption

\* A dispatcher that is away is well typed, and so is one that closes a row.
LEMMA AwayTyped ==
  /\ Away \in Desks /\ Away.pc = "away" /\ Away.job = NoExecution /\ Away.list = {}
  /\ Away.tries = 0 /\ Away.result = "NONE"
  BY DEF Away, Desks, DeskSteps, Results

\* One dispatcher moves: it gets a new record and the others keep theirs.
LEMMA DeskTyped ==
  ASSUME desk \in [Dispatchers -> Desks], NEW d \in Dispatchers, NEW r \in Desks,
         desk' = [desk EXCEPT ![d] = r]
  PROVE  /\ desk' \in [Dispatchers -> Desks]
         /\ desk'[d] = r
         /\ \A q \in Dispatchers : q # d => desk'[q] = desk[q]
  OBVIOUS

LEMMA MoveTyped ==
  ASSUME QueueTyped, NEW d \in Dispatchers, NEW step \in DeskSteps, Move(d, step)
  PROVE  /\ desk' \in [Dispatchers -> Desks]
         /\ desk'[d] = [desk[d] EXCEPT !.pc = step]
         /\ desk'[d].pc = step /\ Row(d)' = Row(d) /\ desk'[d].list = desk[d].list
         /\ desk'[d].tries = desk[d].tries /\ desk'[d].result = desk[d].result
         /\ \A q \in Dispatchers : q # d => desk'[q] = desk[q]
<1>1. desk[d] \in Desks  BY DEF QueueTyped
<1>2. [desk[d] EXCEPT !.pc = step] \in Desks  BY <1>1 DEF Desks
<1>3. /\ desk' \in [Dispatchers -> Desks]
      /\ desk'[d] = [desk[d] EXCEPT !.pc = step]
      /\ \A q \in Dispatchers : q # d => desk'[q] = desk[q]
  BY <1>2, DeskTyped DEF Move, QueueTyped
<1> QED  BY <1>1, <1>3 DEF Desks, Row

LEMMA CloseTyped ==
  ASSUME QueueTyped, NEW d \in Dispatchers, NEW step \in DeskSteps, Close(d, step)
  PROVE  /\ desk' \in [Dispatchers -> Desks]
         /\ desk'[d].pc = step
         /\ \A q \in Dispatchers : q # d => desk'[q] = desk[q]
<1>1. desk[d].list \in SUBSET Executions  BY DEF QueueTyped, Desks
<1>2. [Away EXCEPT !.pc = step, !.list = desk[d].list] \in Desks
  BY <1>1 DEF Away, Desks, DeskSteps, Results
<1>3. /\ desk' \in [Dispatchers -> Desks]
      /\ desk'[d] = [Away EXCEPT !.pc = step, !.list = desk[d].list]
      /\ \A q \in Dispatchers : q # d => desk'[q] = desk[q]
  BY <1>2, DeskTyped DEF Close, QueueTyped
<1> QED  BY <1>3 DEF Away

LEMMA TakeTyped ==
  ASSUME QueueTyped, NEW d \in Dispatchers, NEW e \in Executions, NEW step \in DeskSteps,
         Take(d, e, step)
  PROVE  /\ desk' \in [Dispatchers -> Desks]
         /\ desk'[d].pc = step /\ Row(d)' = e
         /\ \A q \in Dispatchers : q # d => desk'[q] = desk[q]
  BY DEF QueueTyped, Take, Desks, Row

LEMMA ToldTyped ==
  ASSUME QueueTyped, NEW d \in Dispatchers, NEW result \in Results, Told(d, result)
  PROVE  /\ desk' \in [Dispatchers -> Desks]
         /\ desk'[d].pc = "outcome" /\ Row(d)' = Row(d) /\ desk'[d].result = result
         /\ \A q \in Dispatchers : q # d => desk'[q] = desk[q]
  BY DEF QueueTyped, Told, Desks, Row, DeskSteps, RowSteps

\* A compare-and-set on a row finds the state it expects, or changes nothing.
LEMMA MoveRowTyped ==
  ASSUME QueueTyped, NEW e \in Executions, NEW from, NEW to \in QueueStates, MoveRow(e, from, to)
  PROVE  /\ queue' \in [Executions -> QueueStates \cup {"NONE"}]
         /\ \A x \in Executions : x # e => queue'[x] = queue[x]
         /\ queue[e] = from => queue'[e] = to
         /\ queue[e] # from => queue'[e] = queue[e]
  BY DEF QueueTyped, MoveRow

\* What every step of the queue does to the executions is a step of
\* LiveExecution other than those of cancel(), or nothing.
LEMMA ExecutionStep ==
  ASSUME JobOK, [QueueNext]_allVars
  PROVE  [QuietNext]_vars
<1>1. ASSUME NEW d \in Dispatchers, Abandon(d)  PROVE [QuietNext]_vars
  BY <1>1, Roles DEF Abandon, QuietNext
<1>2. ASSUME NEW d \in Dispatchers, CycleStep(d)  PROVE [QuietNext]_vars
  BY <1>2 DEF CycleStep, BeginCycle, Discover, RecoverExpired, ListStuck, ListDue, EndCycle
<1>3. ASSUME NEW d \in Dispatchers, StuckStep(d)  PROVE [QuietNext]_vars
  <2>1. ASSUME NEW e \in Executions, Recover(d, e)  PROVE [QuietNext]_vars
    BY <2>1, Roles DEF QuietNext, RecoverStep
  <2> QED
    BY <1>3, <2>1
    DEF StuckStep, FindUnsent, RecoverSent, ReadTries, ScheduleRetry, ReadRecovered, RecordRecovered
<1>4. ASSUME NEW d \in Dispatchers, DueStep(d)  PROVE [QuietNext]_vars
  <2>1. CASE Reconcile(d)
    BY <2>1, Roles DEF QuietNext, RecoverStep
  <2>2. CASE Submit(d)
    <3>1. Row(d) \in Executions
      BY <2>2 DEF JobOK, Submit, DeskAt, RowPlaces, RowSteps
    <3> QED  BY <2>2, <3>1, Roles DEF Submit, QuietNext, SubmitStep
  <2>3. CASE SubmitFails(d)
    BY <2>3, Roles DEF SubmitFails, QuietNext, SubmitStep
  <2> QED
    BY <1>4, <2>1, <2>2, <2>3
    DEF DueStep, ClaimRow, RecoverAccount, ReconcileAgain, StartReconcile, BecomeReady, Match, Admit,
        Pass, Seal, StartSubmit, SubmitKnown, ReadOutcome, RecordOutcome, RecordFailure
<1>5. ASSUME NEW d \in Dispatchers, Await(d)  PROVE [QuietNext]_vars
  BY <1>5, Roles DEF Await, QuietNext, SubmitStep
<1>6. ASSUME NEW d \in Dispatchers, SkipStuck(d) \/ Ineligible(d) \/ Fail(d) \/ Stop(d) \/ Die(d)
      PROVE  [QuietNext]_vars
  BY <1>1, <1>6 DEF SkipStuck, Ineligible, Fail, Stop, Die
<1>7. CASE OthersStep
  BY <1>7 DEF OthersStep, QuietNext
<1>8. CASE UNCHANGED allVars
  BY <1>8 DEF allVars
<1> QED  BY <1>2, <1>3, <1>4, <1>5, <1>6, <1>7, <1>8 DEF QueueNext

\* At most one dispatcher moves, and keeps a row at hand.
KeepsJob(d) ==
    /\ desk' \in [Dispatchers -> Desks]
    /\ desk'[d].pc \in RowPlaces => Row(d)' \in Executions
    /\ \A q \in Dispatchers : q # d => desk'[q] = desk[q]

\* The rows stay typed.
KeepsRows ==
    /\ queue' \in [Executions -> QueueStates \cup {"NONE"}]
    /\ tries' \in [Executions -> Nat]
    /\ ended' \subseteq Dispatchers
    /\ overlapped' \in BOOLEAN

LEMMA CycleTyped ==
  ASSUME QueueTyped, NEW d \in Dispatchers, CycleStep(d)
  PROVE  KeepsJob(d) /\ KeepsRows
<1>1. CASE BeginCycle(d) \/ (\E found \in SUBSET Executions : Discover(d, found))
           \/ (\E expired \in SUBSET Executions : RecoverExpired(d, expired)) \/ EndCycle(d)
  <2>1. \E step \in {"discover", "expire", "list", "away"} : Move(d, step)
    BY <1>1 DEF BeginCycle, Discover, RecoverExpired, EndCycle
  <2>2. KeepsJob(d)  BY <2>1, MoveTyped DEF DeskSteps, KeepsJob, RowPlaces, RowSteps
  <2>3. KeepsRows
    BY <1>1 DEF BeginCycle, Discover, RecoverExpired, EndCycle, QueueTyped, KeepsRows, rest, QueueStates
  <2> QED  BY <2>2, <2>3
<1>2. ASSUME NEW step \in {"stuck", "due"}, NEW list \in SUBSET Executions,
             desk' = [desk EXCEPT ![d].pc = step, ![d].list = list],
             UNCHANGED <<queue, rest>>
      PROVE  KeepsJob(d) /\ KeepsRows
  <2>1. desk[d] \in Desks  BY DEF QueueTyped
  <2>2. step \in DeskSteps /\ step \notin RowPlaces  BY <1>2 DEF DeskSteps, RowPlaces, RowSteps
  <2> DEFINE listed == [desk[d] EXCEPT !.pc = step, !.list = list]
  <2>3. listed \in Desks /\ listed.pc = step  BY <2>1, <2>2 DEF Desks
  <2>4. desk' = [desk EXCEPT ![d] = listed]  BY <1>2
  <2> HIDE DEF listed
  <2>5. /\ desk' \in [Dispatchers -> Desks]
        /\ desk'[d] = listed
        /\ \A q \in Dispatchers : q # d => desk'[q] = desk[q]
    BY <2>3, <2>4, DeskTyped DEF QueueTyped
  <2>6. KeepsJob(d)  BY <2>2, <2>3, <2>5 DEF KeepsJob
  <2> QED  BY <1>2, <2>6 DEF QueueTyped, KeepsRows, rest
<1>3. CASE ListStuck(d)
  BY <1>2, <1>3 DEF ListStuck
<1>4. ASSUME NEW waited \in SUBSET Executions, ListDue(d, waited)  PROVE KeepsJob(d) /\ KeepsRows
  BY <1>2, <1>4 DEF ListDue
<1> QED  BY <1>1, <1>3, <1>4 DEF CycleStep

LEMMA StuckTyped ==
  ASSUME TypeOK, QueueTyped, JobOK, NEW d \in Dispatchers, StuckStep(d)
  PROVE  KeepsJob(d) /\ KeepsRows
<1>1. ASSUME NEW e \in Executions, FindUnsent(d, e) \/ RecoverSent(d, e)
      PROVE  KeepsJob(d) /\ KeepsRows
  <2>1. \E step \in {"unsent", "recovering"} : Take(d, e, step)
    BY <1>1 DEF FindUnsent, RecoverSent
  <2>2. KeepsJob(d)  BY <2>1, TakeTyped DEF DeskSteps, KeepsJob
  <2> QED  BY <1>1, <2>2 DEF FindUnsent, RecoverSent, QueueTyped, KeepsRows, rest
<1>2. CASE ReadTries(d)
  BY <1>2 DEF ReadTries, DeskAt, JobOK, QueueTyped, KeepsJob, KeepsRows, rest, Desks, DeskSteps,
              RowPlaces, Row
<1>3. CASE ReadRecovered(d)
  <2>1. Row(d) \in Executions /\ state[Row(d)] \in Results
    BY <1>3 DEF ReadRecovered, DeskAt, JobOK, RowPlaces, TypeOK, Results
  <2> QED
    BY <1>3, <2>1 DEF ReadRecovered, QueueTyped, KeepsJob, KeepsRows, rest, Desks, DeskSteps, Row
<1>4. CASE ScheduleRetry(d) \/ RecordRecovered(d)
  <2>1. Row(d) \in Executions
    BY <1>4 DEF ScheduleRetry, RecordRecovered, DeskAt, JobOK, RowPlaces
  <2>2. \E to \in QueueStates : MoveRow(Row(d), "RECOVERY_REQUIRED", to)
    BY <1>4 DEF ScheduleRetry, RecordRecovered, RecoveredAs, QueueStates
  <2>3. Close(d, "stuck")  BY <1>4 DEF ScheduleRetry, RecordRecovered
  <2>4. KeepsJob(d)  BY <2>3, CloseTyped DEF KeepsJob, DeskSteps, RowPlaces, RowSteps
  <2> QED
    BY <1>4, <2>1, <2>2, <2>4, MoveRowTyped
    DEF ScheduleRetry, RecordRecovered, QueueTyped, KeepsRows, rest
<1> QED  BY <1>1, <1>2, <1>3, <1>4 DEF StuckStep

LEMMA DueTyped ==
  ASSUME TypeOK, QueueTyped, JobOK, NEW d \in Dispatchers, DueStep(d)
  PROVE  KeepsJob(d) /\ KeepsRows
<1>1. ASSUME NEW e \in Executions, ClaimRow(d, e)  PROVE KeepsJob(d) /\ KeepsRows
  <2>1. CASE queue[e] \in {"PLANNED", "RETRY_WAIT"}
    <3>1. Take(d, e, "claimed")  BY <1>1, <2>1 DEF ClaimRow
    <3>2. KeepsJob(d)  BY <3>1, TakeTyped DEF KeepsJob, DeskSteps, RowSteps
    <3> QED  BY <1>1, <2>1, <3>2 DEF ClaimRow, QueueTyped, KeepsRows, QueueStates
  <2>2. CASE queue[e] \notin {"PLANNED", "RETRY_WAIT"}
    BY <1>1, <2>2
    DEF ClaimRow, DeskAt, QueueTyped, KeepsJob, KeepsRows, Desks, RowPlaces, RowSteps
  <2> QED  BY <2>1, <2>2
<1>2. CASE \/ RecoverAccount(d) \/ BecomeReady(d) \/ ReconcileAgain(d) \/ Match(d)
           \/ Seal(d) \/ Admit(d) \/ Submit(d) \/ StartSubmit(d)
  <2>1. \E step \in RowSteps : Move(d, step)
    BY <1>2 DEF RecoverAccount, BecomeReady, ReconcileAgain, Match, StartReconcile, Pass, Seal,
                Admit, Submit, StartSubmit, RowSteps
  <2>2. desk[d].pc \in RowPlaces
    BY <1>2 DEF RecoverAccount, BecomeReady, ReconcileAgain, Match, StartReconcile, Pass, Seal,
                Admit, Submit, StartSubmit, DeskAt, RowPlaces, RowSteps
  <2>3. Row(d) \in Executions  BY <2>2 DEF JobOK
  <2>4. KeepsJob(d)  BY <2>1, <2>3, MoveTyped DEF KeepsJob, DeskSteps, RowSteps
  <2>5. CASE StartSubmit(d)
    BY <2>3, <2>4, <2>5, MoveRowTyped DEF StartSubmit, QueueTyped, KeepsRows, rest, QueueStates
  <2> QED
    BY <1>2, <2>4, <2>5
    DEF RecoverAccount, BecomeReady, ReconcileAgain, Match, StartReconcile, Pass, Seal,
        Admit, Submit, QueueTyped, KeepsRows, rest
<1>3. CASE SubmitKnown(d) \/ SubmitFails(d) \/ ReadOutcome(d)
  <2>1. Row(d) \in Executions
    BY <1>3 DEF SubmitKnown, SubmitFails, ReadOutcome, DeskAt, JobOK, RowPlaces, RowSteps
  <2>2. \E result \in Results : Told(d, result)
    BY <1>3, <2>1 DEF SubmitKnown, SubmitFails, ReadOutcome, Told, TypeOK, Results, States, QueueStates
  <2>3. KeepsJob(d)  BY <2>1, <2>2, ToldTyped DEF KeepsJob
  <2> QED
    BY <1>3, <2>3 DEF SubmitKnown, SubmitFails, ReadOutcome, QueueTyped, KeepsRows, rest
<1>4. CASE RecordOutcome(d) \/ RecordFailure(d)
  <2>1. Row(d) \in Executions
    BY <1>4 DEF RecordOutcome, RecordFailure, DeskAt, JobOK, RowPlaces, RowSteps
  <2>2. Close(d, "due")  BY <1>4 DEF RecordOutcome, RecordFailure
  <2>3. KeepsJob(d)  BY <2>2, CloseTyped DEF KeepsJob, DeskSteps, RowPlaces, RowSteps
  <2>4. UNCHANGED queue \/ \E from, to \in QueueStates : MoveRow(Row(d), from, to)
    BY <1>4 DEF RecordOutcome, RecordFailure, SubmittedAs, QueueStates, Held
  <2> QED
    BY <1>4, <2>1, <2>3, <2>4, MoveRowTyped
    DEF RecordOutcome, RecordFailure, QueueTyped, KeepsRows, rest
<1> QED  BY <1>1, <1>2, <1>3, <1>4 DEF DueStep

LEMMA EndTyped ==
  ASSUME QueueTyped, JobOK, NEW d \in Dispatchers, SkipStuck(d) \/ Ineligible(d) \/ Fail(d) \/ Stop(d) \/ Die(d)
  PROVE  KeepsJob(d) /\ KeepsRows
<1>1. CASE SkipStuck(d) \/ Ineligible(d)
  <2>1. \E step \in {"stuck", "due"} : Close(d, step)
    BY <1>1 DEF SkipStuck, Ineligible
  <2>2. KeepsJob(d)  BY <2>1, CloseTyped DEF KeepsJob, DeskSteps, RowPlaces, RowSteps
  <2>3. CASE Ineligible(d)
    <3>1. Row(d) \in Executions  BY <2>3 DEF Ineligible, DeskAt, JobOK, RowPlaces, RowSteps
    <3> QED
      BY <2>2, <2>3, <3>1, MoveRowTyped DEF Ineligible, QueueTyped, KeepsRows, rest, QueueStates
  <2> QED  BY <1>1, <2>2, <2>3 DEF SkipStuck, QueueTyped, KeepsRows, rest
<1>2. CASE Fail(d)
  <2>1. Row(d) \in Executions  BY <1>2 DEF Fail, JobOK, RowPlaces
  <2>2. queue[Row(d)] \in Results  BY <2>1 DEF QueueTyped, Results
  <2> QED
    BY <1>2, <2>1, <2>2
    DEF Fail, QueueTyped, KeepsJob, KeepsRows, rest, Desks, DeskSteps, Row
<1>3. CASE Stop(d) \/ Die(d)
  <2>1. KeepsJob(d)
    BY <1>3, AwayTyped, DeskTyped DEF Stop, Die, QueueTyped, KeepsJob, RowPlaces, RowSteps
  <2> QED  BY <1>3, <2>1 DEF Stop, Die, QueueTyped, KeepsRows
<1> QED  BY <1>1, <1>2, <1>3

LEMMA TypedNext ==
  ASSUME TypeOK, QueueTyped, JobOK, [QueueNext]_allVars
  PROVE  QueueTyped' /\ JobOK'
<1>1. ASSUME NEW d \in Dispatchers, KeepsJob(d), KeepsRows  PROVE QueueTyped' /\ JobOK'
  BY <1>1 DEF KeepsJob, KeepsRows, QueueTyped, JobOK, Row
<1>2. CASE UNCHANGED queueVars
  BY <1>2 DEF queueVars, rest, QueueTyped, JobOK, Row
<1> QED
  BY <1>1, <1>2, CycleTyped, StuckTyped, DueTyped, EndTyped DEF QueueNext, Await, allVars

-----------------------------------------------------------------------------
(* The first theorems.                                                     *)

QueueBase == IInv /\ QueueTyped /\ JobOK

LEMMA QueueBaseInit == QueueInit => QueueBase
<1> SUFFICES ASSUME QueueInit  PROVE QueueBase
  OBVIOUS
<1>1. \A d \in Dispatchers : desk[d] = Away /\ desk[d] \in Desks /\ desk[d].pc = "away"
  BY AwayTyped DEF QueueInit
<1>2. queue \in [Executions -> QueueStates \cup {"NONE"}]  BY DEF QueueInit
<1>3. tries \in [Executions -> Nat]
  <2>1. 0 \in Nat  OBVIOUS
  <2> QED  BY <2>1 DEF QueueInit
<1>4. desk \in [Dispatchers -> Desks]  BY AwayTyped DEF QueueInit
<1>5. QueueTyped  BY <1>2, <1>3, <1>4 DEF QueueInit, QueueTyped
<1>6. JobOK  BY <1>1 DEF JobOK, RowPlaces, RowSteps
<1> QED  BY <1>5, <1>6, InitInv DEF QueueInit, QueueBase

LEMMA QueueBaseNext == QueueBase /\ [QueueNext]_allVars => QueueBase'
<1> SUFFICES ASSUME QueueBase, [QueueNext]_allVars  PROVE QueueBase'
  OBVIOUS
<1>1. TypeOK  BY DEF QueueBase, IInv
<1>2. [Next]_vars  BY ExecutionStep, QuietIsNext DEF QueueBase
<1>3. IInv'  BY <1>2, NextInv DEF QueueBase
<1>4. QueueTyped' /\ JobOK'  BY <1>1, TypedNext DEF QueueBase
<1> QED  BY <1>3, <1>4 DEF QueueBase

LEMMA QueueInvariance == QueueSpec => []QueueBase
  BY QueueBaseInit, QueueBaseNext, PTL DEF QueueSpec

\* Every variable keeps its type, whatever the dispatchers and the exchange do.
THEOREM QueueTyping == QueueSpec => []QueueTypeOK
<1>1. QueueBase => QueueTypeOK
  BY DEF QueueBase, IInv, QueueTyped, QueueTypeOK
<1> QED  BY <1>1, QueueInvariance, PTL

\* However dispatchers fail, die or overlap, they use the coordinator as
\* LiveExecution describes: the queue implements it.
THEOREM QueueKeepsExecution == QueueSpec => Spec
<1>1. QueueInit => Init  BY DEF QueueInit
<1>2. QueueBase /\ [QueueNext]_allVars => [Next]_vars
  BY ExecutionStep, QuietIsNext DEF QueueBase
<1> QED  BY <1>1, <1>2, QueueInvariance, PTL DEF QueueSpec, Spec

\* So no queue row, however often it is claimed and by whom, places two orders.
THEOREM QueueOneOrder == QueueSpec => []AtMostOneOrder
  BY QueueKeepsExecution, OneOrder, PTL

-----------------------------------------------------------------------------
(* Cycles that do not overlap.                                             *)

Claimed == {"claimed", "ready", "eligible", "second", "sizing", "sealed"}
Sealed == {"admission", "submit", "submitting", "outcome"}

\* One dispatcher at a time is in a cycle, ...
Solo == \A c, d \in Dispatchers : desk[c].pc # "away" /\ desk[d].pc # "away" => c = d

\* ... what it knows of its row is so, ...
DeskOK(d) ==
    /\ desk[d].pc \in Claimed => queue[Row(d)] = "CLAIMED" /\ state[Row(d)] = "ABSENT"
    /\ desk[d].pc \in Sealed => queue[Row(d)] = "SUBMITTING"
    /\ desk[d].pc \in {"unsent", "retry"} => state[Row(d)] = "ABSENT"
    /\ desk[d].pc = "retry" => desk[d].tries = tries[Row(d)]

\* ... and a row that may be claimed has no execution and has a try left.
RowOpen(e) ==
    /\ queue[e] \in {"NONE", "PLANNED", "RETRY_WAIT"} => state[e] = "ABSENT"
    /\ queue[e] \in {"NONE", "PLANNED"} => tries[e] = 0
    /\ queue[e] = "RETRY_WAIT" => tries[e] < MaxTries
    /\ tries[e] <= MaxTries

CyclesOK ==
    ~overlapped =>
        /\ Solo
        /\ \A d \in Dispatchers : DeskOK(d)
        /\ \A e \in Executions : RowOpen(e)

\* A compare-and-set from any other state leaves an execution that does not
\* exist where it is.
LEMMA AbsentKept ==
  ASSUME TypeOK, NEW e \in Executions, state[e] = "ABSENT",
         NEW x \in Executions, NEW from, NEW to, NEW learned, from # "ABSENT",
         Transition(x, from, to, learned)
  PROVE  state'[e] = "ABSENT"
  BY DEF Transition, TypeOK

\* Only submit() makes an execution exist.
LEMMA RecoverKeepsAbsent ==
  ASSUME IInv, NEW e \in Executions, state[e] = "ABSENT", NEW p \in Workers, RecoverStep(p)
  PROVE  state'[e] = "ABSENT"
<1>1. TypeOK /\ SenderOK(p) /\ GoalOK(p)  BY DEF IInv, WorkerInv
<1>2. ASSUME NEW x \in Executions, NEW order, BeginRecover(p, x, order)
      PROVE  state'[e] = "ABSENT"
  <2>1. CASE UNCHANGED row
    BY <2>1 DEF row
  <2>2. CASE state[x] \in OpenLocalStates /\ Transition(x, state[x], "RECONCILING", order # NoOrder)
    BY <1>1, <2>2, AbsentKept DEF OpenLocalStates
  <2> QED  BY <1>2, <2>1, <2>2 DEF BeginRecover
<1>3. CASE RecoverSubmitted(p)
  BY <1>1, <1>2, <1>3 DEF RecoverSubmitted, SenderOK, At
<1>4. CASE Settle(p)
  <2>1. Job(p) \in Executions /\ local[p].source # "ABSENT"
    BY <1>1, <1>4 DEF Settle, SenderOK, GoalOK, At
  <2> QED  BY <1>1, <1>4, <2>1, AbsentKept DEF Settle, Job
<1>5. CASE Reconcile(p) \/ (\E recognised \in BOOLEAN : LookupFound(p, recognised)) \/ LookupMissing(p)
  BY <1>5 DEF Reconcile, LookupFound, LookupMissing, row
<1>6. CASE \/ \E listed \in 0..Quantity, priced, doubt \in BOOLEAN : ReadFills(p, listed, priced, doubt)
           \/ \E listed \in 0..Quantity : ReadFillsAgain(p, listed)
  BY <1>6 DEF ReadFills, ReadFillsAgain, IngestFills, row
<1> QED  BY <1>2, <1>3, <1>4, <1>5, <1>6 DEF RecoverStep, Recover, ReconcileOne

LEMMA OthersKeepAbsent ==
  ASSUME IInv, NEW e \in Executions, state[e] = "ABSENT",
         \/ OthersStep
         \/ \E d \in Dispatchers : Await(d) \/ Abandon(d) \/ SubmitFails(d)
  PROVE  state'[e] = "ABSENT"
<1>1. TypeOK /\ WorkerInv  BY DEF IInv
<1>2. CASE OthersStep
  BY <1>2, RecoverKeepsAbsent
  DEF OthersStep, Crash, ExchangeStep, AcceptOrder, DropOrder, Deliver, FillOrder, CloseOrder, row
<1>3. ASSUME NEW d \in Dispatchers, Await(d) \/ Abandon(d) \/ SubmitFails(d)
      PROVE  state'[e] = "ABSENT"
  <2>1. d \in Workers /\ SenderOK(d)  BY <1>1, Roles DEF WorkerInv
  <2>2. CASE Validate(d) \/ Enqueue(d) \/ StartSubmitting(d)
    BY <1>1, <2>1, <2>2, AbsentKept
    DEF Validate, Enqueue, StartSubmitting, Claim, SenderOK, At
  <2>3. CASE PlaceAccepted(d) \/ PlaceAmbiguous(d) \/ PlaceRefused(d)
    BY <1>1, <2>1, <2>3, AbsentKept
    DEF PlaceAccepted, PlaceAmbiguous, PlaceRefused, Refused, PlaceEnds, SenderOK, At
  <2>4. CASE BeginAttempt(d) \/ SendOrder(d) \/ Abandon(d)
    BY <2>4 DEF BeginAttempt, SendOrder, Abandon, Crash, row, vars
  <2> QED
    BY <1>3, <2>1, <2>2, <2>3, <2>4, RecoverKeepsAbsent DEF Await, SubmitFails
<1> QED  BY <1>2, <1>3

\* Steps that leave the queue alone keep all of it.
LEMMA OthersKeepCycles ==
  ASSUME QueueBase, CyclesOK, UNCHANGED queueVars,
         OthersStep \/ \E d \in Dispatchers : Await(d)
  PROVE  CyclesOK'
<1> SUFFICES ASSUME ~overlapped'  PROVE CyclesOK'
  BY DEF CyclesOK
<1>1. ~overlapped /\ UNCHANGED <<queue, desk, tries, overlapped>>  BY DEF queueVars, rest
<1>2. /\ Solo /\ \A d \in Dispatchers : DeskOK(d)
      /\ \A e \in Executions : RowOpen(e)
  BY <1>1 DEF CyclesOK
<1>3. \A e \in Executions : state[e] = "ABSENT" => state'[e] = "ABSENT"
  BY OthersKeepAbsent DEF QueueBase
<1>4. \A d \in Dispatchers : DeskOK(d)'
  BY <1>1, <1>2, <1>3 DEF DeskOK, Claimed, Row, QueueBase, JobOK, RowPlaces, RowSteps
<1> QED  BY <1>1, <1>2, <1>3, <1>4 DEF CyclesOK, Solo, RowOpen

\* A dispatcher in its cycle is alone, and what it keeps and leaves is enough.
LEMMA Alone ==
  ASSUME CyclesOK, NEW d \in Dispatchers, KeepsJob(d), desk[d].pc # "away",
         overlapped' = overlapped,
         ~overlapped => DeskOK(d)' /\ \A e \in Executions : RowOpen(e)'
  PROVE  CyclesOK'
<1> SUFFICES ASSUME ~overlapped'  PROVE CyclesOK'
  BY DEF CyclesOK
<1>1. \A q \in Dispatchers : q # d => desk[q].pc = "away"  BY DEF CyclesOK, Solo
<1>2. \A q \in Dispatchers : q # d => desk'[q].pc = "away"  BY <1>1 DEF KeepsJob
<1>3. Solo'  BY <1>2 DEF Solo
<1>4. \A q \in Dispatchers : q # d => DeskOK(q)'  BY <1>2 DEF DeskOK, Claimed, Sealed
<1> QED  BY <1>3, <1>4 DEF CyclesOK

LEMMA CycleKeepsCycles ==
  ASSUME QueueBase, CyclesOK, NEW d \in Dispatchers, CycleStep(d)
  PROVE  CyclesOK'
<1>1. QueueTyped /\ KeepsJob(d) /\ KeepsRows /\ UNCHANGED state
  BY CycleTyped
  DEF QueueBase, CycleStep, BeginCycle, Discover, RecoverExpired, ListStuck, ListDue, EndCycle, vars, row
<1>2. CASE BeginCycle(d)
  <2> SUFFICES ASSUME ~overlapped'  PROVE CyclesOK'
    BY DEF CyclesOK
  <2>1. ~overlapped /\ \A q \in Dispatchers : desk[q].pc = "away"
    BY <1>1, <1>2 DEF BeginCycle, DeskAt
  <2>2. desk'[d].pc = "discover" /\ \A q \in Dispatchers : q # d => desk'[q].pc = "away"
    BY <1>1, <1>2, <2>1, MoveTyped DEF BeginCycle, DeskSteps
  <2>3. \A q \in Dispatchers : DeskOK(q)'
    BY <2>2 DEF DeskOK, Claimed, Sealed
  <2>4. \A e \in Executions : RowOpen(e)'
    BY <1>1, <1>2, <2>1 DEF BeginCycle, CyclesOK, RowOpen
  <2> QED  BY <2>2, <2>3, <2>4 DEF CyclesOK, Solo
<1>3. CASE \/ \E found \in SUBSET Executions : Discover(d, found)
           \/ \E expired \in SUBSET Executions : RecoverExpired(d, expired)
           \/ ListStuck(d) \/ (\E waited \in SUBSET Executions : ListDue(d, waited)) \/ EndCycle(d)
  <2>1. desk[d].pc # "away" /\ UNCHANGED rest
    BY <1>3 DEF Discover, RecoverExpired, ListStuck, ListDue, EndCycle, DeskAt
  <2>2. desk'[d].pc \in {"expire", "list", "stuck", "due", "away"}
    BY <1>1, <1>3 DEF Discover, RecoverExpired, ListStuck, ListDue, EndCycle, Move, QueueTyped, Desks
  <2>3. DeskOK(d)'  BY <2>2 DEF DeskOK, Claimed, Sealed
  <2>4. \A e \in Executions : \/ queue'[e] = queue[e]
                              \/ queue[e] = "NONE" /\ queue'[e] = "PLANNED"
                              \/ queue'[e] = "RECOVERY_REQUIRED"
    BY <1>1, <1>3 DEF Discover, RecoverExpired, ListStuck, ListDue, EndCycle, QueueTyped
  <2>5. ~overlapped => \A e \in Executions : RowOpen(e)'
    BY <1>1, <2>1, <2>4 DEF CyclesOK, RowOpen, rest
  <2> QED  BY <1>1, <2>1, <2>3, <2>5, Alone DEF rest
<1> QED  BY <1>2, <1>3 DEF CycleStep

\* What a compare-and-set on the dispatcher's own row leaves of the rows.
LEMMA MoveKeepsOpen ==
  ASSUME QueueTyped, NEW e \in Executions, NEW from, NEW to \in QueueStates, MoveRow(e, from, to),
         \A x \in Executions : RowOpen(x), UNCHANGED <<tries, state>>,
         to \notin {"PLANNED", "RETRY_WAIT"}
  PROVE  \A x \in Executions : RowOpen(x)'
<1> SUFFICES ASSUME NEW x \in Executions  PROVE RowOpen(x)'
  OBVIOUS
<1>1. queue'[x] = queue[x] \/ queue'[x] = to  BY MoveRowTyped
<1> QED  BY <1>1 DEF RowOpen, QueueStates

LEMMA StuckKeepsCycles ==
  ASSUME QueueBase, CyclesOK, NEW d \in Dispatchers, StuckStep(d)
  PROVE  CyclesOK'
<1>1. QueueTyped /\ JobOK /\ TypeOK /\ KeepsJob(d) /\ KeepsRows
  BY StuckTyped DEF QueueBase, IInv
<1>2. desk[d].pc # "away" /\ UNCHANGED rest
  BY DEF StuckStep, FindUnsent, RecoverSent, ReadTries, ScheduleRetry, ReadRecovered,
         RecordRecovered, DeskAt
<1> SUFFICES ASSUME ~overlapped  PROVE DeskOK(d)' /\ \A e \in Executions : RowOpen(e)'
  BY <1>1, <1>2, Alone DEF rest
<1>3. DeskOK(d) /\ \A e \in Executions : RowOpen(e)  BY DEF CyclesOK
<1>4. ASSUME NEW e \in Executions, FindUnsent(d, e)
      PROVE  DeskOK(d)' /\ \A x \in Executions : RowOpen(x)'
  <2>1. desk'[d].pc = "unsent" /\ Row(d)' = e
    BY <1>1, <1>4, TakeTyped DEF FindUnsent, DeskSteps
  <2>2. state' = state /\ queue' = queue /\ tries' = tries
    BY <1>4 DEF FindUnsent, vars, row, rest
  <2>3. DeskOK(d)'
    BY <1>4, <2>1, <2>2 DEF FindUnsent, DeskOK, Claimed, Sealed
  <2> QED  BY <1>3, <2>2, <2>3 DEF RowOpen
<1>5. ASSUME NEW e \in Executions, RecoverSent(d, e)
      PROVE  DeskOK(d)' /\ \A x \in Executions : RowOpen(x)'
  <2>1. desk'[d].pc = "recovering"
    BY <1>1, <1>5, TakeTyped DEF RecoverSent, DeskSteps
  <2>2. \A x \in Executions : state[x] = "ABSENT" => state'[x] = "ABSENT"
    BY <1>5, Roles, RecoverKeepsAbsent DEF RecoverSent, RecoverStep, QueueBase
  <2>3. queue' = queue /\ tries' = tries
    BY <1>5 DEF RecoverSent, rest
  <2> QED  BY <1>3, <2>1, <2>2, <2>3 DEF DeskOK, Claimed, Sealed, RowOpen
<1>6. CASE ReadTries(d)
  <2>1. /\ desk'[d].pc = "retry" /\ Row(d)' = Row(d) /\ desk'[d].tries = tries[Row(d)]
        /\ state[Row(d)] = "ABSENT"
    BY <1>1, <1>3, <1>6 DEF ReadTries, QueueTyped, Desks, Row, DeskAt, DeskOK
  <2>2. state' = state /\ queue' = queue /\ tries' = tries
    BY <1>6 DEF ReadTries, vars, row, rest
  <2>3. DeskOK(d)'  BY <2>1, <2>2 DEF DeskOK, Claimed, Sealed
  <2> QED  BY <1>3, <2>2, <2>3 DEF RowOpen
<1>7. CASE ReadRecovered(d)
  <2>1. desk'[d].pc = "recovered"
    BY <1>1, <1>7 DEF ReadRecovered, QueueTyped
  <2>2. state' = state /\ queue' = queue /\ tries' = tries
    BY <1>7 DEF ReadRecovered, vars, row, rest
  <2> QED  BY <1>3, <2>1, <2>2 DEF DeskOK, Claimed, Sealed, RowOpen
<1>8. CASE ScheduleRetry(d) \/ RecordRecovered(d)
  <2>1. desk'[d].pc = "stuck" /\ Row(d) \in Executions
    BY <1>1, <1>8, CloseTyped
    DEF ScheduleRetry, RecordRecovered, DeskSteps, DeskAt, JobOK, RowPlaces
  <2>2. state' = state /\ tries' = tries
    BY <1>8 DEF ScheduleRetry, RecordRecovered, vars, row, rest
  <2>3. DeskOK(d)'  BY <2>1 DEF DeskOK, Claimed, Sealed
  <2>4. CASE RecordRecovered(d)
    BY <1>1, <1>3, <2>1, <2>2, <2>3, <2>4, MoveKeepsOpen
    DEF RecordRecovered, RecoveredAs, QueueStates
  <2>5. CASE ScheduleRetry(d) /\ ~RetriesLeft(d)
    BY <1>1, <1>3, <2>1, <2>2, <2>3, <2>5, MoveKeepsOpen DEF ScheduleRetry, QueueStates
  <2>6. CASE ScheduleRetry(d) /\ RetriesLeft(d)
    <3>1. tries[Row(d)] < MaxTries /\ state[Row(d)] = "ABSENT"
      BY <1>3, <2>6 DEF ScheduleRetry, RetriesLeft, DeskAt, DeskOK
    <3>2. \A x \in Executions : queue'[x] = queue[x] \/ (x = Row(d) /\ queue'[x] = "RETRY_WAIT")
      BY <1>1, <2>1, <2>6, MoveRowTyped DEF ScheduleRetry, QueueStates
    <3>3. \A x \in Executions : RowOpen(x)'
      BY <1>3, <2>2, <3>1, <3>2 DEF RowOpen
    <3> QED  BY <2>3, <3>3
  <2> QED  BY <1>8, <2>4, <2>5, <2>6
<1> QED  BY <1>4, <1>5, <1>6, <1>7, <1>8 DEF StuckStep

LEMMA DueKeepsCycles ==
  ASSUME QueueBase, CyclesOK, NEW d \in Dispatchers, DueStep(d)
  PROVE  CyclesOK'
<1>1. QueueTyped /\ JobOK /\ TypeOK /\ IInv /\ KeepsJob(d) /\ KeepsRows
  BY DueTyped DEF QueueBase, IInv
<1>2. desk[d].pc # "away" /\ overlapped' = overlapped
  BY DEF DueStep, ClaimRow, RecoverAccount, ReconcileAgain, StartReconcile, BecomeReady, Match,
         Admit, Pass, Seal, StartSubmit, Submit, SubmitKnown, SubmitFails, ReadOutcome,
         RecordOutcome, RecordFailure, DeskAt, rest
<1> SUFFICES ASSUME ~overlapped  PROVE DeskOK(d)' /\ \A e \in Executions : RowOpen(e)'
  BY <1>1, <1>2, Alone
<1>3. DeskOK(d) /\ \A e \in Executions : RowOpen(e)  BY DEF CyclesOK
<1>4. ASSUME NEW e \in Executions, ClaimRow(d, e)
      PROVE  DeskOK(d)' /\ \A x \in Executions : RowOpen(x)'
  <2>1. state' = state  BY <1>4 DEF ClaimRow, vars, row
  <2>2. CASE queue[e] \in {"PLANNED", "RETRY_WAIT"}
    <3>1. desk'[d].pc = "claimed" /\ Row(d)' = e
      BY <1>1, <1>4, <2>2, TakeTyped DEF ClaimRow, DeskSteps, RowSteps
    <3>2. /\ queue' = [queue EXCEPT ![e] = "CLAIMED"]
          /\ tries' = [tries EXCEPT ![e] = @ + 1]
      BY <1>4, <2>2 DEF ClaimRow
    <3>3. tries[e] < MaxTries /\ tries[e] \in Nat /\ MaxTries \in Nat
      BY <1>1, <1>3, <2>2, DispatchersAssumption DEF RowOpen, QueueTyped
    <3>4. DeskOK(d)'
      <4>1. state'[e] = "ABSENT"  BY <1>3, <2>1, <2>2 DEF RowOpen
      <4> QED  BY <1>1, <3>1, <3>2, <4>1 DEF DeskOK, Claimed, Sealed, QueueTyped
    <3>5. queue'[e] = "CLAIMED" /\ tries'[e] = tries[e] + 1
      BY <1>1, <3>2 DEF QueueTyped
    <3>6. \A x \in Executions : x # e => queue'[x] = queue[x] /\ tries'[x] = tries[x]
      BY <1>1, <3>2 DEF QueueTyped
    <3>7. RowOpen(e)'
      BY <3>3, <3>5 DEF RowOpen
    <3>8. \A x \in Executions : x # e => RowOpen(x)'
      BY <1>3, <2>1, <3>6 DEF RowOpen
    <3> QED  BY <3>4, <3>7, <3>8
  <2>3. CASE queue[e] \notin {"PLANNED", "RETRY_WAIT"}
    <3>1. desk'[d].pc = "due" /\ queue' = queue /\ tries' = tries
      BY <1>1, <1>4, <2>3 DEF ClaimRow, QueueTyped, DeskAt, Desks, rest
    <3> QED  BY <1>3, <2>1, <3>1 DEF DeskOK, Claimed, Sealed, RowOpen
  <2> QED  BY <2>2, <2>3
<1>5. CASE \/ RecoverAccount(d) \/ BecomeReady(d) \/ ReconcileAgain(d) \/ Match(d) \/ Seal(d) \/ Admit(d)
  <2>1. state' = state /\ queue' = queue /\ tries' = tries
    BY <1>5 DEF RecoverAccount, ReconcileAgain, StartReconcile, Reconcile, BecomeReady, Match, Admit,
                Pass, Seal, vars, row, rest
  <2>2. \/ desk[d].pc \in Claimed /\ (\E step \in Claimed : Move(d, step))
        \/ desk[d].pc \in Sealed /\ (\E step \in Sealed : Move(d, step))
    BY <1>5 DEF RecoverAccount, ReconcileAgain, StartReconcile, BecomeReady, Match, Admit,
                Pass, Seal, DeskAt, Claimed, Sealed
  <2>3. /\ Row(d)' = Row(d)
        /\ \/ desk[d].pc \in Claimed /\ desk'[d].pc \in Claimed
           \/ desk[d].pc \in Sealed /\ desk'[d].pc \in Sealed
    BY <1>1, <2>2, MoveTyped DEF Claimed, Sealed, DeskSteps, RowSteps
  <2>4. DeskOK(d)'
    BY <1>3, <2>1, <2>3 DEF DeskOK, Claimed, Sealed
  <2> QED  BY <1>3, <2>1, <2>4 DEF RowOpen
<1>6. CASE StartSubmit(d)
  <2>1. Row(d) \in Executions /\ queue[Row(d)] = "CLAIMED"
    BY <1>1, <1>3, <1>6 DEF StartSubmit, DeskAt, JobOK, RowPlaces, RowSteps, DeskOK, Claimed
  <2>2. state' = state /\ tries' = tries
    BY <1>6 DEF StartSubmit, vars, row, rest
  <2>3. desk'[d].pc = "admission" /\ Row(d)' = Row(d)
    BY <1>1, <1>6, MoveTyped DEF StartSubmit, DeskSteps, RowSteps
  <2>4. queue'[Row(d)] = "SUBMITTING"
    BY <1>1, <1>6, <2>1, MoveRowTyped DEF StartSubmit, QueueStates
  <2>5. DeskOK(d)'  BY <2>3, <2>4 DEF DeskOK, Claimed, Sealed
  <2>6. \A x \in Executions : RowOpen(x)'
    BY <1>1, <1>3, <1>6, <2>1, <2>2, MoveKeepsOpen DEF StartSubmit, QueueStates
  <2> QED  BY <2>5, <2>6
<1>7. CASE Submit(d)
  <2>1. Row(d) \in Executions /\ queue[Row(d)] = "SUBMITTING"
    BY <1>1, <1>3, <1>7 DEF Submit, DeskAt, JobOK, RowPlaces, RowSteps, DeskOK, Sealed
  <2>2. queue' = queue /\ tries' = tries  BY <1>7 DEF Submit, rest
  <2>3. desk'[d].pc = "submitting" /\ Row(d)' = Row(d)
    BY <1>1, <1>7, MoveTyped DEF Submit, DeskSteps, RowSteps
  <2>4. \A x \in Executions : x # Row(d) => state'[x] = state[x]
    BY <1>1, <1>7, <2>1 DEF Submit, SubmitNew, SubmitRetry, row, TypeOK
  <2>5. DeskOK(d)'  BY <2>1, <2>2, <2>3 DEF DeskOK, Claimed, Sealed
  <2> QED  BY <1>3, <2>1, <2>2, <2>4, <2>5 DEF RowOpen
<1>8. CASE SubmitKnown(d) \/ SubmitFails(d) \/ ReadOutcome(d)
  <2>1. Row(d) \in Executions /\ queue[Row(d)] = "SUBMITTING"
    BY <1>1, <1>3, <1>8
    DEF SubmitKnown, SubmitFails, ReadOutcome, DeskAt, JobOK, RowPlaces, RowSteps, DeskOK, Sealed
  <2>2. queue' = queue /\ tries' = tries
    BY <1>8 DEF SubmitKnown, SubmitFails, ReadOutcome, rest
  <2>3. \E result \in Results : Told(d, result)
    BY <1>1, <1>8, <2>1
    DEF SubmitKnown, SubmitFails, ReadOutcome, Told, TypeOK, Results, States, QueueStates
  <2>4. desk'[d].pc = "outcome" /\ Row(d)' = Row(d)
    BY <1>1, <2>3, ToldTyped
  <2>5. \A x \in Executions : state[x] = "ABSENT" => state'[x] = "ABSENT"
    BY <1>1, <1>8, OthersKeepAbsent DEF SubmitKnown, ReadOutcome, vars, row
  <2>6. DeskOK(d)'  BY <2>1, <2>2, <2>4 DEF DeskOK, Claimed, Sealed
  <2> QED  BY <1>3, <2>2, <2>5, <2>6 DEF RowOpen
<1>9. CASE RecordOutcome(d) \/ RecordFailure(d)
  <2>1. Row(d) \in Executions /\ desk'[d].pc = "due"
    BY <1>1, <1>9, CloseTyped
    DEF RecordOutcome, RecordFailure, DeskAt, JobOK, RowPlaces, RowSteps, DeskSteps
  <2>2. state' = state /\ tries' = tries
    BY <1>9 DEF RecordOutcome, RecordFailure, vars, row, rest
  <2>3. DeskOK(d)'  BY <2>1 DEF DeskOK, Claimed, Sealed
  <2>4. UNCHANGED queue \/ \E from \in Held, to \in QueueStates \ {"PLANNED", "RETRY_WAIT"} :
                              MoveRow(Row(d), from, to)
    BY <1>9 DEF RecordOutcome, RecordFailure, SubmittedAs, QueueStates, Held
  <2>5. \A x \in Executions : RowOpen(x)'
    BY <1>1, <1>3, <2>1, <2>2, <2>4, MoveKeepsOpen DEF RowOpen
  <2> QED  BY <2>3, <2>5
<1> QED  BY <1>4, <1>5, <1>6, <1>7, <1>8, <1>9 DEF DueStep

LEMMA EndKeepsCycles ==
  ASSUME QueueBase, CyclesOK, NEW d \in Dispatchers, SkipStuck(d) \/ Ineligible(d) \/ Fail(d) \/ Stop(d) \/ Die(d)
  PROVE  CyclesOK'
<1>1. QueueTyped /\ JobOK /\ TypeOK /\ IInv /\ KeepsJob(d) /\ KeepsRows
  BY EndTyped DEF QueueBase, IInv
<1>2. UNCHANGED <<tries, overlapped>>
  BY DEF SkipStuck, Ineligible, Fail, Stop, Die, rest
<1>0. CASE desk[d].pc = "away"
  <2>1. Stop(d) \/ Die(d)
    BY <1>0 DEF SkipStuck, Ineligible, Fail, DeskAt, RowSteps
  <2>2. desk'[d].pc = "away"
    BY <1>1, <2>1, AwayTyped DEF Stop, Die, QueueTyped
  <2>3. UNCHANGED <<queue, state>>
    BY <2>1 DEF Stop, Die, Abandon, Crash, vars, row
  <2>4. \A q \in Dispatchers : DeskOK(q) => DeskOK(q)'
    BY <1>2, <2>2, <2>3, <1>1 DEF KeepsJob, DeskOK, Claimed, Sealed, Row
  <2>5. Solo => Solo'  BY <1>0, <1>1, <2>2 DEF Solo, KeepsJob
  <2> QED  BY <1>2, <2>3, <2>4, <2>5 DEF CyclesOK, RowOpen
<1> SUFFICES ASSUME ~overlapped, desk[d].pc # "away"
             PROVE  DeskOK(d)' /\ \A e \in Executions : RowOpen(e)'
  BY <1>0, <1>1, <1>2, Alone
<1>3. \A e \in Executions : RowOpen(e)  BY DEF CyclesOK
<1>4. \A x \in Executions : state[x] = "ABSENT" => state'[x] = "ABSENT"
  BY <1>1, OthersKeepAbsent DEF SkipStuck, Ineligible, Fail, Stop, Die, vars, row
<1>5. desk'[d].pc \in {"stuck", "due", "failed", "away"}
  <2>1. CASE SkipStuck(d) \/ Ineligible(d)
    BY <1>1, <2>1, CloseTyped DEF SkipStuck, Ineligible, DeskSteps
  <2>2. CASE Fail(d) \/ Stop(d) \/ Die(d)
    BY <1>1, <2>2, AwayTyped DEF Fail, Stop, Die, QueueTyped, Desks
  <2> QED  BY <2>1, <2>2
<1>6. DeskOK(d)'  BY <1>5 DEF DeskOK, Claimed, Sealed
<1>7. CASE SkipStuck(d) \/ Fail(d) \/ Stop(d) \/ Die(d)
  BY <1>2, <1>3, <1>4, <1>6, <1>7 DEF SkipStuck, Fail, Stop, Die, RowOpen, rest
<1>8. CASE Ineligible(d)
  <2>1. Row(d) \in Executions
    BY <1>1, <1>8 DEF Ineligible, DeskAt, JobOK, RowPlaces, RowSteps
  <2> QED
    BY <1>1, <1>2, <1>3, <1>6, <1>8, <2>1, MoveKeepsOpen
    DEF Ineligible, QueueStates, rest, vars, row
<1> QED  BY <1>7, <1>8

LEMMA CyclesInvariance == QueueSpec => []CyclesOK
<1>1. QueueInit => CyclesOK
  <2> SUFFICES ASSUME QueueInit  PROVE CyclesOK
    OBVIOUS
  <2>1. \A d \in Dispatchers : desk[d].pc = "away"  BY AwayTyped DEF QueueInit
  <2>2. \A e \in Executions : queue[e] = "NONE" /\ tries[e] = 0 /\ state[e] = "ABSENT"
    BY DEF QueueInit, Init
  <2>3. MaxTries \in Nat /\ 0 <= MaxTries  BY DispatchersAssumption
  <2>4. \A e \in Executions : RowOpen(e)  BY <2>2, <2>3 DEF RowOpen
  <2>5. Solo /\ \A d \in Dispatchers : DeskOK(d)  BY <2>1 DEF Solo, DeskOK, Claimed, Sealed
  <2> QED  BY <2>4, <2>5 DEF CyclesOK
<1>2. QueueBase /\ CyclesOK /\ [QueueNext]_allVars => CyclesOK'
  <2> SUFFICES ASSUME QueueBase, CyclesOK, [QueueNext]_allVars  PROVE CyclesOK'
    OBVIOUS
  <2>1. CASE UNCHANGED allVars
    BY <2>1
    DEF allVars, queueVars, rest, vars, row, CyclesOK, Solo, DeskOK, RowOpen, Row
  <2> QED
    BY <2>1, CycleKeepsCycles, StuckKeepsCycles, DueKeepsCycles, EndKeepsCycles, OthersKeepCycles
    DEF QueueNext, Await
<1> QED  BY <1>1, <1>2, QueueInvariance, PTL DEF QueueSpec

\* While cycles do not overlap, a row that discover() or due() may hand out has
\* no execution, so _recover_queue_row's "confirmed pre-submit" is true.
THEOREM UntouchedRetry == QueueSpec => []RetryMeansUntouched
<1>1. CyclesOK => RetryMeansUntouched
  BY DEF CyclesOK, RowOpen, RetryMeansUntouched
<1> QED  BY <1>1, CyclesInvariance, PTL

\* ... and claim() never counts a row past its max_attempts.
THEOREM BoundedTries == QueueSpec => []TriesAreBounded
<1>1. CyclesOK => TriesAreBounded
  BY DEF CyclesOK, RowOpen, TriesAreBounded
<1> QED  BY <1>1, CyclesInvariance, PTL

-----------------------------------------------------------------------------
(* What the rows say.                                                      *)

\* A worker that has seen an order, or is about to call it open, works on an
\* execution that has one; so does a row that was called open.
PlacedOK(p) ==
    /\ local[p].seen # NoOrder => Job(p) \in Executions /\ market[Job(p)] # "NONE"
    /\ At(p, "settle") /\ local[p].goal = "ACKNOWLEDGED" => market[Job(p)] # "NONE"

Placed ==
    /\ \A e \in Executions : state[e] = "ACKNOWLEDGED" => market[e] # "NONE"
    /\ \A p \in Workers : PlacedOK(p)

\* The exchange forgets no order.
LEMMA MarketStays ==
  ASSUME IInv, [QuietNext]_vars, NEW e \in Executions, market[e] # "NONE"
  PROVE  market'[e] # "NONE"
<1>1. TypeOK  BY DEF IInv
<1>2. CASE WorkerStep
  BY <1>2 DEF WorkerStep, Writes, Ingests, Sends, exchange
<1>3. CASE ExchangeStep
  BY <1>1, <1>3
  DEF ExchangeStep, AcceptOrder, DropOrder, Deliver, FillOrder, CloseOrder, TypeOK
<1> QED  BY <1>2, <1>3, Kinds

\* One worker moves.
LEMMA PlacedMove ==
  ASSUME IInv, [QuietNext]_vars, Placed, NEW p \in Workers,
         \A q \in Workers : q # p => local'[q] = local[q],
         /\ local'[p].seen # NoOrder => Job(p)' \in Executions /\ market[Job(p)'] # "NONE"
         /\ At(p, "settle")' /\ local'[p].goal = "ACKNOWLEDGED" =>
               Job(p)' \in Executions /\ market[Job(p)'] # "NONE",
         \A e \in Executions :
            state'[e] = "ACKNOWLEDGED" => state[e] = "ACKNOWLEDGED" \/ market[e] # "NONE"
  PROVE  Placed'
<1>1. \A e \in Executions : state'[e] = "ACKNOWLEDGED" => market'[e] # "NONE"
  BY MarketStays DEF Placed
<1>2. PlacedOK(p)'
  BY MarketStays DEF PlacedOK, Job
<1>3. ASSUME NEW q \in Workers, q # p  PROVE PlacedOK(q)'
  <2>1. local'[q] = local[q] /\ PlacedOK(q)  BY <1>3 DEF Placed
  <2>2. At(q, "settle") => Job(q) \in Executions
    BY DEF IInv, WorkerInv, SenderOK, At
  <2>3. Job(q)' = Job(q)  BY <2>1 DEF Job
  <2> QED  BY <2>1, <2>2, <2>3, MarketStays DEF PlacedOK, At
<1> QED  BY <1>1, <1>2, <1>3 DEF Placed

\* A compare-and-set to any other state calls no row open.
LEMMA NotAcked ==
  ASSUME TypeOK, NEW x \in Executions, NEW from, NEW to, NEW learned, to # "ACKNOWLEDGED",
         Transition(x, from, to, learned)
  PROVE  \A e \in Executions : state'[e] = "ACKNOWLEDGED" => state[e] = "ACKNOWLEDGED"
  BY DEF Transition, TypeOK

LEMMA PlacedSubmit ==
  ASSUME IInv, Placed, NEW p \in Workers, SubmitStep(p)
  PROVE  Placed'
<1>1. TypeOK /\ SenderOK(p) /\ PlacedOK(p) /\ [QuietNext]_vars
  BY DEF IInv, WorkerInv, Placed, QuietNext
<1>2. ASSUME NEW e \in Executions, SubmitNew(p, e) \/ SubmitRetry(p, e)  PROVE Placed'
  <2>1. /\ local'[p].seen = NoOrder /\ local'[p].pc # "settle"
        /\ \A q \in Workers : q # p => local'[q] = local[q]
    <3>1. local \in [Workers -> Locals]  BY <1>1 DEF TypeOK
    <3>2. CASE SubmitNew(p, e)
      BY <3>1, <3>2 DEF SubmitNew, Idle
    <3>3. CASE SubmitRetry(p, e)
      BY <3>1, <3>3 DEF SubmitRetry, Idle
    <3> QED  BY <1>2, <3>2, <3>3
  <2>2. \A x \in Executions : state'[x] = "ACKNOWLEDGED" => state[x] = "ACKNOWLEDGED"
    BY <1>1, <1>2 DEF SubmitNew, SubmitRetry, row, TypeOK
  <2> QED  BY <1>1, <2>1, <2>2, PlacedMove DEF At
<1>3. ASSUME NEW from, NEW to, NEW step \in Steps \ {"settle"}, to # "ACKNOWLEDGED",
             Job(p) \in Executions, Transition(Job(p), from, to, FALSE),
             Goto(p, step) \/ Return(p)
      PROVE  Placed'
  <2>1. /\ \A q \in Workers : q # p => local'[q] = local[q]
        /\ local'[p].pc # "settle"
        /\ local'[p].seen # NoOrder => local'[p].seen = local[p].seen /\ Job(p)' = Job(p)
    <3>1. CASE Goto(p, step)
      BY <1>1, <1>3, <3>1, GotoTyped DEF TypeOK, Job
    <3>2. CASE Return(p)
      BY <1>1, <3>2, IdleTyped, LocalTyped DEF TypeOK, Return
    <3> QED  BY <1>3, <3>1, <3>2
  <2> QED  BY <1>1, <1>3, <2>1, NotAcked, PlacedMove DEF At, PlacedOK
<1>4. CASE Validate(p) \/ Enqueue(p) \/ StartSubmitting(p) \/ PlaceAmbiguous(p) \/ PlaceRefused(p)
  <2>1. Job(p) \in Executions
    BY <1>1, <1>4
    DEF Validate, Enqueue, StartSubmitting, Claim, PlaceAmbiguous, PlaceRefused, Refused, At, SenderOK
  <2>2. CASE Validate(p) \/ Enqueue(p) \/ StartSubmitting(p)
    <3>1. \E from \in States, to \in {"VALIDATED", "QUEUED", "SUBMITTING"},
             step \in {"validated", "queued", "won"} :
             Transition(Job(p), from, to, FALSE) /\ (Goto(p, step) \/ Return(p))
      BY <1>1, <2>2
      DEF Validate, Enqueue, StartSubmitting, Claim, TypeOK, Locals, States
    <3> QED  BY <1>3, <2>1, <3>1 DEF Steps
  <2>3. CASE PlaceAmbiguous(p) \/ PlaceRefused(p)
    <3>1. PICK to \in {"UNKNOWN", "REJECTED", "FAILED", "RETRY_WAIT"} : PlaceEnds(p, to)
      BY <2>3 DEF PlaceAmbiguous, PlaceRefused
    <3>2. Transition(Job(p), "SUBMITTING", to, FALSE) /\ Return(p) /\ to # "ACKNOWLEDGED"
      BY <3>1 DEF PlaceEnds
    <3>3. "idle" \in Steps \ {"settle"}  BY DEF Steps
    <3> QED  BY <1>3, <2>1, <3>2, <3>3
  <2> QED  BY <1>4, <2>2, <2>3
<1>5. CASE BeginAttempt(p) \/ SendOrder(p)
  <2>1. /\ \A q \in Workers : q # p => local'[q] = local[q]
        /\ local'[p].pc # "settle"
        /\ local'[p].seen = local[p].seen /\ Job(p)' = Job(p)
    BY <1>1, <1>5 DEF BeginAttempt, SendOrder, Goto, TypeOK, Locals, Job
  <2>2. state' = state  BY <1>5 DEF BeginAttempt, SendOrder, row
  <2> QED  BY <1>1, <2>1, <2>2, PlacedMove DEF At, PlacedOK
<1>6. CASE PlaceAccepted(p)
  <2>1. Job(p) \in Executions /\ local[p].attempt = attempts[Job(p)] /\ local[p].attempt \in AttemptNumbers
    BY <1>1, <1>6, BoundsAssumption
    DEF PlaceAccepted, At, SenderOK, TypeOK, AttemptNumbers, Locals
  <2>2. market[Job(p)] # "NONE"
    BY <1>6, <2>1 DEF PlaceAccepted, Answered, IInv, ExecutionInv, MarketOK
  <2>3. /\ \A q \in Workers : q # p => local'[q] = local[q]
        /\ local'[p].pc = "answered" /\ Job(p)' = Job(p)
    BY <1>1, <1>6 DEF PlaceAccepted, TypeOK, Locals, Job
  <2>4. \A x \in Executions : state'[x] = "ACKNOWLEDGED" => state[x] = "ACKNOWLEDGED"
    BY <1>1, <1>6, <2>1, NotAcked DEF PlaceAccepted
  <2> QED  BY <1>1, <2>1, <2>2, <2>3, <2>4, PlacedMove DEF At
<1> QED  BY <1>2, <1>4, <1>5, <1>6 DEF SubmitStep

LEMMA PlacedRecover ==
  ASSUME IInv, Placed, NEW p \in Workers, RecoverStep(p)
  PROVE  Placed'
<1>1. TypeOK /\ SenderOK(p) /\ GoalOK(p) /\ PlacedOK(p) /\ [QuietNext]_vars
  BY DEF IInv, WorkerInv, Placed, QuietNext
<1>2. ASSUME NEW e \in Executions, NEW order, BeginRecover(p, e, order),
             order # NoOrder => market[e] # "NONE"
      PROVE  Placed'
  <2>1. /\ \A q \in Workers : q # p => local'[q] = local[q]
        /\ local'[p].pc # "settle"
        /\ local'[p].seen # NoOrder => local'[p].seen = order /\ Job(p)' = e
    <3>1. CASE Return(p)
      BY <1>1, <3>1, IdleTyped, LocalTyped DEF TypeOK, Return
    <3>2. CASE ~Return(p)
      <4>1. local \in [Workers -> Locals] /\ p \in Workers  BY <1>1 DEF TypeOK
      <4>2. PICK there \in {"refill", "lookup", "fills"} :
               \/ local' = [local EXCEPT ![p] = [[Idle EXCEPT !.job = e, !.seen = order] EXCEPT !.pc = there]]
               \/ \E source : local' = [local EXCEPT ![p] = [[Idle EXCEPT !.job = e, !.seen = order]
                                                  EXCEPT !.pc = there, !.source = source]]
        BY <1>2, <3>2 DEF BeginRecover
      <4> QED  BY <4>1, <4>2 DEF Idle, Job
    <3> QED  BY <3>1, <3>2
  <2>2. \A x \in Executions : state'[x] = "ACKNOWLEDGED" => state[x] = "ACKNOWLEDGED"
    BY <1>1, <1>2, NotAcked DEF BeginRecover, row
  <2> QED  BY <1>1, <1>2, <2>1, <2>2, PlacedMove DEF At
<1>3. CASE RecoverSubmitted(p)
  <2>1. Job(p) \in Executions  BY <1>1, <1>3 DEF RecoverSubmitted, At, SenderOK
  <2> QED  BY <1>1, <1>2, <1>3, <2>1 DEF RecoverSubmitted, PlacedOK
<1>4. ASSUME NEW e \in Executions, Recover(p, e) \/ ReconcileOne(p, e)  PROVE Placed'
  BY <1>2, <1>4 DEF Recover, ReconcileOne
<1>5. CASE Reconcile(p)
  BY <1>1, <1>5, PlacedMove DEF Reconcile, row, PlacedOK, Job, At, SenderOK
<1>6. ASSUME NEW recognised \in BOOLEAN, LookupFound(p, recognised)  PROVE Placed'
  <2>1. Job(p) \in Executions /\ market[Job(p)] # "NONE"
    BY <1>1, <1>6 DEF LookupFound, At, SenderOK
  <2>2. /\ \A q \in Workers : q # p => local'[q] = local[q]
        /\ local'[p].pc = "fills" /\ Job(p)' = Job(p)
    BY <1>1, <1>6 DEF LookupFound, TypeOK, Locals, Job
  <2>3. state' = state  BY <1>6 DEF LookupFound, row
  <2> QED  BY <1>1, <2>1, <2>2, <2>3, PlacedMove DEF At
<1>7. CASE LookupMissing(p)
  <2>1. /\ \A q \in Workers : q # p => local'[q] = local[q]
        /\ local'[p].pc = "fills" /\ Job(p)' = Job(p) /\ local'[p].seen = local[p].seen
    BY <1>1, <1>7 DEF LookupMissing, Goto, TypeOK, Locals, Job
  <2>2. state' = state  BY <1>7 DEF LookupMissing, row
  <2> QED  BY <1>1, <2>1, <2>2, PlacedMove DEF At, PlacedOK
<1>8. ASSUME NEW listed \in 0..Quantity, NEW priced \in BOOLEAN, NEW doubt \in BOOLEAN,
             ReadFills(p, listed, priced, doubt)
      PROVE  Placed'
  <2>1. Job(p) \in Executions  BY <1>1, <1>8 DEF ReadFills, At, SenderOK
  <2> DEFINE goal == RecoverTarget(local[p].seen, summary'[Job(p)] + detail'[Job(p)], doubt)
  <2>2. goal = "ACKNOWLEDGED" => local[p].seen # NoOrder
    BY DEF RecoverTarget, NoOrder
  <2>3. local' = [local EXCEPT ![p].pc = "settle", ![p].goal = goal]
    BY <1>8 DEF ReadFills
  <2> HIDE DEF goal
  <2>4. /\ \A q \in Workers : q # p => local'[q] = local[q]
        /\ local'[p].goal = goal /\ Job(p)' = Job(p) /\ local'[p].seen = local[p].seen
    BY <1>1, <2>3 DEF TypeOK, Locals, Job
  <2>5. state' = state  BY <1>8 DEF ReadFills, IngestFills, row
  <2> QED  BY <1>1, <2>1, <2>2, <2>4, <2>5, PlacedMove DEF PlacedOK
<1>9. CASE Settle(p)
  <2>1. Job(p) \in Executions /\ (local[p].goal = "ACKNOWLEDGED" => market[Job(p)] # "NONE")
    BY <1>1, <1>9 DEF Settle, At, SenderOK, PlacedOK
  <2>2. \A x \in Executions :
           state'[x] = "ACKNOWLEDGED" => state[x] = "ACKNOWLEDGED" \/ market[x] # "NONE"
    BY <1>1, <1>9, <2>1 DEF Settle, Transition, TypeOK, Job
  <2>3. local' = [local EXCEPT ![p] = Idle]  BY <1>9 DEF Settle, Return
  <2>4. /\ \A q \in Workers : q # p => local'[q] = local[q]
        /\ local'[p].seen = NoOrder /\ local'[p].pc # "settle"
    BY <1>1, <2>3, IdleTyped DEF TypeOK
  <2> QED  BY <1>1, <2>2, <2>4, PlacedMove DEF At
<1>10. ASSUME NEW listed \in 0..Quantity, ReadFillsAgain(p, listed)  PROVE Placed'
  <2>1. /\ \A q \in Workers : q # p => local'[q] = local[q]
        /\ local'[p].seen = NoOrder /\ local'[p].pc # "settle"
    BY <1>1, <1>10, IdleTyped, LocalTyped DEF ReadFillsAgain, Return, TypeOK
  <2>2. state' = state  BY <1>10 DEF ReadFillsAgain, IngestFills, row
  <2> QED  BY <1>1, <2>1, <2>2, PlacedMove DEF At
<1> QED  BY <1>3, <1>4, <1>5, <1>6, <1>7, <1>8, <1>9, <1>10 DEF RecoverStep

LEMMA PlacedNext ==
  ASSUME IInv, Placed, [QuietNext]_vars
  PROVE  Placed'
<1>1. TypeOK  BY DEF IInv
<1>2. ASSUME NEW p \in Workers, Crash(p)  PROVE Placed'
  <2>1. /\ \A q \in Workers : q # p => local'[q] = local[q]
        /\ local'[p].seen = NoOrder /\ local'[p].pc # "settle"
    BY <1>1, <1>2, IdleTyped, LocalTyped DEF Crash, Return, TypeOK
  <2>2. state' = state  BY <1>2 DEF Crash, row
  <2> QED  BY <2>1, <2>2, PlacedMove DEF At
<1>3. CASE local' = local /\ state' = state
  <2>1. \A p \in Workers : At(p, "settle") => Job(p) \in Executions
    BY DEF IInv, WorkerInv, SenderOK, At
  <2> QED  BY <1>3, <2>1, MarketStays DEF Placed, PlacedOK, Job, At
<1>4. CASE ExchangeStep \/ UNCHANGED vars
  BY <1>3, <1>4 DEF ExchangeStep, AcceptOrder, DropOrder, Deliver, FillOrder, CloseOrder, vars, row
<1> QED
  BY <1>2, <1>4, PlacedSubmit, PlacedRecover DEF QuietNext

\* What a dispatcher was told of an execution stays true of its order.
ToldTrue(d) ==
    desk[d].pc \in {"recovered", "outcome"} =>
        /\ desk[d].result = "FILLED" => market[Row(d)] = "FILLED"
        /\ desk[d].result = "CANCELLED" => market[Row(d)] = "CANCELLED"
        /\ desk[d].result \in {"ACKNOWLEDGED", "PARTIALLY_FILLED"} => market[Row(d)] # "NONE"

TruthBase == Uncancelled /\ Placed
TruthOK == (\A d \in Dispatchers : ToldTrue(d)) /\ RowsAreTrue

\* What a row of live_executions says of its order is so, ...
LEMMA StateIsTrue ==
  ASSUME IInv, TruthBase, NEW e \in Executions
  PROVE  /\ state[e] = "FILLED" => market[e] = "FILLED"
         /\ state[e] = "CANCELLED" => market[e] = "CANCELLED"
         /\ state[e] \in {"ACKNOWLEDGED", "PARTIALLY_FILLED"} => market[e] # "NONE"
<1>1. RowOK(e) /\ MarketOK(e) /\ TypeOK /\ LedgerIsHonest  BY DEF IInv, ExecutionInv
<1>2. state[e] = "PARTIALLY_FILLED" => market[e] # "NONE"
  BY <1>1 DEF RowOK, MarketOK, LedgerIsHonest, TypeOK, Executed
<1> QED  BY <1>1, <1>2 DEF RowOK, TruthBase, Uncancelled, Placed

\* ... and stays so.
LEMMA MarketKeeps ==
  ASSUME IInv, [QuietNext]_vars, NEW e \in Executions
  PROVE  /\ market[e] # "NONE" => market'[e] # "NONE"
         /\ market[e] \in {"FILLED", "CANCELLED"} => market'[e] = market[e]
<1>1. TypeOK  BY DEF IInv
<1>2. ASSUME market[e] \in {"FILLED", "CANCELLED"}  PROVE market'[e] = market[e]
  <2>1. CASE WorkerStep
    BY <2>1 DEF WorkerStep, Writes, Ingests, Sends, exchange
  <2>2. CASE ExchangeStep
    BY <1>1, <1>2, <2>2, ClosedStays
  <2> QED  BY <2>1, <2>2, Kinds
<1> QED  BY <1>2, MarketStays

\* What a step tells a dispatcher, it has read in the execution's row.
Tells(d) ==
    desk'[d].pc \in {"recovered", "outcome"} =>
        /\ Row(d)' \in Executions
        /\ \/ desk'[d].result = state[Row(d)']
           \/ desk'[d].result \in {"UNKNOWN", "REJECTED"}

\* What a step writes in a queue row, a dispatcher was told.
Says(e) ==
    \/ queue'[e] = queue[e]
    \/ queue'[e] \notin {"FILLED", "CANCELED", "ACKNOWLEDGED", "PARTIALLY_FILLED"}
    \/ \E d \in Dispatchers :
          /\ desk[d].pc \in {"recovered", "outcome"} /\ Row(d) = e
          /\ desk[d].result # "CANCELED"
          /\ queue'[e] = IF desk[d].result = "CANCELLED" THEN "CANCELED" ELSE desk[d].result

LEMMA TruthKept ==
  ASSUME QueueBase, TruthBase, TruthOK, [QueueNext]_allVars,
         \A d \in Dispatchers : desk'[d] = desk[d] \/ Tells(d),
         \A e \in Executions : Says(e)
  PROVE  TruthOK'
<1>1. IInv /\ JobOK /\ [QuietNext]_vars
  BY ExecutionStep DEF QueueBase
<1>2. ASSUME NEW d \in Dispatchers  PROVE ToldTrue(d)'
  <2>1. CASE desk'[d] = desk[d]
    <3>1. ToldTrue(d) /\ Row(d)' = Row(d)  BY <2>1 DEF TruthOK, Row
    <3>2. desk[d].pc \in {"recovered", "outcome"} => Row(d) \in Executions
      BY <1>1 DEF JobOK, RowPlaces, RowSteps
    <3> QED  BY <1>1, <2>1, <3>1, <3>2, MarketKeeps DEF ToldTrue
  <2>2. CASE Tells(d)
    BY <1>1, <2>2, MarketKeeps, StateIsTrue DEF Tells, ToldTrue, Row
  <2> QED  BY <2>1, <2>2
<1>3. ASSUME NEW e \in Executions
      PROVE  /\ queue'[e] = "FILLED" => market'[e] = "FILLED"
             /\ queue'[e] = "CANCELED" => market'[e] = "CANCELLED"
             /\ queue'[e] \in {"ACKNOWLEDGED", "PARTIALLY_FILLED"} => market'[e] # "NONE"
  <2>1. CASE queue'[e] = queue[e]
    BY <1>1, <2>1, MarketKeeps DEF TruthOK, RowsAreTrue
  <2>2. ASSUME NEW d \in Dispatchers,
               desk[d].pc \in {"recovered", "outcome"} /\ Row(d) = e,
               queue'[e] = IF desk[d].result = "CANCELLED" THEN "CANCELED" ELSE desk[d].result,
               desk[d].result # "CANCELED"
        PROVE  /\ queue'[e] = "FILLED" => market'[e] = "FILLED"
               /\ queue'[e] = "CANCELED" => market'[e] = "CANCELLED"
               /\ queue'[e] \in {"ACKNOWLEDGED", "PARTIALLY_FILLED"} => market'[e] # "NONE"
    BY <1>1, <2>2, MarketKeeps DEF TruthOK, ToldTrue
  <2> QED  BY <2>1, <2>2 DEF Says
<1> QED  BY <1>2, <1>3 DEF TruthOK, RowsAreTrue

LEMMA TruthOfCycle ==
  ASSUME QueueBase, NEW d \in Dispatchers, CycleStep(d)
  PROVE  /\ \A q \in Dispatchers : desk'[q] = desk[q] \/ Tells(q)
         /\ \A e \in Executions : Says(e)
<1>1. QueueTyped /\ KeepsJob(d)  BY CycleTyped DEF QueueBase
<1>2. desk'[d].pc \in {"discover", "expire", "list", "stuck", "due", "away"}
  BY <1>1
  DEF CycleStep, BeginCycle, Discover, RecoverExpired, ListStuck, ListDue, EndCycle, Move,
      QueueTyped, Desks
<1>3. \A e \in Executions : queue'[e] \in {queue[e], "PLANNED", "RECOVERY_REQUIRED"}
  BY <1>1
  DEF CycleStep, BeginCycle, Discover, RecoverExpired, ListStuck, ListDue, EndCycle, QueueTyped
<1> QED  BY <1>1, <1>2, <1>3 DEF KeepsJob, Tells, Says

LEMMA TruthOfStuck ==
  ASSUME QueueBase, NEW d \in Dispatchers, StuckStep(d)
  PROVE  /\ \A q \in Dispatchers : desk'[q] = desk[q] \/ Tells(q)
         /\ \A e \in Executions : Says(e)
<1>1. QueueTyped /\ JobOK /\ KeepsJob(d)  BY StuckTyped DEF QueueBase, IInv
<1>2. CASE ReadRecovered(d)
  <2>1. /\ desk'[d].result = state[Row(d)] /\ Row(d)' = Row(d) /\ Row(d) \in Executions
        /\ queue' = queue
    BY <1>1, <1>2
    DEF ReadRecovered, DeskAt, QueueTyped, Desks, Row, JobOK, RowPlaces
  <2> QED  BY <1>1, <2>1 DEF KeepsJob, Tells, Says
<1>3. CASE \/ \E e \in Executions : FindUnsent(d, e) \/ RecoverSent(d, e)
           \/ ReadTries(d) \/ ScheduleRetry(d) \/ RecordRecovered(d)
  <2>1. desk'[d].pc \in {"unsent", "recovering", "retry", "stuck"}
    <3>1. ASSUME NEW e \in Executions, FindUnsent(d, e) \/ RecoverSent(d, e)
          PROVE  desk'[d].pc \in {"unsent", "recovering"}
      BY <1>1, <3>1, TakeTyped DEF FindUnsent, RecoverSent, DeskSteps
    <3>2. CASE ReadTries(d)
      BY <1>1, <3>2 DEF ReadTries, QueueTyped, Desks
    <3>3. CASE ScheduleRetry(d) \/ RecordRecovered(d)
      BY <1>1, <3>3, CloseTyped DEF ScheduleRetry, RecordRecovered, DeskSteps
    <3> QED  BY <1>3, <3>1, <3>2, <3>3
  <2>2. ASSUME NEW e \in Executions  PROVE Says(e)
    <3>1. CASE RecordRecovered(d) /\ e = Row(d)
      <4>1. desk[d].pc = "recovered"  BY <3>1 DEF RecordRecovered, DeskAt
      <4>2. queue'[e] = queue[e] \/ queue'[e] = RecoveredAs(desk[d].result)
        BY <1>1, <3>1, MoveRowTyped DEF RecordRecovered, RecoveredAs, QueueStates
      <4> QED  BY <3>1, <4>1, <4>2 DEF Says, RecoveredAs
    <3>2. CASE RecordRecovered(d) /\ e # Row(d)
      BY <1>1, <3>2 DEF RecordRecovered, MoveRow, QueueTyped, Says
    <3>3. CASE ScheduleRetry(d)
      BY <1>1, <3>3 DEF ScheduleRetry, MoveRow, QueueTyped, Says
    <3>4. CASE \/ \E x \in Executions : FindUnsent(d, x) \/ RecoverSent(d, x)
               \/ ReadTries(d)
      BY <3>4 DEF FindUnsent, RecoverSent, ReadTries, Says
    <3> QED  BY <1>3, <3>1, <3>2, <3>3, <3>4
  <2> QED  BY <1>1, <2>1, <2>2 DEF KeepsJob, Tells
<1> QED  BY <1>2, <1>3 DEF StuckStep

LEMMA TruthOfDue ==
  ASSUME QueueBase, NEW d \in Dispatchers, DueStep(d)
  PROVE  /\ \A q \in Dispatchers : desk'[q] = desk[q] \/ Tells(q)
         /\ \A e \in Executions : Says(e)
<1>1. QueueTyped /\ JobOK /\ TypeOK /\ KeepsJob(d)  BY DueTyped DEF QueueBase, IInv
<1>2. CASE SubmitKnown(d) \/ SubmitFails(d) \/ ReadOutcome(d)
  <2>1. Row(d) \in Executions
    BY <1>1, <1>2 DEF SubmitKnown, SubmitFails, ReadOutcome, DeskAt, JobOK, RowPlaces, RowSteps
  <2>2. queue' = queue  BY <1>2 DEF SubmitKnown, SubmitFails, ReadOutcome
  <2>3. \E result \in Results : Told(d, result) /\ result \in {state[Row(d)], "UNKNOWN", "REJECTED"}
    BY <1>1, <1>2, <2>1
    DEF SubmitKnown, SubmitFails, ReadOutcome, Told, TypeOK, Results, States, QueueStates
  <2>4. /\ desk'[d].result \in {state[Row(d)], "UNKNOWN", "REJECTED"}
        /\ Row(d)' = Row(d)
    BY <1>1, <2>3, ToldTyped
  <2> QED  BY <1>1, <2>1, <2>2, <2>4 DEF KeepsJob, Tells, Says
<1>3. CASE RecordOutcome(d)
  <2>1. desk'[d].pc = "due" /\ desk[d].pc = "outcome"
    BY <1>1, <1>3, CloseTyped DEF RecordOutcome, DeskSteps, DeskAt
  <2>2. ASSUME NEW e \in Executions  PROVE Says(e)
    <3>1. CASE e # Row(d)
      BY <1>1, <1>3, <3>1 DEF RecordOutcome, MoveRow, QueueTyped, Says
    <3>2. CASE e = Row(d)
      <4>1. queue'[e] = queue[e] \/ queue'[e] = SubmittedAs(desk[d].result)
        BY <1>1, <1>3, <3>2, MoveRowTyped DEF RecordOutcome, SubmittedAs, QueueStates
      <4> QED  BY <2>1, <3>2, <4>1 DEF Says, SubmittedAs
    <3> QED  BY <3>1, <3>2
  <2> QED  BY <1>1, <2>1, <2>2 DEF KeepsJob, Tells
<1>4. CASE \/ \E e \in Executions : ClaimRow(d, e)
           \/ RecoverAccount(d) \/ BecomeReady(d) \/ ReconcileAgain(d) \/ Match(d)
           \/ Seal(d) \/ StartSubmit(d) \/ Admit(d) \/ Submit(d) \/ RecordFailure(d)
  <2>1. desk'[d].pc \in DeskSteps \ {"recovered", "outcome"}
    <3>1. ASSUME NEW e \in Executions, ClaimRow(d, e)
          PROVE  desk'[d].pc \in {"claimed", "due"}
      BY <1>1, <3>1 DEF ClaimRow, Take, QueueTyped, Desks, DeskAt
    <3>2. CASE RecordFailure(d)
      BY <1>1, <3>2, CloseTyped DEF RecordFailure, DeskSteps
    <3>3. CASE \/ RecoverAccount(d) \/ BecomeReady(d) \/ ReconcileAgain(d) \/ Match(d)
               \/ Seal(d) \/ StartSubmit(d) \/ Admit(d) \/ Submit(d)
      <4>1. \E step \in RowSteps \ {"outcome"} : Move(d, step)
        BY <3>3
        DEF RecoverAccount, ReconcileAgain, StartReconcile, BecomeReady, Match, Admit, Pass,
            Seal, StartSubmit, Submit, RowSteps
      <4> QED  BY <1>1, <4>1, MoveTyped DEF DeskSteps, RowSteps
    <3> QED  BY <1>4, <3>1, <3>2, <3>3 DEF DeskSteps, RowSteps
  <2>2. \A e \in Executions :
           queue'[e] \in {queue[e], "CLAIMED", "SUBMITTING", "RECOVERY_REQUIRED"}
    BY <1>1, <1>4
    DEF ClaimRow, RecoverAccount, ReconcileAgain, StartReconcile, BecomeReady, Match, Admit, Pass,
        Seal, StartSubmit, Submit, RecordFailure, MoveRow, QueueTyped
  <2> QED  BY <1>1, <2>1, <2>2 DEF KeepsJob, Tells, Says
<1> QED  BY <1>2, <1>3, <1>4 DEF DueStep

LEMMA TruthOfEnd ==
  ASSUME QueueBase, NEW d \in Dispatchers, SkipStuck(d) \/ Ineligible(d) \/ Fail(d) \/ Stop(d) \/ Die(d)
  PROVE  /\ \A q \in Dispatchers : desk'[q] = desk[q] \/ Tells(q)
         /\ \A e \in Executions : Says(e)
<1>1. QueueTyped /\ KeepsJob(d)  BY EndTyped DEF QueueBase
<1>2. desk'[d].pc \in {"stuck", "due", "failed", "away"}
  <2>1. CASE SkipStuck(d) \/ Ineligible(d)
    BY <1>1, <2>1, CloseTyped DEF SkipStuck, Ineligible, DeskSteps
  <2>2. CASE Fail(d) \/ Stop(d) \/ Die(d)
    BY <1>1, <2>2, AwayTyped DEF Fail, Stop, Die, QueueTyped, Desks
  <2> QED  BY <2>1, <2>2
<1>3. \A e \in Executions : queue'[e] \in {queue[e], "REJECTED"}
  BY <1>1 DEF SkipStuck, Ineligible, Fail, Stop, Die, MoveRow, QueueTyped
<1> QED  BY <1>1, <1>2, <1>3 DEF KeepsJob, Tells, Says

\* What the queue relies on holds from the first state on, ...
LEMMA TruthBaseInit == QueueInit => TruthBase
<1> SUFFICES ASSUME QueueInit  PROVE TruthBase
  OBVIOUS
<1>1. Uncancelled  BY UncancelledInit DEF QueueInit
<1>2. Placed  BY IdleTyped DEF QueueInit, Init, Placed, PlacedOK, At
<1> QED  BY <1>1, <1>2 DEF TruthBase

\* ... since no step of the queue calls cancel().
LEMMA TruthBaseInvariance == QueueSpec => []TruthBase
<1>1. QueueBase /\ TruthBase /\ [QueueNext]_allVars => TruthBase'
  BY ExecutionStep, UncancelledNext, PlacedNext DEF QueueBase, TruthBase
<1> QED  BY <1>1, TruthBaseInit, QueueInvariance, PTL DEF QueueSpec

\* Under the queue a FILLED or CANCELLED execution says what the exchange says:
\* nothing it does leads to cancel().
THEOREM QueueConclusion == QueueSpec => []ConclusionIsTrue
<1>1. QueueBase /\ TruthBase => ConclusionIsTrue
  BY UncancelledIsTrue DEF QueueBase, TruthBase
<1> QED  BY <1>1, TruthBaseInvariance, QueueInvariance, PTL

\* ... and dispatchers, reconciliation workers and the exchange together
\* implement OrderTruth: an order placed at most once, one true verdict.
THEOREM QueueKeepsTruth == QueueSpec => KeepsTruth
<1>1. QueueInit => Truth!Init  BY TruthInit DEF QueueInit
<1>2. QueueBase /\ [QueueNext]_allVars => [Truth!Next]_(Truth!vars)
  BY ExecutionStep, TruthNext DEF QueueBase
<1> QED  BY <1>1, <1>2, QueueInvariance, PTL DEF QueueSpec, KeepsTruth, Truth!Spec

\* A queue row says only what is so at the exchange: what submit() or recover()
\* told its dispatcher was read in the execution's row, which is true, and the
\* exchange takes nothing back.
THEOREM TrueRows == QueueSpec => []RowsAreTrue
<1>1. QueueInit => TruthOK
  BY AwayTyped DEF QueueInit, TruthOK, ToldTrue, RowsAreTrue
<1>2. QueueBase /\ TruthBase /\ TruthOK /\ [QueueNext]_allVars => TruthOK'
  <2> SUFFICES ASSUME QueueBase, TruthBase, TruthOK, [QueueNext]_allVars  PROVE TruthOK'
    OBVIOUS
  <2>1. ASSUME UNCHANGED queueVars  PROVE TruthOK'
    <3>1. /\ \A d \in Dispatchers : desk'[d] = desk[d] \/ Tells(d)
          /\ \A e \in Executions : Says(e)
      BY <2>1 DEF queueVars, Says
    <3> QED  BY <3>1, TruthKept
  <2> QED
    BY <2>1, TruthKept, TruthOfCycle, TruthOfStuck, TruthOfDue, TruthOfEnd
    DEF QueueNext, Await, allVars
<1>3. TruthOK => RowsAreTrue  BY DEF TruthOK
<1> QED  BY <1>1, <1>2, <1>3, TruthBaseInvariance, QueueInvariance, PTL DEF QueueSpec

-----------------------------------------------------------------------------
(* Why a row is rejected.                                                  *)

\* The places of a worker inside submit().
SubmitSteps == {"created", "validated", "queued", "won", "begun", "placing", "answered"}

\* A dispatcher is inside submit() only while it waits for it, on its own row;
\* the reconciliation workers never are.
CallsOK ==
    \A p \in Workers : local[p].pc \in SubmitSteps =>
        p \in Dispatchers /\ desk[p].pc = "submitting" /\ Job(p) = Row(p)

\* No worker enters submit(), and those inside keep their row.
Calm ==
    \A p \in Workers :
        local'[p].pc \in SubmitSteps => local[p].pc \in SubmitSteps /\ Job(p)' = Job(p)

\* One worker moves, but not into submit().
LEMMA CalmMove ==
  ASSUME TypeOK, NEW p \in Workers,
         \/ \E step \in Steps \ SubmitSteps : Goto(p, step)
         \/ Return(p)
         \/ local[p].pc \in SubmitSteps /\ \E step \in Steps : Goto(p, step)
         \/ UNCHANGED local
  PROVE  Calm
<1>1. CASE Return(p)
  BY <1>1, IdleTyped, LocalTyped DEF Return, TypeOK, Calm, Job, SubmitSteps
<1>2. ASSUME NEW step \in Steps, Goto(p, step), step \notin SubmitSteps \/ local[p].pc \in SubmitSteps
      PROVE  Calm
  <2>1. /\ local'[p].pc = step /\ local'[p].job = local[p].job
        /\ \A q \in Workers : q # p => local'[q] = local[q]
    BY <1>2, GotoTyped DEF TypeOK
  <2> QED  BY <1>2, <2>1 DEF Calm, Job
<1>3. CASE UNCHANGED local
  BY <1>3 DEF Calm, Job
<1> QED  BY <1>1, <1>2, <1>3

\* recover() and reconcile() do not enter submit().
LEMMA CalmRecover ==
  ASSUME TypeOK, NEW p \in Workers, RecoverStep(p)
  PROVE  Calm
<1>1. local \in [Workers -> Locals]  BY DEF TypeOK
<1>2. ASSUME NEW e, NEW order, BeginRecover(p, e, order)  PROVE Calm
  <2>1. CASE Return(p)
    BY <2>1, CalmMove
  <2>2. CASE ~Return(p)
    <3>1. PICK there \in {"refill", "lookup", "fills"} :
             \/ local' = [local EXCEPT ![p] = [[Idle EXCEPT !.job = e, !.seen = order] EXCEPT !.pc = there]]
             \/ \E source : local' = [local EXCEPT ![p] = [[Idle EXCEPT !.job = e, !.seen = order]
                                                EXCEPT !.pc = there, !.source = source]]
      BY <1>2, <2>2 DEF BeginRecover
    <3>2. local'[p].pc = there /\ \A q \in Workers : q # p => local'[q] = local[q]
      BY <1>1, <3>1 DEF Idle
    <3> QED  BY <3>2 DEF Calm, Job, SubmitSteps
  <2> QED  BY <2>1, <2>2
<1>3. CASE \/ RecoverSubmitted(p) \/ \E e \in Executions : Recover(p, e) \/ ReconcileOne(p, e)
  BY <1>2, <1>3 DEF RecoverSubmitted, Recover, ReconcileOne
<1>4. CASE \E recognised \in BOOLEAN : LookupFound(p, recognised)
  BY <1>1, <1>4 DEF LookupFound, Locals, Calm, Job, SubmitSteps
<1>5. CASE \E listed \in 0..Quantity, priced, doubt \in BOOLEAN : ReadFills(p, listed, priced, doubt)
  BY <1>1, <1>5 DEF ReadFills, Locals, Calm, Job, SubmitSteps
<1>6. CASE \/ Reconcile(p) \/ LookupMissing(p) \/ Settle(p)
           \/ \E listed \in 0..Quantity : ReadFillsAgain(p, listed)
  BY <1>6, CalmMove
  DEF Reconcile, LookupMissing, Settle, ReadFillsAgain, Steps, SubmitSteps
<1> QED  BY <1>3, <1>4, <1>5, <1>6 DEF RecoverStep

\* Inside submit() a worker goes on with its row, or is done.
LEMMA CalmSubmit ==
  ASSUME TypeOK, NEW p \in Workers,
         \/ Validate(p) \/ Enqueue(p) \/ StartSubmitting(p)
         \/ BeginAttempt(p) \/ SendOrder(p)
         \/ PlaceAmbiguous(p) \/ PlaceRefused(p) \/ PlaceAccepted(p)
  PROVE  Calm
<1>1. local \in [Workers -> Locals]  BY DEF TypeOK
<1>2. CASE Validate(p) \/ Enqueue(p) \/ StartSubmitting(p)
  BY <1>2, CalmMove DEF Validate, Enqueue, StartSubmitting, Claim, At, Steps, SubmitSteps
<1>3. CASE BeginAttempt(p)
  BY <1>1, <1>3 DEF BeginAttempt, At, Locals, Calm, Job, SubmitSteps
<1>4. CASE PlaceAccepted(p)
  BY <1>1, <1>4 DEF PlaceAccepted, At, Locals, Calm, Job, SubmitSteps
<1>5. CASE SendOrder(p)
  BY <1>5, CalmMove DEF SendOrder, At, Steps, SubmitSteps
<1>6. CASE PlaceAmbiguous(p) \/ PlaceRefused(p)
  BY <1>6, CalmMove DEF PlaceAmbiguous, PlaceRefused, PlaceEnds
<1> QED  BY <1>2, <1>3, <1>4, <1>5, <1>6

\* While nobody enters submit(), it is enough that the dispatchers inside stay
\* where they wait.
LEMMA CalmKeepsCalls ==
  ASSUME CallsOK, Calm, NEW d \in Dispatchers,
         \A q \in Dispatchers : q # d => desk'[q] = desk[q],
         desk[d].pc = "submitting" => desk'[d] = desk[d] \/ local'[d].pc \notin SubmitSteps
  PROVE  CallsOK'
<1> SUFFICES ASSUME NEW p \in Workers, local'[p].pc \in SubmitSteps
             PROVE  p \in Dispatchers /\ desk'[p].pc = "submitting" /\ Job(p)' = Row(p)'
  BY DEF CallsOK
<1>1. p \in Dispatchers /\ desk[p].pc = "submitting" /\ Job(p) = Row(p) /\ Job(p)' = Job(p)
  BY DEF Calm, CallsOK
<1>2. desk'[p] = desk[p]  BY <1>1
<1> QED  BY <1>1, <1>2 DEF Row

\* Every step keeps it.
LEMMA CallsNext ==
  ASSUME QueueBase, CallsOK, [QueueNext]_allVars
  PROVE  CallsOK'
<1>1. TypeOK /\ QueueTyped /\ JobOK  BY DEF QueueBase, IInv
<1>2. ASSUME NEW d \in Dispatchers, Abandon(d)
      PROVE  Calm /\ local'[d].pc \notin SubmitSteps
  <2>1. d \in Workers  BY Roles
  <2>2. CASE Crash(d)
    BY <1>1, <2>1, <2>2, CalmMove, IdleTyped, LocalTyped DEF Crash, Return, TypeOK, SubmitSteps
  <2>3. CASE Resting(d) /\ UNCHANGED vars
    BY <1>1, <2>1, <2>3, CalmMove DEF Resting, At, vars, SubmitSteps
  <2> QED  BY <1>2, <2>2, <2>3 DEF Abandon
<1>3. ASSUME NEW d \in Dispatchers, CycleStep(d)  PROVE CallsOK'
  <2>1. KeepsJob(d) /\ UNCHANGED local /\ desk[d].pc # "submitting"
    BY <1>1, <1>3, CycleTyped
    DEF CycleStep, BeginCycle, Discover, RecoverExpired, ListStuck, ListDue, EndCycle, DeskAt, vars
  <2> QED  BY <2>1, CalmKeepsCalls DEF KeepsJob, Calm, Job
<1>4. ASSUME NEW d \in Dispatchers, StuckStep(d)  PROVE CallsOK'
  <2>1. KeepsJob(d) /\ desk[d].pc # "submitting"
    BY <1>1, <1>4, StuckTyped
    DEF StuckStep, FindUnsent, RecoverSent, ReadTries, ScheduleRetry, ReadRecovered,
        RecordRecovered, DeskAt
  <2>2. Calm
    <3>1. ASSUME NEW e \in Executions, Recover(d, e)  PROVE Calm
      BY <1>1, <3>1, Roles, CalmRecover DEF RecoverStep
    <3>2. CASE UNCHANGED local
      BY <3>2 DEF Calm, Job
    <3> QED
      BY <1>4, <3>1, <3>2
      DEF StuckStep, FindUnsent, RecoverSent, ReadTries, ScheduleRetry, ReadRecovered,
          RecordRecovered, vars
  <2> QED  BY <2>1, <2>2, CalmKeepsCalls DEF KeepsJob
<1>5. ASSUME NEW d \in Dispatchers, DueStep(d)  PROVE CallsOK'
  <2>1. d \in Workers /\ KeepsJob(d)  BY <1>1, <1>5, Roles, DueTyped
  <2>2. CASE Submit(d)
    <3>1. Row(d) \in Executions
      BY <1>1, <2>2 DEF Submit, DeskAt, JobOK, RowPlaces, RowSteps
    <3>2. /\ Job(d)' = Row(d)
          /\ \A q \in Workers : q # d => local'[q] = local[q]
      <4>1. local \in [Workers -> Locals]  BY <1>1 DEF TypeOK
      <4>2. CASE SubmitNew(d, Row(d))
        BY <2>1, <4>1, <4>2 DEF SubmitNew, Idle, Job
      <4>3. CASE SubmitRetry(d, Row(d))
        BY <2>1, <4>1, <4>3 DEF SubmitRetry, Idle, Job
      <4> QED  BY <2>2, <4>2, <4>3 DEF Submit
    <3>3. desk'[d].pc = "submitting" /\ Row(d)' = Row(d)
      BY <1>1, <2>2, MoveTyped DEF Submit, DeskSteps, RowSteps
    <3> QED  BY <2>1, <3>2, <3>3 DEF CallsOK, KeepsJob, Row, Job
  <2>3. CASE SubmitFails(d) \/ ReadOutcome(d)
    <3>1. local'[d].pc \notin SubmitSteps
      <4>1. CASE SubmitFails(d)
        BY <1>1, <2>1, <4>1, IdleTyped, LocalTyped
        DEF SubmitFails, PlaceAmbiguous, PlaceRefused, PlaceEnds, Return, TypeOK, SubmitSteps
      <4>2. CASE ReadOutcome(d)
        BY <4>2 DEF ReadOutcome, Resting, At, vars, SubmitSteps
      <4> QED  BY <2>3, <4>1, <4>2
    <3>2. Calm
      BY <1>1, <2>1, <2>3, CalmSubmit, CalmMove DEF SubmitFails, ReadOutcome, vars
    <3> QED  BY <2>1, <3>1, <3>2, CalmKeepsCalls DEF KeepsJob
  <2>4. CASE \/ \E e \in Executions : ClaimRow(d, e)
             \/ RecoverAccount(d) \/ BecomeReady(d) \/ ReconcileAgain(d) \/ Match(d)
             \/ Seal(d) \/ StartSubmit(d) \/ Admit(d) \/ SubmitKnown(d)
             \/ RecordOutcome(d) \/ RecordFailure(d)
    <3>1. desk[d].pc # "submitting" /\ UNCHANGED local
      BY <2>4
      DEF ClaimRow, RecoverAccount, ReconcileAgain, StartReconcile, Reconcile, BecomeReady, Match,
          Admit, Pass, Seal, StartSubmit, SubmitKnown, RecordOutcome, RecordFailure, DeskAt, vars
    <3> QED  BY <2>1, <3>1, CalmKeepsCalls DEF KeepsJob, Calm, Job
  <2> QED  BY <1>5, <2>2, <2>3, <2>4 DEF DueStep
<1>6. ASSUME NEW d \in Dispatchers, Await(d)  PROVE CallsOK'
  <2>1. Calm  BY <1>1, <1>6, Roles, CalmSubmit, CalmRecover DEF Await
  <2>2. desk' = desk  BY <1>6 DEF Await, queueVars
  <2> QED  BY <2>1, <2>2, CalmKeepsCalls
<1>7. ASSUME NEW d \in Dispatchers, SkipStuck(d) \/ Ineligible(d) \/ Fail(d) \/ Stop(d) \/ Die(d)
      PROVE  CallsOK'
  <2>1. KeepsJob(d)  BY <1>1, <1>7, EndTyped
  <2>2. CASE Ineligible(d) \/ Stop(d)
    BY <2>1, <2>2, CalmKeepsCalls DEF Ineligible, Stop, DeskAt, Unguarded, vars, KeepsJob, Calm, Job
  <2> QED  BY <1>2, <1>7, <2>1, <2>2, CalmKeepsCalls DEF SkipStuck, Fail, Die, KeepsJob
<1>8. CASE OthersStep /\ UNCHANGED queueVars
  <2>1. Calm
    <3>1. ASSUME NEW p \in Workers, RecoverStep(p) \/ Crash(p)  PROVE Calm
      BY <1>1, <3>1, CalmRecover, CalmMove DEF Crash
    <3>2. CASE ExchangeStep
      BY <3>2
      DEF ExchangeStep, AcceptOrder, DropOrder, Deliver, FillOrder, CloseOrder, Calm, Job
    <3> QED  BY <1>8, <3>1, <3>2 DEF OthersStep
  <2> QED  BY <1>8, <2>1 DEF CallsOK, Calm, Row, queueVars
<1>9. CASE UNCHANGED allVars
  BY <1>9 DEF allVars, vars, queueVars, CallsOK, Job, Row
<1> QED  BY <1>3, <1>4, <1>5, <1>6, <1>7, <1>8, <1>9 DEF QueueNext

\* Only the worker that sends a request makes an order possible.
LEMMA OnlySendersSend ==
  ASSUME TypeOK, [QuietNext]_vars, NEW e \in Executions, ~Possible(e), Possible(e)'
  PROVE  \E p \in Workers : local[p].pc \in SubmitSteps /\ Job(p) = e
<1>1. ASSUME NEW p \in Workers, SubmitStep(p)
      PROVE  UNCHANGED fate \/ SendOrder(p)
  BY <1>1
  DEF SubmitStep, SubmitNew, SubmitRetry, Validate, Enqueue, StartSubmitting, Claim, BeginAttempt,
      PlaceAmbiguous, PlaceRefused, PlaceEnds, PlaceAccepted, exchange
<1>2. ASSUME NEW p \in Workers, RecoverStep(p) \/ Crash(p)
      PROVE  UNCHANGED fate
  BY <1>2
  DEF RecoverStep, RecoverSubmitted, Recover, ReconcileOne, BeginRecover, Reconcile, LookupFound,
      LookupMissing, ReadFills, Settle, ReadFillsAgain, Crash, exchange
<1>3. CASE UNCHANGED fate
  BY <1>3 DEF Possible
<1>4. ASSUME NEW p \in Workers, SendOrder(p)
      PROVE  local[p].pc \in SubmitSteps /\ Job(p) = e
  <2>1. local[p].pc \in SubmitSteps  BY <1>4 DEF SendOrder, At, SubmitSteps
  <2>2. Job(p) # e => fate'[e] = fate[e]  BY <1>4 DEF SendOrder, TypeOK
  <2> QED  BY <2>1, <2>2 DEF Possible
<1>5. CASE ExchangeStep
  <2>1. ASSUME NEW x \in Executions, NEW n \in AttemptNumbers, NEW outcome, Deliver(x, n, outcome)
        PROVE  FALSE
    BY <2>1 DEF Deliver, Possible, TypeOK
  <2>2. ASSUME NEW x \in Executions, FillOrder(x) \/ \E status : CloseOrder(x, status)
        PROVE  UNCHANGED fate
    BY <2>2 DEF FillOrder, CloseOrder
  <2> QED  BY <1>3, <1>5, <2>1, <2>2 DEF ExchangeStep, AcceptOrder, DropOrder
<1>6. CASE UNCHANGED vars
  BY <1>3, <1>6 DEF vars, exchange
<1> QED  BY <1>1, <1>2, <1>3, <1>4, <1>5, <1>6 DEF QuietNext

\* So what is resolved stays so, unless a dispatcher is submitting the row.
LEMMA ResolvedKept ==
  ASSUME QueueBase, CallsOK, [QueueNext]_allVars, NEW e \in Executions, Resolved(e),
         \A d \in Dispatchers : desk[d].pc = "submitting" => Row(d) # e
  PROVE  Resolved(e)'
<1>1. IInv /\ TypeOK /\ [QuietNext]_vars  BY ExecutionStep DEF QueueBase, IInv
<1>2. CASE market[e] = "REJECTED"
  <2>1. CASE WorkerStep
    BY <1>2, <2>1 DEF WorkerStep, Writes, Ingests, Sends, exchange, Resolved
  <2>2. CASE ExchangeStep
    BY <1>1, <1>2, <2>2, ClosedStays DEF Resolved
  <2> QED  BY <1>1, <2>1, <2>2, Kinds
<1>3. CASE ~Possible(e)
  <2>1. ~Possible(e)'  BY <1>1, <1>3, OnlySendersSend DEF CallsOK
  <2> QED  BY <2>1 DEF Resolved
<1> QED  BY <1>2, <1>3 DEF Resolved

\* While cycles do not overlap, a dispatcher that was told anything but an open
\* state, or that the order was filled or cancelled, has a resolved execution.
ToldResolved(d) ==
    /\ desk[d].pc \in {"outcome", "recovered"}
    /\ desk[d].result \notin OpenLocalStates \cup {"FILLED", "CANCELLED"}
    => Resolved(Row(d))

RejectionsOK ==
    /\ CallsOK
    /\ ~overlapped => \A d \in Dispatchers : ToldResolved(d)

\* A row's state that says neither means that nothing can come of it.
LEMMA StateResolves ==
  ASSUME IInv, Uncancelled, NEW e \in Executions,
         state[e] \notin OpenLocalStates \cup {"FILLED", "CANCELLED"}
  PROVE  Resolved(e)
<1>1. OrdersInSight /\ state[e] # "CANCEL_PENDING"  BY SightFact DEF Uncancelled
<1>2. MarketOK(e) /\ TypeOK  BY DEF IInv, ExecutionInv
<1>3. Possible(e) => state[e] = market[e]  BY <1>1 DEF OrdersInSight
<1>4. market[e] \in {"NONE", "OPEN", "FILLED", "CANCELLED", "REJECTED"}
  BY <1>2 DEF MarketOK
<1>5. state[e] \notin {"NONE", "OPEN"}  BY <1>2 DEF TypeOK, States
<1> QED  BY <1>3, <1>4, <1>5 DEF Resolved

\* Only these steps tell a dispatcher something.
LEMMA WhoTells ==
  ASSUME QueueBase, [QueueNext]_allVars, NEW d \in Dispatchers,
         desk'[d].pc \in {"outcome", "recovered"}, desk'[d] # desk[d]
  PROVE  SubmitKnown(d) \/ SubmitFails(d) \/ ReadOutcome(d) \/ ReadRecovered(d)
<1>1. QueueTyped /\ JobOK /\ TypeOK  BY DEF QueueBase, IInv
<1>2. ASSUME NEW q \in Dispatchers, CycleStep(q)  PROVE FALSE
  <2>1. KeepsJob(q)  BY <1>1, <1>2, CycleTyped
  <2>2. desk'[q].pc \in {"discover", "expire", "list", "stuck", "due", "away"}
    BY <1>1, <1>2
    DEF CycleStep, BeginCycle, Discover, RecoverExpired, ListStuck, ListDue, EndCycle, Move,
        QueueTyped, Desks
  <2> QED  BY <2>1, <2>2 DEF KeepsJob
<1>3. ASSUME NEW q \in Dispatchers, StuckStep(q)  PROVE q = d /\ ReadRecovered(d)
  <2>1. KeepsJob(q)  BY <1>1, <1>3, StuckTyped
  <2>2. q = d  BY <2>1 DEF KeepsJob
  <2>3. ASSUME NEW e \in Executions, FindUnsent(d, e) \/ RecoverSent(d, e)  PROVE FALSE
    BY <1>1, <2>3, TakeTyped DEF FindUnsent, RecoverSent, DeskSteps
  <2>4. ~ReadTries(d)  BY <1>1 DEF ReadTries, QueueTyped, Desks
  <2>5. ~ScheduleRetry(d) /\ ~RecordRecovered(d)
    BY <1>1, CloseTyped DEF ScheduleRetry, RecordRecovered, DeskSteps
  <2> QED  BY <1>3, <2>2, <2>3, <2>4, <2>5 DEF StuckStep
<1>4. ASSUME NEW q \in Dispatchers, DueStep(q)
      PROVE  q = d /\ (SubmitKnown(d) \/ SubmitFails(d) \/ ReadOutcome(d))
  <2>1. KeepsJob(q)  BY <1>1, <1>4, DueTyped
  <2>2. q = d  BY <2>1 DEF KeepsJob
  <2>3. ASSUME NEW e \in Executions, ClaimRow(d, e)  PROVE FALSE
    BY <1>1, <2>3 DEF ClaimRow, Take, QueueTyped, Desks, DeskAt
  <2>4. ~RecordFailure(d) /\ ~RecordOutcome(d)
    BY <1>1, CloseTyped DEF RecordFailure, RecordOutcome, DeskSteps
  <2>5. ASSUME \/ RecoverAccount(d) \/ BecomeReady(d) \/ ReconcileAgain(d) \/ Match(d)
               \/ Seal(d) \/ StartSubmit(d) \/ Admit(d) \/ Submit(d)
        PROVE  FALSE
    <3>1. \E step \in RowSteps \ {"outcome"} : Move(d, step)
      BY <2>5
      DEF RecoverAccount, ReconcileAgain, StartReconcile, BecomeReady, Match, Admit, Pass,
          Seal, StartSubmit, Submit, RowSteps
    <3> QED  BY <1>1, <3>1, MoveTyped DEF DeskSteps, RowSteps
  <2> QED  BY <1>4, <2>2, <2>3, <2>4, <2>5 DEF DueStep
<1>5. ASSUME NEW q \in Dispatchers, SkipStuck(q) \/ Ineligible(q) \/ Fail(q) \/ Stop(q) \/ Die(q)  PROVE FALSE
  <2>1. KeepsJob(q)  BY <1>1, <1>5, EndTyped
  <2>2. desk'[q].pc \in {"stuck", "due", "failed", "away"}
    <3>1. CASE SkipStuck(q) \/ Ineligible(q)
      BY <1>1, <3>1, CloseTyped DEF SkipStuck, Ineligible, DeskSteps
    <3>2. CASE Fail(q) \/ Stop(q) \/ Die(q)
      BY <1>1, <3>2, AwayTyped DEF Fail, Stop, Die, QueueTyped, Desks
    <3> QED  BY <1>5, <3>1, <3>2
  <2> QED  BY <2>1, <2>2 DEF KeepsJob
<1>6. ~UNCHANGED queueVars  BY DEF queueVars
<1>7. ~UNCHANGED allVars  BY <1>6 DEF allVars
<1> QED  BY <1>2, <1>3, <1>4, <1>5, <1>6, <1>7 DEF QueueNext, Await

\* Nobody is in a call, or was told anything, at the start.
LEMMA RejectionsInit == QueueInit => RejectionsOK
<1> SUFFICES ASSUME QueueInit  PROVE RejectionsOK
  OBVIOUS
<1>1. \A p \in Workers : local[p].pc \notin SubmitSteps
  BY IdleTyped DEF QueueInit, Init, SubmitSteps
<1>2. \A d \in Dispatchers : desk[d].pc = "away"  BY AwayTyped DEF QueueInit
<1> QED  BY <1>1, <1>2 DEF RejectionsOK, CallsOK, ToldResolved

\* That cycles overlapped is not forgotten.
LEMMA OverlapStays ==
  ASSUME [QueueNext]_allVars, overlapped
  PROVE  overlapped'
<1>1. ASSUME NEW d \in Dispatchers, CycleStep(d) \/ StuckStep(d)  PROVE overlapped'
  BY <1>1
  DEF CycleStep, BeginCycle, Discover, RecoverExpired, ListStuck, ListDue, EndCycle, StuckStep,
      FindUnsent, RecoverSent, ReadTries, ScheduleRetry, ReadRecovered, RecordRecovered, rest
<1>2. ASSUME NEW d \in Dispatchers, DueStep(d)  PROVE overlapped'
  BY <1>2
  DEF DueStep, ClaimRow, RecoverAccount, ReconcileAgain, StartReconcile, BecomeReady, Match, Admit,
      Pass, Seal, StartSubmit, Submit, SubmitKnown, SubmitFails, ReadOutcome, RecordOutcome,
      RecordFailure, rest
<1>3. ASSUME NEW d \in Dispatchers,
             SkipStuck(d) \/ Ineligible(d) \/ Fail(d) \/ Stop(d) \/ Die(d)  PROVE overlapped'
  BY <1>3 DEF SkipStuck, Ineligible, Fail, Stop, Die, rest
<1>4. CASE UNCHANGED queueVars
  BY <1>4 DEF queueVars, rest
<1> QED  BY <1>1, <1>2, <1>3, <1>4 DEF QueueNext, Await, allVars

\* What a dispatcher is told is resolved when it is told, ...
LEMMA TellingResolves ==
  ASSUME QueueBase, TruthBase, CallsOK, [QueueNext]_allVars, NEW d \in Dispatchers,
         desk'[d] # desk[d]
  PROVE  ToldResolved(d)'
<1> SUFFICES ASSUME desk'[d].pc \in {"outcome", "recovered"},
                    desk'[d].result \notin OpenLocalStates \cup {"FILLED", "CANCELLED"}
             PROVE  Resolved(Row(d))'
  BY DEF ToldResolved
<1>1. QueueTyped /\ JobOK /\ IInv /\ TypeOK /\ d \in Workers  BY Roles DEF QueueBase, IInv
<1>2. desk[d] \in Desks  BY <1>1 DEF QueueTyped
<1>3. ASSUME NEW pc, desk' = [desk EXCEPT ![d].pc = pc, ![d].result = state[Row(d)]],
             UNCHANGED vars, Row(d) \in Executions
      PROVE  Resolved(Row(d))'
  <2>1. desk'[d].result = state[Row(d)] /\ Row(d)' = Row(d)
    BY <1>1, <1>2, <1>3 DEF Row, QueueTyped, Desks
  <2>2. Resolved(Row(d))  BY <1>1, <1>3, <2>1, StateResolves DEF TruthBase
  <2> QED  BY <1>3, <2>1, <2>2 DEF Resolved, Possible, vars, exchange
<1>4. CASE SubmitKnown(d) \/ ReadOutcome(d) \/ ReadRecovered(d)
  <2>1. Row(d) \in Executions
    BY <1>1, <1>4 DEF SubmitKnown, ReadOutcome, ReadRecovered, DeskAt, JobOK, RowPlaces, RowSteps
  <2> QED  BY <1>3, <1>4, <2>1 DEF SubmitKnown, ReadOutcome, ReadRecovered, Told
<1>5. CASE SubmitFails(d)
  <2>1. PICK told \in {"UNKNOWN", "REJECTED"} :
           Told(d, told) /\ (told = "REJECTED" => PlaceRefused(d))
    BY <1>5 DEF SubmitFails
  <2>2. desk'[d].result = told /\ Row(d)' = Row(d)
    BY <1>1, <1>2, <2>1 DEF Told, Row, QueueTyped, Desks
  <2>3. PlaceRefused(d)  BY <2>1, <2>2 DEF OpenLocalStates
  <2>4. Clean(Job(d)) /\ local[d].pc \in {"begun", "placing"}
    BY <1>1, <2>3, RefusedIsClean
  <2>5. Job(d) = Row(d)  BY <1>1, <2>4 DEF CallsOK, SubmitSteps
  <2>6. UNCHANGED fate  BY <2>3 DEF PlaceRefused, PlaceEnds, exchange
  <2> QED  BY <2>2, <2>4, <2>5, <2>6 DEF Clean, Resolved, Possible
<1> QED  BY <1>4, <1>5, WhoTells

\* ... and stays so as long as it remembers it.
LEMMA RejectionsNext ==
  ASSUME QueueBase, CyclesOK, TruthBase, RejectionsOK, [QueueNext]_allVars
  PROVE  RejectionsOK'
<1>1. CallsOK /\ CallsOK'  BY CallsNext DEF RejectionsOK
<1>2. ASSUME ~overlapped', NEW d \in Dispatchers, desk'[d] = desk[d]  PROVE ToldResolved(d)'
  <2> SUFFICES ASSUME desk[d].pc \in {"outcome", "recovered"},
                      desk[d].result \notin OpenLocalStates \cup {"FILLED", "CANCELLED"}
               PROVE  Resolved(Row(d))'
    BY <1>2 DEF ToldResolved
  <2>1. ~overlapped  BY <1>2, OverlapStays
  <2>2. Resolved(Row(d))  BY <2>1 DEF RejectionsOK, ToldResolved
  <2>3. \A q \in Dispatchers : desk[q].pc # "submitting"  BY <2>1 DEF CyclesOK, Solo
  <2>4. Row(d) \in Executions /\ Row(d)' = Row(d)
    BY <1>2 DEF QueueBase, JobOK, RowPlaces, RowSteps, Row
  <2>5. \A e \in Executions : Resolved(e) => Resolved(e)'  BY <1>1, <2>3, ResolvedKept
  <2> QED  BY <2>2, <2>4, <2>5 DEF Resolved, Possible
<1> QED  BY <1>1, <1>2, TellingResolves DEF RejectionsOK

LEMMA RejectionsInvariance == QueueSpec => []RejectionsOK
<1>1. QueueBase /\ CyclesOK /\ TruthBase /\ RejectionsOK /\ [QueueNext]_allVars => RejectionsOK'
  BY RejectionsNext
<1> QED
  BY <1>1, RejectionsInit, QueueInvariance, CyclesInvariance, TruthBaseInvariance, PTL
  DEF QueueSpec

\* While cycles do not overlap a queue row is recorded as rejected over an
\* execution that may still come to an order by one path only, the missing states
\* of process_claimed()'s table: schedule_retry() and a row that is no longer
\* eligible find no execution, and recover() and a refusal tell the truth.
THEOREM TableRejections == QueueSpec => RejectedByTable
<1>1. QueueBase /\ CyclesOK /\ TruthBase /\ RejectionsOK /\ [QueueNext]_allVars =>
        [\A e \in Executions :
            ~overlapped' /\ queue[e] # "REJECTED" /\ queue'[e] = "REJECTED" /\ ~Resolved(e) =>
               \E d \in Dispatchers :
                   DeskAt(d, "outcome") /\ Row(d) = e /\ desk[d].result \in OpenLocalStates]_allVars
  <2> SUFFICES ASSUME QueueBase, CyclesOK, TruthBase, RejectionsOK, [QueueNext]_allVars,
                      NEW e \in Executions, ~overlapped', queue[e] # "REJECTED",
                      queue'[e] = "REJECTED", ~Resolved(e)
               PROVE  \E d \in Dispatchers :
                          DeskAt(d, "outcome") /\ Row(d) = e /\ desk[d].result \in OpenLocalStates
    OBVIOUS
  <2>1. /\ ~overlapped /\ \A d \in Dispatchers : DeskOK(d) /\ ToldResolved(d)
        /\ IInv /\ QueueTyped /\ state[e] # "ABSENT"
    <3>1. ~overlapped  BY OverlapStays
    <3>2. state[e] # "ABSENT"
      BY StateResolves DEF TruthBase, QueueBase, OpenLocalStates
    <3> QED  BY <3>1, <3>2 DEF CyclesOK, RejectionsOK, QueueBase
  <2>2. ASSUME NEW d \in Dispatchers, CycleStep(d)  PROVE FALSE
    BY <2>1, <2>2
    DEF CycleStep, BeginCycle, Discover, RecoverExpired, ListStuck, ListDue, EndCycle, QueueTyped
  <2>3. ASSUME NEW d \in Dispatchers, StuckStep(d)  PROVE FALSE
    <3>1. CASE ScheduleRetry(d)
      <4>1. Row(d) = e  BY <2>1, <3>1 DEF ScheduleRetry, MoveRow, QueueTyped
      <4> QED  BY <2>1, <3>1, <4>1 DEF ScheduleRetry, DeskAt, DeskOK
    <3>2. CASE RecordRecovered(d)
      <4>1. Row(d) = e /\ RecoveredAs(desk[d].result) = "REJECTED"
        BY <2>1, <3>2 DEF RecordRecovered, MoveRow, QueueTyped
      <4>2. desk[d].result = "REJECTED"  BY <4>1 DEF RecoveredAs
      <4> QED  BY <2>1, <3>2, <4>1, <4>2 DEF RecordRecovered, DeskAt, ToldResolved, OpenLocalStates
    <3>3. CASE UNCHANGED queue
      BY <3>3
    <3> QED
      BY <2>3, <3>1, <3>2, <3>3
      DEF StuckStep, FindUnsent, RecoverSent, ReadTries, ReadRecovered
  <2>4. ASSUME NEW d \in Dispatchers, DueStep(d)
        PROVE  DeskAt(d, "outcome") /\ Row(d) = e /\ desk[d].result \in OpenLocalStates
    <3>1. CASE RecordOutcome(d)
      <4>1. DeskAt(d, "outcome") /\ Row(d) = e /\ SubmittedAs(desk[d].result) = "REJECTED"
        BY <2>1, <3>1 DEF RecordOutcome, MoveRow, QueueTyped
      <4>2. desk[d].result \notin {"FILLED", "CANCELLED"}  BY <4>1 DEF SubmittedAs
      <4> QED  BY <2>1, <4>1, <4>2 DEF DeskAt, ToldResolved
    <3>2. CASE \E x \in Executions : ClaimRow(d, x)
      BY <2>1, <3>2 DEF ClaimRow, QueueTyped
    <3>3. CASE StartSubmit(d) \/ RecordFailure(d)
      BY <2>1, <3>3 DEF StartSubmit, RecordFailure, MoveRow, QueueTyped
    <3>4. CASE UNCHANGED queue
      BY <3>4
    <3> QED
      BY <2>4, <3>1, <3>2, <3>3, <3>4
      DEF DueStep, RecoverAccount, ReconcileAgain, StartReconcile, BecomeReady, Match, Admit,
          Pass, Seal, Submit, SubmitKnown, SubmitFails, ReadOutcome
  <2>5. ASSUME NEW d \in Dispatchers, Ineligible(d)  PROVE FALSE
    <3>1. Row(d) = e  BY <2>1, <2>5 DEF Ineligible, MoveRow, QueueTyped
    <3> QED  BY <2>1, <2>5, <3>1 DEF Ineligible, DeskAt, DeskOK, Claimed
  <2>6. CASE UNCHANGED queue
    BY <2>6
  <2> QED
    BY <2>2, <2>3, <2>4, <2>5, <2>6
    DEF QueueNext, Await, SkipStuck, Fail, Stop, Die, allVars, queueVars
<1> QED
  BY <1>1, QueueInvariance, CyclesInvariance, TruthBaseInvariance, RejectionsInvariance, PTL
  DEF QueueSpec, RejectedByTable

=============================================================================
