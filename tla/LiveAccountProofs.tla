------------------------- MODULE LiveAccountProofs -------------------------
(***************************************************************************)
(* Proofs about LiveAccount, for every set of keys, of calls of            *)
(* enable_live() and of reconciliations.  The inductive invariant adds the *)
(* reason for EnablingIsEarned: every statement that stops the account     *)
(* also takes it out of LIVE_CERTIFIED, so whoever finds that state later  *)
(* -- the guarded UPDATE of a call that read it long ago included -- finds *)
(* a certification that passed after the stop.  The last two theorems say  *)
(* what a thrown kill switch does for good, and when a production key can  *)
(* become live.                                                            *)
(***************************************************************************)
EXTENDS LiveAccount, TLAPS

CertifiedIsEarned == lifecycle = "LIVE_CERTIFIED" => earned

IInv == TypeOK /\ LiveIsArmed /\ CertifiedIsEarned

\* What a step that cannot make the account live does.
Harmless == IInv' /\ (live' => live)

-----------------------------------------------------------------------------

LEMMA InitIInv == Init => IInv
<1>. SUFFICES ASSUME Init PROVE IInv OBVIOUS
<1>1. RowTypeOK BY DEF Init, RowTypeOK, LifecycleStates
<1>2. WorldTypeOK BY DEF Init, WorldTypeOK
<1>3. TaskTypeOK BY DEF Init, TaskTypeOK
<1>4. LiveIsArmed /\ CertifiedIsEarned BY DEF Init, LiveIsArmed, CertifiedIsEarned
<1>. QED BY <1>1, <1>2, <1>3, <1>4 DEF IInv, TypeOK

\* A step that keeps the parts keeps the whole.
LEMMA Parts ==
    ASSUME RowTypeOK', WorldTypeOK', TaskTypeOK', LiveIsArmed', CertifiedIsEarned', live' => live
    PROVE  Harmless
BY DEF Harmless, IInv, TypeOK

\* The commands of one transaction.
LEMMA CommandKeeps ==
    ASSUME IInv,
           \/ RevokeKey \/ BeginConfirmation \/ Confirm \/ EmergencyDisable
           \/ \E k \in Keys : RotateKey(k) \/ ConnectKey(k)
    PROVE  Harmless
<1>. USE DEF IInv, TypeOK, TurnOff, tasks
<1>1. CASE RevokeKey
  <2>1. RowTypeOK' BY <1>1 DEF RowTypeOK, LifecycleStates, RevokeKey
  <2>2. WorldTypeOK' BY <1>1 DEF WorldTypeOK, RevokeKey
  <2>3. TaskTypeOK' BY <1>1 DEF TaskTypeOK, RevokeKey
  <2>4. LiveIsArmed' /\ CertifiedIsEarned' /\ (live' => live)
    BY <1>1 DEF RowTypeOK, LiveIsArmed, CertifiedIsEarned, RevokeKey
  <2>. QED BY <2>1, <2>2, <2>3, <2>4, Parts
<1>2. CASE BeginConfirmation
  <2>1. RowTypeOK' BY <1>2 DEF RowTypeOK, LifecycleStates, BeginConfirmation
  <2>2. WorldTypeOK' BY <1>2 DEF WorldTypeOK, BeginConfirmation
  <2>3. TaskTypeOK' BY <1>2 DEF TaskTypeOK, BeginConfirmation
  <2>4. LiveIsArmed' /\ CertifiedIsEarned' /\ (live' => live)
    BY <1>2 DEF RowTypeOK, LiveIsArmed, CertifiedIsEarned, BeginConfirmation
  <2>. QED BY <2>1, <2>2, <2>3, <2>4, Parts
<1>3. CASE Confirm
  <2>1. RowTypeOK' BY <1>3 DEF RowTypeOK, LifecycleStates, Confirm
  <2>2. WorldTypeOK' BY <1>3 DEF WorldTypeOK, Confirm
  <2>3. TaskTypeOK' BY <1>3 DEF TaskTypeOK, Confirm
  <2>4. LiveIsArmed' /\ CertifiedIsEarned' /\ (live' => live)
    BY <1>3 DEF RowTypeOK, LiveIsArmed, CertifiedIsEarned, Confirm
  <2>. QED BY <2>1, <2>2, <2>3, <2>4, Parts
<1>4. CASE EmergencyDisable
  <2>1. RowTypeOK' BY <1>4 DEF RowTypeOK, LifecycleStates, EmergencyDisable
  <2>2. WorldTypeOK' BY <1>4 DEF WorldTypeOK, EmergencyDisable
  <2>3. TaskTypeOK' BY <1>4 DEF TaskTypeOK, EmergencyDisable
  <2>4. LiveIsArmed' /\ CertifiedIsEarned' /\ (live' => live)
    BY <1>4 DEF RowTypeOK, LiveIsArmed, CertifiedIsEarned, EmergencyDisable
  <2>. QED BY <2>1, <2>2, <2>3, <2>4, Parts
<1>5. ASSUME NEW k \in Keys, RotateKey(k) PROVE Harmless
  <2>1. RowTypeOK' BY <1>5 DEF RowTypeOK, LifecycleStates, RotateKey
  <2>2. WorldTypeOK' BY <1>5 DEF WorldTypeOK, RotateKey
  <2>3. TaskTypeOK' BY <1>5 DEF TaskTypeOK, RotateKey
  <2>4. LiveIsArmed' /\ CertifiedIsEarned' /\ (live' => live)
    BY <1>5 DEF RowTypeOK, LiveIsArmed, CertifiedIsEarned, RotateKey
  <2>. QED BY <2>1, <2>2, <2>3, <2>4, Parts
<1>6. ASSUME NEW k \in Keys, ConnectKey(k) PROVE Harmless
  <2>1. RowTypeOK' BY <1>6 DEF RowTypeOK, LifecycleStates, ConnectKey
  <2>2. WorldTypeOK' BY <1>6 DEF WorldTypeOK, ConnectKey
  <2>3. TaskTypeOK' BY <1>6 DEF TaskTypeOK, ConnectKey
  <2>4. LiveIsArmed' /\ CertifiedIsEarned' /\ (live' => live)
    BY <1>6 DEF RowTypeOK, LiveIsArmed, CertifiedIsEarned, ConnectKey
  <2>. QED BY <2>1, <2>2, <2>3, <2>4, Parts
<1>. QED BY <1>1, <1>2, <1>3, <1>4, <1>5, <1>6

\* A synchronisation may take LIVE away and overwrites the state when it ends.
LEMMA SyncKeeps ==
    ASSUME IInv,
           StartSync \/ SyncFindsChange \/ SyncSucceeds \/ SyncFails
    PROVE  Harmless
<1>. USE DEF IInv, TypeOK, TurnOff, tasks
<1>1. CASE StartSync
  <2>1. RowTypeOK' BY <1>1 DEF RowTypeOK, LifecycleStates, StartSync
  <2>2. WorldTypeOK' BY <1>1 DEF WorldTypeOK, StartSync
  <2>3. TaskTypeOK' BY <1>1 DEF TaskTypeOK, StartSync
  <2>4. LiveIsArmed' /\ CertifiedIsEarned' /\ (live' => live)
    BY <1>1 DEF RowTypeOK, LiveIsArmed, CertifiedIsEarned, StartSync
  <2>. QED BY <2>1, <2>2, <2>3, <2>4, Parts
<1>2. CASE SyncFindsChange
  <2>1. RowTypeOK' BY <1>2 DEF RowTypeOK, LifecycleStates, SyncFindsChange
  <2>2. WorldTypeOK' BY <1>2 DEF WorldTypeOK, SyncFindsChange
  <2>3. TaskTypeOK' BY <1>2 DEF TaskTypeOK, SyncFindsChange
  <2>4. LiveIsArmed' /\ CertifiedIsEarned' /\ (live' => live)
    BY <1>2 DEF RowTypeOK, LiveIsArmed, CertifiedIsEarned, SyncFindsChange
  <2>. QED BY <2>1, <2>2, <2>3, <2>4, Parts
<1>3. CASE SyncSucceeds
  <2>1. RowTypeOK' BY <1>3 DEF RowTypeOK, LifecycleStates, SyncSucceeds, EndSync
  <2>2. WorldTypeOK' BY <1>3 DEF WorldTypeOK, SyncSucceeds, EndSync
  <2>3. TaskTypeOK' BY <1>3 DEF TaskTypeOK, SyncSucceeds, EndSync
  <2>4. LiveIsArmed' /\ CertifiedIsEarned' /\ (live' => live)
    BY <1>3 DEF RowTypeOK, LiveIsArmed, CertifiedIsEarned, SyncSucceeds, EndSync
  <2>. QED BY <2>1, <2>2, <2>3, <2>4, Parts
<1>4. CASE SyncFails
  <2>1. RowTypeOK' BY <1>4 DEF RowTypeOK, LifecycleStates, SyncFails, EndSync
  <2>2. WorldTypeOK' BY <1>4 DEF WorldTypeOK, SyncFails, EndSync
  <2>3. TaskTypeOK' BY <1>4 DEF TaskTypeOK, SyncFails, EndSync
  <2>4. LiveIsArmed' /\ CertifiedIsEarned' /\ (live' => live)
    BY <1>4 DEF RowTypeOK, LiveIsArmed, CertifiedIsEarned, SyncFails, EndSync
  <2>. QED BY <2>1, <2>2, <2>3, <2>4, Parts
<1>. QED BY <1>1, <1>2, <1>3, <1>4

\* A certification is the only thing that leads to LIVE_CERTIFIED, and counts when it does.
LEMMA CertificationKeeps ==
    ASSUME IInv,
           \/ StartCertification \/ DryRunBlocked \/ BeginEconomic
           \/ EconomicPassed \/ EconomicBlocked \/ Abandon
    PROVE  Harmless
<1>. USE DEF IInv, TypeOK, Persist, row
<1>1. CASE StartCertification
  <2>1. RowTypeOK' BY <1>1 DEF RowTypeOK, LifecycleStates, StartCertification
  <2>2. WorldTypeOK' BY <1>1 DEF WorldTypeOK, StartCertification
  <2>3. TaskTypeOK' BY <1>1 DEF TaskTypeOK, StartCertification
  <2>4. LiveIsArmed' /\ CertifiedIsEarned' /\ (live' => live)
    BY <1>1 DEF RowTypeOK, LiveIsArmed, CertifiedIsEarned, StartCertification
  <2>. QED BY <2>1, <2>2, <2>3, <2>4, Parts
<1>2. CASE DryRunBlocked
  <2>1. RowTypeOK' BY <1>2 DEF RowTypeOK, LifecycleStates, DryRunBlocked
  <2>2. WorldTypeOK' BY <1>2 DEF WorldTypeOK, DryRunBlocked
  <2>3. TaskTypeOK' BY <1>2 DEF TaskTypeOK, DryRunBlocked
  <2>4. LiveIsArmed' /\ CertifiedIsEarned' /\ (live' => live)
    BY <1>2 DEF RowTypeOK, LiveIsArmed, CertifiedIsEarned, DryRunBlocked
  <2>. QED BY <2>1, <2>2, <2>3, <2>4, Parts
<1>3. CASE BeginEconomic
  <2>1. RowTypeOK' BY <1>3 DEF RowTypeOK, LifecycleStates, BeginEconomic
  <2>2. WorldTypeOK' BY <1>3 DEF WorldTypeOK, BeginEconomic
  <2>3. TaskTypeOK' BY <1>3 DEF TaskTypeOK, BeginEconomic
  <2>4. LiveIsArmed' /\ CertifiedIsEarned' /\ (live' => live)
    BY <1>3 DEF RowTypeOK, LiveIsArmed, CertifiedIsEarned, BeginEconomic
  <2>. QED BY <2>1, <2>2, <2>3, <2>4, Parts
<1>4. CASE EconomicPassed
  <2>1. RowTypeOK' BY <1>4 DEF RowTypeOK, LifecycleStates, EconomicPassed
  <2>2. WorldTypeOK' BY <1>4 DEF WorldTypeOK, EconomicPassed
  <2>3. TaskTypeOK' BY <1>4 DEF TaskTypeOK, EconomicPassed
  <2>4. LiveIsArmed' /\ CertifiedIsEarned' /\ (live' => live)
    BY <1>4 DEF RowTypeOK, LiveIsArmed, CertifiedIsEarned, EconomicPassed
  <2>. QED BY <2>1, <2>2, <2>3, <2>4, Parts
<1>5. CASE EconomicBlocked
  <2>1. RowTypeOK' BY <1>5 DEF RowTypeOK, LifecycleStates, EconomicBlocked
  <2>2. WorldTypeOK' BY <1>5 DEF WorldTypeOK, EconomicBlocked
  <2>3. TaskTypeOK' BY <1>5 DEF TaskTypeOK, EconomicBlocked
  <2>4. LiveIsArmed' /\ CertifiedIsEarned' /\ (live' => live)
    BY <1>5 DEF RowTypeOK, LiveIsArmed, CertifiedIsEarned, EconomicBlocked
  <2>. QED BY <2>1, <2>2, <2>3, <2>4, Parts
<1>6. CASE Abandon
  <2>1. RowTypeOK' BY <1>6 DEF RowTypeOK, LifecycleStates, Abandon
  <2>2. WorldTypeOK' BY <1>6 DEF WorldTypeOK, Abandon
  <2>3. TaskTypeOK' BY <1>6 DEF TaskTypeOK, Abandon
  <2>4. LiveIsArmed' /\ CertifiedIsEarned' /\ (live' => live)
    BY <1>6 DEF RowTypeOK, LiveIsArmed, CertifiedIsEarned, Abandon
  <2>. QED BY <2>1, <2>2, <2>3, <2>4, Parts
<1>. QED BY <1>1, <1>2, <1>3, <1>4, <1>5, <1>6

\* Reconciliations: only Suspend touches the row.
LEMMA ReconciliationKeeps ==
    ASSUME IInv, NEW w \in Reconcilers,
           \/ StartReconciling(w) \/ Compare(w) \/ Unavailable(w) \/ Suspend(w)
           \/ ThrowSwitch(w) \/ StopCommand(w)
    PROVE  Harmless
<1>. USE DEF IInv, TypeOK, Move, row
<1>1. CASE StartReconciling(w)
  <2>1. RowTypeOK' BY <1>1 DEF RowTypeOK, LifecycleStates, StartReconciling, OnlyMove
  <2>2. WorldTypeOK' BY <1>1 DEF WorldTypeOK, StartReconciling, OnlyMove
  <2>3. TaskTypeOK' BY <1>1 DEF TaskTypeOK, StartReconciling, OnlyMove
  <2>4. LiveIsArmed' /\ CertifiedIsEarned' /\ (live' => live)
    BY <1>1 DEF RowTypeOK, LiveIsArmed, CertifiedIsEarned, StartReconciling, OnlyMove
  <2>. QED BY <2>1, <2>2, <2>3, <2>4, Parts
<1>2. CASE Compare(w)
  <2>1. RowTypeOK' BY <1>2 DEF RowTypeOK, LifecycleStates, Compare, OnlyMove
  <2>2. WorldTypeOK' BY <1>2 DEF WorldTypeOK, Compare, OnlyMove
  <2>3. TaskTypeOK' BY <1>2 DEF TaskTypeOK, Compare, OnlyMove
  <2>4. LiveIsArmed' /\ CertifiedIsEarned' /\ (live' => live)
    BY <1>2 DEF RowTypeOK, LiveIsArmed, CertifiedIsEarned, Compare, OnlyMove
  <2>. QED BY <2>1, <2>2, <2>3, <2>4, Parts
<1>3. CASE Unavailable(w)
  <2>1. RowTypeOK' BY <1>3 DEF RowTypeOK, LifecycleStates, Unavailable, OnlyMove
  <2>2. WorldTypeOK' BY <1>3 DEF WorldTypeOK, Unavailable, OnlyMove
  <2>3. TaskTypeOK' BY <1>3 DEF TaskTypeOK, Unavailable, OnlyMove
  <2>4. LiveIsArmed' /\ CertifiedIsEarned' /\ (live' => live)
    BY <1>3 DEF RowTypeOK, LiveIsArmed, CertifiedIsEarned, Unavailable, OnlyMove
  <2>. QED BY <2>1, <2>2, <2>3, <2>4, Parts
<1>4. CASE Suspend(w)
  <2>1. RowTypeOK' BY <1>4 DEF RowTypeOK, LifecycleStates, Suspend, TurnOff
  <2>2. WorldTypeOK' BY <1>4 DEF WorldTypeOK, Suspend, TurnOff
  <2>3. TaskTypeOK' BY <1>4 DEF TaskTypeOK, Suspend, TurnOff
  <2>4. LiveIsArmed' /\ CertifiedIsEarned' /\ (live' => live)
    BY <1>4 DEF RowTypeOK, LiveIsArmed, CertifiedIsEarned, Suspend, TurnOff
  <2>. QED BY <2>1, <2>2, <2>3, <2>4, Parts
<1>5. CASE ThrowSwitch(w)
  <2>1. RowTypeOK' BY <1>5 DEF RowTypeOK, LifecycleStates, ThrowSwitch
  <2>2. WorldTypeOK' BY <1>5 DEF WorldTypeOK, ThrowSwitch
  <2>3. TaskTypeOK' BY <1>5 DEF TaskTypeOK, ThrowSwitch
  <2>4. LiveIsArmed' /\ CertifiedIsEarned' /\ (live' => live)
    BY <1>5 DEF RowTypeOK, LiveIsArmed, CertifiedIsEarned, ThrowSwitch
  <2>. QED BY <2>1, <2>2, <2>3, <2>4, Parts
<1>6. CASE StopCommand(w)
  <2>1. RowTypeOK' BY <1>6 DEF RowTypeOK, LifecycleStates, StopCommand, OnlyMove
  <2>2. WorldTypeOK' BY <1>6 DEF WorldTypeOK, StopCommand, OnlyMove
  <2>3. TaskTypeOK' BY <1>6 DEF TaskTypeOK, StopCommand, OnlyMove
  <2>4. LiveIsArmed' /\ CertifiedIsEarned' /\ (live' => live)
    BY <1>6 DEF RowTypeOK, LiveIsArmed, CertifiedIsEarned, StopCommand, OnlyMove
  <2>. QED BY <2>1, <2>2, <2>3, <2>4, Parts
<1>. QED BY <1>1, <1>2, <1>3, <1>4, <1>5, <1>6

\* A gate of enable_live() only moves the call.
LEMMA GateKeeps ==
    ASSUME IInv, NEW p \in Enablers, NEW here, NEW open,
           NEW there \in {"idle", "switch", "key", "certificate", "commit"},
           Gate(p, here, open, there)
    PROVE  Harmless
<1>. USE DEF IInv, TypeOK, Gate, row
<1>1. RowTypeOK' BY DEF RowTypeOK
<1>2. WorldTypeOK' BY DEF WorldTypeOK
<1>3. TaskTypeOK' BY DEF TaskTypeOK
<1>4. LiveIsArmed' /\ CertifiedIsEarned' /\ (live' => live)
  BY DEF RowTypeOK, LiveIsArmed, CertifiedIsEarned
<1>. QED BY <1>1, <1>2, <1>3, <1>4, Parts

\* The UPDATE of enable_live() finds LIVE_CERTIFIED now, whatever the gates were asked before.
LEMMA CommitKeeps ==
    ASSUME IInv, NEW p \in Enablers, CommitEnable(p)
    PROVE  IInv' /\ earned
<1>. USE DEF IInv, TypeOK, CommitEnable
<1>1. RowTypeOK' BY DEF RowTypeOK, LifecycleStates
<1>2. WorldTypeOK' BY DEF WorldTypeOK
<1>3. TaskTypeOK' BY DEF TaskTypeOK
<1>4. LiveIsArmed' /\ CertifiedIsEarned' /\ earned
  BY DEF RowTypeOK, LiveIsArmed, CertifiedIsEarned
<1>. QED BY <1>1, <1>2, <1>3, <1>4

LEMMA EnablingKeeps ==
    ASSUME IInv, NEW p \in Enablers,
           \/ ReadAccount(p) \/ ReadSwitch(p) \/ ReadKey(p) \/ ReadCertificate(p)
           \/ StopEnabling(p) \/ CommitEnable(p)
    PROVE  IInv' /\ ((live' => live) \/ earned)
<1>1. CASE ReadAccount(p) BY <1>1, GateKeeps DEF ReadAccount, Harmless
<1>2. CASE ReadSwitch(p) BY <1>2, GateKeeps DEF ReadSwitch, Harmless
<1>3. CASE ReadKey(p) BY <1>3, GateKeeps DEF ReadKey, Harmless
<1>4. CASE ReadCertificate(p) BY <1>4, GateKeeps DEF ReadCertificate, Harmless
<1>5. CASE StopEnabling(p) BY <1>5, GateKeeps DEF StopEnabling, Harmless
<1>6. CASE CommitEnable(p) BY <1>6, CommitKeeps
<1>. QED BY <1>1, <1>2, <1>3, <1>4, <1>5, <1>6

\* The account and the exchange drift, or nothing happens.
LEMMA IdleKeeps ==
    ASSUME IInv, Drift \/ UNCHANGED vars
    PROVE  Harmless
<1>. USE DEF IInv, TypeOK, Drift, vars, row, tasks
<1>1. RowTypeOK' BY DEF RowTypeOK
<1>2. WorldTypeOK' BY DEF WorldTypeOK
<1>3. TaskTypeOK' BY DEF TaskTypeOK
<1>4. LiveIsArmed' /\ CertifiedIsEarned' /\ (live' => live)
  BY DEF RowTypeOK, LiveIsArmed, CertifiedIsEarned
<1>. QED BY <1>1, <1>2, <1>3, <1>4, Parts

\* Every step keeps the invariant, and makes the account live only when that is earned.
LEMMA StepKeeps ==
    ASSUME IInv, [Next]_vars
    PROVE  IInv' /\ ((live' => live) \/ earned)
<1>1. CASE \/ RevokeKey \/ BeginConfirmation \/ Confirm \/ EmergencyDisable
           \/ \E k \in Keys : RotateKey(k) \/ ConnectKey(k)
  BY <1>1, CommandKeeps DEF Harmless
<1>2. CASE StartSync \/ SyncFindsChange \/ SyncSucceeds \/ SyncFails
  BY <1>2, SyncKeeps DEF Harmless
<1>3. CASE \/ StartCertification \/ DryRunBlocked \/ BeginEconomic
           \/ EconomicPassed \/ EconomicBlocked \/ Abandon
  BY <1>3, CertificationKeeps DEF Harmless
<1>4. ASSUME NEW p \in Enablers,
             \/ ReadAccount(p) \/ ReadSwitch(p) \/ ReadKey(p) \/ ReadCertificate(p)
             \/ StopEnabling(p) \/ CommitEnable(p)
      PROVE  IInv' /\ ((live' => live) \/ earned)
  BY <1>4, EnablingKeeps
<1>5. ASSUME NEW w \in Reconcilers,
             \/ StartReconciling(w) \/ Compare(w) \/ Unavailable(w) \/ Suspend(w)
             \/ ThrowSwitch(w) \/ StopCommand(w)
      PROVE  IInv' /\ ((live' => live) \/ earned)
  BY <1>5, ReconciliationKeeps DEF Harmless
<1>6. CASE Drift \/ UNCHANGED vars
  BY <1>6, IdleKeeps DEF Harmless
<1>. QED BY <1>1, <1>2, <1>3, <1>4, <1>5, <1>6 DEF Next

-----------------------------------------------------------------------------

\* In every reachable state the account and its tasks are well typed.
THEOREM AccountTyping == Spec => []TypeOK
<1>1. Init => IInv BY InitIInv
<1>2. IInv /\ [Next]_vars => IInv' BY StepKeeps
<1>3. IInv => TypeOK BY DEF IInv
<1>. QED BY <1>1, <1>2, <1>3, PTL DEF Spec

\* The flags submit() reads never contradict each other, whoever writes the row in
\* whatever order: a live account is released, confirmed and not stopped.
THEOREM ArmedFlags == Spec => []LiveIsArmed
<1>1. Init => IInv BY InitIInv
<1>2. IInv /\ [Next]_vars => IInv' BY StepKeeps
<1>3. IInv => LiveIsArmed BY DEF IInv
<1>. QED BY <1>1, <1>2, <1>3, PTL DEF Spec

\* However many calls of enable_live() are under way when the account is stopped, none
\* makes it live before a certification has passed after the stop.
THEOREM EarnedEnabling == Spec => EnablingIsEarned
<1>1. Init => IInv BY InitIInv
<1>2. IInv /\ [Next]_vars => IInv' BY StepKeeps
<1>3. IInv /\ [Next]_vars => [~live /\ live' => earned]_vars BY StepKeeps
<1>. QED BY <1>1, <1>2, <1>3, PTL DEF Spec, EnablingIsEarned
\* A step changes the calls of enable_live() only through one of them, ...
LEMMA CallsMove ==
    ASSUME [Next]_vars, ~UNCHANGED enabler \/ (live' /\ ~live)
    PROVE  \E p \in Enablers :
               \/ ReadAccount(p) \/ ReadSwitch(p) \/ ReadKey(p) \/ ReadCertificate(p)
               \/ StopEnabling(p) \/ CommitEnable(p)
<1>. USE DEF TurnOff, row, tasks
<1>1. CASE \/ RevokeKey \/ BeginConfirmation \/ Confirm \/ EmergencyDisable
           \/ \E k \in Keys : RotateKey(k) \/ ConnectKey(k)
  BY <1>1 DEF RevokeKey, BeginConfirmation, Confirm, EmergencyDisable, RotateKey, ConnectKey
<1>2. CASE StartSync \/ SyncFindsChange \/ SyncSucceeds \/ SyncFails
  BY <1>2 DEF StartSync, SyncFindsChange, SyncSucceeds, SyncFails, EndSync
<1>3. CASE \/ StartCertification \/ DryRunBlocked \/ BeginEconomic
           \/ EconomicPassed \/ EconomicBlocked \/ Abandon
  BY <1>3
  DEF StartCertification, DryRunBlocked, BeginEconomic, EconomicPassed, EconomicBlocked,
      Abandon, Persist
<1>4. CASE \E w \in Reconcilers :
              \/ StartReconciling(w) \/ Compare(w) \/ Unavailable(w) \/ Suspend(w)
              \/ ThrowSwitch(w) \/ StopCommand(w)
  BY <1>4
  DEF StartReconciling, Compare, Unavailable, Suspend, ThrowSwitch, StopCommand, OnlyMove, Move
<1>5. CASE Drift \/ UNCHANGED vars
  BY <1>5 DEF Drift, vars
<1>. QED BY <1>1, <1>2, <1>3, <1>4, <1>5 DEF Next

\* ... and none clears the kill switch.
LEMMA SwitchStays ==
    ASSUME [Next]_vars, switch
    PROVE  switch'
<1>1. CASE \/ RevokeKey \/ BeginConfirmation \/ Confirm \/ EmergencyDisable
           \/ \E k \in Keys : RotateKey(k) \/ ConnectKey(k)
  BY <1>1 DEF RevokeKey, BeginConfirmation, Confirm, EmergencyDisable, RotateKey, ConnectKey
<1>2. CASE StartSync \/ SyncFindsChange \/ SyncSucceeds \/ SyncFails
  BY <1>2 DEF StartSync, SyncFindsChange, SyncSucceeds, SyncFails, EndSync
<1>3. CASE \/ StartCertification \/ DryRunBlocked \/ BeginEconomic
           \/ EconomicPassed \/ EconomicBlocked \/ Abandon
  BY <1>3
  DEF StartCertification, DryRunBlocked, BeginEconomic, EconomicPassed, EconomicBlocked,
      Abandon, Persist
<1>4. CASE \E w \in Reconcilers :
              \/ StartReconciling(w) \/ Compare(w) \/ Unavailable(w) \/ Suspend(w)
              \/ ThrowSwitch(w) \/ StopCommand(w)
  BY <1>4
  DEF StartReconciling, Compare, Unavailable, Suspend, ThrowSwitch, StopCommand, OnlyMove
<1>5. CASE \E p \in Enablers :
              \/ ReadAccount(p) \/ ReadSwitch(p) \/ ReadKey(p) \/ ReadCertificate(p)
              \/ StopEnabling(p) \/ CommitEnable(p)
  BY <1>5
  DEF ReadAccount, ReadSwitch, ReadKey, ReadCertificate, StopEnabling, CommitEnable, Gate
<1>6. CASE Drift \/ UNCHANGED vars
  BY <1>6 DEF Drift, vars
<1>. QED BY <1>1, <1>2, <1>3, <1>4, <1>5, <1>6 DEF Next

\* Once the switch is thrown and the calls that read it before are over, no call of
\* enable_live() gets past it, so nothing makes the account live any more.
THEOREM FinalSwitch == Spec => SwitchIsFinal
<1>1. Init => IInv BY InitIInv
<1>2. IInv /\ [Next]_vars => IInv' BY StepKeeps
<1>3. ASSUME IInv, [Next]_vars, Blocked PROVE Blocked' /\ (live' => live)
  <2>1. switch' BY <1>3, SwitchStays DEF Blocked
  <2>2. enabler \in [Enablers -> {"idle", "switch", "key", "certificate", "commit"}]
    BY <1>3 DEF IInv, TypeOK, TaskTypeOK
  <2>3. ASSUME NEW p \in Enablers,
               \/ ReadAccount(p) \/ ReadSwitch(p) \/ ReadKey(p) \/ ReadCertificate(p)
               \/ StopEnabling(p) \/ CommitEnable(p)
        PROVE  (\A q \in Enablers : enabler'[q] \in {"idle", "switch"}) /\ (live' => live)
    <3>1. switch /\ \A q \in Enablers : enabler[q] \in {"idle", "switch"}
      BY <1>3 DEF Blocked
    <3>2. PICK there \in {"idle", "switch"} :
              enabler' = [enabler EXCEPT ![p] = there] /\ UNCHANGED live
      BY <2>3, <3>1
      DEF ReadAccount, ReadSwitch, ReadKey, ReadCertificate, StopEnabling, CommitEnable, Gate, row
    <3>. QED BY <2>2, <3>1, <3>2
  <2>. QED BY <1>3, <2>1, <2>3, CallsMove DEF Blocked
<1>4. IInv /\ [Next]_vars => [Blocked => Blocked' /\ (live' => live)]_vars BY <1>3
<1>. QED BY <1>1, <1>2, <1>4, PTL DEF Spec, SwitchIsFinal

-----------------------------------------------------------------------------
(* Keys of the test environment.                                           *)

\* A certification that may pass, and what it leads to, belong to such a key.
DemoOK ==
    certifier \in {"dry", "economic"} \/ lifecycle \in {"LIVE_CERTIFIED", "LIVE_ENABLED"} \/ live
        => key \in DemoKeys

\* The key is not replaced or revoked while a certification that may pass is under way.
KeyStays == certifier \in {"dry", "economic"} => key' = key

LEMMA DemoNext == IInv /\ DemoOK /\ [Next]_vars /\ [KeyStays]_vars => DemoOK'
<1>. SUFFICES ASSUME IInv, DemoOK, [Next]_vars, [KeyStays]_vars PROVE DemoOK'
  OBVIOUS
<1>0. NoKey \notin DemoKeys BY AccountAssumption
<1>u. CASE UNCHANGED vars
  BY <1>u DEF vars, row, tasks, DemoOK
<1>k. CASE KeyStays
  <2>. USE DEF TurnOff, row, tasks, DemoOK, KeyStays
  <2>1. CASE \/ RevokeKey \/ BeginConfirmation \/ Confirm \/ EmergencyDisable
             \/ \E k \in Keys : RotateKey(k) \/ ConnectKey(k)
    BY <1>0, <1>k, <2>1
    DEF RevokeKey, BeginConfirmation, Confirm, EmergencyDisable, RotateKey, ConnectKey
  <2>2. CASE StartSync \/ SyncFindsChange \/ SyncSucceeds \/ SyncFails
    BY <2>2 DEF StartSync, SyncFindsChange, SyncSucceeds, SyncFails, EndSync
  <2>3. CASE \/ StartCertification \/ DryRunBlocked \/ BeginEconomic
             \/ EconomicPassed \/ EconomicBlocked \/ Abandon
    BY <2>3
    DEF StartCertification, DryRunBlocked, BeginEconomic, EconomicPassed, EconomicBlocked,
        Abandon, Persist
  <2>4. CASE \E w \in Reconcilers :
                \/ StartReconciling(w) \/ Compare(w) \/ Unavailable(w) \/ Suspend(w)
                \/ ThrowSwitch(w) \/ StopCommand(w)
    BY <2>4
    DEF StartReconciling, Compare, Unavailable, Suspend, ThrowSwitch, StopCommand, OnlyMove, Move
  <2>5. CASE \E p \in Enablers :
                \/ ReadAccount(p) \/ ReadSwitch(p) \/ ReadKey(p) \/ ReadCertificate(p)
                \/ StopEnabling(p) \/ CommitEnable(p)
    BY <2>5
    DEF ReadAccount, ReadSwitch, ReadKey, ReadCertificate, StopEnabling, CommitEnable, Gate
  <2>6. CASE Drift
    BY <2>6 DEF Drift
  <2>. QED BY <1>u, <2>1, <2>2, <2>3, <2>4, <2>5, <2>6 DEF Next
<1>. QED BY <1>u, <1>k

\* Only an account of the exchange's test environment is ever live, unless its key is
\* replaced or revoked while an economic certification is under way: the certification
\* has asked for the key once, and writes LIVE_CERTIFIED for whatever key it finds.
THEOREM DemoOnly == Spec /\ [][KeyStays]_vars => [](live => key \in DemoKeys)
<1>1. Init => IInv /\ DemoOK
  BY InitIInv DEF Init, DemoOK
<1>2. IInv /\ [Next]_vars => IInv' BY StepKeeps
<1>3. DemoOK => (live => key \in DemoKeys) BY DEF DemoOK
<1>. QED BY <1>1, <1>2, <1>3, DemoNext, PTL DEF Spec
=============================================================================
