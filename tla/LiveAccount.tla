---------------------------- MODULE LiveAccount ----------------------------
(***************************************************************************)
(* One LIVE exchange account: the row of live_exchange_accounts that the   *)
(* dispatcher and submit() ask before an order may leave, its API key, its *)
(* certification and its CONNECTION kill switch.                           *)
(*                                                                         *)
(* A dozen statements in six files write the row.  Most of them do not ask *)
(* for the lifecycle state they replace (ALLOWED_LIVE_ACCOUNT_TRANSITIONS  *)
(* is asked only by suspend(), which has no caller), and the long ones --  *)
(* a synchronisation, a certification, a reconciliation -- write what they *)
(* found out after they have awaited the exchange.  enable_live() reads    *)
(* its gates one by one and commits with a guarded UPDATE.                 *)
(*                                                                         *)
(* Gates that only refuse (environment, risk profile, unresolved           *)
(* executions, daily loss, recovery, preflight) may fail at any time, which *)
(* Abandon and StopEnabling stand for.                                     *)
(***************************************************************************)
EXTENDS Naturals

CONSTANTS
    Keys,           \* API keys the user may connect
    DemoKeys,       \* those of them for the exchange's test environment (VST)
    NoKey,
    Enablers,       \* calls of enable_live() that may overlap: a bound
    Watchers,       \* reconciliation workers, which keep running
    Commands        \* reconciliations that a command or a dispatcher asks for

ASSUME AccountAssumption ==
    /\ NoKey \notin Keys
    /\ DemoKeys \subseteq Keys
    /\ Watchers \cap Commands = {}

Reconcilers == Watchers \cup Commands

LifecycleStates == {"NOT_CONNECTED", "READ_ONLY_CONNECTED", "PREFLIGHT_READY", "LIVE_CERTIFIED",
                    "LIVE_ENABLED", "SUSPENDED", "REVOKED", "ERROR", "KILLED"}

VARIABLES
    lifecycle,      \* lifecycle_state
    live,           \* live_enabled
    armed,          \* kill_switch
    confirmed,      \* confirmed_at is set
    pending,        \* confirmation_hash is set
    synced,         \* sync_status = 'SUCCESS'
    key,            \* the row of user_exchange_credentials
    certificate,    \* status of the last economic certification
    switch,         \* the CONNECTION row of live_kill_switches is active
    matched,        \* the exchange agrees with the local executions and positions
    syncing,        \* a synchronisation is awaiting the exchange
    certifier,      \* where a certification stands: at most one at a time, a bound
    enabler,        \* where each call of enable_live() stands
    reconciler,     \* where each reconciliation stands
    earned          \* a certification has passed since the account was last connected,
                    \* stopped or enabled (for the properties only)

row == <<lifecycle, live, armed, confirmed, pending, synced>>
tasks == <<syncing, certifier, enabler, reconciler>>
vars == <<row, key, certificate, switch, matched, tasks, earned>>

\* The row as ensure(), the first thing almost every command does, leaves it.
Init ==
    /\ key \in Keys \cup {NoKey}
    /\ lifecycle = IF key = NoKey THEN "NOT_CONNECTED" ELSE "READ_ONLY_CONNECTED"
    /\ live = FALSE /\ armed = TRUE
    /\ confirmed = FALSE /\ pending = FALSE /\ synced = FALSE
    /\ certificate = "NONE"
    /\ switch = FALSE /\ matched = TRUE
    /\ syncing = FALSE /\ certifier = "idle"
    /\ enabler = [p \in Enablers |-> "idle"]
    /\ reconciler = [w \in Reconcilers |-> "idle"]
    /\ earned = FALSE

\* What every statement that takes LIVE away from the account sets.
TurnOff == live' = FALSE /\ armed' = TRUE

-----------------------------------------------------------------------------
(* Commands of one transaction *)

\* save() where a key was connected already: a rotation.
RotateKey(k) ==
    /\ key # NoKey
    /\ key' = k
    /\ TurnOff
    /\ confirmed' = FALSE /\ pending' = FALSE
    /\ lifecycle' = "READ_ONLY_CONNECTED"
    /\ earned' = FALSE
    /\ UNCHANGED <<synced, certificate, switch, matched, tasks>>

\* save() where no key was.
ConnectKey(k) ==
    /\ key = NoKey
    /\ key' = k
    /\ lifecycle' = "READ_ONLY_CONNECTED"
    /\ earned' = FALSE
    /\ UNCHANGED <<live, armed, confirmed, pending, synced, certificate, switch, matched, tasks>>

\* delete(): the confirmation stays.
RevokeKey ==
    /\ key' = NoKey
    /\ TurnOff
    /\ lifecycle' = "REVOKED"
    /\ earned' = FALSE
    /\ UNCHANGED <<confirmed, pending, synced, certificate, switch, matched, tasks>>

BeginConfirmationOnly ==  \* mutant
    /\ pending' = TRUE /\ confirmed' = FALSE
    /\ UNCHANGED <<live, armed, lifecycle, synced, key, certificate, switch, matched, tasks, earned>>

BeginConfirmation ==
    /\ pending' = TRUE /\ confirmed' = FALSE
    /\ TurnOff
    /\ UNCHANGED <<lifecycle, synced, key, certificate, switch, matched, tasks, earned>>

Confirm ==
    /\ pending
    /\ confirmed' = TRUE /\ pending' = FALSE
    /\ UNCHANGED <<lifecycle, live, armed, synced, key, certificate, switch, matched, tasks, earned>>

EmergencyDisableFlags ==  \* mutant
    /\ TurnOff
    /\ pending' = FALSE
    /\ earned' = FALSE
    /\ UNCHANGED <<lifecycle, confirmed, synced, key, certificate, switch, matched, tasks>>

\* emergency_disable(), too, leaves the confirmation.
EmergencyDisable ==
    /\ TurnOff
    /\ lifecycle' = "KILLED"
    /\ pending' = FALSE
    /\ earned' = FALSE
    /\ UNCHANGED <<confirmed, synced, key, certificate, switch, matched, tasks>>

-----------------------------------------------------------------------------
(* BingXAccountSyncService.synchronize *)

StartSync ==
    /\ ~syncing /\ key # NoKey
    /\ syncing' = TRUE /\ synced' = FALSE
    /\ UNCHANGED <<lifecycle, live, armed, confirmed, pending, key, certificate, switch, matched,
                   certifier, enabler, reconciler, earned>>

\* _update() sees another account mode or adapter version than the row has.
SyncFindsChange ==
    /\ syncing
    /\ TurnOff
    /\ UNCHANGED <<lifecycle, confirmed, pending, synced, key, certificate, switch, matched,
                   tasks, earned>>

EndSync(state, success) ==
    /\ syncing
    /\ syncing' = FALSE
    /\ lifecycle' = state /\ synced' = success
    /\ UNCHANGED <<live, armed, confirmed, pending, key, certificate, switch, matched,
                   certifier, enabler, reconciler, earned>>
SyncSucceeds == EndSync("PREFLIGHT_READY", TRUE)
SyncFails == EndSync("ERROR", FALSE)

-----------------------------------------------------------------------------
(* BingXCertificationService *)

\* A dry run with any key; an economic run only with a key of the test environment.
StartCertification ==
    /\ certifier = "idle" /\ key # NoKey
    /\ certifier' \in {"probe"} \cup (IF key \in DemoKeys THEN {"dry"} ELSE {})
    /\ UNCHANGED <<row, key, certificate, switch, matched, syncing, enabler, reconciler, earned>>

Persist(state, status) ==
    /\ lifecycle' = state /\ certificate' = status
    /\ UNCHANGED <<live, armed, confirmed, pending, synced, key, switch, matched, syncing, enabler,
                   reconciler>>

DryRunBlocked ==
    /\ certifier \in {"probe", "dry"} /\ certifier' = "idle"
    /\ Persist("ERROR", certificate)
    /\ UNCHANGED earned

BeginEconomic ==
    /\ certifier = "dry" /\ certifier' = "economic"
    /\ Persist(lifecycle, "RUNNING")
    /\ UNCHANGED earned

EconomicPassed ==
    /\ certifier = "economic" /\ certifier' = "idle"
    /\ Persist("LIVE_CERTIFIED", "PASSED")
    /\ earned' = TRUE

EconomicBlocked ==
    /\ certifier = "economic" /\ certifier' = "idle"
    /\ Persist("ERROR", "BLOCKED")
    /\ UNCHANGED earned

\* The process dies, an exchange call raises, or a dry run ends well: nothing is written.
Abandon ==
    /\ UNCHANGED <<row, key, certificate, switch, matched, enabler, reconciler, earned>>
    /\ \/ certifier # "idle" /\ certifier' = "idle" /\ UNCHANGED syncing
       \/ syncing /\ syncing' = FALSE /\ UNCHANGED certifier

-----------------------------------------------------------------------------
(* enable_live(): a reading of its own for every gate, and one guarded UPDATE *)

Gate(p, here, open, there) ==
    /\ enabler[p] = here /\ open
    /\ enabler' = [enabler EXCEPT ![p] = there]
    /\ UNCHANGED <<row, key, certificate, switch, matched, syncing, certifier, reconciler, earned>>

\* ensure() returns the row whose confirmation, state and synchronisation count.
ReadAccount(p) ==
    Gate(p, "idle", confirmed /\ lifecycle = "LIVE_CERTIFIED" /\ synced, "switch")
ReadSwitchUnasked(p) == Gate(p, "switch", TRUE, "key")  \* mutant
ReadSwitch(p) == Gate(p, "switch", ~switch, "key")
ReadKey(p) == Gate(p, "key", key # NoKey, "certificate")
ReadCertificate(p) == Gate(p, "certificate", certificate = "PASSED", "commit")
StopEnabling(p) == Gate(p, enabler[p], enabler[p] # "idle", "idle")

CommitEnable(p) ==
    /\ enabler[p] = "commit"
    /\ ~live /\ confirmed /\ lifecycle = "LIVE_CERTIFIED"
    /\ enabler' = [enabler EXCEPT ![p] = "idle"]
    /\ live' = TRUE /\ armed' = FALSE /\ lifecycle' = "LIVE_ENABLED"
    /\ earned' = FALSE
    /\ UNCHANGED <<confirmed, pending, synced, key, certificate, switch, matched, syncing,
                   certifier, reconciler>>

-----------------------------------------------------------------------------
(* Reconciliation *)

\* The accounts that the worker's cycle selects.
Watched == live /\ lifecycle = "LIVE_ENABLED"

Move(w, here, there) ==
    /\ reconciler[w] = here
    /\ reconciler' = [reconciler EXCEPT ![w] = there]
    /\ UNCHANGED <<key, certificate, matched, syncing, certifier, enabler>>
OnlyMove(w, here, there) == Move(w, here, there) /\ UNCHANGED <<row, switch, earned>>

StartReconciling(w) ==
    /\ w \in Watchers => Watched
    /\ w \in Commands => key # NoKey
    /\ OnlyMove(w, "idle", "comparing")

\* reconcile() compares the exchange's snapshot with the local rows.
Compare(w) == OnlyMove(w, "comparing", IF matched THEN "idle" ELSE "guilty")

\* An exception: the worker suspends the account, a command only reports it.
Unavailable(w) == OnlyMove(w, "comparing", IF w \in Watchers THEN "guilty" ELSE "idle")

SuspendMode(w) ==  \* mutant
    /\ Move(w, "guilty", "suspended")
    /\ TurnOff /\ lifecycle' = "DISABLED"
    /\ earned' = FALSE
    /\ UNCHANGED <<confirmed, pending, synced, switch>>

SuspendSwitchOnly(w) ==  \* mutant
    OnlyMove(w, "guilty", "suspended")

Suspend(w) ==
    /\ Move(w, "guilty", "suspended")
    /\ TurnOff /\ lifecycle' = "SUSPENDED"
    /\ earned' = FALSE
    /\ UNCHANGED <<confirmed, pending, synced, switch>>

\* The kill switch is a second transaction; nothing in the program clears it.
ThrowSwitch(w) ==
    /\ Move(w, "suspended", "idle")
    /\ switch' = TRUE
    /\ UNCHANGED <<row, earned>>

\* The process of a command dies between two of its steps.
StopCommand(w) ==
    /\ w \in Commands /\ reconciler[w] # "idle"
    /\ OnlyMove(w, reconciler[w], "idle")

\* The account and the local rows drift apart, or agree again.
Drift ==
    /\ matched' = ~matched
    /\ UNCHANGED <<row, key, certificate, switch, tasks, earned>>

-----------------------------------------------------------------------------

Next ==
    \/ RevokeKey \/ BeginConfirmation \/ Confirm \/ EmergencyDisable
    \/ \E k \in Keys : RotateKey(k) \/ ConnectKey(k)
    \/ StartSync \/ SyncFindsChange \/ SyncSucceeds \/ SyncFails
    \/ StartCertification \/ DryRunBlocked \/ BeginEconomic \/ EconomicPassed \/ EconomicBlocked
    \/ Abandon
    \/ \E p \in Enablers :
          \/ ReadAccount(p) \/ ReadSwitch(p) \/ ReadKey(p) \/ ReadCertificate(p)
          \/ StopEnabling(p) \/ CommitEnable(p)
    \/ \E w \in Reconcilers :
          \/ StartReconciling(w) \/ Compare(w) \/ Unavailable(w) \/ Suspend(w)
          \/ ThrowSwitch(w) \/ StopCommand(w)
    \/ Drift

Spec == Init /\ [][Next]_vars

\* LiveReconciliationWorker.run_forever() survives every exception and sleeps for a bounded
\* time; no user has to do anything.
Cycle(w) == StartReconciling(w) \/ Compare(w) \/ Unavailable(w) \/ Suspend(w) \/ ThrowSwitch(w)
FairSpec == Spec /\ \A w \in Watchers : WF_vars(Cycle(w))

-----------------------------------------------------------------------------
(* Properties *)

RowTypeOK ==
    /\ lifecycle \in LifecycleStates
    /\ live \in BOOLEAN /\ armed \in BOOLEAN
    /\ confirmed \in BOOLEAN /\ pending \in BOOLEAN /\ synced \in BOOLEAN
    /\ earned \in BOOLEAN

WorldTypeOK ==
    /\ key \in Keys \cup {NoKey}
    /\ certificate \in {"NONE", "RUNNING", "PASSED", "BLOCKED"}
    /\ switch \in BOOLEAN /\ matched \in BOOLEAN

TaskTypeOK ==
    /\ syncing \in BOOLEAN
    /\ certifier \in {"idle", "probe", "dry", "economic"}
    /\ enabler \in [Enablers -> {"idle", "switch", "key", "certificate", "commit"}]
    /\ reconciler \in [Reconcilers -> {"idle", "comparing", "guilty", "suspended"}]

TypeOK == RowTypeOK /\ WorldTypeOK /\ TaskTypeOK

\* However commands, synchronisations, certifications and reconciliations overlap, the
\* two flags that submit() reads never contradict each other, and an account is live
\* only while its confirmation stands and it has not been stopped.
LiveIsArmed ==
    /\ live <=> ~armed
    /\ live => confirmed
    /\ live => lifecycle \notin {"NOT_CONNECTED", "SUSPENDED", "REVOKED", "KILLED"}

\* A stop (a kill, a suspension, a rotated or revoked key) holds: neither a call of
\* enable_live() that was under way nor a new one makes the account live unless a
\* certification has passed after the stop, and one certification enables it at most once.
EnablingIsEarned == [][~live /\ live' => earned]_vars

\* The kill switch of the connection is final once the calls of enable_live() that had
\* read it before it was thrown are over: whatever is connected, certified or confirmed
\* afterwards, no call gets as far again, and the account never becomes live.
Blocked == switch /\ \A p \in Enablers : enabler[p] \in {"idle", "switch"}
SwitchIsFinal == [][Blocked => Blocked' /\ (live' => live)]_vars

\* An account that the exchange contradicts does not stay enabled under the worker.
DivergenceStops == []<>(matched \/ ~Watched)
=============================================================================
