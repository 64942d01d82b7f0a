--------------------------- MODULE PaperPosition ---------------------------
(***************************************************************************)
(* One paper position after its fill, in its two tables: the unified       *)
(* paper_execution_positions, which is the authority, and the legacy       *)
(* paper_positions, which is a projection of it.  Copy workers deliver the *)
(* signal's status to it (CopyTradingService.sync_all), users press panic, *)
(* and the portfolio reconciliation closes stale projections.              *)
(*                                                                         *)
(* PaperExecutionLifecycle.apply_signal_transition reads the position and  *)
(* then writes it without a condition: the read and the write are two      *)
(* steps, on SQLite (where a transaction begins at its first write) as on  *)
(* PostgreSQL (READ COMMITTED).  The worker runs in a thread beside the    *)
(* handlers, and more than one process may run a worker.                   *)
(***************************************************************************)
EXTENDS Naturals

CONSTANTS
    Workers,    \* threads that run sync_all()
    Panickers,  \* handlers that run panic()
    Crashable,  \* those of them that may be killed
    Milestones  \* the partial targets signals reach here, of TP1 and TP2

ASSUME PaperAssumption ==
    /\ Workers \cap Panickers = {}
    /\ Crashable \subseteq Workers \cup Panickers
    /\ Milestones \subseteq {"TP1", "TP2"}

Actors == Workers \cup Panickers

\* Signal statuses; "END" stands for TP3, STOP, BREAKEVEN, MANUAL_STOP, INVALIDATED,
\* EXPIRED and CLOSED.  A command is a status or a panic, and names its lifecycle event.
Statuses == {"ACTIVE", "END"} \cup Milestones
Commands == {"ACTIVE", "TP1", "TP2", "END", "PANIC"}

RankOfStatus(command) ==  \* mutant
    CASE command = "TP1" -> 1 [] command = "TP2" -> 2 [] command = "END" -> 3 [] OTHER -> 0

\* lifecycle_rank, and the quarters of the position each command leaves open.
Rank(command) ==
    CASE command = "TP1" -> 1 [] command = "TP2" -> 2
      [] command \in {"END", "PANIC"} -> 3 [] OTHER -> 0
Whole == 4
Target(command) ==
    CASE command = "TP1" -> 2 [] command = "TP2" -> 1
      [] command \in {"END", "PANIC"} -> 0 [] OTHER -> Whole

VARIABLES
    signal,    \* signals.status
    enabled,   \* copy_profiles.enabled and auto_copy
    position,  \* the paper_execution_positions row
    events,    \* the quantity closed by each lifecycle event, NoEvent before it
    legacy,    \* the paper_positions row
    desk       \* an actor's place and what it has read

vars == <<signal, enabled, position, events, legacy, desk>>

NoEvent == Whole + 1
NoCommand == "NONE"

Positions == [status : {"OPEN", "PARTIALLY_CLOSED", "CLOSED"}, quantity : 0..Whole,
              realized : 0..Whole, last : Commands \cup {NoCommand}]
Legacies == [status : {"NONE", "OPEN", "PARTIAL", "CLOSED"}, remaining : 0..Whole,
             last : Commands \cup {NoCommand}]
NoLegacy == [status |-> "NONE", remaining |-> 0, last |-> NoCommand]
Filled == [status |-> "OPEN", quantity |-> Whole, realized |-> 0, last |-> NoCommand]

Steps == {"idle", "existing", "unified", "legacy", "apply", "write", "project",
          "disable", "review", "reproject", "queued", "latest"}
Idle == [pc |-> "idle", command |-> NoCommand, copying |-> FALSE, old |-> NoLegacy,
         item |-> Filled]
Desks == [pc : Steps, command : Commands \cup {NoCommand}, copying : BOOLEAN,
          old : Legacies, item : Positions]

\* The position has just been filled, by sync_signal() or by a worker's drain of the
\* queue, which has still to project it.
Init ==
    /\ signal = "ACTIVE"
    /\ enabled = TRUE
    /\ position = Filled
    /\ events = [c \in Commands |-> NoEvent]
    /\ legacy = NoLegacy
    /\ \/ desk = [a \in Actors |-> Idle]
       \/ \E w \in Workers :
             desk = [a \in Actors |-> IF a = w THEN [Idle EXCEPT !.pc = "queued"] ELSE Idle]

At(a, pc) == desk[a].pc = pc
Become(a, now) == desk' = [desk EXCEPT ![a] = now]
Leave(a) == Become(a, Idle)
Unchanged == UNCHANGED <<signal, enabled, position, events, legacy>>

IsOpen == position.status # "CLOSED"
LegacyOpen == legacy.status \in {"OPEN", "PARTIAL"}

-----------------------------------------------------------------------------
(* sync_all() and sync_signal(), for this signal and this user. *)

\* The cycle reads the signals and the profiles once, at its start.
BeginCycle(w) ==
    /\ At(w, "idle")
    /\ enabled \/ IsOpen \/ LegacyOpen
    /\ Become(w, [Idle EXCEPT !.pc = "existing", !.command = signal, !.copying = enabled])
    /\ Unchanged

ReadExisting(w) ==
    /\ At(w, "existing")
    /\ Become(w, [desk[w] EXCEPT !.pc = "unified", !.old = legacy])
    /\ Unchanged

\* Which of its branches sync_signal() takes.  A closed position without a
\* projection goes through _open(), whose engine replays the executed plan.
NewHere(self) == self.old.status = "NONE" /\ self.command # "END"
DeliversNew(self) ==  \* mutant
    IF NewHere(self) THEN self.copying
    ELSE self.old.status \in {"OPEN", "PARTIAL"} /\ IsOpen
Delivers(self) == IF NewHere(self) THEN self.copying ELSE IsOpen

ReadUnified(w) ==
    LET self == desk[w] IN
    /\ At(w, "unified")
    /\ \/ /\ Delivers(self)
          /\ Become(w, [Idle EXCEPT !.pc = "apply", !.command = self.command])
       \/ /\ ~Delivers(self)
          /\ self.old.status \in {"OPEN", "PARTIAL"}
          /\ Become(w, [self EXCEPT !.pc = "legacy"])
       \/ /\ ~Delivers(self)
          /\ self.old.status \notin {"OPEN", "PARTIAL"}
          /\ Leave(w)
    /\ Unchanged

\* _open() plans again, and a plan refused this time cannot withdraw the order
\* that was filled: the exception ends the cycle.
RefusedAgain(w) ==
    /\ At(w, "unified")
    /\ NewHere(desk[w]) /\ desk[w].copying /\ ~IsOpen
    /\ Leave(w)
    /\ Unchanged

\* _sync_existing(): the legacy arithmetic, on the row as it was read.
SyncLegacy(w) ==
    LET old == desk[w].old
        status == desk[w].command IN
    /\ At(w, "legacy")
    /\ legacy' =
         CASE status = "END" -> [status |-> "CLOSED", remaining |-> 0, last |-> status]
           [] status # "END" /\ status = old.last -> legacy
           [] status # "END" /\ status # old.last ->
                IF Target(status) >= old.remaining
                  THEN [legacy EXCEPT !.last = status]
                  ELSE [status |-> "PARTIAL", remaining |-> Target(status), last |-> status]
    /\ Leave(w)
    /\ UNCHANGED <<signal, enabled, position, events>>

-----------------------------------------------------------------------------
(* apply_signal_transition() and _project_unified_position() *)

Stale(command) == position.last # NoCommand /\ Rank(command) < Rank(position.last)
NoOp(command) == events[command] # NoEvent \/ ~IsOpen \/ Stale(command)

\* Its reads.  A no-op is projected by a worker; panic() projects what it applied.
ReadPosition(a) ==
    LET self == desk[a] IN
    /\ At(a, "apply")
    /\ Become(a, IF ~NoOp(self.command) THEN [self EXCEPT !.pc = "write", !.item = position]
                 ELSE IF a \in Workers THEN [self EXCEPT !.pc = "project", !.item = position]
                 ELSE [Idle EXCEPT !.pc = "disable"])
    /\ Unchanged

\* The row the command makes of the row that was read.
Left(command, item) ==
    IF Target(command) < item.quantity THEN Target(command) ELSE item.quantity

AfterDelta(command, item) ==  \* mutant
    LET left == Left(command, item) IN
    [status |-> IF left = 0 THEN "CLOSED"
                ELSE IF left < item.quantity THEN "PARTIALLY_CLOSED" ELSE item.status,
     quantity |-> left,
     realized |-> item.realized + (Whole - left),
     last |-> command]

After(command, item) ==
    LET left == Left(command, item) IN
    [status |-> IF left = 0 THEN "CLOSED"
                ELSE IF left < item.quantity THEN "PARTIALLY_CLOSED" ELSE item.status,
     quantity |-> left,
     realized |-> item.realized + (item.quantity - left),
     last |-> command]

\* Its writes, in one transaction: the position, the event, whose key is unique,
\* and the ledger entries, keyed by the event.
WriteOf(a, fresh) ==
    LET self == desk[a]
        made == After(self.command, self.item) IN
    /\ At(a, "write")
    /\ IF fresh
         THEN /\ position' = made
              /\ events' = [events EXCEPT ![self.command] = self.item.quantity - made.quantity]
              /\ Become(a, [self EXCEPT !.pc = "project", !.item = made])
         ELSE UNCHANGED <<position, events>> /\ Leave(a)
    /\ UNCHANGED <<signal, enabled, legacy>>

WriteApart(a) ==  \* mutant: two transactions, and a failure between them
    \/ WriteOf(a, events[desk[a].command] = NoEvent)
    \/ /\ At(a, "write")
       /\ position' = After(desk[a].command, desk[a].item)
       /\ Leave(a)
       /\ UNCHANGED <<signal, enabled, events, legacy>>
WritePosition(a) == WriteOf(a, events[desk[a].command] = NoEvent)

\* The projection shows the row the actor holds.
Project(a) ==
    LET self == desk[a] IN
    /\ At(a, "project") \/ At(a, "reproject")
    /\ legacy' = [status |-> CASE self.item.status = "PARTIALLY_CLOSED" -> "PARTIAL"
                               [] OTHER -> self.item.status,
                  remaining |-> self.item.quantity,
                  last |-> IF a \in Workers THEN self.command ELSE self.item.last]
    /\ Become(a, IF a \in Panickers /\ At(a, "project") THEN [Idle EXCEPT !.pc = "disable"]
                                                        ELSE Idle)
    /\ UNCHANGED <<signal, enabled, position, events>>

\* project_execution(), after the drain: the position, then the signal, are read.
FetchQueued(w) ==
    /\ At(w, "queued")
    /\ Become(w, [Idle EXCEPT !.pc = "latest", !.item = position])
    /\ Unchanged

FetchSignal(w) ==
    /\ At(w, "latest")
    /\ Become(w, [desk[w] EXCEPT !.pc = "project", !.command = signal])
    /\ Unchanged

-----------------------------------------------------------------------------
(* panic() *)

Panic(p) ==
    /\ At(p, "idle")
    /\ Become(p, IF IsOpen THEN [Idle EXCEPT !.pc = "apply", !.command = "PANIC"]
                           ELSE [Idle EXCEPT !.pc = "disable"])
    /\ Unchanged

\* The profile is switched off; a projection still open is made again from its position.
Disable(p) ==
    /\ At(p, "disable")
    /\ enabled' = FALSE
    /\ Become(p, IF LegacyOpen THEN [Idle EXCEPT !.pc = "review"] ELSE Idle)
    /\ UNCHANGED <<signal, position, events, legacy>>

Review(p) ==
    /\ At(p, "review")
    /\ Become(p, [Idle EXCEPT !.pc = "reproject", !.item = position])
    /\ Unchanged

-----------------------------------------------------------------------------
(* The rest of the program. *)

\* The signal moves to any status: the tracker writes what it made of an old reading
\* (see SignalLifecycle).  A user switches copying on again.
SignalMoves(status) ==
    /\ status # signal
    /\ signal' = status
    /\ UNCHANGED <<enabled, position, events, legacy, desk>>

SwitchOn ==
    /\ ~enabled
    /\ enabled' = TRUE
    /\ UNCHANGED <<signal, position, events, legacy, desk>>

\* PortfolioReconciliationService.reconcile() closes a projection whose signal has
\* ended and whose position is not open.
ReconcilePortfolio ==
    /\ LegacyOpen
    /\ signal = "END"
    /\ ~IsOpen
    /\ legacy' = [legacy EXCEPT !.status = "CLOSED", !.last = "END"]
    /\ UNCHANGED <<signal, enabled, position, events, desk>>

Crash(a) ==
    /\ a \in Crashable
    /\ ~At(a, "idle")
    /\ Leave(a)
    /\ Unchanged

-----------------------------------------------------------------------------
WorkerStep(w) ==
    \/ BeginCycle(w) \/ ReadExisting(w) \/ ReadUnified(w) \/ RefusedAgain(w) \/ SyncLegacy(w)
    \/ ReadPosition(w) \/ WritePosition(w) \/ Project(w) \/ FetchQueued(w) \/ FetchSignal(w)

PanicStep(p) ==
    \/ Panic(p) \/ Disable(p) \/ Review(p)
    \/ ReadPosition(p) \/ WritePosition(p) \/ Project(p)

Next ==
    \/ \E w \in Workers : WorkerStep(w)
    \/ \E p \in Panickers : PanicStep(p)
    \/ \E a \in Crashable : Crash(a)
    \/ \E status \in Statuses : SignalMoves(status)
    \/ SwitchOn
    \/ ReconcilePortfolio

Spec == Init /\ [][Next]_vars

\* run_forever() survives every exception and starts the next cycle.
Fairness == \A w \in Workers \ Crashable : WF_vars(WorkerStep(w))
FairSpec == Spec /\ Fairness

-----------------------------------------------------------------------------
(* Properties *)

TypeOK ==
    /\ signal \in Statuses
    /\ enabled \in BOOLEAN
    /\ position \in Positions
    /\ events \in [Commands -> 0..NoEvent]
    /\ legacy \in Legacies
    /\ desk \in [Actors -> Desks]

\* Whoever overwrites whom, what is open and what was realized are the whole
\* position, and the position is closed exactly when nothing is open.
QuantityAddsUp ==
    /\ position.quantity + position.realized = Whole
    /\ position.status = "CLOSED" <=> position.quantity = 0

\* A lifecycle command is recorded at most once, with one effect.
AppliedOnce ==
    [][\A c \in Commands : events[c] # NoEvent => events'[c] = events[c]]_vars

\* The ledger, which counts a quantity twice when two commands race, never misses
\* one: what the position says it realized is all in the events that were recorded.
Counted(command) == IF events[command] = NoEvent THEN 0 ELSE events[command]
Ledger == Counted("ACTIVE") + Counted("TP1") + Counted("TP2") + Counted("END")
          + Counted("PANIC")
LedgerMissesNothing == position.realized <= Ledger

\* With one worker, whatever panic and the reconciliation interleave and however often
\* the signal was reopened before, a signal that has ended for good leaves its position
\* and its projection closed for good.
Settles == <>[](signal = "END") => <>[](~IsOpen /\ ~LegacyOpen)

\* A signal that regresses, or is delivered late, does not reopen a position
\* (what V9_9_7_UNIFIED_LIFECYCLE_AUTHORITY.md says).
NeverReopens == [][position'.quantity <= position.quantity]_vars

\* It does, but by one path only: a command that was not late when it was read has been
\* overtaken when it is written, by one that the guard against late commands ranks higher.
OnlyOvertakenReopens ==
    [][position'.quantity > position.quantity =>
          \E a \in Actors : At(a, "write") /\ Stale(desk[a].command)]_vars

=============================================================================
