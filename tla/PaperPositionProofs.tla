------------------------ MODULE PaperPositionProofs ------------------------
(***************************************************************************)
(* Theorems about PaperPosition for any number of workers and panickers.   *)
(* The inductive invariant says of every copy of the row, the stored one   *)
(* and those the actors hold, that it adds up and that the ledger covers   *)
(* what it realized; a second one that each stands where the command it    *)
(* names leaves a position, which shows how a position can grow again.     *)
(***************************************************************************)
EXTENDS PaperPosition, TLAPS

AddsUp(row) ==
    /\ row.quantity + row.realized = Whole
    /\ row.status = "CLOSED" <=> row.quantity = 0

Covered(row) == row.realized <= Ledger

CommandSteps == {"existing", "unified", "legacy", "apply", "write"}

\* What an actor holds: a copy of the row as it once was, and, where it works for a
\* command, a command.
Sound(self) ==
    /\ AddsUp(self.item)
    /\ Covered(self.item)
    /\ self.pc \in CommandSteps => self.command \in Commands

IInv ==
    /\ TypeOK
    /\ AddsUp(position)
    /\ Covered(position)
    /\ \A a \in Actors : Sound(desk[a])

-----------------------------------------------------------------------------
LEMMA StatusIsCommand == Statuses \subseteq Commands
  BY PaperAssumption DEF Statuses, Commands

LEMMA TargetType == \A command : Target(command) \in 0..Whole
  BY DEF Target, Whole

LEMMA LedgerType == ASSUME TypeOK PROVE Ledger \in Nat
<1>1. \A c \in Commands : events[c] \in 0..NoEvent
  BY DEF TypeOK
<1>2. \A c \in Commands : Counted(c) \in Nat
  BY <1>1 DEF Counted, NoEvent, Whole
<1>3. QED
  BY <1>2 DEF Ledger, Commands

\* The copy an idle actor is left with.
LEMMA IdleIsSound == ASSUME TypeOK PROVE Idle \in Desks /\ Sound(Idle)
<1>1. Idle \in Desks
  BY DEF Idle, Desks, Steps, NoLegacy, Legacies, Filled, Positions, Whole
<1>2. AddsUp(Filled) /\ Covered(Filled)
  BY LedgerType DEF AddsUp, Covered, Filled, Whole
<1>3. QED
  BY <1>1, <1>2 DEF Sound, Idle, CommandSteps

\* A step that writes neither the position nor its events keeps the invariant when
\* the actor's new desk is sound.
LEMMA DeskMoves ==
    ASSUME IInv, NEW a \in Actors, NEW now \in Desks, Sound(now), Become(a, now),
           UNCHANGED <<position, events>>, signal' \in Statuses, enabled' \in BOOLEAN,
           legacy' \in Legacies
    PROVE  IInv'
<1>1. desk' \in [Actors -> Desks] /\ \A b \in Actors : desk'[b] = IF b = a THEN now ELSE desk[b]
  BY DEF Become, IInv, TypeOK
<1>2. TypeOK'
  BY <1>1 DEF IInv, TypeOK
<1>3. Ledger' = Ledger
  BY DEF Ledger, Counted
<1>4. AddsUp(position)' /\ Covered(position)'
  BY <1>3 DEF IInv, AddsUp, Covered
<1>5. \A b \in Actors : Sound(desk[b])'
  BY <1>1, <1>3 DEF IInv, Sound, AddsUp, Covered
<1>6. QED
  BY <1>2, <1>4, <1>5 DEF IInv

LEMMA DesksStay ==
    ASSUME IInv, UNCHANGED <<desk, position, events>>, signal' \in Statuses,
           enabled' \in BOOLEAN, legacy' \in Legacies
    PROVE  IInv'
<1>1. TypeOK'
  BY DEF IInv, TypeOK
<1>2. Ledger' = Ledger
  BY DEF Ledger, Counted
<1>3. AddsUp(position)' /\ Covered(position)'
  BY <1>2 DEF IInv, AddsUp, Covered
<1>4. \A b \in Actors : Sound(desk[b])'
  BY <1>2 DEF IInv, Sound, AddsUp, Covered
<1>5. QED
  BY <1>1, <1>3, <1>4 DEF IInv

\* An actor goes on with the copy it holds, at another step.
LEMMA Onward ==
    ASSUME IInv, NEW a \in Actors, NEW pc \in Steps,
           pc \in CommandSteps => desk[a].command \in Commands,
           Become(a, [desk[a] EXCEPT !.pc = pc]), Unchanged
    PROVE  IInv'
<1> DEFINE now == [desk[a] EXCEPT !.pc = pc]
<1>1. desk[a] \in Desks /\ Sound(desk[a])
  BY DEF IInv, TypeOK
<1>2. now \in Desks
  BY <1>1 DEF Desks
<1>3. now.item = desk[a].item /\ now.pc = pc
  BY <1>1 DEF Desks
<1>4. Sound(now)
  BY <1>1, <1>3 DEF Sound
<1>5. QED
  BY <1>2, <1>4, DeskMoves DEF Unchanged, IInv, TypeOK

\* An actor drops everything.
LEMMA Leaving ==
    ASSUME IInv, NEW a \in Actors, Leave(a), UNCHANGED <<position, events>>,
           signal' \in Statuses, enabled' \in BOOLEAN, legacy' \in Legacies
    PROVE  IInv'
  BY IdleIsSound, DeskMoves DEF Leave, IInv

\* An actor starts a step with nothing but a command, or nothing at all.
LEMMA Starting ==
    ASSUME IInv, NEW a \in Actors, NEW pc \in Steps, NEW command \in Commands \cup {NoCommand},
           NEW copying \in BOOLEAN, pc \in CommandSteps => command \in Commands,
           Become(a, [Idle EXCEPT !.pc = pc, !.command = command, !.copying = copying]),
           UNCHANGED <<position, events>>,
           signal' \in Statuses, enabled' \in BOOLEAN, legacy' \in Legacies
    PROVE  IInv'
<1> DEFINE now == [Idle EXCEPT !.pc = pc, !.command = command, !.copying = copying]
<1>1. Idle \in Desks /\ Sound(Idle)
  BY IdleIsSound DEF IInv
<1>2. now \in Desks /\ now.item = Idle.item /\ now.pc = pc /\ now.command = command
  BY <1>1 DEF Desks, Idle
<1>3. Sound(now)
  BY <1>1, <1>2 DEF Sound
<1>4. QED
  BY <1>2, <1>3, DeskMoves

LEMMA Pausing ==
    ASSUME IInv, NEW a \in Actors, NEW pc \in Steps \ CommandSteps,
           Become(a, [Idle EXCEPT !.pc = pc]), UNCHANGED <<position, events>>,
           signal' \in Statuses, enabled' \in BOOLEAN, legacy' \in Legacies
    PROVE  IInv'
<1> DEFINE now == [Idle EXCEPT !.pc = pc]
<1>1. Idle \in Desks /\ Sound(Idle)
  BY IdleIsSound DEF IInv
<1>2. now \in Desks /\ now.item = Idle.item /\ now.pc = pc
  BY <1>1 DEF Desks, Idle
<1>3. Sound(now)
  BY <1>1, <1>2 DEF Sound
<1>4. QED
  BY <1>2, <1>3, DeskMoves

LEMMA Applying ==
    ASSUME IInv, NEW a \in Actors, NEW command \in Commands, Unchanged,
           Become(a, [Idle EXCEPT !.pc = "apply", !.command = command])
    PROVE  IInv'
<1> DEFINE now == [Idle EXCEPT !.pc = "apply", !.command = command]
<1>1. Idle \in Desks /\ Sound(Idle)
  BY IdleIsSound DEF IInv
<1>2. now \in Desks /\ now.item = Idle.item /\ now.command = command
  BY <1>1 DEF Desks, Idle, Steps
<1>3. Sound(now)
  BY <1>1, <1>2 DEF Sound
<1>4. QED
  BY <1>2, <1>3, DeskMoves DEF Unchanged, IInv, TypeOK

\* An actor copies the row as it is now.
LEMMA Reading ==
    ASSUME IInv, NEW a \in Actors, NEW self \in Desks, NEW pc \in Steps,
           pc \in CommandSteps => self.command \in Commands,
           Become(a, [self EXCEPT !.pc = pc, !.item = position]), Unchanged
    PROVE  IInv'
<1> DEFINE now == [self EXCEPT !.pc = pc, !.item = position]
<1>1. position \in Positions /\ AddsUp(position) /\ Covered(position)
  BY DEF IInv, TypeOK
<1>2. now \in Desks /\ now.item = position /\ now.pc = pc /\ now.command = self.command
  BY <1>1 DEF Desks
<1>3. Sound(now)
  BY <1>1, <1>2 DEF Sound
<1>4. QED
  BY <1>2, <1>3, DeskMoves DEF Unchanged, IInv, TypeOK

-----------------------------------------------------------------------------
\* What a command makes of a row that adds up also adds up, and what it realizes on
\* top is the quantity it closes.
LEMMA AfterType ==
    ASSUME NEW command \in Commands, NEW item \in Positions, AddsUp(item)
    PROVE  /\ After(command, item) \in Positions
           /\ AddsUp(After(command, item))
           /\ item.quantity - After(command, item).quantity \in 0..Whole
           /\ After(command, item).realized
                = item.realized + (item.quantity - After(command, item).quantity)
<1> DEFINE left == Left(command, item)
           made == After(command, item)
<1>1. /\ item.quantity \in 0..Whole /\ item.realized \in 0..Whole
      /\ item.status \in {"OPEN", "PARTIALLY_CLOSED", "CLOSED"}
      /\ item.quantity + item.realized = Whole
      /\ item.status = "CLOSED" <=> item.quantity = 0
  BY DEF Positions, AddsUp
<1>2. left \in 0..Whole /\ left <= item.quantity
  BY <1>1, TargetType DEF Left, Whole
<1>3. /\ made.quantity = left /\ made.last = command
      /\ made.realized = item.realized + (item.quantity - left)
      /\ made.status = IF left = 0 THEN "CLOSED"
                       ELSE IF left < item.quantity THEN "PARTIALLY_CLOSED" ELSE item.status
  BY DEF After
<1>4. made.realized \in 0..Whole /\ made.quantity + made.realized = Whole
      /\ item.quantity - left \in 0..Whole
  BY <1>1, <1>2, <1>3 DEF Whole
<1>5. made.status \in {"OPEN", "PARTIALLY_CLOSED", "CLOSED"}
      /\ (made.status = "CLOSED" <=> made.quantity = 0)
  BY <1>1, <1>2, <1>3 DEF Whole
<1>6. made \in Positions
  BY <1>2, <1>4, <1>5 DEF After, Positions
<1>7. QED
  BY <1>2, <1>3, <1>4, <1>5, <1>6 DEF AddsUp

\* Recording a new event adds its quantity to the ledger.
LEMMA LedgerGrows ==
    ASSUME TypeOK, NEW c \in Commands, NEW n \in 0..Whole, events[c] = NoEvent,
           events' = [events EXCEPT ![c] = n]
    PROVE  Ledger' = Ledger + n
<1>1. \A d \in Commands : events[d] \in 0..NoEvent
  BY DEF TypeOK
<1>2. \A d \in Commands : events'[d] = IF d = c THEN n ELSE events[d]
  BY DEF TypeOK
<1>3. n # NoEvent
  BY DEF NoEvent, Whole
<1>4. Counted(c) = 0 /\ Counted(c)' = n
  BY <1>2, <1>3 DEF Counted
<1>5. \A d \in Commands \ {c} : Counted(d)' = Counted(d)
  BY <1>2 DEF Counted
<1>6. \A d \in Commands : Counted(d) \in Nat
  BY <1>1 DEF Counted, NoEvent, Whole
<1>a. CASE c = "ACTIVE"
  BY <1>a, <1>4, <1>5, <1>6 DEF Ledger, Commands
<1>b. CASE c = "TP1"
  BY <1>b, <1>4, <1>5, <1>6 DEF Ledger, Commands
<1>c. CASE c = "TP2"
  BY <1>c, <1>4, <1>5, <1>6 DEF Ledger, Commands
<1>d. CASE c = "END"
  BY <1>d, <1>4, <1>5, <1>6 DEF Ledger, Commands
<1>e. CASE c = "PANIC"
  BY <1>e, <1>4, <1>5, <1>6 DEF Ledger, Commands
<1>7. QED
  BY <1>a, <1>b, <1>c, <1>d, <1>e DEF Commands

LEMMA WriteKeeps ==
    ASSUME IInv, NEW a \in Actors, WritePosition(a)
    PROVE  IInv'
<1> DEFINE self == desk[a]
           made == After(self.command, self.item)
           closed == self.item.quantity - made.quantity
<1>1. self \in Desks /\ self.pc = "write" /\ Sound(self)
  BY DEF IInv, TypeOK, WritePosition, WriteOf, At
<1>2. self.command \in Commands /\ self.item \in Positions /\ AddsUp(self.item)
      /\ Covered(self.item)
  BY <1>1 DEF Sound, Desks, CommandSteps
<1>3. /\ made \in Positions /\ AddsUp(made) /\ closed \in 0..Whole
      /\ made.realized = self.item.realized + closed
  BY <1>2, AfterType
<1>4. CASE events[self.command] = NoEvent
  <2> DEFINE now == [self EXCEPT !.pc = "project", !.item = made]
  <2>1. /\ position' = made /\ events' = [events EXCEPT ![self.command] = closed]
        /\ Become(a, now) /\ UNCHANGED <<signal, enabled, legacy>>
    BY <1>4 DEF WritePosition, WriteOf
  <2>2. Ledger' = Ledger + closed /\ Ledger \in Nat
    BY <2>1, <1>2, <1>3, <1>4, LedgerGrows, LedgerType DEF IInv
  <2>3. now \in Desks /\ now.item = made /\ now.pc = "project"
    BY <1>1, <1>3 DEF Desks, Steps
  <2>4. desk' \in [Actors -> Desks]
        /\ \A b \in Actors : desk'[b] = IF b = a THEN now ELSE desk[b]
    BY <2>1, <2>3 DEF Become, IInv, TypeOK
  <2>5. TypeOK'
    <3>a. closed \in 0..NoEvent
      BY <1>3 DEF NoEvent, Whole
    <3>1. events' \in [Commands -> 0..NoEvent]
      BY <2>1, <3>a DEF IInv, TypeOK
    <3>2. QED
      BY <3>1, <2>1, <2>4, <1>3 DEF IInv, TypeOK
  <2>6. made.realized <= Ledger'
    BY <2>2, <1>2, <1>3 DEF Covered, Positions, Whole
  <2>7. AddsUp(position)' /\ Covered(position)'
    BY <2>1, <2>6, <1>3 DEF AddsUp, Covered
  <2>8. ASSUME NEW b \in Actors PROVE Sound(desk[b])'
    <3>1. CASE b = a
      BY <3>1, <2>3, <2>4, <2>6, <1>3 DEF Sound, AddsUp, Covered, CommandSteps
    <3>2. CASE b # a
      <4>1. Sound(desk[b]) /\ desk[b] \in Desks /\ desk'[b] = desk[b]
        BY <3>2, <2>4 DEF IInv, TypeOK
      <4>2. desk[b].item.realized \in 0..Whole
        BY <4>1 DEF Desks, Positions
      <4>3. desk[b].item.realized <= Ledger'
        BY <4>1, <4>2, <2>2, <1>3 DEF Sound, Covered, Whole
      <4>4. QED
        BY <4>1, <4>3 DEF Sound, AddsUp, Covered
    <3>3. QED
      BY <3>1, <3>2
  <2>9. QED
    BY <2>5, <2>7, <2>8 DEF IInv
<1>5. CASE events[self.command] # NoEvent
  BY <1>5, Leaving DEF WritePosition, WriteOf, IInv, TypeOK
<1>6. QED
  BY <1>4, <1>5

LEMMA ProjectKeeps ==
    ASSUME IInv, NEW a \in Actors, Project(a)
    PROVE  IInv'
<1>1. desk[a] \in Desks
  BY DEF IInv, TypeOK
<1>2. legacy' \in Legacies
  BY <1>1 DEF Project, Legacies, Desks, Positions
<1>3. CASE a \in Panickers /\ At(a, "project")
  BY <1>2, <1>3, Pausing DEF Project, IInv, TypeOK, Steps, CommandSteps
<1>4. CASE ~(a \in Panickers /\ At(a, "project"))
  BY <1>2, <1>4, Leaving DEF Project, IInv, TypeOK, Leave
<1>5. QED
  BY <1>3, <1>4

LEMMA ReadKeeps ==
    ASSUME IInv, NEW a \in Actors, ReadPosition(a)
    PROVE  IInv'
<1> DEFINE self == desk[a]
<1>1. self \in Desks /\ self.command \in Commands /\ Unchanged
  BY DEF IInv, TypeOK, Sound, ReadPosition, At, CommandSteps
<1>2. CASE ~NoOp(self.command)
  BY <1>1, <1>2, Reading DEF ReadPosition, Steps, CommandSteps
<1>3. CASE NoOp(self.command) /\ a \in Workers
  BY <1>1, <1>3, Reading DEF ReadPosition, Steps, CommandSteps
<1>4. CASE NoOp(self.command) /\ a \notin Workers
  <2>1. Become(a, [Idle EXCEPT !.pc = "disable"])
    BY <1>4 DEF ReadPosition
  <2>2. QED
    BY <1>1, <2>1, Pausing DEF Unchanged, IInv, TypeOK, Steps, CommandSteps
<1>5. QED
  BY <1>2, <1>3, <1>4

-----------------------------------------------------------------------------
LEMMA InitIInv == Init => IInv
<1> SUFFICES ASSUME Init PROVE IInv
  OBVIOUS
<1>1. \A c \in Commands : events[c] = NoEvent
  BY DEF Init
<1>2. desk \in [Actors -> Desks] /\ \A a \in Actors :
        desk[a].item = Filled /\ desk[a].pc \in {"idle", "queued"}
  <2>a. Idle \in Desks
    BY DEF Idle, Desks, Steps, NoLegacy, Legacies, Filled, Positions, Whole
  <2>1. Idle \in Desks /\ [Idle EXCEPT !.pc = "queued"] \in Desks
    BY <2>a DEF Desks, Steps
  <2>2. CASE desk = [a \in Actors |-> Idle]
    BY <2>1, <2>2 DEF Idle
  <2>3. CASE \E w \in Workers :
               desk = [a \in Actors |-> IF a = w THEN [Idle EXCEPT !.pc = "queued"] ELSE Idle]
    BY <2>1, <2>3 DEF Idle
  <2>4. QED
    BY <2>2, <2>3 DEF Init
<1>3. TypeOK
  BY <1>2 DEF Init, TypeOK, Statuses, Filled, Positions, NoLegacy, Legacies, NoEvent, Whole
<1>4. AddsUp(Filled) /\ Covered(Filled)
  BY <1>3, LedgerType DEF AddsUp, Covered, Filled, Whole
<1>5. QED
  BY <1>2, <1>3, <1>4 DEF Init, IInv, Sound, CommandSteps

LEMMA NextIInv == IInv /\ [Next]_vars => IInv'
<1> SUFFICES ASSUME IInv, [Next]_vars PROVE IInv'
  OBVIOUS
<1> USE DEF IInv
<1>t. signal \in Statuses /\ enabled \in BOOLEAN /\ legacy \in Legacies
      /\ \A a \in Actors : desk[a] \in Desks /\ Sound(desk[a])
  BY DEF TypeOK
<1>a. Workers \subseteq Actors /\ Panickers \subseteq Actors /\ Crashable \subseteq Actors
  BY PaperAssumption DEF Actors
<1>1. ASSUME NEW w \in Workers, BeginCycle(w) PROVE IInv'
  BY <1>1, <1>t, <1>a, StatusIsCommand, Starting DEF BeginCycle, Unchanged, Steps
<1>2. ASSUME NEW w \in Workers, ReadExisting(w) PROVE IInv'
  <2> DEFINE now == [desk[w] EXCEPT !.pc = "unified", !.old = legacy]
  <2>1. now \in Desks /\ now.item = desk[w].item /\ now.command = desk[w].command
    BY <1>t, <1>a DEF Desks, Steps
  <2>2. Sound(now)
    BY <1>2, <2>1, <1>t, <1>a DEF Sound, ReadExisting, At, CommandSteps
  <2>3. QED
    BY <1>2, <2>1, <2>2, <1>t, <1>a, DeskMoves DEF ReadExisting, Unchanged
<1>3. ASSUME NEW w \in Workers, ReadUnified(w) PROVE IInv'
  <2>1. w \in Actors /\ Unchanged /\ desk[w].command \in Commands
    BY <1>3, <1>t, <1>a DEF ReadUnified, At, Sound, CommandSteps
  <2>2. CASE Become(w, [Idle EXCEPT !.pc = "apply", !.command = desk[w].command])
             /\ desk[w].command \in Commands
    BY <2>1, <2>2, Applying
  <2>3. CASE Become(w, [desk[w] EXCEPT !.pc = "legacy"])
    BY <2>1, <2>3, Onward DEF Steps, CommandSteps
  <2>4. CASE Leave(w)
    BY <2>1, <2>4, <1>t, Leaving DEF Unchanged
  <2>5. QED
    BY <1>3, <2>1, <2>2, <2>3, <2>4 DEF ReadUnified
<1>4. ASSUME NEW w \in Workers, RefusedAgain(w) PROVE IInv'
  BY <1>4, <1>t, <1>a, Leaving DEF RefusedAgain, Unchanged
<1>5. ASSUME NEW w \in Workers, SyncLegacy(w) PROVE IInv'
  <2> DEFINE status == desk[w].command
             old == desk[w].old
  <2>a. status \in Commands /\ Target(status) \in 0..Whole /\ 0 \in 0..Whole
    BY <1>5, <1>t, <1>a, TargetType DEF SyncLegacy, At, Sound, CommandSteps, Whole
  <2>1. legacy' \in Legacies
    <3>1. CASE status = "END"
      BY <1>5, <2>a, <3>1 DEF SyncLegacy, Legacies
    <3>2. CASE status # "END" /\ status = old.last
      BY <1>5, <3>2, <1>t DEF SyncLegacy
    <3>3. CASE status # "END" /\ status # old.last
      BY <1>5, <2>a, <3>3, <1>t DEF SyncLegacy, Legacies
    <3>4. QED
      BY <3>1, <3>2, <3>3
  <2>2. QED
    BY <1>5, <2>1, <1>t, <1>a, Leaving DEF SyncLegacy
<1>6. ASSUME NEW a \in Actors, ReadPosition(a) PROVE IInv'
  BY <1>6, ReadKeeps
<1>7. ASSUME NEW a \in Actors, WritePosition(a) PROVE IInv'
  BY <1>7, WriteKeeps
<1>8. ASSUME NEW a \in Actors, Project(a) PROVE IInv'
  BY <1>8, ProjectKeeps
<1>9. ASSUME NEW w \in Workers, FetchQueued(w) PROVE IInv'
  BY <1>9, <1>a, IdleIsSound, Reading DEF FetchQueued, Steps, CommandSteps
<1>10. ASSUME NEW w \in Workers, FetchSignal(w) PROVE IInv'
  <2> DEFINE now == [desk[w] EXCEPT !.pc = "project", !.command = signal]
  <2>1. now \in Desks /\ now.item = desk[w].item /\ now.pc = "project"
    BY <1>t, <1>a, StatusIsCommand DEF Desks, Steps
  <2>2. Sound(now)
    BY <2>1, <1>t, <1>a DEF Sound, CommandSteps
  <2>3. QED
    BY <1>10, <2>1, <2>2, <1>t, <1>a, DeskMoves DEF FetchSignal, Unchanged
<1>11. ASSUME NEW p \in Panickers, Panic(p) PROVE IInv'
  <2>1. p \in Actors /\ UNCHANGED <<position, events>> /\ signal' \in Statuses
        /\ enabled' \in BOOLEAN /\ legacy' \in Legacies
    BY <1>11, <1>t, <1>a DEF Panic, Unchanged
  <2>2. CASE Become(p, [Idle EXCEPT !.pc = "apply", !.command = "PANIC"])
    BY <1>11, <2>1, <2>2, Applying DEF Panic, Commands
  <2>3. CASE Become(p, [Idle EXCEPT !.pc = "disable"])
    BY <2>1, <2>3, Pausing DEF Steps, CommandSteps
  <2>4. QED
    BY <1>11, <2>2, <2>3 DEF Panic
<1>12. ASSUME NEW p \in Panickers, Disable(p) PROVE IInv'
  <2>1. p \in Actors /\ UNCHANGED <<position, events>> /\ signal' \in Statuses
        /\ enabled' \in BOOLEAN /\ legacy' \in Legacies
    BY <1>12, <1>t, <1>a DEF Disable
  <2>2. CASE Become(p, [Idle EXCEPT !.pc = "review"])
    BY <2>1, <2>2, Pausing DEF Steps, CommandSteps
  <2>3. CASE Become(p, Idle)
    BY <2>1, <2>3, Leaving DEF Leave
  <2>4. QED
    BY <1>12, <2>2, <2>3 DEF Disable
<1>13. ASSUME NEW p \in Panickers, Review(p) PROVE IInv'
  BY <1>13, <1>a, IdleIsSound, Reading DEF Review, Steps, CommandSteps
<1>14. ASSUME NEW status \in Statuses, SignalMoves(status) PROVE IInv'
  BY <1>14, <1>t, DesksStay DEF SignalMoves
<1>15. ASSUME SwitchOn PROVE IInv'
  BY <1>15, <1>t, DesksStay DEF SwitchOn
<1>16. ASSUME ReconcilePortfolio PROVE IInv'
  <2>1. legacy' \in Legacies
    BY <1>16, <1>t DEF ReconcilePortfolio, Legacies, Commands
  <2>2. QED
    BY <1>16, <2>1, <1>t, DesksStay DEF ReconcilePortfolio
<1>17. ASSUME NEW a \in Crashable, Crash(a) PROVE IInv'
  BY <1>17, <1>t, <1>a, Leaving DEF Crash, Unchanged
<1>18. CASE UNCHANGED vars
  BY <1>18, <1>t, DesksStay DEF vars
<1> HIDE DEF IInv
<1>19. QED
  BY <1>a, <1>1, <1>2, <1>3, <1>4, <1>5, <1>6, <1>7, <1>8, <1>9, <1>10, <1>11, <1>12, <1>13,
     <1>14, <1>15, <1>16, <1>17, <1>18 DEF Next, WorkerStep, PanicStep

LEMMA PaperInvariant == Spec => []IInv
<1>1. QED
  BY InitIInv, NextIInv, PTL DEF Spec

-----------------------------------------------------------------------------
\* The rows of both tables, the events and what the actors hold have their types,
\* for any number of workers and panicking users.
THEOREM PaperTyping == Spec => []TypeOK
<1>1. IInv => TypeOK
  BY DEF IInv
<1>2. QED
  BY <1>1, PaperInvariant, PTL

\* However many actors write the row they once read, what is open and what was realized
\* are the whole position, which is closed exactly when nothing is open.
THEOREM QuantitiesAddUp == Spec => []QuantityAddsUp
<1>1. IInv => QuantityAddsUp
  BY DEF IInv, AddsUp, QuantityAddsUp
<1>2. QED
  BY <1>1, PaperInvariant, PTL

\* Nothing is realized that the ledger misses, in any race of commands.
THEOREM LedgerCovers == Spec => []LedgerMissesNothing
<1>1. IInv => LedgerMissesNothing
  BY DEF IInv, Covered, LedgerMissesNothing
<1>2. QED
  BY <1>1, PaperInvariant, PTL

\* A lifecycle event, once recorded, stays as it is: no command is recorded twice.
THEOREM EventsAreFinal == Spec => AppliedOnce
<1>1. IInv /\ [Next]_vars =>
        [\A c \in Commands : events[c] # NoEvent => events'[c] = events[c]]_vars
  <2> SUFFICES ASSUME IInv, Next, NEW c \in Commands, events[c] # NoEvent
               PROVE  events'[c] = events[c]
    OBVIOUS
  <2>1. CASE \E a \in Actors : WritePosition(a)
    <3> PICK a \in Actors : WritePosition(a)
      BY <2>1
    <3>1. events \in [Commands -> 0..NoEvent]
      BY DEF IInv, TypeOK
    <3>2. QED
      BY <3>1 DEF WritePosition, WriteOf
  <2>2. CASE ~\E a \in Actors : WritePosition(a)
    <3>1. UNCHANGED events
      BY <2>2 DEF Next, WorkerStep, PanicStep, Actors, BeginCycle, ReadExisting, ReadUnified,
         RefusedAgain, SyncLegacy, ReadPosition, Project, FetchQueued, FetchSignal, Panic,
         Disable, Review, SignalMoves, SwitchOn, ReconcilePortfolio, Crash, Unchanged
    <3>2. QED
      BY <3>1
  <2>3. QED
    BY <2>1, <2>2
<1>2. QED
  BY <1>1, PaperInvariant, PTL DEF Spec, AppliedOnce

-----------------------------------------------------------------------------
(* Positions that grow.                                                    *)

\* A copy of the row stands where the last command that made it leaves a position, ...
Level(row) == row.quantity = Target(row.last)

\* ... and who is about to write has a command that is not late for his copy.
Timely(self) ==
    self.pc = "write" => self.item.last = NoCommand \/ Rank(self.command) >= Rank(self.item.last)

LevelsOK ==
    /\ Level(position)
    /\ \A a \in Actors : Level(desk[a].item) /\ Timely(desk[a])

\* The higher a command ranks, the less it leaves.
LEMMA RanksAndTargets ==
    /\ \A c \in Commands : Rank(c) \in 0..3 /\ Target(c) \in 0..Whole
    /\ \A c, d \in Commands : Rank(c) >= Rank(d) => Target(c) <= Target(d)
    /\ \A c \in Commands : Target(c) <= Target(NoCommand)
BY DEF Commands, Rank, Target, Whole, NoCommand

\* A timely command leaves what it leaves of a whole position, whatever was closed before.
LEMMA TimelyLevels ==
    ASSUME NEW command \in Commands, NEW item \in Positions, Level(item),
           item.last = NoCommand \/ Rank(command) >= Rank(item.last)
    PROVE  Level(After(command, item))
<1>1. Target(command) <= item.quantity
  BY RanksAndTargets DEF Positions, Level
<1>2. Left(command, item) = Target(command)
  BY <1>1, RanksAndTargets DEF Left, Positions, Whole
<1>3. QED
  BY <1>2 DEF Level, After

\* What a step leaves on an actor's desk: what was there, the row as it is, or what he
\* has written; and only a command that is not late for the row goes on to write.
Desk(b) ==
    \/ desk'[b] = desk[b]
    \/ desk'[b].item \in {desk[b].item, position, position', Filled} /\ desk'[b].pc # "write"
    \/ desk'[b].item = position /\ Timely(desk'[b])

LEMMA WorkerDesks ==
    ASSUME IInv, NEW w \in Workers, WorkerStep(w), ~WritePosition(w), NEW b \in Actors
    PROVE  Desk(b)
<1>0. w \in Actors /\ desk \in [Actors -> Desks] /\ desk[w] \in Desks
  BY DEF Actors, IInv, TypeOK
<1>b. ASSUME NEW now, Become(w, now) PROVE desk'[w] = now /\ (b # w => desk'[b] = desk[b])
  BY <1>0, <1>b DEF Become
<1>r. ASSUME NEW now, Become(w, now), now.item \in {desk[w].item, position, Filled},
             now.pc # "write"
      PROVE  Desk(b)
  BY <1>b, <1>r DEF Desk
<1>l. CASE Leave(w)
  BY <1>l, <1>r DEF Leave, Idle
<1>1. CASE BeginCycle(w)
  <2> DEFINE now == [Idle EXCEPT !.pc = "existing", !.command = signal, !.copying = enabled]
  <2>1. Become(w, now) /\ now.item = Filled /\ now.pc = "existing"
    BY <1>1 DEF BeginCycle, Idle
  <2>2. QED
    BY <2>1, <1>r
<1>2. CASE ReadExisting(w)
  <2> DEFINE now == [desk[w] EXCEPT !.pc = "unified", !.old = legacy]
  <2>1. Become(w, now) /\ now.item = desk[w].item /\ now.pc = "unified"
    BY <1>0, <1>2 DEF ReadExisting, Desks
  <2>2. QED
    BY <2>1, <1>r
<1>3. CASE ReadUnified(w)
  <2>1. CASE Become(w, [Idle EXCEPT !.pc = "apply", !.command = desk[w].command])
    <3> DEFINE now == [Idle EXCEPT !.pc = "apply", !.command = desk[w].command]
    <3>1. now.item = Filled /\ now.pc = "apply"
      BY DEF Idle
    <3>2. QED
      BY <2>1, <3>1, <1>r
  <2>2. CASE Become(w, [desk[w] EXCEPT !.pc = "legacy"])
    <3> DEFINE now == [desk[w] EXCEPT !.pc = "legacy"]
    <3>1. now.item = desk[w].item /\ now.pc = "legacy"
      BY <1>0 DEF Desks
    <3>2. QED
      BY <2>2, <3>1, <1>r
  <2>3. QED
    BY <1>3, <1>l, <2>1, <2>2 DEF ReadUnified
<1>4. CASE RefusedAgain(w) \/ SyncLegacy(w)
  BY <1>4, <1>l DEF RefusedAgain, SyncLegacy
<1>5. CASE ReadPosition(w)
  <2>1. PICK pc \in {"write", "project"} :
           /\ Become(w, [desk[w] EXCEPT !.pc = pc, !.item = position])
           /\ pc = "write" => ~NoOp(desk[w].command)
    BY <1>5 DEF ReadPosition
  <2> DEFINE now == [desk[w] EXCEPT !.pc = pc, !.item = position]
  <2>2. now.item = position /\ now.pc = pc /\ now.command = desk[w].command
    BY <1>0 DEF Desks
  <2>3. desk[w].command \in Commands
    BY <1>0, <1>5 DEF ReadPosition, At, IInv, Sound, CommandSteps
  <2>4. position.last \in Commands \cup {NoCommand}
    BY DEF IInv, TypeOK, Positions
  <2>5. Timely(now)
    BY <2>1, <2>2, <2>3, <2>4, RanksAndTargets DEF Timely, NoOp, Stale
  <2>6. desk'[w] = now /\ (b # w => desk'[b] = desk[b])
    BY <2>1, <1>b
  <2>7. QED
    BY <2>2, <2>5, <2>6 DEF Desk
<1>6. CASE Project(w)
  <2>1. Become(w, Idle)
    BY <1>6, PaperAssumption DEF Project
  <2>2. QED
    BY <2>1, <1>l DEF Leave
<1>7. CASE FetchQueued(w)
  <2> DEFINE now == [Idle EXCEPT !.pc = "latest", !.item = position]
  <2>1. Become(w, now) /\ now.item = position /\ now.pc = "latest"
    BY <1>7 DEF FetchQueued, Idle
  <2>2. QED
    BY <2>1, <1>r
<1>8. CASE FetchSignal(w)
  <2> DEFINE now == [desk[w] EXCEPT !.pc = "project", !.command = signal]
  <2>1. Become(w, now) /\ now.item = desk[w].item /\ now.pc = "project"
    BY <1>0, <1>8 DEF FetchSignal, Desks
  <2>2. QED
    BY <2>1, <1>r
<1>9. QED
  BY <1>1, <1>2, <1>3, <1>4, <1>5, <1>6, <1>7, <1>8 DEF WorkerStep

LEMMA PanicDesks ==
    ASSUME IInv, NEW p \in Panickers, PanicStep(p), ~WritePosition(p), NEW b \in Actors
    PROVE  Desk(b)
<1>0. p \in Actors /\ desk \in [Actors -> Desks] /\ desk[p] \in Desks /\ p \notin Workers
  BY PaperAssumption DEF Actors, IInv, TypeOK
<1>b. ASSUME NEW now, Become(p, now) PROVE desk'[p] = now /\ (b # p => desk'[b] = desk[b])
  BY <1>0, <1>b DEF Become
<1>i. ASSUME NEW pc, pc # "write",
             \/ Become(p, [Idle EXCEPT !.pc = pc])
             \/ Become(p, [Idle EXCEPT !.pc = pc, !.command = "PANIC"])
             \/ Become(p, [Idle EXCEPT !.pc = pc, !.item = position])
      PROVE  Desk(b)
  <2>1. PICK now \in {[Idle EXCEPT !.pc = pc], [Idle EXCEPT !.pc = pc, !.command = "PANIC"],
                      [Idle EXCEPT !.pc = pc, !.item = position]} : Become(p, now)
    BY <1>i
  <2>2. now.pc = pc /\ now.item \in {position, Filled}
    BY DEF Idle
  <2>3. QED
    BY <1>b, <1>i, <2>1, <2>2 DEF Desk
<1>l. CASE Become(p, Idle)
  BY <1>b, <1>l DEF Desk, Idle
<1>1. CASE Panic(p)
  BY <1>1, <1>i DEF Panic
<1>2. CASE Disable(p)
  BY <1>2, <1>i, <1>l DEF Disable
<1>3. CASE Review(p)
  BY <1>3, <1>i DEF Review
<1>4. CASE Project(p)
  BY <1>4, <1>i, <1>l DEF Project
<1>5. CASE ReadPosition(p)
  <2>1. CASE Become(p, [Idle EXCEPT !.pc = "disable"])
    BY <2>1, <1>i
  <2>2. CASE /\ Become(p, [desk[p] EXCEPT !.pc = "write", !.item = position])
             /\ ~NoOp(desk[p].command)
    <3> DEFINE now == [desk[p] EXCEPT !.pc = "write", !.item = position]
    <3>1. now.item = position /\ now.command = desk[p].command
      BY <1>0 DEF Desks
    <3>2. desk[p].command \in Commands
      BY <1>0, <1>5 DEF ReadPosition, At, IInv, Sound, CommandSteps
    <3>3. position.last \in Commands \cup {NoCommand}
      BY DEF IInv, TypeOK, Positions
    <3>4. Timely(now)
      BY <2>2, <3>1, <3>2, <3>3, RanksAndTargets DEF Timely, NoOp, Stale
    <3>5. desk'[p] = now /\ (b # p => desk'[b] = desk[b])
      BY <2>2, <1>b
    <3>6. QED
      BY <3>1, <3>4, <3>5 DEF Desk
  <2>3. QED
    BY <1>0, <1>5, <2>1, <2>2 DEF ReadPosition
<1>6. QED
  BY <1>1, <1>2, <1>3, <1>4, <1>5 DEF PanicStep

\* A write leaves the position where its command says.
LEMMA WriteLevels ==
    ASSUME IInv, LevelsOK, NEW a \in Actors, WritePosition(a)
    PROVE  /\ Level(position') /\ \A b \in Actors : Desk(b)
           /\ position' = position \/ position'.last = desk[a].command
<1> DEFINE self == desk[a]
           made == After(self.command, self.item)
           now == [self EXCEPT !.pc = "project", !.item = made]
<1>1. self \in Desks /\ self.pc = "write" /\ desk \in [Actors -> Desks]
  BY DEF IInv, TypeOK, WritePosition, WriteOf, At
<1>2. self.command \in Commands /\ self.item \in Positions
  BY <1>1 DEF IInv, Sound, Desks, CommandSteps
<1>3. Level(made) /\ made.last = self.command
  BY <1>1, <1>2, TimelyLevels DEF LevelsOK, Timely, After
<1>4. CASE Leave(a) /\ UNCHANGED position
  BY <1>1, <1>4 DEF Leave, Become, Desk, Idle, LevelsOK
<1>5. CASE Become(a, now) /\ position' = made
  <2>1. now.item = made /\ now.pc = "project"
    BY <1>1 DEF Desks
  <2>2. desk'[a] = now /\ \A b \in Actors : b # a => desk'[b] = desk[b]
    BY <1>1, <1>5 DEF Become
  <2>3. \A b \in Actors : Desk(b)
    BY <1>5, <2>1, <2>2 DEF Desk
  <2>4. QED
    BY <1>3, <1>5, <2>3
<1>6. QED
  BY <1>4, <1>5 DEF WritePosition, WriteOf

\* Only a write touches the position, and nobody puts anything else on a desk.
LEMMA StepLevels ==
    ASSUME IInv, LevelsOK, [Next]_vars
    PROVE  /\ Level(position') /\ \A b \in Actors : Desk(b)
           /\ \/ position' = position
              \/ \E a \in Actors : WritePosition(a) /\ position'.last = desk[a].command
<1>1. CASE \E a \in Actors : WritePosition(a)
  BY <1>1, WriteLevels
<1>2. CASE ~\E a \in Actors : WritePosition(a)
  <2>0. Workers \subseteq Actors /\ Panickers \subseteq Actors /\ Crashable \subseteq Actors
    BY PaperAssumption DEF Actors
  <2>1. ASSUME NEW b \in Actors PROVE Desk(b)
    <3>1. ASSUME NEW a \in Actors, Leave(a) PROVE Desk(b)
      BY <3>1 DEF Leave, Become, Desk, IInv, TypeOK, Idle
    <3>2. CASE UNCHANGED desk
      BY <3>2 DEF Desk
    <3>3. QED
      BY <1>2, <2>0, <3>1, <3>2, WorkerDesks, PanicDesks
      DEF Next, Crash, SignalMoves, SwitchOn, ReconcilePortfolio, vars
  <2>2. position' = position
    BY <1>2, <2>0 DEF Next, WorkerStep, PanicStep, BeginCycle, ReadExisting, ReadUnified,
       RefusedAgain, SyncLegacy, ReadPosition, Project, FetchQueued, FetchSignal, Panic,
       Disable, Review, SignalMoves, SwitchOn, ReconcilePortfolio, Crash, Unchanged, vars
  <2>3. QED
    BY <2>1, <2>2 DEF LevelsOK
<1>3. QED
  BY <1>1, <1>2

LEMMA LevelsInvariance == Spec => []LevelsOK
<1>1. Level(Filled)
  BY DEF Level, Filled, Target, Whole, NoCommand
<1>2. Init => LevelsOK
  <2> SUFFICES ASSUME Init PROVE LevelsOK
    OBVIOUS
  <2>1. \A a \in Actors : desk[a].item = Filled /\ desk[a].pc # "write"
    BY DEF Init, Idle
  <2>2. QED
    BY <1>1, <2>1 DEF Init, LevelsOK, Timely
<1>3. IInv /\ LevelsOK /\ [Next]_vars => LevelsOK'
  <2> SUFFICES ASSUME IInv, LevelsOK, [Next]_vars PROVE LevelsOK'
    OBVIOUS
  <2>1. Level(position') /\ \A b \in Actors : Desk(b)
    BY StepLevels
  <2>2. \A b \in Actors : Level(desk'[b].item) /\ Timely(desk'[b])
    BY <1>1, <2>1 DEF LevelsOK, Desk, Timely
  <2>3. QED
    BY <2>1, <2>2 DEF LevelsOK
<1>4. QED
  BY <1>2, <1>3, PaperInvariant, PTL DEF Spec

\* The row always stands where the command it names leaves a position, whoever has
\* overwritten whom: no race leaves a quantity that no command asked for.
THEOREM LevelOfLast == Spec => [](position.quantity = Target(position.last))
<1>1. LevelsOK => position.quantity = Target(position.last)
  BY DEF LevelsOK, Level
<1>2. QED
  BY <1>1, LevelsInvariance, PTL

\* So a position grows only when a command that was in time when its row was read is
\* written over a command that ranks higher: asked again at the write, the guard against
\* late commands would have refused it.
THEOREM OvertakenReopen == Spec => OnlyOvertakenReopens
<1>1. IInv /\ LevelsOK /\ [Next]_vars =>
        [position'.quantity > position.quantity =>
            \E a \in Actors : At(a, "write") /\ Stale(desk[a].command)]_vars
  <2> SUFFICES ASSUME IInv, LevelsOK, Next, position'.quantity > position.quantity
               PROVE  \E a \in Actors : At(a, "write") /\ Stale(desk[a].command)
    OBVIOUS
  <2>1. position \in Positions
    BY DEF IInv, TypeOK
  <2>2. position' # position
    BY <2>1 DEF Positions, Whole
  <2>3. PICK a \in Actors : WritePosition(a) /\ position'.last = desk[a].command
    BY <2>2, StepLevels
  <2>4. At(a, "write") /\ desk[a].command \in Commands
    BY <2>3 DEF WritePosition, WriteOf, IInv, Sound, At, CommandSteps
  <2>5. Target(desk[a].command) > Target(position.last)
    BY <2>3, StepLevels DEF LevelsOK, Level
  <2>6. position.last \in Commands \cup {NoCommand}
    BY <2>1 DEF Positions
  <2>7. position.last # NoCommand /\ ~(Rank(desk[a].command) >= Rank(position.last))
    <3>1. Target(desk[a].command) \in 0..Whole /\ Target(position.last) \in 0..Whole
      BY TargetType
    <3>2. ~(Target(desk[a].command) <= Target(position.last))
      BY <2>5, <3>1 DEF Whole
    <3>3. position.last # NoCommand
      BY <2>4, <3>2, RanksAndTargets
    <3>4. QED
      BY <2>4, <2>6, <3>2, <3>3, RanksAndTargets
  <2>8. Rank(desk[a].command) < Rank(position.last)
    BY <2>4, <2>6, <2>7, RanksAndTargets
  <2>9. QED
    BY <2>4, <2>7, <2>8 DEF Stale
<1>2. QED
  BY <1>1, PaperInvariant, LevelsInvariance, PTL DEF Spec, OnlyOvertakenReopens

=============================================================================
