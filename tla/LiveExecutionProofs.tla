------------------------ MODULE LiveExecutionProofs ------------------------
(***************************************************************************)
(* Proofs about LiveExecution, for any number of executions, workers,      *)
(* attempts and trades.                                                    *)
(***************************************************************************)
EXTENDS LiveExecution, TLAPS

-----------------------------------------------------------------------------
(* The inductive invariant.                                                *)

\* p has won a row and its attempt has not been answered.
Sending(p) == local[p].pc \in {"won", "begun", "placing"}

\* Nothing was sent for e, or all of it came back refused.
Clean(e) == \A n \in AttemptNumbers : fate[e][n] \in {"UNSENT", "REFUSED"}

Early == {"ABSENT", "CREATED", "VALIDATED", "QUEUED"}

\* An execution has at most one sender ...
OneSender ==
    \A p, q \in Workers : Sending(p) /\ Sending(q) /\ Job(p) = Job(q) => p = q

\* ... only after its row was claimed, before the row says that nothing is going
\* on, and with a clean record of attempts.
SenderOK(p) ==
    /\ local[p].pc # "idle" => Job(p) \in Executions
    /\ local[p].pc = "queued" => local[p].source \in {"QUEUED", "RETRY_WAIT"}
    /\ local[p].pc = "validated" => local[p].source = "QUEUED"
    /\ local[p].pc = "created" => local[p].source = "QUEUED"
    /\ Sending(p) =>
          /\ state[Job(p)] \notin Early \cup {"RETRY_WAIT", "FAILED"}
          /\ state[Job(p)] = "REJECTED" => market[Job(p)] = "REJECTED"
    /\ local[p].pc \in {"begun", "placing"} =>
          local[p].attempt = attempts[Job(p)] /\ local[p].attempt >= 1
    /\ local[p].pc \in {"won", "begun"} => Clean(Job(p))
    /\ local[p].pc = "won" => attempts[Job(p)] < MaxAttempts

\* What a worker remembers of an order stays true of it.
SeenOK(p) ==
    Job(p) \in Executions =>
        /\ local[p].seen.executed <= filled[Job(p)]
        /\ local[p].seen.status \in {"FILLED", "CANCELLED", "REJECTED"} =>
              market[Job(p)] = local[p].seen.status

\* So does what it has decided.
GoalOK(p) ==
    /\ local[p].pc \in {"lookup", "fills", "settle"} =>
          /\ local[p].source \in {"RECONCILING", "ACKNOWLEDGED", "PARTIALLY_FILLED"}
          /\ local[p].source = "PARTIALLY_FILLED" => Executed(Job(p)) > 0
    /\ local[p].pc = "settle" =>
          /\ local[p].goal \in {"ACKNOWLEDGED", "PARTIALLY_FILLED", "FILLED", "CANCELLED",
                                "REJECTED", "UNKNOWN", "RECOVERY_REQUIRED"}
          /\ local[p].goal \in {"FILLED", "CANCELLED", "REJECTED"} =>
                market[Job(p)] = local[p].goal
          /\ local[p].goal = "PARTIALLY_FILLED" => Executed(Job(p)) > 0
          /\ local[p].source = "PARTIALLY_FILLED" =>
                local[p].goal \notin {"ACKNOWLEDGED"}

WorkerInv == \A p \in Workers : SenderOK(p) /\ SeenOK(p) /\ GoalOK(p)

\* Only the last attempt can have become, or become, an order.
AttemptOK(e) ==
    /\ \A n \in AttemptNumbers :
          /\ n > attempts[e] => fate[e][n] = "UNSENT"
          /\ n < attempts[e] => fate[e][n] \in {"UNSENT", "REFUSED"}
    /\ state[e] \in Early => attempts[e] = 0
    /\ state[e] = "RETRY_WAIT" => attempts[e] < MaxAttempts
    /\ state[e] \in {"RETRY_WAIT", "FAILED"} => Clean(e)
    /\ state[e] = "REJECTED" => Clean(e) \/ market[e] = "REJECTED"

MarketOK(e) ==
    /\ market[e] \in {"NONE", "OPEN", "FILLED", "CANCELLED", "REJECTED"}
    /\ market[e] = "NONE" <=> \A n \in AttemptNumbers : fate[e][n] # "ACCEPTED"
    /\ market[e] = "NONE" => filled[e] = 0
    /\ market[e] = "FILLED" <=> filled[e] = Quantity
    /\ market[e] = "REJECTED" => filled[e] \in FillsBeforeRejection

\* The states that speak of the exchange or of the ledger say what is true.
RowOK(e) ==
    /\ state[e] = "PARTIALLY_FILLED" => Executed(e) > 0
    /\ state[e] = "FILLED" => market[e] = "FILLED"
    /\ state[e] = "CANCELLED" => market[e] \in {"CANCELLED", "FILLED"}

ExecutionInv == \A e \in Executions : AttemptOK(e) /\ MarketOK(e) /\ RowOK(e)

IInv ==
    /\ TypeOK
    /\ OneSender
    /\ WorkerInv
    /\ ExecutionInv
    /\ LedgerIsHonest

-----------------------------------------------------------------------------
(* Lemmas about the operators the actions are made of.                     *)

\* A worker at rest, and the order it does not remember, are well typed.
LEMMA IdleTyped ==
  /\ Idle \in Locals /\ NoOrder \in Orders
  /\ Idle.pc = "idle" /\ Idle.job = NoExecution /\ Idle.source = "QUEUED"
  /\ Idle.seen = NoOrder /\ Idle.goal = "UNKNOWN" /\ Idle.attempt = 0
  /\ NoOrder.status = "NONE" /\ NoOrder.executed = 0
  BY BoundsAssumption DEF Idle, Locals, Steps, States, Orders, NoOrder

\* One worker moves: it gets a new record and the others keep theirs.
LEMMA LocalTyped ==
  ASSUME local \in [Workers -> Locals], NEW p \in Workers, NEW r \in Locals,
         local' = [local EXCEPT ![p] = r]
  PROVE  /\ local' \in [Workers -> Locals]
         /\ local'[p] = r
         /\ \A q \in Workers : q # p => local'[q] = local[q]
  OBVIOUS

\* Goto changes a worker's place and nothing it remembers.
LEMMA GotoTyped ==
  ASSUME local \in [Workers -> Locals], NEW p \in Workers, NEW step \in Steps, Goto(p, step)
  PROVE  /\ local' \in [Workers -> Locals]
         /\ local'[p] = [local[p] EXCEPT !.pc = step]
         /\ local'[p].pc = step /\ local'[p].job = local[p].job
         /\ local'[p].attempt = local[p].attempt /\ local'[p].source = local[p].source
         /\ local'[p].seen = local[p].seen /\ local'[p].goal = local[p].goal
         /\ \A q \in Workers : q # p => local'[q] = local[q]
<1>1. [local[p] EXCEPT !.pc = step] \in Locals  BY DEF Locals
<1>2. /\ local' \in [Workers -> Locals]
      /\ local'[p] = [local[p] EXCEPT !.pc = step]
      /\ \A q \in Workers : q # p => local'[q] = local[q]
  BY <1>1, LocalTyped DEF Goto
<1>3. local[p] \in Locals  OBVIOUS
<1> QED  BY <1>2, <1>3 DEF Locals

\* A compare-and-set either finds the state it expects and moves it, or changes
\* nothing.
LEMMA TransitionCases ==
  ASSUME TypeOK, NEW e \in Executions, NEW from, NEW to \in States, NEW learned \in BOOLEAN,
         Transition(e, from, to, learned)
  PROVE  /\ state' \in [Executions -> States \cup {"ABSENT"}]
         /\ orderId' \in [Executions -> BOOLEAN]
         /\ state[e] = from => state' = [state EXCEPT ![e] = to]
         /\ state[e] # from => UNCHANGED <<state, orderId>>
  BY DEF TypeOK, Transition

\* What the exchange shows is an order, and says of its end what is true.
LEMMA ShownFacts ==
  ASSUME TypeOK, NEW e \in Executions, MarketOK(e), market[e] # "NONE"
  PROVE  /\ Shown(e) \in Orders
         /\ [Shown(e) EXCEPT !.status = "UNLISTED"] \in Orders
         /\ [Shown(e) EXCEPT !.status = "UNLISTED"].status = "UNLISTED"
         /\ [Shown(e) EXCEPT !.status = "UNLISTED"].executed = filled[e]
         /\ Shown(e).executed = filled[e]
         /\ Shown(e).status \in {"FILLED", "CANCELLED", "REJECTED"} => market[e] = Shown(e).status
  BY DEF TypeOK, MarketOK, Shown, Orders, OrderStatuses

\* recover() concludes only on the strength of the order or of the ledger.
LEMMA TargetFacts ==
  ASSUME NEW order \in Orders, NEW quantity \in Nat, NEW doubt \in BOOLEAN
  PROVE  LET target == RecoverTarget(order, quantity, doubt) IN
         /\ target \in {"ACKNOWLEDGED", "PARTIALLY_FILLED", "FILLED", "CANCELLED",
                        "REJECTED", "UNKNOWN", "RECOVERY_REQUIRED"}
         /\ target = "FILLED" => order.status = "FILLED" \/ quantity >= Quantity
         /\ target \in {"CANCELLED", "REJECTED"} => order.status = target
         /\ target = "PARTIALLY_FILLED" => quantity > 0
         /\ target = "ACKNOWLEDGED" => quantity = 0
  BY BoundsAssumption DEF RecoverTarget, Orders, NoOrder, OrderStatuses

\* Ingesting trades, or a summary, that the exchange has really executed keeps
\* the ledger honest and never lowers a quantity.
LEMMA IngestFacts ==
  ASSUME TypeOK, LedgerIsHonest, NEW e \in Executions,
         NEW listed \in 0..filled[e], NEW total \in 0..filled[e],
         IngestFills(e, listed, total)
  PROVE  /\ summary' \in [Executions -> 0..Quantity]
         /\ detail' \in [Executions -> 0..Quantity]
         /\ posted' \in [Executions -> Nat]
         /\ posted' = [x \in Executions |-> IF state[x] \in {"REJECTED", "FAILED"}
                                              THEN 0 ELSE summary'[x] + detail'[x]]
         /\ \A x \in Executions :
               /\ summary'[x] + detail'[x] <= filled[x]
               /\ summary'[x] = 0 \/ detail'[x] = 0
               /\ summary'[x] + detail'[x] >= summary[x] + detail[x]
         /\ UNCHANGED row
<1> USE BoundsAssumption
<1>1. /\ summary' \in [Executions -> 0..Quantity]
      /\ detail' \in [Executions -> 0..Quantity]
  BY DEF TypeOK, IngestFills, Covers, LacksFills
<1>2. \A x \in Executions :
         /\ summary'[x] + detail'[x] <= filled[x]
         /\ summary'[x] = 0 \/ detail'[x] = 0
         /\ summary'[x] + detail'[x] >= summary[x] + detail[x]
  BY DEF TypeOK, LedgerIsHonest, Executed, IngestFills, Covers, LacksFills
<1>3. posted' = [x \in Executions |-> IF state[x] \in {"REJECTED", "FAILED"}
                                        THEN 0 ELSE summary'[x] + detail'[x]]
  BY DEF IngestFills, Counted, Executed, row
<1>4. posted' \in [Executions -> Nat]  BY <1>1, <1>3
<1> QED  BY <1>1, <1>2, <1>3, <1>4 DEF IngestFills

\* An order that is being placed, or exists, is the only one.
LEMMA OnlyOne ==
  ASSUME TypeOK, NEW e \in Executions, AttemptOK(e),
         NEW m \in AttemptNumbers, NEW n \in AttemptNumbers,
         fate[e][m] \in {"ON_WIRE", "ACCEPTED", "LOST"}, fate[e][n] \in {"ON_WIRE", "ACCEPTED", "LOST"}
  PROVE  m = n
<1>1. attempts[e] \in Nat  BY BoundsAssumption DEF TypeOK
<1>2. m \in Nat /\ n \in Nat  BY BoundsAssumption DEF AttemptNumbers
<1>3. ~(m < attempts[e]) /\ ~(m > attempts[e])  BY DEF AttemptOK
<1>4. ~(n < attempts[e]) /\ ~(n > attempts[e])  BY DEF AttemptOK
<1> QED  BY <1>1, <1>2, <1>3, <1>4

-----------------------------------------------------------------------------
(* Steps that keep the invariant.                                          *)

\* The invariant holds at first.
LEMMA InitInv == Init => IInv
  BY RolesAssumption, BoundsAssumption
  DEF Init, IInv, TypeOK, OneSender, WorkerInv, SenderOK, SeenOK, GoalOK, ExecutionInv,
      AttemptOK, MarketOK, RowOK, LedgerIsHonest,
      Sending, Clean, Early, Executed, Job, Idle, NoOrder, Locals, Orders, Steps, States,
      OrderStatuses, Fates, AttemptNumbers

\* Only worker p moves, and what the invariant asks of it holds afterwards; when
\* it becomes the sender of an execution, nobody else is.
Moves(p) ==
    /\ local' \in [Workers -> Locals]
    /\ \A q \in Workers : q # p => local'[q] = local[q]
    /\ todo' \in [Workers -> SUBSET Executions]
    /\ SenderOK(p)' /\ SeenOK(p)' /\ GoalOK(p)'
    /\ Sending(p)' => \A q \in Workers : q # p /\ Sending(q) => Job(q) # Job(p)'

\* At most one sender remains.
LEMMA MovesOneSender ==
  ASSUME OneSender, NEW p \in Workers, Moves(p)
  PROVE  OneSender'
<1> SUFFICES ASSUME NEW q \in Workers, NEW s \in Workers,
                    Sending(q)', Sending(s)', Job(q)' = Job(s)', q # s
             PROVE  FALSE
  BY DEF OneSender
<1>1. CASE q = p
  <2>1. Sending(s) /\ Job(s) = Job(s)'  BY <1>1 DEF Moves, Sending, Job
  <2> QED  BY <1>1, <2>1 DEF Moves
<1>2. CASE s = p
  <2>1. Sending(q) /\ Job(q) = Job(q)'  BY <1>2 DEF Moves, Sending, Job
  <2> QED  BY <1>2, <2>1 DEF Moves
<1>3. CASE q # p /\ s # p
  BY <1>3 DEF Moves, OneSender, Sending, Job
<1> QED  BY <1>1, <1>2, <1>3

\* A worker moves, and the ledger may learn more; the row and the exchange are
\* as they were.
LEMMA LearnInv ==
  ASSUME IInv, NEW p \in Workers, Moves(p), UNCHANGED row, UNCHANGED exchange,
         summary' \in [Executions -> 0..Quantity], detail' \in [Executions -> 0..Quantity],
         posted' \in [Executions -> Nat],
         \A x \in Executions :
            /\ summary'[x] + detail'[x] <= filled[x]
            /\ summary'[x] = 0 \/ detail'[x] = 0
            /\ summary'[x] + detail'[x] >= summary[x] + detail[x]
  PROVE  IInv'
<1> USE DEF IInv, row, exchange
<1>1. TypeOK'  BY DEF TypeOK, Moves
<1>2. \A x \in Executions : Executed(x) > 0 => Executed(x)' > 0
  BY BoundsAssumption DEF Executed, TypeOK
<1>3. WorkerInv'
  <2> SUFFICES ASSUME NEW q \in Workers, q # p
               PROVE  (SenderOK(q) /\ SeenOK(q) /\ GoalOK(q))'
    BY DEF WorkerInv, Moves
  <2>1. local'[q] = local[q]  BY DEF Moves
  <2>2. SenderOK(q) /\ SeenOK(q) /\ GoalOK(q)  BY DEF WorkerInv
  <2>3. SenderOK(q)'  BY <2>1, <2>2 DEF SenderOK, Sending, Clean, Job
  <2>4. SeenOK(q)'  BY <2>1, <2>2 DEF SeenOK, Job
  <2>5. local[q].pc \in {"lookup", "fills", "settle"} => Job(q) \in Executions
    BY <2>2 DEF SenderOK
  <2>6. GoalOK(q)'  BY <1>2, <2>1, <2>2, <2>5 DEF GoalOK, Job
  <2> QED  BY <2>3, <2>4, <2>6
<1>4. ExecutionInv'
  <2> SUFFICES ASSUME NEW x \in Executions  PROVE (AttemptOK(x) /\ MarketOK(x) /\ RowOK(x))'
    BY DEF ExecutionInv
  <2>1. AttemptOK(x) /\ MarketOK(x) /\ RowOK(x)  BY DEF ExecutionInv
  <2>2. AttemptOK(x)' /\ MarketOK(x)'  BY <2>1 DEF AttemptOK, MarketOK, Clean
  <2>3. RowOK(x)'  BY <1>2, <2>1 DEF RowOK
  <2> QED  BY <2>2, <2>3
<1>5. LedgerIsHonest'  BY DEF LedgerIsHonest, Executed
<1> QED  BY <1>1, <1>3, <1>4, <1>5, MovesOneSender

\* Row e may move to a state which tells the truth.
Sound(p, e, to) ==
    /\ to \in Early => attempts[e] = 0
    /\ to \in Early \cup {"RETRY_WAIT", "FAILED"} \/ (to = "REJECTED" /\ market[e] # "REJECTED") =>
          \A q \in Workers : q # p /\ Sending(q) => Job(q) # e
    /\ to \in {"RETRY_WAIT", "FAILED"} => Clean(e)
    /\ to = "RETRY_WAIT" => attempts[e] < MaxAttempts
    /\ to = "REJECTED" => Clean(e) \/ market[e] = "REJECTED"
    /\ to = "PARTIALLY_FILLED" => Executed(e) > 0
    /\ to = "FILLED" => market[e] = "FILLED"
    /\ to = "CANCELLED" => market[e] \in {"CANCELLED", "FILLED"}

\* A worker moves and moves one row on; everything else is as it was.
LEMMA RowMoveInv ==
  ASSUME IInv, NEW p \in Workers, Moves(p), NEW e \in Executions, NEW to \in States,
         state' = [state EXCEPT ![e] = to], orderId' \in [Executions -> BOOLEAN],
         Sound(p, e, to),
         UNCHANGED attempts, UNCHANGED ledger, UNCHANGED exchange
  PROVE  IInv'
<1> USE DEF IInv, ledger, exchange
<1>1. /\ state' \in [Executions -> States \cup {"ABSENT"}]
      /\ \A x \in Executions : state'[x] = IF x = e THEN to ELSE state[x]
  BY DEF TypeOK
<1>2. TypeOK'  BY <1>1 DEF TypeOK, Moves
<1>3. WorkerInv'
  <2> SUFFICES ASSUME NEW q \in Workers, q # p
               PROVE  (SenderOK(q) /\ SeenOK(q) /\ GoalOK(q))'
    BY DEF WorkerInv, Moves
  <2>1. local'[q] = local[q]  BY DEF Moves
  <2>2. SenderOK(q) /\ SeenOK(q) /\ GoalOK(q)  BY DEF WorkerInv
  <2>3. Sending(q) => Job(q) \in Executions  BY <2>2 DEF SenderOK, Sending
  <2>4. Sending(q) => /\ state'[Job(q)] \notin Early \cup {"RETRY_WAIT", "FAILED"}
                      /\ state'[Job(q)] = "REJECTED" => market[Job(q)] = "REJECTED"
    BY <1>1, <2>2, <2>3 DEF SenderOK, Sound
  <2>5. SenderOK(q)'  BY <2>1, <2>2, <2>4 DEF SenderOK, Sending, Clean, Job
  <2>6. SeenOK(q)' /\ GoalOK(q)'  BY <2>1, <2>2 DEF SeenOK, GoalOK, Job, Executed
  <2> QED  BY <2>5, <2>6
<1>4. ExecutionInv'
  <2> SUFFICES ASSUME NEW x \in Executions  PROVE (AttemptOK(x) /\ MarketOK(x) /\ RowOK(x))'
    BY DEF ExecutionInv
  <2>1. AttemptOK(x) /\ MarketOK(x) /\ RowOK(x)  BY DEF ExecutionInv
  <2>2. AttemptOK(x)'  BY <1>1, <2>1 DEF AttemptOK, Clean, Sound
  <2>3. MarketOK(x)'  BY <2>1 DEF MarketOK
  <2>4. RowOK(x)'  BY <1>1, <2>1 DEF RowOK, Executed, Sound
  <2> QED  BY <2>2, <2>3, <2>4
<1>5. LedgerIsHonest'  BY DEF LedgerIsHonest, Executed
<1> QED  BY <1>2, <1>3, <1>4, <1>5, MovesOneSender

\* A worker moves and nothing else changes.
LEMMA LocalMoveInv ==
  ASSUME IInv, NEW p \in Workers, Moves(p), UNCHANGED row, UNCHANGED ledger, UNCHANGED exchange
  PROVE  IInv'
<1>1. /\ summary' \in [Executions -> 0..Quantity] /\ detail' \in [Executions -> 0..Quantity]
      /\ posted' \in [Executions -> Nat]
  BY DEF IInv, TypeOK, ledger
<1>2. \A x \in Executions :
         /\ summary'[x] + detail'[x] <= filled[x]
         /\ summary'[x] = 0 \/ detail'[x] = 0
         /\ summary'[x] + detail'[x] >= summary[x] + detail[x]
  BY BoundsAssumption DEF IInv, TypeOK, LedgerIsHonest, Executed, ledger
<1> QED  BY <1>1, <1>2, LearnInv

\* Returning is always such a move.
LEMMA ReturnMoves ==
  ASSUME IInv, NEW p \in Workers, Return(p), todo' \in [Workers -> SUBSET Executions]
  PROVE  Moves(p)
<1>1. /\ local' \in [Workers -> Locals]
      /\ local'[p] = Idle
      /\ \A q \in Workers : q # p => local'[q] = local[q]
  BY IdleTyped, LocalTyped DEF IInv, TypeOK, Return
<1>2. /\ local'[p].pc = "idle" /\ Job(p)' \notin Executions
  BY <1>1, IdleTyped, BoundsAssumption DEF Job
<1>3. ~Sending(p)'  BY <1>2 DEF Sending
<1>4. SenderOK(p)' /\ SeenOK(p)' /\ GoalOK(p)'
  BY <1>2 DEF SenderOK, Sending, SeenOK, GoalOK
<1> QED  BY <1>1, <1>3, <1>4 DEF Moves

-----------------------------------------------------------------------------
(* submit()                                                                *)

\* A row is inserted, or found still CREATED.
LEMMA SubmitNewInv ==
  ASSUME IInv, NEW p \in Workers, NEW e \in Executions, SubmitNew(p, e)
  PROVE  IInv'
<1> DEFINE r == [Idle EXCEPT !.pc = "created", !.job = e]
<1>1. /\ r \in Locals /\ r.pc = "created" /\ r.job = e /\ r.source = "QUEUED" /\ r.seen = NoOrder
  BY IdleTyped DEF Locals, Steps
<1>2. /\ local' \in [Workers -> Locals] /\ local'[p] = r
      /\ \A q \in Workers : q # p => local'[q] = local[q]
  BY <1>1, LocalTyped DEF IInv, TypeOK, SubmitNew
<1>3. /\ state' = [state EXCEPT ![e] = "CREATED"] /\ state[e] \in {"ABSENT", "CREATED"}
      /\ UNCHANGED <<orderId, attempts, ledger, todo, exchange>>
  BY DEF SubmitNew
<1>4. AttemptOK(e)  BY DEF IInv, ExecutionInv
<1>5. filled'[e] \in Nat  BY <1>3, BoundsAssumption DEF IInv, TypeOK, exchange
<1>6. SenderOK(p)' /\ GoalOK(p)' /\ ~Sending(p)'
  BY <1>1, <1>2 DEF SenderOK, GoalOK, Sending, Job
<1>7. SeenOK(p)'  BY <1>1, <1>2, <1>5, IdleTyped DEF SeenOK, Job
<1>8. Moves(p)  BY <1>2, <1>3, <1>6, <1>7 DEF Moves, IInv, TypeOK
<1>9. \A q \in Workers : Sending(q) => Job(q) # e
  BY <1>3 DEF IInv, WorkerInv, SenderOK, Early
<1>10. Sound(p, e, "CREATED")  BY <1>3, <1>4, <1>9 DEF Sound, AttemptOK, Early
<1>11. "CREATED" \in States /\ orderId' \in [Executions -> BOOLEAN]
  BY <1>3 DEF States, IInv, TypeOK
<1> QED  BY <1>3, <1>8, <1>10, <1>11, RowMoveInv

\* A row waiting for a retry is picked up.
LEMMA SubmitRetryInv ==
  ASSUME IInv, NEW p \in Workers, NEW e \in Executions, SubmitRetry(p, e)
  PROVE  IInv'
<1> DEFINE r == [Idle EXCEPT !.pc = "queued", !.job = e, !.source = "RETRY_WAIT"]
<1>1. /\ r \in Locals /\ r.pc = "queued" /\ r.job = e /\ r.source = "RETRY_WAIT" /\ r.seen = NoOrder
  BY IdleTyped DEF Locals, Steps, States
<1>2. /\ local' \in [Workers -> Locals] /\ local'[p] = r
      /\ \A q \in Workers : q # p => local'[q] = local[q]
  BY <1>1, LocalTyped DEF IInv, TypeOK, SubmitRetry
<1>3. UNCHANGED <<row, ledger, todo, exchange>>  BY DEF SubmitRetry
<1>4. filled'[e] \in Nat  BY <1>3, BoundsAssumption DEF IInv, TypeOK, exchange
<1>5. SenderOK(p)' /\ GoalOK(p)' /\ ~Sending(p)'
  BY <1>1, <1>2 DEF SenderOK, GoalOK, Sending, Job
<1>6. SeenOK(p)'  BY <1>1, <1>2, <1>4, IdleTyped DEF SeenOK, Job
<1>7. Moves(p)  BY <1>2, <1>3, <1>5, <1>6 DEF Moves, IInv, TypeOK
<1> QED  BY <1>3, <1>7, LocalMoveInv

\* The winner of a compare-and-set goes on; the loser returns.
LEMMA ClaimInv ==
  ASSUME IInv, NEW p \in Workers, NEW here \in Steps, NEW there \in Steps,
         NEW from \in States, NEW to \in States, Claim(p, here, from, to, there),
         \/ here = "created" /\ from = "CREATED" /\ to = "VALIDATED" /\ there = "validated"
         \/ here = "validated" /\ from = "VALIDATED" /\ to = "QUEUED" /\ there = "queued"
         \/ here = "queued" /\ from = local[p].source /\ to = "SUBMITTING" /\ there = "won"
  PROVE  IInv'
<1> DEFINE e == Job(p)
<1>1. /\ local[p].pc = here /\ Transition(e, from, to, FALSE)
      /\ UNCHANGED <<attempts, ledger, todo, exchange>>
  BY DEF Claim, At
<1>2. SenderOK(p) /\ SeenOK(p)  BY DEF IInv, WorkerInv
<1>3. e \in Executions  BY <1>1, <1>2 DEF SenderOK
<1>4. TypeOK /\ todo' \in [Workers -> SUBSET Executions]  BY <1>1 DEF IInv, TypeOK
<1>5. CASE state[e] # from
  <2>1. UNCHANGED <<state, orderId>>  BY <1>1, <1>3, <1>4, <1>5, TransitionCases
  <2>2. Return(p)  BY <1>5 DEF Claim
  <2>3. Moves(p)  BY <1>4, <2>2, ReturnMoves
  <2> QED  BY <1>1, <2>1, <2>3, LocalMoveInv DEF row
<1>6. CASE state[e] = from
  <2>1. Goto(p, there)  BY <1>6 DEF Claim
  <2>2. /\ local' \in [Workers -> Locals] /\ local'[p].pc = there /\ Job(p)' = e
        /\ local'[p].source = local[p].source /\ local'[p].seen = local[p].seen
        /\ \A q \in Workers : q # p => local'[q] = local[q]
    BY <1>4, <2>1, GotoTyped DEF TypeOK, Job
  <2>3. /\ state' = [state EXCEPT ![e] = to] /\ state'[e] = to
        /\ orderId' \in [Executions -> BOOLEAN]
    <3>1. /\ state' = [state EXCEPT ![e] = to]
          /\ orderId' \in [Executions -> BOOLEAN]
      BY <1>1, <1>3, <1>4, <1>6, TransitionCases
    <3> QED  BY <1>3, <1>4, <3>1 DEF TypeOK
  <2>4. state[e] \in Early \cup {"RETRY_WAIT"}
    BY <1>1, <1>2, <1>6 DEF SenderOK, Early
  <2>5. \A q \in Workers : Sending(q) => Job(q) # e
    BY <2>4 DEF IInv, WorkerInv, SenderOK
  <2>6. AttemptOK(e)  BY <1>3 DEF IInv, ExecutionInv
  <2>7. Clean(e) /\ attempts[e] < MaxAttempts
    <3>1. \A n \in AttemptNumbers : n \in Nat /\ n > 0  BY BoundsAssumption DEF AttemptNumbers
    <3>2. CASE state[e] \in Early
      BY <2>6, <3>1, <3>2, BoundsAssumption DEF AttemptOK, Clean
    <3>3. CASE state[e] = "RETRY_WAIT"
      BY <2>6, <3>3 DEF AttemptOK
    <3> QED  BY <2>4, <3>2, <3>3
  <2>8. SenderOK(p)'
    BY <1>1, <1>2, <2>2, <2>3, <2>7 DEF SenderOK, Sending, Clean, Early, exchange
  <2>9. SeenOK(p)' /\ GoalOK(p)'
    BY <1>1, <1>2, <2>2 DEF SeenOK, GoalOK, exchange, Job
  <2>10. Moves(p)  BY <1>4, <2>2, <2>5, <2>8, <2>9 DEF Moves
  <2>11. Sound(p, e, to)
    BY <1>6, <2>4, <2>5, <2>6 DEF Sound, AttemptOK, Early
  <2> QED  BY <1>1, <1>3, <2>3, <2>10, <2>11, RowMoveInv
<1> QED  BY <1>5, <1>6

\* ... at each of the three.
LEMMA ClaimsInv ==
  ASSUME IInv, NEW p \in Workers, Validate(p) \/ Enqueue(p) \/ StartSubmitting(p)
  PROVE  IInv'
<1>1. CASE Validate(p)
  BY <1>1, ClaimInv DEF Validate, Steps, States
<1>2. CASE Enqueue(p)
  BY <1>2, ClaimInv DEF Enqueue, Steps, States
<1>3. CASE StartSubmitting(p)
  <2>1. local[p].source \in States  BY DEF IInv, TypeOK, Locals
  <2>2. "queued" \in Steps /\ "won" \in Steps /\ "SUBMITTING" \in States  BY DEF Steps, States
  <2> QED  BY <1>3, <2>1, <2>2, ClaimInv DEF StartSubmitting
<1> QED  BY <1>1, <1>2, <1>3

\* The attempt's row is inserted by the only sender.
LEMMA BeginAttemptInv ==
  ASSUME IInv, NEW p \in Workers, BeginAttempt(p)
  PROVE  IInv'
<1> DEFINE e == Job(p)
           number == attempts[e] + 1
           r == [local[p] EXCEPT !.pc = "begun", !.attempt = number]
<1>1. SenderOK(p) /\ SeenOK(p) /\ local[p].pc = "won" /\ local[p] \in Locals
  BY DEF IInv, WorkerInv, BeginAttempt, At, TypeOK
<1>2. e \in Executions /\ attempts[e] < MaxAttempts /\ Clean(e)
  BY <1>1 DEF SenderOK
<1>3. attempts[e] \in Nat /\ number \in 0..MaxAttempts /\ number >= 1
  BY <1>2, BoundsAssumption DEF IInv, TypeOK
<1>4. /\ r \in Locals /\ r.pc = "begun" /\ r.job = e /\ r.attempt = number
      /\ r.source = local[p].source /\ r.seen = local[p].seen
  BY <1>1, <1>3 DEF Locals, Steps, Job
<1>5. local' = [local EXCEPT ![p] = r]
  BY <1>1 DEF BeginAttempt, IInv, TypeOK, Locals
<1>6. /\ local' \in [Workers -> Locals] /\ local'[p] = r
      /\ \A q \in Workers : q # p => local'[q] = local[q]
  BY <1>4, <1>5, LocalTyped DEF IInv, TypeOK
<1>7. /\ attempts' = [attempts EXCEPT ![e] = number]
      /\ UNCHANGED <<state, orderId, ledger, todo, exchange>>
  BY DEF BeginAttempt
<1>8. /\ attempts' \in [Executions -> 0..MaxAttempts] /\ attempts'[e] = number
      /\ \A x \in Executions : x # e => attempts'[x] = attempts[x]
  BY <1>2, <1>3, <1>7 DEF IInv, TypeOK
<1>9. \A q \in Workers : q # p /\ Sending(q) => Job(q) # e
  BY <1>1 DEF IInv, OneSender, Sending
<1>10. SenderOK(p)'
  BY <1>1, <1>2, <1>3, <1>4, <1>6, <1>7, <1>8 DEF SenderOK, Sending, Clean, Job, exchange
<1>11. SeenOK(p)' /\ GoalOK(p)'
  BY <1>1, <1>4, <1>6, <1>7 DEF SeenOK, GoalOK, Job, exchange
<1>12. Moves(p)
  BY <1>4, <1>6, <1>7, <1>9, <1>10, <1>11 DEF Moves, IInv, TypeOK, Job
<1>13. TypeOK'  BY <1>6, <1>7, <1>8 DEF IInv, TypeOK, ledger, exchange
<1>14. WorkerInv'
  <2> SUFFICES ASSUME NEW q \in Workers, q # p
               PROVE  (SenderOK(q) /\ SeenOK(q) /\ GoalOK(q))'
    BY <1>10, <1>11 DEF WorkerInv
  <2>1. local'[q] = local[q]  BY <1>6
  <2>2. SenderOK(q) /\ SeenOK(q) /\ GoalOK(q)  BY DEF IInv, WorkerInv
  <2>3. Sending(q) => Job(q) \in Executions /\ Job(q) # e
    BY <1>9, <2>2 DEF SenderOK, Sending
  <2>4. SenderOK(q)'
    BY <1>7, <1>8, <2>1, <2>2, <2>3 DEF SenderOK, Sending, Clean, Job, exchange
  <2>5. SeenOK(q)' /\ GoalOK(q)'
    BY <1>7, <2>1, <2>2 DEF SeenOK, GoalOK, Job, Executed, ledger, exchange
  <2> QED  BY <2>4, <2>5
<1>15. ExecutionInv'
  <2> SUFFICES ASSUME NEW x \in Executions  PROVE (AttemptOK(x) /\ MarketOK(x) /\ RowOK(x))'
    BY DEF ExecutionInv
  <2>1. AttemptOK(x) /\ MarketOK(x) /\ RowOK(x)  BY DEF IInv, ExecutionInv
  <2>2. MarketOK(x)' /\ RowOK(x)'
    BY <1>7, <2>1 DEF MarketOK, RowOK, Executed, ledger, exchange
  <2>3. CASE x # e
    BY <1>7, <1>8, <2>1, <2>2, <2>3 DEF AttemptOK, Clean, exchange
  <2>4. CASE x = e
    <3>1. state[e] \notin Early \cup {"RETRY_WAIT"}  BY <1>1 DEF SenderOK, Sending
    <3>2. \A n \in AttemptNumbers : n > number => n > attempts[e]
      BY <1>3, BoundsAssumption DEF AttemptNumbers
    <3>3. /\ \A n \in AttemptNumbers : n > number => fate[e][n] = "UNSENT"
          /\ \A n \in AttemptNumbers : fate[e][n] \in {"UNSENT", "REFUSED"}
      BY <1>2, <2>1, <2>4, <3>2 DEF AttemptOK, Clean
    <3> QED  BY <1>7, <1>8, <2>1, <2>2, <2>4, <3>1, <3>3 DEF AttemptOK, Clean, exchange
  <2> QED  BY <2>2, <2>3, <2>4
<1>16. LedgerIsHonest'  BY <1>7 DEF IInv, LedgerIsHonest, Executed, ledger, exchange
<1> QED  BY <1>12, <1>13, <1>14, <1>15, <1>16, MovesOneSender DEF IInv

\* Its request goes on the wire.
LEMMA SendOrderInv ==
  ASSUME IInv, NEW p \in Workers, SendOrder(p)
  PROVE  IInv'
<1> DEFINE e == Job(p)
           number == attempts[e]
<1>1. SenderOK(p) /\ SeenOK(p) /\ local[p].pc = "begun"
  BY DEF IInv, WorkerInv, SendOrder, At
<1>2. e \in Executions /\ local[p].attempt = number /\ Clean(e) /\ number >= 1
  BY <1>1 DEF SenderOK
<1>3. number \in AttemptNumbers /\ number \in Nat /\ AttemptNumbers \subseteq Nat
  BY <1>2, BoundsAssumption DEF IInv, TypeOK, AttemptNumbers
<1>4. /\ fate' = [fate EXCEPT ![e][number] = "ON_WIRE"]
      /\ UNCHANGED <<row, ledger, todo, market, filled>>
  BY <1>2 DEF SendOrder
<1>5. /\ fate' \in [Executions -> [AttemptNumbers -> Fates]]
      /\ \A x \in Executions : x # e => fate'[x] = fate[x]
      /\ \A n \in AttemptNumbers : fate'[e][n] = IF n = number THEN "ON_WIRE" ELSE fate[e][n]
  BY <1>2, <1>3, <1>4 DEF IInv, TypeOK, Fates
<1>6. /\ local' \in [Workers -> Locals] /\ local'[p].pc = "placing" /\ Job(p)' = e
      /\ local'[p].attempt = number
      /\ local'[p].source = local[p].source /\ local'[p].seen = local[p].seen
      /\ \A q \in Workers : q # p => local'[q] = local[q]
  BY <1>2, GotoTyped DEF SendOrder, IInv, TypeOK, Steps, Job
<1>7. \A q \in Workers : q # p /\ Sending(q) => Job(q) # e
  BY <1>1 DEF IInv, OneSender, Sending
<1>8. /\ state[e] \notin Early \cup {"RETRY_WAIT", "FAILED"}
      /\ state[e] = "REJECTED" => market[e] = "REJECTED"
  BY <1>1 DEF SenderOK, Sending
<1>9. SenderOK(p)'
  BY <1>2, <1>4, <1>6, <1>8 DEF SenderOK, Sending, row
<1>10. SeenOK(p)' /\ GoalOK(p)'
  BY <1>1, <1>4, <1>6 DEF SeenOK, GoalOK, Job
<1>11. Moves(p)
  BY <1>4, <1>6, <1>7, <1>9, <1>10 DEF Moves, IInv, TypeOK
<1>12. TypeOK'  BY <1>4, <1>5, <1>6 DEF IInv, TypeOK, row, ledger
<1>13. WorkerInv'
  <2> SUFFICES ASSUME NEW q \in Workers, q # p
               PROVE  (SenderOK(q) /\ SeenOK(q) /\ GoalOK(q))'
    BY <1>9, <1>10 DEF WorkerInv
  <2>1. local'[q] = local[q]  BY <1>6
  <2>2. SenderOK(q) /\ SeenOK(q) /\ GoalOK(q)  BY DEF IInv, WorkerInv
  <2>3. Sending(q) => Job(q) \in Executions /\ Job(q) # e
    BY <1>7, <2>2 DEF SenderOK, Sending
  <2>4. SenderOK(q)'
    BY <1>4, <1>5, <2>1, <2>2, <2>3 DEF SenderOK, Sending, Clean, Job, row
  <2>5. SeenOK(q)' /\ GoalOK(q)'
    BY <1>4, <2>1, <2>2 DEF SeenOK, GoalOK, Job, Executed, ledger
  <2> QED  BY <2>4, <2>5
<1>14. ExecutionInv'
  <2> SUFFICES ASSUME NEW x \in Executions  PROVE (AttemptOK(x) /\ MarketOK(x) /\ RowOK(x))'
    BY DEF ExecutionInv
  <2>1. AttemptOK(x) /\ MarketOK(x) /\ RowOK(x)  BY DEF IInv, ExecutionInv
  <2>2. RowOK(x)'  BY <1>4, <2>1 DEF RowOK, Executed, row, ledger
  <2>3. CASE x # e
    BY <1>4, <1>5, <2>1, <2>2, <2>3 DEF AttemptOK, MarketOK, Clean, row
  <2>4. CASE x = e
    <3>1. MarketOK(x)'
      BY <1>2, <1>3, <1>4, <1>5, <2>1, <2>4 DEF MarketOK, Clean
    <3>2. AttemptOK(x)'
      BY <1>2, <1>3, <1>4, <1>5, <1>8, <2>1, <2>4 DEF AttemptOK, row
    <3> QED  BY <2>2, <3>1, <3>2
  <2> QED  BY <2>3, <2>4
<1>15. LedgerIsHonest'  BY <1>4 DEF IInv, LedgerIsHonest, Executed, ledger
<1> QED  BY <1>11, <1>12, <1>13, <1>14, <1>15, MovesOneSender DEF IInv

\* An answer to place_order ends the attempt.
LEMMA PlaceEndsInv ==
  ASSUME IInv, NEW p \in Workers, NEW to \in {"UNKNOWN", "REJECTED", "FAILED", "RETRY_WAIT"},
         Sending(p), PlaceEnds(p, to),
         to # "UNKNOWN" => Clean(Job(p)),
         to = "RETRY_WAIT" => attempts[Job(p)] < MaxAttempts
  PROVE  IInv'
<1> DEFINE e == Job(p)
<1>1. e \in Executions  BY DEF IInv, WorkerInv, SenderOK, Sending
<1>2. /\ Transition(e, "SUBMITTING", to, FALSE)
      /\ UNCHANGED <<attempts, ledger, todo, exchange>>
  BY DEF PlaceEnds
<1>3. to \in States /\ TypeOK /\ todo' \in [Workers -> SUBSET Executions]
  BY <1>2 DEF States, IInv, TypeOK
<1>4. Moves(p)  BY <1>3, ReturnMoves DEF PlaceEnds
<1>5. CASE state[e] # "SUBMITTING"
  <2>1. UNCHANGED <<state, orderId>>  BY <1>1, <1>2, <1>3, <1>5, TransitionCases
  <2> QED  BY <1>2, <1>4, <2>1, LocalMoveInv DEF row
<1>6. CASE state[e] = "SUBMITTING"
  <2>1. state' = [state EXCEPT ![e] = to] /\ orderId' \in [Executions -> BOOLEAN]
    BY <1>1, <1>2, <1>3, <1>6, TransitionCases
  <2>2. \A q \in Workers : q # p /\ Sending(q) => Job(q) # e  BY DEF IInv, OneSender
  <2>3. Sound(p, e, to)  BY <2>2 DEF Sound, Early
  <2> QED  BY <1>1, <1>2, <1>3, <1>4, <2>1, <2>3, RowMoveInv
<1> QED  BY <1>5, <1>6

\* The outcome is unknown: the row says so.
LEMMA PlaceAmbiguousInv ==
  ASSUME IInv, NEW p \in Workers, PlaceAmbiguous(p)
  PROVE  IInv'
  BY PlaceEndsInv DEF PlaceAmbiguous, At, Sending

\* A refusal leaves no attempt that can become an order.
LEMMA RefusedIsClean ==
  ASSUME IInv, NEW p \in Workers, PlaceRefused(p)
  PROVE  Clean(Job(p)) /\ local[p].pc \in {"begun", "placing"}
<1> DEFINE e == Job(p)
<1>1. SenderOK(p)  BY DEF IInv, WorkerInv
<1>2. local[p].pc \in {"begun", "placing"}  BY DEF PlaceRefused, Refused, At
<1>3. e \in Executions /\ local[p].attempt = attempts[e] /\ attempts[e] >= 1
  BY <1>1, <1>2 DEF SenderOK
<1>4. CASE local[p].pc = "begun"  BY <1>1, <1>4 DEF SenderOK
<1>5. CASE local[p].pc = "placing"
  <2>1. fate[e][attempts[e]] = "REFUSED"
    BY <1>3, <1>5 DEF PlaceRefused, Refused, At, Answered
  <2>2. attempts[e] \in Nat /\ AttemptNumbers \subseteq Nat
    BY <1>3, BoundsAssumption DEF IInv, TypeOK, AttemptNumbers
  <2>3. AttemptOK(e)  BY <1>3 DEF IInv, ExecutionInv
  <2> QED  BY <1>5, <2>1, <2>2, <2>3 DEF AttemptOK, Clean
<1> QED  BY <1>2, <1>4, <1>5

\* The outcome is a refusal.
LEMMA PlaceRefusedInv ==
  ASSUME IInv, NEW p \in Workers, PlaceRefused(p)
  PROVE  IInv'
<1>1. PICK to \in {"REJECTED", "FAILED", "RETRY_WAIT"} :
        (to = "RETRY_WAIT" => local[p].attempt < MaxAttempts) /\ PlaceEnds(p, to)
  BY DEF PlaceRefused
<1>2. Clean(Job(p)) /\ local[p].pc \in {"begun", "placing"}  BY RefusedIsClean
<1>3. local[p].attempt = attempts[Job(p)]  BY <1>2 DEF IInv, WorkerInv, SenderOK
<1> QED  BY <1>1, <1>2, <1>3, PlaceEndsInv DEF Sending

\* The exchange answered with the order it accepted.
LEMMA PlaceAcceptedInv ==
  ASSUME IInv, NEW p \in Workers, PlaceAccepted(p)
  PROVE  IInv'
<1> DEFINE e == Job(p)
           r == [local[p] EXCEPT !.pc = "answered", !.seen = Shown(e)]
<1>1. SenderOK(p) /\ local[p].pc = "placing" /\ local[p] \in Locals /\ TypeOK
  BY DEF IInv, WorkerInv, PlaceAccepted, At, TypeOK
<1>2. e \in Executions /\ local[p].attempt = attempts[e] /\ attempts[e] >= 1
  BY <1>1 DEF SenderOK
<1>3. attempts[e] \in AttemptNumbers
  BY <1>2, BoundsAssumption DEF IInv, TypeOK, AttemptNumbers
<1>4. MarketOK(e) /\ fate[e][attempts[e]] = "ACCEPTED"
  BY <1>2 DEF IInv, ExecutionInv, PlaceAccepted, Answered
<1>5. market[e] # "NONE"  BY <1>3, <1>4 DEF MarketOK
<1>6. /\ Shown(e) \in Orders /\ Shown(e).executed = filled[e]
      /\ Shown(e).status \in {"FILLED", "CANCELLED", "REJECTED"} => market[e] = Shown(e).status
  BY <1>1, <1>2, <1>4, <1>5, ShownFacts
<1>7. r \in Locals /\ r.pc = "answered" /\ r.job = e /\ r.seen = Shown(e)
  BY <1>1, <1>6 DEF Locals, Steps, Job
<1>8. local' = [local EXCEPT ![p] = r]
  BY <1>1 DEF PlaceAccepted, IInv, TypeOK, Locals
<1>9. /\ local' \in [Workers -> Locals] /\ local'[p] = r
      /\ \A q \in Workers : q # p => local'[q] = local[q]
  BY <1>7, <1>8, LocalTyped DEF IInv, TypeOK
<1>10. /\ Transition(e, "SUBMITTING", "SUBMITTED", TRUE)
       /\ UNCHANGED <<attempts, ledger, todo, exchange>>
  BY DEF PlaceAccepted
<1>11. SenderOK(p)' /\ GoalOK(p)' /\ ~Sending(p)'
  BY <1>2, <1>7, <1>9 DEF SenderOK, GoalOK, Sending, Job
<1>12. SeenOK(p)'
  BY <1>2, <1>6, <1>7, <1>9, <1>10, BoundsAssumption DEF SeenOK, Job, exchange, IInv, TypeOK
<1>13. Moves(p)  BY <1>9, <1>10, <1>11, <1>12 DEF Moves, IInv, TypeOK
<1>14. "SUBMITTED" \in States  BY DEF States
<1>15. CASE state[e] # "SUBMITTING"
  <2>1. UNCHANGED <<state, orderId>>  BY <1>1, <1>2, <1>10, <1>14, <1>15, TransitionCases
  <2> QED  BY <1>10, <1>13, <2>1, LocalMoveInv DEF row
<1>16. CASE state[e] = "SUBMITTING"
  <2>1. state' = [state EXCEPT ![e] = "SUBMITTED"] /\ orderId' \in [Executions -> BOOLEAN]
    <3>1. TypeOK /\ Transition(e, "SUBMITTING", "SUBMITTED", TRUE)  BY <1>1, <1>10
    <3> HIDE DEF e
    <3> QED  BY <1>2, <1>14, <1>16, <3>1, TransitionCases
  <2>2. Sound(p, e, "SUBMITTED")  BY DEF Sound, Early
  <2> QED  BY <1>2, <1>10, <1>13, <1>14, <2>1, <2>2, RowMoveInv
<1> QED  BY <1>15, <1>16

-----------------------------------------------------------------------------
(* recover()                                                               *)

\* Its first transaction, whoever asks, with the order already in hand or not.
LEMMA BeginRecoverInv ==
  ASSUME IInv, NEW p \in Workers, NEW e \in Executions, NEW order \in Orders,
         order.executed <= filled[e],
         order.status \in {"FILLED", "CANCELLED", "REJECTED"} => market[e] = order.status,
         BeginRecover(p, e, order), todo' \in [Workers -> SUBSET Executions]
  PROVE  IInv'
<1> DEFINE there == IF order = NoOrder THEN "lookup" ELSE "fills"
           job == [Idle EXCEPT !.job = e, !.seen = order]
           refill == [job EXCEPT !.pc = "refill"]
           from(source) == [job EXCEPT !.pc = there, !.source = source]
<1>1. UNCHANGED ledger /\ UNCHANGED exchange /\ TypeOK
  BY DEF BeginRecover, IInv
<1>2. there \in Steps /\ there \in {"lookup", "fills"}  BY DEF Steps
<1>3. /\ refill \in Locals /\ refill.pc = "refill" /\ refill.job = e /\ refill.seen = order
      /\ refill.source = "QUEUED"
  BY IdleTyped DEF Locals, Steps
<1>4. \A source \in States :
         /\ from(source) \in Locals /\ from(source).pc = there /\ from(source).job = e
         /\ from(source).seen = order /\ from(source).source = source
  BY <1>2, IdleTyped DEF Locals
<1>5. ASSUME NEW r \in Locals, local' = [local EXCEPT ![p] = r],
             r.job = e, r.seen = order,
             \/ r.pc = "refill"
             \/ r.pc = there /\ r.source \in {"RECONCILING", "ACKNOWLEDGED", "PARTIALLY_FILLED"}
                  /\ (r.source = "PARTIALLY_FILLED" => Executed(e) > 0)
      PROVE  Moves(p)
  <2>1. /\ local' \in [Workers -> Locals] /\ local'[p] = r
        /\ \A q \in Workers : q # p => local'[q] = local[q]
    BY <1>5, LocalTyped DEF IInv, TypeOK
  <2>2. SenderOK(p)' /\ ~Sending(p)'
    BY <1>2, <1>5, <2>1 DEF SenderOK, Sending, Job
  <2>3. SeenOK(p)'  BY <1>1, <1>5, <2>1 DEF SeenOK, Job, exchange
  <2>4. GoalOK(p)'
    BY <1>1, <1>2, <1>5, <2>1 DEF GoalOK, Job, Executed, ledger
  <2> QED  BY <2>1, <2>2, <2>3, <2>4 DEF Moves
<1>6. CASE local' = [local EXCEPT ![p] = refill] /\ UNCHANGED row
  <2>1. Moves(p)  BY <1>3, <1>5, <1>6
  <2> QED  BY <1>1, <1>6, <2>1, LocalMoveInv
<1>7. CASE /\ state[e] \in StableObservedStates \cup {"RECONCILING"}
           /\ local' = [local EXCEPT ![p] = from(state[e])]
           /\ UNCHANGED row
  <2>1. state[e] = "PARTIALLY_FILLED" => Executed(e) > 0
    BY DEF IInv, ExecutionInv, RowOK
  <2>2. state[e] \in States /\ state[e] \in {"RECONCILING", "ACKNOWLEDGED", "PARTIALLY_FILLED"}
    BY <1>7 DEF StableObservedStates, States
  <2>3. Moves(p)
    <3> HIDE DEF from, there
    <3> QED  BY <1>4, <1>5, <1>7, <2>1, <2>2
  <2> QED  BY <1>1, <1>7, <2>3, LocalMoveInv
<1>8. CASE /\ state[e] \in OpenLocalStates \ (StableObservedStates \cup {"RECONCILING"})
           /\ local' = [local EXCEPT ![p] = from("RECONCILING")]
           /\ Transition(e, state[e], "RECONCILING", order # NoOrder)
           /\ UNCHANGED attempts
  <2>1. "RECONCILING" \in States  BY DEF States
  <2>2. Moves(p)
    <3> HIDE DEF from, there
    <3> QED  BY <1>4, <1>5, <1>8, <2>1
  <2>3. state' = [state EXCEPT ![e] = "RECONCILING"] /\ orderId' \in [Executions -> BOOLEAN]
    <3>1. (order # NoOrder) \in BOOLEAN  OBVIOUS
    <3> QED  BY <1>1, <1>8, <2>1, <3>1, TransitionCases
  <2>4. Sound(p, e, "RECONCILING")  BY DEF Sound, Early
  <2> QED  BY <1>1, <1>8, <2>1, <2>2, <2>3, <2>4, RowMoveInv
<1>9. CASE Return(p) /\ UNCHANGED row
  BY <1>1, <1>9, ReturnMoves, LocalMoveInv
<1> QED  BY <1>6, <1>7, <1>8, <1>9 DEF BeginRecover

\* ... after an accepted order, on one execution, and in a reconciliation.
LEMMA RecoverInv ==
  ASSUME IInv, NEW p \in Workers, NEW e \in Executions,
         RecoverSubmitted(p) \/ Recover(p, e) \/ ReconcileOne(p, e)
  PROVE  IInv'
<1>1. ASSUME NEW x \in Executions, BeginRecover(p, x, NoOrder),
             todo' \in [Workers -> SUBSET Executions]
      PROVE  IInv'
  <2>1. 0 <= filled[x]  BY BoundsAssumption DEF IInv, TypeOK
  <2> QED  BY <1>1, <2>1, IdleTyped, BeginRecoverInv
<1>2. CASE RecoverSubmitted(p)
  <2>1. SenderOK(p) /\ SeenOK(p) /\ local[p].seen \in Orders
    BY DEF IInv, WorkerInv, TypeOK, Locals
  <2>2. Job(p) \in Executions  BY <1>2, <2>1 DEF SenderOK, RecoverSubmitted, At
  <2>3. todo' \in [Workers -> SUBSET Executions]  BY <1>2 DEF RecoverSubmitted, IInv, TypeOK
  <2> QED  BY <1>2, <2>1, <2>2, <2>3, BeginRecoverInv DEF RecoverSubmitted, SeenOK
<1>3. CASE Recover(p, e)
  BY <1>1, <1>3 DEF Recover, IInv, TypeOK
<1>4. CASE ReconcileOne(p, e)
  <2>1. todo' \in [Workers -> SUBSET Executions]  BY <1>4 DEF ReconcileOne, IInv, TypeOK
  <2> QED  BY <1>1, <1>4, <2>1 DEF ReconcileOne
<1> QED  BY <1>2, <1>3, <1>4

\* A worker that does nothing but learn the list of candidates.
LEMMA ReconcileInv ==
  ASSUME IInv, NEW p \in Workers, Reconcile(p)
  PROVE  IInv'
<1>1. UNCHANGED <<row, ledger, local, exchange>>  BY DEF Reconcile
<1>2. todo' \in [Workers -> SUBSET Executions]
  BY DEF Reconcile, Candidates, IInv, TypeOK
<1>3. SenderOK(p) /\ SeenOK(p) /\ GoalOK(p)  BY DEF IInv, WorkerInv
<1>4. SenderOK(p)' /\ SeenOK(p)' /\ GoalOK(p)'
  BY <1>1, <1>3 DEF SenderOK, SeenOK, GoalOK, Sending, Clean, Job, Executed, row, ledger, exchange
<1>5. Sending(p)' => \A q \in Workers : q # p /\ Sending(q) => Job(q) # Job(p)'
  BY <1>1 DEF IInv, OneSender, Sending, Job
<1>6. Moves(p)  BY <1>1, <1>2, <1>4, <1>5 DEF Moves, IInv, TypeOK
<1> QED  BY <1>1, <1>6, LocalMoveInv

\* The lookup found the order ...
LEMMA LookupFoundInv ==
  ASSUME IInv, NEW p \in Workers, NEW recognised \in BOOLEAN, LookupFound(p, recognised)
  PROVE  IInv'
<1> DEFINE e == Job(p)
           order == IF recognised THEN Shown(e) ELSE [Shown(e) EXCEPT !.status = "UNLISTED"]
           r == [local[p] EXCEPT !.pc = "fills", !.seen = order]
<1>1. SenderOK(p) /\ GoalOK(p) /\ local[p].pc = "lookup" /\ local[p] \in Locals /\ TypeOK
  BY DEF IInv, WorkerInv, LookupFound, At, TypeOK
<1>2. e \in Executions  BY <1>1 DEF SenderOK
<1>3. MarketOK(e) /\ market[e] # "NONE"  BY <1>2 DEF IInv, ExecutionInv, LookupFound
<1>4. /\ order \in Orders /\ order.executed = filled[e]
      /\ order.status \in {"FILLED", "CANCELLED", "REJECTED"} => market[e] = order.status
  <2>1. CASE recognised
    BY <1>1, <1>2, <1>3, <2>1, ShownFacts
  <2>2. CASE ~recognised
    <3>1. order = [Shown(e) EXCEPT !.status = "UNLISTED"]  BY <2>2
    <3> QED  BY <1>1, <1>2, <1>3, <3>1, ShownFacts
  <2> QED  BY <2>1, <2>2
<1> HIDE DEF order
<1>5. r \in Locals /\ r.pc = "fills" /\ r.job = e /\ r.seen = order /\ r.source = local[p].source
  BY <1>1, <1>4 DEF Locals, Steps, Job
<1>6. local' = [local EXCEPT ![p] = r]
  BY <1>1 DEF order, LookupFound, TypeOK, Locals
<1>7. /\ local' \in [Workers -> Locals] /\ local'[p] = r
      /\ \A q \in Workers : q # p => local'[q] = local[q]
  BY <1>1, <1>5, <1>6, LocalTyped DEF TypeOK
<1>8. UNCHANGED <<row, ledger, todo, exchange>>  BY DEF LookupFound
<1>9. SenderOK(p)' /\ ~Sending(p)'
  BY <1>2, <1>5, <1>7 DEF SenderOK, Sending, Job
<1>10. SeenOK(p)'
  BY <1>1, <1>2, <1>4, <1>5, <1>7, <1>8, BoundsAssumption DEF SeenOK, Job, exchange, TypeOK
<1>11. GoalOK(p)'
  BY <1>1, <1>5, <1>7, <1>8 DEF GoalOK, Job, Executed, ledger
<1>12. Moves(p)  BY <1>1, <1>7, <1>8, <1>9, <1>10, <1>11 DEF Moves, TypeOK
<1> QED  BY <1>8, <1>12, LocalMoveInv

\* ... or did not.
LEMMA LookupMissingInv ==
  ASSUME IInv, NEW p \in Workers, LookupMissing(p)
  PROVE  IInv'
<1>1. SenderOK(p) /\ SeenOK(p) /\ GoalOK(p) /\ local[p].pc = "lookup" /\ TypeOK
  BY DEF IInv, WorkerInv, LookupMissing, At
<1>2. /\ local' \in [Workers -> Locals] /\ local'[p].pc = "fills" /\ Job(p)' = Job(p)
      /\ local'[p].source = local[p].source /\ local'[p].seen = local[p].seen
      /\ \A q \in Workers : q # p => local'[q] = local[q]
  BY GotoTyped DEF LookupMissing, IInv, TypeOK, Steps, Job
<1>3. UNCHANGED <<row, ledger, todo, exchange>>  BY DEF LookupMissing
<1>4. SenderOK(p)' /\ ~Sending(p)'
  BY <1>1, <1>2 DEF SenderOK, Sending
<1>5. SeenOK(p)' /\ GoalOK(p)'
  BY <1>1, <1>2, <1>3 DEF SeenOK, GoalOK, Executed, ledger, exchange
<1>6. Moves(p)  BY <1>1, <1>2, <1>3, <1>4, <1>5 DEF Moves, TypeOK
<1> QED  BY <1>3, <1>6, LocalMoveInv

\* The summary a worker would ingest is no more than the exchange has executed.
LEMMA SummaryBound ==
  ASSUME IInv, NEW p \in Workers, Job(p) \in Executions, NEW priced \in BOOLEAN
  PROVE  /\ (IF priced THEN local[p].seen.executed ELSE 0) \in 0..filled[Job(p)]
         /\ filled[Job(p)] \in 0..Quantity
<1>1. SeenOK(p) /\ local[p].seen \in Orders /\ filled[Job(p)] \in 0..Quantity
  BY DEF IInv, WorkerInv, TypeOK, Locals
<1>2. local[p].seen.executed \in Nat /\ local[p].seen.executed <= filled[Job(p)]
  BY <1>1, BoundsAssumption DEF SeenOK, Orders, NoOrder
<1> QED  BY <1>1, <1>2, BoundsAssumption

\* The trades are ingested and the decision is taken on what the ledger holds.
LEMMA ReadFillsInv ==
  ASSUME IInv, NEW p \in Workers, NEW listed \in 0..Quantity,
         NEW priced \in BOOLEAN, NEW doubt \in BOOLEAN, ReadFills(p, listed, priced, doubt)
  PROVE  IInv'
<1> DEFINE e == Job(p)
           total == IF priced THEN local[p].seen.executed ELSE 0
           quantity == summary'[e] + detail'[e]
           goal == RecoverTarget(local[p].seen, quantity, doubt)
           r == [local[p] EXCEPT !.pc = "settle", !.goal = goal]
<1>1. /\ SenderOK(p) /\ SeenOK(p) /\ GoalOK(p) /\ local[p].pc = "fills"
      /\ local[p] \in Locals /\ local[p].seen \in Orders /\ TypeOK /\ LedgerIsHonest
  BY DEF IInv, WorkerInv, ReadFills, At, TypeOK, Locals
<1>2. e \in Executions  BY <1>1 DEF SenderOK
<1>3. IngestFills(e, listed, total) /\ listed \in 0..filled[e]
  BY DEF ReadFills
<1>4. filled[e] \in 0..Quantity  BY <1>1, <1>2 DEF TypeOK
<1>5. total \in 0..filled[e]  BY <1>2, SummaryBound
<1> HIDE DEF total
<1>6. /\ summary' \in [Executions -> 0..Quantity] /\ detail' \in [Executions -> 0..Quantity]
      /\ posted' \in [Executions -> Nat]
      /\ UNCHANGED row
      /\ \A x \in Executions :
            /\ summary'[x] + detail'[x] <= filled[x]
            /\ summary'[x] = 0 \/ detail'[x] = 0
            /\ summary'[x] + detail'[x] >= summary[x] + detail[x]
  BY <1>1, <1>2, <1>3, <1>5, IngestFacts
<1>7. quantity \in Nat /\ quantity <= filled[e] /\ quantity >= Executed(e) /\ Executed(e) \in Nat
  BY <1>1, <1>2, <1>6, BoundsAssumption DEF TypeOK, Executed
<1>8. UNCHANGED <<todo, exchange>>  BY DEF ReadFills
<1>9. /\ goal \in {"ACKNOWLEDGED", "PARTIALLY_FILLED", "FILLED", "CANCELLED",
                    "REJECTED", "UNKNOWN", "RECOVERY_REQUIRED"}
      /\ goal = "FILLED" => local[p].seen.status = "FILLED" \/ quantity >= Quantity
      /\ goal \in {"CANCELLED", "REJECTED"} => local[p].seen.status = goal
      /\ goal = "PARTIALLY_FILLED" => quantity > 0
      /\ goal = "ACKNOWLEDGED" => quantity = 0
  <2> HIDE DEF quantity
  <2> QED  BY <1>1, <1>7, TargetFacts
<1> HIDE DEF goal
<1>10. goal \in {"FILLED", "CANCELLED", "REJECTED"} => market[e] = goal
  <2>1. filled[e] = Quantity => market[e] = "FILLED"
    BY <1>2 DEF IInv, ExecutionInv, MarketOK
  <2>2. quantity >= Quantity => filled[e] = Quantity
    BY <1>4, <1>7, BoundsAssumption
  <2> HIDE DEF quantity
  <2> QED  BY <1>1, <1>2, <1>9, <2>1, <2>2 DEF SeenOK
<1>11. goal \in States  BY <1>9 DEF States
<1>12. /\ r \in Locals /\ r.pc = "settle" /\ r.job = e /\ r.seen = local[p].seen
       /\ r.source = local[p].source /\ r.goal = goal
  BY <1>1, <1>11 DEF Locals, Steps, Job
<1>13. local' = [local EXCEPT ![p] = r]
  BY <1>1 DEF goal, ReadFills, TypeOK, Locals
<1>14. /\ local' \in [Workers -> Locals] /\ local'[p] = r
       /\ \A q \in Workers : q # p => local'[q] = local[q]
  BY <1>1, <1>12, <1>13, LocalTyped DEF TypeOK
<1>15. SenderOK(p)' /\ ~Sending(p)'
  BY <1>2, <1>12, <1>14 DEF SenderOK, Sending, Job
<1>16. SeenOK(p)'
  BY <1>1, <1>8, <1>12, <1>14 DEF SeenOK, Job, exchange
<1>17. GoalOK(p)'
  <2>1. /\ local'[p].pc = "settle" /\ Job(p)' = e /\ local'[p].source = local[p].source
        /\ local'[p].goal = goal
    BY <1>12, <1>14 DEF Job
  <2>2. local[p].source = "PARTIALLY_FILLED" => quantity > 0
    BY <1>1, <1>7 DEF GoalOK
  <2>3. local[p].source \in {"RECONCILING", "ACKNOWLEDGED", "PARTIALLY_FILLED"}
    BY <1>1 DEF GoalOK
  <2>4. Executed(Job(p))' = quantity  BY <2>1 DEF Executed
  <2>5. market' = market  BY <1>8 DEF exchange
  <2> HIDE DEF quantity, e
  <2> QED  BY <1>9, <1>10, <2>1, <2>2, <2>3, <2>4, <2>5 DEF GoalOK
<1>18. Moves(p)  BY <1>1, <1>8, <1>14, <1>15, <1>16, <1>17 DEF Moves, TypeOK
<1> QED  BY <1>6, <1>8, <1>18, LearnInv

\* The decision is written, if the row is still where it was read.
LEMMA SettleInv ==
  ASSUME IInv, NEW p \in Workers, Settle(p)
  PROVE  IInv'
<1> DEFINE e == Job(p)
           to == local[p].goal
           from == local[p].source
<1>1. SenderOK(p) /\ GoalOK(p) /\ local[p].pc = "settle" /\ local[p] \in Locals /\ TypeOK
  BY DEF IInv, WorkerInv, Settle, At, TypeOK
<1>2. e \in Executions /\ to \in States  BY <1>1 DEF SenderOK, Locals
<1>3. UNCHANGED <<attempts, ledger, todo, exchange>> /\ Return(p)  BY DEF Settle
<1>4. todo' \in [Workers -> SUBSET Executions]  BY <1>1, <1>3 DEF TypeOK
<1>5. Moves(p)  BY <1>3, <1>4, ReturnMoves
<1>6. CASE UNCHANGED <<state, orderId>>
  BY <1>3, <1>5, <1>6, LocalMoveInv DEF row
<1>7. CASE Transition(e, from, to, local[p].seen # NoOrder)
  <2> DEFINE learned == local[p].seen # NoOrder
  <2>1. learned \in BOOLEAN  OBVIOUS
  <2>2. Sound(p, e, to)
    BY <1>1 DEF GoalOK, Sound, Early
  <2> HIDE DEF e, to, from, learned
  <2>3. CASE state[e] # from
    <3>1. UNCHANGED <<state, orderId>>
      BY <1>1, <1>2, <1>7, <2>1, <2>3, TransitionCases DEF learned
    <3> QED  BY <1>3, <1>5, <3>1, LocalMoveInv DEF row
  <2>4. CASE state[e] = from
    <3>1. state' = [state EXCEPT ![e] = to] /\ orderId' \in [Executions -> BOOLEAN]
      BY <1>1, <1>2, <1>7, <2>1, <2>4, TransitionCases DEF learned
    <3> QED  BY <1>2, <1>3, <1>5, <2>2, <3>1, RowMoveInv
  <2> QED  BY <2>3, <2>4
<1> QED  BY <1>6, <1>7 DEF Settle, Job

\* A filled row has its trades read again.
LEMMA ReadFillsAgainInv ==
  ASSUME IInv, NEW p \in Workers, NEW listed \in 0..Quantity, ReadFillsAgain(p, listed)
  PROVE  IInv'
<1> DEFINE e == Job(p)
<1>1. SenderOK(p) /\ TypeOK /\ LedgerIsHonest
  BY DEF IInv, WorkerInv
<1>2. e \in Executions  BY <1>1 DEF SenderOK, ReadFillsAgain, At
<1>3. Return(p) /\ UNCHANGED <<todo, exchange>>  BY DEF ReadFillsAgain
<1>4. todo' \in [Workers -> SUBSET Executions]  BY <1>1, <1>3 DEF TypeOK
<1>5. Moves(p)  BY <1>3, <1>4, ReturnMoves
<1>6. CASE UNCHANGED <<row, ledger>>
  BY <1>3, <1>5, <1>6, LocalMoveInv
<1>7. CASE IngestFills(e, listed, 0)
  <2>1. listed \in 0..filled[e] /\ 0 \in 0..filled[e]
    BY <1>1, <1>2, BoundsAssumption DEF ReadFillsAgain, TypeOK
  <2>2. /\ summary' \in [Executions -> 0..Quantity] /\ detail' \in [Executions -> 0..Quantity]
        /\ posted' \in [Executions -> Nat]
        /\ UNCHANGED row
        /\ \A x \in Executions :
              /\ summary'[x] + detail'[x] <= filled[x]
              /\ summary'[x] = 0 \/ detail'[x] = 0
              /\ summary'[x] + detail'[x] >= summary[x] + detail[x]
    BY <1>1, <1>2, <1>7, <2>1, IngestFacts
  <2> QED  BY <1>3, <1>5, <2>2, LearnInv
<1> QED  BY <1>6, <1>7 DEF ReadFillsAgain

-----------------------------------------------------------------------------
(* cancel(), crashes and the exchange                                      *)

\* The row waits for the answer to a cancellation.
LEMMA CancelInv ==
  ASSUME IInv, NEW p \in Workers, NEW e \in Executions, Cancel(p, e)
  PROVE  IInv'
<1> DEFINE r == [Idle EXCEPT !.pc = "cancelling", !.job = e]
<1>1. r \in Locals /\ r.pc = "cancelling" /\ r.job = e /\ r.seen = NoOrder
  BY IdleTyped DEF Locals, Steps
<1>2. /\ local' \in [Workers -> Locals] /\ local'[p] = r
      /\ \A q \in Workers : q # p => local'[q] = local[q]
  BY <1>1, LocalTyped DEF IInv, TypeOK, Cancel
<1>3. UNCHANGED <<attempts, ledger, todo, exchange>> /\ TypeOK
  BY DEF Cancel, IInv
<1>4. filled'[e] \in Nat  BY <1>3, BoundsAssumption DEF TypeOK, exchange
<1>5. SenderOK(p)' /\ GoalOK(p)' /\ ~Sending(p)'
  BY <1>1, <1>2 DEF SenderOK, GoalOK, Sending, Job
<1>6. SeenOK(p)'  BY <1>1, <1>2, <1>4, IdleTyped DEF SeenOK, Job
<1>7. Moves(p)  BY <1>2, <1>3, <1>5, <1>6 DEF Moves, TypeOK
<1>8. "CANCEL_PENDING" \in States /\ Transition(e, state[e], "CANCEL_PENDING", FALSE)
  BY DEF States, Cancel
<1>9. state' = [state EXCEPT ![e] = "CANCEL_PENDING"] /\ orderId' \in [Executions -> BOOLEAN]
  BY <1>3, <1>8, TransitionCases
<1>10. Sound(p, e, "CANCEL_PENDING")  BY DEF Sound, Early
<1> QED  BY <1>3, <1>7, <1>8, <1>9, <1>10, RowMoveInv

\* The answer arrives, times out, or is some other error.
LEMMA CancelEndsInv ==
  ASSUME IInv, NEW p \in Workers, CancelDone(p) \/ CancelTimeout(p) \/ CancelFailed(p)
  PROVE  IInv'
<1> DEFINE e == Job(p)
<1>1. SenderOK(p) /\ TypeOK /\ local[p].pc = "cancelling"
  BY DEF IInv, WorkerInv, CancelDone, CancelTimeout, CancelFailed, At
<1>2. e \in Executions  BY <1>1 DEF SenderOK
<1>3. Return(p) /\ UNCHANGED <<attempts, ledger, todo, exchange>>
  BY DEF CancelDone, CancelTimeout, CancelFailed, CancelEnds, row
<1>4. todo' \in [Workers -> SUBSET Executions]  BY <1>1, <1>3 DEF TypeOK
<1>5. Moves(p)  BY <1>3, <1>4, ReturnMoves
<1>6. ASSUME NEW to \in {"CANCELLED", "UNKNOWN"}, NEW learned \in BOOLEAN,
             Transition(e, "CANCEL_PENDING", to, learned),
             to = "CANCELLED" => market[e] \in {"CANCELLED", "FILLED"}
      PROVE  IInv'
  <2>1. to \in States  BY DEF States
  <2>2. Sound(p, e, to)  BY <1>6 DEF Sound, Early
  <2> HIDE DEF e
  <2>3. CASE state[e] # "CANCEL_PENDING"
    <3>1. TypeOK /\ Transition(e, "CANCEL_PENDING", to, learned)  BY <1>1, <1>6
    <3>2. UNCHANGED <<state, orderId>>
      BY <1>2, <2>3, <3>1 DEF Transition, TypeOK
    <3> QED  BY <1>3, <1>5, <3>2, LocalMoveInv DEF row
  <2>4. CASE state[e] = "CANCEL_PENDING"
    <3>1. state' = [state EXCEPT ![e] = to] /\ orderId' \in [Executions -> BOOLEAN]
      BY <1>1, <1>2, <1>6, <2>1, <2>4, TransitionCases
    <3> QED  BY <1>2, <1>3, <1>5, <2>1, <2>2, <3>1, RowMoveInv
  <2> QED  BY <2>3, <2>4
<1>7. CASE CancelDone(p)
  BY <1>6, <1>7 DEF CancelDone, CancelEnds
<1>8. CASE CancelTimeout(p)
  BY <1>6, <1>8 DEF CancelTimeout, CancelEnds
<1>9. CASE CancelFailed(p)
  BY <1>3, <1>5, <1>9, LocalMoveInv DEF CancelFailed
<1> QED  BY <1>7, <1>8, <1>9

\* A worker is killed.
LEMMA CrashInv ==
  ASSUME IInv, NEW p \in Workers, Crash(p)
  PROVE  IInv'
<1>1. todo' \in [Workers -> SUBSET Executions]  BY DEF Crash, IInv, TypeOK
<1> QED  BY <1>1, ReturnMoves, LocalMoveInv DEF Crash

\* The exchange moves: it answers requests, fills and closes orders, and takes
\* nothing back.
LEMMA ExchangeInv ==
  ASSUME IInv, UNCHANGED <<row, ledger, local, todo>>,
         fate' \in [Executions -> [AttemptNumbers -> Fates]],
         market' \in [Executions -> OrderStatuses \cup {"NONE"}],
         filled' \in [Executions -> 0..Quantity],
         \A x \in Executions :
            /\ MarketOK(x)'
            /\ filled'[x] >= filled[x]
            /\ market[x] \in {"FILLED", "CANCELLED", "REJECTED"} => market'[x] = market[x]
            /\ \A n \in AttemptNumbers : fate'[x][n] = fate[x][n] \/ fate[x][n] = "ON_WIRE"
  PROVE  IInv'
<1>1. TypeOK'  BY DEF IInv, TypeOK, row, ledger
<1>2. OneSender'  BY DEF IInv, OneSender, Sending, Job
<1>3. WorkerInv'
  <2> SUFFICES ASSUME NEW q \in Workers  PROVE (SenderOK(q) /\ SeenOK(q) /\ GoalOK(q))'
    BY DEF WorkerInv
  <2>1. SenderOK(q) /\ SeenOK(q) /\ GoalOK(q)  BY DEF IInv, WorkerInv
  <2>2. Job(q)' = Job(q) /\ local[q] \in Locals  BY DEF Job, IInv, TypeOK
  <2>3. local[q].pc # "idle" => Job(q) \in Executions  BY <2>1 DEF SenderOK
  <2>4. SenderOK(q)'
    BY <2>1, <2>2, <2>3 DEF SenderOK, Sending, Clean, row
  <2>5. SeenOK(q)'
    <3> SUFFICES ASSUME Job(q) \in Executions  PROVE SeenOK(q)'
      BY <2>2 DEF SeenOK
    <3>1. local[q].seen.executed \in Nat
      BY <2>2, BoundsAssumption DEF Locals, Orders, NoOrder
    <3>2. filled[Job(q)] \in Nat /\ filled'[Job(q)] \in Nat
      BY BoundsAssumption DEF IInv, TypeOK
    <3>3. local[q].seen.executed <= filled'[Job(q)]
      BY <2>1, <3>1, <3>2 DEF SeenOK
    <3> QED  BY <2>1, <2>2, <3>3 DEF SeenOK
  <2>6. GoalOK(q)'
    BY <2>1, <2>2, <2>3 DEF GoalOK, Executed, ledger
  <2> QED  BY <2>4, <2>5, <2>6
<1>4. ExecutionInv'
  <2> SUFFICES ASSUME NEW x \in Executions  PROVE (AttemptOK(x) /\ MarketOK(x) /\ RowOK(x))'
    BY DEF ExecutionInv
  <2>1. AttemptOK(x) /\ RowOK(x)  BY DEF IInv, ExecutionInv
  <2>2. AttemptOK(x)'  BY <2>1 DEF AttemptOK, Clean, row
  <2>3. RowOK(x)'  BY <2>1 DEF RowOK, Executed, row, ledger
  <2> QED  BY <2>2, <2>3
<1>5. LedgerIsHonest'
  <2> SUFFICES ASSUME NEW x \in Executions
               PROVE  Executed(x)' <= filled'[x] /\ (summary'[x] = 0 \/ detail'[x] = 0)
    BY DEF LedgerIsHonest
  <2>1. Executed(x)' = Executed(x) /\ Executed(x) \in Nat
    BY BoundsAssumption DEF Executed, ledger, IInv, TypeOK
  <2>2. filled[x] \in Nat /\ filled'[x] \in Nat  BY BoundsAssumption DEF IInv, TypeOK
  <2> QED  BY <2>1, <2>2 DEF IInv, LedgerIsHonest, ledger
<1> QED  BY <1>1, <1>2, <1>3, <1>4, <1>5 DEF IInv

\* A request is accepted.
LEMMA AcceptOrderInv ==
  ASSUME IInv, NEW e \in Executions, NEW n \in AttemptNumbers, AcceptOrder(e, n)
  PROVE  IInv'
<1>1. /\ fate[e][n] = "ON_WIRE" /\ fate' = [fate EXCEPT ![e][n] = "ACCEPTED"]
      /\ market' = [market EXCEPT ![e] = IF @ = "NONE" THEN "OPEN" ELSE @]
      /\ UNCHANGED <<row, ledger, local, todo, filled>>
  BY DEF AcceptOrder, Deliver
<1>2. fate' \in [Executions -> [AttemptNumbers -> Fates]]
  BY <1>1 DEF IInv, TypeOK, Fates
<1>3. market' \in [Executions -> OrderStatuses \cup {"NONE"}]
  BY <1>1 DEF IInv, TypeOK, OrderStatuses
<1>4. /\ \A x \in Executions, m \in AttemptNumbers :
            fate'[x][m] = IF x = e /\ m = n THEN "ACCEPTED" ELSE fate[x][m]
      /\ \A x \in Executions :
            market'[x] = IF x = e /\ market[x] = "NONE" THEN "OPEN" ELSE market[x]
  BY <1>1 DEF IInv, TypeOK
<1>5. \A x \in Executions : MarketOK(x)'
  <2> SUFFICES ASSUME NEW x \in Executions  PROVE MarketOK(x)'
    OBVIOUS
  <2>1. MarketOK(x) /\ filled'[x] = filled[x]  BY <1>1 DEF IInv, ExecutionInv
  <2>2. CASE x # e  BY <1>4, <2>1, <2>2 DEF MarketOK
  <2>3. CASE x = e
    <3>1. fate'[x][n] = "ACCEPTED" /\ market'[x] # "NONE"
      BY <1>4, <2>3
    <3>2. market[x] = "NONE" => filled[x] # Quantity
      BY <2>1, BoundsAssumption DEF MarketOK
    <3> QED  BY <1>4, <2>1, <2>3, <3>1, <3>2 DEF MarketOK
  <2> QED  BY <2>2, <2>3
<1>6. filled' \in [Executions -> 0..Quantity] /\ \A x \in Executions : filled'[x] >= filled[x]
  BY <1>1, BoundsAssumption DEF IInv, TypeOK
<1>7. \A x \in Executions :
         /\ market[x] \in {"FILLED", "CANCELLED", "REJECTED"} => market'[x] = market[x]
         /\ \A m \in AttemptNumbers : fate'[x][m] = fate[x][m] \/ fate[x][m] = "ON_WIRE"
  BY <1>1, <1>4
<1> QED  BY <1>1, <1>2, <1>3, <1>5, <1>6, <1>7, ExchangeInv

\* A request is refused, or lost.
LEMMA DropOrderInv ==
  ASSUME IInv, NEW e \in Executions, NEW n \in AttemptNumbers, NEW outcome, DropOrder(e, n, outcome)
  PROVE  IInv'
<1>1. /\ outcome \in {"REFUSED", "LOST"}
      /\ fate[e][n] = "ON_WIRE" /\ fate' = [fate EXCEPT ![e][n] = outcome]
      /\ UNCHANGED <<row, ledger, local, todo, filled, market>>
  BY DEF DropOrder, Deliver
<1>2. fate' \in [Executions -> [AttemptNumbers -> Fates]]
  BY <1>1 DEF IInv, TypeOK, Fates
<1>3. \A x \in Executions, m \in AttemptNumbers :
         fate'[x][m] = IF x = e /\ m = n THEN outcome ELSE fate[x][m]
  BY <1>1 DEF IInv, TypeOK
<1>4. \A x \in Executions : MarketOK(x)'
  <2> SUFFICES ASSUME NEW x \in Executions  PROVE MarketOK(x)'
    OBVIOUS
  <2>1. MarketOK(x) /\ filled'[x] = filled[x] /\ market'[x] = market[x]
    BY <1>1 DEF IInv, ExecutionInv
  <2>2. \A m \in AttemptNumbers : fate'[x][m] = "ACCEPTED" <=> fate[x][m] = "ACCEPTED"
    BY <1>1, <1>3
  <2> QED  BY <2>1, <2>2 DEF MarketOK
<1>5. /\ filled' \in [Executions -> 0..Quantity] /\ \A x \in Executions : filled'[x] >= filled[x]
      /\ market' \in [Executions -> OrderStatuses \cup {"NONE"}]
  BY <1>1, BoundsAssumption DEF IInv, TypeOK
<1>6. \A x \in Executions :
         /\ market[x] \in {"FILLED", "CANCELLED", "REJECTED"} => market'[x] = market[x]
         /\ \A m \in AttemptNumbers : fate'[x][m] = fate[x][m] \/ fate[x][m] = "ON_WIRE"
  BY <1>1, <1>3
<1> QED  BY <1>1, <1>2, <1>4, <1>5, <1>6, ExchangeInv

\* A trade is made.
LEMMA FillOrderInv ==
  ASSUME IInv, NEW e \in Executions, FillOrder(e)
  PROVE  IInv'
<1>1. /\ market[e] = "OPEN" /\ filled' = [filled EXCEPT ![e] = @ + 1]
      /\ market' = [market EXCEPT ![e] = IF filled[e] + 1 = Quantity THEN "FILLED" ELSE @]
      /\ UNCHANGED <<row, ledger, local, todo, fate>>
  BY DEF FillOrder
<1>2. MarketOK(e) /\ TypeOK  BY DEF IInv, ExecutionInv
<1>3. filled[e] \in Nat /\ filled[e] < Quantity /\ filled[e] + 1 \in 0..Quantity
  <2>1. filled[e] # Quantity  BY <1>1, <1>2 DEF MarketOK
  <2>2. filled[e] \in 0..Quantity  BY <1>2 DEF TypeOK
  <2> QED  BY <2>1, <2>2, BoundsAssumption
<1>4. /\ filled' \in [Executions -> 0..Quantity]
      /\ \A x \in Executions : filled'[x] = IF x = e THEN filled[x] + 1 ELSE filled[x]
  BY <1>1, <1>2, <1>3 DEF TypeOK
<1>5. /\ market' \in [Executions -> OrderStatuses \cup {"NONE"}]
      /\ \A x \in Executions :
            market'[x] = IF x = e /\ filled[e] + 1 = Quantity THEN "FILLED" ELSE market[x]
  BY <1>1, <1>2 DEF TypeOK, OrderStatuses
<1>6. \A x \in Executions : filled[x] \in Nat  BY <1>2, BoundsAssumption DEF TypeOK
<1>7. \A x \in Executions : filled'[x] >= filled[x]  BY <1>4, <1>6
<1>8. \A x \in Executions : MarketOK(x)'
  <2> SUFFICES ASSUME NEW x \in Executions  PROVE MarketOK(x)'
    OBVIOUS
  <2>1. MarketOK(x) /\ fate'[x] = fate[x]  BY <1>1 DEF IInv, ExecutionInv
  <2>2. CASE x # e  BY <1>4, <1>5, <2>1, <2>2 DEF MarketOK
  <2>3. CASE x = e
    <3>1. filled'[x] = filled[x] + 1 /\ market[x] = "OPEN"  BY <1>1, <1>4, <2>3
    <3>2. market'[x] = IF filled'[x] = Quantity THEN "FILLED" ELSE "OPEN"
      BY <1>1, <1>4, <1>5, <2>3
    <3> QED  BY <2>1, <3>1, <3>2 DEF MarketOK
  <2> QED  BY <2>2, <2>3
<1>9. \A x \in Executions :
         market[x] \in {"FILLED", "CANCELLED", "REJECTED"} => market'[x] = market[x]
  BY <1>1, <1>5
<1>10. fate' \in [Executions -> [AttemptNumbers -> Fates]]  BY <1>1, <1>2 DEF TypeOK
<1> QED  BY <1>1, <1>4, <1>5, <1>7, <1>8, <1>9, <1>10, ExchangeInv

\* The order is cancelled or rejected.
LEMMA CloseOrderInv ==
  ASSUME IInv, NEW e \in Executions, NEW status, CloseOrder(e, status)
  PROVE  IInv'
<1>1. /\ market[e] = "OPEN" /\ status \in {"CANCELLED", "REJECTED"}
      /\ status = "REJECTED" => filled[e] \in FillsBeforeRejection
      /\ market' = [market EXCEPT ![e] = status]
      /\ UNCHANGED <<row, ledger, local, todo, fate, filled>>
  BY DEF CloseOrder
<1>2. /\ market' \in [Executions -> OrderStatuses \cup {"NONE"}]
      /\ \A x \in Executions : market'[x] = IF x = e THEN status ELSE market[x]
  BY <1>1 DEF IInv, TypeOK, OrderStatuses
<1>3. \A x \in Executions : MarketOK(x)'
  <2> SUFFICES ASSUME NEW x \in Executions  PROVE MarketOK(x)'
    OBVIOUS
  <2>1. MarketOK(x) /\ fate'[x] = fate[x] /\ filled'[x] = filled[x]
    BY <1>1 DEF IInv, ExecutionInv
  <2> QED  BY <1>1, <1>2, <2>1 DEF MarketOK
<1>4. /\ filled' \in [Executions -> 0..Quantity] /\ \A x \in Executions : filled'[x] >= filled[x]
      /\ fate' \in [Executions -> [AttemptNumbers -> Fates]]
  BY <1>1, BoundsAssumption DEF IInv, TypeOK
<1>5. \A x \in Executions :
         /\ market[x] \in {"FILLED", "CANCELLED", "REJECTED"} => market'[x] = market[x]
         /\ \A m \in AttemptNumbers : fate'[x][m] = fate[x][m] \/ fate[x][m] = "ON_WIRE"
  BY <1>1, <1>2
<1> QED  BY <1>1, <1>2, <1>3, <1>4, <1>5, ExchangeInv

\* Every step keeps the invariant.
LEMMA NextInv == IInv /\ [Next]_vars => IInv'
<1> SUFFICES ASSUME IInv, [Next]_vars  PROVE IInv'
  OBVIOUS
<1>1. ASSUME NEW p \in Workers, SubmitStep(p)  PROVE IInv'
  BY <1>1, SubmitNewInv, SubmitRetryInv, ClaimsInv, BeginAttemptInv, SendOrderInv,
     PlaceAmbiguousInv, PlaceRefusedInv, PlaceAcceptedInv
  DEF SubmitStep
<1>2. ASSUME NEW p \in Workers, RecoverStep(p)  PROVE IInv'
  <2>1. CASE RecoverSubmitted(p)
    <3>1. Job(p) \in Executions
      BY <2>1 DEF IInv, WorkerInv, SenderOK, RecoverSubmitted, At
    <3> QED  BY <2>1, <3>1, RecoverInv
  <2> QED
    BY <1>2, <2>1, RecoverInv, ReconcileInv, LookupFoundInv, LookupMissingInv, ReadFillsInv,
       SettleInv, ReadFillsAgainInv
    DEF RecoverStep
<1>3. ASSUME NEW p \in Workers, CancelStep(p) \/ Crash(p)  PROVE IInv'
  BY <1>3, CancelInv, CancelEndsInv, CrashInv DEF CancelStep
<1>4. CASE ExchangeStep
  BY <1>4, AcceptOrderInv, DropOrderInv, FillOrderInv, CloseOrderInv DEF ExchangeStep
<1>5. CASE UNCHANGED vars
  <2>1. \A e \in Executions : MarketOK(e)'
    BY <1>5 DEF IInv, ExecutionInv, MarketOK, vars, exchange
  <2>2. TypeOK'  BY <1>5 DEF IInv, TypeOK, vars, row, ledger, exchange
  <2>3. \A x \in Executions : filled'[x] >= filled[x]
    BY <1>5, BoundsAssumption DEF IInv, TypeOK, vars, exchange
  <2>4. \A x \in Executions, n \in AttemptNumbers : market'[x] = market[x] /\ fate'[x][n] = fate[x][n]
    BY <1>5 DEF vars, exchange
  <2>5. \A x \in Executions : market'[x] = market[x]  BY <1>5 DEF vars, exchange
  <2> QED  BY <1>5, <2>1, <2>2, <2>3, <2>4, <2>5, ExchangeInv DEF TypeOK, vars
<1> QED  BY <1>1, <1>2, <1>3, <1>4, <1>5 DEF Next

-----------------------------------------------------------------------------
(* What the invariant gives.                                               *)

\* The inductive invariant holds throughout.
LEMMA Invariance == Spec => []IInv
  BY InitInv, NextInv, PTL DEF Spec

\* Every variable keeps its type, whatever the workers and the exchange do.
THEOREM Typing == Spec => []TypeOK
<1>1. IInv => TypeOK  BY DEF IInv
<1> QED  BY <1>1, Invariance, PTL

\* The exchange never accepts two orders for one execution: submit() makes a new
\* attempt only after every earlier one came back refused.
THEOREM OneOrder == Spec => []AtMostOneOrder
<1>1. IInv => AtMostOneOrder
  BY OnlyOne DEF IInv, ExecutionInv, AtMostOneOrder
<1> QED  BY <1>1, Invariance, PTL

\* RETRY_WAIT, FAILED and REJECTED are written only over attempts that cannot
\* become an order any more.
THEOREM CleanRetry == Spec => []RetryIsClean
<1>1. IInv => RetryIsClean
  BY DEF IInv, ExecutionInv, AttemptOK, Clean, RetryIsClean, Possible
<1> QED  BY <1>1, Invariance, PTL

\* A row left before SUBMITTING by a worker that died has no request anywhere.
THEOREM CleanUnsent == Spec => []UnsentIsClean
<1>1. IInv => UnsentIsClean
  <2> SUFFICES ASSUME IInv, NEW e \in Executions,
                      state[e] \in {"ABSENT", "CREATED", "VALIDATED", "QUEUED"},
                      NEW n \in AttemptNumbers
               PROVE  fate[e][n] \notin {"ON_WIRE", "ACCEPTED"}
    BY DEF UnsentIsClean, Possible
  <2>1. AttemptOK(e)  BY DEF IInv, ExecutionInv
  <2>2. attempts[e] = 0 /\ n > 0  BY <2>1 DEF AttemptOK, Early, AttemptNumbers
  <2> QED  BY <2>1, <2>2 DEF AttemptOK
<1> QED  BY <1>1, Invariance, PTL

\* ingest_fills() never counts an execution twice, however its trades and its
\* summary arrive.
THEOREM HonestLedger == Spec => []LedgerIsHonest
<1>1. IInv => LedgerIsHonest  BY DEF IInv
<1> QED  BY <1>1, Invariance, PTL

\* What recover() has decided, the table allows from where it found the row.
LEMMA AllowedFact == IInv => RecoverAsksAllowed
<1> SUFFICES ASSUME IInv, NEW p \in Workers, At(p, "settle")
             PROVE  local[p].goal \in {local[p].source} \cup AllowedLiveTransitions(local[p].source)
  BY DEF RecoverAsksAllowed
<1>1. GoalOK(p) /\ local[p].pc = "settle"  BY DEF IInv, WorkerInv, At
<1>2. CASE local[p].source = "RECONCILING"
  BY <1>1, <1>2 DEF GoalOK, AllowedLiveTransitions
<1>3. CASE local[p].source = "ACKNOWLEDGED"
  BY <1>1, <1>3 DEF GoalOK, AllowedLiveTransitions
<1>4. CASE local[p].source = "PARTIALLY_FILLED"
  BY <1>1, <1>4 DEF GoalOK, AllowedLiveTransitions
<1> QED  BY <1>1, <1>2, <1>3, <1>4 DEF GoalOK

\* recover() never asks transition() for a pair the table refuses.
THEOREM AllowedRecovery == Spec => []RecoverAsksAllowed
  BY AllowedFact, Invariance, PTL

\* An execution that has ended has no order working, or on its way.
LEMMA QuietFact == IInv => TerminalIsQuiet
<1> SUFFICES ASSUME IInv, NEW e \in Executions,
                    state[e] \in {"FILLED", "CANCELLED", "REJECTED", "FAILED"}
             PROVE  /\ market[e] # "OPEN"
                    /\ \A n \in AttemptNumbers : fate[e][n] # "ON_WIRE"
  BY DEF TerminalIsQuiet
<1>1. AttemptOK(e) /\ MarketOK(e) /\ RowOK(e) /\ TypeOK  BY DEF IInv, ExecutionInv
<1>2. CASE Clean(e)
  BY <1>1, <1>2 DEF Clean, MarketOK
<1>3. CASE market[e] \in {"FILLED", "CANCELLED", "REJECTED"}
  <2>1. PICK m \in AttemptNumbers : fate[e][m] = "ACCEPTED"
    BY <1>1, <1>3 DEF MarketOK
  <2> QED  BY <1>1, <1>3, <2>1, OnlyOne
<1> QED  BY <1>1, <1>2, <1>3 DEF AttemptOK, RowOK

\* An execution with a request that may be an order stays where it is looked at,
\* or says how the order ended.
LEMMA SightFact == IInv => OrdersInSight
<1> SUFFICES ASSUME IInv, NEW e \in Executions, Possible(e)
             PROVE  \/ state[e] \in OpenLocalStates \cup {"CANCEL_PENDING"}
                    \/ state[e] = market[e]
                    \/ state[e] = "CANCELLED" /\ market[e] = "FILLED"
  BY DEF OrdersInSight
<1>1. TypeOK /\ AttemptOK(e) /\ RowOK(e)  BY DEF IInv, ExecutionInv
<1>2. ~Clean(e)  BY DEF Clean, Possible
<1>3. state[e] \notin Early
  <2>1. \A n \in AttemptNumbers : n > 0  BY DEF AttemptNumbers
  <2> QED  BY <1>1, <1>2, <2>1 DEF AttemptOK, Clean
<1>4. state[e] \notin {"RETRY_WAIT", "FAILED"}
  BY <1>1, <1>2 DEF AttemptOK
<1>5. /\ state[e] = "REJECTED" => market[e] = "REJECTED"
      /\ state[e] = "FILLED" => market[e] = "FILLED"
      /\ state[e] = "CANCELLED" => market[e] \in {"CANCELLED", "FILLED"}
  BY <1>1, <1>2 DEF AttemptOK, RowOK
<1>6. state[e] \in States \cup {"ABSENT"}  BY <1>1 DEF TypeOK
<1> QED  BY <1>3, <1>4, <1>5, <1>6 DEF Early, States, OpenLocalStates

\* Whoever dies on the way, no order is forgotten: as long as it may exist, the
\* reconciliation looks at its execution, until that says how the order ended.
THEOREM SightedOrders == Spec => []OrdersInSight
  BY SightFact, Invariance, PTL

\* No order is left working, or on its way, behind a row that no reconciliation
\* looks at again.
THEOREM QuietTerminal == Spec => []TerminalIsQuiet
  BY QuietFact, Invariance, PTL

=============================================================================
