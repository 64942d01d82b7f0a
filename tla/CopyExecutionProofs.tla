------------------------ MODULE CopyExecutionProofs ------------------------
(***************************************************************************)
(* Theorems about CopyExecution, for every set of keys and workers and any *)
(* number of attempts.                                                     *)
(*                                                                         *)
(* The invariant IInv says what a worker's place in execute() implies of   *)
(* the rows it works on (DeskOK), and how a key's journal row and order    *)
(* row agree (KeyOK).  What other workers do to those rows keeps it,       *)
(* because rows only move forward (Forward).  A second invariant compares  *)
(* the attempt a worker knows of with the one its row counts (Counted):    *)
(* it says which claims may lose their lease.                              *)
(***************************************************************************)
EXTENDS CopyExecution, TLAPS

Early == {"ABSENT", "PLANNED", "REJECTED"}

Working == {"dispatch", "submit", "accept", "fill", "finish", "failing", "retry", "unclaim"}

DeskOK(w) ==
    LET k == desk[w].key
        pc == desk[w].pc IN
    /\ pc # "none" => k \in Keys
    /\ pc \in Working => status[k] \notin Early
    /\ pc \in {"claim", "dispatch", "submit", "accept", "fill"} =>
          desk[w].offer \in {"SMALL", "LARGE"}
    /\ pc \in {"accept", "fill", "finish"} => order[k] # "NONE"
    /\ pc = "finish" => bought[k] > 0 \/ requested[k] = 0
    /\ desk[w].stage = "recovering" => \A claim \in list[w] : status[claim.key] \notin Early

KeyOK(k) ==
    /\ order[k] = "NONE" => requested[k] = 0
    /\ bought[k] <= requested[k]
    /\ order[k] \in {"FILLED", "PARTIALLY_FILLED"} <=> bought[k] > 0
    /\ status[k] \in Early => bought[k] = 0
    /\ status[k] = "EXECUTED" => order[k] # "NONE" /\ (bought[k] > 0 \/ requested[k] = 0)

IInv ==
    /\ TypeOK
    /\ \A k \in Keys : KeyOK(k)
    /\ \A w \in Workers : DeskOK(w)

\* What no step undoes.
Forward(k) ==
    /\ status[k] \notin Early => status'[k] \notin Early
    /\ order[k] # "NONE" => order'[k] # "NONE" /\ requested'[k] = requested[k]
    /\ bought[k] > 0 => bought'[k] = bought[k]
    /\ status[k] \in Terminal => status'[k] = status[k]

\* The rest of the desks is not touched.
Others(w) ==
    \A v \in Workers \ {w} : desk'[v] = desk[v] /\ list'[v] = list[v]

\* What a step of worker w has to show.
StepOK(w) ==
    /\ TypeOK'
    /\ \A k \in Keys : KeyOK(k)'
    /\ \A k \in Keys : Forward(k)
    /\ DeskOK(w)'
    /\ Others(w)

-----------------------------------------------------------------------------
\* A worker that does not move keeps what it may assume, since rows only move
\* forward.
LEMMA OthersKept ==
    ASSUME NEW v \in Workers, TypeOK, TypeOK', DeskOK(v),
           desk'[v] = desk[v], list'[v] = list[v],
           \A k \in Keys : Forward(k)
    PROVE  DeskOK(v)'
<1>1. \A claim \in list[v] : claim.key \in Keys
  BY DEF TypeOK
<1>2. desk[v].key \in Keys => bought[desk[v].key] \in 0..2 /\ bought'[desk[v].key] \in 0..2
  BY DEF TypeOK
<1> QED
  BY <1>1, <1>2 DEF DeskOK, Forward, Working

LEMMA StepKeeps ==
    ASSUME NEW w \in Workers, IInv, StepOK(w)
    PROVE  IInv'
<1>1. ASSUME NEW v \in Workers PROVE DeskOK(v)'
  <2>1. CASE v = w
    BY <2>1 DEF StepOK
  <2>2. CASE v # w
    BY <2>2, OthersKept DEF StepOK, IInv, Others
  <2> QED BY <2>1, <2>2
<1> QED BY <1>1 DEF IInv, StepOK

\* Steps that only move the worker, or bookkeeping that no invariant looks at.
LEMMA RowsKept ==
    ASSUME NEW w \in Workers, IInv, TypeOK', Others(w), DeskOK(w)',
           UNCHANGED <<status, order, requested, bought>>
    PROVE  StepOK(w)
BY DEF StepOK, IInv, KeyOK, Forward, Terminal

-----------------------------------------------------------------------------
(* The cycle. *)

\* A worker that leaves its cycle without touching a row.
LEMMA AbortOK ==
    ASSUME NEW w \in Workers, IInv, Abort(w), UNCHANGED <<journal, paper, projected>>
    PROVE  StepOK(w)
<1>1. UNCHANGED <<status, order, requested, bought>>
  BY DEF journal, paper
<1>2. TypeOK'
  <2>1. desk' \in [Workers -> Desks]
    BY DEF IInv, TypeOK, Abort, Start, Desks, Stages, Steps, Offers
  <2>2. list' \in [Workers -> SUBSET [key : Keys, attempt : Nat]]
    BY DEF IInv, TypeOK, Abort
  <2> QED
    BY <2>1, <2>2 DEF IInv, TypeOK, journal, paper
<1>3. DeskOK(w)' /\ Others(w)
  BY DEF IInv, TypeOK, DeskOK, Others, Abort, Start, Working
<1> QED
  BY <1>1, <1>2, <1>3, RowsKept

LEMMA OpenOK ==
    ASSUME NEW w \in Workers, NEW k \in Keys, NEW offer \in Offers, IInv, Open(w, k, offer)
    PROVE  StepOK(w)
<1>1. UNCHANGED <<status, order, requested, bought>>
  BY DEF Open, Free, At, Keep, journal, paper
<1>2. TypeOK'
  <2>1. desk[w] \in Desks
    BY DEF IInv, TypeOK
  <2>2. desk' \in [Workers -> Desks]
    BY <2>1 DEF IInv, TypeOK, Open, Free, At, Keep, Desks, Steps
  <2> QED
    BY <2>2 DEF IInv, TypeOK, Open, Free, At, Keep, journal, paper
<1>3. DeskOK(w)' /\ Others(w)
  BY DEF IInv, TypeOK, DeskOK, Others, Open, Free, At, Keep, journal, paper, Desks, Working
<1> QED
  BY <1>1, <1>2, <1>3, RowsKept

LEMMA SyncExistingOK ==
    ASSUME NEW w \in Workers, NEW k \in Keys, IInv, SyncExisting(w, k)
    PROVE  StepOK(w)
<1>1. UNCHANGED <<status, order, requested, bought>>
  BY DEF SyncExisting, Keep, journal, paper
<1>2. TypeOK'
  <2>1. desk[w] \in Desks
    BY DEF IInv, TypeOK
  <2>2. desk' \in [Workers -> Desks]
    BY <2>1 DEF IInv, TypeOK, SyncExisting, Keep, Desks
  <2> QED
    BY <2>2 DEF IInv, TypeOK, SyncExisting, Keep, journal, paper
<1>3. DeskOK(w)' /\ Others(w)
  BY DEF IInv, TypeOK, DeskOK, Others, SyncExisting, Keep, journal, paper, Desks, Working
<1> QED
  BY <1>1, <1>2, <1>3, RowsKept

LEMMA ListExpiredOK ==
    ASSUME NEW w \in Workers, NEW expired \in SUBSET Keys, IInv, ListExpired(w, expired)
    PROVE  StepOK(w)
<1>1. UNCHANGED <<status, order, requested, bought>>
  BY DEF ListExpired, Free, At, Claims, Expirable, Keep, journal, paper
<1>2. TypeOK'
  <2>1. desk[w] \in Desks
    BY DEF IInv, TypeOK
  <2>2. desk' \in [Workers -> Desks]
    BY <2>1 DEF IInv, TypeOK, ListExpired, Free, At, Claims, Expirable, Keep, Desks, Stages
  <2>3. list' \in [Workers -> SUBSET [key : Keys, attempt : Nat]]
    BY DEF IInv, TypeOK, ListExpired, Claims
  <2> QED
    BY <2>2, <2>3 DEF IInv, TypeOK, ListExpired, Free, At, Claims, Expirable, Keep, journal, paper
<1>3. DeskOK(w)' /\ Others(w)
  BY DEF IInv, TypeOK, DeskOK, Others, ListExpired, Free, At, Claims, Expirable, Keep, journal, paper, Desks, Working, Early
<1> QED
  BY <1>1, <1>2, <1>3, RowsKept

LEMMA HandBackOK ==
    ASSUME NEW w \in Workers, NEW claim \in list[w], IInv, HandBack(w, claim)
    PROVE  StepOK(w)
<1>1. UNCHANGED <<status, order, requested, bought>>
  BY DEF HandBack, Free, At, Keep, journal, paper
<1>2. TypeOK'
  <2>1. /\ desk[w] \in Desks
        /\ claim.key \in Keys /\ claim.attempt \in Nat /\ plan[claim.key] \in Offers
    BY DEF IInv, TypeOK
  <2>2. desk' \in [Workers -> Desks]
    BY <2>1 DEF IInv, TypeOK, HandBack, Free, At, Keep, Desks, Steps
  <2>3. list' \in [Workers -> SUBSET [key : Keys, attempt : Nat]]
    BY DEF IInv, TypeOK, HandBack
  <2> QED
    BY <2>2, <2>3 DEF IInv, TypeOK, HandBack, Free, At, Keep, journal, paper
<1>3. DeskOK(w)' /\ Others(w)
  BY DEF IInv, TypeOK, DeskOK, Others, HandBack, Free, At, Keep, journal, paper, Desks, Working, Early
<1> QED
  BY <1>1, <1>2, <1>3, RowsKept

LEMMA ListPendingOK ==
    ASSUME NEW w \in Workers, NEW due \in SUBSET Keys, IInv, ListPending(w, due)
    PROVE  StepOK(w)
<1>1. UNCHANGED <<status, order, requested, bought>>
  BY DEF ListPending, Free, At, Keep, journal, paper
<1>2. TypeOK'
  <2>1. desk[w] \in Desks
    BY DEF IInv, TypeOK
  <2>2. desk' \in [Workers -> Desks]
    BY <2>1 DEF IInv, TypeOK, ListPending, Free, At, Keep, Desks, Stages
  <2>3. list' \in [Workers -> SUBSET [key : Keys, attempt : Nat]]
    BY DEF IInv, TypeOK, ListPending
  <2> QED
    BY <2>2, <2>3 DEF IInv, TypeOK, ListPending, Free, At, Keep, journal, paper
<1>3. DeskOK(w)' /\ Others(w)
  BY DEF IInv, TypeOK, DeskOK, Others, ListPending, Free, At, Keep, journal, paper, Desks, Working
<1> QED
  BY <1>1, <1>2, <1>3, RowsKept

LEMMA DrainOK ==
    ASSUME NEW w \in Workers, NEW claim \in list[w], IInv, Drain(w, claim)
    PROVE  StepOK(w)
<1>1. UNCHANGED <<status, order, requested, bought>>
  BY DEF Drain, Free, At, Keep, journal, paper
<1>2. TypeOK'
  <2>1. /\ desk[w] \in Desks
        /\ claim.key \in Keys /\ claim.attempt \in Nat /\ plan[claim.key] \in Offers
    BY DEF IInv, TypeOK
  <2>2. desk' \in [Workers -> Desks]
    BY <2>1 DEF IInv, TypeOK, Drain, Free, At, Keep, Desks, Steps
  <2>3. list' \in [Workers -> SUBSET [key : Keys, attempt : Nat]]
    BY DEF IInv, TypeOK, Drain
  <2> QED
    BY <2>2, <2>3 DEF IInv, TypeOK, Drain, Free, At, Keep, journal, paper
<1>3. DeskOK(w)' /\ Others(w)
  BY DEF IInv, TypeOK, DeskOK, Others, Drain, Free, At, Keep, journal, paper, Desks, Working
<1> QED
  BY <1>1, <1>2, <1>3, RowsKept

LEMMA EndCycleOK ==
    ASSUME NEW w \in Workers, IInv, EndCycle(w)
    PROVE  StepOK(w)
<1>1. UNCHANGED <<status, order, requested, bought>>
  BY DEF EndCycle, Free, At, Abort, Start, Keep, journal, paper
<1>2. TypeOK'
  <2>1. desk[w] \in Desks
    BY DEF IInv, TypeOK
  <2>2. desk' \in [Workers -> Desks]
    BY <2>1 DEF IInv, TypeOK, EndCycle, Free, At, Abort, Start, Keep, Desks, Stages, Steps, Offers
  <2>3. list' \in [Workers -> SUBSET [key : Keys, attempt : Nat]]
    BY DEF IInv, TypeOK, EndCycle, Abort
  <2> QED
    BY <2>2, <2>3 DEF IInv, TypeOK, EndCycle, Free, At, Abort, Start, Keep, journal, paper
<1>3. DeskOK(w)' /\ Others(w)
  BY DEF IInv, TypeOK, DeskOK, Others, EndCycle, Free, At, Abort, Start, Keep, journal, paper, Desks, Working
<1> QED
  BY <1>1, <1>2, <1>3, RowsKept

LEMMA CrashOK ==
    ASSUME NEW w \in Workers, IInv, Crash(w)
    PROVE  StepOK(w)
BY AbortOK DEF Crash, Keep

LEMMA DispatchOK ==
    ASSUME NEW w \in Workers, NEW answer \in Answers, IInv, Dispatch(w, answer)
    PROVE  StepOK(w)
<1>1. UNCHANGED <<status, order, requested, bought>>
  BY DEF Dispatch, Goto, At, Keep, journal, paper
<1>2. TypeOK'
  <2>1. desk[w] \in Desks
    BY DEF IInv, TypeOK
  <2>2. desk' \in [Workers -> Desks]
    BY <2>1 DEF IInv, TypeOK, Dispatch, Goto, At, Keep, Desks, Steps
  <2> QED
    BY <2>2 DEF IInv, TypeOK, Dispatch, Goto, At, Keep, journal, paper
<1>3. DeskOK(w)' /\ Others(w)
  BY DEF IInv, TypeOK, DeskOK, Others, Dispatch, Goto, At, Keep, journal, paper, Desks, Working
<1> QED
  BY <1>1, <1>2, <1>3, RowsKept

LEMMA UnclaimOK ==
    ASSUME NEW w \in Workers, IInv, Unclaim(w)
    PROVE  StepOK(w)
<1>1. UNCHANGED <<status, order, requested, bought>>
  BY DEF Unclaim, Done, Idle, Start, At, Keep, journal, paper
<1>2. TypeOK'
  <2>1. desk[w] \in Desks
    BY DEF IInv, TypeOK
  <2>2. desk' \in [Workers -> Desks]
    BY <2>1 DEF IInv, TypeOK, Unclaim, Done, Idle, Start, At, Keep, Desks, Stages, Steps, Offers
  <2> QED
    BY <2>2 DEF IInv, TypeOK, Unclaim, Done, Idle, Start, At, Keep, journal, paper
<1>3. DeskOK(w)' /\ Others(w)
  BY DEF IInv, TypeOK, DeskOK, Others, Unclaim, Done, Idle, Start, At, Keep, journal, paper, Desks, Working
<1> QED
  BY <1>1, <1>2, <1>3, RowsKept

LEMMA ReturnOK ==
    ASSUME NEW w \in Workers, IInv, Return(w)
    PROVE  StepOK(w)
<1> DEFINE k == Key(w)
           more == [Idle(w) EXCEPT !.executed = IF status[k] = "EXECUTED" THEN @ \cup {k} ELSE @]
<1>1. UNCHANGED <<status, order, requested, bought, list>>
  BY DEF Return, Done, journal, paper
<1>2. desk[w] \in Desks /\ k \in Keys
  BY DEF IInv, TypeOK, DeskOK, Return, At, Key
<1>3. Idle(w) \in Desks /\ more \in Desks
  BY <1>2 DEF Idle, Start, Desks, Stages, Steps, Offers
<1>4. desk' = [desk EXCEPT ![w] = Idle(w)] \/ desk' = [desk EXCEPT ![w] = more]
  BY DEF Return, Done, Key
<1>5. TypeOK'
  <2>1. desk' \in [Workers -> Desks]
    BY <1>3, <1>4 DEF IInv, TypeOK
  <2>2. projected' \in [Keys -> BOOLEAN]
    BY <1>2 DEF IInv, TypeOK, Return, Key
  <2> QED
    BY <1>1, <2>1, <2>2 DEF IInv, TypeOK, Return, journal, paper
<1>6. Others(w)
  BY <1>1, <1>4 DEF IInv, TypeOK, Others
<1>7. more.pc = "none" /\ more.stage = desk[w].stage
  BY DEF Idle, Start
<1>8. DeskOK(w)'
  <2> HIDE DEF more
  <2>1. /\ desk'[w].pc = "none"
        /\ desk'[w].stage = desk[w].stage
    BY <1>4, <1>7 DEF IInv, TypeOK, Idle, Start
  <2> QED
    BY <1>1, <2>1 DEF IInv, DeskOK, Working
<1> QED
  BY <1>1, <1>5, <1>6, <1>8, RowsKept

-----------------------------------------------------------------------------
(* execute() and the journal. *)

\* A journal transition, whatever it asks for: REJECTED is only reached from
\* PLANNED, where nothing was bought, and EXECUTED is asked for after the fill.
LEMMA TransitionOK ==
    ASSUME NEW w \in Workers, NEW target \in JournalStatuses \ {"PLANNED"},
           NEW next \in {"return", "unclaim"},
           IInv, desk[w].pc # "none", Transition(w, target, next),
           next = "unclaim" => target # "REJECTED",
           target = "EXECUTED" => desk[w].pc = "finish"
    PROVE  StepOK(w)
<1> DEFINE k == Key(w)
<1>1. k \in Keys /\ desk[w] \in Desks
  BY DEF IInv, TypeOK, DeskOK, Key
<1>2. CASE target \notin Allowed(status[k])
  BY <1>2, AbortOK DEF Transition, journal
<1>3. CASE target \in Allowed(status[k])
  <2>1. /\ status' = [status EXCEPT ![k] = target]
        /\ desk' = [desk EXCEPT ![w].pc = next]
        /\ UNCHANGED <<plan, attempts, leased, order, requested, bought, projected, list>>
    BY <1>3 DEF Transition, Goto, Key, paper
  <2>2. desk' \in [Workers -> Desks]
    BY <1>1, <2>1 DEF IInv, TypeOK, Desks, Steps
  <2>3. TypeOK'
    BY <1>1, <2>1, <2>2 DEF IInv, TypeOK
  <2>4. status[k] \in JournalStatuses \cup {"ABSENT"}
    BY <1>1 DEF IInv, TypeOK
  <2>5. /\ status[k] \notin Early => target \notin Early
        /\ target \in Early => status[k] \in Early
        /\ status[k] \in Terminal => target = status[k]
    BY <1>3, <2>4 DEF Allowed, JournalStatuses, Terminal, Early
  <2>6. \A x \in Keys : Forward(x)
    BY <1>1, <2>1, <2>5 DEF IInv, TypeOK, Forward
  <2>7. \A x \in Keys : KeyOK(x)'
    <3>1. target = "EXECUTED" => order[k] # "NONE" /\ (bought[k] > 0 \/ requested[k] = 0)
      BY DEF IInv, DeskOK, Key
    <3>2. target \in Early => bought[k] = 0
      BY <1>1, <2>5 DEF IInv, KeyOK
    <3> QED
      BY <1>1, <2>1, <3>1, <3>2 DEF IInv, TypeOK, KeyOK
  <2>8. Others(w)
    BY <2>1 DEF IInv, TypeOK, Others
  <2>9. DeskOK(w)'
    <3>1. desk'[w].pc = next /\ desk'[w].key = k /\ desk'[w].stage = desk[w].stage
      BY <2>1 DEF IInv, TypeOK, Key, Desks
    <3>2. next = "unclaim" => status'[k] \notin Early
      BY <1>1, <2>1 DEF IInv, TypeOK, Early, JournalStatuses, Terminal
    <3>3. \A claim \in list[w] : claim.key \in Keys
      BY DEF IInv, TypeOK
    <3>4. desk[w].stage = "recovering" => \A claim \in list'[w] : status'[claim.key] \notin Early
      BY <2>1, <2>6, <3>3 DEF IInv, DeskOK, Forward
    <3> QED
      BY <1>1, <3>1, <3>2, <3>4 DEF DeskOK, Working
  <2> QED
    BY <2>3, <2>6, <2>7, <2>8, <2>9 DEF StepOK
<1> QED
  BY <1>2, <1>3

\* A step along the same key that leaves the rows alone.
LEMMA GotoOK ==
    ASSUME NEW w \in Workers, IInv, desk[w].pc # "none", Goto(w, "return"), Keep
    PROVE  StepOK(w)
<1>1. UNCHANGED <<status, order, requested, bought>>
  BY DEF Keep, journal, paper
<1>2. desk' \in [Workers -> Desks]
  BY DEF IInv, TypeOK, Goto, Desks, Steps
<1>3. TypeOK'
  BY <1>2 DEF IInv, TypeOK, Goto, Keep, journal, paper
<1>4. DeskOK(w)' /\ Others(w)
  BY <1>1 DEF IInv, TypeOK, DeskOK, Others, Goto, Desks, Working
<1> QED
  BY <1>1, <1>3, <1>4, RowsKept

LEMMA CheckOK ==
    ASSUME NEW w \in Workers, IInv, Check(w)
    PROVE  StepOK(w)
BY TransitionOK DEF Check, At, JournalStatuses, Terminal

LEMMA GiveBackOK ==
    ASSUME NEW w \in Workers, IInv, GiveBack(w)
    PROVE  StepOK(w)
BY TransitionOK DEF GiveBack, At, JournalStatuses, Terminal

LEMMA FailOK ==
    ASSUME NEW w \in Workers, IInv, Fail(w)
    PROVE  StepOK(w)
BY TransitionOK DEF Fail, At, JournalStatuses, Terminal

LEMMA FinishOK ==
    ASSUME NEW w \in Workers, IInv, Finish(w)
    PROVE  StepOK(w)
BY TransitionOK DEF Finish, At, JournalStatuses, Terminal

\* A step that keeps the orders, moves its own key's status forward, and leaves
\* the worker at a place that asks nothing of the order.
LEMMA StatusMoves ==
    ASSUME NEW w \in Workers, IInv, desk[w].pc # "none", TypeOK',
           UNCHANGED <<order, requested, bought, list>>,
           \A x \in Keys \ {Key(w)} : status'[x] = status[x],
           desk' = [desk EXCEPT ![w] = desk'[w]],
           desk'[w].key = Key(w), desk'[w].stage = desk[w].stage,
           desk'[w].pc \in {"unfit", "claim", "dispatch", "withdraw", "return"},
           desk'[w].pc = "dispatch" => status'[Key(w)] \notin Early,
           desk'[w].pc \in {"claim", "dispatch"} => desk'[w].offer \in {"SMALL", "LARGE"},
           status'[Key(w)] \in Early => status[Key(w)] \in Early,
           status[Key(w)] \in Terminal \/ status'[Key(w)] = "EXECUTED" =>
              status'[Key(w)] = status[Key(w)]
    PROVE  StepOK(w)
<1> DEFINE k == Key(w)
<1>1. k \in Keys
  BY DEF IInv, DeskOK, Key
<1>2. \A x \in Keys : Forward(x)
  BY <1>1 DEF Forward
<1>3. \A x \in Keys : KeyOK(x)'
  BY <1>1 DEF IInv, KeyOK
<1>4. Others(w)
  BY DEF IInv, TypeOK, Others
<1>5. DeskOK(w)'
  <2>1. desk[w].stage = "recovering" => \A claim \in list'[w] : status'[claim.key] \notin Early
    BY <1>2 DEF IInv, TypeOK, DeskOK, Forward
  <2> QED
    BY <1>1, <2>1 DEF DeskOK, Working
<1> QED
  BY <1>2, <1>3, <1>4, <1>5 DEF StepOK

LEMMA ReserveOK ==
    ASSUME NEW w \in Workers, IInv, Reserve(w)
    PROVE  StepOK(w)
<1> DEFINE k == Key(w)
<1>1. k \in Keys /\ desk[w] \in Desks /\ desk[w].pc = "reserve" /\ desk[w].offer \in Offers
  BY DEF IInv, TypeOK, DeskOK, Key, Reserve, At, Desks
<1>2. PICK next \in {"withdraw", "return", "unfit", "claim"} :
        /\ desk' = [desk EXCEPT ![w].pc = next]
        /\ next = "claim" => desk[w].offer \in {"SMALL", "LARGE"}
        /\ UNCHANGED list
  BY <1>1 DEF Reserve, Goto, Key, Offers
<1>3. UNCHANGED <<order, requested, bought>>
  BY DEF Reserve, paper
<1>4. /\ status[k] # "ABSENT" => status'[k] = status[k]
      /\ status[k] = "ABSENT" => status'[k] \in {"PLANNED", "REJECTED"}
      /\ \A x \in Keys \ {k} : status'[x] = status[x]
  BY <1>1 DEF IInv, TypeOK, Reserve, Key
<1>5. TypeOK'
  <2>1. desk' \in [Workers -> Desks]
    BY <1>1, <1>2 DEF IInv, TypeOK, Desks, Steps
  <2>2. status' \in [Keys -> JournalStatuses \cup {"ABSENT"}]
    BY <1>1 DEF IInv, TypeOK, Reserve, JournalStatuses, Terminal
  <2>3. plan' \in [Keys -> Offers]
    BY <1>1 DEF IInv, TypeOK, Reserve
  <2> QED
    BY <1>2, <1>3, <2>1, <2>2, <2>3 DEF IInv, TypeOK, Reserve
<1>6. desk' = [desk EXCEPT ![w] = desk'[w]] /\ desk'[w] = [desk[w] EXCEPT !.pc = next]
  BY <1>2 DEF IInv, TypeOK
<1>7. /\ desk'[w].pc = next /\ desk'[w].key = k /\ desk'[w].stage = desk[w].stage
      /\ desk'[w].offer = desk[w].offer
  BY <1>1, <1>6 DEF Desks, Key
<1>8. /\ status'[k] \in Early => status[k] \in Early
      /\ status[k] \in Terminal \/ status'[k] = "EXECUTED" => status'[k] = status[k]
  BY <1>4 DEF Early, Terminal
<1> HIDE DEF k
<1> QED
  BY <1>1, <1>2, <1>3, <1>4, <1>5, <1>6, <1>7, <1>8, StatusMoves DEF k

LEMMA ClaimOK ==
    ASSUME NEW w \in Workers, IInv, Claim(w)
    PROVE  StepOK(w)
<1> DEFINE k == Key(w)
<1>1. /\ k \in Keys /\ desk[w] \in Desks /\ desk[w].pc = "claim"
      /\ desk[w].offer \in {"SMALL", "LARGE"}
  BY DEF IInv, TypeOK, DeskOK, Key, Claim, ClaimOf, At
<1>2. CASE Due(k)
  <2>1. /\ status' = [status EXCEPT ![k] = "EXECUTING"]
        /\ attempts' = [attempts EXCEPT ![k] = @ + 1]
        /\ leased' = [leased EXCEPT ![k] = TRUE]
        /\ desk' = [desk EXCEPT ![w].pc = "dispatch", ![w].attempt = attempts[k] + 1]
        /\ UNCHANGED <<list, plan, order, requested, bought, projected>>
    BY <1>2 DEF Claim, ClaimOf, Key, paper
  <2>2. attempts[k] \in Nat /\ attempts[k] + 1 \in Nat
    BY <1>1 DEF IInv, TypeOK
  <2>3. desk' \in [Workers -> Desks]
    BY <1>1, <2>1, <2>2 DEF IInv, TypeOK, Desks, Steps
  <2>4. TypeOK'
    BY <1>1, <2>1, <2>2, <2>3 DEF IInv, TypeOK, JournalStatuses
  <2>5. /\ desk' = [desk EXCEPT ![w] = desk'[w]]
        /\ desk'[w].pc = "dispatch" /\ desk'[w].key = k /\ desk'[w].stage = desk[w].stage
        /\ desk'[w].offer = desk[w].offer
    BY <1>1, <2>1 DEF IInv, TypeOK, Desks, Key
  <2>6. /\ status'[k] = "EXECUTING" /\ status[k] \notin Terminal
        /\ \A x \in Keys \ {k} : status'[x] = status[x]
    BY <1>1, <1>2, <2>1 DEF IInv, TypeOK, Due, Terminal
  <2> HIDE DEF k
  <2> QED
    BY <1>1, <2>1, <2>4, <2>5, <2>6, StatusMoves DEF k, Early
<1>3. CASE ~Due(k)
  BY <1>1, <1>3, GotoOK DEF Claim, ClaimOf, Keep, journal
<1> QED
  BY <1>2, <1>3

-----------------------------------------------------------------------------
(* The order and its fill. *)

\* A step that keeps the journal, moves its own key's order forward, and leaves
\* the worker on its way to the fill or at its end.
LEMMA OrderMoves ==
    ASSUME NEW w \in Workers, NEW k \in Keys, k = Key(w),
           IInv, desk[w].pc # "none", TypeOK', Others(w),
           UNCHANGED <<status, list>>,
           \A x \in Keys \ {k} :
              order'[x] = order[x] /\ requested'[x] = requested[x] /\ bought'[x] = bought[x],
           KeyOK(k)', Forward(k),
           desk'[w].key = k, desk'[w].stage = desk[w].stage,
           desk'[w].pc \in {"accept", "fill", "finish", "return", "reject"},
           desk'[w].pc \in {"accept", "fill", "finish"} =>
              /\ desk[w].pc \in {"submit", "accept", "fill"}
              /\ desk'[w].offer = desk[w].offer
              /\ order'[k] # "NONE",
           desk'[w].pc = "finish" => bought'[k] > 0 \/ requested'[k] = 0
    PROVE  StepOK(w)
<1>1. \A x \in Keys : Forward(x)
  BY DEF Forward
<1>2. \A x \in Keys : KeyOK(x)'
  BY DEF IInv, KeyOK
<1>3. DeskOK(w)'
  BY DEF IInv, DeskOK, Working, Key
<1> QED
  BY <1>1, <1>2, <1>3 DEF StepOK

\* An order row moves along an edge that buys nothing and takes nothing back.
LEMMA OrderMoveOK ==
    ASSUME NEW w \in Workers, NEW from \in {"SUBMITTED"}, NEW target \in {"ACCEPTED", "REJECTED"},
           NEW next \in {"fill", "return"},
           IInv, desk[w].pc # "none", OrderMove(w, {from}, target, next),
           next = "fill" => desk[w].pc = "accept"
    PROVE  StepOK(w)
<1> PICK k \in Keys : k = Key(w)
  BY DEF IInv, DeskOK, Key
<1>1. k \in Keys /\ desk[w] \in Desks
  BY DEF IInv, TypeOK, DeskOK, Key
<1>2. CASE order[k] \notin {from, target}
  BY <1>2, AbortOK DEF OrderMove, paper
<1>3. CASE order[k] \in {from, target}
  <2>1. /\ order' = [order EXCEPT ![k] = target]
        /\ desk' = [desk EXCEPT ![w].pc = next]
        /\ UNCHANGED <<status, plan, attempts, leased, requested, bought, projected, list>>
    BY <1>3 DEF OrderMove, Goto, Key, journal
  <2>2. desk' \in [Workers -> Desks]
    BY <1>1, <2>1 DEF IInv, TypeOK, Desks, Steps
  <2>3. TypeOK'
    BY <1>1, <2>1, <2>2 DEF IInv, TypeOK, OrderStatuses
  <2>4. KeyOK(k)' /\ Forward(k)
    BY <1>1, <1>3, <2>1 DEF IInv, TypeOK, KeyOK, Forward
  <2>5. /\ desk'[w].pc = next /\ desk'[w].key = k /\ desk'[w].stage = desk[w].stage
        /\ desk'[w].offer = desk[w].offer
    BY <1>1, <2>1 DEF IInv, TypeOK, Desks, Key
  <2>6. order'[k] # "NONE" /\ Others(w)
    BY <1>1, <2>1 DEF IInv, TypeOK, Others
  <2>7. \A x \in Keys \ {k} :
          order'[x] = order[x] /\ requested'[x] = requested[x] /\ bought'[x] = bought[x]
    BY <1>1, <2>1 DEF IInv, TypeOK
  <2> QED
    BY <1>1, <2>1, <2>3, <2>4, <2>5, <2>6, <2>7, OrderMoves
<1> QED
  BY <1>2, <1>3

LEMMA AcceptOK ==
    ASSUME NEW w \in Workers, IInv, Accept(w)
    PROVE  StepOK(w)
BY OrderMoveOK DEF Accept, At

LEMMA RejectOK ==
    ASSUME NEW w \in Workers, IInv, Reject(w)
    PROVE  StepOK(w)
BY OrderMoveOK DEF Reject, At

\* The order row is there afterwards, with the first comer's quantity.
LEMMA OrderRowOK ==
    ASSUME NEW w \in Workers, NEW next \in {"accept", "fill", "finish", "return", "reject"},
           IInv, desk[w].pc # "none", OrderRow(w), Goto(w, next),
           next \in {"accept", "fill", "finish"} => desk[w].pc = "submit",
           next = "finish" => order[Key(w)] \in {"FILLED", "PARTIALLY_FILLED"}
    PROVE  StepOK(w)
<1> PICK k \in Keys : k = Key(w)
  BY DEF IInv, DeskOK, Key
<1>1. k \in Keys /\ desk[w] \in Desks
  BY DEF IInv, TypeOK, DeskOK, Key
<1>2. Quantity(desk[w].offer) \in 0..2
  BY DEF Quantity
<1>3. /\ desk' = [desk EXCEPT ![w].pc = next]
      /\ UNCHANGED <<status, plan, attempts, leased, bought, projected, list>>
  BY DEF OrderRow, Goto, journal
<1>4. /\ order[k] = "NONE" => order'[k] = "SUBMITTED" /\ requested'[k] \in 0..2
      /\ order[k] # "NONE" => order'[k] = order[k] /\ requested'[k] = requested[k]
      /\ \A x \in Keys \ {k} :
            order'[x] = order[x] /\ requested'[x] = requested[x] /\ bought'[x] = bought[x]
  BY <1>1, <1>2, <1>3 DEF IInv, TypeOK, OrderRow, Key
<1>5. TypeOK'
  <2>1. desk' \in [Workers -> Desks]
    BY <1>1, <1>3 DEF IInv, TypeOK, Desks, Steps
  <2>2. /\ order' \in [Keys -> OrderStatuses \cup {"NONE"}]
        /\ requested' \in [Keys -> 0..2]
    BY <1>1, <1>2 DEF IInv, TypeOK, OrderRow, Key, OrderStatuses
  <2> QED
    BY <1>3, <2>1, <2>2 DEF IInv, TypeOK
<1>6. bought[k] \in 0..2 /\ bought'[k] = bought[k]
  BY <1>1, <1>3 DEF IInv, TypeOK
<1>7. KeyOK(k)' /\ Forward(k)
  BY <1>1, <1>3, <1>4, <1>6 DEF IInv, KeyOK, Forward
<1>8. /\ desk'[w].pc = next /\ desk'[w].key = k /\ desk'[w].stage = desk[w].stage
      /\ desk'[w].offer = desk[w].offer
  BY <1>1, <1>3 DEF IInv, TypeOK, Desks, Key
<1>9. /\ order'[k] # "NONE"
      /\ Others(w)
      /\ next = "finish" => bought'[k] > 0
  BY <1>1, <1>3, <1>4, <1>6 DEF IInv, TypeOK, KeyOK, Others
<1> QED
  BY <1>1, <1>3, <1>4, <1>5, <1>7, <1>8, <1>9, OrderMoves

LEMMA SubmitOK ==
    ASSUME NEW w \in Workers, IInv, Submit(w)
    PROVE  StepOK(w)
<1>1. PICK next \in {"accept", "fill", "finish"} :
        /\ Goto(w, next)
        /\ next = "finish" => order[Key(w)] \in {"FILLED", "PARTIALLY_FILLED"}
  BY DEF Submit
<1> QED
  BY <1>1, OrderRowOK DEF Submit, At

LEMMA WithdrawOK ==
    ASSUME NEW w \in Workers, IInv, Withdraw(w)
    PROVE  StepOK(w)
<1>1. PICK next \in {"return", "reject"} : Goto(w, next)
  BY DEF Withdraw
<1> QED
  BY <1>1, OrderRowOK DEF Withdraw, At

LEMMA FillOK ==
    ASSUME NEW w \in Workers, IInv, Fill(w)
    PROVE  StepOK(w)
<1> PICK k \in Keys : k = Key(w)
  BY DEF IInv, DeskOK, Key, Fill, FillOf, At
<1> DEFINE applied == IF bought[k] > 0 THEN 0 ELSE Fitting(k, Quantity(desk[w].offer))
<1>1. /\ k \in Keys /\ desk[w] \in Desks /\ desk[w].pc = "fill"
      /\ order[k] # "NONE" /\ status[k] \notin Early
      /\ Quantity(desk[w].offer) \in {1, 2}
  BY DEF IInv, TypeOK, DeskOK, Key, Fill, FillOf, At, Working, Quantity
<1>2. CASE order[k] = "REJECTED"
  BY <1>1, <1>2, AbortOK DEF Fill, FillOf, paper
<1>3. CASE order[k] # "REJECTED"
  <2>1. /\ bought' = [bought EXCEPT ![k] = @ + applied]
        /\ order' = [order EXCEPT ![k] =
                       IF applied = 0 THEN @
                       ELSE IF bought[k] + applied = requested[k] THEN "FILLED"
                       ELSE "PARTIALLY_FILLED"]
        /\ desk' = [desk EXCEPT ![w].pc = "finish"]
        /\ UNCHANGED <<status, plan, attempts, leased, requested, projected, list>>
    BY <1>3 DEF Fill, FillOf, Goto, Key, journal
  <2>2. /\ requested[k] \in 0..2 /\ bought[k] \in 0..2
        /\ bought[k] <= requested[k]
    BY <1>1 DEF IInv, TypeOK, KeyOK
  <2>3. /\ applied \in 0..2
        /\ bought[k] > 0 => applied = 0
        /\ bought[k] + applied <= requested[k]
        /\ bought[k] + applied > 0 \/ requested[k] = 0
    BY <1>1, <2>2 DEF Fitting
  <2> HIDE DEF applied
  <2>4. /\ bought'[k] = bought[k] + applied
        /\ order'[k] = IF applied = 0 THEN order[k]
                       ELSE IF bought[k] + applied = requested[k] THEN "FILLED"
                       ELSE "PARTIALLY_FILLED"
        /\ \A x \in Keys \ {k} :
              order'[x] = order[x] /\ requested'[x] = requested[x] /\ bought'[x] = bought[x]
    BY <1>1, <2>1 DEF IInv, TypeOK
  <2>5. TypeOK'
    <3>1. desk' \in [Workers -> Desks]
      BY <1>1, <2>1 DEF IInv, TypeOK, Desks, Steps
    <3>2. bought' \in [Keys -> 0..2]
      BY <1>1, <2>1, <2>2, <2>3 DEF IInv, TypeOK
    <3>3. order' \in [Keys -> OrderStatuses \cup {"NONE"}]
      BY <1>1, <2>1 DEF IInv, TypeOK, OrderStatuses
    <3> QED
      BY <2>1, <3>1, <3>2, <3>3 DEF IInv, TypeOK
  <2>6. KeyOK(k)' /\ Forward(k)
    BY <1>1, <2>1, <2>2, <2>3, <2>4 DEF IInv, KeyOK, Forward
  <2>7. /\ desk'[w].pc = "finish" /\ desk'[w].key = k /\ desk'[w].stage = desk[w].stage
        /\ desk'[w].offer = desk[w].offer
    BY <1>1, <2>1 DEF IInv, TypeOK, Desks, Key
  <2>8. Others(w) /\ order'[k] # "NONE"
    BY <1>1, <2>1, <2>4 DEF IInv, TypeOK, Others
  <2>9. bought'[k] > 0 \/ requested'[k] = 0
    BY <2>1, <2>3, <2>4
  <2> QED
    BY <1>1, <2>1, <2>4, <2>5, <2>6, <2>7, <2>8, <2>9, OrderMoves
<1> QED
  BY <1>2, <1>3

-----------------------------------------------------------------------------
(* Together. *)

LEMMA WorkerOK ==
    ASSUME NEW w \in Workers, IInv, CycleStep(w) \/ EngineStep(w) \/ Crash(w)
    PROVE  StepOK(w)
<1>1. CASE CycleStep(w)
  <2>1. \A claim \in list[w] : Drain(w, claim) => StepOK(w)
    BY DrainOK
  <2>2. \A claim \in list[w] : HandBack(w, claim) => StepOK(w)
    BY HandBackOK
  <2> QED
    BY <1>1, <2>1, <2>2, OpenOK, SyncExistingOK, ListExpiredOK,
       ListPendingOK, EndCycleOK DEF CycleStep
<1>2. CASE EngineStep(w)
  BY <1>2, ReserveOK, CheckOK, ClaimOK, DispatchOK, GiveBackOK, UnclaimOK, FailOK,
     SubmitOK, AcceptOK, FillOK, FinishOK, WithdrawOK, RejectOK, ReturnOK DEF EngineStep
<1>3. CASE Crash(w)
  BY <1>3, CrashOK
<1> QED
  BY <1>1, <1>2, <1>3

\* Every step of the specification is some worker's, and keeps the invariant.
LEMMA NextOK ==
    ASSUME IInv, Next
    PROVE  IInv' /\ \A k \in Keys : Forward(k)
<1>1. PICK w \in Workers : CycleStep(w) \/ EngineStep(w) \/ Crash(w)
  BY DEF Next
<1>2. StepOK(w)
  BY <1>1, WorkerOK
<1> QED
  BY <1>2, StepKeeps DEF StepOK

\* The invariant holds initially, and a step that changes nothing keeps it.
LEMMA Invariance == Spec => []IInv
<1>1. Init => IInv
  <2> SUFFICES ASSUME Init PROVE IInv
    OBVIOUS
  <2>1. TypeOK
    BY DEF Init, TypeOK, Start, Desks, Stages, Steps, Offers
  <2>2. \A k \in Keys : KeyOK(k)
    <3> TAKE k \in Keys
    <3>1. status[k] = "ABSENT" /\ order[k] = "NONE" /\ requested[k] = 0 /\ bought[k] = 0
      BY DEF Init
    <3> QED
      BY <3>1 DEF KeyOK, Early
  <2>3. \A w \in Workers : DeskOK(w)
    BY DEF Init, DeskOK, Start, Working
  <2> QED
    BY <2>1, <2>2, <2>3 DEF IInv
<1>2. IInv /\ [Next]_vars => IInv'
  <2> SUFFICES ASSUME IInv, [Next]_vars PROVE IInv'
    OBVIOUS
  <2>1. CASE Next
    BY <2>1, NextOK
  <2>2. CASE UNCHANGED vars
    BY <2>2 DEF vars, journal, paper, IInv, TypeOK, KeyOK, DeskOK
  <2> QED
    BY <2>1, <2>2
<1> QED
  BY <1>1, <1>2, PTL DEF Spec

-----------------------------------------------------------------------------
(* The theorems. *)

\* Every variable has its type, in particular no order is filled beyond the
\* largest plan.
THEOREM CopyTyping == Spec => []TypeOK
<1>1. IInv => TypeOK
  BY DEF IInv
<1> QED
  BY <1>1, Invariance, PTL

\* A plan that was refused, or never claimed, has no position.
THEOREM RefusedUnfilled == Spec => []RefusedHasNoPosition
<1>1. IInv => RefusedHasNoPosition
  BY DEF IInv, KeyOK, RefusedHasNoPosition, Early
<1> QED
  BY <1>1, Invariance, PTL

\* The journal says EXECUTED only after the order was filled.
THEOREM ExecutedWasFilled == Spec => []ExecutedIsFilled
<1>1. IInv => ExecutedIsFilled
  BY DEF IInv, KeyOK, ExecutedIsFilled
<1> QED
  BY <1>1, Invariance, PTL

\* What execute_market() bought for a key it never buys again.
THEOREM OneFill == Spec => FilledOnce
<1>1. IInv /\ [Next]_vars => [\A k \in Keys : bought[k] > 0 => bought'[k] = bought[k]]_vars
  BY NextOK DEF Forward
<1> QED
  BY <1>1, Invariance, PTL DEF Spec, FilledOnce

\* A journal row that has ended stays as it ended.
THEOREM FinalTerminal == Spec => TerminalIsFinal
<1>1. IInv /\ [Next]_vars =>
        [\A k \in Keys : status[k] \in Terminal => status'[k] = status[k]]_vars
  BY NextOK DEF Forward
<1> QED
  BY <1>1, Invariance, PTL DEF Spec, TerminalIsFinal

-----------------------------------------------------------------------------
(* Which claims lose their lease while they are executed. *)

\* A worker's attempt is one the row has counted; and a worker that still has to
\* clear a claim meets an executing row only when that row was claimed again.
Counted(w) ==
    /\ desk[w].pc \in Working => desk[w].attempt <= attempts[Key(w)]
    /\ \A claim \in list[w] : claim.attempt <= attempts[claim.key]
    /\ At(w, "unclaim") /\ status[Key(w)] = "EXECUTING" => desk[w].attempt < attempts[Key(w)]

AttemptsCounted == \A w \in Workers : Counted(w)

\* Only a new claim makes a row EXECUTING, and it counts.
AttemptsMove(k) ==
    /\ attempts'[k] >= attempts[k]
    /\ status'[k] = "EXECUTING" => status[k] = "EXECUTING" \/ attempts'[k] > attempts[k]

\* A worker that does not move keeps what it knows.
LEMMA CountedStays ==
    ASSUME NEW v \in Workers, IInv, TypeOK', Counted(v),
           desk'[v] = desk[v], list'[v] = list[v],
           \A k \in Keys : AttemptsMove(k)
    PROVE  Counted(v)'
<1>1. /\ \A claim \in list[v] : claim.key \in Keys /\ claim.attempt \in Nat
      /\ desk[v] \in Desks
      /\ \A k \in Keys : attempts[k] \in Nat /\ attempts'[k] \in Nat
  BY DEF IInv, TypeOK
<1>2. desk[v].attempt \in Nat
  BY <1>1 DEF Desks
<1>3. \A claim \in list'[v] : claim.attempt <= attempts'[claim.key]
  BY <1>1 DEF Counted, AttemptsMove
<1>4. CASE desk[v].pc \in Working
  <2> PICK k \in Keys : k = Key(v)
    BY <1>4 DEF IInv, DeskOK, Key, Working
  <2>1. desk'[v].pc \in Working => desk'[v].attempt <= attempts'[k]
    BY <1>1, <1>2 DEF Counted, AttemptsMove
  <2>2. desk[v].pc = "unclaim" /\ status'[k] = "EXECUTING" => desk[v].attempt < attempts'[k]
    BY <1>1, <1>2, <1>4 DEF Counted, AttemptsMove, At
  <2>3. Key(v)' = k
    BY DEF Key
  <2> QED
    BY <1>3, <2>1, <2>2, <2>3 DEF Counted, At
<1>5. CASE desk[v].pc \notin Working
  BY <1>3, <1>5 DEF Counted, At, Working
<1> QED
  BY <1>4, <1>5

\* Steps that do not write the journal.
LEMMA JournalRests ==
    ASSUME UNCHANGED <<status, attempts>>, TypeOK
    PROVE  \A k \in Keys : AttemptsMove(k)
BY DEF AttemptsMove, TypeOK

\* Going idle, or to a place where no claim is held.
LEMMA CountedIdle ==
    ASSUME NEW w \in Workers, IInv, Counted(w),
           desk'[w].pc \notin Working, list'[w] \subseteq list[w], UNCHANGED attempts
    PROVE  Counted(w)'
<1>1. \A claim \in list'[w] : claim.attempt <= attempts'[claim.key]
  BY DEF Counted
<1> QED
  BY <1>1 DEF Counted, At, Working

\* What a step of worker w does to attempts and leases.
AttemptsOK(w) ==
    /\ Counted(w)'
    /\ \A k \in Keys : AttemptsMove(k)
    /\ \A k \in Keys : leased[k] /\ ~leased'[k] => Unclaim(w) /\ Key(w) = k

\* Steps after which the worker holds no claim.
LEMMA Unheld ==
    ASSUME NEW w \in Workers, IInv, Counted(w), UNCHANGED <<status, attempts>>,
           UNCHANGED leased \/ Unclaim(w),
           desk'[w].pc \notin Working, list'[w] \subseteq list[w]
    PROVE  AttemptsOK(w)
<1>1. Counted(w)'
  BY CountedIdle
<1>2. \A k \in Keys : AttemptsMove(k)
  BY JournalRests DEF IInv
<1>3. \A k \in Keys : leased[k] /\ ~leased'[k] => Unclaim(w) /\ Key(w) = k
  BY DEF Unclaim, IInv, TypeOK
<1> QED
  BY <1>1, <1>2, <1>3 DEF AttemptsOK

\* Steps that keep the claim and leave the journal alone.
LEMMA StillHeld ==
    ASSUME NEW w \in Workers, IInv, Counted(w), UNCHANGED <<journal, list>>,
           NEW next \in Steps \ {"unclaim"}, desk[w].pc \in Working,
           desk' = [desk EXCEPT ![w].pc = next]
    PROVE  AttemptsOK(w)
<1>1. desk'[w].key = desk[w].key /\ desk'[w].attempt = desk[w].attempt /\ desk'[w].pc = next
  BY DEF IInv, TypeOK, Desks
<1>2. Counted(w)'
  BY <1>1 DEF Counted, Key, At, journal
<1>3. \A k \in Keys : AttemptsMove(k)
  BY JournalRests DEF IInv, journal
<1> QED
  BY <1>2, <1>3 DEF AttemptsOK, journal

LEMMA AbortUnheld ==
    ASSUME NEW w \in Workers, IInv, Counted(w), Abort(w), UNCHANGED journal
    PROVE  AttemptsOK(w)
<1>1. desk'[w].pc \notin Working /\ list'[w] \subseteq list[w]
  BY DEF Abort, Start, IInv, TypeOK, Working
<1> QED
  BY <1>1, Unheld DEF journal

LEMMA CycleCounted ==
    ASSUME NEW w \in Workers, IInv, Counted(w), CycleStep(w) \/ Crash(w)
    PROVE  AttemptsOK(w)
<1>1. ASSUME NEW k \in Keys, NEW offer \in Offers, Open(w, k, offer)
      PROVE  AttemptsOK(w)
  <2>1. desk'[w].pc = "reserve" /\ list' = list
    BY <1>1 DEF Open, IInv, TypeOK, Desks
  <2> QED
    BY <1>1, <2>1, Unheld DEF Open, Keep, journal, Working
<1>2. ASSUME NEW k \in Keys, SyncExisting(w, k)
      PROVE  AttemptsOK(w)
  BY <1>2, Unheld DEF SyncExisting, Free, At, journal, Working
<1>3. ASSUME NEW expired \in SUBSET Keys, ListExpired(w, expired)
      PROVE  AttemptsOK(w)
  <2>1. /\ desk'[w].pc = "none" /\ list'[w] = Claims(expired)
        /\ UNCHANGED <<status, attempts, leased>>
    BY <1>3 DEF ListExpired, Free, At, IInv, TypeOK, Desks, Keep, journal
  <2>2. \A claim \in Claims(expired) : claim.attempt <= attempts[claim.key]
    BY DEF Claims, IInv, TypeOK
  <2>3. Counted(w)'
    BY <2>1, <2>2 DEF Counted, At, Working
  <2> QED
    BY <2>1, <2>3, JournalRests DEF AttemptsOK, IInv
<1>4. ASSUME NEW due \in SUBSET Keys, ListPending(w, due)
      PROVE  AttemptsOK(w)
  <2>1. /\ desk'[w].pc = "none" /\ list'[w] = [key : due, attempt : {0}]
        /\ UNCHANGED <<status, attempts, leased>>
    BY <1>4 DEF ListPending, Free, At, IInv, TypeOK, Desks, Keep, journal
  <2>2. \A claim \in [key : due, attempt : {0}] : claim.attempt <= attempts[claim.key]
    BY DEF IInv, TypeOK
  <2>3. Counted(w)'
    BY <2>1, <2>2 DEF Counted, At, Working
  <2> QED
    BY <2>1, <2>3, JournalRests DEF AttemptsOK, IInv
<1>5. ASSUME NEW claim \in list[w], HandBack(w, claim)
      PROVE  AttemptsOK(w)
  <2>1. /\ desk'[w].pc = "retry" /\ desk'[w].key = claim.key
        /\ desk'[w].attempt = claim.attempt
        /\ list'[w] \subseteq list[w]
        /\ UNCHANGED <<status, attempts, leased>>
    BY <1>5 DEF HandBack, IInv, TypeOK, Desks, Keep, journal
  <2>2. Counted(w)'
    BY <2>1 DEF Counted, Key, At
  <2> QED
    BY <2>1, <2>2, JournalRests DEF AttemptsOK, IInv
<1>6. ASSUME NEW claim \in list[w], Drain(w, claim)
      PROVE  AttemptsOK(w)
  <2>1. desk'[w].pc = "reserve" /\ list'[w] \subseteq list[w]
    BY <1>6 DEF Drain, IInv, TypeOK, Desks
  <2> QED
    BY <1>6, <2>1, Unheld DEF Drain, Keep, journal, Working
<1>7. CASE EndCycle(w) \/ Crash(w)
  BY <1>7, AbortUnheld DEF EndCycle, Crash, Keep
<1> QED
  BY <1>1, <1>2, <1>3, <1>4, <1>5, <1>6, <1>7 DEF CycleStep

LEMMA TransitionCounted ==
    ASSUME NEW w \in Workers, NEW target \in JournalStatuses \ {"EXECUTING"},
           NEW next \in {"return", "unclaim"},
           IInv, Counted(w), desk[w].pc # "none", Transition(w, target, next),
           next = "unclaim" => desk[w].pc \in Working
    PROVE  AttemptsOK(w)
<1> PICK k \in Keys : k = Key(w)
  BY DEF IInv, DeskOK, Key
<1>1. CASE target \notin Allowed(status[k])
  BY <1>1, AbortUnheld DEF Transition, journal
<1>2. CASE target \in Allowed(status[k])
  <2>1. /\ status' = [status EXCEPT ![k] = target]
        /\ desk' = [desk EXCEPT ![w].pc = next]
        /\ UNCHANGED <<attempts, leased, list>>
    BY <1>2 DEF Transition, Goto
  <2>2. \A x \in Keys : AttemptsMove(x)
    BY <2>1 DEF AttemptsMove, IInv, TypeOK
  <2>3. /\ desk'[w].pc = next /\ desk'[w].key = desk[w].key
        /\ desk'[w].attempt = desk[w].attempt
        /\ status'[k] # "EXECUTING"
    BY <2>1 DEF IInv, TypeOK, Desks
  <2>4. Counted(w)'
    BY <2>1, <2>3 DEF Counted, Key, At, Working
  <2> QED
    BY <2>1, <2>2, <2>4 DEF AttemptsOK
<1> QED
  BY <1>1, <1>2

LEMMA ClaimCounted ==
    ASSUME NEW w \in Workers, IInv, Counted(w), Claim(w)
    PROVE  AttemptsOK(w)
<1> PICK k \in Keys : k = Key(w)
  BY DEF IInv, DeskOK, Key, Claim, ClaimOf, At
<1>1. CASE Due(k)
  <2>1. /\ attempts' = [attempts EXCEPT ![k] = @ + 1]
        /\ status' = [status EXCEPT ![k] = "EXECUTING"]
        /\ leased' = [leased EXCEPT ![k] = TRUE]
        /\ desk' = [desk EXCEPT ![w].pc = "dispatch", ![w].attempt = attempts[k] + 1]
        /\ UNCHANGED list
    BY <1>1 DEF Claim, ClaimOf
  <2>2. /\ \A x \in Keys : attempts[x] \in Nat
        /\ attempts'[k] = attempts[k] + 1
        /\ \A x \in Keys \ {k} : attempts'[x] = attempts[x] /\ status'[x] = status[x]
    BY <2>1 DEF IInv, TypeOK
  <2>3. \A x \in Keys : AttemptsMove(x)
    BY <2>2 DEF AttemptsMove
  <2>4. /\ desk'[w].pc = "dispatch" /\ desk'[w].key = k
        /\ desk'[w].attempt = attempts'[k]
    BY <2>1, <2>2 DEF IInv, TypeOK, Desks, Key
  <2>5. \A claim \in list'[w] : claim.attempt <= attempts'[claim.key]
    <3>1. \A claim \in list[w] : claim.key \in Keys /\ claim.attempt \in Nat
      BY DEF IInv, TypeOK
    <3> QED
      BY <2>1, <2>2, <3>1 DEF Counted
  <2>6. Counted(w)'
    BY <2>2, <2>4, <2>5 DEF Counted, Key, At
  <2>7. \A x \in Keys : ~(leased[x] /\ ~leased'[x])
    BY <2>1 DEF IInv, TypeOK
  <2> QED
    BY <2>3, <2>6, <2>7 DEF AttemptsOK
<1>2. CASE ~Due(k)
  <2>1. desk'[w].pc = "return" /\ list' = list
    BY <1>2 DEF Claim, ClaimOf, Goto, IInv, TypeOK, Desks
  <2> QED
    BY <1>2, <2>1, Unheld DEF Claim, ClaimOf, Working
<1> QED
  BY <1>1, <1>2

LEMMA ReserveCounted ==
    ASSUME NEW w \in Workers, IInv, Counted(w), Reserve(w)
    PROVE  AttemptsOK(w)
<1> PICK k \in Keys : k = Key(w)
  BY DEF IInv, DeskOK, Key, Reserve, At
<1>1. PICK target \in {"PLANNED", "REJECTED", status[k]} :
        status' = [status EXCEPT ![k] = target]
  BY DEF Reserve
<1>2. \A x \in Keys : AttemptsMove(x)
  BY <1>1 DEF Reserve, AttemptsMove, IInv, TypeOK
<1>3. PICK next \in {"withdraw", "return", "unfit", "claim"} :
        desk' = [desk EXCEPT ![w].pc = next] /\ UNCHANGED list
  BY DEF Reserve, Goto
<1>4. desk'[w].pc = next
  BY <1>3 DEF IInv, TypeOK, Desks
<1>5. Counted(w)'
  BY <1>3, <1>4, CountedIdle DEF Reserve, Working
<1> QED
  BY <1>2, <1>5 DEF AttemptsOK, Reserve

LEMMA PaperCounted ==
    ASSUME NEW w \in Workers, IInv, Counted(w),
           \/ \E answer \in Answers : Dispatch(w, answer)
           \/ Submit(w) \/ Accept(w) \/ Fill(w) \/ Withdraw(w) \/ Reject(w)
           \/ Unclaim(w) \/ Return(w)
    PROVE  AttemptsOK(w)
<1>1. ASSUME NEW answer \in Answers, Dispatch(w, answer)
      PROVE  AttemptsOK(w)
  <2>1. PICK next \in {"submit", "failing", "retry"} : Goto(w, next)
    BY <1>1 DEF Dispatch
  <2> QED
    BY <1>1, <2>1, StillHeld DEF Dispatch, Goto, At, Keep, Steps, Working
<1>2. CASE Submit(w)
  <2>1. PICK next \in {"accept", "fill", "finish"} : Goto(w, next)
    BY <1>2 DEF Submit
  <2> QED
    BY <1>2, <2>1, StillHeld DEF Submit, OrderRow, Goto, At, Steps, Working
<1>3. CASE Accept(w)
  <2>1. CASE Abort(w)
    BY <1>3, <2>1, AbortUnheld DEF Accept, OrderMove
  <2>2. CASE Goto(w, "fill")
    BY <1>3, <2>2, StillHeld DEF Accept, OrderMove, Goto, At, Steps, Working
  <2> QED
    BY <1>3, <2>1, <2>2 DEF Accept, OrderMove
<1>4. CASE Fill(w)
  <2>1. CASE Abort(w)
    BY <1>4, <2>1, AbortUnheld DEF Fill, FillOf
  <2>2. CASE Goto(w, "finish")
    BY <1>4, <2>2, StillHeld DEF Fill, FillOf, Goto, At, Steps, Working
  <2> QED
    BY <1>4, <2>1, <2>2 DEF Fill, FillOf
<1>5. CASE Withdraw(w)
  <2>1. desk'[w].pc \in {"return", "reject"} /\ list' = list
    BY <1>5 DEF Withdraw, Goto, IInv, TypeOK, Desks
  <2> QED
    BY <1>5, <2>1, Unheld DEF Withdraw, OrderRow, journal, Working
<1>6. CASE Reject(w)
  <2>1. CASE Abort(w)
    BY <1>6, <2>1, AbortUnheld DEF Reject, OrderMove
  <2>2. CASE Goto(w, "return")
    <3>1. desk'[w].pc = "return" /\ list' = list
      BY <2>2 DEF Goto, IInv, TypeOK, Desks
    <3> QED
      BY <1>6, <3>1, Unheld DEF Reject, OrderMove, journal, Working
  <2> QED
    BY <1>6, <2>1, <2>2 DEF Reject, OrderMove
<1>7. CASE Unclaim(w)
  <2>1. desk'[w].pc = "none" /\ list' = list
    BY <1>7 DEF Unclaim, Done, Idle, Start, IInv, TypeOK, Desks
  <2> QED
    BY <1>7, <2>1, Unheld DEF Unclaim, Working
<1>8. CASE Return(w)
  <2> DEFINE more == [Idle(w) EXCEPT !.executed = IF status[Key(w)] = "EXECUTED"
                                                   THEN @ \cup {Key(w)} ELSE @]
  <2>1. Idle(w).pc = "none" /\ more.pc = "none"
    BY DEF Idle, Start
  <2>2. desk' = [desk EXCEPT ![w] = Idle(w)] \/ desk' = [desk EXCEPT ![w] = more]
    BY <1>8 DEF Return, Done
  <2>3. list' = list
    BY <1>8 DEF Return, Done
  <2> HIDE DEF more
  <2>4. desk'[w].pc = "none"
    BY <2>1, <2>2 DEF IInv, TypeOK
  <2> QED
    BY <1>8, <2>3, <2>4, Unheld DEF Return, journal, Working
<1> QED
  BY <1>1, <1>2, <1>3, <1>4, <1>5, <1>6, <1>7, <1>8

LEMMA EngineCounted ==
    ASSUME NEW w \in Workers, IInv, Counted(w), EngineStep(w)
    PROVE  AttemptsOK(w)
<1>1. CASE Check(w) \/ Fail(w) \/ Finish(w) \/ GiveBack(w)
  BY <1>1, TransitionCounted
     DEF Check, Fail, Finish, GiveBack, At, JournalStatuses, Terminal, Working
<1> QED
  BY <1>1, PaperCounted, ClaimCounted, ReserveCounted DEF EngineStep

LEMMA AttemptsNext ==
    ASSUME IInv, AttemptsCounted, Next
    PROVE  /\ AttemptsCounted'
           /\ \A k \in Keys :
                 leased[k] /\ ~leased'[k] => \E w \in Workers : Unclaim(w) /\ Key(w) = k
<1>1. PICK w \in Workers : CycleStep(w) \/ EngineStep(w) \/ Crash(w)
  BY DEF Next
<1>2. Counted(w)
  BY DEF AttemptsCounted
<1>5. AttemptsOK(w)
  BY <1>1, <1>2, CycleCounted, EngineCounted
<1>6. ASSUME NEW v \in Workers PROVE Counted(v)'
  <2>1. Counted(v)
    BY DEF AttemptsCounted
  <2>2. IInv' /\ TypeOK'
    BY NextOK DEF IInv
  <2>3. CASE v # w
    <3>1. desk'[v] = desk[v] /\ list'[v] = list[v]
      BY <1>1, <2>3, WorkerOK DEF StepOK, Others
    <3> QED
      BY <1>5, <2>1, <2>2, <3>1, CountedStays DEF AttemptsOK
  <2> QED
    BY <1>5, <2>3 DEF AttemptsOK
<1> QED
  BY <1>5, <1>6 DEF AttemptsOK, AttemptsCounted

LEMMA AttemptsInvariance == Spec => []AttemptsCounted
<1>1. Init => AttemptsCounted
  BY DEF Init, AttemptsCounted, Counted, At, Start, Working
<1>2. IInv /\ AttemptsCounted /\ [Next]_vars => AttemptsCounted'
  <2> SUFFICES ASSUME IInv, AttemptsCounted, [Next]_vars PROVE AttemptsCounted'
    OBVIOUS
  <2>1. CASE Next
    BY <2>1, AttemptsNext
  <2>2. CASE UNCHANGED vars
    BY <2>2 DEF vars, journal, AttemptsCounted, Counted, At, Key
  <2> QED
    BY <2>1, <2>2
<1> QED
  BY <1>1, <1>2, Invariance, PTL DEF Spec

\* Why a claim is stranded, for every number of workers, keys and attempts: an
\* executing row loses its lease only to a worker that gives back an older claim.
THEOREM StrandedOvertaken == Spec => OnlyOvertakenStrands
<1>1. IInv /\ AttemptsCounted /\ [Next]_vars =>
        [\A k \in Keys :
            status[k] = "EXECUTING" /\ leased[k] /\ ~leased'[k] =>
                \E w \in Workers :
                    At(w, "unclaim") /\ Key(w) = k /\ desk[w].attempt < attempts[k]]_vars
  <2> SUFFICES ASSUME IInv, AttemptsCounted, Next, NEW k \in Keys,
                      status[k] = "EXECUTING", leased[k], ~leased'[k]
               PROVE  \E w \in Workers :
                          At(w, "unclaim") /\ Key(w) = k /\ desk[w].attempt < attempts[k]
    OBVIOUS
  <2>1. PICK w \in Workers : Unclaim(w) /\ Key(w) = k
    BY AttemptsNext
  <2>2. At(w, "unclaim")
    BY <2>1 DEF Unclaim
  <2> QED
    BY <2>1, <2>2 DEF AttemptsCounted, Counted
<1> QED
  BY <1>1, Invariance, AttemptsInvariance, PTL DEF Spec, OnlyOvertakenStrands

-----------------------------------------------------------------------------
(* The refinement of CopyJob. *)

\* A journal row that moves along an allowed pair is a step of the job, or none.
LEMMA JournalMove ==
    ASSUME NEW k \in Keys, IInv, UNCHANGED bought, NEW target,
           status' = [status EXCEPT ![k] = target],
           \/ status[k] = "ABSENT" /\ target \in {"PLANNED", "REJECTED"}
           \/ target \in Allowed(status[k])
    PROVE  [Job!Next]_(Job!vars)
<1> DEFINE outcome == [x \in Keys |-> Outcome(x)]
           new == CASE target \in {"PLANNED", "EXECUTING", "RETRY_WAIT"} -> "OPEN"
                    [] target = "ABSENT" -> "NONE"
                    [] target = "REJECTED" -> "REFUSED"
                    [] target = "EXECUTED" -> IF bought[k] > 0 THEN "DONE" ELSE "VOID"
                    [] OTHER -> "GIVEN_UP"
<1>1. status[k] \in JournalStatuses \cup {"ABSENT"} /\ bought[k] \in 0..2
  BY DEF IInv, TypeOK
<1>2. outcome' = [outcome EXCEPT ![k] = new]
  BY DEF Outcome, IInv, TypeOK
<1>3. \/ new = outcome[k]
      \/ outcome[k] = "NONE" /\ new \in {"OPEN", "REFUSED"}
      \/ outcome[k] = "OPEN" /\ new = "REFUSED" /\ bought[k] = 0
      \/ outcome[k] = "OPEN" /\ new = "GIVEN_UP"
      \/ outcome[k] = "OPEN" /\ new = IF bought[k] > 0 THEN "DONE" ELSE "VOID"
  <2>1. status[k] = "PLANNED" => bought[k] = 0
    BY DEF IInv, KeyOK, Early
  <2> QED
    BY <1>1, <2>1 DEF Outcome, Allowed, JournalStatuses, Terminal
<1>4. CASE new = outcome[k]
  BY <1>2, <1>4 DEF Job!vars
<1>5. CASE new # outcome[k]
  <2> HIDE DEF new
  <2>1. Job!Receive(k) \/ Job!Refuse(k) \/ Job!GiveUp(k) \/ Job!Complete(k)
    BY <1>2, <1>3, <1>5 DEF Job!Receive, Job!Refuse, Job!GiveUp, Job!Complete, Job!Move
  <2> QED
    BY <2>1 DEF Job!Next
<1> QED
  BY <1>4, <1>5

\* Steps that change neither a status nor what was bought.
LEMMA JobStutters ==
    ASSUME UNCHANGED <<status, bought>>
    PROVE  [Job!Next]_(Job!vars)
BY DEF Job!vars, Outcome

LEMMA TransitionStep ==
    ASSUME NEW w \in Workers, NEW target, NEW next,
           IInv, desk[w].pc # "none", Transition(w, target, next)
    PROVE  [Job!Next]_(Job!vars)
<1> PICK k \in Keys : k = Key(w)
  BY DEF IInv, DeskOK, Key
<1>1. CASE target \in Allowed(status[k])
  BY <1>1, JournalMove DEF Transition, paper
<1>2. CASE target \notin Allowed(status[k])
  BY <1>2, JobStutters DEF Transition, paper
<1> QED
  BY <1>1, <1>2

LEMMA FillStep ==
    ASSUME NEW w \in Workers, IInv, Fill(w)
    PROVE  [Job!Next]_(Job!vars)
<1> PICK k \in Keys : k = Key(w)
  BY DEF IInv, DeskOK, Key, Fill, FillOf, At
<1> DEFINE applied == IF bought[k] > 0 THEN 0 ELSE Fitting(k, Quantity(desk[w].offer))
           outcome == [x \in Keys |-> Outcome(x)]
<1>1. CASE order[k] = "REJECTED" \/ applied = 0
  <2>1. bought' = bought
    BY <1>1 DEF Fill, FillOf, IInv, TypeOK
  <2> QED
    BY <2>1, JobStutters DEF Fill, FillOf, journal
<1>2. CASE order[k] # "REJECTED" /\ applied # 0
  <2>1. /\ bought' = [bought EXCEPT ![k] = @ + applied]
        /\ UNCHANGED status
    BY <1>2 DEF Fill, FillOf, journal
  <2>2. /\ bought[k] = 0
        /\ requested[k] \in {1, 2}
        /\ applied \in {1, 2}
        /\ status[k] \notin Early \cup {"EXECUTED"}
    <3>1. bought[k] \in 0..2 /\ requested[k] \in 0..2 /\ bought[k] <= requested[k]
      BY DEF IInv, TypeOK, KeyOK
    <3>2. desk[w].offer \in {"SMALL", "LARGE"} /\ status[k] \notin Early
      BY DEF IInv, DeskOK, Fill, FillOf, At, Key, Working
    <3>3. status[k] = "EXECUTED" => bought[k] > 0 \/ requested[k] = 0
      BY DEF IInv, KeyOK
    <3> QED
      BY <1>2, <3>1, <3>2, <3>3 DEF Fitting, Quantity
  <2> HIDE DEF applied
  <2>3. outcome' = outcome
    BY <2>1, <2>2 DEF Outcome, IInv, TypeOK
  <2>4. outcome[k] \in {"OPEN", "GIVEN_UP"}
    <3>1. status[k] \in JournalStatuses \cup {"ABSENT"}
      BY DEF IInv, TypeOK
    <3> QED
      BY <2>2, <3>1 DEF Outcome, JournalStatuses, Terminal, Early
  <2>5. bought' = [bought EXCEPT ![k] = applied]
    BY <2>1, <2>2
  <2>6. Job!Act(k, applied)
    BY <2>2, <2>3, <2>4, <2>5 DEF Job!Act
  <2> QED
    BY <2>2, <2>6 DEF Job!Next
<1> QED
  BY <1>1, <1>2

LEMMA JobStep ==
    ASSUME IInv, Next
    PROVE  [Job!Next]_(Job!vars)
<1>1. PICK w \in Workers : CycleStep(w) \/ EngineStep(w) \/ Crash(w)
  BY DEF Next
<1>2. CASE CycleStep(w) \/ Crash(w)
  <2>1. UNCHANGED <<status, bought>>
    BY <1>2 DEF CycleStep, Crash, SyncExisting, Open, ListExpired, ListPending,
                HandBack, Drain, EndCycle, Keep, journal, paper
  <2> QED
    BY <2>1, JobStutters
<1>3. CASE Reserve(w)
  <2> PICK k \in Keys : k = Key(w)
    BY <1>3 DEF IInv, DeskOK, Key, Reserve, At
  <2>1. CASE status[k] = "ABSENT"
    <3>1. PICK target \in {"PLANNED", "REJECTED"} : status' = [status EXCEPT ![k] = target]
      BY <1>3, <2>1 DEF Reserve
    <3> QED
      BY <1>3, <2>1, <3>1, JournalMove DEF Reserve, paper
  <2>2. CASE status[k] # "ABSENT"
    <3>1. status' = status
      BY <1>3, <2>2 DEF Reserve, IInv, TypeOK
    <3> QED
      BY <1>3, <3>1, JobStutters DEF Reserve, paper
  <2> QED
    BY <2>1, <2>2
<1>4. CASE Claim(w)
  <2> PICK k \in Keys : k = Key(w)
    BY <1>4 DEF IInv, DeskOK, Key, Claim, ClaimOf, At
  <2>1. CASE Due(k)
    BY <1>4, <2>1, JournalMove DEF Claim, ClaimOf, Due, Allowed, paper
  <2>2. CASE ~Due(k)
    BY <1>4, <2>2, JobStutters DEF Claim, ClaimOf, paper
  <2> QED
    BY <2>1, <2>2
<1>5. CASE Check(w)
  BY <1>5, TransitionStep DEF Check, At
<1>6. CASE GiveBack(w) \/ Fail(w) \/ Finish(w)
  BY <1>6, TransitionStep DEF GiveBack, Fail, Finish, At
<1>7. CASE Fill(w)
  BY <1>7, FillStep
<1>8. CASE \/ \E answer \in Answers : Dispatch(w, answer)
           \/ Unclaim(w) \/ Submit(w) \/ Accept(w) \/ Withdraw(w) \/ Reject(w) \/ Return(w)
  <2>1. UNCHANGED <<status, bought>>
    BY <1>8 DEF Dispatch, Unclaim, Submit, Accept, Withdraw, Reject, Return, OrderRow,
                OrderMove, Keep, journal, paper
  <2> QED
    BY <2>1, JobStutters
<1> QED
  BY <1>1, <1>2, <1>3, <1>4, <1>5, <1>6, <1>7, <1>8 DEF EngineStep

\* The journal, the engine and the paper orders together implement CopyJob.
THEOREM CopyImplementation == Spec => KeepsJob
<1>1. Init => Job!Init
  BY DEF Init, Job!Init, Outcome
<1>2. IInv /\ [Next]_vars => [Job!Next]_(Job!vars)
  <2> SUFFICES ASSUME IInv, [Next]_vars PROVE [Job!Next]_(Job!vars)
    OBVIOUS
  <2>1. CASE Next
    BY <2>1, JobStep
  <2>2. CASE UNCHANGED vars
    BY <2>2, JobStutters DEF vars, journal, paper
  <2> QED
    BY <2>1, <2>2
<1> QED
  BY <1>1, <1>2, Invariance, PTL DEF Spec, KeepsJob, Job!Spec

=============================================================================
