-------------------------- MODULE SignalLifecycle --------------------------
(***************************************************************************)
(* The signals of one market (owner, symbol and timeframe): rows of the    *)
(* table signals, written by three kinds of actors that share no lock:     *)
(* SignalTracker, which reads the open rows and, after it has awaited the  *)
(* market data, writes what the price made of them; a user who stops a     *)
(* signal by hand; and SignalRecorder, which turns an analysis into a new  *)
(* row or into a new plan of the pending one.                              *)
(*                                                                         *)
(* No write asks for the status its author has read: a reading and the     *)
(* UPDATE by id that follows from it are two steps.  The only guard the    *)
(* database has is the unique index idx_one_open_market_plan.  The tracker *)
(* runs in the worker process, the handlers in the web process, and both   *)
(* record analyses.  Prices, events, notifications and what is computed    *)
(* from them are left out: every outcome the price may have is possible.   *)
(***************************************************************************)
EXTENDS Naturals

CONSTANTS
    Ids,            \* rows the table may hold: a bound on save()
    Plans,          \* trading plans (entry, zone, stop and targets)
    Long,           \* those of them that are LONG
    Trackers,       \* tracker cycles: two overlap when one outlives its lease
    Users,          \* calls of manual_stop(): a bound, each runs once
    Recorders       \* calls of record(): a bound, each runs once

ASSUME SignalAssumption ==
    /\ Long \subseteq Plans
    /\ Trackers \cap Users = {}
    /\ Trackers \cap Recorders = {}
    /\ Users \cap Recorders = {}

Actors == Trackers \cup Users \cup Recorders

Pending == {"WATCHING", "TRIGGERED"}
Live == {"ACTIVE", "TP1", "TP2"}
Open == Pending \cup Live
\* "STOP" stands for BREAKEVEN too: where the effective stop is, is left out with the prices.
Closed == {"TP3", "STOP", "MANUAL_STOP", "INVALIDATED", "EXPIRED"}

\* What the statistics count as a trade; the rest was withdrawn before its entry.
Traded == Live \cup {"TP3", "STOP", "MANUAL_STOP"}

NoId == "no id"
NoPlan == "no plan"
NoStatus == "NONE"

ASSUME NoneAssumption == NoId \notin Ids /\ NoPlan \notin Plans

\* hits counts those of tp1_hit_at, tp2_hit_at and tp3_hit_at that are set.
Rows == [status : Open \cup Closed \cup {NoStatus}, plan : Plans \cup {NoPlan}, hits : 0..3]
NoRow == [status |-> NoStatus, plan |-> NoPlan, hits |-> 0]

Steps == {"idle", "update", "stop", "market", "flip", "invalidate", "refresh", "replan",
          "save", "done"}
Desks == [pc : Steps, id : Ids \cup {NoId}, status : Open \cup Closed \cup {NoStatus}, hits : 0..3,
          plan : Plans \cup {NoPlan}, ready : BOOLEAN]
Idle == [pc |-> "idle", id |-> NoId, status |-> NoStatus, hits |-> 0, plan |-> NoPlan,
         ready |-> FALSE]

VARIABLES
    rows,   \* the table
    due,    \* rows whose expires_at has passed
    desk,   \* an actor's place, the row it works on and its reading of it; for a recorder,
            \* the plan of its analysis instead of the one it read
    entered,   \* history: <<row, plan>> for every plan that was activated
    overtaken  \* history: rows that were written as traded from a reading of another plan

history == <<entered, overtaken>>
vars == <<rows, due, desk, history>>

Init ==
    /\ rows = [i \in Ids |-> NoRow]
    /\ due = {}
    /\ desk = [a \in Actors |-> Idle]
    /\ entered = {}
    /\ overtaken = {}

At(a, pc) == desk[a].pc = pc
Become(a, now) == desk' = [desk EXCEPT ![a] = now]
Leave(a) == Become(a, [Idle EXCEPT !.pc = IF a \in Trackers THEN "idle" ELSE "done"])

\* idx_one_open_market_plan: a write that leaves two open rows raises.
Fits(i, status) == status \in Open => \A j \in Ids \ {i} : rows[j].status \notin Open

\* One UPDATE by id or INSERT; "plan" is the one that its author had in mind.
Write(i, row, plan) ==
    /\ Fits(i, row.status)
    /\ rows' = [rows EXCEPT ![i] = row]
    /\ entered' = IF row.status = "ACTIVE" THEN entered \cup {<<i, plan>>} ELSE entered
    /\ overtaken' = IF row.status \in Traded /\ row.plan # plan
                      THEN overtaken \cup {i} ELSE overtaken
    /\ UNCHANGED due
Untouched == UNCHANGED <<rows, due, history>>

\* An exception (the unique index, the market data, the notifier) or the end of the
\* process leaves what has been written as it is.
Abandon(a) ==
    /\ desk[a].pc \notin {"idle", "done"}
    /\ Leave(a)
    /\ Untouched

\* The clock passes a row's expires_at, which no refresh moves.
Expire(i) ==
    /\ rows[i].status # NoStatus
    /\ i \notin due
    /\ due' = due \cup {i}
    /\ UNCHANGED <<rows, desk, history>>

-----------------------------------------------------------------------------
(* SignalTracker *)

\* The rows check_once() works through.
AllRows == {i \in Ids : rows[i].status # NoStatus}  \* mutant
OpenRows == {i \in Ids : rows[i].status \in Open}

\* get_open(): the rows as they are before any market data is awaited.
ReadOpen(t) ==
    /\ At(t, "idle")
    /\ \E i \in OpenRows :
          Become(t, [Idle EXCEPT !.pc = "update", !.id = i, !.status = rows[i].status,
                                 !.hits = rows[i].hits, !.plan = rows[i].plan])
    /\ Untouched

\* The plan is pending and its time is over.
OverdueWatching(status, i) == status = "WATCHING" /\ i \in due  \* mutant
Overdue(status, i) == status \in Pending /\ i \in due

\* The statuses the price may lead to from a reading.
Outcomes(status, i) ==
    IF Overdue(status, i) THEN {"EXPIRED"} ELSE
    CASE status = "WATCHING"  -> {"INVALIDATED", "TRIGGERED", "ACTIVE"}
      [] status = "TRIGGERED" -> {"INVALIDATED", "EXPIRED", "ACTIVE"}
      [] OTHER -> {"STOP"}

AddHits(m, n) == m + n  \* mutant
MaxHits(m, n) == IF m > n THEN m ELSE n

\* _transition() from a reading: the UPDATE sets what it names and nothing else.
Transition(t) ==
    /\ At(t, "update")
    /\ \E event \in Outcomes(desk[t].status, desk[t].id) :
          Write(desk[t].id, [rows[desk[t].id] EXCEPT !.status = event], desk[t].plan)
    /\ Leave(t)

\* A target that the reading has not hit yet; the ones before it count as hit too.
Target(t, n) == n > desk[t].hits

TargetName(n) == CASE n = 1 -> "TP1" [] n = 2 -> "TP2" [] OTHER -> "TP3"
HitTarget(t) ==
    /\ At(t, "update")
    /\ desk[t].status \in Live
    /\ \E n \in 1..3 :
          /\ Target(t, n)
          /\ Write(desk[t].id, [rows[desk[t].id] EXCEPT
                   !.status = TargetName(n),
                   !.hits = MaxHits(@, n)], desk[t].plan)
    /\ Leave(t)

\* The price changes nothing.
Stay(t) ==
    /\ At(t, "update")
    /\ ~Overdue(desk[t].status, desk[t].id)
    /\ Leave(t)
    /\ Untouched

Update(t) == Transition(t) \/ HitTarget(t) \/ Stay(t)

-----------------------------------------------------------------------------
(* SignalHistory.manual_stop(), by a user or from manual_stop_all() *)

StoppableRows == {i \in Ids : rows[i].status \notin Closed \cup {NoStatus}}

ReadStop(u) ==
    /\ At(u, "idle")
    /\ \E i \in StoppableRows :
          Become(u, [Idle EXCEPT !.pc = "stop", !.id = i, !.status = rows[i].status,
                                 !.plan = rows[i].plan])
    /\ Untouched

StoppedAlways(status) == "MANUAL_STOP"  \* mutant
Stopped(status) == IF status \in Pending THEN "INVALIDATED" ELSE "MANUAL_STOP"

ManualStop(u) ==
    /\ At(u, "stop")
    /\ Write(desk[u].id, [rows[desk[u].id] EXCEPT !.status = Stopped(desk[u].status)],
             desk[u].plan)
    /\ Leave(u)

-----------------------------------------------------------------------------
(* SignalRecorder.record() *)

\* A plan that passed every gate; READY only while no trade is live on the symbol.
Analyse(r) ==
    /\ At(r, "idle")
    /\ \E p \in Plans, ready \in BOOLEAN :
          /\ ready => \A i \in Ids : rows[i].status \notin Live
          /\ Become(r, [Idle EXCEPT !.pc = "market", !.plan = p, !.ready = ready])
    /\ Untouched

SameSide(p, q) == (p \in Long) = (q \in Long)
TakeUp(r, i, pc) ==
    Become(r, [desk[r] EXCEPT !.pc = pc, !.id = i, !.status = rows[i].status])
GoSave(r) == Become(r, [desk[r] EXCEPT !.pc = "save", !.id = NoId, !.status = NoStatus])

ReadMarketAnySide(r) ==  \* mutant
    /\ At(r, "market")
    /\ \/ \E i \in OpenRows : TakeUp(r, i, "refresh")
       \/ OpenRows = {} /\ GoSave(r)
    /\ Untouched

ReadMarketLiveToo(r) ==  \* mutant
    /\ At(r, "market")
    /\ \/ \E i \in OpenRows :
             TakeUp(r, i, IF SameSide(rows[i].plan, desk[r].plan) THEN "refresh" ELSE "flip")
       \/ OpenRows = {} /\ GoSave(r)
    /\ Untouched

\* get_open_market(), and the branch record() takes.
ReadMarket(r) ==
    /\ At(r, "market")
    /\ \/ \E i \in OpenRows :
             \/ SameSide(rows[i].plan, desk[r].plan) /\ TakeUp(r, i, "refresh")
             \/ /\ ~SameSide(rows[i].plan, desk[r].plan)
                /\ IF rows[i].status \in Live THEN Leave(r) ELSE TakeUp(r, i, "flip")
       \/ OpenRows = {} /\ GoSave(r)
    /\ Untouched

\* invalidate_open(): SELECT, then UPDATE.  Any open row will do for its SELECT: the
\* decision, and the reading that it rests on, stay those of get_open_market().
ReadFlip(r) ==
    /\ At(r, "flip")
    /\ IF rows[desk[r].id].status \in Open
       THEN Become(r, [desk[r] EXCEPT !.pc = "invalidate"])
       ELSE GoSave(r)
    /\ Untouched

Invalidate(r) ==
    /\ At(r, "invalidate")
    /\ Write(desk[r].id, [rows[desk[r].id] EXCEPT !.status = "INVALIDATED"],
             rows[desk[r].id].plan)
    /\ GoSave(r)

\* refresh_duplicate(): SELECT, then, unless the plan is locked, UPDATE of plan and status.
ImmutableOnceLive(status) == status \in Live  \* mutant
Immutable(status) == status \in {"TRIGGERED"} \cup Live

ReadDuplicate(r) ==
    /\ At(r, "refresh")
    /\ IF Immutable(rows[desk[r].id].status)
       THEN Leave(r)
       ELSE TakeUp(r, desk[r].id, "replan")
    /\ Untouched

Desired(r) == IF desk[r].ready THEN "ACTIVE" ELSE "WATCHING"

Replan(r) ==
    /\ At(r, "replan")
    /\ Write(desk[r].id, [rows[desk[r].id] EXCEPT !.status = Desired(r), !.plan = desk[r].plan],
             desk[r].plan)
    /\ Leave(r)

\* save(): INSERT of a row nobody knows yet.
Unused == {i \in Ids : rows[i].status = NoStatus}

Save(r) ==
    /\ At(r, "save")
    /\ Unused # {}
    /\ Write(CHOOSE i \in Unused : TRUE,
             [NoRow EXCEPT !.status = Desired(r), !.plan = desk[r].plan], desk[r].plan)
    /\ Leave(r)

-----------------------------------------------------------------------------
TrackerNext(t) == ReadOpen(t) \/ Update(t)
UserNext(u) == ReadStop(u) \/ ManualStop(u)
RecorderNext(r) ==
    \/ Analyse(r) \/ ReadMarket(r) \/ ReadFlip(r) \/ Invalidate(r)
    \/ ReadDuplicate(r) \/ Replan(r) \/ Save(r)

Next ==
    \/ \E t \in Trackers : TrackerNext(t)
    \/ \E u \in Users : UserNext(u)
    \/ \E r \in Recorders : RecorderNext(r)
    \/ \E a \in Actors : Abandon(a)
    \/ \E i \in Ids : Expire(i)

\* run_forever() goes on whatever happens in a cycle, and the market data of a row
\* does not fail at every cycle.
Fairness == \A t \in Trackers : WF_vars(ReadOpen(t)) /\ SF_vars(Update(t))

Spec == Init /\ [][Next]_vars
FairSpec == Spec /\ Fairness

-----------------------------------------------------------------------------
(* What the lifecycle promises. *)

\* The table and every actor's place are well typed.
TypeOK ==
    /\ rows \in [Ids -> Rows]
    /\ due \subseteq Ids
    /\ desk \in [Actors -> Desks]
    /\ entered \subseteq Ids \X (Plans \cup {NoPlan})
    /\ overtaken \subseteq Ids

\* A row that counts as a trade is one of a plan that was entered, and a row that stands
\* at a target has it marked as hit, whoever wrote it from how old a reading: except for
\* a row that was written from the reading of another plan than it had by then.  There it
\* fails: a trade is stopped by hand after the tracker has read it, record() replaces the
\* plan of the closed row, and the tracker gives the new plan the old one's result.
OutcomesAreEarned ==
    \A i \in Ids :
        LET row == rows[i] IN
        /\ row.status \in Traded /\ i \notin overtaken => <<i, row.plan>> \in entered
        /\ row.status = "TP1" => row.hits >= 1
        /\ row.status = "TP2" => row.hits >= 2
        /\ row.status = "TP3" => row.hits = 3

\* A live trade goes back to pending, or is dropped without a result, only by an actor
\* whose decision is from before it was live: a reading or a decision about a live trade
\* leads on to a target, to a stop or to nothing, whatever has become of it since.
OnlyOldReadingsWithdraw ==
    [][\A i \in Ids :
          rows[i].status \in Live /\ rows'[i].status \notin Traded =>
              \E a \in Actors :
                  desk[a].id = i /\ desk[a].status \notin Live /\ desk'[a] # desk[a]]_vars

\* A closed row is safe once nobody works on it any more: only an actor that took it up
\* while it was open can change it, and no actor takes up a closed row.
Settled(i) == rows[i].status \in Closed /\ \A a \in Actors : desk[a].id # i
SettledIsFinal ==
    [][\A i \in Ids : Settled(i) => Settled(i)' /\ rows'[i] = rows[i]]_vars

\* Once the price has entered the zone the plan stays as it is: nothing replaces the
\* plan of a triggered or live row but a refresh that had read it before it was
\* triggered, and while the row is in that state no such refresh begins.
Fixed(i) ==
    /\ rows[i].status \in {"TRIGGERED", "ACTIVE", "TP1", "TP2"}
    /\ \A r \in Recorders : ~(At(r, "replan") /\ desk[r].id = i)
PlanIsLocked ==
    [][\A i \in Ids : Fixed(i) =>
           /\ rows'[i].plan = rows[i].plan
           /\ rows'[i].status \in {"TRIGGERED", "ACTIVE", "TP1", "TP2"} => Fixed(i)']_vars

\* A row stays on its side: a refresh replaces its plan by one of the same side only,
\* though it writes what it made of the row two statements ago and others refresh it too.
SideIsKept ==
    [][\A i \in Ids : rows[i].status # NoStatus => SameSide(rows'[i].plan, rows[i].plan)]_vars

\* A plan whose time is over does not wait for its entry for ever, though refreshes put
\* it back and the tracker works from old readings.
DuePlansEnd ==
    \A i \in Ids :
        (i \in due /\ rows[i].status \in Pending) ~> (rows[i].status \notin Pending)

\* "Closing ACTIVE / TP1 / TP2 creates terminal status MANUAL_STOP"
\* (V8_0_1_BULK_CLOSE_STATS_HOTFIX.md:13): a trade closed by hand is not open again.
\* It may be: the tracker writes what it made of an earlier reading.
ManualStopIsTerminal ==
    [][\A i \in Ids : rows[i].status = "MANUAL_STOP" => rows'[i].status \notin Open]_vars
=============================================================================
