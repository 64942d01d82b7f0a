----------------------- MODULE SignalLifecycleProofs -----------------------
(***************************************************************************)
(* Proofs about SignalLifecycle, for every number of rows, plans and       *)
(* actors.  The inductive invariant adds to the properties what an actor   *)
(* between its reading and its write relies on: the row it works on        *)
(* exists; when it has read a live row, the plan it read was entered,      *)
(* unless an overtaken write has touched that row; and a recorder goes on  *)
(* to invalidate or to replan a row only from a reading that was not live. *)
(* For SideIsKept a refresh and its row are on the same side.              *)
(***************************************************************************)
EXTENDS SignalLifecycle, TLAPS

Working == {"update", "stop", "flip", "invalidate", "refresh", "replan"}

\* A plan of the row was entered, as far as the row is accounted for.
Backed(i, plan) == <<i, plan>> \in entered \/ i \in overtaken

\* What an actor that works on a row knows about it, however old its reading.
DeskOK(a) ==
    /\ desk[a].pc \in Working =>
          desk[a].id \in Ids /\ rows[desk[a].id].status # NoStatus
    /\ desk[a].pc \in {"update", "stop"} =>
          /\ desk[a].status \in Open
          /\ desk[a].status \in Live => Backed(desk[a].id, desk[a].plan)
    /\ desk[a].pc \in {"flip", "invalidate", "replan"} => desk[a].status \notin Live
    /\ a \in Recorders /\ desk[a].pc \notin {"idle", "done"} => desk[a].plan \in Plans

IInv ==
    /\ TypeOK
    /\ OutcomesAreEarned
    /\ \A a \in Actors : DeskOK(a)

\* The statuses an actor may write, and when: the facts the tables below rest on.
Earned(i, row, plan) ==
    /\ row.status \in Traded /\ row.plan = plan => row.status = "ACTIVE" \/ Backed(i, plan)
    /\ row.status = "TP1" => row.hits >= 1
    /\ row.status = "TP2" => row.hits >= 2
    /\ row.status = "TP3" => row.hits = 3

-----------------------------------------------------------------------------
(* One write. *)

AnyPlan == Plans \cup {NoPlan}

\* A write changes one row, and keeps what was said of the table.
LEMMA WriteKeeps ==
    ASSUME IInv, NEW i \in Ids, NEW row \in Rows, NEW plan \in AnyPlan, row.status # NoStatus,
           Earned(i, row, plan), Write(i, row, plan)
    PROVE  /\ rows' \in [Ids -> Rows] /\ due' = due
           /\ entered' \subseteq Ids \X AnyPlan /\ overtaken' \subseteq Ids
           /\ entered \subseteq entered' /\ overtaken \subseteq overtaken'
           /\ \A j \in Ids : rows'[j] = IF j = i THEN row ELSE rows[j]
           /\ OutcomesAreEarned'
<1>0. rows \in [Ids -> Rows] /\ entered \subseteq Ids \X AnyPlan /\ overtaken \subseteq Ids
  BY DEF IInv, TypeOK, AnyPlan
<1>1. /\ rows' \in [Ids -> Rows] /\ due' = due
      /\ entered' \subseteq Ids \X AnyPlan /\ overtaken' \subseteq Ids
      /\ entered \subseteq entered' /\ overtaken \subseteq overtaken'
      /\ row.status = "ACTIVE" => <<i, plan>> \in entered'
      /\ row.status \in Traded /\ row.plan # plan => i \in overtaken'
      /\ \A j \in Ids : rows'[j] = IF j = i THEN row ELSE rows[j]
  BY <1>0 DEF Write
<1>2. OutcomesAreEarned'
  <2>. SUFFICES ASSUME NEW j \in Ids
                PROVE  /\ rows'[j].status \in Traded /\ j \notin overtaken'
                            => <<j, rows'[j].plan>> \in entered'
                       /\ rows'[j].status = "TP1" => rows'[j].hits >= 1
                       /\ rows'[j].status = "TP2" => rows'[j].hits >= 2
                       /\ rows'[j].status = "TP3" => rows'[j].hits = 3
    BY DEF OutcomesAreEarned
  <2>1. CASE j = i BY <2>1, <1>1 DEF Earned, Backed
  <2>2. CASE j # i
    <3>1. rows'[j] = rows[j] BY <2>2, <1>1
    <3>. QED BY <3>1, <1>1 DEF IInv, OutcomesAreEarned
  <2>. QED BY <2>1, <2>2
<1>. QED BY <1>1, <1>2

\* Nothing but a save gives an unused row a status, and nothing takes one back.
LEMMA WriteKeepsDesks ==
    ASSUME IInv, NEW i \in Ids, NEW row \in Rows, row.status # NoStatus,
           rows' \in [Ids -> Rows], entered \subseteq entered', overtaken \subseteq overtaken',
           \A j \in Ids : rows'[j] = IF j = i THEN row ELSE rows[j],
           NEW b \in Actors, desk'[b] = desk[b]
    PROVE  DeskOK(b)'
BY DEF IInv, DeskOK, Backed

\* An actor that leaves a row knows nothing, and nobody else is concerned.
LEMMA LeaveKeeps ==
    ASSUME IInv, NEW a \in Actors, Leave(a)
    PROVE  /\ desk' \in [Actors -> Desks]
           /\ desk'[a].id = NoId /\ desk'[a].pc \in {"idle", "done"}
           /\ \A b \in Actors \ {a} : desk'[b] = desk[b]
<1> DEFINE now == [Idle EXCEPT !.pc = IF a \in Trackers THEN "idle" ELSE "done"]
<1>1. now \in Desks /\ now.id = NoId /\ now.pc \in {"idle", "done"}
  <2>1. ASSUME NEW pc \in {"idle", "done"}
        PROVE  LET d == [Idle EXCEPT !.pc = pc] IN
               d \in Desks /\ d.id = NoId /\ d.pc = pc
    <3>1. Idle \in Desks /\ Idle.id = NoId BY DEF Idle, Desks, Steps
    <3>. QED BY <3>1 DEF Desks, Steps
  <2>2. (IF a \in Trackers THEN "idle" ELSE "done") \in {"idle", "done"} OBVIOUS
  <2>. QED BY <2>1, <2>2
<1>2. desk' = [desk EXCEPT ![a] = now] BY DEF Leave, Become
<1>3. desk \in [Actors -> Desks] BY DEF IInv, TypeOK
<1> HIDE DEF now
<1>. QED BY <1>1, <1>2, <1>3

\* A write after which its actor works on no row.
LEMMA WriteAndMove ==
    ASSUME IInv, NEW a \in Actors, NEW i \in Ids, NEW row \in Rows,
           NEW plan \in AnyPlan, row.status # NoStatus,
           Earned(i, row, plan), Write(i, row, plan),
           desk' \in [Actors -> Desks], desk'[a].pc \notin Working,
           a \in Recorders /\ desk'[a].pc \notin {"idle", "done"} => desk'[a].plan \in Plans,
           \A b \in Actors \ {a} : desk'[b] = desk[b]
    PROVE  IInv'
<1>1. /\ rows' \in [Ids -> Rows] /\ due' = due
      /\ entered' \subseteq Ids \X AnyPlan /\ overtaken' \subseteq Ids
      /\ entered \subseteq entered' /\ overtaken \subseteq overtaken'
      /\ \A j \in Ids : rows'[j] = IF j = i THEN row ELSE rows[j]
      /\ OutcomesAreEarned'
  BY WriteKeeps
<1>2. TypeOK' BY <1>1 DEF IInv, TypeOK, AnyPlan
<1>3. ASSUME NEW b \in Actors PROVE DeskOK(b)'
  <2>1. CASE b = a BY <2>1 DEF DeskOK, Working
  <2>2. CASE b # a BY <2>2, <1>1, WriteKeepsDesks
  <2>. QED BY <2>1, <2>2
<1>. QED BY <1>1, <1>2, <1>3 DEF IInv

\* A write after which its actor leaves.
LEMMA WriteAndLeave ==
    ASSUME IInv, NEW a \in Actors, NEW i \in Ids, NEW row \in Rows,
           NEW plan \in AnyPlan, row.status # NoStatus,
           Earned(i, row, plan), Write(i, row, plan), Leave(a)
    PROVE  IInv'
<1>1. /\ desk' \in [Actors -> Desks]
      /\ desk'[a].pc \in {"idle", "done"}
      /\ \A b \in Actors \ {a} : desk'[b] = desk[b]
  BY LeaveKeeps
<1>2. desk'[a].pc \notin Working BY <1>1 DEF Working
<1>. QED BY <1>1, <1>2, WriteAndMove

\* A step that only changes its actor's place.
LEMMA PlaceOnly ==
    ASSUME IInv, NEW a \in Actors, NEW now \in Desks, Become(a, now), Untouched,
           now.pc \in Working => now.id \in Ids /\ rows[now.id].status # NoStatus,
           now.pc \in {"update", "stop"} =>
               now.status \in Open /\ (now.status \in Live => Backed(now.id, now.plan)),
           now.pc \in {"flip", "invalidate", "replan"} => now.status \notin Live,
           a \in Recorders /\ now.pc \notin {"idle", "done"} => now.plan \in Plans
    PROVE  IInv'
<1>1. /\ desk' \in [Actors -> Desks] /\ desk'[a] = now
      /\ \A b \in Actors \ {a} : desk'[b] = desk[b]
  BY DEF IInv, TypeOK, Become
<1>2. TypeOK' /\ OutcomesAreEarned'
  BY <1>1 DEF IInv, TypeOK, OutcomesAreEarned, Untouched, history
<1>3. ASSUME NEW b \in Actors PROVE DeskOK(b)'
  <2>1. CASE b = a BY <2>1, <1>1 DEF DeskOK, Backed, Untouched, history
  <2>2. CASE b # a BY <2>2, <1>1 DEF IInv, DeskOK, Backed, Untouched, history
  <2>. QED BY <2>1, <2>2
<1>. QED BY <1>2, <1>3 DEF IInv

-----------------------------------------------------------------------------
(* The steps. *)

LEMMA InitIInv == Init => IInv
<1>. SUFFICES ASSUME Init PROVE IInv OBVIOUS
<1>1. NoRow \in Rows /\ Idle \in Desks BY DEF NoRow, Rows, Idle, Desks, Steps
<1>2. TypeOK BY <1>1 DEF Init, TypeOK
<1>3. \A i \in Ids : rows[i].status = NoStatus BY DEF Init, NoRow
<1>4. OutcomesAreEarned BY <1>3 DEF OutcomesAreEarned, Traded, Live, NoStatus
<1>6. ASSUME NEW a \in Actors PROVE DeskOK(a) BY DEF Init, Idle, DeskOK, Working
<1>. QED BY <1>2, <1>4, <1>6 DEF IInv

LEMMA LeaveOnly == ASSUME IInv, NEW a \in Actors, Leave(a), Untouched PROVE IInv'
<1>1. /\ desk' \in [Actors -> Desks]
      /\ desk'[a].pc \in {"idle", "done"}
      /\ \A b \in Actors \ {a} : desk'[b] = desk[b]
  BY LeaveKeeps
<1>2. UNCHANGED <<rows, due, entered, overtaken>> BY DEF Untouched, history
<1>3. TypeOK' /\ OutcomesAreEarned'
  BY <1>1, <1>2 DEF IInv, TypeOK, OutcomesAreEarned
<1>4. ASSUME NEW b \in Actors PROVE DeskOK(b)'
  <2>1. CASE b = a BY <2>1, <1>1 DEF DeskOK, Working
  <2>2. CASE b # a BY <2>2, <1>1, <1>2 DEF IInv, DeskOK, Backed
  <2>. QED BY <2>1, <2>2
<1>. QED BY <1>3, <1>4 DEF IInv

LEMMA ExpireStep == ASSUME IInv, NEW i \in Ids, Expire(i) PROVE IInv'
<1>1. TypeOK' /\ OutcomesAreEarned'
  BY DEF IInv, TypeOK, OutcomesAreEarned, Expire, history
<1>2. \A b \in Actors : DeskOK(b)' BY DEF IInv, DeskOK, Backed, Expire, history
<1>. QED BY <1>1, <1>2 DEF IInv

\* What an actor between its reading and its write can rely on.
LEMMA Reading ==
    ASSUME IInv, NEW a \in Actors, desk[a].pc \in Working
    PROVE  /\ desk[a].id \in Ids /\ rows[desk[a].id] \in Rows
           /\ rows[desk[a].id].status # NoStatus
           /\ desk[a].pc \in {"update", "stop"} =>
                /\ desk[a].status \in Open
                /\ desk[a].status \in Live => Backed(desk[a].id, desk[a].plan)
           /\ desk[a].plan \in AnyPlan
BY DEF IInv, TypeOK, DeskOK, Desks, AnyPlan

LEMMA ReadOpenStep == ASSUME IInv, NEW t \in Trackers, ReadOpen(t) PROVE IInv'
<1>1. PICK i \in OpenRows : Become(t, [Idle EXCEPT !.pc = "update", !.id = i,
                                        !.status = rows[i].status, !.hits = rows[i].hits,
                                        !.plan = rows[i].plan])
  BY DEF ReadOpen
<1>2. i \in Ids /\ rows[i] \in Rows /\ rows[i].status \in Open
  BY DEF OpenRows, IInv, TypeOK
<1> DEFINE now == [Idle EXCEPT !.pc = "update", !.id = i, !.status = rows[i].status,
                               !.hits = rows[i].hits, !.plan = rows[i].plan]
<1>3. /\ now \in Desks /\ now.pc = "update" /\ now.id = i
      /\ now.status = rows[i].status /\ now.plan = rows[i].plan
  <2>1. Idle \in Desks BY DEF Idle, Desks, Steps
  <2>2. rows[i].hits \in 0..3 /\ rows[i].plan \in Plans \cup {NoPlan} BY <1>2 DEF Rows
  <2>. QED BY <2>1, <2>2, <1>2 DEF Desks, Steps
<1>4. rows[i].status \in Live => Backed(i, rows[i].plan)
  BY <1>2 DEF IInv, OutcomesAreEarned, Traded, Backed
<1>5. rows[i].status # NoStatus BY <1>2 DEF Open, Pending, Live, NoStatus
<1>6. t \notin Recorders /\ t \in Actors BY SignalAssumption DEF Actors
<1>7. Become(t, now) /\ Untouched BY <1>1 DEF ReadOpen
<1> HIDE DEF now
<1>. QED BY <1>2, <1>3, <1>4, <1>5, <1>6, <1>7, PlaceOnly

LEMMA ReadStopStep == ASSUME IInv, NEW u \in Users, ReadStop(u) PROVE IInv'
<1>1. PICK i \in StoppableRows : Become(u, [Idle EXCEPT !.pc = "stop", !.id = i,
                                             !.status = rows[i].status,
                                             !.plan = rows[i].plan])
  BY DEF ReadStop
<1>2. i \in Ids /\ rows[i] \in Rows /\ rows[i].status \notin Closed \cup {NoStatus}
  BY DEF StoppableRows, IInv, TypeOK
<1>3. rows[i].status \in Open BY <1>2 DEF Rows
<1> DEFINE now == [Idle EXCEPT !.pc = "stop", !.id = i, !.status = rows[i].status,
                               !.plan = rows[i].plan]
<1>4. /\ now \in Desks /\ now.pc = "stop" /\ now.id = i
      /\ now.status = rows[i].status /\ now.plan = rows[i].plan
  <2>1. Idle \in Desks /\ rows[i].plan \in Plans \cup {NoPlan}
    BY <1>2 DEF Idle, Desks, Steps, Rows
  <2>. QED BY <2>1, <1>2, <1>3 DEF Desks, Steps
<1>5. rows[i].status \in Live => Backed(i, rows[i].plan)
  BY <1>2 DEF IInv, OutcomesAreEarned, Traded, Backed
<1>6. u \notin Recorders /\ u \in Actors BY SignalAssumption DEF Actors
<1>7. Become(u, now) /\ Untouched BY <1>1 DEF ReadStop
<1> HIDE DEF now
<1>. QED BY <1>2, <1>3, <1>4, <1>5, <1>6, <1>7, PlaceOnly

\* A write of a status that needs no more than the reading that led to it.
LEMMA StatusWritten ==
    ASSUME IInv, NEW a \in Actors, desk[a].pc \in Working, Leave(a),
           NEW s \in Open \cup Closed, s \notin {"TP1", "TP2", "TP3"},
           s \in {"STOP", "MANUAL_STOP"} => Backed(desk[a].id, desk[a].plan),
           Write(desk[a].id, [rows[desk[a].id] EXCEPT !.status = s], desk[a].plan)
    PROVE  IInv'
<1> DEFINE row == [rows[desk[a].id] EXCEPT !.status = s]
<1>1. desk[a].id \in Ids /\ rows[desk[a].id] \in Rows /\ desk[a].plan \in AnyPlan BY Reading
<1>2. row \in Rows /\ row.status = s BY <1>1 DEF Rows
<1>3. s # NoStatus BY DEF Open, Pending, Live, Closed, NoStatus
<1>4. Earned(desk[a].id, row, desk[a].plan) BY <1>2 DEF Earned, Traded, Live
<1>5. Write(desk[a].id, row, desk[a].plan) OBVIOUS
<1> HIDE DEF row
<1>. QED BY <1>1, <1>2, <1>3, <1>4, <1>5, WriteAndLeave

\* What the tracker makes of the price is a stop only from a live reading.
LEMMA Foreseen ==
    ASSUME NEW status \in Open, NEW i, NEW s \in Outcomes(status, i)
    PROVE  /\ s \in Open \cup Closed /\ s \notin {"TP1", "TP2", "TP3", "MANUAL_STOP"}
           /\ s = "STOP" => status \in Live
           /\ status \in Live => s = "STOP"
<1>1. /\ s \in {"INVALIDATED", "TRIGGERED", "ACTIVE", "EXPIRED", "STOP"}
      /\ s = "STOP" <=> status \in Live
  BY DEF Outcomes, Overdue, Open, Pending, Live
<1>. QED BY <1>1 DEF Open, Pending, Live, Closed

LEMMA TransitionStep == ASSUME IInv, NEW t \in Trackers, Transition(t) PROVE IInv'
<1>1. t \in Actors /\ desk[t].pc = "update" /\ Leave(t)
  BY DEF Actors, Transition, At
<1>2. /\ desk[t].status \in Open
      /\ desk[t].status \in Live => Backed(desk[t].id, desk[t].plan)
  BY <1>1, Reading DEF Working
<1>3. PICK s \in Outcomes(desk[t].status, desk[t].id) :
          Write(desk[t].id, [rows[desk[t].id] EXCEPT !.status = s], desk[t].plan)
  BY DEF Transition
<1>4. /\ s \in Open \cup Closed /\ s \notin {"TP1", "TP2", "TP3", "MANUAL_STOP"}
      /\ s = "STOP" => desk[t].status \in Live
  BY <1>2, Foreseen
<1>. QED BY <1>1, <1>2, <1>3, <1>4, StatusWritten DEF Working

LEMMA ManualStopStep == ASSUME IInv, NEW u \in Users, ManualStop(u) PROVE IInv'
<1>1. u \in Actors /\ desk[u].pc = "stop" /\ Leave(u)
  BY DEF Actors, ManualStop, At
<1>2. /\ desk[u].status \in Open
      /\ desk[u].status \in Live => Backed(desk[u].id, desk[u].plan)
  BY <1>1, Reading DEF Working
<1> DEFINE s == Stopped(desk[u].status)
<1>3. /\ s \in {"INVALIDATED", "MANUAL_STOP"}
      /\ s = "MANUAL_STOP" => desk[u].status \in Live
  BY <1>2 DEF Stopped, Open, Pending, Live
<1>4. s \in Open \cup Closed /\ s \notin {"TP1", "TP2", "TP3", "STOP"}
  BY <1>3 DEF Open, Pending, Live, Closed
<1>5. Write(desk[u].id, [rows[desk[u].id] EXCEPT !.status = s], desk[u].plan)
  BY DEF ManualStop
<1> HIDE DEF s
<1>. QED BY <1>1, <1>2, <1>3, <1>4, <1>5, StatusWritten DEF Working

LEMMA HitTargetStep == ASSUME IInv, NEW t \in Trackers, HitTarget(t) PROVE IInv'
<1>1. /\ t \in Actors /\ desk[t].pc = "update" /\ Leave(t)
      /\ desk[t].status \in Live
  BY DEF Actors, HitTarget, At
<1>2. PICK n \in 1..3 :
          Write(desk[t].id, [rows[desk[t].id] EXCEPT !.status = TargetName(n),
                                                     !.hits = MaxHits(@, n)], desk[t].plan)
  BY DEF HitTarget
<1>3. /\ desk[t].id \in Ids /\ rows[desk[t].id] \in Rows /\ desk[t].plan \in AnyPlan
      /\ Backed(desk[t].id, desk[t].plan)
  BY <1>1, Reading DEF Working
<1> DEFINE row == [rows[desk[t].id] EXCEPT !.status = TargetName(n), !.hits = MaxHits(@, n)]
<1>4. /\ MaxHits(rows[desk[t].id].hits, n) \in 0..3
      /\ MaxHits(rows[desk[t].id].hits, n) >= n
  BY <1>3 DEF Rows, MaxHits
<1>5. /\ TargetName(n) \in {"TP1", "TP2", "TP3"}
      /\ TargetName(n) = "TP2" => n = 2
      /\ TargetName(n) = "TP3" => n = 3
  BY DEF TargetName
<1>6. /\ row \in Rows /\ row.status = TargetName(n)
      /\ row.hits = MaxHits(rows[desk[t].id].hits, n)
  BY <1>3, <1>4, <1>5 DEF Rows, Open, Pending, Live, Closed
<1>7. Write(desk[t].id, row, desk[t].plan) BY <1>2
<1> HIDE DEF row
<1>8. row.status # NoStatus BY <1>5, <1>6 DEF NoStatus
<1>9. Earned(desk[t].id, row, desk[t].plan) BY <1>3, <1>4, <1>5, <1>6 DEF Earned
<1>. QED BY <1>1, <1>3, <1>6, <1>7, <1>8, <1>9, WriteAndLeave

LEMMA AnalyseStep == ASSUME IInv, NEW r \in Recorders, Analyse(r) PROVE IInv'
<1>1. PICK p \in Plans, ready \in BOOLEAN :
          Become(r, [Idle EXCEPT !.pc = "market", !.plan = p, !.ready = ready])
  BY DEF Analyse
<1> DEFINE now == [Idle EXCEPT !.pc = "market", !.plan = p, !.ready = ready]
<1>2. now \in Desks /\ now.pc = "market" /\ now.plan = p
  <2>1. Idle \in Desks BY DEF Idle, Desks, Steps
  <2>. QED BY <2>1 DEF Desks, Steps
<1>3. Become(r, now) /\ Untouched /\ r \in Actors BY <1>1 DEF Analyse, Actors
<1> HIDE DEF now
<1>. QED BY <1>2, <1>3, PlaceOnly DEF Working

\* A recorder keeps its plan until it is done.
LEMMA Planned ==
    ASSUME IInv, NEW r \in Recorders, desk[r].pc \notin {"idle", "done"}
    PROVE  r \in Actors /\ desk[r] \in Desks /\ desk[r].plan \in Plans
BY DEF IInv, TypeOK, DeskOK, Actors

LEMMA TakeUpStep ==
    ASSUME IInv, NEW r \in Recorders, desk[r].pc \notin {"idle", "done"}, NEW i \in Ids,
           rows[i].status # NoStatus,
           NEW pc \in {"flip", "refresh", "replan"}, pc # "refresh" => rows[i].status \notin Live,
           TakeUp(r, i, pc), Untouched
    PROVE  IInv'
<1> DEFINE now == [desk[r] EXCEPT !.pc = pc, !.id = i, !.status = rows[i].status]
<1>0. rows[i].status \in Open \cup Closed \cup {NoStatus} BY DEF IInv, TypeOK, Rows
<1>1. /\ now \in Desks /\ now.pc = pc /\ now.id = i /\ now.plan \in Plans
      /\ now.status = rows[i].status
  BY <1>0, Planned DEF Desks, Steps
<1>2. Become(r, now) /\ r \in Actors BY Planned DEF TakeUp
<1> HIDE DEF now
<1>. QED BY <1>1, <1>2, PlaceOnly

LEMMA GoSaveStep ==
    ASSUME IInv, NEW r \in Recorders, desk[r].pc \notin {"idle", "done"}, GoSave(r), Untouched
    PROVE  IInv'
<1> DEFINE now == [desk[r] EXCEPT !.pc = "save", !.id = NoId, !.status = NoStatus]
<1>1. now \in Desks /\ now.pc = "save" /\ now.plan \in Plans
  BY Planned DEF Desks, Steps
<1>2. Become(r, now) /\ r \in Actors BY Planned DEF GoSave
<1> HIDE DEF now
<1>. QED BY <1>1, <1>2, PlaceOnly DEF Working

LEMMA ReadMarketStep == ASSUME IInv, NEW r \in Recorders, ReadMarket(r) PROVE IInv'
<1>1. desk[r].pc = "market" /\ Untouched /\ r \in Actors BY DEF ReadMarket, At, Actors
<1>2. \A i \in OpenRows : i \in Ids /\ rows[i].status # NoStatus
  BY DEF OpenRows, Open, Pending, Live, NoStatus
<1>3. CASE \E i \in OpenRows : TakeUp(r, i, "refresh") BY <1>1, <1>2, <1>3, TakeUpStep
<1>4. CASE \E i \in OpenRows : rows[i].status \notin Live /\ TakeUp(r, i, "flip")
  BY <1>1, <1>2, <1>4, TakeUpStep
<1>5. CASE Leave(r) BY <1>1, <1>5, LeaveOnly
<1>6. CASE GoSave(r) BY <1>1, <1>6, GoSaveStep
<1>. QED BY <1>3, <1>4, <1>5, <1>6 DEF ReadMarket

LEMMA ReadFlipStep == ASSUME IInv, NEW r \in Recorders, ReadFlip(r) PROVE IInv'
<1>1. desk[r].pc = "flip" /\ Untouched /\ r \in Actors BY DEF ReadFlip, At, Actors
<1>2. desk[r].id \in Ids /\ rows[desk[r].id].status # NoStatus
  BY <1>1, Reading DEF Working
<1>3. CASE Become(r, [desk[r] EXCEPT !.pc = "invalidate"])
  <2> DEFINE now == [desk[r] EXCEPT !.pc = "invalidate"]
  <2>1. desk[r] \in Desks /\ desk[r].plan \in Plans BY <1>1, Planned
  <2>2. desk[r].status \notin Live BY <1>1 DEF IInv, DeskOK
  <2>3. /\ now \in Desks /\ now.pc = "invalidate" /\ now.id = desk[r].id
        /\ now.plan \in Plans /\ now.status \notin Live
    BY <2>1, <2>2 DEF Desks, Steps
  <2>4. Become(r, now) BY <1>3
  <2> HIDE DEF now
  <2>. QED BY <1>1, <1>2, <2>3, <2>4, PlaceOnly
<1>4. CASE GoSave(r) BY <1>1, <1>4, GoSaveStep
<1>. QED BY <1>3, <1>4 DEF ReadFlip

LEMMA ReadDuplicateStep == ASSUME IInv, NEW r \in Recorders, ReadDuplicate(r) PROVE IInv'
<1>1. desk[r].pc = "refresh" /\ Untouched /\ r \in Actors BY DEF ReadDuplicate, At, Actors
<1>2. desk[r].id \in Ids /\ rows[desk[r].id].status # NoStatus
  BY <1>1, Reading DEF Working
<1>3. CASE ~Immutable(rows[desk[r].id].status) /\ TakeUp(r, desk[r].id, "replan")
  BY <1>1, <1>2, <1>3, TakeUpStep DEF Immutable
<1>4. CASE Leave(r) BY <1>1, <1>4, LeaveOnly
<1>. QED BY <1>3, <1>4 DEF ReadDuplicate

LEMMA InvalidateStep == ASSUME IInv, NEW r \in Recorders, Invalidate(r) PROVE IInv'
<1>1. /\ desk[r].pc = "invalidate" /\ GoSave(r) /\ r \in Actors
  BY DEF Invalidate, At, Actors
<1>2. desk[r].id \in Ids /\ rows[desk[r].id] \in Rows
  BY <1>1, Reading DEF Working
<1>3. desk[r] \in Desks /\ desk[r].plan \in Plans BY <1>1, Planned
<1> DEFINE row == [rows[desk[r].id] EXCEPT !.status = "INVALIDATED"]
           now == [desk[r] EXCEPT !.pc = "save", !.id = NoId, !.status = NoStatus]
           plan == rows[desk[r].id].plan
<1>4. /\ row \in Rows /\ row.status = "INVALIDATED" /\ plan \in AnyPlan
      /\ now \in Desks /\ now.pc = "save" /\ now.plan \in Plans
  BY <1>2, <1>3 DEF Rows, Closed, Desks, Steps, AnyPlan
<1>5. Write(desk[r].id, row, plan) /\ desk' = [desk EXCEPT ![r] = now]
  BY <1>1 DEF Invalidate, GoSave, Become
<1>6. desk \in [Actors -> Desks] BY DEF IInv, TypeOK
<1> HIDE DEF row, now, plan
<1>7. /\ desk' \in [Actors -> Desks] /\ desk'[r] = now
      /\ \A b \in Actors \ {r} : desk'[b] = desk[b]
  BY <1>1, <1>4, <1>5, <1>6
<1>8. row.status # NoStatus /\ Earned(desk[r].id, row, plan)
  BY <1>4 DEF Earned, NoStatus, Traded, Live
<1>9. desk'[r].pc \notin Working /\ desk'[r].plan \in Plans BY <1>4, <1>7 DEF Working
<1>. QED BY <1>1, <1>2, <1>4, <1>5, <1>7, <1>8, <1>9, WriteAndMove

LEMMA ReplanStep == ASSUME IInv, NEW r \in Recorders, Replan(r) PROVE IInv'
<1>1. desk[r].pc = "replan" /\ Leave(r) /\ r \in Actors BY DEF Replan, At, Actors
<1>2. desk[r].id \in Ids /\ rows[desk[r].id] \in Rows
  BY <1>1, Reading DEF Working
<1>3. desk[r].plan \in Plans BY <1>1, Planned
<1> DEFINE row == [rows[desk[r].id] EXCEPT !.status = Desired(r), !.plan = desk[r].plan]
<1>4. Desired(r) \in {"ACTIVE", "WATCHING"} BY DEF Desired
<1>5. row \in Rows /\ row.status = Desired(r)
  BY <1>2, <1>3, <1>4 DEF Rows, Open, Pending, Live
<1>6. Write(desk[r].id, row, desk[r].plan) /\ desk[r].plan \in AnyPlan
  BY <1>3 DEF Replan, AnyPlan
<1> HIDE DEF row
<1>7. row.status # NoStatus /\ Earned(desk[r].id, row, desk[r].plan)
  BY <1>4, <1>5 DEF Earned, NoStatus, Traded, Live
<1>. QED BY <1>1, <1>2, <1>5, <1>6, <1>7, WriteAndLeave

\* What save() inserts, and where.
LEMMA Inserted ==
    ASSUME IInv, NEW r \in Recorders, Save(r)
    PROVE  /\ r \in Actors /\ Leave(r)
           /\ \E i \in Unused : \E row \in Rows :
                 /\ i \in Ids /\ rows[i].status = NoStatus
                 /\ row.status = Desired(r) /\ Write(i, row, desk[r].plan)
           /\ desk[r].plan \in AnyPlan
<1>1. desk[r].pc = "save" /\ Leave(r) /\ r \in Actors BY DEF Save, At, Actors
<1>2. desk[r].plan \in Plans /\ desk[r].plan \in AnyPlan BY <1>1, Planned DEF AnyPlan
<1> DEFINE i == CHOOSE i \in Unused : TRUE
           row == [NoRow EXCEPT !.status = Desired(r), !.plan = desk[r].plan]
<1>3. i \in Unused BY DEF Save
<1>4. i \in Ids /\ rows[i].status = NoStatus BY <1>3 DEF Unused
<1>5. NoRow \in Rows BY DEF NoRow, Rows
<1>6. row \in Rows /\ row.status = Desired(r)
  BY <1>2, <1>5 DEF Rows, Desired, Open, Pending, Live
<1>7. Write(i, row, desk[r].plan) BY DEF Save
<1> HIDE DEF i, row
<1>. QED BY <1>1, <1>2, <1>3, <1>4, <1>6, <1>7

LEMMA SaveStep == ASSUME IInv, NEW r \in Recorders, Save(r) PROVE IInv'
<1>1. PICK i \in Ids, row \in Rows : row.status = Desired(r) /\ Write(i, row, desk[r].plan)
  BY Inserted
<1>2. row.status # NoStatus /\ Earned(i, row, desk[r].plan)
  BY <1>1 DEF Desired, Earned, NoStatus, Traded, Live
<1>. QED BY <1>1, <1>2, Inserted, WriteAndLeave

LEMMA NextIInv == IInv /\ [Next]_vars => IInv'
<1>. SUFFICES ASSUME IInv, [Next]_vars PROVE IInv' OBVIOUS
<1>1. ASSUME NEW t \in Trackers, ReadOpen(t) \/ Update(t) PROVE IInv'
  <2>1. t \in Actors BY DEF Actors
  <2>2. CASE Stay(t) BY <2>1, <2>2, LeaveOnly DEF Stay
  <2>. QED BY <1>1, <2>2, ReadOpenStep, TransitionStep, HitTargetStep DEF Update
<1>2. ASSUME NEW u \in Users, ReadStop(u) \/ ManualStop(u) PROVE IInv'
  BY <1>2, ReadStopStep, ManualStopStep
<1>3. ASSUME NEW r \in Recorders, RecorderNext(r) PROVE IInv'
  BY <1>3, AnalyseStep, ReadMarketStep, ReadFlipStep, InvalidateStep, ReadDuplicateStep,
     ReplanStep, SaveStep DEF RecorderNext
<1>4. ASSUME NEW a \in Actors, Abandon(a) PROVE IInv'
  BY <1>4, LeaveOnly DEF Abandon
<1>5. ASSUME NEW i \in Ids, Expire(i) PROVE IInv' BY <1>5, ExpireStep
<1>6. CASE UNCHANGED vars
  <2>1. TypeOK' /\ OutcomesAreEarned'
    BY <1>6 DEF vars, history, IInv, TypeOK, OutcomesAreEarned
  <2>2. \A b \in Actors : DeskOK(b)' BY <1>6 DEF vars, history, IInv, DeskOK, Backed
  <2>. QED BY <2>1, <2>2 DEF IInv
<1>. QED BY <1>1, <1>2, <1>3, <1>4, <1>5, <1>6 DEF Next, TrackerNext, UserNext

\* The invariant is inductive, so it holds in every reachable state.
THEOREM Invariance == Spec => []IInv
BY InitIInv, NextIInv, PTL DEF Spec

\* Every reachable state of the table and of its writers is well typed.
THEOREM SignalTyping == Spec => []TypeOK
BY Invariance, PTL DEF IInv

\* However old the readings that its writers work from, no row counts as the trade of a
\* plan that was never entered, unless a write that named another plan has touched it,
\* and none stands at a target that it has not hit.
THEOREM EarnedOutcomes == Spec => []OutcomesAreEarned
BY Invariance, PTL DEF IInv

-----------------------------------------------------------------------------
(* Closed rows. *)

\* Where a step leaves its actor: at no row, at the row it worked on, or at one that
\* was open when it took it up.
LEMMA WhereTo ==
    ASSUME IInv, NEW a \in Actors, NEW i \in Ids,
           \/ Leave(a)
           \/ a \in Recorders /\ (GoSave(a) \/ \E k \in Ids \ {i}, pc \in Steps : TakeUp(a, k, pc))
    PROVE  /\ desk'[a].id # i
           /\ \A b \in Actors \ {a} : desk'[b] = desk[b]
<1>1. desk \in [Actors -> Desks] BY DEF IInv, TypeOK
<1>2. NoId # i BY NoneAssumption
<1>3. CASE Leave(a) BY <1>2, <1>3, LeaveKeeps
<1>4. CASE GoSave(a) BY <1>1, <1>2, <1>4 DEF GoSave, Become, Desks
<1>5. ASSUME NEW k \in Ids \ {i}, NEW pc \in Steps, TakeUp(a, k, pc)
      PROVE  /\ desk'[a].id # i
             /\ \A b \in Actors \ {a} : desk'[b] = desk[b]
  BY <1>1, <1>5 DEF TakeUp, Become, Desks
<1>. QED BY <1>3, <1>4, <1>5

\* A write changes the row it names and no other.
LEMMA WriteElsewhere ==
    ASSUME IInv, NEW i \in Ids, NEW k \in Ids \ {i}, NEW row, NEW plan, Write(k, row, plan)
    PROVE  rows'[i] = rows[i]
BY DEF IInv, TypeOK, Write

LEMMA SettledStep ==
    ASSUME IInv, Next, NEW i \in Ids, Settled(i)
    PROVE  Settled(i)' /\ rows'[i] = rows[i]
<1>. SUFFICES /\ rows'[i] = rows[i]
              /\ \A b \in Actors : desk'[b].id # i
  BY DEF Settled
<1>0. /\ rows[i].status \in Closed /\ rows[i].status # NoStatus
      /\ rows[i].status \notin Open
      /\ \A b \in Actors : desk[b].id # i
  BY DEF Settled, Open, Pending, Live, Closed, NoStatus
<1>u. Untouched => rows'[i] = rows[i] BY DEF Untouched
<1>w. ASSUME NEW a \in Actors, desk[a].pc \in Working, NEW row, NEW plan, Write(desk[a].id, row, plan)
      PROVE  rows'[i] = rows[i]
  BY <1>w, <1>0, Reading, WriteElsewhere
<1>l. ASSUME NEW a \in Actors,
             \/ Leave(a)
             \/ a \in Recorders /\ (GoSave(a) \/ \E k \in Ids \ {i}, pc \in Steps : TakeUp(a, k, pc))
      PROVE  \A b \in Actors : desk'[b].id # i
  BY <1>l, <1>0, WhereTo
<1>1. ASSUME NEW t \in Trackers, TrackerNext(t)
      PROVE  rows'[i] = rows[i] /\ \A b \in Actors : desk'[b].id # i
  <2>0. t \in Actors /\ desk \in [Actors -> Desks] BY DEF Actors, IInv, TypeOK
  <2>1. CASE ReadOpen(t)
    <3>1. PICK k \in OpenRows : Become(t, [Idle EXCEPT !.pc = "update", !.id = k,
                                            !.status = rows[k].status, !.hits = rows[k].hits,
                                            !.plan = rows[k].plan])
      BY <2>1 DEF ReadOpen
    <3>2. k # i BY <1>0 DEF OpenRows
    <3>3. desk'[t].id = k /\ \A b \in Actors \ {t} : desk'[b] = desk[b]
      BY <2>0, <3>1 DEF Become, Idle
    <3>. QED BY <1>0, <1>u, <2>1, <3>2, <3>3 DEF ReadOpen
  <2>2. CASE Transition(t)
    <3>1. desk[t].pc \in Working /\ Leave(t) BY <2>2 DEF Transition, At, Working
    <3>2. \E row, plan : Write(desk[t].id, row, plan) BY <2>2 DEF Transition
    <3>. QED BY <1>w, <1>l, <2>0, <3>1, <3>2
  <2>3. CASE HitTarget(t)
    <3>1. desk[t].pc \in Working /\ Leave(t) BY <2>3 DEF HitTarget, At, Working
    <3>2. \E row, plan : Write(desk[t].id, row, plan) BY <2>3 DEF HitTarget
    <3>. QED BY <1>w, <1>l, <2>0, <3>1, <3>2
  <2>4. CASE Stay(t) BY <1>u, <1>l, <2>0, <2>4 DEF Stay
  <2>. QED BY <1>1, <2>1, <2>2, <2>3, <2>4 DEF TrackerNext, Update
<1>2. ASSUME NEW u \in Users, UserNext(u)
      PROVE  rows'[i] = rows[i] /\ \A b \in Actors : desk'[b].id # i
  <2>0. u \in Actors /\ desk \in [Actors -> Desks] BY DEF Actors, IInv, TypeOK
  <2>1. CASE ReadStop(u)
    <3>1. PICK k \in StoppableRows : Become(u, [Idle EXCEPT !.pc = "stop", !.id = k,
                                                 !.status = rows[k].status,
                                                 !.plan = rows[k].plan])
      BY <2>1 DEF ReadStop
    <3>2. k # i BY <1>0 DEF StoppableRows
    <3>3. desk'[u].id = k /\ \A b \in Actors \ {u} : desk'[b] = desk[b]
      BY <2>0, <3>1 DEF Become, Idle
    <3>. QED BY <1>0, <1>u, <2>1, <3>2, <3>3 DEF ReadStop
  <2>2. CASE ManualStop(u)
    <3>1. desk[u].pc \in Working /\ Leave(u) BY <2>2 DEF ManualStop, At, Working
    <3>2. \E row, plan : Write(desk[u].id, row, plan) BY <2>2 DEF ManualStop
    <3>. QED BY <1>w, <1>l, <2>0, <3>1, <3>2
  <2>. QED BY <1>2, <2>1, <2>2 DEF UserNext
<1>3. ASSUME NEW r \in Recorders, RecorderNext(r)
      PROVE  rows'[i] = rows[i] /\ \A b \in Actors : desk'[b].id # i
  <2>0. r \in Actors /\ desk \in [Actors -> Desks] BY DEF Actors, IInv, TypeOK
  <2>1. CASE Analyse(r)
    <3>1. desk'[r].id = NoId /\ \A b \in Actors \ {r} : desk'[b] = desk[b]
      BY <2>0, <2>1 DEF Analyse, Become, Idle
    <3>. QED BY <1>0, <1>u, <2>1, <3>1, NoneAssumption DEF Analyse
  <2>2. CASE ReadMarket(r)
    <3>1. \A k \in OpenRows : k \in Ids \ {i} BY <1>0 DEF OpenRows
    <3>2. \/ Leave(r) \/ GoSave(r)
          \/ \E k \in OpenRows : TakeUp(r, k, "refresh") \/ TakeUp(r, k, "flip")
      BY <2>2 DEF ReadMarket
    <3>. QED BY <1>u, <1>l, <2>0, <2>2, <3>1, <3>2 DEF ReadMarket, Steps
  <2>3. CASE ReadFlip(r)
    <3>1. desk[r].id \in Ids \ {i} BY <1>0, <2>0, <2>3, Reading DEF ReadFlip, At, Working
    <3>2. CASE Become(r, [desk[r] EXCEPT !.pc = "invalidate"])
      <4>1. desk'[r].id = desk[r].id /\ \A b \in Actors \ {r} : desk'[b] = desk[b]
        BY <2>0, <3>2 DEF Become, Desks
      <4>. QED BY <1>0, <1>u, <2>3, <3>1, <4>1 DEF ReadFlip
    <3>. QED BY <1>u, <1>l, <2>0, <2>3, <3>2 DEF ReadFlip
  <2>4. CASE Invalidate(r)
    <3>1. desk[r].pc \in Working /\ GoSave(r) BY <2>4 DEF Invalidate, At, Working
    <3>2. \E row, plan : Write(desk[r].id, row, plan) BY <2>4 DEF Invalidate
    <3>. QED BY <1>w, <1>l, <2>0, <3>1, <3>2
  <2>5. CASE ReadDuplicate(r)
    <3>1. desk[r].id \in Ids \ {i}
      BY <1>0, <2>0, <2>5, Reading DEF ReadDuplicate, At, Working
    <3>. QED BY <1>u, <1>l, <2>0, <2>5, <3>1 DEF ReadDuplicate, Steps
  <2>6. CASE Replan(r)
    <3>1. desk[r].pc \in Working /\ Leave(r) BY <2>6 DEF Replan, At, Working
    <3>2. \E row, plan : Write(desk[r].id, row, plan) BY <2>6 DEF Replan
    <3>. QED BY <1>w, <1>l, <2>0, <3>1, <3>2
  <2>7. CASE Save(r)
    <3>1. PICK k \in Ids, row \in Rows : rows[k].status = NoStatus /\ Write(k, row, desk[r].plan)
      BY <2>7, Inserted
    <3>2. rows'[i] = rows[i] BY <1>0, <3>1, WriteElsewhere
    <3>. QED BY <1>l, <2>0, <2>7, <3>2 DEF Save
  <2>. QED BY <1>3, <2>1, <2>2, <2>3, <2>4, <2>5, <2>6, <2>7 DEF RecorderNext
<1>4. ASSUME NEW a \in Actors, Abandon(a)
      PROVE  rows'[i] = rows[i] /\ \A b \in Actors : desk'[b].id # i
  BY <1>u, <1>l, <1>4 DEF Abandon
<1>5. ASSUME NEW k \in Ids, Expire(k)
      PROVE  rows'[i] = rows[i] /\ \A b \in Actors : desk'[b].id # i
  BY <1>0, <1>5 DEF Expire
<1>. QED BY <1>1, <1>2, <1>3, <1>4, <1>5 DEF Next

\* A closed row that nobody works on is final: no actor takes up a closed row, and none
\* writes a row it has not taken up.
THEOREM SettledFinal == Spec => SettledIsFinal
<1>1. IInv /\ [Next]_vars
        => [\A i \in Ids : Settled(i) => Settled(i)' /\ rows'[i] = rows[i]]_vars
  BY SettledStep
<1>. QED BY <1>1, Invariance, PTL DEF Spec, SettledIsFinal

-----------------------------------------------------------------------------
(* Locked plans. *)

Entered == {"TRIGGERED", "ACTIVE", "TP1", "TP2"}
Replanning(r, i) == At(r, "replan") /\ desk[r].id = i

\* A change of status leaves every plan as it is.
LEMMA StatusKeepsPlans ==
    ASSUME IInv, NEW i \in Ids, NEW k \in Ids, NEW row, NEW plan,
           row.plan = rows[k].plan, Write(k, row, plan)
    PROVE  rows'[i].plan = rows[i].plan
BY DEF IInv, TypeOK, Write

\* Nobody begins to replan a row unless his step says so.
LEMMA NoNewReplanning ==
    ASSUME IInv, NEW a \in Actors, NEW i \in Ids,
           \A r \in Recorders : ~Replanning(r, i),
           desk'[a].pc # "replan" \/ desk'[a].id # i,
           \A b \in Actors \ {a} : desk'[b] = desk[b]
    PROVE  \A r \in Recorders : ~Replanning(r, i)'
BY DEF Replanning, At, Actors

LEMMA LeavesReplanning ==
    ASSUME IInv, NEW a \in Actors, NEW i \in Ids, Leave(a),
           \A r \in Recorders : ~Replanning(r, i)
    PROVE  \A r \in Recorders : ~Replanning(r, i)'
BY LeaveKeeps, NoNewReplanning

LEMMA LockedStep ==
    ASSUME IInv, Next, NEW i \in Ids, rows[i].status \in Entered,
           \A r \in Recorders : ~Replanning(r, i)
    PROVE  /\ rows'[i].plan = rows[i].plan
           /\ \A r \in Recorders : ~Replanning(r, i)'
<1>0. desk \in [Actors -> Desks] /\ rows \in [Ids -> Rows] BY DEF IInv, TypeOK
<1>u. Untouched => rows'[i].plan = rows[i].plan BY DEF Untouched
<1>1. ASSUME NEW t \in Trackers, TrackerNext(t)
      PROVE  /\ rows'[i].plan = rows[i].plan
             /\ \A r \in Recorders : ~Replanning(r, i)'
  <2>0. t \in Actors BY DEF Actors
  <2>1. CASE ReadOpen(t)
    <3>1. desk'[t].pc = "update" /\ \A b \in Actors \ {t} : desk'[b] = desk[b]
      BY <1>0, <2>0, <2>1 DEF ReadOpen, Become, Idle
    <3>. QED BY <1>u, <2>0, <2>1, <3>1, NoNewReplanning DEF ReadOpen
  <2>2. CASE Transition(t)
    <3>1. desk[t].id \in Ids /\ rows[desk[t].id] \in Rows /\ Leave(t)
      BY <2>0, <2>2, Reading DEF Transition, At, Working
    <3>2. PICK s : Write(desk[t].id, [rows[desk[t].id] EXCEPT !.status = s], desk[t].plan)
      BY <2>2 DEF Transition
    <3>3. [rows[desk[t].id] EXCEPT !.status = s].plan = rows[desk[t].id].plan
      BY <3>1 DEF Rows
    <3>. QED BY <2>0, <3>1, <3>2, <3>3, StatusKeepsPlans, LeavesReplanning
  <2>3. CASE HitTarget(t)
    <3>1. desk[t].id \in Ids /\ rows[desk[t].id] \in Rows /\ Leave(t)
      BY <2>0, <2>3, Reading DEF HitTarget, At, Working
    <3>2. PICK n : Write(desk[t].id, [rows[desk[t].id] EXCEPT !.status = TargetName(n),
                                                              !.hits = MaxHits(@, n)],
                         desk[t].plan)
      BY <2>3 DEF HitTarget
    <3>3. [rows[desk[t].id] EXCEPT !.status = TargetName(n), !.hits = MaxHits(@, n)].plan
            = rows[desk[t].id].plan
      BY <3>1 DEF Rows
    <3>. QED BY <2>0, <3>1, <3>2, <3>3, StatusKeepsPlans, LeavesReplanning
  <2>4. CASE Stay(t) BY <1>u, <2>0, <2>4, LeavesReplanning DEF Stay
  <2>. QED BY <1>1, <2>1, <2>2, <2>3, <2>4 DEF TrackerNext, Update
<1>2. ASSUME NEW u \in Users, UserNext(u)
      PROVE  /\ rows'[i].plan = rows[i].plan
             /\ \A r \in Recorders : ~Replanning(r, i)'
  <2>0. u \in Actors BY DEF Actors
  <2>1. CASE ReadStop(u)
    <3>1. desk'[u].pc = "stop" /\ \A b \in Actors \ {u} : desk'[b] = desk[b]
      BY <1>0, <2>0, <2>1 DEF ReadStop, Become, Idle
    <3>. QED BY <1>u, <2>0, <2>1, <3>1, NoNewReplanning DEF ReadStop
  <2>2. CASE ManualStop(u)
    <3>1. desk[u].id \in Ids /\ rows[desk[u].id] \in Rows /\ Leave(u)
      BY <2>0, <2>2, Reading DEF ManualStop, At, Working
    <3>2. PICK s : Write(desk[u].id, [rows[desk[u].id] EXCEPT !.status = s], desk[u].plan)
      BY <2>2 DEF ManualStop
    <3>3. [rows[desk[u].id] EXCEPT !.status = s].plan = rows[desk[u].id].plan
      BY <3>1 DEF Rows
    <3>. QED BY <2>0, <3>1, <3>2, <3>3, StatusKeepsPlans, LeavesReplanning
  <2>. QED BY <1>2, <2>1, <2>2 DEF UserNext
<1>3. ASSUME NEW r \in Recorders, RecorderNext(r)
      PROVE  /\ rows'[i].plan = rows[i].plan
             /\ \A q \in Recorders : ~Replanning(q, i)'
  <2>0. r \in Actors BY DEF Actors
  <2>g. ASSUME GoSave(r)
        PROVE  \A q \in Recorders : ~Replanning(q, i)'
    <3>1. desk'[r].pc = "save" /\ \A b \in Actors \ {r} : desk'[b] = desk[b]
      BY <1>0, <2>0, <2>g DEF GoSave, Become, Desks
    <3>. QED BY <2>0, <3>1, NoNewReplanning
  <2>t. ASSUME NEW k \in Ids, NEW pc \in Steps, TakeUp(r, k, pc), pc # "replan" \/ k # i
        PROVE  \A q \in Recorders : ~Replanning(q, i)'
    <3>1. /\ desk'[r].pc = pc /\ desk'[r].id = k
          /\ \A b \in Actors \ {r} : desk'[b] = desk[b]
      BY <1>0, <2>0, <2>t DEF TakeUp, Become, Desks
    <3>. QED BY <2>0, <2>t, <3>1, NoNewReplanning
  <2>1. CASE Analyse(r)
    <3>1. desk'[r].pc = "market" /\ \A b \in Actors \ {r} : desk'[b] = desk[b]
      BY <1>0, <2>0, <2>1 DEF Analyse, Become, Idle
    <3>. QED BY <1>u, <2>0, <2>1, <3>1, NoNewReplanning DEF Analyse
  <2>2. CASE ReadMarket(r)
    <3>1. \A k \in OpenRows : k \in Ids BY DEF OpenRows
    <3>2. \/ Leave(r) \/ GoSave(r)
          \/ \E k \in OpenRows : TakeUp(r, k, "refresh") \/ TakeUp(r, k, "flip")
      BY <2>2 DEF ReadMarket
    <3>. QED BY <1>u, <2>0, <2>2, <2>g, <2>t, <3>1, <3>2, LeavesReplanning
         DEF ReadMarket, Steps
  <2>3. CASE ReadFlip(r)
    <3>1. desk[r].id \in Ids BY <2>0, <2>3, Reading DEF ReadFlip, At, Working
    <3>2. CASE Become(r, [desk[r] EXCEPT !.pc = "invalidate"])
      <4>1. desk'[r].pc = "invalidate" /\ \A b \in Actors \ {r} : desk'[b] = desk[b]
        BY <1>0, <2>0, <3>2 DEF Become, Desks
      <4>. QED BY <1>u, <2>0, <2>3, <4>1, NoNewReplanning DEF ReadFlip
    <3>. QED BY <1>u, <2>3, <2>g, <3>2 DEF ReadFlip
  <2>4. CASE Invalidate(r)
    <3>1. desk[r].id \in Ids /\ rows[desk[r].id] \in Rows /\ GoSave(r)
      BY <2>0, <2>4, Reading DEF Invalidate, At, Working
    <3>2. Write(desk[r].id, [rows[desk[r].id] EXCEPT !.status = "INVALIDATED"],
                rows[desk[r].id].plan)
      BY <2>4 DEF Invalidate
    <3>3. [rows[desk[r].id] EXCEPT !.status = "INVALIDATED"].plan = rows[desk[r].id].plan
      BY <3>1 DEF Rows
    <3>. QED BY <2>g, <3>1, <3>2, <3>3, StatusKeepsPlans
  <2>5. CASE ReadDuplicate(r)
    <3>1. desk[r].id \in Ids BY <2>0, <2>5, Reading DEF ReadDuplicate, At, Working
    <3>2. Immutable(rows[i].status) BY DEF Entered, Immutable, Live
    <3>3. CASE Leave(r)
      BY <1>u, <2>0, <2>5, <3>3, LeavesReplanning DEF ReadDuplicate
    <3>4. CASE ~Immutable(rows[desk[r].id].status) /\ TakeUp(r, desk[r].id, "replan")
      BY <1>u, <2>5, <2>t, <3>1, <3>2, <3>4 DEF ReadDuplicate, Steps
    <3>. QED BY <2>5, <3>3, <3>4 DEF ReadDuplicate
  <2>6. CASE Replan(r)
    <3>1. desk[r].id \in Ids \ {i} /\ Leave(r)
      BY <2>0, <2>6, Reading DEF Replan, At, Working, Replanning
    <3>2. \E row, plan : Write(desk[r].id, row, plan) BY <2>6 DEF Replan
    <3>. QED BY <2>0, <3>1, <3>2, WriteElsewhere, LeavesReplanning
  <2>7. CASE Save(r)
    <3>1. PICK k \in Ids, row \in Rows : rows[k].status = NoStatus /\ Write(k, row, desk[r].plan)
      BY <2>7, Inserted
    <3>2. k # i BY <3>1 DEF Entered, NoStatus
    <3>. QED BY <2>0, <2>7, <3>1, <3>2, WriteElsewhere, LeavesReplanning DEF Save
  <2>. QED BY <1>3, <2>1, <2>2, <2>3, <2>4, <2>5, <2>6, <2>7 DEF RecorderNext
<1>4. ASSUME NEW a \in Actors, Abandon(a)
      PROVE  /\ rows'[i].plan = rows[i].plan
             /\ \A r \in Recorders : ~Replanning(r, i)'
  BY <1>u, <1>4, LeavesReplanning DEF Abandon
<1>5. ASSUME NEW k \in Ids, Expire(k)
      PROVE  /\ rows'[i].plan = rows[i].plan
             /\ \A r \in Recorders : ~Replanning(r, i)'
  BY <1>5 DEF Expire, Replanning, At
<1>. QED BY <1>1, <1>2, <1>3, <1>4, <1>5 DEF Next

\* The plan of a row the price has entered changes only by a refresh that had read the
\* row before, and none begins while the row is in that state.
THEOREM LockedPlans == Spec => PlanIsLocked
<1>1. ASSUME IInv, Next, NEW i \in Ids, Fixed(i)
      PROVE  /\ rows'[i].plan = rows[i].plan
             /\ rows'[i].status \in {"TRIGGERED", "ACTIVE", "TP1", "TP2"} => Fixed(i)'
  BY <1>1, LockedStep DEF Fixed, Entered, Replanning, At
<1>2. IInv /\ [Next]_vars
        => [\A i \in Ids : Fixed(i) =>
              /\ rows'[i].plan = rows[i].plan
              /\ rows'[i].status \in {"TRIGGERED", "ACTIVE", "TP1", "TP2"}
                    => Fixed(i)']_vars
  BY <1>1
<1>. QED BY <1>2, Invariance, PTL DEF Spec, PlanIsLocked
-----------------------------------------------------------------------------
(* Sides. *)

\* A recorder that goes to refresh a row has a plan of the row's side.
SideOK(r) ==
    desk[r].pc \in {"refresh", "replan"} => SameSide(rows[desk[r].id].plan, desk[r].plan)
SidesOK == \A r \in Recorders : SideOK(r)

\* The plan of a row changes to that of a recorder that refreshes it, or not at all.
LEMMA PlansChange ==
    ASSUME IInv, Next, NEW i \in Ids, rows[i].status # NoStatus
    PROVE  \/ rows'[i].plan = rows[i].plan
           \/ \E r \in Recorders : Replanning(r, i) /\ rows'[i].plan = desk[r].plan
<1>0. rows \in [Ids -> Rows] BY DEF IInv, TypeOK
<1>u. Untouched => rows'[i].plan = rows[i].plan BY DEF Untouched
<1>s. ASSUME NEW a \in Actors, desk[a].pc \in Working, NEW row,
             NEW plan, row.plan = rows[desk[a].id].plan, Write(desk[a].id, row, plan)
      PROVE  rows'[i].plan = rows[i].plan
  BY <1>s, Reading, StatusKeepsPlans
<1>1. ASSUME NEW t \in Trackers, TrackerNext(t) PROVE rows'[i].plan = rows[i].plan
  <2>0. t \in Actors BY DEF Actors
  <2>1. CASE Transition(t)
    <3>1. desk[t].pc \in Working BY <2>1 DEF Transition, At, Working
    <3>2. rows[desk[t].id] \in Rows BY <2>0, <3>1, Reading
    <3>3. PICK e : Write(desk[t].id, [rows[desk[t].id] EXCEPT !.status = e], desk[t].plan)
      BY <2>1 DEF Transition
    <3>4. [rows[desk[t].id] EXCEPT !.status = e].plan = rows[desk[t].id].plan
      BY <3>2 DEF Rows
    <3>. QED BY <1>s, <2>0, <3>1, <3>3, <3>4
  <2>2. CASE HitTarget(t)
    <3>1. desk[t].pc \in Working BY <2>2 DEF HitTarget, At, Working
    <3>2. rows[desk[t].id] \in Rows BY <2>0, <3>1, Reading
    <3>3. PICK n : Write(desk[t].id, [rows[desk[t].id] EXCEPT !.status = TargetName(n),
                                                              !.hits = MaxHits(@, n)],
                         desk[t].plan)
      BY <2>2 DEF HitTarget
    <3>4. [rows[desk[t].id] EXCEPT !.status = TargetName(n), !.hits = MaxHits(@, n)].plan
            = rows[desk[t].id].plan
      BY <3>2 DEF Rows
    <3>. QED BY <1>s, <2>0, <3>1, <3>3, <3>4
  <2>. QED BY <1>u, <1>1, <2>1, <2>2 DEF TrackerNext, Update, ReadOpen, Stay
<1>2. ASSUME NEW u \in Users, UserNext(u) PROVE rows'[i].plan = rows[i].plan
  <2>0. u \in Actors BY DEF Actors
  <2>1. CASE ManualStop(u)
    <3>1. desk[u].pc \in Working BY <2>1 DEF ManualStop, At, Working
    <3>2. rows[desk[u].id] \in Rows BY <2>0, <3>1, Reading
    <3>3. Write(desk[u].id, [rows[desk[u].id] EXCEPT !.status = Stopped(desk[u].status)],
                desk[u].plan)
      BY <2>1 DEF ManualStop
    <3>4. [rows[desk[u].id] EXCEPT !.status = Stopped(desk[u].status)].plan
            = rows[desk[u].id].plan
      BY <3>2 DEF Rows
    <3>. QED BY <1>s, <2>0, <3>1, <3>3, <3>4
  <2>. QED BY <1>u, <1>2, <2>1 DEF UserNext, ReadStop
<1>3. ASSUME NEW r \in Recorders, RecorderNext(r)
      PROVE  \/ rows'[i].plan = rows[i].plan
             \/ Replanning(r, i) /\ rows'[i].plan = desk[r].plan
  <2>0. r \in Actors BY DEF Actors
  <2>1. CASE Invalidate(r)
    <3>1. desk[r].pc \in Working BY <2>1 DEF Invalidate, At, Working
    <3>2. rows[desk[r].id] \in Rows BY <2>0, <3>1, Reading
    <3>3. Write(desk[r].id, [rows[desk[r].id] EXCEPT !.status = "INVALIDATED"],
                rows[desk[r].id].plan)
      BY <2>1 DEF Invalidate
    <3>4. [rows[desk[r].id] EXCEPT !.status = "INVALIDATED"].plan = rows[desk[r].id].plan
      BY <3>2 DEF Rows
    <3>5. \E row, plan : row.plan = rows[desk[r].id].plan /\ Write(desk[r].id, row, plan)
      BY <3>3, <3>4
    <3>. QED BY <1>s, <2>0, <3>1, <3>5
  <2>2. CASE Replan(r)
    <3>1. desk[r].id \in Ids /\ rows[desk[r].id] \in Rows
      BY <2>0, <2>2, Reading DEF Replan, At, Working
    <3>2. CASE desk[r].id = i
      BY <1>0, <2>2, <3>1, <3>2 DEF Replan, Replanning, Write, Rows
    <3>3. CASE desk[r].id # i
      <4>1. \E row, plan : Write(desk[r].id, row, plan) BY <2>2 DEF Replan
      <4>. QED BY <3>1, <3>3, <4>1, WriteElsewhere
    <3>. QED BY <3>2, <3>3
  <2>3. CASE Save(r)
    <3>1. PICK k \in Ids, row \in Rows : rows[k].status = NoStatus /\ Write(k, row, desk[r].plan)
      BY <2>3, Inserted
    <3>. QED BY <3>1, WriteElsewhere
  <2>. QED BY <1>u, <1>3, <2>1, <2>2, <2>3
       DEF RecorderNext, Analyse, ReadMarket, ReadFlip, ReadDuplicate
<1>. QED BY <1>1, <1>2, <1>3, <1>u DEF Next, Abandon, Expire

\* So a row keeps its side ...
LEMMA SideStep ==
    ASSUME IInv, SidesOK, Next, NEW i \in Ids, rows[i].status # NoStatus
    PROVE  SameSide(rows'[i].plan, rows[i].plan)
BY PlansChange DEF SidesOK, SideOK, Replanning, At, SameSide

\* Who enters a refresh has just read the row, or has read it before.
LEMMA WhoRefreshes ==
    ASSUME IInv, [Next]_vars, NEW r \in Recorders,
           desk'[r].pc \in {"refresh", "replan"}, desk'[r] # desk[r]
    PROVE  ReadMarket(r) \/ ReadDuplicate(r)
<1>0. desk \in [Actors -> Desks] BY DEF IInv, TypeOK
<1>o. ASSUME NEW a \in Actors, \A b \in Actors \ {a} : desk'[b] = desk[b] PROVE a = r
  BY <1>o DEF Actors
<1>l. ASSUME NEW a \in Actors, Leave(a) PROVE FALSE
  BY <1>l, <1>o, LeaveKeeps
<1>b. ASSUME NEW a \in Actors, NEW now, Become(a, now) PROVE a = r /\ desk'[r] = now
  BY <1>0, <1>b, <1>o DEF Become
<1>1. ASSUME NEW t \in Trackers, TrackerNext(t) PROVE FALSE
  <2>1. t \in Actors /\ t \notin Recorders BY SignalAssumption DEF Actors
  <2>. QED BY <1>1, <1>b, <1>l, <2>1
       DEF TrackerNext, ReadOpen, Update, Transition, HitTarget, Stay
<1>2. ASSUME NEW u \in Users, UserNext(u) PROVE FALSE
  <2>1. u \in Actors /\ u \notin Recorders BY SignalAssumption DEF Actors
  <2>. QED BY <1>2, <1>b, <1>l, <2>1 DEF UserNext, ReadStop, ManualStop
<1>3. ASSUME NEW q \in Recorders, RecorderNext(q) PROVE ReadMarket(r) \/ ReadDuplicate(r)
  <2>0. q \in Actors BY DEF Actors
  <2>d. desk[q] \in Desks BY <1>0, <2>0
  <2>1. ASSUME Analyse(q) PROVE FALSE
    <3>1. PICK p, ready :
              Become(q, [Idle EXCEPT !.pc = "market", !.plan = p, !.ready = ready])
      BY <2>1 DEF Analyse
    <3>2. desk'[r] = [Idle EXCEPT !.pc = "market", !.plan = p, !.ready = ready]
      BY <1>b, <2>0, <3>1
    <3>. QED BY <3>2 DEF Idle
  <2>g. ASSUME GoSave(q) PROVE FALSE
    <3>1. desk'[r] = [desk[q] EXCEPT !.pc = "save", !.id = NoId, !.status = NoStatus]
      BY <1>b, <2>0, <2>g DEF GoSave
    <3>. QED BY <2>d, <3>1 DEF Desks
  <2>2. ASSUME ReadFlip(q) PROVE FALSE
    <3>1. Become(q, [desk[q] EXCEPT !.pc = "invalidate"]) BY <2>2, <2>g DEF ReadFlip
    <3>2. desk'[r] = [desk[q] EXCEPT !.pc = "invalidate"]
      BY <1>b, <2>0, <3>1
    <3>. QED BY <2>d, <3>2 DEF Desks
  <2>3. ~Invalidate(q) BY <2>g DEF Invalidate
  <2>4. ~Replan(q) /\ ~Save(q) BY <1>l, <2>0 DEF Replan, Save
  <2>5. ReadMarket(q) \/ ReadDuplicate(q) BY <1>3, <2>1, <2>2, <2>3, <2>4 DEF RecorderNext
  <2>6. q = r BY <1>b, <1>l, <2>0, <2>g, <2>5 DEF ReadMarket, ReadDuplicate, TakeUp
  <2>. QED BY <2>5, <2>6
<1>4. ASSUME NEW a \in Actors, Abandon(a) PROVE FALSE
  BY <1>l, <1>4 DEF Abandon
<1>5. ASSUME UNCHANGED desk PROVE FALSE
  BY <1>5
<1>. QED BY <1>1, <1>2, <1>3, <1>4, <1>5 DEF Next, Expire, vars

\* ... and a recorder that goes to refresh it is on that side.
LEMMA SidesNext == IInv /\ SidesOK /\ [Next]_vars => SidesOK'
<1>. SUFFICES ASSUME IInv, SidesOK, [Next]_vars, NEW r \in Recorders,
                     desk'[r].pc \in {"refresh", "replan"}
              PROVE  SameSide(rows'[desk'[r].id].plan, desk'[r].plan)
  BY DEF SidesOK, SideOK
<1>0. desk \in [Actors -> Desks] /\ r \in Actors BY DEF IInv, TypeOK, Actors
<1>1. CASE desk'[r] = desk[r]
  <2>1. desk[r].id \in Ids /\ rows[desk[r].id].status # NoStatus
    BY <1>0, <1>1, Reading DEF Working
  <2>2. SameSide(rows[desk[r].id].plan, desk[r].plan) BY <1>1 DEF SidesOK, SideOK
  <2>3. SameSide(rows'[desk[r].id].plan, rows[desk[r].id].plan)
    BY <2>1, SideStep DEF vars, SameSide
  <2>. QED BY <1>1, <2>2, <2>3 DEF SameSide
<1>2. CASE desk'[r] # desk[r]
  <2>t. ASSUME NEW i, NEW pc, TakeUp(r, i, pc)
        PROVE  desk'[r].id = i /\ desk'[r].plan = desk[r].plan
    BY <1>0, <2>t DEF TakeUp, Become, Desks
  <2>1. CASE ReadMarket(r)
    <3>1. ~Leave(r) BY <1>0, LeaveKeeps
    <3>d. desk[r] \in Desks BY <1>0
    <3>2. ASSUME GoSave(r) PROVE FALSE
      <4>1. desk'[r] = [desk[r] EXCEPT !.pc = "save", !.id = NoId, !.status = NoStatus]
        BY <1>0, <3>2 DEF GoSave, Become
      <4>. QED BY <3>d, <4>1 DEF Desks
    <3>3. ASSUME NEW i, TakeUp(r, i, "flip") PROVE FALSE
      <4>1. desk'[r] = [desk[r] EXCEPT !.pc = "flip", !.id = i, !.status = rows[i].status]
        BY <1>0, <3>3 DEF TakeUp, Become
      <4>. QED BY <3>d, <4>1 DEF Desks
    <3>4. PICK i \in OpenRows :
              SameSide(rows[i].plan, desk[r].plan) /\ TakeUp(r, i, "refresh")
      BY <2>1, <3>1, <3>2, <3>3 DEF ReadMarket
    <3>5. rows' = rows BY <2>1 DEF ReadMarket, Untouched
    <3>. QED BY <2>t, <3>4, <3>5
  <2>2. CASE ReadDuplicate(r)
    <3>1. ~Leave(r) BY <1>0, LeaveKeeps
    <3>2. TakeUp(r, desk[r].id, "replan") BY <2>2, <3>1 DEF ReadDuplicate
    <3>3. SameSide(rows[desk[r].id].plan, desk[r].plan)
      BY <2>2 DEF ReadDuplicate, At, SidesOK, SideOK
    <3>4. rows' = rows BY <2>2 DEF ReadDuplicate, Untouched
    <3>. QED BY <2>t, <3>2, <3>3, <3>4
  <2>. QED BY <1>2, <2>1, <2>2, WhoRefreshes
<1>. QED BY <1>1, <1>2

\* A signal never changes sides: whoever refreshes it found it on the side of the new
\* plan, and until he writes nobody else can have moved it to the other one.
THEOREM KeptSides == Spec => SideIsKept
<1>1. Init => SidesOK
  <2>1. Init => \A r \in Recorders : desk[r].pc = "idle" BY DEF Init, Idle, Actors
  <2>. QED BY <2>1 DEF SidesOK, SideOK
<1>2. IInv /\ SidesOK /\ [Next]_vars
        => [\A i \in Ids : rows[i].status # NoStatus
                => SameSide(rows'[i].plan, rows[i].plan)]_vars
  BY SideStep
<1>. QED BY <1>1, <1>2, SidesNext, Invariance, PTL DEF Spec, SideIsKept

-----------------------------------------------------------------------------
(* Live rows. *)

\* A live trade is withdrawn only by an actor whose decision is older than that: the
\* tracker and the user write what their reading allows, and a recorder comes to
\* invalidate or to replan a row only from a reading that was not live.
LEMMA WithdrawStep ==
    ASSUME IInv, Next, NEW i \in Ids, rows[i].status \in Live, rows'[i].status \notin Traded
    PROVE  \E a \in Actors :
               desk[a].id = i /\ desk[a].status \notin Live /\ desk'[a] # desk[a]
<1>0. rows'[i] # rows[i] /\ rows[i].status # NoStatus BY DEF Traded, Live, NoStatus
<1>u. ~Untouched BY <1>0 DEF Untouched
<1>w. ASSUME NEW a \in Actors, desk[a].pc \in Working, NEW s, NEW plan, NEW row,
             row.status = s, Write(desk[a].id, row, plan)
      PROVE  desk[a].id = i /\ s \notin Traded
  <2>1. desk[a].id \in Ids BY <1>w, Reading
  <2>2. desk[a].id = i BY <1>0, <1>w, <2>1, WriteElsewhere
  <2>. QED BY <1>w, <2>2 DEF Write, IInv, TypeOK
<1>1. ASSUME NEW t \in Trackers, TrackerNext(t)
      PROVE  t \in Actors /\ desk[t].id = i /\ desk[t].status \notin Live /\ desk'[t] # desk[t]
  <2>0. t \in Actors BY DEF Actors
  <2>1. CASE Transition(t)
    <3>1. desk[t].pc = "update" /\ Leave(t) BY <2>1 DEF Transition, At
    <3>2. desk[t].status \in Open /\ rows[desk[t].id] \in Rows
      BY <2>0, <3>1, Reading DEF Working
    <3>3. PICK s \in Outcomes(desk[t].status, desk[t].id) :
             Write(desk[t].id, [rows[desk[t].id] EXCEPT !.status = s], desk[t].plan)
      BY <2>1 DEF Transition
    <3>4. [rows[desk[t].id] EXCEPT !.status = s].status = s BY <3>2 DEF Rows
    <3>5. desk[t].id = i /\ s \notin Traded BY <1>w, <2>0, <3>1, <3>3, <3>4 DEF Working
    <3>6. desk[t].status \notin Live BY <3>2, <3>3, <3>5, Foreseen DEF Traded
    <3>7. desk'[t].pc \in {"idle", "done"} BY <2>0, <3>1, LeaveKeeps
    <3>. QED BY <2>0, <3>1, <3>5, <3>6, <3>7
  <2>2. ~HitTarget(t)
    <3>. SUFFICES ASSUME HitTarget(t) PROVE FALSE OBVIOUS
    <3>1. desk[t].pc \in Working BY DEF HitTarget, At, Working
    <3>2. rows[desk[t].id] \in Rows BY <2>0, <3>1, Reading
    <3>3. PICK n \in 1..3 :
             Write(desk[t].id, [rows[desk[t].id] EXCEPT !.status = TargetName(n),
                                                        !.hits = MaxHits(@, n)], desk[t].plan)
      BY DEF HitTarget
    <3>4. [rows[desk[t].id] EXCEPT !.status = TargetName(n), !.hits = MaxHits(@, n)].status
            = TargetName(n)
      BY <3>2 DEF Rows
    <3>5. TargetName(n) \notin Traded BY <1>w, <2>0, <3>1, <3>3, <3>4
    <3>. QED BY <3>5 DEF TargetName, Traded, Live
  <2>. QED BY <1>1, <1>u, <2>1, <2>2 DEF TrackerNext, Update, ReadOpen, Stay
<1>2. ASSUME NEW u \in Users, UserNext(u)
      PROVE  u \in Actors /\ desk[u].id = i /\ desk[u].status \notin Live /\ desk'[u] # desk[u]
  <2>0. u \in Actors BY DEF Actors
  <2>1. ManualStop(u) BY <1>2, <1>u DEF UserNext, ReadStop
  <2>2. desk[u].pc = "stop" /\ Leave(u) BY <2>1 DEF ManualStop, At
  <2>3. desk[u].status \in Open /\ rows[desk[u].id] \in Rows
    BY <2>0, <2>2, Reading DEF Working
  <2>4. [rows[desk[u].id] EXCEPT !.status = Stopped(desk[u].status)].status
          = Stopped(desk[u].status)
    BY <2>3 DEF Rows
  <2>5. Write(desk[u].id, [rows[desk[u].id] EXCEPT !.status = Stopped(desk[u].status)],
              desk[u].plan)
    BY <2>1 DEF ManualStop
  <2>6. desk[u].id = i /\ Stopped(desk[u].status) \notin Traded
    BY <1>w, <2>0, <2>2, <2>4, <2>5 DEF Working
  <2>7. desk[u].status \notin Live BY <2>6 DEF Stopped, Traded, Pending, Live
  <2>8. desk'[u].pc \in {"idle", "done"} BY <2>0, <2>2, LeaveKeeps
  <2>. QED BY <2>0, <2>2, <2>6, <2>7, <2>8
<1>3. ASSUME NEW r \in Recorders, RecorderNext(r)
      PROVE  r \in Actors /\ desk[r].id = i /\ desk[r].status \notin Live /\ desk'[r] # desk[r]
  <2>0. r \in Actors /\ desk \in [Actors -> Desks] BY DEF Actors, IInv, TypeOK
  <2>1. ~Save(r)
    <3>. SUFFICES ASSUME Save(r) PROVE FALSE OBVIOUS
    <3>1. PICK k \in Ids, row \in Rows : rows[k].status = NoStatus /\ Write(k, row, desk[r].plan)
      BY Inserted
    <3>. QED BY <1>0, <3>1, WriteElsewhere
  <2>2. Invalidate(r) \/ Replan(r)
    BY <1>3, <1>u, <2>1 DEF RecorderNext, Analyse, ReadMarket, ReadFlip, ReadDuplicate
  <2>3. desk[r].pc \in {"invalidate", "replan"} BY <2>2 DEF Invalidate, Replan, At
  <2>4. \E row, plan : Write(desk[r].id, row, plan) BY <2>2 DEF Invalidate, Replan
  <2>5. desk[r].id = i BY <1>w, <2>0, <2>3, <2>4 DEF Working
  <2>6. desk[r].status \notin Live BY <2>0, <2>3 DEF IInv, DeskOK
  <2>7. CASE Replan(r)
    <3>1. desk'[r].pc \in {"idle", "done"} BY <2>0, <2>7, LeaveKeeps DEF Replan
    <3>. QED BY <2>0, <2>3, <2>5, <2>6, <3>1
  <2>8. CASE Invalidate(r)
    <3>1. desk'[r].pc = "save" BY <2>0, <2>8 DEF Invalidate, GoSave, Become, Desks
    <3>. QED BY <2>0, <2>3, <2>5, <2>6, <3>1
  <2>. QED BY <2>2, <2>7, <2>8
<1>4. \A a \in Actors : ~Abandon(a) BY <1>u DEF Abandon
<1>5. \A k \in Ids : ~Expire(k) BY <1>0 DEF Expire
<1>. QED BY <1>1, <1>2, <1>3, <1>4, <1>5 DEF Next

\* Whatever the tracker, the user and the recorders do between one another's readings and
\* writes, a trade that was live when its writer decided is not withdrawn.
THEOREM OldReadingsWithdraw == Spec => OnlyOldReadingsWithdraw
<1>1. IInv /\ [Next]_vars
        => [\A i \in Ids :
              rows[i].status \in Live /\ rows'[i].status \notin Traded =>
                  \E a \in Actors :
                      desk[a].id = i /\ desk[a].status \notin Live /\ desk'[a] # desk[a]]_vars
  BY WithdrawStep
<1>. QED BY <1>1, Invariance, PTL DEF Spec, OnlyOldReadingsWithdraw
=============================================================================
