----------------------------- MODULE OrderTruth -----------------------------
(***************************************************************************)
(* What durable execution promises of each execution, seen from outside:   *)
(* the exchange takes at most one request of it; what is known of its      *)
(* quantity only grows and never exceeds what was executed; and a verdict  *)
(* is given once, is what the exchange says, and is never "not placed"     *)
(* while an order exists or can still come to exist.                       *)
(*                                                                         *)
(* LiveExecution implements this specification (LiveExecution!KeepsTruth). *)
(***************************************************************************)
EXTENDS Naturals

CONSTANTS Executions, Requests, Quantity

VARIABLES
    taken,     \* the requests the exchange turned into orders
    order,     \* the order's status at the exchange
    executed,  \* how much of it the exchange has executed
    known,     \* how much of it the program knows
    verdict    \* how the execution ended, as far as the program says

vars == <<taken, order, executed, known, verdict>>

Init ==
    /\ taken = [e \in Executions |-> {}]
    /\ order = [e \in Executions |-> "NONE"]
    /\ executed = [e \in Executions |-> 0]
    /\ known = [e \in Executions |-> 0]
    /\ verdict = [e \in Executions |-> "PENDING"]

Take(e, n) ==
    /\ taken[e] = {}
    /\ verdict[e] = "PENDING"
    /\ taken' = [taken EXCEPT ![e] = {n}]
    /\ order' = [order EXCEPT ![e] = "OPEN"]
    /\ UNCHANGED <<executed, known, verdict>>

Trade(e) ==
    /\ order[e] = "OPEN"
    /\ executed' = [executed EXCEPT ![e] = @ + 1]
    /\ order' = [order EXCEPT ![e] = IF executed[e] + 1 = Quantity THEN "FILLED" ELSE @]
    /\ UNCHANGED <<taken, known, verdict>>

Close(e, status) ==
    /\ order[e] = "OPEN"
    /\ order' = [order EXCEPT ![e] = status]
    /\ UNCHANGED <<taken, executed, known, verdict>>

Learn(e, quantity) ==
    /\ known[e] < quantity
    /\ quantity <= executed[e]
    /\ known' = [known EXCEPT ![e] = quantity]
    /\ UNCHANGED <<taken, order, executed, verdict>>

Conclude(e) ==
    /\ verdict[e] = "PENDING"
    /\ order[e] # "OPEN"
    /\ verdict' = [verdict EXCEPT ![e] = IF order[e] = "NONE" THEN "NOT_PLACED" ELSE order[e]]
    /\ UNCHANGED <<taken, order, executed, known>>

Next ==
    \E e \in Executions :
        \/ \E n \in Requests : Take(e, n)
        \/ Trade(e)
        \/ \E status \in {"CANCELLED", "REJECTED"} : Close(e, status)
        \/ \E quantity \in 1..Quantity : Learn(e, quantity)
        \/ Conclude(e)

Spec == Init /\ [][Next]_vars

=============================================================================
