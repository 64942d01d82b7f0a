------------------------------ MODULE CopyJob ------------------------------
(***************************************************************************)
(* What the copy journal promises of each key, seen from outside: a plan   *)
(* is refused or opened; it takes effect at most once, never after it was  *)
(* refused or found void; it is called done only when it has taken effect. *)
(* A job that was given up may still have taken effect, or take it late:   *)
(* its worker may be slow and not dead.                                    *)
(*                                                                         *)
(* CopyExecution implements this specification (CopyExecution!KeepsJob).   *)
(***************************************************************************)
EXTENDS Naturals

CONSTANT Keys

VARIABLES
    outcome,  \* how the job stands
    effect    \* the quantity it has bought

vars == <<outcome, effect>>

Init ==
    /\ outcome = [k \in Keys |-> "NONE"]
    /\ effect = [k \in Keys |-> 0]

Move(k, from, to) ==
    /\ outcome[k] = from
    /\ outcome' = [outcome EXCEPT ![k] = to]
    /\ UNCHANGED effect

Receive(k) == Move(k, "NONE", "OPEN") \/ Move(k, "NONE", "REFUSED")
Refuse(k) == effect[k] = 0 /\ Move(k, "OPEN", "REFUSED")
GiveUp(k) == Move(k, "OPEN", "GIVEN_UP")
Complete(k) == Move(k, "OPEN", IF effect[k] > 0 THEN "DONE" ELSE "VOID")

Act(k, quantity) ==
    /\ outcome[k] \in {"OPEN", "GIVEN_UP"}
    /\ effect[k] = 0
    /\ effect' = [effect EXCEPT ![k] = quantity]
    /\ UNCHANGED outcome

Next ==
    \E k \in Keys :
        \/ Receive(k) \/ Refuse(k) \/ GiveUp(k) \/ Complete(k)
        \/ \E quantity \in {1, 2} : Act(k, quantity)

Spec == Init /\ [][Next]_vars

=============================================================================
