--------------------------- MODULE PolicyCutover ---------------------------
(***************************************************************************)
(* What ApplyRules promises about marking, without chains or generations:  *)
(* the policy in force changes in one step from the old one to the one     *)
(* that was asked for, and it is taken away only by a flush or a reboot.   *)
(***************************************************************************)
CONSTANT Policies

VARIABLES
    live,   \* <<policy>> in force, <<>> when there is none
    goal,   \* the policy of the last request
    mode    \* the last call: "none", "apply", "flush", "boot"; "failed" once it failed

vars == <<live, goal, mode>>

Init == live = <<>> /\ goal = {} /\ mode = "none"

Apply == mode' = "apply" /\ goal' \in Policies /\ UNCHANGED live

Flush == mode' = "flush" /\ goal' = {} /\ UNCHANGED live

\* The request takes effect, whole.
Cutover == mode = "apply" /\ live' = <<goal>> /\ UNCHANGED <<goal, mode>>

\* The call fails: the policy in force stays until the next call.
Fail == mode \in {"apply", "flush"} /\ mode' = "failed" /\ goal' = {} /\ UNCHANGED live

Clear == mode = "flush" /\ live' = <<>> /\ UNCHANGED <<goal, mode>>

Boot == mode' = "boot" /\ live' = <<>> /\ goal' = {}

Next == Apply \/ Flush \/ Cutover \/ Fail \/ Clear \/ Boot

Spec == Init /\ [][Next]_vars
=============================================================================
