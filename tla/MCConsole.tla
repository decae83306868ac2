------------------------------- MODULE MCConsole -------------------------------
(* The console on small instances.  Its screens share no state of their     *)
(* own, so a run lets one of them move in a behaviour.                      *)
EXTENDS Console

CONSTANTS a1, a2, soon, back, k1, k2, x1, x2, x3, y1, y2

VARIABLE focus

(* A stay of two nights whose rate plan gives an odd amount, so that the    *)
(* rate in the field times the nights is not the price.                     *)
Nights == [d \in {soon, back} |-> IF d = soon THEN 2 ELSE 1]
PlanPrice(one) == [x \in {a1, a2} \X {soon, back} |-> IF x[1] = a1 THEN one ELSE 8]
PlanPrices == {PlanPrice(5), PlanPrice(6)}

(* A rate, and one below the minimum of its field. *)
Rates == {3, -1}

(* Drafts and reasons with amounts that differ, change, and are zero.       *)
Worth(a, b) == [c \in {x1, x2, x3, y1, y2} |-> IF c = x1 THEN a ELSE IF c = y1 THEN b ELSE 3]
AllWorths == {Worth(1, 0), Worth(2, 4)}

LoneInit ==
  /\ ConsoleInit
  /\ focus \in {"quickAdd", "panel", "panes"}
  /\ price = PlanPrice(5) /\ form.rooms = {a1}   \* the first room of the property
  /\ focus # "panel" => \A id \in Card : booking[id].status = "CONFIRMED"
  /\ focus # "panes" => pane = "move" /\ choice = x1 /\ worth = Worth(1, 0)

LoneStep ==
  /\ \/ focus = "quickAdd" /\ QuickAddStep
     \/ focus = "panel" /\ PanelStep
     \/ focus = "panes" /\ PanesStep
  /\ UNCHANGED focus

LoneSpec ==
  /\ LoneInit
  /\ [][LoneStep]_<<console, focus>>
  /\ QuickAddFairness /\ PanelFairness
================================================================================
