---------------------------- MODULE MCWindowSync ----------------------------
(* One alert with two decisions and one with none, a window apart.           *)
EXTENDS WindowSync

CONSTANTS main, other, a1, a2, d1, d2

OneInstance == {main}
TwoInstances == {main, other}
MCAlerts == {a1, a2}
OneAlert == {a1}
MCDecisionIds == {d1, d2}
OneDecision == {d1}
MCAlertOf == [d \in DecisionIds |-> a1]
MCTimeOf == [a \in Alerts |-> IF a = a1 THEN 0 ELSE 1]
=============================================================================
