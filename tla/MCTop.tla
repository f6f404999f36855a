------------------------------- MODULE MCTop -------------------------------
(* The dashboards over two targets: "a" climbs from one gated step to a     *)
(* destructive one, "b" restarts unattended.                                *)
EXTENDS Top, MCTargets

TopSpecs == {"db", "svc"}
TopLadders ==
  [s \in TopSpecs |->
     IF s = "db" THEN <<Rung(1, "gated", FALSE), Rung(2, "gated", TRUE)>>
                 ELSE <<Rung(1, "auto", FALSE)>>]

OneFleet ==
  {[frozen |-> f, targets |-> [n \in TwoNames |-> IF n = "a" THEN "db" ELSE "svc"]] :
     f \in BOOLEAN}
=============================================================================
