---------------------------- MODULE AlertContract ----------------------------
(***************************************************************************)
(* What the engine promises about alerts, whatever it does to get there:   *)
(* only a supervised target has an open alert, an alert opens and closes   *)
(* one at a time, and a change of the target list closes the alerts of     *)
(* the targets it drops and touches no other.                              *)
(***************************************************************************)
CONSTANT Names
VARIABLES supervised, open
contractVars == <<supervised, open>>

Init == supervised \subseteq Names /\ open = {}

Open(t) == /\ t \in supervised \ open
           /\ open' = open \cup {t}
           /\ UNCHANGED supervised

Close(t) == /\ t \in open
            /\ open' = open \ {t}
            /\ UNCHANGED supervised

Retarget(S) == /\ supervised' = S
               /\ open' = open \cap S

Next == \/ \E t \in Names : Open(t) \/ Close(t)
        \/ \E S \in SUBSET Names : Retarget(S)

Spec == Init /\ [][Next]_contractVars
=============================================================================
