------------------------------ MODULE AuditLog ------------------------------
(***************************************************************************)
(* What the store promises about the engine's events, which are numbered   *)
(* in the order they were recorded: it holds the earliest of them, each    *)
(* once and in order, and grows by whole batches.                          *)
(***************************************************************************)
EXTENDS Naturals, Sequences
VARIABLES recorded, stored
logVars == <<recorded, stored>>

FirstEvents(n) == [i \in 1 .. n |-> i]

Init == recorded = 0 /\ stored = << >>

Record == recorded' = recorded + 1 /\ UNCHANGED stored

Extend == /\ \E n \in Len(stored) .. recorded : stored' = FirstEvents(n)
          /\ UNCHANGED recorded

Next == Record \/ Extend

Spec == Init /\ [][Next]_logVars
=============================================================================
