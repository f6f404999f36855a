--------------------------- MODULE MCPolicyReload ---------------------------
(* Two policies, an empty or malformed file, and, where it matters, a file   *)
(* that is not UTF-8 or holds a date that does not exist.                    *)
EXTENDS PolicyReload

CONSTANTS p1, p2, odd

TwoPolicies == {p1, p2}
Plain == TwoPolicies \cup {Empty}
WithOdd == Plain \cup {odd}
Bad == {Empty}
=============================================================================
