---------------------------- MODULE MCPromotion ----------------------------
(* Small instance of Promotion: two scopes of one venue, and one kind of  *)
(* evidence for the four that CANARY requires.                             *)
EXTENDS Promotion, TLC

CONSTANTS s1, s2, v1, drill

OneVenue == [s \in Scopes |-> v1]
DrillRequired == [t \in Stages |-> IF t = CANARY THEN {drill} ELSE {}]
Symmetry == Permutations(Scopes)
=============================================================================
