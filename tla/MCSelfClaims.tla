---------------------------- MODULE MCSelfClaims ----------------------------
(* The self model on a few claims: two that say the same and one that says *)
(* the opposite.                                                           *)
EXTENDS SelfClaims, TLC

CONSTANTS a, b, n, s1

MCClasses == a :> {"B"} @@ b :> {"B"} @@ n :> {"A", "C"}

MCWording == [c \in Claim |-> 1]

MCTopic == [c \in Claim |-> 1]

MCNegative == [c \in Claim |-> c = n]

MCContext == [s \in Source |-> IF s \in RawInput THEN 3 ELSE IF s = b THEN 2 ELSE 1]
=============================================================================
